---------------------- MODULE MCImageBuildController ----------------------
(* Instances of ImageBuildController for TLC.                              *)
EXTENDS ImageBuildController, TLC

AllPresent == [policy |-> TRUE, strategy |-> TRUE, secret |-> "ok"]
DepsPresent == {AllPresent}
(* At most one of them missing, at first.                                  *)
DepsOneMissing ==
    {AllPresent, [AllPresent EXCEPT !.policy = FALSE], [AllPresent EXCEPT !.strategy = FALSE],
     [AllPresent EXCEPT !.secret = "missing"], [AllPresent EXCEPT !.secret = "badKey"],
     [AllPresent EXCEPT !.secret = "unset"]}
(* With RunResults lacking "noDigest", Tagged is not looked at.            *)
Symmetry == Permutations(Inputs) \cup Permutations(Commits)
NobodyElse == {{}}
FirstNameTaken == {{}, {<<"spec", 1>>}}
SecondNameTaken == {{}, {<<"spec", 2>>}}
FirstName == {<<"spec", 1>>}
TriggerName == {<<"oncommit", 1>>}
=============================================================================
