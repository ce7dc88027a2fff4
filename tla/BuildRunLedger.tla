--------------------------- MODULE BuildRunLedger ---------------------------
(***************************************************************************)
(* What the operator promises about the BuildRuns of one ImageBuild, said  *)
(* without caches, copies, patches or retries: there is one ledger, every  *)
(* entry is made from what the ledger says at that moment, and an entry is *)
(* made once.                                                              *)
(*                                                                         *)
(* A BuildRun is created under the number after the last one counted, and  *)
(* counted afterwards; for a pushed commit, only when the last trigger is  *)
(* old enough, and the trigger is recorded for another commit than the     *)
(* last.  ImageBuildController implements this.                            *)
(***************************************************************************)
EXTENDS Integers

CONSTANTS Commits, NoCommit

VARIABLES
    owned,    \* names of the BuildRuns of the ImageBuild
    foreign,  \* names somebody else's BuildRuns have
    counted,  \* how many runs for a changed spec are counted
    trigger,  \* the last recorded trigger: its number and its commit
    spaced    \* the last trigger known to be old enough

vars == <<owned, foreign, counted, trigger, spaced>>

Init ==
    /\ counted \in Nat /\ owned = {<<"spec", k>> : k \in 1 .. counted}
    /\ owned \cap foreign = {}
    /\ trigger = [number |-> 0, commit |-> NoCommit] /\ spaced = 0

(* A name is given to one BuildRun at a time.                              *)
Create(name) ==
    /\ name \notin owned \cup foreign /\ owned' = owned \cup {name}
    /\ UNCHANGED <<foreign, counted, trigger, spaced>>

CreateForSpec == Create(<<"spec", counted + 1>>)

CreateForCommit == trigger.number <= spaced /\ Create(<<"oncommit", trigger.number + 1>>)

Count ==
    /\ <<"spec", counted + 1>> \in owned /\ counted' = counted + 1
    /\ UNCHANGED <<owned, foreign, trigger, spaced>>

Record(c) ==
    /\ <<"oncommit", trigger.number + 1>> \in owned
    /\ trigger.number <= spaced
    /\ trigger.number # 0 => c # trigger.commit
    /\ trigger' = [number |-> trigger.number + 1, commit |-> c]
    /\ UNCHANGED <<owned, foreign, counted, spaced>>

Remove(name) ==
    /\ name \in owned /\ owned' = owned \ {name}
    /\ UNCHANGED <<foreign, counted, trigger, spaced>>

Taken(name) ==
    /\ name \notin owned \cup foreign /\ foreign' = foreign \cup {name}
    /\ UNCHANGED <<owned, counted, trigger, spaced>>

IntervalElapses ==
    /\ spaced < trigger.number /\ spaced' = trigger.number
    /\ UNCHANGED <<owned, foreign, counted, trigger>>

Next ==
    \/ CreateForSpec \/ CreateForCommit
    \/ Count \/ \E c \in Commits \cup {NoCommit} : Record(c)
    \/ \E name \in owned : Remove(name)
    \/ \E name \in foreign' : Taken(name)
    \/ IntervalElapses

Spec == Init /\ [][Next]_vars

=============================================================================
