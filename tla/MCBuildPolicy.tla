--------------------------- MODULE MCBuildPolicy ---------------------------
(* An instance of BuildPolicy for TLC.                                     *)
EXTENDS BuildPolicy

CONSTANTS s1, s2, u, v, hour

Keep(failed, succeeded, ttl) ==
    [failedLimit |-> failed, succeededLimit |-> succeeded,
     ttlAfterFailed |-> Unset, ttlAfterSucceeded |-> ttl]

(* Nothing optional; a context directory, a secret without a name and the  *)
(* policy's retention switched off; a retention of its own.                *)
Plain ==
    [mode |-> "Present", url |-> u, image |-> v, retention |-> NoRetention,
     optional |-> [revision |-> "", contextDir |-> "", cloneSecret |-> "nil", pushSecret |-> "nil"]]
SomeSpecs ==
    {Plain,
     [Plain EXCEPT !.mode = "Absent", !.optional.contextDir = v, !.optional.cloneSecret = "",
                   !.retention = Keep(Unset, Unset, Unset)],
     [Plain EXCEPT !.optional.revision = v, !.retention = Keep(1, Unset, Unset)]}

SomePolicies ==
    {[present |-> s1, absent |-> s2, retention |-> NoRetention],
     [present |-> s1, absent |-> s1, retention |-> Keep(Unset, 10000, hour)],
     [present |-> s2, absent |-> s1, retention |-> Keep(5, Unset, Unset)]}
=============================================================================
