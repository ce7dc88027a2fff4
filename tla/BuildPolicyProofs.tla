------------------------- MODULE BuildPolicyProofs -------------------------
(* What reconcileBuild computes, and what it leaves at rest, for all       *)
(* ImageBuilds, policies, changes and faults.                              *)
EXTENDS BuildPolicy, TLAPS

(* The retention the code resolves and converts is the documented one, for *)
(* every limit the CRD accepts (resolveRetention, newBuildRetention).      *)
LEMMA RetentionIsWanted ==
    ASSUME NEW i \in ImageBuildSpec, NEW p \in ImageBuildPolicySpec, NEW f \in RetentionParams
    PROVE  newBuildRetention(resolveRetention(i, p))[f] = Wanted(i, p)[f]
  <1>. DEFINE r == IF i.retention = NoRetention THEN p.retention ELSE i.retention
  <1>1. r \in Retention \cup {NoRetention}
    BY DEF ImageBuildSpec, ImageBuildPolicySpec
  <1>2. resolveRetention(i, p) = IF hasRetentionParams(r) THEN r ELSE NoRetention
    BY DEF resolveRetention, hasRetentionParams
  <1>3. Wanted(i, p)[f] = IF r = NoRetention THEN Unset ELSE r[f]
    BY DEF Wanted, Fields, RetentionParams, Optional
  <1>. HIDE DEF r
  <1>4. ASSUME r # NoRetention, r[f] # Unset, f \in {"failedLimit", "succeededLimit"}
        PROVE  uintFromNonNegativeInt32(r[f]) = r[f]
    <2>1. r \in Retention
      BY <1>1, <1>4
    <2>2. r[f] \in Limits
      BY <1>4, <2>1 DEF Retention
    <2>3. \A v \in Limits : uintFromNonNegativeInt32(v) = v
      BY DEF Limits, uintFromNonNegativeInt32
    <2>. QED
      BY <2>2, <2>3
  <1>5. r # NoRetention /\ ~hasRetentionParams(r) => r[f] = Unset
    BY DEF hasRetentionParams
  <1>6. newBuildRetention(resolveRetention(i, p))[f] =
          LET s == resolveRetention(i, p) IN
          IF s = NoRetention \/ s[f] = Unset THEN Unset
          ELSE IF f \in {"failedLimit", "succeededLimit"} THEN uintFromNonNegativeInt32(s[f])
          ELSE s[f]
    BY DEF newBuildRetention
  <1>. QED
    <2>1. CASE hasRetentionParams(r)
      BY <1>2, <1>3, <1>4, <1>6, <2>1 DEF hasRetentionParams
    <2>2. CASE ~hasRetentionParams(r)
      BY <1>2, <1>3, <1>5, <1>6, <2>2
    <2>. QED
      BY <2>1, <2>2

(* The Build the code computes is the documented one (newBuild).           *)
THEOREM NewBuildIsWanted ==
    ASSUME NEW i \in ImageBuildSpec, NEW p \in ImageBuildPolicySpec
    PROVE  newBuild(i, p) = Wanted(i, p)
  <1>1. ASSUME NEW f \in Fields PROVE newBuild(i, p)[f] = Wanted(i, p)[f]
    <2>1. CASE f \in RetentionParams
      <3>1. newBuild(i, p)[f] = newBuildRetention(resolveRetention(i, p))[f]
        BY <2>1 DEF newBuild, Fields, RetentionParams, Optional
      <3>. QED
        BY <2>1, <3>1, RetentionIsWanted
    <2>2. CASE f \in Optional
      <3>1. /\ newBuild(i, p)[f] = IF i.optional[f] \in Empty THEN Unset ELSE i.optional[f]
            /\ Wanted(i, p)[f] = IF i.optional[f] \in Values THEN i.optional[f] ELSE Unset
        BY <2>2 DEF newBuild, Wanted, Fields, Optional, RetentionParams
      <3>2. i.optional[f] \in Values \cup Empty
        BY <2>2 DEF ImageBuildSpec
      <3>. QED
        BY <3>1, <3>2, PolicyAssumption
    <2>3. CASE f \in {"label", "strategy", "url", "image"}
      BY <2>3 DEF newBuild, Wanted, Fields, Optional, RetentionParams, selectedStrategyName,
         ImageBuildSpec
    <2>. QED
      BY <2>1, <2>2, <2>3 DEF Fields
  <1>. QED
    BY <1>1 DEF newBuild, Wanted

-----------------------------------------------------------------------------
(* What the invariant says besides types.                                  *)
Events ==
    /\ events = {} => cached = build
    /\ events # {} => {cached.owner, build.owner} \subseteq events

Copies ==
    /\ pc # "idle" /\ ~queued => my = ib
    /\ pc \in {"strategy", "build", "status"} => pol # NoPolicy

Settled ==
    /\ pc = "status" /\ ~queued => Ensured
    /\ pc = "idle" /\ ~queued /\ ~retry /\ result # "BuildConflict" =>
         my = ib /\ pol # NoPolicy /\ reason = "ensured" /\ Ensured

(* The invariant, part by part.                                            *)
LEMMA PolicyParts ==
    /\ PolicyInv => TypeOK /\ Events /\ Copies /\ Settled
    /\ TypeOK' /\ Events' /\ Copies' /\ Settled' => PolicyInv'
  BY DEF PolicyInv, Events, Copies, Settled

(* It holds at first: everything is queued.                                *)
LEMMA PolicyInit == Init => PolicyInv
  <1>. SUFFICES ASSUME Init PROVE PolicyInv
    OBVIOUS
  <1>1. /\ queued = TRUE /\ pc = "idle" /\ events = {} /\ cached = build
        /\ \E o \in InitOwners : build = Build(o, NoFields)
    BY DEF Init
  <1>2. build.owner \in {"absent", "orphan", "foreign", "own"}
    BY <1>1, PolicyAssumption DEF Build
  <1>3. ib \in Specs /\ my \in Specs /\ strategies \subseteq Strategies
    BY PolicyAssumption DEF Init
  <1>4. changes \in 0 .. MaxChanges /\ faults \in 0 .. MaxFaults
    BY PolicyAssumption DEF Init
  <1>5. TypeOK
    BY <1>1, <1>2, <1>3, <1>4 DEF Init, TypeOK
  <1>. QED
    BY <1>1, <1>5 DEF PolicyInv

(* A write of the Build has an event under way for it.                     *)
LEMMA WriteEvents ==
    ASSUME PolicyInv, NEW b, b.owner \in {"absent", "orphan", "foreign", "own"},
           Write(b), UNCHANGED cached
    PROVE  /\ Events' /\ build' = b /\ {b.owner, build.owner} \subseteq events'
           /\ events \subseteq events'
           /\ events' \subseteq {"absent", "orphan", "foreign", "own"}
  BY DEF PolicyInv, TypeOK, Events, Write

(* A failed reconcile is retried, or there is a conflict.                  *)
LEMMA FailsInv ==
    ASSUME PolicyInv, NEW why, Fails(why)
    PROVE  /\ pc' = "idle" /\ retry' \in BOOLEAN /\ faults' \in 0 .. MaxFaults
           /\ retry' = TRUE \/ (result' = "BuildConflict" /\ why = "BuildConflict")
  <1>1. faults' \in 0 .. MaxFaults
    BY PolicyAssumption DEF Fails, setNotReady, Fault, PolicyInv, TypeOK
  <1>. QED
    BY <1>1 DEF Fails, PolicyInv, TypeOK

(* Reading.                                                                *)
LEMMA ReadInv ==
    ASSUME PolicyInv, StartReconcile \/ GetPolicy \/ GetPolicyFails \/ GetStrategy
    PROVE  PolicyInv'
  <1>0. TypeOK /\ Events /\ Copies /\ Settled
    BY PolicyParts
  <1>1. CASE StartReconcile
    <2>1. /\ queued' = FALSE /\ pc' = "policy" /\ my' = ib
          /\ UNCHANGED <<ib, policy, strategies, build, cached, events, retry, pol, changes, faults>>
      BY <1>1 DEF StartReconcile, cluster, bounds
    <2>2. TypeOK' /\ Events' /\ Copies' /\ Settled'
      BY <1>0, <2>1 DEF TypeOK, Events, Copies, Settled, Ensured
    <2>. QED
      BY <2>2, PolicyParts
  <1>2. CASE GetPolicy
    <2>1. /\ pol' = policy /\ pc = "policy"
          /\ UNCHANGED <<ib, policy, strategies, build, cached, events, queued, my, changes>>
      BY <1>2 DEF GetPolicy, cluster
    <2>2. CASE policy # NoPolicy /\ pc' = "strategy" /\ UNCHANGED <<retry, faults>>
      <3>1. TypeOK' /\ Events' /\ Copies' /\ Settled'
        BY <1>0, <2>1, <2>2 DEF TypeOK, Events, Copies, Settled, Ensured
      <3>. QED
        BY <3>1, PolicyParts
    <2>3. CASE Fails("MissingPolicy")
      <3>1. /\ pc' = "idle" /\ retry' = TRUE /\ faults' \in 0 .. MaxFaults
        <4>1. "MissingPolicy" # "BuildConflict"
          OBVIOUS
        <4>. QED
          BY <2>3, <4>1, FailsInv, Zenon
      <3>2. TypeOK' /\ Events' /\ Copies' /\ Settled'
        BY <1>0, <2>1, <3>1 DEF TypeOK, Events, Copies, Settled, Ensured
      <3>. QED
        BY <3>2, PolicyParts
    <2>. QED
      BY <1>2, <2>2, <2>3 DEF GetPolicy
  <1>3. CASE GetPolicyFails
    <2>1. /\ pc' = "idle" /\ retry' = TRUE /\ faults' \in 0 .. MaxFaults
          /\ UNCHANGED <<ib, policy, strategies, build, cached, events, queued, my, pol, changes>>
      BY <1>0, <1>3, PolicyAssumption DEF GetPolicyFails, Fault, cluster, TypeOK
    <2>2. TypeOK' /\ Events' /\ Copies' /\ Settled'
      BY <1>0, <2>1 DEF TypeOK, Events, Copies, Settled, Ensured
    <2>. QED
      BY <2>2, PolicyParts
  <1>4. CASE GetStrategy
    <2>1. /\ pc = "strategy"
          /\ UNCHANGED <<ib, policy, strategies, build, cached, events, queued, my, pol, changes>>
      BY <1>4 DEF GetStrategy, cluster
    <2>2. CASE pc' = "build" /\ UNCHANGED <<retry, faults>>
      <3>1. TypeOK' /\ Events' /\ Copies' /\ Settled'
        BY <1>0, <2>1, <2>2 DEF TypeOK, Events, Copies, Settled, Ensured
      <3>. QED
        BY <3>1, PolicyParts
    <2>3. CASE Fails("BuildStrategyNotFound")
      <3>1. /\ pc' = "idle" /\ retry' = TRUE /\ faults' \in 0 .. MaxFaults
        <4>1. "BuildStrategyNotFound" # "BuildConflict"
          OBVIOUS
        <4>. QED
          BY <2>3, <4>1, FailsInv, Zenon
      <3>2. TypeOK' /\ Events' /\ Copies' /\ Settled'
        BY <1>0, <2>1, <3>1 DEF TypeOK, Events, Copies, Settled, Ensured
      <3>. QED
        BY <3>2, PolicyParts
    <2>. QED
      BY <1>4, <2>2, <2>3 DEF GetStrategy
  <1>. QED
    BY <1>1, <1>2, <1>3, <1>4

(* A reconcile that ends with an error to retry, a conflict or the Build   *)
(* ensured, or goes on with the Build ensured.                             *)
Ends ==
    /\ pc \in {"strategy", "build", "status"} /\ pc' \in {"idle", "status"}
    /\ retry' \in BOOLEAN /\ faults' \in 0 .. MaxFaults
    /\ UNCHANGED <<ib, policy, strategies, cached, queued, my, pol, changes>>
    /\ \/ pc' = "idle" /\ retry' = TRUE
       \/ pc' = "idle" /\ result' = "BuildConflict"
       \/ pc' = "idle" /\ reason' = "ensured" /\ (queued' \/ Ensured')
       \/ pc' = "status" /\ Ensured'

(* Such an end keeps the invariant.                                        *)
LEMMA EndInv ==
    ASSUME PolicyInv, Ends, Events', build'.owner \in {"absent", "orphan", "foreign", "own"},
           events' \subseteq {"absent", "orphan", "foreign", "own"}
    PROVE  PolicyInv'
  <1>0. TypeOK /\ Copies
    BY PolicyParts
  <1>1. TypeOK'
    BY <1>0 DEF TypeOK, Ends
  <1>2. Copies' /\ Settled'
    BY <1>0 DEF Copies, Settled, Ends, TypeOK
  <1>. QED
    BY <1>1, <1>2, PolicyParts

(* The Build is written.                                                   *)
LEMMA WriteEnds ==
    ASSUME PolicyInv, NEW o \in {"absent", "orphan", "foreign", "own"}, NEW g,
           Write(Build(o, g)), Ends
    PROVE  PolicyInv'
  <1>1. Build(o, g).owner \in {"absent", "orphan", "foreign", "own"}
    BY DEF Build
  <1>2. UNCHANGED cached
    BY DEF Ends
  <1>3. /\ Events' /\ build' = Build(o, g)
        /\ events' \subseteq {"absent", "orphan", "foreign", "own"}
    BY <1>1, <1>2, WriteEvents
  <1>. QED
    BY <1>1, <1>3, EndInv

(* ... or is not.                                                          *)
LEMMA NoWriteEnds ==
    ASSUME PolicyInv, UNCHANGED <<build, events>>, Ends
    PROVE  PolicyInv'
  <1>1. TypeOK /\ Events /\ UNCHANGED cached
    BY PolicyParts DEF Ends
  <1>2. Events'
    BY <1>1 DEF Events
  <1>3. /\ build'.owner \in {"absent", "orphan", "foreign", "own"}
        /\ events' \subseteq {"absent", "orphan", "foreign", "own"}
    BY <1>1 DEF TypeOK
  <1>. QED
    BY <1>2, <1>3, EndInv

(* A failure is retried.                                                   *)
LEMMA StopsParts ==
    ASSUME PolicyInv, Stops
    PROVE  pc' = "idle" /\ retry' = TRUE /\ faults' \in 0 .. MaxFaults
  BY PolicyAssumption DEF Stops, Fault, PolicyInv, TypeOK

(* What a success leaves.                                                  *)
LEMMA SucceedsParts ==
    ASSUME PolicyInv, Succeeds
    PROVE  /\ retry' \in BOOLEAN /\ faults' \in 0 .. MaxFaults
           /\ (pc' = "idle" /\ retry' = TRUE) \/ pc' = "status"
  <1>0. retry \in BOOLEAN /\ faults \in 0 .. MaxFaults
    BY DEF PolicyInv, TypeOK
  <1>1. CASE pc' = "status" /\ UNCHANGED <<retry, faults>>
    BY <1>0, <1>1
  <1>2. CASE Stops
    BY <1>2, StopsParts
  <1>. QED
    BY <1>1, <1>2, Zenon DEF Succeeds

(* CreateOrPatch, in each of its cases.                                    *)
LEMMA EnsureInv ==
    ASSUME PolicyInv, ensureBuild
    PROVE  PolicyInv'
  <1>0. TypeOK /\ Events
    BY PolicyParts
  <1>1. pc = "build" /\ UNCHANGED <<ib, policy, strategies, cached, queued, my, pol, changes>>
    BY DEF ensureBuild, cluster
  <1>2. ASSUME NEW why, Fails(why), UNCHANGED <<build, events>> PROVE PolicyInv'
    <2>1. Ends
      BY <1>1, <1>2, FailsInv DEF Ends
    <2>. QED
      BY <1>2, <2>1, NoWriteEnds
  <1>3. ASSUME NEW o \in {"absent", "orphan", "foreign", "own"}, NEW g, Write(Build(o, g)), Succeeds,
               o = "own" \/ "own" \in events
        PROVE  PolicyInv'
    <2>1. "own" \in events'
      BY <1>3 DEF Write, Build
    <2>2. Ensured'
      BY <2>1 DEF Ensured
    <2>3. Ends
      BY <1>1, <1>3, <2>2, SucceedsParts DEF Ends
    <2>. QED
      BY <1>3, <2>3, WriteEnds
  <1>4. ASSUME upToDate, Succeeds, UNCHANGED <<build, events>> PROVE PolicyInv'
    <2>1. cached = Build("own", newBuild(my, pol)) /\ cached.owner = "own"
      BY <1>4 DEF upToDate, Build
    <2>2. "own" \in events' \/ (events' = {} /\ build' = Build("own", newBuild(my, pol)))
      BY <1>0, <1>4, <2>1 DEF Events
    <2>3. my' = my /\ pol' = pol
      BY <1>1
    <2>4. Ensured'
      BY <2>2, <2>3 DEF Ensured
    <2>5. Ends
      BY <1>1, <1>4, <2>4, SucceedsParts DEF Ends
    <2>. QED
      BY <1>4, <2>5, NoWriteEnds
  <1>5. ASSUME Write(patchedBuild), Succeeds, build.owner # "absent" PROVE PolicyInv'
    <2>1. CASE cached.owner = "own"
      <3>1. build.owner = "own" \/ "own" \in events
        BY <1>0, <2>1 DEF Events
      <3>2. patchedBuild = Build(build.owner, patched(build.fields, cached.fields, newBuild(my, pol)))
        BY <2>1 DEF patchedBuild, patchedOwner
      <3>. QED
        BY <1>0, <1>3, <1>5, <3>1, <3>2 DEF TypeOK
    <2>2. CASE cached.owner # "own"
      <3>1. patchedBuild = Build("own", patched(build.fields, cached.fields, newBuild(my, pol)))
        BY <2>2 DEF patchedBuild, patchedOwner
      <3>. QED
        BY <1>3, <1>5, <3>1
    <2>. QED
      BY <2>1, <2>2
  <1>6. ASSUME Write(Build("own", newBuild(my, pol))), Succeeds PROVE PolicyInv'
    BY <1>3, <1>6
  <1>. QED
    BY <1>2, <1>4, <1>5, <1>6, Zenon DEF ensureBuild

(* A failure on the way, with or without the write.                        *)
LEMMA EnsureFailsInv ==
    ASSUME PolicyInv, ensureBuildFails
    PROVE  PolicyInv'
  <1>1. Ends
    BY PolicyAssumption DEF ensureBuildFails, Ends, Fault, cluster, PolicyInv, TypeOK
  <1>2. CASE UNCHANGED <<build, events>>
    BY <1>1, <1>2, NoWriteEnds
  <1>3. CASE Write(patchedBuild)
    <2>1. patchedOwner \in {"absent", "orphan", "foreign", "own"}
      BY DEF patchedOwner, PolicyInv, TypeOK
    <2>. QED
      BY <1>1, <1>3, <2>1, WriteEnds DEF patchedBuild
  <1>. QED
    BY <1>2, <1>3, Zenon DEF ensureBuildFails

(* The report: what was ensured still is, or the Build sends an event.     *)
LEMMA StatusInv ==
    ASSUME PolicyInv, reconcileStatus
    PROVE  PolicyInv'
  <1>0. TypeOK /\ Settled
    BY PolicyParts
  <1>1. /\ pc = "status"
        /\ UNCHANGED <<ib, policy, strategies, build, cached, events, queued, my, pol, changes>>
    BY DEF reconcileStatus, cluster
  <1>2. CASE Stops
    <2>1. Ends
      BY <1>1, <1>2, StopsParts DEF Ends
    <2>. QED
      BY <1>1, <2>1, NoWriteEnds
  <1>3. CASE pc' = "idle" /\ reason' = "ensured" /\ UNCHANGED <<retry, faults>>
    <2>1. queued' \/ Ensured'
      BY <1>0, <1>1 DEF Settled, Ensured
    <2>2. Ends
      BY <1>0, <1>1, <1>3, <2>1 DEF Ends, TypeOK
    <2>. QED
      BY <1>1, <2>2, NoWriteEnds
  <1>. QED
    BY <1>2, <1>3, Zenon DEF reconcileStatus

(* Timers, informers and restarts.                                         *)
LEMMA QueueInv ==
    ASSUME PolicyInv, RetryElapses \/ SyncBuild \/ Resync \/ Crash
    PROVE  PolicyInv'
  <1>0. TypeOK /\ Events /\ Copies /\ Settled
    BY PolicyParts
  <1>1. CASE RetryElapses \/ Resync
    <2>1. /\ queued' = TRUE /\ retry' \in BOOLEAN
          /\ UNCHANGED <<ib, policy, strategies, build, cached, events, pc, my, pol, changes, faults>>
      BY <1>0, <1>1 DEF RetryElapses, Resync, cluster, bounds, TypeOK
    <2>2. TypeOK' /\ Events' /\ Copies' /\ Settled'
      BY <1>0, <2>1 DEF TypeOK, Events, Copies, Settled, Ensured
    <2>. QED
      BY <2>2, PolicyParts
  <1>2. CASE SyncBuild
    <2>1. /\ events # {} /\ events' = {} /\ cached' = build
          /\ UNCHANGED <<ib, policy, strategies, build, result, reason, retry, pc, my, pol>>
          /\ UNCHANGED <<changes, faults>>
      BY <1>2 DEF SyncBuild, cluster, bounds
    <2>2. CASE "own" \in events
      <3>1. queued' = TRUE
        BY <1>0, <1>2, <2>2 DEF SyncBuild, TypeOK
      <3>2. TypeOK' /\ Events' /\ Copies' /\ Settled'
        BY <1>0, <2>1, <3>1 DEF TypeOK, Events, Copies, Settled, Ensured
      <3>. QED
        BY <3>2, PolicyParts
    <2>3. CASE "own" \notin events
      <3>1. queued' = queued
        BY <1>0, <1>2, <2>3 DEF SyncBuild, TypeOK
      <3>2. TypeOK' /\ Events' /\ Copies' /\ Settled'
        BY <1>0, <2>1, <2>3, <3>1 DEF TypeOK, Events, Copies, Settled, Ensured
      <3>. QED
        BY <3>2, PolicyParts
    <2>. QED
      BY <2>2, <2>3
  <1>3. CASE Crash
    <2>1. /\ pc' = "idle" /\ queued' = TRUE /\ retry' = FALSE /\ cached' = build /\ events' = {}
          /\ faults' \in 0 .. MaxFaults
          /\ UNCHANGED <<ib, policy, strategies, build, my, pol, changes>>
      BY <1>0, <1>3, PolicyAssumption DEF Crash, Fault, cluster, TypeOK
    <2>2. TypeOK' /\ Events' /\ Copies' /\ Settled'
      BY <1>0, <2>1 DEF TypeOK, Events, Copies, Settled, Ensured
    <2>. QED
      BY <2>2, PolicyParts
  <1>. QED
    BY <1>1, <1>2, <1>3

(* Users and administrators.                                               *)
LEMMA ChangeInv ==
    ASSUME PolicyInv, UserEdits \/ PolicyChanges \/ StrategyChanges \/ BuildChanges \/ ForeignBuildAppears
    PROVE  PolicyInv'
  <1>0. TypeOK /\ Events /\ Copies /\ Settled
    BY PolicyParts
  <1>c. changes' \in 0 .. MaxChanges
    BY <1>0, PolicyAssumption DEF UserEdits, PolicyChanges, StrategyChanges, BuildChanges,
       ForeignBuildAppears, Change, TypeOK
  <1>1. CASE UserEdits
    <2>1. /\ queued' = TRUE /\ ib' \in Specs
          /\ UNCHANGED <<policy, strategies, build, cached, events, retry, pc, my, pol, faults>>
      BY <1>1 DEF UserEdits
    <2>2. TypeOK' /\ Events' /\ Copies' /\ Settled'
      BY <1>0, <1>c, <2>1 DEF TypeOK, Events, Copies, Settled, Ensured
    <2>. QED
      BY <2>2, PolicyParts
  <1>2. CASE PolicyChanges \/ StrategyChanges
    <2>1. /\ policy' \in Policies \cup {NoPolicy} /\ strategies' \subseteq Strategies
          /\ UNCHANGED <<ib, build, cached, events, result, reason, queued, retry, pc, my, pol, faults>>
      BY <1>0, <1>2 DEF PolicyChanges, StrategyChanges, TypeOK
    <2>2. TypeOK' /\ Events' /\ Copies' /\ Settled'
      BY <1>0, <1>c, <2>1 DEF TypeOK, Events, Copies, Settled, Ensured
    <2>. QED
      BY <2>2, PolicyParts
  <1>3. CASE BuildChanges \/ ForeignBuildAppears
    <2>1. PICK b : Write(b) /\ b.owner \in {"absent", "orphan", "foreign", "own"}
      <3>1. CASE BuildChanges /\ Write(NoBuild)
        BY <3>1 DEF NoBuild, Build
      <3>2. ASSUME NEW f, Write([build EXCEPT !.fields[f] = Unset])
            PROVE  \E b : Write(b) /\ b.owner \in {"absent", "orphan", "foreign", "own"}
        <4>1. [build EXCEPT !.fields[f] = Unset].owner = build.owner
          OBVIOUS
        <4>. QED
          BY <1>0, <3>2, <4>1 DEF TypeOK
      <3>3. CASE BuildChanges
        BY <3>1, <3>2, <3>3, Zenon DEF BuildChanges
      <3>4. CASE ForeignBuildAppears
        <4>1. PICK o \in {"orphan", "foreign"} : Write(Build(o, build.fields))
          BY <3>4 DEF ForeignBuildAppears
        <4>2. Build(o, build.fields).owner = o
          BY DEF Build
        <4>. QED
          BY <4>1, <4>2
      <3>. QED
        BY <1>3, <3>3, <3>4
    <2>2. UNCHANGED <<ib, policy, strategies, cached, result, reason, queued, retry, pc, my, pol, faults>>
      BY <1>3 DEF BuildChanges, ForeignBuildAppears, cluster
    <2>3. /\ Events' /\ build' = b /\ {b.owner, build.owner} \subseteq events'
          /\ events \subseteq events'
          /\ events' \subseteq {"absent", "orphan", "foreign", "own"}
      BY <1>0, <2>1, <2>2, WriteEvents
    <2>4. TypeOK'
      BY <1>0, <1>c, <2>1, <2>2, <2>3 DEF TypeOK
    <2>5. Copies'
      BY <1>0, <2>2 DEF Copies
    <2>6. Settled'
      <3>1. build = Build("own", newBuild(my, pol)) => build.owner = "own"
        BY DEF Build
      <3>2. Ensured => Ensured'
        BY <2>2, <2>3, <3>1 DEF Ensured
      <3>. QED
        BY <1>0, <2>2, <3>2 DEF Settled
    <2>. QED
      BY <2>3, <2>4, <2>5, <2>6, PolicyParts
  <1>. QED
    BY <1>1, <1>2, <1>3

(* Every behaviour keeps the invariant.                                    *)
THEOREM PolicyInvariant == Spec => []PolicyInv
  <1>1. PolicyInv /\ [Next]_vars => PolicyInv'
    <2>. SUFFICES ASSUME PolicyInv, [Next]_vars PROVE PolicyInv'
      OBVIOUS
    <2>1. CASE UNCHANGED vars
      BY <2>1 DEF vars, cluster, bounds, PolicyInv, TypeOK, Ensured
    <2>2. CASE Next
      BY <2>2, ReadInv, EnsureInv, EnsureFailsInv, StatusInv, QueueInv, ChangeInv DEF Next, Reconcile
    <2>. QED
      BY <2>1, <2>2
  <1>. QED
    BY <1>1, PolicyInit, PTL DEF Spec

(* At rest the Build is whole (ensureBuild, newBuild, resolveRetention).   *)
THEOREM BuildIsWholeAtRest == Spec => []WholeAtRest
  <1>1. PolicyInv => WholeAtRest
    <2>. SUFFICES ASSUME PolicyInv, AtRest, result # "BuildConflict"
                  PROVE  pol # NoPolicy /\ build = Build("own", Wanted(ib, pol)) /\ reason = "ensured"
      BY DEF WholeAtRest
    <2>1. /\ my = ib /\ pol # NoPolicy /\ reason = "ensured"
          /\ build = Build("own", newBuild(my, pol))
      BY DEF PolicyInv, AtRest, Ensured
    <2>2. ib \in ImageBuildSpec /\ pol \in ImageBuildPolicySpec
      BY <2>1, PolicyAssumption DEF PolicyInv, TypeOK
    <2>. QED
      BY <2>1, <2>2, NewBuildIsWanted
  <1>. QED
    BY <1>1, PolicyInvariant, PTL
=============================================================================
