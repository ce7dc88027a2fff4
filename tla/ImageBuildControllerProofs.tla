-------------------- MODULE ImageBuildControllerProofs --------------------
(***************************************************************************)
(* Proofs about ImageBuildController, for every value of its constants.    *)
(***************************************************************************)
EXTENDS ImageBuildController, TLAPS

USE InputsAssumption, CommitsAssumption, ControllerAssumption

-----------------------------------------------------------------------------
(* What a merge patch makes of an ImageBuild.                              *)

(* A merge patch of ImageBuilds is an ImageBuild.                          *)
LEMMA MergePatchType ==
    ASSUME NEW s \in ImageBuild, NEW o \in ImageBuild, NEW n \in ImageBuild
    PROVE  MergePatch(s, o, n) \in ImageBuild
  BY DEF MergePatch, ImageBuild

(* Merging events gives an event.                                          *)
LEMMA MergeEventType ==
    ASSUME NEW s \in Event, NEW o \in Event, NEW n \in Event
    PROVE  MergeEvent(s, o, n) \in Event
  BY DEF MergeEvent, Event

(* The placeholder copy is an ImageBuild.                                  *)
LEMMA NoCopyType == NoCopy \in ImageBuild
  BY DEF NoCopy, NewImageBuild, ImageBuild, NoEvent, Event, NoTrigger, Trigger,
         NoCondition, Conditions, NoImage, Image

(* How a step of the reconcile ends, whatever it wrote.                    *)

FailureType == [reason: ReadyReason \cup {"none"}, requeue: BOOLEAN]

CopyType == loc \in ImageBuild /\ pc \in PC /\ fail \in FailureType

FlagType == queued \in BOOLEAN /\ locFresh \in BOOLEAN

(* The informer stays within MaxLag versions.                              *)
LEMMA VersionType ==
    ASSUME TypeOK, Version
    PROVE  lag' \in 0 .. MaxLag
  BY DEF TypeOK, Version

(* Going on after a successful write.                                      *)
LEMMA ProceedType ==
    ASSUME TypeOK, srv' \in ImageBuild, NEW next \in PC, Proceed(next)
    PROVE  CopyType' /\ FlagType' /\ lag' \in 0 .. MaxLag
  <1>1. CopyType'
    BY DEF TypeOK, Proceed, CopyType, FailureType
  <1>2. FlagType'
    BY Zenon DEF TypeOK, Proceed, FlagType
  <1>. QED
    BY <1>1, <1>2, VersionType DEF Proceed

(* Returning from Reconcile.                                               *)
LEMMA FinishType ==
    ASSUME TypeOK, NEW requeue \in BOOLEAN, Finish(requeue)
    PROVE  CopyType' /\ FlagType' /\ lag' \in 0 .. MaxLag /\ br' \in HeldRun
  <1>1. CopyType'
    BY NoCopyType DEF TypeOK, Finish, CopyType, FailureType, NoFailure, PC
  <1>2. FlagType'
    BY Zenon DEF TypeOK, Finish, FlagType
  <1>3. br' \in HeldRun
    BY DEF Finish, HeldRun, NoHeldRun, Phase
  <1>. QED
    BY <1>1, <1>2, <1>3, VersionType DEF Finish

(* Giving up, with the Ready condition still to write.                     *)
LEMMA AbandonType ==
    ASSUME TypeOK, NEW reason \in ReadyReason, NEW requeue \in BOOLEAN, Abandon(reason, requeue)
    PROVE  CopyType' /\ FlagType' /\ lag' \in 0 .. MaxLag /\ br' \in HeldRun
  <1>1. CopyType'
    BY DEF TypeOK, Abandon, CopyType, FailureType, PC
  <1>2. FlagType'
    BY Zenon DEF TypeOK, Abandon, FlagType
  <1>3. br' \in HeldRun
    BY DEF TypeOK, Abandon
  <1>. QED
    BY <1>1, <1>2, <1>3, VersionType DEF Abandon

(* Going on without a write.                                               *)
LEMMA SkipType ==
    ASSUME TypeOK, NEW next \in PC, Skip(next)
    PROVE  srv' \in ImageBuild /\ CopyType' /\ FlagType' /\ lag' \in 0 .. MaxLag
  <1>1. srv' \in ImageBuild /\ CopyType' /\ lag' \in 0 .. MaxLag
    BY DEF TypeOK, Skip, CopyType, FailureType, versions
  <1>2. FlagType'
    BY Zenon DEF TypeOK, Skip, FlagType, versions
  <1>. QED
    BY <1>1, <1>2

(* A write that reported an error.                                         *)
LEMMA PatchErrorType ==
    ASSUME TypeOK, NEW new \in ImageBuild, PatchError(new)
    PROVE  srv' \in ImageBuild /\ faults' \in 0 .. MaxFaults
  BY MergePatchType DEF TypeOK, PatchError, PatchTo, Fault

(* TypeOK without what the step exits establish.                           *)
RestType ==
    /\ srv \in ImageBuild /\ cache \in ImageBuild
    /\ DOMAIN runs \subseteq RunName /\ \A n \in DOMAIN runs : runs[n] \in Run
    /\ DOMAIN cacheRuns \subseteq RunName /\ \A n \in DOMAIN cacheRuns : cacheRuns[n] \in Run
    /\ build \in Build /\ cacheBuild \in Build
    /\ deps \in Deps
    /\ br \in HeldRun
    /\ lag \in 0 .. MaxLag
    /\ hooks \subseteq Request
    /\ deliveries \in 0 .. MaxDeliveries
    /\ debounced \in Nat /\ spaced \in Nat
    /\ faults \in 0 .. MaxFaults /\ crashes \in 0 .. MaxCrashes /\ deletes \in 0 .. MaxDeletes
    /\ lost \subseteq RunName

(* The parts make up TypeOK.                                               *)
LEMMA TypeParts ==
    ASSUME RestType', CopyType', FlagType'
    PROVE  TypeOK'
  BY DEF TypeOK, RestType, CopyType, FlagType, FailureType

(* What a step of the reconcile leaves alone keeps its type.               *)
LEMMA RestStep ==
    ASSUME TypeOK, Elsewhere, srv' \in ImageBuild, br' \in HeldRun, lag' \in 0 .. MaxLag,
           DOMAIN runs' \subseteq RunName, \A n \in DOMAIN runs' : runs'[n] \in Run,
           build' \in Build, faults' \in 0 .. MaxFaults
    PROVE  RestType'
  BY DEF TypeOK, RestType, Elsewhere, caches, webhook, clock

(* Unchanged BuildRuns and Build keep their types.                         *)
LEMMA SameRuns ==
    ASSUME TypeOK, UNCHANGED <<runs, build>>
    PROVE  /\ DOMAIN runs' \subseteq RunName /\ \A n \in DOMAIN runs' : runs'[n] \in Run
           /\ build' \in Build
  BY DEF TypeOK

(* A step that writes the ImageBuild, in each of the shapes such a step    *)
(* has.                                                                    *)
WriteStep(new, next, reason) ==
    /\ \/ PatchTo(new) /\ Proceed(next) /\ UNCHANGED <<br, faults>>
       \/ PatchError(new) /\ Finish(TRUE)
       \/ PatchError(new) /\ Abandon(reason, TRUE)
    /\ UNCHANGED <<runs, build>> /\ Elsewhere

(* A write in the middle of a reconcile preserves TypeOK.                  *)
LEMMA WriteType ==
    ASSUME TypeOK, NEW new \in ImageBuild, NEW next \in PC, NEW reason \in ReadyReason,
           WriteStep(new, next, reason)
    PROVE  TypeOK'
  <1>1. srv' \in ImageBuild /\ faults' \in 0 .. MaxFaults
    <2>1. CASE PatchTo(new) /\ UNCHANGED <<br, faults>>
      BY <2>1, MergePatchType DEF TypeOK, PatchTo
    <2>2. CASE PatchError(new)
      BY <2>2, PatchErrorType
    <2>. QED
      BY <2>1, <2>2, Zenon DEF WriteStep
  <1>2. br \in HeldRun
    BY DEF TypeOK
  <1>3. CopyType' /\ FlagType' /\ lag' \in 0 .. MaxLag /\ br' \in HeldRun
    <2>1. CASE Proceed(next) /\ UNCHANGED <<br, faults>>
      BY <2>1, <1>1, <1>2, ProceedType, Zenon
    <2>2. CASE Finish(TRUE)
      BY <2>2, FinishType, Zenon
    <2>3. CASE Abandon(reason, TRUE)
      BY <2>3, AbandonType, Zenon
    <2>. QED
      BY <2>1, <2>2, <2>3, Zenon DEF WriteStep
  <1>4. RestType'
    BY <1>1, <1>3, RestStep, SameRuns, Zenon DEF WriteStep
  <1>. QED
    BY <1>3, <1>4, TypeParts, Zenon

(* The last write of a reconcile, needed or not.                           *)
LastWrite(new) ==
    /\ \/ PatchTo(new) /\ UNCHANGED faults
       \/ PatchError(new)
       \/ UNCHANGED <<srv, faults>>
    /\ \E requeue \in BOOLEAN : Finish(requeue)
    /\ UNCHANGED <<runs, build>> /\ Elsewhere

(* The last write preserves TypeOK.                                        *)
LEMMA LastWriteType ==
    ASSUME TypeOK, NEW new \in ImageBuild, LastWrite(new)
    PROVE  TypeOK'
  <1>1. srv' \in ImageBuild /\ faults' \in 0 .. MaxFaults
    <2>1. CASE PatchTo(new) /\ UNCHANGED faults
      BY <2>1, MergePatchType DEF TypeOK, PatchTo
    <2>2. CASE PatchError(new)
      BY <2>2, PatchErrorType
    <2>3. CASE UNCHANGED <<srv, faults>>
      BY <2>3 DEF TypeOK
    <2>. QED
      BY <2>1, <2>2, <2>3, Zenon DEF LastWrite
  <1>2. CopyType' /\ FlagType' /\ lag' \in 0 .. MaxLag /\ br' \in HeldRun
    BY FinishType, Zenon DEF LastWrite
  <1>3. RestType'
    BY <1>1, <1>2, RestStep, SameRuns, Zenon DEF LastWrite
  <1>. QED
    BY <1>2, <1>3, TypeParts, Zenon

(* A step that leaves the ImageBuild alone.                                *)
LEMMA NoWriteType ==
    ASSUME TypeOK, UNCHANGED srv, Elsewhere,
           NEW next \in PC, NEW reason \in ReadyReason, NEW requeue \in BOOLEAN,
           \/ Skip(next) /\ br' \in HeldRun
           \/ Finish(requeue)
           \/ Abandon(reason, requeue),
           DOMAIN runs' \subseteq RunName, \A n \in DOMAIN runs' : runs'[n] \in Run,
           build' \in Build, faults' \in 0 .. MaxFaults
    PROVE  TypeOK'
  <1>1. CopyType' /\ FlagType' /\ lag' \in 0 .. MaxLag /\ br' \in HeldRun
    BY SkipType, FinishType, AbandonType, Zenon
  <1>2. srv' \in ImageBuild
    BY DEF TypeOK
  <1>3. RestType'
    BY <1>1, <1>2, RestStep, Zenon
  <1>. QED
    BY <1>1, <1>3, TypeParts, Zenon

(* The names and the runs getOrCreateBuildRun deals with.                  *)
LEMMA HoldType ==
    ASSUME NEW n \in RunName, NEW r \in Run
    PROVE  Hold(n, r) \in HeldRun
  BY DEF Hold, HeldRun, Run

(* A new BuildRun is well typed.                                           *)
LEMMA NewRunType == newBuildRun \in Run
  BY DEF newBuildRun, Run, Phase

(* Adding a new BuildRun keeps the types of all.                           *)
LEMMA WithRunType ==
    ASSUME TypeOK, NEW n \in RunName, runs' = WithRun(n, newBuildRun)
    PROVE  /\ DOMAIN runs' \subseteq RunName
           /\ \A m \in DOMAIN runs' : runs'[m] \in Run
  BY NewRunType DEF TypeOK, WithRun

(* getOrCreateBuildRun preserves TypeOK.                                   *)
LEMMA GetOrCreateType ==
    ASSUME TypeOK, NEW name \in RunName, NEW reused \in PC, NEW created \in PC,
           NEW conflict \in ReadyReason, getOrCreateBuildRun(name, reused, created, conflict)
    PROVE  TypeOK'
  <1>1. UNCHANGED <<srv, build>> /\ Elsewhere
    BY Zenon DEF getOrCreateBuildRun, Skip
  <1>2. DOMAIN runs' \subseteq RunName /\ \A n \in DOMAIN runs' : runs'[n] \in Run
    <2>1. runs' = runs \/ runs' = WithRun(name, newBuildRun)
      BY SMT DEF getOrCreateBuildRun, Skip, Abandon, WithRun
    <2>2. CASE runs' = runs
      BY <2>2 DEF TypeOK
    <2>3. CASE runs' = WithRun(name, newBuildRun)
      BY <2>3, WithRunType, Zenon
    <2>. QED
      BY <2>1, <2>2, <2>3
  <1>3. build' \in Build
    BY <1>1 DEF TypeOK
  <1>4. faults' \in 0 .. MaxFaults
    BY DEF TypeOK, getOrCreateBuildRun, Fault, Skip, Abandon
  <1>5. \/ Skip(reused) /\ br' \in HeldRun
        \/ Skip(created) /\ br' \in HeldRun
        \/ Abandon(conflict, FALSE)
        \/ Abandon("BuildRunReconcileFailed", TRUE)
    <2>1. name \in DOMAIN cacheRuns => Hold(name, cacheRuns[name]) \in HeldRun
      BY HoldType DEF TypeOK
    <2>2. Hold(name, newBuildRun) \in HeldRun
      BY HoldType, NewRunType
    <2>. QED
      BY <2>1, <2>2, Zenon DEF getOrCreateBuildRun
  <1>6. "BuildRunReconcileFailed" \in ReadyReason
    BY DEF ReadyReason
  <1>. QED
    BY <1>1, <1>2, <1>3, <1>4, <1>5, <1>6, NoWriteType, Zenon

-----------------------------------------------------------------------------
(* The copies the writes send are ImageBuilds.                             *)

(* The writes that set a field to a value the copy implies.                *)
LEMMA NewCopies ==
    ASSUME TypeOK
    PROVE  /\ [loc EXCEPT !.label = desiredLabel(loc)] \in ImageBuild
           /\ [loc EXCEPT !.buildRef = TRUE, !.obsGen = loc.gen] \in ImageBuild
           /\ [loc EXCEPT !.pending = NoEvent] \in ImageBuild
           /\ [loc EXCEPT !.lastSpec = loc.inputs] \in ImageBuild
           /\ \A reason \in ReadyReason \cup {"none"} : withReady(reason) \in ImageBuild
  <1>1. [loc EXCEPT !.label = desiredLabel(loc)] \in ImageBuild
    BY DEF TypeOK, ImageBuild, desiredLabel
  <1>2. [loc EXCEPT !.buildRef = TRUE, !.obsGen = loc.gen] \in ImageBuild
    BY DEF TypeOK, ImageBuild
  <1>3. [loc EXCEPT !.pending = NoEvent] \in ImageBuild
    BY DEF TypeOK, ImageBuild, NoEvent, Event
  <1>4. [loc EXCEPT !.lastSpec = loc.inputs] \in ImageBuild
    BY DEF TypeOK, ImageBuild
  <1>5. \A reason \in ReadyReason \cup {"none"} : withReady(reason) \in ImageBuild
    BY DEF TypeOK, ImageBuild, withReady, Conditions
  <1>. QED
    BY <1>1, <1>2, <1>3, <1>4, <1>5

(* The number of the BuildRun held is a natural number.                    *)
LEMMA NumberType == TypeOK => br.name[2] \in Nat
  BY DEF TypeOK, HeldRun, RunName, NoRun

(* patchOnCommitTriggered sends an ImageBuild.                             *)
LEMMA TriggerCopy ==
    ASSUME TypeOK
    PROVE  [loc EXCEPT !.trigCounter = br.name[2],
                       !.lastTrig = [number |-> br.name[2], commit |-> loc.pending.commit],
                       !.pending = NoEvent] \in ImageBuild
  BY NumberType DEF TypeOK, ImageBuild, NoEvent, Event, Trigger

(* The counter patch sends an ImageBuild.                                  *)
LEMMA CounterCopy ==
    ASSUME TypeOK
    PROVE  [loc EXCEPT !.counter = br.name[2]] \in ImageBuild
  BY NumberType DEF TypeOK, ImageBuild

(* patchBuildSucceededCondition sends an ImageBuild.                       *)
LEMMA SucceededCopy ==
    ASSUME TypeOK
    PROVE  [loc EXCEPT !.obsGen = loc.gen,
                       !.lastRun = br.name,
                       !.conds = [loc.conds EXCEPT !.succeeded =
                           [reason |-> deriveBuildSucceededStatus(br), gen |-> loc.gen]]]
             \in ImageBuild
  <1>1. deriveBuildSucceededStatus(br) \in SucceededReason
    BY DEF TypeOK, HeldRun, Phase, deriveBuildSucceededStatus, SucceededReason
  <1>. QED
    BY <1>1 DEF TypeOK, ImageBuild, Conditions, HeldRun

(* patchLatestImage sends an ImageBuild.                                   *)
LEMMA ImageCopy ==
    ASSUME TypeOK
    PROVE  [loc EXCEPT !.obsGen = loc.gen, !.latestImage = imageToReport(loc, br)] \in ImageBuild
  <1>1. imageToReport(loc, br) \in Image
    BY DEF TypeOK, ImageBuild, HeldRun, imageToReport, computeLatestImage, Image, NoImage
  <1>. QED
    BY <1>1 DEF TypeOK, ImageBuild

-----------------------------------------------------------------------------
(* Each action preserves TypeOK.                                           *)

(* Every step of the reconcile preserves TypeOK.                           *)
LEMMA ReconcileType ==
    ASSUME TypeOK, Reconcile
    PROVE  TypeOK'
  <1>. /\ "build" \in PC /\ "oncommit" \in PC /\ "buildRef" \in PC /\ "label" \in PC
       /\ "default" \in PC /\ "status" \in PC /\ "triggered" \in PC /\ "counter" \in PC
       /\ "record" \in PC /\ "ready" \in PC /\ "image" \in PC
    BY DEF PC
  <1>. /\ "BuildRunReconcileFailed" \in ReadyReason /\ "BuildRunConflict" \in ReadyReason
       /\ "BuildReconcileFailed" \in ReadyReason /\ "Reconciled" \in ReadyReason
       /\ "BuildConflict" \in ReadyReason /\ "MissingPolicy" \in ReadyReason
       /\ "BuildStrategyNotFound" \in ReadyReason
    BY DEF ReadyReason
  <1>0. /\ br \in HeldRun /\ build \in Build /\ faults \in 0 .. MaxFaults
        /\ DOMAIN runs \subseteq RunName /\ \A n \in DOMAIN runs : runs[n] \in Run
    BY DEF TypeOK
  <1>1. CASE StartReconcile
    <2>1. CopyType'
      BY <1>1 DEF StartReconcile, TypeOK, CopyType, FailureType
    <2>2. FlagType'
      BY <1>1, Zenon DEF StartReconcile, TypeOK, FlagType
    <2>3. RestType'
      BY <1>1 DEF StartReconcile, TypeOK, RestType, cluster, caches, webhook, clock, bounds
    <2>. QED
      BY <2>1, <2>2, <2>3, TypeParts, Zenon
  <1>2. CASE ensureOnCommitLabel
    BY <1>2, NewCopies, WriteType, Zenon DEF ensureOnCommitLabel, WriteStep
  <1>3. CASE validateWebhookSecret
    <2>1. (IF deps.secret = "missing" THEN "WebhookSecretMissing" ELSE "WebhookSecretInvalidKey")
             \in ReadyReason
      BY DEF ReadyReason
    <2>. QED
      BY <1>0, <1>3, <2>1, NoWriteType, Zenon DEF validateWebhookSecret
  <1>4. CASE buildBlocked
    BY <1>0, <1>4, NoWriteType, Zenon DEF buildBlocked
  <1>5. CASE ensureBuild
    <2>1. newBuild(loc) \in Build
      BY DEF TypeOK, ImageBuild, newBuild, Build
    <2>2. build' \in Build
      <3>1. build' = build \/ build' = newBuild(loc)
        BY <1>5, Zenon DEF ensureBuild
      <3>. QED
        BY <1>0, <2>1, <3>1
    <2>3. faults' \in 0 .. MaxFaults
      <3>1. UNCHANGED faults \/ Fault
        BY <1>5, Zenon DEF ensureBuild
      <3>. QED
        BY <1>0, <3>1 DEF Fault
    <2>4. afterBuild \in PC
      BY DEF afterBuild
    <2>5. UNCHANGED <<srv, runs>>
      BY <1>5, Zenon DEF ensureBuild, Skip
    <2>6. \/ Skip(afterBuild) /\ br' \in HeldRun
          \/ Abandon("BuildReconcileFailed", TRUE)
      BY <1>0, <1>5, Zenon DEF ensureBuild
    <2>7. Elsewhere
      BY <1>5 DEF ensureBuild
    <2>. QED
      BY <1>0, <2>2, <2>3, <2>4, <2>5, <2>6, <2>7, NoWriteType, Zenon
  <1>6. CASE patchBuildRef
    BY <1>6, NewCopies, WriteType, Zenon DEF patchBuildRef, WriteStep
  <1>7. CASE onCommitWaits
    BY <1>0, <1>7, NoWriteType, Zenon DEF onCommitWaits
  <1>8. CASE onCommitDuplicate
    BY <1>8, NewCopies, WriteType, Zenon DEF onCommitDuplicate, WriteStep
  <1>9. CASE onCommitActive
    <2>1. br' \in HeldRun
      BY <1>9, HoldType DEF onCommitActive, lastRunActive, TypeOK
    <2>. QED
      BY <1>0, <1>9, <2>1, NoWriteType, Zenon DEF onCommitActive, Skip
  <1>10. CASE ensureOnCommitBuildRun
    <2>1. onCommitRunNameFor(nextCounter(loc.trigCounter)) \in RunName
      BY DEF TypeOK, ImageBuild, onCommitRunNameFor, nextCounter, RunName, RunKind
    <2>. QED
      BY <1>10, <2>1, GetOrCreateType, Zenon DEF ensureOnCommitBuildRun
  <1>11. CASE patchOnCommitTriggered
    BY <1>11, TriggerCopy, WriteType, Zenon DEF patchOnCommitTriggered, WriteStep
  <1>12. CASE getLastBuildRun
    <2>1. br' \in HeldRun
      BY <1>12, HoldType DEF getLastBuildRun, TypeOK, NoHeldRun, HeldRun, Phase
    <2>2. afterStatus(loc) \in PC
      BY DEF afterStatus
    <2>3. (IF loc.lastRun \in DOMAIN cacheRuns THEN "status" ELSE afterStatus(loc)) \in PC
      BY <2>2
    <2>. QED
      BY <1>0, <1>12, <2>1, <2>3, NoWriteType, Zenon DEF getLastBuildRun, Skip
  <1>13. CASE ensureBuildRun
    <2>1. buildRunNameFor(nextCounter(loc.counter)) \in RunName
      BY DEF TypeOK, ImageBuild, buildRunNameFor, nextCounter, RunName, RunKind
    <2>. QED
      BY <1>13, <2>1, GetOrCreateType, Zenon DEF ensureBuildRun
  <1>14. CASE patchBuildRunCounter
    BY <1>14, CounterCopy, WriteType, Zenon DEF patchBuildRunCounter, WriteStep
  <1>15. CASE recordBuildSpec
    <2>1. CASE UNCHANGED <<srv, faults>> /\ Finish(TRUE)
      BY <1>0, <1>15, <2>1, NoWriteType, Zenon DEF recordBuildSpec
    <2>2. CASE ~(UNCHANGED <<srv, faults>> /\ Finish(TRUE))
      BY <1>15, <2>2, NewCopies, WriteType, Zenon DEF recordBuildSpec, WriteStep
    <2>. QED
      BY <2>1, <2>2
  <1>16. CASE patchBuildSucceededCondition
    <2>1. afterStatus(srv') \in PC
      BY DEF afterStatus
    <2>. QED
      BY <1>16, <2>1, SucceededCopy, WriteType, Zenon DEF patchBuildSucceededCondition, WriteStep
  <1>17. CASE patchReadyCondition
    BY <1>17, NewCopies, WriteType, Zenon DEF patchReadyCondition, WriteStep
  <1>18. CASE patchLatestImage
    <2>. DEFINE new == [loc EXCEPT !.obsGen = loc.gen, !.latestImage = imageToReport(loc, br)]
    <2>1. poll(loc) \in BOOLEAN /\ poll(srv') \in BOOLEAN
      BY DEF poll
    <2>2. LastWrite(new)
      BY <1>18, <2>1, Zenon DEF patchLatestImage, LastWrite
    <2>. QED
      BY <2>2, LastWriteType, ImageCopy, Zenon
  <1>19. CASE setNotReady
    BY <1>19, LastWriteType, NewCopies DEF setNotReady, LastWrite, TypeOK
  <1>. QED
    BY <1>1, <1>2, <1>3, <1>4, <1>5, <1>6, <1>7, <1>8, <1>9, <1>10, <1>11, <1>12,
       <1>13, <1>14, <1>15, <1>16, <1>17, <1>18, <1>19, Zenon DEF Reconcile

(* Informers, crashes and webhook requests preserve TypeOK.                *)
LEMMA OperatorType ==
    ASSUME TypeOK, Operator
    PROVE  TypeOK'
  <1>. USE DEF cluster, caches, reconcile, versions, webhook, clock, bounds
  <1>1. CASE SyncImageBuild
    <2>1. RestType' /\ CopyType'
      BY <1>1 DEF SyncImageBuild, TypeOK, RestType, CopyType, FailureType
    <2>2. FlagType'
      BY <1>1, Zenon DEF SyncImageBuild, TypeOK, FlagType
    <2>. QED
      BY <2>1, <2>2, TypeParts, Zenon
  <1>2. CASE SyncRuns
    <2>1. RestType' /\ CopyType'
      BY <1>2 DEF SyncRuns, TypeOK, RestType, CopyType, FailureType
    <2>2. FlagType'
      BY <1>2, Zenon DEF SyncRuns, TypeOK, FlagType
    <2>. QED
      BY <2>1, <2>2, TypeParts, Zenon
  <1>3. CASE SyncBuild
    <2>1. RestType' /\ CopyType'
      BY <1>3 DEF SyncBuild, TypeOK, RestType, CopyType, FailureType
    <2>2. FlagType'
      BY <1>3, Zenon DEF SyncBuild, TypeOK, FlagType
    <2>. QED
      BY <2>1, <2>2, TypeParts, Zenon
  <1>4. CASE Crash
    <2>1. NoHeldRun \in HeldRun /\ NoFailure \in FailureType /\ "idle" \in PC
      BY DEF NoHeldRun, HeldRun, Phase, NoFailure, FailureType, PC
    <2>2. RestType' /\ CopyType'
      BY <1>4, <2>1, NoCopyType DEF Crash, TypeOK, RestType, CopyType
    <2>3. FlagType'
      BY <1>4, Zenon DEF Crash, TypeOK, FlagType
    <2>. QED
      BY <2>2, <2>3, TypeParts, Zenon
  <1>5. ASSUME NEW c \in Commits, WebhookReceives(c)
        PROVE  TypeOK'
    <2>1. [commit |-> c, at |-> deliveries', pending |-> cache.pending,
           lastReceived |-> cache.lastReceived] \in Request
      BY <1>5 DEF WebhookReceives, TypeOK, ImageBuild, Request
    <2>2. RestType' /\ CopyType'
      BY <1>5, <2>1 DEF WebhookReceives, TypeOK, RestType, CopyType, FailureType
    <2>3. FlagType'
      BY <1>5, Zenon DEF WebhookReceives, TypeOK, FlagType
    <2>. QED
      BY <2>2, <2>3, TypeParts, Zenon
  <1>6. ASSUME NEW h \in hooks, WebhookPatches(h)
        PROVE  TypeOK'
    <2>1. srv' \in ImageBuild
      <3>. DEFINE event == [commit |-> h.commit, at |-> h.at]
                  pending == MergeEvent(srv.pending, h.pending, event)
                  received == MergeEvent(srv.lastReceived, h.lastReceived, event)
      <3>1. h \in Request
        BY DEF TypeOK
      <3>2. /\ event \in Event /\ h.pending \in Event /\ h.lastReceived \in Event
            /\ srv.pending \in Event /\ srv.lastReceived \in Event
        BY <3>1 DEF Request, Event, TypeOK, ImageBuild
      <3>3. pending \in Event /\ received \in Event
        BY <3>2, MergeEventType
      <3>4. srv' = [srv EXCEPT !.pending = pending, !.lastReceived = received]
        BY <1>6 DEF WebhookPatches
      <3>. HIDE DEF pending, received
      <3>. QED
        BY <3>3, <3>4 DEF TypeOK, ImageBuild
    <2>2. RestType' /\ CopyType'
      BY <1>6, <2>1, VersionType DEF WebhookPatches, TypeOK, RestType, CopyType, FailureType
    <2>3. FlagType'
      BY <1>6, Zenon DEF WebhookPatches, TypeOK, FlagType
    <2>. QED
      BY <2>2, <2>3, TypeParts, Zenon
  <1>7. ASSUME NEW h \in hooks, WebhookFails(h)
        PROVE  TypeOK'
    <2>1. RestType' /\ CopyType'
      BY <1>7 DEF WebhookFails, Fault, TypeOK, RestType, CopyType, FailureType
    <2>2. FlagType'
      BY <1>7, Zenon DEF WebhookFails, TypeOK, FlagType
    <2>. QED
      BY <2>1, <2>2, TypeParts, Zenon
  <1>. QED
    BY <1>1, <1>2, <1>3, <1>4, <1>5, <1>6, <1>7 DEF Operator

(* The objects the environment writes.                                     *)
LEMMA EditType ==
    ASSUME NEW s \in ImageBuild, NEW i \in Inputs
    PROVE  /\ [s EXCEPT !.inputs = i, !.gen = s.gen + 1] \in ImageBuild
           /\ [s EXCEPT !.rebuild = TRUE, !.gen = s.gen + 1] \in ImageBuild
  <1>. DEFINE g == s.gen + 1
  <1>1. g \in Nat
    BY DEF ImageBuild
  <1>. HIDE DEF g
  <1>2. [s EXCEPT !.inputs = i, !.gen = g] \in ImageBuild
    BY <1>1 DEF ImageBuild
  <1>3. [s EXCEPT !.rebuild = TRUE, !.gen = g] \in ImageBuild
    BY <1>1 DEF ImageBuild
  <1>. QED
    BY <1>2, <1>3 DEF g

(* A BuildRun that starts or finishes is a BuildRun.                       *)
LEMMA RunStepType ==
    ASSUME NEW r \in Run, NEW p \in Phase, NEW d \in BOOLEAN, NEW i \in Inputs \cup {NoInputs}
    PROVE  /\ [r EXCEPT !.phase = p, !.built = i] \in Run
           /\ [r EXCEPT !.phase = p, !.digest = d] \in Run
  BY DEF Run

(* A BuildRun of somebody else is well typed.                              *)
LEMMA ForeignRunType == foreignRun \in Run
  <1>1. newBuildRun \in Run /\ "succeeded" \in Phase
    BY NewRunType DEF Phase
  <1>. QED
    BY <1>1 DEF foreignRun, Run

(* Users, Shipwright and the clock preserve TypeOK.                        *)
LEMMA EnvironmentType ==
    ASSUME TypeOK, Environment
    PROVE  TypeOK'
  <1>. USE DEF cluster, caches, reconcile, versions, webhook, clock, bounds
  <1>1. ASSUME NEW i \in Inputs, UserEdits(i)
        PROVE  TypeOK'
    <2>1. srv' \in ImageBuild
      BY <1>1, EditType DEF UserEdits, TypeOK
    <2>2. RestType' /\ CopyType'
      BY <1>1, <2>1, VersionType DEF UserEdits, TypeOK, RestType, CopyType, FailureType
    <2>3. FlagType'
      BY <1>1, Zenon DEF UserEdits, TypeOK, FlagType
    <2>. QED
      BY <2>2, <2>3, TypeParts, Zenon
  <1>2. CASE UserEnablesRebuild
    <2>1. srv' \in ImageBuild
      BY <1>2, EditType, InputsAssumption DEF UserEnablesRebuild, TypeOK
    <2>2. RestType' /\ CopyType'
      BY <1>2, <2>1, VersionType DEF UserEnablesRebuild, TypeOK, RestType, CopyType, FailureType
    <2>3. FlagType'
      BY <1>2, Zenon DEF UserEnablesRebuild, TypeOK, FlagType
    <2>. QED
      BY <2>2, <2>3, TypeParts, Zenon
  <1>3. CASE DependencyAppears
    <2>1. deps' \in Deps
      BY <1>3 DEF DependencyAppears, TypeOK, Deps
    <2>2. RestType' /\ CopyType'
      BY <1>3, <2>1 DEF DependencyAppears, TypeOK, RestType, CopyType, FailureType
    <2>3. FlagType'
      BY <1>3, Zenon DEF DependencyAppears, TypeOK, FlagType
    <2>. QED
      BY <2>2, <2>3, TypeParts, Zenon
  <1>4. ASSUME NEW n \in DOMAIN runs, RunStarts(n)
        PROVE  TypeOK'
    <2>1. [runs[n] EXCEPT !.phase = "running", !.built = build.inputs] \in Run
      <3>1. runs[n] \in Run /\ build.inputs \in Inputs \cup {NoInputs} /\ "running" \in Phase
        BY DEF TypeOK, Build, Phase
      <3>. QED
        BY <3>1, RunStepType
    <2>2. RestType' /\ CopyType'
      BY <1>4, <2>1 DEF RunStarts, TypeOK, RestType, CopyType, FailureType
    <2>3. FlagType'
      BY <1>4, Zenon DEF RunStarts, TypeOK, FlagType
    <2>. QED
      BY <2>2, <2>3, TypeParts, Zenon
  <1>5. ASSUME NEW n \in DOMAIN runs, RunFinishes(n)
        PROVE  TypeOK'
    <2>1. PICK r \in Run : runs' = [runs EXCEPT ![n] = r]
      <3>1. PICK result \in RunResults :
              runs' = [runs EXCEPT ![n] = [runs[n] EXCEPT
                         !.phase  = IF result = "failed" THEN "failed" ELSE "succeeded",
                         !.digest = (result = "digest")]]
        BY <1>5 DEF RunFinishes
      <3>2. (result = "digest") \in BOOLEAN
        OBVIOUS
      <3>3. [runs[n] EXCEPT !.phase  = IF result = "failed" THEN "failed" ELSE "succeeded",
                            !.digest = (result = "digest")] \in Run
        <4>1. /\ (IF result = "failed" THEN "failed" ELSE "succeeded") \in Phase
              /\ runs[n] \in Run
          BY DEF TypeOK, Phase
        <4>. QED
          BY <3>2, <4>1, RunStepType, Zenon
      <3>. QED
        BY <3>1, <3>3
    <2>2. RestType' /\ CopyType'
      BY <1>5, <2>1 DEF RunFinishes, TypeOK, RestType, CopyType, FailureType
    <2>3. FlagType'
      BY <1>5, Zenon DEF RunFinishes, TypeOK, FlagType
    <2>. QED
      BY <2>2, <2>3, TypeParts, Zenon
  <1>6. ASSUME NEW n \in DOMAIN runs, RunDeleted(n)
        PROVE  TypeOK'
    <2>1. RestType' /\ CopyType'
      BY <1>6 DEF RunDeleted, TypeOK, RestType, CopyType, FailureType
    <2>2. FlagType'
      BY <1>6, Zenon DEF RunDeleted, TypeOK, FlagType
    <2>. QED
      BY <2>1, <2>2, TypeParts, Zenon
  <1>7. CASE DebounceElapses
    <2>1. RestType' /\ CopyType'
      BY <1>7 DEF DebounceElapses, TypeOK, RestType, CopyType, FailureType
    <2>2. FlagType'
      BY <1>7, Zenon DEF DebounceElapses, TypeOK, FlagType
    <2>. QED
      BY <2>1, <2>2, TypeParts, Zenon
  <1>8. CASE IntervalElapses
    <2>1. srv.lastTrig.number \in Nat
      BY DEF TypeOK, ImageBuild, Trigger
    <2>2. RestType' /\ CopyType'
      BY <1>8, <2>1 DEF IntervalElapses, TypeOK, RestType, CopyType, FailureType
    <2>3. FlagType'
      BY <1>8, Zenon DEF IntervalElapses, TypeOK, FlagType
    <2>. QED
      BY <2>2, <2>3, TypeParts, Zenon
  <1>9. ASSUME NEW n \in LaterForeign, ForeignRunAppears(n)
        PROVE  TypeOK'
    <2>1. n \in RunName /\ foreignRun \in Run
      BY ControllerAssumption, ForeignRunType
    <2>2. RestType' /\ CopyType'
      BY <1>9, <2>1 DEF ForeignRunAppears, WithRun, TypeOK, RestType, CopyType, FailureType
    <2>3. FlagType'
      BY <1>9, Zenon DEF ForeignRunAppears, TypeOK, FlagType
    <2>. QED
      BY <2>2, <2>3, TypeParts, Zenon
  <1>10. CASE ForeignBuildAppears
    <2>1. build' \in Build
      BY <1>10 DEF ForeignBuildAppears, TypeOK, Build
    <2>2. RestType' /\ CopyType'
      BY <1>10, <2>1 DEF ForeignBuildAppears, TypeOK, RestType, CopyType, FailureType
    <2>3. FlagType'
      BY <1>10, Zenon DEF ForeignBuildAppears, TypeOK, FlagType
    <2>. QED
      BY <2>2, <2>3, TypeParts, Zenon
  <1>. QED
    BY <1>1, <1>2, <1>3, <1>4, <1>5, <1>6, <1>7, <1>8, <1>9, <1>10 DEF Environment

-----------------------------------------------------------------------------

(* The initial states are well typed.                                      *)
LEMMA InitType == Init => TypeOK
  <1>. SUFFICES ASSUME Init PROVE TypeOK
    OBVIOUS
  <1>0. foreignRun \in Run /\ InitInputs \subseteq Inputs
    BY ForeignRunType, ControllerAssumption
  <1>1. /\ srv \in ImageBuild /\ DOMAIN runs \subseteq RunName
        /\ \A n \in DOMAIN runs : runs[n] \in Run
        /\ build \in Build
    <2>1. CASE InitCreated
      <3>1. srv \in ImageBuild
        BY <1>0, <2>1 DEF InitCreated, NewImageBuild, ImageBuild, NoEvent, Event, NoTrigger, Trigger,
                    NoCondition, Conditions, NoImage, Image
      <3>2. DOMAIN runs \subseteq RunName /\ \A n \in DOMAIN runs : runs[n] \in Run
        <4>1. PICK F \in InitForeign : runs = [n \in F |-> foreignRun]
          BY <2>1 DEF InitCreated
        <4>. QED
          BY <1>0, <4>1
      <3>3. build \in Build
        BY <2>1 DEF InitCreated, Build
      <3>. QED
        BY <3>1, <3>2, <3>3
    <2>2. CASE InitSettled
      <3>. DEFINE first == buildRunNameFor(1)
      <3>1. first \in RunName
        BY DEF buildRunNameFor, RunName, RunKind
      <3>2. PICK i \in InitInputs, onCommit \in InitRebuild :
              /\ srv = [NewImageBuild(i, onCommit) EXCEPT
                          !.label = IF onCommit THEN "true" ELSE "false",
                          !.lastSpec = i, !.obsGen = 1, !.buildRef = TRUE,
                          !.conds = [ready |-> [reason |-> "Reconciled", gen |-> 1],
                                     succeeded |-> [reason |-> "BuildRunSucceeded", gen |-> 1]],
                          !.latestImage = [image |-> i, run |-> first],
                          !.lastRun = first, !.counter = 1]
              /\ \E F \in InitForeign :
                   runs = [n \in {first} \cup F |->
                             IF n = first THEN [phase |-> "succeeded", own |-> TRUE,
                                                digest |-> TRUE, built |-> i]
                             ELSE foreignRun]
              /\ build = newBuild(srv)
        BY <2>2 DEF InitSettled
      <3>. i \in Inputs
        BY <1>0
      <3>3. NewImageBuild(i, onCommit) \in ImageBuild
        BY DEF NewImageBuild, ImageBuild, NoEvent, Event, NoTrigger, Trigger,
               NoCondition, Conditions, NoImage, Image
      <3>4. /\ [ready |-> [reason |-> "Reconciled", gen |-> 1],
                succeeded |-> [reason |-> "BuildRunSucceeded", gen |-> 1]] \in Conditions
            /\ [image |-> i, run |-> first] \in Image
        BY <3>1 DEF Conditions, ReadyReason, SucceededReason, Image
      <3>. HIDE DEF first
      <3>5. srv \in ImageBuild
        <4>. DEFINE new == NewImageBuild(i, onCommit)
                    conds == [ready |-> [reason |-> "Reconciled", gen |-> 1],
                              succeeded |-> [reason |-> "BuildRunSucceeded", gen |-> 1]]
                    image == [image |-> i, run |-> first]
                    label == IF onCommit THEN "true" ELSE "false"
        <4>1. label \in {"absent", "true", "false"}
          OBVIOUS
        <4>2. new \in ImageBuild /\ conds \in Conditions /\ image \in Image
          BY <3>3, <3>4
        <4>3. srv = [new EXCEPT !.label = label, !.lastSpec = i, !.obsGen = 1, !.buildRef = TRUE,
                                !.conds = conds, !.latestImage = image, !.lastRun = first,
                                !.counter = 1]
          BY <3>2, Zenon
        <4>. HIDE DEF new, conds, image, label
        <4>. QED
          BY <3>1, <4>1, <4>2, <4>3 DEF ImageBuild
      <3>6. DOMAIN runs \subseteq RunName /\ \A n \in DOMAIN runs : runs[n] \in Run
        <4>. DEFINE done == [phase |-> "succeeded", own |-> TRUE, digest |-> TRUE, built |-> i]
        <4>1. done \in Run
          BY DEF Run, Phase
        <4>2. PICK F \in InitForeign :
                runs = [n \in {first} \cup F |-> IF n = first THEN done ELSE foreignRun]
          BY <3>2
        <4>. HIDE DEF done
        <4>. QED
          BY <1>0, <3>1, <4>1, <4>2
      <3>7. build \in Build
        BY <3>2, <3>5 DEF newBuild, Build, ImageBuild
      <3>. QED
        BY <3>5, <3>6, <3>7
    <2>. QED
      BY <2>1, <2>2 DEF Init
  <1>2. br \in HeldRun /\ fail \in FailureType /\ pc \in PC /\ deps \in Deps
    BY DEF Init, NoHeldRun, HeldRun, Phase, NoFailure, FailureType, PC, Deps
  <1>3. 0 \in 0 .. MaxLag /\ 0 \in 0 .. MaxDeliveries /\ 0 \in 0 .. MaxFaults
        /\ 0 \in 0 .. MaxCrashes /\ 0 \in 0 .. MaxDeletes /\ 0 \in Nat
    OBVIOUS
  <1>. QED
    BY <1>1, <1>2, <1>3, NoCopyType, Zenon DEF Init, TypeOK, FailureType

(* A stuttering step preserves TypeOK.                                     *)
LEMMA StutterType == TypeOK /\ UNCHANGED vars => TypeOK'
  <1>. SUFFICES ASSUME TypeOK, UNCHANGED vars PROVE TypeOK'
    OBVIOUS
  <1>. USE DEF vars, cluster, caches, reconcile, versions, webhook, clock, bounds
  <1>1. RestType' /\ CopyType'
    BY DEF TypeOK, RestType, CopyType, FailureType
  <1>2. FlagType'
    BY Zenon DEF TypeOK, FlagType
  <1>. QED
    BY <1>1, <1>2, TypeParts, Zenon

(* TypeOK is inductive.                                                    *)
LEMMA NextType == TypeOK /\ [Next]_vars => TypeOK'
  BY ReconcileType, OperatorType, EnvironmentType, StutterType, Zenon DEF Next

(* The objects the cluster stores, every copy the operator holds of them   *)
(* and the reconcile's variables keep their types, for any number of specs,*)
(* commits, deliveries, faults and crashes.                                *)
THEOREM TypeCorrect == Spec => []TypeOK
  BY InitType, NextType, PTL DEF Spec

=============================================================================
