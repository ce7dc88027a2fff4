-------------------------- MODULE OwnershipProofs --------------------------
(***************************************************************************)
(* The operator leaves Builds and BuildRuns of others alone, for all       *)
(* constants, whenever they appear.  The reconciler decides on ownership   *)
(* from its caches and, for the last BuildRun, not at all; what saves it is*)
(* that a name it refers to is one the ImageBuild's own BuildRun has or had*)
(* (Names), a set that only grows, and that the server refuses to create   *)
(* what exists (OwnershipInv).                                             *)
(***************************************************************************)
EXTENDS ImageBuildControllerProofs

(* The names of the BuildRuns the ImageBuild has and had.                  *)
Names == Owned \cup lost

(* What every step keeps: others' objects stay, an own Build stays own,    *)
(* caches show what the server has or had, and lastBuildRunRef and the     *)
(* buildRun variable come from each other or are among Names.              *)
KeepsBuild ==
    /\ build.owner = "foreign" /\ cacheBuild.owner # "orphan" => build' = build
    /\ build.owner = "own" => build'.owner = "own"
    /\ build'.owner \in {"absent", "orphan"} => build' = build
    /\ cacheBuild' \in {cacheBuild, build}

KeepsForeign ==
    /\ \A n \in DOMAIN runs : ~runs[n].own => n \in DOMAIN runs' /\ runs'[n] = runs[n]
    /\ Names \subseteq Names' /\ lost' \subseteq Names
    /\ cacheRuns' \in {cacheRuns, runs}

KeepsLastRun ==
    /\ srv'.lastRun \in {srv.lastRun, loc.lastRun, br.name}
    /\ cache' \in {cache, srv} /\ loc' \in {loc, cache, srv', NoCopy}

KeepsHeld == br'.name \in {br.name, loc.lastRun, NoRun} \cup Names'

Keeps == KeepsBuild /\ KeepsForeign /\ KeepsLastRun /\ KeepsHeld

(* Such a step touches nothing foreign and preserves the invariant.        *)
LEMMA KeptOwnership ==
    ASSUME TypeOK, TypeOK', OwnershipInv, Keeps
    PROVE  /\ OwnershipInv'
           /\ build.owner = "foreign" /\ cacheBuild.owner # "orphan" => build' = build
           /\ \A n \in DOMAIN runs :
                ~runs[n].own => /\ n \in DOMAIN runs' /\ runs'[n] = runs[n]
                                /\ n \notin lost => srv'.lastRun # n /\ br'.name # n
  <1>0. KeepsBuild /\ KeepsForeign /\ KeepsLastRun /\ KeepsHeld
    BY DEF Keeps
  <1>1. NoCopy.lastRun = NoRun /\ NoRun \notin RunName
    BY DEF NoCopy, NewImageBuild, NoRun, RunName, RunKind
  <1>2. Names \subseteq Names' /\ lost' \subseteq Names
    BY <1>0 DEF KeepsForeign
  <1>3. {srv.lastRun, cache.lastRun, loc.lastRun, br.name} \subseteq Names \cup {NoRun}
    BY DEF OwnershipInv, Names
  <1>4. {srv'.lastRun, cache'.lastRun, loc'.lastRun, br'.name} \subseteq Names' \cup {NoRun}
    BY <1>0, <1>1, <1>2, <1>3 DEF KeepsLastRun, KeepsHeld
  <1>5. \A n \in DOMAIN cacheRuns' :
          n \in IF cacheRuns'[n].own THEN Names' ELSE DOMAIN runs' \ Owned'
    <2>1. \A n \in DOMAIN cacheRuns :
            n \in IF cacheRuns[n].own THEN Names ELSE DOMAIN runs \ Owned
      BY DEF OwnershipInv, Names
    <2>2. \A n \in DOMAIN runs : n \in IF runs[n].own THEN Names ELSE DOMAIN runs \ Owned
      BY DEF Names, Owned
    <2>3. DOMAIN runs \ Owned \subseteq DOMAIN runs' \ Owned'
      BY <1>0 DEF KeepsForeign, Owned
    <2>4. cacheRuns' \in {cacheRuns, runs}
      BY <1>0 DEF KeepsForeign
    <2>. QED
      BY <1>2, <2>1, <2>2, <2>3, <2>4
  <1>6. /\ cacheBuild'.owner = "own" => build'.owner = "own"
        /\ build'.owner \in {"absent", "orphan"} => cacheBuild' = build'
    BY <1>0 DEF KeepsBuild, OwnershipInv
  <1>7. OwnershipInv'
    BY <1>4, <1>5, <1>6 DEF OwnershipInv, Names
  <1>8. ASSUME NEW n \in DOMAIN runs, ~runs[n].own, n \notin lost
        PROVE  srv'.lastRun # n /\ br'.name # n
    <2>1. n \in DOMAIN runs' /\ runs'[n] = runs[n] /\ n # NoRun
      BY <1>0, <1>1, <1>8 DEF KeepsForeign, TypeOK
    <2>2. n \notin Names
      BY <1>8 DEF Names, Owned
    <2>3. n \notin Names'
      BY <1>2, <1>8, <2>1, <2>2 DEF Names, Owned
    <2>. QED
      BY <1>4, <2>1, <2>3
  <1>. QED
    BY <1>0, <1>7, <1>8 DEF KeepsBuild, KeepsForeign

-----------------------------------------------------------------------------
(* The shapes of the steps.                                                *)

(* A step that leaves BuildRuns and their cache alone.                     *)
LEMMA RunsKept == ASSUME UNCHANGED <<runs, cacheRuns, lost>> PROVE KeepsForeign
  BY DEF KeepsForeign, Names, Owned

(* A step that leaves the Build and its cache alone.                       *)
LEMMA BuildKept == ASSUME UNCHANGED <<build, cacheBuild>> PROVE KeepsBuild
  BY DEF KeepsBuild

(* A patch leaves the stored lastBuildRunRef or sets the one it sends.     *)
LEMMA PatchedLastRun ==
    ASSUME TypeOK, NEW new \in ImageBuild, new.lastRun \in {loc.lastRun, br.name},
           PatchTo(new) \/ UNCHANGED srv
    PROVE  srv'.lastRun \in {srv.lastRun, loc.lastRun, br.name}
  BY DEF TypeOK, PatchTo, MergePatch, ImageBuild

Ends(next, reason, requeue) ==
    \/ Proceed(next) /\ UNCHANGED br
    \/ Finish(requeue)
    \/ Abandon(reason, requeue)
    \/ Skip(next) /\ UNCHANGED br

(* However a step of the reconcile ends, its copies are none it should not *)
(* have.                                                                   *)
LEMMA EndKeeps ==
    ASSUME TypeOK, Elsewhere, NEW next, NEW reason, NEW requeue, Ends(next, reason, requeue),
           srv'.lastRun \in {srv.lastRun, loc.lastRun, br.name}
    PROVE  KeepsLastRun /\ KeepsHeld /\ UNCHANGED <<cacheRuns, cacheBuild, lost>>
  <1>1. UNCHANGED <<cache, cacheRuns, cacheBuild, lost>>
    BY DEF Elsewhere, caches
  <1>2. NoHeldRun.name = NoRun
    BY DEF NoHeldRun
  <1>3. CASE Proceed(next) /\ UNCHANGED br
    BY <1>1, <1>3 DEF Proceed, KeepsLastRun, KeepsHeld
  <1>4. CASE Finish(requeue)
    BY <1>1, <1>2, <1>4 DEF Finish, KeepsLastRun, KeepsHeld
  <1>5. CASE Abandon(reason, requeue)
    BY <1>1, <1>5 DEF Abandon, KeepsLastRun, KeepsHeld
  <1>6. CASE Skip(next) /\ UNCHANGED br
    BY <1>1, <1>6 DEF Skip, KeepsLastRun, KeepsHeld
  <1>. QED
    BY <1>3, <1>4, <1>5, <1>6 DEF Ends

(* A patch of the ImageBuild, applied or not.                              *)
LEMMA WriteKeepsOwner ==
    ASSUME TypeOK, NEW new \in ImageBuild, new.lastRun \in {loc.lastRun, br.name},
           NEW next, NEW reason, WriteStep(new, next, reason)
    PROVE  Keeps
  <1>1. Elsewhere /\ UNCHANGED <<runs, build>> /\ (PatchTo(new) \/ UNCHANGED srv)
    BY Zenon DEF WriteStep, PatchError
  <1>2. srv'.lastRun \in {srv.lastRun, loc.lastRun, br.name}
    BY <1>1, PatchedLastRun
  <1>3. Ends(next, reason, TRUE)
    BY Zenon DEF WriteStep, Ends
  <1>4. KeepsLastRun /\ KeepsHeld /\ UNCHANGED <<cacheRuns, cacheBuild, lost>>
    BY <1>1, <1>2, <1>3, EndKeeps
  <1>. QED
    BY <1>1, <1>4, RunsKept, BuildKept DEF Keeps

(* The last patch of a reconcile.                                          *)
LEMMA LastWriteKeepsOwner ==
    ASSUME TypeOK, NEW new \in ImageBuild, new.lastRun = loc.lastRun, LastWrite(new)
    PROVE  Keeps
  <1>1. Elsewhere /\ UNCHANGED <<runs, build>> /\ (PatchTo(new) \/ UNCHANGED srv)
    BY Zenon DEF LastWrite, PatchError
  <1>2. srv'.lastRun \in {srv.lastRun, loc.lastRun, br.name}
    BY <1>1, PatchedLastRun
  <1>3. PICK requeue : Finish(requeue)
    BY Zenon DEF LastWrite
  <1>4. Ends("idle", "none", requeue)
    BY <1>3, Zenon DEF Ends
  <1>5. KeepsLastRun /\ KeepsHeld /\ UNCHANGED <<cacheRuns, cacheBuild, lost>>
    BY <1>1, <1>2, <1>4, EndKeeps
  <1>. QED
    BY <1>1, <1>5, RunsKept, BuildKept DEF Keeps

(* A step of the reconcile that does not write.                            *)
LEMMA NoWriteKeepsOwner ==
    ASSUME TypeOK, UNCHANGED <<srv, runs, build>>, Elsewhere,
           NEW next, NEW reason, NEW requeue, Ends(next, reason, requeue)
    PROVE  Keeps
  <1>1. srv'.lastRun \in {srv.lastRun, loc.lastRun, br.name}
    OBVIOUS
  <1>2. KeepsLastRun /\ KeepsHeld /\ UNCHANGED <<cacheRuns, cacheBuild, lost>>
    BY <1>1, EndKeeps
  <1>. QED
    BY <1>2, RunsKept, BuildKept DEF Keeps

(* Nobody outside the reconcile touches its variables.                     *)
LEMMA OutsideKeeps ==
    ASSUME UNCHANGED <<loc, br, build>>, srv'.lastRun = srv.lastRun,
           cache' \in {cache, srv}, cacheBuild' \in {cacheBuild, build}, KeepsForeign
    PROVE  Keeps
  BY DEF Keeps, KeepsBuild, KeepsLastRun, KeepsHeld

-----------------------------------------------------------------------------
(* Each action keeps the ownership.                                        *)

(* The copies the reconcile sends have its lastBuildRunRef, or its         *)
(* BuildRun's name.                                                        *)
SendsRun(new) == new \in ImageBuild /\ new.lastRun \in {loc.lastRun, br.name}

(* Label, buildRef, pending, annotation and Ready writes.                  *)
LEMMA NewCopiesRun ==
    ASSUME TypeOK
    PROVE  /\ SendsRun([loc EXCEPT !.label = desiredLabel(loc)])
           /\ SendsRun([loc EXCEPT !.buildRef = TRUE, !.obsGen = loc.gen])
           /\ SendsRun([loc EXCEPT !.pending = NoEvent])
           /\ SendsRun([loc EXCEPT !.lastSpec = loc.inputs])
           /\ \A reason \in ReadyReason \cup {"none"} :
                SendsRun(withReady(reason)) /\ withReady(reason).lastRun = loc.lastRun
  <1>0. loc \in ImageBuild
    BY DEF TypeOK
  <1>1. SendsRun([loc EXCEPT !.label = desiredLabel(loc)])
    BY <1>0, NewCopies DEF SendsRun, ImageBuild
  <1>2. SendsRun([loc EXCEPT !.buildRef = TRUE, !.obsGen = loc.gen])
    BY <1>0, NewCopies DEF SendsRun, ImageBuild
  <1>3. SendsRun([loc EXCEPT !.pending = NoEvent])
    BY <1>0, NewCopies DEF SendsRun, ImageBuild
  <1>4. SendsRun([loc EXCEPT !.lastSpec = loc.inputs])
    BY <1>0, NewCopies DEF SendsRun, ImageBuild
  <1>5. ASSUME NEW reason \in ReadyReason \cup {"none"}
        PROVE  SendsRun(withReady(reason)) /\ withReady(reason).lastRun = loc.lastRun
    <2>1. withReady(reason) \in ImageBuild
      BY NewCopies
    <2>. QED
      BY <1>0, <2>1 DEF SendsRun, ImageBuild, withReady
  <1>. QED
    BY <1>1, <1>2, <1>3, <1>4, <1>5

(* Counter, trigger, BuildSucceeded and image writes.                      *)
LEMMA NewRunsRun ==
    ASSUME TypeOK
    PROVE  /\ SendsRun([loc EXCEPT !.counter = br.name[2]])
           /\ SendsRun([loc EXCEPT !.trigCounter = br.name[2],
                                   !.lastTrig = [number |-> br.name[2],
                                                 commit |-> loc.pending.commit],
                                   !.pending = NoEvent])
           /\ SendsRun([loc EXCEPT !.obsGen = loc.gen,
                                   !.lastRun = br.name,
                                   !.conds = [loc.conds EXCEPT !.succeeded =
                                       [reason |-> deriveBuildSucceededStatus(br),
                                        gen |-> loc.gen]]])
           /\ [loc EXCEPT !.obsGen = loc.gen, !.latestImage = imageToReport(loc, br)].lastRun
                = loc.lastRun
  <1>0. loc \in ImageBuild
    BY DEF TypeOK
  <1>1. SendsRun([loc EXCEPT !.counter = br.name[2]])
    BY <1>0, CounterCopy DEF SendsRun, ImageBuild
  <1>2. SendsRun([loc EXCEPT !.trigCounter = br.name[2],
                             !.lastTrig = [number |-> br.name[2],
                                           commit |-> loc.pending.commit],
                             !.pending = NoEvent])
    BY <1>0, TriggerCopy DEF SendsRun, ImageBuild
  <1>3. SendsRun([loc EXCEPT !.obsGen = loc.gen,
                             !.lastRun = br.name,
                             !.conds = [loc.conds EXCEPT !.succeeded =
                                 [reason |-> deriveBuildSucceededStatus(br),
                                  gen |-> loc.gen]]])
    BY <1>0, SucceededCopy DEF SendsRun, ImageBuild
  <1>4. [loc EXCEPT !.obsGen = loc.gen, !.latestImage = imageToReport(loc, br)].lastRun
          = loc.lastRun
    BY <1>0 DEF ImageBuild
  <1>. QED
    BY <1>1, <1>2, <1>3, <1>4

(* getOrCreateBuildRun adopts a BuildRun only if the cache shows it as the *)
(* ImageBuild's, which it is or was, and creates one only under a free     *)
(* name.                                                                   *)
LEMMA GetOrCreateKeeps ==
    ASSUME TypeOK, OwnershipInv, NEW name, NEW reused, NEW created, NEW conflict,
           getOrCreateBuildRun(name, reused, created, conflict)
    PROVE  Keeps
  <1>1. Elsewhere /\ UNCHANGED <<srv, build>>
    BY Zenon DEF getOrCreateBuildRun, Skip
  <1>2. UNCHANGED <<cache, cacheRuns, cacheBuild, lost>>
    BY <1>1 DEF Elsewhere, caches
  <1>3. name \in DOMAIN cacheRuns /\ isControlledBy(cacheRuns[name]) => name \in Names
    BY DEF OwnershipInv, Names, isControlledBy
  <1>4. UNCHANGED runs \/ (name \notin DOMAIN runs /\ runs' = WithRun(name, newBuildRun))
    BY Zenon DEF getOrCreateBuildRun
  <1>5. ASSUME name \notin DOMAIN runs, runs' = WithRun(name, newBuildRun)
        PROVE  KeepsForeign /\ name \in Names'
    <2>1. /\ DOMAIN runs' = DOMAIN runs \cup {name}
          /\ \A n \in DOMAIN runs : runs'[n] = runs[n]
          /\ runs'[name].own
      BY <1>5 DEF WithRun, newBuildRun
    <2>2. Names' = Names \cup {name}
      BY <1>2, <1>5, <2>1 DEF Names, Owned
    <2>3. lost' \subseteq Names
      BY <1>2 DEF Names
    <2>. QED
      BY <1>2, <2>1, <2>2, <2>3 DEF KeepsForeign
  <1>6. KeepsForeign
    BY <1>2, <1>4, <1>5, RunsKept
  <1>7. Names \subseteq Names'
    BY <1>6 DEF KeepsForeign
  <1>8. ASSUME NEW run, NEW next, br' = Hold(name, run), Skip(next), name \in Names'
        PROVE  KeepsLastRun /\ KeepsHeld
    BY <1>2, <1>8 DEF Skip, Hold, KeepsLastRun, KeepsHeld
  <1>9. ASSUME NEW reason, NEW requeue, Abandon(reason, requeue)
        PROVE  KeepsLastRun /\ KeepsHeld
    BY <1>1, <1>2, <1>9 DEF Abandon, KeepsLastRun, KeepsHeld
  <1>10. KeepsLastRun /\ KeepsHeld
    BY <1>3, <1>5, <1>7, <1>8, <1>9, Zenon DEF getOrCreateBuildRun
  <1>. QED
    BY <1>1, <1>2, <1>6, <1>10, BuildKept DEF Keeps

(* ensureBuild writes the Build only if the cache shows it as its own,     *)
(* which it is, or without owner, or if there is none.                     *)
LEMMA EnsureBuildKeeps == ASSUME TypeOK, OwnershipInv, ensureBuild PROVE Keeps
  <1>1. Elsewhere /\ UNCHANGED <<srv, runs>> /\ cacheBuild.owner # "foreign"
    BY Zenon DEF ensureBuild, Skip
  <1>2. build.owner = "foreign" /\ cacheBuild.owner # "orphan" => build' = build
    <2>. SUFFICES ASSUME build.owner = "foreign", cacheBuild.owner # "orphan"
                  PROVE  build' = build
      OBVIOUS
    <2>1. cacheBuild.owner \in {"absent", "orphan", "foreign", "own"}
      BY DEF TypeOK, Build
    <2>2. cacheBuild.owner = "absent"
      BY <1>1, <2>1 DEF OwnershipInv
    <2>3. buildRefused
      BY <2>2 DEF buildRefused
    <2>. QED
      BY <2>3, Zenon DEF ensureBuild
  <1>3. build' = build \/ build' = newBuild(loc)
    BY Zenon DEF ensureBuild
  <1>4. newBuild(loc).owner = "own"
    BY DEF newBuild
  <1>5. \/ Ends(afterBuild, "BuildReconcileFailed", TRUE)
    BY Zenon DEF ensureBuild, Ends
  <1>6. srv'.lastRun \in {srv.lastRun, loc.lastRun, br.name}
    BY <1>1
  <1>7. KeepsLastRun /\ KeepsHeld /\ UNCHANGED <<cacheRuns, cacheBuild, lost>>
    BY <1>1, <1>5, <1>6, EndKeeps
  <1>8. KeepsBuild
    BY <1>2, <1>3, <1>4, <1>7 DEF KeepsBuild
  <1>. QED
    BY <1>1, <1>7, <1>8, RunsKept DEF Keeps

(* Every step of the reconcile keeps the ownership.                        *)
LEMMA ReconcileKeeps == ASSUME TypeOK, OwnershipInv, Reconcile PROVE Keeps
  <1>w. ASSUME NEW new, SendsRun(new), NEW next, NEW reason, WriteStep(new, next, reason)
        PROVE  Keeps
    BY <1>w, WriteKeepsOwner, Zenon DEF SendsRun
  <1>n. ASSUME UNCHANGED <<srv, runs, build>>, Elsewhere,
               NEW next, NEW reason, NEW requeue,
               (Skip(next) /\ UNCHANGED br) \/ Finish(requeue) \/ Abandon(reason, requeue)
        PROVE  Keeps
    BY <1>n, NoWriteKeepsOwner, Zenon DEF Ends
  <1>1. ASSUME StartReconcile PROVE Keeps
    <2>1. UNCHANGED <<srv, runs, build, cache, cacheRuns, cacheBuild, br, lost>> /\ loc' = cache
      BY <1>1 DEF StartReconcile, cluster, caches, bounds
    <2>. QED
      BY <2>1, RunsKept, BuildKept DEF Keeps, KeepsLastRun, KeepsHeld
  <1>2. ASSUME ensureOnCommitLabel PROVE Keeps
    BY <1>2, <1>w, NewCopiesRun, Zenon DEF ensureOnCommitLabel, WriteStep
  <1>3. ASSUME validateWebhookSecret \/ buildBlocked PROVE Keeps
    BY <1>3, <1>n, Zenon DEF validateWebhookSecret, buildBlocked
  <1>4. ASSUME ensureBuild PROVE Keeps
    BY <1>4, EnsureBuildKeeps
  <1>5. ASSUME patchBuildRef PROVE Keeps
    BY <1>5, <1>w, NewCopiesRun, Zenon DEF patchBuildRef, WriteStep
  <1>6. ASSUME onCommitWaits PROVE Keeps
    BY <1>6, <1>n, Zenon DEF onCommitWaits
  <1>7. ASSUME onCommitDuplicate PROVE Keeps
    BY <1>7, <1>w, NewCopiesRun, Zenon DEF onCommitDuplicate, WriteStep
  <1>8. ASSUME onCommitActive \/ getLastBuildRun PROVE Keeps
    <2>1. UNCHANGED <<srv, runs, build, loc>> /\ Elsewhere
      BY <1>8, Zenon DEF onCommitActive, getLastBuildRun, Skip
    <2>2. UNCHANGED <<cache, cacheRuns, cacheBuild, lost>>
      BY <2>1 DEF Elsewhere, caches
    <2>3. br'.name \in {loc.lastRun, NoRun}
      BY <1>8 DEF onCommitActive, getLastBuildRun, Hold, NoHeldRun
    <2>. QED
      BY <2>1, <2>2, <2>3, RunsKept, BuildKept DEF Keeps, KeepsLastRun, KeepsHeld
  <1>9. ASSUME ensureOnCommitBuildRun \/ ensureBuildRun PROVE Keeps
    BY <1>9, GetOrCreateKeeps, Zenon DEF ensureOnCommitBuildRun, ensureBuildRun
  <1>10. ASSUME patchOnCommitTriggered PROVE Keeps
    BY <1>10, <1>w, NewRunsRun, Zenon DEF patchOnCommitTriggered, WriteStep
  <1>11. ASSUME patchBuildRunCounter PROVE Keeps
    BY <1>11, <1>w, NewRunsRun, Zenon DEF patchBuildRunCounter, WriteStep
  <1>12. ASSUME recordBuildSpec PROVE Keeps
    <2>1. CASE UNCHANGED <<srv, faults>> /\ Finish(TRUE)
      <3>1. UNCHANGED <<srv, runs, build>> /\ Elsewhere /\ Finish(TRUE)
        BY <1>12, <2>1 DEF recordBuildSpec
      <3>. QED
        BY <1>n, <3>1, Zenon
    <2>2. CASE ~(UNCHANGED <<srv, faults>> /\ Finish(TRUE))
      BY <1>12, <1>w, <2>2, NewCopiesRun, Zenon DEF recordBuildSpec, WriteStep
    <2>. QED
      BY <2>1, <2>2
  <1>13. ASSUME patchBuildSucceededCondition PROVE Keeps
    BY <1>13, <1>w, NewRunsRun, Zenon DEF patchBuildSucceededCondition, WriteStep
  <1>14. ASSUME patchReadyCondition PROVE Keeps
    <2>1. "Reconciled" \in ReadyReason \cup {"none"}
      BY DEF ReadyReason
    <2>. QED
      BY <1>14, <1>w, <2>1, NewCopiesRun, Zenon DEF patchReadyCondition, WriteStep
  <1>15. ASSUME patchLatestImage PROVE Keeps
    <2>. DEFINE new == [loc EXCEPT !.obsGen = loc.gen, !.latestImage = imageToReport(loc, br)]
    <2>1. poll(loc) \in BOOLEAN /\ poll(srv') \in BOOLEAN
      BY DEF poll
    <2>2. LastWrite(new)
      BY <1>15, <2>1, Zenon DEF patchLatestImage, LastWrite
    <2>3. new \in ImageBuild /\ new.lastRun = loc.lastRun
      BY ImageCopy, NewRunsRun, Zenon
    <2>. QED
      BY <2>2, <2>3, LastWriteKeepsOwner, Zenon
  <1>16. ASSUME setNotReady PROVE Keeps
    <2>1. fail.reason \in ReadyReason \cup {"none"} /\ fail.requeue \in BOOLEAN
      BY DEF TypeOK
    <2>2. LastWrite(withReady(fail.reason))
      BY <1>16, <2>1, Zenon DEF setNotReady, LastWrite
    <2>. QED
      BY <2>1, <2>2, LastWriteKeepsOwner, NewCopiesRun, Zenon DEF SendsRun
  <1>. QED
    BY <1>1, <1>2, <1>3, <1>4, <1>5, <1>6, <1>7, <1>8, <1>9, <1>10, <1>11, <1>12,
       <1>13, <1>14, <1>15, <1>16, Zenon DEF Reconcile

(* The rest of the operator's process.                                     *)
LEMMA OperatorKeeps == ASSUME TypeOK, Operator PROVE Keeps
  <1>. USE DEF cluster, caches, reconcile, versions, webhook, clock, bounds
  <1>1. ASSUME SyncImageBuild \/ SyncBuild PROVE Keeps
    <2>1. /\ UNCHANGED <<srv, runs, build, cacheRuns, loc, br, lost>>
          /\ cache' \in {cache, srv} /\ cacheBuild' \in {cacheBuild, build}
      BY <1>1 DEF SyncImageBuild, SyncBuild
    <2>. QED
      BY <2>1, RunsKept, OutsideKeeps
  <1>2. ASSUME SyncRuns PROVE Keeps
    <2>1. UNCHANGED <<srv, runs, build, cache, cacheBuild, loc, br, lost>> /\ cacheRuns' = runs
      BY <1>2 DEF SyncRuns
    <2>2. KeepsForeign
      BY <2>1 DEF KeepsForeign, Names, Owned
    <2>. QED
      BY <2>1, <2>2, OutsideKeeps
  <1>3. ASSUME Crash PROVE Keeps
    <2>1. /\ UNCHANGED <<srv, runs, build, lost>> /\ cacheRuns' = runs /\ cacheBuild' = build
          /\ cache' = srv /\ loc' = NoCopy /\ br' = NoHeldRun
      BY <1>3 DEF Crash
    <2>2. KeepsForeign
      BY <2>1 DEF KeepsForeign, Names, Owned
    <2>3. KeepsHeld
      BY <2>1 DEF KeepsHeld, NoHeldRun
    <2>. QED
      BY <2>1, <2>2, <2>3 DEF Keeps, KeepsBuild, KeepsLastRun
  <1>4. ASSUME NEW c \in Commits, WebhookReceives(c) PROVE Keeps
    <2>1. UNCHANGED <<srv, runs, build, cache, cacheRuns, cacheBuild, loc, br, lost>>
      BY <1>4 DEF WebhookReceives
    <2>. QED
      BY <2>1, RunsKept, OutsideKeeps
  <1>5. ASSUME NEW h \in hooks, WebhookPatches(h) PROVE Keeps
    <2>1. UNCHANGED <<runs, build, cache, cacheRuns, cacheBuild, loc, br, lost>>
      BY <1>5 DEF WebhookPatches
    <2>2. srv'.lastRun = srv.lastRun
      BY <1>5 DEF WebhookPatches, TypeOK, ImageBuild
    <2>. QED
      BY <2>1, <2>2, RunsKept, OutsideKeeps
  <1>6. ASSUME NEW h \in hooks, WebhookFails(h) PROVE Keeps
    <2>1. UNCHANGED <<srv, runs, build, cache, cacheRuns, cacheBuild, loc, br, lost>>
      BY <1>6 DEF WebhookFails
    <2>. QED
      BY <2>1, RunsKept, OutsideKeeps
  <1>. QED
    BY <1>1, <1>2, <1>3, <1>4, <1>5, <1>6, Zenon DEF Operator

(* Users edit the ImageBuild's spec, and Shipwright and retention touch    *)
(* only BuildRuns of the ImageBuild.                                       *)
LEMMA EnvironmentKeeps == ASSUME TypeOK, Environment PROVE Keeps
  <1>. USE DEF cluster, caches, reconcile, versions, webhook, clock, bounds
  <1>1. ASSUME NEW i \in Inputs, UserEdits(i) PROVE Keeps
    <2>1. UNCHANGED <<runs, build, cache, cacheRuns, cacheBuild, loc, br, lost>>
      BY <1>1 DEF UserEdits
    <2>2. srv'.lastRun = srv.lastRun
      BY <1>1 DEF UserEdits, TypeOK, ImageBuild
    <2>. QED
      BY <2>1, <2>2, RunsKept, OutsideKeeps
  <1>2. ASSUME UserEnablesRebuild PROVE Keeps
    <2>1. UNCHANGED <<runs, build, cache, cacheRuns, cacheBuild, loc, br, lost>>
      BY <1>2 DEF UserEnablesRebuild
    <2>2. srv'.lastRun = srv.lastRun
      BY <1>2 DEF UserEnablesRebuild, TypeOK, ImageBuild
    <2>. QED
      BY <2>1, <2>2, RunsKept, OutsideKeeps
  <1>3. ASSUME DependencyAppears \/ DebounceElapses \/ IntervalElapses PROVE Keeps
    <2>1. UNCHANGED <<srv, runs, build, cache, cacheRuns, cacheBuild, loc, br, lost>>
      BY <1>3 DEF DependencyAppears, DebounceElapses, IntervalElapses
    <2>. QED
      BY <2>1, RunsKept, OutsideKeeps
  <1>4. ASSUME NEW n \in DOMAIN runs, RunStarts(n) \/ RunFinishes(n) PROVE Keeps
    <2>1. UNCHANGED <<srv, build, cache, cacheRuns, cacheBuild, loc, br, lost>>
      BY <1>4 DEF RunStarts, RunFinishes
    <2>2. DOMAIN runs' = DOMAIN runs /\ runs[n].own
          /\ \A m \in DOMAIN runs : m # n => runs'[m] = runs[m]
      BY <1>4 DEF RunStarts, RunFinishes
    <2>3. runs'[n].own
      <3>1. runs[n] \in Run
        BY DEF TypeOK
      <3>2. CASE RunStarts(n)
        BY <2>2, <3>1, <3>2 DEF RunStarts, Run
      <3>3. CASE RunFinishes(n)
        <4>1. PICK phase, digest :
                runs' = [runs EXCEPT ![n] = [runs[n] EXCEPT !.phase = phase, !.digest = digest]]
          BY <3>3, Zenon DEF RunFinishes
        <4>. QED
          BY <2>2, <3>1, <4>1 DEF Run
      <3>. QED
        BY <1>4, <3>2, <3>3
    <2>4. KeepsForeign
      BY <2>1, <2>2, <2>3 DEF KeepsForeign, Names, Owned
    <2>. QED
      BY <2>1, <2>4, OutsideKeeps
  <1>5. ASSUME NEW n \in DOMAIN runs, RunDeleted(n) PROVE Keeps
    <2>1. UNCHANGED <<srv, build, cache, cacheRuns, cacheBuild, loc, br>>
      BY <1>5 DEF RunDeleted
    <2>2. /\ runs[n].own /\ runs' = [m \in DOMAIN runs \ {n} |-> runs[m]]
          /\ lost' = lost \cup {n}
      BY <1>5 DEF RunDeleted
    <2>3. n \in Owned /\ Owned' = Owned \ {n}
      BY <2>2 DEF Owned
    <2>4. Names' = Names /\ lost' \subseteq Names
      BY <2>2, <2>3 DEF Names
    <2>5. KeepsForeign
      BY <2>1, <2>2, <2>4 DEF KeepsForeign
    <2>. QED
      BY <2>1, <2>5, OutsideKeeps DEF KeepsBuild
  <1>6. ASSUME NEW n \in LaterForeign, ForeignRunAppears(n) PROVE Keeps
    <2>1. UNCHANGED <<srv, build, cache, cacheRuns, cacheBuild, loc, br, lost>>
      BY <1>6 DEF ForeignRunAppears
    <2>2. n \notin DOMAIN runs /\ runs' = WithRun(n, foreignRun)
      BY <1>6 DEF ForeignRunAppears
    <2>3. ~foreignRun.own
      BY DEF foreignRun, newBuildRun
    <2>4. DOMAIN runs' = DOMAIN runs \cup {n} /\ Owned' = Owned
          /\ \A m \in DOMAIN runs : runs'[m] = runs[m]
      BY <2>2, <2>3 DEF WithRun, Owned
    <2>5. KeepsForeign
      BY <2>1, <2>4 DEF KeepsForeign, Names
    <2>. QED
      BY <2>1, <2>5, OutsideKeeps DEF KeepsBuild
  <1>7. ASSUME ForeignBuildAppears PROVE Keeps
    <2>1. UNCHANGED <<srv, runs, cache, cacheRuns, cacheBuild, loc, br, lost>>
      BY <1>7 DEF ForeignBuildAppears
    <2>2. /\ build.owner \in {"absent", "orphan"}
          /\ build' = [build EXCEPT !.owner = "foreign"] /\ build \in Build
      BY <1>7 DEF ForeignBuildAppears, TypeOK
    <2>3. KeepsBuild
      BY <2>1, <2>2 DEF KeepsBuild, Build
    <2>. QED
      BY <2>1, <2>3, RunsKept DEF Keeps, KeepsLastRun, KeepsHeld
  <1>. QED
    BY <1>1, <1>2, <1>3, <1>4, <1>5, <1>6, <1>7, Zenon DEF Environment

(* Every step keeps the ownership.                                         *)
LEMMA NextKeeps == ASSUME TypeOK, OwnershipInv, [Next]_vars PROVE Keeps
  <1>1. CASE Next
    BY <1>1, ReconcileKeeps, OperatorKeeps, EnvironmentKeeps, Zenon DEF Next
  <1>2. CASE UNCHANGED vars
    <2>1. UNCHANGED <<srv, runs, build, cache, cacheRuns, cacheBuild, loc, br, lost>>
      BY <1>2 DEF vars, cluster, caches, reconcile, bounds
    <2>. QED
      BY <2>1, RunsKept, OutsideKeeps
  <1>. QED
    BY <1>1, <1>2

-----------------------------------------------------------------------------
(* At first the ImageBuild refers to no BuildRun, or to its own first one, *)
(* and the caches are up to date.                                          *)
LEMMA InitOwnership == ASSUME Init PROVE OwnershipInv
  <1>1. /\ cache = srv /\ cacheRuns = runs /\ cacheBuild = build
        /\ loc = NoCopy /\ br = NoHeldRun
    BY DEF Init
  <1>2. NoCopy.lastRun = NoRun /\ NoHeldRun.name = NoRun
    BY DEF NoCopy, NewImageBuild, NoHeldRun
  <1>3. srv.lastRun \in Owned \cup {NoRun}
    <2>1. CASE InitCreated
      BY <2>1 DEF InitCreated, NewImageBuild
    <2>2. CASE InitSettled
      <3>1. srv.lastRun = buildRunNameFor(1)
        BY <2>2 DEF InitSettled, NewImageBuild
      <3>2. PICK i \in InitInputs, F \in InitForeign :
              runs = [n \in {buildRunNameFor(1)} \cup F |->
                        IF n = buildRunNameFor(1)
                        THEN [phase |-> "succeeded", own |-> TRUE, digest |-> TRUE, built |-> i]
                        ELSE foreignRun]
        BY <2>2 DEF InitSettled
      <3>3. /\ buildRunNameFor(1) \in DOMAIN runs
            /\ runs[buildRunNameFor(1)]
                 = [phase |-> "succeeded", own |-> TRUE, digest |-> TRUE, built |-> i]
        BY <3>2
      <3>. QED
        BY <3>1, <3>3 DEF Owned
    <2>. QED
      BY <2>1, <2>2 DEF Init
  <1>. QED
    BY <1>1, <1>2, <1>3 DEF OwnershipInv, Owned

(* TypeOK and OwnershipInv together are inductive.                         *)
LEMMA OwnershipStep ==
    TypeOK /\ OwnershipInv /\ [Next]_vars => (TypeOK /\ OwnershipInv)'
  BY NextType, NextKeeps, KeptOwnership

(* Whatever the operator refers to or takes for the ImageBuild's BuildRun  *)
(* is one the ImageBuild has or had, and a Build it takes for its own is   *)
(* (getOrCreateBuildRun, getLastBuildRun, ensureBuild).                    *)
THEOREM OwnershipInvariant == Spec => []OwnershipInv
  <1>1. Init => TypeOK /\ OwnershipInv
    BY InitType, InitOwnership
  <1>. QED
    BY <1>1, OwnershipStep, PTL DEF Spec

(* A Build or BuildRun of somebody else, there at first or appearing at any*)
(* time, is neither changed nor deleted nor adopted nor reported by the    *)
(* operator, although it decides on ownership from its caches: except that *)
(* a Build it still sees without owner is taken over, and that the name of *)
(* an own BuildRun that was deleted is not asked about again               *)
(* (isControlledBy, ensureBuild, getOrCreateBuildRun, getLastBuildRun).    *)
THEOREM ForeignIsUntouched == Spec => ForeignUntouched
  <1>. DEFINE Step ==
         /\ build.owner = "foreign" /\ cacheBuild.owner # "orphan" => build' = build
         /\ \A n \in DOMAIN runs :
              ~runs[n].own => /\ n \in DOMAIN runs' /\ runs'[n] = runs[n]
                              /\ n \notin lost => srv'.lastRun # n /\ br'.name # n
  <1>1. TypeOK /\ OwnershipInv /\ [Next]_vars => Step
    BY NextType, NextKeeps, KeptOwnership
  <1>2. TypeOK /\ OwnershipInv /\ [Next]_vars => [Step]_vars
    BY <1>1
  <1>3. Init => TypeOK /\ OwnershipInv
    BY InitType, InitOwnership
  <1>. QED
    BY <1>2, <1>3, OwnershipStep, PTL DEF Spec, ForeignUntouched

=============================================================================
