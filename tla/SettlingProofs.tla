--------------------------- MODULE SettlingProofs ---------------------------
(***************************************************************************)
(* What is true when the reconciler has come to rest, for all constants.   *)
(*                                                                         *)
(* Rest is reached by a reconcile that wrote nothing: whatever it writes   *)
(* makes a version the informer has yet to deliver, and that delivery      *)
(* queues the ImageBuild again.  So the state at rest is what a reconcile  *)
(* leaves that found every patch unnecessary, or gave up on a conflict.    *)
(* CalmIsSettled follows such a reconcile from write to write; steps       *)
(* elsewhere either change nothing it looks at or end the calm.            *)
(***************************************************************************)
EXTENDS NumberingProofs, OwnershipProofs

SettledInv == NumberingInv /\ OwnershipInv /\ SettlingInv

-----------------------------------------------------------------------------
(* The BuildRuns the cache shows as the ImageBuild's.                      *)

(* They are those of the cache with the ImageBuild as owner.               *)
LEMMA OwnInCache ==
    ASSUME NEW n
    PROVE  n \in DOMAIN OwnIn(cacheRuns) <=> n \in DOMAIN cacheRuns /\ cacheRuns[n].own
  BY DEF OwnIn

(* The same after a step.                                                  *)
LEMMA OwnInCacheNext ==
    ASSUME NEW n
    PROVE  n \in DOMAIN OwnIn(cacheRuns)' <=> n \in DOMAIN cacheRuns' /\ cacheRuns'[n].own
  BY DEF OwnIn

(* Where two caches show the same own BuildRuns, these have the same       *)
(* content in both.                                                        *)
LEMMA SameOwnIn ==
    ASSUME NEW rs, NEW ss, OwnIn(rs) = OwnIn(ss)
    PROVE  /\ DOMAIN OwnIn(rs) = DOMAIN OwnIn(ss)
           /\ \A n \in DOMAIN OwnIn(ss) : rs[n] = ss[n]
  <1>1. /\ \A n \in DOMAIN OwnIn(rs) : OwnIn(rs)[n] = rs[n]
        /\ \A n \in DOMAIN OwnIn(ss) : OwnIn(ss)[n] = ss[n]
    BY DEF OwnIn
  <1>. QED
    BY <1>1, Zenon

-----------------------------------------------------------------------------
(* Patches of an up-to-date copy.                                          *)

(* The patch computed from what is stored stores the copy it was computed  *)
(* for.                                                                    *)
LEMMA MergeCurrent ==
    ASSUME NEW s \in ImageBuild, NEW n \in ImageBuild
    PROVE  MergePatch(s, s, n) = n
  <1>1. MergePatch(s, s, n) = [f \in DOMAIN n |-> n[f]]
    BY DEF MergePatch, ImageBuild
  <1>2. n = [f \in DOMAIN n |-> n[f]]
    BY DEF ImageBuild
  <1>. QED
    BY <1>1, <1>2

(* A field the copy leaves alone keeps what the server has.                *)
LEMMA PatchedFields ==
    ASSUME TypeOK, NEW new \in ImageBuild, PatchTo(new) \/ UNCHANGED srv
    PROVE  /\ new.rebuild = loc.rebuild => srv'.rebuild = srv.rebuild
           /\ srv'.pending \in {srv.pending, new.pending}
           /\ new.pending = loc.pending => srv'.pending = srv.pending
           /\ new.trigCounter = loc.trigCounter => srv'.trigCounter = srv.trigCounter
           /\ srv'.conds \in {srv.conds, new.conds}
           /\ new.conds = loc.conds => srv'.conds = srv.conds
  BY DEF TypeOK, PatchTo, MergePatch, ImageBuild

-----------------------------------------------------------------------------
(* How a step of the reconcile ends, and what that says of the calm.       *)

Leads(next, reason, requeue) ==
    \/ Proceed(next) \/ Skip(next)
    \/ Finish(requeue) \/ Abandon(reason, requeue)

(* A key in the workqueue stays there until the next reconcile.            *)
LEMMA StaysQueued ==
    ASSUME NEW next, NEW reason, NEW requeue, Leads(next, reason, requeue), queued
    PROVE  queued'
  BY Zenon DEF Leads, Proceed, Skip, Finish, Abandon

(* Reconcile returns with an error or RequeueAfter.                        *)
LEMMA Requeues == ASSUME NEW requeue, Finish(requeue), requeue PROVE queued'
  BY Zenon DEF Finish

(* A step that leads to calm has written nothing.                          *)
LEMMA CalmStep ==
    ASSUME TypeOK, NEW next, NEW reason, NEW requeue, Leads(next, reason, requeue), lag' = 0
    PROVE  lag = 0 /\ srv' = srv
  <1>1. lag \in Nat
    BY DEF TypeOK
  <1>2. CASE Version
    BY <1>1, <1>2 DEF Version
  <1>3. CASE Skip(next)
    BY <1>3 DEF Skip, versions
  <1>4. Version \/ Skip(next)
    BY Zenon DEF Leads, Proceed, Finish, Abandon
  <1>. QED
    BY <1>2, <1>3, <1>4

(* Whatever a step of the reconcile does, if it leads to calm it began in  *)
(* calm, with the stored ImageBuild in its variable.                       *)
LEMMA CalmBefore ==
    ASSUME TypeOK, SettlingInv, pc # "idle", Elsewhere,
           NEW next, NEW reason, NEW requeue, Leads(next, reason, requeue)
    PROVE  /\ CacheIsCurrent'
           /\ Calm' => CalmStage /\ Calm /\ srv' = srv
  <1>1. CacheIsCurrent'
    <2>1. cache' = cache
      BY DEF Elsewhere, caches
    <2>. QED
      BY <2>1, CalmStep DEF CacheIsCurrent, SettlingInv
  <1>2. ASSUME Calm' PROVE CalmStage /\ Calm /\ srv' = srv
    <2>1. ~queued' /\ lag' = 0
      BY <1>2, Zenon DEF Calm
    <2>2. lag = 0 /\ srv' = srv
      BY <2>1, CalmStep
    <2>3. ~queued
      BY <2>1, StaysQueued, Zenon
    <2>. QED
      BY <2>2, <2>3, Zenon DEF Calm, SettlingInv, CalmIsSettled
  <1>. QED
    BY <1>1, <1>2, Zenon

(* Giving up until the retry.                                              *)
LEMMA CalmRetry ==
    ASSUME TypeOK, CalmStage, pc \in AfterLabel, srv' = srv, NEW reason, Abandon(reason, TRUE)
    PROVE  CalmStage'
  <1>1. loc' = loc /\ pc' = "notReady"
    BY DEF Abandon
  <1>2. fail'.requeue
    BY Zenon DEF Abandon
  <1>3. loc' = srv' /\ loc'.label = desiredLabel(loc')
    BY <1>1 DEF CalmStage
  <1>. QED
    BY <1>1, <1>2, <1>3, Zenon DEF CalmStage, AfterLabel, AfterBuild, AfterBuildRef

(* Giving up for good, because of a conflict.                              *)
LEMMA CalmGiveUp ==
    ASSUME TypeOK, CalmStage, pc \in AfterLabel, UNCHANGED <<srv, build>>, Elsewhere, GaveUp(loc),
           NEW reason, Abandon(reason, FALSE)
    PROVE  CalmStage'
  <1>1. loc' = loc /\ pc' = "notReady"
    BY DEF Abandon
  <1>2. UNCHANGED <<cacheRuns, cacheBuild, build>>
    BY DEF Elsewhere, caches
  <1>3. GaveUp(loc)'
    BY <1>1, <1>2 DEF GaveUp, NameConflict, BuildIsWanted
  <1>4. loc' = srv' /\ loc'.label = desiredLabel(loc')
    BY <1>1 DEF CalmStage
  <1>. QED
    BY <1>1, <1>3, <1>4 DEF CalmStage, AfterLabel, AfterBuild, AfterBuildRef

-----------------------------------------------------------------------------
(* The parts of the invariant that do not depend on the calm.              *)

(* Pushes stay wanted while nobody edits spec.rebuild and pending is kept  *)
(* or dropped.                                                             *)
LEMMA PushesStay ==
    ASSUME PushesWanted, UNCHANGED <<cache, hooks>>, srv'.rebuild = srv.rebuild,
           srv'.pending \in {srv.pending, NoEvent}
    PROVE  PushesWanted'
  <1>1. NoEvent.at = 0
    BY DEF NoEvent
  <1>2. CASE srv'.pending = srv.pending
    BY <1>2, Zenon DEF PushesWanted
  <1>3. CASE srv'.pending = NoEvent
    BY <1>1, <1>3, Zenon DEF PushesWanted
  <1>. QED
    BY <1>2, <1>3

(* A step that touches no BuildRun keeps what is known of their digests.   *)
LEMMA DigestsStay ==
    ASSUME DigestsSucceed, UNCHANGED <<runs, cacheRuns>>
    PROVE  DigestsSucceed'
  BY DEF DigestsSucceed

(* A step that touches no BuildRun and no counter leaves no trigger        *)
(* unrecorded.                                                             *)
LEMMA TriggersStay ==
    ASSUME TypeOK, TriggersRecorded, pc # "triggered", UNCHANGED <<runs, cacheRuns, crashes>>,
           srv'.trigCounter = srv.trigCounter, faults' = faults \/ Fault
    PROVE  TriggersRecorded'
  <1>1. faults' = 0 => faults = 0
    BY DEF Fault, TypeOK
  <1>. QED
    BY <1>1 DEF TriggersRecorded

(* A Build that is not the ImageBuild's goes on stopping the reconcile.    *)
LEMMA ForeignStays ==
    ASSUME NoBuildStops, UNCHANGED <<build, cacheBuild>>,
           Healthy' => Healthy, pc' \in AfterBuild => pc \in AfterBuild
    PROVE  NoBuildStops'
  BY DEF NoBuildStops

(* A BuildRun that is still held is still the cached one.                  *)
LEMMA HeldStays ==
    ASSUME HeldIsCached, UNCHANGED <<br, cacheRuns>>, queued => queued', pc' # "idle",
           pc' \in {"counter", "triggered", "record", "status"} => br.name # NoRun
    PROVE  HeldIsCached'
  <1>1. CASE queued'
    BY <1>1, Zenon DEF HeldIsCached
  <1>2. CASE ~queued'
    BY <1>2, Zenon DEF HeldIsCached, Hold
  <1>. QED
    BY <1>1, <1>2

(* With the reconcile its BuildRun is dropped.                             *)
LEMMA HeldDropped ==
    ASSUME TypeOK, UNCHANGED cacheRuns, pc' = "idle", br' = NoHeldRun
    PROVE  HeldIsCached'
  <1>1. NoRun \notin RunName /\ NoHeldRun.name = NoRun
    BY DEF NoRun, RunName, RunKind, NoHeldRun
  <1>2. br'.name \notin DOMAIN cacheRuns'
    BY <1>1 DEF TypeOK
  <1>3. br'.name \notin DOMAIN OwnIn(cacheRuns)'
    BY <1>2, OwnInCacheNext
  <1>. QED
    BY <1>3, Zenon DEF HeldIsCached

-----------------------------------------------------------------------------
(* The shapes of the steps of the reconcile.                               *)

(* The types of what the invariants are about.                             *)
LEMMA SettledTypes == SettledInv => TypeOK /\ SettlingInv
  BY DEF SettledInv, NumberingInv, CountersInv

(* The writes that record no trigger.                                      *)
Sends(new) ==
    /\ new \in ImageBuild
    /\ new.rebuild = loc.rebuild /\ new.trigCounter = loc.trigCounter
    /\ new.pending \in {loc.pending, NoEvent}

(* How a write in the middle of a reconcile ends.                          *)
LEMMA WriteLeads ==
    ASSUME NEW new, NEW next, NEW reason, WriteStep(new, next, reason)
    PROVE  Leads(next, reason, TRUE) /\ Elsewhere /\ UNCHANGED <<runs, build>>
  BY Zenon DEF WriteStep, Leads

(* The parts a write cannot disturb, and what it needs to lead to calm.    *)
LEMMA WriteAside ==
    ASSUME SettledInv, pc \notin {"idle", "triggered"},
           NEW new, Sends(new), NEW next, NEW reason, WriteStep(new, next, reason)
    PROVE  /\ CacheIsCurrent' /\ DigestsSucceed' /\ TriggersRecorded' /\ PushesWanted'
           /\ Calm' => CalmStage /\ Calm /\ srv' = srv
  <1>0. TypeOK /\ SettlingInv
    BY SettledTypes
  <1>1. Leads(next, reason, TRUE) /\ Elsewhere /\ UNCHANGED <<runs, build>>
    BY WriteLeads
  <1>2. UNCHANGED <<cache, cacheRuns, cacheBuild, hooks, crashes>>
    BY <1>1 DEF Elsewhere, caches, webhook
  <1>3. PatchTo(new) \/ UNCHANGED srv
    BY Zenon DEF WriteStep, PatchError
  <1>4. /\ srv'.rebuild = srv.rebuild /\ srv'.trigCounter = srv.trigCounter
        /\ srv'.pending \in {srv.pending, NoEvent}
    <2>1. /\ new \in ImageBuild /\ new.rebuild = loc.rebuild
          /\ new.trigCounter = loc.trigCounter /\ new.pending \in {loc.pending, NoEvent}
      BY Zenon DEF Sends
    <2>2. /\ srv'.rebuild = srv.rebuild /\ srv'.trigCounter = srv.trigCounter
          /\ srv'.pending \in {srv.pending, new.pending}
          /\ new.pending = loc.pending => srv'.pending = srv.pending
      BY <1>0, <1>3, <2>1, PatchedFields, Zenon
    <2>. QED
      BY <2>1, <2>2
  <1>5. faults' = faults \/ Fault
    BY Zenon DEF WriteStep, PatchError
  <1>6. PushesWanted'
    BY <1>0, <1>2, <1>4, PushesStay, Zenon DEF SettlingInv
  <1>7. DigestsSucceed'
    BY <1>0, <1>1, <1>2, DigestsStay, Zenon DEF SettlingInv
  <1>8. TriggersRecorded'
    BY <1>0, <1>1, <1>2, <1>4, <1>5, TriggersStay, Zenon DEF SettlingInv
  <1>. QED
    BY <1>0, <1>1, <1>6, <1>7, <1>8, CalmBefore, Zenon

(* In calm a patch leaves the server with the copy it was made for.        *)
LEMMA CalmPatch ==
    ASSUME TypeOK, CalmStage, srv' = srv, NEW new \in ImageBuild, PatchTo(new)
    PROVE  new = loc
  BY MergeCurrent DEF TypeOK, CalmStage, PatchTo

(* A write that fails leaves calm only the retry.                          *)
LEMMA FailedWrite ==
    ASSUME SettledInv, pc \in AfterLabel, NEW new,
           NEW next, NEW reason, WriteStep(new, next, reason),
           ~(PatchTo(new) /\ Proceed(next) /\ UNCHANGED <<br, faults>>),
           Calm', CalmStage, srv' = srv
    PROVE  CalmIsSettled'
  <1>1. Finish(TRUE) \/ Abandon(reason, TRUE)
    BY Zenon DEF WriteStep
  <1>2. ~Finish(TRUE)
    BY Requeues, Zenon DEF Calm
  <1>3. CalmStage'
    BY <1>1, <1>2, CalmRetry, SettledTypes, Zenon
  <1>4. pc' = "notReady"
    BY <1>1, <1>2 DEF Abandon
  <1>. QED
    BY <1>3, <1>4, Zenon DEF CalmIsSettled

(* Once the Build is there, a write ends with its BuildRun held or dropped.*)
LEMMA WriteHolds ==
    ASSUME SettledInv, pc \in AfterBuild, NEW new,
           NEW next \in PC \ {"idle", "label", "buildRef", "notReady"}, NEW reason, reason # "Reconciled",
           WriteStep(new, next, reason),
           next \in {"counter", "triggered", "record", "status"} => br.name # NoRun,
           Proceed(next) /\ next = "ready" => ~readyUpToDate(srv')
    PROVE  HeldIsCached' /\ PatchesAreDue' /\ NoBuildStops'
  <1>0. TypeOK /\ HeldIsCached /\ NoBuildStops
    BY SettledTypes DEF SettlingInv
  <1>1. Leads(next, reason, TRUE) /\ Elsewhere /\ UNCHANGED <<runs, build>>
    BY WriteLeads
  <1>2. UNCHANGED <<cacheRuns, cacheBuild>>
    BY <1>1 DEF Elsewhere, caches
  <1>3. queued => queued'
    BY <1>1, StaysQueued, Zenon
  <1>4. NoBuildStops'
    BY <1>0, <1>1, <1>2 DEF NoBuildStops
  <1>5. CASE Proceed(next) /\ UNCHANGED br
    <2>1. pc' = next /\ loc' = srv'
      BY <1>5 DEF Proceed
    <2>2. HeldIsCached'
      BY <1>0, <1>2, <1>3, <1>5, <2>1, HeldStays
    <2>3. PatchesAreDue'
      <3>1. CASE next = "ready"
        BY <1>5, <2>1, <3>1, Zenon DEF PatchesAreDue
      <3>2. CASE next # "ready"
        BY <2>1, <3>2 DEF PatchesAreDue
      <3>. QED
        BY <3>1, <3>2
    <2>. QED
      BY <1>4, <2>2, <2>3
  <1>6. CASE Finish(TRUE)
    <2>1. pc' = "idle" /\ br' = NoHeldRun
      BY <1>6, Zenon DEF Finish
    <2>2. HeldIsCached'
      BY <1>0, <1>2, <2>1, HeldDropped
    <2>3. PatchesAreDue'
      BY <2>1 DEF PatchesAreDue
    <2>. QED
      BY <1>4, <2>2, <2>3
  <1>7. CASE Abandon(reason, TRUE)
    <2>1. pc' = "notReady" /\ br' = br /\ fail'.reason = reason
      BY <1>7, Zenon DEF Abandon
    <2>2. HeldIsCached'
      BY <1>0, <1>2, <1>3, <2>1, HeldStays
    <2>3. PatchesAreDue'
      BY <2>1 DEF PatchesAreDue
    <2>. QED
      BY <1>4, <2>2, <2>3
  <1>. QED
    BY <1>5, <1>6, <1>7, Zenon DEF WriteStep

(* A write that has something to say, once the Build is there.             *)
LEMMA DueWrite ==
    ASSUME SettledInv, pc \in AfterBuild \ {"triggered"}, NEW new, Sends(new), new # loc,
           NEW next \in PC \ {"idle", "label", "buildRef", "ready", "notReady"},
           NEW reason, reason # "Reconciled", WriteStep(new, next, reason),
           next \in {"counter", "triggered", "record", "status"} => br.name # NoRun
    PROVE  SettlingInv'
  <1>0. TypeOK /\ pc \notin {"idle", "triggered"} /\ pc \in AfterLabel
    BY SettledTypes DEF AfterBuild, AfterLabel
  <1>1. /\ CacheIsCurrent' /\ DigestsSucceed' /\ TriggersRecorded' /\ PushesWanted'
        /\ Calm' => CalmStage /\ Calm /\ srv' = srv
    BY <1>0, WriteAside, Zenon
  <1>2. HeldIsCached' /\ PatchesAreDue' /\ NoBuildStops'
    <2>1. next \in PC \ {"idle", "label", "buildRef", "notReady"} /\ next # "ready"
      OBVIOUS
    <2>. QED
      BY <2>1, WriteHolds, Zenon
  <1>3. CalmIsSettled'
    <2>. SUFFICES ASSUME Calm' PROVE CalmIsSettled'
      BY Zenon DEF CalmIsSettled
    <2>1. CalmStage /\ srv' = srv /\ new \in ImageBuild
      BY <1>1, Zenon DEF Sends
    <2>2. ~PatchTo(new)
      BY <1>0, <2>1, CalmPatch
    <2>. QED
      BY <1>0, <2>1, <2>2, FailedWrite, Zenon
  <1>. QED
    BY <1>1, <1>2, <1>3, Zenon DEF SettlingInv

(* A step of the reconcile that leaves ImageBuild and BuildRuns alone.     *)
LEMMA UnwrittenAside ==
    ASSUME SettledInv, pc # "triggered", UNCHANGED <<srv, runs>>, Elsewhere,
           faults' = faults \/ Fault
    PROVE  DigestsSucceed' /\ TriggersRecorded' /\ PushesWanted'
  <1>0. TypeOK /\ SettlingInv
    BY SettledTypes
  <1>1. UNCHANGED <<cache, cacheRuns, hooks, crashes>>
    BY DEF Elsewhere, caches, webhook
  <1>2. srv'.rebuild = srv.rebuild /\ srv'.trigCounter = srv.trigCounter
        /\ srv'.pending \in {srv.pending, NoEvent}
    OBVIOUS
  <1>3. PushesWanted'
    BY <1>0, <1>1, <1>2, PushesStay, Zenon DEF SettlingInv
  <1>4. DigestsSucceed'
    BY <1>0, <1>1, DigestsStay, Zenon DEF SettlingInv
  <1>5. TriggersRecorded'
    BY <1>0, <1>1, <1>2, TriggersStay, Zenon DEF SettlingInv
  <1>. QED
    BY <1>3, <1>4, <1>5

(* Giving up, for now or for good.                                         *)
LEMMA AbandonSettles ==
    ASSUME SettledInv, pc \in AfterLabel, UNCHANGED srv, Elsewhere,
           NEW reason, NEW requeue, reason # "Reconciled", Abandon(reason, requeue),
           \/ requeue = TRUE
           \/ requeue = FALSE /\ UNCHANGED build /\ (CalmStage => GaveUp(loc)),
           DigestsSucceed', TriggersRecorded', NoBuildStops'
    PROVE  SettlingInv'
  <1>0. TypeOK /\ SettlingInv /\ pc # "idle"
    BY SettledTypes DEF AfterLabel
  <1>1. UNCHANGED <<cache, cacheRuns, hooks>>
    BY DEF Elsewhere, caches, webhook
  <1>2. pc' = "notReady" /\ br' = br /\ fail'.reason = reason
    BY Zenon DEF Abandon
  <1>3. Leads("idle", reason, requeue)
    BY Zenon DEF Leads
  <1>4. PushesWanted'
    <2>1. srv'.rebuild = srv.rebuild /\ srv'.pending \in {srv.pending, NoEvent}
      OBVIOUS
    <2>. QED
      BY <1>0, <1>1, <2>1, PushesStay, Zenon DEF SettlingInv
  <1>5. CacheIsCurrent' /\ (Calm' => CalmStage /\ Calm /\ srv' = srv)
    BY <1>0, <1>3, CalmBefore, Zenon
  <1>6. CalmIsSettled'
    <2>1. Calm' => CalmStage'
      BY <1>0, <1>5, CalmRetry, CalmGiveUp, Zenon
    <2>. QED
      BY <1>2, <2>1, Zenon DEF CalmIsSettled
  <1>7. HeldIsCached'
    <2>1. queued => queued'
      BY <1>3, StaysQueued, Zenon
    <2>. QED
      BY <1>0, <1>1, <1>2, <2>1, HeldStays DEF SettlingInv
  <1>8. PatchesAreDue'
    BY <1>2 DEF PatchesAreDue
  <1>. QED
    BY <1>4, <1>5, <1>6, <1>7, <1>8, Zenon DEF SettlingInv

(* Returning for a retry without having written anything.                  *)
LEMMA ReturnSettles ==
    ASSUME SettledInv, pc \notin {"idle", "triggered"}, UNCHANGED <<srv, runs, build, faults>>,
           Elsewhere, Finish(TRUE)
    PROVE  SettlingInv'
  <1>0. TypeOK /\ SettlingInv
    BY SettledTypes
  <1>1. UNCHANGED <<cacheRuns, cacheBuild>> /\ pc' = "idle" /\ br' = NoHeldRun
    BY Zenon DEF Elsewhere, caches, Finish
  <1>2. Leads("idle", "none", TRUE)
    BY Zenon DEF Leads
  <1>3. CacheIsCurrent'
    BY <1>0, <1>2, CalmBefore, Zenon
  <1>4. CalmIsSettled'
    BY Requeues, Zenon DEF CalmIsSettled, Calm
  <1>5. HeldIsCached'
    BY <1>0, <1>1, HeldDropped
  <1>6. PatchesAreDue'
    BY <1>1 DEF PatchesAreDue
  <1>7. NoBuildStops'
    <2>1. Healthy' => Healthy
      BY DEF Healthy
    <2>2. pc' \notin AfterBuild
      BY <1>1 DEF AfterBuild, AfterLabel
    <2>. QED
      BY <1>0, <1>1, <2>1, <2>2, ForeignStays DEF SettlingInv
  <1>8. DigestsSucceed' /\ TriggersRecorded' /\ PushesWanted'
    BY UnwrittenAside
  <1>. QED
    BY <1>3, <1>4, <1>5, <1>6, <1>7, <1>8, Zenon DEF SettlingInv

-----------------------------------------------------------------------------
(* The writes.                                                             *)

(* The copies the writes send.                                             *)
LEMMA SentCopies ==
    ASSUME TypeOK
    PROVE  /\ Sends([loc EXCEPT !.label = desiredLabel(loc)])
           /\ Sends([loc EXCEPT !.buildRef = TRUE, !.obsGen = loc.gen])
           /\ Sends([loc EXCEPT !.pending = NoEvent])
           /\ Sends([loc EXCEPT !.lastSpec = loc.inputs])
           /\ \A reason \in ReadyReason \cup {"none"} : Sends(withReady(reason))
  <1>0. loc \in ImageBuild
    BY DEF TypeOK
  <1>1. Sends([loc EXCEPT !.label = desiredLabel(loc)])
    BY <1>0, NewCopies DEF Sends, ImageBuild
  <1>2. Sends([loc EXCEPT !.buildRef = TRUE, !.obsGen = loc.gen])
    BY <1>0, NewCopies DEF Sends, ImageBuild
  <1>3. Sends([loc EXCEPT !.pending = NoEvent])
    BY <1>0, NewCopies DEF Sends, ImageBuild
  <1>4. Sends([loc EXCEPT !.lastSpec = loc.inputs])
    BY <1>0, NewCopies DEF Sends, ImageBuild
  <1>5. ASSUME NEW reason \in ReadyReason \cup {"none"} PROVE Sends(withReady(reason))
    <2>1. withReady(reason) \in ImageBuild
      BY NewCopies
    <2>. QED
      BY <1>0, <2>1 DEF Sends, ImageBuild, withReady
  <1>. QED
    BY <1>1, <1>2, <1>3, <1>4, <1>5

(* Counter, BuildSucceeded and image writes.                               *)
LEMMA SentStatus ==
    ASSUME TypeOK
    PROVE  /\ Sends([loc EXCEPT !.counter = br.name[2]])
           /\ Sends([loc EXCEPT !.obsGen = loc.gen,
                                !.lastRun = br.name,
                                !.conds = [loc.conds EXCEPT !.succeeded =
                                    [reason |-> deriveBuildSucceededStatus(br), gen |-> loc.gen]]])
           /\ Sends([loc EXCEPT !.obsGen = loc.gen, !.latestImage = imageToReport(loc, br)])
  <1>0. loc \in ImageBuild
    BY DEF TypeOK
  <1>1. Sends([loc EXCEPT !.counter = br.name[2]])
    BY <1>0, CounterCopy DEF Sends, ImageBuild
  <1>2. Sends([loc EXCEPT !.obsGen = loc.gen,
                          !.lastRun = br.name,
                          !.conds = [loc.conds EXCEPT !.succeeded =
                              [reason |-> deriveBuildSucceededStatus(br), gen |-> loc.gen]]])
    BY <1>0, SucceededCopy DEF Sends, ImageBuild
  <1>3. Sends([loc EXCEPT !.obsGen = loc.gen, !.latestImage = imageToReport(loc, br)])
    BY <1>0, ImageCopy DEF Sends, ImageBuild
  <1>. QED
    BY <1>1, <1>2, <1>3

(* ensureOnCommitLabel writes only a label that is not the one desired.    *)
LEMMA LabelSettles == ASSUME SettledInv, ensureOnCommitLabel PROVE SettlingInv'
  <1>. DEFINE new == [loc EXCEPT !.label = desiredLabel(loc)]
  <1>0. TypeOK /\ SettlingInv /\ pc = "label"
    BY SettledTypes DEF ensureOnCommitLabel
  <1>1. Sends(new) /\ new # loc
    <2>1. loc.label # desiredLabel(loc) /\ loc \in ImageBuild
      BY <1>0 DEF SettlingInv, PatchesAreDue, TypeOK
    <2>2. new.label = desiredLabel(loc)
      BY <2>1 DEF ImageBuild
    <2>. QED
      BY <1>0, <2>1, <2>2, SentCopies
  <1>2. new.conds = loc.conds
    BY <1>0 DEF TypeOK, ImageBuild
  <1>. HIDE DEF new
  <1>3. WriteStep(new, "build", "none")
    BY Zenon DEF ensureOnCommitLabel, WriteStep, new
  <1>4. /\ CacheIsCurrent' /\ DigestsSucceed' /\ TriggersRecorded' /\ PushesWanted'
        /\ Calm' => CalmStage /\ Calm /\ srv' = srv
    BY <1>0, <1>1, <1>3, WriteAside
  <1>5. \/ PatchTo(new) /\ Proceed("build") /\ UNCHANGED br
        \/ PatchError(new) /\ Finish(TRUE)
    BY Zenon DEF ensureOnCommitLabel, new
  <1>6. CalmIsSettled'
    <2>. SUFFICES ASSUME Calm' PROVE FALSE
      BY Zenon DEF CalmIsSettled
    <2>1. ~PatchTo(new)
      BY <1>0, <1>1, <1>4, CalmPatch, Zenon DEF Sends
    <2>. QED
      BY <1>5, <2>1, Requeues, Zenon DEF Calm
  <1>7. UNCHANGED <<build, cacheRuns, cacheBuild>> /\ (queued => queued')
    <2>1. Leads("build", "none", TRUE) /\ Elsewhere /\ UNCHANGED build
      BY <1>3, WriteLeads
    <2>2. queued => queued'
      BY <2>1, StaysQueued, Zenon
    <2>. QED
      BY <2>1, <2>2 DEF Elsewhere, caches
  <1>8. pc' \in {"build", "idle"}
    BY <1>5 DEF Proceed, Finish
  <1>9. HeldIsCached' /\ PatchesAreDue'
    <2>1. CASE Proceed("build") /\ UNCHANGED br
      <3>1. pc' = "build"
        BY <2>1 DEF Proceed
      <3>. QED
        BY <1>0, <1>7, <2>1, <3>1, HeldStays DEF SettlingInv, PatchesAreDue
    <2>2. CASE Finish(TRUE)
      <3>1. pc' = "idle" /\ br' = NoHeldRun
        BY <2>2 DEF Finish
      <3>. QED
        BY <1>0, <1>7, <3>1, HeldDropped DEF PatchesAreDue
    <2>. QED
      BY <1>5, <2>1, <2>2
  <1>10. NoBuildStops'
    <2>1. srv'.conds = srv.conds
      <3>1. PatchTo(new) \/ UNCHANGED srv
        BY <1>5 DEF PatchError
      <3>. QED
        BY <1>0, <1>1, <1>2, <3>1, PatchedFields DEF Sends
    <2>2. Healthy' => Healthy
      BY <2>1 DEF Healthy
    <2>3. pc' \notin AfterBuild
      BY <1>8 DEF AfterBuild, AfterLabel
    <2>. QED
      BY <1>0, <1>7, <2>2, <2>3, ForeignStays DEF SettlingInv
  <1>. QED
    BY <1>4, <1>6, <1>9, <1>10, Zenon DEF SettlingInv

(* patchBuildRef writes only if buildRef or observedGeneration is missing. *)
LEMMA BuildRefSettles == ASSUME SettledInv, patchBuildRef PROVE SettlingInv'
  <1>. DEFINE new == [loc EXCEPT !.buildRef = TRUE, !.obsGen = loc.gen]
  <1>0. TypeOK /\ SettlingInv /\ pc = "buildRef"
    BY SettledTypes DEF patchBuildRef
  <1>1. Sends(new) /\ new # loc
    <2>1. ~(loc.buildRef /\ loc.obsGen = loc.gen) /\ loc \in ImageBuild
      BY <1>0 DEF SettlingInv, PatchesAreDue, TypeOK
    <2>2. new.buildRef = TRUE /\ new.obsGen = loc.gen
      BY <2>1 DEF ImageBuild
    <2>3. new # loc
      BY <2>1, <2>2, Zenon
    <2>. QED
      BY <1>0, <2>3, SentCopies
  <1>. HIDE DEF new
  <1>2. WriteStep(new, "oncommit", "none")
    BY Zenon DEF patchBuildRef, WriteStep, new
  <1>3. pc \in AfterBuild \ {"triggered"}
        /\ "oncommit" \in PC \ {"idle", "label", "buildRef", "ready", "notReady"}
    BY <1>0 DEF AfterBuild, AfterLabel, PC
  <1>. QED
    BY <1>1, <1>2, <1>3, DueWrite

(* A duplicate commit is dropped by a write, as it is pending.             *)
LEMMA DuplicateSettles == ASSUME SettledInv, onCommitDuplicate PROVE SettlingInv'
  <1>. DEFINE new == [loc EXCEPT !.pending = NoEvent]
  <1>0. TypeOK /\ pc = "oncommit" /\ isRebuildEnabled(loc)
    BY SettledTypes DEF onCommitDuplicate, onCommitReady
  <1>1. Sends(new) /\ new # loc
    <2>1. loc.pending.at # 0 /\ loc \in ImageBuild
      BY <1>0 DEF isRebuildEnabled, TypeOK
    <2>2. new.pending = NoEvent /\ NoEvent.at = 0
      BY <2>1 DEF ImageBuild, NoEvent
    <2>3. new # loc
      BY <2>1, <2>2
    <2>. QED
      BY <1>0, <2>3, SentCopies
  <1>. HIDE DEF new
  <1>2. WriteStep(new, "default", "BuildRunReconcileFailed")
    BY Zenon DEF onCommitDuplicate, WriteStep, new
  <1>3. pc \in AfterBuild \ {"triggered"}
        /\ "default" \in PC \ {"idle", "label", "buildRef", "ready", "notReady"}
    BY <1>0 DEF AfterBuild, AfterLabel, PC
  <1>. QED
    BY <1>1, <1>2, <1>3, DueWrite

(* A counter is patched to a new number.                                   *)
LEMMA CounterSettles == ASSUME SettledInv, patchBuildRunCounter PROVE SettlingInv'
  <1>. DEFINE new == [loc EXCEPT !.counter = br.name[2]]
  <1>0. TypeOK /\ pc = "counter" /\ CreatedIsNext /\ HeldIsCached
    BY SettledTypes DEF patchBuildRunCounter, SettledInv, NumberingInv, CountersInv, SettlingInv
  <1>1. Sends(new) /\ new # loc
    <2>1. br.name[2] = loc.counter + 1 /\ loc \in ImageBuild /\ loc.counter \in Nat
      BY <1>0, NumberTypes DEF CreatedIsNext, buildRunNameFor, TypeOK
    <2>2. new.counter = br.name[2]
      BY <2>1 DEF ImageBuild
    <2>. HIDE DEF new
    <2>3. new.counter # loc.counter
      BY <2>1, <2>2
    <2>4. new # loc
      BY <2>3, Zenon
    <2>. QED
      BY <1>0, <2>4, SentStatus DEF new
  <1>. HIDE DEF new
  <1>2. WriteStep(new, "record", "BuildRunReconcileFailed")
    BY Zenon DEF patchBuildRunCounter, WriteStep, new
  <1>3. pc \in AfterBuild \ {"triggered"} /\ br.name # NoRun
        /\ "record" \in PC \ {"idle", "label", "buildRef", "ready", "notReady"}
    BY <1>0 DEF AfterBuild, AfterLabel, PC, HeldIsCached
  <1>. QED
    BY <1>1, <1>2, <1>3, DueWrite

(* Ready is written only when it says something new.                       *)
LEMMA ReadySettles == ASSUME SettledInv, patchReadyCondition PROVE SettlingInv'
  <1>. DEFINE new == withReady("Reconciled")
  <1>0. TypeOK /\ SettlingInv /\ pc = "ready"
    BY SettledTypes DEF patchReadyCondition
  <1>1. Sends(new) /\ new # loc
    <2>1. ~readyUpToDate(loc) /\ loc \in ImageBuild /\ "Reconciled" \in ReadyReason
      BY <1>0 DEF SettlingInv, PatchesAreDue, TypeOK, ReadyReason
    <2>2. new.conds.ready = [reason |-> "Reconciled", gen |-> loc.gen]
      BY <2>1 DEF ImageBuild, Conditions, withReady
    <2>3. new # loc
      BY <2>1, <2>2 DEF readyUpToDate
    <2>. QED
      BY <1>0, <2>1, <2>3, SentCopies
  <1>. HIDE DEF new
  <1>2. WriteStep(new, "image", "none")
    BY Zenon DEF patchReadyCondition, WriteStep, new
  <1>3. pc \in AfterBuild \ {"triggered"}
        /\ "image" \in PC \ {"idle", "label", "buildRef", "ready", "notReady"}
    BY <1>0 DEF AfterBuild, AfterLabel, PC
  <1>. QED
    BY <1>1, <1>2, <1>3, DueWrite

(* The annotation may be up to date already; the reconcile goes on to the  *)
(* BuildRun it adopted.                                                    *)
LEMMA RecordSettles == ASSUME SettledInv, recordBuildSpec PROVE SettlingInv'
  <1>. DEFINE new == [loc EXCEPT !.lastSpec = loc.inputs]
  <1>0. TypeOK /\ SettlingInv /\ pc = "record"
    BY SettledTypes DEF recordBuildSpec
  <1>1. Sends(new)
    BY <1>0, SentCopies
  <1>. HIDE DEF new
  <1>2. CASE UNCHANGED <<srv, faults>> /\ Finish(TRUE)
    BY <1>0, <1>2, ReturnSettles DEF recordBuildSpec
  <1>3. CASE WriteStep(new, "status", "none")
    <2>1. /\ CacheIsCurrent' /\ DigestsSucceed' /\ TriggersRecorded' /\ PushesWanted'
          /\ Calm' => CalmStage /\ Calm /\ srv' = srv
      BY <1>0, <1>1, <1>3, WriteAside
    <2>2. pc \in AfterBuild /\ pc \in AfterLabel /\ br.name # NoRun
          /\ "status" \in PC \ {"idle", "label", "buildRef", "notReady"}
      BY <1>0 DEF AfterBuild, AfterLabel, PC, SettlingInv, HeldIsCached
    <2>3. HeldIsCached' /\ PatchesAreDue' /\ NoBuildStops'
      BY <1>3, <2>2, WriteHolds
    <2>4. CalmIsSettled'
      <3>. SUFFICES ASSUME Calm' PROVE CalmIsSettled'
        BY Zenon DEF CalmIsSettled
      <3>1. CASE PatchTo(new) /\ Proceed("status") /\ UNCHANGED <<br, faults>>
        <4>1. pc' = "status" /\ loc' = loc /\ loc = srv /\ srv' = srv
          BY <2>1, <3>1 DEF Proceed, CalmStage
        <4>2. UNCHANGED <<cacheRuns, cacheBuild, build, crashes>>
          BY <1>3, WriteLeads DEF Elsewhere, caches
        <4>3. PushHandled(loc) /\ BuildIsWanted(loc) /\ loc.obsGen = loc.gen
              /\ loc.label = desiredLabel(loc)
          BY <1>0, <2>1 DEF CalmStage, AfterLabel, AfterBuild, AfterBuildRef, PC
        <4>4. PushHandled(loc)' /\ BuildIsWanted(loc)'
          BY <3>1, <4>1, <4>2, <4>3 DEF PushHandled, BuildIsWanted
        <4>. QED
          BY <4>1, <4>3, <4>4, Zenon DEF CalmIsSettled, CalmStage
      <3>. QED
        BY <1>3, <2>1, <2>2, <3>1, FailedWrite
    <2>. QED
      BY <2>1, <2>3, <2>4, Zenon DEF SettlingInv
  <1>. QED
    BY <1>2, <1>3, Zenon DEF recordBuildSpec, WriteStep, new

(* BuildSucceeded may be that of the BuildRun already; then so are         *)
(* lastBuildRunRef and observedGeneration.                                 *)
LEMMA SucceededSettles == ASSUME SettledInv, patchBuildSucceededCondition PROVE SettlingInv'
  <1>. DEFINE cond == [reason |-> deriveBuildSucceededStatus(br), gen |-> loc.gen]
              new == [loc EXCEPT !.obsGen = loc.gen, !.lastRun = br.name,
                                 !.conds = [loc.conds EXCEPT !.succeeded = cond]]
              next == afterStatus(srv')
  <1>0. TypeOK /\ SettlingInv /\ pc = "status" /\ br.name # NoRun
    BY SettledTypes DEF patchBuildSucceededCondition, SettlingInv, HeldIsCached
  <1>1. Sends(new)
    BY <1>0, SentStatus
  <1>2. new.lastRun = br.name /\ new.conds.succeeded.reason = deriveBuildSucceededStatus(br)
    BY <1>0 DEF TypeOK, ImageBuild, Conditions
  <1>3. /\ next \in PC \ {"idle", "label", "buildRef", "notReady"}
        /\ next \in {"image", "ready"}
        /\ next = "ready" => ~readyUpToDate(srv')
        /\ next = "image" => readyUpToDate(srv')
    BY DEF afterStatus, PC
  <1>4. WriteStep(new, next, "none")
    BY Zenon DEF patchBuildSucceededCondition, WriteStep
  <1>. HIDE DEF new, next, cond
  <1>5. /\ CacheIsCurrent' /\ DigestsSucceed' /\ TriggersRecorded' /\ PushesWanted'
        /\ Calm' => CalmStage /\ Calm /\ srv' = srv
    BY <1>0, <1>1, <1>4, WriteAside
  <1>6. pc \in AfterBuild /\ pc \in AfterLabel
    BY <1>0 DEF AfterBuild, AfterLabel, PC
  <1>7. HeldIsCached' /\ PatchesAreDue' /\ NoBuildStops'
    <2>1. next \in {"counter", "triggered", "record", "status"} => br.name # NoRun
      BY <1>3
    <2>2. Proceed(next) /\ next = "ready" => ~readyUpToDate(srv')
      BY <1>3, Zenon
    <2>. QED
      BY <1>3, <1>4, <1>6, <2>1, <2>2, WriteHolds
  <1>8. CalmIsSettled'
    <2>. SUFFICES ASSUME Calm' PROVE CalmIsSettled'
      BY Zenon DEF CalmIsSettled
    <2>1. CalmStage /\ srv' = srv
      BY <1>5
    <2>2. CASE PatchTo(new) /\ Proceed(next) /\ UNCHANGED <<br, faults>>
      <3>1. pc' = next /\ loc' = loc /\ loc = srv /\ br' = br
        BY <2>1, <2>2 DEF Proceed, CalmStage
      <3>2. UNCHANGED <<cacheRuns, cacheBuild, build, crashes>>
        BY <1>4, WriteLeads DEF Elsewhere, caches
      <3>3. new = loc
        BY <1>0, <1>1, <2>1, <2>2, CalmPatch DEF Sends
      <3>4. /\ BuildIsWanted(loc) /\ loc.obsGen = loc.gen /\ loc.label = desiredLabel(loc)
            /\ PushHandled(loc) \/ (br.name # NoRun /\ isActiveBuildRun(br))
        BY <1>0, <2>1 DEF CalmStage, AfterLabel, AfterBuild, AfterBuildRef, PC
      <3>5. BuildIsWanted(loc)'
        BY <3>1, <3>2, <3>4 DEF BuildIsWanted
      <3>6. PushHandled(loc)' \/ (br'.name # NoRun /\ isActiveBuildRun(br'))
        BY <2>2, <3>1, <3>2, <3>4 DEF PushHandled, isActiveBuildRun
      <3>7. loc'.lastRun = br'.name
            /\ loc'.conds.succeeded.reason = deriveBuildSucceededStatus(br')
        BY <1>2, <3>1, <3>3, Zenon
      <3>8. pc' = "image" => readyUpToDate(loc')
        BY <1>3, <2>1, <3>1, Zenon
      <3>9. loc' = srv' /\ loc'.obsGen = loc'.gen /\ loc'.label = desiredLabel(loc')
        BY <2>1, <3>1, <3>4
      <3>10. pc' \in {"image", "ready"}
        BY <1>3, <3>1
      <3>11. pc' \notin {"idle", "default", "record", "notReady"} /\ br'.name # NoRun
        BY <1>0, <3>1, <3>10
      <3>12. pc' # "idle" /\ pc' # "default" /\ pc' # "record" /\ pc' # "notReady"
        BY <3>11
      <3>13. CalmStage'
        BY <3>5, <3>6, <3>7, <3>8, <3>9, <3>11, <3>12, Zenon DEF CalmStage
      <3>. QED
        BY <3>12, <3>13, Zenon DEF CalmIsSettled
    <2>. QED
      BY <1>4, <1>6, <2>1, <2>2, FailedWrite
  <1>. QED
    BY <1>5, <1>7, <1>8, Zenon DEF SettlingInv

(* The trigger of the BuildRun just created is recorded, unless that write *)
(* fails.                                                                  *)
LEMMA TriggerSettles == ASSUME SettledInv, patchOnCommitTriggered PROVE SettlingInv'
  <1>. DEFINE trig == [number |-> br.name[2], commit |-> loc.pending.commit]
              new == [loc EXCEPT !.trigCounter = br.name[2], !.lastTrig = trig,
                                 !.pending = NoEvent]
  <1>0. TypeOK /\ SettlingInv /\ pc = "triggered" /\ CreatedIsNext /\ br.name # NoRun
    BY SettledTypes
       DEF patchOnCommitTriggered, SettledInv, NumberingInv, CountersInv, SettlingInv, HeldIsCached
  <1>1. /\ br.name[2] = srv.trigCounter + 1 /\ loc.trigCounter = srv.trigCounter
        /\ srv.trigCounter \in Nat
    BY <1>0, NumberTypes DEF CreatedIsNext, onCommitRunNameFor, TypeOK
  <1>2. new \in ImageBuild
    BY <1>0, TriggerCopy
  <1>3. new.trigCounter = br.name[2] /\ new.rebuild = loc.rebuild /\ new.pending = NoEvent
    BY <1>0 DEF TypeOK, ImageBuild
  <1>4. WriteStep(new, "status", "BuildRunReconcileFailed")
    BY Zenon DEF patchOnCommitTriggered, WriteStep
  <1>. HIDE DEF new, trig
  <1>5. Leads("status", "BuildRunReconcileFailed", TRUE) /\ Elsewhere /\ UNCHANGED <<runs, build>>
    BY <1>4, WriteLeads
  <1>6. UNCHANGED <<cache, cacheRuns, cacheBuild, hooks, crashes>>
    BY <1>5 DEF Elsewhere, caches, webhook
  <1>7. PatchTo(new) \/ UNCHANGED srv
    BY <1>4, Zenon DEF WriteStep, PatchError
  <1>8. new.trigCounter # loc.trigCounter
    BY <1>1, <1>3
  <1>9. PushesWanted'
    <2>1. srv'.rebuild = srv.rebuild /\ srv'.pending \in {srv.pending, NoEvent}
      BY <1>0, <1>2, <1>3, <1>7, PatchedFields
    <2>. QED
      BY <1>0, <1>6, <2>1, PushesStay, Zenon DEF SettlingInv
  <1>10. DigestsSucceed'
    BY <1>0, <1>5, <1>6, DigestsStay, Zenon DEF SettlingInv
  <1>11. TriggersRecorded'
    <2>1. CASE PatchTo(new) /\ UNCHANGED faults
      <3>1. srv'.trigCounter = srv.trigCounter + 1
        BY <1>0, <1>1, <1>2, <1>3, <1>8, <2>1 DEF TypeOK, PatchTo, MergePatch, ImageBuild
      <3>2. /\ \A n \in DOMAIN runs : n[2] \in Nat
            /\ \A n \in DOMAIN cacheRuns : n[2] \in Nat
        BY <1>0 DEF TypeOK, RunName
      <3>3. TriggersRecorded
        BY <1>0 DEF SettlingInv
      <3>. QED
        BY <1>1, <1>5, <1>6, <2>1, <3>1, <3>2, <3>3 DEF TriggersRecorded
    <2>2. CASE Fault
      <3>1. faults' # 0
        BY <1>0, <2>2 DEF TypeOK, Fault
      <3>. QED
        BY <3>1 DEF TriggersRecorded
    <2>. QED
      BY <1>4, <2>1, <2>2, Zenon DEF WriteStep, PatchError
  <1>12. CacheIsCurrent' /\ (Calm' => CalmStage /\ Calm /\ srv' = srv)
    BY <1>0, <1>5, CalmBefore
  <1>13. pc \in AfterBuild /\ pc \in AfterLabel
         /\ "status" \in PC \ {"idle", "label", "buildRef", "notReady"}
    BY <1>0 DEF AfterBuild, AfterLabel, PC
  <1>14. HeldIsCached' /\ PatchesAreDue' /\ NoBuildStops'
    BY <1>0, <1>4, <1>13, WriteHolds
  <1>15. CalmIsSettled'
    <2>. SUFFICES ASSUME Calm' PROVE CalmIsSettled'
      BY Zenon DEF CalmIsSettled
    <2>1. ~PatchTo(new)
      BY <1>0, <1>2, <1>8, <1>12, CalmPatch
    <2>. QED
      BY <1>4, <1>12, <1>13, <2>1, FailedWrite
  <1>. QED
    BY <1>9, <1>10, <1>11, <1>12, <1>14, <1>15, Zenon DEF SettlingInv

(* How the last write of a reconcile ends.                                 *)
LEMMA LastAside ==
    ASSUME SettledInv, pc \notin {"idle", "triggered"}, NEW new, Sends(new),
           NEW requeue, Finish(requeue), Elsewhere, UNCHANGED <<runs, build>>,
           PatchTo(new) \/ UNCHANGED srv, faults' = faults \/ Fault
    PROVE  /\ CacheIsCurrent' /\ PatchesAreDue' /\ HeldIsCached' /\ DigestsSucceed'
           /\ TriggersRecorded' /\ PushesWanted'
           /\ Calm' => CalmStage /\ Calm /\ srv' = srv /\ ~requeue
  <1>0. TypeOK /\ SettlingInv
    BY SettledTypes
  <1>1. UNCHANGED <<cache, cacheRuns, hooks, crashes>>
    BY DEF Elsewhere, caches, webhook
  <1>2. pc' = "idle" /\ br' = NoHeldRun
    BY Zenon DEF Finish
  <1>3. Leads("idle", "none", requeue)
    BY Zenon DEF Leads
  <1>4. /\ srv'.rebuild = srv.rebuild /\ srv'.trigCounter = srv.trigCounter
        /\ srv'.pending \in {srv.pending, NoEvent}
    <2>1. /\ new \in ImageBuild /\ new.rebuild = loc.rebuild
          /\ new.trigCounter = loc.trigCounter /\ new.pending \in {loc.pending, NoEvent}
      BY Zenon DEF Sends
    <2>2. /\ srv'.rebuild = srv.rebuild /\ srv'.trigCounter = srv.trigCounter
          /\ srv'.pending \in {srv.pending, new.pending}
          /\ new.pending = loc.pending => srv'.pending = srv.pending
      BY <1>0, <2>1, PatchedFields, Zenon
    <2>. QED
      BY <2>1, <2>2
  <1>5. PushesWanted'
    BY <1>0, <1>1, <1>4, PushesStay, Zenon DEF SettlingInv
  <1>6. DigestsSucceed'
    BY <1>0, <1>1, DigestsStay, Zenon DEF SettlingInv
  <1>7. TriggersRecorded'
    BY <1>0, <1>1, <1>4, TriggersStay, Zenon DEF SettlingInv
  <1>8. HeldIsCached'
    BY <1>0, <1>1, <1>2, HeldDropped
  <1>9. PatchesAreDue'
    BY <1>2 DEF PatchesAreDue
  <1>10. CacheIsCurrent' /\ (Calm' => CalmStage /\ Calm /\ srv' = srv)
    BY <1>0, <1>3, CalmBefore, Zenon
  <1>11. Calm' => ~requeue
    BY Requeues, Zenon DEF Calm
  <1>. QED
    BY <1>5, <1>6, <1>7, <1>8, <1>9, <1>10, <1>11, Zenon

(* A held BuildRun reports the phase and digest of the one it was read from.*)
LEMMA HoldFields ==
    ASSUME NEW n, NEW r
    PROVE  /\ Hold(n, r).name = n /\ Hold(n, r).phase = r.phase
           /\ Hold(n, r).digest = r.digest
  BY DEF Hold

(* A calm reconcile that has come to the image and need not look at its    *)
(* BuildRun again leaves a status that tells the truth.                    *)
LEMMA CalmImage ==
    ASSUME SettledInv, Calm, CalmStage, pc = "image", ~poll(loc),
           imageToReport(loc, br) \in {NoImage, loc.latestImage}
    PROVE  CalmRest
  <1>0. TypeOK /\ SettlingInv
    BY SettledTypes
  <1>1. /\ loc = srv /\ loc.label = desiredLabel(loc) /\ BuildIsWanted(loc)
        /\ loc.obsGen = loc.gen /\ readyUpToDate(loc)
        /\ PushHandled(loc) \/ (br.name # NoRun /\ isActiveBuildRun(br))
        /\ IF br.name = NoRun THEN loc.lastRun \notin DOMAIN OwnIn(cacheRuns)
           ELSE /\ loc.lastRun = br.name
                /\ loc.conds.succeeded.reason = deriveBuildSucceededStatus(br)
    BY DEF CalmStage, AfterLabel, AfterBuild, AfterBuildRef, PC
  <1>2. br \in HeldRun
    BY <1>0 DEF TypeOK
  <1>3. PushHandled(loc)
    <2>1. ASSUME br.name # NoRun, isActiveBuildRun(br) PROVE FALSE
      <3>1. deriveBuildSucceededStatus(br) \in {"BuildRunPending", "BuildRunRunning"}
        BY <2>1 DEF isActiveBuildRun, deriveBuildSucceededStatus
      <3>2. loc.conds.succeeded.reason = deriveBuildSucceededStatus(br)
        BY <1>1, <2>1
      <3>. QED
        BY <3>1, <3>2 DEF poll
    <2>. QED
      BY <1>1, <2>1, Zenon
  <1>4. ASSUME loc.lastRun \in DOMAIN OwnIn(cacheRuns)
        PROVE  br.name = loc.lastRun /\ br = Hold(loc.lastRun, cacheRuns[loc.lastRun])
               /\ loc.conds.succeeded.reason = deriveBuildSucceededStatus(br)
    <2>1. /\ br.name = loc.lastRun
          /\ loc.conds.succeeded.reason = deriveBuildSucceededStatus(br)
      BY <1>1, <1>4
    <2>2. ~queued /\ HeldIsCached
      BY <1>0, Zenon DEF Calm, SettlingInv
    <2>. QED
      BY <1>4, <2>1, <2>2, Zenon DEF HeldIsCached
  <1>5. RunReported(loc)
    BY <1>4 DEF RunReported, Hold, deriveBuildSucceededStatus
  <1>6. ASSUME loc.lastRun \in DOMAIN OwnIn(cacheRuns), cacheRuns[loc.lastRun].digest
        PROVE  loc.latestImage.run = loc.lastRun
    <2>0. loc.lastRun \in DOMAIN cacheRuns
      BY <1>6, OwnInCache
    <2>1. cacheRuns[loc.lastRun].phase = "succeeded"
      BY <1>0, <1>6, <2>0 DEF SettlingInv, DigestsSucceed
    <2>2. br.phase = "succeeded" /\ br.digest /\ br.name = loc.lastRun
      <3>. DEFINE r == cacheRuns[loc.lastRun]
                  h == Hold(loc.lastRun, r)
      <3>1. h.name = loc.lastRun /\ h.phase = r.phase /\ h.digest = r.digest
        BY HoldFields
      <3>2. br = h
        BY <1>4, <1>6
      <3>3. r.digest /\ r.phase = "succeeded"
        BY <1>6, <2>1
      <3>. HIDE DEF h, r
      <3>. QED
        BY <3>1, <3>2, <3>3, Zenon
    <2>3. imageToReport(loc, br) = [image |-> loc.inputs, run |-> loc.lastRun]
      BY <2>2 DEF imageToReport, computeLatestImage
    <2>4. loc.lastRun # NoRun
      BY <1>0, <2>0 DEF TypeOK, NoRun, RunName, RunKind
    <2>5. imageToReport(loc, br) # NoImage
      BY <2>3, <2>4 DEF NoImage
    <2>. QED
      BY <2>3, <2>5
  <1>7. ImageReported(loc)
    BY <1>6 DEF ImageReported
  <1>. QED
    BY <1>1, <1>3, <1>5, <1>7, Zenon DEF CalmRest

(* A step that leaves the reconciler's view of its own objects alone: in   *)
(* the caches more BuildRuns of others may appear, and what the cache shows*)
(* of the Build may become outdated.                                       *)
SameView ==
    /\ OwnIn(cacheRuns)' = OwnIn(cacheRuns)
    /\ \A n \in DOMAIN cacheRuns :
         ~cacheRuns[n].own => n \in DOMAIN cacheRuns' /\ ~cacheRuns'[n].own
    /\ cacheBuild' = cacheBuild
    /\ cacheBuild' = build' => build' = build

(* Most steps leave all of it alone.                                       *)
LEMMA ViewKept == ASSUME UNCHANGED <<cacheRuns, cacheBuild, build>> PROVE SameView
  BY DEF SameView, OwnIn

(* Its own BuildRuns are then the same as before.                          *)
LEMMA SameOwnRuns ==
    ASSUME SameView
    PROVE  /\ DOMAIN OwnIn(cacheRuns)' = DOMAIN OwnIn(cacheRuns)
           /\ \A n \in DOMAIN OwnIn(cacheRuns) : cacheRuns'[n] = cacheRuns[n]
  <1>1. OwnIn(cacheRuns') = OwnIn(cacheRuns)
    BY DEF SameView, OwnIn
  <1>. QED
    BY <1>1, SameOwnIn DEF SameView, OwnIn

(* What the last reconcile has left behind stays.                          *)
LEMMA RestStays ==
    ASSUME CalmRest, UNCHANGED srv, SameView,
           faults' = 0 => faults = 0, crashes' = 0 => crashes = 0
    PROVE  CalmRest'
  <1>0. /\ DOMAIN OwnIn(cacheRuns)' = DOMAIN OwnIn(cacheRuns)
        /\ \A n \in DOMAIN OwnIn(cacheRuns) : cacheRuns'[n] = cacheRuns[n]
    BY SameOwnRuns
  <1>1. BuildIsWanted(srv) => BuildIsWanted(srv)'
    BY DEF SameView, BuildIsWanted
  <1>2. NameConflict(srv) => NameConflict(srv)'
    BY DEF SameView, NameConflict
  <1>3. GaveUp(srv) => GaveUp(srv)'
    BY <1>1, <1>2 DEF GaveUp, SameView
  <1>4. /\ RunReported(srv) => RunReported(srv)'
        /\ ImageReported(srv) => ImageReported(srv)'
        /\ PushHandled(srv) => PushHandled(srv)'
    BY <1>0 DEF RunReported, ImageReported, PushHandled
  <1>5. Healthy' => Healthy
    BY DEF Healthy
  <1>. QED
    BY <1>1, <1>3, <1>4, <1>5 DEF CalmRest

(* The image is left alone when there is none to report or it is reported. *)
LEMMA ImageSettles == ASSUME SettledInv, patchLatestImage PROVE SettlingInv'
  <1>. DEFINE image == imageToReport(loc, br)
              new == [loc EXCEPT !.obsGen = loc.gen, !.latestImage = image]
  <1>0. TypeOK /\ SettlingInv /\ pc = "image" /\ pc \in AfterBuild
    BY SettledTypes DEF patchLatestImage, AfterBuild, AfterLabel, PC
  <1>1. Sends(new)
    BY <1>0, SentStatus
  <1>2. new.latestImage = image
    BY <1>0 DEF TypeOK, ImageBuild
  <1>3. PICK requeue :
          /\ Finish(requeue)
          /\ \/ image = NoImage /\ UNCHANGED <<srv, faults>> /\ requeue = poll(loc)
             \/ PatchTo(new) /\ UNCHANGED faults /\ requeue = poll(srv')
             \/ PatchError(new) /\ requeue = TRUE
    BY Zenon DEF patchLatestImage
  <1>4. Elsewhere /\ UNCHANGED <<runs, build>>
    BY DEF patchLatestImage
  <1>. HIDE DEF new, image
  <1>5. /\ CacheIsCurrent' /\ PatchesAreDue' /\ HeldIsCached' /\ DigestsSucceed'
        /\ TriggersRecorded' /\ PushesWanted'
        /\ Calm' => CalmStage /\ Calm /\ srv' = srv /\ ~requeue
    <2>1. PatchTo(new) \/ UNCHANGED srv
      BY <1>3, Zenon DEF PatchError
    <2>2. faults' = faults \/ Fault
      BY <1>3, Zenon DEF PatchError
    <2>3. pc \notin {"idle", "triggered"}
      BY <1>0
    <2>. QED
      BY <1>1, <1>3, <1>4, <2>1, <2>2, <2>3, LastAside, Zenon
  <1>6. UNCHANGED <<cacheRuns, cacheBuild, crashes>>
    BY <1>4 DEF Elsewhere, caches
  <1>7. CalmIsSettled'
    <2>. SUFFICES ASSUME Calm' PROVE CalmIsSettled'
      BY Zenon DEF CalmIsSettled
    <2>1. CalmStage /\ Calm /\ srv' = srv /\ ~requeue /\ loc = srv
      BY <1>5, Zenon DEF CalmStage
    <2>2. ~poll(loc) /\ UNCHANGED faults /\ (image = NoImage \/ PatchTo(new))
      BY <1>3, <2>1, Zenon
    <2>3. image \in {NoImage, loc.latestImage}
      <3>1. PatchTo(new) => new = loc
        BY <1>0, <1>1, <2>1, CalmPatch, Zenon DEF Sends
      <3>. QED
        BY <1>2, <2>2, <3>1
    <2>4. CalmRest
      BY <1>0, <2>1, <2>2, <2>3, CalmImage DEF image
    <2>5. CalmRest'
      BY <1>4, <1>6, <2>1, <2>2, <2>4, ViewKept, RestStays
    <2>6. pc' = "idle"
      BY <1>3 DEF Finish
    <2>. QED
      BY <2>5, <2>6, Zenon DEF CalmIsSettled
  <1>8. NoBuildStops'
    BY <1>0, <1>4, <1>6 DEF NoBuildStops, SettlingInv
  <1>. QED
    BY <1>5, <1>7, <1>8, Zenon DEF SettlingInv

(* Behind a conflict Ready is false if that could be written.              *)
LEMMA NotReadySettles == ASSUME SettledInv, setNotReady PROVE SettlingInv'
  <1>. DEFINE new == withReady(fail.reason)
  <1>0. TypeOK /\ SettlingInv /\ pc = "notReady" /\ fail.reason # "Reconciled"
    BY SettledTypes DEF setNotReady, SettlingInv, PatchesAreDue
  <1>1. Sends(new)
    BY <1>0, SentCopies DEF TypeOK
  <1>2. new.conds.ready.reason = fail.reason
    BY <1>0 DEF TypeOK, ImageBuild, Conditions, withReady
  <1>3. /\ Finish(fail.requeue) /\ Elsewhere /\ UNCHANGED <<runs, build>>
        /\ \/ PatchTo(new) /\ UNCHANGED faults
           \/ PatchError(new)
    BY Zenon DEF setNotReady
  <1>. HIDE DEF new
  <1>4. /\ CacheIsCurrent' /\ PatchesAreDue' /\ HeldIsCached' /\ DigestsSucceed'
        /\ TriggersRecorded' /\ PushesWanted'
        /\ Calm' => CalmStage /\ Calm /\ srv' = srv /\ ~fail.requeue
    <2>1. PatchTo(new) \/ UNCHANGED srv
      BY <1>3, Zenon DEF PatchError
    <2>2. faults' = faults \/ Fault
      BY <1>3, Zenon DEF PatchError
    <2>3. pc \notin {"idle", "triggered"}
      BY <1>0
    <2>. QED
      BY <1>1, <1>3, <2>1, <2>2, <2>3, LastAside, Zenon
  <1>5. UNCHANGED <<cacheRuns, cacheBuild, crashes>>
    BY <1>3 DEF Elsewhere, caches
  <1>6. pc' = "idle"
    BY <1>3 DEF Finish
  <1>7. CalmIsSettled'
    <2>. SUFFICES ASSUME Calm' PROVE CalmIsSettled'
      BY Zenon DEF CalmIsSettled
    <2>1. CalmStage /\ srv' = srv /\ ~fail.requeue /\ loc = srv
      BY <1>4, Zenon DEF CalmStage
    <2>2. GaveUp(loc) /\ loc.label = desiredLabel(loc)
      <3>1. pc \in AfterLabel
        BY <1>0 DEF AfterLabel, PC
      <3>. QED
        BY <1>0, <2>1, <3>1, Zenon DEF CalmStage
    <2>3. GaveUp(srv)'
      BY <1>3, <1>5, <2>1, <2>2 DEF GaveUp, NameConflict, BuildIsWanted
    <2>4. srv'.label = desiredLabel(srv')
      BY <2>1, <2>2
    <2>5. ASSUME faults' = 0 PROVE ~Healthy'
      <3>1. PatchTo(new)
        BY <1>0, <1>3, <2>5 DEF TypeOK, PatchError, Fault
      <3>2. new = loc
        BY <1>0, <1>1, <2>1, <3>1, CalmPatch DEF Sends
      <3>. QED
        BY <1>0, <1>2, <2>1, <3>2 DEF Healthy
    <2>6. CalmRest'
      BY <2>3, <2>4, <2>5, Zenon DEF CalmRest
    <2>. QED
      BY <1>6, <2>6, Zenon DEF CalmIsSettled
  <1>8. NoBuildStops'
    <2>1. srv'.conds \in {srv.conds, new.conds}
      <3>1. PatchTo(new) \/ UNCHANGED srv
        BY <1>3, Zenon DEF PatchError
      <3>. QED
        BY <1>0, <1>1, <3>1, PatchedFields DEF Sends
    <2>2. Healthy' => Healthy
      BY <1>0, <1>2, <2>1 DEF Healthy
    <2>3. pc' \notin AfterBuild
      BY <1>6 DEF AfterBuild, AfterLabel
    <2>. QED
      BY <1>0, <1>3, <1>5, <2>2, <2>3, ForeignStays DEF SettlingInv
  <1>. QED
    BY <1>4, <1>7, <1>8, Zenon DEF SettlingInv

-----------------------------------------------------------------------------
(* The steps of the reconcile that do not write the ImageBuild.            *)

(* A reconcile starts with what the cache has, which is what the server has*)
(* if the cache is up to date.                                             *)
LEMMA StartSettles == ASSUME SettledInv, StartReconcile PROVE SettlingInv'
  <1>0. TypeOK /\ SettlingInv /\ pc = "idle" /\ br = NoHeldRun
    BY SettledTypes DEF StartReconcile, SettlingInv, HeldIsCached
  <1>1. /\ UNCHANGED <<srv, runs, build, cache, cacheRuns, cacheBuild, lag, br, hooks, faults,
                       crashes>>
        /\ loc' = cache
        /\ pc' = IF cache.label = desiredLabel(cache) THEN "build" ELSE "label"
    BY DEF StartReconcile, cluster, caches, webhook, bounds
  <1>2. pc' \in {"build", "label"}
    BY <1>1
  <1>3. CacheIsCurrent'
    BY <1>0, <1>1 DEF SettlingInv, CacheIsCurrent
  <1>4. CalmIsSettled'
    <2>. SUFFICES ASSUME Calm' PROVE CalmStage' /\ pc' # "idle"
      BY Zenon DEF CalmIsSettled
    <2>1. lag = 0
      BY <1>1, Zenon DEF Calm
    <2>2. loc' = srv'
      BY <1>0, <1>1, <2>1 DEF SettlingInv, CacheIsCurrent
    <2>3. pc' = "build" => loc'.label = desiredLabel(loc')
      BY <1>1, Zenon
    <2>. QED
      BY <1>2, <2>2, <2>3 DEF CalmStage, AfterLabel, AfterBuild, AfterBuildRef
  <1>5. PatchesAreDue'
    <2>1. pc' = "label" => loc'.label # desiredLabel(loc')
      BY <1>1, Zenon
    <2>. QED
      BY <1>2, <2>1 DEF PatchesAreDue
  <1>6. HeldIsCached'
    <2>0. br.name = NoRun /\ NoRun \notin DOMAIN cacheRuns
      BY <1>0 DEF TypeOK, NoRun, NoHeldRun, RunName, RunKind
    <2>1. br.name = NoRun /\ NoRun \notin DOMAIN OwnIn(cacheRuns)
      BY <2>0, OwnInCache
    <2>2. /\ pc' # "idle" /\ pc' # "counter" /\ pc' # "triggered" /\ pc' # "record"
          /\ pc' # "status"
      BY <1>2
    <2>. QED
      BY <1>0, <1>1, <2>1, <2>2 DEF HeldIsCached
  <1>7. DigestsSucceed'
    BY <1>0, <1>1, DigestsStay DEF SettlingInv
  <1>8. TriggersRecorded'
    BY <1>0, <1>1, TriggersStay DEF SettlingInv
  <1>9. PushesWanted'
    <2>1. srv'.rebuild = srv.rebuild /\ srv'.pending \in {srv.pending, NoEvent}
      BY <1>1
    <2>. QED
      BY <1>0, <1>1, <2>1, PushesStay DEF SettlingInv
  <1>10. NoBuildStops'
    <2>1. Healthy' => Healthy
      BY <1>1 DEF Healthy
    <2>2. pc' \notin AfterBuild
      BY <1>2 DEF AfterBuild, AfterLabel
    <2>. QED
      BY <1>0, <1>1, <2>1, <2>2, ForeignStays DEF SettlingInv
  <1>. QED
    BY <1>3, <1>4, <1>5, <1>6, <1>7, <1>8, <1>9, <1>10, Zenon DEF SettlingInv

(* The parts a step that leaves ImageBuild, Build and BuildRuns alone and  *)
(* ends the reconcile's progress does not disturb.                         *)
LEMMA StoppedAside ==
    ASSUME SettledInv, pc # "triggered", UNCHANGED <<srv, runs, build, faults>>, Elsewhere,
           NEW reason, NEW requeue, Abandon(reason, requeue)
    PROVE  DigestsSucceed' /\ TriggersRecorded' /\ NoBuildStops'
  <1>0. TypeOK /\ SettlingInv
    BY SettledTypes
  <1>1. DigestsSucceed' /\ TriggersRecorded'
    BY UnwrittenAside
  <1>2. UNCHANGED cacheBuild /\ pc' = "notReady"
    BY DEF Elsewhere, caches, Abandon
  <1>3. Healthy' => Healthy
    BY DEF Healthy
  <1>4. pc' \notin AfterBuild
    BY <1>2 DEF AfterBuild
  <1>. QED
    BY <1>0, <1>1, <1>2, <1>3, <1>4, ForeignStays DEF SettlingInv

(* A missing dependency is retried, a Build of somebody else is not.       *)
LEMMA BlockedSettles ==
    ASSUME SettledInv, validateWebhookSecret \/ buildBlocked
    PROVE  SettlingInv'
  <1>1. pc = "build" /\ UNCHANGED <<srv, runs, build, faults>> /\ Elsewhere
    BY DEF validateWebhookSecret, buildBlocked
  <1>2. pc \in AfterLabel /\ pc # "triggered"
    BY <1>1 DEF AfterLabel, PC
  <1>3. PICK reason, requeue :
          /\ Abandon(reason, requeue) /\ reason # "Reconciled"
          /\ requeue = TRUE \/ (requeue = FALSE /\ cacheBuild.owner = "foreign")
    <2>1. CASE validateWebhookSecret
      <3>1. Abandon("WebhookSecretMissing", TRUE) \/ Abandon("WebhookSecretInvalidKey", TRUE)
        BY <2>1, Zenon DEF validateWebhookSecret
      <3>2. "WebhookSecretMissing" # "Reconciled" /\ "WebhookSecretInvalidKey" # "Reconciled"
        OBVIOUS
      <3>. QED
        BY <3>1, <3>2, Zenon
    <2>2. CASE buildBlocked
      <3>1. \/ Abandon("MissingPolicy", TRUE) \/ Abandon("BuildStrategyNotFound", TRUE)
            \/ Abandon("BuildConflict", FALSE) /\ cacheBuild.owner = "foreign"
        BY <2>2, Zenon DEF buildBlocked
      <3>2. /\ "MissingPolicy" # "Reconciled" /\ "BuildStrategyNotFound" # "Reconciled"
            /\ "BuildConflict" # "Reconciled"
        OBVIOUS
      <3>. QED
        BY <3>1, <3>2, Zenon
    <2>. QED
      BY <2>1, <2>2
  <1>4. DigestsSucceed' /\ TriggersRecorded' /\ NoBuildStops'
    BY <1>1, <1>2, <1>3, StoppedAside, Zenon
  <1>5. cacheBuild.owner = "foreign" => GaveUp(loc)
    BY DEF GaveUp
  <1>. QED
    BY <1>1, <1>2, <1>3, <1>4, <1>5, AbandonSettles, Zenon

(* The reconcile waits for the debounce or the interval.                   *)
LEMMA WaitSettles == ASSUME SettledInv, onCommitWaits PROVE SettlingInv'
  <1>1. /\ pc \notin {"idle", "triggered"} /\ UNCHANGED <<srv, runs, build, faults>>
        /\ Elsewhere /\ Finish(TRUE)
    BY DEF onCommitWaits
  <1>. QED
    BY <1>1, ReturnSettles, Zenon

(* Going on to the next write without one.                                 *)
LEMMA SkipSettles ==
    ASSUME SettledInv, pc # "idle", UNCHANGED srv, Elsewhere,
           NEW next \in PC \ {"idle"}, Skip(next),
           Calm /\ CalmStage => CalmStage',
           HeldIsCached', PatchesAreDue', DigestsSucceed', TriggersRecorded', NoBuildStops'
    PROVE  SettlingInv'
  <1>0. TypeOK /\ SettlingInv
    BY SettledTypes
  <1>1. UNCHANGED <<cache, hooks>>
    BY DEF Elsewhere, caches, webhook
  <1>2. Leads(next, "none", TRUE)
    BY Zenon DEF Leads
  <1>3. CacheIsCurrent' /\ (Calm' => CalmStage /\ Calm)
    BY <1>0, <1>2, CalmBefore, Zenon
  <1>4. pc' # "idle"
    BY DEF Skip
  <1>5. CalmIsSettled'
    BY <1>3, <1>4, Zenon DEF CalmIsSettled
  <1>6. PushesWanted'
    <2>1. srv'.rebuild = srv.rebuild /\ srv'.pending \in {srv.pending, NoEvent}
      OBVIOUS
    <2>. QED
      BY <1>0, <1>1, <2>1, PushesStay, Zenon DEF SettlingInv
  <1>. QED
    BY <1>3, <1>5, <1>6, Zenon DEF SettlingInv

(* Past ensureBuild the Build is wanted, unless the cache is behind.       *)
LEMMA EnsureSettles == ASSUME SettledInv, ensureBuild PROVE SettlingInv'
  <1>0. /\ TypeOK /\ SettlingInv /\ OwnershipInv /\ pc = "build"
        /\ pc # "idle" /\ pc # "triggered" /\ pc \in AfterLabel
    BY SettledTypes DEF ensureBuild, SettledInv, AfterLabel, PC
  <1>1. /\ cacheBuild.owner # "foreign" /\ UNCHANGED <<srv, runs>> /\ Elsewhere
        /\ build' \in {build, newBuild(loc)} /\ (faults' = faults \/ Fault)
    BY DEF ensureBuild, Skip
  <1>2. UNCHANGED <<cache, cacheRuns, cacheBuild, hooks, crashes>>
    BY <1>1 DEF Elsewhere, caches, webhook
  <1>3. DigestsSucceed' /\ TriggersRecorded'
    BY <1>0, <1>1, UnwrittenAside, Zenon
  <1>4. newBuild(loc).owner = "own" /\ ~(cacheBuild'.owner = "foreign") /\ (Healthy' => Healthy)
    BY <1>1, <1>2 DEF newBuild, Healthy
  <1>5. CASE Abandon("BuildReconcileFailed", TRUE)
    <2>0. NoBuildStops'
      <3>1. pc' \notin AfterBuild
        BY <1>5 DEF Abandon, AfterBuild
      <3>2. build'.owner # "own" => build.owner # "own"
        BY <1>1, <1>4
      <3>. QED
        BY <1>0, <1>4, <3>1, <3>2 DEF NoBuildStops, SettlingInv
    <2>1. "BuildReconcileFailed" # "Reconciled"
      OBVIOUS
    <2>. QED
      BY <1>0, <1>1, <1>3, <1>5, <2>0, <2>1, AbandonSettles, Zenon
  <1>6. CASE /\ Skip(afterBuild) /\ UNCHANGED br
             /\ (buildUpToDate /\ UNCHANGED build) \/ build' = newBuild(loc)
    <2>0. NoBuildStops'
      <3>1. buildUpToDate => build.owner = "own"
        BY <1>0, <1>4 DEF buildUpToDate, OwnershipInv
      <3>2. build'.owner = "own"
        BY <1>4, <1>6, <3>1
      <3>. QED
        BY <1>4, <3>2 DEF NoBuildStops
    <2>1. /\ pc' = afterBuild /\ afterBuild \in {"oncommit", "buildRef"}
          /\ afterBuild = "oncommit" => loc.obsGen = loc.gen
          /\ afterBuild = "buildRef" => ~(loc.buildRef /\ loc.obsGen = loc.gen)
      BY <1>6 DEF Skip, afterBuild
    <2>2. loc' = loc /\ (queued => queued')
      BY <1>6, Zenon DEF Skip
    <2>3. PatchesAreDue'
      BY <2>1, <2>2 DEF PatchesAreDue
    <2>4. HeldIsCached'
      BY <1>0, <1>2, <1>6, <2>1, <2>2, HeldStays DEF SettlingInv
    <2>5. BuildIsWanted(loc)'
      BY <1>2, <1>6, <2>2 DEF BuildIsWanted, buildUpToDate, newBuild
    <2>6. CalmStage => CalmStage'
      BY <1>0, <1>1, <2>1, <2>2, <2>5 DEF CalmStage, AfterLabel, AfterBuild, AfterBuildRef, PC
    <2>7. afterBuild \in PC \ {"idle"}
      BY <2>1 DEF PC
    <2>. QED
      BY <1>0, <1>1, <1>3, <1>6, <2>0, <2>3, <2>4, <2>6, <2>7, SkipSettles, Zenon
  <1>. QED
    BY <1>5, <1>6, Zenon DEF ensureBuild

(* Adopting a BuildRun from the cache.                                     *)
LEMMA HeldAdopted ==
    ASSUME TypeOK, UNCHANGED cacheRuns, NEW n \in DOMAIN cacheRuns,
           br' = Hold(n, cacheRuns[n]), pc' # "idle"
    PROVE  HeldIsCached' /\ br'.name # NoRun /\ br'.name = n
  <1>1. br'.name = n
    BY HoldFields
  <1>2. n # NoRun
    BY DEF TypeOK, NoRun, RunName, RunKind
  <1>. QED
    BY <1>1, <1>2, Zenon DEF HeldIsCached, Hold

(* What a calm reconcile past patchBuildRef has established stays.         *)
LEMMA StageStays ==
    ASSUME CalmStage, pc \in AfterBuildRef, UNCHANGED <<loc, srv, build, cacheBuild>>
    PROVE  /\ loc' = srv' /\ loc'.label = desiredLabel(loc')
           /\ BuildIsWanted(loc)' /\ loc'.obsGen = loc'.gen
  BY DEF CalmStage, AfterLabel, AfterBuild, AfterBuildRef, BuildIsWanted

(* The commit waits for the active BuildRun.                               *)
LEMMA ActiveSettles == ASSUME SettledInv, onCommitActive PROVE SettlingInv'
  <1>0. TypeOK /\ SettlingInv
    BY SettledTypes
  <1>1. /\ pc = "oncommit" /\ UNCHANGED <<srv, runs, build, faults>> /\ Elsewhere
        /\ Skip("status") /\ lastRunActive
        /\ br' = Hold(loc.lastRun, cacheRuns[loc.lastRun])
    BY DEF onCommitActive, onCommitReady, Skip
  <1>2. UNCHANGED <<cacheRuns, cacheBuild, loc>> /\ pc' = "status"
    BY <1>1 DEF Elsewhere, caches, Skip
  <1>3. HeldIsCached' /\ br'.name # NoRun
    BY <1>0, <1>1, <1>2, HeldAdopted DEF lastRunActive
  <1>4. isActiveBuildRun(br')
    <2>1. isActiveBuildRun(cacheRuns[loc.lastRun])
      BY <1>1 DEF lastRunActive
    <2>2. br'.phase = cacheRuns[loc.lastRun].phase
      BY <1>1, HoldFields
    <2>. QED
      BY <2>1, <2>2 DEF isActiveBuildRun
  <1>5. CalmStage => CalmStage'
    <2>1. pc \in AfterBuildRef
      BY <1>1 DEF AfterBuildRef, AfterBuild, AfterLabel, PC
    <2>. SUFFICES ASSUME CalmStage PROVE CalmStage'
      OBVIOUS
    <2>2. /\ loc' = srv' /\ loc'.label = desiredLabel(loc')
          /\ BuildIsWanted(loc)' /\ loc'.obsGen = loc'.gen
      BY <1>1, <1>2, <2>1, StageStays
    <2>. QED
      BY <1>2, <1>3, <1>4, <2>2 DEF CalmStage
  <1>6. PatchesAreDue'
    BY <1>2 DEF PatchesAreDue
  <1>7. DigestsSucceed' /\ TriggersRecorded' /\ pc # "idle"
    BY <1>1, UnwrittenAside
  <1>8. NoBuildStops'
    BY <1>0, <1>1, <1>2 DEF NoBuildStops, SettlingInv, Healthy, AfterBuild, AfterLabel, PC
  <1>9. "status" \in PC \ {"idle"}
    BY DEF PC
  <1>. QED
    BY <1>1, <1>3, <1>5, <1>6, <1>7, <1>8, <1>9, SkipSettles, Zenon

(* With no commit pending the last BuildRun is reported, if there is one.  *)
LEMMA LastRunSettles == ASSUME SettledInv, getLastBuildRun PROVE SettlingInv'
  <1>. DEFINE found == loc.lastRun \in DOMAIN cacheRuns
  <1>0. TypeOK /\ SettlingInv
    BY SettledTypes
  <1>1. /\ pc \in {"oncommit", "default"} /\ (pc = "oncommit" => ~isRebuildEnabled(loc))
        /\ UNCHANGED <<srv, runs, build, faults>> /\ Elsewhere
        /\ br' = IF found THEN Hold(loc.lastRun, cacheRuns[loc.lastRun]) ELSE NoHeldRun
        /\ Skip(IF found THEN "status" ELSE afterStatus(loc))
    BY DEF getLastBuildRun, atDefault, Skip
  <1>2. UNCHANGED <<cacheRuns, cacheBuild, loc, crashes>>
        /\ pc' = IF found THEN "status" ELSE afterStatus(loc)
    BY <1>1 DEF Elsewhere, caches, Skip
  <1>3. /\ pc' \in {"status", "ready", "image"} /\ (pc' = "status" <=> found)
        /\ pc' = "ready" => ~readyUpToDate(loc)
        /\ pc' = "image" => readyUpToDate(loc)
    BY <1>2 DEF afterStatus
  <1>4. HeldIsCached' /\ (found <=> br'.name # NoRun)
    <2>1. CASE found
      BY <1>0, <1>1, <1>2, <1>3, <2>1, HeldAdopted
    <2>2. CASE ~found
      <3>1. br' = NoHeldRun
        BY <1>1, <2>2
      <3>0. NoRun \notin DOMAIN cacheRuns
        BY <1>0 DEF TypeOK, NoRun, RunName, RunKind
      <3>2. br'.name = NoRun /\ NoRun \notin DOMAIN OwnIn(cacheRuns)
        BY <3>0, <3>1, OwnInCache DEF NoHeldRun
      <3>3. pc' # "idle" /\ pc' # "counter" /\ pc' # "triggered" /\ pc' # "record"
            /\ pc' # "status"
        BY <1>3, <2>2
      <3>. QED
        BY <1>2, <2>2, <3>1, <3>2, <3>3 DEF HeldIsCached
    <2>. QED
      BY <2>1, <2>2
  <1>5. CalmStage => CalmStage'
    <2>. SUFFICES ASSUME CalmStage PROVE CalmStage'
      OBVIOUS
    <2>1. pc = "oncommit" /\ ~isRebuildEnabled(loc)
      BY <1>1 DEF CalmStage
    <2>2. pc \in AfterBuildRef
      BY <2>1 DEF AfterBuildRef, AfterBuild, AfterLabel, PC
    <2>3. /\ loc' = srv' /\ loc'.label = desiredLabel(loc')
          /\ BuildIsWanted(loc)' /\ loc'.obsGen = loc'.gen
      BY <1>1, <1>2, <2>2, StageStays
    <2>4. PushHandled(loc)'
      BY <1>1, <1>2, <2>1 DEF PushHandled
    <2>5. pc' \in {"ready", "image"} =>
            br'.name = NoRun /\ loc'.lastRun \notin DOMAIN OwnIn(cacheRuns)'
      <3>1. ~found => loc.lastRun \notin DOMAIN OwnIn(cacheRuns)
        BY OwnInCache
      <3>. QED
        BY <1>2, <1>3, <1>4, <3>1
    <2>6. pc' = "image" => readyUpToDate(loc)'
      BY <1>2, <1>3
    <2>. QED
      BY <1>3, <2>3, <2>4, <2>5, <2>6 DEF CalmStage
  <1>6. PatchesAreDue'
    BY <1>2, <1>3 DEF PatchesAreDue
  <1>7. DigestsSucceed' /\ TriggersRecorded' /\ pc # "idle"
    BY <1>1, UnwrittenAside
  <1>8. NoBuildStops'
    BY <1>0, <1>1, <1>2 DEF NoBuildStops, SettlingInv, Healthy, AfterBuild, AfterLabel, PC
  <1>9. (IF found THEN "status" ELSE afterStatus(loc)) \in PC \ {"idle"}
    BY DEF PC, afterStatus
  <1>. QED
    BY <1>1, <1>4, <1>5, <1>6, <1>7, <1>8, <1>9, SkipSettles, Zenon

(* The steps before a BuildRun: the conditions on them that the lemmas on  *)
(* getOrCreateBuildRun share.                                              *)
AtRun == pc \in {"oncommit", "default"} /\ Elsewhere /\ UNCHANGED <<srv, build>>

(* Adopting the BuildRun that already has the name.                        *)
LEMMA AdoptedSettles ==
    ASSUME SettledInv, AtRun, UNCHANGED <<runs, faults>>,
           NEW name \in DOMAIN cacheRuns, br' = Hold(name, cacheRuns[name]),
           NEW next \in {"status", "record"}, Skip(next),
           Calm /\ CalmStage => PushHandled(loc)
    PROVE  SettlingInv'
  <1>0. TypeOK /\ SettlingInv
    BY SettledTypes
  <1>1. /\ pc \in {"oncommit", "default"} /\ pc # "idle" /\ pc # "triggered"
        /\ Elsewhere /\ UNCHANGED <<srv, build>>
    BY DEF AtRun
  <1>2. UNCHANGED <<cacheRuns, cacheBuild, loc, crashes>> /\ pc' = next
    BY <1>1 DEF Elsewhere, caches, Skip
  <1>3. HeldIsCached' /\ br'.name # NoRun
    BY <1>0, <1>2, HeldAdopted
  <1>4. Calm /\ CalmStage => CalmStage'
    <2>. SUFFICES ASSUME Calm /\ CalmStage PROVE CalmStage'
      OBVIOUS
    <2>1. CalmStage /\ PushHandled(loc)
      BY Zenon
    <2>2. pc \in AfterBuildRef
      BY <1>1 DEF AfterBuildRef, AfterBuild, AfterLabel, PC
    <2>3. /\ loc' = srv' /\ loc'.label = desiredLabel(loc')
          /\ BuildIsWanted(loc)' /\ loc'.obsGen = loc'.gen
      BY <1>1, <1>2, <2>1, <2>2, StageStays
    <2>4. PushHandled(loc)'
      BY <1>2, <2>1 DEF PushHandled
    <2>. QED
      BY <1>2, <2>3, <2>4 DEF CalmStage
  <1>5. PatchesAreDue'
    BY <1>2 DEF PatchesAreDue
  <1>6. DigestsSucceed' /\ TriggersRecorded'
    BY <1>1, UnwrittenAside
  <1>7. NoBuildStops'
    BY <1>0, <1>1, <1>2 DEF NoBuildStops, SettlingInv, Healthy, AfterBuild, AfterLabel, PC
  <1>8. next \in PC \ {"idle"}
    BY DEF PC
  <1>. QED
    BY <1>1, <1>3, <1>4, <1>5, <1>6, <1>7, <1>8, SkipSettles, Zenon

(* Giving up where somebody else has the name.                             *)
LEMMA ConflictSettles ==
    ASSUME SettledInv, AtRun, UNCHANGED <<runs, faults>>,
           NEW name \in NextNames(loc) \cap DOMAIN cacheRuns, ~cacheRuns[name].own,
           NEW reason, reason # "Reconciled", Abandon(reason, FALSE)
    PROVE  SettlingInv'
  <1>1. /\ pc \in AfterBuildRef /\ pc \in AfterLabel /\ pc # "triggered"
        /\ Elsewhere /\ UNCHANGED <<srv, runs, build, faults>>
    BY DEF AtRun, AfterBuildRef, AfterBuild, AfterLabel, PC
  <1>2. CalmStage => GaveUp(loc)
    <2>. SUFFICES ASSUME CalmStage PROVE GaveUp(loc)
      OBVIOUS
    <2>1. NameConflict(loc)
      BY DEF NameConflict
    <2>2. BuildIsWanted(loc) /\ loc.obsGen = loc.gen
      BY <1>1 DEF CalmStage, AfterBuildRef
    <2>. QED
      BY <2>1, <2>2 DEF GaveUp
  <1>3. DigestsSucceed' /\ TriggersRecorded' /\ NoBuildStops'
    BY <1>1, StoppedAside, Zenon
  <1>. QED
    BY <1>1, <1>2, <1>3, AbandonSettles, Zenon

(* Creating a BuildRun, which has no digest yet.                           *)
LEMMA CreatedDigests ==
    ASSUME DigestsSucceed, NEW name, runs' = WithRun(name, newBuildRun), UNCHANGED cacheRuns
    PROVE  DigestsSucceed'
  <1>1. newBuildRun.digest = FALSE
    BY DEF newBuildRun
  <1>2. \A n \in DOMAIN runs' :
          \/ n = name /\ runs'[n] = newBuildRun
          \/ n \in DOMAIN runs /\ runs'[n] = runs[n]
    BY DEF WithRun
  <1>3. ASSUME NEW n \in DOMAIN runs', runs'[n].digest PROVE runs'[n].phase = "succeeded"
    <2>1. CASE runs'[n] = newBuildRun
      <3>. DEFINE r == runs'[n]
      <3>1. r = newBuildRun /\ r.digest
        BY <1>3, <2>1
      <3>. HIDE DEF r
      <3>. QED
        BY <1>1, <3>1, Zenon
    <2>2. CASE n \in DOMAIN runs /\ runs'[n] = runs[n]
      <3>. DEFINE r == runs'[n]
                  s == runs[n]
      <3>1. r = s /\ r.digest
        BY <1>3, <2>2
      <3>2. s.digest => s.phase = "succeeded"
        BY <2>2, Zenon DEF DigestsSucceed
      <3>3. r.phase = "succeeded"
        <4>. HIDE DEF r, s
        <4>. QED
          BY <3>1, <3>2, Zenon
      <3>. QED
        BY <3>3
    <2>. QED
      BY <1>2, <2>1, <2>2
  <1>. QED
    BY <1>3, Zenon DEF DigestsSucceed

(* A new BuildRun, its counter about to be patched.                        *)
LEMMA CreatedSettles ==
    ASSUME SettledInv, AtRun, UNCHANGED faults,
           NEW name \in RunName, name \notin DOMAIN cacheRuns,
           runs' = WithRun(name, newBuildRun), br' = Hold(name, newBuildRun),
           NEW next, \/ next = "counter" /\ name[1] = "spec"
                     \/ next = "triggered" /\ name[1] = "oncommit",
           Skip(next)
    PROVE  SettlingInv'
  <1>0. TypeOK /\ SettlingInv
    BY SettledTypes
  <1>1. /\ pc \in {"oncommit", "default"} /\ pc # "idle" /\ pc # "triggered"
        /\ Elsewhere /\ UNCHANGED <<srv, build>>
    BY DEF AtRun
  <1>2. UNCHANGED <<cacheRuns, cacheBuild, loc, crashes>> /\ pc' = next
    BY <1>1 DEF Elsewhere, caches, Skip
  <1>3. br'.name = name /\ name # NoRun
    BY HoldFields DEF NoRun, RunName, RunKind
  <1>4. HeldIsCached'
    <2>1. br'.name \notin DOMAIN OwnIn(cacheRuns)'
      BY <1>2, <1>3, OwnInCacheNext
    <2>. QED
      BY <1>2, <1>3, <2>1 DEF HeldIsCached
  <1>5. Calm /\ CalmStage => CalmStage'
    <2>. SUFFICES ASSUME CalmStage PROVE CalmStage'
      OBVIOUS
    <2>1. pc \in AfterBuildRef
      BY <1>1 DEF AfterBuildRef, AfterBuild, AfterLabel, PC
    <2>2. /\ loc' = srv' /\ loc'.label = desiredLabel(loc')
          /\ BuildIsWanted(loc)' /\ loc'.obsGen = loc'.gen
      BY <1>1, <1>2, <2>1, StageStays
    <2>. QED
      BY <1>2, <2>2 DEF CalmStage
  <1>6. PatchesAreDue'
    BY <1>2 DEF PatchesAreDue
  <1>7. DigestsSucceed'
    BY <1>0, <1>2, CreatedDigests DEF SettlingInv
  <1>8. TriggersRecorded'
    <2>. SUFFICES ASSUME faults' = 0 /\ crashes' = 0 PROVE TriggersRecorded'
      BY DEF TriggersRecorded
    <2>1. /\ \A n \in DOMAIN runs : n[1] = "oncommit" /\ runs[n].own => n[2] <= srv.trigCounter
          /\ \A n \in DOMAIN cacheRuns :
               n[1] = "oncommit" /\ cacheRuns[n].own => n[2] <= srv.trigCounter
      BY <1>0, <1>1, <1>2 DEF SettlingInv, TriggersRecorded
    <2>2. /\ DOMAIN runs' = DOMAIN runs \cup {name}
          /\ \A n \in DOMAIN runs : n # name => runs'[n] = runs[n]
      BY CreatedNames
    <2>3. ASSUME NEW n \in DOMAIN runs', n[1] = "oncommit", runs'[n].own
          PROVE  n[2] <= srv'.trigCounter \/ (pc' = "triggered" /\ n = br'.name)
      <3>1. CASE n = name
        BY <1>2, <1>3, <2>3, <3>1
      <3>2. CASE n # name
        BY <1>1, <2>1, <2>2, <2>3, <3>2
      <3>. QED
        BY <3>1, <3>2
    <2>. QED
      BY <1>1, <1>2, <2>1, <2>3 DEF TriggersRecorded
  <1>9. NoBuildStops'
    BY <1>0, <1>1, <1>2 DEF NoBuildStops, SettlingInv, Healthy, AfterBuild, AfterLabel, PC
  <1>10. next \in PC \ {"idle"}
    BY DEF PC
  <1>. QED
    BY <1>1, <1>4, <1>5, <1>6, <1>7, <1>8, <1>9, <1>10, SkipSettles, Zenon

(* The server has the name already, or the request failed, though the      *)
(* BuildRun may have been created.                                         *)
LEMMA RefusedSettles ==
    ASSUME SettledInv, AtRun, NEW name,
           \/ UNCHANGED <<runs, faults>>
           \/ Fault /\ (runs' = WithRun(name, newBuildRun) \/ UNCHANGED runs),
           NEW reason, reason # "Reconciled", Abandon(reason, TRUE)
    PROVE  SettlingInv'
  <1>0. TypeOK /\ SettlingInv
    BY SettledTypes
  <1>1. /\ pc \in AfterLabel /\ pc # "triggered" /\ Elsewhere /\ UNCHANGED <<srv, build>>
    BY DEF AtRun, AfterLabel, PC
  <1>2. UNCHANGED <<cacheRuns, cacheBuild>> /\ pc' = "notReady"
    BY <1>1 DEF Elsewhere, caches, Abandon
  <1>3. DigestsSucceed'
    <2>1. CASE UNCHANGED runs
      BY <1>0, <1>2, <2>1, DigestsStay DEF SettlingInv
    <2>2. CASE runs' = WithRun(name, newBuildRun)
      BY <1>0, <1>2, <2>2, CreatedDigests DEF SettlingInv
    <2>. QED
      BY <2>1, <2>2
  <1>4. TriggersRecorded'
    <2>1. CASE UNCHANGED <<runs, faults>>
      <3>1. faults' = faults \/ Fault
        BY <2>1
      <3>. QED
        BY <1>1, <2>1, <3>1, UnwrittenAside
    <2>2. CASE Fault
      <3>1. faults' # 0
        BY <1>0, <2>2 DEF Fault, TypeOK
      <3>. QED
        BY <3>1 DEF TriggersRecorded
    <2>. QED
      BY <2>1, <2>2
  <1>5. NoBuildStops'
    <2>1. (Healthy' => Healthy) /\ pc' \notin AfterBuild
      BY <1>1, <1>2 DEF Healthy, AfterBuild
    <2>. QED
      BY <1>0, <1>1, <1>2, <2>1, ForeignStays DEF SettlingInv
  <1>. QED
    BY <1>1, <1>3, <1>4, <1>5, AbandonSettles, Zenon

(* getOrCreateBuildRun adopts a BuildRun only when no commit is due, gives *)
(* up on one of somebody else's, or creates its own.                       *)
LEMMA GetOrCreateSettles ==
    ASSUME SettledInv, AtRun, NEW name \in NextNames(loc) \cap RunName,
           NEW reused \in {"status", "record"},
           NEW created, \/ created = "counter" /\ name[1] = "spec"
                        \/ created = "triggered" /\ name[1] = "oncommit",
           NEW conflict, conflict # "Reconciled",
           getOrCreateBuildRun(name, reused, created, conflict),
           name \in DOMAIN cacheRuns /\ cacheRuns[name].own /\ Calm /\ CalmStage
             => PushHandled(loc)
    PROVE  SettlingInv'
  <1>1. CASE /\ name \in DOMAIN cacheRuns /\ isControlledBy(cacheRuns[name])
             /\ br' = Hold(name, cacheRuns[name])
             /\ Skip(reused) /\ UNCHANGED <<runs, faults>>
    <2>1. name \in DOMAIN cacheRuns /\ cacheRuns[name].own
      BY <1>1, Zenon DEF isControlledBy
    <2>. QED
      BY <1>1, <2>1, AdoptedSettles, Zenon
  <1>2. CASE /\ name \in DOMAIN cacheRuns /\ ~isControlledBy(cacheRuns[name])
             /\ UNCHANGED <<srv, runs, faults>> /\ Abandon(conflict, FALSE)
    <2>1. name \in NextNames(loc) \cap DOMAIN cacheRuns /\ ~cacheRuns[name].own
      BY <1>2 DEF isControlledBy
    <2>. QED
      BY <1>2, <2>1, ConflictSettles, Zenon
  <1>3. CASE /\ name \notin DOMAIN cacheRuns /\ name \notin DOMAIN runs
             /\ runs' = WithRun(name, newBuildRun)
             /\ br' = Hold(name, newBuildRun)
             /\ Skip(created) /\ UNCHANGED faults
    <2>1. name \in RunName
      OBVIOUS
    <2>. QED
      BY <1>3, <2>1, CreatedSettles, Zenon
  <1>4. CASE /\ Abandon("BuildRunReconcileFailed", TRUE)
             /\ \/ UNCHANGED <<runs, faults>>
                \/ Fault /\ (runs' = WithRun(name, newBuildRun) \/ UNCHANGED runs)
    <2>1. "BuildRunReconcileFailed" # "Reconciled"
      OBVIOUS
    <2>. QED
      BY <1>4, <2>1, RefusedSettles, Zenon
  <1>. QED
    BY <1>1, <1>2, <1>3, <1>4, Zenon DEF getOrCreateBuildRun

(* The conditions of getOrCreateBuildRun that hold before a BuildRun.      *)
LEMMA AtRunHolds ==
    ASSUME NEW name, NEW reused, NEW created, NEW conflict,
           getOrCreateBuildRun(name, reused, created, conflict), pc \in {"oncommit", "default"}
    PROVE  AtRun
  <1>1. Elsewhere /\ UNCHANGED build /\ UNCHANGED srv
    BY Zenon DEF getOrCreateBuildRun, Skip
  <1>. QED
    BY <1>1 DEF AtRun

(* An owned BuildRun under the next trigger's name was left by a failed    *)
(* write or a crash.                                                       *)
LEMMA OnCommitSettles == ASSUME SettledInv, ensureOnCommitBuildRun PROVE SettlingInv'
  <1>. DEFINE name == onCommitRunNameFor(nextCounter(loc.trigCounter))
  <1>0. TypeOK /\ SettlingInv /\ pc = "oncommit" /\ pc \in {"oncommit", "default"}
    BY SettledTypes DEF ensureOnCommitBuildRun, onCommitReady
  <1>1. getOrCreateBuildRun(name, "status", "triggered", "BuildRunReconcileFailed")
    BY Zenon DEF ensureOnCommitBuildRun
  <1>2. loc.trigCounter \in Nat
    BY <1>0, NumberTypes DEF TypeOK
  <1>3. name \in NextNames(loc) \cap RunName /\ name[1] = "oncommit"
        /\ name[2] = loc.trigCounter + 1
    BY <1>2 DEF NextNames, onCommitRunNameFor, nextCounter, RunName, RunKind
  <1>. HIDE DEF name
  <1>4. ASSUME name \in DOMAIN cacheRuns, cacheRuns[name].own, Calm, CalmStage
        PROVE  PushHandled(loc)
    <2>. SUFFICES ASSUME faults = 0 /\ crashes = 0 PROVE FALSE
      BY DEF PushHandled
    <2>1. name[2] <= srv.trigCounter
      BY <1>0, <1>3, <1>4 DEF SettlingInv, TriggersRecorded
    <2>2. loc = srv
      BY <1>4 DEF CalmStage
    <2>. QED
      BY <1>2, <1>3, <2>1, <2>2
  <1>5. AtRun
    BY <1>0, <1>1, AtRunHolds, Zenon
  <1>6. "BuildRunReconcileFailed" # "Reconciled" /\ "status" \in {"status", "record"}
    OBVIOUS
  <1>. QED
    BY <1>1, <1>3, <1>4, <1>5, <1>6, GetOrCreateSettles, Zenon

(* reconcileDefaultBuildRun is reached in calm only without a commit.      *)
LEMMA DriftSettles == ASSUME SettledInv, ensureBuildRun PROVE SettlingInv'
  <1>. DEFINE name == buildRunNameFor(nextCounter(loc.counter))
  <1>0. /\ TypeOK /\ SettlingInv /\ pc \in {"oncommit", "default"}
        /\ pc = "oncommit" => ~isRebuildEnabled(loc)
    BY SettledTypes DEF ensureBuildRun, atDefault
  <1>1. getOrCreateBuildRun(name, "record", "counter", "BuildRunConflict")
    BY Zenon DEF ensureBuildRun
  <1>2. loc.counter \in Nat
    BY <1>0, NumberTypes DEF TypeOK
  <1>3. name \in NextNames(loc) \cap RunName /\ name[1] = "spec"
    BY <1>2 DEF NextNames, buildRunNameFor, nextCounter, RunName, RunKind
  <1>. HIDE DEF name
  <1>4. CalmStage => PushHandled(loc)
    BY <1>0 DEF CalmStage, PushHandled
  <1>5. AtRun
    BY <1>0, <1>1, AtRunHolds, Zenon
  <1>6. "BuildRunConflict" # "Reconciled" /\ "record" \in {"status", "record"}
    OBVIOUS
  <1>. QED
    BY <1>1, <1>3, <1>4, <1>5, <1>6, GetOrCreateSettles, Zenon

(* Every step of the reconcile.                                            *)
LEMMA ReconcileSettles == ASSUME SettledInv, Reconcile PROVE SettlingInv'
  <1>1. CASE StartReconcile \/ ensureOnCommitLabel \/ validateWebhookSecret
             \/ buildBlocked \/ ensureBuild \/ patchBuildRef
    BY <1>1, StartSettles, LabelSettles, BlockedSettles, EnsureSettles, BuildRefSettles, Zenon
  <1>2. CASE onCommitWaits \/ onCommitDuplicate \/ onCommitActive \/ ensureOnCommitBuildRun
             \/ patchOnCommitTriggered
    BY <1>2, WaitSettles, DuplicateSettles, ActiveSettles, OnCommitSettles, TriggerSettles, Zenon
  <1>3. CASE getLastBuildRun \/ ensureBuildRun \/ patchBuildRunCounter \/ recordBuildSpec
    BY <1>3, LastRunSettles, DriftSettles, CounterSettles, RecordSettles, Zenon
  <1>4. CASE patchBuildSucceededCondition \/ patchReadyCondition \/ patchLatestImage
             \/ setNotReady
    BY <1>4, SucceededSettles, ReadySettles, ImageSettles, NotReadySettles, Zenon
  <1>. QED
    BY <1>1, <1>2, <1>3, <1>4, Zenon DEF Reconcile

-----------------------------------------------------------------------------
(* The steps outside the reconcile.                                        *)

(* How far a reconcile has come does not depend on the rest.               *)
LEMMA StageRemains ==
    ASSUME CalmStage, UNCHANGED <<srv, pc, loc, br, fail>>, SameView,
           faults' = 0 => faults = 0, crashes' = 0 => crashes = 0
    PROVE  CalmStage'
  <1>0. /\ BuildIsWanted(loc) => BuildIsWanted(loc)'
        /\ NameConflict(loc) => NameConflict(loc)'
        /\ DOMAIN OwnIn(cacheRuns)' = DOMAIN OwnIn(cacheRuns)
    BY SameOwnRuns DEF SameView, BuildIsWanted, NameConflict
  <1>1. /\ BuildIsWanted(loc) => BuildIsWanted(loc)'
        /\ PushHandled(loc) => PushHandled(loc)'
        /\ GaveUp(loc) => GaveUp(loc)'
    BY <1>0 DEF GaveUp, SameView, PushHandled
  <1>2. pc' = "notReady" /\ ~fail'.requeue => GaveUp(loc)'
    BY <1>1, Zenon DEF CalmStage
  <1>3. /\ loc' = srv' /\ pc' # "default"
        /\ pc' \in AfterLabel => loc'.label = desiredLabel(loc')
        /\ pc' \in AfterBuild => BuildIsWanted(loc)'
        /\ pc' \in AfterBuildRef => loc'.obsGen = loc'.gen
        /\ pc' = "record" => PushHandled(loc)'
        /\ pc' = "image" => readyUpToDate(loc')
    BY <1>1 DEF CalmStage
  <1>4. /\ pc' \in {"status", "ready", "image"} =>
             PushHandled(loc)' \/ (br'.name # NoRun /\ isActiveBuildRun(br'))
        /\ pc' \in {"ready", "image"} =>
             IF br'.name = NoRun THEN loc'.lastRun \notin DOMAIN OwnIn(cacheRuns)'
             ELSE /\ loc'.lastRun = br'.name
                  /\ loc'.conds.succeeded.reason = deriveBuildSucceededStatus(br')
    BY <1>0, <1>1 DEF CalmStage
  <1>. QED
    BY <1>2, <1>3, <1>4, Zenon DEF CalmStage

(* A step the operator does not see, or one that shows it nothing of its   *)
(* own.                                                                    *)
LEMMA UnseenAside ==
    ASSUME SettledInv, UNCHANGED <<cache, queued, pc, loc, br, fail>>, SameView,
           build' = build \/ (build'.owner = "foreign" /\ build.owner # "own"),
           lag' = 0 => lag = 0 /\ srv' = srv, srv'.conds = srv.conds,
           faults' = 0 => faults = 0, crashes' = 0 => crashes = 0
    PROVE  /\ CacheIsCurrent' /\ CalmIsSettled' /\ PatchesAreDue' /\ HeldIsCached'
           /\ NoBuildStops'
  <1>0. TypeOK /\ SettlingInv
    BY SettledTypes
  <1>1. CacheIsCurrent'
    BY <1>0 DEF SettlingInv, CacheIsCurrent
  <1>2. CalmIsSettled'
    <2>. SUFFICES ASSUME Calm' PROVE CalmIsSettled'
      BY Zenon DEF CalmIsSettled
    <2>1. Calm /\ srv' = srv
      BY Zenon DEF Calm
    <2>2. CASE pc = "idle"
      BY <1>0, <2>1, <2>2, RestStays, Zenon DEF SettlingInv, CalmIsSettled
    <2>3. CASE pc # "idle"
      BY <1>0, <2>1, <2>3, StageRemains, Zenon DEF SettlingInv, CalmIsSettled
    <2>. QED
      BY <2>2, <2>3
  <1>3. PatchesAreDue'
    BY <1>0 DEF SettlingInv, PatchesAreDue
  <1>4. HeldIsCached'
    <2>1. /\ DOMAIN OwnIn(cacheRuns)' = DOMAIN OwnIn(cacheRuns)
          /\ \A n \in DOMAIN OwnIn(cacheRuns) : cacheRuns'[n] = cacheRuns[n]
      BY SameOwnRuns
    <2>2. HeldIsCached
      BY <1>0, Zenon DEF SettlingInv
    <2>. QED
      BY <2>1, <2>2, Zenon DEF HeldIsCached
  <1>5. NoBuildStops'
    BY <1>0 DEF SettlingInv, NoBuildStops, Healthy, SameView
  <1>. QED
    BY <1>1, <1>2, <1>3, <1>4, <1>5

(* No step outside the reconcile makes an owned BuildRun or a trigger.     *)
LEMMA TriggersKept ==
    ASSUME TriggersRecorded, UNCHANGED <<pc, br, cacheRuns>>, srv'.trigCounter = srv.trigCounter,
           \A n \in DOMAIN runs' : n \in DOMAIN runs /\ runs'[n].own = runs[n].own,
           faults' = 0 => faults = 0, crashes' = 0 => crashes = 0
    PROVE  TriggersRecorded'
  BY DEF TriggersRecorded

(* The informers catch up and queue the ImageBuild.                        *)
LEMMA SyncSettles ==
    ASSUME SettledInv, queued', UNCHANGED <<srv, runs, build, pc, loc, br, fail, hooks, faults, crashes>>,
           cache' \in {cache, srv}, cacheRuns' \in {cacheRuns, runs},
           cacheBuild' \in {cacheBuild, build},
           lag' = 0 => cache' = srv \/ UNCHANGED <<lag, cache>>
    PROVE  SettlingInv'
  <1>0. TypeOK /\ SettlingInv
    BY SettledTypes
  <1>1. CacheIsCurrent'
    BY <1>0 DEF SettlingInv, CacheIsCurrent
  <1>2. CalmIsSettled'
    BY Zenon DEF CalmIsSettled, Calm
  <1>3. PatchesAreDue'
    BY <1>0 DEF SettlingInv, PatchesAreDue
  <1>4. HeldIsCached'
    BY <1>0, Zenon DEF SettlingInv, HeldIsCached
  <1>5. DigestsSucceed' /\ TriggersRecorded'
    <2>1. CASE cacheRuns' = cacheRuns
      BY <1>0, <2>1 DEF SettlingInv, DigestsSucceed, TriggersRecorded
    <2>2. CASE cacheRuns' = runs
      BY <1>0, <2>2 DEF SettlingInv, DigestsSucceed, TriggersRecorded
    <2>. QED
      BY <2>1, <2>2
  <1>6. PushesWanted'
    <2>1. cache'.rebuild => cache.rebuild \/ srv.rebuild
      BY Zenon
    <2>. QED
      BY <1>0, <2>1, Zenon DEF SettlingInv, PushesWanted
  <1>7. NoBuildStops'
    BY <1>0 DEF SettlingInv, NoBuildStops, Healthy
  <1>. QED
    BY <1>1, <1>2, <1>3, <1>4, <1>5, <1>6, <1>7, Zenon DEF SettlingInv

(* A change of BuildRuns of others alone does not queue the ImageBuild.    *)
LEMMA QuietRunsSettle ==
    ASSUME SettledInv, SyncRuns, OwnIn(runs) = OwnIn(cacheRuns)
    PROVE  SettlingInv'
  <1>0. TypeOK /\ SettlingInv /\ OwnershipInv
    BY SettledTypes DEF SettledInv
  <1>1. UNCHANGED <<srv, runs, build, cache, cacheBuild, lag, hooks, faults, crashes,
                    pc, loc, br, fail>> /\ cacheRuns' = runs
    BY DEF SyncRuns, cluster, versions, webhook, bounds
  <1>2. queued' = queued
    <2>1. queued' = (queued \/ OwnIn(runs) # OwnIn(cacheRuns)) /\ queued \in BOOLEAN
      BY <1>0 DEF SyncRuns, TypeOK
    <2>. QED
      BY <2>1
  <1>3. SameView
    <2>1. OwnIn(cacheRuns)' = OwnIn(cacheRuns)
      BY <1>1 DEF OwnIn
    <2>2. \A n \in DOMAIN cacheRuns : ~cacheRuns[n].own => n \in DOMAIN runs /\ ~runs[n].own
      BY <1>0 DEF OwnershipInv, Owned
    <2>. QED
      BY <1>1, <2>1, <2>2 DEF SameView
  <1>4. /\ CacheIsCurrent' /\ CalmIsSettled' /\ PatchesAreDue' /\ HeldIsCached'
        /\ NoBuildStops'
    <2>1. (lag' = 0 => lag = 0 /\ srv' = srv) /\ srv'.conds = srv.conds
          /\ (faults' = 0 => faults = 0) /\ (crashes' = 0 => crashes = 0) /\ build' = build
      BY <1>1
    <2>. QED
      BY <1>1, <1>2, <1>3, <2>1, UnseenAside
  <1>5. DigestsSucceed' /\ TriggersRecorded'
    BY <1>0, <1>1 DEF SettlingInv, DigestsSucceed, TriggersRecorded
  <1>6. PushesWanted'
    BY <1>0, <1>1, Zenon DEF SettlingInv, PushesWanted
  <1>. QED
    BY <1>4, <1>5, <1>6, Zenon DEF SettlingInv

(* Nor does a Build that is not and was not the ImageBuild's.  If it is new*)
(* to the cache it has just become somebody else's, and the reconcile has  *)
(* stopped at it.                                                          *)
LEMMA QuietBuildSettles ==
    ASSUME SettledInv, SyncBuild, "own" \notin {build.owner, cacheBuild.owner}
    PROVE  SettlingInv'
  <1>0. TypeOK /\ SettlingInv /\ OwnershipInv
    BY SettledTypes DEF SettledInv
  <1>1. UNCHANGED <<srv, runs, build, cache, cacheRuns, lag, hooks, faults, crashes,
                    pc, loc, br, fail>> /\ cacheBuild' = build
    BY DEF SyncBuild, cluster, versions, webhook, bounds
  <1>2. queued' = queued
    <2>1. queued' = (queued \/ "own" \in {build.owner, cacheBuild.owner}) /\ queued \in BOOLEAN
      BY <1>0 DEF SyncBuild, TypeOK
    <2>. QED
      BY <2>1
  <1>3. build.owner = "foreign"
    BY <1>0 DEF SyncBuild, OwnershipInv, TypeOK, Build
  <1>4. pc \notin AfterBuild /\ ~Healthy
    BY <1>0, <1>3 DEF SettlingInv, NoBuildStops
  <1>6. CalmIsSettled'
    <2>. SUFFICES ASSUME Calm' PROVE CalmIsSettled'
      BY Zenon DEF CalmIsSettled
    <2>1. IF pc = "idle" THEN CalmRest ELSE CalmStage
      BY <1>0, <1>1, <1>2, Zenon DEF Calm, SettlingInv, CalmIsSettled
    <2>2. CASE pc = "idle"
      <3>1. CalmRest /\ ~readyUpToDate(srv)
        BY <1>4, <2>1, <2>2 DEF readyUpToDate, Healthy
      <3>2. srv'.label = desiredLabel(srv') /\ (faults' = 0 => ~Healthy')
        BY <1>1, <3>1 DEF CalmRest, Healthy
      <3>3. GaveUp(srv)'
        BY <1>1, <1>3 DEF GaveUp
      <3>4. CalmRest'
        BY <3>2, <3>3, Zenon DEF CalmRest
      <3>. QED
        BY <1>1, <2>2, <3>4, Zenon DEF CalmIsSettled
    <2>3. CASE pc # "idle"
      <3>1. /\ loc' = srv' /\ pc' # "default" /\ pc' # "idle"
            /\ pc' \in AfterLabel => loc'.label = desiredLabel(loc')
        BY <1>1, <2>1, <2>3 DEF CalmStage
      <3>2. pc' \notin AfterBuild /\ pc' \notin AfterBuildRef
            /\ pc' \notin {"record", "status", "ready", "image"}
        BY <1>1, <1>4 DEF AfterBuildRef, AfterBuild, AfterLabel, PC
      <3>3. GaveUp(loc)'
        BY <1>1, <1>3 DEF GaveUp
      <3>4. CalmStage'
        BY <3>1, <3>2, <3>3 DEF CalmStage
      <3>. QED
        BY <3>1, <3>4, Zenon DEF CalmIsSettled
    <2>. QED
      BY <2>2, <2>3
  <1>7. CacheIsCurrent' /\ PatchesAreDue'
    BY <1>0, <1>1 DEF SettlingInv, CacheIsCurrent, PatchesAreDue
  <1>8. HeldIsCached'
    <2>1. UNCHANGED OwnIn(cacheRuns)
      BY <1>1 DEF OwnIn
    <2>. QED
      BY <1>0, <1>1, <1>2, <2>1, Zenon DEF SettlingInv, HeldIsCached
  <1>9. DigestsSucceed' /\ TriggersRecorded'
    BY <1>0, <1>1 DEF SettlingInv, DigestsSucceed, TriggersRecorded
  <1>10. PushesWanted'
    BY <1>0, <1>1, Zenon DEF SettlingInv, PushesWanted
  <1>11. NoBuildStops'
    BY <1>1, <1>3, <1>4 DEF NoBuildStops, Healthy
  <1>. QED
    BY <1>6, <1>7, <1>8, <1>9, <1>10, <1>11, Zenon DEF SettlingInv

(* The next leader lists everything and queues the ImageBuild.             *)
LEMMA CrashSettles == ASSUME SettledInv, Crash PROVE SettlingInv'
  <1>0. TypeOK /\ SettlingInv
    BY SettledTypes
  <1>1. /\ cache' = srv /\ cacheRuns' = runs /\ cacheBuild' = build
        /\ pc' = "idle" /\ br' = NoHeldRun /\ hooks' = {}
        /\ UNCHANGED <<srv, runs, build>> /\ crashes' = crashes + 1
    BY DEF Crash, cluster
  <1>2. queued'
    BY Zenon DEF Crash
  <1>3. CalmIsSettled'
    BY <1>2, Zenon DEF CalmIsSettled, Calm
  <1>4. CacheIsCurrent' /\ PatchesAreDue'
    BY <1>1 DEF CacheIsCurrent, PatchesAreDue
  <1>5. HeldIsCached'
    BY <1>1, <1>2, Zenon DEF HeldIsCached
  <1>6. DigestsSucceed'
    BY <1>0, <1>1 DEF SettlingInv, DigestsSucceed
  <1>7. TriggersRecorded'
    BY <1>0, <1>1 DEF TriggersRecorded, TypeOK
  <1>8. PushesWanted'
    BY <1>0, <1>1, Zenon DEF SettlingInv, PushesWanted
  <1>9. NoBuildStops'
    BY <1>0, <1>1 DEF SettlingInv, NoBuildStops, Healthy, AfterBuild, AfterLabel
  <1>. QED
    BY <1>3, <1>4, <1>5, <1>6, <1>7, <1>8, <1>9, Zenon DEF SettlingInv

(* A version the informer has not delivered yet ends the calm.             *)
LEMMA NewVersion ==
    ASSUME TypeOK, Version
    PROVE  lag' = 0 => lag = 0 /\ srv' = srv
  BY DEF Version, TypeOK

(* A step that leaves the BuildRuns and the triggers alone.                *)
LEMMA ElsewhereSettles ==
    ASSUME SettledInv,
           UNCHANGED <<runs, build, cache, cacheRuns, cacheBuild, queued, pc, loc, br, fail>>,
           lag' = 0 => lag = 0 /\ srv' = srv, srv'.conds = srv.conds,
           srv'.trigCounter = srv.trigCounter,
           faults' = 0 => faults = 0, crashes' = 0 => crashes = 0,
           PushesWanted'
    PROVE  SettlingInv'
  <1>0. SettlingInv
    BY SettledTypes
  <1>1. /\ CacheIsCurrent' /\ CalmIsSettled' /\ PatchesAreDue' /\ HeldIsCached'
        /\ NoBuildStops'
    BY ViewKept, UnseenAside
  <1>2. DigestsSucceed'
    BY <1>0, DigestsStay DEF SettlingInv
  <1>3. TriggersRecorded'
    BY <1>0, TriggersKept DEF SettlingInv
  <1>. QED
    BY <1>1, <1>2, <1>3, Zenon DEF SettlingInv

(* A request for a push to an ImageBuild with rebuild enabled.             *)
LEMMA ReceiveSettles ==
    ASSUME SettledInv, NEW c \in Commits, WebhookReceives(c)
    PROVE  SettlingInv'
  <1>0. TypeOK /\ SettlingInv
    BY SettledTypes
  <1>1. UNCHANGED <<cluster, caches, reconcile, versions, bounds>>
    BY DEF WebhookReceives
  <1>2. UNCHANGED <<srv, runs, build, cache, cacheRuns, cacheBuild, lag, faults, crashes>>
    BY <1>1 DEF cluster, caches, versions, bounds
  <1>3. UNCHANGED <<queued, pc, loc, br, fail>>
    BY <1>1, Zenon DEF reconcile
  <1>4. PushesWanted'
    <2>1. cache.rebuild
      BY Zenon DEF WebhookReceives
    <2>2. srv.rebuild /\ cache' = cache /\ srv' = srv
      BY <1>0, <1>2, <2>1, Zenon DEF SettlingInv, PushesWanted
    <2>3. ASSUME NEW h \in hooks' PROVE h.at # 0
      <3>1. deliveries' # 0 /\ hooks' = hooks \cup {[commit |-> c, at |-> deliveries',
                             pending |-> cache.pending, lastReceived |-> cache.lastReceived]}
        BY <1>0 DEF WebhookReceives, TypeOK
      <3>2. \A g \in hooks : g.at # 0
        BY <1>0, Zenon DEF SettlingInv, PushesWanted
      <3>. QED
        BY <2>3, <3>1, <3>2
    <2>4. srv.pending.at = 0 => srv.pending = NoEvent
      BY <1>0, Zenon DEF SettlingInv, PushesWanted
    <2>. QED
      BY <2>2, <2>3, <2>4, Zenon DEF PushesWanted
  <1>5. lag' = 0 => lag = 0 /\ srv' = srv
    BY <1>2
  <1>6. srv'.conds = srv.conds /\ srv'.trigCounter = srv.trigCounter
        /\ (faults' = 0 => faults = 0) /\ (crashes' = 0 => crashes = 0)
    BY <1>2
  <1>. QED
    BY <1>2, <1>3, <1>4, <1>5, <1>6, ElsewhereSettles, Zenon

(* A push recorded is one that was received.                               *)
LEMMA RecordPushSettles ==
    ASSUME SettledInv, NEW h \in hooks, WebhookPatches(h)
    PROVE  SettlingInv'
  <1>. DEFINE event == [commit |-> h.commit, at |-> h.at]
              merged == MergeEvent(srv.pending, h.pending, event)
  <1>0. TypeOK /\ SettlingInv
    BY SettledTypes
  <1>1. /\ UNCHANGED <<runs, build, caches, reconcile, faults, crashes>> /\ Version
        /\ hooks' = hooks \ {h}
    BY Zenon DEF WebhookPatches, bounds
  <1>2. UNCHANGED <<cache, cacheRuns, cacheBuild>>
    BY <1>1 DEF caches
  <1>3. UNCHANGED <<queued, pc, loc, br, fail>>
    BY <1>1, Zenon DEF reconcile
  <1>4. /\ srv'.conds = srv.conds /\ srv'.trigCounter = srv.trigCounter
        /\ srv'.rebuild = srv.rebuild /\ srv'.pending = merged
    BY <1>0 DEF WebhookPatches, TypeOK, ImageBuild
  <1>5. merged.at = h.at
    BY DEF MergeEvent
  <1>. HIDE DEF merged
  <1>6. PushesWanted'
    <2>1. srv.rebuild /\ h.at # 0
      BY <1>0, Zenon DEF SettlingInv, PushesWanted
    <2>2. srv'.rebuild /\ srv'.pending.at # 0
      <3>1. srv'.pending.at = h.at
        BY <1>4, <1>5
      <3>. QED
        BY <1>4, <2>1, <3>1, Zenon
    <2>3. \A g \in hooks' : g.at # 0
      <3>1. \A g \in hooks : g.at # 0
        BY <1>0, Zenon DEF SettlingInv, PushesWanted
      <3>. QED
        BY <1>1, <3>1
    <2>. QED
      BY <2>2, <2>3, Zenon DEF PushesWanted
  <1>7. (lag' = 0 => lag = 0 /\ srv' = srv)
        /\ (faults' = 0 => faults = 0) /\ (crashes' = 0 => crashes = 0)
    BY <1>0, <1>1, NewVersion
  <1>. QED
    BY <1>1, <1>2, <1>3, <1>4, <1>6, <1>7, ElsewhereSettles, Zenon

(* A push lost to a failed write.                                          *)
LEMMA LosePushSettles ==
    ASSUME SettledInv, NEW h \in hooks, WebhookFails(h)
    PROVE  SettlingInv'
  <1>0. TypeOK /\ SettlingInv
    BY SettledTypes
  <1>1. /\ UNCHANGED <<cluster, caches, reconcile, versions, crashes>>
        /\ Fault /\ hooks' = hooks \ {h}
    BY DEF WebhookFails
  <1>2. UNCHANGED <<srv, runs, build, cache, cacheRuns, cacheBuild, lag>>
    BY <1>1 DEF cluster, caches, versions
  <1>3. UNCHANGED <<queued, pc, loc, br, fail>>
    BY <1>1, Zenon DEF reconcile
  <1>4. PushesWanted'
    <2>1. hooks' \subseteq hooks /\ hooks # {}
      BY <1>1
    <2>. QED
      BY <1>0, <1>2, <2>1, Zenon DEF SettlingInv, PushesWanted
  <1>5. /\ lag' = 0 => lag = 0 /\ srv' = srv
        /\ srv'.conds = srv.conds /\ srv'.trigCounter = srv.trigCounter
        /\ faults' = 0 => faults = 0
        /\ crashes' = 0 => crashes = 0
    BY <1>0, <1>1, <1>2 DEF Fault, TypeOK
  <1>. QED
    BY <1>2, <1>3, <1>4, <1>5, ElsewhereSettles, Zenon

(* The user edits the spec; rebuild is never disabled.                     *)
LEMMA EditSettles ==
    ASSUME SettledInv,
           UserEnablesRebuild \/ \E i \in Inputs : UserEdits(i)
    PROVE  SettlingInv'
  <1>0. TypeOK /\ SettlingInv
    BY SettledTypes
  <1>1. UNCHANGED <<runs, build, caches, reconcile, webhook, bounds>> /\ Version
    BY Zenon DEF UserEnablesRebuild, UserEdits
  <1>2. UNCHANGED <<cache, cacheRuns, cacheBuild, hooks, faults, crashes>>
    BY <1>1 DEF caches, webhook, bounds
  <1>3. UNCHANGED <<queued, pc, loc, br, fail>>
    BY <1>1, Zenon DEF reconcile
  <1>4. /\ srv'.conds = srv.conds /\ srv'.trigCounter = srv.trigCounter
        /\ srv'.pending = srv.pending
        /\ srv'.rebuild = TRUE \/ srv'.rebuild = srv.rebuild
    BY <1>0 DEF UserEnablesRebuild, UserEdits, TypeOK, ImageBuild
  <1>5. PushesWanted'
    <2>1. srv.rebuild => srv'.rebuild
      BY <1>4, Zenon
    <2>. QED
      BY <1>0, <1>2, <1>4, <2>1, Zenon DEF SettlingInv, PushesWanted
  <1>6. (lag' = 0 => lag = 0 /\ srv' = srv)
        /\ (faults' = 0 => faults = 0) /\ (crashes' = 0 => crashes = 0)
    BY <1>0, <1>1, <1>2, NewVersion
  <1>. QED
    BY <1>1, <1>2, <1>3, <1>4, <1>5, <1>6, ElsewhereSettles, Zenon

(* Time passes, or what was missing appears.                               *)
LEMMA TimeSettles ==
    ASSUME SettledInv, DependencyAppears \/ DebounceElapses \/ IntervalElapses \/ UNCHANGED vars
    PROVE  SettlingInv'
  <1>0. TypeOK /\ SettlingInv
    BY SettledTypes
  <1>1. UNCHANGED <<srv, runs, build, caches, reconcile, lag, webhook, faults, crashes>>
    BY DEF DependencyAppears, DebounceElapses, IntervalElapses, vars, cluster, versions, bounds
  <1>2. UNCHANGED <<cache, cacheRuns, cacheBuild, hooks>>
    BY <1>1 DEF caches, webhook
  <1>3. UNCHANGED <<queued, pc, loc, br, fail>>
    BY <1>1, Zenon DEF reconcile
  <1>4. PushesWanted'
    BY <1>0, <1>1, <1>2, Zenon DEF SettlingInv, PushesWanted
  <1>5. (lag' = 0 => lag = 0 /\ srv' = srv)
        /\ srv'.conds = srv.conds /\ srv'.trigCounter = srv.trigCounter
        /\ (faults' = 0 => faults = 0) /\ (crashes' = 0 => crashes = 0)
    BY <1>1
  <1>. QED
    BY <1>1, <1>2, <1>3, <1>4, <1>5, ElsewhereSettles, Zenon

(* A BuildRun has a digest only when it has succeeded.                     *)
LEMMA RunDigests ==
    ASSUME TypeOK, DigestsSucceed, NEW n \in DOMAIN runs,
           RunStarts(n) \/ RunFinishes(n) \/ RunDeleted(n)
    PROVE  /\ \A m \in DOMAIN runs' : runs'[m].digest => runs'[m].phase = "succeeded"
           /\ \A m \in DOMAIN runs' : m \in DOMAIN runs /\ runs'[m].own = runs[m].own
  <1>1. \A m \in DOMAIN runs : runs[m].digest => runs[m].phase = "succeeded"
    BY Zenon DEF DigestsSucceed
  <1>2. CASE RunDeleted(n)
    <2>1. \A m \in DOMAIN runs' : m \in DOMAIN runs /\ runs'[m] = runs[m]
      BY <1>2 DEF RunDeleted
    <2>. QED
      BY <1>1, <2>1, Zenon
  <1>3. ASSUME NEW r, runs' = [runs EXCEPT ![n] = r], r.own = runs[n].own,
               r.digest => r.phase = "succeeded"
        PROVE  /\ \A m \in DOMAIN runs' : runs'[m].digest => runs'[m].phase = "succeeded"
               /\ \A m \in DOMAIN runs' : m \in DOMAIN runs /\ runs'[m].own = runs[m].own
    <2>1. /\ DOMAIN runs' = DOMAIN runs /\ runs'[n] = r
          /\ \A m \in DOMAIN runs : m # n => runs'[m] = runs[m]
      BY <1>3
    <2>. QED
      BY <1>1, <1>3, <2>1, Zenon
  <1>4. CASE RunStarts(n)
    <2>. DEFINE r == [runs[n] EXCEPT !.phase = "running", !.built = build.inputs]
    <2>1. runs' = [runs EXCEPT ![n] = r] /\ runs[n].phase = "pending"
      BY <1>4, Zenon DEF RunStarts
    <2>2. r.own = runs[n].own /\ r.digest = runs[n].digest
      BY DEF TypeOK, Run
    <2>3. ~runs[n].digest
      BY <1>1, <2>1
    <2>4. ~r.digest
      <3>. HIDE DEF r
      <3>. QED
        BY <2>2, <2>3, Zenon
    <2>. HIDE DEF r
    <2>. QED
      BY <1>3, <2>1, <2>2, <2>4, Zenon
  <1>5. CASE RunFinishes(n)
    <2>1. PICK result \in RunResults :
            runs' = [runs EXCEPT ![n] = [runs[n] EXCEPT
                       !.phase  = IF result = "failed" THEN "failed" ELSE "succeeded",
                       !.digest = (result = "digest")]]
      BY <1>5, Zenon DEF RunFinishes
    <2>. DEFINE r == [runs[n] EXCEPT
                        !.phase  = IF result = "failed" THEN "failed" ELSE "succeeded",
                        !.digest = (result = "digest")]
    <2>2. r.own = runs[n].own
      BY DEF TypeOK, Run
    <2>3. r.phase = (IF result = "failed" THEN "failed" ELSE "succeeded")
          /\ r.digest = (result = "digest")
      BY DEF TypeOK, Run
    <2>4. runs' = [runs EXCEPT ![n] = r]
      BY <2>1, Zenon
    <2>. HIDE DEF r
    <2>5. r.digest => result = "digest"
      BY <2>3, Zenon
    <2>6. result = "digest" => r.phase = "succeeded"
      BY <2>3
    <2>7. r.digest => r.phase = "succeeded"
      BY <2>5, <2>6, Zenon
    <2>. QED
      BY <1>3, <2>2, <2>4, <2>7, Zenon
  <1>. QED
    BY <1>2, <1>4, <1>5

(* Shipwright runs a BuildRun, or retention removes it.                    *)
LEMMA RunSettles ==
    ASSUME SettledInv, NEW n \in DOMAIN runs,
           RunStarts(n) \/ RunFinishes(n) \/ RunDeleted(n)
    PROVE  SettlingInv'
  <1>0. TypeOK /\ SettlingInv
    BY SettledTypes
  <1>1. UNCHANGED <<srv, build, caches, reconcile, lag, webhook, faults, crashes>>
    BY DEF RunStarts, RunFinishes, RunDeleted, versions, bounds
  <1>2. UNCHANGED <<cache, cacheRuns, cacheBuild, hooks>>
    BY <1>1 DEF caches, webhook
  <1>3. UNCHANGED <<queued, pc, loc, br, fail>>
    BY <1>1, Zenon DEF reconcile
  <1>4. /\ CacheIsCurrent' /\ CalmIsSettled' /\ PatchesAreDue' /\ HeldIsCached'
        /\ NoBuildStops'
    <2>1. (lag' = 0 => lag = 0 /\ srv' = srv)
          /\ srv'.conds = srv.conds /\ build' = build
          /\ (faults' = 0 => faults = 0) /\ (crashes' = 0 => crashes = 0)
      BY <1>1
    <2>2. SameView
      BY <1>1, <1>2, ViewKept
    <2>. QED
      BY <1>1, <1>2, <1>3, <2>1, <2>2, UnseenAside, Zenon
  <1>5. /\ \A m \in DOMAIN runs' : runs'[m].digest => runs'[m].phase = "succeeded"
        /\ \A m \in DOMAIN runs' : m \in DOMAIN runs /\ runs'[m].own = runs[m].own
    BY <1>0, RunDigests, Zenon DEF SettlingInv
  <1>6. DigestsSucceed'
    BY <1>0, <1>2, <1>5, Zenon DEF DigestsSucceed, SettlingInv
  <1>7. TriggersRecorded'
    <2>1. /\ (faults' = 0 => faults = 0) /\ (crashes' = 0 => crashes = 0)
          /\ srv'.trigCounter = srv.trigCounter
      BY <1>1
    <2>. QED
      BY <1>0, <1>2, <1>3, <1>5, <2>1, TriggersKept, Zenon DEF SettlingInv
  <1>8. PushesWanted'
    BY <1>0, <1>1, <1>2, Zenon DEF SettlingInv, PushesWanted
  <1>. QED
    BY <1>4, <1>6, <1>7, <1>8, Zenon DEF SettlingInv

(* Somebody else takes a name, which the operator has yet to see.          *)
LEMMA ForeignSettles ==
    ASSUME SettledInv, ForeignBuildAppears \/ \E n \in LaterForeign : ForeignRunAppears(n)
    PROVE  SettlingInv'
  <1>0. TypeOK /\ SettlingInv
    BY SettledTypes
  <1>1. UNCHANGED <<srv, caches, reconcile, lag, webhook, faults, crashes>>
    BY DEF ForeignBuildAppears, ForeignRunAppears, versions, bounds
  <1>2. UNCHANGED <<cache, cacheRuns, cacheBuild, hooks>>
    BY <1>1 DEF caches, webhook
  <1>3. UNCHANGED <<queued, pc, loc, br, fail>>
    BY <1>1, Zenon DEF reconcile
  <1>4. \/ UNCHANGED build
        \/ build'.owner = "foreign" /\ build.owner \in {"absent", "orphan"}
    BY <1>0 DEF ForeignBuildAppears, ForeignRunAppears, TypeOK, Build
  <1>5. \/ UNCHANGED runs
        \/ \E n \in LaterForeign : n \notin DOMAIN runs /\ runs' = WithRun(n, foreignRun)
    BY DEF ForeignBuildAppears, ForeignRunAppears
  <1>6. ~foreignRun.own /\ ~foreignRun.digest
    BY DEF foreignRun, newBuildRun
  <1>7. /\ CacheIsCurrent' /\ CalmIsSettled' /\ PatchesAreDue' /\ HeldIsCached'
        /\ NoBuildStops'
    <2>1. (lag' = 0 => lag = 0 /\ srv' = srv) /\ srv'.conds = srv.conds
          /\ (faults' = 0 => faults = 0) /\ (crashes' = 0 => crashes = 0)
      BY <1>1
    <2>2. cacheBuild' = build' => build' = build
      BY <1>0, <1>2, <1>4 DEF SettlingInv, NoBuildStops
    <2>3. OwnIn(cacheRuns)' = OwnIn(cacheRuns)
      BY <1>2 DEF OwnIn
    <2>4. SameView
      BY <1>2, <2>2, <2>3 DEF SameView
    <2>5. build' = build \/ (build'.owner = "foreign" /\ build.owner # "own")
      BY <1>4
    <2>. QED
      BY <1>1, <1>2, <1>3, <2>1, <2>4, <2>5, UnseenAside, Zenon
  <1>8. DigestsSucceed' /\ TriggersRecorded'
    <2>1. \A m \in DOMAIN runs' :
            \/ m \in DOMAIN runs /\ runs'[m] = runs[m]
            \/ ~runs'[m].own /\ ~runs'[m].digest
      BY <1>5, <1>6 DEF WithRun
    <2>2. DigestsSucceed /\ TriggersRecorded
      BY <1>0 DEF SettlingInv
    <2>. QED
      BY <1>1, <1>2, <1>3, <2>1, <2>2 DEF DigestsSucceed, TriggersRecorded
  <1>9. PushesWanted'
    BY <1>0, <1>1, <1>2, Zenon DEF SettlingInv, PushesWanted
  <1>. QED
    BY <1>7, <1>8, <1>9, Zenon DEF SettlingInv

(* Every step of the rest of the operator's process.                       *)
LEMMA OperatorSettles == ASSUME SettledInv, Operator PROVE SettlingInv'
  <1>1. ASSUME SyncImageBuild \/ SyncRuns \/ SyncBuild, queued' PROVE SettlingInv'
    <2>1. queued'
      BY <1>1
    <2>2. UNCHANGED <<srv, runs, build, pc, loc, br, fail, hooks, faults, crashes>>
      <3>1. UNCHANGED <<cluster, webhook, bounds>>
        BY <1>1 DEF SyncImageBuild, SyncRuns, SyncBuild
      <3>2. UNCHANGED <<pc, loc, br, fail>>
        BY <1>1 DEF SyncImageBuild, SyncRuns, SyncBuild
      <3>. QED
        BY <3>1, <3>2 DEF cluster, webhook, bounds
    <2>3. /\ cache' \in {cache, srv} /\ cacheRuns' \in {cacheRuns, runs}
          /\ cacheBuild' \in {cacheBuild, build}
          /\ lag' = 0 => cache' = srv \/ UNCHANGED <<lag, cache>>
      BY <1>1 DEF SyncImageBuild, SyncRuns, SyncBuild, versions
    <2>. QED
      BY <2>1, <2>2, <2>3, SyncSettles, Zenon
  <1>2. ASSUME SyncImageBuild \/ SyncRuns \/ SyncBuild, ~queued' PROVE SettlingInv'
    <2>1. ~SyncImageBuild
      BY <1>2, Zenon DEF SyncImageBuild
    <2>2. SyncRuns => OwnIn(runs) = OwnIn(cacheRuns)
      BY <1>2, Zenon DEF SyncRuns
    <2>3. SyncBuild => "own" \notin {build.owner, cacheBuild.owner}
      BY <1>2, Zenon DEF SyncBuild
    <2>. QED
      BY <1>2, <2>1, <2>2, <2>3, QuietRunsSettle, QuietBuildSettles, Zenon
  <1>. QED
    BY <1>1, <1>2, CrashSettles, ReceiveSettles, RecordPushSettles, LosePushSettles, Zenon
       DEF Operator

(* Every step of the cluster outside the operator.                         *)
LEMMA EnvironmentSettles == ASSUME SettledInv, Environment PROVE SettlingInv'
  <1>1. CASE UserEnablesRebuild \/ \E i \in Inputs : UserEdits(i)
    BY <1>1, EditSettles, Zenon
  <1>2. CASE DependencyAppears \/ DebounceElapses \/ IntervalElapses
    BY <1>2, TimeSettles, Zenon
  <1>3. CASE \E n \in DOMAIN runs : RunStarts(n) \/ RunFinishes(n) \/ RunDeleted(n)
    BY <1>3, RunSettles, Zenon
  <1>4. CASE ForeignBuildAppears \/ \E n \in LaterForeign : ForeignRunAppears(n)
    BY <1>4, ForeignSettles, Zenon
  <1>. QED
    BY <1>1, <1>2, <1>3, <1>4, Zenon DEF Environment

-----------------------------------------------------------------------------
(* The invariant.                                                          *)

(* The invariant is inductive, on top of the numbering and the ownership.  *)
LEMMA SettledStep == SettledInv /\ [Next]_vars => SettledInv'
  <1>. SUFFICES ASSUME SettledInv, [Next]_vars PROVE SettledInv'
    OBVIOUS
  <1>1. NumberingInv'
    BY NumberingStep DEF SettledInv
  <1>2. OwnershipInv'
    BY <1>1, SettledTypes, NextKeeps, KeptOwnership, Zenon
       DEF SettledInv, NumberingInv, CountersInv
  <1>3. SettlingInv'
    BY ReconcileSettles, OperatorSettles, EnvironmentSettles, TimeSettles, Zenon DEF Next
  <1>. QED
    BY <1>1, <1>2, <1>3, Zenon DEF SettledInv

(* Whatever the operator finds at the start has finished.                  *)
LEMMA InitRuns ==
    ASSUME Init
    PROVE  /\ \A n \in DOMAIN runs : runs[n].phase = "succeeded"
           /\ srv.pending = NoEvent
           /\ build.owner # "own" => ~Healthy
  <1>1. foreignRun.phase = "succeeded"
    BY DEF foreignRun, newBuildRun
  <1>2. CASE InitCreated
    <2>1. \A n \in DOMAIN runs : runs[n].phase = "succeeded"
      BY <1>1, <1>2 DEF InitCreated
    <2>2. srv.pending = NoEvent /\ srv.conds.ready = NoCondition
      BY <1>2 DEF InitCreated, NewImageBuild
    <2>3. ~Healthy
      BY <2>2 DEF Healthy, NoCondition
    <2>. QED
      BY <2>1, <2>2, <2>3
  <1>3. CASE InitSettled
    <2>1. \A n \in DOMAIN runs : runs[n].phase = "succeeded"
      BY <1>1, <1>3 DEF InitSettled
    <2>2. srv.pending = NoEvent
      BY <1>3 DEF InitSettled, NewImageBuild
    <2>3. build.owner = "own"
      BY <1>3 DEF InitSettled, newBuild
    <2>. QED
      BY <2>1, <2>2, <2>3
  <1>. QED
    BY <1>2, <1>3 DEF Init

(* At the start the reconciler has everything before it.                   *)
LEMMA InitSettling == Init => SettlingInv
  <1>. SUFFICES ASSUME Init PROVE SettlingInv
    OBVIOUS
  <1>1. /\ cache = srv /\ cacheRuns = runs /\ cacheBuild = build /\ pc = "idle"
        /\ br = NoHeldRun /\ hooks = {}
    BY DEF Init
  <1>2. queued
    BY Zenon DEF Init
  <1>3. /\ \A n \in DOMAIN runs : runs[n].phase = "succeeded"
        /\ srv.pending = NoEvent
        /\ build.owner # "own" => ~Healthy
    BY InitRuns
  <1>4. CalmIsSettled
    BY <1>2, Zenon DEF CalmIsSettled, Calm
  <1>5. HeldIsCached
    BY <1>1, <1>2, Zenon DEF HeldIsCached
  <1>6. DigestsSucceed
    BY <1>1, <1>3, Zenon DEF DigestsSucceed
  <1>7. TriggersRecorded
    <2>1. \A n \in DOMAIN runs : runs[n].own => n[1] = "spec"
      BY InitOwned DEF Owned
    <2>. QED
      BY <1>1, <2>1 DEF TriggersRecorded
  <1>8. PushesWanted
    BY <1>1, <1>3, Zenon DEF PushesWanted
  <1>9. NoBuildStops
    BY <1>1, <1>3 DEF NoBuildStops, AfterBuild, AfterLabel
  <1>. QED
    BY <1>1, <1>4, <1>5, <1>6, <1>7, <1>8, <1>9 DEF SettlingInv, CacheIsCurrent, PatchesAreDue

(* The invariant behind the properties at rest, with the numbering and the *)
(* ownership it rests on (Reconcile and everything it interleaves with).   *)
THEOREM SettledInvariant == Spec => []SettledInv
  <1>1. Init => SettledInv
    BY InitNumbering, InitOwnership, InitSettling DEF SettledInv
  <1>. QED
    BY <1>1, SettledStep, PTL DEF Spec

(* A reconcile that leaves nothing to do found every patch unnecessary, or *)
(* gave up on a conflict (Reconcile, SetupWithManager's watches).          *)
THEOREM SettlingInvariant == Spec => []SettlingInv
  <1>1. SettledInv => SettlingInv
    BY DEF SettledInv
  <1>. QED
    BY <1>1, SettledInvariant, PTL

-----------------------------------------------------------------------------
(* At rest.                                                                *)

(* At rest the last reconcile has found everything as it should be, or is  *)
(* behind a conflict on the Build's name or on the next BuildRun's.        *)
LEMMA AtRest ==
    ASSUME SettledInv, Quiescent
    PROVE  /\ srv.label = desiredLabel(srv)
           /\ \/ /\ readyUpToDate(srv) /\ srv.obsGen = srv.gen /\ build = newBuild(srv)
                 /\ RunReported(srv) /\ ImageReported(srv) /\ PushHandled(srv)
              \/ build.owner = "foreign"
              \/ /\ NameTaken /\ build = newBuild(srv) /\ srv.obsGen = srv.gen
                 /\ faults = 0 => ~Healthy
           /\ build.owner = "foreign" => ~Healthy
           /\ cacheRuns = runs
  <1>1. /\ pc = "idle" /\ ~queued /\ lag = 0 /\ cacheRuns = runs /\ cacheBuild = build
    BY DEF Quiescent
  <1>2. SettlingInv
    BY SettledTypes
  <1>3. CalmRest
    BY <1>1, <1>2, Zenon DEF SettlingInv, CalmIsSettled, Calm
  <1>4. build.owner = "foreign" => ~Healthy
    BY <1>2 DEF SettlingInv, NoBuildStops
  <1>5. GaveUp(srv) => \/ build.owner = "foreign"
                       \/ NameTaken /\ build = newBuild(srv) /\ srv.obsGen = srv.gen
    BY <1>1 DEF GaveUp, NameConflict, NameTaken, BuildIsWanted
  <1>6. BuildIsWanted(srv) => build = newBuild(srv)
    BY <1>1 DEF BuildIsWanted
  <1>. QED
    BY <1>1, <1>3, <1>4, <1>5, <1>6, Zenon DEF CalmRest

(* At rest and Ready, label, observedGeneration, Ready and BuildSucceeded  *)
(* are those of the current generation and of the last BuildRun, unless a  *)
(* name conflict has gone unreported (reconcileStatus, setNotReady).       *)
THEOREM StatusIsSettled == Spec => []StatusSettles
  <1>1. SettledInv => StatusSettles
    <2>. SUFFICES ASSUME SettledInv, Quiescent, Healthy PROVE StatusSettles
      BY DEF StatusSettles
    <2>1. readyUpToDate(srv) => srv.conds.ready.gen = srv.gen
      BY DEF readyUpToDate
    <2>2. RunReported(srv) /\ cacheRuns = runs /\ srv.lastRun \in Owned =>
            srv.conds.succeeded.reason = deriveBuildSucceededStatus(runs[srv.lastRun])
      BY OwnInCache DEF RunReported, Owned
    <2>. QED
      BY <2>1, <2>2, AtRest, Zenon DEF StatusSettles
  <1>. QED
    BY <1>1, SettledInvariant, PTL

(* At rest and Ready, the Build is the one the stored spec asks for        *)
(* (ensureBuild, from cached copies of both).                              *)
THEOREM BuildIsSettled == Spec => []BuildSettles
  <1>1. SettledInv => BuildSettles
    BY AtRest, Zenon DEF BuildSettles
  <1>. QED
    BY <1>1, SettledInvariant, PTL

(* At rest and Ready, the image reported carries the last BuildRun's       *)
(* digest, if it has one (patchLatestImage).                               *)
THEOREM LatestImageIsSettled == Spec => []LatestImageSettles
  <1>1. SettledInv => LatestImageSettles
    <2>. SUFFICES ASSUME SettledInv, Quiescent, Healthy, ~NameTaken,
                         srv.lastRun \in Owned, runs[srv.lastRun].digest
                  PROVE  srv.latestImage.run = srv.lastRun
      BY Zenon DEF LatestImageSettles
    <2>1. ImageReported(srv) /\ cacheRuns = runs
      BY AtRest, Zenon
    <2>. QED
      BY <2>1, OwnInCache DEF ImageReported, Owned
  <1>. QED
    BY <1>1, SettledInvariant, PTL

(* At rest without Ready, a name is taken: every other failure is retried  *)
(* (Reconcile's return values, Abandon's requeue).                         *)
THEOREM ConflictsStick == Spec => []OnlyConflictsStick
  <1>1. SettledInv => OnlyConflictsStick
    <2>1. readyUpToDate(srv) => Healthy
      BY DEF readyUpToDate, Healthy
    <2>. QED
      BY <2>1, AtRest, Zenon DEF OnlyConflictsStick
  <1>. QED
    BY <1>1, SettledInvariant, PTL

(* At rest and Ready no commit is pending, as long as no write has failed  *)
(* and the process has not crashed (reconcileOnCommitBuildRun).            *)
THEOREM PendingIsSettled == Spec => []PendingSettles
  <1>1. SettledInv => PendingSettles
    <2>. SUFFICES ASSUME SettledInv, Quiescent, Healthy, faults = 0, crashes = 0
                  PROVE  srv.pending = NoEvent
      BY Zenon DEF PendingSettles
    <2>1. PushHandled(srv)
      BY AtRest, Zenon
    <2>2. PushesWanted
      BY SettledTypes, Zenon DEF SettlingInv
    <2>3. ~isRebuildEnabled(srv)
      BY <2>1 DEF PushHandled
    <2>4. srv.rebuild => srv.pending.at = 0
      BY <2>3, Zenon DEF isRebuildEnabled
    <2>. QED
      BY <2>2, <2>4, Zenon DEF PushesWanted
  <1>. QED
    BY <1>1, SettledInvariant, PTL

=============================================================================
