----------------------- MODULE ImageBuildController -----------------------
(***************************************************************************)
(* The reconciler of internal/controller/imagebuild for one ImageBuild,    *)
(* with everything it interleaves with: the API server, the informer       *)
(* caches it reads from, Shipwright running its BuildRuns, the git webhook *)
(* handler writing status.onCommit, the user editing the spec, and the     *)
(* operator's own process crashing.                                        *)
(*                                                                         *)
(* The controller's workqueue runs one reconcile per ImageBuild at a time. *)
(* A reconcile is a sequence of API writes (pc says which comes next);     *)
(* between two of them anything else may happen.  Reads come from the      *)
(* caches, which lag behind the server; a successful write returns the     *)
(* server's object into the reconciler's variable.                         *)
(***************************************************************************)
EXTENDS ImageBuildAPI

CONSTANTS
    RunResults,     \* how runs may end: "failed", "digest", "noDigest"
    MaxGen,         \* bound on metadata.generation (user edits)
    MaxLag,         \* bound on the versions the ImageBuild informer is behind
    MaxDeliveries,  \* bound on webhook deliveries
    MaxFaults,      \* bound on failed API writes
    MaxCrashes,     \* bound on operator crashes
    MaxFailures,    \* bound on both together
    MaxDeletes,     \* bound on BuildRuns removed by retention
    Settled,        \* whether to start after the first build, or at the creation
    InitInputs,     \* build inputs of the created ImageBuild
    InitRebuild,    \* its spec.rebuild
    InitDeps,       \* policy, strategy and secret found at creation
    InitOwners,     \* owners of a Build that already has the derived name
    InitForeign,    \* sets of BuildRun names somebody else already uses
    LaterForeign,   \* BuildRun names somebody else may come to use
    LaterBuild      \* whether somebody else may come to use the Build's name

ASSUME ControllerAssumption ==
    /\ RunResults \subseteq {"failed", "digest", "noDigest"}
    /\ MaxGen \in Nat /\ MaxLag \in Nat /\ MaxDeliveries \in Nat
    /\ MaxFaults \in Nat /\ MaxCrashes \in Nat /\ MaxFailures \in Nat
    /\ MaxDeletes \in Nat
    /\ Settled \in BOOLEAN /\ InitInputs \subseteq Inputs /\ InitRebuild \subseteq BOOLEAN
    /\ InitDeps \subseteq [policy: BOOLEAN, strategy: BOOLEAN,
                           secret: {"unset", "ok", "missing", "badKey"}]
    /\ InitOwners \subseteq {"absent", "orphan", "foreign"}
    /\ InitForeign \subseteq SUBSET RunName
    /\ LaterForeign \subseteq RunName /\ LaterBuild \in BOOLEAN

VARIABLES
    (* The cluster.                                                        *)
    srv,        \* the ImageBuild as the API server stores it
    runs,       \* the BuildRuns, by name
    build,      \* the Build
    deps,       \* ImageBuildPolicy, ClusterBuildStrategy and webhook Secret
    (* The operator's informer caches.                                     *)
    cache, cacheRuns, cacheBuild,
    (* The workqueue and the running reconcile.                            *)
    queued,     \* the ImageBuild's key is in the workqueue (or a timer will add it)
    pc,         \* the next write of the reconcile, or "idle"
    loc,        \* the reconcile's imageBuild variable
    br,         \* its buildRun variable
    fail,       \* the reason and requeue of an abandoned reconcile
    (* resourceVersions.                                                   *)
    lag,        \* how many stored versions cache is behind srv
    locFresh,   \* loc carries the stored resourceVersion
    (* The webhook handler and the clock.                                  *)
    hooks,      \* requests that have read the ImageBuild and not yet patched it
    deliveries, \* webhook requests received so far; also their receivedAt
    debounced,  \* the newest delivery older than onCommitDebounce
    spaced,     \* the newest trigger older than onCommitMinInterval
    (* What is used up of the bounds.                                      *)
    faults, crashes, deletes,
    (* For the properties.                                                 *)
    lost        \* names of BuildRuns of the ImageBuild that were deleted

cluster == <<srv, runs, build, deps>>
caches == <<cache, cacheRuns, cacheBuild>>
reconcile == <<queued, pc, loc, br, fail>>
versions == <<lag, locFresh>>
webhook == <<hooks, deliveries>>
clock == <<debounced, spaced>>
bounds == <<faults, crashes, deletes, lost>>
vars == <<cluster, caches, reconcile, versions, webhook, clock, bounds>>

PC == {"idle", "label", "build", "buildRef", "oncommit", "triggered",
       "default", "counter", "record", "status", "ready", "image", "notReady"}

Deps == [policy: BOOLEAN, strategy: BOOLEAN, secret: {"unset", "ok", "missing", "badKey"}]

(* A request in flight: its event and the events it read from the cache.   *)
Request == [commit: Commits \cup {NoCommit}, at: Nat, pending: Event, lastReceived: Event]

NoFailure == [reason |-> "none", requeue |-> FALSE]

TypeOK ==
    /\ srv \in ImageBuild /\ cache \in ImageBuild /\ loc \in ImageBuild
    /\ DOMAIN runs \subseteq RunName /\ \A n \in DOMAIN runs : runs[n] \in Run
    /\ DOMAIN cacheRuns \subseteq RunName /\ \A n \in DOMAIN cacheRuns : cacheRuns[n] \in Run
    /\ build \in Build /\ cacheBuild \in Build
    /\ deps \in Deps
    /\ queued \in BOOLEAN /\ pc \in PC /\ br \in HeldRun
    /\ fail \in [reason: ReadyReason \cup {"none"}, requeue: BOOLEAN]
    /\ lag \in 0 .. MaxLag /\ locFresh \in BOOLEAN
    /\ hooks \subseteq Request
    /\ deliveries \in 0 .. MaxDeliveries
    /\ debounced \in Nat /\ spaced \in Nat
    /\ faults \in 0 .. MaxFaults /\ crashes \in 0 .. MaxCrashes /\ deletes \in 0 .. MaxDeletes
    /\ lost \subseteq RunName

foreignRun == [newBuildRun EXCEPT !.own = FALSE, !.phase = "succeeded"]

(* The user has created the ImageBuild and the operator has just seen it.  *)
InitCreated ==
    /\ \E i \in InitInputs, onCommit \in InitRebuild : srv = NewImageBuild(i, onCommit)
    /\ \E F \in InitForeign : runs = [n \in F |-> foreignRun]
    /\ \E o \in InitOwners : build = [owner |-> o, inputs |-> NoInputs]

(* Or the ImageBuild is as the reconciler leaves it once the first BuildRun*)
(* has succeeded.                                                          *)
InitSettled ==
    LET first == buildRunNameFor(1) IN
    \E i \in InitInputs, onCommit \in InitRebuild :
        /\ srv = [NewImageBuild(i, onCommit) EXCEPT
                    !.label = IF onCommit THEN "true" ELSE "false",
                    !.lastSpec = i, !.obsGen = 1, !.buildRef = TRUE,
                    !.conds = [ready |-> [reason |-> "Reconciled", gen |-> 1],
                               succeeded |-> [reason |-> "BuildRunSucceeded", gen |-> 1]],
                    !.latestImage = [image |-> i, run |-> first],
                    !.lastRun = first, !.counter = 1]
        /\ \E F \in InitForeign :
             runs = [n \in {first} \cup F |->
                       IF n = first THEN [phase |-> "succeeded", own |-> TRUE,
                                          digest |-> TRUE, built |-> i]
                       ELSE foreignRun]
        /\ build = newBuild(srv)

Init ==
    /\ IF Settled THEN InitSettled ELSE InitCreated
    /\ deps \in InitDeps
    /\ cache = srv /\ cacheRuns = runs /\ cacheBuild = build
    /\ queued = TRUE /\ pc = "idle" /\ loc = NoCopy /\ br = NoHeldRun /\ fail = NoFailure
    /\ lag = 0 /\ locFresh = FALSE
    /\ hooks = {} /\ deliveries = 0
    /\ debounced = 0 /\ spaced = 0
    /\ faults = 0 /\ crashes = 0 /\ deletes = 0 /\ lost = {}

-----------------------------------------------------------------------------
(* How a step of the reconcile ends.                                       *)

(* A write that changes the stored object makes a new version of it.  The  *)
(* informer is at most MaxLag versions behind.                             *)
Version ==
    /\ lag' = IF srv' = srv THEN lag ELSE lag + 1
    /\ lag' <= MaxLag

(* On to the next write; the response to this one is in loc.               *)
Proceed(next) ==
    /\ pc' = next
    /\ loc' = srv'
    /\ Version /\ locFresh' = TRUE
    /\ UNCHANGED <<queued, fail>>

(* On to the next write, this one was not needed.                          *)
Skip(next) ==
    /\ pc' = next
    /\ UNCHANGED <<srv, loc, versions, queued, fail>>

(* Reconcile returns.  An error and a RequeueAfter both put the key back.  *)
Finish(requeue) ==
    /\ pc' = "idle"
    /\ loc' = NoCopy /\ br' = NoHeldRun /\ fail' = NoFailure
    /\ Version /\ locFresh' = FALSE
    /\ queued' = (queued \/ requeue)

(* Reconcile gives up, after one more write: the Ready condition.          *)
Abandon_bug(reason, requeue) ==
    /\ pc' = "notReady"
    /\ fail' = [reason |-> reason, requeue |-> FALSE]
    /\ Version /\ locFresh' = (locFresh /\ srv' = srv)
    /\ UNCHANGED <<queued, loc, br>>

Abandon(reason, requeue) ==
    /\ pc' = "notReady"
    /\ fail' = [reason |-> reason, requeue |-> requeue]
    /\ Version /\ locFresh' = (locFresh /\ srv' = srv)
    /\ UNCHANGED <<queued, loc, br>>

(* An API write reports an error; it may have been applied all the same.   *)
Fault == faults < MaxFaults /\ faults + crashes < MaxFailures /\ faults' = faults + 1

PatchTo(new) == srv' = MergePatch(srv, loc, new)

PatchError(new) == Fault /\ (PatchTo(new) \/ UNCHANGED srv)

(* What a step of the reconcile never touches.                             *)
Elsewhere == UNCHANGED <<deps, caches, webhook, clock, crashes, deletes, lost>>

WithRun(name, run) == [m \in DOMAIN runs \cup {name} |-> IF m = name THEN run ELSE runs[m]]

Hold(name, run) == [name |-> name, phase |-> run.phase, digest |-> run.digest]

-----------------------------------------------------------------------------
(* The reconcile, one action per write.                                    *)

(* Reconcile: read the ImageBuild from the cache.  ensureOnCommitLabel     *)
(* writes nothing when the label is right.                                 *)
StartReconcile ==
    /\ pc = "idle" /\ queued /\ queued' = FALSE
    /\ pc' = IF cache.label = desiredLabel(cache) THEN "build" ELSE "label"
    /\ loc' = cache /\ locFresh' = (lag = 0)
    /\ UNCHANGED <<cluster, caches, lag, br, fail, webhook, clock, bounds>>

ensureOnCommitLabel ==
    LET new == [loc EXCEPT !.label = desiredLabel(loc)] IN
    /\ pc = "label"
    /\ \/ PatchTo(new) /\ Proceed("build") /\ UNCHANGED <<br, faults>>
       \/ PatchError(new) /\ Finish(TRUE)
    /\ UNCHANGED <<runs, build>> /\ Elsewhere

secretUsable == deps.secret \in {"unset", "ok"}

validateWebhookSecret ==
    /\ pc = "build" /\ ~secretUsable /\ UNCHANGED srv
    /\ Abandon(IF deps.secret = "missing"
               THEN "WebhookSecretMissing" ELSE "WebhookSecretInvalidKey", TRUE)
    /\ UNCHANGED <<runs, build, faults>> /\ Elsewhere

(* reconcileBuild up to ensureBuild: what stops it before it writes.       *)
buildBlocked ==
    /\ pc = "build" /\ secretUsable /\ UNCHANGED srv
    /\ \/ ~deps.policy /\ Abandon("MissingPolicy", TRUE)
       \/ deps.policy /\ ~deps.strategy /\ Abandon("BuildStrategyNotFound", TRUE)
       \/ /\ deps.policy /\ deps.strategy /\ cacheBuild.owner = "foreign"
          /\ Abandon("BuildConflict", FALSE)
    /\ UNCHANGED <<runs, build, faults>> /\ Elsewhere

(* CreateOrPatch creates the Build when the cache has none (the server     *)
(* refuses if it has one) and patches the one the cache has if it differs. *)
(* patchBuildRef writes nothing when the status is up to date.             *)
afterBuild == IF loc.buildRef /\ loc.obsGen = loc.gen THEN "oncommit" ELSE "buildRef"

(* CreateOrPatch leaves a Build alone that is already as desired.          *)
buildUpToDate_bug == cacheBuild.owner = "own"

buildUpToDate == cacheBuild = newBuild(loc)

buildRefused == cacheBuild.owner = "absent" /\ build.owner # "absent"

ensureBuild ==
    /\ pc = "build"
    /\ secretUsable /\ deps.policy /\ deps.strategy /\ cacheBuild.owner # "foreign"
    /\ \/ /\ buildUpToDate
          /\ Skip(afterBuild) /\ UNCHANGED <<build, br, faults>>
       \/ /\ ~buildUpToDate /\ ~buildRefused
          /\ build' = newBuild(loc)
          /\ Skip(afterBuild) /\ UNCHANGED <<br, faults>>
       \/ /\ buildRefused
          /\ UNCHANGED <<srv, build, faults>> /\ Abandon("BuildReconcileFailed", TRUE)
       \/ /\ ~buildUpToDate /\ ~buildRefused
          /\ Fault /\ (build' = newBuild(loc) \/ UNCHANGED build)
          /\ UNCHANGED srv /\ Abandon("BuildReconcileFailed", TRUE)
    /\ UNCHANGED runs /\ Elsewhere

patchBuildRef ==
    LET new == [loc EXCEPT !.buildRef = TRUE, !.obsGen = loc.gen] IN
    /\ pc = "buildRef"
    /\ \/ PatchTo(new) /\ Proceed("oncommit") /\ UNCHANGED <<br, faults>>
       \/ PatchError(new) /\ Finish(TRUE)
    /\ UNCHANGED <<runs, build>> /\ Elsewhere

(* getOrCreateBuildRun: adopt what the cache has under this name, if it is *)
(* ours, otherwise create it, which the server refuses for a taken name.   *)
getOrCreateBuildRun(name, reused, created, conflict) ==
    /\ \/ /\ name \in DOMAIN cacheRuns /\ isControlledBy(cacheRuns[name])
          /\ br' = Hold(name, cacheRuns[name])
          /\ Skip(reused) /\ UNCHANGED <<runs, faults>>
       \/ /\ name \in DOMAIN cacheRuns /\ ~isControlledBy(cacheRuns[name])
          /\ UNCHANGED <<srv, runs, faults>> /\ Abandon(conflict, FALSE)
       \/ /\ name \notin DOMAIN cacheRuns /\ name \notin DOMAIN runs
          /\ runs' = WithRun(name, newBuildRun)
          /\ br' = Hold(name, newBuildRun)
          /\ Skip(created) /\ UNCHANGED faults
       \/ /\ name \notin DOMAIN cacheRuns /\ name \in DOMAIN runs
          /\ UNCHANGED <<srv, runs, faults>> /\ Abandon("BuildRunReconcileFailed", TRUE)
       \/ /\ name \notin DOMAIN cacheRuns /\ name \notin DOMAIN runs
          /\ Fault /\ (runs' = WithRun(name, newBuildRun) \/ UNCHANGED runs)
          /\ UNCHANGED srv /\ Abandon("BuildRunReconcileFailed", TRUE)
    /\ UNCHANGED build /\ Elsewhere

(* reconcileOnCommitBuildRun, one action per way out of it.                *)
onCommitWaits ==
    /\ pc = "oncommit" /\ isRebuildEnabled(loc)
    /\ remainingWait(loc, debounced, spaced)
    /\ UNCHANGED <<srv, runs, build, faults>> /\ Finish(TRUE) /\ Elsewhere

onCommitReady ==
    /\ pc = "oncommit" /\ isRebuildEnabled(loc)
    /\ ~remainingWait(loc, debounced, spaced)

onCommitDuplicate ==
    LET new == [loc EXCEPT !.pending = NoEvent] IN
    /\ onCommitReady /\ isDuplicateCommit(loc, loc.pending.commit)
    /\ \/ PatchTo(new) /\ Proceed("default") /\ UNCHANGED <<br, faults>>
       \/ PatchError(new) /\ Abandon("BuildRunReconcileFailed", TRUE)
    /\ UNCHANGED <<runs, build>> /\ Elsewhere

(* getActiveBuildRun: the last BuildRun, if it is ours and in progress.    *)
lastRunActive ==
    /\ loc.lastRun \in DOMAIN cacheRuns
    /\ isControlledBy(cacheRuns[loc.lastRun])
    /\ isActiveBuildRun(cacheRuns[loc.lastRun])

onCommitActive ==
    /\ onCommitReady /\ ~isDuplicateCommit(loc, loc.pending.commit)
    /\ lastRunActive
    /\ br' = Hold(loc.lastRun, cacheRuns[loc.lastRun])
    /\ Skip("status") /\ UNCHANGED <<runs, build, faults>> /\ Elsewhere

ensureOnCommitBuildRun ==
    /\ onCommitReady /\ ~isDuplicateCommit(loc, loc.pending.commit)
    /\ ~lastRunActive
    /\ getOrCreateBuildRun(onCommitRunNameFor(nextCounter(loc.trigCounter)),
                           "status", "triggered", "BuildRunReconcileFailed")

patchOnCommitTriggered ==
    LET number == br.name[2]
        new == [loc EXCEPT !.trigCounter = number,
                           !.lastTrig = [number |-> number, commit |-> loc.pending.commit],
                           !.pending = NoEvent] IN
    /\ pc = "triggered"
    /\ \/ PatchTo(new) /\ Proceed("status") /\ UNCHANGED <<br, faults>>
       \/ PatchError(new) /\ Abandon("BuildRunReconcileFailed", TRUE)
    /\ UNCHANGED <<runs, build>> /\ Elsewhere

(* reconcileDefaultBuildRun is reached when no commit is pending, or when  *)
(* the pending one was dropped as a duplicate.                             *)
atDefault == pc = "default" \/ (pc = "oncommit" /\ ~isRebuildEnabled(loc))

afterStatus(ib) == IF readyUpToDate(ib) THEN "image" ELSE "ready"

(* When the spec has not drifted: getLastBuildRun, which finds nothing     *)
(* when the BuildRun has been deleted.                                     *)
getLastBuildRun ==
    LET found == loc.lastRun \in DOMAIN cacheRuns IN
    /\ atDefault /\ ~isSpecDrifted(loc)
    /\ br' = IF found THEN Hold(loc.lastRun, cacheRuns[loc.lastRun]) ELSE NoHeldRun
    /\ Skip(IF found THEN "status" ELSE afterStatus(loc))
    /\ UNCHANGED <<runs, build, faults>> /\ Elsewhere

(* ... and when it has: ensureBuildRun, recordBuildSpec and the Update.    *)
ensureBuildRun ==
    /\ atDefault /\ isSpecDrifted(loc)
    /\ getOrCreateBuildRun(buildRunNameFor(nextCounter(loc.counter)),
                           "record", "counter", "BuildRunConflict")

patchBuildRunCounter ==
    LET new == [loc EXCEPT !.counter = br.name[2]] IN
    /\ pc = "counter"
    /\ \/ PatchTo(new) /\ Proceed("record") /\ UNCHANGED <<br, faults>>
       \/ PatchError(new) /\ Abandon("BuildRunReconcileFailed", TRUE)
    /\ UNCHANGED <<runs, build>> /\ Elsewhere

(* r.Update carries the resourceVersion of loc: the server refuses it when *)
(* anybody wrote since.  The annotation records the inputs loc has by now. *)
recordBuildSpec ==
    LET new == [loc EXCEPT !.lastSpec = loc.inputs] IN
    /\ pc = "record"
    /\ \/ /\ locFresh
          /\ PatchTo(new) /\ Proceed("status") /\ UNCHANGED <<br, faults>>
       \/ /\ ~locFresh
          /\ UNCHANGED <<srv, faults>> /\ Finish(TRUE)
       \/ /\ locFresh
          /\ PatchError(new) /\ Finish(TRUE)
    /\ UNCHANGED <<runs, build>> /\ Elsewhere

(* reconcileStatus: three writes.                                          *)
patchBuildSucceededCondition ==
    LET new == [loc EXCEPT !.obsGen = loc.gen,
                           !.lastRun = br.name,
                           !.conds = [loc.conds EXCEPT !.succeeded =
                               [reason |-> deriveBuildSucceededStatus(br), gen |-> loc.gen]]] IN
    /\ pc = "status"
    /\ \/ PatchTo(new) /\ Proceed(afterStatus(srv')) /\ UNCHANGED <<br, faults>>
       \/ PatchError(new) /\ Finish(TRUE)
    /\ UNCHANGED <<runs, build>> /\ Elsewhere

(* What patchReadyCondition makes of the reconcile's copy.                 *)
withReady(reason) ==
    [loc EXCEPT !.obsGen = loc.gen,
                !.conds = [loc.conds EXCEPT !.ready = [reason |-> reason, gen |-> loc.gen]]]

patchReadyCondition ==
    /\ pc = "ready"
    /\ \/ PatchTo(withReady("Reconciled")) /\ Proceed("image") /\ UNCHANGED <<br, faults>>
       \/ PatchError(withReady("Reconciled")) /\ Finish(TRUE)
    /\ UNCHANGED <<runs, build>> /\ Elsewhere

patchLatestImage ==
    LET image == imageToReport(loc, br)
        new == [loc EXCEPT !.obsGen = loc.gen, !.latestImage = image] IN
    /\ pc = "image"
    /\ \/ image = NoImage /\ UNCHANGED <<srv, faults>> /\ Finish(poll(loc))
       \/ image # NoImage /\ PatchTo(new) /\ UNCHANGED faults /\ Finish(poll(srv'))
       \/ image # NoImage /\ PatchError(new) /\ Finish(TRUE)
    /\ UNCHANGED <<runs, build>> /\ Elsewhere

(* A failure of this write is only logged.                                 *)
setNotReady ==
    /\ pc = "notReady"
    /\ \/ PatchTo(withReady(fail.reason)) /\ UNCHANGED faults
       \/ PatchError(withReady(fail.reason))
    /\ Finish(fail.requeue)
    /\ UNCHANGED <<runs, build>> /\ Elsewhere

Reconcile ==
    \/ StartReconcile \/ ensureOnCommitLabel \/ validateWebhookSecret
    \/ buildBlocked \/ ensureBuild \/ patchBuildRef
    \/ onCommitWaits \/ onCommitDuplicate
    \/ onCommitActive \/ ensureOnCommitBuildRun \/ patchOnCommitTriggered
    \/ getLastBuildRun \/ ensureBuildRun \/ patchBuildRunCounter \/ recordBuildSpec
    \/ patchBuildSucceededCondition \/ patchReadyCondition \/ patchLatestImage
    \/ setNotReady

-----------------------------------------------------------------------------
(* The rest of the operator's process.                                     *)

(* The informers catch up.  SetupWithManager watches the ImageBuild and    *)
(* the Builds and BuildRuns it owns: a change of an object that it owns or *)
(* did own puts its key in the queue, one of somebody else's does not.     *)
SyncImageBuild_bug ==
    /\ lag # 0
    /\ cache' = srv /\ lag' = 0 /\ queued' = (queued \/ srv.gen # cache.gen)
    /\ UNCHANGED <<cluster, cacheRuns, cacheBuild, locFresh, pc, loc, br, fail, webhook, clock, bounds>>

SyncImageBuild ==
    /\ lag # 0
    /\ cache' = srv /\ lag' = 0 /\ queued' = TRUE
    /\ UNCHANGED <<cluster, cacheRuns, cacheBuild, locFresh, pc, loc, br, fail, webhook, clock, bounds>>

OwnIn(rs) == [n \in {m \in DOMAIN rs : rs[m].own} |-> rs[n]]

SyncRuns ==
    /\ cacheRuns # runs
    /\ cacheRuns' = runs /\ queued' = (queued \/ OwnIn(runs) # OwnIn(cacheRuns))
    /\ UNCHANGED <<cluster, cache, cacheBuild, pc, loc, br, fail, versions, webhook, clock, bounds>>

SyncBuild ==
    /\ cacheBuild # build
    /\ cacheBuild' = build /\ queued' = (queued \/ "own" \in {build.owner, cacheBuild.owner})
    /\ UNCHANGED <<cluster, cache, cacheRuns, pc, loc, br, fail, versions, webhook, clock, bounds>>

(* The process dies; the next leader lists everything and queues it.       *)
Crash ==
    /\ crashes < MaxCrashes /\ faults + crashes < MaxFailures /\ crashes' = crashes + 1
    /\ cache' = srv /\ cacheRuns' = runs /\ cacheBuild' = build
    /\ queued' = TRUE /\ pc' = "idle"
    /\ loc' = NoCopy /\ br' = NoHeldRun /\ fail' = NoFailure
    /\ lag' = 0 /\ locFresh' = FALSE /\ hooks' = {}
    /\ UNCHANGED <<cluster, deliveries, clock, faults, deletes, lost>>

(* ServeHTTP has matched, authenticated and, in patchOnCommitStatus, read  *)
(* the ImageBuild, all from the cache.                                     *)
WebhookReceives(c) ==
    /\ deliveries < MaxDeliveries /\ deliveries' = deliveries + 1
    /\ cache.label = "true" /\ cache.rebuild /\ deps.secret = "ok"
    /\ hooks' = hooks \cup {[commit |-> c, at |-> deliveries',
                             pending |-> cache.pending, lastReceived |-> cache.lastReceived]}
    /\ UNCHANGED <<cluster, caches, reconcile, versions, clock, bounds>>

(* patchOnCommitStatus writes both events as a merge patch over its copy.  *)
WebhookPatches(h) ==
    LET event == [commit |-> h.commit, at |-> h.at] IN
    /\ srv' = [srv EXCEPT !.pending = MergeEvent(srv.pending, h.pending, event),
                          !.lastReceived = MergeEvent(srv.lastReceived, h.lastReceived, event)]
    /\ Version /\ locFresh' = FALSE /\ hooks' = hooks \ {h}
    /\ UNCHANGED <<runs, build, deps, caches, reconcile, deliveries, clock, bounds>>

WebhookFails(h) ==
    /\ Fault /\ hooks' = hooks \ {h}
    /\ UNCHANGED <<cluster, caches, reconcile, versions, deliveries, clock, crashes, deletes, lost>>

-----------------------------------------------------------------------------
(* The cluster outside the operator.                                       *)

UserEdits(i) ==
    /\ srv.gen < MaxGen /\ i # srv.inputs
    /\ srv' = [srv EXCEPT !.inputs = i, !.gen = srv.gen + 1]
    /\ Version /\ locFresh' = FALSE
    /\ UNCHANGED <<runs, build, deps, caches, reconcile, webhook, clock, bounds>>

UserEnablesRebuild ==
    /\ srv.gen < MaxGen /\ ~srv.rebuild
    /\ srv' = [srv EXCEPT !.rebuild = TRUE, !.gen = srv.gen + 1]
    /\ Version /\ locFresh' = FALSE
    /\ UNCHANGED <<runs, build, deps, caches, reconcile, webhook, clock, bounds>>

DependencyAppears ==
    /\ \/ ~deps.policy /\ deps' = [deps EXCEPT !.policy = TRUE]
       \/ ~deps.strategy /\ deps' = [deps EXCEPT !.strategy = TRUE]
       \/ deps.secret \in {"missing", "badKey"} /\ deps' = [deps EXCEPT !.secret = "ok"]
    /\ UNCHANGED <<srv, runs, build, caches, reconcile, versions, webhook, clock, bounds>>

(* Shipwright reads the Build when it starts a run of it.                  *)
RunStarts(n) ==
    /\ runs[n].own /\ runs[n].phase = "pending"
    /\ runs' = [runs EXCEPT ![n] = [runs[n] EXCEPT !.phase = "running", !.built = build.inputs]]
    /\ UNCHANGED <<srv, build, deps, caches, reconcile, versions, webhook, clock, bounds>>

RunFinishes(n) ==
    /\ runs[n].own /\ runs[n].phase = "running"
    /\ \E result \in RunResults :
         runs' = [runs EXCEPT ![n] = [runs[n] EXCEPT
                    !.phase  = IF result = "failed" THEN "failed" ELSE "succeeded",
                    !.digest = (result = "digest")]]
    /\ UNCHANGED <<srv, build, deps, caches, reconcile, versions, webhook, clock, bounds>>

(* The copies of the ImageBuild the operator may act on.                   *)
Copies == {cache} \cup (IF pc = "idle" THEN {} ELSE {loc})

(* Completed BuildRuns are retained for longer than the informers lag and  *)
(* than a reconcile takes from one write to the next: the cache has seen   *)
(* the run, both copies of the ImageBuild count every run the server       *)
(* counts, and n is not a run whose counter is about to be patched.        *)
RetainedLongEnough(n) ==
    /\ n \in DOMAIN cacheRuns
    /\ \A ib \in Copies :
         ib.counter = srv.counter /\ ib.trigCounter = srv.trigCounter
    /\ pc \in {"counter", "triggered"} => br.name # n

RunDeleted(n) ==
    /\ deletes < MaxDeletes /\ deletes' = deletes + 1
    /\ runs[n].own /\ ~isActiveBuildRun(runs[n]) /\ RetainedLongEnough(n)
    /\ runs' = [m \in DOMAIN runs \ {n} |-> runs[m]] /\ lost' = lost \cup {n}
    /\ UNCHANGED <<srv, build, deps, caches, reconcile, versions, webhook, clock, faults, crashes>>

(* Somebody else takes a name that is free, or free again.                 *)
ForeignRunAppears(n) ==
    /\ n \notin DOMAIN runs /\ runs' = WithRun(n, foreignRun)
    /\ UNCHANGED <<srv, build, deps, caches, reconcile, versions, webhook, clock, bounds>>

(* ... or adopts the Build nobody owns.                                    *)
ForeignBuildAppears ==
    /\ LaterBuild /\ build.owner \in {"absent", "orphan"}
    /\ build' = [build EXCEPT !.owner = "foreign"]
    /\ UNCHANGED <<srv, runs, deps, caches, reconcile, versions, webhook, clock, bounds>>

(* Ten seconds pass since a delivery, thirty since a trigger.              *)
DebounceElapses ==
    /\ debounced < deliveries /\ debounced' = debounced + 1
    /\ UNCHANGED <<cluster, caches, reconcile, versions, webhook, spaced, bounds>>

IntervalElapses ==
    /\ spaced < srv.lastTrig.number /\ spaced' = srv.lastTrig.number
    /\ UNCHANGED <<cluster, caches, reconcile, versions, webhook, debounced, bounds>>

Environment ==
    \/ \E i \in Inputs : UserEdits(i)
    \/ UserEnablesRebuild
    \/ DependencyAppears
    \/ \E n \in DOMAIN runs : RunStarts(n)
    \/ \E n \in DOMAIN runs : RunFinishes(n)
    \/ \E n \in DOMAIN runs : RunDeleted(n)
    \/ \E n \in LaterForeign : ForeignRunAppears(n)
    \/ ForeignBuildAppears
    \/ DebounceElapses \/ IntervalElapses

Operator ==
    \/ SyncImageBuild \/ SyncRuns \/ SyncBuild \/ Crash
    \/ \E c \in Commits : WebhookReceives(c)
    \/ \E h \in hooks : WebhookPatches(h)
    \/ \E h \in hooks : WebhookFails(h)

Next == Reconcile \/ Operator \/ Environment

(* The workqueue's worker, the informers and the handlers keep running;    *)
(* time passes; Shipwright finishes what it is given.                      *)
Fairness ==
    /\ WF_vars(Reconcile)
    /\ WF_vars(SyncImageBuild) /\ WF_vars(SyncRuns) /\ WF_vars(SyncBuild)
    /\ WF_vars(\E h \in hooks : WebhookPatches(h))
    /\ WF_vars(\E n \in DOMAIN runs : RunStarts(n))
    /\ WF_vars(\E n \in DOMAIN runs : RunFinishes(n))
    /\ WF_vars(DebounceElapses) /\ WF_vars(IntervalElapses)

Spec == Init /\ [][Next]_vars

FairSpec == Spec /\ Fairness

-----------------------------------------------------------------------------
(* Properties.                                                             *)

Owned == {n \in DOMAIN runs : runs[n].own}

Ledger == INSTANCE BuildRunLedger WITH
    owned <- Owned, foreign <- DOMAIN runs \ Owned,
    counted <- srv.counter, trigger <- srv.lastTrig, spaced <- spaced

(* The reconciler with its caches, copies, patches, retries and crashes    *)
(* acts on its BuildRuns, counters and triggers as if it always saw what   *)
(* the server has and made each entry once: every step is one of the       *)
(* ledger's or leaves it alone (getOrCreateBuildRun, ensureBuildRun,       *)
(* ensureOnCommitBuildRun, patchOnCommitTriggered).                        *)
RefinesLedger == Ledger!Spec

(* BuildRun names are derived from a counter in the status, and the run is *)
(* created before the counter is patched.  However the two are interleaved *)
(* with faults, crashes and stale reads, an owned BuildRun is never more   *)
(* than one ahead of its counter (ensureBuildRun, ensureOnCommitBuildRun). *)
RunNumbersTracked ==
    \A n \in DOMAIN runs :
        runs[n].own => n[2] <= 1 + (IF n[1] = "spec" THEN srv.counter ELSE srv.trigCounter)

(* Counters are written by patches computed from copies that may be stale, *)
(* yet never go back, never skip a number, and count only BuildRuns that   *)
(* exist (ensureBuildRun, patchOnCommitTriggered).                         *)
CountersStepByOne ==
    [][/\ srv'.counter # srv.counter =>
            /\ srv'.counter = srv.counter + 1
            /\ buildRunNameFor(srv'.counter) \in DOMAIN runs
       /\ srv'.trigCounter # srv.trigCounter =>
            /\ srv'.trigCounter = srv.trigCounter + 1
            /\ onCommitRunNameFor(srv'.trigCounter) \in DOMAIN runs]_vars

(* A trigger is recorded only when onCommitMinInterval has passed since    *)
(* the trigger the server has on record, and never for the same commit     *)
(* twice in a row, although both checks look at a cached copy (remainingWait,*)
(* isDuplicateCommit, patchOnCommitTriggered).                             *)
TriggersSpaced ==
    [][srv'.lastTrig # srv.lastTrig =>
         /\ srv'.lastTrig.number = srv.lastTrig.number + 1
         /\ spaced >= srv.lastTrig.number
         /\ srv.lastTrig.number # 0 => srv'.lastTrig.commit # srv.lastTrig.commit]_vars

(* Whenever somebody else takes a name the operator derives, and however   *)
(* old the caches are that it decides from: the Build and the BuildRuns of *)
(* others keep their owner and content, and such a BuildRun never becomes  *)
(* the one a reconcile holds or the status reports.  There are two ways out*)
(* of this: a Build the cache still shows without an owner is taken over   *)
(* all the same; and under the name of a BuildRun of the ImageBuild that   *)
(* has been deleted nobody asks whose lastBuildRunRef is now               *)
(* (getOrCreateBuildRun, ensureBuild, getLastBuildRun).                    *)
ForeignUntouched ==
    [][/\ build.owner = "foreign" /\ cacheBuild.owner # "orphan" => build' = build
       /\ \A n \in DOMAIN runs :
            ~runs[n].own =>
                /\ n \in DOMAIN runs' /\ runs'[n] = runs[n]
                /\ n \notin lost => srv'.lastRun # n /\ br'.name # n]_vars

(* Why: names the reconciler works on are of its own BuildRuns, or were;   *)
(* what the cache shows as somebody else's is; and while the Build is not  *)
(* its own the cache does not show it as such, nor anything outdated before*)
(* somebody has taken it (getLastBuildRun, isControlledBy, ensureBuild).   *)
OwnershipInv ==
    /\ {srv.lastRun, cache.lastRun, loc.lastRun, br.name} \subseteq Owned \cup lost \cup {NoRun}
    /\ \A n \in DOMAIN cacheRuns :
         n \in IF cacheRuns[n].own THEN Owned \cup lost ELSE DOMAIN runs \ Owned
    /\ cacheBuild.owner = "own" => build.owner = "own"
    /\ build.owner \in {"absent", "orphan"} => cacheBuild = build

(* Nothing left to do: no reconcile is running or due, every cache is up   *)
(* to date, no run or request is in progress and no timer is pending.      *)
Quiescent ==
    /\ pc = "idle" /\ ~queued /\ hooks = {}
    /\ lag = 0 /\ cacheRuns = runs /\ cacheBuild = build
    /\ \A n \in DOMAIN runs : ~(runs[n].own /\ isActiveBuildRun(runs[n]))
    /\ debounced = deliveries /\ spaced = srv.lastTrig.number

Healthy == srv.conds.ready.reason = "Reconciled"

(* Somebody else has a BuildRun under the name the operator derives next.  *)
NextNames(ib) == {buildRunNameFor(nextCounter(ib.counter)),
                  onCommitRunNameFor(nextCounter(ib.trigCounter))}
NameTaken == \E n \in NextNames(srv) \cap DOMAIN runs : ~runs[n].own

(* When everything has come to rest the status tells the truth about the   *)
(* current generation: label, observedGeneration and Ready are those of    *)
(* the stored spec and BuildSucceeded is what the last BuildRun reports,   *)
(* whatever stale copies the conditions were patched from on the way.  The *)
(* conditions may be old only if a name is taken: that is not retried, and *)
(* its report may have failed (reconcileStatus, patchReadyCondition,       *)
(* patchBuildSucceededCondition, setNotReady).                             *)
StatusSettles ==
    Quiescent /\ Healthy =>
        /\ srv.label = desiredLabel(srv)
        /\ srv.obsGen = srv.gen
        /\ ~NameTaken =>
             /\ srv.conds.ready.gen = srv.gen
             /\ srv.lastRun \in Owned =>
                  srv.conds.succeeded.reason = deriveBuildSucceededStatus(runs[srv.lastRun])

(* When everything has come to rest and the last BuildRun succeeded, the   *)
(* image the status reports carries that run's digest, not an earlier one's*)
(* (patchLatestImage).                                                     *)
LatestImageSettles ==
    /\ Quiescent /\ Healthy /\ ~NameTaken /\ srv.lastRun \in Owned
    /\ runs[srv.lastRun].digest
    => srv.latestImage.run = srv.lastRun

(* When everything has come to rest without Ready, somebody else owns the  *)
(* Build's name or the next BuildRun's: every other failure is retried     *)
(* (Reconcile).                                                            *)
OnlyConflictsStick == Quiescent /\ ~Healthy => build.owner = "foreign" \/ NameTaken

(* When everything has come to rest the Build is the one the stored spec   *)
(* asks for, although it is created and patched from cached copies of both *)
(* (ensureBuild).                                                          *)
BuildSettles == Quiescent /\ Healthy => build = newBuild(srv)

(* As long as no write has failed and the process has not crashed, no      *)
(* commit is left pending for ever, however pushes, edits, runs and stale  *)
(* copies are interleaved (reconcileOnCommitBuildRun).                     *)
PendingSettles ==
    Quiescent /\ Healthy /\ faults = 0 /\ crashes = 0 => srv.pending = NoEvent

(* The last BuildRun was deleted before its end was reported.              *)
LostUnreported == srv.lastRun \in lost \ DOMAIN runs /\ poll(srv)

(* The reconciler stops: however writes fail, caches lag, BuildRuns are    *)
(* deleted and the process restarts, once users, pushes and faults stop,   *)
(* retries and polls do too and every run, timer and cache is dealt with.  *)
(* Except that reconcileStatus polls for ever for the end of a last        *)
(* BuildRun that is gone (Reconcile, getLastBuildRun).                     *)
ComesToRest == <>[]Quiescent \/ <>[]LostUnreported

-----------------------------------------------------------------------------
(* The inductive invariant behind RunNumbersTracked and CountersStepByOne. *)

(* A copy's counters are not ahead of the server's, and every number it is *)
(* behind by is the name of a BuildRun that exists: a reconcile that starts*)
(* from a stale copy finds its name taken and so never patches a counter.  *)
NumbersTaken(ib) ==
    /\ ib.counter <= srv.counter /\ ib.trigCounter <= srv.trigCounter
    /\ \A k \in (ib.counter + 1) .. srv.counter : buildRunNameFor(k) \in DOMAIN runs
    /\ \A k \in (ib.trigCounter + 1) .. srv.trigCounter :
         onCommitRunNameFor(k) \in DOMAIN runs

StaleNumbersTaken == \A ib \in Copies : NumbersTaken(ib)

(* About to patch a counter, the reconcile holds the run it has created,   *)
(* numbered one above what both its copy and the server have.              *)
CreatedIsNext ==
    /\ pc = "counter" => /\ loc.counter = srv.counter
                         /\ br.name = buildRunNameFor(loc.counter + 1)
                         /\ br.name \in Owned
    /\ pc = "triggered" => /\ loc.trigCounter = srv.trigCounter
                           /\ br.name = onCommitRunNameFor(loc.trigCounter + 1)
                           /\ br.name \in Owned

CountersInv == TypeOK /\ StaleNumbersTaken /\ CreatedIsNext /\ RunNumbersTracked

(* The invariant behind TriggersSpaced: a copy that counts as many triggers*)
(* as the server knows the same last trigger, and about to record a trigger*)
(* the reconcile has found the last one old enough and for another commit. *)
TriggersInv ==
    /\ srv.lastTrig.number = srv.trigCounter
    /\ \A ib \in Copies : ib.trigCounter = srv.trigCounter => ib.lastTrig = srv.lastTrig
    /\ pc = "triggered" =>
         /\ spaced >= loc.lastTrig.number
         /\ ~isDuplicateCommit(loc, loc.pending.commit)

-----------------------------------------------------------------------------
(* The inductive invariant behind the properties at rest.  A change of the *)
(* ImageBuild, its BuildRuns or its Build that has reached the cache has   *)
(* queued it; so a reconcile with nothing queued behind it and an up-to-   *)
(* date cache has the stored ImageBuild, and has written nothing.          *)
Calm == ~queued /\ lag = 0

AfterLabel == PC \ {"idle", "label"}
AfterBuild == AfterLabel \ {"build", "notReady"}
AfterBuildRef == AfterBuild \ {"buildRef"}

(* What a patch is for is what is missing.                                 *)
PatchesAreDue ==
    /\ pc = "label" => loc.label # desiredLabel(loc)
    /\ pc = "buildRef" => ~(loc.buildRef /\ loc.obsGen = loc.gen)
    /\ pc = "ready" => ~readyUpToDate(loc)
    /\ pc = "notReady" => fail.reason # "Reconciled"

BuildIsWanted(ib) == cacheBuild = build => build = newBuild(ib)

(* BuildSucceeded is that of the last BuildRun.                            *)
RunReported(ib) ==
    ib.lastRun \in DOMAIN OwnIn(cacheRuns) =>
        ib.conds.succeeded.reason = deriveBuildSucceededStatus(cacheRuns[ib.lastRun])

ImageReported(ib) ==
    ib.lastRun \in DOMAIN OwnIn(cacheRuns) /\ cacheRuns[ib.lastRun].digest =>
        ib.latestImage.run = ib.lastRun

PushHandled(ib) == faults = 0 /\ crashes = 0 => ~isRebuildEnabled(ib)

NameConflict(ib) == \E n \in NextNames(ib) \cap DOMAIN cacheRuns : ~cacheRuns[n].own

(* Behind a conflict, which is not retried.                                *)
GaveUp(ib) ==
    \/ cacheBuild.owner = "foreign"
    \/ NameConflict(ib) /\ BuildIsWanted(ib) /\ ib.obsGen = ib.gen

(* How far a calm reconcile has come.                                      *)
CalmStage ==
    /\ loc = srv /\ pc # "default"
    /\ pc \in AfterLabel => loc.label = desiredLabel(loc)
    /\ pc \in AfterBuild => BuildIsWanted(loc)
    /\ pc \in AfterBuildRef => loc.obsGen = loc.gen
    /\ pc = "record" => PushHandled(loc)
    /\ pc \in {"status", "ready", "image"} =>
         PushHandled(loc) \/ (br.name # NoRun /\ isActiveBuildRun(br))
    /\ pc \in {"ready", "image"} =>
         IF br.name = NoRun THEN loc.lastRun \notin DOMAIN OwnIn(cacheRuns)
         ELSE /\ loc.lastRun = br.name
              /\ loc.conds.succeeded.reason = deriveBuildSucceededStatus(br)
    /\ pc = "image" => readyUpToDate(loc)
    /\ pc = "notReady" /\ ~fail.requeue => GaveUp(loc)

(* What the last reconcile has left behind.                                *)
CalmRest ==
    /\ srv.label = desiredLabel(srv)
    /\ \/ /\ readyUpToDate(srv) /\ srv.obsGen = srv.gen /\ BuildIsWanted(srv)
          /\ RunReported(srv) /\ ImageReported(srv) /\ PushHandled(srv)
       \/ GaveUp(srv) /\ (faults = 0 => ~Healthy)

(* The BuildRun a reconcile holds, if not created by it, is the cached one.*)
HeldIsCached ==
    /\ pc = "idle" => br = NoHeldRun
    /\ br.name = NoRun => br = NoHeldRun
    /\ pc \in {"counter", "triggered", "record", "status"} => br.name # NoRun
    /\ ~queued /\ br.name \in DOMAIN OwnIn(cacheRuns) => br = Hold(br.name, cacheRuns[br.name])

DigestsSucceed ==
    /\ \A n \in DOMAIN runs : runs[n].digest => runs[n].phase = "succeeded"
    /\ \A n \in DOMAIN cacheRuns : cacheRuns[n].digest => cacheRuns[n].phase = "succeeded"

(* Only a failed write or a crash leaves a trigger unrecorded.             *)
TriggersRecorded ==
    faults = 0 /\ crashes = 0 =>
        /\ \A n \in DOMAIN runs : n[1] = "oncommit" /\ runs[n].own =>
             n[2] <= srv.trigCounter \/ (pc = "triggered" /\ n = br.name)
        /\ \A n \in DOMAIN cacheRuns : n[1] = "oncommit" /\ cacheRuns[n].own =>
             n[2] <= srv.trigCounter \/ (pc = "triggered" /\ n = br.name)

(* Pushes are recorded on an ImageBuild with rebuild enabled.              *)
PushesWanted ==
    /\ cache.rebuild \/ hooks # {} \/ srv.pending # NoEvent => srv.rebuild
    /\ srv.pending.at = 0 => srv.pending = NoEvent
    /\ \A h \in hooks : h.at # 0

NoBuildStops ==
    /\ cacheBuild.owner = "foreign" => build.owner = "foreign"
    /\ build.owner # "own" => pc \notin AfterBuild /\ ~Healthy

CacheIsCurrent == lag = 0 => cache = srv

CalmIsSettled == Calm => IF pc = "idle" THEN CalmRest ELSE CalmStage

SettlingInv ==
    /\ CacheIsCurrent /\ CalmIsSettled
    /\ PatchesAreDue /\ HeldIsCached /\ DigestsSucceed /\ TriggersRecorded
    /\ PushesWanted /\ NoBuildStops

-----------------------------------------------------------------------------
(* Statements of the documentation and of comments that the code does not  *)
(* live up to; each is refuted by a run of its own.                        *)

(* docs/git-webhook.md: on each push the matching ImageBuild triggers a    *)
(* rebuild.  So the commit received last is, in the end, the one built     *)
(* last (patchOnCommitTriggered, patchOnCommitStatus).                     *)
LastCommitTriggered ==
    Quiescent /\ Healthy /\ srv.lastReceived # NoEvent =>
        srv.lastTrig.commit = srv.lastReceived.commit

(* api/v1alpha1: CommitSHA is the commit SHA that triggered the last       *)
(* BuildRun (patchOnCommitTriggered after patchOnCommitStatus).            *)
TriggerHasCommit == srv.lastTrig.number # 0 => srv.lastTrig.commit \in Commits

(* api/v1alpha1: OnCommit rebuilds the image when the desired spec changes.*)
(* So in the end some BuildRun has built the inputs now in the spec        *)
(* (reconcileDefaultBuildRun, recordBuildSpec).                            *)
SpecIsBuilt ==
    Quiescent /\ Healthy => \E n \in DOMAIN runs : runs[n].own /\ runs[n].built = srv.inputs

(* api/v1alpha1: LatestImage is the last successfully produced image       *)
(* reference.  So its digest is that of an image pushed to the repository  *)
(* it names (computeLatestImage).                                          *)
LatestImageWasBuilt ==
    srv.latestImage.run \in DOMAIN runs =>
        runs[srv.latestImage.run].built = srv.latestImage.image

=============================================================================
