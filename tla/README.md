# Verification of image-builder-operator

TLA+ models of the operator, model-checked with TLC and proved about with TLAPS. Paths are
relative to the repository.

## The system

The operator turns an `ImageBuild` custom resource into a Shipwright `Build` and a series of
`BuildRun`s, and reports the produced image in the resource's status.

| Part | State it keeps | Operations | Interacts with |
|---|---|---|---|
| Reconciler, `internal/controller/imagebuild` | nothing between reconciles; all state is in the objects | `Reconcile`: label, secret check, Build, BuildRun (on commit, else on spec change), status | reads informer caches, writes the API server by merge patch, `Create` and one `Update` |
| Build construction, `build.go`, `retention.go` | the `Build` object | `ensureBuild` (CreateOrPatch), `newBuild`, `resolveRetention` | policy, strategy, somebody else's Build of the same name |
| Git webhook, `internal/webhook/git` | `status.onCommit.pending` and `lastReceived` | `ServeHTTP`: detect provider, match, authenticate, `patchOnCommitStatus` | concurrent with the reconciler, on the same status, and with itself |
| API types, `api/v1alpha1` | spec, status, label, annotation, policy | - | shared by all |
| Process, `cmd/main.go` | leader lease | wiring, leader election | crash and fail-over |
| Shipwright (external) | BuildRun phase, digest | starts, finishes and, under retention, deletes runs | reads the Build when a run starts |

Hard behaviour:

* every read comes from a cache that may be older than the reconciler's own last write;
* every write but one is a merge patch without resourceVersion: it overwrites the fields that
  differ between two local copies, whatever the server has by then, and its response replaces
  the local copy, spec included;
* a reconcile is up to eight writes, and a fault, a crash, a user edit, a webhook request or a
  Shipwright step may come between any two;
* a BuildRun is created before the counter that names the next one is patched;
* debounce and minimum interval are measured on cached timestamps, and the timers that wake the
  reconciler share one queue entry and are lost at a restart;
* the webhook serves requests concurrently, each a loop over several ImageBuilds that users edit
  meanwhile, and an error ends the loop;
* the policy and the strategies are read but not watched.

Correctness, per part: BuildRun numbers are used once and in order; triggers keep their
distance and are not repeated for a commit; at rest the Build and the status agree with the
stored spec, the policy and the last run; a push reaches every ImageBuild it concerns and no
other; nothing that is left to do is forgotten; objects of others are left alone; retries and
polling end. The last two have exceptions in the code, which the properties name and "What the
code does not do" lists. `PROJECT.json` lists each hazard with its line and the properties aimed at it.

## Modules

| Module | Subject |
|---|---|
| `ImageBuildAPI` | the objects as records, the merge patch, and the pure decisions (`nextCounter`, `isSpecDrifted`, `remainingWait`, `computeLatestImage`, ...); no state |
| `ImageBuildController` | one ImageBuild with its reconciler, the informer caches, the webhook requests in flight, Shipwright, the user, the clock and process crashes |
| `BuildRunLedger` | abstract: what is promised about BuildRuns, counters and triggers, without caches, copies, patches or retries |
| `OnCommitTiming` | the delays: debounce, minimum interval, poll and retry for an unbounded history |
| `GitWebhook` | `ServeHTTP` for concurrent requests over several ImageBuilds |
| `BuildPolicy` | `reconcileBuild`: the Build field by field, from ImageBuild, policy and strategies that change |
| `MCImageBuildController`, `MCGitWebhook`, `MCBuildPolicy` | constants for TLC (`OnCommitTiming` needs none) |
| `ImageBuildControllerProofs`, `NumberingProofs`, `LedgerProofs`, `OwnershipProofs`, `SettlingProofs` | theorems about `ImageBuildController` |
| `TimingProofs`, `WebhookProofs`, `BuildPolicyProofs` | theorems about the module each extends |

`ImageBuildController` composes reconciler, webhook patch and Shipwright on one object.
`GitWebhook`, `BuildPolicy` and `OnCommitTiming` each look closer at one of its steps
(`WebhookReceives`, `ensureBuild`, `onCommitWaits`) and leave the rest out.

### ImageBuildController

`srv`, `runs`, `build`, `deps` are what the API server stores. `cache`, `cacheRuns`,
`cacheBuild` are the informers' copies. `pc` names the next write of the running reconcile
(one per ImageBuild, as the workqueue guarantees); `loc`, `br` are its `imageBuild` and
`buildRun` variables. Each write of the reconcile is one action with the name of its function;
each has the outcomes applied, refused, and applied with the response lost. The conditions,
early returns and requeues between two writes belong to the action before or after them.

* A read that only decides about the next write happens at the instant of that write; a write
  the code skips is skipped in the step before it.
* A merge patch is `MergePatch(stored, orig, new)`: field by field, with `status.conditions` one
  field because it is a list, and on-commit events merged one level deeper (`MergeEvent`).
* The webhook's patch carries no resourceVersion either, so its `RetryOnConflict` never retries.
* `recordBuildSpec` includes the `Update`, the one write with a resourceVersion: `locFresh` says
  whether the copy's is the stored one.
* `lag` counts the versions `cache` is behind. `SyncImageBuild`, `SyncRuns` and `SyncBuild` bring
  a cache up to date and queue the ImageBuild, as the watches of `SetupWithManager` do.
* An error return and a `RequeueAfter` both put the key back (`queued`); the delay is the subject
  of `OnCommitTiming`. A conflict over ownership does not. A failing `setNotReady` is only logged.
* `debounced` is the newest delivery at least 10 s old, `spaced` the newest trigger at least 30 s
  old; deliveries are numbered and the number stands for `receivedAt`, so two deliveries never
  share a second.
* `spec.source`, `spec.buildFile` and `spec.output` are one value; it also stands for
  `output.image`. `Tagged` are the values whose image has a tag or digest. Messages of
  conditions are left out. Names are `<<"spec", n>>` and `<<"oncommit", n>>`.
* `InitCreated` is a freshly created ImageBuild; `InitSettled` is the state the reconciler
  leaves after the first successful run, from which longer histories fit the bounds. `InitInputs`
  are the specs it starts from: all of them where inputs are symmetric, else one.
* Somebody else may have the Build or BuildRuns under names the operator will derive from the
  start (`InitOwners`, `InitForeign`), and may take them at any later time, behind caches that do
  not show it yet (`ForeignBuildAppears`, `ForeignRunAppears`; `LaterBuild` and `LaterForeign` say
  what a run allows). A BuildRun's name may be taken again once the operator's own run is deleted;
  `lost` keeps the names of such runs for the properties. An informer's event queues the
  ImageBuild only for objects it owns or owned (`OwnIn`). Foreign BuildRuns are complete and stay.
* `getLastBuildRun` reads whatever has the name in `lastBuildRunRef`, as the code does, without
  looking at its owner.
* `RetainedLongEnough` is an assumption on the environment: a completed BuildRun is removed only
  when the cache shows it, both copies of the ImageBuild count every run the server counts, and
  the reconcile is not about to count that very run. It says nothing of whether the status has
  reported the run. Without it a stale copy could find the name of a deleted run free and number
  a run twice.

### BuildRunLedger

The abstract specification: names of own and foreign BuildRuns, the number of counted runs, the
last trigger and whether it is old enough. A run is created under the number after the last one
counted, and counted afterwards; a run for a commit only when the last trigger is old enough; a
trigger is recorded for another commit than the last. The refinement mapping is in
`ImageBuildController` (`Ledger == INSTANCE BuildRunLedger WITH owned <- Owned, ...`); the property
`RefinesLedger` is the ledger's specification under it.

### GitWebhook

`pc`, `wire`, `left`, `cur`, `orig`, `at`, `answer` and `written` are the variables of each request:
what it does next, the request, the matches its loop has not come to, the ImageBuild it patches,
the copy it read, `now`, the HTTP status and the ImageBuilds it wrote. A step is a read or a write
of the API: `Receive` (detection and payload), `ListMatches`, one of `SecretFails`,
`Unauthenticated`, `Authenticated` per match, `patchOnCommitStatus`, `Finish`. `due` and `touched`
are history for the properties: whom the push concerned when it was listed, by a definition that
does not go through `repoIdentity` (`Concerns`), and whom users changed since.

* A URL is a repository, a form (SSH or HTTPS), its case and what follows the name (nothing, "/",
  ".git", ".git/"); `Hosted` are the repositories `vcsurl.Parse` understands. `repoIdentity` maps
  all URLs of those to one identity; for the others `normalizeRepoURL` lowers the case and trims
  first slashes, then ".git". Names that differ in nothing but case count as one repository.
* A push without ref or without clone URL is rejected (`newPushEvent`).
* A request carries the headers of one provider or both, a payload of one of them or garbage, and
  the secret it is signed with; HMAC and token comparison become equality of secrets.
* Requests are listed in an arbitrary order, as from the cache. The model keeps `lastReceived`,
  which nobody else writes; `pending` is treated in `ImageBuildController`. Each request has its own
  receive time.
* A crash in the middle (`Dies`) leaves the sender without an answer.

### BuildPolicy

`ib`, `policy` and `strategies` are what the caches show; `build` and `cached` are the Build on the
server and in the cache; `events` are the owners in watch events on their way, because an event
queues the ImageBuild only if it owns the Build or did. The reconcile reads the policy, then the
strategy, then ensures the Build and records its name; then comes the BuildRun part, of which only
that it may fail or have to wait is kept, and at last `reconcileStatus` reports Ready. `queued` and `retry` are the workqueue and its timer. `patched`
is the merge patch of the fields that differ from the cached copy, with a retention that is
dropped altogether sent as null. `Wanted` is the reference: an ImageBuild's retention object
replaces the policy's as a whole, even if it is empty. The Build's label is one of its fields.
Somebody else may have the Build from the start, create one when there is none, or take over one
without owner, at any time (`ForeignBuildAppears`). The patch sends an owner only if the cached copy
has none (`patchedOwner`), and goes to whichever Build has the name by then.

### OnCommitTiming

`age` and `since` count up to the interval they are compared with. A reconcile is one step, short
against the intervals. `AddAfter` keeps the earlier of two times, as the delaying queue does. A
failed write between a run's creation and its record is left to `ImageBuildController`
(`unrecorded_trigger` shows what becomes of it).

## Runs

| Run | Shows | Bounds |
|---|---|---|
| `spec_changes` | status and Build settle, with the invariant behind it; counters step by one; everything comes to rest, but for one endless poll | 1 edit of inputs or rebuild mode, 1 delivery, 1 fault or crash, 1 deletion, lag 1, failed runs, the next name taken or not |
| `oncommit_faults` | triggers keep their distance, with the invariant behind it; nothing stays pending before a fault or crash; the ledger is refined | 2 deliveries, 2 commits, 1 fault, 1 crash, lag 1, the next name taken at any time |
| `interleaved` | the image is the last run's; the invariant of the numbering; the ledger is refined | 1 edit against 1 delivery, 1 deletion, lag 1 |
| `dependencies` | types; numbers within one of the counter; only conflicts over a name stick; foreign objects untouched, with the invariant behind it | creation, at most one dependency missing, the Build and the first name taken at any time, 1 fault, 1 crash, 1 deletion, two run results |
| `git_webhook` | a push reaches whom it concerns or a 500 with a cause, and nobody else; what is recorded was pushed | 2 requests, 2 ImageBuilds, 2 repositories, one of them spelled differently in spec and push, 3 secrets, 1 edit, 1 fault |
| `build_policy` | the Build is whole at rest; it follows policy and strategies in the end | 3 specs, 3 policies or none, 2 strategies, any owner at any time, 2 changes, 1 fault or wait |
| `debounce` | nothing is forgotten; only pushes delay: a run that ended is reported or superseded | 2 commits; intervals in the code's proportion (2, 6, 2, 6 for 10, 30, 10, 30 s); histories unbounded |

Two specs, two deliveries and one fault are enough for every pair of concurrent writers and for
a retry on top of it; lag 1 lets a reconcile start from a copy older than its predecessor's last
write. Two ImageBuilds are enough for one to end the loop before the other, two requests for one
to merge over the other's write; two changes and a fault for a policy to change while a patch is
under way and the response to be lost, or for a Build to be deleted and created by somebody else
behind the cache. `spec_changes`, where liveness is checked, keeps to failed runs and to a
deletion with one fault or one crash (`MaxFailures`). `interleaved` has neither fault nor crash:
those between a run's creation and its counter are met in `dependencies`, `spec_changes` and
`oncommit_faults`, and covered by the theorems. The invariants the proofs rest on are checked in
these runs too. Deadlock is checked in `build_policy` and `debounce`; elsewhere an operator with
nothing to do stops, and `Quiescent` says what that means. Inputs, commits and ImageBuilds are
symmetric except where liveness is checked or single values matter.

Every property of these runs is tried against a mutated definition (the operators ending in
`_bug`): TLC must find it violated.

### Fairness

* `ImageBuildController`: the worker keeps taking keys and finishing reconciles, informers deliver,
  a request that was read is patched, Shipwright starts and finishes runs, and time passes. Weak
  fairness is enough, and controller-runtime's worker and informer loops give it.
* `BuildPolicy`: the same of worker, retry timer and informer, and `Resync`: controller-runtime's
  cache replays its objects every ten hours by default (`SyncPeriod`, which `cmd/main.go` leaves
  alone). It is what makes the Build follow a policy nobody watches.
* `OnCommitTiming`: time passes, timers fire, runs end, and a reconcile that is tried again and
  again succeeds sometime (strong fairness, since failures may come in between). Without the last
  a permanently failing API server would be enough to delay anything.

Nothing is assumed of users, administrators, pushes, faults, crashes or retention.

### What the code does not do

Five runs are expected to end in a counterexample; each checks a sentence of the documentation
or of a comment.

| Run | Refuted |
|---|---|
| `unrecorded_trigger` | each push triggers a rebuild (docs/git-webhook.md): one failure after the run's creation and the trigger is never recorded; later pushes reuse the finished run |
| `lost_push` | the same: clearing `pending` also clears a newer push |
| `redelivered_push` | a trigger has a commit: a merge over a stale event drops `commitSHA` |
| `edit_during_reconcile` | a changed spec is rebuilt: the annotation records a spec the run did not build |
| `image_of_other_spec` | the reported image was produced |

Divergences without a run of their own, met while modelling. The first three are the exceptions
that `ComesToRest` and `ForeignUntouched` make; TLC finds each property violated without them:

* a last BuildRun that is deleted, by a user or by retention, before its end was reported leaves
  `BuildSucceeded` Unknown: `getLastBuildRun` then returns nothing, and `reconcileStatus` asks for
  another look every ten seconds for ever (`LostUnreported`). A test of `reconcileStatus` is called
  "skips polling when no build run exists" (`controller_test.go:453`), but has no condition yet;
* `getLastBuildRun` does not ask whose BuildRun it reads: after the last run was deleted, a run
  somebody else creates under that name is reported in `BuildSucceeded` and `latestImage`;
* `CreateOrPatch` patches whichever Build has the name when the patch arrives: one the cache shows
  without owner is taken over from whoever has become its owner since (`ForeignUntouched` exempts
  this), and one the cache shows as its own, deleted and created by somebody else since, has its
  fields overwritten (in `BuildPolicy`; the next reconcile reports the conflict);
* a run that ended is never reported when a newer commit or an edit replaces it first: its result
  and image are not written (`OnlyPushesDelay` says "reported or superseded");
* a reconcile that starts from a copy between two writes of the previous one creates a second
  BuildRun for an unchanged spec;
* after a crash between `Create` and the counter patch `buildRunCounter` stays one behind;
* `observedGeneration` may be a generation the Build does not reflect yet, because it is taken
  from a copy that an earlier response refreshed;
* a conflict over a BuildRun's name is not retried, and when its report (`setNotReady`) fails, `Ready`
  and `BuildSucceeded` stay as they were, of an older generation: `StatusSettles` and
  `LatestImageSettles` exempt such a name (`NameTaken`);
* one matching ImageBuild with an unusable secret withholds a push from the matches after it; the
  sender gets a 500 (`WithheldOnlyByError` says that it does), contrary to "on each push";
* `validateWebhookSecret` accepts an ImageBuild without `onCommit` and a Secret whose value is
  empty, `getWebhookSecret` rejects both: such an ImageBuild is Ready and causes that 500;
* `status.onCommit.lastReceived` may join the commit of one push with the time of another, and may
  go back in time;
* pushes less than ten seconds apart postpone not only the build but also spec edits and the
  report of a finished run, for as long as they keep coming;
* a changed policy reaches the Build up to ten hours later; what happens to somebody else's Build
  or BuildRun sends no event either;
* a Build deleted between the cached read and the patch is reported as `BuildStrategyNotFound`
  until the retry.

## Proofs

All theorems hold for every value of the constants. They rest on the named assumptions on the
constants, on the bounds only through their being natural numbers, and, for the numbering, the
ledger and the properties at rest, on `RetainedLongEnough`.

* `ImageBuildControllerProofs`: `TypeCorrect` - `Spec => []TypeOK`. One lemma per way a step of the
  reconcile ends (`ProceedType`, `FinishType`, `AbandonType`, `SkipType`), one per shape of a write,
  then one step per action.
* `NumberingProofs`: `NumberingInvariant` (`NumberingInv = CountersInv /\ TriggersInv` is inductive),
  its parts `CountersInvariant` and `TriggersInvariant`, and from them `RunsTracked`,
  `CountersStep` and `TriggersAreSpaced`. None of the three is inductive. A reconcile may start
  from a stale copy and derive an old number; what saves it is that every number between its
  counter and the server's is the name of a BuildRun that exists (`StaleNumbersTaken`), so
  `Create` is refused or the run is reused, and the counter is patched only from a copy whose
  counter is the server's (`CreatedIsNext`). For the same reason a copy about to record a trigger
  has the stored last trigger, and the checks made on it hold of the server (`TriggersInv`). The
  proof splits the steps (`StepCases`) into those that keep the numbering - almost all, dealt with
  once in `KeptInv` - and creating, counting, triggering and deleting.
* `LedgerProofs`: `LedgerImplemented` - `Spec => RefinesLedger`. Each of those cases is a step of the
  ledger: creating is `CreateForSpec` or `CreateForCommit`, because a name that is free can only be
  derived from an up-to-date counter; counting, recording and deleting are `Count`, `Record` and
  `Remove`; the rest stutters.
* `OwnershipProofs`: `OwnershipInvariant` and from it `ForeignIsUntouched` - `Spec => ForeignUntouched`,
  with names taken at any time and caches that show it late. The reconciler decides from caches
  that may show neither the taken name nor, for a while, that its own run is gone. `OwnershipInv`
  says what cannot go wrong: the last run's name in every copy, and the held run's, is of an owned
  run or of one that was (`Owned \cup lost`, which only grows); what the cache shows as owned is or
  was, and what it shows as foreign is; and as long as nobody owns the Build, or the cache shows
  it as owned, the two agree on that. A run that is created or reused is owned at that moment, so
  a name outside `lost` that becomes foreign was never held.
* `SettlingProofs`: `SettlingInvariant` (inductive together with `NumberingInv` and
  `OwnershipInv`), and from it `StatusIsSettled`, `BuildIsSettled`, `LatestImageIsSettled`,
  `ConflictsStick` and `PendingIsSettled`. Rest says nothing by itself about the past; what helps
  is that every write of a reconcile makes a version that the informer has yet to deliver, and the
  delivery queues the ImageBuild. So rest is only reached by a reconcile that wrote nothing. While
  the ImageBuild is up to date in the cache and not queued (`Calm`), `CalmStage` says at each `pc`
  what such a reconcile has found on its way, and `CalmRest` what it leaves; one lemma per exit of
  a step shows that a write ends the calm or that the patch was empty. Foreign objects queue
  nothing, so the invariant speaks of the owned part of the caches (`OwnIn`): what others do, and
  the delivery of it, leaves that part alone (`SameView`, `ForeignSettles`). The other parts are what a
  calm reconcile leans on: patches are due when they are under way, a held run is the cached one,
  only a successful run has a digest, without a failed write or a crash every on-commit run is
  recorded or just being recorded. `AtRest` draws the conclusion.
* `WebhookProofs`: `WebhookInvariant`, and from it `PushReachesAllDue`, `PushReachesOnlyDue`,
  `RecordIsOfPushes` and `ErrorsHaveCauses`. The invariant relates the loop to the list it was
  made from: what is due is written or still to come, what is still to come matched and is due
  exactly if it authenticates, unless users touched it; and a cached event is never one of an
  ImageBuild that has none stored. For the cause of a 500, `CauseInv` adds that without edits
  nothing is touched, so every match still to come exists and matches, and only an unusable secret
  can end the loop.
* `BuildPolicyProofs`: `NewBuildIsWanted` (for every ImageBuild and policy `newBuild` is the reference
  `Wanted`), `PolicyInvariant`, `BuildIsWholeAtRest`. A single reconcile may leave a mixed Build,
  patched over a stale copy or over somebody else's Build; the invariant says that from then to the
  report, and after it, an event of an owned Build is on its way and queues another reconcile
  (`Ensured`).
* `TimingProofs`: `NothingIsForgotten`. `NothingForgotten` with the types is inductive; `Looked`, what
  holds after any reconcile, is shown once per way out of it.

Only model-checked: liveness (`ComesToRest`, `FollowsPolicy`, `OnlyPushesDelay`), which is out of the
prover's reach. That rest is reached at all is therefore `ComesToRest` on its instance; what holds
once it is reached is proved for every instance.

## Not modelled

* Deletion and re-creation of the ImageBuild with leftover BuildRuns, and turning rebuild off: the
  reconciler has no code for either beyond returning on not-found and writing the label.
* Foreign BuildRuns that run, change or vanish, and in `ImageBuildController` a foreign Build that
  vanishes (`BuildPolicy` has that).
* In `ImageBuildController`: policy, strategy or secret that disappear, and deletion of the Build
  (`BuildPolicy` has the first two and the last); failing reads, which return an error as failing
  writes do; several ImageBuilds (`GitWebhook` has them).
* Two reconcilers at a time: the manifests start the operator with `--leader-elect`.
* HMAC, JSON and URL parsing (libraries), timestamps within a second, condition messages, flags,
  certificates, metrics and events; generated code and manifests.

## Plan

Modelled and proved as above: every safety property of the runs is a theorem. Left: an abstract
specification of pushes (recorded, then built or superseded), which the code implements only
without the races of `lost_push` and `unrecorded_trigger`, and its refinement under these
exclusions; the webhook's status patch of `ImageBuildController` as an abstraction of `GitWebhook`;
action properties of the annotation and of `observedGeneration`.
