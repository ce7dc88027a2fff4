--------------------------- MODULE ImageBuildAPI ---------------------------
(***************************************************************************)
(* The objects the operator works on and the decisions it takes on them,   *)
(* without any state: the ImageBuild custom resource (spec and status in   *)
(* one record), the Shipwright Build and BuildRun as far as the operator   *)
(* looks at them, the JSON merge patch every status write is sent as, and  *)
(* the pure functions of internal/controller/imagebuild.                   *)
(*                                                                         *)
(* An absent optional field is a distinguished value of its own type       *)
(* (NoEvent, NoTrigger, NoRun, NoCondition, NoImage, NoInputs), as Go's    *)
(* zero value or nil pointer is.                                           *)
(***************************************************************************)
EXTENDS Integers

CONSTANTS
    Inputs,    \* values of the build inputs (spec.source, buildFile, output)
    NoInputs,  \* the last-build-spec annotation is absent
    Tagged,    \* the inputs whose output.image carries a tag or a digest
    Commits,   \* commit SHAs of push events
    NoCommit   \* an absent commitSHA field

ASSUME InputsAssumption ==
    /\ Inputs # {}
    /\ NoInputs \notin Inputs
    /\ Tagged \subseteq Inputs

ASSUME CommitsAssumption == NoCommit \notin Commits

-----------------------------------------------------------------------------
(* BuildRuns.  <<"spec", n>> stands for the name "<ib>-buildrun-n" and     *)
(* <<"oncommit", n>> for "<ib>-buildrun-oncommit-n": no two of these names *)
(* coincide.                                                               *)

RunKind == {"spec", "oncommit"}
RunName == RunKind \X (Nat \ {0})
NoRun   == <<"none", 0>>

(* The Succeeded condition of a BuildRun: absent, Unknown, True, False.    *)
Phase == {"pending", "running", "succeeded", "failed"}

(* own: the ImageBuild is its controller owner.  digest: an output digest  *)
(* is reported.  built: the inputs Shipwright read from the Build when it  *)
(* started the run.                                                        *)
Run == [phase: Phase, own: BOOLEAN, digest: BOOLEAN, built: Inputs \cup {NoInputs}]

(* The BuildRun object a reconcile holds in its buildRun variable.         *)
HeldRun == [name: RunName \cup {NoRun}, phase: Phase, digest: BOOLEAN]
NoHeldRun == [name |-> NoRun, phase |-> "pending", digest |-> FALSE]

newBuildRun == [phase |-> "pending", own |-> TRUE, digest |-> FALSE, built |-> NoInputs]

buildRunNameFor(counter) == <<"spec", counter>>
onCommitRunNameFor(counter) == <<"oncommit", counter>>

(* The Shipwright Build: its controller owner and the inputs in its spec.  *)
Build == [owner: {"absent", "orphan", "foreign", "own"}, inputs: Inputs \cup {NoInputs}]

newBuild(ib) == [owner |-> "own", inputs |-> ib.inputs]

-----------------------------------------------------------------------------
(* The ImageBuild.                                                         *)

Event == [commit: Commits \cup {NoCommit}, at: Nat]
NoEvent == [commit |-> NoCommit, at |-> 0]

Trigger == [number: Nat, commit: Commits \cup {NoCommit}]
NoTrigger == [number |-> 0, commit |-> NoCommit]

ReadyReason ==
    {"Reconciled", "WebhookSecretMissing", "WebhookSecretInvalidKey", "MissingPolicy",
     "BuildStrategyNotFound", "BuildConflict", "BuildReconcileFailed",
     "BuildRunConflict", "BuildRunReconcileFailed"}

SucceededReason ==
    {"BuildRunPending", "BuildRunRunning", "BuildRunSucceeded", "BuildRunFailed"}

NoCondition == [reason |-> "none", gen |-> 0]
Conditions ==
    [ready:     [reason: ReadyReason \cup {"none"}, gen: Nat],
     succeeded: [reason: SucceededReason \cup {"none"}, gen: Nat]]

(* An image reference: output.image of some inputs, with the digest of a   *)
(* run, or without digest when run is NoRun.                               *)
Image == [image: Inputs \cup {NoInputs}, run: RunName \cup {NoRun}]
NoImage == [image |-> NoInputs, run |-> NoRun]

ImageBuild ==
    [gen: Nat,                              \* metadata.generation
     inputs: Inputs \cup {NoInputs},        \* spec.source, spec.buildFile, spec.output
     rebuild: BOOLEAN,                      \* spec.rebuild.mode = OnCommit
     label: {"absent", "true", "false"},    \* label oncommit-enabled
     lastSpec: Inputs \cup {NoInputs},      \* annotation last-build-spec
     obsGen: Nat,                           \* status.observedGeneration
     buildRef: BOOLEAN,                     \* status.buildRef is set
     conds: Conditions,                     \* status.conditions
     latestImage: Image,                    \* status.latestImage
     lastRun: RunName \cup {NoRun},         \* status.lastBuildRunRef
     counter: Nat,                          \* status.buildRunCounter
     pending: Event,                        \* status.onCommit.pending
     lastReceived: Event,                   \* status.onCommit.lastReceived
     lastTrig: Trigger,                     \* status.onCommit.lastTriggeredBuildRun
     trigCounter: Nat]                      \* status.onCommit.triggerCounter

(* An ImageBuild as a user creates it.                                     *)
NewImageBuild(i, onCommit) ==
    [gen |-> 1, inputs |-> i, rebuild |-> onCommit, label |-> "absent",
     lastSpec |-> NoInputs, obsGen |-> 0, buildRef |-> FALSE,
     conds |-> [ready |-> NoCondition, succeeded |-> NoCondition],
     latestImage |-> NoImage, lastRun |-> NoRun, counter |-> 0,
     pending |-> NoEvent, lastReceived |-> NoEvent,
     lastTrig |-> NoTrigger, trigCounter |-> 0]

(* The value of the reconciler's variable while no reconcile is running.   *)
NoCopy == [NewImageBuild(NoInputs, FALSE) EXCEPT !.gen = 0]

-----------------------------------------------------------------------------
(* Operators whose names end in _bug are deliberate mistakes, each a form  *)
(* of the definition below it that some property must reject.              *)

(* Merge patches.  client.MergeFrom(orig) sends the fields in which the    *)
(* local object differs from orig; the API server overwrites those and     *)
(* keeps what it has stored in the others.  status.conditions is a list    *)
(* and so one field.                                                       *)
MergePatch_bug(stored, orig, new) == new

MergePatch(stored, orig, new) ==
    [f \in DOMAIN stored |-> IF new[f] = orig[f] THEN stored[f] ELSE new[f]]

(* An event is an object: its fields are merged one by one.                *)
MergeEvent(stored, orig, new) ==
    [commit |-> IF orig.at # 0 /\ orig.commit = new.commit
                THEN stored.commit ELSE new.commit,
     at     |-> new.at]

-----------------------------------------------------------------------------
(* Decisions.                                                              *)

nextCounter_bug(current) == current
nextCounter_skip_bug(current) == current + 2

nextCounter(current) == IF current < 0 THEN 1 ELSE current + 1

desiredLabel(ib) == IF ib.rebuild THEN "true" ELSE "false"

isSpecDrifted(ib) ==
    \/ ib.lastRun = NoRun
    \/ ib.lastSpec # ib.inputs

isRebuildEnabled(ib) == ib.rebuild /\ ib.pending.at # 0

(* debounced: the newest event received at least onCommitDebounce ago.     *)
(* spaced: the newest trigger at least onCommitMinInterval ago.            *)
remainingWait_bug(ib, debounced, spaced) == ib.pending.at > debounced
remainingWait_edge_bug(ib, debounced, spaced) ==
    ib.pending.at >= debounced \/ ib.lastTrig.number > spaced

remainingWait(ib, debounced, spaced) ==
    \/ ib.pending.at > debounced
    \/ ib.lastTrig.number > spaced

isDuplicateCommit_bug(ib, commit) == FALSE

isDuplicateCommit(ib, commit) ==
    /\ ib.lastTrig.number # 0
    /\ ib.lastTrig.commit = commit

(* metav1.IsControlledBy(run, ib).                                         *)
isControlledBy_bug(run) == TRUE

isControlledBy(run) == run.own

isActiveBuildRun(run) == run.phase \in {"pending", "running"}

deriveBuildSucceededStatus(run) ==
    [pending   |-> "BuildRunPending",
     running   |-> "BuildRunRunning",
     succeeded |-> "BuildRunSucceeded",
     failed    |-> "BuildRunFailed"][run.phase]

computeLatestImage(ib, run) ==
    IF run.digest THEN [image |-> ib.inputs, run |-> run.name]
    ELSE IF ib.inputs \in Tagged THEN [image |-> ib.inputs, run |-> NoRun]
    ELSE NoImage

(* The image reconcileStatus reports for the BuildRun it holds.            *)
imageToReport_bug(ib, run) ==
    IF run.phase = "succeeded" /\ ib.latestImage = NoImage
    THEN computeLatestImage(ib, run) ELSE NoImage

imageToReport(ib, run) ==
    IF run.phase = "succeeded" THEN computeLatestImage(ib, run) ELSE NoImage

(* reconcileStatus writes Ready only when that says something new.         *)
readyUpToDate_bug(ib) == ib.conds.ready.reason = "Reconciled"

readyUpToDate(ib) == ib.conds.ready = [reason |-> "Reconciled", gen |-> ib.gen]

(* reconcileStatus asks for another look while BuildSucceeded is Unknown.  *)
poll_bug(ib) == ib.conds.succeeded.reason # "BuildRunSucceeded"

poll(ib) == ib.conds.succeeded.reason \in {"BuildRunPending", "BuildRunRunning"}

=============================================================================
