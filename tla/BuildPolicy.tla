---------------------------- MODULE BuildPolicy ----------------------------
(***************************************************************************)
(* reconcileBuild: the Shipwright Build an ImageBuild and the cluster-wide *)
(* ImageBuildPolicy ask for, and how the Build follows the two.  Policy    *)
(* and ClusterBuildStrategy are read but not watched; the Build is patched *)
(* with what differs from its cached copy; every field of spec is kept, so *)
(* that a patch computed from a stale copy may mix two versions.           *)
(*                                                                         *)
(* ImageBuild, policy and strategies are what the informer caches show:    *)
(* an edit of the ImageBuild arrives together with its event.              *)
(***************************************************************************)
EXTENDS Integers

CONSTANTS
    Unset,        \* an absent field, a nil pointer
    NoRetention,  \* no retention object, which is not an empty one
    Strategies,   \* names of ClusterBuildStrategies
    Values,       \* URLs, images, revisions, directories and names of secrets
    Durations,    \* TTLs
    Specs,        \* what users put into the ImageBuild
    Policies,     \* what administrators put into the policy
    NoPolicy,     \* there is no policy
    InitStrategies, \* the ClusterBuildStrategies there may be at first
    InitOwners,   \* whose Build there may be at first
    Tampered,     \* fields of the Build somebody else may clear
    MaxChanges,   \* bound on changes by users and administrators
    MaxFaults     \* bound on failing reads and writes of the API

(* The limits the CRD accepts.                                             *)
Limits == 1 .. 10000

Retention ==
    [failedLimit: Limits \cup {Unset}, succeededLimit: Limits \cup {Unset},
     ttlAfterFailed: Durations \cup {Unset}, ttlAfterSucceeded: Durations \cup {Unset}]

(* Revision and contextDir are strings, which may be empty; the secrets    *)
(* are references, which may be nil or have an empty name.                 *)
Optional == {"revision", "contextDir", "cloneSecret", "pushSecret"}
Empty == {"", "nil"}

ImageBuildSpec ==
    [mode: {"Present", "Absent"}, url: Values, image: Values,
     optional: [Optional -> Values \cup Empty], retention: Retention \cup {NoRetention}]

ImageBuildPolicySpec ==
    [present: Strategies, absent: Strategies, retention: Retention \cup {NoRetention}]

ASSUME PolicyAssumption ==
    /\ Unset \notin Limits \cup Durations \cup Values \cup Strategies
    /\ Values \cap Empty = {} /\ NoRetention \notin Retention
    /\ Specs \subseteq ImageBuildSpec /\ Specs # {}
    /\ Policies \subseteq ImageBuildPolicySpec /\ NoPolicy \notin Policies
    /\ InitOwners \subseteq {"absent", "orphan", "foreign"}
    /\ InitStrategies \subseteq SUBSET Strategies
    /\ MaxChanges \in Nat /\ MaxFaults \in Nat

-----------------------------------------------------------------------------
(* newBuild.                                                               *)

RetentionParams ==
    {"failedLimit", "succeededLimit", "ttlAfterFailed", "ttlAfterSucceeded"}
Fields == {"label", "strategy", "url", "image"} \cup Optional \cup RetentionParams

(* A Build: its controller owner, and its fields; absent: there is none.   *)
Build(owner, fields) == [owner |-> owner, fields |-> fields]
NoFields == [f \in Fields |-> Unset]
NoBuild == Build("absent", NoFields)

hasRetentionParams(r) == r # NoRetention /\ \E p \in RetentionParams : r[p] # Unset

resolveRetention_bug(i, p) ==
    IF hasRetentionParams(i.retention) THEN i.retention
    ELSE IF hasRetentionParams(p.retention) THEN p.retention ELSE NoRetention

resolveRetention(i, p) ==
    IF i.retention # NoRetention
    THEN IF hasRetentionParams(i.retention) THEN i.retention ELSE NoRetention
    ELSE IF hasRetentionParams(p.retention) THEN p.retention ELSE NoRetention

uintFromNonNegativeInt32(v) == IF v < 0 THEN 0 ELSE v

newBuildRetention(r) ==
    [p \in RetentionParams |->
        IF r = NoRetention \/ r[p] = Unset THEN Unset
        ELSE IF p \in {"failedLimit", "succeededLimit"} THEN uintFromNonNegativeInt32(r[p])
        ELSE r[p]]

selectedStrategyName(i, p) == IF i.mode = "Present" THEN p.present ELSE p.absent

newBuild(i, p) ==
    [f \in Fields |->
        CASE f = "label" -> "parent"
          [] f = "strategy" -> selectedStrategyName(i, p)
          [] f = "url" -> i.url
          [] f = "image" -> i.image
          [] f \in Optional -> IF i.optional[f] \in Empty THEN Unset ELSE i.optional[f]
          [] f \in RetentionParams -> newBuildRetention(resolveRetention(i, p))[f]]

(* What is wanted, as the API documents it: an ImageBuild's retention      *)
(* object replaces the policy's as a whole, even if it is empty.           *)
Wanted(i, p) ==
    LET r == IF i.retention = NoRetention THEN p.retention ELSE i.retention IN
    [f \in Fields |->
        CASE f = "label" -> "parent"
          [] f = "strategy" -> IF i.mode = "Absent" THEN p.absent ELSE p.present
          [] f \in {"url", "image"} -> i[f]
          [] f \in Optional -> IF i.optional[f] \in Values THEN i.optional[f] ELSE Unset
          [] f \in RetentionParams -> IF r = NoRetention THEN Unset ELSE r[f]]

-----------------------------------------------------------------------------
VARIABLES
    ib, policy,    \* the ImageBuild and the policy
    strategies,    \* the ClusterBuildStrategies there are
    build,         \* the Build at the API server
    cached,        \* the Build in the informer cache
    events,        \* owners of the Builds in events on their way to the cache
    result,        \* how the last reconcileBuild ended
    reason,        \* what the Ready condition says of it
    queued,        \* the work queue holds the ImageBuild
    retry,         \* ... or will, after errorRequeueInterval
    pc,            \* what the reconcile does next
    my, pol,       \* the ImageBuild and the policy it read
    changes, faults

cluster == <<ib, policy, strategies>>
bounds == <<changes, faults>>
vars == <<cluster, build, cached, events, result, reason, queued, retry, pc, my, pol, bounds>>

Init ==
    /\ ib \in Specs /\ policy \in Policies \cup {NoPolicy}
    /\ strategies \in InitStrategies
    /\ \E o \in InitOwners : build = Build(o, NoFields)
    /\ cached = build /\ events = {}
    /\ result = "none" /\ reason = "none" /\ queued = TRUE /\ retry = FALSE
    /\ pc = "idle" /\ my = ib /\ pol = NoPolicy
    /\ changes = 0 /\ faults = 0

-----------------------------------------------------------------------------
(* The reconciler.                                                         *)

Fault == faults < MaxFaults /\ faults' = faults + 1

(* A write of the Build, which its informer learns of later.               *)
Write(b) == build' = b /\ events' = events \cup {b.owner, build.owner}

StartReconcile ==
    /\ pc = "idle" /\ queued /\ queued' = FALSE
    /\ pc' = "policy" /\ my' = ib
    /\ UNCHANGED <<cluster, build, cached, events, result, reason, retry, pol, bounds>>

(* setNotReady logs a patch that fails and goes on.                        *)
setNotReady(why) ==
    \/ reason' = why /\ UNCHANGED faults
    \/ Fault /\ UNCHANGED reason

(* reconcileBuild's error: retried, except that of a Build somebody else   *)
(* owns.                                                                   *)
Fails(why) ==
    /\ pc' = "idle" /\ result' = why /\ setNotReady(why)
    /\ retry' = (retry \/ why # "BuildConflict")

GetPolicy ==
    /\ pc = "policy" /\ pol' = policy
    /\ \/ policy # NoPolicy /\ pc' = "strategy" /\ UNCHANGED <<result, reason, retry, faults>>
       \/ policy = NoPolicy /\ Fails("MissingPolicy")
    /\ UNCHANGED <<cluster, build, cached, events, queued, my, changes>>

(* Any other error is retried without a word.                              *)
GetPolicyFails ==
    /\ pc = "policy" /\ Fault
    /\ pc' = "idle" /\ retry' = TRUE /\ result' = "failed"
    /\ UNCHANGED <<cluster, build, cached, events, reason, queued, my, pol, changes>>

GetStrategy ==
    /\ pc = "strategy"
    /\ \/ /\ selectedStrategyName(my, pol) \in strategies /\ pc' = "build"
          /\ UNCHANGED <<result, reason, retry, faults>>
       \/ selectedStrategyName(my, pol) \notin strategies /\ Fails("BuildStrategyNotFound")
    /\ UNCHANGED <<cluster, build, cached, events, queued, my, pol, changes>>

(* A failure on the way to Ready, which is tried again.                    *)
Stops == Fault /\ pc' = "idle" /\ result' = "failed" /\ retry' = TRUE

(* The merge patch: the fields in which desired differs from the cached    *)
(* copy.  A retention that is dropped altogether is sent as null and takes *)
(* every parameter along.                                                  *)
patched(stored, copy, new) ==
    [f \in Fields |->
        IF /\ f \in RetentionParams
           /\ \A p \in RetentionParams : new[p] = Unset
           /\ \E p \in RetentionParams : copy[p] # Unset
        THEN Unset
        ELSE IF new[f] = copy[f] THEN stored[f] ELSE new[f]]

(* SetControllerReference on the cached copy: an owner that copy has       *)
(* already is not sent, and whoever owns the stored Build by now keeps it. *)
patchedOwner == IF cached.owner = "own" THEN build.owner ELSE "own"

patchedBuild ==
    Build(patchedOwner, patched(build.fields, cached.fields, newBuild(my, pol)))

(* CreateOrPatch writes nothing if the cached copy is as desired.          *)
upToDate == cached = Build("own", newBuild(my, pol))

Succeeds ==
    \/ pc' = "status" /\ UNCHANGED <<result, reason, retry, faults>>
    \/ Stops /\ UNCHANGED reason  \* patchBuildRef

ensureBuild ==
    /\ pc = "build"
    /\ \/ cached.owner = "foreign" /\ Fails("BuildConflict") /\ UNCHANGED <<build, events>>
       \/ /\ cached.owner = "absent" /\ build.owner = "absent"
          /\ Write(Build("own", newBuild(my, pol))) /\ Succeeds
       \/ /\ cached.owner = "absent" /\ build.owner # "absent"
          /\ Fails("BuildReconcileFailed") /\ UNCHANGED <<build, events>>
       \/ /\ cached.owner \in {"orphan", "own"} /\ upToDate
          /\ Succeeds /\ UNCHANGED <<build, events>>
       \/ /\ cached.owner \in {"orphan", "own"} /\ ~upToDate /\ build.owner # "absent"
          /\ Write(patchedBuild) /\ Succeeds
       \/ /\ cached.owner \in {"orphan", "own"} /\ ~upToDate /\ build.owner = "absent"
          /\ Fails("BuildStrategyNotFound") /\ UNCHANGED <<build, events>>  \* IsNotFound(err)
    /\ UNCHANGED <<cluster, cached, queued, my, pol, changes>>

(* A read fails, the write is refused or its response is lost; then the    *)
(* report may fail as well.                                                *)
ensureBuildFails ==
    /\ pc \in {"strategy", "build"} /\ Fault
    /\ pc' = "idle" /\ retry' = TRUE /\ result' = "BuildReconcileFailed"
    /\ reason' \in {reason, "BuildReconcileFailed"}
    /\ \/ UNCHANGED <<build, events>>
       \/ /\ pc = "build" /\ cached.owner # "foreign" /\ ~upToDate
          /\ cached.owner = "absent" <=> build.owner = "absent"
          /\ Write(patchedBuild)
    /\ UNCHANGED <<cluster, cached, queued, my, pol, changes>>

(* The BuildRun comes next (ImageBuildController): it may fail or have to  *)
(* wait, which ends the reconcile; only then is the Build reported, unless *)
(* that fails in turn.                                                     *)
reconcileStatus ==
    /\ pc = "status"
    /\ \/ pc' = "idle" /\ result' = "ensured" /\ reason' = "ensured" /\ UNCHANGED <<retry, faults>>
       \/ Stops /\ reason' \in {reason, "BuildRunReconcileFailed"}
    /\ UNCHANGED <<cluster, build, cached, events, queued, my, pol, changes>>

Reconcile ==
    \/ StartReconcile \/ GetPolicy \/ GetPolicyFails \/ GetStrategy
    \/ ensureBuild \/ ensureBuildFails \/ reconcileStatus

-----------------------------------------------------------------------------
(* The work queue.                                                         *)

RetryElapses ==
    /\ retry /\ retry' = FALSE /\ queued' = TRUE
    /\ UNCHANGED <<cluster, build, cached, events, result, reason, pc, my, pol, bounds>>

(* The Build's event, if an ImageBuild owns it or owned it.                *)
SyncBuild_bug ==
    /\ events # {} /\ events' = {} /\ cached' = build
    /\ UNCHANGED <<cluster, build, result, reason, queued, retry, pc, my, pol, bounds>>

SyncBuild ==
    /\ events # {} /\ events' = {} /\ cached' = build
    /\ queued' = (queued \/ "own" \in events)
    /\ UNCHANGED <<cluster, build, result, reason, retry, pc, my, pol, bounds>>

(* Informers replay all they have once in a while.                         *)
Resync_bug == FALSE /\ UNCHANGED vars

Resync ==
    /\ ~queued /\ queued' = TRUE
    /\ UNCHANGED <<cluster, build, cached, events, result, reason, retry, pc, my, pol, bounds>>

(* The operator is restarted: it lists everything and starts anew.         *)
Crash ==
    /\ Fault /\ pc' = "idle" /\ queued' = TRUE /\ retry' = FALSE
    /\ cached' = build /\ events' = {}
    /\ UNCHANGED <<cluster, build, result, reason, my, pol, changes>>

-----------------------------------------------------------------------------
(* Users and administrators.                                               *)

Change == changes < MaxChanges /\ changes' = changes + 1

UserEdits ==
    /\ Change /\ \E i \in Specs \ {ib} : ib' = i
    /\ queued' = TRUE
    /\ UNCHANGED <<policy, strategies, build, cached, events, result, reason, retry, pc, my, pol, faults>>

PolicyChanges ==
    /\ Change /\ \E p \in (Policies \cup {NoPolicy}) \ {policy} : policy' = p
    /\ UNCHANGED <<ib, strategies, build, cached, events, result, reason, queued, retry, pc, my, pol, faults>>

StrategyChanges ==
    /\ Change
    /\ \E s \in Strategies :
         strategies' = IF s \in strategies THEN strategies \ {s} ELSE strategies \cup {s}
    /\ UNCHANGED <<ib, policy, build, cached, events, result, reason, queued, retry, pc, my, pol, faults>>

(* Somebody deletes the Build, or clears one of its fields.                *)
BuildChanges ==
    /\ Change /\ build.owner # "absent"
    /\ \/ Write(NoBuild)
       \/ \E f \in {g \in Tampered : build.fields[g] # Unset} :
            Write([build EXCEPT !.fields[f] = Unset])
    /\ UNCHANGED <<cluster, cached, result, reason, queued, retry, pc, my, pol, faults>>

(* Somebody creates a Build of that name, or takes over one without owner. *)
ForeignBuildAppears ==
    /\ Change /\ build.owner \in {"absent", "orphan"}
    /\ \E o \in {"orphan", "foreign"} \ {build.owner} : Write(Build(o, build.fields))
    /\ UNCHANGED <<cluster, cached, result, reason, queued, retry, pc, my, pol, faults>>

Next ==
    \/ Reconcile \/ RetryElapses \/ SyncBuild \/ Resync \/ Crash
    \/ UserEdits \/ PolicyChanges \/ StrategyChanges \/ BuildChanges \/ ForeignBuildAppears

Spec == Init /\ [][Next]_vars

(* Workers run, timers fire, informers deliver and replay.                 *)
FairSpec ==
    /\ Spec /\ WF_vars(Reconcile) /\ WF_vars(RetryElapses)
    /\ WF_vars(SyncBuild) /\ WF_vars(Resync)

-----------------------------------------------------------------------------
(* Properties.                                                             *)

TypeOK ==
    /\ ib \in Specs /\ my \in Specs
    /\ policy \in Policies \cup {NoPolicy} /\ pol \in Policies \cup {NoPolicy}
    /\ strategies \subseteq Strategies
    /\ build.owner \in {"absent", "orphan", "foreign", "own"}
    /\ events \subseteq {"absent", "orphan", "foreign", "own"}
    /\ queued \in BOOLEAN /\ retry \in BOOLEAN
    /\ pc \in {"idle", "policy", "strategy", "build", "status"}
    /\ changes \in 0 .. MaxChanges /\ faults \in 0 .. MaxFaults

AtRest == pc = "idle" /\ ~queued /\ ~retry /\ events = {}

(* However edits, policy changes, stale copies, lost responses and other   *)
(* writers mixed its fields, at rest the Build is as a whole what the      *)
(* stored ImageBuild and the policy that was read last want, unless it was *)
(* somebody else's: every other failure is retried, and a Build never      *)
(* joins the retention, strategy or source of two versions (ensureBuild,   *)
(* newBuild, resolveRetention).                                            *)
WholeAtRest ==
    AtRest /\ result # "BuildConflict" =>
        /\ pol # NoPolicy /\ build = Build("own", Wanted(ib, pol))
        /\ reason = "ensured"

(* The Build is still as ensured, or an event of it is on its way.         *)
Ensured ==
    \/ "own" \in events
    \/ events = {} /\ build = Build("own", newBuild(my, pol))

(* Why: what the cache lacks is on its way, and while a reconcile runs, or *)
(* has ended well, either it has the latest ImageBuild or another follows; *)
(* the Build it ensured is either still there or sends another event.      *)
PolicyInv ==
    /\ TypeOK
    /\ events = {} => cached = build
    /\ events # {} => {cached.owner, build.owner} \subseteq events
    /\ pc # "idle" /\ ~queued => my = ib
    /\ pc \in {"strategy", "build", "status"} => pol # NoPolicy
    /\ pc = "status" /\ ~queued => Ensured
    /\ pc = "idle" /\ ~queued /\ ~retry /\ result # "BuildConflict" =>
         my = ib /\ pol # NoPolicy /\ reason = "ensured" /\ Ensured

(* What should become of the ImageBuild.                                   *)
Followed ==
    CASE policy = NoPolicy -> reason = "MissingPolicy"
      [] policy # NoPolicy /\ selectedStrategyName(ib, policy) \notin strategies ->
           reason = "BuildStrategyNotFound"
      [] OTHER -> \/ build.owner = "foreign" /\ reason = "BuildConflict"
                  \/ build = Build("own", Wanted(ib, policy)) /\ reason = "ensured"

(* Although nobody watches the policy and the strategies, once changes     *)
(* stop the Build and what is reported follow them for good, thanks to the *)
(* informers' resync (SetupWithManager, reconcileBuild).                   *)
FollowsPolicy == <>[]Followed

=============================================================================
