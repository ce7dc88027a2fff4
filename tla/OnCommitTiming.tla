-------------------------- MODULE OnCommitTiming ---------------------------
(***************************************************************************)
(* Debounce, minimum interval, polling and retries of one ImageBuild with  *)
(* rebuild mode OnCommit, in time: how long a pushed commit, an edit of    *)
(* the spec or the end of a BuildRun waits, for any number of them.        *)
(*                                                                         *)
(* Ages count up to the interval they are compared with and stop there.  A *)
(* reconcile is short against the intervals and is one step; what may      *)
(* happen within it, and the write that is lost between the creation of a  *)
(* run and its record, are the subject of ImageBuildController.            *)
(***************************************************************************)
EXTENDS Integers

CONSTANTS
    Commits, NoCommit,
    Debounce,     \* onCommitDebounce
    MinInterval,  \* onCommitMinInterval
    Poll,         \* buildRunPollInterval
    Retry         \* errorRequeueInterval, or the longest backoff of the queue

ASSUME TimingAssumption ==
    /\ NoCommit \notin Commits
    /\ Debounce \in Nat \ {0} /\ MinInterval \in Nat \ {0}
    /\ Poll \in Nat \ {0} /\ Retry \in Nat \ {0}

VARIABLES
    pending,    \* status.onCommit.pending.commitSHA, or NoCommit
    age,        \* time since pending.receivedAt
    triggered,  \* status.onCommit.lastTriggeredBuildRun.commitSHA
    since,      \* time since lastTriggeredBuildRun.triggeredAt
    drift,      \* the spec was edited and is not built yet
    run,        \* the last BuildRun: "active", "ended", "reported"
    failed,     \* the last reconcile ended with an error
    queued,     \* the work queue holds the ImageBuild
    timer       \* ... or will, after that time; NoTimer: it will not

vars == <<pending, age, triggered, since, drift, run, failed, queued, timer>>

NoTimer == -1

Init ==
    /\ pending = NoCommit /\ age = Debounce
    /\ triggered = NoCommit /\ since = MinInterval
    /\ drift = TRUE /\ run = "reported"
    /\ failed = FALSE /\ queued = TRUE /\ timer = NoTimer

-----------------------------------------------------------------------------
remainingWait ==
    IF age < Debounce THEN Debounce - age
    ELSE IF triggered # NoCommit /\ since < MinInterval THEN MinInterval - since
    ELSE 0

(* The queue keeps the earlier of two times.                               *)
AddAfter(d) == timer' = IF timer # NoTimer /\ timer < d THEN timer ELSE d

(* An error is retried sometime.                                           *)
Fails == failed' = TRUE /\ \E d \in 1 .. Retry : AddAfter(d)

(* reconcileStatus: report the run, and poll while it is active.           *)
reconcileStatus(r) ==
    \/ Fails /\ run' = r
    \/ /\ failed' = FALSE /\ run' = IF r = "active" THEN "active" ELSE "reported"
       /\ IF r = "active" THEN AddAfter(Poll) ELSE UNCHANGED timer

(* remainingWait returns before anything else is looked at.                *)
Waits_bug ==
    /\ pending # NoCommit /\ remainingWait > 0 /\ failed' = FALSE
    /\ AddAfter(MinInterval)
    /\ UNCHANGED <<pending, triggered, since, drift, run>>

Waits_lost_bug ==
    /\ pending # NoCommit /\ remainingWait > 0 /\ failed' = FALSE
    /\ UNCHANGED <<pending, triggered, since, drift, run, timer>>

Waits ==
    /\ pending # NoCommit /\ remainingWait > 0 /\ failed' = FALSE
    /\ AddAfter(remainingWait)
    /\ UNCHANGED <<pending, triggered, since, drift, run>>

(* The BuildRun that runs already is reported instead of a new one.        *)
Active ==
    /\ pending \notin {NoCommit, triggered} /\ remainingWait = 0 /\ run = "active"
    /\ reconcileStatus(run)
    /\ UNCHANGED <<pending, triggered, since, drift>>

ensureOnCommitBuildRun ==
    /\ pending \notin {NoCommit, triggered} /\ remainingWait = 0 /\ run # "active"
    /\ triggered' = pending /\ pending' = NoCommit /\ since' = 0
    /\ reconcileStatus("active")
    /\ UNCHANGED drift

(* Nothing is pending, or a commit that was triggered last, which is       *)
(* dropped: build an edited spec, or look at the last run.                 *)
reconcileDefaultBuildRun ==
    /\ pending = NoCommit \/ (remainingWait = 0 /\ pending = triggered)
    /\ pending' = NoCommit /\ drift' = FALSE
    /\ reconcileStatus(IF drift THEN "active" ELSE run)
    /\ UNCHANGED <<triggered, since>>

(* Anything before that may fail too.                                      *)
FailsFirst == Fails /\ UNCHANGED <<pending, triggered, since, drift, run>>

Reconcile ==
    /\ queued /\ queued' = FALSE
    /\ \/ FailsFirst \/ Waits \/ Active
       \/ ensureOnCommitBuildRun \/ reconcileDefaultBuildRun
    /\ UNCHANGED age

-----------------------------------------------------------------------------
(* The webhook records a push, which queues the ImageBuild.                *)
Push(c) ==
    /\ pending' = c /\ age' = 0 /\ queued' = TRUE
    /\ UNCHANGED <<triggered, since, drift, run, failed, timer>>

UserEdits ==
    /\ drift' = TRUE /\ queued' = TRUE
    /\ UNCHANGED <<pending, age, triggered, since, run, failed, timer>>

RunEnds ==
    /\ run = "active" /\ run' = "ended" /\ queued' = TRUE
    /\ UNCHANGED <<pending, age, triggered, since, drift, failed, timer>>

TimerFires ==
    /\ timer = 0 /\ timer' = NoTimer /\ queued' = TRUE
    /\ UNCHANGED <<pending, age, triggered, since, drift, run, failed>>

(* Time passes; a timer fires on time.                                     *)
Tick ==
    /\ timer # 0
    /\ timer' = IF timer = NoTimer THEN NoTimer ELSE timer - 1
    /\ age' = IF age < Debounce THEN age + 1 ELSE Debounce
    /\ since' = IF since < MinInterval THEN since + 1 ELSE MinInterval
    /\ UNCHANGED <<pending, triggered, drift, run, failed, queued>>

(* The operator is restarted: timers are gone, everything is listed.       *)
Restart ==
    /\ timer' = NoTimer /\ queued' = TRUE
    /\ UNCHANGED <<pending, age, triggered, since, drift, run, failed>>

Next ==
    \/ Reconcile
    \/ \E c \in Commits : Push(c)
    \/ UserEdits \/ RunEnds \/ TimerFires \/ Tick \/ Restart

Spec == Init /\ [][Next]_vars

(* Time passes and runs end; failures are not all there is: a reconcile    *)
(* that is tried again and again succeeds sometime.                        *)
FairSpec ==
    /\ Spec /\ WF_vars(Tick) /\ WF_vars(TimerFires) /\ WF_vars(RunEnds)
    /\ SF_vars(Reconcile /\ ~failed')

-----------------------------------------------------------------------------
(* Properties.                                                             *)

TypeOK ==
    /\ pending \in Commits \cup {NoCommit} /\ triggered \in Commits \cup {NoCommit}
    /\ age \in 0 .. Debounce /\ since \in 0 .. MinInterval
    /\ drift \in BOOLEAN /\ run \in {"active", "ended", "reported"}
    /\ failed \in BOOLEAN /\ queued \in BOOLEAN /\ timer \in Nat \cup {NoTimer}

(* How long the ImageBuild may stay out of the queue.                      *)
Patience ==
    IF failed THEN Retry
    ELSE IF pending # NoCommit /\ remainingWait > 0 THEN remainingWait ELSE Poll

(* Whenever something is left to do, the queue will hold the ImageBuild,   *)
(* and in time: a push that has to wait is looked at when its wait is over *)
(* at the latest, although timers of earlier polls, retries and pushes     *)
(* stand in the queue and pushes, edits and restarts come in between;      *)
(* anything else waits for a poll, or for the push before it               *)
(* (remainingWait, Reconcile's RequeueAfter).                              *)
NothingForgotten ==
    \/ queued
    \/ pending = NoCommit /\ ~drift /\ run = "reported"
    \/ timer # NoTimer /\ timer <= Patience

(* That is inductive.                                                      *)
TimingInv == TypeOK /\ NothingForgotten

(* The last push has been left alone for the debounce window.              *)
Quiet == pending = NoCommit \/ age = Debounce

(* No newer commit and no edit waits to replace the last run.              *)
Latest == pending = NoCommit /\ ~drift

(* Only further pushes delay: with nobody pushing within the window, a     *)
(* pushed commit is dealt with, an edited spec is built, and a run that    *)
(* ended is reported or superseded: a newer commit or an edit replaces it  *)
(* by the next run, and what became of it is never written.  With neither, *)
(* it is reported.  All that however many failures, restarts, edits and    *)
(* runs there are (reconcileBuildRun, remainingWait, reconcileStatus).     *)
OnlyPushesDelay ==
    /\ (pending # NoCommit /\ Quiet) ~> (pending = NoCommit \/ ~Quiet)
    /\ (drift /\ Quiet) ~> (~drift \/ ~Quiet)
    /\ (run = "ended" /\ Quiet) ~> (run # "ended" \/ ~Quiet)
    /\ (run = "ended" /\ Latest) ~> (run = "reported" \/ ~Latest)

=============================================================================
