---------------------------- MODULE TimingProofs ----------------------------
(***************************************************************************)
(* NothingForgotten holds of OnCommitTiming for every debounce window,     *)
(* minimum interval, poll interval and retry delay.  TimingInv is          *)
(* inductive: a timer and the wait it stands for run down together, and    *)
(* whatever makes the wait longer puts the ImageBuild in the queue.        *)
(***************************************************************************)
EXTENDS OnCommitTiming, TLAPS

(* What a reconcile promises when it ends: nothing is left to do, or a     *)
(* timer no later than Patience allows stands in the queue.                *)
Looked == \/ pending = NoCommit /\ ~drift /\ run = "reported"
          \/ timer # NoTimer /\ timer <= Patience

(* What the queue holds after AddAfter is no later than asked for.         *)
LEMMA AddAfterIsInTime ==
    ASSUME TypeOK, NEW d \in Nat, AddAfter(d)
    PROVE  timer' \in Nat /\ timer' # NoTimer /\ timer' <= d
BY DEF TypeOK, AddAfter, NoTimer

(* remainingWait is a time that has not passed yet.                        *)
LEMMA WaitType == ASSUME TypeOK PROVE remainingWait \in Nat
BY TimingAssumption DEF TypeOK, remainingWait

(* A failed reconcile is retried in time, whatever it has done before.     *)
LEMMA FailsInTime ==
    ASSUME TypeOK, Fails
    PROVE  failed' = TRUE /\ timer' \in Nat /\ timer' # NoTimer /\ timer' <= Retry
<1>1. PICK d \in 1 .. Retry : AddAfter(d)
  BY DEF Fails
<1>2. d \in Nat /\ d <= Retry
  BY TimingAssumption
<1>3. timer' \in Nat /\ timer' # NoTimer /\ timer' <= d
  BY <1>1, <1>2, AddAfterIsInTime
<1> QED
  BY <1>2, <1>3, TimingAssumption DEF Fails

(* A reconcile that fails leaves the ImageBuild looked after.              *)
LEMMA FailedIsLooked == ASSUME TypeOK, Fails PROVE Looked'
BY FailsInTime DEF Looked, Patience

(* reconcileStatus types.                                                  *)
LEMMA StatusType ==
    ASSUME TypeOK, NEW r \in {"active", "ended", "reported"}, reconcileStatus(r)
    PROVE  /\ failed' \in BOOLEAN /\ run' \in {"active", "ended", "reported"}
           /\ timer' \in Nat \cup {NoTimer}
<1>1. CASE Fails /\ run' = r
  BY <1>1, FailsInTime
<1>2. CASE ~Fails
  <2>1. failed' = FALSE /\ run' \in {"active", "ended", "reported"}
    BY <1>2 DEF reconcileStatus
  <2>2. CASE r = "active"
    BY <1>2, <2>1, <2>2, AddAfterIsInTime, TimingAssumption DEF reconcileStatus
  <2>3. CASE r # "active"
    BY <1>2, <2>1, <2>3 DEF reconcileStatus, TypeOK
  <2> QED BY <2>2, <2>3
<1>3. CASE Fails /\ run' # r
  <2>1. failed' = FALSE
    BY <1>3 DEF reconcileStatus
  <2> QED
    BY <1>3, <2>1 DEF Fails
<1> QED
  BY <1>1, <1>2, <1>3

(* After reconcileStatus, with no push waiting, the run is reported, or it *)
(* is polled, or the failure is retried.                                   *)
LEMMA StatusIsLooked ==
    ASSUME TypeOK, NEW r \in {"active", "ended", "reported"}, reconcileStatus(r),
           pending' = NoCommit, drift' = FALSE
    PROVE  Looked'
<1>1. CASE Fails
  BY <1>1, FailedIsLooked
<1>2. CASE ~Fails /\ r = "active"
  <2>1. failed' = FALSE /\ AddAfter(Poll)
    BY <1>2 DEF reconcileStatus
  <2>2. timer' # NoTimer /\ timer' <= Poll
    BY <2>1, AddAfterIsInTime, TimingAssumption
  <2> QED
    BY <2>1, <2>2 DEF Looked, Patience
<1>3. CASE ~Fails /\ r # "active"
  <2>1. run' = "reported"
    BY <1>3 DEF reconcileStatus
  <2> QED
    BY <2>1 DEF Looked
<1> QED
  BY <1>1, <1>2, <1>3

(* An active run is polled, whatever else is left to do, once no push has  *)
(* to wait.                                                                *)
LEMMA ActiveIsLooked ==
    ASSUME TypeOK, reconcileStatus("active"),
           pending' = NoCommit \/ remainingWait' = 0
    PROVE  Looked'
<1>1. CASE Fails
  BY <1>1, FailedIsLooked
<1>2. CASE ~Fails
  <2>1. failed' = FALSE /\ AddAfter(Poll)
    BY <1>2 DEF reconcileStatus
  <2>2. timer' # NoTimer /\ timer' <= Poll
    BY <2>1, AddAfterIsInTime, TimingAssumption
  <2>3. ~(pending' # NoCommit /\ remainingWait' > 0)
    OBVIOUS
  <2>4. Patience' = Poll
    BY <2>1, <2>3 DEF Patience
  <2> QED
    BY <2>2, <2>4 DEF Looked
<1> QED
  BY <1>1, <1>2

(* Every reconcile leaves the ImageBuild looked after.                     *)
LEMMA ReconcileIsLooked ==
    ASSUME TypeOK, Reconcile PROVE TypeOK' /\ Looked'
<1>0. queued' = FALSE /\ age' = age
  BY DEF Reconcile
<1>1. CASE FailsFirst
  <2>1. failed' = TRUE /\ timer' \in Nat
    BY <1>1, FailsInTime DEF FailsFirst
  <2>2. TypeOK'
    BY <1>0, <1>1, <2>1 DEF FailsFirst, TypeOK
  <2> QED
    BY <1>1, <2>2, FailedIsLooked DEF FailsFirst
<1>2. CASE Waits
  <2>1. timer' \in Nat /\ timer' # NoTimer /\ timer' <= remainingWait
    BY <1>2, WaitType, AddAfterIsInTime DEF Waits
  <2>2. TypeOK'
    BY <1>0, <1>2, <2>1 DEF Waits, TypeOK
  <2>3. remainingWait' = remainingWait /\ pending' = pending
    BY <1>0, <1>2 DEF Waits, remainingWait
  <2>4. Patience' = remainingWait
    BY <1>2, <2>3 DEF Waits, Patience
  <2> QED
    BY <2>1, <2>2, <2>4 DEF Looked
<1>3. CASE Active
  <2>1. run = "active" /\ reconcileStatus("active")
    BY <1>3 DEF Active
  <2>2. /\ failed' \in BOOLEAN /\ run' \in {"active", "ended", "reported"}
        /\ timer' \in Nat \cup {NoTimer}
    BY <2>1, StatusType
  <2>3. TypeOK'
    BY <1>0, <1>3, <2>2 DEF Active, TypeOK
  <2>4. remainingWait' = 0
    BY <1>0, <1>3 DEF Active, remainingWait
  <2> QED
    BY <2>1, <2>3, <2>4, ActiveIsLooked
<1>4. CASE ensureOnCommitBuildRun
  <2>1. reconcileStatus("active") /\ pending' = NoCommit
    BY <1>4 DEF ensureOnCommitBuildRun
  <2>2. /\ failed' \in BOOLEAN /\ run' \in {"active", "ended", "reported"}
        /\ timer' \in Nat \cup {NoTimer}
    BY <2>1, StatusType
  <2>3. since' \in 0 .. MinInterval
    BY <1>4, TimingAssumption DEF ensureOnCommitBuildRun
  <2>4. triggered' = pending /\ drift' = drift
    BY <1>4 DEF ensureOnCommitBuildRun
  <2>5. TypeOK'
    BY <1>0, <2>1, <2>2, <2>3, <2>4 DEF TypeOK
  <2> QED
    BY <2>1, <2>5, ActiveIsLooked
<1>5. CASE reconcileDefaultBuildRun
  <2> DEFINE r == IF drift THEN "active" ELSE run
  <2>1. reconcileStatus(r) /\ pending' = NoCommit /\ drift' = FALSE
    BY <1>5 DEF reconcileDefaultBuildRun
  <2>2. r \in {"active", "ended", "reported"}
    BY DEF TypeOK
  <2> HIDE DEF r
  <2>3. /\ failed' \in BOOLEAN /\ run' \in {"active", "ended", "reported"}
        /\ timer' \in Nat \cup {NoTimer}
    BY <2>1, <2>2, StatusType
  <2>4. TypeOK'
    BY <1>0, <1>5, <2>1, <2>3 DEF reconcileDefaultBuildRun, TypeOK
  <2> QED
    BY <2>1, <2>2, <2>4, StatusIsLooked
<1> QED
  BY <1>1, <1>2, <1>3, <1>4, <1>5 DEF Reconcile

(* Time runs down the timer and the wait together.                         *)
LEMMA TickInTime == ASSUME TimingInv, Tick PROVE TimingInv'
<1> USE TimingAssumption
<1>1. TypeOK'
  BY DEF TimingInv, TypeOK, Tick, NoTimer
<1>2. CASE queued \/ (pending = NoCommit /\ ~drift /\ run = "reported")
  BY <1>1, <1>2 DEF TimingInv, NothingForgotten, Tick
<1>3. CASE timer # NoTimer /\ timer <= Patience
  <2>1. timer \in Nat \ {0} /\ timer' = timer - 1
    BY <1>3 DEF TimingInv, TypeOK, Tick
  <2>2. remainingWait \in Nat /\ remainingWait' \in Nat
    <3>1. remainingWait \in Nat
      BY WaitType DEF TimingInv
    <3>2. remainingWait' \in Nat
      BY DEF TimingInv, TypeOK, Tick, remainingWait
    <3> QED BY <3>1, <3>2
  <2>3. remainingWait' >= remainingWait - 1
    BY DEF TimingInv, TypeOK, Tick, remainingWait
  <2>4. CASE failed
    BY <1>1, <1>3, <2>1, <2>4 DEF TimingInv, NothingForgotten, Patience, Tick, NoTimer
  <2>5. CASE ~failed /\ pending # NoCommit /\ remainingWait > 0
    <3>1. timer <= remainingWait
      BY <1>3, <2>5 DEF Patience
    <3>2. CASE remainingWait' > 0
      <4>1. Patience' = remainingWait'
        BY <2>5, <3>2 DEF Patience, Tick
      <4>2. timer' <= remainingWait' /\ timer' # NoTimer
        BY <2>1, <2>2, <2>3, <3>1 DEF NoTimer
      <4> QED
        BY <1>1, <4>1, <4>2 DEF TimingInv, NothingForgotten
    <3>3. CASE ~(remainingWait' > 0)
      <4>1. Patience' = Poll
        BY <2>5, <3>3 DEF Patience, Tick
      <4>2. timer' = 0 /\ timer' # NoTimer
        BY <2>1, <2>2, <2>3, <3>1, <3>3 DEF NoTimer
      <4> QED
        BY <1>1, <4>1, <4>2 DEF TimingInv, NothingForgotten
    <3> QED
      BY <3>2, <3>3
  <2>6. CASE ~failed /\ ~(pending # NoCommit /\ remainingWait > 0)
    <3>1. timer <= Poll
      BY <1>3, <2>6 DEF Patience
    <3>2. pending' = NoCommit \/ remainingWait' = 0
      BY <2>2, <2>6 DEF TimingInv, TypeOK, Tick, remainingWait
    <3>3. Patience' = Poll
      BY <2>2, <2>6, <3>2 DEF Patience, Tick
    <3>4. timer' <= Poll /\ timer' # NoTimer
      BY <2>1, <3>1 DEF NoTimer
    <3> QED
      BY <1>1, <3>3, <3>4 DEF TimingInv, NothingForgotten
  <2> QED
    BY <2>4, <2>5, <2>6
<1> QED
  BY <1>2, <1>3 DEF TimingInv, NothingForgotten

(* TimingInv holds from the start and every step keeps it.                 *)
LEMMA TimingInduction == /\ Init => TimingInv
                         /\ TimingInv /\ [Next]_vars => TimingInv'
<1>1. ASSUME Init PROVE TimingInv
  <2>1. age \in 0 .. Debounce /\ since \in 0 .. MinInterval
    BY <1>1, TimingAssumption DEF Init
  <2> QED
    BY <1>1, <2>1 DEF Init, TimingInv, TypeOK, NothingForgotten
<1>2. ASSUME TimingInv, [Next]_vars PROVE TimingInv'
  <2>1. CASE Reconcile
    BY <1>2, <2>1, ReconcileIsLooked DEF TimingInv, NothingForgotten, Looked
  <2>2. ASSUME NEW c \in Commits, Push(c) PROVE TimingInv'
    BY <1>2, <2>2, TimingAssumption DEF TimingInv, TypeOK, NothingForgotten, Push
  <2>3. CASE UserEdits
    BY <1>2, <2>3 DEF TimingInv, TypeOK, NothingForgotten, UserEdits
  <2>4. CASE RunEnds
    BY <1>2, <2>4 DEF TimingInv, TypeOK, NothingForgotten, RunEnds
  <2>5. CASE TimerFires
    BY <1>2, <2>5 DEF TimingInv, TypeOK, NothingForgotten, TimerFires
  <2>6. CASE Tick
    BY <1>2, <2>6, TickInTime
  <2>7. CASE Restart
    BY <1>2, <2>7 DEF TimingInv, TypeOK, NothingForgotten, Restart
  <2>8. CASE UNCHANGED vars
    BY <1>2, <2>8 DEF TimingInv, TypeOK, NothingForgotten, Patience, remainingWait, vars
  <2> QED
    BY <1>2, <2>1, <2>2, <2>3, <2>4, <2>5, <2>6, <2>7, <2>8 DEF Next
<1> QED
  BY <1>1, <1>2

(* Whenever something is left to do the ImageBuild is queued or a timer    *)
(* will queue it in time, for all intervals and any number of pushes,      *)
(* edits, failures and restarts (Reconcile's RequeueAfter, remainingWait). *)
THEOREM NothingIsForgotten == Spec => []NothingForgotten
<1>1. TimingInv => NothingForgotten
  BY DEF TimingInv
<1> QED
  BY <1>1, TimingInduction, PTL DEF Spec

=============================================================================
