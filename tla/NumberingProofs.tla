-------------------------- MODULE NumberingProofs --------------------------
(***************************************************************************)
(* BuildRuns are numbered without gaps and on-commit triggers are spaced,  *)
(* for every number of specs, commits, faults, crashes and deletions and   *)
(* every lag of the informers.                                             *)
(*                                                                         *)
(* Almost every step keeps the counters, the names in use and the copies   *)
(* of the ImageBuild as they are, or replaces a copy by the stored object: *)
(* KeepsNumbering says so and KeptInv shows once that such a step preserves*)
(* the invariant.  What is left are the steps that create a BuildRun,      *)
(* patch a counter or delete a BuildRun.                                   *)
(***************************************************************************)
EXTENDS ImageBuildControllerProofs

NumberingInv == CountersInv /\ TriggersInv

KeepsNumbers ==
    /\ srv'.counter = srv.counter
    /\ srv'.trigCounter = srv.trigCounter
    /\ srv'.lastTrig = srv.lastTrig

(* The ImageBuild keeps its BuildRuns; somebody else may have one more.     *)
KeepsRuns ==
    /\ Owned' = Owned
    /\ \/ DOMAIN runs' = DOMAIN runs
       \/ \E n : /\ n \notin DOMAIN runs /\ DOMAIN runs' = DOMAIN runs \cup {n}
                /\ UNCHANGED <<srv, spaced>>

KeepsCopies ==
    /\ cache' \in {cache, srv}
    /\ \/ pc' = "idle"
       \/ loc' \in {srv', cache}
       \/ pc # "idle" /\ loc' = loc

KeepsWrites == pc' \in {"counter", "triggered"} => UNCHANGED <<pc, loc, br>>

KeepsSpaced ==
    \/ spaced' = spaced
    \/ spaced < srv.lastTrig.number /\ spaced' = srv.lastTrig.number

KeepsNumbering == KeepsNumbers /\ KeepsRuns /\ KeepsCopies /\ KeepsWrites /\ KeepsSpaced

-----------------------------------------------------------------------------

(* The numbers in an ImageBuild are natural numbers.                       *)
LEMMA NumberTypes ==
    ASSUME NEW ib \in ImageBuild
    PROVE  ib.counter \in Nat /\ ib.trigCounter \in Nat /\ ib.lastTrig.number \in Nat
  BY DEF ImageBuild, Trigger

(* Every copy is an ImageBuild.                                            *)
LEMMA CopiesType ==
    ASSUME TypeOK, NEW ib \in Copies
    PROVE  ib \in ImageBuild
  BY DEF TypeOK, Copies

(* A step that keeps the numbering preserves the invariant.                *)
LEMMA KeptInv ==
    ASSUME NumberingInv, TypeOK', KeepsNumbering
    PROVE  NumberingInv'
  <1>0. TypeOK /\ StaleNumbersTaken /\ CreatedIsNext /\ RunNumbersTracked /\ TriggersInv
    BY DEF NumberingInv, CountersInv
  <1>1. KeepsNumbers /\ KeepsRuns /\ KeepsCopies /\ KeepsWrites /\ KeepsSpaced
    BY DEF KeepsNumbering
  <1>k. DOMAIN runs \subseteq DOMAIN runs' /\ Owned' = Owned
    BY <1>1 DEF KeepsRuns
  <1>2. \A ib \in Copies' : ib \in Copies \/ ib = srv \/ ib = srv'
    BY <1>1 DEF KeepsCopies, Copies
  <1>3. srv \in ImageBuild /\ srv' \in ImageBuild
    BY <1>0 DEF TypeOK
  <1>4. StaleNumbersTaken'
    <2>. SUFFICES ASSUME NEW ib \in Copies' PROVE NumbersTaken(ib)'
      BY DEF StaleNumbersTaken
    <2>1. CASE ib \in Copies
      <3>1. NumbersTaken(ib)
        BY <1>0, <2>1 DEF StaleNumbersTaken
      <3>. QED
        BY <1>1, <1>k, <3>1 DEF NumbersTaken, KeepsNumbers
    <2>2. CASE ib = srv \/ ib = srv'
      <3>1. ib.counter = srv'.counter /\ ib.trigCounter = srv'.trigCounter
        BY <1>1, <2>2 DEF KeepsNumbers
      <3>2. ib \in ImageBuild
        BY <1>3, <2>2
      <3>3. ib.counter \in Nat /\ ib.trigCounter \in Nat
        BY <3>2, NumberTypes
      <3>. QED
        BY <3>1, <3>3 DEF NumbersTaken
    <2>. QED
      BY <1>2, <2>1, <2>2
  <1>5. CreatedIsNext'
    BY <1>0, <1>1, <1>k DEF CreatedIsNext, KeepsWrites, KeepsNumbers
  <1>6. RunNumbersTracked'
    BY <1>0, <1>1, <1>k DEF RunNumbersTracked, KeepsNumbers, Owned
  <1>7. TriggersInv'
    <2>1. srv'.lastTrig.number = srv'.trigCounter
      BY <1>0, <1>1 DEF TriggersInv, KeepsNumbers
    <2>2. \A ib \in Copies' : ib.trigCounter = srv'.trigCounter => ib.lastTrig = srv'.lastTrig
      BY <1>0, <1>1, <1>2 DEF TriggersInv, KeepsNumbers
    <2>3. ASSUME pc' = "triggered"
          PROVE  spaced' >= loc'.lastTrig.number /\ ~isDuplicateCommit(loc', loc'.pending.commit)
      <3>1. UNCHANGED <<pc, loc>>
        BY <1>1, <2>3 DEF KeepsWrites
      <3>2. spaced >= loc.lastTrig.number /\ ~isDuplicateCommit(loc, loc.pending.commit)
        BY <1>0, <2>3, <3>1 DEF TriggersInv
      <3>3. spaced \in Nat /\ spaced' \in Nat /\ loc.lastTrig.number \in Nat
        BY <1>0, NumberTypes DEF TypeOK
      <3>4. spaced' >= loc'.lastTrig.number
        BY <1>0, <1>1, <3>1, <3>2, <3>3, NumberTypes DEF KeepsSpaced, TypeOK
      <3>5. ~isDuplicateCommit(loc', loc'.pending.commit)
        BY <3>1, <3>2, Zenon
      <3>. QED
        BY <3>4, <3>5
    <2>. QED
      BY <2>1, <2>2, <2>3, Zenon DEF TriggersInv
  <1>. QED
    BY <1>4, <1>5, <1>6, <1>7 DEF NumberingInv, CountersInv

-----------------------------------------------------------------------------
(* The shapes of the steps that keep the numbering.                        *)

(* A patch that does not set a counter keeps what the server has in it.    *)
LEMMA PatchKeeps ==
    ASSUME TypeOK, NEW new \in ImageBuild,
           new.counter = loc.counter, new.trigCounter = loc.trigCounter,
           new.lastTrig = loc.lastTrig,
           PatchTo(new) \/ UNCHANGED srv
    PROVE  KeepsNumbers
  BY DEF TypeOK, PatchTo, MergePatch, ImageBuild, KeepsNumbers

(* A step that leaves the BuildRuns alone keeps their names.               *)
LEMMA SameRunsKept == ASSUME UNCHANGED runs PROVE KeepsRuns
  BY DEF KeepsRuns, Owned

(* The clock does not run backwards.                                       *)
LEMMA SpacedKept == ASSUME TypeOK, UNCHANGED spaced PROVE KeepsSpaced
  BY DEF KeepsSpaced

(* A write in the middle of a reconcile that sets no counter.              *)
LEMMA WriteKeeps ==
    ASSUME TypeOK, pc # "idle", NEW new \in ImageBuild,
           new.counter = loc.counter, new.trigCounter = loc.trigCounter,
           new.lastTrig = loc.lastTrig,
           NEW next \in PC \ {"counter", "triggered"}, NEW reason \in ReadyReason,
           WriteStep(new, next, reason)
    PROVE  KeepsNumbering
  <1>1. KeepsNumbers
    BY PatchKeeps, Zenon DEF WriteStep, PatchError
  <1>2. UNCHANGED <<runs, cache, spaced>>
    BY DEF WriteStep, Elsewhere, caches, clock
  <1>3. KeepsCopies /\ KeepsWrites
    <2>1. CASE Proceed(next)
      BY <1>2, <2>1 DEF Proceed, KeepsCopies, KeepsWrites
    <2>2. CASE Finish(TRUE)
      BY <1>2, <2>2 DEF Finish, KeepsCopies, KeepsWrites
    <2>3. CASE Abandon(reason, TRUE)
      BY <1>2, <2>3 DEF Abandon, KeepsCopies, KeepsWrites
    <2>. QED
      BY <2>1, <2>2, <2>3, Zenon DEF WriteStep
  <1>. QED
    BY <1>1, <1>2, <1>3, SameRunsKept, SpacedKept DEF KeepsNumbering

(* The last write of a reconcile.                                          *)
LEMMA LastWriteKeeps ==
    ASSUME TypeOK, NEW new \in ImageBuild,
           new.counter = loc.counter, new.trigCounter = loc.trigCounter,
           new.lastTrig = loc.lastTrig, LastWrite(new)
    PROVE  KeepsNumbering
  <1>1. KeepsNumbers
    BY PatchKeeps, Zenon DEF LastWrite, PatchError
  <1>2. UNCHANGED <<runs, cache, spaced>> /\ pc' = "idle"
    BY DEF LastWrite, Finish, Elsewhere, caches, clock
  <1>. QED
    BY <1>1, <1>2, SameRunsKept, SpacedKept DEF KeepsNumbering, KeepsCopies, KeepsWrites

(* A step of the reconcile that writes nothing.                            *)
LEMMA NoWriteKeeps ==
    ASSUME TypeOK, pc # "idle", UNCHANGED <<srv, runs>>, Elsewhere,
           NEW next \in PC \ {"counter", "triggered"}, NEW reason, NEW requeue,
           Skip(next) \/ Finish(requeue) \/ Abandon(reason, requeue)
    PROVE  KeepsNumbering
  <1>1. KeepsNumbers
    BY DEF KeepsNumbers
  <1>2. UNCHANGED <<cache, spaced>>
    BY DEF Elsewhere, caches, clock
  <1>3. KeepsCopies /\ KeepsWrites
    <2>1. CASE Skip(next)
      BY <1>2, <2>1 DEF Skip, KeepsCopies, KeepsWrites
    <2>2. CASE Finish(requeue)
      BY <1>2, <2>2 DEF Finish, KeepsCopies, KeepsWrites
    <2>3. CASE Abandon(reason, requeue)
      BY <1>2, <2>3 DEF Abandon, KeepsCopies, KeepsWrites
    <2>. QED
      BY <2>1, <2>2, <2>3
  <1>. QED
    BY <1>1, <1>2, <1>3, SameRunsKept, SpacedKept DEF KeepsNumbering

-----------------------------------------------------------------------------
(* Creating a BuildRun.                                                    *)

(* A step that creates the BuildRun name and goes on to patch its counter, *)
(* or gives up because the response was lost.                              *)
Creates(name, patch) ==
    /\ name \notin DOMAIN runs /\ runs' = WithRun(name, newBuildRun)
    /\ UNCHANGED <<srv, loc, cache, spaced>>
    /\ (pc' = patch /\ br'.name = name) \/ pc' = "notReady"

(* getOrCreateBuildRun creates the BuildRun or keeps the numbering.        *)
LEMMA GetOrCreateCases ==
    ASSUME TypeOK, pc # "idle", NEW name \in RunName, NEW reused \in PC \ {"counter", "triggered"},
           NEW created, NEW conflict,
           getOrCreateBuildRun(name, reused, created, conflict)
    PROVE  KeepsNumbering \/ Creates(name, created)
  <1>1. Elsewhere /\ UNCHANGED srv
    BY Zenon DEF getOrCreateBuildRun, Skip
  <1>2. CASE UNCHANGED runs /\ (Skip(reused) \/ Abandon(conflict, FALSE)
                                             \/ Abandon("BuildRunReconcileFailed", TRUE))
    BY <1>1, <1>2, NoWriteKeeps, Zenon
  <1>3. CASE /\ name \notin DOMAIN runs /\ runs' = WithRun(name, newBuildRun)
             /\ \/ br' = Hold(name, newBuildRun) /\ Skip(created)
                \/ Abandon("BuildRunReconcileFailed", TRUE)
    BY <1>1, <1>3 DEF Creates, Skip, Abandon, Hold, Elsewhere, caches, clock
  <1>. QED
    BY <1>2, <1>3, Zenon DEF getOrCreateBuildRun

(* The names in use after a creation.                                      *)
LEMMA CreatedNames ==
    ASSUME NEW name, runs' = WithRun(name, newBuildRun)
    PROVE  /\ DOMAIN runs' = DOMAIN runs \cup {name}
           /\ \A n \in DOMAIN runs : n # name => runs'[n] = runs[n]
  BY DEF WithRun

(* A BuildRun for a changed spec is created only by a reconcile whose copy *)
(* counts all there are, so it gets the next number.                       *)
LEMMA SpecRunCreated ==
    ASSUME NumberingInv, TypeOK', pc # "idle",
           Creates(buildRunNameFor(nextCounter(loc.counter)), "counter")
    PROVE  NumberingInv'
  <1>. DEFINE name == buildRunNameFor(loc.counter + 1)
  <1>0. TypeOK /\ StaleNumbersTaken /\ CreatedIsNext /\ RunNumbersTracked /\ TriggersInv
    BY DEF NumberingInv, CountersInv
  <1>1. loc.counter \in Nat /\ srv.counter \in Nat
    BY <1>0, NumberTypes DEF TypeOK
  <1>2. Creates(name, "counter")
    BY <1>1 DEF nextCounter
  <1>3. NumbersTaken(loc)
    BY <1>0 DEF StaleNumbersTaken, Copies
  <1>4. loc.counter = srv.counter
    BY <1>1, <1>2, <1>3 DEF NumbersTaken, Creates
  <1>5. /\ DOMAIN runs' = DOMAIN runs \cup {name}
        /\ \A n \in DOMAIN runs : n # name => runs'[n] = runs[n]
    BY <1>2, CreatedNames DEF Creates
  <1>c. runs' = WithRun(name, newBuildRun)
    BY <1>2 DEF Creates
  <1>6. UNCHANGED <<srv, loc, cache, spaced>>
        /\ pc' \in {"counter", "notReady"} /\ (pc' = "counter" => br'.name = name)
    BY <1>2 DEF Creates
  <1>. HIDE DEF name
  <1>7. Copies' = Copies
    BY <1>6 DEF Copies
  <1>8. StaleNumbersTaken'
    BY <1>0, <1>5, <1>6, <1>7 DEF StaleNumbersTaken, NumbersTaken
  <1>9. CreatedIsNext'
    <2>1. runs'[name].own
      BY <1>c DEF WithRun, newBuildRun
    <2>. QED
      BY <1>4, <1>5, <1>6, <2>1 DEF CreatedIsNext, name, Owned
  <1>10. RunNumbersTracked'
    <2>. SUFFICES ASSUME NEW n \in DOMAIN runs', runs'[n].own
                  PROVE  n[2] <= 1 + (IF n[1] = "spec" THEN srv.counter ELSE srv.trigCounter)
      BY <1>6 DEF RunNumbersTracked
    <2>1. CASE n = name
      BY <1>1, <1>4, <2>1 DEF name, buildRunNameFor
    <2>2. CASE n # name
      BY <1>0, <1>5, <2>2 DEF RunNumbersTracked
    <2>. QED
      BY <2>1, <2>2
  <1>11. TriggersInv'
    BY <1>0, <1>6, <1>7 DEF TriggersInv, isDuplicateCommit
  <1>. QED
    BY <1>8, <1>9, <1>10, <1>11 DEF NumberingInv, CountersInv

(* The same for a pushed commit, after the checks of reconcileOnCommit-    *)
(* BuildRun.                                                               *)
LEMMA OnCommitRunCreated ==
    ASSUME NumberingInv, TypeOK', onCommitReady, ~isDuplicateCommit(loc, loc.pending.commit),
           Creates(onCommitRunNameFor(nextCounter(loc.trigCounter)), "triggered")
    PROVE  NumberingInv'
  <1>. DEFINE name == onCommitRunNameFor(loc.trigCounter + 1)
  <1>0. TypeOK /\ StaleNumbersTaken /\ CreatedIsNext /\ RunNumbersTracked /\ TriggersInv
    BY DEF NumberingInv, CountersInv
  <1>1. /\ loc.trigCounter \in Nat /\ srv.trigCounter \in Nat
        /\ loc.lastTrig.number \in Nat /\ spaced \in Nat
    BY <1>0, NumberTypes DEF TypeOK
  <1>2. Creates(name, "triggered")
    BY <1>1 DEF nextCounter
  <1>3. NumbersTaken(loc)
    BY <1>0 DEF StaleNumbersTaken, Copies, onCommitReady
  <1>4. loc.trigCounter = srv.trigCounter
    BY <1>1, <1>2, <1>3 DEF NumbersTaken, Creates
  <1>5. /\ DOMAIN runs' = DOMAIN runs \cup {name}
        /\ \A n \in DOMAIN runs : n # name => runs'[n] = runs[n]
    BY <1>2, CreatedNames DEF Creates
  <1>c. runs' = WithRun(name, newBuildRun)
    BY <1>2 DEF Creates
  <1>6. UNCHANGED <<srv, loc, cache, spaced>>
        /\ pc' \in {"triggered", "notReady"} /\ (pc' = "triggered" => br'.name = name)
    BY <1>2 DEF Creates
  <1>. HIDE DEF name
  <1>7. Copies' = Copies
    BY <1>6 DEF Copies, onCommitReady
  <1>8. StaleNumbersTaken'
    BY <1>0, <1>5, <1>6, <1>7 DEF StaleNumbersTaken, NumbersTaken
  <1>9. CreatedIsNext'
    <2>1. runs'[name].own
      BY <1>c DEF WithRun, newBuildRun
    <2>. QED
      BY <1>4, <1>5, <1>6, <2>1 DEF CreatedIsNext, name, Owned
  <1>10. RunNumbersTracked'
    <2>. SUFFICES ASSUME NEW n \in DOMAIN runs', runs'[n].own
                  PROVE  n[2] <= 1 + (IF n[1] = "spec" THEN srv.counter ELSE srv.trigCounter)
      BY <1>6 DEF RunNumbersTracked
    <2>1. CASE n = name
      BY <1>1, <1>4, <2>1 DEF name, onCommitRunNameFor
    <2>2. CASE n # name
      BY <1>0, <1>5, <2>2 DEF RunNumbersTracked
    <2>. QED
      BY <2>1, <2>2
  <1>11. spaced >= loc.lastTrig.number
    BY <1>1 DEF onCommitReady, remainingWait
  <1>12. TriggersInv'
    BY <1>0, <1>6, <1>7, <1>11 DEF TriggersInv, isDuplicateCommit
  <1>. QED
    BY <1>8, <1>9, <1>10, <1>12 DEF NumberingInv, CountersInv

-----------------------------------------------------------------------------
(* Patching a counter.                                                     *)

(* Whichever way the patch of a counter ends, what the server stores is    *)
(* the copy's patch or what it had.                                        *)
LEMMA CounterWritten ==
    ASSUME NumberingInv, patchBuildRunCounter
    PROVE  /\ UNCHANGED <<runs, cache, spaced>> /\ pc' \in {"record", "notReady"}
           /\ loc' \in {loc, srv'}
           /\ srv'.trigCounter = srv.trigCounter /\ srv'.lastTrig = srv.lastTrig
           /\ \/ srv' = srv
              \/ srv'.counter = srv.counter + 1 /\ buildRunNameFor(srv'.counter) \in Owned
  <1>. DEFINE new == [loc EXCEPT !.counter = br.name[2]]
  <1>0. TypeOK /\ CreatedIsNext /\ pc = "counter"
    BY DEF NumberingInv, CountersInv, patchBuildRunCounter
  <1>1. /\ loc.counter = srv.counter /\ loc.counter \in Nat
        /\ br.name = buildRunNameFor(loc.counter + 1) /\ br.name \in Owned
    BY <1>0, NumberTypes DEF CreatedIsNext, TypeOK
  <1>2. br.name[2] = loc.counter + 1
    BY <1>1 DEF buildRunNameFor
  <1>3. UNCHANGED <<runs, cache, spaced>>
    BY DEF patchBuildRunCounter, Elsewhere, caches, clock
  <1>4. pc' \in {"record", "notReady"} /\ loc' \in {loc, srv'}
    BY DEF patchBuildRunCounter, Proceed, Abandon
  <1>5. PatchTo(new) \/ srv' = srv
    BY DEF patchBuildRunCounter, PatchError
  <1>6. CASE PatchTo(new)
    <2>1. new \in ImageBuild
      BY <1>0, CounterCopy
    <2>2. /\ new.counter = loc.counter + 1 /\ new.trigCounter = loc.trigCounter
          /\ new.lastTrig = loc.lastTrig
      BY <1>0, <1>2 DEF TypeOK, ImageBuild
    <2>. HIDE DEF new
    <2>3. srv'.trigCounter = srv.trigCounter /\ srv'.lastTrig = srv.lastTrig
      BY <1>0, <1>6, <2>1, <2>2 DEF TypeOK, PatchTo, MergePatch, ImageBuild
    <2>4. new.counter # loc.counter
      BY <1>1, <2>2
    <2>5. srv'.counter = new.counter
      BY <1>0, <1>6, <2>1, <2>4 DEF TypeOK, PatchTo, MergePatch, ImageBuild
    <2>. QED
      BY <1>1, <1>3, <1>4, <2>2, <2>3, <2>5
  <1>. QED
    BY <1>3, <1>4, <1>5, <1>6

(* Patching the counter of spec builds preserves the invariant.            *)
LEMMA CounterPatched ==
    ASSUME NumberingInv, TypeOK', patchBuildRunCounter
    PROVE  NumberingInv'
  <1>0. TypeOK /\ StaleNumbersTaken /\ CreatedIsNext /\ RunNumbersTracked /\ TriggersInv
    BY DEF NumberingInv, CountersInv
  <1>1. /\ UNCHANGED <<runs, cache, spaced>> /\ pc' \in {"record", "notReady"}
        /\ loc' \in {loc, srv'} /\ pc = "counter"
        /\ srv'.trigCounter = srv.trigCounter /\ srv'.lastTrig = srv.lastTrig
        /\ \/ srv' = srv
           \/ srv'.counter = srv.counter + 1 /\ buildRunNameFor(srv'.counter) \in DOMAIN runs
    BY CounterWritten DEF patchBuildRunCounter, Owned
  <1>2. \A ib \in Copies' : ib \in Copies \/ ib = srv'
    BY <1>1 DEF Copies
  <1>3. /\ srv.counter \in Nat /\ srv'.counter \in Nat
        /\ srv.trigCounter \in Nat
        /\ \A ib \in Copies : ib.counter \in Nat /\ ib.trigCounter \in Nat
    BY <1>0, NumberTypes, CopiesType DEF TypeOK
  <1>4. StaleNumbersTaken'
    <2>. SUFFICES ASSUME NEW ib \in Copies' PROVE NumbersTaken(ib)'
      BY DEF StaleNumbersTaken
    <2>1. CASE ib \in Copies
      <3>1. NumbersTaken(ib) /\ ib.counter \in Nat /\ ib.trigCounter \in Nat
        BY <1>0, <1>3, <2>1 DEF StaleNumbersTaken
      <3>. QED
        BY <1>1, <1>3, <3>1 DEF NumbersTaken
    <2>2. CASE ib = srv'
      BY <1>1, <1>3, <2>2 DEF NumbersTaken
    <2>. QED
      BY <1>2, <2>1, <2>2
  <1>5. CreatedIsNext'
    BY <1>1 DEF CreatedIsNext
  <1>6. RunNumbersTracked'
    <2>. SUFFICES ASSUME NEW n \in DOMAIN runs, runs[n].own
                  PROVE  n[2] <= 1 + (IF n[1] = "spec" THEN srv'.counter ELSE srv'.trigCounter)
      BY <1>1 DEF RunNumbersTracked
    <2>1. n[2] \in Nat
      BY <1>0 DEF TypeOK, RunName
    <2>. QED
      BY <1>0, <1>1, <1>3, <2>1 DEF RunNumbersTracked
  <1>7. TriggersInv'
    <2>1. srv'.lastTrig.number = srv'.trigCounter
      BY <1>0, <1>1 DEF TriggersInv
    <2>2. \A ib \in Copies' : ib.trigCounter = srv'.trigCounter => ib.lastTrig = srv'.lastTrig
      BY <1>0, <1>1, <1>2 DEF TriggersInv
    <2>. QED
      BY <1>1, <2>1, <2>2 DEF TriggersInv
  <1>. QED
    BY <1>4, <1>5, <1>6, <1>7 DEF NumberingInv, CountersInv

(* A trigger is recorded with the next number, for a commit other than the *)
(* last one's, when that is onCommitMinInterval ago.                       *)
LEMMA TriggerWritten ==
    ASSUME NumberingInv, patchOnCommitTriggered
    PROVE  /\ UNCHANGED <<runs, cache, spaced>> /\ pc' \in {"status", "notReady"}
           /\ loc' \in {loc, srv'}
           /\ srv'.counter = srv.counter
           /\ \/ srv' = srv
              \/ /\ srv'.trigCounter = srv.trigCounter + 1
                 /\ onCommitRunNameFor(srv'.trigCounter) \in Owned
                 /\ srv'.lastTrig.number = srv'.trigCounter
                 /\ spaced >= srv.lastTrig.number
                 /\ srv.lastTrig.number # 0 => srv'.lastTrig.commit # srv.lastTrig.commit
  <1>. DEFINE trig == [number |-> br.name[2], commit |-> loc.pending.commit]
              new == [loc EXCEPT !.trigCounter = br.name[2], !.lastTrig = trig,
                                 !.pending = NoEvent]
  <1>0. TypeOK /\ CreatedIsNext /\ TriggersInv /\ pc = "triggered"
    BY DEF NumberingInv, CountersInv, patchOnCommitTriggered
  <1>1. /\ loc.trigCounter = srv.trigCounter /\ loc.trigCounter \in Nat
        /\ br.name = onCommitRunNameFor(loc.trigCounter + 1) /\ br.name \in Owned
    BY <1>0, NumberTypes DEF CreatedIsNext, TypeOK
  <1>2. br.name[2] = loc.trigCounter + 1
    BY <1>1 DEF onCommitRunNameFor
  <1>3. loc.lastTrig = srv.lastTrig /\ srv.lastTrig.number = srv.trigCounter
    BY <1>0, <1>1 DEF TriggersInv, Copies
  <1>4. /\ spaced >= srv.lastTrig.number
        /\ srv.lastTrig.number # 0 => loc.pending.commit # srv.lastTrig.commit
    BY <1>0, <1>3 DEF TriggersInv, isDuplicateCommit
  <1>5. UNCHANGED <<runs, cache, spaced>>
    BY DEF patchOnCommitTriggered, Elsewhere, caches, clock
  <1>6. pc' \in {"status", "notReady"} /\ loc' \in {loc, srv'}
    BY DEF patchOnCommitTriggered, Proceed, Abandon
  <1>7. PatchTo(new) \/ srv' = srv
    BY DEF patchOnCommitTriggered, PatchError
  <1>8. CASE PatchTo(new)
    <2>1. new \in ImageBuild
      BY <1>0, TriggerCopy
    <2>2. /\ new.counter = loc.counter /\ new.trigCounter = loc.trigCounter + 1
          /\ new.lastTrig = trig
      BY <1>0, <1>2 DEF TypeOK, ImageBuild
    <2>3. trig.number = loc.trigCounter + 1 /\ trig.commit = loc.pending.commit
      BY <1>2
    <2>. HIDE DEF new, trig
    <2>4. new.trigCounter # loc.trigCounter /\ new.lastTrig # loc.lastTrig
      BY <1>1, <1>3, <2>2, <2>3
    <2>5. srv'.counter = srv.counter /\ srv'.trigCounter = new.trigCounter
          /\ srv'.lastTrig = new.lastTrig
      BY <1>0, <1>8, <2>1, <2>2, <2>4 DEF TypeOK, PatchTo, MergePatch, ImageBuild
    <2>. QED
      BY <1>1, <1>4, <1>5, <1>6, <2>2, <2>3, <2>5
  <1>. QED
    BY <1>5, <1>6, <1>7, <1>8

(* Recording a trigger preserves the invariant.                            *)
LEMMA TriggerPatched ==
    ASSUME NumberingInv, TypeOK', patchOnCommitTriggered
    PROVE  NumberingInv'
  <1>0. TypeOK /\ StaleNumbersTaken /\ CreatedIsNext /\ RunNumbersTracked /\ TriggersInv
    BY DEF NumberingInv, CountersInv
  <1>1. /\ UNCHANGED <<runs, cache, spaced>> /\ pc' \in {"status", "notReady"}
        /\ loc' \in {loc, srv'} /\ pc = "triggered"
        /\ srv'.counter = srv.counter
        /\ \/ srv' = srv
           \/ /\ srv'.trigCounter = srv.trigCounter + 1
              /\ onCommitRunNameFor(srv'.trigCounter) \in DOMAIN runs
              /\ srv'.lastTrig.number = srv'.trigCounter
    BY TriggerWritten DEF patchOnCommitTriggered, Owned
  <1>2. \A ib \in Copies' : ib \in Copies \/ ib = srv'
    BY <1>1 DEF Copies
  <1>3. /\ srv.counter \in Nat /\ srv'.trigCounter \in Nat
        /\ srv.trigCounter \in Nat
        /\ \A ib \in Copies : ib.counter \in Nat /\ ib.trigCounter \in Nat
    BY <1>0, NumberTypes, CopiesType DEF TypeOK
  <1>4. StaleNumbersTaken'
    <2>. SUFFICES ASSUME NEW ib \in Copies' PROVE NumbersTaken(ib)'
      BY DEF StaleNumbersTaken
    <2>1. CASE ib \in Copies
      <3>1. NumbersTaken(ib) /\ ib.counter \in Nat /\ ib.trigCounter \in Nat
        BY <1>0, <1>3, <2>1 DEF StaleNumbersTaken
      <3>. QED
        BY <1>1, <1>3, <3>1 DEF NumbersTaken
    <2>2. CASE ib = srv'
      BY <1>1, <1>3, <2>2 DEF NumbersTaken
    <2>. QED
      BY <1>2, <2>1, <2>2
  <1>5. CreatedIsNext'
    BY <1>1 DEF CreatedIsNext
  <1>6. RunNumbersTracked'
    <2>. SUFFICES ASSUME NEW n \in DOMAIN runs, runs[n].own
                  PROVE  n[2] <= 1 + (IF n[1] = "spec" THEN srv'.counter ELSE srv'.trigCounter)
      BY <1>1 DEF RunNumbersTracked
    <2>1. n[2] \in Nat
      BY <1>0 DEF TypeOK, RunName
    <2>. QED
      BY <1>0, <1>1, <1>3, <2>1 DEF RunNumbersTracked
  <1>7. TriggersInv'
    <2>1. srv'.lastTrig.number = srv'.trigCounter
      BY <1>0, <1>1 DEF TriggersInv
    <2>2. ASSUME NEW ib \in Copies', ib.trigCounter = srv'.trigCounter
          PROVE  ib.lastTrig = srv'.lastTrig
      <3>1. CASE ib \in Copies
        <4>1. ib.trigCounter <= srv.trigCounter
          BY <1>0, <3>1 DEF StaleNumbersTaken, NumbersTaken
        <4>2. srv' = srv
          BY <1>1, <1>3, <2>2, <3>1, <4>1
        <4>. QED
          BY <1>0, <2>2, <3>1, <4>2 DEF TriggersInv
      <3>. QED
        BY <1>2, <3>1
    <2>. QED
      BY <1>1, <2>1, <2>2 DEF TriggersInv
  <1>. QED
    BY <1>4, <1>5, <1>6, <1>7 DEF NumberingInv, CountersInv

-----------------------------------------------------------------------------
(* Deleting a BuildRun: no copy is behind, so no name has to stay taken.   *)

(* Deleting a BuildRun preserves the invariant.                            *)
LEMMA RunDeletedInv ==
    ASSUME NumberingInv, TypeOK', NEW n \in DOMAIN runs, RunDeleted(n)
    PROVE  NumberingInv'
  <1>0. TypeOK /\ StaleNumbersTaken /\ CreatedIsNext /\ RunNumbersTracked /\ TriggersInv
    BY DEF NumberingInv, CountersInv
  <1>1. UNCHANGED <<srv, cache, pc, loc, br, spaced>>
    BY DEF RunDeleted, caches, reconcile, clock
  <1>2. /\ \A m \in DOMAIN runs' : m \in DOMAIN runs /\ runs'[m] = runs[m]
        /\ \A m \in DOMAIN runs : m # n => m \in DOMAIN runs'
    BY DEF RunDeleted
  <1>3. /\ \A ib \in Copies : ib.counter = srv.counter /\ ib.trigCounter = srv.trigCounter
        /\ pc \in {"counter", "triggered"} => br.name # n
    BY DEF RunDeleted, RetainedLongEnough
  <1>4. Copies' = Copies
    BY <1>1 DEF Copies
  <1>5. StaleNumbersTaken'
    <2>1. srv.counter \in Nat /\ srv.trigCounter \in Nat
      BY <1>0, NumberTypes DEF TypeOK
    <2>. QED
      BY <1>1, <1>3, <1>4, <2>1 DEF StaleNumbersTaken, NumbersTaken
  <1>6. CreatedIsNext'
    BY <1>0, <1>1, <1>2, <1>3 DEF CreatedIsNext, Owned
  <1>7. RunNumbersTracked'
    BY <1>0, <1>1, <1>2 DEF RunNumbersTracked
  <1>8. TriggersInv'
    BY <1>0, <1>1, <1>4 DEF TriggersInv, isDuplicateCommit
  <1>. QED
    BY <1>5, <1>6, <1>7, <1>8 DEF NumberingInv, CountersInv

-----------------------------------------------------------------------------
(* Each action preserves the invariant.                                    *)

(* The writes that leave the counters of the copy alone.                   *)
SameNumbers(new) ==
    /\ new \in ImageBuild
    /\ new.counter = loc.counter /\ new.trigCounter = loc.trigCounter
    /\ new.lastTrig = loc.lastTrig

(* Label, buildRef, pending, annotation and Ready writes.                  *)
LEMMA NewCopiesKeep ==
    ASSUME TypeOK
    PROVE  /\ SameNumbers([loc EXCEPT !.label = desiredLabel(loc)])
           /\ SameNumbers([loc EXCEPT !.buildRef = TRUE, !.obsGen = loc.gen])
           /\ SameNumbers([loc EXCEPT !.pending = NoEvent])
           /\ SameNumbers([loc EXCEPT !.lastSpec = loc.inputs])
           /\ \A reason \in ReadyReason \cup {"none"} : SameNumbers(withReady(reason))
  <1>0. loc \in ImageBuild
    BY DEF TypeOK
  <1>1. SameNumbers([loc EXCEPT !.label = desiredLabel(loc)])
    BY <1>0, NewCopies DEF SameNumbers, ImageBuild
  <1>2. SameNumbers([loc EXCEPT !.buildRef = TRUE, !.obsGen = loc.gen])
    BY <1>0, NewCopies DEF SameNumbers, ImageBuild
  <1>3. SameNumbers([loc EXCEPT !.pending = NoEvent])
    BY <1>0, NewCopies DEF SameNumbers, ImageBuild
  <1>4. SameNumbers([loc EXCEPT !.lastSpec = loc.inputs])
    BY <1>0, NewCopies DEF SameNumbers, ImageBuild
  <1>5. ASSUME NEW reason \in ReadyReason \cup {"none"} PROVE SameNumbers(withReady(reason))
    <2>1. withReady(reason) \in ImageBuild
      BY NewCopies
    <2>. QED
      BY <1>0, <2>1 DEF SameNumbers, ImageBuild, withReady
  <1>. QED
    BY <1>1, <1>2, <1>3, <1>4, <1>5

(* patchBuildSucceededCondition sets no counter.                           *)
LEMMA SucceededKeeps ==
    ASSUME TypeOK
    PROVE  SameNumbers([loc EXCEPT !.obsGen = loc.gen,
                                   !.lastRun = br.name,
                                   !.conds = [loc.conds EXCEPT !.succeeded =
                                       [reason |-> deriveBuildSucceededStatus(br),
                                        gen |-> loc.gen]]])
  BY SucceededCopy DEF SameNumbers, ImageBuild, TypeOK

(* patchLatestImage sets no counter.                                       *)
LEMMA ImageKeeps ==
    ASSUME TypeOK
    PROVE  SameNumbers([loc EXCEPT !.obsGen = loc.gen, !.latestImage = imageToReport(loc, br)])
  BY ImageCopy DEF SameNumbers, ImageBuild, TypeOK

(* What a step can be, as far as the numbering goes.                       *)
StepCases ==
    \/ KeepsNumbering
    \/ pc # "idle" /\ Creates(buildRunNameFor(nextCounter(loc.counter)), "counter")
    \/ /\ onCommitReady /\ ~isDuplicateCommit(loc, loc.pending.commit)
       /\ Creates(onCommitRunNameFor(nextCounter(loc.trigCounter)), "triggered")
    \/ patchBuildRunCounter
    \/ patchOnCommitTriggered
    \/ \E n \in DOMAIN runs : RunDeleted(n)

(* Every step of the reconcile is one of these.                            *)
LEMMA ReconcileCases ==
    ASSUME TypeOK, Reconcile
    PROVE  StepCases
  <1>. DEFINE Others == PC \ {"counter", "triggered"}
  <1>b. /\ "build" \in Others /\ "oncommit" \in Others /\ "default" \in Others
        /\ "status" \in Others /\ "record" \in Others /\ "image" \in Others
        /\ afterBuild \in Others
        /\ \A ib : afterStatus(ib) \in Others
    BY DEF PC, afterBuild, afterStatus
  <1>c. "BuildRunReconcileFailed" \in ReadyReason /\ "Reconciled" \in ReadyReason
    BY DEF ReadyReason
  <1>w. ASSUME NEW new, SameNumbers(new), pc # "idle", NEW next \in Others,
               WriteStep(new, next, "BuildRunReconcileFailed")
        PROVE  KeepsNumbering
    BY <1>c, <1>w, WriteKeeps, Zenon DEF SameNumbers
  <1>n. ASSUME pc # "idle", UNCHANGED <<srv, runs>>, Elsewhere,
               NEW next \in Others, NEW reason, NEW requeue,
               Skip(next) \/ Finish(requeue) \/ Abandon(reason, requeue)
        PROVE  KeepsNumbering
    BY <1>n, NoWriteKeeps, Zenon
  <1>. HIDE DEF Others
  <1>1. ASSUME StartReconcile PROVE KeepsNumbering
    <2>1. UNCHANGED <<srv, runs, cache, spaced>> /\ loc' = cache /\ pc' \in {"build", "label"}
      BY <1>1 DEF StartReconcile, cluster, caches, clock
    <2>2. KeepsNumbers /\ KeepsCopies /\ KeepsWrites
      BY <2>1 DEF KeepsNumbers, KeepsCopies, KeepsWrites
    <2>. QED
      BY <2>1, <2>2, SameRunsKept, SpacedKept DEF KeepsNumbering
  <1>2. ASSUME ensureOnCommitLabel PROVE KeepsNumbering
    <2>1. pc # "idle"
      BY <1>2 DEF ensureOnCommitLabel
    <2>. QED
      BY <1>2, <1>b, <1>w, <2>1, NewCopiesKeep, Zenon
         DEF ensureOnCommitLabel, WriteStep
  <1>3. ASSUME validateWebhookSecret \/ buildBlocked PROVE KeepsNumbering
    <2>1. pc # "idle"
      BY <1>3 DEF validateWebhookSecret, buildBlocked
    <2>. QED
      BY <1>3, <1>b, <1>n, <2>1, Zenon DEF validateWebhookSecret, buildBlocked
  <1>4. ASSUME ensureBuild PROVE KeepsNumbering
    <2>1. pc # "idle"
      BY <1>4 DEF ensureBuild
    <2>2. UNCHANGED <<srv, runs>>
      BY <1>4, Zenon DEF ensureBuild, Skip
    <2>. QED
      BY <1>4, <1>b, <1>n, <2>1, <2>2, Zenon DEF ensureBuild
  <1>5. ASSUME patchBuildRef PROVE KeepsNumbering
    <2>1. pc # "idle"
      BY <1>5 DEF patchBuildRef
    <2>. QED
      BY <1>5, <1>b, <1>w, <2>1, NewCopiesKeep, Zenon DEF patchBuildRef, WriteStep
  <1>6. ASSUME onCommitWaits PROVE KeepsNumbering
    <2>1. pc # "idle"
      BY <1>6 DEF onCommitWaits
    <2>. QED
      BY <1>6, <1>b, <1>n, <2>1, Zenon DEF onCommitWaits
  <1>7. ASSUME onCommitDuplicate PROVE KeepsNumbering
    <2>1. pc # "idle"
      BY <1>7 DEF onCommitDuplicate, onCommitReady
    <2>. QED
      BY <1>7, <1>b, <1>w, <2>1, NewCopiesKeep, Zenon
         DEF onCommitDuplicate, WriteStep
  <1>8. ASSUME onCommitActive PROVE KeepsNumbering
    <2>1. pc # "idle"
      BY <1>8 DEF onCommitActive, onCommitReady
    <2>. QED
      BY <1>8, <1>b, <1>n, <2>1, Zenon DEF onCommitActive, Skip
  <1>9. CASE ensureOnCommitBuildRun
    <2>. DEFINE name == onCommitRunNameFor(nextCounter(loc.trigCounter))
    <2>1. name \in RunName
      BY DEF TypeOK, ImageBuild, onCommitRunNameFor, nextCounter, RunName, RunKind
    <2>2. pc # "idle"
      BY <1>9 DEF ensureOnCommitBuildRun, onCommitReady
    <2>3. KeepsNumbering \/ Creates(name, "triggered")
      BY <1>9, <1>b, <2>1, <2>2, GetOrCreateCases, Zenon DEF ensureOnCommitBuildRun, Others
    <2>. QED
      BY <1>9, <2>3, Zenon DEF ensureOnCommitBuildRun, StepCases
  <1>11. ASSUME getLastBuildRun PROVE KeepsNumbering
    <2>1. pc # "idle"
      BY <1>11 DEF getLastBuildRun, atDefault
    <2>2. (IF loc.lastRun \in DOMAIN cacheRuns THEN "status" ELSE afterStatus(loc)) \in Others
      BY <1>b
    <2>. QED
      BY <1>11, <1>n, <2>1, <2>2, Zenon DEF getLastBuildRun, Skip
  <1>12. CASE ensureBuildRun
    <2>. DEFINE name == buildRunNameFor(nextCounter(loc.counter))
    <2>1. name \in RunName
      BY DEF TypeOK, ImageBuild, buildRunNameFor, nextCounter, RunName, RunKind
    <2>2. pc # "idle"
      BY <1>12 DEF ensureBuildRun, atDefault
    <2>3. KeepsNumbering \/ Creates(name, "counter")
      BY <1>12, <1>b, <2>1, <2>2, GetOrCreateCases, Zenon DEF ensureBuildRun, Others
    <2>. QED
      BY <2>2, <2>3, Zenon DEF StepCases
  <1>14. ASSUME recordBuildSpec PROVE KeepsNumbering
    <2>1. pc # "idle"
      BY <1>14 DEF recordBuildSpec
    <2>2. CASE UNCHANGED <<srv, faults>> /\ Finish(TRUE)
      BY <1>14, <1>b, <1>n, <2>1, <2>2, Zenon DEF recordBuildSpec
    <2>3. CASE ~(UNCHANGED <<srv, faults>> /\ Finish(TRUE))
      BY <1>14, <1>b, <1>w, <2>1, <2>3, NewCopiesKeep, Zenon
         DEF recordBuildSpec, WriteStep
    <2>. QED
      BY <2>2, <2>3
  <1>15. ASSUME patchBuildSucceededCondition PROVE KeepsNumbering
    <2>1. pc # "idle" /\ afterStatus(srv') \in Others
      BY <1>15, <1>b DEF patchBuildSucceededCondition
    <2>. QED
      BY <1>15, <1>w, <2>1, SucceededKeeps, Zenon
         DEF patchBuildSucceededCondition, WriteStep
  <1>16. ASSUME patchReadyCondition PROVE KeepsNumbering
    <2>1. pc # "idle"
      BY <1>16 DEF patchReadyCondition
    <2>. QED
      BY <1>16, <1>b, <1>c, <1>w, <2>1, NewCopiesKeep, Zenon
         DEF patchReadyCondition, WriteStep
  <1>17. ASSUME patchLatestImage PROVE KeepsNumbering
    <2>. DEFINE new == [loc EXCEPT !.obsGen = loc.gen, !.latestImage = imageToReport(loc, br)]
    <2>1. poll(loc) \in BOOLEAN /\ poll(srv') \in BOOLEAN
      BY DEF poll
    <2>2. LastWrite(new)
      BY <1>17, <2>1, Zenon DEF patchLatestImage, LastWrite
    <2>. QED
      BY <2>2, LastWriteKeeps, ImageKeeps, Zenon DEF SameNumbers
  <1>18. ASSUME setNotReady PROVE KeepsNumbering
    <2>1. fail.reason \in ReadyReason \cup {"none"} /\ fail.requeue \in BOOLEAN
      BY DEF TypeOK
    <2>2. LastWrite(withReady(fail.reason))
      BY <1>18, <2>1, Zenon DEF setNotReady, LastWrite
    <2>. QED
      BY <2>1, <2>2, LastWriteKeeps, NewCopiesKeep, Zenon DEF SameNumbers
  <1>. QED
    BY <1>1, <1>2, <1>3, <1>4, <1>5, <1>6, <1>7, <1>8, <1>9, <1>11, <1>12,
       <1>14, <1>15, <1>16, <1>17, <1>18, Zenon DEF Reconcile, StepCases

(* Outside the reconcile nobody touches its variables or the counters.     *)
LEMMA QuietKeeps ==
    ASSUME UNCHANGED <<pc, loc, br>>, cache' \in {cache, srv}, KeepsNumbers, KeepsRuns,
           KeepsSpaced
    PROVE  KeepsNumbering
  BY DEF KeepsNumbering, KeepsCopies, KeepsWrites

(* A step that leaves the ImageBuild alone keeps its counters.             *)
LEMMA SameNumbersKept == ASSUME UNCHANGED srv PROVE KeepsNumbers
  BY DEF KeepsNumbers

(* Informers, crashes and webhook requests keep the numbering.             *)
LEMMA OperatorCases ==
    ASSUME TypeOK, Operator
    PROVE  KeepsNumbering
  <1>. USE DEF cluster, caches, reconcile, versions, webhook, clock, bounds
  <1>1. CASE SyncImageBuild \/ SyncRuns \/ SyncBuild
    <2>1. UNCHANGED <<srv, runs, pc, loc, br, spaced>> /\ cache' \in {cache, srv}
      BY <1>1 DEF SyncImageBuild, SyncRuns, SyncBuild
    <2>. QED
      BY <2>1, QuietKeeps, SameNumbersKept, SameRunsKept, SpacedKept
  <1>2. CASE Crash
    <2>1. UNCHANGED <<srv, runs, spaced>> /\ cache' = srv /\ pc' = "idle"
      BY <1>2 DEF Crash
    <2>. QED
      BY <2>1, SameNumbersKept, SameRunsKept, SpacedKept
         DEF KeepsNumbering, KeepsCopies, KeepsWrites
  <1>3. ASSUME NEW c \in Commits, WebhookReceives(c) PROVE KeepsNumbering
    <2>1. UNCHANGED <<srv, runs, cache, pc, loc, br, spaced>>
      BY <1>3 DEF WebhookReceives
    <2>. QED
      BY <2>1, QuietKeeps, SameNumbersKept, SameRunsKept, SpacedKept
  <1>4. ASSUME NEW h \in hooks, WebhookPatches(h) PROVE KeepsNumbering
    <2>1. UNCHANGED <<runs, cache, pc, loc, br, spaced>>
      BY <1>4 DEF WebhookPatches
    <2>2. KeepsNumbers
      BY <1>4 DEF WebhookPatches, KeepsNumbers, TypeOK, ImageBuild
    <2>. QED
      BY <2>1, <2>2, QuietKeeps, SameRunsKept, SpacedKept
  <1>5. ASSUME NEW h \in hooks, WebhookFails(h) PROVE KeepsNumbering
    <2>1. UNCHANGED <<srv, runs, cache, pc, loc, br, spaced>>
      BY <1>5 DEF WebhookFails
    <2>. QED
      BY <2>1, QuietKeeps, SameNumbersKept, SameRunsKept, SpacedKept
  <1>. QED
    BY <1>1, <1>2, <1>3, <1>4, <1>5 DEF Operator

(* Only retention concerns the numbering from outside.                     *)
LEMMA EnvironmentCases ==
    ASSUME TypeOK, Environment
    PROVE  StepCases
  <1>. USE DEF cluster, caches, reconcile, versions, webhook, clock, bounds
  <1>1. ASSUME NEW i \in Inputs, UserEdits(i) PROVE KeepsNumbering
    <2>1. UNCHANGED <<runs, cache, pc, loc, br, spaced>>
      BY <1>1 DEF UserEdits
    <2>2. KeepsNumbers
      BY <1>1 DEF UserEdits, KeepsNumbers, TypeOK, ImageBuild
    <2>. QED
      BY <2>1, <2>2, QuietKeeps, SameRunsKept, SpacedKept
  <1>2. ASSUME UserEnablesRebuild PROVE KeepsNumbering
    <2>1. UNCHANGED <<runs, cache, pc, loc, br, spaced>>
      BY <1>2 DEF UserEnablesRebuild
    <2>2. KeepsNumbers
      BY <1>2 DEF UserEnablesRebuild, KeepsNumbers, TypeOK, ImageBuild
    <2>. QED
      BY <2>1, <2>2, QuietKeeps, SameRunsKept, SpacedKept
  <1>3. ASSUME DependencyAppears \/ DebounceElapses PROVE KeepsNumbering
    <2>1. UNCHANGED <<srv, runs, cache, pc, loc, br, spaced>>
      BY <1>3 DEF DependencyAppears, DebounceElapses
    <2>. QED
      BY <2>1, QuietKeeps, SameNumbersKept, SameRunsKept, SpacedKept
  <1>4. ASSUME NEW n \in DOMAIN runs, RunStarts(n) \/ RunFinishes(n) PROVE KeepsNumbering
    <2>1. UNCHANGED <<srv, cache, pc, loc, br, spaced>>
      BY <1>4 DEF RunStarts, RunFinishes
    <2>2. KeepsRuns
      <3>1. DOMAIN runs' = DOMAIN runs /\ runs[n].own
            /\ \A m \in DOMAIN runs : m # n => runs'[m] = runs[m]
        BY <1>4 DEF RunStarts, RunFinishes
      <3>2. runs'[n].own
        <4>1. runs[n] \in Run
          BY DEF TypeOK
        <4>2. CASE RunStarts(n)
          BY <3>1, <4>1, <4>2 DEF RunStarts, Run
        <4>3. CASE RunFinishes(n)
          <5>1. PICK phase, digest :
                  runs' = [runs EXCEPT ![n] = [runs[n] EXCEPT !.phase = phase, !.digest = digest]]
            BY <4>3, Zenon DEF RunFinishes
          <5>. QED
            BY <3>1, <4>1, <5>1 DEF Run
        <4>. QED
          BY <1>4, <4>2, <4>3
      <3>. QED
        BY <3>1, <3>2 DEF KeepsRuns, Owned
    <2>. QED
      BY <2>1, <2>2, QuietKeeps, SameNumbersKept, SpacedKept
  <1>5. ASSUME IntervalElapses PROVE KeepsNumbering
    <2>1. UNCHANGED <<srv, runs, cache, pc, loc, br>>
      BY <1>5 DEF IntervalElapses
    <2>2. KeepsSpaced
      BY <1>5 DEF IntervalElapses, KeepsSpaced
    <2>. QED
      BY <2>1, <2>2, QuietKeeps, SameNumbersKept, SameRunsKept
  <1>6. ASSUME NEW n \in LaterForeign, ForeignRunAppears(n) PROVE KeepsNumbering
    <2>1. UNCHANGED <<srv, cache, pc, loc, br, spaced>>
      BY <1>6 DEF ForeignRunAppears
    <2>2. KeepsRuns
      <3>1. n \notin DOMAIN runs /\ runs' = WithRun(n, foreignRun)
        BY <1>6 DEF ForeignRunAppears
      <3>2. ~foreignRun.own
        BY DEF foreignRun, newBuildRun
      <3>3. DOMAIN runs' = DOMAIN runs \cup {n} /\ Owned' = Owned
        BY <3>1, <3>2 DEF WithRun, Owned
      <3>. QED
        BY <2>1, <3>1, <3>3 DEF KeepsRuns
    <2>. QED
      BY <2>1, <2>2, QuietKeeps, SameNumbersKept, SpacedKept
  <1>7. ASSUME ForeignBuildAppears PROVE KeepsNumbering
    <2>1. UNCHANGED <<srv, runs, cache, pc, loc, br, spaced>>
      BY <1>7 DEF ForeignBuildAppears
    <2>. QED
      BY <2>1, QuietKeeps, SameNumbersKept, SameRunsKept, SpacedKept
  <1>. QED
    BY <1>1, <1>2, <1>3, <1>4, <1>5, <1>6, <1>7, Zenon DEF Environment, StepCases

(* Every step of the system is one of the cases.                           *)
LEMMA NextCases ==
    ASSUME TypeOK, [Next]_vars
    PROVE  StepCases
  <1>1. CASE Next
    BY <1>1, ReconcileCases, OperatorCases, EnvironmentCases, Zenon DEF Next, StepCases
  <1>2. CASE UNCHANGED vars
    <2>1. UNCHANGED <<srv, runs, cache, pc, loc, br, spaced>>
      BY <1>2 DEF vars, cluster, caches, reconcile, clock
    <2>. QED
      BY <2>1, QuietKeeps, SameNumbersKept, SameRunsKept, SpacedKept DEF StepCases
  <1>. QED
    BY <1>1, <1>2

(* The invariant is inductive.                                             *)
LEMMA NumberingStep == NumberingInv /\ [Next]_vars => NumberingInv'
  <1>. SUFFICES ASSUME NumberingInv, [Next]_vars PROVE NumberingInv'
    OBVIOUS
  <1>1. TypeOK
    BY DEF NumberingInv, CountersInv
  <1>2. TypeOK'
    BY <1>1, NextType
  <1>. QED
    BY <1>1, <1>2, NextCases, KeptInv, SpecRunCreated, OnCommitRunCreated, CounterPatched,
       TriggerPatched, RunDeletedInv, Zenon DEF StepCases

(* At the start the ImageBuild has the BuildRuns its counter says.         *)
LEMMA InitOwned ==
    ASSUME Init
    PROVE  srv.counter \in Nat /\ Owned = {<<"spec", k>> : k \in 1 .. srv.counter}
  <1>0. foreignRun.own = FALSE
    BY DEF foreignRun, newBuildRun
  <1>1. CASE InitCreated
    <2>1. srv.counter = 0
      BY <1>1 DEF InitCreated, NewImageBuild
    <2>2. Owned = {}
      BY <1>0, <1>1 DEF InitCreated, Owned
    <2>. QED
      BY <2>1, <2>2
  <1>2. CASE InitSettled
    <2>1. srv.counter = 1
      BY <1>2 DEF InitSettled, NewImageBuild
    <2>2. PICK i \in InitInputs, F \in InitForeign :
            runs = [n \in {buildRunNameFor(1)} \cup F |->
                      IF n = buildRunNameFor(1)
                      THEN [phase |-> "succeeded", own |-> TRUE, digest |-> TRUE, built |-> i]
                      ELSE foreignRun]
      BY <1>2 DEF InitSettled
    <2>3. Owned = {buildRunNameFor(1)}
      BY <1>0, <2>2 DEF Owned
    <2>. QED
      BY <2>1, <2>3 DEF buildRunNameFor
  <1>. QED
    BY <1>1, <1>2 DEF Init

(* At the start no copy is behind and at most the first number is in use.  *)
LEMMA InitNumbering == Init => NumberingInv
  <1>. SUFFICES ASSUME Init PROVE NumberingInv
    OBVIOUS
  <1>1. TypeOK
    BY InitType
  <1>2. cache = srv /\ pc = "idle"
    BY DEF Init
  <1>3. srv.counter \in Nat /\ srv.trigCounter \in Nat
    BY <1>1, NumberTypes DEF TypeOK
  <1>4. StaleNumbersTaken /\ CreatedIsNext
    BY <1>2, <1>3 DEF StaleNumbersTaken, NumbersTaken, Copies, CreatedIsNext
  <1>5. RunNumbersTracked
    BY <1>3, InitOwned DEF RunNumbersTracked, Owned
  <1>6. TriggersInv
    <2>1. srv.lastTrig.number = srv.trigCounter
      <3>1. CASE InitCreated
        BY <3>1 DEF InitCreated, NewImageBuild, NoTrigger
      <3>2. CASE InitSettled
        BY <3>2 DEF InitSettled, NewImageBuild, NoTrigger
      <3>. QED
        BY <3>1, <3>2 DEF Init
    <2>. QED
      BY <1>2, <2>1 DEF TriggersInv, Copies
  <1>. QED
    BY <1>1, <1>4, <1>5, <1>6 DEF NumberingInv, CountersInv

-----------------------------------------------------------------------------
(* The results.                                                            *)

(* The inductive invariant holds: a reconcile working from a stale copy    *)
(* finds the next name taken, and one about to patch a counter or record a *)
(* trigger has an up-to-date copy of it (getOrCreateBuildRun, remainingWait*)
(* and isDuplicateCommit).                                                 *)
THEOREM NumberingInvariant == Spec => []NumberingInv
  BY InitNumbering, NumberingStep, PTL DEF Spec

(* In particular every number a cached or held copy is behind by is taken, *)
(* and a run is created under the number after the server's counter        *)
(* (getOrCreateBuildRun, ensureBuildRun).                                  *)
THEOREM CountersInvariant == Spec => []CountersInv
  <1>1. NumberingInv => CountersInv
    BY DEF NumberingInv
  <1>. QED
    BY <1>1, NumberingInvariant, PTL

(* A copy that counts as many triggers as the server knows the same last   *)
(* trigger, and a trigger about to be recorded is due (remainingWait,      *)
(* isDuplicateCommit on a cached copy).                                    *)
THEOREM TriggersInvariant == Spec => []TriggersInv
  <1>1. NumberingInv => TriggersInv
    BY DEF NumberingInv
  <1>. QED
    BY <1>1, NumberingInvariant, PTL

(* An owned BuildRun is never numbered more than one above its counter     *)
(* (ensureBuildRun and ensureOnCommitBuildRun create the run before they   *)
(* patch the counter).                                                     *)
THEOREM RunsTracked == Spec => []RunNumbersTracked
  <1>1. NumberingInv => RunNumbersTracked
    BY DEF NumberingInv, CountersInv
  <1>. QED
    BY <1>1, NumberingInvariant, PTL

(* No patch of a counter skips a number, takes one back or counts a        *)
(* BuildRun that does not exist (patchBuildRunCounter,                     *)
(* patchOnCommitTriggered).                                                *)
THEOREM CountersStep == Spec => CountersStepByOne
  <1>. DEFINE Step ==
         /\ srv'.counter # srv.counter =>
              /\ srv'.counter = srv.counter + 1
              /\ buildRunNameFor(srv'.counter) \in DOMAIN runs
         /\ srv'.trigCounter # srv.trigCounter =>
              /\ srv'.trigCounter = srv.trigCounter + 1
              /\ onCommitRunNameFor(srv'.trigCounter) \in DOMAIN runs
  <1>1. NumberingInv /\ [Next]_vars => Step
    <2>. SUFFICES ASSUME NumberingInv, [Next]_vars PROVE Step
      OBVIOUS
    <2>1. StepCases
      BY NextCases DEF NumberingInv, CountersInv
    <2>2. ASSUME KeepsNumbers PROVE Step
      BY <2>2 DEF KeepsNumbers
    <2>3. ASSUME UNCHANGED srv PROVE Step
      BY <2>3
    <2>4. CASE patchBuildRunCounter
      BY <2>4, CounterWritten DEF Owned
    <2>5. CASE patchOnCommitTriggered
      BY <2>5, TriggerWritten DEF Owned
    <2>. HIDE DEF Step
    <2>. QED
      BY <2>1, <2>2, <2>3, <2>4, <2>5, Zenon DEF StepCases, KeepsNumbering, Creates, RunDeleted
  <1>2. NumberingInv /\ [Next]_vars => [Step]_vars
    BY <1>1
  <1>. QED
    BY <1>2, NumberingInvariant, PTL DEF Spec, CountersStepByOne

(* A trigger is recorded only when the stored last trigger is old enough   *)
(* and was for another commit, although both were checked on a cached copy *)
(* (remainingWait, isDuplicateCommit, patchOnCommitTriggered).             *)
THEOREM TriggersAreSpaced == Spec => TriggersSpaced
  <1>. DEFINE Step ==
         srv'.lastTrig # srv.lastTrig =>
            /\ srv'.lastTrig.number = srv.lastTrig.number + 1
            /\ spaced >= srv.lastTrig.number
            /\ srv.lastTrig.number # 0 => srv'.lastTrig.commit # srv.lastTrig.commit
  <1>1. NumberingInv /\ [Next]_vars => Step
    <2>. SUFFICES ASSUME NumberingInv, [Next]_vars PROVE Step
      OBVIOUS
    <2>1. StepCases
      BY NextCases DEF NumberingInv, CountersInv
    <2>2. ASSUME KeepsNumbers PROVE Step
      BY <2>2 DEF KeepsNumbers
    <2>3. ASSUME UNCHANGED srv PROVE Step
      BY <2>3
    <2>4. CASE patchBuildRunCounter
      BY <2>4, CounterWritten
    <2>5. CASE patchOnCommitTriggered
      <3>1. srv.lastTrig.number = srv.trigCounter
        BY DEF NumberingInv, TriggersInv
      <3>. QED
        BY <2>5, <3>1, TriggerWritten
    <2>. HIDE DEF Step
    <2>. QED
      BY <2>1, <2>2, <2>3, <2>4, <2>5, Zenon DEF StepCases, KeepsNumbering, Creates, RunDeleted
  <1>2. NumberingInv /\ [Next]_vars => [Step]_vars
    BY <1>1
  <1>. QED
    BY <1>2, NumberingInvariant, PTL DEF Spec, TriggersSpaced

=============================================================================
