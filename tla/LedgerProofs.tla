---------------------------- MODULE LedgerProofs ----------------------------
(***************************************************************************)
(* ImageBuildController implements BuildRunLedger, for every number of     *)
(* specs, commits, faults, crashes and deletions and every lag of the      *)
(* informers.  Each case of NumberingProofs!StepCases is a step of the     *)
(* ledger or leaves it alone; that a creation or a record made from a copy *)
(* is the one the ledger allows now is what NumberingInv is for.           *)
(***************************************************************************)
EXTENDS NumberingProofs

(* The names of BuildRuns in the ledger's terms.                           *)
LEMMA LedgerNames ==
    ASSUME NEW k
    PROVE  buildRunNameFor(k) = <<"spec", k>> /\ onCommitRunNameFor(k) = <<"oncommit", k>>
  BY DEF buildRunNameFor, onCommitRunNameFor

(* Creating a BuildRun adds its name to those of the ImageBuild.           *)
LEMMA CreateLedger ==
    ASSUME NEW name, NEW patch, Creates(name, patch)
    PROVE  Ledger!Create(name)
  <1>1. name \notin DOMAIN runs /\ runs' = WithRun(name, newBuildRun) /\ UNCHANGED <<srv, spaced>>
    BY DEF Creates
  <1>2. DOMAIN runs' = DOMAIN runs \cup {name}
        /\ \A n \in DOMAIN runs : n # name => runs'[n] = runs[n]
    BY <1>1, CreatedNames
  <1>3. runs'[name].own
    BY <1>1 DEF WithRun, newBuildRun
  <1>4. Owned' = Owned \cup {name}
    BY <1>1, <1>2, <1>3 DEF Owned
  <1>5. (DOMAIN runs \ Owned)' = DOMAIN runs \ Owned
    BY <1>1, <1>2, <1>4 DEF Owned
  <1>6. name \notin Owned \cup (DOMAIN runs \ Owned)
    BY <1>1 DEF Owned
  <1>. QED
    BY <1>1, <1>4, <1>5, <1>6 DEF Ledger!Create

(* A step that keeps the numbering is none of the ledger's, somebody else  *)
(* taking a name, or time.                                                 *)
LEMMA KeepsLedger ==
    ASSUME KeepsNumbering
    PROVE  \/ UNCHANGED Ledger!vars \/ Ledger!IntervalElapses
           \/ \E name \in (DOMAIN runs \ Owned)' : Ledger!Taken(name)
  <1>1. KeepsNumbers /\ KeepsRuns /\ KeepsSpaced
    BY DEF KeepsNumbering
  <1>2. CASE DOMAIN runs' = DOMAIN runs
    BY <1>1, <1>2 DEF KeepsNumbers, KeepsRuns, KeepsSpaced, Ledger!vars, Ledger!IntervalElapses
  <1>3. ASSUME NEW n, n \notin DOMAIN runs, DOMAIN runs' = DOMAIN runs \cup {n},
               UNCHANGED <<srv, spaced>>
        PROVE  n \in (DOMAIN runs \ Owned)' /\ Ledger!Taken(n)
    <2>1. Owned' = Owned /\ n \notin Owned
      BY <1>1, <1>3 DEF KeepsRuns, Owned
    <2>2. n \in (DOMAIN runs \ Owned)' /\ (DOMAIN runs \ Owned)' = (DOMAIN runs \ Owned) \cup {n}
      BY <1>3, <2>1
    <2>. QED
      BY <1>3, <2>1, <2>2 DEF Ledger!Taken
  <1>. QED
    BY <1>1, <1>2, <1>3 DEF KeepsRuns

(* A BuildRun for a changed spec has the next number.                      *)
LEMMA SpecLedger ==
    ASSUME NumberingInv, pc # "idle",
           Creates(buildRunNameFor(nextCounter(loc.counter)), "counter")
    PROVE  Ledger!CreateForSpec
  <1>1. TypeOK /\ StaleNumbersTaken
    BY DEF NumberingInv, CountersInv
  <1>2. loc.counter \in Nat /\ srv.counter \in Nat
    BY <1>1, NumberTypes DEF TypeOK
  <1>3. Creates(buildRunNameFor(loc.counter + 1), "counter")
    BY <1>2 DEF nextCounter
  <1>4. NumbersTaken(loc)
    BY <1>1 DEF StaleNumbersTaken, Copies
  <1>5. loc.counter = srv.counter
    BY <1>2, <1>3, <1>4 DEF NumbersTaken, Creates
  <1>6. Ledger!Create(<<"spec", srv.counter + 1>>)
    BY <1>3, <1>5, CreateLedger, LedgerNames, Zenon
  <1>. QED
    BY <1>6, Zenon DEF Ledger!CreateForSpec

(* A BuildRun for a pushed commit has the next number, and the last        *)
(* trigger of the server is old enough.                                    *)
LEMMA CommitLedger ==
    ASSUME NumberingInv, onCommitReady,
           Creates(onCommitRunNameFor(nextCounter(loc.trigCounter)), "triggered")
    PROVE  Ledger!CreateForCommit
  <1>1. TypeOK /\ StaleNumbersTaken /\ TriggersInv /\ pc # "idle"
    BY DEF NumberingInv, CountersInv, onCommitReady
  <1>2. /\ loc.trigCounter \in Nat /\ srv.trigCounter \in Nat
        /\ srv.lastTrig.number \in Nat /\ spaced \in Nat
    BY <1>1, NumberTypes DEF TypeOK
  <1>3. Creates(onCommitRunNameFor(loc.trigCounter + 1), "triggered")
    BY <1>2 DEF nextCounter
  <1>4. NumbersTaken(loc)
    BY <1>1 DEF StaleNumbersTaken, Copies
  <1>5. loc.trigCounter = srv.trigCounter
    BY <1>2, <1>3, <1>4 DEF NumbersTaken, Creates
  <1>6. loc.lastTrig = srv.lastTrig /\ srv.lastTrig.number = srv.trigCounter
    BY <1>1, <1>5 DEF TriggersInv, Copies
  <1>7. srv.lastTrig.number <= spaced
    BY <1>2, <1>6 DEF onCommitReady, remainingWait
  <1>8. Ledger!Create(<<"oncommit", srv.lastTrig.number + 1>>)
    BY <1>3, <1>5, <1>6, CreateLedger, LedgerNames, Zenon
  <1>. QED
    BY <1>7, <1>8, Zenon DEF Ledger!CreateForCommit

(* The patch of the counter counts the next BuildRun.                      *)
LEMMA CountLedger ==
    ASSUME NumberingInv, patchBuildRunCounter
    PROVE  Ledger!Count \/ UNCHANGED Ledger!vars
  <1>1. UNCHANGED <<runs, spaced>> /\ UNCHANGED Owned /\ srv'.lastTrig = srv.lastTrig
    BY CounterWritten DEF Owned
  <1>2. CASE srv' = srv
    BY <1>1, <1>2 DEF Ledger!vars
  <1>3. CASE srv'.counter = srv.counter + 1 /\ buildRunNameFor(srv'.counter) \in Owned
    BY <1>1, <1>3, LedgerNames DEF Ledger!Count
  <1>. QED
    BY <1>2, <1>3, CounterWritten

(* The patch of the trigger records the next one.                          *)
LEMMA RecordLedger ==
    ASSUME NumberingInv, TypeOK', patchOnCommitTriggered
    PROVE  (\E c \in Commits \cup {NoCommit} : Ledger!Record(c)) \/ UNCHANGED Ledger!vars
  <1>1. UNCHANGED <<runs, spaced>> /\ UNCHANGED Owned /\ srv'.counter = srv.counter
    BY TriggerWritten DEF Owned
  <1>2. CASE srv' = srv
    BY <1>1, <1>2 DEF Ledger!vars
  <1>3. CASE /\ srv'.trigCounter = srv.trigCounter + 1
             /\ onCommitRunNameFor(srv'.trigCounter) \in Owned
             /\ srv'.lastTrig.number = srv'.trigCounter
             /\ spaced >= srv.lastTrig.number
             /\ srv.lastTrig.number # 0 => srv'.lastTrig.commit # srv.lastTrig.commit
    <2>0. srv.lastTrig.number \in Nat /\ spaced \in Nat
      BY NumberTypes DEF NumberingInv, CountersInv, TypeOK
    <2>1. srv.lastTrig.number = srv.trigCounter
      BY DEF NumberingInv, TriggersInv
    <2>2. srv'.lastTrig \in Trigger
      BY DEF TypeOK, ImageBuild
    <2>3. srv'.lastTrig.commit \in Commits \cup {NoCommit}
      BY <2>2 DEF Trigger
    <2>4. srv'.lastTrig = [number |-> srv.lastTrig.number + 1, commit |-> srv'.lastTrig.commit]
      BY <1>3, <2>1, <2>2 DEF Trigger
    <2>5. Ledger!Record(srv'.lastTrig.commit)
      BY <1>1, <1>3, <2>0, <2>1, <2>4, LedgerNames DEF Ledger!Record
    <2>. QED
      BY <2>3, <2>5
  <1>. QED
    BY <1>2, <1>3, TriggerWritten

(* Retention removes a BuildRun of the ImageBuild.                         *)
LEMMA RemoveLedger ==
    ASSUME NEW n \in DOMAIN runs, RunDeleted(n)
    PROVE  n \in Owned /\ Ledger!Remove(n)
  <1>1. runs[n].own /\ runs' = [m \in DOMAIN runs \ {n} |-> runs[m]] /\ UNCHANGED <<srv, spaced>>
    BY DEF RunDeleted, clock
  <1>2. n \in Owned /\ Owned' = Owned \ {n}
    BY <1>1 DEF Owned
  <1>3. (DOMAIN runs \ Owned)' = DOMAIN runs \ Owned
    BY <1>1, <1>2 DEF Owned
  <1>. QED
    BY <1>1, <1>2, <1>3 DEF Ledger!Remove

(* Every step is one of the ledger's or leaves it alone.                   *)
LEMMA StepLedger == NumberingInv /\ [Next]_vars => [Ledger!Next]_(Ledger!vars)
  <1>. SUFFICES ASSUME NumberingInv, [Next]_vars PROVE [Ledger!Next]_(Ledger!vars)
    OBVIOUS
  <1>1. TypeOK /\ StepCases
    BY NextCases DEF NumberingInv, CountersInv
  <1>2. TypeOK'
    BY <1>1, NextType
  <1>3. ASSUME NEW n \in DOMAIN runs, RunDeleted(n) PROVE \E name \in Owned : Ledger!Remove(name)
    BY <1>3, RemoveLedger
  <1>. QED
    BY <1>1, <1>2, <1>3, KeepsLedger, SpecLedger, CommitLedger, CountLedger, RecordLedger, Zenon
       DEF StepCases, Ledger!Next

(* The ledger starts as the ImageBuild does.                               *)
LEMMA InitLedger == Init => Ledger!Init
  <1>. SUFFICES ASSUME Init PROVE Ledger!Init
    OBVIOUS
  <1>1. srv.counter \in Nat /\ Owned = {<<"spec", k>> : k \in 1 .. srv.counter}
    BY InitOwned
  <1>2. srv.lastTrig = [number |-> 0, commit |-> NoCommit]
    <2>1. CASE InitCreated
      BY <2>1 DEF InitCreated, NewImageBuild, NoTrigger
    <2>2. CASE InitSettled
      BY <2>2 DEF InitSettled, NewImageBuild, NoTrigger
    <2>. QED
      BY <2>1, <2>2 DEF Init
  <1>3. spaced = 0
    BY DEF Init
  <1>. QED
    BY <1>1, <1>2, <1>3 DEF Ledger!Init

(* The reconciler implements the ledger: as far as its BuildRuns, counters *)
(* and triggers go, stale caches, lost responses, retries, crashes and     *)
(* retention cannot be told from one writer who always sees what the       *)
(* server has (getOrCreateBuildRun, patchOnCommitTriggered).               *)
THEOREM LedgerImplemented == Spec => RefinesLedger
  BY InitLedger, StepLedger, NumberingInvariant, PTL DEF Spec, RefinesLedger, Ledger!Spec

=============================================================================
