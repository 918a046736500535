---------------------------- MODULE SilverProofs ----------------------------
(***************************************************************************)
(* Proofs about Silver for every set of runs, keys, items and batches and  *)
(* every bound.                                                            *)
(***************************************************************************)
EXTENDS Silver, FiniteSetTheorems, TLAPS

USE ItemsAssumption, NumbersAssumption

-----------------------------------------------------------------------------
(* The inductive invariant. *)

\* The rows shown for the keys are rows that are stored for them.
Stored(rows, b) == \A k \in DOMAIN rows : rows[k] \in b[k]

\* What is known of a run q when the Bronze table is b.
RunOK(q, b) ==
    /\ q.pc = "waiting" => q.tries = 0
    /\ q.pc = "retry" => q.tries <= Retries
    /\ \A k \in Key : q.frame[k] \subseteq b[k]
    /\ Stored(q.batch, b)

SilverInv ==
    /\ TypeOK
    /\ Stored(silver, bronze)
    /\ \A r \in Run : RunOK(run[r], bronze)

-----------------------------------------------------------------------------
(* Facts about the operators. *)

LEMMA RowsType ==
    ASSUME NEW keys \in SUBSET Key, NEW rows \in [keys -> BronzeRow]
    PROVE  rows \in RowsOfSomeKeys
  BY DEF RowsOfSomeKeys

LEMMA EmptyRows == /\ <<>> \in RowsOfSomeKeys
                   /\ DOMAIN <<>> = {}
<1>1. DOMAIN <<>> = {}
  OBVIOUS
<1>2. <<>> \in [{} -> BronzeRow] /\ {} \in SUBSET Key
  OBVIOUS
<1>3. <<>> \in RowsOfSomeKeys
  BY <1>2, RowsType
<1> QED
  BY <1>1, <1>3

LEMMA RowsFacts ==
    ASSUME NEW rows \in RowsOfSomeKeys
    PROVE  /\ DOMAIN rows \subseteq Key
           /\ rows \in [DOMAIN rows -> BronzeRow]
  BY DEF RowsOfSomeKeys

LEMMA NoAttemptType == NoAttempt \in RunState
<1>1. 0 \in 0 .. Retries + 1
  OBVIOUS
<1>2. NoBronze \in [Key -> SUBSET BronzeRow]
  BY DEF NoBronze
<1> QED
  BY <1>1, <1>2, EmptyRows DEF NoAttempt, RunState, PC

\* A frame has one row for each key that is read, and it is a row of the key.
LEMMA DeduplicatedFacts ==
    ASSUME NEW rows \in [Key -> SUBSET BronzeRow], NEW pick \in Deduplicated(rows)
    PROVE  /\ pick \in RowsOfSomeKeys
           /\ DOMAIN pick = Loaded(rows)
           /\ Stored(pick, rows)
<1>1. /\ DOMAIN pick = Loaded(rows)
      /\ \A k \in Loaded(rows) : pick[k] \in Latest(rows, k)
      /\ pick \in [Loaded(rows) -> UNION {Latest(rows, k) : k \in Loaded(rows)}]
  BY DEF Deduplicated
<1>2. Loaded(rows) \subseteq Key
  BY DEF Loaded
<1>3. \A k \in Loaded(rows) : pick[k] \in rows[k] /\ pick[k] \in BronzeRow
  BY <1>1, <1>2 DEF Latest
<1>4. pick \in [Loaded(rows) -> BronzeRow]
  BY <1>1, <1>3
<1> QED
  BY <1>1, <1>2, <1>3, <1>4, RowsType DEF Stored

\* What is known of a run stays known when Bronze only gains keys.
LEMMA RunKept ==
    ASSUME NEW q \in RunState, NEW b, NEW c, RunOK(q, b),
           \A k \in Key : b[k] # {} => c[k] = b[k]
    PROVE  RunOK(q, c)
<1>1. DOMAIN q.batch \subseteq Key
  BY RowsFacts DEF RunState
<1>2. Stored(q.batch, c)
  BY <1>1 DEF RunOK, Stored
<1>3. \A k \in Key : q.frame[k] \subseteq c[k]
  BY DEF RunOK
<1> QED
  BY <1>2, <1>3 DEF RunOK

-----------------------------------------------------------------------------
(* The steps. *)

LEMMA InitInv == Init => SilverInv
<1> SUFFICES ASSUME Init
             PROVE  SilverInv
  OBVIOUS
<1>1. TypeOK
  <2>1. bronze \in [Key -> SUBSET BronzeRow]
    BY DEF Init, NoBronze
  <2>2. run \in [Run -> RunState]
    BY NoAttemptType DEF Init
  <2>3. silver \in RowsOfSomeKeys
    BY EmptyRows DEF Init
  <2> QED
    BY <2>1, <2>2, <2>3 DEF Init, TypeOK
<1>2. Stored(silver, bronze)
  BY EmptyRows DEF Init, Stored
<1>3. ASSUME NEW r \in Run
      PROVE  RunOK(run[r], bronze)
  <2>1. run[r] = NoAttempt
    BY DEF Init
  <2> QED
    BY <2>1, EmptyRows DEF NoAttempt, NoBronze, RunOK, Stored
<1> QED
  BY <1>1, <1>2, <1>3 DEF SilverInv

\* A step of one run that gives it a state in which it is all right.
LEMMA RunStep ==
    ASSUME SilverInv,
           NEW r \in Run, NEW q \in RunState,
           run' = [run EXCEPT ![r] = q],
           UNCHANGED <<bronze, loads>>,
           silver' \in RowsOfSomeKeys,
           Stored(silver', bronze),
           version' \in Nat,
           RunOK(q, bronze)
    PROVE  SilverInv'
<1>1. TypeOK'
  <2>1. run' \in [Run -> RunState]
    BY DEF SilverInv, TypeOK
  <2> QED
    BY <2>1 DEF SilverInv, TypeOK
<1>2. ASSUME NEW s \in Run
      PROVE  RunOK(run'[s], bronze')
  BY DEF SilverInv, TypeOK
<1> QED
  BY <1>1, <1>2 DEF SilverInv

LEMMA LoadBronzeInv ==
    ASSUME SilverInv, NEW batch \in Batches, LoadBronze(batch)
    PROVE  SilverInv'
<1>1. loads \in 0 .. MaxLoads /\ loads' \in 1 .. MaxLoads
  BY DEF SilverInv, TypeOK, LoadBronze
<1>2. batch \in SUBSET Item
  OBVIOUS
<1>3. \A k \in Key : bronze[k] # {} => bronze'[k] = bronze[k]
  BY DEF LoadBronze
<1>4. bronze' \in [Key -> SUBSET BronzeRow]
  <2>1. ASSUME NEW k \in Key
        PROVE  bronze'[k] \in SUBSET BronzeRow
    <3>1. CASE bronze[k] # {}
      BY <1>3, <3>1 DEF SilverInv, TypeOK
    <3>2. CASE bronze[k] = {}
      <4>1. bronze'[k] = {[item |-> x, ts |-> loads'] : x \in {y \in batch : KeyOf[y] = k}}
        BY <3>2 DEF LoadBronze
      <4> QED
        BY <1>1, <1>2, <4>1 DEF BronzeRow
    <3> QED
      BY <3>1, <3>2
  <2> QED
    BY <2>1 DEF LoadBronze
<1>5. TypeOK'
  BY <1>1, <1>4 DEF SilverInv, TypeOK, LoadBronze
<1>6. Stored(silver', bronze')
  <2>1. DOMAIN silver \subseteq Key
    BY RowsFacts DEF SilverInv, TypeOK
  <2> QED
    BY <1>3, <2>1 DEF SilverInv, LoadBronze, Stored
<1>7. ASSUME NEW s \in Run
      PROVE  RunOK(run'[s], bronze')
  <2>1. run[s] \in RunState
    BY DEF SilverInv, TypeOK
  <2>2. RunOK(run[s], bronze)
    BY DEF SilverInv
  <2>3. RunOK(run[s], bronze')
    BY <1>3, <2>1, <2>2, RunKept
  <2> QED
    BY <2>3 DEF LoadBronze
<1> QED
  BY <1>5, <1>6, <1>7 DEF SilverInv

\* A step that changes the state of one run and no table.
LEMMA QuietStep ==
    ASSUME SilverInv,
           NEW r \in Run, NEW q \in RunState,
           run' = [run EXCEPT ![r] = q],
           UNCHANGED tables,
           RunOK(q, bronze)
    PROVE  SilverInv'
<1>1. /\ silver' \in RowsOfSomeKeys
      /\ Stored(silver', bronze)
      /\ version' \in Nat
  BY DEF SilverInv, TypeOK, tables
<1> QED
  BY <1>1, RunStep DEF tables

LEMMA StartSilverInv ==
    ASSUME SilverInv, NEW r \in Run, StartSilver(r)
    PROVE  SilverInv'
<1> DEFINE q == [NoAttempt EXCEPT !.pc = "read", !.tries = run[r].tries + 1,
                                  !.seen = Loaded(bronze)]
<1>1. run[r] \in RunState /\ RunOK(run[r], bronze)
  BY DEF SilverInv, TypeOK
<1>2. run[r].tries + 1 \in 0 .. Retries + 1
  <2>1. run[r].tries \in Nat /\ run[r].tries <= Retries
    BY <1>1 DEF StartSilver, RunState, RunOK
  <2> QED
    BY <2>1
<1>3. q \in RunState
  <2>1. Loaded(bronze) \in SUBSET Key
    BY DEF Loaded
  <2> QED
    BY <1>2, <2>1, NoAttemptType DEF NoAttempt, RunState, PC
<1>4. RunOK(q, bronze)
  BY EmptyRows DEF NoAttempt, NoBronze, RunOK, Stored
<1>5. run' = [run EXCEPT ![r] = q] /\ UNCHANGED tables
  BY DEF StartSilver
<1> HIDE DEF q
<1> QED
  BY <1>3, <1>4, <1>5, QuietStep

LEMMA SensorTimeoutInv ==
    ASSUME SilverInv, NEW r \in Run, SensorTimeout(r)
    PROVE  SilverInv'
<1> DEFINE q == [run[r] EXCEPT !.pc = "failed"]
<1>1. run[r] \in RunState /\ RunOK(run[r], bronze)
  BY DEF SilverInv, TypeOK
<1>2. q \in RunState
  BY <1>1 DEF RunState, PC
<1>3. RunOK(q, bronze)
  BY <1>1 DEF RunState, RunOK
<1>4. run' = [run EXCEPT ![r] = q] /\ UNCHANGED tables
  BY DEF SensorTimeout
<1> HIDE DEF q
<1> QED
  BY <1>2, <1>3, <1>4, QuietStep

LEMMA ReadBronzeInv ==
    ASSUME SilverInv, NEW r \in Run, ReadBronze(r)
    PROVE  SilverInv'
<1> DEFINE frame == IF Optimized THEN bronze ELSE NoBronze
           q == [run[r] EXCEPT !.pc = "probe", !.frame = frame]
<1>1. run[r] \in RunState /\ RunOK(run[r], bronze)
  BY DEF SilverInv, TypeOK
<1>2. /\ frame \in [Key -> SUBSET BronzeRow]
      /\ \A k \in Key : frame[k] \subseteq bronze[k]
  BY DEF NoBronze, SilverInv, TypeOK
<1>3. run' = [run EXCEPT ![r] = q] /\ UNCHANGED tables
  BY DEF ReadBronze
<1> HIDE DEF frame
<1>4. q \in RunState
  BY <1>1, <1>2 DEF RunState, PC
<1>5. RunOK(q, bronze)
  BY <1>1, <1>2 DEF RunState, RunOK
<1> HIDE DEF q
<1> QED
  BY <1>3, <1>4, <1>5, QuietStep

LEMMA ProbeTableInv ==
    ASSUME SilverInv, NEW r \in Run, ProbeTable(r)
    PROVE  SilverInv'
<1>1. run[r] \in RunState /\ RunOK(run[r], bronze)
  BY DEF SilverInv, TypeOK
<1>2. PICK found \in BOOLEAN : found = (version > 0)
  <2>1. (version > 0) \in BOOLEAN
    OBVIOUS
  <2> QED
    BY <2>1, Zenon
<1> DEFINE q == [run[r] EXCEPT !.pc = "evaluate", !.merge = found]
<1>3. q \in RunState
  BY <1>1 DEF RunState, PC
<1>4. RunOK(q, bronze)
  BY <1>1 DEF RunState, RunOK
<1>5. run' = [run EXCEPT ![r] = q] /\ UNCHANGED tables
  BY <1>2, Zenon DEF ProbeTable
<1> HIDE DEF q
<1> QED
  BY <1>3, <1>4, <1>5, QuietStep

\* The rows that an attempt writes are rows of Bronze, whichever it reads.
LEMMA BatchFacts ==
    ASSUME SilverInv, NEW r \in Run,
           NEW pick \in Deduplicated(IF Optimized THEN run[r].frame ELSE bronze)
    PROVE  /\ pick \in RowsOfSomeKeys
           /\ DOMAIN pick = Loaded(IF Optimized THEN run[r].frame ELSE bronze)
           /\ Stored(pick, bronze)
<1> DEFINE rows == IF Optimized THEN run[r].frame ELSE bronze
<1>1. rows \in [Key -> SUBSET BronzeRow] /\ \A k \in Key : rows[k] \subseteq bronze[k]
  BY DEF SilverInv, TypeOK, RunState, RunOK
<1> HIDE DEF rows
<1>2. /\ pick \in RowsOfSomeKeys
      /\ DOMAIN pick = Loaded(rows)
      /\ Stored(pick, rows)
  BY <1>1, DeduplicatedFacts DEF rows
<1>3. Stored(pick, bronze)
  BY <1>1, <1>2 DEF Stored, Loaded
<1> QED
  BY <1>2, <1>3 DEF rows

LEMMA EvaluateBatchInv ==
    ASSUME SilverInv, NEW r \in Run, EvaluateBatch(r)
    PROVE  SilverInv'
<1>1. run[r] \in RunState /\ RunOK(run[r], bronze)
  BY DEF SilverInv, TypeOK
<1>2. PICK pick \in Deduplicated(IF Optimized THEN run[r].frame ELSE bronze) :
          run' = [run EXCEPT ![r].pc = "commit", ![r].base = version, ![r].batch = pick]
  BY DEF EvaluateBatch
<1>3. pick \in RowsOfSomeKeys /\ Stored(pick, bronze)
  BY BatchFacts
<1> DEFINE q == [run[r] EXCEPT !.pc = "commit", !.base = version, !.batch = pick]
<1>4. q \in RunState
  BY <1>1, <1>3 DEF RunState, PC, SilverInv, TypeOK
<1>5. RunOK(q, bronze)
  BY <1>1, <1>3 DEF RunState, RunOK
<1>6. run' = [run EXCEPT ![r] = q] /\ UNCHANGED tables
  BY <1>2 DEF EvaluateBatch, SilverInv, TypeOK
<1> HIDE DEF q
<1> QED
  BY <1>4, <1>5, <1>6, QuietStep

\* The end of an attempt by an exception, whatever the attempt has done.
LEMMA AbandonInv ==
    ASSUME SilverInv, NEW r \in Run, Abandon(r)
    PROVE  SilverInv'
<1> DEFINE q == [NoAttempt EXCEPT !.pc = IF run[r].tries <= Retries
                                         THEN "retry" ELSE "failed",
                                  !.tries = run[r].tries]
<1>1. run[r].tries \in 0 .. Retries + 1
  BY DEF SilverInv, TypeOK, RunState
<1>2. q \in RunState
  BY <1>1, NoAttemptType DEF NoAttempt, RunState, PC
<1>3. RunOK(q, bronze)
  BY EmptyRows DEF NoAttempt, NoBronze, RunOK, Stored
<1>4. run' = [run EXCEPT ![r] = q] /\ UNCHANGED tables
  BY DEF Abandon
<1> HIDE DEF q
<1> QED
  BY <1>2, <1>3, <1>4, QuietStep

LEMMA FinishSilverInv ==
    ASSUME SilverInv, NEW r \in Run, FinishSilver(r)
    PROVE  SilverInv'
<1> DEFINE q == [NoAttempt EXCEPT !.pc = "done", !.tries = run[r].tries,
                                  !.seen = run[r].seen]
<1>1. run[r] \in RunState /\ RunOK(run[r], bronze)
  BY DEF SilverInv, TypeOK
<1>2. q \in RunState
  BY <1>1, NoAttemptType DEF NoAttempt, RunState, PC
<1>3. RunOK(q, bronze)
  BY EmptyRows DEF NoAttempt, NoBronze, RunOK, Stored
<1>4. run' = [run EXCEPT ![r] = q] /\ UNCHANGED tables
  BY DEF FinishSilver
<1> HIDE DEF q
<1> QED
  BY <1>2, <1>3, <1>4, QuietStep

\* A run has committed its batch.
LEMMA CommitStep ==
    ASSUME SilverInv,
           NEW r \in Run,
           run' = [run EXCEPT ![r].pc = "optimize"],
           UNCHANGED <<bronze, loads>>,
           version' = version + 1,
           silver' \in RowsOfSomeKeys,
           Stored(silver', bronze)
    PROVE  SilverInv'
<1> DEFINE q == [run[r] EXCEPT !.pc = "optimize"]
<1>1. run[r] \in RunState /\ RunOK(run[r], bronze)
  BY DEF SilverInv, TypeOK
<1>2. q \in RunState
  BY <1>1 DEF RunState, PC
<1>3. RunOK(q, bronze)
  BY <1>1 DEF RunState, RunOK
<1>4. run' = [run EXCEPT ![r] = q] /\ version' \in Nat
  BY DEF SilverInv, TypeOK
<1> HIDE DEF q
<1> QED
  BY <1>2, <1>3, <1>4, RunStep

\* What a MERGE leaves in Silver.
LEMMA MergedRows ==
    ASSUME SilverInv, NEW r \in Run, CommitMerge(r)
    PROVE  /\ DOMAIN silver' = DOMAIN silver \cup DOMAIN run[r].batch
           /\ silver' \in RowsOfSomeKeys
           /\ Stored(silver', bronze)
<1>1. run[r] \in RunState /\ RunOK(run[r], bronze)
  BY DEF SilverInv, TypeOK
<1>2. Stored(run[r].batch, bronze) /\ Stored(silver, bronze)
  BY <1>1 DEF RunOK, SilverInv
<1>3. /\ DOMAIN silver \subseteq Key /\ silver \in [DOMAIN silver -> BronzeRow]
      /\ DOMAIN run[r].batch \subseteq Key
      /\ run[r].batch \in [DOMAIN run[r].batch -> BronzeRow]
  BY <1>1, RowsFacts DEF SilverInv, TypeOK, RunState
<1>4. silver' \in [DOMAIN silver \cup DOMAIN run[r].batch -> BronzeRow]
  BY <1>3 DEF CommitMerge
<1>5. silver' \in RowsOfSomeKeys
  BY <1>3, <1>4, RowsType
<1>6. Stored(silver', bronze)
  BY <1>2, <1>3 DEF CommitMerge, Stored
<1> QED
  BY <1>4, <1>5, <1>6

LEMMA CommitMergeInv ==
    ASSUME SilverInv, NEW r \in Run, CommitMerge(r)
    PROVE  SilverInv'
  BY MergedRows, CommitStep DEF CommitMerge

\* What an overwrite leaves in Silver.
LEMMA CreatedRows ==
    ASSUME SilverInv, NEW r \in Run, CommitCreate(r)
    PROVE  silver' \in RowsOfSomeKeys /\ Stored(silver', bronze)
  BY DEF SilverInv, TypeOK, RunOK, RunState, CommitCreate

LEMMA CommitCreateInv ==
    ASSUME SilverInv, NEW r \in Run, CommitCreate(r)
    PROVE  SilverInv'
  BY CreatedRows, CommitStep DEF CommitCreate

LEMMA OptimizeInv ==
    ASSUME SilverInv, NEW r \in Run, Optimize(r)
    PROVE  SilverInv'
<1> DEFINE q == [run[r] EXCEPT !.pc = "count"]
<1>1. run[r] \in RunState /\ RunOK(run[r], bronze)
  BY DEF SilverInv, TypeOK
<1>2. q \in RunState
  BY <1>1 DEF RunState, PC
<1>3. RunOK(q, bronze)
  BY <1>1 DEF RunState, RunOK
<1>4. run' = [run EXCEPT ![r] = q] /\ UNCHANGED <<bronze, loads, silver>>
  BY DEF Optimize
<1>5. version' \in Nat /\ silver' \in RowsOfSomeKeys /\ Stored(silver', bronze)
  BY DEF Optimize, SilverInv, TypeOK
<1> HIDE DEF q
<1> QED
  BY <1>2, <1>3, <1>4, <1>5, RunStep

LEMMA StutterInv == SilverInv /\ UNCHANGED vars => SilverInv'
  BY DEF SilverInv, TypeOK, vars

LEMMA NextInv == SilverInv /\ [Next]_vars => SilverInv'
<1> SUFFICES ASSUME SilverInv, [Next]_vars
             PROVE  SilverInv'
  OBVIOUS
<1>1. ASSUME NEW batch \in Batches, LoadBronze(batch)
      PROVE  SilverInv'
  BY <1>1, LoadBronzeInv
<1>2. ASSUME NEW r \in Run, SilverStep(r)
      PROVE  SilverInv'
  <2>1. CASE StartSilver(r)
    BY <2>1, StartSilverInv
  <2>2. CASE SensorTimeout(r)
    BY <2>2, SensorTimeoutInv
  <2>3. CASE EvaluateBatch(r)
    BY <2>3, EvaluateBatchInv
  <2>9. CASE ReadBronze(r)
    BY <2>9, ReadBronzeInv
  <2>10. CASE ProbeTable(r)
    BY <2>10, ProbeTableInv
  <2>4. CASE CommitMerge(r)
    BY <2>4, CommitMergeInv
  <2>5. CASE CommitCreate(r)
    BY <2>5, CommitCreateInv
  <2>6. CASE LoseCommit(r)
    BY <2>6, AbandonInv DEF LoseCommit
  <2>7. CASE Optimize(r)
    BY <2>7, OptimizeInv
  <2>8. CASE FinishSilver(r)
    BY <2>8, FinishSilverInv
  <2> QED
    BY <1>2, <2>1, <2>2, <2>3, <2>4, <2>5, <2>6, <2>7, <2>8, <2>9, <2>10 DEF SilverStep
<1>3. ASSUME NEW r \in Run, FailSilver(r)
      PROVE  SilverInv'
  BY <1>3, AbandonInv DEF FailSilver
<1>4. CASE Finished
  BY <1>4, StutterInv DEF Finished
<1>5. CASE UNCHANGED vars
  BY <1>5, StutterInv
<1> QED
  BY <1>1, <1>2, <1>3, <1>4, <1>5 DEF Next

LEMMA Invariant == Spec => []SilverInv
<1>1. Init => SilverInv
  BY InitInv
<1>2. SilverInv /\ [Next]_vars => SilverInv'
  BY NextInv
<1> QED
  BY <1>1, <1>2, PTL DEF Spec

-----------------------------------------------------------------------------
(* The theorems. *)

\* Tables and runs keep their types, and no run of silver_clean is attempted
\* more often than its retries allow (dags/silver_clean.py, DEFAULT_ARGS).
THEOREM TypeCorrect == Spec => []TypeOK
<1>1. SilverInv => TypeOK
  BY DEF SilverInv
<1> QED
  BY <1>1, Invariant, PTL


-----------------------------------------------------------------------------
(* Silver loses no key. *)

\* No run overlaps before Silver is there, or each reads Bronze inside its
\* transaction.
NoStaleOverwrite == ~Optimized \/ FirstRunAlone

\* A run that is to overwrite the table with a frame it has cached.
Overwrites(q) == Optimized /\ q.pc = "evaluate" /\ ~q.merge

\* What is then known of a run q when the Bronze table is b, the keys of Silver
\* are shown, and Silver is at version v.  A batch that may overwrite this version
\* holds every key that Silver shows.
Covers(q, b, shown, v) ==
    /\ q.pc \in {"read", "probe", "evaluate"} => q.seen \subseteq Loaded(b)
    /\ Optimized /\ q.pc \in {"probe", "evaluate"} => q.seen \subseteq Loaded(q.frame)
    /\ Overwrites(q) => v = 0
    /\ q.pc = "commit" => q.base <= v /\ q.seen \subseteq DOMAIN q.batch
    /\ q.pc = "commit" /\ ~q.merge /\ q.base = v => shown \subseteq DOMAIN q.batch
    /\ q.pc \in {"optimize", "count", "done"} => q.seen \subseteq shown

SoleRun ==
    FirstRunAlone /\ version = 0 => \A r, s \in Run : Active(r) /\ Active(s) => r = s

CoverInv ==
    /\ SoleRun
    /\ version = 0 => DOMAIN silver = {}
    /\ \A r \in Run : Covers(run[r], bronze, DOMAIN silver, version)

LEMMA ShownIsLoaded == SilverInv => DOMAIN silver \subseteq Loaded(bronze)
<1> SUFFICES ASSUME SilverInv PROVE DOMAIN silver \subseteq Loaded(bronze)
  OBVIOUS
<1>1. DOMAIN silver \subseteq Key
  BY RowsFacts DEF SilverInv, TypeOK
<1> QED
  BY <1>1 DEF SilverInv, Stored, Loaded

\* What is known stays known when Bronze only gains keys and Silver loses none
\* and changes only by a new version, while no frame waits to overwrite it.
LEMMA CoversKept ==
    ASSUME NEW q \in RunState, NEW b, NEW c, NEW shown, NEW more,
           NEW v \in Nat, NEW w \in Nat,
           Covers(q, b, shown, v),
           Loaded(b) \subseteq Loaded(c),
           shown \subseteq more,
           \/ w = v /\ more = shown
           \/ w = v + 1 /\ ~Overwrites(q)
    PROVE  Covers(q, c, more, w)
<1>1. q.base \in Nat
  BY DEF RunState
<1>2. q.pc = "commit" => q.base <= w
  BY <1>1 DEF Covers
<1>3. ASSUME q.pc = "commit", ~q.merge, q.base = w
      PROVE  more \subseteq DOMAIN q.batch
  <2>1. q.base <= v
    BY <1>3 DEF Covers
  <2>2. w = v /\ more = shown
    BY <1>1, <1>3, <2>1
  <2> QED
    BY <1>3, <2>2 DEF Covers
<1> QED
  BY <1>2, <1>3 DEF Covers

LEMMA InitCovers == Init => CoverInv
<1> SUFFICES ASSUME Init PROVE CoverInv
  OBVIOUS
<1>1. \A r \in Run : run[r].pc = "waiting"
  BY DEF Init, NoAttempt
<1>2. DOMAIN silver = {}
  BY EmptyRows DEF Init
<1> QED
  BY <1>1, <1>2 DEF CoverInv, SoleRun, Active, Covers, Overwrites

\* A step of one run, which is alone before Silver is there.
LEMMA CoverStep ==
    ASSUME NoStaleOverwrite, SilverInv, CoverInv,
           NEW r \in Run, NEW q \in RunState,
           run' = [run EXCEPT ![r] = q],
           UNCHANGED bronze,
           version' \in Nat,
           DOMAIN silver \subseteq DOMAIN silver',
           \/ Active(r)
           \/ q.pc = "failed"
           \/ FirstRunAlone /\ version = 0 => \A s \in Run \ {r} : ~Active(s),
           \/ version' = version /\ silver' = silver
           \/ version' = version + 1 /\ Active(r),
           Covers(q, bronze, DOMAIN silver', version')
    PROVE  CoverInv'
<1>1. run'[r] = q /\ \A s \in Run \ {r} : run'[s] = run[s]
  BY DEF SilverInv, TypeOK
<1>2. SoleRun'
  <2> SUFFICES ASSUME FirstRunAlone, version' = 0, NEW s \in Run, NEW t \in Run,
                      Active(s)', Active(t)'
               PROVE  s = t
    BY DEF SoleRun
  <2>0. version = 0
    BY DEF SilverInv, TypeOK
  <2>1. s # r => Active(s)
    BY <1>1 DEF Active
  <2>2. t # r => Active(t)
    BY <1>1 DEF Active
  <2>3. s = r \/ t = r => q.pc # "failed"
    BY <1>1 DEF Active
  <2> QED
    BY <2>0, <2>1, <2>2, <2>3 DEF CoverInv, SoleRun
<1>3. ASSUME NEW s \in Run \ {r}
      PROVE  Covers(run[s], bronze, DOMAIN silver', version')
  <2>1. run[s] \in RunState /\ version \in Nat
    BY DEF SilverInv, TypeOK
  <2>2. Covers(run[s], bronze, DOMAIN silver, version)
    BY DEF CoverInv
  <2>3. CASE version' = version /\ silver' = silver
    BY <2>2, <2>3
  <2>4. CASE version' = version + 1 /\ Active(r)
    <3>1. ~Overwrites(run[s])
      BY <2>2, <2>4 DEF NoStaleOverwrite, CoverInv, SoleRun, Active, Covers, Overwrites
    <3> QED
      BY <2>1, <2>2, <2>4, <3>1, CoversKept
  <2> QED
    BY <2>3, <2>4
<1>4. version' = 0 => DOMAIN silver' = {}
  BY DEF CoverInv, SilverInv, TypeOK
<1> QED
  BY <1>1, <1>2, <1>3, <1>4 DEF CoverInv

LEMMA LoadBronzeCovers ==
    ASSUME SilverInv, CoverInv, NEW batch \in Batches, LoadBronze(batch)
    PROVE  CoverInv'
<1>1. Loaded(bronze) \subseteq Loaded(bronze')
  BY DEF LoadBronze, Loaded
<1>2. ASSUME NEW s \in Run
      PROVE  Covers(run[s], bronze', DOMAIN silver, version)
  <2>1. run[s] \in RunState /\ version \in Nat
    BY DEF SilverInv, TypeOK
  <2>2. Covers(run[s], bronze, DOMAIN silver, version)
    BY DEF CoverInv
  <2> QED
    BY <1>1, <2>1, <2>2, CoversKept
<1>3. UNCHANGED <<silver, version, run>>
  BY DEF LoadBronze
<1>4. SoleRun'
  BY <1>3 DEF CoverInv, SoleRun, Active
<1> QED
  BY <1>2, <1>3, <1>4 DEF CoverInv

\* A run starts from "retry", when it is the active one, or when there is none.
LEMMA StartsAlone ==
    ASSUME CoverInv, NEW r \in Run, StartSilver(r), FirstRunAlone, version = 0
    PROVE  \A s \in Run \ {r} : ~Active(s)
  BY DEF StartSilver, CoverInv, SoleRun, Active

\* The state that a step gives its run, without what is left as it was.
LEMMA StepStates ==
    ASSUME TypeOK, NEW r \in Run
    PROVE  /\ StartSilver(r) => run'[r].pc = "read" /\ run'[r].seen = Loaded(bronze)
           /\ SensorTimeout(r) => run'[r].pc = "failed"
           /\ ReadBronze(r) => /\ run'[r].pc = "probe" /\ run'[r].seen = run[r].seen
                               /\ Optimized => run'[r].frame = bronze
           /\ ProbeTable(r) => /\ run'[r].pc = "evaluate" /\ run'[r].seen = run[r].seen
                               /\ run'[r].frame = run[r].frame
                               /\ ~run'[r].merge => version = 0
           /\ EvaluateBatch(r) =>
                  /\ run'[r].pc = "commit" /\ run'[r].seen = run[r].seen
                  /\ run'[r].base = version /\ run'[r].merge = run[r].merge
                  /\ run'[r].batch \in
                         Deduplicated(IF Optimized THEN run[r].frame ELSE bronze)
           /\ CommitMerge(r) \/ CommitCreate(r) =>
                  run'[r].pc = "optimize" /\ run'[r].seen = run[r].seen
           /\ Optimize(r) => run'[r].pc = "count" /\ run'[r].seen = run[r].seen
           /\ FinishSilver(r) => run'[r].pc = "done" /\ run'[r].seen = run[r].seen
           /\ Abandon(r) => run'[r].pc \in {"retry", "failed"}
<1> USE DEF TypeOK, RunState
<1>1. StartSilver(r) => run'[r].pc = "read" /\ run'[r].seen = Loaded(bronze)
  BY DEF StartSilver, NoAttempt
<1>2. SensorTimeout(r) => run'[r].pc = "failed"
  BY DEF SensorTimeout
<1>3. ReadBronze(r) => /\ run'[r].pc = "probe" /\ run'[r].seen = run[r].seen
                       /\ Optimized => run'[r].frame = bronze
  BY DEF ReadBronze
<1>4. ProbeTable(r) => /\ run'[r].pc = "evaluate" /\ run'[r].seen = run[r].seen
                       /\ run'[r].frame = run[r].frame
                       /\ ~run'[r].merge => version = 0
  BY DEF ProbeTable
<1>5. EvaluateBatch(r) =>
          /\ run'[r].pc = "commit" /\ run'[r].seen = run[r].seen
          /\ run'[r].base = version /\ run'[r].merge = run[r].merge
          /\ run'[r].batch \in Deduplicated(IF Optimized THEN run[r].frame ELSE bronze)
  BY DEF EvaluateBatch
<1>6. CommitMerge(r) \/ CommitCreate(r) =>
          run'[r].pc = "optimize" /\ run'[r].seen = run[r].seen
  BY DEF CommitMerge, CommitCreate
<1>7. Optimize(r) => run'[r].pc = "count" /\ run'[r].seen = run[r].seen
  BY DEF Optimize
<1>8. FinishSilver(r) => run'[r].pc = "done" /\ run'[r].seen = run[r].seen
  BY DEF FinishSilver, NoAttempt
<1>9. Abandon(r) => run'[r].pc \in {"retry", "failed"}
  BY DEF Abandon, NoAttempt
<1> QED
  BY <1>1, <1>2, <1>3, <1>4, <1>5, <1>6, <1>7, <1>8, <1>9

\* No commit takes a key out of Silver.
LEMMA CommitKeepsKeys ==
    ASSUME CoverInv, NEW r \in Run, CommitMerge(r) \/ CommitCreate(r)
    PROVE  DOMAIN silver' = DOMAIN silver \cup DOMAIN run[r].batch
<1>1. CASE CommitMerge(r)
  BY <1>1 DEF CommitMerge
<1>2. CASE CommitCreate(r)
  BY <1>2 DEF CommitCreate, CoverInv, Covers
<1> QED
  BY <1>1, <1>2

LEMMA RunCovers ==
    ASSUME NoStaleOverwrite, SilverInv, SilverInv', CoverInv,
           NEW r \in Run, SilverStep(r) \/ FailSilver(r)
    PROVE  CoverInv'
<1> DEFINE q == run'[r]
<1>1. /\ q \in RunState /\ version' \in Nat /\ version \in Nat
      /\ run' = [run EXCEPT ![r] = q]
  <2>1. \E l : run' = [run EXCEPT ![r] = l]
    BY DEF SilverStep, FailSilver, LoseCommit, Abandon, StartSilver, SensorTimeout,
           ReadBronze, ProbeTable, EvaluateBatch, CommitMerge, CommitCreate, Optimize,
           FinishSilver
  <2> QED
    BY <2>1 DEF SilverInv, TypeOK
<1>2. Covers(run[r], bronze, DOMAIN silver, version)
  BY DEF CoverInv
<1>3. DOMAIN silver \subseteq Loaded(bronze)
  BY ShownIsLoaded
<1>4. TypeOK
  BY DEF SilverInv
<1> HIDE DEF q
<1>5. CASE StartSilver(r)
  <2>1. Covers(q, bronze, DOMAIN silver, version)
    BY <1>4, <1>5, StepStates DEF Covers, Overwrites, q
  <2>2. UNCHANGED <<bronze, silver, version>>
    BY <1>5 DEF StartSilver, tables
  <2>3. FirstRunAlone /\ version = 0 => \A s \in Run \ {r} : ~Active(s)
    BY <1>5, StartsAlone
  <2> QED
    BY <1>1, <2>1, <2>2, <2>3, CoverStep
<1>6. CASE SensorTimeout(r)
  <2>1. q.pc = "failed"
    BY <1>4, <1>6, StepStates DEF q
  <2>2. Covers(q, bronze, DOMAIN silver, version)
    BY <2>1 DEF Covers, Overwrites
  <2>3. UNCHANGED <<bronze, silver, version>>
    BY <1>6 DEF SensorTimeout, tables
  <2> QED
    BY <1>1, <2>1, <2>2, <2>3, CoverStep
<1>7. CASE \/ ReadBronze(r) \/ ProbeTable(r) \/ EvaluateBatch(r) \/ FinishSilver(r)
           \/ LoseCommit(r) \/ FailSilver(r)
  <2>1. UNCHANGED <<bronze, silver, version>>
    BY <1>7 DEF ReadBronze, ProbeTable, EvaluateBatch, FinishSilver, LoseCommit,
                FailSilver, Abandon, tables
  <2>2. Covers(q, bronze, DOMAIN silver, version)
    <3>1. CASE ReadBronze(r)
      BY <1>2, <1>3, <1>4, <3>1, StepStates DEF ReadBronze, Covers, Overwrites, q
    <3>2. CASE ProbeTable(r)
      BY <1>2, <1>4, <3>2, StepStates DEF ProbeTable, Covers, Overwrites, q
    <3>3. CASE EvaluateBatch(r)
      <4>1. /\ q.pc = "commit" /\ q.seen = run[r].seen /\ q.base = version
            /\ q.merge = run[r].merge
            /\ q.batch \in Deduplicated(IF Optimized THEN run[r].frame ELSE bronze)
        BY <1>4, <3>3, StepStates DEF q
      <4>2. DOMAIN q.batch = Loaded(IF Optimized THEN run[r].frame ELSE bronze)
        BY <4>1, BatchFacts
      <4>3. q.seen \subseteq DOMAIN q.batch
        BY <1>2, <3>3, <4>1, <4>2 DEF EvaluateBatch, Covers
      <4>4. ~q.merge => DOMAIN silver \subseteq DOMAIN q.batch
        <5>1. /\ run[r].pc = "evaluate"
              /\ ~q.merge => ~run[r].merge
          <6>1. run[r].pc = "evaluate"
            BY <3>3 DEF EvaluateBatch
          <6>2. ~q.merge => ~run[r].merge
            BY <4>1, Zenon
          <6> QED
            BY <6>1, <6>2
        <5>2. CASE Optimized
          <6>1. ~q.merge => Overwrites(run[r])
            BY <5>1, <5>2 DEF Overwrites
          <6>2. Overwrites(run[r]) => version = 0
            BY <1>2 DEF Covers
          <6>3. version = 0 => DOMAIN silver = {}
            BY DEF CoverInv
          <6> QED
            BY <6>1, <6>2, <6>3
        <5>3. CASE ~Optimized
          BY <1>3, <4>2, <5>3
        <5> QED
          BY <5>2, <5>3
      <4> QED
        BY <1>1, <4>1, <4>3, <4>4 DEF Covers, Overwrites
    <3>4. CASE FinishSilver(r)
      BY <1>2, <1>4, <3>4, StepStates DEF FinishSilver, Covers, Overwrites, q
    <3>5. CASE LoseCommit(r) \/ FailSilver(r)
      BY <1>4, <3>5, StepStates DEF LoseCommit, FailSilver, Covers, Overwrites, q
    <3> QED
      BY <1>7, <3>1, <3>2, <3>3, <3>4, <3>5
  <2>3. Active(r)
    BY <1>7 DEF ReadBronze, ProbeTable, EvaluateBatch, FinishSilver, LoseCommit,
                FailSilver, Active
  <2> QED
    BY <1>1, <2>1, <2>2, <2>3, CoverStep
<1>8. CASE CommitMerge(r) \/ CommitCreate(r)
  <2>1. /\ run[r].pc = "commit" /\ version' = version + 1 /\ UNCHANGED bronze
        /\ DOMAIN silver' = DOMAIN silver \cup DOMAIN run[r].batch
    BY <1>8, CommitKeepsKeys DEF CommitMerge, CommitCreate
  <2>2. q.pc = "optimize" /\ q.seen = run[r].seen
    BY <1>4, <1>8, StepStates DEF q
  <2>3. Covers(q, bronze, DOMAIN silver', version')
    BY <1>2, <2>1, <2>2 DEF Covers, Overwrites
  <2> QED
    BY <1>1, <2>1, <2>3, CoverStep DEF Active
<1>9. CASE Optimize(r)
  <2>1. run[r].pc = "optimize" /\ version' = version + 1 /\ UNCHANGED <<bronze, silver>>
    BY <1>9 DEF Optimize
  <2>2. q.pc = "count" /\ q.seen = run[r].seen
    BY <1>4, <1>9, StepStates DEF q
  <2>3. Covers(q, bronze, DOMAIN silver', version')
    BY <1>2, <2>1, <2>2 DEF Covers, Overwrites
  <2> QED
    BY <1>1, <2>1, <2>3, CoverStep DEF Active
<1> QED
  BY <1>5, <1>6, <1>7, <1>8, <1>9 DEF SilverStep

LEMMA NextCovers ==
    ASSUME NoStaleOverwrite, SilverInv, SilverInv', CoverInv, [Next]_vars
    PROVE  CoverInv'
<1>1. ASSUME NEW batch \in Batches, LoadBronze(batch)
      PROVE  CoverInv'
  BY <1>1, LoadBronzeCovers
<1>2. ASSUME NEW r \in Run, SilverStep(r) \/ FailSilver(r)
      PROVE  CoverInv'
  BY <1>2, RunCovers
<1>3. CASE Finished \/ UNCHANGED vars
  BY <1>3 DEF Finished, vars, CoverInv, SoleRun, Active
<1> QED
  BY <1>1, <1>2, <1>3 DEF Next

LEMMA KeysCovered == ASSUME NoStaleOverwrite PROVE Spec => []CoverInv
<1>1. Init => CoverInv
  BY InitCovers
<1>2. SilverInv /\ SilverInv' /\ CoverInv /\ [Next]_vars => CoverInv'
  BY NextCovers
<1> QED
  BY <1>1, <1>2, Invariant, PTL DEF Spec

\* Where no run overlaps with the first, or runs read Bronze inside their
\* transactions, a run that is done has brought in all that Bronze held when its
\* last attempt began, and no other run takes it away again (write_silver,
\* silver.py:75-100).
THEOREM NothingLeftOut ==
    ASSUME ~Optimized \/ FirstRunAlone
    PROVE  Spec => []DoneCoversStart
<1>1. CoverInv => DoneCoversStart
  BY DEF CoverInv, Covers, DoneCoversStart
<1>2. NoStaleOverwrite
  BY DEF NoStaleOverwrite
<1> QED
  BY <1>1, <1>2, KeysCovered, PTL

-----------------------------------------------------------------------------
(* Silver implements KeyedView. *)

\* The refinement mapping.
items == [k \in Key |-> {row.item : row \in bronze[k]}]
shown == [k \in DOMAIN silver |-> silver[k].item]

LEMMA InitRefines == Init => SilverView!Init
<1> SUFFICES ASSUME Init
             PROVE  SilverView!Init
  OBVIOUS
<1>1. items = [k \in Key |-> {}]
  BY DEF Init, NoBronze, items
<1>2. shown = <<>>
  <2>1. DOMAIN shown = {}
    BY EmptyRows DEF Init, shown
  <2>2. shown = [k \in {} |-> silver[k].item]
    BY <2>1 DEF shown
  <2> QED
    BY <2>1, <2>2, EmptyRows
<1> QED
  BY <1>1, <1>2 DEF SilverView!Init, SilverView!Store!Init, items, shown

\* The items of the rows that an ingest makes of a set of items.
LEMMA ItemsOfRows ==
    ASSUME NEW new, NEW t, NEW rows,
           \A x \in new : [item |-> x, ts |-> t] \in rows,
           \A row \in rows : row.item \in new
    PROVE  {row.item : row \in rows} = new
<1>1. ASSUME NEW x \in new
      PROVE  x \in {row.item : row \in rows}
  <2>1. [item |-> x, ts |-> t].item = x
    OBVIOUS
  <2> QED
    BY <2>1
<1> QED
  BY <1>1

LEMMA LoadRefines ==
    ASSUME SilverInv, NEW batch \in Batches, LoadBronze(batch)
    PROVE  SilverView!Load
<1>1. batch \in SUBSET Item
  OBVIOUS
<1>2. items' = [k \in Key |-> IF items[k] = {}
                              THEN {x \in batch : KeyOf[x] = k}
                              ELSE items[k]]
  <2>1. ASSUME NEW k \in Key
        PROVE  {row.item : row \in bronze'[k]} =
                   IF items[k] = {} THEN {x \in batch : KeyOf[x] = k} ELSE items[k]
    <3>1. items[k] = {row.item : row \in bronze[k]}
      BY DEF items
    <3>2. CASE bronze[k] # {}
      <4>1. items[k] # {}
        BY <3>1, <3>2
      <4>2. bronze'[k] = bronze[k]
        BY <3>2 DEF LoadBronze
      <4> QED
        BY <3>1, <4>1, <4>2
    <3>3. CASE bronze[k] = {}
      <4> DEFINE new == {y \in batch : KeyOf[y] = k}
      <4>1. items[k] = {}
        BY <3>1, <3>3
      <4>2. bronze'[k] = {[item |-> x, ts |-> loads'] : x \in new}
        BY <3>3 DEF LoadBronze
      <4>3. {row.item : row \in bronze'[k]} = new
        <5> HIDE DEF new
        <5>1. \A x \in new : [item |-> x, ts |-> loads'] \in bronze'[k]
          BY <4>2
        <5>2. \A row \in bronze'[k] : row.item \in new
          BY <4>2
        <5> QED
          BY <5>1, <5>2, ItemsOfRows
      <4> QED
        BY <4>1, <4>3
    <3> QED
      BY <3>2, <3>3
  <2> QED
    BY <2>1 DEF items
<1>3. SilverView!Store!Next
  BY <1>1, <1>2 DEF SilverView!Store!Next, SilverView!Store!LoadBatch, items
<1>4. UNCHANGED shown
  BY DEF LoadBronze, shown
<1> QED
  BY <1>3, <1>4 DEF SilverView!Load, shown

\* A commit to Silver shows rows that are stored and takes no key away.
LEMMA CommitRefines ==
    ASSUME SilverInv, SilverInv', UNCHANGED bronze,
           DOMAIN silver \subseteq DOMAIN silver'
    PROVE  SilverView!Refresh
<1>1. DOMAIN silver' \subseteq Key /\ Stored(silver', bronze)
  BY RowsFacts DEF SilverInv, TypeOK
<1>2. DOMAIN shown \subseteq DOMAIN shown' /\ DOMAIN shown' \subseteq Key
  BY <1>1 DEF shown
<1>3. ASSUME NEW k \in DOMAIN shown'
      PROVE  shown'[k] \in items[k]
  <2>1. k \in DOMAIN silver' /\ k \in Key /\ shown'[k] = silver'[k].item
    BY <1>1, <1>3 DEF shown
  <2>2. silver'[k] \in bronze[k]
    BY <1>1, <2>1 DEF Stored
  <2> QED
    BY <2>1, <2>2 DEF items
<1>4. UNCHANGED items
  BY DEF items
<1> QED
  BY <1>2, <1>3, <1>4 DEF SilverView!Refresh, items, shown

LEMMA StutterRefines ==
    ASSUME UNCHANGED <<bronze, silver>>
    PROVE  UNCHANGED <<items, shown>>
  BY DEF items, shown

LEMMA StepRefines ==
    SilverInv /\ SilverInv' /\ CoverInv /\ [Next]_vars
        => SilverView!Next \/ UNCHANGED <<items, shown>>
<1> SUFFICES ASSUME SilverInv, SilverInv', CoverInv, [Next]_vars
             PROVE  SilverView!Next \/ UNCHANGED <<items, shown>>
  OBVIOUS
<1>1. ASSUME NEW batch \in Batches, LoadBronze(batch)
      PROVE  SilverView!Next
  BY <1>1, LoadRefines DEF SilverView!Next
<1>2. ASSUME NEW r \in Run, CommitMerge(r) \/ CommitCreate(r)
      PROVE  SilverView!Next
  <2>1. UNCHANGED bronze
    BY <1>2 DEF CommitMerge, CommitCreate
  <2>2. DOMAIN silver \subseteq DOMAIN silver'
    BY <1>2, CommitKeepsKeys
  <2> QED
    BY <2>1, <2>2, CommitRefines DEF SilverView!Next
<1>3. ASSUME NEW r \in Run, SilverStep(r) \/ FailSilver(r),
             ~(CommitMerge(r) \/ CommitCreate(r))
      PROVE  UNCHANGED <<bronze, silver>>
  BY <1>3 DEF SilverStep, StartSilver, SensorTimeout, ReadBronze, ProbeTable,
              EvaluateBatch, LoseCommit, Optimize, FinishSilver, FailSilver, Abandon, tables
<1>4. ASSUME Finished \/ UNCHANGED vars
      PROVE  UNCHANGED <<bronze, silver>>
  BY <1>4 DEF Finished, vars
<1> QED
  BY <1>1, <1>2, <1>3, <1>4, StutterRefines DEF Next

\* Where no run overlaps with the first, or runs read Bronze inside their
\* transactions, Silver shows one stored row per key and never loses a key,
\* although write_silver may overwrite the table (silver.py:75-100): the
\* specification implements KeyedView.
THEOREM SilverImplementsView ==
    ASSUME ~Optimized \/ FirstRunAlone
    PROVE  Spec => SilverIsView
<1>1. Init => SilverView!Init
  BY InitRefines
<1>2. SilverInv /\ SilverInv' /\ CoverInv /\ [Next]_vars
          => [SilverView!Next]_<<items, shown>>
  BY StepRefines
<1>3. NoStaleOverwrite
  BY DEF NoStaleOverwrite
<1>4. Spec => SilverView!Spec
  BY <1>1, <1>2, <1>3, Invariant, KeysCovered, PTL
  DEF Spec, SilverView!Spec, items, shown
<1> QED
  BY <1>4 DEF SilverIsView

=============================================================================
