----------------------------- MODULE GoldProofs -----------------------------
(***************************************************************************)
(* Proofs about Gold for every set of runs, keys, times, amounts and       *)
(* labels, and every bound.                                                *)
(***************************************************************************)
EXTENDS Gold, FiniteSetTheorems, TLAPS

-----------------------------------------------------------------------------
(* The inductive invariant. *)

GoldRow == [total : 1 .. Cardinality(Key), fraud : 0 .. Cardinality(Key),
            bucket : Buckets \cup {"none"}]

RunState == [task : {"aggregate", "score"}, pc : PC, tries : 0 .. Retries + 1,
             table : Table, merge : BOOLEAN, base : Nat, frame : Snapshots,
             read : [Table -> Nat], summed : SUBSET Key]

\* A snapshot has, for every row of a summary, at least as many transactions.
Covers(t, snapshot, summary) ==
    \A g \in DOMAIN summary :
        summary[g].total <= Cardinality(Members(t, snapshot, g))

\* What is known of a run q when Silver is s.
RunOK(q, s) ==
    /\ q.pc = "waiting" => q.tries = 0
    /\ q.pc = "retry" => q.tries <= Retries
    /\ DOMAIN q.frame \subseteq DOMAIN s
    /\ q.summed \subseteq DOMAIN s
    /\ q.pc = "write" => q.summed \subseteq DOMAIN q.frame

GoldInv ==
    /\ TypeOK
    /\ DOMAIN gold = Table
    /\ \A t \in Table : Covers(t, silver, gold[t])
    /\ \A r \in Run : RunOK(run[r], silver)

-----------------------------------------------------------------------------
(* Facts about the operators. *)

LEMMA EmptySnapshot == /\ <<>> \in Snapshots
                       /\ DOMAIN <<>> = {}
<1>1. DOMAIN <<>> = {}
  OBVIOUS
<1>2. <<>> \in [{} -> BOOLEAN]
  OBVIOUS
<1> QED
  BY <1>1, <1>2 DEF Snapshots

LEMMA SnapshotKeys ==
    ASSUME NEW s \in Snapshots
    PROVE  DOMAIN s \subseteq Key
  BY DEF Snapshots

LEMMA KeyCount ==
    ASSUME NEW rows \in SUBSET Key
    PROVE  /\ IsFiniteSet(rows)
           /\ Cardinality(rows) \in 0 .. Cardinality(Key)
           /\ Cardinality(rows) = 0 <=> rows = {}
<1>1. IsFiniteSet(rows) /\ Cardinality(rows) <= Cardinality(Key)
  BY KeysAssumption, FS_Subset
<1>2. Cardinality(rows) \in Nat /\ Cardinality(Key) \in Nat
  BY <1>1, KeysAssumption, FS_CardinalityType
<1>3. Cardinality(rows) = 0 <=> rows = {}
  BY <1>1, FS_EmptySet
<1> QED
  BY <1>1, <1>2, <1>3

\* A larger snapshot has as many rows of a group or more.
LEMMA MembersGrow ==
    ASSUME NEW s \in Snapshots, NEW larger \in Snapshots,
           DOMAIN s \subseteq DOMAIN larger, NEW t \in Table, NEW g
    PROVE  Cardinality(Members(t, s, g)) <= Cardinality(Members(t, larger, g))
<1>1. /\ Members(t, larger, g) \in SUBSET Key
      /\ Members(t, s, g) \in SUBSET Members(t, larger, g)
  BY SnapshotKeys DEF Members
<1>2. IsFiniteSet(Members(t, larger, g))
  BY <1>1, KeyCount
<1> QED
  BY <1>1, <1>2, FS_Subset

LEMMA CoversMore ==
    ASSUME NEW s \in Snapshots, NEW larger \in Snapshots,
           DOMAIN s \subseteq DOMAIN larger, NEW t \in Table, NEW summary,
           \A g \in DOMAIN summary : summary[g].total \in Nat,
           Covers(t, s, summary)
    PROVE  Covers(t, larger, summary)
<1> SUFFICES ASSUME NEW g \in DOMAIN summary
             PROVE  summary[g].total <= Cardinality(Members(t, larger, g))
  BY DEF Covers
<1>1. summary[g].total <= Cardinality(Members(t, s, g))
  BY DEF Covers
<1>2. Cardinality(Members(t, s, g)) <= Cardinality(Members(t, larger, g))
  BY MembersGrow
<1>3. /\ Cardinality(Members(t, s, g)) \in Nat
      /\ Cardinality(Members(t, larger, g)) \in Nat
  <2>1. /\ Members(t, s, g) \in SUBSET Key
        /\ Members(t, larger, g) \in SUBSET Key
    BY SnapshotKeys DEF Members
  <2>. QED
    BY <2>1, KeyCount, KeysAssumption, FS_CardinalityType
<1> QED
  BY <1>1, <1>2, <1>3

\* A group with at least one row in its summary has members.
LEMMA GroupOfMember ==
    ASSUME NEW s \in Snapshots, NEW t \in Table, NEW g
    PROVE  /\ Cardinality(Members(t, s, g)) \in 0 .. Cardinality(Key)
           /\ g \in Groups(t, s) <=> Cardinality(Members(t, s, g)) # 0
<1>1. Members(t, s, g) \in SUBSET Key
  BY SnapshotKeys DEF Members
<1>2. g \in Groups(t, s) <=> Members(t, s, g) # {}
  BY DEF Groups, Members
<1> QED
  BY <1>1, <1>2, KeyCount

LEMMA SummaryRows ==
    ASSUME NEW t \in Table, NEW s \in Snapshots,
           NEW summary \in Summaries(t, s)
    PROVE  /\ DOMAIN summary = Groups(t, s)
           /\ \A g \in Groups(t, s) :
                /\ summary[g] \in GoldRow
                /\ summary[g].total = Cardinality(Members(t, s, g))
<1>1. /\ DOMAIN summary = Groups(t, s)
      /\ \A g \in Groups(t, s) : summary[g] \in Aggregates(t, s, g)
  BY DEF Summaries
<1>2. ASSUME NEW g \in Groups(t, s)
      PROVE  /\ summary[g] \in GoldRow
             /\ summary[g].total = Cardinality(Members(t, s, g))
  <2>. DEFINE rows == Members(t, s, g)
              frauds == {k \in rows : s[k]}
  <2>1. summary[g] \in [total : {Cardinality(rows)}, fraud : {Cardinality(frauds)},
                        bucket : DominantBuckets(t, rows)]
    BY <1>1 DEF Aggregates
  <2>2. Cardinality(rows) \in 1 .. Cardinality(Key)
    BY GroupOfMember
  <2>3. Cardinality(frauds) \in 0 .. Cardinality(Key)
    <3>1. frauds \in SUBSET Key
      BY SnapshotKeys DEF Members
    <3>. QED
      BY <3>1, KeyCount
  <2>4. DominantBuckets(t, rows) \subseteq Buckets \cup {"none"}
    BY DEF DominantBuckets
  <2>. HIDE DEF rows, frauds
  <2>5. summary[g] \in GoldRow /\ summary[g].total = Cardinality(rows)
    BY <2>1, <2>2, <2>3, <2>4 DEF GoldRow
  <2>. QED
    BY <2>5 DEF rows
<1> QED
  BY <1>1, <1>2

LEMMA SummaryFrauds ==
    ASSUME NEW t \in Table, NEW s \in Snapshots,
           NEW summary \in Summaries(t, s), NEW g \in DOMAIN summary
    PROVE  summary[g].fraud = Cardinality({k \in Members(t, s, g) : s[k]})
<1>1. summary[g] \in Aggregates(t, s, g)
  BY DEF Summaries
<1>. DEFINE total == Cardinality(Members(t, s, g))
            fraud == Cardinality({k \in Members(t, s, g) : s[k]})
            bucket == DominantBuckets(t, Members(t, s, g))
<1>2. summary[g] \in [total : {total}, fraud : {fraud}, bucket : bucket]
  BY <1>1 DEF Aggregates
<1>. HIDE DEF total, fraud, bucket
<1>3. summary[g].fraud = fraud
  BY <1>2
<1> QED
  BY <1>3 DEF fraud

LEMMA NoAttemptType == NoAttempt \in RunState
  BY EmptySnapshot, NumbersAssumption DEF NoAttempt, RunState, PC, Table

\* A run in a state that is right for what the tables are now.
LEMMA AttemptOK ==
    ASSUME GoldInv, NEW r \in Run, NEW pc \in PC, NEW tries \in 0 .. Retries + 1,
           pc \notin {"waiting", "commit", "write"},
           pc = "retry" => tries <= Retries
    PROVE  /\ Attempt(r, pc, tries) \in RunState
           /\ RunOK(Attempt(r, pc, tries), silver)
<1>1. /\ run[r].summed \in SUBSET Key /\ run[r].summed \subseteq DOMAIN silver
      /\ run[r].task \in {"aggregate", "score"}
  BY DEF GoldInv, TypeOK, RunOK
<1>. DEFINE q == Attempt(r, pc, tries)
<1>2. /\ q.pc = pc /\ q.tries = tries /\ q.table = "daily"
      /\ q.frame = <<>> /\ q.summed = run[r].summed
  BY DEF Attempt, NoAttempt
<1>3. q \in RunState
  BY <1>1, NoAttemptType DEF Attempt, RunState
<1>. HIDE DEF q
<1>4. RunOK(q, silver)
  BY <1>1, <1>2, EmptySnapshot DEF RunOK
<1> QED
  BY <1>3, <1>4 DEF q

-----------------------------------------------------------------------------
(* The invariant holds at the start and every step keeps it. *)

LEMMA InitInv == Init => GoldInv
<1> SUFFICES ASSUME Init PROVE GoldInv
  OBVIOUS
<1>1. TypeOK
  BY NoAttemptType, EmptySnapshot, NumbersAssumption DEF Init, TypeOK, RunState, Table
<1>2. DOMAIN gold = Table /\ \A t \in Table : Covers(t, silver, gold[t])
  BY EmptySnapshot DEF Init, Covers
<1>3. \A r \in Run : RunOK(run[r], silver)
  BY EmptySnapshot DEF Init, RunOK, NoAttempt
<1> QED
  BY <1>1, <1>2, <1>3 DEF GoldInv

LEMMA StutterInv == GoldInv /\ UNCHANGED vars => GoldInv'
  BY DEF GoldInv, TypeOK, vars, Covers, Members, RunOK, PC, Snapshots, Table

\* A step of one run that leaves the tables alone.
LEMMA RunChange ==
    ASSUME GoldInv, UNCHANGED tables, NEW r \in Run, NEW q \in RunState,
           RunOK(q, silver),
           run' = [run EXCEPT ![r] = q]
    PROVE  GoldInv'
<1>1. UNCHANGED <<silver, refreshes, gold, version, author, signals>>
  BY DEF tables
<1>2. run \in [Run -> RunState]
  BY DEF GoldInv, TypeOK, RunState
<1>3. run' \in [Run -> RunState]
  BY <1>2
<1>4. TypeOK'
  BY <1>1, <1>3 DEF GoldInv, TypeOK, RunState
<1>5. \A x \in Run : RunOK(run'[x], silver)
  BY <1>2 DEF GoldInv
<1> QED
  BY <1>1, <1>4, <1>5 DEF GoldInv

LEMMA AbandonInv ==
    ASSUME GoldInv, NEW r \in Run, Abandon(r)
    PROVE  GoldInv'
<1>. DEFINE pc == IF run[r].tries <= Retries THEN "retry" ELSE "failed"
            q == Attempt(r, pc, run[r].tries)
<1>1. q \in RunState /\ RunOK(q, silver)
  <2>1. pc \in PC /\ run[r].tries \in 0 .. Retries + 1
    BY DEF GoldInv, TypeOK, PC
  <2>. QED
    BY <2>1, AttemptOK
<1>2. UNCHANGED tables /\ run' = [run EXCEPT ![r] = q]
  BY DEF Abandon
<1>. HIDE DEF q
<1> QED
  BY <1>1, <1>2, RunChange

LEMMA StartAttemptInv ==
    ASSUME GoldInv, NEW r \in Run, StartAttempt(r)
    PROVE  GoldInv'
<1>. DEFINE pc == IF run[r].task = "aggregate" THEN "cache" ELSE "read"
            q == Attempt(r, pc, run[r].tries + 1)
<1>1. run[r].tries + 1 \in 0 .. Retries + 1 /\ pc \in PC
  BY NumbersAssumption DEF StartAttempt, GoldInv, TypeOK, RunOK, PC
<1>2. q \in RunState /\ RunOK(q, silver)
  BY <1>1, AttemptOK
<1>3. UNCHANGED tables /\ run' = [run EXCEPT ![r] = q]
  BY DEF StartAttempt
<1>. HIDE DEF q
<1> QED
  BY <1>2, <1>3, RunChange

LEMMA SensorTimeoutInv ==
    ASSUME GoldInv, NEW r \in Run, SensorTimeout(r)
    PROVE  GoldInv'
<1>. DEFINE q == [run[r] EXCEPT !.pc = "failed"]
<1>1. q \in RunState
  BY DEF GoldInv, TypeOK, RunState, PC
<1>2. RunOK(q, silver)
  BY DEF GoldInv, TypeOK, RunOK
<1>3. UNCHANGED tables /\ run' = [run EXCEPT ![r] = q]
  BY DEF SensorTimeout
<1>. HIDE DEF q
<1> QED
  BY <1>1, <1>2, <1>3, RunChange

LEMMA CacheSilverInv ==
    ASSUME GoldInv, NEW r \in Run, CacheSilver(r)
    PROVE  GoldInv'
<1>. DEFINE q == [run[r] EXCEPT !.pc = "probe", !.frame = silver, !.read = version]
<1>1. UNCHANGED tables /\ run' = [run EXCEPT ![r] = q]
  BY DEF CacheSilver
<1>2. q \in RunState
  <2>1. run[r] \in RunState /\ silver \in Snapshots /\ version \in [Table -> Nat]
    BY DEF GoldInv, TypeOK, RunState
  <2>. QED
    BY <2>1 DEF RunState, PC
<1>3. RunOK(q, silver)
  BY DEF GoldInv, TypeOK, RunOK
<1>. HIDE DEF q
<1> QED
  BY <1>1, <1>2, <1>3, RunChange

LEMMA ProbeTableInv ==
    ASSUME GoldInv, NEW r \in Run, ProbeTable(r)
    PROVE  GoldInv'
<1>. DEFINE merge == version[run[r].table] > 0
            q == [run[r] EXCEPT !.pc = "begin", !.merge = merge]
<1>1. UNCHANGED tables /\ run' = [run EXCEPT ![r] = q]
  BY DEF ProbeTable
<1>2. merge \in BOOLEAN
  OBVIOUS
<1>. HIDE DEF merge
<1>3. q \in RunState
  <2>1. run[r] \in RunState
    BY DEF GoldInv, TypeOK, RunState
  <2>. QED
    BY <1>2, <2>1 DEF RunState, PC
<1>4. RunOK(q, silver)
  BY DEF GoldInv, TypeOK, RunOK, ProbeTable
<1>. HIDE DEF q
<1> QED
  BY <1>1, <1>3, <1>4, RunChange

LEMMA BeginWriteInv ==
    ASSUME GoldInv, NEW r \in Run, BeginWrite(r)
    PROVE  GoldInv'
<1>. DEFINE q == [run[r] EXCEPT !.pc = "commit", !.base = version[run[r].table]]
<1>1. q \in RunState
  <2>1. run[r] \in RunState /\ version[run[r].table] \in Nat
    BY DEF GoldInv, TypeOK, RunState
  <2>. QED
    BY <2>1 DEF RunState, PC
<1>2. RunOK(q, silver)
  BY DEF GoldInv, TypeOK, RunOK
<1>3. UNCHANGED tables /\ run' = [run EXCEPT ![r] = q]
  BY DEF BeginWrite
<1>. HIDE DEF q
<1> QED
  BY <1>1, <1>2, <1>3, RunChange

LEMMA FinishAggregateInv ==
    ASSUME GoldInv, NEW r \in Run, FinishAggregate(r)
    PROVE  GoldInv'
<1>. DEFINE keys == DOMAIN run[r].frame
            q == [NoAttempt EXCEPT !.task = "score", !.pc = "retry", !.summed = keys]
<1>1. keys \in SUBSET Key /\ keys \subseteq DOMAIN silver
  BY SnapshotKeys DEF GoldInv, TypeOK, RunOK
<1>2. UNCHANGED tables /\ run' = [run EXCEPT ![r] = q]
  BY DEF FinishAggregate
<1>. HIDE DEF keys
<1>3. q \in RunState
  BY <1>1, NoAttemptType DEF RunState, PC
<1>4. RunOK(q, silver)
  BY <1>1, EmptySnapshot, NumbersAssumption DEF RunOK, NoAttempt
<1>. HIDE DEF q
<1> QED
  BY <1>2, <1>3, <1>4, RunChange

LEMMA ReadFeaturesInv ==
    ASSUME GoldInv, NEW r \in Run, ReadFeatures(r)
    PROVE  GoldInv'
<1>. DEFINE q == [run[r] EXCEPT !.pc = "write", !.frame = silver]
<1>1. UNCHANGED tables /\ run' = [run EXCEPT ![r] = q]
  BY DEF ReadFeatures
<1>2. q \in RunState
  <2>1. run[r] \in RunState /\ silver \in Snapshots
    BY DEF GoldInv, TypeOK, RunState
  <2>. QED
    BY <2>1 DEF RunState, PC
<1>3. RunOK(q, silver)
  BY DEF GoldInv, TypeOK, RunOK
<1>. HIDE DEF q
<1> QED
  BY <1>1, <1>2, <1>3, RunChange

LEMMA WriteSignalsInv ==
    ASSUME GoldInv, NEW r \in Run, WriteSignals(r)
    PROVE  GoldInv'
<1>. DEFINE q == [run[r] EXCEPT !.pc = "return"]
<1>1. /\ run \in [Run -> RunState] /\ signals' \in Snapshots
      /\ UNCHANGED <<silver, refreshes, gold, version>>
      /\ run' = [run EXCEPT ![r] = q]
  BY DEF GoldInv, TypeOK, RunState, WriteSignals
<1>2. q \in RunState
  BY <1>1 DEF RunState, PC
<1>3. RunOK(q, silver)
  BY DEF GoldInv, TypeOK, RunOK
<1>. HIDE DEF q
<1>4. run' \in [Run -> RunState]
  BY <1>1, <1>2
<1>5. TypeOK'
  BY <1>1, <1>4 DEF GoldInv, TypeOK, RunState
<1>6. \A x \in Run : RunOK(run'[x], silver)
  BY <1>1, <1>3 DEF GoldInv
<1> QED
  BY <1>1, <1>5, <1>6 DEF GoldInv

LEMMA FinishScoreInv ==
    ASSUME GoldInv, NEW r \in Run, FinishScore(r)
    PROVE  GoldInv'
<1>. DEFINE q == Attempt(r, "done", run[r].tries)
<1>1. q \in RunState /\ RunOK(q, silver)
  BY AttemptOK DEF GoldInv, TypeOK, PC
<1>2. UNCHANGED tables /\ run' = [run EXCEPT ![r] = q]
  BY DEF FinishScore
<1>. HIDE DEF q
<1> QED
  BY <1>1, <1>2, RunChange

\* What has been read stays within Silver, and Silver covers what it covered.
LEMMA RefreshSilverInv ==
    ASSUME GoldInv, NEW keys \in SUBSET Key, RefreshSilver(keys)
    PROVE  GoldInv'
<1>1. /\ silver' \in Snapshots /\ DOMAIN silver' = keys
      /\ silver \in Snapshots /\ DOMAIN silver \subseteq keys
      /\ refreshes' \in 0 .. MaxRefreshes
      /\ UNCHANGED <<gold, version, author, signals, run>>
  <2>1. silver' \in [keys -> BOOLEAN]
    BY DEF RefreshSilver
  <2>2. silver' \in Snapshots /\ DOMAIN silver' = keys
    BY <2>1 DEF Snapshots
  <2>3. refreshes' \in 0 .. MaxRefreshes
    BY NumbersAssumption DEF GoldInv, TypeOK, RefreshSilver
  <2>. QED
    BY <2>2, <2>3 DEF GoldInv, TypeOK, RefreshSilver
<1>2. TypeOK'
  BY <1>1 DEF GoldInv, TypeOK
<1>3. ASSUME NEW t \in Table PROVE Covers(t, silver', gold[t])
  <2>1. \A g \in DOMAIN gold[t] : gold[t][g].total \in Nat
    BY KeysAssumption, FS_CardinalityType DEF GoldInv, TypeOK
  <2>. QED
    BY <1>1, <2>1, CoversMore DEF GoldInv
<1>4. \A r \in Run : RunOK(run[r], silver')
  BY <1>1 DEF GoldInv, RunOK
<1> QED
  BY <1>1, <1>2, <1>3, <1>4 DEF GoldInv

-----------------------------------------------------------------------------
(* A commit. *)

LEMMA CommitFacts ==
    ASSUME GoldInv, NEW r \in Run, NEW t, t = run[r].table, CommitTable(r)
    PROVE  /\ t \in Table /\ run[r].pc = "commit" /\ run[r].base = version[t]
           /\ run[r].frame \in Snapshots /\ run[r].merge \in BOOLEAN
           /\ \E summary \in Summaries(t, run[r].frame) :
                gold' = [gold EXCEPT ![t] = Written(summary, gold[t], run[r].merge)]
           /\ version' = [version EXCEPT ![t] = version[t] + 1]
           /\ run' = [run EXCEPT ![r] =
                        [run[r] EXCEPT !.pc = IF t = "daily" THEN "probe" ELSE "push",
                                       !.table = "hourly"]]
           /\ UNCHANGED <<silver, refreshes, signals>>
<1>1. /\ t \in Table /\ run[r].frame \in Snapshots /\ run[r].merge \in BOOLEAN
  BY DEF GoldInv, TypeOK
<1>2. /\ run[r].pc = "commit" /\ run[r].base = version[t]
      /\ version' = [version EXCEPT ![t] = version[t] + 1]
      /\ run' = [run EXCEPT ![r] =
                   [run[r] EXCEPT !.pc = IF t = "daily" THEN "probe" ELSE "push",
                                  !.table = "hourly"]]
      /\ UNCHANGED <<silver, refreshes, signals>>
  BY DEF CommitTable
<1>3. \E summary \in Summaries(t, run[r].frame) :
          gold' = [gold EXCEPT ![t] = Written(summary, gold[t], run[r].merge)]
  BY DEF CommitTable
<1> QED
  BY <1>1, <1>2, <1>3

\* What a commit makes of a summary holds no more than Silver does.
LEMMA CommitCovered ==
    ASSUME GoldInv, NEW t \in Table, NEW frame \in Snapshots,
           DOMAIN frame \subseteq DOMAIN silver,
           NEW summary \in Summaries(t, frame), NEW merge \in BOOLEAN
    PROVE  Covers(t, silver, Written(summary, gold[t], merge))
<1>1. silver \in Snapshots /\ Covers(t, silver, gold[t])
  BY DEF GoldInv, TypeOK
<1>2. /\ DOMAIN summary = Groups(t, frame)
      /\ \A g \in DOMAIN summary :
            summary[g].total = Cardinality(Members(t, frame, g))
  BY SummaryRows
<1>3. \A g \in DOMAIN summary : summary[g].total \in Nat
  BY <1>2, GroupOfMember, KeysAssumption, FS_CardinalityType
<1>4. Covers(t, frame, summary)
  BY <1>2, <1>3 DEF Covers
<1>5. Covers(t, silver, summary)
  BY <1>1, <1>3, <1>4, CoversMore
<1> QED
  BY <1>1, <1>5 DEF Covers, Written

LEMMA CommitTableInv ==
    ASSUME GoldInv, NEW r \in Run, CommitTable(r)
    PROVE  GoldInv'
<1>. DEFINE t == run[r].table
            frame == run[r].frame
            q == [run[r] EXCEPT !.pc = IF t = "daily" THEN "probe" ELSE "push",
                                !.table = "hourly"]
<1>1. /\ t \in Table /\ frame \in Snapshots /\ run[r].merge \in BOOLEAN
      /\ version' = [version EXCEPT ![t] = version[t] + 1]
      /\ run' = [run EXCEPT ![r] = q]
      /\ UNCHANGED <<silver, refreshes, signals>>
  BY CommitFacts
<1>2. PICK summary \in Summaries(t, frame) :
          gold' = [gold EXCEPT ![t] = Written(summary, gold[t], run[r].merge)]
  BY CommitFacts
<1>3. /\ DOMAIN summary = Groups(t, frame)
      /\ \A g \in DOMAIN summary : summary[g] \in GoldRow
  BY <1>1, <1>2, SummaryRows
<1>4. DOMAIN gold = Table /\ version \in [Table -> Nat] /\ run \in [Run -> RunState]
  BY DEF GoldInv, TypeOK, RunState
<1>5. q \in RunState
  <2>1. /\ run[r] \in RunState /\ "hourly" \in Table
        /\ (IF t = "daily" THEN "probe" ELSE "push") \in PC
    BY <1>4 DEF PC, Table
  <2>. HIDE DEF t
  <2>. QED
    BY <2>1 DEF RunState
<1>6. RunOK(q, silver)
  BY DEF GoldInv, TypeOK, RunOK
<1>7. DOMAIN frame \subseteq DOMAIN silver
  BY DEF GoldInv, RunOK
<1>. HIDE DEF q, t, frame
<1>8. gold'[t] = Written(summary, gold[t], run[r].merge)
      /\ \A x \in Table \ {t} : gold'[x] = gold[x]
  BY <1>1, <1>2, <1>4
<1>9. TypeOK'
  <2>1. ASSUME NEW x \in Table, NEW g \in DOMAIN gold'[x]
        PROVE  gold'[x][g] \in GoldRow
    <3>1. CASE x # t
      BY <1>8, <3>1 DEF GoldInv, TypeOK, GoldRow
    <3>2. CASE x = t
      <4>1. gold'[x] = Written(summary, gold[t], run[r].merge)
        BY <1>8, <3>2
      <4>2. /\ gold'[x][g] = IF g \in DOMAIN summary THEN summary[g] ELSE gold[t][g]
            /\ g \in DOMAIN summary \/ g \in DOMAIN gold[t]
        BY <4>1 DEF Written
      <4>3. g \in DOMAIN gold[t] => gold[t][g] \in GoldRow
        BY <1>1 DEF GoldInv, TypeOK, GoldRow
      <4>. QED
        BY <1>3, <4>2, <4>3
    <3>. QED
      BY <3>1, <3>2
  <2>2. run' \in [Run -> RunState] /\ version' \in [Table -> Nat]
    BY <1>1, <1>4, <1>5
  <2>. QED
    BY <1>1, <2>1, <2>2 DEF GoldInv, TypeOK, GoldRow, RunState
<1>10. DOMAIN gold' = Table
  BY <1>2, <1>4
<1>11. Covers(t, silver, gold'[t])
  BY <1>1, <1>2, <1>7, <1>8, CommitCovered
<1>12. \A x \in Table : Covers(x, silver, gold'[x])
  BY <1>8, <1>11 DEF GoldInv
<1>13. \A x \in Run : RunOK(run'[x], silver)
  BY <1>1, <1>4, <1>6 DEF GoldInv
<1> QED
  BY <1>1, <1>9, <1>10, <1>12, <1>13 DEF GoldInv

LEMMA NextInv == GoldInv /\ [Next]_vars => GoldInv'
<1> SUFFICES ASSUME GoldInv, [Next]_vars PROVE GoldInv'
  OBVIOUS
<1>1. ASSUME NEW keys \in SUBSET Key, RefreshSilver(keys) PROVE GoldInv'
  BY <1>1, RefreshSilverInv
<1>2. ASSUME NEW r \in Run, GoldStep(r) PROVE GoldInv'
  <2>1. CASE StartAttempt(r)
    BY <2>1, StartAttemptInv
  <2>2. CASE SensorTimeout(r)
    BY <2>2, SensorTimeoutInv
  <2>3. CASE ProbeTable(r)
    BY <2>3, ProbeTableInv
  <2>4. CASE BeginWrite(r)
    BY <2>4, BeginWriteInv
  <2>11. CASE CacheSilver(r)
    BY <2>11, CacheSilverInv
  <2>5. CASE CommitTable(r)
    BY <2>5, CommitTableInv
  <2>6. CASE LoseCommit(r)
    BY <2>6, AbandonInv DEF LoseCommit
  <2>7. CASE FinishAggregate(r)
    BY <2>7, FinishAggregateInv
  <2>8. CASE ReadFeatures(r)
    BY <2>8, ReadFeaturesInv
  <2>9. CASE WriteSignals(r)
    BY <2>9, WriteSignalsInv
  <2>10. CASE FinishScore(r)
    BY <2>10, FinishScoreInv
  <2> QED
    BY <1>2, <2>1, <2>2, <2>3, <2>4, <2>5, <2>6, <2>7, <2>8, <2>9, <2>10, <2>11 DEF GoldStep
<1>3. ASSUME NEW r \in Run, FailAttempt(r) PROVE GoldInv'
  BY <1>3, AbandonInv DEF FailAttempt
<1>4. CASE Finished \/ UNCHANGED vars
  BY <1>4, StutterInv DEF Finished
<1> QED
  BY <1>1, <1>2, <1>3, <1>4 DEF Next

LEMMA Invariant == Spec => []GoldInv
<1>1. Init => GoldInv
  BY InitInv
<1>2. GoldInv /\ [Next]_vars => GoldInv'
  BY NextInv
<1> QED
  BY <1>1, <1>2, PTL DEF Spec

-----------------------------------------------------------------------------
(* The theorems. *)

\* Tables and runs keep their types, no row of a summary is empty or counts more
\* than there is, and no task of gold_aggregate is attempted more often than its
\* retries allow (dags/gold_aggregate.py, DEFAULT_ARGS).
THEOREM TypeCorrect == Spec => []TypeOK
<1>1. GoldInv => TypeOK
  BY DEF GoldInv
<1> QED
  BY <1>1, Invariant, PTL

\* However runs overlap, fail and are retried, and however old the snapshots are
\* that they write, no summary counts a transaction twice or one that Silver does
\* not have (_merge_or_create, gold.py:94-114).
THEOREM CountedOnce == Spec => []NothingCountedTwice
<1>1. GoldInv => NothingCountedTwice
  BY DEF GoldInv, Covers, NothingCountedTwice
<1> QED
  BY <1>1, Invariant, PTL

\* The signals that a run writes cover every transaction that the run has
\* summarised (aggregate_task >> anomaly_task, dags/gold_aggregate.py:96),
\* whichever of the two tasks was retried and however Silver has grown since.
THEOREM ScoredWhatWasSummed == Spec => SignalsCoverSummary
<1>. DEFINE Scored == \A r \in Run : run[r].pc = "write" /\ run'[r].pc = "return" =>
                        run[r].summed \subseteq DOMAIN signals'
<1>1. ASSUME GoldInv, [Next]_vars PROVE [Scored]_vars
  <2> SUFFICES ASSUME NEW r \in Run, run[r].pc = "write", run'[r].pc = "return"
               PROVE  run[r].summed \subseteq DOMAIN signals'
    OBVIOUS
  <2>1. run[r].summed \subseteq DOMAIN run[r].frame
    BY <1>1 DEF GoldInv, RunOK
  <2>2. WriteSignals(r)
    <3>1. ASSUME NEW x \in Run, GoldStep(x) \/ FailAttempt(x) PROVE x = r
      <4>1. \E q : run' = [run EXCEPT ![x] = q]
        BY <3>1 DEF GoldStep, FailAttempt, StartAttempt, SensorTimeout, CacheSilver,
             ProbeTable, BeginWrite, CommitTable, LoseCommit, Abandon, FinishAggregate, ReadFeatures,
             WriteSignals, FinishScore
      <4>. QED
        BY <1>1, <4>1 DEF GoldInv, TypeOK
    <3>2. GoldStep(r) \/ FailAttempt(r)
      BY <1>1, <3>1 DEF Next, vars, RefreshSilver, Finished
    <3>3. ~FailAttempt(r) /\ ~LoseCommit(r) /\ ~StartAttempt(r)
      <4>1. Abandon(r) => run'[r].pc \in {"retry", "failed"}
        <5>1. \A pc, tries : Attempt(r, pc, tries).pc = pc
          BY DEF Attempt, NoAttempt
        <5>2. Abandon(r) => \E tries : \/ run'[r] = Attempt(r, "retry", tries)
                                       \/ run'[r] = Attempt(r, "failed", tries)
          BY <1>1 DEF GoldInv, TypeOK, Abandon
        <5>. QED
          BY <5>1, <5>2
      <4>. QED
        BY <4>1 DEF FailAttempt, LoseCommit, StartAttempt
    <3>. QED
      BY <1>1, <3>2, <3>3 DEF GoldStep, SensorTimeout, CacheSilver, ProbeTable, BeginWrite,
         CommitTable, FinishAggregate, ReadFeatures, FinishScore
  <2>. QED
    BY <2>1, <2>2 DEF WriteSignals
<1> QED
  BY <1>1, Invariant, PTL DEF Spec, SignalsCoverSummary

-----------------------------------------------------------------------------
(* Sums. *)

\* A subset of S is in T if it is when one element is taken from it.
GrowsBy(S, T) == \A s \in SUBSET S : (\A x \in s : s \ {x} \in T) => s \in T

LEMMA SubsetInduction ==
  ASSUME NEW S, IsFiniteSet(S), NEW T, GrowsBy(S, T)
  PROVE  SUBSET S \subseteq T
<1>. DEFINE U == (SUBSET S) \ T
            smaller == StrictSubsetOrdering(S)
<1>. SUFFICES ASSUME U # {} PROVE FALSE
  OBVIOUS
<1>1. U \subseteq FiniteSubsetsOf(S)
  BY FS_Subset DEF FiniteSubsetsOf
<1>2. IsWellFoundedOn(smaller, FiniteSubsetsOf(S))
  BY FS_StrictSubsetOrderingWellFounded
<1>. HIDE DEF smaller, U
<1>3. PICK m \in U : \A y \in U : ~(<<y, m>> \in smaller)
  BY <1>1, <1>2, WFMin
<1>4. ASSUME NEW x \in m PROVE m \ {x} \in T
  <2>1. m \in SUBSET S /\ m \ {x} \in SUBSET S /\ m \ {x} # m
    BY DEF U
  <2>2. <<m \ {x}, m>> \in smaller
    BY <2>1 DEF smaller, StrictSubsetOrdering
  <2>3. m \ {x} \notin U
    BY <1>3, <2>2
  <2>. QED
    BY <2>1, <2>3 DEF U
<1>. QED
  BY <1>3, <1>4 DEF U, GrowsBy

\* Each summand counts the rows of its group, ...
SumsUp(f, rows, group) ==
    \A g \in DOMAIN f : f[g] = Cardinality({k \in rows : group[k] = g})

\* ... so the sum counts those of all the groups.
LEMMA SumOfParts ==
  ASSUME NEW f, NEW H, DOMAIN f = H, IsFiniteSet(H),
         NEW rows, IsFiniteSet(rows), NEW group, SumsUp(f, rows, group)
  PROVE  SumFunction(f) = Cardinality({k \in rows : group[k] \in H})
<1>. DEFINE Of(s) == {k \in rows : group[k] \in s}
            Any(s) == CHOOSE x \in s : TRUE
            Def(fn) == fn = [s \in SUBSET H |->
                                IF s = {} THEN 0 ELSE f[Any(s)] + fn[s \ {Any(s)}]]
            count == [s \in SUBSET H |-> Cardinality(Of(s))]
<1>1. SumFunction(f) = (CHOOSE fn : Def(fn))[H]
  BY Zenon DEF SumFunction, SumFunctionOnSet, FoldFunctionOnSet, MapThenFoldSet
<1>2. Cardinality(Of({})) = 0
  <2>1. Of({}) = {}
    OBVIOUS
  <2>. QED
    BY <2>1, FS_EmptySet
<1>3. ASSUME NEW s \in SUBSET H, NEW x \in s
      PROVE  Cardinality(Of(s)) = f[x] + Cardinality(Of(s \ {x}))
  <2>. DEFINE Part == {k \in rows : group[k] = x}  Rest == Of(s \ {x})
  <2>1. /\ Of(s) = Part \cup Rest /\ Part \cap Rest = {}
        /\ Part \subseteq rows /\ Rest \subseteq rows
    OBVIOUS
  <2>2. IsFiniteSet(Part) /\ IsFiniteSet(Rest)
    BY <2>1, FS_Subset
  <2>3. /\ Cardinality(Part) \in Nat /\ Cardinality(Rest) \in Nat
        /\ Cardinality(Part \cap Rest) = 0
    BY <2>1, <2>2, FS_CardinalityType, FS_EmptySet
  <2>4. Cardinality(Part \cup Rest)
          = Cardinality(Part) + Cardinality(Rest) - Cardinality(Part \cap Rest)
    BY <2>2, FS_Union
  <2>5. f[x] = Cardinality(Part)
    BY DEF SumsUp
  <2>. HIDE DEF Part, Rest, Of
  <2>6. Cardinality(Of(s)) = f[x] + Cardinality(Rest)
    BY <2>1, <2>3, <2>4, <2>5
  <2>. QED
    BY <2>6 DEF Rest
<1>4. \A s \in SUBSET H : s # {} => Any(s) \in s /\ s \ {Any(s)} \in SUBSET H
  OBVIOUS
<1>. HIDE DEF Of, Any
<1>5. Def(count)
  <2>1. ASSUME NEW s \in SUBSET H
        PROVE  Cardinality(Of(s)) = IF s = {} THEN 0 ELSE f[Any(s)] + count[s \ {Any(s)}]
    BY <1>2, <1>3, <1>4
  <2>. HIDE DEF count
  <2>2. [s \in SUBSET H |-> Cardinality(Of(s))]
        = [s \in SUBSET H |-> IF s = {} THEN 0 ELSE f[Any(s)] + count[s \ {Any(s)}]]
    BY <2>1, Zenon
  <2>. QED
    BY <2>2, Zenon DEF count
<1>6. ASSUME NEW fn, Def(fn) PROVE fn[H] = count[H]
  <2>. DEFINE T == {s \in SUBSET H : fn[s] = count[s]}
  <2>1. \A s \in SUBSET H : fn[s] = IF s = {} THEN 0 ELSE f[Any(s)] + fn[s \ {Any(s)}]
    BY <1>6, Zenon
  <2>2. \A s \in SUBSET H :
            count[s] = IF s = {} THEN 0 ELSE f[Any(s)] + count[s \ {Any(s)}]
    BY <1>5, Zenon
  <2>. HIDE DEF count
  <2>3. GrowsBy(H, T)
    BY <1>4, <2>1, <2>2 DEF GrowsBy
  <2>. HIDE DEF T
  <2>4. SUBSET H \subseteq T
    BY <2>3, SubsetInduction
  <2>. QED
    BY <2>4 DEF T
<1>7. Def(CHOOSE fn : Def(fn))
  BY <1>5, Zenon
<1>8. (CHOOSE fn : Def(fn))[H] = count[H]
  BY <1>6, <1>7, Zenon
<1>9. count[H] = Cardinality(Of(H))
  OBVIOUS
<1>. QED
  BY <1>1, <1>8, <1>9 DEF Of

LEMMA SnapshotFinite ==
  ASSUME NEW s \in Snapshots, NEW t \in Table
  PROVE  IsFiniteSet(DOMAIN s) /\ IsFiniteSet(Groups(t, s))
<1>1. IsFiniteSet(DOMAIN s)
  BY SnapshotKeys, KeyCount
<1>. DEFINE group == [k \in DOMAIN s |-> GroupOf(t, k)]
<1>2. Groups(t, s) = {group[k] : k \in DOMAIN s}
  BY DEF Groups
<1>3. group \in Surjection(DOMAIN s, Groups(t, s))
  BY <1>2 DEF Surjection
<1>. QED
  BY <1>1, <1>3, FS_Surjection

\* Summaries of one snapshot agree: the hours of a day add up to the day.
LEMMA DayIsSumOfHours ==
  ASSUME NEW s \in Snapshots, NEW daily \in Summaries("daily", s),
         NEW hourly \in Summaries("hourly", s), NEW d \in DOMAIN daily,
         NEW hours, hours = {g \in DOMAIN hourly : g[1] = d[1]}
  PROVE  /\ daily[d].total = SumFunction([g \in hours |-> hourly[g].total])
         /\ daily[d].fraud = SumFunction([g \in hours |-> hourly[g].fraud])
<1>. DEFINE group == [k \in DOMAIN s |-> GroupOf("hourly", k)]
            frauds == {k \in DOMAIN s : s[k]}
<1>0. "daily" \in Table /\ "hourly" \in Table
  BY DEF Table
<1>1. IsFiniteSet(DOMAIN s) /\ IsFiniteSet(frauds) /\ IsFiniteSet(hours)
  <2>1. IsFiniteSet(DOMAIN s) /\ IsFiniteSet(Groups("hourly", s))
    BY <1>0, SnapshotFinite
  <2>2. DOMAIN hourly = Groups("hourly", s)
    BY <1>0, SummaryRows
  <2>. QED
    BY <2>1, <2>2, FS_Subset
<1>2. /\ Members("daily", s, d) = {k \in DOMAIN s : group[k] \in hours}
      /\ {k \in Members("daily", s, d) : s[k]} = {k \in frauds : group[k] \in hours}
  <2>1. DOMAIN daily = Groups("daily", s) /\ DOMAIN hourly = Groups("hourly", s)
    BY <1>0, SummaryRows
  <2>2. PICK x \in DOMAIN s : d = <<TransactionDate(TimeOf[x])>>
    BY <2>1 DEF Groups, GroupOf
  <2>3. ASSUME NEW k \in DOMAIN s
        PROVE  GroupOf("daily", k) = d <=> group[k] \in hours
    <3>1. group[k] \in DOMAIN hourly
      BY <2>1 DEF Groups
    <3>2. group[k][1] = TransactionDate(TimeOf[k]) /\ d[1] = TransactionDate(TimeOf[x])
      BY <2>2 DEF GroupOf
    <3>3. GroupOf("daily", k) = d <=> TransactionDate(TimeOf[k]) = TransactionDate(TimeOf[x])
      BY <2>2 DEF GroupOf
    <3>. HIDE DEF group
    <3>. QED
      BY <3>1, <3>2, <3>3
  <2>. QED
    BY <2>3 DEF Members
<1>3. ASSUME NEW g \in hours
      PROVE  /\ hourly[g].total = Cardinality({k \in DOMAIN s : group[k] = g})
             /\ hourly[g].fraud = Cardinality({k \in frauds : group[k] = g})
  <2>1. /\ {k \in DOMAIN s : group[k] = g} = Members("hourly", s, g)
        /\ {k \in frauds : group[k] = g} = {k \in Members("hourly", s, g) : s[k]}
    BY DEF Members
  <2>2. g \in Groups("hourly", s)
    BY <1>0, SummaryRows
  <2>3. hourly[g].total = Cardinality(Members("hourly", s, g))
    BY <1>0, <2>2, SummaryRows
  <2>4. hourly[g].fraud = Cardinality({k \in Members("hourly", s, g) : s[k]})
    BY <1>0, SummaryFrauds
  <2>. QED
    BY <2>1, <2>3, <2>4
<1>4. /\ daily[d].total = Cardinality(Members("daily", s, d))
      /\ daily[d].fraud = Cardinality({k \in Members("daily", s, d) : s[k]})
  <2>1. d \in Groups("daily", s)
    BY <1>0, SummaryRows
  <2>2. daily[d].total = Cardinality(Members("daily", s, d))
    BY <1>0, <2>1, SummaryRows
  <2>3. daily[d].fraud = Cardinality({k \in Members("daily", s, d) : s[k]})
    BY <1>0, SummaryFrauds
  <2>. QED
    BY <2>2, <2>3
<1>. HIDE DEF group, frauds
<1>5. SumFunction([g \in hours |-> hourly[g].total])
        = Cardinality({k \in DOMAIN s : group[k] \in hours})
  <2>. PICK f : f = [g \in hours |-> hourly[g].total]
    OBVIOUS
  <2>1. DOMAIN f = hours /\ SumsUp(f, DOMAIN s, group)
    BY <1>3 DEF SumsUp
  <2>2. SumFunction(f) = Cardinality({k \in DOMAIN s : group[k] \in hours})
    BY <1>1, <2>1, SumOfParts
  <2>. QED
    BY <2>2
<1>6. SumFunction([g \in hours |-> hourly[g].fraud])
        = Cardinality({k \in frauds : group[k] \in hours})
  <2>. PICK f : f = [g \in hours |-> hourly[g].fraud]
    OBVIOUS
  <2>1. DOMAIN f = hours /\ SumsUp(f, frauds, group)
    BY <1>3 DEF SumsUp
  <2>2. SumFunction(f) = Cardinality({k \in frauds : group[k] \in hours})
    BY <1>1, <2>1, SumOfParts
  <2>. QED
    BY <2>2
<1>. QED
  BY <1>2, <1>4, <1>5, <1>6

-----------------------------------------------------------------------------
(* Attempts that no other has overtaken. *)

\* The attempt q has read Silver and is before its commit to a table.
Writing(q) == q.pc \in {"probe", "begin", "commit"}
WritingHours(q) == q.table = "hourly" /\ Writing(q)

\* While nobody has written a table since the attempt q has read Silver, what q has
\* read covers all that the table holds: so a MERGE replaces every row, lowers no
\* total, and even an overwrite loses no group.
UpToDate(q, golds, versions) ==
    Writing(q) => \A t \in Table :
        /\ q.read[t] <= versions[t]
        /\ q.read[t] = versions[t] => Covers(t, q.frame, golds[t])

FreshInv ==
    /\ DOMAIN author = Table
    /\ \A r \in Run : UpToDate(run[r], gold, version)

\* The step of a run leaves the others alone.
LEMMA OneMoves ==
    ASSUME GoldInv, NEW r \in Run, GoldStep(r) \/ FailAttempt(r)
    PROVE  \A s \in Run \ {r} : run'[s] = run[s]
<1>1. \E q : run' = [run EXCEPT ![r] = q]
  BY DEF GoldStep, FailAttempt, StartAttempt, SensorTimeout, CacheSilver, ProbeTable,
         BeginWrite, CommitTable, LoseCommit, Abandon, FinishAggregate, ReadFeatures,
         WriteSignals, FinishScore
<1>. QED
  BY <1>1 DEF GoldInv, TypeOK

\* A commit by an attempt that is not overtaken replaces all rows of a table by those
\* of the snapshot of the attempt, merged or not, and lowers no total.
LEMMA CommitReplaces ==
    ASSUME GoldInv, FreshInv, NEW r \in Run, NEW t, t = run[r].table, CommitTable(r),
           run[r].read[t] = version[t]
    PROVE  /\ t \in Table
           /\ gold'[t] \in Summaries(t, run[r].frame)
           /\ KeepsTotals(t)
<1>. DEFINE frame == run[r].frame
            old == gold[t]
<1>1. /\ t \in Table /\ run[r].pc = "commit" /\ frame \in Snapshots /\ DOMAIN gold = Table
  BY CommitFacts DEF GoldInv
<1>2. PICK summary \in Summaries(t, frame) :
          gold' = [gold EXCEPT ![t] = Written(summary, old, run[r].merge)]
  <2>1. \E summary \in Summaries(t, run[r].frame) :
            gold' = [gold EXCEPT ![t] = Written(summary, gold[t], run[r].merge)]
    BY DEF CommitTable
  <2>. QED
    BY <2>1 DEF frame, old
<1>3. Covers(t, frame, old)
  BY <1>1 DEF FreshInv, UpToDate, Writing
<1>4. \A g \in DOMAIN old : old[g].total \in 1 .. Cardinality(Key)
  BY <1>1 DEF GoldInv, TypeOK
<1>5. Cardinality(Key) \in Nat
  BY KeysAssumption, FS_CardinalityType
<1>6. /\ DOMAIN summary = Groups(t, frame)
      /\ \A g \in DOMAIN summary :
            summary[g].total = Cardinality(Members(t, frame, g))
  BY <1>1, <1>2, SummaryRows
<1>. HIDE DEF frame, old
<1>7. DOMAIN old \subseteq DOMAIN summary
  <2>1. ASSUME NEW g \in DOMAIN old PROVE g \in Groups(t, frame)
    <3>1. /\ 1 <= old[g].total /\ old[g].total \in Nat
          /\ old[g].total <= Cardinality(Members(t, frame, g))
      BY <1>3, <1>4, <1>5 DEF Covers
    <3>. QED
      BY <1>1, <1>5, <3>1, GroupOfMember
  <2>. QED
    BY <1>6, <2>1
<1>8. gold'[t] = summary
  <2>1. gold'[t] = Written(summary, old, run[r].merge)
    BY <1>1, <1>2
  <2>2. Written(summary, old, run[r].merge) = [g \in DOMAIN summary |-> summary[g]]
    BY <1>7 DEF Written
  <2>3. summary = [g \in DOMAIN summary |-> summary[g]]
    BY <1>2 DEF Summaries
  <2>. QED
    BY <2>1, <2>2, <2>3
<1>10. ASSUME NEW g \in DOMAIN old PROVE g \in DOMAIN summary /\ old[g].total <= summary[g].total
  BY <1>3, <1>6, <1>7 DEF Covers
<1>12. KeepsTotals(t)
  BY <1>8, <1>10 DEF KeepsTotals, old
<1>. QED
  BY <1>1, <1>2, <1>8, <1>12 DEF frame

\* What the steps of an attempt other than a commit make of its state.
LEMMA StepStates ==
    ASSUME GoldInv, NEW r \in Run
    PROVE  /\ StartAttempt(r) => /\ run'[r].pc # "write" /\ ~Writing(run'[r])
                                 /\ run'[r].table = "daily"
                                 /\ run'[r].tries = run[r].tries + 1
                                 /\ run'[r].task = run[r].task
           /\ SensorTimeout(r) => /\ ~Writing(run'[r]) /\ run'[r].pc = "failed"
                                  /\ run'[r].task = run[r].task
                                  /\ run'[r].tries = run[r].tries
           /\ CacheSilver(r) => /\ run'[r].pc = "probe" /\ run'[r].frame = silver
                                /\ run'[r].read = version
                                /\ run'[r].task = run[r].task
                                /\ run'[r].table = run[r].table
                                /\ run'[r].tries = run[r].tries
           /\ ProbeTable(r) \/ BeginWrite(r) =>
                  /\ Writing(run'[r]) /\ Writing(run[r])
                  /\ run'[r].frame = run[r].frame /\ run'[r].read = run[r].read
                  /\ run'[r].task = run[r].task
                  /\ run'[r].table = run[r].table
                  /\ run'[r].tries = run[r].tries
           /\ CommitTable(r) =>
                  /\ run[r].pc = "commit" /\ run'[r].frame = run[r].frame /\ run'[r].read = run[r].read
                  /\ run'[r].task = run[r].task /\ run'[r].table = "hourly"
                  /\ run'[r].tries = run[r].tries
                  /\ run[r].table = "daily" => run'[r].pc = "probe"
                  /\ run[r].table # "daily" => run'[r].pc = "push"
           /\ LoseCommit(r) \/ FailAttempt(r) =>
                  /\ run'[r].pc \in {"retry", "failed"}
                  /\ run'[r].task = run[r].task
                  /\ run'[r].tries = run[r].tries
           /\ FinishAggregate(r) => run'[r].pc = "retry" /\ run'[r].task = "score"
           /\ ReadFeatures(r) \/ WriteSignals(r) \/ FinishScore(r) =>
                  /\ run'[r].pc \in {"write", "return", "done"}
                  /\ run'[r].task = run[r].task
                  /\ run'[r].tries = run[r].tries
<1>0. run \in [Run -> RunState] /\ run[r] \in RunState
  BY DEF GoldInv, TypeOK, RunState
<1>00. \A pc, tries : /\ Attempt(r, pc, tries).pc = pc
                      /\ Attempt(r, pc, tries).tries = tries
                      /\ Attempt(r, pc, tries).task = run[r].task
                      /\ Attempt(r, pc, tries).table = "daily"
  BY DEF Attempt, NoAttempt
<1>1. ASSUME StartAttempt(r)
      PROVE  /\ run'[r].pc # "write" /\ ~Writing(run'[r]) /\ run'[r].table = "daily"
             /\ run'[r].tries = run[r].tries + 1
             /\ run'[r].task = run[r].task
  <2>1. run'[r] = Attempt(r, IF run[r].task = "aggregate" THEN "cache" ELSE "read",
                          run[r].tries + 1)
    BY <1>0, <1>1 DEF StartAttempt
  <2>2. run'[r].pc \in {"cache", "read"}
    BY <1>00, <2>1
  <2>. QED
    BY <1>00, <2>1, <2>2 DEF Writing
<1>2. SensorTimeout(r) => /\ ~Writing(run'[r]) /\ run'[r].pc = "failed"
                          /\ run'[r].task = run[r].task
                          /\ run'[r].tries = run[r].tries
  BY <1>0 DEF SensorTimeout, Writing, RunState
<1>3. CacheSilver(r) => /\ run'[r].pc = "probe" /\ run'[r].frame = silver
                        /\ run'[r].read = version
                        /\ run'[r].task = run[r].task
                        /\ run'[r].table = run[r].table
                        /\ run'[r].tries = run[r].tries
  BY <1>0 DEF CacheSilver, RunState
<1>4. ProbeTable(r) \/ BeginWrite(r) =>
          /\ Writing(run'[r]) /\ Writing(run[r])
          /\ run'[r].frame = run[r].frame /\ run'[r].read = run[r].read
          /\ run'[r].task = run[r].task
          /\ run'[r].table = run[r].table
          /\ run'[r].tries = run[r].tries
  BY <1>0 DEF ProbeTable, BeginWrite, Writing, RunState
<1>5. CommitTable(r) =>
          /\ run[r].pc = "commit" /\ run'[r].frame = run[r].frame /\ run'[r].read = run[r].read
          /\ run'[r].task = run[r].task /\ run'[r].table = "hourly"
          /\ run'[r].tries = run[r].tries
          /\ run[r].table = "daily" => run'[r].pc = "probe"
          /\ run[r].table # "daily" => run'[r].pc = "push"
  BY <1>0 DEF CommitTable, RunState
<1>6. ASSUME LoseCommit(r) \/ FailAttempt(r)
      PROVE  /\ run'[r].pc \in {"retry", "failed"}
             /\ run'[r].task = run[r].task
             /\ run'[r].tries = run[r].tries
  <2>1. run'[r] = Attempt(r, IF run[r].tries <= Retries THEN "retry" ELSE "failed",
                          run[r].tries)
    BY <1>0, <1>6 DEF LoseCommit, FailAttempt, Abandon
  <2>. QED
    BY <1>00, <2>1
<1>7. ASSUME FinishAggregate(r) PROVE run'[r].pc = "retry" /\ run'[r].task = "score"
  BY <1>0, <1>7 DEF FinishAggregate, NoAttempt
<1>8. ASSUME ReadFeatures(r) \/ WriteSignals(r) \/ FinishScore(r)
      PROVE  /\ run'[r].pc \in {"write", "return", "done"}
             /\ run'[r].task = run[r].task
             /\ run'[r].tries = run[r].tries
  <2>1. CASE FinishScore(r)
    <3>1. run'[r] = Attempt(r, "done", run[r].tries)
      BY <1>0, <2>1 DEF FinishScore
    <3>. QED
      BY <1>00, <3>1
  <2>2. CASE ReadFeatures(r) \/ WriteSignals(r)
    BY <1>0, <2>2 DEF ReadFeatures, WriteSignals, RunState
  <2>. QED
    BY <1>8, <2>1, <2>2
<1>. QED
  BY <1>1, <1>2, <1>3, <1>4, <1>5, <1>6, <1>7, <1>8

LEMMA SummariesOnlyByCommit ==
    ASSUME NEW r \in Run, GoldStep(r) \/ FailAttempt(r), ~CommitTable(r)
    PROVE  UNCHANGED <<silver, gold, version, author>>
  BY DEF GoldStep, FailAttempt, StartAttempt, SensorTimeout, CacheSilver, ProbeTable,
         BeginWrite, LoseCommit, Abandon, FinishAggregate, ReadFeatures, WriteSignals,
         FinishScore, tables

LEMMA CommitFresh ==
    ASSUME GoldInv, FreshInv, NEW r \in Run, CommitTable(r)
    PROVE  FreshInv'
<1>. PICK t : t = run[r].table
  OBVIOUS
<1>1. /\ t \in Table /\ DOMAIN gold = Table /\ version \in [Table -> Nat]
      /\ version' = [version EXCEPT ![t] = version[t] + 1]
      /\ \E summary : gold' = [gold EXCEPT ![t] = summary]
  <2>1. t \in Table /\ DOMAIN gold = Table /\ version \in [Table -> Nat]
    BY DEF GoldInv, TypeOK
  <2>2. version' = [version EXCEPT ![t] = version[t] + 1]
    BY DEF CommitTable
  <2>3. \E summary : gold' = [gold EXCEPT ![t] = summary]
    BY DEF CommitTable
  <2>. QED
    BY <2>1, <2>2, <2>3
<1>2. /\ version'[t] = version[t] + 1
      /\ \A x \in Table \ {t} : gold'[x] = gold[x] /\ version'[x] = version[x]
  BY <1>1
<1>3. DOMAIN author' = Table
  BY DEF FreshInv, CommitTable
<1>4. ASSUME NEW s \in Run, NEW q, q = run'[s], Writing(q), NEW x \in Table
      PROVE  /\ q.read[x] <= version'[x]
             /\ q.read[x] = version'[x] => Covers(x, q.frame, gold'[x])
  <2>1. Writing(run[s]) /\ q.read = run[s].read /\ q.frame = run[s].frame
    <3>1. CASE s = r
      BY <1>4, <3>1, StepStates DEF Writing
    <3>2. CASE s # r
      <4>1. run'[s] = run[s]
        BY <3>2, OneMoves DEF GoldStep
      <4>. QED
        BY <1>4, <4>1
    <3>. QED
      BY <3>1, <3>2
  <2>2. /\ q.read[x] <= version[x]
        /\ q.read[x] = version[x] => Covers(x, q.frame, gold[x])
    BY <2>1 DEF FreshInv, UpToDate
  <2>3. q.read[x] \in Nat /\ version[x] \in Nat
    BY <2>1 DEF GoldInv, TypeOK
  <2>4. CASE x = t
    BY <1>2, <2>2, <2>3, <2>4
  <2>5. CASE x # t
    BY <1>2, <2>2, <2>5
  <2>. QED
    BY <2>4, <2>5
<1>5. \A s \in Run : UpToDate(run'[s], gold', version')
  BY <1>4 DEF UpToDate
<1>. QED
  BY <1>3, <1>5 DEF FreshInv

LEMMA StepFresh ==
    ASSUME GoldInv, FreshInv, NEW r \in Run, GoldStep(r) \/ FailAttempt(r),
           ~CommitTable(r)
    PROVE  FreshInv'
<1>1. /\ UNCHANGED <<silver, gold, version, author>>
      /\ \A s \in Run \ {r} : run'[s] = run[s]
  BY SummariesOnlyByCommit, OneMoves
<1>2. UpToDate(run[r], gold, version) /\ version \in [Table -> Nat]
  BY DEF FreshInv, GoldInv, TypeOK
<1>3. UpToDate(run'[r], gold, version)
  <2>1. CASE CacheSilver(r)
    <3>1. run'[r].frame = silver /\ run'[r].read = version
      BY <2>1, StepStates
    <3>2. \A t \in Table : Covers(t, silver, gold[t]) /\ version[t] <= version[t]
      BY <1>2 DEF GoldInv
    <3>. QED
      BY <3>1, <3>2 DEF UpToDate
  <2>2. CASE ProbeTable(r) \/ BeginWrite(r)
    BY <1>2, <2>2, StepStates DEF UpToDate
  <2>3. CASE ~(CacheSilver(r) \/ ProbeTable(r) \/ BeginWrite(r))
    <3>1. ~Writing(run'[r])
      BY <2>3, StepStates DEF GoldStep, Writing
    <3>. QED
      BY <3>1 DEF UpToDate
  <2>. QED
    BY <2>1, <2>2, <2>3
<1>. QED
  BY <1>1, <1>3 DEF FreshInv

LEMMA NextFresh ==
    ASSUME GoldInv, FreshInv, [Next]_vars
    PROVE  FreshInv'
<1>1. ASSUME NEW keys \in SUBSET Key, RefreshSilver(keys) PROVE FreshInv'
  BY <1>1 DEF RefreshSilver, FreshInv
<1>2. ASSUME NEW r \in Run, GoldStep(r) \/ FailAttempt(r) PROVE FreshInv'
  BY <1>2, CommitFresh, StepFresh
<1>3. CASE Finished \/ UNCHANGED vars
  BY <1>3 DEF Finished, vars, FreshInv
<1>. QED
  BY <1>1, <1>2, <1>3 DEF Next

LEMMA Fresh == Spec => []FreshInv
<1>1. Init => FreshInv
  BY DEF Init, NoAttempt, FreshInv, UpToDate, Writing
<1>2. GoldInv /\ FreshInv /\ [Next]_vars => FreshInv'
  BY NextFresh
<1>. QED
  BY <1>1, <1>2, Invariant, PTL DEF Spec

\* An attempt that nobody has overtaken, which is one that commits to a table no
\* other has written since it read Silver, takes no date and no hour out of a
\* summary and lowers no total, however many runs overlap and whatever attempts
\* fail and are retried (_merge_or_create, gold.py:94-114, as run_gold calls it,
\* gold.py:124-137).
THEOREM TotalsOnlyGrow == Spec => TotalsNeverShrink
<1>1. ASSUME GoldInv, FreshInv, [Next]_vars
      PROVE  [\A t \in Table : author'[t] # {} => KeepsTotals(t)]_vars
  <2>1. ASSUME NEW x \in Table, gold'[x] = gold[x] PROVE KeepsTotals(x)
    <3>1. \A g \in DOMAIN gold[x] : gold[x][g].total \in Nat
      BY <1>1, KeysAssumption, FS_CardinalityType DEF GoldInv, TypeOK
    <3>. QED
      BY <2>1, <3>1 DEF KeepsTotals
  <2>2. ASSUME NEW r \in Run, CommitTable(r), NEW t \in Table, author'[t] # {}
        PROVE  KeepsTotals(t)
    <3>1. CASE t = run[r].table
      <4>1. author'[t] = IF run[r].read[t] = version[t]
                         THEN {<<r, run[r].tries>>} ELSE {}
        BY <1>1, <2>2, <3>1 DEF CommitTable, FreshInv
      <4>. QED
        BY <1>1, <2>2, <3>1, <4>1, CommitReplaces
    <3>2. CASE t # run[r].table
      <4>1. gold'[t] = gold[t]
        BY <1>1, <2>2, <3>2 DEF CommitTable, GoldInv
      <4>. QED
        BY <2>1, <4>1
    <3>. QED
      BY <3>1, <3>2
  <2>3. ASSUME NEW r \in Run, GoldStep(r) \/ FailAttempt(r), ~CommitTable(r)
        PROVE  UNCHANGED gold
    BY <2>3, SummariesOnlyByCommit
  <2>4. (\E r \in Run : CommitTable(r)) \/ UNCHANGED gold
    BY <1>1, <2>3 DEF Next, vars, RefreshSilver, Finished
  <2>. QED
    BY <2>1, <2>2, <2>4
<1>. QED
  BY <1>1, Invariant, Fresh, PTL DEF Spec, TotalsNeverShrink

-----------------------------------------------------------------------------
(* Summaries by one attempt agree. *)

\* An attempt commits to each table once, and attempts of a task have numbers: so
\* an attempt that is to commit the daily summary has not committed the hourly
\* one.  One that was the last to commit the daily summary, not overtaken, has the
\* snapshot it was computed from.
AuthorOK(r, q, golds, authors) ==
    /\ q.pc = "cache" \/ Writing(q) => q.task = "aggregate"
    /\ q.pc = "cache" => q.table = "daily"
    /\ \A n \in Nat : <<r, n>> \in authors["hourly"] /\ q.task = "aggregate" =>
            /\ n <= q.tries
            /\ q.table = "daily" /\ (q.pc = "cache" \/ Writing(q)) => n < q.tries
    /\ WritingHours(q) /\ <<r, q.tries>> \in authors["daily"] =>
            golds["daily"] \in Summaries("daily", q.frame)

AgreeInv ==
    /\ \A r \in Run : AuthorOK(r, run[r], gold, author)
    /\ SummariesAgree

\* The steps of an attempt other than a commit.
LEMMA StepAgree ==
    ASSUME GoldInv, FreshInv, AgreeInv,
           NEW r \in Run, GoldStep(r) \/ FailAttempt(r), ~CommitTable(r)
    PROVE  AgreeInv'
<1>1. /\ UNCHANGED <<silver, gold, author>>
      /\ \A s \in Run \ {r} : run'[s] = run[s]
  BY SummariesOnlyByCommit, OneMoves
<1>2. AuthorOK(r, run[r], gold, author) /\ run[r].tries \in Nat
  BY NumbersAssumption DEF AgreeInv, GoldInv, TypeOK
<1>3. AuthorOK(r, run'[r], gold, author)
  <2>1. CASE StartAttempt(r)
    <3>1. /\ ~Writing(run'[r]) /\ run'[r].table = "daily"
          /\ run'[r].tries = run[r].tries + 1 /\ run'[r].task = run[r].task
      BY <2>1, StepStates
    <3>2. run'[r].pc = "cache" => run'[r].task = "aggregate"
      <4>1. \A pc, tries : /\ Attempt(r, pc, tries).pc = pc
                           /\ Attempt(r, pc, tries).task = run[r].task
        BY DEF Attempt, NoAttempt
      <4>2. run'[r] = Attempt(r, IF run[r].task = "aggregate" THEN "cache" ELSE "read",
                              run[r].tries + 1)
        BY <2>1 DEF StartAttempt, GoldInv, TypeOK
      <4>. QED
        BY <4>1, <4>2
    <3>3. \A n \in Nat : n <= run[r].tries => n <= run[r].tries + 1 /\ n < run[r].tries + 1
      BY <1>2
    <3>. QED
      BY <1>2, <3>1, <3>2, <3>3 DEF AuthorOK, WritingHours
  <2>2. CASE CacheSilver(r)
    <3>1. /\ run'[r].pc = "probe" /\ run'[r].task = run[r].task
          /\ run'[r].table = run[r].table /\ run'[r].tries = run[r].tries
          /\ run[r].pc = "cache"
      BY <2>2, StepStates DEF CacheSilver
    <3>. QED
      BY <1>2, <3>1 DEF AuthorOK, WritingHours
  <2>3. CASE ProbeTable(r) \/ BeginWrite(r)
    <3>1. /\ Writing(run'[r]) /\ Writing(run[r]) /\ run'[r].frame = run[r].frame /\ run'[r].read = run[r].read
          /\ run'[r].task = run[r].task /\ run'[r].table = run[r].table
          /\ run'[r].tries = run[r].tries /\ run'[r].pc # "cache"
      BY <2>3, StepStates DEF Writing
    <3>. QED
      BY <1>2, <3>1 DEF AuthorOK, WritingHours
  <2>4. CASE FinishAggregate(r)
    <3>1. run'[r].pc = "retry" /\ run'[r].task = "score"
      BY <2>4, StepStates
    <3>. QED
      BY <3>1 DEF AuthorOK, WritingHours, Writing
  <2>5. CASE \/ SensorTimeout(r) \/ LoseCommit(r) \/ FailAttempt(r)
             \/ ReadFeatures(r) \/ WriteSignals(r) \/ FinishScore(r)
    <3>1. /\ run'[r].pc \in {"failed", "retry", "write", "return", "done"}
          /\ run'[r].task = run[r].task /\ run'[r].tries = run[r].tries
      BY <2>5, StepStates
    <3>. QED
      BY <1>2, <3>1 DEF AuthorOK, WritingHours, Writing
  <2>. QED
    BY <2>1, <2>2, <2>3, <2>4, <2>5 DEF GoldStep
<1>4. SummariesAgree'
  BY <1>1 DEF AgreeInv, SummariesAgree, HoursAddUp
<1>. QED
  BY <1>1, <1>3, <1>4 DEF AgreeInv

\* A commit of the daily summary: the attempt is its author, and not yet that
\* of the hourly summary.
LEMMA DailyCommitAgree ==
    ASSUME GoldInv, FreshInv, AgreeInv,
           NEW r \in Run, CommitTable(r), run[r].table = "daily"
    PROVE  AgreeInv'
<1>. DEFINE n == run[r].tries
<1>1. /\ run'[r].pc = "probe" /\ run'[r].table = "hourly" /\ run'[r].task = run[r].task
      /\ run'[r].tries = n /\ run'[r].frame = run[r].frame /\ run[r].pc = "commit"
  BY StepStates
<1>2. /\ author'["daily"] \subseteq {<<r, n>>} /\ author'["hourly"] = author["hourly"]
      /\ author'["daily"] # {} => run[r].read["daily"] = version["daily"]
  <2>1. author' = [author EXCEPT !["daily"] =
                      IF run[r].read["daily"] = version["daily"] THEN {<<r, n>>} ELSE {}]
    BY DEF CommitTable
  <2>. QED
    BY <2>1 DEF FreshInv, Table
<1>3. author'["daily"] # {} => gold'["daily"] \in Summaries("daily", run[r].frame)
  BY <1>2, CommitReplaces
<1>4. \A s \in Run \ {r} : run'[s] = run[s]
  BY OneMoves DEF GoldStep
<1>5. n \in Nat /\ n <= n
  BY NumbersAssumption DEF GoldInv, TypeOK
<1>6. /\ run[r].task = "aggregate"
      /\ \A m \in Nat : <<r, m>> \in author["hourly"] => m <= n /\ m < n
  BY <1>1 DEF AgreeInv, AuthorOK, Writing
<1>7. AuthorOK(r, run'[r], gold', author')
  BY <1>1, <1>2, <1>3, <1>6 DEF AuthorOK
<1>8. ASSUME NEW s \in Run \ {r} PROVE AuthorOK(s, run[s], gold', author')
  <2>1. AuthorOK(s, run[s], gold, author)
    BY DEF AgreeInv
  <2>2. \A m : <<s, m>> # <<r, n>>
    OBVIOUS
  <2>3. <<s, run[s].tries>> \notin author'["daily"]
    BY <1>2, <2>2
  <2>. QED
    BY <1>2, <2>1, <2>3 DEF AuthorOK
<1>9. author'["daily"] \cap author'["hourly"] = {}
  <2>1. <<r, n>> \notin author["hourly"]
    BY <1>5, <1>6
  <2>. QED
    BY <1>2, <2>1
<1>10. SummariesAgree'
  BY <1>9 DEF SummariesAgree
<1>. QED
  BY <1>4, <1>7, <1>8, <1>10 DEF AgreeInv

\* A commit of the hourly summary: if the attempt is the author of the daily one,
\* both are computed from its snapshot.
LEMMA HourlyCommitAgree ==
    ASSUME GoldInv, FreshInv, AgreeInv,
           NEW r \in Run, CommitTable(r), run[r].table # "daily"
    PROVE  AgreeInv'
<1>. DEFINE n == run[r].tries
<1>0. run[r].table = "hourly" /\ run[r].frame \in Snapshots
  BY DEF GoldInv, TypeOK, Table
<1>1. /\ run'[r].pc = "push" /\ run'[r].task = run[r].task /\ run'[r].tries = n
      /\ run[r].pc = "commit"
  BY StepStates
<1>2. /\ author'["hourly"] \subseteq {<<r, n>>} /\ author'["daily"] = author["daily"]
      /\ author'["hourly"] # {} => run[r].read["hourly"] = version["hourly"]
  <2>1. author' = [author EXCEPT !["hourly"] =
                      IF run[r].read["hourly"] = version["hourly"]
                      THEN {<<r, n>>} ELSE {}]
    BY <1>0 DEF CommitTable
  <2>. QED
    BY <2>1 DEF FreshInv, Table
<1>3. /\ author'["hourly"] # {} => gold'["hourly"] \in Summaries("hourly", run[r].frame)
      /\ gold'["daily"] = gold["daily"]
  <2>1. gold'["daily"] = gold["daily"]
    BY <1>0 DEF CommitTable, GoldInv, Table
  <2>. QED
    BY <1>0, <1>2, <2>1, CommitReplaces
<1>4. \A s \in Run \ {r} : run'[s] = run[s]
  BY OneMoves DEF GoldStep
<1>5. n \in Nat /\ n <= n
  BY NumbersAssumption DEF GoldInv, TypeOK
<1>6. AuthorOK(r, run'[r], gold', author')
  BY <1>1, <1>2, <1>5 DEF AuthorOK, WritingHours, Writing
<1>7. ASSUME NEW s \in Run \ {r} PROVE AuthorOK(s, run[s], gold', author')
  <2>1. AuthorOK(s, run[s], gold, author)
    BY DEF AgreeInv
  <2>2. \A m : <<s, m>> # <<r, n>>
    OBVIOUS
  <2>3. \A m \in Nat : <<s, m>> \notin author'["hourly"]
    BY <1>2, <2>2
  <2>. QED
    BY <1>2, <1>3, <2>1, <2>3 DEF AuthorOK
<1>8. ASSUME author'["daily"] \cap author'["hourly"] # {} PROVE HoursAddUp'
  <2>1. gold["daily"] \in Summaries("daily", run[r].frame)
    <3>1. <<r, n>> \in author["daily"] /\ WritingHours(run[r])
      BY <1>0, <1>1, <1>2, <1>8 DEF WritingHours, Writing
    <3>. QED
      BY <3>1 DEF AgreeInv, AuthorOK
  <2>. PICK daily, hourly, frame : /\ daily = gold'["daily"] /\ hourly = gold'["hourly"]
                                   /\ frame = run[r].frame
    OBVIOUS
  <2>2. ASSUME NEW d \in DOMAIN daily, NEW hours,
               hours = {g \in DOMAIN hourly : g[1] = d[1]}
        PROVE  /\ daily[d].total = SumFunction([g \in hours |-> hourly[g].total])
               /\ daily[d].fraud = SumFunction([g \in hours |-> hourly[g].fraud])
    BY <1>0, <1>3, <1>8, <2>1, <2>2, DayIsSumOfHours
  <2>. QED
    BY <2>2 DEF HoursAddUp
<1>. QED
  BY <1>4, <1>6, <1>7, <1>8 DEF AgreeInv, SummariesAgree

\* Whenever one attempt made the last commits to the two summaries, overtaken at
\* neither, the hours of each day add up to the day, however runs overlap and
\* whatever attempts fail, for any transactions and any growth of Silver
\* (gold.py:126-137).
THEOREM HoursAgreeWithDays == Spec => []SummariesAgree
<1>1. Init => AgreeInv
  <2>. SUFFICES ASSUME Init PROVE AgreeInv
    OBVIOUS
  <2>1. /\ author["daily"] = {} /\ author["hourly"] = {} /\ \A r \in Run : run[r].pc = "waiting"
    BY EmptySnapshot DEF Init, Table, NoAttempt
  <2>2. \A r \in Run : AuthorOK(r, run[r], gold, author)
    BY <2>1 DEF AuthorOK, Writing, WritingHours
  <2>. QED
    BY <2>1, <2>2 DEF AgreeInv, SummariesAgree, HoursAddUp
<1>2. ASSUME GoldInv, FreshInv, AgreeInv, [Next]_vars PROVE AgreeInv'
  <2>1. ASSUME NEW keys \in SUBSET Key, RefreshSilver(keys) PROVE AgreeInv'
    BY <1>2, <2>1 DEF RefreshSilver, AgreeInv, SummariesAgree, HoursAddUp
  <2>2. ASSUME NEW r \in Run, GoldStep(r) \/ FailAttempt(r) PROVE AgreeInv'
    BY <1>2, <2>2, StepAgree, DailyCommitAgree, HourlyCommitAgree
  <2>3. CASE Finished \/ UNCHANGED vars
    BY <1>2, <2>3 DEF Finished, vars, AgreeInv, SummariesAgree, HoursAddUp
  <2>. QED
    BY <1>2, <2>1, <2>2, <2>3 DEF Next
<1>3. AgreeInv => SummariesAgree
  BY DEF AgreeInv
<1>. QED
  BY <1>1, <1>2, <1>3, Invariant, Fresh, PTL DEF Spec
=============================================================================
