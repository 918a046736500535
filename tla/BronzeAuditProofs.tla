-------------------------- MODULE BronzeAuditProofs --------------------------
(***************************************************************************)
(* Proofs about BronzeAudit for every set of runs, lines and files and     *)
(* every bound.                                                            *)
(***************************************************************************)
EXTENDS BronzeAudit, FiniteSetTheorems, TLAPS

USE ContentAssumption, FilesAssumption, FlagsAssumption, BoundsAssumption

-----------------------------------------------------------------------------
(* Facts about the operators. *)

\* What dropna leaves of a set of lines are lines, and counting them gives a
\* number.
LEMMA BatchFacts ==
    ASSUME NEW file \in SUBSET Record
    PROVE  /\ Batch(file) \in SUBSET Record
           /\ Cardinality(Batch(file)) \in Nat
<1>1. Batch(file) \in SUBSET Record
  BY DEF Batch
<1>2. IsFiniteSet(Batch(file))
  BY <1>1, FS_Subset
<1> QED
  BY <1>1, <1>2, FS_CardinalityType

\* A file that is delivered is a set of lines.
LEMMA DeliveredFile ==
    ASSUME NEW new, <<csv, new>> \in Delivery
    PROVE  new \in SUBSET Record
  OBVIOUS

\* The root of the hashes of any set of lines is a root.
LEMMA RootType ==
    ASSUME NEW rows \in SUBSET Record, NEW h \in [rows -> Hashes]
    PROVE  MerkleRoot(h) \in Roots
<1>1. h \in UNION {[r -> Hashes] : r \in SUBSET Record}
  OBVIOUS
<1> QED
  BY <1>1 DEF Roots

LEMMA BatchRootType ==
    ASSUME NEW file \in SUBSET Record
    PROVE  BatchRoot(file) \in Roots
<1> DEFINE h == [r \in Batch(file) |-> HashOf[ContentOf[r]]]
<1>1. Batch(file) \in SUBSET Record
  BY BatchFacts
<1>2. h \in [Batch(file) -> Hashes]
  BY <1>1 DEF Hashes
<1>3. MerkleRoot(h) \in Roots
  BY <1>1, <1>2, RootType
<1> QED
  BY <1>3 DEF BatchRoot

LEMMA NoRootType == NoRoot \in Roots
<1> DEFINE h == [r \in {} |-> 0]
<1>1. {} \in SUBSET Record /\ h \in [{} -> Hashes]
  OBVIOUS
<1>2. MerkleRoot(h) \in Roots
  BY <1>1, RootType
<1>3. Cardinality(DOMAIN h) = 0
  BY FS_EmptySet
<1>4. MerkleRoot(h) = NoRoot
  BY <1>3 DEF MerkleRoot
<1> QED
  BY <1>2, <1>4

LEMMA TableRootType ==
    ASSUME TypeOK
    PROVE  TableRoot \in Roots
<1> DEFINE h == [r \in DOMAIN bronze |-> bronze[r].hash]
<1>1. DOMAIN bronze \in SUBSET Record /\ h \in [DOMAIN bronze -> Hashes]
  BY DEF TypeOK, Row
<1>2. MerkleRoot(h) \in Roots
  BY <1>1, RootType
<1> QED
  BY <1>2 DEF TableRoot

LEMMA AlteredCount ==
    ASSUME TypeOK
    PROVE  Cardinality(Altered) \in Nat
<1>1. Altered \in SUBSET Record
  BY DEF TypeOK, Altered
<1>2. IsFiniteSet(Altered)
  BY <1>1, FS_Subset
<1> QED
  BY <1>2, FS_CardinalityType

LEMMA RowType ==
    ASSUME NEW r \in Record, NEW t \in Nat
    PROVE  EnrichedRow(r, t) \in Row
  BY DEF EnrichedRow, Row, Hashes

LEMMA FreshLocals == NoAttempt \in IngestState /\ NoCheck \in CheckState
  BY NoRootType DEF NoAttempt, IngestState, IngestPC, NoCheck, CheckState, CheckPC

-----------------------------------------------------------------------------
(* Types.  An attempt starts only while retries are left, which the types  *)
(* alone do not say: tries is bounded because a run is up for retry only   *)
(* below the bound.                                                        *)

TriesLeft ==
    /\ \A i \in Run : /\ ing[i].pc = "queued" => ing[i].tries = 0
                      /\ ing[i].pc = "retry" => ing[i].tries <= IngestRetries
    /\ \A c \in Check : /\ chk[c].pc = "waiting" => chk[c].tries = 0
                        /\ chk[c].pc = "retry" => chk[c].tries <= CheckRetries

TypeInv == TypeOK /\ TriesLeft

LEMMA InitTypeInv == Init => TypeInv
<1> SUFFICES ASSUME Init PROVE TypeInv
  OBVIOUS
<1>1. csv \in SUBSET Record
  BY DEF Init
<1>2. bronze \in [{} -> Row] /\ DOMAIN bronze = {}
  BY DEF Init
<1>3. ing \in [Run -> IngestState] /\ chk \in [Check -> CheckState]
  BY FreshLocals DEF Init
<1>4. TypeOK
  BY <1>1, <1>2, <1>3 DEF Init, TypeOK
<1>5. TriesLeft
  BY DEF Init, TriesLeft, NoAttempt, NoCheck
<1> QED
  BY <1>4, <1>5 DEF TypeInv

\* What a step of one run needs for the types to hold after it.
LEMMA RunStep ==
    ASSUME TypeInv, NEW i \in Run, NEW l \in IngestState,
           l.pc # "queued",
           l.pc = "retry" => l.tries <= IngestRetries,
           ing' = [ing EXCEPT ![i] = l], chk' = chk
    PROVE  ing' \in [Run -> IngestState] /\ TriesLeft'
<1>1. /\ ing \in [Run -> IngestState]
      /\ TriesLeft
  BY DEF TypeInv, TypeOK
<1> QED
  BY <1>1 DEF TriesLeft

LEMMA CheckRunStep ==
    ASSUME TypeInv, NEW c \in Check, NEW l \in CheckState,
           l.pc # "waiting",
           l.pc = "retry" => l.tries <= CheckRetries,
           chk' = [chk EXCEPT ![c] = l], ing' = ing
    PROVE  chk' \in [Check -> CheckState] /\ TriesLeft'
<1>1. /\ chk \in [Check -> CheckState]
      /\ TriesLeft
  BY DEF TypeInv, TypeOK
<1> QED
  BY <1>1 DEF TriesLeft

\* The changes an ingest step makes to the run itself.
LEMMA IngestTypeInv ==
    ASSUME TypeInv, NEW i \in Run, IngestStep(i) \/ FailIngest(i)
    PROVE  ing' \in [Run -> IngestState] /\ TriesLeft'
<1>0. /\ ing[i] \in IngestState
      /\ csv \in SUBSET Record
      /\ clock \in Nat
      /\ ing[i].pc = "queued" => ing[i].tries = 0
      /\ ing[i].pc = "retry" => ing[i].tries <= IngestRetries
  BY DEF TypeInv, TypeOK, TriesLeft
<1>a. Cardinality(Batch(csv)) \in Nat
  BY <1>0, BatchFacts, FS_CardinalityType
<1>b. chk' = chk
  BY DEF IngestStep, StartIngest, MergeBronze, CreateBronze, CountBatch,
         CollectHashes, StampManifest, AppendManifest, FinishIngest, FailIngest
<1>c. BatchRoot(csv) \in Roots
  BY <1>0, BatchRootType
<1>1. CASE StartIngest(i)
  <2> DEFINE l == [ing[i] EXCEPT !.pc = IF exists THEN "merge" ELSE "create",
                              !.tries = @ + 1]
  <2>1. ing' = [ing EXCEPT ![i] = l]
    BY <1>1 DEF StartIngest
  <2>a. ing[i].tries + 1 \in 0 .. IngestRetries + 1
    BY <1>0, <1>1 DEF StartIngest, IngestState
  <2>b. (IF exists THEN "merge" ELSE "create") \in {"merge", "create"}
    OBVIOUS
  <2>2. l \in IngestState /\ l.pc \notin {"queued", "retry"}
    BY <1>0, <2>a, <2>b DEF IngestState, IngestPC
  <2> HIDE DEF l
  <2> QED
    BY <1>b, <2>1, <2>2, RunStep
<1>2. CASE MergeBronze(i)
  <2> DEFINE l == [ing[i] EXCEPT !.pc = "count"]
  <2>1. ing' = [ing EXCEPT ![i] = l]
    BY <1>2 DEF MergeBronze
  <2>2. l \in IngestState /\ l.pc \notin {"queued", "retry"}
    BY <1>0, <1>a DEF IngestState, IngestPC
  <2> HIDE DEF l
  <2> QED
    BY <1>b, <2>1, <2>2, RunStep
<1>3. CASE CreateBronze(i)
  <2> DEFINE l == [ing[i] EXCEPT !.pc = "count"]
  <2>1. ing' = [ing EXCEPT ![i] = l]
    BY <1>3 DEF CreateBronze
  <2>2. l \in IngestState /\ l.pc \notin {"queued", "retry"}
    BY <1>0, <1>a DEF IngestState, IngestPC
  <2> HIDE DEF l
  <2> QED
    BY <1>b, <2>1, <2>2, RunStep
<1>4. CASE CountBatch(i)
  <2> DEFINE l == [ing[i] EXCEPT !.pc = "collect",
                              !.count = Cardinality(Batch(csv))]
  <2>1. ing' = [ing EXCEPT ![i] = l]
    BY <1>4 DEF CountBatch
  <2>2. l \in IngestState /\ l.pc \notin {"queued", "retry"}
    BY <1>0, <1>a DEF IngestState, IngestPC
  <2> HIDE DEF l
  <2> QED
    BY <1>b, <2>1, <2>2, RunStep
<1>5. CASE CollectHashes(i)
  <2> DEFINE l == [ing[i] EXCEPT !.pc = "stamp", !.root = BatchRoot(csv)]
  <2>1. ing' = [ing EXCEPT ![i] = l]
    BY <1>5 DEF CollectHashes
  <2>2. l \in IngestState /\ l.pc \notin {"queued", "retry"}
    BY <1>0, <1>c DEF IngestState, IngestPC
  <2> HIDE DEF l
  <2> QED
    BY <1>b, <2>1, <2>2, RunStep
<1>6. CASE StampManifest(i)
  <2> DEFINE l == [ing[i] EXCEPT !.pc = "append", !.at = clock']
  <2>1. ing' = [ing EXCEPT ![i] = l]
    BY <1>6 DEF StampManifest
  <2>a. clock' \in Nat
    BY <1>0, <1>6 DEF StampManifest
  <2>2. l \in IngestState /\ l.pc \notin {"queued", "retry"}
    BY <1>0, <2>a DEF IngestState, IngestPC
  <2> HIDE DEF l
  <2> QED
    BY <1>b, <2>1, <2>2, RunStep
<1>7. CASE AppendManifest(i)
  <2> DEFINE l == [ing[i] EXCEPT !.pc = "push"]
  <2>1. ing' = [ing EXCEPT ![i] = l]
    BY <1>7 DEF AppendManifest
  <2>2. l \in IngestState /\ l.pc \notin {"queued", "retry"}
    BY <1>0, <1>7 DEF IngestState, IngestPC
  <2> HIDE DEF l
  <2> QED
    BY <1>b, <2>1, <2>2, RunStep
<1>8. CASE FinishIngest(i)
  <2> DEFINE l == [NoAttempt EXCEPT !.pc = "done", !.tries = ing[i].tries]
  <2>1. ing' = [ing EXCEPT ![i] = l]
    BY <1>8 DEF FinishIngest, NoAttempt
  <2>2. l \in IngestState /\ l.pc \notin {"queued", "retry"}
    BY <1>0, NoRootType DEF IngestState, IngestPC, NoAttempt
  <2> HIDE DEF l
  <2> QED
    BY <1>b, <2>1, <2>2, RunStep
<1>9. CASE FailIngest(i)
  <2> DEFINE l == [NoAttempt EXCEPT !.pc = IF ing[i].tries <= IngestRetries
                                       THEN "retry" ELSE "failed",
                                !.tries = ing[i].tries]
  <2>1. ing' = [ing EXCEPT ![i] = l]
    BY <1>9 DEF FailIngest, NoAttempt
  <2>2. /\ l \in IngestState
        /\ l.pc # "queued"
        /\ l.pc = "retry" => l.tries <= IngestRetries
    BY <1>0, NoRootType DEF IngestState, IngestPC, NoAttempt
  <2> HIDE DEF l
  <2> QED
    BY <1>b, <2>1, <2>2, RunStep
<1> QED
  BY <1>1, <1>2, <1>3, <1>4, <1>5, <1>6, <1>7, <1>8, <1>9 DEF IngestStep

\* The changes an ingest step makes to the tables.
LEMMA IngestTables ==
    ASSUME TypeInv, NEW i \in Run, IngestStep(i) \/ FailIngest(i)
    PROVE  /\ DOMAIN bronze' \in SUBSET Record
           /\ bronze' \in [DOMAIN bronze' -> Row]
           /\ manifests' \in SUBSET Manifest
           /\ clock' \in Nat
           /\ exists' \in BOOLEAN
           /\ UNCHANGED <<csv, chk, faults>>
<1> USE DEF TypeInv, TypeOK
<1>1. CASE MergeBronze(i)
  <2>1. NotMatched(csv) \in SUBSET Record
    BY BatchFacts DEF NotMatched
  <2>2. \A r \in NotMatched(csv) : EnrichedRow(r, clock') \in Row
    BY <1>1, <2>1, RowType DEF MergeBronze
  <2> QED
    BY <1>1, <2>1, <2>2 DEF MergeBronze
<1>2. CASE CreateBronze(i)
  <2>1. \A r \in Batch(csv) : EnrichedRow(r, clock') \in Row
    BY <1>2, BatchFacts, RowType DEF CreateBronze
  <2> QED
    BY <1>2, <2>1, BatchFacts DEF CreateBronze
<1>3. CASE AppendManifest(i)
  BY <1>3 DEF AppendManifest, Manifest, IngestState
<1>4. CASE StampManifest(i)
  BY <1>4 DEF StampManifest
<1>5. CASE \/ StartIngest(i) \/ CountBatch(i) \/ CollectHashes(i)
           \/ FinishIngest(i) \/ FailIngest(i)
  BY <1>5 DEF StartIngest, CountBatch, CollectHashes, FinishIngest, FailIngest,
              tables
<1> QED
  BY <1>1, <1>2, <1>3, <1>4, <1>5 DEF IngestStep

\* The changes a check step makes: only to the check.
LEMMA CheckTypeInv ==
    ASSUME TypeInv, NEW c \in Check, CheckStep(c) \/ FailCheck(c)
    PROVE  /\ chk' \in [Check -> CheckState]
           /\ TriesLeft'
           /\ UNCHANGED <<tables, ing>>
<1>0. /\ chk[c] \in CheckState
      /\ faults \in Nat
      /\ chk[c].pc = "waiting" => chk[c].tries = 0
      /\ chk[c].pc = "retry" => chk[c].tries <= CheckRetries
  BY DEF TypeInv, TypeOK, TriesLeft
<1>a. UNCHANGED <<tables, ing>>
  BY DEF CheckStep, StartCheck, SensorTimeout, VerifyRows, RebuildRoot,
         CompareRoot, NoManifest, Conclude, FailCheck
<1>b. Cardinality(Altered) \in Nat /\ TableRoot \in Roots
  BY AlteredCount, TableRootType DEF TypeInv
<1>1. CASE StartCheck(c)
  <2> DEFINE l == [NoCheck EXCEPT !.pc = "rows", !.tries = chk[c].tries + 1,
                              !.since = faults]
  <2>1. chk' = [chk EXCEPT ![c] = l]
    BY <1>1 DEF StartCheck, NoCheck
  <2>a. chk[c].tries + 1 \in 0 .. CheckRetries + 1
    BY <1>0, <1>1 DEF StartCheck, CheckState
  <2>2. l \in CheckState /\ l.pc \notin {"waiting", "retry"}
    BY <1>0, <2>a, NoRootType DEF CheckState, CheckPC, NoCheck
  <2> HIDE DEF l
  <2> QED
    BY <1>a, <2>1, <2>2, CheckRunStep
<1>2. CASE SensorTimeout(c)
  <2> DEFINE l == [chk[c] EXCEPT !.pc = "failed"]
  <2>1. chk' = [chk EXCEPT ![c] = l]
    BY <1>2 DEF SensorTimeout
  <2>2. l \in CheckState /\ l.pc \notin {"waiting", "retry"}
    BY <1>0, <1>2 DEF CheckState, CheckPC
  <2> HIDE DEF l
  <2> QED
    BY <1>a, <2>1, <2>2, CheckRunStep
<1>3. CASE VerifyRows(c)
  <2> DEFINE l == [chk[c] EXCEPT !.pc = "root", !.tampered = Cardinality(Altered)]
  <2>1. chk' = [chk EXCEPT ![c] = l]
    BY <1>3 DEF VerifyRows
  <2>2. l \in CheckState /\ l.pc \notin {"waiting", "retry"}
    BY <1>0, <1>b DEF CheckState, CheckPC
  <2> HIDE DEF l
  <2> QED
    BY <1>a, <2>1, <2>2, CheckRunStep
<1>4. CASE RebuildRoot(c)
  <2> DEFINE l == [chk[c] EXCEPT !.pc = "manifest", !.root = TableRoot]
  <2>1. chk' = [chk EXCEPT ![c] = l]
    BY <1>4 DEF RebuildRoot
  <2>2. l \in CheckState /\ l.pc \notin {"waiting", "retry"}
    BY <1>0, <1>b DEF CheckState, CheckPC
  <2> HIDE DEF l
  <2> QED
    BY <1>a, <2>1, <2>2, CheckRunStep
<1>5. ASSUME CompareRoot(c) \/ NoManifest(c)
      PROVE  \E match \in BOOLEAN : Conclude(c, match)
  <2>1. CASE CompareRoot(c)
    <3> PICK m \in manifests : Conclude(c, chk[c].root = m.root)
      BY <2>1 DEF CompareRoot
    <3> WITNESS (chk[c].root = m.root) \in BOOLEAN
    <3> QED
      OBVIOUS
  <2>2. CASE NoManifest(c)
    <3> WITNESS FALSE \in BOOLEAN
    <3> QED
      BY <2>2 DEF NoManifest
  <2> QED
    BY <1>5, <2>1, <2>2
<1>6. CASE CompareRoot(c) \/ NoManifest(c)
  <2> PICK match \in BOOLEAN : Conclude(c, match)
    BY <1>5, <1>6
  <2> DEFINE clean == chk[c].tampered = 0 /\ match
             p == IF clean THEN "done" ELSE AfterFailedCheck(c)
             v == IF clean THEN "clean" ELSE "violation"
             l == [chk[c] EXCEPT !.match = match, !.verdict = v, !.pc = p]
  <2>1. chk' = [chk EXCEPT ![c] = l]
    BY DEF Conclude
  <2>2. /\ p \in CheckPC \ {"waiting"}
        /\ p = "retry" => chk[c].tries <= CheckRetries
        /\ v \in {"none", "clean", "violation"}
    BY DEF AfterFailedCheck, CheckPC
  <2> HIDE DEF p, v
  <2>3. /\ l \in CheckState
        /\ l.pc = p
        /\ l.tries = chk[c].tries
    BY <1>0, <2>2 DEF CheckState
  <2> HIDE DEF l
  <2> QED
    BY <1>a, <2>1, <2>2, <2>3, CheckRunStep
<1>8. CASE FailCheck(c)
  <2> DEFINE l == [NoCheck EXCEPT !.pc = AfterFailedCheck(c), !.tries = chk[c].tries]
  <2>1. chk' = [chk EXCEPT ![c] = l]
    BY <1>8 DEF FailCheck, NoCheck, AfterFailedCheck
  <2>2. /\ l \in CheckState
        /\ l.pc # "waiting"
        /\ l.pc = "retry" => l.tries <= CheckRetries
    BY <1>0, NoRootType DEF CheckState, CheckPC, NoCheck, AfterFailedCheck
  <2> HIDE DEF l
  <2> QED
    BY <1>a, <2>1, <2>2, CheckRunStep
<1> QED
  BY <1>a, <1>1, <1>2, <1>3, <1>4, <1>6, <1>8 DEF CheckStep

\* What all storage faults have in common.
LEMMA FaultCounted ==
    ASSUME StorageFault
    PROVE  /\ faults < MaxFaults
           /\ faults' = faults + 1
           /\ UNCHANGED <<csv, exists, manifests, clock, ing, chk>>
<1>1. CASE \E r \in Record : LoseRow(r)
  BY <1>1 DEF LoseRow
<1>2. CASE \E r \in Record : InsertRow(r)
  BY <1>2 DEF InsertRow
<1>3. CASE \E r \in Record : \E content \in Content, hash \in Hashes :
               ModifyRow(r, content, hash)
  BY <1>3 DEF ModifyRow
<1> QED
  BY <1>1, <1>2, <1>3 DEF StorageFault

\* A storage fault leaves a table of rows.
LEMMA FaultTypeInv ==
    ASSUME TypeInv, StorageFault
    PROVE  /\ DOMAIN bronze' \in SUBSET Record
           /\ bronze' \in [DOMAIN bronze' -> Row]
           /\ faults' \in Nat
           /\ UNCHANGED <<csv, exists, manifests, clock, ing, chk>>
<1> USE DEF TypeInv, TypeOK, Row
<1>1. ASSUME NEW r \in Record, LoseRow(r)
      PROVE  DOMAIN bronze' \in SUBSET Record /\ bronze' \in [DOMAIN bronze' -> Row]
  BY <1>1 DEF LoseRow
<1>2. ASSUME NEW r \in Record, InsertRow(r)
      PROVE  DOMAIN bronze' \in SUBSET Record /\ bronze' \in [DOMAIN bronze' -> Row]
  <2>1. PICK t \in {bronze[s].ts : s \in DOMAIN bronze} :
            bronze' = [s \in DOMAIN bronze \cup {r} |->
                          IF s = r THEN EnrichedRow(r, t) ELSE bronze[s]]
    BY <1>2 DEF InsertRow
  <2>2. EnrichedRow(r, t) \in Row
    BY RowType
  <2> QED
    BY <2>1, <2>2
<1>3. ASSUME NEW r \in Record, NEW content \in Content, NEW hash \in Hashes,
             ModifyRow(r, content, hash)
      PROVE  DOMAIN bronze' \in SUBSET Record /\ bronze' \in [DOMAIN bronze' -> Row]
  BY <1>3 DEF ModifyRow
<1>4. faults' \in Nat /\ UNCHANGED <<csv, exists, manifests, clock, ing, chk>>
  BY FaultCounted
<1> QED
  BY <1>1, <1>2, <1>3, <1>4 DEF StorageFault

LEMMA NextTypeInv == TypeInv /\ [Next]_vars => TypeInv'
<1> SUFFICES ASSUME TypeInv, [Next]_vars PROVE TypeInv'
  OBVIOUS
<1>1. ASSUME NEW new \in Files, DeliverCsv(new) PROVE TypeInv'
  BY <1>1, DeliveredFile DEF DeliverCsv, TypeInv, TypeOK, TriesLeft
<1>2. ASSUME NEW i \in Run, IngestStep(i) \/ FailIngest(i) PROVE TypeInv'
  BY <1>2, IngestTypeInv, IngestTables DEF TypeInv, TypeOK
<1>3. ASSUME NEW c \in Check, CheckStep(c) \/ FailCheck(c) PROVE TypeInv'
  BY <1>3, CheckTypeInv DEF TypeInv, TypeOK, tables
<1>4. CASE StorageFault
  BY <1>4, FaultTypeInv DEF TypeInv, TypeOK, TriesLeft
<1>5. CASE UNCHANGED vars
  BY <1>5 DEF TypeInv, TypeOK, TriesLeft, vars
<1> QED
  BY <1>1, <1>2, <1>3, <1>4, <1>5 DEF Next, Finished

\* The Bronze table, the manifests and the runs always have their types, and no
\* run makes more attempts than its retries allow (retries in default_args of
\* bronze_ingest.py and integrity_check.py).
THEOREM TypeCorrect == Spec => []TypeOK
<1>1. TypeInv => TypeOK
  BY DEF TypeInv
<1> QED
  BY <1>1, InitTypeInv, NextTypeInv, PTL DEF Spec

-----------------------------------------------------------------------------
(* One commit per key. *)

\* Neither a MERGE nor a load gives a key rows of two commits; a fault gives no
\* row another timestamp, nor a key a second one.
LEMMA OneCommitStep ==
    ASSUME TypeInv, OneCommitPerKey, [Next]_vars
    PROVE  OneCommitPerKey'
<1> USE DEF OneCommitPerKey, RowKey
<1>0. bronze \in [DOMAIN bronze -> Row]
  BY DEF TypeInv, TypeOK
<1>1. ASSUME NEW i \in Run, MergeBronze(i)
      PROVE  OneCommitPerKey'
  <2>1. /\ DOMAIN bronze' = DOMAIN bronze \cup NotMatched(csv)
        /\ \A r \in DOMAIN bronze : bronze'[r] = bronze[r]
        /\ \A r \in NotMatched(csv) \ DOMAIN bronze : bronze'[r].ts = clock'
    BY <1>1 DEF MergeBronze, EnrichedRow
  <2>2. \A r \in NotMatched(csv), s \in DOMAIN bronze :
            KeyOf[ContentOf[s]] # KeyOf[ContentOf[r]]
    BY DEF NotMatched
  <2> QED
    BY <2>1, <2>2
<1>2. ASSUME NEW i \in Run, CreateBronze(i)
      PROVE  OneCommitPerKey'
  BY <1>2 DEF CreateBronze, EnrichedRow
<1>3. ASSUME NEW r \in Record, LoseRow(r)
      PROVE  OneCommitPerKey'
  BY <1>3 DEF LoseRow
<1>10. ASSUME NEW r \in Record, InsertRow(r)
       PROVE  OneCommitPerKey'
  <2>1. PICK t : /\ \A s \in DOMAIN bronze : RowKey(s) = RowKey(r) => bronze[s].ts = t
                 /\ bronze' = [s \in DOMAIN bronze \cup {r} |->
                                 IF s = r THEN EnrichedRow(r, t) ELSE bronze[s]]
    BY <1>10 DEF InsertRow
  <2>2. /\ DOMAIN bronze' = DOMAIN bronze \cup {r}
        /\ bronze'[r].ts = t
        /\ \A s \in DOMAIN bronze \ {r} : bronze'[s] = bronze[s]
    BY <2>1 DEF EnrichedRow
  <2> QED
    BY <2>1, <2>2
<1>4. ASSUME NEW r \in Record, NEW content \in Content, NEW hash \in Hashes,
             ModifyRow(r, content, hash)
      PROVE  OneCommitPerKey'
  <2>1. /\ DOMAIN bronze' = DOMAIN bronze
        /\ \A s \in DOMAIN bronze : bronze'[s].ts = bronze[s].ts
    BY <1>0, <1>4 DEF ModifyRow, Row
  <2> QED
    BY <2>1
<1>5. ASSUME UNCHANGED bronze
      PROVE  OneCommitPerKey'
  BY <1>5
<1>6. ASSUME NEW i \in Run, IngestStep(i) \/ FailIngest(i)
      PROVE  OneCommitPerKey'
  <2>1. CASE \/ StartIngest(i) \/ CountBatch(i) \/ CollectHashes(i)
             \/ StampManifest(i) \/ AppendManifest(i) \/ FinishIngest(i)
             \/ FailIngest(i)
    BY <1>5, <2>1 DEF StartIngest, CountBatch, CollectHashes, StampManifest,
                      AppendManifest, FinishIngest, FailIngest, tables
  <2> QED
    BY <1>1, <1>2, <1>6, <2>1 DEF IngestStep
<1>7. ASSUME NEW c \in Check, CheckStep(c) \/ FailCheck(c)
      PROVE  OneCommitPerKey'
  BY <1>5, <1>7, CheckTypeInv DEF tables
<1>8. ASSUME NEW new \in Files, DeliverCsv(new)
      PROVE  OneCommitPerKey'
  BY <1>5, <1>8 DEF DeliverCsv
<1>9. CASE UNCHANGED vars
  BY <1>5, <1>9 DEF vars
<1> QED
  BY <1>3, <1>4, <1>6, <1>7, <1>8, <1>9, <1>10 DEF Next, Finished, StorageFault

\* All rows of a row_key in Bronze share one ingest_ts, for any files, any
\* overlap of runs and any storage faults (bronze.py, write_bronze).
THEOREM OneCommit == Spec => []OneCommitPerKey
<1>1. Init => OneCommitPerKey
  BY DEF Init, OneCommitPerKey
<1> QED
  BY <1>1, InitTypeInv, NextTypeInv, OneCommitStep, PTL DEF Spec

-----------------------------------------------------------------------------
(* No false alarm while one file stays in place and storage is sound.      *)
(* NoFalseAlarm is not inductive: it needs that every table and every      *)
(* local variable a verdict is computed from describes that one file.      *)

OneFileInPlace == Delivery = {} /\ ReadErrors = FALSE

\* The table holds the lines of the file, as they are.
TableIsBatch ==
    /\ DOMAIN bronze = Batch(csv)
    /\ \A r \in Batch(csv) : /\ bronze[r].content = ContentOf[r]
                             /\ bronze[r].hash = HashOf[ContentOf[r]]

IngestKnowsBatch(i) ==
    /\ ing[i].pc \in {"merge", "count", "collect", "stamp", "append", "push"}
         => exists
    /\ ing[i].pc \in {"stamp", "append"} => ing[i].root = BatchRoot(csv)

CheckFindsBatch(c) ==
    /\ chk[c].pc \in {"rows", "root", "manifest", "retry"} => manifests # {}
    /\ chk[c].pc \in {"root", "manifest"} => chk[c].tampered = 0
    /\ chk[c].pc = "manifest" => chk[c].root = BatchRoot(csv)
    /\ chk[c].verdict # "violation"

AuditInv ==
    faults = 0 =>
        /\ exists => TableIsBatch
        /\ manifests # {} => exists
        /\ \A m \in manifests : m.root = BatchRoot(csv)
        /\ \A i \in Run : IngestKnowsBatch(i)
        /\ \A c \in Check : CheckFindsBatch(c)

\* A table that holds the file has no altered row and the root of the file.
LEMMA SoundTable ==
    ASSUME TableIsBatch
    PROVE  Cardinality(Altered) = 0 /\ TableRoot = BatchRoot(csv)
<1>1. Altered = {}
  BY DEF TableIsBatch, Altered
<1>2. [r \in DOMAIN bronze |-> bronze[r].hash] =
          [r \in Batch(csv) |-> HashOf[ContentOf[r]]]
  BY DEF TableIsBatch
<1> QED
  BY <1>1, <1>2, FS_EmptySet DEF TableRoot, BatchRoot

\* A MERGE into that table finds every key and inserts nothing.
LEMMA MergeKeepsTable ==
    ASSUME TypeInv, TableIsBatch, NEW i \in Run, MergeBronze(i)
    PROVE  bronze' = bronze
<1>1. NotMatched(csv) = {}
  BY DEF NotMatched, TableIsBatch
<1>2. bronze \in [DOMAIN bronze -> Row]
  BY DEF TypeInv, TypeOK
<1> QED
  BY <1>1, <1>2 DEF MergeBronze

LEMMA InitAuditInv == Init => AuditInv
  BY DEF Init, AuditInv, NoAttempt, NoCheck, IngestKnowsBatch, CheckFindsBatch

LEMMA IngestAuditInv ==
    ASSUME OneFileInPlace, TypeInv, AuditInv, faults = 0,
           NEW i \in Run, IngestStep(i) \/ FailIngest(i)
    PROVE  AuditInv'
<1>0. /\ ing \in [Run -> IngestState]
      /\ exists => TableIsBatch
      /\ manifests # {} => exists
      /\ \A m \in manifests : m.root = BatchRoot(csv)
      /\ \A j \in Run : IngestKnowsBatch(j)
      /\ \A c \in Check : CheckFindsBatch(c)
  BY DEF AuditInv, TypeInv, TypeOK
<1>a. csv' = csv /\ chk' = chk /\ faults' = faults
  BY IngestTables
<1>b. BatchRoot(csv)' = BatchRoot(csv)
  BY <1>a DEF BatchRoot, Batch
\* The other runs and the checks see the same file and no fewer manifests.
<1>c. ASSUME exists => exists',
             manifests \subseteq manifests',
             exists' => TableIsBatch',
             manifests' # {} => exists',
             \A m \in manifests' : m.root = BatchRoot(csv),
             \A j \in Run \ {i} : ing'[j] = ing[j],
             IngestKnowsBatch(i)'
      PROVE  AuditInv'
  <2>1. \A c \in Check : CheckFindsBatch(c)'
    BY <1>0, <1>a, <1>b, <1>c DEF CheckFindsBatch
  <2>2. \A j \in Run : IngestKnowsBatch(j)'
    BY <1>0, <1>b, <1>c DEF IngestKnowsBatch
  <2> QED
    BY <1>b, <1>c, <2>1, <2>2 DEF AuditInv
<1>d. TableIsBatch /\ bronze' = bronze => TableIsBatch'
  BY <1>a DEF TableIsBatch, Batch
<1>1. CASE StartIngest(i)
  <2>1. /\ \A j \in Run \ {i} : ing'[j] = ing[j]
        /\ ing'[i].pc = IF exists THEN "merge" ELSE "create"
    BY <1>0, <1>1 DEF StartIngest, IngestState
  <2> QED
    BY <1>0, <1>c, <1>d, <1>1, <2>1 DEF StartIngest, tables, IngestKnowsBatch
<1>2. CASE MergeBronze(i)
  <2>1. /\ \A j \in Run \ {i} : ing'[j] = ing[j]
        /\ ing'[i].pc = "count"
    BY <1>0, <1>2 DEF MergeBronze, IngestState
  <2>2. exists /\ exists' = exists /\ manifests' = manifests
    BY <1>0, <1>2 DEF MergeBronze, IngestKnowsBatch
  <2>3. TableIsBatch'
    BY <1>0, <1>2, <1>d, <2>2, MergeKeepsTable
  <2> QED
    BY <1>0, <1>c, <2>1, <2>2, <2>3 DEF IngestKnowsBatch
<1>3. CASE CreateBronze(i)
  <2>1. /\ \A j \in Run \ {i} : ing'[j] = ing[j]
        /\ ing'[i].pc = "count"
    BY <1>0, <1>3 DEF CreateBronze, IngestState
  <2>2. exists' = TRUE /\ manifests' = manifests
    BY <1>3 DEF CreateBronze
  <2>3. TableIsBatch'
    BY <1>a, <1>3 DEF CreateBronze, TableIsBatch, Batch, EnrichedRow
  <2> QED
    BY <1>0, <1>c, <2>1, <2>2, <2>3 DEF IngestKnowsBatch
<1>4. CASE CountBatch(i)
  <2>1. /\ \A j \in Run \ {i} : ing'[j] = ing[j]
        /\ ing[i].pc = "count"
        /\ ing'[i].pc = "collect"
    BY <1>0, <1>4 DEF CountBatch, IngestState
  <2> QED
    BY <1>0, <1>c, <1>d, <1>4, <2>1 DEF CountBatch, tables, IngestKnowsBatch
<1>5. CASE CollectHashes(i)
  <2>1. /\ \A j \in Run \ {i} : ing'[j] = ing[j]
        /\ ing[i].pc = "collect"
        /\ ing'[i].pc = "stamp"
        /\ ing'[i].root = BatchRoot(csv)
    BY <1>0, <1>5 DEF CollectHashes, IngestState
  <2> QED
    BY <1>0, <1>b, <1>c, <1>d, <1>5, <2>1 DEF CollectHashes, tables, IngestKnowsBatch
<1>6. CASE StampManifest(i)
  <2>1. /\ \A j \in Run \ {i} : ing'[j] = ing[j]
        /\ ing[i].pc = "stamp"
        /\ ing'[i].pc = "append"
        /\ ing'[i].root = ing[i].root
    BY <1>0, <1>6 DEF StampManifest, IngestState
  <2> QED
    BY <1>0, <1>b, <1>c, <1>d, <1>6, <2>1 DEF StampManifest, IngestKnowsBatch
<1>7. CASE AppendManifest(i)
  <2>1. /\ \A j \in Run \ {i} : ing'[j] = ing[j]
        /\ ing[i].pc = "append"
        /\ ing'[i].pc = "push"
    BY <1>0, <1>7 DEF AppendManifest, IngestState
  <2>2. exists /\ exists' = exists /\ bronze' = bronze /\ ing[i].root = BatchRoot(csv)
    BY <1>0, <1>7, <2>1 DEF AppendManifest, IngestKnowsBatch
  <2>3. /\ manifests \subseteq manifests'
        /\ \A m \in manifests' : m.root = BatchRoot(csv)
    BY <1>0, <1>7, <2>2 DEF AppendManifest
  <2> QED
    BY <1>0, <1>c, <1>d, <2>1, <2>2, <2>3 DEF IngestKnowsBatch
<1>8. CASE FinishIngest(i) \/ FailIngest(i)
  <2>1. /\ \A j \in Run \ {i} : ing'[j] = ing[j]
        /\ ing'[i].pc \in {"done", "retry", "failed"}
    BY <1>0, <1>8 DEF FinishIngest, FailIngest, NoAttempt
  <2>2. UNCHANGED <<exists, bronze, manifests>>
    BY <1>8 DEF FinishIngest, FailIngest, tables
  <2> QED
    BY <1>0, <1>c, <1>d, <2>1, <2>2 DEF IngestKnowsBatch
<1> QED
  BY <1>1, <1>2, <1>3, <1>4, <1>5, <1>6, <1>7, <1>8 DEF IngestStep

LEMMA CheckAuditInv ==
    ASSUME OneFileInPlace, TypeInv, AuditInv, faults = 0,
           NEW c \in Check, CheckStep(c) \/ FailCheck(c)
    PROVE  AuditInv'
<1>0. /\ chk \in [Check -> CheckState]
      /\ exists => TableIsBatch
      /\ manifests # {} => exists
      /\ \A m \in manifests : m.root = BatchRoot(csv)
      /\ \A i \in Run : IngestKnowsBatch(i)
      /\ \A d \in Check : CheckFindsBatch(d)
  BY DEF AuditInv, TypeInv, TypeOK
<1>a. UNCHANGED <<csv, exists, bronze, manifests, faults, ing>>
  BY CheckTypeInv DEF tables
\* Only the check itself changes.
<1>b. ASSUME \A d \in Check \ {c} : chk'[d] = chk[d],
             CheckFindsBatch(c)'
      PROVE  AuditInv'
  <2>1. BatchRoot(csv)' = BatchRoot(csv)
    BY <1>a DEF BatchRoot, Batch
  <2>2. \A d \in Check : CheckFindsBatch(d)'
    BY <1>0, <1>a, <1>b, <2>1 DEF CheckFindsBatch
  <2>3. \A i \in Run : IngestKnowsBatch(i)'
    BY <1>0, <1>a, <2>1 DEF IngestKnowsBatch
  <2>4. exists' => TableIsBatch'
    BY <1>0, <1>a DEF TableIsBatch, Batch
  <2> QED
    BY <1>0, <1>a, <2>1, <2>2, <2>3, <2>4 DEF AuditInv
<1>c. BatchRoot(csv)' = BatchRoot(csv)
  BY <1>a DEF BatchRoot, Batch
<1>d. CheckFindsBatch(c)
  BY <1>0
<1>1. CASE StartCheck(c)
  <2>1. /\ \A d \in Check \ {c} : chk'[d] = chk[d]
        /\ chk'[c].pc = "rows"
        /\ chk'[c].verdict = "none"
    BY <1>0, <1>1 DEF StartCheck, NoCheck
  <2>2. manifests # {}
    BY <1>d, <1>1 DEF StartCheck, CheckFindsBatch
  <2> QED
    BY <1>a, <1>b, <2>1, <2>2 DEF CheckFindsBatch
<1>2. CASE SensorTimeout(c)
  <2>1. /\ \A d \in Check \ {c} : chk'[d] = chk[d]
        /\ chk'[c].pc = "failed"
        /\ chk'[c].verdict = chk[c].verdict
    BY <1>0, <1>2 DEF SensorTimeout, CheckState
  <2> QED
    BY <1>b, <1>d, <2>1 DEF CheckFindsBatch
<1>3. CASE VerifyRows(c)
  <2>1. /\ \A d \in Check \ {c} : chk'[d] = chk[d]
        /\ chk[c].pc = "rows"
        /\ chk'[c].pc = "root"
        /\ chk'[c].tampered = Cardinality(Altered)
        /\ chk'[c].verdict = chk[c].verdict
    BY <1>0, <1>3 DEF VerifyRows, CheckState
  <2>2. manifests # {} /\ Cardinality(Altered) = 0
    BY <1>0, <1>d, <2>1, SoundTable DEF CheckFindsBatch
  <2> QED
    BY <1>a, <1>b, <1>d, <2>1, <2>2 DEF CheckFindsBatch
<1>4. CASE RebuildRoot(c)
  <2>1. /\ \A d \in Check \ {c} : chk'[d] = chk[d]
        /\ chk[c].pc = "root"
        /\ chk'[c].pc = "manifest"
        /\ chk'[c].root = TableRoot
        /\ chk'[c].tampered = chk[c].tampered
        /\ chk'[c].verdict = chk[c].verdict
    BY <1>0, <1>4 DEF RebuildRoot, CheckState
  <2>2. manifests # {} /\ TableRoot = BatchRoot(csv)
    BY <1>0, <1>d, <2>1, SoundTable DEF CheckFindsBatch
  <2> QED
    BY <1>a, <1>b, <1>c, <1>d, <2>1, <2>2 DEF CheckFindsBatch
<1>5. CASE CompareRoot(c)
  <2> PICK m \in manifests : Conclude(c, chk[c].root = m.root)
    BY <1>5 DEF CompareRoot
  <2>1. chk[c].tampered = 0 /\ chk[c].root = m.root
    BY <1>0, <1>d, <1>5 DEF CheckFindsBatch, CompareRoot
  <2>2. /\ \A d \in Check \ {c} : chk'[d] = chk[d]
        /\ chk'[c].pc = "done"
        /\ chk'[c].verdict = "clean"
    BY <1>0, <2>1 DEF Conclude, CheckState
  <2> QED
    BY <1>b, <2>2 DEF CheckFindsBatch
<1>6. CASE NoManifest(c)
  BY <1>d, <1>6 DEF NoManifest, OneFileInPlace, CheckFindsBatch
<1>7. CASE FailCheck(c)
  <2>1. /\ \A d \in Check \ {c} : chk'[d] = chk[d]
        /\ chk'[c].pc \in {"retry", "failed"}
        /\ chk'[c].verdict = "none"
    BY <1>0, <1>7 DEF FailCheck, AfterFailedCheck, NoCheck
  <2>2. manifests # {}
    BY <1>d, <1>7 DEF FailCheck, CheckFindsBatch
  <2> QED
    BY <1>a, <1>b, <2>1, <2>2 DEF CheckFindsBatch
<1> QED
  BY <1>1, <1>2, <1>3, <1>4, <1>5, <1>6, <1>7 DEF CheckStep

LEMMA NextAuditInv ==
    OneFileInPlace /\ TypeInv /\ AuditInv /\ [Next]_vars => AuditInv'
<1> SUFFICES ASSUME OneFileInPlace, TypeInv, AuditInv, [Next]_vars
             PROVE  AuditInv'
  OBVIOUS
<1>1. ASSUME NEW new \in Files, DeliverCsv(new) PROVE AuditInv'
  BY <1>1 DEF DeliverCsv, OneFileInPlace
<1>2. ASSUME NEW i \in Run, IngestStep(i) \/ FailIngest(i) PROVE AuditInv'
  <2>1. faults' = faults
    BY <1>2, IngestTables
  <2> QED
    BY <1>2, <2>1, IngestAuditInv DEF AuditInv
<1>3. ASSUME NEW c \in Check, CheckStep(c) \/ FailCheck(c) PROVE AuditInv'
  <2>1. faults' = faults
    BY <1>3, CheckTypeInv DEF tables
  <2> QED
    BY <1>3, <2>1, CheckAuditInv DEF AuditInv
<1>4. CASE StorageFault
  <2>1. faults \in Nat /\ faults' = faults + 1
    BY <1>4, FaultCounted DEF TypeInv, TypeOK
  <2> QED
    BY <2>1 DEF AuditInv
<1>5. CASE UNCHANGED vars
  BY <1>5 DEF vars, AuditInv, IngestKnowsBatch, CheckFindsBatch, TableIsBatch,
              BatchRoot, Batch
<1> QED
  BY <1>1, <1>2, <1>3, <1>4, <1>5 DEF Next, Finished

\* With one file in place and sound storage no integrity run ever reports a
\* violation, for any number of ingest runs, overlapping, crashing and being
\* retried at any point, and any file (integrity_check.py:82-102).
THEOREM NoFalseAlarmForOneFile ==
    ASSUME OneFileInPlace
    PROVE  Spec => []NoFalseAlarm
<1>1. AuditInv => NoFalseAlarm
  BY DEF AuditInv, NoFalseAlarm, CheckFindsBatch
<1>2. TypeInv /\ AuditInv /\ [Next]_vars => AuditInv'
  BY NextAuditInv
<1> QED
  BY <1>1, <1>2, InitTypeInv, NextTypeInv, InitAuditInv, PTL DEF Spec
-----------------------------------------------------------------------------
(* BronzeAudit implements KeyedStore for ingest runs that do not overlap   *)
(* and sound storage: for any files, delivered at any time, any number of  *)
(* runs and retries, and any checks.                                       *)

OneRunAtATime == MaxActiveRuns = 1
SoundStorage == MaxFaults = 0

-----------------------------------------------------------------------------
(* The inductive invariant. *)

\* A run that has found no table is the only one that can create it.
SoleInv ==
    /\ \A i, j \in Run : Active(i) /\ Active(j) => i = j
    /\ ~exists => DOMAIN bronze = {}
    /\ \A i \in Run : /\ ing[i].pc = "create" => ~exists
                      /\ ing[i].pc = "merge" => exists

\* A row has the content of its line.
StoreInv ==
    /\ SoleInv
    /\ \A r \in DOMAIN bronze : bronze[r].content = ContentOf[r]

\* A run starts from "retry", when it is the active one, or when there is none.
LEMMA StartsAlone ==
    ASSUME OneRunAtATime, TypeInv, SoleInv, NEW i \in Run, StartIngest(i)
    PROVE  \A j \in Run \ {i} : ~Active(j)
<1>1. CASE ing[i].pc = "retry"
  BY <1>1 DEF SoleInv, Active
<1>2. CASE ing[i].pc = "queued"
  <2> SUFFICES ASSUME NEW j \in Run, Active(j) PROVE FALSE
    OBVIOUS
  <2>1. {x \in Run : Active(x)} = {j}
    BY DEF SoleInv
  <2>2. Cardinality({x \in Run : Active(x)}) = 1
    BY <2>1, FS_Singleton
  <2> QED
    BY <1>2, <2>2 DEF StartIngest, OneRunAtATime
<1> QED
  BY <1>1, <1>2 DEF StartIngest

\* A step of a run activates no other run.
LEMMA IngestSoleInv ==
    ASSUME OneRunAtATime, TypeInv, SoleInv, NEW i \in Run,
           IngestStep(i) \/ FailIngest(i)
    PROVE  SoleInv'
<1>1. \E l : ing' = [ing EXCEPT ![i] = l]
  BY DEF IngestStep, FailIngest, StartIngest, MergeBronze, CreateBronze, CountBatch,
         CollectHashes, StampManifest, AppendManifest, FinishIngest
<1>2. \A j \in Run \ {i} : ing'[j] = ing[j] /\ (Active(j)' <=> Active(j))
  BY <1>1 DEF TypeInv, TypeOK, Active
<1>3. \A j \in Run \ {i} : ~Active(j)
  <2>1. StartIngest(i) \/ Active(i)
    BY DEF IngestStep, FailIngest, MergeBronze, CreateBronze, CountBatch,
           CollectHashes, StampManifest, AppendManifest, FinishIngest, Active
  <2> QED
    BY <2>1, StartsAlone DEF SoleInv
<1>4. \A j, k \in Run : Active(j)' /\ Active(k)' => j = k
  BY <1>2, <1>3
<1>5. \A j \in Run \ {i} : ing'[j].pc \notin {"create", "merge"}
  BY <1>2, <1>3 DEF Active
<1>6. CASE MergeBronze(i)
  <2>1. ing'[i].pc = "count" /\ UNCHANGED exists /\ exists
    BY <1>6 DEF MergeBronze, SoleInv, TypeInv, TypeOK
  <2> QED
    BY <1>4, <1>5, <2>1 DEF SoleInv
<1>7. CASE CreateBronze(i)
  <2>1. exists' = TRUE /\ ing'[i].pc = "count"
    BY <1>7 DEF CreateBronze, TypeInv, TypeOK
  <2> QED
    BY <1>4, <1>5, <2>1 DEF SoleInv
<1>8. CASE ~MergeBronze(i) /\ ~CreateBronze(i)
  <2>1. UNCHANGED <<exists, bronze>>
    BY <1>8 DEF IngestStep, FailIngest, StartIngest, CountBatch, CollectHashes,
               StampManifest, AppendManifest, FinishIngest, tables
  <2>2. /\ ing'[i].pc = "create" => ~exists
        /\ ing'[i].pc = "merge" => exists
    <3>1. CASE StartIngest(i)
      BY <3>1 DEF StartIngest, TypeInv, TypeOK
    <3>2. CASE ~StartIngest(i)
      <4>1. ing \in [Run -> IngestState]
        BY DEF TypeInv, TypeOK
      <4>2. CASE FailIngest(i) \/ FinishIngest(i)
        <5>1. \A pc, tries : [NoAttempt EXCEPT !.pc = pc, !.tries = tries].pc = pc
          BY DEF NoAttempt
        <5>2. \E pc \in {"retry", "failed", "done"} : \E tries :
                  ing' = [ing EXCEPT ![i] = [NoAttempt EXCEPT !.pc = pc, !.tries = tries]]
          BY <4>2 DEF FailIngest, FinishIngest
        <5>3. ing'[i].pc \in {"retry", "failed", "done"}
          BY <4>1, <5>1, <5>2
        <5> QED
          BY <5>3
      <4>3. CASE CountBatch(i) \/ CollectHashes(i) \/ StampManifest(i) \/ AppendManifest(i)
        BY <4>1, <4>3 DEF CountBatch, CollectHashes, StampManifest, AppendManifest, IngestState
      <4> QED
        BY <1>8, <3>2, <4>2, <4>3 DEF IngestStep
    <3> QED
      BY <3>1, <3>2
  <2> QED
    BY <1>4, <1>5, <2>1, <2>2 DEF SoleInv
<1> QED
  BY <1>6, <1>7, <1>8

\* Faults leave runs and the table's existence alone, and add no row to an empty
\* table.
LEMMA NextSoleInv ==
    ASSUME OneRunAtATime, TypeInv, SoleInv, [Next]_vars
    PROVE  SoleInv'
<1>1. ASSUME UNCHANGED <<exists, ing>>, DOMAIN bronze = {} => DOMAIN bronze' = {}
      PROVE  SoleInv'
  BY <1>1 DEF SoleInv, Active
<1>2. ASSUME NEW i \in Run, IngestStep(i) \/ FailIngest(i) PROVE SoleInv'
  BY <1>2, IngestSoleInv
<1>3. ASSUME NEW r \in Record, LoseRow(r) PROVE SoleInv'
  BY <1>1, <1>3 DEF LoseRow
<1>4. ASSUME NEW r \in Record, InsertRow(r) PROVE SoleInv'
  BY <1>1, <1>4 DEF InsertRow
<1>8. ASSUME NEW r \in Record, NEW content \in Content, NEW hash \in Hashes,
             ModifyRow(r, content, hash)
      PROVE  SoleInv'
  BY <1>1, <1>8 DEF ModifyRow
<1>5. ASSUME NEW c \in Check, CheckStep(c) \/ FailCheck(c) PROVE SoleInv'
  <2>1. UNCHANGED <<exists, bronze, ing>>
    BY <1>5, CheckTypeInv DEF tables
  <2> QED
    BY <1>1, <2>1
<1>6. ASSUME NEW new \in Files, DeliverCsv(new) PROVE SoleInv'
  BY <1>1, <1>6 DEF DeliverCsv
<1>7. CASE Finished \/ UNCHANGED vars
  BY <1>1, <1>7 DEF Finished, vars
<1> QED
  BY <1>2, <1>3, <1>4, <1>5, <1>6, <1>7, <1>8 DEF Next, StorageFault

LEMMA NoFaults ==
    ASSUME SoundStorage, TypeInv
    PROVE  ~StorageFault
<1>1. ~(faults < MaxFaults)
  BY DEF SoundStorage, TypeInv, TypeOK
<1> QED
  BY <1>1, FaultCounted

LEMMA NextStoreInv ==
    ASSUME OneRunAtATime, SoundStorage, TypeInv, StoreInv, [Next]_vars
    PROVE  StoreInv'
<1>. DEFINE AsLoaded == \A r \in DOMAIN bronze : bronze[r].content = ContentOf[r]
<1>1. SoleInv'
  BY NextSoleInv DEF StoreInv
<1>2. ASSUME UNCHANGED bronze PROVE AsLoaded'
  BY <1>2 DEF StoreInv
<1>3. ASSUME NEW i \in Run, MergeBronze(i) \/ CreateBronze(i) PROVE AsLoaded'
  BY <1>3 DEF MergeBronze, CreateBronze, EnrichedRow, StoreInv
<1>4. (\E i \in Run : MergeBronze(i) \/ CreateBronze(i)) \/ UNCHANGED bronze
  BY CheckTypeInv, NoFaults DEF Next, IngestStep, FailIngest, StartIngest, CountBatch,
     CollectHashes, StampManifest, AppendManifest, FinishIngest, tables, Finished, vars,
     DeliverCsv
<1> QED
  BY <1>1, <1>2, <1>3, <1>4 DEF StoreInv

LEMMA InitStoreInv == Init => StoreInv
<1> SUFFICES ASSUME Init PROVE StoreInv
  OBVIOUS
<1>1. DOMAIN bronze = {}
  BY DEF Init
<1>2. \A i \in Run : ing[i].pc = "queued"
  BY DEF Init, NoAttempt
<1> QED
  BY <1>1, <1>2 DEF Init, StoreInv, SoleInv, Active

-----------------------------------------------------------------------------
(* The refinement. *)

Item == {<<r, ContentOf[r]>> : r \in Record}

\* The items of those of the lines that have key k.
ItemsAt(lines, k) == {<<r, ContentOf[r]>> : r \in {s \in lines : RowKey(s) = k}}

\* The store shows the lines that are in the table.
LEMMA StoreIsLines ==
    ASSUME \A r \in DOMAIN bronze : bronze[r].content = ContentOf[r]
    PROVE  StoreOfKeys = [k \in Key |-> ItemsAt(DOMAIN bronze, k)]
  BY DEF StoreOfKeys, ItemsAt

LEMMA ItemsOfBatch ==
    ASSUME NEW lines \in SUBSET Record, NEW k,
           NEW ItemKey, ItemKey = [x \in Item |-> KeyOf[x[2]]]
    PROVE  {x \in {<<r, ContentOf[r]>> : r \in lines} : ItemKey[x] = k} = ItemsAt(lines, k)
<1>1. \A r \in lines : <<r, ContentOf[r]>> \in Item /\ ItemKey[<<r, ContentOf[r]>>] = RowKey(r)
  BY DEF Item, RowKey
<1> QED
  BY <1>1 DEF ItemsAt

\* A commit adds the lines of a batch whose key is not in the table.
LEMMA LoadRefines ==
    ASSUME StoreInv, StoreInv', NEW lines \in SUBSET Record,
           DOMAIN bronze' = DOMAIN bronze \cup
               {r \in lines : \A s \in DOMAIN bronze : RowKey(s) # RowKey(r)}
    PROVE  KeyedBronze!Next
<1>. DEFINE batch == {<<r, ContentOf[r]>> : r \in lines}
            ItemKey == [x \in Item |-> KeyOf[x[2]]]
<1>1. StoreOfKeys = [k \in Key |-> ItemsAt(DOMAIN bronze, k)]
  BY StoreIsLines DEF StoreInv
<1>2. StoreOfKeys' = [k \in Key |-> ItemsAt(DOMAIN bronze', k)]
  BY DEF StoreInv, StoreOfKeys, ItemsAt
<1>3. ASSUME NEW k \in Key
      PROVE  ItemsAt(DOMAIN bronze', k) =
                 IF ItemsAt(DOMAIN bronze, k) = {} THEN ItemsAt(lines, k)
                 ELSE ItemsAt(DOMAIN bronze, k)
  <2>1. CASE \E s \in DOMAIN bronze : RowKey(s) = k
    <3>1. \A r \in DOMAIN bronze' : RowKey(r) = k => r \in DOMAIN bronze
      BY <2>1
    <3>2. ItemsAt(DOMAIN bronze', k) = ItemsAt(DOMAIN bronze, k)
      BY <3>1 DEF ItemsAt
    <3>3. ItemsAt(DOMAIN bronze, k) # {}
      <4>1. PICK s \in DOMAIN bronze : RowKey(s) = k
        BY <2>1
      <4>2. <<s, ContentOf[s]>> \in ItemsAt(DOMAIN bronze, k)
        BY <4>1 DEF ItemsAt
      <4> QED
        BY <4>2
    <3> QED
      BY <3>2, <3>3
  <2>2. CASE \A s \in DOMAIN bronze : RowKey(s) # k
    <3>1. \A r : RowKey(r) = k => (r \in DOMAIN bronze' <=> r \in lines)
      BY <2>2
    <3>2. ItemsAt(DOMAIN bronze', k) = ItemsAt(lines, k)
      BY <3>1 DEF ItemsAt
    <3>3. ItemsAt(DOMAIN bronze, k) = {}
      BY <2>2 DEF ItemsAt
    <3> QED
      BY <3>2, <3>3
  <2> QED
    BY <2>1, <2>2
<1>4. \A k \in Key : {x \in batch : ItemKey[x] = k} = ItemsAt(lines, k)
  BY ItemsOfBatch
<1>5. StoreOfKeys' = [k \in Key |-> IF StoreOfKeys[k] = {}
                                   THEN {x \in batch : ItemKey[x] = k}
                                   ELSE StoreOfKeys[k]]
  BY <1>1, <1>2, <1>3, <1>4
<1>6. batch \in SUBSET Item
  BY DEF Item
<1> QED
  BY <1>5, <1>6 DEF KeyedBronze!Next, KeyedBronze!LoadBatch, Item

LEMMA StepRefines ==
    ASSUME SoundStorage, TypeInv, StoreInv, StoreInv', [Next]_vars
    PROVE  [KeyedBronze!Next]_StoreOfKeys
<1>1. Batch(csv) \in SUBSET Record
  BY BatchFacts DEF TypeInv, TypeOK
<1>2. ASSUME NEW i \in Run, MergeBronze(i) PROVE KeyedBronze!Next
  BY <1>1, <1>2, LoadRefines DEF MergeBronze, NotMatched
<1>3. ASSUME NEW i \in Run, CreateBronze(i) PROVE KeyedBronze!Next
  <2>1. DOMAIN bronze = {}
    BY <1>3 DEF CreateBronze, StoreInv, SoleInv
  <2>2. DOMAIN bronze' = Batch(csv)
    BY <1>3 DEF CreateBronze
  <2> QED
    BY <1>1, <2>1, <2>2, LoadRefines
<1>4. ASSUME UNCHANGED bronze PROVE UNCHANGED StoreOfKeys
  BY <1>4 DEF StoreOfKeys
<1>5. ASSUME NEW i \in Run, IngestStep(i) \/ FailIngest(i),
             ~MergeBronze(i), ~CreateBronze(i)
      PROVE  UNCHANGED bronze
  BY <1>5 DEF IngestStep, FailIngest, StartIngest, CountBatch, CollectHashes,
              StampManifest, AppendManifest, FinishIngest, tables
<1>6. ASSUME NEW c \in Check, CheckStep(c) \/ FailCheck(c) PROVE UNCHANGED bronze
  BY <1>6, CheckTypeInv DEF tables
<1>7. ~StorageFault
  BY NoFaults
<1>8. CASE Finished \/ UNCHANGED vars \/ \E new \in Files : DeliverCsv(new)
  BY <1>4, <1>8 DEF Finished, vars, DeliverCsv
<1> QED
  BY <1>2, <1>3, <1>4, <1>5, <1>6, <1>7, <1>8 DEF Next

\* Runs of bronze_ingest one at a time keep Bronze a keyed store, although every
\* read of the CSV may see another file and attempts stop anywhere: write_bronze
\* (bronze.py:69-93) loads the new keys of one read whole, and nothing else.
THEOREM BronzeImplementsStore ==
    ASSUME OneRunAtATime, SoundStorage
    PROVE  Spec => BronzeIsKeyedStore
<1>1. Init => KeyedBronze!Init
  <2> SUFFICES ASSUME Init PROVE KeyedBronze!Init
    OBVIOUS
  <2>1. DOMAIN bronze = {}
    BY DEF Init
  <2> QED
    BY <2>1 DEF KeyedBronze!Init, StoreOfKeys
<1>2. TypeInv /\ StoreInv /\ [Next]_vars => StoreInv'
  BY NextStoreInv
<1>3. TypeInv /\ StoreInv /\ StoreInv' /\ [Next]_vars => [KeyedBronze!Next]_StoreOfKeys
  BY StepRefines
<1>4. Spec => KeyedBronze!Spec
  BY <1>1, <1>2, <1>3, InitTypeInv, NextTypeInv, InitStoreInv, PTL
  DEF Spec, KeyedBronze!Spec
<1> QED
  BY <1>4 DEF BronzeIsKeyedStore

-----------------------------------------------------------------------------
\* AlteredStaysAltered: ingest runs that do not overlap never hide what storage
\* did to a row, for any files and any number of faults: the MERGE has no
\* whenMatchedUpdateAll (bronze.py:79-84), and only an absent table is created.
THEOREM AlteredRowsStay == ASSUME OneRunAtATime PROVE Spec => AlteredStaysAltered
<1>. DEFINE Stay == faults' = faults => Altered \subseteq Altered'
<1>1. ASSUME TypeInv, SoleInv, [Next]_vars PROVE [Stay]_vars
  <2>1. ASSUME UNCHANGED bronze PROVE Stay
    BY <2>1 DEF Altered
  <2>2. ASSUME NEW i \in Run, MergeBronze(i) PROVE Stay
    BY <2>2 DEF MergeBronze, Altered
  <2>3. ASSUME NEW i \in Run, CreateBronze(i) PROVE Stay
    BY <1>1, <2>3 DEF CreateBronze, SoleInv, Altered
  <2>4. ASSUME StorageFault PROVE Stay
    <3>1. faults' # faults
      BY <1>1, <2>4, FaultCounted DEF TypeInv, TypeOK
    <3> QED
      BY <3>1
  <2>5. \/ \E i \in Run : MergeBronze(i) \/ CreateBronze(i)
        \/ StorageFault
        \/ UNCHANGED bronze
    BY <1>1, CheckTypeInv DEF Next, IngestStep, FailIngest, StartIngest, CountBatch,
       CollectHashes, StampManifest, AppendManifest, FinishIngest, tables, Finished, vars,
       DeliverCsv
  <2> QED
    BY <2>1, <2>2, <2>3, <2>4, <2>5
<1>2. Init => SoleInv
  BY InitStoreInv DEF StoreInv
<1>3. TypeInv /\ SoleInv /\ [Next]_vars => SoleInv'
  BY NextSoleInv
<1> QED
  BY <1>1, <1>2, <1>3, InitTypeInv, NextTypeInv, PTL DEF Spec, AlteredStaysAltered
=============================================================================
