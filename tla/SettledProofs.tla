---------------------------- MODULE SettledProofs ----------------------------
(***************************************************************************)
(* SettledClean for files that grow between the runs, for any number of    *)
(* runs, lines, contents and files, and any overlap, failures and retries. *)
(***************************************************************************)
EXTENDS CleanVerdictProofs

DeliveredBetweenRuns == MidRunDelivery = FALSE

\* A delivery repeats the old lines, and its other lines have new keys.
FilesGrow ==
    \A d \in Delivery :
        /\ d[1] \subseteq d[2]
        /\ \A r \in Batch(d[2]) \ Batch(d[1]), s \in Batch(d[1]) : RowKey(r) # RowKey(s)

-----------------------------------------------------------------------------
(* The inductive invariant. *)

LinesRoot(lines) == MerkleRoot([r \in lines |-> HashOf[ContentOf[r]]])

\* The rows are lines of the file as they are, and have come with all lines of
\* their key.
RowsOfFile ==
    /\ DOMAIN bronze \subseteq Batch(csv)
    /\ \A r \in DOMAIN bronze : /\ bronze[r].content = ContentOf[r]
                                /\ bronze[r].hash = HashOf[ContentOf[r]]
    /\ \A r \in Batch(csv), s \in DOMAIN bronze : RowKey(r) = RowKey(s) => r \in DOMAIN bronze

\* An attempt past its commit.
RunKnowsFile(i) ==
    /\ ing[i].pc \in {"count", "collect", "stamp", "append"} => DOMAIN bronze = Batch(csv)
    /\ ing[i].pc \in {"stamp", "append"} => ing[i].root = BatchRoot(csv)

\* A manifest is about lines that are still in the file, and one that fits the
\* file fits the table.
ManifestFits(m) ==
    /\ \E lines \in SUBSET Batch(csv) : m.root = LinesRoot(lines)
    /\ m.root = BatchRoot(csv) => DOMAIN bronze = Batch(csv)

SettledInv ==
    faults = 0 =>
        /\ RowsOfFile
        /\ \A i \in Run : RunKnowsFile(i)
        /\ \A m \in manifests : ManifestFits(m)

LEMMA SettledInvSuffices == TypeInv /\ SettledInv => SettledClean
<1> SUFFICES ASSUME TypeInv, SettledInv, faults = 0,
                    NEW m \in manifests, m.root = BatchRoot(csv)
             PROVE  Altered = {} /\ TableRoot = BatchRoot(csv)
  BY DEF SettledClean
<1>1. TableIsBatch
  BY DEF SettledInv, RowsOfFile, ManifestFits, TableIsBatch
<1> QED
  BY <1>1, SoundTable DEF TableIsBatch, Altered

\* A file whose root is that of some lines of the file before has no new key,
\* and so no new line.
LEMMA NewLinesShow ==
    ASSUME FilesGrow, NEW old \in SUBSET Record, NEW new,
           <<old, new>> \in Delivery, NEW lines \in SUBSET Batch(old),
           LinesRoot(lines) = BatchRoot(new)
    PROVE  Batch(new) = Batch(old)
<1>. DEFINE g == [r \in lines |-> HashOf[ContentOf[r]]]
            h == [r \in Batch(new) |-> HashOf[ContentOf[r]]]
<1>1. new \in SUBSET Record /\ Batch(old) \subseteq Batch(new)
  BY FilesAssumption DEF FilesGrow, Batch
<1>2. lines \in SUBSET Record /\ Batch(new) \in SUBSET Record
  BY <1>1, BatchFacts
<1>3. g \in [lines -> Hashes] /\ h \in [Batch(new) -> Hashes]
  BY <1>2, ContentAssumption DEF Hashes
<1>4. MerkleRoot(g) = MerkleRoot(h)
  BY DEF LinesRoot, BatchRoot
<1>. HIDE DEF g, h
<1>5. {g[r] : r \in lines} = {h[r] : r \in Batch(new)}
  <2>1. /\ {g[r] : r \in lines} = {h[r] : r \in Batch(new)}
        /\ \A v \in Hashes, s \in Batch(new) : v < h[s] =>
               Cardinality({r \in lines : g[r] = v}) = Cardinality({r \in Batch(new) : h[r] = v})
    BY <1>2, <1>3, <1>4, EqualRoots
  <2>. QED
    BY <2>1
<1>6. ASSUME NEW r \in Batch(new), r \notin Batch(old) PROVE FALSE
  <2>0. \E s \in lines : h[r] = g[s]
    BY <1>5
  <2>1. PICK s \in lines : HashOf[ContentOf[r]] = HashOf[ContentOf[s]]
    BY <2>0 DEF g, h
  <2>2. /\ ContentOf[r] \in Content /\ NoneMissing(ContentOf[r])
        /\ ContentOf[s] \in Content /\ NoneMissing(ContentOf[s])
        /\ s \in Batch(old)
    BY <1>2, ContentAssumption DEF Batch, Complete
  <2>3. RowKey(r) = RowKey(s)
    BY <2>1, <2>2, HashTellsKey DEF RowKey
  <2>4. RowKey(r) # RowKey(s)
    BY <1>6, <2>2 DEF FilesGrow
  <2> QED
    BY <2>3, <2>4
<1> QED
  BY <1>1, <1>6

LEMMA DeliverySettled ==
    ASSUME DeliveredBetweenRuns, FilesGrow, TypeInv, SettledInv,
           NEW new, DeliverCsv(new)
    PROVE  SettledInv'
<1>1. /\ <<csv, new>> \in Delivery /\ csv' = new /\ csv \in SUBSET Record
      /\ UNCHANGED <<bronze, manifests, ing, faults>>
      /\ \A i \in Run : ~Active(i)
  BY DEF DeliverCsv, DeliveredBetweenRuns, TypeInv, TypeOK
<1>2. /\ Batch(csv) \subseteq Batch(new)
      /\ \A r \in Batch(new) \ Batch(csv), s \in Batch(csv) : RowKey(r) # RowKey(s)
  BY <1>1 DEF FilesGrow, Batch
<1> SUFFICES ASSUME faults = 0
             PROVE  /\ RowsOfFile'
                    /\ \A i \in Run : RunKnowsFile(i)'
                    /\ \A m \in manifests : ManifestFits(m)'
  BY <1>1 DEF SettledInv
<1>3. RowsOfFile'
  BY <1>1, <1>2 DEF SettledInv, RowsOfFile
<1>4. \A i \in Run : RunKnowsFile(i)'
  BY <1>1 DEF RunKnowsFile, Active
<1>5. ASSUME NEW m \in manifests PROVE ManifestFits(m)'
  <2>1. PICK lines \in SUBSET Batch(csv) : m.root = LinesRoot(lines)
    BY DEF SettledInv, ManifestFits
  <2>2. lines \in SUBSET Batch(csv)'
    BY <1>1, <1>2
  <2>3. ASSUME m.root = BatchRoot(new) PROVE DOMAIN bronze = Batch(new)
    <3>1. Batch(new) = Batch(csv)
      BY <1>1, <2>1, <2>3, NewLinesShow
    <3>2. m.root = BatchRoot(csv)
      BY <2>3, <3>1 DEF BatchRoot
    <3> QED
      BY <3>1, <3>2 DEF SettledInv, ManifestFits
  <2> QED
    BY <1>1, <2>1, <2>2, <2>3 DEF ManifestFits
<1> QED
  BY <1>3, <1>4, <1>5

\* A commit of either kind leaves the batch in the table.
LEMMA CommitSettled ==
    ASSUME TypeInv, SettledInv, NEW i \in Run, MergeBronze(i) \/ CreateBronze(i), faults = 0
    PROVE  RowsOfFile' /\ DOMAIN bronze' = Batch(csv)
<1>1. RowsOfFile /\ UNCHANGED csv
  BY DEF SettledInv, MergeBronze, CreateBronze
<1>2. CASE MergeBronze(i)
  <2>1. /\ DOMAIN bronze' = DOMAIN bronze \cup NotMatched(csv)
        /\ \A r \in DOMAIN bronze' : bronze'[r] = IF r \in DOMAIN bronze THEN bronze[r]
                                                 ELSE EnrichedRow(r, clock')
    BY <1>2 DEF MergeBronze
  <2>2. DOMAIN bronze' = Batch(csv)
    BY <1>1, <2>1 DEF RowsOfFile, NotMatched
  <2>3. \A r \in DOMAIN bronze' : /\ bronze'[r].content = ContentOf[r]
                                  /\ bronze'[r].hash = HashOf[ContentOf[r]]
    <3>1. \A r : /\ EnrichedRow(r, clock').content = ContentOf[r]
                 /\ EnrichedRow(r, clock').hash = HashOf[ContentOf[r]]
      BY DEF EnrichedRow
    <3> QED
      BY <1>1, <2>1, <3>1 DEF RowsOfFile
  <2> QED
    BY <1>1, <2>2, <2>3 DEF RowsOfFile
<1>3. CASE CreateBronze(i)
  <2>1. /\ DOMAIN bronze' = Batch(csv)
        /\ \A r \in DOMAIN bronze' : bronze'[r] = EnrichedRow(r, clock')
    BY <1>3 DEF CreateBronze
  <2> QED
    BY <1>1, <2>1 DEF RowsOfFile, EnrichedRow
<1> QED
  BY <1>2, <1>3

LEMMA IngestSettled ==
    ASSUME TypeInv, SettledInv, NEW i \in Run, IngestStep(i) \/ FailIngest(i)
    PROVE  SettledInv'
<1>0. /\ ing \in [Run -> IngestState] /\ csv \in SUBSET Record
      /\ UNCHANGED <<csv, faults>>
  BY IngestTables DEF TypeInv, TypeOK
<1>1. BatchRoot(csv)' = BatchRoot(csv) /\ Batch(csv)' = Batch(csv)
  BY <1>0 DEF BatchRoot, Batch
<1> SUFFICES ASSUME faults = 0
             PROVE  /\ RowsOfFile'
                    /\ \A j \in Run : RunKnowsFile(j)'
                    /\ \A m \in manifests' : ManifestFits(m)'
  BY <1>0 DEF SettledInv
<1>2. RowsOfFile /\ (\A j \in Run : RunKnowsFile(j)) /\ (\A m \in manifests : ManifestFits(m))
  BY DEF SettledInv
<1>3. CASE MergeBronze(i) \/ CreateBronze(i)
  <2>1. RowsOfFile' /\ DOMAIN bronze' = Batch(csv)
    BY <1>3, CommitSettled
  <2>2. UNCHANGED manifests /\ ing' = [ing EXCEPT ![i].pc = "count"]
    BY <1>3 DEF MergeBronze, CreateBronze
  <2>3. ASSUME NEW j \in Run PROVE RunKnowsFile(j)'
    <3>1. ing'[j].pc \in {"stamp", "append"} => ing'[j] = ing[j]
      BY <1>0, <2>2 DEF IngestState
    <3> QED
      BY <1>1, <1>2, <2>1, <3>1 DEF RunKnowsFile
  <2>4. \A m \in manifests : ManifestFits(m)'
    BY <1>0, <1>1, <1>2, <2>1 DEF ManifestFits
  <2> QED
    BY <2>1, <2>2, <2>3, <2>4
<1>4. ASSUME UNCHANGED bronze,
             NEW l \in IngestState, ing' = [ing EXCEPT ![i] = l],
             l.pc \in {"count", "collect", "stamp", "append"} =>
                 ing[i].pc \in {"count", "collect", "stamp", "append"},
             l.pc \in {"stamp", "append"} => l.root = BatchRoot(csv)
      PROVE  RowsOfFile' /\ \A j \in Run : RunKnowsFile(j)'
  <2>1. RowsOfFile'
    BY <1>0, <1>1, <1>2, <1>4 DEF RowsOfFile
  <2>2. ASSUME NEW j \in Run PROVE RunKnowsFile(j)'
    <3>1. CASE j = i
      BY <1>0, <1>1, <1>2, <1>4, <3>1 DEF RunKnowsFile
    <3>2. CASE j # i
      BY <1>0, <1>1, <1>2, <1>4, <3>2 DEF RunKnowsFile
    <3> QED
      BY <3>1, <3>2
  <2> QED
    BY <2>1, <2>2
<1>5. ASSUME UNCHANGED <<bronze, manifests>> PROVE \A m \in manifests' : ManifestFits(m)'
  BY <1>0, <1>1, <1>2, <1>5 DEF ManifestFits
<1>6. CASE AppendManifest(i)
  <2>1. /\ UNCHANGED bronze /\ ing[i].pc = "append"
        /\ ing' = [ing EXCEPT ![i] = [ing[i] EXCEPT !.pc = "push"]]
    BY <1>6 DEF AppendManifest
  <2>2. RowsOfFile' /\ \A j \in Run : RunKnowsFile(j)'
    <3>1. ing[i] \in IngestState
      BY <1>0
    <3>2. [ing[i] EXCEPT !.pc = "push"] \in IngestState
      BY <3>1 DEF IngestState, IngestPC
    <3> QED
      BY <1>4, <2>1, <3>1, <3>2 DEF IngestState
  <2>3. DOMAIN bronze = Batch(csv) /\ ing[i].root = BatchRoot(csv)
    BY <1>2, <2>1 DEF RunKnowsFile
  <2>4. BatchRoot(csv) = LinesRoot(Batch(csv))
    BY DEF BatchRoot, LinesRoot
  <2>5. ASSUME NEW m \in manifests' PROVE ManifestFits(m)'
    <3>1. m \in manifests \/ m.root = ing[i].root
      BY <1>6 DEF AppendManifest
    <3> QED
      BY <1>0, <1>1, <1>2, <2>1, <2>3, <2>4, <3>1 DEF ManifestFits
  <2> QED
    BY <2>2, <2>5
<1>7. CASE CollectHashes(i)
  <2>1. /\ UNCHANGED <<bronze, manifests>> /\ ing[i].pc = "collect"
        /\ ing' = [ing EXCEPT ![i] = [ing[i] EXCEPT !.pc = "stamp", !.root = BatchRoot(csv)]]
    BY <1>7 DEF CollectHashes, tables
  <2>2. /\ ing[i] \in IngestState
        /\ BatchRoot(csv) \in Roots
    BY <1>0, BatchRootType
  <2>3. [ing[i] EXCEPT !.pc = "stamp", !.root = BatchRoot(csv)] \in IngestState
    BY <2>2 DEF IngestState, IngestPC
  <2>4. [ing[i] EXCEPT !.pc = "stamp", !.root = BatchRoot(csv)].root = BatchRoot(csv)
    BY <2>2 DEF IngestState
  <2> QED
    BY <1>4, <1>5, <2>1, <2>3, <2>4
<1>8. CASE CountBatch(i) \/ StampManifest(i)
  <2>1. /\ UNCHANGED <<bronze, manifests>>
        /\ ing[i].pc \in {"count", "stamp"}
        /\ ing[i].pc = "stamp" => ing'[i].root = ing[i].root
        /\ ing[i].pc = "count" => ing'[i].pc = "collect"
        /\ \A j \in Run \ {i} : ing'[j] = ing[j]
    BY <1>0, <1>8 DEF CountBatch, StampManifest, tables, IngestState
  <2>2. ing'[i] \in IngestState /\ ing' = [ing EXCEPT ![i] = ing'[i]]
    BY <1>0, <1>8, IngestTypeInv DEF CountBatch, StampManifest
  <2>3. ing[i].pc = "stamp" => ing[i].root = BatchRoot(csv)
    BY <1>2 DEF RunKnowsFile
  <2> QED
    BY <1>4, <1>5, <2>1, <2>2, <2>3
<1>9. CASE StartIngest(i) \/ FinishIngest(i) \/ FailIngest(i)
  <2>1. UNCHANGED <<bronze, manifests>>
    BY <1>9 DEF StartIngest, FinishIngest, FailIngest, tables
  <2>2. ing' \in [Run -> IngestState] /\ \E l : ing' = [ing EXCEPT ![i] = l]
    BY <1>9, IngestTypeInv DEF StartIngest, FinishIngest, FailIngest
  <2>3. ing'[i].pc \notin {"count", "collect", "stamp", "append"}
    <3>1. CASE StartIngest(i)
      BY <1>0, <3>1 DEF StartIngest
    <3>2. CASE FinishIngest(i) \/ FailIngest(i)
      <4>1. \A pc, tries : [NoAttempt EXCEPT !.pc = pc, !.tries = tries].pc = pc
        BY DEF NoAttempt
      <4>2. \E pc \in {"retry", "failed", "done"} : \E tries :
                ing' = [ing EXCEPT ![i] = [NoAttempt EXCEPT !.pc = pc, !.tries = tries]]
        BY <3>2 DEF FailIngest, FinishIngest
      <4>3. ing'[i].pc \in {"retry", "failed", "done"}
        BY <1>0, <4>1, <4>2
      <4> QED
        BY <4>3
    <3> QED
      BY <1>9, <3>1, <3>2
  <2>4. ing' = [ing EXCEPT ![i] = ing'[i]]
    BY <1>0, <2>2
  <2> QED
    BY <1>4, <1>5, <2>1, <2>2, <2>3, <2>4
<1> QED
  BY <1>3, <1>6, <1>7, <1>8, <1>9 DEF IngestStep

LEMMA NextSettled ==
    ASSUME DeliveredBetweenRuns, FilesGrow, TypeInv, SettledInv, [Next]_vars
    PROVE  SettledInv'
<1>1. ASSUME UNCHANGED <<csv, bronze, manifests, ing, faults>> PROVE SettledInv'
  BY <1>1 DEF SettledInv, RowsOfFile, RunKnowsFile, ManifestFits, BatchRoot, Batch
<1>2. ASSUME NEW new \in Files, DeliverCsv(new) PROVE SettledInv'
  BY <1>2, DeliverySettled
<1>3. ASSUME NEW i \in Run, IngestStep(i) \/ FailIngest(i) PROVE SettledInv'
  BY <1>3, IngestSettled
<1>4. ASSUME NEW c \in Check, CheckStep(c) \/ FailCheck(c) PROVE SettledInv'
  BY <1>1, <1>4, CheckTypeInv DEF tables
<1>5. ASSUME StorageFault PROVE SettledInv'
  <2>1. faults' # 0
    BY <1>5, FaultCounted DEF TypeInv, TypeOK
  <2> QED
    BY <2>1 DEF SettledInv
<1>6. CASE Finished \/ UNCHANGED vars
  BY <1>1, <1>6 DEF Finished, vars
<1> QED
  BY <1>2, <1>3, <1>4, <1>5, <1>6 DEF Next

\* SettledClean: if files grow by new keys between the runs, then however runs
\* overlap and fail, a table whose newest manifest is that of the file in place
\* verifies (run_bronze, bronze.py:110-116).
THEOREM SettledTablesVerify ==
    ASSUME DeliveredBetweenRuns, FilesGrow
    PROVE  Spec => []SettledClean
<1>1. Init => SettledInv
  <2> SUFFICES ASSUME Init PROVE SettledInv
    OBVIOUS
  <2>1. DOMAIN bronze = {}
    BY DEF Init
  <2>2. \A i \in Run : ing[i].pc = "queued"
    BY DEF Init, NoAttempt
  <2> QED
    BY <2>1, <2>2 DEF Init, SettledInv, RowsOfFile, RunKnowsFile
<1>2. TypeInv /\ SettledInv /\ [Next]_vars => SettledInv'
  BY NextSettled
<1> QED
  BY <1>1, <1>2, SettledInvSuffices, InitTypeInv, NextTypeInv, PTL DEF Spec
=============================================================================
