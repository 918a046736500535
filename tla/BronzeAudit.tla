----------------------------- MODULE BronzeAudit -----------------------------
(***************************************************************************)
(* The Bronze table, its audit manifests, the runs of the bronze_ingest    *)
(* DAG that write both (src/transformations/bronze.py, dags/              *)
(* bronze_ingest.py) and the runs of the integrity_check DAG that compare  *)
(* them (src/security/audit.py, dags/integrity_check.py).                  *)
(*                                                                         *)
(* Spark evaluates lazily: the data frame of run_bronze is recomputed from *)
(* the CSV by the write, by count() and by collect(), so these are three   *)
(* reads of the file.  In the same way the two halves of                   *)
(* verify_bronze_integrity are two reads of the Delta table.  A Delta      *)
(* commit is atomic; one that loses to a concurrent commit raises and is a *)
(* failed attempt.                                                         *)
(***************************************************************************)
EXTENDS Merkle, RowHash

CONSTANTS
    Run,            \* runs of bronze_ingest
    Check,          \* runs of integrity_check
    Record,         \* lines that the CSV files contain
    Content,        \* values of the financial columns of a line
    ContentOf,      \* the content of each line; lines may be equal
    Digest(_),      \* sha2 of a text
    FirstFile,      \* files (sets of lines) that may be there at the start
    Delivery,       \* pairs <<old, new>>: old may be replaced by new
    MidRunDelivery, \* may a file be delivered while a run is active?
    MaxActiveRuns,  \* ingest runs that overlap at most
    IngestRetries,  \* retries of ingest_csv_to_bronze
    CheckRetries,   \* retries of verify_bronze_integrity
    MaxFaults,      \* bound: storage faults
    ReadErrors      \* may reading the manifest table raise?

Files == FirstFile \cup {d[1] : d \in Delivery} \cup {d[2] : d \in Delivery}

\* sha2 of the content columns, and what row_key is the sha2 of: contents may
\* share a key, and those with the same text a hash.
HashOf == [c \in Content |-> Digest(RowText(c))]
KeyOf == [c \in Content |-> KeyText(c)]
Key == {KeyOf[c] : c \in Content}

\* Contents, and lines, that dropna leaves.
NoneMissing(content) == \A i \in Mandatory : content[i] # Null
Complete == {r \in Record : NoneMissing(ContentOf[r])}

ASSUME ColumnsAssumption == \A c \in Content : c = [i \in Columns |-> c[i]]
ASSUME ContentAssumption ==
    /\ ContentOf \in [Record -> Content]
    /\ HashOf \in [Content -> Nat]
ASSUME DigestAssumption ==
    \A c, d \in Content : HashOf[c] = HashOf[d] => RowText(c) = RowText(d)
ASSUME FilesAssumption ==
    /\ FirstFile \subseteq SUBSET Record
    /\ Delivery \subseteq (SUBSET Record) \X (SUBSET Record)
    /\ IsFiniteSet(Record)
ASSUME FlagsAssumption == MidRunDelivery \in BOOLEAN /\ ReadErrors \in BOOLEAN
ASSUME BoundsAssumption ==
    /\ MaxActiveRuns \in Nat
    /\ IngestRetries \in Nat
    /\ CheckRetries \in Nat
    /\ MaxFaults \in Nat

VARIABLES
    csv,        \* the file at RAW_CSV_PATH
    exists,     \* isDeltaTable(BRONZE_PATH)
    bronze,     \* the rows of the Bronze table, by the line they came from
    manifests,  \* the records of _audit/manifests with layer = "bronze"
    clock,      \* time: one tick per Bronze commit and per recorded_at
    ing,        \* the ingest runs
    chk,        \* the integrity runs
    faults      \* storage faults so far

vars == <<csv, exists, bronze, manifests, clock, ing, chk, faults>>
tables == <<csv, exists, bronze, manifests, clock, faults>>

-----------------------------------------------------------------------------
IngestPC == {"queued", "merge", "create", "count", "collect", "stamp",
             "append", "push", "retry", "done", "failed"}
CheckPC == {"waiting", "rows", "root", "manifest", "retry", "done", "failed"}

Hashes == {HashOf[c] : c \in Content}
Roots == {MerkleRoot(h) : h \in UNION {[rows -> Hashes] : rows \in SUBSET Record}}

Row == [content : Content, hash : Hashes, ts : Nat]
Manifest == [at : Nat, count : Nat, root : Roots]
IngestState == [pc : IngestPC, tries : 0 .. IngestRetries + 1, count : Nat,
                root : Roots, at : Nat]
CheckState == [pc : CheckPC, tries : 0 .. CheckRetries + 1, tampered : Nat,
               root : Roots, match : BOOLEAN,
               verdict : {"none", "clean", "violation"}, since : Nat]

\* Columns of bronze, of a batch line r written at time t.
EnrichedRow(r, t) ==
    [content |-> ContentOf[r], hash |-> HashOf[ContentOf[r]], ts |-> t]

\* read_raw_csv: the lines left after dropna.
Batch(file) == file \cap Complete
RowKey(r) == KeyOf[ContentOf[r]]

BatchRoot(file) == MerkleRoot([r \in Batch(file) |-> HashOf[ContentOf[r]]])
TableRoot == MerkleRoot([r \in DOMAIN bronze |-> bronze[r].hash])

\* Check 1: rows whose stored hash is not that of their content.
Altered == {r \in DOMAIN bronze : HashOf[bronze[r].content] # bronze[r].hash}

Active(i) == ing[i].pc \notin {"queued", "done", "failed"}

\* The locals of an attempt; they are gone when it ends.
NoAttempt == [pc |-> "queued", tries |-> 0, count |-> 0, root |-> NoRoot, at |-> 0]
NoCheck == [pc |-> "waiting", tries |-> 0, tampered |-> 0, root |-> NoRoot,
            match |-> FALSE, verdict |-> "none", since |-> 0]

Init ==
    /\ csv \in FirstFile
    /\ exists = FALSE
    /\ bronze = <<>>
    /\ manifests = {}
    /\ clock = 0
    /\ ing = [i \in Run |-> NoAttempt]
    /\ chk = [c \in Check |-> NoCheck]
    /\ faults = 0

-----------------------------------------------------------------------------
(* The file is replaced by a later delivery. *)
DeliverCsv(new) ==
    /\ <<csv, new>> \in Delivery
    /\ MidRunDelivery \/ \A i \in Run : ~Active(i)
    /\ csv' = new
    /\ UNCHANGED <<exists, bronze, manifests, clock, ing, chk, faults>>

-----------------------------------------------------------------------------
(* One attempt of ingest_csv_to_bronze: run_bronze. *)

\* The attempt starts and write_bronze asks isDeltaTable.
StartIngest(i) ==
    /\ \/ ing[i].pc = "retry"
       \/ /\ ing[i].pc = "queued"
          /\ Cardinality({j \in Run : Active(j)}) < MaxActiveRuns
    /\ ing' = [ing EXCEPT ![i].pc = IF exists THEN "merge" ELSE "create",
                          ![i].tries = @ + 1]
    /\ UNCHANGED <<tables, chk>>

\* Mutant of NotMatched: the MERGE matches whole lines instead of row_key.
NotMatchedByLine(file) == Batch(file) \ DOMAIN bronze

\* Mutant of NotMatched: whenNotMatchedInsertAll is missing.
NoneInserted(file) == {}

\* Lines of the file that the MERGE inserts: their key is not in the table.
NotMatched(file) ==
    {r \in Batch(file) : \A s \in DOMAIN bronze : RowKey(s) # RowKey(r)}

\* Mutant of MergeBronze: whenMatchedUpdateAll as in the Silver layer.
MergeUpdatesBronze(i) ==
    /\ ing[i].pc = "merge"
    /\ clock' = clock + 1
    /\ bronze' = [r \in DOMAIN bronze \cup NotMatched(csv) |->
                     IF r \in Batch(csv) THEN EnrichedRow(r, clock')
                     ELSE bronze[r]]
    /\ ing' = [ing EXCEPT ![i].pc = "count"]
    /\ UNCHANGED <<csv, exists, manifests, chk, faults>>

MergeBronze(i) ==
    /\ ing[i].pc = "merge"
    /\ clock' = clock + 1
    /\ bronze' = [r \in DOMAIN bronze \cup NotMatched(csv) |->
                     IF r \in DOMAIN bronze THEN bronze[r]
                     ELSE EnrichedRow(r, clock')]
    /\ ing' = [ing EXCEPT ![i].pc = "count"]
    /\ UNCHANGED <<csv, exists, manifests, chk, faults>>

\* mode("overwrite"): whatever the table holds by now is replaced.
CreateBronze(i) ==
    /\ ing[i].pc = "create"
    /\ clock' = clock + 1
    /\ exists' = TRUE
    /\ bronze' = [r \in Batch(csv) |-> EnrichedRow(r, clock')]
    /\ ing' = [ing EXCEPT ![i].pc = "count"]
    /\ UNCHANGED <<csv, manifests, chk, faults>>

\* df_enriched.count(): a second read of the file.
CountBatch(i) ==
    /\ ing[i].pc = "count"
    /\ ing' = [ing EXCEPT ![i].pc = "collect",
                          ![i].count = Cardinality(Batch(csv))]
    /\ UNCHANGED <<tables, chk>>

\* Mutant of CollectHashes: the hashes of the raw file, without dropna.
CollectRawHashes(i) ==
    /\ ing[i].pc = "collect"
    /\ ing' = [ing EXCEPT ![i].pc = "stamp",
                  ![i].root = MerkleRoot([r \in csv |-> HashOf[ContentOf[r]]])]
    /\ UNCHANGED <<tables, chk>>

\* df_enriched.select("row_hash").collect(): a third read, and the root.
CollectHashes(i) ==
    /\ ing[i].pc = "collect"
    /\ ing' = [ing EXCEPT ![i].pc = "stamp", ![i].root = BatchRoot(csv)]
    /\ UNCHANGED <<tables, chk>>

\* write_manifest takes recorded_at from the clock ...
StampManifest(i) ==
    /\ ing[i].pc = "stamp"
    /\ clock' = clock + 1
    /\ ing' = [ing EXCEPT ![i].pc = "append", ![i].at = clock']
    /\ UNCHANGED <<csv, exists, bronze, manifests, chk, faults>>

\* ... and appends the record.
AppendManifest(i) ==
    /\ ing[i].pc = "append"
    /\ manifests' = manifests \cup
           {[at |-> ing[i].at, count |-> ing[i].count, root |-> ing[i].root]}
    /\ ing' = [ing EXCEPT ![i].pc = "push"]
    /\ UNCHANGED <<csv, exists, bronze, clock, chk, faults>>

\* run_bronze has returned count; the task pushes it and stops Spark.
FinishIngest(i) ==
    /\ ing[i].pc = "push"
    /\ ing' = [ing EXCEPT ![i] = [NoAttempt EXCEPT !.pc = "done", !.tries = ing[i].tries]]
    /\ UNCHANGED <<tables, chk>>

\* Mutant of FailIngest: one retry too many.
FailIngestLate(i) ==
    /\ Active(i) /\ ing[i].pc # "retry"
    /\ ing' = [ing EXCEPT ![i] =
                  [NoAttempt EXCEPT !.pc = IF ing[i].tries <= IngestRetries + 1
                                           THEN "retry" ELSE "failed",
                                    !.tries = ing[i].tries]]
    /\ UNCHANGED <<tables, chk>>

\* An exception or the loss of the worker anywhere in the attempt.
FailIngest(i) ==
    /\ Active(i) /\ ing[i].pc # "retry"
    /\ ing' = [ing EXCEPT ![i] =
                  [NoAttempt EXCEPT !.pc = IF ing[i].tries <= IngestRetries
                                           THEN "retry" ELSE "failed",
                                    !.tries = ing[i].tries]]
    /\ UNCHANGED <<tables, chk>>

IngestStep(i) ==
    \/ StartIngest(i) \/ MergeBronze(i) \/ CreateBronze(i) \/ CountBatch(i)
    \/ CollectHashes(i) \/ StampManifest(i) \/ AppendManifest(i) \/ FinishIngest(i)

-----------------------------------------------------------------------------
(* A run of integrity_check: the sensor, then verify_bronze_integrity. *)

\* Mutant of StartCheck: attempts are not counted.
StartCheckUncounted(c) ==
    /\ \/ chk[c].pc = "waiting" /\ manifests # {}
       \/ chk[c].pc = "retry"
    /\ chk' = [chk EXCEPT ![c] = [NoCheck EXCEPT !.pc = "rows", !.since = faults]]
    /\ UNCHANGED <<tables, ing>>

\* The sensor finds the manifest table, or the task is retried.
StartCheck(c) ==
    /\ \/ chk[c].pc = "waiting" /\ manifests # {}
       \/ chk[c].pc = "retry"
    /\ chk' = [chk EXCEPT ![c] = [NoCheck EXCEPT !.pc = "rows",
                                     !.tries = chk[c].tries + 1,
                                     !.since = faults]]
    /\ UNCHANGED <<tables, ing>>

\* The sensor gives up after its timeout.
SensorTimeout(c) ==
    /\ chk[c].pc = "waiting"
    /\ manifests = {}
    /\ chk' = [chk EXCEPT ![c].pc = "failed"]
    /\ UNCHANGED <<tables, ing>>

VerifyRows(c) ==
    /\ chk[c].pc = "rows"
    /\ chk' = [chk EXCEPT ![c].pc = "root", ![c].tampered = Cardinality(Altered)]
    /\ UNCHANGED <<tables, ing>>

RebuildRoot(c) ==
    /\ chk[c].pc = "root"
    /\ chk' = [chk EXCEPT ![c].pc = "manifest", ![c].root = TableRoot]
    /\ UNCHANGED <<tables, ing>>

\* The pc after an attempt that raised.
AfterFailedCheck(c) == IF chk[c].tries <= CheckRetries THEN "retry" ELSE "failed"

\* merkle_match, then clean; a task that is not clean raises.
Conclude(c, match) ==
    LET clean == chk[c].tampered = 0 /\ match
    IN  /\ chk' = [chk EXCEPT ![c].match = match,
                       ![c].verdict = IF clean THEN "clean" ELSE "violation",
                       ![c].pc = IF clean THEN "done" ELSE AfterFailedCheck(c)]
        /\ UNCHANGED <<tables, ing>>

\* latest_manifest: the record with the largest recorded_at.
CompareRoot(c) ==
    /\ chk[c].pc = "manifest"
    /\ \E m \in manifests :
        /\ \A other \in manifests : other.at <= m.at
        /\ Conclude(c, chk[c].root = m.root)

\* latest_manifest finds no record, or an exception is swallowed: None.
NoManifest(c) ==
    /\ chk[c].pc = "manifest"
    /\ manifests = {} \/ ReadErrors
    /\ Conclude(c, FALSE)

FailCheck(c) ==
    /\ chk[c].pc \in {"rows", "root", "manifest"}
    /\ chk' = [chk EXCEPT ![c] = [NoCheck EXCEPT !.pc = AfterFailedCheck(c),
                                     !.tries = chk[c].tries]]
    /\ UNCHANGED <<tables, ing>>

CheckStep(c) ==
    \/ StartCheck(c) \/ SensorTimeout(c) \/ VerifyRows(c) \/ RebuildRoot(c)
    \/ CompareRoot(c) \/ NoManifest(c)

-----------------------------------------------------------------------------
(* Storage: files of the table change behind the back of the runs.  What     *)
(* changes a row_hash knows how it is made: the new one is that of some row    *)
(* with the row_key of the old one.                                            *)

HashesWithKey(k) == {HashOf[x] : x \in {d \in Content : KeyOf[d] = k /\ NoneMissing(d)}}

\* The content columns of a row change, or its row_hash, or both.
ModifyRow(r, content, hash) ==
    /\ faults < MaxFaults
    /\ r \in DOMAIN bronze
    /\ hash \in {bronze[r].hash} \cup HashesWithKey(RowKey(r))
    /\ <<content, hash>> # <<bronze[r].content, bronze[r].hash>>
    /\ bronze' = [bronze EXCEPT ![r].content = content, ![r].hash = hash]
    /\ faults' = faults + 1
    /\ UNCHANGED <<csv, exists, manifests, clock, ing, chk>>

\* A row is gone.
LoseRow(r) ==
    /\ faults < MaxFaults
    /\ r \in DOMAIN bronze
    /\ bronze' = [s \in DOMAIN bronze \ {r} |-> bronze[s]]
    /\ faults' = faults + 1
    /\ UNCHANGED <<csv, exists, manifests, clock, ing, chk>>

\* There is a row that no ingest run has written: it has the ingest_ts of a row
\* of the table, that of its row_key if there is one.
InsertRow(r) ==
    /\ faults < MaxFaults
    /\ r \in Complete \ DOMAIN bronze
    /\ \E t \in {bronze[s].ts : s \in DOMAIN bronze} :
        /\ \A s \in DOMAIN bronze : RowKey(s) = RowKey(r) => bronze[s].ts = t
        /\ bronze' = [s \in DOMAIN bronze \cup {r} |->
                         IF s = r THEN EnrichedRow(r, t) ELSE bronze[s]]
    /\ faults' = faults + 1
    /\ UNCHANGED <<csv, exists, manifests, clock, ing, chk>>

StorageFault ==
    \E r \in Record :
        \/ LoseRow(r)
        \/ InsertRow(r)
        \/ \E content \in Content, hash \in Hashes : ModifyRow(r, content, hash)

-----------------------------------------------------------------------------
Finished ==
    /\ \A i \in Run : ing[i].pc \in {"done", "failed"}
    /\ \A c \in Check : chk[c].pc \in {"done", "failed"}
    /\ UNCHANGED vars

Next ==
    \/ \E new \in Files : DeliverCsv(new)
    \/ \E i \in Run : IngestStep(i) \/ FailIngest(i)
    \/ \E c \in Check : CheckStep(c) \/ FailCheck(c)
    \/ StorageFault
    \/ Finished

Spec == Init /\ [][Next]_vars

\* The scheduler starts what is queued or up for retry and a started task goes
\* on; sensors poke and time out.  Nothing makes a failure, a delivery or a
\* fault happen.
Fairness ==
    /\ \A i \in Run : WF_vars(IngestStep(i))
    /\ \A c \in Check : WF_vars(CheckStep(c))

FairSpec == Spec /\ Fairness
-----------------------------------------------------------------------------
\* The tables, the clock and the two kinds of run have their types; a run has
\* no more attempts than its retries allow.
TypeOK ==
    /\ csv \in SUBSET Record
    /\ exists \in BOOLEAN
    /\ DOMAIN bronze \in SUBSET Record
    /\ bronze \in [DOMAIN bronze -> Row]
    /\ manifests \in SUBSET Manifest
    /\ clock \in Nat
    /\ ing \in [Run -> IngestState]
    /\ chk \in [Check -> CheckState]
    /\ faults \in Nat

\* As long as storage is sound no integrity run reports a violation, however
\* ingest runs overlap, crash between the Bronze write and the manifest, or
\* are retried: integrity_check.py:82-102 pages people.
NoFalseAlarm ==
    faults = 0 => \A c \in Check : chk[c].verdict # "violation"

\* All rows with one row_key come from one commit, so they share ingest_ts:
\* the insert-only MERGE (bronze.py:79-86) never adds a row next to an older
\* row of its key, however runs overlap.  silver.deduplicate, which keeps the
\* latest ingest_ts of a key, therefore never has two timestamps to choose from.
OneCommitPerKey ==
    \A r, s \in DOMAIN bronze :
        RowKey(r) = RowKey(s) => bronze[r].ts = bronze[s].ts

\* A clean verdict, with no storage fault since the check began to read, means
\* that the table has the rows of the file: every text is there exactly as often
\* as in the file, none is there that the file does not have, and a row without
\* a NULL is one of the file.  Only of the text with the greatest hash all that
\* is known is that it is there: the padding of the tree hides the number of its
\* rows (audit.py:97-103).  And of contents with one text, which have NULLs, it
\* may be another that is there (concat_ws, audit.py:79).  For one file, never
\* replaced, and whatever storage did before; ingest runs may overlap with the
\* check.
CleanMeansSameRows ==
    LET rows(v) == {r \in DOMAIN bronze : HashOf[bronze[r].content] = v}
        lines(v) == {r \in Batch(csv) : HashOf[ContentOf[r]] = v}
        stored == {bronze[r].content : r \in DOMAIN bronze}
        loaded == {ContentOf[r] : r \in Batch(csv)}
    IN  \A c \in Check :
            chk[c].verdict = "clean" /\ chk[c].since = faults =>
                /\ \A v \in Hashes : rows(v) = {} <=> lines(v) = {}
                /\ \A v, greater \in Hashes : v < greater /\ lines(greater) # {} =>
                        Cardinality(rows(v)) = Cardinality(lines(v))
                /\ {x \in stored : ~HasNull(x)} = {x \in loaded : ~HasNull(x)}

\* When no ingest run is under way and the newest manifest is that of the
\* file in place, the table matches it: a check started now finds no
\* violation.  Runs that failed half way leave nothing behind that a later
\* successful run does not settle (bronze.py:110-116).
SettledClean ==
    /\ faults = 0
    /\ \A i \in Run : ~Active(i)
    /\ \E m \in manifests :
        /\ \A other \in manifests : other.at <= m.at
        /\ m.root = BatchRoot(csv)
    => Altered = {} /\ TableRoot = BatchRoot(csv)

\* No ingest hides what storage did to a row: the row of a key that is already
\* there is left alone by the MERGE, so a row that fails check 1 fails it
\* until the file changes again (ingest runs that do not overlap).
AlteredStaysAltered == [][faults' = faults => Altered \subseteq Altered']_vars

\* Runs that never overlap and sound storage: Bronze is a keyed store to which a
\* batch adds exactly the keys it does not hold yet, all lines of such a key
\* at once, and nothing else ever changes (write_bronze, docstring).
StoreOfKeys == [k \in Key |-> {<<r, bronze[r].content>> :
                                  r \in {s \in DOMAIN bronze : RowKey(s) = k}}]

KeyedBronze == INSTANCE KeyedStore WITH
    Item <- {<<r, ContentOf[r]>> : r \in Record},
    ItemKey <- [x \in {<<r, ContentOf[r]>> : r \in Record} |-> KeyOf[x[2]]],
    store <- StoreOfKeys

BronzeIsKeyedStore == KeyedBronze!Spec

\* Every run of the two DAGs ends: done, or failed with its retries used up.
RunsSettle ==
    /\ \A i \in Run : <>[](ing[i].pc \in {"done", "failed"})
    /\ \A c \in Check : <>[](chk[c].pc \in {"done", "failed"})

\* audit.py:169-170, "A mismatch here catches deletions or insertions that check
\* 1 alone would miss": a clean table has as many rows as the file has lines.
CleanMeansSameCount ==
    \A c \in Check :
        chk[c].verdict = "clean" /\ chk[c].since = faults =>
            Cardinality(DOMAIN bronze) = Cardinality(Batch(csv))
=============================================================================
