------------------------------- MODULE Silver -------------------------------
(***************************************************************************)
(* The Silver table and the runs of the silver_clean DAG that write it     *)
(* (src/transformations/silver.py, dags/silver_clean.py), over a Bronze    *)
(* table that keeps the promise of KeyedStore.                             *)
(*                                                                         *)
(* A write to a Delta table is a transaction: it begins at the table       *)
(* version it finds, computes what it writes, and commits only if the      *)
(* table is still at that version; else it raises.  The rows run_silver    *)
(* writes are computed inside that transaction, but from the Bronze that   *)
(* .cache() has fixed before: it plans the query at once, and the plan     *)
(* names the files of the table.  With SILVER_UNOPTIMIZED set there is no  *)
(* cache, and the write itself chooses the version of Bronze it reads.     *)
(* What run_silver returns, the number of rows, is left out.               *)
(***************************************************************************)
EXTENDS Naturals, FiniteSets

CONSTANTS
    Run,            \* runs of silver_clean
    Key,            \* values of row_key
    Item,           \* rows as Bronze gets them from the CSV
    KeyOf,          \* the key of each item; items may share a key
    Batches,        \* sets of items that an ingest may bring
    Optimized,      \* whether SILVER_UNOPTIMIZED is not set
    MaxActiveRuns,  \* runs that overlap at most
    FirstRunAlone,  \* whether none overlaps until Silver is there
    Retries,        \* retries of clean_bronze_to_silver
    MaxLoads        \* bound: ingests

ASSUME ItemsAssumption == KeyOf \in [Item -> Key] /\ Batches \subseteq SUBSET Item
ASSUME KeysAreFinite == IsFiniteSet(Key)
ASSUME NumbersAssumption ==
    /\ Optimized \in BOOLEAN
    /\ FirstRunAlone \in BOOLEAN
    /\ MaxActiveRuns \in Nat
    /\ Retries \in Nat
    /\ MaxLoads \in Nat

VARIABLES
    bronze,     \* the rows of the Bronze table, by row_key
    loads,      \* ingests so far; the table exists after the first one
    silver,     \* the rows of the Silver table, by row_key
    version,    \* commits to the Silver table; it exists after the first one
    run         \* the silver_clean runs

vars == <<bronze, loads, silver, version, run>>
tables == <<bronze, loads, silver, version>>

-----------------------------------------------------------------------------
PC == {"waiting", "read", "probe", "evaluate", "commit", "optimize", "count",
       "retry", "done", "failed"}

BronzeRow == [item : Item, ts : 1 .. MaxLoads]
RowsOfSomeKeys == UNION {[keys -> BronzeRow] : keys \in SUBSET Key}
RunState == [pc : PC, tries : 0 .. Retries + 1, frame : [Key -> SUBSET BronzeRow],
             merge : BOOLEAN, base : Nat, batch : RowsOfSomeKeys, seen : SUBSET Key]

\* The keys that a state of the Bronze table holds.
Loaded(rows) == {k \in Key : rows[k] # {}}

\* The rows that row_number() over (row_key, ingest_ts desc) may rank first.
Latest(rows, k) == {row \in rows[k] : \A other \in rows[k] : other.ts <= row.ts}

\* What deduplicate() may return: ties are broken anew by every evaluation.
Deduplicated(rows) ==
    {pick \in [Loaded(rows) -> UNION {Latest(rows, k) : k \in Loaded(rows)}] :
        \A k \in Loaded(rows) : pick[k] \in Latest(rows, k)}

Active(r) == run[r].pc \notin {"waiting", "done", "failed"}

NoBronze == [k \in Key |-> {}]

NoAttempt == [pc |-> "waiting", tries |-> 0, frame |-> NoBronze, merge |-> FALSE,
              base |-> 0, batch |-> <<>>, seen |-> {}]

Init ==
    /\ bronze = NoBronze
    /\ loads = 0
    /\ silver = <<>>
    /\ version = 0
    /\ run = [r \in Run |-> NoAttempt]

-----------------------------------------------------------------------------
\* An ingest commits: the keys that are not there yet are inserted.
LoadBronze(batch) ==
    /\ loads < MaxLoads
    /\ loads' = loads + 1
    /\ bronze' = [k \in Key |->
                     IF bronze[k] = {}
                     THEN {[item |-> x, ts |-> loads'] : x \in {y \in batch : KeyOf[y] = k}}
                     ELSE bronze[k]]
    /\ UNCHANGED <<silver, version, run>>

-----------------------------------------------------------------------------
\* The sensor has seen the Bronze table, or the task is retried.
StartSilver(r) ==
    /\ \/ run[r].pc = "retry"
       \/ /\ run[r].pc = "waiting"
          /\ loads > 0
          /\ Cardinality({s \in Run : Active(s)}) < MaxActiveRuns
          /\ FirstRunAlone /\ version = 0 => \A s \in Run : ~Active(s)
    /\ run' = [run EXCEPT ![r] = [NoAttempt EXCEPT !.pc = "read",
                                     !.tries = run[r].tries + 1,
                                     !.seen = Loaded(bronze)]]
    /\ UNCHANGED tables

\* The sensor gives up after its timeout.
SensorTimeout(r) ==
    /\ run[r].pc = "waiting"
    /\ loads = 0
    /\ run' = [run EXCEPT ![r].pc = "failed"]
    /\ UNCHANGED tables

\* .cache() fixes the version of Bronze that will be read.
ReadBronze(r) ==
    /\ run[r].pc = "read"
    /\ run' = [run EXCEPT ![r].pc = "probe",
                          ![r].frame = IF Optimized THEN bronze ELSE NoBronze]
    /\ UNCHANGED tables

\* write_silver asks isDeltaTable.
ProbeTable(r) ==
    /\ run[r].pc = "probe"
    /\ run' = [run EXCEPT ![r].pc = "evaluate", ![r].merge = version > 0]
    /\ UNCHANGED tables

\* The write begins, and the data frame is computed: from the frame that is
\* cached, or without one from the Bronze that the transaction finds.
EvaluateBatch(r) ==
    /\ run[r].pc = "evaluate"
    /\ \E pick \in Deduplicated(IF Optimized THEN run[r].frame ELSE bronze) :
        run' = [run EXCEPT ![r].pc = "commit", ![r].base = version,
                           ![r].batch = pick]
    /\ UNCHANGED tables

\* Mutant of CommitMerge: whenNotMatchedInsertAll is missing.
MergeUpdatesOnly(r) ==
    /\ run[r].pc = "commit" /\ run[r].merge /\ run[r].base = version
    /\ silver' = [k \in DOMAIN silver |->
                     IF k \in DOMAIN run[r].batch THEN run[r].batch[k] ELSE silver[k]]
    /\ version' = version + 1
    /\ run' = [run EXCEPT ![r].pc = "optimize"]
    /\ UNCHANGED <<bronze, loads>>

\* Mutant of CommitMerge: the table is overwritten although it is there.
MergeOverwrites(r) ==
    /\ run[r].pc = "commit" /\ run[r].merge /\ run[r].base = version
    /\ silver' = run[r].batch
    /\ version' = version + 1
    /\ run' = [run EXCEPT ![r].pc = "optimize"]
    /\ UNCHANGED <<bronze, loads>>

CommitMerge(r) ==
    /\ run[r].pc = "commit" /\ run[r].merge /\ run[r].base = version
    /\ silver' = [k \in DOMAIN silver \cup DOMAIN run[r].batch |->
                     IF k \in DOMAIN run[r].batch THEN run[r].batch[k] ELSE silver[k]]
    /\ version' = version + 1
    /\ run' = [run EXCEPT ![r].pc = "optimize"]
    /\ UNCHANGED <<bronze, loads>>

\* mode("overwrite"), although the table may exist by now.
CommitCreate(r) ==
    /\ run[r].pc = "commit" /\ ~run[r].merge /\ run[r].base = version
    /\ silver' = run[r].batch
    /\ version' = version + 1
    /\ run' = [run EXCEPT ![r].pc = "optimize"]
    /\ UNCHANGED <<bronze, loads>>

\* OPTIMIZE rewrites the files, not the rows: a commit like any other.
Optimize(r) ==
    /\ run[r].pc = "optimize"
    /\ version' = version + 1
    /\ run' = [run EXCEPT ![r].pc = "count"]
    /\ UNCHANGED <<bronze, loads, silver>>

\* count, unpersist, return, xcom_push: no table is written any more.
FinishSilver(r) ==
    /\ run[r].pc = "count"
    /\ run' = [run EXCEPT ![r] = [NoAttempt EXCEPT !.pc = "done",
                                     !.tries = run[r].tries, !.seen = run[r].seen]]
    /\ UNCHANGED tables

\* An attempt ends by an exception; with it go its locals and its cache.
Abandon(r) ==
    /\ run' = [run EXCEPT ![r] =
                  [NoAttempt EXCEPT !.pc = IF run[r].tries <= Retries
                                           THEN "retry" ELSE "failed",
                                    !.tries = run[r].tries]]
    /\ UNCHANGED tables

\* The commit meets a later version of the table.
LoseCommit(r) ==
    /\ run[r].pc = "commit"
    /\ run[r].base # version
    /\ Abandon(r)

\* Mutant of FailSilver: the attempts are not counted right.
FailSilverLate(r) ==
    /\ Active(r) /\ run[r].pc # "retry"
    /\ run' = [run EXCEPT ![r] =
                  [NoAttempt EXCEPT !.pc = IF run[r].tries <= Retries + 1
                                           THEN "retry" ELSE "failed",
                                    !.tries = run[r].tries]]
    /\ UNCHANGED tables

\* Any other exception, a conflict of OPTIMIZE, or the loss of the worker.
FailSilver(r) ==
    /\ Active(r) /\ run[r].pc # "retry"
    /\ Abandon(r)

SilverStep(r) ==
    \/ StartSilver(r) \/ SensorTimeout(r) \/ ReadBronze(r) \/ ProbeTable(r)
    \/ EvaluateBatch(r) \/ CommitMerge(r) \/ CommitCreate(r) \/ LoseCommit(r) \/ Optimize(r) \/ FinishSilver(r)

Finished ==
    /\ \A r \in Run : run[r].pc \in {"done", "failed"}
    /\ UNCHANGED vars

Next ==
    \/ \E batch \in Batches : LoadBronze(batch)
    \/ \E r \in Run : SilverStep(r) \/ FailSilver(r)
    \/ Finished

Spec == Init /\ [][Next]_vars

\* The scheduler starts what may start and a started task goes on; nothing
\* makes an ingest or a failure happen.
FairSpec == Spec /\ \A r \in Run : WF_vars(SilverStep(r))

-----------------------------------------------------------------------------
\* Tables and runs have their types; a run has no more attempts than its
\* retries allow.
TypeOK ==
    /\ bronze \in [Key -> SUBSET BronzeRow]
    /\ loads \in 0 .. MaxLoads
    /\ silver \in RowsOfSomeKeys
    /\ version \in Nat
    /\ run \in [Run -> RunState]

\* write_silver (silver.py:75-100): however runs overlap, fail and are retried,
\* Silver shows one stored row per key and never loses a key.  This is for runs
\* that overlap once the table is there, or that read Bronze without the cache
\* (silver.py:134).  A first run with the cache overwrites with the Bronze it has
\* fixed at silver.py:131 whatever another first run has written meanwhile.
SilverView == INSTANCE KeyedView WITH
    ItemKey <- KeyOf,
    store <- [k \in Key |-> {row.item : row \in bronze[k]}],
    view <- [k \in DOMAIN silver |-> silver[k].item]

SilverIsView == SilverView!Spec

\* A run that is done has brought in every key that Bronze held when its last
\* attempt began, whatever other runs have written since (silver.py:75-80); where
\* Silver is a view.
DoneCoversStart ==
    \A r \in Run : run[r].pc = "done" => run[r].seen \subseteq DOMAIN silver

\* silver.py:78 and README.md:269: writing again what is there already changes
\* nothing: a commit that brings no new key leaves every row as it was.
ReplayKeepsRows ==
    [][DOMAIN silver' = DOMAIN silver => silver' = silver]_vars

\* A key that is in Bronze when a run has not started gets to Silver, or the
\* run uses up its retries (the sensor of silver_clean, and the MERGE).
LoadedKeysArrive ==
    \A r \in Run : \A k \in Key :
        (run[r].pc = "waiting" /\ bronze[k] # {})
            ~> (k \in DOMAIN silver \/ run[r].pc = "failed")
=============================================================================
