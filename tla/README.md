# A verification project for secure-financial-pipeline

TLA+ specifications of the medallion pipeline (CSV → Bronze → Silver → Gold),
of its tamper-evident audit trail, and of the Airflow runs that drive them;
TLC configurations that check them on small instances; and proofs, checked by
TLAPS, of the properties that matter most for every instance.

Run from this directory: `tlc -config silver.cfg MCSilver.tla` checks a run
(`PROJECT.json` lists module and configuration of each). The modules whose names
end in `Proofs` hold the theorems; `tlapm SilverProofs.tla` checks those of one.

## 1. The system

| component | state | operations | used by |
|---|---|---|---|
| Merkle tree (`security/audit.py`, `compute_merkle_root`) | the layer of a loop | sort, duplicate the odd node, hash pairs | ingest, check |
| Bronze ingest (`transformations/bronze.py`, `dags/bronze_ingest.py`) | Bronze table, manifest table, the CSV file | read and drop incomplete lines, MERGE or create, count, collect hashes, append manifest | Silver, check |
| Integrity check (`verify_bronze_integrity`, `dags/integrity_check.py`) | none of its own | sensor, count altered rows, rebuild root, newest manifest, verdict, alert | |
| Silver (`transformations/silver.py`, `dags/silver_clean.py`) | Silver table, a cached frame | deduplicate, enrich, MERGE or create, OPTIMIZE, count | Gold |
| Gold summaries (`transformations/gold.py`, `dags/gold_aggregate.py`) | daily and hourly table, a cached frame | aggregate, MERGE or create, twice | |
| Anomaly detection (`transformations/anomaly.py`, second task of `gold_aggregate`) | fraud_signals table | collect, fit, overwrite | |
| Slack alerts (`utils/slack_alerts.py`) | the channel | post, or log why not | every task that fails for good; the check itself |
| Scripts (`run_pipeline`, `benchmark`, `simulate_tamper`, `run_anomaly_demo`) | none of their own | all stages in order; wipe and rebuild Silver; edit a Bronze file; score | people, on the same data directory |
| Configuration, session, logging, deployment | none | | |

The stages share Delta tables and nothing else. The four DAGs are all `@daily`
with no ordering between them: a DAG waits with a sensor for a directory to
exist, not for a run of another DAG. No DAG sets `max_active_runs`, and the
executor is a LocalExecutor, so runs of one DAG may overlap (a manual trigger
next to the scheduled run). Tasks are retried, three times or once.

What is hard here:

* *Laziness.* A Spark data frame is a recipe. `run_bronze` reads the CSV again
  for the write, for `count()` and for `collect()`. `.cache()` in `run_silver` and
  `run_gold` plans the query at once, and the plan names the files of the Delta
  table as it is then; the rows are computed later, by the first action, from
  those files.
* *Check, then act.* `isDeltaTable` is asked before the write begins, and the
  write overwrites.
* *Several commits.* Bronze and its manifest, MERGE and OPTIMIZE, daily and
  hourly summary: a worker can die, and others commit, between them.
* *Ties.* Rows with equal sort keys are ranked anew by every evaluation.
* *Verdicts from two tables*, read at different times, one of which says only
  what the last batch was.
* *A NULL where nobody looked.* `dropna` looks at three columns; `concat_ws` passes over
  a NULL feature, and `clf.fit` raises on one.
* *Who tells.* A failed post is logged and dropped; an upstream failure has no
  callback; a sensor that times out is not retried; the check posts and raises.

What makes each part correct: the Merkle root depends on the multiset of hashes
and determines it, given the count; an integrity run reports a violation only if
storage changed, and a clean verdict means that the table has the rows of the
file; Bronze holds what it was given, once per key; Silver shows one stored row
for each key and loses none; the Gold tables agree with each other, count nothing
twice and do not go back; and data that does not arrive in time is reported. Where
the code promises one of these and does not keep it, section 3 has a run that says so.

## 2. The modules

| module | models | state ↔ code |
|---|---|---|
| `Merkle` | the tree as operators on families of hashes, and how to read its hashes off a root | digests are terms: SHA-256 without collisions |
| `RowHash` | the text that `row_hash` and `row_key` hash, with NULLs | a content is its columns in order |
| `MerkleLoop` | `compute_merkle_root` as the loop it is | `hashes` the argument, `layer` the local variable, `result` the return value |
| `KeyedStore` | what `write_bronze` promises (abstract) | `store`: items per key |
| `BronzeAudit` | ingest runs, integrity runs, storage faults, file deliveries | below |
| `KeyedView` | what `write_silver` promises (abstract) | `view`: the row shown for a key, over a `KeyedStore` |
| `Silver` | silver_clean runs over a growing Bronze | below |
| `Enrich` | date, hour and bucket of a transaction | |
| `Gold` | gold_aggregate runs, both tasks, over a changing Silver | below |
| `Pipeline` | all tasks of a day over all tables, alerts, scripts, days | below |
| `MerkleProofs`, `MerkleLoopProofs`, `BronzeAuditProofs`, `CleanVerdictProofs`, `SettledProofs`, `SilverProofs`, `GoldProofs`, `PipelineProofs` | theorems | section 4 |
| `MCMerkle`, `MCBronze`, `MCSilver`, `MCGold`, `MCPipeline` | values for the constants | |

**BronzeAudit.** A row of Bronze is named by the CSV line it came from and has
its content columns, the stored `row_hash` and `ingest_ts`; several lines may
have one `row_key` (equal Time and Amount) and even one content. What is hashed is
`RowText` and `KeyText` of `RowHash`: the values of the columns that are not NULL, in
order. `Digest` is a constant that maps different texts to different numbers, as
SHA-256 is taken to. An attempt of
`ingest_csv_to_bronze` goes through `StartIngest` (with the answer of
`isDeltaTable`), `MergeBronze` or `CreateBronze`, `CountBatch`,
`CollectHashes`, `StampManifest` (`recorded_at`), `AppendManifest`,
`FinishIngest`; each is one evaluation of the frame or one commit, and
`FailIngest` may come between any two. An integrity run goes through
`StartCheck`, `VerifyRows`, `RebuildRoot` and `CompareRoot` or `NoManifest`; a
verdict that is not clean raises and is retried. `StorageFault` is storage
changing under the table: a row gets another content, another `row_hash`, or both
(`ModifyRow`), is gone (`LoseRow`), or is there though no ingest wrote it
(`InsertRow`). A row keeps its `row_key`, and a changed `row_hash` is that of some row
with this key: were keys and hashes to change apart, a MERGE after a clean verdict
could add to the table again (a hazard in `PROJECT.json`). `clock` orders commits and
timestamps; it has no other meaning.

**Silver.** `ReadBronze` is `.cache()`: `frame` is the Bronze table whose files the plan
names. `ProbeTable` is `isDeltaTable`, asked afterwards. A Delta write is a
transaction: `EvaluateBatch` begins it at the table version of that moment and
computes the rows, from `frame`; `CommitMerge` and `CommitCreate` commit if the
version is still the same, `LoseCommit` is the conflict exception. The check is about
Silver: it says nothing of the age of the frame. With `Optimized = FALSE`
(`SILVER_UNOPTIMIZED`, the mode of the benchmark) there is no cache, and the rows come
from the Bronze that the transaction finds. The row count taken at the end is only returned,
and left out. `Optimize` is a commit that changes no row. `Deduplicated` is the *set* of
frames that `deduplicate` may return. `FirstRunAlone` assumes of the scheduler that no run
overlaps until a first one has written Silver. Nothing in the code sees to it; without it the
promise of `KeyedView` is broken (section 3), and the mode without the cache does not need it.
The environment is `LoadBronze`, the
commit of an ingest as `KeyedStore` allows it, which is what `bronze_sole` checks of
`BronzeAudit`.

**Gold.** `CacheSilver` is `df_silver.cache()`, and `frame` the Silver it fixes for both
summaries. `ProbeTable`, `BeginWrite` and `CommitTable` are `_merge_or_create`,
first for the daily and then for the hourly table, each with a transaction of its own.
`ReadFeatures` and `WriteSignals` are the anomaly task, which the
same run starts when the first has succeeded. Silver changes by `RefreshSilver`
as `KeyedView` allows, which is what `Silver` implements with `FirstRunAlone` and in
the mode without a cache: keys come, and a row may be exchanged for another
row of its key; these differ for Gold in `is_fraud` only, since date, hour,
amount and bucket are functions of Time and Amount. Three things
are history for the properties only: `read`, the versions of the two tables when the attempt
read Silver; `author`, the attempt that made the last commit to a table, if it was not
*overtaken*, that is, if nobody had written the table since that attempt read Silver; and
`summed`, what the first task of a run has summarised.

**Pipeline.** The composition. A table is the set of `row_key`s its rows stand for, and
`table["manifest"]` the keys that the root of the newest manifest covers: what a stage
does to its table, for runs one at a time, is what the modules above establish. `task` has
the five tasks, with `pc`, attempts (`tries`) and what an attempt has read (`frame`). `pc` is

* `queued`: the sensor before the task is poking, or the task before it is not done;
* `holding`, `half`, `ending`: it has read; is between two commits; has committed and not
  returned (`xcom_push`, `spark.stop`);
* `alerting`, `raising`: the check, before and after its own post;
* `retry`, `callback`: up for retry; failed for good, `on_failure_callback` not yet called;
* `done`, `failed`, `upstream_failed`.

Sensors ask whether a directory exists (`made`) and for nothing else. `SensorTimeout` goes to
`callback` at once, because Airflow fails a sensor that has timed out without a retry.
`UpstreamFailed` calls nobody. `Send` is `send_failure_alert`: the post gets through,
or (missing webhook, HTTP error, exception) only the log knows; `Callback` and
`AlertViolation` call it. `FitRaises` is scikit-learn refusing the NaN that a NULL feature
has become. `LocalRun`, `Benchmark`, `SimulateTamper` and `AnomalyDemo` are the scripts, with
the places where the first two may stop half-way; the "Slack alert fired" that
`simulate_tamper.py` prints is not a post. `NextDay` starts the four runs of a day together
when those of the day before have ended: the schedule is `@daily`, retries wait for
minutes and sensors for an hour at most. (Runs of one DAG that do overlap are in the
component modules.) Scripts are run between days, and a delivery during the day is one
before or after it, since only the ingest reads the file. `due`, `excused`, `alarmed` and
`lost` are history for the properties: when a key had to be in, which keys a post has excused,
whether today's check has posted about an edited row, how many posts were lost.

## 3. The runs

| run | question | answer |
|---|---|---|
| `merkle_loop` | Does the loop end, compute `MerkleRoot` whatever the order, and do root and row count pin down the batch? | yes |
| `bronze_audit` | One of two files: false alarms? clean verdicts over a table that differs from the file? masked faults? second copies of a key? | none, but for copies of the greatest hash and moved NULLs |
| `bronze_growing` | The file gains keys between runs, runs overlap and fail: does a settled table verify? | yes |
| `bronze_sole` | Is Bronze an insert-only keyed store, even if files are replaced between the reads of a run? Do the runs of both DAGs end? | yes, for runs one at a time; yes |
| `silver` | With the cache: one row per key, no key lost, what was there at the start brought in? Do loaded keys arrive? | yes, whatever conflicts and fails, if first runs do not overlap |
| `gold` | Do the summaries agree, does no date and no hour shrink? Is nothing counted twice, do signals cover the summary, do keys reach Gold? | yes, runs overlapping; the first two for attempts that are not overtaken |
| `pipeline` | Is a key that does not reach Gold within three days reported? Is an edited row posted about? Do summaries keep what they have? Does a check after the ingest of its day find what the manifest covers? Do days end? | yes, scripts and failures included, unless posts are lost |
| `deleted_duplicate` | Does a root mismatch show every deletion, as the docs say? | no: the last node of an odd layer is repeated, `row_count` is not compared |
| `check_during_ingest` | Is a check that reports a violation always right? | no: between a Bronze commit and its manifest it is not |
| `second_day` | Does a settled table verify after a second file? | no: the manifest covers one batch only |
| `silver_replay` | Does running silver_clean again leave rows as they are? | no: ties |
| `gold_stale` | Is a summary safe to write again: does no total go back? | no: the cached snapshot is older than the transactions that write it |

The last five are expected violations, each with a finding in `PROJECT.json`
that quotes the statement it contradicts. The same properties answer more
questions when one constant of a run is changed:

* `SettledClean` fails in `bronze_growing` with `MidRunDelivery = TRUE`: the file
  is replaced between the Bronze write and `collect()`, and the manifest has the
  root of rows that were never written.
* `NoFalseAlarm` fails in `bronze_audit` with `ReadErrors = TRUE`: an exception
  in `latest_manifest` becomes a Merkle mismatch.
* `BronzeIsKeyedStore` fails in `bronze_sole` with `MaxActiveRuns = 2`: two first runs
  both create the table and the later one overwrites.
* `SilverIsView` and `DoneCoversStart` fail in `silver` with `FirstRunAlone = FALSE`: two first
  runs fix the Bronze they read, both find no table, and the one that has read less overwrites
  the table the other has written, in a transaction that begins after that commit. They hold
  again with `Optimized = FALSE`, with the same two runs and the same race to create the table:
  then the rows are read after the version they are checked against. `LoadedKeysArrive` holds
  in each case.
* `SummariesNeverShrink` (`gold_stale`) is `TotalsNeverShrink` without its condition on the author.
* `LateDataIsReported` needs its three days: with no fault at all, a key may miss the
  silver_clean of its day (the directory is there already) and the gold_aggregate of
  the next, and nobody is told.
* `EditIsPosted` says `lost <= 1`: the check posts itself and its failure posts again, so
  one lost post is made up for, two are not.
* `LoadedKeysArrive` and `KeysReachGold` speak of each table at some time, not of all at
  once: an overlapping run with an older snapshot may take a key, a signal or an hour away.

`CleanMeansSameRows` says how much a clean verdict is worth. Every text is stored as often
as the file has it, except the one with the greatest hash, which is stored at least once
(`deleted_duplicate`); and of two contents with one text, which both have NULLs, either may
be there: a NULL that storage moves from one feature of a row to another changes neither hash nor
root, although `bronze.py:107-108` calls any modification detectable and `audit.py:73-74`
collisions impossible. The first file of the run has lines of the second kind, the other a
line of the first kind twice. It takes both checks: the root is rebuilt from the stored `row_hash`
(`audit.py:195`), so an edited row that keeps its hash is counted by check 1 while the root
matches, other than the repository's `README.md:152` and `:206` have it.

*Bounds.* `merkle_loop`: lists of up to five hashes of three values have odd and
even layers at two levels, padding of a padded layer, and every pattern of
duplicates that matters. `MCBronze`: seven lines of two features give
different contents with one key, different contents with one text, a change of the label
only, a line that is dropped, a line that is repeated, and an odd batch; two or three runs are
what a race needs, one check with or
without a retry, one storage fault (so that it can fall between any two
reads). `MCSilver`: a key with two candidate rows and two without; two ingests,
two runs, one retry. `MCGold`: for `gold` a key on each side of the end of an hour (`TwoHours`),
one of them with two possible labels, so that days and hours differ and frauds change; two
overlapping runs without a retry (the theorems hold for any), two changes of Silver. `gold_stale`
has a third key, and two buckets in one hour. `MCPipeline`: two keys
of one day in different hours, so that a daily row is replaced where an hourly row is
not, the second of them one that cannot be scored; three days, the window of
`LateDataIsReported`; one retry of each task; two mishaps (failing attempts, lost posts,
scripts) in all, so that a script and a failure, or a failure and a lost post, fall on any
two steps. `MaxMishaps`, `MaxDay`, `MaxLoads`, `MaxRefreshes` and
`MaxFaults` bound the environment only; the code has no such bounds. Deadlock is checked
everywhere but in `merkle_loop`, where a call that has returned stops.

*Symmetry* of runs is used in `bronze_growing`, which checks invariants only.

*Fairness.* Weak fairness of the steps of a run: the scheduler starts what is
queued or up for retry, a sensor pokes every minute and has a timeout, a started
task goes on. No fairness makes a file arrive, an attempt fail, or storage
change. A run that others hold back behind `MaxActiveRuns` gets its turn because
each of those ends. In `pipeline` it is weak fairness of the tasks of a day together and of
the scheduler making the next one; no post, script or fault has to happen.

## 4. What is proved

`MerkleProofs` and `MerkleLoopProofs`, for lists of hashes of any length:

* `RootTellsHashes`: families with one root have the same hashes. `RootAndCountTellHashes`: with
  as many of them, they have each hash equally often. `SameHashesSameRoot` is the converse.
  `Unfold` takes a row of nodes to the row they were hashed from. In the other direction a
  layer is covered by what `Unfold` gives for the layer above it: it starts with the layer and
  only repeats its last node (`UnfoldCovers`). So the rows below a root end in the sorted list,
  padded (`LeavesUnderRoot`). Lists of three and of four hashes may have one bottom row: the
  root alone tells the set of hashes, and only with the count how often the last one is there.
* `RootTellsSmallerHashes`: the root alone tells how often each hash is there, but for the greatest.
* `RootIsDeterministic`, `ManifestPinsBatch`, `RootLosesNothing`: the loop satisfies
  `RootIgnoresOrder`, `RootAndCountPinBatch` and `RootCoversHashes`. `LoopInv` says that the
  local variable is one of the `Layers` of the operator, and that what is returned is its root.

  The layers are a recursive function. Statements about all of them are proved from the least
  number that breaks them (`LeastNumber`, from the library's well-foundedness of `<`), because
  the induction theorems of the library cannot be instantiated here.

`BronzeAuditProofs`, for any number of runs, lines, contents and keys, any
files, retries and overlaps:

* `TypeCorrect`: `Spec => []TypeOK`. `TypeOK` bounds the attempts of a run and is not
  inductive: `TypeInv` adds that a run that is queued has made no attempt and one
  that is up for retry has one left.
* `OneCommit`: `Spec => []OneCommitPerKey`. Inductive together with `TypeInv`: a
  MERGE stamps all rows it inserts with one time and inserts none whose key is
  there; a create leaves rows of one time only.
* `NoFalseAlarmForOneFile`: if there is one file, never replaced, and reading
  manifests raises no error (`OneFileInPlace`), then `Spec => []NoFalseAlarm`. The
  inductive invariant `AuditInv` says that while storage is sound the table is
  either empty and unwritten or exactly the batch; that every root a run
  carries and every manifest has is the root of the batch; and that a check
  past one of its reads has read no altered row and that root. It needs the
  table to be complete *before* the first manifest, which is the order
  write, collect, append of `run_bronze`. The race of two creating runs is
  included: with one file they write the same rows.

* `BronzeImplementsStore`: for runs one at a time and sound storage,
  `Spec => BronzeIsKeyedStore`, with files replaced at any time. `StoreInv` has what the
  overlap breaks: a run that has found no table is the only one that can create it.
* `AlteredRowsStay`: for runs one at a time, `Spec => AlteredStaysAltered`, from `SoleInv`, the
  part of `StoreInv` that faults of storage keep.

`CleanVerdictProofs` and `SettledProofs`, for any number of runs, lines, features,
contents, retries and overlaps:

* `EditInPlaceShows`: an edit of a row that leaves its NULLs where they are changes the text.
* `NullFreeTextIsUnique`: the text of a content without NULL is that of no other content.
* `CleanVerdictCountsRows`: with `OneFileInPlace`, `Spec => []CleanMeansSameRows`, whatever rows
  storage changes, inserts or loses between the two reads of a check. `VerdictInv` says that
  every root an ingest or a manifest has is that of the batch (`RootsInv`), and that what a check has
  found holds as long as storage does not change again (`FoundInv`): no altered row, and
  `TableMatches`, the same hashes with the same number of rows but for the greatest, which is
  what equal roots tell (`RootTellsSmallerHashes`). Ingest runs keep this because a MERGE into such a
  table inserts nothing: each key of the file is there, since each hash is, a hash tells
  its key whatever features are NULL (`HashTellsKey`), and a row has a hash of its key
  (`KeysKnown`).
* `SettledTablesVerify`: if files are delivered between runs, repeat their old lines and add lines
  of new keys only (`FilesGrow`), then `Spec => []SettledClean`.
  `SettledInv` says that the rows are lines of the file that have come with all lines of
  their key, that every manifest has the root of lines still in the file, and that one
  whose root is that of the file fits the table. A delivery keeps this because a row's
  hash tells its key, so a new key has a new hash, and (by `RootTellsHashes`) no old manifest has the new root.

`SilverProofs`, for any number of runs, keys, items and batches, and any retries:

* `TypeCorrect`: `Spec => []TypeOK`, for any overlaps, with `SilverInv`: a stored row is one of the
  Bronze rows of its key, as is each row of a batch and of a frame.
* `NothingLeftOut`: `Spec => []DoneCoversStart`, and
* `SilverImplementsView`: `Spec => SilverIsView`, by the mapping that forgets
  `ingest_ts` and the runs, both under `~Optimized \/ FirstRunAlone`, for any overlaps beyond that.
  A commit maps to `Refresh`, an ingest to `Load`, every other step to a stutter.

  They need `CoverInv`: what an attempt has read, or is about to write, has every key that
  Bronze held when the attempt began, and a batch that would *overwrite* Silver at its present
  version has every key that Silver shows. A batch that is merged may be as old as it likes: it
  takes no key away. For the overwrite without the cache, the rows are read inside the
  transaction, after the version they are checked against; with the cache, a run that found no
  table is alone until it has written one (`SoleRun`). Two such runs are what breaks it, since the
  conflict check says nothing of the age of the frame. Hence the assumption.

`GoldProofs`, for any number of runs, keys, times, amounts, labels and retries. For any
overlaps, from `GoldInv`, which says that a frame is within Silver and that a summary has no
row larger than its group in Silver:

* `TypeCorrect`: `Spec => []TypeOK`; no row of a summary is empty.
* `CountedOnce`: `Spec => []NothingCountedTwice`.
* `ScoredWhatWasSummed`: `Spec => SignalsCoverSummary`, since what a run has summarised stays
  within Silver until it reads Silver again.

And from `FreshInv`, which says that as long as nobody has written a table since an attempt read
Silver, what the attempt has read covers that table, group by group:

* `TotalsOnlyGrow`: `Spec => TotalsNeverShrink`. An attempt that is not overtaken replaces every row of
  the table, merged or overwritten (`CommitReplaces`); one that is overtaken may commit a frame that does
  not cover the table (`gold_stale`).
* `HoursAgreeWithDays`: `Spec => []SummariesAgree`. The hours there are may come from the commits
  of several attempts and runs, and a MERGE leaves those it has no row for. By `FreshInv` the frame of
  the last attempt covers each of them, so none is left over; `AgreeInv` says that an attempt
  commits to each table once, the daily one first and both from one frame. That groups of groups
  add up (`SumOfParts`) is shown from the smallest set of hours for which they would not.

`PipelineProofs`, for any keys, groups, days, retries and number of mishaps:

* `TypeCorrect`: `Spec => []TypeOK`, which bounds the attempts of each task.
* `SummariesOnlyGrow`: `Spec => SummariesKeepKeys`. `LineageInv` is the chain that makes a
  MERGE of whole groups harmless: Silver and the summaries are within Bronze, the summaries
  within Silver whenever its directory is there, and what an aggregation holds covers both
  summaries, also after `benchmark.py` has wiped Silver, because the next silver_clean
  rebuilds it from all of Bronze and an aggregation waits for the directory.
* `LateCheckIsSound`: `Spec => CheckAfterIngestMatches`, from `IngestInv`: between the end of
  an ingest and the end of its day, Bronze is what the newest manifest covers.
* `EditReachesSlack`: `Spec => []EditIsPosted`, from `AlarmInv`, which sets the lost posts
  against the posts the check has still to make.
* `ThreeDaysToGold`: `Spec => []LateDataIsReported`. `ArrivalInv` says where a key is at least,
  by the days since it was due, and what the task that moves it on holds; `ScoreInv` that the
  anomaly task finds Silver, or is not started because the aggregation has failed.

The proofs rest on the named assumptions of the modules (types of their
constants, finiteness of lines and keys, a digest that tells texts apart) and on the
library's facts on finite sets, functions and well-founded relations.

Only model-checked: liveness (`Terminates`, `RunsSettle`, `LoadedKeysArrive`, `KeysReachGold`,
`DaysPass`), which the prover does not reach. Every invariant and action property that a passing
run checks has a theorem, in the setting of the runs that check it: for `NoFalseAlarm` and
`CleanMeansSameRows` one file that stays (`OneFileInPlace`), for `SettledClean` files that grow
(`FilesGrow`), for `BronzeIsKeyedStore` and `AlteredStaysAltered` runs one at a time, for `SilverIsView` and
`DoneCoversStart` no overlap before Silver is there, or no cache.

## 5. What is not modelled

* Numbers: amounts are cents in `Enrich` and the Gold aggregates are counts;
  sums, averages and maxima of floating-point amounts are left out, as are
  scikit-learn's scores and metrics. Seconds of `Time` are whole, and the
  session's time zone has no change of clock.
* Column values that contain the separator `|` or are empty: the content columns are numbers.
* In `Pipeline`: rows beyond their key, duplicates and labels (the component modules have
  these), a file that is not a longer version of the one before (`second_day` has it), and
  scripts next to running tasks.
* Inside Delta and Spark: commits are atomic, a lost race raises, a cache is not
  evicted. The window in which a manifest directory exists before its first
  commit is inside Delta.
* `SLA` callbacks: no DAG registers one, so there is nothing to model, although
  the repository's README describes one.
* `generate_synthetic_data.py`, logging, Docker, CI: they keep no state of the pipeline.

## 6. Plan

1. Done: Merkle tree, row hashes, Bronze with its audit, Silver, Gold; their composition with
   alerts, sensors, scripts and days; theorems about each of them, and about every safety
   property that holds.
2. Left, models: `Pipeline` with runs of different days overlapping; storage that changes the
   `row_key` column.
