-------------------------------- MODULE Gold --------------------------------
(***************************************************************************)
(* The three Gold tables and the runs of the gold_aggregate DAG: the task  *)
(* aggregate_silver_to_gold (src/transformations/gold.py), then the task   *)
(* fraud_anomaly_detection (src/transformations/anomaly.py).               *)
(*                                                                         *)
(* .cache() plans the reading of Silver at once, and the plan names the     *)
(* files of the table: both summaries are computed from the Silver of that *)
(* moment, each inside the transaction that writes it.                     *)
(*                                                                         *)
(* Silver changes as SilverIsView of module Silver says: keys only come,   *)
(* and the row of a key may be exchanged for another row of that key.  The *)
(* rows of a key share Time and Amount, so of the columns Gold reads they  *)
(* differ in is_fraud only.                                                *)
(***************************************************************************)
EXTENDS Enrich, FiniteSets, Functions

CONSTANTS
    Run,            \* runs of gold_aggregate
    Key,            \* values of row_key
    TimeOf,         \* Time and
    AmountOf,       \*   Amount of each key
    LabelsOf,       \* the values of is_fraud among the Bronze rows of a key
    MaxActiveRuns,  \* runs that overlap at most
    Retries,        \* retries of each task
    MaxRefreshes    \* bound: changes of the Silver table

ASSUME KeysAssumption ==
    /\ IsFiniteSet(Key)
    /\ TimeOf \in [Key -> Nat]
    /\ AmountOf \in [Key -> Nat]
    /\ LabelsOf \in [Key -> SUBSET BOOLEAN]
ASSUME NumbersAssumption ==
    MaxActiveRuns \in Nat /\ Retries \in Nat /\ MaxRefreshes \in Nat

VARIABLES
    silver,     \* is_fraud of the rows of the Silver table, by row_key
    refreshes,  \* changes of Silver so far
    gold,       \* the rows of daily_summary and hourly_summary, by group
    version,    \* commits to each of the two; it exists after the first one
    author,     \* the attempt that made the last commit to each, if no other
                \*   commit to that table came after it had read Silver
    signals,    \* is_actual_fraud of the rows of fraud_signals, by row_key
    run         \* the gold_aggregate runs

vars == <<silver, refreshes, gold, version, author, signals, run>>
tables == <<silver, refreshes, gold, version, author, signals>>

-----------------------------------------------------------------------------
Table == {"daily", "hourly"}
PC == {"waiting", "cache", "probe", "begin", "commit", "push", "read", "write",
       "return", "retry", "done", "failed"}

Snapshots == UNION {[keys -> BOOLEAN] : keys \in SUBSET Key}

\* The merge_keys of the two tables.
GroupOf(table, k) ==
    IF table = "daily" THEN <<TransactionDate(TimeOf[k])>>
    ELSE <<TransactionDate(TimeOf[k]), TransactionHour(TimeOf[k])>>

Groups(table, snapshot) == {GroupOf(table, k) : k \in DOMAIN snapshot}
Members(table, snapshot, g) == {k \in DOMAIN snapshot : GroupOf(table, k) = g}

\* The buckets with the most rows of a group: row_number() over
\* bucket_tx_count desc may rank any of them first.  daily_summary has none.
DominantBuckets(table, rows) ==
    LET Size(b) == Cardinality({k \in rows : AmountBucket(AmountOf[k]) = b})
    IN  IF table = "daily" THEN {"none"}
        ELSE {b \in Buckets : \A other \in Buckets : Size(other) <= Size(b)}

\* Mutant of Aggregates: the two counts are exchanged.
AggregatesExchanged(table, snapshot, g) ==
    LET rows == Members(table, snapshot, g)
    IN  [total : {Cardinality({k \in rows : snapshot[k]})},
         fraud : {Cardinality(rows)},
         bucket : DominantBuckets(table, rows)]

\* The row of a group: total_transactions, fraud_count, and amount_bucket.
Aggregates(table, snapshot, g) ==
    LET rows == Members(table, snapshot, g)
    IN  [total : {Cardinality(rows)},
         fraud : {Cardinality({k \in rows : snapshot[k]})},
         bucket : DominantBuckets(table, rows)]

\* What build_daily_summary and build_hourly_summary may return.
Summaries(table, snapshot) ==
    LET groups == Groups(table, snapshot)
    IN  {s \in [groups -> UNION {Aggregates(table, snapshot, g) : g \in groups}] :
            \A g \in groups : s[g] \in Aggregates(table, snapshot, g)}

Active(r) == run[r].pc \notin {"waiting", "done", "failed"}

\* A run before its first task.
NoAttempt == [task |-> "aggregate", pc |-> "waiting", tries |-> 0, table |-> "daily",
              merge |-> FALSE, base |-> 0, frame |-> <<>>,
              read |-> [t \in Table |-> 0], summed |-> {}]

\* Run r without the locals of an attempt.  What the first task has summarised
\* is remembered for the properties, as are the versions that the two tables had
\* when an attempt read Silver.
Attempt(r, pc, tries) ==
    [NoAttempt EXCEPT !.task = run[r].task, !.pc = pc, !.tries = tries,
                      !.summed = run[r].summed]

Init ==
    /\ silver = <<>>
    /\ refreshes = 0
    /\ gold = [t \in Table |-> <<>>]
    /\ version = [t \in Table |-> 0]
    /\ author = [t \in Table |-> {}]
    /\ signals = <<>>
    /\ run = [r \in Run |-> NoAttempt]

-----------------------------------------------------------------------------
\* A commit of silver_clean.
RefreshSilver(keys) ==
    /\ refreshes < MaxRefreshes
    /\ DOMAIN silver \subseteq keys
    /\ silver' \in [keys -> BOOLEAN]
    /\ \A k \in keys : silver'[k] \in LabelsOf[k]
    /\ silver' # silver
    /\ refreshes' = refreshes + 1
    /\ UNCHANGED <<gold, version, author, signals, run>>

-----------------------------------------------------------------------------
\* Mutant of StartAttempt: attempts are not counted.
StartUncounted(r) ==
    /\ \/ run[r].pc = "retry"
       \/ /\ run[r].pc = "waiting"
          /\ refreshes > 0
          /\ Cardinality({s \in Run : Active(s)}) < MaxActiveRuns
    /\ run' = [run EXCEPT ![r] =
                  Attempt(r, IF run[r].task = "aggregate" THEN "cache" ELSE "read",
                          run[r].tries)]
    /\ UNCHANGED tables

\* The sensor has seen the Silver table, or the task is retried.
StartAttempt(r) ==
    /\ \/ run[r].pc = "retry"
       \/ /\ run[r].pc = "waiting"
          /\ refreshes > 0
          /\ Cardinality({s \in Run : Active(s)}) < MaxActiveRuns
    /\ run' = [run EXCEPT ![r] =
                  Attempt(r, IF run[r].task = "aggregate" THEN "cache" ELSE "read",
                          run[r].tries + 1)]
    /\ UNCHANGED tables

\* The sensor gives up after its timeout.
SensorTimeout(r) ==
    /\ run[r].pc = "waiting"
    /\ refreshes = 0
    /\ run' = [run EXCEPT ![r].pc = "failed"]
    /\ UNCHANGED tables

\* read_silver and .cache() fix the version of Silver that will be summarised.
CacheSilver(r) ==
    /\ run[r].pc = "cache"
    /\ run' = [run EXCEPT ![r].pc = "probe", ![r].frame = silver,
                          ![r].read = version]
    /\ UNCHANGED tables

\* _merge_or_create asks isDeltaTable.
ProbeTable(r) ==
    /\ run[r].pc = "probe"
    /\ run' = [run EXCEPT ![r].pc = "begin",
                  ![r].merge = version[run[r].table] > 0]
    /\ UNCHANGED tables

\* Mutant of BeginWrite: there is no cache, Silver is read for each table.
BeginUncached(r) ==
    /\ run[r].pc = "begin"
    /\ run' = [run EXCEPT ![r].pc = "commit",
                  ![r].base = version[run[r].table], ![r].frame = silver]
    /\ UNCHANGED tables

\* The write begins.
BeginWrite(r) ==
    /\ run[r].pc = "begin"
    /\ run' = [run EXCEPT ![r].pc = "commit",
                  ![r].base = version[run[r].table]]
    /\ UNCHANGED tables

\* Mutant of Written: a group that is there gets the new rows on top.
WrittenOnTop(summary, old, merge) ==
    [g \in DOMAIN summary \cup DOMAIN old |->
        IF g \notin DOMAIN summary THEN old[g]
        ELSE IF g \notin DOMAIN old THEN summary[g]
        ELSE [summary[g] EXCEPT !.total = @ + old[g].total]]

\* What a table has become when a summary is merged into it, or overwrites it.
Written(summary, old, merge) ==
    [g \in DOMAIN summary \cup (IF merge THEN DOMAIN old ELSE {}) |->
        IF g \in DOMAIN summary THEN summary[g] ELSE old[g]]

\* The MERGE, or mode("overwrite") although the table may exist by now.  After
\* daily_summary comes hourly_summary.
CommitTable(r) ==
    LET t == run[r].table
    IN  /\ run[r].pc = "commit"
        /\ run[r].base = version[t]
        /\ \E summary \in Summaries(t, run[r].frame) :
            gold' = [gold EXCEPT ![t] = Written(summary, @, run[r].merge)]
        /\ version' = [version EXCEPT ![t] = @ + 1]
        /\ author' = [author EXCEPT ![t] = IF run[r].read[t] = version[t]
                                           THEN {<<r, run[r].tries>>} ELSE {}]
        /\ run' = [run EXCEPT ![r].pc = IF t = "daily" THEN "probe" ELSE "push",
                              ![r].table = "hourly"]
        /\ UNCHANGED <<silver, refreshes, signals>>

\* The counts are returned and pushed; the next task of the run is queued.
FinishAggregate(r) ==
    /\ run[r].pc = "push"
    /\ run' = [run EXCEPT ![r] = [NoAttempt EXCEPT !.task = "score", !.pc = "retry",
                                     !.summed = DOMAIN run[r].frame]]
    /\ UNCHANGED tables

\* run_anomaly_detection: toPandas ...
ReadFeatures(r) ==
    /\ run[r].pc = "read"
    /\ run' = [run EXCEPT ![r].pc = "write", ![r].frame = silver]
    /\ UNCHANGED tables

\* Mutant of WriteSignals: only what is fraud is written.
WriteFrauds(r) ==
    /\ run[r].pc = "write"
    /\ signals' = [k \in {x \in DOMAIN run[r].frame : run[r].frame[x]} |-> TRUE]
    /\ run' = [run EXCEPT ![r].pc = "return"]
    /\ UNCHANGED <<silver, refreshes, gold, version, author>>

\* ... and, with the model fitted, fraud_signals is overwritten.
WriteSignals(r) ==
    /\ run[r].pc = "write"
    /\ signals' = run[r].frame
    /\ run' = [run EXCEPT ![r].pc = "return"]
    /\ UNCHANGED <<silver, refreshes, gold, version, author>>

FinishScore(r) ==
    /\ run[r].pc = "return"
    /\ run' = [run EXCEPT ![r] = Attempt(r, "done", run[r].tries)]
    /\ UNCHANGED tables

\* Mutant of Abandon: one retry too many.
AbandonLate(r) ==
    /\ run' = [run EXCEPT ![r] =
                  Attempt(r, IF run[r].tries <= Retries + 1 THEN "retry" ELSE "failed",
                          run[r].tries)]
    /\ UNCHANGED tables

\* An attempt ends by an exception.  If the task has failed for good so has the
\* run: what comes after it is not started.
Abandon(r) ==
    /\ run' = [run EXCEPT ![r] =
                  Attempt(r, IF run[r].tries <= Retries THEN "retry" ELSE "failed",
                          run[r].tries)]
    /\ UNCHANGED tables

\* The commit meets a later version of the table.
LoseCommit(r) ==
    /\ run[r].pc = "commit"
    /\ run[r].base # version[run[r].table]
    /\ Abandon(r)

\* Any other exception, or the loss of the worker.
FailAttempt(r) ==
    /\ Active(r) /\ run[r].pc # "retry"
    /\ Abandon(r)

GoldStep(r) ==
    \/ StartAttempt(r) \/ SensorTimeout(r) \/ CacheSilver(r) \/ ProbeTable(r)
    \/ BeginWrite(r) \/ CommitTable(r) \/ LoseCommit(r) \/ FinishAggregate(r) \/ ReadFeatures(r)
    \/ WriteSignals(r) \/ FinishScore(r)

Finished ==
    /\ \A r \in Run : run[r].pc \in {"done", "failed"}
    /\ UNCHANGED vars

Next ==
    \/ \E keys \in SUBSET Key : RefreshSilver(keys)
    \/ \E r \in Run : GoldStep(r) \/ FailAttempt(r)
    \/ Finished

Spec == Init /\ [][Next]_vars

\* Started tasks go on and the scheduler starts what may start.
FairSpec == Spec /\ \A r \in Run : WF_vars(GoldStep(r))

-----------------------------------------------------------------------------
\* Tables and runs have their types; no task has more attempts than allowed.
TypeOK ==
    /\ silver \in Snapshots
    /\ refreshes \in 0 .. MaxRefreshes
    /\ version \in [Table -> Nat]
    /\ signals \in Snapshots
    /\ \A t \in Table : \A g \in DOMAIN gold[t] :
        gold[t][g] \in [total : 1 .. Cardinality(Key), fraud : 0 .. Cardinality(Key),
                        bucket : Buckets \cup {"none"}]
    /\ run \in [Run -> [task : {"aggregate", "score"}, pc : PC,
                        tries : 0 .. Retries + 1, table : Table, merge : BOOLEAN,
                        base : Nat, frame : Snapshots, read : [Table -> Nat],
                        summed : SUBSET Key]]

\* A commit leaves no group of a summary out and lowers no total.
KeepsTotals(t) ==
    \A g \in DOMAIN gold[t] :
        /\ g \in DOMAIN gold'[t]
        /\ gold[t][g].total <= gold'[t][g].total

\* An attempt that no other has overtaken never takes a transaction out of a
\* summary, whatever attempts overlap and fail, and although a table may be
\* overwritten: its snapshot is at least as new as all that the table was
\* computed from (gold.py:124-137).
TotalsNeverShrink ==
    [][\A t \in Table : author'[t] # {} => KeepsTotals(t)]_vars

\* gold.py:1, "MERGE idempotency": no summary counts a transaction twice, or one
\* that Silver does not have, however often runs are retried and whatever older
\* snapshots overlapping runs write.
NothingCountedTwice ==
    \A t \in Table : \A g \in DOMAIN gold[t] :
        gold[t][g].total <= Cardinality(Members(t, silver, g))

\* The hours of a day add up to the day, in transactions and in frauds.
HoursAddUp ==
    \A d \in DOMAIN gold["daily"] :
        LET hours == {g \in DOMAIN gold["hourly"] : g[1] = d[1]}
        IN  /\ gold["daily"][d].total =
                   SumFunction([g \in hours |-> gold["hourly"][g].total])
            /\ gold["daily"][d].fraud =
                   SumFunction([g \in hours |-> gold["hourly"][g].fraud])

\* gold.py:126-137: one attempt writes both summaries from one cached snapshot.
\* So whenever one attempt made the last commits to the two tables, overtaken at
\* neither, the summaries agree with each other, whatever Silver, other runs and
\* attempts that stopped between the two commits have done.
SummariesAgree == author["daily"] \cap author["hourly"] # {} => HoursAddUp

\* gold_aggregate.py:96, aggregate_task >> anomaly_task: the signals a run
\* writes cover every transaction that the same run has summarised, also if
\* the scoring task was retried while Silver changed.
SignalsCoverSummary ==
    [][\A r \in Run : run[r].pc = "write" /\ run'[r].pc = "return" =>
            run[r].summed \subseteq DOMAIN signals']_vars

\* A key that is in Silver when a run has not started gets a signal, and its
\* day and its hour a row, or the run uses up its retries.  (Each at some time:
\* an overlapping run with an older snapshot may take a signal or an hour away.)
KeysReachGold ==
    \A r \in Run : \A k \in Key :
        LET Due == run[r].pc = "waiting" /\ k \in DOMAIN silver
            Failed == run[r].pc = "failed"
        IN  /\ Due ~> (k \in DOMAIN signals \/ Failed)
            /\ \A t \in Table : Due ~> (GroupOf(t, k) \in DOMAIN gold[t] \/ Failed)

\* README.md:269: "all writes safe to replay", "update existing rows": while
\* Silver only grows, the total of a date or of an hour never goes down.
SummariesNeverShrink == [][\A t \in Table : KeepsTotals(t)]_vars
=============================================================================
