------------------------------ MODULE Pipeline ------------------------------
(***************************************************************************)
(* The whole pipeline, day by day: the tasks of the four DAGs (dags/), the *)
(* tables they share, the alerts of utils/slack_alerts.py, and the scripts *)
(* that are run by hand on the same tables (scripts/run_pipeline.py,       *)
(* benchmark.py, simulate_tamper.py, run_anomaly_demo.py; Makefile and     *)
(* docker-compose.yaml give them one data directory).                      *)
(*                                                                         *)
(* A table is the set of row_keys that its rows stand for; the manifest    *)
(* table is the keys that the root of its newest record covers.  What a    *)
(* stage does to a table is what the modules BronzeAudit, Silver and Gold  *)
(* establish of it for runs one at a time.  The four runs of a day go on   *)
(* together; they have ended, with their few retries minutes apart, when   *)
(* the scheduler makes those of the next day.  Scripts are run between.    *)
(***************************************************************************)
EXTENDS Naturals

CONSTANTS
    Key,            \* values of row_key
    GroupOf,        \* the group of a key in the daily and the hourly summary
    FirstFile,      \* the keys of the CSV at the start
    Unscorable,     \* keys of rows with a NULL among V1-V28
    MaxDay,         \* bound: days
    DataRetries,    \* retries of the tasks that move data
    CheckRetries,   \* retries of verify_bronze_integrity
    MaxMishaps      \* bound: failing attempts, lost posts and scripts, in all

ASSUME FileAssumption == FirstFile \subseteq Key
ASSUME NumbersAssumption ==
    /\ MaxDay \in Nat /\ DataRetries \in Nat /\ CheckRetries \in Nat
    /\ MaxMishaps \in Nat

VARIABLES
    day,        \* the day of the scheduled runs
    file,       \* the keys of the CSV
    due,        \* the first day whose ingest is sure to see a key of the file
    table,      \* the keys in each table
    made,       \* the tables whose directory exists
    edited,     \* does a row of Bronze differ from its row_hash?
    task,       \* the tasks of today's runs
    posted,     \* DAGs with an alert of today in the Slack channel
    excused,    \* keys of which a post said that a DAG on their way has failed
    alarmed,    \* has today's check got past its own alert for an edited row?
    lost,       \* posts that did not get through
    mishaps     \* see MaxMishaps

data == <<file, due, table, made, edited>>
slack == <<posted, excused, lost, mishaps>>
vars == <<day, data, task, slack, alarmed>>

-----------------------------------------------------------------------------
Stages == <<"bronze", "manifest", "silver", "daily", "hourly">>
Table == {"bronze", "manifest", "silver", "daily", "hourly", "signals"}
Task == {"ingest", "clean", "aggregate", "score", "verify"}
DAG == {"bronze_ingest", "silver_clean", "gold_aggregate", "integrity_check"}
Running == {"holding", "half", "ending", "alerting", "raising"}
Over == {"done", "failed", "upstream_failed"}
TaskState == [pc : {"queued", "retry", "callback"} \cup Running \cup Over, tries : Nat,
              frame : SUBSET Key]

DagOf(t) == CASE t = "ingest" -> "bronze_ingest"
              [] t = "clean" -> "silver_clean"
              [] t = "verify" -> "integrity_check"
              [] OTHER -> "gold_aggregate"

Retries(t) == IF t = "verify" THEN CheckRetries ELSE DataRetries

\* A task that no attempt of is under way.
Idle(pc) == [pc |-> pc, tries |-> 0, frame |-> {}]

\* The directory that the sensor before a task looks for, and the table that
\* an attempt then reads.
Awaited(t) == CASE t = "clean" -> "bronze" [] t = "verify" -> "manifest"
                [] t = "aggregate" -> "silver"
Source(t) == IF t \in {"clean", "verify"} THEN table["bronze"]
             ELSE IF t = "ingest" THEN {} ELSE table["silver"]

Settled == \A t \in Task : task[t].pc \in Over

\* Keys of a summary after a MERGE: the row of a group is replaced as a whole.
MergeGroups(summary, old, snapshot) ==
    snapshot \cup {k \in old : \A s \in snapshot :
                                   GroupOf[summary][s] # GroupOf[summary][k]}

Init ==
    /\ day = 0
    /\ file = FirstFile
    /\ due = [k \in Key |-> 1]
    /\ table = [x \in Table |-> {}]
    /\ made = {}
    /\ edited = FALSE
    /\ task = [t \in Task |-> Idle("done")]
    /\ posted = {} /\ excused = {} /\ alarmed = FALSE
    /\ lost = 0 /\ mishaps = 0

-----------------------------------------------------------------------------
Mishap == mishaps < MaxMishaps /\ mishaps' = mishaps + 1

\* Keys that are on their way: due today or on one of the two days before.
OnTheWay == {k \in file : due[k] <= day /\ day <= due[k] + 2}

\* send_failure_alert: posts, or logs why it could not; without a webhook URL
\* no post gets through.
Send(dag) ==
    \/ /\ posted' = posted \cup {dag}
       /\ excused' = IF dag = "integrity_check" THEN excused
                     ELSE excused \cup OnTheWay
       /\ UNCHANGED <<lost, mishaps>>
    \/ /\ Mishap
       /\ lost' = lost + 1
       /\ UNCHANGED <<posted, excused>>

Goto(t, pc) == task' = [task EXCEPT ![t].pc = pc]
End(t, pc) == task' = [task EXCEPT ![t] = Idle(pc)]

\* Mutant of CanRetry: one retry too many.
CanRetryOnceMore(t) == task[t].tries <= Retries(t) + 1

CanRetry(t) == task[t].tries <= Retries(t)

\* Mutant of AfterTimeout: a sensor has no on_failure_callback.
NoCallback == "failed"

AfterTimeout == "callback"

\* An attempt ends by an exception: only a task that has failed for good has
\* its on_failure_callback called.
EndAttempt(t) ==
    task' = [task EXCEPT ![t].pc = IF CanRetry(t) THEN "retry" ELSE "callback",
                         ![t].frame = {}]

\* The sensor before the task has seen its directory; the anomaly task follows
\* the aggregation in one DAG.
Released(t) ==
    CASE t = "ingest" -> TRUE
      [] t = "score" -> task["aggregate"].pc = "done"
      [] OTHER -> Awaited(t) \in made

\* Mutant of Attempts: a new attempt does not count.
AttemptsUncounted(t) == task[t].tries

Attempts(t) == task[t].tries + 1

\* An attempt starts, and reads the table it works on.
Start(t) ==
    /\ \/ task[t].pc = "retry"
       \/ task[t].pc = "queued" /\ Released(t)
    /\ task' = [task EXCEPT ![t] = [pc |-> "holding", tries |-> Attempts(t),
                                    frame |-> Source(t)]]
    /\ UNCHANGED <<day, data, slack, alarmed>>

\* A sensor that times out fails at once: it is not retried.
SensorTimeout(t) ==
    /\ t \in {"clean", "aggregate", "verify"}
    /\ task[t].pc = "queued"
    /\ Awaited(t) \notin made
    /\ Goto(t, AfterTimeout)
    /\ UNCHANGED <<day, data, slack, alarmed>>

Callback(t) ==
    /\ task[t].pc = "callback"
    /\ End(t, "failed")
    /\ Send(DagOf(t))
    /\ UNCHANGED <<day, data, alarmed>>

\* The anomaly task is not started, and no callback called.
UpstreamFailed ==
    /\ task["score"].pc = "queued"
    /\ task["aggregate"].pc = "failed"
    /\ End("score", "upstream_failed")
    /\ UNCHANGED <<day, data, slack, alarmed>>

\* A commit of task t at pc, which takes it on to next.
Commit(t, pc, next, x, keys) ==
    /\ task[t].pc = pc
    /\ table' = [table EXCEPT ![x] = keys]
    /\ made' = made \cup {x}
    /\ Goto(t, next)
    /\ UNCHANGED <<day, file, due, edited, slack, alarmed>>

\* run_bronze, with write_manifest as its last step.
IngestBronze == Commit("ingest", "holding", "half", "bronze", table["bronze"] \cup file)

\* Mutant of Covered: the root is that of the rows the MERGE has inserted.
CoveredByInsert == file \ table["silver"]

Covered == file
RecordManifest == Commit("ingest", "half", "ending", "manifest", Covered)

MergeSilver ==
    Commit("clean", "holding", "ending", "silver",
           table["silver"] \cup task["clean"].frame)

\* Mutant of Summarised: what has been scored before is not counted again.
SummarisedOnce == task["aggregate"].frame \ table["signals"]

Summarised == task["aggregate"].frame

MergeSummary(summary, pc, next) ==
    Commit("aggregate", pc, next, summary,
           MergeGroups(summary, table[summary], Summarised))

\* clf.fit raises on a NULL, which is NaN in the pandas frame.
Scorable(keys) == keys \cap Unscorable = {}

WriteSignals ==
    /\ Scorable(task["score"].frame)
    /\ Commit("score", "holding", "ending", "signals", task["score"].frame)

FitRaises ==
    /\ task["score"].pc = "holding"
    /\ ~Scorable(task["score"].frame)
    /\ EndAttempt("score")
    /\ UNCHANGED <<day, data, slack, alarmed>>

\* verify_bronze_integrity compares what it has read with the newest manifest.
Compare ==
    /\ task["verify"].pc = "holding"
    /\ IF edited \/ task["verify"].frame # table["manifest"]
       THEN Goto("verify", "alerting")
       ELSE End("verify", "done")
    /\ UNCHANGED <<day, data, slack, alarmed>>

\* Mutant of AfterAlert: the check returns after its alert.
ReturnsAfterAlert == "ending"

AfterAlert == "raising"

\* _run_integrity_check posts an alert of its own ...
AlertViolation ==
    /\ task["verify"].pc = "alerting"
    /\ Send("integrity_check")
    /\ alarmed' = edited
    /\ Goto("verify", AfterAlert)
    /\ UNCHANGED <<day, data>>

\* ... and raises.
RaiseViolation ==
    /\ task["verify"].pc = "raising"
    /\ EndAttempt("verify")
    /\ UNCHANGED <<day, data, slack, alarmed>>

\* The result is pushed and Spark stopped.
Finish(t) ==
    /\ task[t].pc = "ending"
    /\ End(t, "done")
    /\ UNCHANGED <<day, data, slack, alarmed>>

\* An attempt raises, or its worker is lost, anywhere.
Fail(t) ==
    /\ task[t].pc \in Running
    /\ Mishap
    /\ EndAttempt(t)
    /\ UNCHANGED <<day, data, posted, excused, lost, alarmed>>

TaskStep ==
    \/ \E t \in Task : Start(t) \/ SensorTimeout(t) \/ Callback(t) \/ Finish(t)
    \/ UpstreamFailed
    \/ IngestBronze \/ RecordManifest
    \/ MergeSilver
    \/ MergeSummary("daily", "holding", "half")
    \/ MergeSummary("hourly", "half", "ending")
    \/ WriteSignals \/ FitRaises
    \/ Compare \/ AlertViolation \/ RaiseViolation

\* The scheduler makes the four runs of the next day.
NextDay ==
    /\ Settled
    /\ day < MaxDay
    /\ day' = day + 1
    /\ task' = [t \in Task |-> Idle("queued")]
    /\ posted' = {} /\ alarmed' = FALSE
    /\ UNCHANGED <<data, excused, lost, mishaps>>

-----------------------------------------------------------------------------
\* A longer file is put in place.  Only an ingest reads the file, so a delivery
\* while it is queued is one before the day, and a delivery after it is one
\* after the day; none falls between the reads of an attempt.
DeliverCsv(keys) ==
    /\ keys # {} /\ keys \cap file = {}
    /\ Settled \/ task["ingest"].pc = "retry"
    /\ day + 1 < MaxDay
    /\ file' = file \cup keys
    /\ due' = [k \in Key |-> IF k \in keys THEN day + 1 ELSE due[k]]
    /\ UNCHANGED <<day, table, made, edited, task, slack, alarmed>>

Script ==
    /\ Settled
    /\ Mishap
    /\ UNCHANGED <<day, file, due, task, posted, excused, lost, alarmed>>

\* run_pipeline.py: the stages in order, up to the one that raises, if any.
LocalRun(last) ==
    LET bronze == table["bronze"] \cup file
        silver == table["silver"] \cup bronze
        After == [bronze |-> bronze, manifest |-> file, silver |-> silver,
                  daily |-> MergeGroups("daily", table["daily"], silver),
                  hourly |-> MergeGroups("hourly", table["hourly"], silver),
                  signals |-> table["signals"]]
        reached == {Stages[i] : i \in 1 .. last}
    IN  /\ Script
        /\ table' = [x \in Table |-> IF x \in reached THEN After[x] ELSE table[x]]
        /\ made' = made \cup reached
        /\ UNCHANGED edited

\* benchmark.py: Silver is wiped before and after each run of silver_clean; if
\* a run raises the script stops, with Silver absent or rebuilt.
Benchmark(rebuilt) ==
    /\ Script
    /\ rebuilt => "bronze" \in made
    /\ table' = [table EXCEPT !["silver"] = IF rebuilt THEN table["bronze"] ELSE {}]
    /\ made' = IF rebuilt THEN made \cup {"silver"} ELSE made \ {"silver"}
    /\ UNCHANGED edited

\* simulate_tamper.py: the first row of the first file changes.  It posts no
\* alert.  The file may be one that a failed write has left behind.
SimulateTamper(hit) ==
    /\ Script
    /\ table["bronze"] # {}
    /\ edited' = (edited \/ hit)
    /\ UNCHANGED <<table, made>>

\* run_anomaly_demo.py: the anomaly task by hand.
AnomalyDemo ==
    /\ Script
    /\ "silver" \in made /\ Scorable(table["silver"])
    /\ table' = [table EXCEPT !["signals"] = table["silver"]]
    /\ made' = made \cup {"signals"}
    /\ UNCHANGED edited

Finished == day = MaxDay /\ Settled /\ UNCHANGED vars

Next ==
    \/ TaskStep
    \/ \E t \in Task : Fail(t)
    \/ NextDay
    \/ \E keys \in SUBSET Key : DeliverCsv(keys)
    \/ \E last \in 1 .. 5 : LocalRun(last)
    \/ \E b \in BOOLEAN : Benchmark(b) \/ SimulateTamper(b)
    \/ AnomalyDemo
    \/ Finished

Spec == Init /\ [][Next]_vars

\* What has been started goes on, the scheduler starts what may start, sensors
\* time out, and days pass.  Nothing makes a fault, a file or a script happen.
FairSpec == Spec /\ WF_vars(TaskStep) /\ WF_vars(NextDay)

-----------------------------------------------------------------------------
\* Every variable has its type; no task has more attempts than it is allowed.
TypeOK ==
    /\ day \in 0 .. MaxDay
    /\ file \in SUBSET Key
    /\ due \in [Key -> Nat]
    /\ table \in [Table -> SUBSET Key]
    /\ made \in SUBSET Table
    /\ edited \in BOOLEAN
    /\ task \in [Task -> TaskState]
    /\ \A t \in Task : task[t].tries <= Retries(t) + 1
    /\ posted \in SUBSET DAG
    /\ excused \in SUBSET Key
    /\ alarmed \in BOOLEAN
    /\ lost \in Nat /\ mishaps \in 0 .. MaxMishaps

\* The sensors only look for directories, so a stage may run on what yesterday
\* left.  Still, on the third evening a key is in both summaries and in the
\* signals, or on one of the three days a failure of a DAG on its way has been
\* posted; unless a post was lost.
LateDataIsReported ==
    \A k \in file :
        /\ lost = 0
        /\ day + (IF Settled THEN 1 ELSE 0) > due[k] + 2
        => k \in (table["daily"] \cap table["hourly"] \cap table["signals"]) \cup excused

\* A summary never forgets a transaction: a MERGE replaces the row of a group,
\* and what it is computed from always has every key of the old row, although
\* Silver may have been wiped by benchmark.py in between.
SummariesKeepKeys ==
    [][\A summary \in {"daily", "hourly"} : table[summary] \subseteq table'[summary]]_vars

\* integrity_check.py:101-102: the check posts and raises.  So, with at most one
\* post lost, a day whose check has come to its alert about an edited row ends
\* with an alert in the channel, although the retry may die on the way.
EditIsPosted ==
    alarmed /\ task["verify"].pc \in Over /\ lost <= 1
        => "integrity_check" \in posted

\* A check that reads Bronze when the ingest of its day is done finds in it what
\* the newest manifest covers, whatever earlier days and scripts have left half
\* done.  (Before that it may not: run check_during_ingest.)
CheckAfterIngestMatches ==
    [][/\ task["ingest"].pc = "done"
       /\ task["verify"].pc # "holding" /\ task'["verify"].pc = "holding"
       => task'["verify"].frame = table["manifest"]]_vars

\* Every day ends, whatever is missing, raises or cannot be posted.
DaysPass == <>(day = MaxDay /\ Settled)
=============================================================================
