--------------------------- MODULE PipelineProofs ---------------------------
(***************************************************************************)
(* Theorems about Pipeline, for any keys, groups, days, retries, mishaps.  *)
(***************************************************************************)
EXTENDS Pipeline, TLAPS

\* TypeOK made inductive: a task that waits has made no attempt, and one that
\* is up for retry has one left.
TypeInv ==
    /\ TypeOK
    /\ \A t \in Task :
        /\ task[t].pc = "queued" => task[t].tries = 0
        /\ task[t].pc = "retry" => task[t].tries <= Retries(t)

LEMMA RetriesAreNumbers == \A t : Retries(t) \in Nat
  BY NumbersAssumption DEF Retries

LEMMA IdleIsState ==
  \A pc \in {"queued", "retry", "callback"} \cup Running \cup Over :
      Idle(pc) \in TaskState
  BY DEF Idle, TaskState

\* A step of task t to state s keeps the part of TypeInv that speaks of tasks.
TaskTypes(tasks) ==
    /\ tasks \in [Task -> TaskState]
    /\ \A t \in Task :
        /\ tasks[t].tries <= Retries(t) + 1
        /\ tasks[t].pc = "queued" => tasks[t].tries = 0
        /\ tasks[t].pc = "retry" => tasks[t].tries <= Retries(t)

LEMMA GotoTypes ==
  ASSUME TypeInv, NEW t \in Task,
         NEW pc \in ({"queued", "retry", "callback"} \cup Running \cup Over) \ {"queued", "retry"},
         Goto(t, pc)
  PROVE  TaskTypes(task')
  BY DEF TypeInv, TypeOK, Goto, TaskTypes, TaskState

LEMMA EndTypes ==
  ASSUME TypeInv, NEW t \in Task, NEW pc \in Over, End(t, pc)
  PROVE  TaskTypes(task')
  BY RetriesAreNumbers DEF TypeInv, TypeOK, End, Idle, TaskTypes, TaskState, Over

LEMMA EndAttemptTypes ==
  ASSUME TypeInv, NEW t \in Task, EndAttempt(t)
  PROVE  TaskTypes(task')
  BY RetriesAreNumbers DEF TypeInv, TypeOK, EndAttempt, CanRetry, TaskTypes, TaskState

LEMMA StartTypes ==
  ASSUME TypeInv, NEW t \in Task, Start(t)
  PROVE  TaskTypes(task')
<1>1. Source(t) \in SUBSET Key
  BY DEF TypeInv, TypeOK, Source, Table
<1>2. Attempts(t) \in Nat /\ Attempts(t) <= Retries(t) + 1
  BY RetriesAreNumbers DEF Start, Attempts, TypeInv, TypeOK, TaskState
<1>. QED
  BY <1>1, <1>2 DEF Start, TypeInv, TypeOK, TaskTypes, TaskState, Running

\* The part of TypeInv that does not speak of tasks, and the whole of it.
OtherTypes ==
    /\ day \in 0 .. MaxDay
    /\ file \in SUBSET Key
    /\ due \in [Key -> Nat]
    /\ table \in [Table -> SUBSET Key]
    /\ made \in SUBSET Table
    /\ edited \in BOOLEAN
    /\ posted \in SUBSET DAG
    /\ excused \in SUBSET Key
    /\ alarmed \in BOOLEAN
    /\ lost \in Nat /\ mishaps \in 0 .. MaxMishaps

LEMMA TypeParts == TypeInv <=> OtherTypes /\ TaskTypes(task)
  BY DEF TypeInv, TypeOK, OtherTypes, TaskTypes

LEMMA CommitTypes ==
  ASSUME TypeInv, NEW t \in Task, NEW pc,
         NEW next \in {"half", "ending"}, NEW x \in Table, NEW keys \in SUBSET Key,
         Commit(t, pc, next, x, keys)
  PROVE  OtherTypes' /\ TaskTypes(task')
<1>1. TaskTypes(task')
  BY GotoTypes DEF Commit, Running
<1>2. OtherTypes'
  BY TypeParts DEF OtherTypes, Commit, slack
<1>. QED
  BY <1>1, <1>2

LEMMA SendTypes ==
  ASSUME TypeInv, NEW dag \in DAG, Send(dag)
  PROVE  /\ posted' \in SUBSET DAG
         /\ excused' \in SUBSET Key
         /\ lost' \in Nat /\ mishaps' \in 0 .. MaxMishaps
  BY NumbersAssumption DEF Send, Mishap, OnTheWay, TypeInv, TypeOK

LEMMA MergeGroupsKeys ==
  ASSUME NEW summary, NEW old, NEW snapshot
  PROVE  /\ snapshot \subseteq MergeGroups(summary, old, snapshot)
         /\ MergeGroups(summary, old, snapshot) \subseteq snapshot \cup old
  BY DEF MergeGroups

LEMMA TaskStepTypes ==
  ASSUME TypeInv, TaskStep
  PROVE  OtherTypes' /\ TaskTypes(task')
<1>1. ASSUME NEW t \in Task, Start(t) PROVE OtherTypes' /\ TaskTypes(task')
  BY <1>1, StartTypes, TypeParts DEF Start, OtherTypes, data, slack
<1>2. ASSUME NEW t \in Task, SensorTimeout(t) PROVE OtherTypes' /\ TaskTypes(task')
  BY <1>2, GotoTypes, TypeParts DEF SensorTimeout, AfterTimeout, OtherTypes, data, slack
<1>3. ASSUME NEW t \in Task, Callback(t) PROVE OtherTypes' /\ TaskTypes(task')
  <2>1. DagOf(t) \in DAG
    BY DEF DagOf, DAG
  <2>. QED
    BY <1>3, <2>1, EndTypes, SendTypes, TypeParts DEF Callback, OtherTypes, data, Over
<1>4. ASSUME NEW t \in Task, Finish(t) PROVE OtherTypes' /\ TaskTypes(task')
  BY <1>4, EndTypes, TypeParts DEF Finish, OtherTypes, data, slack, Over
<1>5. CASE UpstreamFailed
  BY <1>5, EndTypes, TypeParts DEF UpstreamFailed, OtherTypes, data, slack, Over, Task
<1>6. CASE IngestBronze
  <2>1. table["bronze"] \cup file \in SUBSET Key
    BY TypeParts DEF OtherTypes, Table
  <2>. QED
    BY <1>6, <2>1, CommitTypes DEF IngestBronze, Task, Table
<1>7. CASE RecordManifest
  <2>1. Covered \in SUBSET Key
    BY TypeParts DEF OtherTypes, Covered
  <2>. QED
    BY <1>7, <2>1, CommitTypes DEF RecordManifest, Task, Table
<1>8. CASE MergeSilver
  <2>1. table["silver"] \cup task["clean"].frame \in SUBSET Key
    BY TypeParts DEF OtherTypes, TaskTypes, TaskState, Table, Task
  <2>. QED
    BY <1>8, <2>1, CommitTypes DEF MergeSilver, Task, Table
<1>9. ASSUME NEW summary \in {"daily", "hourly"}, NEW pc, NEW next \in {"half", "ending"},
             MergeSummary(summary, pc, next)
      PROVE  OtherTypes' /\ TaskTypes(task')
  <2>1. MergeGroups(summary, table[summary], Summarised) \in SUBSET Key
    BY TypeParts, MergeGroupsKeys DEF OtherTypes, TaskTypes, TaskState, Table, Task, Summarised
  <2>. QED
    BY <1>9, <2>1, CommitTypes DEF MergeSummary, Task, Table
<1>10. CASE WriteSignals
  <2>1. task["score"].frame \in SUBSET Key
    BY TypeParts DEF TaskTypes, TaskState, Task
  <2>. QED
    BY <1>10, <2>1, CommitTypes DEF WriteSignals, Task, Table
<1>11. CASE Compare
  BY <1>11, GotoTypes, EndTypes, TypeParts DEF Compare, OtherTypes, data, slack, Over, Running, Task
<1>12. CASE AlertViolation
  BY <1>12, GotoTypes, SendTypes, TypeParts
  DEF AlertViolation, AfterAlert, OtherTypes, data, DAG, Running, Task
<1>13. CASE RaiseViolation \/ FitRaises
  BY <1>13, EndAttemptTypes, TypeParts
  DEF RaiseViolation, FitRaises, OtherTypes, data, slack, Task
<1>. QED
  BY <1>1, <1>2, <1>3, <1>4, <1>5, <1>6, <1>7, <1>8, <1>9, <1>10, <1>11, <1>12, <1>13
  DEF TaskStep

LEMMA TypeStep ==
  ASSUME TypeInv, [Next]_vars
  PROVE  TypeInv'
<1>. SUFFICES ASSUME TRUE PROVE OtherTypes' /\ TaskTypes(task')
  BY DEF TypeInv, TypeOK, OtherTypes, TaskTypes
<1>1. CASE TaskStep
  BY <1>1, TaskStepTypes
<1>2. ASSUME NEW t \in Task, Fail(t) PROVE OtherTypes' /\ TaskTypes(task')
  BY <1>2, EndAttemptTypes, TypeParts, NumbersAssumption DEF Fail, Mishap, OtherTypes, data
<1>3. CASE NextDay
  <2>1. TaskTypes(task')
    BY <1>3, RetriesAreNumbers, IdleIsState DEF NextDay, TaskTypes, Idle
  <2>2. day' \in 0 .. MaxDay
    BY <1>3, TypeParts, NumbersAssumption DEF NextDay, OtherTypes
  <2>. QED
    BY <1>3, <2>1, <2>2, TypeParts, Zenon DEF NextDay, OtherTypes, data
<1>4. ASSUME NEW keys \in SUBSET Key, DeliverCsv(keys) PROVE OtherTypes' /\ TaskTypes(task')
  BY <1>4, TypeParts DEF DeliverCsv, OtherTypes, TaskTypes, slack
<1>5. ASSUME NEW last \in 1 .. 5, LocalRun(last) PROVE OtherTypes' /\ TaskTypes(task')
  <2>1. {Stages[i] : i \in 1 .. last} \subseteq Table
    BY DEF Stages, Table
  <2>2. table' \in [Table -> SUBSET Key]
    BY <1>5, TypeParts, MergeGroupsKeys DEF LocalRun, OtherTypes, Table
  <2>3. /\ mishaps' \in 0 .. MaxMishaps /\ edited' = edited
        /\ UNCHANGED <<day, file, due, task, posted, excused, lost, alarmed>>
    BY <1>5, TypeParts, NumbersAssumption DEF LocalRun, Script, Mishap, OtherTypes
  <2>4. made' \in SUBSET Table
    BY <1>5, <2>1, TypeParts DEF LocalRun, OtherTypes
  <2>. QED
    BY <2>2, <2>3, <2>4, TypeParts DEF OtherTypes, TaskTypes
<1>6. ASSUME NEW b \in BOOLEAN, Benchmark(b) PROVE OtherTypes' /\ TaskTypes(task')
  BY <1>6, TypeParts, NumbersAssumption
  DEF Benchmark, Script, Mishap, OtherTypes, TaskTypes, Table
<1>7. ASSUME NEW b \in BOOLEAN, SimulateTamper(b) PROVE OtherTypes' /\ TaskTypes(task')
  BY <1>7, TypeParts, NumbersAssumption
  DEF SimulateTamper, Script, Mishap, OtherTypes, TaskTypes
<1>8. CASE AnomalyDemo
  BY <1>8, TypeParts, NumbersAssumption
  DEF AnomalyDemo, Script, Mishap, OtherTypes, TaskTypes, Table
<1>9. CASE Finished \/ UNCHANGED vars
  BY <1>9, TypeParts DEF Finished, vars, data, slack, OtherTypes, TaskTypes
<1>. QED
  BY <1>1, <1>2, <1>3, <1>4, <1>5, <1>6, <1>7, <1>8, <1>9 DEF Next

LEMMA TypeInit == Init => TypeInv
<1>. SUFFICES ASSUME Init PROVE OtherTypes /\ TaskTypes(task)
  BY TypeParts
<1>1. TaskTypes(task)
  BY RetriesAreNumbers, IdleIsState DEF Init, TaskTypes, Idle, Over
<1>2. OtherTypes
  <2>1. day \in 0 .. MaxDay /\ mishaps \in 0 .. MaxMishaps /\ lost \in Nat
    BY NumbersAssumption DEF Init
  <2>2. file \in SUBSET Key /\ due \in [Key -> Nat] /\ table \in [Table -> SUBSET Key]
    BY FileAssumption DEF Init
  <2>. QED
    BY <2>1, <2>2, Zenon DEF Init, OtherTypes
<1>. QED
  BY <1>1, <1>2

\* TypeOK of Pipeline: no task is attempted more often than its DAG's
\* DEFAULT_ARGS allow.
THEOREM TypeCorrect == Spec => []TypeOK
<1>1. TypeInv => TypeOK
  BY DEF TypeInv
<1>. QED
  BY <1>1, TypeInit, TypeStep, PTL DEF Spec

-----------------------------------------------------------------------------
(* SummariesKeepKeys. *)

InGold == table["daily"] \cup table["hourly"]

\* A stage holds what the stage after it has been given.  Of Silver that is
\* true only while its directory is there; when it is not, nothing but a
\* rebuild from Bronze brings it back, and no aggregation runs before that.
LineageInv ==
    /\ table["silver"] \subseteq table["bronze"]
    /\ InGold \subseteq table["bronze"]
    /\ IF "silver" \in made THEN InGold \subseteq table["silver"]
                            ELSE table["silver"] = {}
    /\ task["clean"].pc = "holding" =>
        /\ task["clean"].frame \subseteq table["bronze"]
        /\ "silver" \notin made => InGold \subseteq task["clean"].frame
    /\ task["aggregate"].pc \in {"retry"} \cup Running => "silver" \in made
    /\ task["aggregate"].pc \in {"holding", "half"} =>
        /\ InGold \subseteq task["aggregate"].frame
        /\ task["aggregate"].frame \subseteq table["silver"]

LEMMA LineageTask ==
  ASSUME TypeInv, LineageInv, TaskStep
  PROVE  LineageInv'
<1>. USE DEF TypeInv, TypeOK, InGold, LineageInv, Task, Table, Running
<1>1. ASSUME NEW t \in Task, Start(t) PROVE LineageInv'
  BY <1>1 DEF Start, Released, Awaited, Source, data, TaskState
<1>2. ASSUME NEW t \in Task, SensorTimeout(t) PROVE LineageInv'
  BY <1>2 DEF SensorTimeout, AfterTimeout, Goto, data
<1>3. ASSUME NEW t \in Task, Callback(t) PROVE LineageInv'
  BY <1>3 DEF Callback, End, Idle, data
<1>4. ASSUME NEW t \in Task, Finish(t) PROVE LineageInv'
  BY <1>4 DEF Finish, End, Idle, data
<1>5. CASE UpstreamFailed
  BY <1>5 DEF UpstreamFailed, End, Idle, data
<1>6. CASE IngestBronze
  BY <1>6 DEF IngestBronze, Commit, Goto
<1>7. CASE RecordManifest
  BY <1>7 DEF RecordManifest, Commit, Goto
<1>8. CASE MergeSilver
  BY <1>8 DEF MergeSilver, Commit, Goto
<1>9. ASSUME NEW summary \in {"daily", "hourly"}, NEW pc \in {"holding", "half"},
             NEW next \in {"half", "ending"}, MergeSummary(summary, pc, next)
      PROVE  LineageInv'
  <2>. DEFINE keys == MergeGroups(summary, table[summary], Summarised)
  <2>0. table[summary] \subseteq task["aggregate"].frame
    BY <1>9 DEF MergeSummary, Commit
  <2>1. keys = task["aggregate"].frame
    <3>1. /\ Summarised \subseteq keys
          /\ keys \subseteq Summarised \cup table[summary]
      BY MergeGroupsKeys, Zenon
    <3>. QED
      BY <2>0, <3>1 DEF Summarised
  <2>. HIDE DEF keys
  <2>2. Commit("aggregate", pc, next, summary, keys)
    BY <1>9 DEF MergeSummary, keys
  <2>. QED
    BY <2>1, <2>2 DEF Commit, Goto
<1>10. CASE WriteSignals
  BY <1>10 DEF WriteSignals, Commit, Goto
<1>11. CASE Compare
  BY <1>11 DEF Compare, Goto, End, Idle, data
<1>12. CASE AlertViolation
  BY <1>12 DEF AlertViolation, AfterAlert, Goto, data
<1>13. CASE RaiseViolation \/ FitRaises
  BY <1>13 DEF RaiseViolation, FitRaises, EndAttempt, data
<1>. QED
  BY <1>1, <1>2, <1>3, <1>4, <1>5, <1>6, <1>7, <1>8, <1>9, <1>10, <1>11, <1>12, <1>13
  DEF TaskStep

\* Which tables a local run that gets as far as its last-th stage has written.
LEMMA Reached ==
  ASSUME NEW last \in 1 .. 5
  PROVE  LET reached == {Stages[i] : i \in 1 .. last}
         IN  /\ "bronze" \in reached
             /\ "daily" \in reached \/ "hourly" \in reached => "silver" \in reached
  BY DEF Stages

LEMMA LineageScripts ==
  ASSUME TypeInv, LineageInv,
         \/ \E last \in 1 .. 5 : LocalRun(last)
         \/ \E b \in BOOLEAN : Benchmark(b) \/ SimulateTamper(b)
         \/ AnomalyDemo
  PROVE  LineageInv'
<1>1. ASSUME Settled, UNCHANGED task
      PROVE  /\ task'["clean"].pc # "holding"
             /\ task'["aggregate"].pc \notin {"retry"} \cup Running
  BY <1>1 DEF Settled, Over, Running, Task
<1>2. ASSUME NEW last \in 1 .. 5, LocalRun(last) PROVE LineageInv'
  <2>. DEFINE reached == {Stages[i] : i \in 1 .. last}
              bronze == table["bronze"] \cup file
              silver == table["silver"] \cup bronze
  <2>1. /\ "bronze" \in reached
        /\ "daily" \in reached \/ "hourly" \in reached => "silver" \in reached
    BY Reached
  <2>2. made' = made \cup reached
    BY <1>2 DEF LocalRun
  <2>3. /\ table'["bronze"] = bronze
        /\ table'["silver"] = IF "silver" \in reached THEN silver ELSE table["silver"]
        /\ \A x \in {"daily", "hourly"} :
            table'[x] = IF x \in reached THEN MergeGroups(x, table[x], silver)
                                         ELSE table[x]
    BY <1>2, <2>1 DEF LocalRun, Table
  <2>. HIDE DEF reached
  <2>4. \A x \in {"daily", "hourly"} : x \in reached => table'[x] = silver
    <3>1. \A x \in {"daily", "hourly"} : table[x] \subseteq silver
      BY DEF LineageInv, InGold
    <3>. QED
      BY <2>3, <3>1, MergeGroupsKeys
  <2>5. /\ task'["clean"].pc # "holding"
        /\ task'["aggregate"].pc \notin {"retry"} \cup Running
    BY <1>1, <1>2 DEF LocalRun, Script
  <2>. QED
    BY <2>1, <2>2, <2>3, <2>4, <2>5 DEF LineageInv, InGold, Running
<1>3. ASSUME NEW b \in BOOLEAN, Benchmark(b) PROVE LineageInv'
  BY <1>1, <1>3 DEF Benchmark, Script, LineageInv, InGold, TypeInv, TypeOK, Table, Running
<1>4. ASSUME NEW b \in BOOLEAN, SimulateTamper(b) PROVE LineageInv'
  BY <1>1, <1>4 DEF SimulateTamper, Script, LineageInv, InGold, Running
<1>5. CASE AnomalyDemo
  BY <1>1, <1>5 DEF AnomalyDemo, Script, LineageInv, InGold, TypeInv, TypeOK, Table, Running
<1>. QED
  BY <1>2, <1>3, <1>4, <1>5

LEMMA LineageStep ==
  ASSUME TypeInv, LineageInv, [Next]_vars
  PROVE  LineageInv'
<1>1. ASSUME NEW t \in Task, Fail(t) PROVE LineageInv'
  BY <1>1 DEF Fail, EndAttempt, data, LineageInv, InGold, TypeInv, TypeOK, Task, Running
<1>2. CASE NextDay
  BY <1>2 DEF NextDay, Idle, data, LineageInv, InGold, Task, Running
<1>3. ASSUME NEW keys \in SUBSET Key, DeliverCsv(keys) PROVE LineageInv'
  BY <1>3 DEF DeliverCsv, LineageInv, InGold
<1>4. CASE Finished \/ UNCHANGED vars
  BY <1>4 DEF Finished, vars, data, LineageInv, InGold
<1>. QED
  BY <1>1, <1>2, <1>3, <1>4, LineageTask, LineageScripts DEF Next

LEMMA SummaryStep ==
  ASSUME TypeInv, LineageInv, [Next]_vars, NEW summary \in {"daily", "hourly"}
  PROVE  table[summary] \subseteq table'[summary]
<1>1. ASSUME NEW t, NEW pc, NEW next, NEW x \in Table \ {"daily", "hourly"}, NEW keys,
             Commit(t, pc, next, x, keys)
      PROVE  table'[summary] = table[summary]
  BY <1>1 DEF Commit, TypeInv, TypeOK, Table
<1>2. ASSUME NEW t, NEW x \in {"daily", "hourly"}, NEW pc \in {"holding", "half"}, NEW next,
             MergeSummary(x, pc, next)
      PROVE  table[summary] \subseteq table'[summary]
  <2>1. \/ table'[summary] = table[summary]
        \/ table'[summary] = MergeGroups(x, table[x], Summarised) /\ x = summary
    BY <1>2 DEF MergeSummary, Commit, TypeInv, TypeOK, Table
  <2>2. table[summary] \subseteq Summarised
    BY <1>2 DEF MergeSummary, Commit, Summarised, LineageInv, InGold
  <2>. QED
    BY <2>1, <2>2, MergeGroupsKeys
<1>3. ASSUME NEW last \in 1 .. 5, LocalRun(last)
      PROVE  table[summary] \subseteq table'[summary]
  <2>. DEFINE silver == table["silver"] \cup (table["bronze"] \cup file)
  <2>1. \/ table'[summary] = table[summary]
        \/ table'[summary] = MergeGroups(summary, table[summary], silver)
    BY <1>3 DEF LocalRun, Table
  <2>2. table[summary] \subseteq silver
    BY DEF LineageInv, InGold
  <2>. QED
    BY <2>1, <2>2, MergeGroupsKeys
<1>4. \/ UNCHANGED table
      \/ IngestBronze \/ RecordManifest \/ MergeSilver \/ WriteSignals
      \/ MergeSummary("daily", "holding", "half") \/ MergeSummary("hourly", "half", "ending")
      \/ \E last \in 1 .. 5 : LocalRun(last)
      \/ \E b \in BOOLEAN : Benchmark(b)
      \/ AnomalyDemo
  BY DEF Next, TaskStep, Start, SensorTimeout, Callback, Finish, UpstreamFailed, Compare,
         AlertViolation, RaiseViolation, FitRaises, Fail, NextDay, DeliverCsv,
         SimulateTamper, Finished, vars, data
<1>5. CASE IngestBronze \/ RecordManifest \/ MergeSilver \/ WriteSignals
  BY <1>1, <1>5 DEF IngestBronze, RecordManifest, MergeSilver, WriteSignals, Table
<1>6. ASSUME NEW b \in BOOLEAN, Benchmark(b) PROVE table'[summary] = table[summary]
  BY <1>6 DEF Benchmark, TypeInv, TypeOK, Table
<1>7. CASE AnomalyDemo
  BY <1>7 DEF AnomalyDemo, TypeInv, TypeOK, Table
<1>. QED
  BY <1>2, <1>3, <1>4, <1>5, <1>6, <1>7

\* SummariesKeepKeys: neither racing stages, replays of failed attempts nor a
\* wiped and rebuilt Silver ever takes a transaction out of a summary.
THEOREM SummariesOnlyGrow == Spec => SummariesKeepKeys
<1>1. Init => LineageInv
  BY DEF Init, LineageInv, InGold, Idle, Table, Task, Running
<1>2. TypeInv /\ LineageInv /\ [Next]_vars
        => [\A summary \in {"daily", "hourly"} : table[summary] \subseteq table'[summary]]_vars
  BY SummaryStep
<1>. QED
  BY <1>1, <1>2, TypeInit, TypeStep, LineageStep, PTL DEF Spec, SummariesKeepKeys

-----------------------------------------------------------------------------
(* CheckAfterIngestMatches. *)

\* From its commit on, an ingest leaves in Bronze what its file holds, and
\* after its manifest nothing but a script or another file comes in between.
IngestInv ==
    /\ table["bronze"] \subseteq file
    /\ task["ingest"].pc \in {"half", "ending"} => table["bronze"] = file
    /\ task["ingest"].pc = "ending" => table["manifest"] = file
    /\ task["ingest"].pc = "done" /\ ~Settled => table["bronze"] = table["manifest"]

\* A step of a task that is not over, other than ingest's own, leaves ingest
\* and the day as they are.
LEMMA IngestTask ==
  ASSUME TypeInv, IngestInv, TaskStep
  PROVE  IngestInv'
<1>. USE DEF TypeInv, TypeOK, IngestInv, Task, Table
<1>1. ASSUME NEW t \in Task, task[t].pc \notin Over PROVE ~Settled
  BY <1>1 DEF Settled
<1>2. ASSUME NEW t \in Task, Start(t) PROVE IngestInv'
  BY <1>1, <1>2 DEF Start, data, Over
<1>3. ASSUME NEW t \in Task, SensorTimeout(t) PROVE IngestInv'
  BY <1>1, <1>3 DEF SensorTimeout, AfterTimeout, Goto, data, Over
<1>4. ASSUME NEW t \in Task, Callback(t) PROVE IngestInv'
  BY <1>1, <1>4 DEF Callback, End, Idle, data, Over
<1>5. ASSUME NEW t \in Task, Finish(t) PROVE IngestInv'
  BY <1>1, <1>5 DEF Finish, End, Idle, data, Over
<1>6. CASE UpstreamFailed
  BY <1>1, <1>6 DEF UpstreamFailed, End, Idle, data, Over
<1>7. CASE IngestBronze
  BY <1>7 DEF IngestBronze, Commit, Goto
<1>8. CASE RecordManifest
  BY <1>8 DEF RecordManifest, Commit, Covered, Goto
<1>9. ASSUME NEW t \in Task \ {"ingest"}, NEW pc \in Running, NEW next \in Running,
             NEW x \in Table \ {"bronze", "manifest"}, NEW keys,
             Commit(t, pc, next, x, keys)
      PROVE  IngestInv'
  BY <1>1, <1>9 DEF Commit, Goto, Over, Running
<1>10. CASE MergeSilver \/ WriteSignals
  BY <1>9, <1>10 DEF MergeSilver, WriteSignals, Running
<1>11. CASE \/ MergeSummary("daily", "holding", "half")
            \/ MergeSummary("hourly", "half", "ending")
  BY <1>9, <1>11 DEF MergeSummary, Running
<1>12. CASE Compare
  BY <1>1, <1>12 DEF Compare, Goto, End, Idle, data, Over
<1>13. CASE AlertViolation
  BY <1>1, <1>13 DEF AlertViolation, AfterAlert, Goto, data, Over
<1>14. CASE RaiseViolation \/ FitRaises
  BY <1>1, <1>14 DEF RaiseViolation, FitRaises, EndAttempt, data, Over
<1>. QED
  BY <1>2, <1>3, <1>4, <1>5, <1>6, <1>7, <1>8, <1>10, <1>11, <1>12, <1>13, <1>14
  DEF TaskStep

LEMMA IngestStep ==
  ASSUME TypeInv, IngestInv, [Next]_vars
  PROVE  IngestInv'
<1>. USE DEF TypeInv, TypeOK, IngestInv, Task, Table
<1>1. ASSUME NEW t \in Task, Fail(t) PROVE IngestInv'
  BY <1>1 DEF Fail, EndAttempt, data, Settled, Running, Over
<1>2. CASE NextDay
  BY <1>2 DEF NextDay, Idle, data
<1>3. ASSUME NEW keys \in SUBSET Key, DeliverCsv(keys) PROVE IngestInv'
  BY <1>3 DEF DeliverCsv, Settled, Over
<1>4. ASSUME Settled, UNCHANGED task
      PROVE  Settled' /\ task'["ingest"].pc \notin {"half", "ending"}
  BY <1>4 DEF Settled, Over
<1>5. ASSUME NEW last \in 1 .. 5, LocalRun(last) PROVE IngestInv'
  <2>1. table'["bronze"] \subseteq file'
    BY <1>5 DEF LocalRun, Script
  <2>. QED
    BY <1>4, <1>5, <2>1 DEF LocalRun, Script
<1>6. ASSUME NEW b \in BOOLEAN, Benchmark(b) PROVE IngestInv'
  BY <1>4, <1>6 DEF Benchmark, Script
<1>7. ASSUME NEW b \in BOOLEAN, SimulateTamper(b) PROVE IngestInv'
  BY <1>4, <1>7 DEF SimulateTamper, Script
<1>8. CASE AnomalyDemo
  BY <1>4, <1>8 DEF AnomalyDemo, Script
<1>9. CASE Finished \/ UNCHANGED vars
  BY <1>9 DEF Finished, vars, data, Settled
<1>. QED
  BY <1>1, <1>2, <1>3, <1>5, <1>6, <1>7, <1>8, <1>9, IngestTask DEF Next

\* CheckAfterIngestMatches: the only violations that a check reports of sound
\* storage are of tables it read before the ingest of its day was done.
THEOREM LateCheckIsSound == Spec => CheckAfterIngestMatches
<1>. DEFINE Reads == /\ task["ingest"].pc = "done"
                     /\ task["verify"].pc # "holding"
                     /\ task'["verify"].pc = "holding"
<1>1. Init => IngestInv
  BY DEF Init, IngestInv, Idle, Task, Table, Settled, Over
<1>2. ASSUME TypeInv, Next, Reads PROVE Start("verify")
  <2>. USE DEF TypeInv, TypeOK, Task
  <2>1. ASSUME NEW t \in Task, Start(t) PROVE Start("verify")
    BY <1>2, <2>1 DEF Start
  <2>2. ASSUME NEW t \in Task, NEW pc \in {"failed", "done", "upstream_failed"}, End(t, pc)
        PROVE  FALSE
    BY <1>2, <2>2 DEF End, Idle
  <2>3. ASSUME NEW t \in Task, NEW pc \in {"callback", "alerting", "raising"}, Goto(t, pc)
        PROVE  FALSE
    BY <1>2, <2>3 DEF Goto
  <2>4. ASSUME NEW t \in Task, EndAttempt(t) PROVE FALSE
    BY <1>2, <2>4 DEF EndAttempt
  <2>5. ASSUME NEW t \in Task, SensorTimeout(t) \/ Callback(t) \/ Finish(t) \/ Fail(t)
         PROVE  FALSE
    BY <2>2, <2>3, <2>4, <2>5 DEF SensorTimeout, AfterTimeout, Callback, Finish, Fail
  <2>6. ASSUME NEW t, NEW pc, NEW next \in {"half", "ending"}, NEW x, NEW keys,
               Commit(t, pc, next, x, keys)
        PROVE  FALSE
    BY <1>2, <2>6 DEF Commit, Goto
  <2>7. CASE IngestBronze \/ RecordManifest \/ MergeSilver \/ WriteSignals
    BY <2>6, <2>7 DEF IngestBronze, RecordManifest, MergeSilver, WriteSignals
  <2>8. CASE \/ MergeSummary("daily", "holding", "half")
             \/ MergeSummary("hourly", "half", "ending")
    BY <2>6, <2>8 DEF MergeSummary
  <2>9. CASE UpstreamFailed \/ Compare \/ AlertViolation \/ RaiseViolation \/ FitRaises
    BY <2>9, <2>2, <2>3, <2>4
    DEF UpstreamFailed, Compare, AlertViolation, AfterAlert, RaiseViolation, FitRaises
  <2>10. CASE NextDay
    BY <1>2, <2>10 DEF NextDay, Idle
  <2>11. ASSUME UNCHANGED task PROVE FALSE
    BY <1>2, <2>11
  <2>. QED
    BY <1>2, <2>1, <2>7, <2>8, <2>9, <2>10, <2>11, <2>5
    DEF Next, TaskStep, DeliverCsv, LocalRun, Benchmark, SimulateTamper, AnomalyDemo, Script,
      Finished, vars
<1>3. TypeInv /\ IngestInv /\ Reads /\ Start("verify")
        => task'["verify"].frame = table["manifest"]
  BY DEF Start, Source, IngestInv, Settled, Over, TypeInv, TypeOK, Task
<1>4. TypeInv /\ IngestInv /\ [Next]_vars
        => [Reads => task'["verify"].frame = table["manifest"]]_vars
  BY <1>2, <1>3
<1>. QED
  BY <1>1, <1>4, TypeInit, TypeStep, IngestStep, PTL DEF Spec, CheckAfterIngestMatches

-----------------------------------------------------------------------------
(* EditIsPosted. *)

\* After its alert the check can only fail, for the row stays edited; each
\* post either is in the channel or counts as lost.
AlarmInv ==
    alarmed =>
        /\ edited
        /\ task["verify"].pc \in {"raising", "retry", "holding", "alerting",
                                  "callback", "failed"}
        /\ \/ "integrity_check" \in posted
           \/ lost >= 2
           \/ lost >= 1 /\ task["verify"].pc # "failed"

LEMMA AlarmTask ==
  ASSUME TypeInv, AlarmInv, TaskStep
  PROVE  AlarmInv'
<1>. USE DEF TypeInv, TypeOK, AlarmInv, Task
<1>1. ASSUME NEW t \in Task, Start(t) PROVE AlarmInv'
  BY <1>1 DEF Start, data, slack
<1>2. ASSUME NEW t \in Task, SensorTimeout(t) PROVE AlarmInv'
  BY <1>2 DEF SensorTimeout, AfterTimeout, Goto, data, slack
<1>3. ASSUME NEW t \in Task, Callback(t) PROVE AlarmInv'
  <2>1. CASE t = "verify"
    <3>1. DagOf(t) = "integrity_check"
      BY <2>1 DEF DagOf
    <3>. QED
      BY <1>3, <2>1, <3>1 DEF Callback, End, Idle, Send, Mishap, data
  <2>2. CASE t # "verify"
    BY <1>3, <2>2 DEF Callback, End, Idle, Send, Mishap, data
  <2>. QED
    BY <2>1, <2>2
<1>4. ASSUME NEW t \in Task, Finish(t) PROVE AlarmInv'
  BY <1>4 DEF Finish, End, Idle, data, slack
<1>5. CASE UpstreamFailed
  BY <1>5 DEF UpstreamFailed, End, Idle, data, slack
<1>6. ASSUME NEW t \in Task \ {"verify"}, NEW pc, NEW next, NEW x, NEW keys,
             Commit(t, pc, next, x, keys)
      PROVE  AlarmInv'
  <2>1. task'["verify"] = task["verify"]
    BY <1>6 DEF Commit, Goto
  <2>. QED
    BY <1>6, <2>1 DEF Commit, slack
<1>7. CASE \/ IngestBronze \/ RecordManifest \/ MergeSilver \/ WriteSignals
           \/ MergeSummary("daily", "holding", "half")
           \/ MergeSummary("hourly", "half", "ending")
  BY <1>6, <1>7
  DEF IngestBronze, RecordManifest, MergeSilver, WriteSignals, MergeSummary
<1>8. CASE Compare
  <2>1. SUFFICES ASSUME alarmed PROVE AlarmInv'
    BY <1>8 DEF Compare
  <2>2. Goto("verify", "alerting")
    BY <1>8, <2>1 DEF Compare
  <2>3. task'["verify"].pc = "alerting"
    BY <2>2 DEF Goto
  <2>. QED
    BY <1>8, <2>1, <2>3 DEF Compare, data, slack
<1>9. CASE AlertViolation
  BY <1>9 DEF AlertViolation, AfterAlert, Goto, Send, Mishap, data
<1>10. CASE RaiseViolation
  BY <1>10 DEF RaiseViolation, EndAttempt, data, slack
<1>11. CASE FitRaises
  <2>1. task'["verify"] = task["verify"]
    BY <1>11 DEF FitRaises, EndAttempt
  <2>. QED
    BY <1>11, <2>1 DEF FitRaises, data, slack
<1>. QED
  BY <1>1, <1>2, <1>3, <1>4, <1>5, <1>7, <1>8, <1>9, <1>10, <1>11 DEF TaskStep

LEMMA AlarmStep ==
  ASSUME TypeInv, AlarmInv, [Next]_vars
  PROVE  AlarmInv'
<1>. USE DEF TypeInv, TypeOK, AlarmInv, Task
<1>1. ASSUME NEW t \in Task, Fail(t) PROVE AlarmInv'
  BY <1>1 DEF Fail, EndAttempt, data, Running
<1>2. CASE NextDay
  BY <1>2 DEF NextDay
<1>3. ASSUME NEW keys \in SUBSET Key, DeliverCsv(keys) PROVE AlarmInv'
  BY <1>3 DEF DeliverCsv, slack
<1>4. ASSUME NEW last \in 1 .. 5, LocalRun(last) PROVE AlarmInv'
  BY <1>4 DEF LocalRun, Script
<1>5. ASSUME NEW b \in BOOLEAN, Benchmark(b) PROVE AlarmInv'
  BY <1>5 DEF Benchmark, Script
<1>6. ASSUME NEW b \in BOOLEAN, SimulateTamper(b) PROVE AlarmInv'
  BY <1>6 DEF SimulateTamper, Script
<1>7. CASE AnomalyDemo
  BY <1>7 DEF AnomalyDemo, Script
<1>8. CASE Finished \/ UNCHANGED vars
  BY <1>8 DEF Finished, vars, data, slack
<1>. QED
  BY <1>1, <1>2, <1>3, <1>4, <1>5, <1>6, <1>7, <1>8, AlarmTask DEF Next

\* EditIsPosted: one lost post cannot hide an edited row that a check has come
\* to report, wherever the check or its retry breaks off.
THEOREM EditReachesSlack == Spec => []EditIsPosted
<1>1. Init => AlarmInv
  BY DEF Init, AlarmInv
<1>2. TypeInv /\ AlarmInv => EditIsPosted
  BY DEF TypeInv, TypeOK, AlarmInv, EditIsPosted, Over
<1>. QED
  BY <1>1, <1>2, TypeInit, TypeStep, AlarmStep, PTL DEF Spec
-----------------------------------------------------------------------------
(* LateDataIsReported. *)

\* The anomaly task only runs after an aggregation, for which Silver was there.
ScoreInv ==
    /\ \A t \in Task \ {"score"} : task[t].pc # "upstream_failed"
    /\ task["score"].pc = "upstream_failed" => task["aggregate"].pc = "failed"
    /\ task["score"].pc = "queued" /\ task["aggregate"].pc = "done" => "silver" \in made
    /\ task["score"].pc \in {"retry"} \cup Running => "silver" \in made

\* Where key k is at least, by the day after the one it was due: a stage a day,
\* unless one of the DAGs has failed meanwhile.
InBronze(k) ==
    \/ due[k] < day
    \/ due[k] = day /\ task["ingest"].pc \in {"half", "ending", "done"}
    => k \in table["bronze"]
InSilver(k) ==
    /\ /\ "silver" \in made
       /\ \/ due[k] + 1 < day
          \/ due[k] + 1 = day /\ task["clean"].pc \in {"ending", "done"}
       => k \in table["silver"]
    /\ due[k] + 1 <= day /\ task["clean"].pc = "holding" => k \in task["clean"].frame
InSummaries(k) ==
    /\ \/ due[k] + 2 < day
       \/ due[k] + 2 = day /\ task["aggregate"].pc \in {"half", "ending", "done"}
       => k \in table["daily"]
    /\ \/ due[k] + 2 < day
       \/ due[k] + 2 = day /\ task["aggregate"].pc \in {"ending", "done"}
       => k \in table["hourly"]
    /\ due[k] + 2 <= day /\ task["aggregate"].pc \in {"holding", "half"}
       => k \in task["aggregate"].frame
InSignals(k) ==
    /\ \/ due[k] + 2 < day
       \/ due[k] + 2 = day /\ task["score"].pc \in {"ending", "done"}
       => k \in table["signals"]
    /\ due[k] + 2 <= day /\ task["score"].pc = "holding" => k \in task["score"].frame
NoneFailed(k) ==
    due[k] <= day /\ day <= due[k] + 2
        => \A t \in Task \ {"verify"} : task[t].pc # "failed"

Arrives(k) ==
    InBronze(k) /\ InSilver(k) /\ InSummaries(k) /\ InSignals(k) /\ NoneFailed(k)

ArrivalInv == lost = 0 => \A k \in file \ excused : Arrives(k)

LEMMA ScoreTask ==
  ASSUME TypeInv, LineageInv, ScoreInv, TaskStep
  PROVE  ScoreInv'
<1>. USE DEF TypeInv, TypeOK, ScoreInv, Task, Table, Running
<1>1. ASSUME NEW t \in Task, Start(t) PROVE ScoreInv'
  BY <1>1 DEF Start, Released, data
<1>2. ASSUME NEW t \in Task, SensorTimeout(t) PROVE ScoreInv'
  BY <1>2 DEF SensorTimeout, AfterTimeout, Goto, data
<1>3. ASSUME NEW t \in Task, Callback(t) PROVE ScoreInv'
  BY <1>3 DEF Callback, End, Idle, data
<1>4. ASSUME NEW t \in Task, Finish(t) PROVE ScoreInv'
  BY <1>4 DEF Finish, End, Idle, data, LineageInv
<1>5. CASE UpstreamFailed
  BY <1>5 DEF UpstreamFailed, End, Idle, data
<1>6. ASSUME NEW t \in Task, NEW pc \in Running, NEW next \in Running,
             NEW x, NEW keys, Commit(t, pc, next, x, keys)
      PROVE  ScoreInv'
  BY <1>6 DEF Commit, Goto
<1>7. CASE IngestBronze \/ RecordManifest \/ MergeSilver \/ WriteSignals
  <2>. HIDE DEF ScoreInv, TypeInv
  <2>. QED
    BY <1>6, <1>7 DEF IngestBronze, RecordManifest, MergeSilver, WriteSignals
<1>8. CASE \/ MergeSummary("daily", "holding", "half")
           \/ MergeSummary("hourly", "half", "ending")
  BY <1>6, <1>8 DEF MergeSummary
<1>9. CASE Compare
  <2>1. Goto("verify", "alerting") \/ End("verify", "done")
    BY <1>9 DEF Compare
  <2>2. \A t \in Task \ {"verify"} : task'[t] = task[t]
    BY <2>1 DEF Goto, End
  <2>3. CASE Goto("verify", "alerting")
    BY <1>9, <2>2, <2>3 DEF Compare, Goto, data
  <2>4. CASE End("verify", "done")
    BY <1>9, <2>2, <2>4 DEF Compare, End, Idle, data
  <2>. QED
    BY <2>1, <2>3, <2>4
<1>10. CASE AlertViolation
  BY <1>10 DEF AlertViolation, AfterAlert, Goto, data
<1>11. CASE RaiseViolation
  BY <1>11 DEF RaiseViolation, EndAttempt, data
<1>12. CASE FitRaises
  BY <1>12 DEF FitRaises, EndAttempt, data
<1>. QED
  BY <1>1, <1>2, <1>3, <1>4, <1>5, <1>7, <1>8, <1>9, <1>10, <1>11, <1>12 DEF TaskStep

LEMMA ScoreStep ==
  ASSUME TypeInv, LineageInv, ScoreInv, [Next]_vars
  PROVE  ScoreInv'
<1>. USE DEF ScoreInv, Task, Running
<1>1. ASSUME NEW t \in Task, Fail(t) PROVE ScoreInv'
  BY <1>1 DEF Fail, EndAttempt, data, TypeInv, TypeOK
<1>2. CASE NextDay
  BY <1>2 DEF NextDay, Idle, data
<1>3. ASSUME NEW keys \in SUBSET Key, DeliverCsv(keys) PROVE ScoreInv'
  BY <1>3 DEF DeliverCsv
<1>4. ASSUME Settled, UNCHANGED task PROVE ScoreInv'
  <2>1. task["score"].pc \notin {"queued", "retry"} \cup Running
    BY <1>4 DEF Settled, Over
  <2>. QED
    BY <1>4, <2>1
<1>5. CASE \/ \E last \in 1 .. 5 : LocalRun(last)
           \/ \E b \in BOOLEAN : Benchmark(b) \/ SimulateTamper(b)
           \/ AnomalyDemo
  BY <1>4, <1>5 DEF LocalRun, Benchmark, SimulateTamper, AnomalyDemo, Script
<1>6. CASE Finished \/ UNCHANGED vars
  BY <1>6 DEF Finished, vars, data
<1>. QED
  BY <1>1, <1>2, <1>3, <1>5, <1>6, ScoreTask DEF Next

\* What a step of a task leaves as it is.
LEMMA TaskFrame ==
  ASSUME TaskStep
  PROVE  UNCHANGED <<day, file, due>>
  BY DEF TaskStep, Start, SensorTimeout, Callback, Finish, UpstreamFailed, IngestBronze,
         RecordManifest, MergeSilver, MergeSummary, WriteSignals, FitRaises, Compare,
         AlertViolation, RaiseViolation, Commit, data

LEMMA ArrivesTask ==
  ASSUME TypeInv, LineageInv, ScoreInv, TaskStep,
         NEW k \in file \ excused, Arrives(k), k \notin excused', lost = 0, lost' = 0
  PROVE  Arrives(k)'
<1>. USE DEF TypeInv, TypeOK, Task, Table, Running, Arrives, InBronze, InSilver,
             InSummaries, InSignals, NoneFailed
<1>0. k \in Key /\ due[k] \in Nat /\ day \in Nat
  BY NumbersAssumption
<1>1. ASSUME NEW t \in Task, Start(t) PROVE Arrives(k)'
  BY <1>0, <1>1 DEF Start, Released, Awaited, Source, data, TaskState, LineageInv, ScoreInv
<1>2. ASSUME NEW t \in Task, SensorTimeout(t) PROVE Arrives(k)'
  BY <1>0, <1>2 DEF SensorTimeout, AfterTimeout, Goto, data
<1>3. ASSUME NEW t \in Task, Callback(t) PROVE Arrives(k)'
  <2>1. t = "verify" \/ ~(due[k] <= day /\ day <= due[k] + 2)
    BY <1>0, <1>3 DEF Callback, Send, DagOf, OnTheWay
  <2>. QED
    BY <1>0, <1>3, <2>1 DEF Callback, End, Idle, data
<1>4. ASSUME NEW t \in Task, Finish(t) PROVE Arrives(k)'
  BY <1>0, <1>4 DEF Finish, End, Idle, data
<1>5. CASE UpstreamFailed
  BY <1>0, <1>5 DEF UpstreamFailed, End, Idle, data
<1>6. CASE IngestBronze
  BY <1>0, <1>6 DEF IngestBronze, Commit, Goto
<1>7. CASE RecordManifest
  BY <1>0, <1>7 DEF RecordManifest, Commit, Goto
<1>8. CASE MergeSilver
  BY <1>0, <1>8 DEF MergeSilver, Commit, Goto
<1>9. CASE MergeSummary("daily", "holding", "half")
  <2>. DEFINE keys == MergeGroups("daily", table["daily"], Summarised)
  <2>1. task["aggregate"].frame \subseteq keys
    BY MergeGroupsKeys DEF Summarised
  <2>2. table["daily"] \subseteq keys
    BY <1>9, <2>1 DEF MergeSummary, Commit, LineageInv, InGold
  <2>3. Commit("aggregate", "holding", "half", "daily", keys)
    BY <1>9 DEF MergeSummary
  <2>. HIDE DEF keys
  <2>. QED
    BY <1>0, <2>1, <2>2, <2>3 DEF Commit, Goto
<1>10. CASE MergeSummary("hourly", "half", "ending")
  <2>. DEFINE keys == MergeGroups("hourly", table["hourly"], Summarised)
  <2>1. task["aggregate"].frame \subseteq keys
    BY MergeGroupsKeys DEF Summarised
  <2>2. table["hourly"] \subseteq keys
    BY <1>10, <2>1 DEF MergeSummary, Commit, LineageInv, InGold
  <2>3. Commit("aggregate", "half", "ending", "hourly", keys)
    BY <1>10 DEF MergeSummary
  <2>. HIDE DEF keys
  <2>. QED
    BY <1>0, <2>1, <2>2, <2>3 DEF Commit, Goto
<1>11. CASE WriteSignals
  BY <1>0, <1>11 DEF WriteSignals, Commit, Goto
<1>12. CASE Compare
  BY <1>0, <1>12 DEF Compare, Goto, End, Idle, data
<1>13. CASE AlertViolation
  BY <1>0, <1>13 DEF AlertViolation, AfterAlert, Goto, data
<1>14. CASE RaiseViolation
  BY <1>0, <1>14 DEF RaiseViolation, EndAttempt, data
<1>15. CASE FitRaises
  BY <1>0, <1>15 DEF FitRaises, EndAttempt, data
<1>. QED
  BY <1>1, <1>2, <1>3, <1>4, <1>5, <1>6, <1>7, <1>8, <1>9, <1>10, <1>11, <1>12, <1>13, <1>14, <1>15
  DEF TaskStep

\* At the end of a day a key has come through the stage of that day.
LEMMA EveningKeys ==
  ASSUME TypeInv, ScoreInv, Settled, NEW k \in file, Arrives(k)
  PROVE  /\ due[k] <= day => k \in table["bronze"]
         /\ due[k] + 1 <= day /\ "silver" \in made => k \in table["silver"]
         /\ due[k] + 2 <= day => k \in table["daily"] \cap table["hourly"] \cap table["signals"]
<1>0. k \in Key /\ due[k] \in Nat /\ day \in Nat
  BY NumbersAssumption DEF TypeInv, TypeOK
<1>1. ASSUME due[k] <= day, day <= due[k] + 2, NEW t \in Task \ {"verify"}
      PROVE  task[t].pc = "done"
  <2>1. \A u \in Task \ {"verify"} : task[u].pc \in {"done", "upstream_failed"}
    BY <1>1 DEF Settled, Over, Arrives, NoneFailed
  <2>. QED
    BY <2>1 DEF ScoreInv, Task
<1>2. CASE due[k] <= day /\ day <= due[k] + 2
  <2>1. /\ task["ingest"].pc = "done" /\ task["clean"].pc = "done"
        /\ task["aggregate"].pc = "done" /\ task["score"].pc = "done"
    BY <1>1, <1>2 DEF Task
  <2>. QED
    BY <1>0, <2>1 DEF Arrives, InBronze, InSilver, InSummaries, InSignals
<1>3. CASE ~(due[k] <= day /\ day <= due[k] + 2)
  BY <1>0, <1>3 DEF Arrives, InBronze, InSilver, InSummaries, InSignals
<1>. QED
  BY <1>2, <1>3

\* What scripts, which run between days, must keep of a key.
LEMMA ArrivesScripts ==
  ASSUME TypeInv, LineageInv, ScoreInv, NEW k \in file, Arrives(k),
         \/ \E last \in 1 .. 5 : LocalRun(last)
         \/ \E b \in BOOLEAN : Benchmark(b) \/ SimulateTamper(b)
         \/ AnomalyDemo
  PROVE  Arrives(k)'
<1>0. k \in Key /\ due[k] \in Nat /\ day \in Nat
  BY NumbersAssumption DEF TypeInv, TypeOK
<1>1. Settled /\ UNCHANGED <<day, due, task>>
  BY DEF LocalRun, Benchmark, SimulateTamper, AnomalyDemo, Script
<1>2. \A t \in Task : task[t].pc \in Over
  BY <1>1 DEF Settled
<1>3. SUFFICES
        /\ k \in table["bronze"] => k \in table'["bronze"]
        /\ due[k] + 1 <= day /\ "silver" \in made' => k \in table'["silver"]
        /\ k \in table["daily"] => k \in table'["daily"]
        /\ k \in table["hourly"] => k \in table'["hourly"]
        /\ due[k] + 2 <= day => k \in table'["signals"]
  BY <1>0, <1>1, <1>2
  DEF Arrives, InBronze, InSilver, InSummaries, InSignals, NoneFailed, Over, Task
<1>4. /\ due[k] <= day => k \in table["bronze"]
      /\ due[k] + 1 <= day /\ "silver" \in made => k \in table["silver"]
      /\ due[k] + 2 <= day => k \in table["signals"]
  BY <1>1, EveningKeys
<1>5. \A x \in {"daily", "hourly"} : table[x] \subseteq table'[x]
  <2>1. [Next]_vars
    BY DEF Next
  <2>. QED
    BY <2>1, SummaryStep
<1>6. ASSUME NEW last \in 1 .. 5, LocalRun(last)
      PROVE  /\ k \in table'["bronze"]
             /\ "silver" \in made' /\ due[k] + 1 <= day => k \in table'["silver"]
             /\ table'["signals"] = table["signals"]
  <2>. DEFINE reached == {Stages[i] : i \in 1 .. last}
  <2>1. "bronze" \in reached /\ "signals" \notin reached
    BY DEF Stages
  <2>2. /\ made' = made \cup reached
        /\ table'["bronze"] = table["bronze"] \cup file
        /\ table'["silver"] = IF "silver" \in reached
                              THEN table["silver"] \cup (table["bronze"] \cup file)
                              ELSE table["silver"]
        /\ table'["signals"] = table["signals"]
    BY <1>6, <2>1 DEF LocalRun, Table
  <2>. HIDE DEF reached
  <2>. QED
    BY <1>4, <2>2
<1>7. ASSUME NEW b \in BOOLEAN, Benchmark(b)
      PROVE  /\ table'["bronze"] = table["bronze"] /\ table'["signals"] = table["signals"]
             /\ "silver" \in made' => table'["silver"] = table["bronze"]
  BY <1>7 DEF Benchmark, TypeInv, TypeOK, Table
<1>8. ASSUME AnomalyDemo
      PROVE  /\ "silver" \in made
             /\ table'["bronze"] = table["bronze"] /\ table'["silver"] = table["silver"]
             /\ table'["signals"] = table["silver"]
  BY <1>8 DEF AnomalyDemo, TypeInv, TypeOK, Table
<1>9. ASSUME NEW b \in BOOLEAN, SimulateTamper(b) PROVE UNCHANGED <<table, made>>
  BY <1>9 DEF SimulateTamper
<1>. QED
  BY <1>0, <1>4, <1>5, <1>6, <1>7, <1>8, <1>9

LEMMA ArrivalStep ==
  ASSUME TypeInv, LineageInv, ScoreInv, ArrivalInv, [Next]_vars
  PROVE  ArrivalInv'
<1>. SUFFICES ASSUME lost' = 0, NEW k \in file' \ excused' PROVE Arrives(k)'
  BY DEF ArrivalInv
<1>. USE DEF Arrives, InBronze, InSilver, InSummaries, InSignals, NoneFailed
<1>1. lost = 0 /\ excused \subseteq excused'
  <2>1. ASSUME NEW dag, Send(dag) PROVE lost = 0 /\ excused \subseteq excused'
    BY <2>1 DEF Send, TypeInv, TypeOK
  <2>2. \/ UNCHANGED <<lost, excused>>
        \/ \E dag : Send(dag)
    BY DEF Next, TaskStep, Start, SensorTimeout, Callback, Finish, UpstreamFailed, IngestBronze,
           RecordManifest, MergeSilver, MergeSummary, WriteSignals, FitRaises, Compare,
           AlertViolation, RaiseViolation, Commit, Fail, NextDay, DeliverCsv, LocalRun,
           Benchmark, SimulateTamper, AnomalyDemo, Script, Finished, vars, slack
  <2>. QED
    BY <2>1, <2>2
<1>2. k \in file => Arrives(k) /\ k \notin excused
  BY <1>1 DEF ArrivalInv
<1>3. CASE TaskStep
  <2>1. k \in file
    BY <1>3, TaskFrame
  <2>. QED
    BY <1>1, <1>2, <1>3, <2>1, ArrivesTask
<1>4. ASSUME NEW t \in Task, Fail(t) PROVE Arrives(k)'
  BY <1>2, <1>4 DEF Fail, EndAttempt, data, TypeInv, TypeOK, Task, Running
<1>5. CASE NextDay
  <2>1. /\ k \in file /\ k \in Key /\ due[k] \in Nat /\ day \in Nat /\ Settled
        /\ day' = day + 1 /\ UNCHANGED <<table, made, due>>
        /\ \A t \in Task : task'[t].pc = "queued"
    BY <1>5, NumbersAssumption DEF NextDay, data, Idle, TypeInv, TypeOK
  <2>2. /\ due[k] <= day => k \in table["bronze"]
        /\ due[k] + 1 <= day /\ "silver" \in made => k \in table["silver"]
        /\ due[k] + 2 <= day => k \in table["daily"] \cap table["hourly"] \cap table["signals"]
    BY <1>2, <2>1, EveningKeys
  <2>. QED
    BY <2>1, <2>2 DEF Task
<1>6. ASSUME NEW keys \in SUBSET Key, DeliverCsv(keys) PROVE Arrives(k)'
  <2>1. k \in Key /\ day \in Nat /\ UNCHANGED <<day, table, made, task>>
    BY <1>6, NumbersAssumption DEF DeliverCsv, TypeInv, TypeOK
  <2>2. CASE k \in file
    <3>1. due'[k] = due[k]
      BY <1>6, <2>1, <2>2 DEF DeliverCsv
    <3>. QED
      BY <1>2, <2>1, <2>2, <3>1
  <2>3. CASE k \notin file
    <3>1. due'[k] = day + 1
      BY <1>6, <2>1, <2>3 DEF DeliverCsv
    <3>. QED
      BY <2>1, <3>1
  <2>. QED
    BY <2>2, <2>3
<1>7. CASE \/ \E last \in 1 .. 5 : LocalRun(last)
           \/ \E b \in BOOLEAN : Benchmark(b) \/ SimulateTamper(b)
           \/ AnomalyDemo
  <2>1. k \in file
    BY <1>7 DEF LocalRun, Benchmark, SimulateTamper, AnomalyDemo, Script
  <2>. QED
    BY <1>2, <1>7, <2>1, ArrivesScripts
<1>8. CASE Finished \/ UNCHANGED vars
  BY <1>2, <1>8 DEF Finished, vars, data, slack
<1>. QED
  BY <1>3, <1>4, <1>5, <1>6, <1>7, <1>8 DEF Next

\* LateDataIsReported: although no sensor waits for today's data, a row of the
\* file is in Gold after three days, or somebody has been told which DAG failed.
THEOREM ThreeDaysToGold == Spec => []LateDataIsReported
<1>1. Init => LineageInv /\ ScoreInv
  BY DEF Init, LineageInv, ScoreInv, InGold, Idle, Table, Task, Running
<1>2. Init => ArrivalInv
  <2>. SUFFICES ASSUME Init, NEW k \in file PROVE Arrives(k)
    BY DEF ArrivalInv
  <2>1. day = 0 /\ due[k] = 1
    BY FileAssumption DEF Init
  <2>. QED
    BY <2>1 DEF Arrives, InBronze, InSilver, InSummaries, InSignals, NoneFailed
<1>3. TypeInv /\ ScoreInv /\ ArrivalInv => LateDataIsReported
  <2>. SUFFICES ASSUME TypeInv, ScoreInv, lost = 0, NEW k \in file \ excused, Arrives(k),
                       day + (IF Settled THEN 1 ELSE 0) > due[k] + 2
                PROVE  k \in table["daily"] \cap table["hourly"] \cap table["signals"]
    BY DEF ArrivalInv, LateDataIsReported
  <2>1. k \in Key /\ due[k] \in Nat /\ day \in Nat
    BY NumbersAssumption DEF TypeInv, TypeOK
  <2>2. CASE Settled
    BY <2>1, <2>2, EveningKeys
  <2>3. CASE ~Settled
    BY <2>1, <2>3 DEF Arrives, InSummaries, InSignals
  <2>. QED
    BY <2>2, <2>3
<1>. QED
  BY <1>1, <1>2, <1>3, TypeInit, TypeStep, LineageStep, ScoreStep, ArrivalStep, PTL DEF Spec
=============================================================================
