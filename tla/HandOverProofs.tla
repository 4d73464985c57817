--------------------------- MODULE HandOverProofs ---------------------------
(***************************************************************************)
(* Without failed calls and crashes, and with reclaim_idle_ms above every  *)
(* run, each attempt of a job is handed over to the next: one task at a    *)
(* time works on the job, what it holds is what the table says, and the    *)
(* engine implements JobContract.                                          *)
(*                                                                         *)
(* The results hold of the behaviours in which no process reaches the pass *)
(* that never suspends, where its tasks stand still and others may reclaim *)
(* their entries; with capacity for every entry there is none other.       *)
(***************************************************************************)
EXTENDS DeadLetterProofs

\* The settings: no call fails, no process is killed, idle entries are orphans.
NoFailures == MaxFaults = 0 /\ MaxCrashes = 0 /\ IdleMeansOrphan

LEMMA HandOverFacts ==
    ASSUME HandOverInv
    PROVE  /\ ShapeInv /\ SafetyInv
           /\ stream \in StreamRecord
           /\ stream.first \in Nat /\ stream.first >= 1 /\ stream.last \in Int
           /\ Len(stream.log) \in Nat /\ Len(stream.log) <= MaxEntries
           /\ \A k \in 1 .. Len(stream.log) :
                 /\ k \in Ids /\ JobOf(k) \in Jobs
                 /\ stream.log[k].attempt \in Nat /\ stream.log[k].attempt >= 1
                 /\ rows[JobOf(k)] \in Job
           /\ rows \in [Jobs -> Job \cup {NoRow}]
           /\ requests \in [Jobs -> [pc : RequestPcs, tries : 0 .. (MaxTries - 1)]]
           /\ loop \in [Workers -> LoopRecord]
           /\ tasks \in [Workers -> [Ids -> TaskRecord]]
           /\ execs \in [Jobs -> Nat]
<1>1. ShapeInv /\ SafetyInv
  BY DEF HandOverInv, SafetyInv
<1>2. stream \in StreamRecord
  BY <1>1 DEF ShapeInv, TypeOK, StoresTypeOK, StreamRecord
<1>3. stream.first \in Nat /\ stream.first >= 1 /\ stream.last \in Int
  BY <1>2 DEF StreamRecord
<1>4. Len(stream.log) \in Nat /\ Len(stream.log) <= MaxEntries
  BY <1>1 DEF ShapeInv, TypeOK, StoresTypeOK
<1>5. rows \in [Jobs -> Job \cup {NoRow}]
  BY <1>1 DEF ShapeInv, TypeOK, StoresTypeOK
<1>6. ASSUME NEW k \in 1 .. Len(stream.log)
      PROVE  /\ k \in Ids /\ JobOf(k) \in Jobs
             /\ stream.log[k].attempt \in Nat /\ stream.log[k].attempt >= 1
             /\ rows[JobOf(k)] \in Job
  <2>1. stream.log[k] \in JobMessage
    BY <1>2 DEF StreamRecord
  <2>2. k \in Ids
    BY <1>4, StreamAssumption DEF Ids
  <2>3. rows[JobOf(k)] # NoRow
    BY <1>1 DEF ShapeInv, PointerHasRow
  <2>4. JobOf(k) \in Jobs /\ stream.log[k].attempt \in 1 .. MaxAttempts
    BY <2>1 DEF JobMessage, JobOf
  <2> QED
    BY <1>5, <2>2, <2>3, <2>4, StoresAssumption
<1>7. /\ loop \in [Workers -> LoopRecord]
      /\ tasks \in [Workers -> [Ids -> TaskRecord]]
      /\ execs \in [Jobs -> Nat]
      /\ requests \in [Jobs -> [pc : RequestPcs, tries : 0 .. (MaxTries - 1)]]
  BY <1>1 DEF ShapeInv, TypeOK, WorkerTypeOK, IngestionTypeOK, LoopRecord, TaskRecord
<1> QED
  BY <1>1, <1>2, <1>3, <1>4, <1>5, <1>6, <1>7

LEMMA InitHandOver == Init => HandOverInv
<1> SUFFICES ASSUME Init PROVE HandOverInv
  OBVIOUS
<1>1. SafetyInv
  BY InitSafety
<1> USE DEF Init, StoresInit, IngestionInit, WorkerInit
<1>2. InsertIsFirst /\ PublishIsFirst
  BY DEF InsertIsFirst, PublishIsFirst
<1>3. \A v \in Workers : loop[v].claimed = {} /\ InFlight(v) = {}
  BY DEF NoLoop, InFlight, NoTask
<1>4. Undelivered(stream) = {} /\ Pending(stream) = {}
  BY DEF Undelivered, Pending, Ids
<1>5. \A v \in Workers, k \in Ids : IsCurrent(tasks[v][k], k)
  <2> SUFFICES ASSUME NEW v \in Workers, NEW k \in Ids PROVE IsCurrent(tasks[v][k], k)
    OBVIOUS
  <2>1. tasks[v][k].pc = "none"
    BY DEF NoTask
  <2> QED
    BY <2>1 DEF IsCurrent, BeforeStartPcs, StartedPcs, SelectPcs, FlushPcs, FailPcs
<1>6. AttemptsHonest /\ RowCoherent
  BY DEF AttemptsHonest, RowCoherent, NoRow
<1> QED
  BY <1>1, <1>2, <1>3, <1>4, <1>5, <1>6 DEF HandOverInv

\* Without failures every call is executed and answered.
LEMMA CallsAreAnswered ==
    ASSUME NoFailures, ShapeInv
    PROVE  /\ ~NotExecuted
           /\ \A r : Replied(r) => r = "ok"
           /\ crashes >= MaxCrashes
BY StoresAssumption DEF NoFailures, ShapeInv, TypeOK, StoresTypeOK, NotExecuted, Replied

\* One entry at a time speaks for a job: an attempt that is going on, and an entry
\* still to be read, exclude any other of the same job.
LEMMA OneActiveTask ==
    ASSUME HandOverInv, NEW w \in Workers, NEW i \in Ids, tasks[w][i].pc \notin {"none", "ack"}
    PROVE  /\ i \in 1 .. Len(stream.log)
           /\ \A v \in Workers, k \in Ids :
                 tasks[v][k].pc \notin {"none", "ack"} /\ JobOf(k) = JobOf(i) => v = w /\ k = i
           /\ \A k \in Undelivered(stream) : JobOf(k) # JobOf(i)
<1>1. ASSUME NEW v \in Workers, NEW k \in Ids, tasks[v][k].pc \notin {"none", "ack"}
      PROVE  k \in 1 .. Len(stream.log) /\ Latest(k) /\ k \in InFlight(v) /\ k <= stream.last
  <2>1. k \in InFlight(v)
    BY <1>1 DEF InFlight
  <2>2. k \in 1 .. Len(stream.log) /\ k <= stream.last
    BY <2>1, HandOverFacts, RowOfEntry, LoopFacts
  <2>3. IsCurrent(tasks[v][k], k)
    BY DEF HandOverInv
  <2> QED
    BY <1>1, <2>1, <2>2, <2>3 DEF IsCurrent
<1>2. i \in 1 .. Len(stream.log) /\ Latest(i) /\ i \in InFlight(w) /\ i <= stream.last
  BY <1>1
<1>3. ASSUME NEW v \in Workers, NEW k \in Ids, tasks[v][k].pc \notin {"none", "ack"}, JobOf(k) = JobOf(i)
      PROVE  v = w /\ k = i
  <2>1. k \in 1 .. Len(stream.log) /\ Latest(k) /\ k \in InFlight(v)
    BY <1>1, <1>3
  <2>2. k = i
    BY <1>2, <1>3, <2>1 DEF Latest
  <2> QED
    BY <1>2, <2>1, <2>2 DEF HandOverInv
<1>4. ASSUME NEW k \in Undelivered(stream) PROVE JobOf(k) # JobOf(i)
  <2>1. /\ k \in 1 .. Len(stream.log) /\ stream.last < k
        /\ stream.last \in Int /\ Len(stream.log) \in Nat
    BY HandOverFacts DEF Undelivered, Ids
  <2> QED
    BY <1>2, <2>1 DEF Latest
<1> QED
  BY <1>2, <1>3, <1>4


-----------------------------------------------------------------------------
(* Steps of a task.                                                        *)

\* The entries a step added to the stream.
NewEntries == (Len(stream.log) + 1) .. Len(stream'.log)

\* A step takes the task of entry i on worker w to t. It writes the row of its own
\* job only, and none when it acknowledges; it may add one entry for its job, and
\* is about to acknowledge the old one then; it gives no pending entry up.
TaskHandsOver(w, i, t) ==
    /\ i \in InFlight(w)
    /\ tasks' = [tasks EXCEPT ![w][i] = t]
    /\ UNCHANGED <<loop, requests>>
    /\ \A j \in Jobs : j # JobOf(i) => rows'[j] = rows[j] /\ execs'[j] = execs[j]
    /\ tasks[w][i].pc = "ack" => rows' = rows /\ NewEntries = {}
    /\ Pending(stream)' \subseteq Pending(stream)
    /\ t.pc = "none" => i \notin Pending(stream)'
    /\ Undelivered(stream)' \subseteq Undelivered(stream) \cup NewEntries
    /\ \A k \in NewEntries : JobOf(k)' = JobOf(i) /\ k = Len(stream'.log) /\ BeforeStart(k)'
    /\ IsCurrent(tasks[w][i], i)'
    /\ rows'[JobOf(i)].attempts = execs'[JobOf(i)]
    /\ rows'[JobOf(i)].result <=> rows'[JobOf(i)].status = "success"
    /\ rows'[JobOf(i)].error <=> rows'[JobOf(i)].status = "failed"

\* What stays true of an entry whose job the step does not touch.
LEMMA EntryKept ==
    ASSUME HandOverInv, SafetyInv', HistoryKept, NEW k \in 1 .. Len(stream.log),
           rows'[JobOf(k)] = rows[JobOf(k)],
           \A m \in NewEntries : JobOf(m)' # JobOf(k)
    PROVE  /\ JobOf(k)' = JobOf(k)
           /\ Latest(k) => Latest(k)'
           /\ BeforeStart(k) => BeforeStart(k)'
           /\ Started(k) => Started(k)'
           /\ Requeued(k) => Requeued(k)'
<1>1. stream'.log[k] = stream.log[k] /\ JobOf(k)' = JobOf(k)
  BY DEF HistoryKept, JobOf
<1>2. ASSUME Latest(k) PROVE Latest(k)'
  <2> SUFFICES ASSUME NEW m \in 1 .. Len(stream'.log), JobOf(m)' = JobOf(k) PROVE m <= k
    BY <1>1 DEF Latest
  <2>1. Len(stream.log) \in Nat /\ Len(stream'.log) \in Nat
    BY HandOverFacts DEF SafetyInv, ShapeInv, TypeOK, StoresTypeOK
  <2>2. m \in 1 .. Len(stream.log)
    BY <2>1 DEF NewEntries
  <2>3. JobOf(m) = JobOf(k)
    BY <2>2 DEF HistoryKept, JobOf
  <2> QED
    BY <1>2, <2>2, <2>3 DEF Latest
<1> QED
  BY <1>1, <1>2 DEF BeforeStart, Started, Requeued

LEMMA TaskHandOver ==
    ASSUME HandOverInv, SafetyInv', HistoryKept,
           NEW w \in Workers, NEW i \in Ids, NEW t, TaskHandsOver(w, i, t)
    PROVE  HandOverInv'
<1> USE DEF HandOverInv
<1>1. /\ ShapeInv /\ Len(stream.log) \in Nat
      /\ tasks \in [Workers -> [Ids -> TaskRecord]]
      /\ \A k \in 1 .. Len(stream.log) : JobOf(k) \in Jobs /\ rows[JobOf(k)] \in Job
  BY HandOverFacts
<1>2. /\ i \in InFlight(w) /\ loop' = loop /\ requests' = requests
      /\ \A j \in Jobs : j # JobOf(i) => rows'[j] = rows[j] /\ execs'[j] = execs[j]
      /\ Pending(stream)' \subseteq Pending(stream)
      /\ Undelivered(stream)' \subseteq Undelivered(stream) \cup NewEntries
      /\ \A k \in NewEntries : JobOf(k)' = JobOf(i) /\ k = Len(stream'.log) /\ BeforeStart(k)'
  BY DEF TaskHandsOver
<1>3. i \in 1 .. Len(stream.log) /\ rows[JobOf(i)] # NoRow
  BY <1>1, <1>2, RowOfEntry, JobNotNoRow
<1>4. /\ tasks'[w][i] = t
      /\ \A v \in Workers, k \in Ids : ~(v = w /\ k = i) => tasks'[v][k] = tasks[v][k]
  BY <1>1, OneTaskMoves DEF TaskHandsOver
<1>5. \A v \in Workers : InFlight(v)' \subseteq InFlight(v)
  BY <1>2, <1>4 DEF InFlight
\* The entries of other jobs do not notice the step, nor does any when the task
\* acknowledges.
<1>6. ASSUME NEW k \in 1 .. Len(stream.log), tasks[w][i].pc = "ack" \/ JobOf(k) # JobOf(i)
      PROVE  rows'[JobOf(k)] = rows[JobOf(k)] /\ \A m \in NewEntries : JobOf(m)' # JobOf(k)
  BY <1>1, <1>2, <1>6 DEF TaskHandsOver
<1>7. InsertIsFirst'
  BY <1>2, <1>3 DEF InsertIsFirst
<1>8. PublishIsFirst'
  <2> SUFFICES ASSUME NEW j \in Jobs, requests[j].pc = "publish"
               PROVE  rows'[j] = NewJob /\ \A k \in 1 .. Len(stream'.log) : JobOf(k)' # j
    BY <1>2 DEF PublishIsFirst
  <2>1. rows[j] = NewJob /\ \A k \in 1 .. Len(stream.log) : JobOf(k) # j
    BY DEF PublishIsFirst
  <2>2. j # JobOf(i)
    BY <1>3, <2>1
  <2>3. ASSUME NEW k \in 1 .. Len(stream'.log) PROVE JobOf(k)' # j
    <3>1. CASE k \in 1 .. Len(stream.log)
      BY <2>1, <3>1 DEF HistoryKept, JobOf
    <3>2. CASE k \notin 1 .. Len(stream.log)
      <4>1. k \in NewEntries
        BY <1>1, <3>2 DEF NewEntries, SafetyInv, ShapeInv, TypeOK, StoresTypeOK
      <4> QED
        BY <1>2, <2>2, <4>1
    <3> QED
      BY <3>1, <3>2
  <2> QED
    BY <1>2, <2>1, <2>2, <2>3
<1>9. \A v \in Workers : loop'[v].claimed = {}
  BY <1>2
<1>10. \A u, v \in Workers : u # v => InFlight(u)' \cap InFlight(v)' = {}
  BY <1>5
<1>11. ASSUME NEW k \in Pending(stream)' PROVE \E v \in Workers : k \in InFlight(v)'
  <2>1. PICK v \in Workers : k \in InFlight(v)
    BY <1>2, <1>11
  <2>2. CASE v = w /\ k = i
    <3>1. t.pc # "none"
      BY <1>11, <2>2 DEF TaskHandsOver
    <3> QED
      BY <1>4, <2>2, <3>1 DEF InFlight
  <2>3. CASE ~(v = w /\ k = i)
    BY <1>4, <2>1, <2>3 DEF InFlight
  <2> QED
    BY <2>2, <2>3
<1>12. ASSUME NEW k \in Undelivered(stream)' PROVE Latest(k)' /\ BeforeStart(k)'
  <2>1. CASE k \in NewEntries
    BY <1>2, <2>1 DEF Latest
  <2>2. CASE k \in Undelivered(stream)
    <3>1. k \in 1 .. Len(stream.log)
      BY <1>1, <2>2 DEF Undelivered, Ids
    <3>2. tasks[w][i].pc = "ack" \/ JobOf(k) # JobOf(i)
      BY <1>2, <2>2, OneActiveTask DEF InFlight
    <3> QED
      BY <1>6, <2>2, <3>1, <3>2, EntryKept
  <2> QED
    BY <1>2, <1>12, <2>1, <2>2
<1>13. ASSUME NEW v \in Workers, NEW k \in Ids PROVE IsCurrent(tasks[v][k], k)'
  <2>1. CASE v = w /\ k = i
    BY <2>1 DEF TaskHandsOver
  <2>2. CASE ~(v = w /\ k = i) /\ tasks[v][k].pc \in {"none", "ack"}
    <3>1. tasks'[v][k].pc \in {"none", "ack"}
      BY <1>4, <2>2
    <3> QED
      BY <3>1 DEF IsCurrent, BeforeStartPcs, StartedPcs, SelectPcs, FlushPcs, FailPcs
  <2>3. CASE ~(v = w /\ k = i) /\ tasks[v][k].pc \notin {"none", "ack"}
    <3>1. /\ k \in 1 .. Len(stream.log) /\ Latest(k)
          /\ tasks[w][i].pc = "ack" \/ JobOf(k) # JobOf(i)
      BY <1>2, <2>3, OneActiveTask DEF InFlight, IsCurrent
    <3>2. /\ tasks'[v][k] = tasks[v][k]
          /\ rows'[JobOf(k)] = rows[JobOf(k)]
          /\ \A m \in NewEntries : JobOf(m)' # JobOf(k)
      BY <1>4, <1>6, <2>3, <3>1
    <3>3. IsCurrent(tasks[v][k], k)
      OBVIOUS
    <3>4. /\ JobOf(k)' = JobOf(k)
          /\ Latest(k) => Latest(k)'
          /\ BeforeStart(k) => BeforeStart(k)'
          /\ Started(k) => Started(k)'
          /\ Requeued(k) => Requeued(k)'
      BY <3>1, <3>2, EntryKept
    <3> QED
      BY <1>2, <3>2, <3>3, <3>4 DEF IsCurrent
  <2> QED
    BY <2>1, <2>2, <2>3
<1>14. AttemptsHonest' /\ RowCoherent'
  BY <1>2 DEF AttemptsHonest, RowCoherent, TaskHandsOver
<1> QED
  BY <1>7, <1>8, <1>9, <1>10, <1>11, <1>12, <1>13, <1>14

\* A step that only reads leaves what the table and the stream say.
LEMMA ReadingHandsOver ==
    ASSUME HandOverInv, NEW w \in Workers, NEW i \in Ids, i \in InFlight(w),
           NEW t, tasks' = [tasks EXCEPT ![w][i] = t], IsCurrent(t, i), t.pc # "none",
           UNCHANGED <<rows, stream, loop, requests, execs>>
    PROVE  TaskHandsOver(w, i, t)
<1>1. /\ ShapeInv /\ Len(stream.log) \in Nat /\ stream' = stream
      /\ JobOf(i) \in Jobs
  BY HandOverFacts, RowOfEntry
<1>2. NewEntries = {}
  BY <1>1 DEF NewEntries
<1>3. Pending(stream)' = Pending(stream) /\ Undelivered(stream)' = Undelivered(stream)
  BY <1>1 DEF Pending, Undelivered
<1>4. IsCurrent(tasks[w][i], i)'
  <2>1. tasks'[w][i] = t
    BY HandOverFacts
  <2>2. JobOf(i)' = JobOf(i) /\ Latest(i)' = Latest(i)
    BY <1>1 DEF JobOf, Latest
  <2>3. BeforeStart(i)' = BeforeStart(i) /\ Started(i)' = Started(i) /\ Requeued(i)' = Requeued(i)
    BY <1>1, <2>2 DEF BeforeStart, Started, Requeued
  <2> QED
    BY <1>3, <2>1, <2>2, <2>3 DEF IsCurrent
<1>5. /\ rows'[JobOf(i)].attempts = execs'[JobOf(i)]
      /\ rows'[JobOf(i)].result <=> rows'[JobOf(i)].status = "success"
  BY <1>1 DEF HandOverInv, AttemptsHonest, RowCoherent
<1>6. rows'[JobOf(i)].error <=> rows'[JobOf(i)].status = "failed"
  BY <1>1 DEF HandOverInv, RowCoherent
<1> QED
  BY <1>1, <1>2, <1>3, <1>4, <1>5, <1>6 DEF TaskHandsOver

\* The row of a task that reads, or is about to write, is what its pc says, so no
\* branch for a row that somebody else has moved is taken.
LEMMA ReadingStepsHandOver ==
    ASSUME HandOverInv, NEW w \in Workers, NEW i \in Ids, UNCHANGED ingestionVars,
           \/ Guard(w, i) \/ Load(w, i) \/ UpdateSelect(w, i) \/ RequeueGet(w, i) \/ FailGet(w, i)
           \/ \E outcome \in Outcomes : RunPipeline(w, i, outcome)
    PROVE  \E t : TaskHandsOver(w, i, t)
<1> DEFINE row == rows[JobOf(i)]
           u == tasks[w][i]
           T(p) == [pc |-> p, job |-> NoRow, base |-> NoRow]
<1> USE DEF Goto, SetTask
<1>1. i \in InFlight(w)
  BY DEF Guard, Load, UpdateSelect, RequeueGet, FailGet, RunPipeline, At, InFlight, SelectPcs
<1>2. JobOf(i) \in Jobs /\ row \in Job /\ row # NoRow
  BY <1>1, HandOverFacts, RowOfEntry, JobNotNoRow
<1>3. UNCHANGED <<rows, stream, loop, requests, execs>>
  BY DEF Guard, Load, UpdateSelect, RequeueGet, FailGet, RunPipeline, storeVars, ingestionVars
<1>4. IsCurrent(u, i)
  BY DEF HandOverInv
<1>5. ASSUME NEW t, tasks' = [tasks EXCEPT ![w][i] = t], IsCurrent(t, i), t.pc # "none"
      PROVE  \E q : TaskHandsOver(w, i, q)
  BY <1>1, <1>3, <1>5, ReadingHandsOver
<1>6. CASE Guard(w, i)
  <2>1. u.pc = "guard" /\ Latest(i) /\ BeforeStart(i)
    BY <1>4, <1>6 DEF Guard, At, IsCurrent, BeforeStartPcs
  <2>2. ~Skippable(row)
    BY <1>2, <2>1 DEF BeforeStart, Skippable, IsTerminal, Terminal
  <2>3. tasks' = [tasks EXCEPT ![w][i] = T("load")]
    BY <1>6, <2>2 DEF Guard
  <2>4. IsCurrent(T("load"), i)
    BY <2>1 DEF IsCurrent, StartedPcs, SelectPcs, FlushPcs, FailPcs
  <2> QED
    BY <1>5, <2>3, <2>4
<1>7. CASE Load(w, i)
  <2> DEFINE t == [pc |-> "startSelect", job |-> MarkRunning(row), base |-> NoRow]
  <2>1. u.pc = "load" /\ Latest(i) /\ BeforeStart(i)
    BY <1>4, <1>7 DEF Load, At, IsCurrent, BeforeStartPcs
  <2>2. ~Skippable(row) /\ CanMove(row, "running")
    BY <1>2, <2>1 DEF BeforeStart, Skippable, IsTerminal, Terminal, CanMove, Allowed
  <2>3. tasks' = [tasks EXCEPT ![w][i] = t]
    BY <1>7, <2>2 DEF Load
  <2>4. IsCurrent(t, i)
    BY <2>1 DEF IsCurrent, StartedPcs, SelectPcs, FlushPcs, FailPcs, Written
  <2> QED
    BY <1>5, <2>3, <2>4
<1>8. CASE UpdateSelect(w, i)
  <2> DEFINE t == [pc |-> FlushAfter(u.pc), job |-> u.job, base |-> row]
  <2>1. u.pc \in SelectPcs /\ tasks' = [tasks EXCEPT ![w][i] = t]
    BY <1>2, <1>8 DEF UpdateSelect, At
  <2>2. /\ u.pc = "startSelect" => t.pc = "startFlush"
        /\ u.pc = "successSelect" => t.pc = "successFlush"
        /\ u.pc = "requeueSelect" => t.pc = "requeueFlush"
        /\ u.pc = "failSelect" => t.pc = "failFlush"
        /\ t.job = u.job /\ t.base = row
    BY DEF FlushAfter
  <2> HIDE DEF t
  <2>3. Written(t.pc, row) = Written(u.pc, row)
    <3> HIDE DEF u, row
    <3> QED
      BY <2>1, <2>2 DEF SelectPcs, Written
  <2>4. IsCurrent(t, i)
    <3> HIDE DEF u
    <3> QED
      BY <1>4, <2>1, <2>2, <2>3 DEF IsCurrent, SelectPcs, FlushPcs, BeforeStartPcs, StartedPcs, FailPcs
  <2>5. t.pc # "none"
    BY <2>1, <2>2 DEF SelectPcs
  <2> QED
    BY <1>5, <2>1, <2>4, <2>5
<1>9. CASE RequeueGet(w, i)
  <2> DEFINE t == [pc |-> "requeueSelect", job |-> Requeue(row), base |-> NoRow]
  <2>1. u.pc = "requeueGet" /\ Latest(i) /\ Started(i)
    BY <1>4, <1>9 DEF RequeueGet, At, IsCurrent, StartedPcs
  <2>2. CanMove(row, "pending")
    BY <2>1 DEF Started, CanMove, Allowed
  <2>3. tasks' = [tasks EXCEPT ![w][i] = t]
    BY <1>2, <1>9, <2>2 DEF RequeueGet
  <2>4. IsCurrent(t, i)
    BY <2>1 DEF IsCurrent, BeforeStartPcs, SelectPcs, FlushPcs, FailPcs, Written
  <2> QED
    BY <1>5, <2>3, <2>4
<1>10. CASE FailGet(w, i)
  <2> DEFINE t == [pc |-> "failSelect", job |-> MarkFailed(row), base |-> NoRow]
  <2>1. u.pc = "failGet" /\ Latest(i) /\ Started(i) /\ i \notin Pending(stream)
    BY <1>4, <1>10 DEF FailGet, At, IsCurrent, StartedPcs, FailPcs
  <2>2. CanMove(row, "failed")
    BY <2>1 DEF Started, CanMove, Allowed
  <2>3. tasks' = [tasks EXCEPT ![w][i] = t]
    BY <1>10, <2>2 DEF FailGet
  <2>4. IsCurrent(t, i)
    BY <2>1 DEF IsCurrent, BeforeStartPcs, SelectPcs, FlushPcs, Written
  <2> QED
    BY <1>5, <2>3, <2>4
<1>11. ASSUME NEW outcome \in Outcomes, RunPipeline(w, i, outcome)
       PROVE  \E t : TaskHandsOver(w, i, t)
  <2> DEFINE t == [pc |-> "successSelect", job |-> MarkSuccess(row), base |-> NoRow]
  <2>1. u.pc = "pipeline" /\ Latest(i) /\ Started(i) /\ u.job = row
    BY <1>4, <1>11 DEF RunPipeline, At, IsCurrent, StartedPcs, Written
  <2>2. \/ tasks' = [tasks EXCEPT ![w][i] = t]
        \/ tasks' = [tasks EXCEPT ![w][i] = T("requeueGet")]
        \/ tasks' = [tasks EXCEPT ![w][i] = T("dlq")]
    BY <1>11, <2>1 DEF RunPipeline, Outcomes, OnTransient
  <2>3. IsCurrent(t, i) /\ IsCurrent(T("requeueGet"), i) /\ IsCurrent(T("dlq"), i)
    BY <2>1 DEF IsCurrent, BeforeStartPcs, SelectPcs, FlushPcs, FailPcs, Written
  <2> QED
    BY <1>5, <2>2, <2>3
<1> QED
  BY <1>6, <1>7, <1>8, <1>9, <1>10, <1>11

\* The transition methods, field by field.
LEMMA JobFields ==
    ASSUME NEW job \in Job
    PROVE  /\ MarkRunning(job) = [status |-> "running", attempts |-> job.attempts + 1,
                                  result |-> job.result, error |-> FALSE]
           /\ MarkSuccess(job) = [status |-> "success", attempts |-> job.attempts,
                                  result |-> TRUE, error |-> job.error]
           /\ MarkFailed(job) = [status |-> "failed", attempts |-> job.attempts,
                                 result |-> job.result, error |-> TRUE]
           /\ Requeue(job) = [status |-> "pending", attempts |-> job.attempts,
                              result |-> job.result, error |-> job.error]
<1>1. /\ MarkRunning(job) = [job EXCEPT !.status = "running", !.attempts = job.attempts + 1, !.error = FALSE]
      /\ MarkSuccess(job) = [job EXCEPT !.status = "success", !.result = TRUE]
      /\ MarkFailed(job) = [job EXCEPT !.status = "failed", !.error = TRUE]
      /\ Requeue(job) = [job EXCEPT !.status = "pending"]
  BY DEF MarkRunning, MarkSuccess, MarkFailed, Requeue
<1>2. job = [status |-> job.status, attempts |-> job.attempts, result |-> job.result, error |-> job.error]
  BY DEF Job
<1>3. MarkRunning(job) = [status |-> "running", attempts |-> job.attempts + 1,
                          result |-> job.result, error |-> FALSE]
  BY <1>1, <1>2
<1>4. MarkSuccess(job) = [status |-> "success", attempts |-> job.attempts,
                          result |-> TRUE, error |-> job.error]
  BY <1>1, <1>2
<1>5. MarkFailed(job) = [status |-> "failed", attempts |-> job.attempts,
                         result |-> job.result, error |-> TRUE]
  BY <1>1, <1>2
<1>6. Requeue(job) = [status |-> "pending", attempts |-> job.attempts,
                      result |-> job.result, error |-> job.error]
  BY <1>1, <1>2
<1> QED
  BY <1>3, <1>4, <1>5, <1>6

\* An UPDATE whose base is the row as it is leaves the job object in the table.
LEMMA MergeIsWrite ==
    ASSUME NEW row \in Job, NEW job \in Job
    PROVE  MergeInto(row, row, job) = job
BY DEF MergeInto, Job

LEMMA UpdateFlushHandsOver ==
    ASSUME NoFailures, HandOverInv, NEW w \in Workers, NEW i \in Ids, NEW r \in Replies,
           UNCHANGED ingestionVars, UpdateFlush(w, i, r)
    PROVE  \E t : TaskHandsOver(w, i, t)
<1> DEFINE u == tasks[w][i]
           j == JobOf(i)
           row == rows[j]
           next == AfterFlush(u.pc)
           t == [pc |-> next, job |-> IF next = "pipeline" THEN u.job ELSE NoRow, base |-> NoRow]
<1>1. i \in InFlight(w) /\ u.pc \in FlushPcs
  BY DEF UpdateFlush, At, InFlight, FlushPcs
<1>2. /\ ShapeInv /\ j \in Jobs /\ row \in Job /\ i \in 1 .. Len(stream.log)
      /\ rows \in [Jobs -> Job \cup {NoRow}] /\ execs \in [Jobs -> Nat]
      /\ stream.log[i].attempt \in Nat /\ Len(stream.log) \in Nat
  BY <1>1, HandOverFacts, RowOfEntry
<1>3. r = "ok"
  BY <1>2, CallsAreAnswered DEF UpdateFlush
<1>4. IsCurrent(u, i)
  BY DEF HandOverInv
<1>5. u.job \in Job /\ u.job = Written(u.pc, row) /\ u.base = row /\ Latest(i)
  BY <1>1, <1>2, <1>4 DEF IsCurrent, FlushPcs, ShapeInv, TaskShape, WrittenStatus
<1>6. MergeInto(row, u.base, u.job) = u.job
  BY <1>2, <1>5, MergeIsWrite
<1>7. /\ rows' = [rows EXCEPT ![j] = u.job]
      /\ tasks' = [tasks EXCEPT ![w][i] = t]
      /\ execs' = IF next = "pipeline" THEN [execs EXCEPT ![j] = execs[j] + 1] ELSE execs
      /\ UNCHANGED <<stream, loop, requests>>
  BY <1>3, <1>6 DEF UpdateFlush, UpdateRow, SetTask, ingestionVars
<1>8. /\ rows'[j] = u.job /\ \A k \in Jobs : k # j => rows'[k] = rows[k] /\ execs'[k] = execs[k]
      /\ execs'[j] = IF next = "pipeline" THEN execs[j] + 1 ELSE execs[j]
      /\ tasks'[w][i] = t
  <2> HIDE DEF t, next, j
  <2> QED
    BY <1>2, <1>7, HandOverFacts
<1>9. /\ row.attempts = execs[j] /\ row.attempts \in Nat
      /\ row.result <=> row.status = "success"
  BY <1>2 DEF HandOverInv, AttemptsHonest, RowCoherent, Job
<1>10. row.error <=> row.status = "failed"
  BY <1>2 DEF HandOverInv, RowCoherent
<1>11. /\ NewEntries = {} /\ Pending(stream)' = Pending(stream)
       /\ Undelivered(stream)' = Undelivered(stream)
  BY <1>2, <1>7 DEF NewEntries, Pending, Undelivered
<1>12. JobOf(i)' = j /\ Latest(i)' /\ stream'.log[i] = stream.log[i]
  BY <1>5, <1>7 DEF JobOf, Latest
<1>13. ASSUME /\ rows'[j].attempts = execs'[j]
              /\ rows'[j].result <=> rows'[j].status = "success",
              rows'[j].error <=> rows'[j].status = "failed",
              IsCurrent(tasks[w][i], i)',
              t.pc = "none" => i \notin Pending(stream)
       PROVE  \E q : TaskHandsOver(w, i, q)
  <2>1. u.pc # "ack"
    BY <1>1 DEF FlushPcs
  <2>2. TaskHandsOver(w, i, t)
    <3> HIDE DEF t, u, next
    <3> QED
      BY <1>1, <1>7, <1>8, <1>11, <1>13, <2>1 DEF TaskHandsOver, u
  <2> QED
    BY <2>2
<1>14. CASE u.pc = "startFlush"
  <2>1. BeforeStart(i)
    BY <1>4, <1>14 DEF IsCurrent, BeforeStartPcs
  <2>2. u.job = [status |-> "running", attempts |-> row.attempts + 1, result |-> row.result, error |-> FALSE]
    BY <1>2, <1>5, <1>14, JobFields DEF Written
  <2>3. next = "pipeline" /\ t.pc = "pipeline" /\ t.job = u.job
    BY <1>14 DEF AfterFlush
  <2>4. Started(i)'
    BY <1>2, <1>8, <1>12, <2>1, <2>2 DEF BeforeStart, Started
  <2>5. IsCurrent(tasks[w][i], i)'
    <3> HIDE DEF t, u
    <3> QED
      BY <1>8, <1>12, <2>3, <2>4 DEF IsCurrent, Written, BeforeStartPcs, SelectPcs, FlushPcs, FailPcs
  <2>6. /\ rows'[j].attempts = execs'[j]
        /\ rows'[j].result <=> rows'[j].status = "success"
    BY <1>8, <1>9, <2>1, <2>2, <2>3 DEF BeforeStart
  <2>7. rows'[j].error <=> rows'[j].status = "failed"
    BY <1>8, <2>2
  <2> QED
    BY <1>13, <2>3, <2>5, <2>6, <2>7
<1>15. CASE u.pc = "requeueFlush"
  <2>1. Started(i)
    BY <1>4, <1>15 DEF IsCurrent, StartedPcs
  <2>2. u.job = [status |-> "pending", attempts |-> row.attempts, result |-> row.result, error |-> row.error]
    BY <1>2, <1>5, <1>15, JobFields DEF Written
  <2>3. next = "republish" /\ t.pc = "republish"
    BY <1>15 DEF AfterFlush
  <2>4. Requeued(i)'
    BY <1>8, <1>12, <2>1, <2>2 DEF Started, Requeued
  <2>5. IsCurrent(tasks[w][i], i)'
    <3> HIDE DEF t, u
    <3> QED
      BY <1>8, <1>12, <2>3, <2>4 DEF IsCurrent, BeforeStartPcs, StartedPcs, SelectPcs, FlushPcs, FailPcs
  <2>6. /\ rows'[j].attempts = execs'[j]
        /\ rows'[j].result <=> rows'[j].status = "success"
    BY <1>8, <1>9, <2>1, <2>2, <2>3 DEF Started
  <2>7. rows'[j].error <=> rows'[j].status = "failed"
    BY <1>8, <1>10, <2>1, <2>2 DEF Started
  <2> QED
    BY <1>13, <2>3, <2>5, <2>6, <2>7
<1>16. CASE u.pc \in {"successFlush", "failFlush"}
  <2>1. Started(i) /\ (u.pc = "failFlush" => i \notin Pending(stream))
    BY <1>4, <1>16 DEF IsCurrent, StartedPcs, FailPcs
  <2>2. /\ u.pc = "successFlush" => u.job = [status |-> "success", attempts |-> row.attempts,
                                             result |-> TRUE, error |-> row.error]
        /\ u.pc = "failFlush" => u.job = [status |-> "failed", attempts |-> row.attempts,
                                          result |-> row.result, error |-> TRUE]
    BY <1>2, <1>5, JobFields DEF Written
  <2>3. /\ next = t.pc /\ t.pc \in {"ack", "none"}
        /\ t.pc = "none" => u.pc = "failFlush"
    BY <1>16 DEF AfterFlush
  <2>5. IsCurrent(tasks[w][i], i)'
    <3> HIDE DEF t, u
    <3> QED
      BY <1>8, <2>3 DEF IsCurrent, BeforeStartPcs, StartedPcs, SelectPcs, FlushPcs, FailPcs
  <2>6. /\ rows'[j].attempts = execs'[j]
        /\ rows'[j].result <=> rows'[j].status = "success"
    BY <1>8, <1>9, <1>16, <2>1, <2>2, <2>3 DEF Started
  <2>7. rows'[j].error <=> rows'[j].status = "failed"
    BY <1>8, <1>10, <1>16, <2>1, <2>2 DEF Started
  <2> QED
    BY <1>13, <2>1, <2>3, <2>5, <2>6, <2>7
<1> QED
  BY <1>1, <1>14, <1>15, <1>16 DEF FlushPcs

\* XADD adds one entry, and its trim only takes entries away.
LEMMA XaddAddsOne ==
    ASSUME HandOverInv, NEW m \in JobMessage, Xadd(m)
    PROVE  /\ Len(stream'.log) = Len(stream.log) + 1
           /\ \A k \in NewEntries : k = Len(stream'.log) /\ stream'.log[k] = m
           /\ Pending(stream)' = Pending(stream)
           /\ Undelivered(stream)' \subseteq Undelivered(stream) \cup NewEntries
<1>1. stream \in StreamRecord /\ Len(stream.log) \in Nat /\ stream.first \in Nat
  BY HandOverFacts
<1>2. PICK f \in TrimPoints(stream) : stream' = XAdd(stream, m, f)
  BY DEF Xadd
<1>3. f \in Int /\ stream.first <= f
  BY <1>1, <1>2 DEF TrimPoints
<1>4. stream' = [stream EXCEPT !.log = Append(stream.log, m), !.first = f]
  BY <1>2 DEF XAdd
<1>5. /\ stream'.log = Append(stream.log, m) /\ stream'.first = f
      /\ stream'.last = stream.last /\ stream'.pel = stream.pel
  BY <1>1, <1>4 DEF StreamRecord
<1>6. stream.log \in Seq(JobMessage)
  BY <1>1 DEF StreamRecord
<1>7. /\ Len(stream'.log) = Len(stream.log) + 1
      /\ stream'.log[Len(stream.log) + 1] = m
  BY <1>5, <1>6
<1>8. \A k \in NewEntries : k = Len(stream'.log) /\ stream'.log[k] = m
  BY <1>1, <1>7 DEF NewEntries
<1>9. Pending(stream)' = Pending(stream)
  BY <1>5 DEF Pending
<1>10. ASSUME NEW k \in Undelivered(stream)' PROVE k \in Undelivered(stream) \cup NewEntries
  <2>1. k \in Ids /\ k \in Int /\ stream.last < k /\ f <= k /\ k <= Len(stream.log) + 1
    BY <1>5, <1>7, <1>10 DEF Undelivered, Ids
  <2>2. stream.first <= k
    BY <1>1, <1>3, <2>1
  <2> QED
    BY <1>1, <1>7, <2>1, <2>2 DEF Undelivered, NewEntries
<1> QED
  BY <1>7, <1>8, <1>9, <1>10

LEMMA XAckTakesOne ==
    ASSUME HandOverInv, NEW i \in Ids, stream' = XAck(stream, i)
    PROVE  /\ stream'.log = stream.log /\ NewEntries = {}
           /\ Pending(stream)' = Pending(stream) \ {i}
           /\ Undelivered(stream)' = Undelivered(stream)
<1>1. stream \in StreamRecord /\ Len(stream.log) \in Nat
  BY HandOverFacts
<1>2. stream' = [stream EXCEPT !.pel = [stream.pel EXCEPT ![i] = 0]]
  BY DEF XAck
<1>3. /\ stream'.first = stream.first /\ stream'.last = stream.last /\ stream'.log = stream.log
      /\ stream'.pel = [stream.pel EXCEPT ![i] = 0]
  BY <1>1, <1>2 DEF StreamRecord
<1>4. stream.pel \in [Ids -> DeliveryCounts]
  BY <1>1 DEF StreamRecord
<1>5. \A k \in Ids : stream'.pel[k] = IF k = i THEN 0 ELSE stream.pel[k]
  BY <1>3, <1>4
<1> QED
  BY <1>1, <1>3, <1>5 DEF NewEntries, Pending, Undelivered

LEMMA WritingStepsHandOver ==
    ASSUME NoFailures, HandOverInv, NEW w \in Workers, NEW i \in Ids, NEW r \in Replies,
           UNCHANGED ingestionVars,
           Republish(w, i, r) \/ Ack(w, i, r) \/ DeadLetter(w, i, r) \/ DlqAck(w, i, r)
    PROVE  \E t : TaskHandsOver(w, i, t)
<1> DEFINE u == tasks[w][i]
           j == JobOf(i)
           T(p) == [pc |-> p, job |-> NoRow, base |-> NoRow]
<1> USE DEF Goto, SetTask
<1>1. i \in InFlight(w)
  BY DEF Republish, Ack, DeadLetter, DlqAck, At, InFlight
<1>2. /\ ShapeInv /\ j \in Jobs /\ i \in 1 .. Len(stream.log) /\ stream.log[i] \in JobMessage
      /\ Len(stream.log) \in Nat
  BY <1>1, HandOverFacts, RowOfEntry
<1>3. r = "ok"
  BY <1>2, CallsAreAnswered DEF Republish, Ack, DeadLetter, DlqAck
<1>4. UNCHANGED <<rows, execs, loop, requests>>
  BY DEF Republish, Ack, DeadLetter, DlqAck, ingestionVars
<1>5. /\ rows'[j].attempts = execs'[j]
      /\ rows'[j].result <=> rows'[j].status = "success"
  BY <1>2, <1>4 DEF HandOverInv, AttemptsHonest, RowCoherent
<1>6. rows'[j].error <=> rows'[j].status = "failed"
  BY <1>2, <1>4 DEF HandOverInv, RowCoherent
<1>7. IsCurrent(u, i)
  BY DEF HandOverInv
<1>8. ASSUME NEW t, tasks' = [tasks EXCEPT ![w][i] = t],
             u.pc = "ack" => NewEntries = {},
             Pending(stream)' \subseteq Pending(stream), t.pc = "none" => i \notin Pending(stream)',
             Undelivered(stream)' \subseteq Undelivered(stream) \cup NewEntries,
             \A k \in NewEntries : JobOf(k)' = j /\ k = Len(stream'.log) /\ BeforeStart(k)',
             IsCurrent(t, i)'
      PROVE  \E q : TaskHandsOver(w, i, q)
  <2>1. tasks'[w][i] = t
    BY <1>8, HandOverFacts
  <2>2. IsCurrent(tasks[w][i], i)'
    BY <1>8, <2>1 DEF IsCurrent
  <2>3. TaskHandsOver(w, i, t)
    BY <1>1, <1>4, <1>5, <1>6, <1>8, <2>2 DEF TaskHandsOver
  <2> QED
    BY <2>3
<1>9. CASE Republish(w, i, r)
  <2> DEFINE m == NextAttempt(stream.log[i])
  <2>1. u.pc = "republish" /\ Requeued(i) /\ Xadd(m) /\ tasks' = [tasks EXCEPT ![w][i] = T("ack")]
    BY <1>3, <1>7, <1>9 DEF Republish, At, IsCurrent
  <2>2. stream.log[i].attempt < MaxAttempts /\ stream.log[i].attempt \in Nat
    BY <1>2, <2>1, StoresAssumption DEF ShapeInv, TaskShape, RetryPcs, JobMessage
  <2>3. m \in JobMessage /\ m.job = j /\ m.attempt = stream.log[i].attempt + 1
    BY <1>2, <2>2, StoresAssumption DEF NextAttempt, JobMessage, JobOf
  <2>4. /\ \A k \in NewEntries : k = Len(stream'.log) /\ stream'.log[k] = m
        /\ Pending(stream)' = Pending(stream)
        /\ Undelivered(stream)' \subseteq Undelivered(stream) \cup NewEntries
    BY <2>1, <2>3, XaddAddsOne
  <2>5. \A k \in NewEntries : JobOf(k)' = j /\ k = Len(stream'.log) /\ BeforeStart(k)'
    <3> SUFFICES ASSUME NEW k \in NewEntries PROVE JobOf(k)' = j /\ k = Len(stream'.log) /\ BeforeStart(k)'
      OBVIOUS
    <3>1. stream'.log[k] = m /\ k = Len(stream'.log)
      BY <2>4
    <3>2. JobOf(k)' = j
      BY <2>3, <3>1 DEF JobOf
    <3>3. stream'.log[k].attempt - 1 = stream.log[i].attempt
      BY <2>2, <2>3, <3>1
    <3>4. BeforeStart(k)'
      BY <1>4, <2>1, <3>2, <3>3 DEF Requeued, BeforeStart
    <3> QED
      BY <3>1, <3>2, <3>4
  <2>6. IsCurrent(T("ack"), i)'
    BY DEF IsCurrent, BeforeStartPcs, StartedPcs, SelectPcs, FlushPcs, FailPcs
  <2>7. u.pc # "ack" /\ T("ack").pc # "none"
    BY <2>1
  <2> HIDE DEF T, m, u, j
  <2> QED
    BY <1>8, <2>1, <2>4, <2>5, <2>6, <2>7
<1>10. CASE Ack(w, i, r)
  <2>1. tasks' = [tasks EXCEPT ![w][i] = T("none")] /\ stream' = XAck(stream, i)
    BY <1>10 DEF Ack
  <2>2. IsCurrent(T("none"), i)'
    BY DEF IsCurrent, BeforeStartPcs, StartedPcs, SelectPcs, FlushPcs, FailPcs
  <2> HIDE DEF T, u, j
  <2> QED
    BY <1>8, <2>1, <2>2, XAckTakesOne
<1>11. CASE DeadLetter(w, i, r)
  <2>1. /\ u.pc = "dlq" /\ Latest(i) /\ Started(i) /\ stream' = stream
        /\ tasks' = [tasks EXCEPT ![w][i] = T("dlqAck")]
    BY <1>3, <1>7, <1>11 DEF DeadLetter, At, IsCurrent, StartedPcs
  <2>2. NewEntries = {} /\ Pending(stream)' = Pending(stream) /\ Undelivered(stream)' = Undelivered(stream)
    BY <1>2, <2>1 DEF NewEntries, Pending, Undelivered
  <2>3. Latest(i)' /\ Started(i)'
    BY <1>4, <2>1 DEF Latest, Started, JobOf
  <2>4. IsCurrent(T("dlqAck"), i)'
    BY <2>3 DEF IsCurrent, BeforeStartPcs, SelectPcs, FlushPcs, FailPcs
  <2>5. T("dlqAck").pc # "none"
    OBVIOUS
  <2> HIDE DEF T, u, j
  <2> QED
    BY <1>8, <2>1, <2>2, <2>4, <2>5
<1>12. CASE DlqAck(w, i, r)
  <2>1. /\ u.pc = "dlqAck" /\ Latest(i) /\ Started(i) /\ stream' = XAck(stream, i)
        /\ tasks' = [tasks EXCEPT ![w][i] = T("failGet")]
    BY <1>3, <1>7, <1>12 DEF DlqAck, At, IsCurrent, StartedPcs
  <2>2. /\ NewEntries = {} /\ Pending(stream)' = Pending(stream) \ {i}
        /\ Undelivered(stream)' = Undelivered(stream) /\ stream'.log = stream.log
    BY <2>1, XAckTakesOne
  <2>3. Latest(i)' /\ Started(i)'
    BY <1>4, <2>1, <2>2 DEF Latest, Started, JobOf
  <2>4. IsCurrent(T("failGet"), i)'
    BY <2>2, <2>3 DEF IsCurrent, BeforeStartPcs, SelectPcs, FlushPcs
  <2> HIDE DEF T, u, j
  <2> QED
    BY <1>8, <2>1, <2>2, <2>4
<1> QED
  BY <1>9, <1>10, <1>11, <1>12

LEMMA TaskStepHandOver ==
    ASSUME NoFailures, HandOverInv, SafetyInv', HistoryKept, NEW w \in Workers, NEW i \in Ids,
           TaskStep(w, i) \/ TaskError(w, i), UNCHANGED ingestionVars
    PROVE  HandOverInv'
<1>1. ShapeInv
  BY HandOverFacts
<1>2. ~TaskError(w, i)
  BY <1>1, CallsAreAnswered DEF TaskError
<1>3. \E t : TaskHandsOver(w, i, t)
  BY <1>2, ReadingStepsHandOver, UpdateFlushHandsOver, WritingStepsHandOver DEF TaskStep
<1> QED
  BY <1>3, TaskHandOver

-----------------------------------------------------------------------------
(* Steps of the consume loop.                                              *)

\* The loop of w becomes l and dispatches ids: entries nobody has read before,
\* which nobody can read again. It claims nothing.
LoopHandsOver(w, l, ids) ==
    /\ SetLoop(w, l) /\ Dispatch(w, ids) /\ ids \in SUBSET Ids
    /\ UNCHANGED <<rows, requests, execs>>
    /\ stream'.log = stream.log
    /\ l.claimed = {}
    /\ ids \subseteq Undelivered(stream)
    /\ Undelivered(stream)' \subseteq Undelivered(stream) \ ids
    /\ Pending(stream)' \subseteq Pending(stream) \cup ids

LEMMA LoopHandOver ==
    ASSUME HandOverInv, SafetyInv', HistoryKept,
           NEW w \in Workers, NEW l, NEW ids, LoopHandsOver(w, l, ids)
    PROVE  HandOverInv'
<1> USE DEF HandOverInv
<1>1. /\ ShapeInv /\ loop \in [Workers -> LoopRecord] /\ Len(stream.log) \in Nat /\ stream.last \in Int
      /\ tasks \in [Workers -> [Ids -> TaskRecord]]
  BY HandOverFacts
<1>2. /\ loop' = [loop EXCEPT ![w] = l] /\ l.claimed = {} /\ ids \in SUBSET Ids
      /\ UNCHANGED <<rows, requests, execs>> /\ stream'.log = stream.log
      /\ ids \subseteq Undelivered(stream)
      /\ Undelivered(stream)' \subseteq Undelivered(stream) \ ids
      /\ Pending(stream)' \subseteq Pending(stream) \cup ids
  BY DEF LoopHandsOver, SetLoop
<1>3. /\ \A k \in ids : tasks'[w][k].pc = "guard"
      /\ \A v \in Workers, k \in Ids : ~(v = w /\ k \in ids) => tasks'[v][k] = tasks[v][k]
  BY <1>1, <1>2, DispatchEffect DEF LoopHandsOver
<1>4. /\ InFlight(w)' = InFlight(w) \cup ids
      /\ \A v \in Workers : v # w => InFlight(v)' = InFlight(v)
  BY <1>2, <1>3 DEF InFlight
<1>5. \A v \in Workers : ids \cap InFlight(v) = {}
  <2> SUFFICES ASSUME NEW v \in Workers, NEW k \in ids, k \in InFlight(v) PROVE FALSE
    OBVIOUS
  <2>1. k <= stream.last /\ stream.last < k /\ k \in Int
    BY <1>1, <1>2, LoopFacts DEF Undelivered, Ids
  <2> QED
    BY <1>1, <2>1
<1>6. \A k : /\ JobOf(k)' = JobOf(k) /\ Latest(k)' = Latest(k)
             /\ BeforeStart(k)' = BeforeStart(k) /\ Started(k)' = Started(k) /\ Requeued(k)' = Requeued(k)
  BY <1>2 DEF JobOf, Latest, BeforeStart, Started, Requeued
<1>7. InsertIsFirst' /\ PublishIsFirst' /\ AttemptsHonest' /\ RowCoherent'
  BY <1>2 DEF InsertIsFirst, PublishIsFirst, AttemptsHonest, RowCoherent, JobOf
<1>8. \A v \in Workers : loop'[v].claimed = {}
  BY <1>1, <1>2
<1>9. \A u, v \in Workers : u # v => InFlight(u)' \cap InFlight(v)' = {}
  BY <1>4, <1>5
<1>10. \A k \in Pending(stream)' : \E v \in Workers : k \in InFlight(v)'
  BY <1>2, <1>4
<1>11. \A k \in Undelivered(stream)' : Latest(k)' /\ BeforeStart(k)'
  BY <1>2, <1>6
<1>12. ASSUME NEW v \in Workers, NEW k \in Ids PROVE IsCurrent(tasks[v][k], k)'
  <2>1. CASE v = w /\ k \in ids
    <3>1. tasks'[v][k].pc = "guard" /\ Latest(k)' /\ BeforeStart(k)'
      BY <1>2, <1>3, <1>6, <2>1
    <3> QED
      BY <3>1 DEF IsCurrent, StartedPcs, SelectPcs, FlushPcs, FailPcs
  <2>2. CASE ~(v = w /\ k \in ids)
    <3>1. tasks'[v][k] = tasks[v][k] /\ IsCurrent(tasks[v][k], k)
      BY <1>3, <2>2
    <3>2. tasks[v][k].pc \in FailPcs => k \notin Pending(stream)'
      <4>1. tasks[v][k].pc \in FailPcs => k \in InFlight(v)
        BY DEF FailPcs, InFlight
      <4> QED
        BY <1>2, <1>5, <3>1, <4>1 DEF IsCurrent
    <3> QED
      BY <1>2, <1>6, <3>1, <3>2 DEF IsCurrent
  <2> QED
    BY <2>1, <2>2
<1> QED
  BY <1>7, <1>8, <1>9, <1>10, <1>11, <1>12

LEMMA NextPassClaimsNothing ==
    ASSUME NEW l \in LoopRecord, NEW n
    PROVE  NextPass(l, n).claimed = {}
<1>1. \/ NextPass(l, n) = LoopAt(l, "drain", {}, 0)
      \/ NextPass(l, n) = LoopAt(l, "reclaim", {}, FreeCapacity(n))
      \/ NextPass(l, n) = LoopAt(l, "spin", {}, 0)
  BY DEF NextPass
<1>2. \A pc, c : LoopAt(l, pc, {}, c).claimed = {}
  BY DEF LoopAt, LoopRecord
<1> QED
  BY <1>1, <1>2

LEMMA NextClaimedClaimsNothing ==
    ASSUME NEW l \in LoopRecord, NEW F
    PROVE  NextClaimed(l, {}, F).claimed = {}
<1>1. StillToHandle({}, F) = {}
  BY DEF StillToHandle
<1>2. \/ NextClaimed(l, {}, F) = LoopAt(l, "read", {}, FreeCapacity(Cardinality(F)))
      \/ NextClaimed(l, {}, F) = NextPass(l, Cardinality(F))
  BY <1>1 DEF NextClaimed
<1>3. \A pc, c : LoopAt(l, pc, {}, c).claimed = {}
  BY DEF LoopAt, LoopRecord
<1> QED
  BY <1>2, <1>3, NextPassClaimsNothing

\* A loop that moves on, reads nothing and dispatches nothing.
LEMMA TurnHandsOver ==
    ASSUME HandOverInv, NEW w \in Workers, UNCHANGED <<rows, requests, execs, tasks>>,
           NEW l, SetLoop(w, l), l.claimed = {}, stream'.log = stream.log,
           Undelivered(stream)' \subseteq Undelivered(stream), Pending(stream)' \subseteq Pending(stream)
    PROVE  LoopHandsOver(w, l, {})
<1>1. Dispatch(w, {})
  BY HandOverFacts, NoDispatch
<1> QED
  BY <1>1 DEF LoopHandsOver

LEMMA TurningStepsHandOver ==
    ASSUME HandOverInv, NEW w \in Workers, UNCHANGED ingestionVars,
           \/ Boot(w) \/ ReadTimeout(w) \/ WakeUp(w) \/ DrainDone(w) \/ SpinPass(w)
           \/ Sigterm(w) \/ SetStop(w)
    PROVE  \E l : LoopHandsOver(w, l, {})
<1>1. UNCHANGED <<rows, stream, requests, execs, tasks>>
  BY DEF Boot, ReadTimeout, WakeUp, DrainDone, SpinPass, Sigterm, SetStop, storeVars, ingestionVars
<1>2. loop[w] \in LoopRecord /\ loop[w].claimed = {}
  BY HandOverFacts DEF HandOverInv
<1>3. PICK l : SetLoop(w, l) /\ l.claimed = {}
  <2>1. CASE ReadTimeout(w) \/ WakeUp(w) \/ SpinPass(w)
    BY <1>2, <2>1, NextPassClaimsNothing DEF ReadTimeout, WakeUp, SpinPass
  <2>2. CASE Boot(w)
    BY <2>2 DEF Boot, NoLoop
  <2>3. CASE DrainDone(w)
    <3>1. [loop[w] EXCEPT !.pc = "stopped"].claimed = {}
      BY <1>2 DEF LoopRecord
    <3> QED
      BY <2>3, <3>1 DEF DrainDone
  <2>4. CASE Sigterm(w) \/ SetStop(w)
    <3>1. \A s : [loop[w] EXCEPT !.stop = s].claimed = {}
      BY <1>2 DEF LoopRecord
    <3> QED
      BY <2>4, <3>1 DEF Sigterm, SetStop
  <2> QED
    BY <2>1, <2>2, <2>3, <2>4
<1>4. Undelivered(stream)' = Undelivered(stream) /\ Pending(stream)' = Pending(stream)
  BY <1>1 DEF Undelivered, Pending
<1>5. LoopHandsOver(w, l, {})
  BY <1>1, <1>3, <1>4, TurnHandsOver
<1> QED
  BY <1>5

\* ensure_group may pass over what was published before: less is left to read.
LEMMA EnsureGroupHandsOver ==
    ASSUME NoFailures, HandOverInv, NEW w \in Workers, NEW r \in Replies, UNCHANGED ingestionVars,
           EnsureGroup(w, r)
    PROVE  \E l : LoopHandsOver(w, l, {})
<1>1. /\ stream \in StreamRecord /\ loop[w] \in LoopRecord /\ ShapeInv
      /\ Len(stream.log) \in Nat /\ stream.last \in Int
  BY HandOverFacts
<1>2. PICK top : top = IF stream.last = NoGroup THEN Len(stream.log) ELSE stream.last
  OBVIOUS
<1>3. stream' = [stream EXCEPT !.last = top]
  BY <1>2 DEF EnsureGroup, XGroupCreate
<1>4. /\ stream'.log = stream.log /\ stream'.first = stream.first /\ stream'.pel = stream.pel
      /\ stream'.last = top
  BY <1>1, <1>3 DEF StreamRecord
<1>5. top \in Int /\ stream.last <= top
  BY <1>1, <1>2 DEF NoGroup
<1>6. Undelivered(stream)' \subseteq Undelivered(stream) /\ Pending(stream)' \subseteq Pending(stream)
  BY <1>1, <1>4, <1>5 DEF Undelivered, Pending, Ids
<1>7. r = "ok"
  BY <1>1, CallsAreAnswered DEF EnsureGroup
<1>8. SetLoop(w, NextPass(loop[w], 0)) /\ NextPass(loop[w], 0).claimed = {}
  BY <1>1, <1>7, NextPassClaimsNothing DEF EnsureGroup
<1>9. UNCHANGED <<rows, requests, execs, tasks>>
  BY DEF EnsureGroup, ingestionVars
<1>10. LoopHandsOver(w, NextPass(loop[w], 0), {})
  BY <1>4, <1>6, <1>8, <1>9, TurnHandsOver
<1> QED
  BY <1>10

\* Every pending entry is in the hands of a process that is there, so XAUTOCLAIM
\* finds only entries the trim has removed, and returns none.
LEMMA ReclaimOrphansHandsOver ==
    ASSUME NoFailures, HandOverInv, NeverSpins, NEW w \in Workers, NEW r \in Replies,
           UNCHANGED ingestionVars, NEW R \in Claimable(w), ReclaimOrphans(w, R, r)
    PROVE  \E l : LoopHandsOver(w, l, {})
<1>1. /\ stream \in StreamRecord /\ loop[w] \in LoopRecord /\ ShapeInv
      /\ stream.first \in Nat
  BY HandOverFacts
<1>2. MayBeIdle = {}
  <2> SUFFICES ASSUME NEW k \in Pending(stream) PROVE Held(k)
    BY DEF MayBeIdle, NoFailures
  <2>1. PICK v \in Workers : k \in InFlight(v)
    BY DEF HandOverInv
  <2>2. Running(v)
    BY <1>1, <2>1 DEF ShapeInv, LoopShape, NeverSpins, Running
  <2> QED
    BY <2>1, <2>2 DEF Held
<1>3. \A k \in R : k \in Ids /\ k < stream.first
  BY <1>2 DEF Claimable, XAutoClaimSets, Pending
<1>4. {k \in R : k >= stream.first} = {}
  BY <1>1, <1>3 DEF Ids
<1>5. PICK cursor : cursor = XAutoClaimCursor(stream, R, loop[w].count)
  OBVIOUS
<1>6. PICK m : m = [loop[w] EXCEPT !.cursor = cursor]
  OBVIOUS
<1>7. m \in LoopRecord
  <2>1. cursor \in 0 .. MaxEntries
    BY <1>5, CursorType
  <2> QED
    BY <1>1, <1>6, <2>1 DEF LoopRecord
<1>8. r = "ok"
  BY <1>1, CallsAreAnswered DEF ReclaimOrphans
<1>9. SetLoop(w, NextClaimed(m, {}, InFlight(w))) /\ NextClaimed(m, {}, InFlight(w)).claimed = {}
  BY <1>4, <1>5, <1>6, <1>7, <1>8, NextClaimedClaimsNothing DEF ReclaimOrphans
<1>10. PICK p \in [Ids -> Int] : /\ stream' = [stream EXCEPT !.pel = p]
                                 /\ \A k \in Ids : p[k] = stream.pel[k] \/ p[k] = 0
  <2> DEFINE q == [k \in Ids |-> CASE k \in R /\ k < stream.first  -> 0
                                   [] k \in R /\ k >= stream.first ->
                                         IF stream.pel[k] > MaxDelivery THEN stream.pel[k]
                                                                        ELSE stream.pel[k] + 1
                                   [] OTHER                        -> stream.pel[k]]
  <2>1. stream' = [stream EXCEPT !.pel = q]
    BY DEF ReclaimOrphans, XAutoClaim
  <2>2. ASSUME NEW k \in Ids PROVE q[k] = stream.pel[k] \/ q[k] = 0
    <3>1. CASE k \in R
      <4>1. k < stream.first /\ ~(k >= stream.first)
        BY <1>1, <1>3, <3>1 DEF Ids
      <4> QED
        BY <3>1, <4>1
    <3>2. CASE k \notin R
      BY <3>2
    <3> QED
      BY <3>1, <3>2
  <2>3. stream.pel \in [Ids -> DeliveryCounts] /\ DeliveryCounts \subseteq Int
    BY <1>1, StreamAssumption DEF StreamRecord, DeliveryCounts
  <2>4. q \in [Ids -> Int]
    BY <2>2, <2>3
  <2> HIDE DEF q
  <2> QED
    BY <2>1, <2>2, <2>4
<1>11. /\ stream'.log = stream.log /\ stream'.first = stream.first /\ stream'.last = stream.last
       /\ stream'.pel = p
  BY <1>1, <1>10 DEF StreamRecord
<1>12. Undelivered(stream)' \subseteq Undelivered(stream) /\ Pending(stream)' \subseteq Pending(stream)
  BY <1>10, <1>11 DEF Undelivered, Pending
<1>13. UNCHANGED <<rows, requests, execs, tasks>>
  BY DEF ReclaimOrphans, ingestionVars
<1>14. LoopHandsOver(w, NextClaimed(m, {}, InFlight(w)), {})
  BY <1>9, <1>11, <1>12, <1>13, TurnHandsOver
<1> QED
  BY <1>14

\* What XREADGROUP returns was not read before and will not be read again.
LEMMA ReadNewHandsOver ==
    ASSUME NoFailures, HandOverInv, NEW w \in Workers, NEW r \in Replies, UNCHANGED ingestionVars,
           ReadNew(w, r)
    PROVE  \E l, ids : LoopHandsOver(w, l, ids)
<1>1. /\ stream \in StreamRecord /\ loop[w] \in LoopRecord /\ ShapeInv
      /\ stream.first \in Nat /\ stream.last \in Int
  BY HandOverFacts
<1>2. PICK ids : ids = XReadIds(stream, loop[w].count)
  OBVIOUS
<1>3. r = "ok"
  BY <1>1, CallsAreAnswered DEF ReadNew
<1>4. /\ ids # {} /\ stream' = XReadGroup(stream, ids) /\ Dispatch(w, ids)
      /\ SetLoop(w, NextPass(loop[w], Cardinality(InFlight(w) \cup ids)))
      /\ UNCHANGED <<rows, requests, execs>>
  BY <1>2, <1>3 DEF ReadNew, ingestionVars
<1>5. ids \subseteq Undelivered(stream) /\ ids \in SUBSET Ids
  BY <1>2 DEF XReadIds, Undelivered
<1>6. PICK top : top = Max(ids) /\ top \in ids /\ \A k \in ids : k <= top
  BY <1>4, <1>5, MaxOfIds
<1>7. top \in Int /\ stream.last < top
  BY <1>5, <1>6 DEF Undelivered, Ids
<1>8. PICK p : p = [k \in Ids |-> IF k \in ids THEN 1 ELSE stream.pel[k]]
  OBVIOUS
<1>9. stream' = [stream EXCEPT !.last = top, !.pel = p]
  BY <1>4, <1>6, <1>8 DEF XReadGroup
<1>10. /\ stream'.log = stream.log /\ stream'.first = stream.first
       /\ stream'.last = top /\ stream'.pel = p
  BY <1>1, <1>9 DEF StreamRecord
<1>11. Undelivered(stream)' \subseteq Undelivered(stream) \ ids
  <2> SUFFICES ASSUME NEW k \in Undelivered(stream)' PROVE k \in Undelivered(stream) /\ k \notin ids
    OBVIOUS
  <2>1. k \in Ids /\ k \in Int /\ top < k /\ stream.first <= k /\ k <= Len(stream.log)
    BY <1>10 DEF Undelivered, Ids
  <2>2. stream.last < k
    BY <1>1, <1>7, <2>1
  <2>3. k \notin ids
    BY <1>6, <1>7, <2>1
  <2> QED
    BY <2>1, <2>2, <2>3 DEF Undelivered
<1>12. Pending(stream)' \subseteq Pending(stream) \cup ids
  BY <1>8, <1>10 DEF Pending
<1>13. NextPass(loop[w], Cardinality(InFlight(w) \cup ids)).claimed = {}
  BY <1>1, NextPassClaimsNothing
<1>14. LoopHandsOver(w, NextPass(loop[w], Cardinality(InFlight(w) \cup ids)), ids)
  BY <1>4, <1>5, <1>10, <1>11, <1>12, <1>13 DEF LoopHandsOver
<1> QED
  BY <1>14

LEMMA LoopStepHandOver ==
    ASSUME NoFailures, HandOverInv, NeverSpins, SafetyInv', HistoryKept, NEW w \in Workers,
           UNCHANGED ingestionVars,
           LoopStep(w) \/ LoopError(w) \/ Sigterm(w) \/ SetStop(w) \/ Crash(w)
    PROVE  HandOverInv'
<1>1. ShapeInv /\ loop[w].claimed = {} /\ ~NotExecuted /\ crashes >= MaxCrashes
  BY HandOverFacts, CallsAreAnswered DEF HandOverInv
<1>2. ~LoopError(w)
  BY <1>1 DEF LoopError
<1>3. ~Crash(w)
  BY <1>1, StoresAssumption DEF Crash, ShapeInv, TypeOK, StoresTypeOK
<1>4. loop[w].pc \notin {"xpending", "dlq", "dlqAck"}
  BY <1>1 DEF ShapeInv, LoopShape
<1>5. \E l, ids : LoopHandsOver(w, l, ids)
  BY <1>2, <1>3, <1>4, TurningStepsHandOver, EnsureGroupHandsOver, ReclaimOrphansHandsOver, ReadNewHandsOver
     DEF LoopStep, HandleReclaimed, ReclaimedToDlq, ReclaimedAck
<1> QED
  BY <1>5, LoopHandOver

-----------------------------------------------------------------------------
(* Requests.                                                               *)

\* A request works on a job no entry speaks for yet: it enters its row, or adds the
\* entry of its first delivery.
RequestHandsOver(j) ==
    /\ UNCHANGED <<loop, tasks, execs>>
    /\ \A k \in 1 .. Len(stream.log) : JobOf(k) # j
    /\ \A i \in Jobs : i # j => rows'[i] = rows[i] /\ requests'[i] = requests[i]
    /\ rows'[j] = NewJob /\ execs[j] = 0
    /\ \/ requests'[j].pc = "publish" /\ NewEntries = {}
       \/ requests'[j].pc = "accepted"
    /\ Pending(stream)' = Pending(stream)
    /\ Undelivered(stream)' \subseteq Undelivered(stream) \cup NewEntries
    /\ \A m \in NewEntries : JobOf(m)' = j /\ m = Len(stream'.log) /\ BeforeStart(m)'

LEMMA RequestHandOver ==
    ASSUME HandOverInv, SafetyInv', HistoryKept, NEW j \in Jobs, RequestHandsOver(j)
    PROVE  HandOverInv'
<1> USE DEF HandOverInv
<1>1. /\ ShapeInv /\ Len(stream.log) \in Nat
      /\ \A k \in 1 .. Len(stream.log) : JobOf(k) \in Jobs
  BY HandOverFacts
<1>2. /\ UNCHANGED <<loop, tasks, execs>>
      /\ \A k \in 1 .. Len(stream.log) : JobOf(k) # j
      /\ \A i \in Jobs : i # j => rows'[i] = rows[i] /\ requests'[i] = requests[i]
      /\ rows'[j] = NewJob /\ execs[j] = 0
      /\ Pending(stream)' = Pending(stream)
      /\ Undelivered(stream)' \subseteq Undelivered(stream) \cup NewEntries
      /\ \A m \in NewEntries : JobOf(m)' = j /\ m = Len(stream'.log) /\ BeforeStart(m)'
  BY DEF RequestHandsOver
<1>3. requests'[j].pc # "insert" /\ (requests'[j].pc = "publish" => NewEntries = {})
  BY DEF RequestHandsOver
<1>4. ASSUME NEW k \in 1 .. Len(stream.log)
      PROVE  /\ rows'[JobOf(k)] = rows[JobOf(k)]
             /\ \A m \in NewEntries : JobOf(m)' # JobOf(k)
             /\ JobOf(k)' = JobOf(k)
             /\ Latest(k) => Latest(k)'
             /\ BeforeStart(k) => BeforeStart(k)'
             /\ Started(k) => Started(k)'
             /\ Requeued(k) => Requeued(k)'
  <2>1. rows'[JobOf(k)] = rows[JobOf(k)] /\ \A m \in NewEntries : JobOf(m)' # JobOf(k)
    BY <1>1, <1>2
  <2> QED
    BY <2>1, EntryKept
<1>5. InsertIsFirst'
  BY <1>2, <1>3 DEF InsertIsFirst
<1>6. \A v \in Workers : InFlight(v)' = InFlight(v)
  BY <1>2 DEF InFlight
<1>7. PublishIsFirst'
  <2> SUFFICES ASSUME NEW i \in Jobs, requests'[i].pc = "publish"
               PROVE  rows'[i] = NewJob /\ \A k \in 1 .. Len(stream'.log) : JobOf(k)' # i
    BY DEF PublishIsFirst
  <2>1. /\ rows'[i] = NewJob /\ \A k \in 1 .. Len(stream.log) : JobOf(k) # i
        /\ \A k \in NewEntries : JobOf(k)' # i
    BY <1>2, <1>3 DEF PublishIsFirst
  <2>2. ASSUME NEW k \in 1 .. Len(stream'.log) PROVE JobOf(k)' # i
    <3>1. CASE k \in 1 .. Len(stream.log)
      BY <1>4, <2>1, <3>1
    <3>2. CASE k \notin 1 .. Len(stream.log)
      <4>1. k \in NewEntries
        BY <1>1, <3>2 DEF NewEntries, SafetyInv, ShapeInv, TypeOK, StoresTypeOK
      <4> QED
        BY <2>1, <4>1
    <3> QED
      BY <3>1, <3>2
  <2> QED
    BY <2>1, <2>2
<1>8. \A v \in Workers : loop'[v].claimed = {}
  BY <1>2
<1>9. \A u, v \in Workers : u # v => InFlight(u)' \cap InFlight(v)' = {}
  BY <1>6
<1>10. \A k \in Pending(stream)' : \E v \in Workers : k \in InFlight(v)'
  BY <1>2, <1>6
<1>11. ASSUME NEW k \in Undelivered(stream)' PROVE Latest(k)' /\ BeforeStart(k)'
  <2>1. CASE k \in NewEntries
    BY <1>2, <2>1 DEF Latest
  <2>2. CASE k \in Undelivered(stream)
    <3>1. k \in 1 .. Len(stream.log)
      BY <1>1, <2>2 DEF Undelivered, Ids
    <3> QED
      BY <1>4, <2>2, <3>1
  <2> QED
    BY <1>2, <1>11, <2>1, <2>2
<1>12. ASSUME NEW v \in Workers, NEW k \in Ids PROVE IsCurrent(tasks[v][k], k)'
  <2>1. tasks'[v][k] = tasks[v][k]
    BY <1>2
  <2>2. CASE tasks[v][k].pc \in {"none", "ack"}
    BY <2>1, <2>2 DEF IsCurrent, BeforeStartPcs, StartedPcs, SelectPcs, FlushPcs, FailPcs
  <2>3. CASE tasks[v][k].pc \notin {"none", "ack"}
    <3>1. k \in 1 .. Len(stream.log) /\ IsCurrent(tasks[v][k], k)
      BY <2>3, OneActiveTask
    <3> QED
      BY <1>2, <1>4, <2>1, <3>1 DEF IsCurrent
  <2> QED
    BY <2>2, <2>3
<1>13. NewJob.attempts = 0 /\ ~NewJob.result /\ ~NewJob.error /\ NewJob.status = "pending"
  BY DEF NewJob
<1>14. AttemptsHonest' /\ RowCoherent'
  BY <1>2, <1>13 DEF AttemptsHonest, RowCoherent
<1> QED
  BY <1>5, <1>7, <1>8, <1>9, <1>10, <1>11, <1>12, <1>14

LEMMA SubmitIsAnswered ==
    ASSUME NoFailures, ShapeInv, NEW j \in Jobs, Submit(j)
    PROVE  Insert(j, "ok") \/ Publish(j, "ok")
<1>1. ~NotExecuted /\ \A r : Replied(r) => r = "ok"
  BY CallsAreAnswered
<1>2. ~RequestDies(j)
  BY CallsAreAnswered, StoresAssumption DEF RequestDies, ShapeInv, TypeOK, StoresTypeOK
<1>3. ~InsertError(j) /\ \A transient : ~PublishError(j, transient)
  BY <1>1 DEF InsertError, PublishError
<1>4. PICK r \in Replies : Insert(j, r) \/ Publish(j, r)
  BY <1>2, <1>3 DEF Submit
<1>5. r = "ok"
  BY <1>1, <1>4 DEF Insert, Publish
<1> QED
  BY <1>4, <1>5

LEMMA SubmitHandsOver ==
    ASSUME NoFailures, HandOverInv, NEW j \in Jobs, Submit(j), UNCHANGED workerVars
    PROVE  RequestHandsOver(j)
<1>1. /\ ShapeInv /\ Len(stream.log) \in Nat
      /\ rows \in [Jobs -> Job \cup {NoRow}]
      /\ requests \in [Jobs -> [pc : RequestPcs, tries : 0 .. (MaxTries - 1)]]
  BY HandOverFacts
<1>2. Insert(j, "ok") \/ Publish(j, "ok")
  BY <1>1, SubmitIsAnswered
<1>3. UNCHANGED <<loop, tasks, execs>>
  BY DEF workerVars
<1>4. execs[j] = rows[j].attempts
  BY DEF HandOverInv, AttemptsHonest
<1>5. CASE Insert(j, "ok")
  <2>1. /\ requests[j].pc = "insert" /\ rows' = [rows EXCEPT ![j] = NewJob] /\ stream' = stream
        /\ requests' = [requests EXCEPT ![j] = [pc |-> "publish", tries |-> 0]]
    BY <1>5 DEF Insert, Add, SetRequest
  <2>2. rows[j] = NoRow
    BY <2>1 DEF HandOverInv, InsertIsFirst
  <2>3. execs[j] = 0
    BY <1>4, <2>2 DEF NoRow
  <2>4. \A k \in 1 .. Len(stream.log) : JobOf(k) # j
    BY <1>1, <2>2 DEF ShapeInv, PointerHasRow
  <2>5. /\ NewEntries = {} /\ Pending(stream)' = Pending(stream)
        /\ Undelivered(stream)' = Undelivered(stream)
    BY <1>1, <2>1 DEF NewEntries, Pending, Undelivered
  <2>6. /\ rows'[j] = NewJob /\ requests'[j].pc = "publish"
        /\ \A i \in Jobs : i # j => rows'[i] = rows[i] /\ requests'[i] = requests[i]
    BY <1>1, <2>1
  <2> QED
    BY <1>3, <2>3, <2>4, <2>5, <2>6 DEF RequestHandsOver
<1>6. CASE Publish(j, "ok")
  <2>1. /\ requests[j].pc = "publish" /\ rows' = rows /\ Xadd(FirstDelivery(j))
        /\ requests' = [requests EXCEPT ![j] = [pc |-> "accepted", tries |-> 0]]
    BY <1>6 DEF Publish, SetRequest
  <2>2. rows[j] = NewJob /\ \A k \in 1 .. Len(stream.log) : JobOf(k) # j
    BY <2>1 DEF HandOverInv, PublishIsFirst
  <2>3. execs[j] = 0
    BY <1>4, <2>2 DEF NewJob
  <2>4. /\ FirstDelivery(j) \in JobMessage
        /\ FirstDelivery(j).job = j /\ FirstDelivery(j).attempt = 1
    BY StoresAssumption DEF FirstDelivery, JobMessage
  <2>5. /\ \A k \in NewEntries : k = Len(stream'.log) /\ stream'.log[k] = FirstDelivery(j)
        /\ Pending(stream)' = Pending(stream)
        /\ Undelivered(stream)' \subseteq Undelivered(stream) \cup NewEntries
    BY <2>1, <2>4, XaddAddsOne
  <2>6. \A k \in NewEntries : JobOf(k)' = j /\ k = Len(stream'.log) /\ BeforeStart(k)'
    <3> SUFFICES ASSUME NEW k \in NewEntries PROVE JobOf(k)' = j /\ BeforeStart(k)'
      BY <2>5
    <3>1. stream'.log[k].job = j /\ stream'.log[k].attempt - 1 = 0
      BY <2>4, <2>5
    <3> QED
      BY <2>1, <2>2, <3>1 DEF BeforeStart, JobOf, NewJob
  <2>7. /\ requests'[j].pc = "accepted"
        /\ \A i \in Jobs : i # j => rows'[i] = rows[i] /\ requests'[i] = requests[i]
    BY <1>1, <2>1
  <2> QED
    BY <1>3, <2>1, <2>2, <2>3, <2>5, <2>6, <2>7 DEF RequestHandsOver
<1> QED
  BY <1>2, <1>5, <1>6

-----------------------------------------------------------------------------
LEMMA NextHandOver ==
    ASSUME NoFailures, HandOverInv, NeverSpins, [Next]_vars
    PROVE  HandOverInv'
<1>1. ShapeInv /\ SafetyInv
  BY HandOverFacts
<1>2. SafetyInv' /\ HistoryKept
  BY <1>1, NextSafety, NextHistory
<1>3. CASE UNCHANGED vars
  <2>1. UNCHANGED <<rows, stream, requests, loop, tasks, execs>>
    BY <1>3 DEF vars, storeVars, ingestionVars, workerVars
  <2>2. \A k : /\ JobOf(k)' = JobOf(k) /\ Latest(k)' = Latest(k) /\ BeforeStart(k)' = BeforeStart(k)
               /\ Started(k)' = Started(k) /\ Requeued(k)' = Requeued(k)
    BY <2>1 DEF JobOf, Latest, BeforeStart, Started, Requeued
  <2>3. /\ Pending(stream)' = Pending(stream) /\ Undelivered(stream)' = Undelivered(stream)
        /\ \A v \in Workers : InFlight(v)' = InFlight(v)
    BY <2>1 DEF Pending, Undelivered, InFlight
  <2>4. \A v \in Workers, k \in Ids : IsCurrent(tasks[v][k], k)'
    BY <2>1, <2>2, <2>3 DEF HandOverInv, IsCurrent
  <2>5. InsertIsFirst' /\ PublishIsFirst' /\ AttemptsHonest' /\ RowCoherent'
    BY <2>1, <2>2 DEF HandOverInv, InsertIsFirst, PublishIsFirst, AttemptsHonest, RowCoherent
  <2> QED
    BY <1>2, <2>1, <2>2, <2>3, <2>4, <2>5 DEF HandOverInv
<1>4. ASSUME NEW j \in Jobs, Submit(j), UNCHANGED workerVars PROVE HandOverInv'
  BY <1>2, <1>4, SubmitHandsOver, RequestHandOver
<1>5. ASSUME NEW w \in Workers, WorkerStep(w), UNCHANGED ingestionVars PROVE HandOverInv'
  BY <1>2, <1>5, TaskStepHandOver, LoopStepHandOver DEF WorkerStep
<1> QED
  BY <1>3, <1>4, <1>5 DEF Next

\* The hand-over of the jobs from one attempt to the next, while every process of a
\* deployment without failures goes on suspending.
THEOREM HandOverInvariant ==
    ASSUME NoFailures
    PROVE  Spec /\ []NeverSpins => []HandOverInv
<1>1. Init => HandOverInv
  BY InitHandOver
<1>2. HandOverInv /\ NeverSpins /\ [Next]_vars => HandOverInv'
  BY NextHandOver
<1> QED
  BY <1>1, <1>2, PTL DEF Spec

-----------------------------------------------------------------------------
(* With capacity for every entry, no process ever reaches that pass.       *)

LEMMA NextPassSuspends ==
    ASSUME MaxEntries < Concurrency, NEW l \in LoopRecord, NEW F \in SUBSET Ids
    PROVE  /\ NextPass(l, Cardinality(F)).pc # "spin"
           /\ \A C : NextClaimed(l, C, F).pc # "spin"
<1>1. PICK n : n = Cardinality(F)
  OBVIOUS
<1>2. n \in Nat /\ n <= MaxEntries
  <2>1. IsFiniteSet(Ids) /\ Cardinality(Ids) = MaxEntries
    BY StreamAssumption, FS_Interval DEF Ids
  <2> QED
    BY <1>1, <2>1, IdsFinite, FS_Subset
<1>3. FreeCapacity(n) > 0
  BY <1>2, StreamAssumption, WorkerAssumption DEF FreeCapacity
<1>4. NextPass(l, n).pc # "spin"
  <2>1. \/ NextPass(l, n) = LoopAt(l, "drain", {}, 0)
        \/ NextPass(l, n) = LoopAt(l, "reclaim", {}, FreeCapacity(n))
    BY <1>3 DEF NextPass
  <2> QED
    BY <2>1, LoopAtPc
<1>5. ASSUME NEW C PROVE NextClaimed(l, C, F).pc # "spin"
  <2>1. \/ NextClaimed(l, C, F) = LoopAt(l, "xpending", StillToHandle(C, F), 0)
        \/ NextClaimed(l, C, F) = LoopAt(l, "read", {}, FreeCapacity(n))
    BY <1>1, <1>3 DEF NextClaimed
  <2> QED
    BY <2>1, LoopAtPc
<1> QED
  BY <1>1, <1>4, <1>5

LEMMA NextNeverSpins ==
    ASSUME MaxEntries < Concurrency, ShapeInv, NeverSpins, [Next]_vars
    PROVE  NeverSpins'
<1>1. loop \in [Workers -> LoopRecord]
  BY DEF ShapeInv, TypeOK, WorkerTypeOK, LoopRecord
<1>2. ASSUME NEW w \in Workers, NEW l, SetLoop(w, l), l.pc # "spin" PROVE NeverSpins'
  BY <1>1, <1>2 DEF SetLoop, NeverSpins
<1>3. CASE loop' = loop
  BY <1>3 DEF NeverSpins
<1>4. ASSUME NEW w \in Workers, WorkerStep(w), loop' # loop PROVE NeverSpins'
  <2>1. loop[w] \in LoopRecord /\ loop[w].pc # "spin" /\ InFlight(w) \in SUBSET Ids
    BY <1>1, LoopFacts DEF NeverSpins
  <2>2. /\ \A F \in SUBSET Ids : NextPass(loop[w], Cardinality(F)).pc # "spin"
        /\ \A F \in SUBSET Ids : \A C : NextClaimed(loop[w], C, F).pc # "spin"
    BY <2>1, NextPassSuspends
  <2>3. LoopAt(loop[w], "sleep", {}, 0).pc # "spin" /\ NoLoop.pc # "spin"
    BY <2>1, LoopAtPc DEF NoLoop
  <2>4. /\ \A p : [loop[w] EXCEPT !.pc = p].pc = p
        /\ \A s : [loop[w] EXCEPT !.stop = s].pc # "spin"
        /\ [NoLoop EXCEPT !.pc = "boot"].pc = "boot"
    BY <2>1 DEF LoopRecord, NoLoop
  <2>5. CASE ReadTimeout(w) \/ WakeUp(w) \/ DrainDone(w) \/ Boot(w) \/ LoopError(w)
             \/ Sigterm(w) \/ SetStop(w) \/ Crash(w)
    BY <1>2, <2>1, <2>2, <2>3, <2>4, <2>5
       DEF ReadTimeout, WakeUp, DrainDone, Boot, LoopError, BackOff, Sigterm, SetStop, Crash
  <2>6. ASSUME NEW r \in Replies, EnsureGroup(w, r) PROVE NeverSpins'
    <3>1. NextPass(loop[w], 0).pc # "spin"
      <4>1. {} \in SUBSET Ids /\ Cardinality({}) = 0
        BY FS_EmptySet
      <4> QED
        BY <2>2, <4>1
    <3> QED
      BY <1>2, <2>3, <2>6, <3>1 DEF EnsureGroup
  <2>7. ASSUME NEW r \in Replies, NEW R \in Claimable(w), ReclaimOrphans(w, R, r) PROVE NeverSpins'
    <3>1. PICK m : m = [loop[w] EXCEPT !.cursor = XAutoClaimCursor(stream, R, loop[w].count)]
      OBVIOUS
    <3>2. m \in LoopRecord
      BY <2>1, <3>1, CursorType DEF LoopRecord
    <3>3. \A C : NextClaimed(m, C, InFlight(w)).pc # "spin"
      BY <2>1, <3>2, NextPassSuspends
    <3> QED
      BY <1>2, <2>3, <2>7, <3>1, <3>3 DEF ReclaimOrphans, BackOff
  <2>8. CASE HandleReclaimed(w)
    <3>1. PICK i : i = Min(loop[w].claimed)
      OBVIOUS
    <3>2. i \in Ids
      <4>1. loop[w].claimed \in SUBSET Ids /\ loop[w].claimed # {}
        BY <2>8, LoopFacts DEF HandleReclaimed, GoodLoop
      <4> QED
        BY <3>1, <4>1, MinOfIds
    <3>3. InFlight(w) \cup {i} \in SUBSET Ids
      BY <2>1, <3>2
    <3> QED
      BY <1>2, <2>2, <2>4, <2>8, <3>1, <3>3 DEF HandleReclaimed
  <2>9. ASSUME NEW r \in Replies, ReclaimedToDlq(w, r) \/ ReclaimedAck(w, r) PROVE NeverSpins'
    BY <1>2, <2>1, <2>2, <2>3, <2>4, <2>9 DEF ReclaimedToDlq, ReclaimedAck, BackOff
  <2>10. ASSUME NEW r \in Replies, ReadNew(w, r) PROVE NeverSpins'
    <3>1. PICK ids : ids = XReadIds(stream, loop[w].count)
      OBVIOUS
    <3>2. InFlight(w) \cup ids \in SUBSET Ids
      BY <2>1, <3>1 DEF XReadIds, Undelivered
    <3> QED
      BY <1>2, <2>2, <2>3, <2>10, <3>1, <3>2 DEF ReadNew, BackOff
  <2>11. ~SpinPass(w)
    BY <2>1 DEF SpinPass
  <2>12. \A i \in Ids : ~TaskStep(w, i) /\ ~TaskError(w, i)
    BY <1>4, TaskStepDlq
  <2> QED
    BY <1>4, <2>5, <2>6, <2>7, <2>8, <2>9, <2>10, <2>11, <2>12 DEF WorkerStep, LoopStep
<1>5. ASSUME NEW j \in Jobs, UNCHANGED workerVars PROVE NeverSpins'
  BY <1>3, <1>5 DEF workerVars
<1> QED
  BY <1>3, <1>4, <1>5 DEF Next, vars, workerVars

\* The pass that never suspends is the one of a full loop: where fewer entries are
\* added than worker_concurrency allows in flight, no process gets there. So the
\* other results of this module hold there without the condition NeverSpins.
THEOREM CapacityNeverSpins ==
    ASSUME MaxEntries < Concurrency
    PROVE  Spec => []NeverSpins
<1>1. Init => NeverSpins
  BY DEF Init, WorkerInit, NoLoop, NeverSpins
<1>2. ShapeInv /\ NeverSpins /\ [Next]_vars => NeverSpins'
  BY NextNeverSpins
<1> QED
  BY <1>1, <1>2, ShapeInvariant, PTL DEF Spec

-----------------------------------------------------------------------------
(* What follows for the runs' properties.                                  *)

\* One task at a time executes a job, on one worker or on two: the requeue, the
\* republish and the acknowledgement of _on_transient hand it over.
THEOREM OneExecutor ==
    ASSUME NoFailures
    PROVE  Spec /\ []NeverSpins => []OneExecutorPerJob
<1>1. HandOverInv => OneExecutorPerJob
  <2> SUFFICES ASSUME HandOverInv, NEW j \in Jobs PROVE Cardinality(Executing(j)) <= 1
    BY DEF OneExecutorPerJob
  <2>1. PICK E : E = Executing(j)
    OBVIOUS
  <2>2. CASE E = {}
    <3>1. Cardinality(E) = 0
      BY <2>2, FS_EmptySet
    <3> QED
      BY <2>1, <3>1
  <2>3. ASSUME NEW h \in E PROVE Cardinality(Executing(j)) <= 1
    <3>1. \A g \in E : /\ g \in Workers \X Ids /\ JobOf(g[2]) = j
                       /\ tasks[g[1]][g[2]].pc \notin {"none", "ack"}
      BY <2>1 DEF Executing, At, ExecutingPcs
    <3>2. \A g \in E : g[1] = h[1] /\ g[2] = h[2]
      <4> SUFFICES ASSUME NEW g \in E PROVE g[1] = h[1] /\ g[2] = h[2]
        OBVIOUS
      <4>1. g[1] \in Workers /\ g[2] \in Ids /\ h[1] \in Workers /\ h[2] \in Ids
        BY <2>3, <3>1
      <4> QED
        BY <2>3, <3>1, <4>1, OneActiveTask
    <3>3. E = {h}
      BY <2>3, <3>1, <3>2
    <3>4. Cardinality(E) = 1
      BY <3>3, FS_Singleton
    <3> QED
      BY <2>1, <3>4
  <2> QED
    BY <2>1, <2>2, <2>3
<1> QED
  BY <1>1, HandOverInvariant, PTL

\* _on_transient requeues before it republishes, so no task that passed its guard
\* finds the row RUNNING, and mark_running never raises.
THEOREM StartsArePending ==
    ASSUME NoFailures
    PROVE  Spec /\ []NeverSpins => []StartsOnlyPending
<1>1. HandOverInv => StartsOnlyPending
  <2> SUFFICES ASSUME HandOverInv, NEW w \in Workers, NEW i \in Ids, tasks[w][i].pc = "load"
               PROVE  rows[JobOf(i)].status # "running"
    BY DEF StartsOnlyPending, At
  <2>1. BeforeStart(i)
    BY DEF HandOverInv, IsCurrent, BeforeStartPcs
  <2> QED
    BY <2>1 DEF BeforeStart
<1> QED
  BY <1>1, HandOverInvariant, PTL

\* InferenceJob.attempts counts the starts of the pipeline.
THEOREM AttemptsAreHonest ==
    ASSUME NoFailures
    PROVE  Spec /\ []NeverSpins => []AttemptsHonest
<1>1. HandOverInv => AttemptsHonest
  BY DEF HandOverInv
<1> QED
  BY <1>1, HandOverInvariant, PTL

\* A client that reads a job sees a result with SUCCESS only, and an error with
\* FAILED only.
THEOREM RowsAreCoherent ==
    ASSUME NoFailures
    PROVE  Spec /\ []NeverSpins => []RowCoherent
<1>1. HandOverInv => RowCoherent
  BY DEF HandOverInv
<1> QED
  BY <1>1, HandOverInvariant, PTL

\* A worker that drains and exits leaves no entry behind for another to reclaim.
THEOREM NothingIsOrphaned ==
    ASSUME NoFailures
    PROVE  Spec /\ []NeverSpins => []NoOrphanWithoutFailure
<1>1. HandOverInv => NoOrphanWithoutFailure
  <2> SUFFICES ASSUME HandOverInv, NEW i \in Pending(stream)
               PROVE  \E w \in Workers : /\ loop[w].pc \notin {"down", "stopped"}
                                         /\ i \in InFlight(w) \/ i \in loop[w].claimed
    BY DEF NoOrphanWithoutFailure
  <2>1. PICK w \in Workers : i \in InFlight(w)
    BY DEF HandOverInv
  <2>2. loop[w].pc \notin {"down", "stopped"}
    BY <2>1, HandOverFacts DEF ShapeInv, LoopShape
  <2> QED
    BY <2>1, <2>2
<1> QED
  BY <1>1, HandOverInvariant, PTL

-----------------------------------------------------------------------------
(* The engine implements the contract.                                     *)

\* The UPDATE of an attempt writes what its transition method makes of the row as it
\* is, and the attempt is where the row says.
LEMMA FlushWritesCurrent ==
    ASSUME NoFailures, HandOverInv, NEW w \in Workers, NEW i \in Ids, NEW r \in Replies,
           UpdateFlush(w, i, r)
    PROVE  LET pc == tasks[w][i].pc
               row == rows[JobOf(i)]
           IN  /\ JobOf(i) \in Jobs /\ row \in Job /\ stream.log[i].attempt \in 1 .. MaxAttempts
               /\ rows' = [rows EXCEPT ![JobOf(i)] = Written(pc, row)]
               /\ \/ pc = "startFlush" /\ BeforeStart(i)
                  \/ pc \in {"successFlush", "failFlush"} /\ Started(i)
                  \/ pc = "requeueFlush" /\ Started(i) /\ stream.log[i].attempt < MaxAttempts
<1> DEFINE u == tasks[w][i]
           row == rows[JobOf(i)]
<1>1. i \in InFlight(w) /\ u.pc \in FlushPcs
  BY DEF UpdateFlush, At, InFlight, FlushPcs
<1>2. ShapeInv /\ JobOf(i) \in Jobs /\ row \in Job /\ stream.log[i] \in JobMessage
  BY <1>1, HandOverFacts, RowOfEntry DEF StreamRecord
<1>3. IsCurrent(u, i)
  BY DEF HandOverInv
<1>4. u.job \in Job /\ u.job = Written(u.pc, row) /\ u.base = row
  BY <1>1, <1>2, <1>3 DEF IsCurrent, FlushPcs, ShapeInv, TaskShape, WrittenStatus
<1>5. rows' = [rows EXCEPT ![JobOf(i)] = Written(u.pc, row)]
  BY <1>2, <1>4, MergeIsWrite DEF UpdateFlush, UpdateRow
<1>6. stream.log[i].attempt \in 1 .. MaxAttempts
  BY <1>2 DEF JobMessage
<1>7. u.pc = "requeueFlush" => stream.log[i].attempt < MaxAttempts
  BY <1>2 DEF ShapeInv, TaskShape, RetryPcs
<1> QED
  BY <1>1, <1>2, <1>3, <1>5, <1>6, <1>7 DEF IsCurrent, FlushPcs, BeforeStartPcs, StartedPcs, FailPcs

\* Each of the four updates is a move of the contract.
LEMMA FlushImplements ==
    ASSUME NoFailures, HandOverInv, NEW w \in Workers, NEW i \in Ids, NEW r \in Replies,
           UpdateFlush(w, i, r), UNCHANGED ingestionVars
    PROVE  Contract!ContractNext
<1> DEFINE pc == tasks[w][i].pc
           j == JobOf(i)
           row == rows[j]
           done == {k \in Jobs : Accepted(k)}
<1>1. /\ j \in Jobs /\ row \in Job /\ stream.log[i].attempt \in 1 .. MaxAttempts
      /\ rows' = [rows EXCEPT ![j] = Written(pc, row)]
      /\ \/ pc = "startFlush" /\ BeforeStart(i)
         \/ pc \in {"successFlush", "failFlush"} /\ Started(i)
         \/ pc = "requeueFlush" /\ Started(i) /\ stream.log[i].attempt < MaxAttempts
  BY FlushWritesCurrent
<1>2. done' = done
  BY DEF ingestionVars, Accepted
<1>3. ASSUME NEW target, NEW after, <<row.status, target>> \in Contract!Allowed, Written(pc, row) = after
      PROVE  Contract!Move(j, target, after)
  BY <1>1, <1>2, <1>3 DEF Contract!Move, Contract!CanMove
<1>4. row.attempts \in Nat /\ MaxAttempts \in Nat
  BY <1>1, StoresAssumption DEF Job
<1>5. CASE pc = "startFlush" /\ BeforeStart(i)
  <2>1. Written(pc, row) = Contract!MarkRunning(row)
    BY <1>5 DEF Written, MarkRunning, Contract!MarkRunning
  <2>2. Contract!Move(j, "running", Contract!MarkRunning(row))
    BY <1>3, <1>5, <2>1 DEF BeforeStart, Contract!Allowed
  <2>3. row.attempts < MaxAttempts
    BY <1>1, <1>4, <1>5 DEF BeforeStart
  <2> QED
    BY <1>1, <2>2, <2>3 DEF Contract!Start, Contract!ContractNext
<1>6. CASE pc = "successFlush" /\ Started(i)
  <2>1. Written(pc, row) = Contract!MarkSuccess(row)
    BY <1>6 DEF Written, MarkSuccess, Contract!MarkSuccess
  <2>2. Contract!Move(j, "success", Contract!MarkSuccess(row))
    BY <1>3, <1>6, <2>1 DEF Started, Contract!Allowed
  <2> QED
    BY <1>1, <2>2 DEF Contract!Succeed, Contract!ContractNext
<1>7. CASE pc = "failFlush" /\ Started(i)
  <2>1. Written(pc, row) = Contract!MarkFailed(row)
    BY <1>7 DEF Written, MarkFailed, Contract!MarkFailed
  <2>2. Contract!Move(j, "failed", Contract!MarkFailed(row))
    BY <1>3, <1>7, <2>1 DEF Started, Contract!Allowed
  <2> QED
    BY <1>1, <2>2 DEF Contract!Fail, Contract!ContractNext
<1>8. CASE pc = "requeueFlush" /\ Started(i) /\ stream.log[i].attempt < MaxAttempts
  <2>1. Written(pc, row) = Contract!Requeue(row)
    BY <1>8 DEF Written, Requeue, Contract!Requeue
  <2>2. Contract!Move(j, "pending", Contract!Requeue(row))
    BY <1>3, <1>8, <2>1 DEF Started, Contract!Allowed
  <2>3. row.attempts < MaxAttempts
    BY <1>8 DEF Started
  <2> QED
    BY <1>1, <2>2, <2>3 DEF Contract!Retry, Contract!ContractNext
<1> QED
  BY <1>1, <1>5, <1>6, <1>7, <1>8

\* An insert enters the job, and the publish that follows it accepts the job.
LEMMA SubmitImplements ==
    ASSUME NoFailures, HandOverInv, NEW j \in Jobs, Submit(j)
    PROVE  Contract!ContractNext
<1> DEFINE done == {k \in Jobs : Accepted(k)}
<1>1. ShapeInv /\ requests \in [Jobs -> [pc : RequestPcs, tries : 0 .. (MaxTries - 1)]]
  BY HandOverFacts
<1>2. Insert(j, "ok") \/ Publish(j, "ok")
  BY <1>1, SubmitIsAnswered
<1>3. CASE Insert(j, "ok")
  <2>1. /\ requests[j].pc = "insert" /\ rows' = [rows EXCEPT ![j] = NewJob]
        /\ requests' = [requests EXCEPT ![j] = [pc |-> "publish", tries |-> 0]]
    BY <1>3 DEF Insert, Add, SetRequest
  <2>2. rows[j] = NoRow
    BY <2>1 DEF HandOverInv, InsertIsFirst
  <2>3. \A k \in Jobs : Accepted(k)' <=> Accepted(k)
    BY <1>1, <2>1 DEF Accepted
  <2>4. done' = done
    BY <2>3
  <2>5. Contract!Enter(j)
    BY <2>1, <2>2, <2>4 DEF Contract!Enter, Contract!NoRow, NoRow, Contract!NewJob, NewJob
  <2> QED
    BY <2>5 DEF Contract!ContractNext
<1>4. CASE Publish(j, "ok")
  <2>1. /\ requests[j].pc = "publish" /\ rows' = rows
        /\ requests' = [requests EXCEPT ![j] = [pc |-> "accepted", tries |-> 0]]
    BY <1>4 DEF Publish, SetRequest
  <2>2. rows[j] # Contract!NoRow
    BY <2>1 DEF HandOverInv, PublishIsFirst, NewJob, Contract!NoRow
  <2>3. ~Accepted(j) /\ \A k \in Jobs : Accepted(k)' <=> Accepted(k) \/ k = j
    BY <1>1, <2>1 DEF Accepted
  <2>4. j \notin done /\ done' = done \cup {j}
    BY <2>3
  <2>5. Contract!Accept(j)
    BY <2>1, <2>2, <2>4 DEF Contract!Accept
  <2> QED
    BY <2>5 DEF Contract!ContractNext
<1> QED
  BY <1>2, <1>3, <1>4

LEMMA NextImplements ==
    ASSUME NoFailures, HandOverInv, [Next]_vars
    PROVE  [Contract!ContractNext]_(Contract!contractVars)
<1> DEFINE done == {k \in Jobs : Accepted(k)}
<1>1. ASSUME NEW j \in Jobs, Submit(j) PROVE Contract!ContractNext
  BY <1>1, SubmitImplements
<1>2. CASE \E w \in Workers, i \in Ids, r \in Replies : UpdateFlush(w, i, r) /\ UNCHANGED ingestionVars
  BY <1>2, FlushImplements
<1>3. CASE rows' = rows /\ UNCHANGED ingestionVars
  <2>1. done' = done
    BY <1>3 DEF ingestionVars, Accepted
  <2> QED
    BY <1>3, <2>1 DEF Contract!contractVars
<1>4. ASSUME NEW j \in Jobs, NEW r \in Replies, Insert(j, r) PROVE Contract!ContractNext
  BY <1>1, <1>4 DEF Submit
<1>5. UNCHANGED ingestionVars \/ \E j \in Jobs : Submit(j)
  BY DEF Next, vars
<1> QED
  BY <1>1, <1>2, <1>3, <1>4, <1>5, RowsAreWritten

\* The jobs table and the requests answered with 202 behave as JobContract promises:
\* a job enters the table once, is accepted once, moves along the edges of the status
\* graph, starts at most max_attempts times and never leaves a terminal state.
THEOREM EngineImplementsContract ==
    ASSUME NoFailures
    PROVE  Spec /\ []NeverSpins => ImplementsContract
<1>1. Init => Contract!ContractInit
  <2> SUFFICES ASSUME Init PROVE Contract!ContractInit
    OBVIOUS
  <2>1. rows = [j \in Jobs |-> Contract!NoRow]
    BY DEF Init, StoresInit, NoRow, Contract!NoRow
  <2>2. {j \in Jobs : Accepted(j)} = {}
    BY DEF Init, IngestionInit, Accepted
  <2> QED
    BY <2>1, <2>2 DEF Contract!ContractInit
<1>2. HandOverInv /\ [Next]_vars => [Contract!ContractNext]_(Contract!contractVars)
  BY NextImplements
<1> QED
  BY <1>1, <1>2, HandOverInvariant, PTL DEF Spec, ImplementsContract, Contract!ContractSpec

\* Terminal states do not transition further, where neither a call fails nor a process
\* dies; the run crash_terminal shows that a crash suffices to break this.
THEOREM TerminalRowsStay ==
    ASSUME NoFailures
    PROVE  Spec /\ []NeverSpins => TerminalStable
<1>1. HandOverInv /\ [Next]_vars => [\A j \in Jobs : IsTerminal(rows[j]) => rows'[j] = rows[j]]_vars
  <2> SUFFICES ASSUME HandOverInv, [Next]_vars, NEW j \in Jobs, rows[j].status \in Terminal, rows' # rows
               PROVE  rows'[j] = rows[j]
    BY DEF IsTerminal
  <2>1. rows \in [Jobs -> Job \cup {NoRow}]
    BY HandOverFacts
  <2>2. ASSUME NEW w \in Workers, NEW i \in Ids, NEW r \in Replies, UpdateFlush(w, i, r)
        PROVE  rows'[j] = rows[j]
    <3>1. PICK row : rows' = [rows EXCEPT ![JobOf(i)] = row]
      BY <2>2, FlushWritesCurrent
    <3>2. BeforeStart(i) \/ Started(i)
      BY <2>2, FlushWritesCurrent
    <3>3. j # JobOf(i)
      BY <3>2 DEF BeforeStart, Started, Terminal
    <3> QED
      BY <2>1, <3>1, <3>3
  <2>3. ASSUME NEW k \in Jobs, NEW r \in Replies, Insert(k, r)
        PROVE  rows'[j] = rows[j]
    <3>1. rows[k] = NoRow /\ rows' = [rows EXCEPT ![k] = NewJob]
      BY <2>3 DEF Insert, Add, HandOverInv, InsertIsFirst
    <3>2. j # k
      BY <3>1 DEF NoRow, Terminal
    <3> QED
      BY <2>1, <3>1, <3>2
  <2> QED
    BY <2>2, <2>3, RowsAreWritten
<1> QED
  BY <1>1, HandOverInvariant, PTL DEF Spec, TerminalStable

\* However a job is handed on, its pipeline is started at most max_attempts times.
THEOREM StartsAreBounded ==
    ASSUME NoFailures
    PROVE  Spec /\ []NeverSpins => [](\A j \in Jobs : execs[j] <= MaxAttempts)
<1> DEFINE Bounded == \A j \in Jobs : rows[j].attempts <= MaxAttempts
<1>1. Init => Bounded
  BY StoresAssumption DEF Init, StoresInit, NoRow
<1>2. HandOverInv /\ Bounded /\ [Next]_vars => Bounded'
  <2> SUFFICES ASSUME HandOverInv, Bounded, [Next]_vars, rows' # rows PROVE Bounded'
    OBVIOUS
  <2>1. rows \in [Jobs -> Job \cup {NoRow}]
    BY HandOverFacts
  <2>2. ASSUME NEW w \in Workers, NEW i \in Ids, NEW r \in Replies, UpdateFlush(w, i, r)
        PROVE  Bounded'
    <3>1. PICK row : /\ row = Written(tasks[w][i].pc, rows[JobOf(i)])
                     /\ rows' = [rows EXCEPT ![JobOf(i)] = row]
      BY <2>2, FlushWritesCurrent
    <3>2. row.attempts <= MaxAttempts
      <4>1. /\ JobOf(i) \in Jobs /\ rows[JobOf(i)] \in Job /\ stream.log[i].attempt \in 1 .. MaxAttempts
            /\ \/ tasks[w][i].pc = "startFlush" /\ BeforeStart(i)
               \/ tasks[w][i].pc \in {"successFlush", "failFlush", "requeueFlush"}
        BY <2>2, FlushWritesCurrent
      <4>2. /\ tasks[w][i].pc = "startFlush" => row.attempts = rows[JobOf(i)].attempts + 1
            /\ tasks[w][i].pc # "startFlush" => row.attempts = rows[JobOf(i)].attempts
        BY <3>1, <4>1, JobFields DEF Written
      <4> QED
        BY <4>1, <4>2, StoresAssumption DEF BeforeStart
    <3> QED
      BY <2>1, <3>1, <3>2
  <2>3. ASSUME NEW j \in Jobs, NEW r \in Replies, Insert(j, r) PROVE Bounded'
    <3>1. rows' = [rows EXCEPT ![j] = NewJob] /\ NewJob.attempts <= MaxAttempts
      BY <2>3, StoresAssumption DEF Insert, Add, NewJob
    <3> QED
      BY <2>1, <3>1
  <2> QED
    BY <2>2, <2>3, RowsAreWritten
<1>3. HandOverInv /\ Bounded => \A j \in Jobs : execs[j] <= MaxAttempts
  BY DEF HandOverInv, AttemptsHonest
<1> QED
  BY <1>1, <1>2, <1>3, HandOverInvariant, PTL DEF Spec

\* The hand-over and the contract in a deployment with capacity for every entry, where
\* worker_concurrency is above the number of entries: no condition on the behaviour is
\* left.
THEOREM ContractWithCapacity ==
    ASSUME NoFailures, MaxEntries < Concurrency
    PROVE  Spec => []HandOverInv /\ ImplementsContract
BY HandOverInvariant, EngineImplementsContract, CapacityNeverSpins, PTL
=============================================================================
