------------------------- MODULE EngineSafetyProofs -------------------------
(***************************************************************************)
(* Proofs of the safety properties of InferenceEngine that hold in every   *)
(* configuration: whatever calls fail, whatever processes die, however     *)
(* short reclaim_idle_ms is and however the stream is trimmed.             *)
(***************************************************************************)
EXTENDS InferenceEngine, FiniteSetTheorems, TLAPS

-----------------------------------------------------------------------------
(* The stream operators.                                                   *)

\* The least id of a set of ids exists: the next claimed entry, a cursor.
LEMMA MinOfIds ==
    ASSUME NEW S \in SUBSET Ids, S # {}
    PROVE  Min(S) \in S /\ \A k \in S : Min(S) <= k
<1> DEFINE T == {1 .. x : x \in S}
           R == StrictSubsetOrdering(Ids)
<1>1. S \subseteq Int
  BY DEF Ids
<1>t. T # {}
  OBVIOUS
<1>2. IsWellFoundedOn(R, FiniteSubsetsOf(Ids))
  BY FS_StrictSubsetOrderingWellFounded
<1>3. T \subseteq FiniteSubsetsOf(Ids)
  <2> SUFFICES ASSUME NEW x \in S PROVE 1 .. x \in FiniteSubsetsOf(Ids)
    OBVIOUS
  <2>1. 1 .. x \in SUBSET Ids
    BY StreamAssumption DEF Ids
  <2>2. IsFiniteSet(1 .. x)
    BY <1>1, FS_Interval
  <2> QED
    BY <2>1, <2>2 DEF FiniteSubsetsOf
<1>4. PICK X \in T : \A Y \in T : ~(<<Y, X>> \in R)
  <2> HIDE DEF T, R
  <2> QED
    BY <1>t, <1>2, <1>3, WFMin
<1>5. PICK x \in S : X = 1 .. x
  BY <1>4
<1>6. ASSUME NEW y \in S, y < x PROVE FALSE
  <2>1. 1 .. y \in SUBSET Ids /\ 1 .. x \in SUBSET Ids
    BY StreamAssumption DEF Ids
  <2>2. 1 .. y \subseteq 1 .. x /\ 1 .. y # 1 .. x
    BY <1>6 DEF Ids
  <2>3. <<1 .. y, 1 .. x>> \in R
    BY <2>1, <2>2 DEF StrictSubsetOrdering
  <2> QED
    BY <1>4, <1>5, <2>3
<1>7. \A y \in S : x <= y
  BY <1>1, <1>6
<1> QED
  BY <1>7 DEF Min

\* And the greatest: the last entry an XREADGROUP delivers.
LEMMA MaxOfIds ==
    ASSUME NEW S \in SUBSET Ids, S # {}
    PROVE  Max(S) \in S /\ \A k \in S : k <= Max(S)
<1> DEFINE M == {MaxEntries + 1 - x : x \in S}
<1>1. S \subseteq Int /\ MaxEntries \in Int
  BY StreamAssumption DEF Ids
<1>2. M \in SUBSET Ids
  BY <1>1, StreamAssumption DEF Ids
<1>3. M # {}
  OBVIOUS
<1>4. Min(M) \in M /\ \A k \in M : Min(M) <= k
  <2> HIDE DEF M
  <2> QED
    BY <1>2, <1>3, MinOfIds
<1>5. PICK x \in S : Min(M) = MaxEntries + 1 - x
  BY <1>4
<1>6. \A y \in S : y <= x
  <2> SUFFICES ASSUME NEW y \in S PROVE y <= x
    OBVIOUS
  <2>1. MaxEntries + 1 - y \in M
    OBVIOUS
  <2>2. Min(M) <= MaxEntries + 1 - y
    BY <1>4, <2>1
  <2> QED
    BY <1>1, <1>5, <2>2
<1> QED
  BY <1>6 DEF Max

LEMMA IdsFinite ==
    ASSUME NEW S \in SUBSET Ids
    PROVE  IsFiniteSet(S) /\ Cardinality(S) \in Nat
<1>1. 1 \in Int /\ MaxEntries \in Int
  BY StreamAssumption
<1>2. IsFiniteSet(Ids)
  BY <1>1, FS_Interval DEF Ids
<1>3. IsFiniteSet(S)
  BY <1>2, FS_Subset
<1> QED
  BY <1>3, FS_CardinalityType

\* XREADGROUP returns at most COUNT entries, all of them new to the group.
LEMMA ReadIds ==
    ASSUME NEW s, s.first \in Nat, s.last \in Int, NEW n \in Nat
    PROVE  /\ XReadIds(s, n) \subseteq Undelivered(s)
           /\ XReadIds(s, n) \subseteq Ids
           /\ Cardinality(XReadIds(s, n)) <= n
<1> DEFINE from == IF s.first > s.last + 1 THEN s.first ELSE s.last + 1
<1>1. from \in Int
  OBVIOUS
<1>2. IsFiniteSet(from .. (from + n - 1)) /\ Cardinality(from .. (from + n - 1)) = n
  <2> DEFINE to == from + n - 1
  <2> HIDE DEF from
  <2>1. to \in Int /\ (from > to => n = 0) /\ to - from + 1 = n
    BY <1>1
  <2>2. from > to \/ n # 0
    BY <1>1
  <2> HIDE DEF to
  <2>3. /\ IsFiniteSet(from .. to)
        /\ Cardinality(from .. to) = IF from > to THEN 0 ELSE to - from + 1
    BY <1>1, <2>1, FS_Interval
  <2>4. Cardinality(from .. to) = n
    BY <2>1, <2>3
  <2> QED
    BY <2>3, <2>4 DEF to
<1>3. XReadIds(s, n) \in SUBSET (from .. (from + n - 1))
  BY DEF XReadIds
<1>4. Cardinality(XReadIds(s, n)) <= n
  <2> HIDE DEF from
  <2> QED
    BY <1>2, <1>3, FS_Subset
<1> QED
  BY <1>4 DEF XReadIds, Undelivered

LEMMA CursorType ==
    ASSUME NEW s, NEW R, NEW n
    PROVE  XAutoClaimCursor(s, R, n) \in 0 .. MaxEntries
<1> DEFINE rest == {i \in Pending(s) : \A k \in R : k < i}
<1>1. rest \in SUBSET Ids
  BY DEF Pending
<1>2. rest # {} => Min(rest) \in Ids
  <2> HIDE DEF rest
  <2> QED
    BY <1>1, MinOfIds
<1> QED
  BY <1>2, StreamAssumption DEF XAutoClaimCursor, Ids

-----------------------------------------------------------------------------
(* Initial states and steps of a task.                                     *)

TaskRecord == [pc : TaskPcs, job : Job \cup {NoRow}, base : Job \cup {NoRow}]

\* The part of TaskShape that is about one task.
GoodTask(t, i) ==
    /\ t \in TaskRecord
    /\ t.pc \in DOMAIN WrittenStatus => t.job \in Job /\ t.job.status = WrittenStatus[t.pc]
    /\ t.pc \in FlushPcs => t.base \in Job
    /\ t.pc \in RetryPcs => stream.log[i].attempt < MaxAttempts

\* What a step of a task may do to the stores.
StoresKept ==
    /\ StoresTypeOK'
    /\ stream'.last = stream.last
    /\ \A k \in 1 .. Len(stream.log) : k <= Len(stream'.log) /\ stream'.log[k] = stream.log[k]
    /\ \A j \in Jobs : rows[j] # NoRow => rows'[j] # NoRow
    /\ PointerHasRow'

-----------------------------------------------------------------------------
LEMMA InitShape == Init => ShapeInv
<1> SUFFICES ASSUME Init PROVE ShapeInv
  OBVIOUS
<1> USE DEF Init, StoresInit, IngestionInit, WorkerInit
<1>1. StoresTypeOK
  BY StreamAssumption, StoresAssumption
     DEF StoresTypeOK, NoGroup, DeliveryCounts, Ids, Pending, JobMessage
<1>2. IngestionTypeOK
  BY IngestionAssumption DEF IngestionTypeOK, RequestPcs
<1>3. WorkerTypeOK
  BY StreamAssumption, WorkerAssumption
     DEF WorkerTypeOK, NoLoop, LoopPcs, NoTask, TaskPcs
<1>4. LoopShape
  BY DEF LoopShape, NoLoop, InFlight, NoTask
<1>5. HeldIsDelivered
  BY DEF HeldIsDelivered, NoLoop, InFlight, NoTask
<1>6. TaskShape
  BY DEF TaskShape, NoTask, WrittenStatus, FlushPcs, RetryPcs
<1>7. PublishedHasRow /\ PointerHasRow
  BY DEF PublishedHasRow, PointerHasRow
<1>8. BudgetKept
  <2>1. \A w \in Workers : InFlight(w) = {} /\ loop[w].claimed = {} /\ loop[w].count = 0
    BY DEF NoLoop, InFlight, NoTask
  <2>2. \A w \in Workers : InFlight(w) \cup loop[w].claimed = {}
    BY <2>1
  <2>3. Cardinality({}) = 0
    BY FS_EmptySet
  <2> HIDE DEF Init, StoresInit, IngestionInit, WorkerInit
  <2>4. ASSUME NEW w \in Workers
        PROVE  /\ Cardinality(InFlight(w) \cup loop[w].claimed) = 0
               /\ Cardinality(InFlight(w)) = 0 /\ loop[w].count = 0
    <3>1. InFlight(w) = {} /\ InFlight(w) \cup loop[w].claimed = {} /\ loop[w].count = 0
      BY <2>1, <2>2
    <3> QED
      BY <3>1, <2>3
  <2> QED
    BY <2>4, WorkerAssumption DEF BudgetKept
<1> QED
  BY <1>1, <1>2, <1>3, <1>4, <1>5, <1>6, <1>7, <1>8 DEF ShapeInv, TypeOK

LEMMA SmallerSet ==
    ASSUME NEW S \in SUBSET Ids, NEW T \in SUBSET S
    PROVE  /\ Cardinality(S) \in Nat /\ Cardinality(T) \in Nat
           /\ Cardinality(T) <= Cardinality(S)
BY IdsFinite, FS_Subset

\* A task moves on and the loops stand still.
LEMMA TaskMoves ==
    ASSUME ShapeInv, NEW w \in Workers, NEW i \in Ids, i \in InFlight(w),
           NEW t, GoodTask(t, i), tasks' = [tasks EXCEPT ![w][i] = t],
           UNCHANGED <<loop, stops, requests>>, execs' \in [Jobs -> Nat], StoresKept
    PROVE  ShapeInv'
<1> USE DEF ShapeInv, TypeOK
<1>1. \A v \in Workers : InFlight(v)' \subseteq InFlight(v)
  BY DEF InFlight, WorkerTypeOK
<1>2. StoresTypeOK' /\ IngestionTypeOK'
  BY DEF StoresKept, IngestionTypeOK
<1>3. WorkerTypeOK'
  BY DEF WorkerTypeOK, GoodTask, TaskRecord
<1>4. LoopShape'
  BY <1>1 DEF LoopShape
<1>5. HeldIsDelivered'
  BY <1>1 DEF HeldIsDelivered, StoresKept
<1>6. TaskShape'
  <2> SUFFICES ASSUME NEW v \in Workers, NEW k \in Ids
               PROVE  GoodTask(tasks[v][k], k)'
    BY DEF TaskShape, GoodTask
  <2>1. CASE v = w /\ k = i
    <3>1. tasks'[v][k] = t
      BY <2>1 DEF WorkerTypeOK
    <3>2. i <= Len(stream.log)
      BY DEF HeldIsDelivered, StoresTypeOK, Ids
    <3>3. stream'.log[i] = stream.log[i]
      BY <3>2 DEF StoresKept, Ids
    <3> QED
      BY <2>1, <3>1, <3>3 DEF GoodTask
  <2>2. CASE ~(v = w /\ k = i)
    <3>1. tasks'[v][k] = tasks[v][k]
      BY <2>2 DEF WorkerTypeOK
    <3>2. GoodTask(tasks[v][k], k)
      BY DEF TaskShape, GoodTask, WorkerTypeOK, TaskRecord
    <3>3. tasks[v][k].pc # "none" => stream'.log[k] = stream.log[k]
      <4>1. tasks[v][k].pc # "none" => k <= Len(stream.log)
        BY DEF HeldIsDelivered, InFlight, StoresTypeOK, Ids
      <4> QED
        BY <4>1 DEF StoresKept, Ids
    <3>4. tasks[v][k].pc \in RetryPcs => tasks[v][k].pc # "none"
      BY DEF RetryPcs
    <3> QED
      BY <3>1, <3>2, <3>3, <3>4 DEF GoodTask
  <2> QED
    BY <2>1, <2>2
<1>7. PublishedHasRow' /\ PointerHasRow'
  BY DEF PublishedHasRow, StoresKept
<1>8. BudgetKept'
  <2> SUFFICES ASSUME NEW v \in Workers
               PROVE  /\ Cardinality(InFlight(v)' \cup loop[v].claimed) <= Concurrency
                      /\ Cardinality(InFlight(v)') + loop[v].count <= Concurrency
    BY DEF BudgetKept
  <2>1. /\ Cardinality(InFlight(v)) + loop[v].count <= Concurrency
        /\ Cardinality(InFlight(v) \cup loop[v].claimed) <= Concurrency
    BY DEF BudgetKept
  <2>2. InFlight(v) \in SUBSET Ids
    BY DEF InFlight
  <2>3. loop[v].claimed \in SUBSET Ids /\ loop[v].count \in Nat
    BY WorkerAssumption DEF WorkerTypeOK
  <2> QED
    BY <1>1, <2>1, <2>2, <2>3, SmallerSet, WorkerAssumption
<1> QED
  BY <1>2, <1>3, <1>4, <1>5, <1>6, <1>7, <1>8

\* The stores did not change.
LEMMA StoresStill == ASSUME ShapeInv, UNCHANGED <<rows, stream, dlq, crashes>>,
                            faults' \in 0 .. MaxFaults
                     PROVE  StoresKept
BY DEF ShapeInv, TypeOK, StoresKept, StoresTypeOK, PointerHasRow, JobOf, Pending

\* A fault budget that was respected stays respected.
LEMMA FaultBudget == ASSUME ShapeInv, NEW r, Replied(r) \/ NotExecuted
                     PROVE  faults' \in 0 .. MaxFaults
BY StoresAssumption DEF ShapeInv, TypeOK, StoresTypeOK, Replied, NotExecuted

\* The row of an entry in flight is a job.
LEMMA RowOfEntry == ASSUME ShapeInv, NEW w \in Workers, NEW i \in Ids, i \in InFlight(w)
                    PROVE  /\ i \in 1 .. Len(stream.log)
                           /\ JobOf(i) \in Jobs
                           /\ stream.log[i] \in JobMessage
                           /\ rows[JobOf(i)] \in Job
<1> USE DEF ShapeInv, TypeOK
<1>1. i \in 1 .. Len(stream.log)
  BY DEF HeldIsDelivered, StoresTypeOK, Ids
<1>2. stream.log[i] \in JobMessage
  BY <1>1 DEF StoresTypeOK
<1>3. rows[JobOf(i)] # NoRow
  BY <1>1 DEF PointerHasRow
<1> QED
  BY <1>1, <1>2, <1>3 DEF StoresTypeOK, JobOf, JobMessage

\* An UPDATE of a row that exists leaves a row.
LEMMA MergeType == ASSUME NEW row \in Job, NEW base \in Job, NEW job \in Job
                   PROVE  MergeInto(row, base, job) \in Job
BY DEF MergeInto, Job

LEMMA JobNotNoRow == \A job \in Job : job # NoRow /\ job.status \in JobStatus
BY DEF Job, NoRow, JobStatus

\* The type of the stream, field by field.
StreamRecord == [log : Seq(JobMessage), first : Nat \ {0}, last : Int, pel : [Ids -> DeliveryCounts]]

LEMMA XAckKept == ASSUME ShapeInv, NEW i \in Ids, stream' = XAck(stream, i),
                         UNCHANGED <<rows, dlq, crashes>>, faults' \in 0 .. MaxFaults
                  PROVE  /\ StoresKept
                         /\ stream'.pel = [stream.pel EXCEPT ![i] = 0]
                         /\ stream'.log = stream.log
                         /\ stream'.first = stream.first
<1> DEFINE p == [stream.pel EXCEPT ![i] = 0]
<1> USE DEF ShapeInv, TypeOK
<1>1. stream \in StreamRecord
  BY DEF StoresTypeOK, StreamRecord
<1>2. p \in [Ids -> DeliveryCounts]
  BY StreamAssumption DEF StoresTypeOK, DeliveryCounts
<1>3. /\ stream'.log = stream.log /\ stream'.first = stream.first
      /\ stream'.last = stream.last /\ stream'.pel = p
      /\ stream' \in StreamRecord
  <2>1. stream' = [stream EXCEPT !.pel = p]
    BY DEF XAck
  <2> QED
    BY <1>1, <1>2, <2>1 DEF StreamRecord
<1>5. \A k \in Ids : stream'.pel[k] > 0 => stream.pel[k] > 0
  BY <1>3, <1>2 DEF StoresTypeOK
<1>6. StoresTypeOK'
  BY <1>3, <1>5 DEF StoresTypeOK, StreamRecord, Pending
<1>7. PointerHasRow'
  BY <1>3 DEF PointerHasRow, JobOf
<1>8. \A k \in 1 .. Len(stream.log) : k <= Len(stream.log)
  BY DEF StoresTypeOK
<1> QED
  BY <1>3, <1>6, <1>7, <1>8 DEF StoresKept

LEMMA XaddKept == ASSUME ShapeInv, NEW m \in JobMessage, rows[m.job] # NoRow, Xadd(m),
                         UNCHANGED <<rows, dlq, crashes>>, faults' \in 0 .. MaxFaults
                  PROVE  StoresKept
<1> USE DEF ShapeInv, TypeOK
<1>1. PICK f \in TrimPoints(stream) : stream' = XAdd(stream, m, f)
  BY DEF Xadd
<1>2. f \in Nat \ {0} /\ f <= Len(stream.log) + 1
  BY <1>1, StreamAssumption DEF TrimPoints, StoresTypeOK
<1>a. stream \in StreamRecord /\ Append(stream.log, m) \in Seq(JobMessage)
  BY DEF StoresTypeOK, StreamRecord
<1>3. /\ stream'.log = Append(stream.log, m) /\ stream'.first = f
      /\ stream'.last = stream.last /\ stream'.pel = stream.pel
      /\ stream' \in StreamRecord
  BY <1>1, <1>2, <1>a DEF XAdd, StreamRecord
<1>4. /\ Len(stream'.log) = Len(stream.log) + 1
      /\ \A k \in 1 .. Len(stream.log) : stream'.log[k] = stream.log[k]
      /\ stream'.log[Len(stream.log) + 1] = m
  BY <1>3 DEF StoresTypeOK
<1>5. Len(stream.log) \in Nat
  BY DEF StoresTypeOK
<1>6. StoresTypeOK'
  <2>1. Len(stream'.log) <= MaxEntries /\ stream'.first <= Len(stream'.log) + 1
    BY <1>2, <1>3, <1>4, <1>5, StreamAssumption DEF Xadd
  <2>2. stream'.last \in NoGroup .. Len(stream'.log)
    BY <1>3, <1>4, <1>5 DEF StoresTypeOK, NoGroup
  <2>3. \A k \in Pending(stream)' : k <= stream'.last
    BY <1>3 DEF StoresTypeOK, Pending
  <2> QED
    BY <1>3, <2>1, <2>2, <2>3 DEF StoresTypeOK, StreamRecord
<1>7. PointerHasRow'
  BY <1>4, <1>5 DEF PointerHasRow, JobOf
<1> QED
  BY <1>3, <1>4, <1>5, <1>6, <1>7 DEF StoresKept

\* The transition methods return jobs, with the status they are named for.
LEMMA JobMoves ==
    ASSUME NEW job \in Job
    PROVE  /\ MarkRunning(job) \in Job /\ MarkRunning(job).status = "running"
           /\ MarkSuccess(job) \in Job /\ MarkSuccess(job).status = "success"
           /\ MarkFailed(job) \in Job /\ MarkFailed(job).status = "failed"
           /\ Requeue(job) \in Job /\ Requeue(job).status = "pending"
<1>1. MarkRunning(job) \in Job /\ MarkRunning(job).status = "running"
  <2>1. job.attempts + 1 \in Nat
    BY DEF Job
  <2>2. MarkRunning(job) = [job EXCEPT !.status = "running", !.attempts = job.attempts + 1, !.error = FALSE]
    BY DEF MarkRunning
  <2>3. MarkRunning(job).status = "running"
    BY <2>2 DEF Job
  <2>4. MarkRunning(job) \in Job
    BY <2>1, <2>2 DEF Job, JobStatus
  <2> QED
    BY <2>3, <2>4
<1>2. MarkSuccess(job) \in Job /\ MarkSuccess(job).status = "success"
  BY DEF Job, JobStatus, MarkSuccess
<1>3. MarkFailed(job) \in Job /\ MarkFailed(job).status = "failed"
  BY DEF Job, JobStatus, MarkFailed
<1>4. Requeue(job) \in Job /\ Requeue(job).status = "pending"
  BY DEF Job, JobStatus, Requeue
<1> QED
  BY <1>1, <1>2, <1>3, <1>4

\* A pc that carries no job, for an entry with no retry ahead of it.
PlainPcs == {"none", "guard", "load", "ack", "dlq", "dlqAck", "failGet"}

LEMMA PlainTask ==
    ASSUME NEW pc \in PlainPcs, NEW i
    PROVE  GoodTask([pc |-> pc, job |-> NoRow, base |-> NoRow], i)
BY DEF PlainPcs, GoodTask, TaskRecord, TaskPcs, SelectPcs, FlushPcs, WrittenStatus, RetryPcs

\* Steps of a task that touch nothing but the task itself.
LEMMA ReadingStepsShape ==
    ASSUME ShapeInv, NEW w \in Workers, NEW i \in Ids, UNCHANGED ingestionVars,
           \/ Guard(w, i) \/ Load(w, i) \/ UpdateSelect(w, i) \/ RequeueGet(w, i)
           \/ FailGet(w, i) \/ TaskError(w, i)
           \/ \E outcome \in Outcomes : RunPipeline(w, i, outcome)
    PROVE  /\ ShapeInv'
           /\ \E t : GoodTask(t, i) /\ tasks' = [tasks EXCEPT ![w][i] = t]
<1> DEFINE T(pc) == [pc |-> pc, job |-> NoRow, base |-> NoRow]
           row == rows[JobOf(i)]
<1> USE DEF Goto, SetTask
<1>1. i \in InFlight(w)
  BY DEF Guard, Load, UpdateSelect, RequeueGet, FailGet, TaskError, RunPipeline, At,
         InFlight, SelectPcs
<1>2. /\ i \in 1 .. Len(stream.log) /\ JobOf(i) \in Jobs
      /\ stream.log[i] \in JobMessage /\ row \in Job
  BY <1>1, RowOfEntry
<1>3. /\ MarkRunning(row) \in Job /\ MarkRunning(row).status = "running"
      /\ MarkFailed(row) \in Job /\ MarkFailed(row).status = "failed"
      /\ Requeue(row) \in Job /\ Requeue(row).status = "pending"
      /\ row # NoRow
  BY <1>2, JobMoves, JobNotNoRow
<1>4. GoodTask(tasks[w][i], i)
  BY DEF ShapeInv, TypeOK, TaskShape, GoodTask, WorkerTypeOK, TaskRecord
<1>5. \E t : GoodTask(t, i) /\ tasks' = [tasks EXCEPT ![w][i] = t]
  <2>1. CASE Guard(w, i)
    BY <2>1, PlainTask DEF Guard, PlainPcs
  <2>2. CASE Load(w, i)
    <3>1. GoodTask([pc |-> "startSelect", job |-> MarkRunning(row), base |-> NoRow], i)
      BY <1>3 DEF GoodTask, TaskRecord, TaskPcs, SelectPcs, FlushPcs, WrittenStatus, RetryPcs
    <3> QED
      BY <2>2, <3>1, PlainTask DEF Load, PlainPcs
  <2>3. CASE UpdateSelect(w, i)
    <3> DEFINE t == [pc |-> FlushAfter(tasks[w][i].pc), job |-> tasks[w][i].job, base |-> row]
    <3>1. tasks[w][i].pc \in SelectPcs
      BY <2>3 DEF UpdateSelect, At
    <3>2. GoodTask(t, i)
      BY <1>2, <1>4, <3>1
         DEF GoodTask, TaskRecord, TaskPcs, SelectPcs, FlushPcs, WrittenStatus, RetryPcs, FlushAfter
    <3>3. tasks' = [tasks EXCEPT ![w][i] = t]
      BY <2>3, <1>3 DEF UpdateSelect
    <3> QED
      BY <3>2, <3>3
  <2>4. CASE RequeueGet(w, i)
    <3>1. tasks[w][i].pc = "requeueGet"
      BY <2>4 DEF RequeueGet, At
    <3>2. GoodTask([pc |-> "requeueSelect", job |-> Requeue(row), base |-> NoRow], i)
      BY <1>3, <1>4, <3>1
         DEF GoodTask, TaskRecord, TaskPcs, SelectPcs, FlushPcs, WrittenStatus, RetryPcs
    <3> QED
      BY <1>3, <2>4, <3>2, PlainTask DEF RequeueGet, PlainPcs
  <2>5. CASE FailGet(w, i)
    <3>1. GoodTask([pc |-> "failSelect", job |-> MarkFailed(row), base |-> NoRow], i)
      BY <1>3 DEF GoodTask, TaskRecord, TaskPcs, SelectPcs, FlushPcs, WrittenStatus, RetryPcs
    <3> QED
      BY <2>5, <3>1, PlainTask DEF FailGet, PlainPcs
  <2>6. CASE TaskError(w, i)
    BY <2>6, PlainTask DEF TaskError, PlainPcs, ErrorPc
  <2>7. ASSUME NEW outcome \in Outcomes, RunPipeline(w, i, outcome)
        PROVE  \E t : GoodTask(t, i) /\ tasks' = [tasks EXCEPT ![w][i] = t]
    <3>1. tasks[w][i].pc = "pipeline"
      BY <2>7 DEF RunPipeline, At
    <3>2. tasks[w][i].job \in Job
      BY <1>4, <3>1 DEF GoodTask, WrittenStatus
    <3>3. MarkSuccess(tasks[w][i].job) \in Job /\ MarkSuccess(tasks[w][i].job).status = "success"
      BY <3>2, JobMoves
    <3>4. GoodTask([pc |-> "successSelect", job |-> MarkSuccess(tasks[w][i].job), base |-> NoRow], i)
      BY <3>3 DEF GoodTask, TaskRecord, TaskPcs, SelectPcs, FlushPcs, WrittenStatus, RetryPcs
    <3>5. stream.log[i].attempt < MaxAttempts => GoodTask(T("requeueGet"), i)
      BY DEF GoodTask, TaskRecord, TaskPcs, SelectPcs, FlushPcs, WrittenStatus, RetryPcs
    <3>6. stream.log[i].attempt >= MaxAttempts \/ stream.log[i].attempt < MaxAttempts
      BY <1>2, StoresAssumption DEF JobMessage
    <3> QED
      BY <2>7, <3>4, <3>5, <3>6, PlainTask DEF RunPipeline, OnTransient, PlainPcs, Outcomes
  <2> QED
    BY <2>1, <2>2, <2>3, <2>4, <2>5, <2>6, <2>7
<1>6. StoresKept /\ execs' \in [Jobs -> Nat] /\ UNCHANGED <<loop, stops, requests>>
  <2>1. /\ UNCHANGED <<rows, stream, dlq, crashes, loop, execs, stops, requests>>
        /\ faults' \in 0 .. MaxFaults
    BY FaultBudget DEF Guard, Load, UpdateSelect, RequeueGet, FailGet, TaskError, RunPipeline,
         storeVars, ingestionVars, ShapeInv, TypeOK, StoresTypeOK
  <2> QED
    BY <2>1, StoresStill DEF ShapeInv, TypeOK, WorkerTypeOK
<1> QED
  BY <1>1, <1>5, <1>6, TaskMoves

\* An UPDATE keeps every row a row.
LEMMA UpdateKept ==
    ASSUME ShapeInv, NEW j \in Jobs, rows[j] \in Job, NEW base \in Job, NEW job \in Job,
           UpdateRow(j, base, job), UNCHANGED <<stream, dlq, crashes>>, faults' \in 0 .. MaxFaults
    PROVE  StoresKept
<1> DEFINE m == MergeInto(rows[j], base, job)
<1> USE DEF ShapeInv, TypeOK
<1>1. m \in Job /\ m # NoRow
  BY MergeType, JobNotNoRow
<1>2. rows' = [rows EXCEPT ![j] = m]
  BY DEF UpdateRow
<1> HIDE DEF m
<1>3. rows' \in [Jobs -> Job \cup {NoRow}] /\ \A k \in Jobs : rows[k] # NoRow => rows'[k] # NoRow
  BY <1>1, <1>2 DEF StoresTypeOK
<1>4. StoresTypeOK'
  BY <1>3 DEF StoresTypeOK, Pending
<1>a. \A k \in 1 .. Len(stream.log) : stream.log[k] \in JobMessage
  BY DEF StoresTypeOK
<1>5. \A k \in 1 .. Len(stream.log) : JobOf(k) \in Jobs
  BY <1>a DEF JobOf, JobMessage
<1>6. PointerHasRow'
  BY <1>3, <1>5 DEF PointerHasRow, JobOf
<1>7. \A k \in 1 .. Len(stream.log) : k <= Len(stream.log)
  BY DEF StoresTypeOK
<1> QED
  BY <1>3, <1>4, <1>6, <1>7 DEF StoresKept

LEMMA DlqKept ==
    ASSUME ShapeInv, NEW m \in JobMessage, AddToDlq(m),
           UNCHANGED <<rows, stream, crashes>>, faults' \in 0 .. MaxFaults
    PROVE  StoresKept
<1>1. PICK f \in TrimPoints(dlq) : dlq' = XAdd(dlq, m, f)
  BY DEF AddToDlq
<1>2. dlq \in [log : Seq(JobMessage), first : Nat \ {0}]
  BY DEF ShapeInv, TypeOK, StoresTypeOK
<1>3. dlq' = [log |-> Append(dlq.log, m), first |-> f]
  BY <1>1, <1>2 DEF XAdd
<1>4. f \in Nat \ {0} /\ f <= Len(dlq.log) + 1
  BY <1>2 DEF TrimPoints
<1>5. /\ Append(dlq.log, m) \in Seq(JobMessage)
      /\ Len(Append(dlq.log, m)) = Len(dlq.log) + 1 /\ Len(dlq.log) \in Nat
  BY <1>2
<1>6. /\ dlq' \in [log : Seq(JobMessage), first : Nat \ {0}]
      /\ dlq'.first <= Len(dlq'.log) + 1
  BY <1>3, <1>4, <1>5
<1> QED
  BY <1>6 DEF ShapeInv, TypeOK, StoresTypeOK, StoresKept, PointerHasRow, JobOf, Pending

\* Steps of a task that write to a server.
LEMMA WritingStepsShape ==
    ASSUME ShapeInv, NEW w \in Workers, NEW i \in Ids, NEW r \in Replies, UNCHANGED ingestionVars,
           \/ UpdateFlush(w, i, r) \/ Republish(w, i, r) \/ Ack(w, i, r)
           \/ DeadLetter(w, i, r) \/ DlqAck(w, i, r)
    PROVE  ShapeInv'
<1> USE DEF Goto, SetTask, ingestionVars
<1>1. i \in InFlight(w)
  BY DEF UpdateFlush, Republish, Ack, DeadLetter, DlqAck, At, InFlight, FlushPcs
<1>2. /\ i \in 1 .. Len(stream.log) /\ JobOf(i) \in Jobs
      /\ stream.log[i] \in JobMessage /\ rows[JobOf(i)] \in Job
  BY <1>1, RowOfEntry
<1>3. GoodTask(tasks[w][i], i)
  BY DEF ShapeInv, TypeOK, TaskShape, GoodTask, WorkerTypeOK, TaskRecord
<1>4. faults' \in 0 .. MaxFaults
  BY FaultBudget DEF UpdateFlush, Republish, Ack, DeadLetter, DlqAck
<1>5. execs \in [Jobs -> Nat]
  BY DEF ShapeInv, TypeOK, WorkerTypeOK
<1>6. CASE UpdateFlush(w, i, r)
  <2> DEFINE t == tasks[w][i]
             next == IF r = "ok" THEN AfterFlush(t.pc) ELSE ErrorPc(t.pc)
             u == [pc |-> next, job |-> IF next = "pipeline" THEN t.job ELSE NoRow, base |-> NoRow]
  <2>1. t.pc \in FlushPcs
    BY <1>6 DEF UpdateFlush, At
  <2>2. t.job \in Job /\ t.base \in Job /\ t.job.status = WrittenStatus[t.pc]
    BY <1>3, <2>1 DEF GoodTask, WrittenStatus, FlushPcs
  <2>3. StoresKept
    BY <1>2, <1>4, <1>6, <2>2, UpdateKept DEF UpdateFlush
  <2>4. GoodTask(u, i)
    BY <1>3, <2>1, <2>2 DEF GoodTask, TaskRecord, TaskPcs, SelectPcs, FlushPcs, WrittenStatus,
       RetryPcs, AfterFlush, ErrorPc
  <2>5. tasks' = [tasks EXCEPT ![w][i] = u] /\ UNCHANGED <<loop, stops, requests>>
    BY <1>6 DEF UpdateFlush
  <2>6. execs' \in [Jobs -> Nat]
    BY <1>2, <1>5, <1>6 DEF UpdateFlush
  <2> QED
    BY <1>1, <2>3, <2>4, <2>5, <2>6, TaskMoves
<1>7. CASE Republish(w, i, r)
  <2>1. tasks[w][i].pc = "republish"
    BY <1>7 DEF Republish, At
  <2>2. stream.log[i].attempt < MaxAttempts
    BY <1>3, <2>1 DEF GoodTask, RetryPcs
  <2>3. /\ NextAttempt(stream.log[i]) \in JobMessage
        /\ NextAttempt(stream.log[i]).job = JobOf(i)
    BY <1>2, <2>2, StoresAssumption DEF NextAttempt, JobMessage, JobOf
  <2>4. StoresKept
    <3>1. rows[JobOf(i)] # NoRow
      BY <1>2, JobNotNoRow
    <3> QED
      BY <1>4, <1>7, <2>3, <3>1, XaddKept DEF Republish
  <2>5. \E t : GoodTask(t, i) /\ tasks' = [tasks EXCEPT ![w][i] = t]
    BY <1>7, PlainTask DEF Republish, PlainPcs
  <2> QED
    BY <1>1, <1>5, <1>7, <2>4, <2>5, TaskMoves DEF Republish
<1>8. CASE Ack(w, i, r) \/ DlqAck(w, i, r)
  <2>1. StoresKept
    BY <1>4, <1>8, XAckKept DEF Ack, DlqAck
  <2>2. \E t : GoodTask(t, i) /\ tasks' = [tasks EXCEPT ![w][i] = t]
    BY <1>8, PlainTask DEF Ack, DlqAck, PlainPcs
  <2> QED
    BY <1>1, <1>5, <1>8, <2>1, <2>2, TaskMoves DEF Ack, DlqAck
<1>9. CASE DeadLetter(w, i, r)
  <2>1. StoresKept
    BY <1>2, <1>4, <1>9, DlqKept DEF DeadLetter
  <2>2. \E t : GoodTask(t, i) /\ tasks' = [tasks EXCEPT ![w][i] = t]
    BY <1>9, PlainTask DEF DeadLetter, PlainPcs
  <2> QED
    BY <1>1, <1>5, <1>9, <2>1, <2>2, TaskMoves DEF DeadLetter
<1> QED
  BY <1>6, <1>7, <1>8, <1>9

-----------------------------------------------------------------------------
(* The consume loop.                                                       *)

LoopRecord == [pc : LoopPcs, count : 0 .. Concurrency, claimed : SUBSET Ids,
               cursor : 0 .. MaxEntries, stop : {"no", "sent", "set"}]

\* The part of the invariant that is about one loop, F being what is in flight.
GoodLoop(l, F) ==
    /\ l \in LoopRecord
    /\ l.claimed # {} <=> l.pc \in {"xpending", "dlq", "dlqAck"}
    /\ l.claimed # {} => Min(l.claimed) \notin F
    /\ l.pc \in {"down", "boot", "stopped"} => F = {}
    /\ Cardinality(F \cup l.claimed) <= Concurrency
    /\ Cardinality(F) + l.count <= Concurrency

\* What a step of a loop may do to the stores.
StoresGrown ==
    /\ StoresTypeOK'
    /\ stream.last <= stream'.last
    /\ \A k \in 1 .. Len(stream.log) : k <= Len(stream'.log) /\ stream'.log[k] = stream.log[k]
    /\ \A j \in Jobs : rows[j] # NoRow => rows'[j] # NoRow
    /\ PointerHasRow'

LEMMA KeptIsGrown == ASSUME ShapeInv, StoresKept PROVE StoresGrown
<1>1. stream.last \in Int
  BY DEF ShapeInv, TypeOK, StoresTypeOK
<1>2. stream.last <= stream'.last
  BY <1>1 DEF StoresKept
<1> QED
  BY <1>2 DEF StoresKept, StoresGrown

LEMMA LoopIsGood == ASSUME ShapeInv, NEW w \in Workers
                    PROVE  GoodLoop(loop[w], InFlight(w)) /\ InFlight(w) \in SUBSET Ids
BY DEF ShapeInv, TypeOK, WorkerTypeOK, LoopShape, BudgetKept, GoodLoop, LoopRecord, InFlight

LEMMA LoopUpdate ==
    ASSUME NEW l \in LoopRecord, NEW pc \in LoopPcs, NEW C \in SUBSET Ids, NEW n \in 0 .. Concurrency
    PROVE  /\ LoopAt(l, pc, C, n) \in LoopRecord
           /\ LoopAt(l, pc, C, n).pc = pc
           /\ LoopAt(l, pc, C, n).claimed = C
           /\ LoopAt(l, pc, C, n).count = n
<1>1. /\ LoopAt(l, pc, C, n).pc = pc /\ LoopAt(l, pc, C, n).claimed = C
      /\ LoopAt(l, pc, C, n).count = n
  BY DEF LoopRecord, LoopAt
<1>2. LoopAt(l, pc, C, n) \in LoopRecord
  BY DEF LoopRecord, LoopAt
<1> QED
  BY <1>1, <1>2

\* The passes of the loop.
LEMMA NextPassGood ==
    ASSUME NEW l \in LoopRecord, NEW F \in SUBSET Ids, Cardinality(F) <= Concurrency
    PROVE  GoodLoop(NextPass(l, Cardinality(F)), F) /\ NextPass(l, Cardinality(F)).claimed = {}
<1> DEFINE n == Cardinality(F)
           p == NextPass(l, n)
<1>1. n \in Nat
  BY IdsFinite
<1>2. /\ p.claimed = {} /\ p.pc \in {"drain", "reclaim", "spin"}
      /\ p.count = IF p.pc = "reclaim" THEN Concurrency - n ELSE 0
      /\ p.count \in 0 .. Concurrency
      /\ p \in LoopRecord
  <2> HIDE DEF n
  <2>0. {"drain", "reclaim", "spin"} \subseteq LoopPcs /\ 0 \in 0 .. Concurrency /\ {} \in SUBSET Ids
    BY WorkerAssumption DEF LoopPcs
  <2>1. CASE l.stop = "set"
    <3>1. p = LoopAt(l, "drain", {}, 0)
      BY <2>1 DEF NextPass
    <3> HIDE DEF p
    <3> QED
      BY <2>0, <3>1, LoopUpdate
  <2>2. CASE l.stop # "set" /\ Concurrency - n > 0
    <3>1. p = LoopAt(l, "reclaim", {}, Concurrency - n)
      BY <2>2 DEF NextPass, FreeCapacity
    <3>2. Concurrency - n \in 0 .. Concurrency
      BY <1>1, <2>2, WorkerAssumption
    <3> HIDE DEF p
    <3> QED
      BY <2>0, <3>1, <3>2, LoopUpdate
  <2>3. CASE l.stop # "set" /\ ~(Concurrency - n > 0)
    <3>1. p = LoopAt(l, "spin", {}, 0)
      BY <2>3 DEF NextPass, FreeCapacity
    <3> HIDE DEF p
    <3> QED
      BY <2>0, <3>1, LoopUpdate
  <2> QED
    BY <2>1, <2>2, <2>3
<1>3. n + p.count <= Concurrency
  BY <1>1, <1>2, WorkerAssumption
<1>4. F \cup p.claimed = F
  BY <1>2
<1>5. GoodLoop(p, F)
  <2> HIDE DEF p
  <2> QED
    BY <1>2, <1>3, <1>4 DEF GoodLoop
<1> QED
  BY <1>2, <1>5

LEMMA NextClaimedGood ==
    ASSUME NEW l \in LoopRecord, NEW C \in SUBSET Ids, NEW F \in SUBSET Ids,
           Cardinality(F \cup C) <= Concurrency
    PROVE  GoodLoop(NextClaimed(l, C, F), F) /\ NextClaimed(l, C, F).claimed \subseteq C
<1> DEFINE left == StillToHandle(C, F)
           n == Cardinality(F)
           p == NextClaimed(l, C, F)
<1>1. left \in SUBSET C
  BY DEF StillToHandle
<1>2. /\ n \in Nat /\ n <= Concurrency
      /\ Cardinality(F \cup left) <= Concurrency
  <2>1. F \cup C \in SUBSET Ids /\ F \in SUBSET (F \cup C) /\ F \cup left \in SUBSET (F \cup C)
    BY <1>1
  <2> HIDE DEF left
  <2> QED
    BY <2>1, SmallerSet, WorkerAssumption
<1>3. CASE left # {}
  <2>1. p = LoopAt(l, "xpending", left, 0)
    BY <1>3 DEF NextClaimed
  <2>2. /\ p \in LoopRecord /\ p.pc = "xpending" /\ p.claimed = left /\ p.count = 0
    <3> HIDE DEF left, p
    <3> QED
      BY <1>1, <2>1, LoopUpdate, WorkerAssumption DEF LoopPcs
  <2>3. Min(left) \notin F
    <3>1. Min(left) \in left /\ \A k \in left : Min(left) <= k
      <4> HIDE DEF left
      <4> QED
        BY <1>1, <1>3, MinOfIds
    <3>2. PICK k \in C : k <= Min(left) /\ k \notin F
      BY <3>1 DEF StillToHandle
    <3>3. k \in left
      BY <3>2 DEF StillToHandle, Ids
    <3> HIDE DEF left
    <3>4. k \in Int /\ Min(left) \in Int
      <4>1. left \subseteq Int
        BY <1>1 DEF Ids
      <4> QED
        BY <4>1, <3>1, <3>3
    <3> QED
      BY <3>1, <3>2, <3>3, <3>4
  <2>4. GoodLoop(p, F)
    <3> HIDE DEF left, p
    <3> QED
      BY <1>1, <1>2, <1>3, <2>2, <2>3 DEF GoodLoop
  <2> QED
    BY <1>1, <2>2, <2>4
<1>4. CASE left = {} /\ Concurrency - n > 0
  <2>1. p = LoopAt(l, "read", {}, Concurrency - n)
    BY <1>4 DEF NextClaimed, FreeCapacity
  <2>2. /\ p \in LoopRecord /\ p.pc = "read" /\ p.claimed = {} /\ p.count = Concurrency - n
    <3> HIDE DEF left, p, n
    <3>1. Concurrency - n \in 0 .. Concurrency
      BY <1>2, <1>4, WorkerAssumption
    <3> QED
      BY <2>1, <3>1, LoopUpdate DEF LoopPcs
  <2>3. F \cup p.claimed = F /\ n + p.count <= Concurrency
    BY <1>2, <2>2, WorkerAssumption
  <2>4. GoodLoop(p, F)
    <3> HIDE DEF p
    <3> QED
      BY <1>2, <2>2, <2>3 DEF GoodLoop
  <2> QED
    BY <2>2, <2>4
<1>5. CASE left = {} /\ ~(Concurrency - n > 0)
  <2>1. p = NextPass(l, n)
    BY <1>5 DEF NextClaimed, FreeCapacity
  <2> QED
    BY <1>2, <2>1, NextPassGood
<1> QED
  BY <1>3, <1>4, <1>5

\* A loop moves on and dispatches a set of entries.
LEMMA LoopMoves ==
    ASSUME ShapeInv, NEW w \in Workers, NEW ids \in SUBSET Ids, Dispatch(w, ids),
           NEW l, GoodLoop(l, InFlight(w) \cup ids), SetLoop(w, l), StoresGrown,
           \A k \in ids \cup l.claimed : k <= stream'.last,
           UNCHANGED <<execs, requests>>, stops' \in 0 .. MaxStops
    PROVE  ShapeInv'
<1> USE DEF ShapeInv, TypeOK
<1>1. loop' = [loop EXCEPT ![w] = l] /\ l \in LoopRecord
  BY DEF SetLoop, GoodLoop
<1>2. /\ loop'[w] = l
      /\ \A v \in Workers : v # w => loop'[v] = loop[v]
  BY <1>1 DEF WorkerTypeOK
<1>3. /\ \A k \in Ids : tasks'[w][k] = IF k \in ids THEN Dispatched ELSE tasks[w][k]
      /\ \A v \in Workers : v # w => tasks'[v] = tasks[v]
      /\ tasks' \in [Workers -> [Ids -> TaskRecord]]
  <2>1. tasks \in [Workers -> [Ids -> TaskRecord]]
    BY DEF WorkerTypeOK, TaskRecord
  <2>2. Dispatched \in TaskRecord
    BY DEF Dispatched, NoTask, TaskRecord, TaskPcs
  <2>3. tasks' = [tasks EXCEPT ![w] = [k \in Ids |-> IF k \in ids THEN Dispatched ELSE tasks[w][k]]]
    BY DEF Dispatch
  <2> HIDE DEF ShapeInv
  <2> QED
    BY <2>1, <2>2, <2>3
<1>4. Dispatched.pc = "guard"
  BY DEF Dispatched, NoTask
<1>5. /\ InFlight(w)' = InFlight(w) \cup ids
      /\ \A v \in Workers : v # w => InFlight(v)' = InFlight(v)
  BY <1>3, <1>4 DEF InFlight
<1>6. StoresTypeOK' /\ IngestionTypeOK'
  BY DEF StoresGrown, IngestionTypeOK
<1>7. WorkerTypeOK'
  BY <1>1, <1>3 DEF WorkerTypeOK, TaskRecord, LoopRecord
<1>8. LoopShape'
  BY <1>2, <1>5 DEF LoopShape, GoodLoop
<1>9. HeldIsDelivered'
  <2> SUFFICES ASSUME NEW v \in Workers, NEW k \in InFlight(v)' \cup loop'[v].claimed
               PROVE  k <= stream'.last
    BY DEF HeldIsDelivered
  <2>1. CASE k \in ids \cup l.claimed /\ v = w
    BY <2>1
  <2>2. CASE k \in InFlight(v) \/ (v # w /\ k \in loop[v].claimed)
    <3>1. k <= stream.last /\ stream.last <= stream'.last
      BY <2>2 DEF HeldIsDelivered, StoresGrown
    <3>2. k \in Int /\ stream.last \in Int /\ stream'.last \in Int
      BY <1>6, <2>2 DEF StoresTypeOK, InFlight, WorkerTypeOK, Ids
    <3> HIDE DEF ShapeInv, TypeOK
    <3> QED
      BY <3>1, <3>2
  <2> QED
    BY <1>2, <1>5, <2>1, <2>2
<1>10. TaskShape'
  <2> SUFFICES ASSUME NEW v \in Workers, NEW k \in Ids
               PROVE  GoodTask(tasks[v][k], k)'
    BY DEF TaskShape, GoodTask
  <2>1. CASE tasks'[v][k] = tasks[v][k]
    <3>1. GoodTask(tasks[v][k], k)
      BY DEF TaskShape, GoodTask, WorkerTypeOK, TaskRecord
    <3>2. tasks[v][k].pc # "none" => stream'.log[k] = stream.log[k]
      <4>1. tasks[v][k].pc # "none" => k <= Len(stream.log)
        BY DEF HeldIsDelivered, InFlight, StoresTypeOK, Ids
      <4> QED
        BY <4>1 DEF StoresGrown, Ids
    <3>3. tasks[v][k].pc \in RetryPcs => tasks[v][k].pc # "none"
      BY DEF RetryPcs
    <3> QED
      BY <2>1, <3>1, <3>2, <3>3 DEF GoodTask
  <2>2. CASE tasks'[v][k] = Dispatched
    <3>1. tasks'[v][k] \in TaskRecord /\ tasks'[v][k].pc = "guard"
      BY <1>3, <1>4, <2>2
    <3> QED
      BY <3>1 DEF GoodTask, WrittenStatus, FlushPcs, RetryPcs
  <2> QED
    BY <1>3, <2>1, <2>2
<1>11. PublishedHasRow' /\ PointerHasRow'
  BY DEF PublishedHasRow, StoresGrown
<1>12. BudgetKept'
  BY <1>2, <1>5 DEF BudgetKept, GoodLoop
<1> QED
  BY <1>6, <1>7, <1>8, <1>9, <1>10, <1>11, <1>12

LEMMA NoDispatch == ASSUME ShapeInv, NEW w \in Workers, UNCHANGED tasks
                    PROVE  Dispatch(w, {})
<1>1. tasks \in [Workers -> [Ids -> TaskRecord]]
  BY DEF ShapeInv, TypeOK, WorkerTypeOK, TaskRecord
<1>2. tasks[w] = [k \in Ids |-> IF k \in {} THEN Dispatched ELSE tasks[w][k]]
  BY <1>1
<1> QED
  BY <1>1, <1>2 DEF Dispatch

\* A loop moves on, nothing is dispatched and the group has read nothing.
LEMMA LoopTurns ==
    ASSUME ShapeInv, NEW w \in Workers, UNCHANGED <<tasks, execs, requests>>, StoresKept,
           NEW l, GoodLoop(l, InFlight(w)), SetLoop(w, l), l.claimed \subseteq Ids,
           \A k \in l.claimed : k <= stream.last, stops' \in 0 .. MaxStops
    PROVE  ShapeInv'
<1>1. Dispatch(w, {}) /\ InFlight(w) \cup {} = InFlight(w) /\ {} \cup l.claimed = l.claimed
  BY NoDispatch
<1>2. StoresGrown /\ stream'.last = stream.last
  BY KeptIsGrown DEF StoresKept
<1> QED
  BY <1>1, <1>2, LoopMoves

LEMMA NoLoopGood == GoodLoop(NoLoop, {}) /\ NoLoop.claimed = {}
<1>1. Cardinality({}) = 0 /\ {} \cup {} = {}
  BY FS_EmptySet
<1>2. NoLoop \in LoopRecord /\ NoLoop.claimed = {} /\ NoLoop.count = 0 /\ NoLoop.pc = "down"
  BY WorkerAssumption, StreamAssumption DEF NoLoop, LoopRecord, LoopPcs
<1> QED
  BY <1>1, <1>2, WorkerAssumption DEF GoodLoop

LEMMA BackOffGood ==
    ASSUME ShapeInv, NEW w \in Workers
    PROVE  /\ GoodLoop(LoopAt(loop[w], "sleep", {}, 0), InFlight(w))
           /\ LoopAt(loop[w], "sleep", {}, 0).claimed = {}
<1> DEFINE q == LoopAt(loop[w], "sleep", {}, 0)
           F == InFlight(w)
<1>1. loop[w] \in LoopRecord /\ F \in SUBSET Ids /\ Cardinality(F) <= Concurrency
  <2>1. GoodLoop(loop[w], F) /\ F \in SUBSET Ids
    BY LoopIsGood
  <2>2. F \cup loop[w].claimed \in SUBSET Ids /\ F \in SUBSET (F \cup loop[w].claimed)
    BY <2>1 DEF GoodLoop, LoopRecord
  <2> HIDE DEF F
  <2> QED
    BY <2>1, <2>2, SmallerSet, WorkerAssumption DEF GoodLoop
<1>2. q \in LoopRecord /\ q.pc = "sleep" /\ q.claimed = {} /\ q.count = 0
  BY <1>1, LoopUpdate, WorkerAssumption DEF LoopPcs
<1>3. Cardinality(F) \in Nat /\ F \cup {} = F
  BY <1>1, IdsFinite
<1>4. GoodLoop(q, F)
  <2> HIDE DEF q, F
  <2> QED
    BY <1>1, <1>2, <1>3 DEF GoodLoop
<1> QED
  BY <1>2, <1>4

\* What the loop holds fits beside what is in flight.
LEMMA LoopFacts ==
    ASSUME ShapeInv, NEW w \in Workers
    PROVE  /\ GoodLoop(loop[w], InFlight(w))
           /\ InFlight(w) \in SUBSET Ids
           /\ Cardinality(InFlight(w)) \in Nat /\ Cardinality(InFlight(w)) <= Concurrency
           /\ loop[w] \in LoopRecord
           /\ loop[w].claimed \in SUBSET Ids
           /\ \A k \in InFlight(w) \cup loop[w].claimed : k <= stream.last
           /\ stops \in 0 .. MaxStops
<1> DEFINE F == InFlight(w)
<1>1. GoodLoop(loop[w], F) /\ F \in SUBSET Ids
  BY LoopIsGood
<1>2. loop[w] \in LoopRecord /\ loop[w].claimed \in SUBSET Ids
  BY <1>1 DEF GoodLoop, LoopRecord
<1>3. F \cup loop[w].claimed \in SUBSET Ids /\ F \in SUBSET (F \cup loop[w].claimed)
  BY <1>1, <1>2
<1>4. Cardinality(F) \in Nat /\ Cardinality(F) <= Concurrency
  <2> HIDE DEF F
  <2> QED
    BY <1>1, <1>3, SmallerSet, WorkerAssumption DEF GoodLoop
<1> QED
  BY <1>1, <1>2, <1>4 DEF ShapeInv, TypeOK, HeldIsDelivered, WorkerTypeOK

\* Steps of a loop, a signal or an error that leave the servers alone.
LEMMA TurningStepsShape ==
    ASSUME ShapeInv, NEW w \in Workers, UNCHANGED ingestionVars,
           \/ Boot(w) \/ ReadTimeout(w) \/ WakeUp(w) \/ DrainDone(w) \/ SpinPass(w)
           \/ LoopError(w) \/ Sigterm(w) \/ SetStop(w)
    PROVE  ShapeInv'
<1> DEFINE F == InFlight(w)
           l == loop[w]
<1>1. /\ GoodLoop(l, F) /\ F \in SUBSET Ids /\ Cardinality(F) <= Concurrency /\ l \in LoopRecord
      /\ Cardinality(F) \in Nat /\ l.claimed \in SUBSET Ids
      /\ \A k \in l.claimed : k <= stream.last
      /\ stops \in 0 .. MaxStops
  BY LoopFacts
<1>2. StoresKept /\ UNCHANGED <<tasks, execs, requests>>
  <2>1. UNCHANGED <<rows, stream, dlq, crashes, tasks, execs, requests>> /\ faults' \in 0 .. MaxFaults
    BY FaultBudget DEF Boot, ReadTimeout, WakeUp, DrainDone, SpinPass, LoopError, Sigterm, SetStop,
       storeVars, ingestionVars, ShapeInv, TypeOK, StoresTypeOK
  <2> QED
    BY <2>1, StoresStill
<1>3. CASE ReadTimeout(w) \/ WakeUp(w) \/ SpinPass(w)
  <2>1. SetLoop(w, NextPass(l, Cardinality(F))) /\ stops' = stops
    BY <1>3 DEF ReadTimeout, WakeUp, SpinPass
  <2>2. GoodLoop(NextPass(l, Cardinality(F)), F) /\ NextPass(l, Cardinality(F)).claimed = {}
    BY <1>1, NextPassGood
  <2> QED
    BY <1>1, <1>2, <2>1, <2>2, LoopTurns
<1>4. CASE LoopError(w) /\ l.pc # "boot"
  <2>1. SetLoop(w, LoopAt(l, "sleep", {}, 0)) /\ stops' = stops
    BY <1>4 DEF LoopError, BackOff
  <2> QED
    BY <1>1, <1>2, <2>1, BackOffGood, LoopTurns
<1>5. CASE LoopError(w) /\ l.pc = "boot"
  <2>1. SetLoop(w, NoLoop) /\ stops' = stops
    BY <1>5 DEF LoopError
  <2>2. F = {}
    BY <1>1, <1>5 DEF GoodLoop
  <2> QED
    BY <1>1, <1>2, <2>1, <2>2, NoLoopGood, LoopTurns
<1>6. CASE Boot(w)
  <2> DEFINE q == [NoLoop EXCEPT !.pc = "boot"]
  <2>1. SetLoop(w, q) /\ stops' = stops /\ l.pc = "down"
    BY <1>6 DEF Boot
  <2>2. F = {}
    BY <1>1, <2>1 DEF GoodLoop
  <2>3. q \in LoopRecord /\ q.pc = "boot" /\ q.claimed = NoLoop.claimed /\ q.count = NoLoop.count
    BY NoLoopGood DEF GoodLoop, LoopRecord, LoopPcs
  <2>4. GoodLoop(q, F)
    <3> HIDE DEF q
    <3> QED
      BY <2>2, <2>3, NoLoopGood DEF GoodLoop
  <2> QED
    BY <1>1, <1>2, <2>1, <2>3, <2>4, NoLoopGood, LoopTurns
<1>7. CASE DrainDone(w)
  <2> DEFINE q == [l EXCEPT !.pc = "stopped"]
  <2>1. SetLoop(w, q) /\ stops' = stops /\ l.pc = "drain" /\ F = {}
    BY <1>7 DEF DrainDone
  <2>2. q \in LoopRecord /\ q.pc = "stopped" /\ q.claimed = l.claimed /\ q.count = l.count
    BY <1>1 DEF LoopRecord, LoopPcs
  <2>3. GoodLoop(q, F)
    <3> HIDE DEF q, l, F
    <3> QED
      BY <1>1, <2>1, <2>2 DEF GoodLoop
  <2> QED
    BY <1>1, <1>2, <2>1, <2>2, <2>3, LoopTurns
<1>8. ASSUME NEW s \in {"sent", "set"}, SetLoop(w, [l EXCEPT !.stop = s]), stops' \in 0 .. MaxStops
      PROVE  ShapeInv'
  <2> DEFINE q == [l EXCEPT !.stop = s]
  <2>1. q \in LoopRecord /\ q.pc = l.pc /\ q.claimed = l.claimed /\ q.count = l.count
    BY <1>1, <1>8 DEF LoopRecord
  <2>2. GoodLoop(q, F)
    <3> HIDE DEF q, l, F
    <3> QED
      BY <1>1, <2>1 DEF GoodLoop
  <2> QED
    BY <1>1, <1>2, <1>8, <2>1, <2>2, LoopTurns
<1>9. CASE Sigterm(w) \/ SetStop(w)
  <2>1. stops' \in 0 .. MaxStops
    BY <1>1, <1>9, WorkerAssumption DEF Sigterm, SetStop
  <2> QED
    BY <1>8, <1>9, <2>1 DEF Sigterm, SetStop
<1> QED
  BY <1>3, <1>4, <1>5, <1>6, <1>7, <1>9

\* XAUTOCLAIM changes delivery counts of pending entries only.
LEMMA XAutoClaimKept ==
    ASSUME ShapeInv, NEW R \in SUBSET Pending(stream), stream' = XAutoClaim(stream, R),
           UNCHANGED <<rows, dlq, crashes>>, faults' \in 0 .. MaxFaults
    PROVE  StoresKept
<1> DEFINE p == [k \in Ids |-> CASE k \in R /\ k < stream.first  -> 0
                                 [] k \in R /\ k >= stream.first -> IF stream.pel[k] > MaxDelivery THEN stream.pel[k] ELSE stream.pel[k] + 1
                                 [] OTHER                        -> stream.pel[k]]
<1> USE DEF ShapeInv, TypeOK
<1>1. stream \in StreamRecord
  BY DEF StoresTypeOK, StreamRecord
<1>2. ASSUME NEW k \in Ids
      PROVE  p[k] \in DeliveryCounts /\ (p[k] > 0 => stream.pel[k] > 0)
  <2>0. stream.pel \in [Ids -> DeliveryCounts] /\ stream.first \in Nat
    BY <1>1 DEF StreamRecord
  <2>1. stream.pel[k] \in 0 .. (MaxDelivery + 1) /\ stream.first \in Nat /\ k \in Int
    <3>1. k \in Int
      BY DEF Ids
    <3> QED
      BY <2>0, <3>1 DEF DeliveryCounts
  <2>2. k \in R => stream.pel[k] > 0
    BY DEF Pending
  <2>3. CASE k \in R /\ k < stream.first
    BY <2>1, <2>2, <2>3, StreamAssumption DEF DeliveryCounts
  <2>4. CASE k \in R /\ k >= stream.first
    <3>1. p[k] = IF stream.pel[k] > MaxDelivery THEN stream.pel[k] ELSE stream.pel[k] + 1
      BY <2>1, <2>4
    <3> QED
      BY <2>1, <2>2, <2>4, <3>1, StreamAssumption DEF DeliveryCounts
  <2>5. CASE k \notin R
    BY <2>1, <2>5, StreamAssumption DEF DeliveryCounts
  <2> QED
    BY <2>1, <2>3, <2>4, <2>5
<1>3. p \in [Ids -> DeliveryCounts]
  BY <1>2
<1>4. /\ stream'.log = stream.log /\ stream'.first = stream.first
      /\ stream'.last = stream.last /\ stream'.pel = p
      /\ stream' \in StreamRecord
  <2>1. stream' = [stream EXCEPT !.pel = p]
    BY DEF XAutoClaim
  <2> HIDE DEF p
  <2> QED
    BY <1>1, <1>3, <2>1 DEF StreamRecord
<1>5. StoresTypeOK'
  <2> HIDE DEF p
  <2> QED
    BY <1>2, <1>4 DEF StoresTypeOK, StreamRecord, Pending
<1>6. PointerHasRow'
  BY <1>4 DEF PointerHasRow, JobOf
<1>7. \A k \in 1 .. Len(stream.log) : k <= Len(stream.log)
  BY DEF StoresTypeOK
<1> QED
  BY <1>4, <1>5, <1>6, <1>7 DEF StoresKept

\* XREADGROUP moves the group forward, over entries of the log.
LEMMA XReadGroupGrown ==
    ASSUME ShapeInv, NEW ids \in SUBSET Undelivered(stream), ids # {},
           stream' = XReadGroup(stream, ids),
           UNCHANGED <<rows, dlq, crashes>>, faults' \in 0 .. MaxFaults
    PROVE  StoresGrown /\ stream'.log = stream.log /\ \A k \in ids : k <= stream'.last
<1> DEFINE p == [k \in Ids |-> IF k \in ids THEN 1 ELSE stream.pel[k]]
           top == Max(ids)
<1> USE DEF ShapeInv, TypeOK
<1>1. stream \in StreamRecord
  BY DEF StoresTypeOK, StreamRecord
<1>2. ids \in SUBSET Ids /\ \A k \in ids : stream.last < k /\ k <= Len(stream.log)
  BY DEF Undelivered
<1>3. top \in ids /\ \A k \in ids : k <= top
  BY <1>2, MaxOfIds
<1>4. top \in Int /\ stream.last < top /\ top <= Len(stream.log)
  <2>1. Ids \subseteq Int
    BY DEF Ids
  <2> HIDE DEF top
  <2> QED
    BY <1>2, <1>3, <2>1
<1>5. p \in [Ids -> DeliveryCounts]
  BY <1>1, StreamAssumption DEF StreamRecord, DeliveryCounts
<1>6. /\ stream'.log = stream.log /\ stream'.first = stream.first
      /\ stream'.last = top /\ stream'.pel = p
      /\ stream' \in StreamRecord
  <2>1. stream' = [stream EXCEPT !.last = top, !.pel = p]
    BY DEF XReadGroup
  <2> HIDE DEF p, top
  <2> QED
    BY <1>1, <1>4, <1>5, <2>1 DEF StreamRecord
<1>7. \A k \in Ids : stream'.pel[k] > 0 => k <= top
  <2> SUFFICES ASSUME NEW k \in Ids, stream'.pel[k] > 0 PROVE k <= top
    OBVIOUS
  <2>1. CASE k \in ids
    BY <1>3, <2>1
  <2>2. CASE k \notin ids
    <3>1. stream.pel[k] > 0
      BY <1>6, <2>2
    <3>2. k <= stream.last /\ stream.last \in Int /\ k \in Int
      BY <3>1 DEF StoresTypeOK, Pending, Ids
    <3> HIDE DEF top, ShapeInv
    <3> QED
      BY <1>4, <3>2
  <2> QED
    BY <2>1, <2>2
<1>8. StoresTypeOK'
  <2>1. stream'.last \in NoGroup .. Len(stream.log)
    <3>1. stream.last \in Int /\ NoGroup <= stream.last /\ Len(stream.log) \in Int
      BY DEF StoresTypeOK, NoGroup
    <3> HIDE DEF top, ShapeInv
    <3> QED
      BY <1>4, <1>6, <3>1 DEF NoGroup
  <2> HIDE DEF p, top
  <2> QED
    BY <1>6, <1>7, <2>1 DEF StoresTypeOK, StreamRecord, Pending
<1>9. PointerHasRow'
  BY <1>6 DEF PointerHasRow, JobOf
<1>10. stream.last <= stream'.last
  <2>1. stream.last \in Int
    BY DEF StoresTypeOK
  <2> HIDE DEF top
  <2> QED
    BY <1>4, <1>6, <2>1
<1>11. \A k \in 1 .. Len(stream.log) : k <= Len(stream.log)
  BY DEF StoresTypeOK
<1>12. StoresGrown
  BY <1>6, <1>8, <1>9, <1>10, <1>11 DEF StoresGrown
<1> QED
  BY <1>3, <1>6, <1>12

LEMMA XGroupCreateGrown ==
    ASSUME ShapeInv, stream' = XGroupCreate(stream),
           UNCHANGED <<rows, dlq, crashes>>, faults' \in 0 .. MaxFaults
    PROVE  StoresGrown /\ stream'.log = stream.log
<1> DEFINE last == IF stream.last = NoGroup THEN Len(stream.log) ELSE stream.last
<1> USE DEF ShapeInv, TypeOK
<1>1. stream \in StreamRecord
  BY DEF StoresTypeOK, StreamRecord
<1>2. last \in Int /\ last \in NoGroup .. Len(stream.log) /\ stream.last <= last
  BY DEF StoresTypeOK, NoGroup
<1>3. /\ stream'.log = stream.log /\ stream'.first = stream.first
      /\ stream'.last = last /\ stream'.pel = stream.pel
      /\ stream' \in StreamRecord
  <2>1. stream' = [stream EXCEPT !.last = last]
    BY DEF XGroupCreate
  <2> HIDE DEF last
  <2> QED
    BY <1>1, <1>2, <2>1 DEF StreamRecord
<1>4. \A k \in Ids : stream.pel[k] > 0 => k <= last
  <2> SUFFICES ASSUME NEW k \in Ids, stream.pel[k] > 0 PROVE k <= last
    OBVIOUS
  <2>1. k <= stream.last /\ stream.last \in Int /\ k \in Int
    BY DEF StoresTypeOK, Pending, Ids
  <2> HIDE DEF last, ShapeInv
  <2> QED
    BY <1>2, <2>1
<1>5. StoresTypeOK'
  <2> HIDE DEF last
  <2> QED
    BY <1>2, <1>3, <1>4 DEF StoresTypeOK, StreamRecord, Pending
<1>6. PointerHasRow'
  BY <1>3 DEF PointerHasRow, JobOf
<1>7. \A k \in 1 .. Len(stream.log) : k <= Len(stream.log)
  BY DEF StoresTypeOK
<1> QED
  BY <1>2, <1>3, <1>5, <1>6, <1>7 DEF StoresGrown

LEMMA EnsureGroupShape ==
    ASSUME ShapeInv, NEW w \in Workers, NEW r \in Replies, UNCHANGED ingestionVars, EnsureGroup(w, r)
    PROVE  ShapeInv'
<1> DEFINE F == InFlight(w)
<1>1. loop[w] \in LoopRecord /\ GoodLoop(loop[w], F) /\ stops \in 0 .. MaxStops
  BY LoopFacts
<1>2. F = {}
  BY <1>1 DEF GoodLoop, EnsureGroup
<1>3. Cardinality({}) = 0 /\ {} \in SUBSET Ids /\ 0 <= Concurrency /\ F \cup {} = {}
  BY <1>2, FS_EmptySet, WorkerAssumption
<1>4. StoresGrown
  BY FaultBudget, XGroupCreateGrown DEF EnsureGroup
<1>5. Dispatch(w, {}) /\ UNCHANGED <<execs, requests, stops>>
  BY NoDispatch DEF EnsureGroup, ingestionVars
<1>6. GoodLoop(NextPass(loop[w], 0), {}) /\ NextPass(loop[w], 0).claimed = {}
  BY <1>1, <1>3, NextPassGood
<1>7. PICK l : SetLoop(w, l) /\ GoodLoop(l, {}) /\ l.claimed = {}
  BY <1>6, NoLoopGood DEF EnsureGroup
<1> QED
  BY <1>1, <1>2, <1>3, <1>4, <1>5, <1>7, LoopMoves

LEMMA ReclaimOrphansShape ==
    ASSUME ShapeInv, NEW w \in Workers, NEW R \in Claimable(w), NEW r \in Replies,
           UNCHANGED ingestionVars, ReclaimOrphans(w, R, r)
    PROVE  ShapeInv'
<1> DEFINE F == InFlight(w)
           C == {k \in R : k >= stream.first}
           m == [loop[w] EXCEPT !.cursor = XAutoClaimCursor(stream, R, loop[w].count)]
<1>1. /\ loop[w] \in LoopRecord /\ GoodLoop(loop[w], F) /\ stops \in 0 .. MaxStops
      /\ F \in SUBSET Ids /\ Cardinality(F) \in Nat
  BY LoopFacts
<1>2. R \in SUBSET Pending(stream) /\ Cardinality(R) <= loop[w].count
  BY DEF Claimable, XAutoClaimSets
<1>3. Pending(stream) \in SUBSET Ids /\ \A k \in Pending(stream) : k <= stream.last
  BY DEF Pending, ShapeInv, TypeOK, StoresTypeOK
<1>4. StoresKept
  BY <1>2, FaultBudget, XAutoClaimKept DEF ReclaimOrphans
<1>5. C \in SUBSET Ids /\ C \in SUBSET R /\ \A k \in C : k <= stream.last
  BY <1>2, <1>3
<1>6. Cardinality(F \cup C) <= Concurrency
  <2>1. R \in SUBSET Ids
    BY <1>2, <1>3
  <2>2. Cardinality(C) \in Nat /\ Cardinality(R) \in Nat /\ Cardinality(C) <= Cardinality(R)
    BY <1>5, <2>1, SmallerSet
  <2>3. IsFiniteSet(F) /\ IsFiniteSet(C) /\ F \cap C \in SUBSET Ids
    BY <1>1, <1>5, IdsFinite
  <2>4. Cardinality(F \cup C) = Cardinality(F) + Cardinality(C) - Cardinality(F \cap C)
    <3> HIDE DEF F, C
    <3> QED
      BY <2>3, FS_Union
  <2>5. Cardinality(F \cap C) \in Nat
    BY <2>3, IdsFinite
  <2>6. Cardinality(F) + loop[w].count <= Concurrency /\ loop[w].count \in Nat
    BY <1>1, WorkerAssumption DEF GoodLoop, LoopRecord
  <2> HIDE DEF F, C
  <2> QED
    BY <1>1, <1>2, <2>2, <2>4, <2>5, <2>6, WorkerAssumption
<1>7. m \in LoopRecord
  <2>1. XAutoClaimCursor(stream, R, loop[w].count) \in 0 .. MaxEntries
    BY CursorType
  <2> QED
    BY <1>1, <2>1 DEF LoopRecord
<1>8. GoodLoop(NextClaimed(m, C, F), F) /\ NextClaimed(m, C, F).claimed \subseteq C
  <2> HIDE DEF m, C, F
  <2> QED
    BY <1>1, <1>5, <1>6, <1>7, NextClaimedGood
<1>9. /\ SetLoop(w, NextClaimed(m, C, F)) \/ SetLoop(w, LoopAt(loop[w], "sleep", {}, 0))
      /\ UNCHANGED <<tasks, execs, requests, stops>>
  BY DEF ReclaimOrphans, BackOff, ingestionVars
<1>10. CASE SetLoop(w, NextClaimed(m, C, F))
  <2> HIDE DEF m, C
  <2> QED
    BY <1>1, <1>4, <1>5, <1>8, <1>9, <1>10, LoopTurns
<1>11. CASE SetLoop(w, LoopAt(loop[w], "sleep", {}, 0))
  BY <1>1, <1>4, <1>9, <1>11, BackOffGood, LoopTurns
<1> QED
  BY <1>9, <1>10, <1>11

LEMMA HandleReclaimedShape ==
    ASSUME ShapeInv, NEW w \in Workers, UNCHANGED ingestionVars, HandleReclaimed(w)
    PROVE  ShapeInv'
<1> DEFINE F == InFlight(w)
           C == loop[w].claimed
           i == Min(C)
<1>1. /\ loop[w] \in LoopRecord /\ GoodLoop(loop[w], F) /\ stops \in 0 .. MaxStops
      /\ F \in SUBSET Ids /\ C \in SUBSET Ids /\ \A k \in C : k <= stream.last
  BY LoopFacts
<1>2. loop[w].pc = "xpending" /\ UNCHANGED <<execs, requests, stops>>
  BY DEF HandleReclaimed, ingestionVars
<1>3. C # {} /\ i \in C
  <2>1. C # {}
    BY <1>1, <1>2 DEF GoodLoop
  <2> QED
    BY <1>1, <2>1, MinOfIds
<1>4. StoresKept
  BY StoresStill DEF HandleReclaimed, storeVars, ShapeInv, TypeOK, StoresTypeOK
<1>5. CASE SetLoop(w, [loop[w] EXCEPT !.pc = "dlq"]) /\ UNCHANGED tasks
  <2> DEFINE q == [loop[w] EXCEPT !.pc = "dlq"]
  <2>1. q \in LoopRecord /\ q.pc = "dlq" /\ q.claimed = C /\ q.count = loop[w].count
    BY <1>1 DEF LoopRecord, LoopPcs
  <2>2. GoodLoop(q, F)
    <3> HIDE DEF q, F
    <3> QED
      BY <1>1, <1>2, <2>1 DEF GoodLoop
  <2> HIDE DEF q, i
  <2>3. SetLoop(w, q)
    BY <1>5 DEF q
  <2> QED
    BY <1>1, <1>2, <1>4, <1>5, <2>1, <2>2, <2>3, LoopTurns
<1>6. CASE Dispatch(w, {i}) /\ SetLoop(w, NextClaimed(loop[w], C \ {i}, F \cup {i}))
  <2> DEFINE q == NextClaimed(loop[w], C \ {i}, F \cup {i})
  <2>1. F \cup {i} \in SUBSET Ids /\ C \ {i} \in SUBSET Ids /\ {i} \in SUBSET Ids
        /\ (F \cup {i}) \cup (C \ {i}) = F \cup C
    BY <1>1, <1>3
  <2>2. GoodLoop(q, F \cup {i}) /\ q.claimed \subseteq C \ {i}
    <3> HIDE DEF F, C, i
    <3>1. Cardinality((F \cup {i}) \cup (C \ {i})) <= Concurrency
      BY <1>1, <2>1 DEF GoodLoop, C
    <3> QED
      BY <1>1, <2>1, <3>1, NextClaimedGood
  <2>3. StoresGrown /\ stream'.last = stream.last
    BY <1>4, KeptIsGrown DEF StoresKept
  <2>4. \A k \in {i} \cup q.claimed : k <= stream'.last
    <3> HIDE DEF q, i
    <3> QED
      BY <1>1, <1>3, <2>2, <2>3
  <2>5. SetLoop(w, q) /\ Dispatch(w, {i})
    BY <1>6
  <2> HIDE DEF q, i, C
  <2> QED
    BY <1>1, <1>2, <2>1, <2>2, <2>3, <2>4, <2>5, LoopMoves
<1> QED
  BY <1>5, <1>6 DEF HandleReclaimed

LEMMA ReclaimedStepsShape ==
    ASSUME ShapeInv, NEW w \in Workers, NEW r \in Replies, UNCHANGED ingestionVars,
           ReclaimedToDlq(w, r) \/ ReclaimedAck(w, r)
    PROVE  ShapeInv'
<1> DEFINE F == InFlight(w)
           C == loop[w].claimed
           i == Min(C)
<1>1. /\ loop[w] \in LoopRecord /\ GoodLoop(loop[w], F) /\ stops \in 0 .. MaxStops
      /\ F \in SUBSET Ids /\ C \in SUBSET Ids /\ \A k \in C : k <= stream.last
  BY LoopFacts
<1>2. loop[w].pc \in {"dlq", "dlqAck"} /\ UNCHANGED <<tasks, execs, requests, stops>>
  BY DEF ReclaimedToDlq, ReclaimedAck, ingestionVars
<1>3. C # {} /\ i \in C /\ i \in Ids /\ i <= stream.last
  <2>1. C # {}
    BY <1>1, <1>2 DEF GoodLoop
  <2>2. i \in C
    BY <1>1, <2>1, MinOfIds
  <2> QED
    BY <1>1, <2>1, <2>2
<1>4. StoresKept
  <2>1. CASE ReclaimedToDlq(w, r)
    <3>1. stream.log[i] \in JobMessage
      <4> HIDE DEF i
      <4>1. i \in 1 .. Len(stream.log)
        BY <1>3 DEF ShapeInv, TypeOK, StoresTypeOK, Ids
      <4> QED
        BY <4>1 DEF ShapeInv, TypeOK, StoresTypeOK
    <3> QED
      BY <2>1, <3>1, FaultBudget, DlqKept DEF ReclaimedToDlq
  <2>2. CASE ReclaimedAck(w, r)
    BY <1>3, <2>2, FaultBudget, XAckKept DEF ReclaimedAck
  <2> QED
    BY <2>1, <2>2
<1>5. CASE SetLoop(w, LoopAt(loop[w], "sleep", {}, 0))
  BY <1>1, <1>2, <1>4, <1>5, BackOffGood, LoopTurns
<1>6. CASE SetLoop(w, [loop[w] EXCEPT !.pc = "dlqAck"])
  <2> DEFINE q == [loop[w] EXCEPT !.pc = "dlqAck"]
  <2>1. q \in LoopRecord /\ q.pc = "dlqAck" /\ q.claimed = C /\ q.count = loop[w].count
    BY <1>1 DEF LoopRecord, LoopPcs
  <2>2. GoodLoop(q, F)
    <3> HIDE DEF q, F
    <3> QED
      BY <1>1, <1>2, <2>1 DEF GoodLoop
  <2> HIDE DEF q, i
  <2>3. SetLoop(w, q)
    BY <1>6 DEF q
  <2> QED
    BY <1>1, <1>2, <1>4, <2>1, <2>2, <2>3, LoopTurns
<1>7. CASE SetLoop(w, NextClaimed(loop[w], C \ {i}, F))
  <2> DEFINE q == NextClaimed(loop[w], C \ {i}, F)
  <2>1. C \ {i} \in SUBSET Ids /\ F \cup C \in SUBSET Ids /\ F \cup (C \ {i}) \in SUBSET (F \cup C)
    BY <1>1
  <2>2. GoodLoop(q, F) /\ q.claimed \subseteq C \ {i}
    <3> HIDE DEF F, C, i
    <3>1. Cardinality(F \cup (C \ {i})) <= Concurrency
      <4>1. Cardinality(F \cup C) <= Concurrency
        BY <1>1 DEF GoodLoop, C
      <4> QED
        BY <2>1, <4>1, SmallerSet, WorkerAssumption
    <3> QED
      BY <1>1, <2>1, <3>1, NextClaimedGood
  <2>3. SetLoop(w, q)
    BY <1>7
  <2> HIDE DEF q, i
  <2> QED
    BY <1>1, <1>2, <1>4, <2>2, <2>3, LoopTurns
<1> QED
  BY <1>5, <1>6, <1>7 DEF ReclaimedToDlq, ReclaimedAck, BackOff

LEMMA ReadNewShape ==
    ASSUME ShapeInv, NEW w \in Workers, NEW r \in Replies, UNCHANGED ingestionVars, ReadNew(w, r)
    PROVE  /\ ShapeInv'
           /\ \A k \in XReadIds(stream, loop[w].count) : k \notin InFlight(w)
<1> DEFINE F == InFlight(w)
           ids == XReadIds(stream, loop[w].count)
           l == NextPass(loop[w], Cardinality(F \cup ids))
<1>1. /\ loop[w] \in LoopRecord /\ GoodLoop(loop[w], F) /\ stops \in 0 .. MaxStops
      /\ F \in SUBSET Ids /\ Cardinality(F) \in Nat /\ \A k \in F : k <= stream.last
  BY LoopFacts
<1>2. ids \subseteq Undelivered(stream) /\ ids \in SUBSET Ids /\ Cardinality(ids) <= loop[w].count
  <2>1. stream.first \in Nat /\ stream.last \in Int
    BY DEF ShapeInv, TypeOK, StoresTypeOK
  <2>2. loop[w].count \in Nat
    BY <1>1, WorkerAssumption DEF LoopRecord
  <2> QED
    BY <2>1, <2>2, ReadIds
<1>3. /\ ids # {} /\ stream' = XReadGroup(stream, ids)
      /\ UNCHANGED <<rows, dlq, crashes, execs, requests, stops>> /\ faults' \in 0 .. MaxFaults
  BY FaultBudget DEF ReadNew, ingestionVars
<1>4. StoresGrown /\ \A k \in ids : k <= stream'.last
  <2> HIDE DEF ids
  <2> QED
    BY <1>2, <1>3, XReadGroupGrown
<1>5. Cardinality(F \cup ids) <= Concurrency /\ F \cup ids \in SUBSET Ids
  <2>1. Cardinality(ids) \in Nat /\ IsFiniteSet(ids) /\ IsFiniteSet(F)
    BY <1>1, <1>2, IdsFinite
  <2>2. F \cap ids \in SUBSET Ids
    BY <1>1
  <2>3. Cardinality(F \cap ids) \in Nat
    BY <2>2, IdsFinite
  <2>4. Cardinality(F \cup ids) = Cardinality(F) + Cardinality(ids) - Cardinality(F \cap ids)
    <3> HIDE DEF F, ids
    <3> QED
      BY <2>1, FS_Union
  <2>5. Cardinality(F) + loop[w].count <= Concurrency /\ loop[w].count \in Nat
    BY <1>1, WorkerAssumption DEF GoodLoop, LoopRecord
  <2> HIDE DEF F, ids
  <2> QED
    BY <1>1, <1>2, <2>1, <2>3, <2>4, <2>5, WorkerAssumption
<1>6. ASSUME r = "ok" PROVE ShapeInv'
  <2>1. Dispatch(w, ids) /\ SetLoop(w, l)
    BY <1>6 DEF ReadNew
  <2>2. GoodLoop(l, F \cup ids) /\ l.claimed = {}
    <3> HIDE DEF F, ids
    <3> QED
      BY <1>1, <1>5, NextPassGood
  <2> HIDE DEF ids, l
  <2>3. \A k \in ids \cup l.claimed : k <= stream'.last
    BY <1>4, <2>2
  <2> QED
    BY <1>1, <1>2, <1>3, <1>4, <2>1, <2>2, <2>3, LoopMoves
<1>7. ASSUME r # "ok" PROVE ShapeInv'
  <2> DEFINE q == LoopAt(loop[w], "sleep", {}, 0)
  <2>1. SetLoop(w, q) /\ UNCHANGED tasks
    BY <1>7 DEF ReadNew, BackOff
  <2>2. Dispatch(w, {}) /\ F \cup {} = F /\ {} \in SUBSET Ids
    BY <2>1, NoDispatch
  <2>3. GoodLoop(q, F) /\ q.claimed = {}
    BY BackOffGood
  <2>4. \A k \in {} \cup q.claimed : k <= stream'.last
    BY <2>3
  <2> HIDE DEF ids, q
  <2> QED
    BY <1>1, <1>3, <1>4, <2>1, <2>2, <2>3, <2>4, LoopMoves
<1>8. \A k \in ids : k \notin F
  <2> SUFFICES ASSUME NEW k \in ids, k \in F PROVE FALSE
    OBVIOUS
  <2>1. k <= stream.last /\ stream.last < k /\ k \in Int /\ stream.last \in Int
    BY <1>1, <1>2 DEF Undelivered, Ids, ShapeInv, TypeOK, StoresTypeOK
  <2> QED
    BY <2>1
<1> QED
  BY <1>6, <1>7, <1>8

LEMMA CrashShape ==
    ASSUME ShapeInv, NEW w \in Workers, UNCHANGED ingestionVars, Crash(w)
    PROVE  ShapeInv'
<1> USE DEF ShapeInv, TypeOK
<1>1. /\ loop' = [loop EXCEPT ![w] = NoLoop] /\ UNCHANGED <<rows, stream, dlq, faults, execs, stops, requests>>
      /\ tasks' = [tasks EXCEPT ![w] = [k \in Ids |-> NoTask]] /\ crashes' \in 0 .. MaxCrashes
  BY StoresAssumption DEF Crash, SetLoop, ingestionVars, StoresTypeOK
<1>2. NoLoop \in LoopRecord /\ NoLoop.claimed = {} /\ NoLoop.count = 0 /\ NoLoop.pc = "down"
  BY WorkerAssumption, StreamAssumption DEF NoLoop, LoopRecord, LoopPcs
<1>3. NoTask \in TaskRecord /\ NoTask.pc = "none"
  BY DEF NoTask, TaskRecord, TaskPcs
<1>4. /\ loop'[w] = NoLoop /\ \A v \in Workers : v # w => loop'[v] = loop[v]
      /\ \A k \in Ids : tasks'[w][k] = NoTask
      /\ \A v \in Workers : v # w => tasks'[v] = tasks[v]
  BY <1>1 DEF WorkerTypeOK
<1>5. InFlight(w)' = {} /\ \A v \in Workers : v # w => InFlight(v)' = InFlight(v)
  BY <1>3, <1>4 DEF InFlight
<1>6. StoresTypeOK' /\ IngestionTypeOK' /\ PublishedHasRow' /\ PointerHasRow'
  BY <1>1 DEF StoresTypeOK, IngestionTypeOK, PublishedHasRow, PointerHasRow, JobOf, Pending
<1>7. WorkerTypeOK'
  BY <1>1, <1>2, <1>3 DEF WorkerTypeOK, TaskRecord, LoopRecord
<1>8. LoopShape'
  BY <1>2, <1>4, <1>5 DEF LoopShape
<1>9. HeldIsDelivered'
  BY <1>1, <1>2, <1>4, <1>5 DEF HeldIsDelivered
<1>10. TaskShape'
  BY <1>1, <1>3, <1>4 DEF TaskShape, WrittenStatus, FlushPcs, RetryPcs
<1>11. BudgetKept'
  <2> SUFFICES ASSUME NEW v \in Workers
               PROVE  /\ Cardinality(InFlight(v)' \cup loop'[v].claimed) <= Concurrency
                      /\ Cardinality(InFlight(v)') + loop'[v].count <= Concurrency
    BY DEF BudgetKept
  <2>1. CASE v = w
    BY <1>2, <1>4, <1>5, <2>1, NoLoopGood DEF GoodLoop
  <2>2. CASE v # w
    BY <1>4, <1>5, <2>2 DEF BudgetKept
  <2> QED
    BY <2>1, <2>2
<1> QED
  BY <1>6, <1>7, <1>8, <1>9, <1>10, <1>11

-----------------------------------------------------------------------------
(* Requests.                                                               *)

\* A request moves on; the workers stand still and the group reads nothing.
LEMMA RequestMoves ==
    ASSUME ShapeInv, UNCHANGED workerVars, StoresKept, IngestionTypeOK', PublishedHasRow'
    PROVE  ShapeInv'
<1> USE DEF ShapeInv, TypeOK, workerVars
<1>1. \A v \in Workers : InFlight(v)' = InFlight(v)
  BY DEF InFlight
<1>2. StoresTypeOK' /\ PointerHasRow' /\ stream'.last = stream.last
  BY DEF StoresKept
<1>3. WorkerTypeOK'
  BY DEF WorkerTypeOK
<1>4. LoopShape' /\ HeldIsDelivered' /\ BudgetKept'
  BY <1>1, <1>2 DEF LoopShape, HeldIsDelivered, BudgetKept
<1>5. TaskShape'
  <2> SUFFICES ASSUME NEW v \in Workers, NEW k \in Ids
               PROVE  GoodTask(tasks[v][k], k)'
    BY DEF TaskShape, GoodTask
  <2>1. GoodTask(tasks[v][k], k)
    BY DEF TaskShape, GoodTask, WorkerTypeOK, TaskRecord
  <2>2. tasks[v][k].pc # "none" => stream'.log[k] = stream.log[k]
    BY DEF HeldIsDelivered, InFlight, StoresTypeOK, Ids, StoresKept
  <2>3. tasks[v][k].pc \in RetryPcs => tasks[v][k].pc # "none"
    BY DEF RetryPcs
  <2> QED
    BY <2>1, <2>2, <2>3 DEF GoodTask
<1> QED
  BY <1>2, <1>3, <1>4, <1>5

LEMMA InsertKept ==
    ASSUME ShapeInv, NEW j \in Jobs, Add(j), UNCHANGED <<stream, dlq, crashes>>,
           faults' \in 0 .. MaxFaults
    PROVE  StoresKept /\ rows'[j] # NoRow
<1> USE DEF ShapeInv, TypeOK
<1>1. NewJob \in Job /\ NewJob # NoRow
  BY DEF NewJob, Job, JobStatus, NoRow
<1>2. /\ rows' \in [Jobs -> Job \cup {NoRow}] /\ rows'[j] # NoRow
      /\ \A k \in Jobs : rows[k] # NoRow => rows'[k] # NoRow
  BY <1>1 DEF StoresTypeOK, Add
<1>3. StoresTypeOK'
  BY <1>2 DEF StoresTypeOK, Pending
<1>4. \A k \in 1 .. Len(stream.log) : stream.log[k] \in JobMessage
  BY DEF StoresTypeOK
<1>5. \A k \in 1 .. Len(stream.log) : JobOf(k) \in Jobs
  BY <1>4 DEF JobOf, JobMessage
<1>6. PointerHasRow'
  BY <1>2, <1>5 DEF PointerHasRow, JobOf
<1>7. \A k \in 1 .. Len(stream.log) : k <= Len(stream.log)
  BY DEF StoresTypeOK
<1> QED
  BY <1>2, <1>3, <1>6, <1>7 DEF StoresKept

LEMMA SubmitShape ==
    ASSUME ShapeInv, NEW j \in Jobs, UNCHANGED workerVars, Submit(j)
    PROVE  ShapeInv'
<1> USE DEF ShapeInv, TypeOK
<1>1. ASSUME NEW pc \in RequestPcs, NEW n \in 0 .. (MaxTries - 1), SetRequest(j, pc, n), StoresKept,
             pc \in {"publish", "accepted"} => rows'[j] # NoRow
      PROVE  ShapeInv'
  <2>1. IngestionTypeOK'
    BY <1>1 DEF SetRequest, IngestionTypeOK
  <2>2. PublishedHasRow'
    BY <1>1 DEF SetRequest, IngestionTypeOK, PublishedHasRow, StoresKept
  <2> QED
    BY <1>1, <2>1, <2>2, RequestMoves
<1>2. 0 \in 0 .. (MaxTries - 1) /\ requests[j].tries \in Nat
  BY IngestionAssumption DEF IngestionTypeOK
<1>3. ASSUME NEW transient \in BOOLEAN, PublishFailed(j, transient), StoresKept,
             requests[j].pc = "publish"
      PROVE  ShapeInv'
  <2> DEFINE n == requests[j].tries + 1
  <2>1. rows'[j] # NoRow
    BY <1>3 DEF PublishedHasRow, StoresKept
  <2>2. CASE SetRequest(j, "publish", n) /\ n < MaxTries
    <3>1. n \in 0 .. (MaxTries - 1)
      BY <1>2, <2>2, IngestionAssumption
    <3> HIDE DEF n
    <3> QED
      BY <1>1, <1>3, <2>1, <2>2, <3>1 DEF RequestPcs
  <2>3. CASE SetRequest(j, "rejected", 0)
    BY <1>1, <1>2, <1>3, <2>3 DEF RequestPcs
  <2> QED
    BY <1>3, <2>2, <2>3 DEF PublishFailed
<1>4. ASSUME NEW r \in Replies, Insert(j, r) PROVE ShapeInv'
  <2>1. StoresKept /\ rows'[j] # NoRow
    BY <1>4, FaultBudget, InsertKept DEF Insert
  <2> QED
    BY <1>1, <1>2, <1>4, <2>1 DEF Insert, RequestPcs
<1>5. ASSUME NEW r \in Replies, Publish(j, r) PROVE ShapeInv'
  <2>1. rows[j] # NoRow
    BY <1>5 DEF Publish, PublishedHasRow
  <2>2. FirstDelivery(j) \in JobMessage /\ FirstDelivery(j).job = j
    BY StoresAssumption DEF FirstDelivery, JobMessage
  <2>3. StoresKept /\ rows' = rows
    BY <1>5, <2>1, <2>2, FaultBudget, XaddKept DEF Publish
  <2>4. CASE SetRequest(j, "accepted", 0)
    BY <1>1, <1>2, <2>1, <2>3, <2>4 DEF RequestPcs
  <2> QED
    BY <1>3, <1>5, <2>3, <2>4 DEF Publish
<1>6. CASE InsertError(j) \/ RequestDies(j)
  <2>1. StoresKept
    <3>1. CASE InsertError(j)
      BY <3>1, FaultBudget, StoresStill DEF InsertError
    <3>2. CASE RequestDies(j)
      <4>1. crashes' \in 0 .. MaxCrashes /\ UNCHANGED <<rows, stream, dlq, faults>>
        BY <3>2, StoresAssumption DEF RequestDies, StoresTypeOK
      <4> QED
        BY <4>1 DEF StoresTypeOK, StoresKept, PointerHasRow, JobOf, Pending
    <3> QED
      BY <1>6, <3>1, <3>2
  <2> QED
    BY <1>1, <1>2, <1>6, <2>1 DEF InsertError, RequestDies, RequestPcs
<1>7. ASSUME NEW transient \in BOOLEAN, PublishError(j, transient) PROVE ShapeInv'
  <2>1. StoresKept
    BY <1>7, FaultBudget, StoresStill DEF PublishError
  <2> QED
    BY <1>3, <1>7, <2>1 DEF PublishError
<1> QED
  BY <1>4, <1>5, <1>6, <1>7 DEF Submit

-----------------------------------------------------------------------------
LEMMA StutterShape == ASSUME ShapeInv, UNCHANGED vars PROVE ShapeInv'
<1> USE DEF ShapeInv, TypeOK, vars, storeVars, ingestionVars, workerVars
<1>1. \A v \in Workers : InFlight(v)' = InFlight(v)
  BY DEF InFlight
<1>2. TypeOK'
  BY DEF StoresTypeOK, IngestionTypeOK, WorkerTypeOK, Pending
<1>3. LoopShape' /\ HeldIsDelivered' /\ BudgetKept'
  BY <1>1 DEF LoopShape, HeldIsDelivered, BudgetKept
<1>4. TaskShape' /\ PublishedHasRow' /\ PointerHasRow'
  BY DEF TaskShape, PublishedHasRow, PointerHasRow, JobOf
<1> QED
  BY <1>2, <1>3, <1>4

LEMMA NextShape == ShapeInv /\ [Next]_vars => ShapeInv'
<1> SUFFICES ASSUME ShapeInv, [Next]_vars PROVE ShapeInv'
  OBVIOUS
<1>1. ASSUME NEW j \in Jobs, Submit(j), UNCHANGED workerVars PROVE ShapeInv'
  BY <1>1, SubmitShape
<1>2. ASSUME NEW w \in Workers, WorkerStep(w), UNCHANGED ingestionVars PROVE ShapeInv'
  <2>1. ASSUME LoopStep(w) PROVE ShapeInv'
    <3>1. CASE Boot(w) \/ ReadTimeout(w) \/ WakeUp(w) \/ DrainDone(w) \/ SpinPass(w)
      BY <1>2, <3>1, TurningStepsShape
    <3>2. CASE HandleReclaimed(w)
      BY <1>2, <3>2, HandleReclaimedShape
    <3>3. ASSUME NEW r \in Replies, EnsureGroup(w, r) PROVE ShapeInv'
      BY <1>2, <3>3, EnsureGroupShape
    <3>4. ASSUME NEW r \in Replies, NEW R \in Claimable(w), ReclaimOrphans(w, R, r) PROVE ShapeInv'
      BY <1>2, <3>4, ReclaimOrphansShape
    <3>5. ASSUME NEW r \in Replies, ReclaimedToDlq(w, r) \/ ReclaimedAck(w, r) PROVE ShapeInv'
      BY <1>2, <3>5, ReclaimedStepsShape
    <3>6. ASSUME NEW r \in Replies, ReadNew(w, r) PROVE ShapeInv'
      BY <1>2, <3>6, ReadNewShape
    <3> QED
      BY <2>1, <3>1, <3>2, <3>3, <3>4, <3>5, <3>6 DEF LoopStep
  <2>2. ASSUME NEW i \in Ids, TaskStep(w, i) PROVE ShapeInv'
    <3>1. CASE \/ Guard(w, i) \/ Load(w, i) \/ UpdateSelect(w, i) \/ RequeueGet(w, i) \/ FailGet(w, i)
               \/ \E outcome \in Outcomes : RunPipeline(w, i, outcome)
      BY <1>2, <3>1, ReadingStepsShape
    <3>2. ASSUME NEW r \in Replies,
                 \/ UpdateFlush(w, i, r) \/ Republish(w, i, r) \/ Ack(w, i, r)
                 \/ DeadLetter(w, i, r) \/ DlqAck(w, i, r)
          PROVE  ShapeInv'
      BY <1>2, <3>2, WritingStepsShape
    <3> QED
      BY <2>2, <3>1, <3>2 DEF TaskStep
  <2>3. ASSUME NEW i \in Ids, TaskError(w, i) PROVE ShapeInv'
    BY <1>2, <2>3, ReadingStepsShape
  <2>4. CASE LoopError(w) \/ Sigterm(w) \/ SetStop(w)
    BY <1>2, <2>4, TurningStepsShape
  <2>5. CASE Crash(w)
    BY <1>2, <2>5, CrashShape
  <2> QED
    BY <1>2, <2>1, <2>2, <2>3, <2>4, <2>5 DEF WorkerStep
<1>3. CASE UNCHANGED vars
  BY <1>3, StutterShape
<1> QED
  BY <1>1, <1>2, <1>3 DEF Next

\* The shape invariant holds of the engine, for any number of jobs, workers, entries,
\* failed calls and crashes.
THEOREM ShapeInvariant == Spec => []ShapeInv
<1>1. Init => ShapeInv
  BY InitShape
<1>2. ShapeInv /\ [Next]_vars => ShapeInv'
  BY NextShape
<1> QED
  BY <1>1, <1>2, PTL DEF Spec

\* Type correctness of the whole engine.
THEOREM TypeCorrect == Spec => []TypeOK
<1>1. ShapeInv => TypeOK
  BY DEF ShapeInv
<1> QED
  BY <1>1, ShapeInvariant, PTL

\* submit persists before it publishes: no pointer on the stream, first or
\* republished, ever names a job that has no row.
THEOREM PointersHaveRows == Spec => []PointerHasRow
<1>1. ShapeInv => PointerHasRow
  BY DEF ShapeInv
<1> QED
  BY <1>1, ShapeInvariant, PTL

\* Backpressure: although the count of XAUTOCLAIM and XREADGROUP is computed before
\* the await, no worker ever has more than worker_concurrency tasks in flight.
THEOREM Backpressure == Spec => []InFlightBounded
<1>1. ShapeInv => InFlightBounded
  BY LoopFacts DEF InFlightBounded
<1> QED
  BY <1>1, ShapeInvariant, PTL
=============================================================================
