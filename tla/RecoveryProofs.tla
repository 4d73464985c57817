--------------------------- MODULE RecoveryProofs ---------------------------
(***************************************************************************)
(* No accepted job is lost, whatever calls fail, whichever processes die   *)
(* and whenever they are told to stop: every entry is in the hands of one  *)
(* live process at most, and while its job is neither terminal nor         *)
(* dead-lettered, some entry still carries it.                             *)
(*                                                                         *)
(* The settings it takes are assumptions of the theorems: reclaim_idle_ms  *)
(* is above every run, the group was created before the first publish, and *)
(* no more entries are added than the work stream keeps.  The dead-letter  *)
(* stream may be trimmed.                                                  *)
(***************************************************************************)
EXTENDS DeadLetterProofs

\* What every case below starts from, field by field.
LEMMA RecoveryFacts ==
    ASSUME RecoveryInv
    PROVE  /\ ShapeInv /\ SafetyInv
           /\ stream \in StreamRecord
           /\ stream.first = 1 /\ stream.last \in Nat /\ stream.last <= Len(stream.log)
           /\ Len(stream.log) \in Nat /\ Len(stream.log) <= MaxEntries
           /\ rows \in [Jobs -> Job \cup {NoRow}]
           /\ loop \in [Workers -> LoopRecord]
           /\ tasks \in [Workers -> [Ids -> TaskRecord]]
<1>1. ShapeInv /\ SafetyInv /\ StreamKept
  BY DEF RecoveryInv, SafetyInv
<1>2. stream \in StreamRecord
  BY <1>1 DEF ShapeInv, TypeOK, StoresTypeOK, StreamRecord
<1>3. stream.first = 1 /\ stream.last \in Nat /\ stream.last <= Len(stream.log)
  BY <1>1 DEF StreamKept, ShapeInv, TypeOK, StoresTypeOK, NoGroup
<1>4. Len(stream.log) \in Nat /\ Len(stream.log) <= MaxEntries
  BY <1>1 DEF ShapeInv, TypeOK, StoresTypeOK
<1>5. /\ rows \in [Jobs -> Job \cup {NoRow}]
      /\ loop \in [Workers -> LoopRecord]
      /\ tasks \in [Workers -> [Ids -> TaskRecord]]
  BY <1>1 DEF ShapeInv, TypeOK, StoresTypeOK, WorkerTypeOK, LoopRecord, TaskRecord
<1> QED
  BY <1>1, <1>2, <1>3, <1>4, <1>5

LEMMA InitRecovery ==
    ASSUME GroupAtStart
    PROVE  Init => RecoveryInv
<1> SUFFICES ASSUME Init PROVE RecoveryInv
  OBVIOUS
<1>1. SafetyInv
  BY InitSafety
<1> USE DEF Init, StoresInit, IngestionInit, WorkerInit
<1>2. StreamKept
  BY DEF StreamKept, NoGroup
<1>3. InsertIsFirst
  BY DEF InsertIsFirst
<1>4. SpinIsForEver
  BY DEF SpinIsForEver, NoLoop
<1>5. HeldOnce /\ HeldIsPending
  BY DEF HeldOnce, HeldIsPending, Holds, Running, NoLoop
<1>6. AcceptedHasPointer /\ JobKept
  BY DEF AcceptedHasPointer, JobKept, Accepted
<1> QED
  BY <1>1, <1>2, <1>3, <1>4, <1>5, <1>6 DEF RecoveryInv

\* The three ways a step could lose a job: a terminal row is written over, an entry
\* no longer carries its job, a new entry does not.
LEMMA JobKeptFrom ==
    ASSUME RecoveryInv, HistoryKept, Len(stream.log) <= Len(stream'.log), Len(stream'.log) \in Nat,
           \A j \in Jobs : IsTerminal(rows[j]) =>
               IsTerminal(rows'[j]) \/ \E k \in 1 .. Len(stream'.log) : Carries(k, j)',
           \A j \in Jobs, k \in 1 .. Len(stream.log) : Carries(k, j) =>
               \/ IsTerminal(rows'[j]) \/ DeadLettered(j)'
               \/ \E m \in 1 .. Len(stream'.log) : Carries(m, j)',
           \A k \in (Len(stream.log) + 1) .. Len(stream'.log) : Carries(k, JobOf(k))'
    PROVE  JobKept'
<1> SUFFICES ASSUME NEW j \in Jobs, NEW i \in 1 .. Len(stream'.log), stream'.log[i].job = j
             PROVE  \/ IsTerminal(rows'[j]) \/ DeadLettered(j)'
                    \/ \E k \in 1 .. Len(stream'.log) : Carries(k, j)'
  BY DEF JobKept, JobOf
<1>0. Len(stream.log) \in Nat
  BY RecoveryFacts
<1>1. CASE i \in 1 .. Len(stream.log)
  <2>1. JobOf(i) = j
    BY <1>1 DEF HistoryKept, JobOf
  <2>2. IsTerminal(rows[j]) \/ DeadLettered(j) \/ \E k \in 1 .. Len(stream.log) : Carries(k, j)
    BY <1>1, <2>1 DEF RecoveryInv, JobKept
  <2>3. DeadLettered(j) => DeadLettered(j)'
    BY DEF DeadLettered, HistoryKept
  <2> QED
    BY <2>2, <2>3
<1>2. CASE i \in (Len(stream.log) + 1) .. Len(stream'.log)
  <2>1. JobOf(i)' = j
    BY DEF JobOf
  <2>2. Carries(i, JobOf(i))'
    BY <1>2
  <2>3. Carries(i, j)'
    BY <2>1, <2>2 DEF Carries
  <2> QED
    BY <2>3
<1> QED
  BY <1>0, <1>1, <1>2

-----------------------------------------------------------------------------
(* Steps of a task.                                                        *)

\* The task stops carrying its entry.
Settles(t) == t.pc = "ack" \/ (t.pc = "successFlush" /\ t.base.status = "success")

\* What a step of task i of w that makes it t owes to the job of its entry.
KeepsJob(w, i, t) ==
    \/ stream'.pel[i] = stream.pel[i] /\ ~Settles(t)
    \/ IsTerminal(rows'[JobOf(i)])
    \/ \E m \in DeadLetters' : m.job = JobOf(i)
    \/ Settling(i)
    \/ \E k \in 1 .. Len(stream'.log) :
          k # i /\ stream'.log[k].job = JobOf(i) /\ stream'.last < k /\ k \in Ids

TaskEffect(w, i, t) ==
    /\ i \in InFlight(w) /\ Running(w)
    /\ tasks' = [tasks EXCEPT ![w][i] = t]
    /\ UNCHANGED <<loop, requests>>
    /\ stream'.first = 1 /\ stream'.last = stream.last
    /\ Len(stream.log) <= Len(stream'.log)
    /\ \A k \in Ids : k # i => stream'.pel[k] = stream.pel[k]
    /\ t.pc \notin FailPcs \cup {"none"} =>
          tasks[w][i].pc \notin FailPcs /\ stream'.pel[i] = stream.pel[i]
    /\ \A j \in Jobs : rows[j] = NoRow => rows'[j] = NoRow
    /\ \A j \in Jobs : IsTerminal(rows[j]) /\ ~IsTerminal(rows'[j]) =>
          /\ j = JobOf(i) /\ tasks[w][i].pc \notin FailPcs
          /\ t.pc # "ack" /\ t.pc # "successFlush" /\ stream'.pel[i] = stream.pel[i]
    /\ KeepsJob(w, i, t)

\* Only the task that moves may begin to settle its entry.
LEMMA SettlingOfOthers ==
    ASSUME RecoveryInv, NEW w \in Workers, NEW i \in Ids, NEW t, TaskEffect(w, i, t),
           NEW k \in Ids, Settling(k)'
    PROVE  IF k = i THEN Settles(t) ELSE Settling(k)
<1>0. /\ tasks'[w][i] = t
      /\ \A v \in Workers, m \in Ids : ~(v = w /\ m = i) => tasks'[v][m] = tasks[v][m]
  <2>1. tasks \in [Workers -> [Ids -> TaskRecord]] /\ tasks' = [tasks EXCEPT ![w][i] = t]
    BY RecoveryFacts DEF TaskEffect
  <2> QED
    BY <2>1
<1>1. PICK v \in Workers : /\ Running(v)'
                           /\ \/ tasks'[v][k].pc = "ack"
                              \/ tasks'[v][k].pc = "successFlush" /\ tasks'[v][k].base.status = "success"
  BY DEF Settling
<1>3. Running(v)
  BY <1>1 DEF Running, TaskEffect
<1>4. CASE v = w /\ k = i
  BY <1>0, <1>1, <1>4 DEF Settles
<1>5. CASE ~(v = w /\ k = i)
  <2>1. tasks'[v][k] = tasks[v][k]
    BY <1>0, <1>5
  <2>2. Settling(k)
    BY <1>1, <1>3, <2>1 DEF Settling
  <2>3. k = i => v = w
    <3> SUFFICES ASSUME k = i PROVE v = w
      OBVIOUS
    <3>1. Holds(v, i)
      BY <1>1, <1>3, <2>1 DEF Holds, InFlight
    <3>2. Holds(w, i)
      BY DEF TaskEffect, Holds
    <3> QED
      BY <3>1, <3>2 DEF RecoveryInv, HeldOnce
  <2> QED
    BY <1>5, <2>2, <2>3
<1> QED
  BY <1>4, <1>5

\* The log that a step leaves behind, as far as the cases below need it.
LEMMA LogAfter ==
    ASSUME SafetyInv'
    PROVE  /\ Len(stream'.log) \in Nat /\ Len(stream'.log) <= MaxEntries
           /\ stream'.last \in Int
           /\ \A k \in Ids : k \in Int /\ stream'.pel[k] \in Nat
<1>1. StoresTypeOK'
  BY DEF SafetyInv, ShapeInv, TypeOK
<1>2. \A k \in Ids : k \in Int /\ stream'.pel[k] \in Nat
  BY <1>1, StreamAssumption DEF StoresTypeOK, DeliveryCounts, Ids
<1> QED
  BY <1>1, <1>2 DEF StoresTypeOK

LEMMA TaskKeepsJobs ==
    ASSUME RecoveryInv, SafetyInv', HistoryKept,
           NEW w \in Workers, NEW i \in Ids, NEW t, TaskEffect(w, i, t)
    PROVE  JobKept'
<1>1. /\ Len(stream.log) \in Nat /\ stream.last \in Nat /\ stream.last <= Len(stream.log)
      /\ stream.first = 1 /\ Len(stream.log) <= MaxEntries
  BY RecoveryFacts
<1>2. /\ Len(stream'.log) \in Nat /\ Len(stream'.log) <= MaxEntries
      /\ \A k \in Ids : k \in Int /\ stream'.pel[k] \in Nat
  BY LogAfter
<1>3. /\ stream'.first = 1 /\ stream'.last = stream.last
      /\ Len(stream.log) <= Len(stream'.log)
      /\ \A k \in Ids : k # i => stream'.pel[k] = stream.pel[k]
  BY DEF TaskEffect
<1>4. \A k \in 1 .. Len(stream.log) : JobOf(k)' = JobOf(k)
  BY DEF HistoryKept, JobOf
<1>5. i \in 1 .. Len(stream.log) /\ i <= stream.last
  <2>1. ShapeInv /\ i \in InFlight(w)
    BY RecoveryFacts DEF TaskEffect
  <2> QED
    BY <2>1, LoopFacts, RowOfEntry
<1>6. \A k \in 1 .. Len(stream.log) : k \in Ids /\ k \in 1 .. Len(stream'.log)
  BY <1>1, <1>2, <1>3, StreamAssumption DEF Ids
<1>7. ASSUME NEW j \in Jobs, IsTerminal(rows[j]), ~IsTerminal(rows'[j])
      PROVE  \E k \in 1 .. Len(stream'.log) : Carries(k, j)'
  <2>1. /\ j = JobOf(i) /\ tasks[w][i].pc \notin FailPcs
        /\ ~Settles(t) /\ stream'.pel[i] = stream.pel[i]
    BY <1>7 DEF TaskEffect, Settles
  <2>2. stream.pel[i] > 0
    BY <2>1 DEF TaskEffect, Holds, RecoveryInv, HeldIsPending
  <2>3. ~Settling(i)'
    BY <2>1, SettlingOfOthers
  <2>4. Carries(i, j)'
    BY <1>4, <1>5, <2>1, <2>2, <2>3 DEF Carries
  <2> QED
    BY <1>5, <1>6, <2>4
<1>8. ASSUME NEW k \in 1 .. Len(stream.log), k # i, Carries(k, JobOf(k)) PROVE Carries(k, JobOf(k))'
  <2>1. k \in Undelivered(stream) => k \in Undelivered(stream)'
    BY <1>1, <1>2, <1>3, <1>6 DEF Undelivered
  <2>2. stream.pel[k] > 0 /\ ~Settling(k) => stream'.pel[k] > 0 /\ ~Settling(k)'
    BY <1>3, <1>6, <1>8, SettlingOfOthers
  <2> QED
    BY <1>8, <2>1, <2>2 DEF Carries
<1>9. ASSUME Carries(i, JobOf(i))
      PROVE  \/ IsTerminal(rows'[JobOf(i)]) \/ DeadLettered(JobOf(i))'
             \/ \E m \in 1 .. Len(stream'.log) : Carries(m, JobOf(i))'
  <2>1. i \notin Undelivered(stream)
    BY <1>1, <1>2, <1>5 DEF Undelivered
  <2>2. stream.pel[i] > 0 /\ ~Settling(i)
    BY <1>9, <2>1 DEF Carries
  <2>3. ASSUME stream'.pel[i] = stream.pel[i], ~Settles(t)
        PROVE  Carries(i, JobOf(i))'
    <3>1. ~Settling(i)'
      BY <2>3, SettlingOfOthers
    <3> QED
      BY <1>4, <1>5, <2>2, <2>3, <3>1 DEF Carries
  <2>4. ASSUME NEW k \in 1 .. Len(stream'.log), k # i, stream'.log[k].job = JobOf(i),
               stream'.last < k, k \in Ids
        PROVE  Carries(k, JobOf(i))'
    <3>1. k \in Undelivered(stream)'
      BY <1>2, <1>3, <2>4 DEF Undelivered
    <3> QED
      BY <1>4, <1>5, <2>4, <3>1 DEF Carries, JobOf
  <2>5. (\E m \in DeadLetters' : m.job = JobOf(i)) => DeadLettered(JobOf(i))'
    BY <1>4, <1>5 DEF DeadLettered
  <2>6. Carries(i, JobOf(i))' => \E m \in 1 .. Len(stream'.log) : Carries(m, JobOf(i))'
    BY <1>4, <1>5, <1>6
  <2>7. KeepsJob(w, i, t)
    BY DEF TaskEffect
  <2> QED
    BY <1>4, <1>5, <2>2, <2>3, <2>4, <2>5, <2>6, <2>7 DEF KeepsJob
<1>10. ASSUME NEW k \in (Len(stream.log) + 1) .. Len(stream'.log)
       PROVE  Carries(k, JobOf(k))'
  <2>1. k \in Ids /\ k \in Int
    BY <1>1, <1>2, StreamAssumption DEF Ids
  <2>2. stream'.last < k /\ stream'.first <= k /\ k <= Len(stream'.log)
    BY <1>1, <1>2, <1>3, <2>1
  <2>3. k \in Undelivered(stream)'
    BY <2>1, <2>2 DEF Undelivered
  <2> QED
    BY <2>3 DEF Carries
<1>11. ASSUME NEW j \in Jobs, NEW k \in 1 .. Len(stream.log), Carries(k, j)
       PROVE  \/ IsTerminal(rows'[j]) \/ DeadLettered(j)'
              \/ \E m \in 1 .. Len(stream'.log) : Carries(m, j)'
  <2>1. j = JobOf(k) /\ Carries(k, JobOf(k))
    BY <1>11 DEF Carries
  <2>2. CASE k = i
    <3>1. JobOf(i)' = j
      BY <1>4, <1>5, <2>1, <2>2
    <3>2. DeadLettered(JobOf(i))' => DeadLettered(j)'
      BY <3>1 DEF DeadLettered
    <3>3. \A m \in 1 .. Len(stream'.log) : Carries(m, JobOf(i))' => Carries(m, j)'
      BY <3>1 DEF Carries
    <3> QED
      BY <1>9, <2>1, <2>2, <3>2, <3>3
  <2>3. CASE k # i
    <3>1. Carries(k, JobOf(k))'
      BY <1>8, <2>1, <2>3
    <3>2. Carries(k, j)'
      BY <1>4, <2>1, <3>1 DEF Carries
    <3> QED
      BY <1>6, <3>2
  <2> QED
    BY <2>2, <2>3
<1> QED
  BY <1>2, <1>3, <1>7, <1>10, <1>11, JobKeptFrom

\* The other parts of the invariant, for any step of a task with this effect.
LEMMA TaskRecovery ==
    ASSUME RecoveryInv, SafetyInv', HistoryKept,
           NEW w \in Workers, NEW i \in Ids, NEW t, TaskEffect(w, i, t)
    PROVE  RecoveryInv'
<1>0. /\ tasks'[w][i] = t
      /\ \A v \in Workers, k \in Ids : ~(v = w /\ k = i) => tasks'[v][k] = tasks[v][k]
      /\ \A v \in Workers : v # w => tasks'[v] = tasks[v]
  <2>1. tasks \in [Workers -> [Ids -> TaskRecord]] /\ tasks' = [tasks EXCEPT ![w][i] = t]
    BY RecoveryFacts DEF TaskEffect
  <2> QED
    BY <2>1
<1>1. /\ i \in InFlight(w) /\ Running(w) /\ Holds(w, i)
      /\ loop' = loop /\ requests' = requests
      /\ stream'.first = 1 /\ stream'.last = stream.last
      /\ \A k \in Ids : k # i => stream'.pel[k] = stream.pel[k]
      /\ \A j \in Jobs : rows[j] = NoRow => rows'[j] = NoRow
      /\ t.pc \notin FailPcs \cup {"none"} =>
            tasks[w][i].pc \notin FailPcs /\ stream'.pel[i] = stream.pel[i]
  BY DEF TaskEffect, Holds
<1>2. \A v \in Workers : InFlight(v)' \subseteq InFlight(v)
  BY <1>0, <1>1 DEF InFlight
<1>3. \A v \in Workers : Running(v)' = Running(v)
  BY <1>1 DEF Running
<1>4. StreamKept'
  BY <1>1 DEF RecoveryInv, StreamKept
<1>5. InsertIsFirst'
  BY <1>1 DEF RecoveryInv, InsertIsFirst
<1>6. SpinIsForEver'
  <2> SUFFICES ASSUME NEW v \in Workers, loop[v].pc = "spin"
               PROVE  FreeCapacity(Cardinality(InFlight(v)')) <= 0 /\ loop[v].stop # "set"
    BY <1>1 DEF SpinIsForEver, FreeCapacity
  <2>1. v # w
    BY <1>1 DEF Running
  <2>2. InFlight(v)' = InFlight(v)
    BY <1>0, <2>1 DEF InFlight
  <2> QED
    BY <2>2 DEF RecoveryInv, SpinIsForEver
<1>7. \A v \in Workers, k \in Ids : Holds(v, k)' => Holds(v, k)
  BY <1>1, <1>2, <1>3 DEF Holds
<1>8. HeldOnce'
  <2>1. \A v \in Workers : Running(v)' => loop'[v].claimed \cap InFlight(v)' = {}
    BY <1>1, <1>2, <1>3 DEF RecoveryInv, HeldOnce
  <2> QED
    BY <1>7, <2>1 DEF RecoveryInv, HeldOnce
<1>9. HeldIsPending'
  <2> SUFFICES ASSUME NEW v \in Workers, NEW k \in Ids, Holds(v, k)', tasks'[v][k].pc \notin FailPcs
               PROVE  stream'.pel[k] > 0
    BY DEF HeldIsPending
  <2>1. Holds(v, k)
    BY <1>7
  <2>2. CASE k = i
    <3>1. v = w
      BY <1>1, <2>1, <2>2 DEF RecoveryInv, HeldOnce
    <3>2. i \notin loop[w].claimed
      BY <1>1 DEF RecoveryInv, HeldOnce
    <3>3. i \in InFlight(w)'
      BY <1>1, <2>2, <3>1, <3>2 DEF Holds
    <3>4. t.pc \notin FailPcs \cup {"none"}
      BY <1>0, <2>2, <3>1, <3>3 DEF InFlight
    <3> QED
      BY <1>1, <2>1, <2>2, <3>1, <3>4 DEF RecoveryInv, HeldIsPending
  <2>3. CASE k # i
    BY <1>0, <1>1, <2>1, <2>3 DEF RecoveryInv, HeldIsPending
  <2> QED
    BY <2>2, <2>3
<1>10. AcceptedHasPointer'
  <2> SUFFICES ASSUME NEW j \in Jobs, Accepted(j)'
               PROVE  \E k \in 1 .. Len(stream'.log) : JobOf(k)' = j
    BY DEF AcceptedHasPointer
  <2>1. PICK k \in 1 .. Len(stream.log) : JobOf(k) = j
    BY <1>1 DEF RecoveryInv, AcceptedHasPointer, Accepted
  <2>2. JobOf(k)' = j
    BY <2>1 DEF HistoryKept, JobOf
  <2>3. k \in 1 .. Len(stream'.log)
    BY RecoveryFacts, LogAfter DEF TaskEffect
  <2> QED
    BY <2>2, <2>3
<1>11. JobKept'
  BY TaskKeepsJobs
<1> QED
  BY <1>4, <1>5, <1>6, <1>8, <1>9, <1>10, <1>11 DEF RecoveryInv

\* A step that only reads, or fails, moves its task.
LEMMA ReadingEffect ==
    ASSUME RecoveryInv, NEW w \in Workers, NEW i \in Ids, NEW t,
           i \in InFlight(w), Running(w), tasks' = [tasks EXCEPT ![w][i] = t],
           UNCHANGED <<rows, stream, loop, requests>>,
           t.pc \in FailPcs \cup {"none"} \/ tasks[w][i].pc \notin FailPcs,
           Settles(t) => IsTerminal(rows[JobOf(i)])
    PROVE  TaskEffect(w, i, t)
<1>1. stream.first = 1 /\ Len(stream.log) \in Nat
  BY RecoveryFacts
<1>2. KeepsJob(w, i, t)
  BY DEF KeepsJob
<1> QED
  BY <1>1, <1>2 DEF TaskEffect

LEMMA ReadingStepsEffect ==
    ASSUME RecoveryInv, NEW w \in Workers, NEW i \in Ids, UNCHANGED ingestionVars,
           \/ Guard(w, i) \/ Load(w, i) \/ UpdateSelect(w, i) \/ RequeueGet(w, i)
           \/ FailGet(w, i) \/ TaskError(w, i)
           \/ \E outcome \in Outcomes : RunPipeline(w, i, outcome)
    PROVE  \E t : TaskEffect(w, i, t)
<1> DEFINE row == rows[JobOf(i)]
           pc == tasks[w][i].pc
           T(p) == [pc |-> p, job |-> NoRow, base |-> NoRow]
<1> USE DEF Goto, SetTask
<1>1. i \in InFlight(w) /\ Running(w)
  BY DEF Guard, Load, UpdateSelect, RequeueGet, FailGet, TaskError, RunPipeline, At,
         InFlight, SelectPcs
<1>2. /\ ShapeInv /\ JobOf(i) \in Jobs /\ stream.log[i] \in JobMessage /\ row \in Job /\ row # NoRow
  BY <1>1, RecoveryFacts, RowOfEntry, JobNotNoRow
<1>3. UNCHANGED <<rows, stream, loop, requests>>
  BY DEF Guard, Load, UpdateSelect, RequeueGet, FailGet, TaskError, RunPipeline, storeVars, ingestionVars
<1>4. ASSUME NEW t, tasks' = [tasks EXCEPT ![w][i] = t],
             t.pc \in FailPcs \cup {"none"} \/ pc \notin FailPcs,
             Settles(t) => IsTerminal(row)
      PROVE  \E u : TaskEffect(w, i, u)
  BY <1>1, <1>3, <1>4, ReadingEffect
<1>5. CASE Guard(w, i)
  BY <1>2, <1>4, <1>5 DEF Guard, At, Skippable, Settles, FailPcs
<1>6. CASE Load(w, i)
  <2>1. CASE tasks' = [tasks EXCEPT ![w][i] = T("ack")] /\ IsTerminal(row)
    BY <1>4, <1>6, <2>1 DEF Load, At, FailPcs
  <2>2. CASE \E p \in {"startSelect", "dlq"} : \E job : SetTask(w, i, p, job, NoRow)
    BY <1>4, <1>6, <2>2 DEF Load, At, Settles, FailPcs
  <2> QED
    BY <1>2, <1>6, <2>1, <2>2 DEF Load, Skippable
<1>7. CASE UpdateSelect(w, i)
  <2> DEFINE t == [pc |-> FlushAfter(pc), job |-> tasks[w][i].job, base |-> row]
  <2>1. tasks' = [tasks EXCEPT ![w][i] = t] /\ pc \in SelectPcs
    BY <1>2, <1>7 DEF UpdateSelect, At
  <2>2. t.pc \in FailPcs \/ pc \notin FailPcs
    BY <2>1 DEF SelectPcs, FlushAfter, FailPcs
  <2>3. Settles(t) => IsTerminal(row)
    BY <2>1 DEF Settles, SelectPcs, FlushAfter, IsTerminal, Terminal
  <2> HIDE DEF t, pc
  <2> QED
    BY <1>4, <2>1, <2>2, <2>3
<1>8. CASE RequeueGet(w, i)
  BY <1>2, <1>4, <1>8 DEF RequeueGet, At, Settles, FailPcs
<1>9. CASE FailGet(w, i)
  BY <1>2, <1>4, <1>9 DEF FailGet, At, Settles, FailPcs
<1>10. CASE TaskError(w, i)
  <2>1. tasks' = [tasks EXCEPT ![w][i] = T(ErrorPc(pc))]
    BY <1>10 DEF TaskError
  <2>2. ErrorPc(pc) = "none" \/ (ErrorPc(pc) = "dlq" /\ pc \notin FailPcs)
    BY DEF ErrorPc, FailPcs
  <2> HIDE DEF pc
  <2> QED
    BY <1>4, <2>1, <2>2 DEF Settles
<1>11. CASE \E outcome \in Outcomes : RunPipeline(w, i, outcome)
  <2>1. \E p \in {"successSelect", "requeueGet", "dlq"} : \E job : SetTask(w, i, p, job, NoRow)
    BY <1>11 DEF RunPipeline, Outcomes, OnTransient
  <2> QED
    BY <1>4, <1>11, <2>1 DEF RunPipeline, At, Settles, FailPcs
<1> QED
  BY <1>5, <1>6, <1>7, <1>8, <1>9, <1>10, <1>11

\* An UPDATE takes a row out of a terminal state only for an attempt that goes on,
\* and the acknowledgement after mark_success finds the row terminal.
LEMMA UpdateFlushEffect ==
    ASSUME RecoveryInv, NEW w \in Workers, NEW i \in Ids, NEW r \in Replies, UNCHANGED ingestionVars,
           UpdateFlush(w, i, r)
    PROVE  \E t : TaskEffect(w, i, t)
<1> DEFINE t == tasks[w][i]
           row == rows[JobOf(i)]
           m == MergeInto(row, t.base, t.job)
           next == IF r = "ok" THEN AfterFlush(t.pc) ELSE ErrorPc(t.pc)
           u == [pc |-> next, job |-> IF next = "pipeline" THEN t.job ELSE NoRow, base |-> NoRow]
<1>1. i \in InFlight(w) /\ Running(w) /\ t.pc \in FlushPcs
  BY DEF UpdateFlush, At, InFlight, FlushPcs
<1>2. /\ ShapeInv /\ JobOf(i) \in Jobs /\ row # NoRow /\ rows \in [Jobs -> Job \cup {NoRow}]
      /\ stream.first = 1 /\ Len(stream.log) \in Nat
  BY <1>1, RecoveryFacts, RowOfEntry, JobNotNoRow
<1>3. /\ tasks' = [tasks EXCEPT ![w][i] = u] /\ rows' = [rows EXCEPT ![JobOf(i)] = m]
      /\ UNCHANGED <<stream, loop, requests>>
  BY DEF UpdateFlush, UpdateRow, SetTask, ingestionVars
<1>4. t.job.status = WrittenStatus[t.pc]
  BY <1>1, <1>2 DEF ShapeInv, TaskShape, WrittenStatus, FlushPcs
<1>5. m.status = IF t.job.status # t.base.status THEN t.job.status ELSE row.status
  BY DEF MergeInto
<1>6. /\ rows'[JobOf(i)].status = m.status
      /\ \A j \in Jobs : j # JobOf(i) => rows'[j] = rows[j]
  <2> HIDE DEF m
  <2> QED
    BY <1>2, <1>3
<1>7. /\ t.pc \notin {"startFlush", "requeueFlush"} => (IsTerminal(row) => IsTerminal(rows'[JobOf(i)]))
      /\ t.pc = "successFlush" => IsTerminal(rows'[JobOf(i)]) \/ t.base.status = "success"
  <2> HIDE DEF m, t, row
  <2> QED
    BY <1>1, <1>4, <1>5, <1>6 DEF IsTerminal, Terminal, WrittenStatus, FlushPcs
<1>8. /\ u.pc \notin FailPcs /\ u.pc # "successFlush"
      /\ u.pc = "ack" => t.pc = "successFlush"
      /\ t.pc = "failFlush" => u.pc = "none"
      /\ t.pc \in FailPcs => t.pc = "failFlush"
  BY <1>1 DEF AfterFlush, ErrorPc, FlushPcs, FailPcs
<1> HIDE DEF u, m, next
<1>9. ASSUME NEW j \in Jobs, IsTerminal(rows[j]), ~IsTerminal(rows'[j])
      PROVE  j = JobOf(i) /\ t.pc \notin FailPcs /\ u.pc # "ack"
  BY <1>6, <1>7, <1>8, <1>9
<1>10. \A j \in Jobs : rows[j] = NoRow => rows'[j] = NoRow
  BY <1>2, <1>6
<1>11. KeepsJob(w, i, u)
  <2>1. u.pc = "ack" => IsTerminal(rows'[JobOf(i)]) \/ Settling(i)
    BY <1>1, <1>7, <1>8 DEF Settling
  <2> QED
    BY <1>3, <1>8, <2>1 DEF KeepsJob, Settles
<1>12. /\ stream'.first = 1 /\ stream'.last = stream.last /\ Len(stream.log) <= Len(stream'.log)
       /\ \A k \in Ids : stream'.pel[k] = stream.pel[k]
  BY <1>2, <1>3
<1>13. TaskEffect(w, i, u)
  <2> HIDE DEF t
  <2> QED
    BY <1>1, <1>3, <1>8, <1>9, <1>10, <1>11, <1>12 DEF TaskEffect, t
<1> QED
  BY <1>13

\* While the stream may keep every entry there is, an XADD trims nothing.
LEMMA XaddTrimsNothing ==
    ASSUME MaxEntries <= MaxLen, RecoveryInv, NEW m \in JobMessage, Xadd(m)
    PROVE  /\ stream'.first = 1 /\ stream'.last = stream.last /\ stream'.pel = stream.pel
           /\ Len(stream'.log) = Len(stream.log) + 1
           /\ stream'.log[Len(stream.log) + 1] = m
           /\ Len(stream.log) + 1 \in Ids
<1>1. stream \in StreamRecord /\ stream.first = 1 /\ Len(stream.log) \in Nat
  BY RecoveryFacts
<1>2. PICK f \in TrimPoints(stream) : stream' = XAdd(stream, m, f)
  BY DEF Xadd
<1>3. Len(stream.log) < MaxEntries /\ MaxLen \in Nat /\ MaxEntries \in Nat
  BY StreamAssumption DEF Xadd
<1>4. f = 1
  <2>1. f \in 1 .. (Len(stream.log) + 1) /\ (f = 1 \/ Len(stream.log) + 2 - f >= MaxLen)
    BY <1>1, <1>2 DEF TrimPoints
  <2> QED
    BY <1>1, <1>3, <2>1
<1>5. stream' = [stream EXCEPT !.log = Append(stream.log, m), !.first = f]
  BY <1>2 DEF XAdd
<1>6. /\ stream'.log = Append(stream.log, m) /\ stream'.first = f
      /\ stream'.last = stream.last /\ stream'.pel = stream.pel
  BY <1>1, <1>5 DEF StreamRecord
<1>7. stream.log \in Seq(JobMessage)
  BY <1>1 DEF StreamRecord
<1> QED
  BY <1>1, <1>3, <1>4, <1>6, <1>7 DEF Ids

LEMMA XAckEffect ==
    ASSUME RecoveryInv, NEW i \in Ids, stream' = XAck(stream, i)
    PROVE  /\ stream'.first = 1 /\ stream'.last = stream.last /\ stream'.log = stream.log
           /\ stream'.pel[i] = 0
           /\ \A k \in Ids : k # i => stream'.pel[k] = stream.pel[k]
<1>1. stream \in StreamRecord /\ stream.first = 1
  BY RecoveryFacts
<1>2. stream' = [stream EXCEPT !.pel = [stream.pel EXCEPT ![i] = 0]]
  BY DEF XAck
<1>3. /\ stream'.first = 1 /\ stream'.last = stream.last /\ stream'.log = stream.log
      /\ stream'.pel = [stream.pel EXCEPT ![i] = 0]
  BY <1>1, <1>2 DEF StreamRecord
<1> QED
  BY <1>1, <1>3 DEF StreamRecord

\* The republished entry, the terminal row, or the dead-letter stream takes over.
LEMMA WritingStepsEffect ==
    ASSUME MaxEntries <= MaxLen, RecoveryInv, NEW w \in Workers, NEW i \in Ids, NEW r \in Replies,
           UNCHANGED ingestionVars,
           Republish(w, i, r) \/ Ack(w, i, r) \/ DeadLetter(w, i, r) \/ DlqAck(w, i, r)
    PROVE  \E t : TaskEffect(w, i, t)
<1> DEFINE T(p) == [pc |-> p, job |-> NoRow, base |-> NoRow]
<1> USE DEF Goto, SetTask
<1>1. i \in InFlight(w) /\ Running(w)
  BY DEF Republish, Ack, DeadLetter, DlqAck, At, InFlight
<1>2. /\ ShapeInv /\ JobOf(i) \in Jobs /\ stream.log[i] \in JobMessage /\ i \in 1 .. Len(stream.log)
      /\ stream.first = 1 /\ Len(stream.log) \in Nat
      /\ stream.last \in Nat /\ stream.last <= Len(stream.log)
  BY <1>1, RecoveryFacts, RowOfEntry
<1>3. UNCHANGED <<rows, loop, requests>>
  BY DEF Republish, Ack, DeadLetter, DlqAck, ingestionVars
<1>4. ASSUME NEW p, tasks' = [tasks EXCEPT ![w][i] = T(p)],
             p \in FailPcs \cup {"none"} \/ (tasks[w][i].pc \notin FailPcs /\ stream'.pel[i] = stream.pel[i]),
             stream'.first = 1, stream'.last = stream.last, Len(stream.log) <= Len(stream'.log),
             \A k \in Ids : k # i => stream'.pel[k] = stream.pel[k],
             KeepsJob(w, i, T(p))
      PROVE  \E u : TaskEffect(w, i, u)
  <2>1. TaskEffect(w, i, T(p))
    BY <1>1, <1>3, <1>4 DEF TaskEffect
  <2> QED
    BY <2>1
<1>5. CASE Republish(w, i, r)
  <2>1. tasks[w][i].pc = "republish" /\ \E p \in {"ack", "none"} : tasks' = [tasks EXCEPT ![w][i] = T(p)]
    BY <1>5 DEF Republish, At
  <2>2. stream.log[i].attempt < MaxAttempts
    BY <1>2, <2>1 DEF ShapeInv, TaskShape, RetryPcs
  <2>3. NextAttempt(stream.log[i]) \in JobMessage /\ NextAttempt(stream.log[i]).job = JobOf(i)
    BY <1>2, <2>2, StoresAssumption DEF NextAttempt, JobMessage, JobOf
  <2> DEFINE k == Len(stream.log) + 1
  <2>4. /\ stream'.first = 1 /\ stream'.last = stream.last /\ stream'.pel = stream.pel
        /\ Len(stream'.log) = k /\ stream'.log[k].job = JobOf(i) /\ k \in Ids
    BY <1>5, <2>3, XaddTrimsNothing DEF Republish
  <2>5. k \in 1 .. Len(stream'.log) /\ k # i /\ stream'.last < k /\ Len(stream.log) <= Len(stream'.log)
    BY <1>2, <2>4
  <2>6. \A p : KeepsJob(w, i, T(p))
    <3> HIDE DEF k
    <3> QED
      BY <2>4, <2>5 DEF KeepsJob
  <2>7. tasks[w][i].pc \notin FailPcs
    BY <2>1 DEF FailPcs
  <2> HIDE DEF k
  <2> QED
    BY <1>4, <2>1, <2>4, <2>5, <2>6, <2>7
<1>6. CASE Ack(w, i, r)
  <2>1. Settling(i)
    BY <1>6 DEF Ack, At, Settling
  <2>2. tasks' = [tasks EXCEPT ![w][i] = T("none")] /\ stream' = XAck(stream, i)
    BY <1>6 DEF Ack
  <2>3. KeepsJob(w, i, T("none"))
    BY <2>1 DEF KeepsJob
  <2>4. /\ stream'.first = 1 /\ stream'.last = stream.last /\ Len(stream.log) <= Len(stream'.log)
        /\ \A k \in Ids : k # i => stream'.pel[k] = stream.pel[k]
    BY <1>2, <2>2, XAckEffect
  <2> HIDE DEF T
  <2> QED
    BY <1>4, <2>2, <2>3, <2>4
<1>7. CASE DeadLetter(w, i, r)
  <2>1. /\ tasks[w][i].pc = "dlq" /\ stream' = stream
        /\ \E p \in {"dlqAck", "none"} : tasks' = [tasks EXCEPT ![w][i] = T(p)]
    BY <1>7 DEF DeadLetter, At
  <2>2. tasks[w][i].pc \notin FailPcs /\ \A p \in {"dlqAck", "none"} : KeepsJob(w, i, T(p))
    BY <2>1 DEF FailPcs, KeepsJob, Settles
  <2>3. /\ stream'.first = 1 /\ stream'.last = stream.last /\ Len(stream.log) <= Len(stream'.log)
        /\ \A k \in Ids : stream'.pel[k] = stream.pel[k]
    BY <1>2, <2>1
  <2> HIDE DEF T
  <2> QED
    BY <1>4, <2>1, <2>2, <2>3
<1>8. CASE DlqAck(w, i, r)
  <2>1. /\ tasks[w][i].pc = "dlqAck" /\ stream' = XAck(stream, i) /\ dlq' = dlq
        /\ \E p \in {"failGet", "none"} : tasks' = [tasks EXCEPT ![w][i] = T(p)]
    BY <1>8 DEF DlqAck, At
  <2>2. stream.log[i] \in DeadLetters'
    BY <2>1, DeadLettersStay DEF RecoveryInv, SafetyInv, DlqBeforeAck
  <2>3. \A p : KeepsJob(w, i, T(p))
    BY <2>2 DEF KeepsJob, JobOf
  <2>4. \A p \in {"failGet", "none"} : p \in FailPcs \cup {"none"}
    BY DEF FailPcs
  <2>5. /\ stream'.first = 1 /\ stream'.last = stream.last /\ Len(stream.log) <= Len(stream'.log)
        /\ \A k \in Ids : k # i => stream'.pel[k] = stream.pel[k]
    BY <1>2, <2>1, XAckEffect
  <2> HIDE DEF T
  <2> QED
    BY <1>4, <2>1, <2>3, <2>4, <2>5
<1> QED
  BY <1>5, <1>6, <1>7, <1>8

LEMMA TaskStepRecovery ==
    ASSUME MaxEntries <= MaxLen, RecoveryInv, SafetyInv', HistoryKept,
           NEW w \in Workers, NEW i \in Ids, TaskStep(w, i) \/ TaskError(w, i), UNCHANGED ingestionVars
    PROVE  RecoveryInv'
<1>1. \E t : TaskEffect(w, i, t)
  BY ReadingStepsEffect, UpdateFlushEffect, WritingStepsEffect DEF TaskStep
<1> QED
  BY <1>1, TaskRecovery

-----------------------------------------------------------------------------
(* Steps of the consume loop.                                              *)

\* The loop of w becomes l and dispatches ids. What it takes hold of is pending, and
\* either it had claimed it or nobody held it; what it acknowledges it had claimed,
\* and is in the dead-letter stream; what it reads is pending from then on.
LoopEffect(w, l, ids) ==
    /\ SetLoop(w, l) /\ Dispatch(w, ids) /\ ids \in SUBSET Ids /\ l.claimed \in SUBSET Ids
    /\ UNCHANGED <<rows, requests>>
    /\ stream'.log = stream.log /\ stream'.first = 1
    /\ stream.last <= stream'.last /\ stream'.last \in Int
    /\ \A k \in ids \cup l.claimed :
          /\ (Running(w) /\ k \in loop[w].claimed) \/ ~Held(k)
          /\ stream'.pel[k] > 0
    /\ l.claimed \cap (InFlight(w) \cup ids) = {}
    /\ Running(w) \/ l.pc \in {"down", "stopped", "spin"} \/ InFlight(w) = {}
    /\ \A k \in Ids : stream.pel[k] > 0 =>
          \/ stream'.pel[k] > 0
          \/ /\ Running(w) /\ k \in loop[w].claimed /\ k \notin l.claimed \cup ids
             /\ stream.log[k] \in DeadLetters'
    /\ \A k \in Undelivered(stream) : k \in Undelivered(stream)' \/ stream'.pel[k] > 0
    /\ l.pc = "spin" => /\ FreeCapacity(Cardinality(InFlight(w) \cup ids)) <= 0
                        /\ l.stop # "set"

LEMMA LoopMoveFacts ==
    ASSUME RecoveryInv, NEW w \in Workers, NEW l, NEW ids, LoopEffect(w, l, ids)
    PROVE  /\ loop'[w] = l /\ \A v \in Workers : v # w => loop'[v] = loop[v]
           /\ \A k \in ids : tasks'[w][k].pc = "guard"
           /\ \A v \in Workers, k \in Ids : ~(v = w /\ k \in ids) => tasks'[v][k] = tasks[v][k]
           /\ InFlight(w)' = InFlight(w) \cup ids
           /\ \A v \in Workers : v # w => InFlight(v)' = InFlight(v)
<1>1. loop \in [Workers -> LoopRecord] /\ ShapeInv /\ ids \in SUBSET Ids
  BY RecoveryFacts DEF LoopEffect
<1>2. loop' = [loop EXCEPT ![w] = l]
  BY DEF LoopEffect, SetLoop
<1>3. /\ \A k \in ids \cap Ids : tasks'[w][k].pc = "guard"
      /\ \A v \in Workers, k \in Ids : ~(v = w /\ k \in ids) => tasks'[v][k] = tasks[v][k]
  BY <1>1, DispatchEffect DEF LoopEffect
<1>4. InFlight(w)' = InFlight(w) \cup ids
  BY <1>1, <1>3 DEF InFlight
<1>5. \A v \in Workers : v # w => InFlight(v)' = InFlight(v)
  BY <1>1, <1>3 DEF InFlight
<1> QED
  BY <1>1, <1>2, <1>3, <1>4, <1>5

LEMMA LoopRecovery ==
    ASSUME RecoveryInv, SafetyInv', HistoryKept,
           NEW w \in Workers, NEW l, NEW ids, LoopEffect(w, l, ids)
    PROVE  RecoveryInv'
<1>1. /\ loop'[w] = l /\ \A v \in Workers : v # w => loop'[v] = loop[v]
      /\ \A k \in ids : tasks'[w][k].pc = "guard"
      /\ \A v \in Workers, k \in Ids : ~(v = w /\ k \in ids) => tasks'[v][k] = tasks[v][k]
      /\ InFlight(w)' = InFlight(w) \cup ids
      /\ \A v \in Workers : v # w => InFlight(v)' = InFlight(v)
  BY LoopMoveFacts
<1>2. /\ ids \in SUBSET Ids /\ l.claimed \in SUBSET Ids /\ rows' = rows /\ requests' = requests
      /\ stream'.log = stream.log /\ stream'.first = 1
      /\ stream.last <= stream'.last /\ stream'.last \in Int
  BY DEF LoopEffect
<1>3. \A k \in ids \cup l.claimed :
          /\ (Running(w) /\ k \in loop[w].claimed) \/ ~Held(k)
          /\ stream'.pel[k] > 0
  BY DEF LoopEffect
<1>4. /\ l.claimed \cap (InFlight(w) \cup ids) = {}
      /\ Running(w) \/ l.pc \in {"down", "stopped", "spin"} \/ InFlight(w) = {}
  BY DEF LoopEffect
<1>5. \A k \in Ids : stream.pel[k] > 0 =>
          \/ stream'.pel[k] > 0
          \/ /\ Running(w) /\ k \in loop[w].claimed /\ k \notin l.claimed \cup ids
             /\ stream.log[k] \in DeadLetters'
  BY DEF LoopEffect
<1>6. \A k \in Undelivered(stream) : k \in Undelivered(stream)' \/ stream'.pel[k] > 0
  BY DEF LoopEffect
<1>7. /\ stream.last \in Nat /\ Len(stream.log) \in Nat /\ ShapeInv
      /\ \A k \in 1 .. Len(stream.log) : JobOf(k)' = JobOf(k)
  BY <1>2, RecoveryFacts DEF JobOf
<1>8. \A v \in Workers, k \in Ids : k \in InFlight(v) /\ Running(v)' => Running(v)
  BY <1>1, <1>4 DEF Running
<1>9. StreamKept'
  BY <1>2, <1>7 DEF StreamKept, NoGroup
<1>10. InsertIsFirst' /\ AcceptedHasPointer'
  BY <1>2, <1>7 DEF RecoveryInv, InsertIsFirst, AcceptedHasPointer, Accepted
<1>11. SpinIsForEver'
  <2> SUFFICES ASSUME NEW v \in Workers, loop'[v].pc = "spin"
               PROVE  FreeCapacity(Cardinality(InFlight(v)')) <= 0 /\ loop'[v].stop # "set"
    BY DEF SpinIsForEver, FreeCapacity
  <2>1. CASE v = w
    BY <1>1, <2>1 DEF LoopEffect
  <2>2. CASE v # w
    BY <1>1, <2>2 DEF RecoveryInv, SpinIsForEver
  <2> QED
    BY <2>1, <2>2
<1>12. ASSUME NEW v \in Workers, NEW k \in Ids, Holds(v, k)'
       PROVE  Holds(v, k) \/ (v = w /\ k \in ids \cup l.claimed /\ ~Held(k))
  <2>1. Running(v)' /\ (k \in InFlight(v)' \/ k \in loop'[v].claimed)
    BY <1>12 DEF Holds
  <2>2. CASE v # w
    BY <1>1, <2>1, <2>2 DEF Holds, Running
  <2>3. CASE v = w /\ k \in ids \cup l.claimed
    BY <1>3, <2>3 DEF Holds
  <2>4. CASE v = w /\ k \notin ids \cup l.claimed
    BY <1>1, <1>8, <2>1, <2>4 DEF Holds
  <2> QED
    BY <2>2, <2>3, <2>4
<1>13. HeldOnce'
  <2>1. ASSUME NEW k \in Ids, NEW u \in Workers, NEW v \in Workers, Holds(u, k)', Holds(v, k)'
        PROVE  u = v
    <3>1. \A x \in Workers : Holds(x, k) => Held(k)
      BY DEF Holds, Held
    <3> QED
      BY <1>12, <2>1, <3>1 DEF RecoveryInv, HeldOnce
  <2>2. ASSUME NEW v \in Workers, Running(v)' PROVE loop'[v].claimed \cap InFlight(v)' = {}
    <3>1. CASE v = w
      BY <1>1, <1>4, <3>1
    <3>2. CASE v # w
      BY <1>1, <2>2, <3>2 DEF RecoveryInv, HeldOnce, Running
    <3> QED
      BY <3>1, <3>2
  <2> QED
    BY <2>1, <2>2 DEF HeldOnce
<1>14. HeldIsPending'
  <2> SUFFICES ASSUME NEW v \in Workers, NEW k \in Ids, Holds(v, k)', tasks'[v][k].pc \notin FailPcs
               PROVE  stream'.pel[k] > 0
    BY DEF HeldIsPending
  <2>1. CASE v = w /\ k \in ids \cup l.claimed
    BY <1>3, <2>1
  <2>2. CASE ~(v = w /\ k \in ids \cup l.claimed)
    <3>1. Holds(v, k) /\ tasks'[v][k] = tasks[v][k]
      BY <1>1, <1>12, <2>2
    <3>2. stream.pel[k] > 0
      BY <3>1 DEF RecoveryInv, HeldIsPending
    <3>3. ASSUME Running(w), k \in loop[w].claimed PROVE FALSE
      <4>1. v = w /\ k \notin InFlight(w)
        BY <3>1, <3>3 DEF RecoveryInv, HeldOnce, Holds
      <4> QED
        BY <1>1, <2>2, <4>1 DEF Holds
    <3> QED
      BY <1>5, <3>2, <3>3
  <2> QED
    BY <2>1, <2>2
<1>15. ASSUME NEW k \in Ids, Settling(k)' PROVE Settling(k) /\ k <= stream.last
  <2>1. PICK v \in Workers : /\ Running(v)'
                             /\ \/ tasks'[v][k].pc = "ack"
                                \/ tasks'[v][k].pc = "successFlush" /\ tasks'[v][k].base.status = "success"
    BY <1>15 DEF Settling
  <2>2. tasks'[v][k] = tasks[v][k]
    BY <1>1, <2>1
  <2>3. k \in InFlight(v)
    BY <2>1, <2>2 DEF InFlight
  <2>4. Running(v)
    BY <1>8, <2>1, <2>3
  <2> QED
    BY <1>7, <2>1, <2>2, <2>3, <2>4, LoopFacts DEF Settling
<1>16. JobKept'
  <2>1. ASSUME NEW j \in Jobs, NEW k \in 1 .. Len(stream.log), Carries(k, j)
        PROVE  DeadLettered(j)' \/ Carries(k, j)'
    <3>1. JobOf(k) = j /\ JobOf(k)' = j /\ k \in Ids
      BY <1>7, <2>1, RecoveryFacts, StreamAssumption DEF Carries, Ids
    <3>2. CASE k \in Undelivered(stream)
      <4>1. ~Settling(k)'
        BY <1>7, <1>15, <3>1, <3>2 DEF Undelivered, Ids
      <4> QED
        BY <1>6, <3>1, <3>2, <4>1 DEF Carries
    <3>3. CASE stream.pel[k] > 0 /\ ~Settling(k)
      <4>1. ~Settling(k)'
        BY <1>15, <3>1, <3>3
      <4>2. stream'.pel[k] > 0 \/ stream.log[k] \in DeadLetters'
        BY <1>5, <3>1, <3>3
      <4>3. stream.log[k] \in DeadLetters' => DeadLettered(j)'
        BY <3>1 DEF DeadLettered, JobOf
      <4> QED
        BY <3>1, <4>1, <4>2, <4>3 DEF Carries
    <3> QED
      BY <2>1, <3>2, <3>3 DEF Carries
  <2> QED
    BY <1>2, <1>7, <2>1, JobKeptFrom
<1> QED
  BY <1>9, <1>10, <1>11, <1>13, <1>14, <1>16 DEF RecoveryInv

LEMMA LoopAtFacts ==
    ASSUME NEW l \in LoopRecord, NEW pc, NEW C, NEW n
    PROVE  /\ LoopAt(l, pc, C, n).pc = pc
           /\ LoopAt(l, pc, C, n).claimed = C
           /\ LoopAt(l, pc, C, n).stop = l.stop
BY DEF LoopAt, LoopRecord

\* A pass that suspends nowhere was not asked to stop and has no capacity.
LEMMA NextPassFacts ==
    ASSUME NEW l \in LoopRecord, NEW n \in Int
    PROVE  /\ NextPass(l, n).claimed = {}
           /\ NextPass(l, n).pc = "spin" => FreeCapacity(n) <= 0 /\ NextPass(l, n).stop # "set"
           /\ l.stop # "set" /\ ~(FreeCapacity(n) > 0) => NextPass(l, n).pc = "spin"
<1> DEFINE p == NextPass(l, n)
           c == FreeCapacity(n)
<1>0. c \in Int
  BY WorkerAssumption DEF FreeCapacity
<1>1. CASE l.stop = "set"
  <2>1. p = LoopAt(l, "drain", {}, 0)
    BY <1>1 DEF NextPass
  <2> QED
    BY <1>1, <2>1, LoopAtFacts
<1>2. CASE l.stop # "set" /\ c > 0
  <2>1. p = LoopAt(l, "reclaim", {}, c)
    BY <1>2 DEF NextPass
  <2> QED
    BY <1>2, <2>1, LoopAtFacts
<1>3. CASE l.stop # "set" /\ ~(c > 0)
  <2>1. p = LoopAt(l, "spin", {}, 0)
    BY <1>3 DEF NextPass
  <2>2. p.claimed = {} /\ p.stop = l.stop /\ p.pc = "spin"
    BY <2>1, LoopAtFacts
  <2> HIDE DEF p, c
  <2>3. c <= 0
    BY <1>0, <1>3
  <2> QED
    BY <1>3, <2>2, <2>3 DEF p, c
<1> QED
  BY <1>1, <1>2, <1>3

LEMMA NextClaimedFacts ==
    ASSUME NEW l \in LoopRecord, NEW C \in SUBSET Ids, NEW F \in SUBSET Ids
    PROVE  /\ NextClaimed(l, C, F).claimed \subseteq C
           /\ NextClaimed(l, C, F).pc = "spin" =>
                 FreeCapacity(Cardinality(F)) <= 0 /\ NextClaimed(l, C, F).stop # "set"
<1> DEFINE left == StillToHandle(C, F)
           n == Cardinality(F)
           p == NextClaimed(l, C, F)
<1>1. n \in Int /\ left \subseteq C
  BY IdsFinite DEF StillToHandle
<1>2. CASE left # {}
  <2>1. p = LoopAt(l, "xpending", left, 0)
    BY <1>2 DEF NextClaimed
  <2> HIDE DEF left, p
  <2>2. p.claimed = left /\ p.pc = "xpending"
    BY <2>1, LoopAtFacts
  <2> QED
    BY <1>1, <2>2 DEF p
<1>3. CASE left = {} /\ FreeCapacity(n) > 0
  <2>1. p = LoopAt(l, "read", {}, FreeCapacity(n))
    BY <1>3 DEF NextClaimed
  <2> HIDE DEF left, p, n
  <2>2. p.claimed = {} /\ p.pc = "read"
    BY <2>1, LoopAtFacts
  <2> QED
    BY <2>2 DEF p
<1>4. CASE left = {} /\ ~(FreeCapacity(n) > 0)
  <2>1. p = NextPass(l, n)
    BY <1>4 DEF NextClaimed
  <2> QED
    BY <1>1, <2>1, NextPassFacts
<1> QED
  BY <1>2, <1>3, <1>4

\* What a loop has claimed and not handled yet is pending and not in flight.
LEMMA ClaimedFacts ==
    ASSUME RecoveryInv, NEW w \in Workers
    PROVE  /\ loop[w].claimed \in SUBSET Ids
           /\ loop[w].claimed \cap InFlight(w) = {}
           /\ \A k \in loop[w].claimed : Running(w) /\ stream.pel[k] > 0
<1>1. ShapeInv /\ loop[w].claimed \in SUBSET Ids
  BY RecoveryFacts, LoopFacts
<1>2. loop[w].claimed # {} => Running(w)
  BY <1>1 DEF ShapeInv, LoopShape, Running
<1>3. loop[w].claimed \cap InFlight(w) = {}
  BY <1>2 DEF RecoveryInv, HeldOnce
<1>4. ASSUME NEW k \in loop[w].claimed PROVE stream.pel[k] > 0
  <2>1. tasks[w][k].pc = "none" /\ k \in Ids
    BY <1>1, <1>3 DEF InFlight
  <2>2. Holds(w, k)
    BY <1>2 DEF Holds
  <2>3. tasks[w][k].pc \notin FailPcs
    BY <2>1 DEF FailPcs
  <2> QED
    BY <2>1, <2>2, <2>3 DEF RecoveryInv, HeldIsPending
<1> QED
  BY <1>1, <1>2, <1>3, <1>4

\* A loop that moves on with what it had claimed, or with nothing, and dispatches
\* nothing.
LEMMA TurnEffect ==
    ASSUME RecoveryInv, NEW w \in Workers, UNCHANGED <<rows, stream, requests, tasks>>,
           NEW l, SetLoop(w, l), l.claimed \in {{}, loop[w].claimed},
           Running(w) \/ l.pc \in {"down", "stopped", "spin"} \/ InFlight(w) = {},
           l.pc = "spin" => FreeCapacity(Cardinality(InFlight(w))) <= 0 /\ l.stop # "set"
    PROVE  LoopEffect(w, l, {})
<1>1. /\ loop[w].claimed \in SUBSET Ids
      /\ loop[w].claimed \cap InFlight(w) = {}
      /\ \A k \in loop[w].claimed : Running(w) /\ stream.pel[k] > 0
  BY ClaimedFacts
<1>2. Dispatch(w, {}) /\ InFlight(w) \cup {} = InFlight(w) /\ {} \cup l.claimed = l.claimed
  BY RecoveryFacts, NoDispatch
<1>3. stream.first = 1 /\ stream.last \in Int /\ stream.last <= stream.last
  BY RecoveryFacts
<1>4. l.claimed \in SUBSET loop[w].claimed
  OBVIOUS
<1>5. \A k \in Undelivered(stream) : k \in Undelivered(stream)'
  BY DEF Undelivered
<1> QED
  BY <1>1, <1>2, <1>3, <1>4, <1>5 DEF LoopEffect

LEMMA BackOffFacts ==
    ASSUME RecoveryInv, NEW w \in Workers
    PROVE  /\ LoopAt(loop[w], "sleep", {}, 0).claimed = {}
           /\ LoopAt(loop[w], "sleep", {}, 0).pc = "sleep"
BY RecoveryFacts, LoopAtFacts

\* Steps that leave the servers alone and dispatch nothing.
LEMMA TurningStepsEffect ==
    ASSUME RecoveryInv, NEW w \in Workers, UNCHANGED ingestionVars,
           \/ Boot(w) \/ ReadTimeout(w) \/ WakeUp(w) \/ DrainDone(w) \/ SpinPass(w)
           \/ LoopError(w) \/ Sigterm(w) \/ SetStop(w)
    PROVE  \E l : LoopEffect(w, l, {})
<1> DEFINE n == Cardinality(InFlight(w))
<1>1. /\ loop[w] \in LoopRecord /\ ShapeInv /\ n \in Int
  BY RecoveryFacts, LoopFacts
<1>2. UNCHANGED <<rows, stream, requests, tasks>>
  BY DEF Boot, ReadTimeout, WakeUp, DrainDone, SpinPass, LoopError, Sigterm, SetStop, storeVars, ingestionVars
<1>3. ASSUME NEW l, SetLoop(w, l), l.claimed \in {{}, loop[w].claimed},
             Running(w) \/ l.pc \in {"down", "stopped", "spin"} \/ InFlight(w) = {},
             l.pc = "spin" => FreeCapacity(n) <= 0 /\ l.stop # "set"
      PROVE  \E q : LoopEffect(w, q, {})
  BY <1>2, <1>3, TurnEffect
<1>4. loop[w].pc = "spin" => FreeCapacity(n) <= 0 /\ loop[w].stop # "set" /\ loop[w].claimed = {}
  BY <1>1 DEF RecoveryInv, SpinIsForEver, ShapeInv, LoopShape
<1>5. ASSUME SetLoop(w, NextPass(loop[w], n)), Running(w) \/ loop[w].pc = "spin"
      PROVE  \E q : LoopEffect(w, q, {})
  <2> DEFINE p == NextPass(loop[w], n)
  <2>1. /\ p.claimed = {}
        /\ p.pc = "spin" => FreeCapacity(n) <= 0 /\ p.stop # "set"
        /\ loop[w].stop # "set" /\ ~(FreeCapacity(n) > 0) => p.pc = "spin"
    BY <1>1, NextPassFacts
  <2>2. loop[w].pc = "spin" => p.pc = "spin"
    <3>1. FreeCapacity(n) \in Int
      BY <1>1, WorkerAssumption DEF FreeCapacity
    <3> HIDE DEF p, n
    <3> QED
      BY <1>4, <2>1, <3>1
  <2>3. SetLoop(w, p)
    BY <1>5
  <2> HIDE DEF p, n
  <2> QED
    BY <1>3, <1>5, <2>1, <2>2, <2>3
<1>6. CASE ReadTimeout(w) \/ WakeUp(w) \/ SpinPass(w)
  BY <1>5, <1>6 DEF ReadTimeout, WakeUp, SpinPass, Running
<1>7. CASE Boot(w)
  <2> DEFINE q == [NoLoop EXCEPT !.pc = "boot"]
  <2>1. SetLoop(w, q) /\ q.claimed = {} /\ q.pc = "boot"
    BY <1>7 DEF Boot, NoLoop
  <2>2. InFlight(w) = {}
    BY <1>1, <1>7 DEF Boot, ShapeInv, LoopShape
  <2> HIDE DEF q, n
  <2> QED
    BY <1>3, <2>1, <2>2
<1>8. CASE DrainDone(w)
  <2> DEFINE q == [loop[w] EXCEPT !.pc = "stopped"]
  <2>1. SetLoop(w, q) /\ q.claimed = loop[w].claimed /\ q.pc = "stopped"
    BY <1>1, <1>8 DEF DrainDone, LoopRecord
  <2> HIDE DEF q, n
  <2> QED
    BY <1>3, <2>1
<1>9. CASE LoopError(w)
  <2> DEFINE q == LoopAt(loop[w], "sleep", {}, 0)
  <2>1. SetLoop(w, q) \/ SetLoop(w, NoLoop)
    BY <1>9 DEF LoopError, BackOff
  <2>2. q.claimed = {} /\ q.pc = "sleep" /\ NoLoop.claimed = {} /\ NoLoop.pc = "down"
    BY BackOffFacts DEF NoLoop
  <2>3. Running(w)
    BY <1>9 DEF LoopError, Running
  <2> HIDE DEF q, n
  <2> QED
    BY <1>3, <2>1, <2>2, <2>3
<1>10. CASE Sigterm(w) \/ SetStop(w)
  <2>1. PICK s : /\ SetLoop(w, [loop[w] EXCEPT !.stop = s])
                 /\ s = "sent" \/ Running(w)
                 /\ loop[w].pc \notin {"down", "stopped"}
    BY <1>10 DEF Sigterm, SetStop, Running
  <2> DEFINE q == [loop[w] EXCEPT !.stop = s]
  <2>2. SetLoop(w, q) /\ q.claimed = loop[w].claimed /\ q.pc = loop[w].pc /\ q.stop = s
    BY <1>1, <2>1 DEF LoopRecord
  <2> HIDE DEF q, n
  <2> QED
    BY <1>3, <1>4, <2>1, <2>2 DEF Running
<1> QED
  BY <1>6, <1>7, <1>8, <1>9, <1>10

\* The group is there, so ensure_group changes nothing.
LEMMA EnsureGroupEffect ==
    ASSUME RecoveryInv, NEW w \in Workers, NEW r \in Replies, UNCHANGED ingestionVars, EnsureGroup(w, r)
    PROVE  \E l : LoopEffect(w, l, {})
<1>1. loop[w] \in LoopRecord /\ ShapeInv
  BY RecoveryFacts, LoopFacts
<1>2. InFlight(w) = {} /\ Running(w)
  BY <1>1 DEF EnsureGroup, ShapeInv, LoopShape, Running
<1>3. stream' = stream
  <2>1. stream \in StreamRecord /\ stream.last # NoGroup
    BY RecoveryFacts DEF NoGroup
  <2>2. stream' = [stream EXCEPT !.last = stream.last]
    BY <2>1 DEF EnsureGroup, XGroupCreate
  <2> QED
    BY <2>1, <2>2 DEF StreamRecord
<1>4. UNCHANGED <<rows, requests, tasks>>
  BY DEF EnsureGroup, ingestionVars
<1> DEFINE p == NextPass(loop[w], 0)
<1>5. p.claimed = {} /\ (p.pc = "spin" => FreeCapacity(0) <= 0 /\ p.stop # "set")
  BY <1>1, NextPassFacts
<1>6. Cardinality(InFlight(w)) = 0
  BY <1>2, FS_EmptySet
<1>7. SetLoop(w, p) \/ SetLoop(w, NoLoop)
  BY DEF EnsureGroup
<1>8. NoLoop.claimed = {} /\ NoLoop.pc = "down"
  BY DEF NoLoop
<1> HIDE DEF p
<1> QED
  BY <1>2, <1>3, <1>4, <1>5, <1>6, <1>7, <1>8, TurnEffect

\* XAUTOCLAIM returns entries nobody holds.
LEMMA ReclaimOrphansEffect ==
    ASSUME IdleMeansOrphan, RecoveryInv, NEW w \in Workers, NEW R \in Claimable(w), NEW r \in Replies,
           UNCHANGED ingestionVars, ReclaimOrphans(w, R, r)
    PROVE  \E l : LoopEffect(w, l, {})
<1> DEFINE C == {k \in R : k >= stream.first}
           F == InFlight(w)
           m == [loop[w] EXCEPT !.cursor = XAutoClaimCursor(stream, R, loop[w].count)]
           p == NextClaimed(m, C, F)
           q == LoopAt(loop[w], "sleep", {}, 0)
           pel == [k \in Ids |-> CASE k \in R /\ k < stream.first  -> 0
                              [] k \in R /\ k >= stream.first -> IF stream.pel[k] > MaxDelivery THEN stream.pel[k] ELSE stream.pel[k] + 1
                              [] OTHER                        -> stream.pel[k]]
<1>1. /\ loop[w] \in LoopRecord /\ ShapeInv /\ F \in SUBSET Ids /\ Running(w)
      /\ stream \in StreamRecord /\ stream.first = 1 /\ stream.last \in Nat
  BY RecoveryFacts, LoopFacts DEF ReclaimOrphans, Running
<1>2. R \in SUBSET Ids /\ \A k \in R : k >= 1 /\ stream.pel[k] > 0 /\ ~Held(k)
  <2>1. R \subseteq {k \in Pending(stream) : loop[w].cursor <= k /\ k < stream.first} \cup MayBeIdle
    BY DEF Claimable, XAutoClaimSets
  <2>2. \A k \in Pending(stream) : k \in Ids /\ k \in Int /\ k >= 1 /\ stream.pel[k] > 0
    BY DEF Pending, Ids
  <2>3. \A k \in MayBeIdle : k \in Pending(stream) /\ ~Held(k)
    BY DEF MayBeIdle
  <2> QED
    BY <1>1, <2>1, <2>2, <2>3
<1>3. /\ stream'.log = stream.log /\ stream'.first = 1 /\ stream'.last = stream.last
      /\ stream'.pel = pel
  <2>1. stream' = [stream EXCEPT !.pel = pel]
    BY DEF ReclaimOrphans, XAutoClaim
  <2> HIDE DEF pel
  <2> QED
    BY <1>1, <2>1 DEF StreamRecord
<1>4. \A k \in Ids : stream.pel[k] > 0 => stream'.pel[k] > 0
  <2> SUFFICES ASSUME NEW k \in Ids, stream.pel[k] > 0 PROVE stream'.pel[k] > 0
    OBVIOUS
  <2>1. stream.pel[k] \in Nat /\ k \in Int /\ k >= 1
    BY <1>1, StreamAssumption DEF StreamRecord, DeliveryCounts, Ids
  <2>2. pel[k] \in {stream.pel[k], stream.pel[k] + 1}
    BY <1>1, <2>1
  <2> HIDE DEF pel
  <2> QED
    BY <1>3, <2>1, <2>2
<1>5. m \in LoopRecord
  BY <1>1, CursorType DEF LoopRecord
<1>6. C \in SUBSET Ids /\ C \subseteq R
  BY <1>2
<1>7. p.claimed \subseteq C /\ (p.pc = "spin" => FreeCapacity(Cardinality(F)) <= 0 /\ p.stop # "set")
  <2> HIDE DEF m, C, F
  <2> QED
    BY <1>1, <1>5, <1>6, NextClaimedFacts DEF p
<1>8. /\ SetLoop(w, p) \/ SetLoop(w, q)
      /\ UNCHANGED <<rows, requests, tasks>>
  BY DEF ReclaimOrphans, BackOff, ingestionVars
<1>9. q.claimed = {} /\ q.pc = "sleep"
  BY BackOffFacts
<1>10. C \cap F = {}
  BY <1>1, <1>2 DEF Held
<1>11. Dispatch(w, {}) /\ F \cup {} = F
  BY <1>1, <1>8, NoDispatch
<1>12. \A k \in Undelivered(stream) : k \in Undelivered(stream)'
  BY <1>1, <1>3 DEF Undelivered
<1>13. ASSUME NEW l, SetLoop(w, l), l.claimed \subseteq C,
              l.pc = "spin" => FreeCapacity(Cardinality(F)) <= 0 /\ l.stop # "set"
       PROVE  LoopEffect(w, l, {})
  <2>1. stream.last <= stream'.last /\ stream'.last \in Int
    BY <1>1, <1>3
  <2>2. /\ l.claimed \in SUBSET Ids /\ l.claimed \cap (F \cup {}) = {}
        /\ \A k \in {} \cup l.claimed : ~Held(k) /\ stream'.pel[k] > 0
    BY <1>2, <1>4, <1>6, <1>10, <1>13
  <2> HIDE DEF pel, C, m, p, q
  <2> QED
    BY <1>1, <1>3, <1>4, <1>8, <1>11, <1>12, <1>13, <2>1, <2>2 DEF LoopEffect
<1> HIDE DEF p, q, C, m, pel, F
<1> QED
  BY <1>7, <1>8, <1>9, <1>13

LEMMA HandleReclaimedEffect ==
    ASSUME RecoveryInv, NEW w \in Workers, UNCHANGED ingestionVars, HandleReclaimed(w)
    PROVE  \E l, ids : LoopEffect(w, l, ids)
<1> DEFINE C == loop[w].claimed
           F == InFlight(w)
           i == Min(C)
           p == NextClaimed(loop[w], C \ {i}, F \cup {i})
           q == [loop[w] EXCEPT !.pc = "dlq"]
<1>1. /\ loop[w] \in LoopRecord /\ ShapeInv /\ F \in SUBSET Ids /\ Running(w)
      /\ stream.first = 1 /\ stream.last \in Int /\ stream.last <= stream.last
  BY RecoveryFacts, LoopFacts DEF HandleReclaimed, Running
<1>2. C \in SUBSET Ids /\ C \cap F = {} /\ \A k \in C : stream.pel[k] > 0
  BY ClaimedFacts
<1>3. i \in C
  <2>1. C # {}
    BY <1>1 DEF HandleReclaimed, ShapeInv, LoopShape
  <2> QED
    BY <1>2, <2>1, MinOfIds
<1>4. UNCHANGED <<rows, stream, requests>>
  BY DEF HandleReclaimed, storeVars, ingestionVars
<1>5. CASE SetLoop(w, q) /\ UNCHANGED tasks
  <2>1. q.claimed = C /\ q.pc = "dlq"
    BY <1>1 DEF LoopRecord
  <2>2. LoopEffect(w, q, {})
    <3> HIDE DEF q, i
    <3> QED
      BY <1>1, <1>4, <1>5, <2>1, TurnEffect
  <2> QED
    BY <2>2
<1>6. CASE Dispatch(w, {i}) /\ SetLoop(w, p)
  <2>1. C \ {i} \in SUBSET Ids /\ F \cup {i} \in SUBSET Ids
    BY <1>1, <1>2, <1>3
  <2>2. /\ p.claimed \subseteq C \ {i}
        /\ p.pc = "spin" => FreeCapacity(Cardinality(F \cup {i})) <= 0 /\ p.stop # "set"
    <3> HIDE DEF C, F, i
    <3> QED
      BY <1>1, <2>1, NextClaimedFacts DEF p
  <2>3. /\ {i} \in SUBSET Ids /\ p.claimed \in SUBSET Ids
        /\ \A k \in {i} \cup p.claimed : k \in C /\ stream.pel[k] > 0
        /\ p.claimed \cap (F \cup {i}) = {}
    <3> HIDE DEF C, F, i, p
    <3> QED
      BY <1>2, <1>3, <2>2
  <2>4. \A k \in Undelivered(stream) : k \in Undelivered(stream)'
    BY <1>4 DEF Undelivered
  <2>5. LoopEffect(w, p, {i})
    <3> HIDE DEF i, p
    <3> QED
      BY <1>1, <1>4, <1>6, <2>2, <2>3, <2>4 DEF LoopEffect
  <2> QED
    BY <2>5
<1> QED
  BY <1>5, <1>6 DEF HandleReclaimed

\* A claimed entry is acknowledged after it was added to the dead-letter stream.
LEMMA ReclaimedStepsEffect ==
    ASSUME RecoveryInv, NEW w \in Workers, NEW r \in Replies, UNCHANGED ingestionVars,
           ReclaimedToDlq(w, r) \/ ReclaimedAck(w, r)
    PROVE  \E l : LoopEffect(w, l, {})
<1> DEFINE C == loop[w].claimed
           F == InFlight(w)
           i == Min(C)
           p == NextClaimed(loop[w], C \ {i}, F)
           q == LoopAt(loop[w], "sleep", {}, 0)
           d == [loop[w] EXCEPT !.pc = "dlqAck"]
<1>1. /\ loop[w] \in LoopRecord /\ ShapeInv /\ F \in SUBSET Ids /\ Running(w)
      /\ stream.last \in Nat
  BY RecoveryFacts, LoopFacts DEF ReclaimedToDlq, ReclaimedAck, Running
<1>2. C \in SUBSET Ids /\ C \cap F = {} /\ \A k \in C : stream.pel[k] > 0
  BY ClaimedFacts
<1>3. i \in C
  <2>1. C # {}
    BY <1>1 DEF ReclaimedToDlq, ReclaimedAck, ShapeInv, LoopShape
  <2> QED
    BY <1>2, <2>1, MinOfIds
<1>4. UNCHANGED <<rows, requests, tasks>>
  BY DEF ReclaimedToDlq, ReclaimedAck, ingestionVars
<1>5. q.claimed = {} /\ q.pc = "sleep" /\ d.claimed = C /\ d.pc = "dlqAck"
  BY <1>1, BackOffFacts DEF LoopRecord
<1>6. CASE ReclaimedToDlq(w, r)
  <2>1. (SetLoop(w, d) \/ SetLoop(w, q)) /\ stream' = stream
    BY <1>6 DEF ReclaimedToDlq, BackOff
  <2> HIDE DEF d, q, i
  <2> QED
    BY <1>1, <1>4, <1>5, <2>1, TurnEffect
<1>7. CASE ReclaimedAck(w, r)
  <2>1. (SetLoop(w, p) \/ SetLoop(w, q)) /\ stream' = XAck(stream, i) /\ dlq' = dlq
    BY <1>7 DEF ReclaimedAck, BackOff
  <2>2. /\ stream'.first = 1 /\ stream'.last = stream.last /\ stream'.log = stream.log
        /\ \A k \in Ids : k # i => stream'.pel[k] = stream.pel[k]
    BY <1>2, <1>3, <2>1, XAckEffect
  <2>3. stream.log[i] \in DeadLetters'
    BY <1>7, <2>1, DeadLettersStay DEF ReclaimedAck, RecoveryInv, SafetyInv, DlqBeforeAck
  <2>4. C \ {i} \in SUBSET Ids
    BY <1>2
  <2>5. /\ p.claimed \subseteq C \ {i}
        /\ p.pc = "spin" => FreeCapacity(Cardinality(F)) <= 0 /\ p.stop # "set"
    <3> HIDE DEF C, F, i
    <3> QED
      BY <1>1, <2>4, NextClaimedFacts DEF p
  <2>6. \A k \in Undelivered(stream) : k \in Undelivered(stream)'
    BY <1>1, <2>2, RecoveryFacts DEF Undelivered
  <2>7. Dispatch(w, {}) /\ F \cup {} = F
    BY <1>1, <1>4, NoDispatch
  <2>8. ASSUME NEW l, SetLoop(w, l), l.claimed \subseteq C \ {i},
               l.pc = "spin" => FreeCapacity(Cardinality(F)) <= 0 /\ l.stop # "set"
        PROVE  LoopEffect(w, l, {})
    <3>1. stream.last <= stream'.last /\ stream'.last \in Int
      BY <1>1, <2>2
    <3>2. /\ l.claimed \in SUBSET Ids /\ l.claimed \cap (F \cup {}) = {}
          /\ \A k \in {} \cup l.claimed : k \in C /\ stream'.pel[k] > 0
      BY <1>2, <2>2, <2>8
    <3>3. \A k \in Ids : stream.pel[k] > 0 =>
             stream'.pel[k] > 0 \/ (k \in C /\ k \notin l.claimed \cup {} /\ stream.log[k] \in DeadLetters')
      BY <1>3, <2>2, <2>3, <2>8
    <3> HIDE DEF i, p, q, d
    <3> QED
      BY <1>1, <1>4, <2>2, <2>6, <2>7, <2>8, <3>1, <3>2, <3>3 DEF LoopEffect
  <2> HIDE DEF i, p, q, d, C, F
  <2> QED
    BY <1>5, <2>1, <2>5, <2>8
<1> QED
  BY <1>6, <1>7

\* XREADGROUP leaves nothing it passed over: what is not delivered is still to be read.
LEMMA ReadNewEffect ==
    ASSUME RecoveryInv, NEW w \in Workers, NEW r \in Replies, UNCHANGED ingestionVars, ReadNew(w, r)
    PROVE  \E l, ids : LoopEffect(w, l, ids)
<1> DEFINE F == InFlight(w)
           n == loop[w].count
           ids == XReadIds(stream, n)
           p == NextPass(loop[w], Cardinality(F \cup ids))
           q == LoopAt(loop[w], "sleep", {}, 0)
           pel == [k \in Ids |-> IF k \in ids THEN 1 ELSE stream.pel[k]]
           top == Max(ids)
<1>1. /\ loop[w] \in LoopRecord /\ ShapeInv /\ F \in SUBSET Ids /\ Running(w)
      /\ stream \in StreamRecord /\ stream.first = 1 /\ stream.last \in Nat
      /\ n \in Nat
  <2>1. loop[w] \in LoopRecord
    BY RecoveryFacts, LoopFacts
  <2>2. n \in Nat
    BY <2>1, WorkerAssumption DEF LoopRecord
  <2> QED
    BY <2>1, <2>2, RecoveryFacts, LoopFacts DEF ReadNew, Running
<1>2. ids = Undelivered(stream) \cap ((stream.last + 1) .. (stream.last + n))
  <2>1. (IF stream.first > stream.last + 1 THEN stream.first ELSE stream.last + 1) = stream.last + 1
    BY <1>1
  <2>2. (stream.last + 1) + n - 1 = stream.last + n
    BY <1>1
  <2> QED
    BY <2>1, <2>2 DEF XReadIds
<1>3. ids # {} /\ stream' = XReadGroup(stream, ids) /\ UNCHANGED <<rows, requests>>
  BY DEF ReadNew, ingestionVars
<1>4. ids \in SUBSET Ids /\ \A k \in ids : k \in Int /\ stream.last < k /\ k <= stream.last + n
  BY <1>2 DEF Undelivered, Ids
<1>5. top \in ids /\ \A k \in ids : k <= top
  <2> HIDE DEF ids
  <2> QED
    BY <1>3, <1>4, MaxOfIds
<1>6. /\ stream'.log = stream.log /\ stream'.first = 1
      /\ stream'.last = top /\ stream'.pel = pel
  <2>1. stream' = [stream EXCEPT !.last = top, !.pel = pel]
    BY <1>3 DEF XReadGroup
  <2> HIDE DEF pel, top
  <2> QED
    BY <1>1, <2>1 DEF StreamRecord
<1>7. top \in Int /\ stream.last <= top /\ top <= stream.last + n
  <2> HIDE DEF ids, top
  <2> QED
    BY <1>1, <1>4, <1>5
<1>8. /\ \A k \in ids : stream'.pel[k] > 0
      /\ \A k \in Ids : stream.pel[k] > 0 => stream'.pel[k] > 0
  <2>1. \A k \in Ids : stream'.pel[k] = IF k \in ids THEN 1 ELSE stream.pel[k]
    BY <1>6
  <2> HIDE DEF ids, pel, top
  <2> QED
    BY <1>4, <2>1
<1>9. ASSUME NEW k \in Undelivered(stream) PROVE k \in Undelivered(stream)' \/ stream'.pel[k] > 0
  <2>1. k \in Ids /\ k \in Int /\ stream.last < k /\ 1 <= k /\ k <= Len(stream.log)
    BY <1>1 DEF Undelivered, Ids
  <2>2. CASE k <= stream.last + n
    BY <1>1, <1>2, <1>8, <2>1, <2>2
  <2>3. CASE ~(k <= stream.last + n)
    <3>1. top < k
      <4> HIDE DEF top, ids
      <4> QED
        BY <1>1, <1>7, <2>1, <2>3
    <3> QED
      BY <1>6, <2>1, <3>1 DEF Undelivered
  <2> QED
    BY <2>2, <2>3
<1>10. \A k \in ids : ~Held(k)
  <2> SUFFICES ASSUME NEW k \in ids, NEW v \in Workers, k \in InFlight(v) \cup loop[v].claimed
               PROVE  FALSE
    BY DEF Held
  <2>1. k <= stream.last
    BY <1>1, LoopFacts
  <2> HIDE DEF ids
  <2> QED
    BY <1>1, <1>4, <2>1
<1>11. CASE Dispatch(w, ids) /\ SetLoop(w, p)
  <2>1. Cardinality(F \cup ids) \in Int
    <3>1. F \cup ids \in SUBSET Ids
      BY <1>1, <1>4
    <3> HIDE DEF F, ids
    <3> QED
      BY <3>1, IdsFinite
  <2>2. /\ p.claimed = {}
        /\ p.pc = "spin" => FreeCapacity(Cardinality(F \cup ids)) <= 0 /\ p.stop # "set"
    <3> HIDE DEF F, ids
    <3> QED
      BY <1>1, <2>1, NextPassFacts DEF p
  <2>3. LoopEffect(w, p, ids)
    <3> HIDE DEF p, ids, top, pel
    <3> QED
      BY <1>1, <1>3, <1>4, <1>6, <1>7, <1>8, <1>9, <1>10, <1>11, <2>2 DEF LoopEffect
  <2> QED
    BY <2>3
<1>12. CASE UNCHANGED tasks /\ SetLoop(w, q)
  <2>1. q.claimed = {} /\ q.pc = "sleep"
    BY BackOffFacts
  <2>2. Dispatch(w, {})
    BY <1>1, <1>12, NoDispatch
  <2>3. LoopEffect(w, q, {})
    <3> HIDE DEF q, ids, top, pel
    <3> QED
      BY <1>1, <1>3, <1>6, <1>7, <1>8, <1>9, <1>12, <2>1, <2>2 DEF LoopEffect
  <2> QED
    BY <2>3
<1> QED
  BY <1>11, <1>12 DEF ReadNew, BackOff

LEMMA LoopStepRecovery ==
    ASSUME IdleMeansOrphan, RecoveryInv, SafetyInv', HistoryKept, NEW w \in Workers, UNCHANGED ingestionVars,
           LoopStep(w) \/ LoopError(w) \/ Sigterm(w) \/ SetStop(w)
    PROVE  RecoveryInv'
<1>1. \E l, ids : LoopEffect(w, l, ids)
  BY TurningStepsEffect, EnsureGroupEffect, ReclaimOrphansEffect, HandleReclaimedEffect,
     ReclaimedStepsEffect, ReadNewEffect DEF LoopStep
<1> QED
  BY <1>1, LoopRecovery

-----------------------------------------------------------------------------
(* A process dies.                                                         *)

LEMMA CrashRecovery ==
    ASSUME RecoveryInv, SafetyInv', HistoryKept, NEW w \in Workers, UNCHANGED ingestionVars, Crash(w)
    PROVE  RecoveryInv'
<1>1. /\ loop \in [Workers -> LoopRecord] /\ tasks \in [Workers -> [Ids -> TaskRecord]]
      /\ Len(stream.log) \in Nat
  BY RecoveryFacts
<1>2. /\ loop' = [loop EXCEPT ![w] = NoLoop] /\ UNCHANGED <<rows, stream, dlq, requests>>
      /\ tasks' = [tasks EXCEPT ![w] = [k \in Ids |-> NoTask]]
  BY DEF Crash, SetLoop, ingestionVars
<1>3. /\ loop'[w] = NoLoop /\ \A v \in Workers : v # w => loop'[v] = loop[v]
      /\ \A k \in Ids : tasks'[w][k].pc = "none"
      /\ \A v \in Workers : v # w => tasks'[v] = tasks[v]
  BY <1>1, <1>2 DEF NoTask
<1>4. \A v \in Workers : Running(v)' => v # w /\ Running(v)
  BY <1>3 DEF Running, NoLoop
<1>5. \A v \in Workers : v # w => InFlight(v)' = InFlight(v)
  BY <1>3 DEF InFlight
<1>6. \A v \in Workers, k \in Ids : Holds(v, k)' => v # w /\ Holds(v, k)
  BY <1>3, <1>4, <1>5 DEF Holds
<1>7. StreamKept' /\ InsertIsFirst' /\ AcceptedHasPointer'
  BY <1>2 DEF RecoveryInv, StreamKept, InsertIsFirst, AcceptedHasPointer, Accepted, JobOf
<1>8. SpinIsForEver'
  <2> SUFFICES ASSUME NEW v \in Workers, loop'[v].pc = "spin"
               PROVE  FreeCapacity(Cardinality(InFlight(v)')) <= 0 /\ loop'[v].stop # "set"
    BY DEF SpinIsForEver, FreeCapacity
  <2>1. v # w
    BY <1>3 DEF NoLoop
  <2> QED
    BY <1>3, <1>5, <2>1 DEF RecoveryInv, SpinIsForEver
<1>9. HeldOnce'
  BY <1>3, <1>4, <1>5, <1>6 DEF RecoveryInv, HeldOnce
<1>10. HeldIsPending'
  BY <1>2, <1>3, <1>6 DEF RecoveryInv, HeldIsPending
<1>11. ASSUME NEW k \in Ids, Settling(k)' PROVE Settling(k)
  <2>1. PICK v \in Workers : /\ Running(v)'
                             /\ \/ tasks'[v][k].pc = "ack"
                                \/ tasks'[v][k].pc = "successFlush" /\ tasks'[v][k].base.status = "success"
    BY <1>11 DEF Settling
  <2> QED
    BY <1>3, <1>4, <2>1 DEF Settling
<1>12. JobKept'
  <2>1. \A k \in 1 .. Len(stream.log), j \in Jobs : Carries(k, j) => Carries(k, j)'
    <3> SUFFICES ASSUME NEW k \in 1 .. Len(stream.log), NEW j \in Jobs, Carries(k, j) PROVE Carries(k, j)'
      OBVIOUS
    <3>1. k \in Ids
      BY RecoveryFacts, StreamAssumption DEF Ids
    <3> QED
      BY <1>2, <1>11, <3>1 DEF Carries, JobOf, Undelivered
  <2> QED
    BY <1>1, <1>2, <2>1, JobKeptFrom
<1> QED
  BY <1>7, <1>8, <1>9, <1>10, <1>12 DEF RecoveryInv

-----------------------------------------------------------------------------
(* A request moves on.                                                     *)

\* It inserts a row where there was none, or adds an entry nobody has read; it is
\* answered with 202 only when the entry is there.
RequestEffect(j) ==
    /\ UNCHANGED <<loop, tasks, dlq>>
    /\ \A k \in Jobs : k # j => rows'[k] = rows[k] /\ requests'[k] = requests[k]
    /\ rows'[j] = rows[j] \/ rows[j] = NoRow
    /\ requests'[j].pc # "insert"
    /\ \/ stream' = stream /\ ~Accepted(j)'
       \/ \E m \in JobMessage : m.job = j /\ Xadd(m)

LEMMA SubmitEffect ==
    ASSUME RecoveryInv, NEW j \in Jobs, Submit(j), UNCHANGED workerVars
    PROVE  RequestEffect(j)
<1>1. /\ rows \in [Jobs -> Job \cup {NoRow}]
      /\ requests \in [Jobs -> [pc : RequestPcs, tries : 0 .. (MaxTries - 1)]]
  BY RecoveryFacts DEF ShapeInv, TypeOK, IngestionTypeOK
<1>2. UNCHANGED <<loop, tasks, dlq>>
  BY DEF workerVars, Submit, Insert, Publish, InsertError, PublishError, RequestDies
<1>3. PICK pc, tries : SetRequest(j, pc, tries) /\ pc \in {"publish", "accepted", "rejected"}
                       /\ (pc = "accepted" => Xadd(FirstDelivery(j)))
  BY DEF Submit, Insert, Publish, InsertError, PublishError, RequestDies, PublishFailed, Replies
<1>4. /\ requests'[j].pc = pc /\ \A k \in Jobs : k # j => requests'[k] = requests[k]
  BY <1>1, <1>3 DEF SetRequest
<1>5. /\ \A k \in Jobs : k # j => rows'[k] = rows[k]
      /\ rows'[j] = rows[j] \/ rows[j] = NoRow
  <2>1. rows' = rows \/ (requests[j].pc = "insert" /\ Add(j))
    BY DEF Submit, Insert, Publish, InsertError, PublishError, RequestDies
  <2>2. requests[j].pc = "insert" => rows[j] = NoRow
    BY DEF RecoveryInv, InsertIsFirst
  <2> QED
    BY <1>1, <2>1, <2>2 DEF Add
<1>6. stream' = stream \/ Xadd(FirstDelivery(j))
  BY DEF Submit, Insert, Publish, InsertError, PublishError, RequestDies
<1>7. FirstDelivery(j) \in JobMessage /\ FirstDelivery(j).job = j
  BY StoresAssumption DEF FirstDelivery, JobMessage
<1>8. \/ stream' = stream /\ ~Accepted(j)'
      \/ \E m \in JobMessage : m.job = j /\ Xadd(m)
  BY <1>3, <1>4, <1>6, <1>7 DEF Accepted
<1> QED
  BY <1>2, <1>3, <1>4, <1>5, <1>8 DEF RequestEffect

LEMMA SubmitRecovery ==
    ASSUME MaxEntries <= MaxLen, RecoveryInv, SafetyInv', HistoryKept, NEW j \in Jobs, RequestEffect(j)
    PROVE  RecoveryInv'
<1>1. /\ Len(stream.log) \in Nat /\ stream.last \in Nat /\ stream.last <= Len(stream.log)
      /\ stream.first = 1 /\ Len(stream.log) <= MaxEntries
  BY RecoveryFacts
<1>2. Len(stream'.log) \in Nat /\ Len(stream'.log) <= MaxEntries
  BY LogAfter
<1>3. UNCHANGED <<loop, tasks, dlq>>
  BY DEF RequestEffect
<1>4. /\ stream'.first = 1 /\ stream'.last = stream.last /\ stream'.pel = stream.pel
      /\ Len(stream.log) <= Len(stream'.log)
      /\ Accepted(j)' => \E k \in 1 .. Len(stream'.log) : JobOf(k)' = j
  <2>1. CASE stream' = stream /\ ~Accepted(j)'
    BY <1>1, <2>1
  <2>2. ASSUME NEW m \in JobMessage, m.job = j, Xadd(m)
        PROVE  /\ stream'.first = 1 /\ stream'.last = stream.last /\ stream'.pel = stream.pel
               /\ Len(stream.log) <= Len(stream'.log)
               /\ \E k \in 1 .. Len(stream'.log) : JobOf(k)' = j
    <3>1. PICK e : e = Len(stream.log) + 1
      OBVIOUS
    <3>2. /\ stream'.first = 1 /\ stream'.last = stream.last /\ stream'.pel = stream.pel
          /\ Len(stream'.log) = e /\ stream'.log[e] = m
      BY <2>2, <3>1, XaddTrimsNothing
    <3>3. JobOf(e)' = j
      BY <2>2, <3>2 DEF JobOf
    <3> QED
      BY <1>1, <3>1, <3>2, <3>3
  <2> QED
    BY <2>1, <2>2 DEF RequestEffect
<1>5. /\ \A k \in Jobs : k # j => rows'[k] = rows[k] /\ requests'[k] = requests[k]
      /\ rows'[j] = rows[j] \/ rows[j] = NoRow
      /\ requests'[j].pc # "insert"
  BY DEF RequestEffect
<1>6. \A k \in 1 .. Len(stream.log) : JobOf(k)' = JobOf(k) /\ k \in 1 .. Len(stream'.log) /\ k \in Ids
  BY <1>1, <1>2, <1>4, StreamAssumption DEF HistoryKept, JobOf, Ids
<1>7. StreamKept' /\ InsertIsFirst'
  BY <1>4, <1>5 DEF RecoveryInv, StreamKept, InsertIsFirst
<1>8. SpinIsForEver' /\ HeldOnce' /\ HeldIsPending'
  <2>1. \A v \in Workers : InFlight(v)' = InFlight(v) /\ Running(v)' = Running(v)
    BY <1>3 DEF InFlight, Running
  <2>2. \A v \in Workers, k \in Ids : Holds(v, k)' = Holds(v, k)
    BY <1>3, <2>1 DEF Holds
  <2>3. SpinIsForEver'
    BY <1>3, <2>1 DEF RecoveryInv, SpinIsForEver, FreeCapacity
  <2> QED
    BY <1>3, <1>4, <2>1, <2>2, <2>3 DEF RecoveryInv, HeldOnce, HeldIsPending
<1>9. AcceptedHasPointer'
  <2> SUFFICES ASSUME NEW k \in Jobs, Accepted(k)', k # j
               PROVE  \E i \in 1 .. Len(stream'.log) : JobOf(i)' = k
    BY <1>4 DEF AcceptedHasPointer
  <2>1. PICK i \in 1 .. Len(stream.log) : JobOf(i) = k
    BY <1>5 DEF RecoveryInv, AcceptedHasPointer, Accepted
  <2> QED
    BY <1>6, <2>1
<1>10. \A k \in Ids : Settling(k)' = Settling(k)
  BY <1>3 DEF Settling, Running
<1>11. ASSUME NEW k \in (Len(stream.log) + 1) .. Len(stream'.log) PROVE Carries(k, JobOf(k))'
  <2>1. k \in Ids /\ k \in Int
    BY <1>1, <1>2, StreamAssumption DEF Ids
  <2>2. k \in Undelivered(stream)'
    BY <1>1, <1>2, <1>4, <2>1 DEF Undelivered
  <2> QED
    BY <2>2 DEF Carries
<1>12. ASSUME NEW k \in 1 .. Len(stream.log), NEW i \in Jobs, Carries(k, i) PROVE Carries(k, i)'
  <2>1. k \in Undelivered(stream) => k \in Undelivered(stream)'
    BY <1>1, <1>2, <1>4, <1>6 DEF Undelivered
  <2> QED
    BY <1>4, <1>6, <1>10, <1>12, <2>1 DEF Carries
<1>13. \A i \in Jobs : IsTerminal(rows[i]) => IsTerminal(rows'[i])
  <2>1. ~IsTerminal(NoRow)
    BY DEF IsTerminal, Terminal, NoRow
  <2> QED
    BY <1>5, <2>1
<1>14. JobKept'
  BY <1>2, <1>4, <1>6, <1>11, <1>12, <1>13, JobKeptFrom
<1> QED
  BY <1>7, <1>8, <1>9, <1>14 DEF RecoveryInv

-----------------------------------------------------------------------------
LEMMA NextRecovery ==
    ASSUME IdleMeansOrphan, MaxEntries <= MaxLen, RecoveryInv, [Next]_vars
    PROVE  RecoveryInv'
<1>1. ShapeInv /\ SafetyInv
  BY RecoveryFacts
<1>2. SafetyInv' /\ HistoryKept
  BY <1>1, NextSafety, NextHistory
<1>3. CASE UNCHANGED vars
  <2>1. stream' = stream /\ stream.first = 1 /\ Len(stream.log) \in Nat
    BY <1>3, RecoveryFacts DEF vars, storeVars
  <2> QED
    BY <1>2, <1>3, DeadLettersStay DEF vars, storeVars, ingestionVars, workerVars, RecoveryInv, StreamKept, InsertIsFirst,
       SpinIsForEver, HeldOnce, HeldIsPending, Holds, Running, InFlight, FreeCapacity, AcceptedHasPointer,
       Accepted, JobOf, JobKept, DeadLettered, Carries, Settling, Undelivered
<1>4. ASSUME NEW j \in Jobs, Submit(j), UNCHANGED workerVars PROVE RecoveryInv'
  <2>1. RequestEffect(j)
    BY <1>4, SubmitEffect
  <2> QED
    BY <1>2, <2>1, SubmitRecovery
<1>5. ASSUME NEW w \in Workers, WorkerStep(w), UNCHANGED ingestionVars PROVE RecoveryInv'
  BY <1>2, <1>5, TaskStepRecovery, LoopStepRecovery, CrashRecovery DEF WorkerStep
<1> QED
  BY <1>3, <1>4, <1>5 DEF Next

\* Every entry is in the hands of one live process at most and stays pending there,
\* a full loop that spins stays full, and a job with a pointer in the stream is
\* terminal, dead-lettered or carried by an entry: for every number of workers,
\* failed calls, crashes and stops, when reclaim_idle_ms is above every run
\* (IdleMeansOrphan), the group exists before the first publish (GroupAtStart) and
\* no more entries are added than broker.maxlen keeps.
THEOREM RecoveryInvariant ==
    ASSUME IdleMeansOrphan, GroupAtStart, MaxEntries <= MaxLen
    PROVE  Spec => []RecoveryInv
<1>1. Init => RecoveryInv
  BY InitRecovery
<1>2. RecoveryInv /\ [Next]_vars => RecoveryInv'
  BY NextRecovery
<1> QED
  BY <1>1, <1>2, PTL DEF Spec

\* No job answered with 202 is lost, whatever calls fail and whenever a worker dies:
\* ingestion publishes before it answers, _on_transient republishes before it
\* acknowledges, mark_success commits before it acknowledges, and every path that
\* gives an entry up adds it to the dead-letter stream first.
THEOREM AcceptedJobsAreNotLost ==
    ASSUME IdleMeansOrphan, GroupAtStart, MaxEntries <= MaxLen
    PROVE  Spec => []NoJobLost
<1>1. RecoveryInv => NoJobLost
  <2> SUFFICES ASSUME RecoveryInv, NEW j \in Jobs, Accepted(j), ~IsTerminal(rows[j]), ~DeadLettered(j)
               PROVE  Tracked(j)
    BY DEF NoJobLost
  <2>1. \E i \in 1 .. Len(stream.log) : JobOf(i) = j
    BY DEF RecoveryInv, AcceptedHasPointer
  <2>2. PICK i \in 1 .. Len(stream.log) : Carries(i, j)
    BY <2>1 DEF RecoveryInv, JobKept
  <2>3. i \in Ids /\ i \in Int /\ i >= 1 /\ stream.first = 1
    BY RecoveryFacts, StreamAssumption DEF Ids
  <2> QED
    BY <2>2, <2>3 DEF Carries, Tracked, Pending
<1> QED
  BY <1>1, RecoveryInvariant, PTL

\* With reclaim_idle_ms above every run no entry is ever handled by two live
\* processes at a time, whatever fails and whoever dies.
THEOREM EntriesAreHeldOnce ==
    ASSUME IdleMeansOrphan, GroupAtStart, MaxEntries <= MaxLen
    PROVE  Spec => []HeldOnce
<1>1. RecoveryInv => HeldOnce
  BY DEF RecoveryInv
<1> QED
  BY <1>1, RecoveryInvariant, PTL
=============================================================================
