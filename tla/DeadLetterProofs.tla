-------------------------- MODULE DeadLetterProofs --------------------------
(***************************************************************************)
(* Proofs about the dead-letter path and the dispatch of entries, which    *)
(* hold in every configuration of InferenceEngine.  They rest on the shape *)
(* invariant proved in EngineSafetyProofs.                                 *)
(***************************************************************************)
EXTENDS EngineSafetyProofs

\* Two facts about every step: entries are never rewritten, and nothing leaves DeadLetters.
HistoryKept ==
    /\ \A k \in 1 .. Len(stream.log) : stream'.log[k] = stream.log[k]
    /\ DeadLetters \subseteq DeadLetters'

\* dead_letter adds the pointer, and its trim drops only what at least MaxLen later dead
\* letters displace: an entry it drops is followed by the MaxLen entries it leaves.
LEMMA DeadLettersGrow ==
    ASSUME ShapeInv, NEW m \in JobMessage, AddToDlq(m)
    PROVE  m \in DeadLetters' /\ DeadLetters \subseteq DeadLetters'
<1>1. PICK f \in TrimPoints(dlq) : dlq' = XAdd(dlq, m, f)
  BY DEF AddToDlq
<1>2. dlq \in [log : Seq(JobMessage), first : Nat \ {0}]
  BY DEF ShapeInv, TypeOK, StoresTypeOK
<1>3. dlq'.log = Append(dlq.log, m) /\ dlq'.first = f
  BY <1>1, <1>2 DEF XAdd
<1> DEFINE n == Len(dlq.log)
<1>4. n \in Nat /\ MaxLen \in Nat /\ dlq.first \in Nat /\ dlq.log \in Seq(JobMessage)
  BY <1>2, StreamAssumption
<1>5. /\ f \in dlq.first .. (n + 1)
      /\ f = dlq.first \/ n + 2 - f >= MaxLen
  BY DEF TrimPoints
<1>6. /\ Len(dlq'.log) = n + 1 /\ dlq'.log[n + 1] = m
      /\ \A k \in 1 .. n : dlq'.log[k] = dlq.log[k]
  BY <1>3, <1>4
<1>7. m \in DeadLetters'
  <2>1. n + 1 \in 1 .. (n + 1) /\ f <= n + 1
    BY <1>4, <1>5
  <2> QED
    BY <1>3, <1>6, <2>1 DEF DeadLetters
<1>8. ASSUME NEW k \in 1 .. n, dlq.first <= k \/ k + MaxLen <= n
      PROVE  dlq.log[k] \in DeadLetters'
  <2>1. k \in 1 .. (n + 1) /\ (f <= k \/ k + MaxLen <= n + 1)
    BY <1>4, <1>5, <1>8
  <2> QED
    BY <1>3, <1>6, <2>1 DEF DeadLetters
<1> QED
  BY <1>7, <1>8 DEF DeadLetters

LEMMA DeadLettersStay == ASSUME dlq' = dlq PROVE DeadLetters' = DeadLetters
BY DEF DeadLetters

LEMMA LogOfXadd == ASSUME ShapeInv, NEW m \in JobMessage, Xadd(m)
                   PROVE  \A k \in 1 .. Len(stream.log) : stream'.log[k] = stream.log[k]
<1>1. PICK f \in TrimPoints(stream) : stream' = XAdd(stream, m, f)
  BY DEF Xadd
<1>2. stream \in StreamRecord
  BY DEF ShapeInv, TypeOK, StoresTypeOK, StreamRecord
<1>3. stream'.log = Append(stream.log, m) /\ stream.log \in Seq(JobMessage)
  BY <1>1, <1>2 DEF XAdd, StreamRecord
<1> QED
  BY <1>3

\* The other commands leave the log alone.
LEMMA LogOfOthers ==
    ASSUME ShapeInv,
           \/ stream' = stream
           \/ \E i \in Ids : stream' = XAck(stream, i)
           \/ \E R : stream' = XAutoClaim(stream, R)
           \/ \E ids : stream' = XReadGroup(stream, ids)
           \/ stream' = XGroupCreate(stream)
    PROVE  stream'.log = stream.log
<1>1. stream \in StreamRecord
  BY DEF ShapeInv, TypeOK, StoresTypeOK, StreamRecord
<1>2. ASSUME NEW i \in Ids, stream' = XAck(stream, i) PROVE stream'.log = stream.log
  <2>1. stream' = [stream EXCEPT !.pel = [stream.pel EXCEPT ![i] = 0]]
    BY <1>2 DEF XAck
  <2> QED
    BY <1>1, <2>1 DEF StreamRecord
<1>3. ASSUME NEW R, stream' = XAutoClaim(stream, R) PROVE stream'.log = stream.log
  <2>1. PICK p : stream' = [stream EXCEPT !.pel = p]
    BY <1>3 DEF XAutoClaim
  <2> QED
    BY <1>1, <2>1 DEF StreamRecord
<1>4. ASSUME NEW ids, stream' = XReadGroup(stream, ids) PROVE stream'.log = stream.log
  <2>1. PICK p, top : stream' = [stream EXCEPT !.last = top, !.pel = p]
    BY <1>4 DEF XReadGroup
  <2> QED
    BY <1>1, <2>1 DEF StreamRecord
<1>5. ASSUME stream' = XGroupCreate(stream) PROVE stream'.log = stream.log
  <2>1. PICK top : stream' = [stream EXCEPT !.last = top]
    BY <1>5 DEF XGroupCreate
  <2> QED
    BY <1>1, <2>1 DEF StreamRecord
<1> QED
  BY <1>2, <1>3, <1>4, <1>5

LEMMA SubmitHistory ==
    ASSUME ShapeInv, NEW j \in Jobs, Submit(j) PROVE HistoryKept
<1>1. FirstDelivery(j) \in JobMessage
  BY StoresAssumption DEF FirstDelivery, JobMessage
<1>2. dlq' = dlq
  BY DEF Submit, Insert, Publish, InsertError, PublishError, RequestDies
<1>3. stream' = stream \/ Xadd(FirstDelivery(j))
  BY DEF Submit, Insert, Publish, InsertError, PublishError, RequestDies
<1> QED
  BY <1>1, <1>2, <1>3, LogOfXadd, DeadLettersStay DEF HistoryKept

\* The entry at the head of what the loop has claimed was delivered, so it carries a pointer.
LEMMA ClaimedPointer ==
    ASSUME ShapeInv, NEW w \in Workers, loop[w].pc \in {"dlq", "dlqAck"}
    PROVE  stream.log[Min(loop[w].claimed)] \in JobMessage
<1> DEFINE i == Min(loop[w].claimed)
<1>1. /\ GoodLoop(loop[w], InFlight(w)) /\ loop[w].claimed \in SUBSET Ids
      /\ \A k \in loop[w].claimed : k <= stream.last
  BY LoopFacts
<1>2. loop[w].claimed # {}
  BY <1>1 DEF GoodLoop
<1>3. i \in Ids /\ i <= stream.last
  BY <1>1, <1>2, MinOfIds
<1> HIDE DEF i
<1>4. i \in 1 .. Len(stream.log) /\ stream.log \in Seq(JobMessage)
  BY <1>3 DEF ShapeInv, TypeOK, StoresTypeOK, Ids
<1>5. stream.log[i] \in JobMessage
  BY <1>4
<1> QED
  BY <1>5 DEF i

\* Both ways to the dead-letter stream, a task's and the loop's.
LEMMA TaskDeadLetters ==
    ASSUME ShapeInv, NEW w \in Workers, NEW i \in Ids, NEW r \in Replies, DeadLetter(w, i, r)
    PROVE  stream.log[i] \in DeadLetters' /\ DeadLetters \subseteq DeadLetters'
<1>1. i \in InFlight(w) /\ AddToDlq(stream.log[i])
  BY DEF DeadLetter, At, InFlight
<1> QED
  BY <1>1, RowOfEntry, DeadLettersGrow

LEMMA LoopDeadLetters ==
    ASSUME ShapeInv, NEW w \in Workers, NEW r \in Replies, ReclaimedToDlq(w, r)
    PROVE  /\ stream.log[Min(loop[w].claimed)] \in DeadLetters'
           /\ DeadLetters \subseteq DeadLetters'
<1>1. loop[w].pc = "dlq" /\ AddToDlq(stream.log[Min(loop[w].claimed)])
  BY DEF ReclaimedToDlq
<1> QED
  BY <1>1, ClaimedPointer, DeadLettersGrow

LEMMA WorkerHistory ==
    ASSUME ShapeInv, NEW w \in Workers, WorkerStep(w) PROVE HistoryKept
<1>1. ASSUME NEW i \in Ids, NEW r \in Replies, Republish(w, i, r) PROVE HistoryKept
  <2>1. i \in InFlight(w) /\ tasks[w][i].pc = "republish"
    BY <1>1 DEF Republish, At, InFlight
  <2>2. stream.log[i] \in JobMessage
    BY <2>1, RowOfEntry
  <2>3. stream.log[i].attempt < MaxAttempts
    BY <2>1 DEF ShapeInv, TaskShape, RetryPcs
  <2>4. NextAttempt(stream.log[i]) \in JobMessage
    BY <2>2, <2>3, StoresAssumption DEF NextAttempt, JobMessage
  <2> QED
    BY <1>1, <2>4, LogOfXadd, DeadLettersStay DEF Republish, HistoryKept
<1>2. CASE \/ LoopStep(w) \/ LoopError(w) \/ Sigterm(w) \/ SetStop(w) \/ Crash(w)
  <2>1. CASE \E r \in Replies : ReclaimedAck(w, r)
    <3>1. Min(loop[w].claimed) \in Ids
      <4>1. loop[w].claimed \in SUBSET Ids /\ GoodLoop(loop[w], InFlight(w))
        BY LoopFacts
      <4>2. loop[w].claimed # {}
        BY <2>1, <4>1 DEF ReclaimedAck, GoodLoop
      <4> QED
        BY <4>1, <4>2, MinOfIds
    <3>2. stream'.log = stream.log /\ dlq' = dlq
      BY <2>1, <3>1, LogOfOthers DEF ReclaimedAck
    <3> QED
      BY <3>2, DeadLettersStay DEF HistoryKept
  <2>2. CASE ~\E r \in Replies : ReclaimedAck(w, r)
    <3>1. DeadLetters \subseteq DeadLetters'
      <4>1. dlq' = dlq \/ \E r \in Replies : ReclaimedToDlq(w, r)
        BY <1>2, <2>2 DEF LoopStep, LoopError, Sigterm, SetStop, Crash, Boot, HandleReclaimed, ReadTimeout,
           WakeUp, DrainDone, SpinPass, EnsureGroup, ReclaimOrphans, ReadNew, storeVars
      <4> QED
        BY <4>1, DeadLettersStay, LoopDeadLetters
    <3>2. \/ stream' = stream
          \/ \E R : stream' = XAutoClaim(stream, R)
          \/ \E ids : stream' = XReadGroup(stream, ids)
          \/ stream' = XGroupCreate(stream)
      BY <1>2, <2>2 DEF LoopStep, LoopError, Sigterm, SetStop, Crash, Boot, HandleReclaimed, ReadTimeout,
         WakeUp, DrainDone, SpinPass, EnsureGroup, ReclaimOrphans, ReclaimedToDlq, ReadNew, storeVars
    <3> QED
      BY <3>1, <3>2, LogOfOthers DEF HistoryKept
  <2> QED
    BY <2>1, <2>2
<1>3. ASSUME NEW i \in Ids, TaskStep(w, i) \/ TaskError(w, i), ~\E r \in Replies : Republish(w, i, r)
      PROVE  HistoryKept
  <2>1. DeadLetters \subseteq DeadLetters'
    <3>1. dlq' = dlq \/ \E r \in Replies : DeadLetter(w, i, r)
      BY <1>3 DEF TaskStep, TaskError, Guard, Load, UpdateSelect, RunPipeline, RequeueGet, FailGet,
         UpdateFlush, Ack, DlqAck, storeVars
    <3> QED
      BY <3>1, DeadLettersStay, TaskDeadLetters
  <2>2. stream' = stream \/ stream' = XAck(stream, i)
    BY <1>3 DEF TaskStep, TaskError, Guard, Load, UpdateSelect, RunPipeline, RequeueGet, FailGet,
       UpdateFlush, Ack, DeadLetter, DlqAck, storeVars
  <2> QED
    BY <2>1, <2>2, LogOfOthers DEF HistoryKept
<1> QED
  BY <1>1, <1>2, <1>3 DEF WorkerStep

LEMMA NextHistory == ASSUME ShapeInv, [Next]_vars PROVE HistoryKept
<1>1. CASE UNCHANGED vars
  BY <1>1, DeadLettersStay DEF vars, storeVars, HistoryKept
<1> QED
  BY <1>1, SubmitHistory, WorkerHistory DEF Next

-----------------------------------------------------------------------------
DlqPcs == FailPcs \cup {"dlqAck"}

\* A task gets past the dead-letter write only by doing it.
TaskDlqKept ==
    \A v \in Workers, k \in Ids :
        tasks'[v][k].pc \in DlqPcs =>
            tasks[v][k].pc # "none" /\ (tasks[v][k].pc \in DlqPcs \/ stream.log[k] \in DeadLetters')

\* So does the loop.
LoopDlqKept ==
    \A v \in Workers :
        loop'[v].pc = "dlqAck" =>
            /\ loop'[v].claimed = loop[v].claimed
            /\ loop[v].pc = "dlqAck" \/ stream.log[Min(loop[v].claimed)] \in DeadLetters'

\* One task moves, the others stay.
LEMMA OneTaskMoves ==
    ASSUME ShapeInv, NEW w \in Workers, NEW i \in Ids, NEW t,
           tasks' = [tasks EXCEPT ![w][i] = t]
    PROVE  /\ tasks'[w][i] = t
           /\ \A v \in Workers, k \in Ids : ~(v = w /\ k = i) => tasks'[v][k] = tasks[v][k]
BY DEF ShapeInv, TypeOK, WorkerTypeOK

LEMMA TaskStepDlq ==
    ASSUME ShapeInv, NEW w \in Workers, NEW i \in Ids, TaskStep(w, i) \/ TaskError(w, i)
    PROVE  TaskDlqKept /\ loop' = loop
<1> USE DEF Goto, SetTask
<1>1. PICK t : /\ tasks' = [tasks EXCEPT ![w][i] = t]
               /\ t.pc \in DlqPcs => tasks[w][i].pc \in DlqPcs \/ stream.log[i] \in DeadLetters'
  <2>1. CASE Guard(w, i) \/ Load(w, i) \/ RequeueGet(w, i) \/ TaskError(w, i)
             \/ \E outcome \in Outcomes : RunPipeline(w, i, outcome)
    BY <2>1 DEF Guard, Load, RequeueGet, TaskError, RunPipeline, Outcomes, OnTransient, ErrorPc,
       DlqPcs, FailPcs
  <2>2. CASE UpdateSelect(w, i)
    BY <2>2 DEF UpdateSelect, At, SelectPcs, FlushAfter, ErrorPc, DlqPcs, FailPcs
  <2>3. CASE FailGet(w, i)
    BY <2>3 DEF FailGet, At, DlqPcs, FailPcs
  <2>4. ASSUME NEW r \in Replies, UpdateFlush(w, i, r)
        PROVE  \E t : /\ tasks' = [tasks EXCEPT ![w][i] = t]
                      /\ t.pc \in DlqPcs => tasks[w][i].pc \in DlqPcs \/ stream.log[i] \in DeadLetters'
    <3> DEFINE next == IF r = "ok" THEN AfterFlush(tasks[w][i].pc) ELSE ErrorPc(tasks[w][i].pc)
    <3>1. tasks[w][i].pc \in FlushPcs
      BY <2>4 DEF UpdateFlush, At
    <3>2. next \notin DlqPcs
      BY <3>1 DEF FlushPcs, AfterFlush, ErrorPc, DlqPcs, FailPcs
    <3>3. PICK job : tasks' = [tasks EXCEPT ![w][i] = [pc |-> next, job |-> job, base |-> NoRow]]
      BY <2>4 DEF UpdateFlush
    <3> DEFINE u == [pc |-> next, job |-> job, base |-> NoRow]
    <3>4. tasks' = [tasks EXCEPT ![w][i] = u] /\ u.pc = next
      BY <3>3
    <3> HIDE DEF next, u
    <3> QED
      BY <3>2, <3>4
  <2>5. ASSUME NEW r \in Replies, Republish(w, i, r) \/ Ack(w, i, r)
        PROVE  \E t : /\ tasks' = [tasks EXCEPT ![w][i] = t]
                      /\ t.pc \in DlqPcs => tasks[w][i].pc \in DlqPcs \/ stream.log[i] \in DeadLetters'
    BY <2>5 DEF Republish, Ack, DlqPcs, FailPcs
  <2>6. ASSUME NEW r \in Replies, DeadLetter(w, i, r)
        PROVE  \E t : /\ tasks' = [tasks EXCEPT ![w][i] = t]
                      /\ t.pc \in DlqPcs => tasks[w][i].pc \in DlqPcs \/ stream.log[i] \in DeadLetters'
    BY <2>6, TaskDeadLetters DEF DeadLetter
  <2>7. ASSUME NEW r \in Replies, DlqAck(w, i, r)
        PROVE  \E t : /\ tasks' = [tasks EXCEPT ![w][i] = t]
                      /\ t.pc \in DlqPcs => tasks[w][i].pc \in DlqPcs \/ stream.log[i] \in DeadLetters'
    BY <2>7 DEF DlqAck, At, DlqPcs
  <2> QED
    BY <2>1, <2>2, <2>3, <2>4, <2>5, <2>6, <2>7 DEF TaskStep
<1>a. tasks[w][i].pc # "none" /\ "none" \notin DlqPcs
  BY DEF TaskStep, TaskError, Guard, Load, UpdateSelect, RunPipeline, RequeueGet, FailGet, UpdateFlush,
     Republish, Ack, DeadLetter, DlqAck, At, SelectPcs, FlushPcs, DlqPcs, FailPcs
<1>2. TaskDlqKept
  BY <1>1, <1>a, OneTaskMoves DEF TaskDlqKept
<1>3. loop' = loop
  BY DEF TaskStep, TaskError, Guard, Load, UpdateSelect, RunPipeline, RequeueGet, FailGet,
     UpdateFlush, Republish, Ack, DeadLetter, DlqAck
<1> QED
  BY <1>2, <1>3

\* A dispatched task is at its guard.
LEMMA DispatchEffect ==
    ASSUME ShapeInv, NEW w \in Workers, NEW ids, Dispatch(w, ids)
    PROVE  /\ \A k \in ids \cap Ids : tasks'[w][k].pc = "guard"
           /\ \A v \in Workers, k \in Ids : ~(v = w /\ k \in ids) => tasks'[v][k] = tasks[v][k]
<1>1. tasks' = [tasks EXCEPT ![w] = [k \in Ids |-> IF k \in ids THEN Dispatched ELSE tasks[w][k]]]
  BY DEF Dispatch
<1>2. Dispatched.pc = "guard"
  BY DEF Dispatched, NoTask
<1>3. tasks \in [Workers -> [Ids -> TaskRecord]]
  BY DEF ShapeInv, TypeOK, WorkerTypeOK, TaskRecord
<1> QED
  BY <1>1, <1>2, <1>3

LEMMA LoopAtPc == ASSUME NEW l \in LoopRecord, NEW pc, NEW C, NEW n
                  PROVE  LoopAt(l, pc, C, n).pc = pc
BY DEF LoopAt, LoopRecord

LEMMA NextPassPc == ASSUME NEW l \in LoopRecord, NEW n
                    PROVE  NextPass(l, n).pc # "dlqAck"
<1>1. \/ NextPass(l, n) = LoopAt(l, "drain", {}, 0)
      \/ NextPass(l, n) = LoopAt(l, "reclaim", {}, FreeCapacity(n))
      \/ NextPass(l, n) = LoopAt(l, "spin", {}, 0)
  BY DEF NextPass
<1> QED
  BY <1>1, LoopAtPc

LEMMA NextClaimedPc == ASSUME NEW l \in LoopRecord, NEW C, NEW F
                       PROVE  NextClaimed(l, C, F).pc # "dlqAck"
<1>1. \/ NextClaimed(l, C, F) = LoopAt(l, "xpending", StillToHandle(C, F), 0)
      \/ NextClaimed(l, C, F) = LoopAt(l, "read", {}, FreeCapacity(Cardinality(F)))
      \/ NextClaimed(l, C, F) = NextPass(l, Cardinality(F))
  BY DEF NextClaimed
<1> QED
  BY <1>1, LoopAtPc, NextPassPc

LEMMA LoopStepDlq ==
    ASSUME ShapeInv, NEW w \in Workers,
           LoopStep(w) \/ LoopError(w) \/ Sigterm(w) \/ SetStop(w) \/ Crash(w)
    PROVE  TaskDlqKept /\ LoopDlqKept
<1>1. loop[w] \in LoopRecord /\ NoLoop.pc = "down"
  BY LoopFacts DEF NoLoop
<1>2. TaskDlqKept
  <2>1. CASE \E ids : Dispatch(w, ids)
    <3>1. "guard" \notin DlqPcs /\ "none" \notin DlqPcs
      BY DEF DlqPcs, FailPcs
    <3> QED
      BY <2>1, <3>1, DispatchEffect DEF TaskDlqKept
  <2>2. CASE UNCHANGED tasks
    BY <2>2 DEF TaskDlqKept, DlqPcs, FailPcs
  <2>3. CASE Crash(w)
    <3>1. \A k \in Ids : tasks'[w][k].pc = "none"
      BY <2>3 DEF Crash, NoTask, ShapeInv, TypeOK, WorkerTypeOK
    <3>2. \A v \in Workers : v # w => tasks'[v] = tasks[v]
      BY <2>3 DEF Crash
    <3> QED
      BY <3>1, <3>2 DEF TaskDlqKept, DlqPcs, FailPcs
  <2> QED
    BY <2>1, <2>2, <2>3 DEF LoopStep, LoopError, Sigterm, SetStop, Boot, HandleReclaimed, ReadTimeout,
       WakeUp, DrainDone, SpinPass, EnsureGroup, ReclaimOrphans, ReclaimedToDlq, ReclaimedAck, ReadNew
<1>3. ASSUME NEW l, SetLoop(w, l),
             l.pc = "dlqAck" => /\ l.claimed = loop[w].claimed
                                /\ loop[w].pc = "dlqAck" \/ stream.log[Min(loop[w].claimed)] \in DeadLetters'
      PROVE  LoopDlqKept
  BY <1>3 DEF SetLoop, LoopDlqKept, ShapeInv, TypeOK, WorkerTypeOK
<1>4. CASE LoopError(w) \/ Boot(w) \/ Crash(w) \/ DrainDone(w)
  <2>1. PICK l : SetLoop(w, l) /\ l.pc \in {"boot", "sleep", "down", "stopped"}
    <3>1. /\ [NoLoop EXCEPT !.pc = "boot"].pc = "boot"
          /\ [loop[w] EXCEPT !.pc = "stopped"].pc = "stopped"
          /\ LoopAt(loop[w], "sleep", {}, 0).pc = "sleep"
      BY <1>1, LoopAtPc DEF NoLoop, LoopRecord
    <3> QED
      BY <1>1, <1>4, <3>1 DEF LoopError, Boot, Crash, DrainDone, BackOff
  <2> QED
    BY <1>2, <1>3, <2>1
<1>5. CASE Sigterm(w) \/ SetStop(w)
  <2>1. PICK s : SetLoop(w, [loop[w] EXCEPT !.stop = s])
    BY <1>5 DEF Sigterm, SetStop
  <2>2. /\ [loop[w] EXCEPT !.stop = s].pc = loop[w].pc
        /\ [loop[w] EXCEPT !.stop = s].claimed = loop[w].claimed
    BY <1>1 DEF LoopRecord
  <2> QED
    BY <1>2, <1>3, <2>1, <2>2
<1>6. CASE ReadTimeout(w) \/ WakeUp(w) \/ SpinPass(w) \/ (\E r \in Replies : EnsureGroup(w, r) \/ ReadNew(w, r))
  <2>1. PICK l : SetLoop(w, l) /\ l.pc # "dlqAck"
    <3>1. LoopAt(loop[w], "sleep", {}, 0).pc = "sleep"
      BY <1>1, LoopAtPc
    <3> QED
      BY <1>1, <1>6, <3>1, NextPassPc DEF ReadTimeout, WakeUp, SpinPass, EnsureGroup, ReadNew, BackOff
  <2> QED
    BY <1>2, <1>3, <2>1
<1>7. CASE HandleReclaimed(w)
  <2>1. PICK l : SetLoop(w, l) /\ l.pc # "dlqAck"
    <3> DEFINE q == [loop[w] EXCEPT !.pc = "dlq"]
    <3>1. q.pc = "dlq"
      BY <1>1 DEF LoopRecord
    <3>2. SetLoop(w, q) \/ \E C, F : SetLoop(w, NextClaimed(loop[w], C, F))
      BY <1>7 DEF HandleReclaimed
    <3> HIDE DEF q
    <3> QED
      BY <1>1, <3>1, <3>2, NextClaimedPc
  <2> QED
    BY <1>2, <1>3, <2>1
<1>8. ASSUME NEW r \in Replies, NEW R \in Claimable(w), ReclaimOrphans(w, R, r) PROVE LoopDlqKept
  <2> DEFINE m == [loop[w] EXCEPT !.cursor = XAutoClaimCursor(stream, R, loop[w].count)]
  <2>1. XAutoClaimCursor(stream, R, loop[w].count) \in 0 .. MaxEntries
    BY CursorType
  <2>2. m \in LoopRecord
    BY <1>1, <2>1 DEF LoopRecord
  <2>3. \/ SetLoop(w, NextClaimed(m, {k \in R : k >= stream.first}, InFlight(w)))
        \/ SetLoop(w, LoopAt(loop[w], "sleep", {}, 0))
    BY <1>8 DEF ReclaimOrphans, BackOff
  <2> HIDE DEF m
  <2>4. PICK l : SetLoop(w, l) /\ l.pc # "dlqAck"
    BY <1>1, <2>2, <2>3, LoopAtPc, NextClaimedPc
  <2> QED
    BY <1>3, <2>4
<1>9. ASSUME NEW r \in Replies, ReclaimedAck(w, r) PROVE LoopDlqKept
  <2>1. PICK l : SetLoop(w, l) /\ l.pc # "dlqAck"
    <3>1. LoopAt(loop[w], "sleep", {}, 0).pc = "sleep"
      BY <1>1, LoopAtPc
    <3> QED
      BY <1>1, <1>9, <3>1, NextClaimedPc DEF ReclaimedAck, BackOff
  <2> QED
    BY <1>3, <2>1
<1>10. ASSUME NEW r \in Replies, ReclaimedToDlq(w, r) PROVE LoopDlqKept
  <2>1. CASE SetLoop(w, LoopAt(loop[w], "sleep", {}, 0))
    <3>1. LoopAt(loop[w], "sleep", {}, 0).pc = "sleep"
      BY <1>1, LoopAtPc
    <3> QED
      BY <1>3, <2>1, <3>1
  <2>2. CASE SetLoop(w, [loop[w] EXCEPT !.pc = "dlqAck"])
    <3>1. [loop[w] EXCEPT !.pc = "dlqAck"].claimed = loop[w].claimed
      BY <1>1 DEF LoopRecord
    <3>2. stream.log[Min(loop[w].claimed)] \in DeadLetters'
      BY <1>10, LoopDeadLetters
    <3> QED
      BY <1>3, <2>2, <3>1, <3>2
  <2> QED
    BY <1>10, <2>1, <2>2 DEF ReclaimedToDlq, BackOff
<1> QED
  BY <1>2, <1>4, <1>5, <1>6, <1>7, <1>8, <1>9, <1>10 DEF LoopStep

LEMMA NextDlq == ASSUME ShapeInv, [Next]_vars PROVE TaskDlqKept /\ LoopDlqKept
<1>1. CASE UNCHANGED <<tasks, loop>>
  BY <1>1 DEF TaskDlqKept, LoopDlqKept, DlqPcs, FailPcs
<1>2. ASSUME NEW w \in Workers, WorkerStep(w) PROVE TaskDlqKept /\ LoopDlqKept
  <2>1. ASSUME NEW i \in Ids, TaskStep(w, i) \/ TaskError(w, i) PROVE TaskDlqKept /\ LoopDlqKept
    <3>1. TaskDlqKept /\ loop' = loop
      BY <2>1, TaskStepDlq
    <3> QED
      BY <3>1 DEF LoopDlqKept
  <2> QED
    BY <1>2, <2>1, LoopStepDlq DEF WorkerStep
<1> QED
  BY <1>1, <1>2 DEF Next, vars, workerVars

-----------------------------------------------------------------------------
LEMMA InitSafety == Init => SafetyInv
<1> SUFFICES ASSUME Init PROVE SafetyInv
  OBVIOUS
<1>1. ShapeInv
  BY InitShape
<1>2. DlqBeforeAck
  BY DEF Init, WorkerInit, DlqBeforeAck, NoTask, NoLoop, FailPcs
<1>3. FailedIsDeadLettered
  BY DEF Init, StoresInit, FailedIsDeadLettered, NoRow
<1> QED
  BY <1>1, <1>2, <1>3 DEF SafetyInv

LEMMA DlqBeforeAckKept ==
    ASSUME SafetyInv, ShapeInv', [Next]_vars PROVE DlqBeforeAck'
<1>1. ShapeInv /\ DlqBeforeAck
  BY DEF SafetyInv
<1>2. HistoryKept /\ TaskDlqKept /\ LoopDlqKept
  BY <1>1, NextHistory, NextDlq
<1>3. ASSUME NEW v \in Workers, NEW k \in InFlight(v) \cup loop[v].claimed
      PROVE  k \in 1 .. Len(stream.log)
  <2>1. k \in Ids /\ k <= stream.last
    BY <1>1, <1>3, LoopFacts
  <2>2. stream.last \in Int /\ stream.last <= Len(stream.log) /\ Len(stream.log) \in Nat
    BY <1>1 DEF ShapeInv, TypeOK, StoresTypeOK, NoGroup
  <2> HIDE <1>1
  <2> QED
    BY <2>1, <2>2, StreamAssumption DEF Ids
<1>4. ASSUME NEW v \in Workers, NEW k \in Ids, tasks'[v][k].pc \in FailPcs \cup {"dlqAck"}
      PROVE  stream'.log[k] \in DeadLetters'
  <2>1. stream.log[k] \in DeadLetters'
    BY <1>1, <1>2, <1>4 DEF HistoryKept, TaskDlqKept, DlqPcs, DlqBeforeAck
  <2>2. k \in InFlight(v)
    BY <1>2, <1>4 DEF TaskDlqKept, DlqPcs, InFlight
  <2>3. stream'.log[k] = stream.log[k]
    BY <1>2, <1>3, <2>2 DEF HistoryKept
  <2> QED
    BY <2>1, <2>3
<1>5. ASSUME NEW v \in Workers, loop'[v].pc = "dlqAck"
      PROVE  stream'.log[Min(loop'[v].claimed)] \in DeadLetters'
  <2> DEFINE k == Min(loop[v].claimed)
  <2>1. loop'[v].claimed = loop[v].claimed /\ stream.log[k] \in DeadLetters'
    BY <1>1, <1>2, <1>5 DEF LoopDlqKept, HistoryKept, DlqBeforeAck
  <2>2. loop[v].claimed # {}
    BY <1>5, <2>1 DEF ShapeInv, LoopShape
  <2>3. k \in loop[v].claimed
    <3>1. loop[v].claimed \in SUBSET Ids
      BY <1>1, LoopFacts
    <3> QED
      BY <2>2, <3>1, MinOfIds
  <2>4. stream'.log[k] = stream.log[k]
    BY <1>2, <1>3, <2>3 DEF HistoryKept
  <2> QED
    BY <2>1, <2>4
<1> QED
  BY <1>4, <1>5 DEF DlqBeforeAck

\* Only an insert and the second statement of an update write the jobs table.
LEMMA RowsAreWritten ==
    ASSUME [Next]_vars, rows' # rows
    PROVE  \/ /\ \E w \in Workers, i \in Ids, r \in Replies : UpdateFlush(w, i, r)
              /\ UNCHANGED ingestionVars
           \/ \E j \in Jobs, r \in Replies : Insert(j, r)
<1>1. ASSUME NEW j \in Jobs, Submit(j) PROVE \E r \in Replies : Insert(j, r)
  BY <1>1 DEF Submit, Publish, InsertError, PublishError, RequestDies
<1>2. ASSUME NEW w \in Workers, WorkerStep(w)
      PROVE  \E i \in Ids, r \in Replies : UpdateFlush(w, i, r)
  <2>1. ASSUME NEW i \in Ids, TaskStep(w, i) \/ TaskError(w, i)
        PROVE  \E r \in Replies : UpdateFlush(w, i, r)
    BY <2>1 DEF TaskStep, TaskError, Guard, Load, UpdateSelect, RunPipeline, RequeueGet,
       FailGet, Republish, Ack, DeadLetter, DlqAck, storeVars
  <2>2. CASE LoopStep(w) \/ LoopError(w) \/ Sigterm(w) \/ SetStop(w) \/ Crash(w)
    BY <2>2 DEF LoopStep, LoopError, Sigterm, SetStop, Crash, Boot, HandleReclaimed, ReadTimeout,
       WakeUp, DrainDone, SpinPass, EnsureGroup, ReclaimOrphans, ReclaimedToDlq, ReclaimedAck, ReadNew, storeVars
  <2> QED
    BY <1>2, <2>1, <2>2 DEF WorkerStep
<1>3. ~UNCHANGED vars
  BY DEF vars, storeVars
<1> QED
  BY <1>1, <1>2, <1>3 DEF Next

\* Only mark_failed writes FAILED, and its task has dead-lettered the pointer.
LEMMA FailedKept ==
    ASSUME SafetyInv, [Next]_vars PROVE FailedIsDeadLettered'
<1>1. ShapeInv /\ DlqBeforeAck /\ FailedIsDeadLettered
  BY DEF SafetyInv
<1>2. DeadLetters \subseteq DeadLetters'
  BY <1>1, NextHistory DEF HistoryKept
<1>3. ASSUME NEW j \in Jobs, rows'[j].status = "failed" => rows[j].status = "failed" \/ DeadLettered(j)
      PROVE  rows'[j].status = "failed" => DeadLettered(j)'
  BY <1>1, <1>2, <1>3 DEF FailedIsDeadLettered, DeadLettered
<1>4. ASSUME NEW w \in Workers, NEW i \in Ids, NEW r \in Replies, UpdateFlush(w, i, r), NEW j \in Jobs
      PROVE  rows'[j].status = "failed" => rows[j].status = "failed" \/ DeadLettered(j)
  <2> DEFINE t == tasks[w][i]
             m == MergeInto(rows[JobOf(i)], t.base, t.job)
  <2>1. t.pc \in FlushPcs
    BY <1>4 DEF UpdateFlush, At
  <2>2. t.job.status = WrittenStatus[t.pc]
    BY <1>1, <2>1 DEF ShapeInv, TaskShape, WrittenStatus, FlushPcs
  <2>3. t.job.status = "failed" => stream.log[i] \in DeadLetters
    <3>1. t.job.status = "failed" => t.pc = "failFlush"
      BY <2>1, <2>2 DEF WrittenStatus, FlushPcs
    <3> QED
      BY <1>1, <3>1 DEF DlqBeforeAck, FailPcs
  <2>4. rows' = [rows EXCEPT ![JobOf(i)] = m] /\ rows \in [Jobs -> Job \cup {NoRow}]
    BY <1>1, <1>4 DEF UpdateFlush, UpdateRow, ShapeInv, TypeOK, StoresTypeOK
  <2>5. m.status = rows[JobOf(i)].status \/ m.status = t.job.status
    BY DEF MergeInto
  <2>6. CASE j = JobOf(i)
    <3>1. rows'[j].status = rows[j].status \/ rows'[j].status = t.job.status
      <4> HIDE DEF m
      <4> QED
        BY <2>4, <2>5, <2>6
    <3> QED
      BY <2>3, <2>6, <3>1 DEF DeadLettered, JobOf
  <2>7. CASE j # JobOf(i)
    <3> HIDE DEF m
    <3> QED
      BY <2>4, <2>7
  <2> QED
    BY <2>6, <2>7
<1>5. ASSUME NEW i \in Jobs, NEW r, Insert(i, r), NEW j \in Jobs
      PROVE  rows'[j].status = "failed" => rows[j].status = "failed" \/ DeadLettered(j)
  BY <1>1, <1>5 DEF Insert, Add, NewJob, ShapeInv, TypeOK, StoresTypeOK
<1>6. CASE rows' = rows
  BY <1>3, <1>6 DEF FailedIsDeadLettered
<1>7. CASE rows' # rows
  <2>1. \/ \E w \in Workers, i \in Ids, r \in Replies : UpdateFlush(w, i, r)
        \/ \E i \in Jobs, r \in Replies : Insert(i, r)
    BY <1>7, RowsAreWritten
  <2> QED
    BY <1>3, <1>4, <1>5, <2>1 DEF FailedIsDeadLettered
<1> QED
  BY <1>6, <1>7

LEMMA NextSafety == ASSUME SafetyInv, [Next]_vars PROVE SafetyInv'
<1>1. ShapeInv'
  BY NextShape DEF SafetyInv
<1> QED
  BY <1>1, DlqBeforeAckKept, FailedKept DEF SafetyInv

\* The safety invariant holds of the engine in every configuration.
THEOREM SafetyInvariant == Spec => []SafetyInv
<1>1. Init => SafetyInv
  BY InitSafety
<1>2. SafetyInv /\ [Next]_vars => SafetyInv'
  BY NextSafety
<1> QED
  BY <1>1, <1>2, PTL DEF Spec

\* The pointer of a job whose row says FAILED has reached the dead-letter stream, and is
\* there unless at least MaxLen later dead letters displaced it, whatever failed or died on
\* the way: _route_to_dlq comes before _mark_failed on every path.
THEOREM FailedJobsAreDeadLettered == Spec => []FailedIsDeadLettered
<1>1. SafetyInv => FailedIsDeadLettered
  BY DEF SafetyInv
<1> QED
  BY <1>1, SafetyInvariant, PTL

-----------------------------------------------------------------------------
\* Only the loop dispatches, and only entries its process has no task for: what it
\* reads is new to the group, and what it reclaims is checked against _in_flight_ids.
LEMMA DispatchIsFresh ==
    ASSUME ShapeInv, [Next]_vars, NEW v \in Workers, NEW k \in Ids,
           tasks[v][k].pc \notin {"none", "guard"}
    PROVE  tasks'[v][k].pc # "guard"
<1>1. CASE UNCHANGED tasks
  BY <1>1
<1>2. ASSUME NEW w \in Workers, NEW i \in Ids, TaskStep(w, i) \/ TaskError(w, i)
      PROVE  tasks'[v][k].pc # "guard"
  <2>1. PICK t : tasks' = [tasks EXCEPT ![w][i] = t] /\ t.pc # "guard"
    <3> USE DEF Goto, SetTask
    <3>1. CASE Guard(w, i) \/ Load(w, i) \/ RequeueGet(w, i) \/ FailGet(w, i) \/ TaskError(w, i)
               \/ \E outcome \in Outcomes : RunPipeline(w, i, outcome)
      BY <3>1 DEF Guard, Load, RequeueGet, FailGet, TaskError, RunPipeline, Outcomes, OnTransient, ErrorPc
    <3>2. CASE UpdateSelect(w, i)
      BY <3>2 DEF UpdateSelect, At, SelectPcs, FlushAfter, ErrorPc
    <3>3. ASSUME NEW r \in Replies, UpdateFlush(w, i, r)
          PROVE  \E t : tasks' = [tasks EXCEPT ![w][i] = t] /\ t.pc # "guard"
      <4> DEFINE next == IF r = "ok" THEN AfterFlush(tasks[w][i].pc) ELSE ErrorPc(tasks[w][i].pc)
      <4>1. tasks[w][i].pc \in FlushPcs
        BY <3>3 DEF UpdateFlush, At
      <4>2. next # "guard"
        BY <4>1 DEF FlushPcs, AfterFlush, ErrorPc
      <4>3. PICK job : tasks' = [tasks EXCEPT ![w][i] = [pc |-> next, job |-> job, base |-> NoRow]]
        BY <3>3 DEF UpdateFlush
      <4> DEFINE u == [pc |-> next, job |-> job, base |-> NoRow]
      <4>4. tasks' = [tasks EXCEPT ![w][i] = u] /\ u.pc = next
        BY <4>3
      <4> HIDE DEF next, u
      <4> QED
        BY <4>2, <4>4
    <3>4. CASE \E r \in Replies : Republish(w, i, r) \/ Ack(w, i, r) \/ DeadLetter(w, i, r) \/ DlqAck(w, i, r)
      BY <3>4 DEF Republish, Ack, DeadLetter, DlqAck
    <3> QED
      BY <1>2, <3>1, <3>2, <3>3, <3>4 DEF TaskStep
  <2> QED
    BY <2>1, OneTaskMoves
<1>3. ASSUME NEW w \in Workers, NEW ids, Dispatch(w, ids), \A i \in ids : i \notin InFlight(w)
      PROVE  tasks'[v][k].pc # "guard"
  <2>1. ~(v = w /\ k \in ids)
    BY <1>3 DEF InFlight
  <2> QED
    BY <1>3, <2>1, DispatchEffect
<1>4. ASSUME NEW w \in Workers, HandleReclaimed(w) PROVE tasks'[v][k].pc # "guard"
  <2>1. GoodLoop(loop[w], InFlight(w))
    BY LoopFacts
  <2>2. Min(loop[w].claimed) \notin InFlight(w)
    BY <1>4, <2>1 DEF GoodLoop, HandleReclaimed
  <2> QED
    BY <1>1, <1>3, <1>4, <2>2 DEF HandleReclaimed
<1>5. ASSUME NEW w \in Workers, NEW r \in Replies, ReadNew(w, r), UNCHANGED ingestionVars
      PROVE  tasks'[v][k].pc # "guard"
  <2>1. \A i \in XReadIds(stream, loop[w].count) : i \notin InFlight(w)
    BY <1>5, ReadNewShape
  <2> QED
    BY <1>1, <1>3, <1>5, <2>1 DEF ReadNew
<1>6. ASSUME NEW w \in Workers, Crash(w) PROVE tasks'[v][k].pc # "guard"
  BY <1>6 DEF Crash, NoTask, ShapeInv, TypeOK, WorkerTypeOK
<1>7. ASSUME NEW w \in Workers, LoopStep(w) \/ LoopError(w) \/ Sigterm(w) \/ SetStop(w), UNCHANGED ingestionVars
      PROVE  tasks'[v][k].pc # "guard"
  BY <1>1, <1>4, <1>5, <1>7 DEF LoopStep, LoopError, Sigterm, SetStop, Boot, ReadTimeout, WakeUp, DrainDone,
     SpinPass, EnsureGroup, ReclaimOrphans, ReclaimedToDlq, ReclaimedAck
<1> QED
  BY <1>1, <1>2, <1>6, <1>7 DEF Next, WorkerStep, vars, workerVars

\* XAUTOCLAIM may return an entry its own process is still working on; no running
\* task is ever replaced by, or joined by, a second task for the same entry.
THEOREM RunningTasksAreKept == Spec => NoDoubleDispatch
<1>1. ShapeInv /\ [Next]_vars =>
        [\A w \in Workers, i \in Ids : tasks[w][i].pc \notin {"none", "guard"} => tasks'[w][i].pc # "guard"]_vars
  BY DispatchIsFresh
<1> QED
  BY <1>1, ShapeInvariant, PTL DEF Spec, NoDoubleDispatch
=============================================================================
