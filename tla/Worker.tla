-------------------------------- MODULE Worker --------------------------------
(***************************************************************************)
(* A worker process: worker/runner.py, StreamConsumer                      *)
(* (adapters/broker/consumer.py) and JobProcessor (services/processor.py). *)
(*                                                                         *)
(* A process runs one event loop.  On it interleave the consume loop       *)
(* (loop[w]) and one task per dispatched entry (tasks[w][i]).  A step is   *)
(* one awaited server call together with the code that runs, without       *)
(* another await, on its reply; a pc names the call that is awaited.       *)
(***************************************************************************)
EXTENDS Stores

CONSTANTS
    Workers,        \* worker processes
    Concurrency,    \* broker.worker_concurrency
    IdleMeansOrphan,\* is reclaim_idle_ms above the longest run of a live task?
    MaxStops        \* bound: SIGTERMs

ASSUME WorkerAssumption ==
    /\ Concurrency \in Nat \ {0}
    /\ IdleMeansOrphan \in BOOLEAN
    /\ MaxStops \in Nat

VARIABLES
    loop,           \* per worker: the consume loop and the stop event
    tasks,          \* per worker and entry id: the task that processes it
    execs,          \* per job: how often its pipeline was started
    stops           \* SIGTERMs sent so far

workerVars == <<loop, tasks, execs, stops>>

-----------------------------------------------------------------------------
(* Tasks.  `job' is the job object the task holds, `base' the row its      *)
(* session has SELECTed for an update that is not flushed yet.             *)

\* pc of a task, in the order of a successful run:
\*   guard          _already_terminal: repository.get
\*   load           process: repository.get
\*   startSelect    process: update after mark_running, SELECT ...
\*   startFlush       ... and UPDATE
\*   pipeline       process: pipeline.run
\*   successSelect  process: update after mark_success
\*   successFlush
\*   ack            _ack
\* the transient path, _on_transient:
\*   requeueGet, requeueSelect, requeueFlush, republish, ack
\* the dead-letter path, _route_to_dlq and _mark_failed:
\*   dlq, dlqAck, failGet, failSelect, failFlush
SelectPcs == {"startSelect", "successSelect", "requeueSelect", "failSelect"}
FlushPcs == {"startFlush", "successFlush", "requeueFlush", "failFlush"}
TaskPcs == {"none", "guard", "load", "pipeline", "ack", "requeueGet", "republish",
            "dlq", "dlqAck", "failGet"} \cup SelectPcs \cup FlushPcs

NoTask == [pc |-> "none", job |-> NoRow, base |-> NoRow]

\* A dispatched task has not run yet: its first await is the guard's read.
Dispatched == [NoTask EXCEPT !.pc = "guard"]

InFlight(w) == {i \in Ids : tasks[w][i].pc # "none"}

\* The event loop of w runs its tasks and callbacks. It does not when the process
\* is gone, and not when the consume loop never suspends ("spin").
Running(w) == loop[w].pc \notin {"down", "stopped", "spin"}

At(w, i, pcs) == Running(w) /\ tasks[w][i].pc \in pcs

JobOf(i) == stream.log[i].job

SetTask(w, i, pc, job, base) ==
    tasks' = [tasks EXCEPT ![w][i] = [pc |-> pc, job |-> job, base |-> base]]

Goto(w, i, pc) == SetTask(w, i, pc, NoRow, NoRow)

\* Wrong: a RUNNING row is left to whoever set it.
SkippableUnlessPending(row) == row.status # "pending"

\* The idempotency guards: the row is terminal or gone, so nothing is left to do.
Skippable(row) == row = NoRow \/ IsTerminal(row)

\* Where an exception of the awaited call takes the task. Inside process() it
\* reaches `except Exception' and the dead-letter path; anywhere else it escapes
\* _process_and_route and the task ends with the entry still pending.
ErrorPc(pc) ==
    IF pc \in {"load", "startSelect", "startFlush", "successSelect", "successFlush"}
    THEN "dlq" ELSE "none"

\* _process_and_route: the guard that makes at-least-once delivery safe.
Guard(w, i) ==
    /\ At(w, i, {"guard"})
    /\ Goto(w, i, IF Skippable(rows[JobOf(i)]) THEN "ack" ELSE "load")
    /\ UNCHANGED <<storeVars, loop, execs, stops>>

\* JobProcessor.process: load, skip or mark_running. mark_running raises
\* InvalidTransition on a RUNNING row, outside the try of process().
Load(w, i) ==
    /\ At(w, i, {"load"})
    /\ LET row == rows[JobOf(i)]
       IN  CASE Skippable(row)          -> Goto(w, i, "ack")
             [] CanMove(row, "running") -> SetTask(w, i, "startSelect", MarkRunning(row), NoRow)
             [] OTHER                   -> Goto(w, i, "dlq")
    /\ UNCHANGED <<storeVars, loop, execs, stops>>

\* repository.update, first statement.
FlushAfter(pc) ==
    CASE pc = "startSelect"   -> "startFlush"
      [] pc = "successSelect" -> "successFlush"
      [] pc = "requeueSelect" -> "requeueFlush"
      [] pc = "failSelect"    -> "failFlush"

UpdateSelect(w, i) ==
    /\ At(w, i, SelectPcs)
    /\ LET t   == tasks[w][i]
           row == rows[JobOf(i)]
       IN  IF row = NoRow
           THEN Goto(w, i, ErrorPc(t.pc))
           ELSE SetTask(w, i, FlushAfter(t.pc), t.job, row)
    /\ UNCHANGED <<storeVars, loop, execs, stops>>

\* Wrong: the retry is acknowledged without a fresh entry.
AfterFlushNoRepublish(pc) ==
    CASE pc = "startFlush"   -> "pipeline"
      [] pc = "successFlush" -> "ack"
      [] pc = "requeueFlush" -> "ack"
      [] pc = "failFlush"    -> "none"

\* repository.update, second statement and commit.
AfterFlush(pc) ==
    CASE pc = "startFlush"   -> "pipeline"
      [] pc = "successFlush" -> "ack"
      [] pc = "requeueFlush" -> "republish"
      [] pc = "failFlush"    -> "none"

UpdateFlush(w, i, r) ==
    /\ At(w, i, FlushPcs)
    /\ Replied(r)
    /\ LET t    == tasks[w][i]
           next == IF r = "ok" THEN AfterFlush(t.pc) ELSE ErrorPc(t.pc)
       IN  /\ UpdateRow(JobOf(i), t.base, t.job)
           /\ SetTask(w, i, next, IF next = "pipeline" THEN t.job ELSE NoRow, NoRow)
           /\ execs' = IF next = "pipeline" THEN [execs EXCEPT ![JobOf(i)] = @ + 1]
                                            ELSE execs
    /\ UNCHANGED <<stream, dlq, crashes, loop, stops>>

\* pipeline.run and its three outcomes; `permanent' stands for every exception
\* that is not transient (process() wraps an unexpected one as permanent).
Outcomes == {"result", "transient", "permanent"}

\* Wrong: one attempt too many; no requeue before the republish.
OnTransientLate(message) == IF message.attempt > MaxAttempts THEN "dlq" ELSE "requeueGet"
OnTransientNoRequeue(message) == IF message.attempt >= MaxAttempts THEN "dlq" ELSE "republish"

\* _on_transient: where a transient failure takes the task, by its attempt.
OnTransient(message) == IF message.attempt >= MaxAttempts THEN "dlq" ELSE "requeueGet"

RunPipeline(w, i, outcome) ==
    /\ At(w, i, {"pipeline"})
    /\ CASE outcome = "result" ->
                SetTask(w, i, "successSelect", MarkSuccess(tasks[w][i].job), NoRow)
         [] outcome = "transient" ->
                Goto(w, i, OnTransient(stream.log[i]))
         [] outcome = "permanent" -> Goto(w, i, "dlq")
    /\ UNCHANGED <<storeVars, loop, execs, stops>>

\* _requeue_row: a vanished row is passed over, an InvalidTransition escapes.
RequeueGet(w, i) ==
    /\ At(w, i, {"requeueGet"})
    /\ LET row == rows[JobOf(i)]
       IN  CASE row = NoRow             -> Goto(w, i, "republish")
             [] CanMove(row, "pending") -> SetTask(w, i, "requeueSelect", Requeue(row), NoRow)
             [] OTHER                   -> Goto(w, i, "none")
    /\ UNCHANGED <<storeVars, loop, execs, stops>>

\* Wrong: the row is requeued after the new entry is visible.
RepublishFirst(w, i, r) ==
    /\ At(w, i, {"republish"})
    /\ Replied(r)
    /\ Xadd(NextAttempt(stream.log[i]))
    /\ Goto(w, i, IF r = "ok" THEN "requeueGet" ELSE "none")
    /\ UNCHANGED <<rows, dlq, crashes, loop, execs, stops>>

\* _on_transient: the fresh entry is added before the old one is acknowledged.
Republish(w, i, r) ==
    /\ At(w, i, {"republish"})
    /\ Replied(r)
    /\ Xadd(NextAttempt(stream.log[i]))
    /\ Goto(w, i, IF r = "ok" THEN "ack" ELSE "none")
    /\ UNCHANGED <<rows, dlq, crashes, loop, execs, stops>>

\* The last call of the success, skip and retry paths.
Ack(w, i, r) ==
    /\ At(w, i, {"ack"})
    /\ Replied(r)
    /\ stream' = XAck(stream, i)
    /\ Goto(w, i, "none")
    /\ UNCHANGED <<rows, dlq, crashes, loop, execs, stops>>

\* Wrong: the pointer is not added to the dead-letter stream.
DeadLetterForgets(w, i, r) ==
    /\ At(w, i, {"dlq"})
    /\ Replied(r)
    /\ Goto(w, i, IF r = "ok" THEN "dlqAck" ELSE "none")
    /\ UNCHANGED <<rows, stream, dlq, crashes, loop, execs, stops>>

\* _route_to_dlq, first call and second call.
DeadLetter(w, i, r) ==
    /\ At(w, i, {"dlq"})
    /\ Replied(r)
    /\ AddToDlq(stream.log[i])
    /\ Goto(w, i, IF r = "ok" THEN "dlqAck" ELSE "none")
    /\ UNCHANGED <<rows, stream, crashes, loop, execs, stops>>

DlqAck(w, i, r) ==
    /\ At(w, i, {"dlqAck"})
    /\ Replied(r)
    /\ stream' = XAck(stream, i)
    /\ Goto(w, i, IF r = "ok" THEN "failGet" ELSE "none")
    /\ UNCHANGED <<rows, dlq, crashes, loop, execs, stops>>

\* _mark_failed: returns on a vanished row, raises unless the row is RUNNING.
FailGet(w, i) ==
    /\ At(w, i, {"failGet"})
    /\ LET row == rows[JobOf(i)]
       IN  IF CanMove(row, "failed")
           THEN SetTask(w, i, "failSelect", MarkFailed(row), NoRow)
           ELSE Goto(w, i, "none")
    /\ UNCHANGED <<storeVars, loop, execs, stops>>

\* The awaited server call raises without having been executed.
TaskError(w, i) ==
    /\ At(w, i, TaskPcs \ {"none", "pipeline"})
    /\ NotExecuted
    /\ Goto(w, i, ErrorPc(tasks[w][i].pc))
    /\ UNCHANGED <<rows, stream, dlq, crashes, loop, execs, stops>>

TaskStep(w, i) ==
    \/ Guard(w, i)
    \/ Load(w, i)
    \/ UpdateSelect(w, i)
    \/ \E outcome \in Outcomes : RunPipeline(w, i, outcome)
    \/ RequeueGet(w, i)
    \/ FailGet(w, i)
    \/ \E r \in Replies : \/ UpdateFlush(w, i, r)
                          \/ Republish(w, i, r)
                          \/ Ack(w, i, r)
                          \/ DeadLetter(w, i, r)
                          \/ DlqAck(w, i, r)

-----------------------------------------------------------------------------
(* The consume loop.                                                       *)
(*   boot      ensure_group              dlq, dlqAck  a reclaimed entry is *)
(*   reclaim   XAUTOCLAIM                             dead-lettered        *)
(*   xpending  _delivery_count of the    read         XREADGROUP           *)
(*             next claimed entry        sleep        back-off after an    *)
(*   drain     gather of the tasks                    exception            *)
(*   spin      passes that never await   down, stopped  no process         *)
(* `count' is the COUNT of the awaited call, `claimed' what is left of the *)
(* entries XAUTOCLAIM returned (handled in id order), `cursor' where the   *)
(* next XAUTOCLAIM starts, `stop' whether SIGTERM was sent and whether its *)
(* handler has set the stop event.                                         *)

LoopPcs == {"down", "boot", "reclaim", "xpending", "dlq", "dlqAck", "read", "sleep",
            "drain", "spin", "stopped"}

NoLoop == [pc |-> "down", count |-> 0, claimed |-> {}, cursor |-> 0, stop |-> "no"]

\* The loop awaits another call; the cursor and the stop event stay.
LoopAt(l, pc, claimed, count) ==
    [l EXCEPT !.pc = pc, !.claimed = claimed, !.count = count]

\* Wrong: one task too many.
FreeCapacityOffByOne(n) == Concurrency + 1 - n

\* _free_capacity, with n tasks in flight.
FreeCapacity(n) == Concurrency - n

\* Wrong: the stop event is not looked at between passes.
NextPassForever(l, n) ==
    IF FreeCapacity(n) > 0 THEN LoopAt(l, "reclaim", {}, FreeCapacity(n))
                           ELSE LoopAt(l, "spin", {}, 0)

\* The head of `while not stop.is_set()' and the start of a pass, up to its first
\* await. At full capacity neither _reclaim_orphans nor consume_once awaits
\* anything: the pass returns to the head of the loop without suspending.
NextPass(l, n) ==
    CASE l.stop = "set"                        -> LoopAt(l, "drain", {}, 0)
      [] l.stop # "set" /\ FreeCapacity(n) > 0 -> LoopAt(l, "reclaim", {}, FreeCapacity(n))
      [] OTHER                                 -> LoopAt(l, "spin", {}, 0)

\* Wrong: entries in flight are handled like the others.
StillToHandleAll(claimed, inFlight) == claimed

\* _handle_reclaimed returns at once for entries this process is working on.
StillToHandle(claimed, inFlight) ==
    {i \in claimed : \E k \in claimed : k <= i /\ k \notin inFlight}

\* The for-loop over the claimed entries, up to the next await: the delivery
\* count of the next one, or the read that follows the last.
NextClaimed(l, claimed, inFlight) ==
    LET left     == StillToHandle(claimed, inFlight)
        capacity == FreeCapacity(Cardinality(inFlight))
    IN  CASE left # {}                   -> LoopAt(l, "xpending", left, 0)
          [] left = {} /\ capacity > 0   -> LoopAt(l, "read", {}, capacity)
          [] OTHER                       -> NextPass(l, Cardinality(inFlight))

SetLoop(w, l) == loop' = [loop EXCEPT ![w] = l]

\* consume_once raised: run() logs it and sleeps.
BackOff(w) == SetLoop(w, LoopAt(loop[w], "sleep", {}, 0))

\* _dispatch, for each of a set of entries.
Dispatch(w, ids) ==
    tasks' = [tasks EXCEPT ![w] = [i \in Ids |-> IF i \in ids THEN Dispatched ELSE @[i]]]

\* The container's restart policy starts the process (again).
Boot(w) ==
    /\ loop[w].pc = "down"
    /\ SetLoop(w, [NoLoop EXCEPT !.pc = "boot"])
    /\ UNCHANGED <<storeVars, tasks, execs, stops>>

EnsureGroup(w, r) ==
    /\ loop[w].pc = "boot"
    /\ Replied(r)
    /\ stream' = XGroupCreate(stream)
    /\ SetLoop(w, IF r = "ok" THEN NextPass(loop[w], 0) ELSE NoLoop)
    /\ UNCHANGED <<rows, dlq, crashes, tasks, execs, stops>>

\* Somebody alive is working on entry i, or is about to.
Held(i) == \E v \in Workers : Running(v) /\ (i \in InFlight(v) \/ i \in loop[v].claimed)

\* The entries that may be idle for reclaim_idle_ms. Time is not modelled: any
\* pending entry may be, unless reclaim_idle_ms is above every task's run.
MayBeIdle == {i \in Pending(stream) : IdleMeansOrphan => ~Held(i)}

\* _reclaim_orphans: XAUTOCLAIM and the loop over what it returned.
Claimable(w) == XAutoClaimSets(stream, MayBeIdle, loop[w].cursor, loop[w].count)

ReclaimOrphans(w, R, r) ==
    /\ loop[w].pc = "reclaim"
    /\ Replied(r)
    /\ stream' = XAutoClaim(stream, R)
    /\ IF r = "ok"
       THEN SetLoop(w, NextClaimed([loop[w] EXCEPT
                                        !.cursor = XAutoClaimCursor(stream, R, loop[w].count)],
                                   {i \in R : i >= stream.first}, InFlight(w)))
       ELSE BackOff(w)
    /\ UNCHANGED <<rows, dlq, crashes, tasks, execs, stops>>

\* _handle_reclaimed: the delivery count decides between dispatch and DLQ.
HandleReclaimed(w) ==
    /\ loop[w].pc = "xpending"
    /\ LET i == Min(loop[w].claimed)
       IN  IF stream.pel[i] > MaxDelivery
           THEN /\ SetLoop(w, [loop[w] EXCEPT !.pc = "dlq"])
                /\ UNCHANGED tasks
           ELSE /\ Dispatch(w, {i})
                /\ SetLoop(w, NextClaimed(loop[w], loop[w].claimed \ {i}, InFlight(w) \cup {i}))
    /\ UNCHANGED <<storeVars, execs, stops>>

ReclaimedToDlq(w, r) ==
    /\ loop[w].pc = "dlq"
    /\ Replied(r)
    /\ AddToDlq(stream.log[Min(loop[w].claimed)])
    /\ IF r = "ok" THEN SetLoop(w, [loop[w] EXCEPT !.pc = "dlqAck"]) ELSE BackOff(w)
    /\ UNCHANGED <<rows, stream, crashes, tasks, execs, stops>>

ReclaimedAck(w, r) ==
    /\ loop[w].pc = "dlqAck"
    /\ Replied(r)
    /\ LET i == Min(loop[w].claimed)
       IN  /\ stream' = XAck(stream, i)
           /\ IF r = "ok"
              THEN SetLoop(w, NextClaimed(loop[w], loop[w].claimed \ {i}, InFlight(w)))
              ELSE BackOff(w)
    /\ UNCHANGED <<rows, dlq, crashes, tasks, execs, stops>>

\* _read_new and the dispatch of every entry it returned.
ReadNew(w, r) ==
    /\ loop[w].pc = "read"
    /\ Replied(r)
    /\ LET ids == XReadIds(stream, loop[w].count)
       IN  /\ ids # {}
           /\ stream' = XReadGroup(stream, ids)
           /\ IF r = "ok"
              THEN /\ Dispatch(w, ids)
                   /\ SetLoop(w, NextPass(loop[w], Cardinality(InFlight(w) \cup ids)))
              ELSE /\ BackOff(w)
                   /\ UNCHANGED tasks
    /\ UNCHANGED <<rows, dlq, crashes, execs, stops>>

\* XREADGROUP returns nothing after block_ms.
ReadTimeout(w) ==
    /\ loop[w].pc = "read"
    /\ Undelivered(stream) = {}
    /\ SetLoop(w, NextPass(loop[w], Cardinality(InFlight(w))))
    /\ UNCHANGED <<storeVars, tasks, execs, stops>>

\* The awaited call of the loop raises without having been executed. During
\* ensure_group the exception ends the process.
LoopError(w) ==
    /\ loop[w].pc \in {"boot", "reclaim", "xpending", "dlq", "dlqAck", "read"}
    /\ NotExecuted
    /\ IF loop[w].pc = "boot" THEN SetLoop(w, NoLoop) ELSE BackOff(w)
    /\ UNCHANGED <<rows, stream, dlq, crashes, tasks, execs, stops>>

WakeUp(w) ==
    /\ loop[w].pc = "sleep"
    /\ SetLoop(w, NextPass(loop[w], Cardinality(InFlight(w))))
    /\ UNCHANGED <<storeVars, tasks, execs, stops>>

\* Wrong: the process exits without waiting for its tasks.
DrainDoneEarly(w) ==
    /\ loop[w].pc = "drain"
    /\ SetLoop(w, [loop[w] EXCEPT !.pc = "stopped"])
    /\ UNCHANGED <<storeVars, tasks, execs, stops>>

\* drain: gather returns when every in-flight task is done; the process exits.
DrainDone(w) ==
    /\ loop[w].pc = "drain"
    /\ InFlight(w) = {}
    /\ SetLoop(w, [loop[w] EXCEPT !.pc = "stopped"])
    /\ UNCHANGED <<storeVars, tasks, execs, stops>>

\* One more pass of a loop that never suspends.
SpinPass(w) ==
    /\ loop[w].pc = "spin"
    /\ SetLoop(w, NextPass(loop[w], Cardinality(InFlight(w))))
    /\ UNCHANGED <<storeVars, tasks, execs, stops>>

LoopStep(w) ==
    \/ Boot(w)
    \/ HandleReclaimed(w)
    \/ ReadTimeout(w)
    \/ WakeUp(w)
    \/ DrainDone(w)
    \/ SpinPass(w)
    \/ \E r \in Replies : \/ EnsureGroup(w, r)
                          \/ \E R \in Claimable(w) : ReclaimOrphans(w, R, r)
                          \/ ReclaimedToDlq(w, r)
                          \/ ReclaimedAck(w, r)
                          \/ ReadNew(w, r)

-----------------------------------------------------------------------------
(* Signals and crashes.                                                    *)

Sigterm(w) ==
    /\ loop[w].pc \notin {"down", "stopped"}
    /\ loop[w].stop = "no"
    /\ stops < MaxStops
    /\ stops' = stops + 1
    /\ SetLoop(w, [loop[w] EXCEPT !.stop = "sent"])
    /\ UNCHANGED <<storeVars, tasks, execs>>

\* _install_signal_handlers: stop.set runs as a callback of the event loop.
SetStop(w) ==
    /\ Running(w)
    /\ loop[w].stop = "sent"
    /\ SetLoop(w, [loop[w] EXCEPT !.stop = "set"])
    /\ UNCHANGED <<storeVars, tasks, execs, stops>>

\* SIGKILL, OOM or power loss: the process and all its tasks are gone.
Crash(w) ==
    /\ loop[w].pc \notin {"down", "stopped"}
    /\ crashes < MaxCrashes
    /\ crashes' = crashes + 1
    /\ SetLoop(w, NoLoop)
    /\ tasks' = [tasks EXCEPT ![w] = [i \in Ids |-> NoTask]]
    /\ UNCHANGED <<rows, stream, dlq, faults, execs, stops>>

WorkerStep(w) ==
    \/ LoopStep(w)
    \/ LoopError(w)
    \/ \E i \in Ids : TaskStep(w, i) \/ TaskError(w, i)
    \/ Sigterm(w)
    \/ SetStop(w)
    \/ Crash(w)

WorkerInit ==
    /\ loop = [w \in Workers |-> NoLoop]
    /\ tasks = [w \in Workers |-> [i \in Ids |-> NoTask]]
    /\ execs = [j \in Jobs |-> 0]
    /\ stops = 0

WorkerTypeOK ==
    /\ loop \in [Workers -> [pc      : LoopPcs,
                             count   : 0 .. Concurrency,
                             claimed : SUBSET Ids,
                             cursor  : 0 .. MaxEntries,
                             stop    : {"no", "sent", "set"}]]
    /\ tasks \in [Workers -> [Ids -> [pc   : TaskPcs,
                                      job  : Job \cup {NoRow},
                                      base : Job \cup {NoRow}]]]
    /\ execs \in [Jobs -> Nat]
    /\ stops \in 0 .. MaxStops
=============================================================================
