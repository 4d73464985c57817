--------------------------- MODULE InferenceEngine ---------------------------
(***************************************************************************)
(* The engine: POST requests that submit jobs, worker processes that run   *)
(* them, and the jobs table, the work stream and the dead-letter stream    *)
(* they share.                                                             *)
(***************************************************************************)
EXTENDS Ingestion, Worker

vars == <<storeVars, ingestionVars, workerVars>>

Init == StoresInit /\ IngestionInit /\ WorkerInit

Next ==
    \/ \E j \in Jobs : Submit(j) /\ UNCHANGED workerVars
    \/ \E w \in Workers : WorkerStep(w) /\ UNCHANGED ingestionVars

Spec == Init /\ [][Next]_vars

-----------------------------------------------------------------------------
\* Entry i is returned by an XAUTOCLAIM. The idle time of an entry nobody works on
\* only grows, so it cannot stay below reclaim_idle_ms for ever.
ReclaimsEntry(i) ==
    /\ \E w \in Workers : \E R \in Claimable(w) : i \in R /\ ReclaimOrphans(w, R, "ok")
    /\ UNCHANGED ingestionVars

\* The event loop schedules every ready callback, servers answer, a pipeline
\* returns, requests are carried through, and the restart policy of the
\* container starts a process that died.
Fairness ==
    /\ \A j \in Jobs : WF_vars(Submit(j) /\ UNCHANGED workerVars)
    /\ \A w \in Workers :
        /\ WF_vars(LoopStep(w) /\ UNCHANGED ingestionVars)
        /\ WF_vars(SetStop(w) /\ UNCHANGED ingestionVars)
        /\ \A i \in Ids : WF_vars(TaskStep(w, i) /\ UNCHANGED ingestionVars)
    /\ \A i \in Ids : SF_vars(ReclaimsEntry(i))

FairSpec == Spec /\ Fairness

-----------------------------------------------------------------------------
(* Properties.                                                             *)

TypeOK == StoresTypeOK /\ IngestionTypeOK /\ WorkerTypeOK

\* Backpressure (_free_capacity, consume_once, _reclaim_orphans): the count given
\* to XAUTOCLAIM and XREADGROUP is computed before an await, and still no pass
\* ever puts more than worker_concurrency tasks in flight.
InFlightBounded == \A w \in Workers : Cardinality(InFlight(w)) <= Concurrency

\* _handle_reclaimed and _in_flight_ids: XAUTOCLAIM may hand a process an entry it
\* is still working on; the running task is never replaced by, or joined by, a
\* second task for the same entry on the same process.
NoDoubleDispatch ==
    [][\A w \in Workers, i \in Ids :
          tasks[w][i].pc \notin {"none", "guard"} => tasks'[w][i].pc # "guard"]_vars

\* IngestionService.submit persists first: whatever fails, no pointer ever names a
\* job without a row, so the JobNotFound branches of the consumer are never taken.
PointerHasRow == \A i \in 1 .. Len(stream.log) : rows[JobOf(i)] # NoRow

\* What an operator can count on: the dead-letter stream holds the pointer, or at least
\* MAXLEN later dead letters came after it and its trim has dropped it.
DeadLetters ==
    {dlq.log[k] : k \in {n \in 1 .. Len(dlq.log) : dlq.first <= n \/ n + MaxLen <= Len(dlq.log)}}

DeadLettered(j) == \E m \in DeadLetters : m.job = j

\* _route_to_dlq comes before _mark_failed on every path: a client never sees a
\* FAILED job that the operator does not find among the latest MAXLEN dead letters,
\* unless as many came later.
FailedIsDeadLettered == \A j \in Jobs : rows[j].status = "failed" => DeadLettered(j)

\* A task is past its guards and may still write the row or add an entry.
ExecutingPcs == TaskPcs \ {"none", "guard", "ack"}
Executing(j) == {h \in Workers \X Ids : At(h[1], h[2], ExecutingPcs) /\ JobOf(h[2]) = j}

\* With reclaim_idle_ms above every run, and no failure, the hand-over from one
\* attempt to the next (requeue, republish, ack) never lets two tasks execute the
\* same job, on one worker or on two.
OneExecutorPerJob == \A j \in Jobs : Cardinality(Executing(j)) <= 1

\* _on_transient requeues before it republishes, "else a reader would call
\* mark_running on a still-RUNNING row": no task that passed its guard ever finds
\* the row RUNNING.
StartsOnlyPending ==
    \A w \in Workers, i \in Ids : At(w, i, {"load"}) => rows[JobOf(i)].status # "running"

\* InferenceJob.requeue: "attempts always equals the number of times the job
\* actually started executing".
AttemptsHonest == \A j \in Jobs : rows[j].attempts = execs[j]

\* What a client reads from GET /v1/jobs/{id} is coherent: a result exactly when
\* the job succeeded, an error exactly when it failed.
RowCoherent ==
    \A j \in Jobs : /\ rows[j].result <=> rows[j].status = "success"
                    /\ rows[j].error <=> rows[j].status = "failed"

\* Without failures nothing is left behind: every pending entry is held by a
\* process that is still there, so a worker that drains and exits on SIGTERM
\* leaves no entry for another to reclaim.
NoOrphanWithoutFailure ==
    \A i \in Pending(stream) :
        \E w \in Workers : /\ loop[w].pc \notin {"down", "stopped"}
                           /\ i \in InFlight(w) \/ i \in loop[w].claimed

\* The engine still knows of job j: an entry is waiting to be read, is pending and
\* so can be reclaimed, or is in the hands of a live process.
Tracked(j) ==
    \E i \in 1 .. Len(stream.log) :
        /\ JobOf(i) = j
        /\ \/ i \in Undelivered(stream)
           \/ i \in Pending(stream) /\ i >= stream.first
           \/ Held(i)

\* "there's no window where the job is untracked - it's either in-flight, in the
\* PEL, on the stream as a fresh entry, or terminal" (phase-5, ACK semantics).
AlwaysTracked ==
    \A j \in Jobs : Accepted(j) => IsTerminal(rows[j]) \/ Tracked(j)

\* No accepted job is lost: it is tracked, terminal, or at least was dead-lettered,
\* whatever calls fail and whenever a worker dies.
NoJobLost ==
    \A j \in Jobs : Accepted(j) => IsTerminal(rows[j]) \/ Tracked(j) \/ DeadLettered(j)

\* The engine implements the contract of JobContract: the jobs table and the
\* requests answered with 202 behave as it promises.
Contract == INSTANCE JobContract WITH table <- rows, accepted <- {j \in Jobs : Accepted(j)}

ImplementsContract == Contract!ContractSpec

\* domain/models.py: "Terminal states cannot transition further".
TerminalStable ==
    [][\A j \in Jobs : IsTerminal(rows[j]) => rows'[j] = rows[j]]_vars

\* Every job answered with 202 comes to an end the client can read.
EventuallyTerminal == \A j \in Jobs : Accepted(j) ~> IsTerminal(rows[j])

\* Whatever fails, a job answered with 202 ends, or lands in the dead-letter stream.
EventuallySettled == \A j \in Jobs : Accepted(j) ~> IsTerminal(rows[j]) \/ DeadLettered(j)

\* SIGTERM leads to the end of the process.
StopIsHonoured ==
    \A w \in Workers : (loop[w].stop # "no") ~> (loop[w].pc \in {"down", "stopped"})

-----------------------------------------------------------------------------
(* The inductive invariants of the proofs.                                 *)

\* The loop holds claimed entries exactly while it handles them, the next one to
\* handle is not in flight, and a process that has not entered, or has left, its
\* loop has no task.
LoopShape ==
    \A w \in Workers :
        /\ loop[w].claimed # {} <=> loop[w].pc \in {"xpending", "dlq", "dlqAck"}
        /\ loop[w].claimed # {} => Min(loop[w].claimed) \notin InFlight(w)
        /\ loop[w].pc \in {"down", "boot", "stopped"} => InFlight(w) = {}

\* Every entry a process works on, or is about to, was delivered to the group.
HeldIsDelivered ==
    \A w \in Workers : \A i \in InFlight(w) \cup loop[w].claimed : i <= stream.last

\* The status a task is about to write, by the update it is in.
WrittenStatus == [startSelect   |-> "running", startFlush   |-> "running",
                  pipeline      |-> "running",
                  successSelect |-> "success", successFlush |-> "success",
                  requeueSelect |-> "pending", requeueFlush |-> "pending",
                  failSelect    |-> "failed",  failFlush    |-> "failed"]

RetryPcs == {"requeueGet", "requeueSelect", "requeueFlush", "republish"}
FailPcs == {"failGet", "failSelect", "failFlush"}

TaskShape ==
    \A w \in Workers, i \in Ids :
        LET t == tasks[w][i]
        IN  /\ t.pc \in DOMAIN WrittenStatus => t.job \in Job /\ t.job.status = WrittenStatus[t.pc]
            /\ t.pc \in FlushPcs => t.base \in Job
            /\ t.pc \in RetryPcs => stream.log[i].attempt < MaxAttempts

\* submit goes on to publish only after the row is there.
PublishedHasRow == \A j \in Jobs : requests[j].pc \in {"publish", "accepted"} => rows[j] # NoRow

\* Whoever is about to acknowledge or to fail on the dead-letter path has added
\* the pointer to the dead-letter stream.
DlqBeforeAck ==
    \A w \in Workers :
        /\ \A i \in Ids : tasks[w][i].pc \in FailPcs \cup {"dlqAck"} => stream.log[i] \in DeadLetters
        /\ loop[w].pc = "dlqAck" => stream.log[Min(loop[w].claimed)] \in DeadLetters

\* Counts and claimed entries are a budget: what the loop may still dispatch in
\* this pass fits beside what is in flight, although tasks end in between.
BudgetKept ==
    \A w \in Workers :
        /\ Cardinality(InFlight(w) \cup loop[w].claimed) <= Concurrency
        /\ Cardinality(InFlight(w)) + loop[w].count <= Concurrency

ShapeInv == /\ TypeOK
            /\ LoopShape
            /\ HeldIsDelivered
            /\ TaskShape
            /\ PublishedHasRow
            /\ PointerHasRow
            /\ BudgetKept

SafetyInv == ShapeInv /\ DlqBeforeAck /\ FailedIsDeadLettered

\* With reclaim_idle_ms above every run, an entry is in the hands of one live
\* process at most, and is there only once.
Holds(w, i) == Running(w) /\ (i \in InFlight(w) \/ i \in loop[w].claimed)

HeldOnce ==
    /\ \A i \in Ids : \A v, w \in Workers : Holds(v, i) /\ Holds(w, i) => v = w
    /\ \A w \in Workers : Running(w) => loop[w].claimed \cap InFlight(w) = {}

\* What a live process holds is pending, until the dead-letter path acknowledged it.
HeldIsPending ==
    \A w \in Workers, i \in Ids :
        Holds(w, i) /\ tasks[w][i].pc \notin FailPcs => stream.pel[i] > 0

\* The entry is about to be acknowledged, and nothing its task still does makes the
\* job terminal: the UPDATE of mark_success writes no status when the SELECT before
\* it already found SUCCESS.
Settling(i) ==
    \E w \in Workers :
        /\ Running(w)
        /\ \/ tasks[w][i].pc = "ack"
           \/ tasks[w][i].pc = "successFlush" /\ tasks[w][i].base.status = "success"

\* An entry that will bring its job to an end, or hand it on.
Carries(i, j) ==
    /\ JobOf(i) = j
    /\ i \in Undelivered(stream) \/ (stream.pel[i] > 0 /\ ~Settling(i))

JobKept ==
    \A j \in Jobs :
        (\E i \in 1 .. Len(stream.log) : JobOf(i) = j) =>
            \/ IsTerminal(rows[j])
            \/ DeadLettered(j)
            \/ \E i \in 1 .. Len(stream.log) : Carries(i, j)

AcceptedHasPointer ==
    \A j \in Jobs : Accepted(j) => \E i \in 1 .. Len(stream.log) : JobOf(i) = j

\* submit inserts the row, and only once.
InsertIsFirst == \A j \in Jobs : requests[j].pc = "insert" => rows[j] = NoRow

\* A loop that no longer suspends stays as it is: only its tasks free capacity, and
\* only a callback of the same event loop sets the stop event.
SpinIsForEver ==
    \A w \in Workers :
        loop[w].pc = "spin" => /\ FreeCapacity(Cardinality(InFlight(w))) <= 0
                               /\ loop[w].stop # "set"

\* Nothing that is added to the stream is ever out of the group's reach.
StreamKept == stream.first = 1 /\ stream.last # NoGroup

RecoveryInv ==
    /\ SafetyInv
    /\ StreamKept
    /\ InsertIsFirst
    /\ SpinIsForEver
    /\ HeldOnce
    /\ HeldIsPending
    /\ AcceptedHasPointer
    /\ JobKept

-----------------------------------------------------------------------------
(* Without failures and premature reclaims each attempt is handed over to  *)
(* the next, and one entry at a time speaks for a job.                     *)

\* No process is at the saturated pass that never suspends.
NeverSpins == \A w \in Workers : loop[w].pc # "spin"

\* No later entry was added for the job of entry i.
Latest(i) == \A k \in 1 .. Len(stream.log) : JobOf(k) = JobOf(i) => k <= i

\* The row, by how far the attempt of the latest entry has got.
BeforeStart(i) ==
    /\ rows[JobOf(i)].status = "pending"
    /\ rows[JobOf(i)].attempts = stream.log[i].attempt - 1

Started(i) ==
    /\ rows[JobOf(i)].status = "running"
    /\ rows[JobOf(i)].attempts = stream.log[i].attempt

Requeued(i) ==
    /\ rows[JobOf(i)].status = "pending"
    /\ rows[JobOf(i)].attempts = stream.log[i].attempt

BeforeStartPcs == {"guard", "load", "startSelect", "startFlush"}
StartedPcs == {"pipeline", "successSelect", "successFlush", "requeueGet", "requeueSelect",
               "requeueFlush", "dlq", "dlqAck"} \cup FailPcs

\* The job object an update is about to write, from the row as it is.
Written(pc, row) ==
    CASE pc \in {"startSelect", "startFlush"}     -> MarkRunning(row)
      [] pc \in {"successSelect", "successFlush"} -> MarkSuccess(row)
      [] pc \in {"requeueSelect", "requeueFlush"} -> Requeue(row)
      [] pc \in {"failSelect", "failFlush"}       -> MarkFailed(row)
      [] OTHER                                    -> row

\* What task t of entry i holds is what the table says: nobody else writes the row
\* between its SELECT and its UPDATE.
IsCurrent(t, i) ==
    /\ t.pc \notin {"none", "ack"} => Latest(i)
    /\ t.pc \in BeforeStartPcs => BeforeStart(i)
    /\ t.pc \in StartedPcs => Started(i)
    /\ t.pc = "republish" => Requeued(i)
    /\ t.pc \in SelectPcs \cup FlushPcs \cup {"pipeline"} =>
           t.job = Written(t.pc, rows[JobOf(i)])
    /\ t.pc \in FlushPcs => t.base = rows[JobOf(i)]
    /\ t.pc \in FailPcs => i \notin Pending(stream)

PublishIsFirst ==
    \A j \in Jobs : requests[j].pc = "publish" =>
        rows[j] = NewJob /\ \A i \in 1 .. Len(stream.log) : JobOf(i) # j

HandOverInv ==
    /\ SafetyInv
    /\ InsertIsFirst
    /\ PublishIsFirst
    /\ \A w \in Workers : loop[w].claimed = {}
    /\ \A v, w \in Workers : v # w => InFlight(v) \cap InFlight(w) = {}
    /\ \A i \in Pending(stream) : \E w \in Workers : i \in InFlight(w)
    /\ \A i \in Undelivered(stream) : Latest(i) /\ BeforeStart(i)
    /\ \A w \in Workers, i \in Ids : IsCurrent(tasks[w][i], i)
    /\ AttemptsHonest
    /\ RowCoherent
=============================================================================
