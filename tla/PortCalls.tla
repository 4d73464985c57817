------------------------------- MODULE PortCalls -------------------------------
(***************************************************************************)
(* The calls the tasks of one process make through the ports: a retry loop *)
(* around an offloaded SDK call, the pool of threads they share, and the   *)
(* shutdown of the pool.  The upstream may fail for ever.  Only the redis  *)
(* call is awaited on the loop itself.                                     *)
(***************************************************************************)
EXTENDS UpstreamErrors, Sequences, FiniteSets

CONSTANTS
    Calls,          \* the calls made during the life of the process
    Assignments,    \* which port each of them is to
    Threads,        \* settings.offload_max_workers
    MaxTries        \* settings.retry.max_attempts

ASSUME PortCallsAssumption ==
    /\ IsFiniteSet(Calls) /\ Assignments \subseteq [Calls -> Ports]
    /\ Threads \in Nat \ {0} /\ MaxTries \in Nat \ {0}

VARIABLES
    call,           \* per call: the port, where it is, and what became of its tries
    queue,          \* the work queue of the executor
    process         \* serving, stopping (draining) or closed

portVars == <<call, queue, process>>

\* pc: queued and working are one await of to_thread; a redis call is working at once.
CallPcs == {"idle", "queued", "working", "backoff", "done"}
CallVerdicts == {"none", "ok", "transient", "permanent", "malformed", "cancelled"}

\* applied and adrift count the tries the upstream has executed, and those that are over
\* but whose request is still on its way. What an SDK repeats by itself is one try.
CallRecord ==
    [port : Ports, pc : CallPcs, verdict : CallVerdicts, tries : 0 .. MaxTries,
     applied : 0 .. MaxTries, adrift : 0 .. MaxTries, barred : BOOLEAN]

Fresh(port) ==
    [port |-> port, pc |-> "idle", verdict |-> "none", tries |-> 0,
     applied |-> 0, adrift |-> 0, barred |-> FALSE]

Offloaded(port) == port # "publish"

\* bucket_exists goes through _call_no_retry.
Retried(port) == port # "head"

-----------------------------------------------------------------------------
SetCall(c, x) == call' = [call EXCEPT ![c] = x]

\* ThreadOffloader.run: one more work item, at the end of the executor's queue.
Try(c) ==
    LET x == [call[c] EXCEPT !.tries = @ + 1]
    IN  IF Offloaded(x.port)
        THEN SetCall(c, [x EXCEPT !.pc = "queued"]) /\ queue' = Append(queue, c)
        ELSE SetCall(c, [x EXCEPT !.pc = "working"]) /\ UNCHANGED queue

\* A task of the process makes the call; the tasks in flight go on while it drains.
Begin(c) ==
    /\ call[c].pc = "idle"
    /\ process # "closed"
    /\ Try(c)
    /\ UNCHANGED process

\* Wrong: offload wraps retry, and the tries in it are offloaded again.
InPoolForAllTries ==
    {c \in Calls :
        /\ Offloaded(call[c].port)
        /\ call[c].pc \in {"working", "backoff"} \/ (call[c].pc = "queued" /\ call[c].tries > 1)}

\* The calls that have a thread.
InPool == {c \in Calls : Offloaded(call[c].port) /\ call[c].pc = "working"}

\* A thread that is free takes the oldest item.
ThreadTakes ==
    /\ queue # <<>>
    /\ Cardinality(InPool) < Threads
    /\ SetCall(Head(queue), [call[Head(queue)] EXCEPT !.pc = "working"])
    /\ queue' = Tail(queue)
    /\ UNCHANGED process

End(x, verdict) == [x EXCEPT !.pc = "done", !.verdict = verdict]

\* The upstream executes the request and its reply arrives. What the boundary cannot
\* convert, _ndarray_to_lists and _matches_from_response, raises after the retry loop.
Answered(c, converts) ==
    /\ call[c].pc = "working"
    /\ converts \/ call[c].port \in {"embed", "query"}
    /\ SetCall(c, End([call[c] EXCEPT !.applied = @ + 1], IF converts THEN "ok" ELSE "malformed"))
    /\ UNCHANGED <<queue, process>>

\* Wrong: max_attempts counts the retries, and not the first try.
AfterErrorOneMore(x, e) ==
    IF x.port = "head" /\ "ClientError" \in e.is /\ e.status = 404
    THEN End([x EXCEPT !.applied = @ + 1], "ok")
    ELSE IF Classify(x.port, e) = "transient" /\ Retried(x.port) /\ x.tries <= MaxTries
         THEN [x EXCEPT !.pc = "backoff"]
         ELSE End(x, Classify(x.port, e))

\* Wrong: when the tries are used up the loop ends, and the call returns nothing.
AfterErrorSwallowed(x, e) ==
    IF Classify(x.port, e) = "transient" /\ Retried(x.port)
    THEN IF x.tries < MaxTries THEN [x EXCEPT !.pc = "backoff"] ELSE End(x, "ok")
    ELSE End(x, Classify(x.port, e))

\* The except clause of _call and the policy: a transient error is waited out while
\* tries remain. To bucket_exists a 404 is an answer.
AfterError(x, e) ==
    IF x.port = "head" /\ "ClientError" \in e.is /\ e.status = 404
    THEN End([x EXCEPT !.applied = @ + 1], "ok")
    ELSE IF Classify(x.port, e) = "transient" /\ Retried(x.port) /\ x.tries < MaxTries
         THEN [x EXCEPT !.pc = "backoff"]
         ELSE End(x, Classify(x.port, e))

\* Whether the upstream executes a request that came back as an error. Of a read whose
\* result nobody gets it makes no difference.
Fates(port, e) ==
    IF Rejected(e) \/ port \notin {"upsert", "put", "publish"} THEN {"never"}
    ELSE {"never", "before", "later"}

\* What can have become of the call whose request came back as an error.
Failures(x) ==
    UNION {{AfterError([x EXCEPT !.applied = IF fate = "before" THEN @ + 1 ELSE @,
                                 !.adrift = IF fate = "later" THEN @ + 1 ELSE @,
                                 !.barred = @ \/ BadCredentials(e)], e) : fate \in Fates(x.port, e)}
               : e \in Errors(x.port)}

Fails(c) ==
    /\ call[c].pc = "working"
    /\ \E x \in Failures(call[c]) : SetCall(c, x)
    /\ UNCHANGED <<queue, process>>

\* A request its caller has given up on is executed after all.
LateExecution(c) ==
    /\ call[c].adrift > 0
    /\ SetCall(c, [call[c] EXCEPT !.adrift = @ - 1, !.applied = @ + 1])
    /\ UNCHANGED <<queue, process>>

\* The back-off is over.
TryAgain(c) ==
    /\ call[c].pc = "backoff"
    /\ Try(c)
    /\ UNCHANGED process

Stop ==
    /\ process = "serving"
    /\ process' = "stopping"
    /\ UNCHANGED <<call, queue>>

\* drain, or the server, has waited for every task.
Drained == \A c \in Calls : call[c].pc \in {"idle", "done"}

\* aclose: executor.shutdown(wait=False, cancel_futures=True).
Shutdown ==
    /\ process = "stopping"
    /\ Drained
    /\ process' = "closed"
    /\ call' = [c \in Calls |-> IF call[c].pc = "queued" THEN End(call[c], "cancelled") ELSE call[c]]
    /\ queue' = <<>>

-----------------------------------------------------------------------------
Reply(c) ==
    \/ \E converts \in BOOLEAN : Answered(c, converts)
    \/ Fails(c)

PortInit ==
    /\ \E a \in Assignments : call = [c \in Calls |-> Fresh(a[c])]
    /\ queue = <<>>
    /\ process = "serving"

PortNext ==
    \/ \E c \in Calls : Begin(c) \/ Reply(c) \/ TryAgain(c) \/ LateExecution(c)
    \/ ThreadTakes
    \/ Stop
    \/ Shutdown

PortSpec == PortInit /\ [][PortNext]_portVars

-----------------------------------------------------------------------------
(* Properties.                                                             *)

\* broker/_errors.py: "a bad password would be retried forever". A caller that was turned
\* away for its credentials, by any upstream, is not sent there again.
BarredIsFinal == \A c \in Calls : call[c].barred => call[c].pc = "done" /\ call[c].verdict = "permanent"

\* to_thread resolves when its thread does: the tries of a call never overlap. A call is
\* in the pool's queue at most once, and only while it waits there.
OneTryAtATime ==
    /\ \A i, j \in 1 .. Len(queue) : queue[i] = queue[j] => i = j
    /\ {queue[i] : i \in 1 .. Len(queue)} = {c \in Calls : call[c].pc = "queued"}

\* The abstract port.
Phase(x) ==
    CASE x.pc = "idle" -> "idle"
      [] x.pc = "done" -> IF x.verdict = "ok" THEN "returned" ELSE "raised"
      [] OTHER         -> "open"

Contract ==
    INSTANCE PortContract WITH
        phase <- [c \in Calls |-> Phase(call[c])],
        applied <- [c \in Calls |-> call[c].applied],
        limit <- [c \in Calls |-> IF Retried(call[c].port) THEN MaxTries ELSE 1]

\* retry over offload implements the port: whatever is lost, repeated or late, a call
\* that returned was executed, and never for more tries than the policy allows.
ImplementsPortContract == Contract!ContractSpec

-----------------------------------------------------------------------------
(* The inductive invariant of PortCallProofs.                              *)

PortTypeOK ==
    /\ call \in [Calls -> CallRecord]
    /\ queue \in Seq(Calls)
    /\ process \in {"serving", "stopping", "closed"}

\* Every execution, past or to come, is of a try that is over.
ExecutionsAreTries ==
    \A c \in Calls :
        LET x == call[c] IN
        /\ x.pc = "idle" => x.tries = 0 /\ x.applied = 0 /\ x.adrift = 0
        /\ x.applied + x.adrift + (IF x.pc \in {"queued", "working"} THEN 1 ELSE 0) <= x.tries
        /\ ~Retried(x.port) => x.tries <= 1 /\ x.pc # "backoff"
        /\ x.pc = "backoff" => x.tries < MaxTries

\* The pool never runs more calls than it has threads.
PoolBounded == Cardinality(InPool) <= Threads

PortInv == PortTypeOK /\ OneTryAtATime /\ ExecutionsAreTries /\ PoolBounded
=============================================================================
