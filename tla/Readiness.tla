------------------------------- MODULE Readiness -------------------------------
(***************************************************************************)
(* GET /health/ready next to the other calls of its process: three probes, *)
(* one after the other, of dependencies that answer or do not.  The last   *)
(* one is bucket_exists and goes through the pool.                         *)
(***************************************************************************)
EXTENDS PortCalls

VARIABLE report     \* per probe call: the request whose probe it is

readinessVars == <<portVars, report>>

Dependencies == {"postgres", "redis", "object_store"}

\* pc: the probe awaited. told is what the dependencies did, checks what the request notes.
Unasked ==
    [pc |-> "none", told |-> [d \in Dependencies |-> "nothing"],
     checks |-> [d \in Dependencies |-> "missing"], status |-> 0]

-----------------------------------------------------------------------------
SetReport(c, r) == report' = [report EXCEPT ![c] = r]

\* Wrong: one try around the probes, so that a failure is noted for what follows it too.
NotedTogether(r, d, answered) ==
    [r.checks EXCEPT ![d] =
        IF answered /\ \A o \in Dependencies : r.checks[o] # "down" THEN "ok" ELSE "down"]

\* Each probe is in a try of its own.
Noted(r, d, answered) == [r.checks EXCEPT ![d] = IF answered THEN "ok" ELSE "down"]

Probed(r, d, answered, next) ==
    [r EXCEPT !.pc = next,
              !.told[d] = IF answered THEN "answered" ELSE "failed",
              !.checks = Noted(r, d, answered)]

\* 503 unless every check is ok.
Answer(r) == [r EXCEPT !.status = IF \A d \in Dependencies : r.checks[d] = "ok" THEN 200 ELSE 503]

Request(c) ==
    /\ report[c].pc = "none" /\ call[c].port = "head" /\ process = "serving"
    /\ SetReport(c, [report[c] EXCEPT !.pc = "postgres"])
    /\ UNCHANGED portVars

ProbePostgres(c) ==
    /\ report[c].pc = "postgres"
    /\ \E answered \in BOOLEAN : SetReport(c, Probed(report[c], "postgres", answered, "redis"))
    /\ UNCHANGED portVars

\* PING is answered or not, and bucket_exists issued.
ProbeRedis(c) ==
    /\ report[c].pc = "redis"
    /\ Begin(c)
    /\ \E answered \in BOOLEAN : SetReport(c, Probed(report[c], "redis", answered, "object_store"))

\* A bucket that is not there is an answer too.
ProbeStore(c) ==
    /\ report[c].pc = "object_store"
    /\ Reply(c)
    /\ SetReport(c, Answer(Probed(report[c], "object_store", call'[c].verdict = "ok", "answered")))

-----------------------------------------------------------------------------
\* A call that is no probe.
CallStep(c) ==
    /\ call[c].port # "head"
    /\ Begin(c) \/ Reply(c) \/ TryAgain(c)

ProbeStep(c) == ProbePostgres(c) \/ ProbeRedis(c) \/ ProbeStore(c)

\* The server waits for its requests as the worker does for its tasks.
Close ==
    /\ \A c \in Calls : report[c].pc \in {"none", "answered"}
    /\ Shutdown
    /\ UNCHANGED report

ReadinessInit == PortInit /\ report = [c \in Calls |-> Unasked]

ReadinessNext ==
    \/ \E c \in Calls : CallStep(c) /\ UNCHANGED report
    \/ \E c \in Calls : LateExecution(c) /\ UNCHANGED report
    \/ \E c \in Calls : Request(c) \/ ProbeStep(c)
    \/ ThreadTakes /\ UNCHANGED report
    \/ Stop /\ UNCHANGED report
    \/ Close

\* The loop and the threads run, and every call that is under way returns at last: boto3 and
\* ddgs have a time-out of their own; of the other clients, for which the code sets none,
\* that is assumed. That a call is made, that a late request is executed and
\* that the process is stopped is not assumed.
ReadinessSpec ==
    /\ ReadinessInit
    /\ [][ReadinessNext]_readinessVars
    /\ \A c \in Calls :
           /\ WF_readinessVars(call[c].port # "head" /\ Reply(c) /\ UNCHANGED report)
           /\ WF_readinessVars(TryAgain(c) /\ UNCHANGED report)
           /\ WF_readinessVars(ProbeStep(c))
    /\ WF_readinessVars(ThreadTakes /\ UNCHANGED report)
    /\ WF_readinessVars(Close)

-----------------------------------------------------------------------------
(* Properties.                                                             *)

\* readiness: "each probe is independent and failure-isolated". An answer reports on every
\* dependency what that one did, whatever the others did, and is a 200 exactly if all of
\* them answered.
ReportIsHonest ==
    \A c \in Calls : report[c].pc = "answered" =>
        /\ \A d \in Dependencies :
               \/ report[c].told[d] = "answered" /\ report[c].checks[d] = "ok"
               \/ report[c].told[d] = "failed" /\ report[c].checks[d] = "down"
        /\ report[c].status = 200 <=> \A d \in Dependencies : report[c].told[d] = "answered"

\* The pool is smaller than the calls in flight and the upstreams may fail for ever, but
\* every call comes to an end, every readiness request is answered, and a process that is
\* stopped closes its pool.
CallsReturn ==
    /\ \A c \in Calls : call[c].pc = "queued" ~> call[c].pc = "done"
    /\ \A c \in Calls : report[c].pc = "postgres" ~> report[c].pc = "answered"
    /\ process = "stopping" ~> process = "closed"
=============================================================================
