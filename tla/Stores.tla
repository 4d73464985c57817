-------------------------------- MODULE Stores --------------------------------
(***************************************************************************)
(* The state the API and the workers share: the jobs table in PostgreSQL   *)
(* behind SqlAlchemyJobRepository, and the work stream and the dead-letter *)
(* stream in Redis behind StreamProducer.                                  *)
(*                                                                         *)
(* Every repository or Redis call is one round trip to a server.  It may   *)
(* succeed, fail without having been executed, or be executed and lose its *)
(* reply.  At most MaxFaults calls fail in a behaviour.                    *)
(***************************************************************************)
EXTENDS JobLifecycle, RedisStream

CONSTANTS
    Jobs,           \* the jobs clients submit, one POST /v1/jobs each
    MaxAttempts,    \* broker.max_attempts: deliveries of one job, first included
    GroupAtStart,   \* has a worker run ensure_group before the first publish?
    MaxFaults,      \* bound: repository and Redis calls that fail
    MaxCrashes      \* bound: processes killed

ASSUME StoresAssumption ==
    /\ MaxAttempts \in Nat \ {0}
    /\ GroupAtStart \in BOOLEAN
    /\ MaxFaults \in Nat
    /\ MaxCrashes \in Nat

VARIABLES
    rows,           \* the jobs table: a job record, or NoRow
    stream,         \* the work stream and its consumer group
    dlq,            \* the dead-letter stream: its log and first
    faults,         \* calls that failed so far
    crashes         \* processes killed so far

storeVars == <<rows, stream, dlq, faults, crashes>>

-----------------------------------------------------------------------------
\* JobMessage: the pointer a stream entry carries. Its wire format is a map of
\* three strings; to_fields and from_fields are inverse on what the producer
\* writes, so the pointer stands for its fields.
JobMessage == [job : Jobs, attempt : 1 .. MaxAttempts]

FirstDelivery(j) == [job |-> j, attempt |-> 1]

\* Wrong: the retry keeps the attempt of the failed one.
SameAttempt(m) == m

NextAttempt(m) == [m EXCEPT !.attempt = @ + 1]

-----------------------------------------------------------------------------
\* A call that was executed: its reply arrives, or is lost.
Replies == {"ok", "lost"}

Replied(r) ==
    \/ r = "ok" /\ faults' = faults
    \/ r = "lost" /\ faults < MaxFaults /\ faults' = faults + 1

\* A call that was not executed.
NotExecuted == faults < MaxFaults /\ faults' = faults + 1

-----------------------------------------------------------------------------
\* SqlAlchemyJobRepository.add
Add(j) == rows' = [rows EXCEPT ![j] = NewJob]

\* What the UPDATE of SqlAlchemyJobRepository.update leaves in the table.
\* merge() writes the columns that differ from the row the session has
\* SELECTed (base); a column it does not write keeps what is in the table now.
MergeInto(row, base, job) ==
    LET Column(now, loaded, new) == IF new # loaded THEN new ELSE now
    IN  [status   |-> Column(row.status, base.status, job.status),
         attempts |-> Column(row.attempts, base.attempts, job.attempts),
         result   |-> Column(row.result, base.result, job.result),
         error    |-> Column(row.error, base.error, job.error)]

\* SqlAlchemyJobRepository.update, its second statement: no version column and
\* no status in the WHERE clause, so the last writer wins.
UpdateRow(j, base, job) == rows' = [rows EXCEPT ![j] = MergeInto(rows[j], base, job)]

-----------------------------------------------------------------------------
\* StreamProducer._xadd on the work stream (publish and republish).
Xadd(message) ==
    /\ Len(stream.log) < MaxEntries
    /\ \E f \in TrimPoints(stream) : stream' = XAdd(stream, message, f)

\* StreamProducer.dead_letter: _xadd on the dead-letter stream, with the same MAXLEN.
AddToDlq(message) == \E f \in TrimPoints(dlq) : dlq' = XAdd(dlq, message, f)

-----------------------------------------------------------------------------
StoresInit ==
    /\ rows = [j \in Jobs |-> NoRow]
    /\ stream = [log   |-> <<>>,
                 first |-> 1,
                 last  |-> IF GroupAtStart THEN 0 ELSE NoGroup,
                 pel   |-> [i \in Ids |-> 0]]
    /\ dlq = [log |-> <<>>, first |-> 1]
    /\ faults = 0
    /\ crashes = 0

StoresTypeOK ==
    /\ rows \in [Jobs -> Job \cup {NoRow}]
    /\ stream \in [log   : Seq(JobMessage),
                   first : Nat \ {0},
                   last  : Int,
                   pel   : [Ids -> DeliveryCounts]]
    /\ Len(stream.log) <= MaxEntries
    /\ stream.first <= Len(stream.log) + 1
    /\ stream.last \in NoGroup .. Len(stream.log)
    /\ \A i \in Pending(stream) : i <= stream.last
    /\ dlq \in [log : Seq(JobMessage), first : Nat \ {0}]
    /\ dlq.first <= Len(dlq.log) + 1
    /\ faults \in 0 .. MaxFaults
    /\ crashes \in 0 .. MaxCrashes
=============================================================================
