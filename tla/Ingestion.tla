------------------------------ MODULE Ingestion ------------------------------
(***************************************************************************)
(* POST /v1/jobs: IngestionService.submit (services/ingestion.py).  The    *)
(* row is inserted first, then the pointer is published under the retry    *)
(* policy of core/retry.py, which repeats transient failures only.         *)
(***************************************************************************)
EXTENDS Stores

CONSTANT MaxTries   \* retry.max_attempts: calls of publish, first included

ASSUME IngestionAssumption == MaxTries \in Nat \ {0}

VARIABLE requests   \* per job: where its POST request is, and its failed tries

ingestionVars == <<requests>>

\* insert   about to insert the row            accepted  202, job_id returned
\* publish  about to publish the pointer       rejected  5xx or connection lost
RequestPcs == {"insert", "publish", "accepted", "rejected"}

Accepted(j) == requests[j].pc = "accepted"

IngestionInit == requests = [j \in Jobs |-> [pc |-> "insert", tries |-> 0]]

-----------------------------------------------------------------------------
SetRequest(j, pc, tries) == requests' = [requests EXCEPT ![j] = [pc |-> pc, tries |-> tries]]

Insert(j, r) ==
    /\ requests[j].pc = "insert"
    /\ Replied(r)
    /\ Add(j)
    /\ SetRequest(j, IF r = "ok" THEN "publish" ELSE "rejected", 0)
    /\ UNCHANGED <<stream, dlq, crashes>>

\* Wrong: a failed insert is passed over.
InsertErrorIgnored(j) ==
    /\ requests[j].pc = "insert"
    /\ NotExecuted
    /\ SetRequest(j, "publish", 0)
    /\ UNCHANGED <<rows, stream, dlq, crashes>>

InsertError(j) ==
    /\ requests[j].pc = "insert"
    /\ NotExecuted
    /\ SetRequest(j, "rejected", 0)
    /\ UNCHANGED <<rows, stream, dlq, crashes>>

\* retrying(): stop_after_attempt(max_attempts), transient errors only, reraise.
\* After the last failure the error propagates and the row stays PENDING.
PublishFailed(j, transient) ==
    LET tries == requests[j].tries + 1
    IN  IF transient /\ tries < MaxTries
        THEN SetRequest(j, "publish", tries)
        ELSE SetRequest(j, "rejected", 0)

\* A lost reply is a timeout or a reset connection: transient, so the pointer is
\* published again.
Publish(j, r) ==
    /\ requests[j].pc = "publish"
    /\ Replied(r)
    /\ Xadd(FirstDelivery(j))
    /\ IF r = "ok" THEN SetRequest(j, "accepted", 0) ELSE PublishFailed(j, TRUE)
    /\ UNCHANGED <<rows, dlq, crashes>>

\* classify_redis_error decides which kind of failure it was.
PublishError(j, transient) ==
    /\ requests[j].pc = "publish"
    /\ NotExecuted
    /\ PublishFailed(j, transient)
    /\ UNCHANGED <<rows, stream, dlq, crashes>>

\* The API process is killed between the insert and the end of the publish.
RequestDies(j) ==
    /\ requests[j].pc = "publish"
    /\ crashes < MaxCrashes
    /\ crashes' = crashes + 1
    /\ SetRequest(j, "rejected", 0)
    /\ UNCHANGED <<rows, stream, dlq, faults>>

Submit(j) ==
    \/ \E r \in Replies : Insert(j, r) \/ Publish(j, r)
    \/ InsertError(j)
    \/ \E transient \in BOOLEAN : PublishError(j, transient)
    \/ RequestDies(j)

IngestionTypeOK ==
    requests \in [Jobs -> [pc : RequestPcs, tries : 0 .. (MaxTries - 1)]]
=============================================================================
