----------------------------- MODULE JobContract -----------------------------
(***************************************************************************)
(* What the engine promises a client about the jobs it submits: a job is   *)
(* entered once, accepted at most once, moves along the edges of the       *)
(* status graph of domain/models.py, is started at most max_attempts       *)
(* times, and never changes again once it is terminal.                     *)
(***************************************************************************)
EXTENDS JobLifecycle

CONSTANTS Jobs, MaxAttempts

VARIABLES
    table,      \* what GET /v1/jobs/{id} reads
    accepted    \* the jobs answered with 202

contractVars == <<table, accepted>>

ContractInit ==
    /\ table = [j \in Jobs |-> NoRow]
    /\ accepted = {}

Enter(j) ==
    /\ table[j] = NoRow
    /\ table' = [table EXCEPT ![j] = NewJob]
    /\ UNCHANGED accepted

\* A job may be picked up before its client has the answer.
Accept(j) ==
    /\ table[j] # NoRow
    /\ j \notin accepted
    /\ accepted' = accepted \cup {j}
    /\ UNCHANGED table

Move(j, target, after) ==
    /\ CanMove(table[j], target)
    /\ table' = [table EXCEPT ![j] = after]
    /\ UNCHANGED accepted

Start(j) == table[j].attempts < MaxAttempts /\ Move(j, "running", MarkRunning(table[j]))

Succeed(j) == Move(j, "success", MarkSuccess(table[j]))

Fail(j) == Move(j, "failed", MarkFailed(table[j]))

\* Only a job that still has an attempt left goes back to PENDING.
Retry(j) == table[j].attempts < MaxAttempts /\ Move(j, "pending", Requeue(table[j]))

ContractNext ==
    \E j \in Jobs : Enter(j) \/ Accept(j) \/ Start(j) \/ Succeed(j) \/ Fail(j) \/ Retry(j)

ContractSpec == ContractInit /\ [][ContractNext]_contractVars
=============================================================================
