---------------------------- MODULE JobLifecycle ----------------------------
(***************************************************************************)
(* The InferenceJob aggregate of domain/models.py: its status graph and    *)
(* the transition methods, as pure operators on a job record.              *)
(*                                                                         *)
(* A job keeps the fields the rest of the system decides on: its status,   *)
(* how often it was started, and whether result_ref and error are set.     *)
(***************************************************************************)
EXTENDS Naturals

JobStatus == {"pending", "running", "success", "failed"}

\* _TERMINAL: the states the idempotency guards skip.
Terminal == {"success", "failed"}

\* _ALLOWED as a set of edges. Terminal states have no outgoing edge.
Allowed == { <<"pending", "running">>,
             <<"running", "success">>,
             <<"running", "failed">>,
             <<"running", "pending">> }

\* InferenceJob.new: a PENDING job that was never started.
NewJob == [status |-> "pending", attempts |-> 0, result |-> FALSE, error |-> FALSE]

\* The absence of a row (JobNotFound), in the shape of a job.
NoRow == [status |-> "absent", attempts |-> 0, result |-> FALSE, error |-> FALSE]

\* A job object read from, or written to, the jobs table.
Job == [status : JobStatus, attempts : Nat, result : BOOLEAN, error : BOOLEAN]

IsTerminal(job) == job.status \in Terminal

\* _require: does the transition method return, or raise InvalidTransition?
CanMove(job, target) == <<job.status, target>> \in Allowed

\* mark_running counts the try and clears the error of an earlier one.
MarkRunning(job) ==
    [job EXCEPT !.status = "running", !.attempts = @ + 1, !.error = FALSE]

\* Wrong: the result reference is not recorded.
MarkSuccessBare(job) == [job EXCEPT !.status = "success"]

MarkSuccess(job) == [job EXCEPT !.status = "success", !.result = TRUE]

MarkFailed(job) == [job EXCEPT !.status = "failed", !.error = TRUE]

\* Wrong: the requeue counts the try as well.
RequeueCounts(job) == [job EXCEPT !.status = "pending", !.attempts = @ + 1]

\* requeue leaves attempts alone: the next mark_running counts the try.
Requeue(job) == [job EXCEPT !.status = "pending"]
=============================================================================
