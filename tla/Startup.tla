-------------------------------- MODULE Startup --------------------------------
(***************************************************************************)
(* The life of a process, API or worker: AppContainer.create with          *)
(* ensure_bucket and build_providers, running, AppContainer.aclose, and    *)
(* restart.  Processes share the bucket and the environment.  create       *)
(* awaits nothing but ensure_bucket; the look-up of the vector index       *)
(* blocks the event loop.  A process that ends without having been asked   *)
(* to is started again (docker-compose.yml, restart: unless-stopped).      *)
(***************************************************************************)
EXTENDS Configuration, Naturals

CONSTANTS
    Processes,
    Environment,    \* what AIE_* may say
    MaxTries,       \* settings.retry.max_attempts
    MaxFaults,      \* bound: calls that fail
    MaxCrashes,     \* bound: processes that die
    MaxStops        \* bound: SIGTERMs

ASSUME StartupAssumption ==
    /\ Environment \subseteq Settings
    /\ MaxTries \in Nat \ {0}
    /\ MaxFaults \in Nat /\ MaxCrashes \in Nat /\ MaxStops \in Nat

VARIABLES
    settings,       \* what Settings() reads at each start
    proc,           \* per process: where it is and what it holds
    bucket,         \* whether the bucket is there
    budget          \* faults, crashes and stops so far

startupVars == <<settings, proc, bucket, budget>>

Resources == {"executor", "redis", "engine"}

\* pc: the call that is outstanding, or down, running, closed (aclose has returned) and
\* exited. `held' is open, `stuck' is what its own close left open.
ProcPcs == {"down", "head", "create", "index", "running", "redis", "engine", "closed", "exited"}

ProcRecord ==
    [pc : ProcPcs, tries : 1 .. MaxTries, stop : BOOLEAN,
     held : SUBSET Resources, stuck : SUBSET Resources]

Down == [pc |-> "down", tries |-> 1, stop |-> FALSE, held |-> {}, stuck |-> {}]

-----------------------------------------------------------------------------
SetProc(p, x) ==
    /\ proc' = [proc EXCEPT ![p] = x]
    /\ settings' = settings

\* One of the bounded events, or none.
Spend(kind, max) == budget[kind] < max /\ budget' = [budget EXCEPT ![kind] = @ + 1]
Fault == Spend("faults", MaxFaults)
NoFault == budget' = budget

\* The process is over, and with it everything it held.
Over(x) == [Down EXCEPT !.pc = IF x.stop THEN "exited" ELSE "down", !.stop = x.stop]

\* Wrong: the stop event is made after the container.
ReadyForgetsStop(x) == [x EXCEPT !.pc = "running", !.stop = FALSE]

\* create returns, and the consume loop or the server starts.
Ready(x) == [x EXCEPT !.pc = "running"]

\* build_providers, to the end of create or to the look-up of the index.  Pinecone()
\* raises without a key, and an empty one is none to it.
BuildProviders(x) ==
    CASE settings.pinecone_api_key = "unset" -> Ready(x)
      [] settings.pinecone_api_key = "empty" -> Over(x)
      [] settings.pinecone_api_key = "given" -> [x EXCEPT !.pc = "index"]

\* create up to its first call.
Boot(p) ==
    /\ proc[p].pc = "down"
    /\ LET x == [Down EXCEPT !.held = Resources]
       IN  SetProc(p, IF IsProd(settings) THEN BuildProviders(x) ELSE [x EXCEPT !.pc = "head"])
    /\ NoFault
    /\ UNCHANGED bucket

\* Wrong: every answer of head_bucket is taken for a 404.
AfterHeadAbsent(x) == [x EXCEPT !.pc = "create"]

\* bucket_exists, answered.
AfterHead(x) == IF bucket THEN BuildProviders(x) ELSE [x EXCEPT !.pc = "create"]

HeadBucket(p) ==
    /\ proc[p].pc = "head"
    /\ SetProc(p, AfterHead(proc[p]))
    /\ NoFault
    /\ UNCHANGED bucket

\* Wrong: a probe that failed is taken for a bucket that is there.
AfterHeadErrorIgnored(x) == BuildProviders(x)

\* The probe is not repeated: any error but a 404 leaves create, and nobody catches it.
AfterHeadError(x) == Over(x)

HeadFails(p) ==
    /\ proc[p].pc = "head"
    /\ SetProc(p, AfterHeadError(proc[p]))
    /\ Fault
    /\ UNCHANGED bucket

\* create_bucket, answered: a bucket that is there is a 409, and so a permanent error.
CreateBucket(p) ==
    /\ proc[p].pc = "create"
    /\ SetProc(p, IF bucket THEN Over(proc[p]) ELSE BuildProviders(proc[p]))
    /\ bucket' = TRUE
    /\ NoFault

\* A transient error (5xx, throttling, no connection), with or without an effect, is
\* tried again while tries remain; a permanent one is not, and has none.
AfterCreateError(x, transient) ==
    IF transient /\ x.tries < MaxTries THEN [x EXCEPT !.tries = @ + 1] ELSE Over(x)

CreateFails(p, transient, executed) ==
    /\ proc[p].pc = "create"
    /\ executed => transient
    /\ SetProc(p, AfterCreateError(proc[p], transient))
    /\ bucket' = (bucket \/ executed)
    /\ Fault

\* pc.Index(name=...): the host of the index is looked up, or the look-up raises.
LookUpIndex(p, ok) ==
    /\ proc[p].pc = "index"
    /\ SetProc(p, IF ok THEN Ready(proc[p]) ELSE Over(proc[p]))
    /\ IF ok THEN NoFault ELSE Fault
    /\ UNCHANGED bucket

\* SIGTERM: the handlers are in place before create.
Stop(p) ==
    /\ proc[p].pc \notin {"down", "exited"}
    /\ ~proc[p].stop
    /\ SetProc(p, [proc[p] EXCEPT !.stop = TRUE])
    /\ Spend("stops", MaxStops)
    /\ UNCHANGED bucket

\* aclose: each close is guarded, so the next one follows whether or not it raised.
Close(x, resource, ok, next) ==
    [x EXCEPT !.pc = next,
              !.held = IF ok THEN @ \ {resource} ELSE @,
              !.stuck = IF ok THEN @ ELSE @ \cup {resource}]

Outcome(ok) == IF ok THEN NoFault ELSE Fault

\* run_worker or the server returns, because it was stopped, or raises: in both cases
\* the finally calls aclose, whose first step does not suspend.
CloseExecutor(p) ==
    /\ proc[p].pc = "running"
    /\ IF proc[p].stop THEN NoFault ELSE Fault
    /\ SetProc(p, Close(proc[p], "executor", TRUE, "redis"))
    /\ UNCHANGED bucket

\* Wrong: an error of redis.aclose leaves aclose.
AfterRedisUnguarded(ok) == IF ok THEN "engine" ELSE "closed"

AfterRedis(ok) == "engine"

CloseRedis(p, ok) ==
    /\ proc[p].pc = "redis"
    /\ SetProc(p, Close(proc[p], "redis", ok, AfterRedis(ok)))
    /\ Outcome(ok)
    /\ UNCHANGED bucket

CloseEngine(p, ok) ==
    /\ proc[p].pc = "engine"
    /\ SetProc(p, Close(proc[p], "engine", ok, "closed"))
    /\ Outcome(ok)
    /\ UNCHANGED bucket

End(p) ==
    /\ proc[p].pc = "closed"
    /\ SetProc(p, Over(proc[p]))
    /\ NoFault
    /\ UNCHANGED bucket

Dies(p) ==
    /\ proc[p].pc \notin {"down", "exited"}
    /\ SetProc(p, Over(proc[p]))
    /\ Spend("crashes", MaxCrashes)
    /\ UNCHANGED bucket

-----------------------------------------------------------------------------
ProcessStep(p) ==
    \/ Boot(p)
    \/ HeadBucket(p)
    \/ CreateBucket(p)
    \/ LookUpIndex(p, TRUE)
    \/ proc[p].stop /\ CloseExecutor(p)
    \/ CloseRedis(p, TRUE)
    \/ CloseEngine(p, TRUE)
    \/ End(p)

ProcessFails(p) ==
    \/ HeadFails(p)
    \/ \E transient, executed \in BOOLEAN : CreateFails(p, transient, executed)
    \/ LookUpIndex(p, FALSE)
    \/ ~proc[p].stop /\ CloseExecutor(p)
    \/ CloseRedis(p, FALSE)
    \/ CloseEngine(p, FALSE)
    \/ Dies(p)

StartupInit ==
    /\ settings \in {ForceMinio(s) : s \in Environment}
    /\ proc = [p \in Processes |-> Down]
    /\ bucket \in BOOLEAN
    /\ budget = [kind \in {"faults", "crashes", "stops"} |-> 0]

StartupNext ==
    \/ \E p \in Processes : ProcessStep(p)
    \/ \E p \in Processes : ProcessFails(p)
    \/ \E p \in Processes : Stop(p)

\* Calls are answered or fail, what has ended is restarted, and a process that runs and is
\* told to stop comes to aclose: of a worker that is saturated this is an assumption.
StartupSpec ==
    /\ StartupInit
    /\ [][StartupNext]_startupVars
    /\ \A p \in Processes : WF_startupVars(ProcessStep(p))

\* The hosts a process may be calling, the infrastructure in compose left out.
Hosts(x) ==
    CASE x.pc \in {"head", "create"} -> {ObjectStoreHost(settings)}
      [] x.pc = "index"               -> {"pinecone"}
      [] x.pc = "running"             -> {ObjectStoreHost(settings)} \cup Selected(settings)
      [] OTHER                        -> {}

-----------------------------------------------------------------------------
(* Properties.                                                             *)

\* AppContainer.create: no process serves jobs without the bucket its results go to,
\* whatever failed and whoever created it.
RunningHasBucket == \A p \in Processes : proc[p].pc = "running" /\ ~IsProd(settings) => bucket

\* Settings: "Zero-Cloud Isolation". Outside production, without keys, no process ever
\* calls anything outside the compose network, neither while it starts nor for a job.
ZeroCloud ==
    \A p \in Processes :
        \/ ~ZeroKeys(settings)
        \/ Hosts(proc[p]) \subseteq {"minio"}

\* aclose: "one failure cannot strand the others". What is still open when it returns is
\* what could not be closed itself.
ClosedReleasesAll == \A p \in Processes : proc[p].pc = "closed" => proc[p].held \subseteq proc[p].stuck

\* ensure_bucket is not idempotent: of two processes that both saw a 404 one gets a 409
\* and dies, and so does one whose create_bucket lost its reply. But it is not a crash
\* loop: every process comes up, unless it is told to stop.
UpUnlessStopped == \A p \in Processes : proc[p].pc = "down" ~> proc[p].pc = "running" \/ proc[p].stop

\* A SIGTERM at any moment, also while create is still going or failing, ends the process.
StopEndsProcess == \A p \in Processes : proc[p].stop ~> proc[p].pc = "exited"

-----------------------------------------------------------------------------
(* The inductive invariant of StartupProofs.                               *)

StartupTypeOK ==
    /\ settings \in Settings
    /\ proc \in [Processes -> ProcRecord]
    /\ bucket \in BOOLEAN
    /\ budget \in [{"faults", "crashes", "stops"} -> Nat]

\* What aclose has not come to yet.
LeftToClose(pc) ==
    CASE pc = "redis"  -> {"redis", "engine"}
      [] pc = "engine" -> {"engine"}
      [] pc = "closed" -> {}
      [] OTHER         -> Resources

ClosingInOrder ==
    \A p \in Processes : proc[p].held \subseteq LeftToClose(proc[p].pc) \cup proc[p].stuck

\* What stands behind a process that has come past ensure_bucket.
BucketBeforeIndex ==
    \A p \in Processes : proc[p].pc \in {"index", "running"} /\ ~IsProd(settings) => bucket

IndexNeedsKey ==
    \A p \in Processes : proc[p].pc = "index" => settings.pinecone_api_key = "given"

StartupInv == StartupTypeOK /\ BucketBeforeIndex /\ IndexNeedsKey /\ ClosingInOrder
=============================================================================
