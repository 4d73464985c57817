# Verification of the asynchronous inference engine

TLA+ models, TLC runs and TLAPS proofs for the engine in `src/src/app`: an HTTP
API that accepts inference jobs, PostgreSQL as the source of truth, a Redis
stream of job pointers, and worker processes that run the jobs.

## 1. Inventory

| component | source | state | operations | interacts with |
|---|---|---|---|---|
| job lifecycle | `domain/models.py` | status, attempts, result_ref, error | `new`, `mark_running`, `mark_success`, `mark_failed`, `requeue`, `is_terminal` | used by ingestion, processor, consumer |
| jobs repository | `adapters/persistence/repository.py` | the `jobs` table | `add`, `get`, `update` (SELECT, then UPDATE of changed columns, one transaction, no version check) | called by API and workers |
| producer and messages | `adapters/broker/producer.py`, `messages.py` | work stream, dead-letter stream, consumer group | `ensure_group`, `publish`, `republish`, `dead_letter` | Redis |
| ingestion | `services/ingestion.py` | one request | `submit`: insert, then publish under the retry policy | repository, producer |
| consumer | `adapters/broker/consumer.py` | in-flight tasks and ids, reclaim cursor | `run`, `consume_once`, `_reclaim_orphans`, `_handle_reclaimed`, `_read_new`, `_dispatch`, `_process_and_route`, `_on_transient`, `_route_to_dlq`, `_mark_failed`, `drain` | Redis, repository, processor |
| processor | `services/processor.py` | none | `process`: guard, start, pipeline, success | repository, pipelines |
| runner | `worker/runner.py` | stop event | signal handlers, `run_worker`, `main` | container, consumer |
| composition root | `container.py`, `api/app.py` | executor, engine, redis client | `create`, `aclose` | everything |
| object store | `adapters/object_store/s3.py` | a bucket | `ensure_bucket`, `bucket_exists`, `put_bytes`, `get_bytes` | boto3, through the offloader |
| retry policy and error classification | `core/retry.py`, the `errors.py` and `_errors.py` of the adapters | none | `retrying`, `classify_*_error` | ingestion, adapters |
| pipelines | `services/pipelines.py` | artifacts, vectors | `RagQueryPipeline.run`, `EmbedDocumentPipeline.run` | providers, object store |
| chunking | `domain/chunking.py` | none | `chunk_text` | embed pipeline |
| thread offloader | `core/concurrency.py` | thread pool and its queue | `run` | adapters |
| providers and vector store | `adapters/providers/` | none; the fakes keep vectors in memory | search, embed, upsert, query, complete; `build_providers` | remote services, through the offloader |
| API surface | `api/` | none | validation, authentication, `readiness` | ingestion, repository, container |
| configuration, logging | `core/config.py`, `core/logging.py` | settings | read once at start, redirect to MinIO | composition root |

What is hard here, and hard to test:

* tasks of several workers, and several tasks of one worker, interleave at every
  await; each repository and Redis call may fail before or after it took effect;
* delivery is at least once: the same job can be in several entries and in the
  hands of several workers, and the only protection is a guard that is read long
  before the row is written;
* a worker can die between any two calls; recovery is the pending-entries list,
  the idle time of an entry and its delivery count;
* the hand-over to the next attempt and the dead-letter path are each three or
  more calls whose order matters;
* a single event loop runs the consume loop, the tasks and the signal handler;
* the blocking SDK calls of all tasks share one pool of threads; a call that timed
  out is tried again while its request may still be executed, now or much later;
* which hosts a process talks to, and whether it comes up at all, hangs on a few
  settings that may be unset, empty or given.

`PROJECT.json` lists these as hazards with the line where each one bites and the
properties that would catch it.

## 2. Modules

```
JobLifecycle      RedisStream (external)          JobContract (abstract spec)
      \            /                                   |
         Stores                                        | ImplementsContract
        /      \                                       |
  Ingestion   Worker                                   |
        \      /                                       |
     InferenceEngine  ---------------------------------+
        |          \
     MCEngine    EngineSafetyProofs
                      |
                 DeadLetterProofs
                  /            \
         RecoveryProofs    HandOverProofs

  Chunking ---- Pipelines ---- MCPipelines     Configuration -- Startup -- MCStartup
      \             \                                             \
  ChunkingProofs -- PipelineProofs                             StartupProofs

  UpstreamErrors -- PortCalls -- Readiness -- MCReadiness      PortContract (abstract)
                        |             \                              |
                        |         PortCallProofs                     |
                        +------------ ImplementsPortContract --------+
```

* **JobLifecycle** - the aggregate as operators on a record: status, attempts,
  and whether `result_ref` and `error` are set. Ids, payload and timestamps are
  left out: nothing decides on them.
* **RedisStream** - what the adapter uses of a Redis 7 stream and one consumer
  group. External: Redis is not part of the repository. The owner of a pending
  entry is not kept because no command the code issues depends on it.
* **Stores** - the state the processes share: `rows`, `stream`, `dlq`. A call is
  one step. `Replied` and `NotExecuted` are its outcomes: executed and answered,
  executed with the answer lost, not executed. `UpdateRow` with `MergeInto` is
  the UPDATE SQLAlchemy's `merge` issues: it writes the columns that differ from
  the row SELECTed before, and nothing in its WHERE clause notices another
  writer. Both streams are a log and the first entry the trim has left: `dead_letter`
  goes through the same `_xadd`, with the same `MAXLEN ~`, as the work stream. Nobody
  reads the dead-letter stream but an operator, so it has no group.
* **Ingestion** - `submit`, one action per call and outcome, retry included.
* **Worker** - one process. `loop[w].pc` and `tasks[w][i].pc` name the call that
  is awaited; a step is the call together with the code that runs on its reply
  up to the next await. `_in_flight` and `_in_flight_ids` are the tasks with a pc
  other than `none`: the done-callback that removes the task from the first set
  and the `finally` that removes its id from the second are one step. `execs`
  counts started pipelines and exists for one property.
* **InferenceEngine** - the composition, fairness, properties, and the inductive
  invariants of the proofs.
* **JobContract** - what a client may rely on; see section 4.

* **Chunking** - `chunk_text`. A character is its position, a text the length
  of what `strip()` leaves; a chunker is a call in progress and `Window` one iteration of its loop. `ReferenceChunks` says what
  the windows are without the loop. Positions are those of the stripped text. So
  are the code's: for a document that starts with whitespace the offsets in the
  manifest are short by what was stripped, where `chunking.py:17-18` speaks of the
  original text. Nothing in the repository reads them back.
* **Pipelines** - `RagQueryPipeline.run` and `EmbedDocumentPipeline.run` against
  the vector store and the object store. A run is one call by the processor, and
  `runs[r].pc` is the port call it awaits. It is what the single step
  `RunPipeline` of **Worker** stands for: that step's outcomes are `done` and the
  two classes of `failed` here, and because that model has a job started again
  after a failure, and even while an earlier run is going, so has this one. A call
  that returns was executed (`PortContract`); of one that raises only the request is
  left. `sent` keeps the write requests of all tries of all runs, and `LateWrite`
  executes any of them at any time, any number of times: an upsert that timed out
  may land after the job's next run has written its manifest. What a vector or an
  answer is does not matter to the properties; which text it was made from does.
* **Configuration** - the settings `create` decides on, the redirect to MinIO, the
  host of the S3 client and the adapters `build_providers` selects. A secret is
  unset, empty or given: pydantic makes of an empty variable a secret of no
  characters, which is not None.
* **Startup** - the life of a process, API or worker: `AppContainer.create` with
  `ensure_bucket` and `build_providers`, running, `aclose`, and restart by the
  supervisor. Its processes share the bucket and the environment. `proc[p].pc` is
  the call that is outstanding: `head` and `create` for the two calls of
  `ensure_bucket` (the second under the retry loop of `S3ObjectStore._call`),
  `index` for the look-up of the Pinecone index, which blocks the event loop,
  `redis` and `engine` for those of `aclose`.
  It is what the single step `Boot` of **Worker** stands for, and what follows that
  model's `exited`. `create_bucket` on a bucket that is there is a 409, as MinIO
  answers it, hence a permanent error: `ensure_bucket` is not idempotent
  (`s3.py:52` says it is), and the loser of the race between two first starts dies.
  `UpUnlessStopped` is what remains true: the restart finds the bucket.

* **UpstreamErrors** - what the five SDKs raise, as far as the classifiers ask
  (classes, HTTP status, S3's load-shedding codes), and the classifiers. In redis-py
  an `AuthenticationError` is a `ConnectionError`, so the order of the questions
  matters.
* **PortCalls** - the calls the tasks of one process make through the ports: one
  retry loop per call (`_call` of the adapters, and `retrying` around `publish`),
  each try one work item in the queue of the executor, which has `Threads` threads.
  The redis call is awaited on the loop and takes no thread; `bucket_exists` is not
  retried, and takes a 404 for an answer. `applied` and `adrift` count the tries
  whose request was executed, and those that are over and whose request is still on
  its way. `Shutdown` is the first step of `aclose`.
* **PortContract** - a port as its caller sees it: issued, executed or not, returned
  or raised.
* **Readiness** - `GET /health/ready` on top of PortCalls: three probes one after
  the other, the last of them one of the calls that wait for a thread.

Correspondence in the small is the `map` of `PROJECT.json`: every definition with
the lines it stands for.

### Abstractions

* Time. Idle time is a choice: any pending entry may have been idle for
  `reclaim_idle_ms`. With `IdleMeansOrphan = TRUE` only entries nobody alive works
  on may (the tuning the documents ask for).
* `times_delivered` saturates one above `max_delivery_count`; it is only compared
  with it.
* The stream pointer stands for its three fields. `to_fields` and `from_fields`
  are inverse on what the producer writes; entries that somebody else wrote to the
  stream are not modelled.
* In **Worker** a pipeline run is one step with three outcomes; **Pipelines** has
  its calls.
* Which records a vector query returns is a choice among those of the namespace,
  up to `top_k`: neither the ranking nor when an upsert becomes visible is ours. An
  upsert is applied as a whole. The HTTP schema admits no `chunk_size` or
  `chunk_overlap`, but the pipeline reads them, and the model takes them all.
* What an SDK repeats by itself is part of one try: boto3's repetitions are switched
  off in `container.py`, those of redis-py and Pinecone are their defaults. A second
  execution inside one try is seen by **Pipelines** (`LateWrite`) but not by the
  stream of **Stores**.
* In **PortCalls** an execution that comes late is followed for `upsert`, `put` and
  `publish`; of a read nobody gets the result. A `put` or `upsert` of 4xx status has
  not been executed.
* Cancellation of the consume loop and the Windows signal path are left out.

## 3. Bounds

`MaxEntries` (entries ever added), `MaxFaults` (failing calls), `MaxCrashes`,
`MaxStops` are bounds of the model. `MaxAttempts`, `MaxTries`, `MaxDelivery`,
`MaxLen` and `Concurrency` are settings of the program with small values. The
bounds are chosen so that the interesting cases happen: two attempts are enough
for a hand-over and an exhausted retry, two workers for a reclaim by somebody
else, one crash and one failing call for each window between two calls.
`MaxLen` is 1 in `hostile`, where both streams are trimmed, and in `restart`, whose one
entry stays while the dead-letter stream is trimmed; in `recovery` it is `MaxEntries`,
so that the trim leaves the work stream alone; elsewhere it is out of reach.
The dead-letter stream needs no bound of its own: whoever writes a dead letter
acknowledges the entry next, and only a failing call or a crash, which are bounded,
can prevent that.
`MaxEntries` leaves room for every entry the attempts and duplicates of a run can
add, so the bound does not cut a behaviour of the liveness runs short. In those
runs `Concurrency` is above `MaxEntries`: a saturated worker never suspends (the
`saturation` run), and nothing could be shown to be live next to it; the
`hostile` run has the saturated worker for the safety properties.

`MaxRuns` bounds the runs of all jobs together; two are enough for every overlap of
two. The texts of `pipelines` go up to five characters with windows up to three,
past the second window for each size, with every overlap including the illegal
ones.

`startup` has three processes: an API and two workers, so that the loser of a race
for the bucket can meet another one; two failing calls exhaust the two tries of
`create_bucket`, or fail both closes of `aclose`.

Its environments are one without keys (test), one with all of them (dev, MinIO
named) and a production one; `empty_keys` has the one `docker-compose.yml` gives.

`port_calls` has three calls and one thread, so that two of them wait while one
works or backs off, and two tries, so that there is a first and a last one. A worker
embeds, searches and writes, or completes, queries and upserts: every classifier and
both conversions. The API process answers two readiness requests while it publishes.

Jobs and workers are symmetric; symmetry is used in the runs that check no
liveness.

## 4. Runs

Passing:

| run | instance | checks |
|---|---|---|
| `failure_free` | 2 jobs, 2 workers, 2 attempts | `TypeOK`; `OneExecutorPerJob` and `StartsOnlyPending`: the hand-over requeue, republish, ack never lets two tasks execute one job, nor a reader meet a RUNNING row; `AttemptsHonest`; `RowCoherent`; `ImplementsContract`; `HandOverInv` (the invariant that is proved) |
| `completion` | 1 job, 2 workers, one SIGTERM | `NoOrphanWithoutFailure`: a worker that drains leaves nothing to reclaim; `StopIsHonoured`; `EventuallyTerminal` |
| `hostile` | 2 jobs, 1 worker with 2 slots, one failing call, one crash, premature reclaim, `MaxLen` 1 | `SafetyInv` (the invariant that is proved); `InFlightBounded`; `PointerHasRow`; `FailedIsDeadLettered`: the pointer of a FAILED row is in the dead-letter stream unless `MaxLen` later ones displaced it; `NoDoubleDispatch` |
| `recovery` | 1 job with 2 attempts, 2 workers, one crash | `RecoveryInv` (the invariant that is proved) and `NoJobLost`: an accepted job is terminal, tracked by the stream, or dead-lettered. An entry may be reclaimed and run again once before its delivery count sends it to the dead-letter stream |
| `restart` | 1 job, 2 workers, two failing calls, one crash | `EventuallySettled`: with restart and reclaim every accepted job ends or is dead-lettered |
| `pipelines` | 2 queries; 1 document with each small text and window; 2 jobs of one document; malformed payloads; 2 runs; late and repeated writes | `ChunkingOK`: windows within the text, exact overlaps, progress, coverage; `ManifestIsIndexed`: no manifest lists what is not in the index; `ManifestIsDeterministic`: whichever run wrote it, it lists the windows of the text; `GroundedInOwnSearch`: no answer uses another job's snippets; `PipelineInv` (the invariant that is proved) |
| `startup` | 3 processes, 3 environments, bucket there or not, 2 tries, two failing calls, one crash, one SIGTERM | `RunningHasBucket`: nobody serves without the bucket; `ZeroCloud`: without keys and outside production no process talks to a host outside the compose network; `ClosedReleasesAll`: `aclose` leaves open only what could not be closed; `UpUnlessStopped`: neither the race for the bucket nor a lost reply is a crash loop; `StopEndsProcess`: a SIGTERM during `create` or `aclose` is not lost; `StartupInv` (the invariant that is proved) |
| `port_calls` | 3 calls, 1 thread, 2 tries; a worker and an API process | `ImplementsPortContract`: retry over offload implements the port; `BarredIsFinal`: refused credentials are not sent again; `ReportIsHonest`: the readiness report says of each dependency what that one did; `CallsReturn`: with fewer threads than calls every call ends, every probe is answered and a stopped process closes; `PortInv` (the invariant that is proved) |

`ImplementsContract` is refinement: the jobs table and the set of requests
answered with 202 implement `JobContract`, in which a job is entered once, moves
along the status graph, is started at most `max_attempts` times, and never changes
once terminal. The engine implements it when no call fails, no process dies and
nothing is reclaimed too early; the violation runs show what is lost otherwise. What a crash during a run costs is
visible in `recovery`: the reclaimed entry meets a RUNNING row, `mark_running`
raises, and the job is dead-lettered rather than resumed.

Deadlock is not checked in `pipelines`, `startup` and `port_calls`: once every run has
returned or raised, every process is running or has exited, or the pool is closed,
nothing is left to do.

Violations (each quotes, in `findings`, the line of the repository it refutes):

| run | property | what happens |
|---|---|---|
| `saturation` | `StopIsHonoured` | with every slot taken, `consume_once` returns without suspending and `run` never yields: tasks, done-callbacks and `stop.set` starve |
| `crash_terminal` | `TerminalStable` | a crash between republish and ack leaves two entries of one job; both pass the guards, one of them succeeds, and the UPDATE to RUNNING of the other (`processor.py:84-87`) overwrites SUCCESS. A job that outlives `reclaim_idle_ms` gets there without any crash |
| `cold_start` | `AlwaysTracked` | the group is created at `$`: what was published before is never delivered |
| `empty_keys` | `UpUnlessStopped` | `docker-compose.yml` passes an unset `AIE_PINECONE_API_KEY` on as an empty string; `build_providers` takes it for a key, `Pinecone("")` raises, and no process ever comes up. The log of `_provider_modes`, which tests truthiness, would say "fake" |

What the operator can count on is `DeadLetters`: the pointers in the dead-letter stream,
and those that at least `MaxLen` later dead letters have displaced. `dead_letter` trims
the stream (`producer.py:88-89`, `119-124`), so a FAILED row whose pointer is no longer
there is not an error, and "is in the stream" is not an invariant: with `MaxLen` 1 TLC
finds a second dead letter that displaces the first. The properties that name the
dead-letter stream (`FailedIsDeadLettered`, `NoJobLost`, `EventuallySettled`) say that a
pointer reaches it and is dropped by nothing but its length.

Two more windows contradict the documents and are in the model, without a run of their
own. The dead-letter path acknowledges before it marks the
row FAILED: after a crash in between the dead-letter stream alone knows the job,
which `NoJobLost` allows and `AlwaysTracked` (phase-5 document, line 1689) does not. And a publish whose tries
were all executed and all lost their reply leaves pointers to a row whose client was
told 5xx, where `ingestion.py:62-63` calls such a row inert; the workers run the
job, and `PointerHasRow` is what remains.

## 5. Fairness

`FairSpec` assumes weak fairness of each request, of the steps of each consume
loop, of the signal callback, and of each task: the event loop runs every ready
callback, servers answer or time out, and pipelines return. It does not assume
that a call fails, that a process dies or that a signal comes. Restart of a dead
process is a loop step (`Boot`): `docker-compose.yml` runs the worker with
`restart: unless-stopped`. Reclaim has strong fairness per entry
(`ReclaimsEntry`): the idle time of an entry nobody works on only grows, so the
choice that it is still too young cannot be made for ever. A loop in `spin` takes
its steps and so satisfies its fairness; its tasks are not enabled, because a
coroutine that never suspends does not let the event loop run them.

`StartupSpec` assumes weak fairness of each process: its calls are answered or fail,
one that ended without having been told to is started again, and one that was told to
stop while it was running leaves `run_worker` or the server and comes to `aclose`.
Failing, dying and being told to stop are not assumed. The last of these assumptions
does not hold of a saturated worker: the run `saturation` refutes it. So
`StopEndsProcess` is about the rest of the process's life: a SIGTERM during `create` or
`aclose` is not lost.

`ReadinessSpec` assumes weak fairness of every reply, of every back-off, of every
probe, of the threads and of `aclose` once the tasks are drained: every call under way
returns. boto3 and ddgs have time-outs by default. For the others it is an assumption
about the client or the other side: `bundle.py:52` builds `InferenceClient` without a
time-out, `container.py:102-106` gives redis no `socket_timeout`, and none is configured
for asyncpg or Pinecone. So `CallsReturn` says that the pool, the retry loops and the
probes keep nobody waiting, not that a silent upstream does not. That a call is ever
made, a late request ever executed or the process ever stopped is not assumed.

## 6. Proofs

The theorems hold for every set of jobs and workers and every value of the bounds
and settings; the assumptions are the named ASSUMEs of `RedisStream`, `Stores`,
`Ingestion` and `Worker` (naturals, positive where the code divides a budget).
They hold with crashes, failing calls, lost replies, premature reclaim and
trimming.

* `TypeCorrect`: `Spec => []TypeOK`.
* `PointersHaveRows`: `Spec => []PointerHasRow`.
* `Backpressure`: `Spec => []InFlightBounded`.
* `FailedJobsAreDeadLettered`: `Spec => []FailedIsDeadLettered`.
* `RunningTasksAreKept`: `Spec => NoDoubleDispatch`, an action property.

The argument. `TypeOK` is not inductive: a pointer's attempt stays in
`1 .. MaxAttempts` only because the retry path is entered below the maximum
(`TaskShape`), counts stay within `Concurrency` only because what the loop may
still dispatch is a budget that tasks ending in between can only relax
(`BudgetKept`), and an entry a task names exists only because it was delivered
(`HeldIsDelivered`). `PointerHasRow` needs `PublishedHasRow` for ingestion and
itself for the retry path. Together with `LoopShape` these are `ShapeInv`, proved
inductive action by action in `EngineSafetyProofs`. `InFlightBounded` follows from
the budget. `FailedIsDeadLettered` needs `DlqBeforeAck`, which relates a task on
the dead-letter path to the dead-letter stream; `SafetyInv` adds both to
`ShapeInv` (`DeadLetterProofs`). Both survive the trim of the dead-letter stream because
`DeadLetters` only grows (`DeadLettersGrow`): an entry that an XADD evicts is followed by
the `MaxLen` it leaves. `NoDoubleDispatch` follows from the conjuncts of
`LoopShape` that say the next claimed entry is not in flight, and from
`HeldIsDelivered`: what XREADGROUP returns was never delivered, so it is in nobody's
hands. TLC checks `SafetyInv` in the `hostile` run.

`EngineSafetyProofs` begins with what the proofs need of minima, cardinalities of
subsets of an interval and the stream operators.

That nothing is lost (`RecoveryProofs`), for any number of failing calls, lost replies,
crashes, restarts and stops:

* `RecoveryInvariant`: `Spec => []RecoveryInv`.
* `AcceptedJobsAreNotLost`: `Spec => []NoJobLost`.
* `EntriesAreHeldOnce`: `Spec => []HeldOnce`.

Three settings are hypotheses, and each of them is needed: change one of them in
`recovery.cfg` and TLC finds `NoJobLost` violated. Without `GroupAtStart` jobs are lost
before the first worker comes up (the run `cold_start`). With two jobs and `MaxLen` 1 the
trim of an XADD evicts an entry nobody has read. Without `IdleMeansOrphan`, which says
that `reclaim_idle_ms` is above every run, two processes hold one entry (`HeldOnce`
fails): one finishes the job and acknowledges, the other takes the row from SUCCESS back
to RUNNING and dies, and nothing speaks for the job any more.

`NoJobLost` speaks of tracking, which no step keeps by itself: a held entry is given up
by an acknowledgement, a pending one by a claim. `JobKept` says instead that while the
job is neither terminal nor dead-lettered, some entry `Carries` it: one still to be
read, or a pending one that is not `Settling`, that is, not in the hands of a task that
is about to acknowledge it without ending the job. For this, what a live process holds
must be pending (`HeldIsPending`), and nobody else may acknowledge it (`HeldOnce`).
Two conjuncts were found missing when the proof stopped: a process in its
unsuspending pass stays there (`SpinIsForEver`), otherwise it would wake up with
entries that others have claimed meanwhile; and a request inserts before anything else
(`InsertIsFirst`), otherwise the insert would reset a terminal row.

That each attempt is handed over (`HandOverProofs`), under `NoFailures`: no call fails,
no process dies, and `IdleMeansOrphan`; workers may be told to stop at any time:

* `HandOverInvariant`: `Spec /\ []NeverSpins => []HandOverInv`.
* `OneExecutor`, `StartsArePending`, `AttemptsAreHonest`, `RowsAreCoherent`,
  `NothingIsOrphaned`: the properties of `failure_free`, and `NoOrphanWithoutFailure` of
  `completion`.
* `StartsAreBounded`: a pipeline is started at most `max_attempts` times for a job.
* `EngineImplementsContract`: `Spec /\ []NeverSpins => ImplementsContract`, the
  refinement.
* `TerminalRowsStay`: `TerminalStable`, which `crash_terminal` refutes where a process
  may die.
* `CapacityNeverSpins`: `Spec => []NeverSpins` where `MaxEntries < Concurrency`, in any
  configuration; and `ContractWithCapacity`, the invariant and the refinement without a
  condition on the behaviour.

The condition `NeverSpins` excludes the behaviours of the `saturation` finding. A
process that never suspends again is alive and its tasks stand still, so its entries
grow idle and others claim them: with `Concurrency = 3` in place of 5, TLC finds each of
`OneExecutorPerJob`, `StartsOnlyPending`, `AttemptsHonest` and `RowCoherent` violated in
the instance of `failure_free`, without a failure. Both runs of these properties have
more slots than entries, so that `CapacityNeverSpins` applies to them.

None of the properties is inductive, because what a task writes depends on what it
read. `HandOverInv` says what the tasks may rely on. At most one entry speaks for a
job: the `Latest` one, still to be read or in the hands of one task that has not begun
to acknowledge it. `IsCurrent` gives, for each call such a task may be awaiting, where
the row is (`BeforeStart`, `Started`, `Requeued`: status, and `attempts` against the
attempt in the pointer) and that the job object and the base of the UPDATE it holds are
those of the row as it is now. So `merge()` writes the whole object (`MergeIsWrite`),
every UPDATE is a transition of the current row (`FlushWritesCurrent`), and the republish
passes the job to a new `Latest` entry at the moment the old task stops speaking for it.
`TaskHandsOver`, `LoopHandsOver` and `RequestHandsOver` state what a step of each actor
may do to the others; every action is shown to be one of them, and each is shown once to
keep the invariant. In the refinement the insert is `Enter`, the publish `Accept`, the
four UPDATEs are `Start`, `Succeed`, `Retry` and `Fail`, and everything else stutters.

For the pipelines, from `PipelinesAssumption` (what a payload looks like):

* `ChunkingCorrect`: `PipelineSpec => []ChunkingOK`.
* `ManifestsAreIndexed`, `ManifestsAreDeterministic`, `AnswersAreGrounded`.

`ChunkerInv` is the loop invariant of `chunk_text`: the chunks so far are the first
windows of the text, they cover it to the end of the last one, and `start` is where
the next window begins. Coverage has to be carried along, because which window a
position is in cannot be found without induction. `ChunkingProofs` shows that
entering the loop establishes it, that an iteration keeps it, and that it implies
the chunking properties and, at the end, equality with `ReferenceChunks`.
`PipelineInv` adds, for each run, record and artifact, what it owes to the others:
a run about to write its manifest has all of its chunks in the index, the records of
a document are windows of the text of the job that wrote them (so two runs of a job
write the same ones), and what a query holds was found for its job. `Preservation`
reduces every action to its own run, records and artifact, provided it takes nothing
out of the index.

For the life of a process, from `StartupAssumption` (`max_attempts` is positive):

* `RunningProcessesHaveTheirBucket`: `StartupSpec => []RunningHasBucket`.
* `CloseReleasesEverything`: `StartupSpec => []ClosedReleasesAll`.
* `WithoutKeysNothingLeaves`: `StartupSpec => []ZeroCloud`, for every environment.

`RunningHasBucket` is inductive with the types because no step takes the bucket away
and `create` returns only after a probe or a creation that succeeded.
`ClosedReleasesAll` is not: it speaks of the end of `aclose` only. `ClosingInOrder`
says at every step which resources have not had their turn yet. `OneProcess` reduces
an action to the process that moves. `ZeroCloud` needs of the initial states that the
redirect has been applied (`ForceMinio`), and of every state that only a process with
a key is at the look-up (`IndexNeedsKey`).

For the port calls, from `PortCallsAssumption` (positive numbers of threads and tries,
finitely many calls):

* `PortInvariant`: `ReadinessSpec => []PortInv`.
* `BadCredentialsAreNotRetried`: `BarredIsFinal`.
* `PortCallsImplementContract`: `ReadinessSpec => ImplementsPortContract`, a refinement.
* `ReportsAreHonest`: `ReadinessSpec => []ReportIsHonest`; `ReportInv` says it of the
  probes that are over, at every step of a request.

`PortInv` counts: what has been executed of a call, what may still be, and the try that
is going on are together no more than its tries (`ExecutionsAreTries`), and a call in
back-off has one left. `OneTryAtATime` ties the executor's queue to the calls that wait
in it, each once; with it `PoolBounded` follows when a thread takes an item. The
refinement shows for each step of PortCalls which step of the contract it is: beginning
a call issues it, a reply ends it together with an execution or without, a late
execution is one that still fits the limit, everything else stutters. A refused
credential is over because every classifier calls it permanent, which is proved for each
of the five tables.

Only model-checked: everything temporal under fairness (`EventuallyTerminal`,
`EventuallySettled`, `StopIsHonoured`, `UpUnlessStopped`, `StopEndsProcess`,
`CallsReturn`), which is out of the prover's reach. Every invariant, action property and
refinement that a passing run checks is proved.

## 7. Plan

Done: the core (submission, stream, table, worker) with its contract, the pipelines
with chunking and late writes, the life of a process with its configuration, the port
calls with their contract and the readiness probe, and the theorems above. In this
order:

1. An XADD that the redis client repeats by itself and that is answered once, in
   **Stores**, and with it the proofs of `ShapeInv` and `RecoveryInv` again.
2. The records a document leaves behind in the index when it is indexed again with
   fewer windows, in **Pipelines**.

## 8. Not modelled

* Malformed stream entries, on which `from_fields` raises: nothing in the repository
  writes one.
* The fakes of `adapters/providers/fake.py`. They are deterministic and local;
  `FakeVectorStore` keeps its records in the memory of one process, so with the fakes
  two workers do not share an index, and what **Pipelines** says holds per process.
* `get_bytes`, which has no caller, and `GET /v1/jobs/{id}` beyond being the reader the
  properties of the jobs table speak for.
* Authentication, request validation and the mapping of exceptions to status codes:
  stateless.
* Logging, the parameters of the database pool, migrations and the wire encodings.

`PROJECT.json` has the reason for each component.
