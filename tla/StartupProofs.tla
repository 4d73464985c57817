----------------------------- MODULE StartupProofs -----------------------------
(***************************************************************************)
(* StartupInv is inductive: for any environment, processes, tries and      *)
(* number of failures, a running process has its bucket, and aclose leaves *)
(* open only what could not be closed.  ZeroCloud follows from what the    *)
(* environment is read as.                                                 *)
(***************************************************************************)
EXTENDS Startup, TLAPS

\* What StartupInv says of one process.
GoodProc(x, b) ==
    /\ x \in ProcRecord
    /\ x.pc \in {"index", "running"} /\ ~IsProd(settings) => b
    /\ x.pc = "index" => settings.pinecone_api_key = "given"
    /\ x.held \subseteq LeftToClose(x.pc) \cup x.stuck

\* A process that has not started holds nothing.
LEMMA DownTyped == Down \in ProcRecord /\ Down.pc = "down" /\ Down.held = {}
BY StartupAssumption DEF Down, ProcRecord, ProcPcs

\* A process that is down or has exited holds nothing either.
LEMMA DownIsGood ==
    ASSUME NEW b, NEW s \in BOOLEAN, NEW pc \in {"down", "exited"}
    PROVE  GoodProc([Down EXCEPT !.pc = pc, !.stop = s], b)
BY DownTyped DEF GoodProc, ProcRecord, ProcPcs

\* A process that is over, stopped or not, is good.
LEMMA OverIsGood ==
    ASSUME NEW b, NEW x \in ProcRecord
    PROVE  GoodProc(Over(x), b)
<1>1. x.stop \in BOOLEAN
  BY DEF ProcRecord
<1>2. CASE x.stop
  BY <1>2, DownIsGood DEF Over
<1>3. CASE ~x.stop
  BY <1>1, <1>3, DownIsGood DEF Over
<1> QED
  BY <1>2, <1>3

\* create returns only with the bucket there, or in production.
LEMMA ReadyIsGood ==
    ASSUME NEW b, NEW x \in ProcRecord, b \/ IsProd(settings)
    PROVE  GoodProc(Ready(x), b)
BY DEF GoodProc, Ready, ProcRecord, ProcPcs, LeftToClose, Resources

\* Before aclose begins everything may be open.
LEMMA MovedIsGood ==
    ASSUME NEW b, NEW x, GoodProc(x, b), NEW pc \in {"head", "create"}
    PROVE  GoodProc([x EXCEPT !.pc = pc], b)
BY DEF GoodProc, ProcRecord, ProcPcs, LeftToClose, Resources

\* The look-up of the index comes after the bucket.
LEMMA ProvidersAreGood ==
    ASSUME NEW b, NEW x, GoodProc(x, b), x.pc \in {"down", "head", "create"},
           b \/ IsProd(settings), settings \in Settings
    PROVE  GoodProc(BuildProviders(x), b)
<1>1. x \in ProcRecord
  BY DEF GoodProc
<1>2. settings.pinecone_api_key \in {"unset", "empty", "given"}
  BY DEF Settings, Secrets
<1>3. CASE settings.pinecone_api_key = "unset"
  BY <1>1, <1>3, ReadyIsGood DEF BuildProviders
<1>4. CASE settings.pinecone_api_key = "empty"
  BY <1>1, <1>4, OverIsGood DEF BuildProviders
<1>5. CASE settings.pinecone_api_key = "given"
  <2>1. GoodProc([x EXCEPT !.pc = "index"], b)
    BY <1>1, <1>5 DEF GoodProc, ProcRecord, ProcPcs, LeftToClose, Resources
  <2> QED
    BY <1>5, <2>1 DEF BuildProviders
<1> QED
  BY <1>2, <1>3, <1>4, <1>5

\* A step of one process keeps the invariant if it leaves that process good and does not
\* take the bucket away from the others.
LEMMA OneProcess ==
    ASSUME StartupInv, NEW p \in Processes, NEW x,
           SetProc(p, x), GoodProc(x, bucket'),
           bucket' \in BOOLEAN, bucket => bucket',
           budget' \in [{"faults", "crashes", "stops"} -> Nat]
    PROVE  StartupInv'
<1>1. proc' = [proc EXCEPT ![p] = x] /\ x \in ProcRecord /\ settings' = settings
  BY DEF SetProc, GoodProc
<1>2. StartupTypeOK'
  BY <1>1 DEF StartupInv, StartupTypeOK
<1>3. \A q \in Processes : proc'[q] = IF q = p THEN x ELSE proc[q]
  BY <1>1 DEF StartupInv, StartupTypeOK
<1>4. BucketBeforeIndex'
  BY <1>1, <1>3 DEF StartupInv, BucketBeforeIndex, GoodProc
<1>a. IndexNeedsKey'
  BY <1>1, <1>3 DEF StartupInv, IndexNeedsKey, GoodProc
<1>5. ClosingInOrder'
  BY <1>3 DEF StartupInv, ClosingInOrder, GoodProc
<1> QED
  BY <1>2, <1>4, <1>a, <1>5 DEF StartupInv

\* What StartupInv says of the process that moves.
LEMMA EachIsGood ==
    ASSUME StartupInv, NEW p \in Processes
    PROVE  /\ proc[p] \in ProcRecord
           /\ GoodProc(proc[p], bucket)
           /\ bucket \in BOOLEAN /\ settings \in Settings
           /\ budget \in [{"faults", "crashes", "stops"} -> Nat]
BY DEF StartupInv, StartupTypeOK, BucketBeforeIndex, IndexNeedsKey, ClosingInOrder, GoodProc

\* The budget stays a budget.
LEMMA BudgetKept ==
    ASSUME budget \in [{"faults", "crashes", "stops"} -> Nat],
           \/ NoFault \/ Fault
           \/ Spend("crashes", MaxCrashes) \/ Spend("stops", MaxStops)
    PROVE  budget' \in [{"faults", "crashes", "stops"} -> Nat]
BY DEF NoFault, Fault, Spend

\* A close moves on, and what stays open is known to be stuck.
LEMMA CloseIsGood ==
    ASSUME NEW b, NEW x, GoodProc(x, b), NEW ok \in BOOLEAN,
           NEW resource, NEW next,
           \/ resource = "executor" /\ next = "redis" /\ ok
           \/ resource = "redis" /\ next = "engine" /\ x.pc = "redis"
           \/ resource = "engine" /\ next = "closed" /\ x.pc = "engine"
    PROVE  GoodProc(Close(x, resource, ok, next), b)
<1> DEFINE y == Close(x, resource, ok, next)
<1>1. x \in ProcRecord /\ x.held \subseteq Resources /\ x.stuck \subseteq Resources
  BY DEF GoodProc, ProcRecord
<1>2. resource \in Resources /\ next \in {"redis", "engine", "closed"}
  BY DEF Resources
<1>3. /\ y.pc = next /\ y.tries = x.tries /\ y.stop = x.stop
      /\ y.held = IF ok THEN x.held \ {resource} ELSE x.held
      /\ y.stuck = IF ok THEN x.stuck ELSE x.stuck \cup {resource}
  <2>1. CASE ok
    BY <1>1, <2>1 DEF Close, ProcRecord
  <2>2. CASE ~ok
    BY <1>1, <2>2 DEF Close, ProcRecord
  <2> QED
    BY <2>1, <2>2
<1>4. y \in ProcRecord
  BY <1>1, <1>2 DEF Close, ProcRecord, ProcPcs
<1>5. x.held \subseteq LeftToClose(x.pc) \cup x.stuck
  BY DEF GoodProc
<1>6. y.held \subseteq LeftToClose(next) \cup y.stuck
  <2>1. CASE resource = "executor" /\ next = "redis" /\ ok
    BY <1>1, <1>3, <2>1 DEF LeftToClose, Resources
  <2>2. CASE resource = "redis" /\ next = "engine" /\ x.pc = "redis"
    BY <1>3, <1>5, <2>2 DEF LeftToClose
  <2>3. CASE resource = "engine" /\ next = "closed" /\ x.pc = "engine"
    BY <1>3, <1>5, <2>3 DEF LeftToClose
  <2> QED
    BY <2>1, <2>2, <2>3
<1>7. next \notin {"index", "running"}
  BY <1>2
<1> QED
  BY <1>3, <1>4, <1>6, <1>7 DEF GoodProc

-----------------------------------------------------------------------------
\* Reading the environment yields settings.
LEMMA ForceMinioTyped == \A s \in Environment : ForceMinio(s) \in Settings
BY StartupAssumption DEF ForceMinio, Settings, Endpoints

LEMMA StartupInitOK == StartupInit => StartupInv
<1> SUFFICES ASSUME StartupInit PROVE StartupInv
  OBVIOUS
<1>1. Down \in ProcRecord /\ Down.pc = "down" /\ Down.held = {}
  BY DownTyped
<1>2. \A p \in Processes : proc[p] = Down
  BY DEF StartupInit
<1>3. settings \in Settings
  BY ForceMinioTyped DEF StartupInit
<1>4. StartupTypeOK
  BY <1>1, <1>3 DEF StartupInit, StartupTypeOK
<1> QED
  BY <1>1, <1>2, <1>4 DEF StartupInv, BucketBeforeIndex, IndexNeedsKey, ClosingInOrder

\* create up to its await.
LEMMA BootOK ==
    ASSUME StartupInv, NEW p \in Processes, Boot(p) PROVE StartupInv'
<1> DEFINE x == [Down EXCEPT !.held = Resources]
<1>a. x \in ProcRecord /\ x.pc = "down" /\ x.held = Resources
  BY DownTyped DEF ProcRecord
<1> HIDE DEF x
<1>1. x \in ProcRecord /\ GoodProc(x, bucket)
  BY <1>a DEF GoodProc, LeftToClose
<1>2. GoodProc(IF IsProd(settings) THEN BuildProviders(x) ELSE [x EXCEPT !.pc = "head"], bucket')
  BY <1>1, <1>a, EachIsGood, ProvidersAreGood, MovedIsGood DEF Boot
<1>3. /\ SetProc(p, IF IsProd(settings) THEN BuildProviders(x) ELSE [x EXCEPT !.pc = "head"])
      /\ NoFault /\ bucket' = bucket
  BY DEF Boot, x
<1> QED
  BY <1>2, <1>3, EachIsGood, BudgetKept, OneProcess

\* The probe and the call that creates the bucket, answered or not.
LEMMA EnsureBucketOK ==
    ASSUME StartupInv, NEW p \in Processes,
           \/ HeadBucket(p) \/ HeadFails(p) \/ CreateBucket(p)
           \/ \E transient, executed \in BOOLEAN : CreateFails(p, transient, executed)
    PROVE  StartupInv'
<1>0. /\ proc[p] \in ProcRecord /\ GoodProc(proc[p], bucket) /\ bucket \in BOOLEAN
      /\ budget \in [{"faults", "crashes", "stops"} -> Nat] /\ settings \in Settings
  BY EachIsGood
<1>1. CASE HeadBucket(p)
  <2>1. GoodProc(AfterHead(proc[p]), bucket')
    BY <1>0, <1>1, ProvidersAreGood, MovedIsGood DEF HeadBucket, AfterHead
  <2> QED
    BY <1>0, <1>1, <2>1, BudgetKept, OneProcess DEF HeadBucket
<1>2. CASE HeadFails(p)
  BY <1>0, <1>2, OverIsGood, BudgetKept, OneProcess DEF HeadFails, AfterHeadError
<1>3. CASE CreateBucket(p)
  <2>1. GoodProc(IF bucket THEN Over(proc[p]) ELSE BuildProviders(proc[p]), bucket')
    <3>1. GoodProc(proc[p], TRUE)
      BY <1>0 DEF GoodProc
    <3> QED
      BY <1>0, <1>3, <3>1, OverIsGood, ProvidersAreGood DEF CreateBucket
  <2> QED
    BY <1>0, <1>3, <2>1, BudgetKept, OneProcess DEF CreateBucket
<1>4. ASSUME NEW transient \in BOOLEAN, NEW executed \in BOOLEAN,
             CreateFails(p, transient, executed)
      PROVE  StartupInv'
  <2>1. proc[p].pc = "create" /\ bucket' \in BOOLEAN /\ (bucket => bucket')
    BY <1>0, <1>4 DEF CreateFails
  <2>2. CASE transient /\ proc[p].tries < MaxTries
    <3> DEFINE x == [proc[p] EXCEPT !.tries = @ + 1]
    <3>1. x \in ProcRecord /\ x.pc = "create" /\ x.held = proc[p].held /\ x.stuck = proc[p].stuck
      BY <1>0, <2>1, <2>2, StartupAssumption DEF ProcRecord
    <3> HIDE DEF x
    <3>2. GoodProc(x, bucket')
      BY <1>0, <2>1, <3>1 DEF GoodProc
    <3>3. SetProc(p, x)
      BY <1>4, <2>2 DEF CreateFails, AfterCreateError, x
    <3> QED
      BY <1>0, <1>4, <2>1, <3>2, <3>3, BudgetKept, OneProcess DEF CreateFails
  <2>3. CASE ~(transient /\ proc[p].tries < MaxTries)
    <3>1. SetProc(p, Over(proc[p]))
      BY <1>4, <2>3 DEF CreateFails, AfterCreateError
    <3> QED
      BY <1>0, <1>4, <2>1, <3>1, OverIsGood, BudgetKept, OneProcess DEF CreateFails
  <2> QED
    BY <2>2, <2>3
<1> QED
  BY <1>1, <1>2, <1>3, <1>4

\* The look-up of the index, answered or not.
LEMMA LookUpIndexOK ==
    ASSUME StartupInv, NEW p \in Processes, NEW ok \in BOOLEAN, LookUpIndex(p, ok)
    PROVE  StartupInv'
<1>0. /\ proc[p] \in ProcRecord /\ GoodProc(proc[p], bucket) /\ bucket \in BOOLEAN
      /\ budget \in [{"faults", "crashes", "stops"} -> Nat]
  BY EachIsGood
<1>1. bucket' = bucket /\ (bucket \/ IsProd(settings)) /\ (NoFault \/ Fault)
  BY <1>0 DEF LookUpIndex, GoodProc
<1>2. GoodProc(IF ok THEN Ready(proc[p]) ELSE Over(proc[p]), bucket')
  BY <1>0, <1>1, ReadyIsGood, OverIsGood
<1>3. SetProc(p, IF ok THEN Ready(proc[p]) ELSE Over(proc[p]))
  BY DEF LookUpIndex
<1> QED
  BY <1>0, <1>1, <1>2, <1>3, BudgetKept, OneProcess

\* aclose, step by step.
LEMMA CloseOK ==
    ASSUME StartupInv, NEW p \in Processes,
           CloseExecutor(p) \/ \E ok \in BOOLEAN : CloseRedis(p, ok) \/ CloseEngine(p, ok)
    PROVE  StartupInv'
<1>0. /\ GoodProc(proc[p], bucket) /\ bucket \in BOOLEAN
      /\ budget \in [{"faults", "crashes", "stops"} -> Nat]
  BY EachIsGood
<1>1. CASE CloseExecutor(p)
  <2>1. GoodProc(Close(proc[p], "executor", TRUE, "redis"), bucket)
    BY <1>0, CloseIsGood
  <2> QED
    BY <1>0, <1>1, <2>1, BudgetKept, OneProcess DEF CloseExecutor
<1>2. ASSUME NEW ok \in BOOLEAN, CloseRedis(p, ok)
      PROVE  StartupInv'
  <2>1. GoodProc(Close(proc[p], "redis", ok, "engine"), bucket)
    BY <1>0, <1>2, CloseIsGood DEF CloseRedis
  <2>2. NoFault \/ Fault
    BY <1>2 DEF CloseRedis, Outcome
  <2> QED
    BY <1>0, <1>2, <2>1, <2>2, BudgetKept, OneProcess DEF CloseRedis, AfterRedis
<1>3. ASSUME NEW ok \in BOOLEAN, CloseEngine(p, ok)
      PROVE  StartupInv'
  <2>1. GoodProc(Close(proc[p], "engine", ok, "closed"), bucket)
    BY <1>0, <1>3, CloseIsGood DEF CloseEngine
  <2>2. NoFault \/ Fault
    BY <1>3 DEF CloseEngine, Outcome
  <2> QED
    BY <1>0, <1>3, <2>1, <2>2, BudgetKept, OneProcess DEF CloseEngine
<1> QED
  BY <1>1, <1>2, <1>3

\* A process that ends or dies, and a signal.
LEMMA EndOK ==
    ASSUME StartupInv, NEW p \in Processes, End(p) \/ Dies(p) \/ Stop(p)
    PROVE  StartupInv'
<1>0. /\ proc[p] \in ProcRecord /\ GoodProc(proc[p], bucket) /\ bucket \in BOOLEAN
      /\ budget \in [{"faults", "crashes", "stops"} -> Nat]
  BY EachIsGood
<1>1. CASE End(p)
  BY <1>0, <1>1, OverIsGood, BudgetKept, OneProcess DEF End
<1>2. CASE Dies(p)
  BY <1>0, <1>2, OverIsGood, BudgetKept, OneProcess DEF Dies
<1>3. CASE Stop(p)
  <2> DEFINE x == [proc[p] EXCEPT !.stop = TRUE]
  <2>1. GoodProc(x, bucket)
    BY <1>0 DEF GoodProc, ProcRecord
  <2> QED
    BY <1>0, <1>3, <2>1, BudgetKept, OneProcess DEF Stop
<1> QED
  BY <1>1, <1>2, <1>3

LEMMA StartupNextOK == StartupInv /\ [StartupNext]_startupVars => StartupInv'
<1> SUFFICES ASSUME StartupInv, [StartupNext]_startupVars PROVE StartupInv'
  OBVIOUS
<1>1. ASSUME NEW p \in Processes, ProcessStep(p) PROVE StartupInv'
  BY <1>1, BootOK, EnsureBucketOK, LookUpIndexOK, CloseOK, EndOK DEF ProcessStep
<1>2. ASSUME NEW p \in Processes, ProcessFails(p) PROVE StartupInv'
  BY <1>2, EnsureBucketOK, LookUpIndexOK, CloseOK, EndOK DEF ProcessFails
<1>3. ASSUME NEW p \in Processes, Stop(p) PROVE StartupInv'
  BY <1>3, EndOK
<1>4. CASE UNCHANGED startupVars
  BY <1>4 DEF StartupInv, StartupTypeOK, BucketBeforeIndex, IndexNeedsKey, ClosingInOrder, startupVars
<1> QED
  BY <1>1, <1>2, <1>3, <1>4 DEF StartupNext

-----------------------------------------------------------------------------
\* The invariant that carries the other two through create, aclose and restart.
THEOREM StartupInvariant == StartupSpec => []StartupInv
BY StartupInitOK, StartupNextOK, PTL DEF StartupSpec

\* AppContainer.create: whoever created the bucket and whatever failed, outside
\* production no process runs without it.
THEOREM RunningProcessesHaveTheirBucket == StartupSpec => []RunningHasBucket
<1>1. StartupInv => RunningHasBucket
  BY DEF StartupInv, BucketBeforeIndex, RunningHasBucket
<1> QED
  BY <1>1, StartupInvariant, PTL

\* AppContainer.aclose: when it returns, what is open is what could not be closed.
THEOREM CloseReleasesEverything == StartupSpec => []ClosedReleasesAll
<1>1. StartupInv => ClosedReleasesAll
  BY DEF StartupInv, ClosingInOrder, ClosedReleasesAll, LeftToClose
<1> QED
  BY <1>1, StartupInvariant, PTL

\* Settings: outside production and without keys, nothing is ever called but what compose
\* runs, because what the environment leaves open is read as MinIO.
THEOREM WithoutKeysNothingLeaves == StartupSpec => []ZeroCloud
<1> DEFINE Redirected == IsProd(settings) \/ settings.endpoint_url # "unset"
<1>1. StartupInit => Redirected
  <2> SUFFICES ASSUME StartupInit PROVE Redirected
    OBVIOUS
  <2>1. PICK s \in Environment : settings = ForceMinio(s)
    BY DEF StartupInit
  <2>2. s \in Settings
    BY StartupAssumption
  <2> QED
    BY <2>1, <2>2 DEF ForceMinio, IsProd, Settings
<1>2. Redirected /\ [StartupNext]_startupVars => Redirected'
  <2> SUFFICES ASSUME [StartupNext]_startupVars PROVE settings' = settings
    BY DEF IsProd
  <2> QED
    BY DEF StartupNext, startupVars, ProcessStep, ProcessFails, SetProc, Boot, HeadBucket,
           HeadFails, CreateBucket, CreateFails, LookUpIndex, CloseExecutor, CloseRedis,
           CloseEngine, End, Dies, Stop
<1>3. StartupInv /\ Redirected => ZeroCloud
  <2> SUFFICES ASSUME StartupInv, Redirected, ZeroKeys(settings), NEW p \in Processes
               PROVE  Hosts(proc[p]) \subseteq {"minio"}
    BY DEF ZeroCloud
  <2>1. settings \in Settings /\ GoodProc(proc[p], bucket)
    BY EachIsGood
  <2>2. ObjectStoreHost(settings) = "minio" /\ Selected(settings) = {}
    BY <2>1 DEF ZeroKeys, Settings, Endpoints, ObjectStoreHost, Selected
  <2>3. proc[p].pc # "index"
    BY DEF StartupInv, IndexNeedsKey, ZeroKeys
  <2> QED
    BY <2>2, <2>3 DEF Hosts
<1> HIDE DEF Redirected
<1> QED
  BY <1>1, <1>2, <1>3, StartupInvariant, PTL DEF StartupSpec
=============================================================================
