---------------------------- MODULE PortCallProofs ----------------------------
(***************************************************************************)
(* PortInv is invariant, the calls of a process implement the abstract     *)
(* port, and readiness reports are honest, for any calls, upstream errors, *)
(* threads and tries.                                                      *)
(***************************************************************************)
EXTENDS Readiness, FiniteSetTheorems, TLAPS

\* The induction carries the two invariants of the calls together.
CallsInv == PortInv /\ BarredIsFinal

\* What it says of one call.
GoodCall(x) ==
    /\ x \in CallRecord
    /\ x.pc = "idle" => x.tries = 0 /\ x.applied = 0 /\ x.adrift = 0
    /\ x.applied + x.adrift + (IF x.pc \in {"queued", "working"} THEN 1 ELSE 0) <= x.tries
    /\ ~Retried(x.port) => x.tries <= 1 /\ x.pc # "backoff"
    /\ x.pc = "backoff" => x.tries < MaxTries
    /\ x.barred => x.pc = "done" /\ x.verdict = "permanent"

\* CallsInv, call by call.
LEMMA CallsInvByCall ==
    CallsInv <=>
        /\ call = [c \in Calls |-> call[c]]
        /\ \A c \in Calls : GoodCall(call[c])
        /\ queue \in Seq(Calls) /\ process \in {"serving", "stopping", "closed"}
        /\ OneTryAtATime /\ PoolBounded
<1>1. call \in [Calls -> CallRecord]
        <=> call = [c \in Calls |-> call[c]] /\ \A c \in Calls : call[c] \in CallRecord
  OBVIOUS
<1> QED
  BY <1>1 DEF CallsInv, PortInv, PortTypeOK, ExecutionsAreTries, BarredIsFinal, GoodCall

-----------------------------------------------------------------------------
\* Every classifier gives one of the two verdicts.
LEMMA ClassifyTyped ==
    ASSUME NEW port \in Ports, NEW e PROVE Classify(port, e) \in {"transient", "permanent"}
<1>1. \A t : Verdict(t) \in {"transient", "permanent"}
  BY DEF Verdict
<1> QED
  BY <1>1 DEF Classify, Ports, ClassifyHf, ClassifyDdgs, ClassifyPinecone, ClassifyBotocore, ClassifyRedis

\* A status that turns the caller away is not one of overload.
LEMMA BadStatus ==
    ASSUME NEW e, e.status \in {401, 403} PROVE e.status # None /\ ~Overloaded(e)
BY DEF None, Overloaded

\* No classifier retries a call that was turned away for its credentials.
LEMMA BadCredentialsArePermanent ==
    ASSUME NEW port \in Ports, NEW e \in Errors(port), BadCredentials(e)
    PROVE  Classify(port, e) = "permanent" /\ e.status # 404
<1> USE DEF BadCredentials, Raw, Verdict, None, PermanentRedisTypes
<1>1. CASE port \in {"embed", "complete"}
  <2>1. e \in HfErrors
    BY <1>1 DEF Errors
  <2>2. e.status \in {401, 403} /\ e.is = {"HfHubHTTPError"}
    BY <2>1 DEF HfErrors
  <2>3. ClassifyHf(e) = "permanent" /\ e.status # 404
    BY <2>2 DEF ClassifyHf, Overloaded
  <2> QED
    BY <1>1, <2>3 DEF Classify
<1>2. CASE port = "search"
  <2>1. e \in DdgsErrors
    BY <1>2 DEF Errors
  <2> QED
    BY <2>1 DEF DdgsErrors
<1>3. CASE port \in {"upsert", "query"}
  <2>1. e \in PineconeErrors
    BY <1>3 DEF Errors
  <2>2. e.status \in {401, 403}
    BY <2>1 DEF PineconeErrors
  <2>3. ClassifyPinecone(e) = "permanent" /\ e.status # 404
    BY <2>2 DEF ClassifyPinecone, Overloaded
  <2> QED
    BY <1>3, <2>3 DEF Classify
<1>4. CASE port \in {"put", "head"}
  <2>1. e \in S3Errors
    BY <1>4 DEF Errors
  <2>2. e.status \in {401, 403} /\ e.is = {"ClientError"} /\ ~e.shed
    BY <2>1 DEF S3Errors
  <2>3. ClassifyBotocore(e) = "permanent" /\ e.status # 404
    BY <2>2 DEF ClassifyBotocore, Overloaded
  <2> QED
    BY <1>4, <2>3 DEF Classify
<1>5. CASE port = "publish"
  <2>1. e \in RedisErrors
    BY <1>5 DEF Errors
  <2>2. e.status = None
    BY <2>1 DEF RedisErrors
  <2>3. ClassifyRedis(e) = "permanent" /\ e.status # 404
    BY <2>2 DEF ClassifyRedis
  <2> QED
    BY <1>5, <2>3 DEF Classify
<1> QED
  BY <1>1, <1>2, <1>3, <1>4, <1>5 DEF Ports

-----------------------------------------------------------------------------
\* What a failed try leaves is a good call, waiting or done, with at most one execution
\* more, and a result only if it has one.
LEMMA FailureIsGood ==
    ASSUME NEW x, GoodCall(x), x.pc = "working", NEW y \in Failures(x)
    PROVE  /\ GoodCall(y) /\ y.pc \in {"backoff", "done"} /\ y.port = x.port
           /\ y.applied \in {x.applied, x.applied + 1}
           /\ y.pc = "done" /\ y.verdict = "ok" => y.applied > 0
<1>0. PICK e \in Errors(x.port) : \E fate \in Fates(x.port, e) :
          y = AfterError([x EXCEPT !.applied = IF fate = "before" THEN @ + 1 ELSE @,
                                   !.adrift = IF fate = "later" THEN @ + 1 ELSE @,
                                   !.barred = @ \/ BadCredentials(e)], e)
  BY DEF Failures
<1>1. PICK fate \in Fates(x.port, e) :
          y = AfterError([x EXCEPT !.applied = IF fate = "before" THEN @ + 1 ELSE @,
                                   !.adrift = IF fate = "later" THEN @ + 1 ELSE @,
                                   !.barred = @ \/ BadCredentials(e)], e)
  BY <1>0
<1> DEFINE z == [x EXCEPT !.applied = IF fate = "before" THEN @ + 1 ELSE @,
                          !.adrift = IF fate = "later" THEN @ + 1 ELSE @,
                          !.barred = @ \/ BadCredentials(e)]
<1>2. x \in CallRecord /\ x.applied + x.adrift + 1 <= x.tries /\ ~x.barred
  BY DEF GoodCall
<1>3. /\ x.port \in Ports /\ x.tries \in 0 .. MaxTries
      /\ x.applied \in 0 .. MaxTries /\ x.adrift \in 0 .. MaxTries /\ MaxTries \in Nat
  BY <1>2, PortCallsAssumption DEF CallRecord
<1>4. /\ z \in CallRecord /\ z.port = x.port /\ z.pc = "working" /\ z.tries = x.tries
      /\ z.applied + z.adrift <= z.tries /\ z.verdict = x.verdict
      /\ z.barred <=> BadCredentials(e)
      /\ z.applied = IF fate = "before" THEN x.applied + 1 ELSE x.applied
  <2> DEFINE n == IF fate = "before" THEN x.applied + 1 ELSE x.applied
             m == IF fate = "later" THEN x.adrift + 1 ELSE x.adrift
             bad == x.barred \/ BadCredentials(e)
  <2>1. n \in 0 .. MaxTries /\ m \in 0 .. MaxTries /\ n + m <= x.tries
    BY <1>2, <1>3
  <2>2. bad \in BOOLEAN
    OBVIOUS
  <2>3. z = [x EXCEPT !.applied = n, !.adrift = m, !.barred = bad]
    OBVIOUS
  <2>4. bad <=> BadCredentials(e)
    BY <1>2
  <2> HIDE DEF n, m, bad, z
  <2>5. /\ z \in CallRecord /\ z.port = x.port /\ z.pc = "working" /\ z.tries = x.tries
        /\ z.applied = n /\ z.adrift = m /\ z.verdict = x.verdict /\ z.barred = bad
    BY <1>2, <2>1, <2>2, <2>3 DEF CallRecord
  <2>6. z.applied = IF fate = "before" THEN x.applied + 1 ELSE x.applied
    BY <2>5 DEF n
  <2>7. z.applied + z.adrift <= z.tries
    BY <2>1, <2>5
  <2>8. z.barred <=> BadCredentials(e)
    BY <2>4, <2>5
  <2> QED
    BY <2>5, <2>6, <2>7, <2>8
<1>5. ~Retried(x.port) => x.tries <= 1
  BY DEF GoodCall
<1>6. Classify(x.port, e) \in {"transient", "permanent"}
  BY <1>3, ClassifyTyped
<1>7. BadCredentials(e) => Classify(x.port, e) = "permanent" /\ e.status # 404
  BY <1>1, <1>3, BadCredentialsArePermanent
<1>8. y = AfterError(z, e)
  BY <1>1
<1>9. e.status = 404 => fate = "never"
  BY <1>1 DEF Fates, Rejected
<1>a. e.status = 404 => z.applied + z.adrift + 1 <= z.tries /\ z.applied = x.applied
  BY <1>2, <1>3, <1>9
<1> HIDE DEF z
<1>b. CASE x.port = "head" /\ "ClientError" \in e.is /\ e.status = 404
  <2>1. y = End([z EXCEPT !.applied = @ + 1], "ok")
    BY <1>4, <1>8, <1>b DEF AfterError
  <2>2. ~BadCredentials(e)
    BY <1>7, <1>b
  <2>3. z.applied + 1 \in 0 .. MaxTries
    BY <1>3, <1>4, <1>a, <1>b DEF CallRecord
  <2>4. /\ y \in CallRecord /\ y.port = x.port /\ y.pc = "done" /\ y.verdict = "ok"
        /\ y.tries = z.tries /\ y.applied = z.applied + 1 /\ y.adrift = z.adrift /\ ~y.barred
    BY <1>4, <2>1, <2>2, <2>3 DEF End, CallRecord, CallPcs, CallVerdicts
  <2>5. y.applied + y.adrift + 0 <= y.tries
    BY <1>3, <1>4, <1>a, <1>b, <2>4 DEF CallRecord
  <2>6. y.applied = x.applied + 1 /\ y.applied > 0
    BY <1>3, <1>a, <1>b, <2>4
  <2> QED
    BY <1>4, <1>5, <2>4, <2>5, <2>6 DEF GoodCall
<1>c. CASE ~(x.port = "head" /\ "ClientError" \in e.is /\ e.status = 404)
  <2>1. CASE Classify(x.port, e) = "transient" /\ Retried(x.port) /\ x.tries < MaxTries
    <3>1. y = [z EXCEPT !.pc = "backoff"]
      BY <1>4, <1>8, <1>c, <2>1 DEF AfterError
    <3>2. ~BadCredentials(e)
      BY <1>7, <2>1
    <3>3. /\ y \in CallRecord /\ y.port = x.port /\ y.pc = "backoff" /\ y.verdict = x.verdict
          /\ y.tries = z.tries /\ y.applied = z.applied /\ y.adrift = z.adrift /\ ~y.barred
      BY <1>4, <3>1, <3>2 DEF CallRecord, CallPcs
    <3>4. y.applied + y.adrift + 0 <= y.tries
      BY <1>4, <3>3 DEF CallRecord
    <3> QED
      BY <1>2, <1>3, <1>4, <2>1, <3>3, <3>4 DEF GoodCall
  <2>2. CASE ~(Classify(x.port, e) = "transient" /\ Retried(x.port) /\ x.tries < MaxTries)
    <3>1. y = End(z, Classify(x.port, e))
      BY <1>4, <1>8, <1>c, <2>2 DEF AfterError
    <3>2. /\ y \in CallRecord /\ y.port = x.port /\ y.pc = "done" /\ y.verdict = Classify(x.port, e)
          /\ y.tries = z.tries /\ y.applied = z.applied /\ y.adrift = z.adrift
          /\ y.barred = z.barred
      BY <1>4, <1>6, <3>1 DEF End, CallRecord, CallPcs, CallVerdicts
    <3>3. y.applied + y.adrift + 0 <= y.tries
      BY <1>4, <3>2 DEF CallRecord
    <3> QED
      BY <1>3, <1>4, <1>5, <1>6, <1>7, <3>2, <3>3 DEF GoodCall
  <2> QED
    BY <2>1, <2>2
<1> QED
  BY <1>b, <1>c

\* A try that is issued, at first or after a back-off, is within the limit.
LEMMA TryIsGood ==
    ASSUME NEW x, GoodCall(x), x.pc \in {"idle", "backoff"}, NEW pc \in {"queued", "working"}
    PROVE  GoodCall([[x EXCEPT !.tries = @ + 1] EXCEPT !.pc = pc])
<1> DEFINE y == [[x EXCEPT !.tries = @ + 1] EXCEPT !.pc = pc]
<1>1. x \in CallRecord /\ MaxTries \in Nat \ {0}
  BY PortCallsAssumption DEF GoodCall
<1>2. x.tries < MaxTries /\ x.applied + x.adrift <= x.tries
  BY <1>1 DEF GoodCall, CallRecord
<1>3. ~Retried(x.port) => x.tries = 0
  BY DEF GoodCall
<1>4. /\ y \in CallRecord /\ y.pc = pc /\ y.port = x.port /\ y.tries = x.tries + 1
      /\ y.applied = x.applied /\ y.adrift = x.adrift /\ y.verdict = x.verdict
      /\ y.barred = x.barred
  <2> DEFINE z == [x EXCEPT !.tries = @ + 1]
  <2>1. x.tries + 1 \in 0 .. MaxTries
    BY <1>1, <1>2 DEF CallRecord
  <2>2. /\ z \in CallRecord /\ z.port = x.port /\ z.tries = x.tries + 1
        /\ z.applied = x.applied /\ z.adrift = x.adrift /\ z.verdict = x.verdict
        /\ z.barred = x.barred
    BY <1>1, <2>1 DEF CallRecord
  <2>3. y = [z EXCEPT !.pc = pc]
    OBVIOUS
  <2> HIDE DEF z, y
  <2> QED
    BY <2>2, <2>3 DEF CallRecord, CallPcs
<1>5. y.applied + y.adrift + 1 <= y.tries
  BY <1>1, <1>2, <1>4 DEF CallRecord
<1>6. ~x.barred
  BY DEF GoodCall
<1> QED
  BY <1>3, <1>4, <1>5, <1>6 DEF GoodCall

\* An item that a thread takes is still one try.
LEMMA TakenIsGood ==
    ASSUME NEW x, GoodCall(x), x.pc = "queued" PROVE GoodCall([x EXCEPT !.pc = "working"])
BY DEF GoodCall, CallRecord, CallPcs

\* An answer is the execution of the try that is going on.
LEMMA AnswerIsGood ==
    ASSUME NEW x, GoodCall(x), x.pc = "working", NEW verdict \in {"ok", "malformed"}
    PROVE  GoodCall(End([x EXCEPT !.applied = @ + 1], verdict))
<1> DEFINE y == End([x EXCEPT !.applied = @ + 1], verdict)
<1>1. x \in CallRecord /\ MaxTries \in Nat /\ x.applied + x.adrift + 1 <= x.tries
  BY PortCallsAssumption DEF GoodCall
<1>2. x.applied + 1 \in 0 .. MaxTries
  BY <1>1 DEF CallRecord
<1>3. /\ y \in CallRecord /\ y.pc = "done" /\ y.port = x.port /\ y.tries = x.tries
      /\ y.applied = x.applied + 1 /\ y.adrift = x.adrift /\ y.verdict = verdict
      /\ y.barred = x.barred
  BY <1>1, <1>2 DEF End, CallRecord, CallPcs, CallVerdicts
<1>4. y.applied + y.adrift + 0 <= y.tries
  BY <1>1, <1>3 DEF CallRecord
<1>5. ~x.barred /\ (~Retried(x.port) => x.tries <= 1)
  BY DEF GoodCall
<1> QED
  BY <1>3, <1>4, <1>5 DEF GoodCall

\* A late execution was accounted for when its try was given up.
LEMMA LateIsGood ==
    ASSUME NEW x, GoodCall(x), x.adrift > 0
    PROVE  GoodCall([x EXCEPT !.adrift = @ - 1, !.applied = @ + 1])
<1> DEFINE y == [x EXCEPT !.adrift = @ - 1, !.applied = @ + 1]
<1>1. x \in CallRecord /\ MaxTries \in Nat /\ x.applied + x.adrift <= x.tries
  BY PortCallsAssumption DEF GoodCall, CallRecord
<1>2. x.applied + 1 \in 0 .. MaxTries /\ x.adrift - 1 \in 0 .. MaxTries
  BY <1>1 DEF CallRecord
<1>3. /\ y \in CallRecord /\ y.pc = x.pc /\ y.port = x.port /\ y.tries = x.tries
      /\ y.applied = x.applied + 1 /\ y.adrift = x.adrift - 1 /\ y.verdict = x.verdict
      /\ y.barred = x.barred
  BY <1>1, <1>2 DEF CallRecord
<1>4. y.applied + y.adrift = x.applied + x.adrift
  BY <1>1, <1>3 DEF CallRecord
<1>5. x.pc # "idle"
  BY <1>1 DEF GoodCall, CallRecord
<1> QED
  BY <1>3, <1>4, <1>5 DEF GoodCall

-----------------------------------------------------------------------------
\* A step that changes one call keeps the invariant if it leaves a good call and does right
\* by the queue and the pool.
LEMMA OneCall ==
    ASSUME CallsInv, NEW c \in Calls, NEW y, SetCall(c, y), GoodCall(y),
           queue' \in Seq(Calls), process' \in {"serving", "stopping", "closed"},
           OneTryAtATime', PoolBounded'
    PROVE  CallsInv'
<1>1. \A d \in Calls : GoodCall(call[d]) /\ call[d] \in CallRecord
  BY CallsInvByCall DEF GoodCall
<1>2. call' = [call EXCEPT ![c] = y] /\ call \in [Calls -> CallRecord] /\ y \in CallRecord
  BY DEF SetCall, CallsInv, PortInv, PortTypeOK, GoodCall
<1>3. PortTypeOK'
  BY <1>2 DEF PortTypeOK
<1>4. \A d \in Calls : GoodCall(call'[d])
  BY <1>1, <1>2
<1> QED
  BY <1>3, <1>4 DEF CallsInv, PortInv, ExecutionsAreTries, BarredIsFinal, GoodCall

\* The queue stays exact when a call that is not in it changes to one that is not.
LEMMA QueueKept ==
    ASSUME CallsInv, NEW c \in Calls, NEW y, SetCall(c, y), queue' = queue,
           call[c].pc # "queued", y.pc # "queued"
    PROVE  OneTryAtATime'
<1>1. \A d \in Calls : call'[d] = IF d = c THEN y ELSE call[d]
  BY DEF SetCall, CallsInv, PortInv, PortTypeOK
<1> QED
  BY <1>1 DEF CallsInv, PortInv, OneTryAtATime

\* The pool is no fuller when the call that changes does not come to have a thread.
LEMMA PoolKept ==
    ASSUME CallsInv, NEW c \in Calls, NEW y, SetCall(c, y), y.port = call[c].port,
           y.pc # "working" \/ call[c].pc = "working" \/ ~Offloaded(y.port)
    PROVE  PoolBounded'
<1>1. \A d \in Calls : call'[d] = IF d = c THEN y ELSE call[d]
  BY DEF SetCall, CallsInv, PortInv, PortTypeOK
<1>2. InPool' \subseteq InPool /\ InPool \subseteq Calls
  BY <1>1 DEF InPool
<1>3. IsFiniteSet(InPool) /\ IsFiniteSet(InPool')
  BY <1>2, PortCallsAssumption, FS_Subset
<1>4. Cardinality(InPool') <= Cardinality(InPool)
  BY <1>2, <1>3, FS_Subset
<1>5. Cardinality(InPool) \in Nat /\ Cardinality(InPool') \in Nat /\ Threads \in Nat
  BY <1>3, FS_CardinalityType, PortCallsAssumption
<1>6. Cardinality(InPool) <= Threads
  BY DEF CallsInv, PortInv, PoolBounded
<1>7. Cardinality(InPool') <= Threads
  BY <1>4, <1>5, <1>6
<1> QED
  BY <1>7 DEF PoolBounded

-----------------------------------------------------------------------------
LEMMA PortInitOK == PortInit => CallsInv
<1> SUFFICES ASSUME PortInit PROVE CallsInv
  OBVIOUS
<1>1. PICK a \in Assignments : call = [c \in Calls |-> Fresh(a[c])]
  BY DEF PortInit
<1>2. \A c \in Calls : a[c] \in Ports
  BY PortCallsAssumption
<1>3. \A c \in Calls : GoodCall(Fresh(a[c])) /\ Fresh(a[c]).pc = "idle"
  BY <1>2, PortCallsAssumption DEF GoodCall, Fresh, CallRecord, CallPcs, CallVerdicts
<1>4. queue = <<>> /\ process = "serving"
  BY DEF PortInit
<1>5. OneTryAtATime
  BY <1>1, <1>3, <1>4 DEF OneTryAtATime
<1>6. PoolBounded
  <2>1. InPool = {}
    BY <1>1, <1>3 DEF InPool
  <2> QED
    BY <2>1, FS_EmptySet, PortCallsAssumption DEF PoolBounded
<1> QED
  BY <1>1, <1>3, <1>4, <1>5, <1>6, CallsInvByCall

\* A call that is made, or made again.
LEMMA TryOK ==
    ASSUME CallsInv, NEW c \in Calls, call[c].pc \in {"idle", "backoff"}, Try(c), process' = process
    PROVE  CallsInv'
<1> DEFINE x == [call[c] EXCEPT !.tries = @ + 1]
<1>1. GoodCall(call[c]) /\ queue \in Seq(Calls) /\ process' \in {"serving", "stopping", "closed"}
  BY CallsInvByCall
<1>2. x.port = call[c].port
  BY <1>1 DEF GoodCall, CallRecord
<1>3. CASE Offloaded(x.port)
  <2> DEFINE y == [x EXCEPT !.pc = "queued"]
  <2>1. SetCall(c, y) /\ queue' = Append(queue, c)
    BY <1>3 DEF Try
  <2>2. GoodCall(y)
    BY <1>1, TryIsGood
  <2>3. y.pc = "queued" /\ y.port = call[c].port
    BY <1>1 DEF GoodCall, CallRecord
  <2>4. PoolBounded'
    BY <2>1, <2>3, PoolKept
  <2>5. OneTryAtATime'
    <3>1. \A d \in Calls : call'[d] = IF d = c THEN y ELSE call[d]
      BY <2>1 DEF SetCall, CallsInv, PortInv, PortTypeOK
    <3>2. /\ Len(queue') = Len(queue) + 1 /\ Len(queue) \in Nat
          /\ \A i \in 1 .. Len(queue) : queue'[i] = queue[i]
          /\ queue'[Len(queue) + 1] = c
      BY <1>1, <2>1
    <3>3. \A i \in 1 .. Len(queue) : queue[i] \in Calls /\ call[queue[i]].pc = "queued"
      BY DEF CallsInv, PortInv, OneTryAtATime
    <3>4. \A i, j \in 1 .. Len(queue') : queue'[i] = queue'[j] => i = j
      BY <3>2, <3>3 DEF CallsInv, PortInv, OneTryAtATime
    <3>5. {queue'[i] : i \in 1 .. Len(queue')} = {queue[i] : i \in 1 .. Len(queue)} \cup {c}
      BY <3>2
    <3>6. {d \in Calls : call'[d].pc = "queued"} = {d \in Calls : call[d].pc = "queued"} \cup {c}
      BY <2>3, <3>1
    <3> QED
      BY <3>4, <3>5, <3>6 DEF CallsInv, PortInv, OneTryAtATime
  <2>6. queue' \in Seq(Calls)
    BY <1>1, <2>1
  <2> QED
    BY <1>1, <2>1, <2>2, <2>4, <2>5, <2>6, OneCall
<1>4. CASE ~Offloaded(x.port)
  <2> DEFINE y == [x EXCEPT !.pc = "working"]
  <2>1. SetCall(c, y) /\ queue' = queue
    BY <1>4 DEF Try
  <2>2. GoodCall(y)
    BY <1>1, TryIsGood
  <2>3. y.pc = "working" /\ y.port = call[c].port
    BY <1>1 DEF GoodCall, CallRecord
  <2>4. PoolBounded' /\ OneTryAtATime'
    BY <1>2, <1>4, <2>1, <2>3, PoolKept, QueueKept
  <2> QED
    BY <1>1, <2>1, <2>2, <2>4, OneCall
<1> QED
  BY <1>3, <1>4

\* A thread takes the head of the queue.
LEMMA ThreadTakesOK == ASSUME CallsInv, ThreadTakes PROVE CallsInv'
<1> DEFINE c == Head(queue)
           y == [call[c] EXCEPT !.pc = "working"]
<1>1. /\ queue \in Seq(Calls) /\ queue # <<>> /\ queue' = Tail(queue)
      /\ SetCall(c, y) /\ process' = process
  BY CallsInvByCall DEF ThreadTakes
<1>2. c \in Calls /\ queue' \in Seq(Calls) /\ Len(queue) \in Nat /\ Len(queue) >= 1 /\ c = queue[1]
  BY <1>1
<1>3. /\ Len(queue') = Len(queue) - 1
      /\ \A i \in 1 .. Len(queue') : queue'[i] = queue[i + 1]
  BY <1>1, <1>2
<1>4. GoodCall(call[c]) /\ process' \in {"serving", "stopping", "closed"}
  BY <1>1, <1>2, CallsInvByCall
<1>5. call[c].pc = "queued"
  BY <1>2 DEF CallsInv, PortInv, OneTryAtATime
<1>6. GoodCall(y)
  BY <1>4, <1>5, TakenIsGood
<1>7. y.pc = "working" /\ y.port = call[c].port
  BY <1>4 DEF GoodCall, CallRecord
<1>8. \A d \in Calls : call'[d] = IF d = c THEN y ELSE call[d]
  BY <1>1 DEF SetCall, CallsInv, PortInv, PortTypeOK
<1> HIDE DEF c, y
<1>9. OneTryAtATime'
  <2>1. \A i, j \in 1 .. Len(queue') : queue'[i] = queue'[j] => i = j
    BY <1>2, <1>3 DEF CallsInv, PortInv, OneTryAtATime
  <2>2. {queue'[i] : i \in 1 .. Len(queue')} = {queue[i] : i \in 1 .. Len(queue)} \ {c}
    <3>1. ASSUME NEW i \in 1 .. Len(queue')
          PROVE  i + 1 \in 1 .. Len(queue) /\ queue'[i] = queue[i + 1] /\ queue[i + 1] # c
      BY <1>2, <1>3 DEF CallsInv, PortInv, OneTryAtATime
    <3>2. ASSUME NEW i \in 1 .. Len(queue), queue[i] # c
          PROVE  i - 1 \in 1 .. Len(queue') /\ queue'[i - 1] = queue[i]
      <4>1. i - 1 \in 1 .. Len(queue')
        BY <1>2, <1>3, <3>2
      <4>2. queue'[i - 1] = queue[(i - 1) + 1] /\ (i - 1) + 1 = i
        BY <1>3, <4>1
      <4> QED
        BY <4>1, <4>2
    <3>3. \A d : d \in {queue'[i] : i \in 1 .. Len(queue')}
                  => d \in {queue[i] : i \in 1 .. Len(queue)} \ {c}
      BY <3>1
    <3>4. \A d : d \in {queue[i] : i \in 1 .. Len(queue)} \ {c}
                  => d \in {queue'[i] : i \in 1 .. Len(queue')}
      BY <3>2
    <3> QED
      BY <3>3, <3>4
  <2>3. {d \in Calls : call'[d].pc = "queued"} = {d \in Calls : call[d].pc = "queued"} \ {c}
    BY <1>7, <1>8
  <2> QED
    BY <2>1, <2>2, <2>3 DEF CallsInv, PortInv, OneTryAtATime
<1>a. PoolBounded'
  <2>1. InPool' \subseteq InPool \cup {c} /\ InPool \subseteq Calls
    BY <1>8 DEF InPool
  <2>2. IsFiniteSet(InPool) /\ Cardinality(InPool) \in Nat /\ Cardinality(InPool) < Threads
    BY <2>1, PortCallsAssumption, FS_Subset, FS_CardinalityType DEF ThreadTakes
  <2>3. IsFiniteSet(InPool \cup {c}) /\ Cardinality(InPool \cup {c}) <= Cardinality(InPool) + 1
    BY <2>2, FS_AddElement
  <2>4. /\ IsFiniteSet(InPool') /\ Cardinality(InPool') <= Cardinality(InPool \cup {c})
        /\ Cardinality(InPool') \in Nat /\ Cardinality(InPool \cup {c}) \in Nat
    BY <2>1, <2>3, FS_Subset, FS_CardinalityType
  <2>5. Cardinality(InPool') <= Threads
    BY <2>2, <2>3, <2>4, PortCallsAssumption
  <2> QED
    BY <2>5 DEF PoolBounded
<1> QED
  BY <1>1, <1>2, <1>4, <1>6, <1>9, <1>a, OneCall

\* A reply, whatever it is.
LEMMA ReplyOK == ASSUME CallsInv, NEW c \in Calls, Reply(c) PROVE CallsInv'
<1>1. /\ GoodCall(call[c]) /\ call[c].pc = "working" /\ queue \in Seq(Calls)
      /\ queue' = queue /\ process' \in {"serving", "stopping", "closed"}
  BY CallsInvByCall DEF Reply, Answered, Fails
<1>2. ASSUME NEW converts \in BOOLEAN, Answered(c, converts) PROVE CallsInv'
  <2> DEFINE verdict == IF converts THEN "ok" ELSE "malformed"
             y == End([call[c] EXCEPT !.applied = @ + 1], verdict)
  <2>1. SetCall(c, y) /\ GoodCall(y)
    BY <1>1, <1>2, AnswerIsGood DEF Answered
  <2>2. y.pc = "done" /\ y.port = call[c].port
    BY <1>1 DEF End, GoodCall, CallRecord
  <2> HIDE DEF y
  <2> QED
    BY <1>1, <2>1, <2>2, QueueKept, PoolKept, OneCall
<1>3. CASE Fails(c)
  <2>1. PICK y \in Failures(call[c]) : SetCall(c, y)
    BY <1>3 DEF Fails
  <2>2. GoodCall(y) /\ y.pc \in {"backoff", "done"} /\ y.port = call[c].port
    BY <1>1, FailureIsGood
  <2> QED
    BY <1>1, <2>1, <2>2, QueueKept, PoolKept, OneCall
<1> QED
  BY <1>2, <1>3 DEF Reply

\* A late execution disturbs neither the queue nor the pool.
LEMMA LateOK == ASSUME CallsInv, NEW c \in Calls, LateExecution(c) PROVE CallsInv'
<1> DEFINE y == [call[c] EXCEPT !.adrift = @ - 1, !.applied = @ + 1]
<1>1. /\ GoodCall(call[c]) /\ call[c].adrift > 0 /\ SetCall(c, y) /\ queue \in Seq(Calls)
      /\ queue' = queue /\ process' \in {"serving", "stopping", "closed"}
  BY CallsInvByCall DEF LateExecution
<1>2. GoodCall(y)
  BY <1>1, LateIsGood
<1>3. y.pc = call[c].pc /\ y.port = call[c].port
  BY <1>1 DEF GoodCall, CallRecord
<1> HIDE DEF y
<1>4. PoolBounded'
  BY <1>1, <1>3, PoolKept
<1>5. OneTryAtATime'
  <2>1. \A d \in Calls : call'[d] = IF d = c THEN y ELSE call[d]
    BY <1>1 DEF SetCall, CallsInv, PortInv, PortTypeOK
  <2>2. {d \in Calls : call'[d].pc = "queued"} = {d \in Calls : call[d].pc = "queued"}
    BY <1>3, <2>1
  <2> QED
    BY <1>1, <2>2 DEF CallsInv, PortInv, OneTryAtATime
<1> QED
  BY <1>1, <1>2, <1>4, <1>5, OneCall

\* Nobody is in the queue when it is dropped, because the tasks were drained.
LEMMA ShutdownOK == ASSUME CallsInv, Shutdown PROVE CallsInv' /\ call' = call
<1>1. \A c \in Calls : call[c].pc # "queued"
  BY DEF Shutdown, Drained
<1>2. call' = call /\ queue' = <<>> /\ process' = "closed"
  BY <1>1 DEF Shutdown, CallsInv, PortInv, PortTypeOK
<1>3. OneTryAtATime' /\ queue' \in Seq(Calls)
  BY <1>1, <1>2 DEF OneTryAtATime
<1> QED
  BY <1>2, <1>3 DEF CallsInv, PortInv, PortTypeOK, ExecutionsAreTries, PoolBounded, InPool,
                    BarredIsFinal

LEMMA PortNextOK == CallsInv /\ [PortNext]_portVars => CallsInv'
<1> SUFFICES ASSUME CallsInv, [PortNext]_portVars PROVE CallsInv'
  OBVIOUS
<1>1. ASSUME NEW c \in Calls, Begin(c) \/ TryAgain(c) PROVE CallsInv'
  <2>1. call[c].pc \in {"idle", "backoff"} /\ Try(c) /\ process' = process
    BY <1>1 DEF Begin, TryAgain
  <2> QED
    BY <2>1, TryOK
<1>2. ASSUME NEW c \in Calls, Reply(c) \/ LateExecution(c) PROVE CallsInv'
  BY <1>2, ReplyOK, LateOK
<1>3. CASE Stop \/ UNCHANGED portVars
  <2>1. call' = call /\ queue' = queue /\ process' \in {"serving", "stopping", "closed"}
    BY <1>3 DEF Stop, portVars, CallsInv, PortInv, PortTypeOK
  <2> QED
    BY <2>1 DEF CallsInv, PortInv, PortTypeOK, OneTryAtATime, ExecutionsAreTries, PoolBounded, InPool,
                BarredIsFinal
<1>4. CASE ThreadTakes \/ Shutdown
  BY <1>4, ThreadTakesOK, ShutdownOK
<1> QED
  BY <1>1, <1>2, <1>3, <1>4 DEF PortNext

\* What the request adds to a call changes nothing about it.
LEMMA ReadinessStep == [ReadinessNext]_readinessVars => [PortNext]_portVars
BY DEF ReadinessNext, readinessVars, PortNext, portVars, CallStep, Request, ProbeStep,
       ProbePostgres, ProbeRedis, ProbeStore, Close

-----------------------------------------------------------------------------
LEMMA CallsInvariant == ReadinessSpec => []CallsInv
<1>1. ReadinessInit => CallsInv
  BY PortInitOK DEF ReadinessInit
<1>2. CallsInv /\ [ReadinessNext]_readinessVars => CallsInv'
  BY ReadinessStep, PortNextOK
<1> QED
  BY <1>1, <1>2, PTL DEF ReadinessSpec

\* to_thread and retrying: the tries of a call never overlap and are never more than the
\* policy allows, the requests executed or still on their way are tries that are over, and
\* the pool runs no more calls than it has threads.
THEOREM PortInvariant == ReadinessSpec => []PortInv
<1>1. CallsInv => PortInv
  BY DEF CallsInv
<1> QED
  BY <1>1, CallsInvariant, PTL

\* Classification and retry: credentials that were refused are not tried again.
THEOREM BadCredentialsAreNotRetried == ReadinessSpec => []BarredIsFinal
<1>1. CallsInv => BarredIsFinal
  BY DEF CallsInv
<1> QED
  BY <1>1, CallsInvariant, PTL

-----------------------------------------------------------------------------
\* A step of one call that keeps its port is a step of the abstract port, or none.
LEMMA OneCallImplements ==
    ASSUME CallsInv, NEW c \in Calls, NEW y, SetCall(c, y), y.port = call[c].port,
           \/ Phase(call[c]) = "idle" /\ Phase(y) = "open" /\ y.applied = call[c].applied
           \/ /\ Phase(call[c]) = "open" /\ Phase(y) \in {"open", "returned", "raised"}
              /\ y.applied \in {call[c].applied, call[c].applied + 1}
              /\ Phase(y) = "returned" => y.applied > 0
           \/ /\ Phase(call[c]) # "idle" /\ Phase(y) = Phase(call[c])
              /\ y.applied = call[c].applied + 1,
           GoodCall(y)
    PROVE  [Contract!ContractNext]_(Contract!contractVars)
<1> DEFINE phase == [d \in Calls |-> Phase(call[d])]
           applied == [d \in Calls |-> call[d].applied]
           limit == [d \in Calls |-> IF Retried(call[d].port) THEN MaxTries ELSE 1]
           n == y.applied
<1>1. \A d \in Calls : call'[d] = IF d = c THEN y ELSE call[d]
  BY DEF SetCall, CallsInv, PortInv, PortTypeOK
<1>2. /\ phase' = [phase EXCEPT ![c] = Phase(y)]
      /\ applied' = [applied EXCEPT ![c] = n]
      /\ limit' = limit
  BY <1>1
<1>3. /\ call[c].applied \in Nat /\ n \in Nat /\ n <= limit[c] /\ limit[c] \in Nat
  <2>1. y \in CallRecord /\ call[c] \in CallRecord /\ MaxTries \in Nat
    BY CallsInvByCall, PortCallsAssumption DEF GoodCall
  <2>2. y.applied <= y.tries /\ y.tries <= MaxTries
    BY <2>1 DEF GoodCall, CallRecord
  <2>3. ~Retried(y.port) => y.tries <= 1
    BY DEF GoodCall
  <2> QED
    BY <2>1, <2>2, <2>3 DEF CallRecord
<1>4. phase[c] = Phase(call[c]) /\ applied[c] = call[c].applied
  OBVIOUS
<1>5. CASE Phase(call[c]) = "idle" /\ Phase(y) = "open" /\ n = call[c].applied
  <2>1. applied' = applied
    BY <1>2, <1>4, <1>5
  <2>2. Contract!Issue(c)
    BY <1>2, <1>4, <1>5, <2>1 DEF Contract!Issue
  <2> QED
    BY <2>2 DEF Contract!ContractNext
<1>6. CASE Phase(call[c]) = "open" /\ Phase(y) = "open" /\ n = call[c].applied
  <2>1. applied' = applied /\ phase' = phase
    BY <1>2, <1>4, <1>6
  <2> QED
    BY <1>2, <2>1 DEF Contract!contractVars
<1>7. CASE /\ Phase(call[c]) # "idle" /\ Phase(y) = Phase(call[c])
           /\ n = call[c].applied + 1
  <2>1. phase' = phase
    BY <1>2, <1>4, <1>7
  <2>2. Contract!Execute(c)
    BY <1>2, <1>3, <1>4, <1>7 DEF Contract!Execute
  <2> QED
    BY <1>2, <2>1, <2>2 DEF Contract!ContractNext
<1>8. CASE /\ Phase(call[c]) = "open" /\ Phase(y) \in {"returned", "raised"}
           /\ n \in {call[c].applied, call[c].applied + 1}
           /\ Phase(y) = "returned" => n > 0
  <2>1. Contract!Execute(c) \/ applied' = applied
    <3>1. CASE n = call[c].applied
      BY <1>2, <1>4, <3>1
    <3>2. CASE n = call[c].applied + 1
      BY <1>2, <1>3, <1>4, <1>8, <3>2 DEF Contract!Execute
    <3> QED
      BY <1>8, <3>1, <3>2
  <2>2. Contract!End(c, Phase(y))
    BY <1>2, <1>4, <1>8, <2>1 DEF Contract!End
  <2> QED
    BY <1>8, <2>2 DEF Contract!ContractNext
<1> QED
  BY <1>5, <1>6, <1>7, <1>8

\* A call that is made, or made again, is open, and nothing is executed.
LEMMA TryImplements ==
    ASSUME CallsInv, NEW c \in Calls, call[c].pc \in {"idle", "backoff"}, Try(c), process' = process
    PROVE  [Contract!ContractNext]_(Contract!contractVars)
<1> DEFINE x == [call[c] EXCEPT !.tries = @ + 1]
<1>1. GoodCall(call[c]) /\ Phase(call[c]) \in {"idle", "open"}
  BY CallsInvByCall DEF Phase
<1>2. PICK pc \in {"queued", "working"} : SetCall(c, [x EXCEPT !.pc = pc])
  BY DEF Try
<1> DEFINE y == [x EXCEPT !.pc = pc]
<1>3. GoodCall(y)
  BY <1>1, TryIsGood
<1>4. y.pc = pc /\ y.port = call[c].port /\ y.applied = call[c].applied
  BY <1>1 DEF GoodCall, CallRecord
<1>5. Phase(y) = "open"
  BY <1>4 DEF Phase
<1> HIDE DEF y
<1> QED
  BY <1>1, <1>2, <1>3, <1>4, <1>5, OneCallImplements DEF y

\* A reply executes the try that is going on, or not, and may end the call.
LEMMA ReplyImplements ==
    ASSUME CallsInv, NEW c \in Calls, Reply(c)
    PROVE  [Contract!ContractNext]_(Contract!contractVars)
<1>1. GoodCall(call[c]) /\ call[c].pc = "working" /\ Phase(call[c]) = "open"
  BY CallsInvByCall DEF Reply, Answered, Fails, Phase
<1>2. call[c] \in CallRecord /\ call[c].applied \in Nat
  BY <1>1, PortCallsAssumption DEF GoodCall, CallRecord
<1>3. ASSUME NEW converts \in BOOLEAN, Answered(c, converts)
      PROVE  [Contract!ContractNext]_(Contract!contractVars)
  <2> DEFINE verdict == IF converts THEN "ok" ELSE "malformed"
             y == End([call[c] EXCEPT !.applied = @ + 1], verdict)
  <2>1. SetCall(c, y) /\ GoodCall(y)
    BY <1>1, <1>3, AnswerIsGood DEF Answered
  <2>2. y.pc = "done" /\ y.port = call[c].port /\ y.applied = call[c].applied + 1
    BY <1>2 DEF End, CallRecord
  <2> HIDE DEF y
  <2>3. Phase(y) \in {"returned", "raised"} /\ y.applied > 0
    BY <1>2, <2>2 DEF Phase
  <2> QED
    BY <1>1, <2>1, <2>2, <2>3, OneCallImplements
<1>4. CASE Fails(c)
  <2>1. PICK y \in Failures(call[c]) : SetCall(c, y)
    BY <1>4 DEF Fails
  <2>2. /\ GoodCall(y) /\ y.pc \in {"backoff", "done"} /\ y.port = call[c].port
        /\ y.applied \in {call[c].applied, call[c].applied + 1}
        /\ y.pc = "done" /\ y.verdict = "ok" => y.applied > 0
    BY <1>1, FailureIsGood
  <2>3. Phase(y) \in {"open", "returned", "raised"} /\ (Phase(y) = "returned" => y.applied > 0)
    BY <2>2 DEF Phase
  <2> QED
    BY <1>1, <2>1, <2>2, <2>3, OneCallImplements
<1> QED
  BY <1>3, <1>4 DEF Reply

\* A late execution is one of a call that has begun.
LEMMA LateImplements ==
    ASSUME CallsInv, NEW c \in Calls, LateExecution(c)
    PROVE  [Contract!ContractNext]_(Contract!contractVars)
<1> DEFINE y == [call[c] EXCEPT !.adrift = @ - 1, !.applied = @ + 1]
<1>1. GoodCall(call[c]) /\ call[c].adrift > 0 /\ SetCall(c, y)
  BY CallsInvByCall DEF LateExecution
<1>2. GoodCall(y)
  BY <1>1, LateIsGood
<1>3. /\ y.pc = call[c].pc /\ y.verdict = call[c].verdict /\ y.port = call[c].port
      /\ y.applied = call[c].applied + 1 /\ call[c].pc # "idle"
  BY <1>1 DEF GoodCall, CallRecord
<1> HIDE DEF y
<1>4. Phase(y) = Phase(call[c]) /\ Phase(call[c]) # "idle"
  BY <1>3 DEF Phase
<1> QED
  BY <1>1, <1>2, <1>3, <1>4, OneCallImplements

\* The thread that takes an item goes on with an open call.
LEMMA ThreadTakesImplements ==
    ASSUME CallsInv, ThreadTakes PROVE [Contract!ContractNext]_(Contract!contractVars)
<1> DEFINE c == Head(queue)
           y == [call[c] EXCEPT !.pc = "working"]
<1>1. queue \in Seq(Calls) /\ queue # <<>> /\ SetCall(c, y)
  BY CallsInvByCall DEF ThreadTakes
<1>2. c \in Calls /\ Len(queue) >= 1 /\ Len(queue) \in Nat /\ c = queue[1]
  BY <1>1
<1>3. GoodCall(call[c]) /\ call[c].pc = "queued"
  BY <1>2, CallsInvByCall DEF OneTryAtATime
<1>4. GoodCall(y)
  BY <1>3, TakenIsGood
<1>5. y.pc = "working" /\ y.port = call[c].port /\ y.applied = call[c].applied
  BY <1>3 DEF GoodCall, CallRecord
<1> HIDE DEF c, y
<1>6. Phase(y) = "open" /\ Phase(call[c]) = "open"
  BY <1>3, <1>5 DEF Phase
<1> QED
  BY <1>1, <1>2, <1>4, <1>5, <1>6, OneCallImplements

LEMMA PortNextImplements ==
    CallsInv /\ [PortNext]_portVars => [Contract!ContractNext]_(Contract!contractVars)
<1> SUFFICES ASSUME CallsInv, [PortNext]_portVars
             PROVE  [Contract!ContractNext]_(Contract!contractVars)
  OBVIOUS
<1>1. ASSUME NEW c \in Calls, Begin(c) \/ TryAgain(c)
      PROVE  [Contract!ContractNext]_(Contract!contractVars)
  <2>1. call[c].pc \in {"idle", "backoff"} /\ Try(c) /\ process' = process
    BY <1>1 DEF Begin, TryAgain
  <2> QED
    BY <2>1, TryImplements
<1>2. ASSUME NEW c \in Calls, Reply(c) \/ LateExecution(c)
      PROVE  [Contract!ContractNext]_(Contract!contractVars)
  BY <1>2, ReplyImplements, LateImplements
<1>3. CASE ThreadTakes
  BY <1>3, ThreadTakesImplements
<1>4. CASE Stop \/ Shutdown \/ UNCHANGED portVars
  <2>1. call' = call
    BY <1>4, ShutdownOK DEF Stop, portVars
  <2> QED
    BY <2>1 DEF Contract!contractVars
<1> QED
  BY <1>1, <1>2, <1>3, <1>4 DEF PortNext

\* retry over offload keeps the promise of the port: a call that returned was executed, and
\* no request is executed, in time or late, more often than its call may be tried.
THEOREM PortCallsImplementContract == ReadinessSpec => ImplementsPortContract
<1>1. ReadinessInit => Contract!ContractInit
  <2> SUFFICES ASSUME ReadinessInit PROVE Contract!ContractInit
    OBVIOUS
  <2>1. PICK a \in Assignments : call = [c \in Calls |-> Fresh(a[c])]
    BY DEF ReadinessInit, PortInit
  <2>2. \A c \in Calls : Phase(call[c]) = "idle" /\ call[c].applied = 0
    BY <2>1 DEF Fresh, Phase
  <2>3. MaxTries \in Nat \ {0}
    BY PortCallsAssumption
  <2> QED
    BY <2>2, <2>3 DEF Contract!ContractInit
<1>2. CallsInv /\ [ReadinessNext]_readinessVars => [Contract!ContractNext]_(Contract!contractVars)
  BY ReadinessStep, PortNextImplements
<1> QED
  BY <1>1, <1>2, CallsInvariant, PTL DEF ReadinessSpec, ImplementsPortContract, Contract!ContractSpec
-----------------------------------------------------------------------------
(* The readiness report.                                                   *)

Probes(pc) ==
    CASE pc = "redis"        -> {"postgres"}
      [] pc = "object_store" -> {"postgres", "redis"}
      [] pc = "answered"     -> Dependencies
      [] OTHER               -> {}

\* A probe that is over is noted as what it did.
Recorded(r, d) ==
    \/ r.told[d] = "answered" /\ r.checks[d] = "ok"
    \/ r.told[d] = "failed" /\ r.checks[d] = "down"

ReportRecord ==
    [pc : {"none", "postgres", "redis", "object_store", "answered"},
     told : [Dependencies -> {"nothing", "answered", "failed"}],
     checks : [Dependencies -> {"missing", "ok", "down"}], status : {0, 200, 503}]

GoodReport(r) ==
    /\ r \in ReportRecord
    /\ \A d \in Probes(r.pc) : Recorded(r, d)
    /\ r.pc = "answered" => (r.status = 200 <=> \A d \in Dependencies : r.checks[d] = "ok")

ReportInv == report \in [Calls -> ReportRecord] /\ \A c \in Calls : GoodReport(report[c])

\* A probe adds its own line to the report, and leaves the others alone.
LEMMA ProbedOK ==
    ASSUME NEW r \in ReportRecord, NEW d \in Dependencies, NEW answered \in BOOLEAN,
           NEW next \in {"redis", "object_store", "answered"},
           \A o \in Probes(r.pc) : Recorded(r, o)
    PROVE  LET p == Probed(r, d, answered, next)
           IN  /\ p \in ReportRecord /\ p.pc = next /\ p.status = r.status
               /\ \A o \in Probes(r.pc) \cup {d} : Recorded(p, o)
<1> DEFINE p == Probed(r, d, answered, next)
<1>1. /\ p \in ReportRecord /\ p.pc = next /\ p.status = r.status
      /\ p.told = [r.told EXCEPT ![d] = IF answered THEN "answered" ELSE "failed"]
      /\ p.checks = [r.checks EXCEPT ![d] = IF answered THEN "ok" ELSE "down"]
  BY DEF Probed, Noted, ReportRecord
<1>2. \A o \in Dependencies \ {d} : p.told[o] = r.told[o] /\ p.checks[o] = r.checks[o]
  BY <1>1 DEF ReportRecord
<1>3. /\ p.told[d] = IF answered THEN "answered" ELSE "failed"
      /\ p.checks[d] = IF answered THEN "ok" ELSE "down"
  BY <1>1 DEF ReportRecord
<1>4. Recorded(p, d)
  BY <1>3 DEF Recorded
<1>5. Probes(r.pc) \subseteq Dependencies
  BY DEF Probes, Dependencies
<1> HIDE DEF p
<1>6. \A o \in Probes(r.pc) \ {d} : Recorded(p, o)
  BY <1>2, <1>5 DEF Recorded
<1> QED
  BY <1>1, <1>4, <1>6 DEF p

\* A request changes its own report only.
LEMMA OneReport ==
    ASSUME ReportInv, NEW c \in Calls, NEW r, SetReport(c, r), GoodReport(r) PROVE ReportInv'
BY DEF ReportInv, SetReport, GoodReport

LEMMA ReportStep ==
    ASSUME ReportInv, [ReadinessNext]_readinessVars PROVE ReportInv'
<1>1. ASSUME NEW c \in Calls, Request(c) PROVE ReportInv'
  <2> DEFINE r == [report[c] EXCEPT !.pc = "postgres"]
  <2>1. GoodReport(report[c]) /\ SetReport(c, r)
    BY <1>1 DEF Request, ReportInv
  <2>2. GoodReport(r)
    BY <2>1 DEF GoodReport, ReportRecord, Probes
  <2> QED
    BY <2>1, <2>2, OneReport
<1>2. ASSUME NEW c \in Calls, ProbePostgres(c) PROVE ReportInv'
  <2>1. PICK answered \in BOOLEAN : SetReport(c, Probed(report[c], "postgres", answered, "redis"))
    BY <1>2 DEF ProbePostgres
  <2> DEFINE p == Probed(report[c], "postgres", answered, "redis")
  <2>2. GoodReport(report[c]) /\ report[c].pc = "postgres"
    BY <1>2 DEF ProbePostgres, ReportInv
  <2>3. p \in ReportRecord /\ p.pc = "redis" /\ \A o \in Probes(report[c].pc) \cup {"postgres"} : Recorded(p, o)
    BY <2>2, ProbedOK DEF GoodReport, Dependencies
  <2> HIDE DEF p
  <2>4. GoodReport(p)
    BY <2>3 DEF GoodReport, Probes
  <2> QED
    BY <2>1, <2>4, OneReport DEF p
<1>3. ASSUME NEW c \in Calls, ProbeRedis(c) PROVE ReportInv'
  <2>1. PICK answered \in BOOLEAN : SetReport(c, Probed(report[c], "redis", answered, "object_store"))
    BY <1>3 DEF ProbeRedis
  <2> DEFINE p == Probed(report[c], "redis", answered, "object_store")
  <2>2. GoodReport(report[c]) /\ report[c].pc = "redis"
    BY <1>3 DEF ProbeRedis, ReportInv
  <2>3. p \in ReportRecord /\ p.pc = "object_store" /\ \A o \in Probes("redis") \cup {"redis"} : Recorded(p, o)
    BY <2>2, ProbedOK DEF GoodReport, Dependencies
  <2> HIDE DEF p
  <2>4. GoodReport(p)
    BY <2>3 DEF GoodReport, Probes
  <2> QED
    BY <2>1, <2>4, OneReport DEF p
<1>4. ASSUME NEW c \in Calls, ProbeStore(c) PROVE ReportInv'
  <2> DEFINE answered == call'[c].verdict = "ok"
             p == Probed(report[c], "object_store", answered, "answered")
             r == Answer(p)
  <2>1. GoodReport(report[c]) /\ report[c].pc = "object_store" /\ SetReport(c, r)
    BY <1>4 DEF ProbeStore, ReportInv
  <2>2. answered \in BOOLEAN
    OBVIOUS
  <2> HIDE DEF answered
  <2>3. p \in ReportRecord /\ p.pc = "answered" /\ \A o \in Probes("object_store") \cup {"object_store"} : Recorded(p, o)
    BY <2>1, <2>2, ProbedOK DEF GoodReport, Dependencies
  <2>4. \A o \in Dependencies : Recorded(p, o)
    BY <2>3 DEF Probes, Dependencies
  <2> HIDE DEF p
  <2>5. /\ r \in ReportRecord /\ r.pc = "answered" /\ r.told = p.told /\ r.checks = p.checks
        /\ r.status = IF \A d \in Dependencies : p.checks[d] = "ok" THEN 200 ELSE 503
    BY <2>3 DEF Answer, ReportRecord
  <2> HIDE DEF r
  <2>6. GoodReport(r)
    BY <2>4, <2>5 DEF GoodReport, Probes, Recorded
  <2> QED
    BY <2>1, <2>6, OneReport
<1>5. CASE UNCHANGED report
  BY <1>5 DEF ReportInv, GoodReport
<1> QED
  BY <1>1, <1>2, <1>3, <1>4, <1>5 DEF ReadinessNext, readinessVars, ProbeStep, Close

\* readiness: whatever fails and however long the store's probe waits for a thread, the
\* report says of every dependency what that one did.
THEOREM ReportsAreHonest == ReadinessSpec => []ReportIsHonest
<1>1. ReadinessInit => ReportInv
  BY DEF ReadinessInit, ReportInv, GoodReport, Unasked, ReportRecord, Probes
<1>2. ReportInv /\ [ReadinessNext]_readinessVars => ReportInv'
  BY ReportStep
<1>3. ReportInv => ReportIsHonest
  BY DEF ReportInv, GoodReport, Probes, Recorded, ReportIsHonest
<1> QED
  BY <1>1, <1>2, <1>3, PTL DEF ReadinessSpec
=============================================================================
