---------------------------- MODULE PipelineProofs ----------------------------
(* The pipelines' invariants, for every workload and any number of runs.    *)
EXTENDS Pipelines, ChunkingProofs

\* Every job of a workload is a query or a document, never both.
LEMMA JobKinds ==
    ASSUME payload \in Workloads
    PROVE  /\ PipelineJobs = QueryJobs \cup DocumentJobs
           /\ QueryJobs \cap DocumentJobs = {}
           /\ \A j \in DocumentJobs : payload[j].call \in ChunkCall /\ payload[j].doc \in Documents
           /\ \A j \in QueryJobs : payload[j].topK \in Nat
  BY PipelinesAssumption DEF PipelineJobs, QueryJobs, DocumentJobs, Documents

\* Namespaces of jobs and of documents never meet.
LEMMA Namespaces ==
    /\ \A j, k : JobNamespace(j) = JobNamespace(k) => j = k
    /\ \A d, e : DocNamespace(d) = DocNamespace(e) => d = e
    /\ \A j, d : JobNamespace(j) # DocNamespace(d)
  BY DEF JobNamespace, DocNamespace

\* The chunker of a run that has not chunked anything.
LEMMA NoChunkerOK == NoChunker \in Chunkers /\ ChunkerInv(NoChunker)
<1>. DEFINE call == [length |-> 0, size |-> 1, overlap |-> 0]
<1>1. call \in ChunkCall /\ NoChunker = NewChunker(call)
  BY DEF ChunkCall, NewChunker, NoChunker, ValidCall
<1>. HIDE DEF call
<1>. QED
  BY <1>1, NewChunkerOK

\* What an action has to show: its own run, the records it adds and the artifact it
\* writes are in order, and it takes nothing out of the index or out of what was found.
LEMMA Preservation ==
    ASSUME PipelineInv, payload' = payload,
           runs' \in [RunsOf(PipelineJobs) -> RunRecord],
           \A q \in RunsOf(PipelineJobs) : runs'[q] = runs[q] \/ RunOK(q[1], runs[q])',
           vectors' \in SUBSET VectorRecord,
           \A v \in vectors' : v \in vectors \/ VectorOK(v)',
           \A d, c : InIndex(d, c) => InIndex(d, c)',
           found' \in [PipelineJobs -> SUBSET Snippets],
           \A j \in PipelineJobs : found[j] \subseteq found'[j],
           objects' \in [PipelineJobs -> Artifacts],
           \A j \in PipelineJobs : objects'[j] = objects[j] \/ ObjectOK(j, objects[j])',
           sent' \in SUBSET Requests,
           \A q \in sent' : q \in sent \/ RequestOK(q)'
    PROVE  PipelineInv'
<1>1. /\ PipelineJobs' = PipelineJobs /\ QueryJobs' = QueryJobs
      /\ DocumentJobs' = DocumentJobs /\ Documents' = Documents
  BY DEF PipelineJobs, QueryJobs, DocumentJobs, Documents
<1>2. VectorRecord' = VectorRecord
  BY <1>1 DEF VectorRecord, JobNamespace, DocNamespace
<1>3. RunRecord' = RunRecord
  BY <1>2 DEF RunRecord
<1>4. PipelineTypeOK'
  BY <1>1, <1>2, <1>3 DEF PipelineInv, PipelineTypeOK, RunsOf, Artifacts, Requests
<1>5. QueryJobs \subseteq PipelineJobs
  BY DEF QueryJobs
<1>6. \A q \in RunsOf(PipelineJobs)' : RunOK(q[1], runs[q])'
  <2>. SUFFICES ASSUME NEW q \in RunsOf(PipelineJobs), runs'[q] = runs[q]
                PROVE  RunOK(q[1], runs[q])'
    BY <1>1 DEF RunsOf
  <2>1. RunOK(q[1], runs[q]) /\ runs'[q] = runs[q]
    BY DEF PipelineInv
  <2>. QED
    BY <2>1, <1>1, <1>5 DEF RunOK, DocumentRunOK, QueryRunOK
<1>7. \A v \in vectors' : VectorOK(v)'
  <2>. SUFFICES ASSUME NEW v \in vectors
                PROVE  VectorOK(v)'
    OBVIOUS
  <2>1. VectorOK(v)
    BY DEF PipelineInv
  <2>. QED
    BY <2>1, <1>1, <1>5 DEF VectorOK
<1>8. \A j \in PipelineJobs' : ObjectOK(j, objects[j])'
  <2>. SUFFICES ASSUME NEW j \in PipelineJobs, objects'[j] = objects[j]
                PROVE  ObjectOK(j, objects[j])'
    BY <1>1
  <2>1. ObjectOK(j, objects[j])
    BY DEF PipelineInv
  <2>. QED
    BY <2>1, <1>1, <1>5 DEF ObjectOK, ManifestOK
<1>9. \A q \in sent' : RequestOK(q)'
  <2>. SUFFICES ASSUME NEW q \in sent
                PROVE  RequestOK(q)'
    OBVIOUS
  <2>1. RequestOK(q) /\ q \in Requests
    BY DEF PipelineInv, PipelineTypeOK
  <2>2. q.kind = "upsert" => \A v \in q.records : VectorOK(v)'
    BY <2>1, <1>1, <1>5 DEF RequestOK, VectorOK
  <2>3. q.kind = "put" => q.job \in PipelineJobs /\ ObjectOK(q.job, q.object)'
    BY <2>1, <1>1, <1>5 DEF RequestOK, Requests, ObjectOK, ManifestOK
  <2>. QED
    BY <2>2, <2>3 DEF RequestOK
<1>. QED
  BY <1>4, <1>6, <1>7, <1>8, <1>9 DEF PipelineInv

\* A step that only moves its run on.
LEMMA OnlyTheRun ==
    ASSUME PipelineInv, UNCHANGED <<payload, vectors, objects, found, sent>>,
           NEW r \in RunsOf(PipelineJobs),
           runs'[r] \in RunRecord,
           runs' = [runs EXCEPT ![r] = runs'[r]],
           RunOK(r[1], runs[r])'
    PROVE  PipelineInv'
<1>1. /\ runs \in [RunsOf(PipelineJobs) -> RunRecord] /\ vectors \in SUBSET VectorRecord
      /\ found \in [PipelineJobs -> SUBSET Snippets] /\ objects \in [PipelineJobs -> Artifacts]
      /\ sent \in SUBSET Requests
  BY DEF PipelineInv, PipelineTypeOK
<1>2. /\ runs' \in [RunsOf(PipelineJobs) -> RunRecord]
      /\ \A q \in RunsOf(PipelineJobs) : q # r => runs'[q] = runs[q]
  BY <1>1
<1>3. \A d, c : InIndex(d, c) => InIndex(d, c)'
  BY DEF InIndex
<1>. QED
  BY <1>1, <1>2, <1>3, Preservation

\* A step that only moves its run's pc.
LEMMA OnlyThePc ==
    ASSUME PipelineInv, UNCHANGED <<payload, vectors, objects, found, sent>>,
           NEW r \in RunsOf(PipelineJobs),
           NEW STATE pc, pc \in RunPcs, RunTo(r, pc),
           r[1] \in DocumentJobs =>
               /\ pc \in DocumentPcs
               /\ pc \in DocumentPcs \ {"idle", "failed"} =>
                     runs[r].chunker.call = payload[r[1]].call
               /\ pc \in {"embedChunks", "upsertChunks", "put"} => runs[r].chunker.pc = "done"
               /\ pc = "put" => \A k \in DOMAIN runs[r].chunker.chunks :
                                   InIndex(payload[r[1]].doc, runs[r].chunker.chunks[k])
    PROVE  PipelineInv'
<1>1. runs \in [RunsOf(PipelineJobs) -> RunRecord] /\ runs[r] \in RunRecord /\ RunOK(r[1], runs[r])
  BY DEF PipelineInv, PipelineTypeOK
<1>2. /\ runs'[r] = [runs[r] EXCEPT !.pc = pc]
      /\ runs' = [runs EXCEPT ![r] = runs'[r]]
  BY <1>1 DEF RunTo, SetRun
<1>3. /\ runs'[r].pc = pc /\ runs'[r].snippets = runs[r].snippets
      /\ runs'[r].matches = runs[r].matches /\ runs'[r].chunker = runs[r].chunker
      /\ runs'[r] \in RunRecord
  BY <1>1, <1>2 DEF RunRecord
<1>4. /\ DocumentJobs' = DocumentJobs /\ QueryJobs' = QueryJobs
      /\ \A d, c : InIndex(d, c) <=> InIndex(d, c)'
  BY DEF DocumentJobs, QueryJobs, PipelineJobs, InIndex
<1>5. RunOK(r[1], runs[r])'
  BY <1>1, <1>3, <1>4 DEF RunOK, DocumentRunOK, QueryRunOK
<1>. QED
  BY <1>2, <1>3, <1>5, OnlyTheRun

\* Beginning a run, for a malformed payload, a query or a document.
LEMMA BeginRunKeeps ==
    ASSUME PipelineInv, NEW r \in RunsOf(PipelineJobs), BeginRun(r)
    PROVE  PipelineInv'
<1>1. runs \in [RunsOf(PipelineJobs) -> RunRecord] /\ payload \in Workloads
  BY DEF PipelineInv, PipelineTypeOK
<1>2. /\ runs'[r] = Begun(payload[r[1]])
      /\ runs' = [runs EXCEPT ![r] = runs'[r]]
      /\ UNCHANGED <<payload, vectors, objects, found, sent>>
  BY <1>1 DEF BeginRun, SetRun
<1>3. NoChunker \in Chunkers /\ ChunkerInv(NoChunker)
  BY NoChunkerOK
<1>4. r[1] \in PipelineJobs
  BY DEF RunsOf
<1>5. /\ DocumentJobs' = DocumentJobs /\ QueryJobs' = QueryJobs
  BY <1>2 DEF DocumentJobs, QueryJobs, PipelineJobs
<1>. DEFINE p == payload[r[1]]
<1>6. CASE ~p.valid
  <2>1. runs'[r] = [pc |-> "failed", snippets |-> <<>>, matches |-> {}, chunker |-> NoChunker]
    BY <1>2, <1>6 DEF Begun, IdleRun
  <2>2. runs'[r] \in RunRecord
    BY <2>1, <1>3 DEF RunRecord, RunPcs
  <2>3. RunOK(r[1], runs[r])'
    BY <2>1, <1>3 DEF RunOK, DocumentRunOK, QueryRunOK, DocumentPcs
  <2>. QED
    BY <2>2, <2>3, <1>2, OnlyTheRun
<1>7. CASE p.valid /\ p.type = "rag_query"
  <2>1. runs'[r] = [pc |-> "search", snippets |-> <<>>, matches |-> {}, chunker |-> NoChunker]
    BY <1>2, <1>7 DEF Begun, IdleRun
  <2>2. runs'[r] \in RunRecord
    BY <2>1, <1>3 DEF RunRecord, RunPcs
  <2>3. r[1] \notin DocumentJobs
    BY <1>7 DEF DocumentJobs
  <2>4. RunOK(r[1], runs[r])'
    BY <2>1, <2>3, <1>3, <1>5 DEF RunOK, QueryRunOK
  <2>. QED
    BY <2>2, <2>4, <1>2, OnlyTheRun
<1>8. CASE p.valid /\ p.type = "embed_document"
  <2>1. runs'[r] = [pc |-> "chunk", snippets |-> <<>>, matches |-> {}, chunker |-> NewChunker(p.call)]
    BY <1>2, <1>8 DEF Begun, IdleRun
  <2>2. p.call \in ChunkCall
    BY <1>1, <1>4, <1>8, JobKinds DEF DocumentJobs
  <2>. HIDE DEF p
  <2>3. NewChunker(p.call) \in Chunkers /\ ChunkerInv(NewChunker(p.call)) /\ NewChunker(p.call).call = p.call
    BY <2>2, NewChunkerOK
  <2>4. runs'[r] \in RunRecord
    BY <2>1, <2>3 DEF RunRecord, RunPcs
  <2>5. payload'[r[1]] = p
    BY <1>2 DEF p
  <2>6. RunOK(r[1], runs[r])'
    BY <2>1, <2>3, <2>5 DEF RunOK, DocumentRunOK, QueryRunOK, DocumentPcs
  <2>. QED
    BY <2>4, <2>6, <1>2, OnlyTheRun
<1>9. p.type \in {"rag_query", "embed_document"}
  BY <1>1, <1>4, PipelinesAssumption DEF PipelineJobs
<1>10. p.valid \/ ~p.valid
  OBVIOUS
<1>. QED
  BY <1>6, <1>7, <1>8, <1>9, <1>10

\* An embedding or a completion.
LEMMA ComputeKeeps ==
    ASSUME PipelineInv, NEW r \in RunsOf(PipelineJobs), Compute(r)
    PROVE  PipelineInv'
<1>1. /\ runs[r].pc \in {"embedSnippets", "embedQuery", "complete", "embedChunks"}
      /\ RunTo(r, AfterCompute(runs[r])) /\ UNCHANGED <<payload, vectors, objects, found, sent>>
  BY DEF Compute
<1>2. AfterCompute(runs[r]) \in RunPcs
  BY <1>1 DEF AfterCompute, RunPcs
<1>3. r[1] \in DocumentJobs => /\ runs[r].pc = "embedChunks"
                               /\ runs[r].chunker.call = payload[r[1]].call
                               /\ runs[r].chunker.pc = "done"
  BY <1>1 DEF PipelineInv, RunOK, DocumentRunOK, DocumentPcs
<1>4. runs[r].pc = "embedChunks" => AfterCompute(runs[r]) = "upsertChunks"
  BY DEF AfterCompute
<1>. QED
  BY <1>1, <1>2, <1>3, <1>4, OnlyThePc DEF DocumentPcs

\* A call that raises without an effect.
LEMMA RunFailsKeeps ==
    ASSUME PipelineInv, NEW r \in RunsOf(PipelineJobs), RunFails(r)
    PROVE  PipelineInv'
  BY OnlyThePc DEF RunFails, DocumentPcs, RunPcs

\* One window of chunk_text.
LEMMA ChunkWindowKeeps ==
    ASSUME PipelineInv, NEW r \in RunsOf(DocumentJobs), ChunkWindow(r)
    PROVE  PipelineInv'
<1>1. r \in RunsOf(PipelineJobs)
  BY DEF RunsOf, DocumentJobs
<1>2. runs \in [RunsOf(PipelineJobs) -> RunRecord] /\ runs[r] \in RunRecord /\ RunOK(r[1], runs[r])
  BY <1>1 DEF PipelineInv, PipelineTypeOK
<1>3. /\ runs'[r] = [runs[r] EXCEPT !.chunker = Window(@)]
      /\ runs' = [runs EXCEPT ![r] = runs'[r]]
      /\ runs[r].pc = "chunk" /\ runs[r].chunker.pc = "loop"
      /\ UNCHANGED <<payload, vectors, objects, found, sent>>
  BY <1>1, <1>2 DEF ChunkWindow, SetRun
<1>4. /\ Window(runs[r].chunker) \in Chunkers /\ ChunkerInv(Window(runs[r].chunker))
      /\ Window(runs[r].chunker).call = runs[r].chunker.call
  <2>1. runs[r].chunker \in Chunkers /\ ChunkerInv(runs[r].chunker)
    BY <1>2 DEF RunRecord, RunOK
  <2>. QED
    BY <2>1, <1>3, WindowKeeps
<1>5. /\ runs'[r] \in RunRecord /\ runs'[r].pc = "chunk"
      /\ runs'[r].snippets = runs[r].snippets /\ runs'[r].matches = runs[r].matches
      /\ runs'[r].chunker = Window(runs[r].chunker)
  BY <1>2, <1>3, <1>4 DEF RunRecord
<1>6. DocumentJobs' = DocumentJobs /\ QueryJobs' = QueryJobs /\ r[1] \in DocumentJobs
  BY <1>3 DEF DocumentJobs, QueryJobs, PipelineJobs, RunsOf
<1>7. RunOK(r[1], runs[r])'
  BY <1>2, <1>3, <1>4, <1>5, <1>6 DEF RunOK, DocumentRunOK, QueryRunOK, DocumentPcs
<1>. QED
  BY <1>1, <1>3, <1>5, <1>7, OnlyTheRun

\* chunk_text's return.
LEMMA ChunkReturnKeeps ==
    ASSUME PipelineInv, NEW r \in RunsOf(DocumentJobs), ChunkReturn(r)
    PROVE  PipelineInv'
<1>1. r \in RunsOf(PipelineJobs) /\ r[1] \in DocumentJobs
  BY DEF RunsOf, DocumentJobs
<1>2. runs[r] \in RunRecord /\ RunOK(r[1], runs[r])
  BY <1>1 DEF PipelineInv, PipelineTypeOK
<1>3. /\ runs[r].pc = "chunk" /\ runs[r].chunker.pc # "loop"
      /\ RunTo(r, AfterChunking(runs[r].chunker)) /\ UNCHANGED <<payload, vectors, objects, found, sent>>
  BY DEF ChunkReturn
<1>4. runs[r].chunker.pc \in {"done", "error"} /\ runs[r].chunker.call = payload[r[1]].call
  BY <1>1, <1>2, <1>3 DEF RunRecord, Chunkers, RunOK, DocumentRunOK, DocumentPcs
<1>5. /\ runs[r].chunker.pc = "error" => AfterChunking(runs[r].chunker) = "failed"
      /\ runs[r].chunker.pc = "done" /\ runs[r].chunker.chunks = <<>> =>
            AfterChunking(runs[r].chunker) = "put"
      /\ runs[r].chunker.pc = "done" /\ runs[r].chunker.chunks # <<>> =>
            AfterChunking(runs[r].chunker) = "embedChunks"
  BY DEF AfterChunking
<1>6. runs[r].chunker.chunks = <<>> => DOMAIN runs[r].chunker.chunks = {}
  OBVIOUS
<1>. QED
  BY <1>1, <1>3, <1>4, <1>5, <1>6, OnlyThePc DEF DocumentPcs, RunPcs
\* A search: what it returns is what was found.
LEMMA SearchKeeps ==
    ASSUME PipelineInv, NEW r \in RunsOf(QueryJobs),
           NEW results \in SearchResults(payload[r[1]].topK), Search(r, results)
    PROVE  PipelineInv'
<1>1. /\ payload \in Workloads /\ runs \in [RunsOf(PipelineJobs) -> RunRecord]
      /\ found \in [PipelineJobs -> SUBSET Snippets]
      /\ vectors \in SUBSET VectorRecord /\ objects \in [PipelineJobs -> Artifacts]
      /\ sent \in SUBSET Requests
  BY DEF PipelineInv, PipelineTypeOK
<1>2. r \in RunsOf(PipelineJobs) /\ r[1] \in QueryJobs /\ r[1] \in PipelineJobs /\ r[1] \notin DocumentJobs
  BY DEF RunsOf, QueryJobs, DocumentJobs
<1>3. results \in Seq(Snippets)
  <2>1. PICK n \in 0 .. (2 * payload[r[1]].topK) : results \in [1 .. n -> Snippets]
    BY DEF SearchResults
  <2>2. n \in Nat
    BY <1>1, <1>2, JobKinds
  <2>. QED
    BY <2>1, <2>2
<1>4. runs[r] \in RunRecord /\ RunOK(r[1], runs[r])
  BY <1>1, <1>2 DEF PipelineInv
<1>. DEFINE new == {results[i] : i \in DOMAIN results}
<1>5. new \in SUBSET Snippets
  BY <1>3
<1>6. /\ \E pc \in RunPcs : runs'[r] = [runs[r] EXCEPT !.snippets = results, !.pc = pc]
      /\ runs' = [runs EXCEPT ![r] = runs'[r]]
      /\ UNCHANGED <<payload, vectors, objects, sent>>
  BY <1>1, <1>2 DEF Search, SetRun, RunPcs
<1>7. found' = [found EXCEPT ![r[1]] = found[r[1]] \cup new]
  BY DEF Search
<1>. HIDE DEF new
<1>8. /\ found' \in [PipelineJobs -> SUBSET Snippets] /\ found'[r[1]] = found[r[1]] \cup new
      /\ \A j \in PipelineJobs : found[j] \subseteq found'[j]
  BY <1>1, <1>2, <1>5, <1>7
<1>9. /\ runs'[r] \in RunRecord /\ runs'[r].snippets = results
      /\ runs'[r].matches = runs[r].matches /\ runs'[r].chunker = runs[r].chunker
  BY <1>3, <1>4, <1>6 DEF RunRecord
<1>10. DocumentJobs' = DocumentJobs /\ QueryJobs' = QueryJobs
  BY <1>6 DEF DocumentJobs, QueryJobs, PipelineJobs
<1>11. \A i \in DOMAIN results : results[i] \in found'[r[1]]
  BY <1>8 DEF new
<1>12. RunOK(r[1], runs[r])'
  BY <1>2, <1>4, <1>8, <1>9, <1>10, <1>11 DEF RunOK, QueryRunOK
<1>13. /\ runs' \in [RunsOf(PipelineJobs) -> RunRecord]
       /\ \A q \in RunsOf(PipelineJobs) : q # r => runs'[q] = runs[q]
  BY <1>1, <1>2, <1>6, <1>9
<1>14. \A d, c : InIndex(d, c) => InIndex(d, c)'
  BY <1>6 DEF InIndex
<1>. QED
  BY <1>1, <1>2, <1>6, <1>8, <1>12, <1>13, <1>14, Preservation

\* A query of the vector store: what it returns was found for this job.
LEMMA QueryKeeps ==
    ASSUME PipelineInv, NEW r \in RunsOf(QueryJobs),
           NEW M \in Matches(JobNamespace(r[1]), payload[r[1]].topK), Query(r, M)
    PROVE  PipelineInv'
<1>1. runs \in [RunsOf(PipelineJobs) -> RunRecord] /\ vectors \in SUBSET VectorRecord
  BY DEF PipelineInv, PipelineTypeOK
<1>2. r \in RunsOf(PipelineJobs) /\ r[1] \in QueryJobs /\ r[1] \notin DocumentJobs
  BY DEF RunsOf, QueryJobs, DocumentJobs
<1>3. M \in SUBSET VectorRecord /\ \A v \in M : v.value \in found[r[1]]
  BY <1>1, <1>2 DEF Matches, PipelineInv, VectorOK
<1>4. runs[r] \in RunRecord /\ RunOK(r[1], runs[r])
  BY <1>1, <1>2 DEF PipelineInv
<1>5. /\ runs'[r] = [runs[r] EXCEPT !.matches = M, !.pc = "complete"]
      /\ runs' = [runs EXCEPT ![r] = runs'[r]]
      /\ UNCHANGED <<payload, vectors, objects, found, sent>>
  BY <1>1, <1>2 DEF Query, SetRun
<1>6. /\ runs'[r] \in RunRecord /\ runs'[r].snippets = runs[r].snippets
      /\ runs'[r].matches = M /\ runs'[r].chunker = runs[r].chunker
  BY <1>3, <1>4, <1>5 DEF RunRecord, RunPcs
<1>7. DocumentJobs' = DocumentJobs /\ QueryJobs' = QueryJobs
  BY <1>5 DEF DocumentJobs, QueryJobs, PipelineJobs
<1>8. RunOK(r[1], runs[r])'
  BY <1>2, <1>3, <1>4, <1>5, <1>6, <1>7 DEF RunOK, QueryRunOK
<1>. QED
  BY <1>2, <1>5, <1>6, <1>8, OnlyTheRun

\* What upserting does to the store: it adds the records and keeps every id.
LEMMA UpsertFacts ==
    ASSUME NEW STATE records, Upsert(records)
    PROVE  /\ records \subseteq vectors'
           /\ \A v \in vectors' : v \in vectors \/ v \in records
           /\ \A d, c : InIndex(d, c) => InIndex(d, c)'
<1>1. vectors' = {v \in vectors : \A x \in records : x.ns # v.ns \/ x.id # v.id} \cup records
  BY DEF Upsert
<1>2. ASSUME NEW d, NEW c, InIndex(d, c)
      PROVE  InIndex(d, c)'
  <2>1. PICK v \in vectors : v.ns = DocNamespace(d) /\ v.id = c.index
    BY <1>2 DEF InIndex
  <2>2. \E v2 \in vectors' : v2.ns = v.ns /\ v2.id = v.id
    BY <1>1
  <2>. QED
    BY <2>1, <2>2 DEF InIndex, DocNamespace
<1>. QED
  BY <1>1, <1>2

\* A write that is executed leaves the stores in order, if the request is.
LEMMA ExecuteKeeps ==
    ASSUME PipelineInv, UNCHANGED <<payload, found>>,
           NEW q \in Requests, RequestOK(q), Execute(q)
    PROVE  /\ vectors' \in SUBSET VectorRecord
           /\ \A v \in vectors' : v \in vectors \/ VectorOK(v)'
           /\ \A d, c : InIndex(d, c) => InIndex(d, c)'
           /\ q.kind = "upsert" => q.records \subseteq vectors'
           /\ objects' \in [PipelineJobs -> Artifacts]
           /\ \A j \in PipelineJobs : objects'[j] = objects[j] \/ ObjectOK(j, objects[j])'
<1>1. vectors \in SUBSET VectorRecord /\ objects \in [PipelineJobs -> Artifacts]
  BY DEF PipelineInv, PipelineTypeOK
<1>2. /\ PipelineJobs' = PipelineJobs /\ QueryJobs' = QueryJobs
      /\ DocumentJobs' = DocumentJobs /\ Documents' = Documents
      /\ QueryJobs \subseteq PipelineJobs
  BY DEF PipelineJobs, QueryJobs, DocumentJobs, Documents
<1>3. CASE q.kind = "upsert" /\ Upsert(q.records) /\ UNCHANGED objects
  <2> DEFINE records == q.records
  <2>1. records \subseteq VectorRecord /\ \A v \in records : VectorOK(v)
    BY <1>3 DEF Requests, RequestOK
  <2>2. \A v \in records : VectorOK(v)'
    BY <2>1, <1>2 DEF VectorOK
  <2>3. /\ records \subseteq vectors'
        /\ \A v \in vectors' : v \in vectors \/ v \in records
        /\ \A d, c : InIndex(d, c) => InIndex(d, c)'
    BY <1>3, UpsertFacts
  <2>. QED
    BY <2>1, <2>2, <2>3, <1>1, <1>3
<1>4. CASE /\ q.kind = "put" /\ objects' = [objects EXCEPT ![q.job] = q.object]
           /\ UNCHANGED vectors
  <2>1. q.job \in PipelineJobs /\ q.object \in Artifacts /\ ObjectOK(q.job, q.object)
    BY <1>4 DEF Requests, RequestOK
  <2>2. \A d, c : InIndex(d, c) <=> InIndex(d, c)'
    BY <1>4 DEF InIndex
  <2>3. /\ objects' \in [PipelineJobs -> Artifacts] /\ objects'[q.job] = q.object
        /\ \A j \in PipelineJobs : j # q.job => objects'[j] = objects[j]
    BY <1>1, <1>4, <2>1
  <2>4. ObjectOK(q.job, objects[q.job])'
    BY <2>1, <2>2, <2>3, <1>2 DEF ObjectOK, ManifestOK, NoObject
  <2>5. \A j \in PipelineJobs : objects'[j] = objects[j] \/ ObjectOK(j, objects[j])'
    BY <2>3, <2>4
  <2>. QED
    BY <2>2, <2>3, <2>5, <1>1, <1>4
<1>. QED
  BY <1>3, <1>4 DEF Execute

\* What a write of a run does, whether it is executed or only sent.
LEMMA SendKeeps ==
    ASSUME PipelineInv, NEW r \in RunsOf(PipelineJobs), NEW ok \in BOOLEAN,
           NEW q \in Requests, RequestOK(q), Send(q, ok),
           NEW STATE pc, pc \in RunPcs, RunTo(r, pc), UNCHANGED <<payload, found>>,
           r[1] \in DocumentJobs =>
               /\ pc \in {"put", "done", "failed"}
               /\ pc # "failed" => runs[r].chunker.call = payload[r[1]].call
               /\ pc = "put" => /\ runs[r].chunker.pc = "done"
                                /\ \A k \in DOMAIN runs[r].chunker.chunks :
                                       InIndex(payload[r[1]].doc, runs[r].chunker.chunks[k])'
    PROVE  PipelineInv'
<1>1. /\ runs \in [RunsOf(PipelineJobs) -> RunRecord] /\ sent \in SUBSET Requests
      /\ vectors \in SUBSET VectorRecord /\ objects \in [PipelineJobs -> Artifacts]
      /\ found \in [PipelineJobs -> SUBSET Snippets]
      /\ runs[r] \in RunRecord /\ RunOK(r[1], runs[r])
  BY DEF PipelineInv, PipelineTypeOK
<1>2. /\ vectors' \in SUBSET VectorRecord
      /\ \A v \in vectors' : v \in vectors \/ VectorOK(v)'
      /\ \A d, c : InIndex(d, c) => InIndex(d, c)'
      /\ objects' \in [PipelineJobs -> Artifacts]
      /\ \A j \in PipelineJobs : objects'[j] = objects[j] \/ ObjectOK(j, objects[j])'
  <2>1. CASE ok
    BY <2>1, ExecuteKeeps DEF Send
  <2>2. CASE ~ok
    BY <2>2, <1>1 DEF Send, InIndex
  <2>. QED
    BY <2>1, <2>2
<1>3. /\ PipelineJobs' = PipelineJobs /\ QueryJobs' = QueryJobs /\ DocumentJobs' = DocumentJobs
      /\ Documents' = Documents /\ QueryJobs \subseteq PipelineJobs
  BY DEF PipelineJobs, QueryJobs, DocumentJobs, Documents
<1>4. RequestOK(q)'
  <2>1. q.kind = "upsert" => \A v \in q.records : VectorOK(v)'
    BY <1>3 DEF RequestOK, VectorOK
  <2>2. q.kind = "put" => ObjectOK(q.job, q.object)'
    BY <1>2, <1>3 DEF RequestOK, ObjectOK, ManifestOK
  <2>. QED
    BY <2>1, <2>2 DEF RequestOK
<1>5. sent' \in SUBSET Requests /\ \A x \in sent' : x \in sent \/ RequestOK(x)'
  BY <1>1, <1>4 DEF Send
<1>6. /\ runs'[r] = [runs[r] EXCEPT !.pc = pc]
      /\ \A p \in RunsOf(PipelineJobs) : p # r => runs'[p] = runs[p]
  BY <1>1 DEF RunTo, SetRun
<1>7. /\ runs'[r].pc = pc /\ runs'[r].snippets = runs[r].snippets
      /\ runs'[r].matches = runs[r].matches /\ runs'[r].chunker = runs[r].chunker
      /\ runs'[r] \in RunRecord
  BY <1>1, <1>6 DEF RunRecord
<1>8. runs' \in [RunsOf(PipelineJobs) -> RunRecord]
  BY <1>1, <1>7 DEF RunTo, SetRun
<1>9. RunOK(r[1], runs[r])'
  <2>1. ChunkerInv(runs'[r].chunker)
    BY <1>1, <1>7 DEF RunOK
  <2>2. r[1] \in DocumentJobs => DocumentRunOK(r[1], runs[r])'
    BY <1>3, <1>7 DEF DocumentRunOK, DocumentPcs
  <2>3. r[1] \in QueryJobs => QueryRunOK(r[1], runs[r])'
    BY <1>1, <1>3, <1>7 DEF RunOK, QueryRunOK
  <2>. QED
    BY <1>3, <2>1, <2>2, <2>3 DEF RunOK
<1>. QED
  BY <1>1, <1>2, <1>5, <1>6, <1>8, <1>9, Preservation

\* Indexing the snippets.
LEMMA UpsertSnippetsKeeps ==
    ASSUME PipelineInv, NEW r \in RunsOf(QueryJobs), NEW ok \in BOOLEAN, UpsertSnippets(r, ok)
    PROVE  PipelineInv'
<1>1. r \in RunsOf(PipelineJobs) /\ r[1] \in QueryJobs /\ r[1] \notin DocumentJobs
  BY DEF RunsOf, QueryJobs, DocumentJobs
<1>2. runs[r] \in RunRecord /\ RunOK(r[1], runs[r])
  BY <1>1 DEF PipelineInv, PipelineTypeOK
<1>. DEFINE records == SnippetRecords(r[1], runs[r].snippets)
            pc == After(ok, "embedQuery")
<1>. PICK q : q = UpsertRequest(records)
  OBVIOUS
<1>3. Send(q, ok) /\ RunTo(r, pc) /\ UNCHANGED <<payload, found>>
  BY DEF UpsertSnippets
<1>4. pc \in RunPcs
  BY DEF After, RunPcs
<1>5. \A v \in records : \E i \in DOMAIN runs[r].snippets :
          v = [ns |-> JobNamespace(r[1]), id |-> i, value |-> runs[r].snippets[i]]
  BY DEF SnippetRecords, Record
<1>6. q.kind = "upsert" /\ q.records = records /\ q = [kind |-> "upsert", records |-> records]
  BY DEF UpsertRequest
<1>. HIDE DEF records, pc
<1>7. /\ runs[r].snippets \in Seq(Snippets)
      /\ \A i \in DOMAIN runs[r].snippets : runs[r].snippets[i] \in found[r[1]]
  BY <1>1, <1>2 DEF RunRecord, RunOK, QueryRunOK
<1>8. records \in SUBSET VectorRecord
  BY <1>1, <1>5, <1>7 DEF VectorRecord
<1>9. \A v \in records : VectorOK(v)
  <2>. SUFFICES ASSUME NEW v \in records
                PROVE  VectorOK(v)
    OBVIOUS
  <2>1. v.ns = JobNamespace(r[1]) /\ v.value \in found[r[1]]
    BY <1>5, <1>7
  <2>2. \A d : v.ns # DocNamespace(d)
    BY <2>1, Namespaces
  <2>3. \A j : v.ns = JobNamespace(j) => v.value \in found[j]
    BY <2>1, Namespaces
  <2>. QED
    BY <2>2, <2>3 DEF VectorOK
<1>10. q \in Requests /\ RequestOK(q)
  BY <1>6, <1>8, <1>9 DEF Requests, RequestOK
<1>. QED
  BY <1>1, <1>3, <1>4, <1>10, SendKeeps

\* Indexing the chunks.
LEMMA UpsertChunksKeeps ==
    ASSUME PipelineInv, NEW r \in RunsOf(DocumentJobs), NEW ok \in BOOLEAN, UpsertChunks(r, ok)
    PROVE  PipelineInv'
<1>. DEFINE j == r[1]
            chunks == runs[r].chunker.chunks
            records == ChunkRecords(j, chunks)
            pc == After(ok, "put")
<1>. PICK q : q = UpsertRequest(records)
  OBVIOUS
<1>1. /\ payload \in Workloads
      /\ runs \in [RunsOf(PipelineJobs) -> RunRecord] /\ vectors \in SUBSET VectorRecord
      /\ found \in [PipelineJobs -> SUBSET Snippets] /\ objects \in [PipelineJobs -> Artifacts]
  BY DEF PipelineInv, PipelineTypeOK
<1>2. r \in RunsOf(PipelineJobs) /\ j \in DocumentJobs /\ j \notin QueryJobs /\ payload[j].doc \in Documents
  BY DEF RunsOf, QueryJobs, DocumentJobs, Documents
<1>3. runs[r] \in RunRecord /\ RunOK(j, runs[r])
  BY <1>1, <1>2 DEF PipelineInv
<1>4. /\ Send(q, ok) /\ RunTo(r, pc) /\ runs[r].pc = "upsertChunks"
      /\ UNCHANGED <<payload, found>>
  BY DEF UpsertChunks
<1>5. /\ runs[r].chunker \in Chunkers /\ chunks \in Seq(Chunk) /\ ChunkerInv(runs[r].chunker)
      /\ runs[r].chunker.call = payload[j].call /\ runs[r].chunker.pc = "done"
  BY <1>2, <1>3, <1>4 DEF RunRecord, Chunkers, RunOK, DocumentRunOK, DocumentPcs
<1>6. \A k \in DOMAIN chunks : /\ chunks[k] \in Chunk
                               /\ chunks[k] = WindowChunk(payload[j].call, chunks[k].index)
  <2>. SUFFICES ASSUME NEW k \in 1 .. Len(chunks)
                PROVE  chunks[k] \in Chunk /\ chunks[k] = WindowChunk(payload[j].call, chunks[k].index)
    BY <1>5
  <2>1. chunks[k] = WindowChunk(payload[j].call, k - 1) /\ chunks[k] \in Chunk
    BY <1>5 DEF ChunkerInv
  <2>2. chunks[k].index = k - 1
    BY <2>1 DEF WindowChunk, MakeChunk
  <2>. QED
    BY <2>1, <2>2
<1>7. \A v \in records : \E k \in DOMAIN chunks :
          v = [ns |-> DocNamespace(payload[j].doc), id |-> chunks[k].index,
               value |-> [job |-> j, chunk |-> chunks[k]]]
  BY DEF ChunkRecords, Record
<1>8. \A k \in DOMAIN chunks : \E v \in records :
          v.ns = DocNamespace(payload[j].doc) /\ v.id = chunks[k].index
  <2>. SUFFICES ASSUME NEW k \in DOMAIN chunks
                PROVE  \E v \in records : v.ns = DocNamespace(payload[j].doc) /\ v.id = chunks[k].index
    OBVIOUS
  <2>. DEFINE v == Record(DocNamespace(payload[j].doc), chunks[k].index, [job |-> j, chunk |-> chunks[k]])
  <2>1. v \in records
    BY DEF ChunkRecords
  <2>2. v.ns = DocNamespace(payload[j].doc) /\ v.id = chunks[k].index
    BY DEF Record
  <2>. QED
    BY <2>1, <2>2
<1>9. q.kind = "upsert" /\ q.records = records /\ q = [kind |-> "upsert", records |-> records]
  BY DEF UpsertRequest
<1>10. pc \in {"put", "failed"} /\ pc \in RunPcs /\ (pc = "put" => ok)
  BY DEF After, RunPcs
<1>. HIDE DEF records, chunks, j, pc
<1>11. records \in SUBSET VectorRecord
  <2>. SUFFICES ASSUME NEW v \in records
                PROVE  v \in VectorRecord
    OBVIOUS
  <2>1. PICK k \in DOMAIN chunks :
          v = [ns |-> DocNamespace(payload[j].doc), id |-> chunks[k].index,
               value |-> [job |-> j, chunk |-> chunks[k]]]
    BY <1>7
  <2>2. chunks[k].index \in Nat /\ chunks[k] \in Chunk
    BY <1>6 DEF Chunk
  <2>. QED
    BY <2>1, <2>2, <1>2 DEF VectorRecord
<1>12. \A v \in records : VectorOK(v)
  <2>. SUFFICES ASSUME NEW v \in records
                PROVE  VectorOK(v)
    OBVIOUS
  <2>1. /\ v.value.chunk = WindowChunk(payload[v.value.job].call, v.id)
        /\ v.ns = DocNamespace(payload[j].doc)
    BY <1>6, <1>7
  <2>2. \A i : v.ns # JobNamespace(i)
    BY <2>1, Namespaces
  <2>. QED
    BY <2>1, <2>2 DEF VectorOK
<1>13. q \in Requests /\ RequestOK(q)
  BY <1>9, <1>11, <1>12 DEF Requests, RequestOK
<1>14. pc = "put" => \A k \in DOMAIN chunks : InIndex(payload[j].doc, chunks[k])'
  <2>. SUFFICES ASSUME ok, NEW k \in DOMAIN chunks
                PROVE  InIndex(payload[j].doc, chunks[k])'
    BY <1>10
  <2>1. records \subseteq vectors'
    BY <1>4, <1>9, <1>13, ExecuteKeeps DEF Send
  <2>2. \E v \in vectors' : v.ns = DocNamespace(payload[j].doc) /\ v.id = chunks[k].index
    BY <1>8, <2>1
  <2>3. runs'[r].chunker = runs[r].chunker
    BY <1>1, <1>2, <1>4 DEF RunTo, SetRun, RunRecord
  <2>4. chunks' = chunks /\ payload'[j'].doc = payload[j].doc
    BY <1>4, <2>3 DEF chunks, j
  <2>. QED
    BY <2>2, <2>4 DEF InIndex, DocNamespace
<1>. QED
  BY <1>1, <1>2, <1>4, <1>5, <1>10, <1>13, <1>14, SendKeeps DEF chunks, j

\* Writing the artifact.
LEMMA PutResultKeeps ==
    ASSUME PipelineInv, NEW r \in RunsOf(PipelineJobs), NEW ok \in BOOLEAN, PutResult(r, ok)
    PROVE  PipelineInv'
<1>1. /\ payload \in Workloads
      /\ runs \in [RunsOf(PipelineJobs) -> RunRecord]
      /\ found \in [PipelineJobs -> SUBSET Snippets]
  BY DEF PipelineInv, PipelineTypeOK
<1>2. r[1] \in PipelineJobs /\ runs[r] \in RunRecord /\ RunOK(r[1], runs[r])
  BY <1>1 DEF PipelineInv, RunsOf
<1>. DEFINE pc == After(ok, "done")
<1>. PICK q : q = PutRequest(r[1], Artifact(r))
  OBVIOUS
<1>3. /\ runs[r].pc = "put" /\ Send(q, ok) /\ RunTo(r, pc) /\ UNCHANGED <<payload, found>>
  BY DEF PutResult
<1>4. pc \in {"done", "failed"} /\ pc \in RunPcs
  BY DEF After, RunPcs
<1>5. /\ q.kind = "put" /\ q.job = r[1] /\ q.object = Artifact(r)
      /\ q = [kind |-> "put", job |-> r[1], object |-> Artifact(r)]
  BY DEF PutRequest
<1>. HIDE DEF pc
<1>8. Artifact(r) \in Artifacts /\ ObjectOK(r[1], Artifact(r))
  <2>1. CASE r[1] \in QueryJobs
    <3>1. Artifact(r) = [kind |-> "answer", context |-> {v.value : v \in runs[r].matches}]
      BY <2>1 DEF Artifact, Answer, QueryJobs
    <3>2. {v.value : v \in runs[r].matches} \subseteq found[r[1]]
      BY <2>1, <1>2 DEF RunOK, QueryRunOK
    <3>3. found[r[1]] \subseteq Snippets
      BY <1>1, <1>2
    <3>4. r[1] \notin DocumentJobs
      BY <2>1 DEF QueryJobs, DocumentJobs
    <3>. QED
      BY <2>1, <3>1, <3>2, <3>3, <3>4 DEF Artifacts, ObjectOK
  <2>2. CASE r[1] \in DocumentJobs
    <3>1. Artifact(r) = [kind |-> "manifest", chunks |-> runs[r].chunker.chunks]
      BY <2>2 DEF Artifact, Manifest, DocumentJobs
    <3>2. /\ runs[r].chunker \in Chunkers /\ runs[r].chunker.chunks \in Seq(Chunk)
          /\ ChunkerInv(runs[r].chunker) /\ runs[r].chunker.call = payload[r[1]].call
          /\ runs[r].chunker.pc = "done"
          /\ \A k \in DOMAIN runs[r].chunker.chunks :
                InIndex(payload[r[1]].doc, runs[r].chunker.chunks[k])
      BY <2>2, <1>2, <1>3 DEF RunRecord, Chunkers, RunOK, DocumentRunOK, DocumentPcs
    <3>3. ManifestOK(r[1], Artifact(r))
      BY <3>1, <3>2 DEF ManifestOK, ChunkerInv
    <3>4. r[1] \notin QueryJobs
      BY <2>2 DEF QueryJobs, DocumentJobs
    <3>. QED
      BY <3>1, <3>2, <3>3, <3>4 DEF Artifacts, ObjectOK
  <2>. QED
    BY <2>1, <2>2, <1>1, <1>2, JobKinds
<1>9. q \in Requests /\ RequestOK(q)
  BY <1>2, <1>5, <1>8 DEF Requests, RequestOK
<1>10. r[1] \in DocumentJobs => runs[r].chunker.call = payload[r[1]].call
  BY <1>2, <1>3 DEF RunOK, DocumentRunOK, DocumentPcs
<1>. QED
  BY <1>3, <1>4, <1>9, <1>10, SendKeeps

\* A write that is executed late, or again.
LEMMA LateWriteKeeps ==
    ASSUME PipelineInv, NEW q \in sent, LateWrite(q)
    PROVE  PipelineInv'
<1>1. /\ runs \in [RunsOf(PipelineJobs) -> RunRecord] /\ sent \in SUBSET Requests
      /\ found \in [PipelineJobs -> SUBSET Snippets] /\ payload \in Workloads
      /\ q \in Requests /\ RequestOK(q)
  BY DEF PipelineInv, PipelineTypeOK
<1>2. Execute(q) /\ UNCHANGED <<payload, runs, found, sent>>
  BY DEF LateWrite
<1>3. /\ vectors' \in SUBSET VectorRecord
      /\ \A v \in vectors' : v \in vectors \/ VectorOK(v)'
      /\ \A d, c : InIndex(d, c) => InIndex(d, c)'
      /\ objects' \in [PipelineJobs -> Artifacts]
      /\ \A j \in PipelineJobs : objects'[j] = objects[j] \/ ObjectOK(j, objects[j])'
  BY <1>1, <1>2, ExecuteKeeps
<1>. QED
  BY <1>1, <1>2, <1>3, Preservation

\* The invariant holds before any run begins.
LEMMA PipelineInitOK == PipelineInit => PipelineInv
<1>. SUFFICES ASSUME PipelineInit
              PROVE  PipelineInv
  OBVIOUS
<1>1. /\ payload \in Workloads /\ runs = [r \in RunsOf(PipelineJobs) |-> IdleRun]
      /\ vectors = {} /\ objects = [j \in PipelineJobs |-> NoObject]
      /\ found = [j \in PipelineJobs |-> {}] /\ sent = {}
  BY DEF PipelineInit
<1>2. NoChunker \in Chunkers /\ ChunkerInv(NoChunker)
  BY NoChunkerOK
<1>3. IdleRun = [pc |-> "idle", snippets |-> <<>>, matches |-> {}, chunker |-> NoChunker]
  BY DEF IdleRun
<1>4. IdleRun \in RunRecord /\ \A j \in PipelineJobs : RunOK(j, IdleRun)
  BY <1>2, <1>3 DEF RunRecord, RunPcs, RunOK, DocumentRunOK, QueryRunOK, DocumentPcs
<1>5. PipelineTypeOK
  BY <1>1, <1>4 DEF PipelineTypeOK, Artifacts
<1>6. \A r \in RunsOf(PipelineJobs) : r[1] \in PipelineJobs
  BY DEF RunsOf
<1>. QED
  BY <1>1, <1>4, <1>5, <1>6 DEF PipelineInv, ObjectOK

\* Every step of every run keeps it.
LEMMA PipelineStepOK == PipelineInv /\ [PipelineNext]_pipelineVars => PipelineInv'
<1>. SUFFICES ASSUME PipelineInv, [PipelineNext]_pipelineVars
              PROVE  PipelineInv'
  OBVIOUS
<1>1. CASE \E r \in RunsOf(QueryJobs) : QueryStep(r)
  BY <1>1, SearchKeeps, UpsertSnippetsKeeps, QueryKeeps DEF QueryStep
<1>2. CASE \E r \in RunsOf(DocumentJobs) : DocumentStep(r)
  BY <1>2, ChunkWindowKeeps, ChunkReturnKeeps, UpsertChunksKeeps DEF DocumentStep
<1>3. CASE \E r \in RunsOf(PipelineJobs) : BeginRun(r) \/ Compute(r) \/ RunFails(r)
  BY <1>3, BeginRunKeeps, ComputeKeeps, RunFailsKeeps
<1>4. CASE \E r \in RunsOf(PipelineJobs), ok \in BOOLEAN : PutResult(r, ok)
  BY <1>4, PutResultKeeps
<1>5. CASE \E q \in sent : LateWrite(q)
  BY <1>5, LateWriteKeeps
<1>6. CASE UNCHANGED pipelineVars
  <2>. USE <1>6 DEF pipelineVars
  <2>1. PipelineTypeOK'
    BY DEF PipelineInv, PipelineTypeOK, RunsOf, RunRecord, Artifacts, Requests, VectorRecord,
           Documents, PipelineJobs, QueryJobs, DocumentJobs, JobNamespace, DocNamespace
  <2>2. (\A r \in RunsOf(PipelineJobs) : RunOK(r[1], runs[r]))'
    BY DEF PipelineInv, RunsOf, RunOK, DocumentRunOK, QueryRunOK, InIndex, PipelineJobs,
           QueryJobs, DocumentJobs, DocNamespace
  <2>3. (\A v \in vectors : VectorOK(v))'
    BY DEF PipelineInv, VectorOK, Documents, PipelineJobs, QueryJobs, DocumentJobs,
           JobNamespace, DocNamespace
  <2>4. (\A j \in PipelineJobs : ObjectOK(j, objects[j]))'
    BY DEF PipelineInv, ObjectOK, ManifestOK, InIndex, PipelineJobs, QueryJobs, DocumentJobs,
           DocNamespace
  <2>5. (\A q \in sent : RequestOK(q))'
    <3>. SUFFICES ASSUME NEW q \in sent
                  PROVE  RequestOK(q)'
      OBVIOUS
    <3>1. RequestOK(q)
      BY DEF PipelineInv
    <3>2. q.kind = "upsert" => \A v \in q.records : VectorOK(v)'
      BY <3>1 DEF RequestOK, VectorOK, Documents, PipelineJobs, QueryJobs, DocumentJobs,
                  JobNamespace, DocNamespace
    <3>3. q.kind = "put" => ObjectOK(q.job, q.object)'
      BY <3>1 DEF RequestOK, ObjectOK, ManifestOK, InIndex, PipelineJobs, QueryJobs,
                  DocumentJobs, DocNamespace
    <3>. QED
      BY <3>2, <3>3 DEF RequestOK
  <2>. QED
    BY <2>1, <2>2, <2>3, <2>4, <2>5 DEF PipelineInv
<1>. QED
  BY <1>1, <1>2, <1>3, <1>4, <1>5, <1>6 DEF PipelineNext

\* The inductive invariant of the pipelines: whatever calls raise, with or without an
\* effect, and however runs overlap, every run, record and artifact is in order.
THEOREM PipelineInvariant == PipelineSpec => []PipelineInv
<1>. QED
  BY PipelineInitOK, PipelineStepOK, PTL DEF PipelineSpec

\* chunk_text, for every text, size and overlap: numbered windows inside the text,
\* neighbours that share exactly `overlap' characters, nothing left out at the end.
THEOREM ChunkingCorrect == PipelineSpec => []ChunkingOK
<1>1. PipelineInv => ChunkingOK
  <2>. SUFFICES ASSUME PipelineInv, NEW r \in DOMAIN runs
                PROVE  /\ ChunksFit(runs[r].chunker)
                       /\ ChunksAdvance(runs[r].chunker)
                       /\ ChunksCover(runs[r].chunker)
    BY DEF ChunkingOK
  <2>1. runs[r].chunker \in Chunkers /\ ChunkerInv(runs[r].chunker)
    BY DEF PipelineInv, PipelineTypeOK, RunRecord, RunOK
  <2>. QED
    BY <2>1, ChunkerCorrect
<1>. QED
  BY <1>1, PipelineInvariant, PTL

\* EmbedDocumentPipeline: no manifest lists a chunk that is not in the index, as this
\* job's runs make it unless another job of the same document replaced it.
THEOREM ManifestsAreIndexed == PipelineSpec => []ManifestIsIndexed
<1>1. PipelineInv => ManifestIsIndexed
  <2>. SUFFICES ASSUME PipelineInv, NEW j \in DocumentJobs, objects[j] # NoObject,
                       NEW k \in DOMAIN objects[j].chunks
                PROVE  Indexed(j, objects[j].chunks[k])
    BY DEF ManifestIsIndexed
  <2>. DEFINE c == objects[j].chunks[k]
  <2>1. /\ payload \in Workloads /\ j \in PipelineJobs /\ payload[j].doc \in Documents
        /\ ManifestOK(j, objects[j])
    BY DEF PipelineInv, PipelineTypeOK, DocumentJobs, Documents, ObjectOK
  <2>2. /\ c = WindowChunk(payload[j].call, k - 1) /\ InIndex(payload[j].doc, c)
    BY <2>1 DEF ManifestOK
  <2>3. c.index = k - 1
    BY <2>2 DEF WindowChunk, MakeChunk
  <2>. HIDE DEF c
  <2>4. PICK v \in vectors : v.ns = DocNamespace(payload[j].doc) /\ v.id = c.index
    BY <2>2 DEF InIndex
  <2>5. v.value.chunk = WindowChunk(payload[v.value.job].call, v.id)
    BY <2>1, <2>4 DEF PipelineInv, VectorOK
  <2>6. v.value.job = j => v.value.chunk = c
    BY <2>2, <2>3, <2>4, <2>5
  <2>. QED
    BY <2>4, <2>6 DEF Indexed, c
<1>. QED
  BY <1>1, PipelineInvariant, PTL

\* _result_key: whichever run wrote it, a manifest is the windows of its text, so that
\* processing a job again overwrites its artifact with the same one.
THEOREM ManifestsAreDeterministic == PipelineSpec => []ManifestIsDeterministic
<1>1. PipelineInv => ManifestIsDeterministic
  <2>. SUFFICES ASSUME PipelineInv, NEW j \in DocumentJobs, objects[j] # NoObject
                PROVE  {objects[j].chunks[k] : k \in DOMAIN objects[j].chunks}
                         = ReferenceChunks(payload[j].call)
    BY DEF ManifestIsDeterministic
  <2>1. /\ payload[j].call \in ChunkCall /\ ManifestOK(j, objects[j])
        /\ objects[j] \in Artifacts
    BY JobKinds DEF PipelineInv, PipelineTypeOK, DocumentJobs, ObjectOK
  <2>2. objects[j].chunks \in Seq(Chunk)
    BY <2>1 DEF Artifacts, ManifestOK, NoObject
  <2>3. DOMAIN objects[j].chunks = 1 .. Len(objects[j].chunks)
    BY <2>2
  <2>. QED
    BY <2>1, <2>2, <2>3, WindowsAreReference DEF ManifestOK
<1>. QED
  BY <1>1, PipelineInvariant, PTL

\* RagQueryPipeline: an answer's context comes from searches of its own job.
THEOREM AnswersAreGrounded == PipelineSpec => []GroundedInOwnSearch
<1>1. PipelineInv => GroundedInOwnSearch
  BY DEF PipelineInv, ObjectOK, GroundedInOwnSearch, QueryJobs
<1>. QED
  BY <1>1, PipelineInvariant, PTL
=============================================================================
