------------------------------- MODULE Pipelines -------------------------------
(***************************************************************************)
(* The two pipelines of services/pipelines.py against the vector store and *)
(* the object store.  A run is one call of Pipeline.run by the processor.  *)
(* A job may be run again after a failed run, and delivery is at least     *)
(* once, so runs of one job may also overlap.  A step is one port call and *)
(* the code up to the next.  A call that raises ends the run, and so does  *)
(* a worker that dies.  What was sent before may be executed all the same, *)
(* at once or long after, and again: PortContract is what a call promises. *)
(***************************************************************************)
EXTENDS Chunking, FiniteSets

CONSTANTS
    Workloads,      \* the jobs that may be there together, each with its payload
    Snippets,       \* texts the search provider may return
    MaxRuns         \* bound: runs of all jobs together

\* What the pipelines read from a job's payload. `valid' is whether the required
\* fields are strings and the optional ones integers; a document's text and its
\* chunk_size and chunk_overlap amount to a call of chunk_text.
QueryPayload(topK, valid) == [type |-> "rag_query", topK |-> topK, valid |-> valid]
DocumentPayload(doc, call, valid) ==
    [type |-> "embed_document", doc |-> doc, call |-> call, valid |-> valid]

ASSUME PipelinesAssumption ==
    /\ MaxRuns \in Nat \ {0}
    /\ \A w \in Workloads : \A j \in DOMAIN w :
           /\ w[j].type \in {"rag_query", "embed_document"}
           /\ w[j].type = "rag_query" => w[j].topK \in Nat
           /\ w[j].type = "embed_document" => w[j].call \in ChunkCall

VARIABLES
    payload,        \* per job: its payload, never written
    runs,           \* per run: where it is and what it holds
    vectors,        \* the vector store, a set of records
    objects,        \* per job: the artifact under its result key
    found,          \* per job: every snippet a search of it returned
    sent            \* the writes that were sent to the two stores, by any try of any run

pipelineVars == <<payload, runs, vectors, objects, found, sent>>

PipelineJobs == DOMAIN payload
QueryJobs == {j \in PipelineJobs : payload[j].type = "rag_query"}
DocumentJobs == {j \in PipelineJobs : payload[j].type = "embed_document"}
RunsOf(jobs) == jobs \X (1 .. MaxRuns)

-----------------------------------------------------------------------------
\* pc of a run:
\*   search, embedSnippets, upsertSnippets, embedQuery, query, complete, put
\*   chunk, embedChunks, upsertChunks, put
\* and idle before, done after a returned reference, failed after an exception.
RunPcs == {"idle", "search", "embedSnippets", "upsertSnippets", "embedQuery", "query",
           "complete", "chunk", "embedChunks", "upsertChunks", "put", "done", "failed"}

\* `snippets' and `matches' are a query's, `chunker' is a document's.
NoChunker == Chunker([length |-> 0, size |-> 1, overlap |-> 0], "done", 0, 0, <<>>)

IdleRun == [pc |-> "idle", snippets |-> <<>>, matches |-> {}, chunker |-> NoChunker]

\* SearchProvider.search: at most max_results snippets, in some order.
SearchResults(topK) == UNION {[1 .. n -> Snippets] : n \in 0 .. (2 * topK)}

\* Wrong: one namespace for all queries.
SharedNamespace(j) == <<"job">>

JobNamespace(j) == <<"job", j>>
DocNamespace(d) == <<"doc", d>>

\* A record of the vector store. The vector is a function of what was embedded, so
\* `value' stands for the vector and the metadata.
Record(ns, id, value) == [ns |-> ns, id |-> id, value |-> value]

SnippetRecords(j, snippets) ==
    {Record(JobNamespace(j), i, snippets[i]) : i \in DOMAIN snippets}

ChunkRecords(j, chunks) ==
    {Record(DocNamespace(payload[j].doc), chunks[k].index, [job |-> j, chunk |-> chunks[k]]) :
        k \in DOMAIN chunks}

\* VectorStore.upsert: a record replaces the one with its id in its namespace.
Upsert(records) ==
    vectors' = {v \in vectors : \A r \in records : r.ns # v.ns \/ r.id # v.id} \cup records

\* VectorStore.query: the nearest records of a namespace, at most top_k. Which ones
\* are nearest, and whether the latest are visible yet, is the store's business.
Matches(ns, topK) ==
    {M \in SUBSET {v \in vectors : v.ns = ns} : Cardinality(M) <= topK}

\* The artifacts, under a key made of the job's type and id alone.
NoObject == [kind |-> "none"]
Answer(matches) == [kind |-> "answer", context |-> {v.value : v \in matches}]
Manifest(chunks) == [kind |-> "manifest", chunks |-> chunks]

-----------------------------------------------------------------------------
\* The writes.
UpsertRequest(records) == [kind |-> "upsert", records |-> records]
PutRequest(j, object) == [kind |-> "put", job |-> j, object |-> object]

Execute(q) ==
    \/ q.kind = "upsert" /\ Upsert(q.records) /\ UNCHANGED objects
    \/ q.kind = "put" /\ objects' = [objects EXCEPT ![q.job] = q.object] /\ UNCHANGED vectors

\* Wrong: the write is not awaited.
SendAndForget(q, ok) == sent' = sent \cup {q} /\ UNCHANGED <<vectors, objects>>

\* A call that returns was executed; of one that raises only the request is left.
Send(q, ok) ==
    /\ sent' = sent \cup {q}
    /\ IF ok THEN Execute(q) ELSE UNCHANGED <<vectors, objects>>

SetRun(r, run) == runs' = [runs EXCEPT ![r] = run]
RunTo(r, pc) == SetRun(r, [runs[r] EXCEPT !.pc = pc])

\* A write returns or raises.
After(ok, pc) == IF ok THEN pc ELSE "failed"

\* What run does before its first await.
Begun(p) ==
    CASE ~p.valid                              -> [IdleRun EXCEPT !.pc = "failed"]
      [] p.valid /\ p.type = "rag_query"       -> [IdleRun EXCEPT !.pc = "search"]
      [] p.valid /\ p.type = "embed_document"  -> [IdleRun EXCEPT !.pc = "chunk",
                                                       !.chunker = NewChunker(p.call)]

\* The processor looks the pipeline up and calls run, for the first time or again.
BeginRun(r) ==
    /\ runs[r].pc = "idle"
    /\ r[2] > 1 => runs[<<r[1], r[2] - 1>>].pc # "idle"
    /\ Cardinality({x \in DOMAIN runs : runs[x].pc # "idle"}) < MaxRuns
    /\ SetRun(r, Begun(payload[r[1]]))
    /\ UNCHANGED <<payload, vectors, objects, found, sent>>

Search(r, results) ==
    /\ runs[r].pc = "search"
    /\ SetRun(r, [runs[r] EXCEPT !.snippets = results,
                                 !.pc = IF results = <<>> THEN "embedQuery" ELSE "embedSnippets"])
    /\ found' = [found EXCEPT ![r[1]] = @ \cup {results[i] : i \in DOMAIN results}]
    /\ UNCHANGED <<payload, vectors, objects, sent>>

UpsertSnippets(r, ok) ==
    /\ runs[r].pc = "upsertSnippets"
    /\ Send(UpsertRequest(SnippetRecords(r[1], runs[r].snippets)), ok)
    /\ RunTo(r, After(ok, "embedQuery"))
    /\ UNCHANGED <<payload, found>>

\* EmbeddingProvider.embed and LLMProvider.complete have no effect of their own.
AfterCompute(run) ==
    CASE run.pc = "embedSnippets" -> "upsertSnippets"
      [] run.pc = "embedQuery"    -> IF run.snippets = <<>> THEN "complete" ELSE "query"
      [] run.pc = "complete"      -> "put"
      [] run.pc = "embedChunks"   -> "upsertChunks"

Compute(r) ==
    /\ runs[r].pc \in {"embedSnippets", "embedQuery", "complete", "embedChunks"}
    /\ RunTo(r, AfterCompute(runs[r]))
    /\ UNCHANGED <<payload, vectors, objects, found, sent>>

Query(r, M) ==
    /\ runs[r].pc = "query"
    /\ SetRun(r, [runs[r] EXCEPT !.matches = M, !.pc = "complete"])
    /\ UNCHANGED <<payload, vectors, objects, found, sent>>

\* One window of chunk_text.
ChunkWindow(r) ==
    /\ runs[r].pc = "chunk"
    /\ runs[r].chunker.pc = "loop"
    /\ SetRun(r, [runs[r] EXCEPT !.chunker = Window(@)])
    /\ UNCHANGED <<payload, vectors, objects, found, sent>>

\* Wrong: the manifest is written before the chunks are indexed.
AfterChunkingManifestFirst(c) == IF c.pc = "error" THEN "failed" ELSE "put"

\* Where chunk_text's return, or its ValueError, takes the run.
AfterChunking(c) ==
    CASE c.pc = "error"                      -> "failed"
      [] c.pc = "done" /\ c.chunks = <<>>    -> "put"
      [] OTHER                               -> "embedChunks"

ChunkReturn(r) ==
    /\ runs[r].pc = "chunk"
    /\ runs[r].chunker.pc # "loop"
    /\ RunTo(r, AfterChunking(runs[r].chunker))
    /\ UNCHANGED <<payload, vectors, objects, found, sent>>

UpsertChunks(r, ok) ==
    /\ runs[r].pc = "upsertChunks"
    /\ Send(UpsertRequest(ChunkRecords(r[1], runs[r].chunker.chunks)), ok)
    /\ RunTo(r, After(ok, "put"))
    /\ UNCHANGED <<payload, found>>

Artifact(r) ==
    IF payload[r[1]].type = "rag_query"
    THEN Answer(runs[r].matches)
    ELSE Manifest(runs[r].chunker.chunks)

PutResult(r, ok) ==
    /\ runs[r].pc = "put"
    /\ Send(PutRequest(r[1], Artifact(r)), ok)
    /\ RunTo(r, After(ok, "done"))
    /\ UNCHANGED <<payload, found>>

\* A write is executed late, or for another of its tries.
LateWrite(q) == Execute(q) /\ UNCHANGED <<payload, runs, found, sent>>

\* The awaited call raises and nothing was sent, or the worker dies.
RunFails(r) ==
    /\ runs[r].pc \notin {"idle", "done", "failed"}
    /\ RunTo(r, "failed")
    /\ UNCHANGED <<payload, vectors, objects, found, sent>>

\* RagQueryPipeline.run
QueryStep(r) ==
    \/ \E results \in SearchResults(payload[r[1]].topK) : Search(r, results)
    \/ \E ok \in BOOLEAN : UpsertSnippets(r, ok)
    \/ \E M \in Matches(JobNamespace(r[1]), payload[r[1]].topK) : Query(r, M)

\* EmbedDocumentPipeline.run
DocumentStep(r) ==
    \/ ChunkWindow(r)
    \/ ChunkReturn(r)
    \/ \E ok \in BOOLEAN : UpsertChunks(r, ok)

PipelineInit ==
    /\ payload \in Workloads
    /\ runs = [r \in RunsOf(PipelineJobs) |-> IdleRun]
    /\ vectors = {}
    /\ objects = [j \in PipelineJobs |-> NoObject]
    /\ found = [j \in PipelineJobs |-> {}]
    /\ sent = {}

PipelineNext ==
    \/ \E r \in RunsOf(QueryJobs) : QueryStep(r)
    \/ \E r \in RunsOf(DocumentJobs) : DocumentStep(r)
    \/ \E r \in RunsOf(PipelineJobs) : BeginRun(r) \/ Compute(r) \/ RunFails(r)
    \/ \E r \in RunsOf(PipelineJobs), ok \in BOOLEAN : PutResult(r, ok)
    \/ \E q \in sent : LateWrite(q)

PipelineSpec == PipelineInit /\ [][PipelineNext]_pipelineVars

-----------------------------------------------------------------------------
(* Types.                                                                   *)

Documents == {payload[j].doc : j \in DocumentJobs}
VectorRecord ==
    [ns : {JobNamespace(j) : j \in QueryJobs}, id : Nat, value : Snippets]
    \cup [ns : {DocNamespace(d) : d \in Documents}, id : Nat, value : [job : DocumentJobs, chunk : Chunk]]

RunRecord ==
    [pc : RunPcs, snippets : Seq(Snippets), matches : SUBSET VectorRecord, chunker : Chunkers]
Artifacts ==
    {NoObject} \cup [kind : {"answer"}, context : SUBSET Snippets]
              \cup [kind : {"manifest"}, chunks : Seq(Chunk)]
Requests ==
    [kind : {"upsert"}, records : SUBSET VectorRecord]
    \cup [kind : {"put"}, job : PipelineJobs, object : Artifacts]

\* Type correctness of the pipelines, their stores and chunk_text's call in progress.
PipelineTypeOK ==
    /\ payload \in Workloads
    /\ runs \in [RunsOf(PipelineJobs) -> RunRecord]
    /\ vectors \in SUBSET VectorRecord
    /\ objects \in [PipelineJobs -> Artifacts]
    /\ found \in [PipelineJobs -> SUBSET Snippets]
    /\ sent \in SUBSET Requests

-----------------------------------------------------------------------------
(* Properties.                                                             *)

\* chunk_text, in every run: numbered windows within the text, neighbours that
\* share exactly `overlap' characters, each window bringing new ones (so that the
\* loop ends), and nothing left out at the end.
ChunkingOK ==
    \A r \in DOMAIN runs : LET c == runs[r].chunker
                           IN  ChunksFit(c) /\ ChunksAdvance(c) /\ ChunksCover(c)

\* Chunk c of job j is in the index: as j's runs make it, unless another job that
\* names the same document has replaced it.
Indexed(j, c) ==
    \E v \in vectors : /\ v.ns = DocNamespace(payload[j].doc)
                       /\ v.id = c.index
                       /\ v.value.job = j => v.value.chunk = c

\* Whatever fails, however runs of one or of two jobs overlap and however late a write
\* is executed, a manifest never lists a chunk that is not in the index:
\* EmbedDocumentPipeline.run upserts before it writes the artifact, and nothing takes a
\* chunk out of the index again.
ManifestIsIndexed ==
    \A j \in DocumentJobs : objects[j] # NoObject =>
        \A k \in DOMAIN objects[j].chunks : Indexed(j, objects[j].chunks[k])

\* _result_key: "re-processing the same job overwrites rather than duplicating". The
\* manifest is the same whichever run wrote it: the windows of the text, no more.
ManifestIsDeterministic ==
    \A j \in DocumentJobs : objects[j] # NoObject =>
        {objects[j].chunks[k] : k \in DOMAIN objects[j].chunks} = ReferenceChunks(payload[j].call)

\* RagQueryPipeline.run: an answer is grounded in what searches of this very job
\* found, in this run or in an earlier one, never in another job's snippets.
GroundedInOwnSearch ==
    \A j \in QueryJobs : objects[j] # NoObject => objects[j].context \subseteq found[j]

-----------------------------------------------------------------------------
(* The inductive invariant of PipelineProofs.                              *)

DocumentPcs == {"idle", "chunk", "embedChunks", "upsertChunks", "put", "done", "failed"}

InIndex(d, c) == \E v \in vectors : v.ns = DocNamespace(d) /\ v.id = c.index

\* A document's run chunks that document, to the end before it goes on, and has all of
\* its chunks in the index before it writes its manifest.
DocumentRunOK(j, run) ==
    /\ run.pc \in DocumentPcs
    /\ run.pc \in DocumentPcs \ {"idle", "failed"} => run.chunker.call = payload[j].call
    /\ run.pc \in {"embedChunks", "upsertChunks", "put"} => run.chunker.pc = "done"
    /\ run.pc = "put" => \A k \in DOMAIN run.chunker.chunks :
                           InIndex(payload[j].doc, run.chunker.chunks[k])

\* The snippets a query's run holds or retrieved were found for its job.
QueryRunOK(j, run) ==
    /\ \A i \in DOMAIN run.snippets : run.snippets[i] \in found[j]
    /\ \A v \in run.matches : v.value \in found[j]

RunOK(j, run) ==
    /\ ChunkerInv(run.chunker)
    /\ j \in DocumentJobs => DocumentRunOK(j, run)
    /\ j \in QueryJobs => QueryRunOK(j, run)

\* The store holds windows of documents, and snippets found for the job they are kept for.
VectorOK(v) ==
    /\ \A d \in Documents : v.ns = DocNamespace(d) =>
          v.value.chunk = WindowChunk(payload[v.value.job].call, v.id)
    /\ \A j \in QueryJobs : v.ns = JobNamespace(j) => v.value \in found[j]

\* A manifest lists the windows of its text in order, all of them, and all in the index.
ManifestOK(j, object) ==
    /\ object.kind = "manifest"
    /\ ValidCall(payload[j].call)
    /\ ~IsWindow(payload[j].call, Len(object.chunks))
    /\ \A k \in DOMAIN object.chunks : /\ object.chunks[k] = WindowChunk(payload[j].call, k - 1)
                                       /\ IsWindow(payload[j].call, k - 1)
                                       /\ InIndex(payload[j].doc, object.chunks[k])

ObjectOK(j, object) ==
    object # NoObject =>
        /\ j \in DocumentJobs => ManifestOK(j, object)
        /\ j \in QueryJobs => object.kind = "answer" /\ object.context \subseteq found[j]

\* What was sent may be executed at any time.
RequestOK(q) ==
    /\ q.kind = "upsert" => \A v \in q.records : VectorOK(v)
    /\ q.kind = "put" => ObjectOK(q.job, q.object)

PipelineInv ==
    /\ PipelineTypeOK
    /\ \A r \in RunsOf(PipelineJobs) : RunOK(r[1], runs[r])
    /\ \A v \in vectors : VectorOK(v)
    /\ \A j \in PipelineJobs : ObjectOK(j, objects[j])
    /\ \A q \in sent : RequestOK(q)
=============================================================================
