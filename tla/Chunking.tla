------------------------------- MODULE Chunking -------------------------------
(***************************************************************************)
(* chunk_text (domain/chunking.py): overlapping windows over a stripped    *)
(* text.  Characters are positions in what strip() leaves, and a text is   *)
(* its length.  A chunker is a call in progress, and Window one iteration  *)
(* of its while loop.                                                      *)
(***************************************************************************)
EXTENDS Integers, Sequences

\* A call: `length' is that of the stripped text.
ChunkCall == [length : Nat, size : Int, overlap : Int]

\* A chunk's text is what is between its offsets.
MakeChunk(index, start, end) == [index |-> index, start |-> start, end |-> end]

Chunk == [index : Nat, start : Nat, end : Nat]

Chunker(call, pc, start, index, chunks) ==
    [call |-> call, pc |-> pc, start |-> start, index |-> index, chunks |-> chunks]

Chunkers == [call : ChunkCall, pc : {"loop", "done", "error"}, start : Nat, index : Nat,
             chunks : Seq(Chunk)]

\* The two ValueErrors.
ValidCall(call) == call.size > 0 /\ 0 <= call.overlap /\ call.overlap < call.size

\* chunk_text up to the loop.
NewChunker(call) ==
    Chunker(call,
            CASE ~ValidCall(call)                     -> "error"
              [] ValidCall(call) /\ call.length = 0   -> "done"
              [] OTHER                                -> "loop",
            0, 0, <<>>)

WindowEnd(call, start) == IF start + call.size < call.length THEN start + call.size ELSE call.length

\* Wrong: neighbours share one character less.
StrideTooLong(call) == call.size - call.overlap + 1

Stride(call) == call.size - call.overlap

\* Wrong: the loop goes on after the tail.
NeverTail(call, end) == FALSE

IsTail(call, end) == end = call.length

\* The body of the loop and the test of its condition.
Window(c) ==
    LET end   == WindowEnd(c.call, c.start)
        next  == c.start + Stride(c.call)
        grown == Append(c.chunks, MakeChunk(c.index, c.start, end))
    IN  IF IsTail(c.call, end)
        THEN Chunker(c.call, "done", c.start, c.index, grown)
        ELSE Chunker(c.call, IF next < c.call.length THEN "loop" ELSE "done",
                     next, c.index + 1, grown)

-----------------------------------------------------------------------------
(* What the windows are, without the loop.                                 *)

WindowStart(call, k) == k * Stride(call)

WindowChunk(call, k) == MakeChunk(k, WindowStart(call, k), WindowEnd(call, WindowStart(call, k)))

\* There is a k-th window when the one before it leaves something over.
IsWindow(call, k) ==
    IF k = 0 THEN call.length > 0 ELSE WindowStart(call, k - 1) + call.size < call.length

ReferenceChunks(call) ==
    {WindowChunk(call, k) : k \in {n \in 0 .. call.length : IsWindow(call, n)}}

-----------------------------------------------------------------------------
(* Properties of a chunker.                                                *)

\* Every character of the stripped text up to `bound' is in a chunk.
CoveredUpTo(c, bound) ==
    \A p \in 0 .. (bound - 1) :
        \E k \in 1 .. Len(c.chunks) : c.chunks[k].start <= p /\ p < c.chunks[k].end

\* Chunks are windows of the text, numbered in order.
ChunksFit(c) ==
    \A k \in 1 .. Len(c.chunks) :
        /\ c.chunks[k].index = k - 1
        /\ c.chunks[k].start < c.chunks[k].end
        /\ c.chunks[k].end <= c.call.length
        /\ c.chunks[k].end - c.chunks[k].start <= c.call.size

\* Neighbours share exactly `overlap' characters, and each window brings new ones.
ChunksAdvance(c) ==
    \A k \in 1 .. (Len(c.chunks) - 1) :
        /\ c.chunks[k + 1].start = c.chunks[k].end - c.call.overlap
        /\ c.chunks[k].end < c.chunks[k + 1].end

\* The loop ends with the whole text covered.
ChunksCover(c) == c.pc = "done" => CoveredUpTo(c, c.call.length)

\* What the loop keeps: the chunks so far are the first windows, they cover the text
\* to the end of the last one, and `start' and `index' are those of the next.
ChunkerInv(c) ==
    /\ c.pc # "error" => ValidCall(c.call)
    /\ c.pc = "error" => c.chunks = <<>>
    /\ \A k \in 1 .. Len(c.chunks) : /\ c.chunks[k] = WindowChunk(c.call, k - 1)
                                     /\ WindowStart(c.call, k - 1) < c.call.length
                                     /\ IsWindow(c.call, k - 1)
    /\ CoveredUpTo(c, IF c.chunks = <<>> THEN 0 ELSE c.chunks[Len(c.chunks)].end)
    /\ c.pc = "loop" => /\ c.index = Len(c.chunks)
                        /\ c.start = WindowStart(c.call, c.index)
                        /\ c.start < c.call.length
                        /\ IsWindow(c.call, c.index)
    /\ c.pc = "done" => ~IsWindow(c.call, Len(c.chunks))
=============================================================================
