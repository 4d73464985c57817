---------------------------- MODULE ChunkingProofs ----------------------------
(* What chunk_text's loop keeps, for every text, size and overlap.          *)
EXTENDS Chunking, TLAPS

\* A legal call has a positive stride, and its windows are a stride apart.
LEMMA StrideFacts ==
    ASSUME NEW call \in ChunkCall, ValidCall(call)
    PROVE  /\ Stride(call) \in Nat
           /\ Stride(call) > 0
           /\ Stride(call) = call.size - call.overlap
           /\ WindowStart(call, 0) = 0
           /\ \A k \in Nat : /\ WindowStart(call, k) \in Nat
                             /\ WindowStart(call, k + 1) = WindowStart(call, k) + Stride(call)
<1>1. Stride(call) \in Nat /\ Stride(call) > 0 /\ Stride(call) = call.size - call.overlap
  BY DEF ChunkCall, ValidCall, Stride
<1>2. \A s \in Nat, k \in Nat : k * s \in Nat /\ (k + 1) * s = k * s + s /\ 0 * s = 0
  OBVIOUS
<1>. QED
  BY <1>1, <1>2 DEF WindowStart

\* Windows do not move backwards, and the k-th one starts at k or later.
LEMMA WindowOrder ==
    ASSUME NEW call \in ChunkCall, ValidCall(call), NEW k \in Nat, NEW n \in Nat
    PROVE  /\ k <= WindowStart(call, k)
           /\ k <= n => WindowStart(call, k) <= WindowStart(call, n)
<1>1. Stride(call) \in Nat /\ Stride(call) > 0
  BY StrideFacts
<1>2. \A s \in Nat : s > 0 => k <= k * s
  <2>. TAKE s \in Nat
  <2>1. s > 0 => s - 1 \in Nat /\ k * s = k * (s - 1) + k
    OBVIOUS
  <2>2. s > 0 => k * (s - 1) \in Nat
    BY <2>1
  <2>. QED
    BY <2>1, <2>2
<1>3. \A s \in Nat : k <= n => k * s <= n * s
  <2>. TAKE s \in Nat
  <2>1. k <= n => n - k \in Nat /\ n * s = k * s + (n - k) * s
    OBVIOUS
  <2>2. k <= n => (n - k) * s \in Nat
    BY <2>1
  <2>. QED
    BY <2>1, <2>2
<1>. QED
  BY <1>1, <1>2, <1>3 DEF WindowStart

\* The end of a window.
LEMMA WindowEndFacts ==
    ASSUME NEW call \in ChunkCall, ValidCall(call), NEW start \in Nat, start < call.length
    PROVE  /\ WindowEnd(call, start) \in Nat
           /\ start < WindowEnd(call, start)
           /\ WindowEnd(call, start) <= call.length
           /\ WindowEnd(call, start) <= start + call.size
           /\ start + call.size < call.length => WindowEnd(call, start) = start + call.size
           /\ ~(start + call.size < call.length) => WindowEnd(call, start) = call.length
  BY DEF ChunkCall, ValidCall, WindowEnd

\* chunk_text up to its loop establishes the invariant.
LEMMA NewChunkerOK ==
    ASSUME NEW call \in ChunkCall
    PROVE  NewChunker(call) \in Chunkers /\ ChunkerInv(NewChunker(call)) /\ NewChunker(call).call = call
<1>. DEFINE c == NewChunker(call)
<1>1. c \in Chunkers /\ c.call = call /\ c.chunks = <<>> /\ c.index = 0 /\ c.start = 0
  BY DEF NewChunker, Chunker, Chunkers
<1>2. /\ c.pc = "error" <=> ~ValidCall(call)
      /\ c.pc = "loop" => call.length > 0
      /\ c.pc = "done" => call.length = 0
  BY DEF NewChunker, Chunker, ChunkCall
<1>3. c.pc = "loop" => WindowStart(call, 0) = 0
  BY <1>2, StrideFacts
<1>4. CoveredUpTo(c, 0)
  BY <1>1 DEF CoveredUpTo
<1>5. Len(<<>>) = 0
  OBVIOUS
<1>. HIDE DEF c
<1>6. ChunkerInv(c)
  BY <1>1, <1>2, <1>3, <1>4, <1>5 DEF ChunkerInv, IsWindow, ChunkCall
<1>. QED
  BY <1>1, <1>6 DEF c

\* One iteration of the loop keeps it.
LEMMA WindowKeeps ==
    ASSUME NEW c \in Chunkers, ChunkerInv(c), c.pc = "loop"
    PROVE  Window(c) \in Chunkers /\ ChunkerInv(Window(c)) /\ Window(c).call = c.call
<1>. DEFINE call == c.call
            n == Len(c.chunks)
            end == WindowEnd(call, c.start)
            new == MakeChunk(c.index, c.start, end)
            w == Window(c)
<1>1. /\ call \in ChunkCall /\ ValidCall(call) /\ n \in Nat /\ c.chunks \in Seq(Chunk)
      /\ c.index = n /\ c.start \in Nat /\ c.start = WindowStart(call, n)
      /\ c.start < call.length /\ IsWindow(call, n) /\ call.length \in Nat /\ call.size \in Int
  BY DEF Chunkers, ChunkerInv, ChunkCall
<1>2. /\ end \in Nat /\ c.start < end /\ end <= call.length
      /\ c.start + call.size < call.length => end = c.start + call.size
      /\ ~(c.start + call.size < call.length) => end = call.length
  BY <1>1, WindowEndFacts
<1>3. new \in Chunk /\ new = WindowChunk(call, n) /\ new.end = end /\ new.start = c.start
  <2>1. new = [index |-> n, start |-> c.start, end |-> end]
    BY <1>1 DEF MakeChunk
  <2>2. new = WindowChunk(call, n)
    BY <1>1 DEF WindowChunk
  <2>. HIDE DEF new, end, n, call
  <2>. QED
    BY <2>1, <2>2, <1>1, <1>2 DEF Chunk
<1>4. /\ WindowStart(call, n + 1) = c.start + Stride(call)
      /\ Stride(call) \in Nat /\ Stride(call) = call.size - call.overlap
      /\ call.overlap \in Nat
  BY <1>1, StrideFacts DEF ValidCall, ChunkCall
<1>5. /\ w.call = call /\ w.chunks = Append(c.chunks, new)
      /\ w.pc \in {"loop", "done"}
      /\ w.pc = "done" => end = call.length
      /\ w.pc = "loop" => end # call.length /\ w.index = n + 1 /\ w.start = WindowStart(call, n + 1)
      /\ w \in Chunkers
  <2>1. CASE end = call.length
    BY <2>1, <1>1, <1>2, <1>3 DEF Window, Chunker, Chunkers, IsTail
  <2>2. CASE end # call.length
    <3>1. c.start + Stride(call) < call.length /\ c.start + Stride(call) \in Nat
      BY <2>2, <1>1, <1>2, <1>4
    <3>2. w = Chunker(call, "loop", c.start + Stride(call), c.index + 1, Append(c.chunks, new))
      BY <2>2, <3>1 DEF Window, IsTail
    <3>. QED
      BY <2>2, <3>1, <3>2, <1>1, <1>3, <1>4 DEF Chunker, Chunkers
  <2>. QED
    BY <2>1, <2>2
<1>. HIDE DEF w, new, end
<1>6. /\ Len(w.chunks) = n + 1 /\ w.chunks[n + 1] = new /\ w.chunks # <<>>
      /\ \A k \in 1 .. n : w.chunks[k] = c.chunks[k]
  <2>. HIDE DEF call
  <2>1. c.chunks \in Seq(Chunk) /\ new \in Chunk /\ w.chunks = Append(c.chunks, new)
    BY <1>1, <1>3, <1>5
  <2>. QED
    BY <2>1
<1>7. \A k \in 1 .. Len(w.chunks) : /\ w.chunks[k] = WindowChunk(w.call, k - 1)
                                    /\ WindowStart(w.call, k - 1) < w.call.length
                                    /\ IsWindow(w.call, k - 1)
  <2>. SUFFICES ASSUME NEW k \in 1 .. (n + 1)
                PROVE  /\ w.chunks[k] = WindowChunk(call, k - 1)
                       /\ WindowStart(call, k - 1) < call.length
                       /\ IsWindow(call, k - 1)
    BY <1>5, <1>6
  <2>1. CASE k \in 1 .. n
    BY <2>1, <1>1, <1>6 DEF ChunkerInv
  <2>2. CASE k = n + 1
    BY <2>2, <1>1, <1>3, <1>6
  <2>. QED
    BY <2>1, <2>2, <1>1
<1>8. CoveredUpTo(w, end)
  <2>. SUFFICES ASSUME NEW p \in 0 .. (end - 1)
                PROVE  \E k \in 1 .. Len(w.chunks) : w.chunks[k].start <= p /\ p < w.chunks[k].end
    BY DEF CoveredUpTo
  <2>1. CASE c.start <= p
    <3>1. n + 1 \in 1 .. Len(w.chunks)
      BY <1>1, <1>6
    <3>2. w.chunks[n + 1].start <= p /\ p < w.chunks[n + 1].end
      <4>. HIDE DEF n, call
      <4>. QED
        BY <2>1, <1>2, <1>3, <1>6
    <3>. QED
      BY <3>1, <3>2
  <2>2. CASE p < c.start
    <3>1. n # 0
      <4>1. WindowStart(call, 0) = 0
        BY <1>1, StrideFacts
      <4>. HIDE DEF n, call
      <4>. QED
        BY <4>1, <2>2, <1>1
    <3>2. /\ c.chunks # <<>> /\ n \in 1 .. n
          /\ c.chunks[n] = WindowChunk(call, n - 1) /\ WindowStart(call, n - 1) < call.length
          /\ WindowStart(call, n - 1) + call.size < call.length
      BY <3>1, <1>1 DEF ChunkerInv, IsWindow
    <3>3. c.start = WindowStart(call, n - 1) + Stride(call) /\ WindowStart(call, n - 1) \in Nat
      <4>1. n - 1 \in Nat /\ (n - 1) + 1 = n
        BY <3>1, <1>1
      <4>. QED
        BY <4>1, <1>1, StrideFacts
    <3>4. c.chunks[n].end = WindowStart(call, n - 1) + call.size
      BY <3>2, <3>3, <1>1, WindowEndFacts DEF WindowChunk, MakeChunk
    <3>5. p \in 0 .. (c.chunks[n].end - 1)
      <4>1. p \in Nat
        BY <1>2
      <4>2. c.start <= WindowStart(call, n - 1) + call.size
        <5>. HIDE DEF n, call
        <5>. QED
          BY <3>3, <1>1, <1>4
      <4>. HIDE DEF n, call
      <4>. QED
        BY <4>1, <4>2, <2>2, <3>3, <3>4, <1>1
    <3>6. PICK k \in 1 .. n : c.chunks[k].start <= p /\ p < c.chunks[k].end
      BY <3>2, <3>5 DEF ChunkerInv, CoveredUpTo
    <3>7. k \in 1 .. Len(w.chunks) /\ w.chunks[k] = c.chunks[k]
      <4>. HIDE DEF n
      <4>. QED
        BY <1>1, <1>6
    <3>. QED
      BY <3>6, <3>7
  <2>. QED
    BY <2>1, <2>2, <1>1, <1>2
<1>9. w.pc = "loop" => /\ w.start < w.call.length
                       /\ IsWindow(w.call, n + 1)
  BY <1>1, <1>2, <1>4, <1>5 DEF IsWindow
<1>10. w.pc = "done" => ~IsWindow(w.call, n + 1)
  BY <1>1, <1>2, <1>5 DEF IsWindow
<1>. HIDE DEF n, call
<1>11. ChunkerInv(w)
  BY <1>1, <1>3, <1>5, <1>6, <1>7, <1>8, <1>9, <1>10 DEF ChunkerInv
<1>. QED
  BY <1>5, <1>11 DEF w, call

\* What follows: numbered windows within the text, neighbours that share exactly
\* `overlap' characters and advance, and everything covered when the loop ends.
LEMMA ChunkerCorrect ==
    ASSUME NEW c \in Chunkers, ChunkerInv(c)
    PROVE  ChunksFit(c) /\ ChunksAdvance(c) /\ ChunksCover(c)
<1>. DEFINE call == c.call
            n == Len(c.chunks)
<1>1. /\ call \in ChunkCall /\ n \in Nat /\ c.chunks \in Seq(Chunk)
      /\ call.length \in Nat /\ call.size \in Int /\ call.overlap \in Int
      /\ n > 0 => ValidCall(call)
  BY DEF Chunkers, ChunkerInv, ChunkCall
<1>2. ASSUME NEW k \in 1 .. n
      PROVE  /\ c.chunks[k].index = k - 1
             /\ c.chunks[k].start = WindowStart(call, k - 1)
             /\ c.chunks[k].end = WindowEnd(call, WindowStart(call, k - 1))
             /\ WindowStart(call, k - 1) \in Nat
             /\ WindowStart(call, k - 1) < call.length
             /\ IsWindow(call, k - 1)
             /\ ValidCall(call)
  <2>1. ValidCall(call) /\ k - 1 \in Nat
    BY <1>1
  <2>. QED
    <3>1. c.chunks[k] = WindowChunk(call, k - 1) /\ WindowStart(call, k - 1) < call.length
          /\ IsWindow(call, k - 1)
      BY DEF ChunkerInv
    <3>2. WindowStart(call, k - 1) \in Nat
      BY <2>1, <1>1, StrideFacts
    <3>. QED
      BY <2>1, <3>1, <3>2 DEF WindowChunk, MakeChunk
<1>3. ChunksFit(c)
  <2>. SUFFICES ASSUME NEW k \in 1 .. n
                PROVE  /\ c.chunks[k].index = k - 1
                       /\ c.chunks[k].start < c.chunks[k].end
                       /\ c.chunks[k].end <= call.length
                       /\ c.chunks[k].end - c.chunks[k].start <= call.size
    BY DEF ChunksFit
  <2>. QED
    BY <1>1, <1>2, WindowEndFacts
<1>4. ChunksAdvance(c)
  <2>. SUFFICES ASSUME NEW k \in 1 .. (n - 1)
                PROVE  /\ c.chunks[k + 1].start = c.chunks[k].end - call.overlap
                       /\ c.chunks[k].end < c.chunks[k + 1].end
    BY DEF ChunksAdvance
  <2>1. k \in 1 .. n /\ k + 1 \in 1 .. n /\ (k + 1) - 1 = k /\ k # 0 /\ k - 1 \in Nat /\ (k - 1) + 1 = k
    BY <1>1
  <2>2. WindowStart(call, k - 1) + call.size < call.length
    BY <2>1, <1>2 DEF IsWindow
  <2>3. /\ WindowStart(call, k) = WindowStart(call, k - 1) + (call.size - call.overlap)
        /\ WindowStart(call, k) \in Nat /\ WindowStart(call, k - 1) \in Nat
        /\ call.size - call.overlap > 0
    BY <2>1, <1>1, <1>2, StrideFacts
  <2>4. /\ c.chunks[k].end = WindowStart(call, k - 1) + call.size
        /\ c.chunks[k + 1].start = WindowStart(call, k)
        /\ c.chunks[k + 1].end = WindowEnd(call, WindowStart(call, k))
        /\ WindowStart(call, k) < call.length
    BY <2>1, <2>2, <1>1, <1>2, WindowEndFacts
  <2>5. c.chunks[k].end < c.chunks[k + 1].end
    <3>1. CASE WindowStart(call, k) + call.size < call.length
      <4>1. c.chunks[k + 1].end = WindowStart(call, k) + call.size
        BY <3>1, <2>1, <2>3, <2>4, <1>1, <1>2, WindowEndFacts
      <4>. HIDE DEF call
      <4>. QED
        BY <4>1, <2>3, <2>4, <1>1
    <3>2. CASE ~(WindowStart(call, k) + call.size < call.length)
      <4>1. c.chunks[k + 1].end = call.length
        BY <3>2, <2>1, <2>3, <2>4, <1>1, <1>2, WindowEndFacts
      <4>. QED
        BY <4>1, <2>2, <2>4
    <3>. QED
      BY <3>1, <3>2
  <2>. QED
    BY <2>3, <2>4, <2>5, <1>1
<1>5. ChunksCover(c)
  <2>. SUFFICES ASSUME c.pc = "done"
                PROVE  CoveredUpTo(c, call.length)
    BY DEF ChunksCover
  <2>1. ~IsWindow(call, n) /\ ValidCall(call)
    BY DEF ChunkerInv
  <2>2. CASE n = 0
    <3>1. call.length = 0
      BY <2>1, <2>2, <1>1 DEF IsWindow
    <3>. QED
      BY <3>1 DEF CoveredUpTo
  <2>3. CASE n # 0
    <3>1. n \in 1 .. n /\ c.chunks # <<>>
      BY <2>3, <1>1
    <3>2. ~(WindowStart(call, n - 1) + call.size < call.length)
      BY <2>1, <2>3 DEF IsWindow
    <3>3. c.chunks[n].end = call.length
      BY <3>1, <3>2, <1>1, <1>2, WindowEndFacts
    <3>. QED
      BY <3>1, <3>3 DEF ChunkerInv
  <2>. QED
    BY <2>2, <2>3
<1>. QED
  BY <1>3, <1>4, <1>5

\* A sequence that lists the windows of a text in order and stops where there is no
\* further one lists the reference's set, and nothing else.
LEMMA WindowsAreReference ==
    ASSUME NEW call \in ChunkCall, ValidCall(call), NEW chunks \in Seq(Chunk),
           ~IsWindow(call, Len(chunks)),
           \A k \in 1 .. Len(chunks) : chunks[k] = WindowChunk(call, k - 1) /\ IsWindow(call, k - 1)
    PROVE  {chunks[k] : k \in 1 .. Len(chunks)} = ReferenceChunks(call)
<1>. DEFINE n == Len(chunks)
<1>1. n \in Nat /\ call.length \in Nat /\ call.size \in Nat /\ call.size > 0
  BY DEF ChunkCall, ValidCall
<1>2. ASSUME NEW k \in 1 .. n
      PROVE  chunks[k] \in ReferenceChunks(call)
  <2>1. k - 1 \in Nat /\ IsWindow(call, k - 1) /\ chunks[k] = WindowChunk(call, k - 1)
    BY <1>1
  <2>2. k - 1 <= call.length
    <3>1. CASE k - 1 = 0
      BY <3>1, <1>1
    <3>2. CASE k - 1 # 0
      <4>1. (k - 1) - 1 \in Nat
        BY <3>2, <2>1
      <4>2. /\ WindowStart(call, (k - 1) - 1) + call.size < call.length
            /\ (k - 1) - 1 <= WindowStart(call, (k - 1) - 1)
            /\ WindowStart(call, (k - 1) - 1) \in Nat
        BY <4>1, <2>1, <3>2, WindowOrder, StrideFacts DEF IsWindow
      <4>. QED
        BY <4>1, <4>2, <1>1
    <3>. QED
      BY <3>1, <3>2
  <2>. QED
    BY <2>1, <2>2, <1>1 DEF ReferenceChunks
<1>3. ASSUME NEW m \in 0 .. call.length, IsWindow(call, m)
      PROVE  WindowChunk(call, m) \in {chunks[k] : k \in 1 .. n}
  <2>1. m < n
    <3>. SUFFICES ASSUME n <= m
                  PROVE  FALSE
      BY <1>1
    <3>1. CASE n = 0
      BY <3>1, <1>3, <1>1 DEF IsWindow
    <3>2. CASE n # 0
      <4>1. n - 1 \in Nat /\ m - 1 \in Nat /\ n - 1 <= m - 1 /\ m # 0
        BY <3>2, <1>1
      <4>2. /\ WindowStart(call, m - 1) + call.size < call.length
            /\ ~(WindowStart(call, n - 1) + call.size < call.length)
        BY <4>1, <3>2, <1>3 DEF IsWindow
      <4>3. /\ WindowStart(call, n - 1) <= WindowStart(call, m - 1)
            /\ WindowStart(call, n - 1) \in Nat /\ WindowStart(call, m - 1) \in Nat
        BY <4>1, WindowOrder, StrideFacts
      <4>. QED
        BY <4>2, <4>3, <1>1
    <3>. QED
      BY <3>1, <3>2
  <2>2. m + 1 \in 1 .. n /\ (m + 1) - 1 = m
    BY <2>1, <1>1
  <2>. QED
    BY <2>2
<1>. QED
  BY <1>2, <1>3 DEF ReferenceChunks
=============================================================================
