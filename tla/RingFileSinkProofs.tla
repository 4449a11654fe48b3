------------------------- MODULE RingFileSinkProofs -------------------------
(***************************************************************************)
(* Proofs about RingFileSink, for every layout of the ring and every bound *)
(* on the runs: the type invariant, the agreement of the positions, and    *)
(* that what was reported to the application stays readable, in order,     *)
(* through short writes, failures, kills and power losses.                 *)
(***************************************************************************)
EXTENDS RingFileSink, TLAPS

-----------------------------------------------------------------------------
(* The layout of the ring: every chunk lies in the ring, chunks do not      *)
(* overlap, and stepping by a chunk (a buffer) from a chunk (a buffer of a  *)
(* chunk) leads to the next one or to the end.  Only here is anything       *)
(* multiplied.                                                              *)

\* The positions in a chunk at which a buffer starts.
BufferStarts == {j * BufferSize : j \in 0..(BuffersPerChunk - 1)}

\* A product of naturals is a natural, and grows with its first factor.
LEMMA Products ==
    ASSUME NEW a \in Nat, NEW b \in Nat, NEW c \in Nat, a <= b
    PROVE  a * c \in Nat /\ b * c \in Nat /\ a * c <= b * c
<1>1. a * c \in Nat /\ b * c \in Nat
  BY SMT
<1>2. (b - a) * c >= 0
  BY SMT
<1>3. (b - a) * c = b * c - a * c
  BY SMT
<1> QED
  BY <1>1, <1>2, <1>3

\* Chunks and rings are not empty, and hold whole buffers and chunks.
LEMMA Sizes ==
    /\ BufferSize \in Nat \ {0}
    /\ PktSize \in Nat \ {0} /\ PktSize <= BufferSize
    /\ ChunkSize \in Nat \ {0} /\ BufferSize <= ChunkSize
    /\ RingSize \in Nat \ {0} /\ ChunkSize <= RingSize
<1>1. BufferSize \in Nat \ {0} /\ PktSize \in Nat \ {0} /\ PktSize <= BufferSize
  BY LayoutAssumption
<1>2. ChunkSize \in Nat /\ 1 * BufferSize <= ChunkSize
  BY LayoutAssumption, Products DEF ChunkSize
<1>3. ChunkSize \in Nat \ {0} /\ BufferSize <= ChunkSize
  BY <1>1, <1>2
<1>4. RingSize \in Nat /\ 1 * ChunkSize <= RingSize
  BY <1>3, LayoutAssumption, Products DEF RingSize
<1> QED
  BY <1>1, <1>3, <1>4

\* A chunk lies in the ring, and the next one starts where it ends.
LEMMA BoundaryStep ==
    ASSUME NEW b \in Boundaries
    PROVE  /\ b \in Nat
           /\ b + ChunkSize <= RingSize
           /\ b + ChunkSize = RingSize \/ b + ChunkSize \in Boundaries
           /\ NextBoundary(b) \in Boundaries
<1>1. PICK k \in 0..(NumChunks - 1) : b = k * ChunkSize
  BY DEF Boundaries
<1>2. k \in Nat /\ k + 1 \in Nat /\ NumChunks \in Nat /\ k + 1 <= NumChunks
  BY LayoutAssumption
<1>3. b \in Nat /\ (k + 1) * ChunkSize <= NumChunks * ChunkSize
  BY <1>1, <1>2, Sizes, Products
<1>4. (k + 1) * ChunkSize = b + ChunkSize
  BY <1>1, <1>2, Sizes
<1>5. b + ChunkSize <= RingSize
  BY <1>3, <1>4 DEF RingSize
<1>6. 0 * ChunkSize \in Boundaries
  BY LayoutAssumption DEF Boundaries
<1>7. 0 \in Boundaries
  BY <1>6, Sizes
<1>8. CASE k + 1 = NumChunks
  BY <1>3, <1>4, <1>5, <1>7, <1>8 DEF RingSize, NextBoundary
<1>9. CASE k + 1 # NumChunks
  <2>1. k + 1 \in 0..(NumChunks - 1)
    BY <1>2, <1>9
  <2>2. b + ChunkSize \in Boundaries
    BY <2>1, <1>4 DEF Boundaries
  <2> QED
    BY <2>2, <1>3, <1>5, <1>7 DEF NextBoundary
<1> QED
  BY <1>8, <1>9

\* The first chunk starts at 0.
LEMMA ZeroBoundary == 0 \in Boundaries
<1>1. 0 * ChunkSize \in Boundaries
  BY LayoutAssumption DEF Boundaries
<1> QED
  BY <1>1, Sizes

\* Two chunks do not overlap.
LEMMA ChunksApart ==
    ASSUME NEW b \in Boundaries, NEW c \in Boundaries, b # c
    PROVE  b + ChunkSize <= c \/ c + ChunkSize <= b
<1>1. PICK k \in 0..(NumChunks - 1) : b = k * ChunkSize
  BY DEF Boundaries
<1>2. PICK m \in 0..(NumChunks - 1) : c = m * ChunkSize
  BY DEF Boundaries
<1>3. k # m
  BY <1>1, <1>2
<1>4. k \in Nat /\ m \in Nat /\ k + 1 \in Nat /\ m + 1 \in Nat
  BY LayoutAssumption
<1>5. (k + 1) * ChunkSize = b + ChunkSize /\ (m + 1) * ChunkSize = c + ChunkSize
  BY <1>1, <1>2, <1>4, Sizes
<1>6. CASE k + 1 <= m
  <2>1. (k + 1) * ChunkSize <= m * ChunkSize
    BY <1>4, <1>6, Sizes, Products
  <2> QED
    BY <2>1, <1>2, <1>5
<1>7. CASE m + 1 <= k
  <2>1. (m + 1) * ChunkSize <= k * ChunkSize
    BY <1>4, <1>7, Sizes, Products
  <2> QED
    BY <2>1, <1>1, <1>5
<1> QED
  BY <1>3, <1>4, <1>6, <1>7

\* A buffer lies in its chunk, and the next one starts where it ends.
LEMMA BufferStep ==
    ASSUME NEW p \in BufferStarts
    PROVE  /\ p \in Nat
           /\ p + BufferSize <= ChunkSize
           /\ p + BufferSize # ChunkSize => p + BufferSize \in BufferStarts
<1>1. PICK j \in 0..(BuffersPerChunk - 1) : p = j * BufferSize
  BY DEF BufferStarts
<1>2. j \in Nat /\ j + 1 \in Nat /\ BuffersPerChunk \in Nat /\ j + 1 <= BuffersPerChunk
  BY LayoutAssumption
<1>3. p \in Nat /\ (j + 1) * BufferSize <= BuffersPerChunk * BufferSize
  BY <1>1, <1>2, Sizes, Products
<1>4. (j + 1) * BufferSize = p + BufferSize
  BY <1>1, <1>2, Sizes
<1>5. p + BufferSize <= ChunkSize
  BY <1>3, <1>4 DEF ChunkSize
<1>6. ASSUME p + BufferSize # ChunkSize PROVE p + BufferSize \in BufferStarts
  <2>1. j + 1 # BuffersPerChunk
    BY <1>4, <1>6 DEF ChunkSize
  <2>2. j + 1 \in 0..(BuffersPerChunk - 1)
    BY <1>2, <2>1
  <2> QED
    BY <2>2, <1>4 DEF BufferStarts
<1> QED
  BY <1>3, <1>5, <1>6

\* The first buffer of a chunk starts at 0.
LEMMA ZeroBuffer == 0 \in BufferStarts
<1>1. 0 * BufferSize \in BufferStarts
  BY LayoutAssumption DEF BufferStarts
<1> QED
  BY <1>1, Sizes

-----------------------------------------------------------------------------
(* The invariant. *)

\* The states in which a chunk is being recorded.
Recording == pc \in {"ready", "copy", "write", "sync", "notify"}

\* The number of the first byte of that chunk.
First == fed - (ring_pos - last) + 1

\* Where the positions stand at each point of HandlePacket: the chunk being
\* recorded is always the one the last report announced.
Positions ==
    /\ pc \in {"ready", "copy", "write"} =>
          /\ chunk_pos \in BufferStarts
          /\ offset = last + chunk_pos + nwritten
          /\ ring_pos = last + chunk_pos + buf_pos
    /\ pc \in {"ready", "copy"} => nwritten = 0 /\ buf_pos < BufferSize
    /\ pc = "write" => nwritten < BufferSize /\ buf_pos = BufferSize
    /\ pc \in {"sync", "notify"} =>
          /\ offset = last + ChunkSize
          /\ ring_pos = last + ChunkSize
          /\ buf_pos = 0 /\ nwritten = 0
    /\ pc = "sync" => chunk_pos = ChunkSize
    /\ pc = "notify" => chunk_pos = 0
    /\ pc \in {"trunc", "seek"} =>
          /\ last = 0 /\ offset = RingSize /\ ring_pos = RingSize
          /\ chunk_pos = 0 /\ buf_pos = 0 /\ nwritten = 0

\* What the chunk being recorded holds so far: consecutive bytes, first the
\* written ones and then the buffered ones.
Content ==
    /\ Recording =>
          /\ ring_pos - last <= fed
          /\ offset > last => offset <= cache.size
          /\ \A o \in Offsets :
                last <= o /\ o < offset => cache.data[o] = First + (o - last)
    /\ pc \in {"ready", "copy", "write"} =>
          \A i \in 0..(BufferSize - 1) :
             i < buf_pos => buf[i] = First + chunk_pos + i
    /\ pc = "notify" => disk = cache

\* What was reported is older than what is being recorded.
Older ==
    /\ held[last] = 0
    /\ \A b \in Boundaries : held[b] # 0 => held[b] + ChunkSize <= fed + 1
    /\ Recording => \A b \in Boundaries : held[b] # 0 => held[b] + ChunkSize <= First

FileSizes == FileBounded /\ disk.size <= Larger(OldSize, RingSize)

\* The inductive invariant.
IInv ==
    /\ TypeOK
    /\ Positions
    /\ Content
    /\ Older
    /\ HeldIntact
    /\ HeldInOrder
    /\ FileSizes

-----------------------------------------------------------------------------

\* The invariant holds when nothing has been recorded.
LEMMA InitInv == Init => IInv
<1> SUFFICES ASSUME Init PROVE IInv
  OBVIOUS
<1> USE Sizes, ZeroBoundary, BoundAssumption
<1>1. PICK n \in {0, OldSize} :
         /\ cache = [data |-> [o \in Offsets |-> 0], size |-> n]
         /\ disk = cache
  BY DEF Init
<1>2. cache \in File /\ disk \in File
  BY <1>1 DEF File, Offsets
<1>3. TypeOK
  BY <1>2 DEF Init, TypeOK
<1>4. Positions /\ Content /\ Older
  BY DEF Init, Positions, Content, Older, Recording
<1>5. HeldIntact /\ HeldInOrder
  BY DEF Init, HeldIntact, HeldInOrder
<1>6. FileSizes
  BY <1>1 DEF FileSizes, FileBounded, Larger
<1> QED
  BY <1>3, <1>4, <1>5, <1>6 DEF IInv

\* What the type invariant says of the numbers in the state.
LEMMA Numbers ==
    ASSUME TypeOK
    PROVE  /\ left \in Nat /\ nwritten \in Nat /\ buf_pos \in Nat
           /\ chunk_pos \in Nat /\ ring_pos \in Nat /\ offset \in Nat
           /\ fed \in Nat /\ stops \in Nat
           /\ nwritten <= BufferSize /\ buf_pos <= BufferSize
           /\ last \in Boundaries /\ last \in Nat
           /\ last + ChunkSize <= RingSize
           /\ \A b \in Boundaries : held[b] \in Nat
           /\ \A o \in Offsets : cache.data[o] \in Nat /\ disk.data[o] \in Nat
           /\ cache.size \in Nat /\ disk.size \in Nat
<1>1. last \in Boundaries /\ last \in Nat /\ last + ChunkSize <= RingSize
  BY BoundaryStep DEF TypeOK
<1>2. /\ left \in Nat /\ nwritten \in Nat /\ buf_pos \in Nat
      /\ chunk_pos \in Nat /\ ring_pos \in Nat /\ offset \in Nat
      /\ fed \in Nat /\ stops \in Nat
      /\ nwritten <= BufferSize /\ buf_pos <= BufferSize
  BY Sizes DEF TypeOK
<1>3. \A b \in Boundaries : held[b] \in Nat
  BY DEF TypeOK
<1>4. /\ \A o \in Offsets : cache.data[o] \in Nat /\ disk.data[o] \in Nat
      /\ cache.size \in Nat /\ disk.size \in Nat
  BY DEF TypeOK, File
<1> QED
  BY <1>1, <1>2, <1>3, <1>4

\* Start: the recording continues at the last reported boundary.
LEMMA StartStep == IInv /\ Start => IInv'
<1> SUFFICES ASSUME IInv, Start PROVE IInv'
  OBVIOUS
<1> USE DEF IInv
<1>1. /\ pc = "down" /\ pc' \in {"ready", "down"}
      /\ pc' = "ready" => offset' = last /\ ring_pos' = last
      /\ pc' = "down" => offset' = offset /\ ring_pos' = ring_pos
      /\ left' = 0 /\ nwritten' = 0 /\ buf_pos' = 0 /\ chunk_pos' = 0
      /\ stops' \in {stops, stops + 1}
      /\ buf' = buf /\ cache' = cache /\ disk' = disk /\ fed' = fed
      /\ last' = last /\ held' = held
  BY DEF Start, app
<1>2. last \in Nat /\ last <= RingSize /\ fed \in Nat /\ stops \in Nat
  BY Numbers, Sizes
<1>3. offset' \in 0..RingSize /\ ring_pos' \in 0..RingSize
  BY <1>1, <1>2, Sizes DEF TypeOK
<1>4. TypeOK'
  <2>1. /\ 0 \in 0..PktSize /\ 0 \in 0..BufferSize /\ 0 \in 0..ChunkSize
        /\ stops' \in Nat
    BY <1>1, <1>2, Sizes
  <2> QED
    BY <1>1, <1>3, <2>1 DEF TypeOK
<1>5. Positions'
  BY <1>1, <1>2, Sizes, ZeroBuffer DEF Positions
<1>6. Content'
  <2>1. \A o \in Offsets : o \in Int
    BY DEF Offsets
  <2>2. \A i \in 0..(BufferSize - 1) : ~ (i < 0)
    BY Sizes
  <2> QED
    BY <1>1, <1>2, <2>1, <2>2 DEF Content, Recording
<1>7. Older'
  BY <1>1, <1>2 DEF Older, Recording, First
<1>8. HeldIntact' /\ HeldInOrder' /\ FileSizes'
  BY <1>1 DEF HeldIntact, HeldInOrder, Holds, FileSizes, FileBounded
<1> QED
  BY <1>4, <1>5, <1>6, <1>7, <1>8

\* FillBuffer: the buffer and the ring position move together.
LEMMA FillStep ==
    ASSUME IInv, NEW size \in 0..PktSize, pc \in {"ready", "copy"}, FillBuffer(size)
    PROVE  IInv'
<1> DEFINE n == Smaller(size, BufferSize - buf_pos)
<1> USE DEF IInv
<1>1. /\ nwritten \in Nat /\ buf_pos \in Nat /\ chunk_pos \in Nat /\ ring_pos \in Nat
      /\ offset \in Nat /\ fed \in Nat /\ last \in Nat
      /\ last + ChunkSize <= RingSize /\ size \in Nat /\ size <= PktSize
  BY Numbers, Sizes
<1>2. /\ nwritten = 0 /\ buf_pos < BufferSize
      /\ offset = last + chunk_pos /\ ring_pos = last + chunk_pos + buf_pos
      /\ chunk_pos \in BufferStarts /\ chunk_pos + BufferSize <= ChunkSize
  BY <1>1, BufferStep DEF Positions
<1>3. n \in Nat /\ n <= size /\ buf_pos + n <= BufferSize
  BY <1>1, <1>2, Sizes DEF Smaller
<1>4. /\ \A i \in 0..(BufferSize - 1) :
            buf'[i] = IF i >= buf_pos /\ i < buf_pos + n
                      THEN fed + 1 + (i - buf_pos) ELSE buf[i]
      /\ buf' = [i \in 0..(BufferSize - 1) |-> buf'[i]]
  BY DEF FillBuffer
<1>5. /\ buf_pos' = buf_pos + n /\ ring_pos' = ring_pos + n /\ fed' = fed + n
      /\ left' = size - n
      /\ pc' = IF buf_pos + n = BufferSize THEN "write" ELSE "ready"
      /\ nwritten' = nwritten /\ chunk_pos' = chunk_pos /\ offset' = offset
      /\ cache' = cache /\ disk' = disk /\ stops' = stops
      /\ last' = last /\ held' = held
  BY DEF FillBuffer, file, app
<1> HIDE DEF n
<1>6. TypeOK'
  <2>1. buf' \in [0..(BufferSize - 1) -> Nat]
    <3>1. ASSUME NEW i \in 0..(BufferSize - 1) PROVE buf'[i] \in Nat
      <4>1. i \in Int /\ buf[i] \in Nat
        BY Sizes DEF TypeOK
      <4> QED
        BY <4>1, <1>1, <1>3, <1>4
    <3> QED
      BY <3>1, <1>4
  <2>2. ring_pos' \in 0..RingSize
    BY <1>1, <1>2, <1>3, <1>5, Sizes
  <2>3. left' \in 0..PktSize /\ buf_pos' \in 0..BufferSize /\ fed' \in Nat
    BY <1>1, <1>2, <1>3, <1>5, Sizes
  <2> QED
    BY <1>5, <2>1, <2>2, <2>3 DEF TypeOK
<1>7. Positions'
  BY <1>1, <1>2, <1>3, <1>5, Sizes DEF Positions
<1>8. First' = First /\ First \in Int
  BY <1>1, <1>3, <1>5 DEF First
<1>9. Content'
  <2>1. /\ ring_pos' - last' <= fed'
        /\ offset' > last' => offset' <= cache'.size
    BY <1>1, <1>3, <1>5 DEF Content, Recording
  <2>2. \A o \in Offsets :
            last' <= o /\ o < offset' => cache'.data[o] = First' + (o - last')
    BY <1>5, <1>8 DEF Content, Recording
  <2>3. \A i \in 0..(BufferSize - 1) :
            i < buf_pos => buf[i] = First + chunk_pos + i
    BY DEF Content
  <2>4. \A i \in 0..(BufferSize - 1) :
            i < buf_pos' => buf'[i] = First' + chunk_pos' + i
    <3> SUFFICES ASSUME NEW i \in 0..(BufferSize - 1), i < buf_pos'
                 PROVE  buf'[i] = First + chunk_pos + i
      BY <1>5, <1>8
    <3>1. i \in Int /\ i >= 0
      BY Sizes
    <3>2. CASE i < buf_pos
      <4>1. buf'[i] = buf[i]
        BY <3>1, <3>2, <1>1, <1>3, <1>4
      <4> QED
        BY <4>1, <3>2, <2>3
    <3>3. CASE i >= buf_pos
      <4>1. i < buf_pos + n
        BY <1>5
      <4>2. buf'[i] = fed + 1 + (i - buf_pos)
        BY <3>3, <4>1, <1>4
      <4> QED
        BY <3>1, <4>2, <1>1, <1>2 DEF First
    <3> QED
      BY <3>1, <3>2, <3>3, <1>1
  <2> QED
    BY <1>5, <2>1, <2>2, <2>4 DEF Content, Recording
<1>10. Older'
  <2>1. \A b \in Boundaries : held[b] \in Nat
    BY Numbers
  <2> QED
    BY <1>1, <1>3, <1>5, <1>8, <2>1, Sizes DEF Older, Recording
<1>11. HeldIntact' /\ HeldInOrder' /\ FileSizes'
  BY <1>5 DEF HeldIntact, HeldInOrder, Holds, FileSizes, FileBounded
<1> QED
  BY <1>6, <1>7, <1>9, <1>10, <1>11

\* Write: the bytes land behind the ones already written, inside the chunk
\* being recorded and so outside every chunk that is held.
LEMMA WriteStep == IInv /\ Write => IInv'
<1> SUFFICES ASSUME IInv, Write PROVE IInv'
  OBVIOUS
<1> USE DEF IInv
<1>1. /\ nwritten \in Nat /\ buf_pos \in Nat /\ chunk_pos \in Nat /\ ring_pos \in Nat
      /\ offset \in Nat /\ fed \in Nat /\ last \in Nat /\ cache.size \in Nat
      /\ last \in Boundaries /\ last + ChunkSize <= RingSize
      /\ BufferSize \in Nat /\ ChunkSize \in Nat /\ RingSize \in Nat
  BY Numbers, Sizes
<1>2. /\ pc = "write" /\ nwritten < BufferSize /\ buf_pos = BufferSize
      /\ offset = last + chunk_pos + nwritten
      /\ ring_pos = last + chunk_pos + BufferSize
      /\ chunk_pos \in BufferStarts /\ chunk_pos + BufferSize <= ChunkSize
  BY BufferStep DEF Positions, Write
<1>3. PICK n \in 1..(BufferSize - nwritten) :
         /\ cache' = [data |-> [o \in Offsets |->
                                  IF o >= offset /\ o < offset + n
                                  THEN buf[nwritten + (o - offset)]
                                  ELSE cache.data[o]],
                      size |-> Larger(cache.size, offset + n)]
         /\ offset' = offset + n
         /\ IF nwritten + n < BufferSize
            THEN /\ nwritten' = nwritten + n
                 /\ UNCHANGED <<pc, buf_pos, chunk_pos>>
            ELSE /\ nwritten' = 0
                 /\ buf_pos' = 0
                 /\ chunk_pos' = chunk_pos + BufferSize
                 /\ pc' = IF chunk_pos + BufferSize = ChunkSize
                          THEN "sync" ELSE AfterFlush
  BY DEF Write
<1>4. n \in Nat /\ n >= 1 /\ nwritten + n <= BufferSize
  BY <1>1, <1>2
<1>5. /\ left' = left /\ buf' = buf /\ ring_pos' = ring_pos /\ disk' = disk
      /\ fed' = fed /\ stops' = stops /\ last' = last /\ held' = held
  BY DEF Write, app
<1>6. /\ cache'.size = Larger(cache.size, offset + n)
      /\ \A o \in Offsets :
           cache'.data[o] = IF o >= offset /\ o < offset + n
                            THEN buf[nwritten + (o - offset)] ELSE cache.data[o]
  BY <1>3
<1>7. /\ First' = First /\ First \in Int
      /\ AfterFlush \in {"ready", "copy"}
  BY <1>1, <1>5 DEF First, AfterFlush
<1>8. \A o \in Offsets : o \in Int /\ o >= 0
  BY <1>1 DEF Offsets
<1>9. \A o \in Offsets :
         last <= o /\ o < offset' => cache'.data[o] = First + (o - last)
  <2> SUFFICES ASSUME NEW o \in Offsets, last <= o, o < offset + n
               PROVE  cache'.data[o] = First + (o - last)
    BY <1>3
  <2>1. CASE o < offset
    <3>1. cache'.data[o] = cache.data[o]
      BY <1>6, <1>8, <2>1, <1>1
    <3> QED
      BY <3>1, <2>1, <1>2 DEF Content, Recording
  <2>2. CASE o >= offset
    <3>1. cache'.data[o] = buf[nwritten + (o - offset)]
      BY <1>6, <2>2
    <3>2. nwritten + (o - offset) \in 0..(BufferSize - 1)
      BY <1>1, <1>2, <1>4, <1>8, <2>2
    <3>3. buf[nwritten + (o - offset)] = First + chunk_pos + (nwritten + (o - offset))
      BY <3>2, <1>1, <1>2 DEF Content
    <3> QED
      BY <3>1, <3>3, <1>1, <1>2, <1>7, <1>8
  <2> QED
    BY <1>1, <1>8, <2>1, <2>2
<1>10. offset' <= cache'.size /\ cache'.size \in Nat
  BY <1>1, <1>3, <1>4, <1>6 DEF Larger
<1>11. offset' <= last + ChunkSize
  BY <1>1, <1>2, <1>3, <1>4
<1>12. TypeOK'
  <2>1. cache' \in File
    <3>1. ASSUME NEW o \in Offsets PROVE cache'.data[o] \in Nat
      <4>1. CASE o >= offset /\ o < offset + n
        <5>1. nwritten + (o - offset) \in 0..(BufferSize - 1)
          BY <1>1, <1>2, <1>4, <1>8, <4>1
        <5> QED
          BY <5>1, <4>1, <1>6 DEF TypeOK
      <4>2. CASE ~ (o >= offset /\ o < offset + n)
        BY <4>2, <1>6, Numbers
      <4> QED
        BY <4>1, <4>2
    <3> QED
      BY <3>1, <1>3, <1>10 DEF File
  <2>2. offset' \in 0..RingSize
    BY <1>1, <1>3, <1>4, <1>11
  <2>3. nwritten' \in 0..BufferSize /\ buf_pos' \in 0..BufferSize
    BY <1>1, <1>2, <1>3, <1>4
  <2>4. chunk_pos' \in 0..ChunkSize
    BY <1>1, <1>2, <1>3, <1>4
  <2>5. pc' \in {"write", "sync", "ready", "copy"}
    BY <1>2, <1>3, <1>7
  <2> QED
    BY <1>5, <2>1, <2>2, <2>3, <2>4, <2>5 DEF TypeOK
<1>13. ASSUME nwritten + n < BufferSize PROVE Positions' /\ Content'
  <2>1. /\ pc' = "write" /\ nwritten' = nwritten + n /\ buf_pos' = buf_pos
        /\ chunk_pos' = chunk_pos
    BY <1>2, <1>3, <1>13
  <2>2. Positions'
    BY <2>1, <1>1, <1>2, <1>3, <1>4, <1>5, <1>13 DEF Positions
  <2>3. Content'
    <3>1. \A i \in 0..(BufferSize - 1) : i < buf_pos' => buf'[i] = First' + chunk_pos' + i
      BY <2>1, <1>2, <1>5, <1>7 DEF Content
    <3>2. ring_pos' - last' <= fed'
      BY <1>2, <1>5 DEF Content, Recording
    <3> QED
      BY <2>1, <3>1, <3>2, <1>5, <1>7, <1>9, <1>10 DEF Content, Recording
  <2> QED
    BY <2>2, <2>3
<1>14. ASSUME nwritten + n = BufferSize PROVE Positions' /\ Content'
  <2>1. /\ nwritten' = 0 /\ buf_pos' = 0 /\ chunk_pos' = chunk_pos + BufferSize
        /\ pc' = IF chunk_pos + BufferSize = ChunkSize THEN "sync" ELSE AfterFlush
    BY <1>1, <1>3, <1>14
  <2>2. Positions'
    <3>1. offset' = last' + chunk_pos' /\ ring_pos' = last' + chunk_pos'
      BY <2>1, <1>1, <1>2, <1>3, <1>4, <1>5, <1>14
    <3>2. chunk_pos' # ChunkSize => chunk_pos' \in BufferStarts
      BY <2>1, <1>2, BufferStep
    <3>3. 0 < BufferSize
      BY Sizes
    <3> QED
      BY <2>1, <3>1, <3>2, <3>3, <1>1, <1>5, <1>7 DEF Positions
  <2>3. Content'
    <3>1. \A i \in 0..(BufferSize - 1) : ~ (i < 0)
      BY <1>1
    <3>2. ring_pos' - last' <= fed'
      BY <1>2, <1>5 DEF Content, Recording
    <3>3. pc' \in {"sync", "ready", "copy"}
      BY <2>1, <1>7
    <3> QED
      BY <2>1, <3>1, <3>2, <3>3, <1>5, <1>7, <1>9, <1>10 DEF Content, Recording
  <2> QED
    BY <2>2, <2>3
<1>15. Older'
  BY <1>2, <1>5, <1>7 DEF Older, Recording
<1>16. HeldIntact'
  <2> SUFFICES ASSUME NEW b \in Boundaries, held[b] # 0
               PROVE  Holds(cache', b, held[b]) /\ Holds(disk', b, held[b])
    BY <1>5 DEF HeldIntact, Holds
  <2>1. Holds(cache, b, held[b]) /\ Holds(disk, b, held[b]) /\ b # last
    BY DEF HeldIntact, Older
  <2>2. b \in Nat /\ b + ChunkSize <= RingSize
    BY BoundaryStep
  <2>3. b + ChunkSize <= last \/ last + ChunkSize <= b
    BY <1>1, <2>1, ChunksApart
  <2>4. b + ChunkSize <= cache'.size
    BY <2>1, <2>2, <1>1, <1>4, <1>6 DEF Holds, Larger
  <2>5. ASSUME NEW i \in 0..(ChunkSize - 1)
        PROVE  cache'.data[b + i] = held[b] + i
    <3>1. i \in Int /\ b + i \in Offsets /\ ~ (b + i >= offset /\ b + i < offset + n)
      BY <1>1, <1>2, <1>3, <1>4, <1>11, <2>2, <2>3 DEF Offsets
    <3>2. cache'.data[b + i] = cache.data[b + i]
      BY <3>1, <1>6
    <3> QED
      BY <3>2, <2>1 DEF Holds
  <2> QED
    BY <2>1, <2>4, <2>5, <1>5 DEF Holds
<1>17. HeldInOrder'
  BY <1>5 DEF HeldInOrder
<1>18. FileSizes'
  BY <1>1, <1>3, <1>4, <1>5, <1>6, <1>11, BoundAssumption DEF FileSizes, FileBounded, Larger
<1> QED
  BY <1>1, <1>4, <1>12, <1>13, <1>14, <1>15, <1>16, <1>17, <1>18

\* Sync: what is in the cache is on the disk.
LEMMA SyncStep == IInv /\ Sync => IInv'
<1> SUFFICES ASSUME IInv, Sync PROVE IInv'
  OBVIOUS
<1> USE DEF IInv
<1>1. /\ pc = "sync" /\ pc' = "notify" /\ disk' = cache /\ chunk_pos' = 0
      /\ left' = left /\ nwritten' = nwritten /\ buf' = buf /\ buf_pos' = buf_pos
      /\ ring_pos' = ring_pos /\ offset' = offset /\ cache' = cache /\ fed' = fed
      /\ stops' = stops /\ last' = last /\ held' = held
  BY DEF Sync, app
<1>2. TypeOK'
  <2>1. 0 \in 0..ChunkSize
    BY Sizes
  <2> QED
    BY <1>1, <2>1 DEF TypeOK
<1>3. Positions'
  BY <1>1 DEF Positions
<1>4. Content'
  BY <1>1 DEF Content, Recording, First
<1>5. Older'
  BY <1>1 DEF Older, Recording, First
<1>6. HeldIntact' /\ HeldInOrder'
  BY <1>1 DEF HeldIntact, HeldInOrder, Holds
<1>7. FileSizes'
  BY <1>1 DEF FileSizes, FileBounded
<1> QED
  BY <1>2, <1>3, <1>4, <1>5, <1>6, <1>7

\* Notify: the chunk that ended joins the held ones, and the next one leaves.
LEMMA NotifyStep == IInv /\ Notify => IInv'
<1> SUFFICES ASSUME IInv, Notify PROVE IInv'
  OBVIOUS
<1> DEFINE next == NextBoundary(last)
<1> USE DEF IInv
<1>1. /\ fed \in Nat /\ last \in Nat /\ last \in Boundaries
      /\ last + ChunkSize <= RingSize /\ ring_pos \in Nat
      /\ ChunkSize \in Nat \ {0} /\ RingSize \in Nat
  BY Numbers, Sizes
<1>2. /\ pc = "notify" /\ ring_pos = last + ChunkSize /\ offset = last + ChunkSize
      /\ buf_pos = 0 /\ nwritten = 0 /\ chunk_pos = 0
  BY DEF Positions, Notify
<1>3. /\ next = IF ring_pos = RingSize THEN 0 ELSE ring_pos
      /\ next \in Boundaries /\ next \in Nat
  BY <1>1, <1>2, BoundaryStep DEF NextBoundary
<1>4. /\ last' = next
      /\ held' = [b \in Boundaries |->
                    IF b = next THEN 0
                    ELSE IF b = last THEN fed - ChunkSize + 1
                    ELSE held[b]]
  <2>1. ring_pos - ChunkSize = last
    BY <1>1, <1>2
  <2> QED
    BY <1>2, <1>3, <2>1 DEF Notify, OnEndOfChunk
<1>5. /\ left' = left /\ nwritten' = nwritten /\ buf' = buf /\ buf_pos' = buf_pos
      /\ chunk_pos' = chunk_pos /\ ring_pos' = ring_pos /\ offset' = offset
      /\ cache' = cache /\ disk' = disk /\ fed' = fed /\ stops' = stops
      /\ pc' = IF ring_pos = RingSize THEN "trunc" ELSE AfterFlush
      /\ AfterFlush \in {"ready", "copy"}
  BY DEF Notify, sink, file, AfterFlush
<1>6. First = fed - ChunkSize + 1 /\ First \in Nat /\ First >= 1
  BY <1>1, <1>2 DEF First, Content, Recording
<1> HIDE DEF next
<1>7. TypeOK'
  <2>1. held' \in [Boundaries -> Nat]
    BY <1>4, <1>6 DEF TypeOK
  <2> QED
    BY <2>1, <1>3, <1>4, <1>5 DEF TypeOK
<1>8. ASSUME ring_pos = RingSize PROVE Positions' /\ Content'
  <2>1. pc' = "trunc" /\ last' = 0
    BY <1>3, <1>4, <1>5, <1>8
  <2>2. Positions'
    BY <2>1, <1>2, <1>5, <1>8 DEF Positions
  <2>3. Content'
    BY <2>1 DEF Content, Recording
  <2> QED
    BY <2>2, <2>3
<1>9. ASSUME ring_pos # RingSize PROVE Positions' /\ Content'
  <2>1. pc' \in {"ready", "copy"} /\ last' = ring_pos
    BY <1>3, <1>4, <1>5, <1>9
  <2>2. Positions'
    BY <2>1, <1>1, <1>2, <1>5, Sizes, ZeroBuffer DEF Positions
  <2>3. Content'
    <3>1. \A i \in 0..(BufferSize - 1) : ~ (i < 0)
      BY Sizes
    <3>2. \A o \in Offsets : o \in Int
      BY <1>1 DEF Offsets
    <3> QED
      BY <2>1, <3>1, <3>2, <1>1, <1>2, <1>5 DEF Content, Recording
  <2> QED
    BY <2>2, <2>3
<1>10. Older'
  <2>1. held'[last'] = 0
    BY <1>3, <1>4
  <2>2. \A b \in Boundaries : held'[b] # 0 => held'[b] + ChunkSize <= fed + 1
    BY <1>1, <1>4 DEF Older
  <2>3. Recording' => First' = fed + 1
    BY <1>1, <1>3, <1>4, <1>5 DEF Recording, First
  <2> QED
    BY <2>1, <2>2, <2>3, <1>5 DEF Older
<1>11. HeldIntact'
  <2> SUFFICES ASSUME NEW b \in Boundaries, held'[b] # 0
               PROVE  Holds(cache, b, held'[b]) /\ Holds(disk, b, held'[b])
    BY <1>5 DEF HeldIntact, Holds
  <2>1. CASE b = last
    <3>1. held'[b] = First
      BY <2>1, <1>4, <1>6
    <3>2. b + ChunkSize <= cache.size
      BY <2>1, <1>1, <1>2 DEF Content, Recording
    <3>3. ASSUME NEW i \in 0..(ChunkSize - 1)
          PROVE  cache.data[b + i] = First + i
      <4>1. last + i \in Offsets /\ last <= last + i /\ last + i < offset
            /\ (last + i) - last = i
        BY <1>1, <1>2 DEF Offsets
      <4> QED
        BY <4>1, <2>1, <1>2 DEF Content, Recording
    <3>4. disk = cache
      BY <1>2 DEF Content
    <3> QED
      BY <3>1, <3>2, <3>3, <3>4 DEF Holds
  <2>2. CASE b # last
    BY <2>2, <1>4 DEF HeldIntact
  <2> QED
    BY <2>1, <2>2
<1>12. HeldInOrder'
  <2> SUFFICES ASSUME NEW b \in Boundaries, held'[b] # 0, NextBoundary(b) # next
               PROVE  held'[NextBoundary(b)] >= held'[b] + ChunkSize
    BY <1>4 DEF HeldInOrder
  <2>1. b # last /\ held'[b] = held[b] /\ held[b] # 0
    BY <1>4 DEF next
  <2>2. NextBoundary(b) \in Boundaries
    BY BoundaryStep
  <2>3. CASE NextBoundary(b) = last
    <3>1. held'[last] = First
      BY <2>3, <1>1, <1>4, <1>6
    <3>2. held[b] + ChunkSize <= First
      BY <2>1, <1>2 DEF Older, Recording
    <3>3. held[b] \in Nat
      BY Numbers
    <3> QED
      BY <3>1, <3>2, <3>3, <2>1, <2>3, <1>1, <1>6
  <2>4. CASE NextBoundary(b) # last
    <3>1. held'[NextBoundary(b)] = held[NextBoundary(b)]
      BY <2>2, <2>4, <1>4
    <3> QED
      BY <3>1, <2>1, <2>4 DEF HeldInOrder
  <2> QED
    BY <2>3, <2>4
<1>13. FileSizes'
  BY <1>5 DEF FileSizes, FileBounded
<1> QED
  BY <1>7, <1>8, <1>9, <1>10, <1>11, <1>12, <1>13

\* Trunc: the ring is as long as the chunks reach, so nothing held is cut.
LEMMA TruncStep == IInv /\ Trunc => IInv'
<1> SUFFICES ASSUME IInv, Trunc PROVE IInv'
  OBVIOUS
<1> USE DEF IInv
<1>1. /\ pc = "trunc" /\ pc' = "seek" /\ left' = left /\ nwritten' = nwritten
      /\ buf' = buf /\ buf_pos' = buf_pos /\ chunk_pos' = chunk_pos
      /\ ring_pos' = ring_pos /\ offset' = offset /\ disk' = disk /\ fed' = fed
      /\ stops' = stops /\ last' = last /\ held' = held
  BY DEF Trunc, sink, app
<1>2. \A o \in Offsets : o \in Int /\ o < RingSize
  BY Sizes DEF Offsets
<1>3. /\ cache' = [data |-> cache'.data, size |-> RingSize]
      /\ cache'.data = [o \in Offsets |-> cache'.data[o]]
      /\ cache'.size = RingSize
      /\ \A o \in Offsets : cache'.data[o] = cache.data[o]
  BY <1>2 DEF Trunc, Truncate
<1>4. TypeOK'
  <2>1. cache' \in File
    <3>1. \A o \in Offsets : cache'.data[o] \in Nat
      BY <1>3, Numbers
    <3>2. cache'.data \in [Offsets -> Nat]
      BY <3>1, <1>3
    <3> QED
      BY <3>2, <1>3, Sizes DEF File
  <2> QED
    BY <2>1, <1>1 DEF TypeOK
<1>5. Positions'
  BY <1>1 DEF Positions
<1>6. Content' /\ Older'
  BY <1>1 DEF Content, Older, Recording
<1>7. HeldIntact'
  <2> SUFFICES ASSUME NEW b \in Boundaries, held[b] # 0
               PROVE  Holds(cache', b, held[b]) /\ Holds(disk, b, held[b])
    BY <1>1 DEF HeldIntact, Holds
  <2>1. b \in Nat /\ b + ChunkSize <= RingSize
    BY BoundaryStep
  <2>2. \A i \in 0..(ChunkSize - 1) : b + i \in Offsets
    BY <2>1, Sizes DEF Offsets
  <2>3. Holds(cache, b, held[b]) /\ Holds(disk, b, held[b])
    BY DEF HeldIntact
  <2> QED
    BY <2>1, <2>2, <2>3, <1>3 DEF Holds
<1>8. HeldInOrder'
  BY <1>1 DEF HeldInOrder
<1>9. FileSizes'
  BY <1>1, <1>3, Sizes, BoundAssumption DEF FileSizes, FileBounded, Larger
<1> QED
  BY <1>4, <1>5, <1>6, <1>7, <1>8, <1>9

\* Seek: the next lap starts, at the boundary that was reported.
LEMMA SeekStep == IInv /\ Seek => IInv'
<1> SUFFICES ASSUME IInv, Seek PROVE IInv'
  OBVIOUS
<1> USE DEF IInv
<1>1. /\ pc = "seek" /\ pc' = AfterFlush /\ AfterFlush \in {"ready", "copy"}
      /\ offset' = 0 /\ ring_pos' = 0
      /\ left' = left /\ nwritten' = nwritten /\ buf' = buf /\ buf_pos' = buf_pos
      /\ chunk_pos' = chunk_pos /\ cache' = cache /\ disk' = disk /\ fed' = fed
      /\ stops' = stops /\ last' = last /\ held' = held
  BY DEF Seek, AfterFlush, app
<1>2. last = 0 /\ chunk_pos = 0 /\ buf_pos = 0 /\ nwritten = 0 /\ fed \in Nat
  BY <1>1, Numbers DEF Positions
<1>3. TypeOK'
  <2>1. 0 \in 0..RingSize
    BY Sizes
  <2> QED
    BY <1>1, <2>1 DEF TypeOK
<1>4. Positions'
  BY <1>1, <1>2, Sizes, ZeroBuffer DEF Positions
<1>5. Content'
  <2>1. \A i \in 0..(BufferSize - 1) : ~ (i < 0)
    BY Sizes
  <2>2. \A o \in Offsets : ~ (o < 0)
    BY Sizes DEF Offsets
  <2> QED
    BY <2>1, <2>2, <1>1, <1>2 DEF Content, Recording
<1>6. Older'
  <2>1. First' = fed + 1
    BY <1>1, <1>2 DEF First
  <2> QED
    BY <2>1, <1>1 DEF Older
<1>7. HeldIntact' /\ HeldInOrder' /\ FileSizes'
  BY <1>1 DEF HeldIntact, HeldInOrder, Holds, FileSizes, FileBounded
<1> QED
  BY <1>3, <1>4, <1>5, <1>6, <1>7

\* Fail: a broken session promises nothing.
LEMMA FailStep == IInv /\ Fail => IInv'
<1> SUFFICES ASSUME IInv, Fail PROVE IInv'
  OBVIOUS
<1> USE DEF IInv
<1>1. /\ pc' = "down" /\ stops' = stops + 1
      /\ left' = left /\ nwritten' = nwritten /\ buf' = buf /\ buf_pos' = buf_pos
      /\ chunk_pos' = chunk_pos /\ ring_pos' = ring_pos /\ offset' = offset
      /\ cache' = cache /\ disk' = disk /\ fed' = fed
      /\ last' = 0 /\ held' = [b \in Boundaries |-> 0]
  BY DEF Fail, sink, file
<1>2. \A b \in Boundaries : held'[b] = 0
  BY <1>1
<1>3. TypeOK'
  <2>1. stops' \in Nat /\ held' \in [Boundaries -> Nat]
    BY <1>1, Numbers
  <2> QED
    BY <2>1, <1>1, ZeroBoundary DEF TypeOK
<1>4. Positions' /\ Content'
  BY <1>1 DEF Positions, Content, Recording
<1>5. Older' /\ HeldIntact' /\ HeldInOrder'
  BY <1>1, <1>2, ZeroBoundary DEF Older, Recording, HeldIntact, HeldInOrder
<1>6. FileSizes'
  BY <1>1 DEF FileSizes, FileBounded
<1> QED
  BY <1>3, <1>4, <1>5, <1>6

\* End and Kill leave the file and the application as they are.
LEMMA LeaveStep ==
    ASSUME IInv, pc' = "down", stops' = stops + 1, UNCHANGED <<sink, file, fed, app>>
    PROVE  IInv'
<1> USE DEF IInv
<1>1. /\ left' = left /\ nwritten' = nwritten /\ buf' = buf /\ buf_pos' = buf_pos
      /\ chunk_pos' = chunk_pos /\ ring_pos' = ring_pos /\ offset' = offset
      /\ cache' = cache /\ disk' = disk /\ fed' = fed
      /\ last' = last /\ held' = held
  BY DEF sink, file, app
<1>2. TypeOK'
  <2>1. stops' \in Nat
    BY Numbers
  <2> QED
    BY <2>1, <1>1 DEF TypeOK
<1>3. Positions' /\ Content'
  BY <1>1 DEF Positions, Content, Recording
<1>4. Older' /\ HeldIntact' /\ HeldInOrder' /\ FileSizes'
  BY <1>1 DEF Older, Recording, HeldIntact, HeldInOrder, Holds, FileSizes, FileBounded
<1> QED
  BY <1>2, <1>3, <1>4

\* PowerLoss: a held chunk is the same in the cache and on the disk, so any
\* mixture of the two holds it as well.
LEMMA PowerLossStep == IInv /\ PowerLoss => IInv'
<1> SUFFICES ASSUME IInv, PowerLoss PROVE IInv'
  OBVIOUS
<1> USE DEF IInv
<1>1. /\ pc' = "down" /\ stops' \in {stops, stops + 1}
      /\ left' = left /\ nwritten' = nwritten /\ buf' = buf /\ buf_pos' = buf_pos
      /\ chunk_pos' = chunk_pos /\ ring_pos' = ring_pos /\ offset' = offset
      /\ fed' = fed /\ last' = last /\ held' = held
  BY DEF PowerLoss, sink, app
<1>2. PICK kept \in SUBSET {o \in Offsets : cache.data[o] # disk.data[o]},
           size \in {cache.size, disk.size} :
         LET f == [data |-> [o \in Offsets |->
                               IF o \in kept THEN cache.data[o] ELSE disk.data[o]],
                   size |-> size]
         IN  cache' = f /\ disk' = f
  BY DEF PowerLoss
<1>3. /\ cache' = [data |-> cache'.data, size |-> size] /\ disk' = cache'
      /\ cache'.data = [o \in Offsets |-> cache'.data[o]]
      /\ cache'.size = size
      /\ \A o \in Offsets : cache'.data[o] \in {cache.data[o], disk.data[o]}
  BY <1>2
<1>4. TypeOK'
  <2>1. \A o \in Offsets : cache'.data[o] \in Nat
    BY <1>3, Numbers
  <2>2. cache'.data \in [Offsets -> Nat] /\ size \in Nat
    BY <2>1, <1>3, Numbers
  <2>3. cache' \in File /\ disk' \in File
    BY <2>2, <1>3 DEF File
  <2>4. stops' \in Nat
    BY <1>1, Numbers
  <2> QED
    BY <2>3, <2>4, <1>1 DEF TypeOK
<1>5. Positions' /\ Content'
  BY <1>1 DEF Positions, Content, Recording
<1>6. Older'
  BY <1>1 DEF Older, Recording
<1>7. HeldIntact'
  <2> SUFFICES ASSUME NEW b \in Boundaries, held[b] # 0
               PROVE  Holds(cache', b, held[b])
    BY <1>1, <1>3 DEF HeldIntact, Holds
  <2>1. Holds(cache, b, held[b]) /\ Holds(disk, b, held[b])
    BY DEF HeldIntact
  <2>2. b \in Nat /\ b + ChunkSize <= RingSize
    BY BoundaryStep
  <2>3. \A i \in 0..(ChunkSize - 1) : b + i \in Offsets
    BY <2>2, Sizes DEF Offsets
  <2> QED
    BY <2>1, <2>3, <1>3 DEF Holds
<1>8. HeldInOrder'
  BY <1>1 DEF HeldInOrder
<1>9. FileSizes'
  BY <1>3 DEF FileSizes, FileBounded
<1> QED
  BY <1>4, <1>5, <1>6, <1>7, <1>8, <1>9

\* A step that changes nothing.
LEMMA StutterStep == IInv /\ UNCHANGED vars => IInv'
<1> SUFFICES ASSUME IInv, UNCHANGED vars PROVE IInv'
  OBVIOUS
<1> QED
  BY DEF vars, sink, file, app, IInv, TypeOK, Positions, Content, Older, HeldIntact,
         HeldInOrder, Holds, FileSizes, FileBounded, Recording, First

\* Every step of the sink, of its file and of the application preserves the
\* invariant.
LEMMA NextInv == IInv /\ [Next]_vars => IInv'
<1> SUFFICES ASSUME IInv, [Next]_vars PROVE IInv'
  OBVIOUS
<1>1. CASE Start
  BY <1>1, StartStep
<1>2. CASE HandlePacket
  <2>1. PktSize \in 0..PktSize
    BY Sizes
  <2> QED
    BY <1>2, <2>1, FillStep DEF HandlePacket
<1>3. CASE HandleRest
  <2>1. left \in 0..PktSize
    BY DEF IInv, TypeOK
  <2> QED
    BY <1>3, <2>1, FillStep DEF HandleRest
<1>4. CASE Write
  BY <1>4, WriteStep
<1>5. CASE Sync
  BY <1>5, SyncStep
<1>6. CASE Notify
  BY <1>6, NotifyStep
<1>7. CASE Trunc
  BY <1>7, TruncStep
<1>8. CASE Seek
  BY <1>8, SeekStep
<1>9. CASE Fail
  BY <1>9, FailStep
<1>10. CASE End
  BY <1>10, LeaveStep DEF End
<1>11. CASE Kill
  BY <1>11, LeaveStep DEF Kill
<1>12. CASE PowerLoss
  BY <1>12, PowerLossStep
<1>13. CASE UNCHANGED vars
  BY <1>13, StutterStep
<1> QED
  BY <1>1, <1>2, <1>3, <1>4, <1>5, <1>6, <1>7, <1>8, <1>9, <1>10, <1>11, <1>12,
     <1>13 DEF Next

\* The inductive invariant is an invariant.
THEOREM Invariance == Spec => []IInv
<1> QED
  BY InitInv, NextInv, PTL DEF Spec

\* Every variable of the sink keeps its type, its positions within the ring.
THEOREM TypeCorrect == Spec => []TypeOK
<1>1. IInv => TypeOK
  BY DEF IInv
<1> QED
  BY <1>1, Invariance, PTL

\* The positions of the sink and the offset of the file agree, so none of the
\* assertions on them fails.
THEOREM PositionsCorrect == Spec => []PositionsAgree
<1>1. ASSUME IInv PROVE PositionsAgree
  <2> USE DEF IInv
  <2>1. /\ nwritten \in Nat /\ buf_pos \in Nat /\ chunk_pos \in Nat
        /\ last \in Nat /\ last \in Boundaries /\ last + ChunkSize <= RingSize
        /\ BufferSize \in Nat \ {0} /\ ChunkSize \in Nat \ {0} /\ RingSize \in Nat
    BY <1>1, Numbers, Sizes
  <2>2. pc \in {"ready", "copy", "write"} =>
           chunk_pos + BufferSize <= ChunkSize /\ chunk_pos < ChunkSize
    BY <1>1, <2>1, BufferStep DEF Positions
  <2>3. pc \in {"ready", "copy", "write"} => ring_pos = offset - nwritten + buf_pos
    BY <1>1, <2>1 DEF Positions
  <2>4. pc \in {"ready", "copy"} => ring_pos < RingSize /\ buf_pos < BufferSize
    BY <1>1, <2>1, <2>2 DEF Positions
  <2>5. pc = "write" => buf_pos = BufferSize /\ chunk_pos < ChunkSize
    BY <1>1, <2>2 DEF Positions
  <2>6. pc \in {"sync", "notify"} => /\ ring_pos # 0
                                    /\ ring_pos - ChunkSize \in Boundaries
                                    /\ ring_pos = offset
    <3>1. (last + ChunkSize) - ChunkSize = last /\ last + ChunkSize # 0
      BY <2>1
    <3> QED
      BY <1>1, <2>1, <3>1 DEF Positions
  <2>7. pc \in {"trunc", "seek"} => ring_pos = RingSize
    BY <1>1 DEF Positions
  <2> QED
    BY <2>3, <2>4, <2>5, <2>6, <2>7 DEF PositionsAgree
<1> QED
  BY <1>1, Invariance, PTL

\* A chunk reported to the application stays complete in the file and on the
\* disk until the report that announces it is about to be overwritten.
THEOREM HeldChunksIntact == Spec => []HeldIntact
<1>1. IInv => HeldIntact
  BY DEF IInv
<1> QED
  BY <1>1, Invariance, PTL

\* The held chunks are in stream order around the ring.
THEOREM HeldChunksInOrder == Spec => []HeldInOrder
<1>1. IInv => HeldInOrder
  BY DEF IInv
<1> QED
  BY <1>1, Invariance, PTL

\* The file does not grow beyond the ring.
THEOREM FileStaysBounded == Spec => []FileBounded
<1>1. IInv => FileBounded
  BY DEF IInv, FileSizes
<1> QED
  BY <1>1, Invariance, PTL

\* The chunks the application was told of are intact and in order.
THEOREM HeldChunksSafe == Spec => []HeldSafe
  BY HeldChunksIntact, HeldChunksInOrder, PTL DEF HeldSafe

\* The positions agree and the file stays within the ring.
THEOREM AlwaysWithinRing == Spec => []WithinRing
  BY PositionsCorrect, FileStaysBounded, PTL DEF WithinRing

-----------------------------------------------------------------------------
(* The refinement of ChunkLog. *)

\* What can be read back from the disk is exactly what is held.
LEMMA DiskIsHeld == IInv => DiskChunks = held
<1> SUFFICES ASSUME IInv PROVE DiskChunks = held
  OBVIOUS
<1>1. ASSUME NEW b \in Boundaries PROVE DiskChunk(b) = held[b]
  <2>1. CASE held[b] = 0
    BY <2>1 DEF DiskChunk
  <2>2. CASE held[b] # 0
    <3>1. Holds(disk, b, held[b]) /\ held[b] \in Nat /\ b \in Nat
      BY <2>2, Numbers, BoundaryStep DEF IInv, HeldIntact
    <3>2. 0 \in 0..(ChunkSize - 1) /\ b + 0 = b /\ held[b] + 0 = held[b]
      BY <3>1, Sizes
    <3>3. disk.data[b] = held[b]
      BY <3>1, <3>2 DEF Holds
    <3> QED
      BY <2>2, <3>1, <3>3 DEF DiskChunk
  <2> QED
    BY <2>1, <2>2
<1>2. held \in [Boundaries -> Nat]
  BY DEF IInv, TypeOK
<1> QED
  BY <1>1, <1>2 DEF DiskChunks

\* The same after a step.
LEMMA DiskIsHeldNext == IInv' => (DiskChunks = held)'
<1> QED
  BY DiskIsHeld, PTL

\* The layout of the log is the layout of the sink.
LEMMA SameLayout ==
    /\ Log!Boundaries = Boundaries
    /\ \A b : Log!NextBoundary(b) = NextBoundary(b)
<1>1. Log!ChunkSize = ChunkSize
  BY DEF Log!ChunkSize, ChunkSize
<1>2. Log!RingSize = RingSize
  BY <1>1 DEF Log!RingSize, RingSize
<1> QED
  BY <1>1, <1>2 DEF Log!Boundaries, Boundaries, Log!NextBoundary, NextBoundary

\* A notification is a report of the log.
LEMMA NotifyReports ==
    ASSUME IInv, IInv', Notify
    PROVE  Log!Report
<1> USE DEF IInv
<1>1. /\ fed \in Nat /\ last \in Nat /\ last \in Boundaries
      /\ last + ChunkSize <= RingSize
      /\ ChunkSize \in Nat \ {0} /\ RingSize \in Nat
      /\ \A b \in Boundaries : held[b] \in Nat
  BY Numbers, Sizes
<1>2. pc = "notify" /\ ring_pos = last + ChunkSize
  BY DEF Positions, Notify
<1>3. First = fed - ChunkSize + 1 /\ First \in Nat /\ First >= 1
  BY <1>1, <1>2 DEF First, Content, Recording
<1>4. last' = NextBoundary(last) /\ last' \in Boundaries
  BY <1>1, <1>2, BoundaryStep DEF Notify, OnEndOfChunk, NextBoundary
<1>5. \A b \in Boundaries :
         held'[b] = IF b = last' THEN 0 ELSE IF b = last THEN First ELSE held[b]
  <2>1. ring_pos - ChunkSize = last
    BY <1>1, <1>2
  <2> QED
    BY <1>3, <2>1 DEF Notify, OnEndOfChunk
<1>6. \A b \in Boundaries : First > held[b]
  BY <1>1, <1>2, <1>3 DEF Older, Recording
<1>7. held' \in [Boundaries -> Nat]
  BY DEF TypeOK
<1>8. /\ held'[last'] = 0
      /\ last' # last => \A b \in Boundaries : held'[last] > held[b]
      /\ \A b \in Boundaries \ {last, last'} : held'[b] = held[b]
  BY <1>1, <1>4, <1>5, <1>6
<1>9. DiskChunks = held /\ DiskChunks' = held'
  BY DiskIsHeld, DiskIsHeldNext
<1> QED
  BY <1>4, <1>7, <1>8, <1>9, SameLayout DEF Log!Report

\* The sink implements the log of chunks an application relies on.
THEOREM RefinesChunkLog == Spec => ImplementsLog
<1>1. Init => Log!Init
  <2> SUFFICES ASSUME Init PROVE Log!Init
    OBVIOUS
  <2>1. DiskChunks = held
    BY InitInv, DiskIsHeld
  <2> QED
    BY <2>1, SameLayout DEF Init, Log!Init
<1>2. IInv /\ IInv' /\ [Next]_vars => [Log!Next]_(Log!logVars)
  <2> SUFFICES ASSUME IInv, IInv', [Next]_vars PROVE [Log!Next]_(Log!logVars)
    OBVIOUS
  <2>1. DiskChunks = held /\ DiskChunks' = held'
    BY DiskIsHeld, DiskIsHeldNext
  <2>2. CASE Notify
    BY <2>2, NotifyReports DEF Log!Next
  <2>3. CASE Fail
    <3>1. Log!Reset
      BY <2>1, <2>3, SameLayout DEF Fail, Log!Reset, Log!Init
    <3> QED
      BY <3>1 DEF Log!Next
  <2>4. CASE ~ Notify /\ ~ Fail
    <3>1. last' = last /\ held' = held
      BY <2>4 DEF Next, vars, app, Start, HandlePacket, HandleRest, FillBuffer, Write,
                  Sync, Trunc, Seek, End, Kill, PowerLoss
    <3> QED
      BY <3>1, <2>1 DEF Log!logVars
  <2> QED
    BY <2>2, <2>3, <2>4
<1> QED
  BY <1>1, <1>2, Invariance, PTL DEF Spec, ImplementsLog, Log!Spec

-----------------------------------------------------------------------------
(* The refinement of PacketRingSink. *)

\* A quotient and its remainder.
LEMMA Quotient ==
    ASSUME NEW x \in Nat, NEW b \in Nat \ {0}
    PROVE  x \div b \in Nat /\ x % b \in 0..(b - 1) /\ x = (x \div b) * b + (x % b)
  OBVIOUS

\* There is one.
LEMMA Remainder ==
    ASSUME NEW b \in Nat \ {0}, NEW k \in Nat, NEW r \in 0..(b - 1), NEW x, x = k * b + r
    PROVE  x % b = r
<1>1. x \in Nat
  OBVIOUS
<1>2. PICK q \in Nat, u \in 0..(b - 1) : q = x \div b /\ u = x % b /\ x = q * b + u
  BY <1>1, Quotient
<1>3. q * b + u = k * b + r
  BY <1>2
<1>4. q * b \in Int /\ k * b \in Int /\ (q - k) * b = q * b - k * b
  OBVIOUS
<1>5. CASE q = k
  BY <1>2, <1>3, <1>4, <1>5
<1>6. CASE q > k
  <2>1. (q - k) * b >= b
    BY <1>6
  <2> QED
    BY <1>3, <1>4, <2>1
<1>7. CASE q < k
  <2>1. (k - q) * b >= b /\ (k - q) * b = k * b - q * b
    BY <1>7
  <2> QED
    BY <1>3, <1>4, <2>1
<1> QED
  BY <1>5, <1>6, <1>7

\* Positions are reduced to the ring ...
LEMMA InRing ==
    ASSUME NEW x \in Nat, x < RingSize
    PROVE  x % RingSize = x /\ (x + RingSize) % RingSize = x
<1>1. RingSize \in Nat \ {0} /\ x \in 0..(RingSize - 1)
  BY Sizes
<1>2. x = 0 * RingSize + x /\ x + RingSize = 1 * RingSize + x
  BY <1>1
<1> QED
  BY <1>1, <1>2, Remainder

\* ... and to their chunk.
LEMMA InOneChunk ==
    ASSUME NEW b \in Boundaries, NEW r \in 0..(ChunkSize - 1)
    PROVE  (b + r) % ChunkSize = r
<1>1. PICK k \in 0..(NumChunks - 1) : b = k * ChunkSize
  BY DEF Boundaries
<1>2. ChunkSize \in Nat \ {0} /\ k \in Nat
  BY Sizes, LayoutAssumption
<1> QED
  BY <1>1, <1>2, Remainder

\* The chunk before the one at b.
LEMMA PreviousBoundary ==
    ASSUME NEW b \in Boundaries
    PROVE  /\ (b + RingSize - ChunkSize) % RingSize \in Boundaries
           /\ NextBoundary((b + RingSize - ChunkSize) % RingSize) = b
           /\ (b + RingSize - ChunkSize) % RingSize =
                 IF b = 0 THEN RingSize - ChunkSize ELSE b - ChunkSize
           /\ b # 0 => ChunkSize <= b
<1>1. PICK k \in 0..(NumChunks - 1) : b = k * ChunkSize
  BY DEF Boundaries
<1>2. /\ ChunkSize \in Nat \ {0} /\ RingSize \in Nat \ {0} /\ ChunkSize <= RingSize
      /\ k \in Nat /\ NumChunks \in Nat \ {0} /\ b \in Nat /\ b + ChunkSize <= RingSize
  BY Sizes, LayoutAssumption, BoundaryStep
<1>3. CASE b = 0
  <2>1. b + RingSize - ChunkSize = RingSize - ChunkSize
    BY <1>2, <1>3
  <2>2. (RingSize - ChunkSize) % RingSize = RingSize - ChunkSize
    BY <1>2, InRing
  <2>3. (NumChunks - 1) * ChunkSize = RingSize - ChunkSize
    BY <1>2 DEF RingSize
  <2>4. RingSize - ChunkSize \in Boundaries
    BY <1>2, <2>3 DEF Boundaries
  <2>5. NextBoundary(RingSize - ChunkSize) = 0
    BY <1>2 DEF NextBoundary
  <2> QED
    BY <1>3, <2>1, <2>2, <2>4, <2>5
<1>4. CASE b # 0
  <2>1. k # 0 /\ k - 1 \in 0..(NumChunks - 1) /\ k - 1 \in Nat
    BY <1>1, <1>2, <1>4
  <2>2. (k - 1) * ChunkSize = b - ChunkSize /\ (k - 1) * ChunkSize \in Nat
    BY <1>1, <1>2, <2>1
  <2>3. b - ChunkSize \in Boundaries
    BY <2>1, <2>2 DEF Boundaries
  <2>4. b - ChunkSize \in Nat /\ b - ChunkSize < RingSize
    BY <1>2, <2>2
  <2>5. b + RingSize - ChunkSize = (b - ChunkSize) + RingSize
    BY <1>2
  <2>6. (b + RingSize - ChunkSize) % RingSize = b - ChunkSize
    BY <2>4, <2>5, InRing
  <2>7. NextBoundary(b - ChunkSize) = b
    BY <1>2 DEF NextBoundary
  <2> QED
    BY <1>2, <1>4, <2>3, <2>4, <2>6, <2>7
<1> QED
  BY <1>3, <1>4

\* The layout of the interface is the layout of the sink.
LEMMA SameRing ==
    /\ PacketView!Boundaries = Boundaries
    /\ \A p : /\ PacketView!Advance(p) = (p + PktSize) % RingSize
              /\ PacketView!EndsChunk(p) <=> (p % ChunkSize) + PktSize >= ChunkSize
              /\ PacketView!ToldAt(p) = NextBoundary(p - (p % ChunkSize))
<1>1. PacketView!ChunkSize = ChunkSize
  BY DEF PacketView!ChunkSize, ChunkSize
<1>2. PacketView!RingSize = RingSize
  BY <1>1 DEF PacketView!RingSize, RingSize
<1> QED
  BY <1>1, <1>2 DEF PacketView!Boundaries, Boundaries, PacketView!NextBoundary, NextBoundary,
                    PacketView!Advance, PacketView!EndsChunk, PacketView!ToldAt

\* A packet at r of the chunk at b that does not complete it.
LEMMA PacketWithin ==
    ASSUME NEW b \in Boundaries, NEW r \in Nat, r + PktSize < ChunkSize
    PROVE  /\ ~ PacketView!EndsChunk(b + r)
           /\ PacketView!Advance(b + r) = (b + r) + PktSize
<1>1. /\ b \in Nat /\ b + ChunkSize <= RingSize /\ PktSize \in Nat \ {0}
      /\ ChunkSize \in Nat \ {0} /\ RingSize \in Nat \ {0}
  BY Sizes, BoundaryStep
<1>2. r \in 0..(ChunkSize - 1)
  BY <1>1
<1>3. (b + r) % ChunkSize = r
  BY <1>2, InOneChunk
<1>4. (b + r) + PktSize \in Nat /\ (b + r) + PktSize < RingSize
  BY <1>1
<1>5. ((b + r) + PktSize) % RingSize = (b + r) + PktSize
  BY <1>4, InRing
<1>6. ~ (r + PktSize >= ChunkSize)
  BY <1>1
<1> QED
  BY <1>3, <1>5, <1>6, SameRing

\* One that completes it.
LEMMA PacketAcross ==
    ASSUME NEW b \in Boundaries, NEW r \in 0..(ChunkSize - 1), r + PktSize >= ChunkSize
    PROVE  /\ PacketView!EndsChunk(b + r)
           /\ PacketView!ToldAt(b + r) = NextBoundary(b)
           /\ PacketView!Advance(b + r) = NextBoundary(b) + ((r + PktSize) - ChunkSize)
<1>1. /\ b \in Nat /\ b + ChunkSize <= RingSize /\ PktSize \in Nat \ {0}
      /\ ChunkSize \in Nat \ {0} /\ RingSize \in Nat \ {0} /\ r \in Nat /\ r < ChunkSize
      /\ PktSize <= ChunkSize /\ ChunkSize <= RingSize
  BY Sizes, BoundaryStep
<1>2. (b + r) % ChunkSize = r /\ (b + r) - r = b
  <2>1. (b + r) % ChunkSize = r
    BY InOneChunk
  <2>2. (b + r) - r = b
    BY <1>1
  <2> QED
    BY <2>1, <2>2
<1>3. PacketView!EndsChunk(b + r) /\ PacketView!ToldAt(b + r) = NextBoundary(b)
  BY <1>2, SameRing
<1> DEFINE d == (r + PktSize) - ChunkSize
<1>4. d \in Nat /\ d < PktSize /\ (b + r) + PktSize = (b + ChunkSize) + d
  BY <1>1
<1> HIDE DEF d
<1>5. CASE b + ChunkSize = RingSize
  <2>1. d < RingSize /\ (b + r) + PktSize = d + RingSize
    BY <1>1, <1>4, <1>5
  <2>2. ((b + r) + PktSize) % RingSize = d
    BY <1>4, <2>1, InRing
  <2>3. NextBoundary(b) + d = d
    BY <1>4, <1>5 DEF NextBoundary
  <2> QED
    BY <1>3, <2>2, <2>3, SameRing DEF d
<1>6. CASE b + ChunkSize # RingSize
  <2>1. b + ChunkSize \in Boundaries
    BY <1>6, BoundaryStep
  <2>2. (b + ChunkSize) + ChunkSize <= RingSize
    BY <2>1, BoundaryStep
  <2>3. (b + ChunkSize) + d \in Nat /\ (b + ChunkSize) + d < RingSize
    BY <1>1, <1>4, <2>2
  <2>4. ((b + r) + PktSize) % RingSize = (b + ChunkSize) + d
    BY <1>4, <2>3, InRing
  <2>5. NextBoundary(b) = b + ChunkSize
    BY <1>6 DEF NextBoundary
  <2> QED
    BY <1>3, <2>4, <2>5, SameRing DEF d
<1> QED
  BY <1>5, <1>6

\* How much of the packet in progress is left: less than all of it once HandlePacket
\* has begun, and something that fits the empty buffer when it goes on.
Lefts ==
    /\ pc \notin {"down", "ready"} => left < PktSize
    /\ pc = "copy" => left > 0 /\ buf_pos = 0

ViewInv == IInv /\ Lefts

LEMMA LeftsStep ==
    ASSUME ViewInv, [Next]_vars
    PROVE  Lefts'
<1>1. IInv /\ Lefts
  BY DEF ViewInv
<1>2. /\ left \in Nat /\ buf_pos \in Nat /\ buf_pos <= BufferSize
      /\ PktSize \in Nat \ {0} /\ BufferSize \in Nat \ {0} /\ PktSize <= BufferSize
  BY <1>1, Numbers, Sizes DEF IInv
<1>3. CASE pc' \in {"down", "ready"}
  BY <1>3 DEF Lefts
<1>4. CASE HandlePacket
  <2>1. /\ pc = "ready" /\ left' = PktSize - Smaller(PktSize, BufferSize - buf_pos)
        /\ pc' \in {"write", "ready"}
    BY <1>4 DEF HandlePacket, FillBuffer
  <2>2. buf_pos < BufferSize
    BY <1>1, <2>1 DEF IInv, Positions
  <2>3. left' < PktSize
    BY <1>2, <2>1, <2>2 DEF Smaller
  <2> QED
    BY <2>1, <2>3 DEF Lefts
<1>5. CASE HandleRest
  <2>1. /\ pc = "copy" /\ left' = left - Smaller(left, BufferSize - buf_pos)
        /\ pc' \in {"write", "ready"}
    BY <1>5 DEF HandleRest, FillBuffer
  <2>2. left' = 0
    BY <1>1, <1>2, <2>1 DEF Lefts, Smaller
  <2> QED
    BY <1>2, <2>1, <2>2 DEF Lefts
<1>6. CASE Write \/ Sync \/ Notify \/ Trunc \/ Seek
  <2>1. left' = left /\ pc \notin {"down", "ready"}
    BY <1>6 DEF Write, Sync, Notify, Trunc, Seek, sink
  <2>2. pc' = "copy" => left # 0 /\ buf_pos' = 0
    <3>1. CASE Write
      BY <1>1, <3>1 DEF Write, AfterFlush, Lefts
    <3>2. CASE Sync \/ Trunc
      BY <3>2 DEF Sync, Trunc
    <3>3. CASE Notify \/ Seek
      <4>1. buf_pos' = buf_pos /\ (pc' = "copy" => left # 0) /\ pc \in {"notify", "seek"}
        BY <3>3 DEF Notify, Seek, AfterFlush, sink
      <4>2. buf_pos = 0
        BY <1>1, <4>1 DEF IInv, Positions
      <4> QED
        BY <4>1, <4>2
    <3> QED
      BY <1>6, <3>1, <3>2, <3>3
  <2>3. left < PktSize
    BY <1>1, <2>1 DEF Lefts
  <2> QED
    BY <1>2, <2>1, <2>2, <2>3 DEF Lefts
<1>7. CASE Start \/ Fail \/ End \/ Kill \/ PowerLoss
  BY <1>3, <1>7 DEF Start, Fail, End, Kill, PowerLoss
<1>8. CASE UNCHANGED vars
  <2>1. pc' = pc /\ left' = left /\ buf_pos' = buf_pos
    BY <1>8 DEF vars, sink
  <2> QED
    BY <1>1, <2>1 DEF Lefts
<1> QED
  BY <1>4, <1>5, <1>6, <1>7, <1>8 DEF Next

\* How far into its chunk the packet in progress, or the next one, starts.
PacketOffset ==
    IF pc = "ready" THEN chunk_pos + buf_pos
    ELSE IF pc = "write" THEN (chunk_pos + BufferSize) - Copied
    ELSE IF pc = "copy" /\ chunk_pos # 0 THEN chunk_pos - Copied
    ELSE ChunkSize - Copied

\* The packet starts in the chunk the observer was told of before it; if the
\* observer has been told during the packet, the packet completes that chunk.
LEMMA PacketPlace ==
    ASSUME ViewInv, pc # "down"
    PROVE  /\ PacketTold \in Boundaries /\ PacketOffset \in 0..(ChunkSize - 1)
           /\ PacketPos = PacketTold + PacketOffset
           /\ ToldInPacket => /\ NextBoundary(PacketTold) = last
                              /\ PacketOffset + PktSize >= ChunkSize
           /\ ~ ToldInPacket => PacketTold = last
<1>1. IInv /\ Lefts /\ TypeOK /\ Positions
  BY DEF ViewInv, IInv
<1>2. /\ left \in Nat /\ buf_pos \in Nat /\ buf_pos <= BufferSize /\ chunk_pos \in Nat
      /\ ring_pos \in Nat /\ last \in Boundaries /\ last \in Nat /\ last + ChunkSize <= RingSize
  BY <1>1, Numbers
<1>3. /\ PktSize \in Nat \ {0} /\ BufferSize \in Nat \ {0} /\ PktSize <= BufferSize
      /\ ChunkSize \in Nat \ {0} /\ BufferSize <= ChunkSize
      /\ RingSize \in Nat \ {0} /\ ChunkSize <= RingSize
  BY Sizes
<1>4. ASSUME pc \notin {"down", "ready"} PROVE Copied \in 1..PktSize
  BY <1>1, <1>2, <1>3, <1>4 DEF Lefts, Copied
<1>5. CASE pc = "ready"
  <2>1. /\ chunk_pos \in BufferStarts /\ ring_pos = last + chunk_pos + buf_pos
        /\ buf_pos < BufferSize
    BY <1>1, <1>5 DEF Positions
  <2>2. chunk_pos + BufferSize <= ChunkSize
    BY <2>1, BufferStep
  <2>3. PacketTold = last /\ PacketPos = ring_pos /\ PacketOffset = chunk_pos + buf_pos
        /\ ~ ToldInPacket
    BY <1>5 DEF PacketTold, PacketPos, PacketOffset, ToldInPacket, InPacket
  <2>4. chunk_pos + buf_pos \in 0..(ChunkSize - 1) /\ ring_pos = last + (chunk_pos + buf_pos)
    BY <1>2, <1>3, <2>1, <2>2
  <2> QED
    BY <1>2, <2>3, <2>4
<1>6. ASSUME pc \notin {"down", "ready"}
      PROVE  PacketPos = (ring_pos + RingSize - Copied) % RingSize
  BY <1>6 DEF PacketPos, InPacket
<1>7. CASE pc = "write"
  <2>1. /\ chunk_pos \in BufferStarts /\ ring_pos = last + chunk_pos + BufferSize
    BY <1>1, <1>7 DEF Positions
  <2>2. chunk_pos + BufferSize <= ChunkSize
    BY <2>1, BufferStep
  <2>3. PacketTold = last /\ PacketOffset = (chunk_pos + BufferSize) - Copied /\ ~ ToldInPacket
    BY <1>7 DEF PacketTold, PacketOffset, ToldInPacket
  <2>4. Copied \in 1..PktSize
    BY <1>4, <1>7
  <2>5. /\ PacketOffset \in 0..(ChunkSize - 1) /\ last + PacketOffset \in Nat
        /\ last + PacketOffset < RingSize
        /\ ring_pos + RingSize - Copied = (last + PacketOffset) + RingSize
    BY <1>2, <1>3, <2>1, <2>2, <2>3, <2>4
  <2>6. PacketPos = last + PacketOffset
    BY <1>6, <1>7, <2>5, InRing
  <2> QED
    BY <1>2, <2>3, <2>5, <2>6
<1>8. CASE pc = "copy" /\ chunk_pos # 0
  <2>1. chunk_pos \in BufferStarts /\ ring_pos = last + chunk_pos + buf_pos /\ buf_pos = 0
    BY <1>1, <1>8 DEF Positions, Lefts
  <2>2. chunk_pos + BufferSize <= ChunkSize /\ BufferSize <= chunk_pos
    <3>1. chunk_pos + BufferSize <= ChunkSize
      BY <2>1, BufferStep
    <3>2. PICK j \in 0..(BuffersPerChunk - 1) : chunk_pos = j * BufferSize
      BY <2>1 DEF BufferStarts
    <3>3. j \in Nat /\ j # 0
      BY <1>3, <1>8, <3>2, LayoutAssumption
    <3>4. 1 * BufferSize <= j * BufferSize
      BY <1>3, <3>3, Products
    <3> QED
      BY <1>3, <3>1, <3>2, <3>4
  <2>3. PacketTold = last /\ PacketOffset = chunk_pos - Copied /\ ~ ToldInPacket
    BY <1>8 DEF PacketTold, PacketOffset, ToldInPacket
  <2>4. Copied \in 1..PktSize
    BY <1>4, <1>8
  <2>5. /\ PacketOffset \in 0..(ChunkSize - 1) /\ last + PacketOffset \in Nat
        /\ last + PacketOffset < RingSize
        /\ ring_pos + RingSize - Copied = (last + PacketOffset) + RingSize
    BY <1>2, <1>3, <2>1, <2>2, <2>3, <2>4
  <2>6. PacketPos = last + PacketOffset
    BY <1>6, <1>8, <2>5, InRing
  <2> QED
    BY <1>2, <2>3, <2>5, <2>6
<1>9. CASE pc \in {"sync", "notify"}
  <2>1. ring_pos = last + ChunkSize
    BY <1>1, <1>9 DEF Positions
  <2>2. PacketTold = last /\ PacketOffset = ChunkSize - Copied /\ ~ ToldInPacket
    BY <1>9 DEF PacketTold, PacketOffset, ToldInPacket
  <2>3. Copied \in 1..PktSize
    BY <1>4, <1>9
  <2>4. /\ PacketOffset \in 0..(ChunkSize - 1) /\ last + PacketOffset \in Nat
        /\ last + PacketOffset < RingSize
        /\ ring_pos + RingSize - Copied = (last + PacketOffset) + RingSize
    BY <1>2, <1>3, <2>1, <2>2, <2>3
  <2>5. PacketPos = last + PacketOffset
    BY <1>6, <1>9, <2>4, InRing
  <2> QED
    BY <1>2, <2>2, <2>4, <2>5
<1>10. CASE pc \in {"trunc", "seek"} \/ (pc = "copy" /\ chunk_pos = 0)
  <2>1. /\ pc = "copy" => ring_pos = last
        /\ pc # "copy" => ring_pos = RingSize /\ last = 0
    BY <1>1, <1>2, <1>10 DEF Positions, Lefts
  <2>2. /\ PacketTold = (last + RingSize - ChunkSize) % RingSize
        /\ PacketOffset = ChunkSize - Copied /\ ToldInPacket
    BY <1>10 DEF PacketTold, PacketOffset, ToldInPacket
  <2>3. Copied \in 1..PktSize
    BY <1>4, <1>10
  <2>4. /\ PacketTold \in Boundaries /\ NextBoundary(PacketTold) = last
        /\ PacketTold = IF last = 0 THEN RingSize - ChunkSize ELSE last - ChunkSize
        /\ last # 0 => ChunkSize <= last
    BY <1>2, <2>2, PreviousBoundary
  <2>5. PacketTold \in Nat /\ PacketTold + ChunkSize <= RingSize
    BY <2>4, BoundaryStep
  <2>6. /\ PacketOffset \in 0..(ChunkSize - 1) /\ PacketOffset + PktSize >= ChunkSize
        /\ PacketTold + PacketOffset \in Nat /\ PacketTold + PacketOffset < RingSize
    BY <1>3, <2>2, <2>3, <2>5
  <2>7. PacketPos = PacketTold + PacketOffset
    <3>1. CASE ring_pos = RingSize \/ last # 0
      <4>1. ring_pos + RingSize - Copied = (PacketTold + PacketOffset) + RingSize
        BY <1>2, <1>3, <2>1, <2>2, <2>3, <2>4, <3>1
      <4> QED
        BY <1>6, <1>10, <2>6, <4>1, InRing
    <3>2. CASE ring_pos # RingSize /\ last = 0
      <4>1. ring_pos + RingSize - Copied = PacketTold + PacketOffset
        BY <1>2, <1>3, <2>1, <2>2, <2>3, <2>4, <3>2
      <4> QED
        BY <1>6, <1>10, <2>6, <4>1, InRing
    <3> QED
      BY <3>1, <3>2
  <2> QED
    BY <2>2, <2>4, <2>6, <2>7
<1> QED
  BY <1>1, <1>5, <1>7, <1>8, <1>9, <1>10 DEF TypeOK

\* HandlePacket has returned, and no chunk ended in it.
LEMMA TakenWithin ==
    ASSUME ViewInv, pc # "down", pc' = "ready", ~ ToldInPacket,
           PacketOffset + PktSize < ChunkSize, ring_pos' = PacketPos + PktSize, last' = last
    PROVE  PacketView!HandlePacket
<1>1. PacketPos' = ring_pos' /\ PacketTold' = last'
  BY DEF PacketPos, PacketTold, InPacket, ToldInPacket
<1>2. /\ PacketTold \in Boundaries /\ PacketOffset \in 0..(ChunkSize - 1)
      /\ PacketPos = PacketTold + PacketOffset /\ PacketTold = last
  BY PacketPlace
<1>3. PICK b \in Boundaries, r \in Nat : b = PacketTold /\ r = PacketOffset
  BY <1>2
<1>4. ~ PacketView!EndsChunk(b + r) /\ PacketView!Advance(b + r) = (b + r) + PktSize
  BY <1>3, PacketWithin
<1>5. ~ PacketView!EndsChunk(PacketPos) /\ PacketPos' = PacketView!Advance(PacketPos)
  BY <1>1, <1>2, <1>3, <1>4
<1> QED
  BY <1>1, <1>2, <1>5 DEF PacketView!HandlePacket

\* HandlePacket has returned, and has told the observer of the next chunk.
LEMMA TakenAcross ==
    ASSUME ViewInv, pc # "down", pc' = "ready", PacketOffset + PktSize >= ChunkSize,
           last' = NextBoundary(PacketTold),
           ring_pos' = last' + ((PacketOffset + PktSize) - ChunkSize)
    PROVE  PacketView!HandlePacket
<1>1. PacketPos' = ring_pos' /\ PacketTold' = last'
  BY DEF PacketPos, PacketTold, InPacket, ToldInPacket
<1>2. /\ PacketTold \in Boundaries /\ PacketOffset \in 0..(ChunkSize - 1)
      /\ PacketPos = PacketTold + PacketOffset
  BY PacketPlace
<1>3. PICK b \in Boundaries, r \in 0..(ChunkSize - 1) : b = PacketTold /\ r = PacketOffset
  BY <1>2
<1>4. /\ PacketView!EndsChunk(b + r) /\ PacketView!ToldAt(b + r) = NextBoundary(b)
      /\ PacketView!Advance(b + r) = NextBoundary(b) + ((r + PktSize) - ChunkSize)
  BY <1>3, PacketAcross
<1>5. /\ PacketView!EndsChunk(PacketPos) /\ PacketTold' = PacketView!ToldAt(PacketPos)
      /\ PacketPos' = PacketView!Advance(PacketPos)
  BY <1>1, <1>2, <1>3, <1>4
<1> QED
  BY <1>5 DEF PacketView!HandlePacket

\* A call of HandlePacket goes on.
LEMMA NotTaken ==
    ASSUME pc = "down" <=> pc' = "down", PacketPos' = PacketPos, PacketTold' = PacketTold
    PROVE  UNCHANGED PacketView!ringVars
  BY DEF PacketView!ringVars

\* A session ends after a report or without one.
LEMMA Stopped ==
    ASSUME ViewInv, pc # "down", pc' = "down", last' \in {0, last}
    PROVE  PacketView!Next
<1>1. PacketPos' = 0 /\ PacketTold' = last'
  BY DEF PacketPos, PacketTold, ToldInPacket
<1>2. last \in PacketView!MayBeTold
  <2>1. CASE ToldInPacket
    <3>1. PICK b \in Boundaries, r \in 0..(ChunkSize - 1) :
             /\ b = PacketTold /\ r = PacketOffset /\ PacketPos = b + r
             /\ NextBoundary(b) = last /\ r + PktSize >= ChunkSize
      BY <2>1, PacketPlace
    <3>2. PacketView!EndsChunk(b + r) /\ PacketView!ToldAt(b + r) = NextBoundary(b)
      BY <3>1, PacketAcross
    <3> QED
      BY <3>1, <3>2 DEF PacketView!MayBeTold
  <2>2. CASE ~ ToldInPacket
    <3>1. PacketTold = last
      BY <2>2, PacketPlace
    <3> QED
      BY <3>1 DEF PacketView!MayBeTold
  <2> QED
    BY <2>1, <2>2
<1>3. last' \in PacketView!MayBeTold \cup {0}
  BY <1>2
<1>4. PacketView!Stop(last')
  BY <1>1 DEF PacketView!Stop
<1> QED
  BY <1>3, <1>4 DEF PacketView!Next

\* FillBuffer takes the packet, or is followed by a write.
LEMMA ViewHandlePacket ==
    ASSUME ViewInv, HandlePacket
    PROVE  [PacketView!Next]_(PacketView!ringVars)
<1> DEFINE n == Smaller(PktSize, BufferSize - buf_pos)
<1>1. /\ pc = "ready" /\ buf_pos' = buf_pos + n /\ ring_pos' = ring_pos + n
      /\ left' = PktSize - n /\ pc' = (IF buf_pos + n = BufferSize THEN "write" ELSE "ready")
      /\ last' = last
  BY DEF HandlePacket, FillBuffer, app
<1>2. /\ buf_pos \in Nat /\ chunk_pos \in Nat /\ ring_pos \in Nat /\ last \in Nat
      /\ last + ChunkSize <= RingSize
  BY Numbers DEF ViewInv, IInv
<1>3. /\ chunk_pos \in BufferStarts /\ ring_pos = last + chunk_pos + buf_pos
      /\ buf_pos < BufferSize
  BY <1>1 DEF ViewInv, IInv, Positions
<1>4. chunk_pos + BufferSize <= ChunkSize
  BY <1>3, BufferStep
<1>5. PacketPos = ring_pos /\ PacketOffset = chunk_pos + buf_pos /\ ~ ToldInPacket
      /\ PacketTold = last
  BY <1>1 DEF PacketPos, InPacket, PacketOffset, ToldInPacket, PacketTold
<1>6. n \in Nat /\ (n = PktSize \/ buf_pos + n = BufferSize) /\ buf_pos + n <= BufferSize
  BY <1>2, <1>3, Sizes DEF Smaller
<1> HIDE DEF n
<1>7. CASE buf_pos + n = BufferSize
  <2>1. pc' = "write" /\ Copied' = n
    BY <1>1, <1>6, <1>7, Sizes DEF Copied
  <2>2. ring_pos' + RingSize - n = ring_pos + RingSize /\ ring_pos < RingSize
    BY <1>1, <1>2, <1>3, <1>4, <1>6, Sizes
  <2>3. PacketPos' = (ring_pos' + RingSize - n) % RingSize
    BY <2>1 DEF PacketPos, InPacket
  <2>4. (ring_pos + RingSize) % RingSize = ring_pos
    BY <1>2, <2>2, InRing
  <2>5. PacketPos' = ring_pos
    BY <2>2, <2>3, <2>4
  <2>6. PacketTold' = last
    BY <1>1, <2>1 DEF PacketTold, ToldInPacket
  <2> QED
    BY <1>1, <1>5, <2>1, <2>5, <2>6, NotTaken
<1>8. CASE buf_pos + n # BufferSize
  <2>1. pc' = "ready" /\ n = PktSize
    BY <1>1, <1>6, <1>8
  <2>2. PacketOffset + PktSize < ChunkSize
    BY <1>2, <1>4, <1>5, <1>6, <1>8, <2>1, Sizes
  <2>3. PacketView!HandlePacket
    BY <1>1, <1>5, <2>1, <2>2, TakenWithin
  <2> QED
    BY <2>3 DEF PacketView!Next
<1> QED
  BY <1>7, <1>8

\* The rest of a packet ends the call.
LEMMA ViewHandleRest ==
    ASSUME ViewInv, HandleRest
    PROVE  PacketView!HandlePacket
<1>1. /\ pc = "copy" /\ buf_pos = 0 /\ left > 0 /\ left < PktSize
      /\ chunk_pos \in BufferStarts /\ ring_pos = last + chunk_pos + buf_pos
  BY DEF HandleRest, ViewInv, Lefts, IInv, Positions
<1>2. /\ left \in Nat /\ chunk_pos \in Nat /\ ring_pos \in Nat /\ last \in Nat
  BY Numbers DEF ViewInv, IInv
<1>3. chunk_pos + BufferSize <= ChunkSize
  BY <1>1, BufferStep
<1>4. /\ ChunkSize \in Nat /\ PktSize \in Nat /\ BufferSize \in Nat /\ PktSize <= BufferSize
  BY Sizes
<1>5. Smaller(left, BufferSize - buf_pos) = left /\ buf_pos + left # BufferSize
  BY <1>1, <1>2, <1>4 DEF Smaller
<1>6. ring_pos' = ring_pos + left /\ pc' = "ready" /\ last' = last
  BY <1>5 DEF HandleRest, FillBuffer, app
<1>7. Copied = PktSize - left
  BY DEF Copied
<1>8. CASE chunk_pos = 0
  <2>1. PacketOffset = ChunkSize - Copied /\ ToldInPacket
    BY <1>1, <1>8 DEF PacketOffset, ToldInPacket
  <2>2. NextBoundary(PacketTold) = last /\ PacketOffset + PktSize >= ChunkSize
    BY <1>1, <2>1, PacketPlace
  <2>3. ring_pos' = last' + ((PacketOffset + PktSize) - ChunkSize)
    BY <1>1, <1>2, <1>4, <1>6, <1>7, <1>8, <2>1
  <2> QED
    BY <1>1, <1>6, <2>2, <2>3, TakenAcross
<1>9. CASE chunk_pos # 0
  <2>1. PacketOffset = chunk_pos - Copied /\ ~ ToldInPacket
    BY <1>1, <1>9 DEF PacketOffset, ToldInPacket
  <2>2. PacketPos = last + PacketOffset
    BY <1>1, <2>1, PacketPlace
  <2>3. PacketOffset + PktSize < ChunkSize /\ ring_pos' = PacketPos + PktSize
    BY <1>1, <1>2, <1>3, <1>4, <1>6, <1>7, <2>1, <2>2
  <2> QED
    BY <1>1, <1>6, <2>1, <2>3, TakenWithin
<1> QED
  BY <1>8, <1>9

\* A write ends the call when it empties the buffer with nothing left of the packet
\* and the chunk not full.
LEMMA ViewWrite ==
    ASSUME ViewInv, Write
    PROVE  [PacketView!Next]_(PacketView!ringVars)
<1>1. /\ pc = "write" /\ ring_pos' = ring_pos /\ left' = left /\ last' = last
  BY DEF Write, app
<1>2. \/ pc' = "write"
      \/ /\ chunk_pos' = chunk_pos + BufferSize
         /\ pc' = IF chunk_pos + BufferSize = ChunkSize THEN "sync" ELSE AfterFlush
  BY <1>1 DEF Write
<1>3. /\ chunk_pos \in Nat /\ last \in Nat /\ left \in Nat /\ ring_pos \in Nat
  BY Numbers DEF ViewInv, IInv
<1>4. /\ ChunkSize \in Nat /\ PktSize \in Nat /\ BufferSize \in Nat \ {0}
      /\ PktSize <= BufferSize
  BY Sizes
<1>5. /\ chunk_pos \in BufferStarts /\ ring_pos = last + chunk_pos + BufferSize
  BY <1>1 DEF ViewInv, IInv, Positions
<1>6. chunk_pos + BufferSize <= ChunkSize
  BY <1>5, BufferStep
<1>7. PacketOffset = (chunk_pos + BufferSize) - Copied /\ ~ ToldInPacket /\ PacketTold = last
  BY <1>1 DEF PacketOffset, ToldInPacket, PacketTold
<1>8. CASE pc' = "ready"
  <2>1. left = 0 /\ chunk_pos + BufferSize # ChunkSize
    BY <1>2, <1>8 DEF AfterFlush
  <2>2. Copied = PktSize
    BY <1>4, <2>1 DEF Copied
  <2>3. PacketPos = last + PacketOffset
    BY <1>1, <1>7, PacketPlace
  <2>4. PacketOffset + PktSize < ChunkSize /\ ring_pos' = PacketPos + PktSize
    BY <1>1, <1>3, <1>4, <1>5, <1>6, <1>7, <2>1, <2>2, <2>3
  <2>5. PacketView!HandlePacket
    BY <1>1, <1>7, <1>8, <2>4, TakenWithin
  <2> QED
    BY <2>5 DEF PacketView!Next
<1>9. CASE pc' # "ready"
  <2>1. pc' \in {"write", "sync", "copy"}
    BY <1>2, <1>9 DEF AfterFlush
  <2>2. PacketPos' = PacketPos
    BY <1>1, <2>1 DEF PacketPos, InPacket, Copied
  <2>3. pc' = "copy" => chunk_pos' # 0
    BY <1>2, <1>3, <1>4
  <2>4. PacketTold' = PacketTold
    BY <1>1, <1>7, <2>1, <2>3 DEF PacketTold, ToldInPacket
  <2> QED
    BY <1>1, <2>1, <2>2, <2>4, NotTaken
<1> QED
  BY <1>8, <1>9

\* The report ends the call when nothing is left of the packet and the ring goes on.
LEMMA ViewNotify ==
    ASSUME ViewInv, Notify
    PROVE  [PacketView!Next]_(PacketView!ringVars)
<1>1. /\ pc = "notify" /\ ring_pos' = ring_pos /\ left' = left /\ chunk_pos' = chunk_pos
      /\ last' = (IF ring_pos = RingSize THEN 0 ELSE ring_pos)
      /\ pc' = (IF ring_pos = RingSize THEN "trunc" ELSE AfterFlush)
  BY DEF Notify, OnEndOfChunk, sink
<1>2. ring_pos = last + ChunkSize /\ chunk_pos = 0
  BY <1>1 DEF ViewInv, IInv, Positions
<1>3. /\ last \in Boundaries /\ last \in Nat /\ last + ChunkSize <= RingSize /\ left \in Nat
      /\ left < PktSize
  BY <1>1, Numbers DEF ViewInv, IInv, Lefts
<1>4. /\ ChunkSize \in Nat \ {0} /\ PktSize \in Nat /\ RingSize \in Nat
  BY Sizes
<1>5. last' = NextBoundary(last)
  BY <1>1, <1>2 DEF NextBoundary
<1>6. PacketOffset = ChunkSize - Copied /\ PacketTold = last
  BY <1>1 DEF PacketOffset, ToldInPacket, PacketTold
<1>7. CASE pc' = "ready"
  <2>1. left = 0 /\ ring_pos # RingSize
    BY <1>1, <1>7 DEF AfterFlush
  <2>2. Copied = PktSize
    BY <1>4, <2>1 DEF Copied
  <2>3. /\ PacketOffset + PktSize >= ChunkSize
        /\ ring_pos' = last' + ((PacketOffset + PktSize) - ChunkSize)
    BY <1>1, <1>2, <1>3, <1>4, <1>6, <2>1, <2>2
  <2>4. PacketView!HandlePacket
    BY <1>1, <1>5, <1>6, <1>7, <2>3, TakenAcross
  <2> QED
    BY <2>4 DEF PacketView!Next
<1>8. CASE pc' # "ready"
  <2>1. pc' \in {"trunc", "copy"}
    BY <1>1, <1>8 DEF AfterFlush
  <2>2. PacketPos' = PacketPos
    BY <1>1, <2>1 DEF PacketPos, InPacket, Copied
  <2>3. PacketTold' = (last' + RingSize - ChunkSize) % RingSize
    BY <1>1, <1>2, <2>1 DEF PacketTold, ToldInPacket
  <2>4. last % RingSize = last /\ (last + RingSize) % RingSize = last
    BY <1>3, <1>4, InRing
  <2>5. last' + RingSize - ChunkSize \in {last, last + RingSize}
    BY <1>1, <1>2, <1>3, <1>4
  <2>6. PacketTold' = last
    BY <2>3, <2>4, <2>5
  <2> QED
    BY <1>1, <1>6, <2>1, <2>2, <2>6, NotTaken
<1> QED
  BY <1>7, <1>8

\* The lseek back to the start ends the call when nothing is left of the packet.
LEMMA ViewSeek ==
    ASSUME ViewInv, Seek
    PROVE  [PacketView!Next]_(PacketView!ringVars)
<1>1. /\ pc = "seek" /\ ring_pos' = 0 /\ left' = left /\ chunk_pos' = chunk_pos
      /\ last' = last /\ pc' = AfterFlush
  BY DEF Seek, app
<1>2. ring_pos = RingSize /\ chunk_pos = 0 /\ last = 0 /\ left < PktSize
  BY <1>1 DEF ViewInv, IInv, Positions, Lefts
<1>3. left \in Nat
  BY Numbers DEF ViewInv, IInv
<1>4. /\ ChunkSize \in Nat \ {0} /\ PktSize \in Nat /\ RingSize \in Nat
      /\ PktSize <= ChunkSize /\ ChunkSize <= RingSize
  BY Sizes
<1>5. /\ PacketOffset = ChunkSize - Copied /\ ToldInPacket
      /\ PacketTold = (last + RingSize - ChunkSize) % RingSize
      /\ PacketPos = (ring_pos + RingSize - Copied) % RingSize
  BY <1>1 DEF PacketOffset, ToldInPacket, PacketTold, PacketPos, InPacket
<1>6. CASE left = 0
  <2>1. pc' = "ready" /\ Copied = PktSize
    BY <1>1, <1>4, <1>6 DEF AfterFlush, Copied
  <2>2. last' = NextBoundary(PacketTold)
    BY <1>1, <1>5, PacketPlace
  <2>3. /\ PacketOffset + PktSize >= ChunkSize
        /\ ring_pos' = last' + ((PacketOffset + PktSize) - ChunkSize)
    BY <1>1, <1>2, <1>4, <1>5, <2>1
  <2>4. PacketView!HandlePacket
    BY <1>1, <2>1, <2>2, <2>3, TakenAcross
  <2> QED
    BY <2>4 DEF PacketView!Next
<1>7. CASE left # 0
  <2>1. pc' = "copy" /\ Copied' = Copied
    BY <1>1, <1>7 DEF AfterFlush, Copied
  <2>2. /\ PacketTold' = (last' + RingSize - ChunkSize) % RingSize
        /\ PacketPos' = (ring_pos' + RingSize - Copied) % RingSize
    BY <1>1, <1>2, <2>1 DEF PacketTold, ToldInPacket, PacketPos, InPacket
  <2>3. RingSize - Copied \in Nat /\ RingSize - Copied < RingSize
    BY <1>2, <1>3, <1>4 DEF Copied
  <2>4. /\ (RingSize - Copied) % RingSize = RingSize - Copied
        /\ ((RingSize - Copied) + RingSize) % RingSize = RingSize - Copied
    BY <2>3, InRing
  <2>5. /\ ring_pos + RingSize - Copied = (RingSize - Copied) + RingSize
        /\ ring_pos' + RingSize - Copied = RingSize - Copied
    BY <1>1, <1>2, <1>3, <1>4 DEF Copied
  <2>6. PacketPos' = PacketPos
    BY <1>5, <2>2, <2>4, <2>5
  <2>7. PacketTold' = PacketTold
    BY <1>1, <1>5, <2>2
  <2> QED
    BY <1>1, <2>1, <2>6, <2>7, NotTaken
<1> QED
  BY <1>6, <1>7

\* Every other step begins or ends a session, or is inside a call.
LEMMA ViewOthers ==
    ASSUME ViewInv, Start \/ Sync \/ Trunc \/ Fail \/ End \/ Kill \/ PowerLoss \/ UNCHANGED vars
    PROVE  [PacketView!Next]_(PacketView!ringVars)
<1>1. last \in Boundaries
  BY Numbers DEF ViewInv, IInv
<1>2. CASE Start
  <2>1. pc = "down" /\ PacketPos = 0 /\ PacketTold = last /\ last' = last
    BY <1>2 DEF Start, PacketPos, PacketTold, ToldInPacket, app
  <2>2. CASE pc' = "ready"
    <3>1. ring_pos' = last
      BY <1>2, <2>1, <2>2 DEF Start
    <3>2. PacketPos' = last /\ PacketTold' = last
      BY <2>1, <2>2, <3>1 DEF PacketPos, PacketTold, InPacket, ToldInPacket
    <3>3. PacketView!Start(last)
      BY <2>1, <2>2, <3>2 DEF PacketView!Start
    <3> QED
      BY <1>1, <3>3, SameRing DEF PacketView!Next
  <2>3. CASE pc' # "ready"
    <3>1. pc' = "down"
      BY <1>2, <2>1, <2>3 DEF Start
    <3>2. PacketPos' = 0 /\ PacketTold' = last
      BY <2>1, <3>1 DEF PacketPos, PacketTold, ToldInPacket
    <3> QED
      BY <2>1, <3>1, <3>2, NotTaken
  <2> QED
    BY <2>2, <2>3
<1>3. CASE Sync
  <2>1. /\ pc = "sync" /\ pc' = "notify" /\ ring_pos' = ring_pos /\ left' = left
        /\ last' = last
    BY <1>3 DEF Sync, app
  <2>2. PacketPos' = PacketPos /\ PacketTold' = PacketTold
    BY <2>1 DEF PacketPos, PacketTold, InPacket, ToldInPacket, Copied
  <2> QED
    BY <2>1, <2>2, NotTaken
<1>4. CASE Trunc
  <2>1. /\ pc = "trunc" /\ pc' = "seek" /\ ring_pos' = ring_pos /\ left' = left
        /\ last' = last
    BY <1>4 DEF Trunc, sink, app
  <2>2. PacketPos' = PacketPos /\ PacketTold' = PacketTold
    BY <2>1 DEF PacketPos, PacketTold, InPacket, ToldInPacket, Copied
  <2> QED
    BY <2>1, <2>2, NotTaken
<1>5. CASE Fail \/ End \/ Kill \/ (PowerLoss /\ pc # "down")
  <2>1. pc # "down" /\ pc' = "down" /\ last' \in {0, last}
    BY <1>5 DEF Fail, End, Kill, PowerLoss, app
  <2> QED
    BY <2>1, Stopped
<1>6. CASE PowerLoss /\ pc = "down"
  <2>1. pc = "down" /\ pc' = "down" /\ last' = last
    BY <1>6 DEF PowerLoss, app
  <2>2. PacketPos' = PacketPos /\ PacketTold' = PacketTold
    BY <2>1 DEF PacketPos, PacketTold, ToldInPacket
  <2> QED
    BY <2>1, <2>2, NotTaken
<1>7. CASE UNCHANGED vars
  <2>1. /\ pc' = pc /\ ring_pos' = ring_pos /\ left' = left /\ last' = last
        /\ chunk_pos' = chunk_pos
    BY <1>7 DEF vars, sink, app
  <2>2. PacketPos' = PacketPos /\ PacketTold' = PacketTold
    BY <2>1 DEF PacketPos, PacketTold, InPacket, ToldInPacket, Copied
  <2> QED
    BY <2>1, <2>2, NotTaken
<1> QED
  BY <1>2, <1>3, <1>4, <1>5, <1>6, <1>7

\* The sink implements the interface ServiceRecorder is written against, for every
\* layout of the ring: whatever short writes, failures and ends of the process come
\* in between, a call of HandlePacket moves pos() by one packet around the ring, and
\* the observer is told of each chunk once, by the packet that completes it.
THEOREM RefinesPacketRingSink == Spec => ImplementsPacketRingSink
<1>1. Init => ViewInv
  BY InitInv DEF ViewInv, Lefts, Init
<1>2. ViewInv /\ [Next]_vars => ViewInv'
  BY NextInv, LeftsStep DEF ViewInv
<1>3. Init => PacketView!Init
  BY DEF Init, PacketView!Init, PacketPos, PacketTold, ToldInPacket
<1>4. ViewInv /\ [Next]_vars => [PacketView!Next]_(PacketView!ringVars)
  <2> SUFFICES ASSUME ViewInv, [Next]_vars PROVE [PacketView!Next]_(PacketView!ringVars)
    OBVIOUS
  <2>1. CASE HandlePacket
    BY <2>1, ViewHandlePacket
  <2>2. CASE HandleRest
    BY <2>2, ViewHandleRest DEF PacketView!Next
  <2>3. CASE Write \/ Notify \/ Seek
    BY <2>3, ViewWrite, ViewNotify, ViewSeek
  <2>4. CASE Start \/ Sync \/ Trunc \/ Fail \/ End \/ Kill \/ PowerLoss \/ UNCHANGED vars
    BY <2>4, ViewOthers
  <2> QED
    BY <2>1, <2>2, <2>3, <2>4 DEF Next
<1> QED
  BY <1>1, <1>2, <1>3, <1>4, PTL DEF Spec, ImplementsPacketRingSink, PacketView!Spec

=============================================================================
