----------------------------- MODULE RingLayout -----------------------------
(***************************************************************************)
(* The layout of a ring buffer file of `record-service`: NumChunks chunks  *)
(* of ChunkSize bytes, each a whole number of write buffers.  TS packets   *)
(* have PktSize bytes, which need not divide the buffer: a packet may      *)
(* straddle a buffer, a chunk or the end of the ring.                      *)
(*                                                                         *)
(* Sizes are in an arbitrary unit ("byte" below); the program has          *)
(* PktSize = 188 and BufferSize = 8192, and checks the other relations in  *)
(* LoadOption and again in the constructor of RingFileSink.                *)
(***************************************************************************)
EXTENDS Integers

CONSTANTS
    PktSize,         \* ts::PKT_SIZE
    BufferSize,      \* RingFileSink::kBufferSize
    BuffersPerChunk, \* chunk_size / kBufferSize, the remainder being zero
    NumChunks        \* num_chunks

ASSUME LayoutAssumption ==
    /\ BufferSize \in Nat \ {0}
    /\ PktSize \in 1..BufferSize
    /\ BuffersPerChunk \in Nat \ {0}
    /\ NumChunks \in Nat \ {0}

ChunkSize == BuffersPerChunk * BufferSize

RingSize == NumChunks * ChunkSize

\* The positions SetPosition and --start-pos accept, and the ones reported.
Boundaries == {k * ChunkSize : k \in 0..(NumChunks - 1)}

\* The chunk that follows the one at b, around the ring.
NextBoundary(b) == IF b + ChunkSize = RingSize THEN 0 ELSE b + ChunkSize

=============================================================================
