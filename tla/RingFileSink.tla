---------------------------- MODULE RingFileSink ----------------------------
(***************************************************************************)
(* RingFileSink (ring_file_sink.hh) writing to a POSIX file (PosixFile in  *)
(* main.cc), with the system calls it makes one at a time: any of them may *)
(* fail, write(2) may be short, and the process or the machine may stop    *)
(* between any two of them.  The application then starts `record-service`  *)
(* again with --start-pos set to the last position it was told.            *)
(*                                                                         *)
(* A byte of the stream is its number: 1 is the first byte handed to any   *)
(* session, and 0 stands for whatever the file held before.                *)
(***************************************************************************)
EXTENDS RingLayout

CONSTANTS
    MaxBytes,   \* bound: bytes handed to the sink over all the sessions
    MaxStops,   \* bound: sessions that end
    OldSize     \* the size of a file found at the first start, if there is one

ASSUME BoundAssumption == MaxBytes \in Nat /\ MaxStops \in Nat /\ OldSize \in Nat

VARIABLES
    pc,         \* the next thing the sink does
    left,       \* bytes of the current packet not yet copied
    nwritten,   \* bytes of the buffer already written by Flush
    buf,        \* buf_
    buf_pos,    \* buf_pos_
    chunk_pos,  \* chunk_pos_
    ring_pos,   \* ring_pos_
    offset,     \* the offset of the file descriptor
    cache,      \* the file as read(2) sees it: its bytes and its size
    disk,       \* the file as it survives a power loss
    fed,        \* the number of the last byte copied into the buffer
    stops,      \* sessions ended so far
    last,       \* the application: the last position a `chunk` message named
    held        \* the application: chunk -> first byte it should hold, or 0

sink == <<left, nwritten, buf, buf_pos, chunk_pos, ring_pos>>
file == <<offset, cache, disk>>
app == <<last, held>>
vars == <<pc, sink, file, fed, stops, app>>

Offsets == 0..(RingSize - 1)

Smaller(a, b) == IF a < b THEN a ELSE b
Larger(a, b) == IF a < b THEN b ELSE a

Init ==
    /\ pc = "down"
    /\ left = 0
    /\ nwritten = 0
    /\ buf = [i \in 0..(BufferSize - 1) |-> 0]
    /\ buf_pos = 0
    /\ chunk_pos = 0
    /\ ring_pos = 0
    /\ offset = 0
    /\ \E n \in {0, OldSize} :
          /\ cache = [data |-> [o \in Offsets |-> 0], size |-> n]
          /\ disk = cache
    /\ fed = 0
    /\ stops = 0
    /\ last = 0
    /\ held = [b \in Boundaries |-> 0]

-----------------------------------------------------------------------------
(* One session: open, position, take packets. *)

\* The file is opened without O_TRUNC, so what it holds stays.
\* SetPosition is called only for a position other than 0; when its lseek
\* fails, Start returns false and the process exits with nothing done.
Start ==
    /\ pc = "down"
    /\ stops < MaxStops
    /\ \/ /\ pc' = "ready"
          /\ offset' = last
          /\ ring_pos' = last
          /\ stops' = stops
       \/ /\ last # 0
          /\ stops' = stops + 1
          /\ UNCHANGED <<pc, offset, ring_pos>>
    /\ left' = 0
    /\ nwritten' = 0
    /\ buf_pos' = 0
    /\ chunk_pos' = 0
    /\ UNCHANGED <<buf, cache, disk, fed, app>>

\* FillBuffer(size): copies what fits of the rest of the packet.
FillBuffer(size) ==
    LET n == Smaller(size, BufferSize - buf_pos) IN
    /\ buf' = [i \in 0..(BufferSize - 1) |->
                 IF i >= buf_pos /\ i < buf_pos + n
                 THEN fed + 1 + (i - buf_pos) ELSE buf[i]]
    /\ buf_pos' = buf_pos + n
    /\ ring_pos' = ring_pos + n
    /\ fed' = fed + n
    /\ left' = size - n
    /\ pc' = IF buf_pos + n = BufferSize THEN "write" ELSE "ready"
    /\ UNCHANGED <<nwritten, chunk_pos, file, stops, app>>

\* HandlePacket up to the first flush.
HandlePacket ==
    /\ pc = "ready"
    /\ fed + PktSize <= MaxBytes
    /\ FillBuffer(PktSize)

\* The second turn of the loop in HandlePacket: the rest of a packet that
\* straddles two buffers.
HandleRest ==
    /\ pc = "copy"
    /\ FillBuffer(left)

\* A mutant: the loop of HandlePacket runs once.
AfterFlush_DropsRest == "ready"

\* Where HandlePacket goes when Flush has returned true.
AfterFlush == IF left = 0 THEN "ready" ELSE "copy"

\* One write(2) of Flush: 1..(what is left) bytes reach the file.
Write ==
    /\ pc = "write"
    /\ \E n \in 1..(BufferSize - nwritten) :
          /\ cache' = [data |-> [o \in Offsets |->
                                   IF o >= offset /\ o < offset + n
                                   THEN buf[nwritten + (o - offset)]
                                   ELSE cache.data[o]],
                       size |-> Larger(cache.size, offset + n)]
          /\ offset' = offset + n
          /\ IF nwritten + n < BufferSize
             THEN /\ nwritten' = nwritten + n
                  /\ UNCHANGED <<pc, buf_pos, chunk_pos>>
             ELSE /\ nwritten' = 0
                  /\ buf_pos' = 0
                  /\ chunk_pos' = chunk_pos + BufferSize
                  /\ pc' = IF chunk_pos + BufferSize = ChunkSize
                           THEN "sync" ELSE AfterFlush
    /\ UNCHANGED <<left, buf, ring_pos, disk, fed, stops, app>>

\* A mutant: no fsync(2).
Sync_Skipped ==
    /\ pc = "sync"
    /\ chunk_pos' = 0
    /\ pc' = "notify"
    /\ UNCHANGED <<left, nwritten, buf, buf_pos, ring_pos, file, fed, stops, app>>

\* fsync(2) at the end of a chunk.
Sync ==
    /\ pc = "sync"
    /\ disk' = cache
    /\ chunk_pos' = 0
    /\ pc' = "notify"
    /\ UNCHANGED <<left, nwritten, buf, buf_pos, ring_pos, offset, cache,
                   fed, stops, app>>

\* A mutant: the end of the ring is reported as it is.
OnEndOfChunk_NoWrap(pos) ==
    /\ last' = pos
    /\ held' = [held EXCEPT ![pos - ChunkSize] = fed - ChunkSize + 1]

\* ServiceRecorder::OnEndOfChunk reports the start of the next chunk, 0 at
\* the end of the ring.  From then on the application holds the chunk that
\* ended and gives up the one about to be overwritten.
OnEndOfChunk(pos) ==
    LET next == IF pos = RingSize THEN 0 ELSE pos IN
    /\ last' = next
    /\ held' = [b \in Boundaries |->
                  IF b = next THEN 0
                  ELSE IF b = pos - ChunkSize THEN fed - ChunkSize + 1
                  ELSE held[b]]

Notify ==
    /\ pc = "notify"
    /\ OnEndOfChunk(ring_pos)
    /\ pc' = IF ring_pos = RingSize THEN "trunc" ELSE AfterFlush
    /\ UNCHANGED <<sink, file, fed, stops>>

\* ftruncate(2) to the ring size, which also extends a shorter file.
Truncate(f, size) ==
    [data |-> [o \in Offsets |-> IF o < size THEN f.data[o] ELSE 0],
     size |-> size]

Trunc ==
    /\ pc = "trunc"
    /\ cache' = Truncate(cache, RingSize)
    /\ pc' = "seek"
    /\ UNCHANGED <<sink, offset, disk, fed, stops, app>>

\* A mutant: ring_pos_ is not reset.
Seek_KeepsRingPos ==
    /\ pc = "seek"
    /\ offset' = 0
    /\ pc' = AfterFlush
    /\ UNCHANGED <<sink, cache, disk, fed, stops, app>>

\* lseek(2) back to the start of the file.
Seek ==
    /\ pc = "seek"
    /\ offset' = 0
    /\ ring_pos' = 0
    /\ pc' = AfterFlush
    /\ UNCHANGED <<left, nwritten, buf, buf_pos, chunk_pos, cache, disk,
                   fed, stops, app>>

-----------------------------------------------------------------------------
(* How a session ends. *)

\* A mutant: the application drops its records but not the position.
Fail_KeepsPosition ==
    /\ pc \in {"write", "sync", "trunc", "seek"}
    /\ pc' = "down"
    /\ stops' = stops + 1
    /\ held' = [b \in Boundaries |-> 0]
    /\ UNCHANGED <<sink, file, fed, last>>

\* write, fsync, ftruncate or lseek fails: Flush returns false and the sink
\* is broken.  HandlePacket returns false, FeedPackets leaves its loop, the
\* recorder sends `stop` with reset = true, and the application drops what
\* it knows about the file and starts from its beginning.
Fail ==
    /\ pc \in {"write", "sync", "trunc", "seek"}
    /\ pc' = "down"
    /\ stops' = stops + 1
    /\ last' = 0
    /\ held' = [b \in Boundaries |-> 0]
    /\ UNCHANGED <<sink, file, fed>>

\* The end of the input: End() does not flush the buffer.
End ==
    /\ pc = "ready"
    /\ pc' = "down"
    /\ stops' = stops + 1
    /\ UNCHANGED <<sink, file, fed, app>>

\* The process is killed anywhere; what it wrote stays in the page cache.
Kill ==
    /\ pc # "down"
    /\ pc' = "down"
    /\ stops' = stops + 1
    /\ UNCHANGED <<sink, file, fed, app>>

\* The machine stops: each byte, and the size, is either the one of the last
\* fsync or a later one the kernel had already written back.  It may also
\* happen after the process is gone and before the application restarts it.
PowerLoss ==
    /\ \E kept \in SUBSET {o \in Offsets : cache.data[o] # disk.data[o]},
          size \in {cache.size, disk.size} :
          LET f == [data |-> [o \in Offsets |->
                                IF o \in kept THEN cache.data[o]
                                ELSE disk.data[o]],
                    size |-> size]
          IN  cache' = f /\ disk' = f
    /\ pc' = "down"
    /\ stops' = IF pc = "down" THEN stops ELSE stops + 1
    /\ UNCHANGED <<sink, offset, fed, app>>

Next ==
    \/ Start
    \/ HandlePacket
    \/ HandleRest
    \/ Write
    \/ Sync
    \/ Notify
    \/ Trunc
    \/ Seek
    \/ Fail
    \/ End
    \/ Kill
    \/ PowerLoss

Spec == Init /\ [][Next]_vars

-----------------------------------------------------------------------------
(* Properties. *)

File == [data : [Offsets -> Nat], size : Nat]

\* The type invariant.
TypeOK ==
    /\ pc \in {"down", "ready", "copy", "write", "sync", "notify", "trunc", "seek"}
    /\ left \in 0..PktSize
    /\ nwritten \in 0..BufferSize
    /\ buf \in [0..(BufferSize - 1) -> Nat]
    /\ buf_pos \in 0..BufferSize
    /\ chunk_pos \in 0..ChunkSize
    /\ ring_pos \in 0..RingSize
    /\ offset \in 0..RingSize
    /\ cache \in File
    /\ disk \in File
    /\ fed \in Nat
    /\ stops \in Nat
    /\ last \in Boundaries
    /\ held \in [Boundaries -> Nat]

\* The assertions of HandlePacket, FillBuffer and Flush, and the one
\* ServiceRecorder::OnPreparing makes about pos(): the three positions the
\* sink keeps, and the offset the kernel keeps, never drift apart, whatever
\* the lengths of the writes and wherever earlier sessions stopped.
PositionsAgree ==
    /\ pc \in {"ready", "copy", "write"} => ring_pos = offset - nwritten + buf_pos
    /\ pc \in {"ready", "copy"} => ring_pos < RingSize /\ buf_pos < BufferSize
    /\ pc = "write" => buf_pos = BufferSize /\ chunk_pos < ChunkSize
    /\ pc \in {"sync", "notify"} => /\ ring_pos # 0
                                   /\ ring_pos - ChunkSize \in Boundaries
                                   /\ ring_pos = offset
    /\ pc \in {"trunc", "seek"} => ring_pos = RingSize

\* Chunk b of file f holds the bytes first, first + 1, ...
Holds(f, b, first) ==
    /\ b + ChunkSize <= f.size
    /\ \A i \in 0..(ChunkSize - 1) : f.data[b + i] = first + i

\* What the application was told it has, it has: a chunk whose end was
\* reported is complete in the file, and would be after a power loss, until
\* the report that announces it is about to be overwritten.  This is why
\* Flush syncs before it calls the observer, and why a restart at the last
\* reported position never touches a chunk the application still counts on.
HeldIntact ==
    \A b \in Boundaries :
        held[b] # 0 => Holds(cache, b, held[b]) /\ Holds(disk, b, held[b])

\* Read from the position of the last report around the ring, the held
\* chunks are in the order of the stream, with no unheld chunk after a held
\* one: also when sessions were cut off in the middle of a chunk.
HeldInOrder ==
    \A b \in Boundaries :
        held[b] # 0 /\ NextBoundary(b) # last
            => held[NextBoundary(b)] >= held[b] + ChunkSize

\* What the application holds is there, and in order, whatever write is short,
\* whatever call fails and wherever the process or the machine stops.
HeldSafe == HeldIntact /\ HeldInOrder

\* The file never grows beyond the ring (or beyond what it was when first
\* opened), although every lap writes up to its last byte.
FileBounded == cache.size <= Larger(OldSize, RingSize)

\* The assertions about positions hold, and the file stays within the ring.
WithinRing == PositionsAgree /\ FileBounded

\* The chunks as they can be read back from the disk: what was reported and
\* is there.
DiskChunk(b) ==
    IF held[b] # 0 /\ Holds(disk, b, disk.data[b]) THEN disk.data[b] ELSE 0

DiskChunks == [b \in Boundaries |-> DiskChunk(b)]

Log == INSTANCE ChunkLog WITH chunks <- DiskChunks, cur <- last

\* The sink implements the ring of chunks: between two reports nothing that
\* is kept on the disk changes, a report adds the chunk that ended, and only
\* a broken session forgets what is there.
ImplementsLog == Log!Spec

\* The packet in progress, seen from outside: how much of it is in the
\* buffer or the file, and whether the observer was told during this call.
Copied == PktSize - left
InPacket == pc \notin {"down", "ready"}
ToldInPacket == pc \in {"trunc", "seek"} \/ (pc = "copy" /\ chunk_pos = 0)

\* pos() as the user last saw it: 0 while the sink is off.
PacketPos ==
    IF pc = "down" THEN 0
    ELSE IF InPacket THEN (ring_pos + RingSize - Copied) % RingSize
    ELSE ring_pos

\* What the observer was last told, before the packet in progress.
PacketTold == IF ToldInPacket THEN (last + RingSize - ChunkSize) % RingSize ELSE last

PacketView == INSTANCE PacketRingSink WITH
    on <- pc # "down", pos <- PacketPos, told <- PacketTold

\* The sink implements the interface its user is written against: whatever
\* happens inside a call, between calls the position has moved by exactly
\* one packet, and the observer was told each completed chunk once.
ImplementsPacketRingSink == PacketView!Spec

=============================================================================
