----------------------------- MODULE FileSource -----------------------------
(***************************************************************************)
(* FileSource (packet_source.hh): cuts the bytes it reads from a file, a   *)
(* pipe or a terminal into packets and finds the packets again when        *)
(* synchronization is lost.  FeedPackets calls GetNextPacket until it      *)
(* returns false or the sink refuses a packet.                             *)
(*                                                                         *)
(* A byte is its offset in the input.  read(2) returns any number of bytes *)
(* up to what was asked for; the input ends where it returns 0 or fails,   *)
(* which the code does not tell apart.                                     *)
(***************************************************************************)
EXTENDS Integers, Sequences

CONSTANTS
    PktSize,        \* ts::PKT_SIZE
    ReadChunkSize,  \* FileSource::kReadChunkSize
    MaxFile         \* bound: the length of the input

ASSUME SourceAssumption ==
    PktSize \in Nat \ {0} /\ ReadChunkSize \in Nat \ {0} /\ MaxFile \in Nat

VARIABLES
    input,   \* for each byte of the file: is it a sync byte
    offset,  \* the offset in the file
    buf,     \* buf_: offsets of bytes
    pos,     \* pos_
    end,     \* end_
    eof,     \* eof_
    pc,      \* where GetNextPacket is
    asked,   \* the min_bytes of the call of FillBuffer
    packet,  \* the packet of the last call, a sequence of offsets
    ended    \* FeedPackets has left its loop

sourceVars == <<input, offset, buf, pos, end, eof, pc, asked, packet, ended>>

MaxDropBytes == 2 * PktSize
MaxResyncBytes == MaxDropBytes + 3 * PktSize

BufferSize == ReadChunkSize + MaxResyncBytes

\* A cell of buf_ with no byte that counts: never written, or no longer of use.
Garbage == -1

FileSize == Len(input)

\* The sync byte test on a cell of buf_: garbage may look like anything, and
\* here like a sync byte.
IsSync(i) == buf[i] = Garbage \/ input[buf[i] + 1]

SourceInit ==
    /\ input \in UNION {[1..n -> BOOLEAN] : n \in 0..MaxFile}
    /\ offset = 0
    /\ buf = [i \in 0..(BufferSize - 1) |-> Garbage]
    /\ pos = 0
    /\ end = 0
    /\ eof = FALSE
    /\ pc = "next"
    /\ asked = PktSize
    /\ packet = <<>>
    /\ ended = FALSE

-----------------------------------------------------------------------------
(* FillBuffer(asked). *)

\* A mutant: the bytes left are not moved to the start of the buffer.
Moved_Left == buf

\* memmove: the bytes left over are at the start of the buffer.
Moved == [i \in 0..(BufferSize - 1) |->
             IF i < end - pos THEN buf[pos + i] ELSE Garbage]

\* Not enough bytes are left: make room and read.
FillBuffer ==
    /\ pc \in {"next", "resync"}
    /\ end - pos < asked
    /\ buf' = Moved
    /\ pos' = 0
    /\ end' = end - pos
    /\ pc' = IF pc = "next" THEN "read" ELSE "readMore"
    /\ UNCHANGED <<input, offset, eof, asked, packet, ended>>

\* PosixFile::Read: the numbers of bytes it may return before the end.
Readable == {n \in 1..ReadChunkSize : offset + n <= FileSize}

\* One read of the loop that returns some bytes.
Read ==
    /\ pc \in {"read", "readMore"}
    /\ \E n \in Readable :
          /\ buf' = [i \in 0..(BufferSize - 1) |->
                       IF i \in end..(end + n - 1) THEN offset + i - end ELSE buf[i]]
          /\ offset' = offset + n
          /\ end' = end + n
          /\ pc' = IF end + n < asked THEN pc
                   ELSE IF pc = "read" THEN "next" ELSE "resync"
    /\ UNCHANGED <<input, pos, eof, asked, packet, ended>>

\* A mutant: only a read that fails ends the loop, not the end of the file.
ReadEof_Ignored ==
    /\ pc \in {"read", "readMore"}
    /\ offset = FileSize
    /\ UNCHANGED sourceVars

\* read(2) returns nothing: GetNextPacket returns false.
ReadEof ==
    /\ pc \in {"read", "readMore"}
    /\ offset = FileSize
    /\ eof' = TRUE
    /\ ended' = TRUE
    /\ pc' = "end"
    /\ UNCHANGED <<input, offset, buf, pos, end, asked, packet>>

-----------------------------------------------------------------------------
(* GetNextPacket. *)

\* The rest of GetNextPacket for a packet at position p of the buffer.  The
\* sink behind may refuse the packet.
Deliver(p) ==
    /\ packet' = [i \in 1..PktSize |-> buf[p + i - 1]]
    /\ pos' = p + PktSize
    /\ ended' \in BOOLEAN
    /\ pc' = IF ended' THEN "end" ELSE "next"
    /\ asked' = PktSize
    /\ UNCHANGED <<input, offset, buf, end, eof>>

GetNextPacket ==
    /\ pc = "next"
    /\ end - pos >= PktSize
    /\ IsSync(pos)
    /\ Deliver(pos)

\* Synchronization is lost: Resync calls FillBuffer(kMaxResyncBytes).
LoseSync ==
    /\ pc = "next"
    /\ end - pos >= PktSize
    /\ ~ IsSync(pos)
    /\ pc' = "resync"
    /\ asked' = MaxResyncBytes
    /\ UNCHANGED <<input, offset, buf, pos, end, eof, packet, ended>>

\* ValidateResync, and the test before it.
ValidateResync(p) == \A k \in 0..3 : IsSync(p + k * PktSize)

\* A mutant: the last position is left out.
ResyncAt_Short == {p \in pos..(pos + MaxDropBytes - 2) : ValidateResync(p)}

\* The positions at which the loop of Resync would stop.
ResyncAt == {p \in pos..(pos + MaxDropBytes - 1) : ValidateResync(p)}

\* The bytes before the first such position are dropped.
Resync ==
    /\ pc = "resync"
    /\ end - pos >= asked
    /\ \E p \in ResyncAt : (\A q \in ResyncAt : p <= q) /\ Deliver(p)

ResyncFailed ==
    /\ pc = "resync"
    /\ end - pos >= asked
    /\ ResyncAt = {}
    /\ pos' = pos + MaxDropBytes
    /\ ended' = TRUE
    /\ pc' = "end"
    /\ UNCHANGED <<input, offset, buf, end, eof, asked, packet>>

SourceNext ==
    \/ FillBuffer \/ Read \/ ReadEof
    \/ GetNextPacket \/ LoseSync \/ Resync \/ ResyncFailed

\* The process runs, and read(2) returns in the end.
SourceSpec == SourceInit /\ [][SourceNext]_sourceVars /\ WF_sourceVars(SourceNext)

-----------------------------------------------------------------------------
(* Properties. *)

\* The type invariant.
SourceTypeOK ==
    /\ offset \in 0..FileSize
    /\ buf \in [0..(BufferSize - 1) -> Garbage..(FileSize - 1)]
    /\ pos \in 0..BufferSize
    /\ end \in 0..BufferSize
    /\ eof \in BOOLEAN
    /\ pc \in {"next", "resync", "read", "readMore", "end"}
    /\ asked \in {PktSize, MaxResyncBytes}
    /\ packet \in Seq(Garbage..(FileSize - 1))
    /\ ended \in BOOLEAN

\* What the assertions of FillBuffer say: before each read there is room for a
\* whole chunk, however much a resynchronization has to keep, the positions are
\* in order, and FillBuffer is not called after the end of the input.
RoomToRead ==
    /\ pos <= end
    /\ pc \in {"read", "readMore"} => BufferSize - end >= ReadChunkSize
    /\ eof => pc = "end"

\* The unread part of the buffer is the part of the file before the offset: no
\* byte is lost, doubled or made up by the moves and the reads.
Window == pc # "end" => \A i \in pos..(end - 1) : buf[i] = offset - end + i

\* The packets delivered, and the end, are those the input determines, however
\* read(2) cuts it into pieces.
Stream == INSTANCE PacketStream WITH
    at <- IF pc = "end" /\ packet # <<>> THEN packet[1] + PktSize
          ELSE IF pc = "end" THEN 0 ELSE offset - (end - pos),
    sent <- IF packet = <<>> THEN -1 ELSE packet[1]

ImplementsPacketStream == Stream!Spec

\* A packet is PktSize bytes in a row that start with a sync byte.
PacketIntact ==
    packet # <<>> =>
        /\ packet[1] # Garbage /\ input[packet[1] + 1]
        /\ \A i \in 1..PktSize : packet[i] = packet[1] + i - 1

\* The buffer works: it has room for each read, holds the unread part of the
\* input in order, and gives whole packets.
BufferSound == SourceTypeOK /\ RoomToRead /\ Window /\ PacketIntact

\* The input ends, so the loop of FeedPackets does.
EventuallyEnded == <>ended

=============================================================================
