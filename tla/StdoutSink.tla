----------------------------- MODULE StdoutSink -----------------------------
(***************************************************************************)
(* StdoutSink (packet_sink.hh): the last sink of most commands.  It gathers *)
(* packets in a buffer whose size is not a multiple of the packet's and    *)
(* writes the buffer when it is full and at the end.  Its caller stops at  *)
(* the first packet it refuses and calls End.                              *)
(*                                                                         *)
(* The bytes of the stream are numbered; write(2) takes any number of them *)
(* or fails.                                                               *)
(***************************************************************************)
EXTENDS Integers, Sequences, SequencesExt

CONSTANTS
    PktSize,     \* ts::PKT_SIZE
    BufferSize,  \* StdoutSink::kBufferSize
    MaxPackets   \* bound: packets handled

SinkAssumption ==
    /\ PktSize \in Nat \ {0}
    /\ BufferSize \in Nat
    /\ BufferSize >= PktSize
    /\ MaxPackets \in Nat

VARIABLES
    buf,      \* the first pos_ bytes of buf_; Len(buf) is pos_
    nwritten, \* nwritten of the current Flush
    rest,     \* the part of the packet to copy after the current Flush
    pc,       \* "up", "flush" in HandlePacket, "endFlush" in End, "ended"
    handled,  \* packets handed to the sink
    out,      \* what has been written to the standard output
    failed    \* "no", or a write has failed, "torn" if after another one of its flush

vars == <<buf, nwritten, rest, pc, handled, out, failed>>

\* The bytes of the n-th packet, and those of the first n.
Packet(n) == [i \in 1..PktSize |-> (n - 1) * PktSize + i]
Stream(n) == [i \in 1..(n * PktSize) |-> i]

Init ==
    /\ buf = <<>>
    /\ nwritten = 0
    /\ rest = <<>>
    /\ pc = "up"
    /\ handled = 0
    /\ out = <<>>
    /\ failed = "no"

\* The packet fits, with room to spare.
Buffered ==
    /\ pc = "up"
    /\ handled < MaxPackets
    /\ Len(buf) + PktSize < BufferSize
    /\ buf' = buf \o Packet(handled + 1)
    /\ handled' = handled + 1
    /\ UNCHANGED <<nwritten, rest, pc, out, failed>>

\* The first n bytes of a packet, which fill the buffer.
Fitting(packet, n) == SubSeq(packet, 1, n)

\* The bytes of a packet after the first n, which go to the next buffer.
Remainder(packet, n) == SubSeq(packet, n + 1, PktSize)

\* The packet fills the buffer, which is flushed.
FillAndFlush ==
    /\ pc = "up"
    /\ handled < MaxPackets
    /\ Len(buf) + PktSize >= BufferSize
    /\ LET packet == Packet(handled + 1)
           remaining == BufferSize - Len(buf)
       IN  /\ buf' = buf \o Fitting(packet, remaining)
           /\ rest' = Remainder(packet, remaining)
    /\ handled' = handled + 1
    /\ nwritten' = 0
    /\ pc' = "flush"
    /\ UNCHANGED <<out, failed>>

\* A mutant: a short write is taken for a whole one.
Written_All(n) == Len(buf)

\* nwritten += res
Written(n) == nwritten + n

\* A write(2) of Flush that succeeds, and what follows the last one.
Write ==
    /\ pc \in {"flush", "endFlush"}
    /\ \E n \in 1..(Len(buf) - nwritten) :
          /\ out' = out \o SubSeq(buf, nwritten + 1, nwritten + n)
          /\ IF Written(n) < Len(buf)
             THEN nwritten' = Written(n) /\ UNCHANGED <<buf, rest, pc>>
             ELSE /\ nwritten' = 0
                  /\ buf' = rest
                  /\ rest' = <<>>
                  /\ pc' = IF pc = "flush" THEN "up" ELSE "ended"
    /\ UNCHANGED <<handled, failed>>

\* What a Flush that fails leaves in the buffer: pos_ is not changed.
Kept == buf

\* A write(2) that fails.  In HandlePacket the packet is refused and the caller
\* calls End, which starts again with the first byte of the buffer; in End
\* the failure is ignored.
WriteFails ==
    /\ pc \in {"flush", "endFlush"}
    /\ failed' = IF nwritten > 0 \/ failed = "torn" THEN "torn" ELSE "clean"
    /\ buf' = Kept
    /\ nwritten' = 0
    /\ rest' = <<>>
    /\ pc' = IF pc = "flush" /\ buf' # <<>> THEN "endFlush" ELSE "ended"
    /\ UNCHANGED <<handled, out>>

\* The end of the input.
End ==
    /\ pc = "up"
    /\ pc' = IF buf = <<>> THEN "ended" ELSE "endFlush"
    /\ nwritten' = 0
    /\ UNCHANGED <<buf, rest, handled, out, failed>>

Next == Buffered \/ FillAndFlush \/ Write \/ WriteFails \/ End

Spec == Init /\ [][Next]_vars

-----------------------------------------------------------------------------
(* Properties. *)

\* The type invariant; pos_ stays in the buffer and a Flush in pos_.
TypeOK ==
    /\ buf \in Seq(1..(MaxPackets * PktSize)) /\ Len(buf) <= BufferSize
    /\ nwritten \in 0..BufferSize
    /\ rest \in Seq(1..(MaxPackets * PktSize))
    /\ pc \in {"up", "flush", "endFlush", "ended"}
    /\ handled \in 0..MaxPackets
    /\ out \in Seq(1..(MaxPackets * PktSize))
    /\ failed \in {"no", "clean", "torn"}

\* Between two packets every byte handled has been written or is in the buffer,
\* in order and once, however packets straddle buffers and writes are short;
\* at the end, if no write failed, all has been written.
NothingLost ==
    /\ pc = "up" => out \o buf = Stream(handled)
    /\ pc = "ended" /\ failed = "no" => out = Stream(handled)

\* What is written is a beginning of the stream: no byte is skipped or comes
\* twice.  The exception is a write that fails after a short one: the bytes of
\* the short one are written again by End.
OutputInOrder == failed # "torn" => IsPrefix(out, Stream(handled))

\* If a write fails once, what was in the buffer gets a second chance at the
\* end: a run that ends with an empty buffer has written all but the rest of
\* the packet that was refused, torn or not.
SecondChance ==
    pc = "ended" /\ buf = <<>> =>
        handled * PktSize - PktSize < Len(out) \/ handled = 0

=============================================================================
