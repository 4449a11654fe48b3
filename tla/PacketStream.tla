---------------------------- MODULE PacketStream ----------------------------
(***************************************************************************)
(* What a FileSource promises (packet_source.hh): the packets it delivers  *)
(* depend on the bytes of the input alone, not on how read(2) cuts them    *)
(* into pieces.                                                            *)
(*                                                                         *)
(* The input is a sequence of bytes of which only "is it a sync byte" is   *)
(* kept, and a packet is the offset of its first byte.                     *)
(***************************************************************************)
EXTENDS Integers, Sequences

CONSTANTS
    PktSize,  \* ts::PKT_SIZE
    MaxFile   \* bound: the length of the input

\* FileSource::kMaxDropBytes, kMaxResyncBytes
MaxDropBytes == 2 * PktSize
MaxResyncBytes == MaxDropBytes + 3 * PktSize

VARIABLES
    input,  \* for each byte: is it a sync byte; ends where read(2) returns <= 0
    at,     \* the offset of the next byte to deliver
    sent,   \* the offset of the last packet delivered, or -1
    ended   \* no packet will follow

svars == <<input, at, sent, ended>>

Size == Len(input)
IsSync(o) == input[o + 1]

Init ==
    /\ input \in UNION {[1..n -> BOOLEAN] : n \in 0..MaxFile}
    /\ at = 0
    /\ sent = -1
    /\ ended = FALSE

\* Four sync bytes, a packet apart, from offset o on.
InSync(o) == \A k \in 0..3 : IsSync(o + k * PktSize)

\* Where resynchronization from offset o may go on: the first of these counts.
Resyncs(o) ==
    IF o + MaxResyncBytes <= Size
    THEN {q \in o..(o + MaxDropBytes - 1) : InSync(q)}
    ELSE {}

\* The offset of the packet after the bytes before o: a singleton or empty.
NextPacket(o) ==
    IF o + PktSize > Size THEN {}
    ELSE IF IsSync(o) THEN {o}
    ELSE {q \in Resyncs(o) : \A r \in Resyncs(o) : q <= r}

\* The sink may refuse a packet, which ends the loop of FeedPackets.
Packet ==
    /\ ~ ended
    /\ \E q \in NextPacket(at) : sent' = q /\ at' = q + PktSize
    /\ ended' \in BOOLEAN
    /\ UNCHANGED input

\* A part of a packet at the end of the input, and everything after a
\* resynchronization that failed, is not delivered.
Stop ==
    /\ ~ ended
    /\ NextPacket(at) = {}
    /\ ended' = TRUE
    /\ UNCHANGED <<input, at, sent>>

Next == Packet \/ Stop

Spec == Init /\ [][Next]_svars

=============================================================================
