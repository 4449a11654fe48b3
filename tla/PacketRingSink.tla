--------------------------- MODULE PacketRingSink ---------------------------
(***************************************************************************)
(* The interface of a ring sink (PacketRingSink and PacketRingObserver in  *)
(* packet_sink.hh) as its user sees it, one whole packet at a time: the    *)
(* position moves on by a packet, and the observer is told the start of    *)
(* the next chunk when a packet completes one.  A call may also fail, with *)
(* or without having told the observer first.                              *)
(*                                                                         *)
(* RingFileSink implements this module (PacketView there); ServiceRecorder *)
(* is built on it.                                                         *)
(***************************************************************************)
EXTENDS RingLayout

VARIABLES on,   \* the sink takes packets
          pos,  \* pos(), 0 while the sink is off
          told  \* the last position the observer was told

ringVars == <<on, pos, told>>

Init == on = FALSE /\ pos = 0 /\ told = 0

\* pos() after one more packet.
Advance(p) == (p + PktSize) % RingSize

\* The packet written at p completes a chunk.
EndsChunk(p) == (p % ChunkSize) + PktSize >= ChunkSize

\* The position OnEndOfChunk is called with for a packet written at p.
ToldAt(p) == NextBoundary(p - (p % ChunkSize))

\* SetPosition, or a start at 0.
Start(p) ==
    /\ ~ on
    /\ on' = TRUE
    /\ pos' = p
    /\ told' = p

HandlePacket ==
    /\ on
    /\ pos' = Advance(pos)
    /\ told' = IF EndsChunk(pos) THEN ToldAt(pos) ELSE told
    /\ on' = TRUE

\* HandlePacket returns false, or the process stops.
Stop(t) ==
    /\ on
    /\ on' = FALSE
    /\ pos' = 0
    /\ told' = t

\* The observer may have been told before the call failed.
MayBeTold == {told} \cup (IF EndsChunk(pos) THEN {ToldAt(pos)} ELSE {})

Next ==
    \/ \E p \in Boundaries : Start(p)
    \/ HandlePacket
    \/ \E t \in MayBeTold \cup {0} : Stop(t)

Spec == Init /\ [][Next]_ringVars

=============================================================================
