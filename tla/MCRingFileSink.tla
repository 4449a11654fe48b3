--------------------------- MODULE MCRingFileSink ---------------------------
(***************************************************************************)
(* RingFileSink on a ring of three chunks of two buffers of three bytes,   *)
(* with packets of two: buffers, chunks and the end of the ring all fall   *)
(* inside packets as well as between them.                                 *)
(***************************************************************************)
EXTENDS RingFileSink

=============================================================================
