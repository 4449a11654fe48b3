---------------------------- MODULE MCStreamClock ----------------------------
(***************************************************************************)
(* StreamClock with a second of four ticks and PCRs that wrap around after *)
(* 22, so that a wrap, a gap and a TOT meet in every order.                *)
(***************************************************************************)
EXTENDS StreamClock

CONSTANTS p1, p2

MCPids == {p1, p2}

=============================================================================
