--------------------------------- MODULE Pcr ---------------------------------
(***************************************************************************)
(* PCR values (tsduck_helper.hh): ticks modulo PcrUpperBound, which is     *)
(* 2^33 * 300 in the program.  Times are in "milliseconds" of TicksPerMs   *)
(* ticks.                                                                  *)
(***************************************************************************)
EXTENDS Integers

CONSTANTS
    PcrUpperBound,  \* kPcrUpperBound
    TicksPerMs      \* kPcrTicksPerMs

ASSUME PcrAssumption ==
    /\ TicksPerMs \in Nat \ {0}
    /\ PcrUpperBound \in Nat \ {0}

\* The values IsValidPcr accepts.
Pcrs == 0..(PcrUpperBound - 1)

Abs(n) == IF n < 0 THEN -n ELSE n

\* ComparePcr: negative, zero or positive.
ComparePcr(lhs, rhs) ==
    LET a == lhs - rhs
        b == lhs - (PcrUpperBound + rhs)
    IN  IF Abs(a) < Abs(b) THEN a ELSE b

=============================================================================
