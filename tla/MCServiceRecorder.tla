-------------------------- MODULE MCServiceRecorder --------------------------
(***************************************************************************)
(* ServiceRecorder with two candidates for each PID, three programs and    *)
(* three points in time, on a ring of two chunks that packets straddle.    *)
(***************************************************************************)
EXTENDS ServiceRecorder, TLC

CONSTANTS pmt1, pmt2, pcr1, pcr2, ev1, ev2, ev3

MCPmtPids == {pmt1, pmt2}
MCPcrPids == {pcr1, pcr2}
MCEventIds == {ev1, ev2, ev3}
MCTimes == 0..2

\* PIDs and event ids are only compared for equality.
Symmetry == Permutations(MCPmtPids) \cup Permutations(MCPcrPids)
            \cup Permutations(MCEventIds)

=============================================================================
