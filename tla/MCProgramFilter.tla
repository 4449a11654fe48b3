--------------------------- MODULE MCProgramFilter ---------------------------
(***************************************************************************)
(* ProgramFilter with two PMT PIDs, two stream PIDs that may both carry    *)
(* the PCRs, and a program that is rescheduled.                            *)
(***************************************************************************)
EXTENDS ProgramFilter

CONSTANTS pmt1, pmt2, es1, es2

OnePmtPid == {pmt1}
TwoPmtPids == {pmt1, pmt2}
MCEsPids == {es1, es2}

\* No tags were asked for; or some streams may lack them.
NoTags == {{}}
OneTag == {{}, {es1}}

\* The program may be in progress when the stream begins, and may be moved.
MCEventTimes == {[start |-> -1, end |-> 3], [start |-> 2, end |-> 11]}
OneEventTime == {[start |-> -1, end |-> 3]}

\* PCRs that do not wrap around before MaxTime (the PCR of a program's end
\* does), and any.
LowPcrs == {[pid \in MCEsPids |-> IF pid = es1 THEN 2 ELSE 20]}
AnyPcrs == [MCEsPids -> Pcrs]

ASSUME LowPcrsInRange == FirstPcrs = LowPcrs => PcrsInRange

=============================================================================
