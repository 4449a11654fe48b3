---------------------------- MODULE ClockStatus ----------------------------
(***************************************************************************)
(* A Clock (base.hh) as its users see it when they do not look at times:   *)
(* the PCR PID it follows and what it has seen since it had to be          *)
(* synchronized.  StreamClock implements this module (StatusView there);   *)
(* ServiceRecorder is built on it.                                         *)
(***************************************************************************)
CONSTANTS Pids,  \* PCR PIDs
          NoPid  \* ts::PID_NULL

VARIABLE clock

Init == clock = [pid |-> NoPid, pcr |-> FALSE, time |-> FALSE]

IsReady(c) == c.pcr /\ c.time

\* SetPid, for a PID that is not the current one.
SetPid(pid) ==
    /\ clock.pid # pid
    /\ clock' = [pid |-> pid, pcr |-> FALSE, time |-> FALSE]

UpdateTime == clock' = [clock EXCEPT !.time = TRUE]

\* UpdatePcr: the PCR is taken, or ignored for being too far from the last
\* one; one gap too many invalidates a clock that is ready.
UpdatePcr ==
    /\ clock.pid # NoPid
    /\ \/ clock' = [clock EXCEPT !.pcr = TRUE]
       \/ /\ IsReady(clock)
          /\ clock' = [clock EXCEPT !.pcr = FALSE, !.time = FALSE]

Next ==
    \/ \E pid \in Pids : SetPid(pid)
    \/ UpdateTime
    \/ UpdatePcr

Spec == Init /\ [][Next]_clock

=============================================================================
