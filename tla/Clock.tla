-------------------------------- MODULE Clock --------------------------------
(***************************************************************************)
(* ClockBaseline and Clock (base.hh): the time of a transport stream, kept *)
(* from the PCRs of one PID and synchronized by the TOTs.  A clock is a    *)
(* record; each method is an operator that returns the clock after it, or  *)
(* its result.                                                             *)
(***************************************************************************)
EXTENDS Pcr

CONSTANTS
    TicksPerSec,    \* kPcrTicksPerSec
    GapThreshold,   \* Clock::kPcrGapCountThreshold
    GapCountSize,   \* 2^8: pcr_gap_count_ is a uint8_t
    NoPid           \* ts::PID_NULL

ASSUME ClockAssumption ==
    /\ TicksPerSec \in Nat \ {0}
    /\ TicksPerSec < PcrUpperBound
    /\ GapThreshold \in Nat
    /\ GapCountSize \in Nat /\ GapThreshold + 1 < GapCountSize

\* Integer division of C++: towards zero.
Quotient(a, b) == IF a < 0 THEN -((-a) \div b) ELSE a \div b

\* Clock() before anything was seen.
NewClock ==
    [pid |-> NoPid, time |-> 0, pcr |-> 0, pcr_ready |-> FALSE, time_ready |-> FALSE,
     local |-> 0, last_pcr |-> 0, gaps |-> 0, ready |-> FALSE, wrapped |-> FALSE]

\* ClockBaseline::IsReady and Clock::IsReady.
BaselineReady(c) == c.pcr_ready /\ c.time_ready
IsReady(c) == c.ready /\ BaselineReady(c)

HasPid(c) == c.pid # NoPid

\* ClockBaseline::PcrToTime: pcr is not reduced modulo PcrUpperBound.
PcrToTime(c, pcr) == c.time + Quotient(pcr - c.pcr, TicksPerMs)

\* Clock::Now, with local the local time; used only while the clock has to
\* be synchronized again.
Now(c, local) ==
    IF IsReady(c)
    THEN PcrToTime(c, c.last_pcr + (IF c.wrapped THEN PcrUpperBound ELSE 0))
    ELSE c.time + (local - c.local)

\* A mutant: the time of the last TOT stays good.
SetPid_KeepsTime(c, pid) == [c EXCEPT !.pid = pid, !.pcr_ready = FALSE, !.ready = FALSE]

\* SetPid leaves last_pcr_, the wrap-around flag and the gap counter alone.
SetPid(c, pid) ==
    [c EXCEPT !.pid = pid, !.pcr_ready = FALSE, !.time_ready = FALSE, !.ready = FALSE]

\* A mutant: the wrap-around flag outlives the baseline it was relative to.
SyncPcr_KeepsWrap(c) == [c EXCEPT !.pcr = c.last_pcr, !.pcr_ready = TRUE]

\* SyncPcr: the baseline is the last PCR.
SyncPcr(c) == [c EXCEPT !.pcr = c.last_pcr, !.pcr_ready = TRUE, !.wrapped = FALSE]

UpdateTime(c, time, local) ==
    LET timed == [c EXCEPT !.time = time, !.time_ready = TRUE, !.local = local]
    IN  IF c.ready THEN SyncPcr(timed) ELSE timed

\* A mutant: the distance of two PCRs regardless of the wrap-around.
ComputeDelta_NoWrap(pcr, base) == IF pcr < base THEN base - pcr ELSE pcr - base

\* ComputeDelta: from base forwards to pcr.
ComputeDelta(pcr, base) ==
    IF pcr < base THEN PcrUpperBound - base + pcr ELSE pcr - base

\* A mutant: last_pcr_ is marked with a value no PCR has.
Invalidate_MarksPcr(c) ==
    [c EXCEPT !.pcr_ready = FALSE, !.time_ready = FALSE, !.ready = FALSE,
              !.last_pcr = -1, !.wrapped = FALSE]

\* Invalidate leaves the gap counter, the time and the local time alone.
Invalidate(c) ==
    [c EXCEPT !.pcr_ready = FALSE, !.time_ready = FALSE, !.ready = FALSE,
              !.last_pcr = 0, !.wrapped = FALSE]

\* UpdatePcr for a PCR that is not too far from the last one.
TakePcr(c, pcr) ==
    LET taken == [c EXCEPT !.wrapped = @ \/ pcr < c.last_pcr,
                           !.last_pcr = pcr, !.ready = TRUE]
    IN  IF BaselineReady(c) THEN taken ELSE SyncPcr(taken)

\* A mutant: no test for gaps.
UpdatePcr_NoGapTest(c, pcr) == TakePcr(c, pcr)

\* UpdatePcr: a gap of a second or more is ignored GapThreshold times in a
\* row; the next one invalidates the clock.
UpdatePcr(c, pcr) ==
    LET counted == [c EXCEPT !.gaps = (@ + 1) % GapCountSize]
        large == ComputeDelta(pcr, c.last_pcr) >= TicksPerSec
    IN  CASE ~ IsReady(c) -> TakePcr(c, pcr)
          [] IsReady(c) /\ ~ large -> TakePcr([c EXCEPT !.gaps = 0], pcr)
          [] IsReady(c) /\ large /\ counted.gaps <= GapThreshold -> counted
          [] OTHER -> Invalidate(counted)

=============================================================================
