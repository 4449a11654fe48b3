----------------------------- MODULE StreamClock -----------------------------
(***************************************************************************)
(* A Clock fed by a transport stream: PCRs come at least every             *)
(* MaxPcrInterval ticks, TOTs at least every MaxTotInterval, and a limited *)
(* number of things go wrong: the PCRs jump, single PCRs are wrong, the    *)
(* service moves to another PCR PID.                                       *)
(*                                                                         *)
(* Times are relative to the last TOT, which is always "time 0": Clock     *)
(* only ever adds to the time a TOT gave it, and this keeps the stream     *)
(* endless and its states finite.  The true time is then the ticks since   *)
(* that TOT, and the local time runs with it.                              *)
(***************************************************************************)
EXTENDS Clock

CONSTANTS
    Pids,            \* PCR PIDs
    MaxPcrInterval,  \* ticks between two PCRs, at most
    MaxTotInterval,  \* ticks between two TOTs, at most
    MaxDisturbances  \* bound: the number of things that go wrong

ASSUME StreamAssumption ==
    /\ NoPid \notin Pids
    /\ MaxPcrInterval \in Nat \ {0}
    /\ MaxTotInterval \in Nat \ {0}
    /\ MaxDisturbances \in Nat
    \* PCRs come so often that the ones ignored as gaps, one more than
    \* GapThreshold where the counter wraps around, do not make the next right
    \* one look like a gap.
    /\ (GapThreshold + 2) * MaxPcrInterval + TicksPerMs <= TicksPerSec
    \* A TOT comes before the PCRs can go round, whatever goes wrong.
    /\ MaxTotInterval + (MaxDisturbances + 2) * TicksPerSec < PcrUpperBound

VARIABLES
    clock,
    stc,          \* the PCR the stream would carry now
    since_pcr,    \* ticks since the last PCR
    since_tot,    \* ticks since the last TOT, the true time
    timed,        \* there has been a TOT
    slips,        \* wrong PCRs and jumps since the last TOT
    disturbances  \* things that went wrong so far

vars == <<clock, stc, since_pcr, since_tot, timed, slips, disturbances>>

LocalNow == since_tot \div TicksPerMs

Init ==
    /\ clock = NewClock
    /\ stc \in Pcrs
    /\ since_pcr = 0
    /\ since_tot = 0
    /\ timed = FALSE
    /\ slips = 0
    /\ disturbances = 0

Tick ==
    /\ since_pcr < MaxPcrInterval
    /\ since_tot < MaxTotInterval
    /\ stc' = (stc + 1) % PcrUpperBound
    /\ since_pcr' = since_pcr + 1
    /\ since_tot' = since_tot + 1
    /\ UNCHANGED <<clock, timed, slips, disturbances>>

\* A packet of the clock's PID with a PCR.
Pcr ==
    /\ since_pcr > 0
    /\ since_pcr' = 0
    /\ clock' = IF HasPid(clock) THEN UpdatePcr(clock, stc) ELSE clock
    /\ UNCHANGED <<stc, since_tot, timed, slips, disturbances>>

\* A TOT with the right time.
Tot ==
    /\ since_tot > 0
    /\ since_tot' = 0
    /\ clock' = UpdateTime(clock, 0, 0)
    /\ timed' = TRUE
    /\ slips' = 0
    /\ UNCHANGED <<stc, since_pcr, disturbances>>

\* The first PMT: it names the PCR PID.
FirstPmt ==
    /\ ~ HasPid(clock)
    /\ \E pid \in Pids : clock' = SetPid(clock, pid)
    /\ UNCHANGED <<stc, since_pcr, since_tot, timed, slips, disturbances>>

Disturb ==
    /\ disturbances < MaxDisturbances
    /\ disturbances' = disturbances + 1
    /\ UNCHANGED <<since_tot, timed>>

\* The PCRs jump, with no notice.
Jump ==
    /\ Disturb
    /\ stc' \in Pcrs
    /\ slips' = slips + 1
    /\ UNCHANGED <<clock, since_pcr>>

\* A packet with a wrong PCR in place of a right one.
WrongPcr ==
    /\ Disturb
    /\ HasPid(clock)
    /\ since_pcr > 0
    /\ since_pcr' = 0
    /\ \E pcr \in Pcrs : clock' = UpdatePcr(clock, pcr)
    /\ slips' = slips + 1
    /\ UNCHANGED stc

\* A PMT that names another PCR PID, whose PCRs are unrelated.
ChangePid ==
    /\ Disturb
    /\ HasPid(clock)
    /\ \E pid \in Pids \ {clock.pid} : clock' = SetPid(clock, pid)
    /\ stc' \in Pcrs
    /\ UNCHANGED <<since_pcr, slips>>

Next == Tick \/ Pcr \/ Tot \/ FirstPmt \/ Jump \/ WrongPcr \/ ChangePid

\* The broadcaster keeps sending PCRs, TOTs and PMTs; nothing has to go wrong.
Fairness == WF_vars(Tick) /\ WF_vars(Pcr) /\ WF_vars(Tot) /\ WF_vars(FirstPmt)

Spec == Init /\ [][Next]_vars /\ Fairness

-----------------------------------------------------------------------------
(* Properties. *)

\* The type invariant.
TypeOK ==
    /\ clock \in [pid : Pids \cup {NoPid}, time : {0}, pcr : Pcrs,
                  pcr_ready : BOOLEAN, time_ready : BOOLEAN, local : {0},
                  last_pcr : Pcrs, gaps : 0..(GapCountSize - 1),
                  ready : BOOLEAN, wrapped : BOOLEAN]
    /\ stc \in Pcrs
    /\ since_pcr \in 0..MaxPcrInterval
    /\ since_tot \in 0..MaxTotInterval
    /\ timed \in BOOLEAN
    /\ slips \in 0..MaxDisturbances
    /\ disturbances \in 0..MaxDisturbances

\* How far Now() is from the true time, in ticks.
Error == Now(clock, LocalNow) * TicksPerMs - since_tot

\* Once there has been a TOT, Now() is within two seconds of the true time (one
\* for a jump that no PCR had shown when the TOT came), plus a second for each
\* thing that went wrong since that TOT: a wrapped or switched PCR, or a wrong
\* one taken for a right one, never shows as a jump of Now() by hours.
NowAccurate ==
    timed => LET tolerance == TicksPerSec * (2 + slips)
             IN  Error < tolerance /\ -Error < tolerance

\* Between two TOTs a ready clock moves forwards only, by less than a second
\* at a time, whatever PCR arrives.
NowSteady ==
    [][IsReady(clock) /\ IsReady(clock)' /\ ~ Tot
         => LET step == (Now(clock, 0)' - Now(clock, 0)) * TicksPerMs
            IN  0 <= step /\ step < TicksPerSec + TicksPerMs]_vars

StatusView == INSTANCE ClockStatus WITH
    clock <- [pid |-> clock.pid, pcr |-> clock.ready /\ clock.pcr_ready,
              time |-> clock.time_ready]

\* The clock is to its users what ClockStatus says: whatever the PCRs do, it
\* is ready exactly when it has seen a PCR of its PID and a TOT since the PID
\* was set or the clock invalidated, and only a clock that was ready can be
\* invalidated.
ImplementsStatus == StatusView!Spec

\* When things stop going wrong the clock becomes ready and stays so, PCRs that
\* wrap around included, and Now() is right to the interval of the PCRs.
EventuallyAccurate ==
    <>[](IsReady(clock) /\ Error \in -MaxPcrInterval..MaxPcrInterval)

=============================================================================
