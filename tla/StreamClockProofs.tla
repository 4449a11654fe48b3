-------------------------- MODULE StreamClockProofs --------------------------
(***************************************************************************)
(* Proofs about StreamClock, for every range of PCRs, every threshold and  *)
(* any number of disturbances: its type invariant, that the Clock of       *)
(* base.hh is to its users what ClockStatus says, which is what the        *)
(* recorder is built on, and how far its time can be from the true time.   *)
(***************************************************************************)
EXTENDS StreamClock, TLAPS

Clocks ==
    [pid : Pids \cup {NoPid}, time : {0}, pcr : Pcrs,
     pcr_ready : BOOLEAN, time_ready : BOOLEAN, local : {0},
     last_pcr : Pcrs, gaps : 0..(GapCountSize - 1),
     ready : BOOLEAN, wrapped : BOOLEAN]

\* A PCR that was taken is also the baseline, or can be.  Without this, a TOT
\* could make a clock ready that has seen no PCR of its PID.
Anchored(c) == c.ready => c.pcr_ready

\* The inductive invariant.
IInv ==
    /\ TypeOK
    /\ slips <= disturbances
    /\ Anchored(clock)

\* ClockStatus's clock.
Status(c) == [pid |-> c.pid, pcr |-> c.ready /\ c.pcr_ready, time |-> c.time_ready]

-----------------------------------------------------------------------------
(* The methods of Clock. *)

\* 0 is a PCR.
LEMMA ZeroPcr == 0 \in Pcrs
  BY PcrAssumption DEF Pcrs

\* SetPid: the status is that of a new PID.
LEMMA SetPidStep ==
    ASSUME NEW c \in Clocks, NEW pid \in Pids
    PROVE  LET d == SetPid(c, pid)
           IN  /\ d \in Clocks /\ Anchored(d)
               /\ Status(d) = [pid |-> pid, pcr |-> FALSE, time |-> FALSE]
<1> DEFINE d == SetPid(c, pid)
<1>1. d \in Clocks
  BY DEF SetPid, Clocks
<1>2. d.pid = pid /\ d.ready = FALSE /\ d.pcr_ready = FALSE /\ d.time_ready = FALSE
  BY DEF SetPid, Clocks
<1> HIDE DEF d
<1>3. Status(d) = [pid |-> pid, pcr |-> FALSE, time |-> FALSE]
  BY <1>2 DEF Status
<1>4. Anchored(d)
  BY <1>2 DEF Anchored
<1> QED
  BY <1>1, <1>3, <1>4 DEF d

\* SyncPcr makes the baseline's PCR good.
LEMMA SyncPcrStep ==
    ASSUME NEW c \in Clocks
    PROVE  LET d == SyncPcr(c)
           IN  /\ d \in Clocks /\ d.pcr_ready = TRUE /\ d.ready = c.ready
               /\ d.pid = c.pid /\ d.time_ready = c.time_ready
  BY DEF SyncPcr, Clocks

\* The status of a clock, field by field.
LEMMA StatusType ==
    ASSUME NEW c \in Clocks
    PROVE  /\ Status(c) \in [pid : Pids \cup {NoPid}, pcr : BOOLEAN, time : BOOLEAN]
           /\ Status(c).pid = c.pid
           /\ Status(c).pcr = (c.ready /\ c.pcr_ready)
           /\ Status(c).time = c.time_ready
<1>1. c.pid \in Pids \cup {NoPid} /\ (c.ready /\ c.pcr_ready) \in BOOLEAN
      /\ c.time_ready \in BOOLEAN
  BY DEF Clocks
<1> DEFINE p == c.ready /\ c.pcr_ready
<1>2. Status(c) = [pid |-> c.pid, pcr |-> p, time |-> c.time_ready]
  BY DEF Status
<1>3. p \in BOOLEAN
  BY <1>1
<1> HIDE DEF p
<1>4. /\ Status(c) \in [pid : Pids \cup {NoPid}, pcr : BOOLEAN, time : BOOLEAN]
      /\ Status(c).pid = c.pid /\ Status(c).pcr = p /\ Status(c).time = c.time_ready
  BY <1>1, <1>2, <1>3
<1> QED
  BY <1>4 DEF p

\* ... and what the methods make of it.
LEMMA StatusChanges ==
    ASSUME NEW c \in Clocks
    PROVE  /\ [Status(c) EXCEPT !.time = TRUE]
                = [pid |-> c.pid, pcr |-> c.ready /\ c.pcr_ready, time |-> TRUE]
           /\ [Status(c) EXCEPT !.pcr = TRUE]
                = [pid |-> c.pid, pcr |-> TRUE, time |-> c.time_ready]
           /\ [Status(c) EXCEPT !.pcr = FALSE, !.time = FALSE]
                = [pid |-> c.pid, pcr |-> FALSE, time |-> FALSE]
<1> DEFINE s == Status(c)
           p == c.ready /\ c.pcr_ready
<1>1. /\ s \in [pid : Pids \cup {NoPid}, pcr : BOOLEAN, time : BOOLEAN]
      /\ s.pid = c.pid /\ s.pcr = p /\ s.time = c.time_ready
  BY StatusType
<1> HIDE DEF s, p
<1>2. /\ [s EXCEPT !.time = TRUE] = [pid |-> s.pid, pcr |-> s.pcr, time |-> TRUE]
      /\ [s EXCEPT !.pcr = TRUE] = [pid |-> s.pid, pcr |-> TRUE, time |-> s.time]
      /\ [s EXCEPT !.pcr = FALSE, !.time = FALSE] = [pid |-> s.pid, pcr |-> FALSE, time |-> FALSE]
  <2> DEFINE P == Pids \cup {NoPid}
             B == BOOLEAN
  <2>1. s \in [pid : P, pcr : B, time : B] /\ TRUE \in B /\ FALSE \in B
    BY <1>1
  <2> HIDE DEF P, B
  <2>2. ASSUME NEW v \in B, NEW w \in B
        PROVE  /\ [s EXCEPT !.time = v] = [pid |-> s.pid, pcr |-> s.pcr, time |-> v]
               /\ [s EXCEPT !.pcr = v] = [pid |-> s.pid, pcr |-> v, time |-> s.time]
               /\ [s EXCEPT !.pcr = v, !.time = w] = [pid |-> s.pid, pcr |-> v, time |-> w]
    <3>1. [s EXCEPT !.time = v] = [pid |-> s.pid, pcr |-> s.pcr, time |-> v]
      BY <2>1
    <3>2. [s EXCEPT !.pcr = v] = [pid |-> s.pid, pcr |-> v, time |-> s.time]
      BY <2>1
    <3> DEFINE u == [s EXCEPT !.pcr = v, !.time = w]
    <3>3. /\ u \in [pid : P, pcr : B, time : B]
          /\ u.pid = s.pid /\ u.pcr = v /\ u.time = w
      BY <2>1
    <3> HIDE DEF u
    <3>4. u = [pid |-> s.pid, pcr |-> v, time |-> w]
      BY <3>3
    <3> QED
      BY <3>1, <3>2, <3>4 DEF u
  <2> QED
    BY <2>1, <2>2
<1> QED
  BY <1>1, <1>2, Zenon DEF s, p

\* UpdateTime: the time is good, and the PCR as good as it was.
LEMMA UpdateTimeStep ==
    ASSUME NEW c \in Clocks, Anchored(c)
    PROVE  LET d == UpdateTime(c, 0, 0)
           IN  /\ d \in Clocks /\ Anchored(d)
               /\ Status(d) = [Status(c) EXCEPT !.time = TRUE]
<1> DEFINE e == [c EXCEPT !.time = 0, !.time_ready = TRUE, !.local = 0]
<1> DEFINE d == UpdateTime(c, 0, 0)
<1>1. /\ e \in Clocks /\ e.time_ready = TRUE /\ e.pid = c.pid
      /\ e.ready = c.ready /\ e.pcr_ready = c.pcr_ready
  BY DEF Clocks
<1>2. d = IF c.ready THEN SyncPcr(e) ELSE e
  BY DEF UpdateTime
<1> HIDE DEF d, e
<1>3. /\ SyncPcr(e) \in Clocks /\ SyncPcr(e).pcr_ready = TRUE /\ SyncPcr(e).ready = e.ready
      /\ SyncPcr(e).pid = e.pid /\ SyncPcr(e).time_ready = e.time_ready
  BY <1>1, SyncPcrStep
<1>4. /\ d \in Clocks /\ d.pid = c.pid /\ d.time_ready = TRUE /\ d.ready = c.ready
      /\ d.pcr_ready = c.pcr_ready
  <2>1. CASE c.ready
    BY <2>1, <1>1, <1>2, <1>3 DEF Anchored, Clocks
  <2>2. CASE ~ c.ready
    BY <2>2, <1>1, <1>2
  <2> QED
    BY <2>1, <2>2
<1>5. Anchored(d)
  BY <1>4 DEF Anchored
<1>6. Status(d) = [Status(c) EXCEPT !.time = TRUE]
  <2>1. Status(d) = [pid |-> c.pid, pcr |-> c.ready /\ c.pcr_ready, time |-> TRUE]
    BY <1>4 DEF Status
  <2>2. [Status(c) EXCEPT !.time = TRUE]
          = [pid |-> c.pid, pcr |-> c.ready /\ c.pcr_ready, time |-> TRUE]
    BY StatusChanges
  <2> QED
    BY <2>1, <2>2
<1> QED
  BY <1>4, <1>5, <1>6 DEF d

\* TakePcr: the PCR is good.
LEMMA TakePcrStep ==
    ASSUME NEW c \in Clocks, NEW pcr \in Pcrs
    PROVE  LET d == TakePcr(c, pcr)
           IN  /\ d \in Clocks /\ d.pcr_ready = TRUE /\ d.ready = TRUE
               /\ d.pid = c.pid /\ d.time_ready = c.time_ready
<1> DEFINE e == [c EXCEPT !.wrapped = c.wrapped \/ pcr < c.last_pcr,
                          !.last_pcr = pcr, !.ready = TRUE]
<1> DEFINE d == TakePcr(c, pcr)
<1>1. /\ e \in Clocks /\ e.time_ready = c.time_ready /\ e.pid = c.pid
      /\ e.ready = TRUE /\ e.pcr_ready = c.pcr_ready
  BY DEF Clocks
<1>2. d = IF BaselineReady(c) THEN e ELSE SyncPcr(e)
  BY DEF TakePcr, Clocks
<1> HIDE DEF d, e
<1>3. /\ SyncPcr(e) \in Clocks /\ SyncPcr(e).pcr_ready = TRUE /\ SyncPcr(e).ready = e.ready
      /\ SyncPcr(e).pid = e.pid /\ SyncPcr(e).time_ready = e.time_ready
  BY <1>1, SyncPcrStep
<1>4. c.pcr_ready \in BOOLEAN
  BY DEF Clocks
<1> QED
  BY <1>1, <1>2, <1>3, <1>4 DEF d, BaselineReady

\* UpdatePcr of a clock that has a PID: a step of ClockStatus or a stutter.
LEMMA UpdatePcrStep ==
    ASSUME NEW c \in Clocks, Anchored(c), NEW pcr \in Pcrs
    PROVE  LET d == UpdatePcr(c, pcr)
           IN  /\ d \in Clocks /\ Anchored(d)
               /\ \/ Status(d) = [Status(c) EXCEPT !.pcr = TRUE]
                  \/ Status(d) = Status(c)
                  \/ /\ IsReady(c)
                     /\ Status(d) = [Status(c) EXCEPT !.pcr = FALSE, !.time = FALSE]
<1> DEFINE counted == [c EXCEPT !.gaps = (c.gaps + 1) % GapCountSize]
           zero == [c EXCEPT !.gaps = 0]
           d == UpdatePcr(c, pcr)
           Goal(e) == /\ e \in Clocks /\ Anchored(e)
                      /\ \/ Status(e) = [Status(c) EXCEPT !.pcr = TRUE]
                         \/ Status(e) = Status(c)
                         \/ /\ IsReady(c)
                            /\ Status(e) = [Status(c) EXCEPT !.pcr = FALSE, !.time = FALSE]
<1>1. \/ ~ IsReady(c) /\ d = TakePcr(c, pcr)
      \/ d = TakePcr(zero, pcr)
      \/ d = counted
      \/ IsReady(c) /\ d = Invalidate(counted)
  BY DEF UpdatePcr
<1>2. /\ GapCountSize \in Nat \ {0}
      /\ c.gaps \in 0..(GapCountSize - 1)
  BY ClockAssumption DEF Clocks
<1>3. (c.gaps + 1) % GapCountSize \in 0..(GapCountSize - 1)
  BY <1>2
<1>4. /\ counted \in Clocks /\ counted.pid = c.pid /\ counted.ready = c.ready
      /\ counted.pcr_ready = c.pcr_ready /\ counted.time_ready = c.time_ready
  BY <1>3 DEF Clocks
<1>5. 0 \in 0..(GapCountSize - 1)
  BY <1>2
<1>6. /\ zero \in Clocks /\ zero.pid = c.pid /\ zero.time_ready = c.time_ready
  BY <1>5 DEF Clocks
<1> HIDE DEF d, counted, zero
<1>7. ASSUME NEW e \in Clocks, e.pcr_ready = TRUE, e.ready = TRUE,
             e.pid = c.pid, e.time_ready = c.time_ready
      PROVE  Goal(e)
  <2>1. Status(e) = [pid |-> c.pid, pcr |-> TRUE, time |-> c.time_ready]
    BY <1>7 DEF Status
  <2>2. [Status(c) EXCEPT !.pcr = TRUE] = [pid |-> c.pid, pcr |-> TRUE, time |-> c.time_ready]
    BY StatusChanges
  <2>3. Anchored(e)
    BY <1>7 DEF Anchored
  <2> QED
    BY <2>1, <2>2, <2>3
<1>8. Goal(TakePcr(c, pcr))
  BY <1>7, TakePcrStep
<1>9. Goal(TakePcr(zero, pcr))
  BY <1>6, <1>7, TakePcrStep
<1>10. Goal(counted)
  <2>1. Status(counted) = Status(c)
    BY <1>4, Zenon DEF Status
  <2>2. Anchored(counted)
    BY <1>4 DEF Anchored
  <2> QED
    BY <1>4, <2>1, <2>2
<1>11. ASSUME IsReady(c) PROVE Goal(Invalidate(counted))
  <2> DEFINE e == Invalidate(counted)
  <2>1. /\ e \in Clocks /\ e.pid = counted.pid /\ e.ready = FALSE
        /\ e.pcr_ready = FALSE /\ e.time_ready = FALSE
    BY <1>4, ZeroPcr DEF Invalidate, Clocks
  <2> HIDE DEF e
  <2>2. Status(e) = [pid |-> c.pid, pcr |-> FALSE, time |-> FALSE]
    BY <1>4, <2>1 DEF Status
  <2>3. [Status(c) EXCEPT !.pcr = FALSE, !.time = FALSE]
          = [pid |-> c.pid, pcr |-> FALSE, time |-> FALSE]
    BY StatusChanges
  <2>4. Anchored(e)
    BY <2>1 DEF Anchored
  <2> QED
    BY <1>11, <2>1, <2>2, <2>3, <2>4 DEF e
<1>12. Goal(d)
  BY <1>1, <1>8, <1>9, <1>10, <1>11
<1> QED
  BY <1>12 DEF d

-----------------------------------------------------------------------------
(* The steps of StreamClock. *)

LEMMA Initial == Init => IInv
<1> SUFFICES ASSUME Init PROVE IInv
  OBVIOUS
<1>1. GapCountSize - 1 \in Nat
  BY ClockAssumption
<1>2. clock \in Clocks /\ clock.ready = FALSE
  BY <1>1, ZeroPcr DEF Init, NewClock, Clocks
<1>3. /\ stc \in Pcrs /\ since_pcr = 0 /\ since_tot = 0 /\ timed = FALSE
      /\ slips = 0 /\ disturbances = 0
  BY DEF Init
<1>4. MaxPcrInterval \in Nat /\ MaxTotInterval \in Nat /\ MaxDisturbances \in Nat
  BY StreamAssumption
<1>5. /\ since_pcr \in 0..MaxPcrInterval /\ since_tot \in 0..MaxTotInterval
      /\ slips \in 0..MaxDisturbances /\ disturbances \in 0..MaxDisturbances
      /\ slips <= disturbances
  BY <1>3, <1>4
<1>6. timed \in BOOLEAN
  BY <1>3
<1>7. Anchored(clock)
  BY <1>2 DEF Anchored
<1> QED
  BY <1>2, <1>3, <1>5, <1>6, <1>7 DEF IInv, TypeOK, Clocks

\* One step: the invariant is kept, and ClockStatus takes a step or stutters.
LEMMA Step ==
    ASSUME IInv, [Next]_vars
    PROVE  IInv' /\ [StatusView!Next]_(Status(clock))
<1>1. /\ clock \in Clocks /\ Anchored(clock)
      /\ stc \in Pcrs /\ timed \in BOOLEAN
      /\ since_pcr \in 0..MaxPcrInterval /\ since_tot \in 0..MaxTotInterval
      /\ slips \in 0..MaxDisturbances /\ disturbances \in 0..MaxDisturbances
      /\ slips <= disturbances
  BY DEF IInv, TypeOK, Clocks
<1>2. /\ MaxPcrInterval \in Nat \ {0} /\ MaxTotInterval \in Nat \ {0}
      /\ MaxDisturbances \in Nat /\ PcrUpperBound \in Nat \ {0} /\ NoPid \notin Pids
  BY StreamAssumption, PcrAssumption
\* What each action does to the clock, as its users see it ...
<1> DEFINE ClockStep ==
      /\ clock' \in Clocks /\ Anchored(clock')
      /\ \/ Status(clock') = Status(clock)
         \/ Status(clock') = [Status(clock) EXCEPT !.time = TRUE]
         \/ \E pid \in Pids : /\ clock.pid # pid
                              /\ Status(clock') = [pid |-> pid, pcr |-> FALSE, time |-> FALSE]
         \/ /\ clock.pid # NoPid
            /\ \/ Status(clock') = [Status(clock) EXCEPT !.pcr = TRUE]
               \/ /\ IsReady(clock)
                  /\ Status(clock') = [Status(clock) EXCEPT !.pcr = FALSE, !.time = FALSE]
\* ... and to the rest.
           Rest ==
      /\ stc' \in Pcrs /\ timed' \in BOOLEAN
      /\ since_pcr' \in 0..MaxPcrInterval /\ since_tot' \in 0..MaxTotInterval
      /\ slips' \in 0..MaxDisturbances /\ disturbances' \in 0..MaxDisturbances
      /\ slips' <= disturbances'
<1>3. ASSUME clock' = clock PROVE ClockStep
  BY <1>1, <1>3
<1>4. ASSUME NEW pid \in Pids, clock.pid # pid, clock' = SetPid(clock, pid) PROVE ClockStep
  <2>1. /\ clock' \in Clocks /\ Anchored(clock')
        /\ Status(clock') = [pid |-> pid, pcr |-> FALSE, time |-> FALSE]
    BY <1>1, <1>4, SetPidStep
  <2> QED
    BY <1>4, <2>1
<1>5. ASSUME NEW pcr \in Pcrs, clock.pid # NoPid, clock' = UpdatePcr(clock, pcr)
      PROVE  ClockStep
  <2>1. /\ clock' \in Clocks /\ Anchored(clock')
        /\ \/ Status(clock') = [Status(clock) EXCEPT !.pcr = TRUE]
           \/ Status(clock') = Status(clock)
           \/ /\ IsReady(clock)
              /\ Status(clock') = [Status(clock) EXCEPT !.pcr = FALSE, !.time = FALSE]
    BY <1>1, <1>5, UpdatePcrStep
  <2> QED
    BY <1>5, <2>1
<1>6. ClockStep /\ Rest
  <2>1. CASE UNCHANGED vars
    <3>1. /\ clock' = clock /\ stc' = stc /\ since_pcr' = since_pcr /\ since_tot' = since_tot
          /\ timed' = timed /\ slips' = slips /\ disturbances' = disturbances
      BY <2>1 DEF vars
    <3> QED
      BY <3>1, <1>1, <1>3
  <2>2. CASE Tick
    <3>1. /\ since_pcr < MaxPcrInterval /\ since_tot < MaxTotInterval
          /\ stc' = (stc + 1) % PcrUpperBound
          /\ since_pcr' = since_pcr + 1 /\ since_tot' = since_tot + 1
          /\ clock' = clock /\ timed' = timed /\ slips' = slips /\ disturbances' = disturbances
      BY <2>2 DEF Tick
    <3>2. stc' \in Pcrs
      BY <1>1, <1>2, <3>1 DEF Pcrs
    <3>3. since_pcr' \in 0..MaxPcrInterval /\ since_tot' \in 0..MaxTotInterval
      BY <1>1, <1>2, <3>1
    <3> QED
      BY <3>1, <3>2, <3>3, <1>1, <1>3
  <2>3. CASE Pcr
    <3>1. /\ clock' = IF HasPid(clock) THEN UpdatePcr(clock, stc) ELSE clock
          /\ since_pcr' = 0 /\ stc' = stc /\ since_tot' = since_tot
          /\ timed' = timed /\ slips' = slips /\ disturbances' = disturbances
      BY <2>3 DEF Pcr
    <3>2. ClockStep
      BY <3>1, <1>1, <1>3, <1>5 DEF HasPid
    <3>3. since_pcr' \in 0..MaxPcrInterval
      BY <3>1, <1>2
    <3> QED
      BY <3>1, <3>2, <3>3, <1>1
  <2>4. CASE Tot
    <3>1. /\ clock' = UpdateTime(clock, 0, 0) /\ since_tot' = 0 /\ timed' = TRUE /\ slips' = 0
          /\ stc' = stc /\ since_pcr' = since_pcr /\ disturbances' = disturbances
      BY <2>4 DEF Tot
    <3>2. /\ clock' \in Clocks /\ Anchored(clock')
          /\ Status(clock') = [Status(clock) EXCEPT !.time = TRUE]
      BY <3>1, <1>1, UpdateTimeStep
    <3>3. Rest
      BY <3>1, <1>1, <1>2
    <3> QED
      BY <3>2, <3>3
  <2>5. CASE FirstPmt
    <3>1. /\ stc' = stc /\ since_pcr' = since_pcr /\ since_tot' = since_tot
          /\ timed' = timed /\ slips' = slips /\ disturbances' = disturbances
      BY <2>5 DEF FirstPmt
    <3>2. PICK pid \in Pids : clock' = SetPid(clock, pid)
      BY <2>5 DEF FirstPmt
    <3>3. clock.pid # pid
      BY <2>5, <1>2 DEF FirstPmt, HasPid
    <3> QED
      BY <3>1, <3>2, <3>3, <1>1, <1>4
  <2>6. CASE Jump
    <3>1. /\ disturbances < MaxDisturbances /\ disturbances' = disturbances + 1
          /\ stc' \in Pcrs /\ slips' = slips + 1
          /\ clock' = clock /\ since_pcr' = since_pcr /\ since_tot' = since_tot /\ timed' = timed
      BY <2>6 DEF Jump, Disturb
    <3>2. Rest
      BY <3>1, <1>1, <1>2
    <3> QED
      BY <3>1, <3>2, <1>3
  <2>7. CASE WrongPcr
    <3>1. /\ disturbances < MaxDisturbances /\ disturbances' = disturbances + 1
          /\ clock.pid # NoPid /\ since_pcr' = 0 /\ slips' = slips + 1
          /\ stc' = stc /\ since_tot' = since_tot /\ timed' = timed
      BY <2>7 DEF WrongPcr, Disturb, HasPid
    <3>2. PICK pcr \in Pcrs : clock' = UpdatePcr(clock, pcr)
      BY <2>7 DEF WrongPcr
    <3>3. Rest
      BY <3>1, <1>1, <1>2
    <3> QED
      BY <3>1, <3>2, <3>3, <1>5
  <2>8. CASE ChangePid
    <3>1. /\ disturbances < MaxDisturbances /\ disturbances' = disturbances + 1
          /\ stc' \in Pcrs /\ since_pcr' = since_pcr /\ slips' = slips
          /\ since_tot' = since_tot /\ timed' = timed
      BY <2>8 DEF ChangePid, Disturb
    <3>2. PICK pid \in Pids \ {clock.pid} : clock' = SetPid(clock, pid)
      BY <2>8 DEF ChangePid
    <3>3. Rest
      BY <3>1, <1>1, <1>2
    <3> QED
      BY <3>2, <3>3, <1>4
  <2> QED
    BY <2>1, <2>2, <2>3, <2>4, <2>5, <2>6, <2>7, <2>8 DEF Next
<1>7. IInv'
  BY <1>6 DEF IInv, TypeOK, Clocks, Anchored
<1>8. [StatusView!Next]_(Status(clock))
  <2>1. Status(clock)' = Status(clock')
    BY DEF Status
  <2>2. IsReady(clock) => StatusView!IsReady(Status(clock))
    BY <1>1, StatusType DEF IsReady, BaselineReady, StatusView!IsReady
  <2>3. Status(clock).pid = clock.pid
    BY <1>1, StatusType
  <2> QED
    BY <1>6, <2>1, <2>2, <2>3
    DEF Status, StatusView!Next, StatusView!SetPid, StatusView!UpdateTime, StatusView!UpdatePcr
<1> QED
  BY <1>7, <1>8

-----------------------------------------------------------------------------
(* How far Now() is from the true time: the arithmetic. *)

\* The ticks of n seconds.
Secs(n) == TicksPerSec * n

\* The ticks the PCRs taken since the baseline was set account for.
Elapsed(c) == (c.last_pcr + (IF c.wrapped THEN PcrUpperBound ELSE 0)) - c.pcr

\* The longest time without a PCR that was taken when the gap counter is g.  A
\* counter beyond the threshold is left from before the clock became ready: the
\* next gap invalidates the clock, unless the counter wraps around.
Ignored(g) == IF g <= GapThreshold THEN (g + 1) * MaxPcrInterval ELSE 0

\* e ticks are n seconds off at most, or late by the PCRs that were ignored.
Bounded(e, i, sp, st, n) ==
    /\ e - st <= Secs(n)
    /\ st - e <= Secs(n) + i + sp

\* The PCRs of the stream, d ahead of the last one taken, would be right.
Genuine(e, d, st, n) ==
    /\ -Secs(n + 1) <= e + d - st
    /\ e + d - st <= Secs(n + 1)

\* Wrong PCRs were taken, the stream has to catch up with the last one.
Ahead(e, d, st, n) ==
    /\ -Secs(n + 1) <= e + d - PcrUpperBound - st
    /\ e + d - PcrUpperBound - st <= Secs(n)
    /\ PcrUpperBound - d <= Secs(n)

\* The invariant about a ready clock: e ticks elapsed, the stream d ahead, sp
\* and st ticks since the last PCR and TOT, n slips.  It is not enough that e is
\* near st: where the PCRs of the stream would lead has to be known, too.  After
\* a jump nothing is known of them, but then the slip has not shown either.
Near(e, d, i, sp, st, n) ==
    /\ Bounded(e, i, sp, st, n + 1)
    /\ Bounded(e, i, sp, st, n) \/ Genuine(e, d, st, n) \/ Ahead(e, d, st, n)

LEMMA SecsFacts ==
    ASSUME NEW n \in 0..MaxDisturbances
    PROVE  /\ Secs(n) \in Nat
           /\ Secs(n + 1) = Secs(n) + TicksPerSec
           /\ Secs(n + 2) = Secs(n) + 2 * TicksPerSec
           /\ MaxTotInterval + Secs(n) + 2 * TicksPerSec < PcrUpperBound
<1>1. /\ TicksPerSec \in Nat \ {0} /\ MaxDisturbances \in Nat /\ PcrUpperBound \in Nat
      /\ MaxTotInterval \in Nat
      /\ MaxTotInterval + (MaxDisturbances + 2) * TicksPerSec < PcrUpperBound
  BY PcrAssumption, ClockAssumption, StreamAssumption
<1>2. TicksPerSec * n <= TicksPerSec * MaxDisturbances
  BY <1>1
<1>3. (MaxDisturbances + 2) * TicksPerSec = TicksPerSec * MaxDisturbances + 2 * TicksPerSec
  BY <1>1
<1>4. /\ TicksPerSec * n \in Nat
      /\ TicksPerSec * (n + 1) = TicksPerSec * n + TicksPerSec
      /\ TicksPerSec * (n + 2) = TicksPerSec * n + 2 * TicksPerSec
  BY <1>1
<1>5. TicksPerSec * MaxDisturbances \in Nat /\ (MaxDisturbances + 2) * TicksPerSec \in Nat
  BY <1>1
<1> QED
  BY <1>1, <1>2, <1>3, <1>4, <1>5 DEF Secs

LEMMA IgnoredFacts ==
    ASSUME NEW g \in 0..(GapCountSize - 1), NEW sp \in 0..MaxPcrInterval
    PROVE  /\ Ignored(g) \in Nat
           /\ Ignored(g) + sp + TicksPerMs <= TicksPerSec
           /\ LET h == (g + 1) % GapCountSize
              IN  h <= GapThreshold => Ignored(g) + sp <= Ignored(h)
<1>1. /\ GapThreshold \in Nat /\ MaxPcrInterval \in Nat /\ TicksPerMs \in Nat
      /\ TicksPerSec \in Nat /\ GapCountSize \in Nat /\ GapThreshold + 1 < GapCountSize
      /\ (GapThreshold + 2) * MaxPcrInterval + TicksPerMs <= TicksPerSec
  BY PcrAssumption, ClockAssumption, StreamAssumption
<1> DEFINE M(k) == k * MaxPcrInterval
<1>2. ASSUME NEW k \in Nat
      PROVE  /\ M(k) \in Nat /\ M(k + 1) = M(k) + MaxPcrInterval
             /\ M(k + 2) = M(k) + 2 * MaxPcrInterval
             /\ k <= GapThreshold => M(k) <= M(GapThreshold)
  BY <1>1
<1>3. M(GapThreshold) + 2 * MaxPcrInterval + TicksPerMs <= TicksPerSec
  BY <1>1, <1>2
<1>4. Ignored(g) = IF g <= GapThreshold THEN M(g + 1) ELSE 0
  BY DEF Ignored
<1>5. M(GapThreshold) \in Nat /\ M(g) \in Nat /\ M(g + 1) = M(g) + MaxPcrInterval
      /\ (g <= GapThreshold => M(g) <= M(GapThreshold))
  BY <1>1, <1>2
<1> DEFINE h == (g + 1) % GapCountSize
<1>6. h = IF g = GapCountSize - 1 THEN 0 ELSE g + 1
  <2>1. CASE g = GapCountSize - 1
    BY <2>1, <1>1
  <2>2. CASE g # GapCountSize - 1
    <3>1. g + 1 \in 0..(GapCountSize - 1)
      BY <2>2, <1>1
    <3> QED
      BY <3>1, <2>2, <1>1
  <2> QED
    BY <2>1, <2>2
<1>7. /\ M(0 + 1) = MaxPcrInterval
      /\ M(g + 1 + 1) = M(g) + 2 * MaxPcrInterval
  <2>1. M(0) = 0 /\ M(0 + 1) = M(0) + MaxPcrInterval
    BY <1>1
  <2>2. M(g + 1 + 1) = M(g + 1) + MaxPcrInterval
    BY <1>2
  <2> QED
    BY <2>1, <2>2, <1>1, <1>5
<1>8. Ignored(h) = IF h <= GapThreshold THEN M(h + 1) ELSE 0
  BY DEF Ignored
<1> HIDE DEF M, h
<1>9. Ignored(g) \in Nat /\ Ignored(g) + sp + TicksPerMs <= TicksPerSec
  BY <1>1, <1>3, <1>4, <1>5
<1>10. ASSUME h <= GapThreshold PROVE Ignored(g) + sp <= Ignored(h)
  <2>1. CASE g = GapCountSize - 1
    BY <2>1, <1>1, <1>4, <1>6, <1>7, <1>8
  <2>2. CASE g # GapCountSize - 1
    <3>1. h = g + 1 /\ g <= GapThreshold
      BY <2>2, <1>1, <1>6, <1>10
    <3>2. M(h + 1) = M(g) + 2 * MaxPcrInterval
      BY <3>1, <1>7
    <3> QED
      BY <3>1, <3>2, <1>1, <1>4, <1>5, <1>8, <1>10
  <2> QED
    BY <2>1, <2>2
<1> QED
  BY <1>9, <1>10 DEF h

\* The steps of a ready clock, as far as the invariant is concerned.
LEMMA NearSteps ==
    ASSUME NEW e \in Nat, NEW d \in Pcrs, NEW i \in Nat, NEW sp \in 0..MaxPcrInterval,
           NEW st \in 0..MaxTotInterval, NEW n \in 0..MaxDisturbances,
           i + sp <= TicksPerSec, Near(e, d, i, sp, st, n)
    PROVE  \* A tick.
           /\ st < MaxTotInterval =>
                Near(e, IF d = PcrUpperBound - 1 THEN 0 ELSE d + 1, i, sp + 1, st + 1, n)
           \* A PCR of the stream that is taken.
           /\ d < TicksPerSec =>
                \A j \in Nat : Near(e + d, 0, j, 0, st, n)
           \* A jump of the stream.
           /\ \A b \in Pcrs : Near(e, b, i, sp, st, n + 1)
           \* A wrong PCR that is taken.
           /\ \A w \in 0..(TicksPerSec - 1), j \in Nat :
                Near(e + w, IF w <= d THEN d - w ELSE d - w + PcrUpperBound, j, 0, st, n + 1)
           \* A PCR that is ignored.
           /\ \A j \in Nat : i + sp <= j => /\ Near(e, d, j, 0, st, n)
                                            /\ Near(e, d, j, 0, st, n + 1)
           \* What is taken stays within one cycle of PCRs.
           /\ \A w \in 0..(TicksPerSec - 1) : e + w < PcrUpperBound
<1>1. /\ TicksPerSec \in Nat \ {0} /\ PcrUpperBound \in Nat \ {0}
      /\ MaxTotInterval \in Nat /\ MaxPcrInterval \in Nat
      /\ d \in Int /\ 0 <= d /\ d < PcrUpperBound
  BY PcrAssumption, ClockAssumption, StreamAssumption DEF Pcrs
<1> DEFINE S == Secs(n)
           B == TicksPerSec
           U == PcrUpperBound
<1>2. /\ S \in Nat /\ Secs(n + 1) = S + B /\ Secs(n + 2) = S + 2 * B
      /\ Secs(n + 1 + 1) = S + 2 * B
      /\ MaxTotInterval + S + 2 * B < U
  <2>1. n + 1 + 1 = n + 2
    OBVIOUS
  <2> QED
    BY <2>1, SecsFacts
<1>3. /\ B \in Nat \ {0} /\ U \in Nat \ {0} /\ MaxTotInterval \in Nat
      /\ e \in Nat /\ d \in Nat /\ i \in Nat /\ sp \in Nat /\ st \in Nat
      /\ d < U /\ i + sp <= B /\ st <= MaxTotInterval
  BY <1>1
<1> DEFINE Now0(f, b, j, q, t) ==
              /\ f - t <= S + B /\ t - f <= S + B + j + q
              /\ \/ f - t <= S /\ t - f <= S + j + q
                 \/ -(S + B) <= f + b - t /\ f + b - t <= S + B
                 \/ -(S + B) <= f + b - U - t /\ f + b - U - t <= S /\ U - b <= S
           Now1(f, b, j, q, t) ==
              /\ f - t <= S + 2 * B /\ t - f <= S + 2 * B + j + q
              /\ \/ f - t <= S + B /\ t - f <= S + B + j + q
                 \/ -(S + 2 * B) <= f + b - t /\ f + b - t <= S + 2 * B
                 \/ /\ -(S + 2 * B) <= f + b - U - t /\ f + b - U - t <= S + B
                    /\ U - b <= S + B
<1>4. Now0(e, d, i, sp, st)
  BY <1>2 DEF Near, Bounded, Genuine, Ahead
<1>5. ASSUME NEW f, NEW b, NEW j, NEW q, NEW t
      PROVE  /\ Now0(f, b, j, q, t) => Near(f, b, j, q, t, n)
             /\ Now1(f, b, j, q, t) => Near(f, b, j, q, t, n + 1)
  BY <1>2 DEF Near, Bounded, Genuine, Ahead
<1> HIDE DEF S, B, U
<1>6. ASSUME st < MaxTotInterval
      PROVE  Near(e, IF d = U - 1 THEN 0 ELSE d + 1, i, sp + 1, st + 1, n)
  <2>1. CASE d = U - 1
    <3>1. Now0(e, 0, i, sp + 1, st + 1)
      BY <2>1, <1>2, <1>3, <1>4, <1>6
    <3> QED
      BY <2>1, <3>1, <1>5
  <2>2. CASE d # U - 1
    <3>1. Now0(e, d + 1, i, sp + 1, st + 1)
      BY <2>2, <1>2, <1>3, <1>4, <1>6
    <3> QED
      BY <2>2, <3>1, <1>5
  <2> QED
    BY <2>1, <2>2
<1>7. ASSUME d < B, NEW j \in Nat PROVE Near(e + d, 0, j, 0, st, n)
  <2>1. Now0(e + d, 0, j, 0, st)
    BY <1>2, <1>3, <1>4, <1>7
  <2> QED
    BY <2>1, <1>5
<1>8. ASSUME NEW b \in Pcrs PROVE Near(e, b, i, sp, st, n + 1)
  <2>1. b \in Int
    BY <1>1 DEF Pcrs
  <2>2. Now1(e, b, i, sp, st)
    BY <2>1, <1>2, <1>3, <1>4
  <2> QED
    BY <2>2, <1>5
<1>9. ASSUME NEW w \in 0..(B - 1), NEW j \in Nat
      PROVE  Near(e + w, IF w <= d THEN d - w ELSE d - w + U, j, 0, st, n + 1)
  <2>1. CASE w <= d
    <3>1. Now1(e + w, d - w, j, 0, st)
      BY <2>1, <1>2, <1>3, <1>4
    <3> QED
      BY <2>1, <3>1, <1>5
  <2>2. CASE ~ (w <= d)
    <3>1. Now1(e + w, d - w + U, j, 0, st)
      BY <2>2, <1>2, <1>3, <1>4
    <3> QED
      BY <2>2, <3>1, <1>5
  <2> QED
    BY <2>1, <2>2
<1>10. ASSUME NEW j \in Nat, i + sp <= j
       PROVE  Near(e, d, j, 0, st, n) /\ Near(e, d, j, 0, st, n + 1)
  <2>1. Now0(e, d, j, 0, st) /\ Now1(e, d, j, 0, st)
    BY <1>2, <1>3, <1>4, <1>10
  <2> QED
    BY <2>1, <1>5
<1>11. ASSUME NEW w \in 0..(B - 1) PROVE e + w < U
  BY <1>1, <1>2, <1>3, <1>4
<1> QED
  BY <1>6, <1>7, <1>8, <1>9, <1>10, <1>11 DEF B, U

\* A clock that has just become ready.
LEMMA NearStarts ==
    ASSUME NEW i \in Nat, NEW d \in Pcrs
    PROVE  \* By a TOT.
           /\ \A sp \in Nat : Near(0, d, i, sp, 0, 0)
           \* By a PCR, st after the TOT, or by a wrong one.
           /\ \A st \in 0..MaxPcrInterval, n \in 0..MaxDisturbances :
                Near(0, 0, i, 0, st, n) /\ Near(0, d, i, 0, st, n + 1)
<1>1. /\ TicksPerSec \in Nat \ {0} /\ PcrUpperBound \in Nat \ {0}
      /\ MaxPcrInterval \in Nat /\ d \in Int
      /\ MaxDisturbances \in Nat
  BY PcrAssumption, ClockAssumption, StreamAssumption DEF Pcrs
<1>2. ASSUME NEW st \in 0..MaxPcrInterval PROVE st <= TicksPerSec
  <2>1. 0 \in 0..(GapCountSize - 1) /\ st \in 0..MaxPcrInterval
    BY ClockAssumption
  <2>2. Ignored(0) \in Nat /\ Ignored(0) + st + TicksPerMs <= TicksPerSec
    BY <2>1, IgnoredFacts
  <2> QED
    BY <2>2, <1>1, PcrAssumption
<1>3. ASSUME NEW n \in 0..MaxDisturbances
      PROVE  /\ Secs(n) \in Nat /\ Secs(n + 1) = Secs(n) + TicksPerSec
             /\ Secs(n + 1 + 1) = Secs(n) + 2 * TicksPerSec
  <2>1. n + 1 + 1 = n + 2
    OBVIOUS
  <2> QED
    BY <2>1, SecsFacts
<1>4. ASSUME NEW sp \in Nat PROVE Near(0, d, i, sp, 0, 0)
  <2>1. /\ Secs(0) \in Nat /\ Secs(0 + 1) = Secs(0) + TicksPerSec
    BY <1>1, <1>3
  <2> QED
    BY <2>1, <1>1 DEF Near, Bounded
<1>5. ASSUME NEW st \in 0..MaxPcrInterval, NEW n \in 0..MaxDisturbances
      PROVE  Near(0, 0, i, 0, st, n) /\ Near(0, d, i, 0, st, n + 1)
  <2>1. st \in Nat /\ st <= TicksPerSec
    BY <1>1, <1>2
  <2> DEFINE S == Secs(n)
  <2>2. /\ S \in Nat /\ Secs(n + 1) = S + TicksPerSec
        /\ Secs(n + 1 + 1) = S + 2 * TicksPerSec
    BY <1>3
  <2> HIDE DEF S
  <2>3. /\ 0 - st <= S + TicksPerSec /\ st - 0 <= S + TicksPerSec + i + 0
        /\ -(S + TicksPerSec) <= 0 + 0 - st /\ 0 + 0 - st <= S + TicksPerSec
        /\ 0 - st <= S + 2 * TicksPerSec /\ st - 0 <= S + 2 * TicksPerSec + i + 0
    BY <2>1, <2>2, <1>1
  <2>4. Near(0, 0, i, 0, st, n)
    BY <2>2, <2>3 DEF Near, Bounded, Genuine
  <2>5. Near(0, d, i, 0, st, n + 1)
    BY <2>2, <2>3 DEF Near, Bounded
  <2> QED
    BY <2>4, <2>5
<1> QED
  BY <1>4, <1>5

-----------------------------------------------------------------------------
(* How far Now() is from the true time: the methods of Clock. *)

\* The way forwards from one PCR to another.
LEMMA DeltaFacts ==
    ASSUME NEW a \in Pcrs, NEW b \in Pcrs
    PROVE  LET d == ComputeDelta(a, b)
           IN  /\ d \in Pcrs
               /\ ComputeDelta((a + 1) % PcrUpperBound, b)
                    = IF d = PcrUpperBound - 1 THEN 0 ELSE d + 1
               /\ ComputeDelta(a, a) = 0
               /\ \A v \in Pcrs :
                    LET w == ComputeDelta(v, b)
                    IN  ComputeDelta(a, v) = IF w <= d THEN d - w ELSE d - w + PcrUpperBound
<1>1. PcrUpperBound \in Nat \ {0}
  BY PcrAssumption
<1>2. ComputeDelta(a, b) \in Pcrs /\ ComputeDelta(a, a) = 0
  BY <1>1 DEF ComputeDelta, Pcrs
<1>3. ASSUME NEW v \in Pcrs
      PROVE  ComputeDelta(a, v) =
               IF ComputeDelta(v, b) <= ComputeDelta(a, b)
               THEN ComputeDelta(a, b) - ComputeDelta(v, b)
               ELSE ComputeDelta(a, b) - ComputeDelta(v, b) + PcrUpperBound
  BY <1>1 DEF ComputeDelta, Pcrs
<1>4. ComputeDelta((a + 1) % PcrUpperBound, b)
        = IF ComputeDelta(a, b) = PcrUpperBound - 1 THEN 0 ELSE ComputeDelta(a, b) + 1
  <2>1. CASE a = PcrUpperBound - 1
    <3>1. (a + 1) % PcrUpperBound = 0
      BY <2>1, <1>1
    <3>2. ComputeDelta(0, b)
            = IF ComputeDelta(a, b) = PcrUpperBound - 1 THEN 0 ELSE ComputeDelta(a, b) + 1
      BY <2>1, <1>1 DEF ComputeDelta, Pcrs
    <3> QED
      BY <3>1, <3>2
  <2>2. CASE a # PcrUpperBound - 1
    <3>1. a + 1 \in 0..(PcrUpperBound - 1)
      BY <2>2, <1>1 DEF Pcrs
    <3>2. (a + 1) % PcrUpperBound = a + 1
      BY <3>1, <1>1
    <3>3. ComputeDelta(a + 1, b)
            = IF ComputeDelta(a, b) = PcrUpperBound - 1 THEN 0 ELSE ComputeDelta(a, b) + 1
      BY <2>2, <1>1 DEF ComputeDelta, Pcrs
    <3> QED
      BY <3>2, <3>3
  <2> QED
    BY <2>1, <2>2
<1> QED
  BY <1>2, <1>3, <1>4

\* A PCR was taken if and only if one is in the baseline.
Paired(c) == c.ready = c.pcr_ready

\* A ready clock takes a PCR that is no gap ...
LEMMA PcrTaken ==
    ASSUME NEW c \in Clocks, NEW v \in Pcrs, IsReady(c),
           ComputeDelta(v, c.last_pcr) < TicksPerSec
    PROVE  LET d == UpdatePcr(c, v)
           IN  /\ d.ready = TRUE /\ d.pcr_ready = TRUE /\ d.time_ready = TRUE
               /\ d.last_pcr = v /\ d.gaps = 0 /\ d.pcr = c.pcr
               /\ d.wrapped = (c.wrapped \/ v < c.last_pcr)
<1> DEFINE zero == [c EXCEPT !.gaps = 0]
           over == zero.wrapped \/ v < zero.last_pcr
           e == [zero EXCEPT !.wrapped = over, !.last_pcr = v, !.ready = TRUE]
<1>1. 0 \in 0..(GapCountSize - 1)
  BY ClockAssumption
<1>2. /\ zero \in Clocks /\ zero.gaps = 0 /\ zero.pcr = c.pcr /\ zero.last_pcr = c.last_pcr
      /\ zero.wrapped = c.wrapped /\ zero.pcr_ready = c.pcr_ready
      /\ zero.time_ready = c.time_ready
  BY <1>1 DEF Clocks
<1>3. ~ (ComputeDelta(v, c.last_pcr) >= TicksPerSec)
  <2>1. ComputeDelta(v, c.last_pcr) \in Int /\ TicksPerSec \in Int
    <3>1. c.last_pcr \in Pcrs
      BY DEF Clocks
    <3>2. ComputeDelta(v, c.last_pcr) \in Pcrs
      BY <3>1, DeltaFacts
    <3> QED
      BY <3>2, ClockAssumption, PcrAssumption DEF Pcrs
  <2> QED
    BY <2>1
<1>4. UpdatePcr(c, v) = TakePcr(zero, v)
  BY <1>3 DEF UpdatePcr
<1> HIDE DEF zero
<1>5. c.pcr_ready = TRUE /\ c.time_ready = TRUE
  BY DEF IsReady, BaselineReady, Clocks
<1>6. TakePcr(zero, v) = e
  BY <1>2, <1>5 DEF TakePcr, BaselineReady
<1>7. over \in BOOLEAN
  OBVIOUS
<1> HIDE DEF over
<1>8. /\ e.ready = TRUE /\ e.pcr_ready = zero.pcr_ready /\ e.time_ready = zero.time_ready
      /\ e.last_pcr = v /\ e.gaps = zero.gaps /\ e.pcr = zero.pcr /\ e.wrapped = over
  BY <1>2 DEF Clocks
<1>9. over = (c.wrapped \/ v < c.last_pcr)
  BY <1>2, Zenon DEF over
<1> HIDE DEF e
<1> QED
  BY <1>2, <1>4, <1>5, <1>6, <1>8, <1>9, Zenon

\* ... which adds to the time that has elapsed ...
LEMMA TakenElapsed ==
    ASSUME NEW c \in Clocks, NEW v \in Pcrs, IsReady(c),
           ComputeDelta(v, c.last_pcr) < TicksPerSec,
           Elapsed(c) \in Nat, Elapsed(c) + ComputeDelta(v, c.last_pcr) < PcrUpperBound
    PROVE  Elapsed(UpdatePcr(c, v)) = Elapsed(c) + ComputeDelta(v, c.last_pcr)
<1> DEFINE d == UpdatePcr(c, v)
<1>1. d.last_pcr = v /\ d.pcr = c.pcr /\ d.wrapped = (c.wrapped \/ v < c.last_pcr)
  BY PcrTaken
<1>2. /\ c.last_pcr \in Pcrs /\ c.pcr \in Pcrs /\ v \in Pcrs /\ PcrUpperBound \in Nat \ {0}
  BY PcrAssumption DEF Clocks
<1> HIDE DEF d
<1>3. CASE c.wrapped
  <2>1. d.wrapped
    BY <1>1, <1>3
  <2>2. Elapsed(d) = (v + PcrUpperBound) - c.pcr /\ Elapsed(c) = (c.last_pcr + PcrUpperBound) - c.pcr
    BY <1>1, <1>3, <2>1 DEF Elapsed
  <2> QED
    BY <2>2, <1>2 DEF ComputeDelta, Pcrs, d
<1>4. CASE ~ c.wrapped /\ v < c.last_pcr
  <2>1. d.wrapped
    BY <1>1, <1>4
  <2>2. Elapsed(d) = (v + PcrUpperBound) - c.pcr /\ Elapsed(c) = (c.last_pcr + 0) - c.pcr
    BY <1>1, <1>4, <2>1 DEF Elapsed
  <2> QED
    BY <2>2, <1>2, <1>4 DEF ComputeDelta, Pcrs, d
<1>5. CASE ~ c.wrapped /\ ~ (v < c.last_pcr)
  <2>1. ~ d.wrapped
    BY <1>1, <1>5
  <2>2. Elapsed(d) = (v + 0) - c.pcr /\ Elapsed(c) = (c.last_pcr + 0) - c.pcr
    BY <1>1, <1>5, <2>1 DEF Elapsed
  <2> QED
    BY <2>2, <1>2, <1>5 DEF ComputeDelta, Pcrs, d
<1> QED
  BY <1>3, <1>4, <1>5

\* ... and ignores a gap or is invalidated by it.
LEMMA PcrIgnored ==
    ASSUME NEW c \in Clocks, NEW v \in Pcrs, IsReady(c),
           ~ (ComputeDelta(v, c.last_pcr) < TicksPerSec)
    PROVE  LET d == UpdatePcr(c, v)
           IN  \/ /\ d.ready = TRUE /\ d.pcr_ready = TRUE /\ d.time_ready = TRUE
                  /\ d.last_pcr = c.last_pcr /\ d.pcr = c.pcr /\ d.wrapped = c.wrapped
                  /\ d.gaps = (c.gaps + 1) % GapCountSize /\ d.gaps <= GapThreshold
               \/ d.ready = FALSE /\ d.pcr_ready = FALSE /\ d.time_ready = FALSE
<1> DEFINE g == (c.gaps + 1) % GapCountSize
           counted == [c EXCEPT !.gaps = g]
<1>1. g \in 0..(GapCountSize - 1)
  BY ClockAssumption DEF Clocks
<1>2. /\ counted \in Clocks /\ counted.gaps = g
      /\ counted.last_pcr = c.last_pcr /\ counted.pcr = c.pcr /\ counted.wrapped = c.wrapped
      /\ counted.ready = c.ready /\ counted.pcr_ready = c.pcr_ready
      /\ counted.time_ready = c.time_ready
  BY <1>1 DEF Clocks
<1>3. ComputeDelta(v, c.last_pcr) >= TicksPerSec
  <2>1. ComputeDelta(v, c.last_pcr) \in Int /\ TicksPerSec \in Int
    <3>1. c.last_pcr \in Pcrs
      BY DEF Clocks
    <3>2. ComputeDelta(v, c.last_pcr) \in Pcrs
      BY <3>1, DeltaFacts
    <3> QED
      BY <3>2, ClockAssumption, PcrAssumption DEF Pcrs
  <2> QED
    BY <2>1
<1>4. UpdatePcr(c, v) = IF counted.gaps <= GapThreshold THEN counted ELSE Invalidate(counted)
  BY <1>3 DEF UpdatePcr
<1>5. c.ready = TRUE /\ c.pcr_ready = TRUE /\ c.time_ready = TRUE
  BY DEF IsReady, BaselineReady, Clocks
<1> HIDE DEF counted, g
<1>6. CASE counted.gaps <= GapThreshold
  BY <1>2, <1>4, <1>5, <1>6, Zenon DEF g
<1>7. CASE ~ (counted.gaps <= GapThreshold)
  <2>1. /\ Invalidate(counted).ready = FALSE /\ Invalidate(counted).pcr_ready = FALSE
        /\ Invalidate(counted).time_ready = FALSE
    BY <1>2 DEF Invalidate, Clocks
  <2> QED
    BY <2>1, <1>4, <1>7, Zenon
<1> QED
  BY <1>6, <1>7

\* A clock that is not ready takes any PCR as its baseline.
LEMMA PcrSynced ==
    ASSUME NEW c \in Clocks, NEW v \in Pcrs, ~ IsReady(c), Paired(c)
    PROVE  LET d == UpdatePcr(c, v)
           IN  /\ d.ready = TRUE /\ d.pcr_ready = TRUE /\ d.time_ready = c.time_ready
               /\ d.last_pcr = v /\ d.pcr = v /\ d.wrapped = FALSE /\ d.gaps = c.gaps
<1> DEFINE over == c.wrapped \/ v < c.last_pcr
           e == [c EXCEPT !.wrapped = over, !.last_pcr = v, !.ready = TRUE]
<1>1. ~ BaselineReady(c)
  BY DEF IsReady, BaselineReady, Paired, Clocks
<1>2. UpdatePcr(c, v) = SyncPcr(e)
  BY <1>1 DEF UpdatePcr, TakePcr
<1>3. over \in BOOLEAN
  OBVIOUS
<1> HIDE DEF over
<1>4. /\ e \in Clocks /\ e.ready = TRUE /\ e.time_ready = c.time_ready /\ e.last_pcr = v
      /\ e.gaps = c.gaps
  BY <1>3 DEF Clocks
<1> HIDE DEF e
<1>5. /\ SyncPcr(e).ready = e.ready /\ SyncPcr(e).pcr_ready = TRUE
      /\ SyncPcr(e).time_ready = e.time_ready /\ SyncPcr(e).last_pcr = e.last_pcr
      /\ SyncPcr(e).pcr = e.last_pcr /\ SyncPcr(e).wrapped = FALSE /\ SyncPcr(e).gaps = e.gaps
  BY <1>4 DEF SyncPcr, Clocks
<1> QED
  BY <1>2, <1>4, <1>5

\* A TOT makes the last PCR the baseline of a clock that has one.
LEMMA TimeSynced ==
    ASSUME NEW c \in Clocks, Paired(c)
    PROVE  LET d == UpdateTime(c, 0, 0)
           IN  /\ d.ready = c.ready /\ d.pcr_ready = c.pcr_ready /\ d.last_pcr = c.last_pcr
               /\ d.gaps = c.gaps
               /\ c.ready => d.pcr = c.last_pcr /\ d.wrapped = FALSE
<1> DEFINE e == [c EXCEPT !.time = 0, !.time_ready = TRUE, !.local = 0]
<1>1. /\ e \in Clocks /\ e.ready = c.ready /\ e.pcr_ready = c.pcr_ready
      /\ e.last_pcr = c.last_pcr /\ e.gaps = c.gaps
  BY DEF Clocks
<1>2. UpdateTime(c, 0, 0) = IF c.ready THEN SyncPcr(e) ELSE e
  BY DEF UpdateTime
<1> HIDE DEF e
<1>3. /\ SyncPcr(e).ready = e.ready /\ SyncPcr(e).pcr_ready = TRUE
      /\ SyncPcr(e).last_pcr = e.last_pcr /\ SyncPcr(e).gaps = e.gaps
      /\ SyncPcr(e).pcr = e.last_pcr /\ SyncPcr(e).wrapped = FALSE
  BY <1>1 DEF SyncPcr, Clocks
<1>4. CASE c.ready
  <2>1. c.pcr_ready = TRUE
    BY <1>4 DEF Paired, Clocks
  <2> QED
    BY <2>1, <1>1, <1>2, <1>3, <1>4, Zenon
<1>5. CASE ~ c.ready
  BY <1>1, <1>2, <1>5, Zenon
<1> QED
  BY <1>4, <1>5

-----------------------------------------------------------------------------
(* How far Now() is from the true time: the steps of StreamClock. *)

\* Between a TOT and the first PCR of its PID the clock counts from the TOT.
Fresh ==
    clock.pid # NoPid /\ clock.time_ready /\ ~ clock.ready => since_tot <= since_pcr

\* A ready clock is near the true time, and will be.
StaysNear ==
    IsReady(clock) =>
      /\ Elapsed(clock) \in Nat
      /\ Near(Elapsed(clock), ComputeDelta(stc, clock.last_pcr), Ignored(clock.gaps),
              since_pcr, since_tot, slips)

\* No PCR is taken without a PID.
Unset == clock.pid = NoPid => ~ clock.ready

\* The inductive invariant for the accuracy of Now().
TimeInv == IInv /\ Paired(clock) /\ Unset /\ Fresh /\ StaysNear

\* The state after a step, field by field, is what the invariant is about.
LEMMA NotReadyNear ==
    ASSUME Paired(clock)', ~ clock'.ready, ~ clock'.time_ready
    PROVE  (Fresh /\ StaysNear)'
  BY DEF Fresh, StaysNear, IsReady

\* Neither PCRs nor TOTs change the PID.
LEMMA PidKept ==
    ASSUME NEW c \in Clocks, Anchored(c)
    PROVE  /\ UpdateTime(c, 0, 0).pid = c.pid
           /\ \A v \in Pcrs : UpdatePcr(c, v).pid = c.pid
<1>1. ASSUME NEW d \in Clocks,
             \/ Status(d) = [Status(c) EXCEPT !.pcr = TRUE]
             \/ Status(d) = [Status(c) EXCEPT !.time = TRUE]
             \/ Status(d) = Status(c)
             \/ Status(d) = [Status(c) EXCEPT !.pcr = FALSE, !.time = FALSE]
      PROVE  d.pid = c.pid
  <2>1. Status(d).pid = d.pid /\ Status(c).pid = c.pid
    BY StatusType
  <2>2. /\ [Status(c) EXCEPT !.pcr = TRUE].pid = c.pid
        /\ [Status(c) EXCEPT !.time = TRUE].pid = c.pid
        /\ [Status(c) EXCEPT !.pcr = FALSE, !.time = FALSE].pid = c.pid
    <3>1. ASSUME NEW b, NEW t PROVE [pid |-> c.pid, pcr |-> b, time |-> t].pid = c.pid
      OBVIOUS
    <3> QED
      BY <3>1, StatusChanges, Zenon
  <2> QED
    BY <1>1, <2>1, <2>2, Zenon
<1>2. UpdateTime(c, 0, 0).pid = c.pid
  BY <1>1, UpdateTimeStep
<1>3. ASSUME NEW v \in Pcrs PROVE UpdatePcr(c, v).pid = c.pid
  BY <1>1, UpdatePcrStep
<1> QED
  BY <1>2, <1>3

\* A PCR, right or wrong, arrives at a clock that has a PID.
LEMMA PcrNear ==
    ASSUME TimeInv, NEW v \in Pcrs, clock.pid # NoPid, clock' = UpdatePcr(clock, v),
           since_pcr' = 0, stc' = stc, since_tot' = since_tot,
           \/ v = stc /\ slips' = slips
           \/ slips' = slips + 1
    PROVE  Paired(clock)' /\ Fresh' /\ StaysNear'
<1> DEFINE c == clock
           D == ComputeDelta(stc, c.last_pcr)
           w == ComputeDelta(v, c.last_pcr)
           E == Elapsed(c)
<1>1. /\ c \in Clocks /\ stc \in Pcrs /\ since_pcr \in 0..MaxPcrInterval
      /\ since_tot \in 0..MaxTotInterval /\ slips \in 0..MaxDisturbances
      /\ c.last_pcr \in Pcrs /\ c.gaps \in 0..(GapCountSize - 1)
  BY DEF TimeInv, IInv, TypeOK, Clocks
<1>2. /\ PcrUpperBound \in Nat \ {0} /\ TicksPerSec \in Nat \ {0} /\ TicksPerMs \in Nat
  BY PcrAssumption, ClockAssumption
<1>3. D \in Pcrs /\ w \in Pcrs
  BY <1>1, DeltaFacts
<1>4. Ignored(c.gaps) \in Nat /\ Ignored(c.gaps) + since_pcr + TicksPerMs <= TicksPerSec
  BY <1>1, IgnoredFacts
<1>5. Ignored(c.gaps) + since_pcr <= TicksPerSec
  BY <1>1, <1>2, <1>4
<1>6. CASE IsReady(c) /\ w < TicksPerSec
  <2>1. E \in Nat /\ Near(E, D, Ignored(c.gaps), since_pcr, since_tot, slips)
    BY <1>6 DEF TimeInv, StaysNear
  <2>2. w \in 0..(TicksPerSec - 1)
    BY <1>2, <1>3, <1>6 DEF Pcrs
  <2>3. E + w < PcrUpperBound
    BY <1>1, <1>3, <1>4, <1>5, <2>1, <2>2, NearSteps
  <2>4. Elapsed(clock') = E + w
    BY <1>1, <1>6, <2>1, <2>3, TakenElapsed
  <2>5. /\ clock'.ready = TRUE /\ clock'.pcr_ready = TRUE /\ clock'.last_pcr = v
        /\ clock'.gaps = 0
    BY <1>1, <1>6, PcrTaken
  <2>6. Ignored(0) \in Nat
    <3>1. 0 \in 0..(GapCountSize - 1)
      BY ClockAssumption
    <3> QED
      BY <1>1, <3>1, IgnoredFacts
  <2>7. Near(E + w, ComputeDelta(stc, v), Ignored(0), 0, since_tot, slips')
    <3>1. CASE v = stc /\ slips' = slips
      <4>1. ComputeDelta(stc, v) = 0 /\ w = D
        BY <1>1, <3>1, DeltaFacts
      <4>2. Near(E + D, 0, Ignored(0), 0, since_tot, slips)
        BY <1>1, <1>3, <1>4, <1>5, <1>6, <2>1, <2>6, <4>1, NearSteps
      <4> QED
        BY <3>1, <4>1, <4>2
    <3>2. CASE slips' = slips + 1
      <4>1. ComputeDelta(stc, v) = IF w <= D THEN D - w ELSE D - w + PcrUpperBound
        BY <1>1, DeltaFacts
      <4>2. Near(E + w, IF w <= D THEN D - w ELSE D - w + PcrUpperBound, Ignored(0), 0,
                 since_tot, slips + 1)
        BY <1>1, <1>3, <1>4, <1>5, <2>1, <2>2, <2>6, NearSteps
      <4> QED
        BY <3>2, <4>1, <4>2
    <3> QED
      BY <3>1, <3>2
  <2>8. E + w \in Nat
    BY <2>1, <2>2
  <2>9. StaysNear'
    BY <2>4, <2>5, <2>7, <2>8 DEF StaysNear
  <2> QED
    BY <2>5, <2>9 DEF Paired, Fresh
<1>7. CASE IsReady(c) /\ ~ (w < TicksPerSec)
  <2>1. E \in Nat /\ Near(E, D, Ignored(c.gaps), since_pcr, since_tot, slips)
    BY <1>7 DEF TimeInv, StaysNear
  <2>2. CASE /\ clock'.ready = TRUE /\ clock'.pcr_ready = TRUE /\ clock'.time_ready = TRUE
             /\ clock'.last_pcr = c.last_pcr /\ clock'.pcr = c.pcr
             /\ clock'.wrapped = c.wrapped
             /\ clock'.gaps = (c.gaps + 1) % GapCountSize /\ clock'.gaps <= GapThreshold
    <3>1. Elapsed(clock') = E
      BY <2>2 DEF Elapsed
    <3>2. clock'.gaps \in 0..(GapCountSize - 1)
      BY <2>2, <1>1, ClockAssumption
    <3>3. Ignored(clock'.gaps) \in Nat
      BY <3>2, <1>1, IgnoredFacts
    <3>4. Ignored(c.gaps) + since_pcr <= Ignored(clock'.gaps)
      BY <2>2, <1>1, IgnoredFacts
    <3>5. /\ Near(E, D, Ignored(clock'.gaps), 0, since_tot, slips)
          /\ Near(E, D, Ignored(clock'.gaps), 0, since_tot, slips + 1)
      BY <1>1, <1>3, <1>4, <1>5, <2>1, <3>3, <3>4, NearSteps
    <3>6. StaysNear'
      BY <2>1, <2>2, <3>1, <3>5 DEF StaysNear
    <3> QED
      BY <2>2, <3>6 DEF Paired, Fresh
  <2>3. CASE clock'.ready = FALSE /\ clock'.pcr_ready = FALSE /\ clock'.time_ready = FALSE
    BY <2>3, NotReadyNear DEF Paired
  <2> QED
    BY <1>1, <1>7, <2>2, <2>3, PcrIgnored
<1>8. CASE ~ IsReady(c)
  <2>1. /\ clock'.ready = TRUE /\ clock'.pcr_ready = TRUE /\ clock'.time_ready = c.time_ready
        /\ clock'.last_pcr = v /\ clock'.pcr = v /\ clock'.wrapped = FALSE
        /\ clock'.gaps = c.gaps
    BY <1>1, <1>8, PcrSynced DEF TimeInv
  <2>2. Elapsed(clock') = 0
    BY <2>1, <1>2 DEF Elapsed, Pcrs
  <2>3. ASSUME c.time_ready
        PROVE  Near(0, ComputeDelta(stc, v), Ignored(c.gaps), 0, since_tot, slips')
    <3>1. ~ c.ready
      BY <1>1, <1>8, <2>3 DEF IsReady, BaselineReady, TimeInv, Paired, Clocks
    <3>2. since_tot \in 0..MaxPcrInterval
      BY <1>1, <2>3, <3>1, StreamAssumption DEF TimeInv, Fresh
    <3>3. CASE v = stc /\ slips' = slips
      <4>1. ComputeDelta(stc, v) = 0
        BY <1>1, <3>3, DeltaFacts
      <4>2. Near(0, 0, Ignored(c.gaps), 0, since_tot, slips)
        BY <1>1, <1>4, <3>2, NearStarts
      <4> QED
        BY <3>3, <4>1, <4>2
    <3>4. CASE slips' = slips + 1
      <4>1. ComputeDelta(stc, v) \in Pcrs
        BY <1>1, DeltaFacts
      <4>2. Near(0, ComputeDelta(stc, v), Ignored(c.gaps), 0, since_tot, slips + 1)
        BY <1>1, <1>4, <3>2, <4>1, NearStarts
      <4> QED
        BY <3>4, <4>2
    <3> QED
      BY <3>3, <3>4
  <2>4. StaysNear'
    BY <2>1, <2>2, <2>3 DEF StaysNear, IsReady, BaselineReady
  <2> QED
    BY <2>1, <2>4 DEF Paired, Fresh
<1> QED
  BY <1>6, <1>7, <1>8

LEMMA TimeStep ==
    ASSUME TimeInv, [Next]_vars
    PROVE  TimeInv'
<1>1. /\ clock \in Clocks /\ Paired(clock) /\ stc \in Pcrs
      /\ since_pcr \in 0..MaxPcrInterval /\ since_tot \in 0..MaxTotInterval
      /\ slips \in 0..MaxDisturbances
      /\ clock.last_pcr \in Pcrs /\ clock.gaps \in 0..(GapCountSize - 1)
  BY DEF TimeInv, IInv, TypeOK, Clocks
<1>2. /\ PcrUpperBound \in Nat \ {0} /\ TicksPerSec \in Nat \ {0} /\ TicksPerMs \in Nat
      /\ MaxPcrInterval \in Nat /\ MaxTotInterval \in Nat
  BY PcrAssumption, ClockAssumption, StreamAssumption
<1> DEFINE D == ComputeDelta(stc, clock.last_pcr)
           I == Ignored(clock.gaps)
<1>3. D \in Pcrs /\ I \in Nat /\ I + since_pcr <= TicksPerSec
  <2>1. D \in Pcrs
    BY <1>1, DeltaFacts
  <2>2. I \in Nat /\ I + since_pcr + TicksPerMs <= TicksPerSec
    BY <1>1, IgnoredFacts
  <2> QED
    BY <2>1, <2>2, <1>1, <1>2
<1>4. ASSUME IsReady(clock)
      PROVE  Elapsed(clock) \in Nat /\ Near(Elapsed(clock), D, I, since_pcr, since_tot, slips)
  BY <1>4 DEF TimeInv, StaysNear
<1>5. ASSUME NEW pid \in Pids, clock' = SetPid(clock, pid)
      PROVE  Paired(clock)' /\ Fresh' /\ StaysNear'
  <2>1. clock'.ready = FALSE /\ clock'.pcr_ready = FALSE /\ clock'.time_ready = FALSE
    BY <1>1, <1>5 DEF SetPid, Clocks
  <2> QED
    BY <2>1, NotReadyNear DEF Paired
<1>6. Paired(clock)' /\ Fresh' /\ StaysNear'
  <2>1. CASE UNCHANGED vars
    BY <2>1 DEF vars, TimeInv, Paired, Fresh, StaysNear
  <2>2. CASE Tick
    <3>1. /\ since_pcr < MaxPcrInterval /\ since_tot < MaxTotInterval
          /\ stc' = (stc + 1) % PcrUpperBound
          /\ since_pcr' = since_pcr + 1 /\ since_tot' = since_tot + 1
          /\ clock' = clock /\ slips' = slips
      BY <2>2 DEF Tick
    <3>2. ASSUME IsReady(clock)
          PROVE  Near(Elapsed(clock), ComputeDelta(stc', clock.last_pcr), I,
                      since_pcr + 1, since_tot + 1, slips)
      <4>1. ComputeDelta(stc', clock.last_pcr) = IF D = PcrUpperBound - 1 THEN 0 ELSE D + 1
        BY <1>1, <3>1, DeltaFacts
      <4>2. Near(Elapsed(clock), IF D = PcrUpperBound - 1 THEN 0 ELSE D + 1, I,
                 since_pcr + 1, since_tot + 1, slips)
        BY <1>1, <1>3, <1>4, <3>1, <3>2, NearSteps
      <4> QED
        BY <4>1, <4>2
    <3>3. StaysNear'
      BY <1>4, <3>1, <3>2 DEF StaysNear
    <3>4. Fresh'
      BY <1>1, <3>1 DEF TimeInv, Fresh
    <3> QED
      BY <1>1, <3>1, <3>3, <3>4 DEF Paired
  <2>3. CASE Pcr
    <3>1. /\ since_pcr' = 0 /\ stc' = stc /\ since_tot' = since_tot /\ slips' = slips
      BY <2>3 DEF Pcr
    <3>2. CASE clock.pid # NoPid
      <4>1. clock' = UpdatePcr(clock, stc)
        BY <2>3, <3>2 DEF Pcr, HasPid
      <4> QED
        BY <1>1, <3>1, <3>2, <4>1, PcrNear
    <3>3. CASE clock.pid = NoPid
      <4>1. clock' = clock
        BY <2>3, <3>3 DEF Pcr, HasPid
      <4>2. ~ clock.ready
        BY <3>3 DEF TimeInv, Unset
      <4> QED
        BY <3>3, <4>1, <4>2 DEF TimeInv, Paired, Fresh, StaysNear, IsReady
    <3> QED
      BY <3>2, <3>3
  <2>4. CASE Tot
    <3>1. /\ clock' = UpdateTime(clock, 0, 0) /\ since_tot' = 0 /\ slips' = 0
          /\ stc' = stc /\ since_pcr' = since_pcr
      BY <2>4 DEF Tot
    <3>2. /\ clock'.ready = clock.ready /\ clock'.pcr_ready = clock.pcr_ready
          /\ clock'.last_pcr = clock.last_pcr /\ clock'.gaps = clock.gaps
          /\ clock.ready => clock'.pcr = clock.last_pcr /\ clock'.wrapped = FALSE
      BY <1>1, <3>1, TimeSynced
    <3>3. Near(0, D, I, since_pcr, 0, 0)
      BY <1>1, <1>2, <1>3, NearStarts
    <3>4. ASSUME clock.ready PROVE Elapsed(clock') = 0
      BY <1>1, <1>2, <3>2, <3>4 DEF Elapsed, Pcrs
    <3>5. StaysNear'
      BY <3>1, <3>2, <3>3, <3>4 DEF StaysNear, IsReady
    <3>6. Fresh'
      BY <1>1, <3>1 DEF Fresh
    <3> QED
      BY <1>1, <3>2, <3>5, <3>6 DEF Paired
  <2>5. CASE FirstPmt
    BY <2>5, <1>5 DEF FirstPmt
  <2>6. CASE Jump
    <3>1. /\ stc' \in Pcrs /\ slips' = slips + 1
          /\ clock' = clock /\ since_pcr' = since_pcr /\ since_tot' = since_tot
      BY <2>6 DEF Jump, Disturb
    <3>2. ComputeDelta(stc', clock.last_pcr) \in Pcrs
      BY <1>1, <3>1, DeltaFacts
    <3>3. ASSUME IsReady(clock)
          PROVE  Near(Elapsed(clock), ComputeDelta(stc', clock.last_pcr), I,
                      since_pcr, since_tot, slips + 1)
      BY <1>1, <1>3, <1>4, <3>2, <3>3, NearSteps
    <3>4. StaysNear'
      BY <1>4, <3>1, <3>3 DEF StaysNear
    <3> QED
      BY <3>1, <3>4 DEF TimeInv, Paired, Fresh
  <2>7. CASE WrongPcr
    <3>1. /\ clock.pid # NoPid /\ since_pcr' = 0 /\ slips' = slips + 1
          /\ stc' = stc /\ since_tot' = since_tot
      BY <2>7 DEF WrongPcr, Disturb, HasPid
    <3>2. PICK v \in Pcrs : clock' = UpdatePcr(clock, v)
      BY <2>7 DEF WrongPcr
    <3> QED
      BY <3>1, <3>2, PcrNear
  <2>8. CASE ChangePid
    BY <2>8, <1>5 DEF ChangePid
  <2> QED
    BY <2>1, <2>2, <2>3, <2>4, <2>5, <2>6, <2>7, <2>8 DEF Next
<1>7. IInv'
  BY Step DEF TimeInv
<1>8. Unset'
  <2>1. CASE clock' = clock
    BY <2>1 DEF TimeInv, Unset
  <2>2. ASSUME NEW pid \in Pids, clock' = SetPid(clock, pid) PROVE Unset'
    BY <1>1, <2>2 DEF SetPid, Clocks, Unset
  <2>3. ASSUME NEW v \in Pcrs, clock.pid # NoPid, clock' = UpdatePcr(clock, v) PROVE Unset'
    BY <1>1, <2>3, PidKept DEF Unset, TimeInv, IInv
  <2>4. CASE Tot
    <3>1. clock' = UpdateTime(clock, 0, 0)
      BY <2>4 DEF Tot
    <3>2. clock'.pid = clock.pid /\ clock'.ready = clock.ready
      BY <1>1, <3>1, PidKept, TimeSynced DEF TimeInv, IInv
    <3> QED
      BY <3>2 DEF TimeInv, Unset
  <2> QED
    BY <1>1, <2>1, <2>2, <2>3, <2>4
    DEF Next, Tick, Pcr, FirstPmt, Jump, WrongPcr, ChangePid, HasPid, vars
<1> QED
  BY <1>6, <1>7, <1>8 DEF TimeInv

LEMMA TimeInitial == Init => TimeInv
<1> SUFFICES ASSUME Init PROVE TimeInv
  OBVIOUS
<1>1. clock.ready = FALSE /\ clock.pcr_ready = FALSE /\ clock.time_ready = FALSE
  BY DEF Init, NewClock
<1> QED
  BY <1>1, Initial DEF TimeInv, Paired, Unset, Fresh, StaysNear, IsReady

\* A PCR that is taken leaves the time elapsed within a cycle of PCRs, so that one
\* wrap-around flag is enough.
LEMMA StaysInCycle ==
    ASSUME TimeInv, IsReady(clock), NEW w \in 0..(TicksPerSec - 1)
    PROVE  Elapsed(clock) + w < PcrUpperBound
<1>1. /\ clock \in Clocks /\ stc \in Pcrs /\ since_pcr \in 0..MaxPcrInterval
      /\ since_tot \in 0..MaxTotInterval /\ slips \in 0..MaxDisturbances
      /\ clock.last_pcr \in Pcrs /\ clock.gaps \in 0..(GapCountSize - 1)
  BY DEF TimeInv, IInv, TypeOK, Clocks
<1>2. /\ Elapsed(clock) \in Nat
      /\ Near(Elapsed(clock), ComputeDelta(stc, clock.last_pcr), Ignored(clock.gaps),
              since_pcr, since_tot, slips)
  BY DEF TimeInv, StaysNear
<1>3. ComputeDelta(stc, clock.last_pcr) \in Pcrs
  BY <1>1, DeltaFacts
<1>4. /\ Ignored(clock.gaps) \in Nat
      /\ Ignored(clock.gaps) + since_pcr + TicksPerMs <= TicksPerSec
  BY <1>1, IgnoredFacts
<1>5. Ignored(clock.gaps) + since_pcr <= TicksPerSec
  BY <1>1, <1>4, PcrAssumption, ClockAssumption, StreamAssumption
<1> QED
  BY <1>1, <1>2, <1>3, <1>4, <1>5, NearSteps

\* Rounding to milliseconds.
LEMMA DivFacts ==
    ASSUME NEW a \in Nat, NEW b \in Nat \ {0}
    PROVE  a \div b \in Nat /\ (a \div b) * b <= a /\ a < (a \div b) * b + b
  OBVIOUS

\* Now() of a ready clock, in ticks.
LEMMA NowOfReady ==
    ASSUME NEW c \in Clocks, IsReady(c), Elapsed(c) \in Nat, NEW local
    PROVE  /\ Now(c, local) \in Nat
           /\ Now(c, local) * TicksPerMs <= Elapsed(c)
           /\ Elapsed(c) < Now(c, local) * TicksPerMs + TicksPerMs
<1>1. TicksPerMs \in Nat \ {0}
  BY PcrAssumption
<1>2. c.time = 0
  BY DEF Clocks
<1>3. Now(c, local) = 0 + Quotient(Elapsed(c), TicksPerMs)
  <2> DEFINE x == c.last_pcr + (IF c.wrapped THEN PcrUpperBound ELSE 0)
  <2>1. Now(c, local) = PcrToTime(c, x)
    BY Zenon DEF Now
  <2>2. Elapsed(c) = x - c.pcr
    BY Zenon DEF Elapsed
  <2> HIDE DEF x
  <2>3. PcrToTime(c, x) = c.time + Quotient(x - c.pcr, TicksPerMs)
    BY Zenon DEF PcrToTime
  <2> QED
    BY <1>2, <2>1, <2>2, <2>3, Zenon
<1>4. Quotient(Elapsed(c), TicksPerMs) = Elapsed(c) \div TicksPerMs
  BY <1>1 DEF Quotient
<1> DEFINE e == Elapsed(c)
<1> HIDE DEF e
<1>5. e \div TicksPerMs \in Nat /\ (e \div TicksPerMs) * TicksPerMs <= e
      /\ e < (e \div TicksPerMs) * TicksPerMs + TicksPerMs
  BY <1>1, DivFacts DEF e
<1>6. Now(c, local) = e \div TicksPerMs
  BY <1>3, <1>4, <1>5 DEF e
<1> QED
  BY <1>5, <1>6 DEF e

-----------------------------------------------------------------------------
(* The theorems. *)

\* StreamClock keeps the types of its state: the gap counter stays in its
\* width and no PCR the clock keeps is out of range, whatever arrives.
THEOREM TypeCorrect == Spec => []TypeOK
<1>1. IInv => TypeOK
  BY DEF IInv
<1> QED
  BY <1>1, Initial, Step, PTL DEF Spec

\* The Clock of base.hh is to its users what ClockStatus says: it is ready
\* exactly when it has seen a PCR of its PID and a TOT since the PID was set
\* or the clock was invalidated, and only a ready clock is invalidated.
THEOREM ClockImplementsStatus == Spec => ImplementsStatus
<1>1. Init => StatusView!Init
  <2> SUFFICES ASSUME Init PROVE StatusView!Init
    OBVIOUS
  <2>1. /\ clock.pid = NoPid /\ clock.ready = FALSE /\ clock.pcr_ready = FALSE
        /\ clock.time_ready = FALSE
    BY DEF Init, NewClock
  <2>2. (clock.ready /\ clock.pcr_ready) = FALSE
    BY <2>1
  <2> QED
    BY <2>1, <2>2 DEF StatusView!Init
<1>2. ASSUME IInv, [Next]_vars PROVE [StatusView!Next]_(Status(clock))
  BY <1>2, Step
<1> QED
  BY <1>1, <1>2, Initial, Step, PTL DEF Spec, ImplementsStatus, StatusView!Spec, Status

\* Clock::Now() is near the true time, whatever jumps, wrong PCRs and changes of
\* the PCR PID came before: two seconds off at most, and one more for each thing
\* that went wrong since the last TOT.
THEOREM NowAlwaysAccurate == Spec => []NowAccurate
<1>1. TimeInv => NowAccurate
  <2> SUFFICES ASSUME TimeInv PROVE NowAccurate
    OBVIOUS
  <2>1. /\ clock \in Clocks /\ since_tot \in 0..MaxTotInterval
        /\ since_pcr \in 0..MaxPcrInterval /\ slips \in 0..MaxDisturbances
        /\ clock.gaps \in 0..(GapCountSize - 1) /\ clock.time = 0 /\ clock.local = 0
    BY DEF TimeInv, IInv, TypeOK, Clocks
  <2>2. /\ TicksPerMs \in Nat \ {0} /\ TicksPerSec \in Nat \ {0}
        /\ MaxTotInterval \in Nat /\ MaxPcrInterval \in Nat
    BY PcrAssumption, ClockAssumption, StreamAssumption
  <2>3. /\ Ignored(clock.gaps) \in Nat
        /\ Ignored(clock.gaps) + since_pcr + TicksPerMs <= TicksPerSec
    BY <2>1, IgnoredFacts
  <2>4. /\ Secs(slips) \in Nat /\ Secs(slips + 1) = Secs(slips) + TicksPerSec
        /\ Secs(slips + 2) = Secs(slips) + 2 * TicksPerSec
    BY <2>1, SecsFacts
  <2> DEFINE N == Now(clock, LocalNow)
             T == N * TicksPerMs
  <2>5. N \in Nat /\ T - since_tot <= Secs(slips + 1)
        /\ since_tot < Secs(slips + 1) + TicksPerSec + T
    <3>1. CASE IsReady(clock)
      <4>1. /\ Elapsed(clock) \in Nat
            /\ Bounded(Elapsed(clock), Ignored(clock.gaps), since_pcr, since_tot, slips + 1)
        BY <3>1 DEF TimeInv, StaysNear, Near
      <4>2. N \in Nat /\ T <= Elapsed(clock) /\ Elapsed(clock) < T + TicksPerMs
        BY <2>1, <3>1, <4>1, NowOfReady
      <4> HIDE DEF N
      <4>3. T \in Int
        BY <2>2, <4>2
      <4> HIDE DEF T
      <4> QED
        BY <2>1, <2>2, <2>3, <2>4, <4>1, <4>2, <4>3 DEF Bounded
    <3>2. CASE ~ IsReady(clock)
      <4>1. N = 0 + (LocalNow - 0)
        BY <2>1, <3>2, Zenon DEF Now
      <4>2. /\ LocalNow \in Nat /\ LocalNow * TicksPerMs <= since_tot
            /\ since_tot < LocalNow * TicksPerMs + TicksPerMs
        BY <2>1, <2>2, DivFacts DEF LocalNow
      <4>3. N = LocalNow
        BY <4>1, <4>2
      <4> HIDE DEF N
      <4>4. N \in Nat /\ T <= since_tot /\ since_tot < T + TicksPerMs /\ T \in Int
        BY <4>2, <4>3, <2>2
      <4> HIDE DEF T
      <4> QED
        BY <2>1, <2>2, <2>3, <2>4, <4>4
    <3> QED
      BY <3>1, <3>2
  <2>6. Error = T - since_tot
    BY DEF Error
  <2>7. TicksPerSec * (2 + slips) = Secs(slips) + 2 * TicksPerSec
    BY <2>1, <2>2 DEF Secs
  <2> HIDE DEF N
  <2>8. T \in Int
    BY <2>2, <2>5
  <2> HIDE DEF T
  <2>9. Error < TicksPerSec * (2 + slips) /\ -Error < TicksPerSec * (2 + slips)
    BY <2>1, <2>2, <2>4, <2>5, <2>6, <2>7, <2>8
  <2> QED
    BY <2>9 DEF NowAccurate
<1> QED
  BY <1>1, TimeInitial, TimeStep, PTL DEF Spec

\* Between two TOTs a ready clock never goes back, and moves on by less than a
\* second at a time, whatever PCR Clock::UpdatePcr is given.
THEOREM NowAlwaysSteady == Spec => NowSteady
<1> DEFINE S == IsReady(clock) /\ IsReady(clock)' /\ ~ Tot
                  => LET step == (Now(clock, 0)' - Now(clock, 0)) * TicksPerMs
                     IN  0 <= step /\ step < TicksPerSec + TicksPerMs
<1>1. ASSUME TimeInv, [Next]_vars PROVE [S]_vars
  <2> SUFFICES ASSUME Next, IsReady(clock), IsReady(clock'), ~ Tot
               PROVE  /\ 0 <= (Now(clock', 0) - Now(clock, 0)) * TicksPerMs
                      /\ (Now(clock', 0) - Now(clock, 0)) * TicksPerMs < TicksPerSec + TicksPerMs
    BY <1>1 DEF Now, IsReady, BaselineReady, PcrToTime
  <2>1. TimeInv'
    BY <1>1, TimeStep
  <2>2. /\ clock \in Clocks /\ clock' \in Clocks /\ stc \in Pcrs
        /\ Elapsed(clock) \in Nat /\ Elapsed(clock') \in Nat
    BY <1>1, <2>1 DEF TimeInv, IInv, TypeOK, Clocks, StaysNear
  <2>3. TicksPerMs \in Nat \ {0} /\ TicksPerSec \in Nat \ {0} /\ PcrUpperBound \in Nat
    BY PcrAssumption, ClockAssumption
  \* What a step adds to the time that has elapsed.
  <2> DEFINE Adds == \E w \in 0..(TicksPerSec - 1) : Elapsed(clock') = Elapsed(clock) + w
  <2>4. ASSUME clock' = clock PROVE Adds
    <3>1. 0 \in 0..(TicksPerSec - 1)
      BY <2>3
    <3>2. Elapsed(clock') = Elapsed(clock) + 0
      BY <2>2, <2>4
    <3> QED
      BY <3>1, <3>2
  <2>5. ASSUME NEW v \in Pcrs, clock' = UpdatePcr(clock, v) PROVE Adds
    <3> DEFINE w == ComputeDelta(v, clock.last_pcr)
    <3>1. w \in Pcrs
      <4>1. clock.last_pcr \in Pcrs
        BY <2>2 DEF Clocks
      <4> QED
        BY <4>1, DeltaFacts
    <3>2. CASE w < TicksPerSec
      <4>1. w \in 0..(TicksPerSec - 1)
        BY <2>3, <3>1, <3>2 DEF Pcrs
      <4>2. Elapsed(clock) + w < PcrUpperBound
        BY <1>1, <4>1, StaysInCycle
      <4>3. Elapsed(clock') = Elapsed(clock) + w
        BY <2>2, <2>5, <3>2, <4>2, TakenElapsed
      <4> QED
        BY <4>1, <4>3
    <3>3. CASE ~ (w < TicksPerSec)
      <4>1. clock'.ready = TRUE
        BY <2>2 DEF IsReady, Clocks
      <4>2. /\ clock'.last_pcr = clock.last_pcr /\ clock'.pcr = clock.pcr
            /\ clock'.wrapped = clock.wrapped
        BY <2>2, <2>5, <3>3, <4>1, PcrIgnored
      <4>3. Elapsed(clock') = Elapsed(clock)
        BY <4>2 DEF Elapsed
      <4>4. Elapsed(clock') = Elapsed(clock) + 0 /\ 0 \in 0..(TicksPerSec - 1)
        BY <2>2, <2>3, <4>3
      <4> QED
        BY <4>4
    <3> QED
      BY <3>2, <3>3
  <2>6. ASSUME NEW pid \in Pids, clock' = SetPid(clock, pid) PROVE FALSE
    <3>1. clock'.ready = FALSE
      BY <2>2, <2>6 DEF SetPid, Clocks
    <3> QED
      BY <3>1 DEF IsReady
  <2>7. Adds
    BY <2>2, <2>4, <2>5, <2>6
    DEF Next, Tick, Pcr, FirstPmt, Jump, WrongPcr, ChangePid
  <2>8. PICK w \in 0..(TicksPerSec - 1) : Elapsed(clock') = Elapsed(clock) + w
    BY <2>7
  <2> DEFINE m == Now(clock, 0)
             n == Now(clock', 0)
  <2>9. /\ m \in Nat /\ m * TicksPerMs <= Elapsed(clock)
        /\ Elapsed(clock) < m * TicksPerMs + TicksPerMs
        /\ n \in Nat /\ n * TicksPerMs <= Elapsed(clock')
        /\ Elapsed(clock') < n * TicksPerMs + TicksPerMs
    BY <2>2, NowOfReady
  <2> HIDE DEF m, n
  <2>10. (n - m) * TicksPerMs = n * TicksPerMs - m * TicksPerMs
    BY <2>3, <2>9
  <2>11. (n - m) * TicksPerMs > -TicksPerMs
    BY <2>2, <2>3, <2>8, <2>9, <2>10
  <2>12. n - m >= 0
    BY <2>3, <2>9, <2>11
  <2>13. 0 <= (n - m) * TicksPerMs
    BY <2>3, <2>9, <2>12
  <2>14. (n - m) * TicksPerMs < TicksPerSec + TicksPerMs
    BY <2>2, <2>3, <2>8, <2>9, <2>10
  <2> QED
    BY <2>13, <2>14 DEF m, n
<1> QED
  BY <1>1, TimeInitial, TimeStep, PTL DEF Spec, NowSteady

=============================================================================
