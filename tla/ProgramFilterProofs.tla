------------------------- MODULE ProgramFilterProofs -------------------------
(***************************************************************************)
(* Proofs about ProgramFilter, for every set of PIDs, of events and of     *)
(* PCRs, and however long the intervals are: its type invariant, that a    *)
(* stream begins with the tables that announce it, that a retry is asked   *)
(* for only if nothing was streamed, and, as far as ComparePcr is right,   *)
(* that a program is streamed from its start to its end.                   *)
(***************************************************************************)
EXTENDS ProgramFilter, TLAPS

Filters ==
    [state : {"wait", "streaming"}, stop : BOOLEAN, retry : BOOLEAN,
     pmt_pid : PmtPids \cup {None}, pcr_pid : EsPids \cup {None},
     black : SUBSET EsPids, clock_pid : EsPids,
     clock_pcr : Pcrs, clock_time : 0..MaxTime,
     pcr_ready : BOOLEAN, time_ready : BOOLEAN,
     event : EventTimes \cup {None}, start_pcr : Pcrs, end_pcr : Pcrs,
     packetizer : PmtPids \cup {None}, last_pat : PmtPids \cup {None}]

\* The clock needs no synchronization.
Ready(f) == f.pcr_ready /\ f.time_ready

\* The PCR range is that of the event and the clock.
Ranged(f) ==
    Ready(f) /\ f.event # None =>
        /\ f.start_pcr = ConvertTimeToPcr(f, f.event.start)
        /\ f.end_pcr = ConvertTimeToPcr(f, f.event.end)

\* The clock is that of the PCR PID.
OwnClock(f) ==
    /\ f.pcr_pid = None => Ready(f)
    /\ f.pcr_pid # None => f.clock_pid = f.pcr_pid

\* What has been streamed follows from the state, and a filter that goes on has
\* not been stopped.
Control ==
    /\ run = "up" => ~ filter.stop
    /\ filter.retry => run # "up" /\ ~ begun /\ sent_pids = {}
    /\ begun \/ sent_pids # {} => filter.state = "streaming"
    /\ run = "up" /\ filter.state = "streaming" => begun \/ sent_pids # {}
    /\ filter.state = "streaming" => filter.event # None

\* The PAT that is kept, or has been handed on, is the one that is followed.
Tables ==
    /\ filter.pcr_pid # None => filter.pmt_pid # None
    /\ run = "up" /\ filter.state = "wait" =>
          filter.pmt_pid = IF pre_streaming THEN told.pat ELSE filter.last_pat

\* The PCR of the packet that has just been tested.
ClockPcr == PcrAt(filter.clock_pid)

\* What the filter did is what the comparisons of its PCR say.
Decisions ==
    Decided =>
       /\ sent_pids # {} =>
             /\ ComparePcr(ClockPcr, filter.end_pcr) < 0
             /\ ~ begun => ComparePcr(ClockPcr, filter.start_pcr) >= 0
       /\ /\ ~ filter.stop
          /\ run \notin {"aborted", "refused"}
          /\ ComparePcr(ClockPcr, filter.end_pcr) < 0
          /\ ComparePcr(ClockPcr, filter.start_pcr) >= 0
          => run = "up" /\ filter.state = "streaming"

\* The inductive invariant.
IInv ==
    /\ TypeOK
    /\ Control
    /\ Tables
    /\ OwnClock(filter)
    /\ Ranged(filter)
    /\ AnnouncedFirst
    /\ Decisions

-----------------------------------------------------------------------------
(* The operations of the filter. *)

\* A time becomes a PCR.
LEMMA ConvertType ==
    ASSUME NEW f \in Filters, NEW time \in Int
    PROVE  ConvertTimeToPcr(f, time) \in Pcrs
<1>1. /\ f.clock_pcr \in Int /\ f.clock_time \in Int
      /\ TicksPerMs \in Int /\ PcrUpperBound \in Nat /\ PcrUpperBound > 0
  BY PcrAssumption, ProgramAssumption DEF Filters, Pcrs
<1> DEFINE x == f.clock_pcr + (time - f.clock_time) * TicksPerMs
<1>2. x \in Int
  <2>1. time - f.clock_time \in Int
    BY <1>1
  <2> DEFINE d == time - f.clock_time
  <2> HIDE DEF d
  <2>2. d * TicksPerMs \in Int
    BY <1>1, <2>1 DEF d
  <2> QED
    BY <1>1, <2>2 DEF d
<1> HIDE DEF x
<1>3. x % PcrUpperBound \in 0..(PcrUpperBound - 1)
  BY <1>1, <1>2
<1> QED
  BY <1>3 DEF x, ConvertTimeToPcr, Pcrs

\* UpdatePcrRange changes the range only, and makes it current.
LEMMA RangeStep ==
    ASSUME NEW f \in Filters
    PROVE  LET g == UpdatePcrRange(f)
           IN  /\ g \in Filters
               /\ g.state = f.state /\ g.stop = f.stop /\ g.retry = f.retry
               /\ g.pmt_pid = f.pmt_pid /\ g.pcr_pid = f.pcr_pid /\ g.black = f.black
               /\ g.clock_pid = f.clock_pid /\ g.clock_pcr = f.clock_pcr
               /\ g.clock_time = f.clock_time /\ g.pcr_ready = f.pcr_ready
               /\ g.time_ready = f.time_ready /\ g.event = f.event
               /\ g.packetizer = f.packetizer /\ g.last_pat = f.last_pat
               /\ Ranged(g)
<1> DEFINE s == ConvertTimeToPcr(f, f.event.start)
           e == ConvertTimeToPcr(f, f.event.end)
           h == [f EXCEPT !.start_pcr = s, !.end_pcr = e]
           g == UpdatePcrRange(f)
<1>1. CASE ~ (f.event # None /\ ~ NeedClockSync(f))
  <2>1. g = f
    BY <1>1 DEF UpdatePcrRange
  <2>2. Ranged(f)
    BY <1>1 DEF Ranged, Ready, NeedClockSync
  <2> QED
    BY <2>1, <2>2
<1>2. CASE f.event # None /\ ~ NeedClockSync(f)
  <2>1. g = h
    BY <1>2 DEF UpdatePcrRange
  <2>2. f.event \in EventTimes
    BY <1>2 DEF Filters
  <2>3. f.event.start \in Int /\ f.event.end \in Int
    BY <2>2, ProgramAssumption
  <2>4. s \in Pcrs /\ e \in Pcrs
    BY <2>3, ConvertType
  <2> HIDE DEF s, e
  <2>5. /\ h \in Filters
        /\ h.state = f.state /\ h.stop = f.stop /\ h.retry = f.retry
        /\ h.pmt_pid = f.pmt_pid /\ h.pcr_pid = f.pcr_pid /\ h.black = f.black
        /\ h.clock_pid = f.clock_pid /\ h.clock_pcr = f.clock_pcr
        /\ h.clock_time = f.clock_time /\ h.pcr_ready = f.pcr_ready
        /\ h.time_ready = f.time_ready /\ h.event = f.event
        /\ h.packetizer = f.packetizer /\ h.last_pat = f.last_pat
        /\ h.start_pcr = s /\ h.end_pcr = e
    BY <2>4 DEF Filters
  <2> HIDE DEF h, g
  <2>6. Ranged(h)
    BY <2>5 DEF Ranged, ConvertTimeToPcr, s, e
  <2> QED
    BY <2>1, <2>5, <2>6 DEF g
<1> QED
  BY <1>1, <1>2

\* What a packet has.
LEMMA PacketTypes ==
    ASSUME NEW p \in Packets
    PROVE  /\ p.kind \in {"PAT", "PMT", "PMTpart", "EIT", "OtherEIT", "TOT", "PSI", "ES"}
           /\ p.kind \in {"PAT", "PMT", "PMTpart"} => p.pid \in PmtPids
           /\ p.kind = "PMT" => p.pcr_pid \in EsPids /\ p.black \in SUBSET EsPids
           /\ p.kind = "EIT" => p.event \in EventTimes
           /\ p.kind = "ES" => p.pid \in EsPids
<1>1. BlackLists \subseteq SUBSET EsPids
  BY ProgramAssumption
<1> QED
  BY <1>1 DEF Packets

\* A number that is rounded down to a multiple.
LEMMA RoundedDown ==
    ASSUME NEW c \in Nat \ {0}, NEW n \in Nat
    PROVE  /\ n \div c \in Nat /\ n \div c <= n
           /\ (n \div c) * c \in Nat /\ (n \div c) * c <= n /\ n - (n \div c) * c <= c - 1
<1> DEFINE q == n \div c
           r == n % c
<1>1. q \in Nat /\ r \in Nat /\ r < c
  BY SMT
<1>2. n = c * q + r
  BY SMT
<1> HIDE DEF q, r
<1>3. c * q = q * c /\ q * c \in Nat
  BY <1>1, SMT
<1>4. c - 1 \in Nat /\ q * (c - 1) \in Nat
  BY <1>1, SMT
<1>5. q * c = q * (c - 1) + q
  BY <1>1, SMT
<1>6. q <= q * c
  BY <1>1, <1>3, <1>4, <1>5
<1> QED
  BY <1>1, <1>2, <1>3, <1>6 DEF q

\* The time of a TOT.
LEMMA NowType ==
    ASSUME t \in 0..MaxTime
    PROVE  /\ NowMs \in 0..MaxTime
           /\ NowMs * TicksPerMs \in Nat
           /\ NowMs * TicksPerMs <= t /\ t - NowMs * TicksPerMs <= TicksPerMs - 1
<1>1. TicksPerMs \in Nat \ {0} /\ MaxTime \in Nat /\ t \in Nat /\ t <= MaxTime
  BY PcrAssumption, ProgramAssumption
<1>2. /\ NowMs \in Nat /\ NowMs <= t
      /\ NowMs * TicksPerMs \in Nat
      /\ NowMs * TicksPerMs <= t /\ t - NowMs * TicksPerMs <= TicksPerMs - 1
  BY <1>1, RoundedDown DEF NowMs
<1> QED
  BY <1>1, <1>2

\* What holds of the filter's tables and clock by itself.
Sound(f) ==
    /\ f \in Filters
    /\ OwnClock(f)
    /\ Ranged(f)
    /\ f.pcr_pid # None => f.pmt_pid # None

\* A table changes neither what has been decided nor the kept PAT.
Kept(f, g) ==
    /\ g.state = f.state /\ g.retry = f.retry /\ g.last_pat = f.last_pat
    /\ f.event # None => g.event # None

LEMMA PatStep ==
    ASSUME NEW f, Sound(f), NEW p \in Packets, p.kind = "PAT"
    PROVE  LET g == HandlePat(f, p)
           IN  Sound(g) /\ Kept(f, g) /\ g.stop = f.stop /\ g.pmt_pid = p.pid
<1> DEFINE g == HandlePat(f, p)
<1>1. p.pid \in PmtPids /\ p.pid # None
  BY PacketTypes, ProgramAssumption
<1>2. f \in Filters
  BY DEF Sound
<1>3. /\ g \in Filters /\ g.pmt_pid = p.pid
      /\ g.state = f.state /\ g.stop = f.stop /\ g.retry = f.retry
      /\ g.pcr_pid = f.pcr_pid /\ g.clock_pid = f.clock_pid /\ g.clock_pcr = f.clock_pcr
      /\ g.clock_time = f.clock_time /\ g.pcr_ready = f.pcr_ready
      /\ g.time_ready = f.time_ready /\ g.event = f.event
      /\ g.start_pcr = f.start_pcr /\ g.end_pcr = f.end_pcr
      /\ g.last_pat = f.last_pat
  BY <1>1, <1>2 DEF HandlePat, Filters
<1> HIDE DEF g
<1> QED
  BY <1>1, <1>3 DEF Sound, OwnClock, Ranged, Ready, ConvertTimeToPcr, Kept, g

LEMMA PmtStep ==
    ASSUME NEW f, Sound(f), NEW p \in Packets, p.kind = "PMT"
    PROVE  LET g == HandlePmt(f, p)
           IN  Sound(g) /\ Kept(f, g) /\ g.stop = f.stop /\ g.pmt_pid = f.pmt_pid
<1> DEFINE g == HandlePmt(f, p)
           h == SetPcrPid(f, p.pcr_pid)
           k == [h EXCEPT !.black = p.black, !.packetizer = p.pid]
<1>1. /\ p.pid \in PmtPids /\ p.pid # None /\ p.pcr_pid \in EsPids /\ p.pcr_pid # None
      /\ p.black \in SUBSET EsPids
  BY PacketTypes, ProgramAssumption
<1>2. f \in Filters
  BY DEF Sound
<1>3. CASE p.pid # f.pmt_pid
  <2>1. g = f
    BY <1>3 DEF HandlePmt
  <2> QED
    BY <2>1 DEF Kept
<1>4. CASE p.pid = f.pmt_pid
  <2>1. g = k
    BY <1>4 DEF HandlePmt
  <2>2. /\ h \in Filters /\ h.pcr_pid = p.pcr_pid /\ h.clock_pid = p.pcr_pid
        /\ h.state = f.state /\ h.stop = f.stop /\ h.retry = f.retry
        /\ h.pmt_pid = f.pmt_pid /\ h.clock_pcr = f.clock_pcr
        /\ h.clock_time = f.clock_time /\ h.event = f.event
        /\ h.start_pcr = f.start_pcr /\ h.end_pcr = f.end_pcr
        /\ h.last_pat = f.last_pat
    BY <1>1, <1>2 DEF SetPcrPid, Filters
  <2>3. \/ h.pcr_ready = f.pcr_ready /\ h.time_ready = f.time_ready
        \/ h.pcr_ready = FALSE /\ h.time_ready = FALSE
    BY <1>1, <1>2 DEF SetPcrPid, Filters
  <2> HIDE DEF h
  <2>4. /\ k \in Filters /\ k.pcr_pid = h.pcr_pid /\ k.clock_pid = h.clock_pid
        /\ k.state = h.state /\ k.stop = h.stop /\ k.retry = h.retry
        /\ k.pmt_pid = h.pmt_pid /\ k.clock_pcr = h.clock_pcr
        /\ k.clock_time = h.clock_time /\ k.event = h.event
        /\ k.start_pcr = h.start_pcr /\ k.end_pcr = h.end_pcr
        /\ k.last_pat = h.last_pat
        /\ k.pcr_ready = h.pcr_ready /\ k.time_ready = h.time_ready
    BY <1>1, <2>2 DEF Filters
  <2> HIDE DEF g, k
  <2>5. k.pcr_pid # None /\ k.clock_pid = k.pcr_pid /\ k.pmt_pid # None
    BY <1>1, <1>4, <2>2, <2>4
  <2>6. OwnClock(k)
    BY <2>5 DEF OwnClock
  <2>7. Ranged(k)
    BY <2>2, <2>3, <2>4 DEF Sound, Ranged, Ready, ConvertTimeToPcr
  <2>8. Kept(f, k) /\ k.stop = f.stop /\ k.pmt_pid = f.pmt_pid
    BY <2>2, <2>4 DEF Kept
  <2>9. Sound(k)
    BY <2>4, <2>5, <2>6, <2>7 DEF Sound
  <2> QED
    BY <2>1, <2>8, <2>9 DEF g
<1> QED
  BY <1>3, <1>4

LEMMA EitStep ==
    ASSUME NEW f, Sound(f), NEW p \in Packets, p.kind = "EIT"
    PROVE  LET g == HandleEit(f, p)
           IN  /\ Sound(g) /\ Kept(f, g) /\ g.stop = f.stop /\ g.pmt_pid = f.pmt_pid
               /\ g.event # None
               /\ g.clock_pid = f.clock_pid /\ g.clock_pcr = f.clock_pcr
               /\ g.clock_time = f.clock_time /\ g.pcr_ready = f.pcr_ready
               /\ g.time_ready = f.time_ready
<1> DEFINE h == [f EXCEPT !.event = p.event]
           g == UpdatePcrRange(h)
<1>1. p.event \in EventTimes /\ p.event # None
  BY PacketTypes, ProgramAssumption
<1>2. f \in Filters
  BY DEF Sound
<1>3. /\ h \in Filters /\ h.event = p.event
      /\ h.state = f.state /\ h.stop = f.stop /\ h.retry = f.retry
      /\ h.pmt_pid = f.pmt_pid /\ h.pcr_pid = f.pcr_pid
      /\ h.clock_pid = f.clock_pid /\ h.clock_pcr = f.clock_pcr
      /\ h.clock_time = f.clock_time /\ h.pcr_ready = f.pcr_ready
      /\ h.time_ready = f.time_ready
      /\ h.last_pat = f.last_pat
  BY <1>1, <1>2 DEF Filters
<1> HIDE DEF h
<1>4. /\ g \in Filters
      /\ g.state = h.state /\ g.stop = h.stop /\ g.retry = h.retry
      /\ g.pmt_pid = h.pmt_pid /\ g.pcr_pid = h.pcr_pid
      /\ g.clock_pid = h.clock_pid /\ g.clock_pcr = h.clock_pcr
      /\ g.clock_time = h.clock_time /\ g.pcr_ready = h.pcr_ready
      /\ g.time_ready = h.time_ready /\ g.event = h.event
      /\ g.last_pat = h.last_pat
      /\ Ranged(g)
  BY <1>3, RangeStep
<1>5. HandleEit(f, p) = g
  BY DEF HandleEit, UpdateEventTime, h
<1> HIDE DEF g
<1>6. OwnClock(g) /\ (g.pcr_pid # None => g.pmt_pid # None)
  BY <1>3, <1>4 DEF Sound, OwnClock, Ready
<1>7. Sound(g)
  BY <1>4, <1>6 DEF Sound
<1>8. Kept(f, g) /\ g.event # None /\ g.stop = f.stop /\ g.pmt_pid = f.pmt_pid
  BY <1>1, <1>3, <1>4 DEF Kept
<1>9. /\ g.clock_pid = f.clock_pid /\ g.clock_pcr = f.clock_pcr
      /\ g.clock_time = f.clock_time /\ g.pcr_ready = f.pcr_ready
      /\ g.time_ready = f.time_ready
  BY <1>3, <1>4
<1> QED
  BY <1>5, <1>7, <1>8, <1>9

\* A filter that is stopped is otherwise the same.
LEMMA StopStep ==
    ASSUME NEW f, Sound(f)
    PROVE  /\ Sound(Stop(f)) /\ Kept(f, Stop(f)) /\ Stop(f).pmt_pid = f.pmt_pid
           /\ Stop(f).stop = TRUE /\ Stop(f).event = f.event
           /\ Stop(f).clock_pid = f.clock_pid /\ Stop(f).clock_pcr = f.clock_pcr
           /\ Stop(f).clock_time = f.clock_time /\ Stop(f).pcr_ready = f.pcr_ready
           /\ Stop(f).time_ready = f.time_ready
<1> DEFINE g == Stop(f)
<1>1. f \in Filters
  BY DEF Sound
<1>2. /\ g \in Filters /\ g.stop = TRUE
      /\ g.state = f.state /\ g.retry = f.retry
      /\ g.pmt_pid = f.pmt_pid /\ g.pcr_pid = f.pcr_pid
      /\ g.clock_pid = f.clock_pid /\ g.clock_pcr = f.clock_pcr
      /\ g.clock_time = f.clock_time /\ g.pcr_ready = f.pcr_ready
      /\ g.time_ready = f.time_ready /\ g.event = f.event
      /\ g.start_pcr = f.start_pcr /\ g.end_pcr = f.end_pcr
      /\ g.last_pat = f.last_pat
  BY <1>1 DEF Stop, Filters
<1> HIDE DEF g
<1>3. Sound(g)
  BY <1>2 DEF Sound, OwnClock, Ranged, Ready, ConvertTimeToPcr
<1>4. Kept(f, g)
  BY <1>2 DEF Kept
<1> QED
  BY <1>2, <1>3, <1>4 DEF g

\* UpdateClockPcr: the clock has a PCR.
LEMMA ClockPcrStep ==
    ASSUME NEW f, Sound(f), NEW pcr \in Pcrs
    PROVE  LET g == UpdateClockPcr(f, pcr)
           IN  /\ Sound(g) /\ Kept(f, g) /\ g.stop = f.stop /\ g.pmt_pid = f.pmt_pid
               /\ g.event = f.event /\ g.pcr_pid = f.pcr_pid /\ g.clock_pid = f.clock_pid
               /\ g.clock_pcr = pcr /\ g.pcr_ready = TRUE
               /\ g.clock_time = f.clock_time /\ g.time_ready = f.time_ready
<1> DEFINE h == [f EXCEPT !.clock_pcr = pcr, !.pcr_ready = TRUE]
           g == UpdatePcrRange(h)
<1>1. f \in Filters
  BY DEF Sound
<1>2. /\ h \in Filters /\ h.event = f.event
      /\ h.state = f.state /\ h.stop = f.stop /\ h.retry = f.retry
      /\ h.pmt_pid = f.pmt_pid /\ h.pcr_pid = f.pcr_pid
      /\ h.clock_pid = f.clock_pid /\ h.clock_pcr = pcr /\ h.pcr_ready = TRUE
      /\ h.clock_time = f.clock_time /\ h.time_ready = f.time_ready
      /\ h.last_pat = f.last_pat
  BY <1>1 DEF Filters
<1> HIDE DEF h
<1>3. /\ g \in Filters
      /\ g.state = h.state /\ g.stop = h.stop /\ g.retry = h.retry
      /\ g.pmt_pid = h.pmt_pid /\ g.pcr_pid = h.pcr_pid
      /\ g.clock_pid = h.clock_pid /\ g.clock_pcr = h.clock_pcr
      /\ g.clock_time = h.clock_time /\ g.pcr_ready = h.pcr_ready
      /\ g.time_ready = h.time_ready /\ g.event = h.event
      /\ g.last_pat = h.last_pat
      /\ Ranged(g)
  BY <1>2, RangeStep
<1>4. UpdateClockPcr(f, pcr) = g
  BY DEF UpdateClockPcr, h
<1> HIDE DEF g
<1>5. OwnClock(g) /\ (g.pcr_pid # None => g.pmt_pid # None)
  BY <1>2, <1>3 DEF Sound, OwnClock, Ready
<1>6. Sound(g)
  BY <1>3, <1>5 DEF Sound
<1>7. Kept(f, g)
  BY <1>2, <1>3 DEF Kept
<1> QED
  BY <1>2, <1>3, <1>4, <1>6, <1>7

\* UpdateClockTime: the clock has a time.
LEMMA ClockTimeStep ==
    ASSUME NEW f, Sound(f), NEW time \in 0..MaxTime
    PROVE  LET g == UpdateClockTime(f, time)
           IN  /\ Sound(g) /\ Kept(f, g) /\ g.stop = f.stop /\ g.pmt_pid = f.pmt_pid
               /\ g.event = f.event /\ g.pcr_pid = f.pcr_pid /\ g.clock_pid = f.clock_pid
               /\ g.clock_time = time /\ g.time_ready = TRUE
               /\ g.clock_pcr = f.clock_pcr /\ g.pcr_ready = f.pcr_ready
<1> DEFINE h == [f EXCEPT !.clock_time = time, !.time_ready = TRUE]
           g == UpdatePcrRange(h)
<1>1. f \in Filters
  BY DEF Sound
<1>2. /\ h \in Filters /\ h.event = f.event
      /\ h.state = f.state /\ h.stop = f.stop /\ h.retry = f.retry
      /\ h.pmt_pid = f.pmt_pid /\ h.pcr_pid = f.pcr_pid
      /\ h.clock_pid = f.clock_pid /\ h.clock_time = time /\ h.time_ready = TRUE
      /\ h.clock_pcr = f.clock_pcr /\ h.pcr_ready = f.pcr_ready
      /\ h.last_pat = f.last_pat
  BY <1>1 DEF Filters
<1> HIDE DEF h
<1>3. /\ g \in Filters
      /\ g.state = h.state /\ g.stop = h.stop /\ g.retry = h.retry
      /\ g.pmt_pid = h.pmt_pid /\ g.pcr_pid = h.pcr_pid
      /\ g.clock_pid = h.clock_pid /\ g.clock_pcr = h.clock_pcr
      /\ g.clock_time = h.clock_time /\ g.pcr_ready = h.pcr_ready
      /\ g.time_ready = h.time_ready /\ g.event = h.event
      /\ g.last_pat = h.last_pat
      /\ Ranged(g)
  BY <1>2, RangeStep
<1>4. UpdateClockTime(f, time) = g
  BY DEF UpdateClockTime, h
<1> HIDE DEF g
<1>5. OwnClock(g) /\ (g.pcr_pid # None => g.pmt_pid # None)
  BY <1>2, <1>3 DEF Sound, OwnClock, Ready
<1>6. Sound(g)
  BY <1>3, <1>5 DEF Sound
<1>7. Kept(f, g)
  BY <1>2, <1>3 DEF Kept
<1> QED
  BY <1>2, <1>3, <1>4, <1>6, <1>7

LEMMA OtherEitStep ==
    ASSUME NEW f, Sound(f), NEW p
    PROVE  LET g == HandleOtherEit(f, p)
           IN  /\ Sound(g) /\ Kept(f, g) /\ g.pmt_pid = f.pmt_pid
               /\ g = f \/ g = Stop(f)
  BY StopStep DEF HandleOtherEit, Kept

LEMMA TotStep ==
    ASSUME NEW f, Sound(f), t \in 0..MaxTime
    PROVE  LET g == HandleTot(f)
           IN  /\ Sound(g) /\ Kept(f, g) /\ g.pmt_pid = f.pmt_pid
               /\ g.event = f.event /\ g.clock_pid = f.clock_pid
               /\ g.clock_pcr = f.clock_pcr /\ g.pcr_ready = f.pcr_ready
               /\ g.time_ready = TRUE
               /\ g.clock_time = IF f.time_ready THEN f.clock_time ELSE NowMs
<1> DEFINE h == IF OverTime(f) THEN Stop(f) ELSE f
           g == HandleTot(f)
<1>1. /\ Sound(h) /\ Kept(f, h) /\ h.pmt_pid = f.pmt_pid
      /\ h.event = f.event /\ h.clock_pid = f.clock_pid
      /\ h.clock_pcr = f.clock_pcr /\ h.pcr_ready = f.pcr_ready
      /\ h.clock_time = f.clock_time /\ h.time_ready = f.time_ready
  BY StopStep DEF Kept
<1>2. g = IF f.time_ready THEN h ELSE UpdateClockTime(h, NowMs)
  BY DEF HandleTot
<1> HIDE DEF h, g
<1>3. CASE f.time_ready
  <2>1. g = h /\ f.time_ready = TRUE
    BY <1>2, <1>3 DEF Sound, Filters
  <2> QED
    BY <1>1, <2>1, <1>3 DEF g
<1>4. CASE ~ f.time_ready
  <2>1. NowMs \in 0..MaxTime
    BY NowType
  <2> DEFINE u == UpdateClockTime(h, NowMs)
  <2>2. /\ Sound(u) /\ Kept(h, u) /\ u.stop = h.stop /\ u.pmt_pid = h.pmt_pid
        /\ u.event = h.event /\ u.clock_pid = h.clock_pid
        /\ u.clock_time = NowMs /\ u.time_ready = TRUE
        /\ u.clock_pcr = h.clock_pcr /\ u.pcr_ready = h.pcr_ready
    BY <1>1, <2>1, ClockTimeStep
  <2>3. g = u
    BY <1>2, <1>4
  <2> HIDE DEF u
  <2>4. Kept(f, u)
    BY <1>1, <2>2 DEF Kept
  <2> QED
    BY <1>1, <1>4, <2>2, <2>3, <2>4 DEF g
<1> QED
  BY <1>3, <1>4

\* The demultiplexer, whatever the packet.
LEMMA DemuxStep ==
    ASSUME NEW f, Sound(f), NEW p \in Packets, t \in 0..MaxTime
    PROVE  LET g == Demux(f, p)
           IN  /\ Sound(g) /\ Kept(f, g)
               /\ p.kind = "PAT" => g.pmt_pid = p.pid
               /\ p.kind # "PAT" => g.pmt_pid = f.pmt_pid
<1> DEFINE g == Demux(f, p)
<1>1. CASE p.kind = "PAT"
  <2>1. g = HandlePat(f, p)
    BY <1>1 DEF Demux
  <2> QED
    BY <1>1, <2>1, PatStep
<1>2. CASE p.kind = "PMT"
  <2>1. g = HandlePmt(f, p)
    BY <1>2 DEF Demux
  <2> QED
    BY <1>2, <2>1, PmtStep
<1>3. CASE p.kind = "EIT"
  <2>1. g = HandleEit(f, p)
    BY <1>3 DEF Demux
  <2> QED
    BY <1>3, <2>1, EitStep
<1>4. CASE p.kind = "OtherEIT"
  <2>1. g = HandleOtherEit(f, p)
    BY <1>4 DEF Demux
  <2> QED
    BY <1>4, <2>1, OtherEitStep
<1>5. CASE p.kind = "TOT"
  <2>1. g = HandleTot(f)
    BY <1>5 DEF Demux
  <2>2. Sound(HandleTot(f)) /\ Kept(f, HandleTot(f)) /\ HandleTot(f).pmt_pid = f.pmt_pid
    BY TotStep, Zenon
  <2> QED
    BY <1>5, <2>1, <2>2
<1>6. CASE p.kind \notin {"PAT", "PMT", "EIT", "OtherEIT", "TOT"}
  <2>1. g = f
    BY <1>6 DEF Demux
  <2> QED
    BY <1>6, <2>1 DEF Kept
<1> QED
  BY <1>1, <1>2, <1>3, <1>4, <1>5, <1>6

-----------------------------------------------------------------------------
(* What the sink gets. *)

Tolds == [pat : PmtPids \cup {None}, pmt : PmtPids \cup {None}]

Tabled == {"PAT", "PMT", "PMTpart"}

\* A packet that may be handed to the sink.
Good(q) ==
    /\ q.kind = "ES" => q.pid \in EsPids
    /\ q.kind \in Tabled => q.pid \in PmtPids \cup {None}

\* The first packets of a sequence.
LEMMA Beginning ==
    ASSUME NEW S, NEW s \in Seq(S), NEW n \in 0..Len(s)
    PROVE  LET u == SubSeq(s, 1, n)
           IN  /\ DOMAIN u = 1..n
               /\ \A i \in 1..n : u[i] = s[i]
               /\ u = s <=> n = Len(s)
<1> DEFINE u == SubSeq(s, 1, n)
<1>1. u \in Seq(S) /\ Len(u) = n /\ DOMAIN u = 1..n /\ (\A i \in 1..n : u[i] = s[i])
  BY SMT
<1> HIDE DEF u
<1>2. ASSUME n = Len(s) PROVE u = s
  BY <1>1, <1>2
<1>3. ASSUME n # Len(s) PROVE u # s
  BY <1>1, <1>3
<1> QED
  BY <1>1, <1>2, <1>3 DEF u

LEMMA SentTypes ==
    ASSUME told \in Tolds, NEW u, NEW n \in Nat, DOMAIN u = 1..n, \A i \in 1..n : Good(u[i])
    PROVE  StreamPids(u) \subseteq EsPids /\ Told(u) \in Tolds
<1>1. StreamPids(u) \subseteq EsPids
  BY DEF StreamPids, Good
<1> DEFINE pats == {i \in DOMAIN u : u[i].kind = "PAT"}
           pmts == {i \in DOMAIN u : u[i].kind \in {"PMT", "PMTpart"}}
           a == IF pats = {} THEN told.pat ELSE u[CHOOSE i \in pats : TRUE].pid
           b == IF pmts = {} THEN told.pmt ELSE u[CHOOSE i \in pmts : TRUE].pid
<1>2. \A i \in pats \cup pmts : u[i].pid \in PmtPids \cup {None}
  BY DEF Good, Tabled
<1>3. told.pat \in PmtPids \cup {None} /\ told.pmt \in PmtPids \cup {None}
  BY DEF Tolds
<1>4. Told(u) = [pat |-> a, pmt |-> b]
  BY DEF Told
<1>5. a \in PmtPids \cup {None}
  <2>1. CASE pats = {}
    BY <1>3, <2>1
  <2>2. CASE pats # {}
    <3>1. (CHOOSE i \in pats : TRUE) \in pats
      BY <2>2
    <3> QED
      BY <1>2, <2>2, <3>1
  <2> QED
    BY <2>1, <2>2
<1>6. b \in PmtPids \cup {None}
  <2>1. CASE pmts = {}
    BY <1>3, <2>1
  <2>2. CASE pmts # {}
    <3>1. (CHOOSE i \in pmts : TRUE) \in pmts
      BY <2>2
    <3> QED
      BY <1>2, <2>2, <3>1
  <2> QED
    BY <2>1, <2>2
<1> HIDE DEF a, b, pats, pmts
<1> QED
  BY <1>1, <1>4, <1>5, <1>6 DEF Tolds

\* No packet.
LEMMA NoneSent ==
    ASSUME told \in Tolds, NEW u, DOMAIN u = {}
    PROVE  StreamPids(u) = {} /\ Told(u).pat = told.pat /\ Told(u) \in Tolds
<1>1. StreamPids(u) = {}
  BY DEF StreamPids
<1>2. Told(u) = [pat |-> told.pat, pmt |-> told.pmt]
  BY DEF Told
<1> QED
  BY <1>1, <1>2 DEF Tolds

\* One packet.
LEMMA OneSent ==
    ASSUME told \in Tolds, NEW q, Good(q), NEW n \in 0..Len(<<q>>)
    PROVE  LET u == SubSeq(<<q>>, 1, n)
           IN  /\ StreamPids(u) \subseteq EsPids /\ Told(u) \in Tolds
               /\ q.kind # "ES" => StreamPids(u) = {}
               /\ u = <<q>> /\ q.kind = "PAT" => Told(u).pat = q.pid
               /\ q.kind # "PAT" => Told(u).pat = told.pat
<1> DEFINE s == <<q>>
           u == SubSeq(s, 1, n)
<1>1. s \in Seq({q}) /\ Len(s) = 1 /\ s[1] = q
  OBVIOUS
<1> HIDE DEF s
<1>2. n \in 0..Len(s)
  BY DEF s
<1>3. DOMAIN u = 1..n /\ (\A i \in 1..n : u[i] = s[i]) /\ (u = s <=> n = Len(s))
  BY <1>1, <1>2, Beginning
<1> HIDE DEF u
<1>4. n \in Nat /\ n \in 0..1 /\ \A i \in 1..n : i = 1 /\ u[i] = q
  BY <1>1, <1>2, <1>3
<1>5. StreamPids(u) \subseteq EsPids /\ Told(u) \in Tolds
  BY <1>3, <1>4, SentTypes
<1>6. ASSUME q.kind # "ES" PROVE StreamPids(u) = {}
  BY <1>3, <1>4, <1>6 DEF StreamPids
<1> DEFINE pats == {i \in DOMAIN u : u[i].kind = "PAT"}
           pmts == {i \in DOMAIN u : u[i].kind \in {"PMT", "PMTpart"}}
           a == IF pats = {} THEN told.pat ELSE u[CHOOSE i \in pats : TRUE].pid
           b == IF pmts = {} THEN told.pmt ELSE u[CHOOSE i \in pmts : TRUE].pid
<1>7. Told(u).pat = a
  BY DEF Told
<1>8. ASSUME u = s, q.kind = "PAT" PROVE a = q.pid
  <2>1. pats = {1} /\ u[1] = q
    BY <1>1, <1>3, <1>4, <1>8
  <2> QED
    BY <2>1
<1>9. ASSUME q.kind # "PAT" PROVE a = told.pat
  <2>1. pats = {}
    BY <1>3, <1>4, <1>9
  <2> QED
    BY <2>1
<1> HIDE DEF a, b, pats, pmts
<1> QED
  BY <1>5, <1>6, <1>7, <1>8, <1>9 DEF u, s

\* The first packets of a program: only all of them show a stream, and then the
\* sink knows the tables.
LEMMA StartSent ==
    ASSUME told \in Tolds, NEW f \in Filters, NEW p, p.kind = "ES", p.pid \in EsPids,
           f.packetizer = f.pmt_pid,
           pre_streaming \in BOOLEAN,
           NEW n \in 0..Len(FirstPackets(f, p))
    PROVE  LET u == SubSeq(FirstPackets(f, p), 1, n)
           IN  /\ StreamPids(u) \subseteq EsPids /\ Told(u) \in Tolds
               /\ u # FirstPackets(f, p) => StreamPids(u) = {}
               /\ u = FirstPackets(f, p) =>
                     /\ StreamPids(u) # {}
                     /\ Told(u).pmt = f.pmt_pid
                     /\ Told(u).pat = IF pre_streaming THEN told.pat ELSE f.last_pat
<1> DEFINE s == FirstPackets(f, p)
           u == SubSeq(s, 1, n)
           pat == [kind |-> "PAT", pid |-> f.last_pat]
           pmt == PmtPacket(f)
           k == IF pre_streaming THEN 2 ELSE 3
           S == {pat, pmt, p}
<1>1. /\ pat.kind = "PAT" /\ pat.pid = f.last_pat
      /\ pmt.kind = "PMTpart" /\ pmt.pid = f.packetizer
  BY DEF PmtPacket
<1>2. f.last_pat \in PmtPids \cup {None} /\ f.packetizer \in PmtPids \cup {None}
  BY DEF Filters
<1>3. s = IF pre_streaming THEN <<pmt, p>> ELSE <<pat, pmt, p>>
  BY DEF FirstPackets
<1>4. pat \in S /\ pmt \in S /\ p \in S
  OBVIOUS
<1> HIDE DEF pat, pmt, S
<1>5. /\ s \in Seq(S) /\ Len(s) = k
      /\ s[k] = p /\ s[k - 1] = pmt
      /\ ~ pre_streaming => s[1] = pat
  <2>1. CASE pre_streaming
    <3>1. s = <<pmt, p>> /\ k = 2
      BY <1>3, <2>1
    <3> HIDE DEF s, k
    <3>2. s \in Seq(S) /\ Len(s) = 2 /\ s[2] = p /\ s[1] = pmt
      BY <1>4, <3>1
    <3> QED
      BY <2>1, <3>1, <3>2
  <2>2. CASE ~ pre_streaming
    <3>1. s = <<pat, pmt, p>> /\ k = 3
      BY <1>3, <2>2
    <3> HIDE DEF s, k
    <3>2. s \in Seq(S) /\ Len(s) = 3 /\ s[3] = p /\ s[2] = pmt /\ s[1] = pat
      BY <1>4, <3>1
    <3> QED
      BY <2>2, <3>1, <3>2
  <2> QED
    BY <2>1, <2>2
<1>6. k \in {2, 3} /\ (pre_streaming <=> k = 2)
  OBVIOUS
<1>7. n \in 0..Len(s)
  OBVIOUS
<1> HIDE DEF s, k
<1>8. DOMAIN u = 1..n /\ (\A i \in 1..n : u[i] = s[i]) /\ (u = s <=> n = Len(s))
  BY <1>5, <1>7, Beginning
<1>9. n \in 0..k /\ (u = s <=> n = k)
  BY <1>5, <1>7, <1>8
<1> HIDE DEF u
<1>10. /\ \A i \in 1..n : i < k - 1 => i = 1 /\ k = 3 /\ u[i] = pat
       /\ \A i \in 1..n : i = k - 1 => u[i] = pmt
       /\ \A i \in 1..n : i = k => u[i] = p
       /\ \A i \in 1..n : i < k - 1 \/ i = k - 1 \/ i = k
  BY <1>5, <1>6, <1>8, <1>9
<1>11. Good(pat) /\ Good(pmt) /\ Good(p)
  BY <1>1, <1>2 DEF Good, Tabled
<1>12. StreamPids(u) \subseteq EsPids /\ Told(u) \in Tolds
  <2>1. n \in Nat /\ \A i \in 1..n : Good(u[i])
    BY <1>9, <1>10, <1>11
  <2> QED
    BY <1>8, <2>1, SentTypes
<1>13. ASSUME u # s PROVE StreamPids(u) = {}
  <2>1. \A i \in 1..n : u[i].kind # "ES"
    BY <1>1, <1>6, <1>9, <1>10, <1>13
  <2> QED
    BY <2>1, <1>8 DEF StreamPids
<1>14. ASSUME u = s
       PROVE  /\ StreamPids(u) # {}
              /\ Told(u).pmt = f.pmt_pid
              /\ Told(u).pat = IF pre_streaming THEN told.pat ELSE f.last_pat
  <2>1. n = k /\ k \in DOMAIN u /\ k - 1 \in DOMAIN u /\ u[k] = p /\ u[k - 1] = pmt
    BY <1>6, <1>8, <1>9, <1>10, <1>14
  <2>2. StreamPids(u) # {}
    BY <2>1 DEF StreamPids
  <2> DEFINE pats == {i \in DOMAIN u : u[i].kind = "PAT"}
             pmts == {i \in DOMAIN u : u[i].kind \in {"PMT", "PMTpart"}}
             a == IF pats = {} THEN told.pat ELSE u[CHOOSE i \in pats : TRUE].pid
             b == IF pmts = {} THEN told.pmt ELSE u[CHOOSE i \in pmts : TRUE].pid
  <2>3. Told(u).pat = a /\ Told(u).pmt = b
    BY DEF Told
  <2>4. pmts = {k - 1}
    BY <1>1, <1>6, <1>8, <1>10, <2>1
  <2>5. b = f.pmt_pid
    <3>1. (CHOOSE i \in pmts : TRUE) = k - 1
      BY <2>4
    <3> QED
      BY <1>1, <2>1, <2>4, <3>1
  <2>6. CASE pre_streaming
    <3>1. pats = {}
      BY <1>1, <1>6, <1>8, <1>10, <2>6
    <3> QED
      BY <2>2, <2>3, <2>5, <2>6, <3>1
  <2>7. CASE ~ pre_streaming
    <3>1. pats = {1} /\ u[1] = pat
      BY <1>1, <1>6, <1>8, <1>10, <2>1, <2>7
    <3>2. a = f.last_pat
      BY <1>1, <3>1
    <3> QED
      BY <2>2, <2>3, <2>5, <2>7, <3>2
  <2> QED
    BY <2>6, <2>7
<1> QED
  BY <1>12, <1>13, <1>14 DEF u, s

\* How many packets of a result the sink takes, and what follows.
Delivered(result, n) ==
    /\ n \in 0..Len(result.sent)
    /\ run' = IF SubSeq(result.sent, 1, n) = result.sent THEN result.run ELSE "refused"
    /\ sent_pids' = StreamPids(SubSeq(result.sent, 1, n))
    /\ told' = Told(SubSeq(result.sent, 1, n))

LEMMA DeliveredNone ==
    ASSUME told \in Tolds, NEW g, NEW next, NEW n, Delivered(Result(g, <<>>, next), n)
    PROVE  run' = next /\ sent_pids' = {} /\ told'.pat = told.pat /\ told' \in Tolds
<1> DEFINE r == Result(g, <<>>, next)
           u == SubSeq(<<>>, 1, n)
<1>1. r.sent = <<>> /\ r.run = next
  BY DEF Result
<1>2. n \in 0..Len(<<>>) /\ <<>> \in Seq({})
  BY <1>1 DEF Delivered
<1>3. Len(<<>>) = 0
  OBVIOUS
<1>4. DOMAIN u = 1..n /\ (u = <<>> <=> n = Len(<<>>))
  BY <1>2, Beginning
<1>5. DOMAIN u = {} /\ u = <<>>
  BY <1>2, <1>3, <1>4
<1>6. StreamPids(u) = {} /\ Told(u).pat = told.pat /\ Told(u) \in Tolds
  BY <1>5, NoneSent
<1> QED
  BY <1>1, <1>5, <1>6 DEF Delivered

LEMMA DeliveredOne ==
    ASSUME told \in Tolds, NEW g, NEW q, Good(q), NEW next, NEW n,
           Delivered(Result(g, <<q>>, next), n)
    PROVE  /\ run' \in {next, "refused"}
           /\ sent_pids' \subseteq EsPids /\ told' \in Tolds
           /\ q.kind # "ES" => sent_pids' = {}
           /\ q.kind = "PAT" /\ run' # "refused" => told'.pat = q.pid
           /\ q.kind # "PAT" => told'.pat = told.pat
<1> DEFINE r == Result(g, <<q>>, next)
           u == SubSeq(<<q>>, 1, n)
<1>1. r.sent = <<q>> /\ r.run = next
  BY DEF Result
<1>2. n \in 0..Len(<<q>>)
  BY <1>1 DEF Delivered
<1>3. /\ StreamPids(u) \subseteq EsPids /\ Told(u) \in Tolds
      /\ q.kind # "ES" => StreamPids(u) = {}
      /\ u = <<q>> /\ q.kind = "PAT" => Told(u).pat = q.pid
      /\ q.kind # "PAT" => Told(u).pat = told.pat
  BY <1>2, OneSent
<1>4. /\ run' = IF u = <<q>> THEN next ELSE "refused"
      /\ sent_pids' = StreamPids(u) /\ told' = Told(u)
  BY <1>1 DEF Delivered
<1> HIDE DEF u
<1> QED
  BY <1>3, <1>4

LEMMA DeliveredStart ==
    ASSUME told \in Tolds, NEW f \in Filters, NEW p, p.kind = "ES", p.pid \in EsPids,
           f.packetizer = f.pmt_pid, pre_streaming \in BOOLEAN,
           NEW g, NEW n, Delivered(Result(g, FirstPackets(f, p), "up"), n)
    PROVE  /\ run' \in {"up", "refused"}
           /\ sent_pids' \subseteq EsPids /\ told' \in Tolds
           /\ run' = "up" <=> sent_pids' # {}
           /\ run' = "up" =>
                 /\ told'.pmt = f.pmt_pid
                 /\ told'.pat = IF pre_streaming THEN told.pat ELSE f.last_pat
<1> DEFINE s == FirstPackets(f, p)
           r == Result(g, s, "up")
           u == SubSeq(s, 1, n)
<1>1. r.sent = s /\ r.run = "up"
  BY DEF Result
<1>2. n \in 0..Len(s)
  BY <1>1 DEF Delivered
<1>3. /\ StreamPids(u) \subseteq EsPids /\ Told(u) \in Tolds
      /\ u # s => StreamPids(u) = {}
      /\ u = s => /\ StreamPids(u) # {}
                  /\ Told(u).pmt = f.pmt_pid
                  /\ Told(u).pat = IF pre_streaming THEN told.pat ELSE f.last_pat
  BY <1>2, StartSent
<1>4. /\ run' = IF u = s THEN "up" ELSE "refused"
      /\ sent_pids' = StreamPids(u) /\ told' = Told(u)
  BY <1>1 DEF Delivered
<1> HIDE DEF u, s
<1> QED
  BY <1>3, <1>4

-----------------------------------------------------------------------------
(* A packet. *)

\* What a result has to be, f being the filter after the demultiplexer and g the
\* filter after the packet, for the invariant to hold again.
Closed(f, g, p) ==
    /\ Sound(g)
    /\ run' \in {"up", "ended", "refused", "aborted"}
    /\ sent_pids' \subseteq EsPids /\ told' \in Tolds
    /\ run' = "up" => ~ g.stop
    /\ g.retry => run' # "up" /\ f.state = "wait" /\ sent_pids' = {}
    /\ f.state = "streaming" \/ sent_pids' # {} => g.state = "streaming"
    /\ run' = "up" /\ g.state = "streaming" => f.state = "streaming" \/ sent_pids' # {}
    /\ g.state = "streaming" => g.event # None
    /\ run' = "up" /\ g.state = "wait" =>
          g.pmt_pid = IF pre_streaming THEN told'.pat ELSE g.last_pat
    /\ sent_pids' # {} /\ f.state = "wait" => told'.pat # None /\ told'.pmt = told'.pat

\* What the comparisons have to do with it.
Decides(f, g, p) ==
    HasPcr(g, p) /\ Ready(g) /\ g.event # None =>
       /\ sent_pids' # {} =>
             /\ ComparePcr(PcrAt(p.pid), g.end_pcr) < 0
             /\ f.state = "wait" => ComparePcr(PcrAt(p.pid), g.start_pcr) >= 0
       /\ /\ ~ g.stop
          /\ run' \notin {"aborted", "refused"}
          /\ ComparePcr(PcrAt(p.pid), g.end_pcr) < 0
          /\ ComparePcr(PcrAt(p.pid), g.start_pcr) >= 0
          => run' = "up" /\ g.state = "streaming"

\* What holds before the packet is looked at.
Before(f, p) ==
    /\ Sound(f)
    /\ told \in Tolds /\ pre_streaming \in BOOLEAN
    /\ ~ f.retry
    /\ f.state = "streaming" => f.event # None
    /\ f.state = "wait" =>
          \/ p.kind = "PAT" /\ f.pmt_pid = p.pid
          \/ p.kind # "PAT" /\ f.pmt_pid = IF pre_streaming THEN told.pat ELSE f.last_pat

\* A packet that shows no time, while the filter waits.
LEMMA WaitOther ==
    ASSUME NEW f, NEW p \in Packets, Before(f, p), f.state = "wait",
           f.stop \/ ~ HasPcr(f, p) \/ f.event = None,
           NEW n, Delivered(WaitReady(f, p), n)
    PROVE  /\ Closed(f, WaitReady(f, p).filter, p)
           /\ Decides(f, WaitReady(f, p).filter, p)
<1> DEFINE r == WaitReady(f, p)
           g == r.filter
<1>1. f \in Filters /\ Sound(f) /\ told \in Tolds /\ f.retry = FALSE
  BY DEF Before, Sound, Filters
<1>2. CASE f.stop
  <2> DEFINE h == [f EXCEPT !.retry = TRUE]
  <2>1. r = Result(h, <<>>, "ended")
    BY <1>2 DEF WaitReady, Quit
  <2>2. g = h
    BY <2>1 DEF Result
  <2>3. run' = "ended" /\ sent_pids' = {} /\ told' \in Tolds
    BY <1>1, <2>1, DeliveredNone
  <2>4. /\ h \in Filters
        /\ h.state = f.state /\ h.stop = f.stop
        /\ h.pmt_pid = f.pmt_pid /\ h.pcr_pid = f.pcr_pid
        /\ h.clock_pid = f.clock_pid /\ h.clock_pcr = f.clock_pcr
        /\ h.clock_time = f.clock_time /\ h.pcr_ready = f.pcr_ready
        /\ h.time_ready = f.time_ready /\ h.event = f.event
        /\ h.start_pcr = f.start_pcr /\ h.end_pcr = f.end_pcr
    BY <1>1 DEF Filters
  <2> HIDE DEF h
  <2>5. Sound(h)
    BY <1>1, <2>4 DEF Sound, OwnClock, Ranged, Ready, ConvertTimeToPcr
  <2>6. Closed(f, h, p)
    BY <2>3, <2>4, <2>5 DEF Closed
  <2>7. Decides(f, h, p)
    BY <1>2, <2>3, <2>4 DEF Decides
  <2> QED
    BY <2>2, <2>6, <2>7
<1>3. CASE ~ f.stop /\ p.kind = "PAT" /\ pre_streaming
  <2>1. r = Result(f, <<p>>, "up")
    BY <1>3 DEF WaitReady, Send
  <2>2. g = f
    BY <2>1 DEF Result
  <2>3. Good(p)
    BY <1>3, PacketTypes DEF Good, Tabled
  <2>4. /\ run' \in {"up", "refused"} /\ sent_pids' = {} /\ told' \in Tolds
        /\ run' = "up" => told'.pat = p.pid
    BY <1>1, <1>3, <2>1, <2>3, DeliveredOne
  <2>5. f.pmt_pid = p.pid
    BY <1>3 DEF Before
  <2>6. Closed(f, f, p)
    BY <1>1, <1>3, <2>4, <2>5 DEF Closed
  <2>7. Decides(f, f, p)
    BY <1>3 DEF Decides, HasPcr
  <2> QED
    BY <2>2, <2>6, <2>7
<1>4. CASE ~ f.stop /\ p.kind = "PAT" /\ ~ pre_streaming
  <2> DEFINE h == SavePat(f, p)
  <2>1. r = Result(h, <<>>, "up")
    BY <1>4 DEF WaitReady, Drop
  <2>2. g = h
    BY <2>1 DEF Result
  <2>3. run' = "up" /\ sent_pids' = {} /\ told' \in Tolds
    BY <1>1, <2>1, DeliveredNone
  <2>4. p.pid \in PmtPids
    BY <1>4, PacketTypes
  <2>5. /\ h \in Filters
        /\ h.state = f.state /\ h.stop = f.stop /\ h.retry = f.retry
        /\ h.pmt_pid = f.pmt_pid /\ h.pcr_pid = f.pcr_pid
        /\ h.clock_pid = f.clock_pid /\ h.clock_pcr = f.clock_pcr
        /\ h.clock_time = f.clock_time /\ h.pcr_ready = f.pcr_ready
        /\ h.time_ready = f.time_ready /\ h.event = f.event
        /\ h.start_pcr = f.start_pcr /\ h.end_pcr = f.end_pcr
        /\ h.last_pat = p.pid
    BY <1>1, <2>4 DEF SavePat, Filters
  <2> HIDE DEF h
  <2>6. Sound(h)
    BY <1>1, <2>5 DEF Sound, OwnClock, Ranged, Ready, ConvertTimeToPcr
  <2>7. f.pmt_pid = p.pid
    BY <1>4 DEF Before
  <2>8. Closed(f, h, p)
    BY <1>1, <1>4, <2>3, <2>5, <2>6, <2>7 DEF Closed
  <2>9. Decides(f, h, p)
    BY <1>4 DEF Decides, HasPcr
  <2> QED
    BY <2>2, <2>8, <2>9
<1>5. CASE ~ f.stop /\ p.kind # "PAT"
  <2>1. r = Result(f, <<>>, "up")
    BY <1>5 DEF WaitReady, Drop
  <2>2. g = f
    BY <2>1 DEF Result
  <2>3. run' = "up" /\ sent_pids' = {} /\ told' \in Tolds /\ told'.pat = told.pat
    BY <1>1, <2>1, DeliveredNone
  <2>4. f.pmt_pid = IF pre_streaming THEN told.pat ELSE f.last_pat
    BY <1>5 DEF Before
  <2>5. Closed(f, f, p)
    BY <1>1, <1>5, <2>3, <2>4 DEF Closed
  <2>6. Decides(f, f, p)
    BY <1>5 DEF Decides
  <2> QED
    BY <2>2, <2>5, <2>6
<1> QED
  BY <1>2, <1>3, <1>4, <1>5

\* The PCR of a stream.
LEMMA PcrType ==
    ASSUME t \in 0..MaxTime, first_pcr \in FirstPcrs, NEW pid \in EsPids
    PROVE  PcrAt(pid) \in Pcrs
<1>1. /\ first_pcr[pid] \in Int /\ t \in Int
      /\ PcrUpperBound \in Nat /\ PcrUpperBound > 0
  BY PcrAssumption, ProgramAssumption DEF Pcrs
<1> DEFINE x == first_pcr[pid] + t
<1>2. x \in Int
  BY <1>1
<1> HIDE DEF x
<1>3. x % PcrUpperBound \in 0..(PcrUpperBound - 1)
  BY <1>1, <1>2
<1> QED
  BY <1>3 DEF x, PcrAt, Pcrs

\* The clock takes a PCR if it has to.
LEMMA SyncedStep ==
    ASSUME NEW f, Sound(f), NEW pcr \in Pcrs
    PROVE  LET g == Synced(f, pcr)
           IN  /\ Sound(g) /\ Kept(f, g) /\ g.stop = f.stop /\ g.pmt_pid = f.pmt_pid
               /\ g.event = f.event /\ g.pcr_pid = f.pcr_pid /\ g.clock_pid = f.clock_pid
  BY ClockPcrStep DEF Synced, Kept

\* A packet that shows the time, while the filter waits.
LEMMA WaitPcr ==
    ASSUME NEW f, NEW p \in Packets, Before(f, p), f.state = "wait",
           ~ f.stop, HasPcr(f, p), f.event # None,
           t \in 0..MaxTime, first_pcr \in FirstPcrs,
           NEW n, Delivered(WaitReady(f, p), n)
    PROVE  /\ Closed(f, WaitReady(f, p).filter, p)
           /\ Decides(f, WaitReady(f, p).filter, p)
<1> DEFINE r == WaitReady(f, p)
           pcr == PcrAt(p.pid)
           g == Synced(f, pcr)
<1>1. Sound(f) /\ told \in Tolds /\ f.retry = FALSE /\ pre_streaming \in BOOLEAN
  BY DEF Before, Sound, Filters
<1>2. p.kind = "ES" /\ p.pid \in EsPids /\ p.pid = f.pcr_pid /\ p.pid # None
  BY PacketTypes, ProgramAssumption DEF HasPcr
<1>3. pcr \in Pcrs
  BY <1>2, PcrType
<1>4. /\ Sound(g) /\ Kept(f, g) /\ g.stop = f.stop /\ g.pmt_pid = f.pmt_pid
      /\ g.event = f.event /\ g.pcr_pid = f.pcr_pid /\ g.clock_pid = f.clock_pid
  BY <1>1, <1>3, SyncedStep
<1>5. r = CASE NeedClockSync(g) -> Drop(g)
            [] ~ NeedClockSync(g) /\ ComparePcr(pcr, g.end_pcr) >= 0 -> Quit(g)
            [] ~ NeedClockSync(g) /\ ComparePcr(pcr, g.end_pcr) < 0
                 /\ ComparePcr(pcr, g.start_pcr) < 0 -> Drop(g)
            [] OTHER -> StartStreaming(g, p)
  BY <1>2 DEF WaitReady
<1> HIDE DEF g, r, pcr
<1>6. /\ g \in Filters /\ g.state = "wait" /\ g.retry = FALSE /\ g.last_pat = f.last_pat
      /\ g.event # None /\ g.stop = f.stop
  BY <1>1, <1>4 DEF Kept, Sound
<1>7. g.pmt_pid = IF pre_streaming THEN told.pat ELSE g.last_pat
  BY <1>2, <1>4, <1>6 DEF Before
<1>8. NeedClockSync(g) <=> ~ Ready(g)
  BY DEF NeedClockSync, Ready
<1>9. CASE NeedClockSync(g)
  <2>1. r = Result(g, <<>>, "up")
    BY <1>5, <1>9 DEF Drop
  <2>2. run' = "up" /\ sent_pids' = {} /\ told' \in Tolds /\ told'.pat = told.pat
    BY <1>1, <2>1, DeliveredNone DEF r
  <2>3. Closed(f, g, p)
    BY <1>1, <1>4, <1>6, <1>7, <2>2 DEF Closed
  <2>4. Decides(f, g, p)
    BY <1>8, <1>9 DEF Decides
  <2>5. r.filter = g
    BY <2>1 DEF Result
  <2> QED
    BY <2>3, <2>4, <2>5 DEF r
<1>10. CASE ~ NeedClockSync(g) /\ ComparePcr(pcr, g.end_pcr) >= 0
  <2>4. ~ (ComparePcr(pcr, g.end_pcr) < 0)
    BY <1>10, <1>3, <1>6, PcrAssumption DEF ComparePcr, Abs, Pcrs, Filters
  <2>1. r = Result(g, <<>>, "ended")
    BY <1>5, <1>10, <2>4 DEF Quit
  <2>2. run' = "ended" /\ sent_pids' = {} /\ told' \in Tolds
    BY <1>1, <2>1, DeliveredNone DEF r
  <2>3. Closed(f, g, p)
    BY <1>1, <1>4, <1>6, <2>2 DEF Closed
  <2>5. Decides(f, g, p)
    BY <2>2, <2>4 DEF Decides, pcr
  <2>6. r.filter = g
    BY <2>1 DEF Result
  <2> QED
    BY <2>3, <2>5, <2>6 DEF r
<1>11. CASE ~ NeedClockSync(g) /\ ComparePcr(pcr, g.end_pcr) < 0
            /\ ComparePcr(pcr, g.start_pcr) < 0
  <2>1. ComparePcr(pcr, g.end_pcr) \in Int /\ ComparePcr(pcr, g.start_pcr) \in Int
    BY <1>3, <1>6, PcrAssumption DEF ComparePcr, Abs, Pcrs, Filters
  <2>2. ~ (ComparePcr(pcr, g.end_pcr) >= 0) /\ ~ (ComparePcr(pcr, g.start_pcr) >= 0)
    BY <1>11, <2>1
  <2>3. r = Result(g, <<>>, "up")
    BY <1>5, <1>11, <2>2 DEF Drop
  <2>4. run' = "up" /\ sent_pids' = {} /\ told' \in Tolds /\ told'.pat = told.pat
    BY <1>1, <2>3, DeliveredNone DEF r
  <2>5. Closed(f, g, p)
    BY <1>1, <1>4, <1>6, <1>7, <2>4 DEF Closed
  <2>6. Decides(f, g, p)
    BY <2>2, <2>4 DEF Decides, pcr
  <2>7. r.filter = g
    BY <2>3 DEF Result
  <2> QED
    BY <2>5, <2>6, <2>7 DEF r
<1>12. CASE ~ NeedClockSync(g) /\ ~ (ComparePcr(pcr, g.end_pcr) >= 0)
            /\ ~ (ComparePcr(pcr, g.start_pcr) < 0)
  <2>1. ComparePcr(pcr, g.end_pcr) \in Int /\ ComparePcr(pcr, g.start_pcr) \in Int
    BY <1>3, <1>6, PcrAssumption DEF ComparePcr, Abs, Pcrs, Filters
  <2>2. ComparePcr(pcr, g.end_pcr) < 0 /\ ComparePcr(pcr, g.start_pcr) >= 0
    BY <1>12, <2>1
  <2>3. r = StartStreaming(g, p)
    BY <1>5, <1>12
  <2>4. CASE \/ ~ pre_streaming /\ g.last_pat = None
             \/ g.packetizer # g.pmt_pid
    <3>1. \/ r = Result(g, <<>>, "aborted")
          \/ r = Result(g, <<[kind |-> "PAT", pid |-> g.last_pat]>>, "aborted")
      BY <2>3, <2>4 DEF StartStreaming, PendingPat, Abort
    <3>2. run' \in {"aborted", "refused"} /\ sent_pids' = {} /\ told' \in Tolds
      <4>1. CASE r = Result(g, <<>>, "aborted")
        BY <1>1, <4>1, DeliveredNone DEF r
      <4>2. CASE r = Result(g, <<[kind |-> "PAT", pid |-> g.last_pat]>>, "aborted")
        <5>1. PICK q : q = [kind |-> "PAT", pid |-> g.last_pat]
          OBVIOUS
        <5>2. g.last_pat \in PmtPids \cup {None}
          BY <1>6 DEF Filters
        <5>3. q.kind = "PAT" /\ q.pid = g.last_pat /\ Good(q)
          BY <5>1, <5>2 DEF Good, Tabled
        <5>4. Delivered(Result(g, <<q>>, "aborted"), n)
          BY <1>1, <4>2, <5>1 DEF r
        <5> QED
          BY <1>1, <5>3, <5>4, DeliveredOne
      <4> QED
        BY <3>1, <4>1, <4>2
    <3>3. Closed(f, g, p)
      BY <1>1, <1>4, <1>6, <3>2 DEF Closed
    <3>4. Decides(f, g, p)
      BY <3>2 DEF Decides
    <3>5. r.filter = g
      BY <3>1 DEF Result
    <3> QED
      BY <3>3, <3>4, <3>5 DEF r
  <2>5. CASE /\ pre_streaming \/ g.last_pat # None
             /\ g.packetizer = g.pmt_pid
    <3> DEFINE h == [g EXCEPT !.state = "streaming", !.last_pat = None]
    <3>1. r = Result(h, FirstPackets(g, p), "up")
      BY <2>3, <2>5 DEF StartStreaming
    <3>2. /\ h \in Filters /\ h.state = "streaming" /\ h.last_pat = None
          /\ h.stop = g.stop /\ h.retry = g.retry
          /\ h.pmt_pid = g.pmt_pid /\ h.pcr_pid = g.pcr_pid
          /\ h.clock_pid = g.clock_pid /\ h.clock_pcr = g.clock_pcr
          /\ h.clock_time = g.clock_time /\ h.pcr_ready = g.pcr_ready
          /\ h.time_ready = g.time_ready /\ h.event = g.event
          /\ h.start_pcr = g.start_pcr /\ h.end_pcr = g.end_pcr
      BY <1>6 DEF Filters
    <3> HIDE DEF h
    <3>3. Sound(h)
      BY <1>4, <3>2 DEF Sound, OwnClock, Ranged, Ready, ConvertTimeToPcr
    <3>4. /\ run' \in {"up", "refused"}
          /\ sent_pids' \subseteq EsPids /\ told' \in Tolds
          /\ run' = "up" <=> sent_pids' # {}
          /\ run' = "up" =>
                /\ told'.pmt = g.pmt_pid
                /\ told'.pat = IF pre_streaming THEN told.pat ELSE g.last_pat
      BY <1>1, <1>2, <1>6, <2>5, <3>1, DeliveredStart DEF r
    <3>5. g.pmt_pid # None
      BY <1>2, <1>4 DEF Sound
    <3>6. run' = "up" => told'.pat # None /\ told'.pmt = told'.pat
      BY <1>7, <3>4, <3>5
    <3>7. Closed(f, h, p)
      BY <1>1, <1>6, <3>2, <3>3, <3>4, <3>6 DEF Closed
    <3>8. Decides(f, h, p)
      BY <2>2, <3>2, <3>4 DEF Decides, pcr
    <3>9. r.filter = h
      BY <3>1 DEF Result
    <3> QED
      BY <3>7, <3>8, <3>9 DEF r
  <2> QED
    BY <2>4, <2>5
<1>13. ComparePcr(pcr, g.end_pcr) \in Int /\ ComparePcr(pcr, g.start_pcr) \in Int
  BY <1>3, <1>6, PcrAssumption DEF ComparePcr, Abs, Pcrs, Filters
<1> QED
  BY <1>9, <1>10, <1>11, <1>12, <1>13

\* What is handed on while the filter streams.
LEMMA PassOnStep ==
    ASSUME NEW f, NEW g, NEW p \in Packets, Sound(g), told \in Tolds,
           f.state = "streaming", g.state = "streaming", g.event # None, ~ g.retry, ~ g.stop,
           NEW n, Delivered(PassOn(g, p), n)
    PROVE  PassOn(g, p).filter = g /\ Closed(f, g, p)
           /\ (p.kind = "ES" => run' \in {"up", "refused"})
<1> DEFINE r == PassOn(g, p)
           m == p.kind \in {"PMT", "PMTpart"} /\ p.pid = g.pmt_pid
<1>1. Good(p)
  BY PacketTypes DEF Good, Tabled
<1>2. Good(PmtPacket(g)) /\ PmtPacket(g).kind = "PMTpart"
  BY DEF Good, PmtPacket, Tabled, Sound, Filters
<1>3. CASE m /\ g.packetizer = g.pmt_pid
  <2>1. r = Result(g, <<PmtPacket(g)>>, "up")
    BY <1>3 DEF PassOn, Send
  <2>2. r.filter = g
    BY <2>1 DEF Result
  <2>3. run' \in {"up", "refused"} /\ sent_pids' \subseteq EsPids /\ told' \in Tolds
    BY <1>2, <2>1, DeliveredOne
  <2> QED
    BY <2>2, <2>3 DEF Closed
<1>4. CASE m /\ g.packetizer # g.pmt_pid
  <2>1. r = Result(g, <<>>, "aborted")
    BY <1>4 DEF PassOn, Abort
  <2>2. r.filter = g
    BY <2>1 DEF Result
  <2>3. run' = "aborted" /\ sent_pids' = {} /\ told' \in Tolds
    BY <2>1, DeliveredNone
  <2> QED
    BY <1>4, <2>2, <2>3 DEF Closed
<1>5. CASE ~ m /\ p.kind = "ES" /\ p.pid \in g.black
  <2>1. r = Result(g, <<>>, "up")
    BY <1>5 DEF PassOn, Drop
  <2>2. r.filter = g
    BY <2>1 DEF Result
  <2>3. run' = "up" /\ sent_pids' = {} /\ told' \in Tolds
    BY <2>1, DeliveredNone
  <2> QED
    BY <2>2, <2>3 DEF Closed
<1>6. CASE ~ m /\ ~ (p.kind = "ES" /\ p.pid \in g.black)
  <2>1. r = Result(g, <<p>>, "up")
    BY <1>6 DEF PassOn, Send
  <2>2. r.filter = g
    BY <2>1 DEF Result
  <2>3. run' \in {"up", "refused"} /\ sent_pids' \subseteq EsPids /\ told' \in Tolds
    BY <1>1, <2>1, DeliveredOne
  <2> QED
    BY <2>2, <2>3 DEF Closed
<1> QED
  BY <1>3, <1>4, <1>5, <1>6

\* A packet while the filter streams.
LEMMA StreamingStep ==
    ASSUME NEW f, NEW p \in Packets, Before(f, p), f.state = "streaming",
           t \in 0..MaxTime, first_pcr \in FirstPcrs,
           NEW n, Delivered(DoStreaming(f, p), n)
    PROVE  /\ Closed(f, DoStreaming(f, p).filter, p)
           /\ Decides(f, DoStreaming(f, p).filter, p)
<1> DEFINE r == DoStreaming(f, p)
           pcr == PcrAt(p.pid)
           g == Synced(f, pcr)
<1>1. Sound(f) /\ told \in Tolds /\ f.retry = FALSE /\ f.event # None
  BY DEF Before, Sound, Filters
<1>2. Good(p)
  BY PacketTypes DEF Good, Tabled
<1>3. CASE f.stop
  <2>1. r = Result(f, <<>>, "ended")
    BY <1>3 DEF DoStreaming, Done, Quit
  <2>2. run' = "ended" /\ sent_pids' = {} /\ told' \in Tolds
    BY <1>1, <2>1, DeliveredNone
  <2>3. Closed(f, f, p)
    BY <1>1, <2>2 DEF Closed
  <2>4. Decides(f, f, p)
    BY <1>3, <2>2 DEF Decides
  <2>5. r.filter = f
    BY <2>1 DEF Result
  <2> QED
    BY <2>3, <2>4, <2>5
<1>4. CASE ~ f.stop /\ HasPcr(f, p)
  <2>1. p.kind = "ES" /\ p.pid \in EsPids /\ p.pid = f.pcr_pid /\ p.pid # None
    BY <1>4, PacketTypes, ProgramAssumption DEF HasPcr
  <2>2. pcr \in Pcrs
    BY <2>1, PcrType
  <2>3. /\ Sound(g) /\ Kept(f, g) /\ g.stop = f.stop /\ g.pmt_pid = f.pmt_pid
        /\ g.event = f.event
    BY <1>1, <2>2, SyncedStep
  <2>4. r = CASE NeedClockSync(g) -> Send(g, p)
              [] ~ NeedClockSync(g) /\ ComparePcr(pcr, g.end_pcr) >= 0 -> Quit(g)
              [] OTHER -> PassOn(g, p)
    BY <1>4 DEF DoStreaming, HasPcr
  <2> HIDE DEF g, r, pcr
  <2>5. g \in Filters /\ g.state = "streaming" /\ g.retry = FALSE /\ g.event # None /\ ~ g.stop
    BY <1>1, <1>4, <2>3 DEF Kept, Sound
  <2>6. NeedClockSync(g) <=> ~ Ready(g)
    BY DEF NeedClockSync, Ready
  <2>7. ComparePcr(pcr, g.end_pcr) \in Int
    BY <2>2, <2>5, PcrAssumption DEF ComparePcr, Abs, Pcrs, Filters
  <2>8. CASE NeedClockSync(g)
    <3>1. r = Result(g, <<p>>, "up")
      BY <2>4, <2>8 DEF Send
    <3>2. run' \in {"up", "refused"} /\ sent_pids' \subseteq EsPids /\ told' \in Tolds
      BY <1>1, <1>2, <3>1, DeliveredOne DEF r
    <3>3. Closed(f, g, p)
      BY <1>1, <2>3, <2>5, <3>2 DEF Closed
    <3>4. Decides(f, g, p)
      BY <2>6, <2>8 DEF Decides
    <3>5. r.filter = g
      BY <3>1 DEF Result
    <3> QED
      BY <3>3, <3>4, <3>5 DEF r
  <2>9. CASE ~ NeedClockSync(g) /\ ComparePcr(pcr, g.end_pcr) >= 0
    <3>1. r = Result(g, <<>>, "ended")
      BY <2>4, <2>9 DEF Quit
    <3>2. run' = "ended" /\ sent_pids' = {} /\ told' \in Tolds
      BY <1>1, <3>1, DeliveredNone DEF r
    <3>3. Closed(f, g, p)
      BY <1>1, <2>3, <2>5, <3>2 DEF Closed
    <3>4. ~ (ComparePcr(pcr, g.end_pcr) < 0)
      BY <2>7, <2>9
    <3>5. Decides(f, g, p)
      BY <3>2, <3>4 DEF Decides, pcr
    <3>6. r.filter = g
      BY <3>1 DEF Result
    <3> QED
      BY <3>3, <3>5, <3>6 DEF r
  <2>10. CASE ~ NeedClockSync(g) /\ ~ (ComparePcr(pcr, g.end_pcr) >= 0)
    <3>1. r = PassOn(g, p)
      BY <2>4, <2>10
    <3>2. PassOn(g, p).filter = g /\ Closed(f, g, p) /\ run' \in {"up", "refused"}
      <4>1. Delivered(PassOn(g, p), n)
        BY <3>1 DEF r
      <4>2. ~ g.retry
        BY <2>5
      <4>3. PassOn(g, p).filter = g /\ Closed(f, g, p)
            /\ (p.kind = "ES" => run' \in {"up", "refused"})
        BY <1>1, <2>3, <2>5, <4>1, <4>2, PassOnStep, Zenon
      <4> QED
        BY <2>1, <4>3
    <3>3. ComparePcr(pcr, g.end_pcr) < 0
      BY <2>7, <2>10
    <3>4. Decides(f, g, p)
      BY <2>5, <3>2, <3>3 DEF Decides, pcr
    <3> QED
      BY <3>1, <3>2, <3>4 DEF r
  <2> QED
    BY <2>8, <2>9, <2>10
<1>5. CASE ~ f.stop /\ ~ HasPcr(f, p) /\ p.kind = "ES" /\ p.pid = f.pcr_pid
  <2>1. r = Result(f, <<p>>, "up")
    BY <1>5 DEF DoStreaming, HasPcr, Send
  <2>2. run' \in {"up", "refused"} /\ sent_pids' \subseteq EsPids /\ told' \in Tolds
    BY <1>1, <1>2, <2>1, DeliveredOne
  <2>3. Closed(f, f, p)
    BY <1>1, <1>5, <2>2 DEF Closed
  <2>4. Decides(f, f, p)
    BY <1>5 DEF Decides
  <2>5. r.filter = f
    BY <2>1 DEF Result
  <2> QED
    BY <2>3, <2>4, <2>5
<1>6. CASE ~ f.stop /\ ~ HasPcr(f, p) /\ ~ (p.kind = "ES" /\ p.pid = f.pcr_pid)
  <2>1. r = PassOn(f, p)
    BY <1>6 DEF DoStreaming
  <2>2. PassOn(f, p).filter = f /\ Closed(f, f, p)
    BY <1>1, <1>6, <2>1, PassOnStep
  <2>3. Decides(f, f, p)
    BY <1>6 DEF Decides
  <2> QED
    BY <2>1, <2>2, <2>3
<1> QED
  BY <1>3, <1>4, <1>5, <1>6

\* What the invariant says of the filter itself.
LEMMA Parts ==
    ASSUME IInv
    PROVE  /\ Sound(filter) /\ told \in Tolds /\ pre_streaming \in BOOLEAN
           /\ t \in 0..MaxTime /\ first_pcr \in FirstPcrs
           /\ sent_pids \subseteq EsPids /\ begun \in BOOLEAN
  BY DEF IInv, TypeOK, Tables, Sound, Filters, Tolds

\* HandlePacket, its parts named.
LEMMA PacketParts ==
    ASSUME HandlePacket
    PROVE  /\ run = "up"
           /\ \E p \in Packets : \E n :
                 /\ filter' = Handle(p).filter
                 /\ Delivered(Handle(p), n)
                 /\ tested' = HasPcr(filter', p)
                 /\ since_pcr' = IF HasPcr(filter', p) THEN 0 ELSE since_pcr
                 /\ since_eit' = IF p.kind \in {"EIT", "OtherEIT"} THEN 0 ELSE since_eit
           /\ begun' = (begun \/ sent_pids # {})
           /\ t' = t /\ first_pcr' = first_pcr /\ pre_streaming' = pre_streaming
  BY Zenon DEF HandlePacket, Delivered

\* The packet is looked at in a good state.
LEMMA BeforePacket ==
    ASSUME IInv, run = "up", NEW p \in Packets
    PROVE  LET f == Demux(filter, p)
           IN  /\ Before(f, p) /\ f.state = filter.state
               /\ f.state = "wait" \/ f.state = "streaming"
               /\ (begun \/ sent_pids # {}) <=> f.state = "streaming"
<1> DEFINE f == Demux(filter, p)
<1>1. Sound(filter) /\ told \in Tolds /\ pre_streaming \in BOOLEAN /\ t \in 0..MaxTime
  BY Parts
<1>2. /\ Sound(f) /\ Kept(filter, f)
      /\ p.kind = "PAT" => f.pmt_pid = p.pid
      /\ p.kind # "PAT" => f.pmt_pid = filter.pmt_pid
  BY <1>1, DemuxStep
<1> HIDE DEF f
<1>3. ~ filter.retry /\ (filter.state = "streaming" => filter.event # None)
  BY DEF IInv, Control
<1>4. filter.state = "wait" \/ filter.state = "streaming"
  BY <1>1 DEF Sound, Filters
<1>5. (begun \/ sent_pids # {}) <=> filter.state = "streaming"
  BY DEF IInv, Control
<1>6. f.state = filter.state /\ f.retry = filter.retry /\ f.last_pat = filter.last_pat
      /\ (filter.event # None => f.event # None)
  BY <1>2 DEF Kept
<1>7. filter.state = "wait" =>
         filter.pmt_pid = IF pre_streaming THEN told.pat ELSE filter.last_pat
  BY DEF IInv, Tables
<1>8. Before(f, p)
  BY <1>1, <1>2, <1>3, <1>6, <1>7 DEF Before
<1> QED
  BY <1>4, <1>5, <1>6, <1>8 DEF f

\* A result is closed and decided.
LEMMA HandleStep ==
    ASSUME IInv, run = "up", NEW p \in Packets, NEW n, Delivered(Handle(p), n)
    PROVE  LET f == Demux(filter, p)
           IN  Closed(f, Handle(p).filter, p) /\ Decides(f, Handle(p).filter, p)
<1> DEFINE f == Demux(filter, p)
<1>1. Before(f, p) /\ (f.state = "wait" \/ f.state = "streaming")
  BY BeforePacket
<1>2. t \in 0..MaxTime /\ first_pcr \in FirstPcrs
  BY Parts
<1>3. Handle(p) = IF f.state = "wait" THEN WaitReady(f, p) ELSE DoStreaming(f, p)
  BY DEF Handle
<1> HIDE DEF f
<1>4. CASE f.state = "wait"
  <2>1. Handle(p) = WaitReady(f, p)
    BY <1>3, <1>4
  <2>2. Delivered(WaitReady(f, p), n)
    BY <2>1
  <2>3. Closed(f, WaitReady(f, p).filter, p) /\ Decides(f, WaitReady(f, p).filter, p)
    <3>1. CASE f.stop \/ ~ HasPcr(f, p) \/ f.event = None
      BY <1>1, <1>4, <2>2, <3>1, WaitOther
    <3>2. CASE ~ f.stop /\ HasPcr(f, p) /\ f.event # None
      BY <1>1, <1>2, <1>4, <2>2, <3>2, WaitPcr
    <3> QED
      BY <3>1, <3>2
  <2> QED
    BY <2>1, <2>3 DEF f
<1>5. CASE f.state = "streaming"
  <2>1. Handle(p) = DoStreaming(f, p)
    BY <1>3, <1>5
  <2>2. Delivered(DoStreaming(f, p), n)
    BY <2>1
  <2>3. Closed(f, DoStreaming(f, p).filter, p) /\ Decides(f, DoStreaming(f, p).filter, p)
    BY <1>1, <1>2, <1>5, <2>2, StreamingStep
  <2> QED
    BY <2>1, <2>3 DEF f
<1> QED
  BY <1>1, <1>4, <1>5

LEMMA PacketStep ==
    ASSUME IInv, HandlePacket
    PROVE  IInv'
<1>1. /\ run = "up"
      /\ begun' = (begun \/ sent_pids # {})
      /\ t' = t /\ first_pcr' = first_pcr /\ pre_streaming' = pre_streaming
  BY PacketParts
<1>2. PICK p \in Packets : \E n :
                 /\ filter' = Handle(p).filter
                 /\ Delivered(Handle(p), n)
                 /\ tested' = HasPcr(filter', p)
                 /\ since_pcr' = IF HasPcr(filter', p) THEN 0 ELSE since_pcr
                 /\ since_eit' = IF p.kind \in {"EIT", "OtherEIT"} THEN 0 ELSE since_eit
  BY PacketParts
<1>3. PICK n : /\ filter' = Handle(p).filter
               /\ Delivered(Handle(p), n)
               /\ tested' = HasPcr(filter', p)
               /\ since_pcr' = IF HasPcr(filter', p) THEN 0 ELSE since_pcr
               /\ since_eit' = IF p.kind \in {"EIT", "OtherEIT"} THEN 0 ELSE since_eit
  BY <1>2
<1> DEFINE f == Demux(filter, p)
           g == filter'
<1>4. Closed(f, g, p) /\ Decides(f, g, p)
  BY <1>1, <1>3, HandleStep
<1>5. (begun \/ sent_pids # {}) <=> f.state = "streaming"
  BY <1>1, BeforePacket
<1>6. f.state = "wait" \/ f.state = "streaming"
  BY <1>1, BeforePacket
<1> HIDE DEF f
<1>7. begun' \in BOOLEAN /\ (begun' <=> f.state = "streaming")
  BY <1>1, <1>5
<1>8. Sound(g)
  BY <1>4 DEF Closed
<1>9. TypeOK'
  <2>1. /\ t' \in 0..MaxTime /\ first_pcr' \in FirstPcrs
        /\ since_pcr \in 0..MaxPcrInterval /\ since_eit \in 0..MaxEitInterval
        /\ pre_streaming' \in BOOLEAN
    BY <1>1 DEF IInv, TypeOK
  <2>2. 0 \in 0..MaxPcrInterval /\ 0 \in 0..MaxEitInterval
    BY ProgramAssumption
  <2>3. since_pcr' \in 0..MaxPcrInterval
    BY <1>3, <2>1, <2>2
  <2>4. since_eit' \in 0..MaxEitInterval
    BY <1>3, <2>1, <2>2
  <2>5. tested' \in BOOLEAN
    BY <1>3, PacketTypes DEF HasPcr, Packets
  <2>6. g \in Filters
    BY <1>8 DEF Sound
  <2>7. /\ run' \in {"up", "ended", "refused", "aborted"}
        /\ sent_pids' \subseteq EsPids /\ told' \in Tolds
    BY <1>4 DEF Closed
  <2> QED
    BY <1>7, <2>1, <2>3, <2>4, <2>5, <2>6, <2>7 DEF TypeOK, Filters, Tolds
<1>10. Control'
  BY <1>4, <1>6, <1>7 DEF Closed, Control
<1>11. Tables'
  BY <1>1, <1>4, <1>8 DEF Closed, Tables, Sound
<1>12. OwnClock(filter)' /\ Ranged(filter)'
  BY <1>8 DEF Sound
<1>13. AnnouncedFirst'
  BY <1>4, <1>6, <1>7 DEF Closed, AnnouncedFirst
<1>14. Decisions'
  <2> SUFFICES ASSUME Decided' PROVE Decisions'
    BY DEF Decisions
  <2>1. HasPcr(g, p) /\ Ready(g) /\ g.event # None
    BY <1>3 DEF Decided, NeedClockSync, Ready
  <2>2. p.pid = g.pcr_pid /\ p.pid # None
    BY <2>1, PacketTypes, ProgramAssumption DEF HasPcr
  <2>3. g.clock_pid = p.pid
    BY <1>8, <2>2 DEF Sound, OwnClock
  <2>4. ClockPcr' = PcrAt(p.pid)
    BY <1>1, <2>3 DEF ClockPcr, PcrAt
  <2> QED
    BY <1>4, <1>6, <1>7, <2>1, <2>4 DEF Decides, Decisions
<1> QED
  BY <1>9, <1>10, <1>11, <1>12, <1>13, <1>14 DEF IInv

-----------------------------------------------------------------------------
(* The other steps, and the theorems. *)

LEMMA Initially == Init => IInv
<1> SUFFICES ASSUME Init PROVE IInv
  OBVIOUS
<1>1. /\ t = 0 /\ first_pcr \in FirstPcrs /\ since_pcr = 0 /\ since_eit = 0 /\ run = "up"
      /\ pre_streaming \in PreStreamings /\ sent_pids = {} /\ begun = FALSE /\ tested = FALSE
      /\ told = [pat |-> None, pmt |-> None]
  BY DEF Init
<1>2. /\ filter.state = "wait" /\ filter.stop = FALSE /\ filter.retry = FALSE
      /\ filter.pmt_pid = None /\ filter.pcr_pid = None /\ filter.last_pat = None
      /\ filter.pcr_ready = TRUE /\ filter.time_ready = TRUE /\ filter.event = None
  BY DEF Init
<1>3. first_pcr[ClockPid] \in Pcrs /\ ClockPid \in EsPids /\ pre_streaming \in BOOLEAN
      /\ 0 \in Pcrs /\ 0 \in 0..MaxTime
  BY <1>1, ProgramAssumption, PcrAssumption DEF Pcrs
<1>4. filter \in Filters
  BY <1>3 DEF Init, Filters
<1>5. 0 \in 0..MaxPcrInterval /\ 0 \in 0..MaxEitInterval
  BY ProgramAssumption
<1>6. told \in Tolds /\ told.pat = None
  BY <1>1 DEF Tolds
<1>7. TypeOK
  BY <1>1, <1>3, <1>4, <1>5, <1>6 DEF TypeOK, Filters, Tolds
<1> QED
  BY <1>1, <1>2, <1>6, <1>7
  DEF IInv, Control, Tables, OwnClock, Ready, Ranged, AnnouncedFirst, Decisions, Decided

LEMMA TickStep ==
    ASSUME IInv, Tick
    PROVE  IInv'
<1>1. /\ run' = run /\ filter' = filter /\ told' = told /\ pre_streaming' = pre_streaming
      /\ first_pcr' = first_pcr /\ sent_pids' = {} /\ begun' = (begun \/ sent_pids # {})
      /\ tested' = FALSE
  BY DEF Tick
<1>2. /\ t < MaxTime /\ t' = t + 1
      /\ since_pcr < MaxPcrInterval \/ filter.pcr_pid = None
      /\ since_pcr' = IF filter.pcr_pid = None THEN 0 ELSE since_pcr + 1
      /\ since_eit < MaxEitInterval /\ since_eit' = since_eit + 1
  BY DEF Tick
<1>3. t' \in 0..MaxTime /\ since_pcr' \in 0..MaxPcrInterval /\ since_eit' \in 0..MaxEitInterval
  BY <1>2, ProgramAssumption DEF IInv, TypeOK
<1>4. TypeOK'
  <2>1. begun' \in BOOLEAN /\ tested' \in BOOLEAN
    BY <1>1
  <2>2. sent_pids' \subseteq EsPids
    BY <1>1
  <2>3. /\ first_pcr' \in FirstPcrs /\ run' \in {"up", "ended", "refused", "aborted"}
        /\ filter' \in Filters /\ told' \in Tolds
    BY <1>1 DEF IInv, TypeOK, Filters, Tolds
  <2>4. pre_streaming' \in BOOLEAN
    BY <1>1 DEF IInv, TypeOK
  <2> QED
    BY <1>3, <2>1, <2>2, <2>3, <2>4 DEF TypeOK, Filters, Tolds
<1>5. OwnClock(filter)' /\ Ranged(filter)' /\ Tables'
  BY <1>1 DEF IInv, OwnClock, Ranged, Ready, ConvertTimeToPcr, Tables
<1>6. Control'
  BY <1>1 DEF IInv, TypeOK, Control
<1> QED
  BY <1>1, <1>4, <1>5, <1>6 DEF IInv, AnnouncedFirst, Decisions, Decided

LEMMA EndStep ==
    ASSUME IInv, End
    PROVE  IInv'
<1>1. /\ run' = "ended" /\ filter' = filter /\ told' = told /\ pre_streaming' = pre_streaming
      /\ first_pcr' = first_pcr /\ sent_pids' = {} /\ begun' = (begun \/ sent_pids # {})
      /\ tested' = FALSE /\ t' = t /\ since_pcr' = since_pcr /\ since_eit' = since_eit
      /\ run = "up"
  BY DEF End, stream
<1>2. TypeOK'
  <2>1. begun' \in BOOLEAN /\ tested' \in BOOLEAN
    BY <1>1
  <2>2. sent_pids' \subseteq EsPids
    BY <1>1
  <2>3. /\ first_pcr' \in FirstPcrs /\ run' \in {"up", "ended", "refused", "aborted"}
        /\ filter' \in Filters /\ told' \in Tolds
    BY <1>1 DEF IInv, TypeOK, Filters, Tolds
  <2>4. pre_streaming' \in BOOLEAN
    BY <1>1 DEF IInv, TypeOK
  <2>5. /\ t' \in 0..MaxTime /\ since_pcr' \in 0..MaxPcrInterval
        /\ since_eit' \in 0..MaxEitInterval
    BY <1>1 DEF IInv, TypeOK
  <2> QED
    BY <2>1, <2>2, <2>3, <2>4, <2>5 DEF TypeOK, Filters, Tolds
<1>3. OwnClock(filter)' /\ Ranged(filter)' /\ Tables'
  BY <1>1 DEF IInv, OwnClock, Ranged, Ready, ConvertTimeToPcr, Tables
<1>4. Control'
  BY <1>1 DEF IInv, TypeOK, Control
<1> QED
  BY <1>1, <1>2, <1>3, <1>4 DEF IInv, AnnouncedFirst, Decisions, Decided

LEMMA StutterStep ==
    ASSUME IInv, UNCHANGED vars
    PROVE  IInv'
<1>1. /\ run' = run /\ filter' = filter /\ told' = told /\ pre_streaming' = pre_streaming
      /\ first_pcr' = first_pcr /\ sent_pids' = sent_pids /\ begun' = begun
      /\ tested' = tested /\ t' = t /\ since_pcr' = since_pcr /\ since_eit' = since_eit
  BY DEF vars, stream
<1> QED
  BY <1>1
  DEF IInv, TypeOK, Control, Tables, OwnClock, Ranged, Ready, ConvertTimeToPcr,
      AnnouncedFirst, Decisions, Decided, NeedClockSync, ClockPcr, PcrAt

LEMMA Preserved == IInv /\ [Next]_vars => IInv'
  BY PacketStep, TickStep, EndStep, StutterStep DEF Next

LEMMA Invariance == Spec => []IInv
  BY Initially, Preserved, PTL DEF Spec

\* The type invariant of the filter behind HandlePacket: PIDs, PCRs and times
\* stay in their ranges whatever tables and packets come.
THEOREM TypeCorrect == Spec => []TypeOK
<1>1. IInv => TypeOK
  BY DEF IInv
<1> QED
  BY <1>1, Invariance, PTL

\* WaitReady: the first packet of a stream is handed on after a PAT and after
\* the PMT which that PAT names, with and without pre_streaming, whatever order
\* the tables come in and wherever the sink refuses a packet.
THEOREM AlwaysAnnouncedFirst == Spec => []AnnouncedFirst
<1>1. IInv => AnnouncedFirst
  BY DEF IInv
<1> QED
  BY <1>1, Invariance, PTL

\* GetExitCode: the exit code that asks for a retry is never used after a
\* packet of a stream was handed on.
THEOREM RetriesAlwaysUnstreamed == Spec => []RetryUnstreamed
<1>1. IInv => RetryUnstreamed
  BY DEF IInv, Control, RetryUnstreamed
<1> QED
  BY <1>1, Invariance, PTL

-----------------------------------------------------------------------------
(* The clock, as far as ComparePcr is right and clocks are synchronized in   *)
(* time.                                                                     *)

\* The tick at which the PCR of the clock was taken, and that of its time.
Taken(f) == f.clock_pcr - first_pcr[f.clock_pid]
ClockTick(f) == f.clock_time * TicksPerMs

\* A clock that is ready is wrong by this many ticks at most.
Accurate(f) ==
    Ready(f) => /\ Taken(f) - ClockTick(f) >= - MaxPcrInterval
                /\ Taken(f) - ClockTick(f) <= Tolerance

\* A clock that lacks the time has the last PCR; one that lacks the PCR has a
\* time that is not old, unless the event is unknown.
HalfReady(f, since) ==
    /\ f.pcr_ready /\ ~ f.time_ready => f.event # None /\ Taken(f) = t - since
    /\ ~ f.pcr_ready /\ f.time_ready =>
          /\ ClockTick(f) <= t
          /\ f.event # None => t - ClockTick(f) <= MaxEitInterval + (TicksPerMs - 1) + since

\* Why a clock is not synchronized while the event is unknown.
Unannounced ==
    /\ WaitUntil = None /\ run = "up" /\ filter.event = None => since_eit = t
    /\ EsPids = {ClockPid} => Ready(filter)

\* The inductive invariant of the clock, beside IInv.
ClockInv ==
    /\ Accurate(filter)
    /\ run = "up" => HalfReady(filter, since_pcr)
    /\ Unannounced

\* The clock, the event and the PCR PID are the same.
SameClock(f, g) ==
    /\ g.pcr_pid = f.pcr_pid /\ g.clock_pid = f.clock_pid /\ g.clock_pcr = f.clock_pcr
    /\ g.clock_time = f.clock_time /\ g.pcr_ready = f.pcr_ready
    /\ g.time_ready = f.time_ready /\ g.event = f.event /\ g.stop = f.stop

\* The numbers of a clock.
LEMMA ClockNumbers ==
    ASSUME NEW f \in Filters, first_pcr \in FirstPcrs
    PROVE  /\ Taken(f) \in Int /\ ClockTick(f) \in Int
           /\ MaxPcrInterval \in Nat /\ MaxEitInterval \in Nat /\ TicksPerMs \in Nat
           /\ TicksPerMs > 0 /\ Tolerance \in Nat
           /\ Tolerance = MaxPcrInterval + MaxEitInterval + (TicksPerMs - 1)
<1>1. /\ MaxPcrInterval \in Nat /\ MaxEitInterval \in Nat /\ TicksPerMs \in Nat
      /\ TicksPerMs > 0 /\ MaxTime \in Nat
  BY ProgramAssumption, PcrAssumption
<1>2. f.clock_pcr \in Int /\ first_pcr[f.clock_pid] \in Int /\ f.clock_time \in Int
  BY <1>1, ProgramAssumption DEF Filters, Pcrs
<1>3. f.clock_time * TicksPerMs \in Int
  BY <1>1, <1>2
<1> QED
  BY <1>1, <1>2, <1>3 DEF Taken, ClockTick, Tolerance

LEMMA SameClockInv ==
    ASSUME NEW f, NEW g, SameClock(f, g)
    PROVE  /\ Taken(g) = Taken(f) /\ ClockTick(g) = ClockTick(f)
           /\ (Ready(g) <=> Ready(f))
           /\ Accurate(f) => Accurate(g)
           /\ \A since : HalfReady(f, since) => HalfReady(g, since)
<1>1. Taken(g) = Taken(f) /\ ClockTick(g) = ClockTick(f) /\ (Ready(g) <=> Ready(f))
  BY DEF SameClock, Taken, ClockTick, Ready
<1>2. Accurate(f) => Accurate(g)
  BY <1>1, Zenon DEF Accurate
<1>3. \A since : HalfReady(f, since) => HalfReady(g, since)
  BY <1>1, Zenon DEF HalfReady, SameClock
<1> QED
  BY <1>1, <1>2, <1>3

\* The tables and the clock.
LEMMA DemuxClock ==
    ASSUME IInv, ClockInv, run = "up", SyncsInTime, NEW p \in Packets
    PROVE  LET f == Demux(filter, p)
           IN  /\ Accurate(f) /\ HalfReady(f, since_pcr)
               /\ EsPids = {ClockPid} => Ready(f)
<1> DEFINE f == Demux(filter, p)
<1>1. /\ Sound(filter) /\ t \in 0..MaxTime /\ first_pcr \in FirstPcrs
      /\ filter \in Filters
  BY Parts DEF Sound
<1>2. /\ Accurate(filter) /\ HalfReady(filter, since_pcr)
      /\ EsPids = {ClockPid} => Ready(filter)
  BY DEF ClockInv, Unannounced
<1>3. /\ since_pcr \in Nat /\ since_pcr <= MaxPcrInterval
      /\ since_eit \in Nat /\ since_eit <= MaxEitInterval
      /\ t \in Nat
  BY ProgramAssumption DEF IInv, TypeOK
<1>4. /\ Taken(filter) \in Int /\ ClockTick(filter) \in Int
      /\ MaxPcrInterval \in Nat /\ MaxEitInterval \in Nat /\ TicksPerMs \in Nat
      /\ TicksPerMs > 0 /\ Tolerance \in Nat
      /\ Tolerance = MaxPcrInterval + MaxEitInterval + (TicksPerMs - 1)
  BY <1>1, ClockNumbers
<1>5. CASE p.kind = "PAT"
  <2>1. f = HandlePat(filter, p)
    BY <1>5 DEF Demux
  <2>2. SameClock(filter, f)
    BY <1>1, <2>1 DEF HandlePat, SameClock, Filters
  <2> QED
    BY <1>2, <2>2, SameClockInv
<1>6. CASE p.kind = "PMT"
  <2>1. f = HandlePmt(filter, p)
    BY <1>6 DEF Demux
  <2>2. p.pcr_pid \in EsPids /\ filter.clock_pid \in EsPids
    BY <1>1, <1>6, PacketTypes DEF Filters
  <2> DEFINE same == \/ p.pid # filter.pmt_pid
                     \/ filter.clock_pid = p.pcr_pid
  <2>3. CASE same
    <3>1. /\ f.clock_pid = filter.clock_pid /\ f.clock_pcr = filter.clock_pcr
          /\ f.clock_time = filter.clock_time /\ f.pcr_ready = filter.pcr_ready
          /\ f.time_ready = filter.time_ready /\ f.event = filter.event
      BY <1>1, <2>1, <2>3 DEF HandlePmt, SetPcrPid, Filters
    <3>2. Taken(f) = Taken(filter) /\ ClockTick(f) = ClockTick(filter)
          /\ (Ready(f) <=> Ready(filter))
      BY <3>1 DEF Taken, ClockTick, Ready
    <3> HIDE DEF f
    <3> QED
      BY <1>2, <3>1, <3>2, Zenon DEF Accurate, HalfReady, f
  <2>4. CASE ~ same
    <3>1. f.pcr_ready = FALSE /\ f.time_ready = FALSE
      BY <1>1, <2>1, <2>4 DEF HandlePmt, SetPcrPid, Filters
    <3>2. EsPids # {ClockPid}
      BY <2>2, <2>4
    <3> HIDE DEF f
    <3> QED
      BY <3>1, <3>2 DEF Accurate, HalfReady, Ready, f
  <2> QED
    BY <2>3, <2>4
<1>7. CASE p.kind = "EIT"
  <2>1. f = HandleEit(filter, p)
    BY <1>7 DEF Demux
  <2>2. /\ f.event # None
        /\ f.clock_pid = filter.clock_pid /\ f.clock_pcr = filter.clock_pcr
        /\ f.clock_time = filter.clock_time /\ f.pcr_ready = filter.pcr_ready
        /\ f.time_ready = filter.time_ready
    BY <1>1, <1>7, <2>1, EitStep
  <2> HIDE DEF f
  <2>3. Taken(f) = Taken(filter) /\ ClockTick(f) = ClockTick(filter)
        /\ (Ready(f) <=> Ready(filter))
    BY <2>2 DEF Taken, ClockTick, Ready
  <2>4. Accurate(f) /\ (EsPids = {ClockPid} => Ready(f))
    BY <1>2, <2>3, Zenon DEF Accurate
  <2>5. ASSUME f.pcr_ready, ~ f.time_ready
        PROVE  f.event # None /\ Taken(f) = t - since_pcr
    BY <1>2, <2>2, <2>3, <2>5 DEF HalfReady
  <2>6. ASSUME ~ f.pcr_ready, f.time_ready
        PROVE  /\ ClockTick(f) <= t
               /\ t - ClockTick(f) <= MaxEitInterval + (TicksPerMs - 1) + since_pcr
    <3>1. ClockTick(f) <= t
      BY <1>2, <2>2, <2>3, <2>6 DEF HalfReady
    <3>2. CASE filter.event # None
      BY <1>2, <2>2, <2>3, <2>6, <3>1, <3>2 DEF HalfReady
    <3>3. CASE filter.event = None
      <4>1. ~ Ready(filter)
        BY <2>2, <2>6 DEF Ready
      <4>2. WaitUntil = None
        BY <1>2, <4>1 DEF SyncsInTime
      <4>3. since_eit = t
        BY <3>3, <4>2 DEF ClockInv, Unannounced
      <4>4. ClockTick(filter) >= 0
        <5>1. filter.clock_time \in Nat
          BY <1>1, ProgramAssumption DEF Filters
        <5> QED
          BY <1>4, <5>1 DEF ClockTick
      <4> QED
        BY <1>3, <1>4, <2>3, <3>1, <4>3, <4>4
    <3> QED
      BY <3>1, <3>2, <3>3
  <2>7. HalfReady(f, since_pcr)
    BY <2>5, <2>6 DEF HalfReady
  <2> QED
    BY <2>4, <2>7 DEF f
<1>8. CASE p.kind = "OtherEIT"
  <2>1. f = HandleOtherEit(filter, p)
    BY <1>8 DEF Demux
  <2>2. f = filter \/ f = Stop(filter)
    BY <1>1, <2>1, OtherEitStep
  <2>3. /\ f.event = filter.event
        /\ f.clock_pid = filter.clock_pid /\ f.clock_pcr = filter.clock_pcr
        /\ f.clock_time = filter.clock_time /\ f.pcr_ready = filter.pcr_ready
        /\ f.time_ready = filter.time_ready
    BY <1>1, <2>2, StopStep
  <2> HIDE DEF f
  <2>4. Taken(f) = Taken(filter) /\ ClockTick(f) = ClockTick(filter)
        /\ (Ready(f) <=> Ready(filter))
    BY <2>3 DEF Taken, ClockTick, Ready
  <2> QED
    BY <1>2, <2>3, <2>4, Zenon DEF Accurate, HalfReady, f
<1>9. CASE p.kind = "TOT"
  <2>1. f = HandleTot(filter)
    BY <1>9 DEF Demux
  <2>2. /\ f.event = filter.event /\ f.clock_pid = filter.clock_pid
        /\ f.clock_pcr = filter.clock_pcr /\ f.pcr_ready = filter.pcr_ready
        /\ f.time_ready = TRUE
        /\ f.clock_time = IF filter.time_ready THEN filter.clock_time ELSE NowMs
    <3> DEFINE h == HandleTot(filter)
    <3>1. /\ h.event = filter.event /\ h.clock_pid = filter.clock_pid
          /\ h.clock_pcr = filter.clock_pcr /\ h.pcr_ready = filter.pcr_ready
          /\ h.time_ready = TRUE
          /\ h.clock_time = IF filter.time_ready THEN filter.clock_time ELSE NowMs
      BY <1>1, TotStep, Zenon
    <3> HIDE DEF h
    <3>2. f = h
      BY <2>1 DEF h
    <3> HIDE DEF f
    <3> QED
      BY <3>1, <3>2, Zenon
  <2> HIDE DEF f
  <2>3. Taken(f) = Taken(filter)
    BY <2>2 DEF Taken
  <2>4. CASE filter.time_ready
    <3>1. ClockTick(f) = ClockTick(filter) /\ (Ready(f) <=> Ready(filter))
      BY <2>2, <2>4 DEF ClockTick, Ready
    <3> QED
      BY <1>2, <2>2, <2>3, <2>4, <3>1 DEF Accurate, HalfReady, f
  <2>5. CASE ~ filter.time_ready
    <3>1. /\ ClockTick(f) \in Nat /\ ClockTick(f) <= t
          /\ t - ClockTick(f) <= TicksPerMs - 1
      BY <1>1, <2>2, <2>5, NowType DEF ClockTick
    <3>2. CASE filter.pcr_ready
      <4>1. Taken(filter) = t - since_pcr
        BY <1>2, <2>5, <3>2 DEF HalfReady
      <4>2. /\ Taken(f) - ClockTick(f) >= - MaxPcrInterval
            /\ Taken(f) - ClockTick(f) <= Tolerance
        BY <1>3, <1>4, <2>3, <3>1, <4>1
      <4>3. Accurate(f)
        BY <4>2 DEF Accurate
      <4>4. HalfReady(f, since_pcr)
        BY <2>2, <3>2 DEF HalfReady
      <4>5. Ready(f)
        BY <2>2, <3>2 DEF Ready
      <4> QED
        BY <4>3, <4>4, <4>5 DEF f
    <3>3. CASE ~ filter.pcr_ready
      <4>1. Accurate(f)
        BY <2>2, <3>3 DEF Accurate, Ready
      <4>2. t - ClockTick(f) <= MaxEitInterval + (TicksPerMs - 1) + since_pcr
        BY <1>3, <1>4, <3>1
      <4>3. HalfReady(f, since_pcr)
        BY <2>2, <3>1, <3>3, <4>2 DEF HalfReady
      <4>4. EsPids # {ClockPid}
        BY <1>2, <3>3 DEF Ready
      <4> QED
        BY <4>1, <4>3, <4>4 DEF f
    <3> QED
      BY <3>2, <3>3
  <2> QED
    BY <2>4, <2>5
<1>10. CASE p.kind \notin {"PAT", "PMT", "EIT", "OtherEIT", "TOT"}
  <2>1. f = filter
    BY <1>10 DEF Demux
  <2> QED
    BY <1>2, <2>1
<1> QED
  BY <1>5, <1>6, <1>7, <1>8, <1>9, <1>10

\* PassOn leaves the filter alone.
LEMMA PassOnFilter ==
    ASSUME NEW f, NEW p
    PROVE  PassOn(f, p).filter = f
  BY DEF PassOn, Send, Abort, Drop, Result

\* What a packet does to the clock: nothing, or it takes the packet's PCR.
LEMMA ClockEffect ==
    ASSUME NEW f, NEW p \in Packets, Before(f, p), f.state = "wait" \/ f.state = "streaming",
           t \in 0..MaxTime, first_pcr \in FirstPcrs
    PROVE  LET r == IF f.state = "wait" THEN WaitReady(f, p) ELSE DoStreaming(f, p)
           IN  \/ /\ SameClock(f, r.filter)
                  /\ f.stop \/ ~ HasPcr(f, p) \/ f.event = None
               \/ /\ HasPcr(f, p) /\ f.event # None
                  /\ SameClock(Synced(f, PcrAt(p.pid)), r.filter)
<1> DEFINE r == IF f.state = "wait" THEN WaitReady(f, p) ELSE DoStreaming(f, p)
           g == Synced(f, PcrAt(p.pid))
<1>1. Sound(f) /\ f \in Filters
  BY DEF Before, Sound
<1>2. SameClock(f, f) /\ SameClock(g, g)
  BY DEF SameClock
<1>3. CASE f.state = "wait"
  <2>1. r = WaitReady(f, p)
    BY <1>3
  <2> HIDE DEF r
  <2>2. CASE f.stop
    <3>1. r.filter = [f EXCEPT !.retry = TRUE]
      BY <2>1, <2>2 DEF WaitReady, Quit, Result
    <3>2. SameClock(f, r.filter)
      BY <1>1, <3>1 DEF SameClock, Filters
    <3> QED
      BY <2>2, <3>2 DEF r
  <2>3. CASE ~ f.stop /\ ~ (HasPcr(f, p) /\ f.event # None)
    <3>1. r.filter = f \/ r.filter = SavePat(f, p)
      BY <2>1, <2>3 DEF WaitReady, Send, Drop, Result
    <3>2. SameClock(f, SavePat(f, p))
      BY <1>1 DEF SavePat, SameClock, Filters
    <3>3. SameClock(f, r.filter)
      BY <1>2, <3>1, <3>2
    <3> QED
      BY <2>3, <3>3 DEF r
  <2>4. CASE ~ f.stop /\ HasPcr(f, p) /\ f.event # None
    <3>1. p.kind = "ES" /\ p.pid \in EsPids
      BY <2>4, PacketTypes DEF HasPcr
    <3>2. g \in Filters
      BY <1>1, <3>1, PcrType, SyncedStep DEF Sound
    <3>3. \/ r = Drop(g) \/ r = Quit(g) \/ r = StartStreaming(g, p)
      BY <2>1, <2>4, <3>1 DEF WaitReady
    <3> HIDE DEF g
    <3>4. \/ r.filter = g \/ r.filter = [g EXCEPT !.state = "streaming", !.last_pat = None]
      BY <3>3 DEF Drop, Quit, StartStreaming, Abort, Result
    <3>5. SameClock(g, [g EXCEPT !.state = "streaming", !.last_pat = None])
      BY <3>2 DEF SameClock, Filters
    <3>6. SameClock(g, r.filter)
      BY <1>2, <3>4, <3>5
    <3> QED
      BY <2>4, <3>6 DEF g, r
  <2> QED
    BY <2>2, <2>3, <2>4
<1>4. CASE f.state = "streaming"
  <2>1. r = DoStreaming(f, p)
    BY <1>4
  <2>2. f.event # None
    BY <1>4 DEF Before
  <2> HIDE DEF r
  <2>3. CASE f.stop
    <3>1. r.filter = f
      BY <2>1, <2>3 DEF DoStreaming, Done, Quit, Result
    <3> QED
      BY <1>2, <2>3, <3>1 DEF r
  <2>4. CASE ~ f.stop /\ ~ HasPcr(f, p)
    <3>1. r = Send(f, p) \/ r = PassOn(f, p)
      BY <2>1, <2>4 DEF DoStreaming
    <3>2. r.filter = f
      BY <3>1, PassOnFilter DEF Send, Result
    <3> QED
      BY <1>2, <2>4, <3>2 DEF r
  <2>5. CASE ~ f.stop /\ HasPcr(f, p)
    <3>1. r = Send(g, p) \/ r = Quit(g) \/ r = PassOn(g, p)
      BY <2>1, <2>5 DEF DoStreaming, HasPcr
    <3> HIDE DEF g
    <3>2. r.filter = g
      BY <3>1, PassOnFilter DEF Send, Quit, Result
    <3> QED
      BY <1>2, <2>2, <2>5, <3>2 DEF r, g
  <2> QED
    BY <2>3, <2>4, <2>5
<1> QED
  BY <1>3, <1>4

\* A PCR, where none wraps around.
LEMMA PcrOfTick ==
    ASSUME PcrsInRange, IInv, NEW pid \in EsPids, EventTimes # {}
    PROVE  PcrAt(pid) = first_pcr[pid] + t
<1>1. /\ first_pcr \in FirstPcrs /\ t \in Nat /\ t <= MaxTime /\ MaxTime \in Nat
      /\ PcrUpperBound \in Nat /\ PcrUpperBound > 0
  BY ProgramAssumption, PcrAssumption DEF IInv, TypeOK
<1>2. first_pcr[pid] \in Nat
  BY <1>1, ProgramAssumption DEF Pcrs
<1>3. first_pcr[pid] + MaxTime < PcrUpperBound
  BY <1>1 DEF PcrsInRange
<1> DEFINE x == first_pcr[pid] + t
<1>4. x \in Nat /\ x < PcrUpperBound
  BY <1>1, <1>2, <1>3
<1> HIDE DEF x
<1>5. x % PcrUpperBound = x
  BY <1>1, <1>4, SMT
<1> QED
  BY <1>5 DEF x, PcrAt

\* The clock after it took a PCR.
LEMMA SyncedClock ==
    ASSUME PcrsInRange, IInv, NEW f, Sound(f), NEW p \in Packets, HasPcr(f, p),
           f.event # None, Accurate(f), HalfReady(f, since_pcr)
    PROVE  LET g == Synced(f, PcrAt(p.pid))
           IN  /\ Accurate(g) /\ HalfReady(g, 0)
               /\ Ready(f) => Ready(g)
               /\ g.pcr_pid = f.pcr_pid /\ g.event = f.event /\ g.stop = f.stop
<1> DEFINE pcr == PcrAt(p.pid)
           g == Synced(f, pcr)
           u == UpdateClockPcr(f, pcr)
<1>1. p.pid \in EsPids /\ p.pid = f.pcr_pid /\ p.pid # None
  BY PacketTypes, ProgramAssumption DEF HasPcr
<1>2. f \in Filters /\ f.event \in EventTimes /\ f.clock_pid = p.pid
  BY <1>1 DEF Sound, Filters, OwnClock
<1>3. pcr \in Pcrs /\ pcr = first_pcr[p.pid] + t
  BY <1>1, <1>2, Parts, PcrType, PcrOfTick
<1>4. first_pcr \in FirstPcrs /\ first_pcr[p.pid] \in Int
  BY <1>1, ProgramAssumption, Parts DEF Pcrs
<1>5. t \in Nat /\ since_pcr \in Nat /\ since_pcr <= MaxPcrInterval
  BY ProgramAssumption DEF IInv, TypeOK
<1>6. CASE Ready(f)
  <2>1. g = f
    BY <1>6 DEF Synced, NeedClockSync, Ready
  <2>2. HalfReady(f, 0)
    BY <1>6 DEF HalfReady, Ready
  <2> QED
    BY <1>6, <2>1, <2>2
<1>7. CASE ~ Ready(f)
  <2>1. g = u
    BY <1>7 DEF Synced, NeedClockSync, Ready
  <2>2. /\ Sound(u) /\ u.stop = f.stop
        /\ u.event = f.event /\ u.pcr_pid = f.pcr_pid /\ u.clock_pid = f.clock_pid
        /\ u.clock_pcr = pcr /\ u.pcr_ready = TRUE
        /\ u.clock_time = f.clock_time /\ u.time_ready = f.time_ready
    BY <1>3, ClockPcrStep
  <2> HIDE DEF g, u, pcr
  <2>3. Taken(u) = t /\ ClockTick(u) = ClockTick(f)
    BY <1>2, <1>3, <1>4, <1>5, <2>2 DEF Taken, ClockTick
  <2>4. HalfReady(u, 0)
    BY <1>5, <2>2, <2>3 DEF HalfReady
  <2>5. Accurate(u)
    <3> SUFFICES ASSUME Ready(u) PROVE Accurate(u)
      BY DEF Accurate
    <3>1. f.time_ready /\ ~ f.pcr_ready
      BY <1>7, <2>2 DEF Ready
    <3>2. ClockTick(f) <= t /\ t - ClockTick(f) <= MaxEitInterval + (TicksPerMs - 1) + since_pcr
      BY <3>1 DEF HalfReady
    <3>3. /\ ClockTick(f) \in Int
          /\ MaxPcrInterval \in Nat /\ MaxEitInterval \in Nat /\ TicksPerMs \in Nat
          /\ TicksPerMs > 0
          /\ Tolerance = MaxPcrInterval + MaxEitInterval + (TicksPerMs - 1)
      BY <1>2, <1>4, ClockNumbers
    <3>4. t - ClockTick(f) >= - MaxPcrInterval /\ t - ClockTick(f) <= Tolerance
      BY <1>5, <3>2, <3>3
    <3> QED
      BY <2>3, <3>4 DEF Accurate
  <2> QED
    BY <1>7, <2>1, <2>2, <2>4, <2>5 DEF g, pcr
<1> QED
  BY <1>6, <1>7

\* The times of the clock do not depend on what HandlePacket changes.
LEMMA ClockPrimed ==
    ASSUME t' = t, first_pcr' = first_pcr
    PROVE  /\ Accurate(filter)' <=> Accurate(filter')
           /\ HalfReady(filter, since_pcr)' <=> HalfReady(filter', since_pcr')
  BY DEF Accurate, HalfReady, Ready, Taken, ClockTick, Tolerance

LEMMA ClockPacketStep ==
    ASSUME PcrsInRange, SyncsInTime, IInv, ClockInv, HandlePacket
    PROVE  ClockInv'
<1>1. run = "up" /\ t' = t /\ first_pcr' = first_pcr
  BY PacketParts
<1>2. PICK p \in Packets : \E n :
                 /\ filter' = Handle(p).filter
                 /\ Delivered(Handle(p), n)
                 /\ tested' = HasPcr(filter', p)
                 /\ since_pcr' = IF HasPcr(filter', p) THEN 0 ELSE since_pcr
                 /\ since_eit' = IF p.kind \in {"EIT", "OtherEIT"} THEN 0 ELSE since_eit
  BY PacketParts
<1>3. PICK n : /\ filter' = Handle(p).filter
               /\ Delivered(Handle(p), n)
               /\ since_pcr' = IF HasPcr(filter', p) THEN 0 ELSE since_pcr
               /\ since_eit' = IF p.kind \in {"EIT", "OtherEIT"} THEN 0 ELSE since_eit
  BY <1>2
<1> DEFINE f == Demux(filter, p)
           g == filter'
           s == Synced(f, PcrAt(p.pid))
<1>4. Before(f, p) /\ (f.state = "wait" \/ f.state = "streaming") /\ f.state = filter.state
  BY <1>1, BeforePacket
<1>5. Closed(f, g, p)
  BY <1>1, <1>3, HandleStep
<1>6. /\ Accurate(f) /\ HalfReady(f, since_pcr)
      /\ EsPids = {ClockPid} => Ready(f)
  BY <1>1, DemuxClock
<1>7. g = (IF f.state = "wait" THEN WaitReady(f, p) ELSE DoStreaming(f, p)).filter
  BY <1>3 DEF Handle
<1>8. t \in 0..MaxTime /\ first_pcr \in FirstPcrs
  BY Parts
<1>9. Sound(f)
  BY <1>4 DEF Before
<1>10. \/ /\ SameClock(f, g)
          /\ f.stop \/ ~ HasPcr(f, p) \/ f.event = None
       \/ /\ HasPcr(f, p) /\ f.event # None
          /\ SameClock(s, g)
  <2> HIDE DEF f, g
  <2> QED
    BY <1>4, <1>7, <1>8, ClockEffect
<1>11. run' = "up" => ~ g.stop
  BY <1>5 DEF Closed
<1> HIDE DEF f, g
<1>12. /\ Accurate(g) /\ (run' = "up" => HalfReady(g, since_pcr'))
       /\ (EsPids = {ClockPid} => Ready(g))
       /\ g.event = f.event /\ g.stop = f.stop
  <2>1. CASE /\ SameClock(f, g)
             /\ f.stop \/ ~ HasPcr(f, p) \/ f.event = None
    <3>1. /\ Accurate(g) /\ HalfReady(g, since_pcr) /\ (Ready(g) <=> Ready(f))
          /\ g.event = f.event /\ g.stop = f.stop /\ g.pcr_pid = f.pcr_pid
      BY <1>6, <2>1, SameClockInv DEF SameClock
    <3>2. CASE ~ HasPcr(f, p)
      <4>1. since_pcr' = since_pcr
        BY <1>3, <3>1, <3>2 DEF HasPcr, g
      <4> QED
        BY <1>6, <3>1, <4>1
    <3>3. CASE f.stop
      BY <1>6, <1>11, <3>1, <3>3
    <3>4. CASE f.event = None
      <4>1. HalfReady(g, since_pcr')
        BY <3>1, <3>4 DEF HalfReady
      <4> QED
        BY <1>6, <3>1, <4>1
    <3> QED
      BY <2>1, <3>2, <3>3, <3>4
  <2>2. CASE HasPcr(f, p) /\ f.event # None /\ SameClock(s, g)
    <3>1. /\ Accurate(s) /\ HalfReady(s, 0) /\ (Ready(f) => Ready(s))
          /\ s.pcr_pid = f.pcr_pid /\ s.event = f.event /\ s.stop = f.stop
      BY <1>6, <1>9, <2>2, SyncedClock
    <3> HIDE DEF s
    <3>2. /\ Accurate(g) /\ HalfReady(g, 0) /\ (Ready(g) <=> Ready(s))
          /\ g.event = s.event /\ g.stop = s.stop /\ g.pcr_pid = s.pcr_pid
      BY <2>2, <3>1, SameClockInv DEF SameClock
    <3>3. since_pcr' = 0
      BY <1>3, <2>2, <3>1, <3>2 DEF HasPcr, g
    <3> QED
      BY <1>6, <3>1, <3>2, <3>3
  <2> QED
    BY <1>10, <2>1, <2>2
<1>13. ASSUME WaitUntil = None, run' = "up", g.event = None
       PROVE  since_eit' = t
  <2>1. f.event = None /\ ~ f.stop
    BY <1>11, <1>12, <1>13
  <2>2. Kept(filter, f)
    BY <1>8, Parts, DemuxStep DEF f
  <2>3. filter.event = None
    BY <2>1, <2>2 DEF Kept
  <2>4. since_eit = t
    BY <1>1, <1>13, <2>3 DEF ClockInv, Unannounced
  <2>5. f.state = "wait" /\ filter.state = "wait"
    BY <1>4, <2>1 DEF Before
  <2>6. p.kind # "EIT"
    <3> SUFFICES ASSUME p.kind = "EIT" PROVE FALSE
      OBVIOUS
    <3>1. f = HandleEit(filter, p)
      BY DEF f, Demux
    <3> QED
      BY <2>1, <3>1, Parts, EitStep
  <2>7. p.kind # "OtherEIT"
    <3> SUFFICES ASSUME p.kind = "OtherEIT" PROVE FALSE
      OBVIOUS
    <3>1. f = HandleOtherEit(filter, p)
      BY DEF f, Demux
    <3>2. p.events \in 0..2
      BY DEF Packets
    <3>3. p.events = 0 \/ p.events = 1 \/ p.events = 2
      BY <3>2
    <3>4. f = Stop(filter)
      BY <1>13, <2>5, <3>1, <3>3 DEF HandleOtherEit
    <3> QED
      BY <2>1, <3>4, Parts, StopStep
  <2> QED
    BY <1>3, <2>4, <2>6, <2>7
<1>14. Unannounced'
  BY <1>1, <1>12, <1>13 DEF Unannounced, Ready, g
<1> QED
  BY <1>1, <1>12, <1>14, ClockPrimed DEF ClockInv, g

LEMMA ClockTickStep ==
    ASSUME IInv, ClockInv, Tick
    PROVE  ClockInv'
<1>1. /\ run' = run /\ filter' = filter /\ first_pcr' = first_pcr /\ run = "up"
  BY DEF Tick
<1>2. /\ t' = t + 1 /\ since_eit' = since_eit + 1
      /\ since_pcr' = IF filter.pcr_pid = None THEN 0 ELSE since_pcr + 1
  BY DEF Tick
<1>3. /\ filter \in Filters /\ first_pcr \in FirstPcrs /\ OwnClock(filter)
      /\ t \in Nat /\ since_pcr \in Nat /\ since_eit \in Nat
  BY Parts, ProgramAssumption DEF IInv, Sound, TypeOK
<1>4. /\ Taken(filter) \in Int /\ ClockTick(filter) \in Int
      /\ MaxEitInterval \in Nat /\ TicksPerMs \in Nat
  BY <1>3, ClockNumbers
<1>5. Taken(filter)' = Taken(filter) /\ ClockTick(filter)' = ClockTick(filter)
      /\ (Ready(filter)' <=> Ready(filter))
  BY <1>1 DEF Taken, ClockTick, Ready
<1>6. Accurate(filter)'
  BY <1>5 DEF ClockInv, Accurate, Tolerance
<1>7. HalfReady(filter, since_pcr)'
  <2>1. CASE Ready(filter)
    BY <1>1, <2>1 DEF HalfReady, Ready
  <2>2. CASE ~ Ready(filter)
    <3>1. since_pcr' = since_pcr + 1
      BY <1>2, <1>3, <2>2 DEF OwnClock
    <3>2. HalfReady(filter, since_pcr)
      BY <1>1 DEF ClockInv
    <3>3. ASSUME filter.pcr_ready, ~ filter.time_ready
          PROVE  filter.event # None /\ Taken(filter) = t' - since_pcr'
      BY <1>2, <1>3, <1>4, <3>1, <3>2, <3>3 DEF HalfReady
    <3>4. ASSUME ~ filter.pcr_ready, filter.time_ready
          PROVE  /\ ClockTick(filter) <= t'
                 /\ filter.event # None =>
                       t' - ClockTick(filter) <= MaxEitInterval + (TicksPerMs - 1) + since_pcr'
      <4>1. /\ ClockTick(filter) <= t
            /\ filter.event # None =>
                  t - ClockTick(filter) <= MaxEitInterval + (TicksPerMs - 1) + since_pcr
        BY <3>2, <3>4 DEF HalfReady
      <4> QED
        BY <1>2, <1>3, <1>4, <3>1, <4>1
    <3> QED
      BY <1>1, <1>5, <3>3, <3>4 DEF HalfReady
  <2> QED
    BY <2>1, <2>2
<1>8. Unannounced'
  BY <1>1, <1>2, <1>3, <1>5 DEF ClockInv, Unannounced
<1> QED
  BY <1>6, <1>7, <1>8 DEF ClockInv

LEMMA ClockEndStep ==
    ASSUME ClockInv, End
    PROVE  ClockInv'
<1>1. run' = "ended" /\ filter' = filter /\ first_pcr' = first_pcr
  BY DEF End, stream
<1> QED
  BY <1>1 DEF ClockInv, Accurate, Ready, Taken, ClockTick, Tolerance, Unannounced

LEMMA ClockStutter ==
    ASSUME ClockInv, UNCHANGED vars
    PROVE  ClockInv'
<1>1. /\ run' = run /\ filter' = filter /\ first_pcr' = first_pcr
      /\ t' = t /\ since_pcr' = since_pcr /\ since_eit' = since_eit
  BY DEF vars, stream
<1> QED
  BY <1>1
  DEF ClockInv, Accurate, HalfReady, Ready, Taken, ClockTick, Tolerance, Unannounced

LEMMA ClockInitially == Init => ClockInv
<1> SUFFICES ASSUME Init PROVE ClockInv
  OBVIOUS
<1>1. /\ t = 0 /\ since_eit = 0 /\ first_pcr \in FirstPcrs
      /\ filter.clock_pid = ClockPid /\ filter.clock_pcr = first_pcr[ClockPid]
      /\ filter.clock_time = 0 /\ filter.pcr_ready = TRUE /\ filter.time_ready = TRUE
  BY DEF Init
<1>2. first_pcr[ClockPid] \in Int /\ filter \in Filters
  BY <1>1, ProgramAssumption, Initially, Parts DEF Pcrs, Sound
<1>3. Taken(filter) = 0 /\ ClockTick(filter) = 0
  BY <1>1, <1>2, PcrAssumption DEF Taken, ClockTick
<1>4. MaxPcrInterval \in Nat /\ Tolerance \in Nat
  BY <1>1, <1>2, ClockNumbers
<1>5. Accurate(filter)
  BY <1>3, <1>4 DEF Accurate
<1>6. HalfReady(filter, since_pcr) /\ Unannounced
  BY <1>1 DEF HalfReady, Unannounced, Ready
<1> QED
  BY <1>5, <1>6 DEF ClockInv

\* Numbers that are less than twice the divisor.
LEMMA SmallMod ==
    ASSUME NEW b \in Nat \ {0}, NEW y \in Nat, y < b + b
    PROVE  y % b = IF y < b THEN y ELSE y - b
<1> DEFINE q == y \div b
           r == y % b
<1>1. q \in Nat /\ r \in Nat /\ r < b
  BY SMT
<1>2. y = b * q + r
  BY SMT
<1> HIDE DEF q, r
<1>3. ASSUME q >= 2 PROVE FALSE
  <2>1. b * q = b + b + b * (q - 2) /\ b * (q - 2) \in Nat
    BY <1>1, <1>3, SMT
  <2> QED
    BY <1>1, <1>2, <2>1
<1>4. q = 0 \/ q = 1
  BY <1>1, <1>3
<1>5. b * 0 = 0 /\ b * 1 = b
  BY SMT
<1>6. r = IF y < b THEN y ELSE y - b
  BY <1>1, <1>2, <1>4, <1>5
<1> QED
  BY <1>6 DEF r

\* ComparePcr is right if the first PCR has not wrapped around and the second,
\* less than half the range away from it, is not before PCR 0.
LEMMA CompareSign ==
    ASSUME NEW a \in Nat, a < PcrUpperBound, NEW y \in Nat,
           2 * (a - y) < PcrUpperBound, 2 * (y - a) < PcrUpperBound
    PROVE  /\ ComparePcr(a, y % PcrUpperBound) < 0 <=> a < y
           /\ ComparePcr(a, y % PcrUpperBound) >= 0 <=> a >= y
<1>1. PcrUpperBound \in Nat \ {0}
  BY PcrAssumption
<1>2. y < PcrUpperBound + PcrUpperBound
  BY <1>1
<1>3. y % PcrUpperBound = IF y < PcrUpperBound THEN y ELSE y - PcrUpperBound
  BY <1>1, <1>2, SmallMod
<1> DEFINE z == y % PcrUpperBound
<1> HIDE DEF z
<1>4. z = IF y < PcrUpperBound THEN y ELSE y - PcrUpperBound
  BY <1>3 DEF z
<1>5. (ComparePcr(a, z) < 0 <=> a < y) /\ (ComparePcr(a, z) >= 0 <=> a >= y)
  BY <1>1, <1>4 DEF ComparePcr, Abs
<1> QED
  BY <1>5 DEF z

\* A comparison with the PCR of the start or the end is one of ticks, but for
\* the error of the clock.
LEMMA ComparesTicks ==
    ASSUME PcrsInRange, IInv, ClockInv, Ready(filter), filter.event # None,
           NEW time \in {filter.event.start, filter.event.end}
    PROVE  LET c == ComparePcr(ClockPcr, ConvertTimeToPcr(filter, time))
               e == Taken(filter) - ClockTick(filter)
           IN  /\ c < 0 <=> t < time * TicksPerMs + e
               /\ c >= 0 <=> t >= time * TicksPerMs + e
<1> DEFINE e == Taken(filter) - ClockTick(filter)
           T == time * TicksPerMs
           a == first_pcr[filter.clock_pid]
           y == filter.clock_pcr + (time - filter.clock_time) * TicksPerMs
<1>1. /\ filter \in Filters /\ first_pcr \in FirstPcrs /\ filter.clock_pid \in EsPids
      /\ filter.event \in EventTimes
  BY Parts DEF Sound, Filters
<1>2. /\ t \in Nat /\ t <= MaxTime /\ MaxTime \in Nat
      /\ PcrUpperBound \in Nat /\ PcrUpperBound > 0 /\ TicksPerMs \in Nat
      /\ time \in Int
  BY <1>1, ProgramAssumption, PcrAssumption DEF IInv, TypeOK
<1>3. /\ a \in Nat /\ filter.clock_pcr \in Int /\ filter.clock_time \in Int
  BY <1>1, ProgramAssumption, PcrAssumption DEF Filters, Pcrs
<1>4. ClockPcr = a + t
  BY <1>1, PcrOfTick DEF ClockPcr
<1>5. /\ Taken(filter) \in Int /\ ClockTick(filter) \in Int
      /\ MaxPcrInterval \in Nat /\ Tolerance \in Nat
  BY <1>1, ClockNumbers
<1>6. e \in Int /\ e >= - MaxPcrInterval /\ e <= Tolerance
  BY <1>5 DEF ClockInv, Accurate
<1>7. /\ a + MaxTime < PcrUpperBound
      /\ a + T >= MaxPcrInterval
      /\ 2 * (T + Tolerance) < PcrUpperBound
      /\ 2 * (MaxTime - T + MaxPcrInterval) < PcrUpperBound
  BY <1>1 DEF PcrsInRange
<1>8. y = a + T + e
  <2>1. (time - filter.clock_time) * TicksPerMs
           = time * TicksPerMs - filter.clock_time * TicksPerMs
    BY <1>2, <1>3
  <2>2. T \in Int /\ filter.clock_time * TicksPerMs \in Int
    BY <1>2, <1>3
  <2>3. e = (filter.clock_pcr - a) - filter.clock_time * TicksPerMs
    BY DEF Taken, ClockTick
  <2> QED
    BY <1>3, <2>1, <2>2, <2>3
<1>9. T \in Int
  BY <1>2
<1>10. ConvertTimeToPcr(filter, time) = y % PcrUpperBound
  BY DEF ConvertTimeToPcr
<1> HIDE DEF e, T, a, y
<1>11. /\ y \in Nat /\ a + t \in Nat /\ a + t < PcrUpperBound
       /\ 2 * ((a + t) - y) < PcrUpperBound /\ 2 * (y - (a + t)) < PcrUpperBound
  BY <1>2, <1>3, <1>5, <1>6, <1>7, <1>8, <1>9
<1> DEFINE c == ComparePcr(a + t, y % PcrUpperBound)
<1>12. (c < 0 <=> a + t < y) /\ (c >= 0 <=> a + t >= y)
  BY <1>11, CompareSign
<1> HIDE DEF c
<1>13. (c < 0 <=> t < T + e) /\ (c >= 0 <=> t >= T + e)
  BY <1>2, <1>3, <1>6, <1>8, <1>9, <1>12
<1> QED
  BY <1>4, <1>10, <1>13 DEF c, e, T

\* Both ends of the PCR range.
LEMMA RangeInTicks ==
    ASSUME PcrsInRange, IInv, ClockInv, Decided
    PROVE  \E e \in Int :
              /\ - MaxPcrInterval <= e /\ e <= Tolerance
              /\ ComparePcr(ClockPcr, filter.start_pcr) >= 0 <=> t >= StartTick + e
              /\ ComparePcr(ClockPcr, filter.end_pcr) < 0 <=> t < EndTick + e
<1> DEFINE e == Taken(filter) - ClockTick(filter)
<1>1. Ready(filter) /\ filter.event # None
  BY DEF Decided, NeedClockSync, Ready
<1>2. /\ filter.start_pcr = ConvertTimeToPcr(filter, filter.event.start)
      /\ filter.end_pcr = ConvertTimeToPcr(filter, filter.event.end)
  BY <1>1 DEF IInv, Ranged
<1>3. /\ Taken(filter) \in Int /\ ClockTick(filter) \in Int
      /\ MaxPcrInterval \in Nat /\ Tolerance \in Nat
  BY Parts, ClockNumbers DEF Sound
<1>4. e \in Int /\ - MaxPcrInterval <= e /\ e <= Tolerance
  BY <1>1, <1>3 DEF ClockInv, Accurate
<1>5. ComparePcr(ClockPcr, filter.start_pcr) >= 0 <=> t >= StartTick + e
  BY <1>1, <1>2, ComparesTicks DEF StartTick
<1>6. ComparePcr(ClockPcr, filter.end_pcr) < 0 <=> t < EndTick + e
  BY <1>1, <1>2, ComparesTicks DEF EndTick
<1> HIDE DEF e
<1> QED
  BY <1>4, <1>5, <1>6

\* The numbers of an event.
LEMMA EventNumbers ==
    ASSUME IInv, Decided
    PROVE  /\ StartTick \in Int /\ EndTick \in Int /\ t \in Int
           /\ MaxPcrInterval \in Nat /\ Tolerance \in Nat
<1>1. filter.event \in EventTimes /\ TicksPerMs \in Nat
  BY Parts, PcrAssumption DEF Decided, Sound, Filters
<1>2. filter.event.start \in Int /\ filter.event.end \in Int
  BY <1>1, ProgramAssumption
<1>3. t \in Int /\ MaxPcrInterval \in Nat /\ Tolerance \in Nat
  BY Parts, ClockNumbers DEF Sound
<1> QED
  BY <1>1, <1>2, <1>3 DEF StartTick, EndTick

LEMMA ClockInvariance ==
    ASSUME PcrsInRange, SyncsInTime
    PROVE  Spec => [](IInv /\ ClockInv)
<1>1. Init => IInv /\ ClockInv
  BY Initially, ClockInitially
<1>2. IInv /\ ClockInv /\ [Next]_vars => IInv' /\ ClockInv'
  BY Preserved, ClockPacketStep, ClockTickStep, ClockEndStep, ClockStutter DEF Next
<1> QED
  BY <1>1, <1>2, PTL DEF Spec

\* WaitReady and DoStreaming: no stream begins before the program's start nor
\* goes on after its end, but for the tolerance of the clock, however the
\* program is moved and the PCR PID changes.  Where PCRs wrap around ComparePcr
\* is wrong, and where a program that is not announced is waited for a clock may
\* be synchronized with a TOT of long ago: hence the two conditions.
THEOREM AlwaysInTime ==
    ASSUME PcrsInRange, SyncsInTime
    PROVE  Spec => []InTime
<1>1. IInv /\ ClockInv => InTime
  <2> SUFFICES ASSUME IInv, ClockInv, Decided, sent_pids # {}
               PROVE  t < EndTick + Tolerance /\ (~ begun => t >= StartTick - MaxPcrInterval)
    BY DEF InTime
  <2>1. PICK e \in Int :
              /\ - MaxPcrInterval <= e /\ e <= Tolerance
              /\ ComparePcr(ClockPcr, filter.start_pcr) >= 0 <=> t >= StartTick + e
              /\ ComparePcr(ClockPcr, filter.end_pcr) < 0 <=> t < EndTick + e
    BY RangeInTicks
  <2>2. t < EndTick + e /\ (~ begun => t >= StartTick + e)
    BY <2>1 DEF IInv, Decisions
  <2>3. - MaxPcrInterval <= e /\ e <= Tolerance
    BY <2>1
  <2> QED
    BY <2>2, <2>3, EventNumbers
<1> QED
  BY <1>1, ClockInvariance, PTL

\* WaitReady and DoStreaming: a PCR between the start and the end of the program,
\* but for the tolerance of the clock, never leaves the filter waiting and never
\* ends it, under the same two conditions.
THEOREM OnAirAlwaysStreamed ==
    ASSUME PcrsInRange, SyncsInTime
    PROVE  Spec => []OnAirStreamed
<1>1. IInv /\ ClockInv => OnAirStreamed
  <2> SUFFICES ASSUME IInv, ClockInv, Decided, ~ filter.stop,
                      run \notin {"aborted", "refused"},
                      t >= StartTick + Tolerance, t < EndTick - MaxPcrInterval
               PROVE  run = "up" /\ filter.state = "streaming"
    BY DEF OnAirStreamed
  <2>1. PICK e \in Int :
              /\ - MaxPcrInterval <= e /\ e <= Tolerance
              /\ ComparePcr(ClockPcr, filter.start_pcr) >= 0 <=> t >= StartTick + e
              /\ ComparePcr(ClockPcr, filter.end_pcr) < 0 <=> t < EndTick + e
    BY RangeInTicks
  <2>2. - MaxPcrInterval <= e /\ e <= Tolerance
    BY <2>1
  <2>3. t >= StartTick + e /\ t < EndTick + e
    BY <2>2, EventNumbers
  <2> QED
    BY <2>1, <2>3 DEF IInv, Decisions
<1> QED
  BY <1>1, ClockInvariance, PTL
=============================================================================
