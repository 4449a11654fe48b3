---------------------------- MODULE ProgramFilter ----------------------------
(***************************************************************************)
(* ProgramFilter (program_filter.hh) behind a ServiceFilter: hands on the  *)
(* packets of a service while one of its programs is on the air, which it  *)
(* decides by comparing PCRs with the program's times converted to PCRs.   *)
(*                                                                         *)
(* The stream is modelled with its true time: t ticks, from which the PCRs *)
(* of each PID and the times of the TOTs follow.  PCRs and EITs come       *)
(* regularly.  A packet stands for the table it completes, if any ("PSI":  *)
(* one that is skipped); the packets of a PAT are taken as one.  All of    *)
(* the filter's state is one record, and a handler is an operator that     *)
(* returns it changed.                                                     *)
(***************************************************************************)
EXTENDS Pcr, Sequences

CONSTANTS
    PmtPids,         \* PIDs a PAT may name
    EsPids,          \* PIDs of the service's streams; one of them has the PCRs
    BlackLists,      \* PIDs the tags of a PMT's streams may exclude
    ClockPid,        \* option_.clock_pid
    EventTimes,      \* what EITs may say: [start, end], margins included
    WaitUntil,       \* option_.wait_until, or None
    PreStreamings,   \* the values of option_.pre_streaming
    FirstPcrs,       \* PID -> its PCR at time 0, when option_.clock_pcr was taken
    MaxPcrInterval,  \* ticks between two PCRs, at most
    MaxEitInterval,  \* ticks between two EITs, at most
    MaxTime,         \* bound: ticks of the stream
    None

ASSUME ProgramAssumption ==
    /\ BlackLists \subseteq SUBSET EsPids
    /\ ClockPid \in EsPids
    /\ None \notin PmtPids \cup EsPids \cup EventTimes \cup Int
    /\ \A e \in EventTimes : e.start \in Int /\ e.end \in Int
    /\ WaitUntil \in Nat \cup {None}
    /\ PreStreamings \subseteq BOOLEAN
    /\ FirstPcrs \subseteq [EsPids -> Pcrs]
    /\ MaxPcrInterval \in Nat /\ MaxEitInterval \in Nat
    \* "Assumed that the real interval time between the PCR values is less
    \* than half of kPcrUpperBound" (ComparePcr).
    /\ MaxTime \in Nat /\ 2 * MaxTime < PcrUpperBound
    /\ \A e \in EventTimes : \A time \in {e.start, e.end} :
          /\ 2 * time * TicksPerMs < PcrUpperBound
          /\ 2 * (MaxTime - time * TicksPerMs) < PcrUpperBound

VARIABLES
    t,          \* the true time, in ticks
    first_pcr,  \* PID -> its PCR at time 0
    since_pcr,  \* ticks since the last PCR of the service
    since_eit,  \* ticks since the last EIT
    run,        \* what FeedPackets does: "up", "ended", "refused" by the sink,
                \*   or "aborted" by an assertion
    pre_streaming,  \* option_.pre_streaming
    filter,     \* the state of the ProgramFilter
    sent_pids,  \* the PIDs of the streams handed to the sink in this step
    told,       \* the last PAT and PMT handed to the sink: the PMT PID of each
    begun,      \* a packet of a stream was handed to the sink in an earlier step
    tested      \* this step's packet has a PCR of the service

stream == <<t, first_pcr, since_pcr, since_eit>>
vars == <<stream, run, pre_streaming, filter, sent_pids, told, begun, tested>>

NowMs == t \div TicksPerMs

PcrAt(pid) == (first_pcr[pid] + t) % PcrUpperBound

Packets ==
    [kind : {"PAT"}, pid : PmtPids]
    \cup [kind : {"PMT"}, pid : PmtPids, pcr_pid : EsPids, black : BlackLists]
    \cup [kind : {"PMTpart"}, pid : PmtPids]
    \cup [kind : {"EIT"}, event : EventTimes]
    \cup [kind : {"OtherEIT"}, events : 0..2]
    \cup [kind : {"TOT", "PSI"}]
    \cup [kind : {"ES"}, pid : EsPids, pcr : BOOLEAN]

Init ==
    /\ t = 0
    /\ first_pcr \in FirstPcrs
    /\ since_pcr = 0
    /\ since_eit = 0
    /\ run = "up"
    /\ pre_streaming \in PreStreamings
    /\ filter = [state |-> "wait", stop |-> FALSE, retry |-> FALSE,
                 pmt_pid |-> None, pcr_pid |-> None, black |-> {},
                 clock_pid |-> ClockPid, clock_pcr |-> first_pcr[ClockPid], clock_time |-> 0,
                 pcr_ready |-> TRUE, time_ready |-> TRUE,
                 event |-> None, start_pcr |-> 0, end_pcr |-> 0,
                 packetizer |-> None, last_pat |-> None]
    /\ sent_pids = {}
    /\ told = [pat |-> None, pmt |-> None]
    /\ begun = FALSE
    /\ tested = FALSE

-----------------------------------------------------------------------------
(* The clock and the PCR range. *)

NeedClockSync(f) == ~ f.time_ready \/ ~ f.pcr_ready

\* A mutant: the PCR of a time before the clock's is not wrapped.
ConvertTimeToPcr_NoWrap(f, time) == f.clock_pcr + (time - f.clock_time) * TicksPerMs

ConvertTimeToPcr(f, time) ==
    (f.clock_pcr + (time - f.clock_time) * TicksPerMs) % PcrUpperBound

\* UpdatePcrRange, if the clock and the event are known.
UpdatePcrRange(f) ==
    IF f.event # None /\ ~ NeedClockSync(f)
    THEN [f EXCEPT !.start_pcr = ConvertTimeToPcr(f, f.event.start),
                   !.end_pcr = ConvertTimeToPcr(f, f.event.end)]
    ELSE f

\* A mutant: a program that is cut short keeps the PCR of its end.
UpdateEventTime_NoCut(f, event) ==
    LET g == UpdatePcrRange([f EXCEPT !.event = event])
    IN  IF f.event # None /\ event.end < f.event.end
        THEN [g EXCEPT !.end_pcr = f.end_pcr] ELSE g

UpdateEventTime(f, event) == UpdatePcrRange([f EXCEPT !.event = event])

UpdateClockPcr(f, pcr) ==
    UpdatePcrRange([f EXCEPT !.clock_pcr = pcr, !.pcr_ready = TRUE])

UpdateClockTime(f, time) ==
    UpdatePcrRange([f EXCEPT !.clock_time = time, !.time_ready = TRUE])

-----------------------------------------------------------------------------
(* The tables. *)

HandlePat(f, p) == [f EXCEPT !.pmt_pid = p.pid]

\* A mutant: another PCR PID is followed with the clock of the first.
SetPcrPid_NoResync(f, pid) == [f EXCEPT !.pcr_pid = pid]

\* A clock for another PCR PID has to be synchronized.
SetPcrPid(f, pid) ==
    IF f.clock_pid = pid THEN [f EXCEPT !.pcr_pid = pid]
    ELSE [f EXCEPT !.pcr_pid = pid, !.clock_pid = pid,
                   !.pcr_ready = FALSE, !.time_ready = FALSE]

\* HandlePmt, of the PID the PAT named; black holds the PIDs of the video and
\* audio streams whose tags were not asked for.
HandlePmt(f, p) ==
    IF p.pid # f.pmt_pid THEN f
    ELSE [SetPcrPid(f, p.pcr_pid) EXCEPT !.black = p.black, !.packetizer = p.pid]

Stop(f) == [f EXCEPT !.stop = TRUE]

\* HandleEit, if the program is the present or the following event.
HandleEit(f, p) == UpdateEventTime(f, p.event)

\* HandleEit, if the program is none of the present and following events.
HandleOtherEit(f, p) ==
    IF \/ p.events = 0
       \/ p.events = 1 /\ f.state = "wait"
       \/ p.events = 2 /\ f.state = "wait" /\ WaitUntil = None
    THEN Stop(f) ELSE f

\* CheckTimeLimit.
OverTime(f) == f.state = "wait" /\ WaitUntil # None /\ NowMs > WaitUntil

HandleTot(f) ==
    LET limited == IF OverTime(f) THEN Stop(f) ELSE f
    IN  IF f.time_ready THEN limited ELSE UpdateClockTime(limited, NowMs)

\* demux_.feedPacket.
Demux(f, p) ==
    CASE p.kind = "PAT" -> HandlePat(f, p)
      [] p.kind = "PMT" -> HandlePmt(f, p)
      [] p.kind = "EIT" -> HandleEit(f, p)
      [] p.kind = "OtherEIT" -> HandleOtherEit(f, p)
      [] p.kind = "TOT" -> HandleTot(f)
      [] OTHER -> f

-----------------------------------------------------------------------------
(* The packets.  A result is the filter, the packets handed to the sink and *)
(* how HandlePacket returns: true, false, or not at all.                    *)

Result(f, packets, next) == [filter |-> f, sent |-> packets, run |-> next]
Send(f, p) == Result(f, <<p>>, "up")
Drop(f) == Result(f, <<>>, "up")
Quit(f) == Result(f, <<>>, "ended")
Abort(f) == Result(f, <<>>, "aborted")

\* The packet pmt_packetizer_ gives.
PmtPacket(f) == [kind |-> "PMTpart", pid |-> f.packetizer]

HasPcr(f, p) == p.kind = "ES" /\ p.pid = f.pcr_pid /\ p.pcr

\* The clock takes the PCR if it has to.
Synced(f, pcr) == IF NeedClockSync(f) THEN UpdateClockPcr(f, pcr) ELSE f

\* The last PAT, which has not been sent unless tables were streamed before.
PendingPat(f) ==
    IF pre_streaming THEN <<>> ELSE <<[kind |-> "PAT", pid |-> f.last_pat]>>

\* The first packets of the program: the last PAT, the PMT, and this one.
FirstPackets(f, p) ==
    IF pre_streaming THEN <<PmtPacket(f), p>>
    ELSE <<[kind |-> "PAT", pid |-> f.last_pat], PmtPacket(f), p>>

\* The PAT is sent before the PID of the PMT is asserted.
StartStreaming(f, p) ==
    IF ~ pre_streaming /\ f.last_pat = None THEN Abort(f)
    ELSE IF f.packetizer # f.pmt_pid
    THEN Result(f, PendingPat(f), "aborted")
    ELSE Result([f EXCEPT !.state = "streaming", !.last_pat = None],
                FirstPackets(f, p), "up")

\* A mutant: the first PAT is kept.
SavePat_First(f, p) == [f EXCEPT !.last_pat = IF @ = None THEN p.pid ELSE @]

\* last_pat_packets_.
SavePat(f, p) == [f EXCEPT !.last_pat = p.pid]

WaitReady(f, p) ==
    CASE f.stop -> Quit([f EXCEPT !.retry = TRUE])
      [] ~ f.stop /\ p.kind = "PAT" ->
            IF pre_streaming THEN Send(f, p) ELSE Drop(SavePat(f, p))
      [] ~ f.stop /\ HasPcr(f, p) /\ f.event # None ->
            LET pcr == PcrAt(p.pid)
                g == Synced(f, pcr)
            IN  CASE NeedClockSync(g) -> Drop(g)
                  [] ~ NeedClockSync(g) /\ ComparePcr(pcr, g.end_pcr) >= 0 -> Quit(g)
                  [] ~ NeedClockSync(g) /\ ComparePcr(pcr, g.end_pcr) < 0
                       /\ ComparePcr(pcr, g.start_pcr) < 0 -> Drop(g)
                  [] OTHER -> StartStreaming(g, p)
      [] OTHER -> Drop(f)

\* A mutant: the end of a program that was streamed asks for a retry.
Done_Retries(f) == Quit([f EXCEPT !.retry = TRUE])

\* stop_ while streaming.
Done(f) == Quit(f)

\* What is handed on once the PCRs have been tested.
PassOn(f, p) ==
    CASE p.kind \in {"PMT", "PMTpart"} /\ p.pid = f.pmt_pid ->
            IF f.packetizer = f.pmt_pid THEN Send(f, PmtPacket(f)) ELSE Abort(f)
      [] p.kind = "ES" /\ p.pid \in f.black -> Drop(f)
      [] OTHER -> Send(f, p)

DoStreaming(f, p) ==
    LET pcr == PcrAt(p.pid)
        g == Synced(f, pcr)
    IN  CASE f.stop -> Done(f)
          [] ~ f.stop /\ HasPcr(f, p) ->
                CASE NeedClockSync(g) -> Send(g, p)
                  [] ~ NeedClockSync(g) /\ ComparePcr(pcr, g.end_pcr) >= 0 -> Quit(g)
                  [] OTHER -> PassOn(g, p)
          \* "Many PCR packets in a specific channel have no valid PCR..."
          [] ~ f.stop /\ p.kind = "ES" /\ p.pid = f.pcr_pid /\ ~ p.pcr -> Send(f, p)
          [] OTHER -> PassOn(f, p)

\* HandlePacket.
Handle(p) ==
    LET f == Demux(filter, p)
    IN  IF f.state = "wait" THEN WaitReady(f, p) ELSE DoStreaming(f, p)

StreamPids(packets) ==
    {packets[i].pid : i \in {j \in DOMAIN packets : packets[j].kind = "ES"}}

\* What the sink knows after the packets.
Told(packets) ==
    LET pats == {i \in DOMAIN packets : packets[i].kind = "PAT"}
        pmts == {i \in DOMAIN packets : packets[i].kind \in {"PMT", "PMTpart"}}
    IN  [pat |-> IF pats = {} THEN told.pat ELSE packets[CHOOSE i \in pats : TRUE].pid,
         pmt |-> IF pmts = {} THEN told.pmt ELSE packets[CHOOSE i \in pmts : TRUE].pid]

HandlePacket ==
    /\ run = "up"
    /\ \E p \in Packets :
          LET result == Handle(p) IN
          /\ filter' = result.filter
          /\ \E n \in 0..Len(result.sent) :  \* how many packets the sink takes
                LET sent == SubSeq(result.sent, 1, n) IN
                /\ run' = IF sent = result.sent THEN result.run ELSE "refused"
                /\ sent_pids' = StreamPids(sent)
                /\ told' = Told(sent)
          /\ tested' = HasPcr(filter', p)
          /\ since_pcr' = IF HasPcr(filter', p) THEN 0 ELSE since_pcr
          /\ since_eit' = IF p.kind \in {"EIT", "OtherEIT"} THEN 0 ELSE since_eit
    /\ begun' = (begun \/ sent_pids # {})
    /\ UNCHANGED <<t, first_pcr, pre_streaming>>

\* The stream goes on.
Tick ==
    /\ run = "up"
    /\ t < MaxTime
    /\ since_pcr < MaxPcrInterval \/ filter.pcr_pid = None
    /\ since_eit < MaxEitInterval
    /\ t' = t + 1
    /\ since_pcr' = IF filter.pcr_pid = None THEN 0 ELSE since_pcr + 1
    /\ since_eit' = since_eit + 1
    /\ sent_pids' = {}
    /\ begun' = (begun \/ sent_pids # {})
    /\ tested' = FALSE
    /\ UNCHANGED <<first_pcr, run, pre_streaming, filter, told>>

\* The end of the input.
End ==
    /\ run = "up"
    /\ run' = "ended"
    /\ sent_pids' = {}
    /\ begun' = (begun \/ sent_pids # {})
    /\ tested' = FALSE
    /\ UNCHANGED <<stream, pre_streaming, filter, told>>

Next == HandlePacket \/ Tick \/ End

Spec == Init /\ [][Next]_vars

-----------------------------------------------------------------------------
(* Properties. *)

\* The type invariant.
TypeOK ==
    /\ t \in 0..MaxTime
    /\ first_pcr \in FirstPcrs
    /\ since_pcr \in 0..MaxPcrInterval
    /\ since_eit \in 0..MaxEitInterval
    /\ run \in {"up", "ended", "refused", "aborted"}
    /\ pre_streaming \in BOOLEAN
    /\ filter \in [state : {"wait", "streaming"}, stop : BOOLEAN, retry : BOOLEAN,
                   pmt_pid : PmtPids \cup {None}, pcr_pid : EsPids \cup {None},
                   black : SUBSET EsPids, clock_pid : EsPids,
                   clock_pcr : Pcrs, clock_time : 0..MaxTime,
                   pcr_ready : BOOLEAN, time_ready : BOOLEAN,
                   event : EventTimes \cup {None}, start_pcr : Pcrs, end_pcr : Pcrs,
                   packetizer : PmtPids \cup {None}, last_pat : PmtPids \cup {None}]
    /\ told \in [pat : PmtPids \cup {None}, pmt : PmtPids \cup {None}]
    /\ sent_pids \subseteq EsPids
    /\ begun \in BOOLEAN
    /\ tested \in BOOLEAN

\* How late a start or an end may be: the filter takes the first PCR after a
\* TOT for the PCR at the TOT, looks at PCRs only once it knows the event, and
\* a TOT has no parts of a millisecond.
Tolerance == MaxPcrInterval + MaxEitInterval + (TicksPerMs - 1)

\* What ComparePcr needs to be right: no PCR wraps around while the stream
\* lasts, the PCR of a start or an end is not before PCR 0, and all that is
\* compared is less than half of PcrUpperBound apart.
PcrsInRange ==
    \A first \in FirstPcrs, pid \in EsPids, e \in EventTimes :
       /\ first[pid] + MaxTime < PcrUpperBound
       /\ \A time \in {e.start, e.end} :
             /\ first[pid] + time * TicksPerMs >= MaxPcrInterval
             /\ 2 * (time * TicksPerMs + Tolerance) < PcrUpperBound
             /\ 2 * (MaxTime - time * TicksPerMs + MaxPcrInterval) < PcrUpperBound

\* A clock is never synchronized while the program is still unannounced: there
\* is one PCR PID only, or a program that is not announced is given up.
SyncsInTime == WaitUntil = None \/ EsPids = {ClockPid}

\* The times of the event, in ticks.
StartTick == filter.event.start * TicksPerMs
EndTick == filter.event.end * TicksPerMs

\* The clock is good and has just been used.
Decided == tested /\ ~ NeedClockSync(filter) /\ filter.event # None

\* A program is streamed until its end, and a stream is begun after its start,
\* also when the PCR PID changes and the clock has to be synchronized again:
\* "actual start and end times may be delayed about 5 seconds".
InTime ==
    Decided /\ sent_pids # {} =>
        /\ t < EndTick + Tolerance
        /\ ~ begun => t >= StartTick - MaxPcrInterval

\* A program on the air is streamed: a PCR between its start and its end never
\* leaves the filter waiting, and never ends it.
OnAirStreamed ==
    /\ Decided
    /\ ~ filter.stop
    /\ run \notin {"aborted", "refused"}
    /\ t >= StartTick + Tolerance
    /\ t < EndTick - MaxPcrInterval
    => run = "up" /\ filter.state = "streaming"

\* A stream begins with a PAT and the PMT it names.
AnnouncedFirst ==
    sent_pids # {} /\ ~ begun => told.pat # None /\ told.pmt = told.pat

\* The exit code that asks for a retry, "Stopped before the program starts",
\* is never used after something has been streamed.
RetryUnstreamed == filter.retry => ~ begun /\ sent_pids = {}

\* The assertions of WaitReady and DoStreaming about the PAT and the PMT they
\* send hold.
AssertionsHold == run # "aborted"

=============================================================================
