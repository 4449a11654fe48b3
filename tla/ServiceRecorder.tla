--------------------------- MODULE ServiceRecorder ---------------------------
(***************************************************************************)
(* ServiceRecorder (service_recorder.hh): the state machine of             *)
(* `record-service` that follows the PAT, PMT, EIT[p/f] and TOT of one     *)
(* service, hands packets to a ring sink and tells the application, in     *)
(* JSON messages, which part of the ring holds which TV program.           *)
(*                                                                         *)
(* A packet stands for the table it completes, if any.  Of the clock only  *)
(* its PID and its readiness are kept (module ClockStatus): Now() may      *)
(* return anything, so nothing below relies on time being monotonic.  Of   *)
(* an EIT its first event is kept: its id and the time it ends.  A broken  *)
(* table has no effect and is a packet without a table.                    *)
(***************************************************************************)
EXTENDS RingLayout

CONSTANTS
    PmtPids, PcrPids, \* PIDs a PAT, a PMT may name
    EventIds,         \* event_id
    Times,            \* times, integers
    None              \* ts::PID_NULL, a null pointer, an unspecified end time

ASSUME RecorderAssumption ==
    /\ Times \subseteq Int
    /\ None \notin PmtPids \cup PcrPids \cup EventIds \cup Int

VARIABLES
    run,           \* what FeedPackets does: "off", "up", "broken" or "ended"
    state,         \* state_; kDone is never assigned
    pmt_pid,       \* pmt_pid_
    clock,         \* clock_: its PID, and what it has seen since it was set
    eit,           \* eit_
    new_eit,       \* new_eit_
    event_started, \* event_started_
    boundary,      \* event_boundary_time_ and event_boundary_pos_
    on, pos, told, \* the ring sink, see PacketRingSink
    app            \* what the application made of the messages so far

ring == <<on, pos, told>>
tables == <<pmt_pid, clock>>
machine == <<state, eit, new_eit, event_started, boundary>>
vars == <<run, tables, machine, ring, app>>

Sink == INSTANCE PacketRingSink

Clock == INSTANCE ClockStatus WITH Pids <- PcrPids, NoPid <- None

Events == [id : EventIds, end : Times \cup {None}]
Records == [time : Times, pos : Nat]

\* IsUnspecifiedEventEndTime, or the end is still to come.
OnAir(event, now) == event.end = None \/ now < event.end

Init ==
    /\ run = "off"
    /\ state = "preparing"
    /\ pmt_pid = None
    /\ Clock!Init
    /\ eit = None
    /\ new_eit = None
    /\ event_started = FALSE
    /\ boundary = None
    /\ Sink!Init
    /\ app = [open |-> None, seam |-> None, chunk |-> None, known |-> {},
              reset |-> FALSE, faults |-> {}]

-----------------------------------------------------------------------------
(* The messages, as the application takes them.  It keeps the program it   *)
(* believes on the air, the record at which the last one ended (recording  *)
(* began, for the first one), the position of the last chunk, the programs *)
(* it has a record for and whether it has to reset them; "faults" collects *)
(* what it should never see.                                               *)

Fault(bad, name) == IF bad THEN {name} ELSE {}

SendChunkMessage(a, record) ==
    [a EXCEPT !.chunk = record.pos,
              !.seam = IF a.chunk = None THEN record ELSE @,
              !.faults = @ \cup Fault(/\ a.chunk # None
                                     /\ record.pos # NextBoundary(a.chunk), "chunk")]

SendEventStartMessage(a, event, record) ==
    [a EXCEPT !.open = event.id,
              !.known = @ \cup {event.id},
              !.faults = @ \cup Fault(a.open # None, "pairing")
                           \cup Fault(a.seam # record, "seam")]

SendEventEndMessage(a, event, record) ==
    [a EXCEPT !.open = None,
              !.seam = record,
              !.faults = @ \cup Fault(a.open # event.id, "pairing")]

SendEventUpdateMessage(a, event) ==
    [a EXCEPT !.faults = @ \cup Fault(a.open \notin {None, event.id}, "update")
                           \cup Fault(event.id \notin a.known, "unknown")]

SendStopMessage(a, broken) == [a EXCEPT !.reset = broken]

-----------------------------------------------------------------------------
(* The tables and the PCRs. *)

\* A packet: which table it completes, or whether it carries a PCR.
Packets ==
    [kind : {"PAT"}, pid : PmtPids]
    \cup [kind : {"PMT"}, pid : PmtPids, pcr_pid : PcrPids]
    \cup [kind : {"EIT"}, event : Events]
    \cup [kind : {"TOT", "other"}]
    \cup [kind : {"PCR"}, pid : PcrPids]

\* HandlePat: that the PAT lists the service is ensured by ServiceFilter.
HandlePat(p) ==
    /\ p.kind = "PAT"
    /\ pmt_pid' = p.pid
    /\ UNCHANGED clock

\* HandlePmt: only the PID the PAT named is demultiplexed.
HandlePmt(p) ==
    /\ p.kind = "PMT"
    /\ IF p.pid = pmt_pid /\ clock.pid # p.pcr_pid
       THEN Clock!SetPid(p.pcr_pid)
       ELSE UNCHANGED clock
    /\ UNCHANGED pmt_pid

HandleTot(p) ==
    /\ p.kind = "TOT"
    /\ Clock!UpdateTime
    /\ UNCHANGED pmt_pid

\* The PCRs of the clock's PID.
HandlePcr(p) ==
    /\ p.kind = "PCR"
    /\ IF p.pid = clock.pid THEN Clock!UpdatePcr ELSE UNCHANGED clock
    /\ UNCHANGED pmt_pid

\* The PCR handling and demux_.feedPacket.
Demux(p) ==
    \/ HandlePat(p)
    \/ HandlePmt(p)
    \/ HandleTot(p)
    \/ HandlePcr(p)
    \/ p.kind \in {"EIT", "other"} /\ UNCHANGED tables

\* HandleEit: new_eit_ as the state machine finds it.
HandleEit(p) == IF p.kind = "EIT" THEN p.event ELSE new_eit

-----------------------------------------------------------------------------
(* The state machine. *)

\* Packets are dropped until the clock is ready and an EIT has arrived; the
\* packet that completes the two is dropped as well.
OnPreparing(arrived, now) ==
    /\ state = "preparing"
    /\ IF Clock!IsReady(clock') /\ arrived # None
       THEN LET here == [time |-> now, pos |-> pos]
                begun == SendChunkMessage(app, here)
                live == OnAir(arrived, now)
            IN  /\ state' = "recording"
                /\ eit' = arrived
                /\ new_eit' = None
                /\ boundary' = here
                /\ event_started' = live
                /\ app' = IF live THEN SendEventStartMessage(begun, arrived, here)
                          ELSE begun
       ELSE /\ new_eit' = arrived
            /\ UNCHANGED <<state, eit, event_started, boundary, app>>
    /\ UNCHANGED <<run, ring>>

\* Mutants: the end of the ring is not wrapped to 0; the update is about the
\* program before.
OnEndOfChunk_NoWrap(a, event, now) ==
    SendChunkMessage(SendEventUpdateMessage(a, event),
                     [time |-> now, pos |-> pos - (pos % ChunkSize) + ChunkSize])
OnEndOfChunk_StaleEit(a, event, now) ==
    SendChunkMessage(SendEventUpdateMessage(a, eit),
                     [time |-> now, pos |-> Sink!ToldAt(pos)])

\* OnEndOfChunk, called by the sink in the middle of HandlePacket: eit_ has
\* been replaced by then.  `event-update` comes before `chunk`.
OnEndOfChunk(a, event, now) ==
    SendChunkMessage(SendEventUpdateMessage(a, event),
                     [time |-> now, pos |-> Sink!ToldAt(pos)])

\* Now() when it is asked again for the end of a chunk: it may have moved on
\* when it falls back to the local time.
Later(now) == IF Clock!IsReady(clock') THEN {now} ELSE Times

\* sink_->HandlePacket(packet).
FeedSink(a, event, now) ==
    \/ /\ Sink!HandlePacket
       /\ IF Sink!EndsChunk(pos)
          THEN \E later \in Later(now) : app' = OnEndOfChunk(a, event, later)
          ELSE app' = a
       /\ UNCHANGED run
    \/ /\ Sink!Stop(told)
       /\ app' = a
       /\ run' = "broken"
    \/ /\ Sink!EndsChunk(pos)
       /\ Sink!Stop(Sink!ToldAt(pos))
       /\ \E later \in Later(now) : app' = OnEndOfChunk(a, event, later)
       /\ run' = "broken"

\* The EIT that arrived with this packet announces another program; eit_ once
\* it has been taken; the event the record in progress is about, whose data
\* might have changed under the same id.
Changed(arrived) == arrived # None /\ arrived.id # eit.id
Latest(arrived) == IF arrived # None THEN arrived ELSE eit
Current(arrived) == IF Changed(arrived) THEN eit ELSE Latest(arrived)

\* The two ways a program's record ends: the next program is announced before
\* its end time, or its end time is reached.
Switch(arrived) == event_started /\ Changed(arrived)
Over(arrived, now) ==
    event_started /\ ~ Changed(arrived) /\ ~ OnAir(Current(arrived), now)

\* UpdateEventBoundary, if it is called.
UpdateEventBoundary(arrived, now) ==
    CASE Switch(arrived) -> [time |-> now, pos |-> pos]
      [] Over(arrived, now) -> [time |-> Current(arrived).end, pos |-> pos]
      [] OTHER -> boundary

\* `event-end` for the current program, `event-start` for a new one.
SendEventMessages(arrived, seam, now) ==
    LET ended == IF Switch(arrived) \/ Over(arrived, now)
                 THEN SendEventEndMessage(app, Current(arrived), seam) ELSE app
    IN  IF Changed(arrived) THEN SendEventStartMessage(ended, arrived, seam) ELSE ended

\* A mutant: the end of a program is not remembered.
Started_Sticks(arrived, now) == Changed(arrived) \/ event_started

\* event_started_ after the packet: a program that is over waits for the next.
Started(arrived, now) == Changed(arrived) \/ (event_started /\ ~ Over(arrived, now))

\* One packet while recording: the EIT may announce the next program, or the
\* time of the current one may be over, and the packet goes to the sink.
OnRecording(arrived, now) ==
    LET seam == UpdateEventBoundary(arrived, now) IN
    /\ state = "recording"
    /\ eit' = Latest(arrived)
    /\ new_eit' = None
    /\ boundary' = seam
    /\ event_started' = Started(arrived, now)
    /\ FeedSink(SendEventMessages(arrived, seam, now), Latest(arrived), now)
    /\ UNCHANGED state

HandlePacket ==
    /\ run = "up"
    /\ \E p \in Packets, now \in Times :
          /\ Demux(p)
          /\ OnPreparing(HandleEit(p), now) \/ OnRecording(HandleEit(p), now)

\* Start: --start-pos is the start of a chunk.  When SetPosition fails,
\* nothing is sent and the process exits.
Start ==
    /\ run = "off"
    /\ \/ run' = "up" /\ (\E p \in Boundaries : Sink!Start(p))
       \/ run' = "ended" /\ UNCHANGED ring
    /\ UNCHANGED <<tables, machine, app>>

\* End: at the end of the input, or when the sink is broken.
End ==
    /\ run \in {"up", "broken"}
    /\ run' = "ended"
    /\ app' = SendStopMessage(app, run = "broken")
    /\ IF on THEN Sink!Stop(told) ELSE UNCHANGED ring
    /\ UNCHANGED <<tables, machine>>

Next == Start \/ HandlePacket \/ End

Spec == Init /\ [][Next]_vars

-----------------------------------------------------------------------------
(* Properties. *)

\* The type invariant.
TypeOK ==
    /\ run \in {"off", "up", "broken", "ended"}
    /\ state \in {"preparing", "recording"}
    /\ pmt_pid \in PmtPids \cup {None}
    /\ clock \in [pid : PcrPids \cup {None}, pcr : BOOLEAN, time : BOOLEAN]
    /\ eit \in Events \cup {None}
    /\ new_eit \in Events \cup {None}
    /\ event_started \in BOOLEAN
    /\ boundary \in Records \cup {None}
    /\ on \in BOOLEAN
    /\ pos \in 0..(RingSize - 1)
    /\ told \in Boundaries
    /\ app \in [open : EventIds \cup {None}, seam : Records \cup {None},
                chunk : Boundaries \cup {None}, known : SUBSET EventIds,
                reset : BOOLEAN,
                faults : SUBSET {"chunk", "pairing", "seam", "update", "unknown"}]

\* `event-start` and `event-end` alternate and name the same program, however
\* the EITs, the ends of programs and the chunks interleave.
EventsPaired == "pairing" \notin app.faults

\* A program's record starts exactly where the previous one ended, in time
\* and in the ring, or where recording began: "The next TV program always
\* starts at the end of the previous TV program".
SeamlessRecords == "seam" \notin app.faults

\* Chunk after chunk is reported, around the ring, none twice and none left
\* out, from the position recording was started at.
ChunksInSequence == "chunk" \notin app.faults

\* The `event-update` sent for a chunk is about the program on the air, also
\* when that program began with the very packet that completes the chunk.
UpdatesCurrentEvent == "update" \notin app.faults

\* The messages make sense together: events alternate, records join without a
\* gap, chunks come in sequence and updates are about the program on the air.
MessagesConsistent ==
    EventsPaired /\ SeamlessRecords /\ ChunksInSequence /\ UpdatesCurrentEvent

\* The comment in OnEndOfChunk: when no program starts, "the end time of the
\* record for the last TV program (held by `eit_`) is extended", that is,
\* the application has a record for the program an update is about.
UpdatesKnownEvent == "unknown" \notin app.faults

\* ServiceRecorder and the application agree on the program being recorded,
\* and on where its record has to continue from.
AppInStep ==
    run = "up" => /\ app.open = IF event_started THEN eit.id ELSE None
                  /\ app.seam = boundary
                  /\ app.chunk # None => app.chunk = told

=============================================================================
