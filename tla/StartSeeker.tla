----------------------------- MODULE StartSeeker -----------------------------
(***************************************************************************)
(* StartSeeker (start_seeker.hh), the sink of `seek-start`: it keeps the   *)
(* packets it is given until the streams of the service change, and then   *)
(* sends the PAT and what it kept from that point on, or until it has kept *)
(* too many, and then sends them all.                                      *)
(*                                                                         *)
(* A packet is its number in the input, which is also how the              *)
(* demultiplexer counts.  A PMT is one packet, or several of which the     *)
(* last completes it.  Tables the handlers skip (broken, another service)  *)
(* are the same as no table, and so is a table the demultiplexer has       *)
(* reported already.                                                       *)
(***************************************************************************)
EXTENDS Pcr, FiniteSets, Sequences, SequencesExt

CONSTANTS
    PatPid,        \* ts::PID_PAT
    PmtPids,       \* PIDs a PAT may give for the PMT of the service
    PcrPids,       \* PIDs with PCRs
    NullPid,       \* ts::PID_NULL
    Streams,       \* what a PMT may list: [video : set of PIDs, audio : ...]
    MaxDuration,   \* option_.max_duration, in milliseconds
    MaxPackets,    \* option_.max_packets
    FirstPcrs,     \* PCRs the input may start with
    MaxInput,      \* bound: packets in the input
    MaxTicks,      \* bound: ticks the input lasts
    None,          \* no change
    Unlisted       \* stands for the PID in a PAT that does not list the service

\* What LoadOption demands of the options.
LimitGiven == MaxDuration # 0 \/ MaxPackets # 0

NoStreams == [video |-> {}, audio |-> {}]

\* What changed the streams: its first packet and PID, the number and the PMT
\* PID of the last PAT before it, and the streams before and after.
Changes ==
    [first : 0..(MaxInput - 1), pid : PmtPids, pat : (0..(MaxInput - 1)) \X PmtPids,
     old : Streams \cup {NoStreams}, new : Streams]

ASSUME SeekerAssumption ==
    /\ PmtPids \cap PcrPids = {} /\ {PatPid, NullPid, Unlisted} \cap (PmtPids \cup PcrPids) = {}
    /\ PatPid # NullPid
    /\ MaxDuration \in Nat /\ MaxPackets \in Nat /\ MaxInput \in Nat \ {0} /\ MaxTicks \in Nat
    /\ FirstPcrs \subseteq Pcrs
    /\ None \notin Changes
    /\ LimitGiven

VARIABLES
    run,               \* what FeedPackets does: "up", "ended" or "aborted"
    input,             \* the number of packets fed
    state,             \* state_: "kSeek" or "kStreaming"
    packets,           \* packets_
    demuxed,           \* the PIDs demux_ looks at
    partial,           \* the first packet of the PMT demux_ is gathering, or -1
    pmt_pid,           \* pmt_pid_
    pcr_pid,           \* pcr_pid_
    streams,           \* video_pids_ and audio_pids_
    end_pcr,           \* end_pcr_
    transition_index,  \* transition_index_
    pat_index,         \* pat_index_
    out,               \* the packets the sink took
    refused,           \* the sink refused a packet that Seek or End gave it
    ticks,             \* the time in the stream
    first_pcr,         \* the PCR of each PID at time 0
    seek_from,         \* when end_pcr was set, or -1
    origin,            \* the PCR at time 0 of the PID it was set from, or -1
    pcr_at,            \* when the last PCR of the service with that origin came, or -1
    last_pat,          \* the last PAT reported: its number and the PMT PID
    change             \* what changed the streams, or None

tables == <<demuxed, partial, pmt_pid, pcr_pid, streams, transition_index, pat_index>>
time == <<ticks, first_pcr>>
history == <<last_pat, change>>
seeking == <<end_pcr, seek_from, origin>>
vars == <<run, input, state, packets, tables, seeking, out, refused, time, pcr_at, history>>

Init ==
    /\ run = "up"
    /\ input = 0
    /\ state = "kSeek"
    /\ packets = <<>>
    /\ demuxed = {PatPid}
    /\ partial = -1
    /\ pmt_pid = NullPid
    /\ pcr_pid = NullPid
    /\ streams = NoStreams
    /\ end_pcr = -1
    /\ transition_index = 0
    /\ pat_index = 0
    /\ out = <<>>
    /\ refused = FALSE
    /\ ticks = 0
    /\ first_pcr \in [PcrPids -> FirstPcrs]
    /\ seek_from = -1
    /\ origin = -1
    /\ pcr_at = -1
    /\ last_pat = <<-1, NullPid>>
    /\ change = None

\* A packet: its PID, what it carries, and whether its PCR is valid.
Packets ==
    [pid : {PatPid}, kind : {"PAT"}, pmt_pid : PmtPids \cup {Unlisted}]
    \cup [pid : PmtPids, kind : {"PMTstart"}]
    \cup [pid : PmtPids, kind : {"PMT", "PMTend"}, pcr_pid : PcrPids \cup {NullPid},
          streams : Streams]
    \cup [pid : PcrPids, kind : {"PCR", "ES"}]

\* packet.getPCR(): PIDs may have PCRs of their own.
PcrNow(pid) == (first_pcr[pid] + ticks) % PcrUpperBound

-----------------------------------------------------------------------------
(* The tables. *)

\* A mutant: a PAT that does not move the PMT leaves the demultiplexer alone.
Gathered_Kept(pid) == IF pid = pmt_pid THEN partial ELSE -1

\* What is left of a PMT in progress: removePID and addPID start it anew.
Gathered(pid) == -1

\* Aborts if the PAT does not list the service.
HandlePat(p) ==
    /\ p.kind = "PAT"
    /\ IF p.pmt_pid = Unlisted
       THEN UNCHANGED <<demuxed, partial, pmt_pid, pat_index, last_pat>>
       ELSE /\ demuxed' = (demuxed \ {pmt_pid}) \cup {p.pmt_pid}
            /\ partial' = Gathered(p.pmt_pid)
            /\ pmt_pid' = p.pmt_pid
            /\ pat_index' = input
            /\ last_pat' = <<input, p.pmt_pid>>
    /\ UNCHANGED <<pcr_pid, streams, transition_index, change>>

\* The streams have changed: not from none.
Changed(new) ==
    \/ streams.video # {} /\ streams.video # new.video
    \/ streams.audio # {} /\ streams.audio # new.audio

\* table.getFirstTSPacketIndex()
TransitionAt(first) == first

HandlePmt(p) ==
    /\ p.kind = "PMT" \/ (p.kind = "PMTend" /\ partial # -1)
    /\ LET first == IF p.kind = "PMT" THEN input ELSE partial
       IN  IF Changed(p.streams)
           THEN /\ transition_index' = TransitionAt(first)
                /\ demuxed' = demuxed \ {pmt_pid, PatPid}
                /\ pmt_pid' = NullPid
                /\ change' = [first |-> first, pid |-> p.pid, pat |-> last_pat,
                              old |-> streams, new |-> p.streams]
           ELSE UNCHANGED <<transition_index, demuxed, pmt_pid, change>>
    /\ partial' = -1
    /\ pcr_pid' = p.pcr_pid
    /\ streams' = p.streams
    /\ UNCHANGED <<pat_index, last_pat>>

StartPmt(p) ==
    /\ p.kind = "PMTstart"
    /\ partial' = input
    /\ UNCHANGED <<demuxed, pmt_pid, pcr_pid, streams, transition_index, pat_index, history>>

\* demux_.feedPacket; the end of a PMT whose start was not seen is nothing.
Demux(p) ==
    IF p.pid \in demuxed /\ ~ (p.kind = "PMTend" /\ partial = -1)
    THEN HandlePat(p) \/ HandlePmt(p) \/ StartPmt(p)
    ELSE UNCHANGED <<tables, history>>

-----------------------------------------------------------------------------
(* The packets. *)

\* SendPackets: the sink takes some or all of the packets offered, in order; the
\* first it refuses ends the loop.  missed: it refused one before.
Offer(missed, offered) ==
    \E n \in 0..Len(offered) :
        /\ out' = out \o SubSeq(offered, 1, n)
        /\ refused' = (refused \/ missed \/ n < Len(offered))

\* SendPacket(pat_index_), SendPackets(transition_index_): that the sink refuses
\* the PAT is ignored, and the rest is offered all the same.
FromTransition(kept) ==
    LET rest == SubSeq(kept, transition_index' + 1, Len(kept))
    IN  \/ Offer(FALSE, <<kept[pat_index' + 1]>> \o rest)
        \/ Offer(TRUE, rest)

\* A mutant: the limit is passed before it is looked at.
TooMany_After(kept) == MaxPackets # 0 /\ Len(kept) > MaxPackets

TooMany(kept) == MaxPackets # 0 /\ Len(kept) = MaxPackets

\* Whether the packet has a valid PCR of the service.
HasPcr(p) == pcr_pid' # NullPid /\ p.pid = pcr_pid' /\ p.kind = "PCR"

\* A mutant: the end is not reduced modulo kPcrUpperBound.
EndPcr_NotReduced(pid) == PcrNow(pid) + MaxDuration * TicksPerMs

EndPcr(pid) == (PcrNow(pid) + MaxDuration * TicksPerMs) % PcrUpperBound

\* The cases of Seek, in its order.  What the sink says is ignored.
Seek(p) ==
    LET kept == Append(packets, input)
        tooLong == HasPcr(p) /\ end_pcr # -1 /\ ComparePcr(PcrNow(p.pid), end_pcr) >= 0
        flush == TooMany(kept) \/ tooLong
    IN  IF transition_index' > 0 \/ flush
        THEN /\ IF transition_index' > 0 THEN FromTransition(kept) ELSE Offer(FALSE, kept)
             /\ packets' = <<>>
             /\ state' = "kStreaming"
             /\ UNCHANGED seeking
        ELSE /\ packets' = kept
             /\ IF HasPcr(p) /\ end_pcr = -1
                THEN end_pcr' = EndPcr(p.pid) /\ seek_from' = ticks /\ origin' = first_pcr[p.pid]
                ELSE UNCHANGED seeking
             /\ UNCHANGED <<state, out, refused>>

DoStreaming ==
    /\ \/ run' = "up" /\ out' = Append(out, input)
       \/ run' = "ended" /\ UNCHANGED out
    /\ UNCHANGED <<packets, state, seeking, refused>>

HandlePacket ==
    /\ run = "up"
    /\ input < MaxInput
    /\ \E p \in Packets :
          /\ Demux(p)
          /\ IF p.pid \in demuxed /\ p.kind = "PAT" /\ p.pmt_pid = Unlisted
             THEN /\ run' = "aborted"
                  /\ UNCHANGED <<packets, state, seeking, out, refused>>
             ELSE \/ state = "kSeek" /\ Seek(p) /\ run' = "up"
                  \/ state = "kStreaming" /\ DoStreaming
          /\ pcr_at' = IF HasPcr(p) /\ first_pcr[p.pid] = origin' THEN ticks ELSE pcr_at
    /\ input' = input + 1
    /\ UNCHANGED <<ticks, first_pcr>>

\* What End sends.
Unsent == packets

\* The end of the input.
End ==
    /\ run = "up"
    /\ Offer(FALSE, Unsent)
    /\ packets' = <<>>
    /\ run' = "ended"
    /\ UNCHANGED <<input, state, tables, seeking, time, pcr_at, history>>

\* Time passes in the stream.
Tick ==
    /\ run = "up"
    /\ ticks < MaxTicks
    /\ ticks' = ticks + 1
    /\ UNCHANGED <<run, input, state, packets, tables, seeking, out, refused, first_pcr,
                   pcr_at, history>>

Next == HandlePacket \/ End \/ Tick

Spec == Init /\ [][Next]_vars

-----------------------------------------------------------------------------
(* Properties. *)

\* The type invariant.
TypeOK ==
    /\ run \in {"up", "ended", "aborted"}
    /\ input \in 0..MaxInput
    /\ state \in {"kSeek", "kStreaming"}
    /\ packets \in Seq(0..(MaxInput - 1))
    /\ demuxed \subseteq {PatPid} \cup PmtPids
    /\ partial \in -1..(MaxInput - 1)
    /\ pmt_pid \in PmtPids \cup {NullPid}
    /\ pcr_pid \in PcrPids \cup {NullPid}
    /\ streams \in Streams \cup {NoStreams}
    /\ end_pcr \in Pcrs \cup {-1}
    /\ transition_index \in 0..(MaxInput - 1)
    /\ pat_index \in 0..(MaxInput - 1)
    /\ out \in Seq(0..(MaxInput - 1))
    /\ refused \in BOOLEAN

From(i, n) == [k \in 1..(n - i) |-> i + k - 1]

\* Until the sink refuses a packet, the output and what is kept are the whole
\* input, or the input from the first packet of the PMT that changed the
\* streams, after the last PAT before it, which is the PAT that names that PMT.
OutputFromStart ==
    run # "aborted" /\ ~ refused =>
        \/ IsPrefix(out \o packets, From(0, input))
        \/ /\ change # None
           /\ IsPrefix(out, <<change.pat[1]>> \o From(change.first, input))
           /\ change.pat[1] < change.first
           /\ change.pat[2] = change.pid

\* Whatever the sink refuses, it is never given a packet twice or out of order.
OutputInOrder == \A i \in 1..(Len(out) - 1) : out[i] < out[i + 1]

\* At the end nothing is left unsent: all that was fed after the start point has
\* been sent, unless the sink refused it.
AllSentAtEnd ==
    run = "ended" /\ ~ refused =>
        packets = <<>> /\ (input = 0 \/ (out # <<>> /\ Last(out) >= input - 2))

\* A change is reported when streams the service had go away or get company,
\* and only then is anything of the input left out.
OnlyChangesSkip ==
    ~ refused /\ out # <<>> /\ out # From(0, Len(out)) =>
        /\ change # None
        /\ \E k \in {"video", "audio"} : change.old[k] # {} /\ change.old[k] # change.new[k]

\* The output is what it should be: it starts at the right packet, has each once
\* and in order, has all of them at the end, and leaves out none but for a change.
StartCorrect == OutputFromStart /\ OutputInOrder /\ AllSentAtEnd /\ OnlyChangesSkip

\* Seeking is bounded: by the packets kept, as the assertion in Seek says, and
\* by the duration, which the first PCR at or after its end makes take effect.
\* After a change of the PCR PID this is the first PCR that counts like the one
\* the end was computed from: PCRs that count otherwise may end the search at any
\* time, or never.
SeekBounded ==
    run = "up" /\ state = "kSeek" =>
        /\ MaxPackets # 0 => Len(packets) < MaxPackets
        /\ seek_from # -1 => \/ pcr_at = seek_from
                             \/ pcr_at - seek_from < MaxDuration * TicksPerMs
=============================================================================
