----------------------------- MODULE PesPrinter -----------------------------
(***************************************************************************)
(* PesPrinter (pes_printer.hh), the sink of `print-pes`, on the stream of  *)
(* one service: it keeps a clock for each PCR PID and prints each PCR and  *)
(* each PTS or DTS with the time that its clock gives it.                  *)
(*                                                                         *)
(* The service changes its PMT, and with it the PID of its PCRs, whose     *)
(* values then have another origin.  A new PMT comes before the packets it *)
(* describes.  CAT and EIT are printed and change nothing; sids_, by which *)
(* an EIT is printed, has an element exactly when pmt_pids_ has one.       *)
(***************************************************************************)
EXTENDS Clock

CONSTANTS
    PatPid, PmtPid,  \* the PIDs of PAT and PMT
    PcrPids,         \* PCR PIDs a PMT may name, besides NoPid
    Origins,         \* PCRs at time 0: functions from PcrPids to PCRs
    EsPid,           \* the PID of the service's packets with PTS and DTS
    MaxAhead,        \* a PTS is at most so far ahead of the PCRs, in ticks
    PcrInterval,     \* from a PCR to the next, at most, in ticks
    StrangePats,     \* whether PATs also come on another PID: a set of Booleans
    MaxTicks,        \* bound: ticks the stream lasts
    MaxChanges       \* bound: changes of PAT and PMT

PrinterAssumption ==
    /\ {PcrUpperBound, MaxAhead, PcrInterval, MaxTicks, MaxChanges} \subseteq Nat
    /\ TicksPerMs \in Nat \ {0} /\ TicksPerSec \in Nat /\ PcrInterval < TicksPerSec
    /\ Origins \subseteq [PcrPids -> Pcrs]
    /\ PatPid # PmtPid /\ EsPid \notin {PatPid, PmtPid}
    /\ NoPid \notin {PatPid, PmtPid, EsPid}
    /\ {PatPid, PmtPid, EsPid, NoPid} \cap PcrPids = {}
    /\ StrangePats \subseteq BOOLEAN

VARIABLES
    ticks, origin,  \* the time in the stream; the PCRs at time 0
    since_pcr,      \* ticks since the last PCR
    strange,        \* PATs also come on another PID
    listed,         \* the PAT lists the service
    pcr_pid,        \* the PCR PID in the PMT, NoPid if there is none
    changes,        \* changes so far
    run,            \* what FeedPackets does: "up" or "ended"
    demuxed,        \* those of PatPid and PmtPid demux_ looks at
    reported,       \* those whose table demux_ has reported as it is
    pmt_pids,       \* pmt_pids_
    clock_map,      \* clock_map_
    stream_map,     \* stream_map_: the PCR PID of EsPid, if it is there
    current,        \* the PMT last reported, if any, is the one the stream has
    error           \* the time in the last line printed, less the time it should be;
                    \* 0 if the line has none

stream == <<ticks, origin, since_pcr, strange, listed, pcr_pid, changes>>
tables == <<demuxed, reported, pmt_pids, stream_map, current>>
vars == <<stream, run, tables, clock_map, error>>

Init ==
    /\ ticks = 0 /\ origin \in Origins /\ since_pcr = 0
    /\ strange \in StrangePats /\ listed = TRUE /\ pcr_pid \in PcrPids \cup {NoPid} /\ changes = 0
    /\ run = "up"
    /\ demuxed = {PatPid} /\ reported = {} /\ pmt_pids = {}
    /\ clock_map = << >> /\ stream_map = << >> /\ current = FALSE
    /\ error = 0

\* The PCR of a PID at a time.
PcrAt(pid, t) == (origin[pid] + t) % PcrUpperBound

\* Print, for a PCR, PTS or DTS that stands for time t.
PrintTime(clocks, pid, t) ==
    error' = IF pid \in DOMAIN clocks /\ IsReady(clocks[pid])
             THEN PcrToTime(clocks[pid], PcrAt(pcr_pid, t)) - Quotient(t, TicksPerMs)
             ELSE 0

Reports(pid) == run = "up" /\ pid \in demuxed \ reported /\ UNCHANGED stream /\ error' = 0

\* A mutant: the PMT is not looked at any more.
Followed_Removed(pids) == pids \ pmt_pids

\* ResetStates, and the PMT PIDs of the PAT.
Followed(pids) == (pids \ pmt_pids) \cup {PmtPid}

HandlePat ==
    /\ Reports(PatPid)
    /\ demuxed' = IF listed THEN Followed(demuxed) ELSE demuxed \ pmt_pids
    /\ reported' = (reported \ pmt_pids) \cup {PatPid}
    /\ pmt_pids' = IF listed THEN {PmtPid} ELSE {}
    /\ run' = IF listed THEN "up" ELSE "ended"
    /\ UNCHANGED <<clock_map, stream_map, current>>

\* A PAT on a PID that is not the PAT's: the states are reset, and that is all.
HandleStrangePat ==
    /\ strange /\ run = "up"
    /\ demuxed' = demuxed \ pmt_pids
    /\ reported' = reported \ pmt_pids
    /\ pmt_pids' = {} /\ error' = 0
    /\ UNCHANGED <<stream, run, clock_map, stream_map, current>>

\* A mutant: the clock of the PID stays.
Clocks_Kept == IF pcr_pid \in DOMAIN clock_map \cup {NoPid} THEN clock_map
               ELSE [p \in DOMAIN clock_map \cup {pcr_pid} |->
                       IF p = pcr_pid THEN SetPid(NewClock, p) ELSE clock_map[p]]

\* clock_map_ with a new clock for the PID in the PMT.
Clocks == [p \in DOMAIN clock_map \cup ({pcr_pid} \ {NoPid}) |->
             IF p = pcr_pid THEN SetPid(NewClock, p) ELSE clock_map[p]]

StreamsOfPmt == [p \in {EsPid} |-> pcr_pid]

HandlePmt ==
    /\ Reports(PmtPid)
    /\ reported' = reported \cup {PmtPid}
    /\ clock_map' = Clocks
    /\ stream_map' = StreamsOfPmt
    /\ current' = TRUE
    /\ UNCHANGED <<run, demuxed, pmt_pids>>

HandleTot ==
    /\ run = "up"
    /\ clock_map' = [p \in DOMAIN clock_map |->
                       UpdateTime(clock_map[p], Quotient(ticks, TicksPerMs), 0)]
    /\ error' = 0
    /\ UNCHANGED <<stream, run, tables>>

\* Packets may come at any time but between a new PMT and its report, if the
\* printer is to see it at all: before the first PMT, and while a PMT that has
\* been reported already is awaited again after a PAT.
Described ==
    PmtPid \in demuxed => current \/ EsPid \notin DOMAIN stream_map

\* HandlePacket for a packet with a PCR; unknown PIDs are not printed.
HandlePcr ==
    /\ run = "up" /\ Described /\ pcr_pid # NoPid
    /\ since_pcr' = 0
    /\ IF pcr_pid \in DOMAIN clock_map
       THEN /\ clock_map' = [clock_map EXCEPT ![pcr_pid] = UpdatePcr(@, PcrAt(pcr_pid, ticks))]
            /\ PrintTime(clock_map', pcr_pid, ticks)
       ELSE UNCHANGED <<clock_map, error>>
    /\ UNCHANGED <<ticks, origin, strange, listed, pcr_pid, changes, run, tables>>

\* HandlePacket for a packet with a PTS or a DTS, a little ahead of the PCRs.
HandlePts ==
    /\ run = "up" /\ Described /\ pcr_pid # NoPid
    /\ \E d \in 0..MaxAhead :
          PrintTime(clock_map, IF EsPid \in DOMAIN stream_map THEN stream_map[EsPid] ELSE NoPid,
                    ticks + d)
    /\ UNCHANGED <<stream, run, tables, clock_map>>

Tick ==
    /\ run = "up" /\ ticks < MaxTicks
    /\ ticks' = ticks + 1
    /\ IF pcr_pid = NoPid THEN since_pcr' = 0
       ELSE since_pcr < PcrInterval /\ since_pcr' = since_pcr + 1
    /\ UNCHANGED <<origin, strange, listed, pcr_pid, changes, run, tables, clock_map, error>>

\* A new version of the PAT or of the PMT.
Change ==
    /\ run = "up" /\ changes < MaxChanges
    /\ changes' = changes + 1
    /\ \/ /\ listed' \in BOOLEAN
          /\ reported' = reported \ {PatPid}
          /\ UNCHANGED <<pcr_pid, current>>
       \/ /\ pcr_pid' \in PcrPids \cup {NoPid}
          /\ reported' = reported \ {PmtPid} /\ current' = FALSE
          /\ UNCHANGED listed
    /\ UNCHANGED <<ticks, origin, since_pcr, strange, run, demuxed, pmt_pids, clock_map,
                   stream_map, error>>

Next == \/ HandlePat \/ HandleStrangePat \/ HandlePmt \/ HandleTot
        \/ HandlePcr \/ HandlePts \/ Tick \/ Change

Spec == Init /\ [][Next]_vars
-----------------------------------------------------------------------------
\* While the printer follows the PMT, the datetime printed with a PCR, PTS or
\* DTS is the time of the stream it stands for, up to the interval of the PCRs
\* and what is lost where times are cut to milliseconds: twice in the datetime,
\* once in the time itself.  So each stream is printed with the clock of its own
\* PCRs, no clock outlives a change of the PMT, and what ResetStates leaves in
\* clock_map_ does no harm.
DatetimeAccurate ==
    PmtPid \in demuxed =>
        error * TicksPerMs \in -(PcrInterval + 2 * (TicksPerMs - 1))..
                                (PcrInterval + TicksPerMs - 1)

\* The PMT the stream has is printed, or nothing is any more.
Shown == PmtPid \in reported \/ run = "ended"
=============================================================================
