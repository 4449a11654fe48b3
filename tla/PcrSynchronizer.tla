--------------------------- MODULE PcrSynchronizer ---------------------------
(***************************************************************************)
(* PcrSynchronizer (pcr_synchronizer.hh), the sink of `sync-clocks`: it    *)
(* follows the PAT, the SDT and the PMTs to the PCR PIDs of the services,  *)
(* waits for a TOT and then takes one PCR of each PID.                     *)
(*                                                                         *)
(* The stream carries its current tables again and again; the              *)
(* demultiplexer reports one once, and again when it changes or when its   *)
(* PID is removed and added.  TOTs have no version and are all reported.   *)
(* A PCR stands for the time it was taken, relative to the TOT in time_.   *)
(***************************************************************************)
EXTENDS Integers, FiniteSets, Functions

CONSTANTS
    Sids,                    \* the services with a PMT in the stream
    IncludedSids,            \* option_.sids
    ExcludedSids,            \* option_.xsids
    PatPid, SdtPid, TotPid,  \* ts::PID_PAT, ts::PID_SDT, ts::PID_TOT
    NullPid,                 \* ts::PID_NULL
    Pats,                    \* PATs: functions from some services to PMT PIDs
    Sdts,                    \* SDTs: the services that IsAudioVideoService accepts
    PcrPids,                 \* PCR PIDs a PMT may name
    Changing,                \* which tables change: some of "PAT", "SDT", "PMT"
    MaxChanges,              \* bound: changes of tables
    TotInterval,             \* ticks from one TOT to the next
    PcrInterval,             \* ticks between two PCRs, at most, if Regular
    Regular,                 \* no PCR is left out
    MaxError                 \* bound: larger distances of PCR and TOT are the same

PmtPids == UNION {Range(p) : p \in Pats}

\* The services of a PAT that the options let pass.
Wanted(p) == {s \in DOMAIN p : /\ IncludedSids = {} \/ s \in IncludedSids
                               /\ ExcludedSids = {} \/ s \notin ExcludedSids}

SynchronizerAssumption ==
    /\ IsFiniteSet(Sids) /\ 0 \notin Sids
    /\ \A p \in Pats : Wanted(p) \subseteq Sids
    /\ PatPid # SdtPid /\ PatPid # TotPid /\ SdtPid # TotPid
    /\ {PatPid, SdtPid, TotPid} \cap (PmtPids \cup PcrPids) = {}
    /\ NullPid \notin PmtPids \cup {PatPid, SdtPid, TotPid}
    /\ Changing \subseteq {"PAT", "SDT", "PMT"}
    /\ PcrInterval \in Nat \ {0} /\ TotInterval \in Nat /\ TotInterval > PcrInterval
    /\ Regular \in BOOLEAN /\ MaxChanges \in Nat /\ MaxError \in Nat

VARIABLES
    \* The stream.
    pat, sdt,     \* the current PAT and SDT
    pmts,         \* the PCR PID in the current PMT of each service
    changes,      \* changes so far
    since_tot,    \* ticks since the last TOT
    since_pcr,    \* ticks since the last PCR of each PID
    \* The synchronizer.
    run,          \* what FeedPackets does: "up" or "ended"
    demuxed,      \* the PIDs demux_ looks at
    reported,     \* the tables demux_ has reported as they are now
    pmt_pids,     \* pmt_pids_
    pmt_count,    \* pmt_count_
    pcr_pid_map,  \* pcr_pid_map_
    pcr_pids,     \* pcr_pids_
    pcr_map,      \* pcr_map_: the time of each PCR, relative to time_
    time,         \* time_: how long ago that was, MaxError if there is none
    started,      \* started_
    done,         \* done_
    known         \* the PAT and the SDT last reported, and the PMTs since that PAT

stream == <<pat, sdt, pmts, changes, since_tot, since_pcr>>
collected == <<pmt_pids, pmt_count, pcr_pid_map, pcr_pids, pcr_map, time, started>>
vars == <<stream, run, demuxed, reported, collected, done, known>>

Nothing == << >>

Init ==
    /\ pat \in Pats
    /\ sdt \in Sdts
    /\ pmts \in [Sids -> PcrPids]
    /\ changes = 0
    /\ since_tot \in 0..TotInterval
    /\ since_pcr = [p \in PcrPids \ {NullPid} |-> 0]
    /\ run = "up"
    /\ demuxed = {PatPid}
    /\ reported = {}
    /\ pmt_pids = Nothing
    /\ pmt_count = 0
    /\ pcr_pid_map = Nothing
    /\ pcr_pids = {}
    /\ pcr_map = Nothing
    /\ time = MaxError
    /\ started = FALSE
    /\ done = FALSE
    /\ known = [pat |-> Nothing, sdt |-> {}, pmts |-> Nothing]

-----------------------------------------------------------------------------
(* The tables. *)

\* A packet that completes a table, on a PID the demultiplexer looks at.
Reports(pid, ext) ==
    /\ run = "up"
    /\ pid \in demuxed
    /\ <<pid, ext>> \notin reported

\* demux_.removePID
Without(pids, rs) == {r \in rs : r[1] \notin pids}

\* After demux_.feedPacket: HandlePacket goes on unless done_ is set.
Ends == run' = IF done' THEN "ended" ELSE "up"

\* The PIDs ResetStates removes.
Removed == {TotPid, SdtPid} \cup Range(pmt_pids)

\* A mutant: the count of PMTs is not reset.
CountAfterReset_Kept == pmt_count

\* A mutant: started_ is not reset.
StartedAfterReset_Kept == started

\* What ResetStates makes of pmt_count_, pcr_map_ and started_.
CountAfterReset == 0

PcrsAfterReset == Nothing

StartedAfterReset == FALSE

\* HandlePat and ResetStates.  The maps are only reset if there were services,
\* which is when there is anything in them.
HandlePat ==
    /\ Reports(PatPid, 0)
    /\ LET reset == pmt_pids # Nothing
           gone == IF reset THEN Removed ELSE {}
       IN  /\ pmt_pids' = Restrict(pat, Wanted(pat))
           /\ demuxed' = (demuxed \ gone) \cup {SdtPid}
           /\ reported' = Without(gone, reported) \cup {<<PatPid, 0>>}
           /\ IF reset
              THEN /\ pmt_count' = CountAfterReset
                   /\ pcr_pid_map' = Nothing
                   /\ pcr_pids' = {}
                   /\ pcr_map' = PcrsAfterReset
                   /\ started' = StartedAfterReset
              ELSE UNCHANGED <<pmt_count, pcr_pid_map, pcr_pids, pcr_map, started>>
    /\ done' = (pmt_pids' = Nothing)
    /\ Ends
    /\ known' = [known EXCEPT !.pat = pat, !.pmts = Nothing,
                              !.sdt = IF pmt_pids # Nothing THEN {} ELSE @]
    /\ UNCHANGED <<stream, time>>

HandleSdt ==
    /\ Reports(SdtPid, 0)
    /\ LET services == DOMAIN pmt_pids \cap sdt
       IN  /\ pmt_count' = pmt_count + Cardinality(services)
           /\ demuxed' = demuxed \cup {pmt_pids[s] : s \in services}
    /\ reported' = reported \cup {<<SdtPid, 0>>}
    /\ known' = [known EXCEPT !.sdt = sdt]
    /\ UNCHANGED <<stream, run, pmt_pids, pcr_pid_map, pcr_pids, pcr_map, time, started, done>>

\* The PMT is for a service of the PAT, on the PID the PAT gives.
Matches(pid, s) == s \in DOMAIN pmt_pids /\ pmt_pids[s] = pid

AllPmts(map) == Cardinality(DOMAIN map) = pmt_count

\* The PMT of a service, on its own PID or, by mistake, on another one.
HandlePmt(pid, s) ==
    /\ Reports(pid, s)
    /\ reported' = reported \cup {<<pid, s>>}
    /\ IF Matches(pid, s)
       THEN /\ pcr_pid_map' = [x \in DOMAIN pcr_pid_map \cup {s} |->
                                 IF x = s THEN pmts[s] ELSE pcr_pid_map[x]]
            /\ pcr_pids' = pcr_pids \cup ({pmts[s]} \ {NullPid})
            /\ demuxed' = demuxed \cup (IF AllPmts(pcr_pid_map') THEN {TotPid} ELSE {})
       ELSE UNCHANGED <<pcr_pid_map, pcr_pids, demuxed>>
    /\ known' = IF s \in DOMAIN known.pat /\ known.pat[s] = pid
                THEN [known EXCEPT !.pmts = [x \in DOMAIN known.pmts \cup {s} |->
                                               IF x = s THEN pmts[s] ELSE known.pmts[x]]]
                ELSE known
    /\ UNCHANGED <<stream, run, pmt_pids, pmt_count, pcr_map, time, started, done>>

Saturated(n) == IF n < -MaxError THEN -MaxError ELSE IF n > MaxError THEN MaxError ELSE n

\* A TOT, reported or not; HandleTime.
HandleTot ==
    /\ run = "up"
    /\ since_tot = TotInterval
    /\ since_tot' = 0
    /\ IF TotPid \in demuxed
       THEN /\ started' = TRUE
            /\ pcr_map' = [p \in DOMAIN pcr_map |-> Saturated(pcr_map[p] - time)]
            /\ time' = 0
       ELSE UNCHANGED <<started, pcr_map, time>>
    /\ UNCHANGED <<pat, sdt, pmts, changes, since_pcr, run, demuxed, reported, pmt_pids,
                   pmt_count, pcr_pid_map, pcr_pids, done, known>>

-----------------------------------------------------------------------------
(* The packets. *)

\* The PIDs with PCRs: those the current PMTs name.
Carried == Range(pmts) \ {NullPid}

\* The PCR of the PID has not been taken.
IsWanted(pid) == started /\ pid \in pcr_pids /\ pid \notin DOMAIN pcr_map

\* A packet with a valid PCR: HandlePacket after the demultiplexer.
HandlePcr(pid) ==
    /\ run = "up"
    /\ pid \in Carried
    /\ since_pcr' = [since_pcr EXCEPT ![pid] = 0]
    /\ pcr_map' = IF IsWanted(pid)
                  THEN [p \in DOMAIN pcr_map \cup {pid} |->
                          IF p = pid THEN time ELSE pcr_map[p]]
                  ELSE pcr_map
    /\ done' = (IsWanted(pid) /\ DOMAIN pcr_map' = pcr_pids)
    /\ Ends
    /\ UNCHANGED <<pat, sdt, pmts, changes, since_tot, demuxed, reported, pmt_pids,
                   pmt_count, pcr_pid_map, pcr_pids, time, started, known>>

\* The end of the input.
End ==
    /\ run = "up"
    /\ run' = "ended"
    /\ UNCHANGED <<stream, demuxed, reported, collected, done, known>>

-----------------------------------------------------------------------------
(* The stream. *)

Tick ==
    /\ run = "up"
    /\ since_tot < TotInterval
    /\ Regular => \A p \in Carried : since_pcr[p] < PcrInterval
    /\ since_tot' = since_tot + 1
    /\ since_pcr' = [p \in DOMAIN since_pcr |->
                     IF Regular /\ p \in Carried THEN since_pcr[p] + 1 ELSE 0]
    /\ time' = Saturated(time + 1)
    /\ UNCHANGED <<pat, sdt, pmts, changes, run, demuxed, reported, pmt_pids, pmt_count,
                   pcr_pid_map, pcr_pids, pcr_map, started, done, known>>

\* A new version of a table.
Change ==
    /\ run = "up"
    /\ changes < MaxChanges
    /\ changes' = changes + 1
    /\ \/ /\ "PAT" \in Changing
          /\ pat' \in Pats \ {pat}
          /\ reported' = Without({PatPid}, reported)
          /\ UNCHANGED <<sdt, pmts>>
       \/ /\ "SDT" \in Changing
          /\ sdt' \in Sdts
          /\ reported' = Without({SdtPid}, reported)
          /\ UNCHANGED <<pat, pmts>>
       \/ /\ "PMT" \in Changing
          /\ \E s \in Sids : /\ pmts' \in {[pmts EXCEPT ![s] = p] : p \in PcrPids \ {pmts[s]}}
                             /\ reported' = {r \in reported : r[2] # s}
          /\ UNCHANGED <<pat, sdt>>
    /\ UNCHANGED <<since_tot, since_pcr, run, demuxed, collected, done, known>>

\* The PMTs the stream carries: where the PAT says, or on another PMT's PID.
Pmt == \E s \in Sids, pid \in PmtPids : HandlePmt(pid, s)
RightPmt(s) == s \in DOMAIN pat /\ HandlePmt(pat[s], s)

Next == \/ HandlePat \/ HandleSdt \/ Pmt \/ HandleTot \/ (\E p \in PcrPids \ {NullPid} : HandlePcr(p))
        \/ End \/ Tick \/ Change

Spec == Init /\ [][Next]_vars

-----------------------------------------------------------------------------
(* Properties. *)

\* The type invariant.
TypeOK ==
    /\ run \in {"up", "ended"}
    /\ demuxed \subseteq PmtPids \cup {PatPid, SdtPid, TotPid}
    /\ DOMAIN pmt_pids \subseteq Sids /\ Range(pmt_pids) \subseteq PmtPids
    /\ pmt_count \in Nat
    /\ DOMAIN pcr_pid_map \subseteq Sids /\ Range(pcr_pid_map) \subseteq PcrPids
    /\ pcr_pids \subseteq PcrPids \ {NullPid}
    /\ DOMAIN pcr_map \subseteq pcr_pids /\ Range(pcr_map) \subseteq -MaxError..MaxError
    /\ time \in 0..MaxError
    /\ started \in BOOLEAN /\ done \in BOOLEAN

\* The services the last PAT and SDT announced and the options let pass.
Announced == Wanted(known.pat) \cap known.sdt

\* What End prints: a clock for each service whose PCR PID has a PCR.
Output == {s \in DOMAIN pcr_pid_map : pcr_pid_map[s] \in DOMAIN pcr_map}

\* If it ends by itself, every service announced by the PAT and the SDT has
\* been followed to its PMT, and the output has a clock for each that has a PCR
\* PID, of that PID and no other, whatever PATs came before.
OutputComplete ==
    done => /\ Announced \subseteq DOMAIN known.pmts
            /\ Output = {s \in Announced : known.pmts[s] # NullPid}
            /\ \A s \in Output : pcr_pid_map[s] = known.pmts[s]

\* "with accuracy within 1 second": every PCR printed was taken at the time
\* printed, up to the interval of the PCRs, whichever service had to wait.
Accurate ==
    done => \A s \in Output : pcr_map[pcr_pid_map[s]] \in 0..PcrInterval

\* The stream has clocks to offer.
HasClocks == \E s \in Wanted(pat) \cap sdt : pmts[s] # NullPid

=============================================================================
