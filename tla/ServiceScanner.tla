--------------------------- MODULE ServiceScanner ---------------------------
(***************************************************************************)
(* ServiceScanner (service_scanner.hh), the sink of `scan-services`: it    *)
(* waits for a PAT, an SDT and a NIT and prints the services that the PAT  *)
(* and the SDT agree on, with the remote control key of the NIT.           *)
(*                                                                         *)
(* The stream repeats its current tables; the demultiplexer reports one    *)
(* once, and again when it changes or when its PID is removed and added.   *)
(* A NIT may also be on the standard PID of a stream whose PAT names       *)
(* another one.  A NIT stands for the PID it came from.                    *)
(***************************************************************************)
EXTENDS Integers

CONSTANTS
    IncludedSids,   \* option_.sids
    ExcludedSids,   \* option_.xsids
    PatPid, SdtPid, NitPid,  \* ts::PID_PAT, ts::PID_SDT, ts::PID_NIT
    NullPid,        \* ts::PID_NULL
    None,           \* no table
    Pats,           \* PATs: [tsid0 : ts_id is 0, nit_pid : where the NIT is, sids]
    Sdts,           \* SDTs: [tsid0 : ts_id is 0, types : a function from sids]
    NitMoves,       \* a NIT on a PID of its own may move
    MaxChanges      \* bound: changes of PAT and SDT

ScannerAssumption ==
    /\ PatPid # SdtPid /\ NitPid \notin {PatPid, SdtPid}
    /\ NullPid \notin {PatPid, SdtPid, NitPid}
    /\ \A p \in Pats : p.tsid0 \in BOOLEAN /\ p.nit_pid \notin {PatPid, SdtPid, None}
    /\ \A s \in Sdts : s.tsid0 \in BOOLEAN
    /\ None \notin Pats /\ None \notin Sdts /\ None # NitPid
    /\ NitMoves \in BOOLEAN /\ MaxChanges \in Nat

VARIABLES
    stream_pat, stream_sdt,  \* the tables in the stream
    changes,                 \* changes so far
    run,                     \* what FeedPackets does: "up" or "ended"
    demuxed,                 \* the PIDs demux_ looks at
    reported,                \* the PIDs whose table demux_ has reported as it is
    pat, sdt, nit,           \* pat_, sdt_ and nit_
    output                   \* what End prints

stream == <<stream_pat, stream_sdt, changes>>
vars == <<stream, run, demuxed, reported, pat, sdt, nit, output>>

Nothing == [services |-> {}, key |-> None]

Init ==
    /\ stream_pat \in Pats
    /\ stream_sdt \in Sdts
    /\ changes = 0
    /\ run = "up"
    /\ demuxed = {PatPid, NitPid, SdtPid}
    /\ reported = {}
    /\ pat = None /\ sdt = None /\ nit = None
    /\ output = Nothing

\* Does the PAT name a PID of its own for the NIT?
NonStandard(p) == p.nit_pid \notin {NullPid, NitPid}

Selected(s) ==
    /\ IncludedSids = {} \/ s \in IncludedSids
    /\ ExcludedSids = {} \/ s \notin ExcludedSids

IsAudioVideoService(type) == type \in {1, 2, 161, 162, 165, 166, 173}

\* CollectServices, with the type of each service.
Collected(p, d) ==
    {<<s, d.types[s]>> : s \in {t \in p.sids \cap DOMAIN d.types :
                                   Selected(t) /\ IsAudioVideoService(d.types[t])}}

Completed(p, d, n) == None \notin {p, d, n}

\* The end of HandlePacket, after the tables have become p, d and n, and End.
Ends(p, d, n) ==
    /\ pat' = p /\ sdt' = d /\ nit' = n
    /\ IF Completed(p, d, n)
       THEN run' = "ended" /\ output' = [services |-> Collected(p, d), key |-> n]
       ELSE UNCHANGED <<run, output>>

Reports(pid) ==
    /\ run = "up" /\ pid \in demuxed \ reported
    /\ UNCHANGED stream

\* A mutant: a NIT received before the PAT is kept.
NitAfter_Kept(p) == nit

NitAfter(p) == IF NonStandard(p) THEN None ELSE nit

Demuxed(p) == (demuxed \ {NitPid}) \cup {p.nit_pid}

HandlePat ==
    /\ Reports(PatPid)
    /\ IF stream_pat.tsid0
       THEN /\ reported' = reported \cup {PatPid}
            /\ UNCHANGED demuxed
            /\ Ends(pat, sdt, nit)
       ELSE /\ demuxed' = IF NonStandard(stream_pat) THEN Demuxed(stream_pat) ELSE demuxed
            /\ reported' = (reported \cup {PatPid}) \cap demuxed'
            /\ Ends(stream_pat, sdt, NitAfter(stream_pat))

\* The PIDs that carry a NIT.
NitPids == {NitPid} \cup ({stream_pat.nit_pid} \ {NullPid})

HandleNit(p) ==
    /\ Reports(p) /\ p \in NitPids
    /\ reported' = reported \cup {p}
    /\ Ends(pat, sdt, p)
    /\ UNCHANGED demuxed

HandleSdt ==
    /\ Reports(SdtPid)
    /\ reported' = reported \cup {SdtPid}
    /\ Ends(pat, IF stream_sdt.tsid0 THEN sdt ELSE stream_sdt, nit)
    /\ UNCHANGED demuxed

\* The input ends: End prints nothing, for the tables are not complete.
EndOfInput ==
    /\ run = "up"
    /\ run' = "ended"
    /\ UNCHANGED <<stream, demuxed, reported, pat, sdt, nit, output>>

Changes ==
    /\ run = "up" /\ changes < MaxChanges
    /\ changes' = changes + 1
    /\ UNCHANGED <<run, demuxed, pat, sdt, nit, output>>

ChangePat ==
    /\ Changes
    /\ stream_pat' \in Pats \ {stream_pat}
    /\ NitMoves \/ ~ NonStandard(stream_pat) \/ stream_pat'.nit_pid = stream_pat.nit_pid
    /\ reported' = reported \ {PatPid}
    /\ UNCHANGED stream_sdt

ChangeSdt ==
    /\ Changes
    /\ stream_sdt' \in Sdts \ {stream_sdt}
    /\ reported' = reported \ {SdtPid}
    /\ UNCHANGED stream_pat

Next ==
    \/ HandlePat \/ HandleSdt \/ \E p \in NitPids : HandleNit(p)
    \/ ChangePat \/ ChangeSdt \/ EndOfInput

Spec == Init /\ [][Next]_vars
-----------------------------------------------------------------------------
\* The types; demux_ always looks at the PAT, the SDT and some NIT.
TypeOK ==
    /\ stream_pat \in Pats /\ stream_sdt \in Sdts /\ changes \in 0..MaxChanges
    /\ run \in {"up", "ended"}
    /\ {PatPid, SdtPid} \subseteq demuxed /\ reported \subseteq demuxed
    /\ demuxed \ {PatPid, SdtPid} # {}
    /\ pat \in Pats \cup {None} /\ sdt \in Sdts \cup {None}
    /\ nit \in demuxed \cup {None}

\* The remote control key comes from the network the PAT names: a NIT that was
\* received before the PAT, on the standard PID, is never printed with a PAT
\* that names another one (HandlePat's nit_.reset()).
KeyFromPat ==
    output # Nothing =>
        output.key = IF NonStandard(pat) THEN pat.nit_pid ELSE NitPid

\* The stream has a PAT or an SDT that the handlers skip.
Skipped == stream_pat.tsid0 \/ stream_sdt.tsid0

\* HandlePat has reset a NIT that demux_ will not report again: the PAT has a
\* new version, and the NIT on the PID it names has not.
Forgotten == pat # None /\ NonStandard(pat) /\ pat.nit_pid \in reported /\ nit = None
=============================================================================
