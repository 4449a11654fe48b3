---------------------------- MODULE ServiceFilter ----------------------------
(***************************************************************************)
(* ServiceFilter (service_filter.hh): passes the packets of one service.   *)
(* It follows the PAT to the service's PMT, the PMT to the service's       *)
(* streams and the CAT to the EMMs, and replaces each PAT packet by one    *)
(* that lists this service only.  `filter-service`, `filter-program` and   *)
(* `record-service` all start with it, and the sinks behind it assert what *)
(* it should guarantee.                                                    *)
(*                                                                         *)
(* A packet has a PID and may complete a table, which the demultiplexer    *)
(* reports if it was told to look at that PID.  A broken table has no      *)
(* effect and is the same as none.                                         *)
(***************************************************************************)
EXTENDS FiniteSets

CONSTANTS
    Pids,                    \* the PIDs a packet may have
    PatPid, CatPid, TotPid,  \* ts::PID_PAT, ts::PID_CAT, ts::PID_TOT
    NullPid,                 \* ts::PID_NULL
    PsiFilterPids,           \* kPsiFilterPids
    Sids,                    \* service ids
    Sid,                     \* option_.sid
    HasTimeLimit,            \* option_.time_limit.has_value()
    PmtPids,                 \* sets of PIDs a PMT may name (PCR, ECM, streams)
    CatPids,                 \* sets of PIDs a CAT may name (EMM)
    None                     \* no table, no packet, no PAT

\* A PAT: the PMT PIDs of the services it lists.
Pats == UNION {[S -> Pids] : S \in SUBSET Sids}

ASSUME FilterAssumption ==
    /\ {PatPid, CatPid, TotPid} \subseteq PsiFilterPids
    /\ PsiFilterPids \subseteq Pids
    /\ NullPid \in Pids \ PsiFilterPids
    /\ Sid \in Sids
    /\ HasTimeLimit \in BOOLEAN
    /\ PmtPids \subseteq SUBSET Pids
    /\ CatPids \subseteq SUBSET Pids
    /\ None \notin Pids \cup Pats

VARIABLES
    run,             \* what FeedPackets does: "up" or "ended"
    demuxed,         \* the PIDs demux_ looks at
    psi_filter,      \* psi_filter_
    content_filter,  \* content_filter_
    emm_filter,      \* emm_filter_
    pmt_pid,         \* pmt_pid_
    pat_packetizer,  \* pat_packetizer_: the table it repeats
    done, error,     \* done_, error_
    sent,            \* the packet handed to the sink in this step, or None
    announced,       \* the PMT PID of the last PAT handed to the sink, or None
    named            \* what the last PMT of the service and the last CAT named

filters == <<psi_filter, content_filter, emm_filter>>
vars == <<run, demuxed, filters, pmt_pid, pat_packetizer, done, error,
          sent, announced, named>>

Tables ==
    [tid : {"PAT"}, ts_id_0 : BOOLEAN, pmts : Pats]
    \cup [tid : {"CAT"}, pids : CatPids]
    \cup [tid : {"PMT"}, sid : Sids, pids : PmtPids]
    \cup [tid : {"TOT"}, over : BOOLEAN]

Packets == [pid : Pids, table : Tables \cup {None}]

Init ==
    /\ run = "up"
    /\ demuxed = {PatPid, CatPid} \cup (IF HasTimeLimit THEN {TotPid} ELSE {})
    /\ psi_filter = {}
    /\ content_filter = {}
    /\ emm_filter = {}
    /\ pmt_pid = NullPid
    /\ pat_packetizer = None
    /\ done = FALSE
    /\ error = FALSE
    /\ sent = None
    /\ announced = None
    /\ named = [pmt |-> {}, cat |-> {}]

-----------------------------------------------------------------------------
(* The tables.  Each handler says what becomes of the filters, of the PIDs *)
(* followed and of done_ and error_.                                       *)

\* A mutant: the PID of the PMT is taken for one that passes anyhow.
IsSafeDynamicPid_NotPmt(pid) ==
    pid # NullPid /\ pid \notin PsiFilterPids /\ pid # pmt_pid

\* A PID from a table that may be added to a filter and followed.
IsSafeDynamicPid(pid) == pid # NullPid /\ pid \notin PsiFilterPids

\* A mutant: the other services stay in the PAT.
ModifiedPat_All(pmts) == pmts

\* The PAT that is sent on: other services are removed.
ModifiedPat(pmts) == [s \in {Sid} |-> pmts[s]]

\* psi_filter_ after a PAT.
PsiFilter(pid) == PsiFilterPids \cup {pid}

\* A mutant: earlier PMT PIDs stay in the demultiplexer.
FollowPmt_KeepsOld(pid) ==
    /\ pmt_pid' = pid
    /\ demuxed' = demuxed \cup {pid}

\* demux_ and pmt_pid_ after a PAT.
FollowPmt(pid) ==
    /\ pmt_pid' = pid
    /\ demuxed' = (IF pmt_pid # NullPid THEN demuxed \ {pmt_pid} ELSE demuxed)
                    \cup {pid}

HandlePat(p) ==
    /\ p.table.tid = "PAT"
    /\ LET pmts == p.table.pmts
           valid == p.pid = PatPid /\ ~ p.table.ts_id_0
           found == Sid \in DOMAIN pmts
       IN  IF valid /\ found /\ IsSafeDynamicPid(pmts[Sid])
           THEN /\ FollowPmt(pmts[Sid])
                /\ pat_packetizer' = ModifiedPat(pmts)
                /\ psi_filter' = PsiFilter(pmts[Sid])
                /\ UNCHANGED <<done, error>>
           ELSE /\ done' = (done \/ (valid /\ ~ found))
                /\ error' = (error \/ (valid /\ ~ found))
                /\ UNCHANGED <<pmt_pid, demuxed, pat_packetizer, psi_filter>>
    /\ UNCHANGED <<content_filter, emm_filter, named>>

HandleCat(p) ==
    /\ p.table.tid = "CAT"
    /\ emm_filter' = {pid \in p.table.pids : IsSafeDynamicPid(pid)}
    /\ named' = [named EXCEPT !.cat = p.table.pids]
    /\ UNCHANGED <<demuxed, psi_filter, content_filter, pmt_pid, pat_packetizer,
                   done, error>>

\* A mutant: a PCR PID that is absent is added as what it is.
ContentFilter_Absent(pids) == {pid \in pids : IsSafeDynamicPid(pid)} \cup {None}

\* content_filter_ after a PMT.
ContentFilter(pids) == {pid \in pids : IsSafeDynamicPid(pid)}

HandlePmt(p) ==
    /\ p.table.tid = "PMT"
    /\ IF p.table.sid = Sid
       THEN /\ content_filter' = ContentFilter(p.table.pids)
            /\ named' = [named EXCEPT !.pmt = p.table.pids]
       ELSE UNCHANGED <<content_filter, named>>
    /\ UNCHANGED <<demuxed, psi_filter, emm_filter, pmt_pid, pat_packetizer, done, error>>

\* HandleTot and CheckTimeLimit.
HandleTot(p) ==
    /\ p.table.tid = "TOT"
    /\ done' = (done \/ (HasTimeLimit /\ p.table.over))
    /\ UNCHANGED <<demuxed, filters, pmt_pid, pat_packetizer, error, named>>

\* demux_.feedPacket: each table goes to its handler by its table id, whatever
\* the PID it came on.
Demux(p) ==
    IF p.pid \in demuxed /\ p.table # None
    THEN HandlePat(p) \/ HandleCat(p) \/ HandlePmt(p) \/ HandleTot(p)
    ELSE UNCHANGED <<demuxed, filters, pmt_pid, pat_packetizer, done, error, named>>

-----------------------------------------------------------------------------
(* The packets. *)

CheckFilterForDrop(pid, psi, content, emm) == pid \notin psi \cup content \cup emm

\* A PAT packet is replaced by the modified PAT, any other is handed on.
Forward(pid) ==
    /\ sent' = [pid |-> pid, pmts |-> IF pid = PatPid THEN pat_packetizer' ELSE None]
    /\ announced' = IF pid = PatPid /\ pat_packetizer' # None
                    THEN pat_packetizer'[Sid] ELSE announced

HandlePacket ==
    /\ run = "up"
    /\ \E p \in Packets :
          /\ Demux(p)
          /\ IF done' \/ CheckFilterForDrop(p.pid, psi_filter', content_filter', emm_filter')
             THEN sent' = None /\ UNCHANGED announced
             ELSE Forward(p.pid)
    /\ run' = IF done' THEN "ended" ELSE "up"

\* The end of the input, or the sink behind returned false for the last packet.
End ==
    /\ run = "up"
    /\ run' = "ended"
    /\ sent' = None
    /\ UNCHANGED <<demuxed, filters, pmt_pid, pat_packetizer, done, error, announced, named>>

Next == HandlePacket \/ End

Spec == Init /\ [][Next]_vars

-----------------------------------------------------------------------------
(* Properties. *)

\* The type invariant.
TypeOK ==
    /\ run \in {"up", "ended"}
    /\ demuxed \subseteq Pids
    /\ psi_filter \subseteq Pids
    /\ content_filter \subseteq Pids
    /\ emm_filter \subseteq Pids
    /\ pmt_pid \in Pids
    /\ pat_packetizer \in Pats \cup {None}
    /\ done \in BOOLEAN
    /\ error \in BOOLEAN
    /\ sent \in [pid : Pids, pmts : Pats \cup {None}] \cup {None}
    /\ announced \in Pids \cup {None}
    /\ named \in [pmt : SUBSET Pids, cat : SUBSET Pids]

\* However often the PMT moves to another PID, the filter goes on looking at
\* the PAT, the CAT and, with a time limit, the TOT: what IsSafeDynamicPid is
\* there for.
TablesFollowed ==
    demuxed = {PatPid, CatPid} \cup (IF HasTimeLimit THEN {TotPid} ELSE {})
                \cup ({pmt_pid} \ {NullPid})

\* What the sinks behind the filter assert: no null packet, and a PAT that
\* lists the service, and nothing else, with a PID its PMT can have.
SinksSafe ==
    sent # None =>
        /\ sent.pid # NullPid
        /\ sent.pid = PatPid => /\ sent.pmts # None
                               /\ DOMAIN sent.pmts = {Sid}
                               /\ sent.pmts[Sid] \notin PsiFilterPids \cup {NullPid}

\* The filter and the sinks behind it follow the same PMT: the PID they were
\* last told is the one the filter looks at, and it passes the filter.
SamePmtFollowed ==
    announced # None => announced = pmt_pid /\ announced \in demuxed \cap psi_filter

\* The filter follows all tables it needs, and the PMT its sinks follow.
PmtFollowed == TablesFollowed /\ SamePmtFollowed

\* "Packets other than listed below are dropped": what passes is a PSI/SI
\* packet, the PMT, or of a PID that the last PMT of the service or the last
\* CAT named; PIDs of earlier ones are forgotten.
ServiceOnly ==
    psi_filter \cup content_filter \cup emm_filter
        \subseteq PsiFilterPids \cup {pmt_pid} \cup named.pmt \cup named.cat

\* Nothing of the service is lost: the PIDs of its last PMT and of the last
\* CAT pass, also between a PAT that moves the PMT and the new PMT.
ServiceComplete ==
    {pid \in named.pmt \cup named.cat : pid # NullPid /\ pid \notin PsiFilterPids}
        \subseteq content_filter \cup emm_filter

\* The service passes, and nothing else.
ServicePassed == ServiceOnly /\ ServiceComplete

=============================================================================
