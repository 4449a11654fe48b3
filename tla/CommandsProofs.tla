--------------------------- MODULE CommandsProofs ---------------------------
(***************************************************************************)
(* Proofs about Commands, for every stream the sinks' assumptions admit.   *)
(* A sink's invariant speaks of the variables of that sink only, and is    *)
(* proved from its own Init and Next; OneSink says that a process takes    *)
(* the steps of the sink of its command and no others.                     *)
(***************************************************************************)
EXTENDS Commands, FiniteSetTheorems, SequenceTheorems, TLAPS

\* A process has the one sink its command asks for.
LEMMA OneSink ==
    ASSUME [Next]_vars
    PROVE  /\ command' = command
           /\ command = "scan-services" => [Scanner!Next]_(Scanner!vars)
           /\ command = "sync-clocks" => [Synchronizer!Next]_(Synchronizer!vars)
           /\ command = "collect-eitpf" => [Eitpf!Next]_(Eitpf!vars)
           /\ command = "track-airtime" => [Tracker!Next]_(Tracker!vars)
           /\ command = "print-pes" => [Printer!Next]_(Printer!vars)
           /\ command = "stdout" => [Stdout!Next]_(Stdout!vars)
<1>1. CASE UNCHANGED vars
  BY <1>1 DEF vars, scannerOnly, syncOnly, eitpfOnly, airtimeOnly, printerOnly, stdoutOnly,
       Scanner!vars, Scanner!stream, Synchronizer!vars, Synchronizer!stream,
       Synchronizer!collected, Eitpf!vars, Tracker!vars, Tracker!schedule,
       Printer!vars, Printer!stream, Printer!tables, Stdout!vars
<1>2. CASE Next
  BY <1>2 DEF Next, ScanServices, SyncClocks, CollectEitpf, TrackAirtime, PrintPes,
       WriteStdout, OnlyScanner, OnlySynchronizer, OnlyEitpf, OnlyTracker, OnlyPrinter,
       OnlyStdout
<1> QED
  BY <1>1, <1>2

\* ... and starts as that sink does.
LEMMA OneSinkMade ==
    ASSUME Init
    PROVE  /\ command = "scan-services" => Scanner!Init
           /\ command = "sync-clocks" => Synchronizer!Init
           /\ command = "collect-eitpf" => Eitpf!Init
           /\ command = "track-airtime" => Tracker!Init
           /\ command = "print-pes" => Printer!Init
           /\ command = "stdout" => Stdout!Init
  BY DEF Init, MakeScanner, MakeSynchronizer, MakeEitpf, MakeTracker, MakePrinter, MakeStdout

-----------------------------------------------------------------------------
(* ServiceScanner. *)

\* The PID whose NIT goes with a PAT.
NitOf(p) == IF Scanner!NonStandard(p) THEN p.nit_pid ELSE NitPid

\* The demultiplexer looks at the NIT of the PAT and no other, and so nit_ is of
\* that NIT.  A NIT with a PID of its own stays there.
ScanFollowed ==
    /\ pat = None \/ (pat \in ScanPats /\ ~ Scanner!NonStandard(pat)) =>
          demuxed = {PatPid, SdtPid, NitPid} /\ nit \in {None, NitPid}
    /\ pat \in ScanPats /\ Scanner!NonStandard(pat) =>
          /\ demuxed = {PatPid, SdtPid, pat.nit_pid} /\ nit \in {None, pat.nit_pid}
          /\ stream_pat.nit_pid = pat.nit_pid

\* The inductive invariant of the scanner.
ScanInv ==
    /\ Scanner!TypeOK
    /\ ScanFollowed
    /\ run = "up" => output = Scanner!Nothing
    /\ Scanner!KeyFromPat

LEMMA ScanInitial == Scanner!Init => ScanInv
<1> SUFFICES ASSUME Scanner!Init PROVE ScanInv
  OBVIOUS
<1>1. /\ stream_pat \in ScanPats /\ stream_sdt \in ScanSdts /\ changes = 0 /\ run = "up"
      /\ demuxed = {PatPid, NitPid, SdtPid} /\ reported = {}
      /\ pat = None /\ sdt = None /\ nit = None /\ output = Scanner!Nothing
  BY DEF Scanner!Init
<1>2. /\ NitPid \notin {PatPid, SdtPid} /\ ScanChanges \in Nat /\ None \notin ScanPats
  BY SinkAssumptions DEF Scanner!ScannerAssumption
<1>3. Scanner!TypeOK
  BY <1>1, <1>2 DEF Scanner!TypeOK
<1> QED
  BY <1>1, <1>2, <1>3 DEF ScanInv, ScanFollowed, Scanner!KeyFromPat

LEMMA ScanStep ==
    ASSUME ScanInv, [Scanner!Next]_(Scanner!vars), ~ NitMoves
    PROVE  ScanInv'
<1>1. /\ PatPid # SdtPid /\ NitPid \notin {PatPid, SdtPid} /\ ScanChanges \in Nat
      /\ None \notin ScanPats /\ None \notin ScanSdts /\ None # NitPid
      /\ \A p \in ScanPats : p.tsid0 \in BOOLEAN /\ p.nit_pid \notin {PatPid, SdtPid, None}
  BY SinkAssumptions DEF Scanner!ScannerAssumption
<1>2. /\ stream_pat \in ScanPats /\ stream_sdt \in ScanSdts /\ changes \in 0..ScanChanges
      /\ run \in {"up", "ended"}
      /\ {PatPid, SdtPid} \subseteq demuxed /\ reported \subseteq demuxed
      /\ pat \in ScanPats \cup {None} /\ sdt \in ScanSdts \cup {None}
      /\ nit \in demuxed \cup {None}
  BY DEF ScanInv, Scanner!TypeOK
\* The end of a handler: what is printed has the key of the PAT's NIT.
<1>3. ASSUME NEW p \in ScanPats \cup {None}, NEW d \in ScanSdts \cup {None}, NEW n,
             run = "up", Scanner!Ends(p, d, n), p # None /\ n # None => n = NitOf(p)
      PROVE  /\ pat' = p /\ sdt' = d /\ nit' = n /\ run' \in {"up", "ended"}
             /\ run' = "up" => output' = Scanner!Nothing
             /\ Scanner!KeyFromPat'
  <2>1. output = Scanner!Nothing
    BY <1>3 DEF ScanInv
  <2>2. pat' = p /\ sdt' = d /\ nit' = n
    BY <1>3 DEF Scanner!Ends
  <2>3. CASE Scanner!Completed(p, d, n)
    <3>1. run' = "ended" /\ output' = [services |-> Scanner!Collected(p, d), key |-> n]
      BY <1>3, <2>3 DEF Scanner!Ends
    <3>2. p # None /\ n # None
      BY <2>3 DEF Scanner!Completed
    <3>3. output'.key = NitOf(p)
      BY <1>3, <3>1, <3>2
    <3>4. Scanner!KeyFromPat'
      BY <2>2, <3>3 DEF Scanner!KeyFromPat, NitOf, Scanner!NonStandard
    <3> QED
      BY <2>2, <3>1, <3>4
  <2>4. CASE ~ Scanner!Completed(p, d, n)
    <3>1. run' = run /\ output' = output
      BY <1>3, <2>4 DEF Scanner!Ends
    <3> QED
      BY <1>3, <2>1, <2>2, <3>1 DEF Scanner!KeyFromPat, Scanner!Nothing
  <2> QED
    BY <2>3, <2>4
<1>4. CASE UNCHANGED Scanner!vars
  BY <1>4 DEF Scanner!vars, Scanner!stream, ScanInv, ScanFollowed, Scanner!TypeOK,
       Scanner!KeyFromPat, Scanner!NonStandard
<1>5. CASE Scanner!HandlePat
  <2>1. /\ run = "up" /\ stream_pat' = stream_pat /\ stream_sdt' = stream_sdt
        /\ changes' = changes
    BY <1>5 DEF Scanner!HandlePat, Scanner!Reports, Scanner!stream
  <2>2. CASE stream_pat.tsid0
    <3>1. /\ reported' = reported \cup {PatPid} /\ demuxed' = demuxed
          /\ Scanner!Ends(pat, sdt, nit)
      BY <1>5, <2>2 DEF Scanner!HandlePat
    <3>2. pat # None /\ nit # None => nit = NitOf(pat)
      BY <1>2 DEF ScanInv, ScanFollowed, NitOf
    <3>3. /\ pat' = pat /\ sdt' = sdt /\ nit' = nit /\ run' \in {"up", "ended"}
          /\ run' = "up" => output' = Scanner!Nothing
          /\ Scanner!KeyFromPat'
      BY <1>2, <1>3, <2>1, <3>1, <3>2
    <3> QED
      BY <1>1, <1>2, <2>1, <3>1, <3>3
      DEF ScanInv, ScanFollowed, Scanner!TypeOK, Scanner!NonStandard
  <2>3. CASE ~ stream_pat.tsid0
    <3> DEFINE p == stream_pat
               n == Scanner!NitAfter(p)
    <3>1. /\ demuxed' = IF Scanner!NonStandard(p) THEN Scanner!Demuxed(p) ELSE demuxed
          /\ reported' = (reported \cup {PatPid}) \cap demuxed'
          /\ Scanner!Ends(p, sdt, n)
      BY <1>5, <2>3 DEF Scanner!HandlePat
    <3>2. p \in ScanPats /\ p # None /\ p.nit_pid \notin {PatPid, SdtPid, None}
      BY <1>1, <1>2
    \* The PAT that was there before has the same NIT as this one or a standard NIT.
    <3>3. \/ /\ Scanner!NonStandard(p) /\ demuxed = {PatPid, SdtPid, p.nit_pid}
             /\ nit \in {None, p.nit_pid}
          \/ demuxed = {PatPid, SdtPid, NitPid} /\ nit \in {None, NitPid}
      BY <1>2 DEF ScanInv, ScanFollowed, Scanner!NonStandard
    <3>4. n = IF Scanner!NonStandard(p) THEN None ELSE nit
      BY DEF Scanner!NitAfter
    <3>5. /\ Scanner!NonStandard(p) => demuxed' = {PatPid, SdtPid, p.nit_pid} /\ n = None
          /\ ~ Scanner!NonStandard(p) =>
               demuxed' = {PatPid, SdtPid, NitPid} /\ n \in {None, NitPid}
      <4>1. CASE Scanner!NonStandard(p)
        <5>1. \/ demuxed = {PatPid, SdtPid, p.nit_pid}
              \/ demuxed = {PatPid, SdtPid, NitPid}
          BY <3>3
        <5>2. p.nit_pid # NitPid
          BY <4>1 DEF Scanner!NonStandard
        <5> QED
          BY <1>1, <3>1, <3>2, <3>4, <4>1, <5>1, <5>2 DEF Scanner!Demuxed
      <4>2. CASE ~ Scanner!NonStandard(p)
        BY <3>1, <3>3, <3>4, <4>2
      <4> QED
        BY <4>1, <4>2
    <3>6. n # None => n = NitOf(p)
      BY <3>5 DEF NitOf
    <3> HIDE DEF n, p
    <3>7. /\ pat' = p /\ sdt' = sdt /\ nit' = n /\ run' \in {"up", "ended"}
          /\ run' = "up" => output' = Scanner!Nothing
          /\ Scanner!KeyFromPat'
      BY <1>2, <1>3, <2>1, <3>1, <3>2, <3>6
    <3>8. ScanFollowed'
      BY <1>1, <2>1, <2>3, <3>2, <3>5, <3>7 DEF ScanFollowed, Scanner!NonStandard, p
    <3>9. Scanner!TypeOK'
      BY <1>1, <1>2, <2>1, <3>1, <3>2, <3>5, <3>7 DEF Scanner!TypeOK, p
    <3> QED
      BY <3>7, <3>8, <3>9 DEF ScanInv
  <2> QED
    BY <2>2, <2>3
<1>6. CASE Scanner!HandleSdt
  <2> DEFINE d == IF stream_sdt.tsid0 THEN sdt ELSE stream_sdt
  <2>1. /\ run = "up" /\ stream_pat' = stream_pat /\ stream_sdt' = stream_sdt
        /\ changes' = changes /\ reported' = reported \cup {SdtPid} /\ demuxed' = demuxed
        /\ Scanner!Ends(pat, d, nit)
    BY <1>6 DEF Scanner!HandleSdt, Scanner!Reports, Scanner!stream
  <2>2. pat # None /\ nit # None => nit = NitOf(pat)
    BY <1>2 DEF ScanInv, ScanFollowed, NitOf
  <2>3. d \in ScanSdts \cup {None}
    BY <1>2
  <2> HIDE DEF d
  <2>4. /\ pat' = pat /\ sdt' = d /\ nit' = nit /\ run' \in {"up", "ended"}
        /\ run' = "up" => output' = Scanner!Nothing
        /\ Scanner!KeyFromPat'
    BY <1>2, <1>3, <2>1, <2>2, <2>3
  <2> QED
    BY <1>1, <1>2, <2>1, <2>3, <2>4
    DEF ScanInv, ScanFollowed, Scanner!TypeOK, Scanner!NonStandard
<1>7. ASSUME NEW p \in Scanner!NitPids, Scanner!HandleNit(p) PROVE ScanInv'
  <2>1. /\ run = "up" /\ stream_pat' = stream_pat /\ stream_sdt' = stream_sdt
        /\ changes' = changes /\ reported' = reported \cup {p} /\ demuxed' = demuxed
        /\ p \in demuxed /\ Scanner!Ends(pat, sdt, p)
    BY <1>7 DEF Scanner!HandleNit, Scanner!Reports, Scanner!stream
  <2>2. p = NitPid \/ p = stream_pat.nit_pid
    BY <1>7 DEF Scanner!NitPids
  <2>3. p \notin {PatPid, SdtPid}
    BY <1>1, <1>2, <2>2
  <2>4. /\ pat = None \/ ~ Scanner!NonStandard(pat) => p = NitPid
        /\ pat # None /\ Scanner!NonStandard(pat) => p = pat.nit_pid
    BY <1>1, <1>2, <2>1, <2>3 DEF ScanInv, ScanFollowed
  <2>5. pat # None => p = NitOf(pat)
    BY <2>4 DEF NitOf
  <2>6. /\ pat' = pat /\ sdt' = sdt /\ nit' = p /\ run' \in {"up", "ended"}
        /\ run' = "up" => output' = Scanner!Nothing
        /\ Scanner!KeyFromPat'
    BY <1>2, <1>3, <2>1, <2>5
  <2>7. ScanFollowed'
    BY <1>1, <1>2, <2>1, <2>4, <2>6 DEF ScanInv, ScanFollowed, Scanner!NonStandard
  <2> QED
    BY <1>1, <1>2, <2>1, <2>3, <2>6, <2>7 DEF ScanInv, Scanner!TypeOK
<1>8. CASE Scanner!EndOfInput
  <2>1. /\ run' = "ended" /\ stream_pat' = stream_pat /\ stream_sdt' = stream_sdt
        /\ changes' = changes /\ demuxed' = demuxed /\ reported' = reported
        /\ pat' = pat /\ sdt' = sdt /\ nit' = nit /\ output' = output
    BY <1>8 DEF Scanner!EndOfInput, Scanner!stream
  <2> QED
    BY <1>1, <1>2, <2>1
    DEF ScanInv, ScanFollowed, Scanner!TypeOK, Scanner!KeyFromPat, Scanner!NonStandard
<1>9. ASSUME Scanner!ChangePat \/ Scanner!ChangeSdt PROVE ScanInv'
  <2>1. /\ run = "up" /\ changes < ScanChanges /\ changes' = changes + 1
        /\ run' = run /\ demuxed' = demuxed /\ pat' = pat /\ sdt' = sdt /\ nit' = nit
        /\ output' = output
    BY <1>9 DEF Scanner!ChangePat, Scanner!ChangeSdt, Scanner!Changes
  <2>2. /\ stream_pat' \in ScanPats /\ stream_sdt' \in ScanSdts /\ reported' \subseteq reported
    BY <1>2, <1>9 DEF Scanner!ChangePat, Scanner!ChangeSdt
  <2>3. \/ stream_pat' = stream_pat \/ ~ Scanner!NonStandard(stream_pat)
        \/ stream_pat'.nit_pid = stream_pat.nit_pid
    BY <1>9 DEF Scanner!ChangePat, Scanner!ChangeSdt
  <2>4. changes' \in 0..ScanChanges
    BY <1>1, <1>2, <2>1
  <2>5. ScanFollowed'
    BY <1>1, <1>2, <2>1, <2>3 DEF ScanInv, ScanFollowed, Scanner!NonStandard
  <2> QED
    BY <1>2, <2>1, <2>2, <2>4, <2>5
    DEF ScanInv, Scanner!TypeOK, Scanner!KeyFromPat, Scanner!NonStandard
<1> QED
  BY <1>4, <1>5, <1>6, <1>7, <1>8, <1>9 DEF Scanner!Next

\* ServiceScanner never prints a remote control key of another network than the
\* one its PAT names, whatever order PAT, SDT and NIT come in and however they
\* change, as long as the PID of the NIT does not move a second time.
THEOREM ScanAlwaysCorrect ==
    ASSUME ~ NitMoves
    PROVE  Spec => []ScanCorrect
<1> DEFINE Inv == command = "scan-services" => ScanInv
<1>1. Init => Inv
  BY OneSinkMade, ScanInitial
<1>2. Inv /\ [Next]_vars => Inv'
  <2> SUFFICES ASSUME Inv, [Next]_vars, command' = "scan-services" PROVE ScanInv'
    OBVIOUS
  <2>1. command = "scan-services"
    BY OneSink
  <2>2. ScanInv /\ [Scanner!Next]_(Scanner!vars)
    BY <2>1, OneSink
  <2> QED
    BY <2>2, ScanStep
<1>3. Inv => ScanCorrect
  BY DEF ScanInv, ScanCorrect
<1> QED
  BY <1>1, <1>2, <1>3, PTL DEF Spec

-----------------------------------------------------------------------------
(* AirtimeTracker. *)

\* The next event is the first one to come: the one after the event on the air,
\* or the one after that if the former is the tracked one and was canceled.
LEMMA NextEvent ==
    ASSUME on \in 1..NumEvents, Tracker!Coming # {}
    PROVE  /\ Tracker!Min(Tracker!Coming) \in Tracker!Coming
           /\ \A e \in Tracker!Coming : Tracker!Min(Tracker!Coming) <= e
<1>1. NumEvents \in Nat /\ Tracked \in 1..NumEvents
  BY SinkAssumptions DEF Tracker!TrackerAssumption
<1>2. Tracker!Coming \subseteq Int
  BY <1>1 DEF Tracker!Coming
<1>3. \E e \in Tracker!Coming : \A f \in Tracker!Coming : e <= f
  <2>1. CASE on + 1 \in Tracker!Coming
    BY <1>1, <2>1 DEF Tracker!Coming
  <2>2. CASE on + 1 \notin Tracker!Coming
    <3>1. PICK e \in Tracker!Coming : TRUE
      OBVIOUS
    <3>2. canceled /\ Tracked = on + 1 /\ on + 2 <= NumEvents
      BY <1>1, <2>2, <3>1 DEF Tracker!Coming
    <3>3. on + 2 \in Tracker!Coming /\ \A f \in Tracker!Coming : on + 2 <= f
      BY <1>1, <2>2, <3>2 DEF Tracker!Coming
    <3> QED
      BY <3>3
  <2> QED
    BY <2>1, <2>2
<1> QED
  BY <1>3 DEF Tracker!Min

\* The inductive invariant of the tracker.
TrackInv ==
    /\ on \in 1..NumEvents /\ airing \in BOOLEAN /\ canceled \in BOOLEAN
    /\ reported \in BOOLEAN
    /\ moves \in Nat /\ run \in {"up", "ended"} /\ output \in Seq(Nat)
    /\ Tracker!LineCurrent
    /\ Tracker!NotEarly

LEMMA TrackInitial == Tracker!Init => TrackInv
<1> SUFFICES ASSUME Tracker!Init PROVE TrackInv
  OBVIOUS
<1>1. /\ on \in 1..NumEvents /\ airing \in BOOLEAN /\ canceled = FALSE /\ moves = 0
      /\ reported = FALSE /\ run = "up" /\ output = << >>
  BY DEF Tracker!Init
<1>2. output \in Seq(Nat) /\ moves \in Nat
  BY <1>1
<1>3. Tracker!LineCurrent /\ Tracker!NotEarly
  BY <1>1 DEF Tracker!LineCurrent, Tracker!NotEarly
<1> QED
  BY <1>1, <1>2, <1>3, Zenon DEF TrackInv

\* A table makes the tracker stop only if the event is not in it.
LEMMA StopsWithout ==
    ASSUME on \in 1..NumEvents, airing \in BOOLEAN,
           Tracker!Outcome(Tracker!Table) = "done"
    PROVE  /\ airing => on # Tracked
           /\ Tracker!Coming # {} => Tracker!Min(Tracker!Coming) # Tracked
<1> DEFINE first == Tracker!Min(Tracker!Coming)
<1>1. CASE airing /\ Tracker!Coming # {}
  <2>1. Tracker!Table = <<on>> \o <<first>>
    BY <1>1 DEF Tracker!Table
  <2>2. <<on>> \in Seq({on, first}) /\ <<first>> \in Seq({on, first})
        /\ Len(<<on>>) = 1 /\ Len(<<first>>) = 1
    OBVIOUS
  <2>3. Len(Tracker!Table) = 2 /\ Tracker!Table[1] = on /\ Tracker!Table[2] = first
    BY <2>1, <2>2, ConcatProperties
  <2> QED
    BY <1>1, <2>3 DEF Tracker!Outcome
<1>2. CASE airing /\ Tracker!Coming = {}
  <2>1. Tracker!Table = <<on>> \o << >>
    BY <1>2 DEF Tracker!Table
  <2>2. <<on>> \o << >> = <<on>>
    OBVIOUS
  <2> QED
    BY <1>2, <2>1, <2>2 DEF Tracker!Outcome
<1>3. CASE ~ airing /\ Tracker!Coming # {}
  <2>1. Tracker!Table = << >> \o <<first>>
    BY <1>3 DEF Tracker!Table
  <2>2. << >> \o <<first>> = <<first>>
    OBVIOUS
  <2> QED
    BY <1>3, <2>1, <2>2 DEF Tracker!Outcome
<1> QED
  BY <1>1, <1>2, <1>3

LEMMA TrackStep ==
    ASSUME TrackInv, [Tracker!Next]_(Tracker!vars)
    PROVE  TrackInv'
<1>1. NumEvents \in Nat /\ Tracked \in 1..NumEvents
  BY SinkAssumptions DEF Tracker!TrackerAssumption
<1>2. /\ on \in 1..NumEvents /\ airing \in BOOLEAN /\ canceled \in BOOLEAN
      /\ reported \in BOOLEAN
      /\ moves \in Nat /\ run \in {"up", "ended"} /\ output \in Seq(Nat)
  BY DEF TrackInv
<1>3. CASE UNCHANGED Tracker!vars
  BY <1>3 DEF Tracker!vars, Tracker!schedule, TrackInv, Tracker!LineCurrent,
       Tracker!NotEarly, Tracker!Coming
<1>4. ASSUME Tracker!StartEvent \/ Tracker!EndEvent \/ Tracker!Move \/ Tracker!Cancel
      PROVE  TrackInv'
  <2>1. run = "up" /\ run' = run /\ output' = output /\ reported' = FALSE
    BY <1>4 DEF Tracker!StartEvent, Tracker!EndEvent, Tracker!Move, Tracker!Cancel,
         Tracker!Changed
  <2>2. airing' \in BOOLEAN /\ canceled' \in BOOLEAN
    BY <1>2, <1>4, Zenon
    DEF Tracker!StartEvent, Tracker!EndEvent, Tracker!Move, Tracker!Cancel
  <2>3. on' \in 1..NumEvents
    <3>1. CASE Tracker!StartEvent
      <4>1. on' \in Tracker!Coming
        BY <1>2, <3>1, NextEvent DEF Tracker!StartEvent
      <4> QED
        BY <1>1, <1>2, <4>1 DEF Tracker!Coming
    <3> QED
      BY <1>2, <1>4, <3>1 DEF Tracker!EndEvent, Tracker!Move, Tracker!Cancel
  <2>4. moves' \in Nat
    BY <1>2, <1>4 DEF Tracker!StartEvent, Tracker!EndEvent, Tracker!Move, Tracker!Cancel
  <2> QED
    BY <1>2, <2>1, <2>2, <2>3, <2>4 DEF TrackInv, Tracker!LineCurrent, Tracker!NotEarly
<1>5. CASE Tracker!HandleEit
  <2>1. /\ run = "up" /\ reported' = TRUE
        /\ on' = on /\ airing' = airing /\ canceled' = canceled /\ moves' = moves
        /\ output' = IF Tracker!Outcome(Tracker!Table) = "write" THEN Append(output, moves)
                     ELSE output
        /\ run' = IF Tracker!Outcome(Tracker!Table) = "done" THEN "ended" ELSE run
    BY <1>5 DEF Tracker!HandleEit, Tracker!schedule
  <2>2. CASE Tracker!Outcome(Tracker!Table) = "write"
    <3>1. output' = Append(output, moves) /\ run' = "up"
      BY <2>1, <2>2
    <3>2. output' \in Seq(Nat) /\ output' # << >> /\ output'[Len(output')] = moves
      BY <1>2, <3>1
    <3> QED
      BY <1>2, <2>1, <3>1, <3>2
      DEF TrackInv, Tracker!LineCurrent, Tracker!NotEarly, Tracker!Last
  <2>3. CASE Tracker!Outcome(Tracker!Table) = "done"
    <3>1. output' = output /\ run' = "ended"
      BY <2>1, <2>3
    <3>2. Tracker!Coming' = Tracker!Coming
      BY <2>1 DEF Tracker!Coming
    <3>3. /\ airing => on # Tracked
          /\ Tracker!Coming # {} => Tracker!Min(Tracker!Coming) # Tracked
      BY <1>2, <2>3, StopsWithout
    <3>4. Tracker!NotEarly'
      <4>1. CASE Tracker!Coming = {}
        <5>0. Tracked \notin Tracker!Coming
          BY <4>1
        <5>1. canceled \/ Tracked <= on
          BY <1>1, <1>2, <5>0 DEF Tracker!Coming
        <5>2. canceled \/ Tracked < on \/ (Tracked = on /\ ~ airing)
          BY <1>1, <1>2, <3>3, <5>1
        <5> QED
          BY <2>1, <5>2 DEF Tracker!NotEarly
      <4>2. CASE Tracker!Coming # {}
        <5>1. /\ Tracker!Min(Tracker!Coming) \in Tracker!Coming
              /\ \A e \in Tracker!Coming : Tracker!Min(Tracker!Coming) <= e
          BY <1>2, <4>2, NextEvent
        <5>2. Tracker!Min(Tracker!Coming) \in Int
          BY <1>1, <1>2, <5>1 DEF Tracker!Coming
        <5>3. Tracked \in Tracker!Coming => Tracker!Min(Tracker!Coming) < Tracked
          BY <1>1, <3>3, <4>2, <5>1, <5>2
        <5>4. canceled \/ Tracked <= on \/ Tracked \in Tracker!Coming
          BY <1>1, <1>2 DEF Tracker!Coming
        <5>5. \/ canceled \/ Tracked < on \/ (Tracked = on /\ ~ airing)
              \/ Tracker!Min(Tracker!Coming) < Tracked
          BY <1>1, <1>2, <3>3, <5>3, <5>4
        <5> QED
          BY <2>1, <3>2, <5>5 DEF Tracker!NotEarly
      <4> QED
        BY <4>1, <4>2
    <3> QED
      BY <1>2, <2>1, <3>1, <3>4 DEF TrackInv, Tracker!LineCurrent
  <2>4. Tracker!Outcome(Tracker!Table) \in {"write", "done"}
    BY DEF Tracker!Outcome
  <2> QED
    BY <2>2, <2>3, <2>4
<1> QED
  BY <1>3, <1>4, <1>5 DEF Tracker!Next

\* AirtimeTracker, for any schedule and any tracked event: once the current
\* table has come the last line shows the times it has, and the tracking ends
\* only when the event is over, canceled or not the next one, whatever gaps the
\* schedule has (HandleEit).
THEOREM AirtimeAlwaysCorrect == Spec => []AirtimeCorrect
<1> DEFINE Inv == command = "track-airtime" => TrackInv
<1>1. Init => Inv
  BY OneSinkMade, TrackInitial
<1>2. Inv /\ [Next]_vars => Inv'
  <2> SUFFICES ASSUME Inv, [Next]_vars, command' = "track-airtime" PROVE TrackInv'
    OBVIOUS
  <2>1. command = "track-airtime"
    BY OneSink
  <2>2. TrackInv /\ [Tracker!Next]_(Tracker!vars)
    BY <2>1, OneSink
  <2> QED
    BY <2>2, TrackStep
<1>3. Inv => AirtimeCorrect
  BY DEF TrackInv, AirtimeCorrect
<1> QED
  BY <1>1, <1>2, <1>3, PTL DEF Spec

-----------------------------------------------------------------------------
(* StdoutSink. *)

Bytes == 1..(MaxPackets * PktSize)

\* The sequence has the bytes that follow the first b of the stream.
From(s, b) == \A i \in 1..Len(s) : s[i] = b + i

LEMMA FromConcat ==
    ASSUME NEW s \in Seq(Bytes), NEW t \in Seq(Bytes), NEW b \in Int,
           From(s, b), From(t, b + Len(s))
    PROVE  /\ s \o t \in Seq(Bytes) /\ Len(s \o t) = Len(s) + Len(t)
           /\ From(s \o t, b)
<1>1. /\ s \o t \in Seq(Bytes) /\ Len(s \o t) = Len(s) + Len(t)
      /\ \A i \in 1..(Len(s) + Len(t)) :
            (s \o t)[i] = IF i <= Len(s) THEN s[i] ELSE t[i - Len(s)]
  BY ConcatProperties
<1>2. Len(s) \in Nat /\ Len(t) \in Nat
  OBVIOUS
<1>3. ASSUME NEW i \in 1..(Len(s) + Len(t)) PROVE (s \o t)[i] = b + i
  <2>1. CASE i <= Len(s)
    BY <1>1, <1>2, <2>1 DEF From
  <2>2. CASE i > Len(s)
    <3>1. i - Len(s) \in 1..Len(t)
      BY <1>2, <2>2
    <3>2. t[i - Len(s)] = (b + Len(s)) + (i - Len(s))
      BY <3>1 DEF From
    <3> QED
      BY <1>1, <1>2, <2>2, <3>2
  <2> QED
    BY <1>2, <2>1, <2>2
<1> QED
  BY <1>1, <1>3 DEF From

LEMMA FromPart ==
    ASSUME NEW s \in Seq(Bytes), NEW b \in Int, NEW m \in Nat, NEW n \in Nat,
           m <= n, n <= Len(s)
    PROVE  /\ SubSeq(s, m + 1, n) \in Seq(Bytes) /\ Len(SubSeq(s, m + 1, n)) = n - m
           /\ From(s, b) => From(SubSeq(s, m + 1, n), b + m)
<1>1. Len(s) \in Nat /\ \A i \in (m + 1)..n : s[i] \in Bytes
  BY ElementOfSeq
<1> DEFINE t == SubSeq(s, m + 1, n)
<1>2. /\ t \in Seq(Bytes) /\ Len(t) = IF m + 1 <= n THEN n - (m + 1) + 1 ELSE 0
      /\ \A i \in 1..(n - (m + 1) + 1) : t[i] = s[m + 1 + i - 1]
  BY <1>1, SubSeqProperties
<1> HIDE DEF t
<1>3. Len(t) = n - m
  BY <1>2
<1>4. ASSUME From(s, b), NEW i \in 1..(n - m) PROVE t[i] = (b + m) + i
  <2>1. i \in 1..(n - (m + 1) + 1) /\ m + i \in 1..Len(s) /\ m + 1 + i - 1 = m + i
    BY <1>1
  <2>2. t[i] = s[m + i]
    BY <1>2, <2>1
  <2>3. s[m + i] = b + (m + i)
    BY <1>4, <2>1 DEF From
  <2> QED
    BY <2>2, <2>3
<1>5. From(s, b) => From(t, b + m)
  BY <1>3, <1>4 DEF From
<1> QED
  BY <1>2, <1>3, <1>5 DEF t

LEMMA FromStart ==
    ASSUME NEW s \in Seq(Bytes), NEW b \in Int, NEW n \in Nat, n <= Len(s)
    PROVE  /\ SubSeq(s, 1, n) \in Seq(Bytes) /\ Len(SubSeq(s, 1, n)) = n
           /\ From(s, b) => From(SubSeq(s, 1, n), b)
<1>1. ASSUME NEW m \in Nat, m = 0
      PROVE  /\ SubSeq(s, m + 1, n) \in Seq(Bytes) /\ Len(SubSeq(s, m + 1, n)) = n - m
             /\ From(s, b) => From(SubSeq(s, m + 1, n), b + m)
  <2>1. m <= n
    BY <1>1
  <2> QED
    BY <2>1, FromPart
<1>2. \A m \in Nat : m = 0 => m + 1 = 1 /\ n - m = n /\ b + m = b
  OBVIOUS
<1>3. 0 \in Nat
  OBVIOUS
<1>4. \E m \in Nat : m = 0
  BY <1>3
<1> QED
  BY <1>1, <1>2, <1>4

LEMMA FromEqual ==
    ASSUME NEW s \in Seq(Bytes), NEW t \in Seq(Bytes), NEW b \in Int,
           From(s, b), From(t, b), Len(s) = Len(t)
    PROVE  s = t
<1>1. \A i \in 1..Len(s) : s[i] = t[i]
  BY DEF From
<1> QED
  BY <1>1, SeqEqual

\* The bytes of the first n packets, and of the next one.
LEMMA StreamBytes ==
    ASSUME NEW n \in 0..MaxPackets
    PROVE  /\ n * PktSize \in Nat /\ n * PktSize <= MaxPackets * PktSize
           /\ Stdout!Stream(n) \in Seq(Bytes) /\ Len(Stdout!Stream(n)) = n * PktSize
           /\ From(Stdout!Stream(n), 0)
           /\ n < MaxPackets =>
                 /\ (n + 1) * PktSize = n * PktSize + PktSize
                 /\ Stdout!Packet(n + 1) \in Seq(Bytes)
                 /\ Len(Stdout!Packet(n + 1)) = PktSize
                 /\ From(Stdout!Packet(n + 1), n * PktSize)
<1>1. PktSize \in Nat /\ MaxPackets \in Nat
  BY SinkAssumptions DEF Stdout!SinkAssumption
<1>2. \A k \in 0..MaxPackets : k * PktSize \in Nat /\ k * PktSize <= MaxPackets * PktSize
  BY <1>1
<1>3. MaxPackets * PktSize \in Nat
  BY <1>1
<1> DEFINE k == n * PktSize
<1>4. k \in Nat /\ k <= MaxPackets * PktSize
  BY <1>2
<1>5. Stdout!Stream(n) = [i \in 1..k |-> i]
  BY DEF Stdout!Stream
<1> HIDE DEF k
<1>6. Stdout!Stream(n) \in [1..k -> Bytes]
  BY <1>3, <1>4, <1>5 DEF Bytes
<1>7. Stdout!Stream(n) \in Seq(Bytes) /\ Len(Stdout!Stream(n)) = k
  BY <1>4, <1>5, <1>6, SeqDef
<1>8. From(Stdout!Stream(n), 0)
  BY <1>4, <1>5, <1>7 DEF From
<1>9. ASSUME n < MaxPackets
      PROVE  /\ (n + 1) * PktSize = k + PktSize
             /\ Stdout!Packet(n + 1) \in Seq(Bytes)
             /\ Len(Stdout!Packet(n + 1)) = PktSize
             /\ From(Stdout!Packet(n + 1), k)
  <2>1. (n + 1) * PktSize = k + PktSize
    BY <1>1 DEF k
  <2>2. n + 1 \in 0..MaxPackets
    BY <1>1, <1>9
  <2>3. k + PktSize <= MaxPackets * PktSize
    BY <1>2, <2>1, <2>2
  <2>4. (n + 1) - 1 = n
    OBVIOUS
  <2>5. Stdout!Packet(n + 1) = [i \in 1..PktSize |-> k + i]
    BY <2>4 DEF Stdout!Packet, k
  <2>6. Stdout!Packet(n + 1) \in [1..PktSize -> Bytes]
    BY <1>1, <1>3, <1>4, <2>3, <2>5 DEF Bytes
  <2>7. Stdout!Packet(n + 1) \in Seq(Bytes) /\ Len(Stdout!Packet(n + 1)) = PktSize
    BY <1>1, <2>5, <2>6, SeqDef
  <2>8. From(Stdout!Packet(n + 1), k)
    BY <1>4, <2>5, <2>7 DEF From
  <2> QED
    BY <2>1, <2>7, <2>8
<1> QED
  BY <1>4, <1>7, <1>8, <1>9 DEF k

\* The bytes of the stream before the buffer.
Flushed == Len(out) - nwritten

StdoutTypes ==
    /\ buf \in Seq(Bytes) /\ rest \in Seq(Bytes) /\ out \in Seq(Bytes)
    /\ Len(buf) <= BufferSize /\ Len(rest) < PktSize
    /\ nwritten \in Nat /\ nwritten <= Len(out)
    /\ pc \in {"up", "flush", "endFlush", "ended"}
    /\ handled \in 0..MaxPackets
    /\ failed \in {"no", "clean", "torn"}

\* Where a Flush is: it has something left to write, and the rest of a packet
\* waits for it only in HandlePacket.
FlushState ==
    /\ pc \in {"flush", "endFlush"} => nwritten < Len(buf)
    /\ pc \in {"up", "ended"} => nwritten = 0
    /\ pc \in {"up", "flush"} => failed = "no"
    /\ pc = "up" => Len(buf) < BufferSize
    /\ pc # "flush" => Len(rest) = 0
    /\ pc = "ended" /\ failed = "no" => Len(buf) = 0

\* What is written, the buffer and the rest join in the stream.
Joined ==
    failed # "torn" =>
        From(out, 0) /\ From(buf, Flushed) /\ From(rest, Flushed + Len(buf))

\* How much of the stream they are: all of it, but for the rest of a packet
\* that was refused.
Counted ==
    /\ failed = "no" => Flushed + Len(buf) + Len(rest) = handled * PktSize
    /\ failed # "no" => handled * PktSize < Flushed + Len(buf) + PktSize
    /\ failed = "clean" => Flushed + Len(buf) <= handled * PktSize

\* The inductive invariant of the sink.
StdoutInv == StdoutTypes /\ FlushState /\ Joined /\ Counted

LEMMA StdoutInitial == Stdout!Init => StdoutInv
<1> SUFFICES ASSUME Stdout!Init PROVE StdoutInv
  OBVIOUS
<1>1. /\ buf = << >> /\ nwritten = 0 /\ rest = << >> /\ pc = "up" /\ handled = 0
      /\ out = << >> /\ failed = "no"
  BY DEF Stdout!Init
<1>2. PktSize \in Nat \ {0} /\ BufferSize \in Nat /\ BufferSize >= PktSize /\ MaxPackets \in Nat
  BY SinkAssumptions DEF Stdout!SinkAssumption
<1>3. << >> \in Seq(Bytes) /\ Len(<< >>) = 0
  BY EmptySeq
<1>4. StdoutTypes
  BY <1>1, <1>2, <1>3 DEF StdoutTypes
<1>5. FlushState /\ Counted
  BY <1>1, <1>2, <1>3 DEF FlushState, Counted, Flushed
<1>6. Joined
  BY <1>1, <1>3 DEF Joined, From
<1> QED
  BY <1>4, <1>5, <1>6 DEF StdoutInv

LEMMA StdoutStep ==
    ASSUME StdoutInv, [Stdout!Next]_(Stdout!vars)
    PROVE  StdoutInv'
<1>1. PktSize \in Nat \ {0} /\ BufferSize \in Nat /\ BufferSize >= PktSize /\ MaxPackets \in Nat
  BY SinkAssumptions DEF Stdout!SinkAssumption
<1>2. StdoutTypes
  BY DEF StdoutInv
<1>3. /\ buf \in Seq(Bytes) /\ rest \in Seq(Bytes) /\ out \in Seq(Bytes)
      /\ Len(buf) <= BufferSize /\ Len(rest) < PktSize
      /\ nwritten \in Nat /\ nwritten <= Len(out)
      /\ Len(buf) \in Nat /\ Len(rest) \in Nat /\ Len(out) \in Nat
      /\ handled \in 0..MaxPackets
  BY <1>2 DEF StdoutTypes
<1>4. handled * PktSize \in Nat
  BY <1>3, StreamBytes
<1>5. << >> \in Seq(Bytes) /\ Len(<< >>) = 0 /\ \A b : From(<< >>, b)
  BY EmptySeq DEF From
<1>6. ASSUME NEW s \in Seq(Bytes) PROVE s = << >> <=> Len(s) = 0
  BY EmptySeq
<1>7. CASE UNCHANGED Stdout!vars
  BY <1>7 DEF Stdout!vars, StdoutInv, StdoutTypes, FlushState, Joined, Counted, Flushed
<1>8. CASE Stdout!Buffered
  <2>1. /\ pc = "up" /\ handled < MaxPackets /\ Len(buf) + PktSize < BufferSize
        /\ buf' = buf \o Stdout!Packet(handled + 1) /\ handled' = handled + 1
        /\ nwritten' = nwritten /\ rest' = rest /\ pc' = pc /\ out' = out /\ failed' = failed
    BY <1>8 DEF Stdout!Buffered
  <2>2. failed = "no" /\ nwritten = 0 /\ Len(rest) = 0
    BY <2>1 DEF StdoutInv, FlushState
  <2>3. Len(out) + Len(buf) = handled * PktSize /\ From(out, 0) /\ From(buf, Len(out))
    <3>1. Flushed = Len(out)
      BY <1>3, <2>2 DEF Flushed
    <3> QED
      BY <1>3, <1>4, <2>2, <3>1 DEF StdoutInv, Joined, Counted
  <2>4. /\ (handled + 1) * PktSize = handled * PktSize + PktSize
        /\ Stdout!Packet(handled + 1) \in Seq(Bytes) /\ Len(Stdout!Packet(handled + 1)) = PktSize
        /\ From(Stdout!Packet(handled + 1), handled * PktSize)
    BY <1>3, <2>1, StreamBytes
  <2>5. /\ buf' \in Seq(Bytes) /\ Len(buf') = Len(buf) + PktSize /\ From(buf', Len(out))
    <3> DEFINE packet == Stdout!Packet(handled + 1)
    <3>1. /\ packet \in Seq(Bytes) /\ Len(packet) = PktSize
          /\ From(packet, Len(out) + Len(buf))
      BY <2>3, <2>4
    <3>2. Len(out) \in Int /\ From(buf, Len(out)) /\ buf' = buf \o packet
      BY <1>3, <2>1, <2>3
    <3> HIDE DEF packet
    <3> QED
      BY <1>3, <3>1, <3>2, FromConcat
  <2>6. Flushed' = Len(out)
    BY <1>3, <2>1, <2>2 DEF Flushed
  <2>7. StdoutTypes'
    BY <1>1, <1>2, <1>3, <2>1, <2>5 DEF StdoutTypes
  <2>8. FlushState'
    BY <1>1, <1>3, <2>1, <2>2, <2>5 DEF FlushState
  <2>9. Joined'
    <3>1. From(rest', Flushed' + Len(buf'))
      BY <1>3, <1>5, <1>6, <2>1, <2>2
    <3> QED
      BY <2>1, <2>3, <2>5, <2>6, <3>1 DEF Joined
  <2>10. Counted'
    <3>1. Flushed' + Len(buf') + Len(rest') = handled' * PktSize
      <4>1. Flushed' + Len(buf') + Len(rest') = handled * PktSize + PktSize
        <5>1. /\ Flushed' = Len(out) /\ Len(buf') = Len(buf) + PktSize /\ Len(rest') = 0
              /\ Len(out) + Len(buf) = handled * PktSize
          BY <2>1, <2>2, <2>3, <2>5, <2>6
        <5>2. /\ Len(out) \in Int /\ Len(buf) \in Int /\ PktSize \in Int
              /\ handled * PktSize \in Int
          BY <1>1, <1>3, <1>4
        <5> QED
          BY <5>1, <5>2
      <4> QED
        BY <2>1, <2>4, <4>1
    <3> QED
      BY <2>1, <2>2, <3>1 DEF Counted
  <2> QED
    BY <2>7, <2>8, <2>9, <2>10 DEF StdoutInv
<1>9. CASE Stdout!FillAndFlush
  <2> DEFINE packet == Stdout!Packet(handled + 1)
             remaining == BufferSize - Len(buf)
  <2>1. /\ pc = "up" /\ handled < MaxPackets /\ Len(buf) + PktSize >= BufferSize
        /\ buf' = buf \o SubSeq(packet, 1, remaining)
        /\ rest' = SubSeq(packet, remaining + 1, PktSize)
        /\ handled' = handled + 1
        /\ nwritten' = 0 /\ pc' = "flush" /\ out' = out /\ failed' = failed
    BY <1>9 DEF Stdout!FillAndFlush, Stdout!Fitting, Stdout!Remainder
  <2>2. failed = "no" /\ nwritten = 0 /\ Len(rest) = 0 /\ Len(buf) < BufferSize
    BY <2>1 DEF StdoutInv, FlushState
  <2>3. Len(out) + Len(buf) = handled * PktSize /\ From(out, 0) /\ From(buf, Len(out))
    <3>1. Flushed = Len(out)
      BY <1>3, <2>2 DEF Flushed
    <3> QED
      BY <1>3, <1>4, <2>2, <3>1 DEF StdoutInv, Joined, Counted
  <2>4. /\ (handled + 1) * PktSize = handled * PktSize + PktSize
        /\ packet \in Seq(Bytes) /\ Len(packet) = PktSize
        /\ From(packet, handled * PktSize)
    BY <1>3, <2>1, StreamBytes
  <2>5. remaining \in Nat /\ 0 < remaining /\ remaining <= PktSize
    BY <1>1, <1>3, <2>1, <2>2
  <2>6. Len(buf) + remaining = BufferSize
    BY <1>1, <1>3
  <2> HIDE DEF packet, remaining
  <2>7. /\ SubSeq(packet, 1, remaining) \in Seq(Bytes)
        /\ Len(SubSeq(packet, 1, remaining)) = remaining
        /\ From(SubSeq(packet, 1, remaining), handled * PktSize)
    BY <1>4, <2>4, <2>5, FromStart
  <2>8. /\ rest' \in Seq(Bytes) /\ Len(rest') = PktSize - remaining
        /\ From(rest', handled * PktSize + remaining)
    BY <1>1, <1>4, <2>1, <2>4, <2>5, FromPart
  <2>9. buf' \in Seq(Bytes) /\ Len(buf') = BufferSize /\ From(buf', Len(out))
    <3> DEFINE first == SubSeq(packet, 1, remaining)
    <3>1. /\ first \in Seq(Bytes) /\ Len(first) = remaining
          /\ From(first, Len(out) + Len(buf))
      BY <2>3, <2>7
    <3>2. Len(out) \in Int /\ From(buf, Len(out)) /\ buf' = buf \o first
      BY <1>3, <2>1, <2>3
    <3> HIDE DEF first
    <3> QED
      BY <1>3, <2>6, <3>1, <3>2, FromConcat
  <2>10. Flushed' = Len(out)
    BY <1>3, <2>1 DEF Flushed
  <2>11. StdoutTypes'
    BY <1>1, <1>2, <1>3, <2>1, <2>5, <2>8, <2>9 DEF StdoutTypes
  <2>12. FlushState'
    BY <1>1, <1>3, <2>1, <2>2, <2>9 DEF FlushState
  <2>13. Joined'
    <3>1. Len(out) + BufferSize = handled * PktSize + remaining
      BY <1>1, <1>3, <1>4, <2>3, <2>5, <2>6
    <3> QED
      BY <2>1, <2>3, <2>8, <2>9, <2>10, <3>1 DEF Joined
  <2>14. Counted'
    <3>1. Flushed' + Len(buf') + Len(rest') = handled' * PktSize
      <4>1. Flushed' + Len(buf') + Len(rest') = handled * PktSize + PktSize
        <5>1. /\ Flushed' = Len(out) /\ Len(buf') = Len(buf) + remaining
              /\ Len(rest') = PktSize - remaining
              /\ Len(out) + Len(buf) = handled * PktSize
          BY <2>3, <2>6, <2>8, <2>9, <2>10
        <5>2. /\ Len(out) \in Int /\ Len(buf) \in Int /\ PktSize \in Int /\ remaining \in Int
              /\ handled * PktSize \in Int
          BY <1>1, <1>3, <1>4, <2>5
        <5> QED
          BY <5>1, <5>2
      <4> QED
        BY <2>1, <2>4, <4>1
    <3> QED
      BY <2>1, <2>2, <3>1 DEF Counted
  <2> QED
    BY <2>11, <2>12, <2>13, <2>14 DEF StdoutInv
<1>10. CASE Stdout!Write
  <2>1. PICK n \in 1..(Len(buf) - nwritten) :
          /\ pc \in {"flush", "endFlush"}
          /\ out' = out \o SubSeq(buf, nwritten + 1, nwritten + n)
          /\ IF nwritten + n < Len(buf)
             THEN nwritten' = nwritten + n /\ buf' = buf /\ rest' = rest /\ pc' = pc
             ELSE /\ nwritten' = 0 /\ buf' = rest /\ rest' = << >>
                  /\ pc' = IF pc = "flush" THEN "up" ELSE "ended"
          /\ handled' = handled /\ failed' = failed
    BY <1>10 DEF Stdout!Write, Stdout!Written
  <2> DEFINE part == SubSeq(buf, nwritten + 1, nwritten + n)
  <2>2. /\ n \in Nat /\ n > 0 /\ nwritten + n \in Nat /\ nwritten <= nwritten + n
        /\ nwritten + n <= Len(buf)
    BY <1>3, <2>1
  <2>3. Flushed \in Nat /\ Flushed + nwritten = Len(out)
    BY <1>3 DEF Flushed
  <2>4. /\ part \in Seq(Bytes) /\ Len(part) = n
        /\ From(buf, Flushed) => From(part, Len(out))
    <3>1. /\ part \in Seq(Bytes) /\ Len(part) = (nwritten + n) - nwritten
          /\ From(buf, Flushed) => From(part, Flushed + nwritten)
      <4>1. Flushed \in Int
        BY <2>3
      <4> HIDE DEF Flushed
      <4> QED
        BY <1>3, <2>2, <4>1, FromPart
    <3>2. (nwritten + n) - nwritten = n
      BY <1>3, <2>2
    <3> QED
      BY <2>3, <3>1, <3>2
  <2> HIDE DEF part
  <2>5. /\ out' \in Seq(Bytes) /\ Len(out') = Len(out) + n
        /\ From(out, 0) /\ From(buf, Flushed) => From(out', 0)
    <3>0. out' = out \o part
      BY <2>1 DEF part
    <3>1. out \o part \in Seq(Bytes) /\ Len(out \o part) = Len(out) + Len(part)
      BY <1>3, <2>4, ConcatProperties
    <3>2. ASSUME From(out, 0), From(part, 0 + Len(out)) PROVE From(out \o part, 0)
      BY <1>3, <2>4, <3>2, FromConcat
    <3> QED
      BY <1>3, <2>4, <3>0, <3>1, <3>2
  <2>6. CASE nwritten + n < Len(buf)
    <3>1. nwritten' = nwritten + n /\ buf' = buf /\ rest' = rest /\ pc' = pc
      BY <2>1, <2>6
    <3>2. Flushed' = Flushed
      BY <1>3, <2>2, <2>3, <2>5, <3>1 DEF Flushed
    <3>3. StdoutTypes'
      BY <1>2, <1>3, <2>1, <2>2, <2>5, <3>1 DEF StdoutTypes
    <3>4. FlushState'
      BY <2>1, <2>6, <3>1 DEF StdoutInv, FlushState
    <3>5. Joined' /\ Counted'
      BY <2>1, <2>5, <3>1, <3>2 DEF StdoutInv, Joined, Counted
    <3> QED
      BY <3>3, <3>4, <3>5 DEF StdoutInv
  <2>7. CASE ~ (nwritten + n < Len(buf))
    <3>1. /\ nwritten' = 0 /\ buf' = rest /\ rest' = << >>
          /\ pc' = IF pc = "flush" THEN "up" ELSE "ended"
      BY <2>1, <2>7
    <3>2. Flushed' = Flushed + Len(buf)
      <4>1. nwritten + n = Len(buf)
        BY <1>3, <2>2, <2>7
      <4>2. Flushed' = Len(out')
        BY <1>3, <2>2, <2>5, <3>1 DEF Flushed
      <4> QED
        <5>1. /\ Flushed' = Len(out) + n /\ Flushed + nwritten = Len(out)
              /\ nwritten + n = Len(buf)
          BY <2>3, <2>5, <4>1, <4>2
        <5>2. /\ Flushed \in Int /\ nwritten \in Int /\ n \in Int
          BY <1>3, <2>2, <2>3
        <5> QED
          BY <5>1, <5>2
    <3>3. StdoutTypes'
      BY <1>1, <1>2, <1>3, <1>5, <2>1, <2>5, <3>1 DEF StdoutTypes
    <3>4. FlushState'
      <4>1. pc = "endFlush" => Len(rest) = 0
        BY DEF StdoutInv, FlushState
      <4>2. pc = "flush" => failed = "no"
        BY DEF StdoutInv, FlushState
      <4> QED
        BY <1>1, <1>3, <1>5, <2>1, <3>1, <4>1, <4>2 DEF FlushState
    <3>5. Joined'
      BY <1>5, <2>1, <2>5, <3>1, <3>2 DEF StdoutInv, Joined
    <3>6. Counted'
      <4>1. pc = "endFlush" => Len(rest) = 0
        BY DEF StdoutInv, FlushState
      <4>2. pc = "flush" => failed = "no"
        BY DEF StdoutInv, FlushState
      <4>3. failed # "no" => Len(rest) = 0
        BY <2>1, <4>1, <4>2
      <4> QED
        BY <1>1, <1>3, <1>4, <1>5, <2>1, <2>3, <3>1, <3>2, <4>3 DEF StdoutInv, Counted
    <3> QED
      BY <3>3, <3>4, <3>5, <3>6 DEF StdoutInv
  <2> QED
    BY <2>6, <2>7
<1>11. CASE Stdout!WriteFails
  <2>1. /\ pc \in {"flush", "endFlush"}
        /\ failed' = IF nwritten > 0 \/ failed = "torn" THEN "torn" ELSE "clean"
        /\ buf' = buf /\ nwritten' = 0 /\ rest' = << >>
        /\ pc' = IF pc = "flush" /\ buf' # << >> THEN "endFlush" ELSE "ended"
        /\ handled' = handled /\ out' = out
    BY <1>11 DEF Stdout!WriteFails, Stdout!Kept
  <2>2. nwritten < Len(buf)
    BY <2>1 DEF StdoutInv, FlushState
  <2>3. Flushed' = Len(out) /\ Flushed \in Nat /\ Flushed + nwritten = Len(out)
    BY <1>3, <2>1 DEF Flushed
  <2>4. StdoutTypes'
    BY <1>1, <1>2, <1>3, <1>5, <2>1 DEF StdoutTypes
  <2>5. FlushState'
    <3>1. pc' \in {"endFlush", "ended"} /\ failed' # "no" /\ 0 < Len(buf')
      BY <1>3, <2>1, <2>2
    <3> QED
      BY <1>5, <2>1, <3>1 DEF FlushState
  <2>6. failed' = "clean" => failed # "torn" /\ nwritten = 0 /\ Flushed' = Flushed
    BY <1>3, <2>1, <2>3
  <2>7. Joined'
    BY <1>5, <2>1, <2>6 DEF StdoutInv, Joined
  <2>8. Counted'
    <3>1. /\ failed = "no" => Flushed + Len(buf) + Len(rest) = handled * PktSize
          /\ failed # "no" => handled * PktSize < Flushed + Len(buf) + PktSize
          /\ failed = "clean" => Flushed + Len(buf) <= handled * PktSize
      BY DEF StdoutInv, Counted
    <3>2. handled * PktSize < Flushed + Len(buf) + PktSize
      BY <1>1, <1>3, <1>4, <2>3, <3>1
    <3>3. handled * PktSize < Flushed' + Len(buf') + PktSize
      BY <1>1, <1>3, <1>4, <2>1, <2>3, <3>2
    <3>4. failed # "torn" => Flushed + Len(buf) <= handled * PktSize
      BY <1>2, <1>3, <1>4, <2>3, <3>1 DEF StdoutTypes
    <3>5. failed' # "no"
      BY <2>1
    <3> QED
      BY <2>1, <2>6, <3>3, <3>4, <3>5 DEF Counted
  <2> QED
    BY <2>4, <2>5, <2>7, <2>8 DEF StdoutInv
<1>12. CASE Stdout!End
  <2>1. /\ pc = "up" /\ pc' = IF buf = << >> THEN "ended" ELSE "endFlush"
        /\ nwritten' = 0 /\ buf' = buf /\ rest' = rest /\ handled' = handled
        /\ out' = out /\ failed' = failed
    BY <1>12 DEF Stdout!End
  <2>2. nwritten = 0 /\ failed = "no" /\ Len(rest) = 0
    BY <2>1 DEF StdoutInv, FlushState
  <2>3. Flushed' = Flushed
    BY <2>1, <2>2 DEF Flushed
  <2>4. StdoutTypes'
    BY <1>2, <1>3, <2>1 DEF StdoutTypes
  <2>5. FlushState'
    <3>1. CASE buf = << >>
      BY <1>5, <2>1, <2>2, <3>1 DEF FlushState
    <3>2. CASE buf # << >>
      <4>1. 0 < Len(buf)
        BY <1>3, <1>6, <3>2
      <4> QED
        BY <2>1, <2>2, <3>2, <4>1 DEF FlushState
    <3> QED
      BY <3>1, <3>2
  <2>6. Joined' /\ Counted'
    BY <2>1, <2>3 DEF StdoutInv, Joined, Counted
  <2> QED
    BY <2>4, <2>5, <2>6 DEF StdoutInv
<1> QED
  BY <1>7, <1>8, <1>9, <1>10, <1>11, <1>12 DEF Stdout!Next

\* What the invariant says of the standard output.
LEMMA StdoutSafe ==
    ASSUME StdoutInv
    PROVE  /\ Stdout!TypeOK /\ Stdout!NothingLost /\ Stdout!OutputInOrder
           /\ Stdout!SecondChance
<1>1. PktSize \in Nat \ {0} /\ BufferSize \in Nat /\ BufferSize >= PktSize /\ MaxPackets \in Nat
  BY SinkAssumptions DEF Stdout!SinkAssumption
<1>2. /\ buf \in Seq(Bytes) /\ rest \in Seq(Bytes) /\ out \in Seq(Bytes)
      /\ Len(buf) <= BufferSize /\ nwritten \in Nat /\ nwritten <= Len(out)
      /\ Len(buf) \in Nat /\ Len(rest) \in Nat /\ Len(out) \in Nat
      /\ handled \in 0..MaxPackets
      /\ pc \in {"up", "flush", "endFlush", "ended"} /\ failed \in {"no", "clean", "torn"}
  BY DEF StdoutInv, StdoutTypes
<1>3. /\ handled * PktSize \in Nat
      /\ Stdout!Stream(handled) \in Seq(Bytes)
      /\ Len(Stdout!Stream(handled)) = handled * PktSize
      /\ From(Stdout!Stream(handled), 0)
  BY <1>2, StreamBytes
<1>4. ASSUME NEW s \in Seq(Bytes) PROVE s = << >> <=> Len(s) = 0
  BY EmptySeq
<1>5. Stdout!TypeOK
  <2>1. nwritten \in 0..BufferSize
    BY <1>1, <1>2 DEF StdoutInv, FlushState
  <2> QED
    BY <1>2, <2>1 DEF Stdout!TypeOK, Bytes
<1>6. ASSUME pc = "up" PROVE out \o buf = Stdout!Stream(handled)
  <2>1. failed = "no" /\ nwritten = 0 /\ Len(rest) = 0
    BY <1>6 DEF StdoutInv, FlushState
  <2>2. Flushed = Len(out)
    BY <1>2, <2>1 DEF Flushed
  <2>3. /\ Len(out) + Len(buf) = handled * PktSize
        /\ From(out, 0) /\ From(buf, 0 + Len(out))
    BY <1>2, <2>1, <2>2 DEF StdoutInv, Joined, Counted
  <2>4. /\ out \o buf \in Seq(Bytes) /\ Len(out \o buf) = handled * PktSize
        /\ From(out \o buf, 0)
    BY <1>2, <2>3, FromConcat
  <2>5. Len(out \o buf) = Len(Stdout!Stream(handled)) /\ 0 \in Int
    BY <1>3, <2>4
  <2> QED
    BY <1>3, <2>4, <2>5, FromEqual
<1>7. ASSUME pc = "ended", failed = "no" PROVE out = Stdout!Stream(handled)
  <2>1. nwritten = 0 /\ Len(rest) = 0 /\ Len(buf) = 0
    BY <1>7 DEF StdoutInv, FlushState
  <2>2. Len(out) = handled * PktSize /\ From(out, 0)
    BY <1>2, <1>7, <2>1 DEF StdoutInv, Joined, Counted, Flushed
  <2> QED
    BY <1>2, <1>3, <2>2, FromEqual
<1>8. ASSUME failed # "torn" PROVE Stdout!IsPrefix(out, Stdout!Stream(handled))
  <2>1. From(out, 0)
    BY <1>8 DEF StdoutInv, Joined
  <2>2. Len(out) <= handled * PktSize
    <3>1. Flushed + Len(buf) <= handled * PktSize
      BY <1>2, <1>3, <1>8 DEF StdoutInv, Counted, Flushed
    <3>2. nwritten <= Len(buf)
      BY <1>2 DEF StdoutInv, FlushState
    <3> QED
      BY <1>2, <1>3, <3>1, <3>2 DEF Flushed
  <2> DEFINE t == SubSeq(Stdout!Stream(handled), 1, Len(out))
             u == SubSeq(out, 1, Len(out))
  <2>3. t \in Seq(Bytes) /\ Len(t) = Len(out) /\ From(t, 0)
    BY <1>2, <1>3, <2>2, FromStart
  <2>4. u \in Seq(Bytes) /\ Len(u) = Len(out) /\ From(u, 0)
    BY <1>2, <2>1, FromStart
  <2> HIDE DEF t, u
  <2>5. t = u
    BY <2>3, <2>4, FromEqual
  <2>6. SubSeq(out, 1, Len(out)) = SubSeq(Stdout!Stream(handled), 1, Len(out))
    BY <2>5 DEF t, u
  <2> QED
    BY <1>3, <2>2, <2>6 DEF Stdout!IsPrefix
<1>9. ASSUME pc = "ended", buf = << >>
      PROVE  handled * PktSize - PktSize < Len(out) \/ handled = 0
  <2>1. nwritten = 0 /\ Len(buf) = 0 /\ Len(rest) = 0
    BY <1>2, <1>4, <1>9 DEF StdoutInv, FlushState
  <2>2. /\ failed = "no" => Len(out) = handled * PktSize
        /\ failed # "no" => handled * PktSize < Len(out) + PktSize
    BY <1>1, <1>2, <1>3, <2>1 DEF StdoutInv, Counted, Flushed
  <2> QED
    BY <1>1, <1>2, <1>3, <2>2
<1> QED
  BY <1>5, <1>6, <1>7, <1>8, <1>9
  DEF Stdout!NothingLost, Stdout!OutputInOrder, Stdout!SecondChance

\* StdoutSink, for every size of packet and buffer, however packets straddle the
\* buffer, writes are short and writes fail: bytes are written in order and
\* once, none is lost unless a write fails, and what was in the buffer then is
\* written by End (HandlePacket, Flush, End).
THEOREM StdoutAlwaysCorrect == Spec => []StdoutCorrect
<1> DEFINE Inv == command = "stdout" => StdoutInv
<1>1. Init => Inv
  BY OneSinkMade, StdoutInitial
<1>2. Inv /\ [Next]_vars => Inv'
  <2> SUFFICES ASSUME Inv, [Next]_vars, command' = "stdout" PROVE StdoutInv'
    OBVIOUS
  <2>1. command = "stdout"
    BY OneSink
  <2>2. StdoutInv /\ [Stdout!Next]_(Stdout!vars)
    BY <2>1, OneSink
  <2> QED
    BY <2>2, StdoutStep
<1>3. Inv => StdoutCorrect
  BY StdoutSafe DEF StdoutCorrect
<1> QED
  BY <1>1, <1>2, <1>3, PTL DEF Spec

-----------------------------------------------------------------------------
(* EitpfCollector. *)

\* The services of which versions are kept.
Kept == IF EitpfSids = {} THEN Services ELSE EitpfSids

LEMMA KeptFinite == IsFiniteSet(Kept) /\ IsFiniteSet(EitpfSids) /\ Kept \subseteq Services
<1>1. /\ Eitpf!IsFiniteSet(Services) /\ EitpfSids \subseteq Services
  BY SinkAssumptions DEF Eitpf!EitpfAssumption
<1>2. IsFiniteSet(Services)
  BY <1>1 DEF Eitpf!IsFiniteSet, IsFiniteSet
<1>3. IsFiniteSet(EitpfSids)
  BY <1>1, <1>2, FS_Subset
<1> QED
  BY <1>1, <1>2, <1>3 DEF Kept

\* A map of as many services as were asked for has exactly those, although Done
\* compares sizes only.
LEMMA SameServices ==
    ASSUME NEW D \in SUBSET Kept, Eitpf!Cardinality(D) = Eitpf!Cardinality(EitpfSids)
    PROVE  D = EitpfSids
<1>1. Cardinality(D) = Cardinality(EitpfSids)
  BY DEF Eitpf!Cardinality, Cardinality
<1>2. CASE EitpfSids = {}
  <2>1. IsFiniteSet(D) /\ Cardinality(D) = 0
    BY <1>1, <1>2, KeptFinite, FS_Subset, FS_EmptySet
  <2> QED
    BY <1>2, <2>1, FS_EmptySet
<1>3. CASE EitpfSids # {}
  <2>1. D \in SUBSET EitpfSids
    BY <1>3 DEF Kept
  <2> QED
    BY <1>1, <2>1, KeptFinite, FS_Subset
<1> QED
  BY <1>2, <1>3

\* Generations are told apart by their version numbers.
LEMMA VersionOf ==
    ASSUME NEW g \in 0..MaxGen
    PROVE  Eitpf!Version(g) = g /\ g \in 0..(NumVersions - 1)
<1>1. MaxGen \in Nat /\ NumVersions \in Nat /\ NumVersions > MaxGen
  BY SinkAssumptions DEF Eitpf!EitpfAssumption
<1>2. g \in Nat /\ g < NumVersions
  BY <1>1
<1> QED
  BY <1>1, <1>2 DEF Eitpf!Version

Histories == [Services -> [{0, 1} -> Seq(0..MaxGen)]]

EitpfTypes ==
    /\ gen \in [Services -> 0..MaxGen]
    /\ option \in Eitpf!Options
    /\ run \in {"up", "ended"}
    /\ DOMAIN versions = {0, 1}
    /\ \A n \in {0, 1} : /\ DOMAIN versions[n] \in SUBSET Kept
                         /\ versions[n] \in [DOMAIN versions[n] -> 0..(NumVersions - 1)]
    /\ output \in Histories
    /\ seen \in Histories

\* The version kept of a section is the one received last.
LastKept(v, q) ==
    \A s \in Services, n \in {0, 1} :
        /\ s \in DOMAIN v[n] <=> q[s][n] # << >>
        /\ q[s][n] # << >> => v[n][s] = q[s][n][Len(q[s][n])]

\* Generations come in order.
GensInOrder ==
    \A s \in Services, n \in {0, 1} :
        seen[s][n] # << >> =>
            /\ seen[s][n][Len(seen[s][n])] <= gen[s]
            /\ \A i \in 1..Len(seen[s][n]) : seen[s][n][i] <= seen[s][n][Len(seen[s][n])]

\* The inductive invariant of the collector.
EitpfInv ==
    /\ EitpfTypes
    /\ LastKept(versions, seen)
    /\ GensInOrder
    /\ Eitpf!PrintsChanges
    /\ Eitpf!ConsistentAtEnd

LEMMA EitpfInitial == Eitpf!Init => EitpfInv
<1> SUFFICES ASSUME Eitpf!Init PROVE EitpfInv
  OBVIOUS
<1>1. /\ gen = [s \in Services |-> 0] /\ option \in Eitpf!Options /\ run = "up"
      /\ versions = [n \in {0, 1} |-> << >>]
      /\ output = [s \in Services |-> [n \in {0, 1} |-> << >>]] /\ seen = output
  BY DEF Eitpf!Init, Eitpf!Numbers
<1>2. MaxGen \in Nat
  BY SinkAssumptions DEF Eitpf!EitpfAssumption
<1>3. \A S : << >> \in Seq(S) /\ << >> \in [{} -> S] /\ DOMAIN << >> = {}
  OBVIOUS
<1>4. DOMAIN versions = {0, 1} /\ \A n \in {0, 1} : versions[n] = << >>
  BY <1>1
<1>5. \A s \in Services, n \in {0, 1} : output[s][n] = << >> /\ seen[s][n] = << >>
  BY <1>1
<1>6. output \in Histories /\ seen \in Histories
  BY <1>1, <1>3 DEF Histories
<1>7. EitpfTypes
  BY <1>1, <1>2, <1>3, <1>4, <1>6 DEF EitpfTypes
<1>8. LastKept(versions, seen)
  BY <1>3, <1>4, <1>5 DEF LastKept
<1>9. GensInOrder
  BY <1>5 DEF GensInOrder
<1>10. Eitpf!PrintsChanges /\ Eitpf!ConsistentAtEnd
  BY <1>1 DEF Eitpf!PrintsChanges, Eitpf!ConsistentAtEnd
<1> QED
  BY <1>7, <1>8, <1>9, <1>10 DEF EitpfInv

\* When Done lets the collector stop, the last lines of a service agree.
LEMMA DoneConsistent ==
    ASSUME NEW o \in Eitpf!Options, NEW v, NEW p, NEW q \in Histories,
           \A n \in {0, 1} : DOMAIN v[n] \in SUBSET Kept,
           LastKept(v, q),
           \A s \in Services, n \in o.wanted : p[s][n] = q[s][n],
           Eitpf!Done(o, v),
           NEW s \in EitpfSids, NEW m \in o.wanted, NEW n \in o.wanted
    PROVE  /\ p[s][m] # << >> /\ p[s][n] # << >>
           /\ Eitpf!Last(p[s][m]) = Eitpf!Last(p[s][n])
<1>1. s \in Services
  BY SinkAssumptions DEF Eitpf!EitpfAssumption
<1>2. o.wanted \in {{0}, {1}, {0, 1}}
  BY DEF Eitpf!Options
<1>3. \A k \in o.wanted : k \in {0, 1} /\ DOMAIN v[k] = EitpfSids
  BY <1>2, SameServices DEF Eitpf!Done
<1>4. \A k \in o.wanted : q[s][k] # << >> /\ v[k][s] = q[s][k][Len(q[s][k])]
  BY <1>1, <1>3 DEF LastKept
<1>5. v[m][s] = v[n][s]
  <2>1. CASE o.wanted = {0, 1}
    <3>1. v[1][s] = v[0][s]
      BY <1>3, <2>1 DEF Eitpf!Done, Eitpf!Numbers
    <3> QED
      BY <2>1, <3>1
  <2>2. CASE o.wanted # {0, 1}
    BY <1>2, <2>2
  <2> QED
    BY <2>1, <2>2
<1>6. q[s][m][Len(q[s][m])] = q[s][n][Len(q[s][n])]
  BY <1>4, <1>5
<1> QED
  BY <1>1, <1>4, <1>6 DEF Eitpf!Last

\* A section counts as collected if its generation was received before.
LEMMA CollectedSeen ==
    ASSUME EitpfTypes, LastKept(versions, seen), GensInOrder,
           NEW s \in Services, NEW n \in {0, 1}
    PROVE  Eitpf!IsCollected(s, n) <=> gen[s] \in Eitpf!ToSet(seen[s][n])
<1> DEFINE q == seen[s][n]
<1>1. q \in Seq(0..MaxGen) /\ gen[s] \in 0..MaxGen
  BY DEF EitpfTypes, Histories
<1>2. MaxGen \in Nat
  BY SinkAssumptions DEF Eitpf!EitpfAssumption
<1>3. Eitpf!Version(gen[s]) = gen[s]
  BY <1>1, VersionOf
<1>4. /\ s \in DOMAIN versions[n] <=> q # << >>
      /\ q # << >> => versions[n][s] = q[Len(q)]
  BY DEF LastKept
<1>5. q # << >> => q[Len(q)] <= gen[s] /\ \A i \in 1..Len(q) : q[i] <= q[Len(q)]
  BY DEF GensInOrder
<1> HIDE DEF q
<1>6. Eitpf!ToSet(q) = {q[i] : i \in 1..Len(q)}
  BY <1>1 DEF Eitpf!ToSet
<1>7. ASSUME q # << >> PROVE Len(q) \in 1..Len(q) /\ q[Len(q)] \in Int
  <2>1. Len(q) \in Nat \ {0}
    BY <1>1, <1>7, EmptySeq
  <2>2. Len(q) \in 1..Len(q)
    BY <2>1
  <2>3. q[Len(q)] \in 0..MaxGen
    BY <1>1, <2>2, ElementOfSeq
  <2> QED
    BY <1>2, <2>2, <2>3
<1>8. ASSUME Eitpf!IsCollected(s, n) PROVE gen[s] \in Eitpf!ToSet(q)
  <2>1. q # << >> /\ q[Len(q)] = gen[s]
    BY <1>3, <1>4, <1>8 DEF Eitpf!IsCollected
  <2> QED
    BY <1>6, <1>7, <2>1
<1>9. ASSUME gen[s] \in Eitpf!ToSet(q) PROVE Eitpf!IsCollected(s, n)
  <2>1. PICK i \in 1..Len(q) : q[i] = gen[s]
    BY <1>6, <1>9
  <2>2. q # << >>
    BY <2>1
  <2>3. q[Len(q)] = gen[s]
    <3>1. gen[s] \in Int /\ q[Len(q)] \in Int
      BY <1>1, <1>2, <1>7, <2>2
    <3>2. gen[s] <= q[Len(q)] /\ q[Len(q)] <= gen[s]
      BY <1>5, <2>1, <2>2
    <3> QED
      BY <3>1, <3>2
  <2> QED
    BY <1>3, <1>4, <2>2, <2>3 DEF Eitpf!IsCollected
<1> QED
  BY <1>8, <1>9 DEF q

LEMMA EitpfStep ==
    ASSUME EitpfInv, [Eitpf!Next]_(Eitpf!vars)
    PROVE  EitpfInv'
<1>1. MaxGen \in Nat /\ NumVersions \in Nat /\ NumVersions > MaxGen
  BY SinkAssumptions DEF Eitpf!EitpfAssumption
<1>2. EitpfTypes /\ LastKept(versions, seen) /\ GensInOrder /\ Eitpf!PrintsChanges
  BY DEF EitpfInv
<1>3. /\ gen \in [Services -> 0..MaxGen] /\ option \in Eitpf!Options
      /\ output \in Histories /\ seen \in Histories
      /\ DOMAIN versions = {0, 1}
      /\ \A n \in {0, 1} : /\ DOMAIN versions[n] \in SUBSET Kept
                           /\ versions[n] \in [DOMAIN versions[n] -> 0..(NumVersions - 1)]
  BY <1>2 DEF EitpfTypes
<1>4. option.wanted \in {{0}, {1}, {0, 1}}
  BY <1>3 DEF Eitpf!Options
\* A packet that may end the collection.
<1>5. ASSUME EitpfTypes', LastKept(versions, seen)', Eitpf!PrintsChanges', run = "up",
             option' = option,
             run' = IF Eitpf!Done(option, versions') THEN "ended" ELSE run
      PROVE  Eitpf!ConsistentAtEnd'
  <2> SUFFICES ASSUME Eitpf!Done(option, versions')
               PROVE  \A s \in EitpfSids : \A m, n \in option.wanted :
                          /\ output'[s][m] # << >> /\ output'[s][n] # << >>
                          /\ Eitpf!Last(output'[s][m]) = Eitpf!Last(output'[s][n])
    BY <1>5 DEF Eitpf!ConsistentAtEnd
  <2>1. /\ seen' \in Histories /\ \A n \in {0, 1} : DOMAIN versions'[n] \in SUBSET Kept
        /\ LastKept(versions', seen')
    BY <1>5 DEF EitpfTypes, LastKept
  <2>2. \A s \in Services, n \in option.wanted : output'[s][n] = seen'[s][n]
    BY <1>5 DEF Eitpf!PrintsChanges
  <2> QED
    BY <1>3, <2>1, <2>2, DoneConsistent
<1>6. CASE UNCHANGED Eitpf!vars
  BY <1>6 DEF Eitpf!vars, EitpfInv, EitpfTypes, LastKept, GensInOrder, Eitpf!PrintsChanges,
       Eitpf!ConsistentAtEnd
<1>7. CASE Eitpf!HandleOther
  <2>1. /\ run = "up" /\ run' = IF Eitpf!Done(option, versions) THEN "ended" ELSE run
        /\ gen' = gen /\ option' = option /\ versions' = versions /\ output' = output
        /\ seen' = seen
    BY <1>7 DEF Eitpf!HandleOther
  <2>2. EitpfTypes' /\ LastKept(versions, seen)' /\ GensInOrder' /\ Eitpf!PrintsChanges'
    BY <1>2, <2>1 DEF EitpfTypes, LastKept, GensInOrder, Eitpf!PrintsChanges
  <2> QED
    BY <1>5, <2>1, <2>2 DEF EitpfInv
<1>8. ASSUME NEW s \in Services, Eitpf!Update(s) PROVE EitpfInv'
  <2>1. /\ run = "up" /\ gen[s] < MaxGen /\ gen' = [gen EXCEPT ![s] = @ + 1]
        /\ option' = option /\ run' = run /\ versions' = versions /\ output' = output
        /\ seen' = seen
    BY <1>8 DEF Eitpf!Update
  <2>2. gen' \in [Services -> 0..MaxGen] /\ \A t \in Services : gen[t] <= gen'[t]
    BY <1>1, <1>3, <2>1
  <2>3. EitpfTypes' /\ LastKept(versions, seen)' /\ Eitpf!PrintsChanges'
        /\ Eitpf!ConsistentAtEnd'
    BY <1>2, <2>1, <2>2
    DEF EitpfTypes, LastKept, Eitpf!PrintsChanges, Eitpf!ConsistentAtEnd
  <2>4. GensInOrder'
    <3> SUFFICES ASSUME NEW t \in Services, NEW n \in {0, 1}, seen[t][n] # << >>
                 PROVE  /\ seen[t][n][Len(seen[t][n])] <= gen'[t]
                        /\ \A i \in 1..Len(seen[t][n]) :
                               seen[t][n][i] <= seen[t][n][Len(seen[t][n])]
      BY <2>1 DEF GensInOrder
    <3> DEFINE q == seen[t][n]
    <3>1. q[Len(q)] <= gen[t] /\ \A i \in 1..Len(q) : q[i] <= q[Len(q)]
      BY <1>2 DEF GensInOrder
    <3>2. q \in Seq(0..MaxGen) /\ q # << >>
      BY <1>3 DEF Histories
    <3> HIDE DEF q
    <3>3. Len(q) \in 1..Len(q)
      BY <3>2, EmptySeq
    <3>4. q[Len(q)] \in Int /\ gen[t] \in Int /\ gen'[t] \in Int
      BY <1>1, <1>3, <2>2, <3>2, <3>3, ElementOfSeq
    <3>5. gen[t] <= gen'[t]
      BY <2>2
    <3>6. q[Len(q)] <= gen'[t]
      BY <3>1, <3>4, <3>5
    <3> QED
      BY <3>1, <3>6 DEF q
  <2> QED
    BY <2>3, <2>4 DEF EitpfInv
<1>9. ASSUME NEW s \in Services, NEW n \in {0, 1}, Eitpf!HandleSection(s, n) PROVE EitpfInv'
  <2>1. /\ run = "up" /\ Eitpf!Included(s)
        /\ run' = IF Eitpf!Done(option, versions') THEN "ended" ELSE run
        /\ gen' = gen /\ option' = option
        /\ seen' = [seen EXCEPT ![s][n] =
                       IF gen[s] \in Eitpf!ToSet(@) THEN @ ELSE Append(@, gen[s])]
    BY <1>9 DEF Eitpf!HandleSection
  <2>2. Eitpf!IsCollected(s, n) <=> gen[s] \in Eitpf!ToSet(seen[s][n])
    BY <1>2, CollectedSeen
  <2>3. run' \in {"up", "ended"}
    BY <2>1
  <2>4. CASE Eitpf!IsCollected(s, n)
    <3>1. versions' = versions /\ output' = output
      BY <1>9, <2>4 DEF Eitpf!HandleSection
    <3>2. seen' = seen
      BY <1>3, <2>1, <2>2, <2>4 DEF Histories
    <3>3. EitpfTypes' /\ LastKept(versions, seen)' /\ GensInOrder' /\ Eitpf!PrintsChanges'
      BY <1>2, <2>1, <2>3, <3>1, <3>2
      DEF EitpfTypes, LastKept, GensInOrder, Eitpf!PrintsChanges
    <3> QED
      BY <1>5, <2>1, <3>3 DEF EitpfInv
  <2>5. CASE ~ Eitpf!IsCollected(s, n)
    <3> DEFINE q == seen[s][n]
               r == Append(q, gen[s])
               D == DOMAIN versions[n] \cup {s}
               f == [t \in D |-> IF t = s THEN gen[s] ELSE versions[n][t]]
    <3>1. q \in Seq(0..MaxGen) /\ gen[s] \in 0..MaxGen
      BY <1>3 DEF Histories
    <3>2. Eitpf!Version(gen[s]) = gen[s] /\ gen[s] \in 0..(NumVersions - 1)
      BY <3>1, VersionOf
    <3>3. versions' = [versions EXCEPT ![n] = f]
      BY <1>9, <2>5, <3>2 DEF Eitpf!HandleSection, Eitpf!Stored
    <3>4. output' = IF n \in option.wanted
                    THEN [output EXCEPT ![s][n] = Append(@, gen[s])] ELSE output
      BY <1>9, <2>5 DEF Eitpf!HandleSection
    <3>5. seen' = [seen EXCEPT ![s][n] = r]
      BY <1>3, <2>1, <2>2, <2>5 DEF Histories
    <3>6. /\ r \in Seq(0..MaxGen) /\ r # << >> /\ Len(r) = Len(q) + 1
          /\ \A i \in 1..Len(q) : r[i] = q[i]
          /\ r[Len(q) + 1] = gen[s]
      BY <3>1, AppendProperties
    <3>7. s \in Kept
      BY <2>1 DEF Eitpf!Included, Kept
    <3>8. /\ f \in [D -> 0..(NumVersions - 1)] /\ DOMAIN f = D /\ D \in SUBSET Kept
          /\ f[s] = gen[s] /\ \A t \in DOMAIN versions[n] : t # s => f[t] = versions[n][t]
      BY <1>3, <3>2, <3>7
    <3>9. /\ DOMAIN versions' = {0, 1} /\ versions'[n] = f
          /\ \A m \in {0, 1} : m # n => versions'[m] = versions[m]
      BY <1>3, <3>3
    <3>10. /\ seen' \in Histories /\ seen'[s][n] = r
           /\ \A t \in Services, m \in {0, 1} :
                 t # s \/ m # n => seen'[t][m] = seen[t][m]
      <4> HIDE DEF r
      <4> QED
        BY <1>3, <3>5, <3>6 DEF Histories
    <3>11. /\ output' \in Histories
           /\ n \in option.wanted => output'[s][n] = Append(output[s][n], gen[s])
           /\ \A t \in Services, m \in {0, 1} :
                 t # s \/ m # n => output'[t][m] = output[t][m]
      <4>1. output[s][n] \in Seq(0..MaxGen)
        BY <1>3 DEF Histories
      <4>2. Append(output[s][n], gen[s]) \in Seq(0..MaxGen)
        BY <3>1, <4>1, AppendProperties
      <4> QED
        BY <1>3, <3>4, <4>2 DEF Histories
    <3> HIDE DEF f, D, r
    <3>12. EitpfTypes'
      <4>1. ASSUME NEW m \in {0, 1}
            PROVE  /\ DOMAIN versions'[m] \in SUBSET Kept
                   /\ versions'[m] \in [DOMAIN versions'[m] -> 0..(NumVersions - 1)]
        BY <1>3, <3>8, <3>9
      <4> QED
        BY <1>3, <2>1, <2>3, <3>9, <3>10, <3>11, <4>1 DEF EitpfTypes
    <3>13. Len(r) \in 1..Len(r) /\ r[Len(r)] = gen[s]
      BY <3>1, <3>6
    <3>14. LastKept(versions', seen')
      <4> SUFFICES ASSUME NEW t \in Services, NEW m \in {0, 1}
                   PROVE  /\ t \in DOMAIN versions'[m] <=> seen'[t][m] # << >>
                          /\ seen'[t][m] # << >> =>
                                versions'[m][t] = seen'[t][m][Len(seen'[t][m])]
        BY DEF LastKept
      <4>1. CASE t = s /\ m = n
        BY <3>6, <3>8, <3>9, <3>10, <3>13, <4>1 DEF D
      <4>2. CASE t # s /\ m = n
        BY <1>2, <3>8, <3>9, <3>10, <4>2 DEF D, LastKept
      <4>3. CASE m # n
        BY <1>2, <3>9, <3>10, <4>3 DEF LastKept
      <4> QED
        BY <4>1, <4>2, <4>3
    <3>15. GensInOrder'
      <4> SUFFICES ASSUME NEW t \in Services, NEW m \in {0, 1}, seen'[t][m] # << >>
                   PROVE  /\ seen'[t][m][Len(seen'[t][m])] <= gen[t]
                          /\ \A i \in 1..Len(seen'[t][m]) :
                                seen'[t][m][i] <= seen'[t][m][Len(seen'[t][m])]
        BY <2>1 DEF GensInOrder
      <4>1. CASE t = s /\ m = n
        <5>1. seen'[t][m] = r
          BY <3>10, <4>1
        <5>2. ASSUME NEW i \in 1..Len(r) PROVE r[i] <= gen[s]
          <6>1. CASE i = Len(q) + 1
            BY <1>1, <3>1, <3>6, <6>1
          <6>2. CASE i # Len(q) + 1
            <7>1. i \in 1..Len(q)
              BY <3>1, <3>6, <6>2
            <7>2. q # << >> /\ Len(q) \in 1..Len(q)
              BY <3>1, <7>1
            <7>3. q[i] <= q[Len(q)] /\ q[Len(q)] <= gen[s]
              BY <1>2, <7>1, <7>2 DEF GensInOrder
            <7>4. q[i] \in Int /\ q[Len(q)] \in Int /\ gen[s] \in Int
              BY <1>1, <3>1, <7>1, <7>2, ElementOfSeq
            <7>5. q[i] <= gen[s] /\ r[i] = q[i]
              BY <3>6, <7>1, <7>3, <7>4
            <7> QED
              BY <7>5
          <6> QED
            BY <6>1, <6>2
        <5> QED
          BY <3>13, <4>1, <5>1, <5>2
      <4>2. CASE t # s \/ m # n
        <5>1. seen'[t][m] = seen[t][m]
          BY <3>10, <4>2
        <5> QED
          BY <1>2, <5>1 DEF GensInOrder
      <4> QED
        BY <4>1, <4>2
    <3>16. Eitpf!PrintsChanges'
      <4> SUFFICES ASSUME NEW t \in Services, NEW m \in option.wanted
                   PROVE  output'[t][m] = seen'[t][m]
        BY <2>1 DEF Eitpf!PrintsChanges
      <4>1. m \in {0, 1} /\ output[t][m] = seen[t][m]
        BY <1>2, <1>4 DEF Eitpf!PrintsChanges
      <4>2. CASE t = s /\ m = n
        BY <3>10, <3>11, <4>1, <4>2 DEF r
      <4>3. CASE t # s \/ m # n
        BY <3>10, <3>11, <4>1, <4>3
      <4> QED
        BY <4>2, <4>3
    <3>17. LastKept(versions, seen)'
      BY <3>14 DEF LastKept
    <3>18. Eitpf!ConsistentAtEnd'
      BY <1>5, <2>1, <3>12, <3>16, <3>17
    <3> QED
      BY <3>12, <3>15, <3>16, <3>17, <3>18 DEF EitpfInv
  <2> QED
    BY <2>4, <2>5
<1> QED
  BY <1>6, <1>7, <1>8, <1>9 DEF Eitpf!Next, Eitpf!Numbers

\* What the invariant says of the collector.
LEMMA EitpfSafe ==
    ASSUME EitpfInv
    PROVE  Eitpf!TypeOK /\ Eitpf!NoThrow /\ Eitpf!PrintsChanges /\ Eitpf!ConsistentAtEnd
<1>1. EitpfTypes /\ Eitpf!PrintsChanges /\ Eitpf!ConsistentAtEnd
  BY DEF EitpfInv
<1>2. Eitpf!TypeOK
  BY <1>1 DEF EitpfTypes, Eitpf!TypeOK, Eitpf!Numbers, Histories, Kept
<1>3. Eitpf!NoThrow
  BY <1>1, SameServices DEF EitpfTypes, Eitpf!NoThrow, Eitpf!Numbers
<1> QED
  BY <1>1, <1>2, <1>3

\* EitpfCollector, for any number of services and any order of sections and
\* changes: what is printed is each generation received, once and in order; at
\* the end the last lines of a service are of one generation; and no lookup in
\* Done throws (HandleSection, IsCollected, Done).
THEOREM EitpfAlwaysCorrect == Spec => []EitpfCorrect
<1> DEFINE Inv == command = "collect-eitpf" => EitpfInv
<1>1. Init => Inv
  BY OneSinkMade, EitpfInitial
<1>2. Inv /\ [Next]_vars => Inv'
  <2> SUFFICES ASSUME Inv, [Next]_vars, command' = "collect-eitpf" PROVE EitpfInv'
    OBVIOUS
  <2>1. command = "collect-eitpf"
    BY OneSink
  <2>2. EitpfInv /\ [Eitpf!Next]_(Eitpf!vars)
    BY <2>1, OneSink
  <2> QED
    BY <2>2, EitpfStep
<1>3. Inv => EitpfCorrect
  BY EitpfSafe DEF EitpfCorrect
<1> QED
  BY <1>1, <1>2, <1>3, PTL DEF Spec

-----------------------------------------------------------------------------
(* PcrSynchronizer. *)

\* Each service has a PID of its own for its PMT.
OwnPmtPids ==
    \A p \in SyncPats : \A s, t \in Synchronizer!Wanted(p) : p[s] = p[t] => s = t

SyncTypes ==
    /\ pat \in SyncPats /\ pmts \in [Sids -> SyncPcrPids]
    /\ run \in {"up", "ended"}
    /\ time \in 0..MaxError
    /\ started \in BOOLEAN /\ done \in BOOLEAN
    /\ known = [pat |-> known.pat, sdt |-> known.sdt, pmts |-> known.pmts]
    /\ known.pat \in SyncPats \cup {<< >>}
    /\ run = "up" => ~ done

\* The demultiplexer looks at the PMTs of the services announced and no others.
SyncFollowed ==
    /\ DOMAIN pmt_pids = Synchronizer!Wanted(known.pat)
    /\ \A s \in DOMAIN pmt_pids : pmt_pids[s] = known.pat[s]
    /\ demuxed \subseteq {PatPid, SdtPid, TotPid} \cup {pmt_pids[s] : s \in Synchronizer!Announced}
    /\ pmt_count = Cardinality(Synchronizer!Announced)
    /\ <<SdtPid, 0>> \notin reported => known.sdt = {}
    /\ run = "up" /\ DOMAIN pmt_pids = {} =>
          demuxed = {PatPid} /\ known.sdt = {} /\ pcr_pids = {}

\* What is known from the PMTs.
PmtsFollowed ==
    /\ DOMAIN pcr_pid_map \subseteq Synchronizer!Announced
    /\ \A s \in Synchronizer!Wanted(known.pat) :
          s \in DOMAIN pcr_pid_map <=> s \in DOMAIN known.pmts
    /\ \A s \in DOMAIN pcr_pid_map :
          /\ pcr_pid_map[s] = known.pmts[s] /\ pcr_pid_map[s] \in SyncPcrPids
          /\ pcr_pid_map[s] # NullPid => pcr_pid_map[s] \in pcr_pids
    /\ pcr_pids \subseteq SyncPcrPids \ {NullPid}

\* The TOT is looked at when all PMTs are there, and PCRs after a TOT.
SyncStarted ==
    /\ started => TotPid \in demuxed
    /\ TotPid \in demuxed =>
          <<SdtPid, 0>> \in reported /\ DOMAIN pcr_pid_map = Synchronizer!Announced
    /\ DOMAIN pcr_map \subseteq pcr_pids
    /\ \A p \in DOMAIN pcr_map : pcr_map[p] \in -MaxError..MaxError

\* The inductive invariant of the synchronizer.
SyncInv ==
    SyncTypes /\ SyncFollowed /\ PmtsFollowed /\ SyncStarted /\ Synchronizer!OutputComplete

LEMMA EmptyMap ==
    /\ DOMAIN << >> = {}
    /\ Synchronizer!Nothing = << >>
    /\ \A f, S : Synchronizer!Restrict(f, S) = << >> <=> S = {}
    /\ Synchronizer!Wanted(<< >>) = {}
<1>1. DOMAIN << >> = {}
  OBVIOUS
<1>2. \A f, S : DOMAIN Synchronizer!Restrict(f, S) = S
  BY DEF Synchronizer!Restrict
<1>3. ASSUME NEW f PROVE Synchronizer!Restrict(f, {}) = << >>
  BY DEF Synchronizer!Restrict
<1> QED
  BY <1>1, <1>2, <1>3 DEF Synchronizer!Nothing, Synchronizer!Wanted

LEMMA SyncConstants ==
    /\ \A p \in SyncPats : Synchronizer!Wanted(p) \subseteq Sids /\ Synchronizer!Wanted(p) \subseteq DOMAIN p
    /\ \A p \in SyncPats : \A s \in DOMAIN p :
          p[s] \notin {PatPid, SdtPid, TotPid} /\ p[s] \in Synchronizer!PmtPids
    /\ PatPid # SdtPid /\ PatPid # TotPid /\ SdtPid # TotPid
    /\ MaxError \in Nat /\ 0 \notin Sids
    /\ \A S \in SUBSET Sids : IsFiniteSet(S) /\ Cardinality(S) \in Nat
    /\ \A S : Synchronizer!Cardinality(S) = Cardinality(S)
    /\ Cardinality({}) = 0
<1>1. Synchronizer!SynchronizerAssumption
  BY SinkAssumptions
<1>2. IsFiniteSet(Sids)
  BY <1>1 DEF Synchronizer!SynchronizerAssumption, Synchronizer!IsFiniteSet, IsFiniteSet
<1>3. \A S \in SUBSET Sids : IsFiniteSet(S) /\ Cardinality(S) \in Nat
  BY <1>2, FS_Subset, FS_CardinalityType
<1>4. \A S : Synchronizer!Cardinality(S) = Cardinality(S)
  BY DEF Synchronizer!Cardinality, Cardinality
<1>5. \A p \in SyncPats : \A s \in DOMAIN p : p[s] \in Synchronizer!PmtPids
  BY DEF Synchronizer!PmtPids, Synchronizer!Range
<1>6. \A q \in Synchronizer!PmtPids : q \notin {PatPid, SdtPid, TotPid}
  BY <1>1 DEF Synchronizer!SynchronizerAssumption
<1>7. \A p \in SyncPats : Synchronizer!Wanted(p) \subseteq Sids
  BY <1>1 DEF Synchronizer!SynchronizerAssumption
<1>8. \A p : Synchronizer!Wanted(p) \subseteq DOMAIN p
  BY DEF Synchronizer!Wanted
<1>9. PatPid # SdtPid /\ PatPid # TotPid /\ SdtPid # TotPid /\ MaxError \in Nat
      /\ 0 \notin Sids
  BY <1>1 DEF Synchronizer!SynchronizerAssumption
<1> QED
  BY <1>3, <1>4, <1>5, <1>6, <1>7, <1>8, <1>9, FS_EmptySet

LEMMA SyncInitial == Synchronizer!Init => SyncInv
<1> SUFFICES ASSUME Synchronizer!Init PROVE SyncInv
  OBVIOUS
<1>1. /\ pat \in SyncPats /\ pmts \in [Sids -> SyncPcrPids] /\ run = "up" /\ demuxed = {PatPid}
      /\ reported = {} /\ pmt_pids = << >> /\ pmt_count = 0 /\ pcr_pid_map = << >>
      /\ pcr_pids = {} /\ pcr_map = << >> /\ time = MaxError /\ started = FALSE
      /\ done = FALSE /\ known = [pat |-> << >>, sdt |-> {}, pmts |-> << >>]
  BY EmptyMap DEF Synchronizer!Init
<1>2. known.pat = << >> /\ known.sdt = {} /\ known.pmts = << >>
  BY <1>1
<1>3. MaxError \in Nat /\ Cardinality({}) = 0 /\ DOMAIN << >> = {}
  BY SyncConstants, EmptyMap
<1>4. Synchronizer!Announced = {} /\ Synchronizer!Wanted(known.pat) = {}
  BY <1>2, EmptyMap DEF Synchronizer!Announced
<1>5. SyncTypes
  <2>1. time \in 0..MaxError
    BY <1>1, <1>3
  <2>2. known = [pat |-> known.pat, sdt |-> known.sdt, pmts |-> known.pmts]
    BY <1>1, <1>2
  <2> QED
    BY <1>1, <1>2, <2>1, <2>2 DEF SyncTypes
<1>6. SyncFollowed
  BY <1>1, <1>2, <1>3, <1>4, EmptyMap DEF SyncFollowed
<1>7. PmtsFollowed
  BY <1>1, <1>2, <1>3, <1>4, EmptyMap DEF PmtsFollowed
<1>8. SyncStarted
  BY <1>1, <1>3, SyncConstants DEF SyncStarted
<1>9. Synchronizer!OutputComplete
  BY <1>1 DEF Synchronizer!OutputComplete
<1> QED
  BY <1>5, <1>6, <1>7, <1>8, <1>9 DEF SyncInv

\* A PMT on a PID that is looked at, and of a service the PAT gives that PID, is
\* of a service announced.
LEMMA PmtOfAnnounced ==
    ASSUME SyncTypes, SyncFollowed, OwnPmtPids,
           NEW s \in Synchronizer!Wanted(known.pat), known.pat[s] \in demuxed
    PROVE  s \in Synchronizer!Announced /\ <<SdtPid, 0>> \in reported
<1>1. known.pat \in SyncPats
  BY EmptyMap DEF SyncTypes
<1>2. s \in DOMAIN known.pat /\ known.pat[s] \notin {PatPid, SdtPid, TotPid}
  BY <1>1, SyncConstants
<1>3. PICK t \in Synchronizer!Announced : known.pat[s] = pmt_pids[t]
  BY <1>2 DEF SyncFollowed
<1>4. t \in Synchronizer!Wanted(known.pat) /\ pmt_pids[t] = known.pat[t]
  BY DEF SyncFollowed, Synchronizer!Announced
<1>5. s = t
  BY <1>1, <1>3, <1>4 DEF OwnPmtPids
<1>6. known.sdt # {}
  BY <1>3 DEF Synchronizer!Announced
<1> QED
  BY <1>3, <1>5, <1>6 DEF SyncFollowed

LEMMA SyncStep ==
    ASSUME SyncInv, [Synchronizer!Next]_(Synchronizer!vars), OwnPmtPids, "SDT" \notin Changing
    PROVE  SyncInv'
<1>1. SyncTypes /\ SyncFollowed /\ PmtsFollowed /\ SyncStarted
  BY DEF SyncInv
<1> DEFINE W == Synchronizer!Wanted(known.pat)
           A == Synchronizer!Announced
<1>2. /\ A = W \cap known.sdt /\ A \subseteq W
      /\ W \subseteq Sids /\ W \subseteq DOMAIN known.pat
      /\ W # {} => known.pat \in SyncPats
      /\ \A s \in W : known.pat[s] \notin {PatPid, SdtPid, TotPid}
  <2>1. CASE known.pat = << >>
    BY <2>1, EmptyMap DEF Synchronizer!Announced
  <2>2. CASE known.pat \in SyncPats
    BY <2>2, SyncConstants DEF Synchronizer!Announced
  <2> QED
    BY <1>1, <2>1, <2>2 DEF SyncTypes
<1>3. /\ PatPid # SdtPid /\ PatPid # TotPid /\ SdtPid # TotPid /\ MaxError \in Nat
      /\ DOMAIN << >> = {} /\ Cardinality({}) = 0
      /\ \A S \in SUBSET Sids : IsFiniteSet(S) /\ Cardinality(S) \in Nat
  BY SyncConstants, EmptyMap
<1>4. CASE UNCHANGED Synchronizer!vars
  BY <1>4 DEF Synchronizer!vars, Synchronizer!stream, Synchronizer!collected, SyncInv, SyncTypes,
       SyncFollowed, PmtsFollowed, SyncStarted, Synchronizer!OutputComplete,
       Synchronizer!Announced, Synchronizer!Output
<1>5. CASE Synchronizer!HandlePat
  <2>1. /\ run = "up" /\ pat' = pat /\ pmts' = pmts /\ time' = time
        /\ pmt_pids' = Synchronizer!Restrict(pat, Synchronizer!Wanted(pat))
        /\ done' = (pmt_pids' = << >>)
        /\ run' = IF done' THEN "ended" ELSE "up"
        /\ known' = [known EXCEPT !.pat = pat, !.pmts = << >>,
                                  !.sdt = IF pmt_pids # << >> THEN {} ELSE @]
    BY <1>5, EmptyMap
    DEF Synchronizer!HandlePat, Synchronizer!Reports, Synchronizer!stream, Synchronizer!Ends
  <2>2. ASSUME pmt_pids = << >>
        PROVE  /\ demuxed = {PatPid} /\ known.sdt = {} /\ A = {} /\ pcr_pids = {}
               /\ started = FALSE
    BY <1>1, <1>2, <1>3, <2>1, <2>2 DEF SyncFollowed, SyncStarted, SyncTypes
  <2>3. /\ known' = [pat |-> pat, sdt |-> {}, pmts |-> << >>]
        /\ known'.pat = pat /\ known'.sdt = {} /\ known'.pmts = << >>
    BY <1>1, <2>1, <2>2 DEF SyncTypes
  <2>4. demuxed' \subseteq {PatPid, SdtPid}
    <3>1. CASE pmt_pids = << >>
      <4>1. demuxed' = (demuxed \ {}) \cup {SdtPid}
        BY <1>5, <3>1, EmptyMap DEF Synchronizer!HandlePat
      <4> QED
        BY <2>2, <3>1, <4>1
    <3>2. CASE pmt_pids # << >>
      <4>1. demuxed' = (demuxed \ Synchronizer!Removed) \cup {SdtPid}
        BY <1>5, <3>2, EmptyMap DEF Synchronizer!HandlePat
      <4>2. \A s \in A : pmt_pids[s] \in Synchronizer!Removed
        BY <1>1, <1>2 DEF SyncFollowed, Synchronizer!Removed, Synchronizer!Range
      <4>3. TotPid \in Synchronizer!Removed
        BY DEF Synchronizer!Removed
      <4> QED
        BY <1>1, <4>1, <4>2, <4>3 DEF SyncFollowed
    <3> QED
      BY <3>1, <3>2
  <2>5. /\ pmt_count' = 0 /\ DOMAIN pcr_pid_map' = {} /\ pcr_pids' = {}
        /\ DOMAIN pcr_map' = {} /\ started' = FALSE
    <3>1. CASE pmt_pids = << >>
      <4>1. /\ pmt_count' = pmt_count /\ pcr_pid_map' = pcr_pid_map /\ pcr_pids' = pcr_pids
            /\ pcr_map' = pcr_map /\ started' = started
        BY <1>5, <3>1, EmptyMap DEF Synchronizer!HandlePat
      <4> QED
        BY <1>1, <1>3, <2>2, <3>1, <4>1 DEF SyncFollowed, PmtsFollowed, SyncStarted
    <3>2. CASE pmt_pids # << >>
      <4>1. /\ pmt_count' = 0 /\ pcr_pid_map' = << >> /\ pcr_pids' = {} /\ pcr_map' = << >>
            /\ started' = FALSE
        BY <1>5, <3>2, EmptyMap
        DEF Synchronizer!HandlePat, Synchronizer!CountAfterReset, Synchronizer!PcrsAfterReset,
            Synchronizer!StartedAfterReset
      <4> QED
        BY <1>3, <4>1
    <3> QED
      BY <3>1, <3>2
  <2>6. /\ Synchronizer!Announced' = {} /\ Synchronizer!Output' = {}
    BY <2>3, <2>5 DEF Synchronizer!Announced, Synchronizer!Output
  <2>7. /\ DOMAIN pmt_pids' = Synchronizer!Wanted(pat)
        /\ \A s \in DOMAIN pmt_pids' : pmt_pids'[s] = pat[s]
        /\ done' <=> Synchronizer!Wanted(pat) = {}
    BY <2>1, EmptyMap DEF Synchronizer!Restrict
  <2>8. SyncTypes'
    <3>1. done' \in BOOLEAN
      BY <2>1
    <3>2. pat \in SyncPats /\ pmts \in [Sids -> SyncPcrPids] /\ time \in 0..MaxError
      BY <1>1 DEF SyncTypes
    <3>3. run' \in {"up", "ended"} /\ (run' = "up" => ~ done')
      BY <2>1
    <3> QED
      BY <2>1, <2>3, <2>5, <3>1, <3>2, <3>3 DEF SyncTypes
  <2>9. SyncFollowed'
    BY <1>3, <2>1, <2>3, <2>4, <2>5, <2>6, <2>7 DEF SyncFollowed
  <2>10. PmtsFollowed'
    BY <1>3, <2>3, <2>5, <2>6 DEF PmtsFollowed
  <2>11. SyncStarted'
    BY <1>3, <2>4, <2>5 DEF SyncStarted
  <2>12. Synchronizer!OutputComplete'
    BY <2>6 DEF Synchronizer!OutputComplete
  <2> QED
    BY <2>8, <2>9, <2>10, <2>11, <2>12 DEF SyncInv
<1>6. CASE Synchronizer!HandleSdt
  <2> DEFINE services == DOMAIN pmt_pids \cap sdt
  <2>1. /\ run = "up" /\ SdtPid \in demuxed /\ <<SdtPid, 0>> \notin reported
        /\ pmt_count' = pmt_count + Cardinality(services)
        /\ demuxed' = demuxed \cup {pmt_pids[s] : s \in services}
        /\ reported' = reported \cup {<<SdtPid, 0>>}
        /\ known' = [known EXCEPT !.sdt = sdt]
        /\ pat' = pat /\ pmts' = pmts /\ run' = run /\ pmt_pids' = pmt_pids
        /\ pcr_pid_map' = pcr_pid_map /\ pcr_pids' = pcr_pids /\ pcr_map' = pcr_map
        /\ time' = time /\ started' = started /\ done' = done
    BY <1>6, SyncConstants
    DEF Synchronizer!HandleSdt, Synchronizer!Reports, Synchronizer!stream
  <2>2. known.sdt = {} /\ A = {} /\ DOMAIN pcr_pid_map = {} /\ TotPid \notin demuxed
    BY <1>1, <1>2, <2>1 DEF SyncFollowed, PmtsFollowed, SyncStarted
  <2>3. /\ known' = [pat |-> known.pat, sdt |-> sdt, pmts |-> known.pmts]
        /\ known'.pat = known.pat /\ known'.sdt = sdt /\ known'.pmts = known.pmts
    BY <1>1, <2>1 DEF SyncTypes
  <2>4. Synchronizer!Announced' = services /\ services \subseteq W
    BY <1>1, <2>3 DEF Synchronizer!Announced, SyncFollowed
  <2>5. pmt_count' = Cardinality(services)
    <3>1. pmt_count = 0
      BY <1>1, <1>3, <2>2 DEF SyncFollowed
    <3>2. Cardinality(services) \in Nat
      BY <1>2, <1>3, <2>4
    <3> QED
      BY <2>1, <3>1, <3>2
  <2> HIDE DEF services
  <2>6. TotPid \notin demuxed'
    BY <1>1, <1>2, <2>1, <2>2, <2>4 DEF SyncFollowed
  <2>7. SyncTypes'
    BY <1>1, <2>1, <2>3 DEF SyncTypes
  <2>8. SyncFollowed'
    <3>1. demuxed \subseteq {PatPid, SdtPid, TotPid}
      BY <1>1, <2>2 DEF SyncFollowed
    <3>2. DOMAIN pmt_pids # {}
      BY <1>1, <1>3, <2>1 DEF SyncFollowed
    <3> QED
      BY <1>1, <2>1, <2>3, <2>4, <2>5, <3>1, <3>2 DEF SyncFollowed
  <2>9. PmtsFollowed'
    BY <1>1, <2>1, <2>2, <2>3 DEF PmtsFollowed
  <2>10. SyncStarted'
    BY <1>1, <2>1, <2>2, <2>6 DEF SyncStarted
  <2>11. Synchronizer!OutputComplete'
    BY <1>1, <2>1 DEF Synchronizer!OutputComplete, SyncTypes
  <2> QED
    BY <2>7, <2>8, <2>9, <2>10, <2>11 DEF SyncInv
<1>7. ASSUME NEW s \in Sids, NEW pid \in Synchronizer!PmtPids, Synchronizer!HandlePmt(pid, s)
      PROVE  SyncInv'
  <2> DEFINE P == [x \in DOMAIN known.pmts \cup {s} |->
                      IF x = s THEN pmts[s] ELSE known.pmts[x]]
  <2>1. /\ run = "up" /\ pid \in demuxed /\ reported' = reported \cup {<<pid, s>>}
        /\ known' = IF s \in DOMAIN known.pat /\ known.pat[s] = pid
                    THEN [known EXCEPT !.pmts = P] ELSE known
        /\ pat' = pat /\ pmts' = pmts /\ run' = run /\ pmt_pids' = pmt_pids
        /\ pmt_count' = pmt_count /\ pcr_map' = pcr_map /\ time' = time
        /\ started' = started /\ done' = done
    BY <1>7 DEF Synchronizer!HandlePmt, Synchronizer!Reports, Synchronizer!stream
  <2>2. /\ known' = [pat |-> known.pat, sdt |-> known.sdt, pmts |-> known'.pmts]
        /\ known'.pat = known.pat /\ known'.sdt = known.sdt
        /\ \/ known'.pmts = known.pmts /\ ~ (s \in DOMAIN known.pat /\ known.pat[s] = pid)
           \/ known'.pmts = P /\ s \in DOMAIN known.pat /\ known.pat[s] = pid
    <3>1. CASE s \in DOMAIN known.pat /\ known.pat[s] = pid
      <4>1. known' = [known EXCEPT !.pmts = P]
        BY <2>1, <3>1
      <4> HIDE DEF P
      <4>2. known' = [pat |-> known.pat, sdt |-> known.sdt, pmts |-> P]
        BY <1>1, <4>1 DEF SyncTypes
      <4> QED
        BY <3>1, <4>2
    <3>2. CASE ~ (s \in DOMAIN known.pat /\ known.pat[s] = pid)
      <4>1. known' = known
        BY <2>1, <3>2
      <4> QED
        BY <1>1, <3>2, <4>1 DEF SyncTypes
    <3> QED
      BY <3>1, <3>2
  <2>3. Synchronizer!Announced' = A
    BY <2>2 DEF Synchronizer!Announced
  <2>4. Synchronizer!Matches(pid, s) <=> s \in W /\ known.pat[s] = pid
    BY <1>1 DEF SyncFollowed, Synchronizer!Matches
  <2>5. /\ pmts[s] \in SyncPcrPids
        /\ DOMAIN P = DOMAIN known.pmts \cup {s} /\ P[s] = pmts[s]
        /\ \A x \in DOMAIN known.pmts : x # s => P[x] = known.pmts[x]
    BY <1>1 DEF SyncTypes
  <2>6. SyncTypes'
    BY <1>1, <2>1, <2>2 DEF SyncTypes
  <2>7. Synchronizer!OutputComplete'
    BY <1>1, <2>1 DEF Synchronizer!OutputComplete, SyncTypes
  <2> HIDE DEF P
  <2>8. CASE ~ Synchronizer!Matches(pid, s)
    <3>1. pcr_pid_map' = pcr_pid_map /\ pcr_pids' = pcr_pids /\ demuxed' = demuxed
      BY <1>7, <2>8 DEF Synchronizer!HandlePmt
    <3>2. SyncFollowed'
      BY <1>1, <2>1, <2>2, <2>3, <3>1 DEF SyncFollowed
    <3>3. \A x \in W : /\ x \in DOMAIN known'.pmts <=> x \in DOMAIN known.pmts
                       /\ x \in DOMAIN known.pmts => known'.pmts[x] = known.pmts[x]
      BY <1>2, <2>2, <2>4, <2>5, <2>8
    <3>4. PmtsFollowed'
      BY <1>1, <1>2, <2>2, <2>3, <3>1, <3>3 DEF PmtsFollowed
    <3>5. SyncStarted'
      BY <1>1, <2>1, <2>3, <3>1 DEF SyncStarted
    <3> QED
      BY <2>6, <2>7, <3>2, <3>4, <3>5 DEF SyncInv
  <2>9. CASE Synchronizer!Matches(pid, s)
    <3> DEFINE M == [x \in DOMAIN pcr_pid_map \cup {s} |->
                        IF x = s THEN pmts[s] ELSE pcr_pid_map[x]]
    <3>1. /\ pcr_pid_map' = M /\ pcr_pids' = pcr_pids \cup ({pmts[s]} \ {NullPid})
          /\ demuxed' = demuxed \cup
                (IF Synchronizer!AllPmts(pcr_pid_map') THEN {TotPid} ELSE {})
      BY <1>7, <2>9 DEF Synchronizer!HandlePmt
    <3>2. s \in A /\ <<SdtPid, 0>> \in reported
      BY <1>1, <2>1, <2>4, <2>9, PmtOfAnnounced
    <3>3. known'.pmts = P
      BY <1>2, <2>2, <2>4, <2>9
    <3>4. /\ DOMAIN M = DOMAIN pcr_pid_map \cup {s} /\ M[s] = pmts[s]
          /\ \A x \in DOMAIN pcr_pid_map : x # s => M[x] = pcr_pid_map[x]
      OBVIOUS
    <3> HIDE DEF M
    <3>5. DOMAIN M \subseteq A
      BY <1>1, <3>2, <3>4 DEF PmtsFollowed
    <3>6. TotPid \in demuxed' => DOMAIN M = A
      <4>1. CASE TotPid \in demuxed
        BY <1>1, <3>2, <3>4, <4>1 DEF SyncStarted
      <4>2. CASE Synchronizer!AllPmts(pcr_pid_map')
        <5>1. Cardinality(DOMAIN M) = Cardinality(A)
          BY <1>1, <3>1, <4>2, SyncConstants DEF Synchronizer!AllPmts, SyncFollowed
        <5>2. IsFiniteSet(A)
          BY <1>2, <1>3
        <5> QED
          BY <3>5, <5>1, <5>2, FS_Subset
      <4> QED
        BY <3>1, <4>1, <4>2
    <3>7. SyncFollowed'
      <4>1. demuxed' \subseteq {PatPid, SdtPid, TotPid} \cup {pmt_pids[x] : x \in A}
        BY <1>1, <3>1 DEF SyncFollowed
      <4>2. DOMAIN pmt_pids # {}
        BY <1>1, <2>4, <2>9 DEF SyncFollowed
      <4> QED
        BY <1>1, <2>1, <2>2, <2>3, <4>1, <4>2 DEF SyncFollowed
    <3>8. PmtsFollowed'
      <4>1. ASSUME NEW x \in W PROVE x \in DOMAIN M <=> x \in DOMAIN P
        BY <1>1, <2>5, <3>4 DEF PmtsFollowed
      <4>2. ASSUME NEW x \in DOMAIN M
            PROVE  /\ M[x] = P[x] /\ M[x] \in SyncPcrPids
                   /\ M[x] # NullPid => M[x] \in pcr_pids'
        <5>1. CASE x = s
          BY <2>5, <3>1, <3>4, <5>1
        <5>2. CASE x # s
          <6>1. x \in DOMAIN pcr_pid_map /\ x \in W
            BY <1>1, <1>2, <3>4, <5>2 DEF PmtsFollowed
          <6> QED
            BY <1>1, <2>5, <3>1, <3>4, <5>2, <6>1 DEF PmtsFollowed
        <5> QED
          BY <5>1, <5>2
      <4>3. pcr_pids' \subseteq SyncPcrPids \ {NullPid}
        BY <1>1, <2>5, <3>1 DEF PmtsFollowed
      <4> QED
        BY <2>2, <2>3, <3>1, <3>3, <3>5, <4>1, <4>2, <4>3 DEF PmtsFollowed
    <3>9. SyncStarted'
      BY <1>1, <2>1, <2>3, <3>1, <3>2, <3>6 DEF SyncStarted
    <3> QED
      BY <2>6, <2>7, <3>7, <3>8, <3>9 DEF SyncInv
  <2> QED
    BY <2>8, <2>9
<1>8. CASE Synchronizer!HandleTot
  <2>1. /\ run = "up"
        /\ IF TotPid \in demuxed
           THEN /\ started' = TRUE /\ time' = 0
                /\ pcr_map' = [p \in DOMAIN pcr_map |->
                                 Synchronizer!Saturated(pcr_map[p] - time)]
           ELSE started' = started /\ pcr_map' = pcr_map /\ time' = time
        /\ pat' = pat /\ pmts' = pmts /\ run' = run /\ demuxed' = demuxed
        /\ reported' = reported /\ pmt_pids' = pmt_pids /\ pmt_count' = pmt_count
        /\ pcr_pid_map' = pcr_pid_map /\ pcr_pids' = pcr_pids /\ done' = done /\ known' = known
    BY <1>8 DEF Synchronizer!HandleTot
  <2>2. started' \in BOOLEAN /\ (started' => TotPid \in demuxed)
    BY <1>1, <2>1 DEF SyncTypes, SyncStarted
  <2>3. time' \in 0..MaxError
    BY <1>1, <1>3, <2>1 DEF SyncTypes
  <2>4. DOMAIN pcr_map' = DOMAIN pcr_map /\ \A p \in DOMAIN pcr_map' : pcr_map'[p] \in -MaxError..MaxError
    <3>1. CASE TotPid \in demuxed
      <4>1. ASSUME NEW p \in DOMAIN pcr_map
            PROVE  Synchronizer!Saturated(pcr_map[p] - time) \in -MaxError..MaxError
        <5>1. pcr_map[p] \in -MaxError..MaxError /\ time \in 0..MaxError
          BY <1>1 DEF SyncStarted, SyncTypes
        <5> QED
          BY <1>3, <5>1 DEF Synchronizer!Saturated
      <4> QED
        BY <2>1, <3>1, <4>1
    <3>2. CASE TotPid \notin demuxed
      BY <1>1, <2>1, <3>2 DEF SyncStarted
    <3> QED
      BY <3>1, <3>2
  <2>5. SyncTypes'
    BY <1>1, <2>1, <2>2, <2>3 DEF SyncTypes
  <2>6. SyncFollowed' /\ PmtsFollowed'
    BY <1>1, <2>1 DEF SyncFollowed, PmtsFollowed, Synchronizer!Announced
  <2>7. SyncStarted'
    BY <1>1, <2>1, <2>2, <2>4 DEF SyncStarted, Synchronizer!Announced
  <2>8. Synchronizer!OutputComplete'
    BY <1>1, <2>1 DEF Synchronizer!OutputComplete, SyncTypes
  <2> QED
    BY <2>5, <2>6, <2>7, <2>8 DEF SyncInv
<1>9. ASSUME NEW pid \in SyncPcrPids \ {NullPid}, Synchronizer!HandlePcr(pid) PROVE SyncInv'
  <2>1. /\ run = "up"
        /\ pcr_map' = IF Synchronizer!IsWanted(pid)
                      THEN [p \in DOMAIN pcr_map \cup {pid} |->
                              IF p = pid THEN time ELSE pcr_map[p]]
                      ELSE pcr_map
        /\ done' = (Synchronizer!IsWanted(pid) /\ DOMAIN pcr_map' = pcr_pids)
        /\ run' = IF done' THEN "ended" ELSE "up"
        /\ pat' = pat /\ pmts' = pmts /\ demuxed' = demuxed /\ reported' = reported
        /\ pmt_pids' = pmt_pids /\ pmt_count' = pmt_count /\ pcr_pid_map' = pcr_pid_map
        /\ pcr_pids' = pcr_pids /\ time' = time /\ started' = started /\ known' = known
    BY <1>9 DEF Synchronizer!HandlePcr, Synchronizer!Ends
  <2>2. SyncTypes'
    <3>1. done' \in BOOLEAN /\ run' \in {"up", "ended"} /\ (run' = "up" => ~ done')
      BY <2>1
    <3> QED
      BY <1>1, <2>1, <3>1 DEF SyncTypes
  <2>3. SyncFollowed' /\ PmtsFollowed'
    BY <1>1, <2>1 DEF SyncFollowed, PmtsFollowed, Synchronizer!Announced
  <2>4. /\ DOMAIN pcr_map' \subseteq pcr_pids
        /\ \A p \in DOMAIN pcr_map' : pcr_map'[p] \in -MaxError..MaxError
    <3>1. time \in -MaxError..MaxError
      BY <1>1, <1>3 DEF SyncTypes
    <3> QED
      BY <1>1, <2>1, <3>1 DEF SyncStarted, Synchronizer!IsWanted
  <2>5. SyncStarted'
    BY <1>1, <2>1, <2>4 DEF SyncStarted, Synchronizer!Announced
  <2>6. Synchronizer!OutputComplete'
    <3> SUFFICES ASSUME done' PROVE Synchronizer!OutputComplete'
      BY DEF Synchronizer!OutputComplete
    <3>1. started /\ DOMAIN pcr_map' = pcr_pids
      BY <2>1 DEF Synchronizer!IsWanted
    <3>2. DOMAIN pcr_pid_map = A
      BY <1>1, <3>1 DEF SyncStarted
    <3>3. Synchronizer!Announced' = A
      BY <2>1 DEF Synchronizer!Announced
    <3>4. Synchronizer!Output' = {s \in A : pcr_pid_map[s] \in pcr_pids}
      BY <2>1, <3>1, <3>2 DEF Synchronizer!Output
    <3>5. \A s \in A : /\ s \in DOMAIN known.pmts /\ pcr_pid_map[s] = known.pmts[s]
                       /\ pcr_pid_map[s] \in pcr_pids <=> pcr_pid_map[s] # NullPid
      BY <1>1, <1>2, <3>2 DEF PmtsFollowed
    <3>6. known' = known /\ pcr_pid_map' = pcr_pid_map
      BY <2>1
    <3> HIDE DEF A
    <3> QED
      BY <3>3, <3>4, <3>5, <3>6 DEF Synchronizer!OutputComplete
  <2> QED
    BY <2>2, <2>3, <2>5, <2>6 DEF SyncInv
<1>10. CASE Synchronizer!End
  <2>1. /\ run = "up" /\ run' = "ended" /\ pat' = pat /\ pmts' = pmts /\ demuxed' = demuxed
        /\ reported' = reported /\ pmt_pids' = pmt_pids /\ pmt_count' = pmt_count
        /\ pcr_pid_map' = pcr_pid_map /\ pcr_pids' = pcr_pids /\ pcr_map' = pcr_map
        /\ time' = time /\ started' = started /\ done' = done /\ known' = known
    BY <1>10 DEF Synchronizer!End, Synchronizer!stream, Synchronizer!collected
  <2> QED
    BY <1>1, <2>1 DEF SyncInv, SyncTypes, SyncFollowed, PmtsFollowed, SyncStarted,
         Synchronizer!OutputComplete, Synchronizer!Announced
<1>11. CASE Synchronizer!Tick
  <2>1. /\ run = "up" /\ time' = Synchronizer!Saturated(time + 1)
        /\ run' = run /\ pat' = pat /\ pmts' = pmts /\ demuxed' = demuxed
        /\ reported' = reported /\ pmt_pids' = pmt_pids /\ pmt_count' = pmt_count
        /\ pcr_pid_map' = pcr_pid_map /\ pcr_pids' = pcr_pids /\ pcr_map' = pcr_map
        /\ started' = started /\ done' = done /\ known' = known
    BY <1>11 DEF Synchronizer!Tick
  <2>2. time' \in 0..MaxError
    <3>1. time \in 0..MaxError
      BY <1>1 DEF SyncTypes
    <3> QED
      BY <1>3, <2>1, <3>1 DEF Synchronizer!Saturated
  <2> QED
    BY <1>1, <2>1, <2>2 DEF SyncInv, SyncTypes, SyncFollowed, PmtsFollowed, SyncStarted,
         Synchronizer!OutputComplete, Synchronizer!Announced
<1>12. CASE Synchronizer!Change
  <2>1. /\ run = "up" /\ run' = run /\ demuxed' = demuxed
        /\ pmt_pids' = pmt_pids /\ pmt_count' = pmt_count
        /\ pcr_pid_map' = pcr_pid_map /\ pcr_pids' = pcr_pids /\ pcr_map' = pcr_map
        /\ time' = time /\ started' = started /\ done' = done /\ known' = known
    BY <1>12 DEF Synchronizer!Change, Synchronizer!collected
  <2>2. /\ pat' \in SyncPats /\ pmts' \in [Sids -> SyncPcrPids]
        /\ <<SdtPid, 0>> \in reported => <<SdtPid, 0>> \in reported'
    <3>0. pat \in SyncPats /\ pmts \in [Sids -> SyncPcrPids]
      BY <1>1 DEF SyncTypes
    <3>1. CASE pat' \in SyncPats /\ pmts' = pmts /\ reported' = Synchronizer!Without({PatPid}, reported)
      BY <1>3, <3>0, <3>1 DEF Synchronizer!Without
    <3>2. ASSUME NEW s \in Sids, NEW p \in SyncPcrPids, pmts' = [pmts EXCEPT ![s] = p],
                 reported' = {r \in reported : r[2] # s}, pat' = pat
          PROVE  /\ pat' \in SyncPats /\ pmts' \in [Sids -> SyncPcrPids]
                 /\ <<SdtPid, 0>> \in reported => <<SdtPid, 0>> \in reported'
      <4>1. s # 0 /\ <<SdtPid, 0>>[2] = 0
        BY SyncConstants
      <4> QED
        BY <3>0, <3>2, <4>1
    <3> QED
      BY <1>12, <3>1, <3>2 DEF Synchronizer!Change
  <2> QED
    BY <1>1, <2>1, <2>2 DEF SyncInv, SyncTypes, SyncFollowed, PmtsFollowed, SyncStarted,
         Synchronizer!OutputComplete, Synchronizer!Announced
<1> QED
  BY <1>4, <1>5, <1>6, <1>7, <1>8, <1>9, <1>10, <1>11, <1>12
  DEF Synchronizer!Next, Synchronizer!Pmt

LEMMA SyncSafe ==
    ASSUME SyncInv
    PROVE  Synchronizer!TypeOK /\ Synchronizer!OutputComplete
<1>1. SyncTypes /\ SyncFollowed /\ PmtsFollowed /\ SyncStarted
  BY DEF SyncInv
<1> DEFINE W == Synchronizer!Wanted(known.pat)
           A == Synchronizer!Announced
<1>2. A \subseteq W /\ W \subseteq Sids /\ \A s \in W : known.pat[s] \in Synchronizer!PmtPids
  <2>1. CASE known.pat = << >>
    BY <2>1, EmptyMap DEF Synchronizer!Announced
  <2>2. CASE known.pat \in SyncPats
    BY <2>2, SyncConstants DEF Synchronizer!Announced
  <2> QED
    BY <1>1, <2>1, <2>2 DEF SyncTypes
<1>3. demuxed \subseteq Synchronizer!PmtPids \cup {PatPid, SdtPid, TotPid}
  BY <1>1, <1>2 DEF SyncFollowed
<1>4. DOMAIN pmt_pids \subseteq Sids /\ Synchronizer!Range(pmt_pids) \subseteq Synchronizer!PmtPids
  BY <1>1, <1>2 DEF SyncFollowed, Synchronizer!Range
<1>5. pmt_count \in Nat
  BY <1>1, <1>2, SyncConstants DEF SyncFollowed
<1>6. /\ DOMAIN pcr_pid_map \subseteq Sids /\ Synchronizer!Range(pcr_pid_map) \subseteq SyncPcrPids
      /\ pcr_pids \subseteq SyncPcrPids \ {NullPid}
  BY <1>1, <1>2 DEF PmtsFollowed, Synchronizer!Range
<1>7. /\ DOMAIN pcr_map \subseteq pcr_pids
      /\ Synchronizer!Range(pcr_map) \subseteq -MaxError..MaxError
  BY <1>1 DEF SyncStarted, Synchronizer!Range
<1>8. Synchronizer!TypeOK
  BY <1>1, <1>3, <1>4, <1>5, <1>6, <1>7 DEF Synchronizer!TypeOK, SyncTypes
<1> QED
  BY <1>8 DEF SyncInv

\* PcrSynchronizer, for any services, PIDs and order of tables, and PATs and
\* PMTs that change at any time: when it ends by itself every service announced
\* has been followed to its PMT and has a clock of the PID the PMT names.  A
\* second version of the SDT would be counted twice; two services with PMTs on
\* one PID could be taken for one another.
THEOREM ClocksAlwaysComplete ==
    ASSUME "SDT" \notin Changing, OwnPmtPids
    PROVE  Spec => [](command = "sync-clocks" =>
                         Synchronizer!TypeOK /\ Synchronizer!OutputComplete)
<1> DEFINE Inv == command = "sync-clocks" => SyncInv
<1>1. Init => Inv
  BY OneSinkMade, SyncInitial
<1>2. Inv /\ [Next]_vars => Inv'
  <2> SUFFICES ASSUME Inv, [Next]_vars, command' = "sync-clocks" PROVE SyncInv'
    OBVIOUS
  <2>1. command = "sync-clocks"
    BY OneSink
  <2>2. SyncInv /\ [Synchronizer!Next]_(Synchronizer!vars)
    BY <2>1, OneSink
  <2> QED
    BY <2>2, SyncStep
<1>3. Inv => (command = "sync-clocks" => Synchronizer!TypeOK /\ Synchronizer!OutputComplete)
  BY SyncSafe
<1> QED
  BY <1>1, <1>2, <1>3, PTL DEF Spec

\* How old the PCRs are: each PID that is awaited has PCRs, so one that has not
\* been taken since the TOT is to come within the interval of PCRs, and all are
\* there before the next TOT.
Timely ==
    /\ since_tot \in 0..TotInterval
    /\ since_pcr \in [SyncPcrPids \ {NullPid} -> Nat]
    /\ \A p \in Synchronizer!Carried : since_pcr[p] <= PcrInterval
    /\ \A s \in DOMAIN pcr_pid_map : pcr_pid_map[s] = pmts[s]
    /\ pcr_pids \subseteq Synchronizer!Carried
    /\ started => /\ time <= since_tot
                  /\ \A p \in pcr_pids \ DOMAIN pcr_map : since_tot <= since_pcr[p]
    /\ ~ started => DOMAIN pcr_map = {}
    /\ run = "up" /\ DOMAIN pcr_map # {} => pcr_pids # DOMAIN pcr_map
    /\ \A p \in DOMAIN pcr_map : pcr_map[p] \in 0..PcrInterval

LEMMA TimelyInitial == Synchronizer!Init => Timely
<1> SUFFICES ASSUME Synchronizer!Init PROVE Timely
  OBVIOUS
<1>1. /\ since_tot \in 0..TotInterval /\ since_pcr = [p \in SyncPcrPids \ {NullPid} |-> 0]
      /\ pmts \in [Sids -> SyncPcrPids]
      /\ pcr_pid_map = << >> /\ pcr_pids = {} /\ pcr_map = << >> /\ started = FALSE
  BY EmptyMap DEF Synchronizer!Init
<1>2. PcrInterval \in Nat
  BY SinkAssumptions DEF Synchronizer!SynchronizerAssumption
<1>3. Synchronizer!Carried \subseteq SyncPcrPids \ {NullPid}
  BY <1>1 DEF Synchronizer!Carried, Synchronizer!Range
<1>4. since_pcr \in [SyncPcrPids \ {NullPid} -> Nat]
  BY <1>1
<1>5. \A p \in Synchronizer!Carried : since_pcr[p] <= PcrInterval
  BY <1>1, <1>2, <1>3
<1> QED
  BY <1>1, <1>4, <1>5, EmptyMap DEF Timely

LEMMA TimelyStep ==
    ASSUME SyncInv, Timely, [Synchronizer!Next]_(Synchronizer!vars), OwnPmtPids,
           Changing \subseteq {"PAT"}, Regular
    PROVE  Timely'
<1>1. SyncTypes /\ SyncFollowed /\ PmtsFollowed /\ SyncStarted
  BY DEF SyncInv
<1>2. PcrInterval \in Nat /\ TotInterval \in Nat /\ TotInterval > PcrInterval /\ MaxError \in Nat
  BY SinkAssumptions DEF Synchronizer!SynchronizerAssumption
<1>3. /\ pmts \in [Sids -> SyncPcrPids] /\ time \in 0..MaxError /\ started \in BOOLEAN
      /\ DOMAIN pcr_map \subseteq pcr_pids
  BY <1>1 DEF SyncTypes, SyncStarted
<1>4. Synchronizer!Carried \subseteq SyncPcrPids \ {NullPid}
  BY <1>3 DEF Synchronizer!Carried, Synchronizer!Range
<1>5. /\ since_tot \in 0..TotInterval
      /\ since_pcr \in [SyncPcrPids \ {NullPid} -> Nat]
      /\ \A p \in Synchronizer!Carried : since_pcr[p] \in Nat /\ since_pcr[p] <= PcrInterval
      /\ pcr_pids \subseteq Synchronizer!Carried
  BY <1>4 DEF Timely
<1>6. CASE UNCHANGED Synchronizer!vars
  BY <1>6 DEF Synchronizer!vars, Synchronizer!stream, Synchronizer!collected, Timely,
       Synchronizer!Carried
<1>7. CASE Synchronizer!HandlePat
  <2>1. /\ run = "up" /\ since_tot' = since_tot /\ since_pcr' = since_pcr /\ pmts' = pmts
        /\ time' = time
    BY <1>7 DEF Synchronizer!HandlePat, Synchronizer!Reports, Synchronizer!stream
  <2>2. DOMAIN pcr_pid_map' = {} /\ pcr_pids' = {} /\ DOMAIN pcr_map' = {} /\ started' = FALSE
    <3>1. CASE pmt_pids = << >>
      <4>1. /\ pcr_pid_map' = pcr_pid_map /\ pcr_pids' = pcr_pids
            /\ pcr_map' = pcr_map /\ started' = started
        BY <1>7, <3>1, EmptyMap DEF Synchronizer!HandlePat
      <4>2. demuxed = {PatPid} /\ known.sdt = {} /\ pcr_pids = {}
        BY <1>1, <2>1, <3>1, EmptyMap DEF SyncFollowed
      <4>3. DOMAIN pcr_pid_map = {}
        BY <1>1, <4>2 DEF PmtsFollowed, Synchronizer!Announced
      <4> QED
        BY <1>1, <1>3, <4>1, <4>2, <4>3, SyncConstants DEF SyncStarted
    <3>2. CASE pmt_pids # << >>
      <4>1. pcr_pid_map' = << >> /\ pcr_pids' = {} /\ pcr_map' = << >> /\ started' = FALSE
        BY <1>7, <3>2, EmptyMap
        DEF Synchronizer!HandlePat, Synchronizer!PcrsAfterReset, Synchronizer!StartedAfterReset
      <4> QED
        BY <4>1, EmptyMap
    <3> QED
      BY <3>1, <3>2
  <2>3. Synchronizer!Carried' = Synchronizer!Carried
    BY <2>1 DEF Synchronizer!Carried
  <2> QED
    BY <1>5, <2>1, <2>2, <2>3 DEF Timely
<1>8. CASE Synchronizer!HandleSdt
  BY <1>8 DEF Synchronizer!HandleSdt, Synchronizer!stream, Timely, Synchronizer!Carried
<1>9. ASSUME NEW s \in Sids, NEW pid \in Synchronizer!PmtPids, Synchronizer!HandlePmt(pid, s)
      PROVE  Timely'
  <2>1. /\ run = "up" /\ pid \in demuxed
        /\ since_tot' = since_tot /\ since_pcr' = since_pcr /\ pmts' = pmts
        /\ run' = run /\ pcr_map' = pcr_map /\ time' = time /\ started' = started
    BY <1>9 DEF Synchronizer!HandlePmt, Synchronizer!Reports, Synchronizer!stream
  <2>2. Synchronizer!Carried' = Synchronizer!Carried
    BY <2>1 DEF Synchronizer!Carried
  <2>3. CASE ~ Synchronizer!Matches(pid, s)
    <3>1. pcr_pid_map' = pcr_pid_map /\ pcr_pids' = pcr_pids
      BY <1>9, <2>3 DEF Synchronizer!HandlePmt
    <3> QED
      BY <2>1, <2>2, <3>1 DEF Timely
  <2>4. CASE Synchronizer!Matches(pid, s)
    <3> DEFINE M == [x \in DOMAIN pcr_pid_map \cup {s} |->
                        IF x = s THEN pmts[s] ELSE pcr_pid_map[x]]
    <3>1. pcr_pid_map' = M /\ pcr_pids' = pcr_pids \cup ({pmts[s]} \ {NullPid})
      BY <1>9, <2>4 DEF Synchronizer!HandlePmt
    <3>2. s \in Synchronizer!Announced
      <4>1. s \in Synchronizer!Wanted(known.pat) /\ known.pat[s] = pid
        BY <1>1, <2>4 DEF SyncFollowed, Synchronizer!Matches
      <4> QED
        BY <1>1, <2>1, <4>1, PmtOfAnnounced
    <3>3. \A x \in DOMAIN M : M[x] = pmts[x]
      BY DEF Timely
    <3> HIDE DEF M
    <3>4. {pmts[s]} \ {NullPid} \subseteq Synchronizer!Carried
      BY <1>3 DEF Synchronizer!Carried, Synchronizer!Range
    \* Once PCRs are taken, all PMTs are there.
    <3>5. started => pcr_pids' = pcr_pids
      <4> SUFFICES ASSUME started, pmts[s] # NullPid PROVE pmts[s] \in pcr_pids
        BY <3>1
      <4>1. s \in DOMAIN pcr_pid_map
        BY <1>1, <3>2 DEF SyncStarted
      <4>2. pcr_pid_map[s] = pmts[s]
        BY <4>1 DEF Timely
      <4> QED
        BY <1>1, <4>1, <4>2 DEF PmtsFollowed
    <3>6. ~ started => DOMAIN pcr_map = {}
      BY DEF Timely
    <3> QED
      BY <1>5, <2>1, <2>2, <3>1, <3>3, <3>4, <3>5, <3>6 DEF Timely
  <2> QED
    BY <2>3, <2>4
<1>10. CASE Synchronizer!HandleTot
  <2>1. /\ run = "up" /\ since_tot = TotInterval /\ since_tot' = 0
        /\ IF TotPid \in demuxed
           THEN /\ started' = TRUE /\ time' = 0
                /\ pcr_map' = [p \in DOMAIN pcr_map |->
                                 Synchronizer!Saturated(pcr_map[p] - time)]
           ELSE started' = started /\ pcr_map' = pcr_map /\ time' = time
        /\ pmts' = pmts /\ since_pcr' = since_pcr /\ run' = run
        /\ pcr_pid_map' = pcr_pid_map /\ pcr_pids' = pcr_pids
    BY <1>10 DEF Synchronizer!HandleTot
  <2>2. Synchronizer!Carried' = Synchronizer!Carried
    BY <2>1 DEF Synchronizer!Carried
  \* All PCRs would have been taken since the last TOT.
  <2>3. DOMAIN pcr_map = {}
    <3> SUFFICES ASSUME DOMAIN pcr_map # {} PROVE FALSE
      OBVIOUS
    <3>1. started /\ pcr_pids # DOMAIN pcr_map
      BY <1>3, <2>1 DEF Timely
    <3>2. PICK p \in pcr_pids : p \notin DOMAIN pcr_map
      BY <1>3, <3>1
    <3>3. since_tot <= since_pcr[p]
      BY <3>1, <3>2 DEF Timely
    <3>4. since_pcr[p] \in Nat /\ since_pcr[p] <= PcrInterval
      BY <1>5
    <3> QED
      BY <1>2, <2>1, <3>3, <3>4
  <2>4. DOMAIN pcr_map' = {}
    BY <2>1, <2>3
  <2>5. started' => time' = 0
    BY <1>1, <2>1 DEF SyncStarted
  <2>6. \A p \in pcr_pids : 0 <= since_pcr[p]
    BY <1>5
  <2>7. 0 \in 0..TotInterval
    BY <1>2
  <2>8. started' => time' <= since_tot'
    BY <2>1, <2>5
  <2> QED
    BY <1>5, <2>1, <2>2, <2>4, <2>6, <2>7, <2>8 DEF Timely
<1>11. ASSUME NEW pid \in SyncPcrPids \ {NullPid}, Synchronizer!HandlePcr(pid) PROVE Timely'
  <2>1. /\ run = "up" /\ pid \in Synchronizer!Carried
        /\ since_pcr' = [since_pcr EXCEPT ![pid] = 0]
        /\ pcr_map' = IF Synchronizer!IsWanted(pid)
                      THEN [p \in DOMAIN pcr_map \cup {pid} |->
                              IF p = pid THEN time ELSE pcr_map[p]]
                      ELSE pcr_map
        /\ done' = (Synchronizer!IsWanted(pid) /\ DOMAIN pcr_map' = pcr_pids)
        /\ run' = IF done' THEN "ended" ELSE "up"
        /\ pmts' = pmts /\ since_tot' = since_tot /\ pcr_pid_map' = pcr_pid_map
        /\ pcr_pids' = pcr_pids /\ time' = time /\ started' = started
    BY <1>11 DEF Synchronizer!HandlePcr, Synchronizer!Ends
  <2>2. Synchronizer!Carried' = Synchronizer!Carried
    BY <2>1 DEF Synchronizer!Carried
  <2>3. /\ since_pcr' \in [SyncPcrPids \ {NullPid} -> Nat] /\ since_pcr'[pid] = 0
        /\ \A p \in SyncPcrPids \ {NullPid} : p # pid => since_pcr'[p] = since_pcr[p]
    BY <1>5, <2>1
  <2>4. \A p \in Synchronizer!Carried : since_pcr'[p] <= PcrInterval
    BY <1>2, <1>4, <1>5, <2>3
  <2>5. CASE Synchronizer!IsWanted(pid)
    <3>1. started /\ pid \in pcr_pids /\ pid \notin DOMAIN pcr_map
      BY <2>5 DEF Synchronizer!IsWanted
    <3>2. time <= since_tot /\ since_tot <= since_pcr[pid]
      BY <3>1 DEF Timely
    <3>3. time \in 0..PcrInterval
      BY <1>2, <1>3, <1>5, <2>1, <3>2
    <3>4. /\ DOMAIN pcr_map' = DOMAIN pcr_map \cup {pid} /\ pcr_map'[pid] = time
          /\ \A p \in DOMAIN pcr_map : p # pid => pcr_map'[p] = pcr_map[p]
      BY <2>1, <2>5
    <3>5. \A p \in DOMAIN pcr_map' : pcr_map'[p] \in 0..PcrInterval
      BY <3>3, <3>4 DEF Timely
    <3>6. \A p \in pcr_pids \ DOMAIN pcr_map' : since_tot <= since_pcr'[p]
      BY <1>4, <1>5, <2>3, <3>1, <3>4 DEF Timely
    <3>7. run' = "up" => pcr_pids # DOMAIN pcr_map'
      BY <2>1, <2>5
    <3>8. \A s \in DOMAIN pcr_pid_map : pcr_pid_map[s] = pmts[s]
      BY DEF Timely
    <3> QED
      BY <1>5, <2>1, <2>2, <2>3, <2>4, <3>1, <3>2, <3>5, <3>6, <3>7, <3>8 DEF Timely
  <2>6. CASE ~ Synchronizer!IsWanted(pid)
    <3>1. pcr_map' = pcr_map /\ run' = "up"
      BY <2>1, <2>6
    <3>2. started => pid \notin pcr_pids \ DOMAIN pcr_map
      BY <2>6 DEF Synchronizer!IsWanted
    <3>3. started => \A p \in pcr_pids \ DOMAIN pcr_map : since_tot <= since_pcr'[p]
      BY <1>4, <1>5, <2>3, <3>2 DEF Timely
    <3> QED
      BY <1>5, <2>1, <2>2, <2>3, <2>4, <3>1, <3>3 DEF Timely
  <2> QED
    BY <2>5, <2>6
<1>12. CASE Synchronizer!End
  BY <1>12 DEF Synchronizer!End, Synchronizer!stream, Synchronizer!collected, Timely,
       Synchronizer!Carried
<1>13. CASE Synchronizer!Tick
  <2>1. /\ run = "up" /\ since_tot < TotInterval /\ since_tot' = since_tot + 1
        /\ \A p \in Synchronizer!Carried : since_pcr[p] < PcrInterval
        /\ since_pcr' = [p \in DOMAIN since_pcr |->
                           IF p \in Synchronizer!Carried THEN since_pcr[p] + 1 ELSE 0]
        /\ time' = Synchronizer!Saturated(time + 1)
        /\ pmts' = pmts /\ run' = run /\ pcr_pid_map' = pcr_pid_map /\ pcr_pids' = pcr_pids
        /\ pcr_map' = pcr_map /\ started' = started
    BY <1>13 DEF Synchronizer!Tick
  <2>2. Synchronizer!Carried' = Synchronizer!Carried
    BY <2>1 DEF Synchronizer!Carried
  <2>3. /\ since_pcr' \in [SyncPcrPids \ {NullPid} -> Nat]
        /\ \A p \in Synchronizer!Carried : since_pcr'[p] = since_pcr[p] + 1
    BY <1>4, <1>5, <2>1
  <2>4. \A p \in Synchronizer!Carried : since_pcr'[p] <= PcrInterval
    BY <1>2, <1>5, <2>1, <2>3
  <2>5. since_tot' \in 0..TotInterval
    BY <1>2, <1>5, <2>1
  <2>6. started => time' <= since_tot'
    <3> SUFFICES ASSUME started PROVE time' <= since_tot'
      OBVIOUS
    <3>1. time <= since_tot
      BY DEF Timely
    <3> QED
      BY <1>2, <1>3, <1>5, <2>1, <3>1 DEF Synchronizer!Saturated
  <2>7. started => \A p \in pcr_pids \ DOMAIN pcr_map : since_tot' <= since_pcr'[p]
    <3> SUFFICES ASSUME started, NEW p \in pcr_pids \ DOMAIN pcr_map
                 PROVE  since_tot' <= since_pcr'[p]
      OBVIOUS
    <3>1. since_tot <= since_pcr[p] /\ p \in Synchronizer!Carried
      BY <1>5 DEF Timely
    <3> QED
      BY <1>5, <2>1, <2>3, <3>1
  <2> QED
    BY <1>5, <2>1, <2>2, <2>3, <2>4, <2>5, <2>6, <2>7 DEF Timely
<1>14. CASE Synchronizer!Change
  <2>1. pmts' = pmts
    BY <1>14 DEF Synchronizer!Change
  <2> QED
    BY <1>14, <2>1 DEF Synchronizer!Change, Synchronizer!collected, Timely, Synchronizer!Carried
<1> QED
  BY <1>6, <1>7, <1>8, <1>9, <1>10, <1>11, <1>12, <1>13, <1>14
  DEF Synchronizer!Next, Synchronizer!Pmt

\* PcrSynchronizer, if only PATs change and no PCR is left out: the clocks are
\* complete, and each PCR is of the time printed with it up to the interval of
\* PCRs, whatever the number of services that had to wait for each other.
THEOREM ClocksAlwaysCorrect ==
    ASSUME Changing \subseteq {"PAT"}, Regular, OwnPmtPids
    PROVE  Spec => []ClocksCorrect
<1> DEFINE Inv == command = "sync-clocks" => SyncInv /\ Timely
<1>1. Init => Inv
  BY OneSinkMade, SyncInitial, TimelyInitial
<1>2. Inv /\ [Next]_vars => Inv'
  <2> SUFFICES ASSUME Inv, [Next]_vars, command' = "sync-clocks" PROVE SyncInv' /\ Timely'
    OBVIOUS
  <2>1. command = "sync-clocks"
    BY OneSink
  <2>2. SyncInv /\ Timely /\ [Synchronizer!Next]_(Synchronizer!vars)
    BY <2>1, OneSink
  <2>3. "SDT" \notin Changing
    OBVIOUS
  <2> QED
    BY <2>2, <2>3, SyncStep, TimelyStep
<1>3. Inv => ClocksCorrect
  <2> SUFFICES ASSUME SyncInv, Timely
               PROVE  /\ Synchronizer!TypeOK /\ Synchronizer!OutputComplete
                      /\ Synchronizer!Accurate
    BY DEF ClocksCorrect
  <2>1. Synchronizer!Accurate
    BY DEF Timely, Synchronizer!Accurate, Synchronizer!Output
  <2> QED
    BY <2>1, SyncSafe
<1> QED
  BY <1>1, <1>2, <1>3, PTL DEF Spec

-----------------------------------------------------------------------------
(* PesPrinter. *)

PesClocks ==
    [pid : PesPcrPids, time : Int, pcr : Int, pcr_ready : BOOLEAN, time_ready : BOOLEAN,
     local : {0}, last_pcr : Int, gaps : {0}, ready : BOOLEAN, wrapped : BOOLEAN]

\* A baseline of a TOT at time t and a PCR of time b, n ticks after the start
\* and s ticks after the last PCR.
Baseline(t, b, n, s, ready) ==
    /\ ready => t - PesPcrInterval <= b /\ b <= t + PesPcrInterval /\ b <= n
    /\ ~ ready => n - t <= s

\* Clock c keeps the time of PCRs that were o at the start: its last PCR is the
\* last of the stream, and its baseline is as good as the interval of PCRs lets
\* it be, whether the TOT or the PCR came first.
KeepsTime(c, o, n, s) ==
    /\ c \in PesClocks
    /\ c.ready <=> c.pcr_ready
    /\ c.ready => c.last_pcr = o + n - s
    /\ c.time_ready =>
          \E t \in 0..n : c.time = t \div TicksPerMs /\ Baseline(t, c.pcr - o, n, s, c.ready)

\* The inductive invariant of the printer.  Of the clocks, only that of the
\* current PMT matters: the others may be of any time and origin.
PrintInv ==
    /\ ticks \in 0..MaxTicks /\ since_pcr \in 0..PesPcrInterval /\ origin \in Origins
    /\ pcr_pid \in PesPcrPids \cup {NullPid}
    /\ PmtPid \in demuxed => PmtPid \in pmt_pids
    /\ EsPid \notin DOMAIN stream_map => DOMAIN clock_map = {}
    /\ current =>
          /\ EsPid \in DOMAIN stream_map /\ stream_map[EsPid] = pcr_pid
          /\ pcr_pid # NullPid =>
                /\ pcr_pid \in DOMAIN clock_map
                /\ KeepsTime(clock_map[pcr_pid], origin[pcr_pid], ticks, since_pcr)
    /\ Printer!DatetimeAccurate

LEMMA PrinterConstants ==
    /\ {PcrUpperBound, MaxAhead, PesPcrInterval, MaxTicks} \subseteq Nat
    /\ TicksPerMs \in Nat /\ TicksPerMs >= 1
    /\ TicksPerSec \in Nat /\ PesPcrInterval < TicksPerSec
    /\ PatPid # PmtPid /\ NullPid \notin PesPcrPids
    /\ \A o \in Origins, p \in PesPcrPids : o[p] \in Nat
  BY SinkAssumptions DEF Printer!PrinterAssumption, Printer!Pcrs

\* Division of times cuts off less than a millisecond.
LEMMA Cut ==
    ASSUME NEW t \in Nat
    PROVE  /\ t \div TicksPerMs \in Int /\ Printer!Quotient(t, TicksPerMs) = t \div TicksPerMs
           /\ (t \div TicksPerMs) * TicksPerMs \in Int
           /\ (t \div TicksPerMs) * TicksPerMs <= t
           /\ t - (TicksPerMs - 1) <= (t \div TicksPerMs) * TicksPerMs
<1>1. TicksPerMs \in Nat /\ TicksPerMs >= 1
  BY PrinterConstants
<1>2. t \div TicksPerMs \in Int /\ Printer!Quotient(t, TicksPerMs) = t \div TicksPerMs
  BY <1>1 DEF Printer!Quotient
<1>3. (t \div TicksPerMs) * TicksPerMs \in Int
  BY <1>1, <1>2
<1>4. /\ (t \div TicksPerMs) * TicksPerMs <= t
      /\ t < (t \div TicksPerMs) * TicksPerMs + TicksPerMs
  BY <1>1
<1> QED
  BY <1>1, <1>2, <1>3, <1>4

\* A new clock knows nothing.
LEMMA NewClockKeeps ==
    ASSUME NEW p \in PesPcrPids, NEW o, NEW n, NEW s
    PROVE  KeepsTime(Printer!SetPid(Printer!NewClock, p), o, n, s)
<1> DEFINE c == Printer!SetPid(Printer!NewClock, p)
           b == Printer!NewClock
           Blank == [pid : {NullPid} \cup PesPcrPids, time : Int, pcr : Int,
                     pcr_ready : BOOLEAN, time_ready : BOOLEAN, local : {0}, last_pcr : Int,
                     gaps : {0}, ready : BOOLEAN, wrapped : BOOLEAN]
<1>1. b \in Blank
  BY DEF Printer!NewClock
<1> HIDE DEF b
<1>2. c \in PesClocks /\ c.ready = FALSE /\ c.pcr_ready = FALSE /\ c.time_ready = FALSE
  BY <1>1 DEF Printer!SetPid, PesClocks, b
<1> HIDE DEF c
<1>3. KeepsTime(c, o, n, s)
  BY <1>2 DEF KeepsTime
<1> QED
  BY <1>3 DEF c

LEMMA TickKeeps ==
    ASSUME NEW c, NEW o \in Nat, NEW n \in Nat, NEW s \in Nat, KeepsTime(c, o, n, s)
    PROVE  KeepsTime(c, o, n + 1, s + 1)
<1>1. /\ c.pcr \in Int /\ c.last_pcr \in Int /\ PesPcrInterval \in Int
  BY PrinterConstants DEF KeepsTime, PesClocks
<1>2. c.ready => c.last_pcr = o + (n + 1) - (s + 1)
  BY <1>1 DEF KeepsTime
<1>3. ASSUME c.time_ready
      PROVE  \E t \in 0..(n + 1) : /\ c.time = t \div TicksPerMs
                                   /\ Baseline(t, c.pcr - o, n + 1, s + 1, c.ready)
  <2>1. PICK t \in 0..n : c.time = t \div TicksPerMs /\ Baseline(t, c.pcr - o, n, s, c.ready)
    BY <1>3 DEF KeepsTime
  <2>2. t \in 0..(n + 1)
    OBVIOUS
  <2>3. Baseline(t, c.pcr - o, n + 1, s + 1, c.ready)
    BY <1>1, <2>1 DEF Baseline
  <2> QED
    BY <2>1, <2>2, <2>3
<1> QED
  BY <1>2, <1>3 DEF KeepsTime

LEMMA SyncPcrFields ==
    ASSUME NEW c \in PesClocks
    PROVE  LET d == Printer!SyncPcr(c)
           IN  /\ d \in PesClocks /\ d.time = c.time /\ d.last_pcr = c.last_pcr
               /\ (d.ready <=> c.ready) /\ d.pcr = c.last_pcr /\ d.pcr_ready
  BY DEF Printer!SyncPcr, PesClocks

LEMMA TimedFields ==
    ASSUME NEW c \in PesClocks, NEW q \in Int
    PROVE  LET e == [c EXCEPT !.time = q, !.time_ready = TRUE, !.local = 0]
           IN  /\ e \in PesClocks /\ e.time = q /\ e.last_pcr = c.last_pcr
               /\ e.ready = c.ready /\ e.pcr = c.pcr /\ e.pcr_ready = c.pcr_ready
<1> DEFINE e == [c EXCEPT !.time = q, !.time_ready = TRUE, !.local = 0]
<1>1. e \in PesClocks
  BY DEF PesClocks
<1>2. e.time = q
  BY DEF PesClocks
<1>3. e.last_pcr = c.last_pcr
  BY DEF PesClocks
<1>4. e.pcr = c.pcr
  BY DEF PesClocks
<1>5. e.ready = c.ready /\ e.pcr_ready = c.pcr_ready
  BY DEF PesClocks
<1> QED
  BY <1>1, <1>2, <1>3, <1>4, <1>5

\* A TOT takes the last PCR with it, if there is one.
LEMMA TotKeeps ==
    ASSUME NEW c, NEW o \in Nat, NEW n \in Nat, NEW s \in 0..PesPcrInterval,
           KeepsTime(c, o, n, s)
    PROVE  KeepsTime(Printer!UpdateTime(c, Printer!Quotient(n, TicksPerMs), 0), o, n, s)
<1> DEFINE q == n \div TicksPerMs
           d == Printer!UpdateTime(c, q, 0)
<1>1. q \in Int /\ Printer!Quotient(n, TicksPerMs) = q /\ PesPcrInterval \in Nat
  BY Cut, PrinterConstants
<1> HIDE DEF q
<1>2. c \in PesClocks /\ (c.ready <=> c.pcr_ready)
  BY DEF KeepsTime
<1>3. /\ d \in PesClocks /\ d.time = q /\ d.last_pcr = c.last_pcr /\ (d.ready <=> c.ready)
      /\ d.pcr = IF c.ready THEN c.last_pcr ELSE c.pcr
      /\ d.pcr_ready <=> c.ready
  <2> DEFINE e == [c EXCEPT !.time = q, !.time_ready = TRUE, !.local = 0]
  <2>1. d = IF c.ready THEN Printer!SyncPcr(e) ELSE e
    BY DEF Printer!UpdateTime
  <2>2. /\ e \in PesClocks /\ e.time = q /\ e.last_pcr = c.last_pcr /\ e.ready = c.ready
        /\ e.pcr = c.pcr /\ e.pcr_ready = c.pcr_ready
    BY <1>1, <1>2, TimedFields
  <2> HIDE DEF d, e
  <2>3. CASE c.ready
    <3>1. d = Printer!SyncPcr(e)
      BY <2>1, <2>3
    <3>2. /\ d \in PesClocks /\ d.time = e.time /\ d.last_pcr = e.last_pcr
          /\ (d.ready <=> e.ready) /\ d.pcr = e.last_pcr /\ d.pcr_ready
      BY <2>2, <3>1, SyncPcrFields
    <3> QED
      BY <2>2, <2>3, <3>2
  <2>4. CASE ~ c.ready
    BY <1>2, <2>1, <2>2, <2>4
  <2> QED
    BY <2>3, <2>4
<1> HIDE DEF d
<1>4. c.last_pcr \in Int /\ c.pcr \in Int
  BY <1>2 DEF PesClocks
<1>5. c.ready => c.last_pcr = o + n - s
  BY DEF KeepsTime
<1>6. Baseline(n, d.pcr - o, n, s, d.ready)
  <2>1. CASE c.ready
    <3>1. d.ready /\ d.pcr - o = n - s
      BY <1>3, <1>4, <1>5, <2>1
    <3> QED
      BY <1>1, <3>1 DEF Baseline
  <2>2. CASE ~ c.ready
    BY <1>1, <1>3, <2>2 DEF Baseline
  <2> QED
    BY <2>1, <2>2
<1>7. n \in 0..n
  OBVIOUS
<1>8. d.time = n \div TicksPerMs
  BY <1>3 DEF q
<1>9. KeepsTime(d, o, n, s)
  BY <1>3, <1>5, <1>6, <1>7, <1>8 DEF KeepsTime
<1> QED
  BY <1>1, <1>9 DEF d

\* A PCR completes the baseline if the TOT came first, and is no gap.
LEMMA PcrKeeps ==
    ASSUME NEW c, NEW o \in Nat, NEW n \in Nat, NEW s \in 0..PesPcrInterval,
           KeepsTime(c, o, n, s)
    PROVE  KeepsTime(Printer!UpdatePcr(c, o + n), o, n, 0)
<1> DEFINE x == o + n
           e == IF Printer!IsReady(c) THEN [c EXCEPT !.gaps = 0] ELSE c
           d == Printer!TakePcr(e, x)
<1>1. x \in Int /\ PesPcrInterval \in Nat /\ TicksPerSec \in Nat /\ PesPcrInterval < TicksPerSec
  BY PrinterConstants
<1>2. /\ c \in PesClocks /\ (c.ready <=> c.pcr_ready) /\ c.ready \in BOOLEAN
      /\ c.time_ready \in BOOLEAN /\ c.last_pcr \in Int /\ c.pcr \in Int
  BY DEF KeepsTime, PesClocks
<1>3. c.ready => c.last_pcr = x - s
  BY <1>2 DEF KeepsTime
<1>4. c.ready => ~ (Printer!ComputeDelta(x, c.last_pcr) >= TicksPerSec)
  BY <1>1, <1>2, <1>3 DEF Printer!ComputeDelta
<1> HIDE DEF x
<1>5. Printer!UpdatePcr(c, x) = d
  <2>1. CASE Printer!IsReady(c)
    BY <1>4, <2>1 DEF Printer!UpdatePcr, Printer!IsReady
  <2>2. CASE ~ Printer!IsReady(c)
    BY <2>2 DEF Printer!UpdatePcr
  <2> QED
    BY <2>1, <2>2
<1>6. /\ e \in PesClocks /\ e.time = c.time /\ e.pcr = c.pcr /\ e.time_ready = c.time_ready
      /\ e.pcr_ready = c.pcr_ready
  BY <1>2 DEF PesClocks
<1> HIDE DEF e
<1>7. /\ d \in PesClocks /\ d.time = c.time /\ d.time_ready = c.time_ready /\ d.last_pcr = x
      /\ d.ready /\ d.pcr_ready
      /\ d.pcr = IF c.pcr_ready /\ c.time_ready THEN c.pcr ELSE x
  BY <1>1, <1>6 DEF Printer!TakePcr, Printer!SyncPcr, Printer!BaselineReady, PesClocks
<1> HIDE DEF d
<1>8. d.last_pcr = o + n - 0
  BY <1>7 DEF x
<1>9. ASSUME d.time_ready
      PROVE  \E t \in 0..n : d.time = t \div TicksPerMs /\ Baseline(t, d.pcr - o, n, 0, d.ready)
  <2>1. PICK t \in 0..n : c.time = t \div TicksPerMs /\ Baseline(t, c.pcr - o, n, s, c.ready)
    BY <1>7, <1>9 DEF KeepsTime
  <2>2. CASE c.ready
    <3>1. d.pcr = c.pcr
      BY <1>2, <1>7, <1>9, <2>2
    <3>2. Baseline(t, d.pcr - o, n, 0, d.ready)
      BY <1>7, <2>1, <2>2, <3>1 DEF Baseline
    <3> QED
      BY <1>7, <2>1, <3>2
  <2>3. CASE ~ c.ready
    <3>1. n - t <= s
      BY <2>1, <2>3 DEF Baseline
    <3>2. d.pcr - o = n
      BY <1>2, <1>7, <2>3 DEF x
    <3>3. t - PesPcrInterval <= n /\ n <= t + PesPcrInterval /\ n <= n
      BY <1>1, <3>1
    <3>4. Baseline(t, d.pcr - o, n, 0, d.ready)
      BY <1>7, <3>2, <3>3 DEF Baseline
    <3> QED
      BY <1>7, <2>1, <3>4
  <2> QED
    BY <1>2, <2>2, <2>3
<1>10. KeepsTime(d, o, n, 0)
  BY <1>7, <1>8, <1>9 DEF KeepsTime
<1> QED
  BY <1>5, <1>10 DEF x

\* The datetime of a PCR that is not before the last one.
LEMMA DatetimeGood ==
    ASSUME NEW c, NEW o \in Nat, NEW n \in Nat, NEW s \in Nat, KeepsTime(c, o, n, s),
           Printer!IsReady(c), NEW x \in Nat, n <= x
    PROVE  LET e == Printer!PcrToTime(c, o + x) - Printer!Quotient(x, TicksPerMs)
           IN  e * TicksPerMs \in -(PesPcrInterval + 2 * (TicksPerMs - 1))..
                                   (PesPcrInterval + TicksPerMs - 1)
<1> DEFINE m == TicksPerMs
           b == c.pcr - o
           e == Printer!PcrToTime(c, o + x) - Printer!Quotient(x, m)
<1>1. m \in Nat /\ m >= 1 /\ PesPcrInterval \in Nat
  BY PrinterConstants
<1>2. c.ready /\ c.time_ready /\ c.pcr \in Int
  BY DEF Printer!IsReady, Printer!BaselineReady, KeepsTime, PesClocks
<1>3. PICK t \in 0..n : c.time = t \div m /\ Baseline(t, b, n, s, c.ready)
  BY <1>2 DEF KeepsTime
<1>4. /\ b \in Int /\ t - PesPcrInterval <= b /\ b <= t + PesPcrInterval /\ b <= n
  BY <1>2, <1>3 DEF Baseline
<1>5. (o + x) - c.pcr = x - b /\ x - b \in Nat
  BY <1>2, <1>4
<1> HIDE DEF b
<1> DEFINE y == x - b
           T == t \div m
           Y == y \div m
           X == x \div m
<1>6. /\ T \in Int /\ T * m \in Int /\ T * m <= t /\ t - (m - 1) <= T * m
  BY Cut
<1>7. /\ Y \in Int /\ Y * m \in Int /\ Y * m <= y /\ y - (m - 1) <= Y * m
      /\ Printer!Quotient(y, m) = Y
  BY <1>5, Cut
<1>8. /\ X \in Int /\ X * m \in Int /\ X * m <= x /\ x - (m - 1) <= X * m
      /\ Printer!Quotient(x, m) = X
  BY Cut
<1>9. e = T + Y - X
  <2>1. Printer!PcrToTime(c, o + x) = c.time + Printer!Quotient((o + x) - c.pcr, m)
    BY DEF Printer!PcrToTime
  <2>2. Printer!Quotient((o + x) - c.pcr, m) = Y
    BY <1>5, <1>7
  <2> HIDE DEF T, Y, X
  <2> QED
    BY <1>3, <1>6, <1>7, <1>8, <2>1, <2>2 DEF T
<1> HIDE DEF T, Y, X, e
<1>10. e * m = T * m + Y * m - X * m
  BY <1>1, <1>6, <1>7, <1>8, <1>9
<1>11. e * m \in Int
  BY <1>6, <1>7, <1>8, <1>10
<1> DEFINE em == e * m
           Tm == T * m
           Ym == Y * m
           Xm == X * m
<1>12. /\ em \in Int /\ Tm \in Int /\ Ym \in Int /\ Xm \in Int /\ em = Tm + Ym - Xm
       /\ Tm <= t /\ t - (m - 1) <= Tm /\ Ym <= x - b /\ x - b - (m - 1) <= Ym
       /\ Xm <= x /\ x - (m - 1) <= Xm
  BY <1>6, <1>7, <1>8, <1>10, <1>11
<1> HIDE DEF em, Tm, Ym, Xm
<1>13. em \in -(PesPcrInterval + 2 * (m - 1))..(PesPcrInterval + m - 1)
  BY <1>1, <1>4, <1>12
<1> QED
  BY <1>13 DEF em, e

\* No PCR wraps around while the stream lasts.
NoWrap == \A o \in Origins, p \in PesPcrPids : o[p] + MaxTicks + MaxAhead < PcrUpperBound

LEMMA PrintInitial == Printer!Init => PrintInv
<1> SUFFICES ASSUME Printer!Init PROVE PrintInv
  OBVIOUS
<1>1. /\ ticks = 0 /\ origin \in Origins /\ since_pcr = 0
      /\ pcr_pid \in PesPcrPids \cup {NullPid}
      /\ demuxed = {PatPid} /\ current = FALSE /\ clock_map = << >>
  BY DEF Printer!Init
<1>2. PatPid # PmtPid /\ MaxTicks \in Nat /\ PesPcrInterval \in Nat
  BY PrinterConstants
<1>3. ticks \in 0..MaxTicks /\ since_pcr \in 0..PesPcrInterval
  BY <1>1, <1>2
<1> QED
  BY <1>1, <1>2, <1>3 DEF PrintInv, Printer!DatetimeAccurate

LEMMA PrintStep ==
    ASSUME PrintInv, [Printer!Next]_(Printer!vars), NoWrap
    PROVE  PrintInv'
<1> DEFINE Good == -(PesPcrInterval + 2 * (TicksPerMs - 1))..(PesPcrInterval + TicksPerMs - 1)
<1>1. /\ PcrUpperBound \in Nat /\ MaxAhead \in Nat /\ PesPcrInterval \in Nat /\ MaxTicks \in Nat
      /\ TicksPerMs \in Nat /\ TicksPerMs >= 1
      /\ PatPid # PmtPid /\ NullPid \notin PesPcrPids
  BY PrinterConstants
<1>2. /\ ticks \in 0..MaxTicks /\ since_pcr \in 0..PesPcrInterval /\ origin \in Origins
      /\ pcr_pid \in PesPcrPids \cup {NullPid}
      /\ PmtPid \in demuxed => PmtPid \in pmt_pids
      /\ EsPid \notin DOMAIN stream_map => DOMAIN clock_map = {}
  BY DEF PrintInv
<1>3. 0 * TicksPerMs \in Good
  BY <1>1
<1>4. ASSUME error' = 0 PROVE Printer!DatetimeAccurate'
  BY <1>3, <1>4 DEF Printer!DatetimeAccurate
<1>5. ASSUME demuxed' = demuxed, error' = error PROVE Printer!DatetimeAccurate'
  BY <1>5 DEF PrintInv, Printer!DatetimeAccurate
<1> HIDE DEF Good
\* PCRs, while there are any.
<1>6. ASSUME pcr_pid # NullPid
      PROVE  /\ origin[pcr_pid] \in Nat
             /\ \A t \in 0..(MaxTicks + MaxAhead) :
                   Printer!PcrAt(pcr_pid, t) = origin[pcr_pid] + t
  <2>1. /\ pcr_pid \in PesPcrPids /\ origin[pcr_pid] \in Nat
        /\ origin[pcr_pid] + MaxTicks + MaxAhead < PcrUpperBound
    BY <1>2, <1>6, PrinterConstants DEF NoWrap
  <2> SUFFICES ASSUME NEW t \in 0..(MaxTicks + MaxAhead)
               PROVE  Printer!PcrAt(pcr_pid, t) = origin[pcr_pid] + t
    BY <2>1
  <2>2. origin[pcr_pid] + t \in 0..(PcrUpperBound - 1)
    BY <1>1, <2>1
  <2> QED
    BY <1>1, <2>2 DEF Printer!PcrAt
<1>7. CASE UNCHANGED Printer!vars
  BY <1>7 DEF Printer!vars, Printer!stream, Printer!tables, PrintInv, Printer!DatetimeAccurate
\* HandlePat and HandleStrangePat keep the maps.
<1>8. CASE Printer!HandlePat \/ Printer!HandleStrangePat
  <2>1. /\ ticks' = ticks /\ since_pcr' = since_pcr /\ origin' = origin /\ pcr_pid' = pcr_pid
        /\ error' = 0 /\ clock_map' = clock_map /\ stream_map' = stream_map
        /\ current' = current
    BY <1>8 DEF Printer!HandlePat, Printer!HandleStrangePat, Printer!Reports, Printer!stream
  <2>2. PmtPid \in demuxed' => PmtPid \in pmt_pids'
    BY <1>2, <1>8 DEF Printer!HandlePat, Printer!HandleStrangePat, Printer!Followed
  <2> QED
    BY <1>2, <1>4, <2>1, <2>2 DEF PrintInv
<1>9. CASE Printer!HandlePmt
  <2>1. /\ ticks' = ticks /\ since_pcr' = since_pcr /\ origin' = origin /\ pcr_pid' = pcr_pid
        /\ error' = 0 /\ PmtPid \in demuxed /\ demuxed' = demuxed /\ pmt_pids' = pmt_pids
        /\ clock_map' = Printer!Clocks /\ stream_map' = Printer!StreamsOfPmt
        /\ current' = TRUE
    BY <1>9 DEF Printer!HandlePmt, Printer!Reports, Printer!stream
  <2>2. EsPid \in DOMAIN stream_map' /\ stream_map'[EsPid] = pcr_pid
    BY <2>1 DEF Printer!StreamsOfPmt
  <2>3. ASSUME pcr_pid # NullPid
        PROVE  /\ pcr_pid \in DOMAIN clock_map'
               /\ KeepsTime(clock_map'[pcr_pid], origin[pcr_pid], ticks, since_pcr)
    <3>1. /\ pcr_pid \in DOMAIN clock_map'
          /\ clock_map'[pcr_pid] = Printer!SetPid(Printer!NewClock, pcr_pid)
      BY <2>1, <2>3 DEF Printer!Clocks
    <3>2. pcr_pid \in PesPcrPids
      BY <1>2, <2>3
    <3> QED
      BY <3>1, <3>2, NewClockKeeps
  <2> QED
    BY <1>2, <1>4, <2>1, <2>2, <2>3 DEF PrintInv
<1>10. CASE Printer!HandleTot
  <2>1. /\ ticks' = ticks /\ since_pcr' = since_pcr /\ origin' = origin /\ pcr_pid' = pcr_pid
        /\ error' = 0 /\ demuxed' = demuxed /\ pmt_pids' = pmt_pids /\ current' = current
        /\ stream_map' = stream_map
        /\ clock_map' = [p \in DOMAIN clock_map |->
              Printer!UpdateTime(clock_map[p], Printer!Quotient(ticks, TicksPerMs), 0)]
    BY <1>10 DEF Printer!HandleTot, Printer!stream, Printer!tables
  <2>2. ASSUME current, pcr_pid # NullPid
        PROVE  /\ pcr_pid \in DOMAIN clock_map'
               /\ KeepsTime(clock_map'[pcr_pid], origin[pcr_pid], ticks, since_pcr)
    <3>1. /\ pcr_pid \in DOMAIN clock_map
          /\ KeepsTime(clock_map[pcr_pid], origin[pcr_pid], ticks, since_pcr)
      BY <2>2 DEF PrintInv
    <3>2. /\ pcr_pid \in DOMAIN clock_map'
          /\ clock_map'[pcr_pid] =
                Printer!UpdateTime(clock_map[pcr_pid], Printer!Quotient(ticks, TicksPerMs), 0)
      BY <2>1, <3>1
    <3> QED
      BY <1>2, <1>6, <2>2, <3>1, <3>2, TotKeeps
  <2> QED
    BY <1>2, <1>4, <2>1, <2>2 DEF PrintInv
<1>11. CASE Printer!HandlePcr
  <2>1. /\ ticks' = ticks /\ since_pcr' = 0 /\ origin' = origin /\ pcr_pid' = pcr_pid
        /\ demuxed' = demuxed /\ pmt_pids' = pmt_pids /\ current' = current
        /\ stream_map' = stream_map /\ pcr_pid # NullPid
        /\ PmtPid \in demuxed => current \/ EsPid \notin DOMAIN stream_map
    BY <1>11 DEF Printer!HandlePcr, Printer!Described, Printer!tables
  <2>2. since_pcr' \in 0..PesPcrInterval
    BY <1>1, <2>1
  <2>3. DOMAIN clock_map' = DOMAIN clock_map
    BY <1>11 DEF Printer!HandlePcr
  <2>4. CASE ~ current /\ PmtPid \notin demuxed
    BY <1>2, <2>1, <2>2, <2>3, <2>4 DEF PrintInv, Printer!DatetimeAccurate
  <2>5. CASE ~ current /\ EsPid \notin DOMAIN stream_map
    <3>1. pcr_pid \notin DOMAIN clock_map
      BY <1>2, <2>5
    <3>2. error' = error
      BY <1>11, <3>1 DEF Printer!HandlePcr
    <3>3. Printer!DatetimeAccurate'
      BY <1>5, <2>1, <3>2
    <3> QED
      BY <1>2, <2>1, <2>2, <2>3, <2>5, <3>3 DEF PrintInv
  <2>6. CASE current
    <3> DEFINE c == clock_map[pcr_pid]
               o == origin[pcr_pid]
               d == Printer!UpdatePcr(c, o + ticks)
    <3>1. pcr_pid \in DOMAIN clock_map /\ KeepsTime(c, o, ticks, since_pcr)
      BY <2>1, <2>6 DEF PrintInv
    <3>2. o \in Nat /\ Printer!PcrAt(pcr_pid, ticks) = o + ticks
      BY <1>1, <1>2, <1>6, <2>1
    <3>3. KeepsTime(d, o, ticks, 0)
      BY <1>2, <3>1, <3>2, PcrKeeps
    <3>4. pcr_pid \in DOMAIN clock_map' /\ clock_map'[pcr_pid] = d
      BY <1>11, <3>1, <3>2 DEF Printer!HandlePcr
    <3>5. error' = IF Printer!IsReady(d)
                   THEN Printer!PcrToTime(d, o + ticks) - Printer!Quotient(ticks, TicksPerMs)
                   ELSE 0
      BY <1>11, <3>1, <3>2, <3>4 DEF Printer!HandlePcr, Printer!PrintTime
    <3> HIDE DEF d
    <3>6. ASSUME Printer!IsReady(d) PROVE Printer!DatetimeAccurate'
      <4>1. error' * TicksPerMs \in Good
        BY <1>2, <3>2, <3>3, <3>5, <3>6, DatetimeGood DEF Good
      <4> QED
        BY <4>1 DEF Good, Printer!DatetimeAccurate
    <3>7. Printer!DatetimeAccurate'
      BY <1>4, <3>5, <3>6
    <3>8. EsPid \in DOMAIN stream_map /\ stream_map[EsPid] = pcr_pid
      BY <2>6 DEF PrintInv
    <3>9. KeepsTime(clock_map'[pcr_pid], origin[pcr_pid], ticks, 0)
      BY <3>3, <3>4
    <3> HIDE DEF o, c
    <3> QED
      BY <1>2, <2>1, <2>2, <3>1, <3>4, <3>7, <3>8, <3>9 DEF PrintInv
  <2> QED
    BY <2>1, <2>4, <2>5, <2>6
<1>12. CASE Printer!HandlePts
  <2>1. /\ ticks' = ticks /\ since_pcr' = since_pcr /\ origin' = origin /\ pcr_pid' = pcr_pid
        /\ demuxed' = demuxed /\ pmt_pids' = pmt_pids /\ current' = current
        /\ stream_map' = stream_map /\ clock_map' = clock_map /\ pcr_pid # NullPid
        /\ PmtPid \in demuxed => current \/ EsPid \notin DOMAIN stream_map
    BY <1>12 DEF Printer!HandlePts, Printer!Described, Printer!tables, Printer!stream
  \* Before the first PMT there is no clock.
  <2>2. ASSUME EsPid \notin DOMAIN stream_map PROVE Printer!DatetimeAccurate'
    <3>1. DOMAIN clock_map = {}
      BY <1>2, <2>2
    <3>2. PICK d \in 0..MaxAhead : Printer!PrintTime(clock_map, NullPid, ticks + d)
      BY <1>12, <2>2 DEF Printer!HandlePts
    <3>3. error' = 0
      BY <3>1, <3>2 DEF Printer!PrintTime
    <3> QED
      BY <1>4, <3>3
  <2>3. ASSUME current PROVE Printer!DatetimeAccurate'
    <3> DEFINE c == clock_map[pcr_pid]
               o == origin[pcr_pid]
    <3>1. /\ pcr_pid \in DOMAIN clock_map /\ KeepsTime(c, o, ticks, since_pcr)
          /\ EsPid \in DOMAIN stream_map /\ stream_map[EsPid] = pcr_pid
      BY <2>1, <2>3 DEF PrintInv
    <3>2. PICK d \in 0..MaxAhead : Printer!PrintTime(clock_map, pcr_pid, ticks + d)
      BY <1>12, <3>1 DEF Printer!HandlePts
    <3> DEFINE x == ticks + d
    <3>3. x \in 0..(MaxTicks + MaxAhead) /\ x \in Nat /\ ticks <= x
      BY <1>1, <1>2
    <3>4. Printer!PrintTime(clock_map, pcr_pid, x)
      BY <3>2
    <3> HIDE DEF x
    <3>5. o \in Nat /\ Printer!PcrAt(pcr_pid, x) = o + x
      BY <1>6, <2>1, <3>3
    <3>6. error' = IF Printer!IsReady(c)
                   THEN Printer!PcrToTime(c, o + x) - Printer!Quotient(x, TicksPerMs)
                   ELSE 0
      BY <3>1, <3>4, <3>5 DEF Printer!PrintTime
    <3> HIDE DEF c, o
    <3>7. ASSUME Printer!IsReady(c) PROVE Printer!DatetimeAccurate'
      <4>1. error' * TicksPerMs \in Good
        BY <1>2, <3>1, <3>3, <3>5, <3>6, <3>7, DatetimeGood DEF Good
      <4> QED
        BY <4>1 DEF Good, Printer!DatetimeAccurate
    <3> QED
      BY <1>4, <3>6, <3>7
  <2>4. Printer!DatetimeAccurate'
    BY <2>1, <2>2, <2>3 DEF Printer!DatetimeAccurate
  <2> QED
    BY <2>1, <2>4 DEF PrintInv
<1>13. CASE Printer!Tick
  <2>1. /\ ticks < MaxTicks /\ ticks' = ticks + 1 /\ origin' = origin /\ pcr_pid' = pcr_pid
        /\ IF pcr_pid = NullPid THEN since_pcr' = 0
           ELSE since_pcr < PesPcrInterval /\ since_pcr' = since_pcr + 1
        /\ error' = error /\ demuxed' = demuxed /\ pmt_pids' = pmt_pids /\ current' = current
        /\ stream_map' = stream_map /\ clock_map' = clock_map
    BY <1>13 DEF Printer!Tick, Printer!tables
  <2>2. ticks' \in 0..MaxTicks /\ since_pcr' \in 0..PesPcrInterval
    BY <1>1, <1>2, <2>1
  <2>3. ASSUME current, pcr_pid # NullPid
        PROVE  /\ pcr_pid \in DOMAIN clock_map
               /\ KeepsTime(clock_map[pcr_pid], origin[pcr_pid], ticks', since_pcr')
    <3>1. /\ pcr_pid \in DOMAIN clock_map
          /\ KeepsTime(clock_map[pcr_pid], origin[pcr_pid], ticks, since_pcr)
      BY <2>3 DEF PrintInv
    <3>2. KeepsTime(clock_map[pcr_pid], origin[pcr_pid], ticks + 1, since_pcr + 1)
      BY <1>2, <1>6, <2>3, <3>1, TickKeeps
    <3> QED
      BY <2>1, <2>3, <3>1, <3>2
  <2>4. Printer!DatetimeAccurate'
    BY <1>5, <2>1
  <2> QED
    BY <1>2, <2>1, <2>2, <2>3, <2>4 DEF PrintInv
<1>14. CASE Printer!Change
  <2>1. /\ ticks' = ticks /\ since_pcr' = since_pcr /\ origin' = origin
        /\ error' = error /\ demuxed' = demuxed /\ pmt_pids' = pmt_pids
        /\ stream_map' = stream_map /\ clock_map' = clock_map
        /\ \/ current' = current /\ pcr_pid' = pcr_pid
           \/ current' = FALSE /\ pcr_pid' \in PesPcrPids \cup {NullPid}
    BY <1>14 DEF Printer!Change
  <2>2. Printer!DatetimeAccurate'
    BY <1>5, <2>1
  <2> QED
    BY <1>2, <2>1, <2>2 DEF PrintInv
<1> QED
  BY <1>7, <1>8, <1>9, <1>10, <1>11, <1>12, <1>13, <1>14 DEF Printer!Next

\* PesPrinter, while no PCR wraps around: however PAT and PMT change, and
\* whatever clocks and streams of earlier PMTs its maps still hold, the datetime
\* printed is that of the PCR, PTS or DTS up to the interval of the PCRs.
THEOREM DatetimesAlwaysAccurate ==
    ASSUME NoWrap
    PROVE  Spec => []DatetimeAccurate
<1> DEFINE Inv == command = "print-pes" => PrintInv
<1>1. Init => Inv
  BY OneSinkMade, PrintInitial
<1>2. Inv /\ [Next]_vars => Inv'
  <2> SUFFICES ASSUME Inv, [Next]_vars, command' = "print-pes" PROVE PrintInv'
    OBVIOUS
  <2>1. command = "print-pes"
    BY OneSink
  <2>2. PrintInv /\ [Printer!Next]_(Printer!vars)
    BY <2>1, OneSink
  <2> QED
    BY <2>2, PrintStep
<1>3. Inv => DatetimeAccurate
  BY DEF PrintInv, DatetimeAccurate
<1> QED
  BY <1>1, <1>2, <1>3, PTL DEF Spec

=============================================================================
