------------------------------ MODULE Commands ------------------------------
(***************************************************************************)
(* MakePacketSink (main.cc): one process runs one command, which decides   *)
(* which sink there is.  Here: the commands that print what they find in   *)
(* the tables and packets of a stream, and the StdoutSink that ends the    *)
(* chains of the commands that pass packets on.  The variables of the      *)
(* sinks that were not made are None.                                      *)
(***************************************************************************)
EXTENDS Integers, Sequences

CONSTANTS
    None,                                          \* no table, no change, no value
    PatPid, NitPid, SdtPid, TotPid, NullPid,       \* ts::PID_PAT ...
    PcrUpperBound, TicksPerMs, TicksPerSec,        \* kPcrUpperBound ...
    IncludedSids, ExcludedSids,                    \* option_.sids and option_.xsids
    ScanPats, ScanSdts, NitMoves, ScanChanges,     \* the stream of the scanner
    Sids, SyncPats, SyncSdts, SyncPcrPids,         \* ... of the synchronizer
    Changing, SyncChanges, TotInterval, PcrInterval, Regular, MaxError,
    Services, EitpfSids, Streamings, NumVersions, MaxGen,  \* ... of the EIT[p/f] collector
    NumEvents, Tracked, MaxMoves,                  \* ... of the tracker
    PmtPid, EsPid, PesPcrPids, Origins, MaxAhead,  \* ... of the PES printer
    PesPcrInterval, StrangePats, MaxTicks, PesChanges, GapThreshold, GapCountSize,
    PktSize, BufferSize, MaxPackets                \* the StdoutSink

VARIABLES
    command,
    \* Of several sinks.
    run, changes, demuxed, reported, output, pat, sdt, since_pcr, pmt_pids,
    pcr_pid, ticks, out,
    \* Of one sink each.
    stream_pat, stream_sdt, nit,
    pmts, since_tot, pmt_count, pcr_pid_map, pcr_pids, pcr_map, time, started, done, known,
    gen, option, versions, seen,
    on, airing, canceled, moves,
    origin, strange, listed, clock_map, stream_map, current, error,
    buf, nwritten, rest, pc, handled, failed

scannerOnly == <<stream_pat, stream_sdt, nit>>
syncOnly == <<pmts, since_tot, pmt_count, pcr_pid_map, pcr_pids, pcr_map, time, started, done,
              known>>
eitpfOnly == <<gen, option, versions, seen>>
airtimeOnly == <<on, airing, canceled, moves>>
printerOnly == <<origin, strange, listed, clock_map, stream_map, current, error>>
stdoutOnly == <<buf, nwritten, rest, pc, handled, failed>>
vars == <<command, run, changes, demuxed, reported, output, pat, sdt, since_pcr, pmt_pids,
          pcr_pid, ticks, out, scannerOnly, syncOnly, eitpfOnly, airtimeOnly, printerOnly,
          stdoutOnly>>
-----------------------------------------------------------------------------
(* The sinks. *)

Scanner == INSTANCE ServiceScanner WITH
    Pats <- ScanPats, Sdts <- ScanSdts, MaxChanges <- ScanChanges

Synchronizer == INSTANCE PcrSynchronizer WITH
    Pats <- SyncPats, Sdts <- SyncSdts, PcrPids <- SyncPcrPids, MaxChanges <- SyncChanges

Eitpf == INSTANCE EitpfCollector WITH Sids <- EitpfSids

Tracker == INSTANCE AirtimeTracker

Printer == INSTANCE PesPrinter WITH
    NoPid <- NullPid, PcrPids <- PesPcrPids, PcrInterval <- PesPcrInterval,
    MaxChanges <- PesChanges

Stdout == INSTANCE StdoutSink

ASSUME SinkAssumptions ==
    /\ Scanner!ScannerAssumption /\ Synchronizer!SynchronizerAssumption
    /\ Eitpf!EitpfAssumption /\ Tracker!TrackerAssumption /\ Printer!PrinterAssumption
    /\ Stdout!SinkAssumption
-----------------------------------------------------------------------------
(* The commands. *)

NoScanner == stream_pat = None /\ stream_sdt = None /\ nit = None
NoSync == /\ pmts = None /\ since_tot = None /\ pmt_count = None /\ pcr_pid_map = None
          /\ pcr_pids = None /\ pcr_map = None /\ time = None /\ started = None
          /\ done = None /\ known = None
NoEitpf == gen = None /\ option = None /\ versions = None /\ seen = None
NoTracker == on = None /\ airing = None /\ canceled = None /\ moves = None
NoPrinter == /\ origin = None /\ strange = None /\ listed = None /\ clock_map = None
             /\ stream_map = None /\ current = None /\ error = None
NoStdout == /\ buf = None /\ nwritten = None /\ rest = None /\ pc = None /\ handled = None
            /\ failed = None

MakeScanner ==
    /\ command = "scan-services" /\ Scanner!Init
    /\ NoSync /\ NoEitpf /\ NoTracker /\ NoPrinter /\ NoStdout
    /\ since_pcr = None /\ pmt_pids = None /\ pcr_pid = None /\ ticks = None /\ out = None

MakeSynchronizer ==
    /\ command = "sync-clocks" /\ Synchronizer!Init
    /\ NoScanner /\ NoEitpf /\ NoTracker /\ NoPrinter /\ NoStdout
    /\ output = None /\ pcr_pid = None /\ ticks = None /\ out = None

MakeEitpf ==
    /\ command = "collect-eitpf" /\ Eitpf!Init
    /\ NoScanner /\ NoSync /\ NoTracker /\ NoPrinter /\ NoStdout
    /\ changes = None /\ demuxed = None /\ reported = None /\ pat = None /\ sdt = None
    /\ since_pcr = None /\ pmt_pids = None /\ pcr_pid = None /\ ticks = None /\ out = None

MakeTracker ==
    /\ command = "track-airtime" /\ Tracker!Init
    /\ NoScanner /\ NoSync /\ NoEitpf /\ NoPrinter /\ NoStdout
    /\ changes = None /\ demuxed = None /\ pat = None /\ sdt = None
    /\ since_pcr = None /\ pmt_pids = None /\ pcr_pid = None /\ ticks = None /\ out = None

MakePrinter ==
    /\ command = "print-pes" /\ Printer!Init
    /\ NoScanner /\ NoSync /\ NoEitpf /\ NoTracker /\ NoStdout
    /\ output = None /\ pat = None /\ sdt = None /\ out = None

\* The sink at the end of a chain; what feeds it is not looked at.
MakeStdout ==
    /\ command = "stdout" /\ Stdout!Init
    /\ NoScanner /\ NoSync /\ NoEitpf /\ NoTracker /\ NoPrinter
    /\ run = None /\ changes = None /\ demuxed = None /\ reported = None /\ output = None
    /\ pat = None /\ sdt = None /\ since_pcr = None /\ pmt_pids = None /\ pcr_pid = None
    /\ ticks = None

Init == \/ MakeScanner \/ MakeSynchronizer \/ MakeEitpf \/ MakeTracker \/ MakePrinter
        \/ MakeStdout

\* A step of one of the sinks: the others are not there.
OnlyScanner ==
    /\ command = "scan-services"
    /\ UNCHANGED <<command, since_pcr, pmt_pids, pcr_pid, ticks, out, syncOnly, eitpfOnly,
                   airtimeOnly, printerOnly, stdoutOnly>>

OnlySynchronizer ==
    /\ command = "sync-clocks"
    /\ UNCHANGED <<command, output, pcr_pid, ticks, out, scannerOnly, eitpfOnly, airtimeOnly,
                   printerOnly, stdoutOnly>>

OnlyEitpf ==
    /\ command = "collect-eitpf"
    /\ UNCHANGED <<command, changes, demuxed, reported, pat, sdt, since_pcr, pmt_pids, pcr_pid,
                   ticks, out, scannerOnly, syncOnly, airtimeOnly, printerOnly,
                   stdoutOnly>>

OnlyTracker ==
    /\ command = "track-airtime"
    /\ UNCHANGED <<command, changes, demuxed, pat, sdt, since_pcr, pmt_pids, pcr_pid, ticks, out,
                   scannerOnly, syncOnly, eitpfOnly, printerOnly, stdoutOnly>>

OnlyPrinter ==
    /\ command = "print-pes"
    /\ UNCHANGED <<command, output, pat, sdt, out, scannerOnly, syncOnly, eitpfOnly, airtimeOnly,
                   stdoutOnly>>

OnlyStdout ==
    /\ command = "stdout"
    /\ UNCHANGED <<command, run, changes, demuxed, reported, output, pat, sdt, since_pcr,
                   pmt_pids, pcr_pid, ticks, scannerOnly, syncOnly, eitpfOnly, airtimeOnly,
                   printerOnly>>

ScanServices == OnlyScanner /\ Scanner!Next
SyncClocks == OnlySynchronizer /\ Synchronizer!Next
CollectEitpf == OnlyEitpf /\ Eitpf!Next
TrackAirtime == OnlyTracker /\ Tracker!Next
PrintPes == OnlyPrinter /\ Printer!Next
WriteStdout == OnlyStdout /\ Stdout!Next

Next == \/ ScanServices \/ SyncClocks \/ CollectEitpf \/ TrackAirtime \/ PrintPes
        \/ WriteStdout
-----------------------------------------------------------------------------
(* Fairness: a broadcaster repeats its tables, and time goes on. *)

Pat == \/ command = "scan-services" /\ Scanner!HandlePat /\ OnlyScanner
       \/ command = "sync-clocks" /\ Synchronizer!HandlePat /\ OnlySynchronizer
       \/ command = "print-pes" /\ Printer!HandlePat /\ OnlyPrinter

Sdt == \/ command = "scan-services" /\ Scanner!HandleSdt /\ OnlyScanner
       \/ command = "sync-clocks" /\ Synchronizer!HandleSdt /\ OnlySynchronizer

\* The PMT of a service.
Pmt(s) == command = "sync-clocks" /\ Synchronizer!RightPmt(s) /\ OnlySynchronizer

Tot == command = "sync-clocks" /\ Synchronizer!HandleTot /\ OnlySynchronizer

PcrOf(p) == command = "sync-clocks" /\ Synchronizer!HandlePcr(p) /\ OnlySynchronizer

Time == \/ command = "sync-clocks" /\ Synchronizer!Tick /\ OnlySynchronizer
        \/ /\ command = "track-airtime"
           /\ Tracker!StartEvent \/ Tracker!EndEvent
           /\ OnlyTracker

\* Section n of the EIT[p/f] of a service.
Eit(s, n) == command = "collect-eitpf" /\ Eitpf!HandleSection(s, n) /\ OnlyEitpf

\* The NIT, or the one PMT or EIT of the stream.
OtherTable ==
    \/ /\ command = "scan-services"
       /\ \E p \in Scanner!NitPids : Scanner!HandleNit(p)
       /\ OnlyScanner
    \/ command = "print-pes" /\ Printer!HandlePmt /\ OnlyPrinter
    \/ command = "track-airtime" /\ Tracker!HandleEit /\ OnlyTracker

Fairness ==
    /\ WF_vars(Pat) /\ WF_vars(Sdt) /\ WF_vars(OtherTable) /\ WF_vars(Tot) /\ WF_vars(Time)
    /\ \A s \in Sids : WF_vars(Pmt(s))
    /\ \A p \in SyncPcrPids \ {NullPid} : WF_vars(PcrOf(p))
    /\ \A s \in EitpfSids, n \in {0, 1} : WF_vars(Eit(s, n))

Spec == Init /\ [][Next]_vars /\ Fairness
-----------------------------------------------------------------------------
(* What the sinks do. *)

\* ServiceScanner: the remote control key printed is of the network the PAT
\* names, not of a NIT that came on the standard PID before it.
ScanCorrect == command = "scan-services" => Scanner!TypeOK /\ Scanner!KeyFromPat

\* PcrSynchronizer: when it ends by itself, there is a clock for each service
\* that the last PAT and SDT announced, of the PID its PMT named, and each PCR
\* is of the time printed with it, "with accuracy within 1 second".
ClocksCorrect ==
    command = "sync-clocks" =>
        Synchronizer!TypeOK /\ Synchronizer!OutputComplete /\ Synchronizer!Accurate

\* EitpfCollector: each generation of a section received is printed once, in
\* order; at the end present and following of every service are of one
\* generation; and the lookup in Done of the services of one map in the other
\* never throws, although only sizes were compared.
EitpfCorrect ==
    command = "collect-eitpf" =>
        Eitpf!TypeOK /\ Eitpf!NoThrow /\ Eitpf!PrintsChanges /\ Eitpf!ConsistentAtEnd

\* AirtimeTracker: the last line shows the times that the current table has, and
\* neither a gap in the schedule nor a missing following event ends the tracking
\* of an event that is on the air or next.
AirtimeCorrect == command = "track-airtime" => Tracker!LineCurrent /\ Tracker!NotEarly

\* PesPrinter: the time printed with a PCR, PTS or DTS is the time it stands
\* for, with the clock of its own PCRs, however the PMT changes.
DatetimeAccurate == command = "print-pes" => Printer!DatetimeAccurate

\* StdoutSink: every byte handled is written or in the buffer, in order, once;
\* what is written is a beginning of the stream, unless a write fails after a
\* short one; and what was in the buffer when a write failed is written at the
\* end.
StdoutCorrect ==
    command = "stdout" =>
        /\ Stdout!TypeOK
        /\ Stdout!NothingLost /\ Stdout!OutputInOrder /\ Stdout!SecondChance

\* ServiceScanner: the scan ends, or the stream has for good a PAT or an SDT
\* that is skipped, whatever order the tables come in and however they change
\* (but for the PID of the NIT, which moves once), or a new version of a PAT with
\* a PID of its own for the NIT has reset the NIT for good.
ScanCompletes ==
    <>[](\/ command # "scan-services" \/ run = "ended"
         \/ Scanner!Skipped \/ Scanner!Forgotten)

\* PcrSynchronizer: it ends if the stream has clocks to offer, also after PATs
\* that moved or dropped services while it was waiting.
SyncEnds ==
    []<>(command # "sync-clocks" \/ ~ Synchronizer!HasClocks \/ run = "ended")

\* EitpfCollector: it ends unless it streams, although sections change under
\* its eyes.
EitpfEnds ==
    []<>(command # "collect-eitpf" \/ option.streaming \/ run = "ended")

\* AirtimeTracker: it ends when the schedule has gone on, also if the event was
\* moved or canceled.
TrackingEnds == []<>(command # "track-airtime" \/ run = "ended")

\* Every command that should end by itself does, as long as the broadcaster
\* repeats its tables and the schedule goes on.
CommandsEnd == ScanCompletes /\ SyncEnds /\ EitpfEnds /\ TrackingEnds

\* PesPrinter: the current PMT is printed again and again as it changes, unless
\* PATs come on PIDs of other tables.
PmtShown == []<>(command # "print-pes" \/ strange \/ Printer!Shown)
=============================================================================
