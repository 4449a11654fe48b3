# A TLA+ verification of mirakc-arib

mirakc-arib is a set of filters for Japanese (ARIB) transport streams.  `main`
builds one pipeline per command: a `FileSource` reads packets, a chain of
`PacketSink`s handles each of them, and the last sink writes packets to stdout
or to a file, or JSON lines to stdout.  The program is single-threaded and every
call is synchronous.  What makes it hard is the order in which tables, PCRs and
packets arrive, what the operating system answers, numbers that wrap around,
and where the process stops.

## 1. The system's parts

| Part (source) | State | Operations | Used by |
|---|---|---|---|
| `FileSource`, `FeedPackets` (packet_source.hh) | read buffer, position, resync window | read, resynchronize, feed the sink until it returns false, `End` | every command |
| `ServiceFilter` (service_filter.hh) | PSI, content and EMM filters, PMT PID, PAT packetizer, done, error | packet; PAT, CAT, PMT, TOT | `filter-service`, `filter-program`, `record-service` |
| `ProgramFilter` (program_filter.hh) | wait/streaming, clock (PID, PCR, time), event times, PCR range, PES black list, PMT packetizer, last PAT, stop, retry | packet; PAT, PMT, EIT, TOT | `filter-program` |
| `ServiceRecorder` (service_recorder.hh) | preparing/recording, PMT PID, clock, current and new EIT, event started, event boundary | packet; PAT, PMT, EIT, TOT; end of chunk | `record-service` |
| `RingFileSink` (ring_file_sink.hh, `PosixFile` in main.cc) | buffer, buffer, chunk and ring positions, broken; the file and its offset | packet, flush, set position, end | `record-service` |
| `Clock`, `ClockBaseline` (base.hh) | PID, baseline PCR and time, last PCR, gap counter, ready and wrap-around flags | set PID, PCR, TOT, now | `record-service`, `print-pes` |
| PCR helpers (tsduck_helper.hh) | none | validity, comparison | program filter, start seeker |
| `StdoutSink` (packet_sink.hh) | buffer and position | packet, flush, end | the commands that pass packets on |
| `StartSeeker` (start_seeker.hh) | packet queue, end PCR, streams, where the change was | packet; PAT, PMT; end | `seek-start` |
| `PcrSynchronizer` (pcr_synchronizer.hh) | PMT PIDs, count of PMTs, PCR PIDs, PCRs, time | packet; PAT, SDT, PMT, TOT | `sync-clocks` |
| `EitCollector` (eit_collector.hh) | per service, table and segment: bitmaps and versions; times | section; TOT | `collect-eits` |
| `EitpfCollector` (eitpf_collector.hh) | versions of present and following sections | section | `collect-eitpf` |
| `AirtimeTracker` (airtime_tracker.hh) | done | EIT | `track-airtime` |
| `ServiceScanner` (service_scanner.hh) | PAT, SDT, NIT | the three tables, end | `scan-services` |
| `PesPrinter` (pes_printer.hh) | PMT PIDs, clocks by PCR PID, PCR PID by stream | packet; PAT, PMT, TOT | `print-pes` |
| `LogoCollector`, `ProgramMetadataFilter`, JSON lines | none of their own | print what is seen | their commands |

How the parts interact:

* `FeedPackets` calls `HandlePacket` of the first sink, which calls the next one;
  `false` travels back and ends the loop, and `End` is then called along the
  chain.
* A `SectionDemux` (TSDuck) inside a sink reports a table in the middle of the
  packet that completes it, before the sink decides what becomes of that packet.
* `RingFileSink` calls its observer, the recorder, in the middle of
  `HandlePacket`, which the recorder itself called in the middle of its own.
* The recorder tells an application through JSON lines where in the ring file
  which program is.  The application reads the same file and starts
  `record-service` again at the last position it was told.

What has to be right, and where it is hard:

* The ring file: what the application was told it has must be in the file,
  whatever write is short, whatever system call fails, and wherever the process
  or the machine stops.
* The recorder: messages have to make sense together although EITs, program
  ends and chunk ends come in any order and may all be caused by one packet.
* The clock: PCRs wrap around, jump and change PID, and time must not.
* The service filter: it follows PIDs that the stream itself announces and may
  change at any time; the sinks behind it abort on a PAT that does not list the
  service.
* The program filter: it compares PCRs with times through a clock that may have
  to be synchronized again while it waits or streams.
* The packet source: `read(2)` cuts the input anywhere, and synchronization may be
  lost anywhere in a buffer that is being refilled.
* The start seeker: it decides after the fact where in a queue of packets its output
  begins, and has to stop seeking in time.
* The collectors and scanners: their tables come in any order, get lost, change
  while they wait for others, and yet they have to end with a consistent answer.

`PROJECT.json` lists the components with their status, and the hazards at the
lines where they bite.

## 2. The modules

| Module | Models | Uses |
|---|---|---|
| `RingLayout` | sizes and positions of a ring file | |
| `ChunkLog` | abstract: the ring of chunks the application relies on | `RingLayout` |
| `PacketRingSink` | abstract: the sink as its caller sees it, packet by packet | `RingLayout` |
| `RingFileSink` | the sink, the file, the restarting application | `RingLayout`; implements `ChunkLog` and `PacketRingSink` |
| `ClockStatus` | abstract: a clock's PID and readiness | |
| `Pcr` | PCR values and `ComparePcr` | |
| `Clock` | `Clock` and `ClockBaseline` as operators | `Pcr` |
| `StreamClock` | a clock in a stream in which things go wrong | `Clock`; implements `ClockStatus` |
| `ServiceRecorder` | the recorder and what the application makes of its messages | composes `PacketRingSink` and `ClockStatus` |
| `ServiceFilter` | the service filter | |
| `ProgramFilter` | the program filter in a stream with a true time | `Pcr` |
| `PacketStream` | abstract: the packets that the bytes of an input determine | |
| `FileSource` | the packet source, its buffer and `read(2)` | implements `PacketStream` |
| `StartSeeker` | the start seeker, its queue and its limits | `Pcr` |
| `EitProgress` | `TableProgress`, `TableGroupProgress`, `ServiceProgress`, `CollectProgress` as operators | |
| `EitCollector` | the EIT collector and a schedule that is broadcast | `EitProgress` |
| `ServiceScanner`, `PcrSynchronizer`, `EitpfCollector`, `AirtimeTracker`, `StdoutSink` | the sinks of these names | |
| `PesPrinter` | the PES printer on the stream of one service | `Clock` |
| `Commands` | `MakePacketSink`: a process that runs one command | composes the six sinks before it |
| `MC...` | constants for TLC | |
| `RingFileSinkProofs`, `ServiceRecorderProofs`, `StreamClockProofs`, `ProgramFilterProofs`, `StartSeekerProofs`, `EitCollectorProofs`, `CommandsProofs` | theorems | the modules they are named after |
| `PipelineProofs` | theorems | `FileSource` and `ServiceFilter` |

Conventions.  Variables have the names of the members without the trailing
underscore, actions and operators the names of the methods.  `None` (or
`NoPid`) is a null pointer, `PID_NULL` or an absent option.  A packet is a record
that says which table it completes, if any; a table that a handler would skip as
broken has no effect and is the same as a packet without a table.  `run` is what
the loop of `FeedPackets` does: `"up"` while it feeds packets.  `demuxed` are the
PIDs a `SectionDemux` looks at and `reported` those whose table it has reported as
it is now: TSDuck reports a table again only when it changes, or when its PID was
removed and added.  An operator
`X_Something` placed before `X` is a *mutant*: what `X` would be with a plausible
bug.  No specification uses it; `PROJECT.json` says which property each one
breaks.

### RingFileSink

`pc` says where in `HandlePacket`/`Flush` the sink is; one action is one system
call or one stretch of code between two of them.

| Action | Code |
|---|---|
| `Start` | `ServiceRecorder::Start`, `SetPosition`; may fail |
| `HandlePacket`, `HandleRest` | the loop of `HandlePacket` with `FillBuffer` |
| `Write`, `Sync`, `Notify`, `Trunc`, `Seek` | `Flush`: `write` (any length), `fsync`, the observer, `ftruncate`, `lseek` |
| `Fail` | one of them fails: broken sink, `stop` with `reset` |
| `End` | end of input: the buffer is not flushed |
| `Kill`, `PowerLoss` | the process or the machine stops |

Bytes of the stream are numbered, so that the content of the file can be compared
with what it should hold.  `cache` is the file as `read` sees it, `disk` what
survives a power loss; a power loss keeps, per byte, the synced or a later value.
`last` and `held` are the application: the position of the last `chunk` message
and the chunks it counts on.

### ServiceRecorder

`HandlePacket` is one action for one packet: `Demux` (the PCR handling and the
table handlers) and then `OnPreparing` or `OnRecording`, with the call of the
sink and the call back in it.  The branches of `OnRecording` are named
(`Changed`, `Switch`, `Over`) because three things depend on them: the boundary,
the messages and `event_started`.  The messages act on `app`, a record of what an
application that follows the documentation keeps; what it should never see is
added to `app.faults`.  `Now()` may return any time, so no property depends on
a monotonic clock; `StreamClock` shows what it really returns.

`kDone` is never assigned in the code and is not a state here.  The help in
main.cc calls the last message `end`; the code sends `stop`.

### Clock and StreamClock

`Clock` is a record and each method an operator.  `StreamClock` feeds it with
the PCRs of a system time clock that wraps around, TOTs with the right time, and
at most `MaxDisturbances` jumps, wrong PCRs and PID changes.  Times are relative
to the last TOT, which makes the endless stream finite-state: the code only adds
to the time a TOT gave it.

### ServiceFilter

One packet is one action: `Demux` calls a handler if the PID is one `demux_`
looks at, then the packet is dropped, replaced by the modified PAT or handed on.
`named` records what the last PMT of the service and the last CAT named,
`announced` what the sinks behind the filter know of the PMT's PID.  Tables are
dispatched by their table id, as in the code, on whatever PID they come.

### ProgramFilter

The stream has a true time `t`; PCRs (`PcrAt`) and TOTs (`NowMs`) follow from it.
The state of the filter is the record `filter`, each method an operator on it;
`WaitReady` and `DoStreaming` return the filter, the packets handed to the sink
and whether the loop goes on.  The sink may refuse any of these packets.  An
assertion that fails ends the run as "aborted".  Margins are part of
`EventTimes`.  A PAT and a PMT are one packet each, except that a "PMTpart" is a
packet of the PMT's PID that completes no table.

### FileSource and PacketStream

`input` says of each byte whether it is a sync byte; the buffer holds offsets of
bytes, so that every move and read can be compared with the file.  `FillBuffer`,
`Read` (any number of bytes), `ReadEof`, `GetNextPacket`, `LoseSync`, `Resync` and
`ResyncFailed` are the steps between two calls of `read(2)`.  A cell of the buffer
that was never written, or is behind the end, passes for a sync byte: reading one
would show.  `PacketStream` says the same without a buffer: which packets there are,
where synchronization is found again within 2 packets, and when to give up, as a
function of the input.  `ImplementsPacketStream` maps `at` to the offset of the
first unread byte.

### StdoutSink

`HandlePacket` copies what fits, writes the full buffer (`Write`: any length;
`WriteFails`) and copies the rest; `End` flushes what is left.  Bytes are numbered.
When a write fails the buffer is kept, the chain is told, and `End` tries again.  A
`write(2)` that returns 0 is a step that changes nothing: the safety properties
include it, and none says that a flush ends.

### StartSeeker

Packets are numbered, and the queue, the output and the demultiplexer's packet
indexes are such numbers.  A PMT may take several packets (`partial` is its first),
so that the start of the output is before the packet that completes the PMT.  The
PCRs of each PCR PID have an origin of their own.  `change`, `last_pat`, `seek_from` and
`origin` record what happened for the properties.  `Seek` ignores whether the sink took
the PAT and offers it the rest all the same (`FromTransition`).  The assertion in
`Seek` ends a run as "aborted".

### EitProgress and EitCollector

A bitmap of a table is the set of its bits.  The sizes (8 tables, 32 segments, 8
sections) are constants.  `EitCollector` draws sections from a schedule, each as
often as it likes or never, moves the hour on with TOTs and gives a table, or one
segment of a table, a new version.  The sections of a table may have different versions
from the beginning, as the NOTE in `CheckConsistency` says they do.  `written`, `repeated`
and `dropped` record what it did.  The code keeps the versions of a table by section
index, one for all segments, so a section may overwrite the version another one is
compared with (`Overwrites`): `fresh` has the sections written to which this has not
happened, and `needless` says that one of those was written again.

### The sinks in Commands

`ServiceScanner` prints once it has a PAT, an SDT and a NIT; a NIT may come on the
standard PID while the PAT names another, and keeps the PID a PAT has named for it
(unless `NitMoves`), however else the PAT changes.  `PcrSynchronizer` is in a stream with
a true time, whose PAT moves and drops services.  `EitpfCollector` sees a schedule
whose sections change (version numbers wrap around).  `AirtimeTracker` follows an
event through a schedule with gaps, moves and a cancellation.  `PesPrinter` has one
service whose PMT changes the PID, and with it the origin, of its PCRs; its packets come
at any time, the one between a new PMT and its report excepted (`Described`).
`Commands` chooses a command in `Init`, as `MakePacketSink` does from the arguments,
and then takes the steps of its sink; the variables of the sinks that were not made
are `None`, and variables that several sinks have are shared, since there is only
one of them in a process.  `MCCommands` has their constants.

## 3. What the runs check

| Run | Bounds | States |
|---|---|---|
| `ring_file_sink` | packets of 2, buffers of 3, 2 buffers per chunk, 3 chunks, 32 bytes, 2 stops | 348,709 |
| `service_recorder` | 2 PMT and 2 PCR PIDs, 3 programs, 3 times, 2 chunks of 3, packets of 2; no bound on the length | 28,753 |
| `stream_clock` | PCRs modulo 22, a second of 4 ticks, a gap threshold of 1, 2 PIDs, 2 disturbances, endless | 816,662 |
| `service_filter` | 4 fixed PIDs, the null PID, 3 others, 2 services; no bound on the length | 1,546 |
| `program_filter` | PCRs modulo 30, 6 ticks, 2 PCR PIDs, 2 sets of event times | 251,213 |
| `program_tables` | 2 PMT PIDs, 2 PCR PIDs, one stream in the black list or none, with and without pre-streaming, 2 ticks | 292,420 |
| `file_source` | packets of 2, reads of at most 3, every input of at most 12 bytes | 262,866 |
| `start_seeker` | 2 PMT PIDs, 2 PCR PIDs, 3 sets of streams, 7 packets, 6 in the queue, PCRs modulo 16 | 1,613,221 |
| `eit_collector` | 2 tables, segments and sections, all shapes, one version or one per segment; 3 services, a limit of 2 TOTs; 2 new versions | 189,876 |
| `commands` | 3 services, one of them unwanted; 2 to 4 changes of the stream per command | 290,146 |

* `ring_file_sink`: the assertions about positions hold and the file is bounded
  (`WithinRing`); a reported chunk is complete in the page cache and on the disk until
  it is given up, and the chunks are in order (`HeldSafe`); and the sink implements
  `ChunkLog` and `PacketRingSink`.  In these bounds packets straddle buffers, chunks
  and the ring's end, the ring is filled almost twice, and two sessions are cut off
  anywhere.
* `service_recorder`: `MessagesConsistent` says that `event-start` and `event-end`
  alternate and name the same program (`EventsPaired`), that a record starts where
  the last one ended (`SeamlessRecords`), that chunks are reported in sequence
  (`ChunksInSequence`) and that updates are about the program on the air
  (`UpdatesCurrentEvent`).  `AppInStep`: recorder and application agree.  Three
  programs are enough for one that returns and one that is new; the fault set
  makes every step of an unbounded behaviour count.
* `stream_clock`: `Now()` stays near the true time (`NowAccurate`), moves forwards
  in small steps between TOTs (`NowSteady`), recovers for good (`EventuallyAccurate`),
  and the clock is what `ClockStatus` says.
* `service_filter`: `PmtFollowed` (the filter looks at exactly the tables it needs, and
  at the PMT its sinks were told of), `SinksSafe` (what the sinks behind assert),
  `ServicePassed` (the service and nothing else).  The run finds counterexamples, the
  proofs cover every set of PIDs.
* `program_filter`: a program is not streamed after its end or before its start
  (`InTime`), and is streamed while it is on the air (`OnAirStreamed`), up to
  the intervals of PCRs and EITs.  PCRs are chosen so that the PCR of a program's
  end wraps around but no PCR does (see below).  Two event times make the
  EIT move, cut and extend the program; 6 ticks take in the end of one of
  them plus every delay allowed.
* `program_tables`: the output starts with a PAT and the PMT it names
  (`AnnouncedFirst`), and exit code 222 is for programs of which nothing was streamed
  (`RetryUnstreamed`).
* `file_source`: the packets and the end are those of `PacketStream`, however `read(2)`
  cuts the input (`ImplementsPacketStream`); the buffer has room for each read, its
  unread part is the part of the file before the offset, packets are whole
  (`BufferSound`); the loop ends.  12 bytes are more than the 10 a resynchronization
  looks at, and reads of 1 to 3 bytes end inside packets, at their ends, and in the
  middle of a resynchronization.
* `start_seeker`: `StartCorrect` says that the output is the whole input or the PAT
  that names the PMT and the input from the first packet of the PMT that changed the
  streams (`OutputFromStart`), with each packet once and in order whatever the sink
  refuses (`OutputInOrder`), with nothing left unsent (`AllSentAtEnd`), and that
  only a change makes it skip anything (`OnlyChangesSkip`).  `SeekBounded`: both limits
  take effect.  7 packets are enough for a PAT, a PMT, a PAT that moves it, a changed PMT in two
  packets and two packets more.
* `eit_collector`: `CompletionExact` compares bitmaps, unused parts and three levels of
  completion flags with the set of sections received.  `WrittenOnce` says that a
  section is written again only if its version was overwritten in between or has
  changed, so not at all while nothing changes and no segments of a table have the
  same section indexes in different versions (`Clashing`), and that while nothing
  changes none is dropped unwritten, clashing or not.  `EventuallyStops` holds whatever
  does not get through, unless segments clash.  Two of each index make a last and a not
  last one of each.
* `commands`, per command:
  - `ScanCorrect`: the remote control key is of the network the PAT names;
  - `ClocksCorrect`: at the end there is a clock for each service announced, of the
    PID its PMT named, and each PCR is of the time printed with it;
  - `EitpfCorrect`: each change of a section is printed once and in order, the answer
    is of one generation, and the lookup in `Done`, which compared sizes only, does not
    throw;
  - `AirtimeCorrect`: the last line is what the current table says, and tracking does
    not end before the event has gone;
  - `DatetimeAccurate`: the time printed with a PCR, PTS or DTS is the time it stands
    for, up to the interval of the PCRs and the parts of a millisecond that are cut off,
    whichever PMTs came before;
  - `StdoutCorrect`: every byte handled is written or in the buffer, in order, once,
    and is offered again at the end when a write failed;
  - `CommandsEnd`: every command that should end by itself does, but for a scan whose
    NIT was reset for good (`Forgotten`, service_scanner.hh:127 below);
  - `PmtShown`: the current PMT is printed again and again as it changes.

Deadlock is not checked where a process that has ended stops, or where a stream of
bounded length is over: the recorder, the filters, the source, the seeker, the
collector and the commands.  Symmetry is used where PIDs and ids are only compared,
and not with temporal properties.

Fairness.  The broadcaster, never the process, has to be fair in all but one module:
the code runs inside the steps that deliver packets.

* `StreamClock`: PCRs, TOTs and PMTs keep coming and time goes on (weak fairness of
  `Tick`, `Pcr`, `Tot`, `FirstPmt`).
* `EitCollector`: TOTs keep coming; sections need not.
* `Commands`: the broadcaster repeats its PAT, SDT, NIT, PMTs and EIT sections and
  sends TOTs and PCRs; schedule and time go on.  Repeating tables is what the ARIB
  standards demand of it.
* `FileSource`: the process runs, and `read(2)` returns.

### Disagreements between code and documentation

| Run | What it shows |
|---|---|
| `program_wrap` | `ComparePcr` is documented to take the wrap-around into account; it never adds `kPcrUpperBound`, so a PCR that has wrapped around since the start PCR compares as earlier and a program on the air is not streamed. |
| `eit_updates` | `CheckCollected` does not look at the version of a segment's last section. With `--streaming`, the new version of that section is dropped as if it had been collected. |

TLC has also shown the following, with other constants or formulas than those of the
runs.  The passing runs leave these cases out by the constants named.

| Code | What the model shows |
|---|---|
| service_recorder.hh:139 | `UpdatesKnownEvent` does not hold: the comment in `OnEndOfChunk` says an update extends the record of the last program, but one that was over when recording began has no record. |
| program_filter.hh:147 | `InTime` fails with `WaitUntil`: after a change of the PCR PID a TOT is taken at once, PCRs only once the event is known, so the delay of about 5 seconds (help) is as long as that takes. |
| program_filter.hh:201 | `AssertionsHold` does not hold: a PAT moves the PMT and, before the new PMT is complete, the assertion on the PID of the PMT packet fails. |
| program_filter.hh:224 | Packets without a PCR of the PCR's PID are handed on before the black list of tags is looked at. |
| start_seeker.hh:200 | The assertion that a PAT lists the service is "ensured by ServiceFilter", but no service filter is before the seeker: a PAT without the service (`Unlisted`) aborts the run. |
| start_seeker.hh:131 | With `MaxDuration = 0` the end PCR is the first PCR itself and the second one ends the search, although `--max-packets` may be given alone (main.cc:853). |
| start_seeker.hh:138 | With `MaxPackets = 0` and PCRs that wrap around just past the end PCR (`FirstPcrs = {13}`), `SeekBounded` fails: no PCR reaches the end any more, because of `ComparePcr`. |
| start_seeker.hh:138 | After a change of the PCR PID, PCRs of another origin are compared with the end PCR, and the search may end early or late; `SeekBounded` is about the PCRs of the origin that the end PCR was taken from and fails without that condition. |
| start_seeker.hh:249 | A change of the video streams counts, too; the help (main.cc:845) says only the number of audio streams is looked at. |
| pcr_synchronizer.hh:203 | With `Changing = {"SDT"}`, a new version of the SDT adds to `pmt_count_` again, the maps never agree with it and the command does not end; or it ends with the services of the earlier SDT (`ClocksCorrect`). |
| pcr_synchronizer.hh:231 | With `Changing = {"PMT"}`, the PCR PID of an earlier PMT stays among those a PCR is awaited from, and the command does not end; or a PCR is older than the TOT printed with it (`ClocksCorrect`). |
| pcr_synchronizer.hh:218 | With the PMTs of two wanted services on one PID, the PMT of one that the SDT does not announce counts for one that it does, and the latter is missing in the output (`ClocksCorrect`). `OwnPmtPids` excludes this from the theorems. |
| pcr_synchronizer.hh:108 | With `Regular = FALSE`, one service with rare PCRs makes the PCRs of the others older than the time printed by whole TOT intervals; the help (main.cc:200) promises one second. |
| eit_collector.hh:89 | With segments of one table in different versions, and more than one section in one of them, each one's versions overwrite the other's, sections are written again and again, and while one is lost neither completion nor the time limit is reached: `EventuallyStops` fails without `~ Clashing`. The example in the comment at :183 does not clash, its segments have one section each. |
| service_scanner.hh:127 | A new version of a PAT with a PID of its own for the NIT resets `nit_`; the demultiplexer does not report the same NIT again, and the scan does not end (`CommandsEnd` excepts it as `Forgotten`). With `NitMoves = TRUE`, a PAT that names another PID for the NIT may leave the key of the earlier network (`ScanCorrect`). |
| tsduck_helper.hh:648 | Services of type 0xAD are printed, which the help (main.cc:162) does not list. |
| pes_printer.hh:90 | With `Origins` near the end of the range, a PTS just past the wrap-around is printed with a time a whole cycle too early. |
| pes_printer.hh:131 | A PAT on a PID of another table (`strange`) resets the state: the PMT is not looked at any more. `PmtShown` excepts this case. |

## 4. What is proved

TLAPS checks the theorems for every value of the constants that satisfies the
named assumptions (`LayoutAssumption`, `BoundAssumption`, `RecorderAssumption`,
`PcrAssumption`, `ClockAssumption`, `StreamAssumption`, `FilterAssumption`,
`ProgramAssumption`, `SourceAssumption`, `SinkAssumptions`, `SeekerAssumption`,
`ProgressAssumption`, `CollectorAssumption`), which are relations the
code checks, constants of the standard, or bounds.  A theorem that needs more says so in
its own ASSUME.

**RingFileSink** (`RingFileSinkProofs`): `TypeCorrect`, `AlwaysWithinRing` (from
`PositionsCorrect` and `FileStaysBounded`), `HeldChunksSafe` (from `HeldChunksIntact` and
`HeldChunksInOrder`), `RefinesChunkLog` (`Spec => ImplementsLog`) and
`RefinesPacketRingSink` (`Spec => ImplementsPacketRingSink`), for every packet, buffer,
chunk and ring size and any number of sessions.  `HeldIntact` is not
inductive: it says nothing of the chunk being written.  The inductive invariant
adds that the positions are what the chunk's start, the buffers written and the
bytes buffered make them; that the part of the current chunk already written, and
the buffer, hold the last bytes of the stream in order; that after `fsync` the
whole chunk is on the disk; that the chunk at `last`, the only one a session
writes to, is not held; and that all held chunks are older than the bytes in
flight.  `RefinesChunkLog` follows from it step by step: only `Notify` and `Fail`
change what can be read back.

`RefinesPacketRingSink` closes the argument about the recorder, whose module knows the
sink only as `PacketRingSink`: one packet there is up to a dozen system calls here, and
straddles buffers, chunks and the end of the ring.  The invariant adds how much of the
packet is left (`Lefts`): something once the loop of `HandlePacket` goes on, and less
than a buffer, so that the loop runs at most twice and a packet ends at most one chunk.
`PacketPlace` says where in its chunk the packet began, in each state of the call; from
it each step of the sink is the abstract packet, a stop, or inside the call.  All modular
arithmetic is in `PacketWithin`, `PacketAcross` and `PreviousBoundary`.

**ServiceFilter** (`PipelineProofs`): `FilterTypes`, `SinksAlwaysSafe`,
`PmtAlwaysFollowed` (from `TablesAlwaysFollowed` and `SamePmtAlways`) and
`ServiceAlwaysPassed` (from `OnlyTheService` and `AllOfTheService`).  The
invariant adds that a PMT PID that is followed is never a reserved one (otherwise
its removal would stop the PAT or the CAT from being followed), that the PAT to be
sent is the one of that PID, that nothing passes before there is one, and that the
filters hold exactly the safe part of what the last tables named.

**ServiceRecorder** (`ServiceRecorderProofs`): `TypeCorrect`,
`MessagesAlwaysConsistent` (from `EventsAlwaysPaired`, `RecordsAlwaysSeamless`,
`ChunksAlwaysInSequence` and `UpdatesAlwaysCurrent`) and `AppAlwaysInStep`, for any
programs, times and PIDs and a ring of any size. None of the fault invariants is
inductive: a fault appears when recorder and application have drifted apart before.
The inductive invariant says that no fault has been seen except the update that
`UpdatesKnownEvent` is about (`NoFaults`), that recorder and application agree on
the open program, the boundary and the last chunk (`Agreed`), that the sink writes
in the chunk it last told of (`InChunk`), and that before recording begins nothing
has been sent or kept (`Fresh`, `OffFresh`). That a packet ends at most one chunk,
and the next one of the ring, is arithmetic and is proved once as lemmas
(`PacketStep`).

**StreamClock** (`StreamClockProofs`): `TypeCorrect`; `ClockImplementsStatus`
(`Spec => ImplementsStatus`); `NowAlwaysAccurate` and `NowAlwaysSteady`, for any PCR
range, thresholds and number of disturbances.  The second closes the argument about
the recorder, whose module knows the clock only as `ClockStatus`.  The invariant adds
that a clock that took a PCR has one in its baseline (`Anchored`); otherwise a TOT alone
could change what the status says of the PCR.  The proof has one lemma per method of
`Clock`.

`NowAccurate` is far from inductive: it looks at `Now()`, while the next PCR is judged by
its distance from `last_pcr_`.  `Near` relates three quantities: what the clock counts
since its baseline, how far `last_pcr_` is behind the system time clock, and how many
gaps in a row have been ignored.  Either the clock is right up to a second per slip, or
the next PCR will correct it by exactly the distance it is off, or it is ahead and the
next right PCR will look like a gap (`Bounded`, `Genuine`, `Ahead`).  `StreamAssumption`
has the two relations this needs: PCRs ignored as gaps, one more than the
threshold where the 8-bit counter wraps around, must not make the next right one look
like a gap; and a TOT must come before the PCRs can go round.  Real streams (a PCR every
100 ms, a TOT every 30 s, a cycle of 26 hours) satisfy both by far.

**ProgramFilter** (`ProgramFilterProofs`): `TypeCorrect`, `AlwaysAnnouncedFirst` and
`RetriesAlwaysUnstreamed` without conditions; `AlwaysInTime` and `OnAirAlwaysStreamed`
if `PcrsInRange` and `SyncsInTime`.  `IInv` says which states of `run`, `filter.state`
and the tables go together (`Control`, `Tables`), that the range of PCRs is what
`ConvertTimeToPcr` gives for the event and the clock (`Ranged`), that the clock is of the
PCR PID or has to be synchronized again (`OwnClock`), and what the last comparison of
PCRs decided (`Decisions`).  `ClockInv` adds how far clock and stream may be
apart, also while only one of PCR and time is there (`Accurate`, `HalfReady`): the first
PCR after a TOT stands for the PCR at that TOT, and PCRs are looked at only once the
event is known.  From this comes `Tolerance`.  `PcrsInRange` is where `ComparePcr` is
right; `program_wrap` shows a program that is lost outside of it.  `SyncsInTime` excludes
the case of program_filter.hh:147 above, a program waited for with `--wait-until` whose
PCR PID changes before it is announced.

**FileSource** (`PipelineProofs`): `BufferAlwaysSound` and `RefinesPacketStream`
(`SourceSpec => ImplementsPacketStream`), for every packet size, read size and input.  The
invariant adds what `FillBuffer` was asked for and where it leaves the positions
(`Asking`), that the first unread byte follows the last packet (`Progress`), and that
while it resynchronizes a whole packet without a sync byte is there (`Lost`): this is why
a search in the buffer finds what a search in the file would.

**Commands** (`CommandsProofs`): one process runs one sink (`OneSink`, `OneSinkMade`),
so that each sink is proved alone.

* `AirtimeAlwaysCorrect`, `EitpfAlwaysCorrect` and `StdoutAlwaysCorrect` have no
  conditions.  `EitpfInv` says that the versions in the two maps are of the sections
  last received; the lookup in `Done` is safe because both maps are subsets of the
  wanted services and as large as those (`SameServices`).  `StdoutInv` numbers the bytes:
  output, buffer and rest of the packet join, and how many there are is what was
  handled, in each state of a flush that may be short, fail and be tried again.
* `ScanAlwaysCorrect` if the PID of the NIT does not move (`~ NitMoves`): the
  demultiplexer looks at the NIT of the last PAT only, so `nit_` is of that network.
* `ClocksAlwaysComplete` if the SDT does not change and PMTs have PIDs of their own:
  `pmt_count_` is the number of services announced, so once as many PMTs are there they
  are all there (an argument about cardinalities).  `ClocksAlwaysCorrect` adds
  accuracy, if PMTs do not change either and PCRs are regular: by `Timely`, every PCR
  awaited comes before the next TOT.  Without each of these conditions TLC finds a
  counterexample (table above).
* `DatetimesAlwaysAccurate` if no PCR wraps around while the stream lasts (`NoWrap`;
  pes_printer.hh:90 above).  `PrintInv` says that, once the current PMT has been reported
  (`current`), and whatever PATs have come since, the clock of its PID is
  of the stream's last PCR and that the PCR and the time of its baseline are at most an
  interval of PCRs apart, whether the TOT or the PCR came first (`KeepsTime`); it says
  nothing of the other clocks in `clock_map_`, which no line is printed with.

**StartSeeker** (`StartSeekerProofs`): `SeekerTypes` and `StartAlwaysCorrect` without
conditions, `SeekAlwaysBounded` if `EndInPeriod`, for any PIDs, tables, limits and length of
the input.  `SeekInv` says what is kept and what has been sent in each state: while it
seeks, the queue is the whole input and nothing has been sent (`Kept`); the PMT that is
compared is one after the PAT that named it, and a change that was found is between a PAT
that was kept and the end of the queue (`Searched`); from then on the output is all of
the input, or the PAT and everything from the change on, up to the packet in hand
(`Output`).  That the output is cut at an index of the queue and not of the input matters
only because both agree while it seeks.  `SeekAlwaysBounded` needs that `end_pcr_` is what
the first PCR taken says (`Timed`), and compares it only with PCRs of the same origin.  `EndInPeriod` is where `ComparePcr`
tells before from after: the PCRs do not wrap around between the end of the search and
the end of the input.  The constants of the run satisfy it; start_seeker.hh:138 above is
what happens outside of it.

**EitCollector** (`EitCollectorProofs`): `CollectorTypes`; `AlwaysWrittenOnce` if
`ConsistentSchedules`; `AlwaysCompletionExact` if also `CompleteSchedules`, for any number
of tables, segments, sections and services.  The conditions are what the standard says
of a schedule, and those of the run satisfy them: the sections of a part, a table and a
segment agree on how far it goes, and a section has one version at a time; the schedule
that a collector is to complete has all sections it announces and does not change.
Nothing is demanded of the versions within a table: both theorems hold for any mix.
eit_collector.hh:89 above shows the price of a mix, sections written more than once, and
the run `eit_updates` what happens when versions change.

* `Tracks` relates what is kept of a group to the set of its sections that have been
  written: each has its bit, no other bit is set, nothing is unused but what sections
  or the hour say, and every flag is what the bitmaps say.  Update, the passing of the
  hour and a new version of a table keep it (`UpdateTracks`, `PassTracks`,
  `ScheduleTracks`).
* The versions stored are those of the fresh sections: each of the indexes that
  `CheckCollected` looks at still has the version of the section.  `Update` overwrites
  the versions of other sections, and those are exactly the ones that `Overwrites` takes
  out of `fresh` (`SectionTracked`); so a fresh section is always found to be collected
  (`FreshCollected`).  While nothing changes, a bit stands for one section only, so what
  is found to be collected has been written (`CollectedWritten`).
* `completed_` is set from the flags of all services when a section is added.  That all
  flags are set only if nothing is missing is `AllCompleted`; that a flag is missing only
  if a section is, `OneMissing`.  Between sections the hour may complete a table
  without the collector stopping (`UpdateUnused` leaves `completed_` as it is), which is
  why `CompletionExact` has `Needed` without `Passed` in its second half.

Only model-checked: liveness (`EventuallyAccurate`, `EventuallyEnded`, `EventuallyStops`,
`CommandsEnd`, `PmtShown`), which is out of the prover's reach, and the two runs that show
a violation.  Every invariant and every action or refinement property of a passing run
is also a theorem.

## 5. What is not modelled

* Formatting: JSON, logging, ARIB strings, the output of the metadata filter (which keeps
  no state).
* `LogoCollector`: LibISDB, which is not in the repository, keeps the state.
* The parsing of options; what `LoadOption` demands of them is assumed where it matters.
* TSDuck's demultiplexer and packetizers, except for what their callers see: a table
  is reported once it is complete, a packetizer repeats its table.
* Section-level details of one table other than the EIT: a table is one step.
* A PCR PID of 0x1FFF in the program filter: no PCR reaches the filter then, so nothing is
  decided until the next PMT, which is a change of the PCR PID like any other.
* Midnight in the EIT collector, where the tables of the schedule move by a day, and
  an event without a duration in the program filter (program_filter.hh:509).

## 6. Plan

Done: all sinks that keep state, the source, and the composition; for each of them the
safety properties and the refinements are theorems.

Next, in this order:

1. `EitCollector`: midnight, and with it a schedule whose tables move by a day.
2. `ProgramFilter`: an event without a duration (program_filter.hh:509).
3. `ServiceRecorder` and `RingFileSink` in one specification. `RefinesPacketRingSink` says
   that the recorder may be read with the real sink in the place of the abstract one; a
   joint module would have the messages of the recorder next to the state of the disk.
