---------------------------- MODULE EitCollector ----------------------------
(***************************************************************************)
(* EitCollector (eit_collector.hh), the sink of `collect-eits`: it writes  *)
(* each EIT[schedule] section once and stops when it has all sections of   *)
(* the services it has seen, or when nothing new has come for a while.     *)
(*                                                                         *)
(* The broadcaster repeats the sections of its schedule in any order, and  *)
(* some may never get through.  The demultiplexer reports every section    *)
(* of the EIT, the ones it has reported before included.                   *)
(***************************************************************************)
EXTENDS EitProgress

CONSTANTS
    Schedules,      \* what may be broadcast, for each value of streaming: sets
                    \* of sections
    Actual,         \* the services whose EITs have the "actual" table ids
    CollectActual, CollectOthers,  \* options
    IncludedSids, ExcludedSids,    \* options
    TimeLimit,      \* option_.time_limit, in TOTs
    MaxChanges      \* bound: new versions of tables, for each value of streaming

ASSUME CollectorAssumption ==
    /\ \A b \in DOMAIN Schedules : \A s \in Schedules[b] : s \subseteq EitSections
    /\ DOMAIN Schedules \subseteq BOOLEAN
    /\ CollectActual \in BOOLEAN /\ CollectOthers \in BOOLEAN
    /\ CollectActual \/ CollectOthers
    /\ TimeLimit \in Nat \ {0} /\ MaxChanges \in [DOMAIN Schedules -> Nat]

VARIABLES
    streaming,      \* option_.streaming
    schedule,       \* what is broadcast
    changes,        \* new versions so far
    hour,           \* the segment of the day, as the last TOT has it
    run,            \* "up", "completed", "timedOut" or "ended"
    has_timestamp,  \* has_timestamp_
    elapsed,        \* timestamp_ - last_updated_, in TOTs
    progress,       \* progress_
    written,        \* the sections written
    fresh,          \* those of them that nothing written since has made look new
    repeated,       \* a section was written a second time
    needless,       \* one was that did not look new
    dropped         \* a section was dropped that had not been written

vars == <<streaming, schedule, changes, hour, run, has_timestamp, elapsed, progress,
          written, fresh, repeated, needless, dropped>>

Init ==
    /\ streaming \in DOMAIN Schedules
    /\ schedule \in Schedules[streaming]
    /\ changes = 0
    /\ hour \in SegmentIndexes
    /\ run = "up"
    /\ has_timestamp = FALSE
    /\ elapsed = 0
    /\ progress = NewProgress
    /\ written = {}
    /\ fresh = {}
    /\ repeated = FALSE
    /\ needless = FALSE
    /\ dropped = FALSE

\* The options: table ids, the inclusion and the exclusion list.
Selected(eit) ==
    /\ IF eit.service \in Actual THEN CollectActual ELSE CollectOthers
    /\ IncludedSids = {} \/ eit.service \in IncludedSids
    /\ ExcludedSids = {} \/ eit.service \notin ExcludedSids

\* A mutant: the time limit is passed before it is looked at.
Stops_Late ==
    run' = IF streaming THEN "up"
           ELSE IF progress'.completed THEN "completed"
           ELSE IF elapsed' > TimeLimit THEN "timedOut"
           ELSE "up"

\* HandlePacket after the demultiplexer: IsCompleted, CheckTimeout.
Stops ==
    run' = IF streaming THEN "up"
           ELSE IF progress'.completed THEN "completed"
           ELSE IF elapsed' >= TimeLimit THEN "timedOut"
           ELSE "up"

InTable(e, f) ==
    e.service = f.service /\ e.group = f.group /\ e.table_index = f.table_index

\* The versions of a table's sections are kept by their index in a segment, for all
\* segments together: writing eit replaces a version that w is compared with.
Overwrites(eit, w) ==
    /\ InTable(eit, w) /\ eit.version # w.version
    /\ \E i \in w.section_index..(w.last_section_index - 1) :
          i \in eit.section_index..eit.last_section_index

\* A packet that completes a section: handleSection.
HandleSection(eit) ==
    /\ run = "up"
    /\ eit \in schedule
    /\ IF Selected(eit) /\ ~ CheckCollected(progress, eit)
       THEN /\ written' = written \cup {eit}
            /\ fresh' = {w \in fresh : ~ Overwrites(eit, w)} \cup {eit}
            /\ repeated' = (repeated \/ eit \in written)
            /\ needless' = (needless \/ eit \in fresh)
            /\ elapsed' = 0
            /\ progress' = Update(progress, eit)
            /\ UNCHANGED dropped
       ELSE /\ dropped' = (dropped \/ (Selected(eit) /\ eit \notin written))
            /\ UNCHANGED <<written, fresh, repeated, needless, elapsed, progress>>
    /\ Stops
    /\ UNCHANGED <<streaming, schedule, changes, hour, has_timestamp>>

\* HandleTot and HandleTime.  Hours pass; a new day is not modelled.
HandleTot ==
    /\ run = "up"
    /\ hour' \in {h \in {hour, hour + 1} : h \in SegmentIndexes}
    /\ progress' = UpdateUnused(progress, hour')
    /\ elapsed' = IF ~ has_timestamp THEN 0
                  ELSE IF streaming THEN elapsed ELSE elapsed + 1
    /\ has_timestamp' = TRUE
    /\ Stops
    /\ UNCHANGED <<streaming, schedule, changes, written, fresh, repeated, needless, dropped>>

\* The sections whose version changes with that of eit.
Changes(whole, e, eit) ==
    InTable(e, eit) /\ (whole \/ e.segment_index = eit.segment_index)

\* The broadcaster changes a table, and with it the version of all its sections, or of
\* those of one segment (the NOTE in CheckConsistency).  Version numbers wrap around.
NewVersion ==
    /\ run = "up"
    /\ changes < MaxChanges[streaming]
    /\ changes' = changes + 1
    /\ \E eit \in schedule, v \in Versions, whole \in BOOLEAN :
          /\ v # eit.version
          /\ schedule' = {IF Changes(whole, e, eit) THEN [e EXCEPT !.version = v] ELSE e :
                             e \in schedule}
    /\ UNCHANGED <<streaming, hour, run, has_timestamp, elapsed, progress, written,
                   fresh, repeated, needless, dropped>>

\* The end of the input.
End ==
    /\ run = "up"
    /\ run' = "ended"
    /\ UNCHANGED <<streaming, schedule, changes, hour, has_timestamp, elapsed, progress,
                   written, fresh, repeated, needless, dropped>>

Next == (\E eit \in schedule : HandleSection(eit)) \/ HandleTot \/ NewVersion \/ End

\* TOTs keep coming; sections may come or not.
Spec == Init /\ [][Next]_vars /\ WF_vars(HandleTot)

-----------------------------------------------------------------------------
(* Properties. *)

\* The type invariant.
TypeOK ==
    /\ hour \in SegmentIndexes
    /\ run \in {"up", "completed", "timedOut", "ended"}
    /\ has_timestamp \in BOOLEAN
    /\ elapsed \in 0..TimeLimit
    /\ DOMAIN progress.services \subseteq Services
    /\ \A s \in DOMAIN progress.services : progress.services[s] \in [Groups -> TableGroups]
    /\ progress.completed \in BOOLEAN
    /\ written \subseteq EitSections /\ fresh \subseteq written

\* What the collector has to have before it is done: the sections of each
\* basic or extra part of a service of which it has seen any.
Needed ==
    {eit \in schedule : \E w \in written : w.service = eit.service /\ w.group = eit.group}

\* Sections of today's segments that are over.
Passed == {eit \in schedule : eit.table_index = 0 /\ eit.segment_index < hour}

\* The collector stops as complete only when it has written all it needs but
\* what is over, and it stops at the section that completes this: bitmaps,
\* unused parts and completion flags of tables, groups and services agree with
\* the sections received, in whatever order they came.
CompletionExact ==
    /\ run = "completed" => Needed \subseteq written \cup Passed
    /\ ~ streaming /\ written # {} /\ Needed \subseteq written => run # "up"

\* Some segments of a table have the same indexes in different versions.
Clashing == \E e, f \in schedule : Overwrites(e, f)

\* "drop EIT sections which have already been collected": a section is not written
\* again unless its version was overwritten in between, and not at all as long as
\* nothing changes and no segments clash.  In the NOTE's example of different versions
\* in a table they do not: each of its segments has one section.
NotRepeated == ~ needless /\ (changes = 0 /\ ~ Clashing => ~ repeated)

\* As long as nothing changes, no section is dropped that has not been written.
NotDropped == changes = 0 => ~ dropped

\* Every section received is written, in whatever version, and written once but for
\* versions that clash or change.
WrittenOnce == NotRepeated /\ NotDropped

\* "drop EIT sections which have already been collected", and no others: the
\* same of a schedule whose versions change.
UpdatesNotDropped == ~ dropped

\* The collector stops, if not as complete then by the time limit, whatever does
\* not get through, unless it streams.  Where segments clash, sections that look new
\* again and again count as progress, and nothing is said.
EventuallyStops == ~ Clashing => <>(run # "up" \/ streaming)

=============================================================================
