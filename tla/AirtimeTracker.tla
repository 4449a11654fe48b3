--------------------------- MODULE AirtimeTracker ---------------------------
(***************************************************************************)
(* AirtimeTracker (airtime_tracker.hh), the sink of `track-airtime`: it    *)
(* prints the times of one event of one service from each EIT[p/f] table   *)
(* and stops at the first table without the event.                         *)
(*                                                                         *)
(* The stream is the schedule of the service: events 1..NumEvents, one on  *)
(* the air at a time, with gaps between them.  A table lists the event on  *)
(* the air, if any, and then the next one, if any: the first entry is the  *)
(* following event when there is a gap.  The demultiplexer reports a table *)
(* once; changes in quick succession are reported together.  Broken tables *)
(* and tables of other services change nothing and are left out.           *)
(***************************************************************************)
EXTENDS Integers, Sequences, FiniteSetsExt, SequencesExt

CONSTANTS
    NumEvents,  \* bound: events of the schedule
    Tracked,    \* option_.eid
    MaxMoves    \* bound: changes of the times of the tracked event

TrackerAssumption ==
    NumEvents \in Nat /\ Tracked \in 1..NumEvents /\ MaxMoves \in Nat

VARIABLES
    on,        \* the event on the air, or the last one that was
    airing,    \* FALSE in a gap
    canceled,  \* the tracked event was taken from the schedule
    moves,     \* changes of the tracked event's times: stands for its times
    reported,  \* the demultiplexer has reported the table as it is now
    run,       \* what FeedPackets does: "up" or "ended"
    output     \* the times printed

schedule == <<on, airing, canceled, moves>>
vars == <<schedule, reported, run, output>>

Init ==
    /\ on \in 1..NumEvents
    /\ airing \in BOOLEAN
    /\ canceled = FALSE
    /\ moves = 0
    /\ reported = FALSE
    /\ run = "up"
    /\ output = << >>

Coming == {e \in (on + 1)..NumEvents : ~(canceled /\ e = Tracked)}

Table == (IF airing THEN <<on>> ELSE << >>)
         \o (IF Coming # {} THEN <<Min(Coming)>> ELSE << >>)

Changed == run = "up" /\ reported' = FALSE /\ UNCHANGED <<run, output>>

StartEvent ==
    /\ Changed /\ Coming # {}
    /\ on' = Min(Coming) /\ airing' = TRUE
    /\ UNCHANGED <<canceled, moves>>

EndEvent ==
    /\ Changed /\ airing
    /\ airing' = FALSE
    /\ UNCHANGED <<on, canceled, moves>>

\* Another start time or duration, of an event to come or on the air.
Move ==
    /\ Changed /\ moves < MaxMoves
    /\ Tracked \in Coming \/ (Tracked = on /\ airing)
    /\ moves' = moves + 1
    /\ UNCHANGED <<on, airing, canceled>>

Cancel ==
    /\ Changed /\ Tracked \in Coming
    /\ canceled' = TRUE
    /\ UNCHANGED <<on, airing, moves>>

\* A mutant: the following event is asked for before the present one is read.
Outcome_FollowingFirst(events) ==
    IF Len(events) < 2 THEN "done"
    ELSE IF Tracked \in {events[1], events[2]} THEN "write" ELSE "done"

\* What HandleEit does with a table: "write" the event or set "done".
Outcome(events) ==
    IF events = << >> THEN "done"
    ELSE IF events[1] = Tracked THEN "write"
    ELSE IF Len(events) < 2 THEN "done"
    ELSE IF events[2] = Tracked THEN "write" ELSE "done"

HandleEit ==
    /\ run = "up" /\ ~reported
    /\ reported' = TRUE
    /\ output' = IF Outcome(Table) = "write" THEN Append(output, moves) ELSE output
    /\ run' = IF Outcome(Table) = "done" THEN "ended" ELSE run
    /\ UNCHANGED schedule

Next == StartEvent \/ EndEvent \/ Move \/ Cancel \/ HandleEit

Spec == Init /\ [][Next]_vars
-----------------------------------------------------------------------------
\* The last line shows the times of the tracked event as announced now, as soon
\* as the current table has been received: no change is missed, whether the
\* event is the present or the following one (HandleEit, WriteEventInfo).
LineCurrent ==
    run = "up" /\ reported => output # << >> /\ Last(output) = moves

\* The tracker stops by itself only when the event is over or canceled, or is
\* not even the next one: gaps in the schedule and a missing following event
\* do not end it.
NotEarly ==
    run = "ended" =>
        \/ canceled
        \/ Tracked < on
        \/ Tracked = on /\ ~airing
        \/ Min(Coming) < Tracked
=============================================================================
