--------------------------- MODULE EitpfCollector ---------------------------
(***************************************************************************)
(* EitpfCollector (eitpf_collector.hh), the sink of `collect-eitpf`: it    *)
(* prints the present and the following section of each service whenever   *)
(* their version changes and, unless it streams, stops once it has both    *)
(* sections of all services in one version.                                *)
(*                                                                         *)
(* The stream repeats the current sections; a service's schedule changes   *)
(* now and then, and its two sections with it.  The demultiplexer passes   *)
(* every section on, repeated or not; packets get lost.  Generations of a  *)
(* schedule are counted, and a section carries the count in version        *)
(* numbers that wrap around.  Section 0 is the present, 1 the following.   *)
(***************************************************************************)
EXTENDS Integers, FiniteSets, Sequences, Functions, SequencesExt

CONSTANTS
    Services,     \* the services of the stream, one for each service_triple()
    Sids,         \* option_.sids
    Streamings,   \* the values of option_.streaming
    NumVersions,  \* 32 version numbers
    MaxGen        \* bound: changes of a service's schedule

EitpfAssumption ==
    /\ IsFiniteSet(Services) /\ Sids \subseteq Services
    /\ Streamings \subseteq BOOLEAN
    /\ MaxGen \in Nat /\ NumVersions \in Nat /\ NumVersions > MaxGen

Numbers == {0, 1}

VARIABLES
    gen,        \* the generation of each service's schedule
    option,     \* the sections wanted, and whether the collector streams
    run,        \* what FeedPackets does: "up" or "ended"
    versions,   \* present_versions_ and following_versions_
    output,     \* generations printed for each service and section
    seen        \* generations received for each service and section

vars == <<gen, option, run, versions, output, seen>>

Version(g) == g % NumVersions

\* LoadOption: --present leaves out the following section, --following the
\* present one.
Options == [wanted : {{0}, {1}, {0, 1}}, streaming : Streamings]

Init ==
    /\ gen = [s \in Services |-> 0]
    /\ option \in Options
    /\ run = "up"
    /\ versions = [n \in Numbers |-> << >>]
    /\ output = [s \in Services |-> [n \in Numbers |-> << >>]]
    /\ seen = output

Update(s) ==
    /\ run = "up" /\ gen[s] < MaxGen
    /\ gen' = [gen EXCEPT ![s] = @ + 1]
    /\ UNCHANGED <<option, run, versions, output, seen>>

IsCollected(s, n) == s \in DOMAIN versions[n] /\ versions[n][s] = Version(gen[s])

\* A mutant: the versions of the two sections are not compared.
Done_AnyVersions(o, v) ==
    ~o.streaming /\ \A n \in o.wanted : Cardinality(DOMAIN v[n]) = Cardinality(Sids)

\* Sizes are compared, not services.
Done(o, v) ==
    /\ ~o.streaming
    /\ \A n \in o.wanted : Cardinality(DOMAIN v[n]) = Cardinality(Sids)
    /\ o.wanted = Numbers => \A s \in DOMAIN v[0] : s \in DOMAIN v[1] /\ v[1][s] = v[0][s]

Stored(s, n) ==
    [versions EXCEPT ![n] = [t \in DOMAIN @ \cup {s} |->
                                IF t = s THEN Version(gen[s]) ELSE @[t]]]

Included(s) == Sids = {} \/ s \in Sids

\* A packet completes section n of service s.  The version is kept even if the
\* section is not printed.
HandleSection(s, n) ==
    /\ run = "up" /\ Included(s)
    /\ IF IsCollected(s, n)
       THEN UNCHANGED <<versions, output>>
       ELSE /\ versions' = Stored(s, n)
            /\ output' = IF n \in option.wanted
                         THEN [output EXCEPT ![s][n] = Append(@, gen[s])] ELSE output
    /\ seen' = [seen EXCEPT ![s][n] = IF gen[s] \in ToSet(@) THEN @ ELSE Append(@, gen[s])]
    /\ run' = IF Done(option, versions') THEN "ended" ELSE run
    /\ UNCHANGED <<gen, option>>

\* Any other packet: of another PID or table, a broken section or section
\* number, or a service that is not in the list.
HandleOther ==
    /\ run = "up"
    /\ run' = IF Done(option, versions) THEN "ended" ELSE run
    /\ UNCHANGED <<gen, option, versions, output, seen>>

Next ==
    \/ HandleOther
    \/ \E s \in Services : Update(s) \/ \E n \in Numbers : HandleSection(s, n)

Spec == Init /\ [][Next]_vars
-----------------------------------------------------------------------------
\* The types; versions are kept of the services that may be printed only
\* (handleSection's inclusion list).
TypeOK ==
    /\ gen \in [Services -> 0..MaxGen]
    /\ option \in Options
    /\ run \in {"up", "ended"}
    /\ \A n \in Numbers :
          \E S \in SUBSET (IF Sids = {} THEN Services ELSE Sids) :
              versions[n] \in [S -> 0..(NumVersions - 1)]
    /\ {output, seen} \subseteq [Services -> [Numbers -> Seq(0..MaxGen)]]

\* Every packet Done looks at: no lookup of a present service in
\* following_versions_ throws (.at(), eitpf_collector.hh:85), although only the
\* sizes of the maps were compared before it.
NoThrow ==
    (/\ option.wanted = Numbers
     /\ \A n \in Numbers : Cardinality(DOMAIN versions[n]) = Cardinality(Sids))
        => DOMAIN versions[0] = DOMAIN versions[1]

\* What is printed of a section is what was received of it, each generation
\* once, in order: repetitions are suppressed (IsCollected), changes never are.
PrintsChanges ==
    \A s \in Services, n \in option.wanted : output[s][n] = seen[s][n]

\* When the collector stops by itself, the last lines of each requested service
\* are of one generation: no program appears in both, or in neither (Done).
ConsistentAtEnd ==
    run = "ended" => \A s \in Sids : \A m, n \in option.wanted :
        /\ output[s][m] # << >> /\ output[s][n] # << >>
        /\ Last(output[s][m]) = Last(output[s][n])
=============================================================================
