----------------------------- MODULE EitProgress -----------------------------
(***************************************************************************)
(* What EitCollector keeps of the EIT[schedule] sections it has seen       *)
(* (eit_collector.hh): TableProgress, TableGroupProgress, ServiceProgress  *)
(* and CollectProgress, each a record and each method an operator on it.   *)
(*                                                                         *)
(* A bitmap of a table is the set of its bits: pairs of a segment and a    *)
(* section in the segment.  A section says where it is and how far its     *)
(* table group, its table and its segment go.                              *)
(***************************************************************************)
EXTENDS Integers, FiniteSets

CONSTANTS
    NumTables,    \* TableGroupProgress::kNumTables, 8 in the program
    NumSegments,  \* TableProgress::kNumSegments, 32
    NumSections,  \* sections of a segment, 8
    Services,     \* services, as service_triple() tells them apart
    Versions      \* version numbers

ASSUME ProgressAssumption ==
    /\ NumTables \in Nat \ {0} /\ NumSegments \in Nat \ {0} /\ NumSections \in Nat \ {0}
    /\ Versions \subseteq Nat

TableIndexes == 0..(NumTables - 1)
SegmentIndexes == 0..(NumSegments - 1)
SectionIndexes == 0..(NumSections - 1)
Bits == SegmentIndexes \X SectionIndexes
Groups == {"basic", "extra"}

\* No version is stored: 0xFF.
NoVersion == -1

\* EitSection, without what only the output uses.
EitSections ==
    [service : Services, group : Groups, table_index : TableIndexes,
     last_table_index : TableIndexes, segment_index : SegmentIndexes,
     last_segment_index : SegmentIndexes, section_index : SectionIndexes,
     last_section_index : SectionIndexes, version : Versions]

-----------------------------------------------------------------------------
(* TableProgress *)

NewTable == [collected |-> {}, unused |-> {},
             versions |-> [i \in SectionIndexes |-> NoVersion], completed |-> FALSE]

ResetTable(t) == [t EXCEPT !.collected = {}, !.unused = {}, !.completed = FALSE]

UnuseTable(t) == [t EXCEPT !.unused = Bits, !.completed = TRUE]

TableCompleted(t) == t.collected \cup t.unused = Bits

\* A mutant: one section too many is given up.
UnusedBy_LastToo(eit) ==
    {b \in Bits : \/ b[1] > eit.last_segment_index
                  \/ b[1] = eit.segment_index /\ b[2] >= eit.last_section_index}

\* What a section says is not used: the segments and sections after the last.
UnusedBy(eit) ==
    {b \in Bits : \/ b[1] > eit.last_segment_index
                  \/ b[1] = eit.segment_index /\ b[2] > eit.last_section_index}

\* A mutant: a section of another version starts the table over, as the NOTE in
\* CheckConsistency says that others do.
TableConsistent_Versions(t, eit) ==
    \A i \in SectionIndexes : t.versions[i] \in {NoVersion, eit.version}

\* CheckConsistency: versions are not looked at.
TableConsistent(t, eit) == TRUE

UpdateTable(t, eit) ==
    LET kept == IF TableConsistent(t, eit) THEN t ELSE ResetTable(t)
        updated == [kept EXCEPT
            !.unused = @ \cup UnusedBy(eit),
            !.collected = @ \cup {<<eit.segment_index, eit.section_index>>},
            !.versions = [i \in SectionIndexes |->
                            IF i \in eit.section_index..eit.last_section_index
                            THEN eit.version ELSE @[i]]]
    IN  [updated EXCEPT !.completed = TableCompleted(updated)]

\* UpdateUnused: the segments before the one of the hour.
PassSegments(t, hour) ==
    LET updated == [t EXCEPT !.unused = @ \cup {b \in Bits : b[1] < hour}]
    IN  [updated EXCEPT !.completed = TableCompleted(updated)]

\* A mutant: the bit of the segment's last section is looked at.
TableCollected_LastBit(t, eit) ==
    /\ \A i \in eit.section_index..(eit.last_section_index - 1) :
          t.versions[i] = eit.version
    /\ <<eit.segment_index, eit.last_section_index>> \in t.collected

\* CheckCollected.  The last section's version is not looked at.
TableCollected(t, eit) ==
    /\ \A i \in eit.section_index..(eit.last_section_index - 1) :
          t.versions[i] = eit.version
    /\ <<eit.segment_index, eit.section_index>> \in t.collected

-----------------------------------------------------------------------------
(* TableGroupProgress; a group that has seen no section counts as complete. *)

NewGroup == [tables |-> [i \in TableIndexes |-> NewTable], last |-> -1, completed |-> FALSE]

TablesCompleted(tables) == \A i \in TableIndexes : tables[i].completed

\* The tables when the last table's index is new or has changed.
StartTables(g, eit) ==
    [i \in TableIndexes |-> IF i > eit.last_table_index
                            THEN UnuseTable(ResetTable(g.tables[i]))
                            ELSE ResetTable(g.tables[i])]

UpdateGroup(g, eit) ==
    LET tables == IF g.last = eit.last_table_index THEN g.tables ELSE StartTables(g, eit)
        updated == [tables EXCEPT ![eit.table_index] = UpdateTable(@, eit)]
    IN  [tables |-> updated, last |-> eit.last_table_index,
         completed |-> TablesCompleted(updated)]

PassGroup(g, hour) ==
    LET updated == [g.tables EXCEPT ![0] = PassSegments(@, hour)]
    IN  [g EXCEPT !.tables = updated, !.completed = TablesCompleted(updated)]

GroupCollected(g, eit) ==
    g.last = eit.last_table_index /\ TableCollected(g.tables[eit.table_index], eit)

GroupCompleted(g) == g.last < 0 \/ g.completed

-----------------------------------------------------------------------------
(* ServiceProgress and CollectProgress *)

NewService == [g \in Groups |-> NewGroup]

NewProgress == [services |-> << >>, completed |-> FALSE]

ServiceCompleted(s) == \A g \in Groups : GroupCompleted(s[g])

\* services_[...] adds the service if it is new.
Update(p, eit) ==
    LET known == DOMAIN p.services
        old == IF eit.service \in known THEN p.services[eit.service] ELSE NewService
        new == [old EXCEPT ![eit.group] = UpdateGroup(@, eit)]
        services == [s \in known \cup {eit.service} |->
                       IF s = eit.service THEN new ELSE p.services[s]]
    IN  [services |-> services,
         completed |-> \A s \in DOMAIN services : ServiceCompleted(services[s])]

\* completed_ is left as it is.
UpdateUnused(p, hour) ==
    [p EXCEPT !.services =
        [s \in DOMAIN p.services |-> [g \in Groups |-> PassGroup(p.services[s][g], hour)]]]

CheckCollected(p, eit) ==
    eit.service \in DOMAIN p.services /\ GroupCollected(p.services[eit.service][eit.group], eit)

Tables == [collected : SUBSET Bits, unused : SUBSET Bits,
           versions : [SectionIndexes -> Versions \cup {NoVersion}], completed : BOOLEAN]

TableGroups == [tables : [TableIndexes -> Tables], last : TableIndexes \cup {-1},
                completed : BOOLEAN]

=============================================================================
