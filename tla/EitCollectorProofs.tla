------------------------- MODULE EitCollectorProofs -------------------------
(***************************************************************************)
(* Proofs about EitCollector, for every number of tables, segments and     *)
(* sections and every schedule.                                            *)
(***************************************************************************)
EXTENDS EitCollector, TLAPS

\* Sections of the same part of a service.
InPart(e, f) == e.service = f.service /\ e.group = f.group

\* The same section, in whatever version.
SameSection(e, f) ==
    /\ e.service = f.service /\ e.group = f.group /\ e.table_index = f.table_index
    /\ e.last_table_index = f.last_table_index /\ e.segment_index = f.segment_index
    /\ e.last_segment_index = f.last_segment_index /\ e.section_index = f.section_index
    /\ e.last_section_index = f.last_section_index

\* What the standard says of a schedule: the sections of a part, a table or a
\* segment agree on how far it goes, and a section has one version at a time.  The
\* sections of a table need not have the same version (the NOTE in CheckConsistency).
Agrees(e, f) ==
    /\ InPart(e, f) => e.last_table_index = f.last_table_index
    /\ InTable(e, f) => e.last_segment_index = f.last_segment_index
    /\ InTable(e, f) /\ e.segment_index = f.segment_index =>
          /\ e.last_section_index = f.last_section_index
          /\ e.section_index = f.section_index => e.version = f.version

Consistent(sections) ==
    /\ \A e \in sections : /\ e \in EitSections
                           /\ e.table_index <= e.last_table_index
                           /\ e.segment_index <= e.last_segment_index
                           /\ e.section_index <= e.last_section_index
    /\ \A e \in sections, f \in sections : Agrees(e, f)

\* Nothing is missing: each part has its tables, each table its segments and each
\* segment its sections.
Complete(sections) ==
    \A e \in sections :
        /\ \A t \in 0..e.last_table_index :
              \E f \in sections : InPart(f, e) /\ f.table_index = t
        /\ \A n \in 0..e.last_segment_index :
              \E f \in sections : InTable(f, e) /\ f.segment_index = n
        /\ \A i \in 0..e.last_section_index :
              \E f \in sections : /\ InTable(f, e) /\ f.segment_index = e.segment_index
                                  /\ f.section_index = i

\* The hypotheses of the theorems: schedules are consistent; those of a collector
\* that is to stop do not change and are complete.
ConsistentSchedules == \A b \in DOMAIN Schedules : \A s \in Schedules[b] : Consistent(s)

CompleteSchedules ==
    \A b \in DOMAIN Schedules : ~ b => /\ MaxChanges[b] = 0
                                       /\ \A s \in Schedules[b] : Complete(s)

-----------------------------------------------------------------------------
(* The invariant: what is kept of the sections is what has been written. *)

\* The bit of a section in the bitmap of its table.
Bit(e) == <<e.segment_index, e.section_index>>

\* A part of a service, new if nothing has been received of the service.
Group(p, s, g) == IF s \in DOMAIN p.services THEN p.services[s][g] ELSE NewGroup

\* The sections of a part of a service.
Of(W, s, g) == {w \in W : w.service = s /\ w.group = g}

\* The tables T have the sections W, and no others, and the versions that those in F,
\* the ones that do not look new, are compared with.
TablesTrack(T, W, F) ==
    /\ T \in [TableIndexes -> Tables]
    /\ \A w \in W : /\ Bit(w) \in T[w.table_index].collected
                    /\ UnusedBy(w) \subseteq T[w.table_index].unused
                    /\ w \in F => \A i \in w.section_index..(w.last_section_index - 1) :
                                    T[w.table_index].versions[i] = w.version
    /\ \A i \in TableIndexes :
          /\ \A b \in T[i].collected : \E w \in W : w.table_index = i /\ Bit(w) = b
          /\ T[i].completed <=> TableCompleted(T[i])

\* Nothing is unused but the tables after the last one, what the sections say and
\* today's segments before the hour h.
UnusedTrack(T, last, W, h) ==
    \A i \in TableIndexes :
        /\ i > last => T[i].unused = Bits
        /\ i <= last => \A b \in T[i].unused :
                           \/ \E w \in W : w.table_index = i /\ b \in UnusedBy(w)
                           \/ i = 0 /\ b[1] < h

\* A group tracks the sections W that have been written of it.
Tracks(G, W, F, h) ==
    /\ G \in TableGroups
    /\ G.last = -1 <=> W = {}
    /\ \A w \in W : G.last = w.last_table_index
    /\ TablesTrack(G.tables, W, F)
    /\ G.completed <=> TablesCompleted(G.tables)
    /\ G.last # -1 => UnusedTrack(G.tables, G.last, W, h)

\* What has been written is what is or was broadcast.
Broadcast ==
    /\ Consistent(schedule)
    /\ \A w \in written : \E e \in schedule : SameSection(w, e)
    /\ changes = 0 => written \subseteq schedule

\* Every group tracks what has been written of it.
Tracking ==
    \A s \in Services, g \in Groups :
        Tracks(Group(progress, s, g), Of(written, s, g), fresh, hour)

-----------------------------------------------------------------------------
(* Records. *)

LEMMA Constants ==
    /\ NumTables \in Nat \ {0} /\ NumSegments \in Nat \ {0} /\ NumSections \in Nat \ {0}
    /\ Versions \subseteq Nat /\ TimeLimit \in Nat \ {0}
    /\ MaxChanges \in [DOMAIN Schedules -> Nat] /\ DOMAIN Schedules \subseteq BOOLEAN
  BY ProgressAssumption, CollectorAssumption

LEMMA SectionFields ==
    ASSUME NEW e \in EitSections
    PROVE  /\ e.service \in Services /\ e.group \in Groups
           /\ e.table_index \in TableIndexes /\ e.last_table_index \in TableIndexes
           /\ e.segment_index \in SegmentIndexes /\ e.last_segment_index \in SegmentIndexes
           /\ e.section_index \in SectionIndexes /\ e.last_section_index \in SectionIndexes
           /\ e.version \in Versions /\ Bit(e) \in Bits
  BY DEF EitSections, Bit, Bits

LEMMA SectionEqual ==
    ASSUME NEW e \in EitSections, NEW f \in EitSections, SameSection(e, f),
           e.version = f.version
    PROVE  e = f
  BY DEF EitSections, SameSection

LEMMA SectionVersion ==
    ASSUME NEW e \in EitSections, NEW v \in Versions, NEW f, f = [e EXCEPT !.version = v]
    PROVE  f \in EitSections /\ SameSection(f, e) /\ f.version = v
  BY DEF EitSections, SameSection

LEMMA TableFields ==
    ASSUME NEW t \in Tables
    PROVE  /\ t.collected \subseteq Bits /\ t.unused \subseteq Bits /\ t.completed \in BOOLEAN
           /\ t.versions \in [SectionIndexes -> Versions \cup {NoVersion}]
  BY DEF Tables

LEMMA TableNew ==
    /\ NewTable \in Tables /\ NewTable.collected = {} /\ NewTable.unused = {}
    /\ NewTable.completed = FALSE
  BY DEF NewTable, Tables

LEMMA TableReset ==
    ASSUME NEW t \in Tables, NEW u, u = ResetTable(t)
    PROVE  u \in Tables /\ u.collected = {} /\ u.unused = {} /\ u.completed = FALSE
  BY DEF ResetTable, Tables

LEMMA TableUnused ==
    ASSUME NEW t \in Tables, NEW u, u = UnuseTable(t)
    PROVE  u \in Tables /\ u.collected = t.collected /\ u.unused = Bits /\ u.completed = TRUE
  BY DEF UnuseTable, Tables

LEMMA TableDone ==
    ASSUME NEW t \in Tables, NEW d \in BOOLEAN, NEW u, u = [t EXCEPT !.completed = d]
    PROVE  /\ u \in Tables /\ u.collected = t.collected /\ u.unused = t.unused
           /\ u.versions = t.versions /\ u.completed = d
  BY DEF Tables

LEMMA TableUpdated ==
    ASSUME NEW t \in Tables, NEW e \in EitSections, NEW u, u = UpdateTable(t, e)
    PROVE  /\ u \in Tables /\ u.collected = t.collected \cup {Bit(e)}
           /\ u.unused = t.unused \cup UnusedBy(e)
           /\ \A i \in SectionIndexes :
                 u.versions[i] = IF i \in e.section_index..e.last_section_index
                                 THEN e.version ELSE t.versions[i]
           /\ u.completed <=> TableCompleted(u)
<1> DEFINE c == t.collected \cup {<<e.segment_index, e.section_index>>}
           n == t.unused \cup UnusedBy(e)
           v == [i \in SectionIndexes |-> IF i \in e.section_index..e.last_section_index
                                          THEN e.version ELSE t.versions[i]]
           x == [t EXCEPT !.unused = n, !.collected = c, !.versions = v]
<1>1. /\ t.collected \subseteq Bits /\ t.unused \subseteq Bits /\ e.version \in Versions
      /\ t.versions \in [SectionIndexes -> Versions \cup {NoVersion}] /\ Bit(e) \in Bits
  BY TableFields, SectionFields
<1>2. c \in SUBSET Bits /\ n \in SUBSET Bits
  BY <1>1 DEF UnusedBy, Bit
<1>3. v \in [SectionIndexes -> Versions \cup {NoVersion}]
  BY <1>1
<1> HIDE DEF c, n, v
<1>4. x \in Tables /\ x.collected = c /\ x.unused = n /\ x.versions = v
  BY <1>2, <1>3 DEF Tables
<1>5. u = [x EXCEPT !.completed = TableCompleted(x)]
  BY DEF UpdateTable, TableConsistent, c, n, v
<1> HIDE DEF x
<1>6. TableCompleted(x) \in BOOLEAN
  BY DEF TableCompleted
<1>7. /\ u \in Tables /\ u.collected = c /\ u.unused = n /\ u.versions = v
      /\ u.completed = TableCompleted(x)
  BY <1>4, <1>5, <1>6, TableDone
<1>8. TableCompleted(u) <=> TableCompleted(x)
  BY <1>4, <1>7 DEF TableCompleted
<1>9. u.completed <=> TableCompleted(u)
  BY <1>6, <1>7, <1>8
<1>10. \A i \in SectionIndexes :
          u.versions[i] = IF i \in e.section_index..e.last_section_index
                          THEN e.version ELSE t.versions[i]
  BY <1>7 DEF v
<1> QED
  BY <1>7, <1>9, <1>10 DEF c, n, Bit

LEMMA TablePassed ==
    ASSUME NEW t \in Tables, NEW h \in Int, NEW u, u = PassSegments(t, h)
    PROVE  /\ u \in Tables /\ u.collected = t.collected
           /\ u.unused = t.unused \cup {b \in Bits : b[1] < h}
           /\ u.versions = t.versions
           /\ u.completed <=> TableCompleted(u)
<1> DEFINE n == t.unused \cup {b \in Bits : b[1] < h}
           x == [t EXCEPT !.unused = n]
<1>1. n \in SUBSET Bits
  BY TableFields
<1> HIDE DEF n
<1>2. /\ x \in Tables /\ x.collected = t.collected /\ x.unused = n
      /\ x.versions = t.versions
  BY <1>1 DEF Tables
<1>3. u = [x EXCEPT !.completed = TableCompleted(x)]
  BY DEF PassSegments, n
<1> HIDE DEF x
<1>4. TableCompleted(x) \in BOOLEAN
  BY DEF TableCompleted
<1>5. /\ u \in Tables /\ u.collected = x.collected /\ u.unused = x.unused
      /\ u.versions = x.versions /\ u.completed = TableCompleted(x)
  BY <1>2, <1>3, <1>4, TableDone
<1>6. TableCompleted(u) <=> TableCompleted(x)
  BY <1>5 DEF TableCompleted
<1> QED
  BY <1>2, <1>4, <1>5, <1>6 DEF n

-----------------------------------------------------------------------------
(* Groups. *)

LEMMA Indexes ==
    /\ TableIndexes \subseteq Nat /\ 0 \in TableIndexes /\ -1 \notin TableIndexes
    /\ SegmentIndexes \subseteq Nat /\ 0 \in SegmentIndexes
    /\ SectionIndexes \subseteq Nat /\ 0 \in SectionIndexes
    /\ Bits # {} /\ \A b \in Bits : b[1] \in SegmentIndexes /\ b[2] \in SectionIndexes
<1>1. /\ TableIndexes \subseteq Nat /\ 0 \in TableIndexes /\ -1 \notin TableIndexes
      /\ SegmentIndexes \subseteq Nat /\ 0 \in SegmentIndexes
      /\ SectionIndexes \subseteq Nat /\ 0 \in SectionIndexes
  BY Constants DEF TableIndexes, SegmentIndexes, SectionIndexes
<1>2. <<0, 0>> \in Bits
  BY <1>1 DEF Bits
<1> QED
  BY <1>1, <1>2 DEF Bits

LEMMA GroupFields ==
    ASSUME NEW G \in TableGroups
    PROVE  /\ G.tables \in [TableIndexes -> Tables] /\ G.last \in TableIndexes \cup {-1}
           /\ G.completed \in BOOLEAN
  BY DEF TableGroups

LEMMA GroupMade ==
    ASSUME NEW T \in [TableIndexes -> Tables], NEW n \in TableIndexes \cup {-1},
           NEW d \in BOOLEAN, NEW G, G = [tables |-> T, last |-> n, completed |-> d]
    PROVE  G \in TableGroups /\ G.tables = T /\ G.last = n /\ G.completed = d
  BY DEF TableGroups

\* A group that has seen nothing.
LEMMA NewTracks ==
    ASSUME NEW F, NEW h
    PROVE  Tracks(NewGroup, {}, F, h)
<1> DEFINE T == [i \in TableIndexes |-> NewTable]
<1>1. T \in [TableIndexes -> Tables]
  BY TableNew
<1>2. NewGroup \in TableGroups /\ NewGroup.tables = T /\ NewGroup.last = -1
      /\ NewGroup.completed = FALSE
  BY <1>1 DEF NewGroup, TableGroups
<1>3. ASSUME NEW i \in TableIndexes
      PROVE  T[i].collected = {} /\ T[i].unused = {} /\ T[i].completed = FALSE
  BY TableNew
<1> HIDE DEF T
<1>4. ASSUME NEW i \in TableIndexes PROVE ~ TableCompleted(T[i])
  BY <1>3, Indexes DEF TableCompleted
<1>5. TablesTrack(T, {}, F)
  BY <1>1, <1>3, <1>4 DEF TablesTrack
<1>6. ~ TablesCompleted(T)
  BY <1>3, Indexes DEF TablesCompleted
<1> QED
  BY <1>2, <1>5, <1>6 DEF Tracks

\* The tables that a section is entered in.
LEMMA TablesToUpdate ==
    ASSUME NEW G, NEW W, NEW F, NEW h \in Int, Tracks(G, W, F, h), NEW e \in EitSections,
           \A w \in W : w.last_table_index = e.last_table_index,
           NEW T, T = IF G.last = e.last_table_index THEN G.tables ELSE StartTables(G, e)
    PROVE  TablesTrack(T, W, F) /\ UnusedTrack(T, e.last_table_index, W, h)
<1>1. e.last_table_index \in TableIndexes /\ e.last_table_index # -1
  BY SectionFields, Indexes
<1>2. CASE G.last = e.last_table_index
  BY <1>1, <1>2 DEF Tracks
<1>3. CASE G.last # e.last_table_index
  <2>1. W = {}
    BY <1>3 DEF Tracks
  <2>2. G.tables \in [TableIndexes -> Tables]
    BY GroupFields DEF Tracks
  <2>3. T = [i \in TableIndexes |-> IF i > e.last_table_index
                                   THEN UnuseTable(ResetTable(G.tables[i]))
                                   ELSE ResetTable(G.tables[i])]
    BY <1>3 DEF StartTables
  <2>4. ASSUME NEW i \in TableIndexes
        PROVE  /\ T[i] \in Tables /\ T[i].collected = {}
               /\ i > e.last_table_index => T[i].unused = Bits /\ T[i].completed = TRUE
               /\ ~ (i > e.last_table_index) => T[i].unused = {} /\ T[i].completed = FALSE
    <3> DEFINE u == ResetTable(G.tables[i])
               v == UnuseTable(u)
    <3>1. u \in Tables /\ u.collected = {} /\ u.unused = {} /\ u.completed = FALSE
      BY <2>2, TableReset
    <3> HIDE DEF u
    <3>2. v \in Tables /\ v.collected = u.collected /\ v.unused = Bits /\ v.completed = TRUE
      BY <3>1, TableUnused
    <3>3. T[i] = IF i > e.last_table_index THEN v ELSE u
      BY <2>3 DEF u
    <3> HIDE DEF v
    <3> QED
      BY <3>1, <3>2, <3>3
  <2>5. T \in [TableIndexes -> Tables]
    BY <2>3, <2>4
  <2>6. ASSUME NEW i \in TableIndexes PROVE T[i].completed <=> TableCompleted(T[i])
    BY <2>4, Indexes DEF TableCompleted
  <2>7. TablesTrack(T, W, F)
    BY <2>1, <2>4, <2>5, <2>6 DEF TablesTrack
  <2>8. UnusedTrack(T, e.last_table_index, W, h)
    <3>1. \A i \in TableIndexes : i <= e.last_table_index => ~ (i > e.last_table_index)
      BY <1>1, Constants DEF TableIndexes
    <3>2. ASSUME NEW i \in TableIndexes, i <= e.last_table_index, NEW b \in T[i].unused
          PROVE  FALSE
      BY <2>4, <3>1, <3>2
    <3>3. \A i \in TableIndexes : i > e.last_table_index => T[i].unused = Bits
      BY <2>4
    <3> QED
      BY <3>2, <3>3, Zenon DEF UnusedTrack
  <2> QED
    BY <2>7, <2>8
<1> QED
  BY <1>2, <1>3

\* Entering e leaves the versions that w is compared with as they are.
Spared(e, w) ==
    w.table_index = e.table_index =>
        \/ w.version = e.version
        \/ \A i \in w.section_index..(w.last_section_index - 1) :
              i \notin e.section_index..e.last_section_index

\* A section is entered in its group.
LEMMA UpdateTracks ==
    ASSUME NEW G, NEW W, NEW F, NEW h \in Int, Tracks(G, W, F, h),
           NEW e \in EitSections, e.table_index <= e.last_table_index,
           \A w \in W : w \in EitSections /\ w.last_table_index = e.last_table_index,
           NEW R, \A w \in W : w \in R /\ w # e => w \in F /\ Spared(e, w)
    PROVE  Tracks(UpdateGroup(G, e), W \cup {e}, R, h)
<1> DEFINE T == IF G.last = e.last_table_index THEN G.tables ELSE StartTables(G, e)
           k == e.table_index
           u == UpdateTable(T[k], e)
           U == [T EXCEPT ![k] = u]
           H == UpdateGroup(G, e)
           V == W \cup {e}
<1>1. TablesTrack(T, W, F) /\ UnusedTrack(T, e.last_table_index, W, h)
  BY TablesToUpdate
<1>2. H = [tables |-> U, last |-> e.last_table_index, completed |-> TablesCompleted(U)]
  BY DEF UpdateGroup
<1> HIDE DEF T, H
<1>3. /\ k \in TableIndexes /\ e.last_table_index \in TableIndexes
      /\ e.last_table_index # -1
      /\ e.section_index \in SectionIndexes /\ e.last_section_index \in SectionIndexes
  BY SectionFields, Indexes
<1>4. T \in [TableIndexes -> Tables] /\ T[k] \in Tables
  BY <1>1, <1>3 DEF TablesTrack
<1>5. /\ u \in Tables /\ u.collected = T[k].collected \cup {Bit(e)}
      /\ u.unused = T[k].unused \cup UnusedBy(e)
      /\ \A i \in SectionIndexes :
            u.versions[i] = IF i \in e.section_index..e.last_section_index
                            THEN e.version ELSE T[k].versions[i]
      /\ u.completed <=> TableCompleted(u)
  BY <1>4, TableUpdated
<1> HIDE DEF u, k
<1>6. /\ U \in [TableIndexes -> Tables] /\ U[k] = u
      /\ \A i \in TableIndexes : i # k => U[i] = T[i]
  BY <1>3, <1>4, <1>5
<1>7. TablesCompleted(U) \in BOOLEAN
  BY DEF TablesCompleted
<1> HIDE DEF U
<1>8. /\ H \in TableGroups /\ H.tables = U /\ H.last = e.last_table_index
      /\ H.completed = TablesCompleted(U)
  BY <1>2, <1>3, <1>6, <1>7, GroupMade
<1>9. ASSUME NEW w \in V
      PROVE  /\ Bit(w) \in U[w.table_index].collected
             /\ UnusedBy(w) \subseteq U[w.table_index].unused
             /\ w \in R => \A i \in w.section_index..(w.last_section_index - 1) :
                             U[w.table_index].versions[i] = w.version
  <2>1. CASE w = e
    <3>1. U[w.table_index] = u
      BY <1>6, <2>1 DEF k
    <3>2. \A i \in e.section_index..(e.last_section_index - 1) :
             i \in SectionIndexes /\ i \in e.section_index..e.last_section_index
      BY <1>3, Constants DEF SectionIndexes
    <3> QED
      BY <1>5, <2>1, <3>1, <3>2
  <2>2. CASE w \in W /\ w.table_index # k
    <3>1. w.table_index \in TableIndexes
      BY <2>2, SectionFields
    <3>2. U[w.table_index] = T[w.table_index]
      BY <1>6, <2>2, <3>1
    <3>3. w \in R => w \in F
      BY <2>2 DEF k
    <3> QED
      BY <1>1, <2>2, <3>2, <3>3 DEF TablesTrack
  <2>3. CASE w \in W /\ w.table_index = k /\ w # e
    <3>1. U[w.table_index] = u
      BY <1>6, <2>3
    <3>2. /\ Bit(w) \in T[k].collected /\ UnusedBy(w) \subseteq T[k].unused
          /\ w \in F => \A i \in w.section_index..(w.last_section_index - 1) :
                          T[k].versions[i] = w.version
      BY <1>1, <2>3 DEF TablesTrack
    <3>3. w.section_index \in SectionIndexes /\ w.last_section_index \in SectionIndexes
      BY <2>3, SectionFields
    <3>4. \A i \in w.section_index..(w.last_section_index - 1) : i \in SectionIndexes
      BY <3>3, Constants DEF SectionIndexes
    <3>5. ASSUME w \in R, NEW i \in w.section_index..(w.last_section_index - 1)
          PROVE  u.versions[i] = w.version
      <4>1. w \in F /\ Spared(e, w)
        BY <2>3, <3>5
      <4>2. T[k].versions[i] = w.version /\ i \in SectionIndexes
        BY <3>2, <3>4, <4>1
      <4>3. i \in e.section_index..e.last_section_index => w.version = e.version
        BY <2>3, <4>1 DEF Spared, k
      <4> QED
        BY <1>5, <4>2, <4>3
    <3> QED
      BY <1>5, <3>1, <3>2, <3>5
  <2> QED
    BY <2>1, <2>2, <2>3 DEF k
<1>10. ASSUME NEW i \in TableIndexes
       PROVE  /\ \A b \in U[i].collected : \E w \in V : w.table_index = i /\ Bit(w) = b
              /\ U[i].completed <=> TableCompleted(U[i])
  <2>1. /\ \A b \in T[i].collected : \E w \in W : w.table_index = i /\ Bit(w) = b
        /\ T[i].completed <=> TableCompleted(T[i])
    BY <1>1 DEF TablesTrack
  <2>2. CASE i = k
    <3>1. e \in V /\ e.table_index = k
      BY DEF k
    <3> QED
      BY <1>5, <1>6, <2>1, <2>2, <3>1
  <2>3. CASE i # k
    BY <1>6, <2>1, <2>3
  <2> QED
    BY <2>2, <2>3
<1>11. TablesTrack(U, V, R)
  <2> HIDE DEF V
  <2> QED
    BY <1>6, <1>9, <1>10 DEF TablesTrack
<1>12. UnusedTrack(U, e.last_table_index, V, h)
  <2> SUFFICES ASSUME NEW i \in TableIndexes
               PROVE  /\ i > e.last_table_index => U[i].unused = Bits
                      /\ i <= e.last_table_index =>
                            \A b \in U[i].unused :
                                \/ \E w \in V : w.table_index = i /\ b \in UnusedBy(w)
                                \/ i = 0 /\ b[1] < h
    BY DEF UnusedTrack
  <2>1. /\ i > e.last_table_index => T[i].unused = Bits
        /\ i <= e.last_table_index =>
              \A b \in T[i].unused :
                  \/ \E w \in W : w.table_index = i /\ b \in UnusedBy(w)
                  \/ i = 0 /\ b[1] < h
    BY <1>1 DEF UnusedTrack
  <2>2. CASE i # k
    BY <1>6, <2>1, <2>2
  <2>3. CASE i = k
    <3>1. ~ (i > e.last_table_index)
      BY <1>3, <2>3, Indexes DEF k
    <3>2. e \in V /\ e.table_index = k
      BY DEF k
    <3> QED
      BY <1>5, <1>6, <2>1, <2>3, <3>1, <3>2
  <2> QED
    BY <2>2, <2>3
<1>13. \A w \in V : H.last = w.last_table_index
  BY <1>8
<1>14. V # {}
  OBVIOUS
<1>15. H.completed <=> TablesCompleted(H.tables)
  BY <1>7, <1>8
<1> HIDE DEF V
<1>16. Tracks(H, V, R, h)
  BY <1>3, <1>8, <1>11, <1>12, <1>13, <1>14, <1>15 DEF Tracks
<1> QED
  BY <1>16 DEF H, V

\* The hour passes.
LEMMA PassTracks ==
    ASSUME NEW G, NEW W, NEW F, NEW h \in Int, NEW n \in Int, h <= n, Tracks(G, W, F, h)
    PROVE  Tracks(PassGroup(G, n), W, F, n)
<1> DEFINE T == G.tables
           u == PassSegments(T[0], n)
           U == [T EXCEPT ![0] = u]
           H == PassGroup(G, n)
<1>1. G \in TableGroups /\ TablesTrack(T, W, F)
  BY DEF Tracks
<1>2. /\ T \in [TableIndexes -> Tables] /\ G.last \in TableIndexes \cup {-1}
      /\ 0 \in TableIndexes /\ T[0] \in Tables
  BY <1>1, GroupFields, Indexes
<1>3. /\ u \in Tables /\ u.collected = T[0].collected
      /\ u.unused = T[0].unused \cup {b \in Bits : b[1] < n}
      /\ u.versions = T[0].versions
      /\ u.completed <=> TableCompleted(u)
  BY <1>2, TablePassed
<1>4. H = [G EXCEPT !.tables = U, !.completed = TablesCompleted(U)]
  BY DEF PassGroup
<1> HIDE DEF u, T, H
<1>5. /\ U \in [TableIndexes -> Tables] /\ U[0] = u
      /\ \A i \in TableIndexes : i # 0 => U[i] = T[i]
  BY <1>2, <1>3
<1>6. TablesCompleted(U) \in BOOLEAN
  BY DEF TablesCompleted
<1> HIDE DEF U
<1>7. /\ H \in TableGroups /\ H.tables = U /\ H.last = G.last
      /\ H.completed = TablesCompleted(U)
  BY <1>1, <1>4, <1>5, <1>6 DEF TableGroups
<1>8. ASSUME NEW i \in TableIndexes
      PROVE  /\ U[i].collected = T[i].collected /\ U[i].versions = T[i].versions
             /\ T[i].unused \subseteq U[i].unused
             /\ U[i].completed <=> TableCompleted(U[i])
  <2>1. T[i].completed <=> TableCompleted(T[i])
    BY <1>1 DEF TablesTrack
  <2> QED
    BY <1>3, <1>5, <2>1
<1>9. ASSUME NEW w \in W
      PROVE  /\ Bit(w) \in U[w.table_index].collected
             /\ UnusedBy(w) \subseteq U[w.table_index].unused
             /\ w \in F => \A i \in w.section_index..(w.last_section_index - 1) :
                             U[w.table_index].versions[i] = w.version
  <2>1. /\ Bit(w) \in T[w.table_index].collected
        /\ UnusedBy(w) \subseteq T[w.table_index].unused
        /\ w \in F => \A i \in w.section_index..(w.last_section_index - 1) :
                        T[w.table_index].versions[i] = w.version
    BY <1>1 DEF TablesTrack
  <2>2. CASE w.table_index = 0
    BY <1>3, <1>5, <2>1, <2>2
  <2>3. CASE w.table_index # 0
    <3>1. U[w.table_index] = T[w.table_index]
      BY <1>5, <2>3, <1>2 DEF U
    <3> QED
      BY <2>1, <3>1
  <2> QED
    BY <2>2, <2>3
<1>10. ASSUME NEW i \in TableIndexes
       PROVE  \A b \in U[i].collected : \E w \in W : w.table_index = i /\ Bit(w) = b
  <2>1. \A b \in T[i].collected : \E w \in W : w.table_index = i /\ Bit(w) = b
    BY <1>1 DEF TablesTrack
  <2> QED
    BY <1>8, <2>1
<1>11. TablesTrack(U, W, F)
  BY <1>5, <1>8, <1>9, <1>10 DEF TablesTrack
<1>12. ASSUME G.last # -1 PROVE UnusedTrack(U, G.last, W, n)
  <2> SUFFICES ASSUME NEW i \in TableIndexes
               PROVE  /\ i > G.last => U[i].unused = Bits
                      /\ i <= G.last =>
                            \A b \in U[i].unused :
                                \/ \E w \in W : w.table_index = i /\ b \in UnusedBy(w)
                                \/ i = 0 /\ b[1] < n
    BY DEF UnusedTrack
  <2>1. /\ i > G.last => T[i].unused = Bits
        /\ i <= G.last =>
              \A b \in T[i].unused :
                  \/ \E w \in W : w.table_index = i /\ b \in UnusedBy(w)
                  \/ i = 0 /\ b[1] < h
    BY <1>12 DEF Tracks, UnusedTrack, T
  <2>2. T[i].unused \subseteq Bits
    BY <1>2, TableFields
  <2>3. \A b \in Bits : b[1] < h => b[1] < n
    <3>1. \A b \in Bits : b[1] \in Int
      BY Constants DEF Bits, SegmentIndexes
    <3> QED
      BY <3>1
  <2>4. CASE i # 0
    BY <1>5, <2>1, <2>4
  <2>5. CASE i = 0
    <3>1. ~ (i > G.last)
      BY <1>2, <1>12, <2>5, Constants DEF TableIndexes
    <3>2. ASSUME i <= G.last, NEW b \in U[i].unused
          PROVE  \/ \E w \in W : w.table_index = i /\ b \in UnusedBy(w)
                 \/ i = 0 /\ b[1] < n
      <4>1. b \in T[0].unused \/ b[1] < n
        BY <1>3, <1>5, <2>5, <3>2
      <4> QED
        BY <2>1, <2>2, <2>3, <2>5, <3>2, <4>1
    <3> QED
      BY <3>1, <3>2
  <2> QED
    BY <2>4, <2>5
<1>13. H.completed <=> TablesCompleted(H.tables)
  BY <1>6, <1>7
<1>14. Tracks(H, W, F, n)
  BY <1>7, <1>11, <1>12, <1>13 DEF Tracks
<1> QED
  BY <1>14 DEF H

\* Fewer sections of the group are fresh.
LEMMA FewerTracks ==
    ASSUME NEW G, NEW W, NEW F, NEW R, NEW h, Tracks(G, W, F, h), W \cap R \subseteq F
    PROVE  Tracks(G, W, R, h)
<1>1. TablesTrack(G.tables, W, R)
  BY DEF Tracks, TablesTrack
<1> QED
  BY <1>1 DEF Tracks

-----------------------------------------------------------------------------
(* Services. *)

ProgressType(p) ==
    /\ p = [services |-> p.services, completed |-> p.completed]
    /\ DOMAIN p.services \subseteq Services
    /\ \A s \in DOMAIN p.services : p.services[s] \in [Groups -> TableGroups]
    /\ p.completed \in BOOLEAN

LEMMA UpdateGroups ==
    ASSUME NEW p, ProgressType(p), NEW e \in EitSections,
           UpdateGroup(Group(p, e.service, e.group), e) \in TableGroups,
           NEW q, q = Update(p, e)
    PROVE  /\ ProgressType(q)
           /\ DOMAIN q.services = DOMAIN p.services \cup {e.service}
           /\ \A s \in Services, g \in Groups :
                 Group(q, s, g) = IF s = e.service /\ g = e.group
                                  THEN UpdateGroup(Group(p, s, g), e) ELSE Group(p, s, g)
           /\ q.completed <=> \A s \in DOMAIN q.services : ServiceCompleted(q.services[s])
<1> DEFINE known == DOMAIN p.services
           old == IF e.service \in known THEN p.services[e.service] ELSE NewService
           new == [old EXCEPT ![e.group] = UpdateGroup(old[e.group], e)]
           services == [s \in known \cup {e.service} |->
                          IF s = e.service THEN new ELSE p.services[s]]
           done == \A s \in DOMAIN services : ServiceCompleted(services[s])
<1>1. q = [services |-> services, completed |-> done]
  BY DEF Update
<1>2. e.service \in Services /\ e.group \in Groups
  BY SectionFields
<1>3. NewService \in [Groups -> TableGroups] /\ \A g \in Groups : NewService[g] = NewGroup
  <2>1. NewGroup \in TableGroups
    BY NewTracks DEF Tracks
  <2> QED
    BY <2>1 DEF NewService
<1>4. old \in [Groups -> TableGroups] /\ \A g \in Groups : old[g] = Group(p, e.service, g)
  BY <1>2, <1>3 DEF ProgressType, Group
<1>5. done \in BOOLEAN
  OBVIOUS
<1> HIDE DEF old, done
<1>6. /\ new \in [Groups -> TableGroups]
      /\ \A g \in Groups : new[g] = IF g = e.group THEN UpdateGroup(old[g], e) ELSE old[g]
  BY <1>2, <1>4
<1> HIDE DEF new
<1>7. /\ DOMAIN services = known \cup {e.service} /\ services[e.service] = new
      /\ \A s \in known : s # e.service => services[s] = p.services[s]
  OBVIOUS
<1> HIDE DEF services
<1>8. q.services = services /\ q.completed = done
  BY <1>1
<1>9. ProgressType(q)
  <2>1. q = [services |-> q.services, completed |-> q.completed]
    BY <1>1, <1>8
  <2>2. \A s \in DOMAIN services : services[s] \in [Groups -> TableGroups]
    BY <1>6, <1>7 DEF ProgressType
  <2>3. DOMAIN services \subseteq Services
    BY <1>2, <1>7 DEF ProgressType
  <2> QED
    BY <1>5, <1>8, <2>1, <2>2, <2>3 DEF ProgressType
<1>10. ASSUME NEW s \in Services, NEW g \in Groups
       PROVE  Group(q, s, g) = IF s = e.service /\ g = e.group
                               THEN UpdateGroup(Group(p, s, g), e) ELSE Group(p, s, g)
  <2>1. CASE s = e.service
    <3>1. Group(q, s, g) = new[g]
      BY <1>7, <1>8, <2>1 DEF Group
    <3>2. old[g] = Group(p, s, g)
      BY <1>4, <2>1
    <3> QED
      BY <1>6, <2>1, <3>1, <3>2
  <2>2. CASE s # e.service
    BY <1>7, <1>8, <2>2 DEF Group
  <2> QED
    BY <2>1, <2>2
<1>11. q.completed <=> \A s \in DOMAIN q.services : ServiceCompleted(q.services[s])
  BY <1>5, <1>8 DEF done
<1> QED
  BY <1>7, <1>8, <1>9, <1>10, <1>11

LEMMA PassGroups ==
    ASSUME NEW p, ProgressType(p), NEW n,
           \A s \in DOMAIN p.services, g \in Groups : PassGroup(p.services[s][g], n) \in TableGroups,
           NEW q, q = UpdateUnused(p, n)
    PROVE  /\ ProgressType(q) /\ DOMAIN q.services = DOMAIN p.services
           /\ q.completed = p.completed
           /\ \A s \in DOMAIN p.services, g \in Groups :
                 q.services[s][g] = PassGroup(p.services[s][g], n)
<1> DEFINE services == [s \in DOMAIN p.services |->
                          [g \in Groups |-> PassGroup(p.services[s][g], n)]]
<1>1. q = [p EXCEPT !.services = services]
  BY DEF UpdateUnused
<1>2. /\ DOMAIN services = DOMAIN p.services
      /\ \A s \in DOMAIN p.services : services[s] \in [Groups -> TableGroups]
      /\ \A s \in DOMAIN p.services, g \in Groups :
            services[s][g] = PassGroup(p.services[s][g], n)
  OBVIOUS
<1> HIDE DEF services
<1>3. q = [services |-> services, completed |-> p.completed]
  BY <1>1 DEF ProgressType
<1>4. q.services = services /\ q.completed = p.completed
  BY <1>3
<1> QED
  BY <1>2, <1>3, <1>4 DEF ProgressType

\* All services are complete: every section of a part that has been seen is written
\* or over.
LEMMA AllCompleted ==
    ASSUME NEW p, ProgressType(p), NEW S, Consistent(S), NEW W, W \subseteq S, NEW F, NEW h,
           \A s \in Services, g \in Groups : Tracks(Group(p, s, g), Of(W, s, g), F, h),
           \A s \in DOMAIN p.services : ServiceCompleted(p.services[s]),
           NEW e \in S, NEW x \in W, InPart(x, e)
    PROVE  e \in W \/ (e.table_index = 0 /\ e.segment_index < h)
<1> DEFINE G == Group(p, e.service, e.group)
           V == Of(W, e.service, e.group)
           i == e.table_index
<1>1. /\ e \in EitSections /\ i <= e.last_table_index
      /\ e.segment_index <= e.last_segment_index /\ e.section_index <= e.last_section_index
  BY DEF Consistent
<1>2. /\ e.service \in Services /\ e.group \in Groups /\ i \in TableIndexes
      /\ e.last_table_index \in TableIndexes /\ Bit(e) \in Bits
      /\ e.segment_index \in Nat /\ e.last_segment_index \in Nat
      /\ e.section_index \in Nat /\ e.last_section_index \in Nat
  BY <1>1, SectionFields, Indexes
<1>3. Tracks(G, V, F, h)
  BY <1>2
<1>4. x \in V /\ x \in S
  BY DEF InPart, Of
<1>5. G.last = e.last_table_index /\ G.last # -1
  <2>1. x.last_table_index = e.last_table_index
    BY <1>4 DEF Consistent, Agrees
  <2> QED
    BY <1>2, <1>3, <1>4, <2>1, Indexes DEF Tracks
<1>6. e.service \in DOMAIN p.services /\ G = p.services[e.service][e.group]
  <2>1. NewGroup.last = -1
    BY DEF NewGroup
  <2> QED
    BY <1>5, <2>1 DEF Group
<1>7. G.completed
  <2>1. GroupCompleted(G)
    BY <1>2, <1>6 DEF ServiceCompleted
  <2>2. ~ (G.last < 0)
    BY <1>2, <1>5, Constants DEF TableIndexes
  <2> QED
    BY <2>1, <2>2 DEF GroupCompleted
<1>8. G.tables[i].collected \cup G.tables[i].unused = Bits
  BY <1>2, <1>3, <1>7 DEF Tracks, TablesTrack, TablesCompleted, TableCompleted
<1> HIDE DEF G, V
<1>9. CASE Bit(e) \in G.tables[i].collected
  <2>1. PICK w \in V : w.table_index = i /\ Bit(w) = Bit(e)
    BY <1>2, <1>3, <1>9 DEF Tracks, TablesTrack
  <2>2. w \in W /\ w \in S /\ w.service = e.service /\ w.group = e.group
    BY DEF V, Of
  <2>3. w.segment_index = e.segment_index /\ w.section_index = e.section_index
    BY <2>1 DEF Bit
  <2>4. SameSection(w, e) /\ w.version = e.version
    BY <2>1, <2>2, <2>3 DEF Consistent, Agrees, InPart, InTable, SameSection
  <2>5. w = e
    BY <1>1, <2>2, <2>4, SectionEqual DEF Consistent
  <2> QED
    BY <2>2, <2>5
<1>10. CASE Bit(e) \in G.tables[i].unused
  <2>1. \/ \E w \in V : w.table_index = i /\ Bit(e) \in UnusedBy(w)
        \/ i = 0 /\ Bit(e)[1] < h
    BY <1>1, <1>2, <1>3, <1>5, <1>10 DEF Tracks, UnusedTrack
  <2>2. ASSUME NEW w \in V, w.table_index = i, Bit(e) \in UnusedBy(w) PROVE FALSE
    <3>1. w \in S /\ w.service = e.service /\ w.group = e.group
      BY DEF V, Of
    <3>2. /\ w.last_segment_index = e.last_segment_index
          /\ w.segment_index = e.segment_index => w.last_section_index = e.last_section_index
      BY <2>2, <3>1 DEF Consistent, Agrees, InTable
    <3>3. \/ e.segment_index > w.last_segment_index
          \/ e.segment_index = w.segment_index /\ e.section_index > w.last_section_index
      BY <2>2 DEF UnusedBy, Bit
    <3> QED
      BY <1>1, <1>2, <3>2, <3>3
  <2>3. Bit(e)[1] = e.segment_index
    BY DEF Bit
  <2> QED
    BY <2>1, <2>2, <2>3
<1> QED
  BY <1>2, <1>8, <1>9, <1>10

\* A service is not complete: a section of a part that has been seen is missing.
LEMMA OneMissing ==
    ASSUME NEW p, ProgressType(p), NEW S, Consistent(S), Complete(S),
           NEW W, W \subseteq S, NEW F, NEW h,
           \A s \in Services, g \in Groups : Tracks(Group(p, s, g), Of(W, s, g), F, h),
           NEW s \in DOMAIN p.services, ~ ServiceCompleted(p.services[s])
    PROVE  \E e \in S, x \in W : InPart(x, e) /\ e \notin W
<1>1. PICK g \in Groups : ~ GroupCompleted(p.services[s][g])
  BY DEF ServiceCompleted
<1> DEFINE G == Group(p, s, g)
           V == Of(W, s, g)
<1>2. s \in Services /\ G = p.services[s][g]
  BY DEF ProgressType, Group
<1>3. Tracks(G, V, F, h)
  BY <1>2
<1> HIDE DEF G
<1>4. G.last # -1 /\ ~ G.completed
  BY <1>1, <1>2 DEF GroupCompleted
<1>5. /\ G \in TableGroups /\ G.tables \in [TableIndexes -> Tables]
      /\ G.last \in TableIndexes
  BY <1>3, <1>4, GroupFields DEF Tracks
<1>6. PICK i \in TableIndexes : G.tables[i].collected \cup G.tables[i].unused # Bits
  BY <1>3, <1>4 DEF Tracks, TablesTrack, TablesCompleted, TableCompleted
<1> DEFINE t == G.tables[i]
<1>7. t.collected \subseteq Bits /\ t.unused \subseteq Bits
  BY <1>5, TableFields
<1> HIDE DEF t
<1>8. PICK b \in Bits : b \notin t.collected /\ b \notin t.unused
  BY <1>6, <1>7 DEF t
<1>9. i <= G.last
  <2>1. ~ (i > G.last)
    BY <1>3, <1>4, <1>8 DEF Tracks, UnusedTrack, t
  <2> QED
    BY <1>5, <2>1, Constants DEF TableIndexes
<1>10. PICK x \in V : x \in W /\ x \in S /\ x.service = s /\ x.group = g
                      /\ x.last_table_index = G.last
  BY <1>3, <1>4 DEF Tracks, Of
<1> HIDE DEF V
\* Of what has been written, the bits are collected or unused.
<1>11. ASSUME NEW e \in W, e.service = s, e.group = g, e.table_index = i
       PROVE  Bit(e) \in t.collected /\ UnusedBy(e) \subseteq t.unused
  <2>1. e \in V
    BY <1>11 DEF V, Of
  <2> QED
    BY <1>3, <1>11, <2>1 DEF Tracks, TablesTrack, t
<1>12. PICK f \in S : f.service = s /\ f.group = g /\ f.table_index = i
  <2>1. i \in 0..x.last_table_index
    BY <1>5, <1>9, <1>10, Constants DEF TableIndexes
  <2> QED
    BY <1>10, <2>1 DEF Complete, InPart
\* A section of the part will do.
<1>13. ASSUME NEW e \in S, e.service = s, e.group = g, e \notin W
       PROVE  \E a \in S, y \in W : InPart(y, a) /\ a \notin W
  BY <1>10, <1>13 DEF InPart
<1>14. CASE f \notin W
  BY <1>12, <1>13, <1>14
<1>15. CASE f \in W
  <2>1. /\ b[1] \in Nat /\ b[2] \in Nat
        /\ f.last_segment_index \in Nat
    <3>1. f \in EitSections
      BY <1>12 DEF Consistent
    <3> QED
      BY <3>1, SectionFields, Indexes
  <2>2. ~ (b[1] > f.last_segment_index)
    BY <1>8, <1>11, <1>12, <1>15 DEF UnusedBy
  <2>3. PICK j \in S : /\ j.service = s /\ j.group = g /\ j.table_index = i
                       /\ j.segment_index = b[1]
    <3>1. b[1] \in 0..f.last_segment_index
      BY <2>1, <2>2
    <3> QED
      BY <1>12, <3>1 DEF Complete, InTable
  <2>4. CASE j \notin W
    BY <1>13, <2>3, <2>4
  <2>5. CASE j \in W
    <3>1. j.last_section_index \in Nat
      <4>1. j \in EitSections
        BY <2>3 DEF Consistent
      <4> QED
        BY <4>1, SectionFields, Indexes
    <3>2. ~ (b[2] > j.last_section_index)
      BY <1>8, <1>11, <2>3, <2>5 DEF UnusedBy
    <3>3. PICK k \in S : /\ k.service = s /\ k.group = g /\ k.table_index = i
                         /\ k.segment_index = b[1] /\ k.section_index = b[2]
      <4>1. b[2] \in 0..j.last_section_index
        BY <2>1, <3>1, <3>2
      <4> QED
        BY <2>3, <4>1 DEF Complete, InTable
    <3>4. Bit(k) = b
      BY <3>3 DEF Bit, Bits
    <3>5. k \notin W
      BY <1>8, <1>11, <3>3, <3>4
    <3> QED
      BY <1>13, <3>3, <3>5
  <2> QED
    BY <2>4, <2>5
<1> QED
  BY <1>14, <1>15

-----------------------------------------------------------------------------
(* Types. *)

LEMMA UpdateGroupType ==
    ASSUME NEW G \in TableGroups, NEW e \in EitSections
    PROVE  UpdateGroup(G, e) \in TableGroups
<1> DEFINE T == IF G.last = e.last_table_index THEN G.tables ELSE StartTables(G, e)
           k == e.table_index
           u == UpdateTable(T[k], e)
           U == [T EXCEPT ![k] = u]
<1>1. G.tables \in [TableIndexes -> Tables]
  BY GroupFields
<1>2. StartTables(G, e) \in [TableIndexes -> Tables]
  <2>1. ASSUME NEW i \in TableIndexes
        PROVE  ResetTable(G.tables[i]) \in Tables /\ UnuseTable(ResetTable(G.tables[i])) \in Tables
    <3> DEFINE r == ResetTable(G.tables[i])
    <3>1. r \in Tables
      BY <1>1, TableReset
    <3> HIDE DEF r
    <3>2. UnuseTable(r) \in Tables
      BY <3>1, TableUnused
    <3> QED
      BY <3>1, <3>2 DEF r
  <2> QED
    BY <2>1 DEF StartTables
<1>3. T \in [TableIndexes -> Tables]
  BY <1>1, <1>2
<1>4. UpdateGroup(G, e) =
        [tables |-> U, last |-> e.last_table_index, completed |-> TablesCompleted(U)]
  BY DEF UpdateGroup
<1> HIDE DEF T
<1>5. k \in TableIndexes /\ e.last_table_index \in TableIndexes
  BY SectionFields
<1>6. u \in Tables
  BY <1>3, <1>5, TableUpdated
<1> HIDE DEF u, k
<1>7. U \in [TableIndexes -> Tables]
  BY <1>3, <1>5, <1>6
<1>8. TablesCompleted(U) \in BOOLEAN
  BY DEF TablesCompleted
<1> HIDE DEF U
<1> QED
  BY <1>4, <1>5, <1>7, <1>8, GroupMade

LEMMA PassGroupType ==
    ASSUME NEW G \in TableGroups, NEW n \in Int
    PROVE  PassGroup(G, n) \in TableGroups
<1> DEFINE u == PassSegments(G.tables[0], n)
           U == [G.tables EXCEPT ![0] = u]
<1>1. G.tables \in [TableIndexes -> Tables] /\ 0 \in TableIndexes
  BY GroupFields, Indexes
<1>2. u \in Tables
  BY <1>1, TablePassed
<1>3. PassGroup(G, n) = [G EXCEPT !.tables = U, !.completed = TablesCompleted(U)]
  BY DEF PassGroup
<1> HIDE DEF u
<1>4. U \in [TableIndexes -> Tables]
  BY <1>1, <1>2
<1>5. TablesCompleted(U) \in BOOLEAN
  BY DEF TablesCompleted
<1> HIDE DEF U
<1> QED
  BY <1>3, <1>4, <1>5 DEF TableGroups

\* A service's group is one.
LEMMA GroupType ==
    ASSUME NEW p, ProgressType(p), NEW s, NEW g \in Groups
    PROVE  Group(p, s, g) \in TableGroups
<1>1. NewGroup \in TableGroups
  BY NewTracks DEF Tracks
<1> QED
  BY <1>1 DEF Group, ProgressType

\* The types, and when the collector runs: streaming, always, and otherwise until
\* it is complete or the time limit is reached.
Types ==
    /\ hour \in SegmentIndexes
    /\ run \in {"up", "completed", "timedOut", "ended"}
    /\ has_timestamp \in BOOLEAN
    /\ streaming \in DOMAIN Schedules
    /\ schedule \subseteq EitSections
    /\ written \subseteq EitSections /\ fresh \subseteq written
    /\ changes \in Nat
    /\ ProgressType(progress)

Running ==
    /\ elapsed \in 0..TimeLimit
    /\ streaming => elapsed = 0
    /\ run = "up" => elapsed < TimeLimit
    /\ run = "up" /\ ~ streaming => ~ progress.completed
    /\ run = "completed" => ~ streaming /\ progress.completed

\* Stops keeps a collector running as Running says.
LEMMA StopsRunning ==
    ASSUME streaming \in BOOLEAN, streaming' = streaming, Stops, elapsed' \in 0..TimeLimit,
           streaming => elapsed' = 0, progress'.completed \in BOOLEAN
    PROVE  run' \in {"up", "completed", "timedOut"} /\ Running'
<1>1. TimeLimit \in Nat \ {0}
  BY Constants
<1>2. CASE streaming
  <2>1. run' = "up" /\ elapsed' = 0
    BY <1>2 DEF Stops
  <2> QED
    BY <1>1, <1>2, <2>1 DEF Running
<1>3. CASE ~ streaming
  <2>1. CASE progress'.completed
    <3>1. run' = "completed"
      BY <1>3, <2>1 DEF Stops
    <3> QED
      BY <1>3, <2>1, <3>1 DEF Running
  <2>2. CASE ~ progress'.completed /\ elapsed' >= TimeLimit
    <3>1. run' = "timedOut"
      BY <1>3, <2>2 DEF Stops
    <3> QED
      BY <1>3, <2>2, <3>1 DEF Running
  <2>3. CASE ~ progress'.completed /\ ~ (elapsed' >= TimeLimit)
    <3>1. run' = "up"
      BY <1>3, <2>3 DEF Stops
    <3>2. elapsed' < TimeLimit
      BY <1>1, <2>3
    <3> QED
      BY <1>3, <2>3, <3>1, <3>2 DEF Running
  <2> QED
    BY <2>1, <2>2, <2>3
<1> QED
  BY <1>2, <1>3

LEMMA TypesInitial == Init => Types /\ Running
<1> SUFFICES ASSUME Init PROVE Types /\ Running
  OBVIOUS
<1>1. /\ streaming \in DOMAIN Schedules /\ schedule \in Schedules[streaming] /\ changes = 0
      /\ hour \in SegmentIndexes /\ run = "up" /\ has_timestamp = FALSE /\ elapsed = 0
      /\ progress = NewProgress /\ written = {} /\ fresh = {}
  BY DEF Init
<1>2. schedule \subseteq EitSections
  BY <1>1, CollectorAssumption
<1>3. ProgressType(progress) /\ ~ progress.completed
  BY <1>1 DEF NewProgress, ProgressType
<1>4. Types
  BY <1>1, <1>2, <1>3 DEF Types
<1>5. 0 \in 0..TimeLimit /\ 0 < TimeLimit
  BY Constants
<1>6. Running
  BY <1>1, <1>3, <1>5 DEF Running
<1> QED
  BY <1>4, <1>6

\* A schedule with version v of the table, or the segment, of the section t.
WithVersion(S, whole, t, v) ==
    {IF Changes(whole, e, t) THEN [e EXCEPT !.version = v] ELSE e : e \in S}

\* y is x as it is in that schedule.
Renewed(y, x, whole, t, v) ==
    /\ SameSection(y, x)
    /\ Changes(whole, x, t) => y.version = v
    /\ ~ Changes(whole, x, t) => y = x

LEMMA VersionStep ==
    ASSUME NEW S, S \subseteq EitSections, NEW e \in S, NEW v \in Versions, NEW whole,
           NEW R, R = WithVersion(S, whole, e, v)
    PROVE  /\ R \subseteq EitSections
           /\ \A y \in R : \E x \in S : Renewed(y, x, whole, e, v)
           /\ \A x \in S : \E y \in R : Renewed(y, x, whole, e, v)
<1>1. ASSUME NEW x \in S
      PROVE  LET y == IF Changes(whole, x, e) THEN [x EXCEPT !.version = v] ELSE x
             IN  y \in EitSections /\ Renewed(y, x, whole, e, v)
  <2>1. CASE Changes(whole, x, e)
    <3> DEFINE z == [x EXCEPT !.version = v]
    <3>1. z \in EitSections /\ SameSection(z, x) /\ z.version = v
      BY SectionVersion
    <3> QED
      BY <2>1, <3>1 DEF Renewed
  <2>2. CASE ~ Changes(whole, x, e)
    BY <2>2 DEF Renewed, SameSection
  <2> QED
    BY <2>1, <2>2
<1> QED
  BY <1>1 DEF WithVersion

LEMMA TypesStep ==
    ASSUME Types, Running, [Next]_vars
    PROVE  Types' /\ Running'
<1>1. /\ hour \in SegmentIndexes /\ run \in {"up", "completed", "timedOut", "ended"}
      /\ has_timestamp \in BOOLEAN /\ streaming \in DOMAIN Schedules
      /\ schedule \subseteq EitSections /\ written \subseteq EitSections
      /\ fresh \subseteq written /\ ProgressType(progress) /\ changes \in Nat
  BY DEF Types
<1>2. streaming \in BOOLEAN /\ TimeLimit \in Nat \ {0} /\ elapsed \in 0..TimeLimit
  BY <1>1, Constants DEF Running
<1>3. ASSUME NEW eit \in schedule, HandleSection(eit) PROVE Types' /\ Running'
  <2>1. /\ run = "up" /\ streaming' = streaming /\ schedule' = schedule /\ changes' = changes
        /\ hour' = hour /\ has_timestamp' = has_timestamp /\ Stops
    BY <1>3 DEF HandleSection
  <2>2. /\ written' \subseteq EitSections /\ fresh' \subseteq written'
        /\ ProgressType(progress)'
        /\ elapsed' \in 0..TimeLimit
        /\ streaming => elapsed' = 0
    <3>1. CASE Selected(eit) /\ ~ CheckCollected(progress, eit)
      <4>1. /\ written' = written \cup {eit} /\ elapsed' = 0
            /\ progress' = Update(progress, eit)
            /\ fresh' = {w \in fresh : ~ Overwrites(eit, w)} \cup {eit}
        BY <1>3, <3>1 DEF HandleSection
      <4>2. eit \in EitSections /\ eit.group \in Groups
        BY <1>1, SectionFields
      <4>3. ASSUME NEW q, q = Update(progress, eit) PROVE ProgressType(q)
        <5>1. UpdateGroup(Group(progress, eit.service, eit.group), eit) \in TableGroups
          BY <1>1, <4>2, GroupType, UpdateGroupType
        <5> QED
          BY <1>1, <4>2, <4>3, <5>1, UpdateGroups
      <4>4. ProgressType(progress')
        BY <4>1, <4>3
      <4> QED
        BY <1>1, <1>2, <4>1, <4>2, <4>4 DEF ProgressType
    <3>2. CASE ~ (Selected(eit) /\ ~ CheckCollected(progress, eit))
      <4>1. /\ written' = written /\ fresh' = fresh /\ elapsed' = elapsed
            /\ progress' = progress
        BY <1>3, <3>2 DEF HandleSection
      <4> QED
        BY <1>1, <1>2, <4>1 DEF Running, ProgressType
    <3> QED
      BY <3>1, <3>2
  <2>3. progress'.completed \in BOOLEAN
    BY <2>2 DEF ProgressType
  <2>4. run' \in {"up", "completed", "timedOut"} /\ Running'
    BY <1>2, <2>1, <2>2, <2>3, StopsRunning
  <2> QED
    BY <1>1, <2>1, <2>2, <2>4 DEF Types
<1>4. CASE HandleTot
  <2>1. /\ run = "up" /\ hour' \in SegmentIndexes /\ progress' = UpdateUnused(progress, hour')
        /\ elapsed' = IF ~ has_timestamp THEN 0 ELSE IF streaming THEN elapsed ELSE elapsed + 1
        /\ has_timestamp' = TRUE /\ Stops
        /\ streaming' = streaming /\ schedule' = schedule /\ changes' = changes
        /\ written' = written /\ fresh' = fresh
    BY <1>4 DEF HandleTot
  <2>2. elapsed' \in 0..TimeLimit /\ (streaming => elapsed' = 0)
    <3>1. elapsed < TimeLimit /\ (streaming => elapsed = 0)
      BY <2>1 DEF Running
    <3>2. elapsed' = 0 \/ elapsed' = elapsed \/ (elapsed' = elapsed + 1 /\ ~ streaming)
      BY <2>1
    <3>3. streaming => elapsed' = 0
      BY <3>1, <3>2
    <3> QED
      BY <1>2, <3>1, <3>2, <3>3
  <2>3. ASSUME NEW n \in SegmentIndexes, NEW q, q = UpdateUnused(progress, n)
        PROVE  ProgressType(q)
    <3>1. n \in Int
      BY Indexes
    <3>2. \A s \in DOMAIN progress.services, g \in Groups :
             PassGroup(progress.services[s][g], n) \in TableGroups
      BY <1>1, <3>1, PassGroupType DEF ProgressType
    <3> QED
      BY <1>1, <2>3, <3>2, PassGroups
  <2>4. ProgressType(progress')
    BY <2>1, <2>3
  <2>5. progress'.completed \in BOOLEAN
    BY <2>4 DEF ProgressType
  <2>6. run' \in {"up", "completed", "timedOut"} /\ Running'
    BY <1>2, <2>1, <2>2, <2>5, StopsRunning
  <2>7. ProgressType(progress)'
    BY <2>4 DEF ProgressType
  <2> QED
    BY <1>1, <2>1, <2>6, <2>7 DEF Types
<1>5. CASE NewVersion
  <2>1. /\ changes' = changes + 1 /\ streaming' = streaming /\ hour' = hour /\ run' = run
        /\ has_timestamp' = has_timestamp /\ elapsed' = elapsed /\ progress' = progress
        /\ written' = written /\ fresh' = fresh
    BY <1>5 DEF NewVersion
  <2>2. PICK eit \in schedule, v \in Versions, whole \in BOOLEAN :
           schedule' = WithVersion(schedule, whole, eit, v)
    BY <1>5 DEF NewVersion, WithVersion
  <2>3. schedule' \subseteq EitSections
    BY <1>1, <2>2, VersionStep
  <2>4. ProgressType(progress)'
    BY <1>1, <2>1 DEF ProgressType
  <2>5. Types'
    BY <1>1, <2>1, <2>3, <2>4 DEF Types
  <2> QED
    BY <2>1, <2>5 DEF Running
<1>6. CASE End \/ UNCHANGED vars
  <2>1. /\ streaming' = streaming /\ hour' = hour /\ schedule' = schedule
        /\ changes' = changes /\ has_timestamp' = has_timestamp /\ elapsed' = elapsed
        /\ progress' = progress /\ written' = written /\ fresh' = fresh
        /\ run' = run \/ run' = "ended"
    BY <1>6 DEF End, vars
  <2>2. ProgressType(progress)'
    BY <1>1, <2>1 DEF ProgressType
  <2>3. Types'
    BY <1>1, <2>1, <2>2 DEF Types
  <2> QED
    BY <2>1, <2>3 DEF Running
<1> QED
  BY <1>3, <1>4, <1>5, <1>6 DEF Next

\* The progress stays what the classes hold, the hour a segment of the day and the
\* time since the last section within the time limit, for every schedule
\* (HandleSection, HandleTot).
THEOREM CollectorTypes == Spec => []TypeOK
<1>1. Types /\ Running => TypeOK
  BY DEF Types, Running, TypeOK, ProgressType
<1> QED
  BY <1>1, TypesInitial, TypesStep, PTL DEF Spec

-----------------------------------------------------------------------------
(* What has been written. *)

\* A section that is broadcast and what has been written of its part agree.
LEMMA WrittenAgrees ==
    ASSUME Broadcast, NEW e \in schedule, NEW w \in written, w.service = e.service,
           w.group = e.group
    PROVE  w.last_table_index = e.last_table_index
<1>1. PICK f \in schedule : SameSection(w, f)
  BY DEF Broadcast
<1>2. f.last_table_index = e.last_table_index
  <2>1. Agrees(f, e)
    BY DEF Broadcast, Consistent
  <2>2. InPart(f, e)
    BY <1>1 DEF InPart, SameSection
  <2> QED
    BY <2>1, <2>2 DEF Agrees
<1> QED
  BY <1>1, <1>2 DEF SameSection

\* CheckCollected knows a section that has been written and does not look new ...
LEMMA FreshCollected ==
    ASSUME Types, Tracking, NEW e \in fresh
    PROVE  CheckCollected(progress, e)
<1> DEFINE G == Group(progress, e.service, e.group)
           V == Of(written, e.service, e.group)
<1>1. /\ e \in written /\ e.service \in Services /\ e.group \in Groups
      /\ e.last_table_index # -1
  <2>1. e \in written /\ e \in EitSections
    BY DEF Types
  <2> QED
    BY <2>1, SectionFields, Indexes
<1>2. Tracks(G, V, fresh, hour) /\ e \in V
  BY <1>1 DEF Tracking, Of
<1> HIDE DEF V
<1>3. G.last = e.last_table_index
  BY <1>2 DEF Tracks
<1>4. e.service \in DOMAIN progress.services /\ G = progress.services[e.service][e.group]
  <2>1. NewGroup.last = -1
    BY DEF NewGroup
  <2> QED
    BY <1>1, <1>3, <2>1 DEF Group
<1> HIDE DEF G
<1>5. /\ Bit(e) \in G.tables[e.table_index].collected
      /\ \A i \in e.section_index..(e.last_section_index - 1) :
            G.tables[e.table_index].versions[i] = e.version
  BY <1>2 DEF Tracks, TablesTrack
<1>6. TableCollected(G.tables[e.table_index], e)
  BY <1>5 DEF TableCollected, Bit
<1> QED
  BY <1>3, <1>4, <1>6 DEF CheckCollected, GroupCollected

\* ... and, as long as nothing changes, no other.
LEMMA CollectedWritten ==
    ASSUME Types, Broadcast, Tracking, changes = 0, NEW e \in schedule,
           CheckCollected(progress, e)
    PROVE  e \in written
<1> DEFINE G == Group(progress, e.service, e.group)
           V == Of(written, e.service, e.group)
<1>1. e \in EitSections
  BY DEF Types
<1>2. e.service \in Services /\ e.group \in Groups /\ e.table_index \in TableIndexes
  BY <1>1, SectionFields
<1>3. Tracks(G, V, fresh, hour)
  BY <1>2 DEF Tracking
<1>4. Bit(e) \in G.tables[e.table_index].collected
  BY DEF CheckCollected, GroupCollected, TableCollected, Group, Bit
<1> HIDE DEF G, V
<1>5. PICK w \in V : w.table_index = e.table_index /\ Bit(w) = Bit(e)
  BY <1>2, <1>3, <1>4 DEF Tracks, TablesTrack
<1>6. w \in written /\ w.service = e.service /\ w.group = e.group
  BY DEF V, Of
<1>7. w \in schedule /\ w \in EitSections
  BY <1>6 DEF Broadcast, Types
<1>8. w.segment_index = e.segment_index /\ w.section_index = e.section_index
  BY <1>5 DEF Bit
<1>9. SameSection(w, e) /\ w.version = e.version
  BY <1>5, <1>6, <1>7, <1>8
  DEF Broadcast, Consistent, Agrees, InPart, InTable, SameSection
<1> QED
  BY <1>1, <1>6, <1>7, <1>9, SectionEqual

\* The sections that do not look new once e has been written.
FreshAfter(e) == {w \in fresh : ~ Overwrites(e, w)} \cup {e}

\* The progress tracks what is written when a section is.
LEMMA SectionTracked ==
    ASSUME Types, Broadcast, Tracking, NEW e \in schedule,
           NEW q, q = Update(progress, e), NEW W, W = written \cup {e},
           NEW F, F = FreshAfter(e), NEW s \in Services, NEW g \in Groups
    PROVE  Tracks(Group(q, s, g), Of(W, s, g), F, hour)
<1> DEFINE G == Group(progress, s, g)
           V == Of(written, s, g)
<1>1. /\ e \in EitSections /\ e.table_index <= e.last_table_index
      /\ written \subseteq EitSections /\ ProgressType(progress) /\ hour \in Int
  BY Indexes DEF Types, Broadcast, Consistent
<1>2. Tracks(G, V, fresh, hour)
  BY DEF Tracking
<1>3. e.service \in Services /\ e.group \in Groups
  BY <1>1, SectionFields
<1>4. UpdateGroup(Group(progress, e.service, e.group), e) \in TableGroups
  BY <1>1, <1>3, GroupType, UpdateGroupType
<1>5. Group(q, s, g) = IF s = e.service /\ g = e.group THEN UpdateGroup(G, e) ELSE G
  BY <1>1, <1>4, UpdateGroups
<1> HIDE DEF G
<1>6. CASE s = e.service /\ g = e.group
  <2>1. \A w \in V : w \in EitSections /\ w.last_table_index = e.last_table_index
    BY <1>1, <1>6, WrittenAgrees DEF Of
  <2>2. Of(W, s, g) = V \cup {e}
    BY <1>6 DEF Of
  <2>3. ASSUME NEW w \in V, w \in F, w # e PROVE w \in fresh /\ Spared(e, w)
    <3>1. w \in fresh /\ ~ Overwrites(e, w)
      BY <2>3 DEF FreshAfter
    <3>2. w.service = e.service /\ w.group = e.group
      BY <1>6 DEF Of
    <3> QED
      BY <3>1, <3>2 DEF Overwrites, InTable, Spared
  <2> HIDE DEF V
  <2>4. Tracks(UpdateGroup(G, e), V \cup {e}, F, hour)
    BY <1>1, <1>2, <2>1, <2>3, UpdateTracks
  <2> QED
    BY <1>5, <1>6, <2>2, <2>4
<1>7. CASE ~ (s = e.service /\ g = e.group)
  <2>1. Of(W, s, g) = V
    BY <1>7 DEF Of
  <2>2. V \cap F \subseteq fresh
    BY <1>7 DEF FreshAfter, Of
  <2> HIDE DEF V
  <2>3. Tracks(G, V, F, hour)
    BY <1>2, <2>2, FewerTracks
  <2> QED
    BY <1>5, <1>7, <2>1, <2>3
<1> QED
  BY <1>6, <1>7

\* Written sections and groups, as an invariant.  As long as nothing changes and no
\* segments clash, no written section looks new.
OnceInv ==
    /\ Types /\ Running /\ Broadcast /\ Tracking /\ WrittenOnce
    /\ changes = 0 /\ ~ Clashing => fresh = written

LEMMA OnceInitial ==
    ASSUME ConsistentSchedules, Init
    PROVE  OnceInv
<1>1. Types /\ Running
  BY TypesInitial
<1>2. /\ schedule \in Schedules[streaming] /\ streaming \in DOMAIN Schedules
      /\ written = {} /\ fresh = {} /\ progress = NewProgress
      /\ ~ repeated /\ ~ needless /\ ~ dropped
  BY DEF Init
<1>3. Broadcast
  BY <1>2 DEF ConsistentSchedules, Broadcast
<1>4. Tracking
  <2>1. ASSUME NEW s, NEW g PROVE Group(progress, s, g) = NewGroup /\ Of(written, s, g) = {}
    BY <1>2 DEF Group, NewProgress, Of
  <2> QED
    BY <2>1, NewTracks DEF Tracking
<1> QED
  BY <1>1, <1>2, <1>3, <1>4 DEF OnceInv, WrittenOnce, NotRepeated, NotDropped

LEMMA OnceSection ==
    ASSUME OnceInv, NEW eit \in schedule, HandleSection(eit)
    PROVE  /\ Broadcast' /\ Tracking' /\ WrittenOnce'
           /\ (changes = 0 /\ ~ Clashing => fresh = written)'
<1>1. /\ Types /\ Broadcast /\ Tracking /\ ~ needless /\ (changes = 0 => ~ dropped)
      /\ changes = 0 /\ ~ Clashing => ~ repeated /\ fresh = written
  BY DEF OnceInv, WrittenOnce, NotRepeated, NotDropped
<1>2. schedule' = schedule /\ changes' = changes /\ hour' = hour /\ (Clashing' <=> Clashing)
  BY DEF HandleSection, Clashing
<1>3. CASE Selected(eit) /\ ~ CheckCollected(progress, eit)
  <2>1. /\ written' = written \cup {eit} /\ fresh' = FreshAfter(eit)
        /\ repeated' = (repeated \/ eit \in written)
        /\ needless' = (needless \/ eit \in fresh)
        /\ progress' = Update(progress, eit) /\ dropped' = dropped
    BY <1>3 DEF HandleSection, FreshAfter
  <2>2. eit \notin fresh
    BY <1>1, <1>3, FreshCollected
  <2>3. ASSUME changes = 0, ~ Clashing PROVE ~ repeated' /\ fresh' = written'
    <3>1. written \subseteq schedule /\ fresh = written /\ ~ repeated
      BY <1>1, <2>3 DEF Broadcast
    <3>2. \A w \in fresh : ~ Overwrites(eit, w)
      BY <2>3, <3>1 DEF Clashing
    <3>3. FreshAfter(eit) = fresh \cup {eit}
      BY <3>2 DEF FreshAfter
    <3> QED
      BY <2>1, <2>2, <3>1, <3>3
  <2>4. WrittenOnce'
    BY <1>1, <1>2, <2>1, <2>2, <2>3 DEF WrittenOnce, NotRepeated, NotDropped
  <2>5. Broadcast'
    BY <1>1, <1>2, <2>1 DEF Broadcast, SameSection
  <2>6. Tracking'
    <3>1. ASSUME NEW q, q = Update(progress, eit), NEW W, W = written \cup {eit},
                 NEW F, F = FreshAfter(eit)
          PROVE  \A s \in Services, g \in Groups :
                    Tracks(Group(q, s, g), Of(W, s, g), F, hour)
      BY <1>1, <3>1, SectionTracked
    <3>2. \A s \in Services, g \in Groups :
             Tracks(Group(progress', s, g), Of(written', s, g), fresh', hour)
      BY <2>1, <3>1
    <3> QED
      BY <1>2, <3>2 DEF Tracking, Group, Of
  <2> QED
    BY <1>2, <2>3, <2>4, <2>5, <2>6
<1>4. CASE ~ (Selected(eit) /\ ~ CheckCollected(progress, eit))
  <2>1. /\ dropped' = (dropped \/ (Selected(eit) /\ eit \notin written))
        /\ written' = written /\ fresh' = fresh /\ repeated' = repeated
        /\ needless' = needless /\ progress' = progress
    BY <1>4 DEF HandleSection
  <2>2. changes = 0 => ~ dropped'
    BY <1>1, <1>4, <2>1, CollectedWritten
  <2>3. WrittenOnce'
    BY <1>1, <1>2, <2>1, <2>2 DEF WrittenOnce, NotRepeated, NotDropped
  <2>4. Broadcast'
    BY <1>1, <1>2, <2>1 DEF Broadcast
  <2>5. Tracking'
    BY <1>1, <1>2, <2>1 DEF Tracking, Group, Of
  <2> QED
    BY <1>1, <1>2, <2>1, <2>3, <2>4, <2>5
<1> QED
  BY <1>3, <1>4

LEMMA OnceTot ==
    ASSUME OnceInv, HandleTot
    PROVE  /\ Broadcast' /\ Tracking' /\ WrittenOnce'
           /\ (changes = 0 /\ ~ Clashing => fresh = written)'
<1>1. /\ Types /\ Broadcast /\ Tracking /\ ProgressType(progress) /\ hour \in SegmentIndexes
      /\ SegmentIndexes \subseteq Nat
  BY Indexes DEF OnceInv, Types
<1>2. /\ hour' \in SegmentIndexes /\ hour' \in {hour, hour + 1}
      /\ progress' = UpdateUnused(progress, hour')
      /\ schedule' = schedule /\ changes' = changes /\ written' = written
      /\ fresh' = fresh /\ repeated' = repeated /\ needless' = needless
      /\ dropped' = dropped
  BY DEF HandleTot
<1>3. hour \in Int /\ hour' \in Int /\ hour <= hour'
  BY <1>1, <1>2
<1>4. /\ Broadcast' /\ WrittenOnce'
      /\ (changes = 0 /\ ~ Clashing => fresh = written)'
  BY <1>1, <1>2 DEF OnceInv, Broadcast, WrittenOnce, NotRepeated, NotDropped, Clashing
<1>5. ASSUME NEW n \in Int, hour <= n, NEW q, q = UpdateUnused(progress, n),
             NEW s \in Services, NEW g \in Groups
      PROVE  Tracks(Group(q, s, g), Of(written, s, g), fresh, n)
  <2>1. Tracks(Group(progress, s, g), Of(written, s, g), fresh, hour)
    BY <1>1 DEF Tracking
  <2>2. \A x \in DOMAIN progress.services, y \in Groups :
           PassGroup(progress.services[x][y], n) \in TableGroups
    BY <1>1, PassGroupType DEF ProgressType
  <2>3. /\ DOMAIN q.services = DOMAIN progress.services
        /\ \A x \in DOMAIN progress.services, y \in Groups :
              q.services[x][y] = PassGroup(progress.services[x][y], n)
    BY <1>1, <1>5, <2>2, PassGroups
  <2>4. CASE s \in DOMAIN progress.services
    <3>1. Group(q, s, g) = PassGroup(Group(progress, s, g), n)
      BY <2>3, <2>4 DEF Group
    <3>2. Tracks(PassGroup(Group(progress, s, g), n), Of(written, s, g), fresh, n)
      BY <1>3, <1>5, <2>1, PassTracks
    <3> QED
      BY <3>1, <3>2
  <2>5. CASE s \notin DOMAIN progress.services
    <3>1. Group(q, s, g) = NewGroup /\ Group(progress, s, g) = NewGroup
      BY <2>3, <2>5 DEF Group
    <3>2. Of(written, s, g) = {}
      BY <2>1, <3>1 DEF Tracks, NewGroup
    <3> QED
      BY <3>1, <3>2, NewTracks
  <2> QED
    BY <2>4, <2>5
<1>6. \A s \in Services, g \in Groups :
         Tracks(Group(progress', s, g), Of(written, s, g), fresh, hour')
  BY <1>2, <1>3, <1>5
<1>7. Tracking'
  BY <1>2, <1>6 DEF Tracking, Group, Of
<1> QED
  BY <1>4, <1>7

LEMMA OnceVersion ==
    ASSUME OnceInv, NewVersion
    PROVE  /\ Broadcast' /\ Tracking' /\ WrittenOnce'
           /\ (changes = 0 /\ ~ Clashing => fresh = written)'
<1>1. /\ Types /\ Broadcast /\ Tracking /\ schedule \subseteq EitSections
      /\ written \subseteq EitSections /\ changes \in Nat /\ ~ needless
  BY DEF OnceInv, Types, WrittenOnce, NotRepeated
<1>2. /\ changes' = changes + 1 /\ hour' = hour /\ progress' = progress
      /\ written' = written /\ fresh' = fresh /\ needless' = needless
  BY DEF NewVersion
<1>3. PICK eit \in schedule, v \in Versions, whole \in BOOLEAN :
         schedule' = WithVersion(schedule, whole, eit, v)
  BY DEF NewVersion, WithVersion
<1>4. changes' # 0
  BY <1>1, <1>2
<1>5. WrittenOnce' /\ (changes = 0 /\ ~ Clashing => fresh = written)'
  BY <1>1, <1>2, <1>4 DEF WrittenOnce, NotRepeated, NotDropped
<1>6. ASSUME NEW R, R = WithVersion(schedule, whole, eit, v)
      PROVE  /\ Consistent(R)
             /\ \A w \in written : \E f \in R : SameSection(w, f)
  <2>1. /\ R \subseteq EitSections
        /\ \A y \in R : \E x \in schedule : Renewed(y, x, whole, eit, v)
        /\ \A x \in schedule : \E y \in R : Renewed(y, x, whole, eit, v)
    BY <1>1, <1>6, VersionStep
  <2>2. Consistent(R)
    <3>1. ASSUME NEW y \in R
          PROVE  /\ y \in EitSections /\ y.table_index <= y.last_table_index
                 /\ y.segment_index <= y.last_segment_index
                 /\ y.section_index <= y.last_section_index
      <4>1. PICK x \in schedule : Renewed(y, x, whole, eit, v)
        BY <2>1
      <4>2. /\ x.table_index <= x.last_table_index
            /\ x.segment_index <= x.last_segment_index
            /\ x.section_index <= x.last_section_index
        BY <1>1 DEF Broadcast, Consistent
      <4> QED
        BY <2>1, <4>1, <4>2 DEF Renewed, SameSection
    <3>2. ASSUME NEW a \in R, NEW b \in R PROVE Agrees(a, b)
      <4>1. PICK x \in schedule : Renewed(a, x, whole, eit, v)
        BY <2>1
      <4>2. PICK y \in schedule : Renewed(b, y, whole, eit, v)
        BY <2>1
      <4>3. Agrees(x, y)
        BY <1>1 DEF Broadcast, Consistent
      <4>4. SameSection(a, x) /\ SameSection(b, y)
        BY <4>1, <4>2 DEF Renewed
      <4>5. InTable(a, b) /\ a.segment_index = b.segment_index =>
               /\ InTable(x, y) /\ x.segment_index = y.segment_index
               /\ Changes(whole, x, eit) <=> Changes(whole, y, eit)
        BY <4>4 DEF InTable, SameSection, Changes
      <4>6. ASSUME InTable(a, b), a.segment_index = b.segment_index,
                   a.section_index = b.section_index
            PROVE  a.version = b.version
        <5>1. x.version = y.version
          BY <4>3, <4>4, <4>5, <4>6 DEF Agrees, SameSection
        <5> QED
          BY <4>1, <4>2, <4>5, <4>6, <5>1 DEF Renewed
      <4> QED
        BY <4>3, <4>4, <4>6 DEF Agrees, InPart, InTable, SameSection
    <3> QED
      BY <3>1, <3>2 DEF Consistent
  <2>3. ASSUME NEW w \in written PROVE \E f \in R : SameSection(w, f)
    <3>1. PICK x \in schedule : SameSection(w, x)
      BY <1>1 DEF Broadcast
    <3>2. PICK y \in R : Renewed(y, x, whole, eit, v)
      BY <2>1
    <3>3. SameSection(w, y)
      BY <3>1, <3>2 DEF Renewed, SameSection
    <3> QED
      BY <3>3
  <2> QED
    BY <2>2, <2>3
<1>7. Broadcast'
  <2>1. Consistent(schedule') /\ \A w \in written : \E f \in schedule' : SameSection(w, f)
    BY <1>3, <1>6
  <2> QED
    BY <1>2, <1>4, <2>1 DEF Broadcast, Consistent
<1>8. Tracking'
  BY <1>1, <1>2 DEF Tracking, Group, Of
<1> QED
  BY <1>5, <1>7, <1>8

LEMMA OnceStep ==
    ASSUME OnceInv, [Next]_vars
    PROVE  OnceInv'
<1>1. Types' /\ Running'
  BY TypesStep DEF OnceInv
<1>2. CASE End \/ UNCHANGED vars
  <2>1. /\ hour' = hour /\ schedule' = schedule /\ changes' = changes
        /\ progress' = progress /\ written' = written /\ fresh' = fresh
        /\ repeated' = repeated /\ needless' = needless /\ dropped' = dropped
    BY <1>2 DEF End, vars
  <2> QED
    BY <1>1, <2>1
    DEF OnceInv, Broadcast, Tracking, WrittenOnce, NotRepeated, NotDropped, Group, Of, Clashing
<1> QED
  BY <1>1, <1>2, OnceSection, OnceTot, OnceVersion DEF Next, OnceInv

\* In whatever order the sections come, whatever versions the sections of a table
\* have and whenever they change: no section is written again unless its version was
\* overwritten in between, by one of another segment or by a newer one; as long as
\* nothing changes none is dropped that has not been written, and if no segments clash
\* none is written twice (HandleSection, CheckCollected, Update).
THEOREM AlwaysWrittenOnce ==
    ASSUME ConsistentSchedules
    PROVE  Spec => []WrittenOnce
<1>1. OnceInv => WrittenOnce
  BY DEF OnceInv
<1> QED
  BY <1>1, OnceInitial, OnceStep, PTL DEF Spec

-----------------------------------------------------------------------------
(* Completion. *)

\* A collector that does not stream is done when it has all it needs of what is
\* broadcast but what is over, and not before.
Done ==
    ~ streaming =>
        /\ changes = 0 /\ Complete(schedule)
        /\ progress.completed => Needed \subseteq written \cup Passed
        /\ ~ progress.completed /\ written # {} => ~ (Needed \subseteq written)

DoneInv == OnceInv /\ Done

LEMMA DoneInitial ==
    ASSUME ConsistentSchedules, CompleteSchedules, Init
    PROVE  DoneInv
<1>1. OnceInv
  BY OnceInitial
<1>2. /\ schedule \in Schedules[streaming] /\ streaming \in DOMAIN Schedules
      /\ written = {} /\ progress = NewProgress /\ changes = 0
  BY DEF Init
<1>3. ~ streaming => Complete(schedule)
  BY <1>2 DEF CompleteSchedules
<1>4. ~ progress.completed
  BY <1>2 DEF NewProgress
<1>5. Done
  BY <1>2, <1>3, <1>4 DEF Done
<1> QED
  BY <1>1, <1>5 DEF DoneInv

\* The flag of a progress that has just been updated is exact.
LEMMA FlagExact ==
    ASSUME NEW q, ProgressType(q), NEW S, Consistent(S), Complete(S),
           NEW W, W \subseteq S, NEW F, NEW h,
           \A s \in Services, g \in Groups : Tracks(Group(q, s, g), Of(W, s, g), F, h),
           q.completed <=> \A s \in DOMAIN q.services : ServiceCompleted(q.services[s])
    PROVE  /\ q.completed => \A e \in S, x \in W :
                                InPart(x, e) => e \in W \/ (e.table_index = 0 /\ e.segment_index < h)
           /\ ~ q.completed => \E e \in S, x \in W : InPart(x, e) /\ e \notin W
<1>1. ASSUME q.completed, NEW e \in S, NEW x \in W, InPart(x, e)
      PROVE  e \in W \/ (e.table_index = 0 /\ e.segment_index < h)
  BY <1>1, AllCompleted
<1>2. ASSUME ~ q.completed PROVE \E e \in S, x \in W : InPart(x, e) /\ e \notin W
  <2>1. PICK s \in DOMAIN q.services : ~ ServiceCompleted(q.services[s])
    BY <1>2
  <2> QED
    BY <2>1, OneMissing
<1> QED
  BY <1>1, <1>2

LEMMA DoneSection ==
    ASSUME DoneInv, OnceInv', NEW eit \in schedule, HandleSection(eit)
    PROVE  Done'
<1>1. /\ Types /\ ProgressType(progress) /\ eit \in EitSections
      /\ Broadcast /\ Tracking /\ Done /\ Tracking' /\ Broadcast'
  BY DEF DoneInv, OnceInv, Types
<1>2. /\ schedule' = schedule /\ changes' = changes /\ hour' = hour
      /\ streaming' = streaming
  BY DEF HandleSection
<1>3. CASE ~ (Selected(eit) /\ ~ CheckCollected(progress, eit))
  <2>1. written' = written /\ progress' = progress
    BY <1>3 DEF HandleSection
  <2> QED
    BY <1>1, <1>2, <2>1 DEF Done, Complete, Needed, Passed
<1>4. CASE Selected(eit) /\ ~ CheckCollected(progress, eit)
  <2>1. written' = written \cup {eit} /\ progress' = Update(progress, eit)
    BY <1>4 DEF HandleSection
  <2>2. SUFFICES ASSUME ~ streaming
                 PROVE  /\ progress'.completed => Needed' \subseteq written' \cup Passed'
                        /\ ~ progress'.completed => ~ (Needed' \subseteq written')
    BY <1>1, <1>2, <2>2 DEF Done, Complete
  <2>3. changes = 0 /\ Complete(schedule) /\ Consistent(schedule) /\ written \subseteq schedule
    BY <1>1, <2>2 DEF Done, Broadcast
  <2>4. ASSUME NEW q, q = Update(progress, eit), NEW W, W = written \cup {eit}
        PROVE  /\ q.completed => \A e \in schedule, x \in W :
                     InPart(x, e) => e \in W \/ (e.table_index = 0 /\ e.segment_index < hour)
               /\ ~ q.completed => \E e \in schedule, x \in W : InPart(x, e) /\ e \notin W
    <3>1. \A s \in Services, g \in Groups :
             Tracks(Group(q, s, g), Of(W, s, g), FreshAfter(eit), hour)
      BY <1>1, <2>4, SectionTracked
    <3>2. UpdateGroup(Group(progress, eit.service, eit.group), eit) \in TableGroups
      <4>1. eit.service \in Services /\ eit.group \in Groups
        BY <1>1, SectionFields
      <4> QED
        BY <1>1, <4>1, GroupType, UpdateGroupType
    <3>3. /\ ProgressType(q)
          /\ q.completed <=> \A s \in DOMAIN q.services : ServiceCompleted(q.services[s])
      BY <1>1, <2>4, <3>2, UpdateGroups
    <3>4. W \subseteq schedule
      BY <2>3, <2>4
    <3> QED
      BY <2>3, <3>1, <3>3, <3>4, FlagExact
  <2>5. /\ progress'.completed => \A e \in schedule, x \in written' :
              InPart(x, e) => e \in written' \/ (e.table_index = 0 /\ e.segment_index < hour)
        /\ ~ progress'.completed => \E e \in schedule, x \in written' :
              InPart(x, e) /\ e \notin written'
    BY <2>1, <2>4
  <2>6. ASSUME progress'.completed PROVE Needed' \subseteq written' \cup Passed'
    BY <1>2, <2>5, <2>6 DEF Needed, Passed, InPart
  <2>7. ASSUME ~ progress'.completed PROVE ~ (Needed' \subseteq written')
    <3>1. PICK e \in schedule, x \in written' : InPart(x, e) /\ e \notin written'
      BY <2>5, <2>7
    <3>2. e \in Needed'
      BY <1>2, <3>1 DEF Needed, InPart
    <3> QED
      BY <3>1, <3>2
  <2> QED
    BY <2>6, <2>7
<1> QED
  BY <1>3, <1>4

LEMMA DoneTot ==
    ASSUME DoneInv, HandleTot
    PROVE  Done'
<1>1. Types /\ ProgressType(progress) /\ Running /\ Done
  BY DEF DoneInv, OnceInv, Types
<1>2. /\ run = "up" /\ progress' = UpdateUnused(progress, hour')
      /\ streaming' = streaming /\ schedule' = schedule /\ changes' = changes
      /\ written' = written
  BY DEF HandleTot
<1>3. ASSUME NEW n \in Int, NEW q, q = UpdateUnused(progress, n)
      PROVE  q.completed = progress.completed
  <2>1. \A x \in DOMAIN progress.services, y \in Groups :
           PassGroup(progress.services[x][y], n) \in TableGroups
    BY <1>1, PassGroupType DEF ProgressType
  <2> QED
    BY <1>1, <1>3, <2>1, PassGroups
<1>4. hour' \in Int
  <2>1. hour' \in SegmentIndexes
    BY DEF HandleTot
  <2>2. SegmentIndexes \subseteq Nat
    BY Indexes
  <2> QED
    BY <2>1, <2>2
<1>5. progress'.completed = progress.completed
  BY <1>2, <1>3, <1>4
<1>6. ~ streaming => ~ progress.completed
  BY <1>1, <1>2 DEF Running
<1> QED
  BY <1>1, <1>2, <1>5, <1>6 DEF Done, Complete, Needed

LEMMA DoneStep ==
    ASSUME CompleteSchedules, DoneInv, [Next]_vars
    PROVE  DoneInv'
<1>1. OnceInv'
  BY OnceStep DEF DoneInv
<1>2. Done /\ streaming \in DOMAIN Schedules /\ streaming \in BOOLEAN
  BY Constants DEF DoneInv, OnceInv, Types
<1>3. CASE \E eit \in schedule : HandleSection(eit)
  BY <1>1, <1>3, DoneSection DEF DoneInv
<1>4. CASE HandleTot
  BY <1>1, <1>4, DoneTot DEF DoneInv
<1>5. CASE NewVersion
  <2>1. streaming
    <3>1. changes \in Nat /\ changes < MaxChanges[streaming]
      BY <1>5 DEF NewVersion, DoneInv, OnceInv, Types
    <3>2. ~ streaming => MaxChanges[streaming] = 0
      BY <1>2 DEF CompleteSchedules
    <3> QED
      BY <3>1, <3>2
  <2>2. streaming' = streaming
    BY <1>5 DEF NewVersion
  <2> QED
    BY <1>1, <2>1, <2>2 DEF DoneInv, Done
<1>6. CASE End \/ UNCHANGED vars
  <2>1. /\ streaming' = streaming /\ hour' = hour /\ schedule' = schedule
        /\ changes' = changes /\ progress' = progress /\ written' = written
    BY <1>6 DEF End, vars
  <2>2. Done'
    BY <1>2, <2>1 DEF Done, Complete, Needed, Passed
  <2> QED
    BY <1>1, <2>2 DEF DoneInv
<1> QED
  BY <1>3, <1>4, <1>5, <1>6 DEF Next

\* For every consistent and complete schedule that does not change, in whatever
\* order its sections and the TOTs come: a collector that stops as complete has
\* written all it needs but what is over, and one that has written all it needs
\* has stopped (IsCompleted, Update, UpdateUnused).
THEOREM AlwaysCompletionExact ==
    ASSUME ConsistentSchedules, CompleteSchedules
    PROVE  Spec => []CompletionExact
<1>1. DoneInv => CompletionExact
  <2>1. SUFFICES ASSUME DoneInv PROVE CompletionExact
    OBVIOUS
  <2>2. Running /\ Done
    BY <2>1 DEF DoneInv, OnceInv
  <2> QED
    BY <2>2 DEF Running, Done, CompletionExact
<1> QED
  BY <1>1, DoneInitial, DoneStep, PTL DEF Spec

=============================================================================
