--------------------------- MODULE MCEitCollector ---------------------------
(***************************************************************************)
(* EitCollector with two tables, two segments and two sections instead of  *)
(* 8, 32 and 8: every shape of a service's basic tables, with a second     *)
(* part of one table, which is the service's extra part or another         *)
(* service.                                                                *)
(***************************************************************************)
EXTENDS EitCollector, TLC

CONSTANTS s1, s2, s3

MCServices == {s1, s2, s3}

\* The shapes of a table: the last section of each of its segments.
Shapes == UNION {[0..n -> SectionIndexes] : n \in SegmentIndexes}

Last(shape) == Cardinality(DOMAIN shape) - 1

\* The sections of a part of a service: tables[i] is the shape of table i.
Part(s, g, tables, Version(_)) ==
    UNION {UNION {{[service |-> s, group |-> g, table_index |-> t,
                    last_table_index |-> Last(tables), segment_index |-> n,
                    last_segment_index |-> Last(tables[t]), section_index |-> i,
                    last_section_index |-> tables[t][n], version |-> Version(n)]
                   : i \in 0..tables[t][n]} : n \in DOMAIN tables[t]} : t \in DOMAIN tables}

One(n) == 1
Zero(n) == 0

AllTables == UNION {[0..n -> Shapes] : n \in TableIndexes}

Own(n) == n

AllSchedules ==
    {Part(s1, "basic", tables, One)
        \cup Part(IF other = "extra" THEN s1 ELSE s2, other, [t \in {0} |-> shape], One)
        \cup Part(s3, "basic", [t \in {0} |-> [n \in {0} |-> 0]], One) :
     tables \in AllTables, shape \in [{0} -> {0}], other \in Groups}

\* Two tables with segments of one and of two sections.
TwoTables == {Part(s1, "basic", [t \in {0, 1} |-> [n \in 0..t |-> n]], Zero)}

\* A table of each shape whose segments have versions of their own, and a second table.
MixedSchedules ==
    {Part(s1, "basic", [t \in {0, 1} |-> IF t = 0 THEN shape ELSE other], Own) :
     shape \in Shapes, other \in [{0} -> {0}]}

\* All schedules without streaming, and one that changes with it.
MCSchedules == FALSE :> (AllSchedules \cup MixedSchedules) @@ TRUE :> TwoTables
MCMaxChanges == FALSE :> 0 @@ TRUE :> 2

MCUpdates == TRUE :> TwoTables
MCOneUpdate == TRUE :> 1

=============================================================================
