--------------------------- MODULE MCServiceFilter ---------------------------
(***************************************************************************)
(* ServiceFilter with two services, the four kinds of PSI/SI PIDs that     *)
(* matter and three other PIDs; a PMT or a CAT may name any of them, null  *)
(* packets and PSI/SI included.                                            *)
(***************************************************************************)
EXTENDS ServiceFilter, TLC

CONSTANTS pat, cat, tot, eit, null, d1, d2, d3, s1, s2

Dynamic == {d1, d2, d3}
MCPsiFilterPids == {pat, cat, tot, eit}
MCPids == MCPsiFilterPids \cup {null} \cup Dynamic
MCSids == {s1, s2}

\* A PMT names one or two PIDs, a CAT none or one.
MCPmtPids == {{x, y} : x \in MCPids, y \in Dynamic}
MCCatPids == {{}} \cup {{x} : x \in MCPids}

\* The other PIDs are only compared for equality.
Symmetry == Permutations(Dynamic)

=============================================================================
