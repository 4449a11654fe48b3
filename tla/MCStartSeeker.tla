---------------------------- MODULE MCStartSeeker ----------------------------
(***************************************************************************)
(* StartSeeker with two PMT PIDs, two PCR PIDs whose PCRs may have origins *)
(* of their own, and streams that gain, lose or exchange an audio or a     *)
(* video stream.                                                           *)
(***************************************************************************)
EXTENDS StartSeeker, TLC

CONSTANTS pat, null, unlisted, m1, m2, c1, c2

MCPmtPids == {m1, m2}
MCPcrPids == {c1, c2}
MCStreams == {[video |-> {},  audio |-> {2}],
              [video |-> {1}, audio |-> {2}],
              [video |-> {1}, audio |-> {2, 3}]}

\* The end of the duration is before the PCRs wrap around, or after.
MCFirstPcrs == {0, 14}

MCSymmetry == Permutations(MCPmtPids) \cup Permutations(MCPcrPids)

=============================================================================
