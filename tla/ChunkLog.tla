------------------------------ MODULE ChunkLog ------------------------------
(***************************************************************************)
(* What a ring buffer file promises the application that reads it: a ring  *)
(* of chunks in which, at every moment, one chunk is being recorded and    *)
(* the others keep what was reported.  A chunk is the number of its first  *)
(* byte in the stream, 0 when it promises nothing.                         *)
(***************************************************************************)
EXTENDS RingLayout

VARIABLES chunks, \* boundary -> the chunk kept there
          cur     \* the boundary of the chunk being recorded

logVars == <<chunks, cur>>

Init ==
    /\ chunks = [b \in Boundaries |-> 0]
    /\ cur = 0

\* The chunk being recorded is complete: it becomes one that is kept, newer
\* than every other, and the oldest one gives way to the next.  (In a ring of
\* one chunk nothing is ever kept.)
Report ==
    /\ cur' = NextBoundary(cur)
    /\ chunks' \in [Boundaries -> Nat]
    /\ chunks'[cur'] = 0
    /\ cur' # cur => \A b \in Boundaries : chunks'[cur] > chunks[b]
    /\ \A b \in Boundaries \ {cur, cur'} : chunks'[b] = chunks[b]

\* `stop` with reset = true: the application has to forget the file.
Reset == Init'

Next == Report \/ Reset

Spec == Init /\ [][Next]_logVars

=============================================================================
