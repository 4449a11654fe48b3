----------------------------- MODULE MCCommands -----------------------------
(***************************************************************************)
(* Commands with small streams: three services of which the third is not   *)
(* wanted, two PIDs for PMTs, two for PCRs, and PCRs of a few ticks.       *)
(***************************************************************************)
EXTENDS Commands, TLC

\* Television, a type the help does not list, and data.
MCScanPats ==
    {[tsid0 |-> FALSE, nit_pid |-> n, sids |-> s] :
        n \in {NullPid, NitPid, 31}, s \in {{1, 2, 3}, {2}}}
    \cup {[tsid0 |-> TRUE, nit_pid |-> n, sids |-> {1}] : n \in {NitPid, 31}}
MCScanSdts == {[tsid0 |-> z, types |-> 1 :> 1 @@ 2 :> 173 @@ 3 :> 192] : z \in BOOLEAN}

\* The PATs move a service to the other's PMT PID and drop one.
MCSyncPats == {1 :> 101 @@ 2 :> 102 @@ 3 :> 101, 1 :> 102, 3 :> 102}
MCSyncSdts == {{1, 2, 3}, {1}}
MCSyncPcrPids == {201, 202, NullPid}

\* The clocks of the two PCR PIDs have different origins and do not wrap around.
MCOrigins == {201 :> 0 @@ 202 :> 6}

=============================================================================
