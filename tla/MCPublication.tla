---------------------------- MODULE MCPublication ----------------------------
(* Instances of DumpPublication for TLC: some of the processes take part, and  *)
(* so much goes wrong.                                                        *)
EXTENDS DumpPublication

CONSTANTS
  Parties,    \* the sets of processes that take part together
  MaxFaults   \* bound: failures, kills and power losses

VARIABLES party, faults

MCParties == {{"r1", "r2"}, {"r1", "d1"}, {"r2", "d1"}, {"d1", "d2"}}

MCInit == DumpInit /\ party \in Parties /\ faults = 0
MCNext ==
  /\ UNCHANGED party
  /\ \/ (\E p \in party : Works(p)) /\ UNCHANGED faults
     \/ /\ faults < MaxFaults /\ faults' = faults + 1
        /\ (\E p \in party : Breaks(p)) \/ MachineStops

MCSpec == MCInit /\ [][MCNext]_<<dumpVars, party, faults>>
=============================================================================
