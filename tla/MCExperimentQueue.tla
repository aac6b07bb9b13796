-------------------------- MODULE MCExperimentQueue --------------------------
(***************************************************************************)
(* A small instance of ExperimentQueue for TLC.                            *)
(***************************************************************************)
EXTENDS ExperimentQueue, TLC

CONSTANTS h1, h2, c1, c2

MCRuns       == 1..2
MCPriorities == 0..1
MCHosts      == {h1, h2}
MCCalls      == {c1, c2}

\* Replicas differ in nothing but their clocks, calls in nothing at all.
Symmetric == Permutations(MCHosts) \cup Permutations(MCCalls)
=============================================================================
