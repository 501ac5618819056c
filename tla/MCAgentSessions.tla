-------------------------- MODULE MCAgentSessions --------------------------
(* Values for the constants of AgentSessions in TLC's runs.                *)
EXTENDS AgentSessions, TLC

CONSTANTS r1, r2, r3

TwoRuns == {r1, r2}
OneRun == {r1}

AnyOpening == {"low", "high", "full"}
LowOpening == {"low"}
UnfilledOpening == {"low", "high"}

(* Runs differ only by their names. *)
RunSymmetry == Permutations(Run)

=============================================================================
