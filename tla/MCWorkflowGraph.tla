-------------------------- MODULE MCWorkflowGraph --------------------------
(* A graph of five stages for TLC.  Stage 1 drafts and 5 judges, sending it *)
(* back to 1; 2 may send a draft ahead to 4 without a ceiling; 3, reached   *)
(* when 2 says nothing, repeats itself; 4 rewrites what 1 wrote.            *)
EXTENDS WorkflowGraph

MCDecider == {2, 3, 5}

MCJumpTarget == [d \in MCDecider |-> CASE d = 2 -> 4 [] d = 3 -> 3 [] d = 5 -> 1]

MCMaxRounds ==
  [d \in MCDecider |-> CASE d = 2 -> Unbounded [] d = 3 -> 1 [] d = 5 -> 2]

MCReceivesFrom ==
  [n \in 1 .. 5 |-> CASE n = 1 -> 5 [] n = 2 -> 1 [] n = 3 -> Nobody [] n = 4 -> 1
                      [] n = 5 -> 4]

=============================================================================
