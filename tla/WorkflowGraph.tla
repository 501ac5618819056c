--------------------------- MODULE WorkflowGraph ---------------------------
(***************************************************************************)
(* The workflow graph a run config declares under `pipeline`: Pipeline's   *)
(* step loop driving PromptStageNodes, with conditional transitions, their *)
(* round ceilings and the resume checkpoint.                               *)
(*                                                                         *)
(* Stages are numbered in pipeline order.  A decision stage (one with      *)
(* accept_if_contains) has one transition, the last the config declares    *)
(* for it; no other stage ever jumps.  A graph of PromptStageNodes has no  *)
(* ContextGuardNode, so the RESET signal does not occur (AgentSessions has *)
(* it).                                                                    *)
(*                                                                         *)
(* Abstractions.  A reply is empty, accepting or any other text; the n-th  *)
(* text of a stage is the number n; a thread is the newest text of another *)
(* stage it has been given, the only part two stages share.                *)
(***************************************************************************)
EXTENDS Naturals, Sequences

CONSTANTS
  Stages,       \* how many stages the pipeline has
  Decider,      \* the stages with accept_if_contains
  JumpTarget,   \* JumpTarget[d]: the target of d's transition
  MaxRounds,    \* MaxRounds[d]: its max_rounds, or Unbounded
  ReceivesFrom, \* ReceivesFrom[n]: the stage n listens to, or Nobody
  MaxSteps,     \* run.max_steps
  Unbounded, Nobody

Stage == 1 .. Stages

(* Pipeline._validate_transitions: a transition to this stage or an earlier  *)
(* one closes a loop, and every loop has a ceiling.                          *)
ValidTransitions ==
  \A d \in Decider : JumpTarget[d] <= d => MaxRounds[d] # Unbounded

ASSUME GraphAssumption ==
  /\ Stages \in Nat \ {0}
  /\ Decider \subseteq Stage
  /\ JumpTarget \in [Decider -> Stage]
  /\ Unbounded \notin Nat
  /\ MaxRounds \in [Decider -> Nat \cup {Unbounded}]
  /\ Nobody \notin Stage
  /\ ReceivesFrom \in [Stage -> Stage \cup {Nobody}]
  /\ MaxSteps \in Nat
  /\ ValidTransitions

VARIABLES
  pc,       \* where Pipeline.execute stands
  idx,      \* the stage run_step is at, or is to start from
  signal,   \* ctx.signal, as the pass that just ended left it
  step,     \* ctx.step_num
  stop,     \* ctx.stop_reason
  rounds,   \* ctx.round_counters
  replies,  \* replies[n]: how many texts stage n has put into node_outputs
  given,    \* given[n]: the newest text stage n has received from another
  events,   \* the transition events of events.jsonl
  ckpt      \* the checkpoint: [step, rounds], or None before the first

vars == <<pc, idx, signal, step, stop, rounds, replies, given, events, ckpt>>

(***************************************************************************)
(*   loop      at the while test                                           *)
(*   stage     run_step is about to run stage idx                          *)
(*   jump      stage idx asked for its transition                          *)
(*   save      the pass ended with CONTINUE or STOP: checkpoint_fn is next *)
(*   returned  execute() returned                                          *)
(*   raised    execute() raised (LLM failure, Ctrl-C, a failed write)      *)
(***************************************************************************)
Place == {"loop", "stage", "jump", "save", "returned", "raised"}
StopReason == {"max_steps", "stop", "loop_bound", "llm_failure", "aborted"}
Event == [source: Decider, round: Nat, outcome: {"jump", "bound_exhausted"}]

None == [saved |-> FALSE, step |-> 0, rounds |-> [d \in Decider |-> 0]]

TypeOK ==
  /\ pc \in Place
  /\ idx \in Stage
  /\ signal \in {"CONTINUE", "STOP"}
  /\ step \in Nat
  /\ stop \in StopReason
  /\ rounds \in [Decider -> Nat]
  /\ replies \in [Stage -> Nat]
  /\ given \in [Stage -> Nat]
  /\ events \in Seq(Event)
  /\ ckpt \in [saved: BOOLEAN, step: Nat, rounds: [Decider -> Nat]]
  /\ pc = "jump" => idx \in Decider

Init ==
  /\ pc = "loop" /\ idx = 1 /\ signal = "CONTINUE"
  /\ step = 0 /\ stop = "max_steps"
  /\ rounds = [d \in Decider |-> 0]
  /\ replies = [n \in Stage |-> 0]
  /\ given = [n \in Stage |-> 0]
  /\ events = <<>>
  /\ ckpt = None

-----------------------------------------------------------------------------
(* Faulty variants of the definitions below, never used by the specification. *)

CeilingOffByOne(d) == MaxRounds[d] # Unbounded /\ rounds[d] > MaxRounds[d]

ReceivesOnce(n) ==
  IF ReceivesFrom[n] = Nobody \/ given[n] # 0 THEN given[n]
  ELSE replies[ReceivesFrom[n]]

RecordsRoundBefore(d, round, outcome) ==
  events' = Append(events, [source |-> d, round |-> rounds[d], outcome |-> outcome])

JumpsPastLoopTest(d) ==
  /\ pc = "jump" /\ idx = d
  /\ ~(MaxRounds[d] # Unbounded /\ rounds[d] >= MaxRounds[d])
  /\ rounds' = [rounds EXCEPT ![d] = @ + 1]
  /\ pc' = "stage" /\ idx' = JumpTarget[d]
  /\ UNCHANGED <<signal, step, stop, replies, given, events, ckpt>>

AcceptKeepsReason(n) ==
  /\ n \in Decider
  /\ pc = "stage" /\ idx = n
  /\ step' = step + 1
  /\ replies' = [replies EXCEPT ![n] = @ + 1]
  /\ pc' = "save" /\ signal' = "STOP"
  /\ UNCHANGED <<idx, stop, rounds, given, events, ckpt>>

EmptyReplyCostsNothing(n) ==
  /\ pc = "stage" /\ idx = n
  /\ IF n < Stages THEN idx' = n + 1 /\ pc' = "stage"
                   ELSE idx' = 1 /\ pc' = "loop"
  /\ UNCHANGED <<signal, step, stop, rounds, replies, given, events, ckpt>>

RunsOnePastTheLast(n) ==
  /\ IF n <= Stages THEN idx' = n + 1 /\ pc' = "stage"
                    ELSE idx' = n /\ pc' = "save"
  /\ signal' = "CONTINUE"
  /\ UNCHANGED <<stop, rounds, events, ckpt>>

-----------------------------------------------------------------------------
(* The while test: once per pass, not once per stage. *)
LoopTest ==
  /\ pc = "loop"
  /\ pc' = IF step < MaxSteps THEN "stage" ELSE "returned"
  /\ UNCHANGED <<idx, signal, step, stop, rounds, replies, given, events, ckpt>>

(* What stage n's thread holds of another stage when n makes its call. *)
Received(n) ==
  IF ReceivesFrom[n] = Nobody \/ replies[ReceivesFrom[n]] = 0 THEN given[n]
  ELSE replies[ReceivesFrom[n]]

(* PromptStageNode.run up to the reply: the step counts whatever comes back. *)
Call(n) ==
  /\ pc = "stage" /\ idx = n
  /\ step' = step + 1
  /\ given' = [given EXCEPT ![n] = Received(n)]

Speaks(n) == replies' = [replies EXCEPT ![n] = @ + 1]

(* run_step's CONTINUE: the next stage, or the end of the pass. *)
Continue(n) ==
  /\ IF n < Stages THEN idx' = n + 1 /\ pc' = "stage"
                   ELSE idx' = n /\ pc' = "save"
  /\ signal' = "CONTINUE"
  /\ UNCHANGED <<stop, rounds, events, ckpt>>

(* The API returned an empty message: a decision stage decides nothing. *)
StageSkips(n) ==
  /\ Call(n)
  /\ UNCHANGED replies
  /\ Continue(n)

StageGenerates(n) ==
  /\ n \notin Decider
  /\ Call(n)
  /\ Speaks(n)
  /\ Continue(n)

StageAccepts(n) ==
  /\ n \in Decider
  /\ Call(n)
  /\ Speaks(n)
  /\ pc' = "save" /\ signal' = "STOP" /\ stop' = "stop"
  /\ UNCHANGED <<idx, rounds, events, ckpt>>

StageRejects(n) ==
  /\ n \in Decider
  /\ Call(n)
  /\ Speaks(n)
  /\ pc' = "jump"
  /\ UNCHANGED <<idx, signal, stop, rounds, events, ckpt>>

(* The call never returns: the LLM fails for good, or Ctrl-C. *)
StageFails(n) ==
  /\ Call(n)
  /\ pc' = "raised" /\ stop' \in {"llm_failure", "aborted"}
  /\ UNCHANGED <<idx, signal, rounds, replies, events, ckpt>>

-----------------------------------------------------------------------------
(* Pipeline._resolve_jump. *)

Exhausted(d) == MaxRounds[d] # Unbounded /\ rounds[d] >= MaxRounds[d]

(* Only a transition with a ceiling has a counter. *)
Counts(d) == MaxRounds[d] # Unbounded

Record(d, round, outcome) ==
  events' = Append(events, [source |-> d, round |-> round, outcome |-> outcome])

(* The transition is taken: back to the loop test, without a checkpoint.   *)
(* Counter (graph.py:132) and row (134) are one step: a Ctrl-C or a failed *)
(* write between them, a round counted and in no event, is not modelled.   *)
TakeJump(d) ==
  /\ pc = "jump" /\ idx = d
  /\ ~Exhausted(d)
  /\ LET round == IF Counts(d) THEN rounds[d] + 1 ELSE 0
     IN  /\ rounds' = IF Counts(d) THEN [rounds EXCEPT ![d] = round] ELSE rounds
         /\ Record(d, round, "jump")
  /\ pc' = "loop" /\ idx' = JumpTarget[d]
  /\ UNCHANGED <<signal, step, stop, replies, given, ckpt>>

(* The ceiling is reached: STOP, again without a checkpoint. *)
RefuseJump(d) ==
  /\ pc = "jump" /\ idx = d
  /\ Exhausted(d)
  /\ Record(d, rounds[d], "bound_exhausted")
  /\ pc' = "returned" /\ signal' = "STOP" /\ stop' = "loop_bound"
  /\ UNCHANGED <<idx, step, rounds, replies, given, ckpt>>

(* The end of a pass that did not jump. *)
SaveCheckpoint ==
  /\ pc = "save"
  /\ ckpt' = [saved |-> TRUE, step |-> step, rounds |-> rounds]
  /\ pc' = IF signal = "STOP" THEN "returned" ELSE "loop"
  /\ idx' = IF signal = "STOP" THEN idx ELSE 1
  /\ UNCHANGED <<signal, step, stop, rounds, replies, given, events>>

(* Ctrl-C anywhere else in execute(), or any exception but an LLM failure. *)
BreakOff ==
  /\ pc \notin {"returned", "raised"}
  /\ pc' = "raised" /\ stop' \in {"aborted", stop}
  /\ UNCHANGED <<idx, signal, step, rounds, replies, given, events, ckpt>>

RunStage(n) ==
  \/ StageSkips(n)
  \/ StageGenerates(n)
  \/ StageAccepts(n)
  \/ StageRejects(n)
  \/ StageFails(n)

Progress ==
  \/ LoopTest
  \/ \E n \in Stage : RunStage(n)
  \/ \E d \in Decider : TakeJump(d)
  \/ \E d \in Decider : RefuseJump(d)
  \/ SaveCheckpoint

Next == Progress \/ BreakOff

Spec == Init /\ [][Next]_vars

(* Every LLM call comes back, with a reply or with an error. *)
FairSpec == Spec /\ WF_vars(Progress)

-----------------------------------------------------------------------------
(* Properties. *)

Over == pc \in {"returned", "raised"}

(* "a hard per-loop round ceiling" (graph.py:6): no loop is taken more often *)
(* than its transition declares, however its passes end and start again.     *)
RoundsBounded ==
  \A d \in Decider : Counts(d) => rounds[d] <= MaxRounds[d]

(* The step ceiling is tested once per pass, so a run may go past it, but    *)
(* never by more than the stages one pass has left after its first.          *)
OvershootBounded == step <= MaxSteps + Stages - 1

JumpsOf(d) == {i \in 1 .. Len(events) : events[i].source = d /\ events[i].outcome = "jump"}

(* "a run's round count and each round's outcome are reconstructible from    *)
(* events.jsonl alone" (ARCHITECTURE.md:164): the jumps recorded of a        *)
(* transition are its rounds, in order, and a run stopped at a ceiling has   *)
(* said so, once, as its last event.                                         *)
EventsTellRounds ==
  /\ \A d \in Decider : Counts(d) =>
       /\ \A i \in JumpsOf(d) : events[i].round \in 1 .. rounds[d]
       /\ \A k \in 1 .. rounds[d] : \E i \in JumpsOf(d) : events[i].round = k
       /\ \A i, j \in JumpsOf(d) : i < j => events[i].round < events[j].round
  /\ \A i \in 1 .. Len(events) :
       events[i].outcome = "bound_exhausted" =>
         i = Len(events) /\ stop = "loop_bound" /\ events[i].round = MaxRounds[events[i].source]

(* What a run says of its end is so: max_steps only with the steps spent,    *)
(* loop_bound only with a transition at its ceiling, stop only from a        *)
(* decision stage.                                                           *)
StopReasonIsTrue ==
  pc = "returned" =>
    \/ stop = "max_steps" /\ step >= MaxSteps
    \/ stop = "loop_bound" /\ idx \in Decider /\ rounds[idx] = MaxRounds[idx]
    \/ stop = "stop" /\ idx \in Decider /\ replies[idx] > 0

(* A decision stage that accepts has been given the newest text of the stage *)
(* it listens to, through every round it has rejected before.                *)
AcceptsTheNewest ==
  pc = "returned" /\ stop = "stop" /\ ReceivesFrom[idx] \notin {Nobody, idx}
    => given[idx] = replies[ReceivesFrom[idx]]

(* "Persists through the checkpoint so a resumed looping run cannot exceed   *)
(* its bound" (context.py:66): when the LLM fails for good, the rounds taken *)
(* are on disk.                                                              *)
FailureKeepsRounds ==
  pc = "raised" /\ stop = "llm_failure" => ckpt.rounds = rounds

(* "every loop the graph can express is guaranteed to terminate"             *)
(* (graph.py:8).                                                             *)
Terminates == <>Over

=============================================================================
