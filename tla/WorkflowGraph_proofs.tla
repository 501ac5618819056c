----------------------- MODULE WorkflowGraph_proofs -----------------------
(***************************************************************************)
(* Proofs about WorkflowGraph, for every graph a config may declare and    *)
(* every step ceiling.                                                     *)
(***************************************************************************)
EXTENDS WorkflowGraph, TLAPS

(* A pass starts below the step ceiling and runs each stage at most once:   *)
(* that many steps past the ceiling it can be, and no more.                  *)
StepsOfThePass ==
  /\ pc = "stage" => step <= MaxSteps + idx - 2
  /\ pc # "stage" => step <= MaxSteps + Stages - 1

(* The stop reason is settled in the step that ends the run, not before.    *)
StopReasonSettled ==
  /\ pc \in {"loop", "stage", "jump"} => stop = "max_steps" /\ signal = "CONTINUE"
  /\ pc = "save" /\ signal = "CONTINUE" => stop = "max_steps"
  /\ pc = "save" /\ signal = "STOP" =>
       stop = "stop" /\ idx \in Decider /\ replies[idx] > 0

IInv ==
  /\ TypeOK
  /\ RoundsBounded
  /\ StepsOfThePass
  /\ StopReasonSettled
  /\ StopReasonIsTrue

LEMMA InitInv == Init => IInv
<1> SUFFICES ASSUME Init PROVE IInv
  OBVIOUS
<1> USE GraphAssumption
<1>1. TypeOK
  <2>1. 1 \in Stage
    BY SMT DEF Stage
  <2>2. events \in Seq(Event)
    BY DEF Init
  <2> QED BY <2>1, <2>2, SMT DEF Init, TypeOK, Place, StopReason, None
<1>2. RoundsBounded
  BY SMT DEF Init, RoundsBounded, Counts
<1>3. StepsOfThePass
  BY SMT DEF Init, StepsOfThePass
<1>4. StopReasonSettled /\ StopReasonIsTrue
  BY DEF Init, StopReasonSettled, StopReasonIsTrue
<1> QED BY <1>1, <1>2, <1>3, <1>4 DEF IInv

(* A stage's call, up to what the reply decides. *)
LEMMA CallType ==
  ASSUME TypeOK, NEW n \in Stage, Call(n)
  PROVE  /\ step' \in Nat /\ step' = step + 1
         /\ given' \in [Stage -> Nat]
         /\ Speaks(n) => replies' \in [Stage -> Nat] /\ replies'[n] > 0
<1>1. step' \in Nat /\ step' = step + 1
  BY SMT DEF TypeOK, Call
<1>2. Received(n) \in Nat
  BY GraphAssumption DEF TypeOK, Received
<1>3. given' \in [Stage -> Nat]
  BY <1>2 DEF TypeOK, Call
<1>4. Speaks(n) => replies' \in [Stage -> Nat] /\ replies'[n] > 0
  BY SMT DEF TypeOK, Speaks
<1> QED BY <1>1, <1>3, <1>4

LEMMA StageInv ==
  ASSUME IInv, NEW n \in Stage, RunStage(n)
  PROVE  IInv'
<1> USE GraphAssumption
<1>1. /\ pc = "stage" /\ idx = n /\ Call(n)
      /\ step \in Nat /\ step <= MaxSteps + n - 2
      /\ n \in Nat /\ 1 <= n /\ n <= Stages
      /\ stop = "max_steps" /\ signal = "CONTINUE"
  <2>1. pc = "stage" /\ idx = n /\ Call(n)
    BY DEF RunStage, StageSkips, StageGenerates, StageAccepts, StageRejects, StageFails, Call
  <2>2. /\ step \in Nat /\ step <= MaxSteps + n - 2
        /\ stop = "max_steps" /\ signal = "CONTINUE"
    BY <2>1, SMT DEF IInv, TypeOK, StepsOfThePass, StopReasonSettled
  <2> QED BY <2>1, <2>2, SMT DEF Stage
<1>2. /\ step' \in Nat /\ step' = step + 1
      /\ given' \in [Stage -> Nat]
      /\ Speaks(n) => replies' \in [Stage -> Nat] /\ replies'[n] > 0
  BY <1>1, CallType DEF IInv
<1>3. UNCHANGED <<rounds, events, ckpt>>
  BY DEF RunStage, StageSkips, StageGenerates, StageAccepts, StageRejects, StageFails,
         Continue
<1>4. RoundsBounded'
  BY <1>3 DEF IInv, RoundsBounded
<1>5. replies' \in [Stage -> Nat]
  BY <1>2 DEF IInv, TypeOK, RunStage, StageSkips, StageGenerates, StageAccepts,
              StageRejects, StageFails
<1>6. CASE Continue(n)
  <2>1. \/ idx' = n + 1 /\ pc' = "stage" /\ n < Stages
        \/ idx' = n /\ pc' = "save"
    BY <1>6 DEF Continue
  <2>2. idx' \in Stage /\ signal' = "CONTINUE" /\ stop' = "max_steps"
    BY <2>1, <1>1, <1>6, SMT DEF Continue, Stage
  <2>3. TypeOK'
    BY <1>2, <1>3, <1>5, <2>1, <2>2 DEF IInv, TypeOK, Place, StopReason
  <2>4. StepsOfThePass'
    BY <1>1, <1>2, <2>1, SMT DEF StepsOfThePass
  <2>5. StopReasonSettled' /\ StopReasonIsTrue'
    BY <2>1, <2>2 DEF StopReasonSettled, StopReasonIsTrue
  <2> QED BY <1>4, <2>3, <2>4, <2>5 DEF IInv
<1>7. CASE StageAccepts(n)
  <2>1. /\ pc' = "save" /\ signal' = "STOP" /\ stop' = "stop" /\ idx' = n
        /\ n \in Decider /\ Speaks(n)
    BY <1>1, <1>7 DEF StageAccepts
  <2>2. TypeOK'
    BY <1>2, <1>3, <1>5, <2>1 DEF IInv, TypeOK, Place, StopReason
  <2>3. StepsOfThePass'
    BY <1>1, <1>2, <2>1, SMT DEF StepsOfThePass
  <2>4. StopReasonSettled' /\ StopReasonIsTrue'
    BY <1>2, <2>1 DEF StopReasonSettled, StopReasonIsTrue
  <2> QED BY <1>4, <2>2, <2>3, <2>4 DEF IInv
<1>8. CASE StageRejects(n)
  <2>1. /\ pc' = "jump" /\ signal' = signal /\ stop' = stop /\ idx' = n
        /\ n \in Decider
    BY <1>1, <1>8 DEF StageRejects
  <2>2. TypeOK'
    BY <1>2, <1>3, <1>5, <2>1 DEF IInv, TypeOK, Place
  <2>3. StepsOfThePass'
    BY <1>1, <1>2, <2>1, SMT DEF StepsOfThePass
  <2>4. StopReasonSettled' /\ StopReasonIsTrue'
    BY <1>1, <2>1 DEF StopReasonSettled, StopReasonIsTrue
  <2> QED BY <1>4, <2>2, <2>3, <2>4 DEF IInv
<1>9. CASE StageFails(n)
  <2>1. /\ pc' = "raised" /\ signal' = signal /\ idx' = n
        /\ stop' \in {"llm_failure", "aborted"}
    BY <1>1, <1>9 DEF StageFails
  <2>2. TypeOK'
    BY <1>2, <1>3, <1>5, <2>1 DEF IInv, TypeOK, Place, StopReason
  <2>3. StepsOfThePass'
    BY <1>1, <1>2, <2>1, SMT DEF StepsOfThePass
  <2>4. StopReasonSettled' /\ StopReasonIsTrue'
    BY <2>1 DEF StopReasonSettled, StopReasonIsTrue
  <2> QED BY <1>4, <2>2, <2>3, <2>4 DEF IInv
<1> QED
  BY <1>6, <1>7, <1>8, <1>9 DEF RunStage, StageSkips, StageGenerates

LEMMA JumpInv ==
  ASSUME IInv, NEW d \in Decider, TakeJump(d) \/ RefuseJump(d)
  PROVE  IInv'
<1> USE GraphAssumption
<1>1. /\ pc = "jump" /\ idx = d /\ d \in Stage /\ rounds[d] \in Nat
      /\ step <= MaxSteps + Stages - 1 /\ stop = "max_steps" /\ signal = "CONTINUE"
      /\ UNCHANGED <<step, replies, given, ckpt>>
  BY DEF IInv, TypeOK, StepsOfThePass, StopReasonSettled, TakeJump, RefuseJump
<1>2. CASE TakeJump(d)
  <2> DEFINE round == IF Counts(d) THEN rounds[d] + 1 ELSE 0
  <2>1. /\ pc' = "loop" /\ idx' = JumpTarget[d] /\ signal' = signal /\ stop' = stop
        /\ rounds' = IF Counts(d) THEN [rounds EXCEPT ![d] = round] ELSE rounds
        /\ events' = Append(events, [source |-> d, round |-> round, outcome |-> "jump"])
    BY <1>2 DEF TakeJump, Record
  <2>2. round \in Nat
    BY <1>1, SMT
  <2>3. rounds' \in [Decider -> Nat]
    BY <2>1, <2>2 DEF IInv, TypeOK
  <2>4. [source |-> d, round |-> round, outcome |-> "jump"] \in Event
    BY <2>2, SMT DEF Event
  <2>5. events' \in Seq(Event)
    BY <2>1, <2>4, SMT DEF IInv, TypeOK
  <2>6. TypeOK'
    BY <1>1, <2>1, <2>3, <2>5 DEF IInv, TypeOK, Place
  <2>7. RoundsBounded'
    <3> SUFFICES ASSUME NEW e \in Decider, Counts(e) PROVE rounds'[e] <= MaxRounds[e]
      BY DEF RoundsBounded, Counts
    <3>1. CASE e = d
      <4>1. MaxRounds[d] \in Nat /\ ~(rounds[d] >= MaxRounds[d])
        BY <1>2, <3>1 DEF TakeJump, Exhausted, Counts
      <4>2. rounds'[d] = rounds[d] + 1
        BY <2>1, <3>1 DEF IInv, TypeOK
      <4> QED BY <1>1, <3>1, <4>1, <4>2, SMT
    <3>2. CASE e # d
      BY <2>1, <3>2 DEF IInv, TypeOK, RoundsBounded
    <3> QED BY <3>1, <3>2
  <2>8. StepsOfThePass' /\ StopReasonSettled' /\ StopReasonIsTrue'
    BY <1>1, <2>1 DEF StepsOfThePass, StopReasonSettled, StopReasonIsTrue
  <2> QED BY <2>6, <2>7, <2>8 DEF IInv
<1>3. CASE RefuseJump(d)
  <2>1. /\ pc' = "returned" /\ idx' = d /\ signal' = "STOP" /\ stop' = "loop_bound"
        /\ rounds' = rounds
        /\ events' = Append(events, [source |-> d, round |-> rounds[d],
                                     outcome |-> "bound_exhausted"])
    BY <1>1, <1>3 DEF RefuseJump, Record
  <2>2. [source |-> d, round |-> rounds[d], outcome |-> "bound_exhausted"] \in Event
    BY <1>1, SMT DEF Event
  <2>3. events' \in Seq(Event)
    BY <2>1, <2>2, SMT DEF IInv, TypeOK
  <2>4. TypeOK'
    BY <1>1, <2>1, <2>3 DEF IInv, TypeOK, Place, StopReason
  <2>5. RoundsBounded'
    BY <2>1 DEF IInv, RoundsBounded
  <2>6. rounds[d] = MaxRounds[d]
    <3>1. Counts(d) /\ MaxRounds[d] \in Nat /\ rounds[d] >= MaxRounds[d]
      BY <1>3 DEF RefuseJump, Exhausted, Counts
    <3>2. rounds[d] <= MaxRounds[d]
      BY <3>1 DEF IInv, RoundsBounded
    <3> QED BY <1>1, <3>1, <3>2, SMT
  <2>7. StepsOfThePass' /\ StopReasonSettled' /\ StopReasonIsTrue'
    BY <1>1, <2>1, <2>6 DEF StepsOfThePass, StopReasonSettled, StopReasonIsTrue
  <2> QED BY <2>4, <2>5, <2>7 DEF IInv
<1> QED BY <1>2, <1>3

LEMMA StepInv == IInv /\ [Next]_vars => IInv'
<1> SUFFICES ASSUME IInv, [Next]_vars PROVE IInv'
  OBVIOUS
<1> USE GraphAssumption
<1>1. CASE LoopTest
  <2>1. /\ pc = "loop" /\ UNCHANGED <<idx, signal, step, stop, rounds, replies, given,
                                      events, ckpt>>
        /\ \/ pc' = "stage" /\ step < MaxSteps
           \/ pc' = "returned" /\ ~(step < MaxSteps)
    BY <1>1 DEF LoopTest
  <2>2. TypeOK' /\ RoundsBounded'
    BY <2>1 DEF IInv, TypeOK, RoundsBounded, Place
  <2>3. step \in Nat /\ idx \in Nat /\ idx >= 1 /\ stop = "max_steps"
    BY <2>1, SMT DEF IInv, TypeOK, StopReasonSettled, Stage
  <2>4. StepsOfThePass'
    BY <2>1, <2>3, SMT DEF IInv, StepsOfThePass
  <2>5. StopReasonSettled'
    BY <2>1 DEF IInv, StopReasonSettled
  <2>6. StopReasonIsTrue'
    BY <2>1, <2>3, SMT DEF StopReasonIsTrue
  <2> QED BY <2>2, <2>4, <2>5, <2>6 DEF IInv
<1>2. ASSUME NEW n \in Stage, RunStage(n) PROVE IInv'
  BY <1>2, StageInv
<1>3. ASSUME NEW d \in Decider, TakeJump(d) \/ RefuseJump(d) PROVE IInv'
  BY <1>3, JumpInv
<1>4. CASE SaveCheckpoint
  <2>1. /\ pc = "save"
        /\ ckpt' = [saved |-> TRUE, step |-> step, rounds |-> rounds]
        /\ \/ signal = "STOP" /\ pc' = "returned" /\ idx' = idx
           \/ signal = "CONTINUE" /\ pc' = "loop" /\ idx' = 1
        /\ UNCHANGED <<signal, step, stop, rounds, replies, given, events>>
    BY <1>4 DEF SaveCheckpoint, IInv, TypeOK
  <2>2. 1 \in Stage
    BY SMT DEF Stage
  <2>3. ckpt' \in [saved: BOOLEAN, step: Nat, rounds: [Decider -> Nat]]
    BY <2>1, SMT DEF IInv, TypeOK
  <2>4. TypeOK' /\ RoundsBounded'
    BY <2>1, <2>2, <2>3 DEF IInv, TypeOK, RoundsBounded, Place
  <2>5. StepsOfThePass' /\ StopReasonSettled' /\ StopReasonIsTrue'
    BY <2>1 DEF IInv, StepsOfThePass, StopReasonSettled, StopReasonIsTrue
  <2> QED BY <2>4, <2>5 DEF IInv
<1>5. CASE BreakOff
  <2>1. /\ pc' = "raised" /\ stop' \in {"aborted", stop}
        /\ UNCHANGED <<idx, signal, step, rounds, replies, given, events, ckpt>>
    BY <1>5 DEF BreakOff
  <2>2. TypeOK' /\ RoundsBounded'
    BY <2>1 DEF IInv, TypeOK, RoundsBounded, Place, StopReason
  <2>3. StepsOfThePass'
    <3>1. step \in Nat /\ idx \in Nat /\ idx <= Stages
      BY SMT DEF IInv, TypeOK, Stage
    <3> QED BY <2>1, <3>1, SMT DEF IInv, StepsOfThePass
  <2>4. StopReasonSettled' /\ StopReasonIsTrue'
    BY <2>1 DEF StopReasonSettled, StopReasonIsTrue
  <2> QED BY <2>2, <2>3, <2>4 DEF IInv
<1>6. CASE UNCHANGED vars
  BY <1>6 DEF vars, IInv, TypeOK, RoundsBounded, StepsOfThePass, StopReasonSettled,
              StopReasonIsTrue
<1> QED BY <1>1, <1>2, <1>3, <1>4, <1>5, <1>6 DEF Next, Progress

(* What a run's rounds, counters and stop reason keep to in every state    *)
(* of Pipeline.execute's loop: the properties below are parts of it.       *)
THEOREM Inductive == Spec => []IInv
BY InitInv, StepInv, PTL DEF Spec

(* Every variable stays in its type, for any graph, budget and ceilings.   *)
THEOREM TypeCorrect == Spec => []TypeOK
<1>1. IInv => TypeOK
  BY DEF IInv
<1> QED BY <1>1, Inductive, PTL

(* No loop of any graph is taken more often than its transition declares. *)
THEOREM LoopsBounded == Spec => []RoundsBounded
<1>1. IInv => RoundsBounded
  BY DEF IInv
<1> QED BY <1>1, Inductive, PTL

(* A graph of n stages makes at most n - 1 LLM steps more than max_steps. *)
THEOREM Overshoot == Spec => []OvershootBounded
<1>1. IInv => OvershootBounded
  <2> SUFFICES ASSUME IInv PROVE OvershootBounded
    OBVIOUS
  <2>1. step \in Nat /\ idx \in Nat /\ idx <= Stages
    BY SMT DEF IInv, TypeOK, Stage
  <2> QED BY <2>1, GraphAssumption, SMT DEF IInv, StepsOfThePass, OvershootBounded
<1> QED BY <1>1, Inductive, PTL

(* The stop reason a run returns with is the reason it stopped. *)
THEOREM HonestStop == Spec => []StopReasonIsTrue
<1>1. IInv => StopReasonIsTrue
  BY DEF IInv
<1> QED BY <1>1, Inductive, PTL

-----------------------------------------------------------------------------
(* An exhausted ceiling is recorded in the step that ends the run. *)
EventsSettled ==
  /\ EventsTellRounds
  /\ (\E i \in 1 .. Len(events) : events[i].outcome = "bound_exhausted") => Over

(* What a stage has been given, the stage it listens to has said; and a      *)
(* decision stage about to end the run has been given the newest of it.      *)
HeardNewest ==
  ReceivesFrom[idx] \notin {Nobody, idx} => given[idx] = replies[ReceivesFrom[idx]]
Heard ==
  /\ \A n \in Stage : ReceivesFrom[n] # Nobody => given[n] <= replies[ReceivesFrom[n]]
  /\ pc = "save" /\ signal = "STOP" => HeardNewest
  /\ pc = "returned" /\ stop = "stop" => HeardNewest

(* The events are those of before, with one more at the end. *)
LEMMA AppendFacts ==
  ASSUME events \in Seq(Event), NEW e \in Event, events' = Append(events, e)
  PROVE  /\ Len(events) \in Nat /\ Len(events)' = Len(events) + 1
         /\ \A i \in 1 .. Len(events) : events'[i] = events[i]
         /\ events'[Len(events) + 1] = e
         /\ \A i \in 1 .. Len(events)' : i \in 1 .. Len(events) \/ i = Len(events) + 1
BY SMT

LEMMA JumpEvents ==
  ASSUME IInv, EventsSettled, NEW d \in Decider, TakeJump(d)
  PROVE  EventsSettled'
<1> DEFINE round == IF Counts(d) THEN rounds[d] + 1 ELSE 0
           e == [source |-> d, round |-> round, outcome |-> "jump"]
           n == Len(events)
<1>1. /\ pc = "jump" /\ stop' = stop
      /\ rounds' = IF Counts(d) THEN [rounds EXCEPT ![d] = round] ELSE rounds
      /\ events' = Append(events, e)
  BY DEF TakeJump, Record
<1>2. rounds[d] \in Nat /\ round \in Nat /\ events \in Seq(Event) /\ rounds \in [Decider -> Nat]
  BY SMT DEF IInv, TypeOK
<1>3. e \in Event
  BY <1>2 DEF Event
<1>4. /\ n \in Nat /\ Len(events)' = n + 1
      /\ \A i \in 1 .. n : events'[i] = events[i]
      /\ events'[n + 1] = e
      /\ \A i \in 1 .. Len(events)' : i \in 1 .. n \/ i = n + 1
  <2> HIDE DEF e
  <2> QED BY <1>1, <1>2, <1>3, AppendFacts
<1>5. e.source = d /\ e.round = round /\ e.outcome = "jump"
  OBVIOUS
<1> HIDE DEF e, n, round
<1>6. \A i \in 1 .. n : events[i].outcome # "bound_exhausted"
  BY <1>1 DEF EventsSettled, Over, n
<1>7. \A i \in 1 .. Len(events)' : events'[i].outcome # "bound_exhausted"
  BY <1>4, <1>5, <1>6
<1>8. ASSUME NEW c \in Decider, c # d
      PROVE  JumpsOf(c)' = JumpsOf(c) /\ rounds'[c] = rounds[c]
  <2>1. \A i : i \in JumpsOf(c)' <=> i \in JumpsOf(c)
    BY <1>4, <1>5, <1>8 DEF JumpsOf, n
  <2>2. rounds'[c] = rounds[c]
    BY <1>1, <1>2, <1>8
  <2> QED BY <2>1, <2>2
<1>9. JumpsOf(d)' = JumpsOf(d) \cup {n + 1}
  <2>1. \A i : i \in JumpsOf(d)' <=> i \in JumpsOf(d) \/ i = n + 1
    BY <1>4, <1>5 DEF JumpsOf, n
  <2> QED BY <2>1
<1>10. ASSUME NEW c \in Decider, Counts(c)
       PROVE  /\ \A i \in JumpsOf(c)' : events'[i].round \in 1 .. rounds'[c]
              /\ \A k \in 1 .. rounds'[c] : \E i \in JumpsOf(c)' : events'[i].round = k
              /\ \A i, j \in JumpsOf(c)' : i < j => events'[i].round < events'[j].round
  <2>1. /\ \A i \in JumpsOf(c) : i \in 1 .. n /\ events'[i] = events[i]
        /\ \A i \in JumpsOf(c) : events[i].round \in 1 .. rounds[c]
        /\ \A k \in 1 .. rounds[c] : \E i \in JumpsOf(c) : events[i].round = k
        /\ \A i, j \in JumpsOf(c) : i < j => events[i].round < events[j].round
    BY <1>4, <1>10 DEF EventsSettled, EventsTellRounds, JumpsOf, n
  <2>2. CASE c # d
    BY <1>8, <2>1, <2>2
  <2>3. CASE c = d
    <3>1. rounds'[d] = rounds[d] + 1 /\ events'[n + 1].round = rounds[d] + 1
      BY <1>1, <1>2, <1>4, <1>5, <1>10, <2>3 DEF round
    <3>2. \A i \in JumpsOf(d)' : events'[i].round \in 1 .. rounds'[d]
      BY <1>2, <1>9, <2>1, <2>3, <3>1
    <3>3. ASSUME NEW k \in 1 .. rounds'[d]
          PROVE  \E i \in JumpsOf(d)' : events'[i].round = k
      <4>1. k \in 1 .. rounds[d] \/ k = rounds[d] + 1
        BY <1>2, <3>1
      <4> QED BY <1>9, <2>1, <2>3, <3>1, <4>1
    <3>4. ASSUME NEW i \in JumpsOf(d)', NEW j \in JumpsOf(d)', i < j
          PROVE  events'[i].round < events'[j].round
      <4>1. i \in JumpsOf(d)
        BY <1>4, <1>9, <2>1, <2>3, <3>4
      <4>2. CASE j \in JumpsOf(d)
        BY <2>1, <2>3, <3>4, <4>1, <4>2
      <4>3. CASE j = n + 1
        BY <1>2, <2>1, <2>3, <3>1, <4>1, <4>3
      <4> QED BY <1>9, <4>2, <4>3
    <3> QED BY <2>3, <3>2, <3>3, <3>4
  <2> QED BY <2>2, <2>3
<1> QED BY <1>7, <1>10 DEF EventsSettled, EventsTellRounds, Counts

LEMMA RefuseEvents ==
  ASSUME IInv, EventsSettled, NEW d \in Decider, RefuseJump(d)
  PROVE  EventsSettled'
<1> DEFINE e == [source |-> d, round |-> rounds[d], outcome |-> "bound_exhausted"]
           n == Len(events)
<1>1. /\ pc = "jump" /\ pc' = "returned" /\ stop' = "loop_bound" /\ rounds' = rounds
      /\ events' = Append(events, e)
  BY DEF RefuseJump, Record
<1>2. rounds[d] \in Nat /\ events \in Seq(Event)
  BY SMT DEF IInv, TypeOK
<1>3. e \in Event
  BY <1>2 DEF Event
<1>4. /\ n \in Nat /\ Len(events)' = n + 1
      /\ \A i \in 1 .. n : events'[i] = events[i]
      /\ events'[n + 1] = e
      /\ \A i \in 1 .. Len(events)' : i \in 1 .. n \/ i = n + 1
  <2> HIDE DEF e
  <2> QED BY <1>1, <1>2, <1>3, AppendFacts
<1>5. e.source = d /\ e.round = rounds[d] /\ e.outcome = "bound_exhausted"
  OBVIOUS
<1> HIDE DEF e, n
<1>6. rounds[d] = MaxRounds[d]
  <2>1. Counts(d) /\ MaxRounds[d] \in Nat /\ rounds[d] >= MaxRounds[d]
    BY GraphAssumption DEF RefuseJump, Exhausted, Counts
  <2>2. rounds[d] <= MaxRounds[d]
    BY <2>1 DEF IInv, RoundsBounded
  <2> QED BY <1>2, <2>1, <2>2, SMT
<1>7. \A i \in 1 .. n : events[i].outcome # "bound_exhausted"
  BY <1>1 DEF EventsSettled, Over, n
<1>8. ASSUME NEW i \in 1 .. Len(events)', events'[i].outcome = "bound_exhausted"
      PROVE  i = Len(events)' /\ events'[i].round = MaxRounds[events'[i].source]
  BY <1>4, <1>5, <1>6, <1>7, <1>8
<1>9. ASSUME NEW c \in Decider
      PROVE  JumpsOf(c)' = JumpsOf(c) /\ \A i \in JumpsOf(c) : events'[i] = events[i]
  <2>1. \A i : i \in JumpsOf(c)' <=> i \in JumpsOf(c)
    BY <1>4, <1>5 DEF JumpsOf, n
  <2> QED BY <1>4, <2>1 DEF JumpsOf, n
<1>10. ASSUME NEW c \in Decider, Counts(c)
       PROVE  /\ \A i \in JumpsOf(c)' : events'[i].round \in 1 .. rounds'[c]
              /\ \A k \in 1 .. rounds'[c] : \E i \in JumpsOf(c)' : events'[i].round = k
              /\ \A i, j \in JumpsOf(c)' : i < j => events'[i].round < events'[j].round
  <2>1. /\ \A i \in JumpsOf(c) : events[i].round \in 1 .. rounds[c]
        /\ \A k \in 1 .. rounds[c] : \E i \in JumpsOf(c) : events[i].round = k
        /\ \A i, j \in JumpsOf(c) : i < j => events[i].round < events[j].round
    BY <1>10 DEF EventsSettled, EventsTellRounds
  <2>2. /\ JumpsOf(c)' = JumpsOf(c) /\ rounds'[c] = rounds[c]
        /\ \A i \in JumpsOf(c) : events'[i] = events[i]
    BY <1>1, <1>9
  <2>3. ASSUME NEW i \in JumpsOf(c)' PROVE events'[i].round \in 1 .. rounds'[c]
    BY <2>1, <2>2
  <2>4. ASSUME NEW k \in 1 .. rounds'[c] PROVE \E i \in JumpsOf(c)' : events'[i].round = k
    <3>1. PICK i \in JumpsOf(c) : events[i].round = k
      BY <2>1, <2>2
    <3> QED BY <2>2, <3>1
  <2>5. ASSUME NEW i \in JumpsOf(c)', NEW j \in JumpsOf(c)', i < j
        PROVE  events'[i].round < events'[j].round
    <3>1. i \in JumpsOf(c) /\ j \in JumpsOf(c)
      BY <2>2
    <3>2. events[i].round < events[j].round
      BY <2>1, <2>5, <3>1
    <3> QED BY <2>2, <3>1, <3>2
  <2> QED BY <2>3, <2>4, <2>5
<1>11. Over'
  BY <1>1 DEF Over
<1> QED BY <1>1, <1>8, <1>10, <1>11 DEF EventsSettled, EventsTellRounds, Counts

LEMMA EventsStep == IInv /\ EventsSettled /\ [Next]_vars => EventsSettled'
<1> SUFFICES ASSUME IInv, EventsSettled, [Next]_vars PROVE EventsSettled'
  OBVIOUS
<1>1. ASSUME UNCHANGED <<events, rounds>>,
             (stop' = stop /\ (Over => Over')) \/ ~Over
      PROVE  EventsSettled'
  <2>1. \A d : JumpsOf(d)' = JumpsOf(d)
    BY <1>1 DEF JumpsOf
  <2>2. \A i \in 1 .. Len(events) : events[i].outcome = "bound_exhausted" =>
           /\ i = Len(events) /\ stop' = "loop_bound" /\ Over'
           /\ events[i].round = MaxRounds[events[i].source]
    BY <1>1 DEF EventsSettled, EventsTellRounds, Over
  <2> QED BY <1>1, <2>1, <2>2 DEF EventsSettled, EventsTellRounds, Counts
<1>2. ASSUME NEW n \in Stage, RunStage(n) PROVE EventsSettled'
  <2>1. UNCHANGED <<events, rounds>> /\ ~Over
    BY <1>2 DEF RunStage, StageSkips, StageGenerates, StageAccepts, StageRejects, StageFails,
                Continue, Call, Over
  <2> QED BY <1>1, <2>1
<1>3. CASE LoopTest \/ SaveCheckpoint \/ BreakOff
  BY <1>1, <1>3 DEF LoopTest, SaveCheckpoint, BreakOff, Over
<1>4. CASE UNCHANGED vars
  BY <1>1, <1>4 DEF vars, Over
<1>5. ASSUME NEW d \in Decider, TakeJump(d) \/ RefuseJump(d) PROVE EventsSettled'
  BY <1>5, JumpEvents, RefuseEvents
<1> QED BY <1>2, <1>3, <1>4, <1>5 DEF Next, Progress

LEMMA HeardStep == IInv /\ Heard /\ [Next]_vars => Heard'
<1> SUFFICES ASSUME IInv, Heard, [Next]_vars PROVE Heard'
  OBVIOUS
<1>1. /\ replies \in [Stage -> Nat] /\ given \in [Stage -> Nat] /\ idx \in Stage
      /\ \A n \in Stage : ReceivesFrom[n] \in Stage \cup {Nobody}
  BY GraphAssumption DEF IInv, TypeOK
<1>2. ASSUME NEW n \in Stage, RunStage(n) PROVE Heard'
  <2>1. /\ idx = n /\ given' = [given EXCEPT ![n] = Received(n)]
        /\ replies' = replies \/ Speaks(n)
    BY <1>2 DEF RunStage, StageSkips, StageGenerates, StageAccepts, StageRejects, StageFails,
                Call
  <2>2. /\ \A m \in Stage : replies'[m] \in Nat /\ replies[m] <= replies'[m]
        /\ \A m \in Stage : m # n => replies'[m] = replies[m]
    BY <1>1, <2>1 DEF Speaks
  <2>3. /\ \A m \in Stage : given'[m] = IF m = n THEN Received(n) ELSE given[m]
        /\ ReceivesFrom[n] # Nobody => Received(n) = replies[ReceivesFrom[n]]
    <3>1. ReceivesFrom[n] # Nobody /\ replies[ReceivesFrom[n]] = 0 => given[n] = 0
      BY <1>1 DEF Heard
    <3> QED BY <1>1, <2>1, <3>1 DEF Received
  <2>4. ASSUME NEW m \in Stage, ReceivesFrom[m] # Nobody
        PROVE  given'[m] <= replies'[ReceivesFrom[m]]
    <3>1. ReceivesFrom[m] \in Stage
      BY <1>1, <2>4
    <3>2. given[m] <= replies[ReceivesFrom[m]]
      BY <2>4 DEF Heard
    <3>3. given[m] \in Nat /\ replies[ReceivesFrom[m]] \in Nat /\ replies'[ReceivesFrom[m]] \in Nat
      BY <1>1, <2>2, <3>1
    <3>4. replies[ReceivesFrom[m]] <= replies'[ReceivesFrom[m]]
      BY <2>2, <3>1
    <3> QED BY <2>3, <2>4, <3>2, <3>3, <3>4
  <2>5. pc' = "save" /\ signal' = "STOP" => HeardNewest'
    <3>1. ASSUME pc' = "save", signal' = "STOP"
          PROVE  idx' = n
      BY <1>2, <2>1, <3>1 DEF RunStage, StageSkips, StageGenerates, StageAccepts, StageRejects,
                         StageFails, Continue
    <3> QED BY <1>1, <2>2, <2>3, <3>1 DEF HeardNewest
  <2>6. pc' # "returned"
    BY <1>2 DEF RunStage, StageSkips, StageGenerates, StageAccepts, StageRejects,
                StageFails, Continue
  <2> QED BY <2>4, <2>5, <2>6 DEF Heard
<1>3. CASE LoopTest
  <2>1. stop = "max_steps"
    BY <1>3 DEF LoopTest, IInv, StopReasonSettled
  <2> QED BY <1>3, <2>1 DEF LoopTest, Heard
<1>4. CASE SaveCheckpoint
  <2>1. signal # "STOP" => stop = "max_steps" /\ pc' = "loop"
    BY <1>4 DEF SaveCheckpoint, IInv, TypeOK, StopReasonSettled
  <2> QED BY <1>4, <2>1 DEF SaveCheckpoint, Heard, HeardNewest
<1>5. ASSUME NEW d \in Decider, TakeJump(d) \/ RefuseJump(d) PROVE Heard'
  BY <1>5 DEF TakeJump, RefuseJump, Heard
<1>6. CASE BreakOff
  BY <1>6 DEF BreakOff, Heard
<1>7. CASE UNCHANGED vars
  BY <1>7 DEF vars, Heard, HeardNewest
<1> QED BY <1>2, <1>3, <1>4, <1>5, <1>6, <1>7 DEF Next, Progress

(* The transition events tell the rounds of every loop with a ceiling, in    *)
(* order and none twice, and a run stopped at a ceiling says so last.        *)
THEOREM EventsAreTrue == Spec => []EventsTellRounds
<1>1. Init => EventsSettled
  BY SMT DEF Init, EventsSettled, EventsTellRounds, JumpsOf, Over
<1>2. EventsSettled => EventsTellRounds
  BY DEF EventsSettled
<1> QED BY <1>1, <1>2, EventsStep, Inductive, PTL DEF Spec

(* A decision stage accepts what it was last sent, in whatever round.        *)
THEOREM AcceptsLatest == Spec => []AcceptsTheNewest
<1>1. Init => Heard
  <2> SUFFICES ASSUME Init PROVE Heard
    OBVIOUS
  <2>1. \A n \in Stage : ReceivesFrom[n] \in Stage \cup {Nobody}
    BY GraphAssumption
  <2> QED BY <2>1, SMT DEF Init, Heard
<1>2. Heard => AcceptsTheNewest
  BY DEF Heard, HeardNewest, AcceptsTheNewest
<1> QED BY <1>1, <1>2, HeardStep, Inductive, PTL DEF Spec

=============================================================================
