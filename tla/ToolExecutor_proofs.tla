------------------------- MODULE ToolExecutor_proofs -------------------------
(***************************************************************************)
(* A call that may change something runs alone, for every message, every   *)
(* number of workers and every schedule of the pool.                       *)
(***************************************************************************)
EXTENDS ToolExecutor, TLAPS, FiniteSetTheorems

Running == {i \in Call : st[i] = "running"}

(* The calls of a message are numbered from one. *)
LEMMA CallsAreNumbered ==
    ASSUME TypeOK
    PROVE  /\ calls \in Seq(Kinds) /\ Len(calls) \in Nat /\ Call = 1 .. Len(calls)
           /\ \A i \in Call : i \in Nat /\ calls[i] \in Kinds
<1>1. calls \in Seq(Kinds)
  BY DispatchAssumption DEF TypeOK
<1>2. Call = 1 .. Len(calls) /\ Len(calls) \in Nat
  BY <1>1 DEF Call
<1> QED
  BY <1>1, <1>2

(* The calls under way are finitely many. *)
LEMMA RunningIsFinite ==
    ASSUME TypeOK
    PROVE  IsFiniteSet(Running) /\ Cardinality(Running) \in Nat
<1>1. IsFiniteSet(1 .. Len(calls))
  BY CallsAreNumbered, FS_Interval
<1>2. IsFiniteSet(Running)
  BY <1>1, CallsAreNumbered, FS_Subset DEF Running
<1> QED
  BY <1>2, FS_CardinalityType

(* No call is under way while the main thread chooses the next one. *)
LEMMA NoneRuns ==
    ASSUME TypeOK, Progress, pc \in {"plan", "pick"}
    PROVE  \A k \in Call : st[k] \in {"finished", "waiting"}
BY CallsAreNumbered DEF TypeOK, Progress, Before, Beyond

(* While one runs in the main thread, no other does. *)
LEMMA OnlyOneRuns ==
    ASSUME TypeOK, Progress, pc = "calling"
    PROVE  \A k \in Call : k # cur => st[k] \in {"finished", "waiting"}
BY CallsAreNumbered DEF TypeOK, Progress, Before, Beyond

(* What waits for a worker is safe to overlap, wherever the main thread is. *)
LEMMA QueuedIsSafe ==
    ASSUME TypeOK, Progress, NEW i \in Call, st[i] = "queued"
    PROVE  Safe(i) /\ pc \notin {"plan", "pick", "calling"}
<1>1. pc \notin {"plan", "pick", "calling"}
  BY NoneRuns, OnlyOneRuns DEF Progress
<1>2. CASE pc = "overlap"
  <2>1. /\ \A k \in Call : k < cur => st[k] = "finished"
        /\ \A k \in Call : k > last => st[k] = "waiting"
    BY <1>2 DEF Progress, Before, Beyond
  <2>2. cur \in Nat /\ last \in Nat /\ i \in Nat
    BY CallsAreNumbered DEF TypeOK
  <2>3. i >= cur /\ i <= last
    BY <2>1, <2>2
  <2> QED
    BY <1>2, <2>3 DEF Progress
<1>3. CASE pc \in {"raised", "returned"}
  BY <1>1, <1>3 DEF Progress
<1> QED
  BY <1>1, <1>2, <1>3 DEF TypeOK

(* An invocation comes to an outcome, and the workspace stays a count. *)
LEMMA InvokeTypes ==
    ASSUME TypeOK, NEW i \in Call, NEW out \in Outcomes, Invoke(i, out)
    PROVE  /\ got' \in [Call -> [out : Outcomes \cup {"none"}, seen : Nat]]
           /\ got'[i] = [out |-> out, seen |-> world] /\ out # "none"
           /\ \A k \in Call : k # i => got'[k] = got[k]
           /\ world' \in Nat
<1> DEFINE new == [out |-> out, seen |-> world]
<1>1. new \in [out : Outcomes \cup {"none"}, seen : Nat]
  BY DEF TypeOK
<1>2. got' = [got EXCEPT ![i] = new]
  BY DEF Invoke
<1>3. got' \in [Call -> [out : Outcomes \cup {"none"}, seen : Nat]]
  BY <1>1, <1>2 DEF TypeOK
<1>4. got'[i] = new /\ \A k \in Call : k # i => got'[k] = got[k]
  BY <1>2 DEF TypeOK
<1>5. world' \in Nat
  BY DEF Invoke, TypeOK
<1>6. out # "none"
  BY DEF Outcomes, Refusals
<1> QED
  BY <1>3, <1>4, <1>5, <1>6

(* An answer is appended, and the next call is up. *)
LEMMA AppendTypes ==
    ASSUME TypeOK, cur \in Call, NEW row \in Answer, AppendResult(cur, row)
    PROVE  /\ tool_messages' \in Seq(Answer) /\ conversation' \in Seq(Answer)
           /\ cur' = cur + 1 /\ cur' \in 1 .. (Len(calls) + 1)
BY CallsAreNumbered DEF TypeOK, AppendResult

(* What a call notes keeps the marks marks. *)
LEMMA NoteTypes ==
    ASSUME TypeOK, NEW kind, NEW out, MayNote(kind) \/ ApplyProvenance(kind, out)
    PROVE  tainted' \in BOOLEAN /\ cloned' \in BOOLEAN
BY DEF TypeOK, MayNote, ApplyProvenance

(* What has been noted is never taken back, so what was reduced stays it. *)
LEMMA NotedStays ==
    ASSUME TypeOK, NEW kind, NEW out, ApplyProvenance(kind, out), calls' = calls,
           NEW i \in Call, Reduced(i)
    PROVE  Reduced(i)'
<1>1. (tainted => tainted') /\ (cloned => cloned')
  BY DEF TypeOK, MayNote, ApplyProvenance
<1> QED
  BY <1>1 DEF Reduced

(* Types are kept: one step per action. *)
LEMMA TypeStep ==
    ASSUME TypeOK, Progress, [Next]_vars
    PROVE  TypeOK'
<1>1. CASE Plan
  BY <1>1 DEF Call, TypeOK, Plan, threads, results, recorder, run
<1>2. CASE ParseError
  <2>1. [out |-> "unparsed", seen |-> world] \in Answer
    BY DEF Call, TypeOK, Answer
  <2>2. cur \in Call /\ AppendResult(cur, [out |-> "unparsed", seen |-> world])
    BY <1>2 DEF ParseError
  <2> QED
    BY <1>2, <2>1, <2>2, AppendTypes DEF Call, TypeOK, ParseError, recorder, run
<1>3. CASE Begin
  BY <1>3, CallsAreNumbered DEF Call, TypeOK, Begin, results, run
<1>4. CASE Overlap
  BY <1>4, CallsAreNumbered DEF Call, TypeOK, Overlap, results, recorder, run
<1>5. CASE End
  <2>1. cur \in Call
    BY <1>5 DEF Progress, End
  <2>2. PICK out \in Outcomes :
          /\ Invoke(cur, out)
          /\ IF out = "raise"
             THEN /\ pc' = "raised" /\ MayNote(calls[cur])
                  /\ UNCHANGED <<cur, results, recorder>>
             ELSE /\ pc' = "pick" /\ After(cur, [out |-> out, seen |-> world], children)
                  /\ pending' = 0 /\ children' = {}
    BY <1>5 DEF End
  <2>3. calls' = calls /\ last' = last /\ asked' = asked
        /\ st' \in [Call -> {"waiting", "queued", "running", "finished"}]
    BY <1>5 DEF End, TypeOK
  <2>4. world' \in Nat /\ got' \in [Call -> [out : Outcomes \cup {"none"}, seen : Nat]]
    BY <2>1, <2>2, InvokeTypes
  <2>5. CASE out = "raise"
    <3>1. tainted' \in BOOLEAN /\ cloned' \in BOOLEAN
      BY <2>2, <2>5, NoteTypes
    <3> QED
      BY <2>2, <2>3, <2>4, <2>5, <3>1 DEF Call, TypeOK, results, recorder
  <2>6. CASE out # "raise"
    <3>1. [out |-> out, seen |-> world] \in Answer
      BY <2>6 DEF Call, TypeOK, Answer, Outcomes, Refusals
    <3>2. AppendResult(cur, [out |-> out, seen |-> world])
          /\ tainted' \in BOOLEAN /\ cloned' \in BOOLEAN
      BY <2>2, <2>6, NoteTypes DEF After
    <3>3. tool_messages' \in Seq(Answer) /\ conversation' \in Seq(Answer)
          /\ cur' \in 1 .. (Len(calls) + 1)
      BY <2>1, <3>1, <3>2, AppendTypes
    <3>4. pc' = "pick" /\ pending' = 0 /\ children' = {}
      BY <2>2, <2>6
    <3>5. 0 \in 0 .. Len(calls)
      BY CallsAreNumbered
    <3> QED
      BY <2>3, <2>4, <3>2, <3>3, <3>4, <3>5 DEF Call, TypeOK
  <2> QED
    BY <2>5, <2>6
<1>6. CASE Process
  <2>1. /\ pc = "overlap" /\ cur \in Call /\ cur <= last
        /\ calls' = calls /\ last' = last /\ st' = st /\ got' = got
        /\ pending' = pending /\ children' = children /\ asked' = asked /\ world' = world
    BY <1>6, CallsAreNumbered DEF Process, Joined, Progress, TypeOK, threads
  <2>2. st[cur] = "finished"
    <3>1. cur \in cur .. last
      BY <2>1 DEF TypeOK
    <3> QED
      BY <1>6, <3>1 DEF Process, Joined
  <2>3. got[cur].out # "none"
    BY <2>1, <2>2, CallsAreNumbered DEF Progress
  <2>4. CASE got[cur].out = "raise"
    BY <1>6, <2>1, <2>4 DEF Process, Call, TypeOK, results
  <2>5. CASE got[cur].out # "raise"
    <3>1. got[cur] \in Answer
      <4>1. got[cur] \in [out : Outcomes \cup {"none"}, seen : Nat]
        BY <2>1 DEF Call, TypeOK
      <4> QED
        BY <4>1, <2>3, <2>5 DEF Answer, Outcomes, Refusals
    <3>2. pc' \in {"pick", "overlap"} /\ After(cur, got[cur], {})
      BY <1>6, <2>5 DEF Process
    <3>3. AppendResult(cur, got[cur]) /\ tainted' \in BOOLEAN /\ cloned' \in BOOLEAN
      BY <3>2, NoteTypes DEF After
    <3>4. tool_messages' \in Seq(Answer) /\ conversation' \in Seq(Answer)
          /\ cur' \in 1 .. (Len(calls) + 1)
      BY <2>1, <3>1, <3>3, AppendTypes
    <3> QED
      BY <2>1, <3>2, <3>3, <3>4 DEF Call, TypeOK
  <2> QED
    BY <2>4, <2>5
<1>7. CASE Merge
  <2>1. (conversation \o tool_messages) \in Seq(Answer)
    BY DEF TypeOK
  <2> QED
    BY <1>7, <2>1 DEF Call, TypeOK, Merge, threads, recorder, run, AppendResult
<1>8. CASE Interrupt
  <2>1. st' \in [Call -> {"waiting", "queued", "running", "finished"}]
    BY <1>8 DEF TypeOK, Interrupt
  <2>2. world' \in Nat
    BY <1>8 DEF TypeOK, Interrupt
  <2>3. UNCHANGED <<calls, cur, last, got, results, recorder, asked>>
        /\ pc' = "raised"
    BY <1>8 DEF Interrupt
  <2>4. tainted' \in BOOLEAN /\ cloned' \in BOOLEAN
    <3>1. CASE MayNote(calls[cur])
      BY <3>1, NoteTypes
    <3>2. CASE UNCHANGED <<tainted, cloned>>
      BY <3>2 DEF TypeOK
    <3> QED
      BY <1>8, <3>1, <3>2 DEF Interrupt
  <2> QED
    BY <2>1, <2>2, <2>3, <2>4 DEF Call, TypeOK, results, recorder
<1>9. ASSUME NEW i \in Call, Worker(i)
      PROVE  TypeOK'
  <2>1. CASE StartWorker(i)
    BY <2>1 DEF Call, TypeOK, StartWorker, main, results, recorder, run
  <2>2. CASE AskLLM(i)
    BY <2>2 DEF Call, TypeOK, AskLLM, main, threads, results, run
  <2>3. CASE FinishWorker(i)
    <3>1. PICK out \in Outcomes : Invoke(i, out)
      BY <2>3 DEF FinishWorker
    <3>2. world' \in Nat /\ got' \in [Call -> [out : Outcomes \cup {"none"}, seen : Nat]]
      BY <3>1, InvokeTypes
    <3> QED
      BY <2>3, <3>2 DEF Call, TypeOK, FinishWorker, main, results, recorder
  <2> QED
    BY <1>9, <2>1, <2>2, <2>3 DEF Worker
<1>10. CASE UNCHANGED vars
  BY <1>10 DEF Call, TypeOK, vars, main, threads, results, recorder, run
<1> QED
  BY <1>1, <1>2, <1>3, <1>4, <1>5, <1>6, <1>7, <1>8, <1>9, <1>10 DEF Next, Main

(* How far each call is: one step per action. *)
LEMMA ProgressStep ==
    ASSUME TypeOK, Progress, [Next]_vars
    PROVE  Progress'
<1> USE CallsAreNumbered
<1>1. CASE Plan
  <2>1. calls' = calls /\ cur' = cur /\ st' = st /\ pc' \in {"raised", "pick"}
    BY <1>1 DEF Plan, threads
  <2>2. pc = "plan"
    BY <1>1 DEF Plan
  <2>3. \A k \in Call : st[k] \in {"finished", "waiting"}
    BY <2>2, NoneRuns
  <2> QED
    BY <2>1, <2>2, <2>3 DEF Progress, Before, Beyond, Call, Safe
<1>2. CASE ParseError
  <2>1. /\ pc = "pick" /\ pc' = "pick" /\ cur \in Call /\ calls' = calls /\ cur' = cur + 1
        /\ st' = [st EXCEPT ![cur] = "finished"]
    BY <1>2 DEF ParseError, AppendResult
  <2>2. cur \in Nat /\ st \in [Call -> {"waiting", "queued", "running", "finished"}]
    BY DEF TypeOK
  <2>3. Before(cur, "finished") /\ Beyond(cur - 1, "waiting")
    BY <2>1 DEF Progress
  <2> QED
    BY <2>1, <2>2, <2>3 DEF Progress, Before, Beyond, Call
<1>3. CASE Begin
  <2>1. /\ pc = "pick" /\ pc' = "calling" /\ cur \in Call /\ calls' = calls /\ cur' = cur
        /\ st' = [st EXCEPT ![cur] = "running"]
    BY <1>3 DEF Begin
  <2>2. cur \in Nat /\ st \in [Call -> {"waiting", "queued", "running", "finished"}]
    BY DEF TypeOK
  <2>3. Before(cur, "finished") /\ Beyond(cur - 1, "waiting")
    BY <2>1 DEF Progress
  <2> QED
    BY <2>1, <2>2, <2>3 DEF Progress, Before, Beyond, Call
<1>4. CASE Overlap
  <2>1. PICK j \in Call : /\ Group(cur, j) /\ last' = j
                          /\ st' = [i \in Call |-> IF i \in cur .. j THEN "queued" ELSE st[i]]
    BY <1>4 DEF Overlap
  <2>2. pc = "pick" /\ pc' = "overlap" /\ cur \in Call /\ calls' = calls /\ cur' = cur
    BY <1>4 DEF Overlap
  <2>3. cur \in Nat /\ j \in Nat /\ cur < j
        /\ \A k \in Call : k >= cur /\ k <= j => Safe(k)
    BY <2>1, <2>2 DEF TypeOK, Group
  <2>4. Before(cur, "finished") /\ Beyond(cur - 1, "waiting")
    BY <2>2 DEF Progress
  <2>5. \A k \in Call : k >= cur /\ k <= last' => st'[k] = "queued"
    BY <2>1, <2>2, <2>3
  <2>6. /\ \A k \in Call : k < cur => st'[k] = "finished"
        /\ \A k \in Call : k > last' => st'[k] = "waiting"
    BY <2>1, <2>2, <2>3, <2>4 DEF Before, Beyond
  <2> QED
    BY <2>1, <2>2, <2>3, <2>5, <2>6 DEF Progress, Before, Beyond, Call, Safe
<1>5. CASE End
  <2>1. /\ pc = "calling" /\ calls' = calls /\ st' = [st EXCEPT ![cur] = "finished"]
        /\ \/ pc' = "raised"
           \/ pc' = "pick" /\ cur' = cur + 1
    BY <1>5 DEF End, After, AppendResult
  <2>2. cur \in Call /\ Before(cur, "finished") /\ Beyond(cur, "waiting")
    BY <2>1 DEF Progress
  <2>3. cur \in Nat /\ st \in [Call -> {"waiting", "queued", "running", "finished"}]
    BY DEF TypeOK
  <2>4. st' \in [Call -> {"waiting", "queued", "running", "finished"}]
        /\ \A k \in Call : k <= cur => st'[k] = "finished"
    BY <2>1, <2>2, <2>3 DEF Before
  <2>5. \A k \in Call : k > cur => st'[k] = "waiting"
    BY <2>1, <2>2, <2>3 DEF Beyond
  <2> QED
    BY <2>1, <2>2, <2>3, <2>4, <2>5 DEF Progress, Before, Beyond, Call
<1>6. CASE Process
  <2>1. /\ pc = "overlap" /\ calls' = calls /\ st' = st /\ got' = got /\ last' = last
        /\ \A k \in cur .. last : st[k] = "finished"
        /\ \/ pc' = "raised"
           \/ cur = last /\ pc' = "pick" /\ cur' = cur + 1
           \/ cur # last /\ pc' = "overlap" /\ cur' = cur + 1
    BY <1>6 DEF Process, Joined, threads, After, AppendResult
  <2>2. /\ cur <= last /\ last \in Call /\ Before(cur, "finished") /\ Beyond(last, "waiting")
        /\ \A k \in Call : k >= cur /\ k <= last => Safe(k)
        /\ \A k \in Call : k >= cur /\ k <= last /\ st[k] = "finished" => got[k].out # "none"
    BY <2>1 DEF Progress
  <2>3. cur \in Nat /\ last \in Nat
    BY DEF TypeOK
  <2>4. \A k \in Call : k <= last => st[k] = "finished"
    BY <2>1, <2>2, <2>3 DEF Before
  <2>5. \A k \in Call : k > last => st[k] = "waiting"
    BY <2>2 DEF Beyond
  <2>6. CASE pc' = "raised"
    BY <2>1, <2>3, <2>4, <2>5, <2>6 DEF Progress, Call
  <2>7. CASE cur = last /\ pc' = "pick" /\ cur' = cur + 1
    BY <2>1, <2>3, <2>4, <2>5, <2>7 DEF Progress, Before, Beyond, Call
  <2>8. CASE cur # last /\ pc' = "overlap" /\ cur' = cur + 1
    BY <2>1, <2>2, <2>3, <2>4, <2>5, <2>8 DEF Progress, Before, Beyond, Call, Safe
  <2> QED
    BY <2>1, <2>6, <2>7, <2>8
<1>7. CASE Merge
  <2>1. pc = "pick" /\ cur > Len(calls) /\ pc' = "returned" /\ calls' = calls /\ st' = st
    BY <1>7 DEF Merge, threads
  <2>2. Before(cur, "finished") /\ cur \in Nat
    BY <2>1 DEF Progress, TypeOK
  <2>3. \A k \in Call : st[k] = "finished"
    BY <2>1, <2>2 DEF Before
  <2> QED
    BY <2>1, <2>3 DEF Progress, Before, Call
<1>8. CASE Interrupt
  <2>1. /\ pc \in {"pick", "calling", "overlap"} /\ pc' = "raised" /\ calls' = calls
        /\ st' = IF pc = "calling" THEN [st EXCEPT ![cur] = "finished"] ELSE st
    BY <1>8 DEF Interrupt
  <2>2. \A k \in Call : st'[k] \in {"queued", "running"} => Safe(k)
    <3>1. CASE pc = "pick"
      BY <2>1, <3>1, NoneRuns
    <3>2. CASE pc = "calling"
      BY <2>1, <3>2, OnlyOneRuns DEF TypeOK
    <3>3. CASE pc = "overlap"
      <4>1. cur \in Nat /\ last \in Nat
        BY DEF TypeOK
      <4> QED
        BY <2>1, <3>3, <4>1 DEF Progress, Before, Beyond
    <3> QED
      BY <2>1, <3>1, <3>2, <3>3
  <2> QED
    BY <2>1, <2>2 DEF Progress, Call, Safe
<1>9. ASSUME NEW i \in Call, StartWorker(i)
      PROVE  Progress'
  <2>1. /\ st[i] = "queued" /\ st' = [st EXCEPT ![i] = "running"]
        /\ calls' = calls /\ pc' = pc /\ cur' = cur /\ last' = last /\ got' = got
    BY <1>9 DEF StartWorker, main
  <2>2. Safe(i) /\ pc \notin {"plan", "pick", "calling"}
    BY <2>1, QueuedIsSafe
  <2>3. cur \in Nat /\ last \in Nat
        /\ st \in [Call -> {"waiting", "queued", "running", "finished"}]
    BY DEF TypeOK
  <2>4. st'[i] = "running" /\ \A k \in Call : k # i => st'[k] = st[k]
    BY <2>1, <2>3
  <2>5. CASE pc = "overlap"
    <3>1. cur <= i /\ i <= last
      BY <2>1, <2>3, <2>5 DEF Progress, Before, Beyond
    <3> QED
      BY <2>1, <2>3, <2>4, <2>5, <3>1 DEF Progress, Before, Beyond, Call, Safe
  <2>6. CASE pc = "raised"
    BY <2>1, <2>2, <2>4, <2>6 DEF Progress, Call, Safe
  <2>7. pc # "returned"
    BY <2>1 DEF Progress, Before
  <2> QED
    BY <2>2, <2>5, <2>6, <2>7 DEF TypeOK
<1>10. ASSUME NEW i \in Call, AskLLM(i)
       PROVE  Progress'
  BY <1>10 DEF AskLLM, main, threads, Progress, Before, Beyond, Call, Safe
<1>11. ASSUME NEW i \in Call, FinishWorker(i)
       PROVE  Progress'
  <2>1. /\ st[i] = "running" /\ pc # "calling" /\ st' = [st EXCEPT ![i] = "finished"]
        /\ calls' = calls /\ pc' = pc /\ cur' = cur /\ last' = last
    BY <1>11 DEF FinishWorker, main
  <2>2. PICK out \in Outcomes : Invoke(i, out)
    BY <1>11 DEF FinishWorker
  <2>3. got'[i].out # "none" /\ \A k \in Call : k # i => got'[k] = got[k]
    <3>1. /\ got'[i] = [out |-> out, seen |-> world] /\ out # "none"
          /\ \A k \in Call : k # i => got'[k] = got[k]
      BY <2>2, InvokeTypes
    <3>2. got'[i].out = out
      BY <3>1
    <3> QED
      BY <3>1, <3>2
  <2>4. st'[i] = "finished" /\ \A k \in Call : k # i => st'[k] = st[k]
    BY <2>1 DEF TypeOK
  <2>5. pc \notin {"plan", "pick"}
    BY <2>1, NoneRuns
  <2>6. CASE pc = "overlap"
    <3>1. cur \in Nat /\ last \in Nat
      BY DEF TypeOK
    <3>2. cur <= i /\ i <= last
      BY <2>1, <2>6, <3>1 DEF Progress, Before, Beyond
    <3> QED
      BY <2>1, <2>3, <2>4, <2>6, <3>1, <3>2 DEF Progress, Before, Beyond, Call, Safe
  <2>7. CASE pc = "raised"
    BY <2>1, <2>4, <2>7 DEF Progress, Call, Safe
  <2>8. pc # "returned"
    BY <2>1 DEF Progress, Before
  <2> QED
    BY <2>1, <2>5, <2>6, <2>7, <2>8 DEF TypeOK
<1>12. CASE UNCHANGED vars
  BY <1>12 DEF vars, main, threads, Progress, Before, Beyond, Call, Safe
<1> QED
  BY <1>1, <1>2, <1>3, <1>4, <1>5, <1>6, <1>7, <1>8, <1>9, <1>10, <1>11, <1>12
  DEF Next, Main, Worker

(* Fewer calls run, or one more while there was a free worker. *)
LEMMA RunningKeeps ==
    ASSUME TypeOK, NEW S, S \subseteq Running, Cardinality(Running) <= Workers
    PROVE  Cardinality(S) <= Workers
<1>1. Cardinality(S) \in Nat /\ Cardinality(S) <= Cardinality(Running)
  BY RunningIsFinite, FS_Subset, FS_CardinalityType
<1> QED
  BY <1>1, RunningIsFinite, DispatchAssumption

LEMMA NothingMoreRuns ==
    ASSUME TypeOK, BarrierHolds, calls' = calls,
           \A k \in Call : st'[k] = "running" => st[k] = "running"
    PROVE  Cardinality({k \in Call : st'[k] = "running"}) <= Workers
<1>1. {k \in Call : st'[k] = "running"} \subseteq Running
  BY DEF Running
<1>2. Cardinality(Running) <= Workers
  BY DEF BarrierHolds, Running
<1> QED
  BY <1>1, <1>2, RunningKeeps

(* A call that stops running or waiting disturbs no barrier. *)
LEMMA NoneBegins ==
    ASSUME TypeOK, BarrierHolds, calls' = calls,
           \A k \in Call : st'[k] = st[k] \/ (st[k] \in {"running", "queued"} /\ st'[k] = "finished")
    PROVE  BarrierHolds'
<1>1. \A k \in Call : st'[k] = "running" => st[k] = "running"
  BY DEF TypeOK
<1>2. Cardinality({k \in Call : st'[k] = "running"}) <= Workers
  BY <1>1, NothingMoreRuns
<1>3. ASSUME NEW i \in Call, st'[i] = "running", ~ParallelSafe(calls[i])
      PROVE  /\ \A k \in 1 .. (i - 1) : st'[k] = "finished"
             /\ \A k \in (i + 1) .. Len(calls) : st'[k] = "waiting"
  <2>1. /\ \A k \in 1 .. (i - 1) : st[k] = "finished"
        /\ \A k \in (i + 1) .. Len(calls) : st[k] = "waiting"
    BY <1>1, <1>3 DEF BarrierHolds
  <2>2. /\ \A k \in 1 .. (i - 1) : k \in Call
        /\ \A k \in (i + 1) .. Len(calls) : k \in Call
    BY CallsAreNumbered
  <2> QED
    BY <2>1, <2>2
<1> QED
  BY <1>2, <1>3 DEF BarrierHolds, Call

(* The barrier is kept: one step per action. *)
LEMMA BarrierStep ==
    ASSUME TypeOK, Progress, BarrierHolds, [Next]_vars
    PROVE  BarrierHolds'
<1>1. CASE Plan \/ Process \/ Merge
  BY <1>1, NoneBegins DEF Plan, Process, Merge, threads
<1>2. CASE ParseError
  <2>1. /\ pc = "pick" /\ calls' = calls /\ cur \in Call
        /\ st' = [st EXCEPT ![cur] = "finished"]
    BY <1>2 DEF ParseError
  <2>2. \A k \in Call : st'[k] \in {"finished", "waiting"}
    BY <2>1, NoneRuns DEF TypeOK
  <2>3. Cardinality({k \in Call : st'[k] = "running"}) <= Workers
    BY <2>1, <2>2, NothingMoreRuns
  <2> QED
    BY <2>1, <2>2, <2>3 DEF BarrierHolds, Call
<1>3. CASE Begin
  <2>1. /\ pc = "pick" /\ cur \in Call /\ calls' = calls
        /\ st' = [st EXCEPT ![cur] = "running"]
    BY <1>3 DEF Begin
  <2>2. /\ \A k \in Call : k < cur => st[k] = "finished"
        /\ \A k \in Call : k > cur - 1 => st[k] = "waiting"
    BY <2>1 DEF Progress, Before, Beyond
  <2>3. cur \in Nat /\ st'[cur] = "running" /\ \A k \in Call : k # cur => st'[k] = st[k]
    BY <2>1 DEF TypeOK
  <2>4. {k \in Call : st'[k] = "running"} = {cur}
    BY <2>1, <2>2, <2>3, CallsAreNumbered
  <2>5. Cardinality({k \in Call : st'[k] = "running"}) = 1
    BY <2>4, FS_Singleton
  <2>6. /\ \A k \in 1 .. (cur - 1) : st'[k] = "finished"
        /\ \A k \in (cur + 1) .. Len(calls) : st'[k] = "waiting"
    BY <2>1, <2>2, <2>3, CallsAreNumbered
  <2>7. \A i \in Call : st'[i] = "running" => i = cur
    BY <2>4
  <2> QED
    BY <2>1, <2>5, <2>6, <2>7, DispatchAssumption DEF BarrierHolds, Call
<1>4. CASE Overlap
  <2>1. PICK j \in Call :
          st' = [i \in Call |-> IF i \in cur .. j THEN "queued" ELSE st[i]]
    BY <1>4 DEF Overlap
  <2>2. pc = "pick" /\ calls' = calls
    BY <1>4 DEF Overlap
  <2>3. \A k \in Call : st'[k] # "running"
    BY <2>1, <2>2, NoneRuns
  <2>4. Cardinality({k \in Call : st'[k] = "running"}) <= Workers
    BY <2>2, <2>3, NothingMoreRuns
  <2> QED
    BY <2>2, <2>3, <2>4 DEF BarrierHolds, Call
<1>5. CASE End
  <2>1. cur \in Call /\ st[cur] = "running" /\ calls' = calls
        /\ st' = [st EXCEPT ![cur] = "finished"]
    BY <1>5 DEF End, Progress
  <2> QED
    BY <2>1, NoneBegins DEF TypeOK
<1>6. CASE Interrupt
  <2>1. calls' = calls /\ (pc = "calling" => cur \in Call /\ st[cur] = "running")
        /\ st' = IF pc = "calling" THEN [st EXCEPT ![cur] = "finished"] ELSE st
    BY <1>6 DEF Interrupt, Progress
  <2> QED
    BY <2>1, NoneBegins DEF TypeOK
<1>7. ASSUME NEW i \in Call, StartWorker(i)
      PROVE  BarrierHolds'
  <2>1. /\ st[i] = "queued" /\ st' = [st EXCEPT ![i] = "running"] /\ calls' = calls
        /\ Cardinality(Running) < Workers
    BY <1>7 DEF StartWorker, Running
  <2>2. st'[i] = "running" /\ \A k \in Call : k # i => st'[k] = st[k]
    BY <2>1 DEF TypeOK
  <2>3. {k \in Call : st'[k] = "running"} = Running \cup {i}
    BY <2>2 DEF Running
  <2>4. i \notin Running
    BY <2>1 DEF Running
  <2>5. Cardinality(Running \cup {i}) = Cardinality(Running) + 1
    BY <2>4, RunningIsFinite, FS_AddElement
  <2>6. Cardinality({k \in Call : st'[k] = "running"}) <= Workers
    <3>1. Cardinality(Running \cup {i}) <= Workers
      BY <2>1, <2>5, RunningIsFinite, DispatchAssumption
    <3> QED
      BY <2>3, <3>1, Zenon
  <2>7. Safe(i)
    BY <2>1, QueuedIsSafe
  <2>8. ASSUME NEW k \in Call, st'[k] = "running"
        PROVE  ParallelSafe(calls[k])
    <3>1. CASE k = i
      BY <2>7, <3>1 DEF Safe
    <3>2. CASE k # i /\ ~ParallelSafe(calls[k])
      <4>1. st[k] = "running"
        BY <2>2, <2>8, <3>2
      <4>2. /\ \A m \in 1 .. (k - 1) : st[m] = "finished"
            /\ \A m \in (k + 1) .. Len(calls) : st[m] = "waiting"
        BY <3>2, <4>1 DEF BarrierHolds
      <4>3. i \in 1 .. (k - 1) \/ i \in (k + 1) .. Len(calls)
        BY <3>2, CallsAreNumbered
      <4> QED
        BY <2>1, <4>2, <4>3
    <3> QED
      BY <3>1, <3>2
  <2> QED
    BY <2>1, <2>6, <2>8 DEF BarrierHolds, Call
<1>8. ASSUME NEW i \in Call, AskLLM(i)
      PROVE  BarrierHolds'
  BY <1>8, NoneBegins DEF AskLLM, threads
<1>9. ASSUME NEW i \in Call, FinishWorker(i)
      PROVE  BarrierHolds'
  <2>1. calls' = calls /\ st[i] = "running" /\ st' = [st EXCEPT ![i] = "finished"]
    BY <1>9 DEF FinishWorker
  <2> QED
    BY <2>1, NoneBegins DEF TypeOK
<1>10. CASE UNCHANGED vars
  BY <1>10, NoneBegins DEF vars, threads
<1> QED
  BY <1>1, <1>2, <1>3, <1>4, <1>5, <1>6, <1>7, <1>8, <1>9, <1>10
  DEF Next, Main, Worker

(* What runs in the pool is safe to overlap, wherever the main thread is. *)
LEMMA RunningIsSafe ==
    ASSUME TypeOK, Progress, NEW i \in Call, st[i] = "running", pc # "calling"
    PROVE  Safe(i) /\ pc \notin {"plan", "pick", "returned"}
           /\ (pc = "overlap" => cur <= i /\ i <= last)
<1>1. pc \notin {"plan", "pick"}
  BY NoneRuns
<1>2. i \in Nat /\ cur \in Nat /\ last \in Nat /\ Len(calls) \in Nat /\ i <= Len(calls)
  BY CallsAreNumbered DEF TypeOK
<1>3. pc # "returned"
  BY <1>2 DEF Progress, Before
<1>4. pc = "overlap" => cur <= i /\ i <= last
  BY <1>2 DEF Progress, Before, Beyond
<1> QED
  BY <1>1, <1>3, <1>4 DEF Progress, TypeOK

(* A call that is safe to overlap changes nothing, and is reduced only for  *)
(* what the run has seen.                                                   *)
LEMMA SafeInvoke ==
    ASSUME NEW i \in Call, NEW out \in Outcomes, Safe(i), Invoke(i, out)
    PROVE  world' = world /\ (out = "reduced" => Reduced(i))
<1>1. calls[i] \notin Mutating
  BY DEF Safe, ParallelSafe, Mutating
<1> QED
  BY <1>1 DEF Invoke, GateRefuses, Passed

(* The next answer joins the others, which stay as they are. *)
LEMMA AppendAnswers ==
    ASSUME TypeOK, Answered, cur \in Call, pc # "returned",
           NEW row \in Answer, AppendResult(cur, row)
    PROVE  /\ Len(tool_messages') = cur' - 1 /\ conversation' = <<>>
           /\ tool_messages'[cur] = row
           /\ \A k \in Call : k < cur => tool_messages'[k] = tool_messages[k]
<1>1. tool_messages \in Seq(Answer) /\ tool_messages' = Append(tool_messages, row)
      /\ cur' = cur + 1 /\ conversation' = conversation /\ cur \in Nat
  BY DEF TypeOK, AppendResult
<1>2. Len(tool_messages) = cur - 1 /\ conversation = <<>>
  BY DEF Answered
<1>3. Len(tool_messages') = cur /\ tool_messages'[cur] = row
  BY <1>1, <1>2
<1>4. ASSUME NEW k \in Call, k < cur
      PROVE  tool_messages'[k] = tool_messages[k]
  <2>1. k \in 1 .. Len(tool_messages)
    BY <1>1, <1>2, <1>4, CallsAreNumbered
  <2> QED
    BY <1>1, <2>1
<1>5. Len(tool_messages') = cur' - 1
  BY <1>1, <1>3
<1> QED
  BY <1>1, <1>2, <1>3, <1>4, <1>5

(* What has been answered stays answered: one step per action. *)
LEMMA AnsweredStep ==
    ASSUME TypeOK, Progress, Answered, [Next]_vars
    PROVE  Answered'
<1> USE CallsAreNumbered
<1>0. /\ cur \in Nat /\ last \in Nat /\ cur <= Len(calls) + 1 /\ world \in Nat
      /\ st \in [Call -> {"waiting", "queued", "running", "finished"}]
      /\ got \in [Call -> [out : Outcomes \cup {"none"}, seen : Nat]]
  BY DEF TypeOK
<1>1. CASE Plan
  BY <1>1 DEF Plan, threads, results, run, Answered, Before, Call
<1>2. CASE ParseError
  <2>1. /\ pc = "pick" /\ pc' = "pick" /\ cur \in Call /\ calls[cur] = "unparsed" /\ got' = got
        /\ calls' = calls /\ cur' = cur + 1 /\ st' = [st EXCEPT ![cur] = "finished"]
    BY <1>2 DEF ParseError, AppendResult
  <2>2. st[cur] = "waiting"
    BY <2>1, <1>0 DEF Progress, Beyond
  <2>3. [out |-> "unparsed", seen |-> world] \in Answer
        /\ AppendResult(cur, [out |-> "unparsed", seen |-> world])
    BY <1>2, <1>0 DEF ParseError, Answer
  <2>4. /\ Len(tool_messages') = cur' - 1 /\ conversation' = <<>>
        /\ tool_messages'[cur] = [out |-> "unparsed", seen |-> world]
        /\ \A k \in Call : k < cur => tool_messages'[k] = tool_messages[k]
    BY <2>1, <2>3, AppendAnswers
  <2>5. tool_messages'[cur].out = "unparsed" /\ got[cur].out = "none"
    BY <2>1, <2>2, <2>4 DEF Answered
  <2>6. \A k \in Call : k < cur' => k < cur \/ k = cur
    BY <2>1, <1>0
  <2>7. \A k \in Call : st'[k] # "finished" => st[k] # "finished" /\ k # cur
    BY <2>1, <1>0
  <2>8. \A k \in Call : k < cur' => st'[k] = "finished"
    BY <2>1, <2>6, <1>0 DEF Answered, Before
  <2> QED
    BY <2>1, <2>4, <2>5, <2>6, <2>7, <2>8 DEF Answered, Before, Call
<1>3. CASE Begin
  <2>1. /\ pc = "pick" /\ pc' = "calling" /\ cur \in Call /\ calls[cur] # "unparsed"
        /\ calls' = calls /\ cur' = cur /\ st' = [st EXCEPT ![cur] = "running"]
        /\ got' = got /\ tool_messages' = tool_messages /\ conversation' = conversation
    BY <1>3 DEF Begin, results
  <2>2. st[cur] = "waiting"
    BY <2>1, <1>0 DEF Progress, Beyond
  <2>3. st'[cur] = "running" /\ \A k \in Call : k # cur => st'[k] = st[k]
    BY <2>1, <1>0
  <2>4. \A k \in Call : st'[k] # "finished" => st[k] # "finished"
    BY <2>2, <2>3
  <2>5. \A k \in Call : k < cur => st'[k] = "finished"
    BY <2>3, <1>0 DEF Answered, Before
  <2> QED
    BY <2>1, <2>4, <2>5 DEF Answered, Before, Call
<1>4. CASE Overlap
  <2>1. PICK j \in Call : /\ last' = j
                          /\ st' = [i \in Call |-> IF i \in cur .. j THEN "queued" ELSE st[i]]
    BY <1>4 DEF Overlap
  <2>2. pc = "pick" /\ pc' = "overlap" /\ cur \in Call /\ calls' = calls /\ cur' = cur
        /\ got' = got /\ tool_messages' = tool_messages /\ conversation' = conversation
    BY <1>4 DEF Overlap, results
  <2>3. \A k \in Call : k >= cur => st[k] = "waiting"
    BY <2>2, <1>0 DEF Progress, Beyond
  <2>4. \A k \in Call : k < cur => st'[k] = st[k]
    BY <2>1, <1>0
  <2>5. \A k \in Call : k >= cur => st'[k] \in {"queued", "waiting"}
    BY <2>1, <2>3
  <2>6. \A k \in Call : st'[k] # "finished" => st[k] # "finished"
    BY <2>3, <2>4, <1>0
  <2> QED
    BY <2>2, <2>4, <2>5, <2>6, <1>0 DEF Answered, Before, Call
<1>5. CASE End
  <2>1. /\ pc = "calling" /\ calls' = calls /\ last' = last
        /\ st' = [st EXCEPT ![cur] = "finished"]
    BY <1>5 DEF End
  <2>2. cur \in Call /\ st[cur] = "running" /\ calls[cur] # "unparsed"
    BY <2>1 DEF Progress, Answered
  <2>3. PICK out \in Outcomes :
          /\ Invoke(cur, out)
          /\ IF out = "raise"
             THEN /\ pc' = "raised" /\ MayNote(calls[cur])
                  /\ UNCHANGED <<cur, results, recorder>>
             ELSE pc' = "pick" /\ After(cur, [out |-> out, seen |-> world], children)
    BY <1>5 DEF End
  <2>4. /\ got'[cur] = [out |-> out, seen |-> world] /\ out # "none"
        /\ \A k \in Call : k # cur => got'[k] = got[k]
    BY <2>2, <2>3, InvokeTypes
  <2>5. \A k \in Call : st'[k] # "finished" => st[k] # "finished" /\ k # cur
    BY <2>1, <1>0
  <2>6. CASE out = "raise"
    <3>1. pc' = "raised" /\ cur' = cur /\ tool_messages' = tool_messages
          /\ conversation' = conversation
      BY <2>3, <2>6 DEF results
    <3>2. \A k \in Call : k < cur => k # cur /\ st'[k] = "finished"
      BY <2>1, <1>0 DEF Answered, Before
    <3> QED
      BY <2>1, <2>4, <2>5, <3>1, <3>2 DEF Answered, Before, Call
  <2>7. CASE out # "raise"
    <3>1. [out |-> out, seen |-> world] \in Answer
      BY <2>7, <1>0 DEF Answer, Outcomes, Refusals
    <3>2. pc' = "pick" /\ AppendResult(cur, [out |-> out, seen |-> world])
      BY <2>3, <2>7 DEF After
    <3>3. /\ Len(tool_messages') = cur' - 1 /\ conversation' = <<>> /\ cur' = cur + 1
          /\ tool_messages'[cur] = [out |-> out, seen |-> world]
          /\ \A k \in Call : k < cur => tool_messages'[k] = tool_messages[k]
      BY <2>1, <2>2, <3>1, <3>2, AppendAnswers DEF AppendResult
    <3>4. \A k \in Call : k < cur' => k < cur \/ k = cur
      BY <3>3, <1>0
    <3>5. \A k \in Call : k < cur' => st'[k] = "finished"
      BY <2>1, <3>4, <1>0 DEF Answered, Before
    <3>6. tool_messages'[cur].out # "unparsed" /\ tool_messages'[cur] = got'[cur]
      <4>1. out # "unparsed" /\ [out |-> out, seen |-> world].out = out
        BY DEF Outcomes, Refusals
      <4> QED
        BY <2>4, <3>3, <4>1
    <3>7. ASSUME NEW k \in Call, k < cur'
          PROVE  /\ tool_messages'[k].out = "unparsed" <=> calls[k] = "unparsed"
                 /\ got'[k].out # "none" => tool_messages'[k] = got'[k]
      <4>1. CASE k = cur
        BY <2>2, <3>6, <4>1
      <4>2. CASE k < cur
        BY <2>4, <3>3, <4>2, <1>0 DEF Answered
      <4> QED
        BY <3>4, <3>7, <4>1, <4>2
    <3>8. \A k \in Call : st'[k] # "finished" => got'[k].out = "none"
      BY <2>4, <2>5 DEF Answered
    <3> QED
      BY <2>1, <3>2, <3>3, <3>5, <3>7, <3>8 DEF Answered, Before, Call
  <2> QED
    BY <2>6, <2>7
<1>6. CASE Process
  <2>0. /\ pc = "overlap" /\ cur <= last /\ last \in Call
        /\ calls' = calls /\ last' = last /\ st' = st /\ got' = got /\ world' = world
    BY <1>6 DEF Process, Joined, Progress, threads
  <2>1. /\ pc = "overlap" /\ cur \in Call /\ cur <= last
        /\ calls' = calls /\ last' = last /\ st' = st /\ got' = got /\ world' = world
    BY <2>0 DEF TypeOK
  <2>2. \A k \in Call : k >= cur /\ k <= last => st[k] = "finished"
    BY <1>6, <1>0 DEF Process, Joined
  <2>3. st[cur] = "finished" /\ Safe(cur) /\ got[cur].out # "none"
    BY <2>1, <2>2, <1>0 DEF Progress
  <2>4. CASE got[cur].out = "raise"
    <3>1. pc' = "raised" /\ cur' = cur /\ tool_messages' = tool_messages
          /\ conversation' = conversation
      BY <1>6, <2>4 DEF Process, results
    <3> QED
      BY <2>1, <3>1 DEF Answered, Before, Call
  <2>5. CASE got[cur].out # "raise"
    <3>1. got[cur] \in Answer
      <4>1. got[cur] \in [out : Outcomes \cup {"none"}, seen : Nat]
        BY <2>1, <1>0
      <4> QED
        BY <4>1, <2>3, <2>5 DEF Answer, Outcomes, Refusals
    <3>2. pc' \in {"pick", "overlap"} /\ AppendResult(cur, got[cur])
      BY <1>6, <2>5 DEF Process, After
    <3>3. /\ Len(tool_messages') = cur' - 1 /\ conversation' = <<>> /\ cur' = cur + 1
          /\ tool_messages'[cur] = got[cur]
          /\ \A k \in Call : k < cur => tool_messages'[k] = tool_messages[k]
      BY <2>1, <3>1, <3>2, AppendAnswers DEF AppendResult
    <3>4. \A k \in Call : k < cur' => k < cur \/ k = cur
      BY <3>3, <1>0
    <3>5. \A k \in Call : k < cur' => st'[k] = "finished"
      BY <2>1, <2>3, <3>4 DEF Answered, Before
    <3>6. got[cur].out # "unparsed" /\ calls[cur] # "unparsed"
      <4>1. got[cur].out \in Outcomes \cup {"none"}
        BY <2>1, <1>0
      <4> QED
        BY <2>3, <4>1 DEF Outcomes, Refusals, Safe, ParallelSafe
    <3>7. \A k \in Call : k >= cur' => k >= cur
      BY <3>3, <1>0
    <3>8. \A k \in Call : Reduced(k) => Reduced(k)'
      BY <1>6, <2>1, <2>5, NotedStays DEF Process, After
    <3>9. \A k \in Call : k >= cur' /\ k <= last /\ st[k] = "finished" =>
              got[k].seen = world /\ (got[k].out = "reduced" => Reduced(k)')
      BY <2>1, <3>7, <3>8 DEF Answered
    <3> QED
      BY <2>1, <3>2, <3>3, <3>4, <3>5, <3>6, <3>9 DEF Answered, Before, Call
  <2> QED
    BY <2>4, <2>5
<1>7. CASE Merge
  <2>1. /\ pc = "pick" /\ cur > Len(calls) /\ pc' = "returned"
        /\ calls' = calls /\ cur' = cur /\ last' = last /\ st' = st /\ got' = got
        /\ conversation' = conversation \o tool_messages /\ tool_messages' = tool_messages
    BY <1>7 DEF Merge, threads
  <2>2. conversation = <<>> /\ tool_messages \in Seq(Answer)
    BY <2>1 DEF Answered, TypeOK
  <2>3. conversation' = tool_messages' /\ cur' = Len(calls') + 1
    BY <2>1, <2>2, <1>0
  <2> QED
    BY <2>1, <2>3 DEF Answered, Before, Call
<1>8. CASE Interrupt
  <2>1. /\ pc \in {"pick", "calling", "overlap"} /\ pc' = "raised" /\ calls' = calls /\ cur' = cur
        /\ got' = got /\ tool_messages' = tool_messages /\ conversation' = conversation
        /\ st' = IF pc = "calling" THEN [st EXCEPT ![cur] = "finished"] ELSE st
    BY <1>8 DEF Interrupt, results
  <2>2. \A k \in Call : st'[k] = st[k] \/ st'[k] = "finished"
    BY <2>1, <1>0
  <2>3. \A k \in Call : k < cur => st'[k] = "finished"
    BY <2>2 DEF Answered, Before
  <2> QED
    BY <2>1, <2>2, <2>3 DEF Answered, Before, Call
<1>9. ASSUME NEW i \in Call, StartWorker(i)
      PROVE  Answered'
  <2>1. /\ st[i] = "queued" /\ st' = [st EXCEPT ![i] = "running"]
        /\ calls' = calls /\ pc' = pc /\ cur' = cur /\ last' = last /\ got' = got
        /\ tool_messages' = tool_messages /\ conversation' = conversation /\ world' = world
        /\ tainted' = tainted /\ cloned' = cloned
    BY <1>9 DEF StartWorker, main, results, run
  <2>2. st'[i] = "running" /\ \A k \in Call : k # i => st'[k] = st[k]
    BY <2>1, <1>0
  <2>3. \A k \in Call : (st'[k] = "finished") <=> (st[k] = "finished")
    BY <2>1, <2>2
  <2> QED
    BY <2>1, <2>3 DEF Answered, Before, Call, Reduced
<1>10. ASSUME NEW i \in Call, AskLLM(i)
       PROVE  Answered'
  BY <1>10 DEF AskLLM, main, threads, results, run, Answered, Before, Call, Reduced
<1>11. ASSUME NEW i \in Call, FinishWorker(i)
       PROVE  Answered'
  <2>1. /\ st[i] = "running" /\ pc # "calling" /\ st' = [st EXCEPT ![i] = "finished"]
        /\ calls' = calls /\ pc' = pc /\ cur' = cur /\ last' = last
        /\ tool_messages' = tool_messages /\ conversation' = conversation
        /\ tainted' = tainted /\ cloned' = cloned
    BY <1>11 DEF FinishWorker, main, results
  <2>2. PICK out \in Outcomes : Invoke(i, out)
    BY <1>11 DEF FinishWorker
  <2>3. /\ got'[i] = [out |-> out, seen |-> world] /\ out # "none"
        /\ \A k \in Call : k # i => got'[k] = got[k]
    BY <2>2, InvokeTypes
  <2>4. Safe(i) /\ pc \notin {"plan", "pick", "returned"}
    BY <2>1, RunningIsSafe
  <2>5. world' = world /\ (out = "reduced" => Reduced(i))
    BY <2>2, <2>4, SafeInvoke
  <2>6. st'[i] = "finished" /\ \A k \in Call : k # i => st'[k] = st[k]
    BY <2>1, <1>0
  <2>7. \A k \in Call : k < cur => k # i
    BY <2>1 DEF Answered, Before
  <2> QED
    BY <2>1, <2>3, <2>4, <2>5, <2>6, <2>7 DEF Answered, Before, Call, Reduced
<1>12. CASE UNCHANGED vars
  BY <1>12 DEF vars, main, threads, results, run, Answered, Before, Call, Reduced
<1> QED
  BY <1>1, <1>2, <1>3, <1>4, <1>5, <1>6, <1>7, <1>8, <1>9, <1>10, <1>11, <1>12
  DEF Next, Main, Worker

(* Only a call that runs alone, the one the recorder times, asks the LLM. *)
LEMMA OnlyAloneAsks ==
    ASSUME TypeOK, Progress, NEW i \in Call, AskLLM(i)
    PROVE  pc = "calling" /\ i = cur /\ cur \in Call
<1>1. st[i] = "running" /\ calls[i] = "query"
  BY DEF AskLLM
<1>2. ~Safe(i)
  BY <1>1 DEF Safe, ParallelSafe
<1>3. pc = "calling"
  BY <1>1, <1>2, RunningIsSafe
<1>4. i = cur
  BY <1>1, <1>3, OnlyOneRuns
<1> QED
  BY <1>3, <1>4

(* Answering a call adds its row, after all the others, and nothing below. *)
LEMMA RowAdded ==
    ASSUME TypeOK, Slotted, TraceFollowsCalls, cur \in Call, calls[cur] # "unparsed",
           NEW row \in Answer, row.out \in Outcomes, calls' = calls, asked' = asked,
           NEW nested, nested = {cur} \cap asked, After(cur, row, nested)
    PROVE  /\ events' \in Seq(Row)
           /\ \A e \in DOMAIN events' :
                 /\ events'[e].nested = {events'[e].call} \cap asked'
                 /\ e > 1 => events'[e - 1].call < events'[e].call
           /\ {events'[e].call : e \in DOMAIN events'}
                 = {i \in 1 .. (cur' - 1) : calls'[i] # "unparsed"}
<1> DEFINE new == [call |-> cur, out |-> row.out, nested |-> nested]
<1>1. /\ events' = Append(events, new) /\ cur' = cur + 1
      /\ events \in Seq(Row) /\ cur \in Nat /\ cur \in 1 .. Len(calls) /\ Len(calls) \in Nat
  BY CallsAreNumbered DEF After, AppendResult, Slotted
<1>2. new \in Row /\ new.call = cur /\ new.nested = {cur} \cap asked
  BY <1>1 DEF Row
<1>3. events' \in Seq(Row) /\ Len(events') = Len(events) + 1 /\ Len(events) \in Nat
      /\ DOMAIN events = 1 .. Len(events) /\ DOMAIN events' = 1 .. (Len(events) + 1)
      /\ events'[Len(events) + 1] = new
      /\ \A e \in 1 .. Len(events) : events'[e] = events[e] /\ events[e] \in Row
  BY <1>1, <1>2
<1> HIDE DEF new
<1>4. \A e \in 1 .. Len(events) :
         /\ events[e].call \in Nat /\ events[e].call < cur
         /\ events[e].nested = {events[e].call} \cap asked
         /\ e > 1 => events[e - 1].call < events[e].call
  <2>1. {events[e].call : e \in DOMAIN events} = {i \in 1 .. (cur - 1) : calls[i] # "unparsed"}
    BY DEF TraceFollowsCalls
  <2>2. \A e \in 1 .. Len(events) : events[e].call \in 1 .. (cur - 1)
    BY <1>3, <2>1
  <2>3. \A e \in 1 .. Len(events) : events[e].call \in Nat /\ events[e].call < cur
    BY <1>1, <2>2
  <2>4. \A e \in 1 .. Len(events) :
           /\ events[e].nested = {events[e].call} \cap asked
           /\ e > 1 => events[e - 1].call < events[e].call
    BY <1>3 DEF TraceFollowsCalls
  <2> QED
    BY <2>3, <2>4
<1>5. ASSUME NEW e \in DOMAIN events'
      PROVE  /\ events'[e].nested = {events'[e].call} \cap asked'
             /\ e > 1 => events'[e - 1].call < events'[e].call
  <2>1. CASE e = Len(events) + 1
    <3>1. e > 1 => Len(events) \in 1 .. Len(events) /\ e - 1 = Len(events)
      BY <1>3, <2>1
    <3>2. e > 1 => events'[e - 1].call < cur
      BY <1>3, <1>4, <3>1
    <3> QED
      BY <1>2, <1>3, <2>1, <3>2
  <2>2. CASE e # Len(events) + 1
    <3>1. e \in 1 .. Len(events) /\ (e > 1 => e - 1 \in 1 .. Len(events))
      BY <1>3, <1>5, <2>2
    <3> QED
      BY <1>3, <1>4, <3>1
  <2> QED
    BY <2>1, <2>2
<1>6. {events'[e].call : e \in DOMAIN events'} = {events[e].call : e \in DOMAIN events} \cup {cur}
  <2>1. {events'[e].call : e \in DOMAIN events'}
          = {events'[e].call : e \in 1 .. Len(events)} \cup {events'[Len(events) + 1].call}
    BY <1>3
  <2>2. {events'[e].call : e \in 1 .. Len(events)} = {events[e].call : e \in DOMAIN events}
    BY <1>3
  <2> QED
    BY <1>2, <1>3, <2>1, <2>2
<1>7. {i \in 1 .. (cur' - 1) : calls'[i] # "unparsed"}
        = {i \in 1 .. (cur - 1) : calls[i] # "unparsed"} \cup {cur}
  BY <1>1
<1>8. {events'[e].call : e \in DOMAIN events'} = {i \in 1 .. (cur' - 1) : calls'[i] # "unparsed"}
  BY <1>6, <1>7 DEF TraceFollowsCalls
<1> QED
  BY <1>3, <1>5, <1>8

(* A step that adds no row and no answer, and asks nothing. *)
LEMMA TraceUntouched ==
    ASSUME Slotted, TraceFollowsCalls, events' = events, asked' = asked, cur' = cur,
           calls' = calls, pc' = "pick" => pending' = 0
    PROVE  TraceFollowsCalls' /\ events' \in Seq(Row)
BY DEF TraceFollowsCalls, Slotted

(* The trace and the recorder's slot follow the calls: one step per action. *)
LEMMA TraceStep ==
    ASSUME TypeOK, Progress, Answered, Slotted, TraceFollowsCalls, [Next]_vars
    PROVE  Slotted' /\ TraceFollowsCalls'
<1> USE CallsAreNumbered
<1>0. /\ cur \in Nat /\ last \in Nat /\ asked \subseteq Call
      /\ st \in [Call -> {"waiting", "queued", "running", "finished"}]
  BY DEF TypeOK
<1>1. CASE Plan
  <2>1. /\ events' = events /\ asked' = asked /\ cur' = cur /\ calls' = calls
        /\ pending' = pending /\ children' = children /\ st' = st
        /\ pc = "plan" /\ pc' \in {"raised", "pick"}
    BY <1>1 DEF Plan, threads, recorder
  <2>2. pending = 0 /\ children = {}
    BY <2>1 DEF Slotted
  <2>3. TraceFollowsCalls' /\ events' \in Seq(Row)
    BY <2>1, <2>2, TraceUntouched
  <2> QED
    BY <2>1, <2>2, <2>3 DEF Slotted
<1>2. CASE ParseError
  <2>1. /\ pc = "pick" /\ pc' = "pick" /\ cur \in Call /\ calls[cur] = "unparsed"
        /\ calls' = calls /\ cur' = cur + 1 /\ st' = [st EXCEPT ![cur] = "finished"]
        /\ events' = events /\ asked' = asked /\ pending' = pending /\ children' = children
    BY <1>2 DEF ParseError, AppendResult, recorder
  <2>2. {i \in 1 .. (cur' - 1) : calls'[i] # "unparsed"}
          = {i \in 1 .. (cur - 1) : calls[i] # "unparsed"}
    BY <2>1, <1>0
  <2>3. \A k \in asked : st'[k] # "waiting"
    BY <2>1, <1>0 DEF Slotted
  <2>4. TraceFollowsCalls'
    BY <2>1, <2>2 DEF TraceFollowsCalls
  <2> QED
    BY <2>1, <2>3, <2>4 DEF Slotted
<1>3. CASE Begin
  <2>1. /\ pc = "pick" /\ pc' = "calling" /\ cur \in Call /\ calls' = calls /\ cur' = cur
        /\ st' = [st EXCEPT ![cur] = "running"] /\ pending' = cur /\ children' = {}
        /\ events' = events /\ asked' = asked
    BY <1>3 DEF Begin
  <2>2. st[cur] = "waiting"
    BY <2>1, <1>0 DEF Progress, Beyond
  <2>3. {cur} \cap asked = {}
    BY <2>2 DEF Slotted
  <2>4. \A k \in asked : st'[k] # "waiting"
    BY <2>1, <1>0 DEF Slotted
  <2>5. TraceFollowsCalls' /\ events' \in Seq(Row)
    BY <2>1, TraceUntouched
  <2> QED
    BY <2>1, <2>3, <2>4, <2>5 DEF Slotted
<1>4. CASE Overlap
  <2>1. PICK j \in Call : st' = [i \in Call |-> IF i \in cur .. j THEN "queued" ELSE st[i]]
    BY <1>4 DEF Overlap
  <2>2. /\ pc = "pick" /\ pc' = "overlap" /\ cur' = cur /\ calls' = calls
        /\ events' = events /\ asked' = asked /\ pending' = pending /\ children' = children
    BY <1>4 DEF Overlap, recorder
  <2>3. \A k \in asked : st'[k] # "waiting"
    BY <2>1, <1>0 DEF Slotted
  <2>4. TraceFollowsCalls' /\ events' \in Seq(Row)
    BY <2>2, TraceUntouched
  <2> QED
    BY <2>2, <2>3, <2>4 DEF Slotted
<1>5. CASE End
  <2>1. /\ pc = "calling" /\ calls' = calls /\ asked' = asked
        /\ st' = [st EXCEPT ![cur] = "finished"]
    BY <1>5 DEF End
  <2>2. cur \in Call /\ calls[cur] # "unparsed" /\ children = {cur} \cap asked
    BY <2>1 DEF Progress, Answered, Slotted
  <2>3. PICK out \in Outcomes :
          IF out = "raise"
          THEN pc' = "raised" /\ UNCHANGED <<cur, recorder>>
          ELSE /\ pc' = "pick" /\ After(cur, [out |-> out, seen |-> world], children)
               /\ pending' = 0 /\ children' = {}
    BY <1>5 DEF End
  <2>4. \A k \in asked : st'[k] # "waiting"
    BY <2>1, <1>0 DEF Slotted
  <2>5. CASE out = "raise"
    <3>1. pc' = "raised" /\ cur' = cur /\ events' = events
      BY <2>3, <2>5 DEF recorder
    <3>2. TraceFollowsCalls' /\ events' \in Seq(Row)
      BY <2>1, <3>1, TraceUntouched
    <3> QED
      BY <2>1, <2>4, <3>1, <3>2 DEF Slotted
  <2>6. CASE out # "raise"
    <3> DEFINE row == [out |-> out, seen |-> world]
    <3>1. row \in Answer /\ row.out \in Outcomes
      BY <2>6 DEF Answer, Outcomes, Refusals, TypeOK
    <3>2. After(cur, row, children) /\ pc' = "pick" /\ pending' = 0 /\ children' = {}
      BY <2>3, <2>6
    <3> HIDE DEF row
    <3>3. /\ events' \in Seq(Row)
          /\ \A e \in DOMAIN events' :
                /\ events'[e].nested = {events'[e].call} \cap asked'
                /\ e > 1 => events'[e - 1].call < events'[e].call
          /\ {events'[e].call : e \in DOMAIN events'}
                = {i \in 1 .. (cur' - 1) : calls'[i] # "unparsed"}
      BY <2>1, <2>2, <3>1, <3>2, RowAdded
    <3> QED
      BY <2>1, <2>4, <3>2, <3>3 DEF Slotted, TraceFollowsCalls
  <2> QED
    BY <2>5, <2>6
<1>6. CASE Process
  <2>0. /\ pc = "overlap" /\ cur <= last /\ last \in Call /\ st' = st
        /\ calls' = calls /\ asked' = asked /\ pending' = pending /\ children' = children
    BY <1>6 DEF Process, Joined, Progress, threads
  <2>1. cur \in Call /\ pending = 0 /\ children = {}
    BY <2>0 DEF TypeOK, Slotted
  <2>2. st[cur] = "finished" /\ Safe(cur) /\ got[cur].out # "none"
    <3>1. cur \in cur .. last
      BY <2>0, <1>0
    <3> QED
      BY <1>6, <2>0, <2>1, <3>1, <1>0 DEF Process, Joined, Progress
  <2>3. CASE got[cur].out = "raise"
    <3>1. pc' = "raised" /\ cur' = cur /\ events' = events
      BY <1>6, <2>3 DEF Process
    <3>2. TraceFollowsCalls' /\ events' \in Seq(Row)
      BY <2>0, <3>1, TraceUntouched
    <3> QED
      BY <2>0, <3>1, <3>2 DEF Slotted
  <2>4. CASE got[cur].out # "raise"
    <3>1. got[cur] \in [out : Outcomes \cup {"none"}, seen : Nat]
      BY <2>1 DEF TypeOK
    <3>2. got[cur] \in Answer /\ got[cur].out \in Outcomes
      BY <3>1, <2>2, <2>4 DEF Answer, Outcomes, Refusals
    <3>3. After(cur, got[cur], {}) /\ pc' \in {"pick", "overlap"}
      BY <1>6, <2>4 DEF Process
    <3>4. calls[cur] # "unparsed"
      BY <2>2 DEF Safe, ParallelSafe
    <3>5. {cur} \cap asked = {}
      BY <2>2 DEF Slotted, Safe, ParallelSafe
    <3>6. /\ events' \in Seq(Row)
          /\ \A e \in DOMAIN events' :
                /\ events'[e].nested = {events'[e].call} \cap asked'
                /\ e > 1 => events'[e - 1].call < events'[e].call
          /\ {events'[e].call : e \in DOMAIN events'}
                = {i \in 1 .. (cur' - 1) : calls'[i] # "unparsed"}
      BY <2>0, <2>1, <3>2, <3>3, <3>4, <3>5, RowAdded
    <3> QED
      BY <2>0, <2>1, <3>3, <3>6 DEF Slotted, TraceFollowsCalls
  <2> QED
    BY <2>3, <2>4
<1>7. CASE Merge
  <2>1. /\ pc = "pick" /\ pc' = "returned" /\ calls' = calls /\ cur' = cur /\ st' = st
        /\ events' = events /\ asked' = asked /\ pending' = pending /\ children' = children
    BY <1>7 DEF Merge, threads, recorder
  <2>2. TraceFollowsCalls' /\ events' \in Seq(Row)
    BY <2>1, TraceUntouched
  <2> QED
    BY <2>1, <2>2 DEF Slotted
<1>8. CASE Interrupt
  <2>1. /\ pc' = "raised" /\ calls' = calls /\ cur' = cur /\ events' = events /\ asked' = asked
        /\ st' = IF pc = "calling" THEN [st EXCEPT ![cur] = "finished"] ELSE st
    BY <1>8 DEF Interrupt, recorder
  <2>2. \A k \in asked : st'[k] # "waiting"
    BY <2>1, <1>0 DEF Slotted
  <2>3. TraceFollowsCalls' /\ events' \in Seq(Row)
    BY <2>1, TraceUntouched
  <2> QED
    BY <2>1, <2>2, <2>3 DEF Slotted
<1>9. ASSUME NEW i \in Call, AskLLM(i)
      PROVE  Slotted' /\ TraceFollowsCalls'
  <2>1. pc = "calling" /\ i = cur /\ cur \in Call
    BY <1>9, OnlyAloneAsks
  <2>2. /\ st[cur] = "running" /\ asked' = asked \cup {cur} /\ children' = {cur}
        /\ calls' = calls /\ pc' = pc /\ cur' = cur /\ st' = st
        /\ events' = events /\ pending' = pending /\ pending = cur
    <3>1. pending = cur /\ children = {cur} \cap asked /\ cur # 0
      BY <2>1, <1>0 DEF Slotted
    <3>2. children' = children \cup {i} /\ st[i] = "running"
      BY <1>9, <3>1 DEF AskLLM
    <3> QED
      BY <1>9, <2>1, <3>1, <3>2 DEF AskLLM, main, threads
  <2>3. \A e \in DOMAIN events : events[e].call # cur
    <3>1. {events[e].call : e \in DOMAIN events} = {k \in 1 .. (cur - 1) : calls[k] # "unparsed"}
      BY DEF TraceFollowsCalls
    <3>2. \A e \in DOMAIN events : events[e].call \in 1 .. (cur - 1)
      BY <3>1
    <3> QED
      BY <3>2, <1>0
  <2>4. TraceFollowsCalls'
    BY <2>1, <2>2, <2>3 DEF TraceFollowsCalls
  <2> QED
    BY <1>9, <2>1, <2>2, <2>4 DEF Slotted, AskLLM
<1>10. ASSUME NEW i \in Call, StartWorker(i) \/ FinishWorker(i)
       PROVE  Slotted' /\ TraceFollowsCalls'
  <2>1. /\ calls' = calls /\ pc' = pc /\ cur' = cur /\ events' = events /\ asked' = asked
        /\ pending' = pending /\ children' = children
        /\ st' = [st EXCEPT ![i] = "running"] \/ st' = [st EXCEPT ![i] = "finished"]
    BY <1>10 DEF StartWorker, FinishWorker, main, recorder
  <2>2. \A k \in asked : st'[k] # "waiting"
    BY <2>1, <1>0 DEF Slotted
  <2>3. TraceFollowsCalls' /\ events' \in Seq(Row)
    BY <2>1, TraceUntouched DEF TraceFollowsCalls
  <2> QED
    BY <2>1, <2>2, <2>3 DEF Slotted
<1>11. CASE UNCHANGED vars
  <2>1. /\ calls' = calls /\ pc' = pc /\ cur' = cur /\ events' = events /\ asked' = asked
        /\ pending' = pending /\ children' = children /\ st' = st
    BY <1>11 DEF vars, main, threads, recorder
  <2> QED
    BY <2>1 DEF Slotted, TraceFollowsCalls
<1> QED
  BY <1>1, <1>2, <1>3, <1>4, <1>5, <1>6, <1>7, <1>8, <1>9, <1>10, <1>11
  DEF Next, Main, Worker
-----------------------------------------------------------------------------
(* Before the first call nothing has begun. *)
LEMMA InvariantAtFirst == Init => IInv
<1> SUFFICES ASSUME Init PROVE IInv
  OBVIOUS
<1>1. calls \in Seq(Kinds)
  BY DispatchAssumption DEF Init
<1>2. Call = 1 .. Len(calls) /\ Len(calls) \in Nat
  BY <1>1 DEF Call
<1>3. TypeOK
  BY <1>1, <1>2 DEF Init, TypeOK, Nothing
<1>4. Progress
  BY <1>2 DEF Init, Progress, Before, Beyond
<1>5. {i \in Call : st[i] = "running"} = {}
  BY DEF Init
<1>6. Cardinality({i \in Call : st[i] = "running"}) = 0
  BY <1>5, FS_EmptySet
<1>7. BarrierHolds
  BY <1>6, DispatchAssumption DEF BarrierHolds, Init
<1>8. Answered
  BY <1>2 DEF Init, Answered, Before, Nothing
<1>9. Slotted /\ TraceFollowsCalls
  BY DEF Init, Slotted, TraceFollowsCalls
<1> QED
  BY <1>3, <1>4, <1>7, <1>8, <1>9 DEF IInv

(* A call that may change something is a barrier in every reachable state,  *)
(* however the pool schedules the others and wherever Ctrl-C strikes, and   *)
(* no more calls run than there are workers (tool_execution:197, 347).      *)
THEOREM BarrierKept == Spec => []IInv
<1>1. IInv /\ [Next]_vars => IInv'
  BY TypeStep, ProgressStep, BarrierStep, AnsweredStep, TraceStep DEF IInv
<1> QED
  BY InvariantAtFirst, <1>1, PTL DEF Spec

(* The conversation gets one answer per call, in call order, or none at     *)
(* all, whatever raises and wherever Ctrl-C strikes (tool_dispatch:29).     *)
THEOREM AnsweredOrNot == Spec => []AllOrNothing
<1>1. IInv => AllOrNothing
  <2> SUFFICES ASSUME IInv PROVE AllOrNothing
    OBVIOUS
  <2>1. CASE pc = "returned"
    <3>1. conversation = tool_messages /\ cur = Len(calls) + 1 /\ Len(tool_messages) = cur - 1
      BY <2>1 DEF IInv, Answered
    <3>2. Call = 1 .. Len(calls) /\ Len(calls) \in Nat
      BY CallsAreNumbered DEF IInv
    <3>3. \A k \in Call : k < cur
      BY <3>1, <3>2
    <3>4. Len(conversation) = Len(calls)
      BY <3>1, <3>2
    <3> QED
      BY <2>1, <3>1, <3>3, <3>4 DEF IInv, Answered, AllOrNothing
  <2>2. CASE pc # "returned"
    BY <2>2 DEF IInv, Answered, AllOrNothing
  <2> QED
    BY <2>1, <2>2
<1> QED
  BY BarrierKept, <1>1, PTL

(* The trace rows are the answered calls in call order, and an LLM call a   *)
(* tool made hangs under that tool's row and no other (recorder:299).       *)
THEOREM TraceKept == Spec => []TraceFollowsCalls
<1>1. IInv => TraceFollowsCalls
  BY DEF IInv
<1> QED
  BY BarrierKept, <1>1, PTL
-----------------------------------------------------------------------------
(* Nothing that has been answered changes, and the run is not over. *)
Stutter == UNCHANGED <<calls, tool_messages, world, tainted, cloned>>

(* The call the abstract dispatch is at is the one the main thread is at. *)
LEMMA SameCall ==
    ASSUME TypeOK, Answered, cur \in Call, pc \notin {"raised", "returned"}
    PROVE  /\ Len(tool_messages) < Len(calls) /\ Sequential!Current = calls[cur]
           /\ (IF pc \in {"raised", "returned"} THEN pc ELSE "running") = "running"
<1>1. cur \in Nat /\ cur \in 1 .. Len(calls) /\ Len(calls) \in Nat
  BY CallsAreNumbered
<1>2. Len(tool_messages) = cur - 1
  BY DEF Answered
<1>3. Len(tool_messages) + 1 = cur
  BY <1>1, <1>2
<1> QED
  BY <1>1, <1>2, <1>3 DEF Sequential!Current

(* A step between two answers is none of the abstract dispatch's. *)
LEMMA StutterImplements ==
    ASSUME Stutter, \/ pc' = pc
                    \/ pc \notin {"raised", "returned"} /\ pc' \notin {"raised", "returned"}
    PROVE  UNCHANGED Sequential!vars
BY DEF Stutter, Sequential!vars

(* Ending a message without an answer is the abstract dispatch's Raise. *)
LEMMA RaiseImplements ==
    ASSUME Stutter, pc \notin {"raised", "returned"}, pc' = "raised"
    PROVE  Sequential!Next
BY DEF Stutter, Sequential!Next, Sequential!Raise

(* A call that is cut short, whatever it changed and noted by then, is its  *)
(* Touch.                                                                   *)
LEMMA TouchImplements ==
    ASSUME TypeOK, Answered, cur \in Call, pc \notin {"raised", "returned"}, pc' = "raised",
           world' = world \/ (calls[cur] \in Mutating /\ world' = world + 1),
           MayNote(calls[cur]), UNCHANGED <<calls, tool_messages>>
    PROVE  Sequential!Next
<1>1. /\ Len(tool_messages) < Len(calls) /\ Sequential!Current = calls[cur]
      /\ (IF pc \in {"raised", "returned"} THEN pc ELSE "running") = "running"
  BY SameCall
<1>2. Sequential!Changes(calls[cur], "raise") /\ Sequential!MayNote(calls[cur])
  BY DEF Sequential!Changes, Sequential!MayNote, MayNote
<1>3. Sequential!Touch
  BY <1>1, <1>2 DEF Sequential!Touch
<1> QED
  BY <1>3 DEF Sequential!Next

(* Answering the call that is up is its Perform, when the answer is one the *)
(* call may get in the state the abstract dispatch is in.                   *)
LEMMA AnswerImplements ==
    ASSUME TypeOK, Answered, cur \in Call, pc \notin {"raised", "returned"},
           pc' \notin {"raised", "returned"}, NEW out \in Sequential!Handled,
           out = "reduced" => Reduced(cur),
           out \in {"ok", "failed"} => Safe(cur) \/ ~Reduced(cur),
           out = "unparsed" <=> calls[cur] = "unparsed",
           \/ UNCHANGED world
           \/ calls[cur] \in Mutating /\ out \in {"ok", "failed"} /\ world' = world + 1,
           AppendResult(cur, [out |-> out, seen |-> world]), calls' = calls,
           ApplyProvenance(calls[cur], out)
    PROVE  Sequential!Next
<1>1. /\ Len(tool_messages) < Len(calls) /\ Sequential!Current = calls[cur]
      /\ (IF pc \in {"raised", "returned"} THEN pc ELSE "running") = "running"
  BY SameCall
<1>2. Sequential!Changes(calls[cur], out)
  BY DEF Sequential!Changes
<1>3. Sequential!Notes(calls[cur], out)
  BY DEF Sequential!Notes, Sequential!MayNote, ApplyProvenance, MayNote
<1>4. /\ out = "reduced" => calls[cur] \in Builds /\ tainted /\ cloned
      /\ out \in {"ok", "failed"} => ~(calls[cur] \in Builds \cap Mutating /\ tainted /\ cloned)
  BY DEF Reduced, Safe, ParallelSafe, Mutating
<1>5. tool_messages' = Append(tool_messages, [out |-> out, seen |-> world])
  BY DEF AppendResult
<1>6. Sequential!Perform(out)
  BY <1>1, <1>2, <1>3, <1>4, <1>5 DEF Sequential!Perform
<1> QED
  BY <1>6 DEF Sequential!Next

(* Every step of the overlapped dispatch is a step of the sequential one or *)
(* leaves it as it is: one step per action.                                 *)
LEMMA StepImplements ==
    ASSUME IInv, [Next]_vars
    PROVE  [Sequential!Next]_(Sequential!vars)
<1>0. TypeOK /\ Progress /\ Answered /\ world \in Nat
  BY DEF IInv, TypeOK
<1>1. CASE Plan
  <2>1. Stutter /\ pc = "plan" /\ pc' \in {"raised", "pick"}
    BY <1>1 DEF Plan, Stutter, results, run
  <2> QED
    BY <2>1, StutterImplements, RaiseImplements
<1>2. CASE ParseError
  <2>1. /\ pc = "pick" /\ pc' = "pick" /\ cur \in Call /\ calls[cur] = "unparsed"
        /\ AppendResult(cur, [out |-> "unparsed", seen |-> world])
        /\ calls' = calls /\ world' = world /\ tainted' = tainted /\ cloned' = cloned
    BY <1>2 DEF ParseError, run
  <2>2. ApplyProvenance(calls[cur], "unparsed")
    BY <2>1, <1>0 DEF ApplyProvenance, TypeOK
  <2>3. "unparsed" \in Sequential!Handled
    BY DEF Sequential!Handled
  <2> QED
    BY <1>0, <2>1, <2>2, <2>3, AnswerImplements
<1>3. CASE Begin
  <2>1. Stutter /\ pc = "pick" /\ pc' = "calling"
    BY <1>3 DEF Begin, Stutter, results, run
  <2> QED
    BY <2>1, StutterImplements
<1>4. CASE Overlap
  <2>1. Stutter /\ pc = "pick" /\ pc' = "overlap"
    BY <1>4 DEF Overlap, Stutter, results, run
  <2> QED
    BY <2>1, StutterImplements
<1>5. CASE End
  <2>1. pc = "calling" /\ calls' = calls
    BY <1>5 DEF End
  <2>2. cur \in Call /\ calls[cur] # "unparsed"
    BY <1>0, <2>1 DEF Progress, Answered
  <2>3. PICK out \in Outcomes :
          /\ Invoke(cur, out)
          /\ IF out = "raise"
             THEN /\ pc' = "raised" /\ MayNote(calls[cur])
                  /\ UNCHANGED <<cur, results, recorder>>
             ELSE pc' = "pick" /\ After(cur, [out |-> out, seen |-> world], children)
    BY <1>5 DEF End
  <2>4. CASE out = "raise"
    <3>1. pc' = "raised" /\ tool_messages' = tool_messages /\ MayNote(calls[cur])
      BY <2>3, <2>4 DEF results
    <3>2. world' = world \/ (calls[cur] \in Mutating /\ world' = world + 1)
      BY <2>3 DEF Invoke
    <3> QED
      BY <1>0, <2>1, <2>2, <3>1, <3>2, TouchImplements
  <2>5. CASE out # "raise"
    <3>1. /\ pc' = "pick" /\ AppendResult(cur, [out |-> out, seen |-> world])
          /\ ApplyProvenance(calls[cur], out)
      BY <2>3, <2>5 DEF After
    <3>2. out \in Sequential!Handled /\ out # "unparsed"
      BY <2>5 DEF Sequential!Handled, Outcomes, Refusals
    <3>3. (out = "reduced" => Reduced(cur)) /\ (out \in {"ok", "failed"} => ~Reduced(cur))
      BY <2>3 DEF Invoke, GateRefuses, Passed, Refusals
    <3>4. \/ UNCHANGED world
          \/ calls[cur] \in Mutating /\ out \in {"ok", "failed"} /\ world' = world + 1
      BY <2>3, <2>5 DEF Invoke
    <3> QED
      BY <1>0, <2>1, <2>2, <3>1, <3>2, <3>3, <3>4, AnswerImplements
  <2> QED
    BY <2>4, <2>5
<1>6. CASE Process
  <2>0. pc = "overlap" /\ cur <= last /\ last \in Call /\ calls' = calls /\ world' = world
    BY <1>0, <1>6 DEF Process, Joined, Progress
  <2>1. cur \in Call /\ cur \in Nat /\ last \in Nat
    BY <1>0, <2>0, CallsAreNumbered DEF TypeOK
  <2>2. st[cur] = "finished" /\ Safe(cur) /\ got[cur].out # "none"
    <3>1. cur \in cur .. last
      BY <2>0, <2>1
    <3> QED
      BY <1>0, <1>6, <2>0, <2>1, <3>1 DEF Process, Joined, Progress
  <2>3. got[cur].seen = world /\ (got[cur].out = "reduced" => Reduced(cur))
    BY <1>0, <2>0, <2>1, <2>2 DEF Answered
  <2>4. CASE got[cur].out = "raise"
    <3>1. Stutter /\ pc' = "raised"
      BY <1>6, <2>0, <2>4 DEF Process, Stutter, results
    <3> QED
      BY <2>0, <3>1, RaiseImplements
  <2>5. CASE got[cur].out # "raise"
    <3>1. got[cur] \in [out : Outcomes \cup {"none"}, seen : Nat]
      BY <1>0, <2>1 DEF TypeOK
    <3>2. got[cur] = [out |-> got[cur].out, seen |-> world]
      BY <2>3, <3>1
    <3>3. got[cur].out \in Sequential!Handled /\ got[cur].out # "unparsed"
      BY <3>1, <2>2, <2>5 DEF Sequential!Handled, Outcomes, Refusals
    <3>4. /\ pc' \in {"pick", "overlap"} /\ AppendResult(cur, [out |-> got[cur].out, seen |-> world])
          /\ ApplyProvenance(calls[cur], got[cur].out)
      BY <1>6, <2>5, <3>2 DEF Process, After
    <3>5. calls[cur] # "unparsed"
      BY <2>2 DEF Safe, ParallelSafe
    <3> QED
      BY <1>0, <2>0, <2>1, <2>2, <2>3, <3>3, <3>4, <3>5, AnswerImplements
  <2> QED
    BY <2>4, <2>5
<1>7. CASE Merge
  <2>1. Stutter /\ pc = "pick" /\ pc' = "returned" /\ cur > Len(calls)
    BY <1>7 DEF Merge, Stutter, run
  <2>2. Len(tool_messages) = Len(calls)
    BY <1>0, <2>1, CallsAreNumbered DEF Answered, TypeOK
  <2> QED
    BY <2>1, <2>2 DEF Stutter, Sequential!Next, Sequential!Return
<1>8. CASE Interrupt
  <2>1. /\ pc \in {"pick", "calling", "overlap"} /\ pc' = "raised" /\ calls' = calls
        /\ tool_messages' = tool_messages
    BY <1>8 DEF Interrupt, results
  <2>2. CASE pc = "calling" \/ Joined
    <3>1. cur \in Call
      BY <1>0, <2>2, CallsAreNumbered DEF Progress, Joined, TypeOK
    <3>2. world' = world \/ (calls[cur] \in Mutating /\ world' = world + 1)
      BY <1>8 DEF Interrupt
    <3>3. MayNote(calls[cur])
      BY <1>8, <2>2 DEF Interrupt
    <3> QED
      BY <1>0, <2>1, <3>1, <3>2, <3>3, TouchImplements
  <2>3. CASE ~(pc = "calling" \/ Joined)
    <3>1. world' = world /\ tainted' = tainted /\ cloned' = cloned
      BY <1>8, <2>3 DEF Interrupt
    <3> QED
      BY <2>1, <3>1, RaiseImplements DEF Stutter
  <2> QED
    BY <2>2, <2>3
<1>9. ASSUME NEW i \in Call, StartWorker(i) \/ AskLLM(i)
      PROVE  UNCHANGED Sequential!vars
  <2>1. Stutter /\ pc' = pc
    BY <1>9 DEF StartWorker, AskLLM, Stutter, main, results, run
  <2> QED
    BY <2>1, StutterImplements
<1>10. ASSUME NEW i \in Call, FinishWorker(i)
       PROVE  UNCHANGED Sequential!vars
  <2>1. /\ st[i] = "running" /\ pc # "calling" /\ pc' = pc /\ calls' = calls
        /\ tool_messages' = tool_messages /\ tainted' = tainted /\ cloned' = cloned
    BY <1>10 DEF FinishWorker, main, results
  <2>2. PICK out \in Outcomes : Invoke(i, out)
    BY <1>10 DEF FinishWorker
  <2>3. world' = world
    BY <1>0, <2>1, <2>2, RunningIsSafe, SafeInvoke
  <2> QED
    BY <2>1, <2>3, StutterImplements DEF Stutter
<1>11. CASE UNCHANGED vars
  <2>1. Stutter /\ pc' = pc
    BY <1>11 DEF vars, main, results, run, Stutter
  <2> QED
    BY <2>1, StutterImplements
<1> QED
  BY <1>1, <1>2, <1>3, <1>4, <1>5, <1>6, <1>7, <1>8, <1>9, <1>10, <1>11
  DEF Next, Main, Worker

(* Overlapping is not observable but for the reduction of read-only lines: *)
(* for every message, every number of workers and every schedule, each     *)
(* answer, the workspace and the provenance of the run are those of        *)
(* carrying the calls out one after the other in call order, no call is    *)
(* reduced that would not be then, and none that may change something      *)
(* passes the reduction by overlapping (tool_execution:347).  A read-only  *)
(* line may pass it beside the fetch that would have reduced it.           *)
THEOREM OverlapUnseen == Spec => ActsSequentially
<1>1. Init => Sequential!Init
  BY DEF Init, Sequential!Init
<1>2. IInv /\ [Next]_vars => [Sequential!Next]_(Sequential!vars)
  BY StepImplements
<1> QED
  BY <1>1, <1>2, BarrierKept, PTL DEF Spec, ActsSequentially, Sequential!Spec
=============================================================================
