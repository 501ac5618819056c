---------------------------- MODULE ToolExecutor ----------------------------
(***************************************************************************)
(* Tool dispatch for one assistant message (engine/tool_execution): calls  *)
(* are parsed, partitioned into groups, run one by one or overlapped in a  *)
(* bounded thread pool, turned into tool messages, records and trace rows  *)
(* in call order, and merged into the conversation by ToolDispatchNode     *)
(* only once all of them are done.                                         *)
(*                                                                         *)
(* A call is its kind: "read" (read_file or a provably read-only bash      *)
(* line), "fetch" (fetch_web), "write" (write_file, or any other bash      *)
(* line), "query" (read_tool_artifact, which calls the LLM itself),        *)
(* "delegate", "unparsed" (no usable call), "odd" (bash arguments that are *)
(* valid JSON but no object), and the bash lines whose text one of the     *)
(* provenance patterns matches: "build", "clone" and, for both, "setup",   *)
(* and the read-only lines that only speak of it, "scan" for the build     *)
(* pattern (grep make Makefile) and "look" for the clone pattern.  The     *)
(* workspace is the number of changes made to it, a result the number its  *)
(* call saw.  The verdicts of the hook, exfiltration, command and egress   *)
(* gates are inputs.  Left out: envelope fields, previews, latencies and   *)
(* log lines.                                                              *)
(***************************************************************************)
EXTENDS Naturals, Sequences, FiniteSets

CONSTANTS
    Messages,    \* the call sequences a message may carry
    Workers      \* max_tool_concurrency()

Kinds == {"read", "scan", "look", "fetch", "write", "clone", "build", "setup",
          "query", "delegate", "unparsed", "odd"}

ASSUME DispatchAssumption == Messages \subseteq Seq(Kinds) /\ Workers \in Nat \ {0}

VARIABLES
    calls,          \* the parsed calls, in call order
    pc,             \* of the main thread
    cur,            \* the first call not yet appended
    last,           \* the last call of the overlapped group
    st,             \* per call: "waiting", "queued", "running" or "finished"
    got,            \* what the call's invocation came to
    tool_messages,  \* the answers, in call order
    events,         \* the tool_call rows of events.jsonl
    pending,        \* the recorder's single slot: the call it times, or 0
    children,       \* the LLM calls stashed for the pending call
    asked,          \* calls that made an LLM call of their own
    conversation,   \* what ToolDispatchNode appended to ctx.messages
    world, tainted, cloned

main == <<pc, cur, last>>
threads == <<st, got>>
results == <<tool_messages, conversation>>
recorder == <<events, pending, children>>
run == <<world, tainted, cloned>>
vars == <<calls, main, threads, results, recorder, asked, run>>

Mutating == {"write", "clone", "build", "setup", "delegate"}

(* The lines _INSTALL_BUILD_RE and _GIT_CLONE_RE match, whether they build *)
(* and clone or not.                                                       *)
Builds == {"build", "setup", "scan"}
Clones == {"clone", "setup", "look"}

Call == DOMAIN calls

(* concurrency.is_parallel_safe                                            *)
ParallelSafeWrites(kind) == kind \in {"read", "scan", "look", "fetch", "write"}    \* mutant
ParallelSafe(kind) == kind \in {"read", "scan", "look", "fetch"}
Safe(i) == ParallelSafe(calls[i])

Nothing == [out |-> "none", seen |-> 0]

Init ==
    /\ calls \in Messages
    /\ pc = "plan" /\ cur = 1 /\ last = 0
    /\ st = [i \in Call |-> "waiting"] /\ got = [i \in Call |-> Nothing]
    /\ tool_messages = <<>> /\ conversation = <<>>
    /\ events = <<>> /\ pending = 0 /\ children = {} /\ asked = {}
    /\ world = 0 /\ tainted \in BOOLEAN /\ cloned \in BOOLEAN

(* _plan_groups asks is_parallel_safe of every call: arguments that are no *)
(* object raise there, before the first call runs.                         *)
Plan ==
    /\ pc = "plan"
    /\ pc' = IF \E i \in Call : calls[i] = "odd" THEN "raised" ELSE "pick"
    /\ UNCHANGED <<calls, cur, last, threads, results, recorder, asked, run>>

(* A maximal run of two or more contiguous parallel-safe calls.            *)
GroupTakesBarrier(i, j) ==      \* mutant: the call that ends the run is taken too
    /\ i < j /\ \A k \in i .. (j - 1) : Safe(k)
    /\ j < Len(calls) => ~Safe(j)
Group(i, j) ==
    /\ i < j /\ \A k \in i .. j : Safe(k)
    /\ j < Len(calls) => ~Safe(j + 1)
Alone(i) == Safe(i) => (i < Len(calls) => ~Safe(i + 1))

AppendAtOnce(i, row) ==         \* mutant: straight into the conversation
    /\ tool_messages' = Append(tool_messages, row)
    /\ cur' = i + 1
    /\ conversation' = Append(conversation, row)
AppendResult(i, row) ==
    /\ tool_messages' = Append(tool_messages, row)
    /\ cur' = i + 1
    /\ UNCHANGED conversation

(* _append_parse_error: an answer, but no trace row.                       *)
ParseError ==
    /\ pc = "pick" /\ cur \in Call /\ calls[cur] = "unparsed"
    /\ AppendResult(cur, [out |-> "unparsed", seen |-> world])
    /\ st' = [st EXCEPT ![cur] = "finished"]
    /\ UNCHANGED <<calls, pc, last, got, recorder, asked, run>>

(* _dispatch_one: before_tool stamps the recorder's slot.                  *)
BeginUnstamped ==               \* mutant: without the recorder's before_tool
    /\ pc = "pick" /\ cur \in Call /\ calls[cur] # "unparsed" /\ Alone(cur)
    /\ pc' = "calling"
    /\ st' = [st EXCEPT ![cur] = "running"]
    /\ UNCHANGED <<calls, cur, last, got, results, events, pending, children, asked, run>>
Begin ==
    /\ pc = "pick" /\ cur \in Call /\ calls[cur] # "unparsed" /\ Alone(cur)
    /\ pc' = "calling"
    /\ st' = [st EXCEPT ![cur] = "running"]
    /\ pending' = cur /\ children' = {}
    /\ UNCHANGED <<calls, cur, last, got, results, events, asked, run>>

(* _dispatch_parallel: the whole group goes to the pool.                   *)
Overlap ==
    /\ pc = "pick" /\ cur \in Call
    /\ \E j \in Call :
          /\ Group(cur, j)
          /\ last' = j
          /\ st' = [i \in Call |-> IF i \in cur .. j THEN "queued" ELSE st[i]]
    /\ pc' = "overlap"
    /\ UNCHANGED <<calls, cur, got, results, recorder, asked, run>>

(* A free worker takes the oldest queued call.                             *)
StartWorkerOnce(i) ==           \* mutant: a finished worker takes no further call
    /\ st[i] = "queued"
    /\ \A k \in Call : st[k] = "queued" => i <= k
    /\ Cardinality({k \in Call : st[k] = "running" \/ (k \in cur .. last /\ st[k] = "finished")})
         < Workers
    /\ st' = [st EXCEPT ![i] = "running"]
    /\ UNCHANGED <<calls, main, got, results, recorder, asked, run>>
StartWorker(i) ==
    /\ st[i] = "queued"
    /\ \A k \in Call : st[k] = "queued" => i <= k
    /\ Cardinality({k \in Call : st[k] = "running"}) < Workers
    /\ st' = [st EXCEPT ![i] = "running"]
    /\ UNCHANGED <<calls, main, got, results, recorder, asked, run>>

(* The extraction call inside read_tool_artifact: record_llm_call stashes  *)
(* it for whatever call the slot holds.                                    *)
AskLLM(i) ==
    /\ st[i] = "running" /\ calls[i] = "query" /\ i \notin asked
    /\ asked' = asked \cup {i}
    /\ children' = IF pending = 0 THEN children ELSE children \cup {i}
    /\ UNCHANGED <<calls, main, threads, results, events, pending, run>>

(* The gates refuse a call before it runs, or its tool runs and ends.      *)
Refusals == {"blocked", "reduced"}
Outcomes == Refusals \cup {"ok", "failed", "raise"}

(* provenance.check_reduction: what the run has seen narrows what it may   *)
(* do.  A worker asks in a copy of the context its group was submitted in, *)
(* and the taint of a group is noted only once all of it is finished.      *)
Reduced(i) == calls[i] \in Builds /\ tainted /\ cloned
Passed(i) == IF Reduced(i) THEN {} ELSE {"ok", "failed", "raise"}
GateRefuses(i) == IF Reduced(i) THEN Refusals ELSE {"blocked"}

(* invoke_tool: the gates in order, then the tool.  A recoverable or       *)
(* raising tool may have done part of its work.                            *)
Invoke(i, out) ==
    /\ out \in GateRefuses(i) \cup Passed(i)
    /\ got' = [got EXCEPT ![i] = [out |-> out, seen |-> world]]
    /\ \/ out # "ok" /\ UNCHANGED world
       \/ calls[i] \notin Mutating /\ UNCHANGED world
       \/ calls[i] \in Mutating /\ out \in {"ok", "failed", "raise"} /\ world' = world + 1

(* A pool thread finishes its call; nothing else of the run is touched.    *)
FinishWorker(i) ==
    /\ st[i] = "running" /\ pc # "calling"
    /\ \E out \in Outcomes : Invoke(i, out)
    /\ st' = [st EXCEPT ![i] = "finished"]
    /\ UNCHANGED <<calls, main, results, recorder, asked, tainted, cloned>>

(* What a call may have noted when it is cut short.  A subagent runs in    *)
(* the context of its parent, and what it fetches and clones is noted      *)
(* there, however it ends.                                                 *)
MayNote(kind) ==
    /\ tainted' \in {tainted, tainted \/ kind \in {"fetch", "delegate"}}
    /\ cloned' \in {cloned, cloned \/ kind \in Clones \cup {"delegate"}}

(* _apply_provenance: fetched content taints the run, a clone is noted.    *)
ApplyProvenance(kind, out) ==
    IF kind = "delegate" /\ out # "blocked" THEN MayNote(kind)
    ELSE /\ tainted' = (tainted \/ (kind = "fetch" /\ out = "ok"))
         /\ cloned' = (cloned \/ (kind \in Clones /\ out = "ok"))

(* after_tool_call and _append_result: provenance, the trace row with the  *)
(* nested LLM calls (sequential path only), then the answer.               *)
After(i, row, nested) ==
    /\ AppendResult(i, row)
    /\ events' = Append(events, [call |-> i, out |-> row.out, nested |-> nested])
    /\ ApplyProvenance(calls[i], row.out)

End ==
    /\ pc = "calling"
    /\ st' = [st EXCEPT ![cur] = "finished"]
    /\ \E out \in Outcomes :
          /\ Invoke(cur, out)
          /\ IF out = "raise"
             THEN pc' = "raised" /\ MayNote(calls[cur])
                  /\ UNCHANGED <<cur, results, recorder>>
             ELSE /\ pc' = "pick"
                  /\ After(cur, [out |-> out, seen |-> world], children)
                  /\ pending' = 0 /\ children' = {}
    /\ UNCHANGED <<calls, last, asked>>

(* The pool is joined; results are taken in call order, and the first      *)
(* raising call ends the message.                                          *)
Joined == pc = "overlap" /\ \A k \in cur .. last : st[k] = "finished"
Process ==
    /\ Joined
    /\ IF got[cur].out = "raise"
       THEN pc' = "raised" /\ UNCHANGED <<cur, results, events, tainted, cloned>>
       ELSE /\ pc' = IF cur = last THEN "pick" ELSE "overlap"
            /\ After(cur, got[cur], {})
    /\ UNCHANGED <<calls, last, threads, pending, children, asked, world>>

(* ToolDispatchNode.run: the answers reach the conversation together.      *)
Merge ==
    /\ pc = "pick" /\ cur > Len(calls)
    /\ pc' = "returned" /\ conversation' = conversation \o tool_messages
    /\ UNCHANGED <<calls, cur, last, threads, tool_messages, recorder, asked, run>>

(* Ctrl-C in the main thread, also between what a call notes and its       *)
(* answer; workers under way are not stopped by it.                        *)
Interrupt ==
    /\ pc \in {"pick", "calling", "overlap"}
    /\ pc' = "raised"
    /\ \/ UNCHANGED world
       \/ pc = "calling" /\ calls[cur] \in Mutating /\ world' = world + 1
    /\ st' = IF pc = "calling" THEN [st EXCEPT ![cur] = "finished"] ELSE st
    /\ IF pc = "calling" \/ Joined THEN MayNote(calls[cur]) ELSE UNCHANGED <<tainted, cloned>>
    /\ UNCHANGED <<calls, cur, last, got, results, recorder, asked>>

Main == Plan \/ ParseError \/ Begin \/ Overlap \/ End \/ Process \/ Merge
Worker(i) == StartWorker(i) \/ AskLLM(i) \/ FinishWorker(i)

Next == Main \/ Interrupt \/ \E i \in Call : Worker(i)

(* Every tool ends (bash and the web by their timeouts), and a thread that *)
(* can go on does.                                                         *)
Fairness == WF_vars(Main) /\ WF_vars(\E i \in Call : StartWorker(i) \/ FinishWorker(i))
Spec == Init /\ [][Next]_vars
FairSpec == Spec /\ Fairness
-----------------------------------------------------------------------------
Answer == [out : {"ok", "blocked", "reduced", "failed", "unparsed"}, seen : Nat]

TypeOK ==
    /\ calls \in Messages
    /\ pc \in {"plan", "pick", "calling", "overlap", "raised", "returned"}
    /\ cur \in 1 .. (Len(calls) + 1) /\ last \in 0 .. Len(calls)
    /\ st \in [Call -> {"waiting", "queued", "running", "finished"}]
    /\ got \in [Call -> [out : Outcomes \cup {"none"}, seen : Nat]]
    /\ tool_messages \in Seq(Answer) /\ conversation \in Seq(Answer)
    /\ pending \in 0 .. Len(calls) /\ children \subseteq Call /\ asked \subseteq Call
    /\ world \in Nat /\ tainted \in BOOLEAN /\ cloned \in BOOLEAN

(* tool_execution:347 and 197: a call that may change something is a       *)
(* barrier: while it runs no other call runs or waits for a worker, every  *)
(* call before it is finished and none after it has begun; and no more     *)
(* calls run at once than there are workers.                               *)
BarrierHolds ==
    /\ \A i \in Call : st[i] = "running" /\ ~ParallelSafe(calls[i]) =>
          /\ \A k \in 1 .. (i - 1) : st[k] = "finished"
          /\ \A k \in (i + 1) .. Len(calls) : st[k] = "waiting"
    /\ Cardinality({i \in Call : st[i] = "running"}) <= Workers

(* How far each call is, by where the main thread is: what makes the       *)
(* barrier inductive.  A raised message leaves only safe calls under way.  *)
Before(i, state) == \A k \in Call : k < i => st[k] = state
Beyond(i, state) == \A k \in Call : k > i => st[k] = state
Progress ==
    /\ pc \in {"plan", "pick"} => Before(cur, "finished") /\ Beyond(cur - 1, "waiting")
    /\ pc = "calling" => /\ cur \in Call /\ st[cur] = "running"
                         /\ Before(cur, "finished") /\ Beyond(cur, "waiting")
    /\ pc = "overlap" => /\ cur <= last /\ last \in Call
                         /\ \A k \in Call : k >= cur /\ k <= last => Safe(k)
                         /\ \A k \in Call : k >= cur /\ k <= last /\ st[k] = "finished"
                                               => got[k].out # "none"
                         /\ Before(cur, "finished") /\ Beyond(last, "waiting")
    /\ pc \in {"raised", "returned"} =>
          \A k \in Call : st[k] \in {"queued", "running"} => Safe(k)
    /\ pc = "returned" => Before(Len(calls) + 1, "finished")

(* What the answers owe the calls so far.  In an overlapped group every    *)
(* call saw the workspace as the group found it and was refused only for   *)
(* what the run had seen by then, so taking the results in call order      *)
(* makes them those of calls carried out one by one.                       *)
Answered ==
    /\ Before(cur, "finished") /\ Len(tool_messages) = cur - 1
    /\ conversation = IF pc = "returned" THEN tool_messages ELSE <<>>
    /\ pc = "returned" => cur = Len(calls) + 1
    /\ pc = "calling" => calls[cur] # "unparsed"
    /\ \A k \in Call :
          /\ st[k] # "finished" => got[k].out = "none"
          /\ k < cur => /\ tool_messages[k].out = "unparsed" <=> calls[k] = "unparsed"
                        /\ got[k].out # "none" => tool_messages[k] = got[k]
          /\ pc = "overlap" /\ k >= cur /\ k <= last /\ st[k] = "finished"
                => got[k].seen = world /\ (got[k].out = "reduced" => Reduced(k))

(* What the recorder's slot holds: the one call that is timed, and the LLM *)
(* call it made.  Only a call that runs alone asks the LLM.                *)
Row == [call : Nat, out : Outcomes, nested : SUBSET Nat]
Slotted ==
    /\ events \in Seq(Row)
    /\ pc \in {"plan", "pick", "overlap", "returned"} => pending = 0 /\ children = {}
    /\ pc = "calling" => pending = cur /\ children = {cur} \cap asked
    /\ \A k \in asked : st[k] # "waiting" /\ calls[k] = "query"


(* tool_dispatch:29 and tool_execution:375: the conversation gets one      *)
(* answer per call, in call order, or, when the message is cut short, none. *)
AllOrNothing ==
    /\ pc # "returned" => conversation = <<>>
    /\ pc = "returned" =>
          /\ Len(conversation) = Len(calls)
          /\ \A i \in Call : conversation[i].out = "unparsed" <=> calls[i] = "unparsed"
          /\ \A i \in Call : got[i].out # "none" => conversation[i] = got[i]

(* recorder:299: one trace row per answered call that could be parsed, in  *)
(* call order, and each LLM call a tool made hangs under that tool's row.  *)
TraceFollowsCalls ==
    /\ \A e \in DOMAIN events :
          /\ events[e].nested = {events[e].call} \cap asked
          /\ e > 1 => events[e - 1].call < events[e].call
    /\ {events[e].call : e \in DOMAIN events} = {i \in 1 .. (cur - 1) : calls[i] # "unparsed"}
    /\ pc = "pick" => pending = 0

IInv == TypeOK /\ Progress /\ BarrierHolds /\ Answered /\ Slotted /\ TraceFollowsCalls

(* Every message's dispatch ends, whatever its calls do.                   *)
DispatchEnds == <>(pc \in {"raised", "returned"})

(* The reduction is owed by every call that may change something.          *)
Sequential == INSTANCE SequentialDispatch WITH
    Gated <- Builds \cap Mutating,
    answers <- tool_messages,
    verdict <- IF pc \in {"raised", "returned"} THEN pc ELSE "running"

(* Overlapping is not observable but for one thing: the calls come out as  *)
(* if carried out one after the other, and a call that changes something   *)
(* is reduced by all that was fetched before it; a read-only line is       *)
(* refused only for what came before it, and may run although its own      *)
(* group fetched what would have reduced it (tool_execution:347).          *)
ActsSequentially == Sequential!Spec

(* The same with the reduction owed by every call, as tool_execution:553   *)
(* says of all gates: "the single dispatch choke point both the sequential *)
(* and concurrent paths funnel through, so every gate covers both by       *)
(* construction".  The code breaks it: of fetch_web and then grep make in  *)
(* one message, the second passes when they overlap and is reduced when    *)
(* they do not.                                                            *)
Covered == INSTANCE SequentialDispatch WITH
    Gated <- Builds,
    answers <- tool_messages,
    verdict <- IF pc \in {"raised", "returned"} THEN pc ELSE "running"
GatesCoverBoth == Covered!Spec
=============================================================================
