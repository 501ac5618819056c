------------------------------ MODULE SessionRun ------------------------------
(***************************************************************************)
(* One run's sessions as they account for themselves: the usage ledgers    *)
(* that session_data.json persists and that a delegated subagent hands up, *)
(* and the rows of each session's events.jsonl.  SessionTrace reads them.  *)
(*                                                                         *)
(* "top" is the session the CLI builds, fresh or resumed at a step, "sub"  *)
(* the subagent it may delegate to (once), "cont" the continuation of the  *)
(* run's one context reset.  Sessions nest: the last one on the stack      *)
(* runs, the others wait inside a tool call or a reset.  A session ends as *)
(* its pipeline says, by a classified LLM failure, by Ctrl-C or by any     *)
(* other exception, which leaves it for its caller.  An LLM call is its    *)
(* number and its kind, `by' is what made it, and it costs one token.      *)
(* Left out: message contents (see Conversation), the rows no account      *)
(* reads (failures, gates, hooks, sandbox, skill index), timings, a second *)
(* delegation of one run, and the bytes of session_data.json: a kill       *)
(* within its write (agent:600) leaves a torn file, of which no account    *)
(* can be read at all.  Nor is a finally block that is cut before          *)
(* agent:352-354 shown to leave its context variables set.                 *)
(***************************************************************************)
EXTENDS Naturals, FiniteSets, SequencesExt

CONSTANTS
    MaxSteps,     \* the step budget of the run and of a subagent
    Resumed,      \* _resume_step: the step the run goes on from, 0 when fresh
    MaxTools,     \* bound: the tool calls of each session
    MaxQueries    \* bound: LLM calls a session's tools make

Session == {"top", "sub", "cont"}

ASSUME TraceAssumption ==
    MaxSteps \in Nat \ {0} /\ Resumed \in 0 .. MaxSteps /\ MaxTools \in [Session -> Nat] /\ MaxQueries \in Nat

CallKind == {"main", "report", "handoff", "artifact_query"}

VARIABLES
    stack,       \* the sessions executing, the running one last
    at,          \* where each session is
    step,        \* step_num
    ledger,      \* llm.llm_calls: the kind of each answered call
    rows,        \* events.jsonl
    pending,     \* the tool the recorder times, "none" outside one
    nested,      \* _pending_child_llm_calls
    kids,        \* child_rollups: the ledgers of finished subagents
    saved,       \* session_data.json: the ledgers of its rollup
    stop,        \* stop_reason
    handback     \* handback_report: "none", "empty" or "text"

vars == <<stack, at, step, ledger, rows, pending, nested, kids, saved, stop, handback>>

(* Where a delegate call is once its subagent is over.                     *)
Handback == {"report", "fallback", "resave", "handing"}

Running == stack[Len(stack)]
Delegated(s) == s = "sub"                  \* needs_handback
Unused(s) == rows[s] = <<>>

CountOf(calls, kind) == Cardinality({i \in DOMAIN calls : calls[i] = kind})
Row(type, kind, by, links) == [type |-> type, kind |-> kind, by |-> by, links |-> links]
Started == <<Row("session_start", "none", "none", {})>>
Ended(s) == Row("session_end", stop[s], "none", {step[s]})

NotSaved == [there |-> FALSE, calls |-> <<>>, kids |-> <<>>]
Rollup(s, calls) == [there |-> TRUE, calls |-> calls, kids |-> kids[s]]

(* A resumed run counts its steps from where it goes on.                   *)
StartsOver(s) == 0      \* mutant: the resume step is forgotten
FirstStep(s) == IF s = "top" THEN Resumed ELSE 0

Init ==
    /\ stack = <<"top">>
    /\ at = [s \in Session |-> CASE s # "top" -> "unborn"
                                  [] s = "top" /\ Resumed < MaxSteps -> "guard"
                                  [] OTHER -> "leaving"]    \* no step is left
    /\ rows = [s \in Session |-> IF s = "top" THEN Started ELSE <<>>]
    /\ step = [s \in Session |-> FirstStep(s)]
    /\ ledger = [s \in Session |-> <<>>]
    /\ pending = [s \in Session |-> "none"] /\ nested = [s \in Session |-> {}]
    /\ kids = [s \in Session |-> <<>>] /\ saved = [s \in Session |-> NotSaved]
    /\ stop = [s \in Session |-> "max_steps"] /\ handback = [s \in Session |-> "none"]

Goto(s, place) == at' = [at EXCEPT ![s] = place]
Emit(s, new) == rows' = [rows EXCEPT ![s] = @ \o new]

(* The run of s is over but for execute()'s finally block.                 *)
Leave(s, reason) == Goto(s, "leaving") /\ stop' = [stop EXCEPT ![s] = reason]

(* A chat completion is answered: its ledger entry, the stash for the tool *)
(* under way, its row, and the rows its caller records next.               *)
Answered(s, kind, by, rest) ==
    LET n == Len(ledger[s]) + 1 IN
    /\ ledger' = [ledger EXCEPT ![s] = Append(@, kind)]
    /\ nested' = IF pending[s] = "none" THEN nested ELSE [nested EXCEPT ![s] = @ \cup {n}]
    /\ Emit(s, <<Row("llm_call", kind, by, {n})>> \o rest)

(* ContextSummarizerNode: its call and its row.                            *)
Summarize(s, kind, trigger) ==
    Answered(s, kind, "summarizer", <<Row("summarizer", kind, trigger, {})>>)
-----------------------------------------------------------------------------
(* ContextGuardNode: stop, reset, or let LLMCallNode run (CallLLM).        *)
GuardStops(s) ==
    /\ at[s] = "guard" /\ Leave(s, "context_limit")
    /\ IF Delegated(s)
       THEN /\ Summarize(s, "report", "context_guard")
            /\ \E text \in {"empty", "text"} : handback' = [handback EXCEPT ![s] = text]
       ELSE UNCHANGED <<ledger, rows, nested, handback>>
    /\ UNCHANGED <<stack, step, pending, kids, saved>>

GuardResets(s) ==
    /\ at[s] = "guard" /\ Unused("cont") /\ Goto(s, "handoff")
    /\ Summarize(s, "handoff", "context_guard")
    /\ UNCHANGED <<stack, step, pending, kids, saved, stop, handback>>

(* _generate_handoff asks once more when the summary came back empty.      *)
HandoffAgain(s) ==
    /\ at[s] = "handoff" /\ Goto(s, "spawn")
    /\ Answered(s, "handoff", "agent", <<>>)
    /\ UNCHANGED <<stack, step, pending, kids, saved, stop, handback>>

(* _handle_context_reset: the handoff row, session_data.json while the     *)
(* session still runs, then the continuation inside it.                    *)
SpawnContinuation(s) ==
    /\ at[s] \in {"handoff", "spawn"}
    /\ at' = [at EXCEPT ![s] = "waiting", !["cont"] = "guard"]
    /\ rows' = [rows EXCEPT ![s] = Append(@, Row("handoff", "none", "none", {})), !["cont"] = Started]
    /\ saved' = [saved EXCEPT ![s] = Rollup(s, ledger[s])]
    /\ stop' = [stop EXCEPT ![s] = "context_reset"]
    /\ stack' = Append(stack, "cont")
    /\ UNCHANGED <<step, ledger, pending, nested, kids, handback>>

CallLLM(s) ==
    /\ at[s] = "guard" /\ Goto(s, "tools")
    /\ step' = [step EXCEPT ![s] = @ + 1]
    /\ Answered(s, "main", "node", <<>>)
    /\ UNCHANGED <<stack, pending, kids, saved, stop, handback>>

(* Recorder.before_tool, and for delegate the whole subagent.              *)
ToolsRun(s) == Cardinality({i \in DOMAIN rows[s] : rows[s][i].type = "tool_call"})
BeginTool(s, name) ==
    /\ at[s] = "tools" /\ ToolsRun(s) < MaxTools[s]
    /\ pending' = [pending EXCEPT ![s] = name] /\ nested' = [nested EXCEPT ![s] = {}]
    /\ IF name = "delegate"
       THEN /\ Unused("sub")
            /\ stack' = Append(stack, "sub")
            /\ at' = [at EXCEPT ![s] = "waiting", !["sub"] = "guard"]
            /\ rows' = [rows EXCEPT !["sub"] = Started]
       ELSE Goto(s, "tool") /\ UNCHANGED <<stack, rows>>
    /\ UNCHANGED <<step, ledger, kids, saved, stop, handback>>

AskArtifact(s) ==
    /\ at[s] = "tool" /\ pending[s] = "query" /\ CountOf(ledger[s], "artifact_query") < MaxQueries
    /\ Answered(s, "artifact_query", "tool", <<>>)
    /\ UNCHANGED <<stack, at, step, pending, kids, saved, stop, handback>>

(* Recorder.after_tool: the row, with the calls made meanwhile.            *)
ToolRow(s) == Row("tool_call", pending[s], "node", nested[s])
ToolOver(s) ==
    /\ Goto(s, "tools")
    /\ pending' = [pending EXCEPT ![s] = "none"] /\ nested' = [nested EXCEPT ![s] = {}]

EndTool(s) ==
    /\ at[s] = "tool" /\ ToolOver(s)
    /\ Emit(s, <<ToolRow(s)>>)
    /\ UNCHANGED <<stack, step, ledger, kids, saved, stop, handback>>

(* FinalizeStepNode: tokens and finish check, then a report for the parent *)
(* when the budget cuts a subagent off.                                    *)
Budget(s) ==      \* a continuation gets the steps its caller has left
    IF s # "cont" THEN MaxSteps
    ELSE LET left == MaxSteps - step[stack[Len(stack) - 1]] IN IF left < 1 THEN 1 ELSE left
Finalize(s) ==
    /\ at[s] = "tools"
    /\ Emit(s, <<Row("token_tracking", "none", "none", {}), Row("finish_check", "none", "none", {})>>)
    /\ \/ Leave(s, "stop")
       \/ step[s] < Budget(s) /\ Goto(s, "guard") /\ UNCHANGED stop
       \/ step[s] >= Budget(s) /\ ~Delegated(s) /\ Leave(s, "max_steps")
       \/ step[s] >= Budget(s) /\ Delegated(s) /\ Goto(s, "cutoff") /\ UNCHANGED stop
    /\ UNCHANGED <<stack, step, ledger, pending, nested, kids, saved, handback>>

CutoffReport(s) ==
    /\ at[s] = "cutoff" /\ Leave(s, "max_steps")
    /\ Summarize(s, "report", "finalize_step")
    /\ \E text \in {"empty", "text"} : handback' = [handback EXCEPT ![s] = text]
    /\ UNCHANGED <<stack, step, pending, kids, saved>>

(* A step's own call counts the step before it is made.                    *)
MayCount(s) ==
    \/ UNCHANGED step
    \/ at[s] = "guard" /\ step' = [step EXCEPT ![s] = @ + 1]

(* An LLM call of the session itself fails for good.                       *)
LLMFails(s) ==
    /\ at[s] \in {"guard", "handoff", "cutoff"} /\ MayCount(s)
    /\ Leave(s, "llm_failure")
    /\ UNCHANGED <<stack, ledger, rows, pending, nested, kids, saved, handback>>

(* What execute()'s try covers: every place but its finally block; a       *)
(* checkpoint is still written after the last step.                        *)
Trying(s) ==
    \/ at[s] \in {"guard", "handoff", "spawn", "tools", "tool", "cutoff"} \cup Handback
    \/ at[s] = "leaving" /\ stop[s] \notin {"aborted", "llm_failure"}

(* Ctrl-C: only the running session notices.                               *)
Interrupt(s) ==
    /\ Trying(s) /\ MayCount(s) /\ Leave(s, "aborted")
    /\ UNCHANGED <<stack, ledger, rows, pending, nested, kids, saved, handback>>

(* An exception that execute() does not catch: stop_reason stays.          *)
RaiseError(s) ==
    /\ Trying(s) /\ MayCount(s) /\ Goto(s, "raising")
    /\ UNCHANGED <<stack, ledger, rows, pending, nested, kids, saved, stop, handback>>

(* execute()'s finally: session_data.json unless a reset wrote it, the     *)
(* session_end row; then s is over and its caller goes on, at `next'.      *)
Caller == stack[Len(stack) - 1]
Save(s) == saved' = IF saved[s].there THEN saved ELSE [saved EXCEPT ![s] = Rollup(s, ledger[s])]
Over(s, place, next) ==
    /\ stack' = Front(stack)
    /\ at' = [t \in Session |-> CASE t = s -> place
                                  [] t # s /\ s # "top" /\ t = Caller -> next
                                  [] OTHER -> at[t]]
    /\ UNCHANGED <<step, ledger, nested, kids, handback>>

Finish(s) ==
    /\ at[s] = "leaving" /\ Save(s) /\ Emit(s, <<Ended(s)>>)
    /\ Over(s, "done", IF s = "sub" THEN "report" ELSE "leaving")
    /\ stop' = IF s = "cont" /\ stop[s] = "llm_failure"
               THEN [stop EXCEPT ![Caller] = "llm_failure"] ELSE stop
    /\ UNCHANGED pending

(* An exception leaves s for its caller, where a delegate call may turn it *)
(* into its own failure (_RECOVERABLE_EXCEPTIONS): note_delegate_child was *)
(* not reached, so the row of that call names no subagent.                 *)
Escapes(s) ==
    \/ Over(s, "died", "raising") /\ UNCHANGED pending
    \/ s = "sub" /\ Over(s, "died", "tool") /\ pending' = [pending EXCEPT ![Caller] = "failed"]

FinishRaising(s) ==
    /\ at[s] = "raising" /\ Save(s) /\ Emit(s, <<Ended(s)>>) /\ Escapes(s)
    /\ UNCHANGED stop

(* The finally block is itself cut, by an exception or by Ctrl-C, before   *)
(* the session_end row (SessionEnd hooks run before it).                   *)
CutFinally(s) ==
    /\ at[s] \in {"leaving", "raising"} /\ (Save(s) \/ UNCHANGED saved) /\ UNCHANGED rows
    /\ \/ Escapes(s) /\ UNCHANGED stop
       \/ /\ s # "top" /\ Over(s, "died", "leaving") /\ UNCHANGED pending
          /\ stop' = [stop EXCEPT ![Caller] = "aborted"]
-----------------------------------------------------------------------------
(* ToolRegistry.delegate after the subagent's execute(): the report of the *)
(* subagent, by one more call of its own (generate_report) when it handed  *)
(* none back, and its usage for s.  The tool's row follows the hooks.      *)
GivenReport(s, source) ==
    /\ at[s] = "report" /\ Goto(s, "handing")
    /\ Emit("sub", <<Row("report", source, "none", {})>>)
    /\ UNCHANGED <<stack, step, ledger, pending, nested, kids, saved, stop, handback>>

VerbatimReport(s) == stop["sub"] = "stop" /\ GivenReport(s, "verbatim")
SummarizerReport(s) == handback["sub"] = "text" /\ GivenReport(s, "summarizer")

FallbackCall(s) ==
    LET calls == Append(ledger["sub"], "report") IN
    /\ at[s] = "report" /\ handback["sub"] # "text" /\ Goto(s, "fallback")
    /\ ledger' = [ledger EXCEPT !["sub"] = calls]
    /\ Emit("sub", <<Row("llm_call", "report", "agent", {Len(calls)})>>)
    /\ UNCHANGED <<stack, step, pending, nested, kids, saved, stop, handback>>

FallbackRow(s) ==
    /\ at[s] = "fallback" /\ Goto(s, "resave")
    /\ Emit("sub", <<Row("report", "fallback", "none", {})>>)
    /\ UNCHANGED <<stack, step, ledger, pending, nested, kids, saved, stop, handback>>

ResaveForgotten(s) ==      \* mutant: session_data.json is not written again
    /\ at[s] = "resave" /\ Goto(s, "handing")
    /\ UNCHANGED <<stack, step, ledger, rows, pending, nested, kids, saved, stop, handback>>
Resave(s) ==
    /\ at[s] = "resave" /\ Goto(s, "handing")
    /\ saved' = [saved EXCEPT !["sub"] = Rollup("sub", ledger["sub"])]
    /\ UNCHANGED <<stack, step, ledger, rows, pending, nested, kids, stop, handback>>

HandsNothing(s, calls) == UNCHANGED kids    \* mutant: add_child_usage forgotten
Handed(s, calls) == kids' = [kids EXCEPT ![s] = Append(@, calls)]
HandUp(s) ==
    /\ at[s] = "handing" /\ Goto(s, "tool") /\ Handed(s, ledger["sub"])
    /\ UNCHANGED <<stack, step, ledger, rows, pending, nested, saved, stop, handback>>

(* A recoverable exception of these calls fails the delegate call, whose   *)
(* row ("broken") names the subagent by now.                               *)
HandbackErrors(s) ==
    /\ at[s] \in Handback /\ Goto(s, "tool")
    /\ pending' = [pending EXCEPT ![s] = "broken"]
    /\ UNCHANGED <<stack, step, ledger, rows, nested, kids, saved, stop, handback>>

(* The same failure again, outside the subagent's execute(): it ends the   *)
(* delegating session, and the subagent's usage reaches no rollup.         *)
FallbackFails(s) ==
    /\ at[s] = "report" /\ handback["sub"] # "text"
    /\ Leave(s, "llm_failure")
    /\ UNCHANGED <<stack, step, ledger, rows, pending, nested, kids, saved, handback>>

Advance(s) ==
    \/ GuardStops(s) \/ GuardResets(s) \/ HandoffAgain(s)
    \/ SpawnContinuation(s) \/ CallLLM(s) \/ AskArtifact(s) \/ EndTool(s)
    \/ (\E name \in {"query", "delegate"} : BeginTool(s, name))
    \/ Finalize(s) \/ CutoffReport(s) \/ LLMFails(s) \/ Interrupt(s) \/ RaiseError(s)
    \/ Finish(s) \/ FinishRaising(s) \/ CutFinally(s)
    \/ VerbatimReport(s) \/ SummarizerReport(s) \/ FallbackCall(s) \/ FallbackRow(s)
    \/ Resave(s) \/ HandUp(s) \/ HandbackErrors(s) \/ FallbackFails(s)

Next == stack # <<>> /\ Advance(Running)

Spec == Init /\ [][Next]_vars
-----------------------------------------------------------------------------
(* check_session (c): the first report row's source against the saved      *)
(* report-kind calls.                                                      *)
Reports(s) == {i \in DOMAIN rows[s] : rows[s][i].type = "report"}
Source(s) == rows[s][CHOOSE i \in Reports(s) : \A j \in Reports(s) : i <= j].kind
CheckPasses(s) ==
    Reports(s) # {} =>
        CountOf(saved[s].calls, "report") = IF Source(s) = "verbatim" THEN 0 ELSE 1

(* Where a session is, and what the rows are made of.                      *)
Resting == {"unborn", "waiting", "done", "died"}
Active == {"guard", "handoff", "spawn", "tools", "tool", "cutoff", "leaving", "raising"} \cup Handback
Reasons == {"max_steps", "stop", "context_limit", "context_reset", "llm_failure", "aborted"}
Tools == {"query", "delegate", "failed", "broken"}
RowType ==
    [type : {"session_start", "session_end", "llm_call", "tool_call", "handoff", "report",
             "summarizer", "token_tracking", "finish_check"},
     kind : CallKind \cup Reasons \cup Tools \cup {"none", "verbatim", "fallback", "summarizer"},
     by : {"none", "node", "agent", "tool", "summarizer", "context_guard", "finalize_step"},
     links : SUBSET Nat]
Ledgers == Seq(CallKind)

TypeOK ==
    /\ stack \in Seq(Session) /\ at \in [Session -> Resting \cup Active]
    /\ step \in [Session -> 0 .. MaxSteps] /\ ledger \in [Session -> Ledgers]
    /\ rows \in [Session -> Seq(RowType)]
    /\ pending \in [Session -> Tools \cup {"none"}]
    /\ nested \in [Session -> SUBSET Nat]
    /\ \A s \in Session : nested[s] \subseteq 1 .. Len(ledger[s])
    /\ kids \in [Session -> Seq(Ledgers)]
    /\ saved \in [Session -> [there : BOOLEAN, calls : Ledgers, kids : Seq(Ledgers)]]
    /\ stop \in [Session -> Reasons] /\ handback \in [Session -> {"none", "empty", "text"}]

(* sumcheck:72: the repository's sum-check passes on each saved session,   *)
(* and a parent's copy of its subagent's usage is what the subagent saved; *)
(* but an empty hand-back is paid for twice and fails the check, and so    *)
(* does a report by a further call that is cut before the second save.     *)
SumCheckPasses ==
    \A s \in Session :
        saved[s].there =>
            /\ handback[s] # "empty" /\ saved[s].calls = ledger[s] => CheckPasses(s)
            /\ \A n \in DOMAIN saved[s].kids : saved[s].kids[n] = saved["sub"].calls

(* sumcheck:5-9: a report's provenance is consistent with the report calls *)
(* of the session, and an incomplete record, of a crash, never a failure.  *)
(* The code: a crash, or Ctrl-C, between the two saves makes it fail, and  *)
(* so does the second payment.                                             *)
SumCheckNeverFails == \A s \in Session : saved[s].there => CheckPasses(s)

(* agent:472-476: a session's rollup includes the whole delegated subtree. *)
(* The code: a subagent's continuation hands its usage to nobody.          *)
SubtreeHandedUp ==
    \A s \in Session :
        kids[s] # <<>> /\ (\E i \in DOMAIN rows["sub"] : rows["sub"][i].type = "handoff") =>
            Len(FlattenSeq(kids[s])) >= Len(ledger["sub"]) + Len(ledger["cont"])

(* The inductive form.  Sessions nest: each is on the stack once, and only *)
(* the last one moves.                                                     *)
Nested ==
    /\ \A i, j \in DOMAIN stack : i < j => stack[i] # stack[j] /\ at[stack[i]] = "waiting"
    /\ stack # <<>> => stack[1] = "top" /\ at[Running] \in Active
    /\ \A s \in Session : at[s] \in Active => stack # <<>> /\ s = Running

(* What is not begun has done nothing; a step that begins is in the budget.*)
Begun ==
    /\ \A s \in Session : /\ rows[s] = <<>> <=> at[s] = "unborn"
                          /\ rows[s] = <<>> => step[s] = 0
                          /\ at[s] = "guard" => step[s] < MaxSteps
                          /\ at[s] \in {"handoff", "spawn"} => rows["cont"] = <<>>
    /\ at["sub"] = "unborn" => ledger["sub"] = <<>>

(* The subagent has made a report call that is not saved (yet).            *)
Unsaved == saved["sub"].there /\ saved["sub"].calls # ledger["sub"]

(* Only the subagent's log has a report row, once the subagent is over and *)
(* its caller takes the report; what a caller has taken over is the        *)
(* subagent's ledger, saved as it is.                                      *)
Reported ==
    /\ Reports("top") = {} /\ Reports("cont") = {} /\ kids["sub"] = <<>> /\ saved["sub"].kids = <<>>
    /\ Reports("sub") # {} => at["sub"] = "done"
    /\ \A s \in Session :
         /\ at[s] \in Handback => s # "sub" /\ at["sub"] = "done"
         /\ at[s] \in {"report", "fallback"} => Reports("sub") = {}
         /\ at[s] = "report" => ~Unsaved
         /\ at[s] \in {"resave", "handing"} => Reports("sub") # {}
         /\ at[s] = "handing" \/ kids[s] # <<>> \/ saved[s].kids # <<>> =>
               s # "sub" /\ Reports("sub") # {} /\ at["sub"] = "done" /\ ~Unsaved
         /\ \A n \in DOMAIN kids[s] : kids[s][n] = saved["sub"].calls
         /\ \A n \in DOMAIN saved[s].kids : saved[s].kids[n] = saved["sub"].calls
    /\ saved["sub"].there => at["sub"] \in {"waiting", "leaving", "raising", "done", "died"}
    /\ Unsaved => at["sub"] = "done" /\ ledger["sub"] = Append(saved["sub"].calls, "report")
    /\ at["sub"] = "done" => saved["sub"].there

(* A subagent pays for a report of its own only when it hands one back,    *)
(* and its caller for one only when it did not.                            *)
PaidOnce ==
    /\ handback["sub"] # "none" =>
          at["sub"] \in {"leaving", "raising", "done", "died"} /\ stop["sub"] # "stop"
    /\ Reports("sub") = {} /\ ~Unsaved =>
          /\ handback["sub"] = "none" => CountOf(ledger["sub"], "report") = 0
          /\ handback["sub"] = "text" => CountOf(ledger["sub"], "report") = 1
    /\ handback["sub"] = "none" /\ Unsaved => CountOf(ledger["sub"], "report") = 1
    /\ Unsaved => handback["sub"] # "text"
    /\ \A s \in Session : at[s] = "fallback" => Unsaved
    /\ \A s \in Session : at[s] = "resave" => Source("sub") = "fallback" /\ Unsaved
    /\ handback["sub"] # "empty" /\ ~Unsaved => CheckPasses("sub")

IInv == TypeOK /\ Nested /\ Begun /\ Reported /\ PaidOnce
=============================================================================
