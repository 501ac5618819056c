# Verification of my-coding-agent

TLA+ models of the agent in `src/src/my_coding_agent`, checked with TLC on small
instances, and theorems about them, checked with TLAPS for every value of the
constants. Paths below are relative to that package unless they say otherwise.

## 1. The system

An LLM agent that runs in a terminal. One CLI invocation builds an `AgentNode`
and calls its `execute()`, which drives a `Pipeline` of nodes step by step; each
completed step leaves a resume checkpoint. A full context window makes a session
hand its conversation, summarised, to a *continuation* that runs inside its
call stack. A dead session can be resumed by another process through its
checkpoint. A run config may replace the default pipeline by a graph of prompt
stages with bounded loops.

| component | state it keeps | operations | talks to |
|---|---|---|---|
| Command line (`cli.py`) | none | fresh run, `--resume`, `--resume-last`, `--config`, failure hint | builds `AgentNode`, reads the checkpoint store |
| Agent session (`pipeline/nodes/agent.py`) | step counter, stop reason, `_did_context_reset`, `failure_error`, `failure_session_id`, `resumed_from` | `execute` with its try/except/finally, context reset, spawning a continuation, checkpoint settlement | pipeline (calls), continuation (nested call), checkpoint store (files) |
| Default pipeline (`pipeline/__init__.py`, `pipeline/nodes/`) | signal and conversation in `RunContext` | context guard, LLM call, tool dispatch, anomaly detection, finalize | LLM client, tool executor, `spawn_fn`, `checkpoint_fn` |
| Workflow graph (`pipeline/graph.py`, `prompt_stage.py`) | stage index, round counters, a thread and the newest output per stage | one stage, jump, ceiling, checkpoint | LLM client, recorder |
| Checkpoint store (`engine/checkpoint.py`) | one file per session | save (temp file, `os.replace`), remove, load, newest by file time | files shared by all processes |
| LLM client (`engine/llm`) | context window, call list | request with fast retries, patient wait up to a deadline, classification of failures | server, recorder |
| Tool executor (`engine/tool_execution`) | messages and records of one assistant turn | grouping, parallel dispatch, pre-dispatch gates, envelopes | registry, thread pool, recorder |
| Tool registry (`engine/tool_registry`) | artifacts, skills, delegated children | bash, files, fetch, artifact queries, `delegate`, `use_skill` | a nested `AgentNode` |
| Gates (`engine/egress`, `exfil`, `provenance`, `sandbox`, `hooks`, `policy`) | block list cache, taint | allow or block one call | tool executor |
| Recorder, sampler (`observability`) | event file, last message hashes; sample ring, thread, reference count | encode events; start, sample, stop, summarise | every component; a background thread |
| Viewer (`viewer`) | none | rebuild conversations from the events, serve HTML | event files |
| Evaluations (`evals`) | JSON store of run configs, eval configs and evaluations | CRUD with references, run, judge, score, compare | `AgentNode`, files |
| Logging and terminal output (`utils`) | log handlers | output | - |

### What is hard about it, and what would make it correct

The full list, each at its line, is under `hazards` in `PROJECT.json`. In short:

* **Checkpoints and interruptions.** A session can be left at every point by
  Ctrl-C, an LLM failure, another exception or `kill -9`, at any depth of
  nested `execute()` calls; each leaves its checkpoint files behind for a later
  process. Correct means: what was saved can be resumed; what was finished or
  superseded is not resumed again; nobody rewrites a dead session's files.
* **Context resets.** Two sessions own one task for a moment. Correct means: one
  step budget for the chain, file times in the order of the conversation, and
  completed steps that survive a continuation that fails.
* **Bounded loops.** Two ceilings (rounds and steps), jumps that skip the
  checkpoint, empty replies that decide nothing. Correct means: the ceilings
  hold, every run ends, says truly why, and its events tell its rounds.
* **Retries and deadlines.** Fast retries nest inside a patient wait. Correct
  means: a call is answered or given up within its tolerance plus one probe,
  classified, and its rows in the trace tell which.
* **Overlapping tool calls.** Correct means: overlapping is not observable; one
  answer per call, in call order, or none of them.
* **Texts stored, deduplicated and read back.** Files are written as they come and
  read with newlines translated. Correct means: a pointer leads to its text, and an
  incomplete answer says so.
* **A conversation that is rewritten while it is logged.** Correct means: the
  viewer shows what each call really sent, and what was retired is covered by
  something later.
* **Accounts that must agree.** Usage is in a ledger, in `session_data.json`, in
  the parent's rollup and in the trace tree, and a subagent's goes from one to the
  next in many small steps. Correct means they agree, and that where the run was cut
  between two of these steps is the only place where they may not.
* **A store without locks.** Correct means: what it says of a run is what the run
  wrote, and the comparison gate composes.

## 2. Modules

| module | what it is |
|---|---|
| `AgentSessions` | sessions, their continuations and checkpoints, and the CLI's resume commands |
| `WorkflowGraph` | `Pipeline` driving `PromptStageNode`s, with transitions and ceilings |
| `LLMClient` | one client: fast retries, patient wait, deadline, ledger, trace rows |
| `LLMPromise` | the abstract call: what `chat_completion` promises its callers |
| `ToolExecutor` | one message's tool calls in a worker pool, with gates, answers and rows |
| `SequentialDispatch` | the abstract dispatch: one call after the other |
| `ArtifactStore` | offloaded streams, their duplicates, and `read_tool_artifact` |
| `Conversation` | the message list, supersession, trace deltas, anomaly streaks, skills |
| `SessionRun` | a run's sessions, their usage and their event rows |
| `SessionTrace` | the viewer's tree of such a run |
| `RunConfigFile` | validation of run config files, as operators |
| `Evaluations` | the evaluation store, runs, scorers, verdict files, comparison |
| `MC...` | constants for TLC, one module for each state machine |
| `..._proofs` | the theorems about `AgentSessions`, `WorkflowGraph`, `LLMClient`, `ToolExecutor`, `ArtifactStore`, `Conversation`, `Evaluations` and `SessionTrace` (with its `SessionRun`) |

`Evaluations` extends `RunConfigFile`, `SessionTrace` extends `SessionRun`; `LLMClient` and `ToolExecutor` instantiate
their abstract specifications. The state machines meet where one component is
another's input: an LLM call is one step with a free outcome in `AgentSessions`,
`WorkflowGraph`, `Conversation` and `SessionRun` (`LLMPromise` says which
outcomes there are); a dispatch is one step there (`SequentialDispatch` and
`AllOrNothing` say why it may be); the graphs of `WorkflowGraph` are those
`RunConfigFile` accepts and whose construction does not fail.

### AgentSessions

A process `r \in Run` owns sessions `<<r, 0>>`, `<<r, 1>>`, ...; `<<r, d+1>>` is
the continuation of `<<r, d>>`. `node[s]` is the `AgentNode` with its
`RunContext`, `ckpt[s]` its `checkpoint.json`, `clock` the file system's time and
`durable` a history variable: the steps some checkpoint has held.

`node[s].pc` follows `execute()`:

| `pc` | code | actions that leave it |
|---|---|---|
| `opening` | `execute()` before its `try` (agent.py:233-296) | `Enter` |
| `guard` | `ContextGuardNode.run` | `GuardPasses`, `GuardStops`, `GuardResets` |
| `handoff` | the summary calls of a reset | `HandoffFails`, `SecureHandoff` |
| `spawning` | `_did_context_reset` is set, the continuation is not built | `SpawnContinuation` |
| `waiting` | inside `continuation.execute()` | `ReturnFromContinuation` |
| `llm` | `LLMCallNode.run` | `CallLLM`, `LLMCallFails` |
| `tools` | `ToolDispatchNode` to `FinalizeStepNode` | `CompleteStep`, `ReportFails` |
| `save`, `replace` | the two halves of `save_checkpoint` | `WriteTemp`, `ReplaceCheckpoint` |
| `finally`, `sweep` | the `finally` block: own checkpoint, then the source's | `SettleOwn`, `SettleSource` |

`Interrupt` (Ctrl-C) and `RaiseError` (every exception that is not a classified
LLM failure) can strike at every running place; inside the `try` they lead to
the `finally` block, outside it they leave `execute()` and meet the parent's
`try` through `ReturnFromContinuation`. `Kill` ends a whole process. `StartFresh`,
`Resume` and `ResumeLast` are the command line; a refused `--resume` changes
nothing and is no action.

What is abstracted: a conversation is the set of steps it holds (a handoff
summary holds what it summarises); the context ratio is low, high (at the reset
threshold) or full; the LLM's outcome is free; stop, exit and quit are one
reason. A node that would raise in the middle of a file write is `RaiseError`. The reset flag, the
handoff row and the stop reason of a reset are one step (`SecureHandoff`), and so are
the continuation's return and the RESET signal: Ctrl-C between them is left out.
`AgentNode.run`, which embeds an agent in another pipeline, has no caller and is
left out.

### WorkflowGraph

Stages are numbers in pipeline order; `Decider` are those with
`accept_if_contains`, each with one transition (`_parse_pipeline_transitions`
keeps the last declared per source). `pc` follows `Pipeline.execute`: the while
test (`LoopTest`), one stage of `run_step` (`StageSkips`, `StageGenerates`,
`StageAccepts`, `StageRejects`, `StageFails`), `_resolve_jump` (`TakeJump`,
`RefuseJump`), `checkpoint_fn` (`SaveCheckpoint`); `BreakOff` is Ctrl-C or an
exception anywhere. `replies` counts the texts each stage has published in
`node_outputs`, `given` the newest text its thread has received, `events` the
transition rows of `events.jsonl`, `ckpt` the checkpoint's steps and rounds.
`GraphAssumption` is what config parsing and `_validate_transitions` leave: a
transition to the same or an earlier stage has a ceiling. A round's counter
(graph.py:132) and its row (134) are one step.

### LLMClient and LLMPromise

Time is counted in half seconds, the base of both backoffs. `Call` enters
`chat_completion`; inside a call every action is one request of
`_request_with_retry` with its answer: `RetryFast` (sleep and try again),
`WaitPatiently` and `GiveUp` (the branches of `_post_chat_with_recovery` after a
failed probe), `Refuse` (a fatal status or a body without choices), `Escape` (an
exception nobody catches, or Ctrl-C) and `Answered`. `elapsed` is the monotonic
clock since the call began, `delay` the next patient delay, `log` the client's
rows; the recovery row, the ledger entry and the call's row of one answer are one step.
`ReadContextWindow` is the lazily cached window. `LLMPromise` has only the
call, its patience, its time and its result, "unclassified" among them, which is what the
code does and not what `errors.py` says of it; `Stall` is everything the client does in between. A tolerance is finite here; `inf` or `nan` turn the deadline off.

### ToolExecutor and SequentialDispatch

A call is its kind. There are twelve: what the code groups by (`parallel_safety`) and
what the provenance patterns match in the text of a bash line are independent, so
`scan` (`grep make Makefile`) is read-only, overlaps, and is refused in a reduced run all
the same. `pc` is the main thread: `plan` (`_plan_groups`), `pick`
(`run`'s loop), `calling` (`_dispatch_one`), `overlap` (`_dispatch_parallel`
waiting for, then processing, a group), `returned`, `raised`. `st[i]` is call i's
way through the pool. `Begin`/`End` are a sequential call with its gates, tool,
provenance, trace row and answer; `Overlap`, `StartWorker`, `FinishWorker` and
`Process` an overlapped group. `world` counts the changes made to the workspace
and every result carries the count it saw, so a read that overtook a write would
show. `Merge` is `ToolDispatchNode`. Verdicts of hooks and of the exfiltration,
egress and command gates are inputs; the provenance gate's state is modelled.
A group's gates are asked in contexts copied when it was submitted, before any of its
results is noted (`Joined`), and a delegated subagent notes what it fetched or cloned
into its parent's context (`MayNote`). In `SequentialDispatch` each call is one atomic
step, and a read-only line may pass the reduction that would refuse it.

### ArtifactStore

A text is a short sequence of symbols; sizes are lengths and the budgets
constants. A CRLF line end is a symbol that is written to a file as it is and read back
as LF, and a file cut inside a character cannot be read at all: the executor raises there,
the registry takes the text it has in memory. A stored file's text is what a later stream
is compared with and what a query reads. `Offload` is `_offload_streams` with the duplicate search
(`_find_duplicate`: equal before containing, newest first) and with writes that
fail wholly or half way; `NextMessage` empties the in-memory store; `Query` is the
chunked extraction with its budget, cut completions and fallback. `shown` records
how each stream reached the conversation.

### Conversation

One step is `Guard` (retirement, `find_retirements` with its three cases),
`CallLLM`, `RunTool` for each call, `Detect` (`AnomalyDetectNode`). `Handoff` and
`Spawn` reset the context (a skill's body is delivered once, and again after a reset), `Resume` restores a checkpoint into new objects.
Messages have identities because `_encode_messages` compares with `is`. `rows`
hold the prefix deltas of `events.jsonl`, `sent` is a history variable: what each
call really sent.

### SessionRun and SessionTrace

`stack` is the nesting of `execute()` calls: the CLI's session, fresh or resumed at the
step `Resumed`, one delegated subagent, the continuation of one reset. Every action is
one node or one recorder call together with the rows it writes. `Leave` ends a session's
pipeline: by its own decision, by a classified LLM failure (`LLMFails`) or by Ctrl-C
(`Interrupt`); `RaiseError` is any other exception, which keeps the stop reason.
`Finish` and `FinishRaising` are the `finally` block with the file and the row it writes,
`CutFinally` one that does not come to its row; an exception then leaves the session
(`Escapes`) for its caller's, or fails the delegate call it ran in.

`ToolRegistry.delegate` after the subagent is one action for each thing it writes:

| `at` of the caller | action | code |
|---|---|---|
| `report` | `VerbatimReport`, `SummarizerReport`: the report's row | registry.py:718 |
| `report` | `FallbackCall`: the subagent is asked again, or `FallbackFails` | agent.py:414 |
| `fallback` | `FallbackRow`: the report's row | agent.py:419 |
| `resave` | `Resave`: `session_data.json` once more | registry.py:725 |
| `handing` | `HandUp`: its usage for the parent | registry.py:731 |
| `tool` | PostToolUse hooks, then `EndTool`: the tool's row | tool_execution:983, 988 |

At each of these places Ctrl-C, an exception (`Interrupt`, `RaiseError`) or a recoverable
failure of the call (`HandbackErrors`) may strike. A kill needs no action: the
properties of the viewer are invariants, and so hold of what is on disk at every one of these
moments. What a kill *within* a write leaves is another matter: a torn last row is
dropped by the viewer's reader, but `session_data.json` is written in place (agent.py:600),
a torn one makes the sum-check raise, and the model, in which it is written whole, does
not show it.

`SessionTrace` is the viewer: `Trace` folds the rows of a session into a tree as `load_session`
does, with the reparenting of a tool's LLM calls, the nesting of summaries and
the embedding of a subagent's tree; `RolledUp` and `CheckPasses` are
`_usage_summary` and the sum-check. A graph is a set of nodes by name (session, step,
type, ordinal); `added` counts what it was given, so that two nodes of one name show.
The order in which nodes are drawn is left out, and so are a run's second delegation, a
resume beyond the budget and the context variables a cut `finally` block leaves set
(agent.py:352-354).

### RunConfigFile and Evaluations

`Problems` collects what `load_config_file` collects; `ConstructorRaises` is
`Pipeline.__init__`; the values nobody validates are left out (a threshold that is no number
raises uncollected, run_config_file 178; a `max_rounds` or a timeout of another type is
accepted and fails the run). In `Evaluations`, `Edit` is the CRUD of the three collections
with the reference check where the code makes it; a run reads the evaluation,
then its configs, runs the agent, scores check by check (`ExactMatch`,
`Trajectory`, `Judged`), and writes its result, its verdicts and `last_run` in
steps of their own, between and inside which it may be killed. An update reads, checks and
writes in one step, and takes references only: nothing in the repository sends a `last_run`,
which would be stored as it is (evaluation 491). `Gate` is
`evals compare` with `--fail-on-regression` and a floor.

Operators whose comment calls them mutants or faulty variants are bugs used to
test the properties (`mutants` in `PROJECT.json`); no specification refers to them.

## 3. Runs

| run | instance | what it shows |
|---|---|---|
| `sessions` | two processes that may overlap, one reset each, `--max-steps 2`, openings below or above the threshold, symmetry; 6.0 M states | `KilledRunIsResumable`, `ContinuationIsNewer`, `FinishedTaskLeavesNoCheckpoint`, `HintIsResumable`, `ResumedIsNewer`, `StepsLostOnlyToYoungContinuation`, `DeadCheckpointImmutable` |
| `live` | one process, two resets, `--max-steps` 1 or 3, any opening, fairness, no symmetry; 38 k states | `EveryRunEnds` (or the run resets past the bound), `ChainWithinBudget`, and `IInv`, the inductive invariant of the proofs |
| `hint` | two processes, one reset | **violated**: `FailedContinuationIsResumable` |
| `stuck` | two processes, one reset | **violated**: `ResumedRunProceeds` |
| `graph` | five stages: a forward jump without ceiling, a self loop, a loop over all stages; 12 steps; fairness; 42 k states | `RoundsBounded`, `OvershootBounded`, `EventsTellRounds`, `StopReasonIsTrue`, `AcceptsTheNewest`, `Terminates`, `TypeOK` |
| `graph_rounds` | the same graph, 9 steps | **violated**: `FailureKeepsRounds` |
| `llm` | two calls, tolerances -1, 0 and 9, requests of up to 2, cap 3; fairness; 37 k states | `IInv` (the deadline), `TraceTellsOutcome`, `EveryCallEnds`, and `KeepsPromise`: the client implements `LLMPromise` |
| `tools` | all messages of up to three calls of twelve kinds and of four calls of `scan`, `fetch`, `build` and `write`, two workers; fairness; 2.3 M states | `IInv` (the barrier), `AllOrNothing`, `TraceFollowsCalls`, `DispatchEnds`, and `ActsSequentially`: the executor implements `SequentialDispatch` |
| `artifacts` | two calls, four texts, of which two hold a CRLF and one is another's tail but for that, every partial write; 1.9 M states | `NothingDangles`, `StoredOnce`, `StdoutReadsBack`, `ExtractIsHonest` |
| `conversation` | four steps, two sessions, twelve kinds of message; 0.8 M states | `IInv` (deltas), `ReaderRestores`, `RetiredIsCovered`, `AlarmsAreTrue` |
| `trace` | a run resumed after its first of two steps, two tools in it and one in its subagent, one reset; 0.72 M states | `TreeIsTrue`, `UsageAgrees`, `SumCheckPasses` |
| `evals` | two runs, one evaluation, one config of each kind, 79 config files; symmetry; 0.75 M states | `LastRunIsTrue`, `GateHolds`, `AcceptedGraphBuilds` |

Bounds. `MaxDepth` bounds the resets in one process: the deepest session may be about to
reset once more, and is held there (`GuardResets`). `EveryRunEnds` says so in its own words
(`ResetsPastBound`), because the code sets no such bound: a chain may reset
without spending a step (`ResetsWithinBudget` below). Two
processes are what the properties relate: a session and the one it was resumed
from; one reset puts a pre-reset session, its continuation and a resumed run in
play together. Budgets of 2 let a session end at the ceiling, before it, and
resume past it (a resumed run with a budget no larger than its step counter
ends at once). Twelve steps let every loop of the graph reach its ceiling and
the step ceiling strike first. `ResumeLive = FALSE` keeps users from resuming a
session that still runs; the code does not check that, and its outcome is listed
as a hazard. A session may open "full" only in the constant `AnyOpening`, which `live`
takes and `sessions` leaves out for size.

`llm`: a tolerance of 9 half seconds holds several probes with all their tries, so the
clipped last delay, an answer past the deadline and a recovery after waits all
occur; two calls suffice for what one call may leave to the next. `tools`: groups
of two to four with two workers make calls queue; a fourth call lets a barrier
stand between groups. `artifacts`: with a preview budget of one, texts of two and
three symbols are stored, contained in one another, equal, or equal only as read back; two
streams of three make two chunks, whose answers meet an output budget of two, and a "nothing
found" reply is within that budget or, for a long query, beyond it. `conversation`: four steps reach a
streak of three and one more, a retirement of a retirement, and a reset or resume
after either. `trace`: two steps let a subagent be cut off by its budget after a
full step with a tool; two tools let a query and a delegation
follow each other in either order, and the run that goes on from a step
shows where the two step counts part; a fresh run is the same from step 0. `evals`: two runs are what
a write-back races with; the config files hold every problem alone, and nodes and
transitions in every combination of eight node lists with nine edge lists.

Deadlock is not checked: processes end, and the number of processes is bounded.

Fairness. `FairSpec` asks of each session that it moves on whenever it can:
every LLM call, tool and file operation comes back, with a result or an error
(the LLM client's waits are bounded by its tolerance, and nodes run in one
thread). Nothing is assumed of users, crashes or the choice of outcome, so an
LLM that never finishes a task must be stopped by the budget; `Interrupt` and
`RaiseError` are never needed for progress. `WorkflowGraph` has one thread and one
weak fairness condition. `LLMClient` is fair to the next request of an open call:
each ends, by its HTTP timeout at the latest; nothing makes the server answer.
`ToolExecutor` is fair to the main thread and to the pool: every tool ends, bash and
the web by their timeouts, and a free thread takes the next call.

### What the documents say otherwise

Three runs end in a violation: each states what a document of the repository says, quoted
under `findings` in `PROJECT.json`, and TLC shows how the code breaks it.

* `FailedContinuationIsResumable`. The repository's README (line 94) promises
  that a failed continuation holds the resumable checkpoint the hint names. A
  continuation whose first LLM call fails has none, and its parent drops its own
  because a reset happened (agent.py:340): the hint leads to exit code 2 and the
  task's completed steps are gone. `StepsLostOnlyToYoungContinuation` shows this
  is the only way they get lost.
* `ResumedRunProceeds`. A checkpoint kept after `context_limit` carries the full
  context with it; a resumed run stops at the guard before its first LLM call,
  with any budget, although agent.py:334 calls it resumable with a bigger one.
* `FailureKeepsRounds`. `context.py:65` says round counters persist through the
  checkpoint; a pass that jumps is not checkpointed (graph.py:151), so rounds
  taken before a failure are not on disk.

There are more such places. The property in the third column is in its module, and in no cfg,
because a passing property already says what the code does there; on the constants of
that property's run TLC refutes each, in two to fifteen states.

| a document says | the code | stated as | what holds instead |
|---|---|---|---|
| a `max_steps` session leaves no checkpoint (checkpoint.py:85) | keeps it, on purpose (agent.py:334) | `MaxStepsLeavesNoCheckpoint` | `FinishedTaskLeavesNoCheckpoint`, of finished tasks |
| `--max-steps` bounds the pipeline's iterations (the repository's README:102) | a pass that resets counts no step and hands on at least one (agent.py:466), so an opening above the threshold resets without end | `ResetsWithinBudget` | `EveryRunEnds`, but for such a chain; `ChainWithinBudget` |
| every failure of `chat_completion` is one of the classified errors (errors.py:3) | a transport error that is none of three is raised as it is (llm 270) | `FailuresAreClassified` | `KeepsPromise`, with such an exception as an outcome |
| every gate covers overlapped calls as it does sequential ones (tool_execution 553) | a read-only line whose text matches the build pattern passes the provenance reduction beside the fetch that would have reduced it | `GatesCoverBoth` | `ActsSequentially`: nothing that may change something passes so |
| a pointer's offset retrieves the exact bytes (tool_execution 202) | one into stderr counts from that file's start, `read_tool_artifact` from the start of both streams joined (registry 400) | `PointerReadsBack` | `StdoutReadsBack` |
| a pointer's bytes are on disk at its offset (tool_execution 200) | files are written verbatim and searched with newlines translated | `PointerIsOnDisk` | `NothingDangles`, of the text as read back |
| a duplicate is not written (tool_execution 1028) | a text with CRLF is stored each time it comes | `StoredOnceVerbatim` | `StoredOnce`, of texts without CRLF |
| a full disk must not abort the run (tool_execution 1074) | a file it cut inside a character does, when the next stream is compared with it | `FailedWriteEndsNothing` | `NothingDangles` |
| a partial extract is never taken for a full answer (registry 459) | the query prefers files to memory (registry 413), also a cut file or one stream's alone | `ExtractIsComplete` | `ExtractIsHonest`, of the text that was loaded |
| one budget bounds a single return (tool_execution/schema.py:79) | the "nothing found" reply quotes the whole query, and a head excerpt adds its guidance | `AnswersFitBudget` | `ExtractIsHonest`, of extracts |
| the body of a skill loaded again is above (registry 603) | the guard retires it for that very answer (context_guard 332) | `SkillIsAbove` | `RetiredIsCovered`, of everything else |
| records of a crash are unverifiable, never a failure (sumcheck.py:7) | between the row of a fallback report and the second save they fail, and so do those of an empty report that was paid for twice | `SumCheckNeverFails` | `SumCheckPasses`, of complete records |
| a rollup is own usage plus every descendant's (agent.py:472) | a subagent's continuation hands its usage to nobody | `SubtreeHandedUp` | `UsageAgrees` |

## 4. What is proved

Every theorem holds for all values of the constants that meet the module's
assumption. The assumptions give the constants their types and say little more:
`GraphAssumption` what `_validate_transitions` leaves of a graph, `StoreAssumption`
that the note about a cut extract fits the output budget and that no text is the
mark of a missing file, `EvaluationsAssumption` that a config file's path is no
evaluation id, that its lists are sequences and that each of its checks has an id
and an evaluator. Each safety theorem comes from an inductive invariant: a step for
the initial states, one per action for the next-state relation, and the property as
a consequence. TLC checked every such invariant on the constants of that
component's run before it was proved (but for `Ordered`, which speaks of all
rankings); `IInv` stays a property of the runs `live`, `llm`, `tools` and
`conversation`.

### AgentSessions

For any number of processes, resets and budgets, with or without overlap:

* `Inductive` (`IInv`), `TypeCorrect`, `BudgetKept` (`ChainWithinBudget`),
  `ResetKeepsOrder` (`ContinuationIsNewer`), `KillLosesNoStep`
  (`KilledRunIsResumable`), `HintHolds` (`HintIsResumable`), and `DeadIsImmutable`
  (`DeadCheckpointImmutable`), an action property;
* while no session is resumed that still runs (`~ResumeLive`): `ResumeKeepsOrder`
  (`ResumedIsNewer`), `FinishedLeavesNothing` (`FinishedTaskLeavesNoCheckpoint`) and
  `OnlyYoungContinuationsLose` (`StepsLostOnlyToYoungContinuation`). Without that
  condition they are false, since a source that still runs saves again after it was
  resumed; nothing in the code prevents it, and it is listed as a hazard.

`ChainWithinBudget` and `ContinuationIsNewer` are not inductive. The first needs
that a session about to make an LLM call has a step left (the loop test and the
guards before the call). The second needs that a session with a continuation is
past every point where it could save (`HandedOver`): the RESET return of
`Pipeline.execute` is what makes this so, and the mutant `CheckpointAfterReset`,
which saves after a reset, breaks it. It also needs that no file time lies ahead
of the clock. `SessionsInv` and `DiskInv` add exactly this. The rest of `IInv` says
that the sessions of a process are a call stack (`StackInv`), where a failure
comes from and when it is cleared (`FailureInv`), who holds a completed step
(`StepsInv`), what a session that returned has settled on disk (`SettledInv`) and
what is handed on along a line of sessions (`LineInv`). Three kinds of action
are told apart: those that move one session (`NodeStep`, `SessionMoves`), those that
create one (`MainBuilt`, `ContinuationBuilt` and the `...Joins` lemmas), and
`KillStep`. `OnlyYoungContinuationsLose` follows a step along the line of
sessions that held it, to the last one. That there is a last one is `Ordered`:
sessions can be ranked by when they came into being.

### WorkflowGraph

For every graph that passes validation:

* `TypeCorrect`, `LoopsBounded` (`RoundsBounded`), `Overshoot` (`OvershootBounded`),
  `HonestStop` (`StopReasonIsTrue`). The step bound needs that inside a pass the
  steps taken since the loop test do not exceed the stages gone through.
* `EventsAreTrue` (`EventsTellRounds`): with `EventsSettled`, a ceiling that is
  exhausted is recorded in the very step that ends the run.
* `AcceptsLatest` (`AcceptsTheNewest`): with `Heard`, no stage was given more than
  was said, and a decision stage that stops the run was given the newest of it.

### LLMClient

* `DeadlineHolds`: a call overruns its tolerance by at most one probe, and a
  retryable failure is given up only after it. It needs `ProbeClock`: inside a
  probe, what lies behind the deadline is at most that probe's own requests and
  sleeps, because the patient delay is clipped to it.
* `TraceHolds` (`TraceTellsOutcome`), with `TraceInv`: what the rows say of the call
  that is under way.
* `Inductive` (`IInv`) and `PromiseKept` (`KeepsPromise`): the refinement of `LLMPromise`, every action
  a step of the abstract call or none.

### ToolExecutor

For messages of any length, any mixture of calls and any number of workers:

* `BarrierKept` (`IInv`): a call that may change something runs while no other
  runs or is queued, after all before it and before all after it, and no more run
  than there are workers. It needs `Progress`, which says for each place of the
  main thread how far every call is.
* `AnsweredOrNot` (`AllOrNothing`), with `Answered` and `Slotted`: the answers so far
  are those of a prefix of the calls.
* `TraceKept` (`TraceFollowsCalls`): an LLM call that a tool makes is in that tool's
  row because only a call that runs alone makes one (`OnlyAloneAsks`).
* `OverlapUnseen` (`ActsSequentially`): the refinement of `SequentialDispatch`, in which a read-only
  line may pass the reduction that would refuse it, and nothing else may. The
  action that takes a result from the pool is the abstract call. What the result
  saw of the workspace is what the abstract call sees, since between the two only
  calls ran that change nothing.

### ArtifactStore

For any texts, call ids and budgets, and whichever write fails:

* `PointersLead` (`NothingDangles`), `NothingTwice` (`StoredOnce`). `WellStored` is
  preserved by the storing of one stream (`OneStream`), of which an operation makes
  two; the search for a duplicate picks a file that, as read back, holds the text, and none
  older does (`DuplicateHolds`). Both speak of texts as read back, and `StoredOnce` of texts
  without CRLF: of the others it is false (`StoredOnceVerbatim`).
* `PointersReadBack` (`StdoutReadsBack`): a slice of the two joined streams that lies
  in the first of them is a slice of the file.
* `AnswersAreHonest` (`ExtractIsHonest`): of the text that was loaded, an answer to a query is
  whole or says that it is not, and an extract fits the output budget with its marker;
  whether the text is all there was, and how long the other answers are, is
  what `ExtractIsComplete` and `AnswersFitBudget` are about. The scan over the chunks and what it
  leaves of the budget are recursive functions. That functions with these equations
  exist is proved by a least counterexample (`RecursionExists`), and so
  are their types.

### Conversation

For any tool calls, any number of steps, resets and resumes:

* `Inductive` (`IInv`): messages that are one object are one message, each row is
  a true delta to the call it is based on, answers are in call order, and the
  detector's memory is a streak of the records.
* `ViewerIsRight` (`ReaderRestores`): what the viewer's recursive function returns is
  determined by the rows (`ReaderIsRight`, by the least position where it would
  differ), and `DeltasAreTrue` makes it what was sent.
* `RetirementCovers` (`RetiredIsCovered`, skill bodies retired for their pointer excepted) and `AlarmsNeverOverstate` (`AlarmsAreTrue`): the
  first is inductive together with `IInv`, the second needs what an alarm row said
  when it was written (`RowsTrue`) and, for a streak that must not go unsignalled,
  that each streak was followed from its first failure (`Followed`).

### SessionRun and SessionTrace

For any step budget, any step a run is resumed at and any number of tools and queries:

* `UsageHandedOn` (`SumCheckPasses`): the sum-check passes on each session whose file has all
  its calls, but for an empty hand-back, and a parent's copy of its subagent's usage is what
  the subagent saved. `IInv` says that sessions nest and only the last one moves
  (`Nested`), that what has not begun has done nothing (`Begun`), which part of the hand-back has
  been done at each of its places (`Reported`), and that a subagent pays for a report of its
  own only when it hands one back, its caller only when it does not (`PaidOnce`). Both know the
  call that is not saved yet (`Unsaved`). Most actions move the running session alone
  (`LocalStep`); a session begins (`PushStep`), ends (`PopStep`, in each of the ways
  `EndingActions` lists) or has one part of its report taken (`HandStep`).
* `TreeHolds` (`TreeIsTrue`): the viewer draws a tree of any log a run can leave, numbers
  its steps as the run counted them (from where a resumed run goes on, and but for one more
  after a last call that failed, was interrupted or raised) and hangs every call under its
  maker, but for a tool that was cut off and a summary that nothing in the log triggered.
* `AccountsAgree` (`UsageAgrees`): what a session saves of its own and its subagent's usage
  is what the viewer sums over its tree, if no call came before the first step and no
  hand-back was cut between the usage and the tool's row, or failed (`HandedOver`).

The last two rest on `TraceInductive`. `TraceInv` adds to `IInv` who waits for whom
(`Stacked`), what is left of a subagent's usage while a delegate call is under way (`Handing`,
`Owed`), which places have a pending tool or a saved ledger (`Settled`), and
`Seen`: the graph `load_session` has when it has read all rows written so far, before
it nests the last step and adds the end. `Seen` says of each session's graph

* that it is a tree (`Shaped`), whose nodes come from rows of the log, in steps and
  with ordinals already counted (`Known`), so that the next row's name is new;
* that a tool's calls hang under the session and are in `nested` until its row comes,
  and in the last step (`Hung`), so that this row finds all of them and no other;
* that a summarizer is in the last step and its own call the first of its kind there
  (`Summed`), because summaries are made only after the last main call and no call of
  their kind was made before (`Clean`, `Told`), so that nesting moves the right call;
* that it has as many steps as the run (`Stepped`) and of each kind as many calls as
  the ledger and what was taken over from the subagent, or is owed, together (`Accounted`).

TLC found `TraceInv`, but for `g \in GraphType` in `Shaped`, which it cannot evaluate, to hold in all
states of a fresh and of a resumed run; it is no invariant of `trace`, because of that conjunct.

The tree itself is not inductive: nothing in it says which names are free or which
calls a tool's row will find. A step appends at most two rows, and reading them
continues the fold (`ReadAppend`, from the rows-so-far determining what is
read, `ReadingsAgree`), so each action comes down to the rows it writes (`Seen...`)
and then to `...Trace`. The hard steps are `PopTrace`, after which a log is read that is over, and
`EndDelegateTrace`, where the subagent's tree is embedded in its parent's.

### Evaluations

For any evaluations, configs, config files, answers and judges:

* `LastRunHolds` (`LastRunIsTrue`): a run is looked at on its own (`RunOK`), and
  whoever edits the store, what it says of a run is what the run wrote (`Recorded`).
* `GateIsSound` (`GateHolds`): the gate composes along a chain of results (`GateChain`),
  and an errored run has passed nothing because none of its scores has.
* `AcceptedConfigsBuild` (`AcceptedGraphBuilds`): what validation accepts has distinct
  stages and edges between them, so the loop without a ceiling is the only way for
  the constructor to refuse it (`AcceptedRuns`). That the pipeline is built is all it
  says: whether the run then works is not modelled.

### On the prover

`tlapm` 1.4.5 gives its SMT solver, for every value and not for sequences alone, the
axiom that `Len(s) = n` if and only if `DOMAIN s = 1 .. n`. A function over `0 .. n` then
makes hypotheses contradictory. All eight modules have therefore also been checked
with the axiom cut down to the direction that is sound, from its right side to its
left; no leaf rests on the other.

## 5. What is only model-checked

* Liveness: `EveryRunEnds`, `Terminates`, `EveryCallEnds`, `DispatchEnds`. Fairness
  and ENABLED are beyond the prover.
* What the code breaks, which are claims of the documentation and not of the code.

## 6. Plan

1. Delegation in `AgentSessions`: a subagent's checkpoints are newer than its
   parent's. `--resume` of a workflow run, which needs `AgentSessions` and
   `WorkflowGraph` composed.
2. The resource sampler: start, stop and tick as steps of several threads.

TLC decides each formula before a proof is tried; modules with theorems stay free
of RECURSIVE operators.

## 7. Not modelled

* Command-line and URL rules (`policy`, `egress`, `exfil`), the shell lexer,
  prompt texts, HTML, terminal output, statistics and pricing: data without
  control. The gates' verdicts are inputs of `ToolExecutor`.
* Sandboxing and hooks: stateless wrappers around one call.
* The resource sampler: a side thread whose samples no decision depends on. Its
  `stop` waits for the old thread only for a while, so a following `start` may
  leave two threads sampling, and a recorder that fails to start keeps its
  reference.
* Calibration of judges, report texts and the printing commands of `evals`.
* Torn `session_data.json` files (agent.py:600), and Ctrl-C between the few pairs of
  statements that section 2 names as one step.
* Behaviour the models show that no document speaks of: an edit of an evaluation is lost to a
  finishing run, and a deleted one comes back (evaluation 686); a check left out of a run
  in the middle escapes the gate along a chain (compare 107). What documents do
  speak of is in section 3.

Smaller hazards, beyond the list in `PROJECT.json`, that no property covers: an
outage tolerance of `inf` or `nan` is accepted and disables the deadline (llm 170);
the uncapped backoff overflows a float at attempt 1025, some 8.5 hours into an
outage (llm 299); a window probe during an outage pins the default window (llm
110); a resumed run has an artifact directory of its own and cannot find the
artifacts its inherited messages name (registry 400); only the immediate source
of a resumed run is cleared (agent 347, a documented limitation); a torn last row
hides a session from the viewer's list (reader 1501); a torn evaluation file makes
listing its collection raise (evaluation 322); an LLM failure while judging loses
the run's result (judge 570); `verdict.json` keeps the last check only (results 120).
