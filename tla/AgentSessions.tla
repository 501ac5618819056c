--------------------------- MODULE AgentSessions ---------------------------
(***************************************************************************)
(* The life of agent sessions and of their resume checkpoints: AgentNode   *)
(* driven by the default five-node pipeline, the checkpoint store under    *)
(* .my_coding_agent/, context resets, and the CLI's --resume and           *)
(* --resume-last.                                                          *)
(*                                                                         *)
(* A CLI invocation is a process r \in Run.  It owns a chain of sessions   *)
(* <<r, 0>>, <<r, 1>>, ...: <<r, 0>> is the session the CLI builds and     *)
(* <<r, d+1>> the continuation <<r, d>> spawns when its context fills up.  *)
(* A continuation runs inside its parent's call stack, so at most one      *)
(* session of a process is running and those above it wait.                *)
(*                                                                         *)
(* Abstractions.                                                           *)
(*  - A conversation is the set of steps it holds, as messages or through  *)
(*    a handoff summary; a step is named by its session and its number.    *)
(*  - The context-window ratio is one of three levels.  It is what the     *)
(*    next ContextGuardNode will compute from last_prompt_tokens, or from  *)
(*    the message length when the server reported none.                    *)
(*  - The finish reasons stop, exit and quit are all "stop".               *)
(*  - Delegated subagents are not part of this module, but for the LLM      *)
(*    failure one can leave behind (ReportFails).                            *)
(***************************************************************************)
EXTENDS Naturals, FiniteSets

CONSTANTS
  Run,          \* CLI invocations
  MaxDepth,     \* bound: context resets in one process
  Budget,       \* the --max-steps values in use
  Opening,      \* context levels a freshly built conversation may have
  Overlap,      \* may a CLI start while another process is alive?
  ResumeLive,   \* may the session to resume still be running?
  NoSession     \* Python's None where a session id is expected

Session == Run \X (0 .. MaxDepth)

Level == {"low", "high", "full"}

ASSUME ConstantsAssumption ==
  /\ MaxDepth \in Nat
  /\ Budget \subseteq Nat \ {0}
  /\ Opening \subseteq Level
  /\ Overlap \in BOOLEAN
  /\ ResumeLive \in BOOLEAN
  /\ NoSession \notin Session

Main(r) == <<r, 0>>
Continuation(s) == <<s[1], s[2] + 1>>

(***************************************************************************)
(* Where a session stands.                                                 *)
(*   off      not created                                                  *)
(*   opening  constructed; execute() has not entered its try block         *)
(*   guard    about to run ContextGuardNode, i.e. at the top of a step     *)
(*   handoff  the guard is having the handoff summary written              *)
(*   spawning the summary is secured; the continuation is not built yet    *)
(*   waiting  inside spawn_fn(), while its continuation runs               *)
(*   llm      about to run LLMCallNode                                     *)
(*   tools    about to run ToolDispatchNode .. FinalizeStepNode            *)
(*   save     the step completed; the checkpoint is to be written          *)
(*   replace  checkpoint.json.tmp is written, os.replace is next           *)
(*   finally  in execute()'s finally block, own checkpoint not settled     *)
(*   sweep    own checkpoint settled, the source's not                     *)
(*   ended    execute() returned or raised                                 *)
(*   killed   the process died under it (kill -9, power loss)              *)
(***************************************************************************)
InTry == {"guard", "handoff", "spawning", "llm", "tools", "save", "replace"}
OutsideTry == {"opening", "finally", "sweep"}
Running == InTry \cup OutsideTry
Place == Running \cup {"off", "waiting", "ended", "killed"}

StopReason ==
  {"stop", "max_steps", "context_limit", "context_reset", "aborted", "llm_failure"}

Exception == {"none", "error", "interrupt"}

Step == Session \X Nat

(* AgentNode and the RunContext it drives. *)
AgentRecord ==
  [pc: Place, step: Nat, budget: Nat, level: Level, conv: SUBSET Step,
   signal: {"CONTINUE", "STOP", "RESET"}, stop: StopReason,
   failure: Session \cup {NoSession},    \* failure_session_id, None without failure_error
   didReset: BOOLEAN,                    \* _did_context_reset
   source: Session \cup {NoSession},     \* resumed_from
   raised: Exception]                    \* what leaves execute() as an exception

(* checkpoint.json; "torn" is a file json.loads refuses. *)
CheckpointRecord ==
  [status: {"absent", "intact", "torn"}, step: Nat, level: Level,
   conv: SUBSET Step, mtime: Nat]

VARIABLES
  node,     \* node[s]: the AgentNode of session s
  ckpt,     \* ckpt[s]: .my_coding_agent/<s>/checkpoint.json
  clock,    \* the file system's clock: ticks at every os.replace
  durable   \* history: the steps some checkpoint has ever held

vars == <<node, ckpt, clock, durable>>

Absent == [status |-> "absent", step |-> 0, level |-> "low", conv |-> {}, mtime |-> 0]

(* The constructor, followed by the assignments that open execute(). *)
Built(budget, step, level, conv, source) ==
  [pc |-> "opening", step |-> step, budget |-> budget, level |-> level,
   conv |-> conv, signal |-> "CONTINUE", stop |-> "max_steps",
   failure |-> NoSession, didReset |-> FALSE, source |-> source, raised |-> "none"]

NotCreated == [Built(0, 0, "low", {}, NoSession) EXCEPT !.pc = "off"]

Live(s) == node[s].pc \notin {"off", "ended", "killed"}
OnDisk(s) == ckpt[s].status # "absent"
Readable(s) == ckpt[s].status = "intact"

TypeOK ==
  /\ node \in [Session -> AgentRecord]
  /\ ckpt \in [Session -> CheckpointRecord]
  /\ clock \in Nat
  /\ durable \in SUBSET Step
  /\ \A s \in Session : node[s].pc # "off" => node[s].budget >= 1

Init ==
  /\ node = [s \in Session |-> NotCreated]
  /\ ckpt = [s \in Session |-> Absent]
  /\ clock = 0
  /\ durable = {}

-----------------------------------------------------------------------------
(* Faulty variants of the definitions below, each a bug the property it is   *)
(* paired with must catch; the specification never uses them.                *)

RemainingIsWholeBudget(s) == node[s].budget

RemainingCountsStepTwice(s) == node[s].budget - node[s].step - 1

DropsOwnWhenAborted(s) ==
  node[s].didReset \/ node[s].stop \in {"stop", "aborted"}

DropsOwnAlways(s) == TRUE

DropsSourceOnCleanOnly(s) ==
  /\ node[s].source # NoSession
  /\ node[s].failure = NoSession /\ node[s].stop = "stop"

WriteInPlace(s) ==
  /\ node[s].pc = "save"
  /\ ckpt' = [ckpt EXCEPT ![s].status = "torn"]
  /\ node' = [node EXCEPT ![s].pc = "replace"]
  /\ UNCHANGED <<clock, durable>>

ReplaceInSourceDirectory(s) ==
  /\ node[s].pc = "replace"
  /\ ckpt' = [ckpt EXCEPT ![IF node[s].source = NoSession THEN s ELSE node[s].source] =
                [status |-> "intact", step |-> node[s].step, level |-> node[s].level,
                 conv |-> node[s].conv, mtime |-> clock + 1]]
  /\ clock' = clock + 1
  /\ durable' = durable \cup node[s].conv
  /\ node' = [node EXCEPT ![s].pc =
                IF node[s].signal = "CONTINUE" THEN "guard" ELSE "finally"]

ReplaceKeepsFileTime(s) ==
  /\ node[s].pc = "replace"
  /\ ckpt' = [ckpt EXCEPT ![s] =
                [status |-> "intact", step |-> node[s].step, level |-> node[s].level,
                 conv |-> node[s].conv,
                 mtime |-> IF @.mtime = 0 /\ node[s].source # NoSession
                           THEN ckpt[node[s].source].mtime ELSE clock + 1]]
  /\ clock' = clock + 1
  /\ durable' = durable \cup node[s].conv
  /\ node' = [node EXCEPT ![s].pc =
                IF node[s].signal = "CONTINUE" THEN "guard" ELSE "finally"]

CheckpointAfterReset(s) ==
  /\ node[s].pc = "waiting"
  /\ node[Continuation(s)].pc = "ended"
  /\ node' = [node EXCEPT ![s].pc = "save", ![s].signal = "STOP"]
  /\ UNCHANGED <<ckpt, clock, durable>>

ReturnIgnoresException(s) ==
  /\ node[s].pc = "waiting"
  /\ node[Continuation(s)].pc = "ended"
  /\ node[Continuation(s)].raised = "none"
  /\ node' = [node EXCEPT ![s].pc = "finally", ![s].signal = "RESET",
                          ![s].failure = node[Continuation(s)].failure]
  /\ UNCHANGED <<ckpt, clock, durable>>

-----------------------------------------------------------------------------
(* The command line. *)

MayStart(r) ==
  /\ node[Main(r)].pc = "off"
  /\ Overlap \/ \A s \in Session : ~Live(s)

(* my-coding-agent -p ...: a fresh session. *)
StartFresh(r) ==
  /\ MayStart(r)
  /\ \E budget \in Budget, level \in Opening :
       node' = [node EXCEPT ![Main(r)] = Built(budget, 0, level, {}, NoSession)]
  /\ UNCHANGED <<ckpt, clock, durable>>

(* --resume s: the checkpoint is read once, into a session of its own.  A    *)
(* missing or unreadable checkpoint exits 2 and touches nothing.  The code   *)
(* does not ask whether s still runs; ResumeLive says whether the user does. *)
Resume(r, s) ==
  /\ MayStart(r)
  /\ Readable(s)
  /\ ResumeLive \/ ~Live(s)
  /\ \E budget \in Budget :
       node' = [node EXCEPT ![Main(r)] =
                  Built(budget, ckpt[s].step, ckpt[s].level, ckpt[s].conv, s)]
  /\ UNCHANGED <<ckpt, clock, durable>>

(* find_last_resumable: the newest checkpoint file, readable or not. *)
IsLastResumable(s) ==
  /\ OnDisk(s)
  /\ \A t \in Session : OnDisk(t) => ckpt[t].mtime <= ckpt[s].mtime

ResumeLast(r) == \E s \in Session : IsLastResumable(s) /\ Resume(r, s)

-----------------------------------------------------------------------------
(* The step loop. *)

(* Pipeline.execute's loop test, met on entry and after every pass. *)
LoopPlace(s, signal) ==
  IF signal = "CONTINUE" /\ node[s].step < node[s].budget THEN "guard" ELSE "finally"

(* execute() up to the loop: session_start is recorded, the hooks fire. *)
Enter(s) ==
  /\ node[s].pc = "opening"
  /\ node' = [node EXCEPT ![s].pc = LoopPlace(s, "CONTINUE")]
  /\ UNCHANGED <<ckpt, clock, durable>>

(* ContextGuardNode below the reset threshold. *)
GuardPasses(s) ==
  /\ node[s].pc = "guard"
  /\ node[s].level = "low"
  /\ node' = [node EXCEPT ![s].pc = "llm"]
  /\ UNCHANGED <<ckpt, clock, durable>>

(* ContextGuardNode at 100 %: STOP, which still checkpoints the pass. *)
GuardStops(s) ==
  /\ node[s].pc = "guard"
  /\ node[s].level = "full"
  /\ node' = [node EXCEPT ![s].pc = "save", ![s].signal = "STOP",
                          ![s].stop = "context_limit"]
  /\ UNCHANGED <<ckpt, clock, durable>>

(* ContextGuardNode above the threshold: the handoff summary comes first.    *)
(* The bound MaxDepth holds the deepest session before this point.           *)
GuardResets(s) ==
  /\ node[s].pc = "guard"
  /\ node[s].level = "high"
  /\ s[2] < MaxDepth
  /\ node' = [node EXCEPT ![s].pc = "handoff"]
  /\ UNCHANGED <<ckpt, clock, durable>>

LLMFailure(s) ==
  node' = [node EXCEPT ![s].pc = "finally", ![s].stop = "llm_failure",
                       ![s].failure = s]

(* A summary call fails before the reset is on record. *)
HandoffFails(s) ==
  /\ node[s].pc = "handoff"
  /\ LLMFailure(s)
  /\ UNCHANGED <<ckpt, clock, durable>>

RemainingBudget(s) ==
  IF node[s].budget > node[s].step THEN node[s].budget - node[s].step ELSE 1

(* The summary is on hand: from here on the session counts as reset.  The    *)
(* flag (agent.py:681), the handoff row and the stop reason (703) are one    *)
(* step: Ctrl-C between them is not modelled.                                *)
SecureHandoff(s) ==
  /\ node[s].pc = "handoff"
  /\ node' = [node EXCEPT ![s].pc = "spawning", ![s].didReset = TRUE,
                          ![s].stop = "context_reset"]
  /\ UNCHANGED <<ckpt, clock, durable>>

(* _spawn_continuation: a new session, seeded with the handoff summary. *)
SpawnContinuation(s) ==
  /\ node[s].pc = "spawning"
  /\ s[2] < MaxDepth
  /\ \E level \in Opening :
       node' = [node EXCEPT
         ![s].pc = "waiting",
         ![Continuation(s)] =
            Built(RemainingBudget(s), 0, level, node[s].conv, NoSession)]
  /\ UNCHANGED <<ckpt, clock, durable>>

(* LLMCallNode: the step is counted before the request is made. *)
CallLLM(s) ==
  /\ node[s].pc = "llm"
  /\ node' = [node EXCEPT ![s].pc = "tools", ![s].step = @ + 1]
  /\ UNCHANGED <<ckpt, clock, durable>>

LLMCallFails(s) ==
  /\ node[s].pc = "llm"
  /\ node' = [node EXCEPT ![s].pc = "finally", ![s].stop = "llm_failure",
                          ![s].failure = s, ![s].step = @ + 1]
  /\ UNCHANGED <<ckpt, clock, durable>>

(* A delegated subagent could not have its report written: that LLM failure  *)
(* is none a tool call recovers from, and ends the session that delegated.   *)
ReportFails(s) ==
  /\ node[s].pc = "tools"
  /\ LLMFailure(s)
  /\ UNCHANGED <<ckpt, clock, durable>>

(* ToolDispatchNode, AnomalyDetectNode and FinalizeStepNode: the rest of the *)
(* step, which ends clean, at the step ceiling, or with the model going on.  *)
CompleteStep(s) ==
  /\ node[s].pc = "tools"
  /\ \E level \in Level, clean \in BOOLEAN :
       LET ceiling == ~clean /\ node[s].step >= node[s].budget
       IN  node' = [node EXCEPT
             ![s].pc = "save", ![s].level = level,
             ![s].conv = @ \cup {<<s, node[s].step>>},
             ![s].signal = IF clean \/ ceiling THEN "STOP" ELSE "CONTINUE",
             ![s].stop = IF clean THEN "stop"
                         ELSE IF ceiling THEN "max_steps" ELSE @]
  /\ UNCHANGED <<ckpt, clock, durable>>

(* save_checkpoint, first half: the sibling temp file nobody reads. *)
WriteTemp(s) ==
  /\ node[s].pc = "save"
  /\ node' = [node EXCEPT ![s].pc = "replace"]
  /\ UNCHANGED <<ckpt, clock, durable>>

(* save_checkpoint, second half: os.replace, then the loop test. *)
ReplaceCheckpoint(s) ==
  /\ node[s].pc = "replace"
  /\ ckpt' = [ckpt EXCEPT ![s] =
                [status |-> "intact", step |-> node[s].step, level |-> node[s].level,
                 conv |-> node[s].conv, mtime |-> clock + 1]]
  /\ clock' = clock + 1
  /\ durable' = durable \cup node[s].conv
  /\ node' = [node EXCEPT ![s].pc = LoopPlace(s, node[s].signal)]

(* spawn_fn() is over in the parent: the continuation left an exception, or  *)
(* returned, with or without a failure to surface.  RESET makes the pipeline *)
(* return without a checkpoint.  Ctrl-C after the continuation's return and  *)
(* before that signal is not modelled.                                       *)
ReturnFromContinuation(s) ==
  /\ node[s].pc = "waiting"
  /\ node[Continuation(s)].pc = "ended"
  /\ LET cont == node[Continuation(s)]
     IN  \/ /\ cont.raised = "interrupt"
            /\ node' = [node EXCEPT ![s].pc = "finally", ![s].stop = "aborted"]
         \/ /\ cont.raised = "error"
            /\ node' = [node EXCEPT ![s].pc = "finally", ![s].raised = "error"]
         \/ /\ cont.raised = "none"
            /\ node' = [node EXCEPT
                  ![s].pc = "finally", ![s].signal = "RESET",
                  ![s].failure = cont.failure,
                  ![s].stop = IF cont.failure = NoSession THEN @ ELSE cont.stop]
  /\ UNCHANGED <<ckpt, clock, durable>>

-----------------------------------------------------------------------------
(* The finally block of AgentNode.execute. *)

CleanFinish(s) == node[s].failure = NoSession /\ node[s].stop = "stop"

(* Which checkpoints this session's end supersedes. *)
DropsOwn(s) == node[s].didReset \/ CleanFinish(s)
DropsSource(s) ==
  /\ node[s].source # NoSession
  /\ IF node[s].didReset THEN node[s].failure = NoSession ELSE CleanFinish(s)

SettleOwn(s) ==
  /\ node[s].pc = "finally"
  /\ ckpt' = IF DropsOwn(s) THEN [ckpt EXCEPT ![s] = Absent] ELSE ckpt
  /\ node' = [node EXCEPT ![s].pc = "sweep"]
  /\ UNCHANGED <<clock, durable>>

SettleSource(s) ==
  /\ node[s].pc = "sweep"
  /\ ckpt' = IF DropsSource(s) THEN [ckpt EXCEPT ![node[s].source] = Absent] ELSE ckpt
  /\ node' = [node EXCEPT ![s].pc = "ended"]
  /\ UNCHANGED <<clock, durable>>

-----------------------------------------------------------------------------
(* What interrupts a session. *)

(* Ctrl-C is caught by execute()'s try block and becomes a stop; before the  *)
(* try block and inside finally it leaves execute() as the exception it is.  *)
Interrupt(s) ==
  /\ \/ /\ node[s].pc \in InTry
        /\ node' = [node EXCEPT ![s].pc = "finally", ![s].stop = "aborted"]
     \/ /\ node[s].pc \in OutsideTry
        /\ node' = [node EXCEPT ![s].pc = "ended", ![s].raised = "interrupt"]
  /\ UNCHANGED <<ckpt, clock, durable>>

(* Any other exception (a failed file write, an error outside the classified *)
(* LLM failures): the finally block runs, stop_reason is left as it was.     *)
RaiseError(s) ==
  /\ \/ /\ node[s].pc \in InTry
        /\ node' = [node EXCEPT ![s].pc = "finally", ![s].raised = "error"]
     \/ /\ node[s].pc \in OutsideTry
        /\ node' = [node EXCEPT ![s].pc = "ended", ![s].raised = "error"]
  /\ UNCHANGED <<ckpt, clock, durable>>

(* kill -9: the whole process goes, with every session on its stack. *)
Kill(r) ==
  /\ Live(Main(r))
  /\ node' = [s \in Session |-> IF s[1] = r /\ Live(s)
                                THEN [node[s] EXCEPT !.pc = "killed"] ELSE node[s]]
  /\ UNCHANGED <<ckpt, clock, durable>>

-----------------------------------------------------------------------------
(* What the program does of its own accord, as opposed to what befalls it. *)
Progress(s) ==
  \/ Enter(s)
  \/ GuardPasses(s)
  \/ GuardStops(s)
  \/ GuardResets(s)
  \/ HandoffFails(s)
  \/ SecureHandoff(s)
  \/ SpawnContinuation(s)
  \/ CallLLM(s)
  \/ LLMCallFails(s)
  \/ ReportFails(s)
  \/ CompleteStep(s)
  \/ WriteTemp(s)
  \/ ReplaceCheckpoint(s)
  \/ ReturnFromContinuation(s)
  \/ SettleOwn(s)
  \/ SettleSource(s)

Next ==
  \/ \E r \in Run : StartFresh(r)
  \/ \E r \in Run, s \in Session : Resume(r, s)
  \/ \E r \in Run : ResumeLast(r)
  \/ \E s \in Session : Progress(s)
  \/ \E s \in Session : Interrupt(s)
  \/ \E s \in Session : RaiseError(s)
  \/ \E r \in Run : Kill(r)

Spec == Init /\ [][Next]_vars

(* A session that can move does: every node returns or raises.  Nothing is   *)
(* assumed of the user, of crashes, or of which outcome an LLM call has.     *)
FairSpec == Spec /\ \A s \in Session : WF_vars(Progress(s))

-----------------------------------------------------------------------------
(* Properties. *)

Ended(s) == node[s].pc = "ended"
Saved(s) == \E w \in durable : w[1] = s

(* A process has done its task: it returned, one of its sessions was told by *)
(* the model that the work is finished, and nothing cut their cleanup short. *)
TaskDone(r) ==
  /\ Ended(Main(r))
  /\ \E s \in Session : s[1] = r /\ Ended(s) /\ CleanFinish(s)
  /\ \A s \in Session : s[1] = r => node[s].raised = "none"

(* Wherever a kill -9 falls, between or inside two saves, the last completed *)
(* step of a session that was neither reset nor finished can be resumed,     *)
(* until a run resumed from it ends (save_checkpoint's temp file and         *)
(* os.replace; "a reader never observes a torn file", checkpoint.py:72).     *)
KilledRunIsResumable ==
  \A s \in Session :
    /\ node[s].pc = "killed" /\ Saved(s)
    /\ ~node[s].didReset /\ ~CleanFinish(s)
    => \/ Readable(s) /\ {w \in durable : w[1] = s} \subseteq ckpt[s].conv
       \/ \E r \in Run : node[Main(r)].source = s /\ Ended(Main(r))

(* However often a process resets its context, the LLM steps of the whole    *)
(* chain stay within --max-steps: a continuation is given what its parent    *)
(* has left, and no session started from step 0 goes past its ceiling.       *)
ChainWithinBudget ==
  \A s \in Session :
    /\ node[s].source = NoSession => node[s].step <= node[s].budget
    /\ /\ s[2] < MaxDepth
       /\ node[Continuation(s)].pc # "off"
       => node[s].step + node[Continuation(s)].budget <= node[s].budget

(* --resume-last goes by file time.  It must never pick a session that was   *)
(* superseded while what supersedes it has a checkpoint of its own: a        *)
(* session's checkpoint is older than its continuation's.                    *)
ContinuationIsNewer ==
  \A s \in Session :
    /\ s[2] < MaxDepth
    /\ OnDisk(s)
    /\ OnDisk(Continuation(s))
    => ckpt[s].mtime < ckpt[Continuation(s)].mtime

(* The same for a resumed run and the session it was resumed from.           *)
ResumedIsNewer ==
  \A s \in Session :
    /\ node[s].source # NoSession
    /\ OnDisk(s)
    /\ OnDisk(node[s].source)
    => ckpt[node[s].source].mtime < ckpt[s].mtime

(* A finished task is no magnet for --resume-last: the process leaves no     *)
(* checkpoint of its own sessions nor of the session it was resumed from.    *)
(* A run stopped at its step ceiling is not finished: agent.py:334 keeps its *)
(* checkpoint, against checkpoint.py:85 (MaxStepsLeavesNoCheckpoint).        *)
FinishedTaskLeavesNoCheckpoint ==
  \A r \in Run : TaskDone(r) =>
    \A s \in Session : s[1] = r \/ s = node[Main(r)].source => ~OnDisk(s)

(* A step some checkpoint has held is held by a running session, by a        *)
(* readable checkpoint, or by a finished task.                               *)
Held(w) ==
  \E s \in Session :
    \/ Live(s) /\ w \in node[s].conv
    \/ Readable(s) /\ w \in ckpt[s].conv
    \/ CleanFinish(s) /\ w \in node[s].conv

(* "If a run dies - outage beyond tolerance, kill -9, crash - --resume loads *)
(* that checkpoint" (README.md:87).  What the code guarantees of it: the     *)
(* completed steps are lost only when a context reset was followed by a      *)
(* continuation that was over, or never begun, before it completed a step of *)
(* its own.                                                                  *)
StepsLostOnlyToYoungContinuation ==
  \A w \in durable :
    \/ Held(w)
    \/ \E s \in Session :
         /\ node[s].didReset /\ w \in node[s].conv
         /\ ~Live(Continuation(s)) /\ ~Saved(Continuation(s))

(* The command line's failure hint names a session that --resume accepts,    *)
(* provided that session completed a step, until a resumed run ends.         *)
HintIsResumable ==
  \A r \in Run :
    LET hinted == node[Main(r)].failure
    IN  Ended(Main(r)) /\ hinted # NoSession /\ Saved(hinted)
        => \/ Readable(hinted)
           \/ \E x \in Run : node[Main(x)].source = hinted /\ Ended(Main(x))

(* The continuation "holds the resumable checkpoint and is named by the CLI  *)
(* resume hint" (README.md:94).                                              *)
FailedContinuationIsResumable ==
  \A r \in Run :
    LET hinted == node[Main(r)].failure
    IN  /\ Ended(Main(r))
        /\ hinted \notin {NoSession, Main(r)}
        /\ node[Main(r)].raised = "none"
        /\ \A x \in Run : node[Main(x)].source # hinted
        => Readable(hinted)

(* "max_steps / aborted / other -> keep ours (still resumable with a bigger  *)
(* budget)" (agent.py:334): a resumed run that comes to an end of its own    *)
(* with steps left in its budget has completed at least one.                 *)
ResumedRunProceeds ==
  \A s \in Session :
    /\ Ended(s) /\ node[s].source # NoSession
    /\ node[s].stop = "context_limit" /\ node[s].raised = "none"
    => \E w \in node[s].conv : w[1] = s

(* "The dead session's files stay immutable" (README.md:87): once a session  *)
(* is over its checkpoint may be removed, never rewritten.                   *)
DeadCheckpointImmutable ==
  [][\A s \in Session :
       ~Live(s) /\ OnDisk(s) => ckpt'[s] = ckpt[s] \/ ckpt'[s] = Absent]_vars

(* Why the checkpoints stay in order: a session that has a continuation never *)
(* saves again, and no file time lies ahead of the clock.  With the type      *)
(* invariant this is what every step of the specification preserves.          *)
HandedOver == {"waiting", "finally", "sweep", "ended", "killed"}

SessionsInv ==
  /\ node \in [Session -> AgentRecord]
  /\ \A s \in Session :
       /\ node[s].pc # "off" => node[s].budget >= 1
       /\ node[s].pc = "waiting" => s[2] < MaxDepth
       /\ node[s].pc \in {"guard", "handoff", "spawning", "llm"}
            => node[s].step < node[s].budget
       /\ s[2] < MaxDepth /\ node[Continuation(s)].pc # "off"
            => node[s].pc \in HandedOver
  /\ ChainWithinBudget

DiskInv ==
  /\ ckpt \in [Session -> CheckpointRecord]
  /\ clock \in Nat
  /\ durable \in SUBSET Step
  /\ \A s \in Session :
       /\ OnDisk(s) => node[s].pc # "off"
       /\ ckpt[s].mtime <= clock
  /\ ContinuationIsNewer

(* The sessions of a process are a call stack: one that has handed over to a *)
(* continuation counts as reset, never as finished, and waits while anything *)
(* above it runs.  What a run is resumed from existed before it.             *)
Later(s, t) == s[1] = t[1] /\ s[2] < t[2]
Over == {"finally", "sweep", "ended", "killed"}

StackInv ==
  \A s \in Session :
    /\ node[s].pc = "off" => node[s] = NotCreated
    /\ node[s].pc \in {"spawning", "waiting"} =>
         node[s].didReset /\ node[s].stop = "context_reset"
    /\ node[s].didReset => /\ node[s].pc \in {"spawning"} \cup HandedOver
                          /\ ~CleanFinish(s)
    /\ \A t \in Session : Later(s, t) /\ node[t].pc # "off" =>
         /\ node[s].didReset /\ node[s].pc \in HandedOver
         /\ Live(t) => node[s].pc = "waiting"
         /\ node[t].pc = "killed" => node[s].pc = "killed"
    /\ node[s].source # NoSession =>
         /\ s[2] = 0 /\ node[s].source # s /\ node[node[s].source].pc # "off"
         /\ ResumeLive \/ ~Live(node[s].source)

(* A failure names the session it ended, which was not reset; it comes down  *)
(* the stack unless an exception does, and a finish without one comes down   *)
(* as none.                                                                  *)
FailureInv ==
  \A s \in Session :
    /\ node[s].failure # NoSession =>
         LET failed == node[s].failure
         IN  /\ node[failed].failure = failed /\ node[failed].pc \in Over
             /\ ~node[failed].didReset
    /\ \A t \in Session :
         /\ node[s].pc \in Over \ {"killed"} /\ Later(s, t) /\ CleanFinish(t)
         /\ \A u \in Session : u = s \/ Later(s, u) => node[u].raised = "none"
         => node[s].failure = NoSession

(* Who holds a completed step.  It is in the conversation of the session     *)
(* that made it, and reaches other sessions only through a checkpoint; a     *)
(* checkpoint holds what its session has saved; and it is there unless its   *)
(* session was reset or finished, or a run resumed from it was.              *)
Superseded(s) ==
  \/ CleanFinish(s) /\ node[s].pc \in Over \ {"finally"}
  \/ \E r \in Run :
       node[Main(r)].source = s /\ Ended(Main(r)) /\ DropsSource(Main(r))

StepsInv ==
  /\ \A w \in durable : w \in node[w[1]].conv
  /\ \A s \in Session :
       /\ \A w \in node[s].conv : w[1] # s => w \in durable /\ w \in node[w[1]].conv
       /\ node[s].pc \in {"opening", "guard", "handoff", "spawning", "waiting", "llm", "tools"}
            => node[s].conv \subseteq durable
       /\ ckpt[s].status # "torn" /\ ckpt[s].conv \subseteq durable \cap node[s].conv
       /\ Readable(s) => durable \cap node[s].conv \subseteq ckpt[s].conv
       /\ Saved(s) /\ ~node[s].didReset => Readable(s) \/ Superseded(s)

(* A session that ended by returning has settled both checkpoints; what a    *)
(* run was resumed from is not written again unless it was still running.    *)
Returned(s) == Ended(s) /\ node[s].raised = "none"

SettledInv ==
  /\ \A s \in Session :
       /\ node[s].pc = "sweep" \/ Returned(s) => (DropsOwn(s) => ~OnDisk(s))
       /\ Returned(s) /\ DropsSource(s) => ResumeLive \/ ~OnDisk(node[s].source)
  /\ ResumeLive \/ ResumedIsNewer

(* What is handed on: a continuation holds what its parent held, and a run   *)
(* resumed from a dead session what was saved of it.                         *)
LineInv ==
  \A s \in Session :
    /\ node[s].pc \in {"handoff", "spawning"} \/ node[s].didReset => s[2] < MaxDepth
    /\ s[2] < MaxDepth /\ node[Continuation(s)].pc # "off"
         => node[s].conv \subseteq node[Continuation(s)].conv
    /\ node[s].source # NoSession =>
         \/ ResumeLive
         \/ durable \cap node[node[s].source].conv \subseteq node[s].conv

IInv == /\ SessionsInv /\ DiskInv /\ StackInv /\ FailureInv /\ StepsInv
        /\ SettledInv /\ LineInv

(* The deepest session the bound allows is about to reset its context too.   *)
ResetsPastBound(r) ==
  LET s == <<r, MaxDepth>> IN node[s].pc = "guard" /\ node[s].level = "high"

(* Whatever its LLM calls bring and wherever exceptions and Ctrl-C leave its  *)
(* nested execute() calls, a CLI process comes to an end, unless it goes on   *)
(* resetting its context: each session of the chain settles, hands over, or   *)
(* gives control back to the one below it (agent.py:282-343).                 *)
EveryRunEnds == \A r \in Run : Live(Main(r)) ~> ~Live(Main(r)) \/ ResetsPastBound(r)

(* "--max-steps: Maximum pipeline step iterations" (README.md:102).  A pass   *)
(* that resets is an iteration too: if only steps filled the context, a chain *)
(* of sessions would never reset more often than its budget has steps.  The   *)
(* code breaks it: an opening above the threshold resets before any step.     *)
ResetsWithinBudget ==
  \A r \in Run : node[Main(r)].pc # "off" =>
    Cardinality({s \in Session : s[1] = r /\ node[s].didReset}) <= node[Main(r)].budget

(* "a cleanly finished (or max_steps) session leaves no checkpoint and is    *)
(* never targeted by find_last_resumable" (checkpoint.py:85): the half about  *)
(* max_steps, which the code breaks on purpose (agent.py:334).                *)
MaxStepsLeavesNoCheckpoint ==
  \A s \in Session : Returned(s) /\ node[s].stop = "max_steps" => ~OnDisk(s)

=============================================================================
