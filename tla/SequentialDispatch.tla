-------------------------- MODULE SequentialDispatch --------------------------
(***************************************************************************)
(* What one assistant message's tool calls mean: they are carried out one  *)
(* after the other in call order, each sees the effects of all before it,  *)
(* and either every call is answered or, once one raises, none is.         *)
(* ToolExecutor, which overlaps read-only calls, implements it.            *)
(***************************************************************************)
EXTENDS Naturals, Sequences

CONSTANTS
    Messages,       \* the sequences of tool-call kinds to carry out
    Mutating,       \* the kinds that may change the workspace
    Builds, Clones, \* the bash lines the provenance patterns match
    Gated           \* the kinds that must not pass once the run is reduced

VARIABLES
    calls,      \* the message's tool calls
    answers,    \* what each call answered: its outcome and the world it saw
    world,      \* how often the workspace was changed
    tainted,    \* has untrusted content entered the run?
    cloned,     \* has the run cloned a repository?
    verdict     \* "running", "returned" or "raised"

vars == <<calls, answers, world, tainted, cloned, verdict>>

Handled == {"ok", "failed", "blocked", "reduced", "unparsed"}

Init == /\ calls \in Messages
        /\ answers = <<>> /\ world = 0 /\ verdict = "running"
        /\ tainted \in BOOLEAN /\ cloned \in BOOLEAN

Current == calls[Len(answers) + 1]

Changes(kind, out) ==
    \/ UNCHANGED world
    \/ kind \in Mutating /\ out \in {"ok", "failed", "raise"} /\ world' = world + 1

(* A subagent's fetches and clones count as the run's own.                 *)
MayNote(kind) ==
    /\ tainted' \in {tainted, tainted \/ kind \in {"fetch", "delegate"}}
    /\ cloned' \in {cloned, cloned \/ kind \in Clones \cup {"delegate"}}
Notes(kind, out) ==
    \/ kind = "delegate" /\ out # "blocked" /\ MayNote(kind)
    \/ /\ kind # "delegate" \/ out = "blocked"
       /\ tainted' = (tainted \/ (kind = "fetch" /\ out = "ok"))
       /\ cloned' = (cloned \/ (kind \in Clones /\ out = "ok"))

Perform(out) ==
    /\ verdict = "running" /\ Len(answers) < Len(calls)
    /\ (out = "reduced") => Current \in Builds /\ tainted /\ cloned
    /\ (out \in {"ok", "failed"}) => ~(Current \in Gated /\ tainted /\ cloned)
    /\ (out = "unparsed") <=> (Current = "unparsed")
    /\ Changes(Current, out) /\ Notes(Current, out)
    /\ answers' = Append(answers, [out |-> out, seen |-> world])
    /\ UNCHANGED <<calls, verdict>>

(* A call is cut short: what it did and noted by then stays.               *)
Touch == /\ verdict = "running" /\ Len(answers) < Len(calls)
         /\ Changes(Current, "raise") /\ MayNote(Current)
         /\ verdict' = "raised"
         /\ UNCHANGED <<calls, answers>>

Raise == /\ verdict = "running" /\ verdict' = "raised"
         /\ UNCHANGED <<calls, answers, world, tainted, cloned>>

Return == /\ verdict = "running" /\ Len(answers) = Len(calls) /\ verdict' = "returned"
          /\ UNCHANGED <<calls, answers, world, tainted, cloned>>

Next == (\E out \in Handled : Perform(out)) \/ Touch \/ Raise \/ Return

Spec == Init /\ [][Next]_vars
=============================================================================
