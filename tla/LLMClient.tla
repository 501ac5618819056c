------------------------------ MODULE LLMClient ------------------------------
(***************************************************************************)
(* The chat-completion client (engine/llm): fast transport retries nested  *)
(* in a patient wait bounded by an outage tolerance, the classification of *)
(* failures, the usage ledger llm_calls and the events a recorder keeps.   *)
(*                                                                         *)
(* Time is counted in half seconds, the base of both backoffs.  A request  *)
(* takes at most Latency (the HTTP timeout) and a sleep exactly its delay. *)
(* A response is reduced to the class _validate_response gives it.  Left   *)
(* out: a tolerance of inf or nan (which turns the deadline off), request  *)
(* bodies, token counts and log lines.                                     *)
(***************************************************************************)
EXTENDS Integers, Sequences, FiniteSets

CONSTANTS
    Tolerances,   \* what MCA_LLM_OUTAGE_TOLERANCE_S may yield, read at each call
    Cap,          \* PATIENT_BACKOFF_CAP_S
    Latency,      \* the longest a single request takes
    MaxCalls      \* bound: the calls of a client's life that are looked at

ASSUME ClientAssumption ==
    /\ Tolerances \subseteq Int /\ Tolerances # {}
    /\ Cap \in Nat \ {0}
    /\ Latency \in Nat
    /\ MaxCalls \in Nat

VARIABLES
    phase,        \* "idle" between calls, "request" inside one
    tolerance,    \* of the newest call
    elapsed,      \* time since that call began
    attempt,      \* its probes, the running one included
    tries,        \* requests of the running probe, the running one included
    delay,        \* the next patient delay before it is clipped
    llm_calls,    \* the usage ledger: the number of each answered call
    log,          \* the client's rows of events.jsonl
    recording,    \* is a recorder attached (an agent's client, not a judge's)?
    window,       \* the cached context window
    outcome,      \* how the last call ended; "open" meanwhile
    calls         \* calls begun, for the bound only

clock == <<tolerance, elapsed, attempt, tries, delay>>
vars == <<phase, clock, llm_calls, log, recording, window, outcome, calls>>

HTTP_RETRIES == 3
Transport == "transport"
HttpStatus == "http-status"
Min(a, b) == IF a < b THEN a ELSE b

Backoff(t) == IF t = 1 THEN 1 ELSE 2           \* _HTTP_BACKOFF * 2 ** (t - 1)

CallNumber == Len(llm_calls) + 1
Row(type) == [type |-> type, call |-> CallNumber, attempt |-> attempt]
Emit(rows) == log' = IF recording THEN log \o rows ELSE log

Init ==
    /\ phase = "idle" /\ tolerance \in Tolerances
    /\ elapsed = 0 /\ attempt = 1 /\ tries = 1 /\ delay = 1
    /\ llm_calls = <<>> /\ log = <<>> /\ recording \in BOOLEAN
    /\ window = "unset" /\ outcome = "none" /\ calls = 0

(* available_models: the server names the model's window, answers without  *)
(* naming it (the default), or not at all (an HTTP error).                 *)
Probes == {"reported", "default", "unreachable", "unreadable"}

(* The lazily read context_window: the probe's answer, or the default after *)
(* an HTTP error; any other exception leaves it unset.                     *)
ReadContextWindow ==
    /\ phase = "idle" /\ window = "unset"
    /\ \E probe \in Probes :
          window' = CASE probe = "unreachable" -> "default"
                      [] probe = "unreadable" -> "unset"
                      [] OTHER -> probe
    /\ UNCHANGED <<phase, clock, llm_calls, log, recording, outcome, calls>>

(* An agent reads the window when it starts its recorder, before any call. *)
Call ==
    /\ phase = "idle" /\ calls < MaxCalls
    /\ recording => window # "unset"
    /\ phase' = "request" /\ outcome' = "open" /\ calls' = calls + 1
    /\ tolerance' \in Tolerances
    /\ elapsed' = 0 /\ attempt' = 1 /\ tries' = 1 /\ delay' = Min(Cap, 1)
    /\ UNCHANGED <<llm_calls, log, recording, window>>

(* The call leaves chat_completion at time `at' without an answer.         *)
Leave(at, how, rows) ==
    /\ phase' = "idle" /\ outcome' = how /\ elapsed' = at
    /\ Emit(rows)
    /\ UNCHANGED <<tolerance, attempt, tries, delay, llm_calls, recording, window, calls>>

(* _request_with_retry: a transient transport error, slept off and retried. *)
RetryFast(l) ==
    /\ phase = "request" /\ tries < HTTP_RETRIES
    /\ elapsed' = elapsed + l + Backoff(tries)
    /\ tries' = tries + 1
    /\ UNCHANGED <<phase, tolerance, attempt, delay, llm_calls, log, recording, window,
                   outcome, calls>>

(* A probe failed in a retryable way: the last try of a transport failure, *)
(* or a 5xx/429 at any try.  The deadline is read after the probe; the     *)
(* patient delay never reaches past it.                                    *)
GiveUpBeforeLastWait(l, class) ==      \* mutant: tests whether the next delay fits
    /\ phase = "request" /\ elapsed + l + delay >= tolerance
    /\ class = Transport => tries = HTTP_RETRIES
    /\ Leave(elapsed + l, class, <<Row("llm_failure")>>)

GiveUp(l, class) ==
    /\ phase = "request" /\ elapsed + l >= tolerance
    /\ class = Transport => tries = HTTP_RETRIES
    /\ Leave(elapsed + l, class, <<Row("llm_failure")>>)

Unclipped(d, at) == d                  \* mutant: the last delay is not clipped
Clipped(d, at) == Min(d, tolerance - at)

WaitAfresh(l, class) ==                \* mutant: every wait starts the clock again
    /\ phase = "request" /\ elapsed + l < tolerance
    /\ class = Transport => tries = HTTP_RETRIES
    /\ elapsed' = 0 /\ attempt' = 1 /\ tries' = 1 /\ delay' = 1
    /\ UNCHANGED <<phase, tolerance, llm_calls, log, recording, window, outcome, calls>>

WaitPatiently(l, class) ==
    /\ phase = "request" /\ elapsed + l < tolerance
    /\ class = Transport => tries = HTTP_RETRIES
    /\ elapsed' = elapsed + l + Clipped(delay, elapsed + l)
    /\ attempt' = attempt + 1 /\ tries' = 1 /\ delay' = Min(Cap, 2 * delay)
    /\ Emit(<<Row("llm_wait")>>)
    /\ UNCHANGED <<phase, tolerance, llm_calls, recording, window, outcome, calls>>

(* A status no retry can mend, or a 2xx body without JSON or choices.      *)
Refuse(l) ==
    /\ phase = "request"
    /\ Leave(elapsed + l, "refused", <<Row("llm_failure")>>)

(* An exception outside _TRANSIENT_HTTP_ERRORS, or Ctrl-C: nothing catches *)
(* it, nothing is recorded.                                                *)
Escape(l, how) ==
    /\ phase = "request"
    /\ Leave(elapsed + l, how, <<>>)

(* A valid response: the recovery row when a wait preceded it, the ledger  *)
(* entry, then the llm_call row, in one step: an interrupt between the     *)
(* three (llm/__init__.py:263, 444, 458), which would leave a recovery row *)
(* or a ledger entry without its llm_call row, is not modelled.            *)
AnsweredThenRecovered(l) ==           \* mutant: the recovery row comes last
    /\ phase = "request"
    /\ phase' = "idle" /\ outcome' = "answered" /\ elapsed' = elapsed + l
    /\ llm_calls' = Append(llm_calls, CallNumber)
    /\ Emit(<<Row("llm_call")>> \o (IF attempt > 1 THEN <<Row("llm_recovery")>> ELSE <<>>))
    /\ UNCHANGED <<tolerance, attempt, tries, delay, recording, window, calls>>

Answered(l) ==
    /\ phase = "request"
    /\ phase' = "idle" /\ outcome' = "answered" /\ elapsed' = elapsed + l
    /\ llm_calls' = Append(llm_calls, CallNumber)
    /\ Emit((IF attempt > 1 THEN <<Row("llm_recovery")>> ELSE <<>>) \o <<Row("llm_call")>>)
    /\ UNCHANGED <<tolerance, attempt, tries, delay, recording, window, calls>>

Respond(l) ==
    \/ RetryFast(l)
    \/ \E class \in {Transport, HttpStatus} : GiveUp(l, class) \/ WaitPatiently(l, class)
    \/ Refuse(l)
    \/ Escape(l, "unclassified")
    \/ Escape(l, "interrupted")
    \/ Answered(l)

Next == ReadContextWindow \/ Call \/ \E l \in 0..Latency : Respond(l)

(* The client is sequential and every request ends: an open call moves on. *)
Fairness == WF_vars(\E l \in 0..Latency : Respond(l))
Spec == Init /\ [][Next]_vars
FairSpec == Spec /\ Fairness
-----------------------------------------------------------------------------
(* One probe: HTTP_RETRIES requests and the two sleeps between them.       *)
ProbeTime == HTTP_RETRIES * Latency + Backoff(1) + Backoff(2)
Positive(t) == IF t > 0 THEN t ELSE 0

Promise == INSTANCE LLMPromise WITH
    Patience <- Tolerances, Overrun <- ProbeTime, calling <- (phase = "request"),
    patience <- tolerance, waited <- elapsed, answers <- Len(llm_calls), result <- outcome

LogRow == [type : {"llm_wait", "llm_recovery", "llm_failure", "llm_call"},
           call : Nat, attempt : Nat]

TypeOK ==
    /\ phase \in {"idle", "request"}
    /\ tolerance \in Tolerances
    /\ elapsed \in Nat /\ attempt \in Nat \ {0} /\ tries \in 1..HTTP_RETRIES
    /\ delay \in 1..Cap
    /\ llm_calls \in Seq(Nat)
    /\ log \in Seq(LogRow)
    /\ recording \in BOOLEAN
    /\ window \in {"unset", "default", "reported"}
    /\ outcome \in {"none", "open", "answered", "refused", "unclassified", "interrupted",
                    Transport, HttpStatus}
    /\ calls \in Nat

(* Before each request of a probe at most the sleeps and requests of that  *)
(* probe lie behind the deadline: the inductive form of the overrun bound. *)
ProbeClock ==
    phase = "request" =>
        elapsed <= Positive(tolerance) + (tries - 1) * Latency
                   + (IF tries > 1 THEN Backoff(1) ELSE 0) + (IF tries > 2 THEN Backoff(2) ELSE 0)

(* engine/llm:286: a call overruns its outage tolerance by less than one   *)
(* whole probe, however its fast retries, patient waits and late answers   *)
(* nest, and a retryable failure is given up only after the tolerance.     *)
DeadlineKept ==
    /\ elapsed <= Positive(tolerance) + ProbeTime
    /\ outcome \in {Transport, HttpStatus} => elapsed >= tolerance

Count(type, n) == Cardinality({i \in DOMAIN log : log[i].type = type /\ log[i].call = n})

(* engine/llm:254 and 363: what the recorder wrote agrees with what the    *)
(* caller saw: the i-th answer is the llm_call row numbered i, a recovery  *)
(* row goes with waits before and its call row after it, and the newest    *)
(* row of a closed call names its end.                                     *)
TraceTellsOutcome ==
    recording =>
        /\ \A i \in DOMAIN llm_calls : llm_calls[i] = i /\ Count("llm_call", i) = 1
        /\ \A i \in DOMAIN log : log[i].type = "llm_recovery" =>
              /\ i > 1 /\ log[i - 1].type = "llm_wait" /\ log[i - 1].attempt = log[i].attempt - 1
              /\ i < Len(log) /\ log[i + 1] = [log[i] EXCEPT !.type = "llm_call"]
        /\ outcome = "answered" => log # <<>> /\ log[Len(log)].type = "llm_call"
        /\ outcome \in {"refused", Transport, HttpStatus} =>
              log # <<>> /\ log[Len(log)].type = "llm_failure"

(* What the next row of an open call relies on: its waits, if any, are the  *)
(* newest rows; and no answer is recorded before it is in the ledger.       *)
OpenCall ==
    /\ phase = "request" => outcome = "open"
    /\ recording =>
        /\ phase = "request" /\ attempt > 1 =>
              log # <<>> /\ log[Len(log)].type = "llm_wait"
              /\ log[Len(log)].attempt = attempt - 1
        /\ \A i \in DOMAIN log : log[i].type = "llm_call" => log[i].call \in DOMAIN llm_calls

(* What every step of the client preserves.                                *)
TimeInv == TypeOK /\ ProbeClock /\ DeadlineKept
TraceInv == OpenCall /\ TraceTellsOutcome
IInv == TimeInv /\ TraceInv

(* Every call ends, through any outage, when every request ends.           *)
EveryCallEnds == (phase = "request") ~> (phase = "idle")

(* "Every failure of LLM.chat_completion is raised as exactly one of these"  *)
(* (errors.py:3): an ended call was answered, failed with a classified       *)
(* error, or was interrupted by the user.  The code breaks it: a transport   *)
(* error that is none of three is raised as it is.                           *)
FailuresAreClassified ==
    phase = "idle" => outcome \in {"none", "answered", "refused", "interrupted",
                                   Transport, HttpStatus}

(* chat_completion implements what its callers can rely on.  That includes   *)
(* an exception outside the classified errors, which errors.py:3 rules out   *)
(* and the code does not (FailuresAreClassified).                            *)
KeepsPromise == Promise!Spec
=============================================================================
