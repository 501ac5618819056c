----------------------------- MODULE LLMPromise -----------------------------
(***************************************************************************)
(* What LLM.chat_completion keeps to its callers, whatever the server does *)
(* meanwhile: a call is answered, given up only once the outage tolerance  *)
(* is used up, refused at once with a classified error, or abandoned; it   *)
(* overruns its tolerance by less than one probe; and exactly the answered *)
(* calls are counted.  LLMClient implements it.                            *)
(***************************************************************************)
EXTENDS Integers

CONSTANTS
    Patience,     \* the outage tolerances a call may run under
    Overrun       \* the longest one probe lasts

VARIABLES
    calling,      \* is a call open?
    patience,     \* the tolerance of the newest call
    waited,       \* the time spent in it so far
    answers,      \* the calls answered so far
    result        \* how the last closed call ended; "open" meanwhile

vars == <<calling, patience, waited, answers, result>>

Retryable == {"transport", "http-status"}
Excess(t) == (IF t > 0 THEN t ELSE 0) + Overrun

Init == /\ calling = FALSE
        /\ patience \in Patience
        /\ waited = 0
        /\ answers = 0
        /\ result = "none"

Begin == /\ ~calling
         /\ calling' = TRUE
         /\ patience' \in Patience
         /\ waited' = 0
         /\ result' = "open"
         /\ UNCHANGED answers

(* Time passes while the server is silent or down.                         *)
Stall == /\ calling
         /\ waited' > waited
         /\ waited' <= Excess(patience)
         /\ UNCHANGED <<calling, patience, answers, result>>

End(r) == /\ calling
          /\ calling' = FALSE
          /\ waited' >= waited
          /\ waited' <= Excess(patience)
          /\ result' = r
          /\ UNCHANGED patience

Answer == End("answered") /\ answers' = answers + 1

GiveUp == /\ \E c \in Retryable : End(c)
          /\ waited' >= patience
          /\ UNCHANGED answers

Refuse == End("refused") /\ UNCHANGED answers

(* Ctrl-C, or an exception the client does not classify: errors.py:3 says  *)
(* there is none, so this is what the code keeps, not what that line says. *)
Abandon == /\ \E c \in {"unclassified", "interrupted"} : End(c)
           /\ UNCHANGED answers

Next == Begin \/ Stall \/ Answer \/ GiveUp \/ Refuse \/ Abandon

Spec == Init /\ [][Next]_vars
=============================================================================
