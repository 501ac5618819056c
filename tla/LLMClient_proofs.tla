-------------------------- MODULE LLMClient_proofs --------------------------
(***************************************************************************)
(* For every tolerance, latency and backoff cap: the types and the overrun *)
(* bound of a chat completion hold in every state, and the client          *)
(* implements LLMPromise step by step.                                     *)
(***************************************************************************)
EXTENDS LLMClient, TLAPS, FiniteSetTheorems

USE ClientAssumption

(* Backing off sleeps one or two units.                                    *)
LEMMA BackoffValues == Backoff(1) = 1 /\ Backoff(2) = 2
  BY DEF Backoff

(* A row the client writes is a log row, and so are the sequences of them. *)
LEMMA RowType ==
  ASSUME TypeOK, NEW type \in {"llm_wait", "llm_recovery", "llm_failure", "llm_call"}
  PROVE  <<Row(type)>> \in Seq(LogRow)
  <1>1. CallNumber \in Nat
    BY DEF CallNumber, TypeOK
  <1>2. Row(type) \in LogRow
    BY <1>1 DEF Row, LogRow, TypeOK
  <1>. QED  BY <1>2

(* Emitting log rows keeps the log well-typed.                             *)
LEMMA EmitType ==
  ASSUME TypeOK, NEW rows \in Seq(LogRow), Emit(rows)
  PROVE  log' \in Seq(LogRow)
  BY DEF TypeOK, Emit

(* The initial states satisfy the invariant.                               *)
LEMMA InitTime == Init => TimeInv
  BY BackoffValues DEF Init, TimeInv, TypeOK, ProbeClock, DeadlineKept, ProbeTime, Positive,
     HTTP_RETRIES, Transport, HttpStatus

(* Leaving a call keeps the invariant when the time of leaving is within   *)
(* one request of the running try, and past the deadline if it gives up.   *)
LEMMA LeaveTime ==
  ASSUME TimeInv, NEW l \in 0..Latency, phase = "request",
         NEW how \in {"refused", "unclassified", "interrupted", Transport, HttpStatus},
         how \in {Transport, HttpStatus} => elapsed + l >= tolerance,
         NEW rows \in Seq(LogRow), Leave(elapsed + l, how, rows)
  PROVE  TimeInv'
  <1>1. elapsed + l \in Nat /\ elapsed + l <= Positive(tolerance) + ProbeTime
    <2>1. /\ elapsed \in Nat /\ tolerance \in Int /\ tries \in 1..HTTP_RETRIES
          /\ elapsed <= Positive(tolerance) + (tries - 1) * Latency
                         + (IF tries > 1 THEN Backoff(1) ELSE 0) + (IF tries > 2 THEN Backoff(2) ELSE 0)
      BY ClientAssumption DEF TimeInv, TypeOK, ProbeClock
    <2>2. Latency \in Nat
      BY ClientAssumption
    <2>. QED  BY <2>1, <2>2, BackoffValues DEF ProbeTime, Positive, HTTP_RETRIES
  <1>2. log' \in Seq(LogRow)
    BY EmitType DEF TimeInv, Leave
  <1>3. TypeOK'
    BY <1>1, <1>2 DEF TimeInv, TypeOK, Leave, Transport, HttpStatus
  <1>. QED  BY <1>1, <1>3 DEF TimeInv, Leave, ProbeClock, DeadlineKept, ProbeTime, Positive

(* Every step keeps the invariant.                                         *)
LEMMA StepTime == TimeInv /\ [Next]_vars => TimeInv'
  <1> SUFFICES ASSUME TimeInv, [Next]_vars PROVE TimeInv'
    OBVIOUS
  <1> USE BackoffValues
  <1>w. TypeOK
    BY DEF TimeInv
  <1>r. /\ <<>> \in Seq(LogRow)
        /\ <<Row("llm_wait")>> \in Seq(LogRow) /\ <<Row("llm_recovery")>> \in Seq(LogRow)
        /\ <<Row("llm_failure")>> \in Seq(LogRow) /\ <<Row("llm_call")>> \in Seq(LogRow)
    BY <1>w, RowType
  <1>1. CASE ReadContextWindow
    BY <1>1 DEF TimeInv, TypeOK, ProbeClock, DeadlineKept, ProbeTime, Positive, ReadContextWindow, Probes, clock
  <1>2. CASE Call
    <2>1. delay' \in 1..Cap
      BY <1>2 DEF Call, Min
    <2>2. TypeOK'
      BY <1>2, <2>1 DEF TimeInv, TypeOK, Call, HTTP_RETRIES
    <2>3. ProbeTime \in Nat /\ Positive(tolerance') \in Nat
      BY <2>2 DEF TypeOK, ProbeTime, Positive, HTTP_RETRIES
    <2>4. tries' = 1 /\ elapsed' = 0 /\ outcome' = "open" /\ (tries' - 1) * Latency = 0
      BY <1>2 DEF Call
    <2>5. ProbeClock'
      BY <2>3, <2>4 DEF ProbeClock
    <2>6. DeadlineKept'
      BY <2>3, <2>4 DEF DeadlineKept, Transport, HttpStatus
    <2>. QED  BY <2>2, <2>5, <2>6 DEF TimeInv
  <1>3. ASSUME NEW l \in 0..Latency, Respond(l) PROVE TimeInv'
    <2>1. CASE RetryFast(l)
      BY <2>1 DEF TimeInv, TypeOK, ProbeClock, DeadlineKept, ProbeTime, Positive, RetryFast,
         HTTP_RETRIES, Backoff
    <2>2. ASSUME NEW class \in {Transport, HttpStatus}, GiveUp(l, class) PROVE TimeInv'
      <3>1. Leave(elapsed + l, class, <<Row("llm_failure")>>) /\ phase = "request"
            /\ elapsed + l >= tolerance
        BY <2>2 DEF GiveUp
      <3>. QED  BY <3>1, <1>r, LeaveTime
    <2>3. ASSUME NEW class \in {Transport, HttpStatus}, WaitPatiently(l, class) PROVE TimeInv'
      <3>1. delay' \in 1..Cap
        BY <2>3 DEF WaitPatiently, Min, TimeInv, TypeOK
      <3>2. elapsed' \in Nat /\ elapsed' <= tolerance
        BY <2>3 DEF WaitPatiently, Clipped, Min, TimeInv, TypeOK
      <3>3. log' \in Seq(LogRow)
        <4>1. Emit(<<Row("llm_wait")>>)
          BY <2>3 DEF WaitPatiently
        <4>. QED  BY <4>1, <1>w, <1>r, EmitType
      <3>4. TypeOK'
        BY <2>3, <3>1, <3>2, <3>3 DEF TimeInv, TypeOK, WaitPatiently, HTTP_RETRIES
      <3>5. ProbeClock' /\ DeadlineKept'
        BY <2>3, <3>2 DEF TimeInv, TypeOK, WaitPatiently, ProbeClock, DeadlineKept, ProbeTime,
           Positive, HTTP_RETRIES
      <3>. QED  BY <3>4, <3>5 DEF TimeInv
    <2>4. CASE Refuse(l)
      <3>1. Leave(elapsed + l, "refused", <<Row("llm_failure")>>) /\ phase = "request"
        BY <2>4 DEF Refuse
      <3>. QED  BY <3>1, <1>r, LeaveTime DEF Transport, HttpStatus
    <2>5. ASSUME NEW how \in {"unclassified", "interrupted"}, Escape(l, how) PROVE TimeInv'
      <3>1. Leave(elapsed + l, how, <<>>) /\ phase = "request"
        BY <2>5 DEF Escape
      <3>. QED  BY <3>1, <1>r, LeaveTime DEF Transport, HttpStatus
    <2>6. CASE Answered(l)
      <3>1. log' \in Seq(LogRow)
        <4> DEFINE rows == (IF attempt > 1 THEN <<Row("llm_recovery")>> ELSE <<>>)
                           \o <<Row("llm_call")>>
        <4>1. rows \in Seq(LogRow)
          BY <1>r
        <4>2. Emit(rows)
          BY <2>6 DEF Answered
        <4>. QED  BY <4>1, <4>2, <1>w, EmitType
      <3>2. llm_calls' \in Seq(Nat)
        BY <2>6 DEF TimeInv, TypeOK, Answered, CallNumber
      <3>3. elapsed' \in Nat /\ elapsed' <= Positive(tolerance) + ProbeTime
        BY <2>6 DEF Answered, TimeInv, TypeOK, ProbeClock, ProbeTime, Positive, HTTP_RETRIES
      <3>4. TypeOK'
        BY <2>6, <3>1, <3>2, <3>3 DEF TimeInv, TypeOK, Answered
      <3>. QED  BY <2>6, <3>3, <3>4 DEF TimeInv, Answered, ProbeClock, DeadlineKept, ProbeTime,
                Positive, Transport, HttpStatus
    <2>. QED  BY <1>3, <2>1, <2>2, <2>3, <2>4, <2>5, <2>6 DEF Respond
  <1>4. CASE UNCHANGED vars
    BY <1>4 DEF TimeInv, TypeOK, ProbeClock, DeadlineKept, ProbeTime, Positive, vars, clock
  <1>. QED  BY <1>1, <1>2, <1>3, <1>4 DEF Next

(* The newest rows come last and the others stay where they are.           *)
LEMMA EmitRows ==
  ASSUME TypeOK, recording, NEW rows \in Seq(LogRow), Emit(rows)
  PROVE  /\ Len(log) \in Nat /\ Len(rows) \in Nat
         /\ DOMAIN log = 1..Len(log) /\ DOMAIN (log') = 1..(Len(log) + Len(rows))
         /\ Len(log)' = Len(log) + Len(rows)
         /\ \A i \in 1..Len(log) : log'[i] = log[i]
         /\ \A i \in 1..Len(rows) : log'[Len(log) + i] = rows[i]
  BY DEF TypeOK, Emit

(* A client without a recorder, and one that writes nothing in a step that *)
(* ends no call, keeps its trace.                                          *)
LEMMA Unrecorded ==
  ASSUME TraceInv, ~recording, recording' = recording,
         phase' = "request" => outcome' = "open"
  PROVE  TraceInv'
  BY DEF TraceInv, OpenCall, TraceTellsOutcome

(* One more row that is neither an answer nor a recovery.                  *)
LEMMA OtherRow ==
  ASSUME TypeOK, TraceInv, recording, recording' = recording, phase = "request",
         NEW type \in {"llm_wait", "llm_failure"}, Emit(<<Row(type)>>), llm_calls' = llm_calls,
         outcome' # "answered",
         outcome' \in {"refused", Transport, HttpStatus} => type = "llm_failure",
         phase' = "request" => /\ outcome' = "open" /\ type = "llm_wait"
                               /\ attempt' = attempt + 1
  PROVE  TraceInv'
  <1> DEFINE r == Row(type)
             n == Len(log)
  <1>1. /\ r.type = type /\ r.attempt = attempt /\ <<r>> \in Seq(LogRow)
        /\ Len(<<r>>) = 1 /\ <<r>>[1] = r
    BY RowType DEF Row
  <1>2. /\ n \in Nat /\ DOMAIN log = 1..n /\ DOMAIN (log') = 1..(n + 1) /\ Len(log)' = n + 1
        /\ \A i \in 1..n : log'[i] = log[i]
        /\ log'[n + 1] = r
    <2>1. Emit(<<r>>)
      OBVIOUS
    <2> HIDE DEF r
    <2>2. /\ n \in Nat /\ DOMAIN log = 1..n /\ DOMAIN (log') = 1..(n + Len(<<r>>))
          /\ Len(log)' = n + Len(<<r>>)
          /\ \A i \in 1..n : log'[i] = log[i]
          /\ \A i \in 1..Len(<<r>>) : log'[n + i] = <<r>>[i]
      BY <1>1, <2>1, EmitRows
    <2> HIDE DEF n
    <2>. QED  BY <1>1, <2>2
  <1> HIDE DEF r, n
  <1>3. \A t \in {"llm_call", "llm_recovery"} : \A i \in DOMAIN (log') :
           log'[i].type = t => i \in DOMAIN log /\ log'[i] = log[i]
    BY <1>1, <1>2
  <1>4. \A c \in DOMAIN llm_calls : Count("llm_call", c)' = Count("llm_call", c)
    <2> SUFFICES ASSUME NEW c \in DOMAIN llm_calls
                 PROVE  {i \in DOMAIN (log') : log'[i].type = "llm_call" /\ log'[i].call = c}
                        = {i \in DOMAIN log : log[i].type = "llm_call" /\ log[i].call = c}
      BY DEF Count
    <2>. QED  BY <1>2, <1>3
  <1>5. log' # <<>> /\ log'[Len(log)'] = r
    BY <1>2
  <1>6. OpenCall'
    <2>1. \A i \in DOMAIN (log') : log'[i].type = "llm_call" => log'[i].call \in DOMAIN (llm_calls')
      BY <1>3 DEF TraceInv, OpenCall
    <2>2. phase' = "request" /\ attempt' > 1 => log'[Len(log)'].type = "llm_wait"
                                /\ log'[Len(log)'].attempt = attempt' - 1
      BY <1>1, <1>5 DEF TypeOK
    <2>. QED  BY <1>5, <2>1, <2>2 DEF OpenCall
  <1>7. ASSUME NEW i \in DOMAIN (log'), log'[i].type = "llm_recovery"
        PROVE  /\ i > 1 /\ log'[i - 1].type = "llm_wait" /\ log'[i - 1].attempt = log'[i].attempt - 1
               /\ i < Len(log)' /\ log'[i + 1] = [log'[i] EXCEPT !.type = "llm_call"]
    <2>1. /\ i \in 1..n /\ log'[i] = log[i] /\ i > 1
          /\ log[i - 1].type = "llm_wait" /\ log[i - 1].attempt = log[i].attempt - 1
          /\ i < n /\ log[i + 1] = [log[i] EXCEPT !.type = "llm_call"]
      BY <1>2, <1>3, <1>7 DEF TraceInv, TraceTellsOutcome, n
    <2>2. i - 1 \in 1..n /\ i + 1 \in 1..n
      BY <1>2, <2>1
    <2>. QED  BY <1>2, <2>1, <2>2
  <1>8. \A c \in DOMAIN (llm_calls') : llm_calls'[c] = c /\ Count("llm_call", c)' = 1
    BY <1>4 DEF TraceInv, TraceTellsOutcome
  <1>9. outcome' \in {"refused", Transport, HttpStatus} => log'[Len(log)'].type = "llm_failure"
    BY <1>1, <1>5
  <1>. QED  BY <1>5, <1>6, <1>7, <1>8, <1>9 DEF TraceInv, TraceTellsOutcome, Count

(* The rows of an answer: the recovery, if the call had to wait, follows   *)
(* the last wait, and the answer is recorded under its ledger number.      *)
LEMMA AnswerRows ==
  ASSUME TypeOK, TraceInv, recording, NEW l \in 0..Latency, Answered(l)
  PROVE  TraceInv'
  <1> DEFINE a == Row("llm_call")
             b == Row("llm_recovery")
             n == Len(log)
             m == Len(llm_calls)
             k == IF attempt > 1 THEN n + 2 ELSE n + 1
             rows == (IF attempt > 1 THEN <<b>> ELSE <<>>) \o <<a>>
  <1>1. /\ phase = "request" /\ phase' = "idle" /\ outcome' = "answered"
        /\ recording' = recording /\ Emit(rows) /\ llm_calls' = Append(llm_calls, m + 1)
    BY DEF Answered, CallNumber
  <1>2. /\ a.type = "llm_call" /\ b.type = "llm_recovery" /\ a.call = m + 1
        /\ a = [b EXCEPT !.type = "llm_call"] /\ b.attempt = attempt
        /\ m \in Nat /\ attempt \in Nat
    <2>1. m \in Nat /\ attempt \in Nat
      BY DEF TypeOK
    <2>. QED  BY <2>1 DEF Row, CallNumber
  <1>3. <<a>> \in Seq(LogRow) /\ <<b>> \in Seq(LogRow)
    BY RowType
  <1>4. /\ rows \in Seq(LogRow) /\ Len(rows) = (IF attempt > 1 THEN 2 ELSE 1)
        /\ attempt > 1 => rows[1] = b /\ rows[2] = a
        /\ ~(attempt > 1) => rows[1] = a
    BY <1>3
  <1>5. /\ n \in Nat /\ k \in Nat /\ n < k /\ DOMAIN log = 1..n /\ DOMAIN (log') = 1..k
        /\ Len(log)' = k
        /\ \A i \in 1..n : log'[i] = log[i]
        /\ log'[k] = a /\ (attempt > 1 => k = n + 2 /\ log'[n + 1] = b)
        /\ \A i \in 1..k : i \in 1..n \/ i = k \/ (attempt > 1 /\ i = n + 1)
    <2> HIDE DEF rows
    <2>1. /\ n \in Nat /\ DOMAIN log = 1..n /\ DOMAIN (log') = 1..(n + Len(rows))
          /\ Len(log)' = n + Len(rows)
          /\ \A i \in 1..n : log'[i] = log[i]
          /\ \A i \in 1..Len(rows) : log'[n + i] = rows[i]
      BY <1>1, <1>4, EmitRows
    <2>. QED  BY <1>4, <2>1
  <1>6. /\ DOMAIN llm_calls = 1..m /\ DOMAIN (llm_calls') = 1..(m + 1)
        /\ \A i \in 1..m : llm_calls'[i] = llm_calls[i]
        /\ llm_calls'[m + 1] = m + 1
    BY <1>1, <1>2 DEF TypeOK
  <1> HIDE DEF a, b, n, m, k, rows
  <1>7. \A i \in DOMAIN log : log[i].type = "llm_call" => log[i].call \in 1..m
    BY <1>6 DEF TraceInv, OpenCall
  <1>8. ASSUME NEW i \in DOMAIN (log'), log'[i].type = "llm_call"
        PROVE  \/ i = k /\ log'[i].call = m + 1
               \/ i \in DOMAIN log /\ log'[i] = log[i] /\ log'[i].call \in 1..m
    BY <1>2, <1>5, <1>7, <1>8
  <1>9. \A c \in DOMAIN (llm_calls') : llm_calls'[c] = c /\ Count("llm_call", c)' = 1
    <2>1. ASSUME NEW c \in 1..m
          PROVE  llm_calls'[c] = c /\ Count("llm_call", c)' = 1
      <3>1. {i \in DOMAIN (log') : log'[i].type = "llm_call" /\ log'[i].call = c}
            = {i \in DOMAIN log : log[i].type = "llm_call" /\ log[i].call = c}
        BY <1>2, <1>5, <1>8
      <3>2. llm_calls[c] = c /\ Count("llm_call", c) = 1
        BY <1>6 DEF TraceInv, TraceTellsOutcome
      <3>. QED  BY <1>6, <3>1, <3>2 DEF Count
    <2>2. ASSUME NEW c, c = m + 1
          PROVE  llm_calls'[c] = c /\ Count("llm_call", c)' = 1
      <3>1. k \in 1..k /\ log'[k].type = "llm_call" /\ log'[k].call = c /\ c \notin 1..m
        BY <1>2, <1>5, <2>2
      <3>2. {i \in DOMAIN (log') : log'[i].type = "llm_call" /\ log'[i].call = c} = {k}
        BY <1>5, <1>8, <3>1
      <3>3. Cardinality({k}) = 1
        BY FS_Singleton
      <3>. QED  BY <1>6, <2>2, <3>2, <3>3 DEF Count
    <2>. QED  BY <1>2, <1>6, <2>1, <2>2
  <1>10. OpenCall'
    BY <1>1, <1>2, <1>6, <1>8 DEF OpenCall
  <1>11. ASSUME NEW i \in DOMAIN (log'), log'[i].type = "llm_recovery"
         PROVE  /\ i > 1 /\ log'[i - 1].type = "llm_wait" /\ log'[i - 1].attempt = log'[i].attempt - 1
                /\ i < Len(log)' /\ log'[i + 1] = [log'[i] EXCEPT !.type = "llm_call"]
    <2>1. CASE i \in 1..n
      <3>1. /\ log'[i] = log[i] /\ i > 1
            /\ log[i - 1].type = "llm_wait" /\ log[i - 1].attempt = log[i].attempt - 1
            /\ i < n /\ log[i + 1] = [log[i] EXCEPT !.type = "llm_call"]
        BY <1>5, <1>11, <2>1 DEF TraceInv, TraceTellsOutcome, n
      <3>2. i - 1 \in 1..n /\ i + 1 \in 1..n
        BY <1>5, <2>1, <3>1
      <3>. QED  BY <1>5, <3>1, <3>2
    <2>2. CASE attempt > 1 /\ i = n + 1
      <3>1. log # <<>> /\ log[n].type = "llm_wait" /\ log[n].attempt = attempt - 1
        BY <1>1, <2>2 DEF TraceInv, OpenCall, n
      <3>2. n > 0
        BY <1>5, <3>1 DEF n, TypeOK
      <3>3. i - 1 = n /\ n \in 1..n /\ i + 1 = k /\ i < k
        BY <1>5, <2>2, <3>2
      <3>4. log'[i - 1] = log[n] /\ log'[i] = b /\ log'[i + 1] = a /\ Len(log)' = k
        BY <1>5, <2>2, <3>3
      <3>5. i > 1 /\ log'[i - 1].type = "llm_wait"
        BY <1>5, <2>2, <3>1, <3>2, <3>4
      <3>6. log'[i - 1].attempt = log'[i].attempt - 1
        BY <1>2, <3>1, <3>4
      <3>7. i < Len(log)' /\ log'[i + 1] = [log'[i] EXCEPT !.type = "llm_call"]
        BY <1>2, <3>3, <3>4
      <3>. QED  BY <3>5, <3>6, <3>7
    <2>. QED  BY <1>2, <1>5, <1>11, <2>1, <2>2
  <1>12. log' # <<>> /\ log'[Len(log)'].type = "llm_call"
    BY <1>2, <1>5
  <1>. QED  BY <1>1, <1>9, <1>10, <1>11, <1>12
            DEF TraceInv, TraceTellsOutcome, Count, Transport, HttpStatus

LEMMA InitTrace == Init => TraceInv
  BY DEF Init, TraceInv, OpenCall, TraceTellsOutcome, Transport, HttpStatus

(* Every step keeps the trace.                                             *)
LEMMA StepTrace == TimeInv /\ TraceInv /\ [Next]_vars => TraceInv'
  <1> SUFFICES ASSUME TimeInv, TraceInv, [Next]_vars PROVE TraceInv'
    OBVIOUS
  <1>w. TypeOK
    BY DEF TimeInv
  <1>a. ASSUME UNCHANGED <<llm_calls, log, recording>>,
               phase' = "request" => outcome' = "open" /\ (phase = "request" \/ attempt' = 1),
               phase' = "request" /\ phase = "request" => attempt' = attempt,
               outcome' \in {outcome, "open", "unclassified", "interrupted"}
        PROVE  TraceInv'
    <2>1. OpenCall'
      BY <1>a DEF TraceInv, OpenCall
    <2>2. \A c : Count("llm_call", c)' = Count("llm_call", c)
      BY <1>a DEF Count
    <2>3. recording => /\ outcome' = "answered" => outcome = "answered"
                       /\ outcome' \in {"refused", Transport, HttpStatus} =>
                             outcome \in {"refused", Transport, HttpStatus}
      BY <1>a DEF Transport, HttpStatus
    <2>4. TraceTellsOutcome'
      BY <1>a, <2>2, <2>3 DEF TraceInv, TraceTellsOutcome
    <2>. QED  BY <2>1, <2>4 DEF TraceInv
  <1>1. CASE ReadContextWindow
    BY <1>1, <1>a DEF ReadContextWindow, clock
  <1>2. CASE Call
    BY <1>2, <1>a DEF Call
  <1>3. ASSUME NEW l \in 0..Latency, Respond(l) PROVE TraceInv'
    <2>1. CASE RetryFast(l)
      <3>1. outcome = "open"
        BY <2>1 DEF RetryFast, TraceInv, OpenCall
      <3>. QED  BY <2>1, <3>1, <1>a DEF RetryFast
    <2>2. ASSUME NEW class \in {Transport, HttpStatus}, GiveUp(l, class) PROVE TraceInv'
      <3>1. /\ phase = "request" /\ phase' = "idle" /\ outcome' = class
            /\ Emit(<<Row("llm_failure")>>) /\ UNCHANGED <<llm_calls, recording>>
        BY <2>2 DEF GiveUp, Leave
      <3>2. outcome' # "answered"
        BY <3>1 DEF Transport, HttpStatus
      <3>. QED  BY <1>w, <3>1, <3>2, OtherRow, Unrecorded
    <2>3. ASSUME NEW class \in {Transport, HttpStatus}, WaitPatiently(l, class) PROVE TraceInv'
      <3>1. /\ phase = "request" /\ phase' = "request" /\ outcome' = outcome
            /\ Emit(<<Row("llm_wait")>>) /\ UNCHANGED <<llm_calls, recording>>
            /\ attempt' = attempt + 1
        BY <2>3 DEF WaitPatiently
      <3>2. outcome = "open"
        BY <3>1 DEF TraceInv, OpenCall
      <3>3. outcome' = "open" /\ outcome' # "answered"
            /\ outcome' \notin {"refused", Transport, HttpStatus}
        BY <3>1, <3>2 DEF Transport, HttpStatus
      <3>. QED  BY <1>w, <3>1, <3>3, OtherRow, Unrecorded
    <2>4. CASE Refuse(l)
      <3>1. /\ phase = "request" /\ phase' = "idle" /\ outcome' = "refused"
            /\ Emit(<<Row("llm_failure")>>) /\ UNCHANGED <<llm_calls, recording>>
        BY <2>4 DEF Refuse, Leave
      <3>. QED  BY <1>w, <3>1, OtherRow, Unrecorded
    <2>5. ASSUME NEW how \in {"unclassified", "interrupted"}, Escape(l, how) PROVE TraceInv'
      <3>1. /\ phase' = "idle" /\ outcome' = how /\ Emit(<<>>)
            /\ UNCHANGED <<llm_calls, recording>>
        BY <2>5 DEF Escape, Leave
      <3>2. log' = log
        BY <1>w, <3>1 DEF Emit, TypeOK
      <3>. QED  BY <3>1, <3>2, <1>a
    <2>6. CASE Answered(l)
      <3>1. recording' = recording /\ phase' = "idle"
        BY <2>6 DEF Answered
      <3>. QED  BY <1>w, <2>6, <3>1, AnswerRows, Unrecorded DEF Answered
    <2>. QED  BY <1>3, <2>1, <2>2, <2>3, <2>4, <2>5, <2>6 DEF Respond
  <1>4. CASE UNCHANGED vars
    BY <1>4, <1>a DEF vars, clock, TraceInv, OpenCall
  <1>. QED  BY <1>1, <1>2, <1>3, <1>4 DEF Next

(* The times and the trace together, in every reachable state.             *)
THEOREM Inductive == Spec => []IInv
  <1>1. Init => IInv
    BY InitTime, InitTrace DEF IInv
  <1>2. IInv /\ [Next]_vars => IInv'
    BY StepTime, StepTrace DEF IInv
  <1>. QED  BY <1>1, <1>2, PTL DEF Spec

(* engine/llm:286: whatever the tolerance, the latency and the cap, a call *)
(* overruns its outage tolerance by less than a probe, and a retryable     *)
(* failure is given up only once the tolerance is used up.                 *)
THEOREM DeadlineHolds == Spec => []DeadlineKept
  <1>1. IInv => DeadlineKept
    BY DEF IInv, TimeInv
  <1>. QED  BY <1>1, Inductive, PTL

(* engine/llm:254 and 363: the rows of events.jsonl tell each answer once, *)
(* in the order of the ledger, each recovery between its last wait and its *)
(* answer, and how a call that ended by itself ended.                      *)
THEOREM TraceHolds == Spec => []TraceTellsOutcome
  <1>1. IInv => TraceTellsOutcome
    BY DEF IInv, TraceInv
  <1>. QED  BY <1>1, Inductive, PTL

(* The initial states of the client are initial states of the promise.     *)
LEMMA InitPromise == Init => Promise!Init
  BY DEF Init, Promise!Init

(* Within the invariant every step of the client is a step of the promise  *)
(* or leaves it as it was.                                                 *)
LEMMA StepPromise == IInv /\ IInv' /\ [Next]_vars => [Promise!Next]_Promise!vars
  <1> SUFFICES ASSUME IInv, IInv', [Next]_vars PROVE [Promise!Next]_Promise!vars
    OBVIOUS
  <1> USE BackoffValues
  <1>t. TypeOK /\ TypeOK' /\ DeadlineKept'
    BY DEF IInv, TimeInv
  <1>e. elapsed' <= Promise!Excess(tolerance')
    BY <1>t DEF DeadlineKept, Promise!Excess, Positive
  <1>1. CASE ReadContextWindow
    BY <1>1 DEF ReadContextWindow, Probes, clock, Promise!vars
  <1>2. CASE Call
    <2>1. Promise!Begin
      BY <1>2, <1>t DEF Call, Promise!Begin, TypeOK
    <2>. QED  BY <2>1 DEF Promise!Next
  <1>3. ASSUME NEW l \in 0..Latency, Respond(l) PROVE Promise!Next
    <2>a. ASSUME NEW how, NEW rows, phase = "request", Leave(elapsed + l, how, rows)
          PROVE  Promise!End(how) /\ UNCHANGED Len(llm_calls)
      <3>1. elapsed' = elapsed + l /\ elapsed' >= elapsed /\ tolerance' = tolerance
        BY <2>a, <1>t DEF Leave, TypeOK
      <3>. QED  BY <2>a, <3>1, <1>e DEF Leave, Promise!End
    <2>1. CASE RetryFast(l)
      <3>1. elapsed' > elapsed /\ tolerance' = tolerance
        BY <2>1, <1>t DEF RetryFast, Backoff, TypeOK
      <3>2. Promise!Stall
        BY <2>1, <3>1, <1>e DEF RetryFast, Promise!Stall
      <3>. QED  BY <3>2 DEF Promise!Next
    <2>2. ASSUME NEW class \in {Transport, HttpStatus}, GiveUp(l, class) PROVE Promise!Next
      <3>1. Promise!End(class) /\ UNCHANGED Len(llm_calls)
        BY <2>2, <2>a DEF GiveUp
      <3>2. elapsed' >= tolerance
        BY <2>2 DEF GiveUp, Leave
      <3>3. Promise!GiveUp
        BY <3>1, <3>2 DEF Promise!GiveUp, Promise!Retryable, Transport, HttpStatus
      <3>. QED  BY <3>3 DEF Promise!Next
    <2>3. ASSUME NEW class \in {Transport, HttpStatus}, WaitPatiently(l, class) PROVE Promise!Next
      <3>1. elapsed' > elapsed /\ tolerance' = tolerance
        BY <2>3, <1>t DEF WaitPatiently, Clipped, Min, TypeOK
      <3>2. Promise!Stall
        BY <2>3, <3>1, <1>e DEF WaitPatiently, Promise!Stall
      <3>. QED  BY <3>2 DEF Promise!Next
    <2>4. CASE Refuse(l)
      <3>1. Promise!Refuse
        BY <2>4, <2>a DEF Refuse, Promise!Refuse
      <3>. QED  BY <3>1 DEF Promise!Next
    <2>5. ASSUME NEW how \in {"unclassified", "interrupted"}, Escape(l, how) PROVE Promise!Next
      <3>1. Promise!Abandon
        BY <2>5, <2>a DEF Escape, Promise!Abandon
      <3>. QED  BY <3>1 DEF Promise!Next
    <2>6. CASE Answered(l)
      <3>1. elapsed' = elapsed + l /\ elapsed' >= elapsed /\ tolerance' = tolerance
        BY <2>6, <1>t DEF Answered, TypeOK
      <3>2. Len(llm_calls)' = Len(llm_calls) + 1
        BY <2>6, <1>t DEF Answered, CallNumber, TypeOK
      <3>3. Promise!Answer
        BY <2>6, <3>1, <3>2, <1>e DEF Answered, Promise!Answer, Promise!End
      <3>. QED  BY <3>3 DEF Promise!Next
    <2>. QED  BY <1>3, <2>1, <2>2, <2>3, <2>4, <2>5, <2>6 DEF Respond
  <1>4. CASE UNCHANGED vars
    BY <1>4 DEF vars, clock, Promise!vars
  <1>. QED  BY <1>1, <1>2, <1>3, <1>4 DEF Next

(* chat_completion implements the promise for every value of its constants. *)
THEOREM PromiseKept == Spec => KeepsPromise
  BY InitPromise, StepPromise, Inductive, PTL DEF Spec, KeepsPromise, Promise!Spec
=============================================================================
