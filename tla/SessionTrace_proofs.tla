-------------------------- MODULE SessionTrace_proofs --------------------------
(***************************************************************************)
(* For every step budget and any number of tools and queries.              *)
(*                                                                         *)
(* The run (SessionRun): sessions nest, a subagent's report is taken once  *)
(* and paid for once, and its usage is handed on as it is saved, so the    *)
(* sum-check passes.  Most actions move the running session alone (LEMMA   *)
(* LocalStep).                                                             *)
(*                                                                         *)
(* The viewer (SessionTrace): what it draws of any log a run can leave is  *)
(* a tree that counts the run's steps, hangs every call under its maker    *)
(* and sums to what the run saved.  First what the fold over the rows is,  *)
(* then what one row does to each part of what is known of a graph, then   *)
(* what it does to all of it (LEMMAs Seen...), then one lemma per action   *)
(* (LEMMAs ...Trace).                                                      *)
(***************************************************************************)
EXTENDS SessionTrace, TLAPS, SequenceTheorems, FiniteSetTheorems, NaturalsInduction,
        WellFoundedInduction

USE TraceAssumption

(* Calls are counted one by one.                                           *)
LEMMA CountsNone ==
  ASSUME NEW kind
  PROVE  CountOf(<<>>, kind) = 0
  <1>1. {i \in DOMAIN <<>> : <<>>[i] = kind} = {}
    OBVIOUS
  <1>. QED  BY <1>1, FS_EmptySet DEF CountOf

LEMMA CountsAppend ==
  ASSUME NEW c \in Ledgers, NEW kind \in CallKind, NEW k
  PROVE  /\ CountOf(c, k) \in Nat
         /\ CountOf(Append(c, kind), k) = CountOf(c, k) + IF k = kind THEN 1 ELSE 0
  <1> DEFINE d == Append(c, kind)
             old == {i \in DOMAIN c : c[i] = k}
             new == {i \in DOMAIN d : d[i] = k}
             n == Len(c)
  <1>1. /\ d \in Ledgers /\ Len(d) = n + 1 /\ n \in Nat /\ d[n + 1] = kind
        /\ \A i \in 1 .. n : d[i] = c[i]
        /\ DOMAIN c = 1 .. n /\ DOMAIN d = 1 .. (n + 1)
    BY AppendProperties, LenProperties DEF Ledgers
  <1> HIDE DEF d, n
  <1>2. IsFiniteSet(old)
    <2>1. IsFiniteSet(1 .. n)
      BY <1>1, FS_Interval
    <2>2. old \subseteq 1 .. n
      BY <1>1
    <2>. QED  BY <2>1, <2>2, FS_Subset
  <1>3. Cardinality(old) \in Nat
    BY <1>2, FS_CardinalityType
  <1>. CountOf(c, k) = Cardinality(old) /\ CountOf(Append(c, kind), k) = Cardinality(new)
    BY DEF CountOf, d
  <1>4. CASE kind # k
    <2>1. new = old
      BY <1>1, <1>4
    <2> HIDE DEF old, new
    <2>. QED  BY <1>3, <1>4, <2>1
  <1>5. CASE kind = k
    <2>1. new = old \cup {n + 1} /\ n + 1 \notin old
      BY <1>1, <1>5
    <2>2. Cardinality(old \cup {n + 1}) = Cardinality(old) + 1
      <3> HIDE DEF old
      <3>. QED  BY <1>2, <2>1, FS_AddElement
    <2> HIDE DEF old, new
    <2>. QED  BY <1>3, <1>5, <2>1, <2>2
  <1>. QED  BY <1>4, <1>5

LEMMA CountAppend ==
  ASSUME NEW c \in Ledgers, NEW kind \in CallKind
  PROVE  /\ Append(c, kind) \in Ledgers /\ Len(Append(c, kind)) = Len(c) + 1
         /\ CountOf(c, "report") \in Nat
         /\ kind # "report" => CountOf(Append(c, kind), "report") = CountOf(c, "report")
         /\ kind = "report" => CountOf(Append(c, kind), "report") = CountOf(c, "report") + 1
  <1>1. Append(c, kind) \in Ledgers /\ Len(Append(c, kind)) = Len(c) + 1
    BY AppendProperties DEF Ledgers
  <1> DEFINE d == Append(c, kind)
             n == CountOf(c, "report")
             m == CountOf(d, "report")
  <1>2. n \in Nat /\ m = n + IF kind = "report" THEN 1 ELSE 0
    BY CountsAppend
  <1> HIDE DEF d, n, m
  <1>3. (kind # "report" => m = n) /\ (kind = "report" => m = n + 1)
    BY <1>2
  <1>. QED  BY <1>1, <1>2, <1>3 DEF d, n, m

(* Rows that are no reports add none.                                      *)
LEMMA RowsGrow ==
  ASSUME NEW r \in Seq(RowType), NEW new \in Seq(RowType)
  PROVE  /\ r \o new \in Seq(RowType)
         /\ r # <<>> => r \o new # <<>>
         /\ (\A i \in DOMAIN new : new[i].type # "report") =>
              {i \in DOMAIN (r \o new) : (r \o new)[i].type = "report"}
                 = {i \in DOMAIN r : r[i].type = "report"}
  <1> DEFINE q == r \o new
             m == Len(r)
             k == Len(new)
  <1>1. /\ q \in Seq(RowType) /\ m \in Nat /\ k \in Nat /\ Len(q) = m + k
        /\ DOMAIN q = 1 .. (m + k) /\ DOMAIN r = 1 .. m /\ DOMAIN new = 1 .. k
        /\ \A i \in 1 .. (m + k) : q[i] = IF i <= m THEN r[i] ELSE new[i - m]
    BY ConcatProperties, LenProperties
  <1>2. r # <<>> => q # <<>>
    <2>1. r # <<>> => m # 0
      BY EmptySeq
    <2>2. q # <<>> \/ Len(q) = 0
      BY EmptySeq
    <2> HIDE DEF q, m, k
    <2>. QED  BY <1>1, <2>1, <2>2
  <1> HIDE DEF q, m, k
  <1>3. ASSUME \A i \in DOMAIN new : new[i].type # "report", NEW i \in 1 .. (m + k), i > m
        PROVE  q[i].type # "report"
    <2>1. i - m \in 1 .. k /\ q[i] = new[i - m]
      BY <1>1, <1>3
    <2>. QED  BY <1>1, <1>3, <2>1
  <1>4. ASSUME \A i \in DOMAIN new : new[i].type # "report"
        PROVE  {i \in DOMAIN q : q[i].type = "report"} = {i \in DOMAIN r : r[i].type = "report"}
    <2>1. \A i \in 1 .. m : i \in 1 .. (m + k) /\ q[i] = r[i]
      BY <1>1
    <2>2. \A i \in 1 .. (m + k) : q[i].type = "report" => i \in 1 .. m
      BY <1>1, <1>3, <1>4
    <2>. QED  BY <1>1, <2>1, <2>2
  <1>. QED  BY <1>1, <1>2, <1>4 DEF q

-----------------------------------------------------------------------------
(* The running session is the last of a stack of sessions.                 *)
LEMMA RunningIs ==
  ASSUME IInv, stack # <<>>
  PROVE  /\ Len(stack) \in Nat /\ Len(stack) >= 1 /\ Running \in Session
         /\ \A i \in 1 .. Len(stack) : stack[i] \in Session
         /\ Running # "top" => Len(stack) >= 2
         /\ \A t \in Session : t # Running => at[t] \in Resting
  <1>1. stack \in Seq(Session)
    BY DEF IInv, TypeOK
  <1>2. Len(stack) \in Nat /\ Len(stack) # 0 /\ DOMAIN stack = 1 .. Len(stack)
    BY <1>1, EmptySeq, LenProperties
  <1>3. \A i \in 1 .. Len(stack) : stack[i] \in Session
    BY <1>1
  <1>4. stack[1] = "top"
    BY DEF IInv, Nested
  <1>5. \A t \in Session : at[t] \in Resting \cup Active /\ (at[t] \in Active => t = Running)
    BY DEF IInv, TypeOK, Nested
  <1>. QED  BY <1>2, <1>3, <1>4, <1>5 DEF Running

(* A row before others, none of them a report.                             *)
LEMMA RowFirst ==
  ASSUME NEW row \in RowType, NEW rest \in Seq(RowType), row.type # "report",
         \A i \in DOMAIN rest : rest[i].type # "report"
  PROVE  /\ <<row>> \o rest \in Seq(RowType)
         /\ \A i \in DOMAIN (<<row>> \o rest) : (<<row>> \o rest)[i].type # "report"
  <1> DEFINE one == <<row>>
             k == Len(rest)
             both == one \o rest
  <1>1. one \in Seq(RowType) /\ Len(one) = 1
    OBVIOUS
  <1>2. one[1] = row
    OBVIOUS
  <1>3. k \in Nat /\ DOMAIN rest = 1 .. k
    BY LenProperties
  <1> HIDE DEF one, k
  <1>4. /\ both \in Seq(RowType) /\ Len(both) = 1 + k
        /\ \A i \in 1 .. Len(one) + Len(rest) :
              both[i] = IF i <= Len(one) THEN one[i] ELSE rest[i - Len(one)]
    <2>1. one \in Seq(RowType) /\ rest \in Seq(RowType)
      BY <1>1
    <2>2. both \in Seq(RowType) /\ Len(both) = Len(one) + Len(rest)
      BY <2>1, ConcatProperties
    <2>3. \A i \in 1 .. Len(one) + Len(rest) :
              both[i] = IF i <= Len(one) THEN one[i] ELSE rest[i - Len(one)]
      BY <2>1, ConcatProperties
    <2> HIDE DEF both
    <2>. QED  BY <1>1, <2>2, <2>3 DEF k
  <1>5. DOMAIN both = 1 .. (1 + k)
    BY <1>3, <1>4, LenProperties
  <1> HIDE DEF both
  <1>6. ASSUME NEW i \in 1 .. (1 + k) PROVE both[i].type # "report"
    <2>1. both[i] = IF i <= 1 THEN one[i] ELSE rest[i - 1]
      BY <1>1, <1>4 DEF k
    <2>2. CASE i = 1
      BY <1>2, <2>1, <2>2
    <2>3. CASE i # 1
      <3>1. i - 1 \in DOMAIN rest /\ both[i] = rest[i - 1]
        BY <1>3, <2>1, <2>3
      <3>. QED  BY <3>1
    <2>. QED  BY <2>2, <2>3
  <1>. QED  BY <1>4, <1>5, <1>6 DEF both, one

(* A ledger entry, its row and the rows after it (Recorder.record_llm_call).*)
Grows(s, kind) ==
    /\ ledger' = [ledger EXCEPT ![s] = Append(ledger[s], kind)]
    /\ nested' \in [Session -> SUBSET Nat]
    /\ \A t \in Session : nested'[t] \subseteq 1 .. Len(ledger'[t])
    /\ \E new \in Seq(RowType) : /\ rows' = [rows EXCEPT ![s] = @ \o new]
                                 /\ \A i \in DOMAIN new : new[i].type # "report"

LEMMA AnsweredDoes ==
  ASSUME TypeOK, NEW s \in Session, NEW kind \in CallKind, NEW rest \in Seq(RowType),
         NEW by \in {"none", "node", "agent", "tool", "summarizer", "context_guard", "finalize_step"},
         \A i \in DOMAIN rest : rest[i].type # "report",
         Answered(s, kind, by, rest)
  PROVE  Grows(s, kind)
  <1> DEFINE n == Len(ledger[s]) + 1
             row == Row("llm_call", kind, by, {n})
             new == <<row>> \o rest
  <1>1. ledger[s] \in Ledgers /\ Len(ledger[s]) \in Nat /\ n \in Nat
    <2>1. ledger[s] \in Ledgers
      BY DEF TypeOK
    <2>2. Len(ledger[s]) \in Nat
      BY <2>1, LenProperties DEF Ledgers
    <2> DEFINE m == Len(ledger[s])
    <2>3. m \in Nat
      BY <2>2
    <2> HIDE DEF m
    <2>4. m + 1 \in Nat
      BY <2>3
    <2>. QED  BY <2>1, <2>2, <2>4 DEF m
  <1>2. ledger' = [ledger EXCEPT ![s] = Append(ledger[s], kind)]
    BY DEF Answered
  <1>3. Len(Append(ledger[s], kind)) = n
    BY <1>1, CountAppend
  <1>4. nested' \in [Session -> SUBSET Nat]
    BY <1>1 DEF Answered, TypeOK
  <1>5. \A t \in Session : nested'[t] \subseteq 1 .. Len(ledger'[t])
    <2>1. ASSUME NEW t \in Session PROVE nested'[t] \subseteq 1 .. Len(ledger'[t])
      <3>1. CASE t # s
        <4>1. nested'[t] = nested[t] /\ ledger'[t] = ledger[t]
          BY <1>2, <3>1 DEF Answered, TypeOK
        <4>. QED  BY <4>1 DEF TypeOK
      <3>2. CASE t = s
        <4>1. ledger'[s] = Append(ledger[s], kind)
          BY <1>2 DEF TypeOK
        <4>2. nested[s] \subseteq 1 .. Len(ledger[s])
          BY DEF TypeOK
        <4>3. nested'[s] \subseteq nested[s] \cup {n}
          BY DEF Answered, TypeOK
        <4>4. \A i \in nested[s] \cup {n} : i \in 1 .. n
          <5> DEFINE m == Len(ledger[s])
          <5>1. m \in Nat /\ n = m + 1 /\ nested[s] \subseteq 1 .. m
            BY <1>1, <4>2
          <5> HIDE DEF m, n
          <5>. QED  BY <5>1
        <4>. QED  BY <1>3, <3>2, <4>1, <4>3, <4>4
      <3>. QED  BY <3>1, <3>2
    <2>. QED  BY <2>1
  <1>6. row \in RowType /\ row.type = "llm_call"
    BY <1>1 DEF Row, RowType
  <1>7. rows' = [rows EXCEPT ![s] = @ \o new]
    BY DEF Answered, Emit
  <1> HIDE DEF row
  <1>8. new \in Seq(RowType) /\ \A i \in DOMAIN new : new[i].type # "report"
    <2> HIDE DEF new
    <2>1. <<row>> \o rest \in Seq(RowType) /\ \A i \in DOMAIN (<<row>> \o rest) : (<<row>> \o rest)[i].type # "report"
      BY <1>6, RowFirst
    <2>. QED  BY <2>1 DEF new
  <1> HIDE DEF new
  <1>. QED  BY <1>2, <1>4, <1>5, <1>7, <1>8 DEF Grows

(* The places of a session but for those of a delegate call being handed   *)
(* back, and those where its run is not over.                              *)
Own == Active \ Handback
Early == Active \ {"leaving", "raising"}

(* What the hand-back of a report rests on is left as it is.               *)
SubSame ==
    /\ ledger'["sub"] = ledger["sub"] /\ saved'["sub"] = saved["sub"]
    /\ handback'["sub"] = handback["sub"] /\ rows'["sub"] = rows["sub"]

Past == {"leaving", "raising", "done", "died"}

LEMMA SubSameKept ==
  ASSUME IInv, SubSame, kids' = kids, \A t \in Session : Reports(t)' = Reports(t),
         \A t \in Session : saved'[t].kids = saved[t].kids \/ saved'[t].kids = kids[t],
         \A t \in Session : at'[t] \notin Handback,
         at'["sub"] = "done" <=> at["sub"] = "done",
         saved["sub"].there => at'["sub"] \in {"waiting"} \cup Past,
         handback["sub"] # "none" => at'["sub"] \in Past /\ stop'["sub"] # "stop"
  PROVE  Reported' /\ PaidOnce'
  <1>1. (Unsaved' <=> Unsaved) /\ (CheckPasses("sub")' <=> CheckPasses("sub"))
    BY DEF SubSame, Unsaved, CheckPasses, Source, Reports
  <1>2. \A t \in Session : at'[t] \notin {"report", "fallback", "resave", "handing"}
    BY DEF Handback
  <1>3. \A t \in Session :
           /\ kids[t] # <<>> \/ saved[t].kids # <<>> =>
                  t # "sub" /\ Reports("sub") # {} /\ at["sub"] = "done" /\ ~Unsaved
           /\ \A n \in DOMAIN kids[t] : kids[t][n] = saved["sub"].calls
           /\ \A n \in DOMAIN saved[t].kids : saved[t].kids[n] = saved["sub"].calls
    BY DEF IInv, Reported
  <1>4. "sub" \in Session /\ "top" \in Session /\ "cont" \in Session
    BY DEF Session
  <1>5. ASSUME NEW t \in Session
        PROVE  /\ kids'[t] # <<>> \/ saved'[t].kids # <<>> =>
                      t # "sub" /\ Reports("sub")' # {} /\ at'["sub"] = "done" /\ ~Unsaved'
               /\ \A n \in DOMAIN kids'[t] : kids'[t][n] = saved'["sub"].calls
               /\ \A n \in DOMAIN saved'[t].kids : saved'[t].kids[n] = saved'["sub"].calls
    <2>1. kids'[t] = kids[t] /\ saved'["sub"] = saved["sub"]
      BY DEF SubSame
    <2>2. CASE saved'[t].kids = saved[t].kids
      BY <1>1, <1>3, <1>4, <2>1, <2>2
    <2>3. CASE saved'[t].kids = kids[t]
      BY <1>1, <1>3, <1>4, <2>1, <2>3
    <2>. QED  BY <2>2, <2>3
  <1>6. /\ Reports("top")' = {} /\ Reports("cont")' = {} /\ kids'["sub"] = <<>> /\ saved'["sub"].kids = <<>>
        /\ Reports("sub")' # {} => at'["sub"] = "done"
        /\ saved'["sub"].there => at'["sub"] \in {"waiting", "leaving", "raising", "done", "died"}
        /\ Unsaved' => at'["sub"] = "done" /\ ledger'["sub"] = Append(saved'["sub"].calls, "report")
        /\ at'["sub"] = "done" => saved'["sub"].there
    BY <1>1, <1>4 DEF IInv, Reported, SubSame, Past
  <1>7. Reported'
    BY <1>2, <1>5, <1>6 DEF Reported, Handback
  <1>8. PaidOnce'
    BY <1>1, <1>2, <1>4 DEF IInv, PaidOnce, SubSame, Past
  <1>. QED  BY <1>7, <1>8

(* No report has been taken, and none is paid for by a caller.             *)
LEMMA BlankKept ==
  ASSUME \A t \in Session : Reports(t)' = {} /\ kids'[t] = <<>> /\ saved'[t].kids = <<>>, ~Unsaved',
         \A t \in Session : at'[t] \in Handback => at'[t] = "report" /\ t # "sub" /\ at'["sub"] = "done",
         at'["sub"] = "done" => saved'["sub"].there,
         saved'["sub"].there => at'["sub"] \in {"waiting"} \cup Past,
         handback'["sub"] # "none" => at'["sub"] \in Past /\ stop'["sub"] # "stop",
         handback'["sub"] = "none" => CountOf(ledger'["sub"], "report") = 0,
         handback'["sub"] = "text" => CountOf(ledger'["sub"], "report") = 1
  PROVE  Reported' /\ PaidOnce'
  <1>1. "sub" \in Session /\ "top" \in Session /\ "cont" \in Session
    BY DEF Session
  <1>2. \A t \in Session : at'[t] \notin {"fallback", "resave", "handing"}
    BY DEF Handback
  <1>3. \A t \in Session : DOMAIN kids'[t] = {} /\ DOMAIN saved'[t].kids = {}
    OBVIOUS
  <1>4. CheckPasses("sub")'
    BY <1>1 DEF CheckPasses
  <1>5. Reported'
    BY <1>1, <1>2, <1>3 DEF Reported, Handback, Past
  <1>6. PaidOnce'
    BY <1>1, <1>2, <1>4 DEF PaidOnce, Past
  <1>. QED  BY <1>5, <1>6

(* A subagent whose run is not over has handed nothing back.               *)
LEMMA SubEarly ==
  ASSUME IInv, at["sub"] \in {"unborn"} \cup Early
  PROVE  /\ \A t \in Session : Reports(t) = {} /\ kids[t] = <<>> /\ saved[t].kids = <<>>
         /\ ~saved["sub"].there /\ handback["sub"] = "none" /\ CountOf(ledger["sub"], "report") = 0
  <1>1. at["sub"] \notin {"waiting", "leaving", "raising", "done", "died"}
    BY DEF Early, Active, Handback
  <1>2. Reports("sub") = {} /\ ~saved["sub"].there /\ handback["sub"] = "none" /\ ~Unsaved
    BY <1>1 DEF IInv, Reported, PaidOnce
  <1>3. CountOf(ledger["sub"], "report") = 0
    BY <1>2 DEF IInv, PaidOnce
  <1>. QED  BY <1>2, <1>3 DEF IInv, Reported, Session

(* The running session moves alone: it appends rows that are no reports,   *)
(* and calls to its ledger; a call for a report is one that is handed back.*)
Moves(s, p, new, more) ==
    /\ stack # <<>> /\ s = Running /\ at[s] \in Early
    /\ at' = [at EXCEPT ![s] = p]
    /\ rows' = [rows EXCEPT ![s] = @ \o new] /\ ledger' = [ledger EXCEPT ![s] = more]
    /\ \A i \in DOMAIN new : new[i].type # "report"
    /\ UNCHANGED <<stack, kids, saved>>
    /\ p \in {"handoff", "spawn"} => rows["cont"] = <<>>
    /\ p = "guard" => step'[s] < MaxSteps
    /\ \A t \in Session : t # s => step'[t] = step[t]

MovesTyped ==
    /\ step' \in [Session -> 0 .. MaxSteps] /\ pending' \in [Session -> Tools \cup {"none"}]
    /\ nested' \in [Session -> SUBSET Nat]
    /\ \A t \in Session : nested'[t] \subseteq 1 .. Len(ledger'[t])
    /\ stop' \in [Session -> Reasons] /\ handback' \in [Session -> {"none", "empty", "text"}]

Pays(s, p, more) ==
    /\ \A t \in Session : t # s => stop'[t] = stop[t] /\ handback'[t] = handback[t]
    /\ \/ handback' = handback /\ CountOf(more, "report") = CountOf(ledger[s], "report")
       \/ s # "sub" /\ handback' = handback
       \/ /\ p = "leaving" /\ stop'[s] \in {"context_limit", "max_steps"}
          /\ handback'[s] # "none"
          /\ CountOf(ledger[s], "report") = 0 => CountOf(more, "report") = 1

LEMMA SamePlace ==
  ASSUME IInv, stack # <<>>, UNCHANGED stack, NEW s \in Session, s = Running,
         NEW p \in Active, at' = [at EXCEPT ![s] = p]
  PROVE  Nested'
  <1>1. \A t \in Session : t # s => at'[t] = at[t] /\ at[t] \in Resting
    BY RunningIs DEF IInv, TypeOK
  <1>2. Running' = Running /\ at[s] \in Active /\ at[s] \notin Resting
    BY DEF Running, IInv, Nested, Active, Handback, Own, Early, Resting
  <1>3. \A i, j \in DOMAIN stack : i < j => stack[i] # stack[j] /\ stack[i] # s
    BY <1>2 DEF IInv, Nested, Resting
  <1>4. \A i, j \in DOMAIN stack : i < j => at'[stack[i]] = "waiting"
    <2>1. \A i \in DOMAIN stack : stack[i] \in Session
      BY DEF IInv, TypeOK
    <2>. QED  BY <1>1, <1>3, <2>1 DEF IInv, Nested
  <1>5. \A t \in Session : at'[t] \in Active => t = s
    BY <1>1 DEF Active, Handback, Own, Early, Resting
  <1>6. at'[s] \in Active
    BY DEF IInv, TypeOK
  <1>. QED  BY <1>2, <1>3, <1>4, <1>5, <1>6 DEF IInv, Nested

LEMMA LocalStep ==
  ASSUME IInv, NEW s \in Session, NEW p \in Own, NEW new \in Seq(RowType),
         NEW more \in Ledgers, Moves(s, p, new, more), MovesTyped, Pays(s, p, more)
  PROVE  IInv'
  <1>1. TypeOK'
    <2>1. rows[s] \o new \in Seq(RowType)
      BY RowsGrow DEF IInv, TypeOK
    <2>. QED  BY <2>1 DEF IInv, TypeOK, Moves, MovesTyped, Own
  <1>2. \A t \in Session : t # s => /\ at'[t] = at[t] /\ rows'[t] = rows[t]
                                     /\ ledger'[t] = ledger[t] /\ at[t] \in Resting
    BY RunningIs DEF IInv, TypeOK, Moves
  <1>3. at'[s] = p /\ rows'[s] = rows[s] \o new /\ ledger'[s] = more
    BY DEF IInv, TypeOK, Moves
  <1>4. p \notin Resting /\ at[s] \notin Resting /\ p \in Active
    BY DEF Moves, Active, Handback, Own, Early, Resting
  <1>5. Nested'
    BY <1>4, SamePlace DEF Moves
  <1>6. Begun'
    <2>1. rows[s] # <<>> /\ rows'[s] # <<>>
      <3>1. rows[s] # <<>>
        BY <1>4 DEF IInv, Begun, Resting
      <3>. QED  BY <1>3, <3>1, RowsGrow DEF IInv, TypeOK
    <2>2. p \in {"handoff", "spawn"} => rows'["cont"] = <<>>
      BY <1>2, <2>1 DEF Moves, Session
    <2>3. \A t \in Session : t # s => at'[t] \notin {"guard", "handoff", "spawn"}
      BY <1>2 DEF Resting
    <2>4. \A t \in Session : rows'[t] = <<>> <=> at'[t] = "unborn"
      BY <1>2, <1>3, <1>4, <2>1 DEF IInv, Begun, Resting
    <2>5. at'["sub"] = "unborn" => ledger'["sub"] = <<>>
      BY <1>2, <1>3, <1>4 DEF IInv, Begun, Resting, Session
    <2>6. \A t \in Session : rows'[t] = <<>> => step'[t] = 0
      BY <1>2, <2>1 DEF IInv, Begun, Moves
    <2>. QED  BY <1>3, <2>2, <2>3, <2>4, <2>5, <2>6 DEF Begun, Moves
  <1>7. \A t \in Session : Reports(t)' = Reports(t)
    <2>1. Reports(s)' = Reports(s)
      <3>1. rows[s] \in Seq(RowType)
        BY DEF IInv, TypeOK
      <3>2. \A i \in DOMAIN new : new[i].type # "report"
        BY DEF Moves
      <3>3. {i \in DOMAIN (rows[s] \o new) : (rows[s] \o new)[i].type = "report"} = Reports(s)
        BY <3>1, <3>2, RowsGrow DEF Reports
      <3>. QED  BY <1>3, <3>3 DEF Reports
    <2>. QED  BY <1>2, <2>1 DEF Reports
  <1>8. "sub" \in Session /\ \A t \in Session : at'[t] \notin Handback
    BY <1>2, <1>3 DEF Own, Resting, Handback, Session
  <1>9. CASE s # "sub"
    <2>1. /\ SubSame /\ kids' = kids /\ at'["sub"] = at["sub"] /\ stop'["sub"] = stop["sub"]
          /\ \A t \in Session : saved'[t].kids = saved[t].kids
      BY <1>2, <1>8, <1>9 DEF Pays, Moves, SubSame
    <2>2. /\ saved["sub"].there => at["sub"] \in {"waiting"} \cup Past
          /\ handback["sub"] # "none" => at["sub"] \in Past /\ stop["sub"] # "stop"
      BY DEF IInv, Reported, PaidOnce, Past
    <2>3. Reported' /\ PaidOnce'
      BY <1>7, <1>8, <2>1, <2>2, SubSameKept
    <2>. QED  BY <1>1, <1>5, <1>6, <2>3 DEF IInv
  <1>10. CASE s = "sub"
    <2>1. /\ \A t \in Session : Reports(t) = {} /\ kids[t] = <<>> /\ saved[t].kids = <<>>
          /\ ~saved["sub"].there /\ handback["sub"] = "none" /\ CountOf(ledger["sub"], "report") = 0
      BY <1>10, SubEarly DEF Moves
    <2>2. kids' = kids /\ saved' = saved /\ ~Unsaved' /\ at'["sub"] # "done"
      BY <1>3, <1>4, <1>10, <2>1 DEF Moves, Unsaved, Resting
    <2>3. /\ handback'["sub"] # "none" => at'["sub"] \in Past /\ stop'["sub"] # "stop"
          /\ handback'["sub"] = "none" => CountOf(ledger'["sub"], "report") = 0
          /\ handback'["sub"] = "text" => CountOf(ledger'["sub"], "report") = 1
      <3>1. CASE handback' = handback /\ CountOf(more, "report") = CountOf(ledger[s], "report")
        BY <1>3, <1>10, <2>1, <3>1
      <3>2. CASE /\ p = "leaving" /\ stop'[s] \in {"context_limit", "max_steps"}
                 /\ handback'[s] # "none"
                 /\ CountOf(ledger[s], "report") = 0 => CountOf(more, "report") = 1
        BY <1>3, <1>10, <2>1, <3>2 DEF Past
      <3>. QED  BY <1>10, <3>1, <3>2 DEF Pays
    <2>4. Reported' /\ PaidOnce'
      BY <1>7, <1>8, <2>1, <2>2, <2>3, BlankKept
    <2>. QED  BY <1>1, <1>5, <1>6, <2>4 DEF IInv
  <1>. QED  BY <1>9, <1>10

-----------------------------------------------------------------------------
(* The actions that move the running session alone.                        *)
NoRows == <<>>

LEMMA NoRowsAre ==
  /\ NoRows \in Seq(RowType) /\ \A i \in DOMAIN NoRows : NoRows[i].type # "report"
  /\ \A r \in Seq(RowType) : r \o NoRows = r
  BY EmptySeq, ConcatEmptySeq DEF NoRows

LEMMA QuietRows ==
  ASSUME TypeOK, NEW s \in Session
  PROVE  rows = [rows EXCEPT ![s] = @ \o NoRows]
  <1>1. rows \in [Session -> Seq(RowType)] /\ rows[s] \in Seq(RowType)
    BY DEF TypeOK
  <1>2. rows[s] \o NoRows = rows[s]
    BY <1>1, NoRowsAre
  <1>. QED  BY <1>1, <1>2

LEMMA OneRow ==
  ASSUME NEW row \in RowType, row.type # "report"
  PROVE  <<row>> \in Seq(RowType) /\ \A i \in DOMAIN <<row>> : <<row>>[i].type # "report"
  <1> DEFINE one == <<row>>
  <1>1. one \in Seq(RowType) /\ DOMAIN one = {1} /\ one[1] = row
    OBVIOUS
  <1>. QED  BY <1>1 DEF one

LEMMA SummarizeDoes ==
  ASSUME TypeOK, NEW s \in Session, NEW kind \in {"report", "handoff"},
         NEW trigger \in {"context_guard", "finalize_step"}, Summarize(s, kind, trigger)
  PROVE  Grows(s, kind)
  <1> DEFINE row == Row("summarizer", kind, trigger, {})
             rest == <<row>>
  <1>1. row \in RowType /\ row.type # "report"
    BY DEF Row, RowType, CallKind
  <1> HIDE DEF row
  <1>2. rest \in Seq(RowType) /\ \A i \in DOMAIN rest : rest[i].type # "report"
    BY <1>1, OneRow
  <1>3. Answered(s, kind, "summarizer", rest) /\ kind \in CallKind
    BY DEF Summarize, CallKind, row
  <1> HIDE DEF rest
  <1>. QED  BY <1>2, <1>3, AnsweredDoes

(* An action that changes neither ledger nor handback.                     *)
Quiet(s) ==
    /\ \E new \in Seq(RowType) : /\ rows' = [rows EXCEPT ![s] = @ \o new]
                                 /\ \A i \in DOMAIN new : new[i].type # "report"
    /\ UNCHANGED <<stack, ledger, kids, saved, handback>>
    /\ step' \in [Session -> 0 .. MaxSteps] /\ \A t \in Session : t # s => step'[t] = step[t]
    /\ pending' \in [Session -> Tools \cup {"none"}]
    /\ nested' = nested \/ nested' = [nested EXCEPT ![s] = {}]
    /\ stop' \in [Session -> Reasons] /\ \A t \in Session : t # s => stop'[t] = stop[t]

LEMMA QuietStep ==
  ASSUME IInv, NEW s \in Session, NEW p \in Own,
         stack # <<>>, s = Running, at[s] \in Early,
         at' = [at EXCEPT ![s] = p], p \notin {"handoff", "spawn"}, Quiet(s),
         p = "guard" => step'[s] < MaxSteps
  PROVE  IInv'
  <1>1. ledger[s] \in Ledgers /\ ledger = [ledger EXCEPT ![s] = ledger[s]]
    BY DEF IInv, TypeOK
  <1>2. PICK new \in Seq(RowType) : /\ rows' = [rows EXCEPT ![s] = @ \o new]
                                    /\ \A i \in DOMAIN new : new[i].type # "report"
    BY DEF Quiet
  <1>3. MovesTyped
    <2>1. nested' \in [Session -> SUBSET Nat]
      BY DEF Quiet, IInv, TypeOK
    <2>2. \A t \in Session : nested'[t] \subseteq 1 .. Len(ledger'[t])
      <3>1. \A t \in Session : nested[t] \in SUBSET Nat /\ nested[t] \subseteq 1 .. Len(ledger[t])
        BY DEF IInv, TypeOK
      <3>2. nested \in [Session -> SUBSET Nat] /\ ledger' = ledger
        BY DEF Quiet, IInv, TypeOK
      <3>3. CASE nested' = nested
        BY <3>1, <3>2, <3>3
      <3>4. CASE nested' = [nested EXCEPT ![s] = {}]
        BY <3>1, <3>2, <3>4
      <3>. QED  BY <3>3, <3>4 DEF Quiet
    <2>3. handback' \in [Session -> {"none", "empty", "text"}]
      BY DEF Quiet, IInv, TypeOK
    <2>. QED  BY <2>1, <2>2, <2>3 DEF Quiet, MovesTyped
  <1>4. Moves(s, p, new, ledger[s])
    BY <1>1, <1>2 DEF Moves, Quiet
  <1>5. Pays(s, p, ledger[s])
    BY DEF Pays, Quiet
  <1>. QED  BY <1>1, <1>3, <1>4, <1>5, LocalStep

(* An action that answers one LLM call.                                    *)
LEMMA CallStep ==
  ASSUME IInv, NEW s \in Session, NEW p \in Own, NEW kind \in CallKind,
         stack # <<>>, s = Running, at[s] \in Early,
         at' = [at EXCEPT ![s] = p], p # "guard",
         p \in {"handoff", "spawn"} => rows["cont"] = <<>>,
         Grows(s, kind), UNCHANGED <<stack, pending, kids, saved>>,
         step' \in [Session -> 0 .. MaxSteps], \A t \in Session : t # s => step'[t] = step[t],
         \/ kind # "report" /\ UNCHANGED <<stop, handback>>
         \/ /\ kind = "report" /\ p = "leaving"
            /\ \E text \in {"empty", "text"} : handback' = [handback EXCEPT ![s] = text]
            /\ \E reason \in {"context_limit", "max_steps"} : stop' = [stop EXCEPT ![s] = reason]
  PROVE  IInv'
  <1> DEFINE more == Append(ledger[s], kind)
  <1>1. ledger[s] \in Ledgers
    BY DEF IInv, TypeOK
  <1>2. /\ more \in Ledgers /\ CountOf(ledger[s], "report") \in Nat
        /\ kind # "report" => CountOf(more, "report") = CountOf(ledger[s], "report")
        /\ kind = "report" => CountOf(more, "report") = CountOf(ledger[s], "report") + 1
    BY <1>1, CountAppend
  <1>3. PICK new \in Seq(RowType) : /\ rows' = [rows EXCEPT ![s] = @ \o new]
                                    /\ \A i \in DOMAIN new : new[i].type # "report"
    BY DEF Grows
  <1> HIDE DEF more
  <1>4. ledger' = [ledger EXCEPT ![s] = more]
    BY DEF more, Grows
  <1>5. /\ stop' \in [Session -> Reasons] /\ handback' \in [Session -> {"none", "empty", "text"}]
        /\ \A t \in Session : t # s => stop'[t] = stop[t] /\ handback'[t] = handback[t]
        /\ kind = "report" => stop'[s] \in {"context_limit", "max_steps"} /\ handback'[s] # "none"
    <2>1. stop \in [Session -> Reasons] /\ handback \in [Session -> {"none", "empty", "text"}]
      BY DEF IInv, TypeOK
    <2>2. CASE kind # "report" /\ UNCHANGED <<stop, handback>>
      BY <2>1, <2>2
    <2>3. CASE kind = "report"
      <3>1. PICK text \in {"empty", "text"} : handback' = [handback EXCEPT ![s] = text]
        BY <2>3
      <3>2. PICK reason \in {"context_limit", "max_steps"} : stop' = [stop EXCEPT ![s] = reason]
        BY <2>3
      <3>3. reason \in Reasons /\ text \in {"none", "empty", "text"} /\ text # "none"
        BY DEF Reasons
      <3>. QED  BY <2>1, <3>1, <3>2, <3>3
    <2>. QED  BY <2>2, <2>3
  <1>6. MovesTyped
    BY <1>5 DEF MovesTyped, IInv, TypeOK, Grows
  <1>7. Moves(s, p, new, more)
    BY <1>3, <1>4 DEF Moves
  <1>8. Pays(s, p, more)
    BY <1>2, <1>5 DEF Pays
  <1>. QED  BY <1>2, <1>6, <1>7, <1>8, LocalStep

(* A call for a report, with the text handed back (two of the four calls). *)
LEMMA ReportStep ==
  ASSUME IInv, NEW s \in Session, stack # <<>>, s = Running, at[s] \in {"guard", "cutoff"},
         NEW trigger \in {"context_guard", "finalize_step"}, Summarize(s, "report", trigger),
         NEW reason \in {"context_limit", "max_steps"}, Leave(s, reason),
         \E text \in {"empty", "text"} : handback' = [handback EXCEPT ![s] = text],
         UNCHANGED <<stack, step, pending, kids, saved>>
  PROVE  IInv'
  <1>1. TypeOK /\ step' \in [Session -> 0 .. MaxSteps] /\ "report" \in {"report", "handoff"}
    BY DEF IInv, TypeOK
  <1>2. Grows(s, "report")
    BY <1>1, SummarizeDoes
  <1>3. at' = [at EXCEPT ![s] = "leaving"] /\ stop' = [stop EXCEPT ![s] = reason]
    BY DEF Leave, Goto
  <1>4. /\ "leaving" \in Own /\ "report" \in CallKind /\ at[s] \in Early
        /\ "leaving" # "guard" /\ "leaving" \notin {"handoff", "spawn"}
    BY DEF Active, Handback, Own, Early, CallKind
  <1>. QED  BY <1>1, <1>2, <1>3, <1>4, CallStep

LEMMA GuardActions ==
  ASSUME IInv, NEW s \in Session, stack # <<>>, s = Running,
         GuardStops(s) \/ GuardResets(s) \/ HandoffAgain(s) \/ CallLLM(s) \/ AskArtifact(s)
  PROVE  IInv'
  <1>1. TypeOK /\ step \in [Session -> 0 .. MaxSteps]
    BY DEF IInv, TypeOK
  <1>2. CASE GuardStops(s) /\ Delegated(s)
    BY <1>2, ReportStep DEF GuardStops
  <1>3. CASE GuardStops(s) /\ ~Delegated(s)
    <2>1. /\ at[s] = "guard" /\ at' = [at EXCEPT ![s] = "leaving"]
          /\ stop' = [stop EXCEPT ![s] = "context_limit"]
          /\ UNCHANGED <<stack, step, ledger, rows, pending, nested, kids, saved, handback>>
      BY <1>3 DEF GuardStops, Leave, Goto
    <2>2. Quiet(s)
      <3>1. rows' = [rows EXCEPT ![s] = @ \o NoRows]
        BY <1>1, <2>1, QuietRows
      <3>. QED  BY <1>1, <2>1, <3>1, NoRowsAre DEF Quiet, TypeOK, Reasons
    <2>3. /\ "leaving" \in Own /\ at[s] \in Early
          /\ "leaving" \notin {"handoff", "spawn"} /\ "leaving" # "guard"
      BY <2>1 DEF Active, Handback, Own, Early
    <2>. QED  BY <2>1, <2>2, <2>3, QuietStep
  <1>4. CASE GuardResets(s)
    <2>1. /\ at[s] = "guard" /\ at' = [at EXCEPT ![s] = "handoff"] /\ rows["cont"] = <<>>
          /\ Summarize(s, "handoff", "context_guard")
          /\ UNCHANGED <<stack, step, pending, kids, saved, stop, handback>>
      BY <1>4 DEF GuardResets, Goto, Unused
    <2>2. Grows(s, "handoff")
      BY <1>1, <2>1, SummarizeDoes
    <2>3. /\ "handoff" \in Own /\ "handoff" \in CallKind /\ at[s] \in Early
          /\ "handoff" # "guard" /\ "handoff" # "report"
      BY <2>1 DEF Active, Handback, Own, Early, CallKind
    <2>. QED  BY <1>1, <2>1, <2>2, <2>3, CallStep
  <1>5. CASE HandoffAgain(s)
    <2>1. /\ at[s] = "handoff" /\ at' = [at EXCEPT ![s] = "spawn"]
          /\ Answered(s, "handoff", "agent", <<>>)
          /\ UNCHANGED <<stack, step, pending, kids, saved, stop, handback>>
      BY <1>5 DEF HandoffAgain, Goto
    <2>2. rows["cont"] = <<>>
      BY <2>1 DEF IInv, Begun
    <2>3. /\ "spawn" \in Own /\ "handoff" \in CallKind /\ at[s] \in Early
          /\ "spawn" # "guard" /\ "handoff" # "report"
      BY <2>1 DEF Active, Handback, Own, Early, CallKind
    <2>4. Grows(s, "handoff")
      <3>1. Answered(s, "handoff", "agent", NoRows)
        BY <2>1 DEF NoRows
      <3>. QED  BY <1>1, <2>3, <3>1, NoRowsAre, AnsweredDoes
    <2>. QED  BY <1>1, <2>1, <2>2, <2>3, <2>4, CallStep
  <1>6. CASE CallLLM(s)
    <2>1. /\ at[s] = "guard" /\ at' = [at EXCEPT ![s] = "tools"]
          /\ step' = [step EXCEPT ![s] = step[s] + 1] /\ Answered(s, "main", "node", <<>>)
          /\ UNCHANGED <<stack, pending, kids, saved, stop, handback>>
      BY <1>6 DEF CallLLM, Goto
    <2>2. step' \in [Session -> 0 .. MaxSteps]
      <3>1. step[s] \in 0 .. MaxSteps /\ step[s] < MaxSteps
        BY <1>1, <2>1 DEF IInv, Begun
      <3>2. step[s] + 1 \in 0 .. MaxSteps
        BY <3>1
      <3>. QED  BY <1>1, <2>1, <3>2
    <2>3. /\ "tools" \in Own /\ "main" \in CallKind /\ at[s] \in Early
          /\ "tools" # "guard" /\ "tools" \notin {"handoff", "spawn"} /\ "main" # "report"
      BY <2>1 DEF Active, Handback, Own, Early, CallKind
    <2>4. Grows(s, "main")
      <3>1. Answered(s, "main", "node", NoRows)
        BY <2>1 DEF NoRows
      <3>. QED  BY <1>1, <2>3, <3>1, NoRowsAre, AnsweredDoes
    <2>. QED  BY <2>1, <2>2, <2>3, <2>4, CallStep
  <1>7. CASE AskArtifact(s)
    <2>1. /\ at[s] = "tool" /\ Answered(s, "artifact_query", "tool", <<>>)
          /\ UNCHANGED <<stack, at, step, pending, kids, saved, stop, handback>>
      BY <1>7 DEF AskArtifact
    <2>2. at' = [at EXCEPT ![s] = "tool"] /\ step' \in [Session -> 0 .. MaxSteps]
      BY <1>1, <2>1 DEF TypeOK
    <2>3. /\ "tool" \in Own /\ "artifact_query" \in CallKind /\ at[s] \in Early
          /\ "tool" # "guard" /\ "tool" \notin {"handoff", "spawn"} /\ "artifact_query" # "report"
      BY <2>1 DEF Active, Handback, Own, Early, CallKind
    <2>4. Grows(s, "artifact_query")
      <3>1. Answered(s, "artifact_query", "tool", NoRows)
        BY <2>1 DEF NoRows
      <3>. QED  BY <1>1, <2>3, <3>1, NoRowsAre, AnsweredDoes
    <2>. QED  BY <1>1, <2>1, <2>2, <2>3, <2>4, CallStep
  <1>. QED  BY <1>2, <1>3, <1>4, <1>5, <1>6, <1>7

LEMMA ToolRowIs ==
  ASSUME TypeOK, NEW s \in Session
  PROVE  ToolRow(s) \in RowType /\ ToolRow(s).type # "report"
  <1>1. pending[s] \in Tools \cup {"none"} /\ nested[s] \in SUBSET Nat
    BY DEF TypeOK
  <1>. QED  BY <1>1 DEF ToolRow, Row, RowType

(* A continuation's steps are among the run's.                             *)
LEMMA BudgetIs ==
  ASSUME IInv, NEW s \in Session, stack # <<>>, s = Running, step[s] < Budget(s)
  PROVE  step[s] < MaxSteps
  <1>1. step[s] \in 0 .. MaxSteps /\ MaxSteps \in Nat \ {0}
    BY DEF IInv, TypeOK
  <1>2. CASE s # "cont"
    BY <1>2 DEF Budget
  <1>3. CASE s = "cont"
    <2> DEFINE left == MaxSteps - step[stack[Len(stack) - 1]]
    <2>1. Len(stack) - 1 \in 1 .. Len(stack)
      BY <1>3, RunningIs
    <2>2. step[stack[Len(stack) - 1]] \in 0 .. MaxSteps
      BY <2>1, RunningIs DEF IInv, TypeOK
    <2>3. left \in Int /\ left <= MaxSteps
      BY <1>1, <2>2
    <2>4. Budget(s) = IF left < 1 THEN 1 ELSE left
      BY <1>3 DEF Budget
    <2> HIDE DEF left
    <2>. QED  BY <1>1, <2>3, <2>4
  <1>. QED  BY <1>2, <1>3

(* A session whose run ends on a failure, Ctrl-C or another exception, and *)
(* a delegate call that fails after its subagent.                          *)
LEMMA CountedStep ==
  ASSUME IInv, NEW s \in Session, UNCHANGED step \/ MayCount(s)
  PROVE  /\ step' \in [Session -> 0 .. MaxSteps]
         /\ \A t \in Session : t # s => step'[t] = step[t]
  <1>1. step \in [Session -> 0 .. MaxSteps]
    BY DEF IInv, TypeOK
  <1>2. CASE UNCHANGED step
    BY <1>1, <1>2
  <1>3. CASE at[s] = "guard" /\ step' = [step EXCEPT ![s] = step[s] + 1]
    <2>1. step[s] \in 0 .. MaxSteps /\ step[s] < MaxSteps
      BY <1>1, <1>3 DEF IInv, Begun
    <2>2. step[s] + 1 \in 0 .. MaxSteps
      BY <2>1
    <2>. QED  BY <1>1, <1>3, <2>2
  <1>. QED  BY <1>2, <1>3 DEF MayCount

LEMMA LeavingStep ==
  ASSUME IInv, NEW s \in Session, stack # <<>>, s = Running, at[s] = "leaving",
         NEW p \in {"leaving", "raising"}, at' = [at EXCEPT ![s] = p],
         stop' = stop \/ stop' = [stop EXCEPT ![s] = "aborted"],
         UNCHANGED <<stack, step, ledger, rows, pending, nested, kids, saved, handback>>
  PROVE  IInv'
  <1>1. /\ at'[s] = p /\ \A t \in Session : t # s => at'[t] = at[t] /\ at[t] \in Resting
        /\ "sub" \in Session
    BY RunningIs DEF IInv, TypeOK, Session
  <1>2. TypeOK'
    BY DEF IInv, TypeOK, Active, Reasons
  <1>3. Nested'
    BY SamePlace DEF Active
  <1>4. Begun'
    <2>1. \A t \in Session : at'[t] = "unborn" <=> at[t] = "unborn"
      BY <1>1
    <2>2. \A t \in Session : at'[t] \notin {"guard", "handoff", "spawn"}
      BY <1>1 DEF Resting
    <2>. QED  BY <2>1, <2>2 DEF IInv, Begun, Session
  <1>5. Reported' /\ PaidOnce'
    <2>1. SubSame /\ \A t \in Session : Reports(t)' = Reports(t) /\ saved'[t].kids = saved[t].kids
      BY DEF SubSame, Reports
    <2>2. \A t \in Session : at'[t] \notin Handback
      BY <1>1 DEF Resting, Handback
    <2>3. at'["sub"] = at["sub"] \/ (at'["sub"] \in Past /\ at'["sub"] # "done" /\ at["sub"] # "done")
      BY <1>1 DEF Past
    <2>4. stop'["sub"] = stop["sub"] \/ stop'["sub"] = "aborted"
      BY DEF IInv, TypeOK, Session
    <2>5. /\ saved["sub"].there => at["sub"] \in {"waiting"} \cup Past
          /\ handback["sub"] # "none" => at["sub"] \in Past /\ stop["sub"] # "stop"
      BY DEF IInv, Reported, PaidOnce, Past
    <2>. QED  BY <2>1, <2>2, <2>3, <2>4, <2>5, SubSameKept
  <1>. QED  BY <1>2, <1>3, <1>4, <1>5 DEF IInv

LEMMA FailActions ==
  ASSUME IInv, NEW s \in Session, stack # <<>>, s = Running,
         \/ LLMFails(s) \/ Interrupt(s) \/ RaiseError(s) \/ FallbackFails(s) \/ HandbackErrors(s)
  PROVE  IInv'
  <1>1. TypeOK
    BY DEF IInv
  <1>2. CASE at[s] = "leaving"
    <2>1. Interrupt(s) \/ RaiseError(s)
      BY <1>2 DEF LLMFails, FallbackFails, HandbackErrors, Handback
    <2>2. step' = step
      BY <1>2, <2>1 DEF Interrupt, RaiseError, MayCount
    <2>3. CASE Interrupt(s)
      BY <1>2, <2>2, <2>3, LeavingStep DEF Interrupt, Leave, Goto
    <2>4. CASE RaiseError(s)
      BY <1>2, <2>2, <2>4, LeavingStep DEF RaiseError, Goto
    <2>. QED  BY <2>1, <2>3, <2>4
  <1>3. CASE at[s] # "leaving"
    <2>1. /\ at[s] \in Early
          /\ \E p \in {"leaving", "raising", "tool"} : at' = [at EXCEPT ![s] = p]
          /\ UNCHANGED stop \/ \E reason \in Reasons : stop' = [stop EXCEPT ![s] = reason]
          /\ UNCHANGED <<stack, ledger, rows, nested, kids, saved, handback>>
          /\ UNCHANGED pending \/ pending' = [pending EXCEPT ![s] = "broken"]
          /\ UNCHANGED step \/ MayCount(s)
      <3>. "llm_failure" \in Reasons /\ "aborted" \in Reasons
        BY DEF Reasons
      <3>1. CASE LLMFails(s)
        BY <3>1 DEF LLMFails, Leave, Goto, Early, Active
      <3>2. CASE Interrupt(s)
        <4>1. at[s] \in Early
          BY <1>3, <3>2 DEF Interrupt, Trying, Early, Active, Handback
        <4>. QED  BY <3>2, <4>1 DEF Interrupt, Leave, Goto
      <3>3. CASE RaiseError(s)
        <4>1. at[s] \in Early
          BY <1>3, <3>3 DEF RaiseError, Trying, Early, Active, Handback
        <4>. QED  BY <3>3, <4>1 DEF RaiseError, Goto
      <3>4. CASE FallbackFails(s)
        BY <3>4 DEF FallbackFails, Leave, Goto, Early, Active, Handback
      <3>5. CASE HandbackErrors(s)
        BY <3>5 DEF HandbackErrors, Goto, Early, Active, Handback
      <3>. QED  BY <3>1, <3>2, <3>3, <3>4, <3>5
    <2>2. step' \in [Session -> 0 .. MaxSteps] /\ \A t \in Session : t # s => step'[t] = step[t]
      BY <2>1, CountedStep
    <2>3. PICK p \in {"leaving", "raising", "tool"} : at' = [at EXCEPT ![s] = p]
      BY <2>1
    <2>4. stop' \in [Session -> Reasons] /\ \A t \in Session : t # s => stop'[t] = stop[t]
      <3>1. stop \in [Session -> Reasons]
        BY <1>1 DEF TypeOK
      <3>2. CASE UNCHANGED stop
        BY <3>1, <3>2
      <3>3. ASSUME NEW reason \in Reasons, stop' = [stop EXCEPT ![s] = reason]
            PROVE  stop' \in [Session -> Reasons] /\ \A t \in Session : t # s => stop'[t] = stop[t]
        BY <3>1, <3>3
      <3>. QED  BY <2>1, <3>2, <3>3
    <2>5. pending' \in [Session -> Tools \cup {"none"}]
      BY <1>1, <2>1 DEF TypeOK, Tools
    <2>6. Quiet(s)
      <3>1. rows' = [rows EXCEPT ![s] = @ \o NoRows]
        BY <1>1, <2>1, QuietRows
      <3>. QED  BY <2>1, <2>2, <2>4, <2>5, <3>1, NoRowsAre DEF Quiet
    <2>7. p \in Own /\ p \notin {"handoff", "spawn"} /\ p # "guard"
      BY DEF Own, Active, Handback
    <2>. QED  BY <2>1, <2>3, <2>6, <2>7, QuietStep
  <1>. QED  BY <1>2, <1>3

(* A tool that is no delegation, around its own calls.                     *)
LEMMA ToolActions ==
  ASSUME IInv, NEW s \in Session, stack # <<>>, s = Running,
         BeginTool(s, "query") \/ EndTool(s)
  PROVE  IInv'
  <1>1. TypeOK
    BY DEF IInv
  <1>2. CASE BeginTool(s, "query")
    <2>1. /\ at[s] = "tools" /\ at' = [at EXCEPT ![s] = "tool"]
          /\ pending' = [pending EXCEPT ![s] = "query"] /\ nested' = [nested EXCEPT ![s] = {}]
          /\ UNCHANGED <<stack, rows, step, ledger, kids, saved, stop, handback>>
      BY <1>2 DEF BeginTool, Goto
    <2>2. Quiet(s)
      <3>1. rows' = [rows EXCEPT ![s] = @ \o NoRows]
        BY <1>1, <2>1, QuietRows
      <3>. QED  BY <1>1, <2>1, <3>1, NoRowsAre DEF Quiet, TypeOK, Tools
    <2>3. /\ "tool" \in Own /\ at[s] \in Early
          /\ "tool" \notin {"handoff", "spawn"} /\ "tool" # "guard"
      BY <2>1 DEF Active, Handback, Own, Early
    <2>. QED  BY <2>1, <2>2, <2>3, QuietStep
  <1>3. CASE EndTool(s)
    <2>1. /\ at[s] = "tool" /\ at' = [at EXCEPT ![s] = "tools"]
          /\ rows' = [rows EXCEPT ![s] = @ \o <<ToolRow(s)>>]
          /\ pending' = [pending EXCEPT ![s] = "none"] /\ nested' = [nested EXCEPT ![s] = {}]
          /\ UNCHANGED <<stack, step, ledger, kids, saved, stop, handback>>
      BY <1>3 DEF EndTool, ToolOver, Goto, Emit
    <2>2. Quiet(s)
      <3>1. ToolRow(s) \in RowType /\ ToolRow(s).type # "report"
        BY <1>1, ToolRowIs
      <3>2. <<ToolRow(s)>> \in Seq(RowType) /\ \A i \in DOMAIN <<ToolRow(s)>> : <<ToolRow(s)>>[i].type # "report"
        BY <3>1, OneRow
      <3>. QED  BY <1>1, <2>1, <3>2 DEF Quiet, TypeOK
    <2>3. /\ "tools" \in Own /\ at[s] \in Early
          /\ "tools" \notin {"handoff", "spawn"} /\ "tools" # "guard"
      BY <2>1 DEF Active, Handback, Own, Early
    <2>. QED  BY <2>1, <2>2, <2>3, QuietStep
  <1>. QED  BY <1>2, <1>3

(* A step ends: with the answer, out of budget, or in another step.        *)
LEMMA EndActions ==
  ASSUME IInv, NEW s \in Session, stack # <<>>, s = Running, Finalize(s) \/ CutoffReport(s)
  PROVE  IInv'
  <1>1. TypeOK /\ step \in [Session -> 0 .. MaxSteps]
    BY DEF IInv, TypeOK
  <1>2. CASE CutoffReport(s)
    BY <1>2, ReportStep DEF CutoffReport
  <1>3. CASE Finalize(s)
    <2> DEFINE one == Row("token_tracking", "none", "none", {})
               two == Row("finish_check", "none", "none", {})
    <2>1. /\ at[s] = "tools" /\ rows' = [rows EXCEPT ![s] = @ \o <<one, two>>]
          /\ UNCHANGED <<stack, step, ledger, pending, nested, kids, saved, handback>>
      BY <1>3 DEF Finalize, Emit
    <2>2. \E p \in {"leaving", "guard", "cutoff"} :
             /\ at' = [at EXCEPT ![s] = p]
             /\ UNCHANGED stop \/ \E reason \in Reasons : stop' = [stop EXCEPT ![s] = reason]
             /\ p = "guard" => step[s] < Budget(s)
      BY <1>3 DEF Finalize, Leave, Goto, Reasons
    <2>3. <<one, two>> \in Seq(RowType) /\ \A i \in DOMAIN <<one, two>> : <<one, two>>[i].type # "report"
      <3>1. one \in RowType /\ two \in RowType /\ one.type # "report" /\ two.type # "report"
        BY DEF Row, RowType
      <3> HIDE DEF one, two
      <3> DEFINE both == <<one, two>>
      <3>2. both \in Seq(RowType) /\ DOMAIN both = {1, 2} /\ both[1] = one /\ both[2] = two
        BY <3>1
      <3>. QED  BY <3>1, <3>2 DEF both
    <2> HIDE DEF one, two
    <2>4. PICK p \in {"leaving", "guard", "cutoff"} :
             /\ at' = [at EXCEPT ![s] = p]
             /\ UNCHANGED stop \/ \E reason \in Reasons : stop' = [stop EXCEPT ![s] = reason]
             /\ p = "guard" => step[s] < Budget(s)
      BY <2>2
    <2>5. stop' \in [Session -> Reasons] /\ \A t \in Session : t # s => stop'[t] = stop[t]
      <3>1. stop \in [Session -> Reasons]
        BY <1>1 DEF TypeOK
      <3>2. CASE UNCHANGED stop
        BY <3>1, <3>2
      <3>3. ASSUME NEW reason \in Reasons, stop' = [stop EXCEPT ![s] = reason]
            PROVE  stop' \in [Session -> Reasons] /\ \A t \in Session : t # s => stop'[t] = stop[t]
        BY <3>1, <3>3
      <3>. QED  BY <2>4, <3>2, <3>3
    <2>6. Quiet(s)
      BY <1>1, <2>1, <2>3, <2>5 DEF Quiet, TypeOK
    <2>7. p = "guard" => step'[s] < MaxSteps
      BY <2>1, <2>4, BudgetIs
    <2>8. /\ p \in Own /\ at[s] \in Early
          /\ p \notin {"handoff", "spawn"}
      BY <2>1 DEF Active, Handback, Own, Early
    <2>. QED  BY <2>4, <2>6, <2>7, <2>8, QuietStep
  <1>. QED  BY <1>2, <1>3

-----------------------------------------------------------------------------
(* A session begins inside another: a subagent in its delegate call, or    *)
(* the continuation in a reset.  t was unborn, so it is on no stack.       *)
LEMMA UnbornIs ==
  ASSUME IInv, NEW s \in Session, stack # <<>>, s = Running, NEW t \in Session, rows[t] = <<>>
  PROVE  /\ at[t] = "unborn" /\ t # s /\ t # "top" /\ step[t] = 0
         /\ \A i \in DOMAIN stack : stack[i] # t
  <1>1. at[t] = "unborn" /\ step[t] = 0
    BY DEF IInv, Begun
  <1>2. /\ at[s] \in Active /\ stack[1] = "top" /\ s = stack[Len(stack)]
        /\ \A i, j \in DOMAIN stack : i < j => at[stack[i]] = "waiting"
    BY DEF IInv, Nested, Running
  <1>3. DOMAIN stack = 1 .. Len(stack) /\ Len(stack) \in Nat /\ Len(stack) >= 1
    BY RunningIs, LenProperties DEF IInv, TypeOK
  <1>4. ASSUME NEW i \in DOMAIN stack PROVE stack[i] # t
    <2>1. CASE i = Len(stack)
      BY <1>1, <1>2, <2>1 DEF Active, Handback, Own, Early
    <2>2. CASE i # Len(stack)
      <3>1. Len(stack) \in DOMAIN stack /\ i < Len(stack)
        BY <1>3, <2>2
      <3>. QED  BY <1>1, <1>2, <3>1
    <2>. QED  BY <2>1, <2>2
  <1>5. t # "top"
    BY <1>2, <1>3, <1>4
  <1>. QED  BY <1>1, <1>2, <1>4, <1>5 DEF Active, Handback, Own, Early

Begins(s, t, new, more) ==
    /\ rows[t] = <<>> /\ stack' = Append(stack, t)
    /\ at' = [at EXCEPT ![s] = "waiting", ![t] = "guard"]
    /\ rows' = [rows EXCEPT ![s] = @ \o new, ![t] = Started]
    /\ saved' = more /\ UNCHANGED <<step, ledger, kids, handback>>

LEMMA StartedIs ==
  /\ Started \in Seq(RowType) /\ Started # <<>>
  /\ {i \in DOMAIN Started : Started[i].type = "report"} = {}
  <1> DEFINE row == Row("session_start", "none", "none", {})
  <1>1. row \in RowType /\ row.type # "report" /\ Started = <<row>>
    BY DEF Row, RowType, Started
  <1> HIDE DEF row
  <1>2. <<row>> \in Seq(RowType) /\ \A i \in DOMAIN <<row>> : <<row>>[i].type # "report"
    BY <1>1, OneRow
  <1>3. <<row>> # <<>>
    OBVIOUS
  <1>. QED  BY <1>1, <1>2, <1>3

LEMMA PushNested ==
  ASSUME IInv, NEW s \in Session, stack # <<>>, s = Running, NEW t \in Session, rows[t] = <<>>,
         stack' = Append(stack, t), at' = [at EXCEPT ![s] = "waiting", ![t] = "guard"]
  PROVE  Nested' /\ stack' \in Seq(Session)
  <1> DEFINE n == Len(stack)
  <1>1. /\ stack' \in Seq(Session) /\ Len(stack') = n + 1 /\ stack'[n + 1] = t /\ stack' # <<>>
        /\ \A i \in 1 .. n : stack'[i] = stack[i]
    <2>1. stack \in Seq(Session)
      BY DEF IInv, TypeOK
    <2>. QED  BY <2>1, AppendProperties
  <1>2. /\ n \in Nat /\ n >= 1 /\ DOMAIN stack = 1 .. n /\ DOMAIN stack' = 1 .. (n + 1)
        /\ \A i \in 1 .. n : stack[i] \in Session
    BY <1>1, RunningIs, LenProperties DEF IInv, TypeOK
  <1>3. /\ at[t] = "unborn" /\ t # s /\ \A i \in 1 .. n : stack[i] # t
    BY <1>2, UnbornIs
  <1>4. /\ \A i, j \in 1 .. n : i < j => stack[i] # stack[j] /\ at[stack[i]] = "waiting"
        /\ stack[1] = "top" /\ s = stack[n] /\ \A u \in Session : at[u] \in Active => u = s
    BY <1>2 DEF IInv, Nested, Running
  <1>5. /\ at'[s] = "waiting" /\ at'[t] = "guard"
        /\ \A u \in Session : u # s /\ u # t => at'[u] = at[u]
    BY <1>3 DEF IInv, TypeOK
  <1> HIDE DEF n
  <1>6. ASSUME NEW i \in 1 .. n PROVE stack'[i] # t /\ at'[stack'[i]] = "waiting"
    <2>1. CASE i = n
      BY <1>1, <1>3, <1>4, <1>5, <2>1
    <2>2. CASE i # n
      <3>1. n \in 1 .. n /\ i < n
        BY <1>2, <2>2
      <3>2. stack[i] # s /\ stack[i] # t /\ at[stack[i]] = "waiting"
        BY <1>3, <1>4, <3>1
      <3>. QED  BY <1>1, <1>2, <1>5, <3>2
    <2>. QED  BY <2>1, <2>2
  <1>7. ASSUME NEW i \in 1 .. (n + 1), NEW j \in 1 .. (n + 1), i < j
        PROVE  stack'[i] # stack'[j] /\ at'[stack'[i]] = "waiting"
    <2>1. i \in 1 .. n
      BY <1>2, <1>7
    <2>2. CASE j = n + 1
      BY <1>1, <1>6, <2>1, <2>2
    <2>3. CASE j # n + 1
      <3>1. j \in 1 .. n
        BY <1>2, <2>3
      <3>2. stack'[i] = stack[i] /\ stack'[j] = stack[j] /\ stack[i] # stack[j]
        BY <1>1, <1>4, <1>7, <2>1, <3>1
      <3>. QED  BY <1>6, <2>1, <3>2
    <2>. QED  BY <2>2, <2>3
  <1>8. Running' = t /\ stack'[1] = "top" /\ stack' # <<>>
    <2>1. Running' = stack'[Len(stack')]
      BY DEF Running
    <2>2. 1 \in 1 .. n
      BY <1>2
    <2>. QED  BY <1>1, <1>4, <2>1, <2>2
  <1>9. \A u \in Session : at'[u] \in Active => u = t
    BY <1>4, <1>5 DEF Active, Handback, Own, Early
  <1>. QED  BY <1>1, <1>2, <1>5, <1>7, <1>8, <1>9 DEF Nested, Active, Handback, Own, Early

LEMMA PushStep ==
  ASSUME IInv, NEW s \in Session, stack # <<>>, s = Running, at[s] \in {"handoff", "spawn", "tools"},
         NEW t \in {"sub", "cont"}, NEW new \in Seq(RowType), \A i \in DOMAIN new : new[i].type # "report",
         NEW more, more = saved \/ more = [saved EXCEPT ![s] = Rollup(s, ledger[s])],
         Begins(s, t, new, more),
         pending' \in [Session -> Tools \cup {"none"}], nested' = nested \/ nested' = [nested EXCEPT ![s] = {}],
         stop' \in [Session -> Reasons], \A u \in Session : u # s => stop'[u] = stop[u]
  PROVE  IInv'
  <1>1. /\ t \in Session /\ at[t] = "unborn" /\ t # s /\ step[t] = 0 /\ rows[t] = <<>>
    BY UnbornIs DEF Begins, Session
  <1>2. /\ rows'[s] = rows[s] \o new /\ rows'[t] = Started /\ rows[s] \o new \in Seq(RowType)
        /\ rows' \in [Session -> Seq(RowType)]
        /\ \A u \in Session : u # s /\ u # t => rows'[u] = rows[u]
    <2>1. rows[s] \o new \in Seq(RowType)
      BY RowsGrow DEF IInv, TypeOK
    <2>. QED  BY <1>1, <2>1, StartedIs DEF Begins, IInv, TypeOK
  <1>3. /\ at'[s] = "waiting" /\ at'[t] = "guard" /\ at' \in [Session -> Resting \cup Active]
        /\ \A u \in Session : u # s /\ u # t => at'[u] = at[u] /\ at[u] \in Resting
    <2>1. \A u \in Session : u # s => at[u] \in Resting
      BY RunningIs
    <2>2. at \in [Session -> Resting \cup Active] /\ at' = [at EXCEPT ![s] = "waiting", ![t] = "guard"]
      BY DEF Begins, IInv, TypeOK
    <2>3. "waiting" \in Resting /\ "guard" \in Active
      BY DEF Resting, Active, Handback, Own, Early
    <2>. QED  BY <1>1, <2>1, <2>2, <2>3
  <1>4. \A u \in Session : Reports(u)' = Reports(u)
    <2>1. Reports(t)' = {} /\ Reports(t) = {}
      BY <1>1, <1>2, StartedIs DEF Reports
    <2>2. Reports(s)' = Reports(s)
      <3>1. rows[s] \in Seq(RowType)
        BY DEF IInv, TypeOK
      <3>2. {i \in DOMAIN (rows[s] \o new) : (rows[s] \o new)[i].type = "report"} = Reports(s)
        BY <3>1, RowsGrow DEF Reports
      <3>. QED  BY <1>2, <3>2 DEF Reports
    <2>3. ASSUME NEW u \in Session, u # s, u # t PROVE Reports(u)' = Reports(u)
      BY <1>2, <2>3 DEF Reports
    <2>. QED  BY <2>1, <2>2, <2>3
  <1>5. /\ saved' \in [Session -> [there : BOOLEAN, calls : Ledgers, kids : Seq(Ledgers)]]
        /\ \A u \in Session : u # s => saved'[u] = saved[u]
        /\ \/ saved'[s] = saved[s]
           \/ saved'[s].there /\ saved'[s].calls = ledger[s] /\ saved'[s].kids = kids[s]
    <2>1. Rollup(s, ledger[s]) \in [there : BOOLEAN, calls : Ledgers, kids : Seq(Ledgers)]
      BY DEF Rollup, IInv, TypeOK
    <2>2. saved' = more /\ saved \in [Session -> [there : BOOLEAN, calls : Ledgers, kids : Seq(Ledgers)]]
      BY DEF Begins, IInv, TypeOK
    <2>3. CASE more = saved
      BY <2>2, <2>3
    <2>4. CASE more = [saved EXCEPT ![s] = Rollup(s, ledger[s])]
      <3>1. saved'[s] = Rollup(s, ledger[s])
        BY <2>2, <2>4
      <3>. QED  BY <2>1, <2>2, <2>4, <3>1 DEF Rollup
    <2>. QED  BY <2>3, <2>4
  <1>6. Nested' /\ stack' \in Seq(Session)
    BY <1>1, PushNested DEF Begins
  <1>7. TypeOK'
    <2>1. nested' \in [Session -> SUBSET Nat] /\ \A u \in Session : nested'[u] \subseteq 1 .. Len(ledger'[u])
      <3>1. \A u \in Session : nested[u] \in SUBSET Nat /\ nested[u] \subseteq 1 .. Len(ledger[u])
        BY DEF IInv, TypeOK
      <3>2. nested \in [Session -> SUBSET Nat] /\ ledger' = ledger
        BY DEF Begins, IInv, TypeOK
      <3>3. CASE nested' = nested
        BY <3>1, <3>2, <3>3
      <3>4. CASE nested' = [nested EXCEPT ![s] = {}]
        BY <3>1, <3>2, <3>4
      <3>. QED  BY <3>3, <3>4
    <2>. QED  BY <1>2, <1>3, <1>5, <1>6, <2>1 DEF Begins, IInv, TypeOK
  <1>8. Begun'
    <2>1. rows[s] # <<>> /\ at[s] # "unborn"
      BY DEF IInv, Begun
    <2>2. rows'[s] # <<>> /\ rows'[t] # <<>>
      BY <1>2, <2>1, RowsGrow, StartedIs DEF IInv, TypeOK
    <2>3. \A u \in Session : rows'[u] = <<>> <=> at'[u] = "unborn"
      <3>1. ASSUME NEW u \in Session, u # s, u # t PROVE rows'[u] = <<>> <=> at'[u] = "unborn"
        <4>1. rows'[u] = rows[u] /\ at'[u] = at[u]
          BY <1>2, <1>3, <3>1
        <4>2. rows[u] = <<>> <=> at[u] = "unborn"
          BY DEF IInv, Begun
        <4>. QED  BY <4>1, <4>2
      <3>. QED  BY <1>3, <2>2, <3>1
    <2>4. \A u \in Session : rows'[u] = <<>> => step'[u] = 0
      BY <1>2, <2>2 DEF Begins, IInv, Begun
    <2>5. \A u \in Session : at'[u] = "guard" => step'[u] < MaxSteps
      <3>1. \A u \in Session : at'[u] = "guard" => u = t
        BY <1>3 DEF Resting
      <3>2. step'[t] = 0 /\ 0 < MaxSteps
        BY <1>1 DEF Begins
      <3>. QED  BY <3>1, <3>2
    <2>6. \A u \in Session : at'[u] \notin {"handoff", "spawn"}
      BY <1>3 DEF Resting
    <2>7. at'["sub"] = "unborn" => ledger'["sub"] = <<>>
      BY <1>3 DEF Begins, IInv, Begun, Session
    <2>. QED  BY <2>3, <2>4, <2>5, <2>6, <2>7 DEF Begun
  <1>9. /\ \A u \in Session : at'[u] \notin Handback
        /\ kids' = kids /\ ledger' = ledger /\ handback' = handback /\ "sub" \in Session
    BY <1>3 DEF Resting, Handback, Begins, Session
  <1>10. CASE s # "sub" /\ t # "sub"
    <2>1. SubSame /\ at'["sub"] = at["sub"] /\ stop'["sub"] = stop["sub"]
      BY <1>2, <1>3, <1>5, <1>9, <1>10 DEF SubSame
    <2>2. \A u \in Session : saved'[u].kids = saved[u].kids \/ saved'[u].kids = kids[u]
      BY <1>5
    <2>3. /\ saved["sub"].there => at["sub"] \in {"waiting"} \cup Past
          /\ handback["sub"] # "none" => at["sub"] \in Past /\ stop["sub"] # "stop"
      BY DEF IInv, Reported, PaidOnce, Past
    <2>4. Reported' /\ PaidOnce'
      BY <1>4, <1>9, <2>1, <2>2, <2>3, SubSameKept
    <2>. QED  BY <1>6, <1>7, <1>8, <2>4 DEF IInv
  <1>11. CASE s = "sub" \/ t = "sub"
    <2>1. at["sub"] \in {"unborn"} \cup Early
      BY <1>1, <1>11 DEF Early, Active
    <2>2. /\ \A u \in Session : Reports(u) = {} /\ kids[u] = <<>> /\ saved[u].kids = <<>>
          /\ ~saved["sub"].there /\ handback["sub"] = "none" /\ CountOf(ledger["sub"], "report") = 0
      BY <2>1, SubEarly
    <2>3. \A u \in Session : Reports(u)' = {} /\ kids'[u] = <<>> /\ saved'[u].kids = <<>>
      <3>1. \A u \in Session : saved'[u].kids = saved[u].kids \/ saved'[u].kids = kids[u]
        BY <1>5
      <3>. QED  BY <1>4, <1>9, <2>2, <3>1
    <2>4. at'["sub"] \in {"waiting", "guard"}
      BY <1>3, <1>11
    <2>5. ~Unsaved' /\ (saved'["sub"].there => s = "sub")
      BY <1>5, <1>9, <2>2 DEF Unsaved
    <2>6. saved'["sub"].there => at'["sub"] = "waiting"
      BY <1>3, <2>5
    <2>7. Reported' /\ PaidOnce'
      BY <1>9, <2>2, <2>3, <2>4, <2>5, <2>6, BlankKept
    <2>. QED  BY <1>6, <1>7, <1>8, <2>7 DEF IInv
  <1>. QED  BY <1>10, <1>11

LEMMA PushActions ==
  ASSUME IInv, NEW s \in Session, stack # <<>>, s = Running,
         SpawnContinuation(s) \/ BeginTool(s, "delegate")
  PROVE  IInv'
  <1>1. CASE SpawnContinuation(s)
    <2> DEFINE row == Row("handoff", "none", "none", {})
               new == <<row>>
               more == [saved EXCEPT ![s] = Rollup(s, ledger[s])]
    <2>1. new \in Seq(RowType) /\ \A i \in DOMAIN new : new[i].type # "report"
      <3>1. row \in RowType /\ row.type # "report"
        BY DEF Row, RowType
      <3> HIDE DEF row
      <3>. QED  BY <3>1, OneRow
    <2>2. at[s] \in {"handoff", "spawn"} /\ rows["cont"] = <<>>
      BY <1>1 DEF SpawnContinuation, IInv, Begun
    <2>3. "cont" # s
      BY <2>2, UnbornIs DEF Session
    <2>4. rows' = [rows EXCEPT ![s] = @ \o new, !["cont"] = Started]
      <3>1. rows[s] \in Seq(RowType) /\ row \in RowType
        BY DEF IInv, TypeOK, Row, RowType
      <3>2. Append(rows[s], row) = rows[s] \o new
        BY <3>1, AppendIsConcat
      <3>. QED  BY <1>1, <3>2 DEF SpawnContinuation
    <2> HIDE DEF new
    <2>5. Begins(s, "cont", new, more)
      BY <1>1, <2>2, <2>4 DEF SpawnContinuation, Begins
    <2>6. /\ pending' \in [Session -> Tools \cup {"none"}] /\ nested' = nested
          /\ stop' \in [Session -> Reasons] /\ \A u \in Session : u # s => stop'[u] = stop[u]
      BY <1>1 DEF SpawnContinuation, IInv, TypeOK, Reasons
    <2> HIDE DEF more
    <2>7. more = saved \/ more = [saved EXCEPT ![s] = Rollup(s, ledger[s])]
      BY DEF more
    <2>. QED  BY <2>1, <2>2, <2>5, <2>6, <2>7, PushStep
  <1>2. CASE BeginTool(s, "delegate")
    <2>1. /\ at[s] = "tools" /\ rows["sub"] = <<>> /\ stack' = Append(stack, "sub")
          /\ at' = [at EXCEPT ![s] = "waiting", !["sub"] = "guard"]
          /\ rows' = [rows EXCEPT !["sub"] = Started]
          /\ pending' = [pending EXCEPT ![s] = "delegate"] /\ nested' = [nested EXCEPT ![s] = {}]
          /\ UNCHANGED <<step, ledger, kids, saved, stop, handback>>
      BY <1>2 DEF BeginTool, Unused
    <2>2. rows' = [rows EXCEPT ![s] = @ \o NoRows, !["sub"] = Started]
      <3>1. [rows EXCEPT ![s] = @ \o NoRows] = rows
        BY QuietRows DEF IInv
      <3>. QED  BY <2>1, <3>1
    <2>3. Begins(s, "sub", NoRows, saved)
      BY <2>1, <2>2 DEF Begins
    <2>4. /\ pending' \in [Session -> Tools \cup {"none"}]
          /\ stop' \in [Session -> Reasons] /\ \A u \in Session : u # s => stop'[u] = stop[u]
      BY <2>1 DEF IInv, TypeOK, Tools
    <2>. QED  BY <2>1, <2>3, <2>4, NoRowsAre, PushStep
  <1>. QED  BY <1>1, <1>2


-----------------------------------------------------------------------------
(* A session ends, and the one that waits below it on the stack goes on.   *)
LEMMA CallerIs ==
  ASSUME IInv, stack # <<>>, NEW n, n = Len(stack)
  PROVE  /\ n \in Nat /\ n >= 1 /\ stack[n] = Running
         /\ Running = "top" => n = 1
         /\ Running # "top" => n - 1 \in 1 .. n /\ n >= 2 /\ stack[n - 1] \in Session
                               /\ stack[n - 1] # Running /\ at[stack[n - 1]] = "waiting"
  <1>1. n \in Nat /\ n >= 1 /\ DOMAIN stack = 1 .. n /\ stack[n] = Running
    BY RunningIs, LenProperties DEF IInv, TypeOK, Running
  <1>2. \A i, j \in 1 .. n : i < j => stack[i] # stack[j] /\ at[stack[i]] = "waiting"
    BY <1>1 DEF IInv, Nested
  <1>3. CASE Running = "top"
    <2>1. stack[1] = "top" /\ 1 \in 1 .. n /\ n \in 1 .. n
      BY <1>1 DEF IInv, Nested
    <2>. QED  BY <1>1, <1>2, <1>3, <2>1
  <1>4. CASE Running # "top"
    <2>1. n >= 2
      BY <1>4, RunningIs
    <2>2. n - 1 \in 1 .. n /\ n \in 1 .. n /\ n - 1 < n
      BY <1>1, <2>1
    <2>3. stack[n - 1] \in Session
      BY <2>2, RunningIs
    <2>. QED  BY <1>1, <1>2, <1>4, <2>1, <2>2, <2>3
  <1>. QED  BY <1>1, <1>3, <1>4

LEMMA PopNested ==
  ASSUME IInv, NEW s \in Session, stack # <<>>, s = Running, at[s] \in {"leaving", "raising"},
         NEW caller, caller = stack[Len(stack) - 1], stack' = Front(stack),
         at' \in [Session -> Resting \cup Active],
         at'[s] \in {"done", "died"}, s # "top" => at'[caller] \in Active,
         \A u \in Session : u # s /\ (u # caller \/ s = "top") => at'[u] = at[u]
  PROVE  Nested' /\ stack' \in Seq(Session)
  <1> DEFINE n == Len(stack)
             m == n - 1
  <1>1. /\ n \in Nat /\ n >= 1 /\ stack[n] = s
        /\ s = "top" => n = 1
        /\ s # "top" => n >= 2 /\ caller \in Session /\ caller # s
    BY CallerIs
  <1>2. /\ m \in Nat /\ n = m + 1
        /\ s = "top" => m = 0
        /\ s # "top" => m \in 1 .. m /\ 1 \in 1 .. m /\ caller = stack[m]
    BY <1>1
  <1>3. \A i \in 1 .. m : stack[i] \in Session
    BY <1>1, RunningIs
  <1>4. /\ \A i, j \in 1 .. n : i < j => stack[i] # stack[j] /\ at[stack[i]] = "waiting"
        /\ stack[1] = "top" /\ \A u \in Session : at[u] \in Active => u = s
    <2>1. DOMAIN stack = 1 .. n
      BY LenProperties DEF IInv, TypeOK
    <2>. QED  BY <2>1 DEF IInv, Nested
  <1>5. /\ stack' \in Seq(Session) /\ Len(stack') = m
        /\ \A i \in 1 .. m : stack'[i] = stack[i]
    <2>1. stack' = SubSeq(stack, 1, m)
      BY DEF Front
    <2>2. 1 \in Int /\ m \in Int /\ m - 1 + 1 = m /\ (IF 1 <= m THEN m - 1 + 1 ELSE 0) = m
      BY <1>2
    <2> HIDE DEF m, n
    <2>3. /\ stack' \in Seq(Session) /\ Len(stack') = m
          /\ \A i \in 1 .. m : stack'[i] = stack[1 + i - 1]
      BY <1>3, <2>1, <2>2, SubSeqProperties
    <2>4. \A i \in 1 .. m : 1 + i - 1 = i
      BY <1>2
    <2>. QED  BY <2>3, <2>4
  <1>6. DOMAIN stack' = 1 .. m
    BY <1>5, LenProperties
  <1> HIDE DEF m, n
  <1>7. ASSUME NEW i \in 1 .. m, NEW j \in 1 .. m, i < j
        PROVE  stack'[i] # stack'[j] /\ at'[stack'[i]] = "waiting"
    <2>1. i \in 1 .. n /\ j \in 1 .. n /\ n \in 1 .. n /\ i < n /\ m \in 1 .. n
      BY <1>1, <1>2, <1>7
    <2>2. stack'[i] = stack[i] /\ stack'[j] = stack[j] /\ stack[i] \in Session
      BY <1>3, <1>5
    <2>3. stack[i] # stack[j] /\ at[stack[i]] = "waiting" /\ stack[i] # s
      BY <1>1, <1>4, <1>7, <2>1
    <2>4. s = "top" \/ stack[i] # caller
      <3>1. i < m
        BY <1>2, <1>7
      <3>2. stack[i] # stack[m]
        BY <1>4, <2>1, <3>1
      <3>. QED  BY <1>2, <3>2
    <2>. QED  BY <2>2, <2>3, <2>4
  <1>8. CASE s = "top"
    <2>1. stack' = <<>>
      BY <1>2, <1>5, <1>8, EmptySeq
    <2>2. \A u \in Session : at'[u] \notin Active
      BY <1>4, <1>8 DEF Active, Handback, Own, Early
    <2>3. 1 .. m = {}
      BY <1>2, <1>8
    <2>. QED  BY <1>5, <1>6, <2>1, <2>2, <2>3 DEF Nested
  <1>9. CASE s # "top"
    <2>1. stack'[m] = caller /\ stack'[1] = "top" /\ Running' = caller
      <3>1. Running' = stack'[Len(stack')]
        BY DEF Running
      <3>. QED  BY <1>2, <1>4, <1>5, <1>9, <3>1
    <2>2. stack' # <<>>
      <3>1. Len(stack') # 0
        BY <1>2, <1>5, <1>9
      <3>. QED  BY <1>5, <3>1, EmptySeq
    <2>3. \A u \in Session : at'[u] \in Active => u = caller
      BY <1>4 DEF Active, Handback, Own, Early
    <2>4. at'[caller] \in Active
      BY <1>9
    <2>. QED  BY <1>5, <1>6, <1>7, <2>1, <2>2, <2>3, <2>4 DEF Nested
  <1>. QED  BY <1>8, <1>9

(* However s ends: place and next are where it and its caller are then.     *)
Pops(s, place, next) ==
    /\ at[s] \in {"leaving", "raising"} /\ Over(s, place, next)
    /\ place \in {"done", "died"} /\ next \in {"report", "leaving", "raising", "tool"}
    /\ next = "report" => s = "sub" /\ place = "done"
    /\ next = "tool" => s = "sub"
    /\ saved' = saved \/ Save(s)
    /\ place = "done" => Save(s)
    /\ rows' = rows \/ Emit(s, <<Ended(s)>>)
    /\ pending' = pending \/ (s # "top" /\ pending' = [pending EXCEPT ![Caller] = "failed"])
    /\ \/ stop' = stop
       \/ s # "top" /\ \E reason \in {"llm_failure", "aborted"} : stop' = [stop EXCEPT ![Caller] = reason]

LEMMA EndingPops ==
  ASSUME IInv, NEW s \in Session, Finish(s) \/ FinishRaising(s) \/ CutFinally(s)
  PROVE  \E place, next : Pops(s, place, next)
  <1>1. CASE Finish(s)
    <2> DEFINE next == IF s = "sub" THEN "report" ELSE "leaving"
    <2>1. Over(s, "done", next)
      BY <1>1 DEF Finish
    <2> HIDE DEF next
    <2>2. stop' = stop \/ (s # "top" /\ stop' = [stop EXCEPT ![Caller] = "llm_failure"])
      <3>1. "cont" # "top"
        OBVIOUS
      <3>. QED  BY <1>1, <3>1 DEF Finish
    <2>3. next \in {"report", "leaving"} /\ (next = "report" => s = "sub")
      BY DEF next
    <2>4. Pops(s, "done", next)
      BY <1>1, <2>1, <2>2, <2>3 DEF Finish, Pops
    <2>. QED  BY <2>4
  <1>2. ASSUME at[s] \in {"leaving", "raising"}, Escapes(s), saved' = saved \/ Save(s),
               rows' = rows \/ Emit(s, <<Ended(s)>>), stop' = stop
        PROVE  \E place, next : Pops(s, place, next)
    <2>1. CASE Over(s, "died", "raising") /\ UNCHANGED pending
      <3>1. Pops(s, "died", "raising")
        BY <1>2, <2>1 DEF Pops
      <3>. QED  BY <3>1
    <2>2. CASE s = "sub" /\ Over(s, "died", "tool") /\ pending' = [pending EXCEPT ![Caller] = "failed"]
      <3>1. Pops(s, "died", "tool")
        BY <1>2, <2>2 DEF Pops
      <3>. QED  BY <3>1
    <2>. QED  BY <1>2, <2>1, <2>2 DEF Escapes
  <1>3. CASE FinishRaising(s)
    BY <1>2, <1>3 DEF FinishRaising
  <1>4. CASE CutFinally(s)
    <2>1. at[s] \in {"leaving", "raising"} /\ (saved' = saved \/ Save(s)) /\ rows' = rows
      BY <1>4 DEF CutFinally
    <2>2. CASE Escapes(s) /\ UNCHANGED stop
      BY <1>2, <2>1, <2>2
    <2>3. CASE /\ s # "top" /\ Over(s, "died", "leaving") /\ UNCHANGED pending
               /\ stop' = [stop EXCEPT ![Caller] = "aborted"]
      <3>1. Pops(s, "died", "leaving")
        BY <2>1, <2>3 DEF Pops
      <3>. QED  BY <3>1
    <2>. QED  BY <1>4, <2>2, <2>3 DEF CutFinally
  <1>. QED  BY <1>1, <1>3, <1>4

LEMMA PopStep ==
  ASSUME IInv, NEW s \in Session, stack # <<>>, s = Running, NEW place, NEW next, Pops(s, place, next)
  PROVE  IInv'
  <1> DEFINE caller == stack[Len(stack) - 1]
             row == Ended(s)
             new == <<row>>
  <1>1. /\ at[s] \in {"leaving", "raising"} /\ stack' = Front(stack)
        /\ rows' = rows \/ rows' = [rows EXCEPT ![s] = @ \o new]
        /\ \/ saved' = saved
           \/ saved' = IF saved[s].there THEN saved ELSE [saved EXCEPT ![s] = Rollup(s, ledger[s])]
        /\ UNCHANGED <<step, ledger, nested, kids, handback>>
    BY DEF Pops, Over, Save, Emit
  <1>2. /\ s # "top" => caller \in Session /\ caller # s /\ at[caller] = "waiting"
        /\ \A u \in Session : u # s => at[u] \in Resting
    BY RunningIs, CallerIs
  <1>3. /\ at'[s] = place /\ at' \in [Session -> Resting \cup Active]
        /\ s # "top" => at'[caller] = next /\ next \in Active
        /\ \A u \in Session : u # s /\ (u # caller \/ s = "top") => at'[u] = at[u]
    <2>1. at' = [t \in Session |-> CASE t = s -> place
                                     [] t # s /\ s # "top" /\ t = caller -> next
                                     [] OTHER -> at[t]]
      BY DEF Pops, Over, Caller
    <2>2. at \in [Session -> Resting \cup Active]
      BY DEF IInv, TypeOK
    <2> HIDE DEF caller
    <2>3. at'[s] = place
      BY <2>1
    <2>4. s # "top" => at'[caller] = next
      BY <1>2, <2>1
    <2>5. \A u \in Session : u # s /\ (u # caller \/ s = "top") => at'[u] = at[u]
      BY <2>1
    <2>6. place \in Resting /\ next \in Active
      BY DEF Pops, Resting, Active, Handback
    <2>7. at' \in [Session -> Resting \cup Active]
      <3>1. \A u \in Session : at'[u] \in Resting \cup Active
        BY <2>2, <2>3, <2>4, <2>5, <2>6
      <3>. QED  BY <2>1, <3>1
    <2>. QED  BY <2>3, <2>4, <2>5, <2>6, <2>7
  <1>4. /\ stop' \in [Session -> Reasons] /\ pending' \in [Session -> Tools \cup {"none"}]
        /\ \A u \in Session : stop'[u] = stop[u] \/ stop'[u] # "stop"
    <2>1. /\ stop \in [Session -> Reasons] /\ "llm_failure" \in Reasons /\ "aborted" \in Reasons
          /\ pending \in [Session -> Tools \cup {"none"}] /\ "failed" \in Tools
      BY DEF IInv, TypeOK, Reasons, Tools
    <2>2. pending' = pending \/ pending' = [pending EXCEPT ![caller] = "failed"]
      BY DEF Pops, Caller
    <2>3. pending' \in [Session -> Tools \cup {"none"}]
      <3> HIDE DEF caller
      <3>. QED  BY <2>1, <2>2
    <2>4. stop' = stop \/ \E reason \in {"llm_failure", "aborted"} : stop' = [stop EXCEPT ![caller] = reason]
      BY DEF Pops, Caller
    <2>5. stop' \in [Session -> Reasons] /\ \A u \in Session : stop'[u] = stop[u] \/ stop'[u] # "stop"
      <3> HIDE DEF caller
      <3>1. CASE stop' = stop
        BY <2>1, <3>1
      <3>2. ASSUME NEW reason \in {"llm_failure", "aborted"}, stop' = [stop EXCEPT ![caller] = reason]
            PROVE  stop' \in [Session -> Reasons] /\ \A u \in Session : stop'[u] = stop[u] \/ stop'[u] # "stop"
        BY <2>1, <3>2
      <3>. QED  BY <2>4, <3>1, <3>2
    <2>. QED  BY <2>3, <2>5
  <1>5. /\ new \in Seq(RowType) /\ \A i \in DOMAIN new : new[i].type # "report"
    <2>1. row \in RowType /\ row.type # "report"
      <3>1. stop[s] \in Reasons /\ {step[s]} \in SUBSET Nat
        BY DEF IInv, TypeOK
      <3>. QED  BY <3>1 DEF Ended, Row, RowType
    <2> HIDE DEF row
    <2>. QED  BY <2>1, OneRow
  <1>6. PICK more \in Seq(RowType) :
           /\ rows' = [rows EXCEPT ![s] = @ \o more]
           /\ \A i \in DOMAIN more : more[i].type # "report"
    <2>1. CASE rows' = rows
      <3>1. rows' = [rows EXCEPT ![s] = @ \o NoRows]
        BY <2>1, QuietRows DEF IInv
      <3>. QED  BY <3>1, NoRowsAre
    <2> HIDE DEF new
    <2>2. CASE rows' = [rows EXCEPT ![s] = @ \o new]
      BY <1>5, <2>2
    <2>. QED  BY <1>1, <2>1, <2>2
  <1> HIDE DEF new, row, caller
  <1>7. /\ rows' \in [Session -> Seq(RowType)] /\ rows'[s] = rows[s] \o more
        /\ rows[s] \in Seq(RowType) /\ rows[s] # <<>> /\ rows'[s] # <<>>
        /\ \A u \in Session : u # s => rows'[u] = rows[u]
    <2>1. rows[s] \in Seq(RowType) /\ rows[s] # <<>>
      BY <1>1 DEF IInv, TypeOK, Begun
    <2>2. rows[s] \o more \in Seq(RowType) /\ rows[s] \o more # <<>>
      BY <2>1, RowsGrow
    <2>. QED  BY <1>6, <2>1, <2>2 DEF IInv, TypeOK
  <1>8. \A u \in Session : Reports(u)' = Reports(u)
    <2>1. {i \in DOMAIN (rows[s] \o more) : (rows[s] \o more)[i].type = "report"} = Reports(s)
      BY <1>6, <1>7, RowsGrow DEF Reports
    <2>2. Reports(s)' = Reports(s)
      BY <1>7, <2>1 DEF Reports
    <2>3. ASSUME NEW u \in Session, u # s PROVE Reports(u)' = Reports(u)
      BY <1>7, <2>3 DEF Reports
    <2>. QED  BY <2>2, <2>3
  <1>9. /\ saved' \in [Session -> [there : BOOLEAN, calls : Ledgers, kids : Seq(Ledgers)]]
        /\ \A u \in Session : u # s => saved'[u] = saved[u]
        /\ place = "done" => saved'[s].there
        /\ \/ saved'[s] = saved[s]
           \/ saved'[s].calls = ledger[s] /\ saved'[s].kids = kids[s]
    <2>1. Rollup(s, ledger[s]) \in [there : BOOLEAN, calls : Ledgers, kids : Seq(Ledgers)]
      BY DEF Rollup, IInv, TypeOK
    <2>2. saved \in [Session -> [there : BOOLEAN, calls : Ledgers, kids : Seq(Ledgers)]]
      BY DEF IInv, TypeOK
    <2>3. place = "done" =>
             saved' = IF saved[s].there THEN saved ELSE [saved EXCEPT ![s] = Rollup(s, ledger[s])]
      BY DEF Pops, Save
    <2>4. CASE saved[s].there
      BY <1>1, <2>2, <2>4
    <2>5. CASE ~saved[s].there /\ saved' = [saved EXCEPT ![s] = Rollup(s, ledger[s])]
      <3>1. saved'[s] = Rollup(s, ledger[s])
        BY <2>2, <2>5
      <3>. QED  BY <2>1, <2>2, <2>5, <3>1 DEF Rollup
    <2>6. CASE saved' = saved /\ place # "done"
      BY <2>2, <2>6
    <2>. QED  BY <1>1, <2>3, <2>4, <2>5, <2>6
  <1>10. Nested' /\ stack' \in Seq(Session)
    <2>1. caller = stack[Len(stack) - 1] /\ place \in {"done", "died"}
      BY DEF caller, Pops
    <2>. QED  BY <1>1, <1>3, <2>1, PopNested
  <1>11. TypeOK'
    BY <1>1, <1>3, <1>4, <1>7, <1>9, <1>10 DEF IInv, TypeOK
  <1>12. Begun'
    <2>1. \A u \in Session : at'[u] \notin {"guard", "handoff", "spawn"}
      BY <1>2, <1>3 DEF Resting, Pops
    <2>2. \A u \in Session : at'[u] = "unborn" <=> at[u] = "unborn"
      <3>1. ASSUME NEW u \in Session PROVE at'[u] = "unborn" <=> at[u] = "unborn"
        <4>1. CASE u = s
          BY <1>1, <1>3, <4>1 DEF Pops
        <4>2. CASE u # s /\ s # "top" /\ u = caller
          BY <1>2, <1>3, <4>2 DEF Active, Handback
        <4>3. CASE u # s /\ (u # caller \/ s = "top")
          BY <1>3, <4>3
        <4>. QED  BY <4>1, <4>2, <4>3
      <3>. QED  BY <3>1
    <2>3. \A u \in Session : rows'[u] = <<>> <=> rows[u] = <<>>
      BY <1>7
    <2>4. at["sub"] = "unborn" => ledger["sub"] = <<>>
      BY DEF IInv, Begun
    <2>5. \A u \in Session : rows'[u] = <<>> => step'[u] = 0
      BY <1>1, <2>3 DEF IInv, Begun
    <2>6. \A u \in Session : rows'[u] = <<>> <=> at'[u] = "unborn"
      BY <2>2, <2>3 DEF IInv, Begun
    <2>. QED  BY <1>1, <2>1, <2>2, <2>4, <2>5, <2>6 DEF Begun, Session
  <1>13. /\ saved["sub"].there => at["sub"] \in {"waiting"} \cup Past
         /\ handback["sub"] # "none" => at["sub"] \in Past /\ stop["sub"] # "stop"
         /\ "sub" \in Session /\ kids' = kids /\ ledger' = ledger /\ handback' = handback
    BY <1>1 DEF IInv, Reported, PaidOnce, Past, Session
  <1>14. CASE s # "sub"
    <2>1. SubSame /\ \A u \in Session : saved'[u].kids = saved[u].kids \/ saved'[u].kids = kids[u]
      BY <1>7, <1>9, <1>13, <1>14 DEF SubSame
    <2>2. next \in {"leaving", "raising"}
      BY <1>14 DEF Pops
    <2>3. \A u \in Session : at'[u] \notin Handback
      BY <1>2, <1>3, <2>2 DEF Resting, Handback, Pops
    <2>4. at'["sub"] = at["sub"] \/ (at["sub"] = "waiting" /\ at'["sub"] = next)
      BY <1>2, <1>3, <1>13, <1>14
    <2>5. handback["sub"] # "none" => at'["sub"] \in Past /\ stop'["sub"] # "stop"
      BY <1>4, <1>13, <2>4 DEF Past
    <2>6. saved["sub"].there => at'["sub"] \in {"waiting"} \cup Past
      BY <1>13, <2>2, <2>4 DEF Past
    <2>7. at'["sub"] = "done" <=> at["sub"] = "done"
      BY <2>2, <2>4
    <2>8. Reported' /\ PaidOnce'
      BY <1>8, <1>13, <2>1, <2>3, <2>5, <2>6, <2>7, SubSameKept
    <2>. QED  BY <1>10, <1>11, <1>12, <2>8 DEF IInv
  <1>15. CASE s = "sub"
    <2>1. /\ \A u \in Session : Reports(u) = {} /\ kids[u] = <<>> /\ saved[u].kids = <<>>
          /\ ~Unsaved
      BY <1>1, <1>15 DEF IInv, Reported, Session
    <2>2. /\ \A u \in Session : Reports(u)' = {} /\ kids'[u] = <<>> /\ saved'[u].kids = <<>>
      <3>1. \A u \in Session : saved'[u].kids = saved[u].kids \/ saved'[u].kids = kids[u]
        BY <1>9
      <3>. QED  BY <1>8, <1>13, <2>1, <3>1
    <2>3. ~Unsaved'
      BY <1>9, <1>13, <1>15, <2>1 DEF Unsaved
    <2>4. at'["sub"] = place /\ place \in Past
      BY <1>3, <1>15 DEF Pops, Past
    <2>5. \A u \in Session : at'[u] \in Handback => at'[u] = "report" /\ u # "sub" /\ at'["sub"] = "done"
      <3>1. ASSUME NEW u \in Session, at'[u] \in Handback
            PROVE  u # "sub" /\ at'[u] = next /\ next \in Handback
        <4>1. u # "sub"
          BY <2>4, <3>1 DEF Past, Handback
        <4>2. at[u] \notin Handback
          BY <1>2, <1>15, <4>1 DEF Resting, Handback
        <4>. QED  BY <1>3, <1>15, <3>1, <4>1, <4>2
      <3>2. next \in Handback => next = "report" /\ place = "done"
        BY DEF Pops, Handback
      <3>. QED  BY <2>4, <3>1, <3>2
    <2>6. at'["sub"] = "done" => saved'["sub"].there
      BY <1>9, <1>15, <2>4
    <2>7. stop'["sub"] = stop["sub"] \/ stop'["sub"] # "stop"
      BY <1>4, <1>13
    <2>8. /\ handback'["sub"] # "none" => at'["sub"] \in Past /\ stop'["sub"] # "stop"
          /\ handback'["sub"] = "none" => CountOf(ledger'["sub"], "report") = 0
          /\ handback'["sub"] = "text" => CountOf(ledger'["sub"], "report") = 1
      BY <1>13, <2>1, <2>4, <2>7 DEF IInv, PaidOnce, Session
    <2>9. Reported' /\ PaidOnce'
      BY <2>2, <2>3, <2>4, <2>5, <2>6, <2>8, BlankKept
    <2>. QED  BY <1>10, <1>11, <1>12, <2>9 DEF IInv
  <1>. QED  BY <1>14, <1>15

LEMMA EndingActions ==
  ASSUME IInv, NEW s \in Session, stack # <<>>, s = Running,
         Finish(s) \/ FinishRaising(s) \/ CutFinally(s)
  PROVE  IInv'
  BY EndingPops, PopStep


-----------------------------------------------------------------------------
(* The caller takes the report: "sub" is over, and its log gets the one    *)
(* report row it will ever have.                                           *)
LEMMA FirstReport ==
  ASSUME NEW r \in Seq(RowType), {i \in DOMAIN r : r[i].type = "report"} = {},
         NEW row \in RowType, row.type = "report",
         NEW q, q = Append(r, row)
  PROVE  /\ q \in Seq(RowType) /\ q # <<>>
         /\ {i \in DOMAIN q : q[i].type = "report"} = {Len(q)} /\ q[Len(q)] = row
  <1> DEFINE n == Len(r)
  <1>1. /\ q \in Seq(RowType) /\ q # <<>> /\ Len(q) = n + 1 /\ q[n + 1] = row
        /\ \A i \in 1 .. n : q[i] = r[i]
    BY AppendProperties
  <1>2. n \in Nat /\ DOMAIN r = 1 .. n /\ DOMAIN q = 1 .. (n + 1)
    BY <1>1, LenProperties
  <1> HIDE DEF n
  <1>3. \A i \in 1 .. (n + 1) : q[i].type = "report" <=> i = n + 1
    <2>1. \A i \in 1 .. (n + 1) : i # n + 1 => i \in 1 .. n
      BY <1>2
    <2>. QED  BY <1>1, <1>2, <2>1
  <1>. QED  BY <1>1, <1>2, <1>3

LEMMA HandFacts ==
  ASSUME IInv, NEW s \in Session, at[s] \in Handback
  PROVE  /\ s # "sub" /\ at["sub"] = "done" /\ saved["sub"].there /\ "sub" \in Session
         /\ rows["sub"] \in Seq(RowType) /\ rows["sub"] # <<>> /\ ledger["sub"] \in Ledgers
         /\ Reports("top") = {} /\ Reports("cont") = {} /\ kids["sub"] = <<>> /\ saved["sub"].kids = <<>>
         /\ Unsaved \/ saved["sub"].calls = ledger["sub"]
         /\ Reports("sub") = {} \/ Unsaved => \A t \in Session : kids[t] = <<>> /\ saved[t].kids = <<>>
  <1>1. s # "sub" /\ at["sub"] = "done" /\ saved["sub"].there /\ "sub" \in Session
    BY DEF IInv, Reported, Session
  <1>2. rows["sub"] \in Seq(RowType) /\ rows["sub"] # <<>> /\ ledger["sub"] \in Ledgers
    BY <1>1 DEF IInv, TypeOK, Begun
  <1>3. Unsaved \/ saved["sub"].calls = ledger["sub"]
    BY <1>1 DEF Unsaved
  <1>. QED  BY <1>1, <1>2, <1>3 DEF IInv, Reported

Hands(s, p) ==
    /\ stack # <<>> /\ s = Running /\ at[s] \in Handback /\ at' = [at EXCEPT ![s] = p]
    /\ p \in {"fallback", "resave", "handing", "tool"}
    /\ UNCHANGED <<stack, step, pending, nested, stop, handback>>

(* What it leaves of the subagent, and the type of what it hands up.       *)
Leaves(log, calls) ==
    /\ log \in Seq(RowType) /\ log # <<>> /\ rows' = [rows EXCEPT !["sub"] = log]
    /\ calls \in Ledgers /\ Len(ledger["sub"]) <= Len(calls) /\ ledger' = [ledger EXCEPT !["sub"] = calls]
    /\ kids' \in [Session -> Seq(Ledgers)]
    /\ saved' \in [Session -> [there : BOOLEAN, calls : Ledgers, kids : Seq(Ledgers)]]

LEMMA HandStep ==
  ASSUME IInv, NEW s \in Session, NEW p, Hands(s, p), NEW log, NEW calls, Leaves(log, calls)
  PROVE  /\ TypeOK' /\ Nested' /\ Begun'
         /\ at'[s] = p /\ at'["sub"] = "done" /\ \A t \in Session : at'[t] \in Handback => t = s
         /\ rows'["sub"] = log /\ ledger'["sub"] = calls
         /\ Reports("top")' = {} /\ Reports("cont")' = {}
  <1>1. /\ s # "sub" /\ at["sub"] = "done" /\ "sub" \in Session /\ rows["sub"] # <<>>
        /\ ledger["sub"] \in Ledgers /\ Reports("top") = {} /\ Reports("cont") = {}
    BY HandFacts DEF Hands
  <1>2. /\ at'[s] = p /\ p \in Active
        /\ \A t \in Session : t # s => at'[t] = at[t] /\ at[t] \in Resting
    BY RunningIs DEF Hands, IInv, TypeOK, Active, Handback
  <1>3. /\ rows'["sub"] = log /\ ledger'["sub"] = calls
        /\ \A t \in Session : t # "sub" => rows'[t] = rows[t] /\ ledger'[t] = ledger[t]
        /\ log \in Seq(RowType) /\ log # <<>> /\ calls \in Ledgers /\ Len(ledger["sub"]) <= Len(calls)
    BY <1>1 DEF Leaves, IInv, TypeOK
  <1>4. TypeOK'
    <2>1. \A t \in Session : nested'[t] \subseteq 1 .. Len(ledger'[t])
      <3>1. \A t \in Session : nested'[t] = nested[t] /\ nested[t] \subseteq 1 .. Len(ledger[t])
        BY DEF Hands, IInv, TypeOK
      <3>2. Len(ledger["sub"]) \in Nat /\ Len(calls) \in Nat
        BY <1>1, <1>3, LenProperties DEF Ledgers
      <3>3. \A i \in 1 .. Len(ledger["sub"]) : i \in 1 .. Len(calls)
        BY <1>3, <3>2
      <3>4. nested'["sub"] \subseteq 1 .. Len(calls)
        BY <1>1, <3>1, <3>3
      <3>. QED  BY <1>3, <3>1, <3>4
    <2>2. /\ rows' \in [Session -> Seq(RowType)] /\ ledger' \in [Session -> Ledgers]
          /\ kids' \in [Session -> Seq(Ledgers)]
          /\ saved' \in [Session -> [there : BOOLEAN, calls : Ledgers, kids : Seq(Ledgers)]]
      BY <1>3 DEF Leaves, IInv, TypeOK
    <2>3. at' \in [Session -> Resting \cup Active]
      BY <1>2 DEF Hands, IInv, TypeOK
    <2>. QED  BY <2>1, <2>2, <2>3 DEF Hands, IInv, TypeOK
  <1>5. Nested'
    BY <1>2, SamePlace DEF Hands
  <1>6. Begun'
    <2>1. \A t \in Session : at'[t] \notin {"guard", "handoff", "spawn"}
      BY <1>2 DEF Resting, Hands
    <2>2. \A t \in Session : rows'[t] = <<>> <=> rows[t] = <<>>
      BY <1>1, <1>3
    <2>3. \A t \in Session : at'[t] = "unborn" <=> at[t] = "unborn"
      BY <1>2 DEF Hands, Handback
    <2>4. at'["sub"] # "unborn" /\ step' = step
      BY <1>1, <1>2 DEF Hands
    <2>. QED  BY <2>1, <2>2, <2>3, <2>4 DEF IInv, Begun
  <1>7. Reports("top")' = {} /\ Reports("cont")' = {}
    BY <1>1, <1>3 DEF Reports, Session
  <1>8. \A t \in Session : at'[t] \in Handback => t = s
    BY <1>2 DEF Resting, Handback
  <1>. QED  BY <1>1, <1>2, <1>3, <1>4, <1>5, <1>6, <1>7, <1>8

(* A report row, taken from the subagent or paid for by the caller.        *)
LEMMA ReportRow ==
  ASSUME IInv, NEW s \in Session, NEW p \in {"handing", "resave"}, Hands(s, p),
         at[s] \in {"report", "fallback"}, NEW source \in {"verbatim", "summarizer", "fallback"},
         Emit("sub", <<Row("report", source, "none", {})>>), UNCHANGED <<ledger, kids, saved>>,
         p = "handing" => ~Unsaved /\ (handback["sub"] # "empty" =>
             CountOf(ledger["sub"], "report") = IF source = "verbatim" THEN 0 ELSE 1),
         p = "resave" => Unsaved /\ source = "fallback"
  PROVE  IInv'
  <1> DEFINE row == Row("report", source, "none", {})
             q == Append(rows["sub"], row)
             k == Len(q)
  <1>1. /\ s # "sub" /\ at["sub"] = "done" /\ saved["sub"].there /\ "sub" \in Session
        /\ rows["sub"] \in Seq(RowType) /\ ledger["sub"] \in Ledgers
        /\ kids["sub"] = <<>> /\ saved["sub"].kids = <<>>
        /\ Unsaved \/ saved["sub"].calls = ledger["sub"]
    BY HandFacts DEF Hands
  <1>2. Reports("sub") = {} /\ \A t \in Session : kids[t] = <<>> /\ saved[t].kids = <<>>
    BY HandFacts DEF Hands, IInv, Reported
  <1>3. row \in RowType /\ row.type = "report" /\ row.kind = source
    BY DEF Row, RowType
  <1> HIDE DEF row
  <1>4. rows' = [rows EXCEPT !["sub"] = q]
    <2>1. rows["sub"] \o <<row>> = q
      BY <1>1, <1>3, AppendIsConcat
    <2>. QED  BY <2>1 DEF Emit, row
  <1>5. /\ q \in Seq(RowType) /\ q # <<>> /\ q[k] = row
        /\ {i \in DOMAIN q : q[i].type = "report"} = {k} /\ k \in Nat
    <2>1. {i \in DOMAIN rows["sub"] : rows["sub"][i].type = "report"} = {}
      BY <1>2 DEF Reports
    <2>2. /\ q \in Seq(RowType) /\ q # <<>> /\ q[k] = row
          /\ {i \in DOMAIN q : q[i].type = "report"} = {k}
      BY <1>1, <1>3, <2>1, FirstReport
    <2> HIDE DEF q
    <2>. QED  BY <2>2, LenProperties
  <1> HIDE DEF q, k
  <1>6. /\ TypeOK' /\ Nested' /\ Begun'
        /\ at'[s] = p /\ at'["sub"] = "done" /\ \A t \in Session : at'[t] \in Handback => t = s
        /\ rows'["sub"] = q /\ Reports("top")' = {} /\ Reports("cont")' = {}
    <2>1. ledger' = [ledger EXCEPT !["sub"] = ledger["sub"]]
      BY DEF IInv, TypeOK
    <2>2. Len(ledger["sub"]) <= Len(ledger["sub"])
      BY <1>1, LenProperties DEF Ledgers
    <2>3. /\ kids' \in [Session -> Seq(Ledgers)]
          /\ saved' \in [Session -> [there : BOOLEAN, calls : Ledgers, kids : Seq(Ledgers)]]
      BY DEF IInv, TypeOK
    <2>4. Leaves(q, ledger["sub"])
      BY <1>1, <1>4, <1>5, <2>1, <2>2, <2>3 DEF Leaves
    <2>. QED  BY <2>4, HandStep
  <1>7. Reports("sub")' = {k} /\ Source("sub")' = source
    <2>1. Reports("sub")' = {k}
      BY <1>5, <1>6 DEF Reports
    <2>2. Source("sub")' = q[CHOOSE i \in {k} : \A j \in {k} : i <= j].kind
      BY <1>6, <2>1 DEF Source
    <2>3. (CHOOSE i \in {k} : \A j \in {k} : i <= j) = k
      BY <1>5
    <2>. QED  BY <1>3, <1>5, <2>1, <2>2, <2>3
  <1>8. (Unsaved' <=> Unsaved) /\ kids' = kids /\ saved' = saved /\ ledger' = ledger
    BY DEF Unsaved
  <1>9. \A t \in Session : at'[t] \in Handback => t = s /\ at'[t] = p
    BY <1>6
  <1>10. \A t \in Session : DOMAIN kids[t] = {} /\ DOMAIN saved[t].kids = {}
    BY <1>2
  <1>11. Reported'
    <2>1. \A t \in Session : at'[t] = "handing" => t = s /\ ~Unsaved
      BY <1>9 DEF Handback
    <2>2. Unsaved => ledger["sub"] = Append(saved["sub"].calls, "report")
      BY DEF IInv, Reported
    <2>3. \A t \in Session : at'[t] \notin {"report", "fallback"}
      BY <1>9 DEF Handback
    <2>. QED  BY <1>1, <1>2, <1>6, <1>7, <1>8, <1>9, <1>10, <2>1, <2>2, <2>3 DEF Reported
  <1>12. PaidOnce'
    <2>1. handback' = handback /\ stop' = stop /\ at'["sub"] = at["sub"]
      BY <1>1, <1>6 DEF Hands
    <2>2. \A t \in Session : at'[t] # "fallback" /\ (at'[t] = "resave" => p = "resave")
      BY <1>9 DEF Handback
    <2>3. handback["sub"] # "empty" /\ ~Unsaved' => CheckPasses("sub")'
      <3>1. ASSUME handback["sub"] # "empty", ~Unsaved
            PROVE  CountOf(saved["sub"].calls, "report") = IF source = "verbatim" THEN 0 ELSE 1
        BY <1>1, <3>1
      <3>. QED  BY <1>7, <1>8, <3>1 DEF CheckPasses
    <2>. QED  BY <1>7, <1>8, <2>1, <2>2, <2>3 DEF IInv, PaidOnce
  <1>. QED  BY <1>6, <1>11, <1>12 DEF IInv

LEMMA GivenActions ==
  ASSUME IInv, NEW s \in Session, stack # <<>>, s = Running, VerbatimReport(s) \/ SummarizerReport(s)
  PROVE  IInv'
  <1>1. at[s] = "report"
    BY DEF VerbatimReport, SummarizerReport, GivenReport
  <1>2. Reports("sub") = {} /\ ~Unsaved /\ at[s] \in Handback
    BY <1>1 DEF IInv, Reported, Handback
  <1>3. ASSUME NEW source, GivenReport(s, source)
        PROVE  /\ Hands(s, "handing") /\ Emit("sub", <<Row("report", source, "none", {})>>)
               /\ UNCHANGED <<ledger, kids, saved>>
    BY <1>2, <1>3 DEF GivenReport, Goto, Hands
  <1>4. CASE VerbatimReport(s)
    <2>1. handback["sub"] = "none"
      BY <1>4 DEF VerbatimReport, IInv, PaidOnce
    <2>2. CountOf(ledger["sub"], "report") = 0
      BY <1>2, <2>1 DEF IInv, PaidOnce
    <2>3. "verbatim" \in {"verbatim", "summarizer", "fallback"} /\ GivenReport(s, "verbatim")
      BY <1>4 DEF VerbatimReport
    <2>. QED  BY <1>1, <1>2, <1>3, <2>2, <2>3, ReportRow
  <1>5. CASE SummarizerReport(s)
    <2>1. CountOf(ledger["sub"], "report") = 1
      BY <1>2, <1>5 DEF SummarizerReport, IInv, PaidOnce
    <2>2. "summarizer" \in {"verbatim", "summarizer", "fallback"} /\ GivenReport(s, "summarizer")
      BY <1>5 DEF SummarizerReport
    <2>3. "summarizer" # "verbatim"
      OBVIOUS
    <2>. QED  BY <1>1, <1>2, <1>3, <2>1, <2>2, <2>3, ReportRow
  <1>. QED  BY <1>4, <1>5

(* The report that the caller pays for: its call, its row, and the second  *)
(* save of the subagent.                                                   *)
LEMMA FallbackActions ==
  ASSUME IInv, NEW s \in Session, stack # <<>>, s = Running, FallbackCall(s) \/ FallbackRow(s) \/ Resave(s)
  PROVE  IInv'
  <1>1. at[s] \in Handback
    BY DEF FallbackCall, FallbackRow, Resave, Handback
  <1>2. /\ s # "sub" /\ at["sub"] = "done" /\ saved["sub"].there /\ "sub" \in Session
        /\ rows["sub"] \in Seq(RowType) /\ rows["sub"] # <<>> /\ ledger["sub"] \in Ledgers
        /\ kids["sub"] = <<>> /\ saved["sub"].kids = <<>>
        /\ Unsaved \/ saved["sub"].calls = ledger["sub"]
        /\ Reports("sub") = {} \/ Unsaved => \A t \in Session : kids[t] = <<>> /\ saved[t].kids = <<>>
    BY <1>1, HandFacts
  <1>3. /\ kids \in [Session -> Seq(Ledgers)]
        /\ saved \in [Session -> [there : BOOLEAN, calls : Ledgers, kids : Seq(Ledgers)]]
        /\ handback["sub"] \in {"none", "empty", "text"}
    BY <1>2 DEF IInv, TypeOK
  <1>4. /\ Unsaved => ledger["sub"] = Append(saved["sub"].calls, "report")
        /\ handback["sub"] # "none" => at["sub"] \in {"leaving", "raising", "done", "died"} /\ stop["sub"] # "stop"
    BY DEF IInv, Reported, PaidOnce
  <1>5. CASE FallbackCall(s)
    <2> DEFINE calls == Append(ledger["sub"], "report")
               row == Row("llm_call", "report", "agent", {Len(calls)})
               log == rows["sub"] \o <<row>>
    <2>1. /\ at[s] = "report" /\ handback["sub"] # "text" /\ at' = [at EXCEPT ![s] = "fallback"]
          /\ ledger' = [ledger EXCEPT !["sub"] = calls] /\ rows' = [rows EXCEPT !["sub"] = log]
          /\ UNCHANGED <<stack, step, pending, nested, kids, saved, stop, handback>>
      BY <1>5 DEF FallbackCall, Goto, Emit
    <2>2. /\ calls \in Ledgers /\ Len(calls) = Len(ledger["sub"]) + 1
          /\ CountOf(calls, "report") = CountOf(ledger["sub"], "report") + 1
          /\ Len(ledger["sub"]) \in Nat /\ CountOf(ledger["sub"], "report") \in Nat
      BY <1>2, CountAppend, LenProperties DEF CallKind, Ledgers
    <2>3. Reports("sub") = {} /\ ~Unsaved /\ saved["sub"].calls = ledger["sub"]
      BY <1>2, <2>1 DEF IInv, Reported
    <2>4. row \in RowType /\ row.type # "report"
      BY <2>2 DEF Row, RowType, CallKind
    <2> HIDE DEF row
    <2>5. /\ log \in Seq(RowType) /\ log # <<>>
          /\ {i \in DOMAIN log : log[i].type = "report"} = {}
      <3> DEFINE one == <<row>>
      <3>1. one \in Seq(RowType) /\ \A i \in DOMAIN one : one[i].type # "report"
        BY <2>4, OneRow
      <3> HIDE DEF one
      <3>2. /\ rows["sub"] \o one \in Seq(RowType) /\ rows["sub"] \o one # <<>>
            /\ {i \in DOMAIN (rows["sub"] \o one) : (rows["sub"] \o one)[i].type = "report"}
                  = {i \in DOMAIN rows["sub"] : rows["sub"][i].type = "report"}
        BY <1>2, <3>1, RowsGrow
      <3>. QED  BY <2>3, <3>2 DEF Reports, one
    <2> HIDE DEF log
    <2>6. Hands(s, "fallback")
      BY <1>1, <2>1 DEF Hands
    <2>7. Len(ledger["sub"]) <= Len(calls) /\ calls # ledger["sub"]
      BY <2>2
    <2> HIDE DEF calls
    <2>8. /\ TypeOK' /\ Nested' /\ Begun'
          /\ at'[s] = "fallback" /\ at'["sub"] = "done" /\ \A t \in Session : at'[t] \in Handback => t = s
          /\ rows'["sub"] = log /\ ledger'["sub"] = calls /\ Reports("top")' = {} /\ Reports("cont")' = {}
      <3>1. Leaves(log, calls)
        BY <1>3, <2>1, <2>2, <2>5, <2>7 DEF Leaves
      <3>. QED  BY <2>6, <3>1, HandStep
    <2>9. Reports("sub")' = {} /\ saved' = saved /\ kids' = kids
      BY <2>1, <2>5, <2>8 DEF Reports
    <2>10. Unsaved' /\ ledger'["sub"] = Append(saved'["sub"].calls, "report")
      BY <1>2, <2>3, <2>7, <2>8, <2>9 DEF Unsaved, calls
    <2>11. \A t \in Session : at'[t] \notin {"report", "resave", "handing"}
      BY <2>8 DEF Handback
    <2>12. \A t \in Session : kids[t] = <<>> /\ saved[t].kids = <<>> /\ DOMAIN kids[t] = {} /\ DOMAIN saved[t].kids = {}
      BY <1>2, <2>3
    <2>13. Reported'
      BY <1>2, <2>8, <2>9, <2>10, <2>11, <2>12 DEF Reported
    <2>14. handback["sub"] = "none" => CountOf(calls, "report") = 1
      BY <2>2, <2>3 DEF IInv, PaidOnce
    <2>15. PaidOnce'
      BY <1>2, <1>4, <2>1, <2>8, <2>10, <2>11, <2>14 DEF PaidOnce
    <2>. QED  BY <2>8, <2>13, <2>15 DEF IInv
  <1>6. CASE FallbackRow(s)
    <2>1. /\ at[s] = "fallback" /\ Hands(s, "resave")
          /\ Emit("sub", <<Row("report", "fallback", "none", {})>>) /\ UNCHANGED <<ledger, kids, saved>>
      BY <1>1, <1>6 DEF FallbackRow, Goto, Hands
    <2>2. Unsaved /\ "fallback" \in {"verbatim", "summarizer", "fallback"}
      BY <2>1 DEF IInv, PaidOnce
    <2>. QED  BY <2>1, <2>2, ReportRow
  <1>7. CASE Resave(s)
    <2> DEFINE new == Rollup("sub", ledger["sub"])
    <2>1. /\ at[s] = "resave" /\ Hands(s, "handing") /\ saved' = [saved EXCEPT !["sub"] = new]
          /\ UNCHANGED <<ledger, rows, kids>>
      BY <1>1, <1>7 DEF Resave, Goto, Hands
    <2>2. Reports("sub") # {} /\ Unsaved /\ Source("sub") = "fallback" /\ handback["sub"] # "text"
      BY <2>1 DEF IInv, Reported, PaidOnce
    <2>3. /\ new \in [there : BOOLEAN, calls : Ledgers, kids : Seq(Ledgers)]
          /\ new.there /\ new.calls = ledger["sub"] /\ new.kids = <<>>
      <3>1. <<>> \in Seq(Ledgers)
        OBVIOUS
      <3>. QED  BY <1>2, <3>1 DEF Rollup
    <2> HIDE DEF new
    <2>4. /\ saved' \in [Session -> [there : BOOLEAN, calls : Ledgers, kids : Seq(Ledgers)]]
          /\ saved'["sub"] = new /\ \A t \in Session : t # "sub" => saved'[t] = saved[t]
      BY <1>2, <1>3, <2>1, <2>3
    <2>5. /\ rows' = [rows EXCEPT !["sub"] = rows["sub"]] /\ ledger' = [ledger EXCEPT !["sub"] = ledger["sub"]]
          /\ kids' \in [Session -> Seq(Ledgers)] /\ Len(ledger["sub"]) <= Len(ledger["sub"])
      <3>1. Len(ledger["sub"]) \in Nat
        BY <1>2, LenProperties DEF Ledgers
      <3>. QED  BY <1>3, <2>1, <3>1 DEF IInv, TypeOK
    <2>6. /\ TypeOK' /\ Nested' /\ Begun'
          /\ at'[s] = "handing" /\ at'["sub"] = "done" /\ \A t \in Session : at'[t] \in Handback => t = s
          /\ Reports("top")' = {} /\ Reports("cont")' = {}
      <3>1. Leaves(rows["sub"], ledger["sub"])
        BY <1>2, <2>4, <2>5 DEF Leaves
      <3>. QED  BY <2>1, <3>1, HandStep
    <2>7. /\ Reports("sub")' = Reports("sub") /\ Source("sub")' = Source("sub") /\ ~Unsaved'
          /\ ledger' = ledger /\ kids' = kids
      BY <2>1, <2>3, <2>4 DEF Reports, Source, Unsaved
    <2>8. \A t \in Session : at'[t] \notin {"report", "fallback", "resave"} /\ (at'[t] = "handing" => t = s)
      BY <2>6 DEF Handback
    <2>9. \A t \in Session : /\ kids'[t] = <<>> /\ saved'[t].kids = <<>>
                             /\ DOMAIN kids'[t] = {} /\ DOMAIN saved'[t].kids = {}
      <3>1. \A t \in Session : kids[t] = <<>> /\ saved[t].kids = <<>>
        BY <1>2, <2>2
      <3>2. \A t \in Session : kids'[t] = <<>> /\ saved'[t].kids = <<>>
        BY <2>3, <2>4, <2>7, <3>1
      <3>3. DOMAIN <<>> = {}
        OBVIOUS
      <3>. QED  BY <3>2, <3>3
    <2>10. Reported'
      BY <1>2, <2>2, <2>3, <2>4, <2>6, <2>7, <2>8, <2>9 DEF Reported
    <2>11. handback["sub"] # "empty" => CheckPasses("sub")'
      <3>1. handback["sub"] # "empty" => CountOf(ledger["sub"], "report") = 1
        BY <1>3, <2>2 DEF IInv, PaidOnce
      <3>2. Source("sub")' # "verbatim" /\ saved'["sub"].calls = ledger["sub"]
        BY <2>2, <2>3, <2>4, <2>7
      <3>. QED  BY <3>1, <3>2 DEF CheckPasses
    <2>12. handback' = handback /\ stop' = stop
      BY <2>1 DEF Hands
    <2>13. PaidOnce'
      BY <1>2, <1>4, <2>2, <2>6, <2>7, <2>8, <2>11, <2>12 DEF PaidOnce
    <2>. QED  BY <2>6, <2>10, <2>13 DEF IInv
  <1>. QED  BY <1>5, <1>6, <1>7

(* Its usage is the caller's as it is saved.                               *)
LEMMA HandUpActions ==
  ASSUME IInv, NEW s \in Session, stack # <<>>, s = Running, HandUp(s)
  PROVE  IInv'
  <1> DEFINE more == Append(kids[s], ledger["sub"])
  <1>1. /\ at[s] = "handing" /\ at[s] \in Handback /\ Hands(s, "tool")
        /\ kids' = [kids EXCEPT ![s] = more] /\ UNCHANGED <<ledger, rows, saved>>
    BY DEF HandUp, Goto, Handed, Hands, Handback
  <1>2. /\ s # "sub" /\ at["sub"] = "done" /\ saved["sub"].there /\ "sub" \in Session
        /\ rows["sub"] \in Seq(RowType) /\ rows["sub"] # <<>> /\ ledger["sub"] \in Ledgers
        /\ kids["sub"] = <<>> /\ saved["sub"].kids = <<>>
        /\ Unsaved \/ saved["sub"].calls = ledger["sub"]
    BY <1>1, HandFacts
  <1>3. Reports("sub") # {} /\ ~Unsaved /\ saved["sub"].calls = ledger["sub"]
    BY <1>1, <1>2 DEF IInv, Reported
  <1>4. /\ kids \in [Session -> Seq(Ledgers)] /\ kids[s] \in Seq(Ledgers)
        /\ saved \in [Session -> [there : BOOLEAN, calls : Ledgers, kids : Seq(Ledgers)]]
        /\ \A t \in Session : kids[t] # <<>> \/ saved[t].kids # <<>> => t # "sub"
        /\ \A n \in DOMAIN kids[s] : kids[s][n] = saved["sub"].calls
    BY DEF IInv, TypeOK, Reported
  <1>5. more \in Seq(Ledgers) /\ \A n \in DOMAIN more : more[n] = saved["sub"].calls
    <2> DEFINE old == kids[s]
               k == Len(old)
               calls == ledger["sub"]
    <2>1. old \in Seq(Ledgers) /\ calls \in Ledgers /\ calls = saved["sub"].calls
      BY <1>2, <1>3, <1>4
    <2>2. \A n \in DOMAIN old : old[n] = calls
      BY <1>4, <2>1
    <2> HIDE DEF old, calls
    <2>3. /\ Append(old, calls) \in Seq(Ledgers) /\ Len(Append(old, calls)) = k + 1
          /\ Append(old, calls)[k + 1] = calls /\ \A i \in 1 .. k : Append(old, calls)[i] = old[i]
      BY <2>1, AppendProperties
    <2>4. k \in Nat /\ DOMAIN old = 1 .. k /\ DOMAIN Append(old, calls) = 1 .. (k + 1)
      BY <2>1, <2>3, LenProperties
    <2> HIDE DEF k
    <2>5. \A n \in 1 .. (k + 1) : Append(old, calls)[n] = calls
      <3>1. \A n \in 1 .. (k + 1) : n = k + 1 \/ n \in 1 .. k
        BY <2>4
      <3>. QED  BY <2>2, <2>3, <2>4, <3>1
    <2>. QED  BY <2>1, <2>3, <2>4, <2>5 DEF old, calls
  <1> HIDE DEF more
  <1>6. /\ kids' \in [Session -> Seq(Ledgers)] /\ kids'[s] = more
        /\ \A t \in Session : t # s => kids'[t] = kids[t]
    BY <1>1, <1>4, <1>5
  <1>7. /\ TypeOK' /\ Nested' /\ Begun'
        /\ at'[s] = "tool" /\ at'["sub"] = "done" /\ \A t \in Session : at'[t] \in Handback => t = s
        /\ Reports("top")' = {} /\ Reports("cont")' = {}
    <2>1. rows' = [rows EXCEPT !["sub"] = rows["sub"]] /\ ledger' = [ledger EXCEPT !["sub"] = ledger["sub"]]
      BY <1>1 DEF IInv, TypeOK
    <2>2. Len(ledger["sub"]) <= Len(ledger["sub"])
      BY <1>2, LenProperties DEF Ledgers
    <2>3. saved' \in [Session -> [there : BOOLEAN, calls : Ledgers, kids : Seq(Ledgers)]]
      BY <1>1, <1>4
    <2>4. Leaves(rows["sub"], ledger["sub"])
      BY <1>2, <1>6, <2>1, <2>2, <2>3 DEF Leaves
    <2>. QED  BY <1>1, <2>4, HandStep
  <1>8. /\ Reports("sub")' = Reports("sub") /\ (CheckPasses("sub")' <=> CheckPasses("sub"))
        /\ (Unsaved' <=> Unsaved) /\ ledger' = ledger /\ saved' = saved
    BY <1>1 DEF Reports, CheckPasses, Source, Unsaved
  <1>9. \A t \in Session : at'[t] \notin Handback
    BY <1>7 DEF Handback
  <1>10. \A t \in Session : at'[t] \notin {"report", "fallback", "resave", "handing"}
    BY <1>9 DEF Handback
  <1>11. \A t \in Session : \A n \in DOMAIN kids'[t] : kids'[t][n] = saved["sub"].calls
    <2>1. \A t \in Session : t # s => \A n \in DOMAIN kids'[t] : kids'[t][n] = saved["sub"].calls
      <3>1. \A t \in Session : \A n \in DOMAIN kids[t] : kids[t][n] = saved["sub"].calls
        BY DEF IInv, Reported
      <3>2. ASSUME NEW t \in Session, t # s
            PROVE  \A n \in DOMAIN kids'[t] : kids'[t][n] = saved["sub"].calls
        <4>1. kids'[t] = kids[t]
          BY <1>6, <3>2
        <4>. QED  BY <3>1, <4>1
      <3>. QED  BY <3>2
    <2>2. \A n \in DOMAIN kids'[s] : kids'[s][n] = saved["sub"].calls
      BY <1>5, <1>6
    <2>. QED  BY <2>1, <2>2
  <1>12. \A t \in Session : kids'[t] # <<>> \/ saved[t].kids # <<>> => t # "sub"
    BY <1>2, <1>4, <1>6
  <1>13. Reported'
    <2>1. kids'["sub"] = <<>>
      BY <1>2, <1>6
    <2>2. \A t \in Session : \A n \in DOMAIN saved[t].kids : saved[t].kids[n] = saved["sub"].calls
      BY DEF IInv, Reported
    <2>. QED  BY <1>2, <1>3, <1>7, <1>8, <1>9, <1>10, <1>11, <1>12, <2>1, <2>2 DEF Reported
  <1>14. handback' = handback /\ stop' = stop
    BY <1>1 DEF Hands
  <1>15. PaidOnce'
    BY <1>2, <1>3, <1>7, <1>8, <1>10, <1>14 DEF IInv, PaidOnce
  <1>. QED  BY <1>7, <1>13, <1>15 DEF IInv

-----------------------------------------------------------------------------
LEMMA InitInv ==
  ASSUME Init
  PROVE  IInv
  <1>1. TypeOK
    <2>1. <<"top">> \in Seq(Session) /\ <<>> \in Ledgers /\ <<>> \in Seq(RowType) /\ <<>> \in Seq(Ledgers)
      BY DEF Session, Ledgers
    <2>2. at \in [Session -> Resting \cup Active]
      BY DEF Init, Resting, Active
    <2>3. rows \in [Session -> Seq(RowType)]
      BY <2>1, StartedIs DEF Init
    <2>4. saved \in [Session -> [there : BOOLEAN, calls : Ledgers, kids : Seq(Ledgers)]]
      BY <2>1 DEF Init, NotSaved
    <2>5. \A s \in Session : nested[s] \subseteq 1 .. Len(ledger[s])
      BY DEF Init
    <2>6. step \in [Session -> 0 .. MaxSteps]
      BY DEF Init, FirstStep
    <2>. QED  BY <2>1, <2>2, <2>3, <2>4, <2>5, <2>6 DEF Init, TypeOK, Reasons
  <1>2. Nested
    <2>1. DOMAIN stack = {1} /\ stack[1] = "top" /\ stack # <<>> /\ Running = "top"
      BY DEF Init, Running
    <2>2. at["top"] \in {"guard", "leaving"} /\ \A s \in Session : s # "top" => at[s] = "unborn"
      BY DEF Init, Session
    <2>. QED  BY <2>1, <2>2 DEF Nested, Active, Handback
  <1>3. Begun
    <2>1. \A s \in Session : rows[s] = <<>> <=> s # "top"
      BY StartedIs DEF Init, Session
    <2>2. \A s \in Session : at[s] \in {"unborn", "guard", "leaving"} /\ (at[s] = "unborn" <=> s # "top")
      BY DEF Init
    <2>3. \A s \in Session : (s # "top" => step[s] = 0) /\ (at[s] = "guard" => step[s] < MaxSteps)
      BY DEF Init, FirstStep
    <2>4. ledger["sub"] = <<>>
      BY DEF Init, Session
    <2>. QED  BY <2>1, <2>2, <2>3, <2>4 DEF Begun
  <1>4. \A s \in Session : Reports(s) = {}
    <2>1. \A s \in Session : rows[s] = Started \/ rows[s] = <<>>
      BY DEF Init
    <2>2. {i \in DOMAIN <<>> : <<>>[i].type = "report"} = {}
      OBVIOUS
    <2>. QED  BY <2>1, <2>2, StartedIs DEF Reports
  <1>5. /\ \A s \in Session : /\ at[s] \in {"unborn", "guard", "leaving"} /\ kids[s] = <<>>
                              /\ ~saved[s].there /\ saved[s].kids = <<>> /\ handback[s] = "none"
                              /\ DOMAIN kids[s] = {} /\ DOMAIN saved[s].kids = {}
        /\ at["sub"] = "unborn" /\ ledger["sub"] = <<>>
    BY DEF Init, NotSaved, Session
  <1>6. Reported /\ PaidOnce
    <2>1. \A s \in Session : at[s] \notin {"report", "fallback", "resave", "handing"}
      BY <1>5
    <2>2. "sub" \in Session /\ "top" \in Session /\ "cont" \in Session
      BY DEF Session
    <2>3. ~Unsaved
      BY <1>5, <2>2 DEF Unsaved
    <2>4. CountOf(ledger["sub"], "report") = 0 /\ CheckPasses("sub")
      BY <1>4, <1>5, <2>2, CountsNone DEF CheckPasses
    <2>5. Reported
      BY <1>4, <1>5, <2>1, <2>2, <2>3 DEF Reported, Handback
    <2>6. PaidOnce
      BY <1>4, <1>5, <2>1, <2>2, <2>3, <2>4 DEF PaidOnce
    <2>. QED  BY <2>5, <2>6
  <1>. QED  BY <1>1, <1>2, <1>3, <1>6 DEF IInv

LEMMA StepInv ==
  ASSUME IInv, [Next]_vars
  PROVE  IInv'
  <1>1. CASE UNCHANGED vars
    <2>1. \A s \in Session : Reports(s)' = Reports(s)
      BY <1>1 DEF vars, Reports
    <2>2. /\ CheckPasses("sub")' <=> CheckPasses("sub")
          /\ Unsaved' <=> Unsaved
          /\ Source("sub")' = Source("sub")
      BY <1>1 DEF vars, CheckPasses, Source, Reports, Unsaved
    <2>3. TypeOK' /\ Nested' /\ Begun'
      <3>1. TypeOK'
        BY <1>1 DEF vars, IInv, TypeOK
      <3>2. Nested'
        BY <1>1 DEF vars, IInv, Nested, Running
      <3>3. Begun'
        BY <1>1 DEF vars, IInv, Begun
      <3>. QED  BY <3>1, <3>2, <3>3
    <2>4. Reported'
      BY <1>1, <2>1, <2>2 DEF vars, IInv, Reported, Session
    <2>5. PaidOnce'
      BY <1>1, <2>1, <2>2 DEF vars, IInv, PaidOnce, Session
    <2>. QED  BY <2>3, <2>4, <2>5 DEF IInv
  <1>2. CASE Next
    <2> DEFINE s == Running
    <2>1. stack # <<>> /\ s \in Session /\ Advance(s)
      BY <1>2, RunningIs DEF Next
    <2> HIDE DEF s
    <2>2. s = Running
      BY DEF s
    <2>3. CASE GuardStops(s) \/ GuardResets(s) \/ HandoffAgain(s) \/ CallLLM(s) \/ AskArtifact(s)
      BY <2>1, <2>2, <2>3, GuardActions
    <2>4. CASE SpawnContinuation(s) \/ BeginTool(s, "delegate")
      BY <2>1, <2>2, <2>4, PushActions
    <2>5. CASE EndTool(s) \/ BeginTool(s, "query")
      BY <2>1, <2>2, <2>5, ToolActions
    <2>6. CASE Finalize(s) \/ CutoffReport(s)
      BY <2>1, <2>2, <2>6, EndActions
    <2>7. CASE LLMFails(s) \/ Interrupt(s) \/ RaiseError(s) \/ FallbackFails(s) \/ HandbackErrors(s)
      BY <2>1, <2>2, <2>7, FailActions
    <2>8. CASE Finish(s) \/ FinishRaising(s) \/ CutFinally(s)
      BY <2>1, <2>2, <2>8, EndingActions
    <2>9. CASE VerbatimReport(s) \/ SummarizerReport(s)
      BY <2>1, <2>2, <2>9, GivenActions
    <2>10. CASE FallbackCall(s) \/ FallbackRow(s) \/ Resave(s)
      BY <2>1, <2>2, <2>10, FallbackActions
    <2>11. CASE HandUp(s)
      BY <2>1, <2>2, <2>11, HandUpActions
    <2>. QED  BY <2>1, <2>3, <2>4, <2>5, <2>6, <2>7, <2>8, <2>9, <2>10, <2>11 DEF Advance
  <1>. QED  BY <1>1, <1>2

(* Sessions nest, only what has begun has done anything, and a subagent's  *)
(* report and usage are handed back in order: its row before its usage,    *)
(* which is what its session_data.json holds by then, however far a        *)
(* session gets in it and whatever ends it.                                *)
THEOREM Inductive == Spec => []IInv
  <1>1. Init => IInv
    BY InitInv
  <1>2. IInv /\ [Next]_vars => IInv'
    BY StepInv
  <1>. QED  BY <1>1, <1>2, PTL DEF Spec

(* sumcheck.py's check (c) passes on every session that is saved with all  *)
(* its calls and whose hand-back is not empty, and a parent's copy of its  *)
(* subagent's usage is what the subagent's own session_data.json holds:    *)
(* for any budget, any step the run is resumed at, any number of tools and *)
(* queries, and any of the ways a session ends.  A run cut between the     *)
(* call of a fallback report and the second save is excluded.              *)
THEOREM UsageHandedOn == Spec => []SumCheckPasses
  <1>1. IInv => SumCheckPasses
    <2>1. ASSUME IInv PROVE SumCheckPasses
      <3>1. CheckPasses("top") /\ CheckPasses("cont")
        BY <2>1 DEF IInv, Reported, CheckPasses
      <3>2. handback["sub"] # "empty" /\ saved["sub"].calls = ledger["sub"] => CheckPasses("sub")
        BY <2>1 DEF IInv, PaidOnce, Unsaved
      <3>3. \A s \in Session : \A n \in DOMAIN saved[s].kids : saved[s].kids[n] = saved["sub"].calls
        BY <2>1 DEF IInv, Reported
      <3>. QED  BY <3>1, <3>2, <3>3 DEF SumCheckPasses, Session
    <2>. QED  BY <2>1
  <1>. QED  BY <1>1, Inductive, PTL

HIDE TraceAssumption
-----------------------------------------------------------------------------
(* The fold over the rows is a recursive function: it exists, and the rows *)
(* read so far determine it.                                               *)
Reading(s, log, inner, f) ==
    [n \in 0 .. Len(log) |-> IF n = 0 THEN NoGraph(s) ELSE Read(f[n - 1], log[n], inner)]

(* A set of numbers has a least one.                                       *)
LEMMA LeastIn ==
  ASSUME NEW S, S \subseteq Nat, S # {}
  PROVE  \E n \in S : \A m \in S : n <= m
  <1> DEFINE R == OpToRel(<, Nat)
  <1>1. PICK n \in S : \A m \in S : ~(<<m, n>> \in R)
    BY WFMin, NatLessThanWellFounded, Zenon
  <1>2. ASSUME NEW m \in S, m < n PROVE <<m, n>> \in R
    <2>1. m \in Nat /\ n \in Nat
      OBVIOUS
    <2>. QED  BY <1>2, <2>1, Zenon DEF OpToRel
  <1> HIDE DEF R
  <1>3. \A m \in S : ~(m < n)
    BY <1>1, <1>2
  <1>. QED  BY <1>3

Solves(s, log, inner, f) ==
    /\ f = [n \in 0 .. Len(log) |-> f[n]] /\ f[0] = NoGraph(s)
    /\ \A n \in 1 .. Len(log) : f[n] = Read(f[n - 1], log[n], inner)

(* The fold's definition, row by row.                                      *)
LEMMA ReadingIs ==
  ASSUME NEW s, NEW log \in Seq(RowType), NEW inner, NEW f
  PROVE  f = Reading(s, log, inner, f) <=> Solves(s, log, inner, f)
  <1> DEFINE N == Len(log)
             value(n) == IF n = 0 THEN NoGraph(s) ELSE Read(f[n - 1], log[n], inner)
  <1>1. N \in Nat
    BY LenProperties
  <1> HIDE DEF N
  <1>2. /\ 0 \in 0 .. N /\ \A n \in 1 .. N : n \in 0 .. N /\ n # 0
        /\ \A n \in 0 .. N : n = 0 \/ n \in 1 .. N
    BY <1>1
  <1>3. value(0) = NoGraph(s) /\ \A n \in 1 .. N : value(n) = Read(f[n - 1], log[n], inner)
    BY <1>2
  <1> HIDE DEF value
  <1>4. ASSUME f = [n \in 0 .. N |-> value(n)]
        PROVE  /\ f = [n \in 0 .. N |-> f[n]] /\ f[0] = value(0)
               /\ \A n \in 1 .. N : f[n] = value(n)
    <2>1. \A n \in 0 .. N : f[n] = value(n)
      BY <1>4, Zenon
    <2>. QED  BY <1>2, <1>4, <2>1
  <1>5. ASSUME f = [n \in 0 .. N |-> f[n]], f[0] = value(0),
               \A n \in 1 .. N : f[n] = value(n)
        PROVE  f = [n \in 0 .. N |-> value(n)]
    <2>1. \A n \in 0 .. N : f[n] = value(n)
      BY <1>2, <1>5
    <2>. QED  BY <1>5, <2>1
  <1>6. f = [n \in 0 .. N |-> value(n)]
           <=> /\ f = [n \in 0 .. N |-> f[n]] /\ f[0] = NoGraph(s)
               /\ \A n \in 1 .. N : f[n] = Read(f[n - 1], log[n], inner)
    BY <1>3, <1>4, <1>5
  <1>. QED  BY <1>6 DEF Reading, Solves, N, value

(* There is such a function: else take the least row that has none.        *)
LEMMA ReadingExists ==
  ASSUME NEW s, NEW log \in Seq(RowType), NEW inner
  PROVE  \E f : f = Reading(s, log, inner, f)
  <1> DEFINE N == Len(log)
             Upto(f, m) == /\ f = [n \in 0 .. m |-> f[n]] /\ f[0] = NoGraph(s)
                             /\ \A n \in 1 .. m : f[n] = Read(f[n - 1], log[n], inner)
             Bad == {m \in 0 .. N : ~ \E f : Upto(f, m)}
  <1>1. N \in Nat
    BY LenProperties
  <1> HIDE DEF N
  <1>2. 0 \notin Bad
    <2> DEFINE h == [n \in 0 .. 0 |-> NoGraph(s)]
    <2>1. h = [n \in 0 .. 0 |-> h[n]] /\ h[0] = NoGraph(s)
      OBVIOUS
    <2> HIDE DEF h
    <2>2. Upto(h, 0)
      BY <2>1
    <2>. QED  BY <2>2
  <1>3. ASSUME NEW m \in 0 .. N, m # 0, m - 1 \notin Bad PROVE m \notin Bad
    <2>1. m - 1 \in 0 .. N
      BY <1>1, <1>3
    <2>2. PICK f : Upto(f, m - 1)
      BY <1>3, <2>1
    <2> DEFINE v == Read(f[m - 1], log[m], inner)
               h == [k \in 0 .. m |-> IF k = m THEN v ELSE f[k]]
    <2> HIDE DEF v
    <2>3. h = [k \in 0 .. m |-> h[k]] /\ h[m] = v /\ \A k \in 0 .. (m - 1) : h[k] = f[k]
      BY <1>1
    <2>4. 0 \in 0 .. (m - 1)
      BY <1>3
    <2> HIDE DEF h
    <2>5. ASSUME NEW k \in 1 .. m PROVE h[k] = Read(h[k - 1], log[k], inner)
      <3>1. k - 1 \in 0 .. (m - 1)
        BY <1>1
      <3>2. h[k - 1] = f[k - 1]
        BY <2>3, <3>1
      <3>3. CASE k = m
        BY <2>3, <3>2, <3>3 DEF v
      <3>4. CASE k # m
        <4>1. k \in 1 .. (m - 1) /\ k \in 0 .. (m - 1)
          BY <1>1, <3>4
        <4>. QED  BY <2>2, <2>3, <3>2, <4>1
      <3>. QED  BY <3>3, <3>4
    <2>6. h[0] = NoGraph(s)
      BY <2>2, <2>3, <2>4
    <2>7. Upto(h, m)
      BY <2>3, <2>5, <2>6
    <2> HIDE DEF Upto
    <2>. QED  BY <2>7
  <1>4. Bad = {}
    <2>1. SUFFICES ASSUME Bad # {} PROVE FALSE
      OBVIOUS
    <2>2. Bad \subseteq Nat /\ Bad \subseteq 0 .. N
      OBVIOUS
    <2> HIDE DEF Bad
    <2>3. PICK m \in Bad : \A k \in Bad : m <= k
      BY <2>1, <2>2, LeastIn
    <2>4. m \in 0 .. N /\ m # 0 /\ m - 1 \notin Bad
      BY <1>2, <2>2, <2>3
    <2>. QED  BY <1>3, <2>3, <2>4
  <1>5. N \in 0 .. N
    BY <1>1
  <1>6. PICK f : Upto(f, N)
    <2>1. N \notin Bad
      <3> HIDE DEF Bad
      <3>. QED  BY <1>4, Zenon
    <2> HIDE DEF Upto
    <2>. QED  BY <1>5, <2>1, Zenon
  <1>7. Solves(s, log, inner, f)
    BY <1>6 DEF N, Solves
  <1>8. f = Reading(s, log, inner, f)
    BY <1>7, ReadingIs
  <1>. QED  BY <1>8

Reads(s, log, inner, f) ==
    /\ f[0] = NoGraph(s) /\ ReadLog(s, log, inner) = f[Len(log)]
    /\ \A n \in 1 .. Len(log) : f[n] = Read(f[n - 1], log[n], inner)

(* What reading a log returns is the fold's last value.                    *)
LEMMA ReadLogIs ==
  ASSUME NEW s, NEW log \in Seq(RowType), NEW inner
  PROVE  \E f : Reads(s, log, inner, f)
  <1> DEFINE read == CHOOSE f : f = Reading(s, log, inner, f)
  <1>1. read = Reading(s, log, inner, read)
    BY ReadingExists
  <1>2. ReadLog(s, log, inner) = read[Len(log)]
    BY DEF ReadLog, Reading
  <1> HIDE DEF read
  <1>3. /\ read[0] = NoGraph(s)
        /\ \A n \in 1 .. Len(log) : read[n] = Read(read[n - 1], log[n], inner)
    BY <1>1, ReadingIs DEF Solves
  <1>4. Reads(s, log, inner, read)
    BY <1>2, <1>3 DEF Reads
  <1>. QED  BY <1>4

(* Only a delegate's row looks at the subagent's tree.                     *)
LEMMA ReadAlone ==
  ASSUME NEW g, NEW r, NEW i1, NEW i2, i1 = i2 \/ ~Delegates(r)
  PROVE  Read(g, r, i1) = Read(g, r, i2)
  <1>1. CASE i1 = i2
    BY <1>1
  <1>2. CASE ~Delegates(r)
    <2>1. \A h : Place(h, r, i1) = Place(h, r, i2)
      BY <1>2 DEF Place, Delegates
    <2>. QED  BY <2>1 DEF Read
  <1>. QED  BY <1>1, <1>2

Alike(log1, log2, i1, i2, N) ==
    /\ N \in Nat /\ N <= Len(log1) /\ N <= Len(log2)
    /\ \A n \in 1 .. N : log1[n] = log2[n] /\ (i1 = i2 \/ ~Delegates(log1[n]))

(* Logs that agree on their first rows are read alike up to there.         *)
LEMMA ReadingsAgree ==
  ASSUME NEW s, NEW log1 \in Seq(RowType), NEW log2 \in Seq(RowType), NEW i1, NEW i2,
         NEW f, NEW h, Reads(s, log1, i1, f), Reads(s, log2, i2, h),
         NEW N, Alike(log1, log2, i1, i2, N)
  PROVE  f[N] = h[N]
  <1>. USE DEF Alike
  <1> DEFINE wrong == {n \in 0 .. N : f[n] # h[n]}
  <1>1. Len(log1) \in Nat /\ Len(log2) \in Nat
    BY LenProperties
  <1>2. /\ f[0] = NoGraph(s) /\ h[0] = NoGraph(s)
        /\ \A n \in 1 .. N : f[n] = Read(f[n - 1], log1[n], i1)
        /\ \A n \in 1 .. N : h[n] = Read(h[n - 1], log2[n], i2)
    <2>1. \A n \in 1 .. N : n \in 1 .. Len(log1) /\ n \in 1 .. Len(log2)
      BY <1>1
    <2>. QED  BY <2>1 DEF Reads
  <1>3. ASSUME NEW n \in 1 .. N, f[n - 1] = h[n - 1] PROVE f[n] = h[n]
    <2>1. Read(f[n - 1], log1[n], i1) = Read(h[n - 1], log2[n], i1)
      BY <1>3
    <2>2. Read(h[n - 1], log2[n], i1) = Read(h[n - 1], log2[n], i2)
      BY ReadAlone
    <2>. QED  BY <1>2, <2>1, <2>2
  <1>4. wrong = {}
    <2>1. SUFFICES ASSUME wrong # {} PROVE FALSE
      OBVIOUS
    <2>2. wrong \subseteq Nat
      OBVIOUS
    <2>3. PICK n \in wrong : \A m \in wrong : n <= m
      <3> HIDE DEF wrong
      <3>. QED  BY <2>1, <2>2, LeastIn
    <2>4. n \in 0 .. N /\ f[n] # h[n] /\ n # 0
      BY <1>2
    <2>5. n \in 1 .. N /\ n - 1 \in 0 .. N /\ ~(n <= n - 1)
      BY <2>4
    <2>6. n - 1 \notin wrong
      <3> HIDE DEF wrong
      <3>. QED  BY <2>3, <2>5
    <2>7. f[n - 1] = h[n - 1]
      BY <2>5, <2>6
    <2>. QED  BY <1>3, <2>4, <2>5, <2>7
  <1>5. N \in 0 .. N
    OBVIOUS
  <1>6. N \notin wrong
    <2> HIDE DEF wrong
    <2>. QED  BY <1>4, Zenon
  <1>. QED  BY <1>5, <1>6

(* A row more is read after the others.                                    *)
LEMMA ReadAppend ==
  ASSUME NEW s, NEW log \in Seq(RowType), NEW r \in RowType, NEW inner
  PROVE  ReadLog(s, Append(log, r), inner) = Read(ReadLog(s, log, inner), r, inner)
  <1> DEFINE more == Append(log, r)
             N == Len(log)
  <1>1. /\ more \in Seq(RowType) /\ Len(more) = N + 1 /\ N \in Nat /\ more[N + 1] = r
        /\ \A n \in 1 .. N : log[n] = more[n]
    BY AppendProperties, LenProperties
  <1> HIDE DEF more
  <1>2. PICK f : Reads(s, log, inner, f)
    BY ReadLogIs
  <1>3. PICK h : Reads(s, more, inner, h)
    BY <1>1, ReadLogIs
  <1>4. f[N] = h[N]
    <2>1. Alike(log, more, inner, inner, N) /\ more \in Seq(RowType)
      BY <1>1 DEF Alike
    <2> HIDE DEF N
    <2>. QED  BY <1>2, <1>3, <2>1, ReadingsAgree
  <1>5. h[N + 1] = Read(h[N], r, inner)
    <2>1. N + 1 \in 1 .. Len(more) /\ N + 1 - 1 = N
      BY <1>1
    <2>. QED  BY <1>1, <1>3, <2>1 DEF Reads
  <1>. QED  BY <1>1, <1>2, <1>3, <1>4, <1>5 DEF more, Reads

(* Of no rows, the root alone.                                             *)
LEMMA ReadNone ==
  ASSUME NEW s, NEW inner
  PROVE  ReadLog(s, <<>>, inner) = NoGraph(s)
  <1> DEFINE none == <<>>
  <1>1. none \in Seq(RowType) /\ Len(none) = 0
    OBVIOUS
  <1> HIDE DEF none
  <1>2. PICK f : Reads(s, none, inner, f)
    BY <1>1, ReadLogIs
  <1>3. ReadLog(s, none, inner) = NoGraph(s)
    BY <1>1, <1>2 DEF Reads
  <1>. QED  BY <1>3 DEF none

(* Without a delegate's row the subagent's tree is not looked at.          *)
LEMMA ReadAnyInner ==
  ASSUME NEW s, NEW log \in Seq(RowType), NEW i1, NEW i2,
         i1 = i2 \/ \A n \in DOMAIN log : ~Delegates(log[n])
  PROVE  ReadLog(s, log, i1) = ReadLog(s, log, i2)
  <1> DEFINE N == Len(log)
  <1>1. N \in Nat /\ DOMAIN log = 1 .. N
    BY LenProperties
  <1>2. PICK f : Reads(s, log, i1, f)
    BY ReadLogIs
  <1>3. PICK h : Reads(s, log, i2, h)
    BY ReadLogIs
  <1>4. Alike(log, log, i1, i2, N)
    BY <1>1 DEF Alike
  <1>5. f[N] = h[N]
    <2> HIDE DEF N
    <2>. QED  BY <1>2, <1>3, <1>4, ReadingsAgree
  <1>. QED  BY <1>2, <1>3, <1>5 DEF Reads

-----------------------------------------------------------------------------
(* What a graph is: a finite map from names to nodes, and its counters.    *)
Drawn == Built \cup {"session", "session_end", "none"}
NodeNames == (Session \cup {"none"}) \X Nat \X Drawn \X Nat
NodeType == [row : RowType, parent : NodeNames]
NodeMaps == UNION {[D -> NodeType] : D \in SUBSET NodeNames}
GraphType ==
    [agent : Session, step : Nat, llm : Nat, tool : Nat, added : Nat, nodes : NodeMaps]

LEMMA NamesAre ==
  /\ \A s \in Session \cup {"none"}, k \in Nat, type \in Drawn, n \in Nat :
        /\ Name(s, k, type, n) \in NodeNames
        /\ Name(s, k, type, n)[1] = s /\ Name(s, k, type, n)[2] = k
        /\ Name(s, k, type, n)[3] = type /\ Name(s, k, type, n)[4] = n
  /\ \A x \in NodeNames :
        /\ x = Name(x[1], x[2], x[3], x[4])
        /\ x[1] \in Session \cup {"none"} /\ x[2] \in Nat /\ x[3] \in Drawn /\ x[4] \in Nat
  BY DEF NodeNames, Name

LEMMA RootsAre ==
  ASSUME NEW s \in Session
  PROVE  /\ Root(s) \in NodeNames /\ Root(s)[1] = s /\ Root(s)[2] = 0
         /\ Root(s)[3] = "session" /\ Root(s)[4] = 1 /\ NoParent \in NodeNames
  <1>1. /\ "session" \in Drawn /\ "none" \in Drawn /\ 0 \in Nat /\ 1 \in Nat
        /\ s \in Session \cup {"none"} /\ "none" \in Session \cup {"none"}
    BY DEF Drawn
  <1>. QED  BY <1>1 DEF Root, NoParent, NodeNames, Name

LEMMA MapsAre ==
  ASSUME NEW f \in NodeMaps
  PROVE  DOMAIN f \in SUBSET NodeNames /\ \A x \in DOMAIN f : f[x] \in NodeType
  BY DEF NodeMaps

LEMMA MapIs ==
  ASSUME NEW D \in SUBSET NodeNames, NEW f \in [D -> NodeType]
  PROVE  f \in NodeMaps
  BY DEF NodeMaps

LEMMA NodeIs ==
  ASSUME NEW r \in RowType, NEW p \in NodeNames
  PROVE  Node(r, p) \in NodeType /\ Node(r, p).row = r /\ Node(r, p).parent = p
  BY DEF Node, NodeType

(* What changes in a graph leaves its session and its step alone.          *)
SameStep(g, h) == h.agent = g.agent /\ h.step = g.step
Grown(g, h, id, r) ==
    /\ h \in GraphType /\ SameStep(g, h)
    /\ h.added = g.added + 1 /\ id \notin DOMAIN g.nodes
    /\ DOMAIN h.nodes = DOMAIN g.nodes \cup {id}
    /\ h.nodes[id].row = r /\ h.nodes[id].parent = Root(g.agent)
    /\ \A x \in DOMAIN g.nodes : h.nodes[x] = g.nodes[x]

LEMMA GraphIs ==
  ASSUME NEW g \in GraphType
  PROVE  /\ g.agent \in Session /\ g.step \in Nat /\ g.llm \in Nat /\ g.tool \in Nat
         /\ g.added \in Nat /\ g.nodes \in NodeMaps
         /\ DOMAIN g.nodes \in SUBSET NodeNames
         /\ \A x \in DOMAIN g.nodes : /\ g.nodes[x] \in NodeType /\ g.nodes[x].row \in RowType
                                      /\ g.nodes[x].parent \in NodeNames
  BY MapsAre DEF GraphType, NodeType

LEMMA NoGraphIs ==
  ASSUME NEW s \in Session
  PROVE  LET g == NoGraph(s) IN
         /\ g \in GraphType /\ g.agent = s /\ g.step = 0 /\ g.llm = 0 /\ g.tool = 0
         /\ g.added = 1 /\ DOMAIN g.nodes = {Root(s)}
  <1> DEFINE r == Row("session_start", "none", "none", {})
             m == [x \in {Root(s)} |-> Node(r, NoParent)]
  <1>1. r \in RowType
    BY DEF Row, RowType, CallKind, Reasons, Tools
  <1> HIDE DEF r
  <1>2. m \in [{Root(s)} -> NodeType] /\ {Root(s)} \in SUBSET NodeNames /\ DOMAIN m = {Root(s)}
    BY <1>1, RootsAre, NodeIs
  <1> HIDE DEF m
  <1>3. m \in NodeMaps
    BY <1>2, MapIs
  <1>. QED  BY <1>2, <1>3 DEF NoGraph, m, r, GraphType

LEMMA AddedDoes ==
  ASSUME NEW g \in GraphType, NEW id \in NodeNames, id \notin DOMAIN g.nodes, NEW r \in RowType
  PROVE  LET h == Added(g, id, r) IN
         Grown(g, h, id, r) /\ h.llm = g.llm /\ h.tool = g.tool
  <1> DEFINE D == DOMAIN g.nodes
             m == [x \in D \cup {id} |-> IF x = id THEN Node(r, Root(g.agent)) ELSE g.nodes[x]]
             h == Added(g, id, r)
  <1>1. /\ D \in SUBSET NodeNames /\ \A x \in D : g.nodes[x] \in NodeType
        /\ g.agent \in Session /\ g.added \in Nat
    BY GraphIs
  <1>2. Node(r, Root(g.agent)) \in NodeType
    BY <1>1, RootsAre, NodeIs
  <1>3. m \in [D \cup {id} -> NodeType] /\ D \cup {id} \in SUBSET NodeNames
    BY <1>1, <1>2
  <1>4. /\ m[id] = Node(r, Root(g.agent)) /\ \A x \in D : m[x] = g.nodes[x]
        /\ DOMAIN m = D \cup {id}
    OBVIOUS
  <1>5. h = [g EXCEPT !.added = @ + 1, !.nodes = m]
    BY DEF Added
  <1> HIDE DEF m, h
  <1>6. m \in NodeMaps
    BY <1>3, MapIs
  <1>7. h \in GraphType /\ SameStep(g, h) /\ h.added = g.added + 1 /\ h.nodes = m
        /\ h.llm = g.llm /\ h.tool = g.tool
    <2>1. g.added + 1 \in Nat
      BY <1>1
    <2> DEFINE n == g.added + 1
    <2>2. h = [g EXCEPT !.added = n, !.nodes = m]
      BY <1>5
    <2> HIDE DEF n
    <2>3. h \in GraphType /\ SameStep(g, h) /\ h.added = n /\ h.nodes = m
          /\ h.llm = g.llm /\ h.tool = g.tool
      BY <1>6, <2>1, <2>2 DEF GraphType, SameStep, n
    <2>. QED  BY <2>3 DEF n
  <1>8. h.nodes[id].row = r /\ h.nodes[id].parent = Root(g.agent)
    BY <1>1, <1>4, <1>7, RootsAre, NodeIs
  <1>. QED  BY <1>4, <1>7, <1>8 DEF Grown, h

(* Changing parents only.                                                  *)
Moved(g, h) ==
    /\ h \in GraphType /\ SameStep(g, h)
    /\ h.added = g.added /\ h.llm = g.llm /\ h.tool = g.tool
    /\ DOMAIN h.nodes = DOMAIN g.nodes
    /\ \A x \in DOMAIN g.nodes : h.nodes[x].row = g.nodes[x].row

LEMMA MovedBy ==
  ASSUME NEW g \in GraphType, NEW m \in NodeMaps, DOMAIN m = DOMAIN g.nodes,
         \A x \in DOMAIN g.nodes : m[x].row = g.nodes[x].row
  PROVE  LET h == [g EXCEPT !.nodes = m] IN Moved(g, h) /\ h.nodes = m
  BY DEF GraphType, Moved, SameStep

LEMMA NodeMoved ==
  ASSUME NEW n \in NodeType, NEW p \in NodeNames
  PROVE  LET k == [n EXCEPT !.parent = p] IN k \in NodeType /\ k.row = n.row /\ k.parent = p
  BY DEF NodeType

LEMMA ReparentedDoes ==
  ASSUME NEW g \in GraphType, NEW links, NEW id \in NodeNames
  PROVE  LET h == Reparented(g, links, id) IN
         /\ Moved(g, h)
         /\ \A x \in DOMAIN g.nodes :
               h.nodes[x].parent = IF x[1] = g.agent /\ x[3] = "llm_call" /\ g.nodes[x].row.links \subseteq links
                                   THEN id ELSE g.nodes[x].parent
  <1> DEFINE D == DOMAIN g.nodes
             taken(x) == x[1] = g.agent /\ x[3] = "llm_call" /\ g.nodes[x].row.links \subseteq links
             m == [x \in D |-> IF taken(x) THEN [g.nodes[x] EXCEPT !.parent = id] ELSE g.nodes[x]]
             h == Reparented(g, links, id)
  <1>1. D \in SUBSET NodeNames /\ \A x \in D : g.nodes[x] \in NodeType
    BY GraphIs
  <1>2. h = [g EXCEPT !.nodes = m]
    BY DEF Reparented
  <1> HIDE DEF taken
  <1>3. \A x \in D : LET k == [g.nodes[x] EXCEPT !.parent = id] IN
                     k \in NodeType /\ k.row = g.nodes[x].row /\ k.parent = id
    BY <1>1, NodeMoved
  <1>4. m \in [D -> NodeType] /\ DOMAIN m = D
        /\ \A x \in D : /\ m[x].row = g.nodes[x].row
                        /\ m[x].parent = IF taken(x) THEN id ELSE g.nodes[x].parent
    BY <1>1, <1>3
  <1> HIDE DEF m, h
  <1>5. m \in NodeMaps
    BY <1>1, <1>4, MapIs
  <1>6. Moved(g, h) /\ h.nodes = m
    BY <1>2, <1>4, <1>5, MovedBy
  <1>. QED  BY <1>4, <1>6 DEF taken, h

LEMMA NestWithDoes ==
  ASSUME NEW g \in GraphType, NEW call, Summarizer(g) \notin call
  PROVE  LET h == NestWith(g, call)
             there == Summarizer(g) \in DOMAIN g.nodes /\ Trigger(g) \in DOMAIN g.nodes
         IN /\ ~there => h = g
            /\ Moved(g, h)
            /\ there => \A x \in DOMAIN g.nodes :
                  h.nodes[x].parent = IF x = Summarizer(g) THEN Trigger(g)
                                      ELSE IF x \in call THEN Summarizer(g) ELSE g.nodes[x].parent
  <1> DEFINE D == DOMAIN g.nodes
             sum == Summarizer(g)
             trig == Trigger(g)
             h == NestWith(g, call)
             v(x) == CASE x = sum -> [g.nodes[x] EXCEPT !.parent = trig]
                       [] x \in call -> [g.nodes[x] EXCEPT !.parent = sum]
                       [] OTHER -> g.nodes[x]
             m == [x \in D |-> v(x)]
             p(x) == IF x = sum THEN trig ELSE IF x \in call THEN sum ELSE g.nodes[x].parent
  <1>1. D \in SUBSET NodeNames /\ \A x \in D : g.nodes[x] \in NodeType
    BY GraphIs
  <1>2. CASE ~(sum \in D /\ trig \in D)
    <2>1. h = g
      BY <1>2 DEF NestWith
    <2>. QED  BY <1>2, <2>1 DEF Moved, SameStep
  <1>3. CASE sum \in D /\ trig \in D
    <2>1. h = [g EXCEPT !.nodes = m]
      BY <1>3 DEF NestWith
    <2>2. sum \notin call
      OBVIOUS
    <2>3. sum \in NodeNames /\ trig \in NodeNames
      BY <1>1, <1>3
    <2> HIDE DEF sum, trig
    <2>4. ASSUME NEW x \in D
          PROVE  v(x) \in NodeType /\ v(x).row = g.nodes[x].row /\ v(x).parent = p(x)
      <3>1. g.nodes[x] \in NodeType
        BY <1>1
      <3>2. CASE x = sum
        <4>1. v(x) = [g.nodes[x] EXCEPT !.parent = trig]
          BY <2>2, <3>2
        <4>. QED  BY <2>3, <3>1, <3>2, <4>1, NodeMoved
      <3>3. CASE x # sum /\ x \in call
        <4>1. v(x) = [g.nodes[x] EXCEPT !.parent = sum]
          BY <2>2, <3>3
        <4>. QED  BY <2>3, <3>1, <3>3, <4>1, NodeMoved
      <3>4. CASE x # sum /\ x \notin call
        <4>1. v(x) = g.nodes[x]
          BY <3>4
        <4>. QED  BY <3>1, <3>4, <4>1
      <3>. QED  BY <3>2, <3>3, <3>4
    <2> HIDE DEF v
    <2>5. m \in [D -> NodeType] /\ DOMAIN m = D /\ \A x \in D : m[x] = v(x)
      BY <2>4
    <2> HIDE DEF m
    <2>6. m \in NodeMaps
      BY <1>1, <2>5, MapIs
    <2>7. Moved(g, h) /\ h.nodes = m
      BY <2>1, <2>4, <2>5, <2>6, MovedBy
    <2>. QED  BY <1>3, <2>4, <2>5, <2>7 DEF sum, trig
  <1>. QED  BY <1>2, <1>3

-----------------------------------------------------------------------------
(* A graph of session s that is a tree, and how it stays one.              *)
Shaped(s, g) ==
    /\ g \in GraphType /\ g.agent = s /\ Root(s) \in DOMAIN g.nodes
    /\ IsFiniteSet(DOMAIN g.nodes) /\ IsTree(g)

(* The root alone is a tree.                                               *)
LEMMA NoGraphShaped ==
  ASSUME NEW s \in Session
  PROVE  Shaped(s, NoGraph(s))
  <1> DEFINE g == NoGraph(s)
  <1>1. /\ g \in GraphType /\ g.agent = s /\ g.step = 0 /\ g.llm = 0 /\ g.tool = 0
        /\ g.added = 1 /\ DOMAIN g.nodes = {Root(s)}
    BY NoGraphIs
  <1> HIDE DEF g
  <1>2. IsFiniteSet({Root(s)}) /\ Cardinality({Root(s)}) = 1
    BY FS_Singleton
  <1>. QED  BY <1>1, <1>2 DEF Shaped, IsTree, g

(* A node under the root leaves it a tree.                                 *)
LEMMA TreeGrows ==
  ASSUME NEW s \in Session, NEW g, NEW h, NEW id, NEW r, Shaped(s, g), Grown(g, h, id, r),
         id[1] = s
  PROVE  Shaped(s, h)
  <1> DEFINE D == DOMAIN g.nodes
  <1>1. /\ h.agent = s /\ h.added = g.added + 1 /\ id \notin D
        /\ h \in GraphType /\ DOMAIN h.nodes = D \cup {id} /\ h.nodes[id].parent = Root(s)
        /\ \A x \in D : h.nodes[x] = g.nodes[x]
    BY DEF Grown, SameStep, Shaped
  <1>2. /\ IsFiniteSet(D) /\ Cardinality(D) = g.added /\ Root(s) \in D /\ g.agent = s
        /\ \A x \in D \ {Root(s)} : g.nodes[x].parent \in D /\ Above(g.nodes[x].parent, x)
    BY DEF Shaped, IsTree
  <1> HIDE DEF D
  <1>3. IsFiniteSet(D \cup {id}) /\ Cardinality(D \cup {id}) = g.added + 1
    BY <1>1, <1>2, FS_AddElement
  <1>4. id # Root(s) /\ Above(Root(s), id)
    BY <1>1, <1>2 DEF Above
  <1>5. ASSUME NEW x \in (D \cup {id}) \ {Root(s)}
        PROVE  h.nodes[x].parent \in D \cup {id} /\ Above(h.nodes[x].parent, x)
    <2>1. CASE x = id
      BY <1>1, <1>2, <1>4, <2>1
    <2>2. CASE x # id
      BY <1>1, <1>2, <2>2
    <2>. QED  BY <2>1, <2>2
  <1>6. IsTree(h)
    BY <1>1, <1>3, <1>5 DEF IsTree
  <1>. QED  BY <1>1, <1>2, <1>3, <1>6 DEF Shaped

(* So does giving nodes other parents above them.                          *)
LEMMA TreeMoves ==
  ASSUME NEW s \in Session, NEW g, NEW h, Shaped(s, g), Moved(g, h),
         \A x \in DOMAIN g.nodes \ {Root(s)} :
            \/ h.nodes[x].parent = g.nodes[x].parent
            \/ h.nodes[x].parent \in DOMAIN g.nodes /\ Above(h.nodes[x].parent, x)
  PROVE  Shaped(s, h)
  BY DEF Shaped, IsTree, Moved, SameStep

Joined(g, h, id, inner) ==
    /\ h \in GraphType /\ SameStep(g, h) /\ h.llm = g.llm /\ h.tool = g.tool
    /\ h.added = g.added + inner.added
    /\ DOMAIN h.nodes = DOMAIN g.nodes \cup DOMAIN inner.nodes
    /\ \A x \in DOMAIN g.nodes \ DOMAIN inner.nodes : h.nodes[x] = g.nodes[x]
    /\ \A x \in DOMAIN inner.nodes :
          /\ h.nodes[x].row = inner.nodes[x].row
          /\ h.nodes[x].parent = IF x = Root(inner.agent) THEN id ELSE inner.nodes[x].parent

(* Embedding joins two graphs and hangs one root under a node.             *)
LEMMA EmbeddedDoes ==
  ASSUME NEW g \in GraphType, NEW inner \in GraphType, NEW id \in NodeNames
  PROVE  Joined(g, Embedded(g, id, inner), id, inner)
  <1> DEFINE D == DOMAIN g.nodes
             I == DOMAIN inner.nodes
             v(x) == IF x \notin I THEN g.nodes[x]
                     ELSE IF x = Root(inner.agent)
                          THEN [inner.nodes[x] EXCEPT !.parent = id] ELSE inner.nodes[x]
             m == [x \in D \cup I |-> v(x)]
             n == g.added + inner.added
             h == Embedded(g, id, inner)
  <1>1. /\ D \in SUBSET NodeNames /\ \A x \in D : g.nodes[x] \in NodeType
        /\ I \in SUBSET NodeNames /\ \A x \in I : inner.nodes[x] \in NodeType
        /\ n \in Nat
    BY GraphIs
  <1>2. h = [g EXCEPT !.added = n, !.nodes = m]
    BY DEF Embedded
  <1>3. /\ \A x \in D \ I : v(x) = g.nodes[x]
        /\ \A x \in I : /\ v(x) \in NodeType /\ v(x).row = inner.nodes[x].row
                        /\ v(x).parent = IF x = Root(inner.agent) THEN id ELSE inner.nodes[x].parent
    BY <1>1, NodeMoved
  <1>4. \A x \in D \cup I : v(x) \in NodeType
    BY <1>1, <1>3
  <1> HIDE DEF v
  <1>5. m \in [D \cup I -> NodeType] /\ DOMAIN m = D \cup I /\ \A x \in D \cup I : m[x] = v(x)
    BY <1>4
  <1> HIDE DEF m, n, h
  <1>6. m \in NodeMaps
    BY <1>1, <1>5, MapIs
  <1>7. h \in GraphType /\ SameStep(g, h) /\ h.added = n /\ h.nodes = m
        /\ h.llm = g.llm /\ h.tool = g.tool
    BY <1>1, <1>2, <1>6 DEF GraphType, SameStep
  <1>. QED  BY <1>3, <1>5, <1>7 DEF h, n, Joined

(* A subagent's tree under a tool's node leaves the parent's a tree.       *)
LEMMA TreeEmbeds ==
  ASSUME NEW s \in Session, s # "sub", NEW g, NEW inner, NEW id, Shaped(s, g),
         Shaped("sub", inner), DOMAIN g.nodes \cap DOMAIN inner.nodes = {},
         id \in DOMAIN g.nodes, id[1] = s, id[3] = "tool_call"
  PROVE  Shaped(s, Embedded(g, id, inner))
  <1> DEFINE D == DOMAIN g.nodes
             I == DOMAIN inner.nodes
             h == Embedded(g, id, inner)
  <1>1. /\ g \in GraphType /\ g.agent = s /\ Root(s) \in D /\ IsFiniteSet(D) /\ Cardinality(D) = g.added
        /\ \A x \in D \ {Root(s)} : g.nodes[x].parent \in D /\ Above(g.nodes[x].parent, x)
    BY DEF Shaped, IsTree
  <1>2. /\ inner \in GraphType /\ inner.agent = "sub" /\ IsFiniteSet(I) /\ Cardinality(I) = inner.added
        /\ \A x \in I \ {Root("sub")} : inner.nodes[x].parent \in I /\ Above(inner.nodes[x].parent, x)
    BY DEF Shaped, IsTree
  <1>3. id \in NodeNames
    BY <1>1, GraphIs
  <1>4. /\ h \in GraphType /\ h.agent = s /\ h.added = g.added + inner.added
        /\ DOMAIN h.nodes = D \cup I
        /\ \A x \in D : h.nodes[x] = g.nodes[x]
        /\ \A x \in I : h.nodes[x].parent = IF x = Root("sub") THEN id ELSE inner.nodes[x].parent
    <2>1. Joined(g, h, id, inner)
      BY <1>1, <1>2, <1>3, EmbeddedDoes
    <2> HIDE DEF h
    <2>. QED  BY <1>1, <1>2, <2>1 DEF Joined, SameStep
  <1> HIDE DEF h
  <1>5. D \cap I = {} /\ id \in D
    OBVIOUS
  <1> HIDE DEF D, I
  <1>6. IsFiniteSet(D \cup I) /\ Cardinality(D \cup I) = g.added + inner.added
    <2>1. D \cap I = {} /\ IsFiniteSet(D) /\ IsFiniteSet(I)
      BY <1>1, <1>2, <1>5
    <2>2. IsFiniteSet(D \cup I)
      BY <2>1, FS_Union
    <2>3. Cardinality(D \cup I) = Cardinality(D) + Cardinality(I) - Cardinality(D \cap I)
      BY <2>1, FS_Union
    <2>4. Cardinality(D \cap I) = 0
      BY <2>1, FS_EmptySet
    <2>5. g.added \in Nat /\ inner.added \in Nat
      BY <1>1, <1>2, GraphIs
    <2>. QED  BY <1>1, <1>2, <2>2, <2>3, <2>4, <2>5
  <1>7. ASSUME NEW x \in (D \cup I) \ {Root(s)}
        PROVE  h.nodes[x].parent \in D \cup I /\ Above(h.nodes[x].parent, x)
    <2>1. CASE x \in D
      BY <1>1, <1>4, <2>1
    <2>2. CASE x \in I /\ x # Root("sub")
      BY <1>2, <1>4, <2>2
    <2>3. CASE x \in I /\ x = Root("sub")
      BY <1>4, <1>5, <2>3 DEF Above
    <2>. QED  BY <2>1, <2>2, <2>3
  <1>8. IsTree(h)
    BY <1>4, <1>6, <1>7 DEF IsTree
  <1>. QED  BY <1>1, <1>4, <1>6, <1>8 DEF Shaped, h

(* The calls of a kind among the nodes of a graph.                         *)
CallNodes(nodes, kind) ==
    {x \in DOMAIN nodes : x[3] = "llm_call" /\ nodes[x].row.kind = kind}

LEMMA CallsInIs ==
  ASSUME NEW nodes, NEW kind, IsFiniteSet(DOMAIN nodes)
  PROVE  /\ IsFiniteSet(CallNodes(nodes, kind))
         /\ CallsIn(nodes, kind) = Cardinality(CallNodes(nodes, kind))
         /\ CallsIn(nodes, kind) \in Nat
  <1>1. CallNodes(nodes, kind) \subseteq DOMAIN nodes
    BY DEF CallNodes
  <1>2. IsFiniteSet(CallNodes(nodes, kind))
    BY <1>1, FS_Subset
  <1>. QED  BY <1>2, FS_CardinalityType DEF CallsIn, CallNodes

(* The counts do not look at parents.                                      *)
LEMMA CallsKept ==
  ASSUME NEW nodes, NEW more, NEW kind, DOMAIN more = DOMAIN nodes,
         \A x \in DOMAIN nodes : more[x].row = nodes[x].row
  PROVE  CallsIn(more, kind) = CallsIn(nodes, kind)
  <1>1. {x \in DOMAIN more : x[3] = "llm_call" /\ more[x].row.kind = kind}
          = {x \in DOMAIN nodes : x[3] = "llm_call" /\ nodes[x].row.kind = kind}
    OBVIOUS
  <1>. QED  BY <1>1 DEF CallsIn

(* A node more is one call more, of its own kind, or none.                 *)
LEMMA CallsGrow ==
  ASSUME NEW nodes, NEW more, NEW kind, NEW id, IsFiniteSet(DOMAIN nodes),
         id \notin DOMAIN nodes, DOMAIN more = DOMAIN nodes \cup {id},
         \A x \in DOMAIN nodes : more[x].row = nodes[x].row
  PROVE  CallsIn(more, kind) =
           CallsIn(nodes, kind) + IF id[3] = "llm_call" /\ more[id].row.kind = kind THEN 1 ELSE 0
  <1>1. /\ IsFiniteSet(CallNodes(nodes, kind)) /\ CallsIn(nodes, kind) \in Nat
        /\ CallsIn(nodes, kind) = Cardinality(CallNodes(nodes, kind))
    BY CallsInIs
  <1>2. CallsIn(more, kind) = Cardinality(CallNodes(more, kind))
    BY DEF CallsIn, CallNodes
  <1>3. CASE id[3] = "llm_call" /\ more[id].row.kind = kind
    <2>1. CallNodes(more, kind) = CallNodes(nodes, kind) \cup {id} /\ id \notin CallNodes(nodes, kind)
      BY <1>3 DEF CallNodes
    <2>2. Cardinality(CallNodes(nodes, kind) \cup {id}) = Cardinality(CallNodes(nodes, kind)) + 1
      BY <1>1, <2>1, FS_AddElement
    <2>. QED  BY <1>1, <1>2, <1>3, <2>1, <2>2
  <1>4. CASE ~(id[3] = "llm_call" /\ more[id].row.kind = kind)
    <2>1. CallNodes(more, kind) = CallNodes(nodes, kind)
      BY <1>4 DEF CallNodes
    <2>. QED  BY <1>1, <1>2, <1>4, <2>1
  <1>. QED  BY <1>3, <1>4

Merged(nodes, inner, more) ==
    /\ IsFiniteSet(DOMAIN nodes) /\ IsFiniteSet(DOMAIN inner) /\ DOMAIN nodes \cap DOMAIN inner = {}
    /\ DOMAIN more = DOMAIN nodes \cup DOMAIN inner
    /\ \A x \in DOMAIN nodes : more[x].row = nodes[x].row
    /\ \A x \in DOMAIN inner : more[x].row = inner[x].row

(* The calls of two joined graphs add up.                                  *)
LEMMA CallsJoin ==
  ASSUME NEW nodes, NEW inner, NEW more, NEW kind, Merged(nodes, inner, more)
  PROVE  CallsIn(more, kind) = CallsIn(nodes, kind) + CallsIn(inner, kind)
  <1>. USE DEF Merged
  <1> DEFINE A == CallNodes(nodes, kind)
             B == CallNodes(inner, kind)
  <1>1. /\ IsFiniteSet(A) /\ CallsIn(nodes, kind) = Cardinality(A) /\ CallsIn(nodes, kind) \in Nat
        /\ IsFiniteSet(B) /\ CallsIn(inner, kind) = Cardinality(B) /\ CallsIn(inner, kind) \in Nat
    BY CallsInIs
  <1>2. CallsIn(more, kind) = Cardinality(CallNodes(more, kind))
    BY DEF CallsIn, CallNodes
  <1>3. CallNodes(more, kind) = A \cup B /\ A \cap B = {}
    BY DEF CallNodes
  <1> HIDE DEF A, B
  <1>4. Cardinality(A \cup B) = Cardinality(A) + Cardinality(B) - Cardinality(A \cap B)
    BY <1>1, FS_Union
  <1>5. Cardinality(A \cap B) = 0
    BY <1>3, FS_EmptySet
  <1>. QED  BY <1>1, <1>2, <1>3, <1>4, <1>5

-----------------------------------------------------------------------------
(* What reading one row does to a graph.                                   *)
IdOf(g, r) == NameOf(Counted(g, r), r)

LEMMA CountedIs ==
  ASSUME NEW g \in GraphType, NEW r \in RowType, NEW c, c = Counted(g, r)
  PROVE  /\ c \in GraphType /\ SameStep(g, c) /\ c.added = g.added /\ c.nodes = g.nodes
         /\ c.llm = IF r.type = "llm_call" THEN g.llm + 1 ELSE g.llm
         /\ c.tool = IF r.type = "tool_call" THEN g.tool + 1 ELSE g.tool
  <1> DEFINE l == IF r.type = "llm_call" THEN g.llm + 1 ELSE g.llm
             t == IF r.type = "tool_call" THEN g.tool + 1 ELSE g.tool
  <1>1. c = [g EXCEPT !.llm = l, !.tool = t]
    BY DEF Counted
  <1>2. l \in Nat /\ t \in Nat
    BY GraphIs
  <1> HIDE DEF l, t
  <1>3. c \in GraphType /\ SameStep(g, c) /\ c.added = g.added /\ c.nodes = g.nodes
        /\ c.llm = l /\ c.tool = t
    BY <1>1, <1>2 DEF GraphType, SameStep
  <1>. QED  BY <1>3 DEF l, t

LEMMA IdIs ==
  ASSUME NEW g \in GraphType, NEW r \in RowType, Type(r) \in Built
  PROVE  LET id == IdOf(g, r) IN
         /\ id \in NodeNames /\ id[1] = g.agent /\ id[2] = g.step /\ id[3] = Type(r)
         /\ id[4] = IF r.type = "llm_call" THEN g.llm + 1
                    ELSE IF r.type = "tool_call" THEN g.tool + 1 ELSE 1
         /\ id = Name(g.agent, g.step, Type(r), id[4])
  <1> DEFINE c == Counted(g, r)
             n == IF r.type = "llm_call" THEN c.llm
                  ELSE IF r.type = "tool_call" THEN c.tool ELSE 1
             ord == IF r.type = "llm_call" THEN g.llm + 1
                    ELSE IF r.type = "tool_call" THEN g.tool + 1 ELSE 1
  <1>1. /\ c \in GraphType /\ c.agent = g.agent /\ c.step = g.step
        /\ c.llm = IF r.type = "llm_call" THEN g.llm + 1 ELSE g.llm
        /\ c.tool = IF r.type = "tool_call" THEN g.tool + 1 ELSE g.tool
    BY CountedIs DEF SameStep
  <1>2. /\ g.agent \in Session \cup {"none"} /\ g.step \in Nat /\ Type(r) \in Drawn
        /\ g.llm \in Nat /\ g.tool \in Nat
    BY GraphIs DEF Drawn
  <1> HIDE DEF c
  <1>3. n = ord /\ ord \in Nat
    BY <1>1, <1>2
  <1>4. IdOf(g, r) = Name(c.agent, c.step, Type(r), n)
    BY DEF IdOf, NameOf, c
  <1> HIDE DEF n
  <1>5. IdOf(g, r) = Name(g.agent, g.step, Type(r), ord)
    BY <1>1, <1>3, <1>4
  <1> HIDE DEF ord
  <1>6. LET x == Name(g.agent, g.step, Type(r), ord) IN
        x \in NodeNames /\ x[1] = g.agent /\ x[2] = g.step /\ x[3] = Type(r) /\ x[4] = ord
    BY <1>2, <1>3 DEF Name, NodeNames
  <1>. QED  BY <1>5, <1>6 DEF ord

(* The counters after a row.                                               *)
CountersAfter(g, h, r) ==
    /\ h.llm = IF r.type = "llm_call" THEN g.llm + 1 ELSE g.llm
    /\ h.tool = IF r.type = "tool_call" THEN g.tool + 1 ELSE g.tool

(* A row whose name is new becomes a node.                                 *)
LEMMA AddsNode ==
  ASSUME NEW g \in GraphType, NEW r \in RowType, Type(r) \in Built,
         IdOf(g, r) \notin DOMAIN g.nodes, NEW h, h = Added(Counted(g, r), IdOf(g, r), r)
  PROVE  Grown(g, h, IdOf(g, r), r) /\ CountersAfter(g, h, r)
  <1> DEFINE c == Counted(g, r)
             id == IdOf(g, r)
  <1>1. /\ c \in GraphType /\ SameStep(g, c) /\ c.added = g.added /\ c.nodes = g.nodes
        /\ c.llm = IF r.type = "llm_call" THEN g.llm + 1 ELSE g.llm
        /\ c.tool = IF r.type = "tool_call" THEN g.tool + 1 ELSE g.tool
    BY CountedIs
  <1>2. id \in NodeNames
    BY IdIs
  <1> HIDE DEF c, id
  <1>3. Grown(c, h, id, r) /\ h.llm = c.llm /\ h.tool = c.tool
    BY <1>1, <1>2, AddedDoes DEF c, id
  <1>4. Grown(g, h, id, r)
    BY <1>1, <1>3 DEF Grown, SameStep
  <1>. QED  BY <1>1, <1>3, <1>4 DEF CountersAfter, id

(* A row of no node, or before the first step, draws nothing.              *)
LEMMA ReadsNothing ==
  ASSUME NEW g, NEW r, NEW inner, ~Opens(r), g.step = 0 \/ Type(r) \notin Built
  PROVE  Read(g, r, inner) = g
  BY DEF Read, Place, Type, Built

(* A node of its own, under the session.                                   *)
LEMMA ReadsNode ==
  ASSUME NEW g \in GraphType, NEW r \in RowType, NEW inner, NEW h, h = Read(g, r, inner),
         ~Opens(r), g.step # 0, Type(r) \in Built, r.type # "tool_call",
         IdOf(g, r) \notin DOMAIN g.nodes
  PROVE  Grown(g, h, IdOf(g, r), r) /\ CountersAfter(g, h, r)
  <1>1. h = Added(Counted(g, r), IdOf(g, r), r)
    BY DEF Read, Place, IdOf
  <1>. QED  BY <1>1, AddsNode

(* The second finalize row.                                                *)
LEMMA ReadsAgain ==
  ASSUME NEW g, NEW r, NEW inner, ~Opens(r),
         Type(r) = "finalize_step", IdOf(g, r) \in DOMAIN g.nodes
  PROVE  Read(g, r, inner) = g
  BY DEF Read, Place, IdOf, Type, Built

(* A tool takes over its calls, a delegate the subagent's tree.            *)
Took(g, h, id, links) ==
    /\ Moved(g, h)
    /\ \A x \in DOMAIN g.nodes :
          h.nodes[x].parent = IF x[1] = g.agent /\ x[3] = "llm_call" /\ g.nodes[x].row.links \subseteq links
                              THEN id ELSE g.nodes[x].parent

(* A tool's row: its node, then its calls under it, then the subagent's    *)
(* tree.                                                                   *)
LEMMA ReadsTool ==
  ASSUME NEW g \in GraphType, NEW r \in RowType, NEW inner, NEW h, h = Read(g, r, inner),
         g.step # 0, r.type = "tool_call", IdOf(g, r) \notin DOMAIN g.nodes
  PROVE  \E m, q : /\ Grown(g, m, IdOf(g, r), r) /\ CountersAfter(g, m, r)
                   /\ Took(m, q, IdOf(g, r), r.links)
                   /\ h = IF Delegates(r) THEN Embedded(q, IdOf(g, r), inner) ELSE q
  <1> DEFINE id == IdOf(g, r)
             m == Added(Counted(g, r), id, r)
             q == Reparented(m, r.links, id)
  <1>1. Type(r) = "tool_call" /\ Type(r) \in Built /\ ~Opens(r)
    BY DEF Type, Built, Opens
  <1>2. h = IF Delegates(r) THEN Embedded(q, id, inner) ELSE q
    BY <1>1 DEF Read, Place, IdOf
  <1>3. id \in NodeNames
    BY <1>1, IdIs
  <1>4. Grown(g, m, id, r) /\ CountersAfter(g, m, r)
    BY <1>1, AddsNode
  <1> HIDE DEF id, m
  <1>5. m \in GraphType
    BY <1>4 DEF Grown
  <1>6. Took(m, q, id, r.links)
    BY <1>3, <1>5, ReparentedDoes DEF Took
  <1> HIDE DEF q
  <1>. QED  BY <1>2, <1>4, <1>6 DEF id

(* A call that opens a step.                                               *)
Opened(g, n) ==
    /\ n \in GraphType /\ n.agent = g.agent /\ n.added = g.added /\ n.nodes = g.nodes
    /\ n.step = g.step + 1 /\ n.llm = 0 /\ n.tool = 0

(* A call that opens a step: the last step is nested, then the call        *)
(* drawn.                                                                  *)
LEMMA ReadsOpening ==
  ASSUME NEW g \in GraphType, NEW r \in RowType, NEW inner, NEW h, h = Read(g, r, inner),
         Opens(r), Summarizer(g) \notin DOMAIN g.nodes,
         Name(g.agent, g.step + 1, "llm_call", 1) \notin DOMAIN g.nodes
  PROVE  \E n : /\ Opened(g, n) /\ IdOf(n, r) = Name(g.agent, g.step + 1, "llm_call", 1)
                /\ Grown(n, h, IdOf(n, r), r) /\ CountersAfter(n, h, r)
  <1> DEFINE n == NextStep(g)
             k == g.step + 1
  <1>1. Nest(g) = g
    BY DEF Nest, NestWith
  <1>2. n = [g EXCEPT !.step = k, !.llm = 0, !.tool = 0]
    BY <1>1 DEF NextStep
  <1>3. k \in Nat
    BY GraphIs
  <1> HIDE DEF k
  <1>4. n \in GraphType /\ n.agent = g.agent /\ n.added = g.added /\ n.nodes = g.nodes
        /\ n.step = k /\ n.llm = 0 /\ n.tool = 0
    <2> DEFINE zero == 0
    <2>1. n = [g EXCEPT !.step = k, !.llm = zero, !.tool = zero] /\ zero \in Nat
      BY <1>2
    <2> HIDE DEF zero, n
    <2>2. n \in GraphType /\ n.agent = g.agent /\ n.added = g.added /\ n.nodes = g.nodes
          /\ n.step = k /\ n.llm = zero /\ n.tool = zero
      BY <1>3, <2>1 DEF GraphType
    <2>. QED  BY <2>2 DEF zero
  <1>5. r.type = "llm_call" /\ Type(r) = "llm_call" /\ Type(r) \in Built
    BY DEF Opens, Type, Built
  <1>6. h = Added(Counted(n, r), IdOf(n, r), r)
    BY <1>5 DEF Read, Place, IdOf, Built
  <1> HIDE DEF n
  <1>7. Opened(g, n)
    BY <1>4 DEF Opened, k
  <1>8. IdOf(n, r) = Name(g.agent, k, "llm_call", 1)
    BY <1>4, <1>5, IdIs
  <1>9. Grown(n, h, IdOf(n, r), r) /\ CountersAfter(n, h, r)
    BY <1>4, <1>5, <1>6, <1>8, AddsNode DEF k
  <1>. QED  BY <1>7, <1>8, <1>9 DEF k

-----------------------------------------------------------------------------
(* What is in a log.                                                       *)
LEMMA RangeAppend ==
  ASSUME NEW log \in Seq(RowType), NEW r \in RowType
  PROVE  Range(Append(log, r)) = Range(log) \cup {r}
  <1> DEFINE more == Append(log, r)
             n == Len(log)
  <1>1. /\ DOMAIN log = 1 .. n /\ DOMAIN more = 1 .. (n + 1) /\ n \in Nat
        /\ more[n + 1] = r /\ \A i \in 1 .. n : more[i] = log[i]
    BY AppendProperties, LenProperties
  <1> HIDE DEF more, n
  <1>2. ASSUME NEW q \in Range(more) PROVE q \in Range(log) \/ q = r
    <2>1. PICK i \in 1 .. (n + 1) : more[i] = q
      BY <1>1, <1>2 DEF Range
    <2>2. CASE i = n + 1
      BY <1>1, <2>1, <2>2
    <2>3. CASE i # n + 1
      <3>1. i \in 1 .. n
        BY <1>1, <2>3
      <3>. QED  BY <1>1, <2>1, <3>1 DEF Range
    <2>. QED  BY <2>2, <2>3
  <1>3. ASSUME NEW q \in Range(log) PROVE q \in Range(more)
    <2>1. PICK i \in 1 .. n : log[i] = q
      BY <1>1, <1>3 DEF Range
    <2>2. i \in 1 .. (n + 1)
      BY <1>1
    <2>. QED  BY <1>1, <2>1, <2>2 DEF Range
  <1>4. r \in Range(more)
    <2>1. n + 1 \in 1 .. (n + 1)
      BY <1>1
    <2>. QED  BY <1>1, <2>1 DEF Range
  <1>. QED  BY <1>2, <1>3, <1>4 DEF more

(* The rows of a log are rows.                                             *)
LEMMA RangeTyped ==
  ASSUME NEW log \in Seq(RowType), NEW r \in Range(log)
  PROVE  r \in RowType
  <1>1. PICK i \in DOMAIN log : log[i] = r
    BY DEF Range
  <1>2. i \in 1 .. Len(log)
    BY <1>1, LenProperties
  <1>. QED  BY <1>1, <1>2, ElementOfSeq

(* A session's own nodes are in the steps read so far, numbered by the     *)
(* counters in the last; each draws a row; the others are the subagent's.  *)
OwnNode(s, g, log, x) ==
    /\ x[1] = s /\ x[2] \in 1 .. g.step /\ x[3] \in Built
    /\ g.nodes[x].row \in Range(log) /\ Type(g.nodes[x].row) = x[3]
    /\ x[2] = g.step => /\ x[3] = "llm_call" => x[4] \in 1 .. g.llm
                        /\ x[3] = "tool_call" => x[4] \in 1 .. g.tool
OthersNode(s, log, x) ==
    s # "sub" /\ x[1] = "sub" /\ \E r \in Range(log) : Delegates(r)
Known(s, g, log) ==
    \A x \in DOMAIN g.nodes : x = Root(s) \/ OwnNode(s, g, log, x) \/ OthersNode(s, log, x)

(* The root is known.                                                      *)
LEMMA NoGraphKnown ==
  ASSUME NEW s \in Session, NEW log
  PROVE  Known(s, NoGraph(s), log)
  BY NoGraphIs DEF Known

(* A longer log knows as much.                                             *)
LEMMA KnownLonger ==
  ASSUME NEW s, NEW g, NEW log, NEW more, Known(s, g, log),
         \A q \in Range(log) : q \in Range(more)
  PROVE  Known(s, g, more)
  BY DEF Known, OwnNode, OthersNode

(* A session's own nodes come from its own rows.                           *)
LEMMA OwnIs ==
  ASSUME NEW s \in Session, NEW g, NEW log, Shaped(s, g), Known(s, g, log),
         NEW x \in DOMAIN g.nodes, x[1] = s, x # Root(s)
  PROVE  OwnNode(s, g, log, x)
  BY DEF Known, OthersNode

(* What is known does not depend on parents,                               *)
LEMMA KnownMoved ==
  ASSUME NEW s, NEW g, NEW h, NEW log, Known(s, g, log), Moved(g, h)
  PROVE  Known(s, h, log)
  BY DEF Known, OwnNode, Moved, SameStep

(* nor on the step's counters,                                             *)
LEMMA KnownOpened ==
  ASSUME NEW s, NEW g \in GraphType, NEW n, NEW log, Known(s, g, log), Opened(g, n)
  PROVE  Known(s, n, log)
  <1>1. /\ n.nodes = g.nodes /\ n.step = g.step + 1 /\ g.step \in Nat
    BY GraphIs DEF Opened
  <1>2. ASSUME NEW x, OwnNode(s, g, log, x) PROVE OwnNode(s, n, log, x)
    <2>1. x[2] \in 1 .. g.step
      BY <1>2 DEF OwnNode
    <2>2. x[2] \in 1 .. n.step /\ x[2] # n.step
      BY <1>1, <2>1
    <2>. QED  BY <1>1, <1>2, <2>2 DEF OwnNode
  <1>. QED  BY <1>1, <1>2 DEF Known

(* and a node drawn of a row of the log is known.                          *)
LEMMA KnownGrows ==
  ASSUME NEW s \in Session, NEW g, NEW h, NEW log, NEW r \in RowType, Shaped(s, g), Known(s, g, log),
         g.step # 0, Type(r) \in Built, Grown(g, h, IdOf(g, r), r), CountersAfter(g, h, r),
         r \in Range(log)
  PROVE  Known(s, h, log)
  <1> DEFINE id == IdOf(g, r)
  <1>1. /\ g \in GraphType /\ g.agent = s
    BY DEF Shaped
  <1>2. /\ id[1] = s /\ id[2] = g.step /\ id[3] = Type(r)
        /\ id[4] = IF r.type = "llm_call" THEN g.llm + 1
                   ELSE IF r.type = "tool_call" THEN g.tool + 1 ELSE 1
    BY <1>1, IdIs
  <1> HIDE DEF id
  <1>3. /\ h.step = g.step /\ DOMAIN h.nodes = DOMAIN g.nodes \cup {id} /\ h.nodes[id].row = r
        /\ \A x \in DOMAIN g.nodes : h.nodes[x] = g.nodes[x]
    BY DEF Grown, SameStep, id
  <1>4. g.step \in Nat /\ g.llm \in Nat /\ g.tool \in Nat
    BY <1>1, GraphIs
  <1>5. /\ h.llm = IF r.type = "llm_call" THEN g.llm + 1 ELSE g.llm
        /\ h.tool = IF r.type = "tool_call" THEN g.tool + 1 ELSE g.tool
    BY DEF CountersAfter
  <1>6. ASSUME NEW x \in DOMAIN g.nodes, OwnNode(s, g, log, x) PROVE OwnNode(s, h, log, x)
    <2>1. \A k : k \in 1 .. g.llm => k \in 1 .. h.llm
      BY <1>4, <1>5
    <2>2. \A k : k \in 1 .. g.tool => k \in 1 .. h.tool
      BY <1>4, <1>5
    <2>. QED  BY <1>3, <1>6, <2>1, <2>2 DEF OwnNode
  <1>7. OwnNode(s, h, log, id)
    <2>1. g.step \in 1 .. g.step
      BY <1>4
    <2>2. id[3] = "llm_call" => r.type = "llm_call"
      BY <1>2 DEF Type
    <2>3. id[3] = "tool_call" => r.type = "tool_call"
      BY <1>2 DEF Type
    <2>4. id[3] = "llm_call" => id[4] \in 1 .. h.llm
      BY <1>2, <1>4, <1>5, <2>2
    <2>5. id[3] = "tool_call" => id[4] \in 1 .. h.tool
      BY <1>2, <1>4, <1>5, <2>3
    <2>. QED  BY <1>2, <1>3, <2>1, <2>4, <2>5 DEF OwnNode
  <1>. QED  BY <1>3, <1>6, <1>7 DEF Known

(* The name of a new node is new.                                          *)
LEMMA FreshCounted ==
  ASSUME NEW s \in Session, NEW g, NEW log, NEW r \in RowType, Shaped(s, g), Known(s, g, log),
         g.step # 0, r.type \in {"llm_call", "tool_call"}
  PROVE  IdOf(g, r) \notin DOMAIN g.nodes
  <1> DEFINE id == IdOf(g, r)
  <1>1. g \in GraphType /\ g.agent = s
    BY DEF Shaped
  <1>2. Type(r) = r.type /\ Type(r) \in Built
    BY DEF Type, Built
  <1>3. /\ id[1] = s /\ id[2] = g.step /\ id[3] = r.type
        /\ id[4] = IF r.type = "llm_call" THEN g.llm + 1
                   ELSE IF r.type = "tool_call" THEN g.tool + 1 ELSE 1
    BY <1>1, <1>2, IdIs
  <1> HIDE DEF id
  <1>4. g.llm \in Nat /\ g.tool \in Nat
    BY <1>1, GraphIs
  <1>5. id # Root(s)
    BY <1>3, RootsAre
  <1>6. ~OwnNode(s, g, log, id)
    BY <1>3, <1>4 DEF OwnNode
  <1>. QED  BY <1>3, <1>5, <1>6, OwnIs DEF id

(* A type that is in no row of the log is in no node.                      *)
LEMMA FreshOnce ==
  ASSUME NEW s \in Session, NEW g, NEW log, NEW type \in Built, NEW n \in Nat,
         Shaped(s, g), Known(s, g, log), \A q \in Range(log) : Type(q) # type
  PROVE  Name(s, g.step, type, n) \notin DOMAIN g.nodes
  <1> DEFINE id == Name(s, g.step, type, n)
  <1>1. g \in GraphType /\ g.agent = s /\ g.step \in Nat
    BY GraphIs DEF Shaped
  <1>2. id[1] = s /\ id[3] = type
    BY <1>1 DEF Name
  <1>3. id # Root(s)
    <2>1. type # "session"
      BY DEF Built
    <2>. QED  BY <1>2, <2>1, RootsAre
  <1> HIDE DEF id
  <1>4. ~OwnNode(s, g, log, id)
    BY <1>2 DEF OwnNode
  <1>. QED  BY <1>2, <1>3, <1>4, OwnIs DEF id

(* The names of the next step are new.                                     *)
LEMMA FreshStep ==
  ASSUME NEW s \in Session, NEW g, NEW log, Shaped(s, g), Known(s, g, log)
  PROVE  Name(s, g.step + 1, "llm_call", 1) \notin DOMAIN g.nodes
  <1> DEFINE id == Name(s, g.step + 1, "llm_call", 1)
  <1>1. g \in GraphType /\ g.agent = s /\ g.step \in Nat
    BY GraphIs DEF Shaped
  <1>2. id[1] = s /\ id[2] = g.step + 1 /\ id[3] = "llm_call"
    BY <1>1 DEF Name
  <1>3. id # Root(s)
    BY <1>2, RootsAre
  <1> HIDE DEF id
  <1>4. ~OwnNode(s, g, log, id)
    BY <1>1, <1>2 DEF OwnNode
  <1>. QED  BY <1>2, <1>3, <1>4, OwnIs DEF id

-----------------------------------------------------------------------------
(* A tool's calls are under the session until the tool is over.            *)
HungAt(s, k, x, node, n, pend, nest) ==
    /\ node.row.links # {} /\ node.row.links \subseteq 1 .. n
    /\ node.row.by # "tool" => node.parent = Root(s) /\ node.row.links \cap nest = {}
    /\ node.row.by = "tool" =>
          \/ /\ node.parent[1] = s /\ node.parent[2] = x[2] /\ node.parent[3] = "tool_call"
             /\ node.row.links \cap nest = {}
          \/ node.parent = Root(s) /\ pend # "none" /\ x[2] = k /\ node.row.links \subseteq nest
Hung(s, g, n, pend, nest) ==
    \A x \in DOMAIN g.nodes :
        x[1] = s /\ x[3] = "llm_call" => HungAt(s, g.step, x, g.nodes[x], n, pend, nest)

(* The root alone has no calls to hang.                                    *)
LEMMA NoGraphHung ==
  ASSUME NEW s \in Session, NEW n, NEW pend, NEW nest
  PROVE  Hung(s, NoGraph(s), n, pend, nest)
  <1>1. DOMAIN NoGraph(s).nodes = {Root(s)} /\ Root(s)[3] = "session"
    BY NoGraphIs, RootsAre
  <1>. QED  BY <1>1 DEF Hung

(* A longer ledger, or a tool that begins, moves no call.                  *)
LEMMA HungLonger ==
  ASSUME NEW s, NEW g, NEW n \in Nat, NEW m \in Nat, n <= m, NEW pend, NEW nest, NEW more, NEW then,
         Hung(s, g, n, pend, nest),
         \/ /\ pend # "none" => then # "none"
            /\ nest \subseteq more /\ \A i \in more \ nest : ~(i \in 1 .. n)
         \/ pend = "none" /\ more = {}
  PROVE  Hung(s, g, m, then, more)
  <1>1. \A i : i \in 1 .. n => i \in 1 .. m
    OBVIOUS
  <1>2. ASSUME NEW x, NEW node, HungAt(s, g.step, x, node, n, pend, nest)
        PROVE  HungAt(s, g.step, x, node, m, then, more)
    BY <1>1, <1>2 DEF HungAt
  <1>. QED  BY <1>2 DEF Hung

(* Opening a step outside a tool moves no call.                            *)
LEMMA HungOpened ==
  ASSUME NEW s, NEW g, NEW h, NEW n, NEW nest, Hung(s, g, n, "none", nest), Opened(g, h)
  PROVE  Hung(s, h, n, "none", nest)
  BY DEF Hung, HungAt, Opened

(* A node that is no call moves no call.                                   *)
LEMMA HungNode ==
  ASSUME NEW s, NEW g, NEW h, NEW id, NEW r, NEW n, NEW pend, NEW nest, Hung(s, g, n, pend, nest),
         Grown(g, h, id, r), id[3] # "llm_call"
  PROVE  Hung(s, h, n, pend, nest)
  BY DEF Hung, Grown, SameStep

(* A call hangs under the session when it is drawn.                        *)
LEMMA HungCall ==
  ASSUME NEW s \in Session, NEW g, NEW h, NEW id, NEW r, NEW n, NEW pend, NEW nest,
         Hung(s, g, n, pend, nest), Grown(g, h, id, r), g.agent = s, id[2] = g.step,
         r.links # {}, r.links \subseteq 1 .. n,
         IF r.by = "tool" THEN pend # "none" /\ r.links \subseteq nest ELSE r.links \cap nest = {}
  PROVE  Hung(s, h, n, pend, nest)
  <1>1. /\ h.step = g.step /\ DOMAIN h.nodes = DOMAIN g.nodes \cup {id} /\ h.nodes[id].row = r
        /\ \A x \in DOMAIN g.nodes : h.nodes[x] = g.nodes[x]
        /\ h.nodes[id].parent = Root(s)
    BY DEF Grown, SameStep
  <1>2. HungAt(s, h.step, id, h.nodes[id], n, pend, nest)
    BY <1>1 DEF HungAt
  <1>. QED  BY <1>1, <1>2 DEF Hung

(* The tool over, its calls are under it.                                  *)
LEMMA HungTook ==
  ASSUME NEW s \in Session, NEW g, NEW h, NEW id, NEW n, NEW pend, NEW nest,
         Hung(s, g, n, pend, nest), Took(g, h, id, nest), g.agent = s,
         id[1] = s, id[2] = g.step, id[3] = "tool_call"
  PROVE  Hung(s, h, n, "none", {})
  <1>1. ASSUME NEW x \in DOMAIN g.nodes, x[1] = s, x[3] = "llm_call"
        PROVE  HungAt(s, h.step, x, h.nodes[x], n, "none", {})
    <2>1. /\ HungAt(s, g.step, x, g.nodes[x], n, pend, nest)
          /\ h.nodes[x].row = g.nodes[x].row
          /\ h.nodes[x].parent = IF g.nodes[x].row.links \subseteq nest THEN id ELSE g.nodes[x].parent
      BY <1>1 DEF Hung, Took, Moved
    <2>2. CASE g.nodes[x].row.links \cap nest = {}
      <3>1. ~(g.nodes[x].row.links \subseteq nest)
        BY <2>1, <2>2 DEF HungAt
      <3>. QED  BY <2>1, <2>2, <3>1 DEF HungAt
    <2>3. CASE g.nodes[x].row.links \subseteq nest /\ x[2] = g.step /\ g.nodes[x].row.by = "tool"
      BY <2>1, <2>3 DEF HungAt
    <2>. QED  BY <2>1, <2>2, <2>3 DEF HungAt
  <1>2. DOMAIN h.nodes = DOMAIN g.nodes
    BY DEF Took, Moved
  <1>. QED  BY <1>1, <1>2 DEF Hung

(* A subagent's tree moves no call of its parent.                          *)
LEMMA HungJoined ==
  ASSUME NEW s \in Session, s # "sub", NEW g, NEW h, NEW id, NEW inner, NEW n, NEW pend, NEW nest,
         Hung(s, g, n, pend, nest), Joined(g, h, id, inner),
         \A x \in DOMAIN inner.nodes : x[1] = "sub"
  PROVE  Hung(s, h, n, pend, nest)
  <1>1. h.step = g.step
    BY DEF Joined, SameStep
  <1>2. ASSUME NEW x \in DOMAIN h.nodes, x[1] = s PROVE x \in DOMAIN g.nodes /\ h.nodes[x] = g.nodes[x]
    BY <1>2 DEF Joined
  <1>. QED  BY <1>1, <1>2 DEF Hung

-----------------------------------------------------------------------------
(* A summarizer is in the last step, after its own call, which is the      *)
(* first of its kind; and so is its trigger, if there is one.              *)
Summarizing(g) == {x \in KindCalls(g) : g.nodes[x].row.by = "summarizer"}
FirstOfKind(g, x) == x \in KindCalls(g) /\ \A y \in KindCalls(g) : x[4] <= y[4]
There(g) == Summarizer(g) \in DOMAIN g.nodes
FinalizeNode(g) == Name(g.agent, g.step, "finalize_step", 1)
HandoffNode(g) == Name(g.agent, g.step, "handoff", 1)
Summed(s, g, log) ==
    /\ \A x \in DOMAIN g.nodes :
          /\ x[1] = s /\ x[3] = "summarizer" => x = Summarizer(g)
          /\ x[1] = s /\ x[3] = "llm_call" /\ g.nodes[x].row.by = "summarizer" =>
                There(g) /\ FirstOfKind(g, x)
    /\ There(g) => /\ Summarizing(g) # {}
                   /\ g.nodes[Summarizer(g)].row.by = "finalize_step" => FinalizeNode(g) \in DOMAIN g.nodes
    /\ g.step # 0 =>
          \A r \in Range(log) :
             /\ r.type = "handoff" => HandoffNode(g) \in DOMAIN g.nodes
             /\ r.type = "summarizer" => There(g) /\ g.nodes[Summarizer(g)].row = r

(* Before a session is spent it has neither.                               *)
Clean(s, g) ==
    \A x \in DOMAIN g.nodes :
        x[1] = s /\ x[3] = "llm_call" => g.nodes[x].row.kind \notin {"report", "handoff"}
Plain(log) == \A r \in Range(log) : r.type \notin {"summarizer", "handoff"}

(* The root alone has no summarizer.                                       *)
LEMMA NoGraphSummed ==
  ASSUME NEW s \in Session, NEW log
  PROVE  Summed(s, NoGraph(s), log) /\ Clean(s, NoGraph(s))
  <1> DEFINE g == NoGraph(s)
  <1>1. DOMAIN g.nodes = {Root(s)} /\ Root(s)[3] = "session" /\ g.step = 0 /\ g.agent = s
    BY NoGraphIs, RootsAre
  <1> HIDE DEF g
  <1>2. Summarizer(g)[3] = "summarizer"
    BY DEF Summarizer, Name
  <1>3. ~There(g)
    BY <1>1, <1>2 DEF There
  <1>. QED  BY <1>1, <1>3 DEF Summed, Clean, g

(* Other parents change nothing of this.                                   *)
LEMMA SummedMoved ==
  ASSUME NEW s, NEW g, NEW h, NEW log, Summed(s, g, log), Moved(g, h)
  PROVE  Summed(s, h, log)
  <1>1. /\ DOMAIN h.nodes = DOMAIN g.nodes /\ \A x \in DOMAIN g.nodes : h.nodes[x].row = g.nodes[x].row
        /\ h.agent = g.agent /\ h.step = g.step
    BY DEF Moved, SameStep
  <1>2. /\ Summarizer(h) = Summarizer(g) /\ FinalizeNode(h) = FinalizeNode(g)
        /\ HandoffNode(h) = HandoffNode(g)
    BY <1>1 DEF Summarizer, FinalizeNode, HandoffNode
  <1>3. There(h) <=> There(g)
    BY <1>1, <1>2 DEF There
  <1>4. There(g) => KindCalls(h) = KindCalls(g)
    BY <1>1, <1>2 DEF KindCalls, There
  <1>5. There(g) => Summarizing(h) = Summarizing(g) /\ \A x : FirstOfKind(h, x) <=> FirstOfKind(g, x)
    <2>1. \A x \in KindCalls(g) : x \in DOMAIN g.nodes
      BY DEF KindCalls
    <2>. QED  BY <1>1, <1>4, <2>1 DEF Summarizing, FirstOfKind
  <1>6. There(g) => h.nodes[Summarizer(g)].row = g.nodes[Summarizer(g)].row
    BY <1>1 DEF There
  <1>. QED  BY <1>1, <1>2, <1>3, <1>5, <1>6 DEF Summed

(* Calls that are no summary leave a graph clean.                          *)
LEMMA CleanKept ==
  ASSUME NEW s, NEW g, NEW h, Clean(s, g),
         \A x \in DOMAIN h.nodes : x[1] = s /\ x[3] = "llm_call" =>
            \/ x \in DOMAIN g.nodes /\ h.nodes[x].row = g.nodes[x].row
            \/ h.nodes[x].row.kind \notin {"report", "handoff"}
  PROVE  Clean(s, h)
  BY DEF Clean

(* Any node but a summarizer or its call.                                  *)
LEMMA SummedGrows ==
  ASSUME NEW s \in Session, NEW g, NEW h, NEW log, NEW more, NEW r \in RowType,
         Shaped(s, g), Known(s, g, log), Summed(s, g, log), g.step # 0,
         Type(r) \in Built, Grown(g, h, IdOf(g, r), r),
         r.type # "summarizer", r.type = "llm_call" => r.by # "summarizer",
         \A q \in Range(more) : q \in Range(log) \/ q = r
  PROVE  Summed(s, h, more)
  <1> DEFINE id == IdOf(g, r)
             S == Summarizer(g)
  <1>1. g \in GraphType /\ g.agent = s /\ g.step \in Nat /\ g.llm \in Nat
    BY GraphIs DEF Shaped
  <1>2. /\ id[1] = s /\ id[2] = g.step /\ id[3] = Type(r) /\ id = Name(s, g.step, Type(r), id[4])
        /\ id[4] = IF r.type = "llm_call" THEN g.llm + 1
                   ELSE IF r.type = "tool_call" THEN g.tool + 1 ELSE 1
    BY <1>1, IdIs
  <1> HIDE DEF id
  <1>3. /\ h.step = g.step /\ h.agent = s /\ DOMAIN h.nodes = DOMAIN g.nodes \cup {id} /\ h.nodes[id].row = r
        /\ \A x \in DOMAIN g.nodes : h.nodes[x] = g.nodes[x]
        /\ id \notin DOMAIN g.nodes
    BY <1>1 DEF Grown, SameStep, id
  <1>4. /\ Summarizer(h) = S /\ FinalizeNode(h) = FinalizeNode(g) /\ HandoffNode(h) = HandoffNode(g)
    BY <1>1, <1>3 DEF Summarizer, FinalizeNode, HandoffNode
  <1>5. id # S /\ id[3] # "summarizer"
    <2>1. S[3] = "summarizer" /\ Type(r) # "summarizer"
      BY DEF Summarizer, Name, Type
    <2>. QED  BY <1>2, <2>1
  <1> HIDE DEF S
  <1>6. There(h) <=> There(g)
    BY <1>3, <1>4, <1>5 DEF There, S
  <1>7. There(g) => h.nodes[S] = g.nodes[S]
    BY <1>3 DEF There, S
  <1>8. There(g) => KindCalls(g) \subseteq KindCalls(h) /\ KindCalls(h) \subseteq KindCalls(g) \cup {id}
    BY <1>1, <1>3, <1>4, <1>7 DEF KindCalls, S
  <1>9. ASSUME There(g), id \in KindCalls(h) PROVE \A x \in KindCalls(g) : x[4] <= id[4]
    <2>1. id[4] = g.llm + 1
      BY <1>2, <1>9 DEF KindCalls, Type
    <2>2. ASSUME NEW x \in KindCalls(g) PROVE x[4] \in 1 .. g.llm
      <3>1. x \in DOMAIN g.nodes /\ x[1] = s /\ x[2] = g.step /\ x[3] = "llm_call"
        BY <1>1 DEF KindCalls
      <3>2. x # Root(s)
        BY <3>1, RootsAre
      <3>. QED  BY <3>1, <3>2, OwnIs DEF OwnNode
    <2>. QED  BY <1>1, <2>1, <2>2
  <1>10. There(g) => \A x : FirstOfKind(g, x) => FirstOfKind(h, x)
    BY <1>8, <1>9 DEF FirstOfKind
  <1>11. There(g) => Summarizing(g) \subseteq Summarizing(h)
    BY <1>3, <1>8 DEF Summarizing, KindCalls
  <1>12. ASSUME NEW x \in DOMAIN h.nodes
         PROVE  /\ x[1] = s /\ x[3] = "summarizer" => x = Summarizer(h)
                /\ x[1] = s /\ x[3] = "llm_call" /\ h.nodes[x].row.by = "summarizer" =>
                      There(h) /\ FirstOfKind(h, x)
    <2>1. CASE x = id
      <3>1. x[3] = "llm_call" => r.type = "llm_call"
        BY <1>2, <2>1 DEF Type
      <3>. QED  BY <1>3, <1>5, <2>1, <3>1
    <2>2. CASE x \in DOMAIN g.nodes
      <3>1. /\ x[1] = s /\ x[3] = "summarizer" => x = S
            /\ x[1] = s /\ x[3] = "llm_call" /\ g.nodes[x].row.by = "summarizer" =>
                  There(g) /\ FirstOfKind(g, x)
        BY <2>2 DEF Summed, S
      <3>. QED  BY <1>3, <1>4, <1>6, <1>10, <2>2, <3>1
    <2>. QED  BY <1>3, <2>1, <2>2
  <1>13. There(h) => /\ Summarizing(h) # {}
                     /\ h.nodes[Summarizer(h)].row.by = "finalize_step" => FinalizeNode(h) \in DOMAIN h.nodes
    BY <1>3, <1>4, <1>6, <1>7, <1>11 DEF Summed, S
  <1>14. ASSUME NEW q \in Range(more)
         PROVE  /\ q.type = "handoff" => HandoffNode(h) \in DOMAIN h.nodes
                /\ q.type = "summarizer" => There(h) /\ h.nodes[Summarizer(h)].row = q
    <2>1. CASE q = r
      <3>1. r.type = "handoff" => id = HandoffNode(h)
        BY <1>2, <1>3 DEF HandoffNode, Type
      <3>. QED  BY <1>3, <2>1, <3>1
    <2>2. CASE q \in Range(log)
      BY <1>3, <1>4, <1>6, <1>7, <2>2 DEF Summed, S
    <2>. QED  BY <1>14, <2>1, <2>2
  <1>. QED  BY <1>12, <1>13, <1>14 DEF Summed

(* The names a step's nesting looks for.                                   *)
LEMMA StepNames ==
  ASSUME NEW g \in GraphType, NEW s \in Session, g.agent = s
  PROVE  /\ Summarizer(g)[1] = s /\ Summarizer(g)[2] = g.step /\ Summarizer(g)[3] = "summarizer"
         /\ Summarizer(g) # Root(s)
         /\ Trigger(g)[1] = s /\ Trigger(g)[2] = g.step /\ Trigger(g)[3] \in {"finalize_step", "handoff"}
         /\ Trigger(g) # Root(s)
         /\ Trigger(g) = IF g.nodes[Summarizer(g)].row.by = "finalize_step"
                         THEN FinalizeNode(g) ELSE HandoffNode(g)
         /\ HandoffNode(g)[1] = s /\ HandoffNode(g)[3] = "handoff" /\ HandoffNode(g) # Root(s)
  <1>1. /\ Root(s)[3] = "session"
    BY RootsAre
  <1>. QED  BY <1>1 DEF Summarizer, Trigger, FinalizeNode, HandoffNode, Name

(* A log without a summarizer's row has no summarizer's node.              *)
LEMMA NoSummarizer ==
  ASSUME NEW s \in Session, NEW g, NEW log, Shaped(s, g), Known(s, g, log), Plain(log)
  PROVE  /\ ~There(g) /\ \A x \in DOMAIN g.nodes : ~(x[1] = s /\ x[3] = "summarizer")
         /\ Summed(s, g, log) =>
              \A x \in DOMAIN g.nodes :
                 ~(x[1] = s /\ x[3] = "llm_call" /\ g.nodes[x].row.by = "summarizer")
  <1>1. ASSUME NEW x \in DOMAIN g.nodes, x[1] = s, x[3] = "summarizer" PROVE FALSE
    <2>1. x # Root(s)
      BY <1>1, RootsAre
    <2>2. OwnNode(s, g, log, x)
      BY <1>1, <2>1, OwnIs
    <2>. QED  BY <1>1, <2>2 DEF OwnNode, Plain, Type
  <1>2. g \in GraphType /\ g.agent = s
    BY DEF Shaped
  <1>3. ~There(g)
    BY <1>1, <1>2, StepNames DEF There
  <1>. QED  BY <1>1, <1>3 DEF Summed

(* A step opens only before there is a summarizer.                         *)
LEMMA SummedOpened ==
  ASSUME NEW s \in Session, NEW g, NEW n, NEW log, Shaped(s, g), Known(s, g, log), Plain(log),
         Summed(s, g, log), Opened(g, n)
  PROVE  Summed(s, n, log)
  <1>1. /\ n.nodes = g.nodes /\ n.agent = s /\ n \in GraphType
    BY DEF Opened, Shaped
  <1>2. \A x \in DOMAIN n.nodes :
          /\ ~(x[1] = s /\ x[3] = "summarizer")
          /\ ~(x[1] = s /\ x[3] = "llm_call" /\ n.nodes[x].row.by = "summarizer")
    BY <1>1, NoSummarizer
  <1>3. ~There(n)
    BY <1>1, <1>2, StepNames DEF There
  <1>. QED  BY <1>2, <1>3 DEF Summed, Plain

(* A subagent's summarizer is not its parent's.                            *)
LEMMA SummedJoined ==
  ASSUME NEW s \in Session, s # "sub", NEW g, NEW h, NEW id, NEW inner, NEW log,
         g \in GraphType, g.agent = s, Summed(s, g, log), Joined(g, h, id, inner),
         \A x \in DOMAIN inner.nodes : x[1] = "sub"
  PROVE  Summed(s, h, log) /\ (Clean(s, g) => Clean(s, h))
  <1>1. h.step = g.step /\ h.agent = s /\ h \in GraphType
    BY DEF Joined, SameStep
  <1>2. \A x : x[1] = s => /\ x \in DOMAIN h.nodes <=> x \in DOMAIN g.nodes
                           /\ x \in DOMAIN g.nodes => h.nodes[x] = g.nodes[x]
    BY DEF Joined
  <1>3. /\ Summarizer(h) = Summarizer(g) /\ FinalizeNode(h) = FinalizeNode(g)
        /\ HandoffNode(h) = HandoffNode(g)
    BY <1>1 DEF Summarizer, FinalizeNode, HandoffNode
  <1>4. /\ Summarizer(g)[1] = s /\ FinalizeNode(g)[1] = s /\ HandoffNode(g)[1] = s
    BY DEF Summarizer, FinalizeNode, HandoffNode, Name
  <1>5. /\ There(h) <=> There(g)
        /\ There(g) => h.nodes[Summarizer(g)] = g.nodes[Summarizer(g)]
    BY <1>2, <1>3, <1>4 DEF There
  <1>6. There(g) => KindCalls(h) = KindCalls(g)
    BY <1>1, <1>2, <1>3, <1>5 DEF KindCalls
  <1>7. There(g) => Summarizing(h) = Summarizing(g) /\ \A x : FirstOfKind(h, x) <=> FirstOfKind(g, x)
    <2>1. \A x \in KindCalls(g) : x[1] = s /\ x \in DOMAIN g.nodes
      BY DEF KindCalls
    <2>. QED  BY <1>2, <1>6, <2>1 DEF Summarizing, FirstOfKind
  <1>8. Summed(s, h, log)
    BY <1>1, <1>2, <1>3, <1>4, <1>5, <1>7 DEF Summed
  <1>. QED  BY <1>2, <1>8 DEF Clean

(* A summarizer's call and the summarizer.                                 *)
LEMMA SummedPair ==
  ASSUME NEW s \in Session, NEW g, NEW m, NEW h, NEW log, NEW more,
         NEW c \in RowType, NEW u \in RowType,
         Shaped(s, g), Known(s, g, log), Summed(s, g, log), Clean(s, g), Plain(log),
         c.type = "llm_call", c.kind \in {"report", "handoff"}, c.by = "summarizer",
         u.type = "summarizer", u.kind = c.kind,
         u.by = "finalize_step" => FinalizeNode(g) \in DOMAIN g.nodes,
         Grown(g, m, IdOf(g, c), c), Grown(m, h, IdOf(m, u), u),
         \A q \in Range(more) : q \in Range(log) \/ q = c \/ q = u
  PROVE  Summed(s, h, more)
  <1> DEFINE i == IdOf(g, c)
             S == Summarizer(h)
             D == DOMAIN g.nodes
  <1>1. g \in GraphType /\ g.agent = s /\ m \in GraphType /\ h \in GraphType
        /\ m.agent = s /\ m.step = g.step /\ h.agent = s /\ h.step = g.step
    BY DEF Shaped, Grown, SameStep
  <1>2. i[1] = s /\ i[2] = g.step /\ i[3] = "llm_call"
    <2>1. Type(c) = "llm_call" /\ Type(c) \in Built
      BY DEF Type, Built
    <2>. QED  BY <1>1, <2>1, IdIs
  <1>3. IdOf(m, u) = S
    <2>1. Type(u) = "summarizer" /\ Type(u) \in Built
      BY DEF Type, Built
    <2>2. IdOf(m, u) = Name(m.agent, m.step, "summarizer", 1)
      BY <1>1, <2>1, IdIs
    <2>. QED  BY <1>1, <2>2 DEF Summarizer
  <1>4. S[1] = s /\ S[2] = g.step /\ S[3] = "summarizer" /\ FinalizeNode(h) = FinalizeNode(g)
        /\ HandoffNode(h) = HandoffNode(g)
    BY <1>1, StepNames DEF FinalizeNode, HandoffNode
  <1> HIDE DEF i, S
  <1>5. /\ DOMAIN h.nodes = D \cup {i, S} /\ h.nodes[S].row = u /\ h.nodes[i].row = c
        /\ \A x \in D : h.nodes[x] = g.nodes[x]
    BY <1>3 DEF Grown, i
  <1>6. \A x \in D : /\ ~(x[1] = s /\ x[3] = "summarizer")
                     /\ ~(x[1] = s /\ x[3] = "llm_call" /\ g.nodes[x].row.by = "summarizer")
                     /\ x[1] = s /\ x[3] = "llm_call" => g.nodes[x].row.kind # c.kind
    BY NoSummarizer DEF Clean
  <1> HIDE DEF D
  <1>7. There(h)
    BY <1>5 DEF There, S
  <1>8. KindCalls(h) = {i}
    BY <1>1, <1>2, <1>4, <1>5, <1>6 DEF KindCalls, S
  <1>9. FirstOfKind(h, i)
    <2>1. i[4] <= i[4]
      <3>1. Type(c) = "llm_call" /\ Type(c) \in Built
        BY DEF Type, Built
      <3>2. i \in NodeNames
        BY <1>1, <3>1, IdIs DEF i
      <3>3. i[4] \in Nat
        BY <3>2, NamesAre
      <3>. QED  BY <3>3
    <2>. QED  BY <1>8, <2>1 DEF FirstOfKind
  <1>10. Summarizing(h) # {}
    BY <1>5, <1>8 DEF Summarizing
  <1>11. FinalizeNode(g) \in D => FinalizeNode(h) \in DOMAIN h.nodes
    BY <1>4, <1>5
  <1>12. ASSUME NEW q \in Range(more), q.type \in {"handoff", "summarizer"} PROVE q = u
    BY <1>12 DEF Plain
  <1>. QED  BY <1>2, <1>4, <1>5, <1>6, <1>7, <1>9, <1>10, <1>11, <1>12 DEF Summed, S, D

-----------------------------------------------------------------------------
(* The end of the last step.                                               *)
Nests(g) == There(g) /\ Trigger(g) \in DOMAIN g.nodes

(* The first call of the summarizer's kind is the summarizer's own.        *)
LEMMA SummarizingIsFirst ==
  ASSUME NEW s \in Session, NEW g, NEW log, Shaped(s, g), Known(s, g, log), Summed(s, g, log), There(g),
         NEW x \in DOMAIN g.nodes
  PROVE  FirstOfKind(g, x) <=> x[1] = s /\ x[3] = "llm_call" /\ g.nodes[x].row.by = "summarizer"
  <1>1. g \in GraphType /\ g.agent = s
    BY DEF Shaped
  <1>2. PICK c \in KindCalls(g) : g.nodes[c].row.by = "summarizer"
    BY DEF Summed, Summarizing
  <1>3. c \in DOMAIN g.nodes /\ c[1] = s /\ c[2] = g.step /\ c[3] = "llm_call"
    BY <1>1, <1>2 DEF KindCalls
  <1>4. FirstOfKind(g, c)
    BY <1>2, <1>3 DEF Summed
  <1>5. ASSUME FirstOfKind(g, x) PROVE x = c
    <2>1. x \in KindCalls(g) /\ x[4] <= c[4] /\ c[4] <= x[4]
      BY <1>2, <1>4, <1>5 DEF FirstOfKind
    <2>2. x[1] = s /\ x[2] = g.step /\ x[3] = "llm_call"
      BY <1>1, <2>1 DEF KindCalls
    <2>3. x \in NodeNames /\ c \in NodeNames
      BY <1>1, <1>3, GraphIs
    <2>4. x[4] = c[4]
      <3>1. x[4] \in Nat /\ c[4] \in Nat
        BY <2>3, NamesAre
      <3>. QED  BY <2>1, <3>1
    <2>5. x = Name(x[1], x[2], x[3], x[4]) /\ c = Name(c[1], c[2], c[3], c[4])
      BY <2>3, NamesAre
    <2>. QED  BY <1>3, <2>2, <2>4, <2>5
  <1>6. ASSUME x[1] = s, x[3] = "llm_call", g.nodes[x].row.by = "summarizer" PROVE FirstOfKind(g, x)
    BY <1>6 DEF Summed
  <1>. QED  BY <1>2, <1>3, <1>5, <1>6

(* What nesting moves: the summarizer, and its own call.                   *)
LEMMA NestDoes ==
  ASSUME NEW s \in Session, NEW g, NEW log, Shaped(s, g), Known(s, g, log), Summed(s, g, log),
         NEW h, h = Nest(g)
  PROVE  /\ Moved(g, h)
         /\ ~Nests(g) => h = g
         /\ Nests(g) => \A x \in DOMAIN g.nodes :
               h.nodes[x].parent =
                  IF x = Summarizer(g) THEN Trigger(g)
                  ELSE IF x[1] = s /\ x[3] = "llm_call" /\ g.nodes[x].row.by = "summarizer"
                       THEN Summarizer(g) ELSE g.nodes[x].parent
  <1> DEFINE call == {x \in KindCalls(g) : \A y \in KindCalls(g) : x[4] <= y[4]}
             k == NestWith(g, call)
  <1>1. g \in GraphType /\ g.agent = s
    BY DEF Shaped
  <1>2. \A x : x \in call <=> FirstOfKind(g, x)
    BY DEF FirstOfKind
  <1>3. h = k
    BY DEF Nest
  <1> HIDE DEF call
  <1>4. Summarizer(g) \notin call
    <2>1. \A x \in KindCalls(g) : x[3] = "llm_call"
      BY DEF KindCalls
    <2>. QED  BY <1>1, <1>2, <2>1, StepNames DEF FirstOfKind
  <1>5. /\ ~Nests(g) => k = g
        /\ Moved(g, k)
        /\ Nests(g) => \A x \in DOMAIN g.nodes :
              k.nodes[x].parent = IF x = Summarizer(g) THEN Trigger(g)
                                  ELSE IF x \in call THEN Summarizer(g) ELSE g.nodes[x].parent
    BY <1>1, <1>4, NestWithDoes DEF Nests, There
  <1> HIDE DEF k
  <1>6. ASSUME Nests(g), NEW x \in DOMAIN g.nodes
        PROVE  x \in call <=> x[1] = s /\ x[3] = "llm_call" /\ g.nodes[x].row.by = "summarizer"
    BY <1>2, <1>6, SummarizingIsFirst DEF Nests
  <1>. QED  BY <1>3, <1>5, <1>6

(* Nesting leaves a tree.                                                  *)
LEMMA NestShaped ==
  ASSUME NEW s \in Session, NEW g, NEW log, Shaped(s, g), Known(s, g, log), Summed(s, g, log)
  PROVE  Shaped(s, Nest(g))
  <1> DEFINE h == Nest(g)
  <1>1. Moved(g, h) /\ (~Nests(g) => h = g)
    BY NestDoes
  <1>2. Nests(g) => \A x \in DOMAIN g.nodes :
               h.nodes[x].parent =
                  IF x = Summarizer(g) THEN Trigger(g)
                  ELSE IF x[1] = s /\ x[3] = "llm_call" /\ g.nodes[x].row.by = "summarizer"
                       THEN Summarizer(g) ELSE g.nodes[x].parent
    BY NestDoes
  <1> HIDE DEF h
  <1>3. g \in GraphType /\ g.agent = s
    BY DEF Shaped
  <1>4. ASSUME Nests(g), NEW x \in DOMAIN g.nodes \ {Root(s)}
        PROVE  \/ h.nodes[x].parent = g.nodes[x].parent
               \/ h.nodes[x].parent \in DOMAIN g.nodes /\ Above(h.nodes[x].parent, x)
    <2>1. CASE x = Summarizer(g)
      BY <1>2, <1>3, <1>4, <2>1, StepNames DEF Above, Nests
    <2>2. CASE x # Summarizer(g) /\ x[1] = s /\ x[3] = "llm_call" /\ g.nodes[x].row.by = "summarizer"
      <3>1. h.nodes[x].parent = Summarizer(g) /\ Summarizer(g) \in DOMAIN g.nodes
        BY <1>2, <1>4, <2>2 DEF Nests, There
      <3>2. x[2] = g.step
        <4>1. FirstOfKind(g, x)
          BY <2>2 DEF Summed
        <4>. QED  BY <4>1 DEF FirstOfKind, KindCalls
      <3>. QED  BY <1>3, <2>2, <3>1, <3>2, StepNames DEF Above
    <2>3. CASE x # Summarizer(g) /\ ~(x[1] = s /\ x[3] = "llm_call" /\ g.nodes[x].row.by = "summarizer")
      BY <1>2, <1>4, <2>3
    <2>. QED  BY <2>1, <2>2, <2>3
  <1>5. Nests(g) => Shaped(s, h)
    BY <1>1, <1>4, TreeMoves
  <1>6. ~Nests(g) => Shaped(s, h)
    BY <1>1
  <1>. QED  BY <1>5, <1>6 DEF h

(* A summarizer is nested when the log has what triggers one.              *)
Triggers(log) ==
    \E r \in Range(log) : (r.type = "handoff" \/ (r.type = "summarizer" /\ r.by = "finalize_step"))

(* It nests when a row of the log triggered the summary.                   *)
LEMMA NestsWhenTriggered ==
  ASSUME NEW s \in Session, NEW g, NEW log, Shaped(s, g), Known(s, g, log), Summed(s, g, log), There(g)
  PROVE  Nests(g) <=> Triggers(log)
  <1> DEFINE S == Summarizer(g)
             row == g.nodes[S].row
  <1>1. g \in GraphType /\ g.agent = s /\ g.step \in Nat
    BY GraphIs DEF Shaped
  <1>2. OwnNode(s, g, log, S)
    BY <1>1, StepNames, OwnIs DEF There
  <1>3. g.step # 0
    BY <1>1, <1>2, StepNames DEF OwnNode
  <1>4. row \in Range(log) /\ row.type = "summarizer"
    <2>1. row \in Range(log) /\ Type(row) = "summarizer"
      BY <1>1, <1>2, StepNames DEF OwnNode
    <2>. QED  BY <2>1 DEF Type
  <1>5. CASE row.by = "finalize_step"
    <2>1. Trigger(g) \in DOMAIN g.nodes
      BY <1>1, <1>5, StepNames DEF Summed
    <2>. QED  BY <1>4, <1>5, <2>1 DEF Nests, Triggers
  <1>6. CASE row.by # "finalize_step"
    <2>1. Trigger(g) = HandoffNode(g)
      BY <1>1, <1>6, StepNames
    <2>2. ASSUME HandoffNode(g) \in DOMAIN g.nodes PROVE Triggers(log)
      <3>1. OwnNode(s, g, log, HandoffNode(g))
        BY <1>1, <2>2, StepNames, OwnIs
      <3>2. LET q == g.nodes[HandoffNode(g)].row IN q \in Range(log) /\ q.type = "handoff"
        <4>1. LET q == g.nodes[HandoffNode(g)].row IN q \in Range(log) /\ Type(q) = "handoff"
          BY <1>1, <3>1, StepNames DEF OwnNode
        <4>. QED  BY <4>1 DEF Type
      <3>. QED  BY <3>2 DEF Triggers
    <2>3. ASSUME NEW q \in Range(log), q.type = "handoff" PROVE HandoffNode(g) \in DOMAIN g.nodes
      BY <1>3, <2>3 DEF Summed
    <2>4. ASSUME NEW q \in Range(log), q.type = "summarizer" PROVE q.by # "finalize_step"
      BY <1>3, <1>6, <2>4 DEF Summed
    <2>. QED  BY <2>1, <2>2, <2>3, <2>4 DEF Nests, Triggers
  <1>. QED  BY <1>5, <1>6

-----------------------------------------------------------------------------
(* A session's nodes account for its ledger.                               *)
LEMMA GroupedGrows ==
  ASSUME NEW log \in Seq(RowType), NEW r \in RowType, NEW more, more = Append(log, r)
  PROVE  /\ Grouped(log) => Grouped(more)
         /\ Grouped(more) /\ (~Opens(r) \/ \E q \in Range(log) : q.type = "llm_call") => Grouped(log)
  <1> DEFINE n == Len(log)
  <1>1. /\ DOMAIN log = 1 .. n /\ DOMAIN more = 1 .. (n + 1) /\ n \in Nat
        /\ more[n + 1] = r /\ \A i \in 1 .. n : more[i] = log[i]
    BY AppendProperties, LenProperties
  <1> HIDE DEF n
  <1>2. ASSUME Grouped(log) PROVE Grouped(more)
    <2>1. PICK i \in 1 .. n : Opens(log[i]) /\ \A j \in 1 .. (i - 1) : log[j].type # "llm_call"
      BY <1>1, <1>2 DEF Grouped
    <2>2. i \in 1 .. (n + 1) /\ \A j \in 1 .. (i - 1) : j \in 1 .. n
      BY <1>1
    <2>. QED  BY <1>1, <2>1, <2>2 DEF Grouped
  <1>3. ASSUME Grouped(more), ~Opens(r) \/ \E q \in Range(log) : q.type = "llm_call"
        PROVE  Grouped(log)
    <2>1. PICK i \in 1 .. (n + 1) : Opens(more[i]) /\ \A j \in 1 .. (i - 1) : more[j].type # "llm_call"
      BY <1>1, <1>3 DEF Grouped
    <2>2. CASE i \in 1 .. n
      <3>1. \A j \in 1 .. (i - 1) : j \in 1 .. n
        BY <1>1, <2>2
      <3>. QED  BY <1>1, <2>1, <2>2, <3>1 DEF Grouped
    <2>3. CASE i = n + 1
      <3>1. PICK q \in Range(log) : q.type = "llm_call"
        BY <1>1, <1>3, <2>1, <2>3
      <3>2. PICK k \in 1 .. n : log[k] = q
        BY <1>1, <3>1 DEF Range
      <3>3. k \in 1 .. (i - 1)
        BY <1>1, <2>3
      <3>. QED  BY <1>1, <2>1, <3>1, <3>2, <3>3
    <2>4. i \in 1 .. n \/ i = n + 1
      BY <1>1
    <2>. QED  BY <2>2, <2>3, <2>4
  <1>. QED  BY <1>2, <1>3

(* A grouped log has an opening call.                                      *)
LEMMA GroupedOpens ==
  ASSUME NEW log, Grouped(log)
  PROVE  \E r \in Range(log) : Opens(r)
  BY DEF Grouped, Range

Logged(g, log, calls) ==
    /\ (\E r \in Range(log) : Opens(r)) => g.step # 0
    /\ calls # <<>> => \E r \in Range(log) : r.type = "llm_call"
Paid(g, log, calls, taken) ==
    calls = <<>> \/ Grouped(log) =>
        \A kind \in CallKind :
            CallsIn(g.nodes, kind) = CountOf(calls, kind) + CountOf(taken, kind)

(* The root alone has no calls.                                            *)
LEMMA NoGraphPaid ==
  ASSUME NEW s \in Session, NEW kind
  PROVE  CallsIn(NoGraph(s).nodes, kind) = 0
  <1> DEFINE m == NoGraph(s).nodes
  <1>1. DOMAIN m = {Root(s)} /\ Root(s)[3] = "session"
    BY NoGraphIs, RootsAre
  <1> HIDE DEF m
  <1>2. CallNodes(m, kind) = {}
    BY <1>1 DEF CallNodes
  <1>. QED  BY <1>2, FS_EmptySet DEF CallsIn, CallNodes, m

(* A call that is drawn.                                                   *)
LEMMA PaidCall ==
  ASSUME NEW s, NEW g, NEW n, NEW h, NEW log \in Seq(RowType), NEW r \in RowType, NEW calls \in Ledgers,
         NEW taken \in Ledgers, NEW id,
         Shaped(s, g), n.nodes = g.nodes, Grown(n, h, id, r), id[3] = "llm_call",
         r.type = "llm_call", r.kind \in CallKind,
         Logged(g, log, calls), Paid(g, log, calls, taken), h.step # 0
  PROVE  Logged(h, Append(log, r), Append(calls, r.kind)) /\ Paid(h, Append(log, r), Append(calls, r.kind), taken)
  <1> DEFINE more == Append(log, r)
             paid == Append(calls, r.kind)
  <1>1. r \in Range(more)
    BY RangeAppend
  <1>2. Logged(h, more, paid)
    BY <1>1 DEF Logged
  <1>3. ASSUME Grouped(more) PROVE calls = <<>> \/ Grouped(log)
    BY <1>3, GroupedGrows DEF Logged
  <1>4. ASSUME NEW kind \in CallKind
        PROVE  CallsIn(h.nodes, kind) = CallsIn(g.nodes, kind) + IF r.kind = kind THEN 1 ELSE 0
    <2>1. /\ IsFiniteSet(DOMAIN g.nodes) /\ id \notin DOMAIN g.nodes
          /\ DOMAIN h.nodes = DOMAIN g.nodes \cup {id} /\ h.nodes[id].row = r
          /\ \A x \in DOMAIN g.nodes : h.nodes[x].row = g.nodes[x].row
      BY DEF Grown, Shaped
    <2>. QED  BY <2>1, CallsGrow
  <1>5. paid # <<>>
    <2>1. Len(paid) = Len(calls) + 1 /\ Len(calls) \in Nat /\ paid \in Seq(CallKind)
      BY AppendProperties, LenProperties DEF Ledgers
    <2> HIDE DEF paid
    <2>. QED  BY <2>1
  <1>6. ASSUME NEW kind \in CallKind
        PROVE  /\ CountOf(calls, kind) \in Nat /\ CountOf(taken, kind) \in Nat
               /\ CountOf(paid, kind) = CountOf(calls, kind) + IF kind = r.kind THEN 1 ELSE 0
    BY CountsAppend
  <1> HIDE DEF more, paid
  <1>7. ASSUME Grouped(more), NEW kind \in CallKind
        PROVE  CallsIn(h.nodes, kind) = CountOf(paid, kind) + CountOf(taken, kind)
    <2>1. CallsIn(g.nodes, kind) = CountOf(calls, kind) + CountOf(taken, kind)
      BY <1>3, <1>7 DEF Paid
    <2>2. CallsIn(h.nodes, kind) = CallsIn(g.nodes, kind) + IF kind = r.kind THEN 1 ELSE 0
      BY <1>4
    <2>3. /\ CountOf(calls, kind) \in Nat /\ CountOf(taken, kind) \in Nat
          /\ CountOf(paid, kind) = CountOf(calls, kind) + IF kind = r.kind THEN 1 ELSE 0
      BY <1>6
    <2>. QED  BY <2>1, <2>2, <2>3
  <1>8. Paid(h, more, paid, taken)
    BY <1>5, <1>7 DEF Paid
  <1>. QED  BY <1>2, <1>8 DEF more, paid

(* A call before the first step is in no tree.                             *)
LEMMA PaidIgnored ==
  ASSUME NEW g, NEW log \in Seq(RowType), NEW r \in RowType, NEW calls \in Ledgers, NEW taken,
         g.step = 0, ~Opens(r), r.type = "llm_call", r.kind \in CallKind, Logged(g, log, calls)
  PROVE  Logged(g, Append(log, r), Append(calls, r.kind)) /\ Paid(g, Append(log, r), Append(calls, r.kind), taken)
  <1> DEFINE more == Append(log, r)
             paid == Append(calls, r.kind)
  <1>1. r \in Range(more) /\ \A q \in Range(more) : q \in Range(log) \/ q = r
    BY RangeAppend
  <1>2. paid # <<>>
    <2>1. Len(paid) = Len(calls) + 1 /\ Len(calls) \in Nat /\ paid \in Seq(CallKind)
      BY AppendProperties, LenProperties DEF Ledgers
    <2> HIDE DEF paid
    <2>. QED  BY <2>1
  <1> HIDE DEF more, paid
  <1>3. ~ \E q \in Range(more) : Opens(q)
    BY <1>1 DEF Logged
  <1>4. ~Grouped(more)
    BY <1>3, GroupedOpens
  <1>. QED  BY <1>1, <1>2, <1>3, <1>4 DEF Logged, Paid, more, paid

(* A row that is no call.                                                  *)
LEMMA PaidRow ==
  ASSUME NEW g, NEW h, NEW log \in Seq(RowType), NEW r \in RowType, NEW calls, NEW taken,
         r.type # "llm_call", h.step = g.step,
         \A kind \in CallKind : CallsIn(h.nodes, kind) = CallsIn(g.nodes, kind),
         Logged(g, log, calls), Paid(g, log, calls, taken)
  PROVE  Logged(h, Append(log, r), calls) /\ Paid(h, Append(log, r), calls, taken)
  <1>1. Range(Append(log, r)) = Range(log) \cup {r}
    BY RangeAppend
  <1>2. ~Opens(r)
    BY DEF Opens
  <1>3. Grouped(Append(log, r)) => Grouped(log)
    BY <1>2, GroupedGrows
  <1>. QED  BY <1>1, <1>2, <1>3 DEF Logged, Paid

(* A node that is no call adds none.                                       *)
LEMMA CallsOfNode ==
  ASSUME NEW s, NEW g, NEW h, NEW id, NEW r, NEW kind, Shaped(s, g), Grown(g, h, id, r), id[3] # "llm_call"
  PROVE  CallsIn(h.nodes, kind) = CallsIn(g.nodes, kind)
  <1>1. /\ IsFiniteSet(DOMAIN g.nodes) /\ id \notin DOMAIN g.nodes
        /\ DOMAIN h.nodes = DOMAIN g.nodes \cup {id} /\ h.nodes[id].row = r
        /\ \A x \in DOMAIN g.nodes : h.nodes[x].row = g.nodes[x].row
    BY DEF Grown, Shaped
  <1>2. CallsIn(g.nodes, kind) \in Nat
    BY <1>1, CallsInIs
  <1>. QED  BY <1>1, <1>2, CallsGrow

(* Other parents add none.                                                 *)
LEMMA CallsOfMoved ==
  ASSUME NEW g, NEW h, NEW kind, Moved(g, h)
  PROVE  CallsIn(h.nodes, kind) = CallsIn(g.nodes, kind)
  BY CallsKept DEF Moved

-----------------------------------------------------------------------------
(* What there is of a session to be seen: its log, its ledger, the calls   *)
(* its tool has made, where it is, and what it took over from a subagent.  *)
ViewType ==
    [log : Seq(RowType), calls : Ledgers, pend : Tools \cup {"none"}, nest : SUBSET Nat,
     at : Resting \cup Active, stop : Reasons, step : Nat, there : {"yes", "no"},
     kids : Seq(Ledgers), taken : Ledgers, sublog : Seq(RowType)]
Viewed(v) == v \in ViewType /\ v.nest \subseteq 1 .. Len(v.calls)

(* A session that is handing off, has handed off or is over.               *)
Spent(v) ==
    \/ v.at \in {"handoff", "spawn", "leaving", "raising", "done", "died"}
    \/ v.at = "waiting" /\ v.stop = "context_reset" /\ v.there = "yes"

Told(v) ==
    /\ ~Spent(v) => Plain(v.log)
    /\ \A r \in Range(v.log) :
          /\ r.type = "handoff" => v.at \in {"waiting", "leaving", "raising", "done", "died"}
          /\ Delegates(r) => v.kids # <<>>
          /\ r.type = "session_end" => v.at \in {"done", "died"} /\ r.links = {v.step}
Stepped(s, g, v) ==
    /\ \/ v.step = Base(s) + g.step
       \/ /\ v.step = Base(s) + g.step + 1
          /\ \/ v.at \in {"raising", "died"}
             \/ v.stop \in {"llm_failure", "aborted"} /\ v.at \in {"leaving", "done"}
    /\ v.at \in {"tools", "cutoff"} \/ v.pend # "none" => g.step # 0
    /\ v.at = "cutoff" => FinalizeNode(g) \in DOMAIN g.nodes
Accounted(g, v) ==
    /\ Logged(g, v.log, v.calls)
    /\ (v.kids # <<>> => Grouped(v.sublog)) => Paid(g, v.log, v.calls, v.taken)

SeenIn(s, g, v) ==
    /\ Shaped(s, g) /\ Known(s, g, v.log) /\ Hung(s, g, Len(v.calls), v.pend, v.nest)
    /\ Summed(s, g, v.log) /\ (~Spent(v) => Clean(s, g))
    /\ Told(v) /\ Stepped(s, g, v) /\ Accounted(g, v)

LEMMA BaseIs ==
  ASSUME NEW s
  PROVE  Base(s) \in Nat
  BY TraceAssumption DEF Base

LEMMA RowsAre ==
  ASSUME NEW type, NEW kind, NEW by, NEW links,
         type \in {"session_start", "session_end", "llm_call", "tool_call", "handoff", "report",
                   "summarizer", "token_tracking", "finish_check"},
         kind \in CallKind \cup Reasons \cup Tools \cup {"none", "verbatim", "fallback", "summarizer"},
         by \in {"none", "node", "agent", "tool", "summarizer", "context_guard", "finalize_step"},
         links \in SUBSET Nat
  PROVE  LET r == Row(type, kind, by, links) IN
         r \in RowType /\ r.type = type /\ r.kind = kind /\ r.by = by /\ r.links = links
  BY DEF Row, RowType

LEMMA ViewIs ==
  ASSUME NEW v, Viewed(v)
  PROVE  /\ v.log \in Seq(RowType) /\ v.calls \in Ledgers /\ Len(v.calls) \in Nat
         /\ v.step \in Nat /\ v.taken \in Ledgers /\ v.nest \subseteq 1 .. Len(v.calls)
         /\ v.sublog \in Seq(RowType)
  <1>1. v.calls \in Seq(CallKind)
    BY DEF Viewed, ViewType, Ledgers
  <1>2. Len(v.calls) \in Nat
    BY <1>1, LenProperties
  <1>. QED  BY <1>2 DEF Viewed, ViewType

(* Nothing read yet.                                                       *)
LEMMA SeenBorn ==
  ASSUME NEW s \in Session, NEW v, Viewed(v), v.log = <<>> \/ v.log = Started,
         v.calls = <<>>, v.kids = <<>>, v.taken = <<>>, v.pend = "none", v.step = Base(s),
         v.at \in {"unborn", "guard", "leaving"}
  PROVE  SeenIn(s, NoGraph(s), v)
  <1> DEFINE g == NoGraph(s)
  <1>1. Shaped(s, g) /\ Known(s, g, v.log) /\ Hung(s, g, Len(v.calls), v.pend, v.nest)
        /\ Summed(s, g, v.log) /\ Clean(s, g)
    BY NoGraphShaped, NoGraphKnown, NoGraphHung, NoGraphSummed
  <1>2. \A r \in Range(v.log) : r.type = "session_start"
    <2>1. ASSUME NEW r \in Range(v.log) PROVE r.type = "session_start"
      <3>1. PICK i \in DOMAIN v.log : r = v.log[i]
        BY <2>1 DEF Range
      <3>. QED  BY <3>1 DEF Started, Row
    <2>. QED  BY <2>1
  <1>3. Told(v)
    BY <1>2 DEF Told, Plain, Delegates
  <1>4. g.step = 0
    BY NoGraphIs
  <1> HIDE DEF g
  <1>5. Stepped(s, g, v)
    BY <1>4, BaseIs DEF Stepped
  <1>6. Logged(g, v.log, v.calls)
    BY <1>2 DEF Logged, Opens
  <1>7. \A kind \in CallKind : CallsIn(g.nodes, kind) = 0
    BY NoGraphPaid DEF g
  <1>8. Paid(g, v.log, v.calls, v.taken)
    BY <1>7, CountsNone DEF Paid
  <1>. QED  BY <1>1, <1>3, <1>5, <1>6, <1>8 DEF SeenIn, Accounted, g

(* A step without a row.                                                   *)
LEMMA SeenQuiet ==
  ASSUME NEW s \in Session, NEW g, NEW v, NEW w, Viewed(v), Viewed(w), SeenIn(s, g, v),
         w.log = v.log, w.calls = v.calls, w.kids = v.kids, w.taken = v.taken, w.sublog = v.sublog,
         v.at \notin {"done", "died"},
         \/ (v.pend # "none" => w.pend # "none") /\ (w.pend # "none" => v.pend # "none") /\ w.nest = v.nest
         \/ v.pend = "none" /\ v.at = "tools" /\ w.nest = {},
         \/ w.at \in {"leaving", "raising", "died"}
         \/ ~Spent(v) /\ w.at \in {"tool", "waiting"} \cup Handback,
         \/ /\ w.step = v.step
            /\ v.at \in {"leaving", "raising"} => w.at \in {"raising", "died"} \/ w.stop = "aborted"
         \/ /\ w.step = v.step + 1 /\ v.at \notin {"leaving", "raising"}
            /\ w.at = "raising" \/ (w.at = "leaving" /\ w.stop \in {"llm_failure", "aborted"})
  PROVE  SeenIn(s, g, w)
  <1>1. /\ v.log \in Seq(RowType) /\ Len(v.calls) \in Nat
    BY ViewIs
  <1>2. Hung(s, g, Len(w.calls), w.pend, w.nest)
    <2>1. Hung(s, g, Len(v.calls), v.pend, v.nest) /\ Len(v.calls) <= Len(w.calls)
      BY <1>1 DEF SeenIn
    <2>. QED  BY <1>1, <2>1, HungLonger
  <1>3. ~Spent(w) => ~Spent(v)
    BY DEF Spent
  <1>4. Told(w)
    <2>1. v.at \notin {"done", "died"} /\ Told(v)
      BY DEF SeenIn
    <2>2. \A r \in Range(v.log) : r.type = "handoff" => Spent(v)
      BY <2>1 DEF Told, Plain
    <2>. QED  BY <1>3, <2>1, <2>2 DEF Told
  <1>5. Stepped(s, g, w)
    <2>1. Stepped(s, g, v) /\ w.at \notin {"tools", "cutoff"}
      BY DEF SeenIn, Handback
    <2>2. v.at \notin {"leaving", "raising"} => v.step = Base(s) + g.step
      BY <2>1 DEF Stepped
    <2>3. w.pend # "none" => g.step # 0
      BY <2>1 DEF Stepped
    <2>4. v.at \in {"leaving", "raising"} => w.at \in {"leaving", "raising", "died"}
      BY DEF Spent
    <2>5. w.step = v.step => \/ w.step = Base(s) + g.step
                             \/ /\ w.step = Base(s) + g.step + 1
                                /\ w.at \in {"raising", "died"} \/ (w.at = "leaving" /\ w.stop = "aborted")
      BY <2>1, <2>2, <2>4 DEF Stepped
    <2>6. w.step # v.step => /\ w.step = Base(s) + g.step + 1
                             /\ w.at = "raising" \/ (w.at = "leaving" /\ w.stop \in {"llm_failure", "aborted"})
      BY <2>2
    <2>. QED  BY <2>1, <2>3, <2>5, <2>6 DEF Stepped
  <1>. QED  BY <1>2, <1>3, <1>4, <1>5 DEF SeenIn, Accounted

(* session_end is drawn when the tree is.                                  *)
Ending(v, w, r) ==
    /\ r.type = "session_end" /\ r.links = {v.step} 
    /\ \/ v.at = "leaving" /\ w.at = "done"
       \/ v.at = "raising" /\ w.at = "died"
    /\ w.log = Append(v.log, r) /\ w.calls = v.calls /\ w.kids = v.kids /\ w.taken = v.taken
    /\ w.sublog = v.sublog /\ w.pend = v.pend /\ w.nest = v.nest /\ w.step = v.step /\ w.stop = v.stop

(* The row of the session's end draws nothing until the log is complete.   *)
LEMMA SeenEnd ==
  ASSUME NEW s \in Session, NEW g, NEW v, NEW w, NEW r \in RowType, NEW inner, Viewed(v), SeenIn(s, g, v),
         Ending(v, w, r)
  PROVE  Read(g, r, inner) = g /\ SeenIn(s, g, w)
  <1>1. v.log \in Seq(RowType)
    BY ViewIs
  <1>. USE DEF Ending
  <1>2. Range(w.log) = Range(v.log) \cup {r}
    BY <1>1, RangeAppend
  <1>3. Type(r) \notin Built /\ ~Opens(r)
    BY DEF Type, Built, Opens
  <1>4. Read(g, r, inner) = g
    BY <1>3, ReadsNothing
  <1>5. Known(s, g, w.log)
    BY <1>2, KnownLonger DEF SeenIn
  <1>6. Summed(s, g, w.log)
    BY <1>2 DEF SeenIn, Summed
  <1>7. Told(w) /\ Spent(w)
    BY <1>2 DEF SeenIn, Told, Spent, Delegates
  <1>8. Stepped(s, g, w)
    BY DEF SeenIn, Stepped
  <1>9. Logged(g, w.log, w.calls)
    BY <1>2 DEF SeenIn, Accounted, Logged, Opens
  <1>10. Grouped(w.log) => Grouped(v.log)
    BY <1>1, <1>3, GroupedGrows
  <1>11. Accounted(g, w)
    BY <1>9, <1>10 DEF SeenIn, Accounted, Paid
  <1>. QED  BY <1>4, <1>5, <1>6, <1>7, <1>8, <1>11 DEF SeenIn

(* A session and what its next row finds.                                  *)
LEMMA SeenFacts ==
  ASSUME NEW s \in Session, NEW g, NEW v, Viewed(v), SeenIn(s, g, v)
  PROVE  /\ g \in GraphType /\ g.agent = s /\ g.step \in Nat
         /\ Shaped(s, g) /\ Known(s, g, v.log) /\ Hung(s, g, Len(v.calls), v.pend, v.nest)
         /\ Summed(s, g, v.log) /\ Told(v) /\ Stepped(s, g, v) /\ Accounted(g, v)
         /\ v.log \in Seq(RowType) /\ v.calls \in Ledgers /\ Len(v.calls) \in Nat
         /\ v.step \in Nat /\ v.taken \in Ledgers /\ v.nest \subseteq 1 .. Len(v.calls)
  BY ViewIs, GraphIs DEF SeenIn, Shaped

(* What a new call brings: its row, ledger entry and number.               *)
Calling(v, w, r) ==
    /\ r.type = "llm_call" /\ r.kind \in CallKind
    /\ w.log = Append(v.log, r) /\ w.calls = Append(v.calls, r.kind)
    /\ r.links = {Len(v.calls) + 1} /\ w.pend = v.pend
    /\ w.kids = v.kids /\ w.taken = v.taken /\ w.sublog = v.sublog
    /\ IF r.by = "tool" THEN v.pend # "none" /\ w.nest = v.nest \cup r.links ELSE w.nest = v.nest

(* A call in the making hangs where it is to hang.                         *)
LEMMA CallHung ==
  ASSUME NEW s \in Session, NEW g, NEW n, NEW h, NEW v, NEW w, NEW r \in RowType, NEW id,
         Viewed(v), SeenIn(s, g, v), Calling(v, w, r),
         Hung(s, n, Len(v.calls), v.pend, v.nest), Grown(n, h, id, r), n.agent = s, id[2] = n.step
  PROVE  Hung(s, h, Len(w.calls), w.pend, w.nest)
  <1> DEFINE k == Len(v.calls)
  <1>1. Len(w.calls) = k + 1 /\ k \in Nat /\ v.nest \subseteq 1 .. k
    <2>1. v.calls \in Seq(CallKind) /\ r.kind \in CallKind /\ w.calls = Append(v.calls, r.kind)
      BY SeenFacts DEF Calling, Ledgers
    <2>2. Len(w.calls) = Len(v.calls) + 1
      BY <2>1, AppendProperties
    <2>. QED  BY <2>2, SeenFacts
  <1>2. r.links = {k + 1} /\ w.pend = v.pend
        /\ IF r.by = "tool" THEN v.pend # "none" /\ w.nest = v.nest \cup {k + 1} ELSE w.nest = v.nest
    BY DEF Calling
  <1> HIDE DEF k
  <1>3. Hung(s, n, k + 1, w.pend, w.nest)
    <2>1. k + 1 \in Nat /\ k <= k + 1 /\ ~(k + 1 \in 1 .. k)
      BY <1>1
    <2>2. v.nest \subseteq w.nest /\ \A i \in w.nest \ v.nest : ~(i \in 1 .. k)
      BY <1>2, <2>1
    <2>3. Hung(s, n, k, v.pend, v.nest)
      BY DEF k
    <2>. QED  BY <1>1, <1>2, <2>1, <2>2, <2>3, HungLonger
  <1>4. /\ r.links # {} /\ r.links \subseteq 1 .. (k + 1)
        /\ IF r.by = "tool" THEN w.pend # "none" /\ r.links \subseteq w.nest ELSE r.links \cap w.nest = {}
    BY <1>1, <1>2
  <1>. QED  BY <1>1, <1>3, <1>4, HungCall

(* The call that opens a step.                                             *)
LEMMA SeenStep ==
  ASSUME NEW s \in Session, NEW g, NEW v, NEW w, NEW r \in RowType, NEW inner, Viewed(v), SeenIn(s, g, v),
         Calling(v, w, r), r.kind = "main", r.by = "node", v.at = "guard", v.pend = "none",
         w.at = "tools", w.step = v.step + 1
  PROVE  SeenIn(s, Read(g, r, inner), w)
  <1> DEFINE h == Read(g, r, inner)
             more == Append(v.log, r)
  <1>1. /\ g \in GraphType /\ g.agent = s /\ g.step \in Nat
        /\ Shaped(s, g) /\ Known(s, g, v.log) /\ Hung(s, g, Len(v.calls), v.pend, v.nest)
        /\ Summed(s, g, v.log) /\ Told(v) /\ Stepped(s, g, v) /\ Accounted(g, v)
        /\ v.log \in Seq(RowType) /\ v.calls \in Ledgers /\ v.taken \in Ledgers
    BY SeenFacts
  <1>2. /\ r.type = "llm_call" /\ Opens(r) /\ Type(r) = "llm_call" /\ Type(r) \in Built /\ ~Spent(v) /\ ~Spent(w)
    BY DEF Calling, Opens, Ancillary, Type, Built, Spent
  <1>3. Plain(v.log)
    BY <1>1, <1>2 DEF Told
  <1>4. ~There(g) /\ Name(s, g.step + 1, "llm_call", 1) \notin DOMAIN g.nodes
    BY <1>1, <1>3, NoSummarizer, FreshStep
  <1>5. PICK n : /\ Opened(g, n) /\ IdOf(n, r) = Name(s, g.step + 1, "llm_call", 1)
                 /\ Grown(n, h, IdOf(n, r), r) /\ CountersAfter(n, h, r)
    BY <1>1, <1>2, <1>4, ReadsOpening DEF There
  <1> HIDE DEF h
  <1>6. /\ n \in GraphType /\ n.agent = s /\ n.step = g.step + 1 /\ n.nodes = g.nodes /\ n.added = g.added
    BY <1>1, <1>5 DEF Opened
  <1>7. Shaped(s, n)
    BY <1>1, <1>6 DEF Shaped, IsTree
  <1>8. IdOf(n, r)[1] = s /\ IdOf(n, r)[2] = n.step /\ IdOf(n, r)[3] = "llm_call"
    BY <1>2, <1>6, IdIs
  <1>9. Shaped(s, h)
    BY <1>5, <1>7, <1>8, TreeGrows
  <1>10. Range(more) = Range(v.log) \cup {r} /\ w.log = more
    BY <1>1, RangeAppend DEF Calling
  <1>11. n.step # 0 /\ h.step = n.step
    BY <1>1, <1>5, <1>6 DEF Grown, SameStep
  <1> HIDE DEF more
  <1>12. Known(s, n, v.log)
    BY <1>1, <1>5, KnownOpened
  <1>13. Known(s, n, more) /\ r \in Range(more)
    BY <1>10, <1>12, KnownLonger
  <1>14. Known(s, h, more)
    BY <1>2, <1>5, <1>7, <1>11, <1>13, KnownGrows
  <1>15. Hung(s, n, Len(v.calls), v.pend, v.nest)
    BY <1>1, <1>5, HungOpened
  <1>16. Hung(s, h, Len(w.calls), w.pend, w.nest)
    BY <1>5, <1>6, <1>8, <1>15, CallHung
  <1>17. Summed(s, n, v.log)
    BY <1>1, <1>3, <1>5, SummedOpened
  <1>18. Summed(s, h, more)
    BY <1>2, <1>5, <1>7, <1>10, <1>11, <1>12, <1>17, SummedGrows
  <1>19. Clean(s, h)
    <2>1. Clean(s, g)
      BY <1>2 DEF SeenIn
    <2>2. /\ DOMAIN h.nodes = DOMAIN g.nodes \cup {IdOf(n, r)} /\ h.nodes[IdOf(n, r)].row = r
          /\ \A x \in DOMAIN g.nodes : h.nodes[x] = g.nodes[x]
      BY <1>5, <1>6 DEF Grown
    <2>. QED  BY <2>1, <2>2, CleanKept
  <1>20. Told(w)
    <2>1. \A q \in Range(w.log) : q \in Range(v.log) \/ q = r
      BY <1>10
    <2>2. w.kids = v.kids
      BY DEF Calling
    <2>. QED  BY <1>1, <1>2, <1>3, <2>1, <2>2 DEF Told, Plain, Delegates
  <1>21. Stepped(s, h, w)
    <2>1. v.step = Base(s) + g.step
      BY <1>1 DEF Stepped
    <2>. QED  BY <1>1, <1>6, <1>11, <2>1, BaseIs DEF Stepped
  <1>22. Accounted(h, w)
    <2>1. Logged(g, v.log, v.calls) /\ r.kind \in CallKind
          /\ w.log = Append(v.log, r) /\ w.calls = Append(v.calls, r.kind)
          /\ w.kids = v.kids /\ w.taken = v.taken /\ w.sublog = v.sublog
      BY <1>1 DEF Accounted, Calling
    <2>2. ASSUME Paid(g, v.log, v.calls, v.taken)
          PROVE  Logged(h, w.log, w.calls) /\ Paid(h, w.log, w.calls, v.taken)
      BY <1>1, <1>2, <1>5, <1>6, <1>8, <1>11, <2>1, <2>2, PaidCall
    <2>3. Logged(h, w.log, w.calls)
      BY <1>10, <1>2, <1>11 DEF Logged
    <2>. QED  BY <1>1, <2>1, <2>2, <2>3 DEF Accounted
  <1>. QED  BY <1>9, <1>10, <1>14, <1>16, <1>18, <1>19, <1>20, <1>21, <1>22 DEF SeenIn, h

(* A row that is not drawn, in a log that has no step yet.                 *)
LEMMA SummedEarly ==
  ASSUME NEW s, NEW g, NEW log, NEW more, g.step = 0, Summed(s, g, log)
  PROVE  Summed(s, g, more)
  BY DEF Summed

(* Any other call: of a summary asked for again, of an artifact.           *)
LEMMA SeenCall ==
  ASSUME NEW s \in Session, NEW g, NEW v, NEW w, NEW r \in RowType, NEW inner, Viewed(v), SeenIn(s, g, v),
         Calling(v, w, r), r.kind \in Ancillary, r.by # "summarizer",
         r.kind # "artifact_query" => Spent(v),
         w.step = v.step, w.stop = v.stop,
         \/ w.at = v.at /\ (Spent(v) <=> Spent(w)) /\ v.at # "cutoff"
         \/ v.at = "handoff" /\ w.at = "spawn"
  PROVE  SeenIn(s, Read(g, r, inner), w)
  <1> DEFINE h == Read(g, r, inner)
             more == Append(v.log, r)
             id == IdOf(g, r)
  <1>1. /\ g \in GraphType /\ g.agent = s /\ g.step \in Nat
        /\ Shaped(s, g) /\ Known(s, g, v.log) /\ Hung(s, g, Len(v.calls), v.pend, v.nest)
        /\ Summed(s, g, v.log) /\ Told(v) /\ Stepped(s, g, v) /\ Accounted(g, v)
        /\ v.log \in Seq(RowType) /\ v.calls \in Ledgers /\ v.taken \in Ledgers
    BY SeenFacts
  <1>2. /\ r.type = "llm_call" /\ ~Opens(r) /\ Type(r) = "llm_call" /\ Type(r) \in Built
    BY DEF Calling, Opens, Type, Built
  <1>3. Spent(v) <=> Spent(w)
    BY DEF Spent
  <1>4. Range(more) = Range(v.log) \cup {r} /\ w.log = more
    BY <1>1, RangeAppend DEF Calling
  <1>5. Told(w)
    <2>1. \A q \in Range(w.log) : q \in Range(v.log) \/ q = r
      BY <1>4
    <2>2. w.kids = v.kids
      BY DEF Calling
    <2>3. \A q \in Range(v.log) : q.type = "handoff" => w.at \in {"waiting", "leaving", "raising", "done", "died"}
      BY <1>1 DEF Told
    <2>4. \A q \in Range(v.log) : q.type = "session_end" => w.at \in {"done", "died"} /\ q.links = {w.step}
      BY <1>1 DEF Told
    <2>5. ~Spent(w) => Plain(w.log)
      BY <1>1, <1>2, <1>3, <2>1 DEF Told, Plain
    <2>6. \A q \in Range(v.log) : Delegates(q) => w.kids # <<>>
      BY <1>1, <2>2 DEF Told
    <2>7. ~Delegates(r)
      BY <1>2 DEF Delegates
    <2>. QED  BY <1>2, <2>1, <2>3, <2>4, <2>5, <2>6, <2>7 DEF Told
  <1>6. w.pend = v.pend
    BY DEF Calling
  <1>7. CASE g.step = 0
    <2>1. h = g
      BY <1>2, <1>7, ReadsNothing
    <2> HIDE DEF h
    <2>2. Known(s, g, more) /\ Summed(s, g, more)
      BY <1>1, <1>4, <1>7, KnownLonger, SummedEarly
    <2>3. Stepped(s, g, w)
      BY <1>1, <1>6 DEF Stepped
    <2>4. /\ Logged(g, v.log, v.calls) /\ w.log = Append(v.log, r) /\ w.calls = Append(v.calls, r.kind)
          /\ r.kind \in CallKind
      BY <1>1 DEF Accounted, Calling
    <2>5. Logged(g, w.log, w.calls) /\ Paid(g, w.log, w.calls, w.taken)
      BY <1>1, <1>2, <1>7, <2>4, PaidIgnored
    <2>6. \A x \in DOMAIN g.nodes : ~(x[1] = s /\ x[3] = "llm_call")
      <3>1. ASSUME NEW x \in DOMAIN g.nodes, x[1] = s, x[3] = "llm_call" PROVE FALSE
        <4>1. OwnNode(s, g, v.log, x)
          BY <1>1, <3>1, RootsAre, OwnIs
        <4>. QED  BY <1>7, <4>1 DEF OwnNode
      <3>. QED  BY <3>1
    <2>7. Hung(s, g, Len(w.calls), w.pend, w.nest)
      BY <2>6 DEF Hung
    <2>. QED  BY <1>1, <1>3, <1>4, <1>5, <2>1, <2>2, <2>3, <2>5, <2>7 DEF SeenIn, Accounted, h
  <1>8. CASE g.step # 0
    <2>1. id \notin DOMAIN g.nodes
      BY <1>1, <1>2, <1>8, FreshCounted
    <2>2. Grown(g, h, id, r) /\ CountersAfter(g, h, r)
      BY <1>1, <1>2, <1>8, <2>1, ReadsNode
    <2>3. id[1] = s /\ id[2] = g.step /\ id[3] = "llm_call"
      BY <1>1, <1>2, IdIs
    <2> HIDE DEF h, id, more
    <2>4. Shaped(s, h)
      BY <1>1, <2>2, <2>3, TreeGrows
    <2>5. h.step = g.step /\ h.agent = s
      BY <1>1, <2>2 DEF Grown, SameStep
    <2>6. Known(s, g, more) /\ r \in Range(more)
      BY <1>1, <1>4, KnownLonger
    <2>7. Known(s, h, more)
      BY <1>1, <1>2, <1>8, <2>2, <2>6, KnownGrows DEF id
    <2>8. Hung(s, h, Len(w.calls), w.pend, w.nest)
      BY <1>1, <2>2, <2>3, CallHung
    <2>9. Summed(s, h, more)
      BY <1>1, <1>2, <1>4, <1>8, <2>2, SummedGrows DEF id
    <2>10. ~Spent(w) => Clean(s, h)
      <3>1. ~Spent(w) => Clean(s, g) /\ r.kind \notin {"report", "handoff"}
        BY <1>3 DEF SeenIn, Ancillary
      <3>2. /\ DOMAIN h.nodes = DOMAIN g.nodes \cup {id} /\ h.nodes[id].row = r
            /\ \A x \in DOMAIN g.nodes : h.nodes[x] = g.nodes[x]
        BY <2>2 DEF Grown
      <3>. QED  BY <3>1, <3>2, CleanKept
    <2>11. Stepped(s, h, w)
      <3>1. w.at # "cutoff"
        OBVIOUS
      <3>. QED  BY <1>1, <1>6, <2>5, <3>1 DEF Stepped
    <2>12. Accounted(h, w)
      <3>1. /\ Logged(g, v.log, v.calls) /\ r.kind \in CallKind
            /\ w.log = Append(v.log, r) /\ w.calls = Append(v.calls, r.kind)
            /\ w.kids = v.kids /\ w.taken = v.taken /\ w.sublog = v.sublog
        BY <1>1 DEF Accounted, Calling
      <3>2. ASSUME Paid(g, v.log, v.calls, v.taken)
            PROVE  Logged(h, w.log, w.calls) /\ Paid(h, w.log, w.calls, v.taken)
        BY <1>1, <1>2, <1>8, <2>2, <2>3, <2>5, <3>1, <3>2, PaidCall
      <3>3. Logged(h, w.log, w.calls)
        BY <1>2, <1>4, <1>8, <2>5 DEF Logged
      <3>. QED  BY <1>1, <3>1, <3>2, <3>3 DEF Accounted
    <2>. QED  BY <1>4, <1>5, <2>4, <2>7, <2>8, <2>9, <2>10, <2>11, <2>12 DEF SeenIn, h
  <1>. QED  BY <1>7, <1>8

(* What a row that is no call leaves as it was.                            *)
Draws(s, g, h, log, more, n, pend, nest) ==
    /\ Shaped(s, h) /\ Known(s, h, more) /\ Summed(s, h, more)
    /\ Hung(s, g, n, pend, nest) => Hung(s, h, n, pend, nest)
    /\ Clean(s, g) => Clean(s, h)
    /\ SameStep(g, h) /\ DOMAIN g.nodes \subseteq DOMAIN h.nodes
    /\ \A kind \in CallKind : CallsIn(h.nodes, kind) = CallsIn(g.nodes, kind)

(* A row of a node that is neither a call nor a tool.                      *)
LEMMA NodeDrawn ==
  ASSUME NEW s \in Session, NEW g, NEW h, NEW log, NEW more, NEW r \in RowType, NEW inner,
         NEW n, NEW pend, NEW nest, h = Read(g, r, inner),
         Shaped(s, g), Known(s, g, log), Summed(s, g, log),
         Type(r) \in Built, r.type \notin {"llm_call", "tool_call", "summarizer"},
         g.step # 0 => IdOf(g, r) \notin DOMAIN g.nodes,
         Range(more) = Range(log) \cup {r}
  PROVE  /\ Draws(s, g, h, log, more, n, pend, nest)
         /\ g.step # 0 => IdOf(g, r) \in DOMAIN h.nodes
  <1> DEFINE id == IdOf(g, r)
  <1>1. g \in GraphType /\ g.agent = s /\ g.step \in Nat /\ ~Opens(r)
    BY GraphIs DEF Shaped, Opens
  <1>2. CASE g.step = 0
    <2>1. h = g
      BY <1>1, <1>2, ReadsNothing
    <2>2. Known(s, g, more) /\ Summed(s, g, more)
      BY <1>2, KnownLonger, SummedEarly
    <2>. QED  BY <1>2, <2>1, <2>2 DEF Draws, SameStep
  <1>3. CASE g.step # 0
    <2>1. Grown(g, h, id, r) /\ CountersAfter(g, h, r)
      BY <1>1, <1>3, ReadsNode
    <2>2. id[1] = s /\ id[2] = g.step /\ id[3] = Type(r)
      BY <1>1, IdIs
    <2>3. id[3] # "llm_call"
      BY <2>2 DEF Type
    <2> HIDE DEF id
    <2>4. Shaped(s, h)
      BY <1>1, <2>1, <2>2, TreeGrows
    <2>5. Known(s, g, more) /\ r \in Range(more)
      BY KnownLonger
    <2>6. Known(s, h, more)
      BY <1>3, <2>1, <2>5, KnownGrows DEF id
    <2>7. Hung(s, g, n, pend, nest) => Hung(s, h, n, pend, nest)
      BY <2>1, <2>3, HungNode
    <2>8. Summed(s, h, more)
      BY <1>3, <2>1, SummedGrows DEF id
    <2>9. /\ DOMAIN h.nodes = DOMAIN g.nodes \cup {id} /\ SameStep(g, h)
          /\ \A x \in DOMAIN g.nodes : h.nodes[x] = g.nodes[x]
      BY <2>1 DEF Grown
    <2>10. Clean(s, g) => Clean(s, h)
      BY <2>3, <2>9, CleanKept
    <2>11. \A kind \in CallKind : CallsIn(h.nodes, kind) = CallsIn(g.nodes, kind)
      BY <2>1, <2>3, CallsOfNode
    <2>. QED  BY <2>4, <2>6, <2>7, <2>8, <2>9, <2>10, <2>11 DEF Draws, id
  <1>. QED  BY <1>2, <1>3

(* A step's finalize rows: one node, whichever comes first.                *)
LEMMA FinalizeDrawn ==
  ASSUME NEW s \in Session, NEW g, NEW h, NEW log, NEW more, NEW r \in RowType, NEW inner,
         NEW n, NEW pend, NEW nest, h = Read(g, r, inner),
         Shaped(s, g), Known(s, g, log), Summed(s, g, log), g.step # 0,
         r.type \in {"token_tracking", "finish_check"},
         Range(more) = Range(log) \cup {r}
  PROVE  Draws(s, g, h, log, more, n, pend, nest) /\ FinalizeNode(g) \in DOMAIN h.nodes
  <1>1. g \in GraphType /\ g.agent = s /\ ~Opens(r) /\ Type(r) = "finalize_step" /\ Type(r) \in Built
    BY DEF Shaped, Opens, Type, Built
  <1>2. IdOf(g, r) = FinalizeNode(g)
    BY <1>1, IdIs DEF FinalizeNode
  <1>3. CASE FinalizeNode(g) \in DOMAIN g.nodes
    <2>1. h = g
      BY <1>1, <1>2, <1>3, ReadsAgain
    <2>2. Known(s, g, more)
      BY KnownLonger
    <2>3. Summed(s, g, more)
      BY DEF Summed
    <2>. QED  BY <1>3, <2>1, <2>2, <2>3 DEF Draws, SameStep
  <1>4. CASE FinalizeNode(g) \notin DOMAIN g.nodes
    <2>1. r.type \notin {"llm_call", "tool_call", "summarizer"} /\ IdOf(g, r) \notin DOMAIN g.nodes
      BY <1>2, <1>4
    <2>2. /\ Draws(s, g, h, log, more, n, pend, nest)
          /\ g.step # 0 => IdOf(g, r) \in DOMAIN h.nodes
      BY <1>1, <2>1, NodeDrawn
    <2>. QED  BY <1>2, <2>2
  <1>. QED  BY <1>3, <1>4

(* What a row that is no call leaves as it was in a session.               *)
Keeps(v, w) ==
    /\ w.calls = v.calls /\ w.kids = v.kids /\ w.taken = v.taken /\ w.sublog = v.sublog
    /\ w.step = v.step /\ w.pend = v.pend /\ w.nest = v.nest

AddsRow(v, w, r) ==
    /\ w.log = Append(v.log, r) /\ r.type # "llm_call"
    /\ w.calls = v.calls /\ w.kids = v.kids /\ w.taken = v.taken /\ w.sublog = v.sublog
AddsNoCall(g, h) ==
    /\ h.step = g.step
    /\ \A kind \in CallKind : CallsIn(h.nodes, kind) = CallsIn(g.nodes, kind)

(* A row that draws no call leaves the accounts as they are.               *)
LEMMA RowAccounted ==
  ASSUME NEW g, NEW h, NEW v, NEW w, NEW r \in RowType, v.log \in Seq(RowType), Accounted(g, v),
         AddsRow(v, w, r), AddsNoCall(g, h)
  PROVE  Accounted(h, w)
  <1>. USE DEF AddsRow, AddsNoCall
  <1>1. Logged(g, v.log, v.calls)
    BY DEF Accounted
  <1>2. ASSUME Paid(g, v.log, v.calls, v.taken) PROVE Paid(h, w.log, w.calls, w.taken)
    BY <1>1, <1>2, PaidRow
  <1>3. Logged(h, w.log, w.calls)
    <2>1. Range(w.log) = Range(v.log) \cup {r} /\ ~Opens(r)
      BY RangeAppend DEF Opens
    <2>. QED  BY <1>1, <2>1 DEF Logged
  <1>. QED  BY <1>2, <1>3 DEF Accounted

(* The handoff row, and the report row.                                    *)
LEMMA SeenNode ==
  ASSUME NEW s \in Session, NEW g, NEW v, NEW w, NEW r \in RowType, NEW inner, Viewed(v), SeenIn(s, g, v),
         r.type \in {"handoff", "report"}, w.log = Append(v.log, r), Keeps(v, w),
         \A q \in Range(v.log) : q.type # r.type,
         \/ v.at = "done" /\ w.at = "done" /\ w.stop = v.stop
         \/ v.at \in {"handoff", "spawn"} /\ w.at = "waiting" /\ Spent(w)
  PROVE  SeenIn(s, Read(g, r, inner), w)
  <1> DEFINE h == Read(g, r, inner)
  <1>1. /\ g \in GraphType /\ g.agent = s /\ g.step \in Nat
        /\ Shaped(s, g) /\ Known(s, g, v.log) /\ Hung(s, g, Len(v.calls), v.pend, v.nest)
        /\ Summed(s, g, v.log) /\ Told(v) /\ Stepped(s, g, v) /\ Accounted(g, v)
        /\ v.log \in Seq(RowType)
    BY SeenFacts
  <1>2. Type(r) = r.type /\ Type(r) \in Built
    BY DEF Type, Built
  <1>3. Range(w.log) = Range(v.log) \cup {r}
    BY <1>1, RangeAppend
  <1>4. IdOf(g, r) \notin DOMAIN g.nodes
    <2>1. \A q \in Range(v.log) : Type(q) # r.type
      BY DEF Type
    <2>2. IdOf(g, r) = Name(s, g.step, r.type, 1)
      BY <1>1, <1>2, IdIs
    <2>3. r.type \in Built /\ 1 \in Nat
      BY DEF Built
    <2>. QED  BY <1>1, <2>1, <2>2, <2>3, FreshOnce
  <1>5. Draws(s, g, h, v.log, w.log, Len(v.calls), v.pend, v.nest)
    BY <1>1, <1>2, <1>3, <1>4, NodeDrawn
  <1> HIDE DEF h
  <1>6. Told(w)
    <2>1. w.kids = v.kids /\ w.step = v.step /\ Spent(w)
      BY DEF Keeps, Spent
    <2>. QED  BY <1>1, <1>3, <2>1 DEF Told, Delegates
  <1>7. Stepped(s, h, w)
    BY <1>1, <1>5 DEF Stepped, Keeps, Draws, SameStep
  <1>8. Accounted(h, w)
    <2>1. AddsRow(v, w, r) /\ AddsNoCall(g, h)
      BY <1>5 DEF Keeps, Draws, SameStep, AddsRow, AddsNoCall
    <2>. QED  BY <1>1, <2>1, RowAccounted
  <1>9. Spent(w)
    BY DEF Spent
  <1>. QED  BY <1>1, <1>5, <1>6, <1>7, <1>8, <1>9 DEF SeenIn, Draws, Keeps, h

(* The two rows at the end of a step.                                      *)
LEMMA SeenFinalize ==
  ASSUME NEW s \in Session, NEW g, NEW v, NEW w, NEW a \in RowType, NEW b \in RowType, NEW inner,
         Viewed(v), SeenIn(s, g, v), a.type = "token_tracking", b.type = "finish_check",
         w.log = Append(Append(v.log, a), b), Keeps(v, w), v.at = "tools",
         w.at \in {"leaving", "guard", "cutoff"}
  PROVE  SeenIn(s, Read(Read(g, a, inner), b, inner), w)
  <1> DEFINE m == Read(g, a, inner)
             h == Read(m, b, inner)
             mid == Append(v.log, a)
  <1>1. /\ g \in GraphType /\ g.agent = s /\ g.step \in Nat
        /\ Shaped(s, g) /\ Known(s, g, v.log) /\ Hung(s, g, Len(v.calls), v.pend, v.nest)
        /\ Summed(s, g, v.log) /\ Told(v) /\ Stepped(s, g, v) /\ Accounted(g, v)
        /\ v.log \in Seq(RowType)
    BY SeenFacts
  <1>2. g.step # 0 /\ v.step = Base(s) + g.step
    BY <1>1 DEF Stepped
  <1>3. mid \in Seq(RowType) /\ Range(mid) = Range(v.log) \cup {a} /\ Range(w.log) = Range(mid) \cup {b}
    <2>1. mid \in Seq(RowType) /\ Range(mid) = Range(v.log) \cup {a}
      BY <1>1, AppendProperties, RangeAppend
    <2>2. w.log = Append(mid, b)
      OBVIOUS
    <2> HIDE DEF mid
    <2>. QED  BY <2>1, <2>2, RangeAppend
  <1>4. Draws(s, g, m, v.log, mid, Len(v.calls), v.pend, v.nest)
    BY <1>1, <1>2, <1>3, FinalizeDrawn
  <1>5. Shaped(s, m) /\ Known(s, m, mid) /\ Summed(s, m, mid) /\ m.step = g.step /\ m.agent = s
    BY <1>1, <1>4 DEF Draws, SameStep
  <1>6. Draws(s, m, h, mid, w.log, Len(v.calls), v.pend, v.nest) /\ FinalizeNode(m) \in DOMAIN h.nodes
    BY <1>2, <1>3, <1>5, FinalizeDrawn
  <1> HIDE DEF m, h
  <1>7. h.step = g.step /\ FinalizeNode(h) \in DOMAIN h.nodes
    <2>1. h.step = m.step /\ h.agent = m.agent
      BY <1>6 DEF Draws, SameStep
    <2>. QED  BY <1>5, <1>6, <2>1 DEF FinalizeNode
  <1>8. ~Spent(v)
    BY DEF Spent
  <1>9. Told(w)
    <2>1. \A q \in Range(w.log) : q \in Range(v.log) \/ q = a \/ q = b
      BY <1>3
    <2>2. w.kids = v.kids
      BY DEF Keeps
    <2>. QED  BY <1>1, <1>8, <2>1, <2>2 DEF Told, Plain, Delegates
  <1>10. Stepped(s, h, w)
    BY <1>2, <1>7 DEF Stepped, Keeps
  <1>11. Clean(s, h)
    BY <1>4, <1>6, <1>8 DEF SeenIn, Draws
  <1>12. Accounted(h, w)
    <2> DEFINE u == [v EXCEPT !.log = mid]
    <2>1. u.log = mid /\ u.calls = v.calls /\ u.kids = v.kids /\ u.taken = v.taken /\ u.sublog = v.sublog
      BY DEF Viewed, ViewType
    <2>2. AddsRow(v, u, a) /\ AddsNoCall(g, m)
      BY <1>4, <1>5, <2>1 DEF AddsRow, AddsNoCall, Draws
    <2>3. AddsRow(u, w, b) /\ AddsNoCall(m, h) /\ u.log \in Seq(RowType)
      BY <1>3, <1>5, <1>6, <1>7, <2>1 DEF AddsRow, AddsNoCall, Draws, Keeps
    <2> HIDE DEF u, mid
    <2>4. Accounted(m, u)
      BY <1>1, <2>2, RowAccounted
    <2>. QED  BY <2>3, <2>4, RowAccounted
  <1>. QED  BY <1>1, <1>4, <1>6, <1>9, <1>10, <1>11, <1>12 DEF SeenIn, Draws, Keeps, h, m

(* A summary: its call, and the summarizer's row.                          *)
LEMMA SeenSummary ==
  ASSUME NEW s \in Session, NEW g, NEW v, NEW w, NEW x, NEW c \in RowType, NEW u \in RowType, NEW inner,
         Viewed(v), SeenIn(s, g, v), Calling(v, x, c), AddsRow(x, w, u), x.pend = w.pend, x.nest = w.nest,
         c.kind \in {"report", "handoff"}, c.by = "summarizer",
         u.type = "summarizer", u.kind = c.kind, u.by = "finalize_step" => v.at = "cutoff",
         v.at \in {"guard", "cutoff"}, v.pend = "none", w.at \in {"leaving", "handoff"}, w.step = v.step
  PROVE  SeenIn(s, Read(Read(g, c, inner), u, inner), w)
  <1> DEFINE m == Read(g, c, inner)
             h == Read(m, u, inner)
             i == IdOf(g, c)
             j == IdOf(m, u)
  <1>1. /\ g \in GraphType /\ g.agent = s /\ g.step \in Nat
        /\ Shaped(s, g) /\ Known(s, g, v.log) /\ Hung(s, g, Len(v.calls), v.pend, v.nest)
        /\ Summed(s, g, v.log) /\ Told(v) /\ Stepped(s, g, v) /\ Accounted(g, v)
        /\ v.log \in Seq(RowType) /\ v.calls \in Ledgers /\ v.taken \in Ledgers
    BY SeenFacts
  <1>2. /\ c.type = "llm_call" /\ ~Opens(c) /\ Type(c) = "llm_call" /\ Type(c) \in Built
        /\ ~Opens(u) /\ Type(u) = "summarizer" /\ Type(u) \in Built
    BY DEF Calling, Opens, Ancillary, Type, Built
  <1>3. ~Spent(v) /\ Spent(w) /\ Plain(v.log) /\ Clean(s, g) /\ v.step = Base(s) + g.step
    BY <1>1 DEF Spent, Told, SeenIn, Stepped
  <1>4. /\ x.log = Append(v.log, c) /\ w.log = Append(x.log, u) /\ c.kind \in CallKind
        /\ x.calls = Append(v.calls, c.kind) /\ w.calls = x.calls /\ w.pend = "none"
        /\ w.kids = v.kids /\ x.kids = v.kids /\ x.taken = v.taken /\ x.sublog = v.sublog
    BY DEF Calling, AddsRow
  <1>5. x.log \in Seq(RowType) /\ Range(x.log) = Range(v.log) \cup {c} /\ Range(w.log) = Range(x.log) \cup {u}
    <2>1. x.log \in Seq(RowType) /\ Range(x.log) = Range(v.log) \cup {c}
      BY <1>1, <1>4, AppendProperties, RangeAppend
    <2>. QED  BY <1>4, <2>1, RangeAppend
  <1>6. Told(w)
    <2>1. \A q \in Range(w.log) : q \in Range(v.log) \/ q = c \/ q = u
      BY <1>5
    <2>. QED  BY <1>1, <1>2, <1>3, <1>4, <2>1 DEF Told, Plain, Delegates
  <1>7. u.by = "finalize_step" => FinalizeNode(g) \in DOMAIN g.nodes
    BY <1>1 DEF Stepped
  <1>8. CASE g.step = 0
    <2>1. m = g /\ h = g
      <3>1. m = g
        BY <1>2, <1>8, ReadsNothing
      <3> HIDE DEF m
      <3>. QED  BY <1>2, <1>8, <3>1, ReadsNothing
    <2> HIDE DEF m, h
    <2>2. Known(s, g, w.log) /\ Summed(s, g, w.log)
      BY <1>1, <1>5, <1>8, KnownLonger, SummedEarly
    <2>3. Stepped(s, g, w)
      BY <1>1, <1>3, <1>4, <1>7 DEF Stepped
    <2>4. Logged(g, x.log, x.calls) /\ Paid(g, x.log, x.calls, x.taken)
      BY <1>1, <1>2, <1>4, <1>8, PaidIgnored DEF Accounted
    <2>5. Accounted(g, w)
      <3>1. Accounted(g, x) /\ AddsNoCall(g, g)
        BY <2>4 DEF Accounted, AddsNoCall
      <3>. QED  BY <1>5, <3>1, RowAccounted
    <2>6. Hung(s, g, Len(w.calls), w.pend, w.nest)
      <3>1. ASSUME NEW y \in DOMAIN g.nodes, y[1] = s, y[3] = "llm_call" PROVE FALSE
        <4>1. OwnNode(s, g, v.log, y)
          BY <1>1, <3>1, RootsAre, OwnIs
        <4>. QED  BY <1>8, <4>1 DEF OwnNode
      <3>. QED  BY <3>1 DEF Hung
    <2>. QED  BY <1>1, <1>3, <1>6, <2>1, <2>2, <2>3, <2>5, <2>6 DEF SeenIn, h, m
  <1>9. CASE g.step # 0
    <2>1. i \notin DOMAIN g.nodes
      BY <1>1, <1>2, <1>9, FreshCounted
    <2>2. Grown(g, m, i, c) /\ CountersAfter(g, m, c)
      BY <1>1, <1>2, <1>9, <2>1, ReadsNode
    <2>3. i[1] = s /\ i[2] = g.step /\ i[3] = "llm_call"
      BY <1>1, <1>2, IdIs
    <2> HIDE DEF m, i
    <2>4. Shaped(s, m) /\ m.step = g.step /\ m.agent = s /\ m \in GraphType
      <3>1. Shaped(s, m)
        BY <1>1, <2>2, <2>3, TreeGrows
      <3>. QED  BY <1>1, <2>2, <3>1 DEF Grown, SameStep
    <2>5. Known(s, g, x.log) /\ c \in Range(x.log)
      BY <1>1, <1>5, KnownLonger
    <2>6. Known(s, m, x.log)
      BY <1>1, <1>2, <1>9, <2>2, <2>5, KnownGrows DEF i
    <2>7. j = Summarizer(m)
      BY <1>2, <2>4, IdIs DEF Summarizer
    <2>8. j \notin DOMAIN m.nodes
      <3>1. \A q \in Range(x.log) : Type(q) # "summarizer"
        BY <1>2, <1>3, <1>5 DEF Plain, Type
      <3>2. j = Name(s, m.step, "summarizer", 1) /\ "summarizer" \in Built /\ 1 \in Nat
        BY <2>4, <2>7 DEF Summarizer, Built
      <3>. QED  BY <2>4, <2>6, <3>1, <3>2, FreshOnce
    <2>9. Grown(m, h, j, u) /\ CountersAfter(m, h, u)
      BY <1>2, <1>9, <2>4, <2>8, ReadsNode
    <2>10. j[1] = s /\ j[3] = "summarizer"
      BY <1>2, <2>4, IdIs
    <2> HIDE DEF h, j
    <2>11. Shaped(s, h) /\ h.step = g.step
      BY <2>4, <2>9, <2>10, TreeGrows DEF Grown, SameStep
    <2>12. Known(s, m, w.log) /\ u \in Range(w.log)
      BY <1>5, <2>6, KnownLonger
    <2>13. Known(s, h, w.log)
      BY <1>2, <1>9, <2>4, <2>9, <2>12, KnownGrows DEF j
    <2>14. Hung(s, m, Len(w.calls), w.pend, w.nest)
      <3>1. Hung(s, m, Len(x.calls), x.pend, x.nest)
        BY <1>1, <2>2, <2>3, CallHung
      <3>. QED  BY <1>4, <3>1
    <2>15. Hung(s, h, Len(w.calls), w.pend, w.nest)
      BY <2>9, <2>10, <2>14, HungNode
    <2>16. Summed(s, h, w.log)
      <3>1. \A q \in Range(w.log) : q \in Range(v.log) \/ q = c \/ q = u
        BY <1>5
      <3>. QED  BY <1>1, <1>2, <1>3, <1>7, <2>2, <2>9, <3>1, SummedPair DEF i, j
    <2>17. Stepped(s, h, w)
      BY <1>3, <1>4, <1>9, <2>11 DEF Stepped
    <2>18. Accounted(h, w)
      <3>1. Logged(g, v.log, v.calls)
        BY <1>1 DEF Accounted
      <3>2. ASSUME Paid(g, v.log, v.calls, v.taken)
            PROVE  Paid(m, x.log, x.calls, x.taken)
        <4>1. m.step # 0
          BY <1>9, <2>4
        <4>2. Paid(m, Append(v.log, c), Append(v.calls, c.kind), v.taken)
          BY <1>1, <1>2, <1>4, <2>2, <2>3, <3>1, <3>2, <4>1, PaidCall
        <4>. QED  BY <1>4, <4>2
      <3>3. Logged(m, x.log, x.calls)
        BY <1>2, <1>5, <1>9, <2>4 DEF Logged
      <3>4. Accounted(m, x)
        BY <1>1, <1>4, <3>2, <3>3 DEF Accounted
      <3>5. AddsNoCall(m, h)
        <4>1. \A kind \in CallKind : CallsIn(h.nodes, kind) = CallsIn(m.nodes, kind)
          BY <2>4, <2>9, <2>10, CallsOfNode
        <4>. QED  BY <2>4, <2>11, <4>1 DEF AddsNoCall
      <3>. QED  BY <1>5, <3>4, <3>5, RowAccounted
    <2>. QED  BY <1>3, <1>6, <2>11, <2>13, <2>15, <2>16, <2>17, <2>18 DEF SeenIn, h, m
  <1>. QED  BY <1>8, <1>9

(* A tool's row: its node takes over the calls made in it.                 *)
ToolTook(s, g, q, id, v, r) ==
    LET more == Append(v.log, r) IN
    /\ Shaped(s, q) /\ Known(s, q, more) /\ Hung(s, q, Len(v.calls), "none", {})
    /\ Summed(s, q, more) /\ (Clean(s, g) => Clean(s, q))
    /\ SameStep(g, q) /\ AddsNoCall(g, q)
    /\ id \in DOMAIN q.nodes /\ id[1] = s /\ id[3] = "tool_call" /\ id \in NodeNames
    /\ \A x \in DOMAIN q.nodes : x \in DOMAIN g.nodes \/ x = id

(* A tool's row takes over the calls made in it.                           *)
LEMMA ToolTakes ==
  ASSUME NEW s \in Session, NEW g, NEW v, NEW r \in RowType, NEW inner, Viewed(v), SeenIn(s, g, v),
         r.type = "tool_call", r.links = v.nest, v.pend # "none"
  PROVE  \E q, id : /\ ToolTook(s, g, q, id, v, r)
                    /\ Read(g, r, inner) = IF Delegates(r) THEN Embedded(q, id, inner) ELSE q
  <1> DEFINE id == IdOf(g, r)
             more == Append(v.log, r)
             h == Read(g, r, inner)
  <1>1. /\ g \in GraphType /\ g.agent = s /\ g.step \in Nat
        /\ Shaped(s, g) /\ Known(s, g, v.log) /\ Hung(s, g, Len(v.calls), v.pend, v.nest)
        /\ Summed(s, g, v.log) /\ Stepped(s, g, v) /\ v.log \in Seq(RowType)
    BY SeenFacts
  <1>2. ~Opens(r) /\ Type(r) = "tool_call" /\ Type(r) \in Built
    BY DEF Opens, Type, Built
  <1>3. g.step # 0
    BY <1>1 DEF Stepped
  <1>4. id \notin DOMAIN g.nodes
    BY <1>1, <1>3, FreshCounted
  <1>5. /\ id[1] = s /\ id[2] = g.step /\ id[3] = "tool_call" /\ id \in NodeNames
    BY <1>1, <1>2, IdIs
  <1>6. PICK m, q : /\ Grown(g, m, id, r) /\ CountersAfter(g, m, r)
                    /\ Took(m, q, id, r.links)
                    /\ h = IF Delegates(r) THEN Embedded(q, id, inner) ELSE q
    BY <1>1, <1>3, <1>4, ReadsTool
  <1>7. Range(more) = Range(v.log) \cup {r}
    BY <1>1, RangeAppend
  <1> HIDE DEF id, h, more
  <1>8. /\ m \in GraphType /\ m.agent = s /\ m.step = g.step /\ DOMAIN m.nodes = DOMAIN g.nodes \cup {id}
        /\ m.nodes[id].row = r /\ \A x \in DOMAIN g.nodes : m.nodes[x] = g.nodes[x]
    BY <1>1, <1>6 DEF Grown, SameStep
  <1>9. /\ Moved(m, q) /\ q.agent = s /\ q.step = g.step /\ DOMAIN q.nodes = DOMAIN m.nodes
        /\ \A x \in DOMAIN m.nodes : q.nodes[x].row = m.nodes[x].row
    BY <1>6, <1>8 DEF Took, Moved, SameStep
  <1>10. Shaped(s, m)
    BY <1>1, <1>5, <1>6, TreeGrows
  <1>11. Hung(s, m, Len(v.calls), v.pend, v.nest)
    BY <1>1, <1>5, <1>6, HungNode
  <1>12. Hung(s, q, Len(v.calls), "none", {})
    BY <1>5, <1>6, <1>8, <1>11, HungTook
  <1>13. Shaped(s, q)
    <2>1. ASSUME NEW x \in DOMAIN m.nodes \ {Root(s)}, q.nodes[x].parent # m.nodes[x].parent
          PROVE  q.nodes[x].parent \in DOMAIN m.nodes /\ Above(q.nodes[x].parent, x)
      <3>1. /\ x[1] = s /\ x[3] = "llm_call" /\ m.nodes[x].row.links \subseteq v.nest
            /\ q.nodes[x].parent = id
        BY <1>6, <1>8, <2>1 DEF Took
      <3>2. HungAt(s, m.step, x, m.nodes[x], Len(v.calls), v.pend, v.nest)
        BY <1>11, <2>1, <3>1 DEF Hung
      <3>3. ~(m.nodes[x].row.links \cap v.nest = {})
        BY <3>1, <3>2 DEF HungAt
      <3>4. x[2] = g.step
        BY <1>8, <3>2, <3>3 DEF HungAt
      <3>. QED  BY <1>5, <1>8, <3>1, <3>4 DEF Above
    <2>. QED  BY <1>9, <1>10, <2>1, TreeMoves
  <1>14. Known(s, q, more)
    <2>1. Known(s, g, more) /\ r \in Range(more)
      BY <1>1, <1>7, KnownLonger
    <2>2. Known(s, m, more)
      BY <1>1, <1>2, <1>3, <1>6, <2>1, KnownGrows DEF id
    <2>. QED  BY <1>9, <2>2, KnownMoved
  <1>15. Summed(s, q, more)
    <2>1. Summed(s, m, more)
      BY <1>1, <1>2, <1>3, <1>6, <1>7, SummedGrows DEF id
    <2>. QED  BY <1>9, <2>1, SummedMoved
  <1>16. ASSUME Clean(s, g) PROVE Clean(s, q)
    <2>1. ASSUME NEW x \in DOMAIN q.nodes, x[3] = "llm_call"
          PROVE  x \in DOMAIN g.nodes /\ q.nodes[x].row = g.nodes[x].row
      BY <1>5, <1>8, <1>9, <2>1
    <2>. QED  BY <1>16, <2>1, CleanKept
  <1>17. AddsNoCall(g, q)
    <2>1. ASSUME NEW kind \in CallKind PROVE CallsIn(q.nodes, kind) = CallsIn(g.nodes, kind)
      <3>1. CallsIn(m.nodes, kind) = CallsIn(g.nodes, kind)
        <4>1. Shaped(s, g) /\ Grown(g, m, id, r) /\ id[3] # "llm_call"
          BY <1>1, <1>5, <1>6
        <4>. QED  BY <4>1, CallsOfNode
      <3>. QED  BY <1>9, <3>1, CallsOfMoved
    <2>. QED  BY <1>9, <2>1 DEF AddsNoCall
  <1>18. ToolTook(s, g, q, id, v, r)
    BY <1>1, <1>5, <1>8, <1>9, <1>12, <1>13, <1>14, <1>15, <1>16, <1>17 DEF ToolTook, SameStep, more
  <1>. QED  BY <1>6, <1>18 DEF h

(* Where the tool's end leaves its session.                                *)
ToolEnds(v, w, r) ==
    /\ r.type = "tool_call" /\ r.links = v.nest /\ v.pend # "none" /\ v.at = "tool"
    /\ w.log = Append(v.log, r) /\ w.calls = v.calls /\ w.pend = "none" /\ w.nest = {}
    /\ w.at = "tools" /\ w.step = v.step

(* What the log says once a tool is over.                                  *)
LEMMA ToolOverTold ==
  ASSUME NEW s \in Session, NEW g, NEW v, NEW w, NEW r \in RowType, Viewed(v), SeenIn(s, g, v),
         ToolEnds(v, w, r), v.kids # <<>> \/ Delegates(r) => w.kids # <<>>
  PROVE  Told(w) /\ g.step # 0 /\ w.step = Base(s) + g.step /\ Clean(s, g)
  <1>1. Told(v) /\ Stepped(s, g, v) /\ v.log \in Seq(RowType)
    BY SeenFacts
  <1>2. ~Spent(v) /\ Plain(v.log) /\ Clean(s, g)
    BY <1>1 DEF SeenIn, Spent, Told, ToolEnds
  <1>3. Range(w.log) = Range(v.log) \cup {r}
    BY <1>1, RangeAppend DEF ToolEnds
  <1>4. Told(w)
    BY <1>1, <1>2, <1>3 DEF Told, Plain, Delegates, ToolEnds
  <1>. QED  BY <1>1, <1>2, <1>4 DEF Stepped, ToolEnds

(* The end of a tool but delegate.                                         *)
LEMMA SeenTool ==
  ASSUME NEW s \in Session, NEW g, NEW v, NEW w, NEW r \in RowType, NEW inner, Viewed(v), SeenIn(s, g, v),
         ToolEnds(v, w, r), ~Delegates(r),
         w.kids = v.kids, w.taken = v.taken, w.sublog = v.sublog
  PROVE  SeenIn(s, Read(g, r, inner), w)
  <1>1. PICK q, id : ToolTook(s, g, q, id, v, r) /\ Read(g, r, inner) = q
    BY ToolTakes DEF ToolEnds
  <1>2. Told(w) /\ g.step # 0 /\ w.step = Base(s) + g.step /\ Clean(s, g)
    BY ToolOverTold DEF Delegates
  <1>3. q.step = g.step /\ AddsNoCall(g, q)
    BY <1>1 DEF ToolTook, SameStep
  <1>4. Stepped(s, q, w)
    BY <1>2, <1>3 DEF Stepped, ToolEnds
  <1>5. Accounted(q, w)
    <2>1. AddsRow(v, w, r) /\ Accounted(g, v) /\ v.log \in Seq(RowType)
      BY SeenFacts DEF AddsRow, ToolEnds
    <2>. QED  BY <1>3, <2>1, RowAccounted
  <1>. QED  BY <1>1, <1>2, <1>4, <1>5 DEF SeenIn, ToolTook, ToolEnds

(* The end of a delegation: the subagent's tree comes under the tool.      *)
LEMMA SeenDelegate ==
  ASSUME NEW s \in Session, NEW g, NEW v, NEW w, NEW r \in RowType, NEW inner, Viewed(v), SeenIn(s, g, v),
         ToolEnds(v, w, r), Delegates(r), s # "sub",
         v.kids = <<>>, v.taken = <<>>, w.kids # <<>>, w.taken \in Ledgers,
         Shaped("sub", inner), \A x \in DOMAIN inner.nodes : x[1] = "sub",
         Grouped(w.sublog) => \A kind \in CallKind : CallsIn(inner.nodes, kind) = CountOf(w.taken, kind)
  PROVE  SeenIn(s, Read(g, r, inner), w)
  <1> DEFINE h == Read(g, r, inner)
             more == Append(v.log, r)
  <1>1. PICK q, id : ToolTook(s, g, q, id, v, r) /\ h = Embedded(q, id, inner)
    BY ToolTakes DEF ToolEnds
  <1>2. Told(w) /\ g.step # 0 /\ w.step = Base(s) + g.step /\ Clean(s, g)
    BY ToolOverTold
  <1>3. /\ Shaped(s, g) /\ Known(s, g, v.log) /\ Told(v) /\ Accounted(g, v) /\ v.log \in Seq(RowType)
        /\ v.calls \in Ledgers
    BY SeenFacts
  <1>4. /\ Shaped(s, q) /\ Known(s, q, more) /\ Hung(s, q, Len(v.calls), "none", {})
        /\ Summed(s, q, more) /\ Clean(s, q) /\ q.step = g.step /\ AddsNoCall(g, q)
        /\ id \in DOMAIN q.nodes /\ id[1] = s /\ id[3] = "tool_call" /\ id \in NodeNames
        /\ \A x \in DOMAIN q.nodes : x \in DOMAIN g.nodes \/ x = id
    BY <1>1, <1>2 DEF ToolTook, SameStep
  <1>5. \A x \in DOMAIN q.nodes : x[1] = s
    <2>1. ASSUME NEW x \in DOMAIN g.nodes PROVE x[1] = s
      <3>1. \A y \in Range(v.log) : ~Delegates(y)
        BY <1>3 DEF Told
      <3>. QED  BY <1>3, <3>1, RootsAre DEF Known, OwnNode, OthersNode
    <2>. QED  BY <1>4, <2>1
  <1>6. DOMAIN q.nodes \cap DOMAIN inner.nodes = {}
    BY <1>5
  <1> HIDE DEF h
  <1>7. Joined(q, h, id, inner)
    BY <1>1, <1>4, EmbeddedDoes DEF Shaped
  <1>8. Shaped(s, h)
    BY <1>1, <1>4, <1>6, TreeEmbeds
  <1>9. Hung(s, h, Len(v.calls), "none", {}) /\ Summed(s, h, more) /\ Clean(s, h)
    BY <1>4, <1>7, HungJoined, SummedJoined DEF Shaped
  <1>10. h.step = g.step /\ h.llm = q.llm /\ h.tool = q.tool
    BY <1>4, <1>7 DEF Joined, SameStep
  <1>11. Range(more) = Range(v.log) \cup {r}
    BY <1>3, RangeAppend
  <1>12. Known(s, h, more)
    <2>1. ASSUME NEW x \in DOMAIN q.nodes PROVE x = Root(s) \/ OwnNode(s, h, more, x)
      <3>1. h.nodes[x] = q.nodes[x]
        BY <1>6, <1>7, <2>1 DEF Joined
      <3>2. x = Root(s) \/ OwnNode(s, q, more, x)
        BY <1>4, <1>5, <2>1 DEF Known, OthersNode
      <3>. QED  BY <1>4, <1>10, <3>1, <3>2 DEF OwnNode
    <2>2. ASSUME NEW x \in DOMAIN inner.nodes PROVE OthersNode(s, more, x)
      <3>1. r \in Range(more) /\ Delegates(r)
        BY <1>11 DEF Delegates, ToolEnds
      <3>. QED  BY <2>2, <3>1 DEF OthersNode
    <2>3. \A x \in DOMAIN h.nodes : x \in DOMAIN q.nodes \/ x \in DOMAIN inner.nodes
      BY <1>7 DEF Joined
    <2>. QED  BY <2>1, <2>2, <2>3 DEF Known
  <1>13. Stepped(s, h, w)
    BY <1>2, <1>10 DEF Stepped, ToolEnds
  <1>14. Accounted(h, w)
    <2>1. Logged(g, v.log, v.calls) /\ Paid(g, v.log, v.calls, <<>>)
      BY <1>3 DEF Accounted
    <2>2. /\ w.log = more /\ w.calls = v.calls /\ r.type # "llm_call" /\ more = Append(v.log, r)
      BY DEF ToolEnds
    <2>3. Logged(q, more, v.calls) /\ Paid(q, more, v.calls, <<>>)
      BY <1>3, <1>4, <2>1, <2>2, PaidRow DEF AddsNoCall
    <2> HIDE DEF more
    <2>4. Logged(h, w.log, w.calls)
      BY <1>4, <1>10, <2>2, <2>3 DEF Logged
    <2>5. ASSUME Grouped(w.sublog) PROVE Paid(h, w.log, w.calls, w.taken)
      <3>1. ASSUME NEW kind \in CallKind, v.calls = <<>> \/ Grouped(more)
            PROVE  CallsIn(h.nodes, kind) = CountOf(v.calls, kind) + CountOf(w.taken, kind)
        <4>1. CallsIn(q.nodes, kind) = CountOf(v.calls, kind) + CountOf(<<>>, kind)
          BY <2>3, <3>1 DEF Paid
        <4>2. CallsIn(inner.nodes, kind) = CountOf(w.taken, kind)
          BY <2>5, <3>1
        <4>3. CallsIn(h.nodes, kind) = CallsIn(q.nodes, kind) + CallsIn(inner.nodes, kind)
          <5>1. /\ DOMAIN h.nodes = DOMAIN q.nodes \cup DOMAIN inner.nodes
                /\ \A x \in DOMAIN q.nodes : h.nodes[x].row = q.nodes[x].row
                /\ \A x \in DOMAIN inner.nodes : h.nodes[x].row = inner.nodes[x].row
            BY <1>6, <1>7 DEF Joined
          <5>2. IsFiniteSet(DOMAIN q.nodes) /\ IsFiniteSet(DOMAIN inner.nodes)
            BY <1>4 DEF Shaped
          <5>3. Merged(q.nodes, inner.nodes, h.nodes)
            BY <1>6, <5>1, <5>2 DEF Merged
          <5>. QED  BY <5>3, CallsJoin
        <4>4. CountOf(v.calls, kind) \in Nat /\ CountOf(<<>>, kind) = 0 /\ CountOf(w.taken, kind) \in Nat
          BY <1>3, <3>1, CountsAppend, CountsNone
        <4>. QED  BY <4>1, <4>2, <4>3, <4>4
      <3>. QED  BY <2>2, <3>1 DEF Paid
    <2>. QED  BY <2>4, <2>5 DEF Accounted
  <1>15. w.log = more /\ w.calls = v.calls /\ w.pend = "none" /\ w.nest = {}
    BY DEF ToolEnds
  <1> HIDE DEF more
  <1>. QED  BY <1>2, <1>8, <1>9, <1>12, <1>13, <1>14, <1>15 DEF SeenIn, h

-----------------------------------------------------------------------------
(* The tree drawn of what has been read: the last step nested, and the end *)
(* of the session.                                                         *)
Drawing(s, g, t) ==
    \/ t = Nest(g)
    \/ \E r \in RowType : t = Added(Nest(g), Name(s, 0, "session_end", 1), r)

(* The finished drawing is the graph read, nested, and the end.            *)
LEMMA DrawingIs ==
  ASSUME NEW s \in Session, NEW g, NEW log, NEW t, Shaped(s, g), Known(s, g, log), Summed(s, g, log),
         Drawing(s, g, t)
  PROVE  /\ Shaped(s, t) /\ t.step = g.step
         /\ \A kind \in CallKind : CallsIn(t.nodes, kind) = CallsIn(g.nodes, kind)
         /\ \A x \in DOMAIN t.nodes : x[1] = s \/ x \in DOMAIN g.nodes
         /\ \A x \in DOMAIN t.nodes :
               x[3] = "llm_call" => x \in DOMAIN g.nodes /\ t.nodes[x] = Nest(g).nodes[x]
  <1> DEFINE n == Nest(g)
             id == Name(s, 0, "session_end", 1)
  <1>1. Shaped(s, n) /\ Moved(g, n)
    BY NestShaped, NestDoes
  <1> HIDE DEF n
  <1>2. /\ n \in GraphType /\ n.agent = s /\ n.step = g.step /\ DOMAIN n.nodes = DOMAIN g.nodes
        /\ \A kind \in CallKind : CallsIn(n.nodes, kind) = CallsIn(g.nodes, kind)
    <2>1. \A kind \in CallKind : CallsIn(n.nodes, kind) = CallsIn(g.nodes, kind)
      BY <1>1, CallsOfMoved
    <2>. QED  BY <1>1, <2>1 DEF Moved, SameStep, Shaped
  <1>3. CASE t = n
    BY <1>1, <1>2, <1>3 DEF n
  <1>4. ASSUME NEW r \in RowType, t = Added(n, id, r)
        PROVE  /\ Shaped(s, t) /\ t.step = g.step
               /\ \A kind \in CallKind : CallsIn(t.nodes, kind) = CallsIn(g.nodes, kind)
               /\ \A x \in DOMAIN t.nodes : x[1] = s \/ x \in DOMAIN g.nodes
               /\ \A x \in DOMAIN t.nodes :
                     x[3] = "llm_call" => x \in DOMAIN g.nodes /\ t.nodes[x] = Nest(g).nodes[x]
    <2>1. id \in NodeNames /\ id[1] = s /\ id[2] = 0 /\ id[3] = "session_end"
      <3>1. s \in Session \cup {"none"} /\ 0 \in Nat /\ 1 \in Nat /\ "session_end" \in Drawn
        BY DEF Drawn
      <3>. QED  BY <3>1, NamesAre
    <2> HIDE DEF id
    <2>2. id \notin DOMAIN n.nodes
      <3>1. SUFFICES ASSUME id \in DOMAIN g.nodes PROVE FALSE
        BY <1>2
      <3>2. id # Root(s)
        BY <2>1, RootsAre
      <3>3. OwnNode(s, g, log, id)
        BY <2>1, <3>1, <3>2, OwnIs
      <3>4. g.step \in Nat
        BY GraphIs DEF Shaped
      <3>. QED  BY <2>1, <3>3, <3>4 DEF OwnNode
    <2>3. Grown(n, t, id, r)
      BY <1>2, <1>4, <2>1, <2>2, AddedDoes
    <2>4. Shaped(s, t)
      BY <1>1, <2>1, <2>3, TreeGrows
    <2>5. \A kind \in CallKind : CallsIn(t.nodes, kind) = CallsIn(n.nodes, kind)
      BY <1>1, <2>1, <2>3, CallsOfNode
    <2>6. /\ t.step = n.step /\ DOMAIN t.nodes = DOMAIN n.nodes \cup {id}
          /\ \A x \in DOMAIN n.nodes : t.nodes[x] = n.nodes[x]
      BY <2>3 DEF Grown, SameStep
    <2>. QED  BY <1>2, <2>1, <2>4, <2>5, <2>6 DEF n
  <1>. QED  BY <1>3, <1>4 DEF Drawing, n, id

(* In it every call hangs under what made it.                              *)
HangsIn(s, x, node, log, pend) ==
    /\ node.row.by = "tool" =>
         \/ node.parent[1] = s /\ node.parent[2] = x[2] /\ node.parent[3] = "tool_call"
         \/ node.parent = Root(s) /\ pend # "none"
    /\ node.row.by = "summarizer" =>
         node.parent = IF Triggers(log) THEN Name(s, x[2], "summarizer", 1) ELSE Root(s)
    /\ node.row.by \notin {"tool", "summarizer"} => node.parent = Root(s)

(* When it is finished every call hangs under its maker.                   *)
LEMMA CallsHang ==
  ASSUME NEW s \in Session, NEW g, NEW log, NEW n, NEW pend, NEW nest,
         Shaped(s, g), Known(s, g, log), Summed(s, g, log), Hung(s, g, n, pend, nest),
         NEW x \in DOMAIN g.nodes, x[1] = s, x[3] = "llm_call"
  PROVE  HangsIn(s, x, Nest(g).nodes[x], log, pend)
  <1> DEFINE h == Nest(g)
  <1>1. /\ Moved(g, h)
        /\ ~Nests(g) => h = g
        /\ Nests(g) => \A y \in DOMAIN g.nodes :
              h.nodes[y].parent =
                 IF y = Summarizer(g) THEN Trigger(g)
                 ELSE IF y[1] = s /\ y[3] = "llm_call" /\ g.nodes[y].row.by = "summarizer"
                      THEN Summarizer(g) ELSE g.nodes[y].parent
    BY NestDoes
  <1> HIDE DEF h
  <1>2. h.nodes[x].row = g.nodes[x].row
    BY <1>1 DEF Moved
  <1>3. HungAt(s, g.step, x, g.nodes[x], n, pend, nest)
    BY DEF Hung
  <1>4. g.agent = s /\ Summarizer(g)[3] = "summarizer"
    BY DEF Shaped, Summarizer, Name
  <1>5. CASE g.nodes[x].row.by = "summarizer"
    <2>1. There(g) /\ FirstOfKind(g, x)
      BY <1>5 DEF Summed
    <2>2. x[2] = g.step /\ Summarizer(g) = Name(s, x[2], "summarizer", 1)
      BY <1>4, <2>1 DEF FirstOfKind, KindCalls, Summarizer
    <2>3. Nests(g) <=> Triggers(log)
      BY <2>1, NestsWhenTriggered
    <2>4. g.nodes[x].parent = Root(s)
      BY <1>3, <1>5 DEF HungAt
    <2>5. Nests(g) => h.nodes[x].parent = Summarizer(g)
      BY <1>1, <1>4, <1>5
    <2>6. h.nodes[x].parent = IF Triggers(log) THEN Name(s, x[2], "summarizer", 1) ELSE Root(s)
      BY <1>1, <2>2, <2>3, <2>4, <2>5
    <2>. QED  BY <1>2, <1>5, <2>6 DEF HangsIn, h
  <1>6. CASE g.nodes[x].row.by # "summarizer"
    <2>1. h.nodes[x].parent = g.nodes[x].parent
      BY <1>1, <1>4, <1>6
    <2>. QED  BY <1>2, <1>3, <1>6, <2>1 DEF HungAt, HangsIn, h
  <1>. QED  BY <1>5, <1>6

-----------------------------------------------------------------------------
(* The invariant of the run.  Who waits in the middle of the stack waits   *)
(* for a continuation, saved, or for a subagent, in a tool.                *)
Stacked ==
    \A i \in 1 .. (Len(stack) - 1) :
        \/ stack[i + 1] = "cont" /\ stop[stack[i]] = "context_reset" /\ saved[stack[i]].there
        \/ /\ stack[i + 1] = "sub" /\ stop[stack[i]] = "max_steps"
           /\ pending[stack[i]] = "delegate" /\ ~saved[stack[i]].there

(* One delegation is under way, or the row of one is there; by then the    *)
(* subagent is over, and its log and its ledger stay as they are.          *)
Delegating(s) == pending[s] \in {"delegate", "broken"}
Embeds(s) == \E r \in Range(rows[s]) : Delegates(r)
Handing ==
    \A s \in Session :
        /\ Delegating(s) =>
              /\ s # "sub" /\ rows["sub"] # <<>> /\ \A t \in Session : Delegating(t) => t = s
              /\ at[s] = "tool" => at["sub"] = "done"
        /\ Embeds(s) => s # "sub" /\ at["sub"] = "done" /\ \A t \in Session : ~Delegating(t)

(* A session takes over one ledger at most, between its subagent and the   *)
(* row of the delegate call; a call that failed may have taken over none.  *)
Owed(s) ==
    /\ Len(kids[s]) <= 1
    /\ kids[s] # <<>> => Embeds(s) \/ pending[s] = "delegate"
    /\ at[s] \in Handback => kids[s] = <<>>
    /\ at[s] = "tool" /\ pending[s] = "delegate" => kids[s] # <<>>
    /\ \A r \in Range(rows[s]) : Delegates(r) /\ r.kind = "delegate" => kids[s] # <<>>
    /\ saved[s].there => saved[s].kids = kids[s]

(* Every place has its pending tool; only who waits or is over is saved,   *)
(* as it then stays.                                                       *)
Settled(s) ==
    /\ at[s] \in {"unborn", "guard", "handoff", "spawn", "tools", "cutoff"} => pending[s] = "none"
    /\ at[s] = "tool" => pending[s] # "none"
    /\ at[s] \in Handback => pending[s] = "delegate"
    /\ at[s] \notin {"waiting", "leaving", "raising", "done", "died"} => stop[s] = "max_steps" /\ ~saved[s].there
    /\ pending[s] = "none" => nested[s] = {}
    /\ at[s] = "unborn" => ledger[s] = <<>> /\ kids[s] = <<>>
    /\ Owed(s)

(* What there is of a session, and what the viewer has read of it.         *)
View(s) ==
    [log |-> rows[s], calls |-> ledger[s], pend |-> pending[s], nest |-> nested[s], at |-> at[s],
     stop |-> stop[s], step |-> step[s], there |-> IF saved[s].there THEN "yes" ELSE "no",
     kids |-> IF Embeds(s) THEN <<ledger["sub"]>> ELSE <<>>,
     taken |-> IF Embeds(s) THEN ledger["sub"] ELSE <<>>,
     sublog |-> IF Embeds(s) THEN rows["sub"] ELSE <<>>]
Graph(s) == ReadLog(s, rows[s], Inner(s))
Seen == \A s \in Session : SeenIn(s, Graph(s), View(s))
TraceInv == IInv /\ Stacked /\ Handing /\ (\A s \in Session : Settled(s)) /\ Seen

(* The fields of a session's view, and of its next one.                    *)
Sees(v, s) ==
    /\ Viewed(v)
    /\ v.log = rows[s] /\ v.calls = ledger[s] /\ v.pend = pending[s] /\ v.nest = nested[s]
    /\ v.at = at[s] /\ v.stop = stop[s] /\ v.step = step[s]
    /\ v.there = (IF saved[s].there THEN "yes" ELSE "no")
    /\ Embeds(s) => /\ v.kids = <<ledger["sub"]>> /\ v.kids # <<>>
                    /\ v.taken = ledger["sub"] /\ v.sublog = rows["sub"]
    /\ ~Embeds(s) => v.kids = <<>> /\ v.taken = <<>> /\ v.sublog = <<>>

LEMMA ViewSees ==
  ASSUME NEW s \in Session
  PROVE  TypeOK => Sees(View(s), s)
  <1>1. ASSUME TypeOK PROVE Sees(View(s), s)
    <2>1. /\ rows[s] \in Seq(RowType) /\ ledger[s] \in Ledgers /\ pending[s] \in Tools \cup {"none"}
          /\ nested[s] \in SUBSET Nat /\ nested[s] \subseteq 1 .. Len(ledger[s])
          /\ at[s] \in Resting \cup Active /\ stop[s] \in Reasons /\ step[s] \in Nat
          /\ ledger["sub"] \in Ledgers /\ rows["sub"] \in Seq(RowType)
      <3>1. "sub" \in Session
        BY DEF Session
      <3>. QED  BY <1>1, <3>1 DEF TypeOK
    <2> DEFINE there == IF saved[s].there THEN "yes" ELSE "no"
               taken == IF Embeds(s) THEN ledger["sub"] ELSE <<>>
               sublog == IF Embeds(s) THEN rows["sub"] ELSE <<>>
               more == IF Embeds(s) THEN <<ledger["sub"]>> ELSE <<>>
               v == View(s)
    <2>2. there \in {"yes", "no"} /\ taken \in Ledgers /\ sublog \in Seq(RowType)
      BY <2>1, EmptySeq DEF Ledgers
    <2>7. more \in Seq(Ledgers) /\ (Embeds(s) => more # <<>>)
      <3> DEFINE one == <<ledger["sub"]>>
      <3>1. one \in Seq(Ledgers) /\ one # <<>>
        BY <2>1
      <3>2. <<>> \in Seq(Ledgers)
        OBVIOUS
      <3> HIDE DEF one
      <3>. QED  BY <3>1, <3>2 DEF one
    <2>3. v = [log |-> rows[s], calls |-> ledger[s], pend |-> pending[s], nest |-> nested[s],
               at |-> at[s], stop |-> stop[s], step |-> step[s], there |-> there,
               kids |-> more, taken |-> taken, sublog |-> sublog]
      BY DEF View
    <2> HIDE DEF v, there, taken, sublog, more
    <2>4. /\ v.log = rows[s] /\ v.calls = ledger[s] /\ v.pend = pending[s] /\ v.nest = nested[s]
          /\ v.at = at[s] /\ v.stop = stop[s] /\ v.step = step[s] /\ v.there = there
          /\ v.kids = more /\ v.taken = taken /\ v.sublog = sublog
      BY <2>3
    <2>5. v \in ViewType
      BY <2>1, <2>2, <2>3, <2>7 DEF ViewType
    <2>6. Viewed(v)
      BY <2>1, <2>4, <2>5 DEF Viewed
    <2>8. /\ Embeds(s) => /\ v.kids = <<ledger["sub"]>> /\ v.kids # <<>>
                          /\ v.taken = ledger["sub"] /\ v.sublog = rows["sub"]
          /\ ~Embeds(s) => v.kids = <<>> /\ v.taken = <<>> /\ v.sublog = <<>>
      BY <2>4, <2>7 DEF taken, sublog, more
    <2>. QED  BY <2>4, <2>6, <2>8 DEF Sees, v, there
  <1>. QED  BY <1>1

LEMMA ViewsSee == TypeOK => \A s \in Session : Sees(View(s), s)
  BY ViewSees

LEMMA ViewsSeeNext == (TypeOK => \A s \in Session : Sees(View(s), s))'
  BY ViewsSee, PTL

LEMMA ViewSeesNext ==
  ASSUME TypeOK', NEW s \in Session
  PROVE  LET w == View(s)' IN
         /\ Viewed(w)
         /\ w.log = rows'[s] /\ w.calls = ledger'[s] /\ w.pend = pending'[s] /\ w.nest = nested'[s]
         /\ w.at = at'[s] /\ w.stop = stop'[s] /\ w.step = step'[s]
         /\ w.there = (IF saved'[s].there THEN "yes" ELSE "no")
         /\ Embeds(s)' => /\ w.kids = <<ledger'["sub"]>> /\ w.kids # <<>>
                          /\ w.taken = ledger'["sub"] /\ w.sublog = rows'["sub"]
         /\ ~Embeds(s)' => w.kids = <<>> /\ w.taken = <<>> /\ w.sublog = <<>>
  <1>1. (TypeOK => \A t \in Session : Sees(View(t), t))'
    BY ViewsSeeNext
  <1>2. Sees(View(s), s)'
    BY <1>1
  <1>. QED  BY <1>2 DEF Sees

(* The subagent's tree as its parent's reading embeds it.                  *)
LEMMA InnerKept ==
  ASSUME NEW s \in Session, s = "sub" \/ rows'["sub"] = rows["sub"]
  PROVE  Inner(s)' = Inner(s)
  BY DEF Inner, SubTrace

(* What was read of a session stays read.                                  *)
LEMMA GraphKept ==
  ASSUME TypeOK, NEW s \in Session, s = "sub" \/ ~Embeds(s) \/ rows'["sub"] = rows["sub"]
  PROVE  ReadLog(s, rows[s], Inner(s)') = Graph(s)
  <1>1. rows[s] \in Seq(RowType)
    BY DEF TypeOK
  <1>2. CASE s = "sub" \/ rows'["sub"] = rows["sub"]
    <2>1. Inner(s)' = Inner(s)
      BY <1>2, InnerKept
    <2>. QED  BY <2>1 DEF Graph
  <1>3. CASE ~Embeds(s)
    <2>1. \A n \in DOMAIN rows[s] : ~Delegates(rows[s][n])
      BY <1>3 DEF Embeds, Range
    <2>. QED  BY <1>1, <2>1, ReadAnyInner DEF Graph
  <1>. QED  BY <1>2, <1>3

(* A step's new rows are read onto the graph that was read before.         *)
LEMMA GraphNext ==
  ASSUME TypeOK, NEW s \in Session, s = "sub" \/ ~Embeds(s) \/ rows'["sub"] = rows["sub"]
  PROVE  /\ rows'[s] = rows[s] => Graph(s)' = Graph(s)
         /\ \A r \in RowType :
               rows'[s] = Append(rows[s], r) => Graph(s)' = Read(Graph(s), r, Inner(s)')
         /\ \A a \in RowType, b \in RowType :
               rows'[s] = Append(Append(rows[s], a), b) =>
                 Graph(s)' = Read(Read(Graph(s), a, Inner(s)'), b, Inner(s)')
  <1> DEFINE i == Inner(s)'
             log == rows[s]
  <1>1. Graph(s)' = ReadLog(s, rows'[s], i)
    BY DEF Graph
  <1>2. ReadLog(s, log, i) = Graph(s) /\ log \in Seq(RowType)
    BY GraphKept DEF TypeOK
  <1> HIDE DEF i, log
  <1>3. \A r \in RowType : ReadLog(s, Append(log, r), i) = Read(Graph(s), r, i)
    BY <1>2, ReadAppend
  <1>4. \A a \in RowType, b \in RowType :
          ReadLog(s, Append(Append(log, a), b), i) = Read(Read(Graph(s), a, i), b, i)
    <2>1. ASSUME NEW a \in RowType, NEW b \in RowType
          PROVE  ReadLog(s, Append(Append(log, a), b), i) = Read(Read(Graph(s), a, i), b, i)
      <3> DEFINE mid == Append(log, a)
      <3>1. mid \in Seq(RowType) /\ ReadLog(s, mid, i) = Read(Graph(s), a, i)
        BY <1>2, <1>3, AppendProperties
      <3> HIDE DEF mid
      <3>2. ReadLog(s, Append(mid, b), i) = Read(ReadLog(s, mid, i), b, i)
        BY <3>1, ReadAppend
      <3>. QED  BY <3>1, <3>2 DEF mid
    <2>. QED  BY <2>1
  <1>. QED  BY <1>1, <1>2, <1>3, <1>4 DEF i, log

-----------------------------------------------------------------------------
(* A session that a step leaves alone.                                     *)
Still(t) ==
    /\ rows'[t] = rows[t] /\ ledger'[t] = ledger[t] /\ pending'[t] = pending[t]
    /\ nested'[t] = nested[t] /\ at'[t] = at[t] /\ stop'[t] = stop[t] /\ step'[t] = step[t]
    /\ kids'[t] = kids[t] /\ saved'[t] = saved[t]

(* Nobody embeds a subagent whose report is handed back, or that runs.     *)
LEMMA SubIsOver ==
  ASSUME IInv, Handing, NEW t \in Session, Embeds(t)
  PROVE  /\ t # "sub" /\ at["sub"] = "done" /\ \A s \in Session : ~Delegating(s)
         /\ stack # <<>> => Running # "sub"
  <1>1. t # "sub" /\ at["sub"] = "done" /\ \A s \in Session : ~Delegating(s)
    BY DEF Handing
  <1>2. stack # <<>> => Running # "sub"
    BY <1>1 DEF IInv, Nested, Active, Handback
  <1>. QED  BY <1>1, <1>2

(* A session that does not move is seen as before.                         *)
LEMMA StillSeen ==
  ASSUME IInv, NEW t \in Session, SeenIn(t, Graph(t), View(t)), Still(t),
         ~Embeds(t) \/ (rows'["sub"] = rows["sub"] /\ ledger'["sub"] = ledger["sub"])
  PROVE  SeenIn(t, Graph(t), View(t))'
  <1>1. TypeOK
    BY DEF IInv
  <1>2. Graph(t)' = Graph(t)
    BY <1>1, GraphNext DEF Still
  <1>3. View(t)' = View(t)
    <2>1. Embeds(t)' <=> Embeds(t)
      BY DEF Embeds, Still
    <2>. QED  BY <2>1 DEF View, Still
  <1>4. SeenIn(t, Graph(t)', View(t)')
    BY <1>2, <1>3
  <1>. QED  BY <1>4

-----------------------------------------------------------------------------
(* The running session moves alone.                                        *)
Local(s) ==
    /\ stack # <<>> /\ s = Running /\ UNCHANGED stack
    /\ \A t \in Session : t # s => Still(t)

(* The rows of a step that is not the end of a delegation.                 *)
AddsNoTree(s) == \A r : Delegates(r) => (r \in Range(rows'[s]) <=> r \in Range(rows[s]))

LEMMA AddsNoTreeIs ==
  ASSUME NEW s, rows[s] \in Seq(RowType)
  PROVE  /\ rows'[s] = rows[s] => AddsNoTree(s)
         /\ \A r \in RowType :
               rows'[s] = Append(rows[s], r) /\ ~Delegates(r) => AddsNoTree(s)
         /\ \A a \in RowType, b \in RowType :
               rows'[s] = Append(Append(rows[s], a), b) /\ ~Delegates(a) /\ ~Delegates(b) => AddsNoTree(s)
  <1>1. rows'[s] = rows[s] => AddsNoTree(s)
    BY DEF AddsNoTree
  <1>2. ASSUME NEW r \in RowType, rows'[s] = Append(rows[s], r), ~Delegates(r) PROVE AddsNoTree(s)
    <2>1. Range(rows'[s]) = Range(rows[s]) \cup {r}
      BY <1>2, RangeAppend
    <2>. QED  BY <1>2, <2>1 DEF AddsNoTree
  <1>3. ASSUME NEW a \in RowType, NEW b \in RowType, rows'[s] = Append(Append(rows[s], a), b),
               ~Delegates(a), ~Delegates(b)
        PROVE  AddsNoTree(s)
    <2> DEFINE mid == Append(rows[s], a)
    <2>1. mid \in Seq(RowType) /\ Range(mid) = Range(rows[s]) \cup {a}
      BY AppendProperties, RangeAppend
    <2>2. rows'[s] = Append(mid, b)
      BY <1>3
    <2> HIDE DEF mid
    <2>3. Range(rows'[s]) = Range(mid) \cup {b}
      BY <2>1, <2>2, RangeAppend
    <2>. QED  BY <1>3, <2>1, <2>3 DEF AddsNoTree
  <1>. QED  BY <1>1, <1>2, <1>3

LEMMA SameEmbeds ==
  ASSUME NEW s, AddsNoTree(s)
  PROVE  Embeds(s)' <=> Embeds(s)
  BY DEF Embeds, AddsNoTree

(* While the running session moves alone no parent's subagent does.        *)
LEMMA LocalKeeps ==
  ASSUME IInv, Handing, NEW s \in Session, Local(s)
  PROVE  \A t \in Session : Embeds(t) => Still("sub") /\ s # "sub"
  <1>1. ASSUME NEW t \in Session, Embeds(t) PROVE Still("sub") /\ s # "sub"
    <2>1. Running # "sub" /\ "sub" \in Session
      BY <1>1, SubIsOver DEF Local, Session
    <2>. QED  BY <2>1 DEF Local
  <1>. QED  BY <1>1

(* What a session owes stays as it is when it takes nothing over.          *)
LEMMA OwedKept ==
  ASSUME NEW s, Owed(s), AddsNoTree(s), kids'[s] = kids[s],
         saved'[s] = saved[s] \/ saved'[s].kids = kids[s],
         pending[s] = "delegate" => pending'[s] = "delegate" \/ kids[s] = <<>>,
         at'[s] \in Handback => kids[s] = <<>>,
         at'[s] = "tool" => \/ at[s] = "tool" /\ (pending'[s] = "delegate" => pending[s] = "delegate")
                            \/ pending'[s] # "delegate"
  PROVE  Owed(s)'
  <1>1. Embeds(s)' <=> Embeds(s)
    BY SameEmbeds
  <1>2. \A r \in Range(rows'[s]) : Delegates(r) /\ r.kind = "delegate" => kids[s] # <<>>
    BY DEF Owed, AddsNoTree
  <1>. QED  BY <1>1, <1>2 DEF Owed

(* Who delegates stays, or ends, in a step that begins no delegation.      *)
LEMMA HandingKept ==
  ASSUME Handing,
         \A t \in Session : /\ Delegating(t)' => Delegating(t)
                            /\ Delegating(t)' /\ at'[t] = "tool" => at'["sub"] = "done"
                            /\ Embeds(t)' <=> Embeds(t),
         rows["sub"] # <<>> => rows'["sub"] # <<>>, at["sub"] = "done" => at'["sub"] = "done"
  PROVE  Handing'
  BY DEF Handing

(* Nor does anything change below the top of the stack.                    *)
LEMMA StackedKept ==
  ASSUME IInv, Stacked, stack # <<>>, UNCHANGED stack,
         \A t \in Session : t # Running => stop'[t] = stop[t] /\ saved'[t].there = saved[t].there
                                           /\ pending'[t] = pending[t]
  PROVE  Stacked'
  <1>1. Len(stack) \in Nat /\ \A i \in 1 .. Len(stack) : stack[i] \in Session
    BY RunningIs
  <1>2. ASSUME NEW i \in 1 .. (Len(stack) - 1) PROVE stack[i] # Running /\ stack[i] \in Session
    <2>1. i \in 1 .. Len(stack) /\ Len(stack) \in 1 .. Len(stack) /\ i < Len(stack)
      BY <1>1
    <2>2. DOMAIN stack = 1 .. Len(stack)
      BY DEF IInv, TypeOK
    <2>. QED  BY <1>1, <2>1, <2>2 DEF IInv, Nested, Running
  <1>. QED  BY <1>2 DEF Stacked

LEMMA StillSettled ==
  ASSUME NEW t, Still(t), Settled(t)
  PROVE  Settled(t)'
  <1>1. Owed(t)'
    BY DEF Still, Settled, Owed, Embeds
  <1>. QED  BY <1>1 DEF Still, Settled

(* Such a step begins no delegation and embeds nothing.                    *)
StaysIn(s) ==
    /\ AddsNoTree(s) /\ at'[s] # "unborn"
    /\ Delegating(s)' => Delegating(s) /\ (at'[s] = "tool" => at[s] \in {"tool"} \cup Handback)

LEMMA LocalHanding ==
  ASSUME TraceInv, IInv', NEW s \in Session, Local(s), StaysIn(s)
  PROVE  Handing'
  <1>1. IInv /\ Handing
    BY DEF TraceInv
  <1>2. at["sub"] = "done" => s # "sub"
    BY <1>1 DEF Local, IInv, Nested, Active, Handback
  <1>3. "sub" \in Session /\ (at["sub"] = "done" => at'["sub"] = "done")
    BY <1>2 DEF Local, Still, Session
  <1>4. rows["sub"] # <<>> => rows'["sub"] # <<>>
    <2>1. CASE s = "sub"
      BY <2>1 DEF IInv, Begun, StaysIn
    <2>2. CASE s # "sub"
      BY <1>3, <2>2 DEF Local, Still
    <2>. QED  BY <2>1, <2>2
  <1>5. ASSUME NEW t \in Session
        PROVE  /\ Delegating(t)' => Delegating(t)
               /\ Delegating(t)' /\ at'[t] = "tool" => at'["sub"] = "done"
               /\ Embeds(t)' <=> Embeds(t)
    <2>1. CASE t = s
      <3>1. at[s] \in Handback => at["sub"] = "done"
        BY <1>1 DEF IInv, Reported
      <3>2. Delegating(s) /\ at[s] = "tool" => at["sub"] = "done"
        BY <1>1 DEF Handing
      <3>. QED  BY <1>3, <2>1, <3>1, <3>2, SameEmbeds DEF StaysIn
    <2>2. CASE t # s
      <3>1. Still(t)
        BY <2>2 DEF Local
      <3>2. (Delegating(t)' <=> Delegating(t)) /\ (Embeds(t)' <=> Embeds(t)) /\ at'[t] = at[t]
        BY <3>1 DEF Still, Delegating, Embeds
      <3>. QED  BY <1>1, <1>3, <3>2 DEF Handing
    <2>. QED  BY <2>1, <2>2
  <1>. QED  BY <1>1, <1>3, <1>4, <1>5, HandingKept

(* So it is settled by the running session's own view.                     *)
LEMMA LocalTrace ==
  ASSUME TraceInv, IInv', NEW s \in Session, Local(s), Handing',
         Settled(s)', SeenIn(s, Graph(s), View(s))'
  PROVE  TraceInv'
  <1>1. IInv /\ Stacked /\ Handing /\ (\A t \in Session : Settled(t)) /\ Seen
    BY DEF TraceInv
  <1>2. Stacked'
    BY <1>1, StackedKept DEF Local, Still
  <1>3. ASSUME NEW t \in Session PROVE Settled(t)'
    <2>1. CASE t = s
      BY <2>1
    <2>2. CASE t # s
      <3>1. Still(t) /\ Settled(t)
        BY <1>1, <2>2 DEF Local
      <3>. QED  BY <3>1, StillSettled
    <2>. QED  BY <2>1, <2>2
  <1>4. ASSUME NEW t \in Session PROVE SeenIn(t, Graph(t), View(t))'
    <2>1. CASE t = s
      BY <2>1
    <2>2. CASE t # s
      <3>1. Still(t) /\ (~Embeds(t) \/ (rows'["sub"] = rows["sub"] /\ ledger'["sub"] = ledger["sub"]))
        BY <1>1, <2>2, LocalKeeps DEF Local, Still
      <3>. QED  BY <1>1, <3>1, StillSeen DEF Seen
    <2>. QED  BY <2>1, <2>2
  <1>. QED  BY <1>2, <1>3, <1>4 DEF TraceInv, Seen

(* What there is of a session before and after.                            *)
Kept(s) ==
    /\ AddsNoTree(s)
    /\ ~Embeds(s) \/ (rows'["sub"] = rows["sub"] /\ ledger'["sub"] = ledger["sub"])

(* What is known of the session before a step of its own,                  *)
LEMMA KeptSeen ==
  ASSUME TraceInv, IInv', NEW s \in Session, Kept(s)
  PROVE  LET v == View(s)
             w == View(s)'
         IN /\ Viewed(v) /\ SeenIn(s, Graph(s), v) /\ Settled(s)
            /\ v.log = rows[s] /\ v.calls = ledger[s] /\ v.pend = pending[s] /\ v.nest = nested[s]
            /\ v.at = at[s] /\ v.stop = stop[s] /\ v.step = step[s]
            /\ Viewed(w)
            /\ w.log = rows'[s] /\ w.calls = ledger'[s] /\ w.pend = pending'[s] /\ w.nest = nested'[s]
            /\ w.at = at'[s] /\ w.stop = stop'[s] /\ w.step = step'[s]
            /\ w.kids = v.kids /\ w.taken = v.taken /\ w.sublog = v.sublog
            /\ (saved'[s].there <=> saved[s].there) => w.there = v.there
  <1>1. IInv /\ TypeOK /\ TypeOK' /\ Settled(s) /\ SeenIn(s, Graph(s), View(s))
    BY DEF TraceInv, IInv, Seen
  <1> DEFINE v == View(s)
             w == View(s)'
  <1>2. /\ Viewed(v)
        /\ v.log = rows[s] /\ v.calls = ledger[s] /\ v.pend = pending[s] /\ v.nest = nested[s]
        /\ v.at = at[s] /\ v.stop = stop[s] /\ v.step = step[s]
        /\ v.there = (IF saved[s].there THEN "yes" ELSE "no")
        /\ Embeds(s) => v.kids = <<ledger["sub"]>> /\ v.taken = ledger["sub"] /\ v.sublog = rows["sub"]
        /\ ~Embeds(s) => v.kids = <<>> /\ v.taken = <<>> /\ v.sublog = <<>>
    BY <1>1, ViewsSee DEF Sees
  <1>3. /\ Viewed(w)
        /\ w.log = rows'[s] /\ w.calls = ledger'[s] /\ w.pend = pending'[s] /\ w.nest = nested'[s]
        /\ w.at = at'[s] /\ w.stop = stop'[s] /\ w.step = step'[s]
        /\ w.there = (IF saved'[s].there THEN "yes" ELSE "no")
        /\ Embeds(s)' => w.kids = <<ledger'["sub"]>> /\ w.taken = ledger'["sub"] /\ w.sublog = rows'["sub"]
        /\ ~Embeds(s)' => w.kids = <<>> /\ w.taken = <<>> /\ w.sublog = <<>>
    BY <1>1, ViewSeesNext
  <1> HIDE DEF v, w
  <1>4. /\ Embeds(s)' <=> Embeds(s)
        /\ Embeds(s) => ledger'["sub"] = ledger["sub"] /\ rows'["sub"] = rows["sub"]
    BY SameEmbeds DEF Kept
  <1>5. w.kids = v.kids /\ w.taken = v.taken /\ w.sublog = v.sublog
    BY <1>2, <1>3, <1>4
  <1>6. (saved'[s].there <=> saved[s].there) => w.there = v.there
    BY <1>2, <1>3
  <1>. QED  BY <1>1, <1>2, <1>3, <1>5, <1>6 DEF v, w

(* and what its graph is after it.                                         *)
LEMMA KeptGraph ==
  ASSUME TraceInv, IInv', NEW s \in Session, Kept(s)
  PROVE  /\ rows'[s] = rows[s] => Graph(s)' = Graph(s)
         /\ \A r \in RowType :
               rows'[s] = Append(rows[s], r) => Graph(s)' = Read(Graph(s), r, Inner(s)')
         /\ \A a \in RowType, b \in RowType :
               rows'[s] = Append(Append(rows[s], a), b) =>
                 Graph(s)' = Read(Read(Graph(s), a, Inner(s)'), b, Inner(s)')
  <1>1. IInv /\ TypeOK /\ SeenIn(s, Graph(s), View(s))
    BY DEF TraceInv, IInv, Seen
  <1>. QED  BY <1>1, GraphNext DEF Kept

LEMMA LocalKept ==
  ASSUME TraceInv, NEW s \in Session, Local(s), AddsNoTree(s)
  PROVE  Kept(s)
  BY LocalKeeps DEF TraceInv, Local, Still, Kept

LEMMA TwoRows ==
  ASSUME NEW r \in Seq(RowType), NEW a \in RowType, NEW b \in RowType
  PROVE  r \o <<a, b>> = Append(r \o <<a>>, b)
  <1>1. <<a>> \in Seq(RowType) /\ <<b>> \in Seq(RowType) /\ r \o <<a>> \in Seq(RowType)
    BY ConcatProperties
  <1>2. (r \o <<a>>) \o <<b>> = r \o (<<a>> \o <<b>>)
    BY <1>1, ConcatAssociative
  <1>3. <<a>> \o <<b>> = <<a, b>>
    <2> DEFINE one == <<a>>
               two == <<b>>
               both == <<a, b>>
    <2>1. /\ one \in Seq(RowType) /\ Len(one) = 1 /\ one[1] = a
          /\ two \in Seq(RowType) /\ Len(two) = 1 /\ two[1] = b
      OBVIOUS
    <2>2. both \in Seq(RowType) /\ Len(both) = 2 /\ both[1] = a /\ both[2] = b
      OBVIOUS
    <2> HIDE DEF one, two, both
    <2>3. /\ one \o two \in Seq(RowType) /\ Len(one \o two) = 2
          /\ (one \o two)[1] = a /\ (one \o two)[2] = b
      <3>1. /\ one \o two \in Seq(RowType) /\ Len(one \o two) = Len(one) + Len(two)
            /\ \A i \in 1 .. Len(one) + Len(two) :
                  (one \o two)[i] = IF i <= Len(one) THEN one[i] ELSE two[i - Len(one)]
        BY <2>1, ConcatProperties
      <3>2. \A i \in 1 .. 2 : (one \o two)[i] = IF i <= 1 THEN one[i] ELSE two[i - 1]
        BY <2>1, <3>1
      <3>3. (one \o two)[1] = one[1] /\ (one \o two)[2] = two[1]
        <4>1. 1 \in 1 .. 2 /\ 2 \in 1 .. 2 /\ 1 <= 1 /\ ~(2 <= 1) /\ 2 - 1 = 1
          OBVIOUS
        <4>2. (one \o two)[1] = one[1]
          BY <3>2, <4>1
        <4>3. (one \o two)[2] = two[2 - 1]
          BY <3>2, <4>1
        <4>. QED  BY <4>1, <4>2, <4>3
      <3>. QED  BY <2>1, <3>1, <3>3
    <2> DEFINE cat == one \o two
    <2>4. cat = both
      <3>1. cat \in Seq(RowType) /\ Len(cat) = 2 /\ cat[1] = a /\ cat[2] = b
        BY <2>3
      <3> HIDE DEF cat
      <3>2. \A i \in 1 .. 2 : cat[i] = both[i]
        BY <2>2, <3>1
      <3>. QED  BY <2>2, <3>1, <3>2, SeqEqual
    <2>. QED  BY <2>4 DEF one, two, both, cat
  <1>4. Append(r \o <<a>>, b) = (r \o <<a>>) \o <<b>>
    BY <1>1, AppendIsConcat
  <1>. QED  BY <1>2, <1>3, <1>4

LEMMA RowsAdded ==
  ASSUME NEW log \in Seq(RowType), NEW a \in RowType, NEW b \in RowType
  PROVE  /\ log \o <<a>> = Append(log, a) /\ log \o (<<a>> \o NoRows) = Append(log, a)
         /\ log \o <<a, b>> = Append(Append(log, a), b)
         /\ log \o (<<a>> \o <<b>>) = Append(Append(log, a), b)
  <1>1. log \o <<a>> = Append(log, a)
    BY AppendIsConcat
  <1>2. log \o <<a, b>> = Append(Append(log, a), b)
    <2>1. log \o <<a, b>> = Append(log \o <<a>>, b)
      BY TwoRows
    <2>. QED  BY <1>1, <2>1
  <1>3. <<a>> \o NoRows = <<a>> /\ <<a>> \o <<b>> = <<a, b>>
    <2>1. <<a>> \in Seq(RowType) /\ <<a>> \o NoRows = <<a>>
      <3> DEFINE one == <<a>>
      <3>1. one \in Seq(RowType)
        OBVIOUS
      <3> HIDE DEF one
      <3>2. one \o NoRows = one
        BY <3>1, NoRowsAre
      <3>. QED  BY <3>1, <3>2 DEF one
    <2>2. <<a>> \o <<b>> = Append(<<a>>, b)
      BY <2>1, AppendIsConcat
    <2>3. Append(<<a>>, b) = <<a, b>>
      <3>1. <<>> \o <<a, b>> = Append(<<>> \o <<a>>, b)
        BY EmptySeq, TwoRows
      <3>2. <<a, b>> \in Seq(RowType) /\ <<>> \o <<a, b>> = <<a, b>> /\ <<>> \o <<a>> = <<a>>
        BY <2>1, ConcatEmptySeq
      <3>. QED  BY <3>1, <3>2
    <2>. QED  BY <2>1, <2>2, <2>3
  <1>. QED  BY <1>1, <1>2, <1>3

(* What an answered call leaves of its session, and of the others.         *)
CallRow(s, kind, by) == Row("llm_call", kind, by, {Len(ledger[s]) + 1})

CallLeaves(s, kind, by, rest) ==
    LET r == CallRow(s, kind, by) IN
    /\ r \in RowType /\ r.type = "llm_call" /\ r.kind = kind /\ r.by = by
    /\ r.links = {Len(ledger[s]) + 1}
    /\ rows'[s] = rows[s] \o (<<r>> \o rest) /\ ledger'[s] = Append(ledger[s], kind)
    /\ nested'[s] = IF pending[s] = "none" THEN nested[s] ELSE nested[s] \cup r.links
    /\ \A t \in Session : t # s =>
          rows'[t] = rows[t] /\ ledger'[t] = ledger[t] /\ nested'[t] = nested[t]

(* What an answered call leaves in ledger, log and tool.                   *)
LEMMA AnsweredIs ==
  ASSUME TypeOK, NEW s \in Session, NEW kind \in CallKind, NEW rest,
         NEW by \in {"none", "node", "agent", "tool", "summarizer", "context_guard", "finalize_step"},
         Answered(s, kind, by, rest)
  PROVE  CallLeaves(s, kind, by, rest)
  <1> DEFINE r == CallRow(s, kind, by)
  <1>1. Len(ledger[s]) + 1 \in Nat
    BY LenProperties DEF TypeOK, Ledgers
  <1>2. r \in RowType /\ r.type = "llm_call" /\ r.kind = kind /\ r.by = by /\ r.links = {Len(ledger[s]) + 1}
    BY <1>1, RowsAre DEF CallRow
  <1> DEFINE new == <<r>> \o rest
             n == Len(ledger[s]) + 1
  <1>3. /\ ledger' = [ledger EXCEPT ![s] = Append(@, kind)]
        /\ nested' = IF pending[s] = "none" THEN nested ELSE [nested EXCEPT ![s] = @ \cup {n}]
        /\ rows' = [rows EXCEPT ![s] = @ \o new]
    BY DEF Answered, Emit, CallRow
  <1> HIDE DEF new, n, r
  <1>4. /\ rows'[s] = rows[s] \o new /\ ledger'[s] = Append(ledger[s], kind)
        /\ nested'[s] = IF pending[s] = "none" THEN nested[s] ELSE nested[s] \cup {n}
        /\ \A t \in Session : t # s =>
              rows'[t] = rows[t] /\ ledger'[t] = ledger[t] /\ nested'[t] = nested[t]
    BY <1>3 DEF TypeOK
  <1>. QED  BY <1>2, <1>4 DEF CallLeaves, new, n, r

(* CallLLM, HandoffAgain, AskArtifact.                                     *)
LEMMA CallingIs ==
  ASSUME TraceInv, IInv', NEW s \in Session, Local(s), AddsNoTree(s), NEW kind \in CallKind,
         NEW by \in {"none", "node", "agent", "tool", "summarizer", "context_guard", "finalize_step"},
         rows'[s] = Append(rows[s], CallRow(s, kind, by)), ledger'[s] = Append(ledger[s], kind),
         pending'[s] = pending[s],
         IF by = "tool" THEN pending[s] # "none" /\ nested'[s] = nested[s] \cup CallRow(s, kind, by).links
                        ELSE nested'[s] = nested[s]
  PROVE  Calling(View(s), View(s)', CallRow(s, kind, by))
  <1> DEFINE v == View(s)
             w == View(s)'
             r == CallRow(s, kind, by)
  <1>1. /\ v.log = rows[s] /\ v.calls = ledger[s] /\ v.pend = pending[s] /\ v.nest = nested[s]
        /\ w.log = rows'[s] /\ w.calls = ledger'[s] /\ w.pend = pending'[s] /\ w.nest = nested'[s]
        /\ w.kids = v.kids /\ w.taken = v.taken /\ w.sublog = v.sublog
    BY LocalKept, KeptSeen
  <1>2. r.type = "llm_call" /\ r.kind = kind /\ r.by = by /\ r.links = {Len(ledger[s]) + 1}
    BY DEF CallRow, Row
  <1> HIDE DEF v, w
  <1>3. Calling(v, w, r)
    BY <1>1, <1>2 DEF Calling
  <1>. QED  BY <1>3 DEF v, w

(* Steps that make a call and write its row.                               *)
LEMMA CallActions ==
  ASSUME TraceInv, IInv', NEW s \in Session, stack # <<>>, s = Running,
         CallLLM(s) \/ HandoffAgain(s) \/ AskArtifact(s)
  PROVE  TraceInv'
  <1>1. TypeOK /\ Settled(s) /\ SeenIn(s, Graph(s), View(s)) /\ rows[s] \in Seq(RowType)
    BY DEF TraceInv, IInv, Seen, TypeOK
  <1>2. ASSUME NEW kind \in CallKind,
               NEW by \in {"none", "node", "agent", "tool", "summarizer", "context_guard", "finalize_step"},
               Answered(s, kind, by, <<>>), UNCHANGED <<stack, pending, kids, saved, stop>>,
               NEW place \in {"tools", "tool", "spawn"}, Goto(s, place),
               place = "tool" => at[s] = "tool", NEW k, step'[s] = k,
               \A t \in Session : t # s => step'[t] = step[t],
               pending[s] # "none" <=> by = "tool"
        PROVE  /\ Local(s) /\ Calling(View(s), View(s)', CallRow(s, kind, by))
               /\ CallRow(s, kind, by) \in RowType
               /\ CallRow(s, kind, by).kind = kind /\ CallRow(s, kind, by).by = by
               /\ Graph(s)' = Read(Graph(s), CallRow(s, kind, by), Inner(s)')
               /\ at'[s] = place
               /\ pending[s] = "none" => nested'[s] = nested[s]
               /\ ledger'[s] = Append(ledger[s], kind)
               /\ AddsNoTree(s) /\ Handing' /\ Owed(s)'
    <2> DEFINE r == CallRow(s, kind, by)
    <2>1. /\ r \in RowType /\ r.kind = kind /\ r.by = by /\ r.type = "llm_call"
          /\ rows'[s] = rows[s] \o (<<r>> \o NoRows) /\ ledger'[s] = Append(ledger[s], kind)
          /\ nested'[s] = IF pending[s] = "none" THEN nested[s] ELSE nested[s] \cup r.links
          /\ \A t \in Session : t # s =>
                rows'[t] = rows[t] /\ ledger'[t] = ledger[t] /\ nested'[t] = nested[t]
      <3>1. Answered(s, kind, by, NoRows)
        BY <1>2 DEF NoRows
      <3>2. CallLeaves(s, kind, by, NoRows)
        BY <1>1, <3>1, AnsweredIs
      <3>. QED  BY <3>2 DEF CallLeaves
    <2> HIDE DEF r
    <2>2. at'[s] = place /\ \A t \in Session : t # s => at'[t] = at[t]
      BY <1>1, <1>2 DEF Goto, TypeOK
    <2>3. Local(s)
      BY <1>2, <2>1, <2>2 DEF Local, Still
    <2>4. rows'[s] = Append(rows[s], r)
      BY <1>1, <2>1, RowsAdded
    <2>7. AddsNoTree(s)
      BY <1>1, <2>1, <2>4, AddsNoTreeIs DEF Delegates
    <2>5. Calling(View(s), View(s)', r)
      BY <1>2, <2>1, <2>3, <2>4, <2>7, CallingIs DEF r
    <2>6. Graph(s)' = Read(Graph(s), r, Inner(s)')
      BY <2>1, <2>3, <2>4, <2>7, LocalKept, KeptGraph
    <2>8. Handing'
      <3>1. StaysIn(s)
        BY <1>2, <2>2, <2>7 DEF StaysIn, Delegating
      <3>. QED  BY <2>3, <3>1, LocalHanding
    <2>9. Owed(s)'
      BY <1>1, <1>2, <2>2, <2>7, OwedKept DEF Settled, Handback
    <2>. QED  BY <2>1, <2>2, <2>3, <2>5, <2>6, <2>7, <2>8, <2>9 DEF r
  <1>3. CASE CallLLM(s)
    <2> DEFINE r == CallRow(s, "main", "node")
    <2>1. /\ at[s] = "guard" /\ pending[s] = "none" /\ step'[s] = step[s] + 1 /\ "main" \in CallKind
          /\ ~saved[s].there /\ stop[s] = "max_steps"
      BY <1>1, <1>3 DEF CallLLM, Settled, TypeOK, CallKind
    <2>2. /\ Local(s) /\ Calling(View(s), View(s)', r) /\ r \in RowType /\ r.kind = "main" /\ r.by = "node"
          /\ Graph(s)' = Read(Graph(s), r, Inner(s)') /\ at'[s] = "tools"
          /\ nested'[s] = nested[s] /\ ledger'[s] = Append(ledger[s], "main")
          /\ AddsNoTree(s) /\ Handing' /\ Owed(s)'
      BY <1>1, <1>2, <1>3, <2>1 DEF CallLLM, TypeOK
    <2>3. Settled(s)'
      BY <1>1, <1>3, <2>1, <2>2 DEF Settled, CallLLM, Handback
    <2>4. SeenIn(s, Read(Graph(s), r, Inner(s)'), View(s)')
      BY <2>1, <2>2, LocalKept, KeptSeen, SeenStep
    <2>. QED  BY <2>2, <2>3, <2>4, LocalTrace
  <1>4. CASE HandoffAgain(s)
    <2> DEFINE r == CallRow(s, "handoff", "agent")
    <2>1. /\ at[s] = "handoff" /\ pending[s] = "none" /\ step' = step /\ "handoff" \in CallKind
          /\ ~saved[s].there /\ stop[s] = "max_steps"
      BY <1>1, <1>4 DEF HandoffAgain, Settled, CallKind
    <2>2. /\ Local(s) /\ Calling(View(s), View(s)', r) /\ r \in RowType /\ r.kind = "handoff" /\ r.by = "agent"
          /\ Graph(s)' = Read(Graph(s), r, Inner(s)') /\ at'[s] = "spawn"
          /\ nested'[s] = nested[s] /\ ledger'[s] = Append(ledger[s], "handoff")
          /\ AddsNoTree(s) /\ Handing' /\ Owed(s)'
      BY <1>1, <1>2, <1>4, <2>1 DEF HandoffAgain
    <2>3. Settled(s)'
      BY <1>1, <1>4, <2>1, <2>2 DEF Settled, HandoffAgain, Handback
    <2>4. /\ View(s).at = "handoff" /\ View(s)'.at = "spawn"
          /\ View(s)'.step = View(s).step /\ View(s)'.stop = View(s).stop
          /\ Viewed(View(s)) /\ SeenIn(s, Graph(s), View(s))
      BY <1>4, <2>1, <2>2, LocalKept, KeptSeen DEF HandoffAgain
    <2>5. SeenIn(s, Read(Graph(s), r, Inner(s)'), View(s)')
      BY <2>2, <2>4, SeenCall DEF Ancillary, Spent
    <2>. QED  BY <2>2, <2>3, <2>5, LocalTrace
  <1>5. CASE AskArtifact(s)
    <2> DEFINE r == CallRow(s, "artifact_query", "tool")
    <2>1. /\ at[s] = "tool" /\ pending[s] = "query" /\ step' = step /\ "artifact_query" \in CallKind
          /\ ~saved[s].there /\ stop[s] = "max_steps" /\ at' = at /\ at[s] \in Active
      BY <1>1, <1>5 DEF AskArtifact, Settled, CallKind, Active
    <2>2. Goto(s, at[s])
      BY <1>1, <2>1 DEF Goto, TypeOK
    <2>3. /\ Local(s) /\ Calling(View(s), View(s)', r) /\ r \in RowType
          /\ r.kind = "artifact_query" /\ r.by = "tool"
          /\ Graph(s)' = Read(Graph(s), r, Inner(s)') /\ at'[s] = "tool"
          /\ ledger'[s] = Append(ledger[s], "artifact_query")
          /\ AddsNoTree(s) /\ Handing' /\ Owed(s)'
      BY <1>1, <1>2, <1>5, <2>1, <2>2 DEF AskArtifact
    <2>4. Settled(s)'
      BY <1>1, <1>5, <2>1, <2>3 DEF Settled, AskArtifact, Handback
    <2>5. /\ View(s).at = "tool" /\ View(s)'.at = "tool"
          /\ View(s)'.step = View(s).step /\ View(s)'.stop = View(s).stop
          /\ Viewed(View(s)) /\ SeenIn(s, Graph(s), View(s))
      BY <1>5, <2>1, <2>3, LocalKept, KeptSeen DEF AskArtifact
    <2>6. SeenIn(s, Read(Graph(s), r, Inner(s)'), View(s)')
      BY <2>3, <2>5, SeenCall DEF Ancillary, Spent
    <2>. QED  BY <2>3, <2>4, <2>6, LocalTrace
  <1>. QED  BY <1>3, <1>4, <1>5

(* The steps that write nothing: a stop, a failure, Ctrl-C, a tool begun,  *)
(* the usage handed up.                                                    *)
LEMMA QuietTrace ==
  ASSUME TraceInv, IInv', NEW s \in Session, Local(s),
         rows'[s] = rows[s], ledger'[s] = ledger[s], at[s] \notin {"done", "died"},
         Settled(s)', Handing',
         \/ (pending[s] # "none" <=> pending'[s] # "none") /\ nested'[s] = nested[s]
         \/ pending[s] = "none" /\ at[s] = "tools" /\ nested'[s] = {},
         \/ at'[s] \in {"leaving", "raising"}
         \/ at[s] \in {"tools"} \cup Handback /\ at'[s] = "tool",
         \/ /\ step'[s] = step[s]
            /\ at[s] \in {"leaving", "raising"} => at'[s] = "raising" \/ stop'[s] = "aborted"
         \/ /\ step'[s] = step[s] + 1 /\ at[s] \notin {"leaving", "raising"}
            /\ at'[s] = "raising" \/ (at'[s] = "leaving" /\ stop'[s] \in {"llm_failure", "aborted"})
  PROVE  TraceInv'
  <1> DEFINE v == View(s)
             w == View(s)'
             g == Graph(s)
  <1>0. AddsNoTree(s)
    BY DEF AddsNoTree
  <1>1. /\ Viewed(v) /\ SeenIn(s, g, v)
        /\ v.log = rows[s] /\ v.calls = ledger[s] /\ v.pend = pending[s] /\ v.nest = nested[s]
        /\ v.at = at[s] /\ v.stop = stop[s] /\ v.step = step[s]
        /\ Viewed(w)
        /\ w.log = rows'[s] /\ w.calls = ledger'[s] /\ w.pend = pending'[s] /\ w.nest = nested'[s]
        /\ w.at = at'[s] /\ w.stop = stop'[s] /\ w.step = step'[s]
        /\ w.kids = v.kids /\ w.taken = v.taken /\ w.sublog = v.sublog
    BY <1>0, LocalKept, KeptSeen
  <1>2. Graph(s)' = g
    BY <1>0, LocalKept, KeptGraph
  <1> HIDE DEF v, w, g
  <1>3. at[s] \in {"tools"} \cup Handback => ~Spent(v)
    BY <1>1 DEF Spent, Handback
  <1>4. SeenIn(s, g, w)
    <2>1. \/ w.at \in {"leaving", "raising", "died"}
          \/ ~Spent(v) /\ w.at \in {"tool", "waiting"} \cup Handback
      BY <1>1, <1>3
    <2>. QED  BY <1>1, <2>1, SeenQuiet
  <1>5. SeenIn(s, Graph(s)', View(s)')
    BY <1>2, <1>4 DEF w
  <1>. QED  BY <1>5, LocalTrace

(* An end in sight: a stop, a failure, Ctrl-C or any other exception.      *)
LEMMA LeavingTrace ==
  ASSUME TraceInv, IInv', NEW s \in Session, stack # <<>>, s = Running,
         \/ GuardStops(s) /\ s # "sub"
         \/ LLMFails(s) \/ Interrupt(s) \/ RaiseError(s) \/ FallbackFails(s)
  PROVE  TraceInv'
  <1>1. TypeOK /\ Settled(s)
    BY DEF TraceInv, IInv
  <1>2. \A reason : Leave(s, reason) =>
          /\ Goto(s, "leaving") /\ stop'[s] = reason /\ \A t \in Session : t # s => stop'[t] = stop[t]
    BY <1>1 DEF Leave, TypeOK
  <1>3. /\ UNCHANGED <<stack, ledger, rows, pending, nested, kids, saved>>
        /\ Goto(s, "leaving") \/ Goto(s, "raising")
        /\ \A t \in Session : t # s => stop'[t] = stop[t]
    BY <1>2 DEF GuardStops, LLMFails, Interrupt, RaiseError, FallbackFails, Delegated
  <1>4. /\ at[s] \in Active \ {"raising"}
        /\ step' = step \/ (at[s] = "guard" /\ step' = [step EXCEPT ![s] = @ + 1])
        /\ step' # step => Goto(s, "raising") \/ (Goto(s, "leaving") /\ stop'[s] \in {"llm_failure", "aborted"})
        /\ at[s] = "leaving" => Goto(s, "raising") \/ stop'[s] = "aborted"
    <2>1. CASE GuardStops(s) \/ FallbackFails(s)
      BY <2>1 DEF GuardStops, FallbackFails, Active, Handback
    <2>2. CASE LLMFails(s)
      BY <1>2, <2>2 DEF LLMFails, MayCount, Active
    <2>3. CASE Interrupt(s)
      BY <1>2, <2>3 DEF Interrupt, Trying, MayCount, Active, Handback
    <2>4. CASE RaiseError(s)
      BY <2>4 DEF RaiseError, Trying, MayCount, Active, Handback
    <2>. QED  BY <2>1, <2>2, <2>3, <2>4
  <1>5. /\ at'[s] \in {"leaving", "raising"} /\ \A t \in Session : t # s => at'[t] = at[t]
        /\ Goto(s, "leaving") => at'[s] = "leaving"
        /\ Goto(s, "raising") => at'[s] = "raising"
    BY <1>1, <1>3 DEF Goto, TypeOK
  <1>6. /\ \A t \in Session : t # s => step'[t] = step[t]
        /\ step'[s] = step[s] \/ (at[s] = "guard" /\ step'[s] = step[s] + 1)
    BY <1>1, <1>4 DEF TypeOK
  <1>7. Local(s)
    BY <1>3, <1>5, <1>6 DEF Local, Still
  <1>8. AddsNoTree(s) /\ Handing'
    <2>1. AddsNoTree(s)
      BY <1>3 DEF AddsNoTree
    <2>2. StaysIn(s)
      BY <1>3, <1>5, <2>1 DEF StaysIn, Delegating
    <2>. QED  BY <1>7, <2>1, <2>2, LocalHanding
  <1>9. Settled(s)'
    <2>1. Owed(s)'
      BY <1>1, <1>3, <1>5, <1>8, OwedKept DEF Settled, Handback
    <2>. QED  BY <1>1, <1>3, <1>5, <2>1 DEF Settled, Handback
  <1>10. at[s] \notin {"done", "died"}
    BY <1>4 DEF Active, Handback
  <1>11. \/ /\ step'[s] = step[s]
            /\ at[s] \in {"leaving", "raising"} => at'[s] = "raising" \/ stop'[s] = "aborted"
         \/ /\ step'[s] = step[s] + 1 /\ at[s] \notin {"leaving", "raising"}
            /\ at'[s] = "raising" \/ (at'[s] = "leaving" /\ stop'[s] \in {"llm_failure", "aborted"})
    <2>1. CASE step' = step
      BY <1>4, <1>5, <2>1
    <2>2. CASE step' # step
      BY <1>1, <1>4, <1>5, <2>2 DEF TypeOK
    <2>. QED  BY <2>1, <2>2
  <1>. QED  BY <1>3, <1>5, <1>7, <1>8, <1>9, <1>10, <1>11, QuietTrace

(* A tool begun, and a delegate call's hand-back over or failed.           *)
LEMMA ToolTrace ==
  ASSUME TraceInv, IInv', NEW s \in Session, stack # <<>>, s = Running,
         BeginTool(s, "query") \/ HandUp(s) \/ HandbackErrors(s)
  PROVE  TraceInv'
  <1>1. TypeOK /\ Settled(s) /\ Owed(s)
    BY DEF TraceInv, IInv, Settled
  <1>2. /\ at[s] \in {"tools"} \cup Handback /\ Goto(s, "tool")
        /\ UNCHANGED <<stack, rows, step, ledger, saved, stop>>
    BY DEF BeginTool, HandUp, HandbackErrors, Handback
  <1>3. AddsNoTree(s) /\ at'[s] = "tool" /\ (\A t \in Session : t # s => at'[t] = at[t])
        /\ at[s] \notin {"done", "died", "leaving", "raising"}
    BY <1>1, <1>2 DEF AddsNoTree, Goto, TypeOK, Handback
  <1>4. stop[s] = "max_steps" /\ ~saved[s].there
    BY <1>1, <1>2 DEF Settled, Handback
  <1>5. CASE BeginTool(s, "query")
    <2>1. /\ at[s] = "tools" /\ kids' = kids
          /\ pending' = [pending EXCEPT ![s] = "query"] /\ nested' = [nested EXCEPT ![s] = {}]
      BY <1>5 DEF BeginTool
    <2>2. /\ pending'[s] = "query" /\ nested'[s] = {}
          /\ \A t \in Session : t # s => pending'[t] = pending[t] /\ nested'[t] = nested[t]
      BY <1>1, <2>1 DEF TypeOK
    <2>3. Local(s)
      BY <1>2, <1>3, <2>1, <2>2 DEF Local, Still
    <2>4. Handing'
      <3>1. StaysIn(s)
        BY <1>3, <2>2 DEF StaysIn, Delegating
      <3>. QED  BY <2>3, <3>1, LocalHanding
    <2>5. pending[s] = "none" /\ Settled(s)'
      <3>1. pending[s] = "none"
        BY <1>1, <2>1 DEF Settled
      <3>2. Owed(s)'
        BY <1>1, <1>2, <1>3, <2>1, <2>2, <3>1, OwedKept DEF Handback
      <3>. QED  BY <1>2, <1>3, <1>4, <2>2, <3>1, <3>2 DEF Settled, Handback
    <2>. QED  BY <1>2, <1>3, <2>1, <2>2, <2>3, <2>4, <2>5, QuietTrace
  <1>6. CASE HandUp(s) \/ HandbackErrors(s)
    <2>1. at[s] \in Handback /\ pending[s] = "delegate" /\ kids[s] = <<>> /\ nested' = nested
      BY <1>1, <1>6 DEF HandUp, HandbackErrors, Handback, Settled, Owed
    <2>2. /\ \/ pending'[s] = "delegate" /\ Len(kids'[s]) = 1 /\ kids'[s] # <<>>
             \/ pending'[s] = "broken" /\ kids'[s] = kids[s]
          /\ \A t \in Session : t # s => pending'[t] = pending[t] /\ kids'[t] = kids[t]
      <3>1. CASE HandUp(s)
        <4>1. kids' = [kids EXCEPT ![s] = Append(@, ledger["sub"])] /\ pending' = pending
          BY <3>1 DEF HandUp, Handed
        <4>2. kids'[s] = Append(<<>>, ledger["sub"]) /\ \A t \in Session : t # s => kids'[t] = kids[t]
          BY <1>1, <2>1, <4>1 DEF TypeOK
        <4>3. Len(kids'[s]) = 1 /\ kids'[s] # <<>>
          BY <4>2
        <4>. QED  BY <2>1, <4>1, <4>2, <4>3
      <3>2. CASE HandbackErrors(s)
        BY <1>1, <3>2 DEF HandbackErrors, TypeOK
      <3>. QED  BY <1>6, <3>1, <3>2
    <2>3. Local(s)
      BY <1>2, <1>3, <2>1, <2>2 DEF Local, Still
    <2>4. Handing'
      <3>1. StaysIn(s)
        BY <1>3, <2>1, <2>2 DEF StaysIn, Delegating
      <3>. QED  BY <2>3, <3>1, LocalHanding
    <2>5. Settled(s)'
      <3>1. Owed(s)'
        <4>1. CASE pending'[s] = "delegate" /\ Len(kids'[s]) = 1 /\ kids'[s] # <<>>
          BY <1>2, <1>3, <1>4, <4>1 DEF Owed, Handback
        <4>2. CASE pending'[s] = "broken" /\ kids'[s] = kids[s]
          BY <1>1, <1>2, <1>3, <2>1, <4>2, OwedKept DEF Handback
        <4>. QED  BY <2>2, <4>1, <4>2
      <3>. QED  BY <1>2, <1>3, <1>4, <2>1, <2>2, <3>1 DEF Settled, Handback
    <2>. QED  BY <1>2, <1>3, <2>1, <2>2, <2>3, <2>4, <2>5, QuietTrace
  <1>. QED  BY <1>5, <1>6

(* A summary: GuardStops in a subagent, GuardResets, CutoffReport.         *)
LEMMA SummaryTrace ==
  ASSUME TraceInv, IInv', NEW s \in Session, stack # <<>>, s = Running,
         NEW kind \in {"report", "handoff"}, NEW trigger \in {"context_guard", "finalize_step"},
         Summarize(s, kind, trigger), NEW place \in {"leaving", "handoff"}, Goto(s, place),
         at[s] \in {"guard", "cutoff"}, trigger = "finalize_step" => at[s] = "cutoff",
         UNCHANGED <<stack, step, pending, kids, saved>>,
         \A t \in Session : t # s => stop'[t] = stop[t], place # "leaving" => stop'[s] = stop[s]
  PROVE  TraceInv'
  <1> DEFINE v == View(s)
             w == View(s)'
             g == Graph(s)
             c == CallRow(s, kind, "summarizer")
             u == Row("summarizer", kind, trigger, {})
             one == <<u>>
             x == [w EXCEPT !.log = Append(v.log, c)]
  <1>1. TypeOK /\ Settled(s) /\ rows[s] \in Seq(RowType)
    BY DEF TraceInv, IInv, TypeOK
  <1>2. u \in RowType /\ u.type = "summarizer" /\ u.kind = kind /\ u.by = trigger
    <2>1. {} \in SUBSET Nat /\ kind \in CallKind
      BY DEF CallKind
    <2>. QED  BY <2>1, RowsAre
  <1>3. Answered(s, kind, "summarizer", one) /\ kind \in CallKind
    BY DEF Summarize, CallKind
  <1> HIDE DEF one
  <1>4. CallLeaves(s, kind, "summarizer", one)
    BY <1>1, <1>3, AnsweredIs
  <1>5. /\ c \in RowType /\ c.type = "llm_call" /\ c.kind = kind /\ c.by = "summarizer"
        /\ c.links = {Len(ledger[s]) + 1}
        /\ rows'[s] = rows[s] \o (<<c>> \o one) /\ ledger'[s] = Append(ledger[s], kind)
        /\ pending[s] = "none" => nested'[s] = nested[s]
        /\ \A t \in Session : t # s =>
              rows'[t] = rows[t] /\ ledger'[t] = ledger[t] /\ nested'[t] = nested[t]
    BY <1>4 DEF CallLeaves
  <1> HIDE DEF c, u
  <1>6. rows'[s] = Append(Append(rows[s], c), u)
    BY <1>1, <1>2, <1>5, RowsAdded DEF one
  <1>7. at'[s] = place /\ \A t \in Session : t # s => at'[t] = at[t]
    BY <1>1 DEF Goto, TypeOK
  <1>8. Local(s) /\ AddsNoTree(s)
    <2>1. Local(s)
      BY <1>5, <1>7 DEF Local, Still
    <2>2. ~Delegates(c) /\ ~Delegates(u)
      BY <1>2, <1>5 DEF Delegates
    <2>. QED  BY <1>1, <1>2, <1>5, <1>6, <2>1, <2>2, AddsNoTreeIs
  <1>9. /\ pending[s] = "none" /\ nested'[s] = nested[s] /\ Settled(s)' /\ Handing'
    <2>1. pending[s] = "none" /\ nested'[s] = nested[s]
      BY <1>1, <1>5 DEF Settled
    <2>2. Owed(s)'
      BY <1>1, <1>7, <1>8, OwedKept DEF Settled, Handback
    <2>3. StaysIn(s)
      BY <1>7, <1>8 DEF StaysIn, Delegating
    <2>4. Settled(s)'
      BY <1>1, <1>7, <2>1, <2>2 DEF Settled, Handback
    <2>. QED  BY <1>8, <2>1, <2>3, <2>4, LocalHanding
  <1>10. /\ Viewed(v) /\ SeenIn(s, g, v)
         /\ v.log = rows[s] /\ v.calls = ledger[s] /\ v.pend = pending[s] /\ v.nest = nested[s]
         /\ v.at = at[s] /\ v.step = step[s]
         /\ Viewed(w)
         /\ w.log = rows'[s] /\ w.calls = ledger'[s] /\ w.pend = pending'[s] /\ w.nest = nested'[s]
         /\ w.at = at'[s] /\ w.step = step'[s]
         /\ w.kids = v.kids /\ w.taken = v.taken /\ w.sublog = v.sublog
    BY <1>8, LocalKept, KeptSeen
  <1>11. Graph(s)' = Read(Read(g, c, Inner(s)'), u, Inner(s)')
    BY <1>2, <1>5, <1>6, <1>8, LocalKept, KeptGraph
  <1> HIDE DEF v, w, g
  <1>12. /\ x.log = Append(v.log, c) /\ x.calls = w.calls /\ x.pend = w.pend /\ x.nest = w.nest
         /\ x.kids = w.kids /\ x.taken = w.taken /\ x.sublog = w.sublog
    BY <1>10 DEF Viewed, ViewType
  <1> HIDE DEF x
  <1>13. Calling(v, x, c)
    BY <1>3, <1>5, <1>9, <1>10, <1>12 DEF Calling
  <1>14. AddsRow(x, w, u)
    BY <1>2, <1>6, <1>10, <1>12 DEF AddsRow
  <1>15. /\ c.kind \in {"report", "handoff"} /\ u.kind = c.kind
         /\ u.by = "finalize_step" => v.at = "cutoff"
         /\ v.at \in {"guard", "cutoff"} /\ v.pend = "none" /\ w.at \in {"leaving", "handoff"}
         /\ w.step = v.step
    BY <1>2, <1>5, <1>7, <1>9, <1>10
  <1>16. SeenIn(s, Read(Read(g, c, Inner(s)'), u, Inner(s)'), w)
    BY <1>2, <1>5, <1>10, <1>12, <1>13, <1>14, <1>15, SeenSummary
  <1>17. SeenIn(s, Graph(s)', View(s)')
    BY <1>11, <1>16 DEF w
  <1>. QED  BY <1>8, <1>9, <1>17, LocalTrace

(* Steps that write a summary: at the guard or at the cutoff.              *)
LEMMA SummaryActions ==
  ASSUME TraceInv, IInv', NEW s \in Session, stack # <<>>, s = Running,
         (GuardStops(s) /\ s = "sub") \/ GuardResets(s) \/ CutoffReport(s)
  PROVE  TraceInv'
  <1>1. TypeOK
    BY DEF TraceInv, IInv
  <1>2. \A reason : Leave(s, reason) => Goto(s, "leaving") /\ \A t \in Session : t # s => stop'[t] = stop[t]
    BY <1>1 DEF Leave, TypeOK
  <1>3. CASE GuardStops(s) /\ s = "sub"
    BY <1>2, <1>3, SummaryTrace DEF GuardStops, Delegated
  <1>4. CASE GuardResets(s)
    BY <1>4, SummaryTrace DEF GuardResets
  <1>5. CASE CutoffReport(s)
    BY <1>2, <1>5, SummaryTrace DEF CutoffReport
  <1>. QED  BY <1>3, <1>4, <1>5

(* A tool that is no delegation ends.                                      *)
LEMMA ToolRowSays ==
  ASSUME TypeOK, NEW s \in Session
  PROVE  LET r == ToolRow(s) IN
         /\ r \in RowType /\ r.type = "tool_call" /\ r.kind = pending[s] /\ r.links = nested[s]
  <1>1. pending[s] \in Tools \cup {"none"} /\ nested[s] \in SUBSET Nat
    BY DEF TypeOK
  <1>. QED  BY <1>1, RowsAre DEF ToolRow

(* The end of a tool, but a delegation.                                    *)
LEMMA EndToolTrace ==
  ASSUME TraceInv, IInv', NEW s \in Session, stack # <<>>, s = Running, EndTool(s), ~Delegating(s)
  PROVE  TraceInv'
  <1> DEFINE v == View(s)
             w == View(s)'
             g == Graph(s)
             r == ToolRow(s)
  <1>1. TypeOK /\ Settled(s) /\ rows[s] \in Seq(RowType)
    BY DEF TraceInv, IInv, TypeOK
  <1>2. /\ at[s] = "tool" /\ pending[s] # "none" /\ UNCHANGED <<stack, step, ledger, kids, saved, stop>>
        /\ Goto(s, "tools") /\ rows' = [rows EXCEPT ![s] = @ \o <<r>>]
        /\ pending' = [pending EXCEPT ![s] = "none"] /\ nested' = [nested EXCEPT ![s] = {}]
    BY <1>1 DEF EndTool, ToolOver, Emit, Settled
  <1>3. r \in RowType /\ r.type = "tool_call" /\ r.kind = pending[s] /\ r.links = nested[s]
    BY <1>1, <1>2, ToolRowSays
  <1> HIDE DEF r
  <1>4. /\ at'[s] = "tools" /\ pending'[s] = "none" /\ nested'[s] = {}
        /\ rows'[s] = rows[s] \o <<r>>
        /\ \A t \in Session : t # s => /\ at'[t] = at[t] /\ pending'[t] = pending[t]
                                       /\ nested'[t] = nested[t] /\ rows'[t] = rows[t]
    BY <1>1, <1>2 DEF Goto, TypeOK
  <1>5. rows'[s] = Append(rows[s], r)
    BY <1>1, <1>3, <1>4, RowsAdded
  <1>6. Local(s) /\ AddsNoTree(s) /\ ~Delegates(r)
    <2>1. Local(s)
      BY <1>2, <1>4 DEF Local, Still
    <2>2. ~Delegates(r)
      BY <1>3 DEF Delegates, Delegating
    <2>. QED  BY <1>1, <1>3, <1>5, <2>1, <2>2, AddsNoTreeIs
  <1>7. Settled(s)' /\ Handing'
    <2>1. Owed(s)'
      BY <1>1, <1>2, <1>4, <1>6, OwedKept DEF Settled, Handback, Delegating
    <2>2. StaysIn(s)
      BY <1>4, <1>6 DEF StaysIn, Delegating
    <2>3. Settled(s)'
      BY <1>1, <1>2, <1>4, <2>1 DEF Settled, Handback
    <2>. QED  BY <1>6, <2>2, <2>3, LocalHanding
  <1>8. /\ Viewed(v) /\ SeenIn(s, g, v)
        /\ v.log = rows[s] /\ v.calls = ledger[s] /\ v.pend = pending[s] /\ v.nest = nested[s]
        /\ v.at = at[s] /\ v.step = step[s]
        /\ Viewed(w)
        /\ w.log = rows'[s] /\ w.calls = ledger'[s] /\ w.pend = pending'[s] /\ w.nest = nested'[s]
        /\ w.at = at'[s] /\ w.step = step'[s]
        /\ w.kids = v.kids /\ w.taken = v.taken /\ w.sublog = v.sublog
    BY <1>6, LocalKept, KeptSeen
  <1>9. Graph(s)' = Read(g, r, Inner(s)')
    BY <1>3, <1>5, <1>6, LocalKept, KeptGraph
  <1> HIDE DEF v, w, g
  <1>10. ToolEnds(v, w, r)
    BY <1>2, <1>3, <1>4, <1>5, <1>8 DEF ToolEnds
  <1>11. SeenIn(s, Read(g, r, Inner(s)'), w)
    BY <1>3, <1>6, <1>8, <1>10, SeenTool
  <1>12. SeenIn(s, Graph(s)', View(s)')
    BY <1>9, <1>11 DEF w
  <1>. QED  BY <1>6, <1>7, <1>12, LocalTrace

(* The end of a step.                                                      *)
LEMMA FinalizeTrace ==
  ASSUME TraceInv, IInv', NEW s \in Session, stack # <<>>, s = Running, Finalize(s)
  PROVE  TraceInv'
  <1> DEFINE v == View(s)
             w == View(s)'
             g == Graph(s)
             a == Row("token_tracking", "none", "none", {})
             b == Row("finish_check", "none", "none", {})
  <1>1. TypeOK /\ Settled(s) /\ rows[s] \in Seq(RowType)
    BY DEF TraceInv, IInv, TypeOK
  <1>2. PICK place \in {"leaving", "guard", "cutoff"} :
           /\ at[s] = "tools" /\ UNCHANGED <<stack, step, ledger, pending, nested, kids, saved>>
           /\ Goto(s, place) /\ rows' = [rows EXCEPT ![s] = @ \o <<a, b>>]
           /\ (place # "leaving" => stop' = stop) /\ \A t \in Session : t # s => stop'[t] = stop[t]
    BY <1>1 DEF Finalize, Emit, Leave, TypeOK
  <1>3. a \in RowType /\ b \in RowType /\ a.type = "token_tracking" /\ b.type = "finish_check"
    <2>1. {} \in SUBSET Nat
      OBVIOUS
    <2>. QED  BY <2>1, RowsAre
  <1> HIDE DEF a, b
  <1>4. /\ at'[s] = place /\ rows'[s] = rows[s] \o <<a, b>>
        /\ \A t \in Session : t # s => at'[t] = at[t] /\ rows'[t] = rows[t]
    BY <1>1, <1>2 DEF Goto, TypeOK
  <1>5. rows'[s] = Append(Append(rows[s], a), b)
    BY <1>1, <1>3, <1>4, RowsAdded
  <1>6. Local(s) /\ AddsNoTree(s)
    <2>1. Local(s)
      BY <1>2, <1>4 DEF Local, Still
    <2>2. ~Delegates(a) /\ ~Delegates(b)
      BY <1>3 DEF Delegates
    <2>. QED  BY <1>1, <1>3, <1>5, <2>1, <2>2, AddsNoTreeIs
  <1>7. Settled(s)' /\ Handing'
    <2>1. Owed(s)'
      BY <1>1, <1>2, <1>4, <1>6, OwedKept DEF Settled, Handback
    <2>2. StaysIn(s)
      BY <1>2, <1>4, <1>6 DEF StaysIn, Delegating
    <2>3. Settled(s)'
      BY <1>1, <1>2, <1>4, <2>1 DEF Settled, Handback
    <2>. QED  BY <1>6, <2>2, <2>3, LocalHanding
  <1>8. /\ Viewed(v) /\ SeenIn(s, g, v)
        /\ v.log = rows[s] /\ v.calls = ledger[s] /\ v.pend = pending[s] /\ v.nest = nested[s]
        /\ v.at = at[s] /\ v.step = step[s]
        /\ Viewed(w)
        /\ w.log = rows'[s] /\ w.calls = ledger'[s] /\ w.pend = pending'[s] /\ w.nest = nested'[s]
        /\ w.at = at'[s] /\ w.step = step'[s]
        /\ w.kids = v.kids /\ w.taken = v.taken /\ w.sublog = v.sublog
    BY <1>6, LocalKept, KeptSeen
  <1>9. Graph(s)' = Read(Read(g, a, Inner(s)'), b, Inner(s)')
    BY <1>3, <1>5, <1>6, LocalKept, KeptGraph
  <1> HIDE DEF v, w, g
  <1>10. Keeps(v, w) /\ w.log = Append(Append(v.log, a), b)
    BY <1>2, <1>5, <1>8 DEF Keeps
  <1>11. SeenIn(s, Read(Read(g, a, Inner(s)'), b, Inner(s)'), w)
    <2>1. v.at = "tools" /\ w.at \in {"leaving", "guard", "cutoff"}
      BY <1>2, <1>4, <1>8
    <2>. QED  BY <1>3, <1>8, <1>10, <2>1, SeenFinalize
  <1>12. SeenIn(s, Graph(s)', View(s)')
    BY <1>9, <1>11 DEF w
  <1>. QED  BY <1>6, <1>7, <1>12, LocalTrace

-----------------------------------------------------------------------------
(* The tree drawn of a session is a drawing of what was read of it.        *)
LEMMA LastEnd ==
  ASSUME NEW log \in Seq(RowType), EndRows(log) # {}
  PROVE  \E i \in EndRows(log) : \A j \in EndRows(log) : j <= i
  <1> DEFINE N == Len(log)
             E == EndRows(log)
             S == {N - j : j \in E}
  <1>1. N \in Nat /\ \A j \in E : j \in 1 .. N
    BY LenProperties DEF EndRows
  <1> HIDE DEF N, E
  <1>2. S \subseteq Nat /\ S # {}
    BY <1>1 DEF E
  <1>3. PICK n \in S : \A m \in S : n <= m
    BY <1>2, LeastIn
  <1>4. PICK i \in E : n = N - i
    BY <1>3
  <1>5. ASSUME NEW j \in E PROVE j <= i
    <2>1. N - j \in S
      OBVIOUS
    <2>2. N - i <= N - j
      BY <1>3, <1>4, <2>1
    <2>. QED  BY <1>1, <2>2
  <1>. QED  BY <1>5 DEF E

(* load_session's last part: nest the last step, add the end.              *)
LEMMA TraceDrawing ==
  ASSUME NEW s, NEW log \in Seq(RowType), NEW inner
  PROVE  Drawing(s, ReadLog(s, log, inner), TraceOf(s, log, inner))
  <1> DEFINE g == ReadLog(s, log, inner)
             id == Name(s, 0, "session_end", 1)
             last == CHOOSE i \in EndRows(log) : \A j \in EndRows(log) : j <= i
  <1>1. TraceOf(s, log, inner) = IF EndRows(log) = {} THEN Nest(g) ELSE Added(Nest(g), id, log[last])
    BY DEF TraceOf
  <1>2. EndRows(log) # {} => last \in EndRows(log)
    BY LastEnd
  <1>3. EndRows(log) # {} => log[last] \in RowType
    BY <1>2 DEF EndRows
  <1> HIDE DEF last
  <1>. QED  BY <1>1, <1>3 DEF Drawing

(* The tree drawn of a subagent: its own nodes, and all of its calls.      *)
SubDrawing(t, v) ==
    /\ Shaped("sub", t) /\ \A x \in DOMAIN t.nodes : x[1] = "sub"
    /\ Grouped(v.log) => \A kind \in CallKind : CallsIn(t.nodes, kind) = CountOf(v.calls, kind)

(* What a parent needs of its subagent's drawing.                          *)
LEMMA SubDrawn ==
  ASSUME NEW g, NEW v, NEW t, Viewed(v), SeenIn("sub", g, v), Drawing("sub", g, t),
         v.kids = <<>>, v.taken = <<>>
  PROVE  SubDrawing(t, v)
  <1> DEFINE s == "sub"
  <1>1. s \in Session
    BY DEF Session
  <1> HIDE DEF s
  <1>2. /\ Shaped(s, g) /\ Known(s, g, v.log) /\ Summed(s, g, v.log) /\ Accounted(g, v) /\ v.calls \in Ledgers
    BY <1>1, SeenFacts DEF s
  <1>3. Drawing(s, g, t)
    BY DEF s
  <1>4. /\ Shaped(s, t)
        /\ \A kind \in CallKind : CallsIn(t.nodes, kind) = CallsIn(g.nodes, kind)
        /\ \A x \in DOMAIN t.nodes : x[1] = s \/ x \in DOMAIN g.nodes
    BY <1>1, <1>2, <1>3, DrawingIs
  <1>5. \A x \in DOMAIN g.nodes : x[1] = s
    BY <1>1, <1>2, RootsAre DEF Known, OwnNode, OthersNode, s
  <1>6. ASSUME Grouped(v.log), NEW kind \in CallKind PROVE CallsIn(t.nodes, kind) = CountOf(v.calls, kind)
    <2>1. CallsIn(g.nodes, kind) = CountOf(v.calls, kind) + CountOf(<<>>, kind)
      BY <1>2, <1>6 DEF Accounted, Paid
    <2>2. CountOf(v.calls, kind) \in Nat /\ CountOf(<<>>, kind) = 0
      BY <1>2, CountsAppend, CountsNone
    <2>. QED  BY <1>4, <2>1, <2>2
  <1>. QED  BY <1>4, <1>5, <1>6 DEF SubDrawing, s

-----------------------------------------------------------------------------
(* The end of a delegation: the subagent's tree comes under its row.       *)
LEMMA EndDelegateTrace ==
  ASSUME TraceInv, IInv', NEW s \in Session, stack # <<>>, s = Running, EndTool(s), Delegating(s)
  PROVE  TraceInv'
  <1> DEFINE v == View(s)
             w == View(s)'
             g == Graph(s)
             r == ToolRow(s)
             i == Inner(s)'
             x == View("sub")
             h == Graph("sub")
  <1>1. /\ IInv /\ TypeOK /\ TypeOK' /\ Handing /\ Settled(s) /\ SeenIn(s, g, v)
        /\ rows[s] \in Seq(RowType) /\ "sub" \in Session /\ SeenIn("sub", h, x)
        /\ ledger["sub"] \in Ledgers /\ rows["sub"] \in Seq(RowType)
    BY DEF TraceInv, IInv, Seen, Session, TypeOK
  <1>2. /\ at[s] = "tool" /\ UNCHANGED <<stack, step, ledger, kids, saved, stop>>
        /\ Goto(s, "tools") /\ rows' = [rows EXCEPT ![s] = @ \o <<r>>]
        /\ pending' = [pending EXCEPT ![s] = "none"] /\ nested' = [nested EXCEPT ![s] = {}]
    BY DEF EndTool, ToolOver, Emit
  <1>3. /\ s # "sub" /\ at["sub"] = "done" /\ pending[s] \in {"delegate", "broken"}
        /\ \A t \in Session : (Delegating(t) => t = s) /\ ~Embeds(t)
    BY <1>1, <1>2 DEF Handing, Delegating
  <1>4. r \in RowType /\ r.type = "tool_call" /\ r.kind = pending[s] /\ r.links = nested[s] /\ Delegates(r)
    BY <1>1, <1>3, ToolRowSays DEF Delegates
  <1> HIDE DEF r
  <1>5. /\ at'[s] = "tools" /\ pending'[s] = "none" /\ nested'[s] = {}
        /\ rows'[s] = rows[s] \o <<r>>
        /\ \A t \in Session : t # s => /\ at'[t] = at[t] /\ pending'[t] = pending[t]
                                       /\ nested'[t] = nested[t] /\ rows'[t] = rows[t]
    BY <1>1, <1>2 DEF Goto, TypeOK
  <1>6. rows'[s] = Append(rows[s], r) /\ Range(rows'[s]) = Range(rows[s]) \cup {r} /\ Embeds(s)'
    <2>1. rows'[s] = Append(rows[s], r)
      BY <1>1, <1>4, <1>5, RowsAdded
    <2>2. Range(rows'[s]) = Range(rows[s]) \cup {r}
      BY <1>1, <1>4, <2>1, RangeAppend
    <2>. QED  BY <1>4, <2>1, <2>2 DEF Embeds
  <1>7. Local(s)
    BY <1>2, <1>5 DEF Local, Still
  <1>8. Handing'
    <2>1. ASSUME NEW t \in Session PROVE ~Delegating(t)' /\ (Embeds(t)' => t = s)
      <3>1. CASE t = s
        BY <1>5, <3>1 DEF Delegating
      <3>2. CASE t # s
        BY <1>3, <1>5, <3>2 DEF Delegating, Embeds
      <3>. QED  BY <3>1, <3>2
    <2>2. at'["sub"] = "done"
      BY <1>1, <1>3, <1>5
    <2>. QED  BY <1>3, <2>1, <2>2 DEF Handing
  <1>9. Settled(s)'
    <2>1. ASSUME NEW q \in Range(rows'[s]), Delegates(q), q.kind = "delegate" PROVE kids[s] # <<>>
      <3>1. q = r
        BY <1>3, <1>6, <2>1 DEF Embeds
      <3>. QED  BY <1>1, <1>2, <1>4, <2>1, <3>1 DEF Settled, Owed
    <2>2. Owed(s)'
      BY <1>1, <1>2, <1>5, <1>6, <2>1 DEF Settled, Owed, Handback
    <2>. QED  BY <1>1, <1>2, <1>5, <2>2 DEF Settled, Handback
  <1>10. Graph(s)' = Read(g, r, i)
    BY <1>1, <1>3, <1>4, <1>6, GraphNext
  <1>11. /\ Viewed(v) /\ v.log = rows[s] /\ v.calls = ledger[s] /\ v.pend = pending[s] /\ v.nest = nested[s]
         /\ v.at = at[s] /\ v.step = step[s] /\ v.kids = <<>> /\ v.taken = <<>>
         /\ Viewed(x) /\ x.log = rows["sub"] /\ x.calls = ledger["sub"] /\ x.kids = <<>> /\ x.taken = <<>>
    BY <1>1, <1>3, ViewsSee DEF Sees
  <1>12. /\ w.log = rows'[s] /\ w.calls = ledger'[s] /\ w.pend = pending'[s] /\ w.nest = nested'[s]
         /\ w.at = at'[s] /\ w.step = step'[s] /\ w.kids # <<>>
         /\ w.taken = ledger'["sub"] /\ w.sublog = rows'["sub"]
    BY <1>1, <1>6, ViewSeesNext
  <1>13. w.taken = ledger["sub"] /\ w.sublog = rows["sub"]
    BY <1>1, <1>2, <1>3, <1>5, <1>12
  <1>14. Drawing("sub", h, i)
    <2>1. h = ReadLog("sub", rows["sub"], NoGraph("sub"))
      BY DEF Graph, Inner
    <2>2. i = TraceOf("sub", rows'["sub"], NoGraph("sub")) /\ rows'["sub"] = rows["sub"]
      BY <1>1, <1>3, <1>5 DEF Inner, SubTrace
    <2>. QED  BY <1>1, <2>1, <2>2, TraceDrawing
  <1> HIDE DEF v, w, g, i, x, h
  <1>15. SubDrawing(i, x)
    BY <1>1, <1>11, <1>14, SubDrawn
  <1>16. /\ Shaped("sub", i) /\ \A y \in DOMAIN i.nodes : y[1] = "sub"
         /\ Grouped(w.sublog) => \A kind \in CallKind : CallsIn(i.nodes, kind) = CountOf(w.taken, kind)
    BY <1>11, <1>13, <1>15 DEF SubDrawing
  <1>17. ToolEnds(v, w, r)
    BY <1>2, <1>3, <1>4, <1>5, <1>6, <1>11, <1>12 DEF ToolEnds
  <1>18. w.taken \in Ledgers
    BY <1>1, <1>13
  <1>19. SeenIn(s, Read(g, r, i), w)
    BY <1>1, <1>3, <1>4, <1>11, <1>12, <1>16, <1>17, <1>18, SeenDelegate
  <1>20. SeenIn(s, Graph(s)', View(s)')
    BY <1>10, <1>19 DEF w
  <1>. QED  BY <1>7, <1>8, <1>9, <1>20, LocalTrace

-----------------------------------------------------------------------------
(* A session is born inside another.                                       *)
LEMMA StartedReads ==
  ASSUME NEW s \in Session, NEW inner
  PROVE  ReadLog(s, Started, inner) = NoGraph(s)
  <1> DEFINE r == Row("session_start", "none", "none", {})
  <1>1. r \in RowType /\ r.type = "session_start"
    <2>1. {} \in SUBSET Nat
      OBVIOUS
    <2>. QED  BY <2>1, RowsAre
  <1>2. Started = Append(NoRows, r) /\ NoRows \in Seq(RowType)
    BY NoRowsAre DEF Started, NoRows
  <1> HIDE DEF r
  <1>3. ReadLog(s, NoRows, inner) = NoGraph(s)
    BY ReadNone DEF NoRows
  <1>4. ReadLog(s, Started, inner) = Read(NoGraph(s), r, inner)
    BY <1>1, <1>2, <1>3, ReadAppend
  <1>5. Type(r) \notin Built /\ ~Opens(r)
    BY <1>1 DEF Type, Built, Opens
  <1>6. Read(NoGraph(s), r, inner) = NoGraph(s)
    BY <1>5, ReadsNothing
  <1>. QED  BY <1>4, <1>6

(* which embeds nothing.                                                   *)
LEMMA StartedEmbeds ==
  ASSUME NEW t, rows'[t] = Started
  PROVE  ~Embeds(t)' /\ \A r \in Range(rows'[t]) : ~Delegates(r)
  <1>1. ASSUME NEW r \in Range(rows'[t]) PROVE ~Delegates(r)
    <2>1. PICK i \in DOMAIN Started : r = Started[i]
      BY <1>1 DEF Range
    <2>. QED  BY <2>1 DEF Started, Row, Delegates
  <1>. QED  BY <1>1 DEF Embeds

(* A session is born with its start row, of which the root is drawn.       *)
LEMMA BornSeen ==
  ASSUME TraceInv, IInv', NEW t \in Session, at[t] = "unborn", rows[t] = <<>>,
         rows'[t] = Started, at'[t] = "guard", ledger'[t] = ledger[t], pending'[t] = pending[t],
         step'[t] = step[t], t # "top"
  PROVE  SeenIn(t, Graph(t), View(t))'
  <1> DEFINE w == View(t)'
  <1>1. /\ ledger[t] = <<>> /\ pending[t] = "none" /\ step[t] = Base(t) /\ TypeOK'
    BY DEF TraceInv, IInv, Settled, Begun, Base
  <1>2. ~Embeds(t)'
    BY StartedEmbeds
  <1>5. /\ Viewed(w) /\ w.log = Started /\ w.calls = <<>> /\ w.kids = <<>> /\ w.taken = <<>>
        /\ w.pend = "none" /\ w.step = Base(t) /\ w.at = "guard"
    BY <1>1, <1>2, ViewSeesNext
  <1>3. Graph(t)' = NoGraph(t)
    <2>1. Graph(t)' = ReadLog(t, rows'[t], Inner(t)')
      BY DEF Graph
    <2>. QED  BY <2>1, StartedReads
  <1> HIDE DEF w
  <1>4. SeenIn(t, NoGraph(t), w)
    BY <1>5, SeenBorn
  <1>6. SeenIn(t, Graph(t)', View(t)')
    BY <1>3, <1>4 DEF w
  <1>. QED  BY <1>6

(* A session begins on top of the one that waits for it.                   *)
LEMMA StackedPush ==
  ASSUME IInv, Stacked, NEW s \in Session, stack # <<>>, s = Running, NEW t \in Session, rows[t] = <<>>,
         stack' = Append(stack, t),
         \A u \in Session : u # s => stop'[u] = stop[u] /\ saved'[u].there = saved[u].there
                                     /\ (u # t => pending'[u] = pending[u]),
         \/ t = "cont" /\ stop'[s] = "context_reset" /\ saved'[s].there
         \/ t = "sub" /\ stop'[s] = "max_steps" /\ pending'[s] = "delegate" /\ ~saved'[s].there
  PROVE  Stacked'
  <1>1. Len(stack) \in Nat /\ Len(stack) >= 1 /\ \A i \in 1 .. Len(stack) : stack[i] \in Session
    BY RunningIs
  <1>2. DOMAIN stack = 1 .. Len(stack) /\ stack \in Seq(Session)
    BY DEF IInv, TypeOK
  <1>3. /\ Len(stack') = Len(stack) + 1 /\ stack'[Len(stack) + 1] = t
        /\ \A i \in 1 .. Len(stack) : stack'[i] = stack[i]
    BY <1>2, AppendProperties
  <1>4. \A i \in 1 .. Len(stack) : stack[i] # t
    BY <1>2, UnbornIs
  <1>5. ASSUME NEW i \in 1 .. (Len(stack') - 1)
        PROVE  \/ stack'[i + 1] = "cont" /\ stop'[stack'[i]] = "context_reset" /\ saved'[stack'[i]].there
               \/ /\ stack'[i + 1] = "sub" /\ stop'[stack'[i]] = "max_steps"
                  /\ pending'[stack'[i]] = "delegate" /\ ~saved'[stack'[i]].there
    <2>1. i \in 1 .. Len(stack)
      BY <1>1, <1>3
    <2>2. CASE i = Len(stack)
      BY <1>3, <2>1, <2>2 DEF Running
    <2>3. CASE i # Len(stack)
      <3> DEFINE n == Len(stack)
      <3>4. n \in Nat /\ n >= 1 /\ i \in 1 .. n /\ i # n
        BY <1>1, <2>1, <2>3
      <3> HIDE DEF n
      <3>5. i \in 1 .. (n - 1) /\ i + 1 \in 1 .. n /\ i < n /\ n \in 1 .. n
        BY <3>4
      <3>1. i \in 1 .. (Len(stack) - 1) /\ i + 1 \in 1 .. Len(stack) /\ i < Len(stack)
            /\ Len(stack) \in 1 .. Len(stack)
        BY <3>5 DEF n
      <3>2. stack[i] # s /\ stack[i] # t /\ stack[i] \in Session
        BY <1>1, <1>2, <1>4, <2>1, <3>1 DEF IInv, Nested, Running
      <3>3. stack'[i] = stack[i] /\ stack'[i + 1] = stack[i + 1]
        BY <1>3, <2>1, <3>1
      <3>. QED  BY <3>1, <3>2, <3>3 DEF Stacked
    <2>. QED  BY <2>2, <2>3
  <1>. QED  BY <1>5 DEF Stacked

(* The others stay as they are, s waits, t begins.                         *)
LEMMA BirthTrace ==
  ASSUME TraceInv, IInv', NEW s \in Session, stack # <<>>, s = Running, NEW t \in Session, rows[t] = <<>>,
         Stacked', Handing', Settled(s)', SeenIn(s, Graph(s), View(s))',
         rows'[t] = Started, at'[t] = "guard", ledger'[t] = ledger[t], pending'[t] = pending[t],
         step'[t] = step[t], kids'[t] = kids[t], stop'[t] = stop[t], saved'[t] = saved[t],
         nested'[t] = nested[t],
         \A u \in Session : u # s /\ u # t => Still(u)
  PROVE  TraceInv'
  <1>1. IInv /\ Handing /\ (\A u \in Session : Settled(u)) /\ Seen
    BY DEF TraceInv
  <1>2. at[t] = "unborn" /\ t # s /\ t # "top"
    BY <1>1, UnbornIs
  <1>3. ASSUME NEW u \in Session PROVE Settled(u)'
    <2>1. CASE u = s
      BY <2>1
    <2>2. CASE u = t
      <3>1. Settled(t) /\ kids[t] = <<>> /\ pending[t] = "none" /\ ~saved[t].there
            /\ stop[t] = "max_steps" /\ nested[t] = {} /\ ~Embeds(t)' /\ Len(<<>>) = 0
        BY <1>1, <1>2, StartedEmbeds DEF Settled
      <3>2. Owed(t)'
        BY <3>1, StartedEmbeds DEF Owed, Handback
      <3>3. Settled(t)'
        BY <3>1, <3>2 DEF Settled, Handback
      <3>. QED  BY <2>2, <3>3
    <2>3. CASE u # s /\ u # t
      BY <1>1, <2>3, StillSettled
    <2>. QED  BY <2>1, <2>2, <2>3
  <1>4. ASSUME NEW u \in Session PROVE SeenIn(u, Graph(u), View(u))'
    <2>1. CASE u = s
      BY <2>1
    <2>2. CASE u = t
      BY <1>2, <2>2, BornSeen
    <2>3. CASE u # s /\ u # t
      <3>1. Embeds(u) => Still("sub")
        <4>1. ASSUME Embeds(u) PROVE "sub" # s /\ "sub" # t
          BY <1>1, <1>2, <4>1, SubIsOver
        <4>2. "sub" \in Session
          BY DEF Session
        <4>. QED  BY <4>1, <4>2
      <3>2. ~Embeds(u) \/ (rows'["sub"] = rows["sub"] /\ ledger'["sub"] = ledger["sub"])
        BY <3>1 DEF Still
      <3>3. Still(u)
        BY <2>3
      <3>. QED  BY <1>1, <3>2, <3>3, StillSeen DEF Seen
    <2>. QED  BY <2>1, <2>2, <2>3
  <1>. QED  BY <1>3, <1>4 DEF TraceInv, Seen

(* The one that waits is otherwise unmoved.                                *)
LEMMA BirthKept ==
  ASSUME TraceInv, NEW s \in Session, stack # <<>>, s = Running, NEW t \in Session, rows[t] = <<>>,
         AddsNoTree(s), \A u \in Session : u # s /\ u # t => Still(u)
  PROVE  Kept(s)
  <1>1. ASSUME Embeds(s) PROVE Still("sub")
    <2>1. "sub" # s /\ "sub" # t /\ "sub" \in Session
      BY <1>1, SubIsOver, UnbornIs DEF TraceInv, Session
    <2>. QED  BY <2>1
  <1>. QED  BY <1>1 DEF Kept, Still

(* The continuation of a reset.                                            *)
LEMMA SpawnTrace ==
  ASSUME TraceInv, IInv', NEW s \in Session, stack # <<>>, s = Running, SpawnContinuation(s)
  PROVE  TraceInv'
  <1> DEFINE v == View(s)
             w == View(s)'
             g == Graph(s)
             r == Row("handoff", "none", "none", {})
             t == "cont"
  <1>1. IInv /\ TypeOK /\ TypeOK' /\ Handing /\ Settled(s) /\ Stacked /\ rows[s] \in Seq(RowType) /\ t \in Session
    BY DEF TraceInv, IInv, TypeOK, Session
  <1>2. /\ at[s] \in {"handoff", "spawn"} /\ UNCHANGED <<step, ledger, pending, nested, kids>>
        /\ at' = [at EXCEPT ![s] = "waiting", ![t] = "guard"]
        /\ rows' = [rows EXCEPT ![s] = Append(@, r), ![t] = Started]
        /\ saved' = [saved EXCEPT ![s] = Rollup(s, ledger[s])]
        /\ stop' = [stop EXCEPT ![s] = "context_reset"] /\ stack' = Append(stack, t)
    BY DEF SpawnContinuation
  <1>3. rows[t] = <<>>
    BY <1>1, <1>2 DEF IInv, Begun
  <1>4. t # s
    BY <1>1, <1>3, UnbornIs
  <1>5. r \in RowType /\ r.type = "handoff"
    <2>1. {} \in SUBSET Nat
      OBVIOUS
    <2>. QED  BY <2>1, RowsAre
  <1> HIDE DEF r, t
  <1>6. /\ at'[s] = "waiting" /\ at'[t] = "guard" /\ rows'[s] = Append(rows[s], r) /\ rows'[t] = Started
        /\ saved'[s] = Rollup(s, ledger[s]) /\ stop'[s] = "context_reset"
        /\ \A u \in Session : u # s => saved'[u] = saved[u] /\ stop'[u] = stop[u]
        /\ \A u \in Session : u # s /\ u # t => at'[u] = at[u] /\ rows'[u] = rows[u]
    <2>1. /\ at'[s] = "waiting" /\ at'[t] = "guard"
          /\ \A u \in Session : u # s /\ u # t => at'[u] = at[u]
      BY <1>1, <1>2, <1>4 DEF TypeOK
    <2>2. /\ rows'[s] = Append(rows[s], r) /\ rows'[t] = Started
          /\ \A u \in Session : u # s /\ u # t => rows'[u] = rows[u]
      BY <1>1, <1>2, <1>4 DEF TypeOK
    <2>3. /\ saved'[s] = Rollup(s, ledger[s]) /\ stop'[s] = "context_reset"
          /\ \A u \in Session : u # s => saved'[u] = saved[u] /\ stop'[u] = stop[u]
      BY <1>1, <1>2, <1>4 DEF TypeOK
    <2>. QED  BY <2>1, <2>2, <2>3
  <1>7. /\ saved'[s].there /\ saved'[s].calls = ledger[s] /\ saved'[s].kids = kids[s]
    BY <1>6 DEF Rollup
  <1>8. \A u \in Session : u # s /\ u # t => Still(u)
    BY <1>2, <1>6 DEF Still
  <1>20. AddsNoTree(s)
    <2>1. ~Delegates(r)
      BY <1>5 DEF Delegates
    <2>. QED  BY <1>1, <1>5, <1>6, <2>1, AddsNoTreeIs
  <1>22. at["sub"] = "done" => at'["sub"] = "done"
    BY <1>2, <1>6 DEF Session, t
  <1>9. Settled(s)'
    <2>2. /\ Owed(s) /\ kids'[s] = kids[s] /\ saved'[s].kids = kids[s] /\ pending'[s] = pending[s]
          /\ at'[s] \notin Handback /\ at'[s] # "tool"
      BY <1>1, <1>2, <1>6, <1>7 DEF Settled, Handback
    <2>1. Owed(s)'
      BY <1>20, <2>2, OwedKept
    <2>. QED  BY <1>1, <1>2, <1>6, <1>7, <2>1 DEF Settled, Handback
  <1>21. Handing'
    <2>1. ASSUME NEW u \in Session
          PROVE  /\ Delegating(u)' => Delegating(u)
                 /\ Delegating(u)' /\ at'[u] = "tool" => at'["sub"] = "done"
                 /\ Embeds(u)' <=> Embeds(u)
      <3>1. Delegating(u)' <=> Delegating(u)
        BY <1>2 DEF Delegating
      <3>2. Embeds(u)' <=> Embeds(u)
        <4>1. CASE u = s
          BY <1>20, <4>1, SameEmbeds
        <4>2. CASE u = t
          BY <1>3, <1>6, <4>2, StartedEmbeds DEF Embeds, Range
        <4>3. CASE u # s /\ u # t
          BY <1>6, <4>3 DEF Embeds
        <4>. QED  BY <4>1, <4>2, <4>3
      <3>3. Delegating(u) /\ at'[u] = "tool" => at["sub"] = "done"
        BY <1>1, <1>6 DEF Handing
      <3>. QED  BY <1>22, <3>1, <3>2, <3>3
    <2>2. rows["sub"] # <<>> => rows'["sub"] # <<>>
      <3>1. at'["sub"] = "unborn" => at["sub"] = "unborn"
        BY <1>6 DEF Session
      <3>. QED  BY <1>1, <3>1 DEF IInv, Begun, Session
    <2>. QED  BY <1>1, <1>22, <2>1, <2>2, HandingKept
  <1>10. Stacked'
    BY <1>1, <1>2, <1>3, <1>6, <1>7, StackedPush DEF t
  <1>11. Kept(s)
    BY <1>1, <1>2, <1>3, <1>8, <1>20, BirthKept
  <1>12. /\ Viewed(v) /\ SeenIn(s, g, v)
         /\ v.log = rows[s] /\ v.calls = ledger[s] /\ v.pend = pending[s] /\ v.nest = nested[s]
         /\ v.at = at[s] /\ v.step = step[s]
         /\ w.log = rows'[s] /\ w.calls = ledger'[s] /\ w.pend = pending'[s] /\ w.nest = nested'[s]
         /\ w.at = at'[s] /\ w.stop = stop'[s] /\ w.step = step'[s]
         /\ w.kids = v.kids /\ w.taken = v.taken /\ w.sublog = v.sublog
    BY <1>11, KeptSeen
  <1>13. w.there = "yes"
    BY <1>1, <1>7, ViewSeesNext
  <1>14. Graph(s)' = Read(g, r, Inner(s)')
    BY <1>5, <1>6, <1>11, KeptGraph
  <1> HIDE DEF v, w, g
  <1>15. Keeps(v, w) /\ w.log = Append(v.log, r)
    BY <1>2, <1>6, <1>12 DEF Keeps
  <1>16. Spent(w) /\ v.at \in {"handoff", "spawn"} /\ w.at = "waiting"
    BY <1>2, <1>6, <1>12, <1>13 DEF Spent
  <1>17. \A q \in Range(v.log) : q.type # r.type
    BY <1>5, <1>12, <1>16 DEF SeenIn, Told
  <1>18. SeenIn(s, Read(g, r, Inner(s)'), w)
    BY <1>5, <1>12, <1>15, <1>16, <1>17, SeenNode
  <1>19. SeenIn(s, Graph(s)', View(s)')
    BY <1>14, <1>18 DEF w
  <1>. QED  BY <1>1, <1>2, <1>3, <1>4, <1>6, <1>8, <1>9, <1>10, <1>19, <1>21, BirthTrace

(* A subagent, in its delegate call.                                       *)
LEMMA DelegateTrace ==
  ASSUME TraceInv, IInv', NEW s \in Session, stack # <<>>, s = Running, BeginTool(s, "delegate")
  PROVE  TraceInv'
  <1> DEFINE v == View(s)
             w == View(s)'
             g == Graph(s)
             t == "sub"
  <1>1. IInv /\ TypeOK /\ TypeOK' /\ Handing /\ Settled(s) /\ Stacked /\ t \in Session
    BY DEF TraceInv, IInv, Session
  <1>2. /\ at[s] = "tools" /\ UNCHANGED <<step, ledger, kids, saved, stop>> /\ rows[t] = <<>>
        /\ at' = [at EXCEPT ![s] = "waiting", ![t] = "guard"]
        /\ rows' = [rows EXCEPT ![t] = Started] /\ stack' = Append(stack, t)
        /\ pending' = [pending EXCEPT ![s] = "delegate"] /\ nested' = [nested EXCEPT ![s] = {}]
    BY DEF BeginTool, Unused
  <1>3. t # s
    BY <1>1, <1>2, UnbornIs
  <1> HIDE DEF t
  <1>4. /\ at'[s] = "waiting" /\ at'[t] = "guard" /\ rows'[s] = rows[s] /\ rows'[t] = Started
        /\ pending'[s] = "delegate" /\ nested'[s] = {}
        /\ \A u \in Session : u # s => pending'[u] = pending[u] /\ nested'[u] = nested[u]
        /\ \A u \in Session : u # s /\ u # t => at'[u] = at[u] /\ rows'[u] = rows[u]
    BY <1>1, <1>2, <1>3 DEF TypeOK
  <1>5. pending[s] = "none" /\ stop[s] = "max_steps" /\ ~saved[s].there
    BY <1>1, <1>2 DEF Settled
  <1>6. \A u \in Session : u # s /\ u # t => Still(u)
    BY <1>2, <1>4 DEF Still
  <1>15. AddsNoTree(s)
    BY <1>4 DEF AddsNoTree
  <1>16. \A u \in Session : ~Delegating(u) /\ ~Embeds(u) /\ kids[u] = <<>>
    <2>1. at[t] = "unborn"
      BY <1>1, <1>2, UnbornIs
    <2>. QED  BY <1>1, <1>2, <2>1 DEF Handing, IInv, Reported, t
  <1>7. Settled(s)'
    <2>1. Owed(s)'
      BY <1>1, <1>2, <1>4, <1>5, <1>15, <1>16, OwedKept DEF Settled, Handback
    <2>. QED  BY <1>1, <1>2, <1>4, <1>5, <2>1 DEF Settled, Handback
  <1>17. Handing'
    <2>1. ASSUME NEW u \in Session PROVE (Delegating(u)' => u = s) /\ ~Embeds(u)'
      <3>1. Delegating(u)' => u = s
        BY <1>4, <1>16 DEF Delegating
      <3>2. CASE u = t
        BY <1>4, <3>1, <3>2, StartedEmbeds
      <3>3. CASE u # t
        BY <1>4, <1>16, <3>1, <3>3 DEF Embeds
      <3>. QED  BY <3>2, <3>3
    <2>2. s # "sub" /\ rows'["sub"] # <<>> /\ at'[s] # "tool"
      BY <1>3, <1>4 DEF t, Started
    <2>. QED  BY <2>1, <2>2 DEF Handing
  <1>8. Stacked'
    BY <1>1, <1>2, <1>4, <1>5, StackedPush DEF t
  <1>9. Kept(s)
    BY <1>1, <1>2, <1>6, <1>15, BirthKept
  <1>10. /\ Viewed(v) /\ SeenIn(s, g, v)
         /\ v.log = rows[s] /\ v.calls = ledger[s] /\ v.pend = pending[s] /\ v.nest = nested[s]
         /\ v.at = at[s] /\ v.step = step[s]
         /\ Viewed(w)
         /\ w.log = rows'[s] /\ w.calls = ledger'[s] /\ w.pend = pending'[s] /\ w.nest = nested'[s]
         /\ w.at = at'[s] /\ w.stop = stop'[s] /\ w.step = step'[s]
         /\ w.kids = v.kids /\ w.taken = v.taken /\ w.sublog = v.sublog
    BY <1>9, KeptSeen
  <1>11. Graph(s)' = g
    BY <1>4, <1>9, KeptGraph
  <1> HIDE DEF v, w, g
  <1>12. ~Spent(v)
    BY <1>2, <1>10 DEF Spent
  <1>13. SeenIn(s, g, w)
    BY <1>2, <1>4, <1>5, <1>10, <1>12, SeenQuiet
  <1>14. SeenIn(s, Graph(s)', View(s)')
    BY <1>11, <1>13 DEF w
  <1>. QED  BY <1>1, <1>2, <1>3, <1>4, <1>6, <1>7, <1>8, <1>14, <1>17, BirthTrace

-----------------------------------------------------------------------------
(* A session over, its caller goes on.                                     *)
LEMMA StackedPop ==
  ASSUME IInv, Stacked, NEW s \in Session, stack # <<>>, s = Running,
         NEW caller, caller = stack[Len(stack) - 1], stack' = Front(stack),
         \A u \in Session : u # s /\ (u # caller \/ s = "top") =>
            stop'[u] = stop[u] /\ saved'[u].there = saved[u].there /\ pending'[u] = pending[u]
  PROVE  /\ Stacked'
         /\ s # "top" => \/ s = "cont" /\ stop[caller] = "context_reset" /\ saved[caller].there
                         \/ /\ s = "sub" /\ stop[caller] = "max_steps"
                            /\ pending[caller] = "delegate" /\ ~saved[caller].there
  <1> DEFINE n == Len(stack)
             m == n - 1
  <1>1. /\ n \in Nat /\ n >= 1 /\ stack[n] = s
        /\ s = "top" => n = 1
        /\ s # "top" => n >= 2 /\ caller \in Session /\ caller # s
    BY CallerIs
  <1>2. /\ m \in Nat /\ n = m + 1
        /\ s = "top" => m = 0
        /\ s # "top" => m \in 1 .. m /\ caller = stack[m]
    BY <1>1
  <1>3. \A i \in 1 .. n : stack[i] \in Session
    BY RunningIs
  <1>4. \A i, j \in 1 .. n : i < j => stack[i] # stack[j]
    <2>1. DOMAIN stack = 1 .. n
      BY LenProperties DEF IInv, TypeOK
    <2>. QED  BY <2>1 DEF IInv, Nested
  <1>5. Len(stack') = m /\ \A i \in 1 .. m : stack'[i] = stack[i]
    <2>1. stack' = SubSeq(stack, 1, m)
      BY DEF Front
    <2>2. 1 \in Int /\ m \in Int /\ m - 1 + 1 = m /\ (IF 1 <= m THEN m - 1 + 1 ELSE 0) = m
      BY <1>2
    <2>3. \A i \in 1 .. m : stack[i] \in Session
      BY <1>2, <1>3
    <2> HIDE DEF m, n
    <2>4. Len(stack') = m /\ \A i \in 1 .. m : stack'[i] = stack[1 + i - 1]
      BY <2>1, <2>2, <2>3, SubSeqProperties
    <2>5. \A i \in 1 .. m : 1 + i - 1 = i
      BY <1>2
    <2>. QED  BY <2>4, <2>5
  <1>6. \A i \in 1 .. m :
           \/ stack[i + 1] = "cont" /\ stop[stack[i]] = "context_reset" /\ saved[stack[i]].there
           \/ /\ stack[i + 1] = "sub" /\ stop[stack[i]] = "max_steps"
              /\ pending[stack[i]] = "delegate" /\ ~saved[stack[i]].there
    BY DEF Stacked
  <1> HIDE DEF m, n
  <1>7. s # "top" => \/ s = "cont" /\ stop[caller] = "context_reset" /\ saved[caller].there
                     \/ /\ s = "sub" /\ stop[caller] = "max_steps"
                        /\ pending[caller] = "delegate" /\ ~saved[caller].there
    BY <1>1, <1>2, <1>6
  <1>8. ASSUME NEW i \in 1 .. (m - 1)
        PROVE  \/ stack'[i + 1] = "cont" /\ stop'[stack'[i]] = "context_reset" /\ saved'[stack'[i]].there
               \/ /\ stack'[i + 1] = "sub" /\ stop'[stack'[i]] = "max_steps"
                  /\ pending'[stack'[i]] = "delegate" /\ ~saved'[stack'[i]].there
    <2>1. i \in 1 .. m /\ i + 1 \in 1 .. m /\ i \in 1 .. n /\ n \in 1 .. n /\ m \in 1 .. n /\ i < m /\ i < n
      BY <1>1, <1>2
    <2>2. s # "top"
      BY <1>2, <2>1
    <2>3. stack[i] # s /\ stack[i] # caller /\ stack[i] \in Session
      BY <1>1, <1>2, <1>3, <1>4, <2>1, <2>2
    <2>4. stack'[i] = stack[i] /\ stack'[i + 1] = stack[i + 1]
      BY <1>5, <2>1
    <2>. QED  BY <1>6, <2>1, <2>3, <2>4
  <1>. QED  BY <1>5, <1>7, <1>8 DEF Stacked

(* What the finally block leaves, whether it ends or is cut.               *)
PopLeaves(s, caller, place, next) ==
    /\ at[s] \in {"leaving", "raising"} /\ place \in {"done", "died"} /\ at'[s] = place
    /\ \/ /\ Ended(s) \in RowType /\ rows'[s] = Append(rows[s], Ended(s))
          /\ place = IF at[s] = "leaving" THEN "done" ELSE "died"
       \/ rows'[s] = rows[s] /\ place = "died"
    /\ saved'[s] = saved[s] \/ saved'[s] = Rollup(s, ledger[s])
    /\ stack' = Front(stack) /\ stop'[s] = stop[s] /\ pending'[s] = pending[s]
    /\ UNCHANGED <<step, ledger, nested, kids>>
    /\ \A u \in Session : u # s => rows'[u] = rows[u] /\ saved'[u] = saved[u]
    /\ \A u \in Session : u # s /\ (u # caller \/ s = "top") =>
          at'[u] = at[u] /\ stop'[u] = stop[u] /\ pending'[u] = pending[u]
    /\ s # "top" =>
          /\ caller \in Session /\ caller # s /\ at[caller] = "waiting" /\ at'[caller] = next
          /\ \/ next = "report" /\ s = "sub" /\ stop'[caller] = stop[caller] /\ pending'[caller] = pending[caller]
             \/ next = "tool" /\ s = "sub" /\ stop'[caller] = stop[caller] /\ pending'[caller] = "failed"
             \/ next \in {"leaving", "raising"} /\ pending'[caller] = pending[caller]

LEMMA SaveIs ==
  ASSUME TypeOK, NEW s \in Session, Save(s) \/ UNCHANGED saved
  PROVE  /\ saved'[s] = saved[s] \/ saved'[s] = Rollup(s, ledger[s])
         /\ \A u \in Session : u # s => saved'[u] = saved[u]
  BY DEF Save, TypeOK

LEMMA OverIs ==
  ASSUME IInv, NEW s \in Session, stack # <<>>, s = Running, NEW caller, caller = stack[Len(stack) - 1],
         NEW place, NEW next, Over(s, place, next)
  PROVE  /\ stack' = Front(stack) /\ at'[s] = place /\ UNCHANGED <<step, ledger, nested, kids>>
         /\ \A u \in Session : u # s /\ (u # caller \/ s = "top") => at'[u] = at[u]
         /\ s # "top" => caller \in Session /\ caller # s /\ at[caller] = "waiting" /\ at'[caller] = next
  <1>1. /\ stack' = Front(stack) /\ UNCHANGED <<step, ledger, nested, kids>>
        /\ at' = [t \in Session |-> CASE t = s -> place
                                      [] t # s /\ s # "top" /\ t = caller -> next
                                      [] OTHER -> at[t]]
    BY DEF Over, Caller
  <1>2. s # "top" => caller \in Session /\ caller # s /\ at[caller] = "waiting"
    BY CallerIs
  <1>. QED  BY <1>1, <1>2

(* The row of the end.                                                     *)
LEMMA EndedIs ==
  ASSUME TypeOK, NEW s \in Session
  PROVE  /\ Ended(s) \in RowType /\ Ended(s).type = "session_end" /\ Ended(s).links = {step[s]}
         /\ Emit(s, <<Ended(s)>>) =>
               rows'[s] = Append(rows[s], Ended(s)) /\ \A u \in Session : u # s => rows'[u] = rows[u]
  <1> DEFINE row == Ended(s)
  <1>1. row \in RowType /\ row.type = "session_end" /\ row.links = {step[s]}
    <2>1. stop[s] \in Reasons /\ {step[s]} \in SUBSET Nat
      BY DEF TypeOK
    <2>. QED  BY <2>1, RowsAre DEF Ended
  <1> HIDE DEF row
  <1>2. ASSUME rows' = [rows EXCEPT ![s] = @ \o <<row>>]
        PROVE  rows'[s] = Append(rows[s], row) /\ \A u \in Session : u # s => rows'[u] = rows[u]
    <2>1. rows[s] \in Seq(RowType) /\ rows'[s] = rows[s] \o <<row>>
      BY <1>2 DEF TypeOK
    <2>. QED  BY <1>1, <1>2, <2>1, AppendIsConcat DEF TypeOK
  <1>. QED  BY <1>1, <1>2 DEF Emit, row

LEMMA EscapesAre ==
  ASSUME IInv, NEW s \in Session, stack # <<>>, s = Running, NEW caller, caller = stack[Len(stack) - 1],
         Escapes(s)
  PROVE  \E next \in {"tool", "raising"} :
            /\ Over(s, "died", next)
            /\ \A u \in Session : u # caller \/ s = "top" => pending'[u] = pending[u]
            /\ s # "top" => IF next = "tool" THEN s = "sub" /\ pending'[caller] = "failed"
                                             ELSE pending'[caller] = pending[caller]
  <1>1. CASE Over(s, "died", "raising") /\ UNCHANGED pending
    BY <1>1
  <1>2. CASE s = "sub" /\ Over(s, "died", "tool") /\ pending' = [pending EXCEPT ![caller] = "failed"]
    <2>1. caller \in Session
      BY <1>2, CallerIs
    <2>. QED  BY <1>2, <2>1 DEF IInv, TypeOK
  <1>. QED  BY <1>1, <1>2 DEF Escapes, Caller

LEMMA PopIs ==
  ASSUME IInv, NEW s \in Session, stack # <<>>, s = Running, NEW caller, caller = stack[Len(stack) - 1],
         Finish(s) \/ FinishRaising(s) \/ CutFinally(s)
  PROVE  \E place \in {"done", "died"}, next \in {"report", "tool", "leaving", "raising"} :
            PopLeaves(s, caller, place, next)
  <1>1. TypeOK /\ (s # "top" => caller \in Session /\ caller # s)
    BY CallerIs DEF IInv
  <1>2. CASE Finish(s)
    <2> DEFINE next == IF s = "sub" THEN "report" ELSE "leaving"
    <2>1. /\ at[s] = "leaving" /\ Save(s) /\ Emit(s, <<Ended(s)>>) /\ Over(s, "done", next)
          /\ UNCHANGED pending
          /\ stop' = IF s = "cont" /\ stop[s] = "llm_failure"
                     THEN [stop EXCEPT ![caller] = "llm_failure"] ELSE stop
      BY <1>2 DEF Finish, Caller
    <2>2. /\ stop'[s] = stop[s] /\ (s # "cont" => stop' = stop)
          /\ \A u \in Session : u # s /\ (u # caller \/ s = "top") => stop'[u] = stop[u]
      <3>1. CASE s = "cont" /\ stop[s] = "llm_failure"
        <4>1. stop' = [stop EXCEPT ![caller] = "llm_failure"] /\ caller # s
          BY <1>1, <2>1, <3>1
        <4>. QED  BY <1>1, <3>1, <4>1 DEF TypeOK
      <3>2. CASE ~(s = "cont" /\ stop[s] = "llm_failure")
        BY <2>1, <3>2
      <3>. QED  BY <3>1, <3>2
    <2> HIDE DEF next
    <2>3. /\ stack' = Front(stack) /\ at'[s] = "done" /\ UNCHANGED <<step, ledger, nested, kids>>
          /\ \A u \in Session : u # s /\ (u # caller \/ s = "top") => at'[u] = at[u]
          /\ s # "top" => caller \in Session /\ caller # s /\ at[caller] = "waiting" /\ at'[caller] = next
      BY <2>1, OverIs
    <2>4. /\ Ended(s) \in RowType /\ rows'[s] = Append(rows[s], Ended(s))
          /\ \A u \in Session : u # s => rows'[u] = rows[u]
      BY <1>1, <2>1, EndedIs
    <2>5. /\ saved'[s] = saved[s] \/ saved'[s] = Rollup(s, ledger[s])
          /\ \A u \in Session : u # s => saved'[u] = saved[u]
      BY <1>1, <2>1, SaveIs
    <2>6. \/ next = "report" /\ s = "sub"
          \/ next = "leaving"
      BY DEF next
    <2>7. PopLeaves(s, caller, "done", next)
      BY <2>1, <2>2, <2>3, <2>4, <2>5, <2>6 DEF PopLeaves
    <2>. QED  BY <2>6, <2>7
  <1>3. ASSUME NEW next \in {"tool", "raising"}, Over(s, "died", next), UNCHANGED stop,
               at[s] \in {"leaving", "raising"}, Save(s) \/ UNCHANGED saved,
               \/ at[s] = "raising" /\ Emit(s, <<Ended(s)>>)
               \/ UNCHANGED rows,
               \A u \in Session : u # caller \/ s = "top" => pending'[u] = pending[u],
               s # "top" => IF next = "tool" THEN s = "sub" /\ pending'[caller] = "failed"
                                             ELSE pending'[caller] = pending[caller]
        PROVE  PopLeaves(s, caller, "died", next)
    <2>1. /\ stack' = Front(stack) /\ at'[s] = "died" /\ UNCHANGED <<step, ledger, nested, kids>>
          /\ \A u \in Session : u # s /\ (u # caller \/ s = "top") => at'[u] = at[u]
          /\ s # "top" => caller \in Session /\ caller # s /\ at[caller] = "waiting" /\ at'[caller] = next
      BY <1>3, OverIs
    <2>2. /\ saved'[s] = saved[s] \/ saved'[s] = Rollup(s, ledger[s])
          /\ \A u \in Session : u # s => saved'[u] = saved[u]
      BY <1>1, <1>3, SaveIs
    <2>3. /\ \/ Ended(s) \in RowType /\ rows'[s] = Append(rows[s], Ended(s)) /\ at[s] = "raising"
             \/ rows'[s] = rows[s]
          /\ \A u \in Session : u # s => rows'[u] = rows[u]
      BY <1>1, <1>3, EndedIs
    <2>4. pending'[s] = pending[s] /\ stop'[s] = stop[s]
          /\ \A u \in Session : u # s /\ (u # caller \/ s = "top") => stop'[u] = stop[u] /\ pending'[u] = pending[u]
      BY <1>1, <1>3
    <2>. QED  BY <1>3, <2>1, <2>2, <2>3, <2>4 DEF PopLeaves
  <1>4. CASE FinishRaising(s)
    <2>1. /\ at[s] = "raising" /\ Save(s) /\ Emit(s, <<Ended(s)>>) /\ Escapes(s) /\ UNCHANGED stop
      BY <1>4 DEF FinishRaising
    <2>2. PICK next \in {"tool", "raising"} :
            /\ Over(s, "died", next)
            /\ \A u \in Session : u # caller \/ s = "top" => pending'[u] = pending[u]
            /\ s # "top" => IF next = "tool" THEN s = "sub" /\ pending'[caller] = "failed"
                                             ELSE pending'[caller] = pending[caller]
      BY <2>1, EscapesAre
    <2>3. PopLeaves(s, caller, "died", next)
      BY <1>3, <2>1, <2>2
    <2>. QED  BY <2>2, <2>3
  <1>5. CASE CutFinally(s)
    <2>1. at[s] \in {"leaving", "raising"} /\ (Save(s) \/ UNCHANGED saved) /\ UNCHANGED rows
      BY <1>5 DEF CutFinally
    <2>2. CASE Escapes(s) /\ UNCHANGED stop
      <3>1. PICK next \in {"tool", "raising"} :
              /\ Over(s, "died", next)
              /\ \A u \in Session : u # caller \/ s = "top" => pending'[u] = pending[u]
              /\ s # "top" => IF next = "tool" THEN s = "sub" /\ pending'[caller] = "failed"
                                               ELSE pending'[caller] = pending[caller]
        BY <2>2, EscapesAre
      <3>2. PopLeaves(s, caller, "died", next)
        BY <1>3, <2>1, <2>2, <3>1
      <3>. QED  BY <3>1, <3>2
    <2>3. CASE s # "top" /\ Over(s, "died", "leaving") /\ UNCHANGED pending
               /\ stop' = [stop EXCEPT ![caller] = "aborted"]
      <3>1. /\ stack' = Front(stack) /\ at'[s] = "died" /\ UNCHANGED <<step, ledger, nested, kids>>
            /\ \A u \in Session : u # s /\ (u # caller \/ s = "top") => at'[u] = at[u]
            /\ s # "top" => caller \in Session /\ caller # s /\ at[caller] = "waiting" /\ at'[caller] = "leaving"
        BY <2>3, OverIs
      <3>2. /\ saved'[s] = saved[s] \/ saved'[s] = Rollup(s, ledger[s])
            /\ \A u \in Session : u # s => saved'[u] = saved[u]
        BY <1>1, <2>1, SaveIs
      <3>3. \A u \in Session : u # caller => stop'[u] = stop[u]
        BY <1>1, <2>3 DEF TypeOK
      <3>4. PopLeaves(s, caller, "died", "leaving")
        BY <1>1, <2>1, <2>3, <3>1, <3>2, <3>3 DEF PopLeaves
      <3>. QED  BY <3>4
    <2>. QED  BY <1>5, <2>2, <2>3 DEF CutFinally, Caller
  <1>. QED  BY <1>2, <1>4, <1>5

(* The end of a session.                                                   *)
LEMMA PopTrace ==
  ASSUME TraceInv, IInv', NEW s \in Session, stack # <<>>, s = Running,
         Finish(s) \/ FinishRaising(s) \/ CutFinally(s)
  PROVE  TraceInv'
  <1> DEFINE r == Ended(s)
  <1>1. IInv /\ TypeOK /\ TypeOK' /\ Stacked /\ Handing /\ Seen /\ \A t \in Session : Settled(t)
    BY DEF TraceInv, IInv
  <1>14. PICK caller : caller = stack[Len(stack) - 1]
    OBVIOUS
  <1>3. PICK place \in {"done", "died"}, next \in {"report", "tool", "leaving", "raising"} :
          PopLeaves(s, caller, place, next)
    BY <1>1, <1>14, PopIs
  <1>2. r \in RowType /\ r.type = "session_end" /\ r.links = {step[s]} /\ ~Delegates(r)
    BY <1>1, EndedIs DEF Delegates
  <1> HIDE DEF r
  <1>4. /\ at[s] \in {"leaving", "raising"} /\ at'[s] = place /\ stop'[s] = stop[s] /\ pending'[s] = pending[s]
        /\ \/ /\ rows'[s] = Append(rows[s], r)
              /\ place = IF at[s] = "leaving" THEN "done" ELSE "died"
           \/ rows'[s] = rows[s] /\ place = "died"
        /\ saved'[s] = saved[s] \/ saved'[s] = Rollup(s, ledger[s])
        /\ stack' = Front(stack) /\ UNCHANGED <<step, ledger, nested, kids>>
        /\ \A u \in Session : u # s => rows'[u] = rows[u] /\ saved'[u] = saved[u]
        /\ \A u \in Session : u # s /\ (u # caller \/ s = "top") =>
              at'[u] = at[u] /\ stop'[u] = stop[u] /\ pending'[u] = pending[u]
    BY <1>3 DEF PopLeaves, r
  <1>5. s # "top" =>
          /\ caller \in Session /\ caller # s /\ at[caller] = "waiting" /\ at'[caller] = next
          /\ \/ next = "report" /\ s = "sub" /\ stop'[caller] = stop[caller] /\ pending'[caller] = pending[caller]
             \/ next = "tool" /\ s = "sub" /\ stop'[caller] = stop[caller] /\ pending'[caller] = "failed"
             \/ next \in {"leaving", "raising"} /\ pending'[caller] = pending[caller]
    BY <1>3 DEF PopLeaves
  <1>6. /\ Stacked'
        /\ s # "top" => \/ s = "cont" /\ stop[caller] = "context_reset" /\ saved[caller].there
                        \/ /\ s = "sub" /\ stop[caller] = "max_steps"
                           /\ pending[caller] = "delegate" /\ ~saved[caller].there
    BY <1>1, <1>4, <1>14, StackedPop
  <1>7. AddsNoTree(s) /\ \A u \in Session : AddsNoTree(u)
    <2>1. rows[s] \in Seq(RowType)
      BY <1>1 DEF TypeOK
    <2>2. AddsNoTree(s)
      BY <1>2, <1>4, <2>1, AddsNoTreeIs
    <2>3. \A u \in Session : u # s => AddsNoTree(u)
      BY <1>4 DEF AddsNoTree
    <2>. QED  BY <2>2, <2>3
  <1>8. ASSUME NEW t \in Session PROVE Kept(t)
    <2>1. Embeds(t) => s # "sub" /\ "sub" \in Session
      BY <1>1, SubIsOver DEF Session
    <2>. QED  BY <1>4, <1>7, <2>1 DEF Kept
  <1>9. Handing'
    <2>1. at["sub"] = "done" => at'["sub"] = "done"
      BY <1>4, <1>5 DEF Session
    <2>2. ASSUME NEW t \in Session
          PROVE  /\ Delegating(t)' => Delegating(t)
                 /\ Delegating(t)' /\ at'[t] = "tool" => at'["sub"] = "done"
                 /\ Embeds(t)' <=> Embeds(t)
      <3>1. Embeds(t)' <=> Embeds(t)
        BY <1>7, SameEmbeds
      <3>2. Delegating(t)' => Delegating(t) /\ (t # s => pending'[t] = pending[t])
        BY <1>4, <1>5 DEF Delegating
      <3>3. ASSUME Delegating(t)', at'[t] = "tool" PROVE at["sub"] = "done"
        <4>1. t # s
          BY <1>4, <3>3
        <4>2. CASE t # caller \/ s = "top"
          BY <1>1, <1>4, <3>2, <3>3, <4>1, <4>2 DEF Handing
        <4>3. CASE t = caller /\ s # "top"
          BY <1>5, <3>3, <4>3 DEF Delegating
        <4>. QED  BY <4>2, <4>3
      <3>. QED  BY <2>1, <3>1, <3>2, <3>3
    <2>3. rows["sub"] # <<>> => rows'["sub"] # <<>>
      <3>1. at'["sub"] = "unborn" => at["sub"] = "unborn"
        BY <1>4, <1>5 DEF Session
      <3>. QED  BY <1>1, <3>1 DEF IInv, Begun, Session
    <2>. QED  BY <1>1, <2>1, <2>2, <2>3, HandingKept
  <1>10. Settled(s)'
    <2>1. Owed(s) /\ kids'[s] = kids[s] /\ (saved'[s] = saved[s] \/ saved'[s].kids = kids[s])
          /\ pending'[s] = pending[s] /\ at'[s] \notin Handback /\ at'[s] # "tool"
      BY <1>1, <1>4 DEF Settled, Handback, Rollup
    <2>2. Owed(s)'
      BY <1>7, <2>1, OwedKept
    <2>. QED  BY <1>1, <1>4, <2>2 DEF Settled, Handback
  <1>11. SeenIn(s, Graph(s), View(s))'
    <2> DEFINE v == View(s)
               w == View(s)'
               g == Graph(s)
               i == Inner(s)'
    <2>1. /\ Viewed(v) /\ SeenIn(s, g, v)
          /\ v.log = rows[s] /\ v.calls = ledger[s] /\ v.pend = pending[s] /\ v.nest = nested[s]
          /\ v.at = at[s] /\ v.stop = stop[s] /\ v.step = step[s]
          /\ Viewed(w)
          /\ w.log = rows'[s] /\ w.calls = ledger'[s] /\ w.pend = pending'[s] /\ w.nest = nested'[s]
          /\ w.at = at'[s] /\ w.stop = stop'[s] /\ w.step = step'[s]
          /\ w.kids = v.kids /\ w.taken = v.taken /\ w.sublog = v.sublog
      BY <1>8, KeptSeen
    <2>2. /\ rows'[s] = Append(rows[s], r) => Graph(s)' = Read(g, r, i)
          /\ rows'[s] = rows[s] => Graph(s)' = g
      BY <1>2, <1>8, KeptGraph
    <2> HIDE DEF v, w, g, i
    <2>6. /\ v.at \in {"leaving", "raising"} /\ w.calls = v.calls
          /\ w.pend = v.pend /\ w.nest = v.nest /\ w.step = v.step /\ w.stop = v.stop
      BY <1>4, <2>1
    <2>3. CASE rows'[s] = Append(rows[s], r) /\ place = IF at[s] = "leaving" THEN "done" ELSE "died"
      <3>1. Ending(v, w, r)
        BY <1>2, <1>4, <2>1, <2>3, <2>6 DEF Ending
      <3>2. Read(g, r, i) = g /\ SeenIn(s, g, w)
        BY <1>2, <2>1, <3>1, SeenEnd
      <3>3. SeenIn(s, Graph(s)', View(s)')
        BY <2>2, <2>3, <3>2 DEF w
      <3>. QED  BY <3>3
    <2>4. CASE rows'[s] = rows[s] /\ place = "died"
      <3>1. w.log = v.log /\ w.at = "died" /\ v.at \notin {"done", "died"}
        BY <1>4, <2>1, <2>4, <2>6
      <3>2. SeenIn(s, g, w)
        BY <2>1, <2>6, <3>1, SeenQuiet
      <3>3. SeenIn(s, Graph(s)', View(s)')
        BY <2>2, <2>4, <3>2 DEF w
      <3>. QED  BY <3>3
    <2>. QED  BY <1>4, <2>3, <2>4
  <1>12. ASSUME s # "top" PROVE Settled(caller)' /\ SeenIn(caller, Graph(caller), View(caller))'
    <2>1. /\ caller \in Session /\ caller # s /\ at[caller] = "waiting" /\ at'[caller] = next
          /\ rows'[caller] = rows[caller] /\ saved'[caller] = saved[caller]
      BY <1>4, <1>5, <1>12
    <2>2. \/ next \in {"leaving", "raising"} /\ pending'[caller] = pending[caller]
          \/ /\ s = "sub" /\ stop[caller] = "max_steps" /\ stop'[caller] = "max_steps"
             /\ pending[caller] = "delegate" /\ ~saved[caller].there
             /\ \/ next = "report" /\ pending'[caller] = "delegate"
                \/ next = "tool" /\ pending'[caller] = "failed"
      BY <1>5, <1>6, <1>12
    <2>3. s = "sub" => kids[caller] = <<>>
      BY <1>1, <1>4, <2>1 DEF IInv, Reported
    <2>4. Settled(caller)'
      <3>1. Owed(caller) /\ AddsNoTree(caller) /\ kids'[caller] = kids[caller]
        BY <1>1, <1>4, <1>7, <2>1 DEF Settled
      <3>2. Owed(caller)'
        <4>1. CASE next \in {"leaving", "raising"} /\ pending'[caller] = pending[caller]
          <5>1. at'[caller] \notin Handback /\ at'[caller] # "tool"
            BY <2>1, <4>1 DEF Handback
          <5>. QED  BY <2>1, <3>1, <4>1, <5>1, OwedKept
        <4>2. CASE s = "sub" /\ next \in {"report", "tool"}
          BY <2>1, <2>2, <2>3, <3>1, <4>2, OwedKept
        <4>. QED  BY <2>2, <4>1, <4>2
      <3>. QED  BY <1>1, <1>4, <2>1, <2>2, <3>2 DEF Settled, Handback
    <2> DEFINE v == View(caller)
               w == View(caller)'
               g == Graph(caller)
    <2>5. /\ Viewed(v) /\ SeenIn(caller, g, v)
          /\ v.log = rows[caller] /\ v.calls = ledger[caller] /\ v.pend = pending[caller]
          /\ v.nest = nested[caller] /\ v.at = at[caller] /\ v.stop = stop[caller] /\ v.step = step[caller]
          /\ Viewed(w)
          /\ w.log = rows'[caller] /\ w.calls = ledger'[caller] /\ w.pend = pending'[caller]
          /\ w.nest = nested'[caller] /\ w.at = at'[caller] /\ w.step = step'[caller]
          /\ w.kids = v.kids /\ w.taken = v.taken /\ w.sublog = v.sublog
      BY <1>8, <2>1, KeptSeen
    <2>6. Graph(caller)' = g
      BY <1>8, <2>1, KeptGraph
    <2> HIDE DEF v, w, g
    <2>7. w.at \in {"leaving", "raising"} \/ (~Spent(v) /\ w.at \in {"report", "tool"})
      BY <2>1, <2>2, <2>5 DEF Spent
    <2>8. /\ w.log = v.log /\ w.calls = v.calls /\ w.nest = v.nest /\ w.step = v.step /\ v.at = "waiting"
          /\ v.pend # "none" <=> w.pend # "none"
      BY <1>4, <2>1, <2>2, <2>5
    <2>9. SeenIn(caller, g, w)
      BY <2>1, <2>5, <2>7, <2>8, SeenQuiet DEF Handback
    <2>10. SeenIn(caller, Graph(caller)', View(caller)')
      BY <2>6, <2>9 DEF w
    <2>. QED  BY <2>4, <2>10
  <1>13. ASSUME NEW t \in Session PROVE Settled(t)' /\ SeenIn(t, Graph(t), View(t))'
    <2>1. CASE t = s
      BY <1>10, <1>11, <2>1
    <2>2. CASE t = caller /\ s # "top"
      BY <1>12, <2>2
    <2>3. CASE t # s /\ (t # caller \/ s = "top")
      <3>1. Still(t)
        BY <1>4, <2>3 DEF Still
      <3>2. Settled(t)'
        BY <1>1, <3>1, StillSettled
      <3>3. ~Embeds(t) \/ (rows'["sub"] = rows["sub"] /\ ledger'["sub"] = ledger["sub"])
        BY <1>8 DEF Kept
      <3>4. SeenIn(t, Graph(t), View(t))'
        BY <1>1, <3>1, <3>3, StillSeen DEF Seen
      <3>. QED  BY <3>2, <3>4
    <2>. QED  BY <2>1, <2>2, <2>3
  <1>. QED  BY <1>6, <1>9, <1>13 DEF TraceInv, Seen

-----------------------------------------------------------------------------
(* While s takes a report, only its subagent's log, ledger and save move.  *)
HandsBack(s) ==
    /\ at[s] \in Handback /\ UNCHANGED <<stack, step, pending, nested, kids, stop>>
    /\ at'[s] \in Handback /\ \A t \in Session : t # s => at'[t] = at[t]
    /\ \A t \in Session : t # "sub" => rows'[t] = rows[t] /\ ledger'[t] = ledger[t] /\ saved'[t] = saved[t]
    /\ saved'["sub"] = saved["sub"] \/ saved'["sub"] = Rollup("sub", ledger["sub"])

(* The subagent is over, and nobody has embedded it.                       *)
LEMMA HandbackFacts ==
  ASSUME TraceInv, NEW s \in Session, at[s] \in Handback
  PROVE  /\ s # "sub" /\ "sub" \in Session /\ at["sub"] = "done" /\ saved["sub"].there
         /\ pending[s] = "delegate" /\ kids[s] = <<>> /\ stop[s] = "max_steps" /\ ~saved[s].there
         /\ \A t \in Session : (Delegating(t) => t = s) /\ ~Embeds(t)
         /\ rows["sub"] \in Seq(RowType) /\ ledger["sub"] \in Ledgers
         /\ at[s] \in {"report", "fallback"} => \A q \in Range(rows["sub"]) : q.type # "report"
  <1>1. IInv /\ TypeOK /\ Handing /\ Settled(s) /\ "sub" \in Session
    BY DEF TraceInv, IInv, Session
  <1>2. /\ s # "sub" /\ at["sub"] = "done" /\ saved["sub"].there
        /\ at[s] \in {"report", "fallback"} => Reports("sub") = {}
    BY <1>1 DEF IInv, Reported
  <1>3. pending[s] = "delegate" /\ kids[s] = <<>> /\ stop[s] = "max_steps" /\ ~saved[s].there
    BY <1>1 DEF Settled, Owed, Handback
  <1>4. \A t \in Session : (Delegating(t) => t = s) /\ ~Embeds(t)
    <2>1. Delegating(s)
      BY <1>3 DEF Delegating
    <2>. QED  BY <1>1, <2>1 DEF Handing
  <1>5. at[s] \in {"report", "fallback"} => \A q \in Range(rows["sub"]) : q.type # "report"
    BY <1>2 DEF Reports, Range
  <1>. QED  BY <1>1, <1>2, <1>3, <1>4, <1>5 DEF TypeOK

LEMMA HandbackTrace ==
  ASSUME TraceInv, IInv', NEW s \in Session, stack # <<>>, s = Running, HandsBack(s), AddsNoTree("sub"),
         SeenIn("sub", Graph("sub"), View("sub"))'
  PROVE  TraceInv'
  <1>1. IInv /\ TypeOK /\ Stacked /\ Handing /\ Seen /\ \A t \in Session : Settled(t)
    BY DEF TraceInv, IInv
  <1>2. /\ s # "sub" /\ "sub" \in Session /\ at["sub"] = "done" /\ saved["sub"].there
        /\ pending[s] = "delegate" /\ kids[s] = <<>> /\ stop[s] = "max_steps" /\ ~saved[s].there
        /\ \A t \in Session : (Delegating(t) => t = s) /\ ~Embeds(t)
    BY HandbackFacts DEF HandsBack
  <1>3. saved'["sub"].there /\ (saved'["sub"] = saved["sub"] \/ saved'["sub"].kids = kids["sub"])
    BY <1>2 DEF HandsBack, Rollup
  <1>4. Stacked'
    <2>1. ASSUME NEW t \in Session
          PROVE  stop'[t] = stop[t] /\ saved'[t].there = saved[t].there /\ pending'[t] = pending[t]
      <3>1. CASE t = "sub"
        BY <1>2, <1>3, <3>1 DEF HandsBack, Rollup
      <3>2. CASE t # "sub"
        BY <3>2 DEF HandsBack
      <3>. QED  BY <3>1, <3>2
    <2>. QED  BY <1>1, <2>1, StackedKept DEF HandsBack
  <1>5. \A t \in Session : AddsNoTree(t)
    BY DEF AddsNoTree, HandsBack
  <1>6. Handing'
    <2>1. at'["sub"] = "done"
      BY <1>2 DEF HandsBack
    <2>2. rows["sub"] # <<>> => rows'["sub"] # <<>>
      <3>1. rows'["sub"] # <<>>
        BY <1>2, <2>1 DEF IInv, Begun
      <3>. QED  BY <3>1
    <2>3. ASSUME NEW t \in Session
          PROVE  /\ Delegating(t)' => Delegating(t)
                 /\ Delegating(t)' /\ at'[t] = "tool" => at'["sub"] = "done"
                 /\ Embeds(t)' <=> Embeds(t)
      BY <1>5, <2>1, SameEmbeds DEF HandsBack, Delegating
    <2>. QED  BY <1>1, <2>1, <2>2, <2>3, HandingKept
  <1>7. Settled(s)' /\ SeenIn(s, Graph(s), View(s))'
    <2>1. Settled(s)'
      <3>1. /\ Owed(s) /\ kids'[s] = kids[s] /\ saved'[s] = saved[s] /\ pending'[s] = pending[s]
            /\ at'[s] # "tool"
        BY <1>1, <1>2 DEF HandsBack, Settled, Handback
      <3>2. Owed(s)'
        BY <1>2, <1>5, <3>1, OwedKept
      <3>. QED  BY <1>2, <3>1, <3>2 DEF HandsBack, Settled, Handback
    <2> DEFINE v == View(s)
               w == View(s)'
               g == Graph(s)
    <2>2. Kept(s)
      BY <1>2, <1>5 DEF Kept
    <2>3. /\ Viewed(v) /\ SeenIn(s, g, v)
          /\ v.log = rows[s] /\ v.calls = ledger[s] /\ v.pend = pending[s] /\ v.nest = nested[s]
          /\ v.at = at[s] /\ v.stop = stop[s] /\ v.step = step[s]
          /\ Viewed(w)
          /\ w.log = rows'[s] /\ w.calls = ledger'[s] /\ w.pend = pending'[s] /\ w.nest = nested'[s]
          /\ w.at = at'[s] /\ w.step = step'[s]
          /\ w.kids = v.kids /\ w.taken = v.taken /\ w.sublog = v.sublog
      BY <2>2, KeptSeen
    <2>4. Graph(s)' = g
      BY <1>2, <2>2, KeptGraph DEF HandsBack
    <2> HIDE DEF v, w, g
    <2>5. v.at \in Handback /\ w.at \in Handback
      BY <2>3 DEF HandsBack
    <2>6. ~Spent(v) /\ v.at \notin {"done", "died", "leaving", "raising"}
      BY <2>5 DEF Spent, Handback
    <2>7. /\ w.log = v.log /\ w.calls = v.calls /\ w.pend = v.pend /\ w.nest = v.nest /\ w.step = v.step
      BY <1>2, <2>3 DEF HandsBack
    <2>8. SeenIn(s, g, w)
      BY <2>3, <2>5, <2>6, <2>7, SeenQuiet
    <2>9. SeenIn(s, Graph(s)', View(s)')
      BY <2>4, <2>8 DEF w
    <2>. QED  BY <2>1, <2>9
  <1>8. Settled("sub")'
    <2>1. Owed("sub")'
      <3>1. /\ Owed("sub") /\ kids'["sub"] = kids["sub"] /\ pending'["sub"] = pending["sub"]
            /\ at'["sub"] = "done"
        BY <1>1, <1>2 DEF HandsBack, Settled
      <3>. QED  BY <1>3, <1>5, <3>1, OwedKept DEF Handback
    <2>. QED  BY <1>1, <1>2, <2>1 DEF HandsBack, Settled, Handback
  <1>9. ASSUME NEW t \in Session PROVE Settled(t)' /\ SeenIn(t, Graph(t), View(t))'
    <2>1. CASE t = s
      BY <1>7, <2>1
    <2>2. CASE t = "sub"
      BY <1>8, <2>2
    <2>3. CASE t # s /\ t # "sub"
      <3>1. Still(t)
        BY <2>3 DEF HandsBack, Still
      <3>2. Settled(t)'
        BY <1>1, <3>1, StillSettled
      <3>3. SeenIn(t, Graph(t), View(t))'
        BY <1>1, <1>2, <3>1, StillSeen DEF Seen
      <3>. QED  BY <3>2, <3>3
    <2>. QED  BY <2>1, <2>2, <2>3
  <1>. QED  BY <1>4, <1>6, <1>9 DEF TraceInv, Seen

(* What is seen of the subagent then: a report row is drawn,               *)
LEMMA ReportSeen ==
  ASSUME TraceInv, IInv', NEW s \in Session, HandsBack(s), at[s] \in {"report", "fallback"},
         NEW r \in RowType, r.type = "report",
         ledger'["sub"] = ledger["sub"], rows'["sub"] = Append(rows["sub"], r)
  PROVE  AddsNoTree("sub") /\ SeenIn("sub", Graph("sub"), View("sub"))'
  <1> DEFINE t == "sub"
             v == View(t)
             w == View(t)'
             g == Graph(t)
             i == Inner(t)'
  <1>1. /\ t \in Session /\ at[t] = "done" /\ s # t /\ ~Embeds(t) /\ rows[t] \in Seq(RowType)
        /\ \A q \in Range(rows[t]) : q.type # "report"
    BY HandbackFacts DEF HandsBack
  <1> HIDE DEF t
  <1>2. AddsNoTree(t)
    BY <1>1, AddsNoTreeIs DEF Delegates, t
  <1>3. Kept(t)
    BY <1>1, <1>2 DEF Kept
  <1>4. /\ Viewed(v) /\ SeenIn(t, g, v)
        /\ v.log = rows[t] /\ v.calls = ledger[t] /\ v.pend = pending[t] /\ v.nest = nested[t]
        /\ v.at = at[t] /\ v.stop = stop[t] /\ v.step = step[t]
        /\ w.log = rows'[t] /\ w.calls = ledger'[t] /\ w.pend = pending'[t] /\ w.nest = nested'[t]
        /\ w.at = at'[t] /\ w.stop = stop'[t] /\ w.step = step'[t]
        /\ w.kids = v.kids /\ w.taken = v.taken /\ w.sublog = v.sublog
    BY <1>1, <1>3, KeptSeen
  <1>5. Graph(t)' = Read(g, r, i)
    BY <1>1, <1>3, KeptGraph DEF t
  <1> HIDE DEF v, w, g, i
  <1>6. Keeps(v, w) /\ w.log = Append(v.log, r) /\ v.at = "done" /\ w.at = "done" /\ w.stop = v.stop
    BY <1>1, <1>4 DEF Keeps, HandsBack, t
  <1>7. \A q \in Range(v.log) : q.type # r.type
    BY <1>1, <1>4
  <1>8. SeenIn(t, Read(g, r, i), w)
    BY <1>1, <1>4, <1>6, <1>7, SeenNode
  <1>9. SeenIn(t, Graph(t)', View(t)')
    BY <1>5, <1>8 DEF w
  <1>. QED  BY <1>2, <1>9 DEF t

(* and so is generate_report's call.                                       *)
LEMMA ReportCallSeen ==
  ASSUME TraceInv, IInv', NEW s \in Session, HandsBack(s),
         NEW c \in RowType, c.type = "llm_call", c.kind = "report", c.by = "agent",
         c.links = {Len(ledger["sub"]) + 1},
         ledger'["sub"] = Append(ledger["sub"], "report"), rows'["sub"] = Append(rows["sub"], c)
  PROVE  AddsNoTree("sub") /\ SeenIn("sub", Graph("sub"), View("sub"))'
  <1> DEFINE t == "sub"
             v == View(t)
             w == View(t)'
             g == Graph(t)
             i == Inner(t)'
  <1>1. t \in Session /\ at[t] = "done" /\ s # t /\ ~Embeds(t) /\ rows[t] \in Seq(RowType)
    BY HandbackFacts DEF HandsBack
  <1> HIDE DEF t
  <1>2. AddsNoTree(t)
    BY <1>1, AddsNoTreeIs DEF Delegates, t
  <1>3. Kept(t)
    BY <1>1, <1>2 DEF Kept
  <1>4. /\ Viewed(v) /\ SeenIn(t, g, v)
        /\ v.log = rows[t] /\ v.calls = ledger[t] /\ v.pend = pending[t] /\ v.nest = nested[t]
        /\ v.at = at[t] /\ v.stop = stop[t] /\ v.step = step[t]
        /\ w.log = rows'[t] /\ w.calls = ledger'[t] /\ w.pend = pending'[t] /\ w.nest = nested'[t]
        /\ w.at = at'[t] /\ w.stop = stop'[t] /\ w.step = step'[t]
        /\ w.kids = v.kids /\ w.taken = v.taken /\ w.sublog = v.sublog
    BY <1>1, <1>3, KeptSeen
  <1>5. Graph(t)' = Read(g, c, i)
    BY <1>1, <1>3, KeptGraph DEF t
  <1> HIDE DEF v, w, g, i
  <1>6. Calling(v, w, c)
    BY <1>4 DEF Calling, CallKind, HandsBack, t
  <1>7. Spent(v) /\ Spent(w) /\ v.at = "done" /\ w.at = "done" /\ w.step = v.step /\ w.stop = v.stop
    BY <1>1, <1>4 DEF Spent, HandsBack, t
  <1>8. SeenIn(t, Read(g, c, i), w)
    BY <1>1, <1>4, <1>6, <1>7, SeenCall DEF Ancillary
  <1>9. SeenIn(t, Graph(t)', View(t)')
    BY <1>5, <1>8 DEF w
  <1>. QED  BY <1>2, <1>9 DEF t

(* The steps of ToolRegistry.delegate after the subagent's execute().      *)
LEMMA ReportActions ==
  ASSUME TraceInv, IInv', NEW s \in Session, stack # <<>>, s = Running,
         VerbatimReport(s) \/ SummarizerReport(s) \/ FallbackCall(s) \/ FallbackRow(s) \/ Resave(s)
  PROVE  TraceInv'
  <1> DEFINE t == "sub"
  <1>1. /\ at[s] \in Handback /\ UNCHANGED <<stack, step, pending, nested, kids, stop>>
        /\ Goto(s, "handing") \/ Goto(s, "fallback") \/ Goto(s, "resave")
    BY DEF VerbatimReport, SummarizerReport, GivenReport, FallbackCall, FallbackRow, Resave, Handback
  <1>2. /\ TypeOK /\ t \in Session /\ s # t /\ ~Embeds(t) /\ at[t] = "done" /\ saved[t].there
        /\ rows[t] \in Seq(RowType) /\ ledger[t] \in Ledgers
    BY <1>1, HandbackFacts DEF TraceInv, IInv
  <1>3. at'[s] \in Handback /\ \A u \in Session : u # s => at'[u] = at[u]
    BY <1>1, <1>2 DEF Goto, TypeOK, Handback
  <1> HIDE DEF t
  <1>4. \A new : Emit(t, <<new>>) =>
           rows'[t] = rows[t] \o <<new>> /\ \A u \in Session : u # t => rows'[u] = rows[u]
    BY <1>2 DEF Emit, TypeOK
  <1>5. \A new \in RowType : rows[t] \o <<new>> = Append(rows[t], new)
    BY <1>2, RowsAdded
  <1>6. ASSUME NEW source \in {"verbatim", "summarizer", "fallback"}, at[s] \in {"report", "fallback"},
               Emit("sub", <<Row("report", source, "none", {})>>), UNCHANGED <<ledger, saved>>
        PROVE  TraceInv'
    <2> DEFINE r == Row("report", source, "none", {})
    <2>1. r \in RowType /\ r.type = "report"
      <3>1. {} \in SUBSET Nat
        OBVIOUS
      <3>. QED  BY <3>1, RowsAre
    <2>2. Emit(t, <<r>>)
      BY <1>6 DEF t
    <2> HIDE DEF r
    <2>3. rows'[t] = Append(rows[t], r) /\ \A u \in Session : u # t => rows'[u] = rows[u]
      BY <1>4, <1>5, <2>1, <2>2
    <2>4. HandsBack(s)
      BY <1>1, <1>3, <1>6, <2>3 DEF HandsBack, t
    <2>. QED  BY <1>6, <2>1, <2>3, <2>4, ReportSeen, HandbackTrace DEF t
  <1>7. CASE VerbatimReport(s)
    BY <1>6, <1>7 DEF VerbatimReport, GivenReport
  <1>8. CASE SummarizerReport(s)
    BY <1>6, <1>8 DEF SummarizerReport, GivenReport
  <1>9. CASE FallbackRow(s)
    BY <1>6, <1>9 DEF FallbackRow
  <1>10. CASE FallbackCall(s)
    <2> DEFINE calls == Append(ledger[t], "report")
               c == Row("llm_call", "report", "agent", {Len(calls)})
    <2>1. ledger' = [ledger EXCEPT ![t] = calls] /\ Emit(t, <<c>>) /\ UNCHANGED saved
      BY <1>10 DEF FallbackCall, t
    <2>2. Len(calls) = Len(ledger[t]) + 1 /\ Len(calls) \in Nat
      <3>1. "report" \in CallKind /\ ledger[t] \in Seq(CallKind)
        BY <1>2 DEF CallKind, Ledgers
      <3>. QED  BY <3>1, AppendProperties, LenProperties
    <2>3. c \in RowType /\ c.type = "llm_call" /\ c.kind = "report" /\ c.by = "agent" /\ c.links = {Len(calls)}
      <3>1. {Len(calls)} \in SUBSET Nat /\ "report" \in CallKind
        BY <2>2 DEF CallKind
      <3>. QED  BY <3>1, RowsAre
    <2> HIDE DEF c
    <2>4. rows'[t] = Append(rows[t], c) /\ \A u \in Session : u # t => rows'[u] = rows[u]
      BY <1>4, <1>5, <2>1, <2>3
    <2>5. ledger'[t] = calls /\ \A u \in Session : u # t => ledger'[u] = ledger[u]
      BY <1>2, <2>1 DEF TypeOK
    <2>6. HandsBack(s)
      BY <1>1, <1>3, <2>1, <2>4, <2>5 DEF HandsBack, t
    <2>. QED  BY <2>2, <2>3, <2>4, <2>5, <2>6, ReportCallSeen, HandbackTrace DEF t
  <1>11. CASE Resave(s)
    <2>1. UNCHANGED <<ledger, rows>> /\ saved' = [saved EXCEPT ![t] = Rollup(t, ledger[t])]
      BY <1>11 DEF Resave, t
    <2>2. saved'[t] = Rollup(t, ledger[t]) /\ \A u \in Session : u # t => saved'[u] = saved[u]
      BY <1>2, <2>1 DEF TypeOK
    <2>3. HandsBack(s) /\ AddsNoTree(t)
      BY <1>1, <1>3, <2>1, <2>2 DEF HandsBack, AddsNoTree, t
    <2>4. SeenIn(t, Graph(t), View(t)) /\ saved'[t].there
      BY <1>2, <2>2 DEF TraceInv, Seen, Rollup
    <2>5. Graph(t)' = Graph(t)
      BY <1>2, <2>1, GraphNext
    <2>6. View(t)' = View(t)
      <3>1. at'[t] = at[t] /\ ledger' = ledger /\ rows' = rows /\ (Embeds(t)' <=> Embeds(t))
        BY <1>2, <1>3, <2>1 DEF Embeds
      <3>. QED  BY <1>1, <1>2, <2>4, <3>1 DEF View
    <2>7. SeenIn(t, Graph(t)', View(t)')
      BY <2>4, <2>5, <2>6
    <2>. QED  BY <2>3, <2>7, HandbackTrace DEF t
  <1>. QED  BY <1>7, <1>8, <1>9, <1>10, <1>11

-----------------------------------------------------------------------------
(* Before the run there is nothing to be seen.                             *)
LEMMA InitTrace ==
  ASSUME Init
  PROVE  TraceInv
  <1>1. IInv /\ TypeOK
    BY InitInv DEF IInv
  <1>2. Stacked
    <2>1. Len(stack) = 1
      BY DEF Init
    <2>2. 1 .. (Len(stack) - 1) = {}
      BY <2>1
    <2>. QED  BY <2>2 DEF Stacked
  <1>3. \A s \in Session : \A r \in Range(rows[s]) : ~Delegates(r)
    <2>1. ASSUME NEW s \in Session, NEW r \in Range(rows[s]) PROVE ~Delegates(r)
      <3>1. rows[s] = <<>> \/ rows[s] = Started
        BY DEF Init
      <3>2. PICK i \in DOMAIN rows[s] : r = rows[s][i]
        BY <2>1 DEF Range
      <3>3. rows[s] = Started
        BY <3>1, <3>2
      <3>4. i \in DOMAIN Started /\ r = Started[i]
        BY <3>2, <3>3
      <3>. QED  BY <3>4 DEF Started, Row, Delegates
    <2>. QED  BY <2>1
  <1>4. Handing
    BY <1>3 DEF Handing, Delegating, Embeds, Init
  <1>5. \A s \in Session : Settled(s)
    <2>1. Len(<<>>) = 0
      OBVIOUS
    <2>2. ASSUME NEW s \in Session PROVE Settled(s)
      <3>1. /\ pending[s] = "none" /\ nested[s] = {} /\ ledger[s] = <<>> /\ kids[s] = <<>>
            /\ saved[s] = NotSaved /\ stop[s] = "max_steps" /\ at[s] \in {"unborn", "guard", "leaving"}
        BY DEF Init
      <3>2. Owed(s)
        BY <1>3, <2>1, <3>1 DEF Owed, NotSaved, Handback
      <3>. QED  BY <3>1, <3>2 DEF Settled, NotSaved, Handback
    <2>. QED  BY <2>2
  <1>6. ASSUME NEW s \in Session PROVE SeenIn(s, Graph(s), View(s))
    <2> DEFINE v == View(s)
    <2>1. ~Embeds(s)
      BY <1>3 DEF Embeds
    <2>2. /\ Viewed(v) /\ v.log = rows[s] /\ v.calls = <<>> /\ v.pend = "none" /\ v.at = at[s]
          /\ v.step = step[s] /\ v.kids = <<>> /\ v.taken = <<>>
      BY <1>1, <2>1, ViewsSee DEF Sees, Init
    <2>3. (rows[s] = <<>> \/ rows[s] = Started) /\ at[s] \in {"unborn", "guard", "leaving"} /\ step[s] = Base(s)
      BY DEF Init, FirstStep, Base
    <2>4. Graph(s) = NoGraph(s)
      BY <2>3, ReadNone, StartedReads DEF Graph
    <2> HIDE DEF v
    <2>5. SeenIn(s, NoGraph(s), v)
      BY <2>2, <2>3, SeenBorn
    <2>. QED  BY <2>4, <2>5 DEF v
  <1>. QED  BY <1>1, <1>2, <1>4, <1>5, <1>6 DEF TraceInv, Seen

(* Every step, action by action.                                           *)
LEMMA StepTrace ==
  ASSUME TraceInv, [Next]_vars
  PROVE  TraceInv'
  <1>1. IInv /\ IInv' /\ Stacked /\ Handing /\ Seen /\ \A t \in Session : Settled(t)
    BY StepInv DEF TraceInv
  <1>2. CASE UNCHANGED vars
    <2>1. \A t \in Session : Still(t)
      BY <1>2 DEF vars, Still
    <2>2. Stacked'
      BY <1>1, <1>2 DEF vars, Stacked
    <2>3. ASSUME NEW t \in Session PROVE Settled(t)' /\ SeenIn(t, Graph(t), View(t))'
      <3>1. Settled(t)'
        BY <1>1, <2>1, StillSettled
      <3>2. rows'["sub"] = rows["sub"] /\ ledger'["sub"] = ledger["sub"]
        BY <1>2 DEF vars
      <3>3. SeenIn(t, Graph(t), View(t))'
        BY <1>1, <2>1, <3>2, StillSeen DEF Seen
      <3>. QED  BY <3>1, <3>3
    <2>4. Handing'
      BY <1>1, <1>2 DEF vars, Handing, Delegating, Embeds
    <2>. QED  BY <1>1, <2>2, <2>3, <2>4 DEF TraceInv, Seen
  <1>3. CASE Next
    <2>1. PICK s \in Session : s = Running /\ stack # <<>> /\ Advance(s)
      BY <1>1, <1>3, RunningIs DEF Next
    <2>2. CASE GuardStops(s)
      <3>1. CASE s # "sub"
        BY <1>1, <2>1, <2>2, <3>1, LeavingTrace
      <3>2. CASE s = "sub"
        BY <1>1, <2>1, <2>2, <3>2, SummaryActions
      <3>. QED  BY <3>1, <3>2
    <2>3. CASE GuardResets(s) \/ CutoffReport(s)
      BY <1>1, <2>1, <2>3, SummaryActions
    <2>4. CASE HandoffAgain(s) \/ CallLLM(s) \/ AskArtifact(s)
      BY <1>1, <2>1, <2>4, CallActions
    <2>5. CASE SpawnContinuation(s)
      BY <1>1, <2>1, <2>5, SpawnTrace
    <2>6. CASE BeginTool(s, "delegate")
      BY <1>1, <2>1, <2>6, DelegateTrace
    <2>7. CASE LLMFails(s) \/ Interrupt(s) \/ RaiseError(s) \/ FallbackFails(s)
      BY <1>1, <2>1, <2>7, LeavingTrace
    <2>8. CASE EndTool(s)
      <3>1. CASE Delegating(s)
        BY <1>1, <2>1, <2>8, <3>1, EndDelegateTrace
      <3>2. CASE ~Delegating(s)
        BY <1>1, <2>1, <2>8, <3>2, EndToolTrace
      <3>. QED  BY <3>1, <3>2
    <2>9. CASE Finalize(s)
      BY <1>1, <2>1, <2>9, FinalizeTrace
    <2>10. CASE Finish(s) \/ FinishRaising(s) \/ CutFinally(s)
      BY <1>1, <2>1, <2>10, PopTrace
    <2>11. CASE VerbatimReport(s) \/ SummarizerReport(s) \/ FallbackCall(s) \/ FallbackRow(s) \/ Resave(s)
      BY <1>1, <2>1, <2>11, ReportActions
    <2>12. CASE BeginTool(s, "query") \/ HandUp(s) \/ HandbackErrors(s)
      BY <1>1, <2>1, <2>12, ToolTrace
    <2>. QED  BY <2>1, <2>2, <2>3, <2>4, <2>5, <2>6, <2>7, <2>8, <2>9, <2>10, <2>11, <2>12 DEF Advance
  <1>. QED  BY <1>2, <1>3

(* The invariant of a run and of what the viewer reads of it: a session's  *)
(* log, ledger, place and stack (IInv, Stacked, Settled), the delegation   *)
(* under way (Handing), and the graph that load_session would have drawn   *)
(* had it read the log at that moment (Seen).  Every node and recorder     *)
(* call of the run preserves it, each single step of a delegate's hand-back*)
(* included, and so do Ctrl-C and an exception anywhere, a cut finally     *)
(* block too.                                                              *)
THEOREM TraceInductive == Spec => []TraceInv
  <1>1. Init => TraceInv
    BY InitTrace
  <1>2. TraceInv /\ [Next]_vars => TraceInv'
    BY StepTrace
  <1>. QED  BY <1>1, <1>2, PTL DEF Spec

-----------------------------------------------------------------------------
(* What the viewer draws of a session.                                     *)
LEMMA TraceIs ==
  ASSUME TraceInv, NEW s \in Session
  PROVE  LET g == Graph(s)
             t == Trace(s)
             v == View(s)
         IN /\ TypeOK /\ Sees(v, s) /\ SeenIn(s, g, v) /\ Settled(s)
            /\ Shaped(s, t) /\ t.step = g.step
            /\ \A kind \in CallKind : CallsIn(t.nodes, kind) = CallsIn(g.nodes, kind)
            /\ \A x \in DOMAIN t.nodes :
                  x[3] = "llm_call" => x \in DOMAIN g.nodes /\ t.nodes[x] = Nest(g).nodes[x]
  <1> DEFINE g == Graph(s)
             t == Trace(s)
             v == View(s)
  <1>1. TypeOK /\ Settled(s) /\ SeenIn(s, g, v) /\ Sees(v, s)
    BY ViewsSee DEF TraceInv, IInv, Seen
  <1>2. Drawing(s, g, t)
    BY <1>1, TraceDrawing DEF TypeOK, Graph, Trace
  <1> HIDE DEF g, t, v
  <1>3. Shaped(s, g) /\ Known(s, g, v.log) /\ Summed(s, g, v.log)
    BY <1>1 DEF SeenIn
  <1>4. /\ Shaped(s, t) /\ t.step = g.step
        /\ \A kind \in CallKind : CallsIn(t.nodes, kind) = CallsIn(g.nodes, kind)
        /\ \A x \in DOMAIN t.nodes :
              x[3] = "llm_call" => x \in DOMAIN g.nodes /\ t.nodes[x] = Nest(g).nodes[x]
    BY <1>2, <1>3, DrawingIs
  <1>. QED  BY <1>1, <1>4 DEF g, t, v

(* reader.py's load_session draws a tree of any log a run can leave, fresh *)
(* or resumed and wherever it was cut: every node has a name of its own    *)
(* and a parent above it in the graph; it numbers the steps that           *)
(* session_end counts, from the step a resumed run went on from, and but   *)
(* for one whose call failed, was interrupted or raised; and every call    *)
(* hangs under the tool, the summarizer or the session that made it, but   *)
(* for a tool that was cut off and a summary that nothing in the log       *)
(* triggered.                                                              *)
THEOREM TreeHolds == Spec => []TreeIsTrue
  <1>1. ASSUME TraceInv PROVE TreeIsTrue
    <2>1. TypeOK
      BY <1>1 DEF TraceInv, IInv
    <2>2. ASSUME NEW s \in Session
          PROVE  LET t == Trace(s) IN
                 /\ IsTree(t) /\ StepsAgree(s, t.step)
                 /\ \A x \in DOMAIN t.nodes :
                       x[1] = s /\ x[3] = "llm_call" => HangsWhereMade(s, x, t.nodes[x])
      <3> DEFINE g == Graph(s)
                 t == Trace(s)
                 v == View(s)
      <3>1. /\ Sees(v, s) /\ SeenIn(s, g, v) /\ Shaped(s, t) /\ t.step = g.step
            /\ \A x \in DOMAIN t.nodes :
                  x[3] = "llm_call" => x \in DOMAIN g.nodes /\ t.nodes[x] = Nest(g).nodes[x]
        BY <1>1, TraceIs
      <3> HIDE DEF g, t, v
      <3>2. /\ v.log = rows[s] /\ v.pend = pending[s] /\ v.stop = stop[s] /\ v.at = at[s]
            /\ Shaped(s, g) /\ Known(s, g, v.log) /\ Summed(s, g, v.log)
            /\ Hung(s, g, Len(v.calls), v.pend, v.nest) /\ Told(v) /\ Stepped(s, g, v)
        BY <3>1 DEF Sees, SeenIn
      <3>3. IsTree(t)
        BY <3>1 DEF Shaped
      <3>4. StepsAgree(s, t.step)
        <4>1. ASSUME NEW i \in EndRows(rows[s])
              PROVE  /\ v.step \in rows[s][i].links
                     /\ \/ v.step = Base(s) + t.step
                        \/ /\ v.step = Base(s) + t.step + 1
                           /\ stop[s] \in {"llm_failure", "aborted"} \/ at[s] = "died"
          <5>1. rows[s][i] \in Range(v.log) /\ rows[s][i].type = "session_end"
            BY <3>2, <4>1 DEF EndRows, Range
          <5>2. rows[s][i].links = {v.step} /\ v.at \in {"done", "died"}
            BY <3>2, <5>1 DEF Told
          <5>. QED  BY <3>1, <3>2, <5>2 DEF Stepped
        <4>. QED  BY <4>1 DEF StepsAgree
      <3>5. ASSUME NEW x \in DOMAIN t.nodes, x[1] = s, x[3] = "llm_call"
            PROVE  HangsWhereMade(s, x, t.nodes[x])
        <4>1. x \in DOMAIN g.nodes /\ t.nodes[x] = Nest(g).nodes[x]
          BY <3>1, <3>5
        <4>2. HangsIn(s, x, t.nodes[x], rows[s], pending[s])
          BY <3>2, <3>5, <4>1, CallsHang
        <4>3. Triggered(s) <=> Triggers(rows[s])
          BY DEF Triggered, Triggers, Range
        <4> DEFINE n == t.nodes[x]
        <4> HIDE DEF n
        <4>4. HangsIn(s, x, n, rows[s], pending[s])
          BY <4>2 DEF n
        <4>5. HangsWhereMade(s, x, n)
          BY <4>3, <4>4 DEF HangsIn, HangsWhereMade
        <4>. QED  BY <4>5 DEF n
      <3>. QED  BY <3>3, <3>4, <3>5 DEF t
    <2>. QED  BY <2>1, <2>2 DEF TreeIsTrue
  <1>. QED  BY <1>1, TraceInductive, PTL

-----------------------------------------------------------------------------
(* A rollup that took over at most one subagent's ledger.                  *)
LEMMA RolledUpIs ==
  ASSUME TypeOK, NEW s \in Session, NEW kind \in CallKind, NEW c \in Ledgers,
         \/ saved[s].kids = <<>> /\ c = <<>>
         \/ DOMAIN saved[s].kids = {1} /\ saved[s].kids[1] = c
  PROVE  RolledUp(s, kind) = CountOf(saved[s].calls, kind) + CountOf(c, kind)
  <1> DEFINE k == saved[s].kids
             all == UNION {{<<n, i>> : i \in {i \in DOMAIN k[n] : k[n][i] = kind}} : n \in DOMAIN k}
             one == {i \in DOMAIN c : c[i] = kind}
             f == [i \in one |-> <<1, i>>]
  <1>1. RolledUp(s, kind) = CountOf(saved[s].calls, kind) + Cardinality(all)
    BY DEF RolledUp
  <1>2. CountOf(c, kind) = Cardinality(one)
    BY DEF CountOf
  <1>3. CASE k = <<>> /\ c = <<>>
    <2>1. DOMAIN k = {}
      BY <1>3
    <2>2. all = {} /\ one = {}
      BY <1>3, <2>1
    <2>. QED  BY <1>1, <1>2, <2>2
  <1>4. CASE DOMAIN k = {1} /\ k[1] = c
    <2>1. all = {<<1, i>> : i \in one}
      BY <1>4
    <2>2. IsFiniteSet(one)
      <3>1. DOMAIN c = 1 .. Len(c) /\ Len(c) \in Nat
        BY LenProperties DEF Ledgers
      <3>2. IsFiniteSet(1 .. Len(c))
        BY <3>1, FS_Interval
      <3>. QED  BY <3>1, <3>2, FS_Subset
    <2> HIDE DEF one, all
    <2>3. /\ f \in [one -> all] /\ \A i \in one, j \in one : f[i] = f[j] => i = j
          /\ \A x \in all : \E i \in one : f[i] = x
      BY <2>1
    <2>4. f \in Bijection(one, all)
      BY <2>3, Zenon DEF Bijection, Injection, Surjection, IsInjective
    <2>5. ExistsBijection(one, all)
      BY <2>4, Zenon DEF ExistsBijection
    <2>6. Cardinality(all) = Cardinality(one)
      BY <2>2, <2>5, FS_Bijection
    <2>. QED  BY <1>1, <1>2, <2>6
  <1>. QED  BY <1>3, <1>4

(* What a saved session took over is what its tree embeds, and that is its *)
(* subagent's ledger, unless a hand-back was cut.                          *)
LEMMA KidsAre ==
  ASSUME TraceInv, NEW s \in Session, saved[s].there, HandedOver(s)
  PROVE  LET c == IF Embeds(s) THEN ledger["sub"] ELSE <<>> IN
         /\ c \in Ledgers /\ (Embeds(s) <=> saved[s].kids # <<>>)
         /\ \/ saved[s].kids = <<>> /\ c = <<>>
            \/ DOMAIN saved[s].kids = {1} /\ saved[s].kids[1] = c
  <1>1. IInv /\ TypeOK /\ Owed(s) /\ "sub" \in Session
    BY DEF TraceInv, IInv, Session, Settled
  <1>2. /\ saved[s].kids = kids[s] /\ Len(kids[s]) <= 1
        /\ kids[s] \in Seq(Ledgers) /\ ledger["sub"] \in Ledgers /\ <<>> \in Ledgers
    BY <1>1, EmptySeq DEF Owed, TypeOK, Ledgers
  <1>3. Embeds(s) <=> kids[s] # <<>>
    <2>1. ASSUME Embeds(s) PROVE kids[s] # <<>>
      <3>1. PICK i \in DOMAIN rows[s] : Delegates(rows[s][i])
        BY <2>1 DEF Embeds, Range
      <3>2. rows[s][i].kind = "delegate" /\ rows[s][i] \in Range(rows[s])
        BY <3>1 DEF Delegates, HandedOver, Range
      <3>. QED  BY <1>1, <3>1, <3>2 DEF Owed
    <2>. QED  BY <1>1, <2>1 DEF Owed, HandedOver
  <1>4. CASE kids[s] = <<>>
    BY <1>2, <1>3, <1>4
  <1>5. CASE kids[s] # <<>>
    <2>1. Len(kids[s]) = 1 /\ DOMAIN kids[s] = {1}
      <3> DEFINE n == Len(kids[s])
      <3>1. n # 0 /\ n \in Nat /\ DOMAIN kids[s] = 1 .. n /\ n <= 1
        BY <1>2, <1>5, EmptySeq, LenProperties
      <3> HIDE DEF n
      <3>2. n = 1
        BY <3>1
      <3>3. 1 .. 1 = {1}
        OBVIOUS
      <3>. QED  BY <3>1, <3>2, <3>3 DEF n
    <2>2. saved["sub"].there /\ saved["sub"].calls = ledger["sub"]
      BY <1>1, <1>5 DEF IInv, Reported, Unsaved
    <2>3. \A n \in DOMAIN kids[s] : kids[s][n] = saved["sub"].calls
      BY <1>1 DEF IInv, Reported
    <2>4. kids[s][1] = ledger["sub"]
      BY <2>1, <2>2, <2>3
    <2>. QED  BY <1>2, <1>3, <1>5, <2>1, <2>4
  <1>. QED  BY <1>4, <1>5

(* The usage that agent.py's _usage_summary saves of a session and of the  *)
(* subagent it rolls up is, per kind of call, what reader.py's             *)
(* _compute_analytics sums over the tree of that session, whatever cut the *)
(* run short, for every session saved with all its calls in which no       *)
(* hand-back of a subagent's report was cut or failed and in which, as in  *)
(* its subagent, no call came before the first step: two computations over *)
(* different data, the ledgers and the event rows.                         *)
THEOREM AccountsAgree == Spec => []UsageAgrees
  <1>1. ASSUME TraceInv PROVE UsageAgrees
    <2>1. ASSUME NEW s \in Session, saved[s].there, saved[s].calls = ledger[s], HandedOver(s),
                 Grouped(rows[s]), saved[s].kids # <<>> => Grouped(rows["sub"]), NEW kind \in CallKind
          PROVE  CallsIn(Trace(s).nodes, kind) = RolledUp(s, kind)
      <3> DEFINE g == Graph(s)
                 t == Trace(s)
                 v == View(s)
                 c == IF Embeds(s) THEN ledger["sub"] ELSE <<>>
      <3>1. /\ c \in Ledgers /\ (Embeds(s) <=> saved[s].kids # <<>>)
            /\ \/ saved[s].kids = <<>> /\ c = <<>>
               \/ DOMAIN saved[s].kids = {1} /\ saved[s].kids[1] = c
        BY <1>1, <2>1, KidsAre
      <3>2. /\ TypeOK /\ Sees(v, s) /\ SeenIn(s, g, v)
            /\ CallsIn(t.nodes, kind) = CallsIn(g.nodes, kind)
        BY <1>1, TraceIs
      <3>3. /\ v.log = rows[s] /\ v.calls = ledger[s] /\ v.taken = c
            /\ v.kids # <<>> => Embeds(s) /\ v.sublog = rows["sub"]
        BY <3>2 DEF Sees
      <3> HIDE DEF g, t, v, c
      <3>4. v.kids # <<>> => Grouped(v.sublog)
        BY <2>1, <3>1, <3>3
      <3>5. Paid(g, rows[s], ledger[s], c)
        BY <3>2, <3>3, <3>4 DEF SeenIn, Accounted
      <3>6. CallsIn(g.nodes, kind) = CountOf(ledger[s], kind) + CountOf(c, kind)
        BY <2>1, <3>5 DEF Paid
      <3>7. RolledUp(s, kind) = CountOf(saved[s].calls, kind) + CountOf(c, kind)
        BY <3>1, <3>2, RolledUpIs
      <3>. QED  BY <2>1, <3>2, <3>6, <3>7 DEF t
    <2>. QED  BY <2>1 DEF UsageAgrees
  <1>. QED  BY <1>1, TraceInductive, PTL
=============================================================================
