----------------------- MODULE AgentSessions_proofs -----------------------
(***************************************************************************)
(* Proofs about AgentSessions, for every set of runs, every step budget    *)
(* and every bound on the number of context resets.                        *)
(***************************************************************************)
EXTENDS AgentSessions, TLAPS, WellFoundedInduction

(* Sessions are pairs, and a session below the bound has a continuation.   *)
LEMMA SessionFacts ==
  /\ \A r \in Run : Main(r) \in Session
  /\ \A s \in Session : s[1] \in Run /\ s[2] \in 0 .. MaxDepth
  /\ \A s \in Session : s[2] < MaxDepth => Continuation(s) \in Session
<1>1. \A r \in Run : Main(r) \in Session
  BY ConstantsAssumption, SMT DEF Session, Main
<1>2. \A s \in Session : s[1] \in Run /\ s[2] \in 0 .. MaxDepth
  BY SMT DEF Session
<1>3. \A s \in Session : s[2] < MaxDepth => Continuation(s) \in Session
  BY ConstantsAssumption, SMT DEF Session, Continuation
<1> QED BY <1>1, <1>2, <1>3

(* The values the actions give to a session's fields. *)
LEMMA FieldValues ==
  /\ "guard" \in Place /\ "handoff" \in Place /\ "spawning" \in Place
  /\ "waiting" \in Place /\ "llm" \in Place /\ "tools" \in Place /\ "save" \in Place
  /\ "replace" \in Place /\ "finally" \in Place /\ "sweep" \in Place
  /\ "ended" \in Place /\ "killed" \in Place
  /\ "stop" \in StopReason /\ "max_steps" \in StopReason
  /\ "context_limit" \in StopReason /\ "context_reset" \in StopReason
  /\ "aborted" \in StopReason /\ "llm_failure" \in StopReason
  /\ "error" \in Exception /\ "interrupt" \in Exception
BY SMT DEF Place, Running, InTry, OutsideTry, StopReason, Exception

(* A freshly built session is a well-formed one. *)
LEMMA BuiltType ==
  ASSUME NEW budget \in Nat, NEW step \in Nat, NEW level \in Level,
         NEW conv \in SUBSET Step, NEW source \in Session \cup {NoSession}
  PROVE  Built(budget, step, level, conv, source) \in AgentRecord
BY SMT DEF Built, AgentRecord, Place, Running, InTry, OutsideTry, StopReason, Exception

LEMMA InitType == Init => TypeOK
<1>1. Built(0, 0, "low", {}, NoSession) \in AgentRecord
  BY BuiltType, SMT DEF Level
<1>2. NotCreated \in AgentRecord /\ NotCreated.pc = "off"
  BY <1>1, SMT DEF NotCreated, AgentRecord, Place
<1> QED
  BY <1>2, SMT DEF Init, TypeOK, Absent, CheckpointRecord, Level

(* What concerns the sessions and the disk each on their own. *)
Base == SessionsInv /\ DiskInv

LEMMA InitBase == Init => Base
<1>1. ASSUME Init PROVE SessionsInv
  <2>1. Built(0, 0, "low", {}, NoSession) \in AgentRecord
    BY BuiltType, SMT DEF Level
  <2>2. NotCreated \in AgentRecord /\ NotCreated.pc = "off" /\ NotCreated.step = 0
    <3>1. Built(0, 0, "low", {}, NoSession).step = 0
      BY DEF Built
    <3> QED BY <2>1, <3>1, SMT DEF NotCreated, AgentRecord, Place
  <2>3. node \in [Session -> AgentRecord] /\ \A s \in Session : node[s] = NotCreated
    BY <1>1, <2>2 DEF Init
  <2>4. \A s \in Session : s[2] < MaxDepth => node[Continuation(s)].pc = "off"
    BY <2>2, <2>3, SessionFacts
  <2>5. ChainWithinBudget
    BY <2>2, <2>3, <2>4, SMT DEF ChainWithinBudget, AgentRecord
  <2> QED BY <2>2, <2>3, <2>4, <2>5 DEF SessionsInv
<1>2. ASSUME Init PROVE DiskInv
  BY <1>2, SMT DEF Init, DiskInv, ContinuationIsNewer, OnDisk, Absent,
                   CheckpointRecord, Level
<1> QED BY <1>1, <1>2 DEF Base

-----------------------------------------------------------------------------
(* What every action of a single session does to its record: it goes to a   *)
(* place it may go to, and counts at most the step it asks the LLM for.      *)
GoesTo(s, rec) ==
  /\ rec \in AgentRecord
  /\ node[s].pc # "off" /\ rec.pc # "off"
  /\ rec.budget = node[s].budget
  /\ rec.source = node[s].source
  /\ \/ rec.step = node[s].step
     \/ rec.step = node[s].step + 1 /\ node[s].pc = "llm"
  /\ rec.pc # "waiting"
  /\ rec.pc \in {"guard", "handoff", "spawning", "llm"} => rec.step < rec.budget
  /\ node[s].pc \in HandedOver => rec.pc \in HandedOver

LEMMA NodeStep ==
  ASSUME SessionsInv, NEW s \in Session, NEW rec, GoesTo(s, rec),
         node' = [node EXCEPT ![s] = rec]
  PROVE  SessionsInv' /\ \A t \in Session : node[t].pc # "off" => node'[t].pc # "off"
<1> USE DEF GoesTo
<1>1. node' \in [Session -> AgentRecord]
  BY DEF SessionsInv
<1>2. \A t \in Session : node'[t] = IF t = s THEN rec ELSE node[t]
  BY DEF SessionsInv
<1>3. \A t \in Session : t[2] < MaxDepth => Continuation(t) \in Session
  BY SessionFacts
<1>4. \A t \in Session :
        /\ node'[t].pc = "off" <=> node[t].pc = "off"
        /\ node'[t].budget = node[t].budget
        /\ node'[t].source = node[t].source
  BY <1>2
<1>5. ASSUME NEW t \in Session
      PROVE  /\ node'[t].pc # "off" => node'[t].budget >= 1
             /\ node'[t].pc = "waiting" => t[2] < MaxDepth
             /\ node'[t].pc \in {"guard", "handoff", "spawning", "llm"}
                  => node'[t].step < node'[t].budget
             /\ t[2] < MaxDepth /\ node'[Continuation(t)].pc # "off"
                  => node'[t].pc \in HandedOver
  BY <1>2, <1>3, <1>4 DEF SessionsInv
<1>6. ChainWithinBudget'
  <2> SUFFICES ASSUME NEW t \in Session
               PROVE  /\ node'[t].source = NoSession => node'[t].step <= node'[t].budget
                      /\ /\ t[2] < MaxDepth
                         /\ node'[Continuation(t)].pc # "off"
                         => node'[t].step + node'[Continuation(t)].budget <= node'[t].budget
    BY DEF ChainWithinBudget
  <2>1. CASE rec.step = node[s].step
    BY <2>1, <1>2, <1>3, <1>4 DEF SessionsInv, ChainWithinBudget
  <2>2. CASE rec.step = node[s].step + 1 /\ node[s].pc = "llm"
    <3>1. node[s].step + 1 <= node[s].budget
      BY <2>2, SMT DEF SessionsInv, AgentRecord
    <3>2. s[2] < MaxDepth => node[Continuation(s)].pc = "off"
      BY <2>2 DEF SessionsInv, HandedOver
    <3> QED BY <2>2, <3>1, <3>2, <1>2, <1>3, <1>4 DEF SessionsInv, ChainWithinBudget
  <2> QED BY <2>1, <2>2
<1> QED BY <1>1, <1>4, <1>5, <1>6 DEF SessionsInv

(* A new session of the command line keeps SessionsInv. *)
LEMMA MainBuilt ==
  ASSUME SessionsInv, NEW r \in Run, node[Main(r)].pc = "off",
         NEW budget \in Budget, NEW step \in Nat, NEW level \in Level,
         NEW conv \in SUBSET Step, NEW source \in Session \cup {NoSession},
         source = NoSession => step = 0,
         node' = [node EXCEPT ![Main(r)] = Built(budget, step, level, conv, source)]
  PROVE  SessionsInv' /\ \A t \in Session : node[t].pc # "off" => node'[t].pc # "off"
<1> DEFINE rec == Built(budget, step, level, conv, source)
<1>1. budget \in Nat /\ budget >= 1
  BY ConstantsAssumption, SMT
<1>2. /\ rec \in AgentRecord
      /\ rec.pc = "opening" /\ rec.budget = budget /\ rec.step = step
      /\ rec.source = source
  BY <1>1, BuiltType DEF Built
<1>3. \A t \in Session : node'[t] = IF t = Main(r) THEN rec ELSE node[t]
  BY DEF SessionsInv
<1>4. \A t \in Session : Continuation(t) # Main(r)
  BY ConstantsAssumption, SMT DEF Session, Continuation, Main
<1>5. \A t \in Session : t[2] < MaxDepth =>
        /\ Continuation(t) \in Session
        /\ node'[Continuation(t)] = node[Continuation(t)]
  BY <1>3, <1>4, SessionFacts
<1>6. Main(r)[2] < MaxDepth => node[Continuation(Main(r))].pc = "off"
  BY SessionFacts DEF SessionsInv, HandedOver
<1>7. node' \in [Session -> AgentRecord]
  BY <1>2 DEF SessionsInv
<1>8. ASSUME NEW t \in Session
      PROVE  /\ node'[t].pc # "off" => node'[t].budget >= 1
             /\ node'[t].pc = "waiting" => t[2] < MaxDepth
             /\ node'[t].pc \in {"guard", "handoff", "spawning", "llm"}
                  => node'[t].step < node'[t].budget
             /\ t[2] < MaxDepth /\ node'[Continuation(t)].pc # "off"
                  => node'[t].pc \in HandedOver
  BY <1>1, <1>2, <1>3, <1>5, <1>6 DEF SessionsInv
<1>9. ChainWithinBudget'
  BY <1>1, <1>2, <1>3, <1>5, <1>6 DEF SessionsInv, ChainWithinBudget
<1> QED BY <1>2, <1>3, <1>7, <1>8, <1>9 DEF SessionsInv

(* So does a continuation, which gets what its parent has left. *)
LEMMA ContinuationBuilt ==
  ASSUME SessionsInv, NEW s \in Session, SpawnContinuation(s)
  PROVE  SessionsInv' /\ \A t \in Session : node[t].pc # "off" => node'[t].pc # "off"
<1> DEFINE c == Continuation(s)
           budget == RemainingBudget(s)
<1>1. c \in Session /\ c # s
  BY SessionFacts, SMT DEF SpawnContinuation, Continuation, Session
<1>2. node[s] \in AgentRecord /\ node[s].step < node[s].budget
  BY DEF SessionsInv, SpawnContinuation
<1>3. budget = node[s].budget - node[s].step /\ budget \in Nat /\ budget >= 1
  BY <1>2, SMT DEF RemainingBudget, AgentRecord
<1>4. PICK level \in Opening :
        node' = [node EXCEPT ![s].pc = "waiting",
                             ![c] = Built(budget, 0, level, node[s].conv, NoSession)]
  BY DEF SpawnContinuation
<1> DEFINE new == Built(budget, 0, level, node[s].conv, NoSession)
           old == [node[s] EXCEPT !.pc = "waiting"]
<1>5. /\ new \in AgentRecord
      /\ new.pc = "opening" /\ new.budget = budget /\ new.step = 0
  <2>1. level \in Level /\ node[s].conv \in SUBSET Step
    BY <1>2, ConstantsAssumption, SMT DEF AgentRecord
  <2> QED BY <2>1, <1>3, BuiltType DEF Built
<1>6. /\ old \in AgentRecord
      /\ old.pc = "waiting" /\ old.budget = node[s].budget /\ old.step = node[s].step
      /\ old.source = node[s].source
  BY <1>2, SMT DEF AgentRecord, Place
<1>7. node' = [[node EXCEPT ![s] = old] EXCEPT ![c] = new]
  BY <1>4
<1>8. \A t \in Session :
        node'[t] = IF t = c THEN new ELSE IF t = s THEN old ELSE node[t]
  BY <1>1, <1>7 DEF SessionsInv
<1>9. node' \in [Session -> AgentRecord]
  BY <1>5, <1>6, <1>7 DEF SessionsInv
<1>10. /\ node[c].pc = "off"
       /\ c[2] < MaxDepth => Continuation(c) \in Session /\ node[Continuation(c)].pc = "off"
  BY <1>1, SessionFacts DEF SessionsInv, HandedOver, SpawnContinuation
<1>11. \A t \in Session : t[2] < MaxDepth =>
         /\ Continuation(t) \in Session
         /\ Continuation(t) = c => t = s
         /\ Continuation(t) # t
         /\ Continuation(Continuation(t)) # t
  BY SessionFacts, SMT DEF Continuation, Session
<1>12. ASSUME NEW t \in Session
       PROVE  /\ node'[t].pc # "off" => node'[t].budget >= 1
              /\ node'[t].pc = "waiting" => t[2] < MaxDepth
              /\ node'[t].pc \in {"guard", "handoff", "spawning", "llm"}
                   => node'[t].step < node'[t].budget
              /\ t[2] < MaxDepth /\ node'[Continuation(t)].pc # "off"
                   => node'[t].pc \in HandedOver
  <2>1. CASE t = c
    <3>1. c[2] < MaxDepth => node'[Continuation(c)].pc = "off"
      BY <1>1, <1>8, <1>10, <1>11 DEF SpawnContinuation
    <3> QED BY <2>1, <3>1, <1>1, <1>3, <1>5, <1>8
  <2>2. CASE t = s
    BY <2>2, <1>1, <1>2, <1>6, <1>8 DEF SessionsInv, HandedOver, SpawnContinuation
  <2>3. CASE t # c /\ t # s
    BY <2>3, <1>6, <1>8, <1>11 DEF SessionsInv, SpawnContinuation
  <2> QED BY <2>1, <2>2, <2>3
<1>13. ChainWithinBudget'
  <2> SUFFICES ASSUME NEW t \in Session
               PROVE  /\ node'[t].source = NoSession => node'[t].step <= node'[t].budget
                      /\ /\ t[2] < MaxDepth
                         /\ node'[Continuation(t)].pc # "off"
                         => node'[t].step + node'[Continuation(t)].budget <= node'[t].budget
    BY DEF ChainWithinBudget
  <2>1. CASE t = c
    <3>1. c[2] < MaxDepth => node'[Continuation(c)].pc = "off"
      BY <1>1, <1>8, <1>10, <1>11 DEF SpawnContinuation
    <3> QED BY <2>1, <3>1, <1>1, <1>3, <1>5, <1>8
  <2>2. CASE t = s
    <3>1. node'[s] = old /\ node'[c] = new
      BY <1>1, <1>8
    <3>2. old.step + new.budget <= old.budget
      BY <1>2, <1>3, <1>5, <1>6, SMT DEF AgentRecord
    <3>3. old.source = NoSession => old.step <= old.budget
      BY <1>6 DEF SessionsInv, ChainWithinBudget
    <3> QED BY <2>2, <3>1, <3>2, <3>3
  <2>3. CASE t # c /\ t # s
    <3>1. node'[t] = node[t]
      BY <2>3, <1>8
    <3>2. t[2] < MaxDepth =>
            /\ node'[Continuation(t)].pc # "off" => node[Continuation(t)].pc # "off"
            /\ node'[Continuation(t)].budget = node[Continuation(t)].budget
      BY <2>3, <1>6, <1>8, <1>11 DEF SpawnContinuation
    <3> QED BY <3>1, <3>2 DEF SessionsInv, ChainWithinBudget
  <2> QED BY <2>1, <2>2, <2>3
<1> QED BY <1>5, <1>6, <1>8, <1>9, <1>10, <1>12, <1>13 DEF SessionsInv

(* kill -9 leaves dead sessions where they stood. *)
LEMMA KillStep ==
  ASSUME SessionsInv, NEW r \in Run, Kill(r)
  PROVE  SessionsInv' /\ \A t \in Session : node[t].pc # "off" => node'[t].pc # "off"
<1>1. \A t \in Session :
        /\ node'[t] \in AgentRecord
        /\ \/ node'[t] = node[t]
           \/ node[t].pc # "off" /\ node'[t].pc = "killed"
        /\ node'[t].budget = node[t].budget
        /\ node'[t].step = node[t].step
        /\ node'[t].source = node[t].source
  <2> TAKE t \in Session
  <2>1. node'[t] = IF t[1] = r /\ Live(t) THEN [node[t] EXCEPT !.pc = "killed"] ELSE node[t]
    BY DEF Kill
  <2>2. node[t] \in AgentRecord
    BY DEF SessionsInv
  <2> QED BY <2>1, <2>2, SMT DEF Live, AgentRecord, Place
<1>2. node' \in [Session -> AgentRecord]
  BY <1>1, SMT DEF Kill
<1>3. \A t \in Session : t[2] < MaxDepth => Continuation(t) \in Session
  BY SessionFacts
<1>4. ASSUME NEW t \in Session
      PROVE  /\ node'[t].pc # "off" => node'[t].budget >= 1
             /\ node'[t].pc = "waiting" => t[2] < MaxDepth
             /\ node'[t].pc \in {"guard", "handoff", "spawning", "llm"}
                  => node'[t].step < node'[t].budget
             /\ t[2] < MaxDepth /\ node'[Continuation(t)].pc # "off"
                  => node'[t].pc \in HandedOver
  BY <1>1, <1>3 DEF SessionsInv, HandedOver
<1>5. ChainWithinBudget'
  BY <1>1, <1>3 DEF SessionsInv, ChainWithinBudget
<1> QED BY <1>1, <1>2, <1>4, <1>5 DEF SessionsInv

-----------------------------------------------------------------------------
(* Leaving the disk alone, or removing one checkpoint, keeps DiskInv. *)
LEMMA DiskStep ==
  ASSUME DiskInv,
         \A t \in Session : node[t].pc # "off" => node'[t].pc # "off",
         ckpt' \in [Session -> CheckpointRecord],
         \A t \in Session : ckpt'[t] = ckpt[t] \/ ckpt'[t] = Absent,
         UNCHANGED <<clock, durable>>
  PROVE  DiskInv'
<1>1. Absent.status = "absent" /\ Absent.mtime = 0
  BY DEF Absent
<1>2. \A t \in Session : OnDisk(t)' => OnDisk(t) /\ ckpt'[t] = ckpt[t]
  BY <1>1 DEF OnDisk
<1>3. \A t \in Session : ckpt'[t].mtime <= clock'
  BY <1>1, SMT DEF DiskInv
<1>4. ContinuationIsNewer'
  BY <1>2, SessionFacts DEF DiskInv, ContinuationIsNewer
<1> QED BY <1>2, <1>3, <1>4 DEF DiskInv

(* A checkpoint is written only by a session without a continuation, and is *)
(* the newest file when it is.                                               *)
LEMMA ReplaceStep ==
  ASSUME Base, NEW s \in Session, ReplaceCheckpoint(s),
         \A t \in Session : node[t].pc # "off" => node'[t].pc # "off"
  PROVE  DiskInv'
<1> DEFINE rec == [status |-> "intact", step |-> node[s].step, level |-> node[s].level,
                   conv |-> node[s].conv, mtime |-> clock + 1]
<1>1. node[s] \in AgentRecord /\ node[s].pc = "replace" /\ clock \in Nat
  BY DEF Base, SessionsInv, DiskInv, ReplaceCheckpoint
<1>2. rec \in CheckpointRecord
  BY <1>1, SMT DEF CheckpointRecord, AgentRecord
<1>3. ckpt' = [ckpt EXCEPT ![s] = rec] /\ clock' = clock + 1
  BY DEF ReplaceCheckpoint
<1>4. ckpt' \in [Session -> CheckpointRecord]
  BY <1>2, <1>3 DEF Base, DiskInv
<1>5. durable' \in SUBSET Step
  BY <1>1, SMT DEF Base, DiskInv, ReplaceCheckpoint, AgentRecord
<1>6. \A t \in Session : ckpt'[t] = IF t = s THEN rec ELSE ckpt[t]
  BY <1>3 DEF Base, DiskInv
<1>7. \A t \in Session : ckpt[t].mtime \in Nat /\ ckpt[t].mtime <= clock
  BY DEF Base, DiskInv, CheckpointRecord
<1>8. \A t \in Session : (OnDisk(t)' => node'[t].pc # "off") /\ ckpt'[t].mtime <= clock'
  BY <1>1, <1>3, <1>6, <1>7 DEF Base, DiskInv, OnDisk
<1>9. ContinuationIsNewer'
  <2> SUFFICES ASSUME NEW t \in Session, t[2] < MaxDepth,
                      OnDisk(t)', OnDisk(Continuation(t))'
               PROVE  ckpt'[t].mtime < ckpt'[Continuation(t)].mtime
    BY DEF ContinuationIsNewer
  <2>1. Continuation(t) \in Session
    BY SessionFacts
  <2>2. t # s
    BY <1>1, <1>6, <2>1 DEF Base, SessionsInv, DiskInv, OnDisk, HandedOver
  <2>3. CASE Continuation(t) = s
    BY <1>1, <1>6, <1>7, <2>2, <2>3
  <2>4. CASE Continuation(t) # s
    BY <1>6, <2>1, <2>2, <2>4 DEF Base, DiskInv, ContinuationIsNewer, OnDisk
  <2> QED BY <2>3, <2>4
<1> QED BY <1>1, <1>3, <1>4, <1>5, <1>8, <1>9 DEF DiskInv

-----------------------------------------------------------------------------
LEMMA LoopPlaces ==
  ASSUME NEW s, NEW signal
  PROVE  LoopPlace(s, signal) \in {"guard", "finally"} /\ LoopPlace(s, signal) \in Place
BY FieldValues DEF LoopPlace

LEMMA NextStep == \A n \in AgentRecord : n.step + 1 \in Nat
BY SMT DEF AgentRecord

LEMMA StepNamed == \A s \in Session, n \in Nat : <<s, n>> \in Step
BY DEF Step

(* Every action of a single session is such a move. *)
LEMMA ProgressMoves ==
  ASSUME SessionsInv, NEW s \in Session, Progress(s), ~SpawnContinuation(s)
  PROVE  \E rec : GoesTo(s, rec) /\ node' = [node EXCEPT ![s] = rec]
<1>1. node[s] \in AgentRecord
  BY DEF SessionsInv
<1>2. node[s].pc \in {"guard", "handoff", "spawning", "llm"} => node[s].step < node[s].budget
  BY DEF SessionsInv
<1>3. CASE Enter(s)
  <2> DEFINE rec == [node[s] EXCEPT !.pc = LoopPlace(s, "CONTINUE")]
  <2>1. node' = [node EXCEPT ![s] = rec]
    BY <1>3 DEF Enter
  <2>2. GoesTo(s, rec)
    <3>1. rec \in AgentRecord
      BY FieldValues, LoopPlaces, <1>1, Zenon DEF AgentRecord
    <3> QED
      BY <3>1, <1>1, <1>3, SMT DEF GoesTo, HandedOver, Enter, LoopPlace
  <2> QED BY <2>1, <2>2
<1>4. CASE GuardPasses(s)
  <2> DEFINE rec == [node[s] EXCEPT !.pc = "llm"]
  <2>1. node' = [node EXCEPT ![s] = rec]
    BY <1>4 DEF GuardPasses
  <2>2. GoesTo(s, rec)
    <3>1. rec \in AgentRecord
      BY FieldValues, <1>1, Zenon DEF AgentRecord
    <3> QED
      BY <3>1, <1>1, <1>2, <1>4, SMT DEF GoesTo, HandedOver, GuardPasses
  <2> QED BY <2>1, <2>2
<1>5. CASE GuardStops(s)
  <2> DEFINE rec == [node[s] EXCEPT !.pc = "save", !.signal = "STOP",
                                    !.stop = "context_limit"]
  <2>1. node' = [node EXCEPT ![s] = rec]
    BY <1>5 DEF GuardStops
  <2>2. GoesTo(s, rec)
    <3>1. rec \in AgentRecord
      BY FieldValues, <1>1, Zenon DEF AgentRecord
    <3> QED
      BY <3>1, <1>1, <1>5, SMT DEF GoesTo, HandedOver, GuardStops
  <2> QED BY <2>1, <2>2
<1>6. CASE GuardResets(s)
  <2> DEFINE rec == [node[s] EXCEPT !.pc = "handoff"]
  <2>1. node' = [node EXCEPT ![s] = rec]
    BY <1>6 DEF GuardResets
  <2>2. GoesTo(s, rec)
    <3>1. rec \in AgentRecord
      BY FieldValues, <1>1, Zenon DEF AgentRecord
    <3> QED
      BY <3>1, <1>1, <1>2, <1>6, SMT DEF GoesTo, HandedOver, GuardResets
  <2> QED BY <2>1, <2>2
<1>7. CASE HandoffFails(s)
  <2> DEFINE rec == [node[s] EXCEPT !.pc = "finally", !.stop = "llm_failure",
                                    !.failure = s]
  <2>1. node' = [node EXCEPT ![s] = rec]
    BY <1>7 DEF HandoffFails, LLMFailure
  <2>2. GoesTo(s, rec)
    <3>1. rec \in AgentRecord
      BY FieldValues, <1>1, Zenon DEF AgentRecord
    <3> QED
      BY <3>1, <1>1, <1>7, SMT DEF GoesTo, HandedOver, HandoffFails
  <2> QED BY <2>1, <2>2
<1>8. CASE SecureHandoff(s)
  <2> DEFINE rec == [node[s] EXCEPT !.pc = "spawning", !.didReset = TRUE,
                                    !.stop = "context_reset"]
  <2>1. node' = [node EXCEPT ![s] = rec]
    BY <1>8 DEF SecureHandoff
  <2>2. GoesTo(s, rec)
    <3>1. rec \in AgentRecord
      BY FieldValues, <1>1, Zenon DEF AgentRecord
    <3> QED
      BY <3>1, <1>1, <1>2, <1>8, SMT DEF GoesTo, HandedOver, SecureHandoff
  <2> QED BY <2>1, <2>2
<1>9. CASE CallLLM(s)
  <2> DEFINE rec == [node[s] EXCEPT !.pc = "tools", !.step = @ + 1]
  <2>1. node' = [node EXCEPT ![s] = rec]
    BY <1>9 DEF CallLLM
  <2>2. GoesTo(s, rec)
    <3>1. rec \in AgentRecord
      BY FieldValues, NextStep, <1>1, Zenon DEF AgentRecord
    <3> QED
      BY <3>1, <1>1, <1>9, SMT DEF GoesTo, HandedOver, CallLLM
  <2> QED BY <2>1, <2>2
<1>10. CASE LLMCallFails(s)
  <2> DEFINE rec == [node[s] EXCEPT !.pc = "finally", !.stop = "llm_failure",
                                    !.failure = s, !.step = @ + 1]
  <2>1. node' = [node EXCEPT ![s] = rec]
    BY <1>10 DEF LLMCallFails
  <2>2. GoesTo(s, rec)
    <3>1. rec \in AgentRecord
      BY FieldValues, NextStep, <1>1, Zenon DEF AgentRecord
    <3> QED
      BY <3>1, <1>1, <1>10, SMT DEF GoesTo, HandedOver, LLMCallFails
  <2> QED BY <2>1, <2>2
<1>11. CASE CompleteStep(s)
  <2>1. PICK level \in Level, clean \in BOOLEAN :
          LET ceiling == ~clean /\ node[s].step >= node[s].budget
          IN  node' = [node EXCEPT
                ![s].pc = "save", ![s].level = level,
                ![s].conv = @ \cup {<<s, node[s].step>>},
                ![s].signal = IF clean \/ ceiling THEN "STOP" ELSE "CONTINUE",
                ![s].stop = IF clean THEN "stop"
                            ELSE IF ceiling THEN "max_steps" ELSE @]
    BY <1>11 DEF CompleteStep
  <2> DEFINE ceiling == ~clean /\ node[s].step >= node[s].budget
             rec == [node[s] EXCEPT
                !.pc = "save", !.level = level,
                !.conv = @ \cup {<<s, node[s].step>>},
                !.signal = IF clean \/ ceiling THEN "STOP" ELSE "CONTINUE",
                !.stop = IF clean THEN "stop"
                         ELSE IF ceiling THEN "max_steps" ELSE @]
  <2>2. node' = [node EXCEPT ![s] = rec]
    BY <2>1
  <2>3. level \in Level /\ <<s, node[s].step>> \in Step
    BY <1>1, StepNamed, SMT DEF AgentRecord
  <2>4. GoesTo(s, rec)
    <3>1. rec \in AgentRecord
      BY FieldValues, <1>1, <2>3, Zenon DEF AgentRecord
    <3> QED
      BY <3>1, <1>1, <1>11, <2>3, SMT DEF GoesTo, HandedOver, CompleteStep
  <2> QED BY <2>2, <2>4
<1>12. CASE WriteTemp(s)
  <2> DEFINE rec == [node[s] EXCEPT !.pc = "replace"]
  <2>1. node' = [node EXCEPT ![s] = rec]
    BY <1>12 DEF WriteTemp
  <2>2. GoesTo(s, rec)
    <3>1. rec \in AgentRecord
      BY FieldValues, <1>1, Zenon DEF AgentRecord
    <3> QED
      BY <3>1, <1>1, <1>12, SMT DEF GoesTo, HandedOver, WriteTemp
  <2> QED BY <2>1, <2>2
<1>13. CASE ReplaceCheckpoint(s)
  <2> DEFINE rec == [node[s] EXCEPT !.pc = LoopPlace(s, node[s].signal)]
  <2>1. node' = [node EXCEPT ![s] = rec]
    BY <1>13 DEF ReplaceCheckpoint
  <2>2. GoesTo(s, rec)
    <3>1. rec \in AgentRecord
      BY FieldValues, LoopPlaces, <1>1, Zenon DEF AgentRecord
    <3> QED
      BY <3>1, <1>1, <1>13, SMT DEF GoesTo, HandedOver, ReplaceCheckpoint, LoopPlace
  <2> QED BY <2>1, <2>2
<1>14. CASE ReturnFromContinuation(s)
  <2> DEFINE cont == node[Continuation(s)]
             r1 == [node[s] EXCEPT !.pc = "finally", !.stop = "aborted"]
             r2 == [node[s] EXCEPT !.pc = "finally", !.raised = "error"]
             r3 == [node[s] EXCEPT !.pc = "finally", !.signal = "RESET",
                      !.failure = cont.failure,
                      !.stop = IF cont.failure = NoSession THEN @ ELSE cont.stop]
  <2>1. \/ node' = [node EXCEPT ![s] = r1]
        \/ node' = [node EXCEPT ![s] = r2]
        \/ node' = [node EXCEPT ![s] = r3]
    BY <1>14 DEF ReturnFromContinuation
  <2>2. cont \in AgentRecord
    BY <1>14, SessionFacts DEF ReturnFromContinuation, SessionsInv
  <2>3. GoesTo(s, r1) /\ GoesTo(s, r2)
    <3>1. r1 \in AgentRecord /\ r2 \in AgentRecord
      BY FieldValues, <1>1, Zenon DEF AgentRecord
    <3> QED
      BY <3>1, <1>1, <1>14, SMT DEF GoesTo, HandedOver, ReturnFromContinuation
  <2>4. GoesTo(s, r3)
    <3>1. r3 \in AgentRecord
      BY FieldValues, <1>1, <2>2, Zenon DEF AgentRecord
    <3> QED
      BY <3>1, <1>1, <1>14, <2>2, SMT DEF GoesTo, HandedOver, ReturnFromContinuation
  <2> QED BY <2>1, <2>3, <2>4
<1>15. CASE SettleOwn(s)
  <2> DEFINE rec == [node[s] EXCEPT !.pc = "sweep"]
  <2>1. node' = [node EXCEPT ![s] = rec]
    BY <1>15 DEF SettleOwn
  <2>2. GoesTo(s, rec)
    <3>1. rec \in AgentRecord
      BY FieldValues, <1>1, Zenon DEF AgentRecord
    <3> QED
      BY <3>1, <1>1, <1>15, SMT DEF GoesTo, HandedOver, SettleOwn
  <2> QED BY <2>1, <2>2
<1>16. CASE SettleSource(s)
  <2> DEFINE rec == [node[s] EXCEPT !.pc = "ended"]
  <2>1. node' = [node EXCEPT ![s] = rec]
    BY <1>16 DEF SettleSource
  <2>2. GoesTo(s, rec)
    <3>1. rec \in AgentRecord
      BY FieldValues, <1>1, Zenon DEF AgentRecord
    <3> QED
      BY <3>1, <1>1, <1>16, SMT DEF GoesTo, HandedOver, SettleSource
  <2> QED BY <2>1, <2>2
<1>17. CASE ReportFails(s)
  <2> DEFINE rec == [node[s] EXCEPT !.pc = "finally", !.stop = "llm_failure",
                                    !.failure = s]
  <2>1. node' = [node EXCEPT ![s] = rec]
    BY <1>17 DEF ReportFails, LLMFailure
  <2>2. GoesTo(s, rec)
    <3>1. rec \in AgentRecord
      BY FieldValues, <1>1, Zenon DEF AgentRecord
    <3> QED
      BY <3>1, <1>1, <1>17, SMT DEF GoesTo, HandedOver, ReportFails
  <2> QED BY <2>1, <2>2
<1> QED
  BY <1>3, <1>4, <1>5, <1>6, <1>7, <1>8, <1>9, <1>10, <1>11, <1>12, <1>13, <1>14,
     <1>15, <1>16, <1>17 DEF Progress

LEMMA BrokenOffMoves ==
  ASSUME SessionsInv, NEW s \in Session, Interrupt(s) \/ RaiseError(s)
  PROVE  \E rec : GoesTo(s, rec) /\ node' = [node EXCEPT ![s] = rec]
<1> DEFINE r1 == [node[s] EXCEPT !.pc = "finally", !.stop = "aborted"]
           r2 == [node[s] EXCEPT !.pc = "ended", !.raised = "interrupt"]
           r3 == [node[s] EXCEPT !.pc = "finally", !.raised = "error"]
           r4 == [node[s] EXCEPT !.pc = "ended", !.raised = "error"]
<1>1. \/ node' = [node EXCEPT ![s] = r1]
      \/ node' = [node EXCEPT ![s] = r2]
      \/ node' = [node EXCEPT ![s] = r3]
      \/ node' = [node EXCEPT ![s] = r4]
  BY DEF Interrupt, RaiseError
<1>2. node[s] \in AgentRecord
  BY DEF SessionsInv
<1>3. node[s].pc \in InTry \cup OutsideTry
  BY DEF Interrupt, RaiseError
<1>4. GoesTo(s, r1) /\ GoesTo(s, r2) /\ GoesTo(s, r3) /\ GoesTo(s, r4)
  <2>1. r1 \in AgentRecord /\ r2 \in AgentRecord
    BY FieldValues, <1>2, Zenon DEF AgentRecord
  <2>2. r3 \in AgentRecord /\ r4 \in AgentRecord
    BY FieldValues, <1>2, Zenon DEF AgentRecord
  <2>3. node[s].pc \notin HandedOver \/ node[s].pc \in {"finally", "sweep"}
    BY <1>3 DEF HandedOver, InTry, OutsideTry
  <2> QED
    BY <2>1, <2>2, <2>3, <1>2, <1>3, SMT DEF GoesTo, HandedOver, InTry, OutsideTry
<1> QED BY <1>1, <1>4

-----------------------------------------------------------------------------
(* Every step of the specification keeps both. *)
LEMMA BaseStep == Base /\ [Next]_vars => Base'
<1> SUFFICES ASSUME Base, [Next]_vars PROVE Base'
  OBVIOUS
<1>1. ckpt \in [Session -> CheckpointRecord] /\ SessionsInv /\ DiskInv
  BY DEF Base, DiskInv
<1> DEFINE Stays == \A t \in Session : node[t].pc # "off" => node'[t].pc # "off"
<1>2. UNCHANGED ckpt => ckpt' \in [Session -> CheckpointRecord]
                        /\ \A t \in Session : ckpt'[t] = ckpt[t] \/ ckpt'[t] = Absent
  BY <1>1
<1>3. Stays /\ UNCHANGED <<ckpt, clock, durable>> => DiskInv'
  BY <1>1, <1>2, DiskStep
<1>4. ASSUME NEW r \in Run, StartFresh(r) PROVE Base'
  <2>1. PICK budget \in Budget, level \in Opening :
          node' = [node EXCEPT ![Main(r)] = Built(budget, 0, level, {}, NoSession)]
    BY <1>4 DEF StartFresh
  <2>2. level \in Level /\ node[Main(r)].pc = "off" /\ UNCHANGED <<ckpt, clock, durable>>
    BY <1>4, ConstantsAssumption DEF StartFresh, MayStart
  <2>3. SessionsInv' /\ Stays
    BY <1>1, <2>1, <2>2, MainBuilt
  <2> QED BY <1>3, <2>2, <2>3 DEF Base
<1>5. ASSUME NEW r \in Run, NEW s \in Session, Resume(r, s) PROVE Base'
  <2>1. PICK budget \in Budget :
          node' = [node EXCEPT ![Main(r)] =
                     Built(budget, ckpt[s].step, ckpt[s].level, ckpt[s].conv, s)]
    BY <1>5 DEF Resume
  <2>2. node[Main(r)].pc = "off" /\ UNCHANGED <<ckpt, clock, durable>>
    BY <1>5 DEF Resume, MayStart
  <2>3. ckpt[s].step \in Nat /\ ckpt[s].level \in Level /\ ckpt[s].conv \in SUBSET Step
    BY <1>1, SMT DEF CheckpointRecord, Level
  <2>4. s # NoSession
    BY ConstantsAssumption
  <2>5. SessionsInv' /\ Stays
    BY <1>1, <2>1, <2>2, <2>3, <2>4, MainBuilt
  <2> QED BY <1>3, <2>2, <2>5 DEF Base
<1>6. ASSUME NEW s \in Session, Progress(s) PROVE Base'
  <2>1. SessionsInv' /\ Stays
    <3>1. CASE SpawnContinuation(s)
      BY <1>1, <3>1, ContinuationBuilt
    <3>2. CASE ~SpawnContinuation(s)
      <4>1. PICK rec : GoesTo(s, rec) /\ node' = [node EXCEPT ![s] = rec]
        BY <1>1, <1>6, <3>2, ProgressMoves
      <4> QED BY <1>1, <4>1, NodeStep
    <3> QED BY <3>1, <3>2
  <2>2. DiskInv'
    <3>1. CASE ReplaceCheckpoint(s)
      BY <2>1, <3>1, ReplaceStep
    <3>2. CASE SettleOwn(s) \/ SettleSource(s)
      <4>1. Absent \in CheckpointRecord
        BY SMT DEF Absent, CheckpointRecord, Level
      <4>2. \/ ckpt' = ckpt
            \/ \E t : ckpt' = [ckpt EXCEPT ![t] = Absent]
        BY <3>2 DEF SettleOwn, SettleSource
      <4>3. /\ ckpt' \in [Session -> CheckpointRecord]
            /\ \A t \in Session : ckpt'[t] = ckpt[t] \/ ckpt'[t] = Absent
        BY <1>1, <4>1, <4>2
      <4>4. UNCHANGED <<clock, durable>>
        BY <3>2 DEF SettleOwn, SettleSource
      <4> QED BY <1>1, <2>1, <4>3, <4>4, DiskStep
    <3>3. CASE ~ReplaceCheckpoint(s) /\ ~SettleOwn(s) /\ ~SettleSource(s)
      <4>1. UNCHANGED <<ckpt, clock, durable>>
        BY <1>6, <3>3 DEF Progress, Enter, GuardPasses, GuardStops, GuardResets,
             HandoffFails, SecureHandoff, SpawnContinuation, CallLLM, LLMCallFails,
             ReportFails, CompleteStep, WriteTemp, ReturnFromContinuation
      <4> QED BY <1>3, <2>1, <4>1
    <3> QED BY <3>1, <3>2, <3>3
  <2> QED BY <2>1, <2>2 DEF Base
<1>7. ASSUME NEW s \in Session, Interrupt(s) \/ RaiseError(s) PROVE Base'
  <2>1. PICK rec : GoesTo(s, rec) /\ node' = [node EXCEPT ![s] = rec]
    BY <1>1, <1>7, BrokenOffMoves
  <2>2. SessionsInv' /\ Stays
    BY <1>1, <2>1, NodeStep
  <2>3. UNCHANGED <<ckpt, clock, durable>>
    BY <1>7 DEF Interrupt, RaiseError
  <2> QED BY <1>3, <2>2, <2>3 DEF Base
<1>8. ASSUME NEW r \in Run, Kill(r) PROVE Base'
  <2>1. SessionsInv' /\ Stays
    BY <1>1, <1>8, KillStep
  <2> QED BY <1>3, <1>8, <2>1 DEF Base, Kill
<1>9. CASE UNCHANGED vars
  BY <1>9 DEF vars, Base, SessionsInv, DiskInv, ChainWithinBudget,
              ContinuationIsNewer, OnDisk
<1> QED
  BY <1>4, <1>5, <1>6, <1>7, <1>8, <1>9 DEF Next, ResumeLast

-----------------------------------------------------------------------------
(* The kinds of move a session makes, but for building a continuation: what *)
(* each does to the session's place and history.                             *)
GoesOn(old, rec) ==
  /\ \/ old.pc = "opening" /\ rec.pc \in {"guard", "finally"}
     \/ old.pc = "guard" /\ rec.pc \in {"llm", "handoff", "save"}
     \/ old.pc = "llm" /\ rec.pc = "tools"
     \/ old.pc = "save" /\ rec.pc = "replace"
     \/ old.pc = "replace" /\ rec.pc \in {"guard", "finally"}
  /\ rec.stop = old.stop \/ rec.stop = "context_limit"
  /\ rec.conv = old.conv /\ rec.failure = old.failure
  /\ rec.didReset = old.didReset /\ rec.raised = old.raised
Secures(old, rec) ==
  /\ old.pc = "handoff" /\ rec.pc = "spawning"
  /\ rec.didReset = TRUE /\ rec.stop = "context_reset"
  /\ rec.conv = old.conv /\ rec.failure = old.failure /\ rec.raised = old.raised
Completes(s, rec) ==
  /\ node[s].pc = "tools" /\ rec.pc = "save"
  /\ rec.conv = node[s].conv \cup {<<s, node[s].step>>}
  /\ rec.failure = node[s].failure
  /\ rec.didReset = node[s].didReset /\ rec.raised = node[s].raised
Fails(s, rec) ==
  /\ node[s].pc \in {"handoff", "llm", "tools"} /\ rec.pc = "finally"
  /\ rec.failure = s /\ rec.stop = "llm_failure"
  /\ rec.conv = node[s].conv
  /\ rec.didReset = node[s].didReset /\ rec.raised = node[s].raised
BreaksOff(s, rec) ==
  /\ \/ node[s].pc \in InTry
     \/ /\ node[s].pc = "waiting" /\ node[Continuation(s)].pc = "ended"
        /\ node[Continuation(s)].raised # "none"
  /\ rec.pc = "finally"
  /\ rec.stop = node[s].stop \/ rec.stop = "aborted"
  /\ rec.raised = node[s].raised \/ rec.raised # "none"
  /\ rec.conv = node[s].conv /\ rec.failure = node[s].failure
  /\ rec.didReset = node[s].didReset
Returns(s, rec) ==
  /\ node[s].pc = "waiting" /\ rec.pc = "finally"
  /\ node[Continuation(s)].pc = "ended" /\ node[Continuation(s)].raised = "none"
  /\ rec.failure = node[Continuation(s)].failure
  /\ rec.failure = NoSession => rec.stop = node[s].stop
  /\ rec.conv = node[s].conv
  /\ rec.didReset = node[s].didReset /\ rec.raised = node[s].raised
Leaves(old, rec) ==
  /\ \/ old.pc \in OutsideTry /\ rec.pc = "ended" /\ rec.raised # "none"
     \/ /\ \/ old.pc = "finally" /\ rec.pc = "sweep"
           \/ old.pc = "sweep" /\ rec.pc = "ended"
        /\ rec.raised = old.raised
  /\ rec.stop = old.stop /\ rec.conv = old.conv /\ rec.failure = old.failure
  /\ rec.didReset = old.didReset

Moves(s, rec) ==
  /\ node' = [node EXCEPT ![s] = rec]
  /\ rec \in AgentRecord /\ rec.source = node[s].source
  /\ \/ GoesOn(node[s], rec) \/ Secures(node[s], rec) \/ Completes(s, rec) \/ Fails(s, rec)
     \/ BreaksOff(s, rec) \/ Returns(s, rec) \/ Leaves(node[s], rec)

(* Every action of a single session is one of them. *)
LEMMA SessionMoves ==
  ASSUME SessionsInv, NEW s \in Session,
         (Progress(s) /\ ~SpawnContinuation(s)) \/ Interrupt(s) \/ RaiseError(s)
  PROVE  \E rec : Moves(s, rec)
<1>1. node[s] \in AgentRecord
  BY DEF SessionsInv
<1>2. ASSUME NEW rec, rec \in AgentRecord, rec.source = node[s].source,
             node' = [node EXCEPT ![s] = rec],
             \/ GoesOn(node[s], rec) \/ Secures(node[s], rec) \/ Completes(s, rec)
             \/ Fails(s, rec) \/ BreaksOff(s, rec) \/ Returns(s, rec) \/ Leaves(node[s], rec)
      PROVE  \E r : Moves(s, r)
  BY <1>2 DEF Moves
<1>3. CASE Enter(s)
  <2> DEFINE rec == [node[s] EXCEPT !.pc = LoopPlace(s, "CONTINUE")]
  <2>1. rec \in AgentRecord
    BY FieldValues, LoopPlaces, <1>1, Zenon DEF AgentRecord
  <2>2. GoesOn(node[s], rec) /\ rec.source = node[s].source
    BY <1>1, <1>3, LoopPlaces DEF Enter, GoesOn, AgentRecord
  <2> QED BY <1>2, <1>3, <2>1, <2>2 DEF Enter
<1>4. CASE GuardPasses(s)
  <2> DEFINE rec == [node[s] EXCEPT !.pc = "llm"]
  <2>1. rec \in AgentRecord
    BY FieldValues, <1>1, Zenon DEF AgentRecord
  <2>2. GoesOn(node[s], rec) /\ rec.source = node[s].source
    BY <1>1, <1>4 DEF GuardPasses, GoesOn, AgentRecord
  <2> QED BY <1>2, <1>4, <2>1, <2>2 DEF GuardPasses
<1>5. CASE GuardStops(s)
  <2> DEFINE rec == [node[s] EXCEPT !.pc = "save", !.signal = "STOP", !.stop = "context_limit"]
  <2>1. rec \in AgentRecord
    BY FieldValues, <1>1, Zenon DEF AgentRecord
  <2>2. GoesOn(node[s], rec) /\ rec.source = node[s].source
    BY <1>1, <1>5 DEF GuardStops, GoesOn, AgentRecord
  <2> QED BY <1>2, <1>5, <2>1, <2>2 DEF GuardStops
<1>6. CASE GuardResets(s)
  <2> DEFINE rec == [node[s] EXCEPT !.pc = "handoff"]
  <2>1. rec \in AgentRecord
    BY FieldValues, <1>1, Zenon DEF AgentRecord
  <2>2. GoesOn(node[s], rec) /\ rec.source = node[s].source
    BY <1>1, <1>6 DEF GuardResets, GoesOn, AgentRecord
  <2> QED BY <1>2, <1>6, <2>1, <2>2 DEF GuardResets
<1>7. CASE HandoffFails(s) \/ ReportFails(s)
  <2> DEFINE rec == [node[s] EXCEPT !.pc = "finally", !.stop = "llm_failure", !.failure = s]
  <2>1. rec \in AgentRecord
    BY FieldValues, <1>1, Zenon DEF AgentRecord
  <2>2. Fails(s, rec) /\ rec.source = node[s].source
    BY <1>1, <1>7 DEF HandoffFails, ReportFails, Fails, AgentRecord
  <2> QED BY <1>2, <1>7, <2>1, <2>2 DEF HandoffFails, ReportFails, LLMFailure
<1>8. CASE SecureHandoff(s)
  <2> DEFINE rec == [node[s] EXCEPT !.pc = "spawning", !.didReset = TRUE,
                                    !.stop = "context_reset"]
  <2>1. rec \in AgentRecord
    BY FieldValues, <1>1, Zenon DEF AgentRecord
  <2>2. Secures(node[s], rec) /\ rec.source = node[s].source
    BY <1>1, <1>8 DEF SecureHandoff, Secures, AgentRecord
  <2> QED BY <1>2, <1>8, <2>1, <2>2 DEF SecureHandoff
<1>9. CASE CallLLM(s)
  <2> DEFINE rec == [node[s] EXCEPT !.pc = "tools", !.step = @ + 1]
  <2>1. rec \in AgentRecord
    BY FieldValues, NextStep, <1>1, Zenon DEF AgentRecord
  <2>2. GoesOn(node[s], rec) /\ rec.source = node[s].source
    BY <1>1, <1>9 DEF CallLLM, GoesOn, AgentRecord
  <2> QED BY <1>2, <1>9, <2>1, <2>2 DEF CallLLM
<1>10. CASE LLMCallFails(s)
  <2> DEFINE rec == [node[s] EXCEPT !.pc = "finally", !.stop = "llm_failure",
                                    !.failure = s, !.step = @ + 1]
  <2>1. rec \in AgentRecord
    BY FieldValues, NextStep, <1>1, Zenon DEF AgentRecord
  <2>2. Fails(s, rec) /\ rec.source = node[s].source
    BY <1>1, <1>10 DEF LLMCallFails, Fails, AgentRecord
  <2> QED BY <1>2, <1>10, <2>1, <2>2 DEF LLMCallFails
<1>11. CASE CompleteStep(s)
  <2>1. PICK level \in Level, clean \in BOOLEAN :
          LET ceiling == ~clean /\ node[s].step >= node[s].budget
          IN  node' = [node EXCEPT
                ![s].pc = "save", ![s].level = level,
                ![s].conv = @ \cup {<<s, node[s].step>>},
                ![s].signal = IF clean \/ ceiling THEN "STOP" ELSE "CONTINUE",
                ![s].stop = IF clean THEN "stop"
                            ELSE IF ceiling THEN "max_steps" ELSE @]
    BY <1>11 DEF CompleteStep
  <2> DEFINE ceiling == ~clean /\ node[s].step >= node[s].budget
             rec == [node[s] EXCEPT
                !.pc = "save", !.level = level,
                !.conv = @ \cup {<<s, node[s].step>>},
                !.signal = IF clean \/ ceiling THEN "STOP" ELSE "CONTINUE",
                !.stop = IF clean THEN "stop"
                         ELSE IF ceiling THEN "max_steps" ELSE @]
  <2>2. node' = [node EXCEPT ![s] = rec]
    BY <2>1
  <2>3. level \in Level /\ <<s, node[s].step>> \in Step
    BY <1>1, StepNamed, SMT DEF AgentRecord
  <2>4. rec \in AgentRecord
    BY FieldValues, <1>1, <2>3, Zenon DEF AgentRecord
  <2>5. Completes(s, rec) /\ rec.source = node[s].source
    BY <1>1, <1>11 DEF CompleteStep, Completes, AgentRecord
  <2> HIDE DEF rec
  <2> QED BY <1>2, <2>2, <2>4, <2>5
<1>12. CASE WriteTemp(s)
  <2> DEFINE rec == [node[s] EXCEPT !.pc = "replace"]
  <2>1. rec \in AgentRecord
    BY FieldValues, <1>1, Zenon DEF AgentRecord
  <2>2. GoesOn(node[s], rec) /\ rec.source = node[s].source
    BY <1>1, <1>12 DEF WriteTemp, GoesOn, AgentRecord
  <2> QED BY <1>2, <1>12, <2>1, <2>2 DEF WriteTemp
<1>13. CASE ReplaceCheckpoint(s)
  <2> DEFINE rec == [node[s] EXCEPT !.pc = LoopPlace(s, node[s].signal)]
  <2>1. rec \in AgentRecord
    BY FieldValues, LoopPlaces, <1>1, Zenon DEF AgentRecord
  <2>2. GoesOn(node[s], rec) /\ rec.source = node[s].source
    BY <1>1, <1>13, LoopPlaces DEF ReplaceCheckpoint, GoesOn, AgentRecord
  <2> QED BY <1>2, <1>13, <2>1, <2>2 DEF ReplaceCheckpoint
<1>14. CASE ReturnFromContinuation(s)
  <2> DEFINE cont == node[Continuation(s)]
             r1 == [node[s] EXCEPT !.pc = "finally", !.stop = "aborted"]
             r2 == [node[s] EXCEPT !.pc = "finally", !.raised = "error"]
             r3 == [node[s] EXCEPT !.pc = "finally", !.signal = "RESET",
                      !.failure = cont.failure,
                      !.stop = IF cont.failure = NoSession THEN @ ELSE cont.stop]
  <2>1. cont \in AgentRecord /\ node[s].pc = "waiting" /\ cont.pc = "ended"
    BY <1>14, SessionFacts DEF ReturnFromContinuation, SessionsInv
  <2>2. \/ node' = [node EXCEPT ![s] = r1] /\ cont.raised = "interrupt"
        \/ node' = [node EXCEPT ![s] = r2] /\ cont.raised = "error"
        \/ node' = [node EXCEPT ![s] = r3] /\ cont.raised = "none"
    BY <1>14 DEF ReturnFromContinuation
  <2>3. r1 \in AgentRecord /\ r2 \in AgentRecord
    BY FieldValues, <1>1, Zenon DEF AgentRecord
  <2>4. r3 \in AgentRecord
    BY FieldValues, <1>1, <2>1, Zenon DEF AgentRecord
  <2>5. /\ r1.source = node[s].source /\ (cont.raised = "interrupt" => BreaksOff(s, r1))
        /\ r2.source = node[s].source /\ (cont.raised = "error" => BreaksOff(s, r2))
    BY <1>1, <2>1 DEF BreaksOff, AgentRecord
  <2>6. r3.source = node[s].source /\ (cont.raised = "none" => Returns(s, r3))
    BY <1>1, <2>1 DEF Returns, AgentRecord
  <2> HIDE DEF r1, r2, r3
  <2> QED BY <1>2, <2>2, <2>3, <2>4, <2>5, <2>6
<1>15. CASE SettleOwn(s)
  <2> DEFINE rec == [node[s] EXCEPT !.pc = "sweep"]
  <2>1. rec \in AgentRecord
    BY FieldValues, <1>1, Zenon DEF AgentRecord
  <2>2. Leaves(node[s], rec) /\ rec.source = node[s].source
    BY <1>1, <1>15 DEF SettleOwn, Leaves, AgentRecord
  <2> QED BY <1>2, <1>15, <2>1, <2>2 DEF SettleOwn
<1>16. CASE SettleSource(s)
  <2> DEFINE rec == [node[s] EXCEPT !.pc = "ended"]
  <2>1. rec \in AgentRecord
    BY FieldValues, <1>1, Zenon DEF AgentRecord
  <2>2. Leaves(node[s], rec) /\ rec.source = node[s].source
    BY <1>1, <1>16 DEF SettleSource, Leaves, AgentRecord
  <2> QED BY <1>2, <1>16, <2>1, <2>2 DEF SettleSource
<1>17. CASE Interrupt(s) \/ RaiseError(s)
  <2> DEFINE r1 == [node[s] EXCEPT !.pc = "finally", !.stop = "aborted"]
             r2 == [node[s] EXCEPT !.pc = "ended", !.raised = "interrupt"]
             r3 == [node[s] EXCEPT !.pc = "finally", !.raised = "error"]
             r4 == [node[s] EXCEPT !.pc = "ended", !.raised = "error"]
  <2>1. \/ node' = [node EXCEPT ![s] = r1] /\ node[s].pc \in InTry
        \/ node' = [node EXCEPT ![s] = r2] /\ node[s].pc \in OutsideTry
        \/ node' = [node EXCEPT ![s] = r3] /\ node[s].pc \in InTry
        \/ node' = [node EXCEPT ![s] = r4] /\ node[s].pc \in OutsideTry
    BY <1>17 DEF Interrupt, RaiseError
  <2>2. r1 \in AgentRecord /\ r2 \in AgentRecord
    BY FieldValues, <1>1, Zenon DEF AgentRecord
  <2>3. r3 \in AgentRecord /\ r4 \in AgentRecord
    BY FieldValues, <1>1, Zenon DEF AgentRecord
  <2>4. /\ r1.source = node[s].source /\ (node[s].pc \in InTry => BreaksOff(s, r1))
        /\ r3.source = node[s].source /\ (node[s].pc \in InTry => BreaksOff(s, r3))
    BY <1>1 DEF BreaksOff, AgentRecord
  <2>5. /\ r2.source = node[s].source /\ (node[s].pc \in OutsideTry => Leaves(node[s], r2))
        /\ r4.source = node[s].source /\ (node[s].pc \in OutsideTry => Leaves(node[s], r4))
    BY <1>1 DEF Leaves, AgentRecord
  <2> HIDE DEF r1, r2, r3, r4
  <2> QED BY <1>2, <2>1, <2>2, <2>3, <2>4, <2>5
<1> QED
  BY <1>3, <1>4, <1>5, <1>6, <1>7, <1>8, <1>9, <1>10, <1>11, <1>12, <1>13, <1>14,
     <1>15, <1>16, <1>17 DEF Progress

-----------------------------------------------------------------------------
(* The sessions of a process, by depth. *)
LEMMA ChainFacts ==
  /\ \A s, t \in Session : Later(s, t) =>
       /\ s # t /\ ~Later(t, s) /\ s[2] < MaxDepth /\ Continuation(s) \in Session
       /\ t = Continuation(s) \/ Later(Continuation(s), t)
  /\ \A s \in Session : s[2] < MaxDepth => Later(s, Continuation(s))
  /\ \A s, t, u \in Session : Later(s, t) /\ Later(t, u) => Later(s, u)
  /\ \A s, t \in Session : t[2] < MaxDepth /\ Later(s, Continuation(t)) => s = t \/ Later(s, t)
  /\ \A r \in Run : Main(r)[1] = r /\ Main(r)[2] = 0
  /\ \A s \in Session : s[2] = 0 => s = Main(s[1])
  /\ \A s \in Session : s = Main(s[1]) \/ Later(Main(s[1]), s)
  /\ \A s \in Session, r \in Run : ~Later(s, Main(r))
<1>1. \A s \in Session : /\ s[1] \in Run /\ s[2] \in 0 .. MaxDepth /\ s = <<s[1], s[2]>>
  BY SMT DEF Session
<1>2. MaxDepth \in Nat
  BY ConstantsAssumption
<1>3. \A s \in Session : Continuation(s)[1] = s[1] /\ Continuation(s)[2] = s[2] + 1
  BY DEF Continuation
<1>4. \A r \in Run : Main(r)[1] = r /\ Main(r)[2] = 0
  BY DEF Main
<1>5. \A s, t \in Session : Later(s, t) =>
       /\ s # t /\ ~Later(t, s) /\ s[2] < MaxDepth /\ Continuation(s) \in Session
       /\ t = Continuation(s) \/ Later(Continuation(s), t)
  <2> SUFFICES ASSUME NEW s \in Session, NEW t \in Session, Later(s, t)
               PROVE  /\ s # t /\ ~Later(t, s) /\ s[2] < MaxDepth /\ Continuation(s) \in Session
                      /\ t = Continuation(s) \/ Later(Continuation(s), t)
    OBVIOUS
  <2>1. s[1] = t[1] /\ s[2] < t[2] /\ s[2] \in Nat /\ t[2] \in Nat /\ t[2] <= MaxDepth
    BY <1>1 DEF Later
  <2>2. s[2] < MaxDepth /\ s # t /\ ~Later(t, s)
    BY <1>2, <2>1 DEF Later
  <2>3. Continuation(s) \in Session
    BY <2>2, SessionFacts
  <2>4. t[2] = s[2] + 1 \/ s[2] + 1 < t[2]
    BY <2>1
  <2>5. t[2] = s[2] + 1 => t = Continuation(s)
    BY <1>1, <2>1 DEF Continuation
  <2>6. s[2] + 1 < t[2] => Later(Continuation(s), t)
    BY <1>3, <2>1 DEF Later
  <2> QED BY <2>2, <2>3, <2>4, <2>5, <2>6
<1>6. \A s \in Session : s[2] < MaxDepth => Later(s, Continuation(s))
  BY <1>1, <1>3 DEF Later
<1>7. \A s, t, u \in Session : Later(s, t) /\ Later(t, u) => Later(s, u)
  <2> SUFFICES ASSUME NEW s \in Session, NEW t \in Session, NEW u \in Session,
                      Later(s, t), Later(t, u)
               PROVE  Later(s, u)
    OBVIOUS
  <2>1. s[2] \in Nat /\ t[2] \in Nat /\ u[2] \in Nat
    BY <1>1
  <2> QED BY <2>1 DEF Later
<1>8. \A s, t \in Session : t[2] < MaxDepth /\ Later(s, Continuation(t)) => s = t \/ Later(s, t)
  <2> SUFFICES ASSUME NEW s \in Session, NEW t \in Session, t[2] < MaxDepth,
                      Later(s, Continuation(t))
               PROVE  s = t \/ Later(s, t)
    OBVIOUS
  <2>1. s[1] = t[1] /\ s[2] < t[2] + 1 /\ s[2] \in Nat /\ t[2] \in Nat
    BY <1>1, <1>3 DEF Later
  <2>2. s[2] = t[2] \/ s[2] < t[2]
    BY <2>1
  <2>3. s[2] = t[2] => s = t
    BY <1>1, <2>1
  <2> QED BY <2>1, <2>2, <2>3 DEF Later
<1>9. \A s \in Session : s[2] = 0 => s = Main(s[1])
  BY <1>1 DEF Main
<1>10. \A s \in Session : s = Main(s[1]) \/ Later(Main(s[1]), s)
  <2> SUFFICES ASSUME NEW s \in Session
               PROVE  s = Main(s[1]) \/ Later(Main(s[1]), s)
    OBVIOUS
  <2>1. s[2] = 0 \/ 0 < s[2]
    BY <1>1
  <2> QED BY <1>1, <1>4, <1>9, <2>1 DEF Later
<1>11. \A s \in Session, r \in Run : ~Later(s, Main(r))
  BY <1>1, <1>4 DEF Later
<1> QED BY <1>4, <1>5, <1>6, <1>7, <1>8, <1>9, <1>10, <1>11

(* The states the parts of the invariant tell apart. *)
LEMMA PlaceFacts ==
  /\ InTry = {"guard", "handoff", "spawning", "llm", "tools", "save", "replace"}
  /\ OutsideTry = {"opening", "finally", "sweep"}
  /\ HandedOver = {"waiting", "finally", "sweep", "ended", "killed"}
  /\ Over = {"finally", "sweep", "ended", "killed"}
BY DEF InTry, OutsideTry, HandedOver, Over

(* What every move has in common: only a live session moves, it stays in     *)
(* existence, and nothing it has gone through is undone.                     *)
LEMMA MoveFacts ==
  ASSUME SessionsInv, NEW s \in Session, NEW rec, Moves(s, rec)
  PROVE  /\ \A t \in Session : node'[t] = IF t = s THEN rec ELSE node[t]
         /\ node[s].pc \notin {"off", "ended", "killed"}
         /\ rec.pc \notin {"off", "waiting", "killed"}
         /\ rec.source = node[s].source
         /\ node[s].didReset => rec.didReset
         /\ rec.raised = "none" => node[s].raised = "none"
         /\ node[s].pc \in HandedOver => rec.pc \in {"finally", "sweep", "ended"}
         /\ node[s].conv \subseteq rec.conv
<1>1. \A t \in Session : node'[t] = IF t = s THEN rec ELSE node[t]
  BY DEF SessionsInv, Moves
<1> QED
  BY <1>1, PlaceFacts DEF Moves, GoesOn, Secures, Completes, Fails, BreaksOff, Returns, Leaves

(* A move keeps the stack: what stands above a waiting session is over when *)
(* its continuation is.                                                      *)
LEMMA StackMove ==
  ASSUME SessionsInv, StackInv, NEW s \in Session, NEW rec, Moves(s, rec)
  PROVE  StackInv'
<1>1. /\ \A t \in Session : node'[t] = IF t = s THEN rec ELSE node[t]
      /\ node[s].pc \notin {"off", "ended", "killed"}
      /\ rec.pc \notin {"off", "waiting", "killed"}
      /\ rec.source = node[s].source
      /\ node[s].didReset => rec.didReset
      /\ node[s].pc \in HandedOver => rec.pc \in {"finally", "sweep", "ended"}
  BY MoveFacts
<1>2. /\ node[s].pc \in {"spawning", "waiting"} => node[s].didReset /\ node[s].stop = "context_reset"
      /\ node[s].didReset => /\ node[s].pc \in {"spawning"} \cup HandedOver
                             /\ ~(node[s].failure = NoSession /\ node[s].stop = "stop")
  BY DEF StackInv, CleanFinish
<1>3. /\ rec.pc = "spawning" => rec.didReset /\ rec.stop = "context_reset"
      /\ rec.didReset => /\ rec.pc \in {"spawning"} \cup HandedOver
                         /\ ~(rec.failure = NoSession /\ rec.stop = "stop")
  <2>1. CASE GoesOn(node[s], rec) \/ Completes(s, rec) \/ Fails(s, rec)
    <3>1. node[s].pc \in {"opening", "guard", "handoff", "llm", "tools", "save", "replace"}
      BY <2>1 DEF GoesOn, Completes, Fails
    <3>2. ~node[s].didReset /\ rec.didReset = node[s].didReset /\ rec.pc # "spawning"
      BY <1>2, <2>1, <3>1, PlaceFacts DEF GoesOn, Completes, Fails
    <3> QED BY <3>2
  <2>2. CASE Secures(node[s], rec)
    BY <2>2 DEF Secures
  <2>3. CASE BreaksOff(s, rec) \/ Leaves(node[s], rec)
    BY <1>2, <2>3, PlaceFacts DEF BreaksOff, Leaves
  <2>4. CASE Returns(s, rec)
    BY <1>2, <2>4, PlaceFacts DEF Returns
  <2> QED BY <2>1, <2>2, <2>3, <2>4 DEF Moves
<1>4. ASSUME NEW t \in Session, Later(s, t), node[t].pc # "off"
      PROVE  ~Live(t) /\ node[t].pc # "killed"
  <2>1. /\ node[s].didReset /\ node[s].pc \in HandedOver
        /\ (Live(t) => node[s].pc = "waiting") /\ node[t].pc # "killed"
    BY <1>1, <1>4 DEF StackInv
  <2>2. ASSUME node[s].pc = "waiting"
        PROVE  node[Continuation(s)].pc = "ended"
    BY <2>2, PlaceFacts
       DEF Moves, GoesOn, Secures, Completes, Fails, BreaksOff, Returns, Leaves
  <2>3. ASSUME Live(t)
        PROVE  FALSE
    <3>1. node[Continuation(s)].pc = "ended"
      BY <2>1, <2>2, <2>3
    <3>2. t # Continuation(s)
      BY <2>3, <3>1 DEF Live
    <3>3. Later(Continuation(s), t) /\ Continuation(s) \in Session
      BY <1>4, <3>2, ChainFacts
    <3> QED BY <1>4, <2>3, <3>1, <3>3 DEF StackInv
  <2> QED BY <2>1, <2>3
<1>5. ASSUME NEW t \in Session
      PROVE  /\ node'[t].pc = "off" => node'[t] = NotCreated
             /\ node'[t].pc \in {"spawning", "waiting"} =>
                  node'[t].didReset /\ node'[t].stop = "context_reset"
             /\ node'[t].didReset => /\ node'[t].pc \in {"spawning"} \cup HandedOver
                                     /\ ~CleanFinish(t)'
  BY <1>1, <1>3 DEF StackInv, CleanFinish
<1>6. ASSUME NEW t \in Session, NEW u \in Session, Later(t, u), node'[u].pc # "off"
      PROVE  /\ node'[t].didReset /\ node'[t].pc \in HandedOver
             /\ Live(u)' => node'[t].pc = "waiting"
             /\ node'[u].pc = "killed" => node'[t].pc = "killed"
  <2>1. node[u].pc # "off" /\ t # u
    BY <1>1, <1>6, ChainFacts
  <2>2. /\ node[t].didReset /\ node[t].pc \in HandedOver
        /\ Live(u) => node[t].pc = "waiting"
        /\ node[u].pc = "killed" => node[t].pc = "killed"
    BY <1>6, <2>1 DEF StackInv
  <2>3. CASE t = s
    BY <1>1, <1>4, <1>6, <2>1, <2>2, <2>3, PlaceFacts DEF Live
  <2>4. CASE u = s
    BY <1>1, <2>1, <2>2, <2>4 DEF Live
  <2>5. CASE t # s /\ u # s
    BY <1>1, <2>2, <2>5 DEF Live
  <2> QED BY <2>3, <2>4, <2>5
<1>7. ASSUME NEW t \in Session, node'[t].source # NoSession
      PROVE  /\ t[2] = 0 /\ node'[t].source # t /\ node'[node'[t].source].pc # "off"
             /\ ResumeLive \/ ~Live(node[t].source)'
  <2>1. node'[t].source = node[t].source /\ node[t] \in AgentRecord
    BY <1>1 DEF SessionsInv
  <2>2. node[t].source \in Session
    BY <1>7, <2>1 DEF AgentRecord
  <2>3. /\ t[2] = 0 /\ node[t].source # t /\ node[node[t].source].pc # "off"
        /\ ResumeLive \/ ~Live(node[t].source)
    BY <1>7, <2>1 DEF StackInv
  <2> QED BY <1>1, <2>1, <2>2, <2>3 DEF Live
<1> QED BY <1>5, <1>6, <1>7 DEF StackInv

(* A session that has not been created did not finish. *)
LEMMA NotCreatedFields ==
  /\ NotCreated.conv = {} /\ NotCreated.source = NoSession /\ NotCreated.stop = "max_steps"
  /\ NotCreated.didReset = FALSE /\ NotCreated.failure = NoSession /\ NotCreated.pc = "off"
  /\ NotCreated.level = "low"
<1>1. Built(0, 0, "low", {}, NoSession) \in AgentRecord
  BY BuiltType, SMT DEF Level
<1> QED BY <1>1 DEF NotCreated, Built

(* A move keeps the failures true. *)
LEMMA FailureMove ==
  ASSUME SessionsInv, StackInv, FailureInv, NEW s \in Session, NEW rec, Moves(s, rec)
  PROVE  FailureInv'
<1>1. /\ \A t \in Session : node'[t] = IF t = s THEN rec ELSE node[t]
      /\ node[s].pc \notin {"off", "ended", "killed"}
      /\ rec.pc \notin {"off", "waiting", "killed"}
      /\ rec.raised = "none" => node[s].raised = "none"
      /\ node[s].pc \in HandedOver => rec.pc \in {"finally", "sweep", "ended"}
  BY MoveFacts
<1>2. \A t \in Session : node[t].failure \in Session \cup {NoSession}
  BY DEF SessionsInv, AgentRecord
<1>3. ASSUME NEW h \in Session, node[h].failure = h, node[h].pc \in Over, ~node[h].didReset
      PROVE  node'[h].failure = h /\ node'[h].pc \in Over /\ ~node'[h].didReset
  <2>1. CASE h = s
    <3>1. Leaves(node[s], rec)
      BY <1>1, <1>3, <2>1, PlaceFacts
         DEF Moves, GoesOn, Secures, Completes, Fails, BreaksOff, Returns
    <3> QED BY <1>1, <1>3, <2>1, <3>1, PlaceFacts DEF Leaves
  <2> QED BY <1>1, <1>3, <2>1
<1>4. ASSUME NEW t \in Session, node'[t].failure # NoSession
      PROVE  LET failed == node'[t].failure
             IN  /\ node'[failed].failure = failed /\ node'[failed].pc \in Over
                 /\ ~node'[failed].didReset
  <2>1. ASSUME node'[t].failure = node[t].failure
        PROVE  LET failed == node'[t].failure
               IN  /\ node'[failed].failure = failed /\ node'[failed].pc \in Over
                   /\ ~node'[failed].didReset
    <3>1. /\ node[t].failure \in Session /\ node[node[t].failure].failure = node[t].failure
          /\ node[node[t].failure].pc \in Over /\ ~node[node[t].failure].didReset
      BY <1>2, <1>4, <2>1 DEF FailureInv
    <3> QED BY <1>3, <2>1, <3>1
  <2>2. CASE t = s /\ Fails(s, rec)
    <3>1. node[s].pc \in {"handoff", "llm", "tools"} /\ ~node[s].didReset
      BY <2>2, PlaceFacts DEF Fails, StackInv
    <3> QED BY <1>1, <2>2, <3>1, PlaceFacts DEF Fails
  <2>3. CASE t = s /\ Returns(s, rec)
    <3>1. Continuation(s) \in Session
      BY <2>3, SessionFacts DEF Returns, SessionsInv
    <3>2. node'[t].failure = node[Continuation(s)].failure
      BY <1>1, <2>3 DEF Returns
    <3>3. LET failed == node[Continuation(s)].failure
          IN  /\ failed \in Session
              /\ node[failed].failure = failed /\ node[failed].pc \in Over
              /\ ~node[failed].didReset
      BY <1>2, <1>4, <3>1, <3>2 DEF FailureInv
    <3> QED BY <1>3, <3>2, <3>3
  <2>4. CASE t = s /\ ~Fails(s, rec) /\ ~Returns(s, rec)
    <3>1. rec.failure = node[s].failure
      BY <2>4 DEF Moves, GoesOn, Secures, Completes, BreaksOff, Leaves
    <3> QED BY <1>1, <2>1, <2>4, <3>1
  <2> QED BY <1>1, <2>1, <2>2, <2>3, <2>4
<1>5. ASSUME NEW x \in Session, NEW t \in Session, Later(x, t),
             node'[x].pc \in Over \ {"killed"}, CleanFinish(t)',
             \A u \in Session : u = x \/ Later(x, u) => node'[u].raised = "none"
      PROVE  node'[x].failure = NoSession
  <2>1. \A u \in Session : u = x \/ Later(x, u) => node[u].raised = "none"
    BY <1>1, <1>5
  <2>2. x # t
    BY <1>5, ChainFacts
  <2>3. node'[t].pc # "off"
    <3>1. ASSUME node'[t].pc = "off"
          PROVE  FALSE
      <4>1. node'[t] = NotCreated
        BY <3>1, StackMove DEF StackInv
      <4> QED BY <1>5, <4>1, NotCreatedFields DEF CleanFinish
    <3> QED BY <3>1
  <2>4. node[t].pc # "off"
    BY <1>1, <2>3
  <2>5. node[x].pc \in HandedOver /\ (Live(t) => node[x].pc = "waiting")
    BY <1>5, <2>4 DEF StackInv
  <2>6. CASE x = s
    <3>1. CleanFinish(t)
      BY <1>1, <1>5, <2>2, <2>6 DEF CleanFinish
    <3>2. CASE Leaves(node[s], rec)
      <4>1. node[s].pc \in Over \ {"killed"} /\ rec.failure = node[s].failure
        BY <2>5, <2>6, <3>2, PlaceFacts DEF Leaves
      <4> QED BY <1>1, <1>5, <2>1, <2>6, <3>1, <4>1 DEF FailureInv
    <3>3. CASE ~Leaves(node[s], rec)
      <4>1. node[s].pc = "waiting" /\ (BreaksOff(s, rec) \/ Returns(s, rec))
        BY <2>5, <2>6, <3>3, PlaceFacts
           DEF Moves, GoesOn, Secures, Completes, Fails, BreaksOff, Returns
      <4>2. Continuation(s) \in Session /\ Later(s, Continuation(s))
        BY <4>1, ChainFacts, SessionFacts DEF SessionsInv
      <4>3. Returns(s, rec)
        BY <2>1, <2>6, <4>1, <4>2, PlaceFacts DEF BreaksOff
      <4>4. node[Continuation(s)].failure = NoSession
        <5>1. CASE t = Continuation(s)
          BY <3>1, <5>1 DEF CleanFinish
        <5>2. CASE Later(Continuation(s), t)
          <6>1. \A u \in Session : u = Continuation(s) \/ Later(Continuation(s), u) =>
                   node[u].raised = "none"
            BY <2>1, <2>6, <4>2, ChainFacts
          <6>2. node[Continuation(s)].pc \in Over \ {"killed"}
            BY <4>3, PlaceFacts DEF Returns
          <6> QED BY <3>1, <4>2, <5>2, <6>1, <6>2 DEF FailureInv
        <5> QED BY <1>5, <2>6, <5>1, <5>2, ChainFacts
      <4> QED BY <1>1, <2>6, <4>3, <4>4 DEF Returns
    <3> QED BY <3>2, <3>3
  <2>7. CASE x # s
    <3>1. node'[x] = node[x]
      BY <1>1, <2>7
    <3>2. t # s
      BY <1>1, <1>5, <2>5, <3>1, PlaceFacts DEF Live
    <3>3. CleanFinish(t)
      BY <1>1, <1>5, <3>2 DEF CleanFinish
    <3> QED BY <1>5, <2>1, <3>1, <3>3 DEF FailureInv
  <2> QED BY <2>6, <2>7
<1> QED BY <1>4, <1>5 DEF FailureInv

(* A session of the command line starts a stack of its own. *)
LEMMA MainJoins ==
  ASSUME SessionsInv, StackInv, FailureInv, NEW r \in Run, node[Main(r)].pc = "off",
         NEW budget, NEW step, NEW level, NEW conv, NEW source \in Session \cup {NoSession},
         source # NoSession => /\ node[source].pc # "off"
                               /\ ResumeLive \/ ~Live(source),
         node' = [node EXCEPT ![Main(r)] = Built(budget, step, level, conv, source)]
  PROVE  StackInv' /\ FailureInv'
<1> DEFINE rec == Built(budget, step, level, conv, source)
           m == Main(r)
<1>1. /\ rec.pc = "opening" /\ rec.failure = NoSession /\ rec.didReset = FALSE
      /\ rec.stop = "max_steps" /\ rec.source = source
  BY DEF Built
<1>2. m \in Session /\ \A t \in Session : node'[t] = IF t = m THEN rec ELSE node[t]
  BY SessionFacts DEF SessionsInv
<1>3. /\ \A t \in Session : Later(m, t) => node[t].pc = "off"
      /\ \A t \in Session : ~Later(t, m) /\ ~Later(m, m) /\ m[2] = 0
  <2>1. \A t \in Session : Later(m, t) => node[t].pc = "off"
    BY <1>2, PlaceFacts DEF StackInv
  <2> QED BY <1>2, <2>1, ChainFacts
<1>4. \A t \in Session : /\ node[t].source \in Session \cup {NoSession}
                         /\ node[t].failure \in Session \cup {NoSession}
  BY DEF SessionsInv, AgentRecord
<1> HIDE DEF rec, m
<1>5. StackInv'
  <2>1. ASSUME NEW t \in Session
        PROVE  /\ node'[t].pc = "off" => node'[t] = NotCreated
               /\ node'[t].pc \in {"spawning", "waiting"} =>
                    node'[t].didReset /\ node'[t].stop = "context_reset"
               /\ node'[t].didReset => /\ node'[t].pc \in {"spawning"} \cup HandedOver
                                       /\ ~CleanFinish(t)'
    BY <1>1, <1>2 DEF StackInv, CleanFinish
  <2>2. ASSUME NEW t \in Session, NEW u \in Session, Later(t, u), node'[u].pc # "off"
        PROVE  /\ node'[t].didReset /\ node'[t].pc \in HandedOver
               /\ Live(u)' => node'[t].pc = "waiting"
               /\ node'[u].pc = "killed" => node'[t].pc = "killed"
    <3>1. node'[t] = node[t] /\ node'[u] = node[u]
      BY <1>2, <1>3, <2>2
    <3> QED BY <2>2, <3>1 DEF StackInv, Live
  <2>3. ASSUME NEW t \in Session, node'[t].source # NoSession
        PROVE  /\ t[2] = 0 /\ node'[t].source # t /\ node'[node'[t].source].pc # "off"
               /\ ResumeLive \/ ~(node'[node'[t].source].pc \notin {"off", "ended", "killed"})
    <3>1. CASE t = m
      <4>1. source \in Session /\ source # m
        BY <1>1, <1>2, <2>3, <3>1 DEF m
      <4> QED BY <1>1, <1>2, <1>3, <2>3, <3>1, <4>1 DEF Live
    <3>2. CASE t # m
      <4>1. node'[t] = node[t] /\ node[t].source \in Session /\ node[t].source # m
        BY <1>2, <1>4, <2>3, <3>2 DEF StackInv, m
      <4> QED BY <1>2, <2>3, <3>2, <4>1 DEF StackInv, Live
    <3> QED BY <3>1, <3>2
  <2> QED BY <2>1, <2>2, <2>3 DEF StackInv, Live
<1>6. FailureInv'
  <2>1. ASSUME NEW t \in Session, node'[t].failure # NoSession
        PROVE  LET failed == node'[t].failure
               IN  /\ node'[failed].failure = failed /\ node'[failed].pc \in Over
                   /\ ~node'[failed].didReset
    <3>1. t # m /\ node'[t] = node[t] /\ node[t].failure \in Session
      BY <1>1, <1>2, <1>4, <2>1
    <3>2. node[t].failure # m
      BY <2>1, <3>1, PlaceFacts DEF FailureInv, m
    <3> QED BY <1>2, <2>1, <3>1, <3>2 DEF FailureInv
  <2>2. ASSUME NEW x \in Session, NEW t \in Session, Later(x, t),
               node'[x].pc \in Over \ {"killed"}, CleanFinish(t)',
               \A u \in Session : u = x \/ Later(x, u) => node'[u].raised = "none"
        PROVE  node'[x].failure = NoSession
    <3>1. x # m /\ t # m /\ node'[x] = node[x] /\ CleanFinish(t)
      BY <1>1, <1>2, <1>3, <2>2, PlaceFacts DEF CleanFinish
    <3>2. \A u \in Session : u = x \/ Later(x, u) => node[u].raised = "none"
      BY <1>2, <1>3, <2>2, <3>1
    <3> QED BY <2>2, <3>1, <3>2 DEF FailureInv
  <2> QED BY <2>1, <2>2 DEF FailureInv
<1> QED BY <1>5, <1>6

(* A continuation joins the stack above its parent, which waits. *)
LEMMA ContinuationJoins ==
  ASSUME SessionsInv, StackInv, FailureInv, NEW s \in Session, SpawnContinuation(s)
  PROVE  /\ Continuation(s) \in Session /\ Continuation(s) # s
         /\ node[Continuation(s)].pc = "off" /\ node[s].pc = "spawning"
         /\ \A t \in Session :
              /\ t \notin {s, Continuation(s)} => node'[t] = node[t]
              /\ t = s => node'[t] = [node[s] EXCEPT !.pc = "waiting"]
         /\ node'[Continuation(s)].pc = "opening"
         /\ node'[Continuation(s)].conv = node[s].conv
         /\ node'[Continuation(s)].source = NoSession
         /\ node'[Continuation(s)].didReset = FALSE
         /\ StackInv' /\ FailureInv'
<1> DEFINE c == Continuation(s)
<1>1. node[s].pc = "spawning" /\ s[2] < MaxDepth /\ c \in Session /\ Later(s, c) /\ s # c
  BY SessionFacts, ChainFacts DEF SpawnContinuation
<1>2. node[c].pc = "off"
  BY <1>1, PlaceFacts DEF StackInv
<1>3. PICK level \in Opening :
        node' = [node EXCEPT
          ![s].pc = "waiting",
          ![c] = Built(RemainingBudget(s), 0, level, node[s].conv, NoSession)]
  BY DEF SpawnContinuation
<1> DEFINE new == Built(RemainingBudget(s), 0, level, node[s].conv, NoSession)
           old == [node[s] EXCEPT !.pc = "waiting"]
<1>4. /\ new.pc = "opening" /\ new.conv = node[s].conv /\ new.source = NoSession
      /\ new.didReset = FALSE /\ new.failure = NoSession /\ new.stop = "max_steps"
  BY DEF Built
<1>5. node[s] \in AgentRecord
  BY DEF SessionsInv
<1>6. /\ old.pc = "waiting" /\ old.conv = node[s].conv /\ old.source = node[s].source
      /\ old.didReset = node[s].didReset /\ old.failure = node[s].failure
      /\ old.stop = node[s].stop /\ old.raised = node[s].raised
  BY <1>5 DEF AgentRecord
<1>7. \A t \in Session : node'[t] = IF t = c THEN new ELSE IF t = s THEN old ELSE node[t]
  BY <1>1, <1>3 DEF SessionsInv
<1>8. \A t \in Session : /\ node[t].source \in Session \cup {NoSession}
                         /\ node[t].failure \in Session \cup {NoSession}
  BY DEF SessionsInv, AgentRecord
<1> HIDE DEF c, new, old
<1>9. /\ \A t \in Session : Later(c, t) => node[t].pc = "off" /\ t # c /\ t # s
      /\ \A t \in Session : Later(s, t) => t = c \/ Later(c, t)
      /\ \A t \in Session : Later(t, c) => t = s \/ (Later(t, s) /\ node[t].pc = "waiting")
      /\ \A t \in Session : Later(t, s) =>
            t # s /\ t # c /\ node[t].pc = "waiting" /\ node[t].didReset
  <2>1. ASSUME NEW t \in Session, Later(c, t)
        PROVE  node[t].pc = "off" /\ t # c /\ t # s
    BY <1>1, <1>2, <2>1, ChainFacts, PlaceFacts DEF StackInv
  <2>2. \A t \in Session : Later(s, t) => t = c \/ Later(c, t)
    BY <1>1, ChainFacts DEF c
  <2>3. ASSUME NEW t \in Session, Later(t, s)
        PROVE  t # s /\ t # c /\ node[t].pc = "waiting" /\ node[t].didReset
    BY <1>1, <2>3, ChainFacts DEF StackInv, Live
  <2>4. \A t \in Session : Later(t, c) => t = s \/ Later(t, s)
    BY <1>1, ChainFacts DEF c
  <2> QED BY <2>1, <2>2, <2>3, <2>4
<1>10. StackInv'
  <2>0. node[s].didReset /\ node[s].stop = "context_reset" /\ ~CleanFinish(s)
    BY <1>1 DEF StackInv
  <2>1. ASSUME NEW t \in Session
        PROVE  /\ node'[t].pc = "off" => node'[t] = NotCreated
               /\ node'[t].pc \in {"spawning", "waiting"} =>
                    node'[t].didReset /\ node'[t].stop = "context_reset"
               /\ node'[t].didReset => /\ node'[t].pc \in {"spawning"} \cup HandedOver
                                       /\ ~CleanFinish(t)'
    <3>1. CASE t = c
      BY <1>4, <1>7, <3>1
    <3>2. CASE t = s
      <4>1. node'[t] = old
        BY <1>1, <1>7, <3>2
      <4>2. ~CleanFinish(t)'
        BY <1>6, <2>0, <3>2, <4>1 DEF CleanFinish
      <4> QED BY <1>6, <2>0, <4>1, <4>2, PlaceFacts
    <3>3. CASE t # c /\ t # s
      <4>1. node'[t] = node[t]
        BY <1>7, <3>3
      <4> QED BY <4>1 DEF StackInv, CleanFinish
    <3> QED BY <3>1, <3>2, <3>3
  <2>2. ASSUME NEW t \in Session, NEW u \in Session, Later(t, u), node'[u].pc # "off"
        PROVE  /\ node'[t].didReset /\ node'[t].pc \in HandedOver
               /\ Live(u)' => node'[t].pc = "waiting"
               /\ node'[u].pc = "killed" => node'[t].pc = "killed"
    <3>1. CASE u = c
      BY <1>1, <1>4, <1>6, <1>7, <1>9, <2>0, <2>2, <3>1, PlaceFacts
    <3>2. CASE u = s
      BY <1>1, <1>6, <1>7, <1>9, <2>2, <3>2, PlaceFacts
    <3>3. CASE u # c /\ u # s
      <4>1. node'[u] = node[u] /\ t # c /\ t # s
        BY <1>7, <1>9, <2>2, <3>3
      <4>2. node'[t] = node[t]
        BY <1>7, <4>1
      <4> QED BY <2>2, <4>1, <4>2 DEF StackInv, Live
    <3> QED BY <3>1, <3>2, <3>3
  <2>3. ASSUME NEW t \in Session, node'[t].source # NoSession
        PROVE  /\ t[2] = 0 /\ node'[t].source # t /\ node'[node'[t].source].pc # "off"
               /\ ResumeLive \/ ~(node'[node'[t].source].pc \notin {"off", "ended", "killed"})
    <3>1. t # c /\ node'[t].source = node[t].source /\ node[t].source \in Session
      BY <1>4, <1>6, <1>7, <1>8, <2>3
    <3>2. /\ t[2] = 0 /\ node[t].source # t /\ node[node[t].source].pc # "off"
          /\ ResumeLive \/ ~Live(node[t].source)
      BY <2>3, <3>1 DEF StackInv
    <3>3. node[t].source # c
      BY <1>2, <3>2
    <3>4. node[t].source = s => ResumeLive
      BY <1>1, <3>2 DEF Live
    <3> QED BY <1>6, <1>7, <3>1, <3>2, <3>3, <3>4 DEF Live
  <2> QED BY <2>1, <2>2, <2>3 DEF StackInv, Live
<1>11. FailureInv'
  <2>1. ASSUME NEW t \in Session, node'[t].failure # NoSession
        PROVE  LET failed == node'[t].failure
               IN  /\ node'[failed].failure = failed /\ node'[failed].pc \in Over
                   /\ ~node'[failed].didReset
    <3>1. node'[t].failure = node[t].failure /\ node[t].failure \in Session
      BY <1>4, <1>6, <1>7, <1>8, <2>1
    <3>2. LET failed == node[t].failure
          IN  /\ node[failed].failure = failed /\ node[failed].pc \in Over
              /\ ~node[failed].didReset
      BY <2>1, <3>1 DEF FailureInv
    <3>3. node[t].failure # c /\ node[t].failure # s
      BY <1>1, <1>2, <3>2, PlaceFacts
    <3> QED BY <1>7, <3>1, <3>2, <3>3
  <2>2. ASSUME NEW x \in Session, NEW t \in Session, Later(x, t),
               node'[x].pc \in Over \ {"killed"}, CleanFinish(t)',
               \A u \in Session : u = x \/ Later(x, u) => node'[u].raised = "none"
        PROVE  node'[x].failure = NoSession
    <3>1. x # c /\ x # s /\ node'[x] = node[x]
      BY <1>4, <1>6, <1>7, <2>2, PlaceFacts
    <3>2. ~Later(x, s) /\ ~Later(x, c)
      BY <1>9, <2>2, <3>1, PlaceFacts
    <3>3. node'[t] = node[t] /\ CleanFinish(t)
      BY <1>7, <2>2, <3>2 DEF CleanFinish
    <3>4. \A u \in Session : u = x \/ Later(x, u) => node[u].raised = "none"
      BY <1>7, <2>2, <3>1, <3>2
    <3> QED BY <2>2, <3>1, <3>3, <3>4 DEF FailureInv
  <2> QED BY <2>1, <2>2 DEF FailureInv
<1> QED
  BY <1>1, <1>2, <1>4, <1>7, <1>10, <1>11 DEF c, old

(* kill -9 takes the whole stack of a process. *)
LEMMA KillStack ==
  ASSUME SessionsInv, StackInv, FailureInv, NEW r \in Run, Kill(r)
  PROVE  /\ \A t \in Session :
              /\ node'[t].conv = node[t].conv /\ node'[t].source = node[t].source
              /\ node'[t].didReset = node[t].didReset /\ node'[t].raised = node[t].raised
              /\ node'[t].failure = node[t].failure /\ node'[t].stop = node[t].stop
              /\ \/ node'[t] = node[t] /\ (t[1] = r => ~Live(t))
                 \/ t[1] = r /\ Live(t) /\ node'[t].pc = "killed"
         /\ StackInv' /\ FailureInv'
<1>1. \A t \in Session :
        /\ node'[t].conv = node[t].conv /\ node'[t].source = node[t].source
        /\ node'[t].didReset = node[t].didReset /\ node'[t].raised = node[t].raised
        /\ node'[t].failure = node[t].failure /\ node'[t].stop = node[t].stop
        /\ \/ node'[t] = node[t] /\ (t[1] = r => ~Live(t))
           \/ t[1] = r /\ Live(t) /\ node'[t].pc = "killed"
  <2> TAKE t \in Session
  <2>1. node'[t] = IF t[1] = r /\ Live(t) THEN [node[t] EXCEPT !.pc = "killed"] ELSE node[t]
    BY DEF Kill
  <2>2. node[t] \in AgentRecord
    BY DEF SessionsInv
  <2> QED BY <2>1, <2>2, SMT DEF AgentRecord
<1>2. \A t \in Session : /\ node[t].source \in Session \cup {NoSession}
                         /\ node[t].failure \in Session \cup {NoSession}
  BY DEF SessionsInv, AgentRecord
<1>3. StackInv'
  <2>1. ASSUME NEW t \in Session
        PROVE  /\ node'[t].pc = "off" => node'[t] = NotCreated
               /\ node'[t].pc \in {"spawning", "waiting"} =>
                    node'[t].didReset /\ node'[t].stop = "context_reset"
               /\ node'[t].didReset => /\ node'[t].pc \in {"spawning"} \cup HandedOver
                                       /\ ~CleanFinish(t)'
    BY <1>1, PlaceFacts DEF StackInv, CleanFinish
  <2>2. ASSUME NEW t \in Session, NEW u \in Session, Later(t, u), node'[u].pc # "off"
        PROVE  /\ node'[t].didReset /\ node'[t].pc \in HandedOver
               /\ Live(u)' => node'[t].pc = "waiting"
               /\ node'[u].pc = "killed" => node'[t].pc = "killed"
    <3>1. t[1] = u[1] /\ node[u].pc # "off"
      BY <1>1, <2>2 DEF Later, Live
    <3>2. /\ node[t].didReset /\ node[t].pc \in HandedOver
          /\ Live(u) => node[t].pc = "waiting"
          /\ node[u].pc = "killed" => node[t].pc = "killed"
      BY <2>2, <3>1 DEF StackInv
    <3>3. CASE node'[u] = node[u]
      BY <1>1, <3>1, <3>2, <3>3, PlaceFacts DEF Live
    <3>4. CASE node'[u] # node[u]
      <4>1. u[1] = r /\ Live(u) /\ node'[u].pc = "killed"
        BY <1>1, <3>4
      <4>2. t[1] = r /\ Live(t)
        BY <3>1, <3>2, <4>1 DEF Live
      <4> QED BY <1>1, <3>2, <4>1, <4>2, PlaceFacts DEF Live
    <3> QED BY <3>3, <3>4
  <2>3. ASSUME NEW t \in Session, node'[t].source # NoSession
        PROVE  /\ t[2] = 0 /\ node'[t].source # t /\ node'[node'[t].source].pc # "off"
               /\ ResumeLive \/ ~(node'[node'[t].source].pc \notin {"off", "ended", "killed"})
    <3>1. node'[t].source = node[t].source /\ node[t].source \in Session
      BY <1>1, <1>2, <2>3
    <3>2. /\ t[2] = 0 /\ node[t].source # t /\ node[node[t].source].pc # "off"
          /\ ResumeLive \/ ~Live(node[t].source)
      BY <2>3, <3>1 DEF StackInv
    <3> QED BY <1>1, <3>1, <3>2 DEF Live
  <2> QED BY <2>1, <2>2, <2>3 DEF StackInv, Live
<1>4. FailureInv'
  <2>1. ASSUME NEW t \in Session, node'[t].failure # NoSession
        PROVE  LET failed == node'[t].failure
               IN  /\ node'[failed].failure = failed /\ node'[failed].pc \in Over
                   /\ ~node'[failed].didReset
    BY <1>1, <1>2, <2>1, PlaceFacts DEF FailureInv
  <2>2. ASSUME NEW x \in Session, NEW t \in Session, Later(x, t),
               node'[x].pc \in Over \ {"killed"}, CleanFinish(t)',
               \A u \in Session : u = x \/ Later(x, u) => node'[u].raised = "none"
        PROVE  node'[x].failure = NoSession
    BY <1>1, <2>2, PlaceFacts DEF FailureInv, CleanFinish
  <2> QED BY <2>1, <2>2 DEF FailureInv
<1> QED BY <1>1, <1>3, <1>4

-----------------------------------------------------------------------------
(* What a move does to the disk: it saves, settles, or leaves it alone.     *)
OnTheDisk(s, rec) ==
  \/ /\ ReplaceCheckpoint(s) /\ GoesOn(node[s], rec)
  \/ /\ SettleOwn(s) \/ SettleSource(s)
     /\ Leaves(node[s], rec) /\ rec.raised = node[s].raised
     /\ SettleOwn(s) => rec.pc = "sweep"
     /\ SettleSource(s) => rec.pc = "ended"
  \/ /\ UNCHANGED <<ckpt, clock, durable>>
     /\ node[s].pc = "replace" => rec.pc = "finally"
     /\ rec.pc # "sweep" /\ (rec.pc = "ended" => rec.raised # "none")

LEMMA MoveDisk ==
  ASSUME SessionsInv, NEW s \in Session, NEW rec, Moves(s, rec),
         (Progress(s) /\ ~SpawnContinuation(s)) \/ Interrupt(s) \/ RaiseError(s)
  PROVE  OnTheDisk(s, rec)
<1>1. node[s] \in AgentRecord /\ node'[s] = rec
  BY MoveFacts DEF SessionsInv
<1>2. CASE ReplaceCheckpoint(s)
  <2>1. rec = [node[s] EXCEPT !.pc = LoopPlace(s, node[s].signal)]
    BY <1>1, <1>2 DEF ReplaceCheckpoint, SessionsInv
  <2>2. GoesOn(node[s], rec)
    BY <1>1, <1>2, <2>1, LoopPlaces DEF ReplaceCheckpoint, GoesOn, AgentRecord
  <2> QED BY <1>2, <2>2 DEF OnTheDisk
<1>3. CASE SettleOwn(s)
  <2>1. rec = [node[s] EXCEPT !.pc = "sweep"] /\ ~SettleSource(s)
    BY <1>1, <1>3 DEF SettleOwn, SettleSource, SessionsInv
  <2>2. Leaves(node[s], rec) /\ rec.raised = node[s].raised /\ rec.pc = "sweep"
    BY <1>1, <1>3, <2>1 DEF SettleOwn, Leaves, AgentRecord
  <2> QED BY <1>3, <2>1, <2>2 DEF OnTheDisk
<1>4. CASE SettleSource(s)
  <2>1. rec = [node[s] EXCEPT !.pc = "ended"] /\ ~SettleOwn(s)
    BY <1>1, <1>4 DEF SettleSource, SettleOwn, SessionsInv
  <2>2. Leaves(node[s], rec) /\ rec.raised = node[s].raised /\ rec.pc = "ended"
    BY <1>1, <1>4, <2>1 DEF SettleSource, Leaves, AgentRecord
  <2> QED BY <1>4, <2>1, <2>2 DEF OnTheDisk
<1>5. CASE Interrupt(s) \/ RaiseError(s)
  <2>1. /\ UNCHANGED <<ckpt, clock, durable>>
        /\ \/ node[s].pc \in InTry /\ rec.pc = "finally"
           \/ node[s].pc \in OutsideTry /\ rec.pc = "ended" /\ rec.raised # "none"
    BY <1>1, <1>5 DEF Interrupt, RaiseError, SessionsInv, AgentRecord
  <2> QED BY <2>1, PlaceFacts DEF OnTheDisk
<1>6. CASE /\ Progress(s) /\ ~SpawnContinuation(s) /\ ~ReplaceCheckpoint(s)
           /\ ~SettleOwn(s) /\ ~SettleSource(s)
  <2>1. UNCHANGED <<ckpt, clock, durable>>
    BY <1>6 DEF Progress, Enter, GuardPasses, GuardStops, GuardResets,
         HandoffFails, SecureHandoff, CallLLM, LLMCallFails,
         ReportFails, CompleteStep, WriteTemp, ReturnFromContinuation
  <2>2. node[s].pc \notin {"replace", "finally", "sweep"}
    BY <1>6 DEF Progress, Enter, GuardPasses, GuardStops, GuardResets,
         HandoffFails, SecureHandoff, CallLLM, LLMCallFails,
         ReportFails, CompleteStep, WriteTemp, ReturnFromContinuation
  <2>3. node[s].pc # "opening" => rec.pc \notin {"sweep", "ended"}
    BY <2>2, PlaceFacts
       DEF Moves, GoesOn, Secures, Completes, Fails, BreaksOff, Returns, Leaves
  <2>4. node[s].pc = "opening" => rec.pc \in {"guard", "finally"}
    <3>1. ASSUME node[s].pc = "opening"
          PROVE  rec.pc \in {"guard", "finally"}
      <4>1. Enter(s)
        BY <1>6, <3>1 DEF Progress, GuardPasses, GuardStops, GuardResets,
             HandoffFails, SecureHandoff, CallLLM, LLMCallFails,
             ReportFails, CompleteStep, WriteTemp, ReturnFromContinuation
      <4>2. rec = [node[s] EXCEPT !.pc = LoopPlace(s, "CONTINUE")]
        BY <1>1, <4>1 DEF Enter, SessionsInv
      <4> QED BY <1>1, <4>2, LoopPlaces DEF AgentRecord
    <3> QED BY <3>1
  <2> QED BY <2>1, <2>2, <2>3, <2>4 DEF OnTheDisk
<1> QED BY <1>2, <1>3, <1>4, <1>5, <1>6

(* Steps and records name sessions. *)
LEMMA StepTypes ==
  ASSUME Base
  PROVE  /\ \A w \in durable : w[1] \in Session
         /\ \A s \in Session : \A w \in node[s].conv : w[1] \in Session
         /\ \A s \in Session : node[s].source \in Session \cup {NoSession}
BY DEF Base, SessionsInv, DiskInv, AgentRecord, Step

(* Once superseded, for good. *)
LEMMA StaysSuperseded ==
  ASSUME Base, StackInv, NEW s \in Session, NEW rec, Moves(s, rec),
         NEW t \in Session, Superseded(t)
  PROVE  Superseded(t)'
<1>1. /\ \A u \in Session : node'[u] = IF u = s THEN rec ELSE node[u]
      /\ node[s].pc \notin {"off", "ended", "killed"} /\ rec.source = node[s].source
  BY MoveFacts DEF Base
<1>2. CASE CleanFinish(t) /\ node[t].pc \in Over \ {"finally"}
  <2>1. ASSUME t = s
        PROVE  rec.pc = "ended" /\ rec.stop = node[s].stop /\ rec.failure = node[s].failure
    <3>1. node[s].pc = "sweep"
      BY <1>1, <1>2, <2>1, PlaceFacts
    <3> QED BY <3>1, PlaceFacts
         DEF Moves, GoesOn, Secures, Completes, Fails, BreaksOff, Returns, Leaves
  <2> QED BY <1>1, <1>2, <2>1, PlaceFacts DEF Superseded, CleanFinish
<1>3. CASE \E r \in Run : /\ node[Main(r)].source = t /\ Ended(Main(r))
                           /\ DropsSource(Main(r))
  <2>1. PICK r \in Run : node[Main(r)].source = t /\ Ended(Main(r)) /\ DropsSource(Main(r))
    BY <1>3
  <2>2. Main(r) \in Session /\ Main(r) # s
    BY <1>1, <2>1, SessionFacts DEF Ended
  <2>3. node'[Main(r)] = node[Main(r)]
    BY <1>1, <2>2
  <2> QED BY <2>1, <2>3 DEF Superseded, Ended, DropsSource, CleanFinish
<1> QED BY <1>2, <1>3 DEF Superseded

(* A move keeps the completed steps where they are to be found. *)
LEMMA StepsMove ==
  ASSUME Base, StackInv, StepsInv, NEW s \in Session, NEW rec, Moves(s, rec),
         OnTheDisk(s, rec)
  PROVE  StepsInv'
<1>1. /\ \A t \in Session : node'[t] = IF t = s THEN rec ELSE node[t]
      /\ rec.source = node[s].source /\ (node[s].didReset => rec.didReset)
      /\ node[s].conv \subseteq rec.conv
  BY MoveFacts DEF Base
<1>2. /\ \A w \in durable : w[1] \in Session /\ w \in node[w[1]].conv
      /\ \A t \in Session : \A w \in node[t].conv :
            w[1] \in Session /\ (w[1] # t => w \in durable /\ w \in node[w[1]].conv)
  BY StepTypes DEF StepsInv
<1>3. /\ \A w \in durable : w \in node'[w[1]].conv
      /\ \A t \in Session : node[t].conv \subseteq node'[t].conv
  BY <1>1, <1>2
<1>4. \A t \in Session : Superseded(t) => Superseded(t)'
  BY StaysSuperseded
<1>5. CASE /\ UNCHANGED <<ckpt, clock, durable>>
           /\ node[s].pc = "replace" => rec.pc = "finally"
  <2>1. \/ rec.conv = node[s].conv
        \/ rec.conv = node[s].conv \cup {<<s, node[s].step>>}
    <3>1. CASE Completes(s, rec)
      BY <3>1 DEF Completes
    <3>2. CASE ~Completes(s, rec)
      BY <3>2 DEF Moves, GoesOn, Secures, Fails, BreaksOff, Returns, Leaves
    <3> QED BY <3>1, <3>2
  <2>2. \A t \in Session : \A w \in node'[t].conv :
           w \in node[t].conv \/ (t = s /\ w[1] = s)
    BY <1>1, <2>1
  <2>3. ASSUME NEW t \in Session
        PROVE  \A w \in node'[t].conv : w[1] # t => w \in durable /\ w \in node'[w[1]].conv
    BY <1>2, <1>3, <2>2
  <2>4. ASSUME rec.pc \in {"opening", "guard", "handoff", "spawning", "waiting", "llm", "tools"}
        PROVE  rec.conv \subseteq durable
    <3>1. /\ node[s].pc \in {"opening", "guard", "handoff", "spawning", "waiting", "llm", "tools"}
          /\ rec.conv = node[s].conv
      BY <1>5, <2>4, PlaceFacts
         DEF Moves, GoesOn, Secures, Completes, Fails, BreaksOff, Returns, Leaves
    <3> QED BY <3>1 DEF StepsInv
  <2>5. ASSUME NEW t \in Session
        PROVE  /\ node'[t].pc \in {"opening", "guard", "handoff", "spawning", "waiting",
                                   "llm", "tools"} => node'[t].conv \subseteq durable
               /\ ckpt[t].status # "torn" /\ ckpt[t].conv \subseteq durable \cap node'[t].conv
               /\ Readable(t) => durable \cap node'[t].conv \subseteq ckpt[t].conv
               /\ Saved(t) /\ ~node'[t].didReset => Readable(t) \/ Superseded(t)'
    <3>1. durable \cap node'[t].conv \subseteq node[t].conv
      BY <1>2, <2>2
    <3> QED BY <1>1, <1>3, <1>4, <2>4, <3>1 DEF StepsInv
  <2> QED BY <1>3, <1>5, <2>3, <2>5 DEF StepsInv, Readable, Saved
<1>6. CASE ReplaceCheckpoint(s) /\ GoesOn(node[s], rec)
  <2>1. /\ durable' = durable \cup node[s].conv
        /\ \A t \in Session : t # s => ckpt'[t] = ckpt[t]
        /\ ckpt'[s].status = "intact" /\ ckpt'[s].conv = node[s].conv
    BY <1>6 DEF ReplaceCheckpoint, Base, DiskInv
  <2>2. \A t \in Session : node'[t].conv = node[t].conv /\ node'[t].didReset = node[t].didReset
    BY <1>1, <1>6 DEF GoesOn
  <2>3. \A w \in durable' : w \in node'[w[1]].conv
    BY <1>2, <1>3, <2>1, <2>2
  <2>4. ASSUME NEW t \in Session, t # s
        PROVE  \A w \in durable' : w[1] = t \/ w \in node[t].conv => w \in durable
    BY <1>2, <2>1, <2>4
  <2>5. ASSUME NEW t \in Session
        PROVE  /\ \A w \in node'[t].conv : w[1] # t => w \in durable' /\ w \in node'[w[1]].conv
               /\ node'[t].pc \in {"opening", "guard", "handoff", "spawning", "waiting",
                                   "llm", "tools"} => node'[t].conv \subseteq durable'
               /\ ckpt'[t].status # "torn" /\ ckpt'[t].conv \subseteq durable' \cap node'[t].conv
               /\ Readable(t)' => durable' \cap node'[t].conv \subseteq ckpt'[t].conv
               /\ Saved(t)' /\ ~node'[t].didReset => Readable(t)' \/ Superseded(t)'
    <3>1. \A w \in node'[t].conv : w[1] # t => w \in durable' /\ w \in node'[w[1]].conv
      BY <1>2, <2>1, <2>2
    <3>2. CASE t = s
      BY <2>1, <2>2, <3>1, <3>2 DEF Readable
    <3>3. CASE t # s
      <4>1. Saved(t)' => Saved(t)
        BY <2>4, <3>3 DEF Saved
      <4>2. durable' \cap node'[t].conv \subseteq durable \cap node[t].conv
        BY <2>2, <2>4, <3>3
      <4> QED BY <1>1, <1>4, <2>1, <2>2, <3>1, <3>3, <4>1, <4>2 DEF StepsInv, Readable
    <3> QED BY <3>2, <3>3
  <2> QED BY <2>3, <2>5 DEF StepsInv
<1>7. CASE /\ SettleOwn(s) \/ SettleSource(s)
           /\ Leaves(node[s], rec) /\ rec.raised = node[s].raised
           /\ SettleOwn(s) => rec.pc = "sweep"
           /\ SettleSource(s) => rec.pc = "ended"
  <2>1. durable' = durable
    BY <1>7 DEF SettleOwn, SettleSource
  <2>2. /\ \A t \in Session : node'[t].conv = node[t].conv /\ node'[t].didReset = node[t].didReset
        /\ rec.pc \in {"sweep", "ended"} /\ rec.stop = node[s].stop /\ rec.failure = node[s].failure
    BY <1>1, <1>7 DEF Leaves
  <2>3. ASSUME NEW t \in Session
        PROVE  \/ ckpt'[t] = ckpt[t]
               \/ ckpt'[t] = Absent /\ (node[t].didReset \/ Superseded(t)')
    <3>1. CASE SettleOwn(s)
      <4>1. ckpt'[t] = ckpt[t] \/ (t = s /\ DropsOwn(s) /\ ckpt'[t] = Absent)
        BY <3>1 DEF SettleOwn, Base, DiskInv
      <4>2. CleanFinish(s) => Superseded(s)'
        BY <1>1, <1>7, <2>2, <3>1, PlaceFacts DEF CleanFinish, Superseded
      <4> QED BY <4>1, <4>2 DEF DropsOwn
    <3>2. CASE SettleSource(s)
      <4>1. ckpt'[t] = ckpt[t] \/ (DropsSource(s) /\ t = node[s].source /\ ckpt'[t] = Absent)
        BY <3>2 DEF SettleSource, Base, DiskInv
      <4>2. ASSUME DropsSource(s), t = node[s].source
            PROVE  Superseded(t)'
        <5>1. s = Main(s[1]) /\ s[1] \in Run
          BY <4>2, ChainFacts, SessionFacts DEF DropsSource, StackInv
        <5>2. node'[s].source = t /\ node'[s].pc = "ended" /\ DropsSource(s)'
          BY <1>1, <1>7, <2>2, <3>2, <4>2 DEF DropsSource, CleanFinish
        <5> QED BY <5>1, <5>2 DEF Superseded, Ended
      <4> QED BY <4>1, <4>2
    <3> QED BY <1>7, <3>1, <3>2
  <2>4. ASSUME NEW t \in Session
        PROVE  /\ \A w \in node'[t].conv : w[1] # t => w \in durable' /\ w \in node'[w[1]].conv
               /\ node'[t].pc \in {"opening", "guard", "handoff", "spawning", "waiting",
                                   "llm", "tools"} => node'[t].conv \subseteq durable'
               /\ ckpt'[t].status # "torn" /\ ckpt'[t].conv \subseteq durable' \cap node'[t].conv
               /\ Readable(t)' => durable' \cap node'[t].conv \subseteq ckpt'[t].conv
               /\ Saved(t)' /\ ~node'[t].didReset => Readable(t)' \/ Superseded(t)'
    <3>1. \A w \in node'[t].conv : w[1] # t => w \in durable' /\ w \in node'[w[1]].conv
      BY <1>2, <2>1, <2>2
    <3>2. node'[t].pc \in {"opening", "guard", "handoff", "spawning", "waiting",
                                   "llm", "tools"} => node'[t].conv \subseteq durable'
      BY <1>1, <2>1, <2>2 DEF StepsInv
    <3>3. CASE ckpt'[t] = ckpt[t]
      BY <1>4, <2>1, <2>2, <3>1, <3>2, <3>3 DEF StepsInv, Readable, Saved
    <3>4. CASE ckpt'[t] = Absent /\ (node[t].didReset \/ Superseded(t)')
      BY <2>2, <3>1, <3>2, <3>4 DEF Readable, Absent
    <3> QED BY <2>3, <3>3, <3>4
  <2> QED BY <1>3, <2>1, <2>4 DEF StepsInv
<1> QED BY <1>5, <1>6, <1>7 DEF OnTheDisk

(* A step that leaves the disk alone, and under which sessions only begin,   *)
(* wait for a continuation or are killed.                                    *)
Begins(t) ==
  /\ node[t] = NotCreated /\ node'[t].pc = "opening"
  /\ node'[t].didReset = FALSE /\ node'[t].conv \subseteq durable
  /\ \A p \in Session : t = Continuation(p) => node'[p].conv \subseteq node'[t].conv
  /\ node'[t].source # NoSession =>
       /\ node'[t].source \in Session /\ node[node'[t].source].pc # "off"
       /\ durable \cap node'[node'[t].source].conv \subseteq node'[t].conv
Keeps(t) ==
  /\ node'[t].level = node[t].level
  /\ node'[t].conv = node[t].conv /\ node'[t].didReset = node[t].didReset
  /\ node'[t].failure = node[t].failure /\ node'[t].stop = node[t].stop
  /\ node'[t].source = node[t].source /\ node'[t].raised = node[t].raised
  /\ \/ node'[t].pc = node[t].pc
     \/ node[t].pc = "spawning" /\ node'[t].pc = "waiting"
     \/ Live(t) /\ node'[t].pc = "killed"
OnlyBegins ==
  /\ \A t \in Session : Begins(t) \/ Keeps(t)
  /\ UNCHANGED <<ckpt, clock, durable>>

(* Such a step keeps the completed steps where they are to be found. *)
LEMMA StepsKept ==
  ASSUME Base, StackInv, StepsInv, OnlyBegins
  PROVE  StepsInv'
<1>1. /\ \A w \in durable : w[1] \in Session /\ w \in node[w[1]].conv
      /\ \A t \in Session : \A w \in node[t].conv :
            w[1] \in Session /\ (w[1] # t => w \in durable /\ w \in node[w[1]].conv)
  BY StepTypes DEF StepsInv
<1>2. /\ durable' = durable /\ ckpt' = ckpt
      /\ \A t \in Session : Begins(t) \/ Keeps(t)
  BY DEF OnlyBegins
<1>3. \A t \in Session : node[t].conv \subseteq node'[t].conv
  BY <1>2, NotCreatedFields DEF Begins, Keeps
<1>4. \A w \in durable : w \in node'[w[1]].conv
  BY <1>1, <1>3
<1>5. ASSUME NEW t \in Session, Superseded(t)
      PROVE  Superseded(t)'
  <2>1. CASE CleanFinish(t) /\ node[t].pc \in Over \ {"finally"}
    <3>1. Keeps(t)
      BY <1>2, <2>1, NotCreatedFields, PlaceFacts DEF Begins
    <3>2. CleanFinish(t)' /\ node'[t].pc \in Over \ {"finally"}
      BY <2>1, <3>1, PlaceFacts DEF Keeps, CleanFinish, Live
    <3> QED BY <3>2 DEF Superseded
  <2>2. CASE \E r \in Run : /\ node[Main(r)].source = t /\ Ended(Main(r))
                             /\ DropsSource(Main(r))
    <3>1. PICK r \in Run : /\ node[Main(r)].source = t /\ node[Main(r)].pc = "ended"
                           /\ DropsSource(Main(r))
      BY <2>2 DEF Ended
    <3>2. Main(r) \in Session /\ Keeps(Main(r))
      BY <1>2, <3>1, SessionFacts, NotCreatedFields DEF Begins
    <3>3. node'[Main(r)].source = t /\ node'[Main(r)].pc = "ended" /\ DropsSource(Main(r))'
      BY <3>1, <3>2 DEF Keeps, Live, DropsSource, CleanFinish
    <3> QED BY <3>3 DEF Superseded, Ended
  <2> QED BY <1>5, <2>1, <2>2 DEF Superseded
<1>6. ASSUME NEW t \in Session
      PROVE  /\ \A w \in node'[t].conv : w[1] # t => w \in durable' /\ w \in node'[w[1]].conv
             /\ node'[t].pc \in {"opening", "guard", "handoff", "spawning", "waiting",
                                 "llm", "tools"} => node'[t].conv \subseteq durable'
             /\ ckpt'[t].status # "torn" /\ ckpt'[t].conv \subseteq durable' \cap node'[t].conv
             /\ Readable(t)' => durable' \cap node'[t].conv \subseteq ckpt'[t].conv
             /\ Saved(t)' /\ ~node'[t].didReset => Readable(t)' \/ Superseded(t)'
  <2>1. CASE Begins(t)
    <3>1. node'[t].conv \subseteq durable /\ node[t].conv = {} /\ node[t].pc = "off"
      BY <2>1, NotCreatedFields DEF Begins
    <3>2. ckpt[t].status # "torn" /\ ckpt[t].conv \subseteq {}
      BY <3>1 DEF StepsInv
    <3>3. ~Readable(t)
      BY <3>1 DEF Readable, OnDisk, Base, DiskInv
    <3>4. ~Saved(t)
      BY <1>1, <3>1 DEF Saved
    <3> QED BY <1>2, <1>4, <3>1, <3>2, <3>3, <3>4 DEF Readable, Saved
  <2>2. CASE Keeps(t)
    <3>1. \A w \in node'[t].conv : w[1] # t => w \in durable' /\ w \in node'[w[1]].conv
      BY <1>1, <1>2, <1>4, <2>2 DEF Keeps
    <3>2. node'[t].pc \in {"opening", "guard", "handoff", "spawning", "waiting",
                           "llm", "tools"} => node'[t].conv \subseteq durable'
      BY <1>2, <2>2 DEF Keeps, StepsInv
    <3> QED BY <1>2, <1>5, <2>2, <3>1, <3>2 DEF Keeps, StepsInv, Readable, Saved
  <2> QED BY <1>2, <2>1, <2>2
<1> QED BY <1>2, <1>4, <1>6 DEF StepsInv

(* And it keeps what was settled. *)
LEMMA SettledKept ==
  ASSUME Base, StackInv, SettledInv, OnlyBegins
  PROVE  SettledInv'
<1>1. ckpt' = ckpt /\ \A t \in Session : Begins(t) \/ Keeps(t)
  BY DEF OnlyBegins
<1>2. ASSUME NEW t \in Session, node'[t].pc = "sweep" \/ node'[t].pc = "ended"
      PROVE  Keeps(t) /\ node'[t].pc = node[t].pc
  BY <1>1, <1>2 DEF Begins, Keeps
<1>3. ASSUME NEW t \in Session
      PROVE  /\ node'[t].pc = "sweep" \/ Returned(t)' => (DropsOwn(t)' => ~OnDisk(t)')
             /\ Returned(t)' /\ DropsSource(t)' => ResumeLive \/ ~(ckpt'[node'[t].source].status # "absent")
  <2>1. CASE node'[t].pc = "sweep" \/ node'[t].pc = "ended"
    <3>1. Keeps(t) /\ node'[t].pc = node[t].pc
      BY <1>2, <2>1
    <3>2. /\ Returned(t)' => Returned(t)
          /\ DropsOwn(t)' => DropsOwn(t)
          /\ DropsSource(t)' => DropsSource(t)
          /\ node'[t].source = node[t].source
      BY <3>1 DEF Keeps, Returned, Ended, DropsOwn, DropsSource, CleanFinish
    <3> QED BY <1>1, <3>1, <3>2 DEF SettledInv, OnDisk
  <2>2. CASE ~(node'[t].pc = "sweep" \/ node'[t].pc = "ended")
    BY <2>2 DEF Returned, Ended
  <2> QED BY <2>1, <2>2
<1>4. ASSUME ~ResumeLive, NEW t \in Session, node'[t].source # NoSession,
             ckpt'[t].status # "absent", ckpt'[node'[t].source].status # "absent"
      PROVE  ckpt'[node'[t].source].mtime < ckpt'[t].mtime
  <2>1. Keeps(t)
    BY <1>1, <1>4, NotCreatedFields DEF Begins, Base, DiskInv, OnDisk
  <2>2. node'[t].source = node[t].source
    BY <2>1 DEF Keeps
  <2> QED BY <1>1, <1>4, <2>2 DEF SettledInv, ResumedIsNewer, OnDisk
<1> QED BY <1>3, <1>4 DEF SettledInv, ResumedIsNewer, OnDisk

(* A move settles what it should and disturbs nothing settled: without       *)
(* --resume of a running session no source is written again.                 *)
LEMMA SettledMove ==
  ASSUME Base, StackInv, SettledInv, NEW s \in Session, NEW rec, Moves(s, rec),
         OnTheDisk(s, rec)
  PROVE  SettledInv'
<1>1. /\ \A t \in Session : node'[t] = IF t = s THEN rec ELSE node[t]
      /\ rec.source = node[s].source /\ node[s].pc \notin {"off", "ended", "killed"}
  BY MoveFacts DEF Base
<1>2. \A t \in Session : node[t].source \in Session \cup {NoSession}
  BY StepTypes
<1>3. \A t \in Session : node'[t].source = node[t].source
  BY <1>1
<1>4. CASE /\ UNCHANGED <<ckpt, clock, durable>>
           /\ rec.pc # "sweep" /\ (rec.pc = "ended" => rec.raised # "none")
  <2>1. ASSUME NEW t \in Session
        PROVE  /\ node'[t].pc = "sweep" \/ Returned(t)' => (DropsOwn(t)' => ~OnDisk(t)')
               /\ Returned(t)' /\ DropsSource(t)' =>
                    ResumeLive \/ ~(ckpt'[node'[t].source].status # "absent")
    <3>1. CASE t = s
      BY <1>1, <1>4, <3>1 DEF Returned, Ended
    <3>2. CASE t # s
      BY <1>1, <1>4, <3>2 DEF SettledInv, Returned, Ended, DropsOwn, DropsSource, CleanFinish, OnDisk
    <3> QED BY <3>1, <3>2
  <2>2. ~ResumeLive => ResumedIsNewer'
    BY <1>3, <1>4 DEF SettledInv, ResumedIsNewer, OnDisk
  <2> QED BY <2>1, <2>2 DEF SettledInv, OnDisk
<1>5. CASE ReplaceCheckpoint(s) /\ GoesOn(node[s], rec)
  <2>1. /\ \A t \in Session : t # s => ckpt'[t] = ckpt[t]
        /\ ckpt'[s].mtime = clock + 1 /\ node[s].pc = "replace"
        /\ rec.pc \in {"guard", "finally"}
    BY <1>5, PlaceFacts DEF ReplaceCheckpoint, GoesOn, Base, DiskInv
  <2>2. \A t \in Session : ckpt[t].mtime \in Nat /\ ckpt[t].mtime <= clock /\ clock \in Nat
    BY DEF Base, DiskInv, CheckpointRecord
  <2>3. \A t \in Session : node[t].source # NoSession => node[t].source # t
    BY DEF StackInv
  <2>4. ~ResumeLive => \A t \in Session : node[t].source # s
    <3>1. ASSUME ~ResumeLive, NEW t \in Session, node[t].source = s
          PROVE  FALSE
      <4>1. ~Live(node[t].source)
        BY <3>1, ConstantsAssumption DEF StackInv
      <4> QED BY <1>1, <3>1, <4>1 DEF Live
    <3> QED BY <3>1
  <2>5. ASSUME NEW t \in Session
        PROVE  /\ node'[t].pc = "sweep" \/ Returned(t)' => (DropsOwn(t)' => ~OnDisk(t)')
               /\ Returned(t)' /\ DropsSource(t)' =>
                    ResumeLive \/ ~(ckpt'[node'[t].source].status # "absent")
    <3>1. CASE t = s
      BY <1>1, <2>1, <3>1 DEF Returned, Ended
    <3>2. CASE t # s
      <4>1. /\ Returned(t)' => Returned(t)
            /\ DropsOwn(t)' => DropsOwn(t)
            /\ DropsSource(t)' => DropsSource(t) /\ node[t].source \in Session
            /\ node'[t] = node[t] /\ ckpt'[t] = ckpt[t]
        BY <1>1, <1>2, <2>1, <3>2 DEF Returned, Ended, DropsOwn, DropsSource, CleanFinish
      <4> QED BY <2>1, <2>4, <4>1 DEF SettledInv, OnDisk
    <3> QED BY <3>1, <3>2
  <2>6. ASSUME ~ResumeLive, NEW t \in Session, node'[t].source # NoSession,
               ckpt'[t].status # "absent", ckpt'[node'[t].source].status # "absent"
        PROVE  ckpt'[node'[t].source].mtime < ckpt'[t].mtime
    <3>1. node'[t].source = node[t].source /\ node[t].source \in Session
      BY <1>2, <1>3, <2>6
    <3>2. node[t].source # s /\ node[t].source # t
      BY <2>3, <2>4, <2>6, <3>1
    <3>3. ckpt'[node[t].source] = ckpt[node[t].source]
      BY <2>1, <3>1, <3>2
    <3>4. CASE t = s
      BY <2>1, <2>2, <3>1, <3>3, <3>4
    <3>5. CASE t # s
      BY <2>1, <2>6, <3>1, <3>3, <3>5 DEF SettledInv, ResumedIsNewer, OnDisk
    <3> QED BY <3>4, <3>5
  <2> QED BY <2>5, <2>6 DEF SettledInv, ResumedIsNewer, OnDisk
<1>6. CASE /\ SettleOwn(s) \/ SettleSource(s)
           /\ Leaves(node[s], rec) /\ rec.raised = node[s].raised
           /\ SettleOwn(s) => rec.pc = "sweep"
           /\ SettleSource(s) => rec.pc = "ended"
  <2>1. Absent.status = "absent"
    BY DEF Absent
  <2>2. /\ rec.stop = node[s].stop /\ rec.failure = node[s].failure
        /\ rec.didReset = node[s].didReset
    BY <1>6 DEF Leaves
  <2>3. \A t \in Session : ckpt'[t] = ckpt[t] \/ ckpt'[t].status = "absent"
    BY <1>6, <2>1 DEF SettleOwn, SettleSource, Base, DiskInv
  <2>4. \A t \in Session : (DropsOwn(t)' => DropsOwn(t)) /\ (DropsSource(t)' => DropsSource(t))
    BY <1>1, <2>2 DEF DropsOwn, DropsSource, CleanFinish
  <2>5. ASSUME NEW t \in Session
        PROVE  /\ node'[t].pc = "sweep" \/ Returned(t)' => (DropsOwn(t)' => ~OnDisk(t)')
               /\ Returned(t)' /\ DropsSource(t)' =>
                    ResumeLive \/ ~(ckpt'[node'[t].source].status # "absent")
    <3>1. DropsSource(t) => node[t].source \in Session
      BY <1>2 DEF DropsSource
    <3>2. CASE t # s
      <4>1. node'[t] = node[t] /\ (Returned(t)' => Returned(t))
        BY <1>1, <3>2 DEF Returned, Ended
      <4> QED BY <2>3, <2>4, <3>1, <4>1 DEF SettledInv, OnDisk
    <3>3. CASE t = s /\ SettleOwn(s)
      <4>1. DropsOwn(s) => ckpt'[s].status = "absent"
        BY <2>1, <3>3 DEF SettleOwn, Base, DiskInv
      <4> QED BY <1>1, <1>6, <2>4, <3>3, <4>1 DEF Returned, Ended, OnDisk
    <3>4. CASE t = s /\ SettleSource(s)
      <4>1. DropsSource(s) => ckpt'[node[s].source].status = "absent"
        BY <2>1, <3>1, <3>4 DEF SettleSource, Base, DiskInv
      <4>2. node[s].pc = "sweep"
        BY <3>4 DEF SettleSource
      <4>3. DropsOwn(s) => ckpt'[s].status = "absent"
        BY <2>3, <4>2 DEF SettledInv, OnDisk
      <4> QED BY <1>3, <2>4, <3>4, <4>1, <4>3 DEF OnDisk
    <3> QED BY <1>6, <3>2, <3>3, <3>4
  <2>6. ASSUME ~ResumeLive, NEW t \in Session, node'[t].source # NoSession,
               ckpt'[t].status # "absent", ckpt'[node'[t].source].status # "absent"
        PROVE  ckpt'[node'[t].source].mtime < ckpt'[t].mtime
    <3>1. node'[t].source = node[t].source /\ node[t].source \in Session
      BY <1>2, <1>3, <2>6
    <3>2. ckpt'[t] = ckpt[t] /\ ckpt'[node[t].source] = ckpt[node[t].source]
      BY <2>3, <2>6, <3>1
    <3> QED BY <2>6, <3>1, <3>2 DEF SettledInv, ResumedIsNewer, OnDisk
  <2> QED BY <2>5, <2>6 DEF SettledInv, ResumedIsNewer, OnDisk
<1> QED BY <1>4, <1>5, <1>6 DEF OnTheDisk

(* A reset is begun below the bound only. *)
LEMMA MoveLevel ==
  ASSUME SessionsInv, NEW s \in Session, NEW rec, Moves(s, rec),
         (Progress(s) /\ ~SpawnContinuation(s)) \/ Interrupt(s) \/ RaiseError(s)
  PROVE  rec.pc = "handoff" => s[2] < MaxDepth
<1>1. node[s] \in AgentRecord /\ node'[s] = rec
  BY MoveFacts DEF SessionsInv
<1>2. CASE CompleteStep(s)
  <2>1. PICK level \in Level, clean \in BOOLEAN :
          LET ceiling == ~clean /\ node[s].step >= node[s].budget
          IN  node' = [node EXCEPT
                ![s].pc = "save", ![s].level = level,
                ![s].conv = @ \cup {<<s, node[s].step>>},
                ![s].signal = IF clean \/ ceiling THEN "STOP" ELSE "CONTINUE",
                ![s].stop = IF clean THEN "stop"
                            ELSE IF ceiling THEN "max_steps" ELSE @]
    BY <1>2 DEF CompleteStep
  <2>2. rec.pc = "save"
    BY <1>1, <2>1 DEF SessionsInv, AgentRecord
  <2> QED BY <2>2
<1>3. CASE Enter(s) \/ ReplaceCheckpoint(s)
  <2>1. rec.pc \in {"guard", "finally"}
    BY <1>1, <1>3, LoopPlaces DEF Enter, ReplaceCheckpoint, SessionsInv, AgentRecord
  <2> QED BY <2>1
<1>4. CASE GuardPasses(s) \/ GuardStops(s) \/ GuardResets(s)
  BY <1>1, <1>4 DEF GuardPasses, GuardStops, GuardResets, SessionsInv, AgentRecord
<1>5. CASE HandoffFails(s) \/ SecureHandoff(s) \/ ReportFails(s)
  BY <1>1, <1>5
     DEF HandoffFails, SecureHandoff, ReportFails, LLMFailure, SessionsInv, AgentRecord
<1>6. CASE CallLLM(s) \/ LLMCallFails(s) \/ WriteTemp(s)
  BY <1>1, <1>6 DEF CallLLM, LLMCallFails, WriteTemp, SessionsInv, AgentRecord
<1>7. CASE ReturnFromContinuation(s)
  BY <1>1, <1>7 DEF ReturnFromContinuation, SessionsInv, AgentRecord
<1>8. CASE SettleOwn(s) \/ SettleSource(s)
  BY <1>1, <1>8 DEF SettleOwn, SettleSource, SessionsInv, AgentRecord
<1>9. CASE Interrupt(s) \/ RaiseError(s)
  BY <1>1, <1>9 DEF Interrupt, RaiseError, SessionsInv, AgentRecord
<1> QED
  BY <1>2, <1>3, <1>4, <1>5, <1>6, <1>7, <1>8, <1>9 DEF Progress

(* A move hands on nothing less: only a session that has not handed over     *)
(* completes steps, and a dead one saves none.                               *)
LEMMA LineMove ==
  ASSUME Base, StackInv, StepsInv, LineInv, NEW s \in Session, NEW rec, Moves(s, rec),
         OnTheDisk(s, rec), rec.pc = "handoff" => s[2] < MaxDepth
  PROVE  LineInv'
<1>1. /\ \A t \in Session : node'[t] = IF t = s THEN rec ELSE node[t]
      /\ rec.source = node[s].source /\ node[s].conv \subseteq rec.conv
      /\ node[s].pc \notin {"off", "ended", "killed"} /\ rec.pc # "off"
  BY MoveFacts DEF Base
<1>2. /\ \A t \in Session : \A w \in node[t].conv :
            w[1] \in Session /\ (w[1] # t => w \in durable)
      /\ \A t \in Session : node[t].source \in Session \cup {NoSession}
  BY StepTypes DEF StepsInv
<1>3. rec.pc \in {"handoff", "spawning"} \/ rec.didReset => s[2] < MaxDepth
  <2>1. CASE Secures(node[s], rec)
    BY <2>1 DEF Secures, LineInv
  <2>2. CASE ~Secures(node[s], rec)
    BY <2>2, PlaceFacts
       DEF Moves, GoesOn, Completes, Fails, BreaksOff, Returns, Leaves, LineInv
  <2> QED BY <2>1, <2>2
<1>5. ASSUME NEW t \in Session, t[2] < MaxDepth, node'[Continuation(t)].pc # "off"
      PROVE  node'[t].conv \subseteq node'[Continuation(t)].conv
  <2>1. Continuation(t) \in Session /\ Continuation(t) # t
    BY <1>5, SessionFacts, ChainFacts
  <2>2. node[Continuation(t)].pc # "off"
    BY <1>1, <1>5, <2>1
  <2>3. node[t].conv \subseteq node[Continuation(t)].conv /\ node[t].pc \in HandedOver
    BY <1>5, <2>2 DEF LineInv, Base, SessionsInv
  <2>4. CASE t = s
    <3>1. rec.conv = node[s].conv
      BY <2>3, <2>4, PlaceFacts
         DEF Moves, GoesOn, Secures, Completes, Fails, BreaksOff, Returns, Leaves
    <3> QED BY <1>1, <2>1, <2>3, <2>4, <3>1
  <2>5. CASE t # s
    BY <1>1, <2>1, <2>3, <2>5
  <2> QED BY <2>4, <2>5
<1>6. ASSUME ~ResumeLive, NEW t \in Session, node'[t].source # NoSession
      PROVE  durable' \cap node'[node'[t].source].conv \subseteq node'[t].conv
  <2>1. PICK x \in Session : x = node[t].source /\ x = node'[t].source
    BY <1>1, <1>2, <1>6
  <2>2. x # s
    <3>1. ~Live(x)
      BY <1>1, <1>6, <2>1 DEF StackInv
    <3> QED BY <1>1, <3>1 DEF Live
  <2>3. node'[x].conv = node[x].conv
    BY <1>1, <2>2
  <2>4. \A w \in durable' : w \in durable \/ w \in node[s].conv
    BY DEF OnTheDisk, ReplaceCheckpoint, SettleOwn, SettleSource
  <2>5. \A w \in durable' : w \in node[x].conv => w \in durable
    BY <1>2, <2>2, <2>4
  <2>6. durable \cap node[x].conv \subseteq node[t].conv
    BY <1>1, <1>6, <2>1 DEF LineInv
  <2> QED BY <1>1, <2>1, <2>3, <2>5, <2>6
<1>7. ASSUME NEW t \in Session
      PROVE  node'[t].pc \in {"handoff", "spawning"} \/ node'[t].didReset => t[2] < MaxDepth
  BY <1>1, <1>3 DEF LineInv
<1> QED BY <1>5, <1>6, <1>7 DEF LineInv

(* Neither does a session that begins. *)
LEMMA LineKept ==
  ASSUME Base, StackInv, LineInv, OnlyBegins
  PROVE  LineInv'
<1>1. /\ ckpt' = ckpt /\ durable' = durable
      /\ \A t \in Session : Begins(t) \/ Keeps(t)
  BY DEF OnlyBegins
<1>2. ASSUME NEW t \in Session
      PROVE  node'[t].pc \in {"handoff", "spawning"} \/ node'[t].didReset => t[2] < MaxDepth
  BY <1>1 DEF Begins, Keeps, LineInv, Live
<1>3. ASSUME NEW t \in Session, t[2] < MaxDepth, node'[Continuation(t)].pc # "off"
      PROVE  node'[t].conv \subseteq node'[Continuation(t)].conv
  <2>1. Continuation(t) \in Session
    BY <1>3, SessionFacts
  <2>2. CASE Begins(Continuation(t))
    BY <2>1, <2>2 DEF Begins
  <2>3. CASE Keeps(Continuation(t))
    <3>1. node[Continuation(t)].pc # "off"
      BY <1>3, <2>3 DEF Keeps, Live
    <3>2. node[t].pc # "off" /\ node[t].conv \subseteq node[Continuation(t)].conv
      BY <1>3, <3>1, PlaceFacts DEF LineInv, Base, SessionsInv
    <3>3. Keeps(t)
      BY <1>1, <3>2, NotCreatedFields DEF Begins
    <3> QED BY <2>3, <3>2, <3>3 DEF Keeps
  <2> QED BY <1>1, <2>1, <2>2, <2>3
<1>4. ASSUME ~ResumeLive, NEW t \in Session, node'[t].source # NoSession
      PROVE  durable' \cap node'[node'[t].source].conv \subseteq node'[t].conv
  <2>1. CASE Begins(t)
    BY <1>1, <1>4, <2>1 DEF Begins
  <2>2. CASE Keeps(t)
    <3>1. PICK x \in Session : x = node[t].source /\ x = node'[t].source
      BY <1>4, <2>2, StepTypes DEF Keeps
    <3>2. node[x].pc # "off" /\ durable \cap node[x].conv \subseteq node[t].conv
      BY <1>4, <2>2, <3>1 DEF StackInv, LineInv
    <3>3. Keeps(x)
      BY <1>1, <3>2, NotCreatedFields DEF Begins
    <3> QED BY <1>1, <2>2, <3>1, <3>2, <3>3 DEF Keeps
  <2> QED BY <1>1, <2>1, <2>2
<1> QED BY <1>2, <1>3, <1>4 DEF LineInv

-----------------------------------------------------------------------------
LEMMA InitInv == Init => IInv
<1> SUFFICES ASSUME Init PROVE IInv
  OBVIOUS
<1>1. /\ \A s \in Session : node[s] = NotCreated /\ ckpt[s] = Absent
      /\ durable = {}
  BY DEF Init
<1>2. Absent.status = "absent" /\ Absent.conv = {}
  BY DEF Absent
<1>3. StackInv
  BY <1>1, NotCreatedFields DEF StackInv
<1>4. FailureInv
  BY <1>1, NotCreatedFields, PlaceFacts DEF FailureInv
<1>5. StepsInv
  BY <1>1, <1>2, NotCreatedFields DEF StepsInv, Saved, Readable
<1>6. SettledInv
  BY <1>1, <1>2, NotCreatedFields DEF SettledInv, Returned, Ended, OnDisk, ResumedIsNewer
<1>7. LineInv
  <2>2. \A s \in Session : s[2] < MaxDepth => node[Continuation(s)].pc = "off"
    BY <1>1, NotCreatedFields, SessionFacts
  <2> QED BY <1>1, <2>2, NotCreatedFields DEF LineInv
<1> QED BY InitBase, <1>3, <1>4, <1>5, <1>6, <1>7 DEF IInv, Base

LEMMA MainIsNoContinuation == \A r \in Run : \A p \in Session : Main(r) # Continuation(p)
BY ConstantsAssumption, SMT DEF Session, Continuation, Main

(* A step lets a session move, or only begin.  *)
Shape == OnlyBegins \/ \E s \in Session : \E rec : Moves(s, rec)

(* Every step of the specification keeps the whole of the invariant. *)
LEMMA StepInv == IInv /\ [Next]_vars => IInv' /\ Shape
<1> SUFFICES ASSUME IInv, [Next]_vars PROVE IInv' /\ Shape
  OBVIOUS
<1>1. /\ Base /\ SessionsInv /\ DiskInv /\ StackInv /\ FailureInv /\ StepsInv /\ SettledInv
      /\ LineInv /\ Base'
  BY BaseStep DEF IInv, Base
<1>2. ASSUME StackInv', FailureInv', OnlyBegins PROVE IInv' /\ Shape
  BY <1>1, <1>2, StepsKept, SettledKept, LineKept DEF IInv, Base, Shape
<1>3. ASSUME NEW m \in Session, NEW rec,
             node[m] = NotCreated, node' = [node EXCEPT ![m] = rec],
             rec.pc = "opening", rec.didReset = FALSE, rec.conv \subseteq durable,
             \A p \in Session : m # Continuation(p),
             rec.source # NoSession =>
               /\ rec.source \in Session /\ node[rec.source].pc # "off"
               /\ durable \cap node[rec.source].conv \subseteq rec.conv,
             UNCHANGED <<ckpt, clock, durable>>
      PROVE  OnlyBegins
  <2>1. \A t \in Session : node'[t] = IF t = m THEN rec ELSE node[t]
    BY <1>1, <1>3 DEF SessionsInv
  <2>2. rec.source # NoSession => node'[rec.source] = node[rec.source]
    BY <1>3, <2>1, NotCreatedFields
  <2>3. Begins(m)
    BY <1>3, <2>1, <2>2 DEF Begins
  <2> QED BY <1>3, <2>1, <2>3 DEF OnlyBegins, Keeps
<1>4. ASSUME NEW r \in Run, StartFresh(r) PROVE IInv' /\ Shape
  <2>1. PICK budget \in Budget, level \in Opening :
          node' = [node EXCEPT ![Main(r)] = Built(budget, 0, level, {}, NoSession)]
    BY <1>4 DEF StartFresh
  <2> DEFINE rec == Built(budget, 0, level, {}, NoSession)
  <2>2. /\ Main(r) \in Session /\ node[Main(r)].pc = "off" /\ node[Main(r)] = NotCreated
        /\ UNCHANGED <<ckpt, clock, durable>>
    BY <1>1, <1>4, SessionFacts DEF StartFresh, MayStart, StackInv
  <2>3. /\ rec.pc = "opening" /\ rec.didReset = FALSE /\ rec.conv = {}
        /\ rec.source = NoSession
    BY DEF Built
  <2>4. StackInv' /\ FailureInv'
    BY <1>1, <2>1, <2>2, MainJoins
  <2> HIDE DEF rec
  <2>5. \A p \in Session : Main(r) # Continuation(p)
    BY MainIsNoContinuation
  <2>6. OnlyBegins
    BY <1>3, <2>1, <2>2, <2>3, <2>5 DEF rec
  <2> QED BY <1>2, <2>4, <2>6
<1>5. ASSUME NEW r \in Run, NEW s \in Session, Resume(r, s) PROVE IInv' /\ Shape
  <2>1. PICK budget \in Budget :
          node' = [node EXCEPT ![Main(r)] =
                     Built(budget, ckpt[s].step, ckpt[s].level, ckpt[s].conv, s)]
    BY <1>5 DEF Resume
  <2> DEFINE rec == Built(budget, ckpt[s].step, ckpt[s].level, ckpt[s].conv, s)
  <2>2. /\ Main(r) \in Session /\ node[Main(r)].pc = "off" /\ node[Main(r)] = NotCreated
        /\ UNCHANGED <<ckpt, clock, durable>>
    BY <1>1, <1>5, SessionFacts DEF Resume, MayStart, StackInv
  <2>3. /\ rec.pc = "opening" /\ rec.didReset = FALSE /\ rec.conv = ckpt[s].conv
        /\ rec.level = ckpt[s].level /\ rec.source = s
    BY DEF Built
  <2>4. rec.conv \subseteq durable
    BY <1>1, <2>3 DEF StepsInv
  <2>5. node[s].pc # "off" /\ (ResumeLive \/ ~Live(s))
    BY <1>1, <1>5 DEF Resume, Readable, OnDisk, DiskInv
  <2>6. StackInv' /\ FailureInv'
    BY <1>1, <2>1, <2>2, <2>5, MainJoins
  <2>8. durable \cap node[s].conv \subseteq rec.conv
    BY <1>1, <1>5, <2>3 DEF Resume, StepsInv
  <2>9. \A p \in Session : Main(r) # Continuation(p)
    BY MainIsNoContinuation
  <2> HIDE DEF rec
  <2>10. OnlyBegins
    BY <1>3, <2>1, <2>2, <2>3, <2>4, <2>5, <2>8, <2>9 DEF rec
  <2> QED BY <1>2, <2>6, <2>10
<1>6. ASSUME NEW s \in Session,
             (Progress(s) /\ ~SpawnContinuation(s)) \/ Interrupt(s) \/ RaiseError(s)
      PROVE  IInv' /\ Shape
  <2>1. PICK rec : Moves(s, rec)
    BY <1>1, <1>6, SessionMoves
  <2>2. OnTheDisk(s, rec)
    BY <1>1, <1>6, <2>1, MoveDisk
  <2>3. StackInv' /\ FailureInv'
    BY <1>1, <2>1, StackMove, FailureMove
  <2>4. StepsInv' /\ SettledInv'
    BY <1>1, <2>1, <2>2, StepsMove, SettledMove
  <2>5. rec.pc = "handoff" => s[2] < MaxDepth
    BY <1>1, <1>6, <2>1, MoveLevel
  <2>6. LineInv'
    BY <1>1, <2>1, <2>2, <2>5, LineMove
  <2> QED BY <1>1, <2>1, <2>3, <2>4, <2>6 DEF IInv, Base, Shape
<1>7. ASSUME NEW s \in Session, SpawnContinuation(s) PROVE IInv' /\ Shape
  <2> DEFINE c == Continuation(s)
  <2>1. /\ c \in Session /\ c # s /\ node[c] = NotCreated /\ node[s].pc = "spawning"
        /\ \A t \in Session : t \notin {s, c} => node'[t] = node[t]
        /\ node'[s] = [node[s] EXCEPT !.pc = "waiting"]
        /\ node'[c].pc = "opening" /\ node'[c].conv = node[s].conv
        /\ node'[c].didReset = FALSE /\ node'[c].source = NoSession
        /\ StackInv' /\ FailureInv'
    <3>1. /\ c \in Session /\ c # s /\ node[c].pc = "off" /\ node[s].pc = "spawning"
          /\ \A t \in Session : t \notin {s, c} => node'[t] = node[t]
          /\ node'[s] = [node[s] EXCEPT !.pc = "waiting"]
      BY <1>1, <1>7, ContinuationJoins
    <3>2. /\ node'[c].pc = "opening" /\ node'[c].conv = node[s].conv
          /\ node'[c].didReset = FALSE /\ node'[c].source = NoSession
          /\ StackInv' /\ FailureInv'
      BY <1>1, <1>7, ContinuationJoins
    <3> QED BY <1>1, <3>1, <3>2 DEF StackInv
  <2>2. node[s].conv \subseteq durable
    BY <1>1, <2>1 DEF StepsInv
  <2>3. Keeps(s)
    BY <1>1, <2>1 DEF Keeps, SessionsInv, AgentRecord
  <2>5. \A p \in Session : c = Continuation(p) => p = s
    BY SessionFacts, SMT DEF Continuation, Session
  <2>6. node'[s].conv = node[s].conv
    BY <2>3 DEF Keeps
  <2> HIDE DEF c
  <2>7. Begins(c)
    BY <2>1, <2>2, <2>5, <2>6 DEF Begins
  <2>8. \A t \in Session : t \notin {s, c} => Keeps(t)
    BY <2>1 DEF Keeps
  <2>9. OnlyBegins
    BY <1>7, <2>3, <2>7, <2>8 DEF OnlyBegins, SpawnContinuation
  <2> QED BY <1>2, <2>1, <2>9
<1>8. ASSUME NEW r \in Run, Kill(r) PROVE IInv' /\ Shape
  <2>1. /\ StackInv' /\ FailureInv'
        /\ \A t \in Session : Keeps(t)
    <3>1. \A t \in Session : node'[t].level = node[t].level
      BY <1>1, <1>8 DEF Kill, SessionsInv, AgentRecord
    <3> QED BY <1>1, <1>8, <3>1, KillStack DEF Keeps
  <2>2. OnlyBegins
    BY <1>8, <2>1 DEF OnlyBegins, Kill
  <2> QED BY <1>2, <2>1, <2>2
<1>9. CASE UNCHANGED vars
  <2>1. StackInv' /\ FailureInv'
    BY <1>1, <1>9 DEF vars, StackInv, FailureInv, Live, CleanFinish
  <2>2. OnlyBegins
    BY <1>9 DEF vars, OnlyBegins, Keeps
  <2> QED BY <1>2, <2>1, <2>2
<1>10. ASSUME NEW s \in Session, Progress(s) PROVE IInv' /\ Shape
  BY <1>6, <1>7, <1>10
<1> QED
  BY <1>4, <1>5, <1>6, <1>8, <1>9, <1>10 DEF Next, ResumeLast

-----------------------------------------------------------------------------
(* Sessions come into being one after the other: a continuation after its    *)
(* parent, a resumed run after what it was resumed from.                      *)
Order(rank, n) ==
  /\ \A s \in Session : node[s].pc # "off" => rank[s] < n
  /\ \A s \in Session :
       /\ s[2] < MaxDepth /\ node[Continuation(s)].pc # "off"
            => rank[s] < rank[Continuation(s)]
       /\ node[s].source # NoSession => rank[node[s].source] < rank[s]
Ordered == \E rank \in [Session -> Nat], n \in Nat : Order(rank, n)

LEMMA InitOrder == Init => Ordered
<1> SUFFICES ASSUME Init PROVE Ordered
  OBVIOUS
<1> DEFINE rank == [s \in Session |-> 0]
<1>1. \A s \in Session : node[s] = NotCreated
  BY DEF Init
<1>2. \A s \in Session : s[2] < MaxDepth => node[Continuation(s)].pc = "off"
  BY <1>1, NotCreatedFields, SessionFacts
<1>3. Order(rank, 0)
  BY <1>1, <1>2, NotCreatedFields DEF Order
<1>4. rank \in [Session -> Nat]
  OBVIOUS
<1> HIDE DEF rank
<1> QED BY <1>3, <1>4 DEF Ordered

LEMMA StepOrder == IInv /\ Ordered /\ [Next]_vars => Ordered'
<1> SUFFICES ASSUME IInv, Ordered, [Next]_vars PROVE Ordered'
  OBVIOUS
<1>1. /\ Base /\ SessionsInv /\ StackInv /\ SessionsInv' /\ Shape
  BY StepInv DEF IInv, Base
<1>2. PICK rank \in [Session -> Nat], n \in Nat : Order(rank, n)
  BY DEF Ordered
<1>3. \A t \in Session : node[t].source \in Session \cup {NoSession}
  BY <1>1, StepTypes
<1>4. ASSUME NEW s \in Session, NEW rec, Moves(s, rec) PROVE Ordered'
  <2>1. \A t \in Session : /\ node'[t].pc = "off" <=> node[t].pc = "off"
                           /\ node'[t].source = node[t].source
    BY <1>1, <1>4, MoveFacts
  <2>2. \A t \in Session : t[2] < MaxDepth => Continuation(t) \in Session
    BY SessionFacts
  <2>3. Order(rank, n)'
    BY <1>2, <2>1, <2>2 DEF Order
  <2> QED BY <1>2, <2>3 DEF Ordered
<1>5. CASE OnlyBegins
  <2> DEFINE new == [t \in Session |-> IF node[t].pc = "off" THEN n ELSE rank[t]]
  <2>1. /\ \A t \in Session : Begins(t) \/ Keeps(t)
        /\ \A t \in Session : Begins(t) => node[t].pc = "off"
        /\ \A t \in Session : node[t].pc # "off" => Keeps(t)
        /\ \A t \in Session : Keeps(t) => node'[t].source = node[t].source
                                          /\ (node'[t].pc # "off" => node[t].pc # "off")
    BY <1>5, NotCreatedFields DEF OnlyBegins, Begins, Keeps, Live
  <2>2. new \in [Session -> Nat] /\ n + 1 \in Nat
    OBVIOUS
  <2>3. \A t \in Session : new[t] < n + 1
    BY <1>2 DEF Order
  <2>4. ASSUME NEW s \in Session, s[2] < MaxDepth, node'[Continuation(s)].pc # "off"
        PROVE  new[s] < new[Continuation(s)]
    <3>1. Continuation(s) \in Session
      BY <2>4, SessionFacts
    <3>2. node'[s].pc \in HandedOver
      BY <1>1, <2>4 DEF SessionsInv
    <3>3. node[s].pc # "off"
      BY <2>1, <3>2, PlaceFacts DEF Begins
    <3>4. CASE node[Continuation(s)].pc = "off"
      BY <1>2, <3>1, <3>3, <3>4 DEF Order
    <3>5. CASE node[Continuation(s)].pc # "off"
      BY <1>2, <2>4, <3>1, <3>3, <3>5 DEF Order
    <3> QED BY <3>4, <3>5
  <2>5. ASSUME NEW s \in Session, node'[s].source # NoSession
        PROVE  new[node'[s].source] < new[s]
    <3>1. CASE Begins(s)
      <4>1. PICK x \in Session : x = node'[s].source /\ node[x].pc # "off"
        BY <2>5, <3>1 DEF Begins
      <4> QED BY <1>2, <2>1, <3>1, <4>1 DEF Order
    <3>2. CASE Keeps(s)
      <4>1. PICK x \in Session : x = node'[s].source /\ x = node[s].source
        BY <1>3, <2>1, <2>5, <3>2
      <4>2. node[x].pc # "off" /\ rank[x] < rank[s]
        BY <1>1, <1>2, <2>5, <4>1 DEF StackInv, Order
      <4>3. node[s].pc # "off"
        BY <1>1, <2>5, <4>1, NotCreatedFields DEF StackInv
      <4> QED BY <4>1, <4>2, <4>3
    <3> QED BY <2>1, <3>1, <3>2
  <2> HIDE DEF new
  <2>6. PICK f \in [Session -> Nat] : f = new
    BY <2>2
  <2>7. Order(f, n + 1)'
    BY <2>3, <2>4, <2>5, <2>6 DEF Order
  <2> QED BY <2>2, <2>7 DEF Ordered
<1> QED BY <1>1, <1>4, <1>5 DEF Shape

LEMMA LeastOf ==
  ASSUME NEW S, S \subseteq Nat, S # {}
  PROVE  \E n \in S : \A m \in S : n <= m
<1> DEFINE R == OpToRel(<, Nat)
<1>1. PICK n \in S : \A m \in S : ~(<<m, n>> \in R)
  BY WFMin, NatLessThanWellFounded, Zenon
<1>2. ASSUME NEW m \in S, m < n
      PROVE  <<m, n>> \in R
  <2>1. m \in Nat /\ n \in Nat
    OBVIOUS
  <2> QED BY <1>2, <2>1, Zenon DEF OpToRel
<1> HIDE DEF R
<1>3. \A m \in S : ~(m < n)
  BY <1>1, <1>2
<1> QED BY <1>3

(* The inductive invariant holds of every reachable state. *)
THEOREM Inductive == Spec => []IInv
BY InitInv, StepInv, PTL DEF Spec

(* Every variable has its type, and every session that exists has a step to *)
(* spend: what is left to a continuation is never nothing.                   *)
THEOREM TypeCorrect == Spec => []TypeOK
<1>1. IInv => TypeOK
  BY DEF IInv, SessionsInv, DiskInv, TypeOK
<1> QED BY <1>1, Inductive, PTL

(* The LLM steps of a process, over all its context resets, stay within     *)
(* --max-steps.                                                              *)
THEOREM BudgetKept == Spec => []ChainWithinBudget
<1>1. IInv => ChainWithinBudget
  BY DEF IInv, SessionsInv
<1> QED BY <1>1, Inductive, PTL

(* --resume-last never prefers a reset session to its continuation: the     *)
(* pipeline returns from a RESET without writing a checkpoint.               *)
THEOREM ResetKeepsOrder == Spec => []ContinuationIsNewer
<1>1. IInv => ContinuationIsNewer
  BY DEF IInv, DiskInv
<1> QED BY <1>1, Inductive, PTL

(* Wherever a kill -9 falls, the completed steps of a session that was       *)
(* neither reset nor finished can be resumed, until a run resumed from it    *)
(* ends: save_checkpoint never leaves a torn file, and nothing but such a    *)
(* run or the session's own end removes one.                                 *)
THEOREM KillLosesNoStep == Spec => []KilledRunIsResumable
<1>1. ASSUME IInv PROVE KilledRunIsResumable
  <2> SUFFICES ASSUME NEW s \in Session, node[s].pc = "killed", Saved(s),
                      ~node[s].didReset, ~CleanFinish(s)
               PROVE  \/ Readable(s) /\ {w \in durable : w[1] = s} \subseteq ckpt[s].conv
                      \/ \E r \in Run : node[Main(r)].source = s /\ Ended(Main(r))
    BY DEF KilledRunIsResumable
  <2>1. Readable(s) \/ \E r \in Run : node[Main(r)].source = s /\ Ended(Main(r))
    BY <1>1 DEF IInv, StepsInv, Superseded
  <2>2. Readable(s) => \A w \in durable : w[1] = s => w \in ckpt[s].conv
    BY <1>1 DEF IInv, StepsInv
  <2> QED BY <2>1, <2>2
<1> QED BY <1>1, Inductive, PTL

(* The session the command line's hint names has a checkpoint --resume       *)
(* accepts, provided it completed a step: it failed, so neither its own end  *)
(* nor its parents' removed it.                                              *)
THEOREM HintHolds == Spec => []HintIsResumable
<1>1. ASSUME IInv PROVE HintIsResumable
  <2> SUFFICES ASSUME NEW r \in Run, node[Main(r)].failure # NoSession,
                      Saved(node[Main(r)].failure)
               PROVE  \/ Readable(node[Main(r)].failure)
                      \/ \E x \in Run : /\ node[Main(x)].source = node[Main(r)].failure
                                        /\ Ended(Main(x))
    BY DEF HintIsResumable
  <2>1. Main(r) \in Session /\ node[Main(r)] \in AgentRecord
    BY <1>1, SessionFacts DEF IInv, SessionsInv
  <2>2. PICK h \in Session : h = node[Main(r)].failure
    BY <2>1 DEF AgentRecord
  <2>3. node[h].failure = h /\ ~node[h].didReset /\ h # NoSession
    BY <1>1, <2>1, <2>2 DEF IInv, FailureInv
  <2>4. Readable(h) \/ Superseded(h)
    BY <1>1, <2>2, <2>3 DEF IInv, StepsInv
  <2>5. ~CleanFinish(h)
    BY <2>3 DEF CleanFinish
  <2> QED BY <2>2, <2>4, <2>5 DEF Superseded
<1> QED BY <1>1, Inductive, PTL

(* --resume-last never prefers a session to a run resumed from it, provided  *)
(* no session is resumed while it is still running: that one could save      *)
(* again, after the run resumed from it.                                     *)
THEOREM ResumeKeepsOrder ==
  ASSUME ~ResumeLive
  PROVE  Spec => []ResumedIsNewer
<1>1. IInv => ResumedIsNewer
  BY DEF IInv, SettledInv
<1> QED BY <1>1, Inductive, PTL

(* A process that did its task leaves no checkpoint of its sessions nor of   *)
(* the one it was resumed from, under the same proviso.  The session that    *)
(* finished is the last of its stack, so every other one was reset, and no   *)
(* failure came down to the first.                                           *)
THEOREM FinishedLeavesNothing ==
  ASSUME ~ResumeLive
  PROVE  Spec => []FinishedTaskLeavesNoCheckpoint
<1>1. ASSUME IInv PROVE FinishedTaskLeavesNoCheckpoint
  <2> SUFFICES ASSUME NEW r \in Run, TaskDone(r), NEW s \in Session,
                      s[1] = r \/ s = node[Main(r)].source
               PROVE  ~OnDisk(s)
    BY DEF FinishedTaskLeavesNoCheckpoint
  <2>1. PICK done \in Session : done[1] = r /\ Ended(done) /\ CleanFinish(done)
    BY DEF TaskDone
  <2>2. /\ Main(r) \in Session /\ node[Main(r)].pc = "ended"
        /\ \A t \in Session : t[1] = r => node[t].raised = "none"
    BY SessionFacts DEF TaskDone, Ended
  <2>3. StackInv /\ FailureInv /\ SettledInv /\ DiskInv
    BY <1>1 DEF IInv
  <2>4. ~node[done].didReset
    BY <2>1, <2>3 DEF StackInv
  <2>5. Main(r)[1] = r /\ (done = Main(r) \/ Later(Main(r), done))
    BY <2>1, ChainFacts
  <2>6. CASE s[1] = r
    <3>1. CASE node[s].pc = "off"
      BY <2>3, <3>1 DEF DiskInv
    <3>2. CASE node[s].pc # "off"
      <4>1. node[s].pc = "ended"
        <5>1. s = Main(r) \/ Later(Main(r), s)
          BY <2>6, ChainFacts
        <5>2. CASE Later(Main(r), s)
          BY <2>2, <2>3, <3>2, <5>2 DEF StackInv, Live
        <5> QED BY <2>2, <5>1, <5>2
      <4>2. Returned(s)
        BY <2>2, <2>6, <4>1 DEF Returned, Ended
      <4>3. DropsOwn(s)
        <5>1. s = done \/ Later(s, done) \/ Later(done, s)
          <6>1. s = <<s[1], s[2]>> /\ done = <<done[1], done[2]>>
            BY SMT DEF Session
          <6>2. s[2] \in Nat /\ done[2] \in Nat
            BY SessionFacts, ConstantsAssumption
          <6> QED BY <2>1, <2>6, <6>1, <6>2 DEF Later
        <5>2. ~Later(done, s)
          BY <2>3, <2>4, <3>2 DEF StackInv
        <5>3. Later(s, done) => node[s].didReset
          BY <2>1, <2>3 DEF StackInv, Ended
        <5> QED BY <2>1, <5>1, <5>2, <5>3 DEF DropsOwn
      <4> QED BY <2>3, <4>2, <4>3 DEF SettledInv
    <3> QED BY <3>1, <3>2
  <2>7. CASE s = node[Main(r)].source
    <3>1. Returned(Main(r))
      BY <2>2, <2>5 DEF Returned, Ended
    <3>2. CASE done = Main(r)
      <4>1. DropsSource(Main(r))
        BY <2>1, <2>4, <2>7, <3>2, ConstantsAssumption DEF DropsSource
      <4> QED BY <2>2, <2>3, <2>7, <3>1, <4>1 DEF SettledInv
    <3>3. CASE Later(Main(r), done)
      <4>1. node[Main(r)].didReset
        BY <2>1, <2>2, <2>3, <3>3 DEF StackInv, Ended
      <4>2. \A u \in Session : u = Main(r) \/ Later(Main(r), u) => node[u].raised = "none"
        BY <2>2, <2>5 DEF Later
      <4>3. node[Main(r)].failure = NoSession
        BY <2>1, <2>2, <2>3, <3>3, <4>2, PlaceFacts DEF FailureInv
      <4>4. DropsSource(Main(r))
        BY <2>7, <4>1, <4>3, ConstantsAssumption DEF DropsSource
      <4> QED BY <2>2, <2>3, <2>7, <3>1, <4>4 DEF SettledInv
    <3> QED BY <2>5, <3>2, <3>3
  <2> QED BY <2>6, <2>7
<1> QED BY <1>1, Inductive, PTL

(* What README.md:87 promises of a run that dies, as far as the code keeps   *)
(* it: a completed step is lost only to a context reset whose continuation   *)
(* was over, or never begun, before it completed a step.  Whoever holds the  *)
(* step and is neither alive, finished nor readable handed it to a session   *)
(* that came into being later, and there is a last one.                      *)
THEOREM OnlyYoungContinuationsLose ==
  ASSUME ~ResumeLive
  PROVE  Spec => []StepsLostOnlyToYoungContinuation
<1>1. ASSUME IInv, Ordered PROVE StepsLostOnlyToYoungContinuation
  <2> SUFFICES ASSUME NEW w \in durable, ~Held(w),
                      ~\E s \in Session :
                         /\ node[s].didReset /\ w \in node[s].conv
                         /\ ~Live(Continuation(s)) /\ ~Saved(Continuation(s))
               PROVE  FALSE
    BY DEF StepsLostOnlyToYoungContinuation
  <2>1. Base /\ StackInv /\ StepsInv /\ LineInv
    BY <1>1 DEF IInv, Base
  <2>2. PICK rank \in [Session -> Nat], n \in Nat : Order(rank, n)
    BY <1>1 DEF Ordered
  <2> DEFINE Keeper(t) == /\ w \in node[t].conv
                          /\ Saved(t) \/ node[t].didReset \/ CleanFinish(t)
  <2>3. \A t \in Session : Keeper(t) => rank[t] < n
    <3>1. \A t \in Session : w \in node[t].conv => node[t].pc # "off"
      BY <2>1, NotCreatedFields DEF StackInv
    <3> QED BY <2>2, <3>1 DEF Order
  <2>4. w[1] \in Session /\ Keeper(w[1])
    BY <2>1, StepTypes DEF StepsInv, Saved
  <2>5. ASSUME NEW t \in Session, Keeper(t)
        PROVE  \E u \in Session : Keeper(u) /\ rank[t] < rank[u]
    <3>1. ~CleanFinish(t) /\ ~Live(t) /\ (Readable(t) => w \notin ckpt[t].conv)
      BY <2>5 DEF Held
    <3>2. CASE node[t].didReset
      <4>1. t[2] < MaxDepth /\ Continuation(t) \in Session
        BY <2>1, <3>2, SessionFacts DEF LineInv
      <4>2. Saved(Continuation(t))
        <5>1. CASE Live(Continuation(t))
          <6>1. w \in node[Continuation(t)].conv
            BY <2>1, <2>5, <4>1, <5>1 DEF LineInv, Live
          <6> QED BY <4>1, <5>1, <6>1 DEF Held
        <5>2. CASE ~Live(Continuation(t))
          BY <2>5, <3>2, <5>2
        <5> QED BY <5>1, <5>2
      <4>3. node[Continuation(t)].pc # "off"
        <5>1. PICK v \in durable : v[1] = Continuation(t)
          BY <4>2 DEF Saved
        <5>2. v \in node[Continuation(t)].conv
          BY <2>1, <5>1 DEF StepsInv
        <5> QED BY <2>1, <4>1, <5>2, NotCreatedFields DEF StackInv
      <4>4. w \in node[Continuation(t)].conv /\ rank[t] < rank[Continuation(t)]
        BY <2>1, <2>2, <2>5, <4>1, <4>3 DEF LineInv, Order
      <4> QED BY <4>1, <4>2, <4>4
    <3>3. CASE ~node[t].didReset
      <4>1. Saved(t) /\ ~Readable(t)
        BY <2>1, <2>5, <3>1, <3>3 DEF StepsInv
      <4>2. PICK r \in Run : node[Main(r)].source = t /\ DropsSource(Main(r))
        BY <2>1, <3>1, <3>3, <4>1 DEF StepsInv, Superseded
      <4>3. Main(r) \in Session /\ t # NoSession
        BY SessionFacts, ConstantsAssumption
      <4>4. w \in node[Main(r)].conv /\ rank[t] < rank[Main(r)]
        BY <2>1, <2>2, <2>5, <4>2, <4>3 DEF LineInv, Order
      <4>5. node[Main(r)].didReset \/ CleanFinish(Main(r))
        BY <4>2 DEF DropsSource
      <4> QED BY <4>3, <4>4, <4>5
    <3> QED BY <3>2, <3>3
  <2> HIDE DEF Keeper
  <2> DEFINE S == {n - rank[t] : t \in {u \in Session : Keeper(u)}}
  <2>6. S \subseteq Nat /\ S # {}
    BY <2>2, <2>3, <2>4
  <2>7. PICK i \in S : \A j \in S : i <= j
    BY <2>6, LeastOf
  <2>8. PICK t \in Session : Keeper(t) /\ i = n - rank[t]
    BY <2>7
  <2>9. PICK u \in Session : Keeper(u) /\ rank[t] < rank[u]
    BY <2>5, <2>8
  <2>10. n - rank[u] \in S
    BY <2>9
  <2>11. rank[t] \in Nat /\ rank[u] \in Nat /\ n \in Nat
    OBVIOUS
  <2>12. n - rank[t] <= n - rank[u]
    BY <2>7, <2>8, <2>10
  <2> QED BY <2>9, <2>11, <2>12
<1>2. IInv /\ Ordered /\ [Next]_vars => Ordered'
  BY StepOrder
<1> QED BY <1>1, <1>2, InitOrder, Inductive, PTL DEF Spec

(* No one rewrites the checkpoint of a session that is over. *)
THEOREM DeadIsImmutable == Spec => DeadCheckpointImmutable
<1> DEFINE DeadKept == \A s \in Session :
             ~Live(s) /\ OnDisk(s) => ckpt'[s] = ckpt[s] \/ ckpt'[s] = Absent
<1>1. ASSUME IInv, [Next]_vars PROVE DeadKept
  <2>1. ASSUME NEW s \in Session, Progress(s) PROVE DeadKept
    <3>1. CASE ReplaceCheckpoint(s)
      <4>1. Live(s)
        BY <3>1 DEF ReplaceCheckpoint, Live
      <4>2. \A t \in Session : t # s => ckpt'[t] = ckpt[t]
        BY <1>1, <3>1 DEF ReplaceCheckpoint, IInv, DiskInv
      <4> QED BY <4>1, <4>2
    <3>2. CASE SettleOwn(s) \/ SettleSource(s)
      <4>1. \/ ckpt' = ckpt
            \/ \E t : ckpt' = [ckpt EXCEPT ![t] = Absent]
        BY <3>2 DEF SettleOwn, SettleSource
      <4> QED BY <1>1, <4>1 DEF IInv, DiskInv
    <3>3. CASE ~ReplaceCheckpoint(s) /\ ~SettleOwn(s) /\ ~SettleSource(s)
      <4>1. UNCHANGED ckpt
        BY <2>1, <3>3 DEF Progress, Enter, GuardPasses, GuardStops, GuardResets,
             HandoffFails, SecureHandoff, SpawnContinuation, CallLLM, LLMCallFails,
             ReportFails, CompleteStep, WriteTemp, ReturnFromContinuation
      <4> QED BY <4>1
    <3> QED BY <3>1, <3>2, <3>3
  <2>2. CASE ~\E s \in Session : Progress(s)
    <3>1. UNCHANGED ckpt
      BY <1>1, <2>2 DEF Next, StartFresh, Resume, ResumeLast, Interrupt, RaiseError,
                        Kill, vars
    <3> QED BY <3>1
  <2> QED BY <2>1, <2>2
<1>2. IInv /\ [Next]_vars => [DeadKept]_vars
  BY <1>1
<1> QED BY <1>2, Inductive, PTL DEF Spec, DeadCheckpointImmutable

=============================================================================
