-------------------------- MODULE Evaluations_proofs --------------------------
(***************************************************************************)
(* For any evaluations, configs, run config files, answers and judges: what *)
(* the store says of a run is what the run wrote, the gate of compare_runs  *)
(* holds along a chain of runs, and a run config file that load_config_file *)
(* accepts can run.  A run is looked at on its own (RunOK), the store       *)
(* against the results.                                                     *)
(***************************************************************************)
EXTENDS Evaluations, TLAPS, SequenceTheorems, FiniteSetTheorems, WellFoundedInduction

(* A set of positions in a sequence that is not empty has a last one.       *)
LEMMA LastOf ==
  ASSUME NEW n \in Nat, NEW S, S \subseteq 1 .. n, S # {}
  PROVE  \E k \in S : \A j \in S : j <= k
  <1> DEFINE T == {n - k : k \in S}
             R == OpToRel(<, Nat)
  <1>1. T \subseteq Nat /\ T # {}
    <2>1. \A k \in S : n - k \in Nat
      OBVIOUS
    <2>. QED  BY <2>1
  <1>2. PICK m \in T : \A i \in T : ~(<<i, m>> \in R)
    <2> HIDE DEF T
    <2>. QED  BY <1>1, WFMin, NatLessThanWellFounded, Zenon
  <1>3. ASSUME NEW i \in T, i < m PROVE <<i, m>> \in R
    <2>1. i \in Nat /\ m \in Nat
      BY <1>1
    <2>. QED  BY <1>3, <2>1, Zenon DEF OpToRel
  <1> HIDE DEF R
  <1>4. PICK k \in S : m = n - k
    BY <1>2
  <1>5. \A j \in S : ~(n - j < n - k)
    <2>1. \A j \in S : n - j \in T
      OBVIOUS
    <2> HIDE DEF T
    <2>. QED  BY <1>2, <1>3, <1>4, <2>1
  <1>6. \A j \in S : j <= k
    BY <1>5
  <1>. QED  BY <1>6

(* A file's checks, nodes and transitions are sequences.                    *)
LEMMA FileSequences ==
  ASSUME NEW file \in Files, NEW list \in {file.checks, file.nodes, file.transitions}
  PROVE  Len(list) \in Nat /\ DOMAIN list = 1 .. Len(list)
  <1>1. list \in Seq(Elements(list))
    BY EvaluationsAssumption
  <1>. QED  BY <1>1, LenProperties

(* The target of a stage that may jump is the target of one of its          *)
(* transitions.                                                             *)
LEMMA JumpsAlongEdge ==
  ASSUME NEW file \in Files, NEW name, JumpTarget(file, name) # Missing
  PROVE  \E i \in Edges(file) : JumpTarget(file, name) = file.transitions[i].target
  <1> DEFINE mine == {i \in Edges(file) : file.transitions[i].source = name}
             last == CHOOSE i \in mine : \A j \in mine : j <= i
  <1>1. Len(file.transitions) \in Nat /\ mine \subseteq 1 .. Len(file.transitions)
    BY FileSequences DEF Edges
  <1>2. mine # {}
    BY DEF JumpTarget
  <1>3. last \in mine
    <2> HIDE DEF mine
    <2>1. \E i \in mine : \A j \in mine : j <= i
      BY <1>1, <1>2, LastOf
    <2>. QED  BY <2>1
  <1>4. JumpTarget(file, name) = file.transitions[last].target
    BY <1>2 DEF JumpTarget
  <1> HIDE DEF last
  <1>. QED  BY <1>3, <1>4

(* What a file without problems declares.                                   *)
LEMMA AcceptedMeans ==
  ASSUME NEW file \in Accepted
  PROVE  /\ file \in Files /\ CheckProblems(file) = {} /\ PipelineProblems(file) = {}
         /\ \E i \in DOMAIN file.checks : Problem("evaluator", i) \notin CheckProblems(file)
  <1>1. file \in Files /\ Problems(file) = {}
    BY DEF Accepted
  <1>2. file.body = "mapping"
    BY <1>1 DEF Problems, If
  <1>3. /\ CheckProblems(file) = {} /\ PipelineProblems(file) = {}
        /\ If(\A i \in DOMAIN file.checks : Problem("evaluator", i) \in CheckProblems(file),
              "checks") = {}
    BY <1>1, <1>2 DEF Problems
  <1>4. ~ \A i \in DOMAIN file.checks : Problem("evaluator", i) \in CheckProblems(file)
    BY <1>3 DEF If
  <1>. QED  BY <1>1, <1>3, <1>4

(* Its checks: there is one, each with an evaluator that is registered.     *)
LEMMA AcceptedChecks ==
  ASSUME NEW file \in Accepted
  PROVE  Checks(file) # <<>> /\ ValidEvaluators(Checks(file))
  <1>1. file \in Files /\ CheckProblems(file) = {} /\ DOMAIN file.checks # {}
    BY AcceptedMeans
  <1>2. DOMAIN Checks(file) = DOMAIN file.checks
    BY DEF Checks
  <1>3. Checks(file) # <<>>
    <2>1. DOMAIN <<>> = {}
      OBVIOUS
    <2>. QED  BY <1>1, <1>2, <2>1
  <1>4. ASSUME NEW i \in DOMAIN file.checks PROVE Checks(file)[i].evaluator \in Registered
    <2>1. file.checks[i].evaluator \in Registered
      BY <1>1 DEF CheckProblems
    <2>2. "evaluator" \in DOMAIN file.checks[i] /\ "evaluator" # "id"
      BY <1>1, EvaluationsAssumption
    <2>3. Checks(file)[i] = [file.checks[i] EXCEPT !.id = CheckId(file, i)]
      BY DEF Checks
    <2>4. Checks(file)[i].evaluator = file.checks[i].evaluator
      BY <2>2, <2>3
    <2>. QED  BY <2>1, <2>4
  <1>. QED  BY <1>2, <1>3, <1>4 DEF ValidEvaluators

(* Its stages: distinct names, and transitions between them.                *)
LEMMA AcceptedStages ==
  ASSUME NEW file \in Accepted, file.nodes # <<>>
  PROVE  /\ \A n \in DOMAIN file.nodes : n \in Kept(file) /\ file.nodes[n].name \in Names(file)
         /\ \A m, n \in DOMAIN file.nodes : file.nodes[m].name = file.nodes[n].name => m = n
         /\ \A i \in Edges(file) : /\ file.transitions[i].source \in Names(file)
                                   /\ file.transitions[i].target \in Names(file)
         /\ StageProblems(file) = {}
  <1>1. /\ file \in Files /\ NodeProblems(file) = {} /\ EdgeProblems(file) = {}
        /\ StageProblems(file) = {}
    BY AcceptedMeans DEF PipelineProblems
  <1>2. \A n \in DOMAIN file.nodes : n \in Kept(file)
    BY <1>1 DEF NodeProblems
  <1>3. \A n \in DOMAIN file.nodes : file.nodes[n].name \in Names(file)
    BY <1>2 DEF Names
  <1>4. ASSUME NEW m \in DOMAIN file.nodes, NEW n \in DOMAIN file.nodes,
               file.nodes[m].name = file.nodes[n].name
        PROVE  m = n
    <2>1. DOMAIN file.nodes = 1 .. Len(file.nodes) /\ Len(file.nodes) \in Nat
      BY <1>1, FileSequences
    <2>2. /\ \A j \in 1 .. m - 1 : Whole(file.nodes[j]) => file.nodes[j].name # file.nodes[m].name
          /\ \A j \in 1 .. n - 1 : Whole(file.nodes[j]) => file.nodes[j].name # file.nodes[n].name
          /\ Whole(file.nodes[m]) /\ Whole(file.nodes[n])
      BY <1>2 DEF Kept
    <2>3. ~(m < n) /\ ~(n < m)
      BY <1>4, <2>1, <2>2
    <2>. QED  BY <2>1, <2>3
  <1>5. \A i \in Edges(file) : /\ file.transitions[i].source \in Names(file)
                               /\ file.transitions[i].target \in Names(file)
    BY <1>1 DEF EdgeProblems
  <1>. QED  BY <1>1, <1>2, <1>3, <1>4, <1>5

(* Without stages there are no transitions either.                          *)
LEMMA AcceptedEmpty ==
  ASSUME NEW file \in Accepted, file.nodes = <<>>
  PROVE  DOMAIN file.nodes = {} /\ Edges(file) = {}
  <1>1. PipelineProblems(file) = {}
    BY AcceptedMeans
  <1>2. file.transitions = <<>>
    BY <1>1 DEF PipelineProblems, If
  <1>. QED  BY <1>2 DEF Edges

(* run_config_file:363 for one accepted file.                               *)
LEMMA AcceptedRuns ==
  ASSUME NEW file \in Accepted
  PROVE  /\ ConstructorRaises(file) =>
              \E i \in DOMAIN file.transitions : UnboundedLoop(file, file.transitions[i])
         /\ \A m, n \in DOMAIN file.nodes :
              file.nodes[m].name = file.nodes[n].name => m = n
         /\ \A n \in DOMAIN file.nodes :
              /\ file.nodes[n].receives \in {file.nodes[m].name : m \in DOMAIN file.nodes} \cup {Missing}
              /\ file.nodes[n].accept =>
                   \E m \in DOMAIN file.nodes :
                      file.nodes[m].name = JumpTarget(file, file.nodes[n].name)
  <1>1. CASE file.nodes = <<>>
    BY <1>1, AcceptedEmpty DEF ConstructorRaises
  <1>2. CASE file.nodes # <<>>
    <2>1. file \in Files
      BY AcceptedMeans
    <2>2. ConstructorRaises(file) =>
             \E i \in DOMAIN file.transitions : UnboundedLoop(file, file.transitions[i])
      <3>1. SUFFICES ASSUME NEW i \in Edges(file),
                            \/ ~ {file.transitions[i].source, file.transitions[i].target}
                                   \subseteq Names(file)
                            \/ UnboundedLoop(file, file.transitions[i])
                     PROVE  \E j \in DOMAIN file.transitions :
                               UnboundedLoop(file, file.transitions[j])
        BY DEF ConstructorRaises
      <3>2. UnboundedLoop(file, file.transitions[i])
        BY <1>2, <3>1, AcceptedStages
      <3>3. i \in DOMAIN file.transitions
        BY DEF Edges
      <3>. QED  BY <3>2, <3>3
    <2>3. \A name \in Names(file) : \E m \in DOMAIN file.nodes : file.nodes[m].name = name
      BY DEF Names, Kept
    <2>4. ASSUME NEW n \in DOMAIN file.nodes
          PROVE  file.nodes[n].receives \in {file.nodes[m].name : m \in DOMAIN file.nodes} \cup {Missing}
      <3>1. file.nodes[n].receives \in Names(file) \cup {Missing}
        BY <1>2, AcceptedStages DEF StageProblems
      <3>. QED  BY <2>3, <3>1
    <2>5. ASSUME NEW n \in DOMAIN file.nodes, file.nodes[n].accept
          PROVE  \E m \in DOMAIN file.nodes :
                    file.nodes[m].name = JumpTarget(file, file.nodes[n].name)
      <3>1. JumpTarget(file, file.nodes[n].name) # Missing
        BY <1>2, <2>5, AcceptedStages DEF StageProblems
      <3>2. JumpTarget(file, file.nodes[n].name) \in Names(file)
        BY <1>2, <2>1, <3>1, JumpsAlongEdge, AcceptedStages
      <3>. QED  BY <2>3, <3>2
    <2>6. \A m, n \in DOMAIN file.nodes : file.nodes[m].name = file.nodes[n].name => m = n
      BY <1>2, AcceptedStages
    <2>. QED  BY <2>2, <2>4, <2>5, <2>6
  <1>. QED  BY <1>1, <1>2

(* The gate compares by check id, so it carries over a run in between that  *)
(* makes all the checks the other two have in common.                       *)
LEMMA GateChain ==
  ASSUME NEW a, NEW b, NEW c, Gate(a, b, FALSE), Gate(b, c, FALSE),
         Ids(a) \cap Ids(c) \subseteq Ids(b)
  PROVE  Gate(a, c, FALSE)
  <1>1. ASSUME NEW id \in Ids(a) \cap Ids(c), ByCase(a, id) PROVE ByCase(c, id)
    <2>1. id \in Ids(b)
      OBVIOUS
    <2>2. ByCase(b, id)
      BY <1>1, <2>1 DEF Gate, Regressions
    <2>. QED  BY <1>1, <2>1, <2>2 DEF Gate, Regressions
  <1>. QED  BY <1>1 DEF Gate, Regressions, MeetsFloor

(* A verdict is one of three, and pass is what a floor of one asks for.     *)
LEMMA Verdicts ==
  ASSUME NEW scores
  PROVE  Verdict(scores) \in {"no_checks", "pass", "fail"}
  BY DEF Verdict

LEMMA FloorIsPass ==
  ASSUME NEW result, MeetsFloor(result, TRUE)
  PROVE  Verdict(result.scores) = "pass"
  BY DEF MeetsFloor, Verdict

(* A run that passed no check has a pass rate of zero.                      *)
LEMMA NoneIsZero ==
  ASSUME NEW scores, NonePassed(scores)
  PROVE  Passed(scores) = 0
  <1>1. {i \in DOMAIN scores : scores[i].passed} = {}
    BY DEF NonePassed
  <1>. QED  BY <1>1, FS_EmptySet DEF Passed

(* Every list of checks a run may have is a sequence, and scoring one of    *)
(* its checks gives a score.                                                *)
LEMMA ListSequences ==
  ASSUME NEW list \in {<<>>} \cup Lists
  PROVE  Len(list) \in Nat /\ DOMAIN list = 1 .. Len(list) /\ (list # <<>> => 1 \in DOMAIN list)
  <1> DEFINE Goal == /\ Len(list) \in Nat /\ DOMAIN list = 1 .. Len(list)
                     /\ (list # <<>> => 1 \in DOMAIN list)
  <1>e. ASSUME NEW S, list \in Seq(S) PROVE Goal
    <2>1. Len(list) \in Nat /\ DOMAIN list = 1 .. Len(list)
      BY <1>e, LenProperties
    <2>2. list = <<>> <=> Len(list) = 0
      BY <1>e, EmptySeq
    <2>. QED  BY <2>1, <2>2
  <1> HIDE DEF Goal
  <1>1. ASSUME list \in CheckLists PROVE Goal
    BY <1>1, <1>e, EvaluationsAssumption
  <1>2. ASSUME NEW file \in Files, list = Checks(file)
        PROVE  Goal
    <2> DEFINE n == Len(file.checks)
               S == {list[i] : i \in 1 .. n}
    <2>1. n \in Nat /\ DOMAIN file.checks = 1 .. n
      BY FileSequences
    <2>2. list = [i \in 1 .. n |-> list[i]]
      BY <1>2, <2>1 DEF Checks
    <2>3. list \in [1 .. n -> S]
      BY <2>2
    <2>4. list \in Seq(S)
      <3> HIDE DEF S, n
      <3>. QED  BY <2>1, <2>3, SeqDef
    <2>. QED  BY <2>4, <1>e
  <1>3. ASSUME list = <<>> PROVE Goal
    BY <1>3 DEF Goal
  <1>4. \/ list \in CheckLists \/ list = <<>>
        \/ \E file \in Files : list = Checks(file)
    BY DEF Lists
  <1>5. Goal
    BY <1>1, <1>2, <1>3, <1>4
  <1>. QED  BY <1>5 DEF Goal

LEMMA ScoreType ==
  ASSUME NEW list \in Lists, NEW i \in DOMAIN list, NEW passed \in BOOLEAN
  PROVE  [id |-> list[i].id, passed |-> passed] \in Scores
  BY DEF Scores

(* The initial state.                                                       *)
LEMMA InitInv == Init => IInv
  <1> SUFFICES ASSUME Init PROVE IInv
    OBVIOUS
  <1>1. Idle \in RunRecord
    BY DEF Idle, RunRecord
  <1>2. /\ \A r \in Runs : runs[r] = Idle /\ results[r] = None /\ verdicts[r] = None
        /\ runs \in [Runs -> RunRecord] /\ results \in [Runs -> {None} \cup Results]
        /\ verdicts \in [Runs -> {None} \cup Scores]
    BY <1>1 DEF Init
  <1>3. RunOK(Idle, None, None)
    BY <1>1 DEF RunOK, Idle, NonePassed
  <1>4. StoreInv
    BY DEF Init, StoreInv, Stored
  <1>. QED  BY <1>2, <1>3, <1>4 DEF IInv

(* What the store says of a run stays true while results stay.              *)
LEMMA RecordedKept ==
  ASSUME IInv, NEW e \in EvalIds, Stored(evaluations[e]), evaluations'[e] = evaluations[e],
         \A r \in Runs : results[r] # None => results'[r] = results[r]
  PROVE  Recorded(e, evaluations[e])'
  <1>1. evaluations[e] \in Objects /\ Recorded(e, evaluations[e])
    BY DEF IInv, StoreInv, Stored
  <1>2. CASE evaluations[e].lastRun = None
    BY <1>2 DEF Recorded
  <1>3. CASE evaluations[e].lastRun # None
    <2>1. evaluations[e].lastRun.run \in Runs
      BY <1>1, <1>3 DEF Objects
    <2>. QED  BY <1>1, <1>3, <2>1 DEF Recorded
  <1>. QED  BY <1>2, <1>3

(* A caller's edit of the store keeps the invariant when the objects it     *)
(* leaves have their type and name no other last run.                       *)
LEMMA EditKeeps ==
  ASSUME IInv, UNCHANGED <<runs, results, verdicts>>,
         evalConfigs' \in [ConfigIds -> CheckLists \cup {Unused, Deleted, Torn}],
         evaluations' \in [EvalIds -> Objects \cup {Unused, Deleted, Torn}],
         \A e \in EvalIds : Stored(evaluations'[e]) =>
            \/ evaluations'[e].lastRun = None
            \/ Stored(evaluations[e]) /\ evaluations'[e].lastRun = evaluations[e].lastRun
  PROVE  IInv'
  <1>1. ASSUME NEW e \in EvalIds, Stored(evaluations'[e])
        PROVE  Recorded(e, evaluations[e])'
    BY <1>1 DEF IInv, StoreInv, Recorded
  <1>2. StoreInv'
    BY <1>1 DEF StoreInv, Stored
  <1>. QED  BY <1>2 DEF IInv

LEMMA EditStep == IInv /\ Edit => IInv'
  <1> SUFFICES ASSUME IInv, Edit PROVE IInv'
    OBVIOUS
  <1>t. /\ evalConfigs \in [ConfigIds -> CheckLists \cup {Unused, Deleted, Torn}]
        /\ evaluations \in [EvalIds -> Objects \cup {Unused, Deleted, Torn}]
    BY DEF IInv, StoreInv
  <1>1. ASSUME NEW c \in ConfigIds, NEW w \in CheckLists \cup {Deleted, Torn},
               WriteEvalConfig(c, w)
        PROVE  IInv'
    BY <1>1, <1>t, EditKeeps DEF WriteEvalConfig
  <1>2. ASSUME NEW e \in EvalIds, NEW w \in Objects \cup {Deleted}, WriteEvaluation(e, w),
               UNCHANGED <<evalConfigs, runs, results, verdicts>>,
               Stored(w) => \/ w.lastRun = None
                            \/ Stored(evaluations[e]) /\ w.lastRun = evaluations[e].lastRun
        PROVE  IInv'
    BY <1>2, <1>t, EditKeeps DEF WriteEvaluation
  <1>3. ASSUME NEW c \in ConfigIds,
               \/ CreateRunConfig(c) \/ DeleteRunConfig(c) \/ DeleteEvalConfig(c) \/ TearEvalConfig(c)
        PROVE  IInv'
    <2>1. CASE CreateRunConfig(c) \/ DeleteRunConfig(c)
      BY <2>1, <1>t, EditKeeps DEF CreateRunConfig, DeleteRunConfig
    <2>2. CASE DeleteEvalConfig(c) \/ TearEvalConfig(c)
      BY <2>2, <1>1 DEF DeleteEvalConfig, TearEvalConfig
    <2>. QED  BY <1>3, <2>1, <2>2
  <1>4. ASSUME NEW c \in ConfigIds, NEW checks \in CheckLists,
               CreateEvalConfig(c, checks) \/ UpdateEvalConfig(c, checks)
        PROVE  IInv'
    BY <1>4, <1>1 DEF CreateEvalConfig, UpdateEvalConfig
  <1>5. ASSUME NEW e \in EvalIds, NEW rc \in ConfigIds, NEW ec \in ConfigIds,
               CreateEvaluation(e, rc, ec) \/ UpdateEvaluation(e, rc, ec)
        PROVE  IInv'
    <2>1. CASE CreateEvaluation(e, rc, ec)
      <3> DEFINE object == [runConfig |-> rc, evalConfig |-> ec, lastRun |-> None]
      <3>1. object \in Objects /\ object.lastRun = None
        BY DEF Objects
      <3>2. WriteEvaluation(e, object) /\ UNCHANGED <<evalConfigs, runs, results, verdicts>>
        BY <2>1 DEF CreateEvaluation
      <3> HIDE DEF object
      <3>. QED  BY <1>2, <3>1, <3>2
    <2>2. CASE UpdateEvaluation(e, rc, ec)
      <3> DEFINE object == [evaluations[e] EXCEPT !.runConfig = rc, !.evalConfig = ec]
      <3>1. Stored(evaluations[e]) /\ evaluations[e] \in Objects
        BY <2>2, <1>t DEF UpdateEvaluation, Stored
      <3>2. object \in Objects /\ object.lastRun = evaluations[e].lastRun
        BY <3>1 DEF Objects
      <3>3. WriteEvaluation(e, object) /\ UNCHANGED <<evalConfigs, runs, results, verdicts>>
        BY <2>2 DEF UpdateEvaluation
      <3> HIDE DEF object
      <3>. QED  BY <1>2, <3>1, <3>2, <3>3
    <2>. QED  BY <1>5, <2>1, <2>2
  <1>6. ASSUME NEW e \in EvalIds, DeleteEvaluation(e) PROVE IInv'
    <2>1. WriteEvaluation(e, Deleted) /\ UNCHANGED <<evalConfigs, runs, results, verdicts>>
      BY <1>6 DEF DeleteEvaluation
    <2>2. ~Stored(Deleted)
      BY DEF Stored
    <2>. QED  BY <1>2, <2>1, <2>2
  <1>. QED  BY <1>3, <1>4, <1>5, <1>6 DEF Edit

(* A step of one run keeps the invariant when it keeps that run's part, a   *)
(* result once written, and the objects, or leaves one that names the run.  *)
LEMMA RunMoves ==
  ASSUME IInv, NEW r \in Runs, NEW run, NEW result, NEW verdict,
         runs' = [runs EXCEPT ![r] = run], results' = [results EXCEPT ![r] = result],
         verdicts' = [verdicts EXCEPT ![r] = verdict],
         result \in {None} \cup Results, verdict \in {None} \cup Scores,
         RunOK(run, result, verdict), results[r] # None => result = results[r],
         UNCHANGED evalConfigs,
         evaluations' \in [EvalIds -> Objects \cup {Unused, Deleted, Torn}],
         \A e \in EvalIds : Stored(evaluations'[e]) =>
            evaluations'[e] = evaluations[e] \/ Recorded(e, evaluations[e])'
  PROVE  IInv'
  <1>1. /\ runs \in [Runs -> RunRecord] /\ results \in [Runs -> {None} \cup Results]
        /\ verdicts \in [Runs -> {None} \cup Scores]
        /\ \A q \in Runs : RunOK(runs[q], results[q], verdicts[q])
    BY DEF IInv
  <1>2. run \in RunRecord
    BY DEF RunOK
  <1>3. /\ runs' \in [Runs -> RunRecord] /\ results' \in [Runs -> {None} \cup Results]
        /\ verdicts' \in [Runs -> {None} \cup Scores]
    BY <1>1, <1>2
  <1>4. /\ \A q \in Runs : q # r => /\ runs'[q] = runs[q] /\ results'[q] = results[q]
                                   /\ verdicts'[q] = verdicts[q]
        /\ runs'[r] = run /\ results'[r] = result /\ verdicts'[r] = verdict
    BY <1>1
  <1>5. \A q \in Runs : RunOK(runs'[q], results'[q], verdicts'[q])
    BY <1>1, <1>4
  <1>6. \A q \in Runs : results[q] # None => results'[q] = results[q]
    BY <1>4
  <1>7. ASSUME NEW e \in EvalIds, Stored(evaluations'[e])
        PROVE  Recorded(e, evaluations[e])'
    <2>1. CASE evaluations'[e] = evaluations[e]
      <3>1. Stored(evaluations[e])
        BY <1>7, <2>1
      <3>. QED  BY <1>6, <2>1, <3>1, RecordedKept
    <2>. QED  BY <1>7, <2>1
  <1>8. StoreInv'
    BY <1>7 DEF IInv, StoreInv, Stored
  <1>. QED  BY <1>3, <1>5, <1>8 DEF IInv

(* A step that writes no file is one that keeps RunOK.                      *)
LEMMA RunQuietly ==
  ASSUME IInv, NEW r \in Runs, NEW run, runs' = [runs EXCEPT ![r] = run],
         UNCHANGED <<store, results, verdicts>>, RunOK(run, results[r], verdicts[r])
  PROVE  IInv'
  <1>1. /\ results' = [results EXCEPT ![r] = results[r]]
        /\ verdicts' = [verdicts EXCEPT ![r] = verdicts[r]]
        /\ results[r] \in {None} \cup Results /\ verdicts[r] \in {None} \cup Scores
    BY DEF IInv
  <1>2. /\ UNCHANGED evalConfigs /\ UNCHANGED evaluations
        /\ evaluations \in [EvalIds -> Objects \cup {Unused, Deleted, Torn}]
    BY DEF IInv, StoreInv, store
  <1>. QED  BY <1>1, <1>2, RunMoves

(* A run that has not begun.                                                *)
LEMMA IdleFields ==
  /\ Idle \in RunRecord
  /\ Idle.of = None /\ Idle.held = None /\ Idle.checks = <<>> /\ Idle.answer = None
  /\ Idle.scores = <<>> /\ Idle.at = 1
  BY DEF Idle, RunRecord

LEMMA NothingPassed == NonePassed(<<>>)
  <1>1. DOMAIN <<>> = {}
    OBVIOUS
  <1>. QED  BY <1>1 DEF NonePassed

(* What RunOK asks of a run that is over.                                   *)
LEMMA OverOK ==
  ASSUME NEW run \in RunRecord, NEW result, NEW verdict, run.pc = "over",
         run.answer # None /\ run.answer.errored =>
           NonePassed(run.scores) /\ (result # None => NonePassed(result.scores)),
         verdict # None =>
           result # None /\ \E i \in DOMAIN result.scores : result.scores[i] = verdict
  PROVE  RunOK(run, result, verdict)
  BY DEF RunOK

(* A run that ends, wherever it is, leaves its files as they are.           *)
LEMMA EndedOK ==
  ASSUME NEW run, NEW result, NEW verdict, RunOK(run, result, verdict)
  PROVE  RunOK([Idle EXCEPT !.pc = "over", !.answer = run.answer], result, verdict)
  <1> DEFINE new == [Idle EXCEPT !.pc = "over", !.answer = run.answer]
  <1>1. /\ new.pc = "over" /\ new.answer = run.answer /\ new.scores = <<>>
    BY IdleFields DEF RunRecord
  <1>2. run.answer \in {None} \cup Answers
    BY DEF RunOK, RunRecord
  <1>3. new \in RunRecord
    BY <1>2, IdleFields DEF RunRecord
  <1> HIDE DEF new
  <1>4. NonePassed(new.scores)
    BY <1>1, NothingPassed
  <1>5. run.answer # None /\ run.answer.errored => (result # None => NonePassed(result.scores))
    BY DEF RunOK
  <1>6. new.answer # None /\ new.answer.errored =>
           NonePassed(new.scores) /\ (result # None => NonePassed(result.scores))
    BY <1>1, <1>4, <1>5
  <1>7. verdict # None =>
          result # None /\ \E i \in DOMAIN result.scores : result.scores[i] = verdict
    BY DEF RunOK
  <1>8. new.pc = "over"
    BY <1>1
  <1>9. RunOK(new, result, verdict)
    BY <1>3, <1>6, <1>7, <1>8, OverOK
  <1>. QED  BY <1>9 DEF new

LEMMA EndKeeps ==
  ASSUME IInv, NEW r \in Runs, End(r), UNCHANGED <<store, results, verdicts>>
  PROVE  IInv'
  <1>1. RunOK(runs[r], results[r], verdicts[r])
    BY DEF IInv
  <1> DEFINE new == [Idle EXCEPT !.pc = "over", !.answer = runs[r].answer]
  <1>2. runs' = [runs EXCEPT ![r] = new]
    BY DEF End
  <1>3. RunOK(new, results[r], verdicts[r])
    BY <1>1, EndedOK
  <1> HIDE DEF new
  <1>. QED  BY <1>2, <1>3, RunQuietly

LEMMA StartEvaluationKeeps ==
  ASSUME IInv, NEW r \in Runs, NEW e \in EvalIds, StartEvaluation(r, e) PROVE IInv'
  <1> DEFINE new == [Idle EXCEPT !.pc = "configs", !.of = e, !.held = evaluations[e]]
  <1>1. /\ RunOK(runs[r], results[r], verdicts[r]) /\ runs[r].pc = "idle"
        /\ evaluations[e] \in Objects
    BY DEF IInv, StoreInv, Stored, StartEvaluation
  <1>2. /\ new.pc = "configs" /\ new.of = e /\ new.held = evaluations[e]
        /\ new.answer = None /\ new.scores = <<>> /\ new.at = 1
    BY IdleFields DEF RunRecord
  <1>3. runs' = [runs EXCEPT ![r] = new] /\ UNCHANGED <<store, results, verdicts>>
    BY DEF StartEvaluation
  <1>4. new \in RunRecord /\ e \in Datasets
    BY <1>1, IdleFields DEF RunRecord, Datasets
  <1> HIDE DEF new
  <1>5. RunOK(new, results[r], verdicts[r])
    BY <1>1, <1>2, <1>4 DEF RunOK
  <1>. QED  BY <1>3, <1>5, RunQuietly

LEMMA ReadConfigsKeeps ==
  ASSUME IInv, NEW r \in Runs, ReadConfigs(r) PROVE IInv'
  <1> DEFINE ec == evalConfigs[runs[r].held.evalConfig]
             new == [runs[r] EXCEPT !.pc = IF ec = <<>> THEN "result" ELSE "agent", !.checks = ec]
  <1>1. /\ RunOK(runs[r], results[r], verdicts[r]) /\ runs[r].pc = "configs"
        /\ runs[r] \in RunRecord /\ UNCHANGED <<store, results, verdicts>>
    BY DEF IInv, ReadConfigs
  <1>2. CASE ~(Stored(runConfigs[runs[r].held.runConfig]) /\ Stored(ec))
    BY <1>1, <1>2, EndKeeps DEF ReadConfigs
  <1>3. CASE Stored(runConfigs[runs[r].held.runConfig]) /\ Stored(ec)
    <2>1. ec \in CheckLists
      <3>1. runs[r].held.evalConfig \in ConfigIds
        BY <1>1 DEF RunOK, Objects
      <3>. QED  BY <1>3, <3>1 DEF IInv, StoreInv, Stored
    <2>2. runs' = [runs EXCEPT ![r] = new]
      BY <1>3 DEF ReadConfigs
    <2> HIDE DEF ec
    <2>3. /\ new.pc = (IF ec = <<>> THEN "result" ELSE "agent") /\ new.checks = ec
          /\ new.of = runs[r].of /\ new.held = runs[r].held /\ new.answer = runs[r].answer
          /\ new.scores = runs[r].scores /\ new.at = runs[r].at
      BY <1>1 DEF RunRecord
    <2>4. new \in RunRecord
      BY <1>1, <2>1 DEF RunRecord, Lists
    <2> HIDE DEF new
    <2>5. RunOK(new, results[r], verdicts[r])
      BY <1>1, <2>3, <2>4 DEF RunOK
    <2>. QED  BY <1>1, <2>2, <2>5, RunQuietly
  <1>. QED  BY <1>2, <1>3

LEMMA StartFileKeeps ==
  ASSUME IInv, NEW r \in Runs, NEW file \in Files, StartFile(r, file) PROVE IInv'
  <1> DEFINE new == [Idle EXCEPT !.pc = "agent", !.of = file.path, !.held = file,
                                 !.checks = Checks(file)]
  <1>1. /\ RunOK(runs[r], results[r], verdicts[r]) /\ runs[r].pc = "idle"
        /\ UNCHANGED <<store, results, verdicts>>
    BY DEF IInv, StartFile
  <1>2. CASE file \notin Accepted
    BY <1>1, <1>2, EndKeeps DEF StartFile
  <1>3. CASE file \in Accepted
    <2>1. runs' = [runs EXCEPT ![r] = new]
      BY <1>3 DEF StartFile
    <2>2. /\ new.pc = "agent" /\ new.of = file.path /\ new.held = file
          /\ new.checks = Checks(file) /\ new.answer = None /\ new.scores = <<>> /\ new.at = 1
      BY IdleFields DEF RunRecord
    <2>3. new \in RunRecord
      BY IdleFields DEF RunRecord, Datasets, Lists
    <2> HIDE DEF new
    <2>4. file.path \in Datasets /\ file.path \notin EvalIds /\ Checks(file) # <<>>
      BY <1>3, AcceptedChecks, EvaluationsAssumption DEF Datasets
    <2>5. RunOK(new, results[r], verdicts[r])
      BY <1>1, <1>3, <2>2, <2>3, <2>4 DEF RunOK
    <2>. QED  BY <1>1, <2>1, <2>5, RunQuietly
  <1>. QED  BY <1>2, <1>3
(* The agent has answered; the first check is next.                         *)
LEMMA RunAgentKeeps ==
  ASSUME IInv, NEW r \in Runs, NEW answer \in Answers, RunAgent(r, answer) PROVE IInv'
  <1> DEFINE old == runs[r]
             new == [runs[r] EXCEPT !.pc = "score", !.answer = answer,
                                    !.held = IF IsFile(r) THEN None ELSE runs[r].held]
  <1>1. /\ RunOK(old, results[r], verdicts[r]) /\ old.pc = "agent" /\ old \in RunRecord
        /\ runs' = [runs EXCEPT ![r] = new] /\ UNCHANGED <<store, results, verdicts>>
    BY DEF IInv, RunAgent
  <1>2. /\ results[r] = None /\ verdicts[r] = None /\ old.of \in Datasets /\ old.at = 1
        /\ (old.of \in EvalIds => old.held \in Objects) /\ old.scores = <<>>
        /\ 1 \in DOMAIN old.checks
    <2>1. old.checks \in {<<>>} \cup Lists /\ old.checks # <<>>
      BY <1>1 DEF RunOK, RunRecord
    <2>2. 1 \in DOMAIN old.checks
      BY <2>1, ListSequences
    <2>. QED  BY <1>1, <2>2 DEF RunOK
  <1>3. new \in RunRecord
    BY <1>1 DEF RunRecord
  <1>4. /\ new.pc = "score" /\ new.of = old.of /\ new.checks = old.checks /\ new.at = old.at
        /\ new.scores = old.scores /\ (old.of \in EvalIds => new.held = old.held)
    BY <1>1 DEF RunRecord, IsFile
  <1> HIDE DEF new, old
  <1>5. NonePassed(new.scores)
    BY <1>2, <1>4, NothingPassed
  <1>6. RunOK(new, results[r], verdicts[r])
    BY <1>2, <1>3, <1>4, <1>5 DEF RunOK
  <1>. QED  BY <1>1, <1>6, RunQuietly

(* One more score.  An errored run passes no check.                         *)
LEMMA ScoreKeeps ==
  ASSUME IInv, NEW r \in Runs, runs[r].pc = "score", NEW passed \in BOOLEAN,
         runs[r].answer # None /\ runs[r].answer.errored => ~passed,
         Score(r, passed), UNCHANGED <<store, results, verdicts>>
  PROVE  IInv'
  <1> DEFINE old == runs[r]
             scores == Append(old.scores, [id |-> old.checks[old.at].id, passed |-> passed])
             done == old.at = Len(old.checks)
             new == [old EXCEPT !.scores = scores, !.at = IF done THEN 1 ELSE old.at + 1,
                                !.pc = IF done THEN "result" ELSE "score"]
  <1>1. /\ RunOK(old, results[r], verdicts[r]) /\ old.pc = "score" /\ old \in RunRecord
        /\ runs' = [runs EXCEPT ![r] = new] /\ UNCHANGED <<store, results, verdicts>>
    BY DEF IInv, Score
  <1>2. /\ results[r] = None /\ verdicts[r] = None /\ old.of \in Datasets
        /\ (old.of \in EvalIds => old.held \in Objects)
        /\ old.at \in DOMAIN old.checks
        /\ (old.answer # None /\ old.answer.errored => NonePassed(old.scores))
    BY <1>1 DEF RunOK
  <1>3. /\ old.checks \in Lists /\ old.scores \in Seq(Scores) /\ old.at \in Nat \ {0}
    BY <1>1, <1>2 DEF RunRecord
  <1>4. Len(old.checks) \in Nat /\ DOMAIN old.checks = 1 .. Len(old.checks)
    BY <1>3, ListSequences
  <1>5. scores \in Seq(Scores) /\ (NonePassed(old.scores) /\ ~passed => NonePassed(scores))
    <2> DEFINE score == [id |-> old.checks[old.at].id, passed |-> passed]
    <2>1. score \in Scores /\ score.passed = passed
      BY <1>2, <1>3, ScoreType
    <2> HIDE DEF score
    <2>2. /\ scores \in Seq(Scores) /\ DOMAIN scores = 1 .. Len(old.scores) + 1
          /\ \A i \in 1 .. Len(old.scores) : scores[i] = old.scores[i]
          /\ scores[Len(old.scores) + 1] = score
          /\ Len(old.scores) \in Nat /\ DOMAIN old.scores = 1 .. Len(old.scores)
      BY <1>3, <2>1, AppendProperties, LenProperties DEF score
    <2> HIDE DEF scores, old
    <2>3. ASSUME NonePassed(old.scores), ~passed, NEW i \in DOMAIN scores
          PROVE  ~ scores[i].passed
      <3>1. CASE i \in 1 .. Len(old.scores)
        BY <2>2, <2>3, <3>1 DEF NonePassed
      <3>2. CASE i = Len(old.scores) + 1
        BY <2>1, <2>2, <2>3, <3>2
      <3>. QED  BY <2>2, <3>1, <3>2
    <2>. QED  BY <2>2, <2>3 DEF NonePassed
  <1> HIDE DEF scores
  <1>6. new \in RunRecord
    <2>1. (IF done THEN 1 ELSE old.at + 1) \in Nat \ {0}
      BY <1>3
    <2>2. (IF done THEN "result" ELSE "score") \in {"score", "result"}
      OBVIOUS
    <2> HIDE DEF done, old
    <2>. QED  BY <1>1, <1>5, <2>1, <2>2 DEF RunRecord
  <1>7. /\ new.pc = (IF done THEN "result" ELSE "score") /\ new.scores = scores
        /\ new.at = (IF done THEN 1 ELSE old.at + 1) /\ new.of = old.of /\ new.held = old.held
        /\ new.answer = old.answer /\ new.checks = old.checks
    BY <1>1 DEF RunRecord
  <1> HIDE DEF new, old
  <1>8. new.answer # None /\ new.answer.errored => NonePassed(new.scores)
    BY <1>2, <1>5, <1>7 DEF old
  <1>9. new.pc = "score" => new.at \in DOMAIN new.checks
    BY <1>2, <1>3, <1>4, <1>7
  <1>10. RunOK(new, results[r], verdicts[r])
    BY <1>2, <1>6, <1>7, <1>8, <1>9 DEF RunOK
  <1>. QED  BY <1>1, <1>10, RunQuietly

LEMMA ScoreCheckKeeps ==
  ASSUME IInv, NEW r \in Runs, NEW reply \in Replies, ScoreCheck(r, reply) PROVE IInv'
  <1> DEFINE check == runs[r].checks[runs[r].at]
  <1>1. runs[r].pc = "score" /\ UNCHANGED <<store, results, verdicts>>
    BY DEF ScoreCheck
  <1>2. CASE ~ AsksJudge(check, runs[r].answer)
    <2>1. Score(r, Passes(check, runs[r].answer))
      BY <1>2 DEF ScoreCheck
    <2>2. /\ Passes(check, runs[r].answer) \in BOOLEAN
          /\ (runs[r].answer.errored => ~ Passes(check, runs[r].answer))
      BY DEF Passes
    <2>. QED  BY <1>1, <2>1, <2>2, ScoreKeeps
  <1>3. CASE AsksJudge(check, runs[r].answer) /\ reply.finish = "raises"
    BY <1>1, <1>3, EndKeeps DEF ScoreCheck
  <1>4. CASE AsksJudge(check, runs[r].answer) /\ reply.finish # "raises"
    <2>1. Score(r, Judged(check, reply))
      BY <1>4 DEF ScoreCheck
    <2>2. Judged(check, reply) \in BOOLEAN /\ ~ runs[r].answer.errored
      BY <1>4 DEF Judged, AsksJudge
    <2>. QED  BY <1>1, <2>1, <2>2, ScoreKeeps
  <1>. QED  BY <1>2, <1>3, <1>4
(* result.json: the dataset and the scores in hand.                         *)
LEMMA WriteResultKeeps ==
  ASSUME IInv, NEW r \in Runs, WriteResult(r) PROVE IInv'
  <1> DEFINE old == runs[r]
             new == [old EXCEPT !.pc = "verdict"]
             result == [dataset |-> old.of, scores |-> old.scores]
  <1>1. /\ RunOK(old, results[r], verdicts[r]) /\ old.pc = "result" /\ old \in RunRecord
        /\ runs' = [runs EXCEPT ![r] = new] /\ results' = [results EXCEPT ![r] = result]
        /\ UNCHANGED <<store, verdicts>>
    BY DEF IInv, WriteResult, Step
  <1>2. /\ results[r] = None /\ verdicts[r] = None /\ old.of \in Datasets
        /\ (old.of \in EvalIds => old.held \in Objects)
        /\ (old.answer # None /\ old.answer.errored => NonePassed(old.scores))
    BY <1>1 DEF RunOK
  <1>3. new \in RunRecord /\ result \in Results
    BY <1>1, <1>2 DEF RunRecord, Results
  <1>4. /\ new.pc = "verdict" /\ new.of = old.of /\ new.held = old.held
        /\ new.scores = old.scores /\ new.answer = old.answer
        /\ result = [dataset |-> new.of, scores |-> new.scores] /\ result.scores = old.scores
    BY <1>1 DEF RunRecord
  <1>5. verdicts' = [verdicts EXCEPT ![r] = verdicts[r]]
    BY <1>1 DEF IInv
  <1>6. /\ UNCHANGED evalConfigs /\ UNCHANGED evaluations
        /\ evaluations \in [EvalIds -> Objects \cup {Unused, Deleted, Torn}]
    BY <1>1 DEF IInv, StoreInv, store
  <1> HIDE DEF new, old, result
  <1>7. NonePassed(old.scores) => NonePassed(new.scores) /\ NonePassed(result.scores)
    BY <1>4
  <1>8. RunOK(new, result, verdicts[r])
    BY <1>2, <1>3, <1>4, <1>7 DEF RunOK
  <1>. QED  BY <1>1, <1>2, <1>3, <1>5, <1>6, <1>8, RunMoves

(* verdict.json: one of the scores of the result on disk.                   *)
LEMMA WriteVerdictKeeps ==
  ASSUME IInv, NEW r \in Runs, WriteVerdict(r) PROVE IInv'
  <1> DEFINE old == runs[r]
             new == [old EXCEPT !.at = old.at + 1]
  <1>1. /\ RunOK(old, results[r], verdicts[r]) /\ old.pc = "verdict" /\ old \in RunRecord
        /\ runs' = [runs EXCEPT ![r] = new] /\ UNCHANGED <<store, results>>
        /\ old.at <= Len(old.scores)
    BY DEF IInv, WriteVerdict
  <1>2. PICK verdict \in {verdicts[r], old.scores[old.at]} :
          verdicts' = [verdicts EXCEPT ![r] = verdict]
    BY DEF IInv, WriteVerdict
  <1>3. /\ results[r] = [dataset |-> old.of, scores |-> old.scores] /\ results[r] # None
        /\ old.of \in Datasets /\ (old.of \in EvalIds => old.held \in Objects)
        /\ old.scores \in Seq(Scores) /\ old.at \in Nat \ {0}
    BY <1>1, EvaluationsAssumption DEF RunOK, RunRecord, Results
  <1>4. old.at \in DOMAIN old.scores /\ old.scores[old.at] \in Scores
    BY <1>1, <1>3, LenProperties
  <1>5. new \in RunRecord
    BY <1>1, <1>3 DEF RunRecord
  <1>6. /\ new.pc = "verdict" /\ new.of = old.of /\ new.held = old.held
        /\ new.scores = old.scores /\ new.answer = old.answer
    BY <1>1 DEF RunRecord
  <1>7. verdict \in {None} \cup Scores
    BY <1>4 DEF IInv
  <1>8. /\ results' = [results EXCEPT ![r] = results[r]] /\ results[r] \in {None} \cup Results
        /\ UNCHANGED evalConfigs /\ UNCHANGED evaluations
        /\ evaluations \in [EvalIds -> Objects \cup {Unused, Deleted, Torn}]
    BY <1>1 DEF IInv, StoreInv, store
  <1>9. verdict # None =>
          results[r] # None /\ \E i \in DOMAIN results[r].scores : results[r].scores[i] = verdict
    <2>1. results[r].scores = old.scores
      BY <1>3
    <2>2. CASE verdict = old.scores[old.at]
      BY <1>3, <1>4, <2>1, <2>2
    <2>3. CASE verdict = verdicts[r]
      BY <1>1, <2>3 DEF RunOK
    <2>. QED  BY <1>2, <2>2, <2>3
  <1>10. new.answer # None /\ new.answer.errored =>
           NonePassed(new.scores) /\ (results[r] # None => NonePassed(results[r].scores))
    BY <1>1, <1>6 DEF RunOK
  <1> HIDE DEF new, old
  <1>11. RunOK(new, results[r], verdict)
    BY <1>3, <1>5, <1>6, <1>9, <1>10 DEF RunOK
  <1>. QED  BY <1>1, <1>2, <1>7, <1>8, <1>11, RunMoves

LEMMA VerdictsOutKeeps ==
  ASSUME IInv, NEW r \in Runs, VerdictsOut(r) PROVE IInv'
  <1> DEFINE old == runs[r]
             new == [old EXCEPT !.pc = "last_run"]
  <1>1. /\ RunOK(old, results[r], verdicts[r]) /\ old.pc = "verdict" /\ old \in RunRecord
        /\ UNCHANGED <<store, results, verdicts>>
    BY DEF IInv, VerdictsOut
  <1>2. CASE IsFile(r)
    BY <1>1, <1>2, EndKeeps DEF VerdictsOut, AfterVerdicts
  <1>3. CASE ~ IsFile(r)
    <2>1. runs' = [runs EXCEPT ![r] = new] /\ old.of \in EvalIds
      BY <1>3 DEF VerdictsOut, AfterVerdicts, Step, IsFile
    <2>2. new \in RunRecord
      BY <1>1 DEF RunRecord
    <2>3. /\ new.pc = "last_run" /\ new.of = old.of /\ new.held = old.held
          /\ new.scores = old.scores /\ new.answer = old.answer
      BY <1>1 DEF RunRecord
    <2>4. new.answer # None /\ new.answer.errored =>
            NonePassed(new.scores) /\ (results[r] # None => NonePassed(results[r].scores))
      BY <1>1, <2>3 DEF RunOK
    <2>5. /\ results[r] = [dataset |-> old.of, scores |-> old.scores] /\ old.held \in Objects
          /\ old.of \in Datasets
          /\ (verdicts[r] # None => results[r] # None /\ \E i \in DOMAIN results[r].scores :
                                                           results[r].scores[i] = verdicts[r])
      BY <1>1, <2>1 DEF RunOK
    <2> HIDE DEF new, old
    <2>6. RunOK(new, results[r], verdicts[r])
      BY <2>1, <2>2, <2>3, <2>4, <2>5 DEF RunOK
    <2>. QED  BY <1>1, <2>1, <2>6, RunQuietly
  <1>. QED  BY <1>2, <1>3
(* A run ends as it writes its evaluation: the object it leaves names it,   *)
(* truly, or is no object at all.                                           *)
LEMMA EndWritingKeeps ==
  ASSUME IInv, NEW r \in Runs, End(r), runs[r].pc = "last_run",
         NEW object \in Objects \cup {Unused, Deleted, Torn},
         UNCHANGED <<evalConfigs, results, verdicts>>,
         WriteEvaluation(runs[r].of, object),
         Stored(object) => object.lastRun = [run |-> r, verdict |-> Verdict(runs[r].scores)]
  PROVE  IInv'
  <1> DEFINE old == runs[r]
             new == [Idle EXCEPT !.pc = "over", !.answer = old.answer]
  <1>1. /\ RunOK(old, results[r], verdicts[r]) /\ runs' = [runs EXCEPT ![r] = new]
        /\ results' = [results EXCEPT ![r] = results[r]] /\ results[r] \in {None} \cup Results
        /\ verdicts' = [verdicts EXCEPT ![r] = verdicts[r]] /\ verdicts[r] \in {None} \cup Scores
        /\ evaluations \in [EvalIds -> Objects \cup {Unused, Deleted, Torn}]
    BY DEF IInv, StoreInv, End
  <1>2. /\ results[r] = [dataset |-> old.of, scores |-> old.scores] /\ old.of \in EvalIds
        /\ results[r] # None
    <2>1. old.scores \in Seq(Scores) /\ old.of \in Datasets
      BY <1>1 DEF RunOK, RunRecord
    <2>2. results[r] = [dataset |-> old.of, scores |-> old.scores] /\ old.of \in EvalIds
      BY <1>1 DEF RunOK
    <2>. QED  BY <2>1, <2>2, EvaluationsAssumption DEF Results
  <1>3. RunOK(new, results[r], verdicts[r])
    BY <1>1, EndedOK
  <1> HIDE DEF new
  <1>4. /\ evaluations' = [evaluations EXCEPT ![old.of] = object]
        /\ evaluations' \in [EvalIds -> Objects \cup {Unused, Deleted, Torn}]
    BY <1>1, <1>2 DEF WriteEvaluation
  <1>5. ASSUME NEW e \in EvalIds, Stored(evaluations'[e])
        PROVE  evaluations'[e] = evaluations[e] \/ Recorded(e, evaluations[e])'
    <2>1. CASE e # old.of
      BY <1>1, <1>4, <2>1
    <2>2. CASE e = old.of
      <3>1. evaluations'[e] = object
        BY <1>1, <1>4, <2>2
      <3>2. /\ evaluations'[e].lastRun.run = r
            /\ evaluations'[e].lastRun.verdict = Verdict(old.scores)
        BY <1>5, <3>1
      <3>3. /\ results'[r] # None /\ results'[r].dataset = e
            /\ results'[r].scores = old.scores
        BY <1>2, <2>2
      <3>. QED  BY <3>2, <3>3 DEF Recorded, Verdict, Passed
    <2>. QED  BY <2>1, <2>2
  <1>. QED  BY <1>1, <1>3, <1>4, <1>5, RunMoves

LEMMA WriteLastRunKeeps ==
  ASSUME IInv, NEW r \in Runs, WriteLastRun(r) PROVE IInv'
  <1> DEFINE last == [run |-> r, verdict |-> Verdict(runs[r].scores)]
             object == [runs[r].held EXCEPT !.lastRun = last]
  <1>1. /\ runs[r].pc = "last_run" /\ End(r) /\ UNCHANGED <<evalConfigs, results, verdicts>>
        /\ WriteEvaluation(runs[r].of, object)
    BY DEF WriteLastRun
  <1>2. runs[r].held \in Objects
    BY <1>1 DEF IInv, RunOK
  <1>3. last \in [run : Runs, verdict : {"no_checks", "pass", "fail"}]
    BY Verdicts
  <1> HIDE DEF last
  <1>4. object \in Objects /\ object.lastRun = last
    BY <1>2, <1>3 DEF Objects
  <1> HIDE DEF object
  <1>. QED  BY <1>1, <1>4, EndWritingKeeps DEF last

LEMMA KillKeeps ==
  ASSUME IInv, NEW r \in Runs, Kill(r) PROVE IInv'
  <1>1. End(r) /\ UNCHANGED <<runConfigs, evalConfigs, results, verdicts>>
    BY DEF Kill
  <1>2. CASE UNCHANGED evaluations
    BY <1>1, <1>2, EndKeeps DEF store
  <1>3. CASE runs[r].pc = "last_run" /\ WriteEvaluation(runs[r].of, Torn)
    <2>1. ~ Stored(Torn)
      BY DEF Stored
    <2>. QED  BY <1>1, <1>3, <2>1, EndWritingKeeps
  <1>. QED  BY <1>2, <1>3 DEF Kill

LEMMA StepInv == IInv /\ [Next]_vars => IInv'
  <1> SUFFICES ASSUME IInv, [Next]_vars PROVE IInv'
    OBVIOUS
  <1>1. CASE Edit
    BY <1>1, EditStep
  <1>2. ASSUME NEW r \in Runs, Advance(r) PROVE IInv'
    <2>1. ASSUME NEW e \in EvalIds, StartEvaluation(r, e) PROVE IInv'
      BY <2>1, StartEvaluationKeeps
    <2>2. ASSUME NEW file \in Files, StartFile(r, file) PROVE IInv'
      BY <2>2, StartFileKeeps
    <2>3. CASE ReadConfigs(r)
      BY <2>3, ReadConfigsKeeps
    <2>4. ASSUME NEW answer \in Answers, RunAgent(r, answer) PROVE IInv'
      BY <2>4, RunAgentKeeps
    <2>5. ASSUME NEW reply \in Replies, ScoreCheck(r, reply) PROVE IInv'
      BY <2>5, ScoreCheckKeeps
    <2>6. CASE WriteResult(r)
      BY <2>6, WriteResultKeeps
    <2>7. CASE WriteVerdict(r)
      BY <2>7, WriteVerdictKeeps
    <2>8. CASE VerdictsOut(r)
      BY <2>8, VerdictsOutKeeps
    <2>9. CASE WriteLastRun(r)
      BY <2>9, WriteLastRunKeeps
    <2>10. CASE Kill(r)
      BY <2>10, KillKeeps
    <2>. QED  BY <1>2, <2>1, <2>2, <2>3, <2>4, <2>5, <2>6, <2>7, <2>8, <2>9, <2>10 DEF Advance
  <1>3. CASE UNCHANGED vars
    <2>1. \A e \in EvalIds : Recorded(e, evaluations[e]) => Recorded(e, evaluations[e])'
      BY <1>3 DEF vars, store, Recorded
    <2>. QED  BY <1>3, <2>1 DEF vars, store, IInv, StoreInv
  <1>. QED  BY <1>1, <1>2, <1>3 DEF Next

(* What a run has in hand agrees, at each of its steps, with the files it   *)
(* has written (run_evaluation and _run_and_score).                         *)
THEOREM Inductive == Spec => []IInv
  BY InitInv, StepInv, PTL DEF Spec

(* evaluation:684: a last_run names a result on disk, of that evaluation,   *)
(* with that verdict, whoever edits or deletes what meanwhile and wherever  *)
(* runs are killed; a verdict.json is a score of a result on disk.          *)
THEOREM LastRunHolds == Spec => []LastRunIsTrue
  <1>1. IInv => LastRunIsTrue
    BY DEF IInv, StoreInv, RunOK, LastRunIsTrue
  <1>. QED  BY <1>1, Inductive, PTL

(* compare:74: the gate holds along a chain of runs that make the checks    *)
(* the first and the last have in common, a floor of one is the verdict     *)
(* pass, and an errored run passes nothing.                                 *)
THEOREM GateIsSound == Spec => []GateHolds
  <1>1. IInv => GateHolds
    <2> SUFFICES ASSUME IInv PROVE GateHolds
      OBVIOUS
    <2>1. ASSUME NEW a \in Known, NEW b \in Known, Gate(a, b, FALSE)
          PROVE  /\ MeetsFloor(b, TRUE) => Verdict(b.scores) = "pass"
                 /\ \A c \in Known \ {a, b} :
                      Gate(b, c, FALSE) /\ Ids(a) \cap Ids(c) \subseteq Ids(b) => Gate(a, c, FALSE)
      BY <2>1, FloorIsPass, GateChain
    <2>2. ASSUME NEW r \in Written, runs[r].answer # None, runs[r].answer.errored
          PROVE  Passed(results[r].scores) = 0
      <3>1. NonePassed(results[r].scores)
        BY <2>2 DEF Written, IInv, RunOK
      <3>. QED  BY <3>1, NoneIsZero
    <2>. QED  BY <2>1, <2>2 DEF GateHolds
  <1>. QED  BY <1>1, Inductive, PTL

(* run_config_file:363: of a config that is accepted the pipeline can be    *)
(* built, but for a loop without a ceiling; stage names are distinct, every *)
(* jump a stage may ask for is a declared transition to a stage, and there  *)
(* is a check, each with a registered evaluator.                            *)
THEOREM AcceptedConfigsBuild == Spec => []AcceptedGraphBuilds
  <1>1. IInv => AcceptedGraphBuilds
    <2> SUFFICES ASSUME IInv, NEW r \in Runs, runs[r].pc = "agent", IsFile(r),
                        NEW file, file = runs[r].held
                 PROVE  LET targets == [n \in DOMAIN file.nodes |-> JumpTarget(file, file.nodes[n].name)]
                        IN  /\ ConstructorRaises(file) =>
                                 \E i \in DOMAIN file.transitions :
                                    UnboundedLoop(file, file.transitions[i])
                            /\ \A m, n \in DOMAIN file.nodes :
                                 file.nodes[m].name = file.nodes[n].name => m = n
                            /\ \A n \in DOMAIN file.nodes :
                                 /\ file.nodes[n].receives \in
                                      {file.nodes[m].name : m \in DOMAIN file.nodes} \cup {Missing}
                                 /\ file.nodes[n].accept =>
                                      \E m \in DOMAIN file.nodes : file.nodes[m].name = targets[n]
                            /\ runs[r].checks # <<>> /\ ValidEvaluators(runs[r].checks)
      BY DEF AcceptedGraphBuilds
    <2>1. file \in Accepted /\ runs[r].checks = Checks(file)
      BY DEF IInv, RunOK, IsFile
    <2>2. runs[r].checks # <<>> /\ ValidEvaluators(runs[r].checks)
      BY <2>1, AcceptedChecks
    <2>. QED  BY <2>1, <2>2, AcceptedRuns
  <1>. QED  BY <1>1, Inductive, PTL
=============================================================================
