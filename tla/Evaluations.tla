----------------------------- MODULE Evaluations -----------------------------
(***************************************************************************)
(* The evaluation store and its runs: configs and evaluations, one file    *)
(* each, edited by callers while runs of an evaluation or of a run config  *)
(* file are under way; the scoring of a run; the files a run leaves        *)
(* (result.json, verdict.json, last_run); and the comparison of two runs.  *)
(* A process may be killed between any two writes, or within one.          *)
(*                                                                         *)
(* A run has one session, of the same name.  An output and what a check    *)
(* expects of it are sets of words.  A judge's reply is what its parser    *)
(* tells apart; thresholds and overall scores are in tenths.  Left out:    *)
(* what a run config says (it decides what the agent answers, and any      *)
(* answer may come), names, timestamps, metrics other than the pass rate.  *)
(***************************************************************************)
EXTENDS RunConfigFile, Integers, FiniteSets

CONSTANTS
    Runs, ConfigIds, EvalIds,  \* ids: each is given out once
    CheckLists,                \* what an eval config may hold
    Files,                     \* what a run config file may hold
    Answers,                   \* what a run of the agent may leave
    Replies,                   \* what a judge may reply
    Earlier,                   \* results of runs made before
    None, Unused, Deleted, Torn

(* The checks a run may have, and the results it may write.                 *)
Elements(list) == {list[i] : i \in DOMAIN list}
Lists == CheckLists \cup {Checks(file) : file \in Files}
Scores == [id : UNION {{list[i].id : i \in DOMAIN list} : list \in Lists}, passed : BOOLEAN]
Datasets == EvalIds \cup {file.path : file \in Files}
Results == [dataset : Datasets, scores : Seq(Scores)]

ASSUME EvaluationsAssumption ==
    /\ None \notin Results
    /\ \A list \in CheckLists : list \in Seq(Elements(list))
    /\ \A file \in Files :
         /\ file.path \notin EvalIds
         /\ \A list \in {file.checks, file.nodes, file.transitions} : list \in Seq(Elements(list))
         /\ \A i \in DOMAIN file.checks : {"id", "evaluator"} \subseteq DOMAIN file.checks[i]

VARIABLES
    runConfigs,   \* .run_configs: by id, TRUE, Unused or Deleted
    evalConfigs,  \* .eval_configs: by id, a list of checks
    evaluations,  \* .evaluations: by id, the stored object
    runs,         \* the processes: by id, what run_evaluation has in hand
    results,      \* evals/<run>/result.json
    verdicts      \* <session>/verdict.json

store == <<runConfigs, evalConfigs, evaluations>>
vars == <<store, runs, results, verdicts>>

Stored(object) == object \notin {Unused, Deleted, Torn}
Present(object) == object \notin {Unused, Deleted}

Idle == [pc |-> "idle", of |-> None, held |-> None, checks |-> <<>>,
         answer |-> None, scores |-> <<>>, at |-> 1]

Init ==
    /\ runConfigs = [c \in ConfigIds |-> Unused] /\ evalConfigs = [c \in ConfigIds |-> Unused]
    /\ evaluations = [e \in EvalIds |-> Unused] /\ runs = [r \in Runs |-> Idle]
    /\ results = [r \in Runs |-> None] /\ verdicts = [r \in Runs |-> None]
-----------------------------------------------------------------------------
(* The store.  An update of a run config changes nothing the model keeps.   *)
CreateRunConfig(c) ==
    /\ runConfigs[c] = Unused
    /\ runConfigs' = [runConfigs EXCEPT ![c] = TRUE]
    /\ UNCHANGED <<evalConfigs, evaluations, runs, results, verdicts>>

DeleteRunConfig(c) ==
    /\ Present(runConfigs[c])
    /\ runConfigs' = [runConfigs EXCEPT ![c] = Deleted]
    /\ UNCHANGED <<evalConfigs, evaluations, runs, results, verdicts>>

ValidEvaluators(checks) == \A i \in DOMAIN checks : checks[i].evaluator \in Registered

WriteEvalConfig(c, checks) ==
    /\ evalConfigs' = [evalConfigs EXCEPT ![c] = checks]
    /\ UNCHANGED <<runConfigs, evaluations, runs, results, verdicts>>

CreateEvalConfig(c, checks) ==
    evalConfigs[c] = Unused /\ ValidEvaluators(checks) /\ WriteEvalConfig(c, checks)

UpdateEvalConfig(c, checks) ==
    Stored(evalConfigs[c]) /\ ValidEvaluators(checks) /\ WriteEvalConfig(c, checks)

DeleteEvalConfig(c) == Present(evalConfigs[c]) /\ WriteEvalConfig(c, Deleted)

(* A caller killed within _write, which truncates before it writes. *)
TearEvalConfig(c) == Present(evalConfigs[c]) /\ WriteEvalConfig(c, Torn)

(* _validate_references, at the write only. *)
Resolves(object) ==
    Present(runConfigs[object.runConfig]) /\ Present(evalConfigs[object.evalConfig])

WriteEvaluation(e, object) == evaluations' = [evaluations EXCEPT ![e] = object]

CreateEvaluation(e, rc, ec) ==
    LET object == [runConfig |-> rc, evalConfig |-> ec, lastRun |-> None] IN
    /\ evaluations[e] = Unused /\ Resolves(object)
    /\ WriteEvaluation(e, object)
    /\ UNCHANGED <<runConfigs, evalConfigs, runs, results, verdicts>>

(* update_evaluation takes what it is given: here two references.  A caller *)
(* that sends a last_run of its own would have it written as it is; nothing *)
(* in the repository does.  It reads, checks and writes in one step here.   *)
UpdateEvaluation(e, rc, ec) ==
    LET object == [evaluations[e] EXCEPT !.runConfig = rc, !.evalConfig = ec] IN
    /\ Stored(evaluations[e]) /\ Resolves(object)
    /\ WriteEvaluation(e, object)
    /\ UNCHANGED <<runConfigs, evalConfigs, runs, results, verdicts>>

DeleteEvaluation(e) ==
    /\ Present(evaluations[e])
    /\ WriteEvaluation(e, Deleted)
    /\ UNCHANGED <<runConfigs, evalConfigs, runs, results, verdicts>>
-----------------------------------------------------------------------------
(* The scorers.  _check_expected: the method names the key, if it is one.   *)
Expects(check, key) == (IF check.method = "other" THEN "equals" ELSE check.method) = key

ExactMatch(check, answer) ==
    \/ Expects(check, "equals") /\ answer.output = check.value
    \/ Expects(check, "contains") /\ check.value \subseteq answer.output

(* load_rubric and _criterion_from_dict, for a rubric that is one at all.   *)
ValidRubric(rubric) ==
    /\ rubric.min < rubric.max /\ rubric.criteria # {}
    /\ rubric.anchors # {} /\ rubric.anchors \subseteq rubric.min .. rubric.max

(* score_with_judge and _parse_judge_response: a whole object with a score  *)
(* on the scale for each criterion.  The overall score is not bound to it.  *)
Usable(reply, rubric) ==
    /\ reply.finish = "stop" /\ reply.object
    /\ DOMAIN reply.scores = rubric.criteria
    /\ \A c \in rubric.criteria : reply.scores[c] \in rubric.min .. rubric.max

AsksJudge(check, answer) ==
    /\ check.evaluator = "judge" /\ ~ answer.errored
    /\ Expects(check, "rubric") /\ ValidRubric(check.value)

Judged(check, reply) == Usable(reply, check.value) /\ reply.overall >= check.threshold

(* The dimensions of a trajectory: each call is [tool, fail].               *)
Failing(calls, why) == {i \in DOMAIN calls : calls[i].fail = why}

StreakStarts(calls) ==
    {i \in 1 .. Len(calls) - 2 :
        /\ calls[i].fail # "no" /\ calls[i + 1] = calls[i] /\ calls[i + 2] = calls[i]
        /\ i > 1 => calls[i - 1] # calls[i]}

Trailing(calls) ==
    Cardinality({i \in DOMAIN calls :
                    \A j \in i .. Len(calls) : calls[j].tool \notin {"bash", "write_file"}})

(* The mean of the four dimensions reaches the threshold, everything over   *)
(* the common denominator 2 * calls * steps.                                *)
Efficiency(n, steps, spent, limit) ==
    IF limit = None THEN 2 * steps * spent
    ELSE steps * spent + n * (IF steps <= limit THEN steps ELSE limit)

Trajectory(check, answer) ==
    LET calls == answer.calls
        n == IF calls = <<>> THEN 1 ELSE Len(calls)
        good(lost) == 2 * answer.steps * (n - lost)
        sum == good(Cardinality(Failing(calls, "not_found")))
               + good(Cardinality(Failing(calls, "wrong_args")))
               + good(3 * Cardinality(StreakStarts(calls)))
               + Efficiency(n, answer.steps, n - Trailing(calls), check.value)
    IN  10 * sum >= check.threshold * 4 * 2 * n * answer.steps

(* Every scorer fails an errored run first. *)
Passes(check, answer) ==
    /\ ~ answer.errored
    /\ \/ check.evaluator = "exact_match" /\ ExactMatch(check, answer)
       \/ check.evaluator = "trajectory" /\ Trajectory(check, answer)
-----------------------------------------------------------------------------
(* A run.  What it reads it reads once; the file it was started from is     *)
(* loaded whole or refused.                                                 *)
Step(r, pc) == runs' = [runs EXCEPT ![r].pc = pc]
End(r) == runs' = [runs EXCEPT ![r] = [Idle EXCEPT !.pc = "over", !.answer = runs[r].answer]]

StartEvaluation(r, e) ==
    /\ runs[r].pc = "idle" /\ Stored(evaluations[e])
    /\ runs' = [runs EXCEPT ![r] = [Idle EXCEPT !.pc = "configs", !.of = e,
                                                !.held = evaluations[e]]]
    /\ UNCHANGED <<store, results, verdicts>>

(* A faulty variant, never used by the specification: nothing to score,     *)
(* nothing written.                                                         *)
ReadConfigsWritesNothing(r) ==
    LET ec == evalConfigs[runs[r].held.evalConfig] IN
    /\ runs[r].pc = "configs"
    /\ IF Stored(runConfigs[runs[r].held.runConfig]) /\ Stored(ec)
       THEN runs' = [runs EXCEPT ![r].pc = IF ec = <<>> THEN "last_run" ELSE "agent",
                                 ![r].checks = ec]
       ELSE End(r)
    /\ UNCHANGED <<store, results, verdicts>>

ReadConfigs(r) ==
    LET ec == evalConfigs[runs[r].held.evalConfig] IN
    /\ runs[r].pc = "configs"
    /\ IF Stored(runConfigs[runs[r].held.runConfig]) /\ Stored(ec)
       THEN runs' = [runs EXCEPT ![r].pc = IF ec = <<>> THEN "result" ELSE "agent",
                                 ![r].checks = ec]
       ELSE End(r)
    /\ UNCHANGED <<store, results, verdicts>>

Accepted == {file \in Files : Problems(file) = {}}

StartFile(r, file) ==
    /\ runs[r].pc = "idle"
    /\ IF file \notin Accepted THEN End(r)
       ELSE runs' = [runs EXCEPT ![r] = [Idle EXCEPT !.pc = "agent", !.of = file.path,
                                                     !.held = file, !.checks = Checks(file)]]
    /\ UNCHANGED <<store, results, verdicts>>

IsFile(r) == runs[r].of \notin EvalIds

(* _run_agent: an exception, the pipeline constructor's included, makes an  *)
(* errored run.                                                             *)
RunAgent(r, answer) ==
    /\ runs[r].pc = "agent"
    /\ IsFile(r) /\ ConstructorRaises(runs[r].held) => answer.errored
    /\ runs' = [runs EXCEPT ![r].pc = "score", ![r].answer = answer,
                            ![r].held = IF IsFile(r) THEN None ELSE @]
    /\ UNCHANGED <<store, results, verdicts>>

Score(r, passed) ==
    LET scores == Append(runs[r].scores, [id |-> runs[r].checks[runs[r].at].id, passed |-> passed])
        done == runs[r].at = Len(runs[r].checks)
    IN  runs' = [runs EXCEPT ![r].scores = scores, ![r].at = IF done THEN 1 ELSE @ + 1,
                             ![r].pc = IF done THEN "result" ELSE "score"]

(* _score_checks, one check; the judge's reply may be an exception that no  *)
(* one catches, and with it the run.                                        *)
ScoreCheck(r, reply) ==
    LET check == runs[r].checks[runs[r].at] IN
    /\ runs[r].pc = "score"
    /\ IF ~ AsksJudge(check, runs[r].answer) THEN Score(r, Passes(check, runs[r].answer))
       ELSE IF reply.finish = "raises" THEN End(r)
       ELSE Score(r, Judged(check, reply))
    /\ UNCHANGED <<store, results, verdicts>>

(* pass_rate, as a count, and the verdict made of it. *)
Passed(scores) == Cardinality({i \in DOMAIN scores : scores[i].passed})
Verdict(scores) ==
    IF scores = <<>> THEN "no_checks"
    ELSE IF Passed(scores) = Len(scores) THEN "pass" ELSE "fail"

WriteResult(r) ==
    /\ runs[r].pc = "result"
    /\ results' = [results EXCEPT ![r] = [dataset |-> runs[r].of, scores |-> runs[r].scores]]
    /\ Step(r, "verdict")
    /\ UNCHANGED <<store, verdicts>>

(* With the verdicts out a file's run is over. *)
AfterVerdicts(r) == IF IsFile(r) THEN End(r) ELSE Step(r, "last_run")

(* _write_verdict_artifacts, one score; a failed write is only logged. *)
WriteVerdict(r) ==
    /\ runs[r].pc = "verdict" /\ runs[r].at <= Len(runs[r].scores)
    /\ runs' = [runs EXCEPT ![r].at = @ + 1]
    /\ \E wrote \in BOOLEAN :
         verdicts' = IF wrote THEN [verdicts EXCEPT ![r] = runs[r].scores[runs[r].at]] ELSE verdicts
    /\ UNCHANGED <<store, results>>

VerdictsOut(r) ==
    /\ runs[r].pc = "verdict" /\ runs[r].at > Len(runs[r].scores)
    /\ AfterVerdicts(r)
    /\ UNCHANGED <<store, results, verdicts>>

(* The object read at the start goes back, with last_run, over whatever is  *)
(* there now.                                                               *)
WriteLastRun(r) ==
    /\ runs[r].pc = "last_run"
    /\ WriteEvaluation(runs[r].of, [runs[r].held EXCEPT !.lastRun =
                                        [run |-> r, verdict |-> Verdict(runs[r].scores)]])
    /\ End(r)
    /\ UNCHANGED <<runConfigs, evalConfigs, results, verdicts>>

(* Killed between two writes, or inside the one that is not atomic. *)
Kill(r) ==
    /\ runs[r].pc \notin {"idle", "over"}
    /\ End(r)
    /\ \/ UNCHANGED evaluations
       \/ runs[r].pc = "last_run" /\ WriteEvaluation(runs[r].of, Torn)
    /\ UNCHANGED <<runConfigs, evalConfigs, results, verdicts>>

Edit ==
    \/ \E c \in ConfigIds : CreateRunConfig(c) \/ DeleteRunConfig(c)
                              \/ DeleteEvalConfig(c) \/ TearEvalConfig(c)
    \/ \E c \in ConfigIds, checks \in CheckLists :
         CreateEvalConfig(c, checks) \/ UpdateEvalConfig(c, checks)
    \/ \E e \in EvalIds, rc, ec \in ConfigIds :
         CreateEvaluation(e, rc, ec) \/ UpdateEvaluation(e, rc, ec)
    \/ \E e \in EvalIds : DeleteEvaluation(e)

Advance(r) ==
    \/ \E e \in EvalIds : StartEvaluation(r, e)
    \/ \E file \in Files : StartFile(r, file)
    \/ ReadConfigs(r)
    \/ \E answer \in Answers : RunAgent(r, answer)
    \/ \E reply \in Replies : ScoreCheck(r, reply)
    \/ WriteResult(r) \/ WriteVerdict(r) \/ VerdictsOut(r) \/ WriteLastRun(r)
    \/ Kill(r)

Next == Edit \/ \E r \in Runs : Advance(r)

Spec == Init /\ [][Next]_vars
-----------------------------------------------------------------------------
(* compare_runs and evaluate_verdict, on two results.  Of two scores for    *)
(* one id the dict keeps the later.                                         *)
Ids(result) == {result.scores[i].id : i \in DOMAIN result.scores}

ByCase(result, id) ==
    LET mine == {i \in DOMAIN result.scores : result.scores[i].id = id}
    IN  result.scores[CHOOSE i \in mine : \A j \in mine : j <= i].passed

(* A faulty variant, never used: cases compared in order and not by id.     *)
RegressionsInOrder(baseline, candidate) ==
    {i \in DOMAIN baseline.scores \cap DOMAIN candidate.scores :
        baseline.scores[i].passed /\ ~ candidate.scores[i].passed}

Regressions(baseline, candidate) ==
    {id \in Ids(baseline) \cap Ids(candidate) : ByCase(baseline, id) /\ ~ ByCase(candidate, id)}

(* The gate with a floor under the pass rate, in parts of one.  The empty   *)
(* run's rate is zero.                                                      *)
MeetsFloor(result, full) ==
    full => result.scores # <<>> /\ Passed(result.scores) = Len(result.scores)

Gate(baseline, candidate, full) ==
    /\ baseline.dataset = candidate.dataset
    /\ MeetsFloor(candidate, full)
    /\ Regressions(baseline, candidate) = {}
-----------------------------------------------------------------------------
Written == {r \in Runs : results[r] # None}
Known == Earlier \cup {results[r] : r \in Written}

Recorded(e, object) ==
    LET last == object.lastRun IN last # None =>
      /\ results[last.run] # None /\ results[last.run].dataset = e
      /\ last.verdict = Verdict(results[last.run].scores)

(* evaluation:684: what the store says of a run is what the run wrote: a    *)
(* last_run names a result on disk, of that evaluation, with that verdict,  *)
(* whoever edited or deleted the evaluation or its configs meanwhile and    *)
(* wherever a run was killed; and a verdict.json is a score of a result on  *)
(* disk.                                                                    *)
LastRunIsTrue ==
    /\ \A e \in EvalIds : Stored(evaluations[e]) => Recorded(e, evaluations[e])
    /\ \A r \in Runs : verdicts[r] # None =>
         \E i \in DOMAIN results[r].scores : results[r].scores[i] = verdicts[r]

(* compare:74: the gate holds along a chain of runs: what passed in the     *)
(* first and is checked in all three still passes in the last, so a check   *)
(* only escapes by being left out of the run between; a floor of one is the *)
(* verdict "pass"; and an errored run passes nothing.                       *)
GateHolds ==
    /\ \A a, b \in Known : a # b /\ Gate(a, b, FALSE) =>
         /\ MeetsFloor(b, TRUE) => Verdict(b.scores) = "pass"
         /\ \A c \in Known \ {a, b} :
              Gate(b, c, FALSE) /\ Ids(a) \cap Ids(c) \subseteq Ids(b) => Gate(a, c, FALSE)
    /\ \A r \in Written : runs[r].answer # None /\ runs[r].answer.errored
                            => Passed(results[r].scores) = 0

(* run_config_file:363: of a config that is accepted the pipeline can be    *)
(* built, but for a loop without a ceiling; stage names are distinct, every *)
(* jump a stage may ask for is a declared transition to a stage, and there  *)
(* is a check, each with a registered evaluator.                            *)
AcceptedGraphBuilds ==
    \A r \in Runs : runs[r].pc = "agent" /\ IsFile(r) =>
      LET file == runs[r].held
          targets == [n \in DOMAIN file.nodes |-> JumpTarget(file, file.nodes[n].name)]
      IN  /\ ConstructorRaises(file) =>
               \E i \in DOMAIN file.transitions : UnboundedLoop(file, file.transitions[i])
          /\ \A m, n \in DOMAIN file.nodes :
               file.nodes[m].name = file.nodes[n].name => m = n
          /\ \A n \in DOMAIN file.nodes :
               /\ file.nodes[n].receives \in {file.nodes[m].name : m \in DOMAIN file.nodes} \cup {Missing}
               /\ file.nodes[n].accept => \E m \in DOMAIN file.nodes : file.nodes[m].name = targets[n]
          /\ runs[r].checks # <<>> /\ ValidEvaluators(runs[r].checks)

(* The inductive form: what a run has in hand agrees with the two files it  *)
(* writes, at each of its steps.                                            *)
Objects ==
    [runConfig : ConfigIds, evalConfig : ConfigIds,
     lastRun : {None} \cup [run : Runs, verdict : {"no_checks", "pass", "fail"}]]

RunRecord ==
    [pc : {"idle", "configs", "agent", "score", "result", "verdict", "last_run", "over"},
     of : {None} \cup Datasets, held : {None} \cup Objects \cup Files,
     checks : {<<>>} \cup Lists, answer : {None} \cup Answers, scores : Seq(Scores),
     at : Nat \ {0}]

NonePassed(scores) == \A i \in DOMAIN scores : ~ scores[i].passed

RunOK(run, result, verdict) ==
    /\ run \in RunRecord
    /\ run.pc \in {"idle", "configs", "agent", "score", "result"} => result = None /\ verdict = None
    /\ run.pc \notin {"idle", "over"} =>
         run.of \in Datasets /\ (run.of \in EvalIds => run.held \in Objects)
    /\ run.pc \in {"configs", "last_run"} => run.of \in EvalIds
    /\ run.pc \in {"configs", "agent", "result"} => run.at = 1
    /\ run.pc \in {"configs", "agent"} => run.scores = <<>>
    /\ run.pc = "agent" =>
         /\ run.checks # <<>>
         /\ run.of \notin EvalIds => run.held \in Accepted /\ run.checks = Checks(run.held)
    /\ run.pc = "score" => run.at \in DOMAIN run.checks
    /\ run.pc \in {"verdict", "last_run"} => result = [dataset |-> run.of, scores |-> run.scores]
    /\ run.answer # None /\ run.answer.errored =>
         NonePassed(run.scores) /\ (result # None => NonePassed(result.scores))
    /\ verdict # None =>
         result # None /\ \E i \in DOMAIN result.scores : result.scores[i] = verdict

StoreInv ==
    /\ evalConfigs \in [ConfigIds -> CheckLists \cup {Unused, Deleted, Torn}]
    /\ evaluations \in [EvalIds -> Objects \cup {Unused, Deleted, Torn}]
    /\ \A e \in EvalIds : Stored(evaluations[e]) => Recorded(e, evaluations[e])

IInv ==
    /\ StoreInv
    /\ runs \in [Runs -> RunRecord]
    /\ results \in [Runs -> {None} \cup Results] /\ verdicts \in [Runs -> {None} \cup Scores]
    /\ \A r \in Runs : RunOK(runs[r], results[r], verdicts[r])
=============================================================================
