---------------------------- MODULE MCEvaluations ----------------------------
(* Eval configs that check the same things in another order, drop one, or   *)
(* give one id twice; run config files with every kind of problem, alone,   *)
(* and all graphs of two stages with up to two transitions.                 *)
EXTENDS Evaluations, TLC

check(id, evaluator, method, value, threshold) ==
    [id |-> id, evaluator |-> evaluator, method |-> method, value |-> value,
     threshold |-> threshold]
Yes == check(<<"a">>, "exact_match", "equals", {"yes"}, 10)
Has == check(<<"b">>, "exact_match", "contains", {"yes"}, 10)
Path == check(<<"b">>, "trajectory", "other", 1, 7)
Rubric(anchors) == [min |-> 1, max |-> 3, criteria |-> {"clear"}, anchors |-> anchors]
Ask == check(<<"a">>, "judge", "rubric", Rubric({1}), 5)
MCCheckLists == {<<>>, <<Yes, Has>>, <<Path, Ask>>,
                 <<check(<<"a">>, "judge", "rubric", Rubric({4}), 5), Yes>>}

calls(fail, n) == [i \in 1 .. n |-> [tool |-> "read_file", fail |-> fail]]
answer(errored, output, made, steps) ==
    [errored |-> errored, output |-> output, calls |-> made, steps |-> steps]
MCAnswers ==
    {answer(TRUE, {"yes"}, <<>>, 1), answer(FALSE, {"yes"}, calls("other", 3), 2),
     answer(FALSE, {"yes", "more"}, <<[tool |-> "bash", fail |-> "no"]>>, 1)}
reply(finish, score, overall) ==
    [finish |-> finish, object |-> TRUE, scores |-> [c \in {"clear"} |-> score],
     overall |-> overall]
MCReplies == {reply("stop", 2, 9), reply("length", 2, 9), reply("raises", 2, 9)}

Good == [path |-> "f", body |-> "mapping", stray |-> {}, apiKey |-> FALSE, task |-> TRUE,
         steps |-> "int", checks |-> <<[Has EXCEPT !.id = Missing]>>, nodes |-> <<>>,
         transitions |-> <<>>]
Scalars ==
    {Good, [Good EXCEPT !.body = "malformed"], [Good EXCEPT !.stray = {"run"}],
     [Good EXCEPT !.apiKey = TRUE], [Good EXCEPT !.task = FALSE],
     [Good EXCEPT !.steps = "text"], [Good EXCEPT !.checks = <<>>],
     [Good EXCEPT !.checks = <<[Has EXCEPT !.evaluator = "vibes"], Yes>>]}
Node(name, accept, receives) ==
    [name |-> name, prompt |-> TRUE, accept |-> accept, receives |-> receives]
First == Node("s", FALSE, Missing)
NodeLists ==
    {<<First, Node("t", a, from)>> : a \in BOOLEAN, from \in {"s", "u"}}
    \cup {<<First, Node("s", TRUE, "s")>>, <<>>,
          <<First, [Node("t", TRUE, "s") EXCEPT !.prompt = FALSE]>>,
          <<Node("s", TRUE, "t"), Node("t", TRUE, "s")>>}
edge(source, target, rounds) == [source |-> source, target |-> target, rounds |-> rounds]
Back == edge("t", "s", 1)
EdgeLists ==
    {<<>>, <<Back>>, <<edge("t", "s", Missing)>>, <<edge("t", "u", 1)>>,
     <<edge("t", Missing, 1)>>, <<edge("u", "s", 1)>>, <<Back, edge("t", "u", 1)>>,
     <<edge("t", "t", Missing), Back>>, <<edge("s", "t", Missing), Back>>}
Graphs == {[Good EXCEPT !.nodes = nodes, !.transitions = edges] :
              nodes \in NodeLists, edges \in EdgeLists}
MCFiles == Scalars \cup Graphs

(* Results of runs made before: of the evaluation and of the file.          *)
score(id, passed) == [id |-> id, passed |-> passed]
MCEarlier ==
    {[dataset |-> "e", scores |-> scores] :
        scores \in {<<score(<<"a">>, TRUE)>>, <<score(<<"b">>, TRUE), score(<<"a">>, TRUE)>>}}

RunSymmetry == Permutations(Runs)
=============================================================================
