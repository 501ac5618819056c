---------------------------- MODULE RunConfigFile ----------------------------
(***************************************************************************)
(* run_config_file.load_config_file: what is wrong with a run config file, *)
(* collected problem by problem, and what a file without problems loads    *)
(* as; and what Pipeline's constructor makes of the graph it declares.     *)
(*                                                                         *)
(* A file is a record: `body' tells whether it is readable YAML with a     *)
(* mapping at its root; `stray' the sections with an unknown key; `apiKey' *)
(* and `task' whether the field is there; `steps' what run.max_steps is;   *)
(* then the checks, nodes and transitions in file order.  A field left out *)
(* is Missing.  A config without a pipeline section has no nodes.  Left    *)
(* out: the values nobody validates.  A threshold that is no number raises *)
(* in Check.from_dict, uncollected; a max_rounds of another type or below  *)
(* zero, and a timeout that is no number, are accepted, and fail the run   *)
(* or refuse its first jump.                                               *)
(***************************************************************************)
EXTENDS Naturals, Sequences

CONSTANTS Missing, Registered   \* no value; the evaluators in scoring's registry

Problem(what, at) == [what |-> what, at |-> at]
If(wrong, what) == IF wrong THEN {Problem(what, 0)} ELSE {}
-----------------------------------------------------------------------------
(* _parse_checks: an unknown evaluator drops the check, a missing id is     *)
(* made up from the position.                                               *)
CheckProblems(file) ==
    {Problem("evaluator", i) : i \in {j \in DOMAIN file.checks :
                                        file.checks[j].evaluator \notin Registered}}

CheckId(file, i) == IF file.checks[i].id = Missing THEN <<"check", i>> ELSE file.checks[i].id

Checks(file) == [i \in DOMAIN file.checks |-> [file.checks[i] EXCEPT !.id = CheckId(file, i)]]
-----------------------------------------------------------------------------
(* _parse_pipeline_node_specs: the nodes with a name, a prompt and no       *)
(* earlier such node of the same name.                                      *)
Whole(node) == node.name # Missing /\ node.prompt

Kept(file) ==
    {i \in DOMAIN file.nodes :
        /\ Whole(file.nodes[i])
        /\ \A j \in 1 .. i - 1 : Whole(file.nodes[j]) => file.nodes[j].name # file.nodes[i].name}

Names(file) == {file.nodes[i].name : i \in Kept(file)}

NodeProblems(file) == {Problem("node", i) : i \in DOMAIN file.nodes \ Kept(file)}
-----------------------------------------------------------------------------
(* _parse_pipeline_transitions and the jump targets: of two transitions     *)
(* from one source the later one is the target.                             *)
Edges(file) ==
    {i \in DOMAIN file.transitions :
        file.transitions[i].source # Missing /\ file.transitions[i].target # Missing}

(* A faulty variant, never used by the specification: the targets are not  *)
(* looked up.                                                              *)
EdgeProblemsSourceOnly(file) ==
    {Problem("transition", i) : i \in DOMAIN file.transitions \ Edges(file)}
    \cup {Problem("source", i) : i \in {j \in Edges(file) :
                                          file.transitions[j].source \notin Names(file)}}

EdgeProblems(file) ==
    {Problem("transition", i) : i \in DOMAIN file.transitions \ Edges(file)}
    \cup {Problem("source", i) : i \in {j \in Edges(file) :
                                          file.transitions[j].source \notin Names(file)}}
    \cup {Problem("target", i) : i \in {j \in Edges(file) :
                                          file.transitions[j].target \notin Names(file)}}

JumpTarget(file, name) ==
    LET mine == {i \in Edges(file) : file.transitions[i].source = name}
    IN  IF mine = {} THEN Missing
        ELSE file.transitions[CHOOSE i \in mine : \A j \in mine : j <= i].target
-----------------------------------------------------------------------------
(* _build_pipeline_nodes: a decision stage needs somewhere to jump to, and  *)
(* receives_from names a node.                                              *)
StageProblems(file) ==
    {Problem("jump", i) : i \in {j \in Kept(file) :
         file.nodes[j].accept /\ JumpTarget(file, file.nodes[j].name) = Missing}}
    \cup {Problem("receives", i) : i \in {j \in Kept(file) :
         file.nodes[j].receives \notin Names(file) \cup {Missing}}}

PipelineProblems(file) ==
    IF file.nodes = <<>> /\ file.transitions = <<>> THEN {}       \* no section
    ELSE IF file.nodes = <<>> THEN If(TRUE, "nodes")
    ELSE NodeProblems(file) \cup EdgeProblems(file) \cup StageProblems(file)

(* load_config_file: what cannot be read is reported alone, every other     *)
(* problem with all the others.                                             *)
Problems(file) ==
    IF file.body # "mapping" THEN If(TRUE, file.body)
    ELSE {Problem("unknown", section) : section \in file.stray}
         \cup If(file.apiKey, "api_key")
         \cup If(~ file.task, "task")
         \cup If(file.steps = "text", "max_steps")
         \cup CheckProblems(file)
         \cup If(\A i \in DOMAIN file.checks : Problem("evaluator", i) \in CheckProblems(file), "checks")
         \cup PipelineProblems(file)
-----------------------------------------------------------------------------
(* Pipeline.__init__ on the nodes and transitions of a file.                *)
IndexOf(file, name) ==
    CHOOSE i \in Kept(file) :
        file.nodes[i].name = name /\ \A j \in Kept(file) : file.nodes[j].name = name => j <= i

UnboundedLoop(file, t) ==
    /\ {t.source, t.target} \subseteq Names(file)
    /\ IndexOf(file, t.target) <= IndexOf(file, t.source)
    /\ t.rounds \in {Missing, 0}

ConstructorRaises(file) ==
    \E i \in Edges(file) : LET t == file.transitions[i] IN
        \/ ~ {t.source, t.target} \subseteq Names(file)
        \/ UnboundedLoop(file, t)

=============================================================================
