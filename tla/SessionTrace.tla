----------------------------- MODULE SessionTrace -----------------------------
(***************************************************************************)
(* The viewer's reading of a run (SessionRun): load_session folds the rows *)
(* of a session into a trace tree, and the tokens it sums over that tree   *)
(* are the ones the run's ledgers account for.  The viewer may read at any *)
(* moment, and a process killed then leaves this state, the hand-back of a *)
(* report and the final saves cut where they are.  A torn last row, which  *)
(* _read_events drops, a torn session_data.json, the order in which nodes  *)
(* are drawn, rendering and timings are left out.                          *)
(***************************************************************************)
EXTENDS SessionRun

(* A node is named by its session, step, type and ordinal within the step. *)
(* A graph has its nodes by name, how many it was given, and the counters  *)
(* of the step being read: its number, its LLM calls and its tools.        *)
Name(s, k, type, n) == <<s, k, type, n>>
Root(s) == Name(s, 0, "session", 1)
NoParent == Name("none", 0, "none", 0)
Node(r, parent) == [row |-> r, parent |-> parent]
NoGraph(s) ==
    [agent |-> s, step |-> 0, llm |-> 0, tool |-> 0, added |-> 1,
     nodes |-> [x \in {Root(s)} |-> Node(Row("session_start", "none", "none", {}), NoParent)]]

(* _Graph.add: under the root.                                             *)
Added(g, id, r) ==
    [g EXCEPT !.added = @ + 1,
              !.nodes = [x \in DOMAIN @ \cup {id} |->
                            IF x = id THEN Node(r, Root(g.agent)) ELSE @[x]]]

Ancillary == {"report", "handoff", "artifact_query"}
Opens(r) == r.type = "llm_call" /\ r.kind \notin Ancillary
Delegates(r) == r.type = "tool_call" /\ r.kind \in {"delegate", "broken"}

(* The table of node builders; a step's two finalize rows are one node,    *)
(* and only calls and tools carry an ordinal.                              *)
Type(r) == IF r.type \in {"token_tracking", "finish_check"} THEN "finalize_step" ELSE r.type
Built == {"llm_call", "tool_call", "handoff", "report", "summarizer", "finalize_step"}
Counted(g, r) ==
    [g EXCEPT !.llm = IF r.type = "llm_call" THEN @ + 1 ELSE @,
              !.tool = IF r.type = "tool_call" THEN @ + 1 ELSE @]
NameOf(g, r) ==
    Name(g.agent, g.step, Type(r),
         CASE r.type = "llm_call" -> g.llm [] r.type = "tool_call" -> g.tool [] OTHER -> 1)

(* A tool's node takes over the calls its row lists, and under a delegate's*)
(* comes the subagent's whole tree.                                        *)
Reparented(g, links, id) ==
    [g EXCEPT !.nodes = [x \in DOMAIN @ |->
        IF x[1] = g.agent /\ x[3] = "llm_call" /\ @[x].row.links \subseteq links
        THEN [@[x] EXCEPT !.parent = id] ELSE @[x]]]
Embedded(g, id, inner) ==
    [g EXCEPT !.added = @ + inner.added,
              !.nodes = [x \in DOMAIN @ \cup DOMAIN inner.nodes |->
                           IF x \notin DOMAIN inner.nodes THEN @[x]
                           ELSE IF x = Root(inner.agent)
                                THEN [inner.nodes[x] EXCEPT !.parent = id] ELSE inner.nodes[x]]]
Place(g, r, inner) ==
    LET c == Counted(g, r)
        id == NameOf(c, r)
        own == Reparented(Added(c, id, r), r.links, id)
    IN CASE Type(r) \notin Built \/ (Type(r) = "finalize_step" /\ id \in DOMAIN g.nodes) -> g
         [] r.type = "tool_call" -> IF Delegates(r) THEN Embedded(own, id, inner) ELSE own
         [] OTHER -> Added(c, id, r)

(* _nest_summarizer_nodes at the end of a step: the summarizer goes under  *)
(* the node that triggered it, and the step's first call of its kind under *)
(* the summarizer.                                                         *)
Summarizer(g) == Name(g.agent, g.step, "summarizer", 1)
Trigger(g) ==
    Name(g.agent, g.step,
         IF g.nodes[Summarizer(g)].row.by = "finalize_step" THEN "finalize_step" ELSE "handoff", 1)
KindCalls(g) ==
    {x \in DOMAIN g.nodes : /\ x[1] = g.agent /\ x[2] = g.step /\ x[3] = "llm_call"
                            /\ g.nodes[x].row.kind = g.nodes[Summarizer(g)].row.kind}
NestWith(g, call) ==
    IF Summarizer(g) \notin DOMAIN g.nodes \/ Trigger(g) \notin DOMAIN g.nodes THEN g
    ELSE [g EXCEPT !.nodes = [x \in DOMAIN @ |->
             CASE x = Summarizer(g) -> [@[x] EXCEPT !.parent = Trigger(g)]
               [] x \in call -> [@[x] EXCEPT !.parent = Summarizer(g)]
               [] OTHER -> @[x]]]
NestsTheLast(g) ==      \* mutant: the step's last call of the kind
    NestWith(g, {x \in KindCalls(g) : \A y \in KindCalls(g) : y[4] <= x[4]})
Nest(g) == NestWith(g, {x \in KindCalls(g) : \A y \in KindCalls(g) : x[4] <= y[4]})

(* _group_into_steps: rows before the first step are in no group.          *)
NextStep(g) == [Nest(g) EXCEPT !.step = @ + 1, !.llm = 0, !.tool = 0]
Read(g, r, inner) ==
    IF Opens(r) THEN Place(NextStep(g), r, inner)
    ELSE IF g.step = 0 THEN g ELSE Place(g, r, inner)

(* load_session: the rows in file order, and the end.                      *)
ReadLog(s, log, inner) ==
    LET read[n \in 0 .. Len(log)] ==
            IF n = 0 THEN NoGraph(s) ELSE Read(read[n - 1], log[n], inner)
    IN read[Len(log)]
EndRows(log) == {i \in DOMAIN log : log[i].type = "session_end"}
TraceOf(s, log, inner) ==
    LET g == Nest(ReadLog(s, log, inner))
    IN IF EndRows(log) = {} THEN g
       ELSE Added(g, Name(s, 0, "session_end", 1),
                  log[CHOOSE i \in EndRows(log) : \A j \in EndRows(log) : j <= i])
SubTrace == TraceOf("sub", rows["sub"], NoGraph("sub"))
Inner(s) == IF s = "sub" THEN NoGraph("sub") ELSE SubTrace
Trace(s) == TraceOf(s, rows[s], Inner(s))

(* _compute_analytics' by_kind, every call being one token, and            *)
(* _usage_summary: own calls by kind plus every descendant's.              *)
CallsIn(nodes, kind) ==
    Cardinality({x \in DOMAIN nodes : x[3] = "llm_call" /\ nodes[x].row.kind = kind})
RolledUp(s, kind) ==
    CountOf(saved[s].calls, kind)
      + Cardinality(UNION {{<<n, i>> : i \in {i \in DOMAIN saved[s].kids[n] :
                                                 saved[s].kids[n][i] = kind}} :
                              n \in DOMAIN saved[s].kids})
-----------------------------------------------------------------------------
(* Every node given to a graph has a name of its own; its parent is in the *)
(* graph, and above it, so that the session's root is above every node.    *)
Above(p, x) ==
    \/ p = Root(x[1]) /\ x # p
    \/ /\ p[1] = x[1] /\ p[2] = x[2]
       /\ \/ x[3] = "llm_call" /\ p[3] \in {"tool_call", "summarizer"}
          \/ x[3] = "summarizer" /\ p[3] \in {"finalize_step", "handoff"}
    \/ x = Root("sub") /\ p[1] # "sub" /\ p[3] = "tool_call"
IsTree(g) ==
    /\ Cardinality(DOMAIN g.nodes) = g.added
    /\ \A x \in DOMAIN g.nodes \ {Root(g.agent)} :
          g.nodes[x].parent \in DOMAIN g.nodes /\ Above(g.nodes[x].parent, x)

(* The viewer counts the steps the run counted, but a resumed run counts   *)
(* from the step it went on from, the viewer from the first it reads; and  *)
(* the run counts one more when its last call was not answered, because it *)
(* failed, was interrupted or raised another exception.                    *)
Base(s) == IF s = "top" THEN Resumed ELSE 0
StepsAgree(s, steps) ==
    \A i \in EndRows(rows[s]) : \E counted \in rows[s][i].links :
        \/ counted = Base(s) + steps
        \/ /\ counted = Base(s) + steps + 1
           /\ stop[s] \in {"llm_failure", "aborted"} \/ at[s] = "died"

(* A call hangs under what made it: a tool's under that tool in the same   *)
(* step, unless the run was cut off in it; a summary's under its own       *)
(* summarizer, unless nothing in the log triggered that; any other under   *)
(* the session.                                                            *)
Triggered(s) ==
    \E i \in DOMAIN rows[s] : \/ rows[s][i].type = "handoff"
                              \/ rows[s][i].type = "summarizer" /\ rows[s][i].by = "finalize_step"
HangsWhereMade(s, x, n) ==
    CASE n.row.by = "tool" ->
            \/ n.parent[1] = s /\ n.parent[2] = x[2] /\ n.parent[3] = "tool_call"
            \/ n.parent = Root(s) /\ pending[s] # "none"
      [] n.row.by = "summarizer" ->
            IF Triggered(s) THEN n.parent = Name(s, x[2], "summarizer", 1) ELSE n.parent = Root(s)
      [] OTHER -> n.parent = Root(s)

(* reader:116: the tree drawn of a session, at any moment of the run and   *)
(* whatever ended it, is a tree, counts the run's steps (from where it was *)
(* resumed, and but for a last call that did not answer) and hangs every   *)
(* call under its maker.                                                   *)
TreeIsTrue ==
    /\ TypeOK
    /\ \A s \in Session :
         LET g == Trace(s) IN
         /\ IsTree(g) /\ StepsAgree(s, g.step)
         /\ \A x \in DOMAIN g.nodes :
               x[1] = s /\ x[3] = "llm_call" => HangsWhereMade(s, x, g.nodes[x])

Grouped(log) ==
    \E i \in DOMAIN log : Opens(log[i]) /\ \A j \in 1 .. (i - 1) : log[j].type # "llm_call"

(* No delegate call of s was cut off between taking over its subagent's    *)
(* usage and its own row, or failed between the subagent and the former.   *)
HandedOver(s) ==
    /\ pending[s] = "delegate" => kids[s] = <<>>
    /\ \A i \in DOMAIN rows[s] : rows[s][i].kind # "broken"

(* agent:479 and reader:1329: the two accounts of a run's tokens agree:    *)
(* what session_data.json rolls up for a session and its subagents is what *)
(* the viewer sums over its tree, per kind.  They do not when the hand-back*)
(* of a report is cut (not HandedOver, or a call not saved), and a call    *)
(* made before the first step (not Grouped) is in no tree.                 *)
UsageAgrees ==
    \A s \in Session :
        /\ saved[s].there /\ saved[s].calls = ledger[s] /\ HandedOver(s)
        /\ Grouped(rows[s]) /\ (saved[s].kids # <<>> => Grouped(rows["sub"]))
        => \A kind \in CallKind : CallsIn(Trace(s).nodes, kind) = RolledUp(s, kind)
=============================================================================
