----------------------------- MODULE Conversation -----------------------------
(***************************************************************************)
(* What the model is shown and what the trace says of it: the message list *)
(* of a run, the retirement of superseded tool results before each call,   *)
(* context resets and resumed runs, the skill loaded on the way, the       *)
(* failure streaks that are signalled, and the llm_call rows of            *)
(* events.jsonl, which store each call's messages as a prefix of an        *)
(* earlier call's plus a suffix.                                           *)
(*                                                                         *)
(* A message is an object with an identity `obj'; Python's `is' compares   *)
(* identities.  A tool result is what its tool and its outcome tell apart: *)
(* "part" is an extract that carries the incompleteness marker, "e1" and   *)
(* "e2" are error classes, the second too short a text to retire.  One     *)
(* text contains another only if both are the same envelope.  "query" and  *)
(* "range" are the two uses of read_tool_artifact, on one artifact.  Left  *)
(* out: token counts, wording, artifact paths, the supersession switch.    *)
(***************************************************************************)
EXTENDS Naturals, Sequences

CONSTANTS
    Batches,      \* the tool calls (with their outcomes) a message may carry
    MaxSteps,     \* bound: the steps of all sessions together
    MaxSessions   \* bound: the first session, continuations and resumed runs

CallNames == {"read", "query", "range", "use_skill"}
Failures == {"e1", "e2"}
Outcomes == {"v1", "v2", "part", "body"} \cup Failures

ASSUME ConversationAssumption ==
    /\ Batches \subseteq Seq([call : CallNames, out : Outcomes])
    /\ MaxSteps \in Nat /\ MaxSessions \in Nat \ {0}

VARIABLES
    pc,           \* the node of the step that runs next
    step,         \* steps begun, by all sessions of the chain
    sessions,     \* sessions so far
    messages,     \* ctx.messages
    todo,         \* the calls of the newest message not yet answered
    records,      \* ctx.tool_records
    made,         \* message objects created so far
    loaded,       \* has use_skill delivered the body?
    rows,         \* the session's llm_call rows, the n-th with call number n
    sent,         \* what each of these calls really sent
    snapshot,     \* the recorder's last snapshot per call kind
    streak,       \* AnomalyDetectNode's instance state
    alarms        \* the anomaly rows

run == <<step, sessions, todo, loaded>>
trace == <<rows, sent, snapshot>>
anomaly == <<streak, alarms>>
vars == <<pc, run, messages, records, made, trace, anomaly>>

Kinds == {"main", "handoff", "artifact_query"}
STREAK_THRESHOLD == 3

Text(tool, out) == [tool |-> tool, out |-> out]
Stub == Text("guard", "stub")
Message(obj, role, id, text, by) ==
    [obj |-> obj, role |-> role, id |-> id, text |-> text, by |-> by]
Plain(obj, role) == Message(obj, role, 0, Text(role, "text"), 0)

NoSnapshot == [call |-> 0, messages |-> <<>>]
NoStreak == [signature |-> Text("none", "none"), id |-> 0, last |-> 0, ordinal |-> 0]

Init ==
    /\ pc = "guard" /\ step = 0 /\ sessions = 1 /\ todo = <<>> /\ loaded = FALSE
    /\ messages = <<Plain(1, "system"), Plain(2, "user")>> /\ records = <<>> /\ made = 2
    /\ rows = <<>> /\ sent = <<>> /\ snapshot = [k \in Kinds |-> NoSnapshot]
    /\ streak = NoStreak /\ alarms = <<>>

(* A new AgentNode: a recorder, a trace, records and a detector of its own. *)
StartSession(opening) ==
    /\ sessions < MaxSessions
    /\ pc' = "guard" /\ sessions' = sessions + 1 /\ todo' = <<>> /\ UNCHANGED step
    /\ messages' = opening /\ records' = <<>>
    /\ rows' = <<>> /\ sent' = <<>> /\ snapshot' = [k \in Kinds |-> NoSnapshot]
    /\ streak' = NoStreak /\ alarms' = <<>>
-----------------------------------------------------------------------------
(* find_retirements: which message is superseded by which call.            *)
Name(record) == IF record.call \in {"query", "range"} THEN "read_tool_artifact" ELSE record.call
Ok(record) == record.out \notin Failures
At(id) == CHOOSE i \in DOMAIN messages : messages[i].role = "tool" /\ messages[i].id = id
First(s) == CHOOSE n \in s : \A m \in s : n <= m
Later(n) == (n + 1) .. Len(records)

IdenticalCallAnyOutcome(n) ==      \* mutant: the newest call may have failed
    {m \in Later(n) : /\ records[m].call = records[n].call
                      /\ \A k \in Later(m) : records[k].call # records[n].call}
IdenticalCall(n) ==
    {m \in Later(n) : /\ records[m].call = records[n].call /\ Ok(records[m])
                      /\ \A k \in Later(m) : records[k].call # records[n].call}

IncompleteExtract(n) ==
    IF Name(records[n]) = "read_tool_artifact" /\ messages[At(records[n].id)].text.out = "part"
    THEN {m \in Later(n) : Ok(records[m]) /\ Name(records[m]) = "read_tool_artifact"}
    ELSE {}

Containment(n) ==
    IF Ok(records[n])
    THEN {m \in Later(n) : /\ Ok(records[m])
                           /\ messages[At(records[m].id)].text = messages[At(records[n].id)].text}
    ELSE {}

(* Case C before case A before case B; stubs and short texts stay.         *)
Retirable(text) == text # Stub /\ text.out \notin {"e2", "pointer"}

Retired(n) ==
    LET cases == <<IdenticalCall(n), IncompleteExtract(n), Containment(n)>>
        found == {c \in 1 .. 3 : cases[c] # {}}
    IN IF ~Retirable(messages[At(records[n].id)].text) \/ found = {} THEN 0
       ELSE records[First(cases[First(found)])].id

(* ContextGuardNode: a new stub object takes a retired message's place.    *)
Retiring(i) == {n \in DOMAIN records : At(records[n].id) = i /\ Retired(n) # 0}
StubInPlace(i) ==                  \* mutant: the message object is rewritten
    [messages[i] EXCEPT !.text = Stub, !.by = Retired(First(Retiring(i)))]
NewStub(i) ==
    Message(made + i, messages[i].role, messages[i].id, Stub, Retired(First(Retiring(i))))

Guard ==
    /\ pc = "guard" /\ pc' = "decide"
    /\ messages' = [i \in DOMAIN messages |-> IF Retiring(i) # {} THEN NewStub(i) ELSE messages[i]]
    /\ made' = made + Len(messages)
    /\ UNCHANGED <<run, records, trace, anomaly>>
-----------------------------------------------------------------------------
(* Recorder._encode_messages: a delta only where every object of the last  *)
(* snapshot of that kind is still in its place.                            *)
Extends(list, base) ==
    Len(base) <= Len(list) /\ \A i \in 1 .. Len(base) : list[i].obj = base[i].obj

EncodeByLength(kind, list) ==      \* mutant: any longer list counts as an extension
    LET base == snapshot[kind].messages IN
    IF snapshot[kind].call # 0 /\ Len(base) <= Len(list)
    THEN [base |-> snapshot[kind].call, prefix |-> Len(base),
          messages |-> SubSeq(list, Len(base) + 1, Len(list))]
    ELSE [base |-> 0, prefix |-> 0, messages |-> list]
Encode(kind, list) ==
    LET base == snapshot[kind].messages IN
    IF snapshot[kind].call # 0 /\ Extends(list, base)
    THEN [base |-> snapshot[kind].call, prefix |-> Len(base),
          messages |-> SubSeq(list, Len(base) + 1, Len(list))]
    ELSE [base |-> 0, prefix |-> 0, messages |-> list]

RecordCall(kind, list) ==
    /\ rows' = Append(rows, Encode(kind, list))
    /\ sent' = Append(sent, list)
    /\ snapshot' = [snapshot EXCEPT ![kind] = [call |-> Len(rows) + 1, messages |-> list]]

CallLLM ==
    /\ pc = "decide" /\ step < MaxSteps
    /\ step' = step + 1
    /\ RecordCall("main", messages)
    /\ messages' = Append(messages, Plain(made + 1, "assistant")) /\ made' = made + 1
    /\ todo' \in Batches
    /\ pc' = IF todo' = <<>> THEN "detect" ELSE "tools"
    /\ UNCHANGED <<sessions, loaded, records, anomaly>>

(* use_skill delivers the body once; a repeat gets a short pointer.        *)
Result(c) ==
    IF c.call # "use_skill" THEN Text(c.call, c.out)
    ELSE Text(c.call, IF loaded THEN "pointer" ELSE "body")

(* One tool call; a query asks the LLM on a message list of its own.       *)
RunTool ==
    LET c == Head(todo) IN
    /\ pc = "tools"
    /\ messages' = Append(messages, Message(made + 1, "tool", made + 1, Result(c), 0))
    /\ records' = Append(records, [id |-> made + 1, call |-> c.call, out |-> c.out, step |-> step])
    /\ IF c.call = "query" THEN RecordCall("artifact_query", <<Plain(made + 2, "user")>>)
       ELSE UNCHANGED trace
    /\ made' = made + 2
    /\ loaded' = (loaded \/ c.call = "use_skill")
    /\ todo' = Tail(todo) /\ pc' = IF todo' = <<>> THEN "detect" ELSE "tools"
    /\ UNCHANGED <<step, sessions, anomaly>>
-----------------------------------------------------------------------------
(* error_signature and trailing_streak.                                    *)
Signature(r) == Text(Name(r), r.out)
Failed(n) == ~Ok(records[n])
InStreakByTool(n) ==               \* mutant: a streak of one tool, whatever the error
    /\ n \in DOMAIN records /\ Failed(n)
    /\ \A m \in n .. Len(records) : Failed(m) /\ Name(records[m]) = Name(records[n])
InStreak(n) ==
    /\ n \in DOMAIN records /\ Failed(n)
    /\ \A m \in n .. Len(records) : Failed(m) /\ Signature(records[m]) = Signature(records[n])
Trailing == {n \in DOMAIN records : InStreak(n)}
TrailingLength == IF Trailing = {} THEN 0 ELSE Len(records) - First(Trailing) + 1

(* AnomalyDetectNode.run.                                                  *)
Carried(signature) ==
    IF streak.signature = signature THEN streak ELSE [NoStreak EXCEPT !.signature = signature, !.ordinal = streak.ordinal]

Signalled(s, length) ==
    IF s.id # 0 THEN [s EXCEPT !.last = length]
    ELSE [s EXCEPT !.last = length, !.id = s.ordinal + 1, !.ordinal = s.ordinal + 1]

Detect ==
    LET length == TrailingLength
        signature == Signature(records[Len(records)])
        s == Carried(signature)
        grown == Signalled(s, length)
    IN
    /\ pc = "detect" /\ pc' = "guard"
    /\ \/ /\ length = 0
          /\ streak' = [NoStreak EXCEPT !.ordinal = streak.ordinal] /\ UNCHANGED alarms
       \/ /\ length > 0 /\ length <= s.last
          /\ streak' = s /\ UNCHANGED alarms
       \/ /\ length \in 1 .. (STREAK_THRESHOLD - 1) /\ length > s.last
          /\ streak' = [s EXCEPT !.last = length] /\ UNCHANGED alarms
       \/ /\ length >= STREAK_THRESHOLD /\ length > s.last
          /\ streak' = grown
          /\ alarms' = Append(alarms, [id |-> grown.id, signature |-> signature,
                                       length |-> length, upto |-> Len(records)])
    /\ UNCHANGED <<run, messages, records, made, trace>>
-----------------------------------------------------------------------------
(* The handoff summary (asked for again when it came back empty), then the *)
(* continuation: the system messages as they are, a new opening message    *)
(* that carries the loaded skill's body.                                   *)
Handoff ==
    /\ pc \in {"decide", "handoff"} /\ sessions < MaxSessions
    /\ pc' = IF pc = "decide" THEN "handoff" ELSE "spawn"
    /\ RecordCall("handoff", Append(messages, Plain(made + 1, "user")))
    /\ made' = made + 1
    /\ UNCHANGED <<run, messages, records, anomaly>>

Spawn ==
    /\ pc \in {"handoff", "spawn"}
    /\ StartSession(<<messages[1], Plain(made + 1, "user")>>)
    /\ made' = made + 1 /\ UNCHANGED loaded

(* A run resumed from this session's checkpoint: the same conversation in  *)
(* new objects, and no skill counts as loaded.                             *)
Resume ==
    /\ pc = "guard"
    /\ StartSession([i \in DOMAIN messages |-> [messages[i] EXCEPT !.obj = made + i]])
    /\ made' = made + Len(messages) /\ loaded' = FALSE

Next == Guard \/ CallLLM \/ RunTool \/ Detect \/ Handoff \/ Spawn \/ Resume

Spec == Init /\ [][Next]_vars
-----------------------------------------------------------------------------
TextType ==
    [tool : CallNames \cup {"read_tool_artifact", "guard", "system", "user", "assistant", "none"},
     out : Outcomes \cup {"stub", "text", "pointer", "none"}]
MessageType ==
    [obj : Nat, role : {"system", "user", "assistant", "tool"}, id : Nat,
     text : TextType, by : Nat]

TypeOK ==
    /\ pc \in {"guard", "decide", "tools", "detect", "handoff", "spawn"}
    /\ step \in 0 .. MaxSteps /\ sessions \in 1 .. MaxSessions
    /\ todo \in Seq([call : CallNames, out : Outcomes]) /\ (todo = <<>> <=> pc # "tools")
    /\ messages \in Seq(MessageType) /\ made \in Nat /\ loaded \in BOOLEAN
    /\ records \in Seq([id : Nat, call : CallNames, out : Outcomes, step : Nat])
    /\ rows \in Seq([base : Nat, prefix : Nat, messages : Seq(MessageType)])
    /\ sent \in Seq(Seq(MessageType)) /\ Len(sent) = Len(rows)
    /\ snapshot \in [Kinds -> [call : Nat, messages : Seq(MessageType)]]
    /\ streak \in [signature : TextType, id : Nat, last : Nat, ordinal : Nat]
    /\ alarms \in Seq([id : Nat, signature : TextType, length : Nat, upto : Nat])

(* What an identity stands for: in the conversation and in the recorder's  *)
(* snapshots one object is one message.                                    *)
In(list) == {list[i] : i \in 1 .. Len(list)}
Held == In(messages) \cup UNION {In(snapshot[k].messages) : k \in Kinds}
ObjectsAreMessages ==
    /\ \A m \in Held : m.obj <= made
    /\ \A m, n \in Held : m.obj = n.obj => m = n

SnapshotsAreCalls ==
    \A k \in Kinds : snapshot[k].call # 0 =>
        snapshot[k].call \in 1 .. Len(sent) /\ snapshot[k].messages = sent[snapshot[k].call]

(* recorder:162, "never a wrong delta": every row, put on top of the call  *)
(* it refers to, is the list of messages its call really sent, through     *)
(* retirements that rewrite the middle of the list.                        *)
DeltasAreTrue ==
    \A n \in 1 .. Len(rows) :
        /\ rows[n].base < n
        /\ sent[n] = IF rows[n].base = 0 THEN rows[n].messages
                     ELSE SubSeq(sent[rows[n].base], 1, rows[n].prefix) \o rows[n].messages

(* Answers and their records lie in the order of the calls; a stub stands  *)
(* where a tool's answer stood and names a later call.                     *)
Answers == {i \in DOMAIN messages : messages[i].role = "tool"}
InCallOrder ==
    /\ Len(messages) >= 2 /\ messages[1].role = "system"
    /\ \A i \in DOMAIN messages :
          /\ messages[i].id <= made
          /\ messages[i].text = Stub => i \in Answers /\ messages[i].by > messages[i].id
    /\ \A i, j \in Answers : i < j => messages[i].id < messages[j].id
    /\ \A n \in DOMAIN records : records[n].id <= made
    /\ \A m, n \in DOMAIN records : m < n => records[m].id < records[n].id
    /\ \A n \in DOMAIN records : \A i \in Answers :
          messages[i].id = records[n].id /\ Ok(records[n]) => messages[i].text.out \notin Failures

(* What the detector knows: the rows of the streak it follows, and, when   *)
(* no message carries two calls, the whole streak up to the last call it   *)
(* was shown.                                                              *)
OneCallPerStep == \A m, n \in DOMAIN records : records[m].step = records[n].step => m = n
Shown ==
    IF pc \in {"tools", "detect"} /\ records # <<>> /\ records[Len(records)].step = step
    THEN Len(records) - 1 ELSE Len(records)
Repeats(n, signature) == Failed(n) /\ Signature(records[n]) = signature
Followed ==
    /\ streak.last <= Shown
    /\ \A n \in (Shown - streak.last + 1) .. Shown : Repeats(n, streak.signature)
    /\ streak.last # 0 /\ streak.last < Shown => ~Repeats(Shown - streak.last, streak.signature)
    /\ streak.last = 0 /\ Shown # 0 => ~Failed(Shown)
    /\ streak.last >= STREAK_THRESHOLD =>
          /\ alarms # <<>> /\ alarms[Len(alarms)].upto = Shown
          /\ alarms[Len(alarms)].length = streak.last
DetectorKnows ==
    /\ \A n \in DOMAIN records : records[n].step <= step
    /\ \A m, n \in DOMAIN records : m < n => records[m].step <= records[n].step
    /\ streak.id <= streak.ordinal
    /\ \A a \in DOMAIN alarms :
          /\ alarms[a].id \in 1 .. streak.ordinal
          /\ alarms[a].upto <= Len(records) /\ alarms[a].length <= alarms[a].upto
          /\ alarms[a].id = streak.id =>
                alarms[a].signature = streak.signature /\ alarms[a].length <= streak.last
    /\ OneCallPerStep => Followed

IInv ==
    /\ TypeOK /\ ObjectsAreMessages /\ SnapshotsAreCalls /\ DeltasAreTrue
    /\ InCallOrder /\ DetectorKnows

(* _resolve_message_deltas, in file order over chains of deltas.           *)
Resolved[n \in 0 .. Len(rows)] ==
    IF n = 0 THEN <<>>
    ELSE LET before == Resolved[n - 1]
             r == rows[n]
         IN Append(before, IF r.base = 0 THEN r.messages
                           ELSE SubSeq(before[r.base], 1, r.prefix) \o r.messages)

(* viewer/reader:1674: the viewer shows every call with exactly the        *)
(* messages it sent.                                                       *)
ReaderRestores == Resolved[Len(rows)] = sent

(* context_guard:164: what is retired is covered: the call a stub names    *)
(* came later, succeeded and still has its answer in the conversation, so  *)
(* following the stubs ends at a live result; every call keeps a message,  *)
(* answer or stub.  A skill's body retired for the pointer of a repeated   *)
(* use_skill is left out: what covers it is gone (SkillIsAbove).           *)
ForAPointer(i) ==
    \E j \in DOMAIN messages :
        messages[j].id = messages[i].by /\ messages[j].text.out = "pointer"
RetiredIsCovered ==
    /\ \A i \in DOMAIN messages : messages[i].text = Stub /\ ~ForAPointer(i) =>
          \E j \in (i + 1) .. Len(messages) :
             /\ messages[j].id = messages[i].by /\ messages[j].role = "tool"
             /\ messages[j].text.out \notin Failures
             /\ messages[j].text # Stub \/ messages[j].by > messages[i].by
    /\ \A n \in DOMAIN records : \E i \in DOMAIN messages :
          messages[i].role = "tool" /\ messages[i].id = records[n].id

(* "was already loaded earlier in this conversation; its full content is   *)
(* above" (registry:604): no body is retired for the pointer that says so. *)
(* The code breaks it: the guard takes the later call as a newer result.   *)
SkillIsAbove == \A i \in DOMAIN messages : messages[i].text = Stub => ~ForAPointer(i)

(* anomaly_detect:104: an anomaly row never overstates: the calls it       *)
(* counts all failed with its signature, at least STREAK_THRESHOLD of      *)
(* them, and the rows of one streak grow.  When every message carries at   *)
(* most one call, every failure from the third on is signalled.            *)
AlarmsAreTrue ==
    /\ \A a \in DOMAIN alarms :
          /\ alarms[a].length >= STREAK_THRESHOLD
          /\ \A n \in (alarms[a].upto - alarms[a].length + 1) .. alarms[a].upto :
                Failed(n) /\ Signature(records[n]) = alarms[a].signature
          /\ \A b \in 1 .. (a - 1) : alarms[b].id = alarms[a].id =>
                /\ alarms[b].signature = alarms[a].signature
                /\ alarms[b].length < alarms[a].length
    /\ pc = "guard" /\ TrailingLength >= STREAK_THRESHOLD
       /\ (\A m, n \in DOMAIN records : records[m].step = records[n].step => m = n) =>
          /\ alarms # <<>> /\ alarms[Len(alarms)].upto = Len(records)
          /\ alarms[Len(alarms)].length = TrailingLength
=============================================================================
