-------------------------- MODULE Conversation_proofs --------------------------
(***************************************************************************)
(* The viewer shows every LLM call with the messages it sent, what is      *)
(* retired is covered by a later answer (but for a skill's body retired    *)
(* for a pointer to it), and an anomaly row never overstates: for every choice of tool calls and any number of steps and  *)
(* sessions.                                                               *)
(***************************************************************************)
EXTENDS Conversation, TLAPS, SequenceTheorems, WellFoundedInduction

RowType == [base : Nat, prefix : Nat, messages : Seq(MessageType)]
RecordType == [id : Nat, call : CallNames, out : Outcomes, step : Nat]
StreakType == [signature : TextType, id : Nat, last : Nat, ordinal : Nat]
AlarmType == [id : Nat, signature : TextType, length : Nat, upto : Nat]

(* RetiredIsCovered for every stub: that the answer it names is there, and *)
(* no failure, holds even where that answer is a skill pointer.            *)
StubsAreCovered ==
    /\ \A i \in DOMAIN messages : messages[i].text = Stub =>
          \E j \in (i + 1) .. Len(messages) :
             /\ messages[j].id = messages[i].by /\ messages[j].role = "tool"
             /\ messages[j].text.out \notin Failures
             /\ messages[j].text # Stub \/ messages[j].by > messages[i].by
    /\ \A n \in DOMAIN records : \E i \in DOMAIN messages :
          messages[i].role = "tool" /\ messages[i].id = records[n].id

(* A set of numbers has a least one. *)
LEMMA LeastNumber ==
    ASSUME NEW S, S \subseteq Nat, S # {}
    PROVE  \E n \in S : \A m \in S : n <= m
<1> DEFINE R == OpToRel(<, Nat)
<1>1. PICK n \in S : \A m \in S : ~(<<m, n>> \in R)
  BY WFMin, NatLessThanWellFounded, Zenon
<1>2. ASSUME NEW m \in S, m < n
      PROVE  <<m, n>> \in R
  <2>1. m \in Nat /\ n \in Nat
    OBVIOUS
  <2> QED
    BY <1>2, <2>1, Zenon DEF OpToRel
<1> HIDE DEF R
<1>3. \A m \in S : ~(m < n)
  BY <1>1, <1>2
<1> QED
  BY <1>3

(* First finds it. *)
LEMMA FirstIsLeast ==
    ASSUME NEW S, S \subseteq Nat, S # {}
    PROVE  First(S) \in S /\ \A m \in S : First(S) <= m
<1>1. \E n \in S : \A m \in S : n <= m
  BY LeastNumber
<1> QED
  BY <1>1 DEF First

(* A list made position by position is a sequence. *)
LEMMA ListOf ==
    ASSUME NEW S, NEW n \in Nat, NEW f \in [1 .. n -> S]
    PROVE  f \in Seq(S) /\ Len(f) = n
<1>1. f \in Seq(S)
  BY SeqDef
<1> QED
  BY <1>1, LenProperties

(* A message made of typed parts is one. *)
LEMMA MessageTypes ==
    ASSUME NEW obj \in Nat, NEW role \in {"system", "user", "assistant", "tool"},
           NEW id \in Nat, NEW text \in TextType, NEW by \in Nat
    PROVE  /\ Message(obj, role, id, text, by) \in MessageType
           /\ Message(obj, role, id, text, by).obj = obj
           /\ Message(obj, role, id, text, by).role = role
           /\ Message(obj, role, id, text, by).id = id
           /\ Message(obj, role, id, text, by).text = text
BY DEF Message, MessageType

LEMMA PlainTypes ==
    ASSUME NEW obj \in Nat, NEW role \in {"system", "user", "assistant"}
    PROVE  /\ Plain(obj, role) \in MessageType /\ Plain(obj, role).obj = obj
           /\ Plain(obj, role).role = role /\ Plain(obj, role).id = 0
           /\ Plain(obj, role).text # Stub
<1>1. Text(role, "text") \in TextType /\ Text(role, "text") # Stub
  BY DEF Text, TextType, Stub
<1> QED
  BY <1>1, MessageTypes DEF Plain

(* What the recorder appends for one call, and what it then remembers. *)
LEMMA RecordTypes ==
    ASSUME TypeOK, NEW kind \in Kinds, NEW list \in Seq(MessageType), RecordCall(kind, list)
    PROVE  /\ rows' \in Seq(RowType) /\ sent' \in Seq(Seq(MessageType)) /\ Len(sent') = Len(rows')
           /\ snapshot' \in [Kinds -> [call : Nat, messages : Seq(MessageType)]]
<1> DEFINE base == snapshot[kind].messages
<1>1. base \in Seq(MessageType) /\ snapshot[kind].call \in Nat
  BY DEF TypeOK
<1>2. SubSeq(list, Len(base) + 1, Len(list)) \in Seq(MessageType)
  <2>1. Len(base) \in Nat /\ Len(list) \in Nat
        /\ \A i \in (Len(base) + 1) .. Len(list) : list[i] \in MessageType
    BY <1>1, LenProperties, ElementOfSeq
  <2> QED
    BY <2>1, SubSeqProperties
<1>3. Len(base) \in Nat
  BY <1>1, LenProperties
<1> HIDE DEF base
<1>4. Encode(kind, list) \in RowType
  BY <1>1, <1>2, <1>3 DEF Encode, RowType, base
<1>5. rows \in Seq(RowType) /\ sent \in Seq(Seq(MessageType)) /\ Len(sent) = Len(rows)
  BY DEF TypeOK, RowType
<1>6. /\ rows' \in Seq(RowType) /\ sent' \in Seq(Seq(MessageType))
      /\ Len(sent') = Len(sent) + 1 /\ Len(rows') = Len(rows) + 1
  BY <1>4, <1>5, AppendProperties DEF RecordCall
<1>7. [call |-> Len(rows) + 1, messages |-> list] \in [call : Nat, messages : Seq(MessageType)]
  BY <1>5, LenProperties
<1> QED
  BY <1>5, <1>6, <1>7 DEF RecordCall, TypeOK

(* A call that supersedes another is one of the session's later calls. *)
LEMMA RetiredBy ==
    ASSUME TypeOK, NEW n \in DOMAIN records, Retired(n) # 0
    PROVE  \E m \in Later(n) : m \in DOMAIN records /\ Ok(records[m]) /\ Retired(n) = records[m].id
<1> DEFINE cases == <<IdenticalCall(n), IncompleteExtract(n), Containment(n)>>
           found == {c \in 1 .. 3 : cases[c] # {}}
<1>1. records \in Seq(RecordType) /\ Len(records) \in Nat /\ DOMAIN records = 1 .. Len(records)
      /\ n \in Nat
  <2>1. records \in Seq(RecordType)
    BY DEF TypeOK, RecordType
  <2> QED
    BY <2>1, LenProperties
<1>2. \A c \in 1 .. 3 : cases[c] \subseteq {m \in Later(n) : Ok(records[m])}
  <2>1. IdenticalCall(n) \subseteq {m \in Later(n) : Ok(records[m])}
    BY DEF IdenticalCall
  <2>2. IncompleteExtract(n) \subseteq {m \in Later(n) : Ok(records[m])}
    BY DEF IncompleteExtract
  <2>3. Containment(n) \subseteq {m \in Later(n) : Ok(records[m])}
    BY DEF Containment
  <2> QED
    BY <2>1, <2>2, <2>3
<1>3. found # {} /\ Retired(n) = records[First(cases[First(found)])].id
  BY DEF Retired
<1>4. First(found) \in found
  <2>1. found \subseteq Nat
    OBVIOUS
  <2> HIDE DEF found
  <2> QED
    BY <1>3, <2>1, FirstIsLeast
<1>5. cases[First(found)] # {} /\ First(found) \in 1 .. 3
  BY <1>4
<1> HIDE DEF cases, found
<1>6. First(cases[First(found)]) \in cases[First(found)]
  <2>1. cases[First(found)] \subseteq Nat
    BY <1>1, <1>2, <1>5 DEF Later
  <2> QED
    BY <1>5, <2>1, FirstIsLeast
<1>7. First(cases[First(found)]) \in {m \in Later(n) : Ok(records[m])}
  BY <1>2, <1>5, <1>6
<1>8. \A m \in Later(n) : m \in DOMAIN records
  BY <1>1 DEF Later
<1> QED
  BY <1>3, <1>7, <1>8

(* A stub is put where a retired answer stands, by a later successful call. *)
LEMMA RetiringBy ==
    ASSUME TypeOK, NEW i \in DOMAIN messages, Retiring(i) # {}
    PROVE  \E n \in DOMAIN records : \E m \in Later(n) :
              /\ n = First(Retiring(i)) /\ At(records[n].id) = i /\ Retired(n) = records[m].id
              /\ m \in DOMAIN records /\ m > n /\ Ok(records[m]) /\ records[m].id \in Nat
<1>1. records \in Seq(RecordType) /\ DOMAIN records = 1 .. Len(records) /\ Len(records) \in Nat
  <2>1. records \in Seq(RecordType)
    BY DEF TypeOK, RecordType
  <2> QED
    BY <2>1, LenProperties
<1>2. Retiring(i) \subseteq Nat
  BY <1>1 DEF Retiring
<1>3. First(Retiring(i)) \in Retiring(i)
  BY <1>2, FirstIsLeast
<1>4. PICK n \in DOMAIN records : n = First(Retiring(i)) /\ At(records[n].id) = i /\ Retired(n) # 0
  BY <1>3 DEF Retiring
<1>5. PICK m \in Later(n) : m \in DOMAIN records /\ Ok(records[m]) /\ Retired(n) = records[m].id
  BY <1>4, RetiredBy
<1>6. m > n /\ records[m].id \in Nat
  <2>1. records[m] \in RecordType
    BY <1>1, <1>5, ElementOfSeq
  <2> QED
    BY <1>1, <1>4, <1>5, <2>1 DEF Later, RecordType
<1> QED
  BY <1>4, <1>5, <1>6

(* The list with the stubs in place is as long as it was. *)
LEMMA GuardTypes ==
    ASSUME TypeOK, Guard
    PROVE  /\ messages' \in Seq(MessageType) /\ Len(messages') = Len(messages)
           /\ DOMAIN messages' = DOMAIN messages /\ DOMAIN messages = 1 .. Len(messages)
           /\ Len(messages) \in Nat /\ made' = made + Len(messages)
           /\ \A i \in DOMAIN messages :
                 messages'[i] = IF Retiring(i) # {} THEN NewStub(i) ELSE messages[i]
           /\ \A i \in DOMAIN messages : Retiring(i) # {} =>
                 NewStub(i) \in MessageType /\ NewStub(i).obj = made + i
<1>1. /\ messages \in Seq(MessageType) /\ Len(messages) \in Nat /\ made \in Nat
      /\ DOMAIN messages = 1 .. Len(messages)
      /\ \A i \in DOMAIN messages : messages[i] \in MessageType
  BY DEF TypeOK
<1>2. ASSUME NEW i \in DOMAIN messages, Retiring(i) # {}
      PROVE  NewStub(i) \in MessageType /\ NewStub(i).obj = made + i
  <2>1. Retired(First(Retiring(i))) \in Nat
    BY <1>2, RetiringBy
  <2>2. made + i \in Nat /\ Stub \in TextType
    BY <1>1 DEF Stub, Text, TextType
  <2>3. messages[i].role \in {"system", "user", "assistant", "tool"} /\ messages[i].id \in Nat
    BY <1>1 DEF MessageType
  <2> QED
    BY <2>1, <2>2, <2>3, MessageTypes DEF NewStub, Message
<1>3. messages' \in [1 .. Len(messages) -> MessageType]
  BY <1>1, <1>2 DEF Guard
<1>4. messages' \in Seq(MessageType) /\ Len(messages') = Len(messages)
  BY <1>1, <1>3, ListOf
<1> QED
  BY <1>1, <1>2, <1>3, <1>4 DEF Guard
-----------------------------------------------------------------------------
(* The trailing streak: the calls it consists of are the last ones, they     *)
(* all failed alike, and the call before them did not.                      *)
LEMMA TrailingRun ==
    ASSUME TypeOK
    PROVE  /\ TrailingLength \in Nat /\ TrailingLength <= Len(records)
           /\ TrailingLength # 0 => records # <<>>
           /\ \A n \in (Len(records) - TrailingLength + 1) .. Len(records) :
                 Repeats(n, Signature(records[Len(records)]))
           /\ \A l \in 1 .. Len(records) :
                 (\A n \in (Len(records) - l + 1) .. Len(records) :
                     Repeats(n, Signature(records[Len(records)]))) => l <= TrailingLength
<1>1. records \in Seq(RecordType) /\ DOMAIN records = 1 .. Len(records) /\ Len(records) \in Nat
  <2>1. records \in Seq(RecordType)
    BY DEF TypeOK, RecordType
  <2> QED
    BY <2>1, LenProperties
<1> DEFINE N == Len(records)
           sig == Signature(records[N])
<1>2. ASSUME NEW n \in 1 .. N
      PROVE  n \in Trailing <=> \A m \in n .. N : Repeats(m, sig)
  <2>1. n \in n .. N /\ N \in n .. N /\ n \in DOMAIN records
    BY <1>1
  <2> DEFINE same == \A m \in n .. N : Failed(m) /\ Signature(records[m]) = Signature(records[n])
  <2>2. n \in Trailing <=> Failed(n) /\ same
    BY <1>1 DEF Trailing, InStreak
  <2>3. same => \A m \in n .. N : Repeats(m, sig)
    <3>1. ASSUME same, NEW m \in n .. N
          PROVE  Failed(m) /\ Signature(records[m]) = Signature(records[n])
                 /\ Signature(records[N]) = Signature(records[n])
      BY <2>1, <3>1
    <3> QED
      BY <3>1 DEF Repeats
  <2>4. (\A m \in n .. N : Repeats(m, sig)) => Failed(n) /\ same
    <3>1. ASSUME \A m \in n .. N : Repeats(m, sig), NEW m \in n .. N
          PROVE  Failed(m) /\ Signature(records[m]) = Signature(records[n]) /\ Failed(n)
      BY <2>1, <3>1 DEF Repeats
    <3> QED
      BY <2>1, <3>1
  <2> QED
    BY <2>2, <2>3, <2>4
<1>3. Trailing \subseteq 1 .. N /\ Trailing \subseteq Nat
  BY <1>1 DEF Trailing
<1>4. CASE Trailing = {}
  <2>1. TrailingLength = 0
    BY <1>4 DEF TrailingLength
  <2>2. ASSUME NEW l \in 1 .. N, \A n \in (N - l + 1) .. N : Repeats(n, sig)
        PROVE  FALSE
    <3>1. N - l + 1 \in 1 .. N
      BY <1>1
    <3> QED
      BY <1>2, <1>4, <2>2, <3>1
  <2> QED
    BY <1>1, <2>1, <2>2
<1>5. CASE Trailing # {}
  <2>1. First(Trailing) \in Trailing /\ \A m \in Trailing : First(Trailing) <= m
    BY <1>3, <1>5, FirstIsLeast
  <2>2. TrailingLength = N - First(Trailing) + 1 /\ First(Trailing) \in 1 .. N
    BY <1>3, <1>5, <2>1 DEF TrailingLength
  <2>3. TrailingLength \in 1 .. N /\ N - TrailingLength + 1 = First(Trailing)
    BY <1>1, <2>2
  <2>4. \A n \in (N - TrailingLength + 1) .. N : Repeats(n, sig)
    BY <1>2, <2>1, <2>2, <2>3
  <2>5. ASSUME NEW l \in 1 .. N, \A n \in (N - l + 1) .. N : Repeats(n, sig)
        PROVE  l <= TrailingLength
    <3>1. N - l + 1 \in 1 .. N
      BY <1>1
    <3>2. N - l + 1 \in Trailing
      BY <1>2, <2>5, <3>1
    <3>3. First(Trailing) <= N - l + 1
      BY <2>1, <3>2
    <3> QED
      BY <1>1, <2>2, <3>1, <3>3
  <2>6. records # <<>>
    BY <1>1, <2>2
  <2> QED
    BY <1>1, <2>3, <2>4, <2>5, <2>6
<1> QED
  BY <1>4, <1>5

(* A call's signature is its tool and its error. *)
LEMMA SignatureTypes ==
    ASSUME NEW r \in RecordType
    PROVE  Signature(r) \in TextType /\ Signature(r).tool # "none"
           /\ Signature(r) # NoStreak.signature
<1>1. r.call \in CallNames /\ r.out \in Outcomes
  BY DEF RecordType
<1>2. Name(r) \in {"read", "use_skill", "read_tool_artifact"}
  BY <1>1 DEF Name, CallNames
<1>3. Signature(r) = [tool |-> Name(r), out |-> r.out]
  BY DEF Signature, Text
<1>4. Signature(r) \in TextType
  BY <1>1, <1>2, <1>3 DEF TextType, CallNames
<1>5. Signature(r).tool # "none"
  BY <1>2, <1>3
<1>6. NoStreak.signature.tool = "none"
  BY DEF NoStreak, Text
<1> QED
  BY <1>4, <1>5, <1>6

(* The detector's state and its rows keep their types. *)
LEMMA DetectTypes ==
    ASSUME TypeOK, Detect
    PROVE  streak' \in StreakType /\ alarms' \in Seq(AlarmType)
<1> DEFINE length == TrailingLength
           signature == Signature(records[Len(records)])
           s == Carried(signature)
           grown == Signalled(s, length)
<1>1. /\ records \in Seq(RecordType) /\ Len(records) \in Nat
      /\ streak \in StreakType /\ alarms \in Seq(AlarmType)
  BY DEF TypeOK, RecordType, StreakType, AlarmType
<1>2. length \in Nat /\ (length # 0 => records # <<>>)
  BY TrailingRun
<1>3. NoStreak \in StreakType
  BY DEF NoStreak, StreakType, Text, TextType
<1>4. [NoStreak EXCEPT !.ordinal = streak.ordinal] \in StreakType
  BY <1>1, <1>3 DEF StreakType
<1>5. ASSUME length # 0
      PROVE  signature \in TextType /\ s \in StreakType
             /\ [s EXCEPT !.last = length] \in StreakType /\ grown \in StreakType
  <2>1. records[Len(records)] \in RecordType
    BY <1>1, <1>2, <1>5, ElementOfSeq
  <2>2. signature \in TextType
    BY <2>1, SignatureTypes
  <2> HIDE DEF signature
  <2>3. s \in StreakType
    BY <1>1, <1>3, <2>2 DEF Carried, StreakType
  <2> HIDE DEF s, length
  <2>4. [s EXCEPT !.last = length] \in StreakType
    BY <1>2, <2>3 DEF StreakType
  <2>5. s.id # 0 => grown \in StreakType
    BY <2>4 DEF Signalled
  <2>6. ASSUME s.id = 0
        PROVE  grown \in StreakType
    <3>1. grown = [signature |-> s.signature, id |-> s.ordinal + 1, last |-> length,
                   ordinal |-> s.ordinal + 1]
      BY <2>3, <2>6 DEF StreakType, Signalled
    <3> QED
      BY <1>2, <2>3, <3>1 DEF StreakType
  <2> QED
    BY <2>2, <2>3, <2>4, <2>5, <2>6
<1>6. ASSUME length # 0
      PROVE  Append(alarms, [id |-> grown.id, signature |-> signature,
                             length |-> length, upto |-> Len(records)]) \in Seq(AlarmType)
  <2>1. grown.id \in Nat /\ signature \in TextType
    BY <1>5, <1>6 DEF StreakType
  <2> HIDE DEF grown, signature, length
  <2>2. [id |-> grown.id, signature |-> signature, length |-> length, upto |-> Len(records)]
           \in AlarmType
    BY <1>1, <1>2, <2>1 DEF AlarmType
  <2> QED
    BY <1>1, <2>2, AppendProperties
<1>7. \/ length = 0 /\ streak' = [NoStreak EXCEPT !.ordinal = streak.ordinal] /\ alarms' = alarms
      \/ length # 0 /\ streak' \in {s, [s EXCEPT !.last = length], grown}
         /\ alarms' \in {alarms, Append(alarms, [id |-> grown.id, signature |-> signature,
                                                 length |-> length, upto |-> Len(records)])}
  BY <1>2 DEF Detect, STREAK_THRESHOLD
<1> QED
  BY <1>1, <1>4, <1>5, <1>6, <1>7

(* A resumed run holds the same messages in new objects. *)
LEMMA ResumedObjects ==
    ASSUME TypeOK
    PROVE  LET opening == [i \in DOMAIN messages |-> [messages[i] EXCEPT !.obj = made + i]]
           IN  /\ opening \in Seq(MessageType) /\ Len(opening) = Len(messages)
               /\ DOMAIN opening = DOMAIN messages
               /\ \A i \in DOMAIN messages :
                     /\ opening[i].obj = made + i /\ opening[i].role = messages[i].role
                     /\ opening[i].id = messages[i].id /\ opening[i].text = messages[i].text
                     /\ opening[i].by = messages[i].by
<1> DEFINE opening == [i \in DOMAIN messages |-> [messages[i] EXCEPT !.obj = made + i]]
<1>1. /\ messages \in Seq(MessageType) /\ Len(messages) \in Nat /\ made \in Nat
      /\ DOMAIN messages = 1 .. Len(messages)
  BY DEF TypeOK
<1>2. ASSUME NEW i \in DOMAIN messages
      PROVE  /\ [messages[i] EXCEPT !.obj = made + i] \in MessageType
             /\ opening[i].obj = made + i /\ opening[i].role = messages[i].role
             /\ opening[i].id = messages[i].id /\ opening[i].text = messages[i].text
             /\ opening[i].by = messages[i].by
  <2>1. messages[i] \in MessageType /\ made + i \in Nat
    BY <1>1
  <2>2. opening[i] = [messages[i] EXCEPT !.obj = made + i]
    OBVIOUS
  <2> HIDE DEF opening
  <2>3. opening[i] \in MessageType
    BY <2>1, <2>2, Zenon DEF MessageType
  <2> QED
    BY <2>1, <2>2, <2>3 DEF MessageType
<1>3. opening \in [1 .. Len(messages) -> MessageType]
  BY <1>1, <1>2
<1>4. opening \in Seq(MessageType) /\ Len(opening) = Len(messages)
  BY <1>1, <1>3, ListOf
<1> QED
  BY <1>1, <1>2, <1>4

(* The records, rows and alarms of a session start empty. *)
LEMMA StartTypes ==
    ASSUME TypeOK, NEW opening \in Seq(MessageType), StartSession(opening), step' = step,
           made' \in Nat, loaded' \in BOOLEAN
    PROVE  TypeOK'
<1>1. sessions' \in 1 .. MaxSessions
  <2>1. sessions < MaxSessions /\ sessions' = sessions + 1 /\ sessions \in 1 .. MaxSessions
    BY DEF StartSession, TypeOK
  <2> QED
    BY <2>1, ConversationAssumption
<1>2. /\ pc' = "guard" /\ todo' = <<>> /\ messages' = opening /\ records' = <<>> /\ rows' = <<>>
      /\ sent' = <<>> /\ snapshot' = [k \in Kinds |-> NoSnapshot] /\ streak' = NoStreak
      /\ alarms' = <<>>
  BY DEF StartSession
<1>3. NoStreak \in StreakType
  BY DEF NoStreak, StreakType, Text, TextType
<1>4. /\ <<>> \in Seq([call : CallNames, out : Outcomes]) /\ <<>> \in Seq(RecordType)
      /\ <<>> \in Seq(RowType) /\ <<>> \in Seq(Seq(MessageType)) /\ <<>> \in Seq(AlarmType)
      /\ Len(sent') = Len(rows')
  BY <1>2
<1>5. snapshot' \in [Kinds -> [call : Nat, messages : Seq(MessageType)]]
  <2>1. <<>> \in Seq(MessageType)
    OBVIOUS
  <2>2. NoSnapshot \in [call : Nat, messages : Seq(MessageType)]
    BY <2>1 DEF NoSnapshot
  <2> QED
    BY <1>2, <2>2
<1>6. step' \in 0 .. MaxSteps
  BY DEF TypeOK
<1> QED
  BY <1>1, <1>2, <1>3, <1>4, <1>5, <1>6
  DEF TypeOK, RowType, RecordType, StreakType, AlarmType

(* Types are kept: one step per action. *)
LEMMA TypeStep ==
    ASSUME TypeOK, InCallOrder, [Next]_vars
    PROVE  TypeOK'
<1>0. /\ made \in Nat /\ messages \in Seq(MessageType) /\ Len(messages) \in Nat
      /\ todo \in Seq([call : CallNames, out : Outcomes]) /\ step \in 0 .. MaxSteps
      /\ records \in Seq(RecordType) /\ loaded \in BOOLEAN
  BY DEF TypeOK, RecordType
<1>1. CASE Guard
  <2>1. messages' \in Seq(MessageType) /\ made' = made + Len(messages)
    BY <1>1, GuardTypes
  <2>2. made' \in Nat
    BY <1>0, <2>1
  <2> QED
    BY <1>1, <2>1, <2>2 DEF Guard, TypeOK, run, trace, anomaly
<1>2. CASE CallLLM
  <2>1. RecordCall("main", messages) /\ "main" \in Kinds
    BY <1>2 DEF CallLLM, Kinds
  <2>2. /\ rows' \in Seq(RowType) /\ sent' \in Seq(Seq(MessageType)) /\ Len(sent') = Len(rows')
        /\ snapshot' \in [Kinds -> [call : Nat, messages : Seq(MessageType)]]
    BY <1>0, <2>1, RecordTypes
  <2>3. Plain(made + 1, "assistant") \in MessageType
    BY <1>0, PlainTypes
  <2>4. messages' \in Seq(MessageType) /\ made' \in Nat
    BY <1>0, <1>2, <2>3, AppendProperties DEF CallLLM
  <2>5. step' \in 0 .. MaxSteps
    BY <1>0, <1>2, ConversationAssumption DEF CallLLM
  <2>6. todo' \in Seq([call : CallNames, out : Outcomes]) /\ (todo' = <<>> <=> pc' # "tools")
        /\ pc' \in {"detect", "tools"}
    BY <1>2, ConversationAssumption DEF CallLLM
  <2> QED
    BY <1>2, <2>2, <2>4, <2>5, <2>6 DEF CallLLM, TypeOK, RowType, anomaly
<1>3. CASE RunTool
  <2> DEFINE c == Head(todo)
  <2>1. c \in [call : CallNames, out : Outcomes]
        /\ Tail(todo) \in Seq([call : CallNames, out : Outcomes])
    BY <1>0, <1>3, HeadTailProperties DEF RunTool, TypeOK
  <2> HIDE DEF c
  <2>2. Result(c) \in TextType
    BY <2>1 DEF Result, Text, TextType, Outcomes, CallNames
  <2>3. Message(made + 1, "tool", made + 1, Result(c), 0) \in MessageType
    BY <1>0, <2>2, MessageTypes
  <2>4. messages' \in Seq(MessageType) /\ made' \in Nat
    BY <1>0, <1>3, <2>3, AppendProperties DEF RunTool, c
  <2>5. records' \in Seq(RecordType)
    <3>1. [id |-> made + 1, call |-> c.call, out |-> c.out, step |-> step] \in RecordType
      BY <1>0, <2>1 DEF RecordType
    <3>2. records' = Append(records, [id |-> made + 1, call |-> c.call, out |-> c.out, step |-> step])
      BY <1>3 DEF RunTool, c
    <3> QED
      BY <1>0, <3>1, <3>2, AppendProperties
  <2>6. /\ rows' \in Seq(RowType) /\ sent' \in Seq(Seq(MessageType)) /\ Len(sent') = Len(rows')
        /\ snapshot' \in [Kinds -> [call : Nat, messages : Seq(MessageType)]]
    <3>1. CASE c.call = "query"
      <4>1. Plain(made + 2, "user") \in MessageType
        BY <1>0, PlainTypes
      <4>2. <<Plain(made + 2, "user")>> \in Seq(MessageType)
        BY <4>1
      <4>3. RecordCall("artifact_query", <<Plain(made + 2, "user")>>) /\ "artifact_query" \in Kinds
        BY <1>3, <3>1 DEF RunTool, c, Kinds
      <4> QED
        BY <4>2, <4>3, RecordTypes
    <3>2. CASE c.call # "query"
      BY <1>3, <3>2 DEF RunTool, c, trace, TypeOK, RowType
    <3> QED
      BY <3>1, <3>2
  <2>7. loaded' \in BOOLEAN /\ todo' \in Seq([call : CallNames, out : Outcomes])
        /\ (todo' = <<>> <=> pc' # "tools") /\ pc' \in {"detect", "tools"}
        /\ step' = step /\ sessions' = sessions /\ UNCHANGED anomaly
    BY <1>0, <1>3, <2>1 DEF RunTool
  <2> QED
    BY <2>4, <2>5, <2>6, <2>7 DEF TypeOK, RowType, RecordType, anomaly
<1>4. CASE Detect
  <2>1. streak' \in StreakType /\ alarms' \in Seq(AlarmType)
    BY <1>4, DetectTypes
  <2>2. /\ pc = "detect" /\ pc' = "guard" /\ UNCHANGED <<run, messages, records, made, trace>>
    BY <1>4 DEF Detect
  <2> QED
    BY <2>1, <2>2 DEF TypeOK, run, trace, StreakType, AlarmType
<1>5. CASE Handoff
  <2>1. Plain(made + 1, "user") \in MessageType
    BY <1>0, PlainTypes
  <2>2. Append(messages, Plain(made + 1, "user")) \in Seq(MessageType)
    BY <1>0, <2>1, AppendProperties
  <2>3. RecordCall("handoff", Append(messages, Plain(made + 1, "user"))) /\ "handoff" \in Kinds
    BY <1>5 DEF Handoff, Kinds
  <2>4. /\ rows' \in Seq(RowType) /\ sent' \in Seq(Seq(MessageType)) /\ Len(sent') = Len(rows')
        /\ snapshot' \in [Kinds -> [call : Nat, messages : Seq(MessageType)]]
    BY <2>2, <2>3, RecordTypes
  <2>5. /\ pc # "tools" /\ pc' \in {"handoff", "spawn"} /\ made' \in Nat
        /\ UNCHANGED <<run, messages, records, anomaly>>
    BY <1>0, <1>5 DEF Handoff
  <2> QED
    BY <2>4, <2>5 DEF TypeOK, RowType, run, anomaly
<1>6. CASE Spawn
  <2>1. messages[1] \in MessageType
    BY <1>0 DEF InCallOrder
  <2>2. Plain(made + 1, "user") \in MessageType /\ made + 1 \in Nat
    BY <1>0, PlainTypes
  <2>3. <<messages[1], Plain(made + 1, "user")>> \in Seq(MessageType)
    BY <2>1, <2>2
  <2> QED
    BY <1>0, <1>6, <2>2, <2>3, StartTypes DEF Spawn, StartSession
<1>7. CASE Resume
  <2> DEFINE opening == [i \in DOMAIN messages |-> [messages[i] EXCEPT !.obj = made + i]]
  <2>1. opening \in Seq(MessageType)
    BY ResumedObjects
  <2>2. StartSession(opening) /\ made' = made + Len(messages) /\ loaded' = FALSE
    BY <1>7 DEF Resume
  <2> HIDE DEF opening
  <2>3. step' = step
    BY <2>2 DEF StartSession
  <2>4. made' \in Nat
    BY <1>0, <2>2
  <2>5. loaded' \in BOOLEAN
    BY <2>2
  <2> QED
    BY <2>1, <2>2, <2>3, <2>4, <2>5, StartTypes
<1>8. CASE UNCHANGED vars
  BY <1>8 DEF vars, run, trace, anomaly, TypeOK
<1> QED
  BY <1>1, <1>2, <1>3, <1>4, <1>5, <1>6, <1>7, <1>8 DEF Next
-----------------------------------------------------------------------------
(* New objects beside the known ones: one object is still one message. *)
LEMMA NewObjects ==
    ASSUME ObjectsAreMessages, made \in Nat, made' \in Nat, made <= made', NEW new,
           \A m \in new : m.obj \in Nat /\ made < m.obj /\ m.obj <= made',
           \A m, n \in new : m.obj = n.obj => m = n,
           \A m \in Held : m.obj \in Nat,
           Held' \subseteq Held \cup new
    PROVE  ObjectsAreMessages'
<1>1. \A m \in Held' : m \in Held \/ m \in new
  OBVIOUS
<1>2. \A m \in Held : m.obj \in Nat /\ m.obj <= made
  BY DEF ObjectsAreMessages
<1>3. \A m \in Held' : m.obj <= made'
  BY <1>1, <1>2
<1>4. ASSUME NEW m \in Held', NEW n \in Held', m.obj = n.obj
      PROVE  m = n
  <2>1. CASE m \in Held /\ n \in Held
    BY <1>4, <2>1 DEF ObjectsAreMessages
  <2>2. CASE m \in new /\ n \in new
    BY <1>4, <2>2
  <2>3. CASE m \in Held /\ n \in new
    BY <1>2, <1>4, <2>3
  <2>4. CASE m \in new /\ n \in Held
    BY <1>2, <1>4, <2>4
  <2> QED
    BY <1>1, <2>1, <2>2, <2>3, <2>4
<1> QED
  BY <1>3, <1>4 DEF ObjectsAreMessages

(* What is held has numbered objects. *)
LEMMA HeldObjects ==
    ASSUME TypeOK
    PROVE  \A m \in Held : m \in MessageType /\ m.obj \in Nat
<1>1. \A s \in Seq(MessageType) : \A m \in In(s) : m \in MessageType
  BY DEF In
<1>2. In(messages) \subseteq MessageType
  BY <1>1 DEF TypeOK
<1>3. \A k \in Kinds : In(snapshot[k].messages) \subseteq MessageType
  BY <1>1 DEF TypeOK
<1> QED
  BY <1>2, <1>3 DEF Held, MessageType

(* Recording a call leaves no object beyond those held or in its list. *)
LEMMA RecordHeld ==
    ASSUME TypeOK, NEW kind \in Kinds, NEW list, RecordCall(kind, list)
    PROVE  \A k \in Kinds : In(snapshot'[k].messages) \subseteq Held \cup In(list)
<1>1. snapshot' = [snapshot EXCEPT ![kind] = [call |-> Len(rows) + 1, messages |-> list]]
  BY DEF RecordCall
<1>2. snapshot'[kind].messages = list
  BY <1>1 DEF TypeOK
<1>3. \A k \in Kinds : k # kind => snapshot'[k] = snapshot[k]
  BY <1>1 DEF TypeOK
<1> QED
  BY <1>2, <1>3 DEF Held

(* The messages of an appended list are those it had and the new one. *)
LEMMA AppendedIn ==
    ASSUME NEW s \in Seq(MessageType), NEW m \in MessageType
    PROVE  In(Append(s, m)) = In(s) \cup {m}
<1>1. /\ Len(Append(s, m)) = Len(s) + 1 /\ Len(s) \in Nat
      /\ \A i \in 1 .. Len(s) : Append(s, m)[i] = s[i]
      /\ Append(s, m)[Len(s) + 1] = m
  BY AppendProperties
<1>2. 1 .. (Len(s) + 1) = (1 .. Len(s)) \cup {Len(s) + 1}
  BY <1>1
<1> QED
  BY <1>1, <1>2 DEF In

(* One object stays one message: one step per action. *)
LEMMA ObjectsStep ==
    ASSUME TypeOK, InCallOrder, ObjectsAreMessages, [Next]_vars
    PROVE  ObjectsAreMessages'
<1>0. /\ made \in Nat /\ messages \in Seq(MessageType) /\ Len(messages) \in Nat
      /\ DOMAIN messages = 1 .. Len(messages) /\ In(messages) \subseteq Held
      /\ \A m \in Held : m.obj \in Nat
  BY HeldObjects DEF TypeOK, Held
<1>1. CASE Guard
  <2>1. /\ Len(messages') = Len(messages) /\ made' = made + Len(messages)
        /\ \A i \in DOMAIN messages :
              messages'[i] = IF Retiring(i) # {} THEN NewStub(i) ELSE messages[i]
        /\ \A i \in DOMAIN messages : Retiring(i) # {} => NewStub(i).obj = made + i
    BY <1>1, GuardTypes
  <2>2. snapshot' = snapshot
    BY <1>1 DEF Guard, trace
  <2> DEFINE new == {NewStub(i) : i \in {j \in DOMAIN messages : Retiring(j) # {}}}
  <2>3. In(messages') \subseteq In(messages) \cup new
    BY <1>0, <2>1 DEF In
  <2>4. Held' \subseteq Held \cup new
    BY <2>2, <2>3 DEF Held
  <2>5. \A m \in new : m.obj \in Nat /\ made < m.obj /\ m.obj <= made'
    BY <1>0, <2>1
  <2>6. \A i, j \in DOMAIN messages :
           Retiring(i) # {} /\ Retiring(j) # {} /\ NewStub(i).obj = NewStub(j).obj => i = j
    BY <1>0, <2>1
  <2>7. \A m, n \in new : m.obj = n.obj => m = n
    BY <2>6
  <2>8. made' \in Nat /\ made <= made'
    BY <1>0, <2>1
  <2> HIDE DEF new
  <2> QED
    BY <1>0, <2>4, <2>5, <2>7, <2>8, NewObjects
<1>2. CASE CallLLM
  <2> DEFINE m == Plain(made + 1, "assistant")
  <2>1. m \in MessageType /\ m.obj = made + 1
    BY <1>0, PlainTypes
  <2>2. messages' = Append(messages, m) /\ made' = made + 1 /\ RecordCall("main", messages)
    BY <1>2 DEF CallLLM
  <2> HIDE DEF m
  <2>3. In(messages') = In(messages) \cup {m}
    BY <1>0, <2>1, <2>2, AppendedIn
  <2>4. \A k \in Kinds : In(snapshot'[k].messages) \subseteq Held
    BY <1>0, <2>2, RecordHeld DEF Kinds
  <2>5. Held' \subseteq Held \cup {m}
    BY <1>0, <2>3, <2>4 DEF Held
  <2>6. made' \in Nat /\ made <= made' /\ \A x \in {m} : x.obj \in Nat /\ made < x.obj /\ x.obj <= made'
    BY <1>0, <2>1, <2>2
  <2> QED
    BY <1>0, <2>5, <2>6, NewObjects
<1>3. CASE RunTool
  <2> DEFINE m == Message(made + 1, "tool", made + 1, Result(Head(todo)), 0)
             q == Plain(made + 2, "user")
  <2>1. /\ m.obj = made + 1 /\ q.obj = made + 2 /\ messages' = Append(messages, m)
        /\ made' = made + 2
    BY <1>3 DEF RunTool, Plain, Message
  <2>2. m \in MessageType /\ q \in MessageType
    <3>1. Head(todo) \in [call : CallNames, out : Outcomes]
      <4>1. todo \in Seq([call : CallNames, out : Outcomes]) /\ todo # <<>>
        BY <1>3 DEF RunTool, TypeOK
      <4> QED
        BY <4>1, HeadTailProperties
    <3>2. Result(Head(todo)) \in TextType
      BY <3>1 DEF Result, Text, TextType, Outcomes, CallNames
    <3> QED
      BY <1>0, <3>2, MessageTypes, PlainTypes
  <2>3. RecordCall("artifact_query", <<q>>) \/ snapshot' = snapshot
    BY <1>3 DEF RunTool, trace
  <2> HIDE DEF m, q
  <2>4. In(messages') = In(messages) \cup {m}
    BY <1>0, <2>1, <2>2, AppendedIn
  <2>5. In(<<q>>) = {q}
    BY DEF In
  <2>6. \A k \in Kinds : In(snapshot'[k].messages) \subseteq Held \cup {q}
    <3>1. CASE RecordCall("artifact_query", <<q>>)
      BY <2>5, <3>1, RecordHeld DEF Kinds
    <3>2. CASE snapshot' = snapshot
      BY <3>2 DEF Held
    <3> QED
      BY <2>3, <3>1, <3>2
  <2>7. Held' \subseteq Held \cup {m, q}
    BY <1>0, <2>4, <2>6 DEF Held
  <2>8. made <= made' /\ made' \in Nat
        /\ \A x \in {m, q} : x.obj \in Nat /\ made < x.obj /\ x.obj <= made'
    BY <1>0, <2>1
  <2>9. \A x, y \in {m, q} : x.obj = y.obj => x = y
    BY <1>0, <2>1
  <2> QED
    BY <1>0, <2>7, <2>8, <2>9, NewObjects
<1>4. CASE Detect \/ UNCHANGED vars
  <2>1. messages' = messages /\ snapshot' = snapshot /\ made' = made
    BY <1>4 DEF Detect, vars, trace
  <2> QED
    BY <2>1 DEF ObjectsAreMessages, Held
<1>5. CASE Handoff
  <2> DEFINE m == Plain(made + 1, "user")
  <2>1. m \in MessageType /\ m.obj = made + 1
    BY <1>0, PlainTypes
  <2>2. messages' = messages /\ made' = made + 1 /\ RecordCall("handoff", Append(messages, m))
    BY <1>5 DEF Handoff
  <2> HIDE DEF m
  <2>3. In(Append(messages, m)) = In(messages) \cup {m}
    BY <1>0, <2>1, AppendedIn
  <2>4. \A k \in Kinds : In(snapshot'[k].messages) \subseteq Held \cup {m}
    BY <1>0, <2>2, <2>3, RecordHeld DEF Kinds
  <2>5. Held' \subseteq Held \cup {m}
    BY <1>0, <2>2, <2>4 DEF Held
  <2>6. made' \in Nat /\ made <= made' /\ \A x \in {m} : x.obj \in Nat /\ made < x.obj /\ x.obj <= made'
    BY <1>0, <2>1, <2>2
  <2> QED
    BY <1>0, <2>5, <2>6, NewObjects
<1>6. CASE Spawn
  <2> DEFINE m == Plain(made + 1, "user")
  <2>1. m.obj = made + 1 /\ messages' = <<messages[1], m>> /\ made' = made + 1
        /\ snapshot' = [k \in Kinds |-> NoSnapshot]
    BY <1>6 DEF Spawn, StartSession, Plain, Message
  <2> HIDE DEF m
  <2>2. messages[1] \in In(messages)
    BY <1>0 DEF In, InCallOrder
  <2>3. In(messages') \subseteq In(messages) \cup {m}
    <3>1. Len(messages') = 2 /\ messages'[1] = messages[1] /\ messages'[2] = m
      BY <2>1
    <3> QED
      BY <2>2, <3>1 DEF In
  <2>4. \A k \in Kinds : In(snapshot'[k].messages) = {}
    BY <2>1 DEF NoSnapshot, In
  <2>5. Held' \subseteq Held \cup {m}
    BY <1>0, <2>3, <2>4 DEF Held
  <2>6. made' \in Nat /\ made <= made' /\ \A x \in {m} : x.obj \in Nat /\ made < x.obj /\ x.obj <= made'
    BY <1>0, <2>1
  <2> QED
    BY <1>0, <2>5, <2>6, NewObjects
<1>7. CASE Resume
  <2> DEFINE opening == [i \in DOMAIN messages |-> [messages[i] EXCEPT !.obj = made + i]]
  <2>1. messages' = opening /\ made' = made + Len(messages)
        /\ snapshot' = [k \in Kinds |-> NoSnapshot]
    BY <1>7 DEF Resume, StartSession
  <2>2. Len(opening) = Len(messages) /\ \A i \in DOMAIN messages : opening[i].obj = made + i
    BY ResumedObjects
  <2> HIDE DEF opening
  <2>3. \A k \in Kinds : In(snapshot'[k].messages) = {}
    BY <2>1 DEF NoSnapshot, In
  <2>4. Held' \subseteq Held \cup In(opening)
    BY <2>1, <2>3 DEF Held
  <2>5. \A m \in In(opening) : m.obj \in Nat /\ made < m.obj /\ m.obj <= made'
    BY <1>0, <2>1, <2>2 DEF In
  <2>6. \A m, n \in In(opening) : m.obj = n.obj => m = n
    BY <1>0, <2>2 DEF In
  <2>7. made' \in Nat /\ made <= made'
    BY <1>0, <2>1
  <2> QED
    BY <1>0, <2>4, <2>5, <2>6, <2>7, NewObjects
<1> QED
  BY <1>1, <1>2, <1>3, <1>4, <1>5, <1>6, <1>7 DEF Next
-----------------------------------------------------------------------------
(* A row on top of the call it refers to is the list that was sent, when one *)
(* object is one message: where every object of the snapshot is still in its *)
(* place, the snapshot is a prefix of the list.                             *)
LEMMA EncodeIsTrue ==
    ASSUME TypeOK, SnapshotsAreCalls, NEW kind \in Kinds, NEW list \in Seq(MessageType),
           \A m \in In(list) : \A n \in In(snapshot[kind].messages) : m.obj = n.obj => m = n
    PROVE  LET r == Encode(kind, list) IN
           /\ r.base \in 0 .. Len(rows)
           /\ list = IF r.base = 0 THEN r.messages
                     ELSE SubSeq(sent[r.base], 1, r.prefix) \o r.messages
<1> DEFINE base == snapshot[kind].messages
           call == snapshot[kind].call
           r == Encode(kind, list)
           n == Len(base)
<1>1. /\ base \in Seq(MessageType) /\ call \in Nat /\ Len(sent) = Len(rows)
      /\ n \in Nat /\ Len(list) \in Nat /\ Len(rows) \in Nat
  BY DEF TypeOK
<1>2. CASE call # 0 /\ Extends(list, base)
  <2>1. call \in 1 .. Len(rows) /\ base = sent[call]
    BY <1>1, <1>2 DEF SnapshotsAreCalls
  <2>2. r = [base |-> call, prefix |-> n, messages |-> SubSeq(list, n + 1, Len(list))]
    BY <1>2 DEF Encode
  <2>3. n <= Len(list) /\ \A i \in 1 .. n : list[i].obj = base[i].obj
    BY <1>2 DEF Extends
  <2>4. \A i \in 1 .. n : list[i] = base[i]
    <3>1. \A i \in 1 .. n : list[i] \in In(list) /\ base[i] \in In(base)
      BY <1>1, <2>3 DEF In
    <3> QED
      BY <2>3, <3>1
  <2> HIDE DEF base
  <2>5. SubSeq(list, 1, n) = base
    <3>1. \A i \in 1 .. n : list[i] \in MessageType
      BY <1>1, <2>3, ElementOfSeq
    <3>2. /\ SubSeq(list, 1, n) \in Seq(MessageType) /\ Len(SubSeq(list, 1, n)) = n
          /\ \A i \in 1 .. n : SubSeq(list, 1, n)[i] = list[i]
      BY <1>1, <3>1, SubSeqProperties
    <3>3. Len(SubSeq(list, 1, n)) = Len(base)
          /\ \A i \in 1 .. Len(SubSeq(list, 1, n)) : SubSeq(list, 1, n)[i] = base[i]
      BY <2>4, <3>2
    <3> QED
      BY <1>1, <3>2, <3>3, SeqEqual
  <2>6. SubSeq(base, 1, n) = base
    BY <1>1, SubSeqFull
  <2>7. SubSeq(list, 1, n) \o SubSeq(list, n + 1, Len(list)) = list
    <3>1. SubSeq(list, 1, n) \o SubSeq(list, n + 1, Len(list)) = SubSeq(list, 1, Len(list))
      <4>1. 1 \in 1 .. (Len(list) + 1) /\ n \in (1 - 1) .. Len(list) /\ Len(list) \in n .. Len(list)
        BY <1>1, <2>3
      <4> HIDE DEF n
      <4> QED
        BY <4>1, ConcatAdjacentSubSeq
    <3> QED
      BY <3>1, SubSeqFull
  <2>8. list = SubSeq(sent[call], 1, n) \o SubSeq(list, n + 1, Len(list))
    BY <2>1, <2>5, <2>6, <2>7
  <2>9. call # 0 /\ call \in 0 .. Len(rows)
    BY <1>2, <2>1
  <2> HIDE DEF n, call, r
  <2>10. r.base = call /\ r.prefix = n /\ r.messages = SubSeq(list, n + 1, Len(list))
    BY <2>2
  <2>11. list = SubSeq(sent[r.base], 1, r.prefix) \o r.messages /\ r.base # 0
         /\ r.base \in 0 .. Len(rows)
    BY <2>8, <2>9, <2>10
  <2> QED
    BY <2>11 DEF r
<1>3. CASE ~(call # 0 /\ Extends(list, base))
  <2>1. r = [base |-> 0, prefix |-> 0, messages |-> list]
    BY <1>3 DEF Encode
  <2> HIDE DEF r
  <2> QED
    BY <1>1, <2>1 DEF r
<1> QED
  BY <1>2, <1>3

(* Appending one true row keeps the others true. *)
LEMMA RecordStep ==
    ASSUME TypeOK, SnapshotsAreCalls, DeltasAreTrue,
           NEW kind \in Kinds, NEW list \in Seq(MessageType), RecordCall(kind, list),
           \A m \in In(list) : \A n \in In(snapshot[kind].messages) : m.obj = n.obj => m = n
    PROVE  SnapshotsAreCalls' /\ DeltasAreTrue'
<1> DEFINE r == Encode(kind, list)
           N == Len(rows)
<1>1. /\ r.base \in 0 .. N
      /\ list = IF r.base = 0 THEN r.messages
                ELSE SubSeq(sent[r.base], 1, r.prefix) \o r.messages
  BY EncodeIsTrue
<1>2. /\ rows' = Append(rows, r) /\ sent' = Append(sent, list)
      /\ snapshot' = [snapshot EXCEPT ![kind] = [call |-> N + 1, messages |-> list]]
  BY DEF RecordCall
<1> HIDE DEF r
<1>3. rows \in Seq(RowType) /\ sent \in Seq(Seq(MessageType)) /\ Len(sent) = N /\ N \in Nat
      /\ \A n \in 1 .. N : rows[n].base \in Nat
  <2>1. rows \in Seq(RowType) /\ sent \in Seq(Seq(MessageType)) /\ Len(sent) = N
    BY DEF TypeOK, RowType
  <2>2. \A n \in 1 .. N : rows[n] \in RowType
    BY <2>1, ElementOfSeq
  <2> QED
    BY <2>1, <2>2 DEF RowType
<1>4. /\ Len(rows') = N + 1 /\ Len(sent') = N + 1
      /\ rows'[N + 1] = r /\ sent'[N + 1] = list
      /\ \A n \in 1 .. N : rows'[n] = rows[n] /\ sent'[n] = sent[n]
  BY <1>2, <1>3
<1>5. SnapshotsAreCalls'
  <2>1. ASSUME NEW k \in Kinds, snapshot'[k].call # 0
        PROVE  snapshot'[k].call \in 1 .. Len(sent')
               /\ snapshot'[k].messages = sent'[snapshot'[k].call]
    <3>1. CASE k = kind
      <4>1. snapshot'[k] = [call |-> N + 1, messages |-> list]
        BY <1>2, <3>1 DEF TypeOK
      <4> QED
        BY <1>3, <1>4, <4>1
    <3>2. CASE k # kind
      <4>1. snapshot'[k] = snapshot[k]
        BY <1>2, <3>2 DEF TypeOK
      <4>2. snapshot[k].call \in 1 .. N /\ snapshot[k].messages = sent[snapshot[k].call]
        BY <1>3, <2>1, <4>1 DEF SnapshotsAreCalls
      <4> QED
        BY <1>3, <1>4, <4>1, <4>2
    <3> QED
      BY <3>1, <3>2
  <2> QED
    BY <2>1 DEF SnapshotsAreCalls
<1>6. ASSUME NEW n \in 1 .. (N + 1)
      PROVE  /\ rows'[n].base < n
             /\ sent'[n] = IF rows'[n].base = 0 THEN rows'[n].messages
                           ELSE SubSeq(sent'[rows'[n].base], 1, rows'[n].prefix) \o rows'[n].messages
  <2>1. CASE n = N + 1
    <3>1. r.base < n /\ (r.base # 0 => sent'[r.base] = sent[r.base])
      BY <1>1, <1>3, <1>4, <2>1
    <3> QED
      BY <1>1, <1>4, <2>1, <3>1
  <2>2. CASE n # N + 1
    <3>1. n \in 1 .. N
      BY <1>3, <2>2
    <3>2. /\ rows[n].base < n
          /\ sent[n] = IF rows[n].base = 0 THEN rows[n].messages
                       ELSE SubSeq(sent[rows[n].base], 1, rows[n].prefix) \o rows[n].messages
      BY <3>1 DEF DeltasAreTrue
    <3>3. rows[n].base # 0 => sent'[rows[n].base] = sent[rows[n].base]
      <4>1. rows[n].base \in Nat /\ rows[n].base < n
        BY <1>3, <3>1, <3>2
      <4>2. rows[n].base # 0 => rows[n].base \in 1 .. N
        BY <1>3, <3>1, <4>1
      <4> QED
        BY <1>4, <4>2
    <3> QED
      BY <1>4, <3>1, <3>2, <3>3
  <2> QED
    BY <2>1, <2>2
<1> QED
  BY <1>4, <1>5, <1>6 DEF DeltasAreTrue

(* Every row stays true: one step per action. *)
LEMMA DeltasStep ==
    ASSUME TypeOK, InCallOrder, ObjectsAreMessages, SnapshotsAreCalls, DeltasAreTrue, [Next]_vars
    PROVE  SnapshotsAreCalls' /\ DeltasAreTrue'
<1>0. /\ made \in Nat /\ messages \in Seq(MessageType) /\ In(messages) \subseteq Held
      /\ \A m \in Held : m.obj \in Nat /\ m.obj <= made
      /\ \A k \in Kinds : In(snapshot[k].messages) \subseteq Held
  BY HeldObjects DEF TypeOK, Held, ObjectsAreMessages
<1>1. ASSUME NEW m \in MessageType, m.obj > made, NEW n \in Held, m.obj = n.obj
      PROVE  FALSE
  BY <1>0, <1>1
<1>2. CASE CallLLM
  <2>1. RecordCall("main", messages) /\ "main" \in Kinds
    BY <1>2 DEF CallLLM, Kinds
  <2>2. \A m \in In(messages) : \A n \in In(snapshot["main"].messages) : m.obj = n.obj => m = n
    BY <1>0, <2>1 DEF ObjectsAreMessages
  <2> QED
    BY <1>0, <2>1, <2>2, RecordStep
<1>3. CASE RunTool
  <2> DEFINE q == Plain(made + 2, "user")
  <2>1. q \in MessageType /\ q.obj = made + 2
    BY <1>0, PlainTypes
  <2>2. RecordCall("artifact_query", <<q>>) \/ UNCHANGED trace
    BY <1>3 DEF RunTool
  <2> HIDE DEF q
  <2>3. <<q>> \in Seq(MessageType) /\ In(<<q>>) = {q} /\ "artifact_query" \in Kinds
    BY <2>1 DEF In, Kinds
  <2>4. \A m \in In(<<q>>) : \A n \in In(snapshot["artifact_query"].messages) :
           m.obj = n.obj => m = n
    BY <1>0, <1>1, <2>1, <2>3
  <2>5. CASE RecordCall("artifact_query", <<q>>)
    BY <2>3, <2>4, <2>5, RecordStep
  <2>6. CASE UNCHANGED trace
    BY <2>6 DEF trace, SnapshotsAreCalls, DeltasAreTrue
  <2> QED
    BY <2>2, <2>5, <2>6
<1>4. CASE Handoff
  <2> DEFINE m == Plain(made + 1, "user")
  <2>1. m \in MessageType /\ m.obj = made + 1
    BY <1>0, PlainTypes
  <2>2. RecordCall("handoff", Append(messages, m)) /\ "handoff" \in Kinds
    BY <1>4 DEF Handoff, Kinds
  <2> HIDE DEF m
  <2>3. In(Append(messages, m)) = In(messages) \cup {m} /\ Append(messages, m) \in Seq(MessageType)
    BY <1>0, <2>1, AppendedIn, AppendProperties
  <2>4. \A x \in In(Append(messages, m)) : \A n \in In(snapshot["handoff"].messages) :
           x.obj = n.obj => x = n
    BY <1>0, <1>1, <2>1, <2>2, <2>3 DEF ObjectsAreMessages
  <2> QED
    BY <2>2, <2>3, <2>4, RecordStep
<1>5. CASE Guard \/ Detect \/ UNCHANGED vars
  BY <1>5 DEF Guard, Detect, vars, trace, SnapshotsAreCalls, DeltasAreTrue
<1>6. CASE Spawn \/ Resume
  <2>1. rows' = <<>> /\ sent' = <<>> /\ snapshot' = [k \in Kinds |-> NoSnapshot]
    BY <1>6 DEF Spawn, Resume, StartSession
  <2> QED
    BY <2>1 DEF NoSnapshot, SnapshotsAreCalls, DeltasAreTrue
<1> QED
  BY <1>2, <1>3, <1>4, <1>5, <1>6 DEF Next
-----------------------------------------------------------------------------
(* One row resolved on top of the calls before it. *)
ResolveRow(before, r) ==
    Append(before, IF r.base = 0 THEN r.messages
                   ELSE SubSeq(before[r.base], 1, r.prefix) \o r.messages)

(* Resolving a true row on top of the calls before it gives its call. *)
LEMMA RowResolves ==
    ASSUME TypeOK, DeltasAreTrue, NEW n \in 1 .. Len(rows)
    PROVE  ResolveRow(SubSeq(sent, 1, n - 1), rows[n]) = SubSeq(sent, 1, n)
<1> DEFINE before == SubSeq(sent, 1, n - 1)
<1>1. /\ sent \in Seq(Seq(MessageType)) /\ Len(sent) = Len(rows) /\ Len(rows) \in Nat /\ n \in Nat
      /\ \A i \in 1 .. (n - 1) : sent[i] \in Seq(MessageType)
  BY ElementOfSeq DEF TypeOK
<1>2. /\ before \in Seq(Seq(MessageType)) /\ \A i \in 1 .. (n - 1) : before[i] = sent[i]
  <2>1. /\ before \in Seq(Seq(MessageType))
        /\ \A i \in 1 .. ((n - 1) - 1 + 1) : before[i] = sent[1 + i - 1]
    BY <1>1, SubSeqProperties
  <2> HIDE DEF before
  <2> QED
    BY <1>1, <2>1
<1>3. rows[n].base \in Nat
  <2>1. rows \in Seq(RowType)
    BY DEF TypeOK, RowType
  <2>2. rows[n] \in RowType
    BY <2>1, ElementOfSeq
  <2> QED
    BY <2>2 DEF RowType
<1>4. /\ rows[n].base < n
      /\ sent[n] = IF rows[n].base = 0 THEN rows[n].messages
                   ELSE SubSeq(sent[rows[n].base], 1, rows[n].prefix) \o rows[n].messages
  BY DEF DeltasAreTrue
<1>5. rows[n].base # 0 => before[rows[n].base] = sent[rows[n].base]
  <2>1. rows[n].base # 0 => rows[n].base \in 1 .. (n - 1)
    BY <1>1, <1>3, <1>4
  <2> QED
    BY <1>2, <2>1
<1>6. ResolveRow(before, rows[n]) = Append(before, sent[n])
  BY <1>4, <1>5 DEF ResolveRow
<1>7. sent[n] \in Seq(MessageType)
  BY <1>1, ElementOfSeq
<1>8. Append(before, sent[n]) = before \o <<sent[n]>>
  BY <1>2, <1>7, AppendIsConcat
<1>9. SubSeq(sent, 1, n) = before \o <<sent[n]>>
  <2>1. 1 \in 1 .. Len(sent) /\ n \in 1 .. Len(sent)
    BY <1>1
  <2> QED
    BY <1>1, <2>1, SubSeqRecursiveSecond
<1> QED
  BY <1>6, <1>8, <1>9

(* The viewer restores exactly what was sent: by the least row it would get  *)
(* wrong.                                                                   *)
LEMMA ReaderIsRight ==
    ASSUME TypeOK, DeltasAreTrue
    PROVE  ReaderRestores
<1> DEFINE N == Len(rows)
           right == [n \in 0 .. N |-> SubSeq(sent, 1, n)]
           Reading(f) == [n \in 0 .. N |-> IF n = 0 THEN <<>> ELSE ResolveRow(f[n - 1], rows[n])]
<1>1. sent \in Seq(Seq(MessageType)) /\ Len(sent) = N /\ N \in Nat
  BY DEF TypeOK
<1>2. \A n \in 0 .. N : right[n] = SubSeq(sent, 1, n)
  OBVIOUS
<1>3. right[0] = <<>>
  BY <1>1, <1>2, SubSeqEmpty
<1>4. ASSUME NEW n \in 0 .. N, n # 0
      PROVE  right[n] = ResolveRow(right[n - 1], rows[n])
  <2>1. n \in 1 .. N /\ n - 1 \in 0 .. N
    BY <1>1, <1>4
  <2> QED
    BY <1>2, <2>1, RowResolves
<1>5. right = Reading(right)
  <2> DEFINE body(n) == IF n = 0 THEN <<>> ELSE ResolveRow(right[n - 1], rows[n])
  <2>1. \A n \in 0 .. N : right[n] = body(n)
    BY <1>3, <1>4
  <2>2. right = [n \in 0 .. N |-> right[n]]
    BY <1>2
  <2> HIDE DEF right
  <2> QED
    BY <2>1, <2>2, Zenon
<1>6. Resolved = Reading(Resolved)
  <2>1. \E f : f = Reading(f)
    BY <1>5
  <2> QED
    BY <2>1 DEF Resolved, ResolveRow
<1> HIDE DEF right
<1>7. /\ Resolved[0] = <<>>
      /\ \A n \in 1 .. N : Resolved[n] = ResolveRow(Resolved[n - 1], rows[n])
  <2> DEFINE value(n) == IF n = 0 THEN <<>> ELSE ResolveRow(Resolved[n - 1], rows[n])
  <2>1. Resolved = [n \in 0 .. N |-> value(n)]
    BY <1>6
  <2>2. \A n \in 0 .. N : Resolved[n] = value(n)
    <3> HIDE DEF value
    <3> QED
      BY <2>1, Zenon
  <2> QED
    BY <1>1, <2>2
<1> DEFINE wrong == {n \in 0 .. N : Resolved[n] # right[n]}
<1>8. wrong = {}
  <2>1. SUFFICES ASSUME wrong # {} PROVE FALSE
    OBVIOUS
  <2>2. PICK n \in wrong : \A m \in wrong : n <= m
    <3>1. wrong \subseteq Nat
      OBVIOUS
    <3> HIDE DEF wrong
    <3> QED
      BY <2>1, <3>1, LeastNumber
  <2>3. n \in 1 .. N /\ n - 1 \in 0 .. N /\ n - 1 \notin wrong
    BY <1>1, <1>3, <1>7, <2>2
  <2>4. Resolved[n - 1] = right[n - 1]
    BY <2>3
  <2>5. Resolved[n] = right[n]
    BY <1>4, <1>7, <2>3, <2>4
  <2> QED
    BY <2>2, <2>5
<1>9. Resolved[N] = right[N]
  BY <1>1, <1>8
<1>10. right[N] = sent
  <2>1. SubSeq(sent, 1, N) = sent
    BY <1>1, SubSeqFull
  <2> QED
    BY <1>1, <1>2, <2>1
<1> QED
  BY <1>9, <1>10 DEF ReaderRestores
-----------------------------------------------------------------------------
(* The parts of the conversation and of the records have their types. *)
LEMMA PartTypes ==
    ASSUME TypeOK
    PROVE  /\ DOMAIN messages = 1 .. Len(messages) /\ Len(messages) \in Nat
           /\ \A i \in DOMAIN messages : /\ i \in Nat /\ messages[i] \in MessageType
                                         /\ messages[i].id \in Nat /\ messages[i].by \in Nat
           /\ DOMAIN records = 1 .. Len(records) /\ Len(records) \in Nat
           /\ \A n \in DOMAIN records : /\ n \in Nat /\ records[n] \in RecordType
                                        /\ records[n].id \in Nat /\ records[n].step \in Nat
<1>1. messages \in Seq(MessageType) /\ records \in Seq(RecordType)
  BY DEF TypeOK, RecordType
<1>2. /\ DOMAIN messages = 1 .. Len(messages) /\ Len(messages) \in Nat
      /\ DOMAIN records = 1 .. Len(records) /\ Len(records) \in Nat
  BY <1>1
<1>3. \A i \in DOMAIN messages : i \in Nat /\ messages[i] \in MessageType
  BY <1>1, <1>2, ElementOfSeq
<1>4. \A n \in DOMAIN records : n \in Nat /\ records[n] \in RecordType
  BY <1>1, <1>2, ElementOfSeq
<1> QED
  BY <1>2, <1>3, <1>4 DEF MessageType, RecordType

(* At finds the one answer of a recorded call. *)
LEMMA AnswerAt ==
    ASSUME TypeOK, InCallOrder, StubsAreCovered, NEW n \in DOMAIN records
    PROVE  /\ At(records[n].id) \in Answers /\ messages[At(records[n].id)].id = records[n].id
           /\ \A i \in Answers : messages[i].id = records[n].id => i = At(records[n].id)
<1>1. \E i \in DOMAIN messages : messages[i].role = "tool" /\ messages[i].id = records[n].id
  BY DEF StubsAreCovered
<1>2. /\ At(records[n].id) \in DOMAIN messages /\ messages[At(records[n].id)].role = "tool"
      /\ messages[At(records[n].id)].id = records[n].id
  BY <1>1 DEF At
<1>3. \A i \in DOMAIN messages : i \in Nat /\ messages[i].id \in Nat
  BY PartTypes
<1>4. ASSUME NEW i \in Answers, messages[i].id = records[n].id
      PROVE  i = At(records[n].id)
  <2>1. i \in Nat /\ At(records[n].id) \in Nat /\ At(records[n].id) \in Answers
    BY <1>2, <1>3 DEF Answers
  <2>2. ~(i < At(records[n].id)) /\ ~(At(records[n].id) < i)
    BY <1>2, <1>3, <1>4, <2>1 DEF InCallOrder
  <2> QED
    BY <2>1, <2>2
<1> QED
  BY <1>2, <1>4 DEF Answers

(* What a stub put in by this step stands for: the answer of a call that a  *)
(* later successful call supersedes, the one it names.                      *)
LEMMA NewStubs ==
    ASSUME TypeOK, InCallOrder, StubsAreCovered, NEW i \in DOMAIN messages, Retiring(i) # {}
    PROVE  /\ i \in Answers /\ NewStub(i).role = "tool" /\ NewStub(i).id = messages[i].id
           /\ NewStub(i).text = Stub /\ NewStub(i).by > NewStub(i).id
           /\ \E m \in DOMAIN records :
                 /\ NewStub(i).by = records[m].id /\ Ok(records[m])
                 /\ At(records[m].id) > i
<1>1. PICK n \in DOMAIN records : \E m \in DOMAIN records :
         /\ n = First(Retiring(i)) /\ At(records[n].id) = i /\ Retired(n) = records[m].id
         /\ m > n /\ Ok(records[m]) /\ records[m].id \in Nat
  BY RetiringBy
<1>0. PICK m \in DOMAIN records :
         /\ n = First(Retiring(i)) /\ At(records[n].id) = i /\ Retired(n) = records[m].id
         /\ m > n /\ Ok(records[m]) /\ records[m].id \in Nat
  BY <1>1
<1>2. /\ i \in Answers /\ messages[i].id = records[n].id
      /\ At(records[m].id) \in Answers /\ messages[At(records[m].id)].id = records[m].id
  BY <1>0, AnswerAt
<1>3. /\ NewStub(i).role = messages[i].role /\ NewStub(i).id = messages[i].id
      /\ NewStub(i).text = Stub /\ NewStub(i).by = records[m].id
  BY <1>0 DEF NewStub, Message
<1>4. n \in Nat /\ m \in Nat /\ n < m /\ i \in Nat /\ At(records[m].id) \in Nat
      /\ messages[i].id \in Nat /\ \A j \in Answers : messages[j].id \in Nat
  BY <1>0, <1>2, PartTypes DEF Answers
<1>5. records[n].id < records[m].id
  BY <1>0, <1>4 DEF InCallOrder
<1>6. At(records[m].id) > i
  <2>1. ~(At(records[m].id) < i) /\ At(records[m].id) # i
    BY <1>0, <1>2, <1>4, <1>5 DEF InCallOrder
  <2> QED
    BY <1>4, <2>1
<1>7. messages[i].role = "tool"
  BY <1>2 DEF Answers
<1>8. NewStub(i).by > NewStub(i).id
  BY <1>0, <1>2, <1>3, <1>4, <1>5
<1> QED
  BY <1>0, <1>2, <1>3, <1>6, <1>7, <1>8

(* The guard leaves every message its place, its role and its id. *)
LEMMA GuardKeeps ==
    ASSUME TypeOK, InCallOrder, StubsAreCovered, Guard
    PROVE  /\ DOMAIN messages' = DOMAIN messages /\ Len(messages') = Len(messages)
           /\ Answers' = Answers
           /\ \A i \in DOMAIN messages :
                 /\ messages'[i].role = messages[i].role /\ messages'[i].id = messages[i].id
                 /\ \/ Retiring(i) = {} /\ messages'[i] = messages[i]
                    \/ Retiring(i) # {} /\ messages'[i] = NewStub(i)
<1>1. /\ DOMAIN messages' = DOMAIN messages /\ Len(messages') = Len(messages)
      /\ \A i \in DOMAIN messages :
            messages'[i] = IF Retiring(i) # {} THEN NewStub(i) ELSE messages[i]
  BY GuardTypes
<1>2. ASSUME NEW i \in DOMAIN messages
      PROVE  /\ messages'[i].role = messages[i].role /\ messages'[i].id = messages[i].id
             /\ \/ Retiring(i) = {} /\ messages'[i] = messages[i]
                \/ Retiring(i) # {} /\ messages'[i] = NewStub(i)
  <2>1. CASE Retiring(i) # {}
    BY <1>1, <2>1, NewStubs DEF Answers
  <2>2. CASE Retiring(i) = {}
    BY <1>1, <2>2
  <2> QED
    BY <2>1, <2>2
<1>3. Answers' = Answers
  BY <1>1, <1>2 DEF Answers
<1> QED
  BY <1>1, <1>2, <1>3

(* A new message at the end leaves the others where they are. *)
LEMMA Appended ==
    ASSUME TypeOK, NEW m \in MessageType, messages' = Append(messages, m)
    PROVE  /\ DOMAIN messages = 1 .. Len(messages) /\ Len(messages) \in Nat
           /\ DOMAIN messages' = 1 .. (Len(messages) + 1) /\ Len(messages') = Len(messages) + 1
           /\ messages'[Len(messages) + 1] = m
           /\ \A i \in DOMAIN messages : messages'[i] = messages[i]
           /\ Answers' = Answers \cup (IF m.role = "tool" THEN {Len(messages) + 1} ELSE {})
           /\ \A i \in DOMAIN messages : messages[i] \in MessageType
<1>1. messages \in Seq(MessageType)
  BY DEF TypeOK
<1>2. /\ DOMAIN messages = 1 .. Len(messages) /\ Len(messages) \in Nat
      /\ DOMAIN messages' = 1 .. (Len(messages) + 1) /\ Len(messages') = Len(messages) + 1
      /\ messages'[Len(messages) + 1] = m
      /\ \A i \in DOMAIN messages : messages'[i] = messages[i]
      /\ \A i \in DOMAIN messages : messages[i] \in MessageType
  BY <1>1
<1>3. \A i \in DOMAIN messages' : i \in DOMAIN messages \/ i = Len(messages) + 1
  BY <1>2
<1>4. Answers' = Answers \cup (IF m.role = "tool" THEN {Len(messages) + 1} ELSE {})
  <2>1. Len(messages) + 1 \in DOMAIN messages' /\ Len(messages) + 1 \notin DOMAIN messages
        /\ \A i \in DOMAIN messages : i \in DOMAIN messages'
    BY <1>2
  <2>2. \A i : i \in Answers' <=> i \in Answers \/ (i = Len(messages) + 1 /\ m.role = "tool")
    BY <1>2, <1>3, <2>1 DEF Answers
  <2> QED
    BY <2>2
<1> QED
  BY <1>2, <1>4

(* Answers, records and stubs stay in call order: one step per action. *)
LEMMA OrderStep ==
    ASSUME TypeOK, InCallOrder, StubsAreCovered, [Next]_vars
    PROVE  InCallOrder'
<1>0. /\ made \in Nat /\ DOMAIN messages = 1 .. Len(messages) /\ Len(messages) \in Nat
      /\ \A i \in DOMAIN messages : i \in Nat /\ messages[i].id \in Nat /\ messages[i].id <= made
      /\ \A n \in DOMAIN records : n \in Nat /\ records[n].id \in Nat /\ records[n].id <= made
      /\ Answers \subseteq DOMAIN messages
  BY PartTypes DEF TypeOK, InCallOrder, Answers
<1>1. CASE Guard
  <2>1. /\ records' = records /\ made' = made + Len(messages)
    BY <1>1 DEF Guard
  <2>2. /\ DOMAIN messages' = DOMAIN messages /\ Len(messages') = Len(messages)
        /\ Answers' = Answers
        /\ \A i \in DOMAIN messages :
              /\ messages'[i].role = messages[i].role /\ messages'[i].id = messages[i].id
              /\ \/ Retiring(i) = {} /\ messages'[i] = messages[i]
                 \/ Retiring(i) # {} /\ messages'[i] = NewStub(i)
    BY <1>1, GuardKeeps
  <2>3. made <= made' /\ made' \in Nat
    BY <1>0, <2>1
  <2>4. ASSUME NEW i \in DOMAIN messages
        PROVE  /\ messages'[i].id <= made'
               /\ messages'[i].text = Stub =>
                     i \in Answers' /\ messages'[i].by > messages'[i].id
    <3>1. CASE Retiring(i) # {}
      BY <1>0, <2>2, <2>3, <3>1, NewStubs
    <3>2. CASE Retiring(i) = {}
      BY <1>0, <2>2, <2>3, <3>2 DEF InCallOrder
    <3> QED
      BY <3>1, <3>2
  <2>5. ASSUME NEW n \in DOMAIN records, NEW i \in Answers,
               messages'[i].id = records[n].id, Ok(records[n])
        PROVE  messages'[i].text.out \notin Failures
    <3>1. CASE Retiring(i) # {}
      <4>1. messages'[i].text = Stub
        BY <1>0, <2>2, <3>1, NewStubs
      <4> QED
        BY <4>1 DEF Stub, Text, Failures
    <3>2. CASE Retiring(i) = {}
      BY <1>0, <2>2, <2>5, <3>2 DEF InCallOrder
    <3> QED
      BY <3>1, <3>2
  <2>6. Len(messages') >= 2 /\ messages'[1].role = "system"
    BY <1>0, <2>2 DEF InCallOrder
  <2>7. \A n \in DOMAIN records : records[n].id <= made'
    BY <1>0, <2>1, <2>3
  <2>8. \A i, j \in Answers' : i < j => messages'[i].id < messages'[j].id
    BY <1>0, <2>2 DEF InCallOrder
  <2> QED
    BY <2>1, <2>2, <2>4, <2>5, <2>6, <2>7, <2>8 DEF InCallOrder, Ok
<1>2. CASE CallLLM
  <2> DEFINE m == Plain(made + 1, "assistant")
  <2>1. m \in MessageType /\ m.role = "assistant" /\ m.text # Stub /\ m.id = 0
    BY <1>0, PlainTypes
  <2>2. messages' = Append(messages, m) /\ records' = records /\ made' = made + 1
    BY <1>2 DEF CallLLM
  <2> HIDE DEF m
  <2>3. /\ DOMAIN messages' = 1 .. (Len(messages) + 1) /\ Len(messages') = Len(messages) + 1
        /\ messages'[Len(messages) + 1] = m
        /\ \A i \in DOMAIN messages : messages'[i] = messages[i]
        /\ Answers' = Answers
    BY <2>1, <2>2, Appended
  <2>4. \A i \in DOMAIN messages' : i \in DOMAIN messages \/ messages'[i] = m
    BY <1>0, <2>3
  <2>5. \A i \in DOMAIN messages' :
          /\ messages'[i].id <= made'
          /\ messages'[i].text = Stub => i \in Answers' /\ messages'[i].by > messages'[i].id
    BY <1>0, <2>1, <2>2, <2>3, <2>4 DEF InCallOrder
  <2>6. /\ Len(messages') >= 2 /\ messages'[1].role = "system"
        /\ \A n \in DOMAIN records : records[n].id <= made'
        /\ \A i \in Answers : messages'[i] = messages[i]
    BY <1>0, <2>2, <2>3 DEF InCallOrder
  <2>7. \A n \in DOMAIN records : \A i \in Answers :
           messages'[i].id = records[n].id /\ Ok(records[n]) => messages'[i].text.out \notin Failures
    BY <2>6 DEF InCallOrder
  <2>8. \A i, j \in Answers : i < j => messages'[i].id < messages'[j].id
    BY <2>6 DEF InCallOrder
  <2> QED
    BY <2>2, <2>3, <2>5, <2>6, <2>7, <2>8 DEF InCallOrder, Ok
<1>3. CASE RunTool
  <2> DEFINE c == Head(todo)
             m == Message(made + 1, "tool", made + 1, Result(c), 0)
             r == [id |-> made + 1, call |-> c.call, out |-> c.out, step |-> step]
             L == Len(messages)
             N == Len(records)
  <2>0. c \in [call : CallNames, out : Outcomes]
    BY <1>3, HeadTailProperties DEF RunTool, TypeOK
  <2>1. /\ messages' = Append(messages, m) /\ records' = Append(records, r) /\ made' = made + 2
    BY <1>3 DEF RunTool
  <2>2. /\ m \in MessageType /\ m.role = "tool" /\ m.id = made + 1 /\ m.text = Result(c)
    <3>1. Result(c) \in TextType
      BY <2>0 DEF Result, Text, TextType, Outcomes, CallNames
    <3>2. made + 1 \in Nat /\ 0 \in Nat
      BY <1>0
    <3> HIDE DEF c
    <3> QED
      BY <3>1, <3>2, MessageTypes
  <2>3. /\ Result(c) # Stub /\ (Ok(r) => Result(c).out \notin Failures)
    <3>1. c.call \in CallNames /\ c.out \in Outcomes
      BY <2>0
    <3>2. Result(c).tool = c.call /\ Stub.tool = "guard"
      BY DEF Result, Text, Stub
    <3>3. Result(c).out \in {c.out, "pointer", "body"}
      BY DEF Result, Text
    <3>4. r.out = c.out
      OBVIOUS
    <3> QED
      BY <3>1, <3>2, <3>3, <3>4 DEF CallNames, Ok, Failures
  <2>4. r \in RecordType /\ r.id = made + 1
    BY <1>0, <2>0 DEF RecordType, TypeOK
  <2> HIDE DEF c, m, r
  <2>5. /\ DOMAIN messages' = 1 .. (L + 1) /\ Len(messages') = L + 1
        /\ messages'[L + 1] = m
        /\ \A i \in DOMAIN messages : messages'[i] = messages[i]
        /\ Answers' = Answers \cup {L + 1}
    BY <2>1, <2>2, Appended
  <2>6. /\ DOMAIN records = 1 .. N /\ N \in Nat /\ DOMAIN records' = 1 .. (N + 1)
        /\ records'[N + 1] = r /\ \A n \in DOMAIN records : records'[n] = records[n]
    <3>1. records \in Seq(RecordType)
      BY DEF TypeOK, RecordType
    <3> QED
      BY <2>1, <2>4, <3>1
  <2>7. /\ \A i \in DOMAIN messages' : i \in DOMAIN messages \/ i = L + 1
        /\ \A n \in DOMAIN records' : n \in DOMAIN records \/ n = N + 1
    BY <1>0, <2>5, <2>6
  <2>8. \A i \in DOMAIN messages' :
          /\ messages'[i].id <= made'
          /\ messages'[i].text = Stub => i \in Answers' /\ messages'[i].by > messages'[i].id
    BY <1>0, <2>1, <2>2, <2>3, <2>5, <2>7 DEF InCallOrder
  <2>9. /\ Len(messages') >= 2 /\ messages'[1].role = "system"
    BY <1>0, <2>5 DEF InCallOrder
  <2>10. \A n \in DOMAIN records' : records'[n].id <= made'
    BY <1>0, <2>1, <2>4, <2>6, <2>7
  <2>11. \A i, j \in Answers' : i < j => messages'[i].id < messages'[j].id
    BY <1>0, <2>2, <2>5 DEF InCallOrder
  <2>12. \A i, j \in DOMAIN records' : i < j => records'[i].id < records'[j].id
    BY <1>0, <2>4, <2>6, <2>7 DEF InCallOrder
  <2>13. ASSUME NEW n \in DOMAIN records', NEW i \in Answers',
                messages'[i].id = records'[n].id, Ok(records'[n])
         PROVE  messages'[i].text.out \notin Failures
    <3>1. CASE i = L + 1
      <4>1. n = N + 1
        BY <1>0, <2>2, <2>5, <2>6, <2>7, <2>13, <3>1
      <4> QED
        BY <2>2, <2>3, <2>5, <2>6, <2>13, <3>1, <4>1
    <3>2. CASE i # L + 1
      <4>1. i \in Answers /\ messages'[i] = messages[i]
        BY <1>0, <2>5, <3>2
      <4>2. n \in DOMAIN records
        BY <1>0, <2>4, <2>6, <2>7, <2>13, <4>1
      <4> QED
        BY <2>6, <2>13, <4>1, <4>2 DEF InCallOrder
    <3> QED
      BY <3>1, <3>2
  <2> QED
    BY <2>8, <2>9, <2>10, <2>11, <2>12, <2>13 DEF InCallOrder, Ok
<1>4. CASE Detect \/ Handoff \/ UNCHANGED vars
  <2>1. messages' = messages /\ records' = records /\ made' \in {made, made + 1}
    BY <1>4 DEF Detect, Handoff, vars
  <2>2. /\ \A i \in DOMAIN messages : messages[i].id <= made'
        /\ \A n \in DOMAIN records : records[n].id <= made'
    BY <1>0, <2>1
  <2>3. Answers' = Answers
    BY <2>1 DEF Answers
  <2> QED
    BY <2>1, <2>2, <2>3 DEF InCallOrder, Ok
<1>5. CASE Spawn
  <2> DEFINE m == Plain(made + 1, "user")
  <2>1. m.role = "user" /\ m.text # Stub /\ m.id = 0
    BY DEF Plain, Message, Stub, Text
  <2>2. messages' = <<messages[1], m>> /\ records' = <<>> /\ made' = made + 1
    BY <1>5 DEF Spawn, StartSession
  <2> HIDE DEF m
  <2>3. Len(messages') = 2 /\ messages'[1] = messages[1] /\ messages'[2] = m
        /\ DOMAIN messages' = {1, 2}
    BY <2>2
  <2>4. 1 \in DOMAIN messages /\ messages[1].role = "system" /\ 1 \notin Answers
    BY <1>0 DEF InCallOrder, Answers
  <2>5. messages[1].text # Stub /\ messages[1].id <= made
    BY <2>4 DEF InCallOrder
  <2>6. Answers' = {}
    BY <2>1, <2>3, <2>4 DEF Answers
  <2>7. messages[1].id <= made' /\ m.id <= made'
    BY <1>0, <2>1, <2>2, <2>4, <2>5
  <2>8. DOMAIN records' = {}
    BY <2>2
  <2> QED
    BY <2>1, <2>3, <2>4, <2>5, <2>6, <2>7, <2>8 DEF InCallOrder
<1>6. CASE Resume
  <2> DEFINE opening == [i \in DOMAIN messages |-> [messages[i] EXCEPT !.obj = made + i]]
  <2>1. messages' = opening /\ records' = <<>> /\ made' = made + Len(messages)
    BY <1>6 DEF Resume, StartSession
  <2>2. /\ Len(opening) = Len(messages) /\ DOMAIN opening = DOMAIN messages
        /\ \A i \in DOMAIN messages :
              /\ opening[i].role = messages[i].role /\ opening[i].id = messages[i].id
              /\ opening[i].text = messages[i].text /\ opening[i].by = messages[i].by
    BY ResumedObjects
  <2> HIDE DEF opening
  <2>3. Answers' = Answers
    BY <2>1, <2>2 DEF Answers
  <2>4. \A i \in DOMAIN messages : messages[i].id <= made'
    BY <1>0, <2>1
  <2>5. DOMAIN records' = {}
    BY <2>1
  <2>6. 1 \in DOMAIN messages /\ Len(messages') >= 2 /\ messages'[1].role = "system"
    BY <1>0, <2>1, <2>2 DEF InCallOrder
  <2> QED
    BY <1>0, <2>1, <2>2, <2>3, <2>4, <2>5, <2>6 DEF InCallOrder
<1> QED
  BY <1>1, <1>2, <1>3, <1>4, <1>5, <1>6 DEF Next

(* What is retired stays covered: one step per action. *)
LEMMA CoverStep ==
    ASSUME TypeOK, InCallOrder, InCallOrder', StubsAreCovered, [Next]_vars
    PROVE  StubsAreCovered'
<1>0. /\ made \in Nat /\ DOMAIN messages = 1 .. Len(messages) /\ Len(messages) \in Nat
      /\ \A i \in DOMAIN messages : i \in Nat
      /\ Answers \subseteq DOMAIN messages
  BY PartTypes DEF TypeOK, Answers
<1>1. CASE Guard
  <2>1. records' = records
    BY <1>1 DEF Guard
  <2>2. /\ DOMAIN messages' = DOMAIN messages /\ Len(messages') = Len(messages)
        /\ Answers' = Answers
        /\ \A i \in DOMAIN messages :
              /\ messages'[i].role = messages[i].role /\ messages'[i].id = messages[i].id
              /\ \/ Retiring(i) = {} /\ messages'[i] = messages[i]
                 \/ Retiring(i) # {} /\ messages'[i] = NewStub(i)
    BY <1>1, GuardKeeps
  <2>3. ASSUME NEW j \in DOMAIN messages, messages[j].text.out \notin Failures
        PROVE  messages'[j].text.out \notin Failures
    <3>1. CASE Retiring(j) # {}
      BY <2>2, <3>1, NewStubs DEF Stub, Text, Failures
    <3>2. CASE Retiring(j) = {}
      BY <2>2, <2>3, <3>2
    <3> QED
      BY <3>1, <3>2
  <2>4. ASSUME NEW i \in DOMAIN messages, messages'[i].text = Stub
        PROVE  \E j \in (i + 1) .. Len(messages) :
                  /\ j \in Answers /\ messages'[j].id = messages'[i].by
                  /\ messages'[j].text.out \notin Failures
    <3>1. CASE Retiring(i) # {}
      <4>1. PICK m \in DOMAIN records :
              /\ NewStub(i).by = records[m].id /\ Ok(records[m]) /\ At(records[m].id) > i
        BY <3>1, NewStubs
      <4> DEFINE j == At(records[m].id)
      <4>2. j \in Answers /\ messages[j].id = records[m].id
        BY AnswerAt
      <4>3. messages[j].text.out \notin Failures
        BY <4>1, <4>2 DEF InCallOrder
      <4>4. j \in (i + 1) .. Len(messages)
        BY <1>0, <4>1, <4>2
      <4> HIDE DEF j
      <4> QED
        BY <1>0, <2>2, <2>3, <3>1, <4>1, <4>2, <4>3, <4>4
    <3>2. CASE Retiring(i) = {}
      <4>1. messages'[i] = messages[i]
        BY <2>2, <3>2
      <4>2. PICK j \in (i + 1) .. Len(messages) :
              /\ messages[j].id = messages[i].by /\ messages[j].role = "tool"
              /\ messages[j].text.out \notin Failures
        BY <2>4, <4>1 DEF StubsAreCovered
      <4>3. j \in DOMAIN messages /\ j \in Answers
        BY <1>0, <4>2 DEF Answers
      <4> QED
        BY <2>2, <2>3, <4>1, <4>2, <4>3
    <3> QED
      BY <3>1, <3>2
  <2>5. \A i \in DOMAIN messages' : messages'[i].text = Stub =>
          \E j \in (i + 1) .. Len(messages') :
             /\ messages'[j].id = messages'[i].by /\ messages'[j].role = "tool"
             /\ messages'[j].text.out \notin Failures
             /\ messages'[j].text # Stub \/ messages'[j].by > messages'[i].by
    <3>1. ASSUME NEW i \in DOMAIN messages', messages'[i].text = Stub
          PROVE  \E j \in (i + 1) .. Len(messages') :
             /\ messages'[j].id = messages'[i].by /\ messages'[j].role = "tool"
             /\ messages'[j].text.out \notin Failures
             /\ messages'[j].text # Stub \/ messages'[j].by > messages'[i].by
      <4>1. PICK j \in (i + 1) .. Len(messages') :
                /\ j \in Answers' /\ messages'[j].id = messages'[i].by
                /\ messages'[j].text.out \notin Failures
        BY <2>2, <2>4, <3>1
      <4>2. j \in DOMAIN messages' /\ messages'[j].role = "tool"
        BY <4>1 DEF Answers
      <4>3. messages'[j].text # Stub \/ messages'[j].by > messages'[j].id
        BY <4>2 DEF InCallOrder
      <4> QED
        BY <4>1, <4>2, <4>3
    <3> QED
      BY <3>1
  <2>6. \A n \in DOMAIN records' : \E i \in DOMAIN messages' :
          messages'[i].role = "tool" /\ messages'[i].id = records'[n].id
    BY <2>1, <2>2 DEF StubsAreCovered
  <2> QED
    BY <2>5, <2>6 DEF StubsAreCovered
<1>2. ASSUME NEW m \in MessageType, messages' = Append(messages, m), m.text # Stub,
             \A n \in DOMAIN records' :
                \/ n \in DOMAIN records /\ records'[n] = records[n]
                \/ m.role = "tool" /\ m.id = records'[n].id
      PROVE  StubsAreCovered'
  <2>1. /\ DOMAIN messages' = 1 .. (Len(messages) + 1) /\ Len(messages') = Len(messages) + 1
        /\ messages'[Len(messages) + 1] = m
        /\ \A i \in DOMAIN messages : messages'[i] = messages[i]
    BY <1>2, Appended
  <2>2. ASSUME NEW i \in DOMAIN messages', messages'[i].text = Stub
        PROVE  \E j \in (i + 1) .. Len(messages') :
             /\ messages'[j].id = messages'[i].by /\ messages'[j].role = "tool"
             /\ messages'[j].text.out \notin Failures
             /\ messages'[j].text # Stub \/ messages'[j].by > messages'[i].by
    <3>1. i \in DOMAIN messages /\ messages'[i] = messages[i]
      BY <1>0, <1>2, <2>1, <2>2
    <3>2. PICK j \in (i + 1) .. Len(messages) :
             /\ messages[j].id = messages[i].by /\ messages[j].role = "tool"
             /\ messages[j].text.out \notin Failures
             /\ messages[j].text # Stub \/ messages[j].by > messages[i].by
      BY <2>2, <3>1 DEF StubsAreCovered
    <3>3. j \in DOMAIN messages /\ j \in (i + 1) .. Len(messages')
      BY <1>0, <2>1, <3>1
    <3> QED
      BY <2>1, <3>1, <3>2, <3>3
  <2>3. ASSUME NEW n \in DOMAIN records'
        PROVE  \E i \in DOMAIN messages' :
                  messages'[i].role = "tool" /\ messages'[i].id = records'[n].id
    <3>1. CASE m.role = "tool" /\ m.id = records'[n].id
      <4>1. Len(messages) + 1 \in DOMAIN messages'
        BY <1>0, <2>1
      <4> QED
        BY <2>1, <3>1, <4>1
    <3>2. CASE n \in DOMAIN records /\ records'[n] = records[n]
      <4>1. PICK i \in DOMAIN messages :
              messages[i].role = "tool" /\ messages[i].id = records[n].id
        BY <3>2 DEF StubsAreCovered
      <4>2. i \in DOMAIN messages'
        BY <1>0, <2>1
      <4> QED
        BY <2>1, <3>2, <4>1, <4>2
    <3> QED
      BY <1>2, <3>1, <3>2
  <2> QED
    BY <2>2, <2>3 DEF StubsAreCovered
<1>3. CASE CallLLM
  <2>1. Plain(made + 1, "assistant") \in MessageType /\ Plain(made + 1, "assistant").text # Stub
    BY <1>0, PlainTypes
  <2>2. messages' = Append(messages, Plain(made + 1, "assistant")) /\ records' = records
    BY <1>3 DEF CallLLM
  <2> QED
    BY <1>2, <2>1, <2>2
<1>4. CASE RunTool
  <2> DEFINE c == Head(todo)
             m == Message(made + 1, "tool", made + 1, Result(c), 0)
             r == [id |-> made + 1, call |-> c.call, out |-> c.out, step |-> step]
  <2>0. c \in [call : CallNames, out : Outcomes]
    BY <1>4, HeadTailProperties DEF RunTool, TypeOK
  <2>1. messages' = Append(messages, m) /\ records' = Append(records, r)
    BY <1>4 DEF RunTool
  <2>2. m \in MessageType /\ m.role = "tool" /\ m.id = made + 1 /\ m.text = Result(c)
    <3>1. Result(c) \in TextType
      BY <2>0 DEF Result, Text, TextType, Outcomes, CallNames
    <3>2. made + 1 \in Nat /\ 0 \in Nat
      BY <1>0
    <3> HIDE DEF c
    <3> QED
      BY <3>1, <3>2, MessageTypes
  <2>3. Result(c) # Stub
    <3>1. Result(c).tool = c.call /\ Stub.tool = "guard"
      BY DEF Result, Text, Stub
    <3> QED
      BY <2>0, <3>1 DEF CallNames
  <2>4. r \in RecordType /\ r.id = made + 1
    BY <1>0, <2>0 DEF RecordType, TypeOK
  <2> HIDE DEF c, m, r
  <2>5. \A n \in DOMAIN records' :
           \/ n \in DOMAIN records /\ records'[n] = records[n]
           \/ records'[n] = r
    <3>1. records \in Seq(RecordType)
      BY DEF TypeOK, RecordType
    <3> QED
      BY <2>1, <2>4, <3>1
  <2> QED
    BY <1>2, <2>1, <2>2, <2>3, <2>4, <2>5
<1>5. CASE Detect \/ Handoff \/ UNCHANGED vars
  BY <1>5 DEF Detect, Handoff, vars, StubsAreCovered
<1>6. CASE Spawn
  <2> DEFINE m == Plain(made + 1, "user")
  <2>1. m.text # Stub
    BY <1>0, PlainTypes
  <2>2. messages' = <<messages[1], m>> /\ records' = <<>>
    BY <1>6 DEF Spawn, StartSession
  <2> HIDE DEF m
  <2>3. messages'[1] = messages[1] /\ messages'[2] = m /\ DOMAIN messages' = {1, 2}
    BY <2>2
  <2>4. messages[1].text # Stub
    BY <1>0 DEF InCallOrder, Answers
  <2>5. DOMAIN records' = {}
    BY <2>2
  <2> QED
    BY <2>1, <2>3, <2>4, <2>5 DEF StubsAreCovered
<1>7. CASE Resume
  <2> DEFINE opening == [i \in DOMAIN messages |-> [messages[i] EXCEPT !.obj = made + i]]
  <2>1. messages' = opening /\ records' = <<>>
    BY <1>7 DEF Resume, StartSession
  <2>2. /\ Len(opening) = Len(messages) /\ DOMAIN opening = DOMAIN messages
        /\ \A i \in DOMAIN messages :
              /\ opening[i].role = messages[i].role /\ opening[i].id = messages[i].id
              /\ opening[i].text = messages[i].text /\ opening[i].by = messages[i].by
    BY ResumedObjects
  <2> HIDE DEF opening
  <2>3. DOMAIN records' = {}
    BY <2>1
  <2>4. ASSUME NEW i \in DOMAIN messages', messages'[i].text = Stub
        PROVE  \E j \in (i + 1) .. Len(messages') :
             /\ messages'[j].id = messages'[i].by /\ messages'[j].role = "tool"
             /\ messages'[j].text.out \notin Failures
             /\ messages'[j].text # Stub \/ messages'[j].by > messages'[i].by
    <3>1. PICK j \in (i + 1) .. Len(messages) :
             /\ messages[j].id = messages[i].by /\ messages[j].role = "tool"
             /\ messages[j].text.out \notin Failures
             /\ messages[j].text # Stub \/ messages[j].by > messages[i].by
      BY <2>1, <2>2, <2>4 DEF StubsAreCovered
    <3>2. j \in DOMAIN messages /\ i \in DOMAIN messages
      BY <1>0, <2>1, <2>2
    <3> QED
      BY <2>1, <2>2, <3>1, <3>2
  <2> QED
    BY <2>3, <2>4 DEF StubsAreCovered
<1> QED
  BY <1>1, <1>3, <1>4, <1>5, <1>6, <1>7 DEF Next
-----------------------------------------------------------------------------
(* The streak a failure carries on is the one followed, or a fresh one. *)
LEMMA CarriedIs ==
    ASSUME TypeOK, NEW signature \in TextType
    PROVE  LET s == Carried(signature) IN
           /\ s \in StreakType /\ s.signature = signature /\ s.ordinal = streak.ordinal
           /\ streak.signature = signature => s = streak
           /\ streak.signature # signature => s.id = 0 /\ s.last = 0
<1>1. streak \in StreakType
  BY DEF TypeOK, StreakType
<1>2. CASE streak.signature = signature
  BY <1>1, <1>2 DEF Carried, StreakType
<1>3. CASE streak.signature # signature
  <2>1. Carried(signature) = [signature |-> signature, id |-> 0, last |-> 0, ordinal |-> streak.ordinal]
    BY <1>3 DEF Carried, NoStreak
  <2> QED
    BY <1>1, <1>3, <2>1 DEF StreakType
<1> QED
  BY <1>2, <1>3

(* What the detector does with a trailing streak: nothing fails, or the      *)
(* streak is known, grows silently, or is signalled.                        *)
LEMMA DetectDoes ==
    ASSUME TypeOK, Detect
    PROVE  LET length == TrailingLength
               signature == Signature(records[Len(records)])
               s == Carried(signature)
           IN
           \/ /\ length = 0 /\ alarms' = alarms
              /\ streak' \in StreakType /\ streak'.id = 0 /\ streak'.last = 0
              /\ streak'.ordinal = streak.ordinal
           \/ /\ length > 0 /\ signature \in TextType
              /\ streak' \in StreakType /\ streak'.signature = signature
              /\ \/ length <= s.last /\ streak' = s /\ alarms' = alarms
                 \/ /\ length > s.last /\ length < STREAK_THRESHOLD /\ alarms' = alarms
                    /\ streak'.last = length /\ streak'.id = s.id /\ streak'.ordinal = s.ordinal
                 \/ /\ length > s.last /\ length >= STREAK_THRESHOLD
                    /\ streak'.last = length
                    /\ \/ s.id # 0 /\ streak'.id = s.id /\ streak'.ordinal = s.ordinal
                       \/ s.id = 0 /\ streak'.id = s.ordinal + 1 /\ streak'.ordinal = s.ordinal + 1
                    /\ alarms' = Append(alarms, [id |-> streak'.id, signature |-> signature,
                                                 length |-> length, upto |-> Len(records)])
<1> DEFINE length == TrailingLength
           signature == Signature(records[Len(records)])
           s == Carried(signature)
           grown == Signalled(s, length)
<1>1. streak' \in StreakType /\ streak \in StreakType /\ length \in Nat
      /\ (length # 0 => records # <<>>)
  BY DetectTypes, TrailingRun DEF TypeOK, StreakType
<1>2. CASE length = 0
  <2>1. streak' = [NoStreak EXCEPT !.ordinal = streak.ordinal] /\ alarms' = alarms
    BY <1>2 DEF Detect, STREAK_THRESHOLD
  <2>2. streak'.id = 0 /\ streak'.last = 0 /\ streak'.ordinal = streak.ordinal
    BY <2>1 DEF NoStreak
  <2> QED
    BY <1>1, <1>2, <2>1, <2>2
<1>3. CASE length > 0
  <2>1. signature \in TextType
    <3>1. records \in Seq(RecordType) /\ Len(records) \in 1 .. Len(records)
      BY <1>1, <1>3 DEF TypeOK, RecordType
    <3>2. records[Len(records)] \in RecordType
      BY <3>1, ElementOfSeq
    <3> QED
      BY <3>2, SignatureTypes
  <2>2. \/ length <= s.last /\ streak' = s /\ alarms' = alarms
        \/ /\ length > s.last /\ length < STREAK_THRESHOLD /\ alarms' = alarms
           /\ streak' = [s EXCEPT !.last = length]
        \/ /\ length > s.last /\ length >= STREAK_THRESHOLD /\ streak' = grown
           /\ alarms' = Append(alarms, [id |-> grown.id, signature |-> signature,
                                        length |-> length, upto |-> Len(records)])
    BY <1>1, <1>3 DEF Detect, STREAK_THRESHOLD
  <2> HIDE DEF signature, length
  <2>3. s \in StreakType /\ s.signature = signature
    BY <2>1, CarriedIs
  <2> HIDE DEF s
  <2>4. /\ [s EXCEPT !.last = length].last = length
        /\ [s EXCEPT !.last = length].id = s.id
        /\ [s EXCEPT !.last = length].ordinal = s.ordinal
        /\ [s EXCEPT !.last = length].signature = s.signature
    BY <2>3 DEF StreakType
  <2>5. /\ grown.last = length /\ grown.signature = s.signature
        /\ \/ s.id # 0 /\ grown.id = s.id /\ grown.ordinal = s.ordinal
           \/ s.id = 0 /\ grown.id = s.ordinal + 1 /\ grown.ordinal = s.ordinal + 1
    <3>1. CASE s.id # 0
      BY <2>4, <3>1 DEF Signalled
    <3>2. CASE s.id = 0
      <4>1. grown = [signature |-> s.signature, id |-> s.ordinal + 1, last |-> length,
                     ordinal |-> s.ordinal + 1]
        BY <2>3, <3>2 DEF StreakType, Signalled
      <4> QED
        BY <3>2, <4>1
    <3> QED
      BY <3>1, <3>2
  <2> HIDE DEF grown
  <2> QED
    BY <1>1, <1>3, <2>1, <2>2, <2>3, <2>4, <2>5 DEF s, length, signature
<1> QED
  BY <1>1, <1>2, <1>3

(* The detector has been shown all calls, or all but the newest. *)
LEMMA ShownCalls ==
    ASSUME TypeOK
    PROVE  /\ Shown \in Nat /\ Shown <= Len(records)
           /\ Shown = Len(records) \/ Shown = Len(records) - 1
           /\ pc \notin {"tools", "detect"} => Shown = Len(records)
<1>1. Len(records) \in Nat /\ (records # <<>> => Len(records) # 0)
  BY DEF TypeOK
<1> QED
  BY <1>1 DEF Shown

(* A run of calls and the call after it. *)
LEMMA OneLonger ==
    ASSUME NEW all \in Nat, NEW length \in Nat, NEW shown \in Nat, shown = all - 1
    PROVE  \A n \in (all - (length + 1) + 1) .. all :
              n = all \/ n \in (shown - length + 1) .. shown
OBVIOUS

(* What is followed after a detection is the whole trailing streak. *)
LEMMA FollowedStep ==
    ASSUME TypeOK, Detect, Followed
    PROVE  Followed'
<1> DEFINE N == Len(records)
           L == TrailingLength
           sig == Signature(records[N])
           s == Carried(sig)
<1>1. /\ records' = records /\ pc' = "guard" /\ pc = "detect"
  BY DEF Detect
<1>2. /\ L \in Nat /\ L <= N /\ N \in Nat
      /\ \A n \in (N - L + 1) .. N : Repeats(n, sig)
      /\ \A l \in 1 .. N : (\A n \in (N - l + 1) .. N : Repeats(n, sig)) => l <= L
  BY TrailingRun, PartTypes
<1>3. Shown' = N
  BY <1>1 DEF Shown
<1>4. streak \in StreakType /\ streak.last \in Nat /\ alarms \in Seq(AlarmType)
  BY DEF TypeOK, StreakType, AlarmType
<1>7. CASE L = 0
  <2>1. streak'.last = 0
    BY <1>2, <1>7, DetectDoes
  <2>2. N # 0 => ~Failed(N)
    <3>1. ASSUME N # 0, Failed(N)
          PROVE  FALSE
      <4>1. Repeats(N, sig)
        BY <3>1 DEF Repeats
      <4>2. 1 \in 1 .. N /\ \A n \in (N - 1 + 1) .. N : n = N
        BY <1>2, <3>1
      <4>3. 1 <= L
        BY <1>2, <4>1, <4>2
      <4> QED
        BY <1>7, <4>3
    <3> QED
      BY <3>1
  <2> QED
    BY <1>1, <1>2, <1>3, <2>1, <2>2 DEF Followed, Failed, STREAK_THRESHOLD
<1>8. CASE L > 0
  <2>1. /\ sig \in TextType /\ streak'.signature = sig
        /\ \/ L <= s.last /\ streak' = s /\ alarms' = alarms
           \/ L > s.last /\ L < STREAK_THRESHOLD /\ streak'.last = L
           \/ /\ L > s.last /\ L >= STREAK_THRESHOLD /\ streak'.last = L /\ streak'.id \in Nat
              /\ alarms' = Append(alarms, [id |-> streak'.id, signature |-> sig,
                                           length |-> L, upto |-> N])
    <3>1. streak' \in StreakType
      BY DetectTypes
    <3>2. streak'.id \in Nat
      BY <3>1 DEF StreakType
    <3> QED
      BY <1>2, <1>8, <3>2, DetectDoes
  <2>2. /\ streak.signature = sig => s = streak
        /\ streak.signature # sig => s.last = 0
    BY <2>1, CarriedIs
  <2>3. Repeats(N, sig)
    BY <1>2, <1>8
  <2>4. ASSUME L <= s.last
        PROVE  streak.last = L /\ Shown = N /\ streak' = streak /\ alarms' = alarms
    <3>1. streak.signature = sig /\ s = streak
      BY <1>2, <1>8, <2>2, <2>4
    <3>2. streak' = streak /\ alarms' = alarms
      BY <1>2, <1>4, <2>1, <2>4, <3>1
    <3>3. /\ streak.last <= Shown /\ Shown \in Nat /\ (Shown = N \/ Shown = N - 1)
          /\ \A n \in (Shown - streak.last + 1) .. Shown : Repeats(n, sig)
      BY <3>1, ShownCalls DEF Followed
    <3>4. Shown = N
      <4>1. ASSUME Shown = N - 1
            PROVE  FALSE
        <5>1. streak.last + 1 \in 1 .. N
          BY <1>2, <1>4, <3>3, <4>1
        <5>2. \A n \in (N - (streak.last + 1) + 1) .. N :
                 n = N \/ n \in (Shown - streak.last + 1) .. Shown
          BY <1>2, <1>4, <3>3, <4>1, OneLonger
        <5>3. streak.last + 1 <= L
          BY <1>2, <2>3, <3>3, <5>1, <5>2
        <5> QED
          BY <1>2, <1>4, <2>4, <3>1, <5>3
      <4> QED
        BY <3>3, <4>1
    <3>5. streak.last <= L
      <4>1. streak.last \in 1 .. N
        BY <1>2, <1>4, <1>8, <2>4, <3>1, <3>3
      <4> QED
        BY <1>2, <3>3, <3>4, <4>1
    <3> QED
      BY <1>2, <1>4, <2>4, <3>1, <3>2, <3>4, <3>5
  <2>5. streak'.last = L
    BY <1>2, <2>1, <2>4
  <2>6. L < N => ~Repeats(N - L, sig)
    <3>1. ASSUME L < N, Repeats(N - L, sig)
          PROVE  FALSE
      <4>1. L + 1 \in 1 .. N /\ \A n \in (N - (L + 1) + 1) .. N : n = N - L \/ n \in (N - L + 1) .. N
        BY <1>2, <3>1
      <4>2. L + 1 <= L
        BY <1>2, <3>1, <4>1
      <4> QED
        BY <1>2, <4>2
    <3> QED
      BY <3>1
  <2>7. L >= STREAK_THRESHOLD => /\ alarms' # <<>> /\ alarms'[Len(alarms')].upto = N
                                 /\ alarms'[Len(alarms')].length = L
    <3>1. CASE L <= s.last
      BY <2>4, <3>1 DEF Followed
    <3>2. CASE L > s.last /\ L >= STREAK_THRESHOLD
      <4> DEFINE alarm == [id |-> streak'.id, signature |-> sig, length |-> L, upto |-> N]
      <4>1. alarms' = Append(alarms, alarm) /\ streak'.id \in Nat
        <5>1. s.last \in Nat
          <6>1. s \in StreakType
            BY <2>1, CarriedIs
          <6> QED
            BY <6>1 DEF StreakType
        <5> QED
          BY <1>2, <2>1, <3>2, <5>1 DEF STREAK_THRESHOLD
      <4>2. alarm \in AlarmType /\ alarm.upto = N /\ alarm.length = L
        BY <1>2, <2>1, <4>1 DEF AlarmType
      <4> HIDE DEF alarm
      <4> QED
        BY <1>4, <4>1, <4>2, AppendProperties
    <3> QED
      <4>1. s.last \in Nat
        <5>1. s \in StreakType
          BY <2>1, CarriedIs
        <5> QED
          BY <5>1 DEF StreakType
      <4> QED
        BY <1>2, <3>1, <3>2, <4>1
  <2>8. \A n \in (N - L + 1) .. N : Repeats(n, sig)'
    BY <1>1, <1>2 DEF Repeats, Failed
  <2> HIDE DEF sig, L
  <2> QED
    BY <1>1, <1>2, <1>3, <1>8, <2>1, <2>5, <2>6, <2>7, <2>8
    DEF Followed, Repeats, Failed
<1> QED
  BY <1>2, <1>7, <1>8
-----------------------------------------------------------------------------
(* The parts of what the detector knows, and of what its rows say.         *)
StepsInOrder ==
    /\ \A n \in DOMAIN records : records[n].step <= step
    /\ \A m, n \in DOMAIN records : m < n => records[m].step <= records[n].step
RowsFollowed ==
    /\ streak.id <= streak.ordinal
    /\ \A a \in DOMAIN alarms :
          /\ alarms[a].id \in 1 .. streak.ordinal
          /\ alarms[a].upto <= Len(records) /\ alarms[a].length <= alarms[a].upto
          /\ alarms[a].id = streak.id =>
                alarms[a].signature = streak.signature /\ alarms[a].length <= streak.last
RowsTrue ==
    \A a \in DOMAIN alarms :
          /\ alarms[a].length >= STREAK_THRESHOLD
          /\ \A n \in (alarms[a].upto - alarms[a].length + 1) .. alarms[a].upto :
                Repeats(n, alarms[a].signature)
          /\ \A b \in 1 .. (a - 1) : alarms[b].id = alarms[a].id =>
                /\ alarms[b].signature = alarms[a].signature
                /\ alarms[b].length < alarms[a].length

(* What the detector knows is its parts. *)
LEMMA DetectorParts ==
    /\ DetectorKnows <=> StepsInOrder /\ RowsFollowed /\ (OneCallPerStep => Followed)
    /\ DetectorKnows' <=> StepsInOrder' /\ RowsFollowed' /\ (OneCallPerStep => Followed)'
BY DEF DetectorKnows, StepsInOrder, RowsFollowed

(* A tool call adds its record, of the current step, after the others. *)
LEMMA RecordGrown ==
    ASSUME TypeOK, RunTool
    PROVE  /\ DOMAIN records = 1 .. Len(records) /\ Len(records) \in Nat
           /\ DOMAIN records' = 1 .. (Len(records) + 1) /\ Len(records') = Len(records) + 1
           /\ \A n \in DOMAIN records : records'[n] = records[n]
           /\ records'[Len(records) + 1].step = step /\ records' # <<>>
           /\ pc = "tools" /\ pc' \in {"tools", "detect"} /\ step' = step
           /\ streak' = streak /\ alarms' = alarms
<1> DEFINE c == Head(todo)
           r == [id |-> made + 1, call |-> c.call, out |-> c.out, step |-> step]
<1>1. c \in [call : CallNames, out : Outcomes]
  BY HeadTailProperties DEF RunTool, TypeOK
<1>2. r \in RecordType /\ r.step = step
  BY <1>1 DEF RecordType, TypeOK
<1>3. records \in Seq(RecordType)
  BY DEF TypeOK, RecordType
<1>4. records' = Append(records, r)
  BY DEF RunTool
<1>5. pc = "tools" /\ pc' \in {"tools", "detect"} /\ step' = step
      /\ streak' = streak /\ alarms' = alarms
  BY DEF RunTool, anomaly
<1> HIDE DEF r
<1> QED
  BY <1>2, <1>3, <1>4, <1>5, AppendProperties

(* Any other step leaves the records alone, or starts anew without any. *)
LEMMA RecordsKept ==
    ASSUME TypeOK, Guard \/ CallLLM \/ Handoff \/ UNCHANGED vars
    PROVE  /\ records' = records /\ streak' = streak /\ alarms' = alarms
           /\ \/ pc = "decide" /\ step' = step + 1
              \/ step' = step /\ pc \notin {"tools", "detect"} /\ pc' \notin {"tools", "detect"}
              \/ step' = step /\ pc' = pc
<1>1. CASE Guard
  BY <1>1 DEF Guard, run, anomaly
<1>2. CASE CallLLM
  BY <1>2 DEF CallLLM, anomaly
<1>3. CASE Handoff
  BY <1>3 DEF Handoff, run, anomaly
<1>4. CASE UNCHANGED vars
  BY <1>4 DEF vars, run, anomaly
<1> QED
  BY <1>1, <1>2, <1>3, <1>4

(* A session starts without records and without rows. *)
LEMMA StartsAnew ==
    ASSUME Spawn \/ Resume
    PROVE  /\ records' = <<>> /\ alarms' = <<>> /\ streak' = NoStreak
           /\ DOMAIN records' = {} /\ DOMAIN alarms' = {} /\ Len(records') = 0
<1>1. records' = <<>> /\ alarms' = <<>> /\ streak' = NoStreak
  BY DEF Spawn, Resume, StartSession
<1> QED
  BY <1>1

(* Records carry the steps of their calls, in order. *)
LEMMA StepsStep ==
    ASSUME TypeOK, StepsInOrder, [Next]_vars
    PROVE  StepsInOrder'
<1>0. /\ step \in Nat /\ DOMAIN records = 1 .. Len(records) /\ Len(records) \in Nat
      /\ \A n \in DOMAIN records : n \in Nat /\ records[n].step \in Nat
  BY PartTypes DEF TypeOK
<1>1. CASE RunTool
  <2>1. ASSUME NEW n \in DOMAIN records'
        PROVE  records'[n].step <= step'
    <3>1. n \in DOMAIN records \/ n = Len(records) + 1
      BY <1>1, RecordGrown
    <3> QED
      BY <1>0, <1>1, <3>1, RecordGrown DEF StepsInOrder
  <2>2. ASSUME NEW m \in DOMAIN records', NEW n \in DOMAIN records', m < n
        PROVE  records'[m].step <= records'[n].step
    <3>1. m \in DOMAIN records /\ (n \in DOMAIN records \/ n = Len(records) + 1)
      BY <1>0, <1>1, <2>2, RecordGrown
    <3> QED
      BY <1>0, <1>1, <2>2, <3>1, RecordGrown DEF StepsInOrder
  <2> QED
    BY <2>1, <2>2 DEF StepsInOrder
<1>2. CASE Guard \/ CallLLM \/ Handoff \/ UNCHANGED vars
  <2>1. records' = records /\ step' \in Nat /\ step <= step'
    BY <1>0, <1>2, RecordsKept
  <2> QED
    BY <1>0, <2>1 DEF StepsInOrder
<1>3. CASE Spawn \/ Resume
  BY <1>3, StartsAnew DEF StepsInOrder
<1>4. CASE Detect
  BY <1>4 DEF Detect, run, StepsInOrder
<1> QED
  BY <1>1, <1>2, <1>3, <1>4 DEF Next

(* The parts of an anomaly row have their types. *)
LEMMA RowTypes ==
    ASSUME TypeOK
    PROVE  /\ alarms \in Seq(AlarmType) /\ DOMAIN alarms = 1 .. Len(alarms) /\ Len(alarms) \in Nat
           /\ \A a \in DOMAIN alarms : /\ a \in Nat /\ alarms[a].id \in Nat
                                       /\ alarms[a].length \in Nat /\ alarms[a].upto \in Nat
           /\ streak.id \in Nat /\ streak.last \in Nat /\ streak.ordinal \in Nat
<1>1. alarms \in Seq(AlarmType) /\ streak \in StreakType
  BY DEF TypeOK, AlarmType, StreakType
<1>2. DOMAIN alarms = 1 .. Len(alarms) /\ Len(alarms) \in Nat
  BY <1>1
<1>3. \A a \in DOMAIN alarms : a \in Nat /\ alarms[a] \in AlarmType
  BY <1>1, <1>2, ElementOfSeq
<1> QED
  BY <1>1, <1>2, <1>3 DEF AlarmType, StreakType

(* The rows stay true and the detector still knows them: a detection adds a *)
(* row to a new streak, or a longer one to the streak it follows.           *)
LEMMA RowsStep ==
    ASSUME TypeOK, RowsFollowed, RowsTrue, [Next]_vars
    PROVE  RowsFollowed' /\ RowsTrue'
<1>0. /\ alarms \in Seq(AlarmType) /\ DOMAIN alarms = 1 .. Len(alarms) /\ Len(alarms) \in Nat
      /\ \A a \in DOMAIN alarms : /\ a \in Nat /\ alarms[a].id \in Nat
                                  /\ alarms[a].length \in Nat /\ alarms[a].upto \in Nat
      /\ streak.id \in Nat /\ streak.last \in Nat /\ streak.ordinal \in Nat
      /\ Len(records) \in Nat
  BY RowTypes, PartTypes
<1>1. CASE RunTool
  <2>1. alarms' = alarms /\ streak' = streak /\ Len(records') = Len(records) + 1
    BY <1>1, RecordGrown
  <2>2. RowsFollowed'
    BY <1>0, <2>1 DEF RowsFollowed
  <2>3. ASSUME NEW a \in DOMAIN alarms,
               NEW n \in (alarms[a].upto - alarms[a].length + 1) .. alarms[a].upto
        PROVE  Repeats(n, alarms[a].signature)'
    <3>1. n \in 1 .. Len(records)
      <4>1. alarms[a].upto <= Len(records) /\ alarms[a].length <= alarms[a].upto
        BY DEF RowsFollowed
      <4> QED
        BY <1>0, <4>1
    <3>2. records'[n] = records[n]
      BY <1>1, <3>1, RecordGrown
    <3>3. Repeats(n, alarms[a].signature)
      BY DEF RowsTrue
    <3> QED
      BY <2>1, <3>2, <3>3 DEF Repeats, Failed
  <2> QED
    BY <2>1, <2>2, <2>3 DEF RowsTrue
<1>2. CASE Guard \/ CallLLM \/ Handoff \/ UNCHANGED vars
  <2>1. records' = records /\ streak' = streak /\ alarms' = alarms
    BY <1>2, RecordsKept
  <2> QED
    BY <2>1 DEF RowsFollowed, RowsTrue, Repeats, Failed
<1>3. CASE Spawn \/ Resume
  <2>1. streak' = NoStreak /\ DOMAIN alarms' = {}
    BY <1>3, StartsAnew
  <2> QED
    BY <2>1 DEF RowsFollowed, RowsTrue, NoStreak
<1>4. CASE Detect
  <2> DEFINE N == Len(records)
             L == TrailingLength
             sig == Signature(records[N])
             s == Carried(sig)
             alarm == [id |-> streak'.id, signature |-> sig, length |-> L, upto |-> N]
  <2>1. records' = records
    BY <1>4 DEF Detect
  <2>2. /\ L \in Nat /\ L <= N /\ N \in Nat
        /\ \A n \in (N - L + 1) .. N : Repeats(n, sig)
    BY TrailingRun, PartTypes
  <2>3. streak' \in StreakType
    BY <1>4, DetectTypes
  <2>4. streak'.id \in Nat /\ streak'.last \in Nat /\ streak'.ordinal \in Nat
    BY <2>3 DEF StreakType
  <2>5. CASE L = 0
    <3>1. alarms' = alarms /\ streak'.id = 0 /\ streak'.ordinal = streak.ordinal
      BY <1>4, <2>2, <2>5, DetectDoes
    <3>2. RowsFollowed'
      BY <1>0, <2>1, <3>1 DEF RowsFollowed
    <3> QED
      BY <2>1, <3>1, <3>2 DEF RowsTrue, Repeats, Failed
  <2>6. CASE L > 0
    <3>1. sig \in TextType
      BY <1>4, <2>2, <2>6, DetectDoes
    <3>2. /\ s \in StreakType /\ s.ordinal = streak.ordinal
          /\ \/ streak.signature = sig /\ s = streak
             \/ s.id = 0 /\ s.last = 0
      BY <3>1, CarriedIs
    <3>3. s.id \in Nat /\ s.last \in Nat
      BY <3>2 DEF StreakType
    <3>4. /\ streak'.signature = sig
          /\ \/ L <= s.last /\ streak' = s /\ alarms' = alarms
             \/ /\ L > s.last /\ L < STREAK_THRESHOLD /\ alarms' = alarms
                /\ streak'.last = L /\ streak'.id = s.id /\ streak'.ordinal = s.ordinal
             \/ /\ L > s.last /\ L >= STREAK_THRESHOLD /\ streak'.last = L
                /\ \/ s.id # 0 /\ streak'.id = s.id /\ streak'.ordinal = s.ordinal
                   \/ s.id = 0 /\ streak'.id = s.ordinal + 1 /\ streak'.ordinal = s.ordinal + 1
                /\ alarms' = Append(alarms, alarm)
      BY <1>4, <2>2, <2>6, DetectDoes
    <3> HIDE DEF s
    <3>5. /\ streak'.id <= streak'.ordinal /\ streak.ordinal <= streak'.ordinal
          /\ \A a \in DOMAIN alarms : alarms[a].id = streak'.id =>
                /\ alarms[a].signature = sig /\ alarms[a].length <= s.last
                /\ s.last <= streak'.last
      <4>1. CASE streak.signature = sig /\ s = streak
        BY <1>0, <2>2, <3>2, <3>3, <3>4, <4>1 DEF RowsFollowed
      <4>2. CASE s.id = 0 /\ s.last = 0
        BY <1>0, <2>2, <2>6, <3>2, <3>3, <3>4, <4>2 DEF RowsFollowed
      <4> QED
        BY <3>2, <4>1, <4>2
    <3>6. CASE alarms' = alarms
      <4>1. ASSUME NEW a \in DOMAIN alarms
            PROVE  /\ alarms[a].id \in 1 .. streak'.ordinal
                   /\ alarms[a].upto <= N /\ alarms[a].length <= alarms[a].upto
                   /\ alarms[a].id = streak'.id =>
                         alarms[a].signature = streak'.signature /\ alarms[a].length <= streak'.last
        <5>1. /\ alarms[a].id \in 1 .. streak.ordinal
              /\ alarms[a].upto <= N /\ alarms[a].length <= alarms[a].upto
          BY DEF RowsFollowed
        <5>2. alarms[a].id \in 1 .. streak'.ordinal
          BY <1>0, <2>4, <3>5, <5>1
        <5>3. alarms[a] \in AlarmType
          BY <1>0
        <5>4. alarms[a].length \in Nat
          BY <5>3 DEF AlarmType
        <5>5. alarms[a].id = streak'.id =>
                 alarms[a].signature = streak'.signature /\ alarms[a].length <= streak'.last
          BY <2>4, <3>3, <3>4, <3>5, <5>4
        <5> QED
          BY <5>1, <5>2, <5>5
      <4>2. RowsFollowed'
        BY <2>1, <3>5, <3>6, <4>1 DEF RowsFollowed
      <4> QED
        BY <2>1, <3>6, <4>2 DEF RowsTrue, Repeats, Failed
    <3>7. CASE alarms' # alarms
      <4>1. /\ L > s.last /\ L >= STREAK_THRESHOLD /\ streak'.last = L
            /\ streak'.id \in 1 .. streak'.ordinal /\ alarms' = Append(alarms, alarm)
        BY <1>0, <2>4, <3>2, <3>3, <3>4, <3>5, <3>7
      <4>2. /\ alarm.id = streak'.id /\ alarm.signature = sig /\ alarm.length = L
            /\ alarm.upto = N
        OBVIOUS
      <4>3. alarm \in AlarmType
        BY <2>2, <2>4, <3>1 DEF AlarmType
      <4> HIDE DEF alarm
      <4>4. /\ DOMAIN alarms' = 1 .. (Len(alarms) + 1) /\ alarms'[Len(alarms) + 1] = alarm
            /\ \A a \in DOMAIN alarms : alarms'[a] = alarms[a]
        BY <1>0, <4>1, <4>3, AppendProperties
      <4> HIDE DEF L, sig, N
      <4>5. ASSUME NEW a \in DOMAIN alarms'
            PROVE  /\ alarms'[a].id \in 1 .. streak'.ordinal
                   /\ alarms'[a].upto <= N /\ alarms'[a].length <= alarms'[a].upto
                   /\ alarms'[a].id = streak'.id =>
                         alarms'[a].signature = streak'.signature /\ alarms'[a].length <= streak'.last
        <5>1. CASE a \in DOMAIN alarms
          <6>1. alarms'[a] = alarms[a]
            BY <4>4, <5>1
          <6>2. /\ alarms[a].id \in 1 .. streak.ordinal
                /\ alarms[a].upto <= N /\ alarms[a].length <= alarms[a].upto
            BY <5>1 DEF RowsFollowed, N
          <6>3. alarms[a].id \in 1 .. streak'.ordinal
            BY <1>0, <2>4, <3>5, <6>2
          <6>4. alarms[a].id = streak'.id =>
                   alarms[a].signature = streak'.signature /\ alarms[a].length <= streak'.last
            BY <1>0, <2>4, <3>3, <3>4, <3>5, <5>1
          <6> QED
            BY <6>1, <6>2, <6>3, <6>4
        <5>2. CASE a = Len(alarms) + 1
          <6>1. alarms'[a] = alarm
            BY <4>4, <5>2
          <6>2. L <= N /\ L <= L /\ N <= N
            BY <2>2
          <6> QED
            <7>1. streak'.signature = sig /\ streak'.last = L /\ streak'.id \in 1 .. streak'.ordinal
              BY <3>4, <4>1
            <7> QED
              BY <4>2, <6>1, <6>2, <7>1
        <5> QED
          BY <1>0, <4>4, <5>1, <5>2
      <4>6. ASSUME NEW a \in DOMAIN alarms'
            PROVE  /\ alarms'[a].length >= STREAK_THRESHOLD
                   /\ \A n \in (alarms'[a].upto - alarms'[a].length + 1) .. alarms'[a].upto :
                         Repeats(n, alarms'[a].signature)
                   /\ \A b \in 1 .. (a - 1) : alarms'[b].id = alarms'[a].id =>
                         /\ alarms'[b].signature = alarms'[a].signature
                         /\ alarms'[b].length < alarms'[a].length
        <5>1. CASE a \in DOMAIN alarms
          <6>1. \A b \in 1 .. (a - 1) : b \in DOMAIN alarms
            BY <1>0, <5>1
          <6> QED
            BY <4>4, <5>1, <6>1 DEF RowsTrue
        <5>2. CASE a = Len(alarms) + 1
          <6>1. \A b \in 1 .. (a - 1) : b \in DOMAIN alarms
            BY <1>0, <5>2
          <6>2. ASSUME NEW b \in 1 .. (a - 1), alarms'[b].id = alarms'[a].id
                PROVE  /\ alarms'[b].signature = alarms'[a].signature
                       /\ alarms'[b].length < alarms'[a].length
            <7>1. b \in DOMAIN alarms /\ alarms'[b] = alarms[b] /\ alarms'[a] = alarm
              BY <4>4, <5>2, <6>1
            <7>2. alarms[b].id = streak'.id
              BY <4>2, <6>2, <7>1
            <7>3. alarms[b].signature = sig /\ alarms[b].length <= s.last
              BY <3>5, <7>1, <7>2
            <7>4. alarms[b] \in AlarmType
              BY <1>0, <7>1
            <7>5. alarms[b].length \in Nat
              BY <7>4 DEF AlarmType
            <7>6. alarms[b].length < L
              BY <2>2, <3>3, <4>1, <7>3, <7>5
            <7> QED
              BY <4>2, <7>1, <7>3, <7>6
          <6> QED
            BY <2>2, <4>1, <4>2, <4>4, <5>2, <6>2
        <5> QED
          BY <1>0, <4>4, <5>1, <5>2
      <4>7. RowsFollowed'
        BY <2>1, <3>5, <4>5 DEF RowsFollowed, N
      <4>8. RowsTrue'
        BY <2>1, <4>6 DEF RowsTrue, Repeats, Failed
      <4> QED
        BY <4>7, <4>8
    <3> QED
      BY <3>6, <3>7
  <2> QED
    BY <2>2, <2>5, <2>6
<1> QED
  BY <1>1, <1>2, <1>3, <1>4 DEF Next

(* The newest record is one. *)
LEMMA LastRecord ==
    ASSUME TypeOK, records # <<>>
    PROVE  Len(records) \in DOMAIN records
<1>1. records \in Seq(RecordType)
  BY DEF TypeOK, RecordType
<1> QED
  BY <1>1

(* Calls one at a time: what is followed stays the whole trailing streak. *)
LEMMA FollowedKept ==
    ASSUME TypeOK, StepsInOrder, OneCallPerStep => Followed, [Next]_vars, OneCallPerStep'
    PROVE  Followed'
<1>0. /\ step \in Nat /\ DOMAIN records = 1 .. Len(records) /\ Len(records) \in Nat
      /\ \A n \in DOMAIN records : n \in Nat /\ records[n].step \in Nat
      /\ streak.last \in Nat
  BY PartTypes, RowTypes DEF TypeOK
<1>1. CASE RunTool
  <2>1. OneCallPerStep
    <3>1. ASSUME NEW m \in DOMAIN records, NEW n \in DOMAIN records,
                 records[m].step = records[n].step
          PROVE  m = n
      <4>1. /\ m \in DOMAIN records' /\ n \in DOMAIN records'
            /\ records'[m].step = records'[n].step
        BY <1>0, <1>1, <3>1, RecordGrown
      <4> QED
        BY <4>1 DEF OneCallPerStep
    <3> QED
      BY <3>1 DEF OneCallPerStep
  <2>2. Shown = Len(records)
    <3>1. ASSUME records # <<>>, records[Len(records)].step = step
          PROVE  FALSE
      <4>1. Len(records) \in DOMAIN records /\ Len(records) # Len(records) + 1
        <5>1. Len(records) \in DOMAIN records
          BY <3>1, LastRecord
        <5>2. Len(records) \in Nat
          BY <1>0
        <5> QED
          BY <5>1, <5>2
      <4>2. Len(records) \in DOMAIN records' /\ Len(records) + 1 \in DOMAIN records'
        <5>1. /\ DOMAIN records' = 1 .. (Len(records) + 1) /\ Len(records) \in Nat
              /\ Len(records) \in 1 .. Len(records)
          BY <1>0, <1>1, <4>1, RecordGrown
        <5> QED
          BY <5>1
      <4>3. records'[Len(records)].step = records'[Len(records) + 1].step
        BY <1>1, <3>1, <4>1, RecordGrown
      <4> QED
        BY <4>1, <4>2, <4>3 DEF OneCallPerStep
    <3> QED
      BY <3>1 DEF Shown
  <2>3. Shown' = Len(records)
    <3>1. /\ Len(records') = Len(records) + 1 /\ records' # <<>>
          /\ pc' \in {"tools", "detect"}
          /\ records'[Len(records) + 1].step = step'
      BY <1>1, RecordGrown
    <3>2. records'[Len(records')].step = step'
      BY <3>1
    <3>3. Shown' = Len(records') - 1
      BY <3>1, <3>2 DEF Shown
    <3> QED
      BY <1>0, <3>1, <3>3
  <2>4. streak' = streak /\ alarms' = alarms
    BY <1>1, RecordGrown
  <2>5. ASSUME NEW n \in 1 .. Len(records)
        PROVE  /\ Repeats(n, streak.signature)' <=> Repeats(n, streak.signature)
               /\ Failed(n)' <=> Failed(n)
    <3>1. records'[n] = records[n]
      BY <1>0, <1>1, RecordGrown
    <3> QED
      BY <2>4, <3>1 DEF Repeats, Failed
  <2>6. \A n \in (Len(records) - streak.last + 1) .. Len(records) :
           Repeats(n, streak.signature) => Repeats(n, streak.signature)'
    <3>1. streak.last <= Len(records)
      BY <2>1, <2>2 DEF Followed
    <3> QED
      <4>1. \A n \in (Len(records) - streak.last + 1) .. Len(records) : n \in 1 .. Len(records)
        BY <1>0, <3>1
      <4> QED
        BY <2>5, <4>1
  <2>7. ASSUME streak.last # 0, streak.last < Len(records),
               ~Repeats(Len(records) - streak.last, streak.signature)
        PROVE  ~(~Ok(records'[Len(records) - streak.last])
                 /\ Signature(records'[Len(records) - streak.last]) = streak'.signature)
    <3>1. Len(records) - streak.last \in DOMAIN records
      BY <1>0, <2>7
    <3>2. records'[Len(records) - streak.last] = records[Len(records) - streak.last]
      BY <1>1, <3>1, RecordGrown
    <3> QED
      BY <2>4, <2>7, <3>2 DEF Repeats, Failed
  <2>8. ASSUME Len(records) # 0, ~Failed(Len(records))
        PROVE  Ok(records'[Len(records)])
    <3>1. Len(records) \in DOMAIN records
      BY <1>0, <2>8
    <3>2. records'[Len(records)] = records[Len(records)]
      BY <1>1, <3>1, RecordGrown
    <3> QED
      BY <2>8, <3>2 DEF Failed
  <2>9. Followed
    BY <2>1
  <2> DEFINE N == Len(records)
  <2> HIDE DEF N
  <2>10. /\ streak.last <= N
         /\ \A n \in (N - streak.last + 1) .. N : Repeats(n, streak.signature)
         /\ streak.last # 0 /\ streak.last < N => ~Repeats(N - streak.last, streak.signature)
         /\ streak.last = 0 /\ N # 0 => ~Failed(N)
         /\ streak.last >= STREAK_THRESHOLD =>
               /\ alarms # <<>> /\ alarms[Len(alarms)].upto = N
               /\ alarms[Len(alarms)].length = streak.last
    BY <2>2, <2>9 DEF Followed, N
  <2>11. /\ \A n \in (N - streak.last + 1) .. N : Repeats(n, streak.signature)'
         /\ streak.last # 0 /\ streak.last < N =>
               ~(~Ok(records'[N - streak.last]) /\ Signature(records'[N - streak.last]) = streak'.signature)
         /\ streak.last = 0 /\ N # 0 => Ok(records'[N])
    <3>1. \A n \in (N - streak.last + 1) .. N : Repeats(n, streak.signature)'
      BY <2>6, <2>10 DEF N
    <3> QED
      BY <2>7, <2>8, <2>10, <3>1 DEF N
  <2>12. Shown' = N
    BY <2>3 DEF N
  <2> QED
    BY <2>4, <2>10, <2>11, <2>12 DEF Followed, Repeats, Failed
<1>2. CASE Guard \/ CallLLM \/ Handoff \/ UNCHANGED vars
  <2>1. records' = records /\ streak' = streak /\ alarms' = alarms
    BY <1>2, RecordsKept
  <2>2. OneCallPerStep
    BY <2>1 DEF OneCallPerStep
  <2>3. Shown' = Shown
    <3>1. CASE pc = "decide" /\ step' = step + 1
      <4>1. records # <<>> => records[Len(records)].step # step'
        <5>1. records # <<>> => Len(records) \in DOMAIN records
          BY LastRecord
        <5> QED
          BY <1>0, <3>1, <5>1 DEF StepsInOrder
      <4> QED
        BY <2>1, <3>1, <4>1 DEF Shown
    <3>2. CASE step' = step /\ pc \notin {"tools", "detect"} /\ pc' \notin {"tools", "detect"}
      BY <2>1, <3>2 DEF Shown
    <3>3. CASE step' = step /\ pc' = pc
      BY <2>1, <3>3 DEF Shown
    <3> QED
      BY <1>2, <3>1, <3>2, <3>3, RecordsKept
  <2> QED
    BY <2>1, <2>2, <2>3 DEF Followed, Repeats, Failed
<1>3. CASE Spawn \/ Resume
  <2>1. /\ records' = <<>> /\ Len(records') = 0 /\ streak'.last = 0
    BY <1>3, StartsAnew DEF NoStreak
  <2>2. Shown' = 0
    BY <2>1 DEF Shown
  <2> QED
    BY <2>1, <2>2 DEF Followed, STREAK_THRESHOLD
<1>4. CASE Detect
  <2>1. OneCallPerStep
    BY <1>4 DEF OneCallPerStep, Detect
  <2> QED
    BY <1>4, <2>1, FollowedStep
<1> QED
  BY <1>1, <1>2, <1>3, <1>4 DEF Next

(* With what the detector knows, the rows say what AlarmsAreTrue asks. *)
LEMMA AlarmsHold ==
    ASSUME TypeOK, DetectorKnows, RowsTrue
    PROVE  AlarmsAreTrue
<1> DEFINE N == Len(records)
           L == TrailingLength
           sig == Signature(records[N])
<1>1. /\ L \in Nat /\ L <= N /\ N \in Nat
      /\ \A n \in (N - L + 1) .. N : Repeats(n, sig)
      /\ \A l \in 1 .. N : (\A n \in (N - l + 1) .. N : Repeats(n, sig)) => l <= L
  BY TrailingRun, PartTypes
<1>2. streak.last \in Nat
  BY RowTypes
<1>3. ASSUME pc = "guard", L >= STREAK_THRESHOLD, OneCallPerStep
      PROVE  /\ alarms # <<>> /\ alarms[Len(alarms)].upto = N
             /\ alarms[Len(alarms)].length = L
  <2>1. Shown = N
    BY <1>3, ShownCalls
  <2>2. /\ streak.last <= N
        /\ \A n \in (N - streak.last + 1) .. N : Repeats(n, streak.signature)
        /\ streak.last # 0 /\ streak.last < N => ~Repeats(N - streak.last, streak.signature)
        /\ streak.last = 0 /\ N # 0 => ~Failed(N)
        /\ streak.last >= STREAK_THRESHOLD =>
              /\ alarms # <<>> /\ alarms[Len(alarms)].upto = N
              /\ alarms[Len(alarms)].length = streak.last
    BY <1>3, <2>1, DetectorParts DEF Followed
  <2>3. L \in 3 .. N
    BY <1>1, <1>3 DEF STREAK_THRESHOLD
  <2> HIDE DEF L, sig, N
  <2>4. Repeats(N, sig)
    BY <1>1, <2>3
  <2>5. streak.last \in 1 .. N
    BY <1>1, <1>2, <2>2, <2>3, <2>4 DEF Repeats
  <2>6. streak.signature = sig
    <3>1. Repeats(N, streak.signature)
      BY <1>1, <2>2, <2>5
    <3> QED
      BY <2>4, <3>1 DEF Repeats
  <2>7. streak.last <= L
    BY <1>1, <2>2, <2>5, <2>6
  <2>8. ~(streak.last < L)
    <3>1. ASSUME streak.last < L
          PROVE  FALSE
      <4>1. N - streak.last \in (N - L + 1) .. N /\ streak.last < N
        BY <1>1, <2>5, <3>1
      <4> QED
        BY <1>1, <2>2, <2>5, <2>6, <4>1
    <3> QED
      BY <3>1
  <2>9. streak.last = L
    BY <1>1, <1>2, <2>7, <2>8
  <2> QED
    BY <1>3, <2>2, <2>9
<1>4. \A a \in DOMAIN alarms :
         /\ alarms[a].length >= STREAK_THRESHOLD
         /\ \A n \in (alarms[a].upto - alarms[a].length + 1) .. alarms[a].upto :
               Failed(n) /\ Signature(records[n]) = alarms[a].signature
         /\ \A b \in 1 .. (a - 1) : alarms[b].id = alarms[a].id =>
               /\ alarms[b].signature = alarms[a].signature
               /\ alarms[b].length < alarms[a].length
  BY DEF RowsTrue, Repeats
<1> QED
  BY <1>3, <1>4 DEF AlarmsAreTrue, OneCallPerStep
-----------------------------------------------------------------------------
(* The joint invariant: what each part needs of the others.                *)
Safe == IInv /\ StubsAreCovered /\ RowsTrue

(* It holds in the opening state, of two messages and nothing else. *)
LEMMA SafeInit ==
    Init => Safe
<1> SUFFICES ASSUME Init
             PROVE  Safe
  OBVIOUS
<1>1. /\ messages = <<Plain(1, "system"), Plain(2, "user")>> /\ made = 2
      /\ Plain(1, "system") \in MessageType /\ Plain(2, "user") \in MessageType
      /\ Plain(1, "system").obj = 1 /\ Plain(2, "user").obj = 2
      /\ Plain(1, "system").id = 0 /\ Plain(2, "user").id = 0
      /\ Plain(1, "system").role = "system" /\ Plain(2, "user").role = "user"
      /\ Plain(1, "system").text # Stub /\ Plain(2, "user").text # Stub
  BY PlainTypes DEF Init
<1>2. /\ messages \in Seq(MessageType) /\ Len(messages) = 2 /\ DOMAIN messages = 1 .. 2
      /\ messages[1] = Plain(1, "system") /\ messages[2] = Plain(2, "user")
  BY <1>1
<1>3. TypeOK
  <2>1. NoSnapshot \in [call : Nat, messages : Seq(MessageType)]
    BY DEF NoSnapshot
  <2>2. snapshot \in [Kinds -> [call : Nat, messages : Seq(MessageType)]]
    BY <2>1 DEF Init
  <2>3. streak \in StreakType
    BY DEF Init, NoStreak, StreakType, Text, TextType
  <2> QED
    <3>1. 0 \in 0 .. MaxSteps /\ 1 \in 1 .. MaxSessions
      BY ConversationAssumption
    <3>2. /\ pc = "guard" /\ step = 0 /\ sessions = 1 /\ todo = <<>> /\ loaded = FALSE
          /\ records = <<>> /\ rows = <<>> /\ sent = <<>> /\ alarms = <<>>
      BY DEF Init
    <3>3. /\ todo \in Seq([call : CallNames, out : Outcomes])
          /\ records \in Seq([id : Nat, call : CallNames, out : Outcomes, step : Nat])
          /\ rows \in Seq([base : Nat, prefix : Nat, messages : Seq(MessageType)])
          /\ sent \in Seq(Seq(MessageType)) /\ Len(sent) = Len(rows)
          /\ alarms \in Seq([id : Nat, signature : TextType, length : Nat, upto : Nat])
      BY <3>2
    <3> QED
      BY <1>1, <1>2, <2>2, <2>3, <3>1, <3>2, <3>3 DEF TypeOK, StreakType
<1>4. ObjectsAreMessages
  <2>1. \A k \in Kinds : In(snapshot[k].messages) = {}
    BY DEF Init, In, NoSnapshot
  <2>2. In(messages) = {Plain(1, "system"), Plain(2, "user")}
    BY <1>2 DEF In
  <2>3. Held = {Plain(1, "system"), Plain(2, "user")}
    BY <2>1, <2>2 DEF Held
  <2> QED
    BY <1>1, <2>3 DEF ObjectsAreMessages
<1>5. SnapshotsAreCalls
  BY DEF Init, SnapshotsAreCalls, NoSnapshot
<1>6. DeltasAreTrue
  BY DEF Init, DeltasAreTrue
<1>7. records = <<>> /\ DOMAIN records = {} /\ DOMAIN alarms = {} /\ Len(records) = 0
  BY DEF Init
<1>8. Answers = {}
  BY <1>1, <1>2 DEF Answers
<1>9. InCallOrder
  BY <1>1, <1>2, <1>7, <1>8 DEF InCallOrder
<1>10. streak.last = 0 /\ streak.id = 0 /\ streak.ordinal = 0 /\ Shown = 0
  BY <1>7 DEF Init, NoStreak, Shown
<1>11. StepsInOrder /\ RowsFollowed /\ Followed
  BY <1>7, <1>10 DEF StepsInOrder, RowsFollowed, Followed, STREAK_THRESHOLD
<1>12. DetectorKnows
  BY <1>11, DetectorParts
<1>13. StubsAreCovered
  BY <1>1, <1>2, <1>7 DEF StubsAreCovered
<1>14. RowsTrue
  BY <1>7 DEF RowsTrue
<1> QED
  BY <1>3, <1>4, <1>5, <1>6, <1>9, <1>12, <1>13, <1>14 DEF Safe, IInv

(* Every step keeps it. *)
LEMMA SafeStep ==
    Safe /\ [Next]_vars => Safe'
<1> SUFFICES ASSUME Safe, [Next]_vars
             PROVE  Safe'
  OBVIOUS
<1>1. TypeOK /\ InCallOrder /\ StubsAreCovered /\ RowsTrue
  BY DEF Safe, IInv
<1>2. TypeOK' /\ InCallOrder'
  BY <1>1, TypeStep, OrderStep
<1>3. ObjectsAreMessages' /\ SnapshotsAreCalls' /\ DeltasAreTrue'
  BY ObjectsStep, DeltasStep DEF Safe, IInv
<1>4. StepsInOrder /\ RowsFollowed /\ (OneCallPerStep => Followed)
  BY DetectorParts DEF Safe, IInv
<1>5. StepsInOrder' /\ RowsFollowed' /\ RowsTrue'
  BY <1>1, <1>4, StepsStep, RowsStep
<1>6. (OneCallPerStep => Followed)'
  BY <1>1, <1>4, FollowedKept
<1>7. DetectorKnows'
  BY <1>5, <1>6, DetectorParts
<1>8. StubsAreCovered'
  BY <1>1, <1>2, CoverStep
<1> QED
  BY <1>2, <1>3, <1>5, <1>7, <1>8 DEF Safe, IInv

(* One object is one message, a snapshot is what its call sent and a delta  *)
(* row restores its call (Recorder._encode_messages), answers stay in call *)
(* order and the detector knows the streak it follows: in every run.       *)
THEOREM Inductive == Spec => []IInv
<1>1. Safe => IInv
  BY DEF Safe
<1> QED
  BY <1>1, SafeInit, SafeStep, PTL DEF Spec

(* The viewer's _resolve_message_deltas shows every call with exactly the  *)
(* messages it sent, however the guard rewrote the list in between.        *)
THEOREM ViewerIsRight == Spec => []ReaderRestores
<1>1. Safe => ReaderRestores
  BY ReaderIsRight DEF Safe, IInv
<1> QED
  BY <1>1, SafeInit, SafeStep, PTL DEF Spec

(* What the context guard retires, but for a skill's body retired for a    *)
(* pointer, is covered by a later answer that is there and did not fail,   *)
(* through resets and resumed runs, and every call keeps its message.      *)
THEOREM RetirementCovers == Spec => []RetiredIsCovered
<1>1. Safe => RetiredIsCovered
  BY DEF Safe, StubsAreCovered, RetiredIsCovered
<1> QED
  BY <1>1, SafeInit, SafeStep, PTL DEF Spec

(* An anomaly row counts only failures of its signature, the rows of one   *)
(* streak grow, and with one call per step no long streak goes unsignalled.*)
THEOREM AlarmsNeverOverstate == Spec => []AlarmsAreTrue
<1>1. Safe => AlarmsAreTrue
  BY AlarmsHold DEF Safe, IInv
<1> QED
  BY <1>1, SafeInit, SafeStep, PTL DEF Spec
=============================================================================
