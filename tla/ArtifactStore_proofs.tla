------------------------- MODULE ArtifactStore_proofs -------------------------
(***************************************************************************)
(* For any texts, ids and budgets: what is shown of a stored stream leads  *)
(* to its text as read_text returns it, no text without CRLF is stored     *)
(* that an older file holds, and a pointer into a stdout file reads back.  *)
(* Storing one stream preserves WellStored (LEMMA OneStream); an operation *)
(* stores two, unless the first or the second raises.                      *)
(***************************************************************************)
EXTENDS ArtifactStore, TLAPS, SequenceTheorems, FiniteSetTheorems, WellFoundedInduction

USE StoreAssumption

(* A set of naturals that is not empty has a least element, and a greatest *)
(* one if it has a bound.                                                  *)
LEMMA LeastOf ==
  ASSUME NEW S, S \subseteq Nat, S # {}
  PROVE  \E n \in S : \A m \in S : n <= m
  <1> DEFINE R == OpToRel(<, Nat)
  <1>1. PICK n \in S : \A m \in S : ~(<<m, n>> \in R)
    BY WFMin, NatLessThanWellFounded, Zenon
  <1>2. ASSUME NEW m \in S, m < n
        PROVE  <<m, n>> \in R
    <2>1. m \in Nat /\ n \in Nat
      OBVIOUS
    <2>. QED  BY <1>2, <2>1, Zenon DEF OpToRel
  <1> HIDE DEF R
  <1>3. \A m \in S : ~(m < n)
    BY <1>1, <1>2
  <1>. QED  BY <1>3

LEMMA GreatestOf ==
  ASSUME NEW n \in Nat, NEW S, S \subseteq 1 .. n, S # {}
  PROVE  \E k \in S : \A j \in S : j <= k
  <1> DEFINE T == {n - k : k \in S}
  <1>1. T \subseteq Nat /\ T # {}
    <2>1. \A k \in S : n - k \in Nat
      OBVIOUS
    <2>. QED  BY <2>1
  <1>2. PICK m \in T : \A i \in T : m <= i
    <2> HIDE DEF T
    <2>. QED  BY <1>1, LeastOf
  <1>3. PICK k \in S : m = n - k
    BY <1>2
  <1>4. \A j \in S : n - k <= n - j
    BY <1>2, <1>3
  <1>5. \A j \in S : j <= k
    BY <1>4
  <1>. QED  BY <1>5

(* Every text is found in itself, and str.find finds what there is.        *)
LEMMA TextTypes ==
  ASSUME NEW text \in Texts
  PROVE  /\ text \in Seq(Symbols) /\ Len(text) \in Nat
         /\ SubSeq(text, 1, Len(text)) = text
         /\ 0 \in Occurs(text, text)
  <1>1. text \in Seq(Symbols)
    OBVIOUS
  <1>2. Len(text) \in Nat
    BY <1>1, LenProperties
  <1>3. SubSeq(text, 1, Len(text)) = text
    BY <1>1, SubSeqFull
  <1>4. 0 \in Occurs(text, text)
    BY <1>2, <1>3 DEF Occurs
  <1>. QED  BY <1>1, <1>2, <1>3, <1>4

(* Reading a file back keeps its length; line ends may change.             *)
LEMMA ReadTypes ==
  ASSUME NEW S, NEW t \in Seq(S)
  PROVE  /\ ReadText(t) \in Seq(S \cup {Newline})
         /\ Len(ReadText(t)) = Len(t) /\ Len(ReadText(t)) \in Nat
  <1>1. Len(t) \in Nat /\ DOMAIN t = 1 .. Len(t)
    BY LenProperties
  <1>2. \A i \in 1 .. Len(t) : t[i] \in S
    BY ElementOfSeq
  <1> DEFINE n == Len(t)
             T == S \cup {Newline}
             line(i) == IF t[i] = CRLF THEN Newline ELSE t[i]
             r == [i \in 1 .. n |-> line(i)]
  <1>3. \A i \in 1 .. n : line(i) \in T
    BY <1>2
  <1>4. ReadText(t) = r
    BY <1>1 DEF ReadText
  <1>5. n \in Nat
    BY <1>1
  <1> HIDE DEF n, T, line
  <1>6. r \in [1 .. n -> T]
    BY <1>3
  <1> HIDE DEF r
  <1>7. r \in Seq(T) /\ DOMAIN r = 1 .. n
    BY <1>5, <1>6, SeqDef, Zenon
  <1>8. Len(r) = n
    BY <1>5, <1>7, LenProperties
  <1>. QED  BY <1>4, <1>5, <1>7, <1>8 DEF n, T

LEMMA Finds ==
  ASSUME NEW text, NEW content, Occurs(text, content) # {}
  PROVE  Find(text, content) \in Occurs(text, content)
  <1> DEFINE O == Occurs(text, content)
  <1>1. O \subseteq Nat
    BY DEF Occurs
  <1>2. Find(text, content) = CHOOSE o \in O : \A p \in O : o <= p
    BY DEF Find
  <1> HIDE DEF O
  <1>3. \E o \in O : \A p \in O : o <= p
    <2>1. O # {}
      BY DEF O
    <2>. QED  BY <1>1, <2>1, LeastOf
  <1>. QED  BY <1>2, <1>3 DEF O

LEMMA OccursAt ==
  ASSUME NEW text \in Texts, NEW content, Len(content) \in Nat,
         NEW o \in Occurs(text, content)
  PROVE  /\ o \in Nat /\ o + Len(text) <= Len(content)
         /\ SubSeq(content, o + 1, o + Len(text)) = text
  BY TextTypes DEF Occurs

(* A content that a text occurs in is no shorter than the text.            *)
LEMMA OccursFits ==
  ASSUME NEW text \in Texts, NEW content, Len(content) \in Nat, Occurs(text, content) # {}
  PROVE  Len(content) >= Len(text)
  BY TextTypes DEF Occurs

(* The newest of some positions in a sequence is one of them.              *)
LEMMA NewestIn ==
  ASSUME NEW S, NEW order \in Seq(S), NEW ks, ks \subseteq DOMAIN order, ks # {}
  PROVE  Newest(ks) \in ks
  <1>1. Len(order) \in Nat /\ ks \subseteq 1 .. Len(order)
    BY LenProperties
  <1>2. \E k \in ks : \A j \in ks : j <= k
    BY <1>1, GreatestOf
  <1>. QED  BY <1>2 DEF Newest

(* What is stored reads as a sequence, at a place in the order.            *)
LEMMA StoredTypes ==
  ASSUME NEW fs, NEW order, NEW showing, WellStored(fs, order, showing)
  PROVE  /\ \A k \in DOMAIN order : order[k] \in Ids \X Streams /\ fs[order[k]] # NoFile
         /\ \A f \in Ids \X Streams : fs[f] # NoFile =>
               /\ Len(ReadText(fs[f])) \in Nat
               /\ \E k \in DOMAIN order : order[k] = f
  <1>1. \A k \in DOMAIN order : order[k] \in ToSet(order)
    BY DEF ToSet
  <1>2. \A f \in ToSet(order) : f \in Ids \X Streams /\ fs[f] # NoFile
    BY DEF WellStored
  <1>3. ASSUME NEW f \in Ids \X Streams, fs[f] # NoFile
        PROVE  /\ Len(ReadText(fs[f])) \in Nat
               /\ \E k \in DOMAIN order : order[k] = f
    <2>1. fs[f] \in Seq(Symbols) \/ fs[f] = Garbled
      BY <1>3 DEF WellStored
    <2>2. Garbled \in Seq({"garbled"})
      BY DEF Garbled
    <2>3. Len(ReadText(fs[f])) \in Nat
      BY <2>1, <2>2, ReadTypes
    <2>4. f \in ToSet(order)
      BY <1>3 DEF WellStored
    <2>. QED  BY <2>3, <2>4 DEF ToSet
  <1>. QED  BY <1>1, <1>2, <1>3

(* _find_duplicate: the file it names reads as the text where Find says.   *)
LEMMA DuplicateHolds ==
  ASSUME NEW fs, NEW order, NEW showing, WellStored(fs, order, showing),
         NEW text \in Texts, HasDuplicate(text, fs, order)
  PROVE  LET d == Duplicate(text, fs, order)
             content == ReadText(fs[d])
         IN /\ d \in Ids \X Streams /\ fs[d] # NoFile
            /\ Find(text, content) \in Nat
            /\ Find(text, content) + Len(text) <= Len(content)
            /\ SubSeq(content, Find(text, content) + 1, Find(text, content) + Len(text)) = text
  <1> DEFINE E == Equal(text, fs, order)
             C == Containing(text, fs, order)
             ks == IF E # {} THEN E ELSE C
             d == order[Newest(ks)]
  <1>1. C # {} /\ E \subseteq DOMAIN order /\ C \subseteq DOMAIN order
    BY DEF HasDuplicate, Equal, Containing
  <1>2. ks # {} /\ ks \subseteq DOMAIN order
    BY <1>1
  <1>3. Newest(ks) \in ks
    <2>1. order \in Seq(Ids \X Streams)
      BY DEF WellStored
    <2> HIDE DEF ks
    <2>. QED  BY <1>2, <2>1, NewestIn
  <1>4. d \in Ids \X Streams /\ fs[d] # NoFile
    BY <1>2, <1>3, StoredTypes
  <1>5. Occurs(text, ReadText(fs[d])) # {}
    <2>1. CASE E # {}
      <3>1. ReadText(fs[d]) = text
        BY <1>3, <2>1 DEF Equal
      <3>. QED  BY <3>1, TextTypes
    <2>2. CASE E = {}
      BY <1>3, <2>2 DEF Containing
    <2>. QED  BY <2>1, <2>2
  <1>6. d = Duplicate(text, fs, order)
    BY DEF Duplicate
  <1> HIDE DEF d
  <1> DEFINE content == ReadText(fs[d])
  <1>7. Len(content) \in Nat
    BY <1>4, StoredTypes
  <1>8. Occurs(text, content) # {}
    BY <1>5
  <1> HIDE DEF content
  <1>9. Find(text, content) \in Occurs(text, content)
    BY <1>8, Finds
  <1>10. /\ Find(text, content) \in Nat
         /\ Find(text, content) + Len(text) <= Len(content)
         /\ SubSeq(content, Find(text, content) + 1, Find(text, content) + Len(text)) = text
    BY <1>7, <1>9, OccursAt
  <1>. QED  BY <1>4, <1>6, <1>10 DEF content

(* Storing one stream (_offload_stream), case by case.  It is shown in     *)
(* full, ...                                                               *)
LEMMA OneInline ==
  ASSUME NEW fs, NEW order, NEW showing, WellStored(fs, order, showing),
         NEW f \in Ids \X Streams, NEW text \in Texts, NEW how \in {"inline", "unsaved"}
  PROVE  WellStored(fs, order, showing \cup {Shown(f, text, how, f, 0)})
  <1>1. Shown(f, text, how, f, 0) \in ShownStreams
    BY DEF Shown, ShownStreams
  <1>2. Shown(f, text, how, f, 0).how \notin {"preview", "pointer"}
    BY DEF Shown
  <1>. QED  BY <1>1, <1>2 DEF WellStored

(* ... or as a pointer into a file that holds it, ...                      *)
LEMMA OnePointer ==
  ASSUME NEW fs, NEW order, NEW showing, WellStored(fs, order, showing),
         NEW f \in Ids \X Streams, NEW text \in Texts, HasDuplicate(text, fs, order),
         \A g \in Ids \X Streams : fs[g] # Garbled
  PROVE  LET d == Duplicate(text, fs, order)
         IN WellStored(fs, order,
                       showing \cup {Shown(f, text, "pointer", d, Find(text, ReadText(fs[d])))})
  <1> DEFINE d == Duplicate(text, fs, order)
             content == ReadText(fs[d])
             o == Find(text, content)
             s == Shown(f, text, "pointer", d, o)
  <1>1. /\ d \in Ids \X Streams /\ fs[d] \notin {NoFile, Garbled} /\ o \in Nat
        /\ o + Len(text) <= Len(ReadText(fs[d]))
        /\ SubSeq(ReadText(fs[d]), o + 1, o + Len(text)) = text
    BY DuplicateHolds
  <1> HIDE DEF d, content, o
  <1>2. /\ s \in ShownStreams /\ s.how = "pointer"
        /\ s.at = d /\ s.offset = o /\ s.text = text
    BY <1>1 DEF Shown, ShownStreams
  <1>3. Leads(s, fs)
    BY <1>1, <1>2 DEF Leads
  <1> HIDE DEF s
  <1>4. WellStored(fs, order, showing \cup {s})
    BY <1>2, <1>3 DEF WellStored
  <1>. QED  BY <1>4 DEF d, content, o, s

(* ... or in a file of its own, of which nothing, a part or the whole was  *)
(* written.                                                                *)
LEMMA OneFile ==
  ASSUME NEW fs, NEW order, NEW showing, WellStored(fs, order, showing),
         NEW f \in Ids \X Streams, fs[f] = NoFile, NEW text \in Texts,
         text # <<>>, ~HasDuplicate(text, fs, order),
         NEW w \in {NoFile, Garbled} \cup Seq(Symbols)
  PROVE  WellStored([fs EXCEPT ![f] = w], IF w = NoFile THEN order ELSE Append(order, f),
                    showing \cup {Shown(f, text, IF w = text THEN "preview" ELSE "unsaved", f, 0)})
  <1> DEFINE gs == [fs EXCEPT ![f] = w]
             after == IF w = NoFile THEN order ELSE Append(order, f)
             n == Len(order)
             s == Shown(f, text, IF w = text THEN "preview" ELSE "unsaved", f, 0)
  <1>1. /\ fs \in [Ids \X Streams -> {NoFile, Garbled} \cup Seq(Symbols)]
        /\ order \in Seq(Ids \X Streams)
        /\ ToSet(order) = {g \in Ids \X Streams : fs[g] # NoFile}
        /\ showing \subseteq ShownStreams
    BY DEF WellStored
  <1>2. /\ gs \in [Ids \X Streams -> {NoFile, Garbled} \cup Seq(Symbols)] /\ gs[f] = w
        /\ \A g \in Ids \X Streams : g # f => gs[g] = fs[g]
    BY <1>1
  <1>3. /\ n \in Nat /\ DOMAIN order = 1 .. n
        /\ \A k \in 1 .. n : order[k] \in Ids \X Streams /\ fs[order[k]] # NoFile /\ order[k] # f
    BY <1>1, LenProperties, StoredTypes
  <1>4. /\ after \in Seq(Ids \X Streams)
        /\ DOMAIN after = IF w = NoFile THEN 1 .. n ELSE 1 .. (n + 1)
        /\ \A k \in 1 .. n : after[k] = order[k]
        /\ w # NoFile => after[n + 1] = f
    <2>1. CASE w = NoFile
      BY <1>1, <1>3, <2>1
    <2>2. CASE w # NoFile
      <3>1. after = Append(order, f)
        BY <2>2
      <3>2. Append(order, f) \in Seq(Ids \X Streams) /\ Len(Append(order, f)) = n + 1
            /\ \A k \in 1 .. n : Append(order, f)[k] = order[k]
            /\ Append(order, f)[n + 1] = f
        BY <1>1, AppendProperties
      <3>3. DOMAIN Append(order, f) = 1 .. (n + 1)
        BY <3>2, LenProperties
      <3>. QED  BY <2>2, <3>1, <3>2, <3>3
    <2>. QED  BY <2>1, <2>2
  <1>5. /\ s \in ShownStreams /\ s.at = f /\ s.text = text /\ s.offset = 0
        /\ s.how \in {"preview", "unsaved"} /\ (s.how = "preview" => w = text)
    BY DEF Shown, ShownStreams
  <1> HIDE DEF gs, after, n, s
  <1>6. ToSet(after) = {g \in Ids \X Streams : gs[g] # NoFile}
    <2>1. ASSUME NEW g \in ToSet(after) PROVE g \in Ids \X Streams /\ gs[g] # NoFile
      <3>1. PICK k \in DOMAIN after : after[k] = g
        BY <2>1 DEF ToSet
      <3>2. CASE k \in 1 .. n
        <4>1. g = order[k] /\ g \in Ids \X Streams /\ fs[g] # NoFile /\ g # f
          BY <1>3, <1>4, <3>1, <3>2
        <4>. QED  BY <1>2, <4>1
      <3>3. CASE w # NoFile /\ k = n + 1
        BY <1>2, <1>4, <3>1, <3>3
      <3>. QED  BY <1>3, <1>4, <3>1, <3>2, <3>3
    <2>2. ASSUME NEW g \in Ids \X Streams, gs[g] # NoFile PROVE g \in ToSet(after)
      <3>1. CASE g = f
        <4>1. w # NoFile /\ n + 1 \in DOMAIN after /\ after[n + 1] = g
          BY <1>2, <1>3, <1>4, <2>2, <3>1
        <4>. QED  BY <4>1 DEF ToSet
      <3>2. CASE g # f
        <4>1. PICK k \in DOMAIN order : order[k] = g
          BY <1>2, <2>2, <3>2, StoredTypes
        <4>2. k \in DOMAIN after /\ after[k] = g
          BY <1>3, <1>4, <4>1
        <4>. QED  BY <4>2 DEF ToSet
      <3>. QED  BY <3>1, <3>2
    <2>. QED  BY <2>1, <2>2
  <1>7. ASSUME NEW t \in showing
        PROVE  /\ t.how \in {"preview", "pointer"} => Leads(t, gs)
               /\ t.how = "preview" => Alone(t, gs, after)
    <2>1. t.at \in Ids \X Streams
      BY <1>1 DEF ShownStreams
    <2>2. ASSUME t.how \in {"preview", "pointer"} PROVE Leads(t, gs) /\ t.at # f
      BY <1>2, <2>1, <2>2 DEF WellStored, Leads
    <2>3. ASSUME t.how = "preview",
                 NEW j \in DOMAIN after, NEW k \in DOMAIN after, j < k, after[k] = t.at
          PROVE  Occurs(t.text, ReadText(gs[after[j]])) = {}
      <3>1. t.at # f
        BY <2>2, <2>3
      <3>2. j \in 1 .. n /\ k \in 1 .. n
        BY <1>3, <1>4, <2>3, <3>1
      <3>3. order[k] = t.at /\ gs[after[j]] = fs[order[j]]
        BY <1>2, <1>3, <1>4, <2>3, <3>2
      <3>. QED  BY <1>3, <2>3, <3>2, <3>3 DEF WellStored, Alone
    <2>. QED  BY <2>2, <2>3 DEF Alone
  <1>8. ASSUME s.how = "preview" PROVE Leads(s, gs) /\ Alone(s, gs, after)
    <2>1. w = text /\ w \notin {NoFile, Garbled}
      BY <1>5, <1>8
    <2>2. Leads(s, gs)
      BY <1>2, <1>5, <1>8, <2>1 DEF Leads
    <2>3. ASSUME NEW j \in DOMAIN after, NEW k \in DOMAIN after, j < k, after[k] = s.at
          PROVE  Occurs(s.text, ReadText(gs[after[j]])) = {}
      <3>1. j \in 1 .. n
        BY <1>3, <1>4, <1>5, <2>1, <2>3
      <3>2. gs[after[j]] = fs[order[j]] /\ Len(ReadText(fs[order[j]])) \in Nat
        BY <1>2, <1>3, <1>4, <3>1, StoredTypes
      <3>3. j \notin Containing(text, fs, order)
        BY DEF HasDuplicate
      <3>. QED  BY <1>3, <1>5, <3>1, <3>2, <3>3, OccursFits DEF Containing
    <2>. QED  BY <2>2, <2>3 DEF Alone
  <1>9. WellStored(gs, after, showing \cup {s})
    BY <1>1, <1>2, <1>4, <1>5, <1>6, <1>7, <1>8 DEF WellStored
  <1>. QED  BY <1>9 DEF gs, after, s

(* What the write leaves is nothing, no text, or a sequence of symbols.    *)
LEMMA WrittenType ==
  ASSUME NEW text \in Texts, NEW w \in Written(text)
  PROVE  w \in {NoFile, Garbled} \cup Seq(Symbols)
  <1>1. ASSUME NEW k \in 0 .. Len(text) PROVE SubSeq(text, 1, k) \in Seq(Symbols)
    <2>1. \A i \in 1 .. k : text[i] \in Symbols
      BY TextTypes, ElementOfSeq
    <2>2. 1 \in Int /\ k \in Int
      BY TextTypes
    <2>. QED  BY <2>1, <2>2, SubSeqProperties
  <1>. QED  BY <1>1, TextTypes DEF Written

(* Storing a stream for the first time, however it goes but for raising.   *)
StoresWell(f, text, fs, order, showing, w) ==
  LET after == Offloaded(f, text, fs, order, w)
  IN /\ WellStored(after.fs, after.order, showing \cup {after.shown})
     /\ \A g \in Ids \X Streams : g # f => after.fs[g] = fs[g]
     /\ after.shown.file = f

LEMMA OneStream ==
  ASSUME NEW fs, NEW order, NEW showing, WellStored(fs, order, showing),
         NEW f \in Ids \X Streams, fs[f] = NoFile, NEW text \in Texts,
         ~Raises(text, fs), NEW w \in Written(text)
  PROVE  StoresWell(f, text, fs, order, showing, w)
  <1> DEFINE after == Offloaded(f, text, fs, order, w)
  <1>1. CASE Len(text) <= PREVIEW_MAX
    <2>1. after = [fs |-> fs, order |-> order, shown |-> Shown(f, text, "inline", f, 0)]
      BY <1>1 DEF Offloaded
    <2> DEFINE s == Shown(f, text, "inline", f, 0)
    <2>2. WellStored(fs, order, showing \cup {s})
      BY OneInline
    <2>3. s.file = f /\ after = [fs |-> fs, order |-> order, shown |-> s]
      BY <2>1 DEF Shown
    <2> HIDE DEF s, after
    <2>4. /\ WellStored(after.fs, after.order, showing \cup {after.shown})
          /\ \A g \in Ids \X Streams : g # f => after.fs[g] = fs[g]
          /\ after.shown.file = f
      BY <2>2, <2>3
    <2>. QED  BY <2>4 DEF after, StoresWell
  <1>2. CASE ~(Len(text) <= PREVIEW_MAX) /\ HasDuplicate(text, fs, order)
    <2> DEFINE d == Duplicate(text, fs, order)
               s == Shown(f, text, "pointer", d, Find(text, ReadText(fs[d])))
    <2>1. after = [fs |-> fs, order |-> order, shown |-> s]
      BY <1>2 DEF Offloaded
    <2>2. WellStored(fs, order, showing \cup {s})
      <3>1. \A g \in Ids \X Streams : fs[g] # Garbled
        BY <1>2, TextTypes DEF Raises, WellStored
      <3>. QED  BY <1>2, <3>1, OnePointer
    <2>3. s.file = f
      BY DEF Shown
    <2> HIDE DEF s, after
    <2>4. /\ WellStored(after.fs, after.order, showing \cup {after.shown})
          /\ \A g \in Ids \X Streams : g # f => after.fs[g] = fs[g]
          /\ after.shown.file = f
      BY <2>1, <2>2, <2>3
    <2>. QED  BY <2>4 DEF after, StoresWell
  <1>3. CASE ~(Len(text) <= PREVIEW_MAX) /\ ~HasDuplicate(text, fs, order)
    <2> DEFINE gs == [fs EXCEPT ![f] = w]
               o == IF w = NoFile THEN order ELSE Append(order, f)
               s == Shown(f, text, IF w = text THEN "preview" ELSE "unsaved", f, 0)
    <2>1. after = [fs |-> gs, order |-> o, shown |-> s]
      BY <1>3 DEF Offloaded
    <2>2. text # <<>>
      <3>1. Len(text) # 0
        BY <1>3, TextTypes
      <3>. QED  BY <3>1, EmptySeq
    <2>3. WellStored(gs, o, showing \cup {s})
      BY <1>3, <2>2, OneFile, WrittenType
    <2>4. s.file = f /\ \A g \in Ids \X Streams : g # f => gs[g] = fs[g]
      <3>1. fs \in [Ids \X Streams -> {NoFile, Garbled} \cup Seq(Symbols)]
        BY DEF WellStored
      <3>. QED  BY <3>1 DEF Shown
    <2> HIDE DEF gs, o, s, after
    <2>5. /\ WellStored(after.fs, after.order, showing \cup {after.shown})
          /\ \A g \in Ids \X Streams : g # f => after.fs[g] = fs[g]
          /\ after.shown.file = f
      BY <2>1, <2>3, <2>4
    <2>. QED  BY <2>5 DEF after, StoresWell
  <1>. QED  BY <1>1, <1>2, <1>3

(* The store starts empty.                                                 *)
LEMMA InitStored == Init => IInv
  <1> SUFFICES ASSUME Init PROVE IInv
    OBVIOUS
  <1>1. \A f \in Ids \X Streams : file[f] = NoFile
    BY DEF Init
  <1>2. file \in [Ids \X Streams -> {NoFile, Garbled} \cup Seq(Symbols)]
    BY DEF Init
  <1>3. age \in Seq(Ids \X Streams) /\ ToSet(age) = {}
    BY DEF Init, ToSet
  <1>4. shown = {} /\ DOMAIN memory = {}
    BY DEF Init
  <1>. QED  BY <1>1, <1>2, <1>3, <1>4 DEF IInv, WellStored

(* A call's two streams are stored one after the other, its file names     *)
(* being its own.                                                          *)
LEMMA OffloadStored ==
  ASSUME IInv, NEW id \in Ids, NEW out \in Texts, NEW err \in Texts, Offload(id, out, err)
  PROVE  IInv'
  <1> DEFINE f1 == <<id, "stdout">>
             f2 == <<id, "stderr">>
  <1>1. /\ f1 \in Ids \X Streams /\ f2 \in Ids \X Streams /\ f1 # f2
        /\ f1[1] = id /\ f2[1] = id
    BY DEF Streams
  <1>2. file[f1] = NoFile /\ file[f2] = NoFile
    BY <1>1 DEF IInv, Offload
  <1>3. PICK w1 \in Written(out), w2 \in Written(err) :
           LET first == Offloaded(f1, out, file, age, w1)
               second == Offloaded(f2, err, first.fs, first.order, w2)
           IN /\ ~Raises(err, first.fs)
              /\ file' = second.fs /\ age' = second.order
              /\ shown' = shown \cup {first.shown, second.shown}
    BY DEF Offload
  <1> DEFINE first == Offloaded(f1, out, file, age, w1)
             second == Offloaded(f2, err, first.fs, first.order, w2)
  <1>4. /\ file' = second.fs /\ age' = second.order
        /\ shown' = (shown \cup {first.shown}) \cup {second.shown}
        /\ ~Raises(err, first.fs)
    BY <1>3
  <1> HIDE DEF f1, f2
  <1>5. /\ WellStored(first.fs, first.order, shown \cup {first.shown})
        /\ \A g \in Ids \X Streams : g # f1 => first.fs[g] = file[g]
        /\ first.shown.file = f1
    <2>1. WellStored(file, age, shown)
      BY DEF IInv
    <2>2. ~Raises(out, file)
      BY DEF Offload
    <2>3. StoresWell(f1, out, file, age, shown, w1)
      BY <1>1, <1>2, <2>1, <2>2, OneStream
    <2>. QED  BY <2>3 DEF StoresWell
  <1> HIDE DEF first
  <1>6. /\ WellStored(second.fs, second.order, (shown \cup {first.shown}) \cup {second.shown})
        /\ \A g \in Ids \X Streams : g # f2 => second.fs[g] = first.fs[g]
        /\ second.shown.file = f2
    <2>1. first.fs[f2] = NoFile
      BY <1>1, <1>2, <1>5
    <2>2. StoresWell(f2, err, first.fs, first.order, shown \cup {first.shown}, w2)
      BY <1>1, <1>4, <1>5, <2>1, OneStream
    <2>. QED  BY <2>2 DEF StoresWell
  <1> HIDE DEF second
  <1>7. WellStored(file, age, shown)'
    BY <1>4, <1>6
  <1>8. DOMAIN memory' \subseteq Ids /\ \A i \in DOMAIN memory' : memory'[i] \in Texts \X Texts
    BY DEF IInv, Offload, Remember
  <1>9. ASSUME NEW f \in Ids \X Streams, file'[f] # NoFile
        PROVE  \E s \in shown' : s.file[1] = f[1]
    <2>1. CASE f \in {f1, f2}
      BY <1>1, <1>4, <1>5, <1>6, <2>1
    <2>2. CASE f \notin {f1, f2}
      <3>1. file[f] # NoFile
        BY <1>4, <1>5, <1>6, <1>9, <2>2
      <3>2. PICK s \in shown : s.file[1] = f[1]
        BY <3>1 DEF IInv, Offload
      <3>. QED  BY <1>4, <3>2
    <2>. QED  BY <2>1, <2>2
  <1>. QED  BY <1>7, <1>8, <1>9 DEF IInv

(* A stream that raises leaves what was stored before it.                  *)
LEMMA RaiseStored ==
  ASSUME IInv, NEW id \in Ids, NEW out \in Texts, NEW err \in Texts, OffloadRaises(id, out, err)
  PROVE  IInv'
  <1>1. raised' = TRUE /\ shown' = shown
    BY DEF OffloadRaises
  <1>2. DOMAIN memory' \subseteq Ids /\ \A i \in DOMAIN memory' : memory'[i] \in Texts \X Texts
    BY DEF IInv, OffloadRaises, Remember
  <1>3. CASE Raises(out, file) /\ UNCHANGED <<file, age>>
    BY <1>1, <1>2, <1>3 DEF IInv
  <1>4. ASSUME ~Raises(out, file), NEW w \in Written(out),
               LET first == Offloaded(<<id, "stdout">>, out, file, age, w)
               IN  file' = first.fs /\ age' = first.order
        PROVE  IInv'
    <2> DEFINE f == <<id, "stdout">>
               first == Offloaded(f, out, file, age, w)
    <2>1. f \in Ids \X Streams /\ f[1] = id
      BY DEF Streams
    <2>2. file[f] = NoFile
      BY <2>1 DEF IInv, OffloadRaises
    <2>3. file' = first.fs /\ age' = first.order
      BY <1>4
    <2> HIDE DEF f
    <2>4. WellStored(file, age, shown)
      BY DEF IInv
    <2>5. StoresWell(f, out, file, age, shown, w)
      BY <1>4, <2>1, <2>2, <2>4, OneStream
    <2>6. WellStored(first.fs, first.order, shown \cup {first.shown})
      BY <2>5 DEF StoresWell
    <2> HIDE DEF first
    <2>7. WellStored(first.fs, first.order, shown)
      BY <2>6 DEF WellStored
    <2>8. WellStored(file, age, shown)'
      BY <1>1, <2>3, <2>7
    <2>. QED  BY <1>1, <1>2, <2>8 DEF IInv
  <1>. QED  BY <1>3, <1>4 DEF OffloadRaises

(* Every step keeps the store as it should be.                             *)
LEMMA StepStored == IInv /\ [Next]_vars => IInv'
  <1> SUFFICES ASSUME IInv, [Next]_vars PROVE IInv'
    OBVIOUS
  <1>1. ASSUME NEW id \in Ids, NEW out \in Texts, NEW err \in Texts, Offload(id, out, err)
        PROVE  IInv'
    BY <1>1, OffloadStored
  <1>2. ASSUME UNCHANGED <<file, age, shown, raised>>, memory' = memory \/ memory' = <<>> PROVE IInv'
    BY <1>2 DEF IInv
  <1>3. CASE NextMessage
    BY <1>2, <1>3 DEF NextMessage
  <1>4. ASSUME NEW id, NEW answers, Query(id, answers) PROVE IInv'
    BY <1>2, <1>4 DEF Query, IInv
  <1>5. CASE UNCHANGED vars
    BY <1>2, <1>5 DEF vars, IInv
  <1>6. ASSUME NEW id \in Ids, NEW out \in Texts, NEW err \in Texts, OffloadRaises(id, out, err)
        PROVE  IInv'
    BY <1>6, RaiseStored
  <1>. QED  BY <1>1, <1>3, <1>4, <1>5, <1>6 DEF Next

(* The files, their order and what is shown of them agree, whatever the    *)
(* texts, however much of each write reaches the disk, and whether storing *)
(* raises.                                                                 *)
THEOREM Inductive == Spec => []IInv
  BY InitStored, StepStored, PTL DEF Spec

(* tool_execution:154: every preview leads to the file that holds its      *)
(* bytes, every pointer to a file that reads as its text there, for the    *)
(* rest of the session.                                                    *)
THEOREM PointersLead == Spec => []NothingDangles
  <1>1. IInv => NothingDangles
    BY DEF IInv, WellStored, NothingDangles, TypeOK, ShownStreams
  <1>. QED  BY <1>1, Inductive, PTL

(* tool_execution:186: no text without CRLF is stored that an older file   *)
(* already holds when read.                                                *)
THEOREM NothingTwice == Spec => []StoredOnce
  <1>1. IInv => StoredOnce
    BY DEF IInv, WellStored, StoredOnce
  <1>. QED  BY <1>1, Inductive, PTL

(* What precedes the separator in a joined text is the first text.         *)
LEMMA JoinedStarts ==
  ASSUME NEW S, NEW a \in Seq(S), NEW b \in Seq(S), Newline \in S
  PROVE  /\ Joined(a, b) \in Seq(S) /\ Len(a) <= Len(Joined(a, b))
         /\ \A i \in 1 .. Len(a) : Joined(a, b)[i] = a[i]
  <1>1. Len(a) \in Nat /\ Len(b) \in Nat
    BY LenProperties
  <1>2. CASE a = <<>> \/ b = <<>>
    BY <1>1, <1>2, EmptySeq DEF Joined
  <1>3. CASE a # <<>> /\ b # <<>>
    <2> DEFINE c == <<Newline>>
    <2>1. Joined(a, b) = (a \o c) \o b
      BY <1>3 DEF Joined
    <2>2. c \in Seq(S) /\ Len(c) = 1
      OBVIOUS
    <2> HIDE DEF c
    <2>3. /\ a \o c \in Seq(S) /\ Len(a \o c) = Len(a) + 1
          /\ \A i \in 1 .. Len(a) : (a \o c)[i] = a[i]
      <3>1. /\ a \o c \in Seq(S) /\ Len(a \o c) = Len(a) + Len(c)
            /\ \A i \in 1 .. Len(a) + Len(c) :
                  (a \o c)[i] = IF i <= Len(a) THEN a[i] ELSE c[i - Len(a)]
        BY <2>2, ConcatProperties
      <3>2. \A i \in 1 .. Len(a) : i \in 1 .. Len(a) + Len(c) /\ i <= Len(a)
        BY <1>1, <2>2
      <3>. QED  BY <2>2, <3>1, <3>2
    <2> DEFINE ac == a \o c
    <2> HIDE DEF ac
    <2>4. /\ (a \o c) \o b \in Seq(S) /\ Len((a \o c) \o b) = Len(a \o c) + Len(b)
          /\ \A i \in 1 .. Len(a \o c) : ((a \o c) \o b)[i] = (a \o c)[i]
      <3>1. ac \in Seq(S)
        BY <2>3 DEF ac
      <3>2. Len(ac) \in Nat
        BY <3>1, LenProperties
      <3>3. /\ ac \o b \in Seq(S) /\ Len(ac \o b) = Len(ac) + Len(b)
            /\ \A i \in 1 .. Len(ac) + Len(b) :
                  (ac \o b)[i] = IF i <= Len(ac) THEN ac[i] ELSE b[i - Len(ac)]
        BY <3>1, ConcatProperties
      <3>4. \A i \in 1 .. Len(ac) : (ac \o b)[i] = ac[i]
        BY <1>1, <3>2, <3>3
      <3>. QED  BY <3>3, <3>4 DEF ac
    <2>. QED  BY <1>1, <2>1, <2>3, <2>4
  <1>. QED  BY <1>2, <1>3

(* A range that a text is found at reads the text, up to the cap.          *)
LEMMA SliceReads ==
  ASSUME NEW S, NEW text \in Seq(S), NEW a \in Seq(S), NEW whole \in Seq(S), NEW o \in Nat,
         o + Len(text) <= Len(a), SubSeq(a, o + 1, o + Len(text)) = text,
         Len(a) <= Len(whole), \A i \in 1 .. Len(a) : whole[i] = a[i]
  PROVE  RangeSlice(whole, o, Len(text)) = SubSeq(text, 1, Smaller(Len(text), PREVIEW_MAX))
  <1> DEFINE m == Smaller(Len(text), PREVIEW_MAX)
  <1>1. Len(text) \in Nat /\ Len(a) \in Nat /\ Len(whole) \in Nat
    BY LenProperties
  <1>2. m \in Nat /\ m <= Len(text) /\ Smaller(m, Len(whole) - o) = m
    BY <1>1 DEF Smaller
  <1>3. RangeSlice(whole, o, Len(text)) = SubSeq(whole, o + 1, o + m)
    BY <1>2 DEF RangeSlice
  <1> HIDE DEF m
  <1>4. \A i \in 1 .. Len(text) : text[i] = a[o + i]
    <2>1. \A i \in (o + 1) .. (o + Len(text)) : a[i] \in S
      BY <1>1, ElementOfSeq
    <2>2. o + 1 \in Int /\ o + Len(text) \in Int /\ (o + Len(text)) - (o + 1) + 1 = Len(text)
      BY <1>1
    <2>3. \A i \in 1 .. ((o + Len(text)) - (o + 1) + 1) :
             SubSeq(a, o + 1, o + Len(text))[i] = a[(o + 1) + i - 1]
      BY <2>1, <2>2, SubSeqProperties
    <2>4. \A i \in 1 .. Len(text) : text[i] = a[(o + 1) + i - 1]
      BY <2>2, <2>3
    <2>5. \A i \in 1 .. Len(text) : (o + 1) + i - 1 = o + i
      BY <1>1
    <2>. QED  BY <2>4, <2>5
  <1>5. /\ SubSeq(whole, o + 1, o + m) \in Seq(S) /\ Len(SubSeq(whole, o + 1, o + m)) = m
        /\ \A i \in 1 .. m : SubSeq(whole, o + 1, o + m)[i] = whole[o + i]
    <2>1. \A i \in (o + 1) .. (o + m) : whole[i] \in S
      BY <1>1, <1>2, ElementOfSeq
    <2>2. o + 1 \in Int /\ o + m \in Int /\ (o + m) - (o + 1) + 1 = m
      BY <1>2
    <2>3. /\ SubSeq(whole, o + 1, o + m) \in Seq(S)
          /\ Len(SubSeq(whole, o + 1, o + m)) = IF o + 1 <= o + m THEN (o + m) - (o + 1) + 1 ELSE 0
          /\ \A i \in 1 .. ((o + m) - (o + 1) + 1) :
                SubSeq(whole, o + 1, o + m)[i] = whole[(o + 1) + i - 1]
      BY <2>1, <2>2, SubSeqProperties
    <2>. QED  BY <1>2, <2>2, <2>3
  <1>6. /\ SubSeq(text, 1, m) \in Seq(S) /\ Len(SubSeq(text, 1, m)) = m
        /\ \A i \in 1 .. m : SubSeq(text, 1, m)[i] = text[i]
    <2>1. \A i \in 1 .. m : text[i] \in S
      BY <1>1, <1>2, ElementOfSeq
    <2>2. 1 \in Int /\ m \in Int /\ m - 1 + 1 = m
      BY <1>2
    <2>3. /\ SubSeq(text, 1, m) \in Seq(S)
          /\ Len(SubSeq(text, 1, m)) = IF 1 <= m THEN m - 1 + 1 ELSE 0
          /\ \A i \in 1 .. (m - 1 + 1) : SubSeq(text, 1, m)[i] = text[1 + i - 1]
      BY <2>1, <2>2, SubSeqProperties
    <2>. QED  BY <1>2, <2>2, <2>3
  <1>7. \A i \in 1 .. m : whole[o + i] = text[i]
    BY <1>1, <1>2, <1>4
  <1>8. SubSeq(whole, o + 1, o + m) = SubSeq(text, 1, m)
    <2> DEFINE u == SubSeq(whole, o + 1, o + m)
               v == SubSeq(text, 1, m)
    <2>1. u \in Seq(S) /\ v \in Seq(S) /\ Len(u) = Len(v) /\ \A i \in 1 .. Len(u) : u[i] = v[i]
      BY <1>5, <1>6, <1>7
    <2> HIDE DEF u, v
    <2>2. u = v
      BY <2>1, SeqEqual
    <2>. QED  BY <2>2 DEF u, v
  <1>. QED  BY <1>3, <1>8 DEF m

(* registry:369: a pointer into a stdout file, followed with               *)
(* read_tool_artifact, gives back the text it stands for, up to the cap,   *)
(* whatever stands in the call's stderr file.                              *)
THEOREM PointersReadBack == Spec => []StdoutReadsBack
  <1>1. ASSUME IInv, NEW s \in shown, Readable(s), s.at[2] = "stdout"
        PROVE  ReadsBack(s)
    <2> DEFINE S == Symbols \cup {Newline}
               a == ReadText(file[s.at])
               b == OnDisk(<<s.at[1], "stderr">>)
    <2>0. s.how = "pointer" /\ \A t \in Streams : file[<<s.at[1], t>>] # Garbled
      BY <1>1 DEF Readable, Decodable
    <2>1. /\ s.at \in Ids \X Streams /\ s.text \in Texts /\ s.offset \in Nat
          /\ Leads(s, file)
      BY <1>1, <2>0 DEF IInv, WellStored, ShownStreams
    <2>2. s.at = <<s.at[1], "stdout">> /\ <<s.at[1], "stderr">> \in Ids \X Streams
      BY <1>1, <2>1 DEF Streams
    <2>3. a \in Seq(S) /\ b \in Seq(S)
      <3>1. ASSUME NEW f \in Ids \X Streams, file[f] \notin {NoFile, Garbled}
            PROVE  ReadText(file[f]) \in Seq(S)
        <4>1. file[f] \in Seq(Symbols)
          BY <1>1, <3>1 DEF IInv, WellStored
        <4>. QED  BY <4>1, ReadTypes
      <3>2. a \in Seq(S)
        BY <2>1, <3>1 DEF Leads
      <3> DEFINE f == <<s.at[1], "stderr">>
      <3>3. f \in Ids \X Streams /\ file[f] # Garbled
        BY <2>0, <2>2 DEF Streams
      <3> HIDE DEF f, S, a
      <3>4. OnDisk(f) \in Seq(S)
        BY <3>1, <3>3, EmptySeq DEF OnDisk
      <3>. QED  BY <3>2, <3>4 DEF f
    <2>4. a \in Seq(S) /\ b \in Seq(S) /\ s.text \in Seq(S) /\ Newline \in S
      <3>1. Symbols \subseteq S /\ Newline \in S
        OBVIOUS
      <3> HIDE DEF S, a, b
      <3>. QED  BY <2>1, <2>3, <3>1, SeqMonotonic, TextTypes
    <2>5. Load(s.at[1]) = Joined(a, b)
      <3>1. "stdout" \in Streams /\ file[<<s.at[1], "stdout">>] # NoFile
        BY <2>1, <2>2 DEF Streams, Leads
      <3>2. OnDisk(<<s.at[1], "stdout">>) = a
        BY <2>2, <3>1 DEF OnDisk
      <3>. QED  BY <3>1, <3>2 DEF Load
    <2>6. /\ s.offset + Len(s.text) <= Len(a)
          /\ SubSeq(a, s.offset + 1, s.offset + Len(s.text)) = s.text
      BY <2>0, <2>1 DEF Leads
    <2> HIDE DEF S, a, b
    <2>7. /\ Joined(a, b) \in Seq(S) /\ Len(a) <= Len(Joined(a, b))
          /\ \A i \in 1 .. Len(a) : Joined(a, b)[i] = a[i]
      BY <2>4, JoinedStarts
    <2>8. RangeSlice(Joined(a, b), s.offset, Len(s.text))
             = SubSeq(s.text, 1, Smaller(Len(s.text), PREVIEW_MAX))
      <3> DEFINE text == s.text
                 o == s.offset
                 whole == Joined(a, b)
      <3>1. /\ o \in Nat /\ text \in Seq(S) /\ whole \in Seq(S) /\ a \in Seq(S)
            /\ o + Len(text) <= Len(a) /\ SubSeq(a, o + 1, o + Len(text)) = text
            /\ Len(a) <= Len(whole) /\ \A i \in 1 .. Len(a) : whole[i] = a[i]
        BY <2>1, <2>4, <2>6, <2>7
      <3> HIDE DEF text, o, whole
      <3>2. RangeSlice(whole, o, Len(text)) = SubSeq(text, 1, Smaller(Len(text), PREVIEW_MAX))
        BY <3>1, SliceReads
      <3>. QED  BY <3>2 DEF text, o, whole
    <2>. QED  BY <2>5, <2>8 DEF ReadsBack
  <1>2. IInv => StdoutReadsBack
    BY <1>1 DEF StdoutReadsBack
  <1>. QED  BY <1>2, Inductive, PTL

-----------------------------------------------------------------------------
(* A recursion along 0 .. n whose step is a function has a solution.        *)
Solution(f, S, base, n, g) ==
    f \in [0 .. n -> S] /\ f[0] = base /\ \A k \in 1 .. n : f[k] = g[<<f[k - 1], k>>]

LEMMA RecursionExists ==
  ASSUME NEW S, NEW base \in S, NEW n \in Nat, NEW g \in [S \X (1 .. n) -> S]
  PROVE  \E f : Solution(f, S, base, n, g)
  <1> DEFINE Solves(f, m) == f[0] = base /\ \A k \in 1 .. m : f[k] = g[<<f[k - 1], k>>]
             Bad == {m \in 0 .. n : ~ \E f \in [0 .. m -> S] : Solves(f, m)}
  <1>1. 0 \notin Bad
    <2>1. [k \in 0 .. 0 |-> base] \in [0 .. 0 -> S] /\ Solves([k \in 0 .. 0 |-> base], 0)
      OBVIOUS
    <2>. QED  BY <2>1
  <1>2. ASSUME NEW m \in 0 .. n, m # 0, m - 1 \notin Bad PROVE m \notin Bad
    <2>1. m - 1 \in 0 .. n
      BY <1>2
    <2>2. PICK f \in [0 .. m - 1 -> S] : Solves(f, m - 1)
      BY <1>2, <2>1
    <2> DEFINE v == g[<<f[m - 1], m>>]
               h == [k \in 0 .. m |-> IF k = m THEN v ELSE f[k]]
    <2>3. v \in S
      BY <1>2, <2>1
    <2>4. h \in [0 .. m -> S]
      BY <2>3
    <2>5. h[0] = base /\ h[m] = v /\ \A k \in 0 .. m - 1 : h[k] = f[k]
      BY <1>2, <2>2
    <2> HIDE DEF h
    <2>6. ASSUME NEW k \in 1 .. m PROVE h[k] = g[<<h[k - 1], k>>]
      <3>1. k - 1 \in 0 .. m - 1
        OBVIOUS
      <3>2. h[k - 1] = f[k - 1]
        BY <2>5, <3>1
      <3>3. CASE k = m
        BY <2>5, <3>2, <3>3
      <3>4. CASE k # m
        <4>1. k \in 1 .. m - 1 /\ k \in 0 .. m - 1
          BY <3>4
        <4>. QED  BY <2>2, <2>5, <3>2, <4>1
      <3>. QED  BY <3>3, <3>4
    <2>7. Solves(h, m)
      BY <2>5, <2>6
    <2> HIDE DEF Solves
    <2>. QED  BY <2>4, <2>7
  <1>3. Bad = {}
    <2>1. SUFFICES ASSUME Bad # {} PROVE FALSE
      OBVIOUS
    <2>2. Bad \subseteq Nat /\ Bad \subseteq 0 .. n
      OBVIOUS
    <2> HIDE DEF Bad
    <2>3. PICK m \in Bad : \A k \in Bad : m <= k
      BY <2>1, <2>2, LeastOf
    <2>4. m \in 0 .. n /\ m # 0 /\ m - 1 \notin Bad
      BY <1>1, <2>2, <2>3
    <2>. QED  BY <1>2, <2>3, <2>4
  <1>4. n \in 0 .. n
    OBVIOUS
  <1>5. \E f \in [0 .. n -> S] : Solves(f, n)
    <2>1. n \notin Bad
      <3> HIDE DEF Bad
      <3>. QED  BY <1>3, Zenon
    <2> HIDE DEF Solves
    <2>. QED  BY <1>4, <2>1, Zenon
  <1>. QED  BY <1>5 DEF Solution

(* What a recursion keeps from one index to the next holds at every one.   *)
LEMMA RecursionKeeps ==
  ASSUME NEW S, NEW n \in Nat, NEW f, f[0] \in S,
         \A k \in 1 .. n : f[k - 1] \in S => f[k] \in S
  PROVE  \A k \in 0 .. n : f[k] \in S
  <1> DEFINE Bad == {k \in 0 .. n : f[k] \notin S}
  <1>1. SUFFICES ASSUME Bad # {} PROVE FALSE
    OBVIOUS
  <1>2. Bad \subseteq Nat
    OBVIOUS
  <1>3. PICK k \in Bad : \A j \in Bad : k <= j
    <2> HIDE DEF Bad
    <2>. QED  BY <1>1, <1>2, LeastOf
  <1>4. k \in 0 .. n /\ f[k] \notin S /\ k # 0
    OBVIOUS
  <1>5. k - 1 \in 0 .. n /\ k \in 1 .. n
    BY <1>4
  <1>6. k - 1 \notin Bad
    <2> HIDE DEF Bad
    <2>. QED  BY <1>3, <1>4
  <1>7. f[k - 1] \in S
    BY <1>5, <1>6
  <1>. QED  BY <1>4, <1>5, <1>7

(* Each answer uses its size of the budget.                                *)
LEMMA BudgetRuns ==
  ASSUME NEW n \in Nat, NEW answers \in [1 .. n -> Answers], Len(answers) = n
  PROVE  /\ Budget(answers)[0] = 0
         /\ \A k \in 1 .. n : /\ answers[k].size \in Nat
                               /\ Budget(answers)[k] = Budget(answers)[k - 1] + answers[k].size
  <1> DEFINE Step(f, k) == f[k - 1] + answers[k].size
             Used(f) == [k \in 0 .. Len(answers) |-> IF k = 0 THEN 0 ELSE Step(f, k)]
             use == [p \in Nat \X (1 .. n) |-> p[1] + answers[p[2]].size]
             e == Budget(answers)
  <1>1. \A k \in 1 .. n : answers[k].size \in Nat
    <2>1. \A a \in [found : {TRUE}, size : 0 .. ANSWER_MAX, cut : BOOLEAN] : a.size \in Nat
      OBVIOUS
    <2>2. \A a \in [found : {FALSE}, size : {0}, cut : BOOLEAN] : a.size \in Nat
      OBVIOUS
    <2>3. \A k \in 1 .. n : answers[k] \in Answers
      OBVIOUS
    <2>. QED  BY <2>1, <2>2, <2>3, Zenon DEF Answers
  <1>2. use \in [Nat \X (1 .. n) -> Nat]
    BY <1>1
  <1>3. PICK f : Solution(f, Nat, 0, n, use)
    <2> HIDE DEF use
    <2>1. 0 \in Nat
      OBVIOUS
    <2>. QED  BY <1>2, <2>1, RecursionExists, Zenon
  <1>4. \A k \in 1 .. n : f[k] = Step(f, k)
    <2>1. \A k \in 1 .. n : k - 1 \in 0 .. n
      OBVIOUS
    <2>2. \A k \in 1 .. n : <<f[k - 1], k>> \in Nat \X (1 .. n)
      BY <1>3, <2>1 DEF Solution
    <2>3. f \in [0 .. n -> Nat] /\ \A k \in 1 .. n : f[k] = use[<<f[k - 1], k>>]
      BY <1>3 DEF Solution
    <2>. QED  BY <2>2, <2>3
  <1>5. f = Used(f)
    <2>1. \A k \in 0 .. n : f[k] = IF k = 0 THEN 0 ELSE Step(f, k)
      <3>1. \A k \in 0 .. n : k # 0 => k \in 1 .. n
        OBVIOUS
      <3> HIDE DEF Step
      <3>. QED  BY <1>3, <1>4, <3>1 DEF Solution
    <2>2. f = [k \in 0 .. n |-> f[k]]
      BY <1>3 DEF Solution
    <2> HIDE DEF Step
    <2>. QED  BY <2>1, <2>2
  <1>6. e = CHOOSE g : g = Used(g)
    BY Zenon DEF Budget
  <1>7. e = Used(e)
    <2> HIDE DEF Used, e
    <2>. QED  BY <1>5, <1>6, Zenon
  <1>8. e[0] = 0 /\ \A k \in 1 .. n : e[k] = Step(e, k)
    <2> HIDE DEF e, Step
    <2>1. 0 \in 0 .. n /\ \A k \in 1 .. n : k \in 0 .. n /\ k # 0
      OBVIOUS
    <2>2. \A k \in 0 .. n : Used(e)[k] = IF k = 0 THEN 0 ELSE Step(e, k)
      OBVIOUS
    <2> HIDE DEF Used
    <2>. QED  BY <1>7, <2>1, <2>2
  <1> HIDE DEF e
  <1>. QED  BY <1>1, <1>8 DEF e

LEMMA BudgetTypes ==
  ASSUME NEW n \in Nat, NEW answers \in [1 .. n -> Answers], Len(answers) = n
  PROVE  \A k \in 0 .. n : Budget(answers)[k] \in Nat
  <1> DEFINE e == Budget(answers)
  <1>1. e[0] = 0 /\ \A k \in 1 .. n : answers[k].size \in Nat /\ e[k] = e[k - 1] + answers[k].size
    BY BudgetRuns
  <1> HIDE DEF e
  <1>2. e[0] \in Nat /\ \A k \in 1 .. n : e[k - 1] \in Nat => e[k] \in Nat
    BY <1>1
  <1>3. \A k \in 0 .. n : e[k] \in Nat
    BY <1>2, RecursionKeeps, Zenon
  <1>. QED  BY <1>3 DEF e

LEMMA NoHitNoSize ==
  ASSUME NEW n \in Nat, NEW answers \in [1 .. n -> Answers], Len(answers) = n,
         \A k \in 1 .. n : ~answers[k].found
  PROVE  Budget(answers)[n] = 0
  <1> DEFINE e == Budget(answers)
  <1>1. e[0] = 0 /\ \A k \in 1 .. n : e[k] = e[k - 1] + answers[k].size
    BY BudgetRuns
  <1>2. ASSUME NEW k \in 1 .. n PROVE answers[k].size = 0
    BY DEF Answers
  <1> HIDE DEF e
  <1> DEFINE Z == {0}
  <1>3. e[0] \in Z /\ \A k \in 1 .. n : e[k - 1] \in Z => e[k] \in Z
    BY <1>1, <1>2
  <1>4. \A k \in 0 .. n : e[k] \in Z
    <2> HIDE DEF Z
    <2>. QED  BY <1>3, RecursionKeeps, Zenon
  <1>5. e[n] = 0
    BY <1>4
  <1>. QED  BY <1>5 DEF e

(* The size of what the first answers came to is a number.                 *)
LEMMA ExtractTypes ==
  ASSUME NEW n \in Nat, NEW answers \in [1 .. n -> Answers], Len(answers) = n,
         NEW k \in 0 .. n
  PROVE  Extracts(answers, k) \in Nat
  <1> DEFINE hits == {j \in 1 .. k : answers[j].found}
             h == Hits(answers, k)
             b == Budget(answers)[k]
  <1>1. b \in Nat
    BY BudgetTypes
  <1>2. h \in Nat
    <2>1. IsFiniteSet(1 .. k)
      BY FS_Interval
    <2>2. IsFiniteSet(hits)
      BY <2>1, FS_Subset
    <2> HIDE DEF hits
    <2>3. Cardinality(hits) \in Nat
      BY <2>2, FS_CardinalityType
    <2>. QED  BY <2>3 DEF hits, Hits
  <1> HIDE DEF h, b
  <1>3. h # 0 => Joint * (h - 1) \in Nat
    BY <1>2
  <1>4. b + (IF h = 0 THEN 0 ELSE Joint * (h - 1)) \in Nat
    BY <1>1, <1>3
  <1>. QED  BY <1>4 DEF Extracts, h, b

(* Scanning stops at the last answer, or at the first that uses the budget *)
(* up.                                                                     *)
LEMMA ScannedIn ==
  ASSUME NEW n \in Nat, NEW answers \in [1 .. n -> Answers], Len(answers) = n
  PROVE  Scanned(answers) \in 0 .. n
  <1> DEFINE b == Budget(answers)
             Stops == {k \in 0 .. n : k = n \/ b[k] >= OUTPUT_MAX}
             First(k) == /\ k = n \/ b[k] >= OUTPUT_MAX
                         /\ \A j \in 0 .. (k - 1) : b[j] < OUTPUT_MAX
  <1>1. \A k \in 0 .. n : b[k] \in Nat
    BY BudgetTypes
  <1> HIDE DEF b
  <1>2. Stops \subseteq Nat /\ n \in Stops
    OBVIOUS
  <1>3. PICK k \in Stops : \A j \in Stops : k <= j
    <2> HIDE DEF Stops
    <2>. QED  BY <1>2, LeastOf
  <1>4. k \in 0 .. n /\ First(k)
    <2>1. k \in 0 .. n /\ (k = n \/ b[k] >= OUTPUT_MAX)
      OBVIOUS
    <2>2. ASSUME NEW j \in 0 .. (k - 1) PROVE b[j] < OUTPUT_MAX
      <3>1. j \in 0 .. n /\ j < k
        BY <2>1
      <3>2. j \notin Stops
        <4> HIDE DEF Stops
        <4>. QED  BY <1>2, <1>3, <2>1, <3>1
      <3>. QED  BY <1>1, <3>1, <3>2
    <2>. QED  BY <2>1, <2>2
  <1>5. Scanned(answers) = CHOOSE m \in 0 .. n : First(m)
    BY DEF Scanned, b
  <1> HIDE DEF First
  <1>. QED  BY <1>4, <1>5

(* An extract made of any answers is honest, ...                           *)
LEMMA HonestExtract ==
  ASSUME NEW n \in Nat, NEW answers \in [1 .. n -> Answers], Len(answers) = n,
         NEW id, reply' = Extract(id, answers)
  PROVE  ExtractIsHonest'
  <1> DEFINE m == Scanned(answers)
             size == Extracts(answers, m)
             cut == \E k \in 1 .. m : answers[k].cut
             marked == cut \/ m < Len(answers) \/ size > OUTPUT_MAX
             kept == Smaller(size, Room(marked))
             found == Extracts(answers, Len(answers))
             length == kept + Marker(marked)
  <1>1. reply' = [kind |-> "extract", kept |-> kept, found |-> found, length |-> length,
                  marked |-> marked, lost |-> cut, partial |-> Partial(id)]
    BY Zenon DEF Extract
  <1>2. m \in 0 .. n
    BY ScannedIn
  <1>3. size \in Nat
    <2> HIDE DEF m
    <2>. QED  BY <1>2, ExtractTypes
  <1>4. ~marked => ~cut /\ m = n /\ size <= OUTPUT_MAX
    <2> HIDE DEF m, size, cut
    <2>. QED  BY <1>2, <1>3
  <1>5. Room(marked) = IF marked THEN OUTPUT_MAX - Disclosure ELSE OUTPUT_MAX
    BY DEF Room
  <1>6. kept = IF size < Room(marked) THEN size ELSE Room(marked)
    BY DEF Smaller
  <1>7. ~marked => ~cut /\ kept = found
    <2>1. ~marked => size = found
      <3>1. ~marked => m = Len(answers)
        BY <1>4
      <3> HIDE DEF m, marked
      <3>. QED  BY <3>1
    <2> HIDE DEF m, size, cut, marked, kept, found
    <2>. QED  BY <1>3, <1>4, <1>5, <1>6, <2>1
  <1>8. length <= OUTPUT_MAX
    <2>1. length = kept + (IF marked THEN Disclosure ELSE 0)
      BY DEF Marker
    <2> HIDE DEF m, size, cut, marked, kept, found, length
    <2>. QED  BY <1>3, <1>4, <1>5, <1>6, <2>1
  <1> HIDE DEF m, size, cut, marked, kept, found, length
  <1>9. /\ reply'.kept = kept /\ reply'.found = found /\ reply'.marked = marked
        /\ reply'.lost = cut /\ reply'.length = length
    BY <1>1
  <1>. QED  BY <1>7, <1>8, <1>9 DEF ExtractIsHonest

(* ... and so is the message that nothing was found.                       *)
LEMMA HonestNothing ==
  ASSUME NEW n \in Nat, NEW answers \in [1 .. n -> Answers], Len(answers) = n,
         Hits(answers, Scanned(answers)) = 0,
         NEW id, NEW message, reply' = Nothing(id, answers, message)
  PROVE  ExtractIsHonest'
  <1> DEFINE m == Scanned(answers)
             cut == \E k \in 1 .. m : answers[k].cut
             marked == cut \/ m < Len(answers)
             found == Extracts(answers, Len(answers))
  <1>1. reply' = [kind |-> "nothing", kept |-> 0, found |-> found, length |-> message + Marker(marked),
                  marked |-> marked, lost |-> cut, partial |-> Partial(id)]
    BY Zenon DEF Nothing
  <1>2. m \in 0 .. n
    BY ScannedIn
  <1>3. ASSUME ~marked PROVE ~cut /\ found = 0
    <2>1. ~cut /\ m = n
      <3> HIDE DEF m, cut
      <3>. QED  BY <1>2, <1>3
    <2>2. Hits(answers, n) = 0
      BY <2>1
    <2>3. \A k \in 1 .. n : ~answers[k].found
      <3> DEFINE hits == {j \in 1 .. n : answers[j].found}
      <3>1. IsFiniteSet(1 .. n)
        BY FS_Interval
      <3>2. IsFiniteSet(hits)
        BY <3>1, FS_Subset
      <3>3. Cardinality(hits) = 0
        BY <2>2 DEF Hits
      <3>4. hits = {}
        <4> HIDE DEF hits
        <4>. QED  BY <3>2, <3>3, FS_EmptySet
      <3>. QED  BY <3>4
    <2>4. Budget(answers)[n] = 0
      BY <2>3, NoHitNoSize
    <2>. QED  BY <2>1, <2>2, <2>4 DEF Extracts
  <1> HIDE DEF m, cut, marked, found
  <1>4. /\ reply'.kind = "nothing" /\ reply'.kept = 0 /\ reply'.found = found
        /\ reply'.marked = marked /\ reply'.lost = cut
    BY <1>1
  <1>. QED  BY <1>3, <1>4 DEF ExtractIsHonest

(* A text that was stored has a number of chunks.                          *)
LEMMA LoadChunks ==
  ASSUME IInv, NEW id \in Ids, Stored(id), Decodable(id)
  PROVE  Chunks(Load(id)) \in Nat
  <1> DEFINE S == Symbols \cup {Newline}
  <1>1. \A T : T \in Seq(Symbols) => T \in Seq(S)
    <2>1. Symbols \subseteq S
      OBVIOUS
    <2> HIDE DEF S
    <2>. QED  BY <2>1, SeqMonotonic
  <1>2. Newline \in S
    OBVIOUS
  <1>3. ASSUME NEW s \in Streams
        PROVE  OnDisk(<<id, s>>) \in Seq(S)
    <2> DEFINE f == <<id, s>>
    <2>1. f \in Ids \X Streams /\ file[f] # Garbled
      BY DEF Decodable
    <2> HIDE DEF f
    <2>2. file[f] # NoFile => file[f] \in Seq(Symbols)
      BY <2>1 DEF IInv, WellStored
    <2>3. file[f] # NoFile => ReadText(file[f]) \in Seq(S)
      BY <2>2, ReadTypes
    <2> HIDE DEF S
    <2>4. OnDisk(f) \in Seq(S)
      BY <2>3, EmptySeq DEF OnDisk
    <2>. QED  BY <2>4 DEF f
  <1> HIDE DEF S
  <1>4. id \in DOMAIN memory => memory[id][1] \in Seq(S) /\ memory[id][2] \in Seq(S)
    <2>1. id \in DOMAIN memory => memory[id] \in Texts \X Texts
      BY DEF IInv
    <2>2. id \in DOMAIN memory => memory[id][1] \in Texts /\ memory[id][2] \in Texts
      BY <2>1
    <2>3. \A text \in Texts : text \in Seq(S)
      BY <1>1, TextTypes
    <2>. QED  BY <2>2, <2>3
  <1>5. Load(id) \in Seq(S)
    <2>1. CASE \E s \in Streams : file[<<id, s>>] # NoFile
      <3>1. Load(id) = Joined(OnDisk(<<id, "stdout">>), OnDisk(<<id, "stderr">>))
        BY <2>1 DEF Load
      <3>2. OnDisk(<<id, "stdout">>) \in Seq(S) /\ OnDisk(<<id, "stderr">>) \in Seq(S)
        BY <1>3 DEF Streams
      <3>. QED  BY <1>2, <3>1, <3>2, JoinedStarts
    <2>2. CASE ~ \E s \in Streams : file[<<id, s>>] # NoFile
      <3>1. Load(id) = Joined(memory[id][1], memory[id][2])
        BY <2>2 DEF Load
      <3>2. id \in DOMAIN memory
        BY <2>2 DEF Stored
      <3>. QED  BY <1>2, <1>4, <3>1, <3>2, JoinedStarts
    <2>. QED  BY <2>1, <2>2
  <1>6. Len(Load(id)) \in Nat
    BY <1>5, LenProperties
  <1> DEFINE whole == Load(id)
  <1> HIDE DEF whole
  <1>7. ASSUME NEW k \in Nat PROVE (k + CHUNK_MAX - 1) \div CHUNK_MAX \in Nat
    OBVIOUS
  <1>. QED  BY <1>6, <1>7 DEF Chunks

(* registry:470: of the text that was loaded, an answer to a query is      *)
(* whole or says that it is not, and an extract fits the output budget     *)
(* with its marker.                                                        *)
THEOREM AnswersAreHonest == Spec => []ExtractIsHonest
  <1>1. ASSUME reply.kind \notin {"extract", "nothing"} PROVE ExtractIsHonest
    BY <1>1 DEF ExtractIsHonest
  <1>2. Init => ExtractIsHonest
    BY <1>1 DEF Init, NoReply
  <1>3. ASSUME IInv, ExtractIsHonest, [Next]_vars
        PROVE  ExtractIsHonest'
    <2>1. CASE reply' = NoReply
      BY <2>1 DEF NoReply, ExtractIsHonest
    <2>2. ASSUME NEW id, reply' = HeadExcerpt(id) PROVE ExtractIsHonest'
      <3>1. reply'.kind = "head"
        BY <2>2 DEF HeadExcerpt, NoReply
      <3>. QED  BY <3>1 DEF ExtractIsHonest
    <2>3. CASE reply' = reply
      BY <1>3, <2>3 DEF ExtractIsHonest
    <2>4. ASSUME NEW id \in Ids, Stored(id), Decodable(id),
                 NEW answers \in [1 .. Chunks(Load(id)) -> Answers], Query(id, answers)
          PROVE  ExtractIsHonest'
      <3>1. Chunks(Load(id)) \in Nat
        BY <1>3, <2>4, LoadChunks
      <3> DEFINE n == Chunks(Load(id))
      <3>2. n \in Nat /\ answers \in [1 .. n -> Answers] /\ Len(answers) = n
        BY <2>4, <3>1 DEF Query
      <3> HIDE DEF n
      <3>3. CASE reply' = Extract(id, answers)
        BY <3>2, <3>3, HonestExtract
      <3>4. ASSUME NEW message, Hits(answers, Scanned(answers)) = 0,
                   reply' = Nothing(id, answers, message)
            PROVE  ExtractIsHonest'
        BY <3>2, <3>4, HonestNothing
      <3>5. CASE reply' = HeadExcerpt(id)
        BY <2>2, <3>5
      <3>. QED  BY <2>4, <3>3, <3>4, <3>5 DEF Query
    <2>. QED  BY <1>3, <2>1, <2>3, <2>4 DEF Next, vars, Offload, OffloadRaises, NextMessage
  <1>4. IInv /\ ExtractIsHonest /\ [Next]_vars => ExtractIsHonest'
    BY <1>3
  <1>. QED  BY <1>2, <1>4, Inductive, PTL DEF Spec
=============================================================================
