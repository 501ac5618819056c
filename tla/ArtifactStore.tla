---------------------------- MODULE ArtifactStore ----------------------------
(***************************************************************************)
(* Large tool outputs (engine/tool_execution and tool_registry): each      *)
(* stream over the preview budget is written to a file of its own, or, if  *)
(* a stored file already contains it, replaced by a pointer into that      *)
(* file; read_tool_artifact reads it back by range, or by a query answered *)
(* chunk by chunk with an LLM.                                             *)
(*                                                                         *)
(* A text is a short sequence of symbols and sizes are its length; the     *)
(* model keeps what a stream was and how it was shown, not the wording.    *)
(* A CRLF line end, or a lone CR, is one symbol, as is the LF that         *)
(* read_text makes of either; offsets count characters, as the code does.  *)
(* Tool-call ids are taken to be unique, as the server issues them.        *)
(***************************************************************************)
EXTENDS Naturals, Sequences, FiniteSets, SequencesExt

CONSTANTS
    Ids,             \* tool-call ids
    Texts,           \* what a stream may contain
    PREVIEW_MAX,     \* PREVIEW_MAX_CHARS, also RANGE_MAX_CHARS
    CHUNK_MAX,       \* EXTRACTION_CHUNK_MAX_CHARS
    OUTPUT_MAX,      \* EXTRACTION_OUTPUT_MAX_CHARS
    ANSWER_MAX,      \* the longest answer the token cap lets a chunk have
    Disclosure,      \* length of an incompleteness marker
    Joint,           \* length of the separator between two extracts
    Guidance,        \* length of the note under a head excerpt
    NothingFound     \* lengths of "No content relevant to <query> ..."

Streams == {"stdout", "stderr"}
NoFile == <<"no file">>
Garbled == <<"garbled">>      \* a file cut inside a character: no UTF-8
Newline == "newline"
CRLF == "crlf"
Symbols == UNION {ToSet(t) : t \in Texts}

ASSUME StoreAssumption ==
    /\ PREVIEW_MAX \in Nat /\ CHUNK_MAX \in Nat \ {0}
    /\ OUTPUT_MAX \in Nat /\ Disclosure \in 1 .. OUTPUT_MAX /\ Joint \in Nat
    /\ ANSWER_MAX \in Nat /\ Guidance \in Nat /\ NothingFound \subseteq Nat
    /\ Texts \subseteq Seq(Symbols) /\ \A t \in Texts : NoFile # t /\ Garbled # t

VARIABLES
    file,        \* artifacts/<id>.<stream>.txt of the session, NoFile or Garbled
    age,         \* the files, oldest first
    memory,      \* tool_artifacts of the running message: id -> both streams
    shown,       \* how each stream reached the conversation
    reply,       \* a query's answer, until the next operation
    raised       \* storing a stream raised, which ends the run

vars == <<file, age, memory, shown, reply, raised>>

NoReply == [kind |-> "none", kept |-> 0, found |-> 0, length |-> 0,
            marked |-> FALSE, lost |-> FALSE, partial |-> FALSE]

Init ==
    /\ file = [f \in Ids \X Streams |-> NoFile] /\ age = <<>>
    /\ memory = <<>> /\ shown = {} /\ reply = NoReply /\ raised = FALSE

(* Path.read_text: every line end comes back as LF.                        *)
ReadText(t) == [i \in DOMAIN t |-> IF t[i] = CRLF THEN Newline ELSE t[i]]

(* str.find: the first offset at which `text' occurs in `content'.         *)
Occurs(text, content) ==
    {o \in 0 .. (Len(content) - Len(text)) : SubSeq(content, o + 1, o + Len(text)) = text}
FindAtStart(text, content) == 0      \* mutant: a contained text starts the file
Find(text, content) == CHOOSE o \in Occurs(text, content) : \A p \in Occurs(text, content) : o <= p

(* _find_duplicate: an equal file before a containing one, newest first,   *)
(* both as read_text returns them.                                         *)
Equal(text, fs, order) == {k \in DOMAIN order : ReadText(fs[order[k]]) = text}
Containing(text, fs, order) ==
    {k \in DOMAIN order :
        LET content == ReadText(fs[order[k]])
        IN  Len(content) >= Len(text) /\ Occurs(text, content) # {}}
Newest(ks) == CHOOSE k \in ks : \A j \in ks : j <= k
Duplicate(text, fs, order) ==
    order[Newest(IF Equal(text, fs, order) # {} THEN Equal(text, fs, order)
                 ELSE Containing(text, fs, order))]
HasEqual(text, fs, order) == text # <<>> /\ Equal(text, fs, order) # {}   \* mutant
HasDuplicate(text, fs, order) == text # <<>> /\ Containing(text, fs, order) # {}

(* _offload_stream: how one stream is shown, given the files so far.       *)
Shown(f, text, how, at, offset) ==
    [file |-> f, text |-> text, how |-> how, at |-> at, offset |-> offset]

Offloaded(f, text, fs, order, written) ==
    IF Len(text) <= PREVIEW_MAX THEN [fs |-> fs, order |-> order, shown |-> Shown(f, text, "inline", f, 0)]
    ELSE IF HasDuplicate(text, fs, order)
    THEN LET d == Duplicate(text, fs, order)
         IN [fs |-> fs, order |-> order, shown |-> Shown(f, text, "pointer", d, Find(text, ReadText(fs[d])))]
    ELSE [fs |-> [fs EXCEPT ![f] = written],
          order |-> IF written = NoFile THEN order ELSE Append(order, f),
          shown |-> Shown(f, text, IF written = text THEN "preview" ELSE "unsaved", f, 0)]

(* _write_artifact_file: a write that fails leaves no file, or the part of *)
(* the text that was written, which may end inside a character.            *)
Written(text) ==
    IF Len(text) <= PREVIEW_MAX THEN {text}
    ELSE {NoFile, Garbled} \cup {SubSeq(text, 1, k) : k \in 0 .. Len(text)}

(* _iter_stored_artifacts catches an OSError, not the UnicodeDecodeError   *)
(* of a garbled file.                                                      *)
Raises(text, fs) == Len(text) > PREVIEW_MAX /\ \E f \in DOMAIN fs : fs[f] = Garbled

Remember(id, out, err) ==
    memory' = [i \in DOMAIN memory \cup {id} |-> IF i = id THEN <<out, err>> ELSE memory[i]]

(* _offload_streams: stdout first, then stderr against the result.         *)
Offload(id, out, err) ==
    /\ ~raised /\ \A s \in shown : s.file[1] # id
    /\ ~Raises(out, file)
    /\ \E w1 \in Written(out), w2 \in Written(err) :
         LET first == Offloaded(<<id, "stdout">>, out, file, age, w1)
             second == Offloaded(<<id, "stderr">>, err, first.fs, first.order, w2)
         IN /\ ~Raises(err, first.fs)
            /\ file' = second.fs /\ age' = second.order
            /\ shown' = shown \cup {first.shown, second.shown}
    /\ Remember(id, out, err) /\ reply' = NoReply /\ UNCHANGED raised

(* The same, raising at the first or the second stream: nothing is shown,  *)
(* no call follows.                                                        *)
OffloadRaises(id, out, err) ==
    /\ ~raised /\ \A s \in shown : s.file[1] # id
    /\ \/ Raises(out, file) /\ UNCHANGED <<file, age>>
       \/ /\ ~Raises(out, file)
          /\ \E w \in Written(out) :
               LET first == Offloaded(<<id, "stdout">>, out, file, age, w)
               IN  Raises(err, first.fs) /\ file' = first.fs /\ age' = first.order
    /\ raised' = TRUE
    /\ Remember(id, out, err) /\ reply' = NoReply /\ UNCHANGED shown

(* The next message's executor starts with an empty in-memory store.       *)
NextMessage ==
    /\ ~raised /\ memory # <<>> /\ memory' = <<>> /\ reply' = NoReply
    /\ UNCHANGED <<file, age, shown, raised>>

Joined(a, b) == IF a = <<>> THEN b ELSE IF b = <<>> THEN a ELSE a \o <<Newline>> \o b
OnDisk(f) == IF file[f] = NoFile THEN <<>> ELSE ReadText(file[f])

(* _load_artifact_text: both streams' files, else the copy in memory.      *)
Stored(id) == (\E s \in Streams : file[<<id, s>>] # NoFile) \/ id \in DOMAIN memory
LoadStderrFirst(id) ==      \* mutant: files in the order glob lists them
    IF \E s \in Streams : file[<<id, s>>] # NoFile
    THEN Joined(OnDisk(<<id, "stderr">>), OnDisk(<<id, "stdout">>))
    ELSE Joined(memory[id][1], memory[id][2])
Load(id) ==
    IF \E s \in Streams : file[<<id, s>>] # NoFile
    THEN Joined(OnDisk(<<id, "stdout">>), OnDisk(<<id, "stderr">>))
    ELSE Joined(memory[id][1], memory[id][2])

(* _range_slice: at most PREVIEW_MAX symbols from `start'.                 *)
Smaller(a, b) == IF a < b THEN a ELSE b
RangeSlice(text, start, length) ==
    SubSeq(text, start + 1, start + Smaller(Smaller(length, PREVIEW_MAX), Len(text) - start))

(* _extract over the chunks' answers (whether one is an extract, empty or  *)
(* not, and not NOT FOUND; its size; whether the completion was cut): it   *)
(* stops once the output budget is used up.                                *)
Chunks(text) == IF text = <<>> THEN 1 ELSE (Len(text) + CHUNK_MAX - 1) \div CHUNK_MAX
Hits(answers, n) == Cardinality({k \in 1 .. n : answers[k].found})
Budget(answers) ==
    LET used[n \in 0 .. Len(answers)] == IF n = 0 THEN 0 ELSE used[n - 1] + answers[n].size
    IN  used
Extracts(answers, n) ==      \* the size of what the first n came to, joined
    Budget(answers)[n]
    + (IF Hits(answers, n) = 0 THEN 0 ELSE Joint * (Hits(answers, n) - 1))
Scanned(answers) ==
    CHOOSE n \in 0 .. Len(answers) :
        /\ n = Len(answers) \/ Budget(answers)[n] >= OUTPUT_MAX
        /\ \A k \in 0 .. (n - 1) : Budget(answers)[k] < OUTPUT_MAX

(* A marked answer keeps room for its marker.                              *)
FullRoom(marked) == OUTPUT_MAX      \* mutant
Room(marked) == IF marked THEN OUTPUT_MAX - Disclosure ELSE OUTPUT_MAX
Marker(marked) == IF marked THEN Disclosure ELSE 0

(* What was loaded is less than the call put out: a stream's file is not   *)
(* whole, or is missing beside the other's.                                *)
Partial(id) ==
    /\ \E s \in Streams : file[<<id, s>>] # NoFile
    /\ \E s \in shown : s.file[1] = id /\ s.how \in {"unsaved", "pointer"}

Extract(id, answers) ==
    LET n == Scanned(answers)
        size == Extracts(answers, n)
        cut == \E k \in 1 .. n : answers[k].cut
        marked == cut \/ n < Len(answers) \/ size > OUTPUT_MAX
        kept == Smaller(size, Room(marked))
    IN [kind |-> "extract", kept |-> kept, found |-> Extracts(answers, Len(answers)),
        length |-> kept + Marker(marked), marked |-> marked, lost |-> cut,
        partial |-> Partial(id)]

(* No chunk gave an extract: a message that quotes the whole query.        *)
Nothing(id, answers, message) ==
    LET n == Scanned(answers)
        cut == \E k \in 1 .. n : answers[k].cut
        marked == cut \/ n < Len(answers)
    IN [kind |-> "nothing", kept |-> 0, found |-> Extracts(answers, Len(answers)),
        length |-> message + Marker(marked), marked |-> marked, lost |-> cut,
        partial |-> Partial(id)]

(* Any failed extraction call falls back to the head of the text, said to  *)
(* be one; the extracts collected before it are dropped.                   *)
HeadExcerpt(id) ==
    [NoReply EXCEPT !.kind = "head",
                    !.length = Smaller(Len(Load(id)), OUTPUT_MAX) + Guidance]

(* read_tool_artifact with a query.  A garbled file makes it an error.     *)
Decodable(id) == \A s \in Streams : file[<<id, s>>] # Garbled
Query(id, answers) ==
    /\ ~raised /\ reply = NoReply /\ Len(answers) = Chunks(Load(id))
    /\ \/ Hits(answers, Scanned(answers)) > 0 /\ reply' = Extract(id, answers)
       \/ /\ Hits(answers, Scanned(answers)) = 0
          /\ \E message \in NothingFound : reply' = Nothing(id, answers, message)
       \/ reply' = HeadExcerpt(id)
    /\ UNCHANGED <<file, age, memory, shown, raised>>

Answers ==
    [found : {TRUE}, size : 0 .. ANSWER_MAX, cut : BOOLEAN]
    \cup [found : {FALSE}, size : {0}, cut : BOOLEAN]

Next ==
    \/ \E id \in Ids : \E out, err \in Texts : Offload(id, out, err)
    \/ \E id \in Ids : \E out, err \in Texts : OffloadRaises(id, out, err)
    \/ NextMessage
    \/ \E id \in {i \in Ids : Stored(i) /\ Decodable(i)} :
          \E answers \in [1 .. Chunks(Load(id)) -> Answers] : Query(id, answers)

Spec == Init /\ [][Next]_vars
-----------------------------------------------------------------------------
TypeOK ==
    /\ ToSet(age) = {f \in Ids \X Streams : file[f] # NoFile}
    /\ DOMAIN memory \subseteq Ids
    /\ \A s \in shown : s.how \in {"inline", "pointer", "preview", "unsaved"}

(* The text can be found where it is said to be: a preview's file is the   *)
(* text; a pointer's holds it there when read.  No older file, when read,  *)
(* holds a preview's text.                                                 *)
Leads(s, fs) ==
    /\ fs[s.at] \notin {NoFile, Garbled}
    /\ s.how = "preview" => fs[s.at] = s.text
    /\ s.how = "pointer" =>
          LET content == ReadText(fs[s.at])
          IN  /\ s.offset + Len(s.text) <= Len(content)
              /\ SubSeq(content, s.offset + 1, s.offset + Len(s.text)) = s.text
Alone(s, fs, order) ==
    \A j, k \in DOMAIN order :
        j < k /\ order[k] = s.at => Occurs(s.text, ReadText(fs[order[j]])) = {}

(* tool_execution:154: whatever was stored, deduplicated or failed to be   *)
(* written before, a preview's file holds the stream byte for byte, and a  *)
(* pointer's holds it at its offset once read, for the rest of the         *)
(* session: pointers never lead to pointers, to a later text or past the   *)
(* end of a file.  On disk the line ends may differ (PointerIsOnDisk).     *)
NothingDangles ==
    /\ TypeOK
    /\ \A s \in shown : s.how \in {"preview", "pointer"} => Leads(s, file)

(* tool_execution:186: reading back what is stored stores nothing: no      *)
(* stored text lies in an older file, be that cut short or whole.  A text  *)
(* with CRLF line ends is left out: it is never found again                *)
(* (StoredOnceVerbatim).                                                   *)
Plain(text) == CRLF \notin ToSet(text)
StoredOnce ==
    \A s \in shown : s.how = "preview" /\ Plain(s.text) => Alone(s, file, age)

(* "a duplicate (byte-identical or contained) skips the file write"        *)
(* (tool_execution:1028): no stored text lies in an older file, byte for   *)
(* byte.  The code breaks it: a text with CRLF is compared with its        *)
(* translation, and stored again.                                          *)
StoredOnceVerbatim ==
    \A s \in shown : s.how = "preview" =>
        \A j, k \in DOMAIN age :
            j < k /\ age[k] = s.at => Occurs(s.text, file[age[j]]) = {}

(* "(on disk at <path>), at byte offset ..., length ..."                   *)
(* (tool_execution:200): the bytes are in the file at that offset.  The    *)
(* code breaks it: an offset counts in the text as read back.              *)
PointerIsOnDisk ==
    \A s \in shown : s.how = "pointer" =>
        SubSeq(file[s.at], s.offset + 1, s.offset + Len(s.text)) = s.text

(* "A full disk or bad permissions must not abort the run: offloading and  *)
(* the preview continue" (tool_execution:1074): whatever a failed write    *)
(* left behind, the next stream can be stored.  The code breaks it: a file *)
(* cut inside a character cannot be decoded to compare it.                 *)
FailedWriteEndsNothing == ~raised

(* What storing one stream preserves, and that a call whose outputs are    *)
(* not shown yet has no file: the inductive form of the two.               *)
ShownStreams ==
    [file : Ids \X Streams, text : Texts, how : {"inline", "pointer", "preview", "unsaved"},
     at : Ids \X Streams, offset : Nat]

WellStored(fs, order, showing) ==
    /\ fs \in [Ids \X Streams -> {NoFile, Garbled} \cup Seq(Symbols)]
    /\ order \in Seq(Ids \X Streams)
    /\ ToSet(order) = {f \in Ids \X Streams : fs[f] # NoFile}
    /\ showing \subseteq ShownStreams
    /\ \A s \in showing : /\ s.how \in {"preview", "pointer"} => Leads(s, fs)
                          /\ s.how = "preview" => Alone(s, fs, order)

IInv ==
    /\ WellStored(file, age, shown)
    /\ DOMAIN memory \subseteq Ids /\ \A i \in DOMAIN memory : memory[i] \in Texts \X Texts
    /\ ~raised =>
          \A f \in Ids \X Streams : file[f] # NoFile => \E s \in shown : s.file[1] = f[1]

ReadsBack(s) ==
    RangeSlice(Load(s.at[1]), s.offset, Len(s.text)) = SubSeq(s.text, 1, Smaller(Len(s.text), PREVIEW_MAX))

(* registry:369: the offset and length of a pointer into a stdout file,    *)
(* given to read_tool_artifact, return the text it stands for, up to the   *)
(* cap.  A pointer into a stderr file counts from that file's start, while *)
(* read_tool_artifact counts from the start of both streams joined         *)
(* (PointerReadsBack).                                                     *)
Readable(s) == s.how = "pointer" /\ Decodable(s.at[1])
StdoutReadsBack == \A s \in shown : Readable(s) /\ s.at[2] = "stdout" => ReadsBack(s)

(* "Retrieve the exact bytes with read_tool_artifact(tool_call_id=...,     *)
(* start=..., length=...)" (tool_execution:202), of any pointer.  The code *)
(* breaks it for stderr, as said above.                                    *)
PointerReadsBack == \A s \in shown : Readable(s) => ReadsBack(s)

(* registry:470: of the text that was loaded, an answer not marked         *)
(* incomplete is complete, whichever chunks were cut, over-long, empty or  *)
(* never scanned; and an extract fits the output budget, marker included.  *)
(* The loaded text may itself be cut short (ExtractIsComplete).            *)
ExtractIsHonest ==
    /\ reply.kind \in {"extract", "nothing"} /\ ~reply.marked =>
          ~reply.lost /\ reply.kept = reply.found
    /\ reply.kind = "extract" => reply.length <= OUTPUT_MAX

(* "so the consuming model never mistakes a partial extract for the full   *)
(* answer" (registry:461).  The code breaks it: it reads the files first,  *)
(* whether cut short or one stream of two, and does not say so.            *)
ExtractIsComplete ==
    reply.kind \in {"extract", "nothing"} /\ ~reply.marked => ~reply.partial

(* "bounds a single read_tool_artifact return" (schema.py:79).  The code   *)
(* breaks it by the quoted query, and by the guidance after an excerpt.    *)
AnswersFitBudget == reply.length <= OUTPUT_MAX
=============================================================================
