----------------------------- MODULE ChatMessages -----------------------------
(***************************************************************************)
(* The messages of one chat and the responses and events that write them.   *)
(* A chat keeps its messages twice: as one JSON document in the chat's row, *)
(* and as one row per message (chat_message).  Every write reads the whole  *)
(* document, merges its change, writes the message's row, and writes the    *)
(* whole document back, with awaits in between and no lock: the responses   *)
(* of two models, the background tasks of an earlier response and the       *)
(* events posted to a message all do so at once.                            *)
(*                                                                          *)
(* A message is the set of facts that tell the states of its fields apart.  *)
(* Each task answers one message, of which it first saves the placeholder   *)
(* (a request to several models saves all of them before it starts a task:  *)
(* some of the behaviours here).                                            *)
(***************************************************************************)
CONSTANTS Task,    \* background responses, each to a message of its own
          Event,   \* events posted to a message from outside its response
          Cast,    \* the sets of these that may meet on the chat
          Thread,  \* Thread[t]: t's message and those it follows up
          May      \* bound: which of the optional steps each response may take

Writer == Task \cup Event

ASSUME DisjointWriters == Task \cap Event = {}
ASSUME CastOfWriters == Cast \subseteq SUBSET Writer
ASSUME ThreadAssumption == Thread \in [Task -> SUBSET Task] /\ \A t \in Task : t \in Thread[t]

Deed == {"status", "interim", "followups", "title", "outlet", "fail", "whole", "stop"}
ASSUME MayAssumption == May \in [Task -> SUBSET Deed]

\* What the content holds: the answer, appended text.
Content == {"text", "note"}
\* "body", "mark": the fields content and done are there; "done": done is true;
\* the fields usage and error.  The other fields are written but not told apart.
Fact == Content \cup {"body", "mark", "done", "usage", "error"}
Document == [Task -> SUBSET Fact]

\* Contents of messages, as a writer has read them.
Seen == [of: Task, was: SUBSET Content]

VARIABLES
    doc,       \* the document in the chat's row
    row,       \* row[t]: the chat_message row of t's message
    pc,        \* pc[t]: where the response is
    op,        \* op[w]: the write w is in the middle of
    base,      \* base[w]: the contents w has read and is to change
    whole,     \* the responses the provider gives as a whole, not as a stream
    got,       \* the responses of which the provider has sent text
    lost       \* history: <<t, fact>> that another writer took from t's message

vars == <<doc, row, pc, op, base, whole, got, lost>>

Empty == [t \in Task |-> {}]
At(stage, of, new) == [pc |-> stage, of |-> of, new |-> new]
NoOp == At("idle", {}, Empty)

Due == At("due", {}, Empty)
Absent == At("absent", {}, Empty)
Free(w) == op[w].pc = "idle"

Init ==
    /\ doc = Empty
    /\ row = [t \in Task |-> {}]
    /\ pc = [t \in Task |-> "idle"]
    /\ \E cast \in Cast : op = [w \in Writer |-> IF w \in cast THEN NoOp ELSE Absent]
    /\ base = [w \in Writer |-> {}]
    /\ whole = {} /\ got = {}
    /\ lost = {}
-------------------------------------------------------------------------------
\* Mutant of Merge: the fields replace the message instead of joining it.
Overlay(d, c, clear, set) == [d EXCEPT ![c] = set]

\* The document with the fields of message c overwritten: the facts of clear
\* no longer hold, those of set do.
Merge(d, c, clear, set) == [d EXCEPT ![c] = (@ \ clear) \cup set]

\* upsert_message_to_chat_by_id_and_message_id up to its first write: the
\* whole document is read and changed in memory.
Reads(w, c, clear, set) ==
    op' = [op EXCEPT ![w] = At("row", {c}, Merge(doc, c, clear, set))]

\* A write of the document alone (the title, a status).
ReadsOnly(w) == op' = [op EXCEPT ![w] = At("doc", {}, doc)]

\* The columns the fields of a message overwrite in its row.  The usage is
\* merged, so it is never among them.
Overwritten(data) ==
    (IF "body" \in data THEN Content ELSE {}) \cup (IF "mark" \in data THEN {"done"} ELSE {})

\* Mutant of RowMerge: the usage is a column like the others.
RowMergeUsage(old, data) ==
    (old \ (Overwritten(data) \cup (IF "body" \in data THEN {"usage"} ELSE {}))) \cup data

\* upsert_message of the chat_message table.
RowMerge(old, data) == (old \ Overwritten(data)) \cup data

\* What w takes from the message of another response as it becomes `new`.
Taken(w, t, old, new) ==
    IF t = w THEN {} ELSE {t} \X ((old \ new) \cap {"text", "done", "error"})

WriteRow(w) ==
    /\ op[w].pc = "row"
    /\ \E t \in op[w].of :
        LET new == RowMerge(row[t], op[w].new[t])
        IN /\ row' = [row EXCEPT ![t] = new]
           /\ lost' = lost \cup Taken(w, t, row[t], new)
    /\ op' = [op EXCEPT ![w] = At("doc", op[w].of, op[w].new)]
    /\ UNCHANGED <<doc, pc, base, whole, got>>

\* update_chat_by_id
WriteDoc(w) ==
    /\ op[w].pc = "doc"
    /\ doc' = op[w].new
    /\ lost' = lost \cup UNION {Taken(w, t, doc[t], op[w].new[t]) : t \in Task}
    /\ op' = [op EXCEPT ![w] = NoOp]
    /\ UNCHANGED <<row, pc, base, whole, got>>
-------------------------------------------------------------------------------
Goto(t, here) == pc' = [pc EXCEPT ![t] = here]

\* The request saves the placeholder and then starts the task.
Place(t) ==
    /\ pc[t] = "idle" /\ Free(t)
    /\ Goto(t, "placing")
    /\ Reads(t, t, Content \cup {"done"}, {"body", "mark"})
    /\ UNCHANGED <<doc, row, base, whole, got, lost>>

Start(t) ==
    /\ pc[t] = "placing" /\ Free(t)
    /\ Goto(t, "payload")
    /\ UNCHANGED <<doc, row, op, base, whole, got, lost>>

\* A status event; what it adds to the message is not tracked.
Status(t) ==
    /\ "status" \in May[t]
    /\ pc[t] \in {"payload", "stream"} /\ Free(t)
    /\ ReadsOnly(t)
    /\ UNCHANGED <<doc, row, pc, base, whole, got, lost>>

\* The provider answers, with a stream of events or with the whole answer.
Stream(t) ==
    /\ pc[t] = "payload" /\ Free(t)
    /\ Goto(t, "stream")
    /\ \/ whole' = whole
       \/ "whole" \in May[t] /\ whole' = whole \cup {t}
    /\ UNCHANGED <<doc, row, op, base, got, lost>>

\* The first text of the answer; an answer may have none.
Receive(t) ==
    /\ pc[t] = "stream" /\ Free(t) /\ t \notin got
    /\ got' = got \cup {t}
    /\ UNCHANGED <<doc, row, pc, op, base, whole, lost>>

\* A save while the answer is received: an error the provider reports, or a
\* field that is not tracked (sources, the model selected).
Interim(t) ==
    /\ "interim" \in May[t]
    /\ pc[t] = "stream" /\ Free(t)
    /\ \E facts \in {{}, {"error"}} : Reads(t, t, {}, facts)
    /\ UNCHANGED <<doc, row, pc, base, whole, got, lost>>

\* The content of the answer so far: '' until there is text.
Answer(t) == IF t \in got THEN {"text"} ELSE {}

\* Mutant of Finished: only the save with the usage has the content.
FinishedLater(t, facts) ==
    Reads(t, t, Content, facts \cup (IF facts = {} THEN {} ELSE Answer(t)) \cup {"body", "mark", "done"})

\* The save of the answer so far, with the fields that go with it.
Finished(t, facts) == Reads(t, t, Content, facts \cup Answer(t) \cup {"body", "mark", "done"})

\* The save of the answer at the end of a stream, with whatever content it
\* has; of an answer given as a whole, if it has content.  The provider has
\* reported the usage.
SaveAnswer(t) ==
    /\ pc[t] = "stream" /\ Free(t)
    /\ t \in whole => t \in got
    /\ Goto(t, "background")
    /\ Finished(t, {"usage"})
    /\ UNCHANGED <<doc, row, base, whole, got, lost>>
-------------------------------------------------------------------------------
\* background_tasks_handler and outlet_filter_handler, each part optional.
FollowUps(t) ==
    /\ "followups" \in May[t]
    /\ pc[t] = "background" /\ Free(t)
    /\ Goto(t, "title")
    /\ Reads(t, t, {}, {})
    /\ UNCHANGED <<doc, row, base, whole, got, lost>>

Title(t) ==
    /\ "title" \in May[t]
    /\ pc[t] \in {"background", "title"} /\ Free(t)
    /\ Goto(t, "outlet")
    /\ ReadsOnly(t)
    /\ UNCHANGED <<doc, row, base, whole, got, lost>>

\* The filters get the rows of the thread ...
Outlet(t) ==
    /\ "outlet" \in May[t]
    /\ pc[t] \in {"background", "title", "outlet"} /\ Free(t)
    /\ Goto(t, "filtering")
    /\ base' = [base EXCEPT ![t] =
            {[of |-> c, was |-> row[c] \cap Content] : c \in {m \in Thread[t] : row[m] # {}}}]
    /\ UNCHANGED <<doc, row, op, whole, got, lost>>

\* ... and each message whose content they changed (added to) is saved.
Filter(t) ==
    /\ pc[t] = "filtering" /\ Free(t)
    /\ \E m \in base[t] :
        /\ Reads(t, m.of, Content, m.was \cup {"body", "note"})
        /\ base' = [base EXCEPT ![t] = @ \ {m}]
    /\ UNCHANGED <<doc, row, pc, whole, got, lost>>

Trying == {"stream", "background", "title", "outlet", "filtering"}

\* process_chat's `except Exception`.  The filters' exceptions do not get
\* there, nor does any while an answer given as a whole is handled.
Fail(t) ==
    /\ "fail" \in May[t]
    /\ \/ pc[t] = "payload"
       \/ pc[t] \in Trying \ {"filtering"} /\ t \notin whole
    /\ Free(t)
    /\ Goto(t, "failing")
    /\ Reads(t, t, {}, {"error"})
    /\ UNCHANGED <<doc, row, base, whole, got, lost>>

\* The end, by whatever way.  An answer given as a whole ends at any point, at
\* an exception or for want of content, and that is not recorded.
Finish(t) ==
    /\ \/ pc[t] \in {"background", "title", "outlet", "filtering", "stopped", "failing"}
       \/ pc[t] = "stream" /\ t \in whole
    /\ Free(t)
    /\ Goto(t, "over")
    /\ base' = [base EXCEPT ![t] = {}]
    /\ UNCHANGED <<doc, row, op, whole, got, lost>>
-------------------------------------------------------------------------------
\* A cancellation drops the write it meets.  While a stream is handled,
\* save_cancelled_state is started, shielded; elsewhere nothing is saved.
Stop(t) ==
    /\ "stop" \in May[t]
    /\ \/ pc[t] \in Trying /\ t \notin whole /\ Goto(t, "stopped") /\ op' = [op EXCEPT ![t] = Due]
       \/ /\ pc[t] \in {"payload", "failing"} \/ (pc[t] \in Trying /\ t \in whole)
          /\ Goto(t, "cut") /\ op' = [op EXCEPT ![t] = NoOp]
    /\ base' = [base EXCEPT ![t] = {}]
    /\ UNCHANGED <<doc, row, whole, got, lost>>

\* Mutant of StopAgain: the save is not shielded.
StopUnshielded(t) ==
    /\ pc[t] = "stopped" /\ ~Free(t)
    /\ Goto(t, "over")
    /\ op' = [op EXCEPT ![t] = NoOp]
    /\ UNCHANGED <<doc, row, base, whole, got, lost>>

\* A second cancellation ends the task; the shielded save goes on alone.
StopAgain(t) ==
    /\ pc[t] = "stopped" /\ ~Free(t)
    /\ Goto(t, "over")
    /\ UNCHANGED <<doc, row, op, base, whole, got, lost>>

\* save_cancelled_state, after its event.
SaveStopped(t) ==
    /\ op[t].pc = "due"
    /\ Finished(t, {})
    /\ UNCHANGED <<doc, row, pc, base, whole, got, lost>>
-------------------------------------------------------------------------------
\* A message event appends to the content: it reads the message, and then
\* upserts the longer content.
Read(e) ==
    /\ Free(e)
    /\ \E t \in Task :
        /\ doc[t] # {}
        /\ base' = [base EXCEPT ![e] = {[of |-> t, was |-> doc[t] \cap Content]}]
    /\ op' = [op EXCEPT ![e] = Due]
    /\ UNCHANGED <<doc, row, pc, whole, got, lost>>

Append(e) ==
    /\ op[e].pc = "due"
    /\ \E m \in base[e] : Reads(e, m.of, Content, m.was \cup {"body", "note"})
    /\ base' = [base EXCEPT ![e] = {}]
    /\ UNCHANGED <<doc, row, pc, whole, got, lost>>

\* A replace event (another content for the answer) and the events for fields
\* that are not tracked (embeds, files, sources): an upsert, of a message there is.
Rewrite(e) ==
    /\ Free(e)
    /\ \E t \in Task : row[t] # {} /\ Reads(e, t, Content, {"body"})
    /\ UNCHANGED <<doc, row, pc, base, whole, got, lost>>

Attach(e) ==
    /\ Free(e)
    /\ \E t \in Task : row[t] # {} /\ Reads(e, t, {}, {})
    /\ UNCHANGED <<doc, row, pc, base, whole, got, lost>>
-------------------------------------------------------------------------------
Save(w) == WriteRow(w) \/ WriteDoc(w)

Respond(t) ==
    \/ Place(t) \/ Start(t) \/ Status(t) \/ Stream(t) \/ Receive(t) \/ Interim(t)
    \/ SaveAnswer(t) \/ FollowUps(t) \/ Title(t) \/ Outlet(t) \/ Filter(t) \/ Fail(t)
    \/ Finish(t) \/ Stop(t) \/ StopAgain(t) \/ SaveStopped(t) \/ Save(t)

Post(e) == Read(e) \/ Append(e) \/ Rewrite(e) \/ Attach(e) \/ Save(e)

Next == (\E t \in Task : Respond(t)) \/ (\E e \in Event : Post(e))

Spec == Init /\ [][Next]_vars

\* A write that has begun goes on: the event loop runs what is ready and the
\* database answers.
FairSpec == Spec /\ \A t \in Task : WF_vars(SaveStopped(t) \/ Save(t))
-------------------------------------------------------------------------------
Stage == Trying \cup {"idle", "placing", "payload", "stopped", "failing", "over", "cut"}
Write == [pc: {"absent", "idle", "due", "row", "doc"}, of: SUBSET Task, new: Document]

TypeOK ==
    /\ doc \in Document
    /\ row \in [Task -> SUBSET Fact]
    /\ pc \in [Task -> Stage]
    /\ op \in [Writer -> Write]
    /\ base \in [Writer -> SUBSET Seen]
    /\ whole \in SUBSET Task /\ got \in SUBSET Task
    /\ lost \in SUBSET (Task \X Fact)

\* t's message has the fact, or another writer took it.
Has(t, fact, message) == fact \in message \/ <<t, fact>> \in lost

Answered(t, message) == Has(t, "done", message) /\ (t \in got => Has(t, "text", message))

\* However a streamed response ends (finished, failed, or stopped once or twice
\* at any await once it was being received) its message says so in the document
\* and in its row when its last write is over: it is done, with the answer as
\* far as there was one, or it has the error; each unless another writer took
\* it back.
EndsComplete ==
    \A t \in Task \ whole : (pc[t] = "over" /\ Free(t)) =>
        \A m \in {doc[t], row[t]} : Answered(t, m) \/ Has(t, "error", m)

\* Once the answer is in the document or in the row, nothing a response still
\* writes to its own message takes it out again (its follow-ups, what filters
\* made of a content they read earlier, an error, the save of a stop), whatever
\* it read from: only another writer does.
AnswerStays ==
    [][\A t \in Task :
        ("text" \in doc[t] \ doc'[t] \/ "text" \in row[t] \ row'[t]) => <<t, "text">> \in lost']_vars

\* "This prevents background tasks (follow-ups, title, tags) from accidentally
\* clearing the primary response's token counts": the usage of a message's
\* row outlives every later write, of whatever document.
UsageKept == [][\A t \in Task : "usage" \in row[t] => "usage" \in row'[t]]_vars

\* A streamed response stopped while it is received is saved as done, even when
\* a second stop ends its task first, unless another writer takes it back.
StoppedIsSaved == \A t \in Task : (pc[t] = "stopped") ~> Has(t, "done", doc[t])
-------------------------------------------------------------------------------
(* Said of the code and not kept by it: see section 4 of the README.      *)

Quiet == \A w \in Writer : op[w].pc \in {"idle", "absent"}

\* A streamed response that ended is in the document and in its row.
AnswerKept ==
    \A t \in Task \ whole : (pc[t] = "over" /\ Quiet) =>
        \A m \in {doc[t], row[t]} : "done" \in m \/ "error" \in m

\* So is a response whose answer came as a whole.
WholeAnswerKept ==
    \A t \in whole : (pc[t] \in {"over", "cut"} /\ Quiet) =>
        \A m \in {doc[t], row[t]} : "done" \in m \/ "error" \in m

\* An event that appends to a finished answer leaves the answer there.
AppendKeepsAnswer ==
    [][\A e \in Event, t \in Task :
        (op[e].pc = "doc" /\ Free(e)' /\ "note" \in op[e].new[t] /\ op[e].of = {t} /\ "text" \in doc[t])
        => "text" \in doc'[t]]_vars
===============================================================================
