------------------------- MODULE ChatMessages_proofs -------------------------
(***************************************************************************)
(* Proofs about ChatMessages, for any number of responses and events; the   *)
(* last part is about behaviours in which their writes take turns.          *)
(***************************************************************************)
EXTENDS ChatMessages, TLAPS

\* A write that is begun has the type of writes.
LEMMA ReadsType ==
    ASSUME TypeOK, NEW w \in Writer, NEW t \in Task,
           NEW clear, NEW set \in SUBSET Fact, Reads(w, t, clear, set)
    PROVE  op' \in [Writer -> Write]
<1>1. Merge(doc, t, clear, set) \in Document
  BY DEF TypeOK, Document, Merge
<1>2. At("row", {t}, Merge(doc, t, clear, set)) \in Write
  BY <1>1 DEF Write, At
<1> QED BY <1>2 DEF TypeOK, Reads

\* What a writer makes of a content it has read has the type of a message.
LEMMA SeenType ==
    ASSUME TypeOK, NEW w \in Writer, NEW m \in base[w]
    PROVE  m.of \in Task /\ m.was \subseteq Content /\ m.was \cup {"body", "note"} \in SUBSET Fact
<1>1. m \in Seen
  BY DEF TypeOK
<1>2. m.of \in Task /\ m.was \in SUBSET Content
  BY <1>1 DEF Seen
<1> QED BY <1>2 DEF Fact, Content

\* What is taken from a message are facts of it.
LEMMA TakenType ==
    ASSUME NEW w, NEW t \in Task, NEW old \in SUBSET Fact, NEW new
    PROVE  Taken(w, t, old, new) \in SUBSET (Task \X Fact)
BY DEF Taken

\* A step of a write under way keeps the types.
LEMMA SaveType ==
    ASSUME TypeOK, NEW w \in Writer, Save(w)
    PROVE  TypeOK'
<1>1. CASE WriteRow(w)
  <2>1. PICK t \in op[w].of :
            /\ row' = [row EXCEPT ![t] = RowMerge(row[t], op[w].new[t])]
            /\ lost' = lost \cup Taken(w, t, row[t], RowMerge(row[t], op[w].new[t]))
    BY <1>1 DEF WriteRow
  <2>2. op[w] \in Write /\ t \in Task
    BY DEF TypeOK, Write
  <2>3. op[w].new[t] \in SUBSET Fact /\ row[t] \in SUBSET Fact
    BY <2>2 DEF TypeOK, Write, Document
  <2>4. RowMerge(row[t], op[w].new[t]) \in SUBSET Fact
    BY <2>3 DEF RowMerge
  <2>5. row' \in [Task -> SUBSET Fact] /\ lost' \in SUBSET (Task \X Fact)
    BY <2>1, <2>2, <2>3, <2>4, TakenType DEF TypeOK
  <2>6. op' \in [Writer -> Write]
    BY <1>1, <2>2 DEF WriteRow, TypeOK, Write, At
  <2> QED BY <1>1, <2>5, <2>6 DEF WriteRow, TypeOK
<1>2. CASE WriteDoc(w)
  <2>1. op[w] \in Write /\ NoOp \in Write
    BY DEF TypeOK, Write, NoOp, At, Empty, Document
  <2>2. op' \in [Writer -> Write] /\ doc' \in Document
    BY <1>2, <2>1 DEF WriteDoc, TypeOK, Write
  <2>3. \A t \in Task : Taken(w, t, doc[t], op[w].new[t]) \in SUBSET (Task \X Fact)
    BY TakenType DEF TypeOK, Document
  <2>4. lost' \in SUBSET (Task \X Fact)
    BY <1>2, <2>3 DEF WriteDoc, TypeOK
  <2> QED BY <1>2, <2>2, <2>4 DEF WriteDoc, TypeOK
<1> QED BY <1>1, <1>2 DEF Save

LEMMA RespondType ==
    ASSUME TypeOK, NEW t \in Task, Respond(t)
    PROVE  TypeOK'
<1> t \in Writer
  BY DEF Writer
<1> DEFINE Rest == /\ doc' = doc /\ row' = row /\ whole' = whole /\ got' = got /\ lost' = lost
<1>a. ASSUME NEW stage \in Stage, Goto(t, stage), op' \in [Writer -> Write],
             base' \in [Writer -> SUBSET Seen], Rest
      PROVE  TypeOK'
  BY <1>a DEF TypeOK, Goto
<1>b. ASSUME NEW clear, NEW set \in SUBSET Fact, Reads(t, t, clear, set)
      PROVE  op' \in [Writer -> Write]
  BY <1>b, ReadsType
<1>c. ReadsOnly(t) => op' \in [Writer -> Write]
  BY DEF ReadsOnly, TypeOK, Write, At
<1>d. NoOp \in Write /\ Due \in Write
  BY DEF NoOp, Due, At, Empty, Write, Document
<1>e. /\ base \in [Writer -> SUBSET Seen] /\ op \in [Writer -> Write]
      /\ base' = base => base' \in [Writer -> SUBSET Seen]
      /\ base' = [base EXCEPT ![t] = {}] => base' \in [Writer -> SUBSET Seen]
  BY DEF TypeOK
<1>f. \A facts \in SUBSET Fact : Finished(t, facts) => op' \in [Writer -> Write]
  <2> SUFFICES ASSUME NEW facts \in SUBSET Fact, Finished(t, facts) PROVE op' \in [Writer -> Write]
    OBVIOUS
  <2>1. facts \cup Answer(t) \cup {"body", "mark", "done"} \in SUBSET Fact
    BY DEF Answer, Fact, Content
  <2> QED BY <2>1, <1>b DEF Finished
<1>1. CASE Place(t)
  BY <1>1, <1>a, <1>b, <1>e DEF Place, Stage, Trying, Fact
<1>2. CASE Start(t)
  BY <1>2, <1>a, <1>e DEF Start, Stage, Trying
<1>3. CASE Status(t)
  BY <1>3, <1>c DEF Status, TypeOK
<1>4. CASE Stream(t)
  BY <1>4 DEF Stream, Goto, Stage, Trying, TypeOK
<1>5. CASE Receive(t)
  BY <1>5 DEF Receive, TypeOK
<1>6. CASE Interim(t)
  BY <1>6, <1>b DEF Interim, Fact, TypeOK
<1>7. CASE SaveAnswer(t)
  BY <1>7, <1>a, <1>e, <1>f DEF SaveAnswer, Stage, Trying, Fact
<1>8. CASE FollowUps(t)
  BY <1>8, <1>a, <1>b, <1>e DEF FollowUps, Stage, Trying
<1>9. CASE Title(t)
  BY <1>9, <1>a, <1>c, <1>e DEF Title, Stage, Trying
<1>10. CASE Outlet(t)
  <2>1. {[of |-> c, was |-> row[c] \cap Content] : c \in {m \in Thread[t] : row[m] # {}}}
            \in SUBSET Seen
    BY ThreadAssumption DEF Seen
  <2>2. base' \in [Writer -> SUBSET Seen]
    BY <1>10, <2>1 DEF Outlet, TypeOK
  <2> QED BY <1>10, <1>a, <1>e, <2>2 DEF Outlet, Stage, Trying
<1>11. CASE Filter(t)
  <2>1. PICK m \in base[t] : /\ Reads(t, m.of, Content, m.was \cup {"body", "note"})
                             /\ base' = [base EXCEPT ![t] = @ \ {m}]
    BY <1>11 DEF Filter
  <2>2. m.of \in Task /\ m.was \cup {"body", "note"} \in SUBSET Fact
    BY <2>1, SeenType
  <2>3. op' \in [Writer -> Write] /\ base' \in [Writer -> SUBSET Seen]
    BY <2>1, <2>2, ReadsType DEF TypeOK
  <2> QED BY <1>11, <2>3 DEF Filter, TypeOK
<1>12. CASE Fail(t)
  BY <1>12, <1>a, <1>b, <1>e DEF Fail, Stage, Trying, Fact
<1>13. CASE Finish(t)
  BY <1>13, <1>a, <1>e DEF Finish, Stage, Trying
<1>14. CASE Stop(t)
  BY <1>14, <1>d, <1>e DEF Stop, Goto, Stage, Trying, TypeOK
<1>15. CASE StopAgain(t)
  BY <1>15, <1>a, <1>e DEF StopAgain, Stage, Trying
<1>16. CASE SaveStopped(t)
  BY <1>16, <1>f DEF SaveStopped, TypeOK
<1>17. CASE Save(t)
  BY <1>17, SaveType
<1> QED BY <1>1, <1>2, <1>3, <1>4, <1>5, <1>6, <1>7, <1>8, <1>9, <1>10, <1>11,
           <1>12, <1>13, <1>14, <1>15, <1>16, <1>17 DEF Respond

LEMMA PostType ==
    ASSUME TypeOK, NEW e \in Event, Post(e)
    PROVE  TypeOK'
<1> e \in Writer
  BY DEF Writer
<1>1. CASE Read(e)
  <2>1. PICK t \in Task : base' = [base EXCEPT ![e] = {[of |-> t, was |-> doc[t] \cap Content]}]
    BY <1>1 DEF Read
  <2>2. {[of |-> t, was |-> doc[t] \cap Content]} \in SUBSET Seen /\ Due \in Write
    BY DEF Seen, Due, At, Empty, Write, Document
  <2> QED BY <1>1, <2>1, <2>2 DEF Read, TypeOK
<1>2. CASE Append(e)
  <2>1. PICK m \in base[e] : Reads(e, m.of, Content, m.was \cup {"body", "note"})
    BY <1>2 DEF Append
  <2>2. m.of \in Task /\ m.was \cup {"body", "note"} \in SUBSET Fact
    BY <2>1, SeenType
  <2>3. op' \in [Writer -> Write]
    BY <2>1, <2>2, ReadsType
  <2> QED BY <1>2, <2>3 DEF Append, TypeOK
<1>3. CASE Rewrite(e) \/ Attach(e)
  <2>1. PICK t \in Task : Reads(e, t, Content, {"body"}) \/ Reads(e, t, {}, {})
    BY <1>3 DEF Rewrite, Attach
  <2>2. op' \in [Writer -> Write]
    BY <2>1, ReadsType DEF Fact
  <2> QED BY <1>3, <2>2 DEF Rewrite, Attach, TypeOK
<1>4. CASE Save(e)
  BY <1>4, SaveType
<1> QED BY <1>1, <1>2, <1>3, <1>4 DEF Post

\* The variables keep their types, for any set of responses and of events.
THEOREM TypeCorrect == Spec => []TypeOK
<1>1. Init => TypeOK
  BY DEF Init, TypeOK, Stage, Trying, Write, Document, Empty, NoOp, Absent, At, Writer
<1>2. TypeOK /\ [Next]_vars => TypeOK'
  <2> SUFFICES ASSUME TypeOK, [Next]_vars PROVE TypeOK'
    OBVIOUS
  <2>1. CASE UNCHANGED vars
    BY <2>1 DEF vars, TypeOK
  <2>2. CASE Next
    BY <2>2, RespondType, PostType DEF Next
  <2> QED BY <2>1, <2>2
<1> QED BY <1>1, <1>2, PTL DEF Spec
-------------------------------------------------------------------------------
\* A step other than a save changes neither the document nor a row nor what was
\* taken, and leaves the other writers where they are.
LEMMA OwnOnly ==
    ASSUME TypeOK, NEW w \in Writer, ~ Save(w),
           (w \in Task /\ Respond(w)) \/ (w \in Event /\ Post(w))
    PROVE  /\ doc' = doc /\ row' = row /\ lost' = lost
           /\ \A v \in Writer \ {w} : op'[v] = op[v] /\ base'[v] = base[v]
           /\ \A s \in Task \ {w} :
                pc'[s] = pc[s] /\ (s \in got' <=> s \in got) /\ (s \in whole' <=> s \in whole)
           /\ whole \subseteq whole'
<1>1. CASE w \in Task /\ Respond(w)
  <2>1. doc' = doc /\ row' = row /\ lost' = lost
    BY <1>1 DEF Respond, Place, Start, Status, Stream, Receive, Interim, SaveAnswer, FollowUps,
       Title, Outlet, Filter, Fail, Finish, Stop, StopAgain, SaveStopped
  <2>2. \A v \in Writer \ {w} : op'[v] = op[v] /\ base'[v] = base[v]
    BY <1>1 DEF Respond, Place, Start, Status, Stream, Receive, Interim, SaveAnswer, FollowUps,
       Title, Outlet, Filter, Fail, Finish, Stop, StopAgain, SaveStopped, Finished, Reads,
       ReadsOnly, TypeOK
  <2>3. /\ \A s \in Task \ {w} :
             pc'[s] = pc[s] /\ (s \in got' <=> s \in got) /\ (s \in whole' <=> s \in whole)
        /\ whole \subseteq whole'
    BY <1>1 DEF Respond, Place, Start, Status, Stream, Receive, Interim, SaveAnswer, FollowUps,
       Title, Outlet, Filter, Fail, Finish, Stop, StopAgain, SaveStopped, Goto, TypeOK
  <2> QED BY <2>1, <2>2, <2>3
<1>2. CASE w \in Event /\ Post(w)
  BY <1>2 DEF Post, Read, Append, Rewrite, Attach, Reads, TypeOK, Writer
<1> QED BY <1>1, <1>2

\* "This prevents background tasks (follow-ups, title, tags) from accidentally
\* clearing the primary response's token counts": upsert_message keeps the
\* usage of a row, whatever document the writer started from.
THEOREM UsageStays == Spec => UsageKept
<1> DEFINE Keeps == \A t \in Task : "usage" \in row[t] => "usage" \in row'[t]
<1>1. TypeOK /\ [Next]_vars => [Keeps]_vars
  <2> SUFFICES ASSUME TypeOK, Next PROVE Keeps
    OBVIOUS
  <2>1. PICK w \in Writer : (w \in Task /\ Respond(w)) \/ (w \in Event /\ Post(w))
    BY DEF Next, Writer
  <2>2. CASE WriteRow(w)
    <3>1. PICK c \in op[w].of : row' = [row EXCEPT ![c] = RowMerge(row[c], op[w].new[c])]
      BY <2>2 DEF WriteRow
    <3>2. "usage" \in row[c] => "usage" \in RowMerge(row[c], op[w].new[c])
      BY DEF RowMerge, Overwritten, Content
    <3> QED BY <3>1, <3>2 DEF TypeOK
  <2>3. CASE WriteDoc(w)
    BY <2>3 DEF WriteDoc
  <2>4. CASE ~ Save(w)
    BY <2>1, <2>4, OwnOnly
  <2> QED BY <2>2, <2>3, <2>4 DEF Save
<1> QED BY <1>1, TypeCorrect, PTL DEF Spec, UsageKept
-------------------------------------------------------------------------------
\* What a message says of a streamed response that is at this point: after the
\* save of the answer the answer, after a failure or a stop at least the error.
Tells(t, message) ==
    Answered(t, message) \/ (Has(t, "error", message) /\ pc[t] \in {"stopped", "failing", "over"})

Saved == {"background", "title", "outlet", "filtering"}

\* The answer is saved, or a streamed response has ended otherwise.
Ending(t) == pc[t] \in Saved \/ (pc[t] \in {"stopped", "failing", "over"} /\ t \notin whole)

\* The strengthening of EndsComplete: from the answer's save on, the document
\* the response is about to write tells it, and once that write has passed the
\* row the row does, and then the document; what the filters got has the answer.
Tracked(t) ==
    /\ op[t].pc = "row" => op[t].of = {t} \/ t \notin op[t].of
    /\ Ending(t) =>
         /\ op[t].pc = "row" => Tells(t, op[t].new[t]) /\ (t \in op[t].of \/ Tells(t, row[t]))
         /\ op[t].pc = "doc" => Tells(t, op[t].new[t]) /\ Tells(t, row[t])
         /\ op[t].pc = "idle" => Tells(t, doc[t]) /\ Tells(t, row[t])
         /\ (pc[t] = "filtering" /\ t \in got) =>
                \A m \in base[t] : m.of = t => Has(t, "text", m.was)

AllTracked == \A t \in Task : Tracked(t)

\* The row tells what the message written to it tells.
LEMMA RowTells ==
    ASSUME NEW t, NEW old, NEW data, Tells(t, data)
    PROVE  Tells(t, RowMerge(old, data))
BY DEF Tells, Answered, Has, RowMerge

\* A step of another writer's save: t's facts stay or are recorded as taken.
LEMMA OtherSave ==
    ASSUME TypeOK, NEW t \in Task, NEW w \in Writer, w # t, Save(w)
    PROVE  /\ op'[t] = op[t] /\ pc' = pc /\ base' = base /\ whole' = whole /\ got' = got
           /\ lost \subseteq lost'
           /\ \A f \in {"text", "done", "error"} :
                /\ f \in doc[t] => f \in doc'[t] \/ <<t, f>> \in lost'
                /\ f \in row[t] => f \in row'[t] \/ <<t, f>> \in lost'
<1> t \in Writer /\ op[w] \in Write
  BY DEF TypeOK, Writer
<1>1. op'[t] = op[t] /\ pc' = pc /\ base' = base /\ whole' = whole /\ got' = got /\ lost \subseteq lost'
  BY DEF Save, WriteRow, WriteDoc, TypeOK
<1>2. CASE WriteRow(w)
  <2>1. PICK c \in op[w].of :
            /\ row' = [row EXCEPT ![c] = RowMerge(row[c], op[w].new[c])]
            /\ lost' = lost \cup Taken(w, c, row[c], RowMerge(row[c], op[w].new[c]))
    BY <1>2 DEF WriteRow
  <2>2. doc' = doc
    BY <1>2 DEF WriteRow
  <2>3. CASE c = t
    <3>1. row'[t] = RowMerge(row[t], op[w].new[t])
      BY <2>1, <2>3 DEF TypeOK
    <3>2. \A f \in {"text", "done", "error"} :
              f \in row[t] => f \in RowMerge(row[t], op[w].new[t]) \/ <<t, f>> \in lost'
      BY <2>1, <2>3 DEF Taken
    <3> QED BY <1>1, <2>2, <3>1, <3>2
  <2>4. CASE c # t
    <3>1. row'[t] = row[t]
      BY <2>1, <2>4 DEF TypeOK
    <3> QED BY <1>1, <2>2, <3>1
  <2> QED BY <2>3, <2>4
<1>3. CASE WriteDoc(w)
  <2>1. /\ row' = row /\ doc'[t] = op[w].new[t]
        /\ Taken(w, t, doc[t], op[w].new[t]) \subseteq lost'
    BY <1>3 DEF WriteDoc
  <2>2. \A f \in {"text", "done", "error"} : f \in doc[t] => f \in op[w].new[t] \/ <<t, f>> \in lost'
    BY <2>1 DEF Taken
  <2> QED BY <1>1, <2>1, <2>2
<1> QED BY <1>2, <1>3 DEF Save

LEMMA OtherSaveTracked ==
    ASSUME TypeOK, AllTracked, NEW t \in Task, NEW w \in Writer, w # t, Save(w)
    PROVE  Tracked(t)'
<1>1. Tracked(t)
  BY DEF AllTracked
<1>2. /\ op'[t] = op[t] /\ pc' = pc /\ base' = base /\ whole' = whole /\ got' = got
      /\ lost \subseteq lost'
  BY OtherSave
<1>3. Tells(t, doc[t]) => Tells(t, doc[t])'
  BY <1>2, OtherSave DEF Tells, Answered, Has
<1>4. Tells(t, row[t]) => Tells(t, row[t])'
  BY <1>2, OtherSave DEF Tells, Answered, Has
<1>5. Tells(t, op[t].new[t]) => Tells(t, op[t].new[t])'
  BY <1>2 DEF Tells, Answered, Has
<1>6. (\A m \in base[t] : m.of = t => Has(t, "text", m.was)) =>
          (\A m \in base[t] : m.of = t => Has(t, "text", m.was))'
  BY <1>2 DEF Has
<1> QED BY <1>1, <1>2, <1>3, <1>4, <1>5, <1>6 DEF Tracked, Ending

LEMMA OwnSaveTracked ==
    ASSUME TypeOK, AllTracked, NEW t \in Task, Save(t)
    PROVE  Tracked(t)'
<1> t \in Writer /\ op[t] \in Write /\ Tracked(t)
  BY DEF TypeOK, Writer, AllTracked
<1>1. /\ pc' = pc /\ base' = base /\ whole' = whole /\ got' = got
      /\ \A f : <<t, f>> \in lost => <<t, f>> \in lost'
  BY DEF Save, WriteRow, WriteDoc
<1>2. (\A m \in base[t] : m.of = t => Has(t, "text", m.was)) =>
          (\A m \in base[t] : m.of = t => Has(t, "text", m.was))'
  BY <1>1 DEF Has
<1>3. CASE WriteRow(t)
  <2>1. PICK c \in op[t].of : row' = [row EXCEPT ![c] = RowMerge(row[c], op[t].new[c])]
    BY <1>3 DEF WriteRow
  <2>2. op[t].pc = "row" /\ op'[t].pc = "doc" /\ op'[t].new = op[t].new
    BY <1>3 DEF WriteRow, TypeOK, At
  <2>0. Tells(t, op[t].new[t]) => Tells(t, op[t].new[t])'
    BY <1>1, <2>2 DEF Tells, Answered, Has
  <2>3. CASE t \in op[t].of
    <3>1. c = t
      BY <2>2, <2>3 DEF Tracked
    <3>2. row'[t] = RowMerge(row[t], op[t].new[t])
      BY <2>1, <3>1 DEF TypeOK
    <3>3. Tells(t, op[t].new[t]) => Tells(t, row[t])'
      BY <1>1, <3>2 DEF Tells, Answered, Has, RowMerge
    <3> QED BY <1>1, <1>2, <2>0, <2>2, <2>3, <3>3 DEF Tracked, Ending
  <2>4. CASE t \notin op[t].of
    <3>1. row'[t] = row[t]
      BY <2>1, <2>4 DEF TypeOK
    <3>2. Tells(t, row[t]) => Tells(t, row[t])'
      BY <1>1, <3>1 DEF Tells, Answered, Has
    <3> QED BY <1>1, <1>2, <2>0, <2>2, <2>4, <3>2 DEF Tracked, Ending
  <2> QED BY <2>3, <2>4
<1>4. CASE WriteDoc(t)
  <2>1. op[t].pc = "doc" /\ op'[t] = NoOp /\ NoOp.pc = "idle"
    BY <1>4 DEF WriteDoc, TypeOK, NoOp, At
  <2>2. doc'[t] = op[t].new[t] /\ row' = row
    BY <1>4 DEF WriteDoc
  <2>3. Tells(t, op[t].new[t]) => Tells(t, doc[t])'
    BY <1>1, <2>2 DEF Tells, Answered, Has
  <2>4. Tells(t, row[t]) => Tells(t, row[t])'
    BY <1>1, <2>2 DEF Tells, Answered, Has
  <2> QED BY <1>1, <1>2, <2>1, <2>3, <2>4 DEF Tracked, Ending
<1> QED BY <1>3, <1>4 DEF Save

\* A step that leaves t's write and place, and the messages, alone.
LEMMA Untouched ==
    ASSUME NEW t \in Task, Tracked(t), op'[t] = op[t], pc'[t] = pc[t], base'[t] = base[t],
           t \in got' <=> t \in got, t \in whole' <=> t \in whole,
           doc' = doc, row' = row, lost' = lost
    PROVE  Tracked(t)'
BY DEF Tracked, Ending, Tells, Answered, Has

LEMMA OwnRead ==
    ASSUME TypeOK, NEW w \in Writer, NEW c \in Task, NEW clear, NEW set, Reads(w, c, clear, set)
    PROVE  /\ op'[w].pc = "row" /\ op'[w].of = {c}
           /\ op'[w].new[c] = (doc[c] \ clear) \cup set
           /\ \A s \in Task \ {c} : op'[w].new[s] = doc[s]
           /\ \A v \in Writer \ {w} : op'[v] = op[v]
BY DEF Reads, At, Merge, TypeOK, Document

\* A response that has saved its answer and writes nothing finds it in both.
LEMMA AnswerThere ==
    ASSUME NEW t \in Task, Tracked(t), Free(t), pc[t] \in Saved
    PROVE  Answered(t, doc[t]) /\ Answered(t, row[t])
BY DEF Tracked, Ending, Saved, Free, Tells

LEMMA OwnStep ==
    ASSUME TypeOK, AllTracked, NEW t \in Task, Respond(t)
    PROVE  Tracked(t)'
<1> t \in Writer /\ Tracked(t) /\ pc \in [Task -> Stage] /\ base \in [Writer -> SUBSET Seen]
  BY DEF Writer, AllTracked, TypeOK
<1> DEFINE Same == lost' = lost /\ got' = got /\ whole' = whole /\ doc' = doc
<1>a. ASSUME NEW clear, NEW set, Reads(t, t, clear, set), Same, pc'[t] # "filtering",
             Ending(t)' => Tells(t, (doc[t] \ clear) \cup set)'
      PROVE  Tracked(t)'
  <2>1. /\ op'[t].pc = "row" /\ op'[t].of = {t}
        /\ op'[t].new[t] = (doc[t] \ clear) \cup set
    BY <1>a, OwnRead
  <2> QED BY <2>1, <1>a DEF Tracked
<1>b. \A stage : Goto(t, stage) => pc'[t] = stage
  BY DEF Goto
<1>c. ReadsOnly(t) => op'[t].pc = "doc" /\ op'[t].new = doc
  BY DEF ReadsOnly, At, TypeOK
<1>1. CASE Place(t)
  BY <1>1, <1>a, <1>b DEF Place, Ending, Saved
<1>2. CASE Start(t) \/ Stream(t) \/ Receive(t)
  BY <1>2, <1>b DEF Start, Stream, Receive, Tracked, Ending, Saved, Free
<1>3. CASE Status(t)
  BY <1>3, <1>c DEF Status, Tracked, Ending, Saved
<1>4. CASE Interim(t)
  BY <1>4, <1>a DEF Interim, Ending, Saved
<1>5. CASE SaveAnswer(t) \/ SaveStopped(t)
  <2>1. PICK set : Reads(t, t, Content, set) /\ {"done"} \cup Answer(t) \subseteq set
    BY <1>5 DEF SaveAnswer, SaveStopped, Finished
  <2>2. Same
    BY <1>5 DEF SaveAnswer, SaveStopped
  <2>3. Tells(t, (doc[t] \ Content) \cup set)'
    BY <2>1, <2>2 DEF Tells, Answered, Has, Answer
  <2>4. CASE pc'[t] # "filtering"
    BY <2>1, <2>2, <2>3, <2>4, <1>a
  <2>5. CASE pc'[t] = "filtering"
    <3>1. base' = base /\ pc' = pc
      BY <1>5, <1>b, <2>5 DEF SaveAnswer, SaveStopped
    <3>2. op'[t].pc = "row" /\ op'[t].of = {t} /\ op'[t].new[t] = (doc[t] \ Content) \cup set
      BY <2>1, OwnRead
    <3>3. (\A m \in base[t] : m.of = t => Has(t, "text", m.was)) =>
              (\A m \in base[t] : m.of = t => Has(t, "text", m.was))'
      BY <2>2, <3>1 DEF Has
    <3>4. Tells(t, op[t].new[t])'
      BY <2>1, <2>2, <3>2 DEF Tells, Answered, Has, Answer
    <3> QED BY <2>2, <3>1, <3>2, <3>3, <3>4 DEF Tracked, Ending
  <2> QED BY <2>4, <2>5
<1>6. CASE FollowUps(t)
  <2>1. Reads(t, t, {}, {}) /\ Same /\ pc'[t] = "title" /\ Answered(t, doc[t])
    BY <1>6, <1>b, AnswerThere DEF FollowUps, Saved
  <2>2. Tells(t, (doc[t] \ {}) \cup {})'
    BY <2>1 DEF Tells, Answered, Has
  <2>3. pc'[t] # "filtering"
    BY <2>1
  <2> QED BY <2>1, <2>2, <2>3, <1>a
<1>7. CASE Title(t)
  <2>1. ReadsOnly(t) /\ Same /\ row' = row /\ pc'[t] = "outlet"
    BY <1>7, <1>b DEF Title
  <2>2. Answered(t, doc[t]) /\ Answered(t, row[t])
    BY <1>7, AnswerThere DEF Title, Saved
  <2>3. Tells(t, doc[t])' /\ Tells(t, row[t])'
    BY <1>7, <2>1, <2>2 DEF Title, Tells, Answered, Has
  <2> QED BY <1>7, <2>1, <2>3, <1>c DEF Tracked, Title, Tells, Answered, Has
<1>8. CASE Outlet(t)
  <2>1. /\ Same /\ op' = op /\ doc' = doc /\ row' = row /\ pc'[t] = "filtering"
        /\ base'[t] = {[of |-> c, was |-> row[c] \cap Content] : c \in {m \in Thread[t] : row[m] # {}}}
    BY <1>8, <1>b DEF Outlet
  <2>2. Answered(t, doc[t]) /\ Answered(t, row[t])
    BY <1>8, AnswerThere DEF Outlet, Saved
  <2>3. Tells(t, doc[t])' /\ Tells(t, row[t])'
    BY <2>1, <2>2 DEF Tells, Answered, Has
  <2>4. \A m \in base'[t] : m.of = t => m.was = row[t] \cap Content
    BY <2>1
  <2>5. t \in got => \A m \in base'[t] : m.of = t => "text" \in m.was \/ <<t, "text">> \in lost
    BY <2>2, <2>4 DEF Answered, Has, Content
  <2>6. t \in got => (\A m \in base[t] : m.of = t => Has(t, "text", m.was))'
    BY <2>1, <2>5 DEF Has
  <2> QED BY <1>8, <2>1, <2>3, <2>6 DEF Tracked, Outlet, Free
<1>9. CASE Filter(t)
  <2>1. PICK m \in base[t] : /\ Reads(t, m.of, Content, m.was \cup {"body", "note"})
                             /\ base' = [base EXCEPT ![t] = @ \ {m}]
    BY <1>9 DEF Filter
  <2>2. Same /\ pc' = pc /\ pc[t] = "filtering" /\ doc' = doc /\ row' = row /\ m.of \in Task /\ Free(t)
    BY <1>9, SeenType DEF Filter
  <2>3. /\ op'[t].pc = "row" /\ op'[t].of = {m.of}
        /\ op'[t].new[m.of] = (doc[m.of] \ Content) \cup (m.was \cup {"body", "note"})
        /\ \A s \in Task \ {m.of} : op'[t].new[s] = doc[s]
    BY <2>1, <2>2, OwnRead
  <2>4. Answered(t, doc[t]) /\ Answered(t, row[t])
    BY <2>2, AnswerThere DEF Saved
  <2>5. t \in got => \A n \in base[t] : n.of = t => Has(t, "text", n.was)
    BY <2>2 DEF Tracked, Ending, Saved
  <2>6. t \in got => (\A n \in base[t] : n.of = t => Has(t, "text", n.was))'
    BY <2>1, <2>2, <2>5 DEF Has
  <2>7. Tells(t, row[t])'
    BY <2>2, <2>4 DEF Tells, Answered, Has
  <2>8. Answered(t, op'[t].new[t])
    <3>1. CASE m.of = t
      BY <2>1, <2>3, <2>4, <2>5, <3>1 DEF Answered, Has, Content
    <3>2. CASE m.of # t
      BY <2>3, <2>4, <3>2
    <3> QED BY <3>1, <3>2
  <2>9. Tells(t, op[t].new[t])'
    BY <2>2, <2>8 DEF Tells, Answered, Has
  <2> QED BY <2>2, <2>3, <2>6, <2>7, <2>9 DEF Tracked
<1>10. CASE Fail(t)
  <2>1. Reads(t, t, {}, {"error"}) /\ Same /\ pc'[t] = "failing"
    BY <1>10, <1>b DEF Fail
  <2>2. Tells(t, (doc[t] \ {}) \cup {"error"})'
    BY <2>1 DEF Tells, Has
  <2> QED BY <2>1, <2>2, <1>a
<1>11. CASE Finish(t)
  <2>1. /\ Free(t) /\ (t \notin whole => Ending(t)) /\ pc'[t] = "over"
        /\ UNCHANGED <<doc, row, op>> /\ Same
    BY <1>11, <1>b DEF Finish, Ending, Saved
  <2>2. t \notin whole => Tells(t, doc[t]) /\ Tells(t, row[t])
    BY <2>1 DEF Tracked, Free
  <2>3. t \notin whole => Tells(t, doc[t])' /\ Tells(t, row[t])'
    BY <2>1, <2>2 DEF Tells, Answered, Has
  <2> QED BY <2>1, <2>3 DEF Tracked, Ending, Saved, Free
<1>12. CASE Stop(t)
  <2>1. CASE pc'[t] = "cut" /\ op'[t] = NoOp
    BY <2>1 DEF Tracked, NoOp, At, Ending, Saved
  <2>2. CASE pc'[t] = "stopped" /\ op'[t] = Due
    BY <2>2 DEF Tracked, Due, At
  <2> QED BY <1>12, <1>b, <2>1, <2>2 DEF Stop, TypeOK
<1>13. CASE StopAgain(t)
  <2>1. pc[t] = "stopped" /\ pc'[t] = "over" /\ UNCHANGED <<doc, row, op>> /\ Same
    BY <1>13, <1>b DEF StopAgain
  <2>2. /\ Tells(t, op[t].new[t]) => Tells(t, op[t].new[t])'
        /\ Tells(t, row[t]) => Tells(t, row[t])'
        /\ Tells(t, doc[t]) => Tells(t, doc[t])'
    BY <2>1 DEF Tells, Answered, Has
  <2> QED BY <2>1, <2>2 DEF Tracked, Ending, Saved
<1>14. CASE Save(t)
  BY <1>14, OwnSaveTracked
<1> QED BY <1>1, <1>2, <1>3, <1>4, <1>5, <1>6, <1>7, <1>8, <1>9, <1>10, <1>11,
           <1>12, <1>13, <1>14 DEF Respond

LEMMA AlwaysTracked == Spec => []AllTracked
<1>1. Init => AllTracked
  <2> SUFFICES ASSUME Init, NEW t \in Task PROVE Tracked(t)
    BY DEF AllTracked
  <2>1. pc[t] = "idle"
    BY DEF Init
  <2>2. op[t].pc # "row"
    BY DEF Init, NoOp, Absent, At, Writer
  <2> QED BY <2>1, <2>2 DEF Tracked, Ending, Saved
<1>2. TypeOK /\ AllTracked /\ [Next]_vars => AllTracked'
  <2> SUFFICES ASSUME TypeOK, AllTracked, [Next]_vars, NEW t \in Task PROVE Tracked(t)'
    BY DEF AllTracked
  <2>1. CASE UNCHANGED vars
    BY <2>1, Untouched DEF vars, AllTracked
  <2>2. CASE Next
    <3>1. PICK w \in Writer : (w \in Task /\ Respond(w)) \/ (w \in Event /\ Post(w))
      BY <2>2 DEF Next, Writer
    <3>2. CASE w = t
      <4>1. Respond(t)
        BY <3>1, <3>2, DisjointWriters
      <4> QED BY <4>1, OwnStep
    <3>3. CASE w # t /\ Save(w)
      BY <3>3, OtherSaveTracked
    <3>4. CASE w # t /\ ~ Save(w)
      <4>1. Tracked(t) /\ t \in Writer
        BY DEF AllTracked, Writer
      <4> QED BY <3>1, <3>4, <4>1, OwnOnly, Untouched
    <3> QED BY <3>2, <3>3, <3>4
  <2> QED BY <2>1, <2>2
<1> QED BY <1>1, <1>2, TypeCorrect, PTL DEF Spec

\* However a streamed response ends, its message is complete in the document and
\* in its row once its last write is over, as far as no other writer took from it.
THEOREM AlwaysComplete == Spec => []EndsComplete
<1>1. AllTracked => EndsComplete
  BY DEF AllTracked, Tracked, EndsComplete, Ending, Free, Tells
<1> QED BY <1>1, AlwaysTracked, PTL
-------------------------------------------------------------------------------
\* The answer of t is somewhere: in its row, in the document, in a document about
\* to be written or in a content that a writer has read.
Known(t) ==
    \/ "text" \in doc[t] \/ "text" \in row[t]
    \/ \E w \in Writer : \/ "text" \in op[w].new[t]
                         \/ \E m \in base[w] : m.of = t /\ "text" \in m.was

\* It is in the document, or t's own write has it, or the save of a stop is due
\* that will have it, or t writes no more.
Held(t) ==
    \/ "text" \in doc[t]
    \/ op[t].pc \in {"row", "doc"} /\ "text" \in op[t].new[t]
    \/ op[t].pc = "due"
    \/ op[t].pc = "idle" /\ pc[t] \in {"over", "cut"}

\* The strengthening of AnswerStays.
Guarded(t) ==
    /\ t \in got => pc[t] \notin {"idle", "placing", "payload"}
    /\ Known(t) => t \in got
    /\ <<t, "text">> \notin lost =>
          /\ Known(t) => Held(t)
          /\ (op[t].pc \in {"row", "doc"} /\ "text" \in doc[t]) => "text" \in op[t].new[t]

AllGuarded == \A t \in Task : Guarded(t)

\* The write of another response, or of an event, gets the answer of t only from
\* where it is already.
LEMMA NoNewText ==
    ASSUME TypeOK, NEW t \in Task, NEW w \in Writer, w # t, ~ Save(w),
           (w \in Task /\ Respond(w)) \/ (w \in Event /\ Post(w))
    PROVE  Known(t)' => Known(t)
<1>0. t \in Writer
  BY DEF Writer
<1>1. doc' = doc /\ row' = row /\ \A v \in Writer \ {w} : op'[v] = op[v] /\ base'[v] = base[v]
  BY OwnOnly
<1>2. ASSUME NEW c \in Task, NEW clear, NEW set, Reads(w, c, clear, set),
             "text" \in op'[w].new[t]
      PROVE  "text" \in doc[t] \/ (c = t /\ "text" \in set)
  <2>1. /\ op'[w].new[c] = (doc[c] \ clear) \cup set
        /\ \A s \in Task \ {c} : op'[w].new[s] = doc[s]
    BY <1>2, OwnRead
  <2>2. CASE c = t
    BY <1>2, <2>1, <2>2
  <2>3. CASE c # t
    BY <1>2, <2>1, <2>3
  <2> QED BY <2>2, <2>3
<1>3. /\ ReadsOnly(w) => op'[w].new = doc
      /\ op' = [op EXCEPT ![w] = NoOp] \/ op' = [op EXCEPT ![w] = Due] => "text" \notin op'[w].new[t]
  BY DEF ReadsOnly, TypeOK, NoOp, Due, At, Empty
<1>4. ASSUME NEW m \in base[w], Reads(w, m.of, Content, m.was \cup {"body", "note"}),
             "text" \in op'[w].new[t]
      PROVE  Known(t)
  <2>1. m.of \in Task
    BY SeenType
  <2>2. "text" \in doc[t] \/ (m.of = t /\ "text" \in m.was \cup {"body", "note"})
    BY <1>2, <1>4, <2>1
  <2> QED BY <2>2 DEF Known
<1>5. "text" \in op'[w].new[t] => Known(t)
  <2> SUFFICES ASSUME "text" \in op'[w].new[t], "text" \notin doc[t], op'[w] # op[w] PROVE Known(t)
    BY DEF Known
  <2>1. CASE w \in Event
    <3>1. \/ \E m \in base[w] : Reads(w, m.of, Content, m.was \cup {"body", "note"})
          \/ \E c \in Task : Reads(w, c, Content, {"body"}) \/ Reads(w, c, {}, {})
      BY <1>3, <2>1, DisjointWriters DEF Post, Read, Append, Rewrite, Attach
    <3>2. ASSUME NEW c \in Task, Reads(w, c, Content, {"body"}) \/ Reads(w, c, {}, {}) PROVE FALSE
      BY <1>2, <3>2
    <3>3. ASSUME NEW m \in base[w], Reads(w, m.of, Content, m.was \cup {"body", "note"})
          PROVE  Known(t)
      BY <1>4, <3>3
    <3> QED BY <3>1, <3>2, <3>3
  <2>2. CASE w \in Task
    <3>1. \/ \E m \in base[w] : Reads(w, m.of, Content, m.was \cup {"body", "note"})
          \/ \E clear, set : Reads(w, w, clear, set)
      BY <1>3, <2>2, DisjointWriters DEF Respond, Place, Start, Status, Stream, Receive, Interim,
         SaveAnswer, FollowUps, Title, Outlet, Filter, Fail, Finish, Stop, StopAgain, SaveStopped,
         Finished
    <3>2. ASSUME NEW clear, NEW set, Reads(w, w, clear, set) PROVE FALSE
      <4>1. "text" \in doc[t] \/ (w = t /\ "text" \in set)
        BY <1>2, <2>2, <3>2
      <4> QED BY <4>1
    <3>3. ASSUME NEW m \in base[w], Reads(w, m.of, Content, m.was \cup {"body", "note"})
          PROVE  Known(t)
      BY <1>4, <3>3
    <3> QED BY <3>1, <3>2, <3>3
  <2> QED BY <2>1, <2>2 DEF Writer
<1>6. (\E m \in base'[w] : m.of = t /\ "text" \in m.was) => Known(t)
  <2> SUFFICES ASSUME NEW m \in base'[w], m.of = t, "text" \in m.was, m \notin base[w] PROVE Known(t)
    BY DEF Known
  <2>1. CASE w \in Event
    <3>1. \E c \in Task : m = [of |-> c, was |-> doc[c] \cap Content]
      BY <2>1, DisjointWriters DEF Post, Read, Append, Rewrite, Attach, TypeOK
    <3> QED BY <3>1 DEF Known
  <2>2. CASE w \in Task
    <3>1. CASE Outlet(w)
      <4>1. base'[w] = {[of |-> c, was |-> row[c] \cap Content] : c \in {n \in Thread[w] : row[n] # {}}}
        BY <2>2, <3>1 DEF Outlet, TypeOK, Writer
      <4> QED BY <4>1 DEF Known
    <3>2. CASE ~ Outlet(w)
      <4>1. \/ base' = base \/ base' = [base EXCEPT ![w] = {}]
            \/ \E n \in base[w] : base' = [base EXCEPT ![w] = @ \ {n}]
        BY <2>2, <3>2, DisjointWriters DEF Respond, Place, Start, Status, Stream, Receive, Interim,
           SaveAnswer, FollowUps, Title, Filter, Fail, Finish, Stop, StopAgain, SaveStopped
      <4> QED BY <4>1 DEF TypeOK
    <3> QED BY <3>1, <3>2
  <2> QED BY <2>1, <2>2 DEF Writer
<1> QED BY <1>1, <1>5, <1>6 DEF Known

\* A response that writes nothing and has not ended has its answer in the document.
LEMMA AnswerInDocument ==
    ASSUME NEW t \in Task, Guarded(t), Known(t), <<t, "text">> \notin lost,
           Free(t), pc[t] \notin {"over", "cut"}
    PROVE  "text" \in doc[t]
BY DEF Guarded, Held, Free

LEMMA SaveGuarded ==
    ASSUME TypeOK, NEW t \in Task, Guarded(t), NEW w \in Writer, Save(w)
    PROVE  Guarded(t)'
<1> t \in Writer /\ op[w] \in Write
  BY DEF TypeOK, Writer
<1>1. CASE WriteRow(w)
  <2>1. PICK c \in op[w].of : row' = [row EXCEPT ![c] = RowMerge(row[c], op[w].new[c])]
    BY <1>1 DEF WriteRow
  <2>2. /\ doc' = doc /\ pc' = pc /\ base' = base /\ got' = got /\ lost \subseteq lost'
        /\ op[w].pc = "row" /\ op' = [op EXCEPT ![w] = At("doc", op[w].of, op[w].new)]
    BY <1>1 DEF WriteRow
  <2>3. \A v \in Writer : op'[v].new = op[v].new
    BY <2>2 DEF TypeOK, At
  <2>4. op'[t].pc = op[t].pc \/ (t = w /\ op[t].pc = "row" /\ op'[t].pc = "doc")
    BY <2>2 DEF TypeOK, At
  <2>5. "text" \in row'[t] => "text" \in row[t] \/ "text" \in op[w].new[t]
    BY <2>1 DEF TypeOK, RowMerge
  <2>6. Known(t)' => Known(t)
    BY <2>2, <2>3, <2>5 DEF Known
  <2> QED BY <2>2, <2>3, <2>4, <2>6 DEF Guarded, Held
<1>2. CASE WriteDoc(w)
  <2>1. /\ row' = row /\ pc' = pc /\ base' = base /\ got' = got /\ lost \subseteq lost'
        /\ doc'[t] = op[w].new[t] /\ op[w].pc = "doc" /\ op'[w].pc = "idle"
        /\ "text" \notin op'[w].new[t] /\ \A v \in Writer \ {w} : op'[v] = op[v]
    BY <1>2 DEF WriteDoc, NoOp, At, Empty, TypeOK
  <2>2. Known(t)' => Known(t)
    BY <2>1 DEF Known
  <2>3. CASE w = t
    BY <2>1, <2>2, <2>3 DEF Guarded, Held
  <2>4. CASE w # t
    <3>1. "text" \in doc[t] => "text" \in doc'[t] \/ <<t, "text">> \in lost'
      BY <2>4, OtherSave
    <3>2. "text" \in doc'[t] => Known(t)
      BY <2>1 DEF Known
    <3> QED BY <2>1, <2>2, <2>4, <3>1, <3>2 DEF Guarded, Held
  <2> QED BY <2>3, <2>4
<1> QED BY <1>1, <1>2 DEF Save

LEMMA OtherGuarded ==
    ASSUME TypeOK, NEW t \in Task, Guarded(t), NEW w \in Writer, w # t, ~ Save(w),
           (w \in Task /\ Respond(w)) \/ (w \in Event /\ Post(w))
    PROVE  Guarded(t)'
<1>1. Known(t)' => Known(t)
  BY NoNewText
<1>2. /\ doc' = doc /\ lost' = lost /\ pc'[t] = pc[t] /\ op'[t] = op[t]
      /\ t \in got' <=> t \in got
  BY OwnOnly DEF Writer
<1> QED BY <1>1, <1>2 DEF Guarded, Held

LEMMA OwnGuarded ==
    ASSUME TypeOK, NEW t \in Task, Guarded(t), Tracked(t), Respond(t), ~ Save(t)
    PROVE  Guarded(t)'
<1>0. t \in Writer /\ pc \in [Task -> Stage]
  BY DEF Writer, TypeOK
<1>1. /\ doc' = doc /\ row' = row /\ lost' = lost
      /\ \A v \in Writer \ {t} : op'[v] = op[v] /\ base'[v] = base[v]
  BY <1>0, OwnOnly
<1>2. Known(t)' => \/ Known(t) \/ "text" \in op'[t].new[t]
                   \/ \E m \in base'[t] : m.of = t /\ "text" \in m.was
  BY <1>1 DEF Known
<1>k. /\ "text" \in doc[t] => Known(t)
      /\ "text" \in op[t].new[t] => Known(t)
      /\ \A m \in base[t] : m.of = t /\ "text" \in m.was => Known(t)
  BY <1>0 DEF Known
<1>3. \A stage : Goto(t, stage) => pc'[t] = stage
  BY <1>0 DEF Goto
<1>a. ASSUME NEW clear, NEW set, Reads(t, t, clear, set), base' = base, got' = got,
             t \in got => pc'[t] \notin {"idle", "placing", "payload"},
             "text" \in set => t \in got,
             Known(t) \/ "text" \in set => <<t, "text">> \in lost \/ "text" \in (doc[t] \ clear) \cup set
      PROVE  Guarded(t)'
  <2>1. op'[t].pc = "row" /\ op'[t].new[t] = (doc[t] \ clear) \cup set
    BY <1>0, <1>a, OwnRead
  <2>2. Known(t)' => Known(t) \/ "text" \in set
    BY <1>2, <1>a, <1>k, <2>1
  <2> QED BY <1>1, <1>a, <2>1, <2>2 DEF Guarded, Held, Known
<1>b. ASSUME Free(t), pc[t] \notin {"over", "cut"}, pc'[t] \notin {"idle", "placing", "payload"} \/ t \notin got,
             base' = base, got' = got,
             ReadsOnly(t) \/ Reads(t, t, {}, {}) \/ Reads(t, t, {}, {"error"})
      PROVE  Guarded(t)'
  <2>1. Known(t) => <<t, "text">> \in lost \/ "text" \in doc[t]
    BY <1>b, AnswerInDocument
  <2>2. CASE ReadsOnly(t)
    <3>1. op'[t].pc = "doc" /\ op'[t].new = doc
      BY <1>0, <2>2 DEF ReadsOnly, At, TypeOK
    <3>2. Known(t)' => Known(t)
      BY <1>2, <1>b, <1>k, <3>1
    <3> QED BY <1>1, <1>b, <2>1, <3>1, <3>2 DEF Guarded, Held
  <2>3. CASE Reads(t, t, {}, {}) \/ Reads(t, t, {}, {"error"})
    BY <1>a, <1>b, <2>1, <2>3
  <2> QED BY <1>b, <2>2, <2>3
<1>4. CASE Place(t)
  <2>1. Reads(t, t, Content \cup {"done"}, {"body", "mark"}) /\ base' = base /\ got' = got
    BY <1>4 DEF Place
  <2>2. t \notin got /\ ~ Known(t)
    BY <1>4 DEF Place, Guarded
  <2> QED BY <1>a, <2>1, <2>2
<1>5. CASE Start(t) \/ Stream(t) \/ Receive(t)
  <2>1. ~ Known(t) /\ op' = op /\ base' = base
    BY <1>5 DEF Start, Stream, Receive, Guarded
  <2>2. ~ Known(t)'
    BY <1>1, <2>1 DEF Known
  <2>3. t \in got' => pc'[t] = "stream"
    BY <1>3, <1>5 DEF Start, Stream, Receive, Guarded
  <2> QED BY <2>2, <2>3 DEF Guarded, Known
<1>6. CASE Status(t) \/ FollowUps(t) \/ Title(t) \/ Fail(t)
  BY <1>3, <1>6, <1>b DEF Status, FollowUps, Title, Fail, Guarded, Trying
<1>7. CASE Interim(t)
  <2>1. Reads(t, t, {}, {}) \/ Reads(t, t, {}, {"error"})
    BY <1>7 DEF Interim
  <2> QED BY <1>7, <1>b, <2>1 DEF Interim
<1>8. CASE SaveAnswer(t) \/ SaveStopped(t)
  <2>1. PICK facts \in {{}, {"usage"}} : Finished(t, facts)
    BY <1>8 DEF SaveAnswer, SaveStopped
  <2> DEFINE set == facts \cup Answer(t) \cup {"body", "mark", "done"}
  <2>2. Reads(t, t, Content, set) /\ base' = base /\ got' = got
    BY <1>8, <2>1 DEF Finished, SaveAnswer, SaveStopped
  <2>3. ("text" \in set => t \in got) /\ (Known(t) => "text" \in set)
    BY DEF Answer, Guarded
  <2>4. t \in got => pc'[t] \notin {"idle", "placing", "payload"}
    BY <1>3, <1>8 DEF SaveAnswer, SaveStopped, Guarded
  <2> HIDE DEF set
  <2> QED BY <1>a, <2>2, <2>3, <2>4
<1>9. CASE Outlet(t)
  <2>1. /\ Free(t) /\ op' = op /\ got' = got /\ pc'[t] = "filtering" /\ pc[t] \notin {"over", "cut"}
        /\ base'[t] = {[of |-> c, was |-> row[c] \cap Content] : c \in {m \in Thread[t] : row[m] # {}}}
    BY <1>0, <1>3, <1>9 DEF Outlet, TypeOK
  <2>2. Known(t)' => Known(t)
    <3>1. \A m \in base'[t] : m.of = t => m.was \subseteq row[t]
      BY <2>1
    <3> QED BY <1>2, <1>k, <2>1, <3>1 DEF Known
  <2>3. Known(t) => <<t, "text">> \in lost \/ "text" \in doc[t]
    BY <2>1, AnswerInDocument
  <2> QED BY <1>1, <2>1, <2>2, <2>3 DEF Guarded, Held, Free
<1>10. CASE Filter(t)
  <2>1. PICK m \in base[t] : /\ Reads(t, m.of, Content, m.was \cup {"body", "note"})
                             /\ base' = [base EXCEPT ![t] = @ \ {m}]
    BY <1>10 DEF Filter
  <2>2. m.of \in Task /\ pc[t] = "filtering" /\ pc' = pc /\ got' = got /\ Free(t) /\ base'[t] \subseteq base[t]
    BY <1>0, <1>10, <2>1, SeenType DEF Filter, TypeOK
  <2>3. /\ op'[t].pc = "row"
        /\ op'[t].new[m.of] = (doc[m.of] \ Content) \cup (m.was \cup {"body", "note"})
        /\ \A s \in Task \ {m.of} : op'[t].new[s] = doc[s]
    BY <1>0, <2>1, <2>2, OwnRead
  <2>4. Known(t) => <<t, "text">> \in lost \/ "text" \in doc[t]
    BY <2>2, AnswerInDocument
  <2>5. "text" \in op'[t].new[t] => Known(t)
    <3>1. CASE m.of = t
      BY <1>0, <2>1, <2>3, <3>1 DEF Known, Content
    <3>2. CASE m.of # t
      BY <2>3, <3>2 DEF Known
    <3> QED BY <3>1, <3>2
  <2>6. Known(t)' => Known(t)
    BY <1>2, <1>k, <2>2, <2>5
  <2>7. Known(t) => <<t, "text">> \in lost \/ "text" \in op'[t].new[t]
    <3>1. CASE m.of = t
      <4>1. t \in got => Has(t, "text", m.was)
        BY <2>1, <2>2, <3>1 DEF Tracked, Ending, Saved
      <4> QED BY <2>3, <3>1, <4>1 DEF Guarded, Has
    <3>2. CASE m.of # t
      BY <2>3, <2>4, <3>2
    <3> QED BY <3>1, <3>2
  <2>8. "text" \in doc[t] => Known(t)
    BY DEF Known
  <2> QED BY <1>1, <2>2, <2>3, <2>6, <2>7, <2>8 DEF Guarded, Held
<1>11. CASE Finish(t)
  <2>1. /\ Free(t) /\ op' = op /\ got' = got /\ base'[t] = {} /\ pc'[t] = "over"
    BY <1>0, <1>3, <1>11 DEF Finish, TypeOK
  <2>2. Known(t)' => Known(t)
    BY <1>2, <1>k, <2>1
  <2> QED BY <2>1, <2>2, <1>1 DEF Guarded, Held, Free
<1>12. CASE Stop(t)
  <2>1. got' = got /\ base'[t] = {}
    BY <1>0, <1>12 DEF Stop, TypeOK
  <2>2. "text" \notin op'[t].new[t] /\ (op'[t].pc = "due" \/ (op'[t].pc = "idle" /\ pc'[t] = "cut"))
        /\ pc'[t] \in {"stopped", "cut"}
    BY <1>0, <1>3, <1>12 DEF Stop, TypeOK, Due, NoOp, At, Empty
  <2>3. Known(t)' => Known(t)
    BY <1>2, <2>1, <2>2
  <2> QED BY <2>1, <2>2, <2>3, <1>1 DEF Guarded, Held
<1>13. CASE StopAgain(t)
  <2>1. op' = op /\ got' = got /\ base' = base /\ pc'[t] = "over" /\ ~ Free(t)
    BY <1>3, <1>13 DEF StopAgain
  <2>2. Known(t)' => Known(t)
    BY <1>2, <1>k, <2>1
  <2> QED BY <2>1, <2>2, <1>1 DEF Guarded, Held, Free
<1> QED BY <1>4, <1>5, <1>6, <1>7, <1>8, <1>9, <1>10, <1>11, <1>12, <1>13 DEF Respond

\* Once the answer is in the document or in the row, nothing a response still
\* writes to its own message takes it out again, whatever it read from, for any
\* number of responses and events.
THEOREM AnswerRemains == Spec => AnswerStays
<1> DEFINE Stays == \A t \in Task :
        ("text" \in doc[t] \ doc'[t] \/ "text" \in row[t] \ row'[t]) => <<t, "text">> \in lost'
<1>1. Init => AllGuarded
  <2> SUFFICES ASSUME Init, NEW t \in Task PROVE Guarded(t)
    BY DEF AllGuarded
  <2>1. \A w \in Writer : op[w].new = Empty /\ op[w].pc \in {"idle", "absent"} /\ base[w] = {}
    BY DEF Init, NoOp, Absent, At
  <2>2. ~ Known(t)
    BY <2>1 DEF Known, Init, Empty
  <2>3. t \notin got /\ t \in Writer
    BY DEF Init, Writer
  <2> QED BY <2>1, <2>2, <2>3 DEF Guarded
<1>2. TypeOK /\ AllTracked /\ AllGuarded /\ [Next]_vars => AllGuarded'
  <2> SUFFICES ASSUME TypeOK, AllTracked, AllGuarded, [Next]_vars, NEW t \in Task PROVE Guarded(t)'
    BY DEF AllGuarded
  <2>1. Guarded(t) /\ Tracked(t)
    BY DEF AllGuarded, AllTracked
  <2>2. CASE UNCHANGED vars
    BY <2>1, <2>2 DEF vars, Guarded, Held, Known
  <2>3. CASE Next
    <3>1. PICK w \in Writer : (w \in Task /\ Respond(w)) \/ (w \in Event /\ Post(w))
      BY <2>3 DEF Next, Writer
    <3>2. CASE Save(w)
      BY <2>1, <3>2, SaveGuarded
    <3>3. CASE ~ Save(w) /\ w # t
      BY <2>1, <3>1, <3>3, OtherGuarded
    <3>4. CASE ~ Save(w) /\ w = t
      BY <2>1, <3>1, <3>4, OwnGuarded, DisjointWriters
    <3> QED BY <3>2, <3>3, <3>4
  <2> QED BY <2>2, <2>3
<1>3. TypeOK /\ AllGuarded /\ [Next]_vars => [Stays]_vars
  <2> SUFFICES ASSUME TypeOK, AllGuarded, Next, NEW t \in Task,
                      "text" \in doc[t] \ doc'[t] \/ "text" \in row[t] \ row'[t]
               PROVE  <<t, "text">> \in lost'
    OBVIOUS
  <2>1. PICK w \in Writer : (w \in Task /\ Respond(w)) \/ (w \in Event /\ Post(w))
    BY DEF Next, Writer
  <2>2. Save(w)
    BY <2>1, OwnOnly
  <2>3. CASE w # t
    BY <2>2, <2>3, OtherSave
  <2>4. CASE w = t
    <3>1. Guarded(t) /\ Known(t)
      BY DEF AllGuarded, Known
    <3>2. CASE WriteDoc(t)
      <4>1. doc'[t] = op[t].new[t] /\ row' = row /\ op[t].pc = "doc" /\ lost \subseteq lost'
        BY <3>2 DEF WriteDoc
      <4> QED BY <3>1, <4>1 DEF Guarded
    <3>3. CASE WriteRow(t)
      <4>1. PICK c \in op[t].of : row' = [row EXCEPT ![c] = RowMerge(row[c], op[t].new[c])]
        BY <3>3 DEF WriteRow
      <4>2. doc' = doc /\ op[t].pc = "row" /\ lost \subseteq lost'
        BY <3>3 DEF WriteRow
      <4>3. "text" \notin op[t].new[t]
        BY <4>1, <4>2 DEF TypeOK, RowMerge
      <4> QED BY <3>1, <4>2, <4>3 DEF Guarded, Held
    <3> QED BY <2>2, <2>4, <3>2, <3>3 DEF Save
  <2> QED BY <2>3, <2>4
<1> QED BY <1>1, <1>2, <1>3, TypeCorrect, AlwaysTracked, PTL DEF Spec, AnswerStays
-------------------------------------------------------------------------------
\* What a lock would give.  A writer is busy from its read of the chat to its
\* write of the document; a streamed response that is stopped, until that is saved.
Busy(w) == op[w].pc \in {"due", "row", "doc"}
OneAtATime == \A v, w \in Writer : Busy(v) /\ Busy(w) => v = w

\* The facts that say how a response ended.
Marks == {"done", "error"}

\* The document has it when the row says that the response is done.
Level(t) == "done" \in row[t] => "done" \in doc[t]

\* Another response than w, streamed.  The row of a whole answer whose save was
\* cancelled may be ahead of the document for good.
Others(w) == Task \ ({w} \cup whole)

\* A writer that is alone has read the document as it is.  The others' rows are
\* level with it, and what it writes says of them what the document does; of
\* its own message it has what the row has or will have.
Current(w) ==
    /\ Busy(w) => \A t \in Others(w) : Level(t)
    /\ op[w].pc \in {"row", "doc"} =>
          \A t \in Others(w) : op[w].new[t] \cap Marks = doc[t] \cap Marks
    /\ w \in Task \ whole =>
          /\ op[w].pc = "row" =>
                /\ "done" \in (IF w \in op[w].of THEN RowMerge(row[w], op[w].new[w]) ELSE row[w])
                      => "done" \in op[w].new[w]
                /\ op[w].of = {w} \/ w \notin op[w].of
          /\ op[w].pc = "doc" => ("done" \in row[w] => "done" \in op[w].new[w])
          /\ (Busy(w) /\ pc[w] \in {"payload", "failing"}) =>
                /\ op[w].pc # "due" /\ Level(w)
                /\ op[w].pc \in {"row", "doc"} => ("done" \in op[w].new[w] => "done" \in doc[w])

Calm == (\A w \in Writer : ~ Busy(w)) => \A t \in Task \ whole : Level(t)

\* Nothing that says how a streamed response ended is taken, as long as the
\* writers take turns.
NoneTaken == \A t \in Task \ whole, f \in Marks : <<t, f>> \notin lost
InTurns == NoneTaken /\ Calm /\ \A w \in Writer : Current(w)

\* A step of w that leaves it busy: no other writer was or is.
LEMMA Takes ==
    ASSUME TypeOK, InTurns, OneAtATime', NEW w \in Writer, Busy(w)', Current(w)', NoneTaken',
           \A v \in Writer \ {w} : op'[v] = op[v]
    PROVE  InTurns'
<1>1. \A v \in Writer \ {w} : ~ Busy(v)'
  BY DEF OneAtATime
<1>2. \A v \in Writer \ {w} : Current(v)'
  BY <1>1 DEF Current, Busy
<1> QED BY <1>2 DEF InTurns, Calm

\* A step of w after which no writer is busy, and all rows are level.
LEMMA Leaves ==
    ASSUME InTurns, OneAtATime, NEW w \in Writer, Busy(w), ~ Busy(w)', NoneTaken',
           \A v \in Writer \ {w} : op'[v] = op[v], \A t \in Task \ whole' : Level(t)'
    PROVE  InTurns'
<1>1. \A v \in Writer \ {w} : ~ Busy(v)
  BY DEF OneAtATime
<1>2. \A v \in Writer : ~ Busy(v)'
  BY <1>1 DEF Busy
<1>3. \A v \in Writer : Current(v)'
  BY <1>2 DEF Current, Busy
<1> QED BY <1>3 DEF InTurns, Calm

\* A step of a writer that is not and does not become busy, and writes nothing.
LEMMA Rests ==
    ASSUME InTurns, NEW w \in Writer, ~ Busy(w), ~ Busy(w)',
           \A v \in Writer \ {w} : op'[v] = op[v],
           \A v \in Task \ {w} : pc'[v] = pc[v] /\ (v \in whole' <=> v \in whole),
           whole \subseteq whole', UNCHANGED <<doc, row, lost>>
    PROVE  InTurns'
<1>1. ASSUME NEW v \in Writer PROVE Current(v)'
  <2>1. CASE v = w
    BY <2>1 DEF Current, Busy
  <2>2. CASE v # w
    <3>1. /\ Current(v) /\ op'[v] = op[v] /\ Others(v)' \subseteq Others(v)
          /\ v \in Task => pc'[v] = pc[v] /\ (v \in whole' <=> v \in whole)
      BY <2>2 DEF InTurns, Others
    <3> QED BY <3>1 DEF Current, Busy, Level
  <2> QED BY <2>1, <2>2
<1>2. (\A v \in Writer : ~ Busy(v)') => \A v \in Writer : ~ Busy(v)
  BY DEF Busy
<1>3. Calm' /\ NoneTaken'
  BY <1>2 DEF InTurns, Calm, Level, NoneTaken
<1> QED BY <1>1, <1>3 DEF InTurns

\* A writer that becomes busy finds every row level with the document.
LEMMA FoundLevel ==
    ASSUME InTurns, OneAtATime', NEW w \in Writer, ~ Busy(w), Busy(w)',
           \A v \in Writer \ {w} : op'[v] = op[v]
    PROVE  \A t \in Task \ whole : Level(t)
<1>1. \A v \in Writer \ {w} : ~ Busy(v)
  BY DEF OneAtATime, Busy
<1> QED BY <1>1 DEF InTurns, Calm

\* A read of w, to change message c: of another response what says how it ended
\* stays; of its own the row will have it when the document does.
LEMMA ReadInTurn ==
    ASSUME TypeOK, InTurns, OneAtATime', NEW w \in Writer, NEW c \in Task, NEW clear, NEW set,
           Reads(w, c, clear, set), UNCHANGED <<doc, row, whole, lost>>,
           ~ Busy(w) \/ op[w].pc = "due",
           c # w => clear \subseteq Content /\ set \cap Marks = {},
           (c = w /\ w \notin whole) =>
              \/ "done" \in set
              \/ "mark" \in set
              \/ clear \subseteq Content /\ ~ Busy(w),
           (w \in Task \ whole /\ c # w) => ~ Busy(w),
           (w \in Task \ whole /\ pc'[w] \in {"payload", "failing"}) =>
              c = w /\ ~ Busy(w) /\ "done" \notin set
    PROVE  InTurns'
<1> DEFINE mine == (doc[c] \ clear) \cup set
<1>0. Current(w)
  BY DEF InTurns
<1>1. /\ op'[w].pc = "row" /\ op'[w].of = {c} /\ op'[w].new[c] = mine
      /\ \A s \in Task \ {c} : op'[w].new[s] = doc[s]
      /\ \A v \in Writer \ {w} : op'[v] = op[v]
  BY OwnRead
<1>2. \A s \in Others(w) : Level(s)
  <2>1. CASE ~ Busy(w)
    BY <1>1, <2>1, FoundLevel DEF Busy, Others
  <2>2. CASE Busy(w)
    BY <1>0, <2>2 DEF Current
  <2> QED BY <2>1, <2>2
<1>3. (~ Busy(w) /\ w \in Task \ whole) => Level(w)
  BY <1>1, FoundLevel DEF Busy
<1>4. \A s \in Others(w) : op'[w].new[s] \cap Marks = doc[s] \cap Marks
  BY <1>1 DEF Others, Marks, Content
<1>5. (w \in Task \ whole /\ c = w) => ("done" \in RowMerge(row[w], mine) => "done" \in mine)
  <2> SUFFICES ASSUME w \in Task \ whole, c = w, "done" \in RowMerge(row[w], mine), "done" \notin mine
               PROVE  FALSE
    OBVIOUS
  <2>1. "done" \in row[w] /\ "mark" \notin mine
    BY DEF RowMerge, Overwritten
  <2>2. "mark" \notin set /\ "done" \notin set
    BY <2>1
  <2>3. clear \subseteq Content /\ Level(w)
    BY <1>3, <2>2
  <2> QED BY <2>1, <2>3 DEF Level, Content
<1>6. (w \in Task \ whole /\ c # w) => ("done" \in row[w] => "done" \in op'[w].new[w])
  BY <1>1, <1>3 DEF Level
<1>7. (w \in Task \ whole /\ pc'[w] \in {"payload", "failing"}) =>
         Level(w) /\ ("done" \in op'[w].new[w] => "done" \in doc[w])
  BY <1>1, <1>3
<1>8. Current(w)'
  BY <1>1, <1>2, <1>4, <1>5, <1>6, <1>7 DEF Current, Busy, Others, Level
<1>9. NoneTaken'
  BY DEF InTurns, NoneTaken
<1> QED BY <1>1, <1>8, <1>9, Takes DEF Busy

\* A read of a response for a write of the document alone.
LEMMA ReadOnlyInTurn ==
    ASSUME TypeOK, InTurns, OneAtATime', NEW t \in Task, ~ Busy(t),
           ReadsOnly(t), UNCHANGED <<doc, row, whole, lost>>
    PROVE  InTurns'
<1>0. t \in Writer
  BY DEF Writer
<1>1. op'[t].pc = "doc" /\ op'[t].new = doc /\ \A v \in Writer \ {t} : op'[v] = op[v]
  BY <1>0 DEF ReadsOnly, At, TypeOK
<1>2. \A s \in Task \ whole : Level(s)
  BY <1>0, <1>1, FoundLevel DEF Busy
<1>3. Current(t)'
  BY <1>0, <1>1, <1>2 DEF Current, Busy, Level, Others
<1>4. NoneTaken'
  BY DEF InTurns, NoneTaken
<1> QED BY <1>0, <1>1, <1>3, <1>4, Takes DEF Busy

\* The two writes of a writer that is alone take nothing of that.
LEMMA SaveInTurn ==
    ASSUME TypeOK, InTurns, OneAtATime, OneAtATime', NEW w \in Writer, Save(w)
    PROVE  InTurns'
<1>0. /\ Current(w) /\ op[w] \in Write /\ NoneTaken /\ \A v \in Writer \ {w} : op'[v] = op[v]
      /\ pc' = pc /\ whole' = whole
  BY DEF InTurns, TypeOK, Save, WriteRow, WriteDoc
<1>1. CASE WriteRow(w)
  <2>1. PICK c \in op[w].of :
            /\ row' = [row EXCEPT ![c] = RowMerge(row[c], op[w].new[c])]
            /\ lost' = lost \cup Taken(w, c, row[c], RowMerge(row[c], op[w].new[c]))
    BY <1>1 DEF WriteRow
  <2>2. /\ c \in Task /\ op[w].pc = "row" /\ op'[w].pc = "doc" /\ op'[w].new = op[w].new
        /\ doc' = doc
    BY <1>0, <1>1, <2>1 DEF WriteRow, TypeOK, Write, At
  <2>3. /\ row'[c] = RowMerge(row[c], op[w].new[c])
        /\ \A s \in Task \ {c} : row'[s] = row[s]
    BY <2>1, <2>2 DEF TypeOK
  <2>4. \A s \in Others(w) : Level(s) /\ op[w].new[s] \cap Marks = doc[s] \cap Marks
    BY <1>0, <2>2 DEF Current, Busy
  <2>5. c \in Others(w) => /\ "done" \in row'[c] => "done" \in doc[c]
                           /\ row[c] \cap Marks \subseteq row'[c]
    <3>1. c \in Others(w) => ("done" \in row[c] => "done" \in op[w].new[c])
      BY <2>4 DEF Level, Marks
    <3>2. c \in Others(w) => ("done" \in row'[c] => "done" \in doc[c])
      BY <2>3, <2>4, <3>1 DEF RowMerge, Level, Marks
    <3> QED BY <2>3, <3>1, <3>2 DEF RowMerge, Overwritten, Marks, Content
  <2>6. \A s \in Others(w) : Level(s)'
    <3>1. ASSUME NEW s \in Others(w), s # c PROVE Level(s)'
      BY <2>2, <2>3, <2>4, <3>1 DEF Level, Others
    <3>2. c \in Others(w) => Level(c)'
      BY <2>2, <2>5 DEF Level
    <3> QED BY <3>1, <3>2
  <2>7. NoneTaken'
    <3>1. c \in Task \ whole => \A f \in Marks : <<c, f>> \notin Taken(w, c, row[c], row'[c])
      BY <2>2, <2>5 DEF Taken, Others
    <3>2. \A s, f : <<s, f>> \in Taken(w, c, row[c], row'[c]) => s = c
      BY DEF Taken
    <3> QED BY <1>0, <2>1, <2>3, <3>1, <3>2 DEF NoneTaken
  <2>8. w \in Task \ whole => ("done" \in row'[w] => "done" \in op[w].new[w])
    <3>1. CASE w \in op[w].of /\ w \in Task \ whole
      BY <1>0, <2>2, <2>3, <3>1 DEF Current
    <3>2. CASE w \notin op[w].of /\ w \in Task \ whole
      BY <1>0, <2>2, <2>3, <3>2 DEF Current
    <3> QED BY <3>1, <3>2
  <2>9. (w \in Task \ whole /\ pc[w] \in {"payload", "failing"}) =>
           Level(w)' /\ ("done" \in op[w].new[w] => "done" \in doc[w])
    BY <1>0, <2>2, <2>8 DEF Current, Busy, Level
  <2>10. Current(w)'
    BY <1>0, <2>2, <2>4, <2>6, <2>8, <2>9 DEF Current, Busy, Others
  <2> QED BY <1>0, <2>2, <2>7, <2>10, Takes DEF Busy
<1>2. CASE WriteDoc(w)
  <2>1. /\ op[w].pc = "doc" /\ op'[w] = NoOp /\ doc' = op[w].new /\ row' = row
        /\ lost' = lost \cup UNION {Taken(w, t, doc[t], op[w].new[t]) : t \in Task}
    BY <1>2 DEF WriteDoc, TypeOK
  <2>2. \A s \in Others(w) : Level(s) /\ op[w].new[s] \cap Marks = doc[s] \cap Marks
    BY <1>0, <2>1 DEF Current, Busy
  <2>3. NoneTaken'
    <3> SUFFICES ASSUME NEW s \in Task \ whole, NEW f \in Marks, <<s, f>> \in lost' PROVE FALSE
      BY <1>0 DEF NoneTaken
    <3>1. PICK t \in Task : <<s, f>> \in Taken(w, t, doc[t], op[w].new[t])
      BY <1>0, <2>1 DEF NoneTaken
    <3>2. s = t /\ s # w /\ f \in doc[s] \ op[w].new[s]
      BY <3>1 DEF Taken
    <3> QED BY <2>2, <3>2 DEF Others
  <2>4. \A s \in Task \ whole : Level(s)'
    <3>1. \A s \in Others(w) : Level(s)'
      BY <2>1, <2>2 DEF Level, Marks
    <3>2. w \in Task \ whole => Level(w)'
      BY <1>0, <2>1 DEF Current, Level
    <3> QED BY <3>1, <3>2 DEF Others
  <2> QED BY <1>0, <2>1, <2>3, <2>4, Leaves DEF Busy, NoOp, At
<1> QED BY <1>1, <1>2 DEF Save

LEMMA RespondInTurn ==
    ASSUME TypeOK, InTurns, OneAtATime, OneAtATime', NEW t \in Task, Respond(t)
    PROVE  InTurns'
<1>0. /\ t \in Writer /\ Current(t) /\ NoneTaken /\ op[t] \in Write
      /\ pc \in [Task -> Stage] /\ (Free(t) => ~ Busy(t))
  BY DEF Writer, InTurns, TypeOK, Free, Busy
<1>a. \A stage : Goto(t, stage) => pc'[t] = stage /\ \A s \in Task \ {t} : pc'[s] = pc[s]
  BY <1>0 DEF Goto
<1>b. ~ Save(t) => /\ doc' = doc /\ row' = row /\ lost' = lost
                   /\ \A v \in Writer \ {t} : op'[v] = op[v]
                   /\ \A s \in Task \ {t} : pc'[s] = pc[s] /\ (s \in whole' <=> s \in whole)
                   /\ whole \subseteq whole'
  BY <1>0, OwnOnly
<1>c. ASSUME Free(t), op' = op, ~ Save(t) PROVE InTurns'
  BY <1>0, <1>b, <1>c, Rests DEF Busy
<1>d. Free(t) => ~ Save(t)
  BY DEF Free, Save, WriteRow, WriteDoc
<1>1. CASE Place(t)
  <2>1. Reads(t, t, Content \cup {"done"}, {"body", "mark"}) /\ pc'[t] = "placing"
    BY <1>1, <1>a DEF Place
  <2> QED BY <1>0, <1>1, <2>1, ReadInTurn DEF Place
<1>2. CASE Start(t) \/ Stream(t) \/ Receive(t) \/ Outlet(t) \/ Finish(t)
  BY <1>2, <1>c, <1>d DEF Start, Stream, Receive, Outlet, Finish
<1>3. CASE Status(t) \/ Title(t)
  BY <1>0, <1>3, ReadOnlyInTurn DEF Status, Title
<1>4. CASE Interim(t)
  <2>1. PICK facts \in {{}, {"error"}} : Reads(t, t, {}, facts)
    BY <1>4 DEF Interim
  <2>2. pc'[t] = "stream" /\ UNCHANGED <<doc, row, whole, lost>> /\ ~ Busy(t)
    BY <1>0, <1>4 DEF Interim
  <2> QED BY <1>0, <2>1, <2>2, ReadInTurn
<1>5. CASE SaveAnswer(t) \/ SaveStopped(t)
  <2>1. PICK set : Reads(t, t, Content, set) /\ "done" \in set
    BY <1>5 DEF SaveAnswer, SaveStopped, Finished
  <2>2. CASE SaveAnswer(t)
    BY <1>0, <1>a, <2>1, <2>2, ReadInTurn DEF SaveAnswer
  <2>3. CASE SaveStopped(t) /\ ~ (t \notin whole /\ pc[t] \in {"payload", "failing"})
    BY <1>0, <2>1, <2>3, ReadInTurn DEF SaveStopped
  <2>4. CASE SaveStopped(t) /\ t \notin whole /\ pc[t] \in {"payload", "failing"}
    BY <1>0, <2>4 DEF SaveStopped, Current, Busy
  <2> QED BY <1>5, <2>2, <2>3, <2>4
<1>6. CASE FollowUps(t)
  <2>1. Reads(t, t, {}, {}) /\ pc'[t] = "title"
    BY <1>6, <1>a DEF FollowUps
  <2> QED BY <1>0, <1>6, <2>1, ReadInTurn DEF FollowUps
<1>7. CASE Filter(t)
  <2>1. PICK m \in base[t] : Reads(t, m.of, Content, m.was \cup {"body", "note"})
    BY <1>7 DEF Filter
  <2>2. m.of \in Task /\ (m.was \cup {"body", "note"}) \cap Marks = {}
    BY <1>0, SeenType DEF Marks, Content
  <2>3. pc'[t] = "filtering" /\ UNCHANGED <<doc, row, whole, lost>> /\ ~ Busy(t)
    BY <1>0, <1>7 DEF Filter
  <2> QED BY <1>0, <2>1, <2>2, <2>3, ReadInTurn
<1>8. CASE Fail(t)
  <2>1. Reads(t, t, {}, {"error"}) /\ UNCHANGED <<doc, row, whole, lost>> /\ ~ Busy(t)
    BY <1>0, <1>8 DEF Fail
  <2> QED BY <1>0, <2>1, ReadInTurn
<1>9. CASE Stop(t)
  <2>0. /\ UNCHANGED <<doc, row, whole, lost>> /\ \A s \in Task \ {t} : pc'[s] = pc[s]
        /\ \A v \in Writer \ {t} : op'[v] = op[v]
    BY <1>0, <1>9, <1>a DEF Stop, TypeOK
  <2>00. NoneTaken'
    BY <1>0, <2>0 DEF NoneTaken
  <2>1. CASE pc'[t] = "stopped" /\ op' = [op EXCEPT ![t] = Due]
    <3>1. op'[t].pc = "due"
      BY <1>0, <2>1 DEF Due, At, TypeOK
    <3>2. \A s \in Others(t) : Level(s)
      <4>1. CASE Busy(t)
        BY <1>0, <4>1 DEF Current
      <4>2. CASE ~ Busy(t)
        BY <1>0, <2>0, <3>1, <4>2, FoundLevel DEF Busy, Others
      <4> QED BY <4>1, <4>2
    <3>3. Current(t)'
      BY <1>0, <2>0, <2>1, <3>1, <3>2 DEF Current, Busy, Level, Others
    <3> QED BY <1>0, <2>0, <2>00, <3>1, <3>3, Takes DEF Busy
  <2>2. CASE op' = [op EXCEPT ![t] = NoOp] /\ (pc[t] \in {"payload", "failing"} \/ t \in whole)
    <3>1. ~ Busy(t)'
      BY <1>0, <2>2 DEF Busy, NoOp, At, TypeOK
    <3>2. CASE Busy(t)
      <4>1. \A s \in Others(t) : Level(s)
        BY <1>0, <3>2 DEF Current
      <4>2. t \notin whole => Level(t)
        BY <1>0, <2>2, <3>2 DEF Current
      <4>3. \A s \in Task \ whole' : Level(s)'
        BY <2>0, <4>1, <4>2 DEF Level, Others
      <4> QED BY <1>0, <2>0, <2>00, <3>1, <3>2, <4>3, Leaves
    <3>3. CASE ~ Busy(t)
      BY <1>0, <2>0, <3>1, <3>3, Rests
    <3> QED BY <3>2, <3>3
  <2> QED BY <1>9, <1>a, <2>1, <2>2 DEF Stop
<1>10. CASE StopAgain(t)
  <2>1. /\ UNCHANGED <<doc, row, op, whole, lost>> /\ pc'[t] = "over"
        /\ \A s \in Task \ {t} : pc'[s] = pc[s]
    BY <1>10, <1>a DEF StopAgain
  <2>2. CASE Busy(t)
    <3>1. Current(t)'
      BY <1>0, <2>1 DEF Current, Busy, Level, Others
    <3>2. NoneTaken'
      BY <1>0, <2>1 DEF NoneTaken
    <3> QED BY <1>0, <2>1, <2>2, <3>1, <3>2, Takes DEF Busy
  <2>3. CASE ~ Busy(t)
    BY <1>0, <2>1, <2>3, Rests DEF Busy
  <2> QED BY <2>2, <2>3
<1>11. CASE Save(t)
  BY <1>0, <1>11, SaveInTurn
<1> QED BY <1>1, <1>2, <1>3, <1>4, <1>5, <1>6, <1>7, <1>8, <1>9, <1>10, <1>11 DEF Respond

LEMMA PostInTurn ==
    ASSUME TypeOK, InTurns, OneAtATime, OneAtATime', NEW e \in Event, Post(e)
    PROVE  InTurns'
<1>0. /\ e \in Writer /\ e \notin Task /\ Current(e) /\ NoneTaken /\ op[e] \in Write
      /\ (Free(e) => ~ Busy(e))
  BY DisjointWriters DEF Writer, InTurns, TypeOK, Free, Busy
<1>1. CASE Read(e)
  <2>1. /\ op'[e].pc = "due" /\ UNCHANGED <<doc, row, pc, whole, lost>> /\ ~ Busy(e)
        /\ \A v \in Writer \ {e} : op'[v] = op[v]
    BY <1>0, <1>1 DEF Read, Due, At, TypeOK
  <2>2. \A s \in Task \ whole : Level(s)
    BY <1>0, <2>1, FoundLevel DEF Busy
  <2>3. Current(e)' /\ NoneTaken'
    BY <1>0, <2>1, <2>2 DEF Current, Busy, Level, Others, NoneTaken
  <2> QED BY <1>0, <2>1, <2>3, Takes DEF Busy
<1>2. CASE Append(e)
  <2>1. PICK m \in base[e] : Reads(e, m.of, Content, m.was \cup {"body", "note"})
    BY <1>2 DEF Append
  <2>2. m.of \in Task /\ (m.was \cup {"body", "note"}) \cap Marks = {}
    BY <1>0, SeenType DEF Marks, Content
  <2> QED BY <1>0, <1>2, <2>1, <2>2, ReadInTurn DEF Append
<1>3. CASE Rewrite(e) \/ Attach(e)
  <2>1. PICK t \in Task : Reads(e, t, Content, {"body"}) \/ Reads(e, t, {}, {})
    BY <1>3 DEF Rewrite, Attach
  <2>2. UNCHANGED <<doc, row, whole, lost>> /\ ~ Busy(e)
    BY <1>0, <1>3 DEF Rewrite, Attach
  <2> QED BY <1>0, <2>1, <2>2, ReadInTurn DEF Marks
<1>4. CASE Save(e)
  BY <1>0, <1>4, SaveInTurn
<1> QED BY <1>1, <1>2, <1>3, <1>4 DEF Post

LEMMA StepInTurn ==
    ASSUME TypeOK, InTurns, OneAtATime, OneAtATime', [Next]_vars
    PROVE  InTurns'
<1>1. CASE Next
  BY <1>1, RespondInTurn, PostInTurn DEF Next
<1>2. CASE UNCHANGED vars
  <2>1. \A w \in Writer : Current(w)' <=> Current(w)
    BY <1>2 DEF vars, Current, Busy, Level, Others
  <2>2. (Calm' <=> Calm) /\ (NoneTaken' <=> NoneTaken)
    BY <1>2 DEF vars, Calm, Busy, Level, NoneTaken
  <2> QED BY <1>2, <2>1, <2>2 DEF vars, InTurns
<1> QED BY <1>1, <1>2

LEMMA InitInTurn == Init => InTurns
<1> SUFFICES ASSUME Init PROVE InTurns
  OBVIOUS
<1>1. \A w \in Writer : ~ Busy(w)
  BY DEF Init, Busy, NoOp, Absent, At
<1>2. \A t \in Task : Level(t)
  BY DEF Init, Level
<1>3. \A w \in Writer : Current(w)
  BY <1>1 DEF Current, Busy
<1> QED BY <1>2, <1>3 DEF Init, InTurns, Calm, NoneTaken

\* A response that is not of the cast never starts.
AbsentIdle == \A t \in Task : op[t].pc = "absent" => pc[t] = "idle"

LEMMA StepAbsent ==
    ASSUME TypeOK, AbsentIdle, [Next]_vars
    PROVE  AbsentIdle'
<1> SUFFICES ASSUME NEW t \in Task, op'[t].pc = "absent" PROVE pc'[t] = "idle"
  BY DEF AbsentIdle
<1>0. t \in Writer
  BY DEF Writer
<1>1. CASE UNCHANGED vars
  BY <1>1 DEF vars, AbsentIdle
<1>2. CASE Next
  <2>1. PICK w \in Writer : (w \in Task /\ Respond(w)) \/ (w \in Event /\ Post(w))
    BY <1>2 DEF Next, Writer
  <2>2. CASE Save(w)
    <3>1. pc' = pc /\ op[t].pc = "absent"
      BY <1>0, <2>2 DEF Save, WriteRow, WriteDoc, TypeOK, NoOp, At
    <3> QED BY <3>1 DEF AbsentIdle
  <2>3. CASE ~ Save(w) /\ w # t
    BY <1>0, <2>1, <2>3, OwnOnly DEF AbsentIdle
  <2>4. CASE ~ Save(w) /\ w = t
    <3>1. Respond(t)
      BY <2>1, <2>4, DisjointWriters
    <3>2. /\ \A c, clear, set : Reads(t, c, clear, set) => op'[t].pc = "row"
          /\ ReadsOnly(t) => op'[t].pc = "doc"
          /\ op' = [op EXCEPT ![t] = NoOp] \/ op' = [op EXCEPT ![t] = Due] => op'[t].pc # "absent"
      BY <1>0 DEF Reads, ReadsOnly, TypeOK, At, NoOp, Due
    <3>3. op' = op
      BY <2>4, <3>1, <3>2 DEF Respond, Place, Start, Status, Stream, Receive, Interim, SaveAnswer,
         FollowUps, Title, Outlet, Filter, Fail, Finish, Stop, StopAgain, SaveStopped, Finished
    <3>4. pc[t] = "idle"
      BY <3>3 DEF AbsentIdle
    <3> QED BY <2>4, <3>1, <3>3, <3>4 DEF Respond, Place, Start, Status, Stream, Receive, Interim,
         SaveAnswer, FollowUps, Title, Outlet, Filter, Fail, Finish, Stop, StopAgain, SaveStopped,
         Free, Trying
  <2> QED BY <2>2, <2>3, <2>4
<1> QED BY <1>1, <1>2

\* Section 4 of the README shows that a streamed response that ended can be
\* missing from the document or its row.  It is in both when the writes of a chat
\* take turns, for any number of responses and events and wherever they fail or
\* stop: for streamed responses a lock around each read and write of the document
\* would be enough.
THEOREM TurnsKeepAnswer == Spec /\ []OneAtATime => []AnswerKept
<1>1. InTurns /\ EndsComplete /\ AbsentIdle => AnswerKept
  BY DEF InTurns, NoneTaken, Marks, EndsComplete, AbsentIdle, AnswerKept, Answered, Has, Free,
         Writer, Quiet
<1>2. Init => AbsentIdle
  BY DEF Init, AbsentIdle
<1> QED BY InitInTurn, StepInTurn, StepAbsent, <1>1, <1>2, TypeCorrect, AlwaysComplete, PTL DEF Spec
-------------------------------------------------------------------------------
\* An appending event that is alone still has the content as it is, and writes it.
Appends(e) ==
    /\ op[e].pc = "due" => \A m \in base[e] : m.was = doc[m.of] \cap Content
    /\ op[e].pc \in {"row", "doc"} =>
          \A t \in Task : ("note" \in op[e].new[t] /\ op[e].of = {t} /\ "text" \in doc[t])
                             => "text" \in op[e].new[t]

AppendsInTurn == \A e \in Event : Appends(e)

LEMMA StepAppends ==
    ASSUME TypeOK, AppendsInTurn, OneAtATime, [Next]_vars
    PROVE  AppendsInTurn'
<1> SUFFICES ASSUME NEW e \in Event PROVE Appends(e)'
  BY DEF AppendsInTurn
<1>0. e \in Writer /\ e \notin Task /\ Appends(e)
  BY DisjointWriters DEF Writer, AppendsInTurn
<1>1. CASE UNCHANGED vars
  BY <1>0, <1>1 DEF vars, Appends
<1>2. CASE Next
  <2>1. PICK w \in Writer : (w \in Task /\ Respond(w)) \/ (w \in Event /\ Post(w))
    BY <1>2 DEF Next, Writer
  <2>2. CASE WriteDoc(w)
    <3>1. CASE w = e
      <4>1. op'[e].pc = "idle"
        BY <1>0, <2>2, <3>1 DEF WriteDoc, TypeOK, NoOp, At
      <4> QED BY <4>1 DEF Appends
    <3>2. CASE w # e
      <4>1. ~ Busy(e) /\ op'[e] = op[e]
        BY <1>0, <2>2, <3>2 DEF WriteDoc, TypeOK, OneAtATime, Busy
      <4> QED BY <4>1 DEF Appends, Busy
    <3> QED BY <3>1, <3>2
  <2>3. CASE WriteRow(w)
    <3>1. doc' = doc /\ base' = base
      BY <2>3 DEF WriteRow
    <3>2. CASE w = e
      <4>1. op[e].pc = "row" /\ op'[e].pc = "doc" /\ op'[e].of = op[e].of /\ op'[e].new = op[e].new
        BY <1>0, <2>3, <3>2 DEF WriteRow, TypeOK, At
      <4> QED BY <1>0, <3>1, <4>1 DEF Appends
    <3>3. CASE w # e
      <4>1. op'[e] = op[e]
        BY <1>0, <2>3, <3>3 DEF WriteRow, TypeOK
      <4> QED BY <1>0, <3>1, <4>1 DEF Appends
    <3> QED BY <3>2, <3>3
  <2>4. CASE ~ Save(w) /\ w # e
    <3>1. doc' = doc /\ op'[e] = op[e] /\ base'[e] = base[e]
      BY <1>0, <2>1, <2>4, OwnOnly
    <3> QED BY <1>0, <3>1 DEF Appends
  <2>5. CASE ~ Save(w) /\ w = e
    <3>1. Post(e) /\ ~ Save(e)
      BY <1>0, <2>1, <2>5
    <3>2. CASE Read(e)
      <4>1. PICK t \in Task : base'[e] = {[of |-> t, was |-> doc[t] \cap Content]}
        BY <1>0, <3>2 DEF Read, TypeOK
      <4>2. op'[e].pc = "due" /\ doc' = doc
        BY <1>0, <3>2 DEF Read, Due, At, TypeOK
      <4> QED BY <4>1, <4>2 DEF Appends
    <3>3. CASE Append(e)
      <4>1. PICK m \in base[e] : Reads(e, m.of, Content, m.was \cup {"body", "note"})
        BY <3>3 DEF Append
      <4>2. m.of \in Task
        BY <1>0, SeenType
      <4>3. /\ op'[e].pc = "row" /\ op'[e].of = {m.of} /\ doc' = doc
            /\ op'[e].new[m.of] = (doc[m.of] \ Content) \cup (m.was \cup {"body", "note"})
        BY <1>0, <3>3, <4>1, <4>2, OwnRead DEF Append
      <4>4. m.was = doc[m.of] \cap Content
        BY <1>0, <3>3 DEF Append, Appends
      <4> QED BY <4>3, <4>4 DEF Appends, Content
    <3>4. CASE Rewrite(e) \/ Attach(e)
      <4>1. PICK t \in Task, clear \in {Content, {}}, set \in {{}, {"body"}} :
                 /\ Reads(e, t, clear, set)
                 /\ (clear = Content /\ set = {"body"}) \/ (clear = {} /\ set = {})
        BY <3>4 DEF Rewrite, Attach
      <4>2. /\ op'[e].pc = "row" /\ op'[e].of = {t} /\ doc' = doc
            /\ op'[e].new[t] = (doc[t] \ clear) \cup set
        BY <1>0, <3>4, <4>1, OwnRead DEF Rewrite, Attach
      <4> QED BY <4>1, <4>2 DEF Appends, Content
    <3> QED BY <3>1, <3>2, <3>3, <3>4 DEF Post
  <2> QED BY <2>2, <2>3, <2>4, <2>5 DEF Save
<1> QED BY <1>1, <1>2

\* With turns, an event that appends to a finished answer leaves it there.
THEOREM TurnsKeepAppended == Spec /\ []OneAtATime => AppendKeepsAnswer
<1> DEFINE Keeps == \A e \in Event, t \in Task :
               (op[e].pc = "doc" /\ Free(e)' /\ "note" \in op[e].new[t] /\ op[e].of = {t} /\ "text" \in doc[t])
               => "text" \in doc'[t]
<1>1. ASSUME TypeOK, AppendsInTurn, [Next]_vars PROVE [Keeps]_vars
  <2> SUFFICES ASSUME Next, NEW e \in Event, NEW t \in Task, "note" \in op[e].new[t],
                      op[e].pc = "doc", Free(e)', op[e].of = {t}, "text" \in doc[t]
               PROVE  "text" \in doc'[t]
    BY <1>1
  <2>0. e \in Writer /\ e \notin Task /\ op'[e] # op[e]
    BY DisjointWriters DEF Writer, Free
  <2>1. PICK w \in Writer : (w \in Task /\ Respond(w)) \/ (w \in Event /\ Post(w))
    BY DEF Next, Writer
  <2>2. Save(w)
    <3>1. CASE ~ Save(w) /\ w # e
      BY <1>1, <2>0, <2>1, <3>1, OwnOnly
    <3>2. CASE ~ Save(w) /\ w = e
      BY <2>0, <2>1, <3>2 DEF Post, Read, Append, Rewrite, Attach, Free
    <3> QED BY <3>1, <3>2
  <2>3. WriteDoc(e)
    BY <1>1, <2>0, <2>2 DEF Save, WriteRow, WriteDoc, TypeOK
  <2>4. doc' = op[e].new
    BY <2>3 DEF WriteDoc
  <2> QED BY <1>1, <2>4 DEF AppendsInTurn, Appends
<1>2. Init => AppendsInTurn
  <2> SUFFICES ASSUME Init, NEW e \in Event PROVE Appends(e)
    BY DEF AppendsInTurn
  <2>1. op[e].pc \in {"idle", "absent"}
    BY DEF Init, NoOp, Absent, At, Writer
  <2> QED BY <2>1 DEF Appends
<1> QED BY <1>1, <1>2, StepAppends, TypeCorrect, PTL DEF Spec, AppendKeepsAnswer
===============================================================================
