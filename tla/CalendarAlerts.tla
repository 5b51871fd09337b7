---------------------------- MODULE CalendarAlerts ----------------------------
(***************************************************************************)
(* _check_calendar_alerts (utils/automations.py), run by the scheduler of   *)
(* every instance: it reads the upcoming events once (models/calendar.py),  *)
(* and for each that was not alerted when read, emits an alert and then     *)
(* marks the event.  Users meanwhile edit, cancel and delete events         *)
(* (routers/calendar.py).  The mark and the edits go through                *)
(* update_event_by_id, which loads the row, merges the form into it and     *)
(* writes the columns that changed; the mark lives in the column of the     *)
(* alert window, meta.                                                      *)
(***************************************************************************)
EXTENDS Instances, Integers, FiniteSets, SequencesExt

CONSTANTS Event, User,
          Window,     \* the alert windows users choose; below 0 is no alert
          MaxClock,    \* bound on the clock and the starts
          MaxEdits,   \* bound on the number of edits
          MaxFaults   \* bound on the number of crashes and failures

ASSUME AlertBounds ==
    /\ MaxClock \in Nat /\ MaxEdits \in Nat /\ MaxFaults \in Nat
    /\ Window \subseteq -1..MaxClock

VARIABLES
    clock,
    event,    \* event[e]: its row
    check,    \* check[i]: the check of instance i
    edit,     \* edit[u]: the update of user u, between load and commit
    alerts,   \* alerts[e]: the start in each alert emitted for event e
    edits,
    faults    \* crashes and failures so far

alertVars == <<clock, event, check, edit, alerts, edits, faults>>

Clock == 0..MaxClock
Meta == [alerted: BOOLEAN, window: Window]
EventRow == [status: {"planned", "cancelled", "deleted"}, start: Clock, meta: Meta]

\* read: what the query returned, but for the skipped, and is still to handle;
\* hand: the event being marked; meta: the column as loaded for the mark.
Read == [id: Event, row: EventRow]
Check == [pc: {"sleep", "loop", "load", "commit"}, read: SUBSET Read,
          hand: SUBSET Read, meta: SUBSET Meta]
Asleep == [pc |-> "sleep", read |-> {}, hand |-> {}, meta |-> {}]

\* An update between load and commit: the row loaded and the row to write.
Edit == [id: SUBSET Event, old: SUBSET EventRow, new: SUBSET EventRow]
NoEdit == [id |-> {}, old |-> {}, new |-> {}]

AlertInit ==
    /\ clock = 0
    /\ event \in [Event -> [status: {"planned"}, start: Clock,
                            meta: [alerted: {FALSE}, window: Window]]]
    /\ check = [i \in Instance |-> Asleep]
    /\ edit = [u \in User |-> NoEdit]
    /\ alerts = [e \in Event |-> <<>>]
    /\ edits = 0 /\ faults = 0

\* get_upcoming_events; a start in the past is not looked back for.
Upcoming(e) == /\ event[e].status = "planned"
               /\ clock <= event[e].start
               /\ event[e].meta.window >= 0
               /\ event[e].start <= clock + event[e].meta.window

\* Mutant of FlushEvent: a commit writes the whole row.
FlushAllColumns(current, old, new) == new

\* What a commit leaves in a row: the columns changed since it was loaded.
FlushEvent(current, old, new) ==
    [status |-> IF new.status # old.status THEN new.status ELSE current.status,
     start |-> IF new.start # old.start THEN new.start ELSE current.start,
     meta |-> IF new.meta # old.meta THEN new.meta ELSE current.meta]
-------------------------------------------------------------------------------
\* What the loop does not skip.
Unalerted(e) == Upcoming(e) /\ ~event[e].meta.alerted

\* Mutant of Poll: an event alerted before ends the loop instead of its turn.
PollBreaks(i) ==
    /\ check[i].pc = "sleep"
    /\ \E e \in Event : Unalerted(e)
    /\ \A e \in Event : Upcoming(e) => Unalerted(e)
    /\ check' = [check EXCEPT ![i].pc = "loop",
                              ![i].read = {[id |-> e, row |-> event[e]] :
                                             e \in {d \in Event : Unalerted(d)}}]
    /\ UNCHANGED <<clock, event, edit, alerts, edits, faults>>

\* The query; events that were alerted when it ran are skipped without an await.
Poll(i) ==
    /\ check[i].pc = "sleep"
    /\ \E e \in Event : Unalerted(e)
    /\ check' = [check EXCEPT ![i].pc = "loop",
                              ![i].read = {[id |-> e, row |-> event[e]] :
                                             e \in {d \in Event : Unalerted(d)}}]
    /\ UNCHANGED <<clock, event, edit, alerts, edits, faults>>

\* Mutant of After: the check never ends.
AfterLoops(i, r) == [pc |-> "loop", read |-> check[i].read \ {r}, hand |-> {}, meta |-> {}]

\* What is left of the check once r has been handled.
After(i, r) == IF check[i].read = {r} THEN Asleep
               ELSE [pc |-> "loop", read |-> check[i].read \ {r}, hand |-> {}, meta |-> {}]

\* The alert goes out, whatever has become of the event since the query.
Emit(i) ==
    /\ check[i].pc = "loop"
    /\ \E r \in check[i].read :
          /\ alerts' = [alerts EXCEPT ![r.id] = Append(@, r.row.start)]
          /\ check' = [check EXCEPT ![i].pc = "load", ![i].hand = {r}]
    /\ UNCHANGED <<clock, event, edit, edits, faults>>

\* Back from the mark to the loop (the webhook changes no state).
Handled(i) == \E r \in check[i].hand : check' = [check EXCEPT ![i] = After(i, r)]

\* The mark's load; a deleted event is not marked.
MarkLoad(i) ==
    /\ check[i].pc = "load"
    /\ \E r \in check[i].hand :
          IF event[r.id].status = "deleted" THEN Handled(i)
          ELSE check' = [check EXCEPT ![i].pc = "commit", ![i].meta = {event[r.id].meta}]
    /\ UNCHANGED <<clock, event, edit, alerts, edits, faults>>

\* Mutant of Marked: alerted_at goes elsewhere.
MarkedNot(meta) == meta

Marked(meta) == [meta EXCEPT !.alerted = TRUE]

\* The mark's commit; the failure on a deleted row is caught.  alerted_at is
\* new each time, so the column is always written.
MarkCommit(i) ==
    /\ check[i].pc = "commit"
    /\ \E r \in check[i].hand, meta \in check[i].meta :
          event' = IF event[r.id].status = "deleted" THEN event
                   ELSE [event EXCEPT ![r.id].meta = Marked(meta)]
    /\ Handled(i)
    /\ UNCHANGED <<clock, edit, alerts, edits, faults>>

\* The load or the commit of the mark fails, on a row that is there: the
\* exception is logged and dropped.
MarkFails(i) ==
    /\ faults < MaxFaults /\ check[i].pc \in {"load", "commit"}
    /\ faults' = faults + 1
    /\ Handled(i)
    /\ UNCHANGED <<clock, event, edit, alerts, edits>>

\* An instance dies and is started again; an emission that raises ends the
\* check just so.
CheckCrash(i) ==
    /\ faults < MaxFaults /\ check[i].pc # "sleep"
    /\ faults' = faults + 1
    /\ check' = [check EXCEPT ![i] = Asleep]
    /\ UNCHANGED <<clock, event, edit, alerts, edits>>
-------------------------------------------------------------------------------
\* update_event up to the row's load.  The form carries the start, the window
\* and perhaps the cancellation; the window is merged into the meta loaded.
EditLoad(u) ==
    /\ edit[u] = NoEdit /\ edits < MaxEdits
    /\ edits' = edits + 1
    /\ \E e \in Event, s \in {"planned", "cancelled"}, t \in Clock, w \in Window :
          /\ event[e].status # "deleted"
          /\ edit' = [edit EXCEPT ![u] =
               [id |-> {e}, old |-> {event[e]},
                new |-> {[status |-> s, start |-> t,
                          meta |-> [event[e].meta EXCEPT !.window = w]]}]]
    /\ UNCHANGED <<clock, event, check, alerts, faults>>

EditCommit(u) ==
    /\ \E e \in edit[u].id, old \in edit[u].old, new \in edit[u].new :
          event' = IF event[e].status = "deleted" THEN event
                   ELSE [event EXCEPT ![e] = FlushEvent(@, old, new)]
    /\ edit' = [edit EXCEPT ![u] = NoEdit]
    /\ UNCHANGED <<clock, check, alerts, edits, faults>>

DeleteEvent(u) ==
    /\ edit[u] = NoEdit
    /\ \E e \in Event : /\ event[e].status # "deleted"
                        /\ event' = [event EXCEPT ![e].status = "deleted"]
    /\ UNCHANGED <<clock, check, edit, alerts, edits, faults>>

ClockTick ==
    /\ clock < MaxClock
    /\ clock' = clock + 1
    /\ UNCHANGED <<event, check, edit, alerts, edits, faults>>
-------------------------------------------------------------------------------
CheckStep(i) == Poll(i) \/ Emit(i) \/ MarkLoad(i) \/ MarkCommit(i)

AlertNext == \/ \E i \in Instance : CheckStep(i) \/ MarkFails(i) \/ CheckCrash(i)
        \/ \E u \in User : EditLoad(u) \/ EditCommit(u) \/ DeleteEvent(u)
        \/ ClockTick

AlertSpec == AlertInit /\ [][AlertNext]_alertVars

\* The scheduler polls for ever, and an instance that dies is started again;
\* nobody owes a failure.
AlertFairSpec == AlertSpec /\ \A i \in Instance : WF_alertVars(CheckStep(i))
-------------------------------------------------------------------------------
AlertTypeOK ==
    /\ clock \in Clock
    /\ event \in [Event -> EventRow]
    /\ check \in [Instance -> Check]
    /\ \A i \in Instance : /\ check[i].hand \subseteq check[i].read
                           /\ check[i].pc = "sleep" <=> check[i].read = {}
    /\ edit \in [User -> Edit]
    /\ alerts \in [Event -> Seq(Clock)]
    /\ edits \in 0..MaxEdits /\ faults \in 0..MaxFaults

\* With a window nobody changes: each instance alerts an event at most once,
\* since the mark that follows its alert outlives every edit and every mark of
\* another, and once more only for each mark that was not made, because the
\* instance crashed or the mark failed.
RepeatsOnlyIfUnmarked ==
    \A e \in Event : Len(alerts[e]) <= Cardinality(Instance) + faults

\* An event that waits for its alert gets it, or ceases to be upcoming: others
\* that were alerted before, or cannot be marked, do not hold it up, nor does
\* an emission that fails.
UpcomingIsAlerted == \A e \in Event : Unalerted(e) ~> ~Unalerted(e)

--------------------------------------------------------------------------------
(* Said of the code and not kept by it: see section 4 of the README.      *)

\* "De-duplication is DB-backed via meta.alerted_at [...] and works across
\* multiple instances": an event is alerted once for each start it has.
AlertedOnce == \A e \in Event : IsInjective(alerts[e])

\* "Skip if already alerted for this start time": an event that is skipped has
\* been alerted for the start it now has.
SkippedWasAlerted ==
    \A e \in Event :
        Upcoming(e) /\ event[e].meta.alerted => Contains(alerts[e], event[e].start)
===============================================================================
