------------------------------ MODULE LocalTasks ------------------------------
(***************************************************************************)
(* The registry of background tasks of backend/open_webui/tasks.py without  *)
(* Redis: one process, the dictionaries `tasks` and `item_tasks`, and one   *)
(* event loop, so that code between two awaits that suspend is one action.  *)
(* What remains hard is that stop_item_tasks iterates the very list that    *)
(* the cleanup of the tasks it stops shrinks.                               *)
(***************************************************************************)
EXTENDS Naturals, Sequences, SequencesExt

CONSTANTS Task,      \* task identifiers, never reused
          Item,      \* chats and documents; every caller passes one
          ChatTask,  \* the tasks that deregister themselves in a `finally`
          Stopper,   \* concurrent calls of stop_item_tasks
          NoItem     \* the item of a task that was never created

ASSUME ChatTaskAssumption == ChatTask \subseteq Task
ASSUME NoItemAssumption == NoItem \notin Item

VARIABLES
    state,      \* state[t]: life of the asyncio task
    itemOf,     \* itemOf[t]: the `id` argument of create_task
    tasks,      \* keys of the dictionary `tasks`
    itemTasks,  \* itemTasks[i]: the list item_tasks[i], <<>> if there is none
    cleaned,    \* tasks whose done callback has run cleanup_task
    stop        \* stop[s]: where the call s of stop_item_tasks is

vars == <<state, itemOf, tasks, itemTasks, cleaned, stop>>

Over == {"done", "failed"}
TaskState == {"none", "running", "cancelling", "finishing"} \cup Over

\* A call awaits `cur`, the element at index `at` of the list it iterates;
\* `live` while that list is still the one item_tasks holds (a list that got
\* empty is dropped from the dictionary and stays empty).  `wanted` is what
\* the list held when the call began, `reply` what the call returned.
NoTasks == {}
Call == [item: Item \cup {NoItem}, at: Nat, live: BOOLEAN, cur: SUBSET Task,
         wanted: SUBSET Task,
         reply: {"idle", "awaiting", "stopped", "notfound", "raised"}]
Idle == [item |-> NoItem, at |-> 0, live |-> FALSE, cur |-> NoTasks,
         wanted |-> NoTasks, reply |-> "idle"]

Init ==
    /\ state = [t \in Task |-> "none"]
    /\ itemOf = [t \in Task |-> NoItem]
    /\ tasks = {}
    /\ itemTasks = [i \in Item |-> <<>>]
    /\ cleaned = {}
    /\ stop = [s \in Stopper |-> Idle]

Awaiting(s) == stop[s].reply = "awaiting"
-------------------------------------------------------------------------------
\* Mutant of Forget: the item's whole list is dropped.
ForgetItem(t) ==
    /\ tasks' = tasks \ {t}
    /\ itemTasks' = [itemTasks EXCEPT ![itemOf[t]] = <<>>]
    /\ stop' = [s \in Stopper |-> IF stop[s].item = itemOf[t]
                                  THEN [stop[s] EXCEPT !.live = FALSE] ELSE stop[s]]

\* cleanup_task without Redis: forget t, and the list of its item with it
\* when that gets empty.
Forget(t) ==
    LET i == itemOf[t]
        rest == RemoveFirst(itemTasks[i], t)
    IN /\ tasks' = tasks \ {t}
       /\ itemTasks' = [itemTasks EXCEPT ![i] = rest]
       /\ stop' = [s \in Stopper |->
                     IF rest = <<>> /\ stop[s].item = i
                     THEN [stop[s] EXCEPT !.live = FALSE] ELSE stop[s]]

\* Mutant of CreateTask: the item is appended instead of the task.
CreateTaskItem(t, i) ==
    /\ state[t] = "none"
    /\ state' = [state EXCEPT ![t] = "running"]
    /\ itemOf' = [itemOf EXCEPT ![t] = i]
    /\ tasks' = tasks \cup {t}
    /\ itemTasks' = [itemTasks EXCEPT ![i] = Append(@, i)]
    /\ UNCHANGED <<cleaned, stop>>

\* create_task: nothing suspends.
CreateTask(t, i) ==
    /\ state[t] = "none"
    /\ state' = [state EXCEPT ![t] = "running"]
    /\ itemOf' = [itemOf EXCEPT ![t] = i]
    /\ tasks' = tasks \cup {t}
    /\ itemTasks' = [itemTasks EXCEPT ![i] = Append(@, t)]
    /\ UNCHANGED <<cleaned, stop>>

\* The `finally` of a chat task, which then awaits the emission of an event.
Deregister(t) ==
    /\ t \in ChatTask
    /\ state[t] \in {"running", "cancelling"}
    /\ state' = [state EXCEPT ![t] = "finishing"]
    /\ Forget(t)
    /\ UNCHANGED <<itemOf, cleaned>>

\* The coroutine returns, is cancelled ("done") or raises ("failed").  A chat
\* task that is cancelled before its first step never enters its `try`.
Finish(t) ==
    /\ \/ state[t] = "running" /\ t \notin ChatTask
       \/ state[t] \in {"cancelling", "finishing"}
    /\ \E outcome \in Over : state' = [state EXCEPT ![t] = outcome]
    /\ UNCHANGED <<itemOf, tasks, itemTasks, cleaned, stop>>

\* The cleanup the done callback schedules.  Whoever awaits the task was put
\* in the loop's queue by the same completion, ahead of that cleanup.
Cleanup(t) ==
    /\ state[t] \in Over /\ t \notin cleaned
    /\ \A s \in Stopper : ~(Awaiting(s) /\ t \in stop[s].cur)
    /\ Forget(t)
    /\ cleaned' = cleaned \cup {t}
    /\ UNCHANGED <<state, itemOf>>
-------------------------------------------------------------------------------
\* Mutant of Turn: the task is awaited but never cancelled.
TurnNoCancel(s, call) ==
    LET list == IF call.live THEN itemTasks[call.item] ELSE <<>>
    IN /\ IF call.at > Len(list)
          THEN stop' = [stop EXCEPT ![s] = [call EXCEPT !.reply = "stopped", !.cur = {}]]
          ELSE stop' = [stop EXCEPT ![s] = [call EXCEPT !.reply = "awaiting",
                                                        !.cur = {list[call.at]}]]
       /\ UNCHANGED <<tasks, state>>

\* One turn of the loop of stop_item_tasks, up to the await of stop_task or
\* to the return.  The list is read now, at the iterator's position.
Turn(s, call) ==
    LET list == IF call.live THEN itemTasks[call.item] ELSE <<>>
        exhausted == call.at > Len(list)
        t == list[call.at]
    IN \/ /\ exhausted
          /\ stop' = [stop EXCEPT
                        ![s] = [call EXCEPT !.reply = "stopped", !.cur = NoTasks]]
          /\ UNCHANGED <<tasks, state>>
       \/ /\ ~exhausted /\ t \notin tasks
          /\ stop' = [stop EXCEPT
                        ![s] = [call EXCEPT !.reply = "notfound", !.cur = NoTasks]]
          /\ UNCHANGED <<tasks, state>>
       \/ /\ ~exhausted /\ t \in tasks
          /\ stop' = [stop EXCEPT
                        ![s] = [call EXCEPT !.reply = "awaiting", !.cur = {t}]]
          /\ tasks' = tasks \ {t}
          /\ state' = [state EXCEPT
                         ![t] = IF @ = "running" THEN "cancelling" ELSE @]

\* stop_item_tasks is called on an item that has tasks.
StopItemTasks(s, i) ==
    /\ ~Awaiting(s)
    /\ itemTasks[i] # <<>>
    /\ Turn(s, [Idle EXCEPT !.item = i, !.at = 1, !.live = TRUE,
                            !.wanted = ToSet(itemTasks[i])])
    /\ UNCHANGED <<itemOf, itemTasks, cleaned>>

\* The awaited task is over: go on with the next element.
StopNext(s) ==
    /\ Awaiting(s)
    /\ \A t \in stop[s].cur : state[t] = "done"
    /\ Turn(s, [stop[s] EXCEPT !.at = @ + 1])
    /\ UNCHANGED <<itemOf, itemTasks, cleaned>>

\* The awaited task raised: `await task` raises it out of the call.
StopRaises(s) ==
    /\ Awaiting(s)
    /\ \A t \in stop[s].cur : state[t] = "failed"
    /\ stop' = [stop EXCEPT ![s].reply = "raised", ![s].cur = NoTasks]
    /\ UNCHANGED <<state, itemOf, tasks, itemTasks, cleaned>>
-------------------------------------------------------------------------------
Next ==
    \/ \E t \in Task : \/ \E i \in Item : CreateTask(t, i)
                       \/ Deregister(t) \/ Finish(t) \/ Cleanup(t)
    \/ \E s \in Stopper : \/ \E i \in Item : StopItemTasks(s, i)
                          \/ StopNext(s) \/ StopRaises(s)

Spec == Init /\ [][Next]_vars

\* The loop runs what is ready; only a cancelled coroutine has to end.
FairSpec ==
    /\ Spec
    /\ \A t \in Task : /\ WF_vars(state[t] # "running" /\ (Deregister(t) \/ Finish(t)))
                       /\ WF_vars(Cleanup(t))
    /\ \A s \in Stopper : WF_vars(StopNext(s)) /\ WF_vars(StopRaises(s))
-------------------------------------------------------------------------------
TypeOK ==
    /\ state \in [Task -> TaskState]
    /\ itemOf \in [Task -> Item \cup {NoItem}]
    /\ tasks \in SUBSET Task
    /\ itemTasks \in [Item -> Seq(Task)]
    /\ cleaned \in SUBSET Task
    /\ stop \in [Stopper -> Call]

\* has_active_tasks is right without Redis: a task that has not reached its
\* own cleanup is listed, exactly once, under its item and under no other, and
\* can be stopped until it is; one that was cleaned up is in neither dictionary.
ActiveIsListed ==
    \A t \in Task, i \in Item :
        LET places == {k \in 1..Len(itemTasks[i]) : itemTasks[i][k] = t}
        IN /\ state[t] \in {"running", "cancelling"} /\ itemOf[t] = i =>
                 \E k \in places : places = {k}
           /\ state[t] = "running" => t \in tasks
           /\ itemOf[t] # i \/ t \in cleaned => places = {}
           /\ t \in cleaned => t \notin tasks

\* Every call returns: its await is of a task that was cancelled.
StopReturns == \A s \in Stopper : Awaiting(s) ~> ~Awaiting(s)
-------------------------------------------------------------------------------
(* Said of the code and not kept by it: see section 4 of the README.      *)

\* stop_item_tasks: "Stop all tasks associated with a specific item ID."  When
\* it answers "All tasks for item ... stopped", no task the item had when the
\* call began is running.
AllStopped ==
    \A s \in Stopper : stop[s].reply = "stopped"
                       => \A t \in stop[s].wanted : state[t] # "running"
===============================================================================
