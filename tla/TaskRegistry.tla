----------------------------- MODULE TaskRegistry -----------------------------
(***************************************************************************)
(* The registry of background tasks of backend/open_webui/tasks.py when a   *)
(* Redis server is configured, that is, in a deployment of several          *)
(* instances.  Each instance keeps a dictionary `tasks` of the asyncio      *)
(* tasks it runs.  Redis keeps a hash (task id -> item id) and one set of   *)
(* task ids per item (a chat or a document).  A stop request may be served  *)
(* by any instance: it is published on a channel every instance listens to. *)
(*                                                                          *)
(* Every `await` of a Redis call is a point where others run, so each Redis *)
(* command, or MULTI/EXEC pipeline, is one action.                          *)
(***************************************************************************)
CONSTANTS Node,     \* server instances
          Task,     \* task identifiers (uuid4, never reused)
          Item,     \* chats and documents tasks belong to
          NoItem,   \* the None that HGET returns for an unknown task
          NoNode,   \* the owner of a task that was never created
          Stopper   \* concurrent stop requests

ASSUME NoItemAssumption == NoItem \notin Item
ASSUME NoNodeAssumption == NoNode \notin Node

VARIABLES
    node,      \* node[n]: "down", "starting", "listening" or "deaf"
    inbox,     \* inbox[n]: stop commands delivered to n's listener
    state,     \* state[t]: life of the asyncio task
    owner,     \* owner[t]: the instance that runs t
    itemOf,    \* itemOf[t]: the `id` argument of create_task
    saving,    \* tasks whose creator is suspended in redis_save_task
    tasks,     \* tasks[n]: keys of n's dictionary `tasks`
    hash,      \* keys of the Redis hash :tasks
    itemSet,   \* itemSet[i]: the Redis set :tasks:item:<i>
    cleanup,   \* cleanup[t]: where cleanup_task(t) is
    request,   \* request[s]: where the stop request s is
    asked      \* history: tasks a stop was published for

vars == <<node, inbox, state, owner, itemOf, saving, tasks, hash, itemSet,
          cleanup, request, asked>>

NodeVars == <<node, inbox>>
TaskVars == <<owner, itemOf>>
RedisVars == <<hash, itemSet>>

TaskState == {"none", "running", "cancelling", "finishing", "aborting",
              "done", "lost"}
CleanupPC == {"idle", "pipe", "scard", "delete", "local", "finished"}
RequestPC == {"idle", "hget", "publish", "pipe", "scard", "delete"}

\* A stop request: the ids still to be stopped, the one being stopped and
\* the item id that was looked up for it.
Request == [pc: RequestPC, rest: SUBSET Task, cur: SUBSET Task,
            item: Item \cup {NoItem}]
IdleRequest == [pc |-> "idle", rest |-> {}, cur |-> {}, item |-> NoItem]

\* The request about to stop one of `ids`; the request r moved on to pc; what
\* stop_task returns to, that is, the next id or the end of the request.
StopAny(ids) == [pc |-> "hget", rest |-> ids, cur |-> {}, item |-> NoItem]
At(r, pc) == [pc |-> pc, rest |-> r.rest, cur |-> r.cur, item |-> r.item]
Resume(r) == IF r.rest = {} THEN IdleRequest ELSE StopAny(r.rest)

Init ==
    /\ node = [n \in Node |-> "starting"]
    /\ inbox = [n \in Node |-> {}]
    /\ state = [t \in Task |-> "none"]
    /\ owner = [t \in Task |-> NoNode]
    /\ itemOf = [t \in Task |-> NoItem]
    /\ saving = {}
    /\ tasks = [n \in Node |-> {}]
    /\ hash = {}
    /\ itemSet = [i \in Item |-> {}]
    /\ cleanup = [t \in Task |-> "idle"]
    /\ request = [s \in Stopper |-> IdleRequest]
    /\ asked = {}
-------------------------------------------------------------------------------
(* redis_save_task and redis_cleanup_task, command by command.             *)

\* The pipeline HSET + SADD of redis_save_task.
RedisSave(t, i) ==
    /\ hash' = hash \cup {t}
    /\ itemSet' = [j \in Item |-> IF j = i THEN itemSet[j] \cup {t}
                                           ELSE itemSet[j]]

\* Mutants of RedisCleanupPipe: the SREM is forgotten; the whole item goes.
HdelOnly(t, i) == hash' = hash \ {t} /\ UNCHANGED itemSet
HdelItem(t, i) ==
    /\ hash' = {u \in hash : u # t /\ (i = NoItem \/ itemOf[u] # i)}
    /\ itemSet' = [j \in Item |-> IF j = i THEN {} ELSE itemSet[j]]

\* The pipeline HDEL + SREM of redis_cleanup_task.
RedisCleanupPipe(t, i) ==
    /\ hash' = hash \ {t}
    /\ itemSet' = [j \in Item |-> IF j = i THEN itemSet[j] \ {t}
                                           ELSE itemSet[j]]

\* SCARD decides between the DELETE of the set and nothing more.
AfterScard(i, otherwise) == IF itemSet[i] = {} THEN "delete" ELSE otherwise

\* DELETE of the set key, whatever it holds by now.
RedisDelete(i) ==
    /\ itemSet' = [itemSet EXCEPT ![i] = {}]
    /\ UNCHANGED hash
-------------------------------------------------------------------------------
(* Creation and life of a task.                                            *)

\* create_task up to its await: the coroutine is scheduled and the local
\* dictionaries hold it before Redis does.  Every caller passes an id.
CreateTask(n, t, i) ==
    /\ node[n] # "down"
    /\ state[t] = "none"
    /\ state' = [state EXCEPT ![t] = "running"]
    /\ owner' = [owner EXCEPT ![t] = n]
    /\ itemOf' = [itemOf EXCEPT ![t] = i]
    /\ tasks' = [tasks EXCEPT ![n] = @ \cup {t}]
    /\ saving' = saving \cup {t}
    /\ UNCHANGED <<NodeVars, RedisVars, cleanup, request, asked>>

\* The await of redis_save_task at the end of create_task.
SaveTask(t) ==
    /\ t \in saving
    /\ RedisSave(t, itemOf[t])
    /\ saving' = saving \ {t}
    /\ UNCHANGED <<NodeVars, TaskVars, state, tasks, cleanup, request, asked>>

\* A chat task that knows its own id calls cleanup_task from its `finally`.
\* The id is stored in its metadata only after create_task has returned.
Deregister(t) ==
    /\ state[t] \in {"running", "cancelling"}
    /\ t \notin saving
    /\ state' = [state EXCEPT ![t] = "finishing"]
    /\ cleanup' = [cleanup EXCEPT ![t] = "pipe"]
    /\ UNCHANGED <<NodeVars, TaskVars, RedisVars, saving, tasks, request, asked>>

\* Mutant of Finish: no done callback was added.
FinishSilently(t) ==
    /\ \/ state[t] \in {"running", "cancelling", "aborting"}
       \/ state[t] = "finishing" /\ cleanup[t] = "idle"
    /\ state' = [state EXCEPT ![t] = "done"]
    /\ UNCHANGED <<NodeVars, TaskVars, RedisVars, saving, tasks, cleanup, request,
                   asked>>

\* The coroutine ends; the done callback schedules cleanup_task.
Finish(t) ==
    /\ \/ state[t] \in {"running", "cancelling", "aborting"}
       \/ state[t] = "finishing" /\ cleanup[t] = "idle"
    /\ state' = [state EXCEPT ![t] = "done"]
    /\ cleanup' = [cleanup EXCEPT ![t] = "pipe"]
    /\ UNCHANGED <<NodeVars, TaskVars, RedisVars, saving, tasks, request, asked>>
-------------------------------------------------------------------------------
(* cleanup_task, run by the task's own `finally` or by its done callback.  *)

Cleaning(t, pc) == /\ state[t] \in {"finishing", "done"}
                   /\ cleanup[t] = pc

CleanupPipe(t) ==
    /\ Cleaning(t, "pipe")
    /\ RedisCleanupPipe(t, itemOf[t])
    /\ cleanup' = [cleanup EXCEPT ![t] = "scard"]
    /\ UNCHANGED <<NodeVars, TaskVars, state, saving, tasks, request, asked>>

CleanupScard(t) ==
    /\ Cleaning(t, "scard")
    /\ cleanup' = [cleanup EXCEPT ![t] = AfterScard(itemOf[t], "local")]
    /\ UNCHANGED <<NodeVars, TaskVars, RedisVars, state, saving, tasks,
                   request, asked>>

CleanupDelete(t) ==
    /\ Cleaning(t, "delete")
    /\ RedisDelete(itemOf[t])
    /\ cleanup' = [cleanup EXCEPT ![t] = "local"]
    /\ UNCHANGED <<NodeVars, TaskVars, state, saving, tasks, request, asked>>

\* tasks.pop; a cleanup run by the `finally` is followed by the callback's.
CleanupLocal(t) ==
    /\ Cleaning(t, "local")
    /\ tasks' = [tasks EXCEPT ![owner[t]] = @ \ {t}]
    /\ cleanup' = [cleanup EXCEPT
                     ![t] = IF state[t] = "done" THEN "finished" ELSE "idle"]
    /\ UNCHANGED <<NodeVars, TaskVars, RedisVars, state, saving, request, asked>>
-------------------------------------------------------------------------------
(* Stop requests: stop_task and stop_item_tasks.                           *)

\* stop_item_tasks: the ids are a snapshot of the item's set (SMEMBERS).
StopItemTasks(s, i) ==
    /\ request[s].pc = "idle"
    /\ itemSet[i] # {}
    /\ request' = [request EXCEPT ![s] = StopAny(itemSet[i])]
    /\ UNCHANGED <<NodeVars, TaskVars, RedisVars, state, saving, tasks,
                   cleanup, asked>>

\* stop_task of an id its caller learnt from create_task or from a listing.
StopTask(s, t) ==
    /\ request[s].pc = "idle"
    /\ state[t] # "none" /\ t \notin saving
    /\ request' = [request EXCEPT ![s] = StopAny({t})]
    /\ UNCHANGED <<NodeVars, TaskVars, RedisVars, state, saving, tasks,
                   cleanup, asked>>

\* HGET of the item id; an id that is gone yields None.
StopLookup(s, t) ==
    /\ request[s].pc = "hget"
    /\ t \in request[s].rest
    /\ request' = [request EXCEPT
                     ![s] = [pc |-> "publish",
                             rest |-> request[s].rest \ {t},
                             cur |-> {t},
                             item |-> IF t \in hash THEN itemOf[t] ELSE NoItem]]
    /\ UNCHANGED <<NodeVars, TaskVars, RedisVars, state, saving, tasks,
                   cleanup, asked>>

\* PUBLISH reaches the listeners that are subscribed at that moment.
StopPublish(s) ==
    /\ request[s].pc = "publish"
    /\ inbox' = [n \in Node |-> IF node[n] = "listening"
                                THEN inbox[n] \cup request[s].cur
                                ELSE inbox[n]]
    /\ asked' = asked \cup request[s].cur
    /\ request' = [request EXCEPT ![s] = At(request[s], "pipe")]
    /\ UNCHANGED <<node, TaskVars, RedisVars, state, saving, tasks, cleanup>>

StopPipe(s, t) ==
    /\ request[s].pc = "pipe"
    /\ t \in request[s].cur
    /\ RedisCleanupPipe(t, request[s].item)
    /\ request' = [request EXCEPT
                     ![s] = IF request[s].item = NoItem
                            THEN Resume(request[s]) ELSE At(request[s], "scard")]
    /\ UNCHANGED <<NodeVars, TaskVars, state, saving, tasks, cleanup, asked>>

StopScard(s) ==
    /\ request[s].pc = "scard"
    /\ request' = [request EXCEPT
                     ![s] = IF AfterScard(request[s].item, "next") = "delete"
                            THEN At(request[s], "delete") ELSE Resume(request[s])]
    /\ UNCHANGED <<NodeVars, TaskVars, RedisVars, state, saving, tasks,
                   cleanup, asked>>

StopDelete(s) ==
    /\ request[s].pc = "delete"
    /\ RedisDelete(request[s].item)
    /\ request' = [request EXCEPT ![s] = Resume(request[s])]
    /\ UNCHANGED <<NodeVars, TaskVars, state, saving, tasks, cleanup, asked>>

\* A Redis error or the end of the serving instance leaves a stop half done.
StopAborts(s) ==
    /\ request[s].pc # "idle"
    /\ request' = [request EXCEPT ![s] = IdleRequest]
    /\ UNCHANGED <<NodeVars, TaskVars, RedisVars, state, saving, tasks,
                   cleanup, asked>>
-------------------------------------------------------------------------------
(* The listener of an instance, and its crashes.                           *)

\* pubsub.subscribe of the listener started by the application's lifespan.
Subscribe(n) ==
    /\ node[n] = "starting"
    /\ node' = [node EXCEPT ![n] = "listening"]
    /\ UNCHANGED <<inbox, TaskVars, RedisVars, state, saving, tasks, cleanup,
                   request, asked>>

\* Mutants of HandleCommand: every task of the instance is cancelled; the task
\* is cancelled only while Redis has it.
CancelAll(n, t) ==
    /\ node[n] = "listening"
    /\ t \in inbox[n]
    /\ inbox' = [inbox EXCEPT ![n] = @ \ {t}]
    /\ state' = [u \in Task |-> IF u \in tasks[n] /\ state[u] = "running"
                                THEN "cancelling" ELSE state[u]]
    /\ UNCHANGED <<node, TaskVars, RedisVars, saving, tasks, cleanup, request,
                   asked>>
CancelRegistered(n, t) ==
    /\ node[n] = "listening"
    /\ t \in inbox[n]
    /\ inbox' = [inbox EXCEPT ![n] = @ \ {t}]
    /\ state' = [state EXCEPT
                   ![t] = IF t \notin tasks[n] \cap hash THEN @
                          ELSE IF @ = "running" THEN "cancelling" ELSE @]
    /\ UNCHANGED <<node, TaskVars, RedisVars, saving, tasks, cleanup, request,
                   asked>>

\* One message: cancel the task if this instance has it.  Cancelling a task
\* that is in its `finally` aborts that cleanup; a done one ignores it.
HandleCommand(n, t) ==
    /\ node[n] = "listening"
    /\ t \in inbox[n]
    /\ inbox' = [inbox EXCEPT ![n] = @ \ {t}]
    /\ state' = [state EXCEPT
                   ![t] = IF t \notin tasks[n] THEN @
                          ELSE IF @ = "running" THEN "cancelling"
                          ELSE IF @ = "finishing" THEN "aborting" ELSE @]
    /\ UNCHANGED <<node, TaskVars, RedisVars, saving, tasks, cleanup, request,
                   asked>>

\* An error of the connection leaves `async for`, outside its try: the
\* listener ends and nothing starts it again.
ListenerFails(n) ==
    /\ node[n] \in {"starting", "listening"}
    /\ node' = [node EXCEPT ![n] = "deaf"]
    /\ inbox' = [inbox EXCEPT ![n] = {}]
    /\ UNCHANGED <<TaskVars, RedisVars, state, saving, tasks, cleanup, request,
                   asked>>

\* The process dies: its tasks and its memory are gone, Redis stays.
Crash(n) ==
    /\ node[n] # "down"
    /\ node' = [node EXCEPT ![n] = "down"]
    /\ inbox' = [inbox EXCEPT ![n] = {}]
    /\ tasks' = [tasks EXCEPT ![n] = {}]
    /\ saving' = {t \in saving : owner[t] # n}
    /\ state' = [t \in Task |-> IF owner[t] = n /\ cleanup[t] # "finished"
                                THEN "lost" ELSE state[t]]
    /\ UNCHANGED <<TaskVars, RedisVars, cleanup, request, asked>>

\* A new process of the same instance; nothing is read back or repaired.
Restart(n) ==
    /\ node[n] = "down"
    /\ node' = [node EXCEPT ![n] = "starting"]
    /\ UNCHANGED <<inbox, TaskVars, RedisVars, state, saving, tasks, cleanup,
                   request, asked>>
-------------------------------------------------------------------------------
CleanupStep(t) == CleanupPipe(t) \/ CleanupScard(t) \/ CleanupDelete(t)
                  \/ CleanupLocal(t)

TaskStep(t) == SaveTask(t) \/ Deregister(t) \/ Finish(t) \/ CleanupStep(t)

StopStep(s) ==
    \/ \E i \in Item : StopItemTasks(s, i)
    \/ \E t \in Task : StopTask(s, t) \/ StopLookup(s, t) \/ StopPipe(s, t)
    \/ StopPublish(s) \/ StopScard(s) \/ StopDelete(s) \/ StopAborts(s)

NodeStep(n) ==
    \/ \E t \in Task, i \in Item : CreateTask(n, t, i)
    \/ \E t \in Task : HandleCommand(n, t)
    \/ Subscribe(n) \/ ListenerFails(n) \/ Crash(n) \/ Restart(n)

Next == \/ \E t \in Task : TaskStep(t)
        \/ \E s \in Stopper : StopStep(s)
        \/ \E n \in Node : NodeStep(n)

Spec == Init /\ [][Next]_vars

\* The event loop of a live instance runs what is ready, and a coroutine that
\* was cancelled or is in its `finally` ends.  A running coroutine may run for
\* ever; requests, failures, crashes and restarts are never obliged to happen.
Fairness ==
    /\ \A t \in Task : /\ WF_vars(SaveTask(t))
                       /\ WF_vars(state[t] # "running" /\ Finish(t))
                       /\ WF_vars(CleanupStep(t))
    /\ \A n \in Node, t \in Task : WF_vars(HandleCommand(n, t))

FairSpec == Spec /\ Fairness
-------------------------------------------------------------------------------
TypeOK ==
    /\ node \in [Node -> {"down", "starting", "listening", "deaf"}]
    /\ inbox \in [Node -> SUBSET Task]
    /\ state \in [Task -> TaskState]
    /\ owner \in [Task -> Node \cup {NoNode}]
    /\ itemOf \in [Task -> Item \cup {NoItem}]
    /\ saving \in SUBSET Task
    /\ tasks \in [Node -> SUBSET Task]
    /\ hash \in SUBSET Task
    /\ itemSet \in [Item -> SUBSET Task]
    /\ cleanup \in [Task -> CleanupPC]
    /\ request \in [Stopper -> Request]
    /\ asked \in SUBSET Task

\* What an item's set lists is registered: hash and sets are written by
\* pipelines of different callers that look the item up at different times,
\* and no order of them leaves an id in a set that the hash has lost.
ListedAreRegistered == \A i \in Item : itemSet[i] \subseteq hash

\* A running task whose creation has returned and that nobody asked to stop
\* is in the hash, whatever other tasks, requests and instances do.
RunningRegistered ==
    \A t \in Task : state[t] = "running" /\ t \notin saving /\ t \notin asked
                    => t \in hash

\* A task that can still be cancelled is in its owner's dictionary, so the
\* listener finds it even when the command overtakes the creator's save.
CancellableIsLocal ==
    \A t \in Task : state[t] \in {"running", "cancelling"}
                    => owner[t] \in Node /\ t \in tasks[owner[t]]

\* Only tasks a stop was published for are ever cancelled.
OnlyAskedCancelled ==
    \A t \in Task : state[t] \in {"cancelling", "aborting"} => t \in asked

\* A task that is cancelled, or whose cleanup begins, while Redis has it is
\* eventually deregistered, unless its instance crashes.
RegisteredIsDeregistered ==
    \A t \in Task :
        (t \in hash /\ (state[t] = "cancelling" \/ cleanup[t] = "pipe"))
        ~> (t \notin hash \/ state[t] = "lost")

\* A stop command delivered to the owner of a task that would run for ever
\* ends that task, unless the listener fails first.
DeliveredStopTakesEffect ==
    \A t \in Task, n \in Node :
        (state[t] = "running" /\ owner[t] = n /\ t \in inbox[n])
        ~> (state[t] \in {"done", "lost"} \/ node[n] = "deaf")
-------------------------------------------------------------------------------
(* Said of the code and not kept by it: see section 4 of the README.      *)

\* list_tasks: "List all currently active task IDs."  A task that has ended
\* and was cleaned up is not listed any more.
ListTasksActive ==
    \A t \in Task : cleanup[t] = "finished" => t \notin hash

\* has_active_tasks: "Check if a chat has any active tasks."  A running task
\* that was saved and not asked to stop is in its chat's set.
HasActiveTasks ==
    \A t \in Task : /\ state[t] = "running" /\ t \notin saving
                    /\ t \notin asked /\ itemOf[t] # NoItem
                    => t \in itemSet[itemOf[t]]

\* stop_task: "All instances check if they have this task, and stop if so."
\* A published stop ends the task if its instance stays alive.
PublishedStopTakesEffect ==
    \A t \in Task : (state[t] = "running" /\ t \in asked)
                    ~> state[t] \in {"done", "lost"}
===============================================================================
