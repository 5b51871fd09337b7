----------------------------- MODULE ChatActivity -----------------------------
(***************************************************************************)
(* The `chat:active` events of one chat (main.py, chat_completion and its   *)
(* process_chat).  A request starts one background task per model, each     *)
(* registered in Redis under the chat, then tells the clients active=true.  *)
(* Each task, in its `finally`, deregisters itself, asks whether the chat   *)
(* has tasks left, and if not tells the clients active=false.  The registry *)
(* is here its item set, each Redis pipeline being one step (TaskRegistry   *)
(* has its other steps).                                                    *)
(***************************************************************************)
CONSTANTS Request,   \* chat completion requests on the chat
          Model,     \* models
          Chosen,    \* Chosen[r]: the models of request r that have a message to answer
          NoModel    \* no model is being started

ASSUME NoModelAssumption == NoModel \notin Model
ASSUME ChosenAssumption == Chosen \in [Request -> (SUBSET Model) \ {{}}]

\* A task is one request's answer by one model.
Completion == {t \in Request \X Model : t[2] \in Chosen[t[1]]}

VARIABLES
    creator,     \* creator[r]: where the fan-out loop of request r is
    body,        \* body[t]: where process_chat of task t is
    known,       \* tasks whose request-side metadata holds their task_id
    blind,       \* tasks that copied their metadata before it held the id
    registered,  \* the Redis set of the chat's tasks
    finished,    \* tasks whose done callback has run
    active       \* the last chat:active event, "unset" before any

activityVars == <<creator, body, known, blind, registered, finished, active>>

CreatorPC == {"idle", "saving", "saved", "emit", "done"}
Creator == [pc: CreatorPC, cur: Model \cup {NoModel}, rest: SUBSET Model]
BodyPC == {"none", "running", "copied", "cleanup", "check", "emit", "over", "cut"}
Ended == {"over", "cut"}

ActivityInit ==
    /\ creator = [r \in Request |-> [pc |-> "idle", cur |-> NoModel, rest |-> Chosen[r]]]
    /\ body = [t \in Completion |-> "none"]
    /\ known = {}
    /\ blind = {}
    /\ registered = {}
    /\ finished = {}
    /\ active = "unset"
-------------------------------------------------------------------------------
\* create_task of the next model's process_chat, up to its await.
Start(r) ==
    \E m \in creator[r].rest :
        /\ creator' = [creator EXCEPT ![r] = [pc |-> "saving", cur |-> m,
                                              rest |-> @.rest \ {m}]]
        /\ body' = [body EXCEPT ![<<r, m>>] = "running"]

Begin(r) ==
    /\ creator[r].pc = "idle"
    /\ Start(r)
    /\ UNCHANGED <<known, blind, registered, finished, active>>

\* Redis executes the pipeline of redis_save_task.
Save(r) ==
    /\ creator[r].pc = "saving"
    /\ registered' = registered \cup {<<r, creator[r].cur>>}
    /\ creator' = [creator EXCEPT ![r].pc = "saved"]
    /\ UNCHANGED <<body, known, blind, finished, active>>

\* create_task returns: the id goes into the task's metadata, and the loop
\* goes on to the next model or to the event.
Return(r) ==
    /\ creator[r].pc = "saved"
    /\ known' = known \cup {<<r, creator[r].cur>>}
    /\ \/ creator[r].rest # {} /\ Start(r)
       \/ /\ creator[r].rest = {}
          /\ creator' = [creator EXCEPT ![r].pc = "emit"]
          /\ UNCHANGED body
    /\ UNCHANGED <<blind, registered, finished, active>>

EmitActive(r) ==
    /\ creator[r].pc = "emit"
    /\ active' = "true"
    /\ creator' = [creator EXCEPT ![r].pc = "done"]
    /\ UNCHANGED <<body, known, blind, registered, finished>>
-------------------------------------------------------------------------------
\* process_chat_payload replaces the metadata by a copy: what the creator
\* stores in the original later is not seen.
BodyCopies(t) ==
    /\ body[t] = "running"
    /\ body' = [body EXCEPT ![t] = "copied"]
    /\ blind' = IF t \in known THEN blind ELSE blind \cup {t}
    /\ UNCHANGED <<creator, known, registered, finished, active>>

\* Mutant of BodyEnds: the chat's tasks are counted before this one leaves.
BodyEndsCounting(t) ==
    /\ body[t] \in {"running", "copied"}
    /\ body' = [body EXCEPT ![t] = IF t \in known \ blind THEN "check" ELSE "over"]
    /\ UNCHANGED <<creator, known, blind, registered, finished, active>>

\* process_chat reaches its `finally`; without a task_id it just ends.
BodyEnds(t) ==
    /\ body[t] \in {"running", "copied"}
    /\ body' = [body EXCEPT ![t] = IF t \in known \ blind THEN "cleanup" ELSE "over"]
    /\ UNCHANGED <<creator, known, blind, registered, finished, active>>

BodyCleanup(t) ==
    /\ body[t] = "cleanup"
    /\ registered' = registered \ {t}
    /\ body' = [body EXCEPT ![t] = "check"]
    /\ UNCHANGED <<creator, known, blind, finished, active>>

\* has_active_tasks
BodyCheck(t) ==
    /\ body[t] = "check"
    /\ body' = [body EXCEPT ![t] = IF registered = {} THEN "emit" ELSE "over"]
    /\ UNCHANGED <<creator, known, blind, registered, finished, active>>

\* A stop cancels the task while its `finally` awaits Redis, or Redis fails: the
\* rest of the `finally` is skipped, although the command may have been carried
\* out.  (The emission is shielded from a stop, but may fail.)
CutShort(t) ==
    /\ body[t] \in {"cleanup", "check", "emit"}
    /\ registered' \in {registered, IF body[t] = "cleanup" THEN registered \ {t}
                                                          ELSE registered}
    /\ body' = [body EXCEPT ![t] = "cut"]
    /\ UNCHANGED <<creator, known, blind, finished, active>>

\* Mutant of EmitInactive: an event no client knows.
EmitIdle(t) ==
    /\ body[t] = "emit"
    /\ active' = "idle"
    /\ body' = [body EXCEPT ![t] = "over"]
    /\ UNCHANGED <<creator, known, blind, registered, finished>>

EmitInactive(t) ==
    /\ body[t] = "emit"
    /\ active' = "false"
    /\ body' = [body EXCEPT ![t] = "over"]
    /\ UNCHANGED <<creator, known, blind, registered, finished>>

\* The cleanup_task of the done callback.
DoneCleanup(t) ==
    /\ body[t] \in Ended /\ t \notin finished
    /\ registered' = registered \ {t}
    /\ finished' = finished \cup {t}
    /\ UNCHANGED <<creator, body, known, blind, active>>
-------------------------------------------------------------------------------
RequestStep(r) == Begin(r) \/ Save(r) \/ Return(r) \/ EmitActive(r)
BodyStep(t) == BodyCopies(t) \/ BodyEnds(t) \/ BodyCleanup(t) \/ BodyCheck(t)
               \/ EmitInactive(t) \/ DoneCleanup(t)

ActivityNext == \/ \E r \in Request : RequestStep(r)
                \/ \E t \in Completion : BodyStep(t) \/ CutShort(t)

ActivitySpec == ActivityInit /\ [][ActivityNext]_activityVars

\* Responses end, and the event loop runs what is ready; a request need not
\* be made, and nobody owes a stop or a failure.
ActivityFairSpec == ActivitySpec /\ \A t \in Completion : WF_activityVars(BodyStep(t))
-------------------------------------------------------------------------------
ActivityTypeOK ==
    /\ creator \in [Request -> Creator]
    /\ body \in [Completion -> BodyPC]
    /\ known \in SUBSET Completion
    /\ blind \in SUBSET Completion
    /\ registered \in SUBSET Completion
    /\ finished \in SUBSET Completion
    /\ active \in {"unset", "true", "false"}

Quiet == \A r \in Request : creator[r].pc \in {"idle", "done"}
Live == {t \in Completion : body[t] \in {"running", "copied"}}

\* Once the clients were told active=true while tasks run and the registry
\* holds just those, and each of them knows its id, the last of them to end
\* tells the clients active=false, unless another request on the chat begins or
\* a task is stopped, or loses Redis, in the middle of its `finally`.
ActiveIsCleared ==
    (Quiet /\ active = "true" /\ Live # {} /\ registered = Live /\ Live \cap blind = {})
    ~> (active = "false" \/ ~Quiet \/ \E t \in Completion : body[t] = "cut")
-------------------------------------------------------------------------------
(* Said of the code and not kept by it: see section 4 of the README.      *)

\* "Deregister this task, then emit chat:active=false if no others remain":
\* when every task is over, the clients were not left with active=true.
IdleIsInactive ==
    (Quiet /\ \A t \in Completion : body[t] \in {"none"} \cup Ended) => active # "true"

\* The same comment: active=false is not the last word while others remain.
InactiveIsIdle ==
    (Quiet /\ Live # {} /\ \A t \in Completion : body[t] \in {"none", "running", "copied"} \cup Ended)
    => active # "false"
===============================================================================
