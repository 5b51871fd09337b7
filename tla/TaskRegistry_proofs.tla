-------------------------- MODULE TaskRegistry_proofs --------------------------
(***************************************************************************)
(* Proofs about TaskRegistry: type correctness and its safety invariants,   *)
(* for any number of instances, tasks, items and stop requests.             *)
(***************************************************************************)
EXTENDS TaskRegistry, TLAPS

\* A task is in Redis only after its creation's save, which happens once.
SavedOnce == \A t \in Task : /\ state[t] = "none" => t \notin hash /\ t \notin saving
                             /\ t \in saving => t \notin hash

\* An item's set holds only tasks of that item.
SetsHoldTheirs == \A i \in Item : \A t \in itemSet[i] : itemOf[t] = i

\* What a stop request knows of its tasks: they were saved; it looked up the
\* task's own item, or found none because the hash had lost the task for good;
\* and it published the stop before it touches Redis.
RequestsKnow ==
    \A s \in Stopper :
        /\ \A t \in request[s].rest : state[t] # "none" /\ t \notin saving
        /\ \A t \in request[s].cur :
              /\ state[t] # "none" /\ t \notin saving
              /\ request[s].item = itemOf[t]
                 \/ (request[s].item = NoItem /\ t \notin hash)
              /\ request[s].pc \in {"pipe", "scard", "delete"} => t \in asked

FinishedIsDone == \A t \in Task : cleanup[t] = "finished" => state[t] = "done"

InboxIsAsked == \A n \in Node : inbox[n] \subseteq asked

\* The inductive invariant.
IInv == /\ TypeOK /\ SavedOnce /\ SetsHoldTheirs /\ RequestsKnow
        /\ FinishedIsDone /\ InboxIsAsked
        /\ ListedAreRegistered /\ RunningRegistered
        /\ CancellableIsLocal /\ OnlyAskedCancelled

USE NoItemAssumption, NoNodeAssumption
    DEF NodeVars, TaskVars, RedisVars, TaskState, CleanupPC, RequestPC, Request,
        IdleRequest, StopAny, At, Resume, AfterScard

LEMMA TypeInit == Init => TypeOK
BY DEF Init, TypeOK

LEMMA TypeStep == TypeOK /\ [Next]_vars => TypeOK'
<1> SUFFICES ASSUME TypeOK, [Next]_vars PROVE TypeOK'
    OBVIOUS
<1> USE DEF TypeOK
<1>1. ASSUME NEW t \in Task, SaveTask(t)
     PROVE  TypeOK'
  BY <1>1 DEF SaveTask, RedisSave
<1>2. ASSUME NEW t \in Task, Deregister(t)
     PROVE  TypeOK'
  BY <1>2 DEF Deregister
<1>3. ASSUME NEW t \in Task, Finish(t)
     PROVE  TypeOK'
  BY <1>3 DEF Finish
<1>4. ASSUME NEW t \in Task, CleanupPipe(t)
     PROVE  TypeOK'
  BY <1>4 DEF CleanupPipe, Cleaning, RedisCleanupPipe
<1>5. ASSUME NEW t \in Task, CleanupScard(t)
     PROVE  TypeOK'
  BY <1>5 DEF CleanupScard, Cleaning
<1>6. ASSUME NEW t \in Task, CleanupDelete(t)
     PROVE  TypeOK'
  BY <1>6 DEF CleanupDelete, Cleaning, RedisDelete
<1>7. ASSUME NEW t \in Task, CleanupLocal(t)
     PROVE  TypeOK'
  BY <1>7 DEF CleanupLocal, Cleaning
<1>8. ASSUME NEW s \in Stopper, NEW i \in Item,
             StopItemTasks(s, i)
     PROVE  TypeOK'
  BY <1>8 DEF StopItemTasks
<1>9. ASSUME NEW s \in Stopper, NEW t \in Task,
             StopTask(s, t)
     PROVE  TypeOK'
  BY <1>9 DEF StopTask
<1>10. ASSUME NEW s \in Stopper, NEW t \in Task,
             StopLookup(s, t)
     PROVE  TypeOK'
  BY <1>10 DEF StopLookup
<1>11. ASSUME NEW s \in Stopper, StopPublish(s)
     PROVE  TypeOK'
  BY <1>11 DEF StopPublish
<1>12. ASSUME NEW s \in Stopper, NEW t \in Task,
             StopPipe(s, t)
     PROVE  TypeOK'
  BY <1>12 DEF StopPipe, RedisCleanupPipe
<1>13. ASSUME NEW s \in Stopper, StopScard(s)
     PROVE  TypeOK'
  BY <1>13 DEF StopScard
<1>14. ASSUME NEW s \in Stopper, StopDelete(s)
     PROVE  TypeOK'
  BY <1>14 DEF StopDelete, RedisDelete
<1>15. ASSUME NEW s \in Stopper, StopAborts(s)
     PROVE  TypeOK'
  BY <1>15 DEF StopAborts
<1>16. ASSUME NEW n \in Node, NEW t \in Task, NEW i \in Item,
             CreateTask(n, t, i)
     PROVE  TypeOK'
  BY <1>16 DEF CreateTask
<1>17. ASSUME NEW n \in Node, NEW t \in Task,
             HandleCommand(n, t)
     PROVE  TypeOK'
  BY <1>17 DEF HandleCommand
<1>18. ASSUME NEW n \in Node, Subscribe(n)
     PROVE  TypeOK'
  BY <1>18 DEF Subscribe
<1>19. ASSUME NEW n \in Node, ListenerFails(n)
     PROVE  TypeOK'
  BY <1>19 DEF ListenerFails
<1>20. ASSUME NEW n \in Node, Crash(n)
     PROVE  TypeOK'
  BY <1>20 DEF Crash
<1>21. ASSUME NEW n \in Node, Restart(n)
     PROVE  TypeOK'
  BY <1>21 DEF Restart
<1>22. ASSUME UNCHANGED vars PROVE TypeOK'
  BY <1>22 DEF vars
<1> QED
  BY <1>1, <1>2, <1>3, <1>4, <1>5, <1>6, <1>7, <1>8, <1>9, <1>10, <1>11,
     <1>12, <1>13, <1>14, <1>15, <1>16, <1>17, <1>18, <1>19, <1>20, <1>21, <1>22
  DEF Next, TaskStep, StopStep, NodeStep, CleanupStep

LEMMA InvInit == Init => IInv
<1> SUFFICES ASSUME Init PROVE IInv
    OBVIOUS
<1>1. TypeOK
  BY SMTT(30), TypeInit
<1> QED
  BY <1>1 DEF Init, IInv, SavedOnce, SetsHoldTheirs, RequestsKnow,
         FinishedIsDone, InboxIsAsked, ListedAreRegistered, RunningRegistered,
         CancellableIsLocal, OnlyAskedCancelled

LEMMA InvStep == IInv /\ [Next]_vars => IInv'
<1> SUFFICES ASSUME IInv, [Next]_vars PROVE IInv'
    OBVIOUS
<1> TypeOK /\ TypeOK'
  BY TypeStep DEF IInv
<1> DEFINE Rest == SavedOnce /\ SetsHoldTheirs /\ RequestsKnow
                   /\ FinishedIsDone /\ InboxIsAsked
                   /\ ListedAreRegistered /\ RunningRegistered
                   /\ CancellableIsLocal /\ OnlyAskedCancelled
<1> SUFFICES Rest'
  BY DEF IInv
<1> USE DEF TypeOK, IInv, SavedOnce, SetsHoldTheirs, RequestsKnow,
            FinishedIsDone, InboxIsAsked, ListedAreRegistered, RunningRegistered,
            CancellableIsLocal, OnlyAskedCancelled
<1>1. ASSUME NEW t \in Task, SaveTask(t)
     PROVE  Rest'
  BY <1>1 DEF SaveTask, RedisSave
<1>2. ASSUME NEW t \in Task, Deregister(t)
     PROVE  Rest'
  BY <1>2 DEF Deregister
<1>3. ASSUME NEW t \in Task, Finish(t)
     PROVE  Rest'
  BY <1>3 DEF Finish
<1>4. ASSUME NEW t \in Task, CleanupPipe(t)
     PROVE  Rest'
  BY <1>4 DEF CleanupPipe, Cleaning, RedisCleanupPipe
<1>5. ASSUME NEW t \in Task, CleanupScard(t)
     PROVE  Rest'
  BY <1>5 DEF CleanupScard, Cleaning
<1>6. ASSUME NEW t \in Task, CleanupDelete(t)
     PROVE  Rest'
  BY <1>6 DEF CleanupDelete, Cleaning, RedisDelete
<1>7. ASSUME NEW t \in Task, CleanupLocal(t)
     PROVE  Rest'
  BY <1>7 DEF CleanupLocal, Cleaning
<1>8. ASSUME NEW s \in Stopper, NEW i \in Item,
             StopItemTasks(s, i)
     PROVE  Rest'
  BY <1>8 DEF StopItemTasks
<1>9. ASSUME NEW s \in Stopper, NEW t \in Task,
             StopTask(s, t)
     PROVE  Rest'
  BY <1>9 DEF StopTask
<1>10. ASSUME NEW s \in Stopper, NEW t \in Task,
             StopLookup(s, t)
     PROVE  Rest'
  BY <1>10 DEF StopLookup
<1>11. ASSUME NEW s \in Stopper, StopPublish(s)
     PROVE  Rest'
  BY <1>11 DEF StopPublish
<1>12. ASSUME NEW s \in Stopper, NEW t \in Task,
             StopPipe(s, t)
     PROVE  Rest'
  BY <1>12 DEF StopPipe, RedisCleanupPipe
<1>13. ASSUME NEW s \in Stopper, StopScard(s)
     PROVE  Rest'
  BY <1>13 DEF StopScard
<1>14. ASSUME NEW s \in Stopper, StopDelete(s)
     PROVE  Rest'
  BY <1>14 DEF StopDelete, RedisDelete
<1>15. ASSUME NEW s \in Stopper, StopAborts(s)
     PROVE  Rest'
  BY <1>15 DEF StopAborts
<1>16. ASSUME NEW n \in Node, NEW t \in Task, NEW i \in Item,
             CreateTask(n, t, i)
     PROVE  Rest'
  BY <1>16 DEF CreateTask
<1>17. ASSUME NEW n \in Node, NEW t \in Task,
             HandleCommand(n, t)
     PROVE  Rest'
  BY <1>17 DEF HandleCommand
<1>18. ASSUME NEW n \in Node, Subscribe(n)
     PROVE  Rest'
  BY <1>18 DEF Subscribe
<1>19. ASSUME NEW n \in Node, ListenerFails(n)
     PROVE  Rest'
  BY <1>19 DEF ListenerFails
<1>20. ASSUME NEW n \in Node, Crash(n)
     PROVE  Rest'
  BY <1>20 DEF Crash
<1>21. ASSUME NEW n \in Node, Restart(n)
     PROVE  Rest'
  BY <1>21 DEF Restart
<1>22. ASSUME UNCHANGED vars PROVE Rest'
  BY <1>22 DEF vars
<1> QED
  BY <1>1, <1>2, <1>3, <1>4, <1>5, <1>6, <1>7, <1>8, <1>9, <1>10, <1>11,
     <1>12, <1>13, <1>14, <1>15, <1>16, <1>17, <1>18, <1>19, <1>20, <1>21, <1>22
  DEF Next, TaskStep, StopStep, NodeStep, CleanupStep

\* Every variable of the registry keeps its type (create_task, cleanup_task,
\* stop_task, stop_item_tasks and the listener never mix them up).
THEOREM TypeCorrect == Spec => []TypeOK
<1>1. Init => TypeOK
  BY TypeInit
<1>2. TypeOK /\ [Next]_vars => TypeOK'
  BY TypeStep
<1> QED
  BY <1>1, <1>2, PTL DEF Spec

\* The inductive invariant holds.
THEOREM Inductive == Spec => []IInv
<1>1. Init => IInv
  BY InvInit
<1>2. IInv /\ [Next]_vars => IInv'
  BY InvStep
<1> QED
  BY <1>1, <1>2, PTL DEF Spec

\* An item's Redis set never lists an id the Redis hash has lost, whatever the
\* order of saves, cleanups, stops and crashes.
THEOREM Listed == Spec => []ListedAreRegistered
<1>1. IInv => ListedAreRegistered
  BY DEF IInv
<1> QED
  BY <1>1, Inductive, PTL

\* A running task whose creation returned and that no stop was published for
\* is in the Redis hash.
THEOREM Registered == Spec => []RunningRegistered
<1>1. IInv => RunningRegistered
  BY DEF IInv
<1> QED
  BY <1>1, Inductive, PTL

\* A task that can still be cancelled is in the dictionary of its instance.
THEOREM Cancellable == Spec => []CancellableIsLocal
<1>1. IInv => CancellableIsLocal
  BY DEF IInv
<1> QED
  BY <1>1, Inductive, PTL

\* Only tasks a stop was published for are cancelled.
THEOREM OnlyAsked == Spec => []OnlyAskedCancelled
<1>1. IInv => OnlyAskedCancelled
  BY DEF IInv
<1> QED
  BY <1>1, Inductive, PTL
================================================================================
