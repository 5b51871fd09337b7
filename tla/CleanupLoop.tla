------------------------------ MODULE CleanupLoop ------------------------------
(***************************************************************************)
(* The lock RedisLock (socket/utils.py) and the two periodic loops that    *)
(* hold it, one per pool (socket/main.py): periodic_usage_pool_cleanup and  *)
(* periodic_session_pool_cleanup.  Every instance starts each loop once, at *)
(* its own start.  Time is counted in ticks: the lock lives TTL ticks, a    *)
(* loop sleeps Sleep ticks between two passes, and takes each step at most  *)
(* Lag ticks after it is due.  A pass is one step here; SocketPools has     *)
(* what a pass does.                                                       *)
(***************************************************************************)
EXTENDS Instances, Integers

CONSTANTS NoOne,       \* the lock's key does not exist
          Dead,        \* the lock_id of a process that has crashed
          TTL,         \* WEBSOCKET_REDIS_LOCK_TIMEOUT
          Sleep,       \* TIMEOUT_DURATION, SESSION_POOL_TIMEOUT
          Retries,     \* max_retries; the session loop does not retry
          RetryDelay,  \* the values retry_delay may have
          Lag          \* how late a due step may be

ASSUME NamesAssumption == NoOne \notin Instance /\ Dead \notin Instance /\ NoOne # Dead
ASSUME TimesAssumption ==
    /\ TTL \in Nat \ {0} /\ Sleep \in Nat \ {0}
    /\ Retries \in Nat /\ Lag \in Nat
    /\ \A d \in RetryDelay : d \in Nat

\* A pass, and the release after it, fit in the life of a renewed lock: true
\* of the usage loop's 3 and 60 seconds, false of the session loop's 120.
LockOutlivesSleep == Sleep + 3 * Lag < TTL

VARIABLES owner,  \* the value of the lock's key
          ttl,    \* ticks before it expires; 0 with no key, or no expiry
          pc,     \* where the loop of each instance is
          due,    \* ticks until its next step is due; negative when late
          tries,  \* failed attempts to acquire
          delay   \* the retry_delay it drew

loopVars == <<owner, ttl, pc, due, tries, delay>>

\* "acquire": before aquire_lock; "renew": before renew_lock, at once or after
\* the sleep; "scan": the pass; "release" and "unlock": before the GET and the
\* DELETE of release_lock; "gone": the loop has returned or raised.
PC == {"acquire", "renew", "scan", "release", "unlock", "gone", "down"}

Holding(i) == pc[i] \in {"renew", "scan", "release", "unlock"}
Running(i) == pc[i] \notin {"gone", "down"}

LoopInit ==
    /\ owner = NoOne /\ ttl = 0
    /\ pc = [i \in Instance |-> "acquire"]
    /\ due = [i \in Instance |-> 0]
    /\ tries = [i \in Instance |-> 0]
    /\ delay \in [Instance -> RetryDelay]

\* Loop i goes on at `to`, its next step due in d ticks.
Goto(i, to, d) ==
    /\ pc' = [pc EXCEPT ![i] = to]
    /\ due' = [due EXCEPT ![i] = d]

Ready(i, at) == pc[i] = at /\ due[i] <= 0
-------------------------------------------------------------------------------
\* Mutant of Acquire: SET EX without NX.
AcquireAnyway(i) ==
    /\ Ready(i, "acquire")
    /\ owner' = i /\ ttl' = TTL
    /\ Goto(i, "renew", 0)
    /\ UNCHANGED <<tries, delay>>

\* aquire_lock: SET NX EX.
Acquire(i) ==
    /\ Ready(i, "acquire")
    /\ owner = NoOne
    /\ owner' = i /\ ttl' = TTL
    /\ Goto(i, "renew", 0)
    /\ UNCHANGED <<tries, delay>>

\* Mutant of AcquireFails: one retry less.
RetryLess(i) ==
    /\ Ready(i, "acquire")
    /\ owner # NoOne
    /\ tries' = [tries EXCEPT ![i] = @ + 1]
    /\ IF tries[i] + 1 < Retries THEN Goto(i, "acquire", delay[i]) ELSE Goto(i, "gone", 0)
    /\ UNCHANGED <<owner, ttl, delay>>

\* The lock exists: another attempt later, or none.
AcquireFails(i) ==
    /\ Ready(i, "acquire")
    /\ owner # NoOne
    /\ IF tries[i] < Retries
       THEN /\ tries' = [tries EXCEPT ![i] = @ + 1]
            /\ Goto(i, "acquire", delay[i])
       ELSE /\ Goto(i, "gone", 0)
            /\ UNCHANGED tries
    /\ UNCHANGED <<owner, ttl, delay>>

\* Mutant of Renew: the lock is extended only once it has expired (NX for XX).
RenewMissing(i) ==
    /\ Ready(i, "renew")
    /\ IF owner = NoOne
       THEN owner' = i /\ ttl' = TTL /\ Goto(i, "scan", 0)
       ELSE Goto(i, "release", 0) /\ UNCHANGED <<owner, ttl>>
    /\ UNCHANGED <<tries, delay>>

\* renew_lock: SET XX EX, whoever's the key is; without a key the loop ends.
Renew(i) ==
    /\ Ready(i, "renew")
    /\ IF owner # NoOne
       THEN owner' = i /\ ttl' = TTL /\ Goto(i, "scan", 0)
       ELSE Goto(i, "release", 0) /\ UNCHANGED <<owner, ttl>>
    /\ UNCHANGED <<tries, delay>>

\* The pass over the pool, then the sleep.
Scan(i) ==
    /\ Ready(i, "scan")
    /\ Goto(i, "renew", Sleep)
    /\ UNCHANGED <<owner, ttl, tries, delay>>

\* The pass raises: `del` on an entry another instance has deleted.
ScanFails(i) ==
    /\ Ready(i, "scan")
    /\ Goto(i, "release", 0)
    /\ UNCHANGED <<owner, ttl, tries, delay>>

\* release_lock reads the key.
Release(i) ==
    /\ Ready(i, "release")
    /\ Goto(i, IF owner = i THEN "unlock" ELSE "gone", 0)
    /\ UNCHANGED <<owner, ttl, tries, delay>>

\* release_lock deletes the key, whoever's it is by now.
Unlock(i) ==
    /\ Ready(i, "unlock")
    /\ owner' = NoOne /\ ttl' = 0
    /\ Goto(i, "gone", 0)
    /\ UNCHANGED <<tries, delay>>
-------------------------------------------------------------------------------
\* The process dies; its lock stays, under an id no process has any more.
LoopCrash(i) ==
    /\ pc[i] # "down"
    /\ Goto(i, "down", 0)
    /\ owner' = IF owner = i THEN Dead ELSE owner
    /\ UNCHANGED <<ttl, tries, delay>>

\* A new process: a new lock_id, a new retry_delay.
Restart(i) ==
    /\ pc[i] = "down"
    /\ Goto(i, "acquire", 0)
    /\ tries' = [tries EXCEPT ![i] = 0]
    /\ \E d \in RetryDelay : delay' = [delay EXCEPT ![i] = d]
    /\ UNCHANGED <<owner, ttl>>

\* Time passes, unless that would make a step later than Lag.
Tick ==
    /\ \A i \in Instance : Running(i) => due[i] > -Lag
    /\ due' = [i \in Instance |-> IF Running(i) THEN due[i] - 1 ELSE 0]
    /\ ttl' = IF ttl > 0 THEN ttl - 1 ELSE 0
    /\ owner' = IF ttl = 1 THEN NoOne ELSE owner
    /\ UNCHANGED <<pc, tries, delay>>
-------------------------------------------------------------------------------
LoopStep(i) == \/ Acquire(i) \/ AcquireFails(i) \/ Renew(i) \/ Scan(i) \/ ScanFails(i)
               \/ Release(i) \/ Unlock(i)

LoopNext == \/ \E i \in Instance : LoopStep(i) \/ LoopCrash(i) \/ Restart(i)
        \/ Tick

LoopSpec == LoopInit /\ [][LoopNext]_loopVars

\* The event loop wakes a task that is due, and time passes.  An instance
\* need not be restarted.
LoopFairSpec == LoopSpec /\ WF_loopVars(Tick) /\ \A i \in Instance : WF_loopVars(LoopStep(i))
-------------------------------------------------------------------------------
LoopTypeOK ==
    /\ owner \in Instance \cup {NoOne, Dead}
    /\ ttl \in 0..TTL
    /\ pc \in [Instance -> PC]
    /\ due \in [Instance -> Int]
    /\ tries \in [Instance -> 0..Retries]
    /\ delay \in [Instance -> RetryDelay]

\* "Session cleanup lock held by another node. Skipping.": two instances are
\* never both in the loop that the lock protects.
AtMostOneCleaner == \A i, j \in Instance : Holding(i) /\ Holding(j) => i = j

\* A loop that waits for its next pass makes that pass, unless it crashes.
CleansAgain == \A i \in Instance : pc[i] = "renew" ~> pc[i] \in {"scan", "down"}

\* An instance that starts when no other loop is left takes the lock up,
\* even the lock of a process that crashed just before, unless it crashes
\* itself or another starts.
Alone(i) == \A j \in Instance \ {i} : ~Running(j)
TakesOver == \A i \in Instance :
    (pc[i] = "acquire" /\ tries[i] = 0 /\ Alone(i))
    ~> (Holding(i) \/ pc[i] = "down" \/ ~Alone(i))
===============================================================================
