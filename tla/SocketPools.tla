------------------------------ MODULE SocketPools ------------------------------
(***************************************************************************)
(* SESSION_POOL and USAGE_POOL (socket/main.py) as Redis hashes shared by   *)
(* several instances: the handlers connect, user-join, heartbeat, usage and *)
(* disconnect of each session, on its own instance, and the passes of the   *)
(* two cleanup loops.  The hashes are used synchronously: a handler blocks  *)
(* the event loop of its instance from its last await to its next, so only  *)
(* other instances come between two of its commands.  Each command is one   *)
(* step.  Timestamps are kept as ages, which the two clocks advance in the  *)
(* hashes and in the copies a handler has read.                            *)
(***************************************************************************)
EXTENDS Instances, Integers, FiniteSets

CONSTANTS Session, Model,
          Timeout,   \* SESSION_POOL_TIMEOUT, TIMEOUT_DURATION, in ticks
          Home,      \* Home[s]: the instance session s is connected to
          Reaper,    \* instances in the session loop at the start
          Cleaner    \* instances in the usage loop at the start

ASSUME TimeoutAssumption == Timeout \in Nat
ASSUME HomeAssumption == Home \in [Session -> Instance]
ASSUME LoopsAssumption == Reaper \subseteq Instance /\ Cleaner \subseteq Instance

VARIABLES
    conn,      \* conn[s]: the life of session s
    pool,      \* pool[s]: the age of its entry in SESSION_POOL
    usage,     \* usage[m][s]: the age of s under model m in USAGE_POOL
    awaiting,  \* sessions with a user-join awaiting the database
    run,       \* run[i]: the handler instance i is executing
    reapers,   \* instances still in the session loop
    cleaners,  \* instances still in the usage loop
    down       \* instances that have crashed

vars == <<conn, pool, usage, awaiting, run, reapers, cleaners, down>>

Absent == -1
Stale == Timeout + 1                        \* and any age beyond
Age == Absent..Stale
Older(age) == IF age \in 0..Timeout THEN age + 1 ELSE age
Nobody == [s \in Session |-> Absent]        \* a model without connections
NoUsage == [m \in Model |-> Nobody]

\* A handler between two commands: the session and the models or sessions it
\* has still to visit, and what it has read.
Op == {"idle", "beat", "usageExists", "usageGet", "usageSet", "leaveGet", "leaveDel",
       "leaveKeys", "leaveModel", "leaveSet", "reapGet", "reapDel", "clean"}
Idle == [op |-> "idle", sid |-> {}, left |-> {}, read |-> NoUsage]

Init ==
    /\ conn = [s \in Session |-> "new"]
    /\ pool = Nobody
    /\ usage = NoUsage
    /\ awaiting = {}
    /\ run = [i \in Instance |-> Idle]
    /\ reapers = Reaper
    /\ cleaners = Cleaner
    /\ down = {}

Free(i) == i \notin down /\ run[i].op = "idle"
At(i, op) == i \notin down /\ run[i].op = op
Go(i, op, sid, left, read) ==
    run' = [run EXCEPT ![i] = [op |-> op, sid |-> sid, left |-> left, read |-> read]]
End(i) == run' = [run EXCEPT ![i] = Idle]
Connected(m) == usage[m] # Nobody           \* model m has a key in USAGE_POOL
-------------------------------------------------------------------------------
\* connect: with a token the entry is written after the user was read.
Connect(s) ==
    /\ conn[s] = "new" /\ Free(Home[s])
    /\ conn' = [conn EXCEPT ![s] = "open"]
    /\ \/ pool' = [pool EXCEPT ![s] = 0]
       \/ UNCHANGED pool
    /\ UNCHANGED <<usage, awaiting, run, reapers, cleaners, down>>

\* user-join up to its await.
UserJoin(s) ==
    /\ conn[s] = "open" /\ s \notin awaiting /\ Free(Home[s])
    /\ awaiting' = awaiting \cup {s}
    /\ UNCHANGED <<conn, pool, usage, run, reapers, cleaners, down>>

\* user-join after it, whether or not the session is still connected.
UserJoined(s) ==
    /\ s \in awaiting /\ Free(Home[s])
    /\ awaiting' = awaiting \ {s}
    /\ pool' = [pool EXCEPT ![s] = 0]
    /\ UNCHANGED <<conn, usage, run, reapers, cleaners, down>>

\* Mutant of Heartbeat: the entry is read by a handler that awaits the
\* database before it writes, so that it writes whatever happened meanwhile.
HeartbeatAwaits(s) ==
    /\ conn[s] # "new" /\ Free(Home[s])
    /\ Go(Home[s], "beat", {s}, {}, NoUsage)
    /\ UNCHANGED <<conn, pool, usage, awaiting, reapers, cleaners, down>>

\* heartbeat: without an entry nothing happens.
Heartbeat(s) ==
    /\ conn[s] = "open" /\ Free(Home[s])
    /\ pool[s] # Absent
    /\ Go(Home[s], "beat", {s}, {}, NoUsage)
    /\ UNCHANGED <<conn, pool, usage, awaiting, reapers, cleaners, down>>

\* Mutant of HeartbeatSet: last_seen_at in milliseconds, far in the future.
HeartbeatMillis(i) ==
    /\ At(i, "beat")
    /\ pool' = [s \in Session |-> IF s \in run[i].sid THEN -1000 ELSE pool[s]]
    /\ End(i)
    /\ UNCHANGED <<conn, usage, awaiting, reapers, cleaners, down>>

HeartbeatSet(i) ==
    /\ At(i, "beat")
    /\ pool' = [s \in Session |-> IF s \in run[i].sid THEN 0 ELSE pool[s]]
    /\ End(i)
    /\ UNCHANGED <<conn, usage, awaiting, reapers, cleaners, down>>
-------------------------------------------------------------------------------
\* usage: the session is in the pool; is the model?
Usage(s) ==
    /\ conn[s] = "open" /\ Free(Home[s])
    /\ pool[s] # Absent
    /\ \E m \in Model : Go(Home[s], "usageExists", {s}, {m}, NoUsage)
    /\ UNCHANGED <<conn, pool, usage, awaiting, reapers, cleaners, down>>

UsageExists(i) ==
    /\ At(i, "usageExists")
    /\ \E m \in run[i].left :
          Go(i, IF Connected(m) THEN "usageGet" ELSE "usageSet", run[i].sid, {m}, NoUsage)
    /\ UNCHANGED <<conn, pool, usage, awaiting, reapers, cleaners, down>>

\* The read of the model's connections; KeyError when they are gone.
UsageGet(i) ==
    /\ At(i, "usageGet")
    /\ \E m \in run[i].left :
          IF Connected(m)
          THEN Go(i, "usageSet", run[i].sid, {m}, [NoUsage EXCEPT ![m] = usage[m]])
          ELSE End(i)
    /\ UNCHANGED <<conn, pool, usage, awaiting, reapers, cleaners, down>>

UsageSet(i) ==
    /\ At(i, "usageSet")
    /\ usage' = [m \in Model |->
                    IF m \in run[i].left
                    THEN [s \in Session |-> IF s \in run[i].sid THEN 0
                                            ELSE run[i].read[m][s]]
                    ELSE usage[m]]
    /\ End(i)
    /\ UNCHANGED <<conn, pool, awaiting, reapers, cleaners, down>>
-------------------------------------------------------------------------------
\* disconnect: a session without an entry leaves nothing else either.
Disconnect(s) ==
    /\ conn[s] = "open" /\ Free(Home[s])
    /\ conn' = [conn EXCEPT ![s] = "closed"]
    /\ IF pool[s] # Absent THEN Go(Home[s], "leaveGet", {s}, {}, NoUsage)
       ELSE UNCHANGED run
    /\ UNCHANGED <<pool, usage, awaiting, reapers, cleaners, down>>

\* The read of the entry; KeyError when it is gone.
LeaveGet(i) ==
    /\ At(i, "leaveGet")
    /\ \E s \in run[i].sid :
          IF pool[s] # Absent THEN Go(i, "leaveDel", {s}, {}, NoUsage) ELSE End(i)
    /\ UNCHANGED <<conn, pool, usage, awaiting, reapers, cleaners, down>>

\* The deletion; KeyError when it is gone.
LeaveDel(i) ==
    /\ At(i, "leaveDel")
    /\ \E s \in run[i].sid :
          IF pool[s] # Absent
          THEN /\ pool' = [pool EXCEPT ![s] = Absent]
               /\ Go(i, "leaveKeys", {s}, {}, NoUsage)
          ELSE End(i) /\ UNCHANGED pool
    /\ UNCHANGED <<conn, usage, awaiting, reapers, cleaners, down>>

LeaveKeys(i) ==
    /\ At(i, "leaveKeys")
    /\ LET keys == {m \in Model : Connected(m)}
       IN  IF keys = {} THEN End(i) ELSE Go(i, "leaveModel", run[i].sid, keys, NoUsage)
    /\ UNCHANGED <<conn, pool, usage, awaiting, reapers, cleaners, down>>

\* The disconnect goes on with the models left, or is over.
LeaveOn(i, left) ==
    IF left = {} THEN End(i) ELSE Go(i, "leaveModel", run[i].sid, left, NoUsage)

LeaveModel(i) ==
    /\ At(i, "leaveModel")
    /\ \E m \in run[i].left, s \in run[i].sid :
          IF usage[m][s] # Absent
          THEN Go(i, "leaveSet", {s}, run[i].left, [NoUsage EXCEPT ![m] = usage[m]])
          ELSE LeaveOn(i, run[i].left \ {m})
    /\ UNCHANGED <<conn, pool, usage, awaiting, reapers, cleaners, down>>

\* The model is deleted (KeyError when it is gone) or written back.
LeaveSet(i) ==
    /\ At(i, "leaveSet")
    /\ \E m \in {n \in Model : run[i].read[n] # Nobody}, s \in run[i].sid :
          LET rest == [run[i].read[m] EXCEPT ![s] = Absent]
          IN  IF rest = Nobody /\ ~Connected(m)
              THEN End(i) /\ UNCHANGED usage
              ELSE /\ usage' = [usage EXCEPT ![m] = rest]
                   /\ LeaveOn(i, run[i].left \ {m})
    /\ UNCHANGED <<conn, pool, awaiting, reapers, cleaners, down>>
-------------------------------------------------------------------------------
\* A pass of periodic_session_pool_cleanup: its `now` decides which of the
\* entries it visits may be reaped.
Reap(i) ==
    /\ i \in reapers /\ Free(i)
    /\ LET missed == {s \in Session : pool[s] = Stale}
       IN  missed # {} /\ Go(i, "reapGet", {}, missed, NoUsage)
    /\ UNCHANGED <<conn, pool, usage, awaiting, reapers, cleaners, down>>

ReapOn(i, left) == IF left = {} THEN End(i) ELSE Go(i, "reapGet", {}, left, NoUsage)

\* Mutant of ReapGet: the comparison of the age is the wrong way round.
ReapRecent(i) ==
    /\ At(i, "reapGet")
    /\ \E s \in run[i].left :
          IF pool[s] \in 0..Timeout THEN Go(i, "reapDel", {s}, run[i].left \ {s}, NoUsage)
          ELSE ReapOn(i, run[i].left \ {s})
    /\ UNCHANGED <<conn, pool, usage, awaiting, reapers, cleaners, down>>

ReapGet(i) ==
    /\ At(i, "reapGet")
    /\ \E s \in run[i].left :
          IF pool[s] = Stale THEN Go(i, "reapDel", {s}, run[i].left \ {s}, NoUsage)
          ELSE ReapOn(i, run[i].left \ {s})
    /\ UNCHANGED <<conn, pool, usage, awaiting, reapers, cleaners, down>>

\* The deletion; on KeyError the loop is over.
ReapDel(i) ==
    /\ At(i, "reapDel")
    /\ \E s \in run[i].sid :
          IF pool[s] # Absent
          THEN /\ pool' = [pool EXCEPT ![s] = Absent]
               /\ ReapOn(i, run[i].left)
               /\ UNCHANGED reapers
          ELSE /\ reapers' = reapers \ {i}
               /\ End(i)
               /\ UNCHANGED pool
    /\ UNCHANGED <<conn, usage, awaiting, cleaners, down>>

\* A pass of periodic_usage_pool_cleanup: items() reads the whole hash, and
\* the connections that have expired by `now` are dropped.
Unexpired(conns) == [s \in Session |-> IF conns[s] = Stale THEN Absent ELSE conns[s]]

Clean(i) ==
    /\ i \in cleaners /\ Free(i)
    /\ LET keys == {m \in Model : Connected(m)}
       IN  keys # {} /\ Go(i, "clean", {}, keys, [m \in Model |-> Unexpired(usage[m])])
    /\ UNCHANGED <<conn, pool, usage, awaiting, reapers, cleaners, down>>

CleanOn(i, left) == IF left = {} THEN End(i) ELSE Go(i, "clean", {}, left, run[i].read)

\* Mutant of CleanModel: only models all of whose connections expired.
CleanWhole(i) ==
    /\ At(i, "clean")
    /\ \E m \in run[i].left :
          LET rest == run[i].read[m]
          IN  /\ usage' = IF rest = Nobody THEN [usage EXCEPT ![m] = Nobody] ELSE usage
              /\ CleanOn(i, run[i].left \ {m})
    /\ UNCHANGED <<conn, pool, awaiting, reapers, cleaners, down>>

\* One model: deleted (on KeyError the loop is over) or written back.
CleanModel(i) ==
    /\ At(i, "clean")
    /\ \E m \in run[i].left :
          LET rest == run[i].read[m]
          IN  IF rest = Nobody /\ ~Connected(m)
              THEN cleaners' = cleaners \ {i} /\ End(i) /\ UNCHANGED usage
              ELSE /\ usage' = [usage EXCEPT ![m] = rest]
                   /\ CleanOn(i, run[i].left \ {m})
                   /\ UNCHANGED cleaners
    /\ UNCHANGED <<conn, pool, awaiting, reapers, down>>
-------------------------------------------------------------------------------
\* The clocks of the two timeouts.
SessionTick ==
    /\ \E s \in Session : pool[s] \in 0..Timeout
    /\ pool' = [s \in Session |-> Older(pool[s])]
    /\ UNCHANGED <<conn, usage, awaiting, run, reapers, cleaners, down>>

AllOlder(u) == [m \in Model |-> [s \in Session |-> Older(u[m][s])]]

UsageTick ==
    /\ \E m \in Model, s \in Session : usage[m][s] \in 0..Timeout
    /\ usage' = AllOlder(usage)
    /\ run' = [i \in Instance |-> [run[i] EXCEPT !.read = AllOlder(@)]]
    /\ UNCHANGED <<conn, pool, awaiting, reapers, cleaners, down>>

\* An instance dies with its sessions and loops.
Crash(i) ==
    /\ i \notin down
    /\ down' = down \cup {i}
    /\ conn' = [s \in Session |-> IF Home[s] = i THEN "closed" ELSE conn[s]]
    /\ awaiting' = {s \in awaiting : Home[s] # i}
    /\ run' = [run EXCEPT ![i] = Idle]
    /\ reapers' = reapers \ {i} /\ cleaners' = cleaners \ {i}
    /\ UNCHANGED <<pool, usage>>
-------------------------------------------------------------------------------
Event(s) == Connect(s) \/ UserJoin(s) \/ Heartbeat(s) \/ Usage(s) \/ Disconnect(s)

Section(i) == \/ HeartbeatSet(i) \/ UsageExists(i) \/ UsageGet(i) \/ UsageSet(i)
              \/ LeaveGet(i) \/ LeaveDel(i) \/ LeaveKeys(i) \/ LeaveModel(i) \/ LeaveSet(i)
              \/ ReapGet(i) \/ ReapDel(i) \/ CleanModel(i)

Next == \/ \E s \in Session : Event(s) \/ UserJoined(s)
        \/ \E i \in Instance : Section(i) \/ Reap(i) \/ Clean(i) \/ Crash(i)
        \/ SessionTick \/ UsageTick

Spec == Init /\ [][Next]_vars

\* A handler goes on; the event loop resumes the loops in their turn, however
\* busy it is (hence strong fairness); time passes.  Events need not come.
FairSpec ==
    /\ Spec
    /\ \A i \in Instance : WF_vars(Section(i))
    /\ \A i \in Reaper : SF_vars(Reap(i))
    /\ \A i \in Cleaner : SF_vars(Clean(i))
    /\ WF_vars(SessionTick) /\ WF_vars(UsageTick)
-------------------------------------------------------------------------------
Conns == [Session -> Age]
Reaps(op) == op \in {"reapGet", "reapDel"}
Handler == {h \in [op: Op, sid: SUBSET Session, left: SUBSET (Session \cup Model),
                   read: [Model -> Conns]] :
              Cardinality(h.sid) <= 1 /\ (Reaps(h.op) => h.left \subseteq Session)}

TypeOK ==
    /\ conn \in [Session -> {"new", "open", "closed"}]
    /\ pool \in Conns
    /\ usage \in [Model -> Conns]
    /\ awaiting \in SUBSET Session
    /\ run \in [Instance -> Handler]
    /\ reapers \in SUBSET Instance /\ cleaners \in SUBSET Instance
    /\ down \in SUBSET Instance

\* A session that has left the pool for good, by its disconnect, does not come
\* back to it by a late heartbeat of another handler: only a user-join that
\* was waiting for the database can write the entry again.
ClosedNotRevived ==
    [][\A s \in Session :
          conn[s] = "closed" /\ pool[s] = Absent /\ s \notin awaiting => pool'[s] = Absent]_vars

\* A closed session's entry is reaped as long as some instance is in the
\* session loop, whatever crashes, joins and other reapers do.
ClosedIsReaped ==
    \A s \in Session : conn[s] = "closed" ~> (pool[s] = Absent \/ reapers = {})

\* What a closed session leaves in USAGE_POOL, or another instance's stale
\* write puts back, goes as long as some instance is in the usage loop.
ClosedIsUnused ==
    \A s \in Session : conn[s] = "closed"
        ~> ((\A m \in Model : usage[m][s] = Absent) \/ cleaners = {})
-------------------------------------------------------------------------------
(* Said of the code and not kept by it: see section 4 of the README.      *)

\* "Reap orphaned SESSION_POOL entries that missed heartbeats": a session whose
\* entry is fresh loses it only by its own disconnect.
OnlyMissedReaped ==
    [][\A s \in Session :
          pool[s] \in 0..Timeout /\ pool'[s] = Absent => conn[s] = "closed"]_vars

\* "sids to remove if they have timed out": the usage loop drops no connection
\* whose entry is fresh.
Cleans(i) == run[i].op = "clean" /\ run'[i] # run[i] /\ i \notin down'
OnlyExpiredCleaned ==
    [][\A i \in Instance : Cleans(i) =>
          \A m \in Model, s \in Session :
             usage[m][s] \in 0..Timeout => usage'[m][s] # Absent]_vars

\* "Clean up USAGE_POOL entries for this session": a session that is closed and
\* gone from USAGE_POOL is not put back by what another handler had read.
Unused(s) == \A m \in Model : usage[m][s] = Absent
ClosedStaysUnused == [][\A s \in Session : conn[s] = "closed" /\ Unused(s) => Unused(s)']_vars
===============================================================================
