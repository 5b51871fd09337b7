-------------------------- MODULE SocketPools_proofs --------------------------
(***************************************************************************)
(* Proofs about SocketPools for any number of instances, sessions and       *)
(* models, any Timeout and any instances in the cleanup loops, and, in the  *)
(* last part, about the lock of these loops (CleanupLoop) for any times     *)
(* that satisfy LockOutlivesSleep.                                          *)
(***************************************************************************)
EXTENDS SocketPools, CleanupLoop, FiniteSetTheorems, TLAPS

LEMMA Ages ==
    /\ Absent \in Age /\ Stale \in Age /\ 0 \in Age /\ Absent \notin 0..Timeout
    /\ \A age \in Age : Older(age) \in Age
    /\ Older(Absent) = Absent
  BY TimeoutAssumption DEF Absent, Stale, Age, Older

LEMMA NobodyTyped == Nobody \in Conns /\ NoUsage \in [Model -> Conns]
  BY Ages DEF Nobody, NoUsage, Conns

LEMMA SidSizes ==
    /\ Cardinality({}) <= 1
    /\ \A s \in Session : Cardinality({s}) <= 1
  BY FS_EmptySet, FS_Singleton

\* A handler with all its parts, as Go makes it.
LEMMA HandlerMade ==
    ASSUME NEW op \in Op, NEW sid \in SUBSET Session, Cardinality(sid) <= 1,
           NEW left \in SUBSET (Session \cup Model), NEW read \in [Model -> Conns],
           Reaps(op) => left \subseteq Session
    PROVE  [op |-> op, sid |-> sid, left |-> left, read |-> read] \in Handler
  BY DEF Handler

LEMMA IdleTyped == Idle \in Handler
  BY NobodyTyped, SidSizes, HandlerMade DEF Idle, Op, Reaps

LEMMA HandlerParts ==
    ASSUME NEW h \in Handler
    PROVE  /\ h.op \in Op /\ h.sid \in SUBSET Session /\ Cardinality(h.sid) <= 1
           /\ h.left \in SUBSET (Session \cup Model) /\ h.read \in [Model -> Conns]
           /\ Reaps(h.op) => h.left \subseteq Session
  BY DEF Handler

\* What a step of the handler of one instance may leave in run.
LEMMA RunTyped ==
    ASSUME TypeOK, NEW i \in Instance,
           \/ End(i)
           \/ \E op \in Op, sid \in SUBSET Session, left \in SUBSET (Session \cup Model),
                 read \in [Model -> Conns] :
                 /\ Cardinality(sid) <= 1 /\ (Reaps(op) => left \subseteq Session)
                 /\ Go(i, op, sid, left, read)
    PROVE  run' \in [Instance -> Handler]
<1>1. CASE End(i)
  BY <1>1, IdleTyped DEF TypeOK, End
<1>2. ASSUME NEW op \in Op, NEW sid \in SUBSET Session, NEW left \in SUBSET (Session \cup Model),
             NEW read \in [Model -> Conns], Cardinality(sid) <= 1,
             Reaps(op) => left \subseteq Session, Go(i, op, sid, left, read)
      PROVE  run' \in [Instance -> Handler]
  <2>1. PICK h : h = [op |-> op, sid |-> sid, left |-> left, read |-> read]
    OBVIOUS
  <2>2. h \in Handler /\ run' = [run EXCEPT ![i] = h]
    BY <1>2, <2>1, HandlerMade DEF Go
  <2>3. QED BY <2>2 DEF TypeOK
<1>3. QED BY <1>1, <1>2
-------------------------------------------------------------------------------
\* The handlers of a session's events.
LEMMA EventTyped ==
    ASSUME TypeOK, NEW s \in Session, Event(s) \/ UserJoined(s)
    PROVE  TypeOK'
<1>home. Home[s] \in Instance
  BY HomeAssumption
<1>1. ASSUME Connect(s) \/ UserJoin(s) \/ UserJoined(s) PROVE TypeOK'
  <2>1. pool' \in Conns
    BY <1>1, Ages DEF TypeOK, Connect, UserJoin, UserJoined, Conns
  <2>2. QED BY <1>1, <2>1 DEF TypeOK, Connect, UserJoin, UserJoined
<1>2. ASSUME Heartbeat(s) PROVE TypeOK'
  <2>1. Go(Home[s], "beat", {s}, {}, NoUsage)
    BY <1>2 DEF Heartbeat
  <2>2. run' \in [Instance -> Handler]
    BY <1>home, <2>1, RunTyped, NobodyTyped, SidSizes DEF Op, Reaps
  <2>3. QED BY <1>2, <2>2 DEF TypeOK, Heartbeat
<1>3. ASSUME Usage(s) PROVE TypeOK'
  <2>1. PICK m \in Model : Go(Home[s], "usageExists", {s}, {m}, NoUsage)
    BY <1>3 DEF Usage
  <2>2. run' \in [Instance -> Handler]
    BY <1>home, <2>1, RunTyped, NobodyTyped, SidSizes DEF Op, Reaps
  <2>3. QED BY <1>3, <2>2 DEF TypeOK, Usage
<1>4. ASSUME Disconnect(s) PROVE TypeOK'
  <2>1. Go(Home[s], "leaveGet", {s}, {}, NoUsage) \/ run' = run
    BY <1>4 DEF Disconnect
  <2>2. run' \in [Instance -> Handler]
    <3>1. CASE run' = run
      BY <3>1 DEF TypeOK
    <3>2. CASE Go(Home[s], "leaveGet", {s}, {}, NoUsage)
      BY <1>home, <3>2, RunTyped, NobodyTyped, SidSizes DEF Op, Reaps
    <3>3. QED BY <2>1, <3>1, <3>2
  <2>3. QED BY <1>4, <2>2 DEF TypeOK, Disconnect
<1>5. QED BY <1>1, <1>2, <1>3, <1>4 DEF Event

\* The steps of a handler that is under way.
LEMMA SectionTyped ==
    ASSUME TypeOK, NEW i \in Instance, Section(i)
    PROVE  TypeOK'
<1>parts. /\ run[i] \in Handler
          /\ run[i].sid \in SUBSET Session /\ Cardinality(run[i].sid) <= 1
          /\ run[i].left \in SUBSET (Session \cup Model) /\ run[i].read \in [Model -> Conns]
  BY HandlerParts DEF TypeOK
<1>types. pool \in Conns /\ usage \in [Model -> Conns]
  BY DEF TypeOK
<1>reaps. run[i].op \in {"reapGet", "reapDel"} => run[i].left \subseteq Session
  BY HandlerParts DEF TypeOK, Reaps
<1>reads. \A m : [NoUsage EXCEPT ![m] = usage[m]] \in [Model -> Conns]
  BY <1>types, NobodyTyped
<1> DEFINE Moved == \E op \in Op, sid \in SUBSET Session, left \in SUBSET (Session \cup Model),
                       read \in [Model -> Conns] :
                       /\ Cardinality(sid) <= 1 /\ (Reaps(op) => left \subseteq Session)
                       /\ Go(i, op, sid, left, read)
<1>1. ASSUME NEW op \in Op, NEW sid \in {run[i].sid, {}} \cup {{s} : s \in run[i].sid},
             NEW left \in SUBSET (Session \cup Model), NEW read \in [Model -> Conns],
             Reaps(op) => left \subseteq Session, Go(i, op, sid, left, read)
      PROVE  Moved
  <2>1. sid \in SUBSET Session /\ Cardinality(sid) <= 1
    BY <1>parts, SidSizes
  <2>2. QED BY <1>1, <2>1
<1>2. (End(i) \/ Moved) => run' \in [Instance -> Handler]
  BY RunTyped
<1> HIDE DEF Moved
\* Steps that only move the handler on.
<1>3. ASSUME UsageExists(i) \/ UsageGet(i) \/ LeaveGet(i) \/ LeaveKeys(i) \/ LeaveModel(i) \/ ReapGet(i)
      PROVE  TypeOK'
  <2>1. UNCHANGED <<conn, pool, usage, awaiting, reapers, cleaners, down>>
    BY <1>3 DEF UsageExists, UsageGet, LeaveGet, LeaveKeys, LeaveModel, ReapGet
  <2>2. End(i) \/ Moved
    <3>1. CASE UsageExists(i)
      <4>1. PICK m \in run[i].left :
               Go(i, IF Connected(m) THEN "usageGet" ELSE "usageSet", run[i].sid, {m}, NoUsage)
        BY <3>1 DEF UsageExists
      <4>2. \E op \in Op : op = (IF Connected(m) THEN "usageGet" ELSE "usageSet") /\ ~Reaps(op)
        BY DEF Op, Reaps
      <4>3. QED BY <4>1, <4>2, <1>1, <1>parts, NobodyTyped
    <3>2. CASE UsageGet(i)
      <4>1. PICK m \in run[i].left :
               End(i) \/ Go(i, "usageSet", run[i].sid, {m}, [NoUsage EXCEPT ![m] = usage[m]])
        BY <3>2 DEF UsageGet
      <4>2. "usageSet" \in Op /\ ~Reaps("usageSet") /\ {m} \in SUBSET (Session \cup Model)
        BY <1>parts DEF Op, Reaps
      <4>3. QED BY <4>1, <4>2, <1>1, <1>reads
    <3>3. CASE LeaveGet(i)
      <4>1. PICK s \in run[i].sid : End(i) \/ Go(i, "leaveDel", {s}, {}, NoUsage)
        BY <3>3 DEF LeaveGet
      <4>2. "leaveDel" \in Op /\ ~Reaps("leaveDel")
        BY DEF Op, Reaps
      <4>3. QED BY <4>1, <4>2, <1>1, NobodyTyped
    <3>4. CASE LeaveKeys(i)
      <4>1. End(i) \/ \E keys \in SUBSET Model : Go(i, "leaveModel", run[i].sid, keys, NoUsage)
        BY <3>4 DEF LeaveKeys
      <4>2. "leaveModel" \in Op /\ ~Reaps("leaveModel")
        BY DEF Op, Reaps
      <4>3. QED BY <4>1, <4>2, <1>1, NobodyTyped
    <3>5. CASE LeaveModel(i)
      <4>1. PICK m \in run[i].left, s \in run[i].sid :
               \/ Go(i, "leaveSet", {s}, run[i].left, [NoUsage EXCEPT ![m] = usage[m]])
               \/ End(i) \/ Go(i, "leaveModel", run[i].sid, run[i].left \ {m}, NoUsage)
        BY <3>5 DEF LeaveModel, LeaveOn
      <4>2. /\ "leaveSet" \in Op /\ ~Reaps("leaveSet")
            /\ "leaveModel" \in Op /\ ~Reaps("leaveModel")
            /\ run[i].left \ {m} \in SUBSET (Session \cup Model)
        BY <1>parts DEF Op, Reaps
      <4>3. QED BY <4>1, <4>2, <1>1, <1>parts, <1>reads, NobodyTyped
    <3>6. CASE ReapGet(i)
      <4>1. PICK s \in run[i].left :
               \/ s \in Session /\ Go(i, "reapDel", {s}, run[i].left \ {s}, NoUsage)
               \/ End(i) \/ Go(i, "reapGet", {}, run[i].left \ {s}, NoUsage)
        BY <3>6, <1>reaps DEF ReapGet, ReapOn, At
      <4>2. /\ "reapDel" \in Op /\ "reapGet" \in Op
            /\ run[i].left \ {s} \in SUBSET Session
        BY <3>6, <1>reaps DEF ReapGet, At, Op
      <4>3. QED BY <4>1, <4>2, <1>1, NobodyTyped, SidSizes DEF Moved
    <3>7. QED BY <1>3, <3>1, <3>2, <3>3, <3>4, <3>5, <3>6
  <2>3. QED BY <2>1, <2>2, <1>2 DEF TypeOK
<1>4. ASSUME HeartbeatSet(i) PROVE TypeOK'
  <2>1. pool' \in Conns
    BY <1>4, <1>types, Ages DEF HeartbeatSet, Conns
  <2>2. End(i) /\ UNCHANGED <<conn, usage, awaiting, reapers, cleaners, down>>
    BY <1>4 DEF HeartbeatSet
  <2>3. QED BY <2>1, <2>2, <1>2 DEF TypeOK
<1>5. ASSUME UsageSet(i) PROVE TypeOK'
  <2>1. usage' \in [Model -> Conns]
    BY <1>5, <1>types, <1>parts, Ages DEF UsageSet, Conns
  <2>2. End(i) /\ UNCHANGED <<conn, pool, awaiting, reapers, cleaners, down>>
    BY <1>5 DEF UsageSet
  <2>3. QED BY <2>1, <2>2, <1>2 DEF TypeOK
<1>6. ASSUME LeaveDel(i) PROVE TypeOK'
  <2>1. PICK s \in run[i].sid :
           /\ pool' = pool \/ pool' = [pool EXCEPT ![s] = Absent]
           /\ End(i) \/ Go(i, "leaveKeys", {s}, {}, NoUsage)
    BY <1>6 DEF LeaveDel
  <2>2. pool' \in Conns
    BY <2>1, <1>types, Ages DEF Conns
  <2>3. "leaveKeys" \in Op /\ ~Reaps("leaveKeys")
    BY DEF Op, Reaps
  <2>4. End(i) \/ Moved
    BY <2>1, <2>3, <1>1, NobodyTyped
  <2>5. UNCHANGED <<conn, usage, awaiting, reapers, cleaners, down>>
    BY <1>6 DEF LeaveDel
  <2>6. QED BY <2>2, <2>4, <2>5, <1>2 DEF TypeOK
<1>7. ASSUME LeaveSet(i) PROVE TypeOK'
  <2>1. PICK m \in Model, s \in run[i].sid :
           /\ \/ usage' = usage
              \/ usage' = [usage EXCEPT ![m] = [run[i].read[m] EXCEPT ![s] = Absent]]
           /\ End(i) \/ Go(i, "leaveModel", run[i].sid, run[i].left \ {m}, NoUsage)
    BY <1>7 DEF LeaveSet, LeaveOn
  <2>2. usage' \in [Model -> Conns]
    <3>1. [run[i].read[m] EXCEPT ![s] = Absent] \in Conns
      BY <1>parts, Ages DEF Conns
    <3>2. QED BY <2>1, <3>1, <1>types
  <2>3. "leaveModel" \in Op /\ ~Reaps("leaveModel") /\ run[i].left \ {m} \in SUBSET (Session \cup Model)
    BY <1>parts DEF Op, Reaps
  <2>4. End(i) \/ Moved
    BY <2>1, <2>3, <1>1, <1>parts, NobodyTyped
  <2>5. UNCHANGED <<conn, pool, awaiting, reapers, cleaners, down>>
    BY <1>7 DEF LeaveSet
  <2>6. QED BY <2>2, <2>4, <2>5, <1>2 DEF TypeOK
<1>8. ASSUME ReapDel(i) PROVE TypeOK'
  <2>1. PICK s \in run[i].sid :
           /\ pool' = pool \/ pool' = [pool EXCEPT ![s] = Absent]
           /\ reapers' = reapers \/ reapers' = reapers \ {i}
           /\ End(i) \/ Go(i, "reapGet", {}, run[i].left, NoUsage)
    BY <1>8 DEF ReapDel, ReapOn
  <2>2. pool' \in Conns
    BY <2>1, <1>types, Ages DEF Conns
  <2>3. "reapGet" \in Op /\ run[i].left \subseteq Session
    BY <1>8, <1>reaps DEF ReapDel, At, Op
  <2>4. End(i) \/ Moved
    BY <2>1, <2>3, <1>1, NobodyTyped
  <2>5. UNCHANGED <<conn, usage, awaiting, cleaners, down>> /\ reapers' \subseteq reapers
    BY <1>8, <2>1 DEF ReapDel
  <2>6. QED BY <2>2, <2>4, <2>5, <1>2 DEF TypeOK
<1>9. ASSUME CleanModel(i) PROVE TypeOK'
  <2>1. PICK m \in run[i].left :
           /\ usage' = usage \/ usage' = [usage EXCEPT ![m] = run[i].read[m]]
           /\ cleaners' = cleaners \/ cleaners' = cleaners \ {i}
           /\ End(i) \/ Go(i, "clean", {}, run[i].left \ {m}, run[i].read)
    BY <1>9 DEF CleanModel, CleanOn
  <2>2. usage' \in [Model -> Conns]
    BY <2>1, <1>types, <1>parts
  <2>3. "clean" \in Op /\ ~Reaps("clean") /\ run[i].left \ {m} \in SUBSET (Session \cup Model)
    BY <1>parts DEF Op, Reaps
  <2>4. End(i) \/ Moved
    BY <2>1, <2>3, <1>1, <1>parts
  <2>5. UNCHANGED <<conn, pool, awaiting, reapers, down>> /\ cleaners' \subseteq cleaners
    BY <1>9, <2>1 DEF CleanModel
  <2>6. QED BY <2>2, <2>4, <2>5, <1>2 DEF TypeOK
<1>10. QED BY <1>3, <1>4, <1>5, <1>6, <1>7, <1>8, <1>9 DEF Section

\* The loops, the clocks and crashes.
LEMMA LoopTyped ==
    ASSUME TypeOK,
           \/ \E i \in Instance : Reap(i) \/ Clean(i) \/ Crash(i)
           \/ SessionTick \/ UsageTick
    PROVE  TypeOK'
<1>types. pool \in Conns /\ usage \in [Model -> Conns] /\ run \in [Instance -> Handler]
  BY DEF TypeOK
<1>1. ASSUME NEW i \in Instance, Reap(i) PROVE TypeOK'
  <2>1. PICK missed \in SUBSET Session : Go(i, "reapGet", {}, missed, NoUsage)
    BY <1>1 DEF Reap
  <2>2. run' \in [Instance -> Handler]
    BY <2>1, RunTyped, NobodyTyped, SidSizes DEF Op, Reaps
  <2>3. QED BY <1>1, <2>2 DEF TypeOK, Reap
<1>2. ASSUME NEW i \in Instance, Clean(i) PROVE TypeOK'
  <2>1. PICK keys \in SUBSET Model : Go(i, "clean", {}, keys, [m \in Model |-> Unexpired(usage[m])])
    BY <1>2 DEF Clean
  <2>2. [m \in Model |-> Unexpired(usage[m])] \in [Model -> Conns]
    BY <1>types, Ages DEF Unexpired, Conns
  <2>3. run' \in [Instance -> Handler]
    BY <2>1, <2>2, RunTyped, SidSizes DEF Op, Reaps
  <2>4. QED BY <1>2, <2>3 DEF TypeOK, Clean
<1>3. ASSUME NEW i \in Instance, Crash(i) PROVE TypeOK'
  <2>1. run' \in [Instance -> Handler]
    BY <1>3, <1>types, IdleTyped DEF Crash
  <2>2. QED BY <1>3, <2>1 DEF TypeOK, Crash
<1>4. ASSUME SessionTick PROVE TypeOK'
  <2>1. pool' \in Conns
    BY <1>4, <1>types, Ages DEF SessionTick, Conns
  <2>2. QED BY <1>4, <2>1 DEF TypeOK, SessionTick
<1>5. ASSUME UsageTick PROVE TypeOK'
  <2>1. \A u \in [Model -> Conns] : AllOlder(u) \in [Model -> Conns]
    BY Ages DEF AllOlder, Conns
  <2>2. run' \in [Instance -> Handler]
    <3>1. ASSUME NEW i \in Instance PROVE [run[i] EXCEPT !.read = AllOlder(@)] \in Handler
      BY <2>1, <1>types DEF Handler
    <3>2. QED BY <1>5, <3>1 DEF UsageTick
  <2>3. usage' \in [Model -> Conns]
    BY <1>5, <2>1, <1>types DEF UsageTick
  <2>4. QED BY <1>5, <2>2, <2>3 DEF TypeOK, UsageTick
<1>6. QED BY <1>1, <1>2, <1>3, <1>4, <1>5

LEMMA TypeInit == Init => TypeOK
  BY NobodyTyped, IdleTyped, LoopsAssumption DEF Init, TypeOK

LEMMA TypeStep == TypeOK /\ [Next]_vars => TypeOK'
<1>1. TypeOK /\ UNCHANGED vars => TypeOK'
  BY DEF TypeOK, vars
<1>2. TypeOK /\ Next => TypeOK'
  BY EventTyped, SectionTyped, LoopTyped DEF Next
<1>3. QED BY <1>1, <1>2

\* The pools' entries are absent or have an age up to the timeout, and a
\* handler is about one session at most.
THEOREM TypeCorrect == Spec => []TypeOK
  BY TypeInit, TypeStep, PTL DEF Spec
-------------------------------------------------------------------------------
\* A heartbeat that has found its session's entry blocks the event loop the
\* session's disconnect needs.
BeatsOpen ==
    \A i \in Instance : run[i].op = "beat" =>
        \A s \in run[i].sid : Home[s] = i /\ conn[s] = "open"

LEMMA BeatsStep == TypeOK /\ BeatsOpen /\ [Next]_vars => BeatsOpen'
<1> SUFFICES ASSUME TypeOK, BeatsOpen, [Next]_vars PROVE BeatsOpen'
  OBVIOUS
<1>types. DOMAIN run = Instance /\ DOMAIN conn = Session
          /\ \A i \in Instance : run[i].sid \subseteq Session
  BY HandlerParts DEF TypeOK
<1>1. ASSUME UNCHANGED <<run, conn>> PROVE BeatsOpen'
  BY <1>1 DEF BeatsOpen
<1>2. ASSUME NEW s \in Session, Connect(s) PROVE BeatsOpen'
  BY <1>2, <1>types DEF Connect, BeatsOpen
\* A handler that goes on is not a heartbeat.
<1>3. ASSUME NEW i \in Instance, conn' = conn,
             End(i) \/ \E op, sid, left, read : op # "beat" /\ Go(i, op, sid, left, read)
      PROVE  BeatsOpen'
  <2>1. \A j \in Instance \ {i} : run'[j] = run[j]
    BY <1>3, <1>types DEF End, Go
  <2>2. run'[i].op # "beat"
    BY <1>3, <1>types DEF End, Go, Idle
  <2>3. QED BY <1>3, <2>1, <2>2 DEF BeatsOpen
<1>4. ASSUME NEW s \in Session, Heartbeat(s) PROVE BeatsOpen'
  <2>1. /\ \A j \in Instance \ {Home[s]} : run'[j] = run[j]
        /\ run'[Home[s]].sid = {s}
        /\ conn' = conn /\ conn[s] = "open"
    BY <1>4, <1>types, HomeAssumption DEF Heartbeat, Go
  <2>2. QED BY <2>1 DEF BeatsOpen
<1>5. ASSUME NEW s \in Session, Usage(s) PROVE BeatsOpen'
  <2>1. conn' = conn /\ \E m \in Model : Go(Home[s], "usageExists", {s}, {m}, NoUsage)
    BY <1>5 DEF Usage
  <2>2. "usageExists" # "beat" /\ Home[s] \in Instance
    BY HomeAssumption
  <2>3. QED BY <2>1, <2>2, <1>3
<1>6. ASSUME NEW s \in Session, Disconnect(s) PROVE BeatsOpen'
  <2>1. /\ Home[s] \in Instance /\ run[Home[s]].op = "idle"
        /\ \A t \in Session \ {s} : conn'[t] = conn[t]
    BY <1>6, <1>types, HomeAssumption DEF Disconnect, Free
  <2>2. /\ \A j \in Instance \ {Home[s]} : run'[j] = run[j]
        /\ run'[Home[s]].op \in {"idle", "leaveGet"}
    BY <1>6, <2>1, <1>types DEF Disconnect, Go
  <2>3. \A j \in Instance : run'[j].op = "beat" => j # Home[s] /\ run'[j] = run[j]
    BY <2>2
  <2>4. QED BY <2>1, <2>3, <1>types DEF BeatsOpen
<1>7. ASSUME NEW i \in Instance, Section(i) PROVE BeatsOpen'
  <2>1. conn' = conn
    BY <1>7 DEF Section, HeartbeatSet, UsageExists, UsageGet, UsageSet, LeaveGet, LeaveDel,
        LeaveKeys, LeaveModel, LeaveSet, ReapGet, ReapDel, CleanModel
  <2>2. End(i) \/ \E op, sid, left, read : op # "beat" /\ Go(i, op, sid, left, read)
    <3>1. CASE HeartbeatSet(i) \/ UsageExists(i) \/ UsageGet(i) \/ UsageSet(i)
      BY <3>1 DEF HeartbeatSet, UsageExists, UsageGet, UsageSet
    <3>2. CASE LeaveGet(i) \/ LeaveDel(i) \/ LeaveKeys(i)
      BY <3>2 DEF LeaveGet, LeaveDel, LeaveKeys
    <3>3. CASE LeaveModel(i) \/ LeaveSet(i)
      BY <3>3 DEF LeaveModel, LeaveSet, LeaveOn
    <3>4. CASE ReapGet(i) \/ ReapDel(i)
      BY <3>4 DEF ReapGet, ReapDel, ReapOn
    <3>5. CASE CleanModel(i)
      BY <3>5 DEF CleanModel, CleanOn
    <3>6. QED BY <1>7, <3>1, <3>2, <3>3, <3>4, <3>5 DEF Section
  <2>3. QED BY <2>1, <2>2, <1>3
<1>8. ASSUME NEW i \in Instance, Reap(i) \/ Clean(i) PROVE BeatsOpen'
  <2>1. conn' = conn /\ \E op, left, read : op # "beat" /\ Go(i, op, {}, left, read)
    BY <1>8 DEF Reap, Clean
  <2>2. QED BY <2>1, <1>3
<1>9. ASSUME NEW i \in Instance, Crash(i) PROVE BeatsOpen'
  <2>1. /\ \A j \in Instance \ {i} : run'[j] = run[j]
        /\ run'[i].op = "idle"
        /\ \A s \in Session : Home[s] # i => conn'[s] = conn[s]
    BY <1>9, <1>types DEF Crash, Idle
  <2>2. QED BY <2>1, <1>types DEF BeatsOpen
<1>10. ASSUME UsageTick PROVE BeatsOpen'
  <2>1. \A i \in Instance : run'[i].op = run[i].op /\ run'[i].sid = run[i].sid
    <3>1. ASSUME NEW i \in Instance PROVE run'[i].op = run[i].op /\ run'[i].sid = run[i].sid
      <4>1. run'[i] = [run[i] EXCEPT !.read = AllOlder(@)]
        BY <1>10 DEF UsageTick
      <4>2. run[i] \in Handler
        BY DEF TypeOK
      <4>3. QED BY <4>1, <4>2 DEF Handler
    <3>2. QED BY <3>1
  <2>2. QED BY <1>10, <2>1 DEF UsageTick, BeatsOpen
<1>11. CASE UNCHANGED vars
  BY <1>11, <1>1 DEF vars
<1>12. \A s \in Session : UserJoin(s) \/ UserJoined(s) => UNCHANGED <<run, conn>>
  BY DEF UserJoin, UserJoined
<1>13. SessionTick => UNCHANGED <<run, conn>>
  BY DEF SessionTick
<1>14. QED
  BY <1>1, <1>2, <1>4, <1>5, <1>6, <1>7, <1>8, <1>9, <1>10, <1>11, <1>12, <1>13
     DEF Next, Event

\* The step that brings an entry back is a connect, a user-join or a heartbeat.
LEMMA StepRevivesNone ==
    ASSUME TypeOK, BeatsOpen, [Next]_vars,
           NEW s \in Session, conn[s] = "closed", pool[s] = Absent, s \notin awaiting
    PROVE  pool'[s] = Absent
<1>types. pool \in Conns
  BY DEF TypeOK
<1>1. ASSUME NEW t \in Session, Event(t) \/ UserJoined(t) PROVE pool'[s] = Absent
  <2>1. CASE Connect(t) \/ UserJoined(t)
    <3>1. t # s
      BY <2>1 DEF Connect, UserJoined
    <3>2. QED BY <2>1, <3>1, <1>types DEF Connect, UserJoined, Conns
  <2>2. CASE UserJoin(t) \/ Heartbeat(t) \/ Usage(t) \/ Disconnect(t)
    BY <2>2 DEF UserJoin, Heartbeat, Usage, Disconnect
  <2>3. QED BY <1>1, <2>1, <2>2 DEF Event
<1>2. ASSUME NEW i \in Instance, HeartbeatSet(i) PROVE pool'[s] = Absent
  <2>1. s \notin run[i].sid
    BY <1>2 DEF HeartbeatSet, At, BeatsOpen
  <2>2. QED BY <1>2, <2>1 DEF HeartbeatSet
<1>3. ASSUME NEW i \in Instance, LeaveDel(i) \/ ReapDel(i) PROVE pool'[s] = Absent
  BY <1>3, <1>types DEF LeaveDel, ReapDel, Conns
<1>4. ASSUME NEW i \in Instance, Section(i), ~HeartbeatSet(i), ~LeaveDel(i), ~ReapDel(i)
      PROVE  pool'[s] = Absent
  BY <1>4 DEF Section, UsageExists, UsageGet, UsageSet, LeaveGet, LeaveKeys, LeaveModel, LeaveSet,
      ReapGet, CleanModel
<1>5. ASSUME NEW i \in Instance, Reap(i) \/ Clean(i) \/ Crash(i) PROVE pool'[s] = Absent
  BY <1>5 DEF Reap, Clean, Crash
<1>6. CASE SessionTick
  BY <1>6, Ages DEF SessionTick
<1>7. CASE UsageTick \/ UNCHANGED vars
  BY <1>7 DEF UsageTick, vars
<1>8. QED BY <1>1, <1>2, <1>3, <1>4, <1>5, <1>6, <1>7 DEF Next

\* Only a user-join that was waiting for the database brings a disconnected
\* session's entry back, whatever heartbeats and cleanup passes were under way.
THEOREM StaysGone == Spec => ClosedNotRevived
<1> DEFINE Kept == \A s \in Session :
          conn[s] = "closed" /\ pool[s] = Absent /\ s \notin awaiting => pool'[s] = Absent
<1>1. Init => TypeOK /\ BeatsOpen
  BY TypeInit DEF Init, BeatsOpen, Idle
<1>2. TypeOK /\ BeatsOpen /\ [Next]_vars => (TypeOK /\ BeatsOpen)'
  BY TypeStep, BeatsStep
<1>3. TypeOK /\ BeatsOpen /\ [Next]_vars => [Kept]_vars
  BY StepRevivesNone
<1>4. QED BY <1>1, <1>2, <1>3, PTL DEF Spec, ClosedNotRevived
-------------------------------------------------------------------------------
\* On a single instance, whose event loop a handler blocks from its last await
\* to its next, what a handler has read is still so when it writes.
OneInstance == \A i, j \in Instance : i = j

SoloOK(op, sid, left, read) ==
    /\ op \in {"usageExists", "usageGet", "usageSet"} => \A s \in sid : conn[s] = "open"
    /\ op \in {"leaveGet", "leaveDel"} => \A s \in sid : conn[s] = "closed"
    /\ op = "reapDel" => \A s \in sid : pool[s] \in {Stale, Absent}
    /\ \A m \in Model, s \in Session : read[m][s] # Absent => usage[m][s] # Absent
    /\ op = "clean" => \A m \in Model, s \in Session :
          m \in left /\ usage[m][s] \in 0..Timeout => read[m][s] # Absent

SoloInv == \A i \in Instance : SoloOK(run[i].op, run[i].sid, run[i].left, run[i].read)

LEMMA AgesApart ==
    /\ Stale \notin 0..Timeout /\ Absent \notin 0..Timeout /\ Stale # Absent
    /\ \A age \in Age : (Older(age) # Absent <=> age # Absent)
    /\ \A age \in Age : Older(age) \in 0..Timeout => age \in 0..Timeout
    /\ Older(Stale) = Stale /\ Older(Absent) = Absent
  BY TimeoutAssumption DEF Absent, Stale, Age, Older

LEMMA NothingRead == \A m \in Model, s \in Session : NoUsage[m][s] = Absent
  BY DEF NoUsage, Nobody

\* The one handler goes on, and nothing else is to be shown.
LEMMA SoloGoes ==
    ASSUME OneInstance, TypeOK, NEW i \in Instance,
           \/ End(i)
           \/ \E op, sid, left, read : Go(i, op, sid, left, read) /\ SoloOK(op, sid, left, read)'
    PROVE  SoloInv'
<1>types. DOMAIN run = Instance
  BY DEF TypeOK
<1>1. CASE End(i)
  <2>1. /\ run'[i].op = "idle" /\ run'[i].sid = {} /\ run'[i].left = {}
        /\ run'[i].read = NoUsage
    BY <1>1, <1>types DEF End, Idle
  <2>2. SoloOK("idle", {}, {}, NoUsage)'
    BY NothingRead DEF SoloOK
  <2> QED BY <2>1, <2>2 DEF OneInstance, SoloInv, SoloOK
<1>2. ASSUME NEW op, NEW sid, NEW left, NEW read,
             Go(i, op, sid, left, read), SoloOK(op, sid, left, read)'
      PROVE  SoloInv'
  <2>1. /\ run'[i].op = op /\ run'[i].sid = sid /\ run'[i].left = left
        /\ run'[i].read = read
    BY <1>2, <1>types DEF Go
  <2> QED BY <1>2, <2>1 DEF OneInstance, SoloInv, SoloOK
<1> QED
  BY <1>1, <1>2

\* Nothing the handler relies on changes while it is idle.
LEMMA SoloIdles ==
    ASSUME OneInstance, TypeOK, SoloInv, NEW i \in Instance, run[i].op = "idle",
           UNCHANGED <<run, usage>>
    PROVE  SoloInv'
<1>1. \A j \in Instance : j = i
  BY DEF OneInstance
<1> QED
  BY <1>1 DEF SoloInv, SoloOK

LEMMA SoloStep ==
    ASSUME OneInstance, TypeOK, SoloInv, [Next]_vars
    PROVE  SoloInv'
<1>types. /\ DOMAIN run = Instance /\ DOMAIN conn = Session /\ pool \in Conns
          /\ usage \in [Model -> Conns]
          /\ \A i \in Instance : /\ run[i].sid \subseteq Session
                                 /\ run[i].read \in [Model -> Conns]
          /\ \A s \in Session : Home[s] \in Instance
  BY HandlerParts, HomeAssumption DEF TypeOK
<1>0. ASSUME NEW i \in Instance PROVE SoloOK(run[i].op, run[i].sid, run[i].left, run[i].read)
  BY DEF SoloInv
<1>1. ASSUME NEW s \in Session, Connect(s) \/ UserJoin(s) \/ UserJoined(s) PROVE SoloInv'
  <2>1. run[Home[s]].op = "idle" /\ UNCHANGED <<run, usage>>
    BY <1>1 DEF Connect, UserJoin, UserJoined, Free
  <2> QED BY <1>types, <2>1, SoloIdles
<1>2. ASSUME NEW s \in Session, Heartbeat(s) \/ Usage(s) PROVE SoloInv'
  <2>1. conn' = conn /\ conn[s] = "open"
    BY <1>2 DEF Heartbeat, Usage
  <2>2. ASSUME NEW op \in {"beat", "usageExists"}, NEW left, Go(Home[s], op, {s}, left, NoUsage)
        PROVE  SoloInv'
    <3>1. SoloOK(op, {s}, left, NoUsage)'
      BY <2>1, NothingRead DEF SoloOK
    <3> QED BY <1>types, <2>2, <3>1, SoloGoes
  <2> QED BY <1>2, <2>2 DEF Heartbeat, Usage
<1>3. ASSUME NEW s \in Session, Disconnect(s) PROVE SoloInv'
  <2>1. CASE Go(Home[s], "leaveGet", {s}, {}, NoUsage)
    <3>1. conn'[s] = "closed"
      BY <1>3, <1>types DEF Disconnect
    <3>2. SoloOK("leaveGet", {s}, {}, NoUsage)'
      BY <3>1, NothingRead DEF SoloOK
    <3> QED BY <1>types, <2>1, <3>2, SoloGoes
  <2>2. CASE UNCHANGED run
    <3>1. run[Home[s]].op = "idle" /\ UNCHANGED <<run, usage>>
      BY <1>3, <2>2 DEF Disconnect, Free
    <3> QED BY <1>types, <3>1, SoloIdles
  <2> QED BY <1>3, <2>1, <2>2 DEF Disconnect
\* A handler that has read nothing of USAGE_POOL and checked no entry.
<1>4. ASSUME NEW i \in Instance, NEW op, NEW sid, NEW left,
             Go(i, op, sid, left, NoUsage),
             op \in {"usageExists", "usageGet", "usageSet"} => \A s \in sid : conn'[s] = "open",
             op \in {"leaveGet", "leaveDel"} => \A s \in sid : conn'[s] = "closed",
             op \notin {"reapDel", "clean"}
      PROVE  SoloInv'
  <2>1. SoloOK(op, sid, left, NoUsage)'
    BY <1>4, NothingRead DEF SoloOK
  <2> QED BY <1>4, <2>1, SoloGoes
<1>5. ASSUME NEW i \in Instance, HeartbeatSet(i) \/ UsageSet(i) PROVE SoloInv'
  BY <1>5, SoloGoes DEF HeartbeatSet, UsageSet
<1>6. ASSUME NEW i \in Instance, UsageExists(i) PROVE SoloInv'
  <2>1. PICK m \in run[i].left :
           Go(i, IF Connected(m) THEN "usageGet" ELSE "usageSet", run[i].sid, {m}, NoUsage)
    BY <1>6 DEF UsageExists
  <2>2. conn' = conn /\ \A s \in run[i].sid : conn[s] = "open"
    BY <1>0, <1>6 DEF UsageExists, At, SoloOK
  <2> QED BY <1>4, <2>1, <2>2
<1>7. ASSUME NEW i \in Instance, UsageGet(i) PROVE SoloInv'
  <2>1. CASE End(i)
    BY <2>1, SoloGoes
  <2>2. ASSUME NEW m \in run[i].left,
               Go(i, "usageSet", run[i].sid, {m}, [NoUsage EXCEPT ![m] = usage[m]])
        PROVE  SoloInv'
    <3>1. UNCHANGED <<conn, usage>> /\ \A s \in run[i].sid : conn[s] = "open"
      BY <1>0, <1>7 DEF UsageGet, At, SoloOK
    <3>2. \A n \in Model : [NoUsage EXCEPT ![m] = usage[m]][n] \in {NoUsage[n], usage[n]}
      BY NobodyTyped
    <3> PICK sid, read : sid = run[i].sid /\ read = [NoUsage EXCEPT ![m] = usage[m]]
      OBVIOUS
    <3>3. SoloOK("usageSet", sid, {m}, read)'
      BY <3>1, <3>2, NothingRead DEF SoloOK
    <3> QED BY <2>2, <3>3, SoloGoes
  <2> QED BY <1>7, <2>1, <2>2 DEF UsageGet
<1>8. ASSUME NEW i \in Instance, LeaveGet(i) \/ LeaveDel(i) PROVE SoloInv'
  <2>1. CASE End(i)
    BY <2>1, SoloGoes
  <2>2. ASSUME NEW s \in run[i].sid, NEW op \in {"leaveDel", "leaveKeys"},
               Go(i, op, {s}, {}, NoUsage)
        PROVE  SoloInv'
    <3>1. conn' = conn /\ conn[s] = "closed"
      BY <1>0, <1>8 DEF LeaveGet, LeaveDel, At, SoloOK
    <3> QED BY <1>4, <2>2, <3>1
  <2> QED BY <1>8, <2>1, <2>2 DEF LeaveGet, LeaveDel
<1>9. ASSUME NEW i \in Instance, LeaveKeys(i) \/ LeaveModel(i) \/ LeaveSet(i) PROVE SoloInv'
  <2>1. CASE End(i)
    BY <2>1, SoloGoes
  <2>2. ASSUME NEW left, Go(i, "leaveModel", run[i].sid, left, NoUsage) PROVE SoloInv'
    BY <1>4, <2>2
  <2>3. ASSUME NEW m \in Model, NEW s,
               Go(i, "leaveSet", {s}, run[i].left, [NoUsage EXCEPT ![m] = usage[m]]),
               usage' = usage
        PROVE  SoloInv'
    <3>1. \A n \in Model : [NoUsage EXCEPT ![m] = usage[m]][n] \in {NoUsage[n], usage[n]}
      BY NobodyTyped
    <3> PICK left, read : left = run[i].left /\ read = [NoUsage EXCEPT ![m] = usage[m]]
      OBVIOUS
    <3>2. SoloOK("leaveSet", {s}, left, read)'
      BY <2>3, <3>1, NothingRead DEF SoloOK
    <3> QED BY <2>3, <3>2, SoloGoes
  <2>4. CASE LeaveModel(i)
    <3>1. PICK m \in run[i].left, s \in run[i].sid :
             IF usage[m][s] # Absent
             THEN Go(i, "leaveSet", {s}, run[i].left, [NoUsage EXCEPT ![m] = usage[m]])
             ELSE LeaveOn(i, run[i].left \ {m})
      BY <2>4 DEF LeaveModel
    <3>2. usage' = usage
      BY <2>4 DEF LeaveModel
    <3>3. CASE usage[m][s] # Absent
      <4>1. CASE m \in Model
        BY <2>3, <3>1, <3>2, <3>3, <4>1
      <4>2. CASE m \notin Model
        <5>1. [NoUsage EXCEPT ![m] = usage[m]] = NoUsage
          BY <4>2, NobodyTyped
        <5> QED BY <1>4, <3>1, <3>3, <5>1
      <4> QED BY <4>1, <4>2
    <3>4. CASE usage[m][s] = Absent
      BY <2>1, <2>2, <3>1, <3>4 DEF LeaveOn
    <3> QED BY <3>3, <3>4
  <2>5. CASE LeaveKeys(i) \/ LeaveSet(i)
    BY <2>1, <2>2, <2>5 DEF LeaveKeys, LeaveSet, LeaveOn
  <2> QED BY <1>9, <2>4, <2>5
<1>10. ASSUME NEW i \in Instance, Reap(i) \/ ReapGet(i) \/ ReapDel(i) PROVE SoloInv'
  <2>1. CASE End(i)
    BY <2>1, SoloGoes
  <2>2. ASSUME NEW sid, NEW left, Go(i, "reapGet", sid, left, NoUsage) PROVE SoloInv'
    BY <1>4, <2>2
  <2>3. ASSUME NEW s, NEW left, Go(i, "reapDel", {s}, left, NoUsage), pool'[s] = Stale
        PROVE  SoloInv'
    <3>1. SoloOK("reapDel", {s}, left, NoUsage)'
      BY <2>3, NothingRead DEF SoloOK
    <3> QED BY <2>3, <3>1, SoloGoes
  <2> QED BY <1>10, <2>1, <2>2, <2>3 DEF Reap, ReapGet, ReapDel, ReapOn
<1>11. ASSUME NEW i \in Instance, Clean(i) PROVE SoloInv'
  <2> DEFINE rest == [m \in Model |-> Unexpired(usage[m])]
  <2>1. usage' = usage /\ \E left : Go(i, "clean", {}, left, rest)
    BY <1>11 DEF Clean
  <2>2. \A m \in Model, s \in Session :
           rest[m][s] = IF usage[m][s] = Stale THEN Absent ELSE usage[m][s]
    BY DEF Unexpired
  <2> HIDE DEF rest
  <2> PICK read : read = rest
    OBVIOUS
  <2>3. ASSUME NEW left PROVE SoloOK("clean", {}, left, read)'
    BY <2>1, <2>2, AgesApart DEF SoloOK
  <2> QED BY <2>1, <2>3, SoloGoes
<1>12. ASSUME NEW i \in Instance, CleanModel(i) PROVE SoloInv'
  <2>1. CASE End(i)
    BY <2>1, SoloGoes
  <2>2. ASSUME NEW m \in run[i].left, usage' = [usage EXCEPT ![m] = run[i].read[m]],
               Go(i, "clean", {}, run[i].left \ {m}, run[i].read)
        PROVE  SoloInv'
    <3> PICK left, read : left = run[i].left /\ read = run[i].read
      OBVIOUS
    <3>1. \A n \in Model : usage'[n] = IF n = m THEN read[n] ELSE usage[n]
      BY <1>types, <2>2
    <3>2. SoloOK("clean", run[i].sid, left, read)
      BY <1>0, <1>12 DEF CleanModel, At
    <3>3. SoloOK("clean", {}, left \ {m}, read)'
      BY <3>1, <3>2 DEF SoloOK
    <3> QED BY <2>2, <3>3, SoloGoes
  <2> QED BY <1>12, <2>1, <2>2 DEF CleanModel, CleanOn
<1>13. ASSUME NEW i \in Instance, Crash(i) PROVE SoloInv'
  BY <1>13, SoloGoes DEF Crash, End
<1>14. CASE SessionTick
  <2>1. UNCHANGED <<conn, usage, run>> /\ \A s \in Session : pool'[s] = Older(pool[s])
    BY <1>14 DEF SessionTick
  <2>2. \A s \in Session : pool[s] \in {Stale, Absent} => pool'[s] \in {Stale, Absent}
    BY <2>1, AgesApart
  <2> QED BY <1>types, <2>1, <2>2 DEF SoloInv, SoloOK
<1>15. CASE UsageTick
  <2>1. /\ UNCHANGED <<conn, pool>>
        /\ \A m \in Model, s \in Session : usage'[m][s] = Older(usage[m][s])
    BY <1>15 DEF UsageTick, AllOlder
  <2>2. ASSUME NEW i \in Instance
        PROVE  /\ run'[i].op = run[i].op /\ run'[i].sid = run[i].sid
               /\ run'[i].left = run[i].left
               /\ \A m \in Model, s \in Session : run'[i].read[m][s] = Older(run[i].read[m][s])
    <3>1. run'[i] = [run[i] EXCEPT !.read = AllOlder(@)]
      BY <1>15 DEF UsageTick
    <3>2. run[i] \in Handler
      BY DEF TypeOK
    <3>3. run'[i].read = AllOlder(run[i].read)
      BY <3>1, <3>2 DEF Handler
    <3> QED BY <3>1, <3>2, <3>3 DEF Handler, AllOlder
  <2>3. \A m \in Model, s \in Session :
           usage[m][s] \in Age /\ \A i \in Instance : run[i].read[m][s] \in Age
    BY <1>types DEF Conns
  <2>4. ASSUME NEW i \in Instance
        PROVE  SoloOK(run[i].op, run[i].sid, run[i].left, run[i].read)'
    BY <1>0, <2>1, <2>2, <2>3, AgesApart DEF SoloOK
  <2> QED BY <2>4 DEF SoloInv
<1>16. CASE UNCHANGED vars
  BY <1>16 DEF vars, SoloInv, SoloOK
<1> QED
  BY <1>1, <1>2, <1>3, <1>5, <1>6, <1>7, <1>8, <1>9, <1>10, <1>11, <1>12, <1>13, <1>14,
     <1>15, <1>16 DEF Next, Event, Section

\* On one instance the comment of the session loop ("reap orphaned entries
\* that missed heartbeats") is right: an entry that is fresh is removed only by
\* its session's disconnect.
LEMMA SoloReaps ==
    ASSUME OneInstance, TypeOK, SoloInv, [Next]_vars,
           NEW s \in Session, pool[s] \in 0..Timeout, pool'[s] = Absent
    PROVE  conn[s] = "closed"
<1>types. pool \in Conns /\ \A i \in Instance : run[i].sid \subseteq Session
  BY HandlerParts DEF TypeOK
<1>1. pool'[s] # pool[s]
  BY AgesApart
<1>2. ASSUME NEW i \in Instance, LeaveDel(i) PROVE conn[s] = "closed"
  <2>1. s \in run[i].sid
    BY <1>1, <1>2, <1>types DEF LeaveDel, Conns
  <2> QED BY <1>2, <2>1 DEF LeaveDel, At, SoloInv, SoloOK
<1>3. ASSUME NEW i \in Instance, ReapDel(i) PROVE FALSE
  <2>1. s \in run[i].sid
    BY <1>1, <1>3, <1>types DEF ReapDel, Conns
  <2> QED BY <1>3, <2>1, AgesApart DEF ReapDel, At, SoloInv, SoloOK
<1>4. ASSUME NEW t \in Session, Event(t) \/ UserJoined(t) PROVE FALSE
  <2>1. pool'[s] \in {pool[s], 0}
    BY <1>4, <1>types
       DEF Event, Connect, UserJoin, UserJoined, Heartbeat, Usage, Disconnect, Conns
  <2> QED BY <1>1, <2>1, Ages, TimeoutAssumption DEF Absent
<1>5. ASSUME NEW i \in Instance, HeartbeatSet(i) PROVE FALSE
  <2>1. pool'[s] \in {pool[s], 0}
    BY <1>5 DEF HeartbeatSet
  <2> QED BY <1>1, <2>1 DEF Absent
<1>6. ASSUME NEW i \in Instance, Section(i), ~HeartbeatSet(i), ~LeaveDel(i), ~ReapDel(i)
      PROVE  FALSE
  BY <1>1, <1>6 DEF Section, UsageExists, UsageGet, UsageSet, LeaveGet, LeaveKeys, LeaveModel,
     LeaveSet, ReapGet, CleanModel
<1>7. ASSUME NEW i \in Instance, Reap(i) \/ Clean(i) \/ Crash(i) PROVE FALSE
  BY <1>1, <1>7 DEF Reap, Clean, Crash
<1>8. CASE SessionTick
  BY <1>8, <1>types, AgesApart DEF SessionTick, Conns
<1>9. CASE UsageTick \/ UNCHANGED vars
  BY <1>1, <1>9 DEF UsageTick, vars
<1> QED
  BY <1>2, <1>3, <1>4, <1>5, <1>6, <1>7, <1>8, <1>9 DEF Next

\* What a step may do to an entry of USAGE_POOL: a tick ages it, a handler
\* writes its own session's, puts back what it read or removes what expired.
LEMMA SoloUsage ==
    ASSUME OneInstance, TypeOK, SoloInv, [Next]_vars, NEW m \in Model, NEW s \in Session
    PROVE  /\ usage[m][s] = Absent /\ conn[s] = "closed" => usage'[m][s] = Absent
           /\ \A i \in Instance : Cleans(i) /\ usage[m][s] \in 0..Timeout => usage'[m][s] # Absent
<1>types. /\ usage \in [Model -> Conns] /\ DOMAIN run = Instance
          /\ \A n \in Model, t \in Session : usage[n][t] \in Age
  BY DEF TypeOK, Conns
<1> DEFINE Goal == /\ usage[m][s] = Absent /\ conn[s] = "closed" => usage'[m][s] = Absent
                   /\ \A i \in Instance : Cleans(i) /\ usage[m][s] \in 0..Timeout
                                          => usage'[m][s] # Absent
<1>0. ASSUME usage' = usage PROVE Goal
  BY <1>0, AgesApart
<1>1. ASSUME NEW t \in Session, Event(t) \/ UserJoined(t) PROVE usage' = usage
  BY <1>1 DEF Event, Connect, UserJoin, UserJoined, Heartbeat, Usage, Disconnect
<1>2. ASSUME NEW i \in Instance, UsageSet(i) PROVE Goal
  <2>1. ~Cleans(i) /\ \A j \in Instance : j = i
    BY <1>2 DEF UsageSet, At, Cleans, OneInstance
  <2>2. conn[s] = "closed" => s \notin run[i].sid
    BY <1>2 DEF UsageSet, At, SoloInv, SoloOK
  <2>3. usage[m][s] = Absent => run[i].read[m][s] = Absent
    BY DEF SoloInv, SoloOK
  <2>4. usage'[m] = IF m \in run[i].left
                    THEN [t \in Session |-> IF t \in run[i].sid THEN 0 ELSE run[i].read[m][t]]
                    ELSE usage[m]
    BY <1>2 DEF UsageSet
  <2>5. conn[s] = "closed" /\ usage[m][s] = Absent => usage'[m][s] = Absent
    BY <2>2, <2>3, <2>4
  <2> QED BY <2>1, <2>5
<1>3. ASSUME NEW i \in Instance, LeaveSet(i) PROVE Goal
  <2>1. ~Cleans(i) /\ \A j \in Instance : j = i
    BY <1>3 DEF LeaveSet, At, Cleans, OneInstance
  <2>2. CASE usage' = usage
    BY <1>0, <2>2
  <2>3. ASSUME NEW n \in Model, NEW t,
               usage' = [usage EXCEPT ![n] = [run[i].read[n] EXCEPT ![t] = Absent]]
        PROVE  Goal
    <3>1. run[i].read[m] \in Conns
      BY HandlerParts DEF TypeOK
    <3>2. usage[m][s] = Absent => run[i].read[m][s] = Absent
      BY DEF SoloInv, SoloOK
    <3>3. usage[m][s] = Absent => usage'[m][s] = Absent
      BY <1>types, <2>3, <3>1, <3>2 DEF Conns
    <3> QED BY <2>1, <3>3
  <2> QED BY <1>3, <2>2, <2>3 DEF LeaveSet
<1>4. ASSUME NEW i \in Instance, CleanModel(i) PROVE Goal
  <2>1. CASE usage' = usage
    BY <1>0, <2>1
  <2>2. ASSUME NEW n \in run[i].left, usage' = [usage EXCEPT ![n] = run[i].read[n]]
        PROVE  Goal
    <3>1. /\ usage[m][s] = Absent => run[i].read[m][s] = Absent
          /\ m \in run[i].left /\ usage[m][s] \in 0..Timeout => run[i].read[m][s] # Absent
      BY <1>4 DEF SoloInv, SoloOK, CleanModel, At
    <3>2. usage'[m] = IF n = m THEN run[i].read[m] ELSE usage[m]
      BY <1>types, <2>2
    <3> QED BY <2>2, <3>1, <3>2, AgesApart
  <2> QED BY <1>4, <2>1, <2>2 DEF CleanModel
<1>5. ASSUME NEW i \in Instance, Section(i), ~UsageSet(i), ~LeaveSet(i), ~CleanModel(i)
      PROVE  usage' = usage
  BY <1>5 DEF Section, HeartbeatSet, UsageExists, UsageGet, LeaveGet, LeaveDel, LeaveKeys,
     LeaveModel, ReapGet, ReapDel
<1>6. ASSUME NEW i \in Instance, Reap(i) \/ Clean(i) \/ Crash(i) PROVE usage' = usage
  BY <1>6 DEF Reap, Clean, Crash
<1>7. CASE UsageTick
  <2>1. usage'[m][s] = Older(usage[m][s])
    BY <1>7 DEF UsageTick, AllOlder
  <2> QED BY <1>types, <2>1, AgesApart
<1>8. SessionTick \/ UNCHANGED vars => usage' = usage
  BY DEF SessionTick, vars
<1>9. Goal
  BY <1>0, <1>1, <1>2, <1>3, <1>4, <1>5, <1>6, <1>7, <1>8 DEF Next
<1> QED
  BY <1>9

LEMMA SoloInvariant == OneInstance => (Spec => [](TypeOK /\ SoloInv))
<1> SUFFICES ASSUME OneInstance PROVE Spec => [](TypeOK /\ SoloInv)
  OBVIOUS
<1>1. Init => TypeOK /\ SoloInv
  BY TypeInit, NothingRead DEF Init, SoloInv, SoloOK, Idle
<1>2. TypeOK /\ SoloInv /\ [Next]_vars => (TypeOK /\ SoloInv)'
  BY TypeStep, SoloStep
<1> QED
  BY <1>1, <1>2, PTL DEF Spec

\* The session loop of a deployment of one instance reaps only sessions that
\* missed their heartbeats: no heartbeat comes between its read of an entry
\* and its deletion.  With two instances one may (section 4 of the README).
THEOREM ReapsOnlyMissed == OneInstance => (Spec => OnlyMissedReaped)
<1> SUFFICES ASSUME OneInstance PROVE Spec => OnlyMissedReaped
  OBVIOUS
<1> DEFINE Missed == \A s \in Session :
          pool[s] \in 0..Timeout /\ pool'[s] = Absent => conn[s] = "closed"
<1>1. TypeOK /\ SoloInv /\ [Next]_vars => [Missed]_vars
  BY SoloReaps
<1> QED
  BY <1>1, SoloInvariant, PTL DEF Spec, OnlyMissedReaped

\* Its usage loop drops no connection that is fresh ("if they have timed out"):
\* what it writes back is what it read, without what had expired.
THEOREM CleansOnlyExpired == OneInstance => (Spec => OnlyExpiredCleaned)
<1> SUFFICES ASSUME OneInstance PROVE Spec => OnlyExpiredCleaned
  OBVIOUS
<1> DEFINE Expired == \A i \in Instance : Cleans(i) =>
          \A m \in Model, s \in Session :
             usage[m][s] \in 0..Timeout => usage'[m][s] # Absent
<1>1. TypeOK /\ SoloInv /\ [Next]_vars => [Expired]_vars
  BY SoloUsage
<1> QED
  BY <1>1, SoloInvariant, PTL DEF Spec, OnlyExpiredCleaned

\* And a session that has left and is gone from USAGE_POOL stays out of it
\* ("clean up entries for this session"): no handler holds an older copy.
THEOREM ClosedUnusedStays == OneInstance => (Spec => ClosedStaysUnused)
<1> SUFFICES ASSUME OneInstance PROVE Spec => ClosedStaysUnused
  OBVIOUS
<1> DEFINE Stays == \A s \in Session : conn[s] = "closed" /\ Unused(s) => Unused(s)'
<1>1. TypeOK /\ SoloInv /\ [Next]_vars => [Stays]_vars
  <2> SUFFICES ASSUME TypeOK, SoloInv, [Next]_vars, NEW s \in Session,
                      conn[s] = "closed", Unused(s), NEW m \in Model
               PROVE  usage'[m][s] = Absent
    BY DEF Unused
  <2> QED BY SoloUsage DEF Unused
<1> QED
  BY <1>1, SoloInvariant, PTL DEF Spec, ClosedStaysUnused
-------------------------------------------------------------------------------
(***************************************************************************)
(* The lock of the cleanup loops.  When it outlives the sleep between two   *)
(* passes (LockOutlivesSleep), at most one instance is ever in the loop, for *)
(* any number of instances and any times.  The invariant is a budget: at each *)
(* step of the loop the lock lives longer than the loop can still take to the *)
(* step that renews, or deletes, it.                                         *)
(***************************************************************************)

\* No step of a running loop is later than Lag.
Punctual(i) == Running(i) => due[i] >= -Lag

\* The lock is i's as long as i needs it.
Budget(i) ==
    /\ pc[i] = "renew" => owner = i /\ ttl >= due[i] + Lag + 1
    /\ pc[i] = "scan" => owner = i /\ ttl >= due[i] + Sleep + 3 * Lag + 1
    /\ pc[i] = "release" => owner = i /\ ttl >= due[i] + 2 * Lag + 1
    /\ pc[i] = "unlock" => owner = i /\ ttl >= due[i] + Lag + 1

LockInv ==
    /\ LoopTypeOK
    /\ \A i \in Instance : Punctual(i)
    /\ \A i \in Instance : Budget(i)

USE DEF Goto, Ready, Running, Holding

\* Initially no loop holds the lock, and every variable has its type.
LEMMA LockInvInit == LoopInit => LockInv
  BY NamesAssumption, TimesAssumption DEF LoopInit, LockInv, LoopTypeOK, PC, Punctual, Budget

\* The variables keep their types: in particular the lock never lives longer
\* than the TTL, and an instance never makes more than Retries + 1 attempts.
LEMMA LoopTypeStep == LoopTypeOK /\ [LoopNext]_loopVars => LoopTypeOK'
  <1> SUFFICES ASSUME LoopTypeOK, [LoopNext]_loopVars PROVE LoopTypeOK'
    OBVIOUS
  <1> USE NamesAssumption, TimesAssumption DEF LoopTypeOK, PC
  <1>1. ASSUME NEW i \in Instance, Acquire(i) PROVE LoopTypeOK'
    BY <1>1 DEF Acquire
  <1>2. ASSUME NEW i \in Instance, AcquireFails(i) PROVE LoopTypeOK'
    <2>1. tries[i] < Retries => tries[i] + 1 \in 0..Retries
      <3>1. tries[i] \in 0..Retries
        OBVIOUS
      <3> QED BY <3>1
    <2>2. delay[i] \in Int
      OBVIOUS
    <2> QED BY <1>2, <2>1, <2>2 DEF AcquireFails
  <1>3. ASSUME NEW i \in Instance, Renew(i) PROVE LoopTypeOK'
    BY <1>3 DEF Renew
  <1>4. ASSUME NEW i \in Instance, Scan(i) PROVE LoopTypeOK'
    BY <1>4 DEF Scan
  <1>5. ASSUME NEW i \in Instance, ScanFails(i) PROVE LoopTypeOK'
    BY <1>5 DEF ScanFails
  <1>6. ASSUME NEW i \in Instance, Release(i) PROVE LoopTypeOK'
    BY <1>6 DEF Release
  <1>7. ASSUME NEW i \in Instance, Unlock(i) PROVE LoopTypeOK'
    BY <1>7 DEF Unlock
  <1>8. ASSUME NEW i \in Instance, LoopCrash(i) PROVE LoopTypeOK'
    BY <1>8 DEF LoopCrash
  <1>9. ASSUME NEW i \in Instance, Restart(i) PROVE LoopTypeOK'
    BY <1>9 DEF Restart
  <1>10. CASE Tick
    BY <1>10 DEF Tick
  <1>11. CASE UNCHANGED loopVars
    BY <1>11 DEF loopVars
  <1> QED BY <1>1, <1>2, <1>3, <1>4, <1>5, <1>6, <1>7, <1>8, <1>9, <1>10, <1>11
          DEF LoopNext, LoopStep

\* Every step keeps every loop punctual and within its budget.
LEMMA LockInvStep == LockOutlivesSleep /\ LockInv /\ [LoopNext]_loopVars => LockInv'
  <1> SUFFICES ASSUME LockOutlivesSleep, LockInv, [LoopNext]_loopVars,
                      LoopTypeOK',
                      NEW j \in Instance
               PROVE  Punctual(j)' /\ Budget(j)'
    BY LoopTypeStep DEF LockInv
  <1> USE NamesAssumption, TimesAssumption
      DEF LockInv, LoopTypeOK, PC, Punctual, Budget, LockOutlivesSleep
  <1>1. ASSUME NEW i \in Instance, Acquire(i) PROVE Punctual(j)' /\ Budget(j)'
    BY <1>1 DEF Acquire
  <1>2. ASSUME NEW i \in Instance, AcquireFails(i) PROVE Punctual(j)' /\ Budget(j)'
    BY <1>2 DEF AcquireFails
  <1>3. ASSUME NEW i \in Instance, Renew(i) PROVE Punctual(j)' /\ Budget(j)'
    BY <1>3 DEF Renew
  <1>4. ASSUME NEW i \in Instance, Scan(i) PROVE Punctual(j)' /\ Budget(j)'
    BY <1>4 DEF Scan
  <1>5. ASSUME NEW i \in Instance, ScanFails(i) PROVE Punctual(j)' /\ Budget(j)'
    BY <1>5 DEF ScanFails
  <1>6. ASSUME NEW i \in Instance, Release(i) PROVE Punctual(j)' /\ Budget(j)'
    BY <1>6 DEF Release
  <1>7. ASSUME NEW i \in Instance, Unlock(i) PROVE Punctual(j)' /\ Budget(j)'
    BY <1>7 DEF Unlock
  <1>8. ASSUME NEW i \in Instance, LoopCrash(i) PROVE Punctual(j)' /\ Budget(j)'
    BY <1>8 DEF LoopCrash
  <1>9. ASSUME NEW i \in Instance, Restart(i) PROVE Punctual(j)' /\ Budget(j)'
    BY <1>9 DEF Restart
  <1>10. CASE Tick
    BY <1>10 DEF Tick
  <1>11. CASE UNCHANGED loopVars
    BY <1>11 DEF loopVars
  <1> QED BY <1>1, <1>2, <1>3, <1>4, <1>5, <1>6, <1>7, <1>8, <1>9, <1>10, <1>11
          DEF LoopNext, LoopStep

\* Type correctness needs no assumption on the times.
THEOREM LoopTypeCorrect == LoopSpec => []LoopTypeOK
  <1>1. LoopInit => LoopTypeOK
    BY LockInvInit DEF LockInv
  <1> QED BY <1>1, LoopTypeStep, PTL DEF LoopSpec

\* The budget is an invariant when the lock outlives the sleep.
THEOREM LockInductive == LockOutlivesSleep => (LoopSpec => []LockInv)
  <1> SUFFICES ASSUME LockOutlivesSleep PROVE LoopSpec => []LockInv
    OBVIOUS
  <1>1. LockInv /\ [LoopNext]_loopVars => LockInv'
    BY LockInvStep
  <1> QED BY LockInvInit, <1>1, PTL DEF LoopSpec

\* Mutual exclusion of the loop the lock protects (RedisLock, used by
\* periodic_usage_pool_cleanup): no crash, restart or delay up to Lag puts two
\* instances in it, when a pass and its sleep fit in the life of the lock.
THEOREM MutualExclusion == LockOutlivesSleep => (LoopSpec => []AtMostOneCleaner)
  <1> SUFFICES ASSUME LockOutlivesSleep PROVE LoopSpec => []AtMostOneCleaner
    OBVIOUS
  <1>1. LockInv => AtMostOneCleaner
    BY DEF LockInv, Budget, AtMostOneCleaner
  <1>2. LoopSpec => []LockInv
    BY LockInductive
  <1> QED BY <1>1, <1>2, PTL

\* Under the same condition a loop never loses its lock: renew_lock always
\* finds the key, so the loop ends only by an exception or a crash.
NeverLost == \A i \in Instance : pc[i] = "renew" => owner = i

\* renew_lock succeeds in every reachable state.
THEOREM LockIsKept == LockOutlivesSleep => (LoopSpec => []NeverLost)
  <1> SUFFICES ASSUME LockOutlivesSleep PROVE LoopSpec => []NeverLost
    OBVIOUS
  <1>1. LockInv => NeverLost
    BY DEF LockInv, Budget, NeverLost
  <1>2. LoopSpec => []LockInv
    BY LockInductive
  <1> QED BY <1>1, <1>2, PTL
===============================================================================
