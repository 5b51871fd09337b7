----------------------- MODULE AutomationScheduler_proofs -----------------------
(***************************************************************************)
(* Proofs about the two jobs of the scheduler loop.  AutomationScheduler:    *)
(* any number of instances, automations and requests, any rules, Limit and  *)
(* MaxCount.  CalendarAlerts, the last part: any instances, events, windows *)
(* and edits.                                                               *)
(***************************************************************************)
EXTENDS AutomationScheduler, CalendarAlerts, FiniteSetTheorems, SequenceTheorems,
        WellFoundedInduction, TLAPS

\* A bounded set of natural numbers that is not empty has a least element.
LEMMA MinIsLeast ==
    ASSUME NEW S \in SUBSET Nat, S # {}, NEW n \in Nat, \A s \in S : s <= n
    PROVE  Min(S) \in S /\ \A x \in S : Min(S) <= x
<1> DEFINE Below(x) == {y \in S : y < x}
           Downs == {Below(x) : x \in S}
<1>1. IsFiniteSet(S)
  BY FS_BoundedSetOfNaturals
<1>2. IsWellFoundedOn(StrictSubsetOrdering(S), SUBSET S)
  BY <1>1, FS_StrictSubsetOrderingWellFounded, FS_FiniteSubsetsOfFinite
<1>3. Downs \subseteq SUBSET S /\ Downs # {}
  OBVIOUS
<1>4. PICK d \in Downs : \A e \in Downs : <<e, d>> \notin StrictSubsetOrdering(S)
  <2> HIDE DEF Downs
  <2> QED BY <1>2, <1>3, WFMin, Zenon
<1>5. PICK x \in S : d = Below(x)
  OBVIOUS
<1>6. \A y \in S : x <= y
  <2>1. SUFFICES ASSUME NEW y \in S, y < x PROVE FALSE
    OBVIOUS
  <2>2. \A z \in S : z < y => z < x
    BY <2>1, SMT
  <2>3. ~(y < y)
    BY SMT
  <2>4. Below(y) \subseteq Below(x) /\ y \in Below(x) /\ y \notin Below(y)
    BY <2>1, <2>2, <2>3, Zenon
  <2>5. <<Below(y), d>> \in StrictSubsetOrdering(S)
    BY <2>4, <1>5 DEF StrictSubsetOrdering
  <2>6. QED BY <2>5, <1>4
<1>7. QED BY <1>6 DEF Min

\* The next run of a rule is Never or an instant: one that is to come, unless
\* the clock shows an hour again.
LEMMA NextRunLater ==
    ASSUME now \in 0..Horizon, NEW rule \in Rule \cup {{}}
    PROVE  NextRun(rule) \in Time /\ (~HourRepeats => NextRun(rule) > now)
<1> DEFINE coming == {d \in rule : d > Wall[now]}
<1>1. rule \subseteq 0..Horizon /\ Horizon \in Nat
  BY BoundsAssumption
<1>2. coming \subseteq 0..Horizon
  BY <1>1
<1>3. Never \in Time /\ Never > now
  BY <1>1 DEF Never, Time
<1>4. CASE coming = {}
  <2>1. NextRun(rule) = Never
    BY <1>4 DEF NextRun
  <2> QED BY <1>3, <2>1
<1>5. CASE coming # {}
  <2> DEFINE first == Min(coming)
  <2>1. first \in coming
    <3>1. coming \in SUBSET Nat /\ \A d \in coming : d <= Horizon
      BY <1>1, <1>2
    <3> HIDE DEF coming
    <3> QED BY <1>1, <1>5, <3>1, MinIsLeast
  <2>2. first \in 0..Horizon /\ first > Wall[now]
    BY <1>2, <2>1
  <2>3. NextRun(rule) = Instant[first]
    BY <1>5 DEF NextRun
  <2> HIDE DEF first
  <2>4. Instant[first] \in 0..Horizon
    BY <2>2, ClockAssumption
  <2>5. ~HourRepeats => ~(Instant[first] <= now)
    BY <2>2 DEF HourRepeats
  <2> QED BY <1>1, <2>3, <2>4, <2>5 DEF Time, Never
<1>6. QED BY <1>4, <1>5

-------------------------------------------------------------------------------
\* What a claim has read is in the row of the automation it has read it of.
LEMMA ReadOfBatch ==
    ASSUME TypeOK, NEW i \in Instance, NEW a \in BatchOf(i)
    PROVE  /\ ReadOf(i, a) \in Row /\ a \in Automation
           /\ [id |-> a, row |-> ReadOf(i, a)] \in worker[i].read
<1>1. PICK c \in worker[i].read : c.id = a
  BY DEF BatchOf
<1> DEFINE d == CHOOSE e \in worker[i].read : e.id = a
<1>2. d \in worker[i].read /\ d.id = a
  BY <1>1
<1>3. worker[i].read \subseteq [id: Automation, row: Row]
  BY DEF TypeOK
<1>4. d \in [id: Automation, row: Row]
  BY <1>2, <1>3
<1>5. d = [id |-> a, row |-> d.row]
  BY <1>2, <1>4
<1>6. ReadOf(i, a) = d.row
  BY DEF ReadOf
<1>7. QED BY <1>2, <1>4, <1>5, <1>6

LEMMA NoRowTyped == NoRow \in Row
  BY BoundsAssumption DEF NoRow, Row, Time, Never

LEMMA FlushTyped ==
    ASSUME NEW current \in Row, NEW old \in Row, NEW new \in Row
    PROVE  Flush(current, old, new) \in Row
  BY DEF Flush, Row

LEMMA AdvancedTyped ==
    ASSUME now \in 0..Horizon, NEW old \in Row
    PROVE  Advanced(old) \in Row /\ Advanced(old).next = NextRun(old.rule)
<1>1. old.rule \in Rule \cup {{}}
  BY DEF Row
<1>2. QED BY <1>1, NextRunLater DEF Advanced, Row

LEMMA NewIdUnused ==
    ASSUME Unused # {}
    PROVE  NewId \in Unused
  BY DEF NewId

\* Type correctness is inductive.
LEMMA TypeStep == TypeOK /\ [Next]_vars => TypeOK'
<1> SUFFICES ASSUME TypeOK, [Next]_vars PROVE TypeOK'
  OBVIOUS
<1> USE DEF TypeOK, history
<1>now. now \in 0..Horizon
  OBVIOUS
<1>1. ASSUME NEW i \in Instance, Select(i) PROVE TypeOK'
  <2>1. PICK batch \in SUBSET Claimable :
           worker' = [worker EXCEPT ![i] =
                         [pc |-> "claim", read |-> {[id |-> a, row |-> row[a]] : a \in batch}]]
    BY <1>1 DEF Select
  <2>2. batch \subseteq Automation
    BY DEF Claimable, Due, Existing
  <2>3. {[id |-> a, row |-> row[a]] : a \in batch} \subseteq [id: Automation, row: Row]
    BY <2>2
  <2>4. QED BY <1>1, <2>1, <2>3 DEF Select
<1>2. ASSUME NEW i \in Instance, Commit(i) PROVE TypeOK'
  <2>1. worker' = [worker EXCEPT ![i] = [pc |-> "sleep", read |-> {}]]
    BY <1>2 DEF Commit
  <2>2. CASE BatchOf(i) \subseteq Existing
    <3>1. \A a \in BatchOf(i) : /\ ReadOf(i, a) \in Row
                                /\ Flush(row[a], ReadOf(i, a), Advanced(ReadOf(i, a))) \in Row
      BY ReadOfBatch, AdvancedTyped, FlushTyped, <1>now
    <3>2. \A a \in BatchOf(i) : ReadOf(i, a).next \in Time
      BY <3>1 DEF Row
    <3>3. QED BY <1>2, <2>1, <2>2, <3>1, <3>2 DEF Commit
  <2>3. CASE ~(BatchOf(i) \subseteq Existing)
    BY <1>2, <2>1, <2>3 DEF Commit
  <2>4. QED BY <2>2, <2>3
<1>3. ASSUME NEW i \in Instance, Crash(i) PROVE TypeOK'
  BY <1>3 DEF Crash
<1>4. ASSUME NEW i \in Instance, Restart(i) PROVE TypeOK'
  BY <1>4 DEF Restart
<1>5. ASSUME NEW q \in Request, Create(q) PROVE TypeOK'
  <2>1. PICK r \in Rule, on \in BOOLEAN :
           req' = [req EXCEPT ![q] = Begun("insert", NewId, NoRow,
                     [exists |-> TRUE, active |-> on, next |-> NextRun(r), rule |-> r])]
    BY <1>5 DEF Create
  <2>2. NewId \in Automation
    BY <1>5, NewIdUnused DEF Create, Unused
  <2>3. [exists |-> TRUE, active |-> on, next |-> NextRun(r), rule |-> r] \in Row
    BY <1>now, NextRunLater DEF Row
  <2>4. QED BY <1>5, <2>1, <2>2, <2>3, NoRowTyped DEF Create, Begun
<1>6. ASSUME NEW q \in Request, Insert(q) PROVE TypeOK'
  BY <1>6, NoRowTyped DEF Insert, Idle
<1>7. ASSUME NEW q \in Request, Update(q) PROVE TypeOK'
  <2>1. PICK a \in Existing, r \in Rule, on \in BOOLEAN :
           req' = [req EXCEPT ![q] = Begun("update", a, NoRow,
                     [exists |-> TRUE, active |-> on, next |-> NextRun(r), rule |-> r])]
    BY <1>7 DEF Update
  <2>2. [exists |-> TRUE, active |-> on, next |-> NextRun(r), rule |-> r] \in Row
    BY <1>now, NextRunLater DEF Row
  <2>3. QED BY <1>7, <2>1, <2>2, NoRowTyped DEF Update, Begun, Existing
<1>8. ASSUME NEW q \in Request, Toggle(q) PROVE TypeOK'
  <2>1. PICK a \in Existing :
           req' = [req EXCEPT ![q] =
                     Begun("toggle", a, NoRow, [row[a] EXCEPT !.next = NextRun(row[a].rule)])]
    BY <1>8 DEF Toggle
  <2>2. row[a] \in Row /\ row[a].rule \in Rule \cup {{}}
    BY DEF Existing, Row
  <2>3. [row[a] EXCEPT !.next = NextRun(row[a].rule)] \in Row
    BY <2>2, <1>now, NextRunLater DEF Row
  <2>4. QED BY <1>8, <2>1, <2>3, NoRowTyped DEF Toggle, Begun, Existing
<1>9. ASSUME NEW q \in Request, Load(q) PROVE TypeOK'
  <2>1. PICK a \in req[q].id :
          LET old == row[a]
              new == IF req[q].pc = "update" THEN req[q].new
                     ELSE [old EXCEPT !.active = ~old.active,
                                      !.next = IF old.active THEN Never ELSE req[q].new.next]
          IN  /\ req' = [req EXCEPT ![q] = IF old.exists THEN Begun("write", a, old, new) ELSE Idle]
              /\ late' = IF old.exists THEN late ELSE late \ {q}
    BY <1>9 DEF Load
  <2> DEFINE new == IF req[q].pc = "update" THEN req[q].new
                    ELSE [row[a] EXCEPT !.active = ~row[a].active,
                                        !.next = IF row[a].active THEN Never ELSE req[q].new.next]
  <2>2. a \in Automation /\ row[a] \in Row /\ req[q].new \in Row
    OBVIOUS
  <2>3. Never \in Time /\ req[q].new.next \in Time
    BY <2>2, BoundsAssumption DEF Never, Time, Row
  <2>4. new \in Row
    BY <2>2, <2>3 DEF Row
  <2>5. Begun("write", a, row[a], new) \in [pc: {"idle", "insert", "update", "toggle", "write"},
                            id: SUBSET Automation, old: Row, new: Row]
    BY <2>2, <2>4 DEF Begun
  <2>6. QED BY <1>9, <2>1, <2>5, NoRowTyped DEF Load, Idle
<1>10. ASSUME NEW q \in Request, Write(q) PROVE TypeOK'
  <2>1. PICK a \in req[q].id :
          row' = IF row[a].exists
                 THEN [row EXCEPT ![a] = Flush(@, req[q].old, req[q].new)] ELSE row
    BY <1>10 DEF Write
  <2>2. row' \in [Automation -> Row]
    BY <2>1, FlushTyped
  <2>3. QED BY <1>10, <2>2, NoRowTyped DEF Write, Idle
<1>11. ASSUME NEW q \in Request, Delete(q) PROVE TypeOK'
  <2>1. PICK a \in Existing \ Locked : /\ row' = [row EXCEPT ![a] = NoRow]
                                      /\ last' = [last EXCEPT ![a] = -1]
    BY <1>11 DEF Delete
  <2>2. row' \in [Automation -> Row] /\ last' \in [Automation -> Time \cup {-1}]
    BY <2>1, NoRowTyped
  <2>3. QED BY <1>11, <2>2 DEF Delete
<1>12. CASE Tick
  BY <1>12, BoundsAssumption DEF Tick
<1>13. CASE UNCHANGED vars
  BY <1>13 DEF vars
<1>14. QED
  BY <1>1, <1>2, <1>3, <1>4, <1>5, <1>6, <1>7, <1>8, <1>9, <1>10, <1>11, <1>12, <1>13
     DEF Next, WorkerStep, RequestStep

LEMMA TypeInit == Init => TypeOK
  BY NoRowTyped, BoundsAssumption DEF Init, TypeOK, Idle, Time, Never

\* The variables keep their types.
THEOREM TypeCorrect == Spec => []TypeOK
  BY TypeInit, TypeStep, PTL DEF Spec
-------------------------------------------------------------------------------
LEMMA Smaller ==
    ASSUME NEW S, IsFiniteSet(S), NEW T \in SUBSET S
    PROVE  /\ Cardinality(T) <= Cardinality(S)
           /\ Cardinality(T) \in Nat /\ Cardinality(S) \in Nat
<1>1. IsFiniteSet(T) /\ Cardinality(T) <= Cardinality(S)
  BY FS_Subset
<1>2. QED BY <1>1, FS_CardinalityType

\* Rows and creations under way are the fewer, the fewer there are of each.
LEMMA NoMore ==
    ASSUME BoundedOvershoot, Existing' \subseteq Existing, Inserting' \subseteq Inserting
    PROVE  BoundedOvershoot'
<1>1. IsFiniteSet(Existing) /\ IsFiniteSet(Inserting)
  BY FS_Subset, FiniteAssumption DEF Existing, Inserting
<1>2. Cardinality(Existing') <= Cardinality(Existing) /\ Cardinality(Existing') \in Nat
  BY <1>1, Smaller
<1>3. Cardinality(Inserting') <= Cardinality(Inserting) /\ Cardinality(Inserting') \in Nat
  BY <1>1, Smaller
<1>4. /\ Cardinality(Existing) \in Nat /\ Cardinality(Inserting) \in Nat
      /\ Cardinality(Request) \in Nat /\ MaxCount \in Nat
  BY <1>1, FS_CardinalityType, FiniteAssumption, BoundsAssumption
<1>5. QED BY <1>2, <1>3, <1>4 DEF BoundedOvershoot

LEMMA OvershootStep == TypeOK /\ BoundedOvershoot /\ [Next]_vars => BoundedOvershoot'
<1> SUFFICES ASSUME TypeOK, BoundedOvershoot, [Next]_vars PROVE BoundedOvershoot'
  OBVIOUS
<1>types. row \in [Automation -> Row] /\ DOMAIN req = Request
  BY DEF TypeOK
<1>1. ASSUME UNCHANGED <<row, req>> PROVE BoundedOvershoot'
  BY <1>1, NoMore DEF Existing, Inserting
<1>2. ASSUME NEW i \in Instance, Commit(i) PROVE BoundedOvershoot'
  <2>1. Existing' \subseteq Existing
    BY <1>2, <1>types DEF Commit, Existing
  <2>2. QED BY <1>2, <2>1, NoMore DEF Commit, Inserting
<1>3. ASSUME NEW q \in Request, Create(q) PROVE BoundedOvershoot'
  <2>1. Existing' = Existing /\ (MaxCount # 0 => Cardinality(Existing) < MaxCount)
    BY <1>3 DEF Create, Existing, BelowLimit
  <2>2. Inserting' \subseteq Request /\ Existing \subseteq Automation
    BY DEF Inserting, Existing
  <2>3. Cardinality(Inserting') <= Cardinality(Request)
        /\ Cardinality(Inserting') \in Nat /\ Cardinality(Request) \in Nat
    BY <2>2, Smaller, FiniteAssumption
  <2>4. Cardinality(Existing) \in Nat /\ MaxCount \in Nat
    BY <2>2, Smaller, FiniteAssumption, BoundsAssumption
  <2>5. QED BY <2>1, <2>3, <2>4 DEF BoundedOvershoot
<1>4. ASSUME NEW q \in Request, Insert(q) PROVE BoundedOvershoot'
  <2>1. PICK a \in req[q].id : row' = [row EXCEPT ![a] = req[q].new]
    BY <1>4 DEF Insert
  <2>2. Existing' \subseteq Existing \cup {a}
    BY <2>1, <1>types DEF Existing
  <2>3. Inserting' = Inserting \ {q} /\ q \in Inserting
    BY <1>4, <1>types DEF Insert, Inserting, Idle
  <2>4. IsFiniteSet(Existing) /\ IsFiniteSet(Inserting)
    BY FS_Subset, FiniteAssumption DEF Existing, Inserting
  <2>count. Cardinality(Existing) \in Nat
    BY <2>4, FS_CardinalityType
  <2>5. IsFiniteSet(Existing \cup {a}) /\ Cardinality(Existing \cup {a}) <= Cardinality(Existing) + 1
    <3>1. /\ IsFiniteSet(Existing \cup {a})
          /\ Cardinality(Existing \cup {a}) = IF a \in Existing THEN Cardinality(Existing)
                                                              ELSE Cardinality(Existing) + 1
      BY <2>4, FS_AddElement, Zenon
    <3>2. QED BY <3>1, <2>count
  <2>6. Cardinality(Existing') <= Cardinality(Existing \cup {a})
        /\ Cardinality(Existing') \in Nat /\ Cardinality(Existing \cup {a}) \in Nat
    BY <2>2, <2>5, Smaller
  <2>7. Cardinality(Inserting') = Cardinality(Inserting) - 1 /\ Cardinality(Inserting) \in Nat
    BY <2>3, <2>4, FS_RemoveElement, FS_CardinalityType
  <2>8. Cardinality(Request) \in Nat /\ MaxCount \in Nat
    BY FiniteAssumption, BoundsAssumption, FS_CardinalityType
  <2>9. QED BY <2>count, <2>5, <2>6, <2>7, <2>8 DEF BoundedOvershoot
<1>5. ASSUME NEW q \in Request, Update(q) \/ Toggle(q) \/ Load(q) PROVE BoundedOvershoot'
  <2>1. \E e : req' = [req EXCEPT ![q] = e] /\ e.pc # "insert"
    <3>1. CASE Update(q)
      BY <3>1 DEF Update, Begun
    <3>2. CASE Toggle(q)
      BY <3>2 DEF Toggle, Begun
    <3>3. CASE Load(q)
      BY ZenonT(60), <3>3 DEF Load, Begun, Idle
    <3>4. QED BY <1>5, <3>1, <3>2, <3>3
  <2>2. Inserting' \subseteq Inserting
    BY <2>1, <1>types DEF Inserting
  <2>3. QED BY <1>5, <2>2, NoMore DEF Update, Toggle, Load, Existing
<1>6. ASSUME NEW q \in Request, Write(q) PROVE BoundedOvershoot'
  <2>1. Existing' \subseteq Existing
    BY <1>6, <1>types DEF Write, Existing
  <2>2. Inserting' \subseteq Inserting
    BY <1>6, <1>types DEF Write, Inserting, Idle
  <2>3. QED BY <2>1, <2>2, NoMore
<1>7. ASSUME NEW q \in Request, Delete(q) PROVE BoundedOvershoot'
  <2>1. Existing' \subseteq Existing
    BY <1>7, <1>types DEF Delete, Existing, NoRow
  <2>2. QED BY <1>7, <2>1, NoMore DEF Delete, Inserting
<1>8. QED
  BY <1>1, <1>2, <1>3, <1>4, <1>5, <1>6, <1>7
     DEF Next, WorkerStep, RequestStep, Select, Crash, Restart, Tick, vars

LEMMA OvershootInit == Init => BoundedOvershoot
<1> SUFFICES ASSUME Init PROVE BoundedOvershoot
  OBVIOUS
<1>1. Existing = {} /\ Inserting = {}
  BY DEF Init, Existing, Inserting, Idle, NoRow
<1>2. Cardinality(Request) \in Nat /\ Cardinality(Request) # 0
  BY FiniteAssumption, FS_CardinalityType, FS_EmptySet
<1>3. QED BY <1>1, <1>2, FS_EmptySet, BoundsAssumption DEF BoundedOvershoot

\* check_automation_limits: the limit is exceeded by less than the number of
\* requests, whatever the others and the schedulers do.
THEOREM OvershootBounded == Spec => []BoundedOvershoot
<1>1. TypeOK /\ BoundedOvershoot /\ [Next]_vars => (TypeOK /\ BoundedOvershoot)'
  BY TypeStep, OvershootStep
<1>2. QED BY <1>1, TypeInit, OvershootInit, PTL DEF Spec

\* "Enforce global automation limits" is so when requests come one at a time:
\* a creation has inserted its row before the next one counts.
THEOREM LimitOfOneRequest ==
    Cardinality(Request) = 1 => (Spec => []WithinLimit)
<1> SUFFICES ASSUME Cardinality(Request) = 1 PROVE Spec => []WithinLimit
  OBVIOUS
<1>1. BoundedOvershoot => WithinLimit
  <2>1. IsFiniteSet(Existing) /\ IsFiniteSet(Inserting)
    BY FS_Subset, FiniteAssumption DEF Existing, Inserting
  <2>2. Cardinality(Existing) \in Nat /\ Cardinality(Inserting) \in Nat /\ MaxCount \in Nat
    BY <2>1, FS_CardinalityType, BoundsAssumption
  <2> QED BY <2>2 DEF BoundedOvershoot, WithinLimit
<1> QED
  BY <1>1, OvershootBounded, PTL
-------------------------------------------------------------------------------
\* The id a creation has drawn is no row's and no other request's.
IdsOK ==
    \A q \in Inserting : \A a \in req[q].id :
        ~row[a].exists /\ \A p \in Request \ {q} : a \notin req[p].id

\* What a claim has read is locked: it is the row still, was due, and is no
\* other claim's.
LockOK ==
    /\ \A i \in Instance : \A c \in worker[i].read :
          row[c.id] = c.row /\ c.row.exists /\ c.row.next <= now
    /\ \A i, j \in Instance : i # j =>
          \A c \in worker[i].read, d \in worker[j].read : c.id # d.id

\* A row is scheduled after its last claim, and so is what a request that began
\* after that claim will write.  (In a repeated hour the claim is forgotten.)
HistoryOK ==
    /\ \A a \in Automation :
          /\ last[a] <= now
          /\ ~row[a].exists => last[a] = -1
          /\ row[a].exists => row[a].next > last[a]
    /\ \A q \in Request \ late : \A a \in req[q].id : req[q].new.next > last[a]

IInv == TypeOK /\ IdsOK /\ LockOK /\ HistoryOK

LEMMA IdsStep == TypeOK /\ IdsOK /\ [Next]_vars => IdsOK'
<1> SUFFICES ASSUME TypeOK, IdsOK, [Next]_vars PROVE IdsOK'
  OBVIOUS
<1>types. row \in [Automation -> Row] /\ DOMAIN req = Request
          /\ \A q \in Request : req[q].id \subseteq Automation
  BY DEF TypeOK
<1>0. ASSUME UNCHANGED req, \A a \in Automation : ~row[a].exists => ~row'[a].exists
      PROVE  IdsOK'
  BY <1>0, <1>types DEF IdsOK, Inserting
<1>1. ASSUME UNCHANGED <<row, req>> PROVE IdsOK'
  BY <1>1, <1>0
<1>2. ASSUME NEW i \in Instance, Commit(i) PROVE IdsOK'
  <2>1. \A a \in Automation : ~row[a].exists => ~row'[a].exists
    BY <1>2, <1>types DEF Commit, Existing
  <2>2. QED BY <1>2, <2>1, <1>0 DEF Commit
<1>3. ASSUME NEW q \in Request, Create(q) PROVE IdsOK'
  <2>1. PICK r \in Rule, on \in BOOLEAN :
           req' = [req EXCEPT ![q] = Begun("insert", NewId, NoRow,
                     [exists |-> TRUE, active |-> on, next |-> NextRun(r), rule |-> r])]
    BY <1>3 DEF Create
  <2>2. ~row[NewId].exists /\ \A p \in Request : NewId \notin req[p].id
    BY <1>3, NewIdUnused DEF Create, Unused, Existing
  <2>3. row' = row
    BY <1>3 DEF Create
  <2>4. req'[q].id = {NewId} /\ \A p \in Request \ {q} : req'[p] = req[p]
    BY <2>1, <1>types DEF Begun
  <2>5. SUFFICES ASSUME NEW p \in Request, req'[p].pc = "insert", NEW a \in req'[p].id
                 PROVE  ~row'[a].exists /\ \A s \in Request \ {p} : a \notin req'[s].id
    BY DEF IdsOK, Inserting
  <2>6. CASE p = q
    BY <2>2, <2>3, <2>4, <2>6
  <2>7. CASE p # q
    <3>1. a \in req[p].id /\ p \in Inserting
      BY <2>4, <2>5, <2>7 DEF Inserting
    <3>2. QED BY <3>1, <2>2, <2>3, <2>4 DEF IdsOK
  <2>8. QED BY <2>6, <2>7
<1>4. ASSUME NEW q \in Request, Insert(q) PROVE IdsOK'
  <2>1. PICK b \in req[q].id : row' = [row EXCEPT ![b] = req[q].new]
    BY <1>4 DEF Insert
  <2>2. req'[q] = Idle /\ \A p \in Request \ {q} : req'[p] = req[p]
    BY <1>4, <1>types DEF Insert
  <2>3. q \in Inserting
    BY <1>4 DEF Insert, Inserting
  <2>4. SUFFICES ASSUME NEW p \in Request, req'[p].pc = "insert", NEW a \in req'[p].id
                 PROVE  ~row'[a].exists /\ \A s \in Request \ {p} : a \notin req'[s].id
    BY DEF IdsOK, Inserting
  <2>5. p # q
    BY <2>2, <2>4 DEF Idle
  <2>6. p \in Inserting /\ a \in req[p].id
    BY <2>2, <2>4, <2>5 DEF Inserting
  <2>7. a # b
    BY <2>3, <2>5, <2>6 DEF IdsOK
  <2>8. ~row'[a].exists
    BY <2>1, <2>6, <2>7, <1>types DEF IdsOK
  <2>9. \A s \in Request \ {p} : a \notin req'[s].id
    BY <2>2, <2>6 DEF IdsOK, Idle
  <2>10. QED BY <2>8, <2>9
<1>5. ASSUME NEW q \in Request, Update(q) \/ Toggle(q) \/ Load(q) PROVE IdsOK'
  <2>1. PICK e : /\ req' = [req EXCEPT ![q] = e] /\ e.pc # "insert"
                 /\ \A a \in e.id : a \in Existing \/ a \in req[q].id
    <3>1. CASE Update(q)
      BY <3>1 DEF Update, Begun
    <3>2. CASE Toggle(q)
      BY <3>2 DEF Toggle, Begun
    <3>3. CASE Load(q)
      <4>id. PICK a \in req[q].id : \E new : req' =
               [req EXCEPT ![q] = IF row[a].exists THEN Begun("write", a, row[a], new) ELSE Idle]
        BY <3>3 DEF Load
      <4>1. PICK new : req' =
               [req EXCEPT ![q] = IF row[a].exists THEN Begun("write", a, row[a], new) ELSE Idle]
        BY <4>id
      <4> DEFINE f == IF row[a].exists THEN Begun("write", a, row[a], new) ELSE Idle
      <4>2. f.pc # "insert" /\ \A b \in f.id : b \in req[q].id
        BY DEF Begun, Idle
      <4>3. req' = [req EXCEPT ![q] = f]
        BY <4>1
      <4> HIDE DEF f
      <4>4. QED BY <4>2, <4>3
    <3>4. QED BY <1>5, <3>1, <3>2, <3>3
  <2>2. row' = row
    BY <1>5 DEF Update, Toggle, Load
  <2>3. req'[q] = e /\ \A p \in Request \ {q} : req'[p] = req[p]
    BY <2>1, <1>types
  <2>4. SUFFICES ASSUME NEW p \in Request, req'[p].pc = "insert", NEW a \in req'[p].id
                 PROVE  ~row'[a].exists /\ \A s \in Request \ {p} : a \notin req'[s].id
    BY DEF IdsOK, Inserting
  <2>5. p # q /\ p \in Inserting /\ a \in req[p].id
    BY <2>1, <2>3, <2>4 DEF Inserting
  <2>6. ~row[a].exists /\ \A s \in Request \ {p} : a \notin req[s].id
    BY <2>5 DEF IdsOK
  <2>7. a \notin e.id
    BY <2>1, <2>5, <2>6 DEF Existing
  <2>8. QED BY <2>2, <2>3, <2>6, <2>7
<1>6. ASSUME NEW q \in Request, Write(q) PROVE IdsOK'
  <2>1. \A a \in Automation : ~row[a].exists => ~row'[a].exists
    BY <1>6, <1>types DEF Write
  <2>2. req'[q] = Idle /\ \A p \in Request \ {q} : req'[p] = req[p]
    BY <1>6, <1>types DEF Write
  <2>3. SUFFICES ASSUME NEW p \in Request, req'[p].pc = "insert", NEW a \in req'[p].id
                 PROVE  ~row'[a].exists /\ \A s \in Request \ {p} : a \notin req'[s].id
    BY DEF IdsOK, Inserting
  <2>4. p # q /\ p \in Inserting /\ a \in req[p].id
    BY <2>2, <2>3 DEF Inserting, Idle
  <2>5. QED BY <2>1, <2>2, <2>4, <1>types DEF IdsOK, Idle
<1>7. ASSUME NEW q \in Request, Delete(q) PROVE IdsOK'
  <2>1. \A a \in Automation : ~row[a].exists => ~row'[a].exists
    BY <1>7, <1>types DEF Delete, NoRow
  <2>2. QED BY <1>7, <2>1, <1>0 DEF Delete
<1>8. QED
  BY <1>1, <1>2, <1>3, <1>4, <1>5, <1>6, <1>7
     DEF Next, WorkerStep, RequestStep, Select, Crash, Restart, Tick, vars

\* With the locks of PostgreSQL.
LEMMA HeldIsLocked ==
    ASSUME Postgres, NEW i \in Instance, NEW c \in worker[i].read
    PROVE  c.id \in Locked
  BY DEF Locked

LEMMA LockStep == Postgres /\ TypeOK /\ IdsOK /\ LockOK /\ [Next]_vars => LockOK'
<1> SUFFICES ASSUME Postgres, TypeOK, IdsOK, LockOK, [Next]_vars PROVE LockOK'
  OBVIOUS
<1>types. /\ row \in [Automation -> Row] /\ DOMAIN worker = Instance
          /\ now \in Int
          /\ \A i \in Instance : \A c \in worker[i].read : c.id \in Automation /\ c.row.next \in Int
  BY BoundsAssumption DEF TypeOK, Row, Time, Never
<1>kept. ASSUME now' \in {now, now + 1},
                \A i \in Instance : worker'[i].read \subseteq worker[i].read,
                \A i \in Instance : \A c \in worker'[i].read : row'[c.id] = row[c.id]
         PROVE  LockOK'
  <2>1. \A i \in Instance : \A c \in worker'[i].read :
           row'[c.id] = c.row /\ c.row.exists /\ c.row.next <= now'
    BY <1>kept, <1>types DEF LockOK
  <2>2. \A i, j \in Instance : i # j =>
           \A c \in worker'[i].read, d \in worker'[j].read : c.id # d.id
    BY <1>kept DEF LockOK
  <2>3. QED BY <2>1, <2>2 DEF LockOK
<1>1. ASSUME NEW i \in Instance, Select(i) PROVE LockOK'
  <2>1. PICK batch \in SUBSET Claimable :
           worker' = [worker EXCEPT ![i] =
                         [pc |-> "claim", read |-> {[id |-> a, row |-> row[a]] : a \in batch}]]
    BY <1>1 DEF Select
  <2>2. row' = row /\ now' = now
    BY <1>1 DEF Select
  <2>3. /\ worker'[i].read = {[id |-> a, row |-> row[a]] : a \in batch}
        /\ \A j \in Instance \ {i} : worker'[j] = worker[j]
    BY <2>1, <1>types
  <2>4. \A c \in worker'[i].read :
           /\ row[c.id] = c.row /\ c.row.exists /\ c.row.next <= now
           /\ c.id \notin Locked
    BY <2>3 DEF Claimable, Due, Existing
  <2>5. \A j \in Instance : \A c \in worker'[j].read :
           row'[c.id] = c.row /\ c.row.exists /\ c.row.next <= now'
    BY <2>2, <2>3, <2>4 DEF LockOK
  <2>6. \A j \in Instance \ {i} : \A d \in worker'[j].read : d.id \in Locked
    BY <2>3, HeldIsLocked
  <2>7. \A j, k \in Instance : j # k =>
           \A c \in worker'[j].read, d \in worker'[k].read : c.id # d.id
    BY <2>3, <2>4, <2>6 DEF LockOK
  <2>8. QED BY <2>5, <2>7 DEF LockOK
<1>2. ASSUME NEW i \in Instance, Commit(i) PROVE LockOK'
  <2>1. now' = now /\ worker'[i].read = {} /\ \A j \in Instance \ {i} : worker'[j] = worker[j]
    BY <1>2, <1>types DEF Commit
  <2>2. ASSUME NEW j \in Instance, NEW c \in worker'[j].read
        PROVE  row'[c.id] = row[c.id]
    <3>1. j # i /\ c \in worker[j].read
      BY <2>1, <2>2
    <3>2. c.id \notin BatchOf(i)
      BY <3>1 DEF BatchOf, LockOK
    <3>3. QED BY <1>2, <1>types, <3>1, <3>2 DEF Commit
  <2>3. QED BY <2>1, <2>2, <1>kept
<1>3. ASSUME NEW i \in Instance, Crash(i) \/ Restart(i) PROVE LockOK'
  <2>1. now' = now /\ row' = row
    BY <1>3 DEF Crash, Restart
  <2>2. \A j \in Instance : worker'[j].read \subseteq worker[j].read
    <3>1. CASE Crash(i)
      BY <3>1, <1>types DEF Crash
    <3>2. CASE Restart(i)
      BY <3>2, <1>types DEF Restart, TypeOK
    <3>3. QED BY <1>3, <3>1, <3>2
  <2>3. QED BY <2>1, <2>2, <1>kept
<1>4. ASSUME UNCHANGED <<row, worker>>, now' \in {now, now + 1} PROVE LockOK'
  BY <1>4, <1>kept
<1>5. ASSUME NEW q \in Request, Insert(q) PROVE LockOK'
  <2>1. PICK a \in req[q].id : row' = [row EXCEPT ![a] = req[q].new]
    BY <1>5 DEF Insert
  <2>2. ~row[a].exists
    BY <1>5 DEF Insert, Inserting, IdsOK
  <2>3. \A i \in Instance : \A c \in worker[i].read : c.id # a
    BY <2>2 DEF LockOK
  <2>4. worker' = worker /\ now' = now
    BY <1>5 DEF Insert
  <2>5. QED BY <2>1, <2>3, <2>4, <1>types, <1>kept
<1>6. ASSUME NEW q \in Request, Write(q) PROVE LockOK'
  <2>1. PICK a \in req[q].id : a \notin Locked /\ row' = IF row[a].exists
                 THEN [row EXCEPT ![a] = Flush(@, req[q].old, req[q].new)] ELSE row
    BY <1>6 DEF Write
  <2>2. \A i \in Instance : \A c \in worker[i].read : c.id # a
    BY <2>1, HeldIsLocked
  <2>3. worker' = worker /\ now' = now
    BY <1>6 DEF Write
  <2>4. QED BY <2>1, <2>2, <2>3, <1>types, <1>kept
<1>7. ASSUME NEW q \in Request, Delete(q) PROVE LockOK'
  <2>1. PICK a \in Existing : a \notin Locked /\ row' = [row EXCEPT ![a] = NoRow]
    BY <1>7 DEF Delete
  <2>2. \A i \in Instance : \A c \in worker[i].read : c.id # a
    BY <2>1, HeldIsLocked
  <2>3. worker' = worker /\ now' = now
    BY <1>7 DEF Delete
  <2>4. QED BY <2>1, <2>2, <2>3, <1>types, <1>kept
<1>8. QED
  BY <1>1, <1>2, <1>3, <1>4, <1>5, <1>6, <1>7
     DEF Next, WorkerStep, RequestStep, Create, Update, Toggle, Load, Tick, vars

LEMMA HistoryStep == Postgres /\ IInv /\ [Next]_vars => HistoryOK'
<1> SUFFICES ASSUME Postgres, TypeOK, IdsOK, LockOK, HistoryOK, [Next]_vars PROVE HistoryOK'
  BY DEF IInv
<1>types. /\ row \in [Automation -> Row] /\ DOMAIN req = Request
          /\ now \in Nat /\ Never \in Nat /\ now < Never
          /\ \A a \in Automation : last[a] \in Int /\ row[a].next \in Nat /\ row[a] \in Row
          /\ DOMAIN last = Automation
          /\ \A q \in Request : /\ req[q].id \subseteq Automation
                                /\ req[q].new.next \in Nat /\ req[q].old \in Row /\ req[q].new \in Row
  BY BoundsAssumption DEF TypeOK, Row, Time, Never
<1>now. now \in 0..Horizon
  BY DEF TypeOK
<1>typed. TypeOK'
  BY TypeStep
<1>1. ASSUME UNCHANGED <<row, req, last, late>>, now' \in {now, now + 1} PROVE HistoryOK'
  BY <1>1, <1>types DEF HistoryOK
<1>2. ASSUME NEW i \in Instance, Commit(i) PROVE HistoryOK'
  <2>1. CASE ~(BatchOf(i) \subseteq Existing)
    BY <1>2, <2>1, <1>1 DEF Commit, history
  <2>2. CASE BatchOf(i) \subseteq Existing
    <3>1. /\ row' = [a \in Automation |->
                       IF a \in BatchOf(i)
                       THEN Flush(row[a], ReadOf(i, a), Advanced(ReadOf(i, a))) ELSE row[a]]
          /\ last' = [a \in Automation |->
                        IF a \notin BatchOf(i) THEN last[a]
                        ELSE IF HourRepeats THEN -1 ELSE ReadOf(i, a).next]
          /\ late' = late \cup {q \in Request : req[q].id \cap BatchOf(i) # {}}
          /\ now' = now /\ req' = req
      BY <1>2, <2>2 DEF Commit
    <3>2. ASSUME NEW a \in BatchOf(i)
          PROVE  /\ last'[a] <= now' /\ row'[a].exists /\ row'[a].next > last'[a]
                 /\ a \in Automation
      <4> DEFINE R == ReadOf(i, a)
      <4>1. R \in Row /\ a \in Automation /\ [id |-> a, row |-> R] \in worker[i].read
        BY ReadOfBatch
      <4>2. R.next <= now
        BY <4>1 DEF LockOK
      <4>3. R.rule \in Rule \cup {{}} /\ R.next \in Int
        BY <4>1, BoundsAssumption DEF Row, Time, Never
      <4>4. (~HourRepeats => NextRun(R.rule) > now) /\ NextRun(R.rule) \in Int
        BY <4>3, <1>now, NextRunLater, BoundsAssumption DEF Time, Never
      <4>5. Advanced(R).next = NextRun(R.rule)
        BY <4>1, <1>now, AdvancedTyped
      <4>6. row'[a] = Flush(row[a], R, Advanced(R))
            /\ last'[a] = IF HourRepeats THEN -1 ELSE R.next
        BY <3>1, <4>1
      <4>7. row'[a].next \in Nat
        <5>1. row'[a] \in Row
          BY <4>1, <1>typed DEF TypeOK
        <5> QED BY <5>1, BoundsAssumption DEF Row, Time, Never
      <4> HIDE DEF R
      <4>8. row'[a].exists
        BY <4>6 DEF Flush
      <4>9. CASE HourRepeats
        BY <4>1, <4>6, <4>7, <4>8, <4>9, <3>1, <1>types
      <4>10. CASE ~HourRepeats
        <5>1. row'[a].next = NextRun(R.rule)
          BY <4>2, <4>3, <4>4, <4>5, <4>6, <4>10, <1>types DEF Flush
        <5> QED BY <5>1, <4>1, <4>2, <4>3, <4>4, <4>6, <4>8, <4>10, <3>1, <1>types
      <4> QED BY <4>9, <4>10
    <3>3. \A a \in Automation : /\ last'[a] <= now'
                                /\ ~row'[a].exists => last'[a] = -1
                                /\ row'[a].exists => row'[a].next > last'[a]
      BY <3>1, <3>2 DEF HistoryOK
    <3>4. \A q \in Request \ late' : \A a \in req'[q].id : req'[q].new.next > last'[a]
      BY <3>1, <1>types DEF HistoryOK
    <3>5. QED BY <3>3, <3>4 DEF HistoryOK
  <2>3. QED BY <2>1, <2>2
\* A request that begins, or goes on, with a row to write that is later than
\* the last claim of its automation, or drops it.
<1>3. ASSUME NEW q \in Request, UNCHANGED <<now, row, last>>,
             \A p \in Request \ {q} : req'[p] = req[p],
             late \subseteq late' \cup {q},
             q \notin late' => \A a \in req'[q].id : req'[q].new.next > last[a]
      PROVE  HistoryOK'
  BY <1>3 DEF HistoryOK
<1>4. ASSUME NEW q \in Request, Create(q) PROVE HistoryOK'
  <2>1. PICK r \in Rule, on \in BOOLEAN :
           req' = [req EXCEPT ![q] = Begun("insert", NewId, NoRow,
                     [exists |-> TRUE, active |-> on, next |-> NextRun(r), rule |-> r])]
    BY <1>4 DEF Create
  <2>2. NextRun(r) \in Nat
    BY <1>now, NextRunLater, BoundsAssumption DEF Time, Never
  <2>3. NewId \in Automation /\ ~row[NewId].exists
    BY <1>4, NewIdUnused DEF Create, Unused, Existing
  <2>4. req'[q].id = {NewId} /\ req'[q].new.next = NextRun(r)
    BY <2>1, <1>types DEF Begun
  <2>5. NextRun(r) > last[NewId]
    BY <2>2, <2>3, <1>types DEF HistoryOK
  <2>6. UNCHANGED <<now, row, last, late>> /\ \A p \in Request \ {q} : req'[p] = req[p]
    BY <1>4, <2>1, <1>types DEF Create, history
  <2>7. QED BY <2>4, <2>5, <2>6, <1>3
<1>5. ASSUME NEW q \in Request, Insert(q) PROVE HistoryOK'
  <2>1. PICK b \in req[q].id : row' = [row EXCEPT ![b] = req[q].new]
    BY <1>5 DEF Insert
  <2>2. b \in Automation /\ last[b] = -1 /\ req[q].new.next > -1
    BY <1>5, <1>types DEF Insert, Inserting, IdsOK, HistoryOK
  <2>3. /\ req'[q].id = {} /\ \A p \in Request \ {q} : req'[p] = req[p]
        /\ now' = now /\ last' = last /\ late' = late
    BY <1>5, <1>types DEF Insert, Idle, history
  <2>4. \A a \in Automation : /\ last'[a] <= now'
                              /\ ~row'[a].exists => last'[a] = -1
                              /\ row'[a].exists => row'[a].next > last'[a]
    BY <2>1, <2>2, <2>3, <1>types DEF HistoryOK
  <2>5. \A p \in Request \ late' : \A a \in req'[p].id : req'[p].new.next > last'[a]
    BY <2>3 DEF HistoryOK
  <2>6. QED BY <2>4, <2>5 DEF HistoryOK
<1>6. ASSUME NEW q \in Request, Update(q) PROVE HistoryOK'
  <2>1. PICK a \in Existing, r \in Rule, on \in BOOLEAN :
           req' = [req EXCEPT ![q] = Begun("update", a, NoRow,
                     [exists |-> TRUE, active |-> on, next |-> NextRun(r), rule |-> r])]
    BY <1>6 DEF Update
  <2>2. NextRun(r) \in Time /\ (~HourRepeats => NextRun(r) > now)
    BY <1>now, NextRunLater
  <2>3. a \in Automation
    BY DEF Existing
  <2>4. req'[q].id = {a} /\ req'[q].new.next = NextRun(r)
    BY <2>1, <1>types DEF Begun
  <2>5. ~HourRepeats => NextRun(r) > last[a]
    BY <2>2, <2>3, <1>types DEF HistoryOK, Time
  <2>l. late \subseteq late' \cup {q} /\ (HourRepeats => q \in late')
    BY <1>6 DEF Update
  <2>6. UNCHANGED <<now, row, last>> /\ \A p \in Request \ {q} : req'[p] = req[p]
    BY <1>6, <2>1, <1>types DEF Update
  <2>7. QED BY <2>4, <2>5, <2>6, <2>l, <1>3
<1>7. ASSUME NEW q \in Request, Toggle(q) PROVE HistoryOK'
  <2>1. PICK a \in Existing :
           req' = [req EXCEPT ![q] =
                     Begun("toggle", a, NoRow, [row[a] EXCEPT !.next = NextRun(row[a].rule)])]
    BY <1>7 DEF Toggle
  <2>2. a \in Automation /\ row[a].rule \in Rule \cup {{}}
    BY <1>types DEF Existing, Row
  <2>3. NextRun(row[a].rule) \in Time /\ (~HourRepeats => NextRun(row[a].rule) > now)
    BY <2>2, <1>now, NextRunLater
  <2>4. req'[q].id = {a} /\ req'[q].new.next = NextRun(row[a].rule)
    BY <2>1, <2>2, <1>types DEF Begun, Row
  <2>5. ~HourRepeats => NextRun(row[a].rule) > last[a]
    BY <2>2, <2>3, <1>types DEF HistoryOK, Time
  <2>l. late \subseteq late' \cup {q} /\ (HourRepeats => q \in late')
    BY <1>7 DEF Toggle
  <2>6. UNCHANGED <<now, row, last>> /\ \A p \in Request \ {q} : req'[p] = req[p]
    BY <1>7, <2>1, <1>types DEF Toggle
  <2>7. QED BY <2>4, <2>5, <2>6, <2>l, <1>3
<1>8. ASSUME NEW q \in Request, Load(q) PROVE HistoryOK'
  <2>1. PICK a \in req[q].id :
          LET old == row[a]
              new == IF req[q].pc = "update" THEN req[q].new
                     ELSE [old EXCEPT !.active = ~old.active,
                                      !.next = IF old.active THEN Never ELSE req[q].new.next]
          IN  /\ req' = [req EXCEPT ![q] = IF old.exists THEN Begun("write", a, old, new) ELSE Idle]
              /\ late' = IF old.exists THEN late ELSE late \ {q}
    BY <1>8 DEF Load
  <2>2. UNCHANGED <<now, row, last>> /\ \A p \in Request \ {q} : req'[p] = req[p]
    BY <1>8, <2>1, <1>types DEF Load
  <2>3. CASE ~row[a].exists
    <3>1. req'[q].id = {} /\ late \subseteq late' \cup {q}
      BY <2>1, <2>3, <1>types DEF Idle
    <3>2. QED BY <2>2, <3>1, <1>3
  <2>4. CASE row[a].exists
    <3>1. req'[q].id = {a} /\ late' = late
      BY <2>1, <2>4, <1>types DEF Begun
    <3>2. req'[q].new.next \in {req[q].new.next, Never}
      BY <2>1, <2>4, <1>types DEF Begun, Row
    <3>3. Never > last[a]
      BY <1>types DEF HistoryOK
    <3>4. q \notin late => req[q].new.next > last[a]
      BY DEF HistoryOK
    <3>5. QED BY <2>2, <3>1, <3>2, <3>3, <3>4, <1>3
  <2>5. QED BY <2>3, <2>4
<1>9. ASSUME NEW q \in Request, Write(q) PROVE HistoryOK'
  <2>1. PICK b \in req[q].id :
          row' = IF row[b].exists
                 THEN [row EXCEPT ![b] = Flush(@, req[q].old, req[q].new)] ELSE row
    BY <1>9 DEF Write
  <2>2. /\ req'[q].id = {} /\ \A p \in Request \ {q} : req'[p] = req[p]
        /\ now' = now /\ late' = late \ {q}
        /\ last' = [a \in Automation |-> IF q \in late /\ a \in req[q].id THEN -1 ELSE last[a]]
    BY <1>9, <1>types DEF Write, Idle
  <2>3. \A a \in Automation \ {b} : row'[a] = row[a]
    BY <2>1, <1>types
  <2>4. \A a \in Automation : last'[a] \in {last[a], -1}
    BY <2>2
  <2>5. \A a \in Automation \ {b} : /\ last'[a] <= now'
                                    /\ ~row'[a].exists => last'[a] = -1
                                    /\ row'[a].exists => row'[a].next > last'[a]
    BY <2>2, <2>3, <2>4, <1>types DEF HistoryOK
  <2>6. /\ b \in Automation /\ last'[b] <= now'
        /\ q \notin late => req[q].new.next > last'[b]
        /\ q \in late => last'[b] = -1
    BY <2>2, <1>types DEF HistoryOK
  <2>7. CASE row[b].exists
    <3>1. row'[b] = Flush(row[b], req[q].old, req[q].new)
      BY <2>1, <2>6, <2>7, <1>types
    <3>2. row'[b].exists /\ row'[b].next \in {req[q].new.next, row[b].next}
      BY <3>1 DEF Flush
    <3>3. row'[b].next > last'[b]
      BY <3>2, <2>2, <2>6, <2>7, <1>types DEF HistoryOK
    <3>4. QED
      <4>1. \A p \in Request \ late' : \A a \in req'[p].id : req'[p].new.next > last'[a]
        BY <2>2, <2>4, <1>types DEF HistoryOK
      <4>2. QED BY <2>5, <2>6, <3>2, <3>3, <4>1 DEF HistoryOK
  <2>8. CASE ~row[b].exists
    <3>1. ~row'[b].exists /\ last'[b] = -1
      BY <2>1, <2>4, <2>6, <2>8 DEF HistoryOK
    <3>2. \A p \in Request \ late' : \A a \in req'[p].id : req'[p].new.next > last'[a]
      BY <2>2, <2>4, <1>types DEF HistoryOK
    <3>3. QED BY <2>5, <2>6, <3>1, <3>2 DEF HistoryOK
  <2>9. QED BY <2>7, <2>8
<1>10. ASSUME NEW q \in Request, Delete(q) PROVE HistoryOK'
  <2>1. PICK b \in Existing : row' = [row EXCEPT ![b] = NoRow] /\ last' = [last EXCEPT ![b] = -1]
    BY <1>10 DEF Delete
  <2>2. b \in Automation /\ row'[b] = NoRow /\ last'[b] = -1
        /\ \A a \in Automation \ {b} : row'[a] = row[a] /\ last'[a] = last[a]
    BY <2>1, <1>types DEF Existing
  <2>3. now' = now /\ req' = req /\ late' = late
    BY <1>10 DEF Delete
  <2>4. \A a \in Automation : /\ last'[a] <= now'
                              /\ ~row'[a].exists => last'[a] = -1
                              /\ row'[a].exists => row'[a].next > last'[a]
    BY <2>2, <2>3, <1>types DEF HistoryOK, NoRow
  <2>5. \A p \in Request \ late' : \A a \in req'[p].id : req'[p].new.next > last'[a]
    BY <2>2, <2>3, <1>types DEF HistoryOK
  <2>6. QED BY <2>4, <2>5 DEF HistoryOK
<1>11. QED
  BY <1>1, <1>2, <1>4, <1>5, <1>6, <1>7, <1>8, <1>9, <1>10
     DEF Next, WorkerStep, RequestStep, Select, Crash, Restart, Tick, vars, history

LEMMA InvInit == Init => IInv
<1> SUFFICES ASSUME Init PROVE IInv
  OBVIOUS
<1>1. TypeOK
  BY TypeInit
<1>2. IdsOK /\ LockOK
  BY DEF Init, IdsOK, LockOK, Inserting, Idle
<1>3. HistoryOK
  BY DEF Init, HistoryOK, Idle, NoRow
<1>4. QED BY <1>1, <1>2, <1>3 DEF IInv

LEMMA InvStep == Postgres /\ IInv /\ [Next]_vars => IInv'
  BY TypeStep, IdsStep, LockStep, HistoryStep DEF IInv

THEOREM Inductive == Postgres => (Spec => []IInv)
<1> SUFFICES ASSUME Postgres PROVE Spec => []IInv
  OBVIOUS
<1>1. IInv /\ [Next]_vars => IInv'
  BY InvStep
<1>2. QED BY <1>1, InvInit, PTL DEF Spec

\* claim_due: "the row can never be double-claimed".  With the locks of
\* PostgreSQL every claim is committed on the schedule it was decided on.
THEOREM ClaimsAreFresh == Postgres => (Spec => ClaimNotStale)
<1> SUFFICES ASSUME Postgres PROVE Spec => ClaimNotStale
  OBVIOUS
<1>1. IInv /\ [Next]_vars =>
         [\A i \in Instance : Claims(i) => \A c \in worker[i].read : row[c.id].next = c.row.next]_vars
  BY DEF IInv, LockOK
<1>2. QED BY <1>1, Inductive, PTL DEF Spec, ClaimNotStale

\* No occurrence is claimed twice, unless a request that had computed its next
\* run before the claim is written after it, or the clock shows an hour again.
THEOREM OccurrencesAdvance == Postgres => (Spec => ClaimsAdvance)
<1> SUFFICES ASSUME Postgres PROVE Spec => ClaimsAdvance
  OBVIOUS
<1>1. IInv /\ [Next]_vars =>
         [\A i \in Instance : Claims(i) => \A c \in worker[i].read : c.row.next > last[c.id]]_vars
  <2>1. ASSUME IInv, NEW i \in Instance, NEW c \in worker[i].read
        PROVE  c.row.next > last[c.id]
    <3>1. c.id \in Automation
      BY <2>1 DEF IInv, TypeOK
    <3>2. QED BY <2>1, <3>1 DEF IInv, LockOK, HistoryOK
  <2>2. QED BY <2>1
<1>2. QED BY <1>1, Inductive, PTL DEF Spec, ClaimsAdvance
\* A local clock that is never put back.
NoFold == \A t, d \in 0..Horizon : d > Wall[t] => Instant[d] > t

\* claim_due: "Advances next_run_at immediately so the row can never be
\* double-claimed": section 4 of the README shows a row that is still due.  Where
\* clocks are never put back, in UTC for one, a claim leaves its rows not due.
THEOREM ClaimedIsAdvanced == NoFold /\ Postgres => (Spec => ClaimedNotDue)
<1> SUFFICES ASSUME NoFold, Postgres PROVE Spec => ClaimedNotDue
  OBVIOUS
<1>1. IInv /\ [Next]_vars => [\A i \in Instance : Claims(i) => BatchOf(i) \cap Due' = {}]_vars
  <2> SUFFICES ASSUME IInv, [Next]_vars, NEW i \in Instance, Claims(i), NEW a \in BatchOf(i)
               PROVE  a \notin Due'
    OBVIOUS
  <2> DEFINE R == ReadOf(i, a)
  <2>1. TypeOK /\ LockOK /\ row \in [Automation -> Row] /\ now \in 0..Horizon
        /\ DOMAIN worker = Instance
    BY DEF IInv, TypeOK
  <2>2. R \in Row /\ a \in Automation /\ [id |-> a, row |-> R] \in worker[i].read
    BY <2>1, ReadOfBatch
  <2>3. Commit(i)
    <3>1. worker[i].pc = "claim" /\ worker'[i].pc = "sleep"
      BY DEF Claims
    <3>2. ASSUME NEW j \in Instance, j # i, Select(j) \/ Commit(j) \/ Crash(j) \/ Restart(j)
          PROVE  worker'[i] = worker[i]
      BY <2>1, <3>2 DEF Select, Commit, Crash, Restart
    <3>3. ~Select(i) /\ ~Crash(i) /\ ~Restart(i)
      BY <2>1, <3>1 DEF Select, Crash, Restart
    <3>4. worker' # worker
      BY <3>1
    <3> QED BY <3>1, <3>2, <3>3, <3>4 DEF Next, vars, WorkerStep, RequestStep, Create, Insert,
              Update, Toggle, Load, Write, Delete, Tick
  <2>4. row'[a] = Flush(row[a], R, Advanced(R)) /\ now' = now
    BY <2>2, <2>3 DEF Commit, Claims
  <2>5. R.next <= now /\ R.rule \in Rule \cup {{}} /\ R.next \in Int
    BY <2>1, <2>2, BoundsAssumption DEF LockOK, Row, Time, Never
  <2>6. ~HourRepeats
    BY <2>1, BoundsAssumption, ClockAssumption DEF NoFold, HourRepeats
  <2>7. NextRun(R.rule) > now /\ NextRun(R.rule) \in Int
    BY <2>1, <2>5, <2>6, NextRunLater, BoundsAssumption DEF Time, Never
  <2>8. Advanced(R).next = NextRun(R.rule)
    BY <2>1, <2>2, AdvancedTyped
  <2> HIDE DEF R
  <2>9. row'[a].next = NextRun(R.rule)
    BY <2>1, <2>4, <2>5, <2>7, <2>8 DEF Flush
  <2> QED BY <2>1, <2>4, <2>7, <2>9 DEF Due
<1>2. QED BY <1>1, Inductive, PTL DEF Spec, ClaimedNotDue
-------------------------------------------------------------------------------
(***************************************************************************)
(* Calendar alerts, the other job of the same scheduler: any number of       *)
(* instances, events and users, any clock.  The invariant counts, for each   *)
(* event, the alerts it got and the instances that may still alert it.       *)
(***************************************************************************)

\* Users do not change the alert window.
WindowFixed == \A v, w \in Window : v = w

\* A check handles one event at a time, each of those it read once.
CheckOK ==
    \A i \in Instance :
        /\ check[i].pc \in {"sleep", "loop"} => check[i].hand = {}
        /\ \A q, r \in check[i].hand : q = r
        /\ \A q, r \in check[i].read : q.id = r.id => q = r

\* An edit, with one window, writes the meta it read, so its commit does not
\* touch the column of the mark.
EditOK == \A u \in User : \A old \in edit[u].old, new \in edit[u].new : new.meta = old.meta

\* What an instance may still do to an event: emit an alert without any fault.
\* Marked or deleted, it is alerted only by those that read it before; until
\* then by every instance that is not about to mark it.
Settled(e) == event[e].meta.alerted \/ event[e].status = "deleted"
Marks(i, e) == \E r \in check[i].hand : r.id = e
Waits(i, e) == \E r \in check[i].read : r.id = e /\ r \notin check[i].hand
MayAlert(i, e) == IF Settled(e) THEN Waits(i, e) ELSE ~Marks(i, e)
Alerters(e) == {i \in Instance : MayAlert(i, e)}

\* The alerts an event got and those it may still get.
AlertsCounted ==
    \A e \in Event : Len(alerts[e]) + Cardinality(Alerters(e)) <= Cardinality(Instance) + faults

\* The inductive invariant.
AlertInv == AlertTypeOK /\ CheckOK /\ EditOK /\ AlertsCounted

LEMMA AlertInitTypes == AlertInit => AlertTypeOK /\ CheckOK
<1> SUFFICES ASSUME AlertInit PROVE AlertTypeOK /\ CheckOK
  OBVIOUS
<1>1. event \in [Event -> EventRow]
  BY DEF AlertInit, EventRow, Meta
<1>2. Asleep \in Check /\ NoEdit \in Edit
  BY DEF Asleep, Check, NoEdit, Edit
<1>3. check \in [Instance -> Check] /\ edit \in [User -> Edit]
  BY <1>2 DEF AlertInit
<1>4. AlertTypeOK
  BY <1>1, <1>3, AlertBounds DEF AlertInit, AlertTypeOK, Asleep, Clock
<1> QED
  BY <1>4 DEF AlertInit, CheckOK, Asleep

LEMMA AlertInvInit == IsFiniteSet(Instance) /\ AlertInit => AlertInv
<1> SUFFICES ASSUME IsFiniteSet(Instance), AlertInit PROVE AlertInv
  OBVIOUS
<1>1. EditOK
  BY DEF AlertInit, EditOK, NoEdit
<1>2. AlertsCounted
  <2>1. \A e \in Event : Len(alerts[e]) = 0
    BY DEF AlertInit
  <2>2. \A e \in Event : Cardinality(Alerters(e)) <= Cardinality(Instance)
                        /\ Cardinality(Alerters(e)) \in Nat
    BY FS_Subset, FS_CardinalityType DEF Alerters
  <2>3. Cardinality(Instance) \in Nat /\ faults = 0
    BY FS_CardinalityType DEF AlertInit
  <2> QED BY <2>1, <2>2, <2>3 DEF AlertsCounted
<1> QED
  BY <1>1, <1>2, AlertInitTypes DEF AlertInv

\* What is left of a check after one event is a check.
LEMMA AfterIsCheck ==
    ASSUME AlertTypeOK, NEW i \in Instance, NEW r \in check[i].hand
    PROVE  /\ After(i, r) \in Check
           /\ After(i, r).hand = {}
           /\ After(i, r).read = check[i].read \ {r}
           /\ After(i, r).pc \in {"sleep", "loop"}
           /\ After(i, r).pc = "sleep" <=> After(i, r).read = {}
<1>1. check[i] \in Check /\ r \in check[i].read
  BY DEF AlertTypeOK
<1>2. CASE check[i].read = {r}
  BY <1>1, <1>2 DEF After, Asleep, Check
<1>3. CASE check[i].read # {r}
  BY <1>1, <1>3 DEF After, Asleep, Check
<1> QED
  BY <1>2, <1>3

\* Returning from the mark, the check has one event less to handle.
LEMMA HandledCheck ==
    ASSUME AlertTypeOK, CheckOK, NEW i \in Instance, Handled(i)
    PROVE  \E r \in check[i].hand :
              /\ check[i].hand = {r}
              /\ check' \in [Instance -> Check]
              /\ check'[i].hand = {}
              /\ check'[i].read = check[i].read \ {r}
              /\ check'[i].pc \in {"sleep", "loop"}
              /\ check'[i].pc = "sleep" <=> check'[i].read = {}
              /\ \A j \in Instance : j # i => check'[j] = check[j]
<1> PICK r \in check[i].hand : check' = [check EXCEPT ![i] = After(i, r)]
  BY DEF Handled
<1>1. check \in [Instance -> Check]
  BY DEF AlertTypeOK
<1>2. check'[i] = After(i, r) /\ \A j \in Instance : j # i => check'[j] = check[j]
  BY <1>1
<1>3. check' \in [Instance -> Check]
  BY <1>1, AfterIsCheck
<1>4. check[i].hand = {r}
  BY DEF CheckOK
<1> QED
  BY <1>2, <1>3, <1>4, AfterIsCheck

\* A step that emits nothing and lets nobody alert who could not before.
LEMMA CountKept ==
    ASSUME IsFiniteSet(Instance), AlertsCounted, AlertTypeOK,
           UNCHANGED <<alerts, faults>>,
           \A e \in Event, i \in Instance : MayAlert(i, e)' => MayAlert(i, e)
    PROVE  AlertsCounted'
<1> SUFFICES ASSUME NEW e \in Event
             PROVE  (Len(alerts[e]) + Cardinality(Alerters(e))
                     <= Cardinality(Instance) + faults)'
    BY DEF AlertsCounted
<1>1. Alerters(e) \subseteq Instance /\ (Alerters(e))' \subseteq Alerters(e)
  BY DEF Alerters
<1>2. IsFiniteSet(Alerters(e)) /\ Cardinality(Alerters(e)) \in Nat
  BY <1>1, FS_Subset, FS_CardinalityType
<1>3. PICK P : P = Alerters(e)'
  OBVIOUS
<1>4. Cardinality(P) <= Cardinality(Alerters(e)) /\ Cardinality(P) \in Nat
  BY <1>1, <1>2, <1>3, FS_Subset, FS_CardinalityType
<1>5. Len(alerts[e]) \in Nat /\ faults \in Nat /\ Cardinality(Instance) \in Nat
  BY FS_CardinalityType, AlertBounds DEF AlertTypeOK
<1>6. Len(alerts[e]) + Cardinality(Alerters(e)) <= Cardinality(Instance) + faults
  BY DEF AlertsCounted
<1>7. Len(alerts[e]) + Cardinality(P) <= Cardinality(Instance) + faults
  BY <1>2, <1>4, <1>5, <1>6
<1> QED
  BY <1>3, <1>7

\* A commit leaves a row; of an edit that wrote the meta it read, with its mark.
LEMMA FlushIsRow ==
    ASSUME AlertTypeOK, NEW u \in User, NEW e \in edit[u].id,
           NEW old \in edit[u].old, NEW new \in edit[u].new
    PROVE  /\ e \in Event
           /\ FlushEvent(event[e], old, new) \in EventRow
           /\ new.meta = old.meta => FlushEvent(event[e], old, new).meta = event[e].meta
<1>1. edit[u] \in Edit /\ e \in Event
  BY DEF AlertTypeOK, Edit
<1>2. event[e] \in EventRow /\ old \in EventRow /\ new \in EventRow
  BY <1>1 DEF AlertTypeOK, Edit
<1> QED
  BY <1>1, <1>2 DEF FlushEvent, EventRow

\* The rows, the checks and the edits keep their types.
LEMMA AlertTypeStep ==
    ASSUME AlertTypeOK, CheckOK, [AlertNext]_alertVars
    PROVE  AlertTypeOK' /\ CheckOK'
<1>0. /\ check \in [Instance -> Check] /\ event \in [Event -> EventRow]
      /\ \A i \in Instance : check[i] \in Check
      /\ \A e \in Event : event[e] \in EventRow
      /\ edit \in [User -> Edit]
  BY DEF AlertTypeOK
<1>a. ASSUME NEW i \in Instance, \A j \in Instance : j # i => check'[j] = check[j],
             check'[i].pc \in {"sleep", "loop"} => check'[i].hand = {},
             \A q, r \in check'[i].hand : q = r,
             check'[i].read \subseteq check[i].read
      PROVE  CheckOK'
  <2> SUFFICES ASSUME NEW j \in Instance
               PROVE  (/\ check[j].pc \in {"sleep", "loop"} => check[j].hand = {}
                       /\ \A p, q \in check[j].hand : p = q
                       /\ \A p, q \in check[j].read : p.id = q.id => p = q)'
    BY DEF CheckOK
  <2>1. CASE j = i
    <3>1. \A p, q \in check[i].read : p.id = q.id => p = q
      BY DEF CheckOK
    <3>2. \A p, q \in check'[i].read : p.id = q.id => p = q
      BY <1>a, <3>1, Zenon
    <3> QED BY <1>a, <2>1, <3>2, Zenon
  <2>2. CASE j # i
    BY <1>a, <2>2 DEF CheckOK
  <2> QED BY <2>1, <2>2
<1>b. ASSUME NEW i \in Instance, Handled(i), UNCHANGED <<clock, edit, alerts, edits>>,
             event' \in [Event -> EventRow], faults' \in 0..MaxFaults
      PROVE  AlertTypeOK' /\ CheckOK'
  <2> PICK r \in check[i].hand :
           /\ check[i].hand = {r}
           /\ check' \in [Instance -> Check]
           /\ check'[i].hand = {}
           /\ check'[i].read = check[i].read \ {r}
           /\ check'[i].pc \in {"sleep", "loop"}
           /\ check'[i].pc = "sleep" <=> check'[i].read = {}
           /\ \A j \in Instance : j # i => check'[j] = check[j]
    BY <1>b, HandledCheck
  <2>1. \A j \in Instance : /\ check'[j].hand \subseteq check'[j].read
                            /\ check'[j].pc = "sleep" <=> check'[j].read = {}
    BY DEF AlertTypeOK
  <2>2. AlertTypeOK'
    BY <1>b, <2>1 DEF AlertTypeOK
  <2> QED BY <1>a, <2>2
<1>1. ASSUME NEW i \in Instance, Poll(i)
      PROVE  AlertTypeOK' /\ CheckOK'
  <2> DEFINE new == {[id |-> e, row |-> event[e]] : e \in {d \in Event : Unalerted(d)}}
  <2>1. /\ check' = [check EXCEPT ![i].pc = "loop", ![i].read = new]
        /\ check[i].pc = "sleep" /\ check[i].hand = {}
        /\ UNCHANGED <<clock, event, edit, alerts, edits, faults>>
    BY <1>1 DEF Poll, CheckOK
  <2>2. new # {}
    BY <1>1 DEF Poll
  <2>3. new \subseteq Read /\ \A q, r \in new : q.id = r.id => q = r
    BY <1>0 DEF Read
  <2> HIDE DEF new
  <2>4. /\ check'[i].pc = "loop" /\ check'[i].read = new /\ check'[i].hand = {}
        /\ check'[i] \in Check
        /\ \A j \in Instance : j # i => check'[j] = check[j]
    BY ZenonT(60), <1>0, <2>1, <2>3 DEF Check
  <2>5. AlertTypeOK'
    BY <2>1, <2>2, <2>4 DEF AlertTypeOK
  <2>6. CheckOK'
    BY <2>3, <2>4 DEF CheckOK
  <2> QED BY <2>5, <2>6
<1>2. ASSUME NEW i \in Instance, Emit(i)
      PROVE  AlertTypeOK' /\ CheckOK'
  <2> PICK r \in check[i].read :
           /\ alerts' = [alerts EXCEPT ![r.id] = Append(@, r.row.start)]
           /\ check' = [check EXCEPT ![i].pc = "load", ![i].hand = {r}]
    BY <1>2 DEF Emit
  <2>1. /\ check[i].pc = "loop" /\ UNCHANGED <<clock, event, edit, edits, faults>>
    BY <1>2 DEF Emit
  <2>2. r \in Read /\ r.id \in Event /\ r.row.start \in Clock
    BY <1>0 DEF Check, Read, EventRow
  <2>3. /\ check'[i].pc = "load" /\ check'[i].read = check[i].read /\ check'[i].hand = {r}
        /\ check'[i] \in Check
        /\ \A j \in Instance : j # i => check'[j] = check[j]
    BY <1>0, <2>2 DEF Check
  <2>4. Append(alerts[r.id], r.row.start) \in Seq(Clock)
    BY <2>2, AppendProperties DEF AlertTypeOK
  <2>5. alerts' \in [Event -> Seq(Clock)]
    BY <2>2, <2>4 DEF AlertTypeOK
  <2>6. AlertTypeOK'
    BY <2>1, <2>3, <2>5 DEF AlertTypeOK
  <2> QED BY <1>a, <2>3, <2>6
<1>3. ASSUME NEW i \in Instance, MarkLoad(i)
      PROVE  AlertTypeOK' /\ CheckOK'
  <2> PICK r \in check[i].hand :
           IF event[r.id].status = "deleted" THEN Handled(i)
           ELSE check' = [check EXCEPT ![i].pc = "commit", ![i].meta = {event[r.id].meta}]
    BY <1>3 DEF MarkLoad
  <2>1. r.id \in Event /\ UNCHANGED <<clock, event, edit, alerts, edits, faults>>
    BY <1>0, <1>3 DEF MarkLoad, Check, Read
  <2>2. CASE event[r.id].status = "deleted"
    BY <1>0, <1>b, <2>1, <2>2 DEF AlertTypeOK
  <2>3. CASE event[r.id].status # "deleted"
    <3>1. event[r.id].meta \in Meta
      BY <1>0, <2>1 DEF EventRow
    <3>2. /\ check'[i] \in Check /\ check'[i].pc = "commit"
          /\ check'[i].read = check[i].read /\ check'[i].hand = check[i].hand
          /\ check' \in [Instance -> Check]
          /\ \A j \in Instance : j # i => check'[j] = check[j]
      BY <1>0, <2>3, <3>1 DEF Check
    <3>3. check[i].pc = "load"
      BY <1>3 DEF MarkLoad
    <3>4. AlertTypeOK'
      BY <2>1, <3>2, <3>3 DEF AlertTypeOK
    <3>5. CheckOK'
      BY <3>2 DEF CheckOK
    <3> QED BY <3>4, <3>5
  <2> QED BY <2>2, <2>3
<1>4. ASSUME NEW i \in Instance, MarkCommit(i)
      PROVE  AlertTypeOK' /\ CheckOK'
  <2> PICK r \in check[i].hand, meta \in check[i].meta :
           event' = IF event[r.id].status = "deleted" THEN event
                    ELSE [event EXCEPT ![r.id].meta = Marked(meta)]
    BY <1>4 DEF MarkCommit
  <2>1. /\ r.id \in Event /\ meta \in Meta /\ Handled(i)
        /\ UNCHANGED <<clock, edit, alerts, edits, faults>>
    BY <1>0, <1>4 DEF MarkCommit, Check, Read
  <2>2. [event[r.id] EXCEPT !.meta = Marked(meta)] \in EventRow
    BY <1>0, <2>1 DEF EventRow, Marked, Meta
  <2>3. event' \in [Event -> EventRow]
    BY <1>0, <2>1, <2>2
  <2> QED BY <1>b, <2>1, <2>3 DEF AlertTypeOK
<1>5. ASSUME NEW i \in Instance, CheckCrash(i)
      PROVE  AlertTypeOK' /\ CheckOK'
  <2>1. /\ check' = [check EXCEPT ![i] = Asleep]
        /\ faults' = faults + 1 /\ faults < MaxFaults
        /\ UNCHANGED <<clock, event, edit, alerts, edits>>
    BY <1>5 DEF CheckCrash
  <2>2. /\ check' \in [Instance -> Check] /\ check'[i] = Asleep
        /\ \A j \in Instance : j # i => check'[j] = check[j]
    BY <1>0, <2>1 DEF Asleep, Check
  <2>3. faults' \in 0..MaxFaults
    BY <2>1, AlertBounds DEF AlertTypeOK
  <2>4. AlertTypeOK'
    BY <2>1, <2>2, <2>3 DEF AlertTypeOK, Asleep
  <2>5. CheckOK'
    BY <2>2 DEF CheckOK, Asleep
  <2> QED BY <2>4, <2>5
<1>6. ASSUME NEW u \in User, EditLoad(u)
      PROVE  AlertTypeOK' /\ CheckOK'
  <2> PICK e \in Event, s \in {"planned", "cancelled"}, t \in Clock, w \in Window :
           edit' = [edit EXCEPT ![u] =
               [id |-> {e}, old |-> {event[e]},
                new |-> {[status |-> s, start |-> t,
                          meta |-> [event[e].meta EXCEPT !.window = w]]}]]
    BY <1>6 DEF EditLoad
  <2> DEFINE meta == [event[e].meta EXCEPT !.window = w]
             new == [status |-> s, start |-> t, meta |-> meta]
  <2>1. /\ edits' = edits + 1 /\ edits < MaxEdits
        /\ UNCHANGED <<clock, event, check, alerts, faults>>
    BY <1>6 DEF EditLoad
  <2>2. meta \in Meta
    BY <1>0 DEF EventRow, Meta
  <2>3. new \in EventRow
    BY <2>2 DEF EventRow
  <2>4. [id |-> {e}, old |-> {event[e]}, new |-> {new}] \in Edit
    BY <1>0, <2>3 DEF Edit
  <2>5. edit' \in [User -> Edit]
    BY <1>0, <2>4
  <2>6. edits' \in 0..MaxEdits
    BY <2>1, AlertBounds DEF AlertTypeOK
  <2> QED BY <2>1, <2>5, <2>6 DEF AlertTypeOK, CheckOK
<1>7. ASSUME NEW u \in User, EditCommit(u)
      PROVE  AlertTypeOK' /\ CheckOK'
  <2> PICK e \in edit[u].id, old \in edit[u].old, new \in edit[u].new :
           event' = IF event[e].status = "deleted" THEN event
                    ELSE [event EXCEPT ![e] = FlushEvent(@, old, new)]
    BY <1>7 DEF EditCommit
  <2>1. edit' = [edit EXCEPT ![u] = NoEdit] /\ UNCHANGED <<clock, check, alerts, edits, faults>>
    BY <1>7 DEF EditCommit
  <2>2. event' \in [Event -> EventRow]
    BY <1>0, FlushIsRow
  <2>3. edit' \in [User -> Edit]
    BY <1>0, <2>1 DEF NoEdit, Edit
  <2> QED BY <2>1, <2>2, <2>3 DEF AlertTypeOK, CheckOK
<1>8. ASSUME NEW u \in User, DeleteEvent(u)
      PROVE  AlertTypeOK' /\ CheckOK'
  <2> PICK e \in Event : event' = [event EXCEPT ![e].status = "deleted"]
    BY <1>8 DEF DeleteEvent
  <2>1. UNCHANGED <<clock, check, edit, alerts, edits, faults>>
    BY <1>8 DEF DeleteEvent
  <2>2. [event[e] EXCEPT !.status = "deleted"] \in EventRow
    BY <1>0 DEF EventRow
  <2>3. event' \in [Event -> EventRow]
    BY <1>0, <2>2
  <2> QED BY <2>1, <2>3 DEF AlertTypeOK, CheckOK
<1>9. ASSUME ClockTick \/ UNCHANGED alertVars
      PROVE  AlertTypeOK' /\ CheckOK'
  <2>1. clock' \in Clock /\ UNCHANGED <<event, check, edit, alerts, edits, faults>>
    BY <1>9, AlertBounds DEF ClockTick, alertVars, AlertTypeOK, Clock
  <2> QED BY <2>1 DEF AlertTypeOK, CheckOK
<1>10. ASSUME NEW i \in Instance, MarkFails(i)
       PROVE  AlertTypeOK' /\ CheckOK'
  <2>1. faults' \in 0..MaxFaults
    BY <1>10, AlertBounds DEF MarkFails, AlertTypeOK
  <2> QED BY <1>0, <1>10, <1>b, <2>1 DEF MarkFails
<1> QED
  BY <1>1, <1>2, <1>3, <1>4, <1>5, <1>6, <1>7, <1>8, <1>9, <1>10 DEF AlertNext, CheckStep

LEMMA AlertInvStep ==
    ASSUME IsFiniteSet(Instance), WindowFixed, AlertInv, [AlertNext]_alertVars
    PROVE  AlertInv'
<1> AlertTypeOK /\ CheckOK /\ EditOK /\ AlertsCounted
  BY DEF AlertInv
<1> AlertTypeOK' /\ CheckOK'
  BY AlertTypeStep
<1> DEFINE Rest == EditOK /\ AlertsCounted
<1> SUFFICES Rest'
  BY DEF AlertInv
<1>0. /\ check \in [Instance -> Check] /\ event \in [Event -> EventRow]
      /\ \A i \in Instance : check[i] \in Check /\ check[i].hand \subseteq check[i].read
      /\ \A e \in Event : event[e] \in EventRow
      /\ edit \in [User -> Edit]
  BY DEF AlertTypeOK
<1>a. \A e \in Event, i \in Instance : Waits(i, e) => ~Marks(i, e)
  BY <1>0 DEF Waits, Marks, CheckOK
<1>1. ASSUME NEW i \in Instance, Poll(i)
      PROVE  Rest'
  <2> DEFINE new == {[id |-> e, row |-> event[e]] : e \in {d \in Event : Unalerted(d)}}
  <2>1. /\ check' = [check EXCEPT ![i].pc = "loop", ![i].read = new]
        /\ check[i].hand = {}
        /\ UNCHANGED <<event, edit, alerts, faults>>
    BY <1>1 DEF Poll, CheckOK
  <2>2. \A r \in new : r.id \in Event /\ ~Settled(r.id)
    BY DEF Unalerted, Upcoming, Settled
  <2> HIDE DEF new
  <2>3. /\ check'[i].read = new /\ check'[i].hand = {}
        /\ \A j \in Instance : j # i => check'[j] = check[j]
    BY <1>0, <2>1 DEF Check
  <2>4. ASSUME NEW e \in Event, NEW j \in Instance, MayAlert(j, e)'
        PROVE  MayAlert(j, e)
    <3>1. Settled(e)' <=> Settled(e)
      BY <2>1 DEF Settled
    <3>2. Marks(j, e)' <=> Marks(j, e)
      BY <2>1, <2>3 DEF Marks
    <3>3. Waits(j, e)' => Waits(j, e) \/ ~Settled(e)
      BY <2>2, <2>3 DEF Waits
    <3> QED BY <2>4, <3>1, <3>2, <3>3 DEF MayAlert
  <2> QED BY <2>1, <2>4, CountKept DEF EditOK
<1>2. ASSUME NEW i \in Instance, Emit(i)
      PROVE  Rest'
  <2> PICK r \in check[i].read :
           /\ alerts' = [alerts EXCEPT ![r.id] = Append(@, r.row.start)]
           /\ check' = [check EXCEPT ![i].pc = "load", ![i].hand = {r}]
    BY <1>2 DEF Emit
  <2>1. check[i].hand = {} /\ UNCHANGED <<event, edit, faults>>
    BY <1>2 DEF Emit, CheckOK
  <2>2. r \in Read /\ r.id \in Event /\ r.row.start \in Clock
    BY <1>0 DEF Check, Read, EventRow
  <2>3. /\ check'[i].read = check[i].read /\ check'[i].hand = {r}
        /\ \A j \in Instance : j # i => check'[j] = check[j]
    BY <1>0, <2>2 DEF Check
  <2>4. Len(Append(alerts[r.id], r.row.start)) = Len(alerts[r.id]) + 1
    BY <2>2, AppendProperties DEF AlertTypeOK
  <2>5. \A e \in Event : Len(alerts'[e]) =
                           IF e = r.id THEN Len(alerts[e]) + 1 ELSE Len(alerts[e])
    BY <2>2, <2>4 DEF AlertTypeOK
  <2>6. ASSUME NEW e \in Event, NEW j \in Instance, MayAlert(j, e)'
        PROVE  MayAlert(j, e)
    <3>1. Settled(e)' <=> Settled(e)
      BY <2>1 DEF Settled
    <3>2. Marks(j, e) => Marks(j, e)'
      BY <2>1, <2>3 DEF Marks
    <3>3. Waits(j, e)' => Waits(j, e)
      BY <2>1, <2>3 DEF Waits
    <3> QED BY <2>6, <3>1, <3>2, <3>3 DEF MayAlert
  <2>7. MayAlert(i, r.id) /\ ~MayAlert(i, r.id)'
    <3>1. Waits(i, r.id) /\ ~Marks(i, r.id)
      BY <2>1 DEF Waits, Marks
    <3>2. Marks(i, r.id)' /\ ~Waits(i, r.id)'
      BY <2>3 DEF Waits, Marks, CheckOK
    <3> QED BY <3>1, <3>2 DEF MayAlert
  <2>8. AlertsCounted'
    <3> SUFFICES ASSUME NEW e \in Event
                 PROVE  (Len(alerts[e]) + Cardinality(Alerters(e))
                         <= Cardinality(Instance) + faults)'
      BY DEF AlertsCounted
    <3> PICK A, B : A = Alerters(e) /\ B = Alerters(e)'
      OBVIOUS
    <3>1. B \subseteq A /\ A \subseteq Instance /\ (e = r.id => B \subseteq A \ {i} /\ i \in A)
      BY <2>6, <2>7 DEF Alerters
    <3>2. IsFiniteSet(A) /\ Cardinality(A) \in Nat /\ Cardinality(B) \in Nat
      BY <3>1, FS_Subset, FS_CardinalityType
    <3>3. /\ Cardinality(B) <= Cardinality(A)
          /\ e = r.id => Cardinality(B) <= Cardinality(A) - 1
      BY <3>1, <3>2, FS_Subset, FS_RemoveElement
    <3>4. /\ Len(alerts[e]) \in Nat /\ faults \in Nat /\ Cardinality(Instance) \in Nat
          /\ Len(alerts[e]) + Cardinality(A) <= Cardinality(Instance) + faults
      BY FS_CardinalityType, AlertBounds DEF AlertTypeOK, AlertsCounted
    <3>5. Len(alerts'[e]) + Cardinality(B) <= Cardinality(Instance) + faults
      <4>1. \A n, k, a, b, m \in Nat : a <= b /\ n + b <= k + m => n + a <= k + m
        OBVIOUS
      <4>2. \A n, k, a, b, m \in Nat : a <= b - 1 /\ n + b <= k + m => n + 1 + a <= k + m
        OBVIOUS
      <4>3. CASE e = r.id
        <5>1. Len(alerts'[e]) = Len(alerts[e]) + 1
          BY <2>5, <4>3
        <5> QED BY <3>2, <3>3, <3>4, <4>2, <4>3, <5>1
      <4>4. CASE e # r.id
        <5>1. Len(alerts'[e]) = Len(alerts[e])
          BY <2>5, <4>4
        <5> QED BY <3>2, <3>3, <3>4, <4>1, <5>1
      <4> QED BY <4>3, <4>4
    <3> QED BY <2>1, <3>5
  <2> QED BY <2>1, <2>8 DEF EditOK
<1>3. ASSUME NEW i \in Instance, Handled(i), UNCHANGED <<edit, alerts, faults>>,
             \A e \in Event : Settled(e) => Settled(e)',
             \A r \in check[i].hand : Settled(r.id)',
             \A e \in Event : Settled(e)' => Settled(e) \/ \E r \in check[i].hand : r.id = e
      PROVE  Rest'
  <2> PICK r \in check[i].hand :
           /\ check[i].hand = {r}
           /\ check'[i].hand = {}
           /\ check'[i].read = check[i].read \ {r}
           /\ \A j \in Instance : j # i => check'[j] = check[j]
    BY <1>3, HandledCheck
  <2>1. ASSUME NEW e \in Event, NEW j \in Instance, MayAlert(j, e)'
        PROVE  MayAlert(j, e)
    <3>1. Waits(j, e)' => Waits(j, e)
      BY DEF Waits
    <3>2. e # r.id \/ j # i => (Marks(j, e)' <=> Marks(j, e))
      BY DEF Marks
    <3>3. CASE Settled(e)
      BY <1>3, <2>1, <3>1, <3>3 DEF MayAlert
    <3>4. CASE ~Settled(e) /\ Settled(e)'
      BY <1>a, <2>1, <3>1, <3>4 DEF MayAlert
    <3>5. CASE ~Settled(e) /\ ~Settled(e)'
      <4>1. e # r.id
        BY <1>3, <3>5
      <4> QED BY <2>1, <3>2, <3>5, <4>1 DEF MayAlert
    <3> QED BY <3>3, <3>4, <3>5
  <2> QED BY <1>3, <2>1, CountKept DEF EditOK
<1>4. ASSUME NEW i \in Instance, MarkLoad(i)
      PROVE  Rest'
  <2> PICK r \in check[i].hand :
           IF event[r.id].status = "deleted" THEN Handled(i)
           ELSE check' = [check EXCEPT ![i].pc = "commit", ![i].meta = {event[r.id].meta}]
    BY <1>4 DEF MarkLoad
  <2>1. check[i].hand = {r} /\ UNCHANGED <<event, edit, alerts, faults>>
    BY <1>4 DEF MarkLoad, CheckOK
  <2>2. CASE event[r.id].status = "deleted"
    <3>1. \A q \in check[i].hand : Settled(q.id)'
      BY <2>1, <2>2 DEF Settled
    <3>2. \A e \in Event : Settled(e)' <=> Settled(e)
      BY <2>1 DEF Settled
    <3> QED BY <1>3, <2>1, <2>2, <3>1, <3>2
  <2>3. CASE event[r.id].status # "deleted"
    <3>1. \A j \in Instance : check'[j].read = check[j].read /\ check'[j].hand = check[j].hand
      BY <1>0, <2>3 DEF Check
    <3>2. ASSUME NEW e \in Event, NEW j \in Instance, MayAlert(j, e)'
          PROVE  MayAlert(j, e)
      BY <2>1, <3>1, <3>2 DEF MayAlert, Settled, Marks, Waits
    <3> QED BY <2>1, <3>2, CountKept DEF EditOK
  <2> QED BY <2>2, <2>3
<1>5. ASSUME NEW i \in Instance, MarkCommit(i)
      PROVE  Rest'
  <2> PICK r \in check[i].hand, meta \in check[i].meta :
           event' = IF event[r.id].status = "deleted" THEN event
                    ELSE [event EXCEPT ![r.id].meta = Marked(meta)]
    BY <1>5 DEF MarkCommit
  <2>1. /\ r.id \in Event /\ check[i].hand = {r} /\ meta \in Meta /\ Handled(i)
        /\ UNCHANGED <<edit, alerts, faults>>
    BY <1>0, <1>5 DEF MarkCommit, CheckOK, Check, Read
  <2>2. Marked(meta).alerted
    BY <2>1 DEF Marked, Meta
  <2>3. /\ event'[r.id].meta.alerted \/ event'[r.id].status = "deleted"
        /\ \A e \in Event : e # r.id => event'[e] = event[e]
    <3>1. CASE event[r.id].status = "deleted"
      BY <1>0, <3>1
    <3>2. CASE event[r.id].status # "deleted"
      <4>1. event' = [event EXCEPT ![r.id] = [event[r.id] EXCEPT !.meta = Marked(meta)]]
        BY <1>0, <2>1, <3>2
      <4>2. event'[r.id] = [event[r.id] EXCEPT !.meta = Marked(meta)]
        BY <1>0, <2>1, <4>1
      <4>3. event'[r.id].meta = Marked(meta)
        BY <1>0, <2>1, <4>2 DEF EventRow
      <4> QED BY <1>0, <2>1, <2>2, <4>1, <4>3
    <3> QED BY <3>1, <3>2
  <2>4. \A q \in check[i].hand : Settled(q.id)'
    BY <2>1, <2>3 DEF Settled
  <2>5. \A e \in Event : /\ Settled(e) => Settled(e)'
                         /\ Settled(e)' => Settled(e) \/ \E q \in check[i].hand : q.id = e
    BY <2>1, <2>3, <2>4 DEF Settled
  <2> QED BY <1>3, <2>1, <2>4, <2>5
<1>6. ASSUME NEW i \in Instance, faults' = faults + 1, UNCHANGED <<event, edit, alerts>>,
             \A j \in Instance : j # i => check'[j] = check[j]
      PROVE  Rest'
  <2>1. /\ faults' = faults + 1 /\ UNCHANGED <<event, edit, alerts>>
        /\ \A j \in Instance : j # i => check'[j] = check[j]
    BY <1>6
  <2>2. ASSUME NEW e \in Event, NEW j \in Instance, MayAlert(j, e)', j # i
        PROVE  MayAlert(j, e)
    BY <2>1, <2>2 DEF MayAlert, Settled, Marks, Waits
  <2>3. AlertsCounted'
    <3> SUFFICES ASSUME NEW e \in Event
                 PROVE  (Len(alerts[e]) + Cardinality(Alerters(e))
                         <= Cardinality(Instance) + faults)'
      BY DEF AlertsCounted
    <3> PICK A, B : A = Alerters(e) /\ B = Alerters(e)'
      OBVIOUS
    <3>1. B \subseteq A \cup {i} /\ A \subseteq Instance
      BY <2>2 DEF Alerters
    <3>2. /\ IsFiniteSet(A) /\ Cardinality(A) \in Nat
          /\ IsFiniteSet(A \cup {i}) /\ Cardinality(A \cup {i}) <= Cardinality(A) + 1
          /\ Cardinality(A \cup {i}) \in Nat
      BY <3>1, FS_Subset, FS_CardinalityType, FS_AddElement
    <3>3. Cardinality(B) \in Nat /\ Cardinality(B) <= Cardinality(A \cup {i})
      BY <3>1, <3>2, FS_Subset, FS_CardinalityType
    <3>4. /\ Len(alerts[e]) \in Nat /\ faults \in Nat /\ Cardinality(Instance) \in Nat
          /\ Len(alerts[e]) + Cardinality(A) <= Cardinality(Instance) + faults
      BY FS_CardinalityType, AlertBounds DEF AlertTypeOK, AlertsCounted
    <3>5. Len(alerts[e]) + Cardinality(B) <= Cardinality(Instance) + faults'
      BY <2>1, <3>2, <3>3, <3>4
    <3> QED BY <2>1, <3>5
  <2> QED BY <2>1, <2>3 DEF EditOK
<1>7. ASSUME NEW u \in User, EditLoad(u)
      PROVE  Rest'
  <2> PICK e \in Event, s \in {"planned", "cancelled"}, t \in Clock, w \in Window :
           edit' = [edit EXCEPT ![u] =
               [id |-> {e}, old |-> {event[e]},
                new |-> {[status |-> s, start |-> t,
                          meta |-> [event[e].meta EXCEPT !.window = w]]}]]
    BY <1>7 DEF EditLoad
  <2> DEFINE meta == [event[e].meta EXCEPT !.window = w]
             new == [status |-> s, start |-> t, meta |-> meta]
             loaded == [id |-> {e}, old |-> {event[e]}, new |-> {new}]
  <2>1. UNCHANGED <<event, check, alerts, faults>>
    BY <1>7 DEF EditLoad
  <2>2. meta = event[e].meta
    BY <1>0 DEF EventRow, Meta, WindowFixed
  <2>3. \A o \in loaded.old, n \in loaded.new : n.meta = o.meta
    BY <2>2
  <2>4. edit' = [edit EXCEPT ![u] = loaded]
    OBVIOUS
  <2> HIDE DEF loaded
  <2>5. EditOK'
    BY <1>0, <2>3, <2>4 DEF EditOK
  <2>6. ASSUME NEW d \in Event, NEW j \in Instance, MayAlert(j, d)'
        PROVE  MayAlert(j, d)
    BY <2>1, <2>6 DEF MayAlert, Settled, Marks, Waits
  <2> QED BY <2>1, <2>5, <2>6, CountKept
<1>8. ASSUME UNCHANGED <<check, alerts, faults>>, EditOK',
             \A e \in Event : Settled(e) => Settled(e)'
      PROVE  Rest'
  <2>1. ASSUME NEW e \in Event, NEW j \in Instance, MayAlert(j, e)'
        PROVE  MayAlert(j, e)
    <3>1. (Waits(j, e)' <=> Waits(j, e)) /\ (Marks(j, e)' <=> Marks(j, e))
      BY <1>8 DEF Waits, Marks
    <3> QED BY <1>8, <1>a, <2>1, <3>1 DEF MayAlert
  <2> QED BY <1>8, <2>1, CountKept
<1>9. ASSUME NEW u \in User, EditCommit(u)
      PROVE  Rest'
  <2> PICK e \in edit[u].id, old \in edit[u].old, new \in edit[u].new :
           event' = IF event[e].status = "deleted" THEN event
                    ELSE [event EXCEPT ![e] = FlushEvent(@, old, new)]
    BY <1>9 DEF EditCommit
  <2>1. edit' = [edit EXCEPT ![u] = NoEdit] /\ UNCHANGED <<check, alerts, faults>>
    BY <1>9 DEF EditCommit
  <2> PICK written : written = FlushEvent(event[e], old, new)
    OBVIOUS
  <2>2. e \in Event /\ written.meta = event[e].meta
    BY FlushIsRow DEF EditOK
  <2>3. \A d \in Event : Settled(d) => Settled(d)'
    <3>1. CASE event[e].status = "deleted"
      BY <1>0, <3>1 DEF Settled
    <3>2. CASE event[e].status # "deleted"
      <4>1. event'[e] = written /\ \A d \in Event : d # e => event'[d] = event[d]
        BY <1>0, <2>2, <3>2
      <4> QED BY <2>2, <3>2, <4>1 DEF Settled
    <3> QED BY <3>1, <3>2
  <2>4. EditOK'
    BY <1>0, <2>1 DEF EditOK, NoEdit
  <2> QED BY <1>8, <2>1, <2>3, <2>4
<1>10. ASSUME NEW u \in User, DeleteEvent(u)
       PROVE  Rest'
  <2> PICK e \in Event : event' = [event EXCEPT ![e].status = "deleted"]
    BY <1>10 DEF DeleteEvent
  <2>1. UNCHANGED <<check, edit, alerts, faults>>
    BY <1>10 DEF DeleteEvent
  <2>2. event' = [event EXCEPT ![e] = [event[e] EXCEPT !.status = "deleted"]]
    BY <1>0
  <2>3. /\ event'[e].status = "deleted"
        /\ \A d \in Event : d # e => event'[d] = event[d]
    BY <1>0, <2>2 DEF EventRow
  <2>4. \A d \in Event : Settled(d) => Settled(d)'
    BY <2>3 DEF Settled
  <2> QED BY <1>8, <2>1, <2>4 DEF EditOK
<1>11. ASSUME ClockTick \/ UNCHANGED alertVars
       PROVE  Rest'
  <2>1. UNCHANGED <<event, check, edit, alerts, faults>>
    BY <1>11 DEF ClockTick, alertVars
  <2>2. ASSUME NEW d \in Event, NEW j \in Instance, MayAlert(j, d)'
        PROVE  MayAlert(j, d)
    BY <2>1, <2>2 DEF MayAlert, Settled, Marks, Waits
  <2> QED BY <2>1, <2>2, CountKept DEF EditOK
<1>12. ASSUME NEW i \in Instance, CheckCrash(i)
       PROVE  Rest'
  BY <1>0, <1>6, <1>12 DEF CheckCrash
<1>13. ASSUME NEW i \in Instance, MarkFails(i)
       PROVE  Rest'
  BY <1>6, <1>13, HandledCheck DEF MarkFails
<1> QED
  BY <1>1, <1>2, <1>4, <1>5, <1>7, <1>9, <1>10, <1>11, <1>12, <1>13 DEF AlertNext, CheckStep
-------------------------------------------------------------------------------
\* Rows, checks and edits keep their types, with any alert windows: a check
\* marks what it has read, one event at a time.
THEOREM AlertTypeCorrect == AlertSpec => []AlertTypeOK
<1>1. AlertInit => AlertTypeOK /\ CheckOK
  BY AlertInitTypes
<1>2. (AlertTypeOK /\ CheckOK) /\ [AlertNext]_alertVars => (AlertTypeOK /\ CheckOK)'
  BY AlertTypeStep
<1> QED
  BY <1>1, <1>2, PTL DEF AlertSpec

\* Each instance alerts an event at most once, and once more for each mark it
\* did not make, since it crashed or the mark failed: with any number of
\* instances, events and users whose edits, cancellations and deletions leave
\* the alert window alone, the mark that follows an alert outlives every edit
\* and every other mark.
THEOREM Repeats ==
    IsFiniteSet(Instance) /\ WindowFixed => (AlertSpec => []RepeatsOnlyIfUnmarked)
<1> SUFFICES ASSUME IsFiniteSet(Instance), WindowFixed
             PROVE  AlertSpec => []RepeatsOnlyIfUnmarked
  OBVIOUS
<1>1. AlertInit => AlertInv
  BY AlertInvInit
<1>2. AlertInv /\ [AlertNext]_alertVars => AlertInv'
  BY AlertInvStep
<1>3. AlertInv => RepeatsOnlyIfUnmarked
  <2> SUFFICES ASSUME AlertInv, NEW e \in Event
               PROVE  Len(alerts[e]) <= Cardinality(Instance) + faults
    BY DEF RepeatsOnlyIfUnmarked
  <2>1. Cardinality(Alerters(e)) \in Nat
    BY FS_Subset, FS_CardinalityType DEF Alerters
  <2>2. Len(alerts[e]) \in Nat /\ faults \in Nat /\ Cardinality(Instance) \in Nat
    BY FS_CardinalityType, AlertBounds DEF AlertInv, AlertTypeOK
  <2> QED BY <2>1, <2>2 DEF AlertInv, AlertsCounted
<1> QED
  BY <1>1, <1>2, <1>3, PTL DEF AlertSpec

\* What the comment of _check_calendar_alerts promises ("de-duplication is
\* DB-backed ... and works across multiple instances") is so on one instance
\* that does not crash and whose marks do not fail, as long as nobody changes
\* an alert window.
THEOREM OnceOnOneInstance ==
    IsFiniteSet(Instance) /\ Cardinality(Instance) = 1 /\ MaxFaults = 0 /\ WindowFixed
    => (AlertSpec => []AlertedOnce)
<1> SUFFICES ASSUME IsFiniteSet(Instance), Cardinality(Instance) = 1,
                    MaxFaults = 0, WindowFixed
             PROVE  AlertSpec => []AlertedOnce
  OBVIOUS
<1>1. AlertTypeOK /\ RepeatsOnlyIfUnmarked => AlertedOnce
  <2> SUFFICES ASSUME AlertTypeOK, RepeatsOnlyIfUnmarked, NEW e \in Event
               PROVE  IsInjective(alerts[e])
    BY DEF AlertedOnce
  <2>1. /\ Len(alerts[e]) \in Nat /\ DOMAIN alerts[e] = 1..Len(alerts[e])
        /\ faults = 0 /\ Len(alerts[e]) <= 1
    BY LenProperties DEF AlertTypeOK, RepeatsOnlyIfUnmarked
  <2> QED BY <2>1 DEF IsInjective
<1> QED
  BY <1>1, AlertTypeCorrect, Repeats, PTL
==============================================================================
