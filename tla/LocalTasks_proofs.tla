--------------------------- MODULE LocalTasks_proofs ---------------------------
(***************************************************************************)
(* Proofs about LocalTasks: type correctness and the consistency of the two *)
(* dictionaries with the tasks, for any number of tasks, items and calls.   *)
(* The chat:active events of ChatActivity, with the same tasks in Redis, are *)
(* the last part: any requests, any models.                                *)
(***************************************************************************)
EXTENDS LocalTasks, ChatActivity, Integers, SequenceTheorems, FiniteSetTheorems, TLAPS

\* Min of the community modules is a member and a lower bound.
LEMMA NatMin ==
    ASSUME NEW S \in SUBSET Nat, S # {}
    PROVE  Min(S) \in S /\ \A x \in S : Min(S) <= x
<1> DEFINE Less == {ss \in Nat \X Nat : ss[1] < ss[2]}
<1>1. IsWellFoundedOn(Less, Nat)
  BY NatLessThanWellFounded, Zenon DEF OpToRel
<1>2. PICK m \in S : \A y \in S : <<y, m>> \notin Less
  <2> HIDE DEF Less
  <2> QED BY <1>1, WFMin, Zenon
<1>3. \A y \in S : m <= y
  <2> SUFFICES ASSUME NEW y \in S, y < m PROVE FALSE
    OBVIOUS
  <2>1. <<y, m>> \in Nat \X Nat /\ <<y, m>>[1] < <<y, m>>[2]
    OBVIOUS
  <2>2. <<y, m>> \in Less
    BY <2>1, Zenon
  <2> QED BY <1>2, <2>2
<1> QED
  BY <1>3 DEF Min

\* RemoveFirst takes out one occurrence and moves what follows it one down.
LEMMA RemoveFirstShifts ==
    ASSUME NEW S, NEW s \in Seq(S), NEW e, \E i \in 1..Len(s) : s[i] = e
    PROVE  \E p \in 1..Len(s) :
              /\ s[p] = e
              /\ RemoveFirst(s, e) \in Seq(S)
              /\ Len(RemoveFirst(s, e)) = Len(s) - 1
              /\ \A j \in 1..(Len(s) - 1) :
                    RemoveFirst(s, e)[j] = IF j < p THEN s[j] ELSE s[j + 1]
<1>1. PICK p \in 1..Len(s) :
         /\ s[p] = e
         /\ RemoveFirst(s, e) = SubSeq(s, 1, p - 1) \o SubSeq(s, p + 1, Len(s))
  <2> DEFINE I == {i \in 1..Len(s) : s[i] = e}
  <2>1. Min(I) \in I
    <3> I # {} /\ I \subseteq Nat
      BY LenProperties
    <3> HIDE DEF I
    <3> QED BY NatMin
  <2>2. SelectInSeq(s, LAMBDA v : v = e) = Min(I)
    BY <2>1 DEF SelectInSeq
  <2> QED
    BY <2>1, <2>2 DEF RemoveFirst, RemoveAt
<1> DEFINE a == SubSeq(s, 1, p - 1)
           b == SubSeq(s, p + 1, Len(s))
<1>2. Len(s) \in Nat
  BY LenProperties
<1>3. /\ a \in Seq(S) /\ Len(a) = p - 1
      /\ \A j \in 1..(p - 1) : a[j] = s[j]
  <2>1. \A j \in 1..(p - 1) : s[j] \in S
    BY <1>2, ElementOfSeq
  <2> QED BY <1>2, <2>1, SubSeqProperties
<1>4. /\ b \in Seq(S) /\ Len(b) = Len(s) - p
      /\ \A j \in 1..(Len(s) - p) : b[j] = s[p + j]
  <2>1. \A j \in (p + 1)..Len(s) : s[j] \in S
    BY <1>2, ElementOfSeq
  <2>2. /\ b \in Seq(S) /\ Len(b) = IF p + 1 <= Len(s) THEN Len(s) - (p + 1) + 1 ELSE 0
        /\ \A j \in 1..(Len(s) - (p + 1) + 1) : b[j] = s[(p + 1) + j - 1]
    BY <1>2, <2>1, SubSeqProperties
  <2> HIDE DEF b
  <2>3. Len(b) = Len(s) - p
    <3>1. CASE p = Len(s)
      BY <1>2, <2>2, <3>1
    <3>2. CASE p + 1 <= Len(s)
      <4>1. Len(s) - (p + 1) + 1 = Len(s) - p
        BY <1>2
      <4> QED BY <2>2, <3>2, <4>1
    <3>3. p = Len(s) \/ p + 1 <= Len(s)
      BY <1>2
    <3> QED BY <3>1, <3>2, <3>3
  <2>4. ASSUME NEW j \in 1..(Len(s) - p) PROVE b[j] = s[p + j]
    <3>1. j \in 1..(Len(s) - (p + 1) + 1) /\ (p + 1) + j - 1 = p + j
      BY <1>2
    <3> QED BY <2>2, <3>1
  <2> QED BY <2>2, <2>3, <2>4
<1> HIDE DEF a, b
<1>5. /\ RemoveFirst(s, e) \in Seq(S)
      /\ Len(RemoveFirst(s, e)) = Len(s) - 1
      /\ \A j \in 1..(Len(s) - 1) : RemoveFirst(s, e)[j] =
            IF j <= p - 1 THEN a[j] ELSE b[j - (p - 1)]
  <2>1. /\ a \o b \in Seq(S)
        /\ Len(a \o b) = Len(a) + Len(b)
        /\ \A j \in 1..(Len(a) + Len(b)) :
              (a \o b)[j] = IF j <= Len(a) THEN a[j] ELSE b[j - Len(a)]
    BY <1>3, <1>4, ConcatProperties
  <2>2. Len(a) + Len(b) = Len(s) - 1
    BY <1>2, <1>3, <1>4
  <2>3. RemoveFirst(s, e) = a \o b
    BY <1>1 DEF a, b
  <2> QED BY <1>3, <2>1, <2>2, <2>3
<1>6. ASSUME NEW j \in 1..(Len(s) - 1)
      PROVE  RemoveFirst(s, e)[j] = IF j < p THEN s[j] ELSE s[j + 1]
  <2>1. CASE j < p
    BY <1>2, <1>3, <1>5, <2>1
  <2>2. CASE ~(j < p)
    <3>1. /\ ~(j <= p - 1) /\ j - (p - 1) \in 1..(Len(s) - p)
          /\ p + (j - (p - 1)) = j + 1
      BY <1>2, <2>2
    <3>2. b[j - (p - 1)] = s[p + (j - (p - 1))]
      BY <1>4, <3>1
    <3> QED BY <1>5, <2>2, <3>1, <3>2
  <2> QED BY <2>1, <2>2
<1> QED
  BY <1>1, <1>5, <1>6

\* From a list without repetitions it takes out the element and no other.
LEMMA RemoveFirstOnce ==
    ASSUME NEW S, NEW s \in Seq(S), NEW e, NEW r, r = RemoveFirst(s, e), IsInjective(s)
    PROVE  /\ r \in Seq(S) /\ IsInjective(r)
           /\ ~Contains(r, e)
           /\ \A u : u # e => (Contains(r, u) <=> Contains(s, u))
<1>0. Len(s) \in Nat /\ \A k, l \in 1..Len(s) : s[k] = s[l] => k = l
  BY LenProperties DEF IsInjective
<1>1. CASE ~ \E i \in 1..Len(s) : s[i] = e
  <2>1. r = s
    BY <1>1 DEF RemoveFirst
  <2> QED BY <1>1, <2>1 DEF Contains
<1>2. CASE \E i \in 1..Len(s) : s[i] = e
  <2>1. PICK p \in 1..Len(s) :
              /\ s[p] = e
              /\ r \in Seq(S)
              /\ Len(r) = Len(s) - 1
              /\ \A j \in 1..(Len(s) - 1) : r[j] = IF j < p THEN s[j] ELSE s[j + 1]
    BY SMTT(30), <1>2, RemoveFirstShifts
  <2>2. ASSUME NEW k \in 1..Len(r), NEW l \in 1..Len(r), r[k] = r[l] PROVE k = l
    BY SMTT(30), <1>0, <2>1, <2>2
  <2>3. ASSUME NEW k \in 1..Len(r) PROVE r[k] # e
    BY <1>0, <2>1
  <2>4. ASSUME NEW u, u # e, NEW k \in 1..Len(r), r[k] = u
        PROVE  \E l \in 1..Len(s) : s[l] = u
    <3>1. k \in 1..Len(s) /\ k + 1 \in 1..Len(s)
      BY <1>0, <2>1
    <3> QED BY <2>1, <2>4, <3>1
  <2>5. ASSUME NEW u, u # e, NEW k \in 1..Len(s), s[k] = u
        PROVE  \E l \in 1..Len(r) : r[l] = u
    <3>1. CASE k < p
      <4>1. k \in 1..Len(r) /\ r[k] = s[k]
        BY <1>0, <2>1, <3>1
      <4> QED BY <2>5, <4>1
    <3>2. CASE ~(k < p)
      <4>1. k # p
        BY <2>1, <2>5
      <4>2. k - 1 \in 1..Len(r) /\ ~(k - 1 < p) /\ (k - 1) + 1 = k
        BY <1>0, <2>1, <3>2, <4>1
      <4>3. r[k - 1] = s[(k - 1) + 1]
        BY <2>1, <4>2
      <4> QED BY <2>5, <4>2, <4>3
    <3> QED BY <3>1, <3>2
  <2>6. r \in Seq(S) /\ DOMAIN r = 1..Len(r)
    BY <2>1, LenProperties
  <2>7. IsInjective(r)
    BY <2>2, <2>6 DEF IsInjective
  <2>8. ~Contains(r, e)
    BY <2>3 DEF Contains
  <2>9. ASSUME NEW u, u # e PROVE Contains(r, u) <=> Contains(s, u)
    BY <2>4, <2>5, <2>9 DEF Contains
  <2> QED BY <2>6, <2>7, <2>8, <2>9
<1> QED
  BY <1>1, <1>2
-------------------------------------------------------------------------------

Listed(t, i) == Contains(itemTasks[i], t)

\* A list never holds a task twice, so that cleanup_task, which removes one
\* occurrence, leaves none.
ListedOnce == \A i \in Item : IsInjective(itemTasks[i])

\* A task has an item from its creation on, and is cleaned up when it is over.
LifeOK == \A t \in Task : /\ state[t] = "none" <=> itemOf[t] = NoItem
                          /\ t \in cleaned => state[t] \in Over

\* What the two dictionaries know of a task, without saying how often.
ListsRight ==
    \A t \in Task, i \in Item :
        /\ state[t] \in {"running", "cancelling"} /\ itemOf[t] = i => Listed(t, i)
        /\ state[t] = "running" => t \in tasks
        /\ itemOf[t] # i \/ t \in cleaned => ~Listed(t, i)
        /\ t \in cleaned => t \notin tasks

\* The inductive invariant.
IInv == TypeOK /\ ListedOnce /\ LifeOK /\ ListsRight

\* cleanup_task takes the task out of both dictionaries and leaves the others.
LEMMA ForgetForgets ==
    ASSUME itemTasks \in [Item -> Seq(Task)], ListedOnce,
           NEW t \in Task, NEW i \in Item, itemOf[t] = i, Forget(t)
    PROVE  /\ tasks' = tasks \ {t}
           /\ itemTasks' \in [Item -> Seq(Task)]
           /\ ListedOnce'
           /\ (~Listed(t, i))'
           /\ \A u \in Task, j \in Item :
                 u # t \/ j # i => (Listed(u, j)' <=> Listed(u, j))
<1> PICK s \in Seq(Task) : s = itemTasks[i]
  OBVIOUS
<1> PICK r : r = RemoveFirst(s, t)
  OBVIOUS
<1>1. IsInjective(s)
  BY DEF ListedOnce
<1>2. /\ r \in Seq(Task) /\ IsInjective(r) /\ ~Contains(r, t)
      /\ \A u : u # t => (Contains(r, u) <=> Contains(s, u))
  BY <1>1, RemoveFirstOnce
<1>3. tasks' = tasks \ {t} /\ itemTasks' = [itemTasks EXCEPT ![i] = r]
  BY DEF Forget
<1>4. itemTasks'[i] = r /\ \A j \in Item : j # i => itemTasks'[j] = itemTasks[j]
  BY <1>3
<1>5. itemTasks' \in [Item -> Seq(Task)]
  BY <1>2, <1>3
<1>6. ListedOnce'
  BY <1>2, <1>4 DEF ListedOnce
<1>7. (~Listed(t, i))'
  BY <1>2, <1>4 DEF Listed
<1>8. ASSUME NEW u \in Task, NEW j \in Item, u # t \/ j # i
      PROVE  Listed(u, j)' <=> Listed(u, j)
  <2>1. CASE j = i
    BY <1>2, <1>4, <1>8, <2>1 DEF Listed
  <2>2. CASE j # i
    BY <1>4, <2>2 DEF Listed
  <2> QED BY <2>1, <2>2
<1> QED
  BY <1>3, <1>5, <1>6, <1>7, <1>8

\* create_task puts a task that is in no list at the end of its item's.
LEMMA AppendOnce ==
    ASSUME NEW S, NEW s \in Seq(S), NEW e \in S, IsInjective(s), ~Contains(s, e)
    PROVE  /\ Append(s, e) \in Seq(S) /\ IsInjective(Append(s, e))
           /\ \A u : Contains(Append(s, e), u) <=> u = e \/ Contains(s, u)
<1> PICK r : r = Append(s, e)
  OBVIOUS
<1>1. Len(s) \in Nat /\ \A k, l \in 1..Len(s) : s[k] = s[l] => k = l
  BY LenProperties DEF IsInjective
<1>2. /\ r \in Seq(S) /\ DOMAIN r = 1..Len(r) /\ Len(r) = Len(s) + 1
      /\ \A k \in 1..Len(s) : r[k] = s[k]
      /\ r[Len(s) + 1] = e
  BY AppendProperties, LenProperties
<1>3. \A k \in 1..Len(r) : k \in 1..Len(s) \/ k = Len(s) + 1
  BY <1>1, <1>2
<1>4. \A k \in 1..Len(s) : s[k] # e
  BY DEF Contains
<1>5. IsInjective(r)
  BY <1>1, <1>2, <1>3, <1>4 DEF IsInjective
<1>6. ASSUME NEW u PROVE Contains(r, u) <=> u = e \/ Contains(s, u)
  BY SMTT(30), <1>1, <1>2, <1>3 DEF Contains
<1> QED
  BY <1>2, <1>5, <1>6
-------------------------------------------------------------------------------
USE NoItemAssumption DEF TaskState, Over, Call, Idle, NoTasks

\* What the steps write into the record of a call is a call again.
LEMMA CallEdited ==
    ASSUME NEW call \in Call
    PROVE  /\ [call EXCEPT !.live = FALSE] \in Call
           /\ [call EXCEPT !.at = @ + 1] \in Call
           /\ \A r \in {"awaiting", "stopped", "notfound", "raised"}, cur \in SUBSET Task :
                 [call EXCEPT !.reply = r, !.cur = cur] \in Call
<1>1. [call EXCEPT !.live = FALSE] \in Call
  OBVIOUS
<1>2. [call EXCEPT !.at = @ + 1] \in Call
  <2>1. call.at + 1 \in Nat
    OBVIOUS
  <2> QED BY <2>1
<1>3. ASSUME NEW r \in {"awaiting", "stopped", "notfound", "raised"},
             NEW cur \in SUBSET Task
      PROVE  [call EXCEPT !.reply = r, !.cur = cur] \in Call
  OBVIOUS
<1> QED
  BY <1>1, <1>2, <1>3

\* cleanup_task only tells the calls whose list it dropped.
LEMMA ForgetCalls ==
    ASSUME stop \in [Stopper -> Call], NEW t, Forget(t)
    PROVE  stop' \in [Stopper -> Call]
<1>1. \A s \in Stopper : stop[s] \in Call
  OBVIOUS
<1>2. \A s \in Stopper : [stop[s] EXCEPT !.live = FALSE] \in Call
  <2> HIDE DEF Call
  <2> QED BY <1>1, CallEdited
<1> HIDE DEF Call
<1> QED
  BY <1>1, <1>2 DEF Forget

\* A turn of stop_item_tasks leaves the dictionaries' lists alone: it takes a
\* task out of `tasks` and cancels it, or just moves on.
LEMMA TurnCancels ==
    ASSUME TypeOK, NEW s \in Stopper, NEW call \in Call, Turn(s, call)
    PROVE  /\ stop' \in [Stopper -> Call]
           /\ \/ UNCHANGED <<tasks, state>>
              \/ \E t \in tasks : /\ tasks' = tasks \ {t}
                                  /\ state' = [state EXCEPT ![t] = IF @ = "running"
                                                 THEN "cancelling" ELSE @]
<1> DEFINE Reply(r, cur) == stop' = [stop EXCEPT ![s] = [call EXCEPT !.reply = r, !.cur = cur]]
<1>1. \/ Reply("stopped", {}) /\ UNCHANGED <<tasks, state>>
      \/ Reply("notfound", {}) /\ UNCHANGED <<tasks, state>>
      \/ \E t \in tasks :
            /\ Reply("awaiting", {t})
            /\ tasks' = tasks \ {t}
            /\ state' = [state EXCEPT ![t] = IF @ = "running" THEN "cancelling" ELSE @]
  <2> HIDE DEF Call, Idle, TaskState
  <2> QED BY Zenon DEF Turn
<1>2. ASSUME NEW r \in {"awaiting", "stopped", "notfound"}, NEW cur \in SUBSET Task,
             Reply(r, cur)
      PROVE  stop' \in [Stopper -> Call]
  <2>1. [call EXCEPT !.reply = r, !.cur = cur] \in Call
    BY CallEdited
  <2> HIDE DEF Call
  <2> QED BY <1>2, <2>1 DEF TypeOK
<1>3. {} \in SUBSET Task /\ \A t \in tasks : {t} \in SUBSET Task
  BY DEF TypeOK
<1> HIDE DEF Reply
<1> QED
  BY <1>1, <1>2, <1>3

LEMMA InvInit == Init => IInv
<1> SUFFICES ASSUME Init PROVE IInv
    OBVIOUS
<1>1. TypeOK
  BY DEF Init, TypeOK
<1>2. ListedOnce
  BY DEF Init, ListedOnce, IsInjective
<1>3. LifeOK
  BY DEF Init, LifeOK
<1>4. ListsRight
  BY DEF Init, ListsRight, Listed, Contains
<1> QED
  BY <1>1, <1>2, <1>3, <1>4 DEF IInv

LEMMA InvStep == IInv /\ [Next]_vars => IInv'
<1> SUFFICES ASSUME IInv, [Next]_vars PROVE IInv'
    OBVIOUS
<1> TypeOK /\ ListedOnce /\ LifeOK /\ ListsRight
  BY DEF IInv
<1> USE DEF IInv
<1>0. itemTasks \in [Item -> Seq(Task)] /\ \A t \in Task : itemOf[t] \in Item \cup {NoItem}
  BY DEF TypeOK
<1>1. ASSUME NEW t \in Task, NEW i \in Item, CreateTask(t, i)
     PROVE  IInv'
  <2>1. ~Listed(t, i) /\ t \notin cleaned /\ \A j \in Item : ~Listed(t, j)
    BY <1>1 DEF CreateTask, LifeOK, ListsRight
  <2>2. itemTasks' = [itemTasks EXCEPT ![i] = Append(itemTasks[i], t)]
    BY <1>1 DEF CreateTask
  <2> PICK s \in Seq(Task) : s = itemTasks[i]
    BY <1>0
  <2>3. /\ Append(s, t) \in Seq(Task) /\ IsInjective(Append(s, t))
        /\ \A u : Contains(Append(s, t), u) <=> u = t \/ Contains(s, u)
    BY <2>1, AppendOnce DEF ListedOnce, Listed
  <2>4. itemTasks'[i] = Append(s, t) /\ \A j \in Item : j # i => itemTasks'[j] = itemTasks[j]
    BY <1>0, <2>2
  <2>5. ListedOnce'
    BY <2>3, <2>4 DEF ListedOnce
  <2>6. /\ Listed(t, i)'
        /\ \A u \in Task, j \in Item :
              u # t \/ j # i => (Listed(u, j)' <=> Listed(u, j))
    BY <2>3, <2>4 DEF Listed
  <2>7. TypeOK'
    BY <1>1, <2>2, <2>3 DEF CreateTask, TypeOK
  <2>8. LifeOK'
    BY <1>1, <2>1 DEF CreateTask, TypeOK, LifeOK
  <2>9. ListsRight'
    BY <1>1, <2>1, <2>6 DEF CreateTask, TypeOK, LifeOK, ListsRight
  <2> QED BY <2>5, <2>7, <2>8, <2>9
<1>2. ASSUME NEW t \in Task, Deregister(t)
     PROVE  IInv'
  <2> PICK i \in Item : i = itemOf[t]
    BY <1>0, <1>2 DEF Deregister, LifeOK
  <2>1. /\ tasks' = tasks \ {t}
        /\ itemTasks' \in [Item -> Seq(Task)]
        /\ ListedOnce'
        /\ (~Listed(t, i))'
        /\ \A u \in Task, j \in Item : u # t \/ j # i => (Listed(u, j)' <=> Listed(u, j))
    BY <1>0, <1>2, ForgetForgets DEF Deregister
  <2>2. stop' \in [Stopper -> Call]
    BY <1>2, ForgetCalls DEF Deregister, TypeOK
  <2>3. TypeOK'
    BY <1>2, <2>1, <2>2 DEF Deregister, TypeOK
  <2>4. LifeOK'
    BY <1>2 DEF Deregister, TypeOK, LifeOK
  <2>5. ListsRight'
    BY <1>2, <2>1 DEF Deregister, TypeOK, ListsRight
  <2> QED BY <2>1, <2>3, <2>4, <2>5
<1>3. ASSUME NEW t \in Task, Finish(t)
     PROVE  IInv'
  <2>1. \A u \in Task, j \in Item : Listed(u, j)' <=> Listed(u, j)
    BY <1>3 DEF Finish, Listed
  <2>2. TypeOK' /\ ListedOnce' /\ LifeOK'
    BY <1>3 DEF Finish, TypeOK, ListedOnce, LifeOK
  <2>3. ListsRight'
    BY <1>3, <2>1 DEF Finish, TypeOK, ListsRight
  <2> QED BY <2>2, <2>3
<1>4. ASSUME NEW t \in Task, Cleanup(t)
     PROVE  IInv'
  <2> PICK i \in Item : i = itemOf[t]
    BY <1>0, <1>4 DEF Cleanup, LifeOK
  <2>1. /\ tasks' = tasks \ {t}
        /\ itemTasks' \in [Item -> Seq(Task)]
        /\ ListedOnce'
        /\ (~Listed(t, i))'
        /\ \A u \in Task, j \in Item : u # t \/ j # i => (Listed(u, j)' <=> Listed(u, j))
    BY <1>0, <1>4, ForgetForgets DEF Cleanup
  <2>2. stop' \in [Stopper -> Call]
    BY <1>4, ForgetCalls DEF Cleanup, TypeOK
  <2>3. TypeOK'
    BY <1>4, <2>1, <2>2 DEF Cleanup, TypeOK
  <2>4. LifeOK'
    BY <1>4 DEF Cleanup, TypeOK, LifeOK
  <2>5. ListsRight'
    BY <1>4, <2>1 DEF Cleanup, TypeOK, ListsRight
  <2> QED BY <2>1, <2>3, <2>4, <2>5
<1>5. ASSUME NEW s \in Stopper, NEW call \in Call, Turn(s, call),
             UNCHANGED <<itemOf, itemTasks, cleaned>>
     PROVE  IInv'
  <2>1. \A u \in Task, j \in Item : Listed(u, j)' <=> Listed(u, j)
    BY <1>5 DEF Listed
  <2>2. /\ stop' \in [Stopper -> Call]
        /\ \/ UNCHANGED <<tasks, state>>
           \/ \E t \in tasks : /\ tasks' = tasks \ {t}
                               /\ state' = [state EXCEPT ![t] = IF @ = "running"
                                              THEN "cancelling" ELSE @]
    BY <1>5, TurnCancels
  <2>3. TypeOK'
    <3> HIDE DEF Call
    <3> QED BY <1>5, <2>2 DEF TypeOK
  <2>5. ListedOnce' /\ LifeOK'
    BY <1>5, <2>2 DEF TypeOK, ListedOnce, LifeOK
  <2>4. ListsRight'
    BY <1>5, <2>1, <2>2 DEF TypeOK, ListsRight
  <2> QED BY <2>3, <2>4, <2>5
<1>6. ASSUME NEW s \in Stopper, NEW i \in Item, StopItemTasks(s, i)
     PROVE  IInv'
  <2> DEFINE call == [Idle EXCEPT !.item = i, !.at = 1, !.live = TRUE,
                                  !.wanted = ToSet(itemTasks[i])]
  <2>1. ToSet(itemTasks[i]) \subseteq Task
    BY <1>0 DEF ToSet
  <2>2. call \in Call
    BY <2>1
  <2>3. Turn(s, call) /\ UNCHANGED <<itemOf, itemTasks, cleaned>>
    BY <1>6 DEF StopItemTasks
  <2> HIDE DEF call
  <2> QED BY <1>5, <2>2, <2>3
<1>7. ASSUME NEW s \in Stopper, StopNext(s)
     PROVE  IInv'
  <2> DEFINE call == [stop[s] EXCEPT !.at = @ + 1]
  <2>1. call \in Call
    <3> HIDE DEF Call
    <3> QED BY CallEdited DEF TypeOK
  <2>2. Turn(s, call) /\ UNCHANGED <<itemOf, itemTasks, cleaned>>
    BY <1>7 DEF StopNext
  <2> HIDE DEF call
  <2> QED BY <1>5, <2>1, <2>2
<1>8. ASSUME NEW s \in Stopper, StopRaises(s)
     PROVE  IInv'
  <2>1. \A u \in Task, j \in Item : Listed(u, j)' <=> Listed(u, j)
    BY <1>8 DEF StopRaises, Listed
  <2>2. stop' = [stop EXCEPT ![s] = [stop[s] EXCEPT !.reply = "raised", !.cur = {}]]
    BY <1>8 DEF StopRaises, TypeOK
  <2>3. TypeOK'
    <3> HIDE DEF Call
    <3>1. stop[s] \in Call /\ {} \in SUBSET Task
      BY DEF TypeOK
    <3>2. [stop[s] EXCEPT !.reply = "raised", !.cur = {}] \in Call
      BY <3>1, CallEdited
    <3> QED BY <1>8, <2>2, <3>2 DEF StopRaises, TypeOK
  <2>4. ListedOnce' /\ LifeOK'
    BY <1>8 DEF StopRaises, ListedOnce, LifeOK
  <2>5. ListsRight'
    BY <1>8, <2>1 DEF StopRaises, ListsRight
  <2> QED BY <2>3, <2>4, <2>5
<1>9. ASSUME UNCHANGED vars PROVE IInv'
  <2>1. \A u \in Task, j \in Item : Listed(u, j)' <=> Listed(u, j)
    BY <1>9 DEF vars, Listed
  <2> QED BY <1>9, <2>1 DEF vars, TypeOK, ListedOnce, LifeOK, ListsRight
<1> QED
  BY <1>1, <1>2, <1>3, <1>4, <1>6, <1>7, <1>8, <1>9 DEF Next
-------------------------------------------------------------------------------
\* The inductive invariant holds.
THEOREM Inductive == Spec => []IInv
<1> QED
  BY InvInit, InvStep, PTL DEF Spec

\* The two dictionaries, the tasks and the calls of stop_item_tasks keep their
\* types: cleanup_task and create_task never put anything else in a list.
THEOREM TypeCorrect == Spec => []TypeOK
<1>1. IInv => TypeOK
  BY DEF IInv
<1> QED
  BY <1>1, Inductive, PTL

\* has_active_tasks is right without Redis: a task that has not reached its
\* cleanup is listed exactly once under its item and under no other, however
\* create_task, cleanup_task and concurrent stop_item_tasks interleave.
THEOREM Listing == Spec => []ActiveIsListed
<1>1. IInv => ActiveIsListed
  <2> SUFFICES ASSUME IInv, NEW t \in Task, NEW i \in Item
               PROVE  LET places == {k \in 1..Len(itemTasks[i]) : itemTasks[i][k] = t}
                      IN /\ state[t] \in {"running", "cancelling"} /\ itemOf[t] = i =>
                               \E k \in places : places = {k}
                         /\ state[t] = "running" => t \in tasks
                         /\ itemOf[t] # i \/ t \in cleaned => places = {}
                         /\ t \in cleaned => t \notin tasks
    BY DEF ActiveIsListed
  <2> DEFINE places == {k \in 1..Len(itemTasks[i]) : itemTasks[i][k] = t}
  <2>1. DOMAIN itemTasks[i] = 1..Len(itemTasks[i])
    BY LenProperties DEF IInv, TypeOK
  <2>2. \A k, l \in places : k = l
    BY <2>1 DEF IInv, ListedOnce, IsInjective
  <2>3. Listed(t, i) <=> places # {}
    BY DEF Listed, Contains
  <2>4. Listed(t, i) => \E k \in places : places = {k}
    BY <2>2, <2>3
  <2> QED BY <2>3, <2>4 DEF IInv, ListsRight
<1> QED
  BY <1>1, Inductive, PTL
-------------------------------------------------------------------------------
\* The fan-out of a request has not started the models in rest and is starting
\* cur; a task knows its id unless create_task has not returned to its loop.
Awaited(r, m) == creator[r].pc \in {"saving", "saved"} /\ creator[r].cur = m
FanOut ==
    \A r \in Request :
        /\ creator[r].rest \subseteq Chosen[r]
        /\ creator[r].pc \in {"saving", "saved"} => creator[r].cur \in Chosen[r] \ creator[r].rest
        /\ creator[r].pc = "idle" => creator[r].rest = Chosen[r]
        /\ creator[r].pc \in {"emit", "done"} => creator[r].rest = {}
IdsGiven ==
    \A r \in Request : \A m \in Chosen[r] :
        /\ body[<<r, m>>] = "none" <=> m \in creator[r].rest
        /\ <<r, m>> \in known <=> body[<<r, m>>] # "none" /\ ~Awaited(r, m)
CountedOut == \A t \in Completion : body[t] \in {"cleanup", "check", "emit"} => t \in known
LeftFirst == \A t \in Completion : body[t] \in {"check", "emit"} => t \notin registered
ActivityInv == ActivityTypeOK /\ FanOut /\ IdsGiven /\ CountedOut /\ LeftFirst

\* A task is a request and one of the models it chose.
LEMMA CompletionIs ==
    /\ \A r \in Request : \A m \in Chosen[r] : <<r, m>> \in Completion
    /\ \A t \in Completion : t[1] \in Request /\ t[2] \in Chosen[t[1]] /\ t = <<t[1], t[2]>>
<1>1. \A r \in Request : Chosen[r] \in SUBSET Model
  BY ChosenAssumption
<1>2. ASSUME NEW r \in Request, NEW m \in Chosen[r] PROVE <<r, m>> \in Completion
  <2>1. <<r, m>> \in Request \X Model /\ <<r, m>>[1] = r /\ <<r, m>>[2] = m
    BY <1>1
  <2> QED BY <2>1, Zenon DEF Completion
<1>3. ASSUME NEW t \in Completion
      PROVE  t[1] \in Request /\ t[2] \in Chosen[t[1]] /\ t = <<t[1], t[2]>>
  BY DEF Completion
<1> QED
  BY <1>2, <1>3

LEMMA ActivityInvInit == ActivityInit => ActivityInv
<1> SUFFICES ASSUME ActivityInit PROVE ActivityInv
  OBVIOUS
<1>1. \A r \in Request : Chosen[r] \in SUBSET Model
  BY ChosenAssumption
<1>2. \A r \in Request : creator[r] = [pc |-> "idle", cur |-> NoModel, rest |-> Chosen[r]]
  BY DEF ActivityInit
<1>3. ActivityTypeOK
  BY <1>1 DEF ActivityInit, ActivityTypeOK, Creator, CreatorPC, BodyPC
<1>4. FanOut
  <2>1. ASSUME NEW r \in Request
        PROVE  creator[r].pc = "idle" /\ creator[r].rest = Chosen[r]
    <3>1. creator[r] = [pc |-> "idle", cur |-> NoModel, rest |-> Chosen[r]]
      BY <1>2, Zenon
    <3> QED BY <3>1
  <2> QED BY <2>1 DEF FanOut
<1>5. IdsGiven
  BY <1>2, CompletionIs DEF ActivityInit, IdsGiven
<1>6. CountedOut /\ LeftFirst
  BY DEF ActivityInit, CountedOut, LeftFirst
<1> QED
  BY <1>3, <1>4, <1>5, <1>6 DEF ActivityInv

\* A step of the fan-out to `to`, without starting a task.
LEMMA FanOutGoes ==
    ASSUME ActivityInv, NEW r \in Request, NEW to \in CreatorPC,
           creator' = [creator EXCEPT ![r].pc = to],
           UNCHANGED <<body, blind, finished>>,
           known' \in SUBSET Completion, registered' \in SUBSET Completion,
           active' \in {"unset", "true", "false"},
           to # "idle",
           to \in {"emit", "done"} => creator[r].rest = {},
           to \in {"saving", "saved"} => creator[r].pc \in {"saving", "saved"},
           known' = known \cup (IF to = "emit" THEN {<<r, creator[r].cur>>} ELSE {}),
           to = "emit" => creator[r].pc = "saved",
           to = "done" => creator[r].pc = "emit",
           registered' \subseteq registered \cup {<<r, creator[r].cur>>},
           registered' # registered => Awaited(r, creator[r].cur)
    PROVE  ActivityInv'
<1> USE DEF ActivityInv
<1>1. /\ creator'[r] = [creator[r] EXCEPT !.pc = to]
      /\ \A q \in Request : q # r => creator'[q] = creator[q]
  BY DEF ActivityTypeOK
<1>2. /\ creator'[r].pc = to /\ creator'[r].cur = creator[r].cur
      /\ creator'[r].rest = creator[r].rest
      /\ creator'[r] \in Creator
  BY <1>1 DEF ActivityTypeOK, Creator
<1>3. ActivityTypeOK'
  BY <1>2 DEF ActivityTypeOK
<1>4. FanOut'
  BY <1>1, <1>2 DEF FanOut
<1>5. IdsGiven'
  <2> SUFFICES ASSUME NEW q \in Request, NEW m \in Chosen[q]
               PROVE  /\ (body[<<q, m>>] = "none" <=> m \in creator[q].rest)'
                      /\ (<<q, m>> \in known <=> body[<<q, m>>] # "none" /\ ~Awaited(q, m))'
    BY DEF IdsGiven
  <2>1. /\ body[<<q, m>>] = "none" <=> m \in creator[q].rest
        /\ <<q, m>> \in known <=> body[<<q, m>>] # "none" /\ ~Awaited(q, m)
    BY DEF IdsGiven
  <2>2. CASE q # r
    BY <1>1, <2>1, <2>2 DEF Awaited
  <2>3. CASE q = r
    <3>1. CASE to = "emit"
      <4>1. ~Awaited(r, m)' /\ (m \in creator[r].rest <=> FALSE)
        BY <1>2, <3>1 DEF Awaited
      <4> QED BY <1>2, <2>1, <2>3, <3>1, <4>1 DEF Awaited
    <3>2. CASE to # "emit"
      <4>1. Awaited(r, m)' <=> Awaited(r, m)
        BY <1>2, <3>2 DEF Awaited, CreatorPC
      <4> QED BY <1>2, <2>1, <2>3, <3>2, <4>1
    <3> QED BY <3>1, <3>2
  <2> QED BY <2>2, <2>3
<1>6. CountedOut'
  BY DEF CountedOut
<1>7. LeftFirst'
  <2> SUFFICES ASSUME NEW t \in Completion, body[t] \in {"check", "emit"},
                      t \in registered'
               PROVE  FALSE
    BY DEF LeftFirst
  <2>1. t \in known /\ t \notin registered
    BY DEF CountedOut, LeftFirst
  <2>2. t = <<r, creator[r].cur>> /\ Awaited(r, creator[r].cur)
    BY <2>1
  <2>3. creator[r].cur \in Chosen[r]
    BY <2>2 DEF FanOut, Awaited
  <2> QED BY <2>1, <2>2, <2>3 DEF IdsGiven
<1> QED
  BY <1>3, <1>4, <1>5, <1>6, <1>7

\* The fan-out starts its next task, after it gave the last one its id.
LEMMA StartsNext ==
    ASSUME ActivityInv, NEW r \in Request, Start(r),
           creator[r].pc \in {"idle", "saved"},
           known' = known \cup (IF creator[r].pc = "saved" THEN {<<r, creator[r].cur>>} ELSE {}),
           UNCHANGED <<blind, registered, finished, active>>
    PROVE  ActivityInv'
<1> USE DEF ActivityInv
<1> PICK m \in creator[r].rest :
       /\ creator' = [creator EXCEPT ![r] = [pc |-> "saving", cur |-> m,
                                             rest |-> creator[r].rest \ {m}]]
       /\ body' = [body EXCEPT ![<<r, m>>] = "running"]
  BY DEF Start
<1>1. /\ creator'[r].pc = "saving" /\ creator'[r].cur = m
      /\ creator'[r].rest = creator[r].rest \ {m}
      /\ \A q \in Request : q # r => creator'[q] = creator[q]
  BY DEF ActivityTypeOK
<1>2. m \in Chosen[r] /\ m \in Model /\ <<r, m>> \in Completion
  BY CompletionIs, ChosenAssumption DEF FanOut
<1>3. /\ body'[<<r, m>>] = "running"
      /\ \A t \in Completion : t # <<r, m>> => body'[t] = body[t]
  BY <1>2 DEF ActivityTypeOK
<1>4. creator[r].pc = "saved" => <<r, creator[r].cur>> \in Completion
  BY CompletionIs DEF FanOut
<1>5. ActivityTypeOK'
  <2>1. creator' \in [Request -> Creator]
    BY <1>2 DEF ActivityTypeOK, Creator, CreatorPC
  <2>2. body' \in [Completion -> BodyPC] /\ known' \in SUBSET Completion
    BY <1>2, <1>4 DEF ActivityTypeOK, BodyPC
  <2> QED BY <2>1, <2>2 DEF ActivityTypeOK
<1>6. FanOut'
  BY <1>1, <1>2 DEF FanOut
<1>7. IdsGiven'
  <2> SUFFICES ASSUME NEW q \in Request, NEW n \in Chosen[q]
               PROVE  /\ (body[<<q, n>>] = "none" <=> n \in creator[q].rest)'
                      /\ (<<q, n>> \in known <=> body[<<q, n>>] # "none" /\ ~Awaited(q, n))'
    BY DEF IdsGiven
  <2>1. /\ body[<<q, n>>] = "none" <=> n \in creator[q].rest
        /\ <<q, n>> \in known <=> body[<<q, n>>] # "none" /\ ~Awaited(q, n)
        /\ <<q, n>> \in Completion
    BY CompletionIs DEF IdsGiven
  <2>2. CASE q # r
    <3>1. <<q, n>> # <<r, m>> /\ <<q, n>> # <<r, creator[r].cur>>
      BY <2>2
    <3>2. <<q, n>> \in known' <=> <<q, n>> \in known
      BY <3>1
    <3>3. Awaited(q, n)' <=> Awaited(q, n)
      BY <1>1, <2>2 DEF Awaited
    <3> QED BY <1>1, <1>3, <2>1, <2>2, <3>1, <3>2, <3>3
  <2>3. CASE q = r /\ n = m
    <3>1. <<r, m>> \notin known
      BY <2>1, <2>3
    <3>2. creator[r].pc = "saved" => creator[r].cur # m
      BY DEF FanOut
    <3>3. <<r, m>> \notin known'
      BY <3>1, <3>2
    <3>4. Awaited(r, m)'
      BY <1>1 DEF Awaited
    <3> QED BY <1>1, <1>3, <2>3, <3>3, <3>4
  <2>4. CASE q = r /\ n # m
    <3>1. <<r, n>> # <<r, m>>
      BY <2>4
    <3>2. ~Awaited(r, n)'
      BY <1>1, <2>4 DEF Awaited
    <3>3. <<r, n>> \in known' <=> body[<<r, n>>] # "none"
      <4>1. CASE creator[r].pc = "idle"
        BY <2>1, <2>4, <4>1 DEF Awaited
      <4>2. CASE creator[r].pc = "saved" /\ n = creator[r].cur
        BY <2>1, <2>4, <4>2 DEF FanOut
      <4>3. CASE creator[r].pc = "saved" /\ n # creator[r].cur
        <5>1. <<r, n>> # <<r, creator[r].cur>>
          BY <4>3
        <5> QED BY <2>1, <2>4, <4>3, <5>1 DEF Awaited
      <4> QED BY <4>1, <4>2, <4>3
    <3> QED BY <1>1, <1>3, <2>1, <2>4, <3>1, <3>2, <3>3
  <2> QED BY <2>2, <2>3, <2>4
<1>8. CountedOut'
  BY <1>3 DEF CountedOut
<1>9. LeftFirst'
  BY <1>3 DEF LeftFirst
<1> QED
  BY <1>5, <1>6, <1>7, <1>8, <1>9

\* A step of the task t: from a state in which it runs to the state `to`.
LEMMA BodyGoes ==
    ASSUME ActivityInv, NEW t \in Completion, NEW to \in BodyPC \ {"none"},
           body[t] # "none", body' = [body EXCEPT ![t] = to],
           UNCHANGED <<creator, known, finished>>,
           blind' \in SUBSET Completion,
           active' \in {"unset", "true", "false"},
           registered' \subseteq registered,
           to \in {"cleanup", "check", "emit"} => t \in known,
           to \in {"check", "emit"} => t \notin registered'
    PROVE  ActivityInv'
<1> USE DEF ActivityInv
<1>1. body'[t] = to /\ \A u \in Completion : u # t => body'[u] = body[u]
  BY DEF ActivityTypeOK
<1>2. ActivityTypeOK'
  BY DEF ActivityTypeOK
<1>3. FanOut'
  BY DEF FanOut
<1>4. IdsGiven'
  <2>1. \A u \in Completion : body'[u] = "none" <=> body[u] = "none"
    BY <1>1
  <2>2. \A r \in Request, m \in Model : Awaited(r, m)' <=> Awaited(r, m)
    BY DEF Awaited
  <2>3. \A r \in Request : Chosen[r] \in SUBSET Model
    BY ChosenAssumption
  <2> QED BY <2>1, <2>2, <2>3, CompletionIs DEF IdsGiven
<1>5. CountedOut' /\ LeftFirst'
  BY <1>1 DEF CountedOut, LeftFirst
<1> QED
  BY <1>2, <1>3, <1>4, <1>5

LEMMA ActivityInvStep == ActivityInv /\ [ActivityNext]_activityVars => ActivityInv'
<1> SUFFICES ASSUME ActivityInv, [ActivityNext]_activityVars PROVE ActivityInv'
  OBVIOUS
<1>0. ActivityTypeOK /\ FanOut
  BY DEF ActivityInv
<1>1. ASSUME NEW r \in Request, Begin(r) PROVE ActivityInv'
  BY <1>1, StartsNext DEF Begin
<1>2. ASSUME NEW r \in Request, Save(r) PROVE ActivityInv'
  <2>1. creator[r].cur \in Chosen[r] /\ Awaited(r, creator[r].cur)
    BY <1>0, <1>2 DEF Save, FanOut, Awaited
  <2>2. registered' \in SUBSET Completion
    BY <1>0, <1>2, <2>1, CompletionIs DEF Save, ActivityTypeOK
  <2> QED BY <1>0, <1>2, <2>1, <2>2, FanOutGoes DEF Save, ActivityTypeOK, CreatorPC
<1>3. ASSUME NEW r \in Request, Return(r) PROVE ActivityInv'
  <2>1. creator[r].pc = "saved" /\ UNCHANGED <<blind, registered, finished, active>>
    BY <1>3 DEF Return
  <2>2. known' = known \cup {<<r, creator[r].cur>>}
    BY <1>3 DEF Return
  <2>3. CASE Start(r)
    BY <2>1, <2>2, <2>3, StartsNext
  <2>4. CASE /\ creator[r].rest = {}
             /\ creator' = [creator EXCEPT ![r].pc = "emit"]
             /\ UNCHANGED body
    <3>1. <<r, creator[r].cur>> \in Completion
      BY <1>0, <2>1, CompletionIs DEF FanOut
    <3>2. known' \in SUBSET Completion
      BY <1>0, <2>2, <3>1 DEF ActivityTypeOK
    <3> QED BY <1>0, <2>1, <2>2, <2>4, <3>2, FanOutGoes DEF ActivityTypeOK, CreatorPC
  <2> QED BY <1>3, <2>3, <2>4 DEF Return
<1>4. ASSUME NEW r \in Request, EmitActive(r) PROVE ActivityInv'
  BY <1>0, <1>4, FanOutGoes DEF EmitActive, ActivityTypeOK, FanOut, CreatorPC
<1>5. ASSUME NEW t \in Completion, BodyStep(t) PROVE ActivityInv'
  <2>1. CASE BodyCopies(t)
    BY <1>0, <2>1, BodyGoes DEF BodyCopies, ActivityTypeOK, BodyPC
  <2>2. CASE BodyEnds(t)
    BY <1>0, <2>2, BodyGoes DEF BodyEnds, ActivityTypeOK, BodyPC
  <2>3. CASE BodyCleanup(t)
    BY <1>0, <2>3, BodyGoes DEF BodyCleanup, ActivityTypeOK, BodyPC, ActivityInv, CountedOut
  <2>4. CASE BodyCheck(t)
    BY <1>0, <2>4, BodyGoes
       DEF BodyCheck, ActivityTypeOK, BodyPC, ActivityInv, CountedOut, LeftFirst
  <2>5. CASE EmitInactive(t)
    BY <1>0, <2>5, BodyGoes DEF EmitInactive, ActivityTypeOK, BodyPC
  <2>6. CASE DoneCleanup(t)
    <3>1. registered' \subseteq registered /\ finished' \in SUBSET Completion
          /\ UNCHANGED <<creator, body, known, blind, active>>
      BY <1>0, <2>6 DEF DoneCleanup, ActivityTypeOK
    <3>2. \A r \in Request : \A m \in Chosen[r] : Awaited(r, m)' <=> Awaited(r, m)
      BY <3>1 DEF Awaited
    <3> QED BY <3>1, <3>2
            DEF ActivityInv, ActivityTypeOK, FanOut, IdsGiven, CountedOut, LeftFirst
  <2> QED BY <1>5, <2>1, <2>2, <2>3, <2>4, <2>5, <2>6 DEF BodyStep
<1>6. ASSUME NEW t \in Completion, CutShort(t) PROVE ActivityInv'
  BY <1>0, <1>6, BodyGoes DEF CutShort, ActivityTypeOK, BodyPC
<1>7. CASE UNCHANGED activityVars
  <2>1. \A r \in Request : \A m \in Chosen[r] : Awaited(r, m)' <=> Awaited(r, m)
    BY <1>7 DEF activityVars, Awaited
  <2> QED BY <1>7, <2>1 DEF activityVars, ActivityInv, ActivityTypeOK, FanOut, IdsGiven,
                            CountedOut, LeftFirst
<1> QED
  BY <1>1, <1>2, <1>3, <1>4, <1>5, <1>6, <1>7 DEF ActivityNext, RequestStep

\* The fan-outs, the tasks, the Redis set of the chat and the last event keep
\* their types: what is registered or told its id was started before.
THEOREM ActivityTypeCorrect == ActivitySpec => []ActivityTypeOK
<1>1. ActivityInv => ActivityTypeOK
  BY DEF ActivityInv
<1> QED
  BY <1>1, ActivityInvInit, ActivityInvStep, PTL DEF ActivitySpec

\* has_active_tasks never counts the task that asks: the pipeline that
\* registers a task has been executed before the task can deregister itself,
\* and none registers it again, so that the last task to leave finds none left.
AskerHasLeft == \A t \in Completion : body[t] \in {"check", "emit"} => t \notin registered

\* It is so for any requests on the chat and any models they choose.
THEOREM AskersLeave == ActivitySpec => []AskerHasLeft
<1>1. ActivityInv => AskerHasLeft
  BY DEF ActivityInv, LeftFirst, AskerHasLeft
<1> QED
  BY <1>1, ActivityInvInit, ActivityInvStep, PTL DEF ActivitySpec
================================================================================
