------------------------- MODULE YdocDocument_proofs -------------------------
(***************************************************************************)
(* Proofs about YdocDocument for any number of sessions and updates and any *)
(* Threshold; all but type correctness and the theorem on documents below   *)
(* the threshold for the store in memory, whose methods do not suspend.     *)
(***************************************************************************)
EXTENDS YdocDocument, Integers, SequenceTheorems, FiniteSetTheorems, TLAPS

List == Seq(SUBSET Update)

LEMMA InMerged ==
    ASSUME NEW list \in List
    PROVE  /\ Merged(list) \subseteq Update
           /\ \A x : x \in Merged(list) <=> \E i \in 1..Len(list) : x \in list[i]
<1>1. DOMAIN list = 1..Len(list) /\ \A i \in 1..Len(list) : list[i] \subseteq Update
  BY DEF List
<1>2. QED BY <1>1 DEF Merged, ToSet

\* RPUSH adds the update.
LEMMA Pushed ==
    ASSUME NEW list \in List, NEW u \in Update
    PROVE  /\ Append(list, {u}) \in List
           /\ Len(Append(list, {u})) = Len(list) + 1
           /\ Merged(Append(list, {u})) = Merged(list) \cup {u}
<1> DEFINE new == Append(list, {u})
<1>1. /\ new \in List /\ Len(new) = Len(list) + 1 /\ Len(list) \in Nat
      /\ \A i \in 1..Len(list) : new[i] = list[i]
      /\ new[Len(list) + 1] = {u}
  BY DEF List
<1> HIDE DEF new
<1>2. ASSUME NEW x PROVE x \in Merged(new) <=> x \in Merged(list) \/ x = u
  <2>1. x \in Merged(new) <=> \E i \in 1..Len(new) : x \in new[i]
    BY <1>1, InMerged
  <2>2. x \in Merged(list) <=> \E i \in 1..Len(list) : x \in list[i]
    BY InMerged
  <2>3. 1..Len(new) = 1..Len(list) \cup {Len(list) + 1}
    BY <1>1
  <2>4. QED BY <1>1, <2>1, <2>2, <2>3
<1>3. QED BY <1>1, <1>2 DEF new

\* Compaction keeps what the list adds up to and makes it shorter.
LEMMA CompactedKeeps ==
    ASSUME NEW list \in List
    PROVE  /\ Compacted(list) \in List
           /\ Len(Compacted(list)) = 1 + Len(list) - (Len(list) \div 2)
           /\ Merged(Compacted(list)) = Merged(list)
<1> DEFINE mid == Len(list) \div 2
           old == SubSeq(list, 1, mid)
           rest == SubSeq(list, mid + 1, Len(list))
<1>1. Len(list) \in Nat /\ mid \in Nat /\ mid <= Len(list)
  BY DEF List
<1>2. /\ old \in List /\ Len(old) = mid /\ \A i \in 1..mid : old[i] = list[i]
      /\ rest \in List /\ Len(rest) = Len(list) - mid
      /\ \A i \in 1..(Len(list) - mid) : rest[i] = list[mid + i]
  <2> HIDE DEF mid
  <2>1. \A i \in 1..Len(list) : list[i] \in SUBSET Update
    BY DEF List
  <2>2. /\ old \in List /\ Len(old) = mid
        /\ \A i \in 1..mid : old[i] = list[1 + i - 1]
    BY <1>1, <2>1, SubSeqProperties DEF List
  <2>3. /\ rest \in List /\ Len(rest) = Len(list) - mid
        /\ \A i \in 1..(Len(list) - mid) : rest[i] = list[mid + 1 + i - 1]
    <3>1. PICK k \in Int, n \in Int : k = mid + 1 /\ n = Len(list)
      BY <1>1
    <3>2. \A i \in k..n : list[i] \in SUBSET Update
      BY <1>1, <2>1, <3>1
    <3>3. /\ SubSeq(list, k, n) \in List
          /\ Len(SubSeq(list, k, n)) = IF k <= n THEN n - k + 1 ELSE 0
          /\ \A i \in 1..(n - k + 1) : SubSeq(list, k, n)[i] = list[k + i - 1]
      BY <3>2, SubSeqProperties DEF List
    <3>4. rest = SubSeq(list, k, n)
      BY <3>1
    <3> HIDE DEF rest
    <3>5. Len(rest) = n - k + 1 /\ n - k + 1 = Len(list) - mid
      BY <1>1, <3>1, <3>3, <3>4
    <3>6. QED BY <3>1, <3>3, <3>4, <3>5
  <2>4. QED BY <1>1, <2>2, <2>3
<1> DEFINE new == <<Merged(old)>> \o rest
<1> HIDE DEF mid, old, rest
<1>3. Merged(old) \subseteq Update
  BY <1>2, InMerged
<1>4. /\ new \in List /\ Len(new) = 1 + Len(list) - mid
      /\ new[1] = Merged(old)
      /\ \A i \in 2..Len(new) : new[i] = rest[i - 1]
  BY <1>1, <1>2, <1>3 DEF List
<1> HIDE DEF new
<1>5. ASSUME NEW x PROVE x \in Merged(new) <=> x \in Merged(list)
  <2>1. x \in Merged(new) <=> \E i \in 1..Len(new) : x \in new[i]
    BY <1>4, InMerged
  <2>2. x \in Merged(list) <=> \E i \in 1..Len(list) : x \in list[i]
    BY InMerged
  <2>3. x \in Merged(old) <=> \E i \in 1..mid : x \in list[i]
    BY <1>2, InMerged
  <2>4. (\E i \in 2..Len(new) : x \in new[i]) <=> \E i \in (mid + 1)..Len(list) : x \in list[i]
    <3>1. ASSUME NEW i \in 2..Len(new), x \in new[i]
          PROVE  \E j \in (mid + 1)..Len(list) : x \in list[j]
      <4>1. i - 1 \in 1..(Len(list) - mid) /\ mid + (i - 1) \in (mid + 1)..Len(list)
        BY <1>1, <1>4
      <4>2. x \in list[mid + (i - 1)]
        BY <3>1, <4>1, <1>2, <1>4
      <4>3. QED BY <4>1, <4>2
    <3>2. ASSUME NEW j \in (mid + 1)..Len(list), x \in list[j]
          PROVE  \E i \in 2..Len(new) : x \in new[i]
      <4>1. /\ j - mid \in 1..(Len(list) - mid) /\ mid + (j - mid) = j
            /\ j - mid + 1 \in 2..Len(new) /\ (j - mid + 1) - 1 = j - mid
        BY <1>1, <1>4
      <4>2. x \in new[j - mid + 1]
        BY SMTT(30), <3>2, <4>1, <1>2, <1>4
      <4>3. QED BY <4>1, <4>2
    <3>3. QED BY <3>1, <3>2
  <2>5. 1..Len(new) = {1} \cup 2..Len(new) /\ 1..Len(list) = 1..mid \cup (mid + 1)..Len(list)
    BY <1>1, <1>4
  <2>6. QED BY <1>4, <2>1, <2>2, <2>3, <2>4, <2>5
<1>6. QED BY <1>4, <1>5 DEF new, mid, old, rest, Compacted
-------------------------------------------------------------------------------
LEMMA TypeStep == TypeOK /\ [Next]_vars => TypeOK'
<1> SUFFICES ASSUME TypeOK, [Next]_vars PROVE TypeOK'
  OBVIOUS
<1> USE DEF TypeOK, Go, Stand
<1>places. Place = {"out", "enter", "fetch", "state", "in", "room", "exists", "users",
          "delUpdates", "delUsers", "quit", "quitUsers", "quitUpdates", "quitDel", "closed"}
  BY DEF Place
<1>stages. Stage = {"none", "push", "length", "range", "exec", "cast", "done"}
  BY DEF Stage
<1>1. ASSUME NEW s \in Session, JoinAdd(s) \/ JoinEnter(s) \/ JoinState(s) PROVE TypeOK'
  BY ZenonT(60), <1>1, <1>places DEF JoinAdd, JoinEnter, JoinState
<1>2. ASSUME NEW s \in Session, JoinFetch(s) PROVE TypeOK'
  <2>1. Merged(updates) \in SUBSET Update
    BY InMerged DEF List
  <2>2. QED BY <1>2, <2>1, <1>places DEF JoinFetch
<1>3. ASSUME NEW s \in Session, LeaveRemove(s) \/ LeaveRoom(s) \/ LeaveExists(s) \/ LeaveUsers(s)
      PROVE  TypeOK'
  BY <1>3, <1>places DEF LeaveRemove, LeaveRoom, LeaveExists, LeaveUsers
<1>4. ASSUME NEW s \in Session, DeleteUpdates(s) \/ DeleteUsers(s) PROVE TypeOK'
  <2>1. at' \in [Session -> Place]
    BY <1>4, <1>places DEF DeleteUpdates, DeleteUsers
  <2>2. updates' \in Seq(SUBSET Update)
    <3>1. updates' = <<>> \/ updates' = updates
      BY <1>4 DEF DeleteUpdates, DeleteUsers
    <3>2. <<>> \in Seq(SUBSET Update)
      BY EmptySeq
    <3>3. QED BY <3>1, <3>2
  <2>sets. users' \in SUBSET Session /\ room' \in SUBSET Session
    <3>1. users' \in {users, {}} /\ room' \in {room, room \ {s}}
      BY <1>4 DEF DeleteUpdates, DeleteUsers
    <3>2. QED BY <3>1
  <2>3. UNCHANGED <<copy, got, edit, read, late>>
    BY <1>4 DEF DeleteUpdates, DeleteUsers
  <2>4. QED BY <2>1, <2>2, <2>sets, <2>3
<1>5. ASSUME NEW s \in Session, Quit(s) \/ QuitUnknown(s) \/ QuitRemove(s) \/ QuitUsers(s)
      PROVE  TypeOK'
  <2>1. at' \in [Session -> Place] /\ users' \in SUBSET Session /\ room' \in SUBSET Session
    BY <1>5, <1>places DEF Quit, QuitUnknown, QuitRemove, QuitUsers
  <2>2. late' \in SUBSET Session /\ UNCHANGED <<updates, copy, got, edit, read>>
    BY <1>5 DEF Quit, QuitUnknown, Overtakes, QuitRemove, QuitUsers
  <2>3. QED BY <2>1, <2>2
<1>late. ASSUME NEW s \in Session, JoinLate(s) PROVE TypeOK'
  BY <1>late DEF JoinLate
<1>6. ASSUME NEW u \in Update, Edit(u) PROVE TypeOK'
  BY <1>6, <1>stages, AuthorAssumption DEF Edit
<1>7. ASSUME NEW u \in Update, Push(u) PROVE TypeOK'
  <2>1. Append(updates, {u}) \in Seq(SUBSET Update)
    BY Pushed DEF List
  <2>2. QED BY <1>7, <2>1, <1>stages DEF Push
<1>8. ASSUME NEW u \in Update, Length(u) \/ Range0(u) PROVE TypeOK'
  BY <1>8, <1>stages DEF Length, Range0
<1>9. ASSUME NEW u \in Update, Exec(u) PROVE TypeOK'
  <2>1. Compacted(read[u]) \in Seq(SUBSET Update)
    BY CompactedKeeps DEF List
  <2>2. QED BY <1>9, <2>1, <1>stages DEF Exec
<1>10. ASSUME NEW u \in Update, Cast(u) PROVE TypeOK'
  BY <1>10, <1>stages DEF Cast
<1>11. CASE UNCHANGED vars
  BY <1>11 DEF vars
<1>12. QED
  BY <1>1, <1>2, <1>3, <1>4, <1>5, <1>late, <1>6, <1>7, <1>8, <1>9, <1>10, <1>11
     DEF Next, SessionStep, EditStep

LEMMA TypeInit == Init => TypeOK
  BY DEF Init, TypeOK, Place, Stage

\* The variables keep their types, with Redis and without it.
THEOREM TypeCorrect == Spec => []TypeOK
  BY TypeInit, TypeStep, PTL DEF Spec
-------------------------------------------------------------------------------
\* In memory at most one handler is in the store's methods.
Exclusive ==
    /\ \A s, t \in Session : InStore(s) /\ InStore(t) => s = t
    /\ \A u, v \in Update : Storing(u) /\ Storing(v) => u = v
    /\ \A s \in Session, u \in Update : ~(InStore(s) /\ Storing(u))

LEMMA ExclusiveStep == ~Shared /\ TypeOK /\ Exclusive /\ [Next]_vars => Exclusive'
<1> SUFFICES ASSUME ~Shared, TypeOK, Exclusive, [Next]_vars PROVE Exclusive'
  OBVIOUS
<1>types. DOMAIN at = Session /\ DOMAIN edit = Update
  BY DEF TypeOK
\* A step of one session alone: it was in the store, or nobody was.
<1>1. ASSUME NEW s \in Session, NEW to, Go(s, to), edit' = edit,
             InStore(s) \/ SessionTurn(s)
      PROVE  Exclusive'
  <2>1. \A t \in Session \ {s} : InStore(t)' <=> InStore(t)
    BY <1>1, <1>types DEF Go, InStore
  <2>2. \A u \in Update : Storing(u)' <=> Storing(u)
    BY <1>1 DEF Storing
  <2>3. (\A t \in Session \ {s} : ~InStore(t)) /\ (\A u \in Update : ~Storing(u))
    BY <1>1 DEF SessionTurn, Exclusive
  <2>4. QED BY <2>1, <2>2, <2>3 DEF Exclusive
<1>2. ASSUME NEW u \in Update, NEW to, Stand(u, to), at' = at,
             Storing(u) \/ EditTurn(u)
      PROVE  Exclusive'
  <2>1. \A v \in Update \ {u} : Storing(v)' <=> Storing(v)
    BY <1>2, <1>types DEF Stand, Storing
  <2>2. \A s \in Session : InStore(s)' <=> InStore(s)
    BY <1>2 DEF InStore
  <2>3. (\A v \in Update \ {u} : ~Storing(v)) /\ (\A s \in Session : ~InStore(s))
    BY <1>2 DEF EditTurn, Exclusive
  <2>4. QED BY <2>1, <2>2, <2>3 DEF Exclusive
<1>3. ASSUME NEW s \in Session, SessionStep(s) PROVE Exclusive'
  <2>1. edit' = edit
    BY <1>3 DEF SessionStep, JoinAdd, JoinLate, JoinEnter, JoinFetch, JoinState, LeaveRemove,
        LeaveRoom, LeaveExists, LeaveUsers, DeleteUpdates, DeleteUsers, Quit, QuitUnknown,
        QuitRemove, QuitUsers
  <2>2. (\E to : Go(s, to)) \/ at' = at
    BY <1>3 DEF SessionStep, JoinAdd, JoinLate, JoinEnter, JoinFetch, JoinState, LeaveRemove,
        LeaveRoom, LeaveExists, LeaveUsers, DeleteUpdates, DeleteUsers, Quit, QuitUnknown,
        QuitRemove, QuitUsers
  <2>3. InStore(s) \/ SessionTurn(s)
    BY <1>3 DEF SessionStep, JoinAdd, JoinLate, JoinEnter, JoinFetch, JoinState, LeaveRemove,
        LeaveRoom, LeaveExists, LeaveUsers, DeleteUpdates, DeleteUsers, Quit, QuitUnknown,
        QuitRemove, QuitUsers, InStore
  <2>4. at' = at => Exclusive'
    BY <2>1 DEF Exclusive, InStore, Storing
  <2>5. QED BY <2>1, <2>2, <2>3, <2>4, <1>1
<1>4. ASSUME NEW u \in Update, EditStep(u) PROVE Exclusive'
  <2>1. at' = at
    BY <1>4 DEF EditStep, Edit, Push, Length, Range0, Exec, Cast
  <2>2. \E to : Stand(u, to)
    BY <1>4 DEF EditStep, Edit, Push, Length, Range0, Exec, Cast
  <2>3. Storing(u) \/ EditTurn(u)
    BY <1>4 DEF EditStep, Edit, Push, Length, Range0, Exec, Cast, Storing
  <2>4. QED BY <2>1, <2>2, <2>3, <1>2
<1>5. CASE UNCHANGED vars
  BY <1>5 DEF vars, Exclusive, InStore, Storing
<1>6. QED BY <1>3, <1>4, <1>5 DEF Next
-------------------------------------------------------------------------------
\* Who is about to clear the document has seen that nobody is in it, and in
\* memory nobody has come since.
Clearing(s) == at[s] \in {"delUpdates", "delUsers", "quitUpdates", "quitDel"}
UsersOK == \A s \in Session : Clearing(s) => users = {}

LEMMA UsersStep == ~Shared /\ TypeOK /\ UsersOK /\ [Next]_vars => UsersOK'
<1> SUFFICES ASSUME ~Shared, TypeOK, UsersOK, [Next]_vars PROVE UsersOK'
  OBVIOUS
<1>types. DOMAIN at = Session
  BY DEF TypeOK
<1>1. ASSUME NEW s \in Session, JoinAdd(s) \/ LeaveRemove(s) \/ QuitRemove(s) PROVE UsersOK'
  <2>1. PICK to \in {"enter", "room", "quitUsers"} : Go(s, to)
    BY <1>1 DEF JoinAdd, LeaveRemove, QuitRemove
  <2>2. \A t \in Session \ {s} : ~InStore(t)
    BY <1>1 DEF JoinAdd, LeaveRemove, QuitRemove, SessionTurn
  <2>3. \A t \in Session : ~Clearing(t)'
    BY <2>1, <2>2, <1>types DEF Go, Clearing, InStore
  <2>4. QED BY <2>3 DEF UsersOK
<1>late. ASSUME NEW s \in Session, JoinLate(s) PROVE UsersOK'
  <2>1. at' = at /\ \A t \in Session : ~InStore(t)
    BY <1>late DEF JoinLate, SessionTurn
  <2>2. QED BY <2>1 DEF UsersOK, Clearing, InStore
<1>2. ASSUME NEW s \in Session, NEW to, Go(s, to), users' = users,
             (to \in {"delUpdates", "delUsers", "quitUpdates", "quitDel"}) => users = {}
      PROVE  UsersOK'
  BY <1>2, <1>types DEF UsersOK, Clearing, Go
<1>3. ASSUME NEW s \in Session, JoinEnter(s) \/ JoinFetch(s) \/ JoinState(s) \/ LeaveRoom(s)
      PROVE  UsersOK'
  <2>1. users' = users /\ \E to \in {"fetch", "state", "in", "exists"} : Go(s, to)
    BY <1>3 DEF JoinEnter, JoinFetch, JoinState, LeaveRoom
  <2>2. QED BY <2>1, <1>2
<1>4. ASSUME NEW s \in Session, LeaveExists(s) \/ Quit(s) \/ QuitUnknown(s) PROVE UsersOK'
  <2>1. users' = users /\ \E to \in {"users", "out", "quit", "closed"} : Go(s, to)
    BY <1>4 DEF LeaveExists, Quit, QuitUnknown
  <2>2. QED BY <2>1, <1>2
<1>5. ASSUME NEW s \in Session, LeaveUsers(s) \/ QuitUsers(s) PROVE UsersOK'
  <2>1. users' = users
    BY <1>5 DEF LeaveUsers, QuitUsers
  <2>2. \E to : Go(s, to) /\ (users # {} => to \in {"out", "closed"})
    BY <1>5 DEF LeaveUsers, QuitUsers
  <2>3. QED BY <2>1, <2>2, <1>2
<1>6. ASSUME NEW s \in Session, DeleteUpdates(s) PROVE UsersOK'
  <2>1. users' = users /\ users = {} /\ \E to : Go(s, to)
    BY <1>6 DEF DeleteUpdates, UsersOK, Clearing
  <2>2. QED BY <2>1, <1>2
<1>7. ASSUME NEW s \in Session, DeleteUsers(s) PROVE UsersOK'
  BY <1>7 DEF DeleteUsers, UsersOK
<1>8. ASSUME NEW u \in Update, EditStep(u) PROVE UsersOK'
  <2>1. users' = users /\ at' = at
    BY <1>8 DEF EditStep, Edit, Push, Length, Range0, Exec, Cast
  <2>2. QED BY <2>1 DEF UsersOK, Clearing
<1>9. CASE UNCHANGED vars
  BY <1>9 DEF vars, UsersOK, Clearing
<1>10. QED
  BY <1>1, <1>late, <1>3, <1>4, <1>5, <1>6, <1>7, <1>8, <1>9 DEF Next, SessionStep
-------------------------------------------------------------------------------
\* What the handler of an update knows of the list while nobody else is in the
\* store.
ListOK ==
    /\ \A u \in Update :
          /\ edit[u] = "exec" => read[u] = updates
          /\ edit[u] = "length" => Len(updates) <= Threshold
          /\ edit[u] \in {"range", "exec"} => Len(updates) = Threshold
    /\ Bounded

LEMMA ListStep == ~Shared /\ TypeOK /\ Exclusive /\ ListOK /\ [Next]_vars => ListOK'
<1> SUFFICES ASSUME ~Shared, TypeOK, Exclusive, ListOK, [Next]_vars PROVE ListOK'
  OBVIOUS
<1>types. /\ DOMAIN edit = Update /\ DOMAIN read = Update
          /\ updates \in List /\ Len(updates) \in Nat
          /\ Threshold \in Nat /\ Threshold > 3
  BY ThresholdAssumption DEF TypeOK, List
<1>0. ASSUME UNCHANGED <<edit, read, updates>> PROVE ListOK'
  BY <1>0 DEF ListOK, Bounded, Handling, Storing
<1>1. ASSUME NEW s \in Session, DeleteUpdates(s) PROVE ListOK'
  <2>1. updates' = <<>> /\ edit' = edit
    BY <1>1 DEF DeleteUpdates
  <2>2. InStore(s)
    BY <1>1 DEF DeleteUpdates, InStore
  <2>3. \A u \in Update : ~Storing(u)'
    BY <2>1, <2>2 DEF Exclusive, Storing
  <2>4. Len(updates') = 0 /\ 0 < Threshold
    BY <2>1, <1>types
  <2>5. QED BY <2>3, <2>4 DEF ListOK, Bounded, Storing
<1>2. ASSUME NEW s \in Session, SessionStep(s), ~DeleteUpdates(s) PROVE ListOK'
  <2>1. UNCHANGED <<edit, read, updates>>
    BY <1>2 DEF SessionStep, JoinAdd, JoinLate, JoinEnter, JoinFetch, JoinState, LeaveRemove,
        LeaveRoom, LeaveExists, LeaveUsers, DeleteUsers, Quit, QuitUnknown,
        QuitRemove, QuitUsers
  <2>2. QED BY <2>1, <1>0
\* A handler goes from one stage outside the store to another.
<1>3. ASSUME NEW u \in Update, Edit(u) \/ Cast(u) PROVE ListOK'
  <2>1. UNCHANGED <<updates, read>> /\ ~Storing(u)
        /\ \E to \in {"push", "done"} : Stand(u, to)
    BY <1>3 DEF Edit, Cast, Storing
  <2>2. \A v \in Update : edit'[v] \in {"length", "range", "exec"} => edit'[v] = edit[v]
    BY <2>1, <1>types DEF Stand
  <2>3. \A v \in Update : Storing(v)' <=> Storing(v)
    BY <2>1, <1>types DEF Stand, Storing
  <2>4. QED BY <2>1, <2>2, <2>3 DEF ListOK, Bounded, Handling
<1>4. ASSUME NEW u \in Update, Push(u) PROVE ListOK'
  <2>1. \A v \in Update : ~Storing(v)
    BY <1>4 DEF Push, EditTurn, Storing
  <2>2. Len(updates) < Threshold
    BY <2>1 DEF ListOK, Bounded, Handling
  <2>3. Len(updates') = Len(updates) + 1
    BY <1>4, <1>types, Pushed DEF Push
  <2>4. edit'[u] = "length" /\ \A v \in Update \ {u} : ~Storing(v)'
    BY <1>4, <2>1, <1>types DEF Push, Stand, Storing
  <2>5. Len(updates') <= Threshold /\ u \in Handling'
    BY <2>2, <2>3, <2>4, <1>types DEF Handling, Storing
  <2>6. QED BY <2>4, <2>5 DEF ListOK, Bounded, Storing
<1>5. ASSUME NEW u \in Update, Storing(u), Length(u) \/ Range0(u) \/ Exec(u) PROVE ListOK'
  <2>1. \A v \in Update \ {u} : ~Storing(v)
    BY <1>5 DEF Exclusive
  <2>2. \A v \in Update \ {u} : ~Storing(v)'
    BY <1>5, <2>1, <1>types DEF Length, Range0, Exec, Stand, Storing
  <2>3. CASE Length(u)
    <3>1. updates' = updates /\ Len(updates) <= Threshold
      BY <1>5, <2>3 DEF Length, ListOK
    <3>2. CASE Len(updates) >= Threshold
      <4>1. edit'[u] = "range" /\ Len(updates) = Threshold
        BY <2>3, <3>1, <3>2, <1>types DEF Length, Stand
      <4>2. u \in Handling'
        BY <4>1 DEF Handling, Storing
      <4>3. QED BY <2>2, <3>1, <4>1, <4>2 DEF ListOK, Bounded, Storing
    <3>3. CASE ~(Len(updates) >= Threshold)
      <4>1. edit'[u] = "cast" /\ Len(updates) < Threshold
        BY <2>3, <3>3, <1>types DEF Length, Stand
      <4>2. QED BY <2>2, <3>1, <4>1 DEF ListOK, Bounded, Storing
    <3>4. QED BY <3>2, <3>3
  <2>4. CASE Range0(u)
    <3>1. updates' = updates /\ Len(updates) = Threshold
      BY <2>4 DEF Range0, ListOK
    <3>2. edit'[u] = "exec" /\ read'[u] = updates
      BY <2>4, <3>1, <1>types DEF Range0, Stand
    <3>3. u \in Handling'
      BY <3>2 DEF Handling, Storing
    <3>4. QED BY <2>2, <3>1, <3>2, <3>3 DEF ListOK, Bounded, Storing
  <2>5. CASE Exec(u)
    <3>1. read[u] = updates /\ Len(updates) = Threshold
      BY <2>5 DEF Exec, ListOK
    <3>2. Len(updates') = 1 + Threshold - (Threshold \div 2)
      BY <2>5, <3>1, <1>types, CompactedKeeps DEF Exec
    <3>3. Len(updates') < Threshold
      BY <3>2, <1>types
    <3>4. edit'[u] = "cast"
      BY <2>5, <1>types DEF Exec, Stand
    <3>5. QED BY <2>2, <3>3, <3>4 DEF ListOK, Bounded, Storing
  <2>6. QED BY <1>5, <2>3, <2>4, <2>5
<1>6. CASE UNCHANGED vars
  BY <1>6, <1>0 DEF vars
<1>7. \A u \in Update : Length(u) \/ Range0(u) \/ Exec(u) => Storing(u)
  BY DEF Length, Range0, Exec, Storing
<1>8. QED BY <1>1, <1>2, <1>3, <1>4, <1>5, <1>6, <1>7 DEF Next, EditStep
-------------------------------------------------------------------------------
\* What an editor shows, with the state its join has read and not yet sent.
Shows(s) == copy[s] \cup (IF at[s] = "state" THEN got[s] ELSE {})
Seen(s, u) == at[s] \in {"state", "in"} /\ edit[u] = "done" /\ u \in Merged(updates) => u \in Shows(s)

\* A session is in the room before it reads the state, and misses nothing
\* from then on.
CopyOK ==
    /\ \A s \in Session : at[s] \in {"fetch", "state", "in"} => s \in room
    /\ \A s \in Session, u \in Update : Seen(s, u)

\* On either store, as long as no compaction changes what the list adds up to.
LEMMA CopyStep ==
    ASSUME TypeOK, CopyOK, [Next]_vars,
           \A u \in Update : Exec(u) => Merged(updates') = Merged(updates)
    PROVE  CopyOK'
<1>types. /\ DOMAIN at = Session /\ DOMAIN copy = Session /\ DOMAIN got = Session
          /\ DOMAIN edit = Update /\ updates \in List /\ updates' \in List
          /\ \A u \in Update : read[u] \in List
  <2>1. TypeOK'
    BY TypeStep
  <2>2. QED BY <2>1 DEF TypeOK, List
\* A session that goes where nothing is asked of it.
<1>1. ASSUME NEW s \in Session, NEW to, Go(s, to), to \notin {"fetch", "state", "in"},
             UNCHANGED <<edit, got>>,
             \A t \in Session \ {s} : copy'[t] = copy[t] /\ (t \in room => t \in room'),
             \A u \in Update : u \in Merged(updates') => u \in Merged(updates)
      PROVE  CopyOK'
  <2>1. \A t \in Session : at'[t] = IF t = s THEN to ELSE at[t]
    BY <1>1, <1>types DEF Go
  <2>2. \A t \in Session : at'[t] \in {"fetch", "state", "in"} => t \in room'
    BY <1>1, <2>1 DEF CopyOK
  <2>3. ASSUME NEW t \in Session, NEW u \in Update PROVE Seen(t, u)'
    BY <1>1, <2>1 DEF CopyOK, Seen, Shows
  <2>4. QED BY <2>2, <2>3 DEF CopyOK
<1>2. ASSUME NEW s \in Session, JoinAdd(s) PROVE CopyOK'
  <2>1. /\ Go(s, "enter") /\ UNCHANGED <<edit, got, room, updates>>
        /\ \A t \in Session \ {s} : copy'[t] = copy[t]
    BY <1>2, <1>types DEF JoinAdd
  <2>2. QED BY <2>1, <1>1
<1>3. ASSUME NEW s \in Session,
             LeaveRemove(s) \/ LeaveRoom(s) \/ LeaveExists(s) \/ LeaveUsers(s)
             \/ DeleteUsers(s) \/ Quit(s) \/ QuitUnknown(s) \/ QuitRemove(s) \/ QuitUsers(s)
      PROVE  CopyOK'
  <2>1. /\ UNCHANGED <<edit, got, copy, updates>>
        /\ \A t \in Session \ {s} : t \in room => t \in room'
    BY <1>3 DEF LeaveRemove, LeaveRoom, LeaveExists, LeaveUsers, DeleteUsers, Quit, QuitUnknown,
        QuitRemove, QuitUsers
  <2>2. \E to : Go(s, to) /\ to \notin {"fetch", "state", "in"}
    BY <1>3 DEF LeaveRemove, LeaveRoom, LeaveExists, LeaveUsers, DeleteUsers, Quit, QuitUnknown,
        QuitRemove, QuitUsers
  <2>3. QED BY <2>1, <2>2, <1>1
<1>4. ASSUME NEW s \in Session, DeleteUpdates(s) PROVE CopyOK'
  <2>1. /\ UNCHANGED <<edit, got, copy, room>> /\ updates' = <<>>
        /\ \E to : Go(s, to) /\ to \notin {"fetch", "state", "in"}
    BY <1>4 DEF DeleteUpdates
  <2>2. \A u : u \notin Merged(updates')
    <3>1. Len(updates') = 0
      BY <2>1
    <3>2. QED BY <3>1, <1>types, InMerged
  <2>3. QED BY <2>1, <2>2, <1>1
<1>5. ASSUME NEW s \in Session, JoinEnter(s) PROVE CopyOK'
  <2>1. /\ \A t \in Session : at'[t] = IF t = s THEN "fetch" ELSE at[t]
        /\ room' = room \cup {s} /\ UNCHANGED <<updates, copy, got, edit>>
    BY <1>5, <1>types DEF JoinEnter, Go
  <2>2. QED BY <2>1 DEF CopyOK, Seen, Shows
<1>6. ASSUME NEW s \in Session, JoinFetch(s) PROVE CopyOK'
  <2>1. /\ \A t \in Session : at'[t] = IF t = s THEN "state" ELSE at[t]
        /\ \A t \in Session : got'[t] = IF t = s THEN Merged(updates) ELSE got[t]
        /\ at[s] = "fetch" /\ UNCHANGED <<updates, copy, room, edit>>
    BY <1>6, <1>types DEF JoinFetch, Go
  <2>2. QED BY <2>1 DEF CopyOK, Seen, Shows
<1>7. ASSUME NEW s \in Session, JoinState(s) PROVE CopyOK'
  <2>1. /\ \A t \in Session : at'[t] = IF t = s THEN "in" ELSE at[t]
        /\ \A t \in Session : copy'[t] = IF t = s THEN copy[s] \cup got[s] ELSE copy[t]
        /\ \A t \in Session \ {s} : got'[t] = got[t]
        /\ at[s] = "state" /\ UNCHANGED <<updates, room, edit>>
    BY <1>7, <1>types DEF JoinState, Go
  <2>2. QED BY <2>1 DEF CopyOK, Seen, Shows
\* The handler of an update that is not through.
<1>8. ASSUME NEW u \in Update, NEW to, Stand(u, to), to # "done",
             UNCHANGED <<at, room, got>>,
             \A s \in Session : copy[s] \subseteq copy'[s],
             \A v \in Update \ {u} : v \in Merged(updates') => v \in Merged(updates)
      PROVE  CopyOK'
  <2>1. \A v \in Update : edit'[v] = IF v = u THEN to ELSE edit[v]
    BY <1>8, <1>types DEF Stand
  <2>2. QED BY <1>8, <2>1 DEF CopyOK, Seen, Shows
<1>9. ASSUME NEW u \in Update, Edit(u) PROVE CopyOK'
  <2>1. /\ Stand(u, "push") /\ UNCHANGED <<at, room, got, updates>>
        /\ \A s \in Session : copy[s] \subseteq copy'[s]
    BY <1>9, <1>types DEF Edit
  <2>2. QED BY <2>1, <1>8
<1>10. ASSUME NEW u \in Update, Push(u) PROVE CopyOK'
  <2>1. Stand(u, "length") /\ UNCHANGED <<at, room, got, copy>>
    BY <1>10 DEF Push
  <2>2. Merged(updates') = Merged(updates) \cup {u}
    BY <1>10, <1>types, Pushed DEF Push
  <2>3. QED BY <2>1, <2>2, <1>8
<1>11. ASSUME NEW u \in Update, Length(u) \/ Range0(u) PROVE CopyOK'
  <2>1. /\ UNCHANGED <<at, room, got, copy, updates>>
        /\ \E to : Stand(u, to) /\ to # "done"
    BY <1>11 DEF Length, Range0
  <2>2. QED BY <2>1, <1>8
<1>12. ASSUME NEW u \in Update, Exec(u) PROVE CopyOK'
  <2>1. Stand(u, "cast") /\ UNCHANGED <<at, room, got, copy>>
    BY <1>12 DEF Exec
  <2>2. Merged(updates') = Merged(updates)
    BY <1>12
  <2>3. QED BY <2>1, <2>2, <1>8
<1>13. ASSUME NEW u \in Update, Cast(u) PROVE CopyOK'
  <2>1. /\ \A s \in Session : copy'[s] = IF s \in room THEN copy[s] \cup {u} ELSE copy[s]
        /\ \A v \in Update : edit'[v] = IF v = u THEN "done" ELSE edit[v]
        /\ UNCHANGED <<updates, room, at, got>>
    BY <1>13, <1>types DEF Cast, Stand
  <2>2. QED BY ZenonT(60), <2>1 DEF CopyOK, Seen, Shows
<1>14. CASE UNCHANGED vars
  BY <1>14 DEF vars, CopyOK, Seen, Shows
<1>late. ASSUME NEW s \in Session, JoinLate(s) PROVE CopyOK'
  BY <1>late DEF JoinLate, CopyOK, Seen, Shows
<1>15. QED
  BY <1>2, <1>late, <1>3, <1>4, <1>5, <1>6, <1>7, <1>9, <1>10, <1>11, <1>12, <1>13, <1>14
     DEF Next, SessionStep, EditStep
-------------------------------------------------------------------------------
\* The inductive invariant of the store in memory.
MemInv == TypeOK /\ Exclusive /\ UsersOK /\ ListOK /\ CopyOK

LEMMA MemInit == Init => MemInv
<1> SUFFICES ASSUME Init PROVE MemInv
  OBVIOUS
<1>1. TypeOK
  BY TypeInit
<1>2. (\A s \in Session : at[s] = "out") /\ (\A u \in Update : edit[u] = "none")
      /\ Len(updates) = 0 /\ Threshold \in Nat /\ Threshold > 3
  BY ThresholdAssumption DEF Init
<1>3. Exclusive /\ UsersOK /\ ListOK /\ CopyOK
  BY <1>2 DEF Exclusive, InStore, Storing, UsersOK, Clearing, ListOK, Bounded, CopyOK, Seen
<1>4. QED BY <1>1, <1>3 DEF MemInv

\* A compaction in memory writes back what is still the list, squashed.
LEMMA CompactsTheList ==
    ASSUME TypeOK, ListOK, NEW u \in Update, Exec(u)
    PROVE  Merged(updates') = Merged(updates)
<1>1. read[u] = updates /\ updates \in List
  BY DEF Exec, ListOK, TypeOK, List
<1> QED
  BY <1>1, CompactedKeeps DEF Exec

LEMMA MemStep == ~Shared /\ MemInv /\ [Next]_vars => MemInv'
<1> SUFFICES ASSUME ~Shared, MemInv, [Next]_vars PROVE MemInv'
  OBVIOUS
<1>1. TypeOK' /\ Exclusive' /\ UsersOK' /\ ListOK'
  BY TypeStep, ExclusiveStep, UsersStep, ListStep DEF MemInv
<1>2. CopyOK'
  BY CopyStep, CompactsTheList DEF MemInv
<1> QED
  BY <1>1, <1>2 DEF MemInv

\* In memory the invariant holds of every reachable state.
THEOREM Inductive == ~Shared => (Spec => []MemInv)
<1> SUFFICES ASSUME ~Shared PROVE Spec => []MemInv
  OBVIOUS
<1>1. MemInv /\ [Next]_vars => MemInv'
  BY MemStep
<1>2. QED BY MemInit, <1>1, PTL DEF Spec

\* In memory an editor in the document shows every stored update whose
\* handler is through, whatever joins, leaves and compactions came between.
THEOREM NothingIsMissed == ~Shared => (Spec => []NothingMissed)
<1> SUFFICES ASSUME ~Shared PROVE Spec => []NothingMissed
  OBVIOUS
<1>1. MemInv => NothingMissed
  BY DEF MemInv, CopyOK, Seen, Shows, NothingMissed
<1>2. QED BY Inductive, <1>1, PTL

\* In memory compaction keeps the list below the threshold.
THEOREM StaysBounded == ~Shared => (Spec => []Bounded)
<1> SUFFICES ASSUME ~Shared PROVE Spec => []Bounded
  OBVIOUS
<1>1. MemInv => Bounded
  BY DEF MemInv, ListOK
<1>2. QED BY Inductive, <1>1, PTL

\* In memory the comment of the compaction ("squash oldest half into one
\* snapshot") is right: nothing stored is lost when the list is replaced.
THEOREM CompactionLosesNothing == ~Shared => (Spec => CompactionKeeps)
<1> SUFFICES ASSUME ~Shared PROVE Spec => CompactionKeeps
  OBVIOUS
<1> DEFINE Kept ==
      \A u \in Update : edit[u] = "exec" /\ edit'[u] = "cast"
          => Merged(updates) \subseteq Merged(updates')
<1>1. MemInv /\ [Next]_vars => [Kept]_vars
  <2> SUFFICES ASSUME MemInv, [Next]_vars, NEW u \in Update,
                      edit[u] = "exec", edit'[u] = "cast"
               PROVE  Merged(updates) \subseteq Merged(updates')
    OBVIOUS
  <2>1. ASSUME NEW s \in Session, SessionStep(s) PROVE FALSE
    BY <2>1 DEF SessionStep, JoinAdd, JoinLate, JoinEnter, JoinFetch, JoinState, LeaveRemove,
        LeaveRoom, LeaveExists, LeaveUsers, DeleteUpdates, DeleteUsers, Quit, QuitUnknown,
        QuitRemove, QuitUsers
  <2>2. ASSUME NEW v \in Update, EditStep(v) PROVE Exec(u)
    <3>1. \E to : Stand(v, to)
      BY <2>2 DEF EditStep, Edit, Push, Length, Range0, Exec, Cast
    <3>2. v = u
      BY <3>1 DEF Stand, MemInv, TypeOK
    <3> QED BY <2>2, <3>2 DEF EditStep, Edit, Push, Length, Range0, Cast
  <2>3. Exec(u)
    BY <2>1, <2>2 DEF Next, vars
  <2> QED BY <2>3, CompactsTheList DEF MemInv
<1> QED
  BY Inductive, <1>1, PTL DEF Spec, CompactionKeeps

\* In memory the log of the handlers ("as no users are left") is right:
\* a document is cleared only while no session is in it.
THEOREM ClearsUnused == ~Shared => (Spec => ClearedUnused)
<1> SUFFICES ASSUME ~Shared PROVE Spec => ClearedUnused
  OBVIOUS
<1> DEFINE Empty ==
      \A s \in Session : at[s] \in {"delUpdates", "quitUpdates"} /\ at'[s] # at[s]
          => users = {}
<1>1. MemInv => [Empty]_vars
  BY DEF MemInv, UsersOK, Clearing
<1> QED
  BY Inductive, <1>1, PTL DEF Spec, ClearedUnused
-------------------------------------------------------------------------------
\* On either store, while there are fewer updates than the threshold.  Each
\* update is pushed once, so none of them starts a compaction.
Stored == {u \in Update : edit[u] \notin {"none", "push"}}
FewInv ==
    /\ TypeOK /\ CopyOK
    /\ Len(updates) <= Cardinality(Stored)
    /\ \A u \in Update : edit[u] \notin {"range", "exec"}

LEMMA FewStep ==
    ASSUME IsFiniteSet(Update), Cardinality(Update) < Threshold, FewInv, [Next]_vars
    PROVE  FewInv'
<1>types. /\ updates \in List /\ Len(updates) \in Nat /\ DOMAIN edit = Update
          /\ Threshold \in Nat /\ Cardinality(Update) \in Nat
  BY ThresholdAssumption, FS_CardinalityType DEF FewInv, TypeOK, List
<1>1. TypeOK' /\ CopyOK'
  BY TypeStep, CopyStep DEF FewInv, Exec
<1>2. /\ IsFiniteSet(Stored) /\ Cardinality(Stored) \in Nat
      /\ Cardinality(Stored) <= Cardinality(Update)
  BY FS_Subset, FS_CardinalityType DEF Stored
<1>3. ASSUME edit' = edit, Len(updates') <= Len(updates), Len(updates') \in Nat
      PROVE  FewInv'
  BY <1>1, <1>2, <1>3, <1>types DEF FewInv, Stored
<1>4. ASSUME NEW s \in Session, SessionStep(s) PROVE FewInv'
  <2>1. edit' = edit /\ (updates' = updates \/ updates' = <<>>)
    BY <1>4 DEF SessionStep, JoinAdd, JoinLate, JoinEnter, JoinFetch, JoinState, LeaveRemove,
        LeaveRoom, LeaveExists, LeaveUsers, DeleteUpdates, DeleteUsers, Quit, QuitUnknown,
        QuitRemove, QuitUsers
  <2>2. Len(updates') <= Len(updates) /\ Len(updates') \in Nat
    BY <2>1, <1>types
  <2> QED BY <1>3, <2>1, <2>2
<1>5. ASSUME NEW u \in Update, Push(u) PROVE FewInv'
  <2>1. u \notin Stored /\ Stored' = Stored \cup {u}
    BY <1>5, <1>types DEF Push, Stand, Stored
  <2>2. Cardinality(Stored') = Cardinality(Stored) + 1
    BY <1>2, <2>1, FS_AddElement
  <2>3. Len(updates') = Len(updates) + 1
    BY <1>5, <1>types, Pushed DEF Push
  <2>4. \A v \in Update : edit'[v] = IF v = u THEN "length" ELSE edit[v]
    BY <1>5, <1>types DEF Push, Stand
  <2>5. Len(updates') <= Cardinality(Stored')
    BY <1>2, <1>types, <2>2, <2>3 DEF FewInv
  <2> QED BY <1>1, <2>4, <2>5 DEF FewInv
<1>6. ASSUME NEW u \in Update, NEW to \in {"push", "cast", "done"}, Stand(u, to),
             updates' = updates, edit[u] \in {"none", "push"} <=> to = "push"
      PROVE  FewInv'
  <2>1. \A v \in Update : edit'[v] = IF v = u THEN to ELSE edit[v]
    BY <1>6, <1>types DEF Stand
  <2>2. Stored' = Stored
    BY <1>6, <2>1 DEF Stored
  <2> QED BY <1>1, <1>6, <2>1, <2>2 DEF FewInv
<1>7. ASSUME NEW u \in Update, Edit(u) \/ Length(u) \/ Cast(u) PROVE FewInv'
  <2>1. updates' = updates
    BY <1>7 DEF Edit, Length, Cast
  <2>2. CASE Length(u)
    <3>1. Len(updates) < Threshold
      BY <1>2, <1>types DEF FewInv
    <3>2. Stand(u, "cast") /\ edit[u] = "length"
      BY <2>2, <3>1, <1>types DEF Length
    <3> QED BY <1>6, <2>1, <3>2
  <2>3. CASE Edit(u) \/ Cast(u)
    BY <1>6, <2>1, <2>3 DEF Edit, Cast
  <2> QED BY <1>7, <2>2, <2>3
<1>8. \A u \in Update : ~Range0(u) /\ ~Exec(u)
  BY DEF FewInv, Range0, Exec
<1>9. CASE UNCHANGED vars
  BY <1>3, <1>9, <1>types DEF vars
<1> QED
  BY <1>4, <1>5, <1>7, <1>8, <1>9 DEF Next, EditStep

\* With Redis too nothing is missed until a compaction: with fewer updates
\* than COMPACTION_THRESHOLD, no order of the commands of joins, leaves,
\* disconnects and updates on any instances makes an editor miss one.  It is
\* the compaction that puts back a list that has been cleared meanwhile.
THEOREM NothingMissedBelowThreshold ==
    IsFiniteSet(Update) /\ Cardinality(Update) < Threshold => (Spec => []NothingMissed)
<1> SUFFICES ASSUME IsFiniteSet(Update), Cardinality(Update) < Threshold
             PROVE  Spec => []NothingMissed
  OBVIOUS
<1>1. Init => FewInv
  <2> SUFFICES ASSUME Init PROVE FewInv
    OBVIOUS
  <2>1. (\A s \in Session : at[s] = "out") /\ (\A u \in Update : edit[u] = "none")
        /\ Len(updates) = 0
    BY DEF Init
  <2>2. IsFiniteSet(Stored) /\ Cardinality(Stored) \in Nat
    BY FS_Subset, FS_CardinalityType DEF Stored
  <2>3. CopyOK
    BY <2>1 DEF CopyOK, Seen
  <2> QED BY TypeInit, <2>1, <2>2, <2>3 DEF FewInv
<1>2. FewInv /\ [Next]_vars => FewInv'
  BY FewStep
<1>3. FewInv => NothingMissed
  BY DEF FewInv, CopyOK, Seen, Shows, NothingMissed
<1> QED
  BY <1>1, <1>2, <1>3, PTL DEF Spec
-------------------------------------------------------------------------------
Promised == <<users, Merged(updates)>>

LEMMA StepPromised == ~Shared /\ MemInv /\ [Next]_vars => [Document!Next]_Promised
<1> SUFFICES ASSUME ~Shared, MemInv, [Next]_vars PROVE [Document!Next]_Promised
  OBVIOUS
<1> USE DEF Document!Next, Promised
<1>types. updates \in List /\ \A u \in Update : read[u] \in List
  BY DEF MemInv, TypeOK, List
<1>1. ASSUME NEW s \in Session, JoinAdd(s) \/ JoinLate(s) PROVE Document!Enter
  BY <1>1 DEF JoinAdd, JoinLate, Document!Enter
<1>2. ASSUME NEW s \in Session, LeaveRemove(s) \/ QuitRemove(s) PROVE Document!Leave
  BY <1>2 DEF LeaveRemove, QuitRemove, Document!Leave
<1>3. ASSUME NEW s \in Session, DeleteUpdates(s) PROVE Document!Clear
  <2>1. users = {} /\ users' = users
    BY <1>3 DEF DeleteUpdates, MemInv, UsersOK, Clearing
  <2>2. updates' = <<>>
    BY <1>3 DEF DeleteUpdates
  <2>3. Merged(updates') = {}
    <3>1. updates' \in List /\ Len(updates') = 0
      BY <2>2 DEF List
    <3>2. QED BY <3>1, InMerged
  <2>4. QED BY <2>1, <2>3 DEF Document!Clear
<1>4. ASSUME NEW s \in Session, DeleteUsers(s) PROVE UNCHANGED Promised
  <2>1. users = {}
    BY <1>4 DEF DeleteUsers, MemInv, UsersOK, Clearing
  <2>2. QED BY <1>4, <2>1 DEF DeleteUsers
<1>5. ASSUME NEW s \in Session,
             JoinEnter(s) \/ JoinFetch(s) \/ JoinState(s) \/ LeaveRoom(s) \/ LeaveExists(s)
             \/ LeaveUsers(s) \/ Quit(s) \/ QuitUnknown(s) \/ QuitUsers(s)
      PROVE  UNCHANGED Promised
  BY <1>5 DEF JoinEnter, JoinFetch, JoinState, LeaveRoom, LeaveExists, LeaveUsers, Quit,
     QuitUnknown, QuitUsers
<1>6. ASSUME NEW u \in Update, Push(u) PROVE Document!Append
  <2>1. Merged(updates') = Merged(updates) \cup {u} /\ users' = users
    BY <1>6, <1>types, Pushed DEF Push
  <2>2. QED BY <2>1 DEF Document!Append
<1>7. ASSUME NEW u \in Update, Exec(u) PROVE UNCHANGED Promised
  <2>1. Merged(updates') = Merged(updates) /\ users' = users
    BY <1>7, <1>types, CompactedKeeps DEF Exec, MemInv, ListOK
  <2>2. QED BY <2>1
<1>8. ASSUME NEW u \in Update, Edit(u) \/ Length(u) \/ Range0(u) \/ Cast(u)
      PROVE  UNCHANGED Promised
  BY <1>8 DEF Edit, Length, Range0, Cast
<1>9. CASE UNCHANGED vars
  BY <1>9 DEF vars
<1>10. QED
  BY <1>1, <1>2, <1>3, <1>4, <1>5, <1>6, <1>7, <1>8, <1>9 DEF Next, SessionStep, EditStep

\* In memory the store implements the abstract document: its contents only
\* grow while a session is left, compaction included, and are dropped only
\* when none is.
THEOREM Implements == ~Shared => (Spec => KeepsItsPromise)
<1> SUFFICES ASSUME ~Shared PROVE Spec => Document!Spec
  BY DEF KeepsItsPromise
<1>1. Init => Document!Init
  <2> SUFFICES ASSUME Init PROVE Document!Init
    OBVIOUS
  <2>1. updates \in List /\ Len(updates) = 0 /\ users = {}
    BY DEF Init, List
  <2>2. QED BY <2>1, InMerged DEF Document!Init
<1>2. MemInv /\ [Next]_vars => [Document!Next]_<<users, Merged(updates)>>
  BY StepPromised DEF Promised
<1>3. QED BY Inductive, <1>1, <1>2, PTL DEF Spec, Document!Spec
===============================================================================
