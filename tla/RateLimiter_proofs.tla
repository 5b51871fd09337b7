--------------------------- MODULE RateLimiter_proofs ---------------------------
(***************************************************************************)
(* For any number of instances, any limit and any window: a store refuses   *)
(* only what exceeds the limit, and if no check lasts into the next bucket, *)
(* it allows no more than the limit in any window; all stores together do   *)
(* not either, while there is only one that answers.                        *)
(***************************************************************************)
EXTENDS RateLimiter, FiniteSetTheorems, TLAPS

USE ConstantsAssumption DEF Store

\* Every set of increments made so far is finite.
LEMMA CountsFinite == ASSUME n \in Nat, NEW C, C \subseteq 1..n PROVE IsFiniteSet(C)
  <1>1. 1 \in Int /\ n \in Int
    OBVIOUS
  <1>2. IsFiniteSet(1..n)
    BY <1>1, FS_Interval
  <1> QED BY <1>2, FS_Subset

\* A part of a finite set of increments is not larger.
LEMMA PartSmaller ==
  ASSUME NEW S, NEW T, IsFiniteSet(T), S \subseteq T
  PROVE  Cardinality(S) \in Nat /\ Cardinality(T) \in Nat /\ Cardinality(S) <= Cardinality(T)
  <1>1. IsFiniteSet(S) /\ Cardinality(S) <= Cardinality(T)
    BY FS_Subset
  <1> QED BY <1>1, FS_CardinalityType

LEMMA InitInv == Init => Inv /\ WindowLimit /\ RefusedOverLimit
  <1> SUFFICES ASSUME Init PROVE Inv /\ WindowLimit /\ RefusedOverLimit
    OBVIOUS
  <1> USE DEF Init
  <1>1. TypeOK
    BY DEF TypeOK, CheckOK, Idle, Count
  <1>2. Base
    BY <1>1 DEF Base, Idle
  <1>3. Present
    BY DEF Present, Idle, InWindow
  <1>4. WindowLimit
    <2> SUFFICES ASSUME NEW s \in Store, NEW b \in 0..Horizon
                 PROVE  Cardinality(InWindow(allowed[s], b)) <= Limit
      BY DEF WindowLimit
    <2>1. InWindow(allowed[s], b) = {}
      BY DEF InWindow
    <2> QED BY <2>1, FS_EmptySet
  <1>5. RefusedOverLimit
    BY DEF RefusedOverLimit
  <1> QED BY <1>2, <1>3, <1>4, <1>5 DEF Inv

\* What an answer changes: one store's allowed or refused set gains one member.
Answered(s, c, total) ==
    /\ DOMAIN allowed' = Store /\ DOMAIN refused' = Store
    /\ \A t \in Store : t # s => allowed'[t] = allowed[t] /\ refused'[t] = refused[t]
    /\ allowed'[s] \subseteq allowed[s] \cup {c}
    /\ refused'[s] \subseteq refused[s] \cup {c}
    /\ total > Limit => allowed'[s] = allowed[s]
    /\ ~(total > Limit) => refused'[s] = refused[s]

LEMMA AnswerChanges ==
  ASSUME TypeOK, NEW s \in Store, NEW c, NEW total, Answer(s, c, total)
  PROVE  Answered(s, c, total)
  <1>1. CASE total > Limit
    BY <1>1 DEF Answer, TypeOK, Answered
  <1>2. CASE ~(total > Limit)
    BY <1>2 DEF Answer, TypeOK, Answered
  <1> QED BY <1>1, <1>2
-------------------------------------------------------------------------------
\* One step per action: types, and no check ahead of the clock.
LEMMA BaseStep == Base /\ [Next]_vars => Base'
  <1> SUFFICES ASSUME Base, [Next]_vars PROVE Base'
    OBVIOUS
  <1> USE DEF Base, TypeOK, CheckOK, Count, Idle, FallBack
  <1>1. ASSUME NEW i \in Instance, Begin(i) PROVE Base'
    BY <1>1 DEF Begin
  <1>2. ASSUME NEW i \in Instance, Incr(i) PROVE Base'
    <2>1. n' = n + 1 /\ n + 1 \in 1..MaxCounts /\ check[i].bucket \in Nat /\ check[i].bucket <= now
      BY <1>2 DEF Incr
    <2>2. at' \in [1..MaxCounts -> Nat] /\ at'[n + 1] = check[i].bucket
      BY <1>2, <2>1 DEF Incr
    <2>3. \A c \in 1..n : at'[c] = at[c]
      BY <1>2, <2>1 DEF Incr
    <2>4. check'[i] = [pc |-> "read", bucket |-> check[i].bucket, id |-> n + 1]
      BY <1>2 DEF Incr
    <2>5. \A j \in Instance : j # i => check'[j] = check[j]
      BY <1>2 DEF Incr
    <2>6. /\ \A s \in Store : stored'[s] \subseteq made'[s] /\ made'[s] \subseteq 1..n'
          /\ \A s \in Store : made[s] \subseteq made'[s]
          /\ n + 1 \in made'[Redis]
      BY <1>2, <2>1 DEF Incr
    <2>7. TypeOK'
      BY <1>2, <2>1, <2>2, <2>4, <2>5, <2>6 DEF Incr
    <2>8. \A c \in 1..n' : at'[c] <= now'
      BY <1>2, <2>1, <2>2, <2>3 DEF Incr
    <2>9. ASSUME NEW j \in Instance, check'[j].pc \in {"incr", "read"}
          PROVE  check'[j].bucket <= now'
      BY <1>2, <2>1, <2>4, <2>5, <2>9 DEF Incr
    <2>10. ASSUME NEW j \in Instance, check'[j].pc = "read"
           PROVE  check'[j].id \in made'[Redis] /\ at'[check'[j].id] = check'[j].bucket
      <3>1. CASE j = i
        BY <3>1, <2>2, <2>4, <2>6
      <3>2. CASE j # i
        BY <3>2, <2>3, <2>5, <2>6, <2>10
      <3> QED BY <3>1, <3>2
    <2> QED BY <2>7, <2>8, <2>9, <2>10
  <1>3. ASSUME NEW i \in Instance, Read(i) PROVE Base'
    <2> DEFINE id == check[i].id  total == Cardinality(Collected(check[i].bucket))
    <2>1. Answer(Redis, id, total) /\ id \in made[Redis]
      BY <1>3 DEF Read
    <2>2. TypeOK
      OBVIOUS
    <2>3. Answered(Redis, id, total)
      BY <2>1, <2>2, AnswerChanges
    <2>4. /\ DOMAIN allowed' = Store /\ DOMAIN refused' = Store
          /\ \A s \in Store : allowed'[s] \subseteq made[s] /\ refused'[s] \subseteq made[s]
      BY <2>1, <2>3 DEF Answered
    <2> QED BY <1>3, <2>4 DEF Read
  <1>4. ASSUME NEW i \in Instance, Fail(i) PROVE Base'
    BY <1>4 DEF Fail
  <1>5. ASSUME NEW i \in Instance, Memory(i) PROVE Base'
    <2> DEFINE total == Cardinality(Kept(stored[i] \cup {n + 1}))
    <2>1. n' = n + 1 /\ n + 1 \in 1..MaxCounts
      BY <1>5 DEF Memory
    <2>2. /\ at' \in [1..MaxCounts -> Nat] /\ at'[n + 1] = now
          /\ \A c \in 1..n : at'[c] = at[c]
      BY <1>5, <2>1 DEF Memory
    <2>3. /\ check'[i] = Idle
          /\ \A j \in Instance : j # i => check'[j] = check[j]
      BY <1>5 DEF Memory
    <2>4. /\ DOMAIN stored' = Store /\ DOMAIN made' = Store /\ DOMAIN check' = Instance
          /\ \A s \in Store : stored'[s] \subseteq made'[s] /\ made'[s] \subseteq 1..n'
          /\ \A s \in Store : made[s] \subseteq made'[s]
          /\ n + 1 \in made'[i]
      BY <1>5, <2>1 DEF Memory, Kept
    <2>5. Answer(i, n + 1, total) /\ now' = now
      BY <1>5 DEF Memory
    <2>10. TypeOK
      OBVIOUS
    <2>11. Answered(i, n + 1, total)
      BY <2>5, <2>10, AnswerChanges
    <2>6. /\ DOMAIN allowed' = Store /\ DOMAIN refused' = Store
          /\ \A s \in Store : allowed'[s] \subseteq made'[s] /\ refused'[s] \subseteq made'[s]
      BY ZenonT(60), <2>4, <2>11 DEF Answered
    <2>12. \A j \in Instance : CheckOK(check[j])'
      <3> SUFFICES ASSUME NEW j \in Instance PROVE CheckOK(check[j])'
        OBVIOUS
      <3>1. CheckOK(check[j]) /\ 1..n \subseteq 1..n'
        BY <2>1
      <3> QED BY SMTT(30), <2>3, <3>1
    <2>7. TypeOK'
      BY <2>1, <2>2, <2>4, <2>5, <2>6, <2>12
    <2>8. \A c \in 1..n' : at'[c] <= now'
      BY <2>1, <2>2, <2>5
    <2>9. ASSUME NEW j \in Instance, check'[j].pc \in {"incr", "read"}
          PROVE  /\ check'[j].bucket <= now'
                 /\ check'[j].pc = "read" => /\ check'[j].id \in made'[Redis]
                                             /\ at'[check'[j].id] = check'[j].bucket
      <3>1. check'[j] = check[j]
        BY <2>3, <2>9
      <3> QED BY <3>1, <2>2, <2>4, <2>5, <2>9
    <2> QED BY <2>7, <2>8, <2>9
  <1>6. ASSUME NEW i \in Instance, GetCount(i) PROVE Base'
    BY <1>6 DEF GetCount, Kept
  <1>7. ASSUME NEW b \in 0..Horizon, Expire(b) PROVE Base'
    BY <1>7 DEF Expire
  <1>8. CASE Tick
    BY <1>8 DEF Tick
  <1>9. CASE UNCHANGED vars
    BY <1>9 DEF vars
  <1> QED BY <1>1, <1>2, <1>3, <1>4, <1>5, <1>6, <1>7, <1>8, <1>9 DEF Next
-------------------------------------------------------------------------------
\* What a step leaves of the past: increments keep their bucket and their store.
LEMMA PastKept ==
  ASSUME Base, [Next]_vars
  PROVE  /\ \A c \in 1..n : at'[c] = at[c]
         /\ \A s \in Store : made[s] \subseteq made'[s]
  <1> USE DEF Base, TypeOK, Count
  <1>1. ASSUME NEW i \in Instance, Incr(i) PROVE /\ \A c \in 1..n : at'[c] = at[c]
                                                 /\ \A s \in Store : made[s] \subseteq made'[s]
    BY <1>1 DEF Incr
  <1>2. ASSUME NEW i \in Instance, Memory(i) PROVE /\ \A c \in 1..n : at'[c] = at[c]
                                                   /\ \A s \in Store : made[s] \subseteq made'[s]
    BY <1>2 DEF Memory
  <1> QED BY <1>1, <1>2 DEF Next, vars, Begin, Read, Fail, GetCount, Expire, Tick

\* The windows of sets that did not change did not change either.
LEMMA SameWindow ==
  ASSUME Base, [Next]_vars, NEW s \in Store, NEW b, allowed'[s] = allowed[s]
  PROVE  InWindow(allowed[s], b)' = InWindow(allowed[s], b)
  <1>1. \A c \in allowed[s] : at'[c] = at[c]
    BY PastKept DEF Base, TypeOK
  <1> QED BY <1>1 DEF InWindow

\* The step that answers: the limit holds if the answer was found by counting a
\* set Held with all that is now allowed in the present window.
LEMMA LimitStep ==
  ASSUME Base, Base', [Next]_vars, WindowLimit, now' = now,
         NEW s0 \in Store, NEW c0, NEW Held,
         \A s \in Store : s # s0 => allowed'[s] = allowed[s],
         allowed'[s0] \subseteq allowed[s0] \cup {c0}, at'[c0] = now,
         IsFiniteSet(Held), Cardinality(Held) <= Limit,
         {c \in allowed'[s0] : now - NumBuckets <= at'[c]} \subseteq Held
  PROVE  WindowLimit'
  <1> SUFFICES ASSUME NEW s \in Store, NEW b \in 0..Horizon
               PROVE  Cardinality(InWindow(allowed[s], b)') <= Limit
    BY DEF WindowLimit
  <1>1. Cardinality(InWindow(allowed[s], b)) <= Limit
    BY DEF WindowLimit
  <1>2. /\ n \in Nat /\ now \in Nat /\ allowed[s] \subseteq 1..n
        /\ \A c \in allowed[s] : at'[c] = at[c]
    BY PastKept DEF Base, TypeOK
  <1>3. n' \in Nat /\ allowed'[s] \subseteq 1..n' /\ \A c \in allowed'[s] : at'[c] \in Nat
    BY DEF Base, TypeOK, Count
  <1>4. CASE s # s0
    BY <1>1, <1>4, SameWindow
  <1>5. CASE s = s0 /\ b - NumBuckets <= now /\ now <= b
    <2>1. InWindow(allowed[s], b)' \subseteq Held
      <3> SUFFICES ASSUME NEW c \in InWindow(allowed[s], b)' PROVE c \in Held
        OBVIOUS
      <3>1. c \in allowed'[s] /\ b - NumBuckets <= at'[c]
        BY DEF InWindow
      <3>2. now - NumBuckets <= at'[c]
        BY <1>2, <1>3, <1>5, <3>1
      <3> QED BY <1>5, <3>1, <3>2
    <2>2. Cardinality(InWindow(allowed[s], b)') \in Nat
          /\ Cardinality(Held) \in Nat
          /\ Cardinality(InWindow(allowed[s], b)') <= Cardinality(Held)
      BY <2>1, PartSmaller
    <2> QED BY <2>2
  <1>6. CASE s = s0 /\ ~(b - NumBuckets <= now /\ now <= b)
    <2>1. InWindow(allowed[s], b)' \subseteq InWindow(allowed[s], b)
      <3> SUFFICES ASSUME NEW c \in InWindow(allowed[s], b)' PROVE c \in InWindow(allowed[s], b)
        OBVIOUS
      <3>1. c \in allowed'[s] /\ b - NumBuckets <= at'[c] /\ at'[c] <= b
        BY DEF InWindow
      <3>2. c # c0
        BY <1>6, <3>1
      <3>3. c \in allowed[s]
        BY <1>6, <3>1, <3>2
      <3> QED BY <1>2, <3>1, <3>3 DEF InWindow
    <2>2. IsFiniteSet(InWindow(allowed[s], b))
      <3>1. InWindow(allowed[s], b) \subseteq 1..n
        BY <1>2 DEF InWindow
      <3> QED BY <1>2, <3>1, CountsFinite
    <2>3. /\ Cardinality(InWindow(allowed[s], b)') \in Nat
          /\ Cardinality(InWindow(allowed[s], b)) \in Nat
          /\ Cardinality(InWindow(allowed[s], b)') <= Cardinality(InWindow(allowed[s], b))
      BY <2>1, <2>2, PartSmaller
    <2> QED BY <1>1, <2>3
  <1> QED BY <1>4, <1>5, <1>6

\* The step that answers: a refusal is right if it was found by counting a part
\* of what the store has made in the window.
LEMMA RefusalStep ==
  ASSUME Base, Base', [Next]_vars, RefusedOverLimit,
         NEW s0 \in Store, NEW c0, NEW Held,
         \A s \in Store : s # s0 => refused'[s] = refused[s],
         refused'[s0] \subseteq refused[s0] \cup {c0},
         refused'[s0] # refused[s0] => Cardinality(Held) > Limit,
         Held \subseteq {c \in made'[s0] : at'[c0] - NumBuckets <= at'[c] /\ at'[c] <= at'[c0]}
  PROVE  RefusedOverLimit'
  <1> SUFFICES ASSUME NEW s \in Store, NEW c \in refused'[s]
               PROVE  Cardinality(InWindow(made[s], at[c])') > Limit
    BY DEF RefusedOverLimit
  <1>1. IsFiniteSet(InWindow(made[s], at[c])')
    <2>1. n' \in Nat /\ InWindow(made[s], at[c])' \subseteq 1..n'
      BY DEF Base, TypeOK, InWindow
    <2>2. IsFiniteSet(1..n')
      <3>1. 1 \in Int /\ n' \in Int
        BY <2>1
      <3> QED BY <3>1, FS_Interval
    <2> QED BY <2>1, <2>2, FS_Subset
  <1>2. CASE c \in refused[s]
    <2>1. Cardinality(InWindow(made[s], at[c])) > Limit
      BY <1>2 DEF RefusedOverLimit
    <2>2. InWindow(made[s], at[c]) \subseteq InWindow(made[s], at[c])'
      <3>1. /\ c \in 1..n /\ made[s] \subseteq 1..n /\ made[s] \subseteq made'[s]
            /\ \A d \in 1..n : at'[d] = at[d]
        BY <1>2, PastKept DEF Base, TypeOK
      <3> QED BY <3>1 DEF InWindow
    <2>3. /\ Cardinality(InWindow(made[s], at[c])) \in Nat
          /\ Cardinality(InWindow(made[s], at[c])') \in Nat
          /\ Cardinality(InWindow(made[s], at[c])) <= Cardinality(InWindow(made[s], at[c])')
      BY <1>1, <2>2, PartSmaller
    <2> QED BY <2>1, <2>3
  <1>3. CASE c \notin refused[s]
    <2>1. s = s0 /\ c = c0
      BY <1>3
    <2>2. Cardinality(Held) > Limit /\ Held \subseteq InWindow(made[s], at[c])'
      BY <1>3, <2>1 DEF InWindow
    <2>3. /\ Cardinality(Held) \in Nat /\ Cardinality(InWindow(made[s], at[c])') \in Nat
          /\ Cardinality(Held) <= Cardinality(InWindow(made[s], at[c])')
      BY <1>1, <2>2, PartSmaller
    <2> QED BY <2>2, <2>3
  <1> QED BY <1>2, <1>3

\* A step that allows nothing keeps the limit.
LEMMA LimitSame ==
  ASSUME Base, [Next]_vars, WindowLimit, \A s \in Store : allowed'[s] = allowed[s]
  PROVE  WindowLimit'
  <1> SUFFICES ASSUME NEW s \in Store, NEW b \in 0..Horizon
               PROVE  Cardinality(InWindow(allowed[s], b)') <= Limit
    BY DEF WindowLimit
  <1>1. Cardinality(InWindow(allowed[s], b)) <= Limit
    BY DEF WindowLimit
  <1> QED BY <1>1, SameWindow

\* A step that answers nothing disturbs neither property.
LEMMA NoAnswer ==
  ASSUME Base, Base', [Next]_vars, UNCHANGED <<allowed, refused>>
  PROVE  /\ WindowLimit => WindowLimit'
         /\ RefusedOverLimit => RefusedOverLimit'
  <1>1. ASSUME WindowLimit PROVE WindowLimit'
    BY <1>1, LimitSame
  <1>2. ASSUME RefusedOverLimit PROVE RefusedOverLimit'
    <2> SUFFICES ASSUME NEW s0 \in Store, NEW c0 \in refused'[s0] PROVE RefusedOverLimit'
      BY DEF RefusedOverLimit
    <2>1. \A s \in Store : refused'[s] = refused[s]
      OBVIOUS
    <2> QED BY <1>2, <2>1, RefusalStep
  <1> QED BY <1>1, <1>2
-------------------------------------------------------------------------------
\* The increments a Redis check counts are made in its window.
LEMMA CollectedInWindow ==
  ASSUME Base, NEW b \in Nat
  PROVE  Collected(b) = InWindow(stored[Redis], b) /\ Collected(b) \subseteq InWindow(made[Redis], b)
  <1>1. \A c \in stored[Redis] : at[c] \in Nat /\ c \in made[Redis]
    BY DEF Base, TypeOK, Count
  <1>2. ASSUME NEW c \in stored[Redis], b - NumBuckets <= at[c], at[c] <= b
        PROVE  \E k \in 0..NumBuckets : at[c] = b - k
    <2>1. b - at[c] \in 0..NumBuckets /\ at[c] = b - (b - at[c])
      BY <1>1, <1>2
    <2> QED BY <2>1
  <1> QED BY <1>1, <1>2 DEF Collected, InWindow

LEMMA RefusedStep == Base /\ RefusedOverLimit /\ [Next]_vars => RefusedOverLimit'
  <1> SUFFICES ASSUME Base, RefusedOverLimit, [Next]_vars PROVE RefusedOverLimit'
    OBVIOUS
  <1>0. Base'
    BY BaseStep
  <1>1. ASSUME NEW i \in Instance, Read(i) PROVE RefusedOverLimit'
    <2>1. PICK id, b, Held : id = check[i].id /\ b = check[i].bucket /\ Held = Collected(b)
      OBVIOUS
    <2>2. /\ Answer(Redis, id, Cardinality(Held)) /\ UNCHANGED <<made, at>>
          /\ b \in Nat /\ at[id] = b /\ TypeOK
      BY <1>1, <2>1 DEF Read, Base, TypeOK, CheckOK
    <2>3. Answered(Redis, id, Cardinality(Held))
      BY <2>2, AnswerChanges
    <2>4. Held \subseteq {c \in made'[Redis] : at'[id] - NumBuckets <= at'[c] /\ at'[c] <= at'[id]}
      <3>1. Held \subseteq InWindow(made[Redis], b)
        BY <2>1, <2>2, CollectedInWindow
      <3> QED BY <2>2, <3>1 DEF InWindow
    <2>5. /\ \A s \in Store : s # Redis => refused'[s] = refused[s]
          /\ refused'[Redis] \subseteq refused[Redis] \cup {id}
          /\ refused'[Redis] # refused[Redis] => Cardinality(Held) > Limit
      BY <2>3 DEF Answered
    <2> QED BY <1>0, <2>4, <2>5, RefusalStep
  <1>2. ASSUME NEW i \in Instance, Memory(i) PROVE RefusedOverLimit'
    <2>1. PICK id, Held : id = n + 1 /\ Held = Kept(stored[i] \cup {n + 1})
      OBVIOUS
    <2>2. /\ Answer(i, id, Cardinality(Held)) /\ TypeOK /\ id \in 1..MaxCounts /\ now \in Nat
          /\ made'[i] = made[i] \cup {id} /\ at'[id] = now /\ stored[i] \subseteq made[i]
      BY <1>2, <2>1 DEF Memory, Base, TypeOK, Count
    <2>3. Answered(i, id, Cardinality(Held))
      BY <2>2, AnswerChanges
    <2>4. \A c \in made'[i] : at'[c] <= now /\ at'[c] \in Nat
      <3>1. now' = now /\ made'[i] \subseteq 1..n' /\ n' <= MaxCounts /\ n' \in Nat
        BY <1>0, <1>2 DEF Base, TypeOK, Memory
      <3> QED BY <1>0, <3>1 DEF Base, TypeOK, Count
    <2>5. Held \subseteq {c \in made'[i] : at'[id] - NumBuckets <= at'[c] /\ at'[c] <= at'[id]}
      BY <2>1, <2>2, <2>4 DEF Kept
    <2>6. /\ \A s \in Store : s # i => refused'[s] = refused[s]
          /\ refused'[i] \subseteq refused[i] \cup {id}
          /\ refused'[i] # refused[i] => Cardinality(Held) > Limit
      BY <2>3 DEF Answered
    <2> QED BY <1>0, <2>5, <2>6, RefusalStep
  <1>3. CASE UNCHANGED <<allowed, refused>>
    BY <1>0, <1>3, NoAnswer
  <1> QED BY <1>1, <1>2, <1>3 DEF Next, vars, Begin, Incr, Fail, GetCount, Expire, Tick

\* No check asks Redis.
NoRedis == \A i \in Instance : check[i].pc \in {"idle", "memory"}

\* Without straddling, or without Redis, stores hold what counts against the
\* present window.
LEMMA PresentStep == Base /\ Present /\ (~Straddle \/ NoRedis) /\ [Next]_vars => Present'
  <1> SUFFICES ASSUME Base, Present, ~Straddle \/ NoRedis, [Next]_vars PROVE Present'
    OBVIOUS
  <1>0. Base'
    BY BaseStep
  <1> USE DEF Present, InWindow
  <1>1. ASSUME NEW i \in Instance, Begin(i) PROVE Present'
    BY <1>1 DEF Begin, FallBack, Base, TypeOK
  <1>2. ASSUME NEW i \in Instance, Incr(i) PROVE Present'
    <2>1. \A c \in 1..n : at'[c] = at[c]
      BY PastKept
    <2>2. /\ check'[i] = [pc |-> "read", bucket |-> check[i].bucket, id |-> n + 1]
          /\ \A j \in Instance : j # i => check'[j] = check[j]
          /\ check[i].bucket = now /\ now' = now
      BY <1>2 DEF Incr, Base, TypeOK
    <2>3. n + 1 \in stored'[Redis] /\ \A s \in Store : stored[s] \subseteq stored'[s]
      BY <1>2 DEF Incr, Base, TypeOK
    <2>4. \A s \in Store : allowed'[s] = allowed[s] /\ allowed[s] \subseteq 1..n
      BY <1>2 DEF Incr, Base, TypeOK
    <2>5. \A j \in Instance : check'[j].pc \in {"incr", "read"} => check'[j].bucket = now'
      BY <2>2
    <2>6. \A j \in Instance : check'[j].pc = "read" => check'[j].id \in stored'[Redis]
      BY <2>2, <2>3
    <2>7. \A s \in Store : InWindow(allowed[s], now)' \subseteq stored'[s]
      BY <2>1, <2>2, <2>3, <2>4
    <2> QED BY <2>5, <2>6, <2>7
  <1>3. ASSUME NEW i \in Instance, Read(i) PROVE Present'
    <2>1. Answered(Redis, check[i].id, Cardinality(Collected(check[i].bucket)))
      BY <1>3, AnswerChanges DEF Read, Base
    <2>2. check[i].id \in stored[Redis] /\ UNCHANGED <<now, at, stored>>
      BY <1>3 DEF Read
    <2>3. \A s \in Store : InWindow(allowed[s], now)' \subseteq stored'[s]
      BY <2>1, <2>2 DEF Answered
    <2>4. \A j \in Instance : check'[j] \in {Idle, check[j]}
      BY <1>3 DEF Read, Base, TypeOK
    <2> QED BY <2>2, <2>3, <2>4 DEF Idle
  <1>4. ASSUME NEW i \in Instance, Fail(i) PROVE Present'
    BY <1>4 DEF Fail, FallBack, Base, TypeOK
  <1>5. ASSUME NEW i \in Instance, Memory(i) PROVE Present'
    <2>1. Answered(i, n + 1, Cardinality(Kept(stored[i] \cup {n + 1})))
      BY <1>5, AnswerChanges DEF Memory, Base
    <2>2. \A c \in 1..n : at'[c] = at[c]
      BY PastKept
    <2>3. /\ stored'[i] = Kept(stored[i] \cup {n + 1}) /\ now' = now
          /\ \A s \in Store : s # i => stored'[s] = stored[s]
          /\ \A j \in Instance : check'[j] \in {Idle, check[j]}
          /\ \A s \in Store : allowed[s] \subseteq 1..n
      BY <1>5 DEF Memory, Base, TypeOK
    <2>4. \A s \in Store : InWindow(allowed[s], now)' \subseteq stored'[s]
      BY <2>1, <2>2, <2>3 DEF Answered, Kept
    <2>5. i # Redis
      OBVIOUS
    <2> QED BY <2>3, <2>4, <2>5 DEF Idle
  <1>6. ASSUME NEW i \in Instance, GetCount(i) PROVE Present'
    BY <1>6 DEF GetCount, Kept, Base, TypeOK
  <1>7. ASSUME NEW b \in 0..Horizon, Expire(b) PROVE Present'
    <2>1. /\ UNCHANGED <<now, at, check, allowed>> /\ b + NumBuckets < now
          /\ stored'[Redis] = {c \in stored[Redis] : at[c] # b}
          /\ \A s \in Store : s # Redis => stored'[s] = stored[s]
      BY <1>7 DEF Expire, Base, TypeOK
    <2>2. now \in Nat
      BY DEF Base, TypeOK
    <2>3. \A j \in Instance : check[j].pc = "read" => at[check[j].id] = now
      BY DEF Base
    <2> QED BY <2>1, <2>2, <2>3
  <1>8. CASE Tick
    <2>1. /\ now' = now + 1 /\ UNCHANGED <<at, stored, check, allowed>>
          /\ \A j \in Instance : check[j].pc \notin {"incr", "read"}
      BY <1>8 DEF Tick, NoRedis
    <2>2. /\ now \in Nat
          /\ \A s \in Store : \A c \in allowed[s] : at[c] \in Nat /\ at[c] <= now
      BY DEF Base, TypeOK, Count
    <2> QED BY <2>1, <2>2
  <1>9. CASE UNCHANGED vars
    BY <1>9 DEF vars
  <1> QED BY <1>1, <1>2, <1>3, <1>4, <1>5, <1>6, <1>7, <1>8, <1>9 DEF Next

\* Without straddling, an answer counts all that is allowed in its window.
LEMMA LimitKept == Base /\ Present /\ WindowLimit /\ [Next]_vars => WindowLimit'
  <1> SUFFICES ASSUME Base, Present, WindowLimit, [Next]_vars PROVE WindowLimit'
    OBVIOUS
  <1>0. Base'
    BY BaseStep
  <1>1. ASSUME NEW i \in Instance, Read(i) PROVE WindowLimit'
    <2>1. PICK id, Held : id = check[i].id /\ Held = Collected(now)
      OBVIOUS
    <2>2. /\ Answer(Redis, id, Cardinality(Held)) /\ UNCHANGED <<at, now>> /\ now \in Nat
          /\ at[id] = now /\ id \in stored[Redis] /\ TypeOK
      BY <1>1, <2>1 DEF Read, Base, Present, TypeOK
    <2>3. Answered(Redis, id, Cardinality(Held))
      BY <2>2, AnswerChanges
    <2>4. Held = InWindow(stored[Redis], now)
      BY <2>1, <2>2, CollectedInWindow
    <2>5. IsFiniteSet(Held) /\ Cardinality(Held) \in Nat
      <3>1. n \in Nat /\ Held \subseteq 1..n
        BY <2>4 DEF Base, TypeOK, InWindow
      <3> QED BY <3>1, CountsFinite, FS_CardinalityType
    <2>6. {c \in allowed'[Redis] : now - NumBuckets <= at'[c]} \subseteq Held
      <3>1. \A c \in allowed[Redis] : at[c] <= now
        BY DEF Base, TypeOK
      <3> QED BY <2>2, <2>3, <2>4, <3>1 DEF Answered, Present, InWindow
    <2>7. /\ \A s \in Store : s # Redis => allowed'[s] = allowed[s]
          /\ allowed'[Redis] \subseteq allowed[Redis] \cup {id}
      BY <2>3 DEF Answered
    <2>8. CASE Cardinality(Held) > Limit
      BY <1>0, <2>3, <2>8, LimitSame DEF Answered
    <2>9. CASE Cardinality(Held) <= Limit
      BY <1>0, <2>2, <2>5, <2>6, <2>7, <2>9, LimitStep
    <2> QED BY <2>5, <2>8, <2>9
  <1>2. ASSUME NEW i \in Instance, Memory(i) PROVE WindowLimit'
    <2>1. PICK id, Held : id = n + 1 /\ Held = Kept(stored[i] \cup {n + 1})
      OBVIOUS
    <2>2. /\ Answer(i, id, Cardinality(Held)) /\ now' = now /\ now \in Nat
          /\ at'[id] = now /\ TypeOK /\ \A c \in 1..n : at'[c] = at[c]
      BY <1>2, <2>1, PastKept DEF Memory, Base, TypeOK, Count
    <2>3. Answered(i, id, Cardinality(Held))
      BY <2>2, AnswerChanges
    <2>4. IsFiniteSet(Held) /\ Cardinality(Held) \in Nat
      <3>1. n + 1 \in Nat /\ Held \subseteq 1..(n + 1)
        BY <2>1 DEF Base, TypeOK, Kept
      <3>2. IsFiniteSet(1..(n + 1))
        <4>1. 1 \in Int /\ n + 1 \in Int
          BY <3>1
        <4> QED BY <4>1, FS_Interval
      <3> QED BY <3>1, <3>2, FS_Subset, FS_CardinalityType
    <2>5. {c \in allowed'[i] : now - NumBuckets <= at'[c]} \subseteq Held
      <3>1. \A c \in allowed[i] : at[c] <= now /\ at'[c] = at[c]
        BY <2>2 DEF Base, TypeOK
      <3> QED BY <2>1, <2>2, <2>3, <3>1 DEF Answered, Present, InWindow, Kept
    <2>6. /\ \A s \in Store : s # i => allowed'[s] = allowed[s]
          /\ allowed'[i] \subseteq allowed[i] \cup {id}
      BY <2>3 DEF Answered
    <2>7. CASE Cardinality(Held) > Limit
      BY <1>0, <2>3, <2>7, LimitSame DEF Answered
    <2>8. CASE Cardinality(Held) <= Limit
      BY <1>0, <2>2, <2>4, <2>5, <2>6, <2>8, LimitStep
    <2> QED BY <2>4, <2>7, <2>8
  <1>3. CASE UNCHANGED <<allowed, refused>>
    BY <1>0, <1>3, NoAnswer
  <1> QED BY <1>1, <1>2, <1>3 DEF Next, vars, Begin, Incr, Fail, GetCount, Expire, Tick
-------------------------------------------------------------------------------
\* Inv holds throughout, whether or not checks straddle buckets.
THEOREM Inductive == Spec => []Inv
  <1>1. Init => Inv
    BY InitInv
  <1>2. Inv /\ [Next]_vars => Inv'
    BY BaseStep, PresentStep DEF Inv
  <1> QED BY <1>1, <1>2, PTL DEF Spec

\* is_limited refuses only those who exceed the limit, whatever fails or expires
\* and however long a check takes.
THEOREM RefusesRightly == Spec => []RefusedOverLimit
  <1>1. Init => Base /\ RefusedOverLimit
    BY InitInv DEF Inv
  <1>2. Base /\ RefusedOverLimit /\ [Next]_vars => (Base /\ RefusedOverLimit)'
    BY BaseStep, RefusedStep
  <1> QED BY <1>1, <1>2, PTL DEF Spec

\* If no check lasts into the next bucket, no store allows more than limit
\* events in a window.
THEOREM LimitHolds == ASSUME ~Straddle PROVE Spec => []WindowLimit
  <1>1. Init => Base /\ Present /\ WindowLimit
    BY InitInv DEF Inv
  <1>2. Base /\ Present /\ WindowLimit /\ [Next]_vars => (Base /\ Present /\ WindowLimit)'
    BY BaseStep, PresentStep, LimitKept
  <1> QED BY <1>1, <1>2, PTL DEF Spec

LEMMA NoRedisStep == ASSUME ~HasRedis, Base, NoRedis, [Next]_vars PROVE NoRedis'
  <1>1. DOMAIN check = Instance
    BY DEF Base, TypeOK
  <1>2. ASSUME NEW i \in Instance, Begin(i) \/ Memory(i) PROVE NoRedis'
    BY <1>1, <1>2 DEF Begin, Memory, NoRedis, Idle, FallBack
  <1>3. ASSUME NEW i \in Instance PROVE ~ Incr(i) /\ ~ Read(i) /\ ~ Fail(i)
    BY DEF NoRedis, Incr, Read, Fail
  <1> QED BY <1>2, <1>3 DEF NoRedis, Next, vars, GetCount, Expire, Tick

\* Without Redis a check does not pause: the limit of each instance's memory
\* holds however the buckets pass.
THEOREM LimitHoldsInMemory == ASSUME ~HasRedis PROVE Spec => []WindowLimit
  <1>1. Init => Base /\ Present /\ WindowLimit /\ NoRedis
    BY InitInv DEF Inv, Init, Idle, NoRedis, Present, InWindow
  <1>2. Base /\ NoRedis /\ [Next]_vars => NoRedis'
    BY NoRedisStep
  <1>3. Base /\ Present /\ WindowLimit /\ NoRedis /\ [Next]_vars
           => (Base /\ Present /\ WindowLimit /\ NoRedis)'
    BY <1>2, BaseStep, PresentStep, LimitKept
  <1> QED BY <1>1, <1>3, PTL DEF Spec
-------------------------------------------------------------------------------
\* Only the stores of S have allowed anything.
OnlyIn(S) == \A s \in Store \ S : allowed[s] = {}

\* What one store allowed in a window is all that was allowed in it.
LEMMA OneStoreTotal ==
  ASSUME NEW s \in Store, OnlyIn({s}), WindowLimit
  PROVE  TotalLimit
  <1>1. UNION {allowed[t] : t \in Store} = allowed[s]
    BY DEF OnlyIn
  <1> QED BY <1>1 DEF TotalLimit, WindowLimit

\* An answer is the store's that was asked: Redis, or the instance's memory.
LEMMA AllowedIn ==
  ASSUME TypeOK, [Next]_vars, NEW s \in Store, allowed'[s] # allowed[s]
  PROVE  \/ s = Redis /\ \E i \in Instance : check[i].pc = "read"
         \/ s \in Instance /\ check[s].pc = "memory"
  <1>1. ASSUME NEW i \in Instance, Read(i) PROVE s = Redis /\ check[i].pc = "read"
    <2>1. Answered(Redis, check[i].id, Cardinality(Collected(check[i].bucket)))
      BY <1>1, AnswerChanges DEF Read
    <2> QED BY <1>1, <2>1 DEF Read, Answered
  <1>2. ASSUME NEW i \in Instance, Memory(i) PROVE s = i /\ check[i].pc = "memory"
    <2>1. Answered(i, n + 1, Cardinality(Kept(stored[i] \cup {n + 1})))
      BY <1>2, AnswerChanges DEF Memory
    <2> QED BY <1>2, <2>1 DEF Memory, Answered
  <1>3. CASE UNCHANGED allowed
    BY <1>3
  <1> QED BY <1>1, <1>2, <1>3 DEF Next, vars, Begin, Incr, Fail, GetCount, Expire, Tick

\* "limit: Max allowed events in the window", over all stores: section 4 of the
\* README shows that the instances together allow more.  They do not while no
\* check falls back to a memory ...
Reached == \A i \in Instance : check[i].pc # "memory"

THEOREM TotalWhileReached == ASSUME ~Straddle PROVE Spec /\ []Reached => []TotalLimit
  <1>1. Init => OnlyIn({Redis})
    BY DEF Init, OnlyIn
  <1>2. ASSUME Base, OnlyIn({Redis}), Reached, [Next]_vars PROVE OnlyIn({Redis})'
    BY <1>2, AllowedIn DEF OnlyIn, Reached, Base
  <1>3. OnlyIn({Redis}) /\ WindowLimit => TotalLimit
    BY OneStoreTotal
  <1> QED BY <1>1, <1>2, <1>3, Inductive, LimitHolds, PTL DEF Spec, Inv

\* ... and a single instance without Redis does not either.
THEOREM TotalOfOne ==
  ASSUME ~HasRedis, NEW i, Instance = {i}
  PROVE  Spec => []TotalLimit
  <1>1. Init => Base /\ NoRedis /\ OnlyIn({i})
    BY InitInv DEF Init, Inv, NoRedis, Idle, OnlyIn
  <1>2. ASSUME Base, NoRedis, OnlyIn({i}), [Next]_vars PROVE (Base /\ NoRedis /\ OnlyIn({i}))'
    <2>1. Base'
      BY <1>2, BaseStep
    <2>2. NoRedis'
      BY <1>2, NoRedisStep
    <2>3. OnlyIn({i})'
      BY <1>2, AllowedIn DEF OnlyIn, NoRedis, Base
    <2> QED BY <2>1, <2>2, <2>3
  <1>3. OnlyIn({i}) /\ WindowLimit => TotalLimit
    BY OneStoreTotal
  <1> QED BY <1>1, <1>2, <1>3, LimitHoldsInMemory, PTL DEF Spec
===============================================================================
