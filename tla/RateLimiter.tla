------------------------------ MODULE RateLimiter ------------------------------
(***************************************************************************)
(* RateLimiter (utils/rate_limit.py) for one key, shared by the instances   *)
(* through Redis, with a store of its own in each instance to fall back on. *)
(* Every increment has a number; the count of a bucket is the number of     *)
(* increments stored for it.  The calls to Redis block the instance, so     *)
(* that it makes one check at a time, but those of different instances      *)
(* interleave.  A restarted process is another member of Instance.          *)
(***************************************************************************)
EXTENDS Integers, FiniteSets

CONSTANTS Instance,
          Redis,       \* the store in Redis
          HasRedis,    \* a Redis client is configured
          Limit,       \* limit
          NumBuckets,  \* num_buckets
          Straddle,    \* a check may last into the next bucket
          MaxCounts,   \* bound on the increments
          Horizon      \* bound on the clock

ASSUME ConstantsAssumption ==
    /\ Redis \notin Instance
    /\ HasRedis \in BOOLEAN /\ Straddle \in BOOLEAN
    /\ Limit \in Nat /\ NumBuckets \in Nat /\ MaxCounts \in Nat /\ Horizon \in Nat

VARIABLES
    now,      \* the present bucket
    n,        \* the number of increments so far
    at,       \* at[c]: the bucket of increment c
    stored,   \* stored[s]: the increments store s still holds
    check,    \* check[i]: the check instance i is making
    made, allowed, refused   \* by store: its increments, and their outcomes

vars == <<now, n, at, stored, check, made, allowed, refused>>

Store == Instance \cup {Redis}
Count == 1..MaxCounts
Idle == [pc |-> "idle", bucket |-> 0, id |-> 0]
FallBack == [pc |-> "memory", bucket |-> 0, id |-> 0]

Init ==
    /\ now = 0
    /\ n = 0
    /\ at = [c \in Count |-> 0]
    /\ stored = [s \in Store |-> {}]
    /\ check = [i \in Instance |-> Idle]
    /\ made = [s \in Store |-> {}]
    /\ allowed = [s \in Store |-> {}]
    /\ refused = [s \in Store |-> {}]

\* The increments of C in the window that ends with bucket b.
InWindow(C, b) == {c \in C : b - NumBuckets <= at[c] /\ at[c] <= b}
-------------------------------------------------------------------------------
\* is_limited; _is_limited_redis computes the bucket first.
Begin(i) ==
    /\ check[i].pc = "idle" /\ n < MaxCounts
    /\ check' = [check EXCEPT ![i] = IF HasRedis THEN [pc |-> "incr", bucket |-> now, id |-> 0]
                                     ELSE FallBack]
    /\ UNCHANGED <<now, n, at, stored, made, allowed, refused>>

\* INCR, and EXPIRE at the first.
Incr(i) ==
    /\ check[i].pc = "incr" /\ n < MaxCounts
    /\ n' = n + 1
    /\ at' = [at EXCEPT ![n + 1] = check[i].bucket]
    /\ stored' = [stored EXCEPT ![Redis] = @ \cup {n + 1}]
    /\ made' = [made EXCEPT ![Redis] = @ \cup {n + 1}]
    /\ check' = [check EXCEPT ![i] = [pc |-> "read", bucket |-> check[i].bucket, id |-> n + 1]]
    /\ UNCHANGED <<now, allowed, refused>>

\* The outcome of increment c at store s, where total increments were counted.
Answer(s, c, total) ==
    IF total > Limit
    THEN /\ refused' = [refused EXCEPT ![s] = @ \cup {c}]
         /\ UNCHANGED allowed
    ELSE /\ allowed' = [allowed EXCEPT ![s] = @ \cup {c}]
         /\ UNCHANGED refused

\* Mutant of Collected: one bucket less.
CollectedShort(b) == {c \in stored[Redis] : \E k \in 0..(NumBuckets - 1) : at[c] = b - k}

\* What MGET counts: bucket b and the num_buckets before it.
Collected(b) == {c \in stored[Redis] : \E k \in 0..NumBuckets : at[c] = b - k}

\* MGET and the verdict.
Read(i) ==
    /\ check[i].pc = "read"
    /\ Answer(Redis, check[i].id, Cardinality(Collected(check[i].bucket)))
    /\ check' = [check EXCEPT ![i] = Idle]
    /\ UNCHANGED <<now, n, at, stored, made>>

\* A command fails, before or after it took effect: the memory takes over.
Fail(i) ==
    /\ check[i].pc \in {"incr", "read"}
    /\ check' = [check EXCEPT ![i] = FallBack]
    /\ UNCHANGED <<now, n, at, stored, made, allowed, refused>>

\* Mutant of Kept: a bucket is dropped too early.
KeptLess(C) == {c \in C : now - NumBuckets < at'[c]}

\* Mutant of Kept: nothing is dropped.
KeptAll(C) == C

\* The increments that _is_limited_memory and _get_count_memory keep.
Kept(C) == {c \in C : now - NumBuckets <= at'[c]}

\* _is_limited_memory, without a pause.
Memory(i) ==
    /\ check[i].pc = "memory" /\ n < MaxCounts
    /\ n' = n + 1
    /\ at' = [at EXCEPT ![n + 1] = now]
    /\ stored' = [stored EXCEPT ![i] = Kept(@ \cup {n + 1})]
    /\ made' = [made EXCEPT ![i] = @ \cup {n + 1}]
    /\ Answer(i, n + 1, Cardinality(Kept(stored[i] \cup {n + 1})))
    /\ check' = [check EXCEPT ![i] = Idle]
    /\ UNCHANGED now

\* _get_count_memory drops expired buckets too.
GetCount(i) ==
    /\ check[i].pc = "idle"
    /\ at' = at
    /\ stored' = [stored EXCEPT ![i] = Kept(@)]
    /\ UNCHANGED <<now, n, check, made, allowed, refused>>

\* Redis drops bucket b: its time to live, window + bucket_size from its first
\* increment on, is over at the earliest when b has left the window.
Expire(b) ==
    /\ b + NumBuckets < now
    /\ stored' = [stored EXCEPT ![Redis] = {c \in @ : at[c] # b}]
    /\ UNCHANGED <<now, n, at, check, made, allowed, refused>>

\* The next bucket begins.
Tick ==
    /\ now < Horizon
    /\ Straddle \/ \A i \in Instance : check[i].pc \notin {"incr", "read"}
    /\ now' = now + 1
    /\ UNCHANGED <<n, at, stored, check, made, allowed, refused>>
-------------------------------------------------------------------------------
Next == \/ \E i \in Instance : Begin(i) \/ Incr(i) \/ Read(i) \/ Fail(i) \/ Memory(i) \/ GetCount(i)
        \/ \E b \in 0..Horizon : Expire(b)
        \/ Tick

Spec == Init /\ [][Next]_vars
-------------------------------------------------------------------------------
CheckOK(k) == /\ k.pc \in {"idle", "incr", "read", "memory"}
              /\ k.bucket \in Nat
              /\ k.id \in Nat
              /\ k.pc = "read" => k.id \in 1..n

TypeOK ==
    /\ now \in Nat
    /\ n \in 0..MaxCounts
    /\ at \in [Count -> Nat]
    /\ DOMAIN stored = Store /\ DOMAIN made = Store
    /\ DOMAIN allowed = Store /\ DOMAIN refused = Store
    /\ \A s \in Store : /\ stored[s] \subseteq made[s] /\ made[s] \subseteq 1..n
                        /\ allowed[s] \subseteq made[s] /\ refused[s] \subseteq made[s]
    /\ DOMAIN check = Instance
    /\ \A i \in Instance : CheckOK(check[i])

\* "limit: Max allowed events in the window": in no window does a store allow
\* more, although increments of other instances come between INCR and MGET,
\* buckets expire and commands fail.
WindowLimit ==
    \A s \in Store, b \in 0..Horizon : Cardinality(InWindow(allowed[s], b)) <= Limit

\* Nobody is refused who has not exceeded the limit: more than Limit increments
\* were made at that store in the window of the one refused.
RefusedOverLimit ==
    \A s \in Store : \A c \in refused[s] : Cardinality(InWindow(made[s], at[c])) > Limit

(* Said of the code and not kept by it: see section 4 of the README.      *)

\* The limit of the docstring over all the stores that answer.
TotalLimit ==
    \A b \in 0..Horizon :
        Cardinality(InWindow(UNION {allowed[s] : s \in Store}, b)) <= Limit

\* No check runs ahead of the clock, and one that reads has made its increment.
Base ==
    /\ TypeOK
    /\ \A c \in 1..n : at[c] <= now
    /\ \A i \in Instance : check[i].pc \in {"incr", "read"} => check[i].bucket <= now
    /\ \A i \in Instance :
          check[i].pc = "read" => check[i].id \in made[Redis] /\ at[check[i].id] = check[i].bucket

\* Without straddling, checks are of the present bucket, a check will find its
\* own increment, and a store holds what it has allowed in the present window.
Present ==
    /\ \A i \in Instance : check[i].pc \in {"incr", "read"} => check[i].bucket = now
    /\ \A i \in Instance : check[i].pc = "read" => check[i].id \in stored[Redis]
    /\ \A s \in Store : InWindow(allowed[s], now) \subseteq stored[s]

\* What makes the limit inductive.
Inv == Base /\ (Straddle \/ Present)
===============================================================================
