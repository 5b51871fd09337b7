-------------------------- MODULE AutomationScheduler --------------------------
(***************************************************************************)
(* Scheduled automations: the scheduler_worker_loop of every instance       *)
(* (utils/automations.py) claims due rows (models/automations.py), while    *)
(* requests create, update, toggle, run and delete them                     *)
(* (routers/automations.py).  A row is read by one statement and written by *)
(* a later one, which writes only the columns that differ from what was     *)
(* read.  On PostgreSQL the claim locks the rows it reads.  A recurrence    *)
(* rule is the set of its occurrences up to the horizon, in local time; in  *)
(* the hour that a local clock shows twice an occurrence to come is         *)
(* converted to an instant that has passed.  last and late are history:     *)
(* they tell what a claim repeats, and nothing depends on them.             *)
(***************************************************************************)
EXTENDS Instances, Integers, FiniteSets, FiniteSetsExt

CONSTANTS Automation, Request,
          Rule,      \* the recurrence rules users write
          Horizon,   \* bound on the clock
          Wall,      \* Wall[t]: the local time at the instant t
          Instant,   \* Instant[d]: the instant the local time d is converted to
          Limit,     \* the limit of claim_due
          MaxCount,  \* AUTOMATION_MAX_COUNT; 0 or None for no limit
          Postgres,  \* the database locks the rows a claim reads
          May        \* bound: what each request may do

ASSUME BoundsAssumption ==
    /\ Horizon \in Nat /\ Limit \in Nat \ {0} /\ MaxCount \in Nat
    /\ Postgres \in BOOLEAN
    /\ \A r \in Rule : r \subseteq 0..Horizon

ASSUME ClockAssumption ==
    Wall \in [0..Horizon -> 0..Horizon] /\ Instant \in [0..Horizon -> 0..Horizon]

Deed == {"create", "change", "delete"}
ASSUME MayAssumption == May \in [Request -> SUBSET Deed]

ASSUME FiniteAssumption ==
    IsFiniteSet(Automation) /\ IsFiniteSet(Request) /\ Request # {}

VARIABLES
    now,      \* the clock
    row,      \* row[a]: the automation's row
    worker,   \* worker[i]: the scheduler of instance i and the rows it has read
    req,      \* req[q]: request q, the row it has loaded and the one it will write
    last,     \* last[a]: the occurrence claimed last, -1 if none
    late      \* requests that computed their row's next run before its last claim,
              \* or in a repeated hour

vars == <<now, row, worker, req, last, late>>
history == <<last, late>>

Never == Horizon + 1                          \* next_run_at is NULL
Time == 0..Never
NoRow == [exists |-> FALSE, active |-> FALSE, next |-> Never, rule |-> {}]
Row == [exists: BOOLEAN, active: BOOLEAN, next: Time, rule: Rule \cup {{}}]

\* Mutant of NextRun: an exhausted rule comes back a horizon later.
NextRunWraps(rule) ==
    LET coming == {d \in rule : d > Wall[now]}
    IN IF coming = {} THEN Never + now ELSE Instant[Min(coming)]

\* Mutant of NextRun: the present occurrence counts as a coming one.
NextRunAgain(rule) ==
    LET coming == {d \in rule : d >= Wall[now]}
    IN IF coming = {} THEN Never ELSE Instant[Min(coming)]

\* next_run_ns: the instant of the first occurrence after the local time.
NextRun(rule) ==
    LET coming == {d \in rule : d > Wall[now]}
    IN IF coming = {} THEN Never ELSE Instant[Min(coming)]

\* A local time to come is converted to an instant that has passed: the clock
\* shows an hour again and the conversion takes its first showing (fold = 0).
HourRepeats == \E d \in 0..Horizon : d > Wall[now] /\ Instant[d] <= now

Idle == [pc |-> "idle", id |-> {}, old |-> NoRow, new |-> NoRow]
Begun(pc, a, old, new) == [pc |-> pc, id |-> {a}, old |-> old, new |-> new]

Init ==
    /\ now = 0
    /\ row = [a \in Automation |-> NoRow]
    /\ worker = [i \in Instance |-> [pc |-> "sleep", read |-> {}]]
    /\ req = [q \in Request |-> Idle]
    /\ last = [a \in Automation |-> -1]
    /\ late = {}

Existing == {a \in Automation : row[a].exists}

\* Rows under the lock of a claim; nobody waits for them with SKIP LOCKED.
Locked == IF Postgres
          THEN {c.id : c \in UNION {worker[i].read : i \in Instance}}
          ELSE {}

\* What a commit leaves in a row: the columns changed since it was loaded.
Flush(current, old, new) ==
    [exists |-> TRUE,
     active |-> IF new.active # old.active THEN new.active ELSE current.active,
     next |-> IF new.next # old.next THEN new.next ELSE current.next,
     rule |-> IF new.rule # old.rule THEN new.rule ELSE current.rule]
-------------------------------------------------------------------------------
Due == {a \in Existing : row[a].active /\ row[a].next <= now}

\* Mutant of Claimable: FOR UPDATE is forgotten.
DueUnlocked == Due

\* Mutant of Claimable: what was due at an earlier poll is not made up for.
DueJustNow == {a \in Due \ Locked : row[a].next = now}

\* The rows a claim may read.
Claimable == Due \ Locked

\* claim_due's SELECT: the earliest rows first, at most Limit of them.
Select(i) ==
    /\ worker[i].pc = "sleep"
    /\ \E batch \in SUBSET Claimable :
          /\ batch # {} /\ Cardinality(batch) <= Limit
          /\ \A a \in Claimable \ batch :
                /\ Cardinality(batch) = Limit
                /\ \A b \in batch : row[b].next <= row[a].next
          /\ worker' = [worker EXCEPT ![i] =
                           [pc |-> "claim", read |-> {[id |-> a, row |-> row[a]] : a \in batch}]]
    /\ UNCHANGED <<now, row, req, history>>

ReadOf(i, a) == (CHOOSE c \in worker[i].read : c.id = a).row
BatchOf(i) == {c.id : c \in worker[i].read}

\* The row a claim writes.
Advanced(old) == [old EXCEPT !.next = NextRun(old.rule)]

\* Its commit, then an execution of each row claimed.  A row deleted meanwhile
\* makes the commit fail, and the claim with it.
Commit(i) ==
    /\ worker[i].pc = "claim"
    /\ worker' = [worker EXCEPT ![i] = [pc |-> "sleep", read |-> {}]]
    /\ IF BatchOf(i) \subseteq Existing
       THEN /\ row' = [a \in Automation |->
                         IF a \in BatchOf(i)
                         THEN Flush(row[a], ReadOf(i, a), Advanced(ReadOf(i, a)))
                         ELSE row[a]]
            /\ last' = [a \in Automation |->
                          IF a \notin BatchOf(i) THEN last[a]
                          ELSE IF HourRepeats THEN -1 ELSE ReadOf(i, a).next]
            /\ late' = late \cup {q \in Request : req[q].id \cap BatchOf(i) # {}}
       ELSE UNCHANGED <<row, history>>
    /\ UNCHANGED <<now, req>>

\* An instance dies: its transaction is rolled back, its executions are lost.
Crash(i) ==
    /\ worker[i].pc # "down"
    /\ worker' = [worker EXCEPT ![i] = [pc |-> "down", read |-> {}]]
    /\ UNCHANGED <<now, row, req, history>>

Restart(i) ==
    /\ worker[i].pc = "down"
    /\ worker' = [worker EXCEPT ![i].pc = "sleep"]
    /\ UNCHANGED <<now, row, req, history>>
-------------------------------------------------------------------------------
\* Ids are drawn fresh, so any unused one will do.
Unused == Automation \ (Existing \cup UNION {req[q].id : q \in Request})
NewId == CHOOSE a \in Unused : TRUE

\* Mutant of BelowLimit: the new row is not counted.
BelowOrAt == MaxCount = 0 \/ Cardinality(Existing) <= MaxCount

\* check_automation_limits of a user who is not an administrator.
BelowLimit == MaxCount = 0 \/ Cardinality(Existing) < MaxCount

\* create_new_automation: the rule has a future run and the user's count is
\* below the limit.
Create(q) ==
    /\ "create" \in May[q] /\ req[q].pc = "idle" /\ Unused # {}
    /\ BelowLimit
    /\ \E r \in Rule, on \in BOOLEAN :
          /\ NextRun(r) # Never
          /\ req' = [req EXCEPT ![q] = Begun("insert", NewId, NoRow,
                [exists |-> TRUE, active |-> on, next |-> NextRun(r), rule |-> r])]
    /\ UNCHANGED <<now, row, worker, history>>

Insert(q) ==
    /\ req[q].pc = "insert"
    /\ \E a \in req[q].id : row' = [row EXCEPT ![a] = req[q].new]
    /\ req' = [req EXCEPT ![q] = Idle]
    /\ UNCHANGED <<now, worker, history>>

\* update_automation_by_id up to the row's load: the rule is validated and its
\* next run computed before.
Update(q) ==
    /\ "change" \in May[q] /\ req[q].pc = "idle"
    /\ \E a \in Existing, r \in Rule, on \in BOOLEAN :
          /\ NextRun(r) # Never
          /\ req' = [req EXCEPT ![q] = Begun("update", a, NoRow,
                [exists |-> TRUE, active |-> on, next |-> NextRun(r), rule |-> r])]
    /\ late' = IF HourRepeats THEN late \cup {q} ELSE late
    /\ UNCHANGED <<now, row, worker, last>>

\* toggle_automation_by_id up to the row's load: the next run is computed from
\* the rule just read, whichever way the switch will go.
Toggle(q) ==
    /\ "change" \in May[q] /\ req[q].pc = "idle"
    /\ \E a \in Existing :
          req' = [req EXCEPT ![q] =
                    Begun("toggle", a, NoRow, [row[a] EXCEPT !.next = NextRun(row[a].rule)])]
    /\ late' = IF HourRepeats THEN late \cup {q} ELSE late
    /\ UNCHANGED <<now, row, worker, last>>

\* The row is loaded again by update_by_id or toggle, in a session of its own.
Load(q) ==
    /\ req[q].pc \in {"update", "toggle"}
    /\ \E a \in req[q].id :
          LET old == row[a]
              new == IF req[q].pc = "update" THEN req[q].new
                     ELSE [old EXCEPT !.active = ~old.active,
                                      !.next = IF old.active THEN Never ELSE req[q].new.next]
          IN  /\ req' = [req EXCEPT ![q] = IF old.exists THEN Begun("write", a, old, new) ELSE Idle]
              /\ late' = IF old.exists THEN late ELSE late \ {q}
    /\ UNCHANGED <<now, row, worker, last>>

\* Its commit waits for the lock of a claim; on a deleted row it fails.
Write(q) ==
    /\ req[q].pc = "write"
    /\ req[q].id \cap Locked = {}
    /\ \E a \in req[q].id :
          row' = IF row[a].exists
                 THEN [row EXCEPT ![a] = Flush(@, req[q].old, req[q].new)] ELSE row
    /\ last' = [a \in Automation |->
                  IF q \in late /\ a \in req[q].id THEN -1 ELSE last[a]]
    /\ late' = late \ {q}
    /\ req' = [req EXCEPT ![q] = Idle]
    /\ UNCHANGED <<now, worker>>

\* delete_automation_by_id; its runs are deleted before it.
Delete(q) ==
    /\ "delete" \in May[q] /\ req[q].pc = "idle"
    /\ \E a \in Existing \ Locked : /\ row' = [row EXCEPT ![a] = NoRow]
                                   /\ last' = [last EXCEPT ![a] = -1]
    /\ UNCHANGED <<now, worker, req, late>>

Tick ==
    /\ now < Horizon
    /\ now' = now + 1
    /\ UNCHANGED <<row, worker, req, history>>
-------------------------------------------------------------------------------
WorkerStep(i) == Select(i) \/ Commit(i)
RequestStep(q) == \/ Create(q) \/ Insert(q) \/ Update(q) \/ Toggle(q) \/ Load(q)
                  \/ Write(q) \/ Delete(q)

Next == \/ \E i \in Instance : WorkerStep(i) \/ Crash(i) \/ Restart(i)
        \/ \E q \in Request : RequestStep(q)
        \/ Tick

Spec == Init /\ [][Next]_vars

\* The loop of an instance that is up polls for ever, at random intervals, so
\* that the rows of an instance that crashes and starts again and again are
\* not locked at its every poll (hence strong fairness).  Time passes.
FairSpec == /\ Spec /\ WF_vars(Tick)
            /\ \A i \in Instance : SF_vars(Select(i)) /\ WF_vars(Commit(i))
-------------------------------------------------------------------------------
TypeOK ==
    /\ now \in 0..Horizon
    /\ row \in [Automation -> Row]
    /\ worker \in [Instance -> [pc: {"sleep", "claim", "down"},
                                read: SUBSET [id: Automation, row: Row]]]
    /\ req \in [Request -> [pc: {"idle", "insert", "update", "toggle", "write"},
                            id: SUBSET Automation, old: Row, new: Row]]
    /\ last \in [Automation -> Time \cup {-1}]
    /\ late \in SUBSET Request

\* "the row can never be double-claimed": a claim is committed on the schedule
\* it was decided on; no other instance, update or toggle has changed it.
Claims(i) == worker[i].pc = "claim" /\ worker'[i].pc = "sleep" /\ BatchOf(i) \subseteq Existing
ClaimNotStale ==
    [][\A i \in Instance : Claims(i) => \A c \in worker[i].read : row[c.id].next = c.row.next]_vars

\* Of the occurrence: an automation's claims advance along its schedule, unless
\* an update or toggle that had computed its next run before a claim is written
\* after it, or the next run was computed while the clock shows an hour again.
ClaimsAdvance ==
    [][\A i \in Instance : Claims(i) => \A c \in worker[i].read : c.row.next > last[c.id]]_vars

\* Requests that have passed the check of the limit and not inserted their row.
Inserting == {q \in Request : req[q].pc = "insert"}

\* "Enforce global automation limits": creations that race exceed the limit by
\* one each at most, for as long as they are requests.
BoundedOvershoot ==
    MaxCount > 0 =>
        Cardinality(Existing) + Cardinality(Inserting) <= MaxCount + Cardinality(Request) - 1

\* While some instance stays up, no automation stays due at a time, however
\* many others are due and whatever crashes, requests and repeated hours do.
StaysUp(i) == <>[](worker[i].pc # "down")
DueAt(a, t) == a \in Due /\ row[a].next = t
DueIsClaimed ==
    \A i \in Instance : StaysUp(i) =>
        \A a \in Automation, t \in {Instant[d] : d \in 0..Horizon} : DueAt(a, t) ~> ~DueAt(a, t)

-------------------------------------------------------------------------------
(* Said of the code and not kept by it: see section 4 of the README.      *)

\* "Enforce global automation limits": the count stays within the limit.
WithinLimit == MaxCount > 0 => Cardinality(Existing) <= MaxCount

\* claim_due: "Advances next_run_at immediately so the row can never be
\* double-claimed".  A row that was claimed is no longer due.
ClaimedNotDue ==
    [][\A i \in Instance : Claims(i) => BatchOf(i) \cap Due' = {}]_vars
===============================================================================
