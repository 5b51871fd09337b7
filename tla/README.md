# Formal models of AdoetzGPT Enhanced (an Open WebUI fork)

TLA+ models, TLC runs and TLAPS proofs for the concurrent core of this repository: the Python backend
`frontend-source/backend/open_webui` (`B` below), which runs as one or several *instances* (processes
or hosts) that share a database and, optionally, Redis.

`PROJECT.json` is the index: components, runs with their properties, the mutants each property was tried
against, the source lines of every definition (`map`), findings, hazards and theorems.

## 1. Inventory

| Component | State it keeps | Operations and interactions | What is hard | What makes it correct |
|---|---|---|---|---|
| **Task registry** `B/tasks.py` | per process `tasks`, `item_tasks`; in Redis a hash and a set per chat or document | create, list, stop, done-callback cleanup, stop commands by pub/sub; called by chat requests, stop routes, document saves | a task may end before it is saved; SCARD then DELETE; commands nobody hears; a list iterated while it shrinks | running tasks are registered and can be stopped, ended tasks disappear |
| **Chat activity** `B/main.py` | `chat:active` shown by clients | request starts a task per model, emits true; the last task emits false | two emitters, checks that are stale when the event goes out | an idle chat is shown idle, a busy one busy |
| **Cleanup loops and lock** `B/socket/utils.py`, `B/socket/main.py` | a Redis key with a time to live; the loop state of each instance | acquire with retries, renew at each pass, release | sleeping past the lock's life, crashes holding it | one cleaner at a time, and always one again |
| **Session and usage pools** `B/socket/main.py` | `SESSION_POOL`, `USAGE_POOL` in Redis hashes | connect, join, heartbeat, usage, disconnect, both cleanup passes | read-modify-write of shared maps by all instances | live entries stay, dead ones go |
| **Collaborative documents** `B/socket/utils.py` | a list of updates and a set of users per document, rooms | join, update, leave, disconnect, compaction, clearing | compaction and clearing on stale reads; overtaking messages | no update is lost while a document is open, every editor sees all |
| **Automations** `B/utils/automations.py`, models, routes | rows with a next run | claim by every instance, create, update, toggle, delete, execution | double claims, stale schedules, crashes after a claim | an occurrence runs once, a due row is served |
| **Calendar alerts** `B/utils/automations.py`, `B/models/calendar.py` | event rows with a mark | query, alert, mark; user edits | read-alert-mark by every instance; mark and window share a column | one alert per event and start |
| **Rate limiter** `B/utils/rate_limit.py` | counters per time bucket in Redis, a fallback store per process | INCR, MGET, fallback | increments interleave, buckets expire, commands fail | no more than the limit in a window, no refusal below it |
| Configuration store `B/config.py` | keys in memory, in Redis and in one database row | assign, asynchronous save, read | saves overtake each other | the last value wins everywhere |
| Token usage sync `src/lib/stores/tokenUsage.ts`, `B/routers/users.py` | records per device, a copy in the user's info | record, reset, merge once, post | skipped syncs, resurrected records, whole-value overwrites | devices and server converge |
| **Message writes** `B/utils/middleware.py`, `B/models/chats.py`, `B/models/chat_messages.py`, `B/socket/main.py` | a message in its chat's document and in a row of its own | placeholder, saves while the answer is received and at its end, follow-ups, title, outlet filters, errors, cancelled responses, events posted to a message | every save reads and rewrites the whole document; a response is stopped at any await, twice; events posted meanwhile | a response that ended is complete in both places, nothing that was saved is lost |
| **OAuth sessions** `B/utils/oauth.py`, `B/models/oauth_sessions.py` | a row per session with its refresh token; the provider's newest refresh token | refresh before a token expires, login and connect callbacks, back-channel logout, disconnect | requests refresh one session at once, callers are cancelled between the provider's answer and the save, logins overlap | a session lives until its user ends it or newer ones take its place |
| Redis connections `B/utils/redis.py` | cached clients | retries at fail-over | commands take effect twice | callers tolerate repetition |
| Live voice (web overlay and Android service) | connection, audio queue, recorder | start, stop, reconnect | threads and callbacks on shared objects | no use after release |
| Everything else | rows, files, external services | request handlers | little concurrency of their own | listed with the reason in `PROJECT.json` |

Interactions: a chat request creates tasks (registry) and announces activity; its tasks deregister
themselves; the socket layer keeps the pools, whose cleanup loops are guarded by the lock, and the documents;
a disconnect touches pools and documents; the scheduler of each instance runs automations, whose executions
are chat requests, and calendar alerts.

## 2. Modules and how they correspond to the code

Each `await` of a command to Redis or the database is a point where others run; so one command, or one
MULTI/EXEC pipeline, or one commit, is one action, and what runs between two awaits is part of one action.
Synchronous Redis calls (`RedisDict`, `RedisLock`, the rate limiter) block the event loop of their own
instance only, so those of different instances interleave.

| Module | Models | State and actions |
|---|---|---|
| `TaskRegistry` | `tasks.py` with Redis | `tasks[n]`, `hash`, `itemSet` are the code's; `state`, `saving`, `cleanup`, `request` are where coroutines are suspended. `CreateTask`, `SaveTask`, `Finish`, `Cleanup*`, `Stop*`, `Subscribe`, `HandleCommand`, `ListenerFails`, `Crash`, `Restart`. |
| `LocalTasks` | `tasks.py` without Redis | the two dictionaries; the stop loop iterates the live list. An over-approximation: any runnable task may run next, where asyncio runs them in order. |
| `ChatActivity` | the fan-out and the `chat:active` events in `main.py` | the request that creates tasks and emits true; the bodies that deregister, check and emit false; `CutShort` is a stop, or a failure of Redis, in the middle of a body's `finally`. |
| `CleanupLoop` | `RedisLock` and the two loops' lives | `owner`, `ttl` of the key, `pc`, `due`, `tries` of each instance; `Tick` counts both the key and the sleeps down. |
| `SocketPools` | handlers and passes over both pools | hashes as in Redis, ages instead of timestamps; one action per Redis command, with what was read kept in the handler's state. The `now` of a pass is fixed at its start, as in the code. |
| `YdocSpec`, `YdocDocument` | what a document store promises; `YdocManager` and its socket handlers | a Yjs update is an atom, a merged update the set of its atoms. `Shared` chooses Redis or memory. `late` are the joins a disconnect has overtaken while they asked the database (`JoinLate`: their session stays a user for good); `QuitUnknown` is the disconnect of a session the pool has lost. |
| `AutomationScheduler` | claim and routes | a row is read by one action and written by a later one, which writes the changed columns (the ORM's flush); `Postgres` chooses row locks. A rule is the set of its occurrences in local time; `Wall` is the local time of an instant and `Instant` the instant a local time is converted to, so that an hour the clock shows twice is in the model (`HourRepeats`). `last` remembers the latest occurrence claimed, `late` the requests that computed a next run before a claim, or in a repeated hour. |
| `CalendarAlerts` | the alert check and event updates | the same reading and flushing; the mark and the window are one column. `MarkFails` is a mark the database refuses and the code drops, `CheckCrash` a crash or an emission that raises; `faults` counts them. |
| `RateLimiter` | one key of the limiter | increments are numbered, a bucket's count is the number of increments stored for it. |
| `ChatMessages` | the responses of a chat and the events posted to their messages | `doc` is the chat's document, `row` the messages' rows, both as sets of facts about each message (has text, is done, has usage, error ...); `op[w]` is a write under way with the document it read; `pc` where a response is; `whole` the responses the provider gives as a whole (`non_streaming_chat_response_handler`), `got` those that have any text. `Place` ... `Finish` are the stages of a response, `Stop` and `StopAgain` its cancellation, `Read`, `Append`, `Rewrite`, `Attach` the events, `WriteRow`, `WriteDoc` the two commits of every save; `lost` remembers what one writer took from the message of another. `Cast` bounds which writers meet, `May` which optional steps a response takes, `Thread` which messages its filters get. |
| `OAuthSessions` | the sessions of a user with a provider | `row`, `token`, `bornAt` are the columns, `issued` what the provider will accept; `request[r]` is a call of `get_oauth_token` between its awaits, `handler[h]` a callback or a logout with the sessions it has yet to delete and those it `missed` because the listing or the delete failed; `hurt` is history. `Cast` bounds which requests, handlers and ids meet. The provider may rotate the refresh token or keep it, refuse, fail, or answer a caller that is gone. `Limit` is `OAUTH_MAX_SESSIONS_PER_USER`; `Limit = 1` is the callback of `OAuthClientManager`. |

`MC*` modules give constants values; `*_proofs` modules hold the theorems, three of them those of two components that run
side by side: `LocalTasks_proofs` also those of `ChatActivity`, `SocketPools_proofs` those of `CleanupLoop`,
`AutomationScheduler_proofs` those of `CalendarAlerts`. So that such a pair can be extended by one module, the second of
each names its definitions apart (`ActivitySpec`, `LoopSpec`, `AlertSpec`, `ActivityTypeOK` ...), and the constant
both have, `Instance`, is declared in `Instances`. `YdocSpec` is the abstract
specification: a store never forgets an update while somebody uses the document, and forgets the document only
when nobody does; compaction is invisible. In memory `YdocDocument` implements it (`KeepsItsPromise`).

## 3. What the runs show

| Run | Instance | Shows |
|---|---|---|
| `task_registry` | 1 instance, 2 tasks of one item, 1 stop, crashes and restarts | an item's set lists only registered tasks, running saved tasks are registered, only asked ones are cancelled; what ended is deregistered; a stop delivered to the owner takes effect |
| `local_tasks` | 3 tasks, 2 stops | both dictionaries stay consistent with the tasks; every stop call returns |
| `chat_activity` | a request of 2 models and one of 1 | the last of the tasks that know their id clears the activity they announced, unless one is stopped, or loses Redis, in its `finally` |
| `cleanup_loop` | 2 instances, the usage loop's proportions | never two cleaners; the next pass always comes; a restarted instance outlasts its dead predecessor's lock |
| `session_loop_stops` | 1 instance, the session loop's proportions | the loop ends after one pass (a violation, see below) |
| `socket_pools` | 2 instances, 2 sessions, 1 model | a heartbeat never revives a closed session; what closed sessions left in the pools goes |
| `ydoc_memory` | 2 sessions, 4 updates, threshold 4 | `YdocSpec` is implemented, nothing is missed, the list stays short, although joins are overtaken by the disconnect and sessions unknown |
| `automations` | 2 instances, 3 rows, 2 requests, limit 1, an hour shown twice, PostgreSQL | a claim is committed on the schedule it was read with; an occurrence is not claimed twice unless a route wrote a next run computed before the claim or the hour repeats; racing creations exceed the limit on automations by one; what was not claimed at its poll is made up for |
| `alerts` | 2 instances, 2 events, 1 edit, 1 crash or failure | each instance alerts an event once, and repeats it only for a crash or a mark that failed; an upcoming event gets its alert |
| `rate_limit` | 2 instances, limit 2, 5 increments, 4 buckets | the limit in each window; no refusal below it |
| `chat_messages` | a response that may take every step, and 1 event or a response that only answers; or a response whose filters get the thread, and the one it follows up | a streamed response that ended, however it was stopped or failed, is complete in document and row unless another writer took it back; a response never takes its own answer out again; usage is never lost; a stopped answer is saved although it is stopped again |
| `oauth_sessions` | 2 logins or logouts and 4 sessions, or 1 and 3 with 2 requests for one session; limit 2 | a session is dropped only after refreshes that overlapped, failed or were cut off; a deleted one stays deleted; logins prune the oldest, and one that is alone gets down to the limit besides what it failed to list or delete, also from more than the limit |

Safety and liveness share one run per component. The task registry is checked with one instance: a stop command
reaches every instance alike and requests are not tied to one, and its safety is proved for any number (section 6).
`oauth_sessions` lets requests ask for one of the sessions, since sessions share nothing but the handlers that
delete them, and leaves out the refresh tokens of the others. Four ids let two logins that overlap, or fail to delete,
leave three sessions where two are allowed, and a third login find them; the requests, which do not depend on how many
others there are, meet one handler and three ids (`MCCast`). `chat_messages` has every pair of writers whose steps
disturb each other: a response and an event, two responses, and a response and the one its filters rewrite; which
optional steps one of the two leaves out (`MCMay`) is what the proofs do not need.

`session_loop_stops` is the one run that must fail: it instantiates `CleanupLoop` with the default times of
`periodic_session_pool_cleanup` (lock 60 s, sleep 120 s), for which the lock expires in the sleep, its renewal (`SET
XX`) fails and the loop returns for good. The finding in `PROJECT.json` quotes the code.

Type correctness (`TypeOK`, `ActivityTypeOK`, `AlertTypeOK`) is checked by the runs except `task_registry`,
`cleanup_loop`, `chat_messages` and `oauth_sessions`, for which it is proved for every instance (section 6), and
`rate_limit`, whose `Inv` contains it. (The proofs cover the others as well.)

Why the bounds are enough: every property relates at most two actors and the state they share, and a third party that
disturbs them; the instances have two of each actor, each actor may go through its protocol more than once, clocks run
over at least one time-out, and each property is violated by a plausible mutation of the code under the same bounds
(`mutants`). The proofs remove the bounds for the components that have them.

Deadlock checking is off where the bounded model really stops: task ids, updates, edits, increments or the clock are
used up.

## 4. Where the code does not do what it says

Besides the session loop, the models reach states that a comment or docstring of the code rules out. Each is
stated as a property at the end of its module; TLC refutes it within seconds (`NothingMissed` with Redis: minutes) when
the property is put into the component's configuration with the constants below and its specification without fairness
(`Spec`, `ActivitySpec`, `LoopSpec`, `AlertSpec`), or with it (`FairSpec`, `LoopFairSpec`) for those marked \*.
They are not among the runs: they describe the code as it is, and a fix will turn them into properties to check.

| Property | Constants | What happens |
|---|---|---|
| `TaskRegistry!ListTasksActive` | 1 node, 1 task | `tasks.py:122`: a task that ends before `create_task` has saved it stays in Redis, listed as active for ever |
| `TaskRegistry!HasActiveTasks` | 1 node, 2 tasks | `tasks.py:65`: a task saved between the `SCARD` of 0 and the `DELETE` is dropped from its item's set while it runs |
| `TaskRegistry!PublishedStopTakesEffect` \* | 1 node, 1 task | `tasks.py:160`: a stop nobody was subscribed for is answered as done, and the task runs on unregistered |
| `LocalTasks!AllStopped` | 3 chat tasks, 1 stop | `tasks.py:190`: the list that is iterated shrinks, so *stop all* skips a task |
| `ChatActivity!IdleIsInactive` | 1 request, 1 model | `main.py:2141`: a task that ends before it knows its id, or before true is emitted, leaves the chat shown as active; so does one stopped while its `finally` awaits Redis (`main.py:2084`: the `CancelledError` is no `Exception`) |
| `ChatActivity!InactiveIsIdle` | 2 requests, 1 model | `main.py:2085`: the check that no task remains is stale when false is emitted |
| `CleanupLoop!AtMostOneCleaner`, `TakesOver` \* | `TTL = 1, Sleep = 2, Retries = 0, Lag = 0`, 2 instances (1) | the session loop's times: two loops run, or a restart finds its own dead lock |
| `SocketPools!OnlyMissedReaped` | as `socket_pools` | `socket/main.py:190`: a heartbeat between the reaper's read and its delete is lost with the entry |
| `SocketPools!OnlyExpiredCleaned`, `ClosedStaysUnused` | as `socket_pools` | `socket/main.py:232, 341`: a model's connections are written back whole from an earlier read |
| `YdocDocument!CompactionKeeps` | `Shared = TRUE`, 1 session, 5 updates | `socket/utils.py:164`: an update pushed between the compaction's `LRANGE` and its pipeline is lost |
| `YdocDocument!ClearedUnused` | `Shared = TRUE`, 2 updates | `socket/utils.py:256`: a session that joins between the check and the deletion loses its document |
| `YdocDocument!NothingMissed` | `Shared = TRUE`, otherwise as `ydoc_memory` | `socket/utils.py:164`: a compaction that has read the list writes it back after the document was cleared for the last user; a session that joined in between has fetched an empty document and never sees these updates |
| `AutomationScheduler!ClaimNotStale` | `Postgres = FALSE`, 2 instances, 1 row | `models/automations.py:276`: without row locks two instances claim the same row |
| `AutomationScheduler!WithinLimit` | as `automations` | `routers/automations.py:79`: concurrent creations both pass the check (`BoundedOvershoot` says by how much at most) |
| `AutomationScheduler!ClaimedNotDue` | as `automations` | `utils/automations.py:97-106`: in the hour a local clock shows twice, an occurrence later in that hour is converted to its first showing, which has passed: the row just claimed is due again, and is claimed and executed at every poll until the clock shows that time again |
| `CalendarAlerts!AlertedOnce` | 2 instances, 1 event; or 1 instance and `Window <- TwoWindows` | `utils/automations.py:513`, `models/calendar.py:686`: read, alert, mark on every instance; an edit of the window takes the mark away |
| `CalendarAlerts!SkippedWasAlerted` | 1 instance, 1 event, 1 edit | `utils/automations.py:513`: a moved event keeps its mark and is never alerted for its new start |
| `RateLimiter!WindowLimit` | `Straddle = TRUE`, limit 1 | `rate_limit.py:79`: a check that began in the last bucket and the checks of the next do not count each other |
| `RateLimiter!TotalLimit` | `Straddle = FALSE`, limit 1 | `rate_limit.py:58`: the fallback of each process counts from nothing |
| `ChatMessages!AnswerKept` | as `chat_messages` | `models/chats.py:554`: a save that read the document before another response saved its answer writes it back without the answer; the other's row follows at its next save. Titles revert in the same way |
| `ChatMessages!WholeAnswerKept` | as `chat_messages` | `utils/middleware.py:3537`: a response that comes as a whole and has no content, raises while it is handled or is stopped leaves its message neither done nor with an error, for ever |
| `ChatMessages!AppendKeepsAnswer` | as `chat_messages` | `socket/main.py:931`: an appending event read the content before the answer was saved and replaces it by what it read |
| `OAuthSessions!OverlapIsHarmless` | 2 requests, 1 session | `utils/oauth.py:1120`: `_refresh_token` is documented "with concurrency protection" (`:1110`) and has none: with a provider that rotates refresh tokens the second of two overlapping refreshes is refused and deletes the session, and the save of the first finds no row |
| `OAuthSessions!AtMostLimit` | as `oauth_sessions` | `utils/oauth.py:1813`: overlapping logins each prune for one newcomer; a listing or delete that fails is passed over (`models/oauth_sessions.py:260, 308`) |

For several of them the condition they lack is known, and under it they are proved for every size (section 6). These
theorems say what would be enough to repair them, and that nothing else is wrong:

| Property | Holds, by theorem | If |
|---|---|---|
| `SocketPools!OnlyMissedReaped`, `OnlyExpiredCleaned`, `ClosedStaysUnused` | `ReapsOnlyMissed`, `CleansOnlyExpired`, `ClosedUnusedStays` | there is one instance: all three are races between processes |
| `CleanupLoop!AtMostOneCleaner` | `MutualExclusion` | the lock outlives a pass and its sleep |
| `YdocDocument!CompactionKeeps`, `ClearedUnused`, `NothingMissed` | `CompactionLosesNothing`, `ClearsUnused`, `NothingIsMissed` | the store is in memory |
| `YdocDocument!NothingMissed`, with Redis | `NothingMissedBelowThreshold` | fewer updates than the threshold are made: clearing alone does not break it, compaction does |
| `AutomationScheduler!ClaimNotStale` | `ClaimsAreFresh` | the database locks rows |
| `AutomationScheduler!WithinLimit` | `LimitOfOneRequest` | creations do not overlap |
| `AutomationScheduler!ClaimedNotDue` | `ClaimedIsAdvanced` | the database locks rows and the local clock shows no hour twice (UTC, for one) |
| `CalendarAlerts!AlertedOnce` | `OnceOnOneInstance` | there is one instance, it does not crash, its marks do not fail, and windows do not change |
| `RateLimiter!WindowLimit` | `LimitHolds`, `LimitHoldsInMemory` | no check lasts into the next bucket, or there is no Redis |
| `RateLimiter!TotalLimit` | `TotalWhileReached`, `TotalOfOne` | Redis is always reached (and no check lasts into the next bucket), or there is one process and no Redis |
| `ChatMessages!AnswerKept`, `AppendKeepsAnswer` | `TurnsKeepAnswer`, `TurnsKeepAppended` | writes of a chat take turns from reading the document to writing it (`AnswerKept` speaks of streamed responses) |
| `OAuthSessions!AtMostLimit` | `LoginsApartKeepLimit` | logins do not overlap, and none fails to list or delete a session |
| `OAuthSessions!OverlapIsHarmless` | `RefreshesApartKeepSession` | refreshes of one session do not overlap |

## 5. Fairness

Fairness is assumed only of what the runtime must do, never of users, failures or restarts that nobody owes.

* `TaskRegistry`, `LocalTasks`, `ChatActivity`: the event loop runs ready callbacks, and cancelled coroutines end (weak
  fairness); a running coroutine may run for ever, except that responses end in `ChatActivity`, where nobody owes a stop or a failure.
* `CleanupLoop`: time passes and a task that is due runs.
* `SocketPools`: a handler goes on (weak); a loop's next step is disabled while a synchronous section of its
  instance runs, again and again, and asyncio resumes tasks in turn: strong fairness.
* `ChatMessages`: a write that has begun, or is due after a stop, goes on (weak fairness); responses, events and stops
  are owed by nobody. `OAuthSessions` has safety properties only.
* `AutomationScheduler`: an instance that stays up polls at jittered intervals, so that the locks of others
  do not coincide with all of its polls: strong fairness of the claim's SELECT. Time passes.
* `CalendarAlerts`: the scheduler loop goes on, and an instance that dies is started again; marks need not succeed.

`ClosedIsReaped` and `ClosedIsUnused` assume that a loop survives somewhere; the finding on the session loop shows
that its default times do not provide that. `DueIsClaimed` assumes an instance that stays up.

## 6. What is proved

For every number of instances, tasks, items, requests and every value of the times and limits:

* `TaskRegistry_proofs`: type correctness and the three safety invariants of `task_registry`, with
  `CancellableIsLocal`. They are not inductive on their own. The strengthening records what suspended coroutines know:
  a task is saved at most once and after its creation; an item's set holds only that item's tasks; a request in the
  middle of a stop has looked up the right item or found the task gone; inboxes hold only published stops.
* `LocalTasks_proofs`: type correctness and `ActiveIsListed`. The invariant adds that no list holds a task twice
  (`ListedOnce`) and that a task's item is set once and for all (`LifeOK`): only then does removing one entry remove
  the task. What the list comprehension of `cleanup_task` keeps is established without `SelectSeq`'s recursive
  definition, from the sequence of positions that stay. For `ChatActivity`: type correctness and `AskersLeave`, that a
  task which asks whether others remain has left the registry itself, and is not put back before it emits.
* `RateLimiter_proofs`: `RefusesRightly` without assumption; `LimitHolds` if no check lasts into the next bucket
  (section 4 shows what happens otherwise). The invariant says that increments are not ahead of the clock and that a
  store still holds all it has allowed in the present window; the count that led to an answer then bounds what is
  allowed in every window the new increment belongs to. `TotalLimit`, over all stores, follows when everything that is
  allowed is counted in one of them; the theorem assumes it of the behaviour (`[]Reached`), not of the constants.
* `SocketPools_proofs`: type correctness and `ClosedNotRevived`, which needs what makes a heartbeat safe: between its
  read and its write it blocks the event loop on which its session's disconnect would run (`BeatsOpen`). On one
  instance (`SoloInv`) at most one handler is between a read and its write, and what it has read is still in the pool,
  so what it writes or deletes is right. For `CleanupLoop`: types, `MutualExclusion` and `LockIsKept` under
  `LockOutlivesSleep`, Sleep + 3 Lag < TTL, the relation the usage loop's defaults satisfy and the session loop's do
  not. The inductive invariant is a budget: at each step of the loop the key lives longer than the loop can still take
  to the step that renews or deletes it.
* `YdocDocument_proofs`: type correctness for both stores; for the store in memory `NothingMissed`, `Bounded` and the
  refinement of `YdocSpec`. The invariant (`MemInv`): one handler at a time is in the store's methods; whoever clears
  the document has seen it without users, and it still is; what a compaction has read is still the list, whose length
  then is the threshold; a session that has fetched the state is in the room and shows, with the state it is about to
  be sent, all that is stored and through. Compaction is a stutter of `YdocSpec` because a squashed list adds up to
  the same updates (`CompactedKeeps`). For either store, `NothingMissed` as long as there are fewer updates than the
  threshold: the list is then never replaced, and a document is cleared under an editor only with updates the editor
  shows.
* `AutomationScheduler_proofs`: type correctness, with the fact that the next run of any rule is an occurrence to
  come; `BoundedOvershoot` on either database (inductive as stated, since it counts rows and creations under way
  together), and `WithinLimit` when there is a single request; `ClaimNotStale` and `ClaimsAdvance` for `Postgres`:
  what a claim has read it has locked, so that it still is what the row says, is due, and is no other claim's; and
  every row is scheduled after its last claim, unless a route has written one it had computed before or the hour repeats;
  where no hour repeats (`NoFold`), `ClaimedNotDue`. For
  `CalendarAlerts`: type correctness and `RepeatsOnlyIfUnmarked` when no user changes an alert window. The alerts an
  event has got and the number of instances that may still alert it (`Alerters`) together stay within the instances
  and the crashes and failed marks (`AlertsCounted`): who alerts an event is about to mark it, and nobody who reads a marked event
  takes it up. `AlertedOnce` on one instance is its case without crashes and failures.
* `ChatMessages_proofs`: type correctness and all but one of its properties, for any number of responses and events.
  `UsageKept` follows from what a partial save may take from a row. `EndsComplete` needs `Tracked`: for each response,
  where it is determines what its message has in the document, in the row and in the write it has under way, unless
  another writer took it (`lost`). `AnswerStays` needs `Guarded`: once a response has saved its answer, every content
  it has read for its filters or is about to write to its own message holds the answer too, or another writer took it.
  If writes take turns, what the one writer has read is still the document (`Current`), and the answer of a streamed
  response that is past its save is in it (`Level`).
* `OAuthSessions_proofs`: type correctness and all four properties, for any number of sessions, requests, logins and
  logouts and any limit. `DroppedOnlyIfHurt` is not inductive: the invariant adds that a session nothing has disturbed
  has at most one request in flight (`SessionOK`), whose token is the provider's newest (`CallOK`), and that the row
  has it otherwise. `LoginAloneKeepsLimit` and `PrunedAreOldest` rest on what a login still has to prune: without it
  there is room for one, and each of it is crowded out by `Limit - 1` others. Of behaviours in which logins, or
  refreshes of a session, never overlap (`[]LoginsApart`, `[]RefreshesApart`), `AtMostLimit` and `OverlapIsHarmless`.

The conditions `[]OneAtATime`, `[]Reached`, `[]LoginsApart` and `[]RefreshesApart` select behaviours of the
specification; they are not enforced by the code, which is what section 4 is about. The only facts about constants
that the theorems assume are the named assumptions of the modules, what the code is configured with (`Postgres`,
`Shared`, `HasRedis`, the times, one instance), and that there are finitely many instances or updates where these are
counted.

Only model-checked: all liveness (the prover has neither fairness nor ENABLED), that is `RegisteredIsDeregistered`,
`DeliveredStopTakesEffect`, `StopReturns`, `ActiveIsCleared`, `CleansAgain`, `TakesOver`, `ClosedIsReaped`,
`ClosedIsUnused`, `DueIsClaimed`, `UpcomingIsAlerted` and `StoppedIsSaved`; and the counterexamples of section 4, of
course. Every invariant and every action property of the passing runs is a theorem.

## 7. Abstractions and assumptions

* Payloads are atoms; ids are never reused (uuid4); access checks, logging and formatting are left out.
* In `TaskRegistry` the Redis commands of creation and cleanup succeed; only the listener's connection fails. A pipeline
  is one MULTI/EXEC; on a Redis Cluster it is not, and its commands may interleave with those of others. A crash
  leaves Redis as it is, and nothing repairs it, so its stale entries are excepted from the liveness properties.
* Redis keeps its data; a fail-over that loses writes or repeats a command is not modelled.
* In `CleanupLoop`, without Redis the lock functions return true in a single process, which needs no model.
* In `SocketPools` rooms, `MODELS` and the variant with plain dictionaries (one process, nothing interleaves within a
  handler) are left out.
* In `YdocDocument` the session's awareness and the debounced save of the note are left out. What a join asks the
  database first is not told apart from the join, except by a disconnect; a late join's room is the disconnected
  session's, so its entering and its state reach nobody.
* In `AutomationScheduler` the database sessions are separate (`DATABASE_ENABLE_SESSION_SHARING` off, the default), one
  user owns the rows, and executions, their records and *run now* are left out: a claim is what an execution starts
  from. There is one local clock: a route takes the requester's time zone and a claim the owner's, which are the same
  unless an administrator edits another user's automation. The hour a clock skips does no harm (an occurrence in it is
  converted to a later instant), so the instances have only the one shown twice.
* In `ChatMessages` these writers are left out: realtime saving (`ENABLE_REALTIME_CHAT_SAVE`, off by default), the
  browser's saves of the whole chat (`routers/chats.py`), the request's save of the user message's `childrenIds`
  (`main.py:1936`), tags, and failures of the database. Statuses, files, embeds, sources, follow-ups, the selected
  model and the title are written but not told apart from the rest of the document. An outlet filter only adds to a
  content (one that removes text, or a *replace* event, takes what it likes), a *replace* event leaves no text, and
  the parsing of model output is left out: text is there or not. The read and the commit of a row
  (`models/chat_messages.py:167, 200`) are one action, although there is an await between them.
* In `OAuthSessions` one user and provider; a listing or a delete may fail, and a row whose token cannot be decrypted, which a
  listing deletes (`models/oauth_sessions.py:251`), does not occur; `created_at` is in whole seconds, and which of
  two sessions of one second the sort puts first is left open. A provider takes only its newest refresh token; one that
  keeps the token, or tolerates the one before for a while, loses fewer sessions. Registration of clients, the
  authorization flow, what is taken over from the provider's claims, and JWTs are left out.
* In `CalendarAlerts` recurring events and attendees are left out, and the webhook changes no state.
* In `RateLimiter` one key is modelled (keys are independent), the fallback of one process is one store, and a
  restarted process is another member of `Instance`.

Not modelled, although it goes wrong (hazards of `PROJECT.json` without a property):

* `config.py`: each assignment of a key starts a task that rewrites the one database row from the process's
  memory, in no order; another instance's memory is as old as its last read of Redis, and overwrites an import. With
  `RESET_CONFIG_ON_START` the row is deleted after the process has loaded its values, so the first save restores
  them. There is no order the code promises and keeps between these writers, so a model would have only
  counterexamples.
* `tokenUsage.ts`: a change during a sync is not scheduled again; records reset on one device come back from
  another. Devices merge once and then overwrite, so nothing holds between two of them.
* `yjs_document_update` (`socket/main.py:726`): the save of a note is debounced by stopping the one before, by document;
  two editors may leave two saves pending, the older of which is written last, and an update without content (a state
  push) cancels a save and starts none.
* The Sentinel proxy, live voice and the Android service: retries below the level of the models, a browser
  component around an external service, and threads on a platform object.

## 8. Plan

Done in this order: task registry, chat activity, cleanup loop, pools, documents, automations, alerts, rate limiter, message
writes and OAuth sessions, each modelled and checked; then the proofs of every safety property of the runs, and of the
statements of section 4 under the conditions they lack. The
set of runs stays small, one per component where safety and liveness can share an instance; a module that follows takes
the place of the runs it subsumes (the composition in 2 those of `chat_activity`). Next:

1. The debounced save of a note, composed with `LocalTasks` (the stop by item) and `YdocDocument`.
2. Composition of `ChatActivity` with `TaskRegistry` (the activity events on the registry's real interleavings).
3. The browser's saves of a whole chat and realtime saving, as further writers of `ChatMessages`.
4. `ConfigStore`, once its saves are ordered; `SentinelProxy` composed with `RedisLock` and the rate limiter.
5. Proofs of what remains of section 4 under a condition: `TaskRegistry!ListTasksActive` and `HasActiveTasks` when saves and
   cleanups of an item do not overlap, `LocalTasks!AllStopped` for a list of one, `ChatActivity!InactiveIsIdle` when
   the requests on a chat follow each other, `CalendarAlerts!SkippedWasAlerted` when events are not moved.
