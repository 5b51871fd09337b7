----------------------------- MODULE OAuthSessions -----------------------------
(***************************************************************************)
(* The server-side OAuth sessions of one user with one provider:            *)
(* backend/open_webui/utils/oauth.py over models/oauth_sessions.py.         *)
(* Requests for a token refresh it at the provider when it is about to      *)
(* expire; callbacks create a session and prune old ones; back-channel      *)
(* logout and the user delete sessions.  Every database statement commits   *)
(* by itself and every step below ends at an await, so handlers of all      *)
(* instances interleave between steps.                                      *)
(*                                                                          *)
(* OAuthManager keeps up to Limit sessions; the callback of                 *)
(* OAuthClientManager, which deletes all sessions before it creates one,    *)
(* is the case Limit = 1, and the two classes refresh in the same way.      *)
(***************************************************************************)
EXTENDS Naturals, FiniteSets

CONSTANTS Session,   \* session ids (uuids), never reused
          Asked,     \* bound: the sessions whose tokens are asked for
          Request,   \* concurrent calls of get_oauth_token
          Handler,   \* concurrent callbacks and back-channel logouts
          Limit,     \* OAUTH_MAX_SESSIONS_PER_USER
          MaxToken,  \* bound: refresh tokens a provider issues per session
          MaxTime,   \* bound: seconds that pass
          Cast       \* bound: the sets of these that may meet

ASSUME SessionAssumption == IsFiniteSet(Session)
ASSUME AskedAssumption == Asked \subseteq Session
ASSUME LimitAssumption == Limit \in Nat \ {0}
ASSUME MaxAssumption == MaxToken \in Nat /\ MaxTime \in Nat

ASSUME CastAssumption == Cast \subseteq SUBSET (Session \cup Request \cup Handler)

VARIABLES
    cast,       \* who takes part, and the ids that are drawn
    row,        \* row[s]: the row of oauth_session, or how it was deleted
    token,      \* token[s]: the refresh token in the row, NoToken if it has none
    bornAt,     \* bornAt[s]: created_at, in whole seconds
    now,        \* the clock
    issued,     \* issued[s]: the provider's newest refresh token; it takes no other
    request,    \* request[r]: where the call r of get_oauth_token is
    handler,    \* handler[h]: where the callback or logout h is
    hurt        \* history: whether refreshes of s overlapped, or one failed

vars == <<cast, row, token, bornAt, now, issued, request, handler, hurt>>

NoToken == 0
FirstToken == 1

\* A row is "dropped" by a failed refresh, "pruned" by a login, "deleted" by
\* a logout or the user.
Gone == {"dropped", "pruned", "deleted"}
RowState == {"none", "live"} \cup Gone
Live == {s \in Session : row[s] = "live"}

\* `with` is the refresh token in the caller's hands: the one it read, then
\* the one it got.
Call == [at: {"read", "got", "refused"}, of: Session, with: Nat]
Idle == [at |-> "idle"]
InFlight(s) == {r \in Request : request[r] # Idle /\ request[r].of = s}

\* `doomed` is still to be deleted; `missed` was not listed, or its delete
\* failed; `alone` while no other login has been between its listing and its end.
Work == [at: {"login", "logout"}, doomed: SUBSET Session, missed: SUBSET Session,
         alone: BOOLEAN]

Init ==
    /\ cast \in Cast
    /\ row = [s \in Session |-> "none"]
    /\ token = [s \in Session |-> NoToken]
    /\ bornAt = [s \in Session |-> 0]
    /\ now = 0
    /\ issued = [s \in Session |-> FirstToken]
    /\ request = [r \in Request |-> Idle]
    /\ handler = [h \in Handler |-> Idle]
    /\ hurt = [s \in Session |-> "no"]
-------------------------------------------------------------------------------
\* get_oauth_token reads a session whose access token is about to expire, or
\* is told to refresh.  (A token that is still good is returned at once.)
Read(r, s) ==
    /\ r \in cast /\ request[r] = Idle /\ row[s] = "live"
    /\ request' = [request EXCEPT ![r] = [at |-> "read", of |-> s, with |-> token[s]]]
    /\ hurt' = [hurt EXCEPT ![s] = IF @ = "no" /\ InFlight(s) # {} THEN "overlap" ELSE @]
    /\ UNCHANGED <<row, token, bornAt, now, issued, handler>>

\* Mutant of Refresh: the old refresh token is kept though a new one came.
RefreshKeepsOld(r) ==
    LET s == request[r].of
    IN /\ request[r].at = "read" /\ request[r].with = issued[s]
       /\ \E new \in {issued[s], issued[s] + 1} :
             /\ new <= MaxToken
             /\ issued' = [issued EXCEPT ![s] = new]
             /\ request' = [request EXCEPT ![r] = [at |-> "got", of |-> s,
                                                   with |-> request[r].with]]
       /\ UNCHANGED <<row, token, bornAt, now, handler, hurt>>

\* The provider takes the refresh token and answers, with a new refresh
\* token or without one: then the old one is kept.
Refresh(r) ==
    LET s == request[r].of
    IN /\ request[r].at = "read" /\ request[r].with = issued[s]
       /\ \E new \in {issued[s], issued[s] + 1} :
             /\ new <= MaxToken
             /\ issued' = [issued EXCEPT ![s] = new]
             /\ request' = [request EXCEPT ![r] = [at |-> "got", of |-> s, with |-> new]]
       /\ UNCHANGED <<row, token, bornAt, now, handler, hurt>>

\* There is no refresh token, or it is not the provider's newest.
Refused(r) ==
    LET s == request[r].of
    IN /\ request[r].at = "read" /\ request[r].with # issued[s]
       /\ request' = [request EXCEPT ![r] = [at |-> "refused", of |-> s,
                                             with |-> NoToken]]
       /\ UNCHANGED <<row, token, bornAt, now, issued, handler, hurt>>

\* The provider cannot be reached or answers with an error, or its answer is
\* lost after it issued a new refresh token: treated as a refusal.
Fails(r) ==
    LET s == request[r].of
    IN /\ request[r].at = "read" /\ request[r].with # NoToken
       /\ \E new \in {issued[s], issued[s] + 1} :
             /\ new <= MaxToken /\ (new # issued[s] => request[r].with = issued[s])
             /\ issued' = [issued EXCEPT ![s] = new]
       /\ request' = [request EXCEPT ![r] = [at |-> "refused", of |-> s,
                                             with |-> NoToken]]
       /\ hurt' = [hurt EXCEPT ![s] = "failure"]
       /\ UNCHANGED <<row, token, bornAt, now, handler>>
-------------------------------------------------------------------------------
\* Mutant of Save: a row that is missing is inserted.
SaveUpsert(r) ==
    LET s == request[r].of
    IN /\ request[r].at = "got"
       /\ row' = [row EXCEPT ![s] = "live"]
       /\ token' = [token EXCEPT ![s] = request[r].with]
       /\ request' = [request EXCEPT ![r] = Idle]
       /\ UNCHANGED <<bornAt, now, issued, handler, hurt>>

\* update_session_by_id.  With the row gone it matches nothing, and the call
\* returns None by way of an exception: the session is not deleted.
Save(r) ==
    LET s == request[r].of
    IN /\ request[r].at = "got"
       /\ token' = [token EXCEPT ![s] = IF row[s] = "live" THEN request[r].with ELSE @]
       /\ request' = [request EXCEPT ![r] = Idle]
       /\ UNCHANGED <<row, bornAt, now, issued, handler, hurt>>

\* The caller is cancelled by a stop of its chat, its instance dies, or its
\* update or delete fails in the database: the token it got is lost.
CutOff(r) ==
    /\ request[r] # Idle
    /\ hurt' = [hurt EXCEPT ![request[r].of] = IF request[r].at = "got"
                                               THEN "failure" ELSE @]
    /\ request' = [request EXCEPT ![r] = Idle]
    /\ UNCHANGED <<row, token, bornAt, now, issued, handler>>

\* The refresh failed: get_oauth_token deletes the session it read.
Drop(r) ==
    LET s == request[r].of
    IN /\ request[r].at = "refused"
       /\ row' = [row EXCEPT ![s] = IF @ = "live" THEN "dropped" ELSE @]
       /\ request' = [request EXCEPT ![r] = Idle]
       /\ UNCHANGED <<token, bornAt, now, issued, handler, hurt>>
-------------------------------------------------------------------------------
\* Mutants of Doomed: the oldest sessions are kept; one session too many is.
DoomedNewest(listed) ==
    LET excess == IF Cardinality(listed) >= Limit THEN Cardinality(listed) - (Limit - 1) ELSE 0
    IN {d \in SUBSET listed :
           /\ Cardinality(d) = excess
           /\ \A s \in d, k \in listed \ d : bornAt[s] >= bornAt[k]}
DoomedLess(listed) ==
    LET excess == IF Cardinality(listed) > Limit THEN Cardinality(listed) - Limit ELSE 0
    IN {d \in SUBSET listed :
           /\ Cardinality(d) = excess
           /\ \A s \in d, k \in listed \ d : bornAt[s] <= bornAt[k]}

\* What a login that listed these sessions prunes: all but the Limit - 1
\* newest.  Which of two sessions of one second is newer, the sort leaves open.
Doomed(listed) ==
    LET excess == IF Cardinality(listed) >= Limit THEN Cardinality(listed) - (Limit - 1) ELSE 0
    IN {d \in SUBSET listed :
           /\ Cardinality(d) = excess
           /\ \A s \in d, k \in listed \ d : bornAt[s] <= bornAt[k]}

LoggingIn(h) == handler[h] # Idle /\ handler[h].at = "login"

\* handle_callback lists the user's sessions, or none if the query fails, and
\* chooses those to prune.
LoginLists(h) ==
    LET others == {g \in Handler : LoggingIn(g)}
    IN /\ h \in cast /\ handler[h] = Idle
       /\ \E s \in Session \cap cast : row[s] = "none"
       /\ \E listed \in {Live, {}} : \E d \in Doomed(listed) :
             handler' = [g \in Handler |->
                IF g = h THEN [at |-> "login", doomed |-> d, missed |-> Live \ listed,
                               alone |-> others = {}]
                ELSE IF g \in others THEN [handler[g] EXCEPT !.alone = FALSE]
                ELSE handler[g]]
       /\ UNCHANGED <<row, token, bornAt, now, issued, request, hurt>>

\* A back-channel logout lists the user's sessions, all to be deleted.
LogoutLists(h) ==
    /\ h \in cast /\ handler[h] = Idle
    /\ Live # {}
    /\ handler' = [handler EXCEPT ![h] = [at |-> "logout", doomed |-> Live, missed |-> {},
                                            alone |-> FALSE]]
    /\ UNCHANGED <<row, token, bornAt, now, issued, request, hurt>>

\* One delete_session_by_id of either; of a row that is gone it deletes nothing.
Delete(h, s) ==
    /\ handler[h] # Idle /\ s \in handler[h].doomed
    /\ row' = [row EXCEPT ![s] = IF @ # "live" THEN @
                                 ELSE IF LoggingIn(h) THEN "pruned" ELSE "deleted"]
    /\ handler' = [handler EXCEPT ![h].doomed = @ \ {s}]
    /\ UNCHANGED <<token, bornAt, now, issued, request, hurt>>

\* It fails: the exception is logged, and the handler goes on.
DeleteFails(h, s) ==
    /\ handler[h] # Idle /\ s \in handler[h].doomed
    /\ handler' = [handler EXCEPT ![h].doomed = @ \ {s}, ![h].missed = @ \cup {s}]
    /\ UNCHANGED <<row, token, bornAt, now, issued, request, hurt>>

FirstTokens(s) == IF s \in Asked THEN {NoToken, FirstToken} ELSE {NoToken}

\* create_session, with a refresh token or without.  (The tokens of sessions
\* that are never asked for are left out.)
Create(h, s) ==
    /\ LoggingIn(h) /\ handler[h].doomed = {}
    /\ s \in cast /\ row[s] = "none"
    /\ row' = [row EXCEPT ![s] = "live"]
    /\ \E t \in FirstTokens(s) : token' = [token EXCEPT ![s] = t]
    /\ bornAt' = [bornAt EXCEPT ![s] = now]
    /\ handler' = [handler EXCEPT ![h] = Idle]
    /\ UNCHANGED <<now, issued, request, hurt>>

\* A logout has deleted what it listed, or a handler is cut off half-way.
HandlerEnds(h) ==
    /\ handler[h] # Idle
    /\ handler' = [handler EXCEPT ![h] = Idle]
    /\ UNCHANGED <<row, token, bornAt, now, issued, request, hurt>>

\* The user disconnects the provider: one DELETE statement.
Disconnect ==
    /\ Live # {}
    /\ row' = [s \in Session |-> IF row[s] = "live" THEN "deleted" ELSE row[s]]
    /\ UNCHANGED <<token, bornAt, now, issued, request, handler, hurt>>

Tick ==
    /\ now < MaxTime
    /\ now' = now + 1
    /\ UNCHANGED <<row, token, bornAt, issued, request, handler, hurt>>
-------------------------------------------------------------------------------
Next ==
    /\ \/ \E r \in Request : \/ \E s \in Asked : Read(r, s)
                             \/ Refresh(r) \/ Refused(r) \/ Fails(r)
                             \/ Save(r) \/ CutOff(r) \/ Drop(r)
       \/ \E h \in Handler : \/ LoginLists(h) \/ LogoutLists(h) \/ HandlerEnds(h)
                             \/ \E s \in Session : Delete(h, s) \/ DeleteFails(h, s)
                                                   \/ Create(h, s)
       \/ Disconnect
       \/ Tick
    /\ UNCHANGED cast

Spec == Init /\ [][Next]_vars
-------------------------------------------------------------------------------
\* The type invariant.  A handler that has ended leaves nothing to delete.
TypeOK ==
    /\ cast \in Cast
    /\ row \in [Session -> RowState]
    /\ token \in [Session -> Nat]
    /\ bornAt \in [Session -> Nat]
    /\ now \in Nat
    /\ issued \in [Session -> Nat]
    /\ request \in [Request -> Call \cup {Idle}]
    /\ handler \in [Handler -> Work \cup {Idle}]
    /\ hurt \in [Session -> {"no", "overlap", "failure"}]

\* A session that has a refresh token, whose refreshes never overlapped, never
\* failed at the provider and were never cut off, is not dropped: what the
\* row holds between refreshes is what the provider will take next.
DroppedOnlyIfHurt ==
    \A s \in Session : row[s] = "dropped" => hurt[s] # "no" \/ token[s] = NoToken

\* A login prunes a session only if Limit - 1 others are at least as new.
PrunedAreOldest ==
    \A s \in Session : row[s] = "pruned" =>
        Cardinality({k \in Session \ {s} : row[k] # "none" /\ bornAt[k] >= bornAt[s]})
            >= Limit - 1

\* A session that was deleted never comes back, whatever refresh of it was in
\* flight: the save of a refresh updates the row and does not insert it.
GoneForGood ==
    [][\A s \in Session : row[s] \in Gone => row'[s] = row[s]]_vars

\* handle_callback: "Enforce max concurrent sessions per user/provider".  A
\* login that no other login overlaps leaves at most Limit sessions besides
\* those it failed to list or to delete, however many more than Limit overlapping
\* or failing logins before it had left.
LoginAloneKeepsLimit ==
    [][\A h \in Handler :
          LoggingIn(h) /\ handler[h].alone /\ Live' \ Live # {} /\ handler'[h] = Idle
          => Cardinality(Live' \ handler[h].missed) <= Limit]_vars
-------------------------------------------------------------------------------
(* Said of the code and not kept by it: see section 4 of the README.      *)

\* _refresh_token: "Refresh an OAuth token if needed, with concurrency
\* protection."  Overlapping refreshes of one session do not lose it.
OverlapIsHarmless ==
    \A s \in Session : row[s] = "dropped" => hurt[s] = "failure" \/ token[s] = NoToken

\* handle_callback: "Enforce max concurrent sessions per user/provider".
AtMostLimit == Cardinality(Live) <= Limit
===============================================================================
