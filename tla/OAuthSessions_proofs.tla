-------------------------- MODULE OAuthSessions_proofs --------------------------
(***************************************************************************)
(* Proofs about OAuthSessions for any number of sessions, requests and      *)
(* handlers and any Limit; the last part is about behaviours in which       *)
(* logins, or the refreshes of a session, do not overlap.                   *)
(***************************************************************************)
EXTENDS OAuthSessions, FiniteSetTheorems, TLAPS

\* What a request in flight knows: its session was created; it holds a refresh
\* token if and only if the session has one; as long as nothing disturbed the
\* session that token is the provider's newest.
CallOK(r) ==
    LET s == request[r].of
        holds == request[r].at \in {"read", "got"}
    IN request[r] # Idle =>
          /\ row[s] # "none"
          /\ holds => (request[r].with = NoToken <=> token[s] = NoToken)
          /\ holds /\ hurt[s] = "no" /\ request[r].with # NoToken => request[r].with = issued[s]
          /\ request[r].at = "got" => request[r].with # NoToken
          /\ request[r].at = "refused" => hurt[s] # "no" \/ token[s] = NoToken

Of(r, s) == request[r] # Idle /\ request[r].of = s

\* What is known of a session: while nothing disturbed it at most one request
\* is refreshing it, and unless that one holds a token it has yet to save, the
\* row has the provider's newest.
SessionOK(s) ==
    /\ issued[s] # NoToken
    /\ row[s] = "none" => issued[s] = FirstToken
    /\ hurt[s] = "no" => \A r, q \in Request : Of(r, s) /\ Of(q, s) => r = q
    /\ row[s] = "live" /\ hurt[s] = "no" /\ token[s] # NoToken
          /\ (\A r \in Request : Of(r, s) => request[r].at # "got") => token[s] = issued[s]
    /\ row[s] = "dropped" => hurt[s] # "no" \/ token[s] = NoToken

IInv == TypeOK /\ (\A r \in Request : CallOK(r)) /\ (\A s \in Session : SessionOK(s))

-------------------------------------------------------------------------------
\* A request past its read holds a record of a call; one that reads is idle.
LEMMA InCall ==
    ASSUME TypeOK, NEW r \in Request, request[r] # Idle
    PROVE  request[r] \in Call
BY DEF TypeOK

LEMMA InWork ==
    ASSUME TypeOK, NEW h \in Handler, handler[h] # Idle
    PROVE  handler[h] \in Work
BY DEF TypeOK

\* The login h listed these sessions and chose to prune d of them.
Lists(h, listed, d) ==
    LET others == {g \in Handler : LoggingIn(g)}
    IN handler' = [g \in Handler |->
                IF g = h THEN [at |-> "login", doomed |-> d, missed |-> Live \ listed,
                               alone |-> others = {}]
                ELSE IF g \in others THEN [handler[g] EXCEPT !.alone = FALSE]
                ELSE handler[g]]

\* The steps of a request keep the types.
LEMMA RequestType ==
    ASSUME TypeOK, UNCHANGED cast, NEW r \in Request,
           \/ \E s \in Asked : Read(r, s)
           \/ Refresh(r) \/ Refused(r) \/ Fails(r) \/ Save(r) \/ CutOff(r) \/ Drop(r)
    PROVE  TypeOK'
<1> USE AskedAssumption
<1> DEFINE s == request[r].of
<1>a. request[r] # Idle => s \in Session /\ request[r].with \in Nat
  BY InCall DEF Call
<1>b. NoToken \in Nat /\ \A u \in Session : issued[u] + 1 \in Nat
  BY DEF NoToken, TypeOK
<1>c. \A c \in Call \cup {Idle} : [request EXCEPT ![r] = c] \in [Request -> Call \cup {Idle}]
  BY DEF TypeOK
<1>d. \A at \in {"read", "got", "refused"}, u \in Session, w \in Nat :
         [at |-> at, of |-> u, with |-> w] \in Call
  BY DEF Call
<1>1. ASSUME NEW u \in Asked, Read(r, u) PROVE TypeOK'
  <2>1. request' \in [Request -> Call \cup {Idle}]
    BY <1>1, <1>c, <1>d DEF Read, TypeOK
  <2> QED BY <1>1, <2>1 DEF Read, TypeOK
<1>2. CASE Refresh(r)
  <2>0. request[r] # Idle
    BY <1>2 DEF Refresh, Idle
  <2>1. PICK new \in {issued[s], issued[s] + 1} :
           /\ issued' = [issued EXCEPT ![s] = new]
           /\ request' = [request EXCEPT ![r] = [at |-> "got", of |-> s, with |-> new]]
    BY <1>2 DEF Refresh
  <2>2. new \in Nat
    BY <2>0, <1>a, <1>b DEF TypeOK
  <2>3. [at |-> "got", of |-> s, with |-> new] \in Call
    BY <2>0, <2>2, <1>a, <1>d
  <2>4. request' \in [Request -> Call \cup {Idle}] /\ issued' \in [Session -> Nat]
    BY <2>1, <2>2, <2>3, <1>c DEF TypeOK
  <2> QED BY <1>2, <2>4 DEF Refresh, TypeOK
<1>3. CASE Refused(r)
  <2>0. request[r] # Idle
    BY <1>3 DEF Refused, Idle
  <2>1. request' \in [Request -> Call \cup {Idle}]
    BY <1>3, <2>0, <1>a, <1>b, <1>c, <1>d DEF Refused
  <2> QED BY <1>3, <2>1 DEF Refused, TypeOK
<1>4. CASE Fails(r)
  <2>0. request[r] # Idle
    BY <1>4 DEF Fails, Idle
  <2>1. request' \in [Request -> Call \cup {Idle}]
    BY <1>4, <2>0, <1>a, <1>b, <1>c, <1>d DEF Fails
  <2>2. PICK new \in {issued[s], issued[s] + 1} : issued' = [issued EXCEPT ![s] = new]
    BY <1>4 DEF Fails
  <2>3. issued' \in [Session -> Nat]
    BY <2>0, <2>2, <1>a, <1>b DEF TypeOK
  <2> QED BY <1>4, <2>1, <2>3 DEF Fails, TypeOK
<1>5. CASE Save(r)
  <2>0. request[r] # Idle
    BY <1>5 DEF Save, Idle
  <2>1. token' \in [Session -> Nat]
    BY <1>5, <2>0, <1>a DEF Save, TypeOK
  <2> QED BY <1>5, <2>1, <1>c DEF Save, TypeOK
<1>6. CASE CutOff(r)
  BY <1>6, <1>c DEF CutOff, TypeOK
<1>7. CASE Drop(r)
  BY <1>7, <1>c DEF Drop, TypeOK, RowState, Gone
<1> QED BY <1>1, <1>2, <1>3, <1>4, <1>5, <1>6, <1>7

\* The steps of callbacks and logouts, and of the environment, keep the types.
LEMMA HandlerType ==
    ASSUME TypeOK, UNCHANGED cast,
           \/ \E h \in Handler :
                 \/ LoginLists(h) \/ LogoutLists(h) \/ HandlerEnds(h)
                 \/ \E s \in Session : Delete(h, s) \/ DeleteFails(h, s) \/ Create(h, s)
           \/ Disconnect \/ Tick
    PROVE  TypeOK'
<1>1. ASSUME NEW h \in Handler, LoginLists(h) PROVE TypeOK'
  <2> DEFINE others == {g \in Handler : LoggingIn(g)}
  <2>l. PICK listed \in {Live, {}} : \E d \in Doomed(listed) : Lists(h, listed, d)
    BY <1>1 DEF LoginLists, Lists
  <2>d. PICK d \in Doomed(listed) : Lists(h, listed, d)
    BY <2>l
  <2>1. handler' = [g \in Handler |->
                IF g = h THEN [at |-> "login", doomed |-> d, missed |-> Live \ listed,
                               alone |-> others = {}]
                ELSE IF g \in others THEN [handler[g] EXCEPT !.alone = FALSE]
                ELSE handler[g]]
    BY <2>d DEF Lists
  <2>2. [at |-> "login", doomed |-> d, missed |-> Live \ listed, alone |-> others = {}] \in Work
    BY DEF Work, Doomed, Live
  <2>3. ASSUME NEW g \in others PROVE [handler[g] EXCEPT !.alone = FALSE] \in Work
    BY <2>3, InWork DEF LoggingIn, Work
  <2>4. handler' \in [Handler -> Work \cup {Idle}]
    BY <2>1, <2>2, <2>3 DEF TypeOK
  <2> QED BY <1>1, <2>4 DEF LoginLists, TypeOK
<1>2. ASSUME NEW h \in Handler, LogoutLists(h) PROVE TypeOK'
  <2>1. [at |-> "logout", doomed |-> Live, missed |-> {}, alone |-> FALSE] \in Work
    BY DEF Work, Live
  <2> QED BY <1>2, <2>1 DEF LogoutLists, TypeOK
<1>3. ASSUME NEW h \in Handler, HandlerEnds(h) PROVE TypeOK'
  BY <1>3 DEF HandlerEnds, TypeOK
<1>4. ASSUME NEW h \in Handler, NEW s \in Session, Delete(h, s) PROVE TypeOK'
  <2>1. handler[h] \in Work
    BY <1>4, InWork DEF Delete
  <2>2. [handler[h] EXCEPT !.doomed = @ \ {s}] \in Work
    BY <2>1 DEF Work
  <2>3. handler' = [handler EXCEPT ![h] = [handler[h] EXCEPT !.doomed = @ \ {s}]]
    BY <1>4 DEF Delete
  <2>4. handler' \in [Handler -> Work \cup {Idle}]
    BY <2>2, <2>3 DEF TypeOK
  <2>5. row' \in [Session -> RowState]
    BY <1>4 DEF Delete, TypeOK, RowState, Gone
  <2> QED BY <1>4, <2>4, <2>5 DEF Delete, TypeOK
<1>5. ASSUME NEW h \in Handler, NEW s \in Session, Create(h, s) PROVE TypeOK'
  <2>1. FirstTokens(s) \subseteq Nat
    BY DEF FirstTokens, NoToken, FirstToken
  <2> QED BY <1>5, <2>1 DEF Create, TypeOK, RowState
<1>6. CASE Disconnect
  BY <1>6 DEF Disconnect, TypeOK, RowState, Gone
<1>7. CASE Tick
  BY <1>7 DEF Tick, TypeOK
<1>8. ASSUME NEW h \in Handler, NEW s \in Session, DeleteFails(h, s) PROVE TypeOK'
  <2>1. handler[h] \in Work
    BY <1>8, InWork DEF DeleteFails
  <2>2. [handler[h] EXCEPT !.doomed = @ \ {s}, !.missed = @ \cup {s}] \in Work
    BY <2>1 DEF Work
  <2>3. handler' = [handler EXCEPT ![h] = [handler[h] EXCEPT !.doomed = @ \ {s},
                                                            !.missed = @ \cup {s}]]
    BY <1>8 DEF DeleteFails
  <2>4. handler' \in [Handler -> Work \cup {Idle}]
    BY <2>2, <2>3 DEF TypeOK
  <2> QED BY <1>8, <2>4 DEF DeleteFails, TypeOK
<1> QED BY <1>1, <1>2, <1>3, <1>4, <1>5, <1>6, <1>7, <1>8

LEMMA StepType ==
    ASSUME TypeOK, [Next]_vars
    PROVE  TypeOK'
<1>1. CASE UNCHANGED vars
  BY <1>1 DEF vars, TypeOK
<1>2. CASE Next
  BY <1>2, RequestType, HandlerType DEF Next
<1> QED BY <1>1, <1>2

LEMMA InitType == Init => TypeOK
BY DEF Init, TypeOK, RowState, NoToken, FirstToken

\* The variables keep their types whatever overlaps, fails or is cut off.
THEOREM TypeCorrect == Spec => []TypeOK
BY InitType, StepType, PTL DEF Spec
-------------------------------------------------------------------------------
\* A step that changes no request and neither tokens nor the history, and
\* creates no session, disturbs what is known only where it deletes.
LEMMA OtherStep ==
    ASSUME IInv, TypeOK',
           UNCHANGED <<token, issued, request, hurt>>,
           \A s \in Session : row'[s] # row[s] => row[s] = "live" /\ row'[s] \in {"pruned", "deleted"}
    PROVE  IInv'
<1>1. ASSUME NEW r \in Request PROVE CallOK(r)'
  <2>1. request[r] # Idle => request[r].of \in Session
    BY InCall DEF IInv, Call
  <2> QED BY <2>1 DEF IInv, CallOK
<1>2. ASSUME NEW s \in Session PROVE SessionOK(s)'
  BY DEF IInv, SessionOK, Of
<1> QED BY <1>1, <1>2 DEF IInv

LEMMA CreateStep ==
    ASSUME IInv, TypeOK', NEW h \in Handler, NEW s \in Session, Create(h, s)
    PROVE  IInv'
<1>1. \A r \in Request : ~ Of(r, s)
  BY DEF Create, IInv, CallOK, Of
<1>2. PICK t \in {NoToken, FirstToken} : token' = [token EXCEPT ![s] = t]
  BY DEF Create, FirstTokens
<1>3. row[s] = "none" /\ row' = [row EXCEPT ![s] = "live"] /\ UNCHANGED <<issued, request, hurt>>
  BY DEF Create
<1>4. ASSUME NEW r \in Request PROVE CallOK(r)'
  <2>1. request[r] # Idle => request[r].of \in Session \ {s}
    BY <1>1, InCall DEF IInv, Call, Of
  <2> QED BY <2>1, <1>2, <1>3 DEF IInv, TypeOK, CallOK
<1>5. ASSUME NEW u \in Session PROVE SessionOK(u)'
  BY <1>2, <1>3 DEF IInv, TypeOK, SessionOK, Of
<1> QED BY <1>4, <1>5 DEF IInv

LEMMA ReadStep ==
    ASSUME IInv, TypeOK', NEW r \in Request, NEW s \in Session, Read(r, s)
    PROVE  IInv'
<1> DEFINE call == [at |-> "read", of |-> s, with |-> token[s]]
<1>1. /\ request[r] = Idle /\ row[s] = "live" /\ request' = [request EXCEPT ![r] = call]
      /\ UNCHANGED <<row, token, issued>>
  BY DEF Read
<1>2. call # Idle /\ call.at = "read" /\ call.of = s /\ call.with = token[s]
  BY DEF Idle
<1>3. /\ \A u \in Session \ {s} : hurt'[u] = hurt[u]
      /\ hurt'[s] = "no" => hurt[s] = "no" /\ \A q \in Request : ~ Of(q, s)
      /\ hurt[s] # "no" => hurt'[s] # "no"
  BY DEF Read, InFlight, Of, IInv, TypeOK
<1>4. /\ request'[r] = call
      /\ \A q \in Request \ {r} : request'[q] = request[q]
  BY <1>1 DEF IInv, TypeOK
<1>5. ASSUME NEW q \in Request PROVE CallOK(q)'
  <2>1. CASE q = r
    <3>1. SessionOK(s)
      BY DEF IInv
    <3>2. hurt'[s] = "no" /\ token[s] # NoToken => token[s] = issued[s]
      BY <3>1, <1>1, <1>3 DEF SessionOK
    <3> QED BY <2>1, <3>2, <1>1, <1>2, <1>4 DEF CallOK
  <2>2. CASE q # r
    <3>1. CallOK(q) /\ (request[q] # Idle => request[q].of \in Session)
      BY InCall DEF IInv, Call
    <3>2. request[q] # Idle => (hurt'[request[q].of] = "no" => hurt[request[q].of] = "no")
      BY <3>1, <1>3
    <3>3. request[q] # Idle => (hurt[request[q].of] # "no" => hurt'[request[q].of] # "no")
      BY <3>1, <1>3
    <3> QED BY <2>2, <3>1, <3>2, <3>3, <1>1, <1>4 DEF CallOK
  <2> QED BY <2>1, <2>2
<1>6. ASSUME NEW u \in Session PROVE SessionOK(u)'
  <2>1. SessionOK(u)
    BY DEF IInv
  <2>2. \A q \in Request : Of(q, u)' => Of(q, u) \/ q = r
    BY <1>4 DEF Of
  <2>3. \A q \in Request : Of(q, u) => Of(q, u)' /\ request'[q] = request[q]
    BY <1>1, <1>4 DEF Of
  <2>4. u # s => ~ Of(r, u)'
    BY <1>2, <1>4 DEF Of
  <2>5. CASE u = s
    BY <2>1, <2>2, <2>3, <2>5, <1>1, <1>3 DEF SessionOK
  <2>6. CASE u # s
    BY <2>1, <2>2, <2>3, <2>4, <2>6, <1>1, <1>3 DEF SessionOK
  <2> QED BY <2>5, <2>6
<1> QED BY <1>5, <1>6 DEF IInv

\* A step of a request that touches only its own session, and leaves it and the
\* request as the invariant wants them, is harmless to all others: a session
\* that nothing has disturbed has no other request in flight.
LEMMA OwnStep ==
    ASSUME IInv, TypeOK', NEW r \in Request, NEW s \in Session, Of(r, s),
           \A q \in Request \ {r} : request'[q] = request[q],
           request'[r] = Idle \/ Of(r, s)',
           \A u \in Session \ {s} : /\ row'[u] = row[u] /\ token'[u] = token[u]
                                    /\ issued'[u] = issued[u] /\ hurt'[u] = hurt[u],
           row'[s] = row[s] \/ (row[s] = "live" /\ row'[s] = "dropped"),
           hurt[s] # "no" => hurt'[s] # "no",
           token'[s] = NoToken <=> token[s] = NoToken,
           issued'[s] # NoToken,
           CallOK(r)',
           row'[s] = "live" /\ hurt'[s] = "no" /\ token'[s] # NoToken
              /\ (Of(r, s)' => request'[r].at # "got") => token'[s] = issued'[s],
           row'[s] = "dropped" => hurt'[s] # "no" \/ token'[s] = NoToken
    PROVE  IInv'
<1>1. CallOK(r) /\ SessionOK(s) /\ row[s] # "none"
  BY DEF IInv, CallOK, Of
<1>2. ASSUME NEW q \in Request \ {r} PROVE CallOK(q)'
  <2>1. CallOK(q) /\ request'[q] = request[q] /\ (request[q] # Idle => request[q].of \in Session)
    BY InCall DEF IInv, Call
  <2>2. CASE Of(q, s)
    <3>1. hurt'[s] # "no"
      BY <1>1, <2>2 DEF SessionOK
    <3> QED BY <2>1, <2>2, <3>1, <1>1 DEF CallOK, Of
  <2>3. CASE ~ Of(q, s)
    BY <2>1, <2>3 DEF CallOK, Of
  <2> QED BY <2>2, <2>3
<1>3. \A q \in Request, u \in Session : Of(q, u)' => Of(q, u)
  BY DEF Of
<1>4. ASSUME NEW u \in Session \ {s} PROVE SessionOK(u)'
  <2>1. SessionOK(u)
    BY DEF IInv
  <2>2. \A q \in Request : Of(q, u) => Of(q, u)' /\ request'[q] = request[q]
    BY DEF Of
  <2> QED BY <2>1, <2>2, <1>3 DEF SessionOK
<1>5. SessionOK(s)'
  <2>1. hurt'[s] = "no" => \A p, q \in Request : Of(p, s)' /\ Of(q, s)' => p = q
    BY <1>1, <1>3 DEF SessionOK
  <2>2. row'[s] # "none"
    BY <1>1
  <2> QED BY <2>1, <2>2 DEF SessionOK
<1> QED BY <1>2, <1>4, <1>5 DEF IInv

\* What CallOK and SessionOK say of a request in flight and of its session.
LEMMA InFlightFacts ==
    ASSUME IInv, NEW r \in Request, request[r] # Idle
    PROVE  /\ request[r].of \in Session /\ request[r].with \in Nat
           /\ Of(r, request[r].of) /\ CallOK(r) /\ SessionOK(request[r].of)
BY InCall DEF IInv, Call, Of

\* Each step of a request preserves the invariant.
LEMMA RequestStep ==
    ASSUME IInv, TypeOK', NEW r \in Request,
           Refresh(r) \/ Refused(r) \/ Fails(r) \/ Save(r) \/ CutOff(r) \/ Drop(r)
    PROVE  IInv'
<1>0. request[r] # Idle
  BY DEF Refresh, Refused, Fails, Save, CutOff, Drop, Idle
<1>s. PICK s \in Session : s = request[r].of
  BY <1>0, InFlightFacts
<1>a. /\ s \in Session /\ request[r].with \in Nat /\ Of(r, s) /\ CallOK(r) /\ SessionOK(s)
      /\ TypeOK /\ request[r].of = s
  BY <1>0, <1>s, InFlightFacts DEF IInv
<1>b. \A u \in Session : issued[u] + 1 # NoToken
  BY <1>a DEF TypeOK, NoToken
<1> DEFINE Others ==
       /\ \A q \in Request \ {r} : request'[q] = request[q]
       /\ \A u \in Session \ {s} : /\ row'[u] = row[u] /\ token'[u] = token[u]
                                /\ issued'[u] = issued[u] /\ hurt'[u] = hurt[u]
    Row == row'[s] = row[s] \/ (row[s] = "live" /\ row'[s] = "dropped")
    Changes == /\ hurt[s] # "no" => hurt'[s] # "no"
               /\ token'[s] = NoToken <=> token[s] = NoToken
               /\ issued'[s] # NoToken
    Kept == row'[s] = "live" /\ hurt'[s] = "no" /\ token'[s] # NoToken
               /\ (Of(r, s)' => request'[r].at # "got") => token'[s] = issued'[s]
    Dropped == row'[s] = "dropped" => hurt'[s] # "no" \/ token'[s] = NoToken
<1>c. ASSUME request'[r] = Idle \/ Of(r, s)', CallOK(r)', Others, Row, Changes, Kept, Dropped
      PROVE  IInv'
  BY <1>a, <1>c, OwnStep
<1>1. CASE Refresh(r)
  <2>1. PICK new \in {issued[s], issued[s] + 1} :
           /\ issued' = [issued EXCEPT ![s] = new]
           /\ request' = [request EXCEPT ![r] = [at |-> "got", of |-> s, with |-> new]]
    BY <1>1, <1>a DEF Refresh
  <2>2. /\ request[r].at = "read" /\ request[r].with = issued[s] /\ request[r].of = s
        /\ UNCHANGED <<row, token, hurt>>
    BY <1>1, <1>a DEF Refresh
  <2>3. new # NoToken
    BY <1>a, <1>b, <2>1 DEF SessionOK
  <2>4. /\ issued'[s] = new
        /\ request'[r] # Idle
        /\ request'[r].at = "got" /\ request'[r].of = s /\ request'[r].with = new
    BY <1>a, <2>1 DEF TypeOK, Idle
  <2>5. token[s] # NoToken
    BY <1>0, <1>a, <2>2 DEF CallOK, SessionOK
  <2>6. CallOK(r)' /\ Of(r, s)'
    BY <1>0, <1>a, <2>2, <2>3, <2>4, <2>5 DEF CallOK, Of
  <2>7. Others
    BY <1>a, <2>1, <2>2 DEF TypeOK
  <2>8. Row /\ Changes
    BY <1>a, <2>1, <2>2, <2>3, <2>4, <2>6 DEF SessionOK
  <2>9. Kept /\ Dropped
    BY <1>a, <2>1, <2>2, <2>3, <2>4, <2>6 DEF SessionOK, Of
  <2> QED BY <2>2, <2>4, <2>6, <2>7, <2>8, <2>9, <1>c
<1>2. CASE Refused(r)
  <2>1. request' = [request EXCEPT ![r] = [at |-> "refused", of |-> s, with |-> NoToken]]
    BY <1>2, <1>a DEF Refused
  <2>2. /\ request[r].at = "read" /\ request[r].with # issued[s] /\ request[r].of = s
        /\ UNCHANGED <<row, token, issued, hurt>>
    BY <1>2, <1>a DEF Refused
  <2>3. hurt[s] # "no" \/ token[s] = NoToken
    BY <1>0, <1>a, <2>2 DEF CallOK
  <2>4. /\ request'[r] # Idle
        /\ request'[r].at = "refused" /\ request'[r].of = s
    BY <1>a, <2>1 DEF TypeOK, Idle
  <2>5. CallOK(r)' /\ Of(r, s)'
    BY <1>0, <1>a, <2>2, <2>3, <2>4 DEF CallOK, Of
  <2>7. Others
    BY <1>a, <2>1, <2>2 DEF TypeOK
  <2>8. Row /\ Changes
    BY <1>a, <2>1, <2>2, <2>3, <2>4, <2>5 DEF SessionOK
  <2>9. Kept /\ Dropped
    BY <1>a, <2>1, <2>2, <2>3, <2>4, <2>5 DEF SessionOK, Of
  <2> QED BY <2>2, <2>4, <2>5, <2>7, <2>8, <2>9, <1>c
<1>3. CASE Fails(r)
  <2>1. PICK new \in {issued[s], issued[s] + 1} : issued' = [issued EXCEPT ![s] = new]
    BY <1>3, <1>a DEF Fails
  <2>2. /\ request[r].at = "read" /\ request[r].of = s /\ UNCHANGED <<row, token>>
        /\ hurt' = [hurt EXCEPT ![s] = "failure"]
        /\ request' = [request EXCEPT ![r] = [at |-> "refused", of |-> s, with |-> NoToken]]
    BY <1>3, <1>a DEF Fails
  <2>3. issued'[s] # NoToken /\ hurt'[s] = "failure"
    BY <1>a, <1>b, <2>1, <2>2 DEF SessionOK, TypeOK
  <2>4. /\ request'[r] # Idle
        /\ request'[r].at = "refused" /\ request'[r].of = s
    BY <1>a, <2>2 DEF TypeOK, Idle
  <2>5. CallOK(r)' /\ Of(r, s)'
    BY <1>0, <1>a, <2>2, <2>3, <2>4 DEF CallOK, Of
  <2>7. Others
    BY <1>a, <2>1, <2>2 DEF TypeOK
  <2>8. Row /\ Changes
    BY <1>a, <2>1, <2>2, <2>3, <2>4, <2>5 DEF SessionOK
  <2>9. Kept /\ Dropped
    BY <1>a, <2>1, <2>2, <2>3, <2>4, <2>5 DEF SessionOK, Of
  <2> QED BY <2>2, <2>4, <2>5, <2>7, <2>8, <2>9, <1>c
<1>4. CASE Save(r)
  <2>1. /\ token' = [token EXCEPT ![s] = IF row[s] = "live" THEN request[r].with ELSE @]
        /\ request[r].at = "got" /\ request[r].of = s
        /\ request' = [request EXCEPT ![r] = Idle] /\ UNCHANGED <<row, issued, hurt>>
    BY <1>4, <1>a DEF Save
  <2>2. /\ request'[r] = Idle
        /\ token'[s] = IF row[s] = "live" THEN request[r].with ELSE token[s]
    BY <1>a, <2>1 DEF TypeOK
  <2>3. request[r].with # NoToken /\ token[s] # NoToken
    BY <1>0, <1>a, <2>1 DEF CallOK
  <2>4. hurt[s] = "no" => request[r].with = issued[s]
    BY <1>0, <1>a, <2>1, <2>3 DEF CallOK
  <2>5. CallOK(r)' /\ ~ Of(r, s)'
    BY <2>2 DEF CallOK, Of
  <2>7. Others
    BY <1>a, <2>1, <2>2 DEF TypeOK
  <2>8. Row /\ Changes
    BY <1>a, <2>1, <2>2, <2>3, <2>4, <2>5 DEF SessionOK
  <2>9. Kept /\ Dropped
    BY <1>a, <2>1, <2>2, <2>3, <2>4, <2>5 DEF SessionOK, Of
  <2> QED BY <2>2, <2>4, <2>5, <2>7, <2>8, <2>9, <1>c
<1>5. CASE CutOff(r)
  <2>1. /\ hurt' = [hurt EXCEPT ![s] = IF request[r].at = "got" THEN "failure" ELSE @]
        /\ request' = [request EXCEPT ![r] = Idle] /\ UNCHANGED <<row, token, issued>>
    BY <1>5, <1>a DEF CutOff
  <2>2. /\ request'[r] = Idle
        /\ hurt'[s] = IF request[r].at = "got" THEN "failure" ELSE hurt[s]
    BY <1>a, <2>1 DEF TypeOK
  <2>3. CallOK(r)' /\ ~ Of(r, s)'
    BY <2>2 DEF CallOK, Of
  <2>4. hurt'[s] = "no" => hurt[s] = "no" /\ \A q \in Request : Of(q, s) => request[q].at # "got"
    BY <1>a, <2>2 DEF SessionOK
  <2>7. Others
    BY <1>a, <2>1, <2>2 DEF TypeOK
  <2>8. Row /\ Changes
    BY <1>a, <2>1, <2>2, <2>3, <2>4 DEF SessionOK
  <2>9. Kept /\ Dropped
    BY <1>a, <2>1, <2>2, <2>3, <2>4 DEF SessionOK, Of
  <2> QED BY <2>2, <2>3, <2>7, <2>8, <2>9, <1>c
<1>6. CASE Drop(r)
  <2>1. /\ row' = [row EXCEPT ![s] = IF @ = "live" THEN "dropped" ELSE @]
        /\ request[r].at = "refused" /\ request[r].of = s
        /\ request' = [request EXCEPT ![r] = Idle] /\ UNCHANGED <<token, issued, hurt>>
    BY <1>6, <1>a DEF Drop
  <2>2. /\ request'[r] = Idle
        /\ row'[s] = IF row[s] = "live" THEN "dropped" ELSE row[s]
    BY <1>a, <2>1 DEF TypeOK
  <2>3. hurt[s] # "no" \/ token[s] = NoToken
    BY <1>0, <1>a, <2>1 DEF CallOK
  <2>4. CallOK(r)' /\ ~ Of(r, s)'
    BY <2>2 DEF CallOK, Of
  <2>7. Others
    BY <1>a, <2>1, <2>2 DEF TypeOK
  <2>8. Row /\ Changes
    BY <1>a, <2>1, <2>2, <2>3, <2>4 DEF SessionOK
  <2>9. Kept /\ Dropped
    BY <1>a, <2>1, <2>2, <2>3, <2>4 DEF SessionOK, Of
  <2> QED BY <2>2, <2>4, <2>7, <2>8, <2>9, <1>c
<1> QED BY <1>1, <1>2, <1>3, <1>4, <1>5, <1>6

LEMMA StepInv ==
    ASSUME IInv, [Next]_vars
    PROVE  IInv'
<1>0. TypeOK'
  BY StepType DEF IInv
<1>1. CASE UNCHANGED <<row, token, issued, request, hurt>>
  BY <1>0, <1>1, OtherStep
<1>2. ASSUME NEW r \in Request, NEW s \in Asked, Read(r, s) PROVE IInv'
  BY <1>0, <1>2, ReadStep, AskedAssumption
<1>3. ASSUME NEW r \in Request,
             Refresh(r) \/ Refused(r) \/ Fails(r) \/ Save(r) \/ CutOff(r) \/ Drop(r)
      PROVE  IInv'
  BY <1>0, <1>3, RequestStep
<1>4. ASSUME NEW h \in Handler, NEW s \in Session, Delete(h, s) PROVE IInv'
  <2>1. UNCHANGED <<token, issued, request, hurt>>
    BY <1>4 DEF Delete
  <2>2. \A u \in Session : row'[u] # row[u] => row[u] = "live" /\ row'[u] \in {"pruned", "deleted"}
    BY <1>4 DEF Delete, IInv, TypeOK
  <2> QED BY <1>0, <2>1, <2>2, OtherStep
<1>5. ASSUME NEW h \in Handler, NEW s \in Session, Create(h, s) PROVE IInv'
  BY <1>0, <1>5, CreateStep
<1>6. CASE Disconnect
  BY <1>0, <1>6, OtherStep DEF Disconnect
<1>7. CASE UNCHANGED vars
  BY <1>1, <1>7 DEF vars
<1>8. ASSUME NEW h \in Handler,
             \/ LoginLists(h) \/ LogoutLists(h) \/ HandlerEnds(h)
             \/ \E s \in Session : DeleteFails(h, s)
      PROVE  IInv'
  BY <1>1, <1>8 DEF LoginLists, LogoutLists, HandlerEnds, DeleteFails
<1>9. CASE Tick
  BY <1>1, <1>9 DEF Tick
<1> QED BY <1>2, <1>3, <1>4, <1>5, <1>6, <1>7, <1>8, <1>9 DEF Next

LEMMA InitInv == Init => IInv
<1> SUFFICES ASSUME Init PROVE IInv
  OBVIOUS
<1>1. \A r \in Request : CallOK(r)
  BY DEF Init, CallOK
<1>2. \A s \in Session : SessionOK(s)
  BY DEF Init, SessionOK, Of, NoToken, FirstToken
<1> QED BY <1>1, <1>2, InitType DEF IInv

\* A session with a refresh token whose refreshes did not overlap, fail or get
\* cut off is not dropped, for any number of requests, logins and logouts.
THEOREM NotDropped == Spec => []DroppedOnlyIfHurt
<1>1. IInv => DroppedOnlyIfHurt
  BY SMTT(30) DEF IInv, SessionOK, DroppedOnlyIfHurt
<1> QED BY InitInv, StepInv, <1>1, PTL DEF Spec

\* A deleted session never comes back, whatever refresh of it is in flight.
THEOREM StaysGone == Spec => GoneForGood
<1>1. ASSUME TypeOK, [Next]_vars, NEW s \in Session, row[s] \in Gone
      PROVE  row'[s] = row[s]
  BY <1>1 DEF TypeOK, Next, vars, Gone, Read, Refresh, Refused, Fails, Save, CutOff, Drop,
              LoginLists, LogoutLists, HandlerEnds, Delete, DeleteFails, Create, Disconnect, Tick
<1>2. TypeOK /\ [Next]_vars => [\A s \in Session : row[s] \in Gone => row'[s] = row[s]]_vars
  BY <1>1
<1> QED BY TypeCorrect, <1>2, PTL DEF Spec, GoneForGood
-------------------------------------------------------------------------------
\* What is left when a login has deleted what it chose, but for what it missed.
Left(h) == Live \ (handler[h].doomed \cup handler[h].missed)

\* A login alone between its listing and its end: that is below the limit.
LoginOK(h) ==
    LoggingIn(h) /\ handler[h].alone =>
        /\ \A g \in Handler \ {h} : ~ LoggingIn(g)
        /\ Cardinality(Left(h)) <= Limit - 1

Room == \A h \in Handler : LoginOK(h)

LEMMA Finite == \A S \in SUBSET Session : IsFiniteSet(S) /\ Cardinality(S) \in Nat
BY SessionAssumption, FS_Subset, FS_CardinalityType

\* What is left of the sessions a login listed, when it has pruned what it chose.
LEMMA DoomedSize ==
    ASSUME NEW listed \in SUBSET Session, NEW d \in Doomed(listed)
    PROVE  /\ d \in SUBSET listed
           /\ Cardinality(listed \ d) <= Limit - 1
           /\ d # {} => Cardinality(listed \ d) = Limit - 1
           /\ \A s \in d, k \in listed \ d : bornAt[s] <= bornAt[k]
<1>1. d \in SUBSET listed /\ listed \cap d = d
  BY DEF Doomed
<1>2. Cardinality(listed \ d) = Cardinality(listed) - Cardinality(d)
  BY ZenonT(60), <1>1, Finite, FS_Difference
<1>3. Cardinality(listed) \in Nat /\ Cardinality(d) \in Nat
  BY <1>1, Finite
<1>4. /\ Cardinality(listed) >= Limit => Cardinality(d) = Cardinality(listed) - (Limit - 1)
      /\ ~ (Cardinality(listed) >= Limit) => Cardinality(d) = 0
  BY DEF Doomed
<1>5. d # {} => Cardinality(d) # 0
  BY <1>1, Finite, FS_EmptySet
<1>6. \A s \in d, k \in listed \ d : bornAt[s] <= bornAt[k]
  BY DEF Doomed
<1> QED BY <1>1, <1>2, <1>3, <1>4, <1>5, <1>6, LimitAssumption

\* No login is begun and no session is created: there is as much room.
LEMMA RoomStays ==
    ASSUME Room, NEW h \in Handler, LoggingIn(h)' => LoggingIn(h),
           \A g \in Handler \ {h} : handler'[g] = handler[g],
           LoggingIn(h)' => handler'[h].alone = handler[h].alone,
           Live' \subseteq Live,
           LoggingIn(h)' => Left(h)' \subseteq Left(h)
    PROVE  Room'
<1> SUFFICES ASSUME NEW g \in Handler PROVE LoginOK(g)'
  BY DEF Room
<1>1. LoginOK(g) /\ (LoggingIn(g)' => LoggingIn(g))
  BY DEF Room, LoggingIn
<1>2. \A f \in Handler : LoggingIn(f)' => LoggingIn(f)
  BY DEF LoggingIn
<1>3. LoggingIn(g)' => handler'[g].alone = handler[g].alone /\ Left(g)' \subseteq Left(g)
  <2>1. CASE g = h
    BY <2>1
  <2>2. CASE g # h
    BY <2>2 DEF Left
  <2> QED BY <2>1, <2>2
<1>4. Left(g) \in SUBSET Session
  BY DEF Left, Live
<1>5. LoggingIn(g)' => /\ Cardinality(Left(g)') <= Cardinality(Left(g))
                      /\ Cardinality(Left(g)') \in Nat
                      /\ Cardinality(Left(g)) \in Nat
  BY <1>3, <1>4, Finite, FS_Subset
<1> QED BY <1>1, <1>2, <1>3, <1>5, LimitAssumption DEF LoginOK

LEMMA StepRoom ==
    ASSUME TypeOK, Room, [Next]_vars
    PROVE  Room'
<1>1. ASSUME NEW h \in Handler, LoginLists(h) PROVE Room'
  <2> DEFINE others == {g \in Handler : LoggingIn(g)}
  <2>l. PICK listed \in {Live, {}} : \E d \in Doomed(listed) : Lists(h, listed, d)
    BY <1>1 DEF LoginLists, Lists
  <2>d. PICK d \in Doomed(listed) : Lists(h, listed, d)
    BY <2>l
  <2>1. handler' = [g \in Handler |->
                IF g = h THEN [at |-> "login", doomed |-> d, missed |-> Live \ listed,
                               alone |-> others = {}]
                ELSE IF g \in others THEN [handler[g] EXCEPT !.alone = FALSE]
                ELSE handler[g]]
    BY <2>d DEF Lists
  <2>2. handler[h] = Idle /\ Live' = Live
    BY <1>1 DEF LoginLists, Live
  <2>3. d \subseteq listed /\ Cardinality(listed \ d) <= Limit - 1
    BY DoomedSize DEF Live
  <2>4. LoginOK(h)'
    <3>1. /\ handler'[h].doomed = d /\ handler'[h].missed = Live \ listed
          /\ handler'[h].alone = (others = {})
      BY <2>1
    <3>2. others = {} => \A g \in Handler \ {h} : ~ LoggingIn(g)'
      BY <2>1 DEF LoggingIn
    <3>3. Left(h)' = listed \ d
      BY <3>1, <2>2, <2>3 DEF Left
    <3> QED BY <3>1, <3>2, <3>3, <2>3 DEF LoginOK
  <2>5. ASSUME NEW g \in Handler \ {h} PROVE LoginOK(g)'
    <3>1. CASE g \in others
      <4>1. handler[g] \in Work
        BY <3>1, InWork DEF LoggingIn
      <4>2. ~ handler'[g].alone
        BY <2>1, <3>1, <4>1 DEF Work
      <4> QED BY <4>2 DEF LoginOK
    <3>2. CASE g \notin others
      BY <2>1, <3>2 DEF LoginOK, LoggingIn
    <3> QED BY <3>1, <3>2
  <2> QED BY <2>4, <2>5 DEF Room
<1>2. ASSUME NEW h \in Handler, LogoutLists(h) PROVE Room'
  <2>1. handler[h] = Idle /\ Live' = Live
    BY <1>2 DEF LogoutLists, Live
  <2>2. handler'[h].at = "logout" /\ \A g \in Handler \ {h} : handler'[g] = handler[g]
    BY <1>2 DEF LogoutLists, TypeOK
  <2> QED BY <2>1, <2>2, RoomStays DEF LoggingIn
<1>3. ASSUME NEW h \in Handler, HandlerEnds(h) PROVE Room'
  <2>1. handler'[h] = Idle /\ (\A g \in Handler \ {h} : handler'[g] = handler[g]) /\ Live' = Live
    BY <1>3 DEF HandlerEnds, TypeOK, Live
  <2> QED BY <2>1, RoomStays DEF LoggingIn
<1>4. ASSUME NEW h \in Handler, NEW s \in Session, Delete(h, s) PROVE Room'
  <2>1. handler[h] \in Work
    BY <1>4, InWork DEF Delete
  <2>2. /\ handler'[h] = [handler[h] EXCEPT !.doomed = @ \ {s}]
        /\ \A g \in Handler \ {h} : handler'[g] = handler[g]
    BY <1>4 DEF Delete, TypeOK
  <2>3. /\ handler'[h].doomed = handler[h].doomed \ {s}
        /\ handler'[h].missed = handler[h].missed
        /\ handler'[h].alone = handler[h].alone /\ handler'[h].at = handler[h].at
    BY <2>1, <2>2 DEF Work
  <2>4. Live' \subseteq Live \ {s}
    BY <1>4 DEF Delete, Live, TypeOK
  <2>5. handler[h] # Idle
    BY <1>4 DEF Delete
  <2>6. Left(h)' \subseteq Left(h)
    BY <2>3, <2>4 DEF Left
  <2> QED BY <2>2, <2>3, <2>4, <2>5, <2>6, RoomStays DEF LoggingIn
<1>5. ASSUME NEW h \in Handler, NEW s \in Session, Create(h, s) PROVE Room'
  <2>1. LoggingIn(h) /\ handler'[h] = Idle /\ \A g \in Handler \ {h} : handler'[g] = handler[g]
    BY <1>5 DEF Create, TypeOK
  <2>2. ASSUME NEW g \in Handler \ {h} PROVE LoginOK(g)'
    BY <2>1 DEF Room, LoginOK, LoggingIn
  <2>3. LoginOK(h)'
    BY <2>1 DEF LoginOK, LoggingIn
  <2> QED BY <2>2, <2>3 DEF Room
<1>6. ASSUME handler' = handler, Live' \subseteq Live PROVE Room'
  <2>1. ASSUME NEW h \in Handler PROVE Room'
    BY <1>6, RoomStays DEF LoggingIn, Left
  <2> QED BY <2>1 DEF Room
<1>7. ASSUME NEW r \in Request,
             \/ \E s \in Asked : Read(r, s)
             \/ Refresh(r) \/ Refused(r) \/ Fails(r) \/ Save(r) \/ CutOff(r) \/ Drop(r)
      PROVE  Room'
  BY <1>6, <1>7 DEF Live, TypeOK, Read, Refresh, Refused, Fails, Save, CutOff, Drop
<1>8. CASE Disconnect
  BY <1>6, <1>8 DEF Live, Disconnect
<1>9. CASE Tick \/ UNCHANGED vars
  BY <1>6, <1>9 DEF Live, Tick, vars
<1>10. ASSUME NEW h \in Handler, NEW s \in Session, DeleteFails(h, s) PROVE Room'
  <2>1. handler[h] \in Work /\ handler[h] # Idle /\ Live' = Live
    BY <1>10, InWork DEF DeleteFails, Live
  <2>2. /\ handler'[h] = [handler[h] EXCEPT !.doomed = @ \ {s}, !.missed = @ \cup {s}]
        /\ \A g \in Handler \ {h} : handler'[g] = handler[g]
    BY <1>10 DEF DeleteFails, TypeOK
  <2>3. /\ handler'[h].doomed = handler[h].doomed \ {s}
        /\ handler'[h].missed = handler[h].missed \cup {s}
        /\ handler'[h].alone = handler[h].alone /\ handler'[h].at = handler[h].at
    BY <2>1, <2>2 DEF Work
  <2>4. Left(h)' \subseteq Left(h)
    BY <2>1, <2>3 DEF Left
  <2> QED BY <2>1, <2>2, <2>3, <2>4, RoomStays DEF LoggingIn
<1> QED BY <1>1, <1>2, <1>3, <1>4, <1>5, <1>7, <1>8, <1>9, <1>10 DEF Next

LEMMA InitRoom == Init => Room
BY DEF Init, Room, LoginOK, LoggingIn

\* A login that no other overlaps leaves at most Limit sessions besides those it
\* failed to list or to delete, for any Limit and any number of sessions that
\* were there before.
THEOREM LoginRestoresLimit == Spec => LoginAloneKeepsLimit
<1>1. ASSUME TypeOK, Room, [Next]_vars, NEW h \in Handler,
             LoggingIn(h), handler[h].alone, Live' \ Live # {}, handler'[h] = Idle
      PROVE  Cardinality(Live' \ handler[h].missed) <= Limit
  <2>1. PICK g \in Handler, s \in Session : Create(g, s)
    BY <1>1 DEF TypeOK, Next, vars, Live, Read, Refresh, Refused, Fails, Save, CutOff, Drop,
                LoginLists, LogoutLists, HandlerEnds, Delete, DeleteFails, Disconnect, Tick
  <2>2. g = h
    BY <1>1, <2>1 DEF Create, Room, LoginOK
  <2>3. handler[h].doomed = {}
    BY <2>1, <2>2 DEF Create
  <2>4. Cardinality(Left(h)) <= Limit - 1
    BY <1>1 DEF Room, LoginOK
  <2>5. Live' = Live \cup {s}
    BY <1>1, <2>1 DEF Create, Live, TypeOK
  <2>6. Left(h) \in SUBSET Session /\ Left(h) \cup {s} \in SUBSET Session
    BY DEF Left, Live
  <2>7. /\ IsFiniteSet(Left(h)) /\ Cardinality(Left(h)) \in Nat
        /\ IsFiniteSet(Left(h) \cup {s}) /\ Cardinality(Left(h) \cup {s}) \in Nat
    BY <2>6, Finite
  <2>8. Cardinality(Left(h) \cup {s})
           = IF s \in Left(h) THEN Cardinality(Left(h)) ELSE Cardinality(Left(h)) + 1
    BY ZenonT(60), <2>7, FS_AddElement
  <2>9. Live' \ handler[h].missed \subseteq Left(h) \cup {s}
    BY <2>3, <2>5 DEF Left
  <2>10. /\ Cardinality(Live' \ handler[h].missed) <= Cardinality(Left(h) \cup {s})
         /\ Cardinality(Live' \ handler[h].missed) \in Nat
    BY <2>6, <2>7, <2>9, Finite, FS_Subset
  <2> QED BY SMTT(30), <2>4, <2>7, <2>8, <2>10, LimitAssumption
<1>2. TypeOK /\ Room /\ [Next]_vars =>
        [\A h \in Handler :
            LoggingIn(h) /\ handler[h].alone /\ Live' \ Live # {} /\ handler'[h] = Idle
            => Cardinality(Live' \ handler[h].missed) <= Limit]_vars
  BY <1>1
<1>3. TypeOK /\ Room /\ [Next]_vars => Room'
  BY StepRoom
<1> QED BY TypeCorrect, InitRoom, <1>2, <1>3, PTL DEF Spec, LoginAloneKeepsLimit
-------------------------------------------------------------------------------
\* The sessions that are at least as new as s, those now gone included.
AsNew(s) == {k \in Session \ {s} : row[k] # "none" /\ bornAt[k] >= bornAt[s]}
Crowded(s) == row[s] # "none" /\ Cardinality(AsNew(s)) >= Limit - 1

\* What a login has yet to prune, and what one has pruned, makes way for others.
Crowd ==
    /\ \A h \in Handler : LoggingIn(h) => \A s \in handler[h].doomed : Crowded(s)
    /\ \A s \in Session : row[s] = "pruned" => Crowded(s)

\* Sessions are not forgotten and their times do not change.
LEMMA CrowdedStays ==
    ASSUME TypeOK, [Next]_vars, NEW s \in Session, Crowded(s)
    PROVE  Crowded(s)'
<1>1. \A k \in Session : row[k] # "none" => row'[k] # "none" /\ bornAt'[k] = bornAt[k]
  BY ZenonT(60) DEF TypeOK, Next, vars, Read, Refresh, Refused, Fails, Save, CutOff, Drop,
         LoginLists, LogoutLists, HandlerEnds, Delete, DeleteFails, Create, Disconnect, Tick
<1>2. AsNew(s) \subseteq AsNew(s)' /\ AsNew(s)' \subseteq Session
  BY <1>1 DEF AsNew, Crowded
<1>3. /\ Cardinality(AsNew(s)) <= Cardinality(AsNew(s)')
      /\ Cardinality(AsNew(s)) \in Nat /\ Cardinality(AsNew(s)') \in Nat
  BY <1>2, Finite, FS_Subset
<1> QED BY <1>1, <1>3, LimitAssumption DEF Crowded

LEMMA StepCrowd ==
    ASSUME TypeOK, Crowd, [Next]_vars
    PROVE  Crowd'
<1>1. \A s \in Session : Crowded(s) => Crowded(s)'
  BY CrowdedStays
<1>2. ASSUME NEW h \in Handler, LoginLists(h) PROVE Crowd'
  <2> DEFINE others == {g \in Handler : LoggingIn(g)}
  <2>l. PICK listed \in {Live, {}} : \E d \in Doomed(listed) : Lists(h, listed, d)
    BY <1>2 DEF LoginLists, Lists
  <2>d. PICK d \in Doomed(listed) : Lists(h, listed, d)
    BY <2>l
  <2>1. handler' = [g \in Handler |->
                IF g = h THEN [at |-> "login", doomed |-> d, missed |-> Live \ listed,
                               alone |-> others = {}]
                ELSE IF g \in others THEN [handler[g] EXCEPT !.alone = FALSE]
                ELSE handler[g]]
    BY <2>d DEF Lists
  <2>2. listed \in SUBSET Live /\ Live \in SUBSET Session
    BY DEF Live
  <2>3. ASSUME NEW s \in d PROVE Crowded(s)
    <3>1. /\ d \in SUBSET listed /\ Cardinality(listed \ d) = Limit - 1
          /\ \A k \in listed \ d : bornAt[s] <= bornAt[k]
      BY <2>2, DoomedSize
    <3>2. listed \ d \subseteq AsNew(s) /\ AsNew(s) \in SUBSET Session /\ row[s] # "none"
      BY <2>2, <3>1 DEF AsNew, Live, TypeOK
    <3>3. Cardinality(listed \ d) <= Cardinality(AsNew(s)) /\ Cardinality(AsNew(s)) \in Nat
      BY <3>2, Finite, FS_Subset
    <3> QED BY <3>1, <3>2, <3>3, LimitAssumption DEF Crowded
  <2>4. d \in SUBSET Session
    BY <2>2, DoomedSize
  <2>5. ASSUME NEW g \in Handler, LoggingIn(g)', NEW s \in handler'[g].doomed PROVE Crowded(s)
    <3>1. CASE g = h
      BY <2>1, <2>3, <2>5, <3>1
    <3>2. CASE g # h
      <4>1. LoggingIn(g) /\ handler[g] \in Work
        BY <2>1, <2>5, <3>2, InWork DEF LoggingIn, Idle
      <4>2. handler'[g].doomed = handler[g].doomed
        BY <2>1, <3>2, <4>1 DEF Work
      <4> QED BY <2>5, <4>1, <4>2 DEF Crowd
    <3> QED BY <3>1, <3>2
  <2>6. ASSUME NEW g \in Handler, LoggingIn(g)' PROVE handler'[g].doomed \subseteq Session
    BY <2>6, StepType, InWork DEF TypeOK, LoggingIn, Work
  <2>7. row' = row
    BY <1>2 DEF LoginLists
  <2> QED BY <1>1, <2>5, <2>6, <2>7 DEF Crowd
<1>3. ASSUME NEW h \in Handler, NEW s \in Session, Delete(h, s) PROVE Crowd'
  <2>1. handler[h] \in Work
    BY <1>3, InWork DEF Delete
  <2>2. /\ handler'[h] = [handler[h] EXCEPT !.doomed = @ \ {s}]
        /\ \A g \in Handler \ {h} : handler'[g] = handler[g]
    BY <1>3 DEF Delete, TypeOK
  <2>3. handler'[h].doomed \subseteq handler[h].doomed /\ (LoggingIn(h)' => LoggingIn(h))
    BY <1>3, <2>1, <2>2 DEF Work, LoggingIn, Delete
  <2>4. ASSUME NEW g \in Handler, LoggingIn(g)', NEW u \in handler'[g].doomed
        PROVE  Crowded(u) /\ u \in Session
    BY <2>2, <2>3, <2>4, InWork DEF Crowd, LoggingIn, Work
  <2>5. ASSUME NEW u \in Session, row'[u] = "pruned" PROVE Crowded(u)
    BY <1>3, <2>5 DEF Delete, Crowd, TypeOK
  <2> QED BY <1>1, <2>4, <2>5 DEF Crowd
<1>4. ASSUME \A g \in Handler : LoggingIn(g)' => LoggingIn(g) /\ handler'[g] = handler[g],
             \A u \in Session : row'[u] = "pruned" => row[u] = "pruned"
      PROVE  Crowd'
  <2>1. ASSUME NEW g \in Handler, LoggingIn(g)', NEW u \in handler'[g].doomed
        PROVE  Crowded(u) /\ u \in Session
    BY <1>4, <2>1, InWork DEF Crowd, LoggingIn, Work
  <2> QED BY <1>1, <1>4, <2>1 DEF Crowd
<1>5. ASSUME NEW h \in Handler, LogoutLists(h) \/ HandlerEnds(h) PROVE Crowd'
  <2>1. \A g \in Handler : LoggingIn(g)' => LoggingIn(g) /\ handler'[g] = handler[g]
    BY <1>5 DEF LogoutLists, HandlerEnds, TypeOK, LoggingIn
  <2> QED BY <1>4, <1>5, <2>1 DEF LogoutLists, HandlerEnds
<1>6. ASSUME NEW h \in Handler, NEW s \in Session, Create(h, s) PROVE Crowd'
  BY <1>4, <1>6 DEF Create, TypeOK, LoggingIn
<1>7. ASSUME NEW r \in Request,
             \/ \E s \in Asked : Read(r, s)
             \/ Refresh(r) \/ Refused(r) \/ Fails(r) \/ Save(r) \/ CutOff(r) \/ Drop(r)
      PROVE  Crowd'
  BY <1>4, <1>7 DEF LoggingIn, TypeOK, Read, Refresh, Refused, Fails, Save, CutOff, Drop
<1>8. CASE Disconnect \/ Tick \/ UNCHANGED vars
  BY <1>4, <1>8 DEF LoggingIn, TypeOK, Disconnect, Tick, vars
<1>9. ASSUME NEW h \in Handler, NEW s \in Session, DeleteFails(h, s) PROVE Crowd'
  <2>1. handler[h] \in Work
    BY <1>9, InWork DEF DeleteFails
  <2>2. /\ handler'[h] = [handler[h] EXCEPT !.doomed = @ \ {s}, !.missed = @ \cup {s}]
        /\ \A g \in Handler \ {h} : handler'[g] = handler[g]
    BY <1>9 DEF DeleteFails, TypeOK
  <2>a. handler'[h].doomed = handler[h].doomed \ {s} /\ handler'[h].at = handler[h].at
    BY <2>1, <2>2 DEF Work
  <2>3. handler'[h].doomed \subseteq handler[h].doomed /\ (LoggingIn(h)' => LoggingIn(h))
    BY <1>9, <2>a DEF LoggingIn, DeleteFails
  <2>4. ASSUME NEW g \in Handler, LoggingIn(g)', NEW u \in handler'[g].doomed
        PROVE  Crowded(u) /\ u \in Session
    BY <2>2, <2>3, <2>4, InWork DEF Crowd, LoggingIn, Work
  <2>5. row' = row
    BY <1>9 DEF DeleteFails
  <2> QED BY <1>1, <2>4, <2>5 DEF Crowd
<1> QED BY <1>2, <1>3, <1>5, <1>6, <1>7, <1>8, <1>9 DEF Next

\* A login only prunes a session when Limit - 1 others are at least as new.
THEOREM OldestMakeWay == Spec => []PrunedAreOldest
<1>1. Init => Crowd
  BY DEF Init, Crowd, LoggingIn
<1>2. Crowd => PrunedAreOldest
  BY SMTT(30) DEF Crowd, Crowded, AsNew, PrunedAreOldest
<1>3. TypeOK /\ Crowd /\ [Next]_vars => Crowd'
  BY StepCrowd
<1> QED BY TypeCorrect, <1>1, <1>2, <1>3, PTL DEF Spec
-------------------------------------------------------------------------------
\* Logins that do not overlap.
LoginsApart == \A g, h \in Handler : LoggingIn(g) /\ LoggingIn(h) => g = h
AllAlone == \A h \in Handler : LoggingIn(h) => handler[h].alone

\* Logins whose listing and whose deletes succeed.
NoneMissed == \A h \in Handler : LoggingIn(h) => handler[h].missed = {}

LEMMA StepAlone ==
    ASSUME TypeOK, AllAlone, LoginsApart', [Next]_vars
    PROVE  AllAlone'
<1>1. ASSUME NEW h \in Handler, LoginLists(h) PROVE AllAlone'
  <2> DEFINE others == {g \in Handler : LoggingIn(g)}
  <2>l. PICK listed \in {Live, {}} : \E d \in Doomed(listed) : Lists(h, listed, d)
    BY <1>1 DEF LoginLists, Lists
  <2>d. PICK d \in Doomed(listed) : Lists(h, listed, d)
    BY <2>l
  <2>1. handler' = [g \in Handler |->
                IF g = h THEN [at |-> "login", doomed |-> d, missed |-> Live \ listed,
                               alone |-> others = {}]
                ELSE IF g \in others THEN [handler[g] EXCEPT !.alone = FALSE]
                ELSE handler[g]]
    BY <2>d DEF Lists
  <2>2. LoggingIn(h)' /\ h \notin others
    BY <1>1, <2>1 DEF LoginLists, LoggingIn, Idle
  <2>3. ASSUME NEW g \in others PROVE FALSE
    <3>1. handler[g] \in Work /\ handler[g].at = "login"
      BY <2>3, InWork DEF LoggingIn
    <3>2. handler'[g] = [handler[g] EXCEPT !.alone = FALSE]
      BY <2>1, <2>2, <2>3
    <3>3. LoggingIn(g)'
      BY <3>1, <3>2 DEF Work, LoggingIn, Idle
    <3> QED BY <2>2, <2>3, <3>3 DEF LoginsApart
  <2>4. \A g \in Handler \ {h} : handler'[g] = handler[g]
    BY <2>1, <2>3
  <2>5. handler'[h].alone
    BY <2>1, <2>3
  <2> QED BY <2>4, <2>5 DEF AllAlone, LoggingIn
<1>2. ASSUME NEW h \in Handler, NEW s \in Session, Delete(h, s) PROVE AllAlone'
  <2>1. handler[h] \in Work /\ handler[h] # Idle
    BY <1>2, InWork DEF Delete
  <2>2. /\ handler'[h] = [handler[h] EXCEPT !.doomed = @ \ {s}]
        /\ \A g \in Handler \ {h} : handler'[g] = handler[g]
    BY <1>2 DEF Delete, TypeOK
  <2>3. handler'[h].alone = handler[h].alone /\ handler'[h].at = handler[h].at
    BY <2>1, <2>2 DEF Work
  <2> QED BY <2>1, <2>2, <2>3 DEF AllAlone, LoggingIn
<1>3. ASSUME \A g \in Handler : LoggingIn(g)' => handler'[g] = handler[g] PROVE AllAlone'
  BY <1>3 DEF AllAlone, LoggingIn
<1>4. ASSUME NEW h \in Handler, NEW s \in Session, Create(h, s) PROVE AllAlone'
  BY <1>3, <1>4 DEF Create, LoggingIn, TypeOK
<1>5. ASSUME NEW h \in Handler, LogoutLists(h) \/ HandlerEnds(h) PROVE AllAlone'
  BY <1>3, <1>5 DEF LogoutLists, HandlerEnds, LoggingIn, TypeOK
<1>6. CASE UNCHANGED handler
  BY <1>3, <1>6
<1>7. ASSUME NEW h \in Handler, NEW s \in Session, DeleteFails(h, s) PROVE AllAlone'
  <2>1. handler[h] \in Work /\ handler[h] # Idle
    BY <1>7, InWork DEF DeleteFails
  <2>2. /\ handler'[h] = [handler[h] EXCEPT !.doomed = @ \ {s}, !.missed = @ \cup {s}]
        /\ \A g \in Handler \ {h} : handler'[g] = handler[g]
    BY <1>7 DEF DeleteFails, TypeOK
  <2>3. handler'[h].alone = handler[h].alone /\ handler'[h].at = handler[h].at
    BY <2>1, <2>2 DEF Work
  <2> QED BY <2>1, <2>2, <2>3 DEF AllAlone, LoggingIn
<1> QED BY <1>1, <1>2, <1>4, <1>5, <1>6, <1>7 DEF Next, vars, Read, Refresh, Refused, Fails, Save,
        CutOff, Drop, Disconnect, Tick

\* A step that creates no session, or is the end of a login that is alone.
LEMMA StepWithinLimit ==
    ASSUME TypeOK, Room, AllAlone, NoneMissed, AtMostLimit, [Next]_vars
    PROVE  AtMostLimit'
<1>0. Live \in SUBSET Session /\ Live' \in SUBSET Session
  BY DEF Live
<1>1. ASSUME NEW h \in Handler, NEW s \in Session, Create(h, s) PROVE AtMostLimit'
  <2>0. /\ LoggingIn(h) /\ handler[h].alone
        /\ handler[h].doomed = {} /\ handler[h].missed = {} /\ Left(h) = Live
    BY <1>1 DEF Create, AllAlone, NoneMissed, Left
  <2>1. Cardinality(Live) <= Limit - 1
    BY <2>0 DEF Room, LoginOK
  <2>2. Live' = Live \cup {s}
    BY <1>1 DEF Create, Live, TypeOK
  <2>3. Cardinality(Live \cup {s}) = IF s \in Live THEN Cardinality(Live) ELSE Cardinality(Live) + 1
    BY <1>0, Finite, FS_AddElement
  <2>4. Cardinality(Live) \in Nat
    BY <1>0, Finite
  <2> QED BY <2>1, <2>2, <2>3, <2>4, LimitAssumption DEF AtMostLimit
<1>2. CASE Live' \subseteq Live
  <2>1. Cardinality(Live') <= Cardinality(Live)
    BY SMTT(30), <1>0, <1>2, Finite, FS_Subset
  <2> QED BY <1>0, <2>1, Finite, LimitAssumption DEF AtMostLimit
<1>3. Live' \subseteq Live \/ \E h \in Handler, s \in Session : Create(h, s)
  BY DEF TypeOK, Next, vars, Live, Read, Refresh, Refused, Fails, Save, CutOff, Drop,
         LoginLists, LogoutLists, HandlerEnds, Delete, DeleteFails, Disconnect, Tick
<1> QED BY <1>1, <1>2, <1>3

\* "Enforce max concurrent sessions per user/provider": section 4 of the README
\* shows that overlapping logins leave more than Limit.  When no two logins
\* overlap, and their queries and deletes succeed, there are never more,
\* whatever refreshes and logouts run at once.
THEOREM LoginsApartKeepLimit == Spec /\ []LoginsApart /\ []NoneMissed => []AtMostLimit
<1>1. Init => AllAlone /\ AtMostLimit
  <2> SUFFICES ASSUME Init PROVE AllAlone /\ AtMostLimit
    OBVIOUS
  <2>1. Live = {} /\ AllAlone
    BY DEF Init, Live, AllAlone, LoggingIn
  <2> QED BY <2>1, FS_EmptySet, LimitAssumption DEF AtMostLimit
<1>2. TypeOK /\ AllAlone /\ LoginsApart' /\ [Next]_vars => AllAlone'
  BY StepAlone
<1>3. TypeOK /\ Room /\ AllAlone /\ NoneMissed /\ AtMostLimit /\ [Next]_vars => AtMostLimit'
  BY StepWithinLimit
<1>4. TypeOK /\ Room /\ [Next]_vars => Room'
  BY StepRoom
<1> QED BY TypeCorrect, InitRoom, <1>1, <1>2, <1>3, <1>4, PTL DEF Spec
-------------------------------------------------------------------------------
\* Refreshes of one session that do not overlap.
RefreshesApart == \A q, r \in Request, s \in Session : Of(q, s) /\ Of(r, s) => q = r
NoOverlap == \A s \in Session : hurt[s] # "overlap"

LEMMA StepNoOverlap ==
    ASSUME TypeOK, NoOverlap, RefreshesApart', [Next]_vars
    PROVE  NoOverlap'
<1>1. ASSUME NEW r \in Request, NEW s \in Asked, Read(r, s) PROVE NoOverlap'
  <2>0. s \in Session
    BY AskedAssumption
  <2>1. /\ request[r] = Idle /\ request'[r].of = s /\ request'[r].at = "read"
        /\ \A q \in Request \ {r} : request'[q] = request[q]
    BY <1>1 DEF Read, TypeOK
  <2>2. Of(r, s)'
    BY <2>1 DEF Of, Idle
  <2>3. InFlight(s) = {}
    BY <2>0, <2>1, <2>2 DEF InFlight, RefreshesApart, Of
  <2>4. hurt' = hurt
    BY <1>1, <2>0, <2>3 DEF Read, TypeOK
  <2> QED BY <2>4 DEF NoOverlap
<1>2. ASSUME NEW r \in Request, Fails(r) \/ CutOff(r) PROVE NoOverlap'
  BY <1>2 DEF Fails, CutOff, NoOverlap, TypeOK
<1>3. CASE UNCHANGED hurt
  BY <1>3 DEF NoOverlap
<1> QED BY <1>1, <1>2, <1>3 DEF Next, vars, Refresh, Refused, Save, Drop, LoginLists,
        LogoutLists, HandlerEnds, Delete, DeleteFails, Create, Disconnect, Tick

\* "Refresh an OAuth token if needed, with concurrency protection": section 4 of
\* the README shows that overlapping refreshes lose the session.  Where no two
\* refreshes of a session overlap it is only lost when the provider or the
\* caller fails: the protection of the docstring would be enough.
THEOREM RefreshesApartKeepSession == Spec /\ []RefreshesApart => []OverlapIsHarmless
<1>1. Init => NoOverlap
  BY DEF Init, NoOverlap
<1>2. TypeOK /\ NoOverlap /\ RefreshesApart' /\ [Next]_vars => NoOverlap'
  BY StepNoOverlap
<1>3. TypeOK /\ NoOverlap /\ DroppedOnlyIfHurt => OverlapIsHarmless
  BY DEF TypeOK, NoOverlap, DroppedOnlyIfHurt, OverlapIsHarmless
<1> QED BY TypeCorrect, NotDropped, <1>1, <1>2, <1>3, PTL DEF Spec
===============================================================================
