----------------------------- MODULE YdocDocument -----------------------------
(***************************************************************************)
(* One collaborative document: YdocManager (socket/utils.py) and the        *)
(* handlers of ydoc:document:join, :update and :leave and of disconnect     *)
(* (socket/main.py).  With Redis (Shared) every command is a suspension of  *)
(* its handler and any other handler, of any instance, may come in between. *)
(* Without it there is one instance, the manager's methods never suspend,   *)
(* and a handler that has begun to use the store goes on until it leaves    *)
(* it.  A Yjs update is an atom, a snapshot the set of its updates.         *)
(***************************************************************************)
EXTENDS Naturals, Sequences, SequencesExt

CONSTANTS Session, Update,
          Author,     \* Author[u]: the session whose edit u is
          Threshold,  \* COMPACTION_THRESHOLD
          Shared      \* the documents are in Redis

ASSUME AuthorAssumption == Author \in [Update -> Session]
ASSUME ThresholdAssumption == Threshold \in Nat \ 0..3 /\ Shared \in BOOLEAN

VARIABLES
    updates,  \* the document's list of updates and snapshots
    users,    \* the document's set of sessions
    room,     \* the sessions in the socket.io room of the document
    copy,     \* copy[s]: the updates the editor of s shows
    late,     \* the sessions that disconnected while their join looked the note up
    at,       \* at[s]: where the join, leave or disconnect of s is
    got,      \* got[s]: the state the join of s has read
    edit,     \* edit[u]: where the handler of update u is
    read      \* read[u]: the list the compaction of u has read

vars == <<updates, users, room, copy, late, at, got, edit, read>>

Place == {"out", "enter", "fetch", "state", "in", "room", "exists", "users",
          "delUpdates", "delUsers", "quit", "quitUsers", "quitUpdates", "quitDel", "closed"}
Stage == {"none", "push", "length", "range", "exec", "cast", "done"}

Init ==
    /\ updates = <<>> /\ users = {} /\ room = {} /\ late = {}
    /\ copy = [s \in Session |-> {}]
    /\ at = [s \in Session |-> "out"]
    /\ got = [s \in Session |-> {}]
    /\ edit = [u \in Update |-> "none"]
    /\ read = [u \in Update |-> <<>>]

\* What a list of updates and snapshots adds up to.
Merged(list) == UNION ToSet(list)

\* Handlers in the middle of the store's methods, where memory never suspends.
InStore(s) == at[s] \in {"users", "delUpdates", "delUsers", "quitUsers", "quitUpdates", "quitDel"}
Storing(u) == edit[u] \in {"length", "range", "exec"}

SessionTurn(s) ==
    Shared \/ /\ \A t \in Session \ {s} : ~InStore(t)
              /\ \A u \in Update : ~Storing(u)
EditTurn(u) ==
    Shared \/ /\ \A s \in Session : ~InStore(s)
              /\ \A v \in Update \ {u} : ~Storing(v)

Go(s, to) == at' = [at EXCEPT ![s] = to]
Stand(u, to) == edit' = [edit EXCEPT ![u] = to]
-------------------------------------------------------------------------------
\* Mutant of JoinAdd: the id of the session's user instead of the session's.
JoinAddUser(s) ==
    /\ at[s] = "out" /\ SessionTurn(s)
    /\ users' = users \cup {<<"user of", s>>}
    /\ copy' = [copy EXCEPT ![s] = {}]
    /\ Go(s, "enter")
    /\ UNCHANGED <<updates, room, got, edit, read, late>>

\* ydoc_document_join: add_user, enter_room, get_updates, then the state is sent.
\* The database is asked first, which only a disconnect can tell (JoinLate).
JoinAdd(s) ==
    /\ at[s] = "out" /\ SessionTurn(s)
    /\ users' = users \cup {s}
    /\ copy' = [copy EXCEPT ![s] = {}]
    /\ Go(s, "enter")
    /\ UNCHANGED <<updates, room, got, edit, read, late>>

Leaving == {"quit", "quitUsers", "quitUpdates", "quitDel", "closed"}

\* A disconnect overtook the join, which adds the session all the same; the
\* room it then enters is left or refused.
JoinLate(s) ==
    /\ s \in late /\ at[s] \in Leaving
    /\ SessionTurn(s) /\ (Shared \/ ~InStore(s))
    /\ users' = users \cup {s}
    /\ late' = late \ {s}
    /\ UNCHANGED <<updates, room, copy, at, got, edit, read>>

JoinEnter(s) ==
    /\ at[s] = "enter" /\ SessionTurn(s)
    /\ room' = room \cup {s}
    /\ Go(s, "fetch")
    /\ UNCHANGED <<updates, users, copy, got, edit, read, late>>

JoinFetch(s) ==
    /\ at[s] = "fetch" /\ SessionTurn(s)
    /\ got' = [got EXCEPT ![s] = Merged(updates)]
    /\ Go(s, "state")
    /\ UNCHANGED <<updates, users, room, copy, edit, read, late>>

\* Mutant of JoinState: the state takes the place of what the room was sent.
JoinReplaces(s) ==
    /\ at[s] = "state" /\ SessionTurn(s)
    /\ copy' = [copy EXCEPT ![s] = got[s]]
    /\ got' = [got EXCEPT ![s] = {}]
    /\ Go(s, "in")
    /\ UNCHANGED <<updates, users, room, edit, read, late>>

JoinState(s) ==
    /\ at[s] = "state" /\ SessionTurn(s)
    /\ copy' = [copy EXCEPT ![s] = @ \cup got[s]]
    /\ got' = [got EXCEPT ![s] = {}]
    /\ Go(s, "in")
    /\ UNCHANGED <<updates, users, room, edit, read, late>>
-------------------------------------------------------------------------------
\* An editor in the document makes an edit, and yjs_document_update finds the
\* session in the room.  Its awaits of the database and of stop_item_tasks
\* come before the push.
Edit(u) ==
    /\ edit[u] = "none" /\ EditTurn(u)
    /\ at[Author[u]] = "in" /\ Author[u] \in room
    /\ copy' = [copy EXCEPT ![Author[u]] = @ \cup {u}]
    /\ Stand(u, "push")
    /\ UNCHANGED <<updates, users, room, at, got, read, late>>

\* RPUSH.
Push(u) ==
    /\ edit[u] = "push" /\ EditTurn(u)
    /\ updates' = Append(updates, {u})
    /\ Stand(u, "length")
    /\ UNCHANGED <<users, room, copy, at, got, read, late>>

\* Mutant of Length: compaction one update too late.
LengthBeyond(u) ==
    /\ edit[u] = "length"
    /\ Stand(u, IF Len(updates) > Threshold THEN "range" ELSE "cast")
    /\ UNCHANGED <<updates, users, room, copy, at, got, read, late>>

\* LLEN.
Length(u) ==
    /\ edit[u] = "length"
    /\ Stand(u, IF Len(updates) >= Threshold THEN "range" ELSE "cast")
    /\ UNCHANGED <<updates, users, room, copy, at, got, read, late>>

\* LRANGE, for the compaction.
Range0(u) ==
    /\ edit[u] = "range"
    /\ IF Len(updates) <= 1
       THEN Stand(u, "cast") /\ UNCHANGED read
       ELSE Stand(u, "exec") /\ read' = [read EXCEPT ![u] = updates]
    /\ UNCHANGED <<updates, users, room, copy, at, got, late>>

\* The oldest half squashed into one snapshot, then the rest.
Compacted(list) ==
    LET mid == Len(list) \div 2
    IN  <<Merged(SubSeq(list, 1, mid))>> \o SubSeq(list, mid + 1, Len(list))

\* The pipeline DEL, RPUSH.
Exec(u) ==
    /\ edit[u] = "exec"
    /\ updates' = Compacted(read[u])
    /\ read' = [read EXCEPT ![u] = <<>>]
    /\ Stand(u, "cast")
    /\ UNCHANGED <<users, room, copy, at, got, late>>

\* The update is sent to the rest of the room.
Cast(u) ==
    /\ edit[u] = "cast" /\ EditTurn(u)
    /\ copy' = [s \in Session |-> IF s \in room THEN copy[s] \cup {u} ELSE copy[s]]
    /\ Stand(u, "done")
    /\ UNCHANGED <<updates, users, room, at, got, read, late>>
-------------------------------------------------------------------------------
\* yjs_document_leave: remove_user, leave_room, document_exists, get_users, and
\* clear_document if none is left.
LeaveRemove(s) ==
    /\ at[s] = "in" /\ SessionTurn(s)
    /\ users' = users \ {s}
    /\ Go(s, "room")
    /\ UNCHANGED <<updates, room, copy, got, edit, read, late>>

LeaveRoom(s) ==
    /\ at[s] = "room" /\ SessionTurn(s)
    /\ room' = room \ {s}
    /\ Go(s, "exists")
    /\ UNCHANGED <<updates, users, copy, got, edit, read, late>>

LeaveExists(s) ==
    /\ at[s] = "exists" /\ SessionTurn(s)
    /\ Go(s, IF updates # <<>> THEN "users" ELSE "out")
    /\ UNCHANGED <<updates, users, room, copy, got, edit, read, late>>

\* Mutant of LeaveUsers: whoever leaves clears the document.
LeaveAnyway(s) ==
    /\ at[s] = "users"
    /\ Go(s, "delUpdates")
    /\ UNCHANGED <<updates, users, room, copy, got, edit, read, late>>

LeaveUsers(s) ==
    /\ at[s] = "users"
    /\ Go(s, IF users = {} THEN "delUpdates" ELSE "out")
    /\ UNCHANGED <<updates, users, room, copy, got, edit, read, late>>

\* clear_document: two deletions.
DeleteUpdates(s) ==
    /\ \/ at[s] = "delUpdates" /\ Go(s, "delUsers")
       \/ at[s] = "quitUpdates" /\ Go(s, "quitDel")
    /\ updates' = <<>>
    /\ UNCHANGED <<users, room, copy, got, edit, read, late>>

\* The disconnect of socket.io leaves the rooms when its handler is through.
DeleteUsers(s) ==
    /\ \/ at[s] = "delUsers" /\ Go(s, "out") /\ UNCHANGED room
       \/ at[s] = "quitDel" /\ Go(s, "closed") /\ room' = room \ {s}
    /\ users' = {}
    /\ UNCHANGED <<updates, copy, got, edit, read, late>>
-------------------------------------------------------------------------------
\* A session that disconnects may have begun to join.
Overtakes(s) == late' \in {late, late \cup (IF at[s] = "out" THEN {s} ELSE {})}

\* disconnect: remove_user_from_all_documents visits the documents that have
\* users, in memory those that have this one.
Quit(s) ==
    /\ at[s] \in {"out", "in"} /\ SessionTurn(s)
    /\ IF (IF Shared THEN users # {} ELSE s \in users)
       THEN Go(s, "quit") /\ UNCHANGED room
       ELSE Go(s, "closed") /\ room' = room \ {s}
    /\ Overtakes(s)
    /\ UNCHANGED <<updates, users, copy, got, edit, read>>

\* The disconnect of a session that the cleanup of SESSION_POOL has taken out.
QuitUnknown(s) ==
    /\ at[s] \in {"out", "in"} /\ SessionTurn(s)
    /\ room' = room \ {s}
    /\ Go(s, "closed")
    /\ Overtakes(s)
    /\ UNCHANGED <<updates, users, copy, got, edit, read>>

QuitRemove(s) ==
    /\ at[s] = "quit" /\ SessionTurn(s)
    /\ users' = users \ {s}
    /\ Go(s, "quitUsers")
    /\ UNCHANGED <<updates, room, copy, got, edit, read, late>>

QuitUsers(s) ==
    /\ at[s] = "quitUsers"
    /\ IF users = {}
       THEN Go(s, "quitUpdates") /\ UNCHANGED room
       ELSE Go(s, "closed") /\ room' = room \ {s}
    /\ UNCHANGED <<updates, users, copy, got, edit, read, late>>
-------------------------------------------------------------------------------
SessionStep(s) ==
    \/ JoinAdd(s) \/ JoinLate(s) \/ JoinEnter(s) \/ JoinFetch(s) \/ JoinState(s)
    \/ LeaveRemove(s) \/ LeaveRoom(s) \/ LeaveExists(s) \/ LeaveUsers(s)
    \/ DeleteUpdates(s) \/ DeleteUsers(s)
    \/ Quit(s) \/ QuitUnknown(s) \/ QuitRemove(s) \/ QuitUsers(s)

EditStep(u) == Edit(u) \/ Push(u) \/ Length(u) \/ Range0(u) \/ Exec(u) \/ Cast(u)

Next == \/ \E s \in Session : SessionStep(s)
        \/ \E u \in Update : EditStep(u)

Spec == Init /\ [][Next]_vars
-------------------------------------------------------------------------------
TypeOK ==
    /\ updates \in Seq(SUBSET Update)
    /\ users \in SUBSET Session /\ room \in SUBSET Session /\ late \in SUBSET Session
    /\ copy \in [Session -> SUBSET Update]
    /\ at \in [Session -> Place]
    /\ got \in [Session -> SUBSET Update]
    /\ edit \in [Update -> Stage]
    /\ read \in [Update -> Seq(SUBSET Update)]

\* A session in the document shows every stored update whose handler is
\* through: it was in the room before it read the state, and an update is
\* stored before it is sent to the room.
NothingMissed ==
    \A s \in Session, u \in Update :
        at[s] = "in" /\ edit[u] = "done" /\ u \in Merged(updates) => u \in copy[s]

\* The list stays below the threshold but for the updates being handled.
Handling == {u \in Update : Storing(u)}
Bounded == Handling = {} => Len(updates) < Threshold

\* The document, as its users see it, whatever compaction does to the list.
Document == INSTANCE YdocSpec WITH contents <- Merged(updates)
KeepsItsPromise == Document!Spec
-------------------------------------------------------------------------------
(* Said of the code and not kept by it: see section 4 of the README.      *)

\* "Rolling compaction: squash oldest half into one snapshot": nothing that is
\* stored when the list is replaced is lost by it.
CompactionKeeps ==
    [][\A u \in Update : edit[u] = "exec" /\ edit'[u] = "cast"
          => Merged(updates) \subseteq Merged(updates')]_vars

\* "Cleaning up document ... as no users are left": nobody is in a document
\* whose updates are deleted.
ClearedUnused ==
    [][\A s \in Session : at[s] \in {"delUpdates", "quitUpdates"} /\ at'[s] # at[s]
          => users = {}]_vars
===============================================================================
