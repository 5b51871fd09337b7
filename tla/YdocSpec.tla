------------------------------- MODULE YdocSpec -------------------------------
(***************************************************************************)
(* What YdocManager (socket/utils.py) promises of one document: updates     *)
(* accumulate, sessions come and go, and the contents are dropped only when *)
(* no session is left.  However the updates are stored, compacted or        *)
(* fetched is no concern of this specification.                            *)
(***************************************************************************)
CONSTANTS Session, Update

VARIABLES users,    \* the sessions in the document
          contents  \* the updates its state is made of

Init == users = {} /\ contents = {}

Enter == \E s \in Session : users' = users \cup {s} /\ UNCHANGED contents
Leave == \E s \in Session : users' = users \ {s} /\ UNCHANGED contents
Append == \E u \in Update : contents' = contents \cup {u} /\ UNCHANGED users
Clear == users = {} /\ contents' = {} /\ UNCHANGED users

Next == Enter \/ Leave \/ Append \/ Clear

Spec == Init /\ [][Next]_<<users, contents>>
===============================================================================
