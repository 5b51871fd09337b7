----------------------------- MODULE MCChatActivity -----------------------------
(* Instances of ChatActivity for TLC: a request of two models and one of one. *)
EXTENDS ChatActivity

CONSTANTS r1, r2, m1, m2

OneAndTwo == [r \in {r1, r2} |-> IF r = r1 THEN {m1, m2} ELSE {m1}]
===============================================================================
