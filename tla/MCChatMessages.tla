---------------------------- MODULE MCChatMessages ----------------------------
(* A response that may take every step meets an event, or a response that only
   saves its answer; a response whose filters get the thread meets the one it
   follows up, which may fail or be stopped. *)
EXTENDS ChatMessages, TLC

CONSTANTS t1, t2, t3, t4, e1

MCCast == {{t1, e1}, {t1, t2}, {t3, t4}}

MCThread == [t \in Task |-> IF t = t4 THEN {t3, t4} ELSE {t}]

MCMay == t1 :> Deed @@ t2 :> {} @@ t3 :> {"followups", "fail", "stop"} @@ t4 :> {"outlet"}
===============================================================================
