----------------------------- MODULE MCSocketPools -----------------------------
(* Instances of SocketPools for TLC: each session on its own instance.     *)
EXTENDS SocketPools

CONSTANTS a, b, s1, s2

Apart == [s \in {s1, s2} |-> IF s = s1 THEN a ELSE b]
===============================================================================
