----------------------------- MODULE MCCleanupLoop -----------------------------
(* Instances of CleanupLoop for TLC.                                       *)
EXTENDS CleanupLoop

\* WEBSOCKET_REDIS_LOCK_TIMEOUT / 2 .. WEBSOCKET_REDIS_LOCK_TIMEOUT
HalfToWhole == {d \in 1..TTL : 2 * d >= TTL}
===============================================================================
