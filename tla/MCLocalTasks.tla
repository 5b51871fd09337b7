----------------------------- MODULE MCLocalTasks -----------------------------
(* Instances of LocalTasks for TLC.                                        *)
EXTENDS LocalTasks
===============================================================================
