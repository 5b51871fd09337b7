---------------------------- MODULE MCTaskRegistry ----------------------------
(* An instance of TaskRegistry for TLC.                                    *)
EXTENDS TaskRegistry, TLC
===============================================================================
