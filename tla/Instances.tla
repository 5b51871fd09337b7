------------------------------- MODULE Instances -------------------------------
(***************************************************************************)
(* The instances of the backend in a deployment: processes with an event    *)
(* loop each, a database in common and Redis in common.                     *)
(***************************************************************************)
CONSTANT Instance
================================================================================
