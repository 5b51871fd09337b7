---------------------------- MODULE MCYdocDocument ----------------------------
(* Instances of YdocDocument for TLC: the first of two sessions has all     *)
(* edits but the last.                                                     *)
EXTENDS YdocDocument, TLC

CONSTANTS s1, s2, last, First

Updates == First \cup {last}
EditorOf == [u \in Updates |-> IF u = last THEN s2 ELSE s1]
Symmetry == Permutations(First)
===============================================================================
