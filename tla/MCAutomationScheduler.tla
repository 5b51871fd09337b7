------------------------- MODULE MCAutomationScheduler -------------------------
(* Instances of AutomationScheduler for TLC: the local clock, which shows   *)
(* the instants 0 and 1 for the second time; two rules with an occurrence   *)
(* in that hour (1) and one of them after it; a request that may do         *)
(* anything and others that race with it to create.                         *)
EXTENDS AutomationScheduler, TLC

Rules == {{1, 2}, {1}}
LocalTime == [t \in 0..Horizon |-> t]
FirstShowing == [d \in 0..Horizon |-> IF d <= 1 THEN 0 ELSE d]
OneMayAll == LET one == CHOOSE q \in Request : TRUE
             IN [q \in Request |-> IF q = one THEN Deed ELSE {"create"}]
===============================================================================
