---------------------------- MODULE MCCalendarAlerts ----------------------------
(* Instances of CalendarAlerts for TLC: every event has the same alert      *)
(* window, or edits may change it.                                         *)
EXTENDS CalendarAlerts

OneWindow == {0}
TwoWindows == {0, 1}
===============================================================================
