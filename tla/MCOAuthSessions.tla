---------------------------- MODULE MCOAuthSessions ----------------------------
(* Instances of OAuthSessions for TLC.                                     *)
EXTENDS OAuthSessions, TLC

\* The ids, but for the sessions asked for, are interchangeable and every property is one of safety.
Symmetry == Permutations(Session \ Asked) \cup Permutations(Request) \cup Permutations(Handler)

\* Two callbacks or logouts that draw four ids; or one that draws three, and
\* two requests.
MCCast == {Session \cup Handler}
          \cup {(Session \ {s}) \cup Request \cup {h} : s \in Session \ Asked, h \in Handler}
===============================================================================
