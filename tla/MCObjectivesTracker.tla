------------------------ MODULE MCObjectivesTracker -------------------------
(* Two objectives of one member.  They can change while both list            *)
(* requests are out, between their answers, and again before the timer fires. *)
EXTENDS ObjectivesTracker

CONSTANTS o1, o2
=============================================================================
