------------------------------ MODULE MCRoster ------------------------------
(* Two names and two connections: one request can wait while another takes   *)
(* the roster through two changes.                                           *)
EXTENDS Roster

CONSTANTS ada, bo, admin, k1, k2
=============================================================================
