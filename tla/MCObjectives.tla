---------------------------- MODULE MCObjectives ----------------------------
(* A roster of three: ada is the admin, bo may create, cy only works.  Two   *)
(* of them can hold the objective while the third watches.                   *)
EXTENDS Objectives

CONSTANTS ada, bo, cy
=============================================================================
