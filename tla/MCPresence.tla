----------------------------- MODULE MCPresence -----------------------------
(* One session that may pipeline two requests, one tool, and two handles: a  *)
(* stamp can be shared, and a handle be left to its timer meanwhile.         *)
EXTENDS Presence

CONSTANTS h1, h2
=============================================================================
