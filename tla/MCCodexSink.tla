----------------------------- MODULE MCCodexSink -----------------------------
(* Three events and one trouble: one under way, one that waits behind it, and *)
(* one to start another turn.                                                 *)
EXTENDS CodexSink
=============================================================================
