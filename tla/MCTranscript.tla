---------------------------- MODULE MCTranscript ----------------------------
(* Limits of one and two messages: a short absence outruns a backfill, and a *)
(* page ends between messages of one time.                                   *)
EXTENDS Transcript
=============================================================================
