------------------------- MODULE MCActivityUploader -------------------------
(* Six events.  The caps bind by count (three queued) and by bytes (five); the *)
(* sixth event alone is bigger than the byte cap, and the server refuses it.   *)
(* Two requests break.                                                         *)
EXTENDS ActivityUploader

MCSize == <<3, 1, 2, 1, 1, 6>>
MCInvalid == {6}
=============================================================================
