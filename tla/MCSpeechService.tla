--------------------------- MODULE MCSpeechService ---------------------------
(* Texts as model values for TLC. *)
EXTENDS SpeechService, TLC

CONSTANTS k1, k2

MCKey == {k1, k2}
=============================================================================
