--------------------------- MODULE MCTranscription ---------------------------
(* What the recognizer may say, for TLC. *)
EXTENDS Transcription, TLC

MCHypotheses == {<<"a">>, <<"b">>, <<"a", "b">>}
=============================================================================
