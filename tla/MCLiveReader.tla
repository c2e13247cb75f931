---------------------------- MODULE MCLiveReader ----------------------------
(* Texts for model checking LiveReader. *)
EXTENDS LiveReader

OneWord == <<"word">>

CodeMark == <<"fence", "mark">>
=============================================================================
