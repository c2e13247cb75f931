---------------------------- MODULE Transcription ----------------------------
(* The ways to have speech transcribed: a streaming session with whatever  *)
(* client, the Python client with whatever server, and a request that      *)
(* brings its audio whole.  They share nothing but the recognizer, which   *)
(* ModelLifecycle models, so a behaviour is of one of them.                *)
EXTENDS StreamingTranscript, StreamClient, Recognition

VARIABLE use

vars == <<use, sessionVars, clientVars, recognitionVars>>

SessionIdle     == SessionInit /\ ~vadEnabled /\ sessions = 0
ClientIdle      == ClientInit /\ source = "iterator"
RecognitionIdle ==
  RecognitionInit /\ ask = [kind |-> "translate", size |-> 0, diarize |-> FALSE, history |-> FALSE]

Init ==
  \/ use = "session" /\ SessionInit /\ ClientIdle /\ RecognitionIdle
  \/ use = "client"  /\ SessionIdle /\ ClientInit /\ RecognitionIdle
  \/ use = "request" /\ SessionIdle /\ ClientIdle /\ RecognitionInit

SessionStep == use = "session" /\ SessionNext     /\ UNCHANGED <<use, clientVars, recognitionVars>>
CallStep    == use = "client"  /\ ClientNext      /\ UNCHANGED <<use, sessionVars, recognitionVars>>
RequestStep == use = "request" /\ RecognitionNext /\ UNCHANGED <<use, sessionVars, clientVars>>

Next == SessionStep \/ CallStep \/ RequestStep

(* The client's own steps and the server's session.end are taken when they *)
(* can be; the connection need not be lost and no source needs to fail.    *)
Fairness ==
  WF_vars(use = "client" /\ ClientStep /\ UNCHANGED <<use, sessionVars, recognitionVars>>)

Spec == Init /\ [][Next]_vars /\ Fairness

-----------------------------------------------------------------------------
(* The client's call ends, with an error or without, wherever and however  *)
(* often the connection is lost, unless the audio source itself raised     *)
(* (client/__init__.py:204).                                               *)
ClientEnds == use = "client" => <>(client \in {"returned", "raised"} \/ raised)
=============================================================================
