------------------------------ MODULE LiveSpeech ------------------------------
(***************************************************************************)
(* What a Live Reader client is promised by the events it receives on      *)
(* /v1/audio/speech/stream: the abstract specification that LiveReader     *)
(* implements.  The variables are what the client has heard, in order.     *)
(*                                                                         *)
(* A generation is the text between two cancellations; the client is told  *)
(* of each cancellation with response.cancelled.  Within a generation one  *)
(* response is open at a time, responses take up the text in order, the    *)
(* frames of a response are numbered without a gap, and nothing new starts *)
(* or sounds for a generation after its response.cancelled, nor between    *)
(* playback.paused and playback.resumed.                                   *)
(***************************************************************************)
EXTENDS Integers

CONSTANT
  Cues       \* the positions in the text that are spoken as a cue of several
             \* words, each of which has the whole cue as its source

VARIABLES
  cut,       \* generations the client was told are cancelled
  open,      \* the response in progress, or NoResponse
  closed,    \* id of the last response the client heard response.done for
  pos,       \* how far into the generation's text the events have come
  answered,  \* input_text.done events of the generation
  flawed,    \* a response of the generation ended with status "failed"
  quiet      \* playback.paused was heard, playback.resumed was not

speechVars == <<cut, open, closed, pos, answered, flawed, quiet>>

NoResponse == [id |-> 0, gen |-> -1, next |-> 0, ended |-> FALSE]

SpeechInit ==
  /\ cut = 0
  /\ open = NoResponse
  /\ closed = 0
  /\ pos = 0
  /\ answered = 0
  /\ flawed = FALSE
  /\ quiet = FALSE

(* No response of the current generation is in progress.  One of a         *)
(* cancelled generation may have been dropped without a response.done.     *)
Vacant == open.gen < cut

(* response.created: under a new id, for text not announced before, or for *)
(* further words of the cue that the last response ended in.               *)
HearCreated ==
  /\ Vacant /\ ~quiet
  /\ open'.id > open.id /\ open'.id > closed
  /\ open' = [id |-> open'.id, gen |-> cut, next |-> 0, ended |-> FALSE]
  /\ pos' > pos \/ (pos' = pos /\ pos \in Cues)
  /\ UNCHANGED <<cut, closed, answered, flawed, quiet>>

(* response.output_audio.delta: the next frame of the open response. *)
HearDelta ==
  /\ open.gen = cut /\ ~open.ended /\ ~quiet
  /\ open' = [open EXCEPT !.next = @ + 1]
  /\ UNCHANGED <<cut, closed, pos, answered, flawed, quiet>>

(* response.output_audio.done: no further frames; also while paused. *)
HearAudioDone ==
  /\ open.gen = cut /\ ~open.ended
  /\ open' = [open EXCEPT !.ended = TRUE]
  /\ UNCHANGED <<cut, closed, pos, answered, flawed, quiet>>

(* response.done: once per response.  Without a preceding audio.done its   *)
(* status is "failed".  It is the one event that can follow the            *)
(* response.cancelled of its own generation, when the cancellation slips   *)
(* between the two closing events of a response.                           *)
HearDone ==
  /\ open # NoResponse
  /\ open.ended \/ open.gen = cut
  /\ open' = NoResponse
  /\ closed' = open.id
  /\ flawed' = (flawed \/ ~open.ended)
  /\ UNCHANGED <<cut, pos, answered, quiet>>

(* input_text.skipped: a stretch of text with nothing to say. *)
HearSkipped ==
  /\ Vacant /\ ~quiet
  /\ pos' > pos
  /\ UNCHANGED <<cut, open, closed, answered, flawed, quiet>>

(* input_text.done: everything before the commit was announced before it,  *)
(* and everything announced later lies behind it.                          *)
HearTextDone ==
  /\ Vacant /\ ~quiet
  /\ pos' >= pos
  /\ answered' = answered + 1
  /\ UNCHANGED <<cut, open, closed, flawed, quiet>>

(* response.cancelled: generations are cancelled one after the other, and  *)
(* the text starts over.                                                   *)
HearCancelled ==
  /\ cut' = cut + 1
  /\ pos' = 0
  /\ answered' = 0
  /\ flawed' = FALSE
  /\ UNCHANGED <<open, closed, quiet>>

(* playback.paused and playback.resumed. *)
HearPlayback ==
  /\ quiet' = ~quiet
  /\ UNCHANGED <<cut, open, closed, pos, answered, flawed>>

SpeechNext ==
  \/ HearCreated \/ HearDelta \/ HearAudioDone \/ HearDone
  \/ HearSkipped \/ HearTextDone \/ HearCancelled \/ HearPlayback

SpeechSpec == SpeechInit /\ [][SpeechNext]_speechVars
=============================================================================
