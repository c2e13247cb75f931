------------------------- MODULE StreamingTranscript -------------------------
(* One WebSocket transcription session (src/streaming.py): audio comes in  *)
(* packets, is cut into chunks, the chunks into windows the VAD judges,    *)
(* and the windows are gathered into utterances that are transcribed after *)
(* every chunk and once more when they end.  Audio is counted in units and *)
(* a unit is its place in the stream.  A session is one task: a step is    *)
(* what it does up to the next message, window or transcription.           *)
EXTENDS Naturals, SequencesExt

CONSTANTS ChunkUnits, WindowUnits,
          MinUtterance, MaxUtterance,  \* 3200 bytes and 30 seconds
          Endpointing,                 \* the silence that ends an utterance
          MaxSessions,
          Packets,                     \* the packets a client may send
          MaxAudio,                    \* how much audio it sends
          Hypotheses                   \* what the recognizer may say, as words

ASSUME StreamingAssumption ==
  /\ {ChunkUnits, WindowUnits, MinUtterance, MaxUtterance, Endpointing} \subseteq Nat \ {0}
  /\ MaxSessions \in Nat /\ MaxAudio \in Nat /\ Packets \subseteq Nat \ {0}

VARIABLES step,         \* where the session's task is
          over,         \* why it stops reading: "no", "stop", "disconnect"
          vadEnabled,
          audioBuffer,  \* received, not yet a whole chunk
          vadBuffer,    \* of a chunk, not yet a whole window
          windows,      \* of a chunk, not yet judged
          judged,       \* how much audio the VAD has gone through
          active, silence, utterance, start,  \* the current utterance
          previous, confirmed,         \* its LocalAgreement2
          sessions,     \* how many sessions hold a place, this one included
          received,     \* units so far
          told,         \* the last vad event
          speech,       \* units that are speech: all of them without a VAD
          past,         \* the utterances that ended, one after the other
          transcript    \* the last final transcript: its times and its audio

place     == <<over, vadEnabled>>
buffers   == <<audioBuffer, vadBuffer, windows, judged>>
agreement == <<previous, confirmed>>
current   == <<active, silence, utterance, start, agreement>>
history   == <<speech, past, transcript>>
sessionVars == <<step, place, buffers, current, sessions, received, told, history>>

NoTranscript == [start |-> 0, end |-> 0, audio |-> <<>>]

SessionInit ==
  /\ step = "connect" /\ over = "no"
  /\ vadEnabled \in BOOLEAN
  /\ audioBuffer = <<>> /\ vadBuffer = <<>> /\ windows = <<>>
  /\ judged = 0
  /\ active = FALSE /\ silence = 0 /\ utterance = <<>> /\ start = 0
  /\ previous = <<>> /\ confirmed = <<>>
  /\ sessions \in 0..MaxSessions
  /\ received = 0 /\ told = "none"
  /\ speech = {} /\ past = <<>> /\ transcript = NoTranscript

Units(a, b) == [i \in 1..(b - a) |-> a + i]
From(s, n)  == SubSeq(s, n + 1, Len(s))
Window      == SubSeq(windows, 1, WindowUnits)

-----------------------------------------------------------------------------
(* The session takes a place or is closed with 1013.                       *)
Connect ==
  /\ step = "connect"
  /\ IF sessions >= MaxSessions THEN step' = "ended" /\ UNCHANGED sessions
                                ELSE step' = "load" /\ sessions' = sessions + 1
  /\ UNCHANGED <<place, buffers, current, received, told, history>>

(* The recognizer is loaded, and the VAD where it is used; a session whose *)
(* models cannot be loaded gives its place back.                           *)
LoadModel ==
  /\ step = "load"
  /\ \/ step' = (IF vadEnabled THEN "vad" ELSE "receive") /\ UNCHANGED sessions
     \/ step' = "ended" /\ sessions' = sessions - 1
  /\ UNCHANGED <<place, buffers, current, received, told, history>>

LoadVad ==
  /\ step = "vad"
  /\ \/ step' = "receive" /\ UNCHANGED sessions
     \/ step' = "ended" /\ sessions' = sessions - 1
  /\ UNCHANGED <<place, buffers, current, received, told, history>>

(* _handle_audio.                                                          *)
Packet(n) ==
  /\ step = "receive" /\ received + n <= MaxAudio
  /\ audioBuffer' = audioBuffer \o Units(received, received + n)
  /\ received' = received + n
  /\ speech' = IF vadEnabled THEN speech ELSE 1..received'
  /\ step' = "chunks"
  /\ UNCHANGED <<place, vadBuffer, windows, judged, current, sessions, told, past, transcript>>

(* As a bug: what is less than a chunk is not flushed.                     *)
LeaveUnflushed(why) ==
  /\ step = "receive"
  /\ over' = why
  /\ step' = "tail"
  /\ UNCHANGED <<vadEnabled, buffers, current, sessions, received, told, history>>

(* The client says stop or goes away: what is buffered is flushed.         *)
Leave(why) ==
  /\ step = "receive"
  /\ over' = why
  /\ step' = "chunks"
  /\ UNCHANGED <<vadEnabled, buffers, current, sessions, received, told, history>>

-----------------------------------------------------------------------------
(* The chunk to process: a whole one, and when flushing whatever is left.  *)
ChunkReady == IF over = "no" THEN Len(audioBuffer) >= ChunkUnits ELSE audioBuffer # <<>>
Chunk == IF over = "no" THEN SubSeq(audioBuffer, 1, ChunkUnits) ELSE audioBuffer

(* Without a VAD all audio is speech.                                      *)
HearChunk ==
  /\ step = "chunks" /\ ChunkReady /\ ~vadEnabled
  /\ audioBuffer' = From(audioBuffer, Len(Chunk))
  /\ active' = TRUE
  /\ utterance' = (IF active THEN utterance ELSE <<>>) \o Chunk
  /\ previous' = (IF active THEN previous ELSE <<>>)
  /\ confirmed' = (IF active THEN confirmed ELSE <<>>)
  /\ start' = (IF active THEN start ELSE received - Len(Chunk))
  /\ step' = IF Len(utterance') >= MaxUtterance THEN "final" ELSE "partial"
  /\ UNCHANGED <<place, vadBuffer, windows, judged, silence, sessions, received, told, history>>

(* With a VAD the chunk is cut into windows; the tail waits for the next.  *)
SplitChunk ==
  /\ step = "chunks" /\ ChunkReady /\ vadEnabled
  /\ audioBuffer' = From(audioBuffer, Len(Chunk))
  /\ LET pcm == vadBuffer \o Chunk
         n   == (Len(pcm) \div WindowUnits) * WindowUnits
     IN /\ windows' = SubSeq(pcm, 1, n)
        /\ vadBuffer' = From(pcm, n)
        /\ step' = IF n = 0 THEN "chunks" ELSE "windows"
  /\ UNCHANGED <<place, judged, current, sessions, received, told, history>>

NoChunk ==
  /\ step = "chunks" /\ ~ChunkReady
  /\ step' = IF over = "no" THEN "receive" ELSE "tail"
  /\ UNCHANGED <<place, buffers, current, sessions, received, told, history>>

(* A window of speech starts an utterance or goes on with it.              *)
SpeechWindow ==
  /\ step = "windows" /\ windows # <<>>
  /\ windows' = From(windows, WindowUnits) /\ judged' = judged + WindowUnits
  /\ active' = TRUE /\ silence' = 0
  /\ utterance' = (IF active THEN utterance ELSE <<>>) \o Window
  /\ previous' = (IF active THEN previous ELSE <<>>)
  /\ confirmed' = (IF active THEN confirmed ELSE <<>>)
  /\ start' = (IF active THEN start ELSE judged)
  /\ told' = (IF active THEN told ELSE "speech_start")
  /\ speech' = speech \cup ToSet(Window)
  /\ step' = IF Len(utterance') >= MaxUtterance THEN "final" ELSE "windows"
  /\ UNCHANGED <<place, audioBuffer, vadBuffer, sessions, received, past, transcript>>

(* A silent one belongs to the utterance, too, and may end it.             *)
SilentWindow ==
  /\ step = "windows" /\ windows # <<>>
  /\ windows' = From(windows, WindowUnits) /\ judged' = judged + WindowUnits
  /\ IF active
     THEN /\ silence' = silence + WindowUnits
          /\ utterance' = utterance \o Window
          /\ step' = IF Len(utterance') >= MaxUtterance \/ silence' >= Endpointing
                     THEN "final" ELSE "windows"
     ELSE UNCHANGED <<silence, utterance, step>>
  /\ UNCHANGED <<place, audioBuffer, vadBuffer, active, start, agreement, sessions, received,
                 told, history>>

WindowsDone ==
  /\ step = "windows" /\ windows = <<>>
  /\ step' = IF active THEN "partial" ELSE "chunks"
  /\ UNCHANGED <<place, buffers, current, sessions, received, told, history>>

-----------------------------------------------------------------------------
(* _transcribe_utterance: an utterance that is too short, an error and an  *)
(* empty text leave the agreement alone.                                   *)
NothingNew ==
  /\ step = "partial"
  /\ step' = "chunks"
  /\ UNCHANGED <<place, buffers, current, sessions, received, told, history>>

(* LocalAgreement2.process: the words two texts running begin with are     *)
(* confirmed, when they are more than were confirmed before.               *)
Agreed(text) == LongestCommonPrefix({previous, text})

Confirm(text) ==
  IF Len(Agreed(text)) > Len(confirmed) THEN Agreed(text) ELSE confirmed

Partial(text) ==
  /\ step = "partial" /\ Len(utterance) >= MinUtterance
  /\ confirmed' = Confirm(text)
  /\ previous' = text
  /\ step' = "chunks"
  /\ UNCHANGED <<place, buffers, active, silence, utterance, start, sessions, received, told,
                 history>>

(* _reset_utterance; the task goes back to where _finalize_utterance was   *)
(* called: the windows, the chunks, or the end of the flush.               *)
ResetUtterance ==
  /\ active' = FALSE /\ silence' = 0 /\ utterance' = <<>>
  /\ previous' = <<>> /\ confirmed' = <<>>

Return == step' = IF step = "last" THEN "closing"
                  ELSE IF vadEnabled THEN "windows" ELSE "chunks"

Finalizing == step \in {"final", "last"}

EndsSpeech == told' = IF vadEnabled THEN "speech_end" ELSE told

FinalShort ==
  /\ Finalizing /\ Len(utterance) < MinUtterance
  /\ ResetUtterance /\ Return /\ EndsSpeech
  /\ past' = past \o utterance
  /\ UNCHANGED <<place, buffers, start, sessions, received, speech, transcript>>

FinalFails ==
  /\ Finalizing /\ Len(utterance) >= MinUtterance
  /\ ResetUtterance /\ Return /\ EndsSpeech
  /\ past' = past \o utterance
  /\ UNCHANGED <<place, buffers, start, sessions, received, speech, transcript>>

FinalText ==
  /\ Finalizing /\ Len(utterance) >= MinUtterance
  /\ transcript' = [start |-> start, end |-> (IF vadEnabled THEN judged ELSE received),
                     audio |-> utterance]
  /\ EndsSpeech /\ ResetUtterance /\ Return
  /\ past' = past \o utterance
  /\ UNCHANGED <<place, buffers, start, sessions, received, speech>>

-----------------------------------------------------------------------------
(* The end of _flush: what is less than a window belongs to the utterance  *)
(* that is open, and is dropped without one.                               *)
FlushTail ==
  /\ step = "tail"
  /\ utterance' = IF active THEN utterance \o vadBuffer ELSE utterance
  /\ vadBuffer' = <<>> /\ judged' = judged + Len(vadBuffer)
  /\ step' = IF active /\ utterance' # <<>> THEN "last" ELSE "closing"
  /\ UNCHANGED <<place, audioBuffer, windows, active, silence, start, agreement, sessions, received,
                 told, history>>

(* session.end is sent and the place given back.                           *)
Close ==
  /\ step = "closing"
  /\ step' = "ended" /\ sessions' = sessions - 1
  /\ UNCHANGED <<place, buffers, current, received, told, history>>

SessionNext ==
  \/ Connect \/ LoadModel \/ LoadVad
  \/ \E n \in Packets : Packet(n)
  \/ Leave("stop") \/ Leave("disconnect")
  \/ HearChunk \/ SplitChunk \/ NoChunk
  \/ SpeechWindow \/ SilentWindow \/ WindowsDone
  \/ NothingNew \/ (\E text \in Hypotheses : Partial(text))
  \/ FinalShort \/ FinalFails \/ FinalText
  \/ FlushTail \/ Close

-----------------------------------------------------------------------------
(* Whatever way the packets, the chunks and the windows cut the audio, and *)
(* wherever an utterance is forced to end, the utterances hold it in order *)
(* and none of it twice, and when the session has ended every unit that    *)
(* was judged speech was in one of them (streaming.py:301, 535).           *)
SpeechOnce ==
  LET gathered == past \o utterance
  IN /\ \A i, j \in 1..Len(gathered) : i < j => gathered[i] < gathered[j]
     /\ step = "ended" => speech \subseteq ToSet(past)

=============================================================================
