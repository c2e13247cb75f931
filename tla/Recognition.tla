----------------------------- MODULE Recognition -----------------------------
(* Audio that is transcribed when it is complete: an upload over HTTP, to  *)
(* transcribe or to translate (src/services/stt.py), and what a Wyoming    *)
(* client says up to its AudioStop (src/wyoming), of which the VAD keeps   *)
(* the speech only (src/vad/silero.py).  An upload is counted in bytes and *)
(* what Wyoming sends in windows of the VAD, of which it is a whole number *)
(* here.  The VAD tells its segments in milliseconds, and what is cut out  *)
(* for them is counted in samples of the client's own rate.                *)
EXTENDS Naturals, FiniteSets, SequencesExt

CONSTANTS MaxUpload, ReadSize,              \* OS_MAX_UPLOAD_MB, one read
          MinSpeechWindows, SilenceWindows, \* at least one each (silero.py:152)
          Second, WindowMs,                 \* 1000 and 32: milliseconds of a second
                                            \* and of a window
          Rates,                            \* the sample rates of Wyoming clients
          MaxFile,                          \* bound: the largest file anyone uploads
          MaxWindows, MaxStops              \* bound: how much a Wyoming client says

ASSUME RecognitionAssumption ==
  /\ {ReadSize, MinSpeechWindows, SilenceWindows, Second, WindowMs} \subseteq Nat \ {0}
  /\ Rates \subseteq Nat \ {0}
  /\ {MaxUpload, MaxFile, MaxWindows, MaxStops} \subseteq Nat

VARIABLES task,    \* where the handler is
          ask,     \* what was asked: an upload's kind, size, diarization and
                  \* history, or a Wyoming client's rate
          total,   \* bytes read
          chunks,  \* windows since the last Transcribe or answer: speech or not
          fed,     \* the pieces of the audio that the recognizer was given
          answer, logged, stops

recognitionVars == <<task, ask, total, chunks, fed, answer, logged, stops>>

Upload == [kind : {"transcribe", "translate"}, size : 0..MaxFile, diarize : BOOLEAN,
           history : BOOLEAN]
Wyoming == [kind : {"wyoming"}, rate : Rates]

RecognitionInit ==
  /\ ask \in Upload \cup Wyoming
  /\ task = IF ask.kind = "wyoming" THEN "event" ELSE "validate"
  /\ total = 0 /\ chunks = <<>> /\ fed = {}
  /\ answer = "none" /\ logged = FALSE /\ stops = 0

Answer(a) == task' = "answered" /\ answer' = a

(* The audio from one place up to, but without, another. *)
Piece(from, to) == [from |-> from, to |-> to]

-----------------------------------------------------------------------------
(* An unknown format, or diarization where it is switched off.             *)
Validate ==
  /\ task = "validate"
  /\ \/ Answer("400")
     \/ task' = "read" /\ UNCHANGED answer
  /\ UNCHANGED <<ask, total, chunks, fed, logged, stops>>

(* One read: at most one byte more than may be uploaded is ever held.      *)
Smaller(a, b) == IF a < b THEN a ELSE b
Want == Smaller(ReadSize, MaxUpload - total + 1)
Got  == Smaller(Want, ask.size - total)

Read ==
  /\ task = "read" /\ Got > 0
  /\ total' = total + Got
  /\ IF total' > MaxUpload THEN Answer("413") ELSE UNCHANGED <<task, answer>>
  /\ UNCHANGED <<ask, chunks, fed, logged, stops>>

EndOfFile ==
  /\ task = "read" /\ Got = 0
  /\ IF total = 0 THEN Answer("400") ELSE task' = "convert" /\ UNCHANGED answer
  /\ UNCHANGED <<ask, total, chunks, fed, logged, stops>>

(* ffmpeg, noise reduction, gain: on the event loop, and what they raise   *)
(* is nobody's answer but the server's own 500.                            *)
Convert ==
  /\ task = "convert"
  /\ \/ task' = "recognize" /\ fed' = {Piece(0, total)} /\ UNCHANGED answer
     \/ Answer("500") /\ UNCHANGED fed
  /\ UNCHANGED <<ask, total, chunks, logged, stops>>

(* The recognizer, in a pool thread: a text, audio it cannot decode, or a  *)
(* failure.  A translation has nothing to add to the text.                 *)
Recognize ==
  /\ task = "recognize" /\ ask.kind = "transcribe"
  /\ \/ task' = "log" /\ UNCHANGED answer
     \/ Answer("400") \/ Answer("500")
  /\ UNCHANGED <<ask, total, chunks, fed, logged, stops>>

Translate ==
  /\ task = "recognize" /\ ask.kind = "translate"
  /\ Answer("200") \/ Answer("400") \/ Answer("500")
  /\ UNCHANGED <<ask, total, chunks, fed, logged, stops>>

(* A history entry that cannot be written does not fail the request.       *)
LogHistory ==
  /\ task = "log"
  /\ logged' \in IF ask.history THEN BOOLEAN ELSE {FALSE}
  /\ IF ask.diarize THEN task' = "diarize" /\ UNCHANGED answer ELSE Answer("200")
  /\ UNCHANGED <<ask, total, chunks, fed, stops>>

(* Diarization comes last: a request that fails here has its entry.        *)
Diarize ==
  /\ task = "diarize"
  /\ Answer("200") \/ Answer("400") \/ Answer("500")
  /\ UNCHANGED <<ask, total, chunks, fed, logged, stops>>

-----------------------------------------------------------------------------
(* Wyoming's events.                                                       *)
Transcribe ==
  /\ task = "event" /\ chunks # <<>>
  /\ chunks' = <<>>
  /\ UNCHANGED <<task, ask, total, fed, answer, logged, stops>>

AudioChunk(speech) ==
  /\ task = "event" /\ total < MaxWindows
  /\ total' = total + 1
  /\ chunks' = Append(chunks, speech)
  /\ UNCHANGED <<task, ask, fed, answer, logged, stops>>

(* get_speech_segments: a segment is open while "from" is not 0, ends with *)
(* a long silence and is kept when it holds enough speech.                 *)
NoSegment == [from |-> 0, silent |-> 0, spoken |-> 0, kept |-> {}]

Segment(s, to) == IF s.from # 0 /\ s.spoken >= MinSpeechWindows THEN s.from..to ELSE {}

(* As a bug: silence adds up over the speech between.                      *)
JudgeWindowAddingUp(s, i) ==
  IF chunks[i]
  THEN [s EXCEPT !.from = IF @ = 0 THEN i ELSE @, !.spoken = @ + 1]
  ELSE IF s.from # 0 /\ s.silent + 1 >= SilenceWindows
  THEN [NoSegment EXCEPT !.kept = s.kept \cup Segment(s, i - 1)]
  ELSE [s EXCEPT !.silent = IF s.from = 0 THEN 0 ELSE @ + 1]

JudgeWindow(s, i) ==
  IF chunks[i]
  THEN [s EXCEPT !.from = IF @ = 0 THEN i ELSE @, !.silent = 0, !.spoken = @ + 1]
  ELSE IF s.from # 0 /\ s.silent + 1 >= SilenceWindows
  THEN [NoSegment EXCEPT !.kept = s.kept \cup Segment(s, i - 1)]
  ELSE [s EXCEPT !.silent = IF s.from = 0 THEN 0 ELSE @ + 1]

SpeechSegments ==
  LET s == FoldLeftDomain(JudgeWindow, NoSegment, chunks)
  IN s.kept \cup Segment(s, Len(chunks))

(* Where the i-th window ends, in samples times Second, and where it is cut *)
(* off for ending after so many milliseconds: rate // 1000 samples each.    *)
EndOf(i) == i * WindowMs * ask.rate
CutAt(i) == i * WindowMs * (ask.rate \div Second) * Second

Whole == Piece(0, EndOf(Len(chunks)))

(* Without a segment the audio is left as it is; so it is without a VAD,   *)
(* before the VAD is loaded and when it fails.  The windows of a segment   *)
(* are cut out end to end.                                                 *)
Extracted ==
  IF SpeechSegments = {} THEN {Whole}
  ELSE {Piece(CutAt(i - 1), CutAt(i)) : i \in SpeechSegments}

(* AudioStop with nothing said is not answered.  What preparing the audio  *)
(* raises ends the connection.                                             *)
AudioStop ==
  /\ task = "event" /\ stops < MaxStops
  /\ stops' = stops + 1
  /\ \/ chunks = <<>> /\ UNCHANGED <<task, fed, answer>>
     \/ /\ chunks # <<>>
        /\ fed' \in {Extracted, {Whole}}
        /\ task' = "recognize"
        /\ answer' = IF fed' = Extracted THEN "extracted" ELSE "whole"
     \/ chunks # <<>> /\ Answer("closed") /\ UNCHANGED fed
  /\ UNCHANGED <<ask, total, chunks, logged>>

(* The text, or an empty one when the recognizer fails.                    *)
Transcript ==
  /\ task = "recognize" /\ ask.kind = "wyoming"
  /\ task' = "event" /\ answer' \in {"text", "empty"}
  /\ chunks' = <<>> /\ fed' = {}
  /\ UNCHANGED <<ask, total, logged, stops>>

RecognitionNext ==
  \/ Validate \/ Read \/ EndOfFile \/ Convert \/ Recognize \/ Translate \/ LogHistory \/ Diarize
  \/ Transcribe \/ (\E speech \in BOOLEAN : AudioChunk(speech)) \/ AudioStop \/ Transcript

-----------------------------------------------------------------------------
(* Two windows of speech belong together unless a long silence is between. *)
Together(i, j) ==
  ~\E k \in i..j : /\ k + SilenceWindows - 1 <= j
                   /\ \A m \in k..(k + SilenceWindows - 1) : ~chunks[m]

Spoken == {i \in 1..Len(chunks) : chunks[i]}
LongSpeech ==
  {i \in Spoken : Cardinality({j \in Spoken : Together(i, j) /\ Together(j, i)}) >= MinSpeechWindows}

Heard(x) == \E p \in fed : p.from <= x /\ x < p.to

Span(i) == EndOf(i - 1)..(EndOf(i) - 1)

(* A segment that is open at window k ends with it: the audio does, or the *)
(* next window completes a long silence.                                   *)
EndsAt(k) ==
  \/ k = Len(chunks)
  \/ /\ SilenceWindows <= k + 1
     /\ \A m \in (k + 2 - SilenceWindows)..(k + 1) : ~chunks[m]

(* The recognizer is given all that counts: of an upload every byte, and   *)
(* never more than may be uploaded; of what a Wyoming client said all      *)
(* speech that is long enough, however pauses cut it, except what lies     *)
(* behind the place where the end of its segment is cut; and where there   *)
(* is such speech no shorter one, except what lies behind the place where  *)
(* the beginning of a later segment is cut, unless the VAD was not used.   *)
(* At a rate of whole thousands the cuts are where they should be, and     *)
(* nothing is excepted (services/stt.py:50, silero.py:127,                 *)
(* wyoming/stt_handler.py:93-99).                                          *)
HeardWhole ==
  task = "recognize" =>
    IF ask.kind # "wyoming"
    THEN fed = {Piece(0, ask.size)} /\ ask.size <= MaxUpload
    ELSE /\ \A i \in LongSpeech : \A x \in Span(i) :
              Heard(x) \/ (/\ answer = "extracted"
                          /\ \E k \in i..Len(chunks) : EndsAt(k) /\ CutAt(k) <= x)
         /\ answer = "extracted" /\ LongSpeech # {} =>
              \A j \in Spoken \ LongSpeech : \A x \in Span(j) :
                Heard(x) => \E i \in LongSpeech : j < i /\ CutAt(i - 1) <= x
=============================================================================
