--------------------------- MODULE RealtimeSession ---------------------------
(***************************************************************************)
(* One session of /v1/realtime: src/src/realtime/server.py.                *)
(*                                                                         *)
(* The receive loop handles one client event at a time; one response task  *)
(* at a time turns text into audio that a worker thread makes; a timer     *)
(* task cuts off a reply the user has talked over for too long.  Loop and  *)
(* response task share the socket through a lock that serves them in turn. *)
(*                                                                         *)
(* A step is what one of them runs between two awaits.  Left out: what is  *)
(* said, encodings, the pieces a chunk is cut into, and the further events *)
(* a GA session gets around the ones modelled, which are sent alike; and   *)
(* the threads of earlier replies, which hand over to queues nobody reads. *)
(***************************************************************************)
EXTENDS Naturals, Sequences

CONSTANTS
  Settings,     \* what session.update may set
  MaxReplies,   \* bound: response.create events
  MaxChunks,    \* bound: chunks a synthesis makes
  MaxTurns,     \* bound: times the user starts to speak
  MaxUpdates    \* bound: session.update events that change the settings

(* turn_detection: with interrupt_response, without it, or null; and       *)
(* whether user audio is transcribed (a GA session may turn that off).     *)
Defaults == [turns |-> "interrupt", transcribed |-> TRUE]

ASSUME SettingsAssumption ==
  Defaults \in Settings /\ Settings \subseteq [turns : {"interrupt", "listen", "off"}, transcribed : BOOLEAN]

ASSUME BoundAssumption ==
  MaxReplies \in Nat /\ MaxChunks \in Nat /\ MaxTurns \in Nat /\ MaxUpdates \in Nat

VARIABLES
  client,       \* "here" or "gone"
  settings,
  updates, turns,   \* bounds spent
  speaking,     \* InputAudioBuffer._in_speech
  loop,         \* where the receive loop is
  verdict,      \* what the transcript of the user's speech says
  task,         \* where _response_task is, "none" without one
  reply,        \* the reply it is about: how many there were
  cancellable,  \* _response_cancellable
  cancelling,   \* task.cancel() was called, CancelledError not yet raised
  marked,       \* the reply is in _cancelled_responses
  worker,       \* where _synthesize is, the thread that makes its audio
  made,         \* chunks it has handed over
  taken,        \* chunks the response task took from chunks_ready
  stop,         \* cancel_event is set
  pending,      \* _barge_in_pending
  gate,         \* _playback_gate is set
  timer,        \* _barge_in_timer: "off" or "armed"
  interrupter,  \* the reply whose end a fired timer awaits, 0 without one
  lock,         \* _send_lock: "free", or who has it
  say,          \* the event each sender waits to send
  heard,        \* what the client heard of the reply
  leak          \* audio it heard since the user spoke over the reply

bounds  == <<updates, turns>>
barge   == <<pending, gate, timer>>
work    == <<worker, made, taken, stop>>
told    == <<heard, leak>>
wire    == <<lock, say, heard, leak>>
answer  == <<task, reply, cancellable, cancelling, marked>>
user    == <<client, settings, updates, turns, speaking>>
vars    == <<client, settings, updates, turns, speaking, loop, verdict, task, reply,
             cancellable, cancelling, marked, worker, made, taken, stop, pending, gate,
             timer, interrupter, lock, say, heard, leak>>

Init ==
  /\ client = "here" /\ settings = Defaults
  /\ updates = 0 /\ turns = 0 /\ speaking = FALSE
  /\ loop = "idle" /\ verdict = "none"
  /\ task = "none" /\ reply = 0
  /\ cancellable = FALSE /\ cancelling = FALSE /\ marked = FALSE
  /\ worker = "none" /\ made = 0 /\ taken = 0 /\ stop = FALSE
  /\ pending = FALSE /\ gate = TRUE /\ timer = "off" /\ interrupter = 0
  /\ lock = "free" /\ say = [by \in {"loop", "task"} |-> "nothing"]
  /\ heard = <<>> /\ leak = 0

-----------------------------------------------------------------------------
(* _send.  The lock goes to whoever waits for it.  A send that finds it    *)
(* free is on the wire before anything else runs; it ends when the socket  *)
(* has drained.                                                            *)

Other(by) == IF by = "loop" THEN "task" ELSE "loop"

Hear(by, event) ==
  IF client = "gone" \/ by = "loop" \/ event = "error" THEN UNCHANGED told
  ELSE /\ heard' = Append(heard, event)
       /\ leak' = IF event = "delta" /\ pending THEN leak + 1 ELSE leak

(* Gives the lock back, or gives up waiting for it. *)
Hush(by) ==
  /\ say' = [say EXCEPT ![by] = "nothing"]
  /\ lock' = IF lock # by THEN lock
             ELSE IF say[Other(by)] # "nothing" THEN Other(by) ELSE "free"

Quiet(by) == Hush(by) /\ UNCHANGED told

(* The next send, after the last one of the same sender if it had one. *)
Say(by, event) ==
  IF lock \in {"free", by} /\ say[Other(by)] = "nothing"
  THEN lock' = by /\ say' = [say EXCEPT ![by] = "nothing"] /\ Hear(by, event)
  ELSE /\ lock' = Other(by) /\ say' = [say EXCEPT ![by] = event]
       /\ UNCHANGED told

(* The lock has come to one who waited, and the event goes out. *)
Granted(by) ==
  /\ lock = by /\ say[by] # "nothing"
  /\ by = "task" => ~cancelling
  /\ say' = [say EXCEPT ![by] = "nothing"]
  /\ Hear(by, say[by])
  /\ UNCHANGED <<user, loop, verdict, answer, work, barge, interrupter, lock>>

Sent(by) == lock = by /\ say[by] = "nothing"

-----------------------------------------------------------------------------
(* Barge-in and cancellation, as parts of the steps below. *)

(* Mutant: the playback gate stays closed. *)
EndBargeInClosed ==
  pending' = FALSE /\ timer' = "off" /\ UNCHANGED gate

(* _end_barge_in, without what the open gate does to the response task. *)
EndBargeIn == pending' = FALSE /\ gate' = TRUE /\ timer' = "off"

(* An event that is set lets its waiter through, closed again or not. *)
Woken == IF task = "held" /\ gate' THEN "woken" ELSE task

(* The reply has an id that a cancellation can be noted under. *)
Named == task \notin {"none", "new", "refused", "dead"}

Ended == task \in {"none", "dead"}

(* Mutant: the task is not cancelled, only told. *)
CancelReplyMarking ==
  /\ cancellable' = FALSE
  /\ marked' = Named
  /\ stop' = TRUE
  /\ UNCHANGED <<cancelling, reply, worker, made, taken>>

(* _cancel_response of a reply that can be cancelled, up to the await. *)
CancelReply ==
  /\ cancellable' = FALSE
  /\ marked' = Named
  /\ stop' = TRUE
  /\ cancelling' = TRUE
  /\ UNCHANGED <<reply, worker, made, taken>>

(* _interrupt, called by the receive loop. *)
LoopInterrupts ==
  /\ EndBargeIn
  /\ task' = Woken
  /\ IF cancellable THEN CancelReply /\ loop' = "joining"
     ELSE loop' = "idle" /\ UNCHANGED <<reply, cancellable, cancelling, marked, work>>

(* Mutant: speech that is no interruption is not resolved. *)
ResolveWords(words) ==
  IF pending /\ words = "words" THEN LoopInterrupts
  ELSE loop' = "idle" /\ UNCHANGED <<answer, work, barge>>

(* _resolve_barge_in, at the end of an event. *)
Resolve(words) ==
  IF pending /\ words = "words" THEN LoopInterrupts
  ELSE /\ IF pending THEN EndBargeIn ELSE UNCHANGED barge
       /\ task' = Woken /\ loop' = "idle"
       /\ UNCHANGED <<reply, cancellable, cancelling, marked, work>>

-----------------------------------------------------------------------------
(* The receive loop. *)

Reads == loop = "idle" /\ client = "here"

(* The user starts to speak, and stops; only a session with VAD notices. *)
SpeechStarts ==
  /\ Reads /\ settings.turns # "off" /\ ~speaking
  /\ turns < MaxTurns
  /\ turns' = turns + 1 /\ speaking' = TRUE
  /\ Say("loop", "speech_started") /\ loop' = "started"
  /\ UNCHANGED <<client, settings, updates, verdict, answer, work, barge, interrupter>>

SpeechStops ==
  /\ Reads /\ speaking
  /\ speaking' = FALSE
  /\ Say("loop", "speech_stopped") /\ loop' = "stopped"
  /\ UNCHANGED <<client, settings, bounds, verdict, answer, work, barge, interrupter>>

(* _on_user_speech_started: talking over a reply holds its audio, or, with *)
(* no transcript to come, ends it at once.                                 *)
OnUserSpeechStarted ==
  /\ loop = "started" /\ Sent("loop")
  /\ Hush("loop")
  /\ UNCHANGED heard
  /\ \/ /\ ~cancellable \/ settings.turns # "interrupt" \/ pending
        /\ loop' = "idle"
        /\ UNCHANGED <<answer, work, barge, leak>>
     \/ /\ cancellable /\ settings.turns = "interrupt" /\ ~pending
        /\ ~settings.transcribed
        /\ CancelReply /\ loop' = "joining"
        /\ UNCHANGED <<task, barge, leak>>
     \/ /\ cancellable /\ settings.turns = "interrupt" /\ ~pending
        /\ settings.transcribed
        /\ pending' = TRUE /\ gate' = FALSE /\ timer' = "armed"
        /\ leak' = 0
        /\ loop' = "idle"
        /\ UNCHANGED <<answer, work>>
  /\ UNCHANGED <<user, verdict, interrupter>>

(* _commit_and_transcribe.  Less than 50 ms of audio is not transcribed.   *)
CommitShort == Resolve("none")

CommitAudio ==
  /\ Say("loop", "committed") /\ loop' = "committed"
  /\ UNCHANGED <<answer, work>>

(* The end of the speech stops the timer and commits what was said. *)
SpeechStopped ==
  /\ loop = "stopped" /\ Sent("loop")
  /\ \/ /\ Quiet("loop")
        /\ IF pending THEN EndBargeIn ELSE timer' = "off" /\ UNCHANGED <<pending, gate>>
        /\ task' = Woken /\ loop' = "idle"
        /\ UNCHANGED <<reply, cancellable, cancelling, marked, work>>
     \/ /\ CommitAudio
        /\ timer' = "off" /\ UNCHANGED <<pending, gate>>
  /\ UNCHANGED <<user, verdict, interrupter>>

(* The client commits by itself, the user may still be speaking. *)
Commit ==
  /\ Reads
  /\ \/ CommitShort /\ UNCHANGED wire
     \/ CommitAudio /\ UNCHANGED barge
  /\ UNCHANGED <<user, verdict, interrupter>>

Committed ==
  /\ loop = "committed" /\ Sent("loop")
  /\ Quiet("loop")
  /\ IF settings.transcribed
     THEN loop' = "transcribing" /\ UNCHANGED <<answer, work, barge>>
     ELSE Resolve("none")
  /\ UNCHANGED <<user, verdict, interrupter>>

(* The transcript: words, or an acknowledgement, noise or an error. *)
Transcribed ==
  /\ loop = "transcribing"
  /\ verdict' \in {"words", "none"}
  /\ Say("loop", "transcript") /\ loop' = "told"
  /\ UNCHANGED <<user, answer, work, barge, interrupter>>

Told ==
  /\ loop = "told" /\ Sent("loop")
  /\ Quiet("loop")
  /\ Resolve(verdict) /\ verdict' = "none"
  /\ UNCHANGED <<user, interrupter>>

(* session.update.  New input settings bring a new, silent audio buffer. *)
Update ==
  /\ Reads
  /\ updates < MaxUpdates
  /\ \E new \in Settings \ {settings} :
       /\ settings' = new
       /\ speaking' = (speaking /\ new.turns = settings.turns)
  /\ updates' = updates + 1
  /\ Say("loop", "updated") /\ loop' = "replying"
  /\ UNCHANGED <<client, turns, verdict, answer, work, barge, interrupter>>

(* Any event that only gets an answer: clear, truncate, one that is not    *)
(* valid, audio that does not fit, or a second response.create.            *)
AnswerOnly ==
  /\ Reads
  /\ Say("loop", "answer") /\ loop' = "replying"
  /\ UNCHANGED <<user, verdict, answer, work, barge, interrupter>>

Answered ==
  /\ loop = "replying" /\ Sent("loop")
  /\ Quiet("loop") /\ loop' = "idle"
  /\ UNCHANGED <<user, verdict, answer, work, barge, interrupter>>

(* response.create, with no response in progress. *)
HandleResponseStart ==
  /\ Reads
  /\ Ended /\ reply < MaxReplies
  /\ task' = "new" /\ reply' = reply + 1
  /\ cancellable' = TRUE /\ marked' = FALSE
  /\ worker' = "none" /\ made' = 0 /\ taken' = 0 /\ stop' = FALSE
  /\ heard' = <<>>
  /\ UNCHANGED <<user, loop, verdict, cancelling, barge, interrupter, lock, say, leak>>

(* response.cancel. *)
HandleResponseCancel ==
  /\ Reads
  /\ cancellable
  /\ CancelReply /\ loop' = "joining"
  /\ UNCHANGED <<user, verdict, task, barge, interrupter, wire>>

(* The cancelled task is over: its handler returns. *)
LoopJoins ==
  /\ loop = "joining" /\ Ended
  /\ loop' = "idle" /\ task' = "none"
  /\ UNCHANGED <<user, verdict, reply, cancellable, cancelling, marked, work, barge,
                 interrupter, wire>>

(* The client leaves; the loop notices when it reads on. *)
Leave ==
  /\ client = "here"
  /\ client' = "gone"
  /\ UNCHANGED <<settings, updates, turns, speaking, loop, verdict, answer, work, barge,
                 interrupter, wire>>

(* The session was idle for too long: the client is told and cut off. *)
IdleTimeout ==
  /\ Reads
  /\ Say("loop", "idle_timeout") /\ loop' = "leaving"
  /\ UNCHANGED <<user, verdict, answer, work, barge, interrupter>>

CutOff ==
  /\ loop = "leaving" /\ Sent("loop")
  /\ Quiet("loop") /\ loop' = "idle" /\ client' = "gone"
  /\ UNCHANGED <<settings, updates, turns, speaking, verdict, answer, work, barge, interrupter>>

(* close: an unfinished reply is cancelled, and awaited in any case. *)
Close ==
  /\ loop = "idle" /\ client = "gone"
  /\ EndBargeIn
  /\ task' = Woken
  /\ loop' = "closing"
  /\ cancellable' = FALSE
  /\ stop' = (stop \/ cancellable)
  /\ cancelling' = (cancelling \/ cancellable)
  /\ UNCHANGED <<user, verdict, reply, marked, worker, made, taken, interrupter, wire>>

(* The slot of the session is free again. *)
Closed ==
  /\ loop = "closing" /\ Ended
  /\ loop' = "closed" /\ task' = "none"
  /\ UNCHANGED <<user, verdict, reply, cancellable, cancelling, marked, work, barge,
                 interrupter, wire>>

(* A session that is closed, and all its tasks and threads, stay so. *)
Rest ==
  /\ loop = "closed" /\ interrupter = 0
  /\ worker # "busy"
  /\ UNCHANGED vars

-----------------------------------------------------------------------------
(* The barge-in timer. *)

(* _barge_in_deadline: the user has talked over the reply for too long. *)
TimerFires ==
  /\ timer = "armed"
  /\ EndBargeIn
  /\ task' = Woken
  /\ IF cancellable
     THEN CancelReply /\ interrupter' = reply
     ELSE UNCHANGED <<reply, cancellable, cancelling, marked, work, interrupter>>
  /\ UNCHANGED <<user, loop, verdict, wire>>

(* Its await of the cancelled task ends, possibly after the next began. *)
InterrupterResumes ==
  /\ interrupter # 0
  /\ interrupter # reply \/ Ended
  /\ interrupter' = 0
  /\ task' = IF interrupter = reply THEN "none" ELSE task
  /\ UNCHANGED <<user, loop, verdict, reply, cancellable, cancelling, marked, work, barge, wire>>

-----------------------------------------------------------------------------
(* The response task: _run_response around _handle_response_create. *)

Runs(where) == task = where /\ ~cancelling

(* The end of _run_response. *)
EndTask ==
  /\ Quiet("task")
  /\ EndBargeIn
  /\ task' = "none" /\ cancellable' = FALSE /\ marked' = FALSE
  /\ UNCHANGED <<reply, cancelling, work>>

(* A reply without text or audio is refused, any other is announced.       *)
TaskBegins ==
  /\ Runs("new")
  /\ \/ Say("task", "error") /\ task' = "refused"
     \/ Say("task", "created") /\ task' = "announcing"
  /\ UNCHANGED <<user, loop, verdict, reply, cancellable, cancelling, marked, work, barge,
                 interrupter>>

Refused ==
  /\ Runs("refused") /\ Sent("task")
  /\ EndTask
  /\ UNCHANGED <<user, loop, verdict, interrupter>>

(* Settings of the reply that are not valid, or a synthesis that failed.   *)
Fails ==
  /\ Say("task", "error") /\ task' = "failing"
  /\ cancellable' = FALSE
  /\ UNCHANGED <<reply, cancelling, marked>>

Announced ==
  /\ Runs("announcing") /\ Sent("task")
  /\ \/ /\ Quiet("task") /\ task' = "taking"
        /\ worker' = "busy"
        /\ UNCHANGED <<reply, cancellable, cancelling, marked, made, taken, stop>>
     \/ Fails /\ UNCHANGED work
  /\ UNCHANGED <<user, loop, verdict, barge, interrupter>>

(* A cancelled reply says no more than that it is over. *)
FinishCancelled ==
  /\ Say("task", "done") /\ task' = "finishing"
  /\ cancellable' = FALSE
  /\ UNCHANGED <<reply, marked>>

(* Past the gate and the pacing: the next audio goes out. *)
SendDelta ==
  IF marked
  THEN FinishCancelled /\ stop' = TRUE /\ UNCHANGED <<cancelling, worker, made>>
  ELSE /\ Say("task", "delta") /\ task' = "sending"
       /\ UNCHANGED <<reply, cancellable, cancelling, marked, worker, made, stop>>

(* Mutant: the gate is not looked at. *)
PassGateAlways(paced) ==
  \/ SendDelta
  \/ /\ ~paced /\ task' = "pacing"
     /\ UNCHANGED <<reply, cancellable, cancelling, marked, worker, made, stop, wire>>

(* At the gate: closed, the audio is held; open, it is sent or paced. *)
PassGate(paced) ==
  \/ /\ ~gate /\ task' = "held"
     /\ UNCHANGED <<reply, cancellable, cancelling, marked, worker, made, stop, wire>>
  \/ gate /\ SendDelta
  \/ /\ gate /\ ~paced /\ task' = "pacing"
     /\ UNCHANGED <<reply, cancellable, cancelling, marked, worker, made, stop, wire>>

TakeChunk ==
  /\ Runs("taking")
  /\ taken < made
  /\ taken' = taken + 1
  /\ PassGate(FALSE)
  /\ UNCHANGED <<user, loop, verdict, barge, interrupter>>

(* The sleep that keeps the audio at most lead seconds ahead is over. *)
PacingEnds ==
  /\ Runs("pacing")
  /\ PassGate(TRUE)
  /\ UNCHANGED <<user, loop, verdict, taken, barge, interrupter>>

(* The gate was opened: whatever it is now, the wait for it is over. *)
HoldEnds ==
  /\ Runs("woken")
  /\ \/ SendDelta
     \/ /\ task' = "pacing"
        /\ UNCHANGED <<reply, cancellable, cancelling, marked, worker, made, stop, wire>>
  /\ UNCHANGED <<user, loop, verdict, taken, barge, interrupter>>

DeltaSent ==
  /\ Runs("sending") /\ Sent("task")
  /\ Quiet("task") /\ task' = "taking"
  /\ UNCHANGED <<user, loop, verdict, reply, cancellable, cancelling, marked, work, barge,
                 interrupter>>

(* The worker's None: no more chunks. *)
TakeEnd ==
  /\ Runs("taking")
  /\ worker # "busy" /\ taken = made
  /\ stop' = TRUE
  /\ task' = "collecting"
  /\ UNCHANGED <<user, loop, verdict, reply, cancellable, cancelling, marked, worker, made,
                 taken, barge, interrupter, wire>>

Collect ==
  /\ Runs("collecting")
  /\ IF worker = "failed" THEN Fails
     ELSE IF marked THEN FinishCancelled /\ UNCHANGED cancelling
     ELSE /\ Say("task", "audio_done") /\ task' = "concluding"
          /\ UNCHANGED <<reply, cancellable, cancelling, marked>>
  /\ UNCHANGED <<user, loop, verdict, work, barge, interrupter>>

(* Mutant: the reply can still be cancelled while its end is sent. *)
ConcludeCancellable ==
  /\ Runs("concluding") /\ Sent("task")
  /\ Say("task", "done") /\ task' = "finishing"
  /\ UNCHANGED <<user, loop, verdict, reply, cancellable, cancelling, marked, work, barge,
                 interrupter>>

(* From here on the reply can no longer be cancelled. *)
Conclude ==
  /\ Runs("concluding") /\ Sent("task")
  /\ Say("task", "done") /\ task' = "finishing"
  /\ cancellable' = FALSE
  /\ UNCHANGED <<user, loop, verdict, reply, cancelling, marked, work, barge, interrupter>>

Failed ==
  /\ Runs("failing") /\ Sent("task")
  /\ Say("task", "done") /\ task' = "finishing"
  /\ UNCHANGED <<user, loop, verdict, reply, cancellable, cancelling, marked, work, barge,
                 interrupter>>

Finished ==
  /\ Runs("finishing") /\ Sent("task")
  /\ EndTask
  /\ UNCHANGED <<user, loop, verdict, interrupter>>

(* CancelledError, at whatever await the task is.  Before its first step   *)
(* the task just ends, and no handler or finally of it runs.               *)
TaskCancelled ==
  /\ cancelling
  /\ cancelling' = FALSE
  /\ \/ /\ task = "new" /\ task' = "dead"
        /\ UNCHANGED <<reply, cancellable, marked, work, barge, wire>>
     \/ /\ task = "refused"
        /\ Quiet("task") /\ EndBargeIn
        /\ task' = "none" /\ cancellable' = FALSE /\ marked' = FALSE
        /\ UNCHANGED <<reply, work>>
     \/ /\ task \notin {"none", "new", "refused", "dead"}
        /\ FinishCancelled
        /\ stop' = TRUE
        /\ UNCHANGED <<worker, made, taken, barge>>
  /\ UNCHANGED <<user, loop, verdict, interrupter>>

-----------------------------------------------------------------------------
(* _synthesize, in a thread of the pool. *)

Synthesizes ==
  /\ worker = "busy" /\ ~stop
  /\ made < MaxChunks
  /\ made' = made + 1
  /\ UNCHANGED <<user, loop, verdict, answer, worker, taken, stop, barge, interrupter, wire>>

(* It has made all chunks or finds cancel_event set, or it fails. *)
SynthesisEnds ==
  /\ worker = "busy"
  /\ worker' \in {"ended", "failed"}
  /\ UNCHANGED <<user, loop, verdict, answer, made, taken, stop, barge, interrupter, wire>>

-----------------------------------------------------------------------------
Client ==
  \/ SpeechStarts \/ SpeechStops \/ Commit \/ Update \/ AnswerOnly
  \/ HandleResponseStart \/ HandleResponseCancel \/ Leave \/ IdleTimeout

Loop ==
  \/ OnUserSpeechStarted \/ SpeechStopped \/ Committed \/ Transcribed \/ Told
  \/ Answered \/ LoopJoins \/ CutOff \/ Close \/ Closed \/ Granted("loop")

Timer == TimerFires \/ InterrupterResumes

Response ==
  \/ TaskBegins \/ Refused \/ Announced \/ TakeChunk \/ PacingEnds \/ HoldEnds
  \/ DeltaSent \/ TakeEnd \/ Collect \/ Conclude \/ Failed \/ Finished
  \/ TaskCancelled \/ Granted("task")

Worker == Synthesizes \/ SynthesisEnds

Next == Client \/ Loop \/ Timer \/ Response \/ Worker \/ Rest

(* The event loop runs what is ready, the socket drains, a timer expires,  *)
(* a transcription and a synthesis come to an end.                         *)
Fairness ==
  /\ WF_vars(Loop) /\ WF_vars(TimerFires) /\ WF_vars(InterrupterResumes)
  /\ WF_vars(Response)
  /\ WF_vars(SynthesisEnds)

Spec == Init /\ [][Next]_vars /\ Fairness

-----------------------------------------------------------------------------
TypeOK ==
  /\ client \in {"here", "gone"} /\ settings \in Settings
  /\ updates \in 0..MaxUpdates /\ turns \in 0..MaxTurns /\ speaking \in BOOLEAN
  /\ loop \in {"idle", "started", "stopped", "committed", "transcribing", "told", "replying",
               "joining", "leaving", "closing", "closed"}
  /\ verdict \in {"words", "none"}
  /\ task \in {"none", "new", "dead", "refused", "announcing", "taking", "held", "woken",
               "pacing", "sending", "collecting", "concluding", "failing", "finishing"}
  /\ reply \in 0..MaxReplies
  /\ cancellable \in BOOLEAN /\ cancelling \in BOOLEAN /\ marked \in BOOLEAN
  /\ worker \in {"none", "busy", "ended", "failed"}
  /\ made \in 0..MaxChunks /\ taken \in 0..MaxChunks /\ stop \in BOOLEAN
  /\ pending \in BOOLEAN /\ gate \in BOOLEAN /\ timer \in {"off", "armed"}
  /\ interrupter \in 0..MaxReplies
  /\ lock \in {"free", "loop", "task"}
  /\ heard \in Seq({"created", "delta", "audio_done", "done"}) /\ leak \in 0..MaxChunks

(* Audio that is held while the user speaks over a reply is held by        *)
(* someone who will decide: the timer, or the receive loop on its way to   *)
(* the transcript (server.py:555-604, 608-686).  No path of an error, of   *)
(* speech too short, or of new settings leaves the gate shut for good.     *)
HoldHasDecider ==
  /\ pending = ~gate
  /\ pending => timer = "armed" \/ loop \in {"stopped", "committed", "transcribing", "told"}

(* Talked over, a reply gets at most the audio out that had passed the     *)
(* gate already (server.py:450-464).                                       *)
HeldAudioStays == leak <= 1

(* What the client hears of a reply: response.created, audio, its end, and *)
(* one response.done, before it hears of the next (server.py:266-283,      *)
(* 322-325, 371-520).  A reply cancelled while another event holds the     *)
(* socket may be done without having been created.                         *)
MayFollow(event) ==
  IF heard = <<>> THEN event \in {"created", "done"}
  ELSE LET last == heard[Len(heard)]
       IN \/ event = "done" /\ last # "done"
          \/ event \in {"delta", "audio_done"} /\ last \in {"created", "delta"}

ReplyInOrder ==
  [][heard' # heard =>
       IF reply' # reply THEN heard[Len(heard)] = "done"
       ELSE MayFollow(heard'[Len(heard')])]_vars

(* Once a reply is cancelled, by the client, by the user's words or by the *)
(* timer, the client hears no more of it than its end (server.py:507-543). *)
CancelSilences ==
  [][marked /\ heard' # heard /\ reply' = reply => heard' = Append(heard, "done")]_vars

(* A reply that was started ends, whatever is said over it and however     *)
(* the session goes on.                                                    *)
ReplyEnds == task # "none" ~> task = "none"
=============================================================================
