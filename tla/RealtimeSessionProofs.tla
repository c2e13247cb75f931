------------------------ MODULE RealtimeSessionProofs ------------------------
(***************************************************************************)
(* Four promises of RealtimeSession for any number of replies, chunks,     *)
(* turns and changes of settings: audio that is held is held by someone    *)
(* who will decide, a cancelled reply falls silent, one that is talked     *)
(* over leaks a chunk at most, and the client hears of replies in order.   *)
(*                                                                         *)
(* The first is inductive.  The second rests on the shape a cancelled      *)
(* reply has: its task is to be hit by CancelledError, or says its end.    *)
(* The third counts what is past the gate when it shuts; the fourth ties   *)
(* what the task waits to send to the last event that was heard.           *)
(***************************************************************************)
EXTENDS RealtimeSession, TLAPS

(* The held audio. *)

LEMMA HoldInit == Init => HoldHasDecider
BY DEF Init, HoldHasDecider

(* Steps that end a barge-in, and steps that leave it alone. *)
LEMMA HoldKept ==
  ASSUME HoldHasDecider, UNCHANGED <<pending, gate>>,
         timer' = timer \/ loop' = "committed",
         loop' = loop \/ loop \notin {"stopped", "committed", "transcribing", "told"}
                      \/ loop' \in {"committed", "transcribing", "told"}
  PROVE  HoldHasDecider'
BY DEF HoldHasDecider

LEMMA HoldEnded == ASSUME EndBargeIn PROVE HoldHasDecider'
BY DEF HoldHasDecider, EndBargeIn

LEMMA HoldResolved ==
  ASSUME HoldHasDecider, NEW words, Resolve(words) PROVE HoldHasDecider'
BY HoldEnded DEF Resolve, LoopInterrupts, HoldHasDecider, barge

LEMMA HoldClient == ASSUME HoldHasDecider, Client PROVE HoldHasDecider'
<1>1. ASSUME Commit PROVE HoldHasDecider'
  <2>1. CASE CommitShort
    BY <2>1, HoldResolved DEF CommitShort
  <2>2. CASE CommitAudio /\ UNCHANGED barge
    BY <2>2, HoldKept DEF CommitAudio, barge
  <2> QED BY <1>1, <2>1, <2>2 DEF Commit
<1>2. ASSUME SpeechStarts \/ SpeechStops \/ Update \/ AnswerOnly \/ HandleResponseStart
             \/ HandleResponseCancel \/ Leave \/ IdleTimeout
      PROVE  UNCHANGED barge /\ (loop' = loop \/ loop = "idle")
  BY <1>2 DEF SpeechStarts, SpeechStops, Update, AnswerOnly, HandleResponseStart,
     HandleResponseCancel, Leave, IdleTimeout, Reads
<1>3. ASSUME UNCHANGED barge, loop' = loop \/ loop = "idle" PROVE HoldHasDecider'
  BY <1>3, HoldKept DEF barge
<1> QED BY <1>1, <1>2, <1>3 DEF Client

LEMMA HoldLoop == ASSUME HoldHasDecider, Loop PROVE HoldHasDecider'
<1>1. ASSUME OnUserSpeechStarted PROVE HoldHasDecider'
  <2>1. CASE UNCHANGED barge
    BY <1>1, <2>1, HoldKept DEF OnUserSpeechStarted, barge
  <2>2. CASE pending' = TRUE /\ gate' = FALSE /\ timer' = "armed"
    BY <2>2 DEF HoldHasDecider
  <2> QED BY <1>1, <2>1, <2>2 DEF OnUserSpeechStarted
<1>2. ASSUME SpeechStopped PROVE HoldHasDecider'
  <2>1. CASE EndBargeIn
    BY <2>1, HoldEnded
  <2>2. CASE ~pending /\ UNCHANGED <<pending, gate>>
    BY <2>2 DEF HoldHasDecider
  <2>3. CASE loop' = "committed" /\ UNCHANGED <<pending, gate>>
    BY <2>3, HoldKept
  <2> QED BY <1>2, <2>1, <2>2, <2>3 DEF SpeechStopped, CommitAudio
<1>3. ASSUME Committed \/ Told PROVE HoldHasDecider'
  <2>1. CASE \E words \in {"none", verdict} : Resolve(words)
    BY <2>1, HoldResolved
  <2>2. CASE loop' = "transcribing" /\ UNCHANGED barge
    BY <2>2, HoldKept DEF barge
  <2> QED BY <1>3, <2>1, <2>2 DEF Committed, Told
<1>4. ASSUME Close PROVE HoldHasDecider'
  BY <1>4, HoldEnded DEF Close
<1>5. ASSUME Transcribed \/ Answered \/ LoopJoins \/ CutOff \/ Closed \/ Granted("loop")
      PROVE  HoldHasDecider'
  BY <1>5, HoldKept DEF Transcribed, Answered, LoopJoins, CutOff, Closed, Granted, barge
<1> QED BY <1>1, <1>2, <1>3, <1>4, <1>5 DEF Loop

LEMMA HoldOthers ==
  ASSUME HoldHasDecider, Timer \/ Response \/ Worker \/ Rest \/ UNCHANGED vars
  PROVE  HoldHasDecider'
<1>1. ASSUME TimerFires \/ Refused \/ Finished PROVE HoldHasDecider'
  BY <1>1, HoldEnded DEF TimerFires, Refused, Finished, EndTask
<1>2. ASSUME InterrupterResumes \/ Worker \/ Rest \/ UNCHANGED vars PROVE HoldHasDecider'
  BY <1>2, HoldKept DEF InterrupterResumes, Worker, Synthesizes, SynthesisEnds, Rest, vars, barge
<1>3. ASSUME TaskBegins \/ Announced \/ TakeChunk \/ PacingEnds \/ HoldEnds \/ DeltaSent
             \/ TakeEnd \/ Collect \/ Conclude \/ Failed \/ Granted("task")
      PROVE  HoldHasDecider'
  BY <1>3, HoldKept DEF TaskBegins, Announced, TakeChunk, PacingEnds, HoldEnds, DeltaSent,
     TakeEnd, Collect, Conclude, Failed, Granted, barge
<1>4. ASSUME TaskCancelled PROVE HoldHasDecider'
  BY <1>4, HoldEnded, HoldKept DEF TaskCancelled, barge
<1> QED BY <1>1, <1>2, <1>3, <1>4 DEF Timer, Response

(* No error, no change of settings and no speech too short to transcribe   *)
(* leaves a reply held for good (server.py:555-604, 608-686).              *)
THEOREM HeldAudioIsDecided == Spec => []HoldHasDecider
<1>1. HoldHasDecider /\ [Next]_vars => HoldHasDecider'
  BY HoldClient, HoldLoop, HoldOthers DEF Next
<1> QED BY HoldInit, <1>1, PTL DEF Spec

-----------------------------------------------------------------------------
(* The cancelled reply. *)

(* A reply that is marked as cancelled is about to be interrupted, or says *)
(* its end; and a task that says its end says nothing else.                *)
MarkedEnds == marked => Named /\ (cancelling \/ task = "finishing")
EndIsLast  == task = "finishing" => say["task"] \in {"nothing", "done"}
SayTyped   == DOMAIN say = {"loop", "task"}
Silenced   == MarkedEnds /\ EndIsLast /\ SayTyped

Falls == marked /\ heard' # heard /\ reply' = reply => heard' = Append(heard, "done")

LEMMA SilencedInit == Init => Silenced
BY DEF Init, Silenced, MarkedEnds, EndIsLast, SayTyped

(* What a send of the loop, and of the task, does to the task's own line. *)
LEMMA LoopSends ==
  ASSUME SayTyped, NEW event, Say("loop", event) \/ Quiet("loop") \/ Hush("loop") \/ UNCHANGED wire
  PROVE  SayTyped' /\ say'["task"] = say["task"]
BY DEF SayTyped, Say, Quiet, Hush, Other, wire

LEMMA LoopUnheard ==
  ASSUME NEW event, Say("loop", event) \/ Quiet("loop") \/ UNCHANGED wire
  PROVE  UNCHANGED heard
BY DEF Say, Quiet, Hear, told, wire

LEMMA TaskSends ==
  ASSUME SayTyped, NEW event, Say("task", event)
  PROVE  SayTyped' /\ say'["task"] \in {"nothing", event}
BY DEF SayTyped, Say, Other

LEMMA TaskHushes ==
  ASSUME SayTyped, Quiet("task")
  PROVE  SayTyped' /\ say'["task"] = "nothing" /\ UNCHANGED heard
BY DEF SayTyped, Quiet, Hush, told

(* What others may do to the task: cancel it, wake it, or bury it. *)
Cancels ==
  \/ marked' = marked /\ (cancelling => cancelling')
  \/ marked' = Named /\ cancelling' = TRUE

LEMMA OutsideTheTask ==
  ASSUME Silenced, SayTyped', say'["task"] = say["task"], Cancels,
         \/ task' \in {task, "woken"} /\ (task' # task => task = "held")
         \/ Ended /\ task' = "none"
  PROVE  Silenced'
<1>1. EndIsLast'
  BY DEF Silenced, EndIsLast
<1>2. marked' => Named /\ (cancelling' \/ task = "finishing")
  <2>1. CASE marked' = marked /\ (cancelling => cancelling')
    BY <2>1 DEF Silenced, MarkedEnds
  <2>2. CASE marked' = Named /\ cancelling' = TRUE
    BY <2>2
  <2> QED BY <2>1, <2>2 DEF Cancels
<1>3. MarkedEnds'
  BY <1>2 DEF MarkedEnds, Named, Ended
<1> QED BY <1>1, <1>3 DEF Silenced

LEMMA WokenFacts == task' = Woken => task' \in {task, "woken"} /\ (task' # task => task = "held")
BY DEF Woken

LEMMA ResolveCancels ==
  ASSUME NEW words, Resolve(words) PROVE Cancels /\ task' = Woken
BY DEF Resolve, LoopInterrupts, CancelReply, Cancels

LEMMA SilencedClient == ASSUME Silenced, Client PROVE Silenced' /\ Falls
<1>1. ASSUME SpeechStarts \/ SpeechStops \/ Update \/ AnswerOnly \/ IdleTimeout
      PROVE  Silenced' /\ Falls
  <2>1. \E event : Say("loop", event)
    BY <1>1 DEF SpeechStarts, SpeechStops, Update, AnswerOnly, IdleTimeout
  <2>2. SayTyped' /\ say'["task"] = say["task"] /\ UNCHANGED heard
    BY <2>1, LoopSends, LoopUnheard DEF Silenced
  <2>3. Cancels /\ task' = task
    BY <1>1 DEF SpeechStarts, SpeechStops, Update, AnswerOnly, IdleTimeout, answer, Cancels
  <2> QED BY <2>2, <2>3, OutsideTheTask DEF Falls
<1>2. ASSUME Commit PROVE Silenced' /\ Falls
  <2>1. CASE CommitShort /\ UNCHANGED wire
    <3>1. Cancels /\ task' = Woken
      BY <2>1, ResolveCancels DEF CommitShort
    <3>2. SayTyped' /\ say'["task"] = say["task"] /\ UNCHANGED heard
      BY <2>1 DEF wire, Silenced, SayTyped
    <3> QED BY <3>1, <3>2, WokenFacts, OutsideTheTask DEF Falls
  <2>2. CASE CommitAudio
    <3>1. SayTyped' /\ say'["task"] = say["task"] /\ UNCHANGED heard
      BY <2>2, LoopSends, LoopUnheard DEF CommitAudio, Silenced
    <3>2. Cancels /\ task' = task
      BY <2>2 DEF CommitAudio, answer, Cancels
    <3> QED BY <3>1, <3>2, OutsideTheTask DEF Falls
  <2> QED BY <1>2, <2>1, <2>2 DEF Commit
<1>3. ASSUME HandleResponseStart PROVE Silenced' /\ Falls
  <2>1. task' = "new" /\ ~marked' /\ UNCHANGED say
    BY <1>3 DEF HandleResponseStart
  <2>2. ~marked
    BY <1>3 DEF HandleResponseStart, Ended, Silenced, MarkedEnds, Named
  <2> QED BY <2>1, <2>2 DEF Silenced, MarkedEnds, EndIsLast, SayTyped, Falls
<1>4. ASSUME HandleResponseCancel \/ Leave PROVE Silenced' /\ Falls
  <2>1. UNCHANGED <<say, heard, task>>
    BY <1>4 DEF HandleResponseCancel, Leave, wire, answer
  <2>2. Cancels
    BY <1>4 DEF HandleResponseCancel, CancelReply, Leave, answer, Cancels
  <2>3. SayTyped'
    BY <2>1 DEF Silenced, SayTyped
  <2> QED BY <2>1, <2>2, <2>3, OutsideTheTask DEF Falls
<1> QED BY <1>1, <1>2, <1>3, <1>4 DEF Client

LEMMA SilencedLoop == ASSUME Silenced, Loop PROVE Silenced' /\ Falls
<1>1. ASSUME Granted("loop") PROVE Silenced' /\ Falls
  <2>1. say' = [say EXCEPT !["loop"] = "nothing"] /\ UNCHANGED heard /\ UNCHANGED answer
    BY <1>1 DEF Granted, Hear, told
  <2>2. SayTyped' /\ say'["task"] = say["task"]
    BY <2>1 DEF Silenced, SayTyped
  <2> QED BY <2>1, <2>2, OutsideTheTask DEF answer, Cancels, Falls
<1>2. ASSUME OnUserSpeechStarted PROVE Silenced' /\ Falls
  <2>1. SayTyped' /\ say'["task"] = say["task"] /\ UNCHANGED heard
    BY <1>2, LoopSends DEF OnUserSpeechStarted, Silenced
  <2>2. Cancels /\ task' = task
    BY <1>2 DEF OnUserSpeechStarted, CancelReply, answer, Cancels
  <2> QED BY <2>1, <2>2, OutsideTheTask DEF Falls
<1>3. ASSUME SpeechStopped PROVE Silenced' /\ Falls
  <2>1. SayTyped' /\ say'["task"] = say["task"] /\ UNCHANGED heard
    BY <1>3, LoopSends, LoopUnheard DEF SpeechStopped, CommitAudio, Silenced
  <2>2. Cancels /\ (task' = task \/ task' = Woken)
    BY <1>3 DEF SpeechStopped, CommitAudio, answer, Cancels
  <2> QED BY <2>1, <2>2, WokenFacts, OutsideTheTask DEF Falls
<1>4. ASSUME Committed \/ Told PROVE Silenced' /\ Falls
  <2>1. SayTyped' /\ say'["task"] = say["task"] /\ UNCHANGED heard
    BY <1>4, LoopSends, LoopUnheard DEF Committed, Told, Silenced
  <2>2. Cancels /\ (task' = task \/ task' = Woken)
    BY <1>4, ResolveCancels DEF Committed, Told, answer, Cancels
  <2> QED BY <2>1, <2>2, WokenFacts, OutsideTheTask DEF Falls
<1>5. ASSUME Transcribed \/ Answered \/ CutOff PROVE Silenced' /\ Falls
  <2>1. SayTyped' /\ say'["task"] = say["task"] /\ UNCHANGED heard
    BY <1>5, LoopSends, LoopUnheard DEF Transcribed, Answered, CutOff, Silenced
  <2>2. Cancels /\ task' = task
    BY <1>5 DEF Transcribed, Answered, CutOff, answer, Cancels
  <2> QED BY <2>1, <2>2, OutsideTheTask DEF Falls
<1>6. ASSUME LoopJoins \/ Close \/ Closed PROVE Silenced' /\ Falls
  <2>1. SayTyped' /\ UNCHANGED <<say, heard>>
    BY <1>6 DEF LoopJoins, Close, Closed, wire, Silenced, SayTyped
  <2>2. task' = Woken \/ (Ended /\ task' = "none")
    BY <1>6 DEF LoopJoins, Close, Closed
  <2>3. Cancels
    <3>1. CASE LoopJoins \/ Closed
      BY <3>1 DEF LoopJoins, Closed, Cancels
    <3>2. CASE Close
      <4>1. marked' = marked /\ cancelling' = (cancelling \/ cancellable)
        BY <3>2 DEF Close
      <4>2. CASE cancellable
        BY <4>1, <4>2 DEF Cancels
      <4>3. CASE ~cancellable
        BY <4>1, <4>3 DEF Cancels
      <4> QED BY <4>2, <4>3
    <3> QED BY <1>6, <3>1, <3>2
  <2> QED BY <2>1, <2>2, <2>3, WokenFacts, OutsideTheTask DEF Falls
<1> QED BY <1>1, <1>2, <1>3, <1>4, <1>5, <1>6 DEF Loop

LEMMA SilencedOthers ==
  ASSUME Silenced, Timer \/ Worker \/ Rest \/ UNCHANGED vars PROVE Silenced' /\ Falls
<1>1. SayTyped' /\ UNCHANGED <<say, heard>>
  BY DEF Timer, TimerFires, InterrupterResumes, Worker, Synthesizes, SynthesisEnds, Rest, vars,
     wire, Silenced, SayTyped
<1>2. Cancels
  BY DEF Timer, TimerFires, InterrupterResumes, CancelReply, Worker, Synthesizes, SynthesisEnds,
     Rest, vars, answer, Cancels
<1>3. task' = Woken \/ task' = task \/ (Ended /\ task' = "none")
  BY DEF Timer, TimerFires, InterrupterResumes, Worker, Synthesizes, SynthesisEnds, Rest, vars,
     answer
<1> QED BY <1>1, <1>2, <1>3, WokenFacts, OutsideTheTask DEF Falls

(* The task itself: marked, it is interrupted or has said its end. *)
LEMMA SilencedResponse == ASSUME Silenced, Response PROVE Silenced' /\ Falls
<1>1. ASSUME TaskBegins \/ Refused \/ Announced \/ TakeChunk \/ PacingEnds \/ HoldEnds
             \/ DeltaSent \/ TakeEnd \/ Collect \/ Conclude \/ Failed
      PROVE  ~marked
  BY <1>1 DEF TaskBegins, Refused, Announced, TakeChunk, PacingEnds, HoldEnds, DeltaSent, TakeEnd,
     Collect, Conclude, Failed, Runs, Silenced, MarkedEnds
<1>2. ASSUME Refused \/ Finished PROVE Silenced' /\ Falls
  <2>1. SayTyped' /\ UNCHANGED heard /\ task' = "none" /\ ~marked'
    BY <1>2, TaskHushes DEF Refused, Finished, EndTask, Silenced
  <2> QED BY <2>1 DEF Silenced, MarkedEnds, EndIsLast, Falls
<1>3. ASSUME TaskBegins \/ DeltaSent \/ TakeEnd PROVE Silenced' /\ Falls
  <2>0. ~marked
    BY <1>1, <1>3
  <2>1. ~marked /\ ~marked' /\ task' # "finishing"
    BY <2>0, <1>3 DEF TaskBegins, DeltaSent, TakeEnd
  <2>2. SayTyped'
    BY <1>3, TaskSends, TaskHushes DEF TaskBegins, DeltaSent, TakeEnd, wire, Silenced, SayTyped
  <2> QED BY <2>1, <2>2 DEF Silenced, MarkedEnds, EndIsLast, Falls
<1>4. ASSUME Announced \/ Collect PROVE Silenced' /\ Falls
  <2>0. ~marked
    BY <1>1, <1>4
  <2>1. ~marked /\ ~marked' /\ task' # "finishing"
    BY <2>0, <1>4 DEF Announced, Collect, Fails
  <2>2. SayTyped'
    BY <2>0, <1>4, TaskSends, TaskHushes DEF Announced, Collect, Fails, Silenced
  <2> QED BY <2>1, <2>2 DEF Silenced, MarkedEnds, EndIsLast, Falls
<1>5. ASSUME TakeChunk \/ PacingEnds \/ HoldEnds PROVE Silenced' /\ Falls
  <2>0. ~marked
    BY <1>1, <1>5
  <2>1. ~marked /\ ~marked' /\ task' # "finishing"
    BY <2>0, <1>5 DEF TakeChunk, PacingEnds, HoldEnds, PassGate, SendDelta
  <2>2. SayTyped'
    BY <2>0, <1>5, TaskSends DEF TakeChunk, PacingEnds, HoldEnds, PassGate, SendDelta, wire,
       Silenced, SayTyped
  <2> QED BY <2>1, <2>2 DEF Silenced, MarkedEnds, EndIsLast, Falls
<1>6. ASSUME Conclude \/ Failed PROVE Silenced' /\ Falls
  <2>0. ~marked
    BY <1>1, <1>6
  <2>1. ~marked /\ ~marked' /\ Say("task", "done")
    BY <2>0, <1>6 DEF Conclude, Failed
  <2> QED BY <2>1, TaskSends DEF Silenced, MarkedEnds, EndIsLast, Falls
<1>7. ASSUME Granted("task") PROVE Silenced' /\ Falls
  <2>1. UNCHANGED answer /\ ~cancelling /\ say' = [say EXCEPT !["task"] = "nothing"]
    BY <1>7 DEF Granted
  <2>2. Silenced'
    BY <2>1 DEF answer, Silenced, MarkedEnds, EndIsLast, SayTyped, Named
  <2>3. ASSUME marked PROVE say["task"] = "done"
    BY <1>7, <2>1, <2>3 DEF Granted, Silenced, MarkedEnds, EndIsLast
  <2>4. Falls
    BY <1>7, <2>3 DEF Granted, Hear, told, Falls
  <2> QED BY <2>2, <2>4
<1>8. ASSUME TaskCancelled PROVE Silenced' /\ Falls
  <2>1. CASE task = "new" /\ task' = "dead" /\ UNCHANGED <<marked, wire>>
    BY <2>1 DEF wire, Silenced, MarkedEnds, EndIsLast, SayTyped, Named, Falls
  <2>2. CASE Quiet("task") /\ task' = "none" /\ marked' = FALSE
    BY <2>2, TaskHushes DEF Silenced, MarkedEnds, EndIsLast, Falls
  <2>3. CASE FinishCancelled
    <3>1. Say("task", "done") /\ task' = "finishing"
      BY <2>3 DEF FinishCancelled
    <3>2. Silenced'
      BY <3>1, TaskSends DEF Silenced, MarkedEnds, EndIsLast, Named
    <3>3. Falls
      BY <3>1 DEF Say, Hear, told, Falls
    <3> QED BY <3>2, <3>3
  <2> QED BY <1>8, <2>1, <2>2, <2>3 DEF TaskCancelled
<1> QED BY <1>2, <1>3, <1>4, <1>5, <1>6, <1>7, <1>8 DEF Response

LEMMA SilencedStep == ASSUME Silenced, [Next]_vars PROVE Silenced' /\ Falls
BY SilencedClient, SilencedLoop, SilencedOthers, SilencedResponse DEF Next

(* The client hears nothing of a cancelled reply but its end               *)
(* (server.py:507-543), on whichever of the three ways it was cancelled.   *)
THEOREM CancelledFallsSilent == Spec => CancelSilences
<1>1. Silenced /\ [Next]_vars => Silenced'
  BY SilencedStep
<1>2. Silenced /\ [Next]_vars =>
        [marked /\ heard' # heard /\ reply' = reply => heard' = Append(heard, "done")]_vars
  BY SilencedStep DEF Falls
<1> QED BY SilencedInit, <1>1, <1>2, PTL DEF Spec, CancelSilences

-----------------------------------------------------------------------------
(* The audio that leaks. *)

(* Only the task that sends waits to send audio, and while the user is not *)
(* decided about it is the one chunk that had passed the gate.             *)
DeltaSends == say["task"] = "delta" => task = "sending"
OnePasses  == pending /\ (task = "woken" \/ say["task"] = "delta") => leak = 0
LeakInv    == leak \in {0, 1} /\ DeltaSends /\ OnePasses

LEMMA LeakInit == Init => LeakInv
BY DEF Init, LeakInv, DeltaSends, OnePasses

(* What a step that is not the task's may do to it. *)
TaskLeftAlone == task' = task \/ task' = Woken \/ (Ended /\ task' = "none")

LEMMA LeakOutside ==
  ASSUME LeakInv, HoldHasDecider', say'["task"] = say["task"],
         \/ leak' = 0 /\ task' = task
         \/ leak' = leak /\ (pending' => pending) /\ TaskLeftAlone
  PROVE  LeakInv'
<1>1. CASE leak' = 0 /\ task' = task
  BY <1>1 DEF LeakInv, DeltaSends, OnePasses
<1>2. CASE leak' = leak /\ (pending' => pending) /\ TaskLeftAlone
  <2>1. CASE task' = task
    BY <1>2, <2>1 DEF LeakInv, DeltaSends, OnePasses
  <2>2. CASE task = "held" /\ task' = "woken" /\ gate'
    BY <1>2, <2>2 DEF LeakInv, DeltaSends, OnePasses, HoldHasDecider
  <2>3. CASE Ended /\ task' = "none"
    BY <1>2, <2>3 DEF LeakInv, DeltaSends, OnePasses, Ended
  <2> QED BY <1>2, <2>1, <2>2, <2>3 DEF TaskLeftAlone, Woken
<1> QED BY <1>1, <1>2

(* The loop's sends are not of the reply, and leave the task's line alone. *)
LEMMA LoopLeaksNothing ==
  ASSUME SayTyped, NEW event,
         Say("loop", event) \/ Quiet("loop") \/ Granted("loop") \/ UNCHANGED wire
  PROVE  say'["task"] = say["task"] /\ UNCHANGED told
BY DEF SayTyped, Say, Quiet, Hush, Granted, Hear, Other, told, wire

LEMMA ResolveLeavesTask ==
  ASSUME NEW words, Resolve(words)
  PROVE  task' = Woken /\ (pending' => pending)
BY DEF Resolve, LoopInterrupts, EndBargeIn, barge

LEMMA LeakClient ==
  ASSUME LeakInv, SayTyped, HoldHasDecider', Client PROVE LeakInv'
<1>1. ASSUME SpeechStarts \/ SpeechStops \/ Update \/ AnswerOnly \/ IdleTimeout
      PROVE  LeakInv'
  <2>1. \E event : Say("loop", event)
    BY <1>1 DEF SpeechStarts, SpeechStops, Update, AnswerOnly, IdleTimeout
  <2>2. UNCHANGED <<task, pending>>
    BY <1>1 DEF SpeechStarts, SpeechStops, Update, AnswerOnly, IdleTimeout, answer, barge
  <2> QED BY <2>1, <2>2, LoopLeaksNothing, LeakOutside DEF told, TaskLeftAlone
<1>2. ASSUME Commit PROVE LeakInv'
  <2>1. \E event : Say("loop", event) \/ UNCHANGED wire
    BY <1>2 DEF Commit, CommitAudio
  <2>2. TaskLeftAlone /\ (pending' => pending)
    BY <1>2, ResolveLeavesTask DEF Commit, CommitShort, CommitAudio, answer, barge, TaskLeftAlone
  <2> QED BY <2>1, <2>2, LoopLeaksNothing, LeakOutside DEF told
<1>3. ASSUME HandleResponseStart PROVE LeakInv'
  <2>1. UNCHANGED <<say, leak, pending>> /\ task' = "new" /\ Ended
    BY <1>3 DEF HandleResponseStart, barge
  <2> QED BY <2>1 DEF LeakInv, DeltaSends, OnePasses, Ended
<1>4. ASSUME HandleResponseCancel \/ Leave PROVE LeakInv'
  <2>1. UNCHANGED <<say, leak, pending, task>>
    BY <1>4 DEF HandleResponseCancel, Leave, wire, answer, barge
  <2> QED BY <2>1, LeakOutside DEF TaskLeftAlone
<1> QED BY <1>1, <1>2, <1>3, <1>4 DEF Client

LEMMA LeakLoop ==
  ASSUME LeakInv, SayTyped, HoldHasDecider', Loop PROVE LeakInv'
<1>1. ASSUME OnUserSpeechStarted PROVE LeakInv'
  <2>1. say'["task"] = say["task"]
    BY <1>1, LoopSends DEF OnUserSpeechStarted
  <2>2. CASE leak' = 0 /\ task' = task
    BY <2>1, <2>2, LeakOutside
  <2>3. CASE UNCHANGED <<leak, pending, task>>
    BY <2>1, <2>3, LeakOutside DEF TaskLeftAlone
  <2> QED BY <1>1, <2>2, <2>3 DEF OnUserSpeechStarted, answer, barge
<1>2. ASSUME SpeechStopped PROVE LeakInv'
  <2>1. \E event : Say("loop", event) \/ Quiet("loop")
    BY <1>2 DEF SpeechStopped, CommitAudio
  <2>2. TaskLeftAlone /\ (pending' => pending)
    BY <1>2 DEF SpeechStopped, CommitAudio, EndBargeIn, answer, TaskLeftAlone
  <2> QED BY <2>1, <2>2, LoopLeaksNothing, LeakOutside DEF told
<1>3. ASSUME Committed \/ Told PROVE LeakInv'
  <2>1. TaskLeftAlone /\ (pending' => pending)
    BY <1>3, ResolveLeavesTask DEF Committed, Told, answer, barge, TaskLeftAlone
  <2>2. Quiet("loop")
    BY <1>3 DEF Committed, Told
  <2> QED BY <2>1, <2>2, LoopLeaksNothing, LeakOutside DEF told
<1>4. ASSUME Transcribed \/ Answered \/ CutOff \/ Granted("loop") PROVE LeakInv'
  <2>1. \E event : Say("loop", event) \/ Quiet("loop") \/ Granted("loop")
    BY <1>4 DEF Transcribed, Answered, CutOff
  <2>2. UNCHANGED <<task, pending>>
    BY <1>4 DEF Transcribed, Answered, CutOff, Granted, answer, barge
  <2> QED BY <2>1, <2>2, LoopLeaksNothing, LeakOutside DEF told, TaskLeftAlone
<1>5. ASSUME LoopJoins \/ Close \/ Closed PROVE LeakInv'
  <2>1. UNCHANGED <<say, leak>> /\ (pending' => pending) /\ TaskLeftAlone
    BY <1>5 DEF LoopJoins, Close, Closed, EndBargeIn, wire, barge, TaskLeftAlone
  <2> QED BY <2>1, LeakOutside
<1> QED BY <1>1, <1>2, <1>3, <1>4, <1>5 DEF Loop

LEMMA LeakOthers ==
  ASSUME LeakInv, HoldHasDecider', Timer \/ Worker \/ Rest \/ UNCHANGED vars
  PROVE  LeakInv'
<1>1. UNCHANGED <<say, leak>>
  BY DEF Timer, TimerFires, InterrupterResumes, Worker, Synthesizes, SynthesisEnds, Rest, vars,
     wire
<1>2. pending' => pending
  BY DEF Timer, TimerFires, InterrupterResumes, EndBargeIn, Worker, Synthesizes, SynthesisEnds,
     Rest, vars, barge
<1>3. TaskLeftAlone
  BY DEF Timer, TimerFires, InterrupterResumes, Worker, Synthesizes, SynthesisEnds, Rest, vars,
     answer, TaskLeftAlone
<1> QED BY <1>1, <1>2, <1>3, LeakOutside

(* Audio goes out past an open gate, or was let through before it shut. *)
LEMMA DeltaLeaks ==
  ASSUME LeakInv, SayTyped, Say("task", "delta"), task' = "sending", UNCHANGED pending,
         pending => leak = 0
  PROVE  LeakInv'
<1>1. CASE say'["task"] = "delta" /\ UNCHANGED leak
  BY <1>1 DEF LeakInv, DeltaSends, OnePasses
<1>2. CASE say'["task"] = "nothing" /\ Hear("task", "delta")
  <2>1. leak' \in {0, 1}
    BY <1>2 DEF Hear, told, LeakInv
  <2> QED BY <1>2, <2>1 DEF LeakInv, DeltaSends, OnePasses
<1> QED BY <1>1, <1>2 DEF SayTyped, Say, Other, told

LEMMA OthersLeakNothing ==
  ASSUME LeakInv, SayTyped, NEW event \in {"error", "created", "audio_done", "done"},
         Say("task", event), task' # "woken"
  PROVE  LeakInv'
<1>1. UNCHANGED leak /\ say'["task"] # "delta"
  BY DEF SayTyped, Say, Other, Hear, told
<1> QED BY <1>1 DEF LeakInv, DeltaSends, OnePasses

LEMMA QuietLeaksNothing ==
  ASSUME LeakInv, SayTyped, Quiet("task"), task' # "woken"
  PROVE  LeakInv'
<1>1. UNCHANGED leak /\ say'["task"] # "delta"
  BY DEF SayTyped, Quiet, Hush, told
<1> QED BY <1>1 DEF LeakInv, DeltaSends, OnePasses

LEMMA LeakDelta ==
  ASSUME LeakInv, SayTyped, SendDelta, UNCHANGED pending, pending => leak = 0
  PROVE  LeakInv'
<1>1. CASE Say("task", "delta") /\ task' = "sending"
  BY <1>1, DeltaLeaks
<1>2. CASE FinishCancelled
  BY <1>2, OthersLeakNothing DEF FinishCancelled
<1> QED BY <1>1, <1>2 DEF SendDelta

LEMMA LeakGate ==
  ASSUME LeakInv, SayTyped, HoldHasDecider, NEW paced, PassGate(paced), UNCHANGED pending,
         task # "sending"
  PROVE  LeakInv'
<1>1. CASE gate /\ SendDelta
  BY <1>1, LeakDelta DEF HoldHasDecider
<1>2. CASE task' \in {"held", "pacing"} /\ UNCHANGED wire
  BY <1>2 DEF wire, LeakInv, DeltaSends, OnePasses
<1> QED BY <1>1, <1>2 DEF PassGate

LEMMA LeakResponse ==
  ASSUME LeakInv, SayTyped, HoldHasDecider, Response PROVE LeakInv'
<1>1. ASSUME TaskBegins \/ Announced \/ Collect \/ Conclude \/ Failed PROVE LeakInv'
  <2>1. CASE task' # "woken" /\ \E event \in {"error", "created", "audio_done", "done"} :
                                  Say("task", event)
    BY <2>1, OthersLeakNothing
  <2>2. CASE task' # "woken" /\ Quiet("task")
    BY <2>2, QuietLeaksNothing
  <2>3. task' # "woken"
    BY <1>1 DEF TaskBegins, Announced, Collect, Conclude, Failed, Fails, FinishCancelled
  <2>4. \/ Quiet("task")
        \/ Say("task", "error") \/ Say("task", "created") \/ Say("task", "audio_done")
        \/ Say("task", "done")
    BY <1>1 DEF TaskBegins, Announced, Collect, Conclude, Failed, Fails, FinishCancelled
  <2> QED BY <2>1, <2>2, <2>3, <2>4
<1>2. ASSUME Refused \/ DeltaSent \/ Finished PROVE LeakInv'
  BY <1>2, QuietLeaksNothing DEF Refused, DeltaSent, Finished, EndTask
<1>3. ASSUME TakeEnd PROVE LeakInv'
  <2>1. UNCHANGED <<say, leak, pending>> /\ task = "taking" /\ task' = "collecting"
    BY <1>3 DEF TakeEnd, Runs, wire, barge
  <2> QED BY <2>1 DEF LeakInv, DeltaSends, OnePasses
<1>4. ASSUME TakeChunk \/ PacingEnds PROVE LeakInv'
  BY <1>4, LeakGate DEF TakeChunk, PacingEnds, Runs, barge
<1>5. ASSUME HoldEnds PROVE LeakInv'
  <2>1. task = "woken" /\ UNCHANGED pending
    BY <1>5 DEF HoldEnds, Runs, barge
  <2>2. pending => leak = 0
    BY <2>1 DEF LeakInv, OnePasses
  <2>3. CASE SendDelta
    BY <2>1, <2>2, <2>3, LeakDelta
  <2>4. CASE task' = "pacing" /\ UNCHANGED wire
    BY <2>1, <2>4 DEF wire, LeakInv, DeltaSends, OnePasses
  <2> QED BY <1>5, <2>3, <2>4 DEF HoldEnds
<1>6. ASSUME TaskCancelled PROVE LeakInv'
  <2>1. CASE task = "new" /\ task' = "dead" /\ UNCHANGED wire
    BY <2>1 DEF wire, LeakInv, DeltaSends, OnePasses
  <2>2. CASE Quiet("task") /\ task' = "none"
    BY <2>2, QuietLeaksNothing
  <2>3. CASE FinishCancelled
    BY <2>3, OthersLeakNothing DEF FinishCancelled
  <2> QED BY <1>6, <2>1, <2>2, <2>3 DEF TaskCancelled
<1>7. ASSUME Granted("task") PROVE LeakInv'
  <2>1. say'["task"] = "nothing" /\ UNCHANGED <<task, pending>> /\ Hear("task", say["task"])
    BY <1>7 DEF Granted, answer, barge, SayTyped
  <2>2. CASE say["task"] = "delta" /\ pending
    <3>1. leak = 0 /\ task = "sending"
      BY <2>2 DEF LeakInv, DeltaSends, OnePasses
    <3>2. leak' \in {0, 1}
      BY <2>1, <3>1 DEF Hear, told
    <3> QED BY <2>1, <3>1, <3>2 DEF LeakInv, DeltaSends, OnePasses
  <2>3. CASE ~(say["task"] = "delta" /\ pending)
    <3>1. UNCHANGED leak
      BY <2>1, <2>3 DEF Hear, told
    <3> QED BY <2>1, <3>1 DEF LeakInv, DeltaSends, OnePasses
  <2> QED BY <2>2, <2>3
<1> QED BY <1>1, <1>2, <1>3, <1>4, <1>5, <1>6, <1>7 DEF Response

(* Talked over, at most the chunk that had passed the gate gets out        *)
(* (server.py:450-464): the gate that shuts again behind a task it has     *)
(* just let through included.                                              *)
THEOREM OneChunkLeaks == Spec => []HeldAudioStays
<1> DEFINE Inv == HoldHasDecider /\ Silenced /\ LeakInv
<1>1. Init => Inv
  BY HoldInit, SilencedInit, LeakInit
<1>2. Inv /\ [Next]_vars => Inv'
  <2> SUFFICES ASSUME Inv, [Next]_vars PROVE Inv'
    OBVIOUS
  <2>1. HoldHasDecider' /\ Silenced' /\ SayTyped
    BY HoldClient, HoldLoop, HoldOthers, SilencedStep DEF Next, Silenced
  <2>2. LeakInv'
    BY <2>1, LeakClient, LeakLoop, LeakOthers, LeakResponse DEF Next
  <2> QED BY <2>1, <2>2
<1>3. Inv => HeldAudioStays
  BY DEF LeakInv, HeldAudioStays
<1> QED BY <1>1, <1>2, <1>3, PTL DEF Spec

-----------------------------------------------------------------------------
(* The order of a reply. *)

Events    == {"created", "delta", "audio_done", "done"}
Concluded == {"none", "dead", "failing", "finishing"}
Last      == IF heard = <<>> THEN "none" ELSE heard[Len(heard)]
Sounding  == Last \in {"created", "delta"}
Waits     == say["task"] # "nothing"

(* A reply that has concluded can no longer be cancelled. *)
CancelInTime ==
  /\ cancellable \/ cancelling => task \notin Concluded
  /\ marked => Named
  /\ cancelling => ~cancellable

(* What the task waits to send belongs to its place. *)
SaysItsOwn ==
  /\ say["task"] \in {"nothing", "error"} \cup Events
  /\ say["task"] = "error" => task \in {"refused", "failing"}
  /\ say["task"] = "created" => task = "announcing"
  /\ say["task"] = "delta" => task = "sending"
  /\ say["task"] = "audio_done" => task = "concluding"
  /\ say["task"] = "done" => task = "finishing"

(* What a client that is still there has heard last, by the task's place. *)
HeardSoFar ==
  client = "here" =>
    /\ task \in {"new", "dead", "refused"} => Last = "none"
    /\ task = "none" => Last \in {"none", "done"}
    /\ task = "announcing" => IF Waits THEN Last = "none" ELSE Last = "created"
    /\ task \in {"taking", "held", "woken", "pacing", "collecting", "sending", "failing"} =>
         Sounding
    /\ task = "concluding" => IF Waits THEN Sounding ELSE Last = "audio_done"
    /\ task = "finishing" => IF Waits THEN Last # "done" ELSE Last = "done"

OrderTyped ==
  /\ client \in {"here", "gone"} /\ heard \in Seq(Events) /\ reply \in Nat
  /\ task \in {"none", "new", "dead", "refused", "announcing", "taking", "held", "woken",
               "pacing", "sending", "collecting", "concluding", "failing", "finishing"}

OrderInv == OrderTyped /\ CancelInTime /\ SaysItsOwn /\ HeardSoFar

(* What every step keeps to. *)
Follows ==
  heard' # heard =>
    IF reply' # reply THEN heard[Len(heard)] = "done" ELSE MayFollow(heard'[Len(heard')])

LEMMA OrderInit == Init => OrderInv
BY DEF Init, OrderInv, OrderTyped, CancelInTime, SaysItsOwn, HeardSoFar, Events, Concluded, Last,
   Waits, Sounding, Named

(* The last of what was heard, as it grows. *)
LEMMA LastHeard ==
  ASSUME heard \in Seq(Events)
  PROVE  /\ Last \in {"none"} \cup Events
         /\ Last = "none" <=> heard = <<>>
         /\ heard # <<>> => Last = heard[Len(heard)]
<1>1. CASE heard = <<>>
  BY <1>1 DEF Last
<1>2. CASE heard # <<>>
  <2>1. Len(heard) \in 1..Len(heard)
    BY <1>2
  <2>2. heard[Len(heard)] \in Events
    BY <2>1
  <2> QED BY <1>2, <2>2 DEF Last, Events
<1> QED BY <1>1, <1>2

LEMMA HearsMore ==
  ASSUME heard \in Seq(Events), NEW event \in Events, heard' = Append(heard, event)
  PROVE  heard' \in Seq(Events) /\ Last' = event /\ heard'[Len(heard')] = event
<1>1. heard' \in Seq(Events) /\ Len(heard') = Len(heard) + 1 /\ Len(heard) \in Nat
  OBVIOUS
<1>2. heard'[Len(heard) + 1] = event
  OBVIOUS
<1>3. heard' # <<>>
  BY <1>1
<1> QED BY <1>1, <1>2, <1>3 DEF Last

(* Outside the task: it is cancelled, woken or buried, or the next begins. *)
TaskCancels ==
  /\ cancellable' => cancellable
  /\ cancelling' => cancelling \/ cancellable
  /\ cancelling' => ~cancellable'
  /\ marked' => marked \/ Named

LEMMA OrderOutside ==
  ASSUME OrderInv, say'["task"] = say["task"], UNCHANGED <<heard, reply>>,
         client' \in {client, "gone"}, TaskCancels, TaskLeftAlone
  PROVE  OrderInv' /\ Follows
<1>1. UNCHANGED <<Last, Sounding, Waits>>
  BY DEF Last, Sounding, Waits
<1>2. CASE task' = task
  <2>1. CancelInTime'
    BY <1>2 DEF OrderInv, CancelInTime, TaskCancels, Named, Concluded
  <2>2. SaysItsOwn'
    BY <1>2 DEF OrderInv, SaysItsOwn
  <2>3. HeardSoFar'
    BY <1>1, <1>2 DEF OrderInv, HeardSoFar
  <2> QED BY <1>2, <2>1, <2>2, <2>3 DEF OrderInv, OrderTyped, Follows
<1>3. CASE task = "held" /\ task' = "woken"
  <2>1. CancelInTime'
    BY <1>3 DEF OrderInv, CancelInTime, TaskCancels, Named, Concluded
  <2>2. SaysItsOwn'
    BY <1>3 DEF OrderInv, SaysItsOwn, Events
  <2>3. HeardSoFar'
    BY <1>1, <1>3 DEF OrderInv, HeardSoFar
  <2> QED BY <1>3, <2>1, <2>2, <2>3 DEF OrderInv, OrderTyped, Follows
<1>4. CASE Ended /\ task' = "none"
  <2>1. CancelInTime'
    BY <1>4 DEF OrderInv, CancelInTime, TaskCancels, Named, Concluded, Ended
  <2>2. SaysItsOwn'
    BY <1>4 DEF OrderInv, SaysItsOwn, Ended, Events
  <2>3. HeardSoFar'
    BY <1>1, <1>4 DEF OrderInv, HeardSoFar, Ended
  <2> QED BY <1>4, <2>1, <2>2, <2>3 DEF OrderInv, OrderTyped, Follows
<1> QED BY <1>2, <1>3, <1>4 DEF TaskLeftAlone, Woken

LEMMA CancelsInTime ==
  ASSUME OrderInv, (CancelReply /\ cancellable) \/ UNCHANGED <<cancellable, cancelling, marked>>
  PROVE  TaskCancels
<1>1. CASE CancelReply /\ cancellable
  <2>1. cancellable' = FALSE /\ (marked' => Named)
    BY <1>1 DEF CancelReply
  <2> QED BY <1>1, <2>1 DEF TaskCancels
<1>2. CASE UNCHANGED <<cancellable, cancelling, marked>>
  BY <1>2 DEF OrderInv, CancelInTime, TaskCancels
<1> QED BY <1>1, <1>2

LEMMA ResolveInTime ==
  ASSUME OrderInv, NEW words, Resolve(words)
  PROVE  TaskCancels /\ TaskLeftAlone /\ UNCHANGED reply
BY CancelsInTime DEF Resolve, LoopInterrupts, CancelReply, TaskLeftAlone

LEMMA OrderClient == ASSUME OrderInv, SayTyped, Client PROVE OrderInv' /\ Follows
<1>1. ASSUME SpeechStarts \/ SpeechStops \/ Update \/ AnswerOnly \/ IdleTimeout
      PROVE  OrderInv' /\ Follows
  <2>1. \E event : Say("loop", event)
    BY <1>1 DEF SpeechStarts, SpeechStops, Update, AnswerOnly, IdleTimeout
  <2>2. UNCHANGED <<answer, client>>
    BY <1>1 DEF SpeechStarts, SpeechStops, Update, AnswerOnly, IdleTimeout, user
  <2> QED BY <2>1, <2>2, LoopLeaksNothing, CancelsInTime, OrderOutside
       DEF told, answer, TaskLeftAlone
<1>2. ASSUME Commit PROVE OrderInv' /\ Follows
  <2>1. \E event : Say("loop", event) \/ UNCHANGED wire
    BY <1>2 DEF Commit, CommitAudio
  <2>2. TaskCancels /\ TaskLeftAlone /\ UNCHANGED <<client, reply>>
    BY <1>2, ResolveInTime, CancelsInTime
       DEF Commit, CommitShort, CommitAudio, answer, user, TaskLeftAlone
  <2> QED BY <2>1, <2>2, LoopLeaksNothing, OrderOutside DEF told
<1>3. ASSUME HandleResponseStart PROVE OrderInv' /\ Follows
  <2>1. /\ task \in {"none", "dead"} /\ client = "here" /\ client' = "here" /\ task' = "new"
        /\ heard' = <<>> /\ UNCHANGED say /\ ~marked' /\ UNCHANGED cancelling
        /\ reply' = reply + 1
    BY <1>3 DEF HandleResponseStart, Ended, Reads, user
  <2>2. ~cancelling
    BY <2>1 DEF OrderInv, CancelInTime, Concluded
  <2>3. Last \in {"none", "done"} /\ Last' = "none"
    BY <2>1 DEF OrderInv, HeardSoFar, Last
  <2>4. say["task"] \in {"nothing"}
    BY <2>1 DEF OrderInv, SaysItsOwn, Events
  <2>5. OrderInv'
    BY <2>1, <2>2, <2>3, <2>4
       DEF OrderInv, OrderTyped, CancelInTime, SaysItsOwn, HeardSoFar, Concluded
  <2>6. reply' # reply
    BY <2>1 DEF OrderInv, OrderTyped
  <2>7. heard' # heard => heard[Len(heard)] = "done"
    BY <2>1, <2>3, LastHeard DEF OrderInv, OrderTyped
  <2> QED BY <2>5, <2>6, <2>7 DEF Follows
<1>4. ASSUME HandleResponseCancel \/ Leave PROVE OrderInv' /\ Follows
  <2>1. UNCHANGED <<say, heard, task, reply>> /\ client' \in {client, "gone"}
    BY <1>4 DEF HandleResponseCancel, CancelReply, Leave, wire, answer, user
  <2>2. TaskCancels
    BY <1>4, CancelsInTime DEF HandleResponseCancel, Leave, answer
  <2> QED BY <2>1, <2>2, OrderOutside DEF TaskLeftAlone
<1> QED BY <1>1, <1>2, <1>3, <1>4 DEF Client

LEMMA OrderLoop == ASSUME OrderInv, SayTyped, Loop PROVE OrderInv' /\ Follows
<1>1. ASSUME OnUserSpeechStarted PROVE OrderInv' /\ Follows
  <2>1. say'["task"] = say["task"] /\ UNCHANGED <<heard, task, reply, client>>
    BY <1>1, LoopSends DEF OnUserSpeechStarted, CancelReply, answer, user
  <2>2. TaskCancels
    BY <1>1, CancelsInTime DEF OnUserSpeechStarted, answer
  <2> QED BY <2>1, <2>2, OrderOutside DEF TaskLeftAlone
<1>2. ASSUME SpeechStopped \/ Committed \/ Told PROVE OrderInv' /\ Follows
  <2>1. \E event : Say("loop", event) \/ Quiet("loop")
    BY <1>2 DEF SpeechStopped, Committed, Told, CommitAudio
  <2>2. TaskCancels /\ TaskLeftAlone /\ UNCHANGED <<client, reply>>
    BY <1>2, ResolveInTime, CancelsInTime
       DEF SpeechStopped, Committed, Told, CommitAudio, answer, user, TaskLeftAlone
  <2> QED BY <2>1, <2>2, LoopLeaksNothing, OrderOutside DEF told
<1>3. ASSUME Transcribed \/ Answered \/ CutOff \/ Granted("loop") PROVE OrderInv' /\ Follows
  <2>1. \E event : Say("loop", event) \/ Quiet("loop") \/ Granted("loop")
    BY <1>3 DEF Transcribed, Answered, CutOff
  <2>2. UNCHANGED answer /\ client' \in {client, "gone"}
    BY <1>3 DEF Transcribed, Answered, CutOff, Granted, user
  <2> QED BY <2>1, <2>2, LoopLeaksNothing, CancelsInTime, OrderOutside
       DEF told, answer, TaskLeftAlone
<1>4. ASSUME LoopJoins \/ Close \/ Closed PROVE OrderInv' /\ Follows
  <2>1. UNCHANGED <<say, heard, reply, client>> /\ TaskLeftAlone
    BY <1>4 DEF LoopJoins, Close, Closed, wire, user, TaskLeftAlone
  <2>2. TaskCancels
    <3>1. CASE LoopJoins \/ Closed
      BY <3>1, CancelsInTime DEF LoopJoins, Closed
    <3>2. CASE Close
      BY <3>2 DEF Close, OrderInv, CancelInTime, TaskCancels
    <3> QED BY <1>4, <3>1, <3>2
  <2> QED BY <2>1, <2>2, OrderOutside
<1> QED BY <1>1, <1>2, <1>3, <1>4 DEF Loop

LEMMA OrderOthers ==
  ASSUME OrderInv, Timer \/ Worker \/ Rest \/ UNCHANGED vars PROVE OrderInv' /\ Follows
<1>1. UNCHANGED <<say, heard, reply, client>>
  BY DEF Timer, TimerFires, InterrupterResumes, CancelReply, Worker, Synthesizes, SynthesisEnds,
     Rest, vars, wire, user, answer
<1>2. TaskCancels
  BY CancelsInTime DEF Timer, TimerFires, InterrupterResumes, Worker, Synthesizes, SynthesisEnds,
     Rest, vars, answer
<1>3. TaskLeftAlone
  BY DEF Timer, TimerFires, InterrupterResumes, Worker, Synthesizes, SynthesisEnds, Rest, vars,
     answer, TaskLeftAlone
<1> QED BY <1>1, <1>2, <1>3, OrderOutside

(* The task sends an event that its place and the client are ready for. *)
Tells(event) ==
  \/ event = "error" /\ task' = "refused" /\ (client = "here" => Last = "none")
  \/ event = "error" /\ task' = "failing" /\ (client = "here" => Sounding)
  \/ event = "created" /\ task' = "announcing" /\ (client = "here" => Last = "none")
  \/ event = "delta" /\ task' = "sending" /\ (client = "here" => Sounding)
  \/ event = "audio_done" /\ task' = "concluding" /\ (client = "here" => Sounding)
  \/ event = "done" /\ task' = "finishing" /\ (client = "here" => Last # "done")

(* Or it says nothing and moves on. *)
MovesOn ==
  \/ task' \in {"taking", "held", "pacing", "collecting"} /\ (client = "here" => Sounding)
  \/ task' = "none" /\ (client = "here" => Last \in {"none", "done"})
  \/ task' = "dead" /\ (client = "here" => Last = "none")

LEMMA TaskTells ==
  ASSUME SayTyped, NEW event, Say("task", event)
  PROVE  \/ /\ say'["task"] = "nothing" /\ client # "gone" /\ event # "error"
            /\ heard' = Append(heard, event)
         \/ say'["task"] = "nothing" /\ (client = "gone" \/ event = "error") /\ UNCHANGED heard
         \/ say'["task"] = event /\ UNCHANGED heard
BY DEF SayTyped, Say, Other, Hear, told

LEMMA MayFollowLast ==
  ASSUME heard \in Seq(Events), NEW event \in Events,
         \/ event \in {"created", "done"} /\ Last = "none"
         \/ event = "done" /\ Last # "done"
         \/ event \in {"delta", "audio_done"} /\ Sounding
  PROVE  MayFollow(event)
BY LastHeard DEF MayFollow, Sounding, Events

LEMMA OrderTells ==
  ASSUME OrderInv, SayTyped, NEW event, Say("task", event), Tells(event), CancelInTime',
         UNCHANGED <<client, reply>>
  PROVE  OrderInv' /\ Follows
<1>1. heard \in Seq(Events) /\ event \in {"error"} \cup Events
  BY DEF OrderInv, OrderTyped, Tells, Events
<1>2. reply' \in Nat /\ task' \in {"refused", "failing", "announcing", "sending", "concluding",
                                   "finishing"}
  BY DEF OrderInv, OrderTyped, Tells
<1>3. CASE heard' = Append(heard, event) /\ say'["task"] = "nothing" /\ event # "error"
           /\ client # "gone"
  <2>1. heard' \in Seq(Events) /\ Last' = event /\ heard'[Len(heard')] = event
    BY <1>1, <1>3, HearsMore
  <2>2. SaysItsOwn'
    BY <1>3 DEF SaysItsOwn
  <2>3. HeardSoFar'
    BY <1>3, <2>1 DEF Tells, HeardSoFar, Sounding, Waits
  <2>4. CASE client = "here"
    <3>1. MayFollow(event)
      BY <1>1, <1>3, <2>4, MayFollowLast DEF Tells
    <3> QED BY <1>2, <2>1, <2>2, <2>3, <3>1 DEF OrderInv, OrderTyped, Follows
  <2>5. CASE client # "here"
    BY <2>5, <1>3 DEF OrderInv, OrderTyped
  <2> QED BY <2>4, <2>5
<1>4. CASE UNCHANGED heard /\ (say'["task"] = "nothing" => client = "gone" \/ event = "error")
           /\ say'["task"] \in {"nothing", event}
  <2>1. Last' = Last /\ (Sounding' <=> Sounding)
    BY <1>4 DEF Last, Sounding
  <2>2. SaysItsOwn'
    BY <1>1, <1>4 DEF SaysItsOwn, Tells
  <2>3. HeardSoFar'
    BY <1>4, <2>1 DEF Tells, HeardSoFar, Waits
  <2> QED BY <1>1, <1>2, <1>4, <2>2, <2>3 DEF OrderInv, OrderTyped, Follows
<1>5. event # "nothing"
  BY DEF Tells
<1> QED BY <1>3, <1>4, <1>5, TaskTells

LEMMA OrderMovesOn ==
  ASSUME OrderInv, say'["task"] = "nothing", MovesOn, CancelInTime',
         UNCHANGED <<client, reply, heard>>
  PROVE  OrderInv' /\ Follows
<1>1. Last' = Last /\ (Sounding' <=> Sounding)
  BY DEF Last, Sounding
<1>2. OrderTyped'
  BY DEF OrderInv, OrderTyped, MovesOn
<1>3. SaysItsOwn'
  BY DEF SaysItsOwn
<1>4. HeardSoFar'
  BY <1>1 DEF MovesOn, HeardSoFar
<1> QED BY <1>2, <1>3, <1>4 DEF OrderInv, Follows

LEMMA SaysNothing ==
  ASSUME SayTyped, Quiet("task") PROVE say'["task"] = "nothing" /\ UNCHANGED heard
BY TaskHushes

(* A reply at its end cannot be cancelled. *)
LEMMA OrderCancelInTime == ASSUME OrderInv, Response PROVE CancelInTime'
<1>1. ASSUME TaskBegins \/ Announced \/ TakeChunk \/ PacingEnds \/ HoldEnds \/ DeltaSent
             \/ TakeEnd \/ Collect \/ Conclude \/ Failed
      PROVE  CancelInTime'
  <2>1. ~cancelling /\ ~cancelling'
    BY <1>1 DEF TaskBegins, Announced, TakeChunk, PacingEnds, HoldEnds, DeltaSent, TakeEnd,
       Collect, Conclude, Failed, Fails, FinishCancelled, PassGate, SendDelta, Runs
  <2>2. UNCHANGED marked
    BY <1>1 DEF TaskBegins, Announced, TakeChunk, PacingEnds, HoldEnds, DeltaSent, TakeEnd,
       Collect, Conclude, Failed, Fails, FinishCancelled, PassGate, SendDelta, Runs
  <2>3. task' \in {"refused", "announcing", "taking", "held", "pacing", "sending", "collecting",
                   "concluding", "failing", "finishing"}
        /\ (task' = "refused" => ~Named)
    BY <1>1 DEF TaskBegins, Announced, TakeChunk, PacingEnds, HoldEnds, DeltaSent, TakeEnd,
       Collect, Conclude, Failed, Fails, FinishCancelled, PassGate, SendDelta, Runs, Named
  <2>4. task' \in Concluded => ~cancellable'
    BY <1>1 DEF TaskBegins, Announced, TakeChunk, PacingEnds, HoldEnds, DeltaSent, TakeEnd,
       Collect, Conclude, Failed, Fails, FinishCancelled, PassGate, SendDelta, Runs, OrderInv,
       CancelInTime, Concluded
  <2> QED BY <2>1, <2>2, <2>3, <2>4 DEF OrderInv, CancelInTime, Named
<1>2. ASSUME Refused \/ Finished PROVE CancelInTime'
  BY <1>2 DEF Refused, Finished, EndTask, Runs, CancelInTime
<1>3. ASSUME TaskCancelled PROVE CancelInTime'
  <2>1. CASE task = "new" /\ task' = "dead" /\ UNCHANGED <<cancellable, marked>>
    BY <1>3, <2>1 DEF TaskCancelled, OrderInv, CancelInTime, Named
  <2>2. CASE cancellable' = FALSE /\ marked' = FALSE
    BY <1>3, <2>2 DEF TaskCancelled, CancelInTime
  <2>3. CASE FinishCancelled
    BY <1>3, <2>3 DEF TaskCancelled, FinishCancelled, OrderInv, CancelInTime, Named
  <2> QED BY <1>3, <2>1, <2>2, <2>3 DEF TaskCancelled
<1>4. ASSUME Granted("task") PROVE CancelInTime'
  BY <1>4 DEF Granted, answer, OrderInv, CancelInTime, Named
<1> QED BY <1>1, <1>2, <1>3, <1>4 DEF Response

LEMMA OrderResponse == ASSUME OrderInv, SayTyped, Response PROVE OrderInv' /\ Follows
<1>0. CancelInTime'
  BY OrderCancelInTime
<1>1. UNCHANGED <<client, reply>>
  BY DEF Response, TaskBegins, Refused, Announced, TakeChunk, PacingEnds, HoldEnds, DeltaSent,
     TakeEnd, Collect, Conclude, Failed, Finished, TaskCancelled, Granted, EndTask, Fails,
     FinishCancelled, PassGate, SendDelta, user, answer
<1>2. ASSUME TaskBegins PROVE OrderInv' /\ Follows
  <2>1. \E event : Say("task", event) /\ Tells(event)
    BY <1>2 DEF TaskBegins, Runs, OrderInv, HeardSoFar, Tells
  <2> QED BY <1>0, <1>1, <2>1, OrderTells
<1>3. ASSUME Refused \/ Finished PROVE OrderInv' /\ Follows
  <2>1. say'["task"] = "nothing" /\ UNCHANGED heard /\ task' = "none" /\ ~Waits
    BY <1>3, SaysNothing DEF Refused, Finished, EndTask, Sent, Waits
  <2>2. MovesOn
    BY <1>3, <2>1 DEF Refused, Finished, Runs, OrderInv, HeardSoFar, MovesOn
  <2> QED BY <1>0, <1>1, <2>1, <2>2, OrderMovesOn
<1>4. ASSUME Announced PROVE OrderInv' /\ Follows
  <2>1. task = "announcing" /\ (client = "here" => Sounding)
    BY <1>4 DEF Announced, Runs, Sent, OrderInv, HeardSoFar, Sounding, Waits
  <2>2. CASE Quiet("task") /\ task' = "taking"
    BY <1>0, <1>1, <2>1, <2>2, SaysNothing, OrderMovesOn DEF MovesOn
  <2>3. CASE Say("task", "error") /\ task' = "failing"
    BY <1>0, <1>1, <2>1, <2>3, OrderTells DEF Tells
  <2> QED BY <1>4, <2>2, <2>3 DEF Announced, Fails
<1>5. ASSUME TakeChunk \/ PacingEnds \/ HoldEnds PROVE OrderInv' /\ Follows
  <2>1. task \in {"taking", "pacing", "woken"}
    BY <1>5 DEF TakeChunk, PacingEnds, HoldEnds, Runs
  <2>2. (client = "here" => Sounding) /\ say["task"] = "nothing"
    BY <2>1 DEF OrderInv, HeardSoFar, SaysItsOwn, Events
  <2>3. CASE Say("task", "delta") /\ task' = "sending"
    BY <1>0, <1>1, <2>2, <2>3, OrderTells DEF Tells
  <2>4. CASE Say("task", "done") /\ task' = "finishing"
    BY <1>0, <1>1, <2>2, <2>4, OrderTells DEF Tells, Sounding
  <2>5. CASE task' \in {"held", "pacing"} /\ UNCHANGED wire
    <3>1. say'["task"] = "nothing" /\ UNCHANGED heard
      BY <2>2, <2>5 DEF wire
    <3> QED BY <1>0, <1>1, <2>2, <2>5, <3>1, OrderMovesOn DEF MovesOn
  <2> QED BY <1>5, <2>3, <2>4, <2>5
       DEF TakeChunk, PacingEnds, HoldEnds, PassGate, SendDelta, FinishCancelled
<1>6. ASSUME DeltaSent \/ TakeEnd PROVE OrderInv' /\ Follows
  <2>1. task \in {"sending", "taking"} /\ task' \in {"taking", "collecting"}
    BY <1>6 DEF DeltaSent, TakeEnd, Runs
  <2>2. client = "here" => Sounding
    BY <2>1 DEF OrderInv, HeardSoFar
  <2>3. say'["task"] = "nothing" /\ UNCHANGED heard
    <3>1. CASE DeltaSent
      BY <3>1, SaysNothing DEF DeltaSent
    <3>2. CASE TakeEnd
      BY <3>2 DEF TakeEnd, Runs, wire, OrderInv, SaysItsOwn, Events
    <3> QED BY <1>6, <3>1, <3>2
  <2> QED BY <1>0, <1>1, <2>1, <2>2, <2>3, OrderMovesOn DEF MovesOn
<1>7. ASSUME Collect PROVE OrderInv' /\ Follows
  <2>1. client = "here" => Sounding
    BY <1>7 DEF Collect, Runs, OrderInv, HeardSoFar
  <2>2. \E event : Say("task", event) /\ Tells(event)
    BY <1>7, <2>1 DEF Collect, Fails, FinishCancelled, Tells, Sounding
  <2> QED BY <1>0, <1>1, <2>2, OrderTells
<1>8. ASSUME Conclude \/ Failed PROVE OrderInv' /\ Follows
  <2>1. client = "here" => Last # "done"
    BY <1>8 DEF Conclude, Failed, Runs, Sent, OrderInv, HeardSoFar, Sounding, Waits
  <2>2. Say("task", "done") /\ task' = "finishing"
    BY <1>8 DEF Conclude, Failed
  <2> QED BY <1>0, <1>1, <2>1, <2>2, OrderTells DEF Tells
<1>9. ASSUME TaskCancelled PROVE OrderInv' /\ Follows
  <2>0. task \notin {"none", "dead", "failing", "finishing"}
    BY <1>9 DEF TaskCancelled, OrderInv, CancelInTime, Concluded
  <2>1. CASE task = "new" /\ task' = "dead" /\ UNCHANGED wire
    <3>1. say'["task"] = "nothing" /\ UNCHANGED heard /\ MovesOn
      BY <2>1 DEF wire, OrderInv, SaysItsOwn, HeardSoFar, Events, MovesOn
    <3> QED BY <1>0, <1>1, <3>1, OrderMovesOn
  <2>2. CASE task = "refused" /\ Quiet("task") /\ task' = "none"
    <3>1. MovesOn
      BY <2>2 DEF OrderInv, HeardSoFar, MovesOn
    <3> QED BY <1>0, <1>1, <2>2, <3>1, SaysNothing, OrderMovesOn
  <2>3. CASE task \notin {"none", "new", "refused", "dead"} /\ FinishCancelled
    <3>1. client = "here" => Last # "done"
      BY <2>0, <2>3 DEF OrderInv, OrderTyped, HeardSoFar, Sounding
    <3> QED BY <1>0, <1>1, <2>3, <3>1, OrderTells DEF FinishCancelled, Tells
  <2> QED BY <1>9, <2>1, <2>2, <2>3 DEF TaskCancelled
<1>10. ASSUME Granted("task") PROVE OrderInv' /\ Follows
  <2>1. /\ say["task"] # "nothing" /\ say'["task"] = "nothing" /\ UNCHANGED task
        /\ Hear("task", say["task"])
    BY <1>10 DEF Granted, answer, SayTyped
  <2>2. CASE client = "gone" \/ say["task"] = "error"
    <3>1. UNCHANGED heard
      BY <2>1, <2>2 DEF Hear, told
    <3>2. Last' = Last /\ (Sounding' <=> Sounding)
      BY <3>1 DEF Last, Sounding
    <3>3. HeardSoFar'
      BY <1>1, <2>1, <2>2, <3>2 DEF OrderInv, SaysItsOwn, HeardSoFar, Waits
    <3>4. SaysItsOwn'
      BY <2>1 DEF SaysItsOwn
    <3> QED BY <1>0, <1>1, <2>1, <3>1, <3>3, <3>4 DEF OrderInv, OrderTyped, Follows
  <2>3. CASE ~(client = "gone" \/ say["task"] = "error")
    <3>1. heard' = Append(heard, say["task"]) /\ say["task"] \in Events
      BY <2>1, <2>3 DEF Hear, OrderInv, SaysItsOwn
    <3>2. heard' \in Seq(Events) /\ Last' = say["task"] /\ heard'[Len(heard')] = say["task"]
      BY <3>1, HearsMore DEF OrderInv, OrderTyped
    <3>3. HeardSoFar'
      BY <1>1, <2>1, <3>1, <3>2 DEF OrderInv, SaysItsOwn, HeardSoFar, Sounding, Waits, Events
    <3>4. SaysItsOwn'
      BY <2>1 DEF SaysItsOwn
    <3>5. MayFollow(say["task"])
      <4>1. client = "here"
        BY <2>3 DEF OrderInv, OrderTyped
      <4> QED BY <2>1, <3>1, <4>1, MayFollowLast
            DEF OrderInv, OrderTyped, SaysItsOwn, HeardSoFar, Waits, Events
    <3> QED BY <1>0, <1>1, <2>1, <3>2, <3>3, <3>4, <3>5 DEF OrderInv, OrderTyped, Follows
  <2> QED BY <2>2, <2>3
<1> QED BY <1>2, <1>3, <1>4, <1>5, <1>6, <1>7, <1>8, <1>9, <1>10 DEF Response

LEMMA OrderStep ==
  ASSUME OrderInv, SayTyped, [Next]_vars PROVE OrderInv' /\ Follows
BY OrderClient, OrderLoop, OrderOthers, OrderResponse DEF Next

(* The client hears of a reply that it was created, its audio, and once    *)
(* that it is done, before it hears of the next (server.py:266-283,        *)
(* 322-325, 371-520), whenever cancellations, refusals and errors fall.    *)
THEOREM RepliesInOrder == Spec => ReplyInOrder
<1> DEFINE Inv == Silenced /\ OrderInv
<1>1. Init => Inv
  BY SilencedInit, OrderInit
<1>2. Inv /\ [Next]_vars => Inv'
  BY SilencedStep, OrderStep DEF Silenced
<1>3. Inv /\ [Next]_vars =>
        [heard' # heard =>
           IF reply' # reply THEN heard[Len(heard)] = "done"
           ELSE MayFollow(heard'[Len(heard')])]_vars
  BY OrderStep DEF Silenced, Follows
<1> QED BY <1>1, <1>2, <1>3, PTL DEF Spec, ReplyInOrder
=============================================================================
