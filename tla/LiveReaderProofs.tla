--------------------------- MODULE LiveReaderProofs ---------------------------
(***************************************************************************)
(* Proofs about LiveReader for every text, every limit and every choice of *)
(* what a client and the timers may do:                                    *)
(*   a session moves through its slot and its worker only as LiveAdmission *)
(*   allows (safety; the fairness of AdmissionContract is model-checked);  *)
(*   no wake-up of the synthesizer is lost;                                *)
(*   the gauge of buffered characters is exact;                            *)
(*   audio never runs ahead of the client by more than the window;         *)
(*   what the client hears is what LiveSpeech allows (refinement).         *)
(* The gauge and the window are sums over queues and over the responses    *)
(* that are played: lemmas on sums, by induction over finite sets, come    *)
(* before them.                                                            *)
(***************************************************************************)
EXTENDS LiveReader, FiniteSetTheorems, WellFoundedInduction, SequenceTheorems, TLAPS

(* A connection starts without a slot and without a worker. *)
LEMMA InitShape == Init => ReaderShape
  BY DEF Init, ReaderShape, SlotMatchesReader, WorkerMatchesSynthesizer

(* The client's messages reach the slot and the reader's place only. *)
LEMMA ClientShape ==
  ASSUME ReaderShape, ClientNext
  PROVE  ReaderShape'
<1> USE DEF ReaderShape, SlotMatchesReader, WorkerMatchesSynthesizer, Respond,
            sockVars, linkVars, textVars, inputVars, segVars, voiceVars,
            respVars, synVars, workerVars, wakeVars
<1>1. CASE Connect
  BY <1>1 DEF Connect
<1>2. CASE \E n \in 1..Len(Text) : HandleAppend(n)
  BY <1>2 DEF HandleAppend
<1>3. CASE HandleCommit
  BY <1>3 DEF HandleCommit
<1>4. CASE HandleCancel
  BY <1>4 DEF HandleCancel, ForgetText
<1>5. CASE HandlePause \/ HandleResume \/ HandleOther
  BY <1>5 DEF HandlePause, HandleResume, HandleOther
<1>6. CASE HandleUpdate
  BY <1>6 DEF HandleUpdate
<1>7. CASE \E r \in DOMAIN playback : \E s \in 0..(MaxFrames - 1) : HandleAck(r, s)
  BY <1>7 DEF HandleAck, EndRun
<1>8. CASE ClientCloses
  BY <1>8 DEF ClientCloses
<1> QED
  BY <1>1, <1>2, <1>3, <1>4, <1>5, <1>6, <1>7, <1>8 DEF ClientNext

(* Ending a session drains its slot; sends and the end of shutdown() leave *)
(* slot and worker where they belong.                                      *)
LEMMA ReaderShapeKept ==
  ASSUME ReaderShape, ReaderNext
  PROVE  ReaderShape'
<1> USE DEF ReaderShape, SlotMatchesReader, WorkerMatchesSynthesizer, Respond,
            sockVars, linkVars, textVars, inputVars, segVars, voiceVars,
            respVars, synVars, workerVars, wakeVars
<1>1. CASE \E sent \in BOOLEAN : ReplySent(sent)
  BY <1>1 DEF ReplySent, LoopOrEnd, EndRun
<1>2. CASE \E sent \in BOOLEAN : GiveUpSent(sent)
  BY <1>2 DEF GiveUpSent
<1>3. CASE UpdateDone \/ UpdateRefused
  BY <1>3 DEF UpdateDone, UpdateRefused
<1>4. CASE GaveUp \/ NoticeDisconnect
  BY <1>4 DEF GaveUp, NoticeDisconnect, EndRun
<1>5. CASE StopSegmenter
  BY <1>5 DEF StopSegmenter
<1>6. CASE Joined
  BY <1>6 DEF Joined
<1>7. CASE ShutdownRaises \/ LateRelease
  BY <1>7 DEF ShutdownRaises, LateRelease
<1> QED
  BY <1>1, <1>2, <1>3, <1>4, <1>5, <1>6, <1>7 DEF ReaderNext

(* The segmenter touches neither slot nor worker. *)
LEMMA SegmenterShape ==
  ASSUME ReaderShape, SegmenterNext
  PROVE  ReaderShape'
<1> USE DEF ReaderShape, SlotMatchesReader, WorkerMatchesSynthesizer, SegmenterRuns,
            linkVars, voiceVars, respVars, synVars, workerVars
<1>1. CASE SegRead
  <2>1. UNCHANGED <<rpc, slot, spc, worker, segQ>>
    BY <1>1 DEF SegRead
  <2> QED
    BY <2>1
<1>2. CASE SegPut
  <2>1. UNCHANGED <<rpc, slot, spc, worker>> /\ rpc # "new"
    BY <1>2 DEF SegPut
  <2> QED
    BY <2>1
<1> QED
  BY <1>1, <1>2 DEF SegmenterNext

(* The synthesizer announces only without a worker, and leaves the         *)
(* response only when its worker has finished.                             *)
LEMMA SynthesizerShape ==
  ASSUME ReaderShape, SynthesizerNext
  PROVE  ReaderShape'
<1> USE DEF ReaderShape, SlotMatchesReader, WorkerMatchesSynthesizer,
            sockVars, linkVars, textVars, inputVars, segVars, voiceVars,
            respVars, synVars, workerVars, wakeVars
<1>1. CASE SynStop \/ SynDiscard
  BY <1>1 DEF SynStop, SynDiscard
<1>2. CASE SynTake
  <2>1. UNCHANGED <<rpc, slot, worker>> /\ spc = "get" /\ segQ # <<>>
    BY <1>2 DEF SynTake
  <2>2. spc' \in {"told", "announce", "waiting", "dead"}
    BY <1>2 DEF SynTake, Begin
  <2> QED
    BY <2>1, <2>2
<1>3. CASE SynWake
  <2>1. UNCHANGED <<rpc, slot, worker>> /\ spc = "waiting"
    BY <1>3 DEF SynWake
  <2>2. spc' \in {"told", "announce", "waiting", "get", "exit", "dead"}
    BY <1>3 DEF SynWake, Begin
  <2>3. UNCHANGED segQ
    BY <1>3 DEF SynWake
  <2> QED
    BY <2>1, <2>2, <2>3
<1>4. CASE FrameDropped \/ FrameTaken
  BY <1>4 DEF FrameDropped, FrameTaken, SendFrame
<1>5. CASE FrameWake
  <2>1. UNCHANGED <<rpc, slot, worker, segQ>> /\ spc = "holding"
    BY <1>5 DEF FrameWake
  <2>2. spc' \in {"join", "holding", "output", "delta"}
    BY <1>5 DEF FrameWake, SendFrame
  <2> QED
    BY <2>1, <2>2
<1>6. CASE WorkerError \/ WorkerDone
  BY <1>6 DEF WorkerError, WorkerDone
<1>7. CASE Join
  BY <1>7 DEF Join, EndResponse
<1>8. CASE \E sent \in BOOLEAN : ToldSent(sent)
  BY <1>8 DEF ToldSent
<1>9. CASE \E sent \in BOOLEAN : CreatedSent(sent)
  BY <1>9 DEF CreatedSent
<1>10. CASE \E sent \in BOOLEAN : DeltaSent(sent)
  BY <1>10 DEF DeltaSent
<1>11. CASE \E sent \in BOOLEAN : FlowErrorSent(sent)
  BY <1>11 DEF FlowErrorSent
<1>12. CASE \E sent \in BOOLEAN : ErrorSent(sent) \/ AudioDoneSent(sent)
  BY <1>12 DEF ErrorSent, AudioDoneSent
<1>13. CASE \E sent \in BOOLEAN : DoneSent(sent)
  BY <1>13 DEF DoneSent, EndResponse
<1> QED
  BY <1>1, <1>2, <1>3, <1>4, <1>5, <1>6, <1>7, <1>8, <1>9, <1>10, <1>11, <1>12,
     <1>13 DEF SynthesizerNext

(* The worker thread, the timers and a failing status. *)
LEMMA OtherShape ==
  ASSUME ReaderShape, WorkerNext \/ TimerNext \/ StatusFails \/ Served
  PROVE  ReaderShape'
<1> USE DEF ReaderShape, SlotMatchesReader, WorkerMatchesSynthesizer,
            sockVars, linkVars, textVars, inputVars, segVars, voiceVars,
            respVars, synVars, workerVars, wakeVars
<1>1. CASE WorkerNext
  BY <1>1 DEF WorkerNext, WorkerStarts, WorkerEmits, WorkerReports, WorkerEnds
<1>2. CASE IdleFires \/ GiveUp
  BY <1>2 DEF IdleFires, GiveUp
<1>3. CASE FlowTimeout
  BY <1>3 DEF FlowTimeout
<1>4. CASE JoinTimeout
  BY <1>4 DEF JoinTimeout, HandOver, Unfinished
<1>5. CASE StatusFails \/ Served
  BY <1>5 DEF StatusFails, Served, vars
<1> QED
  BY <1>1, <1>2, <1>3, <1>4, <1>5 DEF TimerNext

LEMMA NextShape == ReaderShape /\ [Next]_vars => ReaderShape'
<1> SUFFICES ASSUME ReaderShape, [Next]_vars PROVE ReaderShape'
  OBVIOUS
<1>1. CASE Next
  BY <1>1, ClientShape, ReaderShapeKept, SegmenterShape, SynthesizerShape, OtherShape
     DEF Next
<1>2. CASE UNCHANGED vars
  BY <1>2 DEF vars, linkVars, textVars, segVars, voiceVars, respVars, synVars,
     workerVars, ReaderShape, SlotMatchesReader, WorkerMatchesSynthesizer
<1> QED
  BY <1>1, <1>2

(* The slot, the reader and the worker stay in step in every behaviour. *)
THEOREM ShapeInvariant == Spec => []ReaderShape
<1>1. Spec => Init /\ [][Next]_vars
  BY DEF Spec
<1> QED
  BY <1>1, InitShape, NextShape, PTL

-----------------------------------------------------------------------------
(* The refinement of LiveAdmission. *)

(* A new connection is an idle one. *)
LEMMA InitAdmission == Init => Admission!Init
  BY DEF Init, Admission!Init, Task, Thread

(* What leaves slot, reader and worker alone is a stutter there. *)
LEMMA Stutter ==
  ASSUME slot' = slot, Task' = Task, Thread' = Thread,
         worker' = "queued" <=> worker = "queued"
  PROVE  UNCHANGED Admission!vars
  BY DEF Admission!vars

LEMMA SameSession ==
  ASSUME UNCHANGED <<slot, rpc, worker>>
  PROVE  UNCHANGED Admission!vars
<1>1. Task' = Task /\ Thread' = Thread
  BY DEF Task, Thread
<1> QED
  BY <1>1, Stutter

(* Connect is Admit: nobody holds the one slot. *)
LEMMA ConnectAdmits == ReaderShape /\ Connect => Admission!Admit("self")
<1> SUFFICES ASSUME ReaderShape, Connect PROVE Admission!Admit("self")
  OBVIOUS
<1>1. slot = "none" /\ rpc = "new" /\ slot' = "active" /\ rpc' = "reply"
      /\ worker' = worker /\ worker = "none"
  BY DEF Connect, Respond, ReaderShape, SlotMatchesReader, WorkerMatchesSynthesizer,
         voiceVars, respVars, workerVars
<1>2. Admission!Held = {}
  BY <1>1 DEF Admission!Held
<1>3. Admission!Cardinality({}) = Cardinality({})
  BY DEF Admission!Cardinality, Cardinality
<1>4. Admission!Cardinality(Admission!Held) < Admission!Capacity
  BY <1>2, <1>3, FS_EmptySet DEF Admission!Capacity
<1> QED
  BY <1>1, <1>4 DEF Admission!Admit, Task, Thread

(* The end of run() is BeginShutdown, wherever it happens. *)
LEMMA EndRunDrains ==
  ASSUME ReaderShape, EndRun, rpc \in {"run", "reply", "gaveUp"}, UNCHANGED worker
  PROVE  Admission!BeginShutdown("self")
<1>1. slot = "active" /\ slot' = "draining" /\ rpc' = "stopping"
  BY DEF EndRun, ReaderShape, SlotMatchesReader
<1>2. Task = "serving" /\ Task' = "stopping" /\ Thread' = Thread
  BY <1>1 DEF Task, Thread
<1> QED
  BY <1>1, <1>2 DEF Admission!BeginShutdown

(* The submission of a worker, with none before it. *)
LEMMA CreatedSubmits ==
  ASSUME ReaderShape, NEW sent \in BOOLEAN, CreatedSent(sent)
  PROVE  Admission!Submit("self")
<1>1. worker = "none" /\ worker' = "queued" /\ UNCHANGED <<slot, rpc>>
      /\ rpc \notin {"late", "over", "raised"} /\ rpc # "new"
  BY DEF CreatedSent, ReaderShape, SlotMatchesReader, WorkerMatchesSynthesizer
<1>2. Task \in {"serving", "stopping"} /\ Task' = Task /\ Thread = "none"
      /\ Thread' = "queued"
  BY <1>1 DEF Task, Thread, ReaderShape
<1> QED
  BY <1>1, <1>2 DEF Admission!Submit

(* A worker that is awaited is Collect; EndResponse finds one finished.    *)
LEMMA EndResponseCollects ==
  ASSUME ReaderShape, EndResponse, spc # "exit", worker = "finished", rpc # "new",
         UNCHANGED <<slot, rpc>>
  PROVE  Admission!Collect("self")
<1>1. rpc \notin {"new", "late", "over", "raised"} /\ worker' = "none"
  BY DEF EndResponse, ReaderShape, WorkerMatchesSynthesizer
<1>2. Task \in {"serving", "stopping"} /\ Task' = Task /\ Thread = "finished"
      /\ Thread' = "none"
  BY <1>1 DEF Task, Thread, ReaderShape
<1> QED
  BY <1>1, <1>2 DEF Admission!Collect

(* The executor's thread. *)
LEMMA WorkerAdmission ==
  ASSUME ReaderShape, WorkerNext
  PROVE  [Admission!Next]_Admission!vars
<1>1. UNCHANGED <<slot, rpc>>
  BY DEF WorkerNext, WorkerStarts, WorkerEmits, WorkerReports, WorkerEnds, linkVars
<1>2. Task' = Task
  BY <1>1 DEF Task
<1>3. worker \in {"queued", "running", "closing"} => rpc # "over"
  BY DEF ReaderShape, SlotMatchesReader
<1>4. CASE WorkerStarts
  <2>1. worker = "queued" /\ worker' = "running"
    BY <1>4 DEF WorkerStarts
  <2>2. Thread = "queued" /\ Thread' = "running"
    BY <2>1, <1>1, <1>3 DEF Thread
  <2>3. Admission!StartWorker("self")
    BY <2>1, <2>2, <1>1, <1>2 DEF Admission!StartWorker
  <2> QED
    BY <2>3 DEF Admission!Next
<1>5. CASE WorkerEmits
  BY <1>1, <1>5, SameSession DEF WorkerEmits
<1>6. CASE \E kind \in {"done", "error"} : WorkerReports(kind)
  <2>1. worker = "running" /\ worker' = "closing"
    BY <1>6 DEF WorkerReports
  <2>2. Thread' = Thread
    BY <2>1, <1>1, <1>3 DEF Thread
  <2> QED
    BY <2>1, <2>2, <1>1, <1>2, Stutter
<1>7. CASE WorkerEnds
  <2>1. worker = "closing" /\ worker' = "finished"
    BY <1>7 DEF WorkerEnds
  <2>2. Thread = "running" /\ Thread' = "finished"
    BY <2>1, <1>1, <1>3 DEF Thread
  <2>3. Admission!FinishWorker("self")
    BY <2>1, <2>2, <1>1, <1>2 DEF Admission!FinishWorker
  <2> QED
    BY <2>3 DEF Admission!Next
<1> QED
  BY <1>4, <1>5, <1>6, <1>7 DEF WorkerNext

(* The client's messages and the client's leaving. *)
LEMMA ClientAdmission ==
  ASSUME ReaderShape, ClientNext
  PROVE  [Admission!Next]_Admission!vars
<1> USE DEF Respond, sockVars, linkVars, voiceVars, respVars, synVars, workerVars
<1>1. CASE Connect
  BY <1>1, ConnectAdmits DEF Admission!Next
<1>2. CASE \E r \in DOMAIN playback : \E s \in 0..(MaxFrames - 1) : HandleAck(r, s)
  <2>1. UNCHANGED worker /\ rpc = "run"
    BY <1>2 DEF HandleAck
  <2>2. CASE EndRun
    BY <2>1, <2>2, EndRunDrains DEF Admission!Next
  <2>3. CASE UNCHANGED <<slot, rpc>>
    BY <2>1, <2>3, SameSession
  <2> QED
    BY <1>2, <2>2, <2>3 DEF HandleAck
<1>3. ASSUME UNCHANGED <<slot, worker>>,
             rpc \in {"run", "reply", "updating"}, rpc' \in {"run", "reply", "updating"}
      PROVE  UNCHANGED Admission!vars
  <2>1. Task' = Task /\ Thread' = Thread
    BY <1>3 DEF Task, Thread
  <2> QED
    BY <1>3, <2>1, Stutter
<1>4. CASE \E n \in 1..Len(Text) : HandleAppend(n)
  BY <1>3, <1>4 DEF HandleAppend
<1>5. CASE HandleCommit
  BY <1>3, <1>5 DEF HandleCommit
<1>6. CASE HandleCancel
  BY <1>3, <1>6 DEF HandleCancel
<1>7. CASE HandlePause \/ HandleResume \/ HandleOther \/ HandleUpdate
  BY <1>3, <1>7 DEF HandlePause, HandleResume, HandleOther, HandleUpdate
<1>8. CASE ClientCloses
  BY <1>8, SameSession DEF ClientCloses
<1> QED
  BY <1>1, <1>2, <1>4, <1>5, <1>6, <1>7, <1>8 DEF ClientNext

(* The rest of the reader, up to the release of the slot. *)
LEMMA ReaderAdmission ==
  ASSUME ReaderShape, ReaderNext
  PROVE  [Admission!Next]_Admission!vars
<1> USE DEF Respond, sockVars, linkVars, voiceVars, respVars, synVars, workerVars
<1>1. CASE \E sent \in BOOLEAN : ReplySent(sent)
  <2>1. UNCHANGED worker /\ rpc = "reply"
    BY <1>1 DEF ReplySent
  <2>2. CASE EndRun
    BY <2>1, <2>2, EndRunDrains DEF Admission!Next
  <2>3. CASE rpc' = "run" /\ UNCHANGED slot
    <3>1. Task' = Task /\ Thread' = Thread
      BY <2>1, <2>3 DEF Task, Thread
    <3> QED
      BY <2>1, <2>3, <3>1, Stutter
  <2> QED
    BY <1>1, <2>2, <2>3 DEF ReplySent, LoopOrEnd
<1>2. CASE \E sent \in BOOLEAN : GiveUpSent(sent)
  <2>1. UNCHANGED <<worker, slot>> /\ rpc = "givingUp" /\ rpc' = "gaveUp"
    BY <1>2 DEF GiveUpSent
  <2>2. Task' = Task /\ Thread' = Thread
    BY <2>1 DEF Task, Thread
  <2> QED
    BY <2>1, <2>2, Stutter
<1>3. CASE UpdateDone \/ UpdateRefused
  <2>1. UNCHANGED <<worker, slot>> /\ rpc = "updating" /\ rpc' = "reply"
    BY <1>3 DEF UpdateDone, UpdateRefused
  <2>2. Task' = Task /\ Thread' = Thread
    BY <2>1 DEF Task, Thread
  <2> QED
    BY <2>1, <2>2, Stutter
<1>4. CASE GaveUp \/ NoticeDisconnect
  BY <1>4, EndRunDrains DEF GaveUp, NoticeDisconnect, Admission!Next
<1>5. CASE StopSegmenter
  <2>1. UNCHANGED <<worker, slot>> /\ rpc = "stopping" /\ rpc' = "joining"
    BY <1>5 DEF StopSegmenter
  <2>2. Task' = Task /\ Thread' = Thread
    BY <2>1 DEF Task, Thread
  <2> QED
    BY <2>1, <2>2, Stutter
<1>6. CASE Joined
  <2>1. worker = "none" /\ worker' = "none" /\ slot' = "none" /\ rpc = "joining"
        /\ rpc' = "over"
    BY <1>6 DEF Joined, ReaderShape, WorkerMatchesSynthesizer
  <2>2. Task = "stopping" /\ Task' = "idle" /\ Thread = "none" /\ Thread' = "none"
    BY <2>1 DEF Task, Thread
  <2>3. Admission!ShutdownClean("self")
    BY <2>1, <2>2 DEF Admission!ShutdownClean, Admission!Unfinished
  <2> QED
    BY <2>3 DEF Admission!Next
<1>7. CASE LateRelease
  <2>1. worker = "finished" /\ worker' = worker /\ slot' = "none" /\ rpc = "late"
        /\ rpc' = "over"
    BY <1>7 DEF LateRelease
  <2>2. Task = "handedOver" /\ Task' = "idle" /\ Thread = "finished"
        /\ Thread' = "none"
    BY <2>1 DEF Task, Thread
  <2>3. Admission!ReleaseLate("self")
    BY <2>1, <2>2 DEF Admission!ReleaseLate
  <2> QED
    BY <2>3 DEF Admission!Next
<1>8. CASE ShutdownRaises
  <2>1. worker = "none" /\ UNCHANGED <<worker, slot>> /\ rpc = "joining" /\ rpc' = "raised"
    BY <1>8 DEF ShutdownRaises, ReaderShape, WorkerMatchesSynthesizer
  <2>2. Task = "stopping" /\ Task' = "raised" /\ Thread = "none" /\ Thread' = "none"
    BY <2>1 DEF Task, Thread
  <2>3. Admission!ShutdownRaises("self")
    BY <2>1, <2>2 DEF Admission!ShutdownRaises
  <2> QED
    BY <2>3 DEF Admission!Next
<1> QED
  BY <1>1, <1>2, <1>3, <1>4, <1>5, <1>6, <1>7, <1>8 DEF ReaderNext

(* The synthesizer submits and collects workers; all else is a stutter.    *)
LEMMA SynthesizerAdmission ==
  ASSUME ReaderShape, SynthesizerNext
  PROVE  [Admission!Next]_Admission!vars
<1> USE DEF sockVars, linkVars, voiceVars, respVars, workerVars
<1>1. ASSUME NEW sent \in BOOLEAN, CreatedSent(sent)
      PROVE  [Admission!Next]_Admission!vars
  BY <1>1, CreatedSubmits DEF Admission!Next
<1>2. ASSUME EndResponse, spc \in {"join", "done"}, worker = "finished",
             UNCHANGED <<slot, rpc>>
      PROVE  [Admission!Next]_Admission!vars
  <2>1. rpc # "new"
    BY <1>2 DEF ReaderShape, SlotMatchesReader
  <2> QED
    BY <1>2, <2>1, EndResponseCollects DEF Admission!Next
<1>3. CASE Join
  BY <1>2, <1>3, SameSession DEF Join
<1>4. ASSUME NEW sent \in BOOLEAN, DoneSent(sent)
      PROVE  [Admission!Next]_Admission!vars
  <2>1. worker = "finished"
    BY <1>4 DEF DoneSent, ReaderShape, WorkerMatchesSynthesizer
  <2> QED
    BY <1>2, <1>4, <2>1 DEF DoneSent
<1>5. CASE SynStop \/ SynDiscard \/ SynTake \/ SynWake
  BY <1>5, SameSession DEF SynStop, SynDiscard, SynTake, SynWake
<1>6. CASE FrameDropped \/ FrameTaken \/ FrameWake
  BY <1>6, SameSession DEF FrameDropped, FrameTaken, FrameWake
<1>7. CASE WorkerError \/ WorkerDone
  BY <1>7, SameSession DEF WorkerError, WorkerDone
<1>8. ASSUME NEW sent \in BOOLEAN,
             ToldSent(sent) \/ DeltaSent(sent) \/ FlowErrorSent(sent)
               \/ ErrorSent(sent) \/ AudioDoneSent(sent)
      PROVE  [Admission!Next]_Admission!vars
  BY <1>8, SameSession DEF ToldSent, DeltaSent, FlowErrorSent, ErrorSent, AudioDoneSent
<1> QED
  BY <1>1, <1>3, <1>4, <1>5, <1>6, <1>7, <1>8 DEF SynthesizerNext

(* The shutdown deadline is ShutdownClean or ShutdownLate, by the worker.  *)
LEMMA JoinTimeoutStops ==
  ASSUME ReaderShape, JoinTimeout
  PROVE  Admission!ShutdownClean("self") \/ Admission!ShutdownLate("self")
<1>1. rpc = "joining" /\ worker' = worker /\ Task = "stopping" /\ HandOver
  BY DEF JoinTimeout, Task, Thread, ReaderShape, voiceVars, respVars, workerVars
<1>2. CASE Unfinished
  <2>1. rpc' = "late" /\ slot' = slot
    BY <1>1, <1>2 DEF HandOver
  <2>2. Task' = "handedOver" /\ Thread' = Thread /\ Thread \in {"queued", "running"}
    BY <1>1, <1>2, <2>1 DEF Task, Thread, Unfinished
  <2> QED
    BY <1>1, <2>1, <2>2 DEF Admission!ShutdownLate, Admission!Unfinished
<1>3. CASE ~Unfinished
  <2>1. rpc' = "over" /\ slot' = "none" /\ worker \in {"none", "finished"}
    BY <1>1, <1>3 DEF HandOver, Unfinished, ReaderShape
  <2>2. Task' = "idle" /\ Thread' = "none" /\ Thread \in {"none", "finished"}
    BY <1>1, <2>1 DEF Task, Thread
  <2> QED
    BY <1>1, <2>1, <2>2 DEF Admission!ShutdownClean, Admission!Unfinished
<1> QED
  BY <1>2, <1>3

LEMMA OtherAdmission ==
  ASSUME ReaderShape, SegmenterNext \/ TimerNext \/ StatusFails \/ Served
  PROVE  [Admission!Next]_Admission!vars
<1> USE DEF sockVars, linkVars, voiceVars, respVars, workerVars
<1>1. CASE SegmenterNext
  BY <1>1, SameSession DEF SegmenterNext, SegRead, SegPut
<1>2. CASE IdleFires \/ FlowTimeout \/ StatusFails \/ Served
  BY <1>2, SameSession DEF IdleFires, FlowTimeout, StatusFails, Served, vars
<1>3. CASE GiveUp
  <2>1. UNCHANGED <<worker, slot>> /\ rpc = "run" /\ rpc' = "givingUp"
    BY <1>3 DEF GiveUp
  <2>2. Task' = Task /\ Thread' = Thread
    BY <2>1 DEF Task, Thread
  <2> QED
    BY <2>1, <2>2, Stutter
<1>4. CASE JoinTimeout
  BY <1>4, JoinTimeoutStops DEF Admission!Next
<1> QED
  BY <1>1, <1>2, <1>3, <1>4 DEF TimerNext

LEMMA NextAdmission == ReaderShape /\ [Next]_vars => [Admission!Next]_Admission!vars
<1> SUFFICES ASSUME ReaderShape, [Next]_vars PROVE [Admission!Next]_Admission!vars
  OBVIOUS
<1>1. CASE Next
  BY <1>1, ClientAdmission, ReaderAdmission, SynthesizerAdmission, WorkerAdmission,
     OtherAdmission DEF Next
<1>2. CASE UNCHANGED vars
  BY <1>2, SameSession DEF vars, linkVars, voiceVars, respVars, workerVars
<1> QED
  BY <1>1, <1>2

(* Every step of a session is a step LiveAdmission allows a connection, or *)
(* none it can see: the safety part of AdmissionContract, for every text   *)
(* and every limit (server.py:369-420, 714-832, 935-986).                  *)
THEOREM RefinesAdmission ==
  Spec => Admission!Init /\ [][Admission!Next]_Admission!vars
<1>1. Spec => Init /\ [][Next]_vars
  BY DEF Spec
<1> QED
  BY <1>1, InitAdmission, ShapeInvariant, NextAdmission, PTL

(* The slot outlives the worker: no worker of the session is queued or     *)
(* running once its slot is given back (server.py:979-986).                *)
THEOREM SlotOutlivesWorker == Spec => [](Unfinished => slot # "none")
<1>1. ReaderShape => (Unfinished => slot # "none")
  BY DEF ReaderShape, SlotMatchesReader, WorkerMatchesSynthesizer, Unfinished
<1> QED
  BY <1>1, ShapeInvariant, PTL

-----------------------------------------------------------------------------
(* The flow control's wake-ups. *)

(* The window depends on the playback trackers and the pause alone. *)
LEMMA FlowOpenUnchanged ==
  ASSUME UNCHANGED <<playback, paused>>
  PROVE  FlowOpen' = FlowOpen
  BY DEF FlowOpen, Unacked

(* A closing session has stopped its worker: what keeps the synthesizer    *)
(* from going to sleep with a frame in a session that nobody will wake.    *)
ClosingStops == closing => stop

LEMMA InitWakeUp == Init => WakeUpPending /\ ClosingStops
  BY DEF Init, WakeUpPending, ClosingStops

LEMMA NextClosingStops == ClosingStops /\ [Next]_vars => ClosingStops'
<1> SUFFICES ASSUME ClosingStops, [Next]_vars PROVE ClosingStops'
  OBVIOUS
<1> USE DEF ClosingStops, sockVars, linkVars, textVars, voiceVars, wakeVars
<1>1. CASE ClientNext
  BY <1>1 DEF ClientNext, Connect, HandleAppend, HandleCommit, HandleCancel, HandlePause,
     HandleResume, HandleUpdate, HandleOther, HandleAck, EndRun, ClientCloses
<1>2. CASE ReaderNext
  BY <1>2 DEF ReaderNext, ReplySent, LoopOrEnd, EndRun, GiveUpSent, Sent, UpdateDone,
     UpdateRefused, GaveUp, NoticeDisconnect, StopSegmenter, Joined, ShutdownRaises, LateRelease
<1>3. CASE SegmenterNext \/ WorkerNext
  BY <1>3 DEF SegmenterNext, SegRead, SegPut, WorkerNext, WorkerStarts, WorkerEmits,
     WorkerReports, WorkerEnds
<1>4. CASE TimerNext \/ StatusFails \/ Served
  BY <1>4 DEF TimerNext, IdleFires, GiveUp, FlowTimeout, JoinTimeout, StatusFails, Served,
     vars
<1>5. CASE SynTake
  BY <1>5 DEF SynTake
<1>6. CASE SynWake
  BY <1>6 DEF SynWake
<1>7. CASE FrameWake
  BY <1>7 DEF FrameWake
<1>8. CASE SynStop \/ SynDiscard \/ FrameDropped \/ FrameTaken \/ WorkerError
             \/ WorkerDone \/ Join
  BY <1>8 DEF SynStop, SynDiscard, FrameDropped, FrameTaken, WorkerError, WorkerDone, Join
<1>9. ASSUME NEW sent \in BOOLEAN,
             ToldSent(sent) \/ CreatedSent(sent) \/ DeltaSent(sent) \/ ErrorSent(sent)
               \/ AudioDoneSent(sent) \/ DoneSent(sent)
      PROVE  ClosingStops'
  <2>1. UNCHANGED closing /\ stop' = (stop \/ Broken(sent))
    BY <1>9 DEF ToldSent, CreatedSent, DeltaSent, ErrorSent, AudioDoneSent, DoneSent, Sent
  <2> QED
    BY <2>1
<1>10. ASSUME NEW sent \in BOOLEAN, FlowErrorSent(sent)
       PROVE  ClosingStops'
  BY <1>10 DEF FlowErrorSent
<1>11. CASE UNCHANGED vars
  BY <1>11 DEF vars
<1> QED
  BY <1>1, <1>2, <1>3, <1>4, <1>5, <1>6, <1>7, <1>8, <1>9, <1>10, <1>11
     DEF Next, SynthesizerNext

(* The reader closes the session, acknowledges, pauses, resumes and        *)
(* cancels only together with setting the event.                           *)
LEMMA ClientWakeUp ==
  ASSUME WakeUpPending, ClientNext
  PROVE  WakeUpPending'
<1> USE DEF sockVars, linkVars, textVars, inputVars, voiceVars, respVars,
            synVars, wakeVars
<1>1. ASSUME UNCHANGED <<spc, closing, playback, paused, flowChanged>>
      PROVE  WakeUpPending'
  BY <1>1, FlowOpenUnchanged DEF WakeUpPending
<1>2. ASSUME flowChanged'
      PROVE  WakeUpPending'
  BY <1>2 DEF WakeUpPending
<1>3. CASE Connect \/ HandleCommit \/ HandleUpdate \/ HandleOther \/ ClientCloses
  BY <1>1, <1>3 DEF Connect, HandleCommit, HandleUpdate, HandleOther, ClientCloses
<1>4. CASE \E n \in 1..Len(Text) : HandleAppend(n)
  BY <1>1, <1>4 DEF HandleAppend
<1>5. CASE HandleCancel \/ HandlePause \/ HandleResume
  BY <1>2, <1>5 DEF HandleCancel, HandlePause, HandleResume
<1>6. CASE \E r \in DOMAIN playback : \E s \in 0..(MaxFrames - 1) : HandleAck(r, s)
  <2>1. flowChanged'
    BY <1>6 DEF HandleAck, EndRun
  <2> QED
    BY <1>2, <2>1
<1> QED
  BY <1>3, <1>4, <1>5, <1>6 DEF ClientNext

LEMMA ReaderWakeUp ==
  ASSUME WakeUpPending,
         ReaderNext \/ SegmenterNext \/ WorkerNext \/ TimerNext \/ StatusFails \/ Served
  PROVE  WakeUpPending'
<1> USE DEF sockVars, linkVars, textVars, inputVars, voiceVars, respVars,
            synVars, wakeVars
<1>1. ASSUME UNCHANGED <<spc, closing, playback, paused>>,
             flowChanged => flowChanged'
      PROVE  WakeUpPending'
  BY <1>1, FlowOpenUnchanged DEF WakeUpPending
<1>2. CASE \E sent \in BOOLEAN : ReplySent(sent)
  <2>1. CASE EndRun
    BY <2>1 DEF EndRun, WakeUpPending
  <2>2. CASE UNCHANGED <<closing, wakeVars>>
    BY <1>1, <1>2, <2>2 DEF ReplySent
  <2> QED
    BY <1>2, <2>1, <2>2 DEF ReplySent, LoopOrEnd
<1>3. CASE \E sent \in BOOLEAN : GiveUpSent(sent)
  BY <1>1, <1>3 DEF GiveUpSent, Sent
<1>4. CASE GaveUp \/ NoticeDisconnect \/ StatusFails
  BY <1>4 DEF GaveUp, NoticeDisconnect, EndRun, StatusFails, WakeUpPending
<1>5. CASE UpdateDone \/ UpdateRefused \/ StopSegmenter \/ Joined \/ ShutdownRaises \/ LateRelease \/ Served
  BY <1>1, <1>5 DEF UpdateDone, UpdateRefused, StopSegmenter, Joined, ShutdownRaises, LateRelease, Served,
     vars
<1>6. CASE SegmenterNext
  BY <1>1, <1>6 DEF SegmenterNext, SegRead, SegPut
<1>7. CASE WorkerNext
  BY <1>1, <1>7 DEF WorkerNext, WorkerStarts, WorkerEmits, WorkerReports, WorkerEnds
<1>8. CASE IdleFires \/ GiveUp
  BY <1>1, <1>8 DEF IdleFires, GiveUp
<1>9. CASE FlowTimeout \/ JoinTimeout
  <2>1. spc' \in {"stalled", "stalledHolding", "exit"}
    BY <1>9 DEF FlowTimeout, JoinTimeout
  <2> QED
    BY <2>1 DEF WakeUpPending
<1> QED
  BY <1>2, <1>3, <1>4, <1>5, <1>6, <1>7, <1>8, <1>9 DEF ReaderNext, TimerNext

(* The synthesizer clears the event only after it has found the window     *)
(* shut, with nothing in between.                                          *)
LEMMA SynthesizerWakeUp ==
  ASSUME WakeUpPending, ClosingStops, SynthesizerNext
  PROVE  WakeUpPending'
<1> USE DEF sockVars, linkVars, textVars
<1>1. ASSUME spc' \notin {"waiting", "holding"}
      PROVE  WakeUpPending'
  BY <1>1 DEF WakeUpPending
<1>2. ASSUME UNCHANGED <<playback, paused, closing>>, ~closing, ~FlowOpen
      PROVE  WakeUpPending'
  BY <1>2, FlowOpenUnchanged DEF WakeUpPending
<1>3. CASE SynTake
  <2>1. UNCHANGED <<paused, closing>> /\ ~closing
    BY <1>3 DEF SynTake
  <2>2. CASE FlowOpen
    BY <1>1, <1>3, <2>2 DEF SynTake, Begin
  <2>3. CASE ~FlowOpen
    BY <1>2, <1>3, <2>1, <2>3 DEF SynTake
  <2> QED
    BY <2>2, <2>3
<1>4. CASE SynWake
  BY <1>1, <1>2, <1>4 DEF SynWake, Begin
<1>5. CASE FrameTaken
  <2>1. UNCHANGED <<paused, closing>> /\ ~closing
    BY <1>5 DEF FrameTaken, ClosingStops
  <2>2. CASE FlowOpen
    BY <1>1, <1>5, <2>2 DEF FrameTaken, SendFrame
  <2>3. CASE ~FlowOpen
    BY <1>2, <1>5, <2>1, <2>3 DEF FrameTaken
  <2> QED
    BY <2>2, <2>3
<1>6. CASE FrameWake
  BY <1>1, <1>2, <1>6 DEF FrameWake, SendFrame
<1>7. CASE SynStop \/ SynDiscard \/ FrameDropped
  BY <1>1, <1>7 DEF SynStop, SynDiscard, FrameDropped, voiceVars,
     respVars, synVars
<1>8. CASE WorkerError \/ WorkerDone \/ Join
  BY <1>1, <1>8 DEF WorkerError, WorkerDone, Join, EndResponse
<1>9. ASSUME NEW sent \in BOOLEAN,
             ToldSent(sent) \/ CreatedSent(sent) \/ DeltaSent(sent)
               \/ FlowErrorSent(sent) \/ ErrorSent(sent) \/ AudioDoneSent(sent)
               \/ DoneSent(sent)
      PROVE  WakeUpPending'
  BY <1>1, <1>9 DEF ToldSent, CreatedSent, DeltaSent, FlowErrorSent, ErrorSent,
     AudioDoneSent, DoneSent, EndResponse
<1> QED
  BY <1>3, <1>4, <1>5, <1>6, <1>7, <1>8, <1>9 DEF SynthesizerNext

(* No wake-up of the flow control is lost, for every window and every      *)
(* client (server.py:834-865 against 570-617 and 289-293).                 *)
THEOREM NoLostWakeUp == Spec => []WakeUpPending
<1>1. WakeUpPending /\ ClosingStops /\ [Next]_vars => WakeUpPending'
  <2> SUFFICES ASSUME WakeUpPending, ClosingStops, [Next]_vars PROVE WakeUpPending'
    OBVIOUS
  <2>1. CASE Next
    BY <2>1, ClientWakeUp, ReaderWakeUp, SynthesizerWakeUp DEF Next
  <2>2. CASE UNCHANGED vars
    BY <2>2, FlowOpenUnchanged DEF vars, linkVars, textVars, voiceVars,
       respVars, synVars, wakeVars, WakeUpPending
  <2> QED
    BY <2>1, <2>2
<1>2. Spec => Init /\ [][Next]_vars
  BY DEF Spec
<1> QED
  BY <1>1, <1>2, InitWakeUp, NextClosingStops, PTL

-----------------------------------------------------------------------------
(* Induction: a set of naturals that is not empty has a least element, and *)
(* one that holds 0 and every successor holds them all.                    *)
LEMMA LeastNat ==
  ASSUME NEW T, T \subseteq Nat, T # {}
  PROVE  \E n \in T : \A m \in T : n <= m
<1> DEFINE R == OpToRel(<, Nat)
<1>1. IsWellFoundedOn(R, Nat)
  BY NatLessThanWellFounded
<1>2. \A m, n \in Nat : m < n => <<m, n>> \in R
  BY DEF OpToRel
<1> HIDE DEF R
<1>3. PICK n \in T : \A m \in T : <<m, n>> \notin R
  BY <1>1, WFMin
<1>4. \A m \in T : ~(m < n)
  BY <1>2, <1>3
<1>5. \A m \in T : n <= m
  <2> TAKE m \in T
  <2>1. n \in Nat /\ m \in Nat
    OBVIOUS
  <2> QED BY <2>1, <1>4
<1> QED BY <1>5

LEMMA Induct ==
  ASSUME NEW S, 0 \in S, \A n \in Nat : n \in S => n + 1 \in S
  PROVE  Nat \subseteq S
<1> DEFINE T == {n \in Nat : n \notin S}
<1> SUFFICES ASSUME T # {} PROVE FALSE
  OBVIOUS
<1>1. PICK n \in T : \A m \in T : n <= m
  BY LeastNat
<1>2. n \in Nat /\ n # 0
  OBVIOUS
<1>3. n - 1 \in Nat /\ ~(n <= n - 1) /\ (n - 1) + 1 = n
  BY <1>2
<1>4. n - 1 \in S
  BY <1>1, <1>3
<1> QED BY <1>1, <1>2, <1>3, <1>4

(* The sum of f over a finite set S, one element after the other: iter is  *)
(* the function that MapThenSumSet builds over the subsets of S.           *)
Total(f, S) == MapThenSumSet(LAMBDA x : f[x], S)
First(s)  == CHOOSE x \in s : TRUE
Adds(iter, f, D) ==
  iter = [s \in D |-> IF s = {} THEN 0 ELSE f[First(s)] + iter[s \ {First(s)}]]

LEMMA FirstIn == ASSUME NEW s, s # {} PROVE First(s) \in s
BY DEF First

LEMMA TotalIter ==
  ASSUME NEW f, NEW S
  PROVE  Total(f, S) = (CHOOSE iter : Adds(iter, f, SUBSET S))[S]
BY DEF Total, MapThenSumSet, MapThenFoldSet, Adds, First

Smaller(S, n) == {s \in SUBSET S : Cardinality(s) <= n}

LEMMA CardinalityLess ==
  ASSUME NEW S, IsFiniteSet(S), NEW s \in SUBSET S, s # {}
  PROVE  /\ IsFiniteSet(s) /\ IsFiniteSet(s \ {First(s)}) /\ s \ {First(s)} \in SUBSET S
         /\ Cardinality(s) \in Nat /\ Cardinality(s) # 0
         /\ Cardinality(s \ {First(s)}) = Cardinality(s) - 1
<1>1. IsFiniteSet(s)
  BY FS_Subset
<1>2. First(s) \in s
  BY FirstIn
<1>3. IsFiniteSet(s \ {First(s)}) /\ Cardinality(s \ {First(s)}) = Cardinality(s) - 1
  BY <1>1, <1>2, FS_RemoveElement
<1> QED BY <1>1, <1>3, FS_CardinalityType, FS_EmptySet

(* There is such a function, by induction on the size of the subsets. *)
LEMMA AddsExists ==
  ASSUME NEW f, NEW S, IsFiniteSet(S)
  PROVE  \E iter : Adds(iter, f, SUBSET S)
<1> DEFINE Done == {n \in Nat : \E iter : Adds(iter, f, Smaller(S, n))}
<1>1. 0 \in Done
  <2> DEFINE it == [s \in Smaller(S, 0) |-> 0]
  <2>1. \A s \in Smaller(S, 0) : s = {}
    <3> TAKE s \in Smaller(S, 0)
    <3>1. s \in SUBSET S /\ Cardinality(s) <= 0
      BY DEF Smaller
    <3>2. s # {} => Cardinality(s) \in Nat /\ Cardinality(s) # 0
      BY <3>1, CardinalityLess
    <3> QED BY <3>1, <3>2
  <2>2. Adds(it, f, Smaller(S, 0))
    BY <2>1 DEF Adds
  <2> HIDE DEF it
  <2> QED BY <2>2
<1>2. ASSUME NEW n \in Nat, n \in Done PROVE n + 1 \in Done
  <2>1. PICK old : Adds(old, f, Smaller(S, n))
    BY <1>2
  <2> DEFINE it == [s \in Smaller(S, n + 1) |->
                      IF s = {} THEN 0 ELSE f[First(s)] + old[s \ {First(s)}]]
  <2>2. \A s \in Smaller(S, n) : s \in Smaller(S, n + 1) /\ it[s] = old[s]
    <3> TAKE s \in Smaller(S, n)
    <3>1. s \in SUBSET S /\ Cardinality(s) <= n
      BY DEF Smaller
    <3>2. Cardinality(s) \in Nat
      BY <3>1, FS_Subset, FS_CardinalityType
    <3>3. s \in Smaller(S, n + 1)
      BY <3>1, <3>2 DEF Smaller
    <3>4. old[s] = IF s = {} THEN 0 ELSE f[First(s)] + old[s \ {First(s)}]
      BY <2>1 DEF Adds
    <3> QED BY <3>3, <3>4
  <2>3. \A s \in Smaller(S, n + 1) : s # {} => s \ {First(s)} \in Smaller(S, n)
    <3> TAKE s \in Smaller(S, n + 1)
    <3> HAVE s # {}
    <3>1. s \in SUBSET S /\ Cardinality(s) <= n + 1
      BY DEF Smaller
    <3>2. /\ s \ {First(s)} \in SUBSET S /\ Cardinality(s) \in Nat
          /\ Cardinality(s \ {First(s)}) = Cardinality(s) - 1
      BY <3>1, CardinalityLess
    <3>3. Cardinality(s \ {First(s)}) <= n
      BY <3>1, <3>2
    <3> QED BY <3>2, <3>3 DEF Smaller
  <2>4. it = [s \in Smaller(S, n + 1) |->
                IF s = {} THEN 0 ELSE f[First(s)] + it[s \ {First(s)}]]
    BY <2>2, <2>3
  <2> HIDE DEF it
  <2>5. Adds(it, f, Smaller(S, n + 1))
    BY <2>4 DEF Adds
  <2> QED BY <2>5
<1> HIDE DEF Done
<1>3. Nat \subseteq Done
  BY <1>1, <1>2, Induct
<1>4. Cardinality(S) \in Nat
  BY FS_CardinalityType
<1>5. Smaller(S, Cardinality(S)) = SUBSET S
  BY FS_Subset DEF Smaller
<1>6. Cardinality(S) \in Done
  BY <1>3, <1>4
<1> QED BY <1>5, <1>6 DEF Done

(* Two of them agree where both are defined. *)
LEMMA AddsAgree ==
  ASSUME NEW f, NEW S, IsFiniteSet(S), NEW T \in SUBSET S, NEW i, NEW j,
         Adds(i, f, SUBSET S), Adds(j, f, SUBSET T)
  PROVE  i[T] = j[T]
<1> DEFINE Same == {n \in Nat : \A s \in SUBSET T : Cardinality(s) <= n => i[s] = j[s]}
<1>0. \A s \in SUBSET T : Cardinality(s) \in Nat /\ s \in SUBSET S
  BY FS_Subset, FS_CardinalityType
<1>a. \A s \in SUBSET T : i[s] = IF s = {} THEN 0 ELSE f[First(s)] + i[s \ {First(s)}]
  BY <1>0 DEF Adds
<1>b. \A s \in SUBSET T : j[s] = IF s = {} THEN 0 ELSE f[First(s)] + j[s \ {First(s)}]
  BY DEF Adds
<1>1. 0 \in Same
  <2>1. ASSUME NEW s \in SUBSET T, Cardinality(s) <= 0 PROVE s = {}
    <3>1. s # {} => Cardinality(s) \in Nat /\ Cardinality(s) # 0
      BY <1>0, CardinalityLess
    <3> QED BY <2>1, <3>1
  <2> QED BY <2>1, <1>a, <1>b
<1>2. ASSUME NEW n \in Nat, n \in Same PROVE n + 1 \in Same
  <2> SUFFICES ASSUME NEW s \in SUBSET T, Cardinality(s) <= n + 1 PROVE i[s] = j[s]
    OBVIOUS
  <2>1. CASE s = {}
    BY <2>1, <1>a, <1>b
  <2>2. CASE s # {}
    <3>1. /\ Cardinality(s) \in Nat
          /\ Cardinality(s \ {First(s)}) = Cardinality(s) - 1
      BY <1>0, <2>2, CardinalityLess
    <3>2. Cardinality(s \ {First(s)}) <= n
      BY <3>1
    <3>3. First(s) \in T /\ s \ {First(s)} \in SUBSET T
      BY <2>2, FirstIn
    <3>4. i[s \ {First(s)}] = j[s \ {First(s)}]
      BY <1>2, <3>2, <3>3
    <3> QED BY <1>a, <1>b, <2>2, <3>3, <3>4
  <2> QED BY <2>1, <2>2
<1> HIDE DEF Same
<1>3. Nat \subseteq Same
  BY <1>1, <1>2, Induct
<1>4. IsFiniteSet(T) /\ Cardinality(T) \in Nat
  BY FS_Subset, FS_CardinalityType
<1> QED BY <1>3, <1>4 DEF Same

LEMMA TotalStep ==
  ASSUME NEW f, NEW S, IsFiniteSet(S)
  PROVE  /\ Total(f, {}) = 0
         /\ S # {} => Total(f, S) = f[First(S)] + Total(f, S \ {First(S)})
<1> DEFINE Iter(U) == CHOOSE iter : Adds(iter, f, SUBSET U)
<1>1. \A U : IsFiniteSet(U) => Adds(Iter(U), f, SUBSET U) /\ Total(f, U) = Iter(U)[U]
  BY AddsExists, TotalIter
<1> HIDE DEF Iter
<1>2. Total(f, {}) = 0
  <2>1. Adds(Iter({}), f, SUBSET {}) /\ Total(f, {}) = Iter({})[{}]
    BY <1>1, FS_EmptySet
  <2> QED BY <2>1 DEF Adds
<1>3. ASSUME S # {} PROVE Total(f, S) = f[First(S)] + Total(f, S \ {First(S)})
  <2> DEFINE T == S \ {First(S)}
  <2>1. IsFiniteSet(T) /\ T \in SUBSET S
    BY FS_Subset
  <2>2. Iter(S)[S] = f[First(S)] + Iter(S)[T]
    BY <1>1, <1>3 DEF Adds
  <2>3. Adds(Iter(S), f, SUBSET S) /\ Adds(Iter(T), f, SUBSET T)
    BY <1>1, <2>1
  <2> HIDE DEF T
  <2>4. ASSUME NEW i, NEW j, Adds(i, f, SUBSET S), Adds(j, f, SUBSET T) PROVE i[T] = j[T]
    BY <2>1, <2>4, AddsAgree
  <2> QED BY <1>1, <2>1, <2>2, <2>3, <2>4 DEF T
<1> QED BY <1>2, <1>3

(* The sum of naturals, whichever element is taken first. *)
LEMMA TotalIsNat ==
  ASSUME NEW S, IsFiniteSet(S), NEW f, \A x \in S : f[x] \in Nat
  PROVE  Total(f, S) \in Nat
<1> DEFINE Ok == {n \in Nat : \A T \in SUBSET S : Cardinality(T) <= n => Total(f, T) \in Nat}
<1>0. \A T \in SUBSET S : IsFiniteSet(T) /\ Cardinality(T) \in Nat
  BY FS_Subset, FS_CardinalityType
<1>1. 0 \in Ok
  <2> SUFFICES ASSUME NEW T \in SUBSET S, Cardinality(T) <= 0 PROVE Total(f, T) \in Nat
    OBVIOUS
  <2>1. T # {} => Cardinality(T) \in Nat /\ Cardinality(T) # 0
    BY CardinalityLess
  <2>2. T = {}
    BY <2>1
  <2>3. Total(f, {}) = 0
    BY TotalStep, FS_EmptySet
  <2> QED BY <2>2, <2>3
<1>2. ASSUME NEW n \in Nat, n \in Ok PROVE n + 1 \in Ok
  <2> SUFFICES ASSUME NEW T \in SUBSET S, Cardinality(T) <= n + 1 PROVE Total(f, T) \in Nat
    OBVIOUS
  <2>1. CASE T = {}
    <3>1. Total(f, {}) = 0
      BY TotalStep, FS_EmptySet
    <3> QED BY <2>1, <3>1
  <2>2. CASE T # {}
    <3>1. /\ Cardinality(T) \in Nat /\ T \ {First(T)} \in SUBSET S
          /\ Cardinality(T \ {First(T)}) = Cardinality(T) - 1
      BY <2>2, CardinalityLess
    <3>2. Cardinality(T \ {First(T)}) <= n
      BY <3>1
    <3>3. Total(f, T \ {First(T)}) \in Nat /\ f[First(T)] \in Nat
      BY <1>2, <2>2, <3>1, <3>2, FirstIn
    <3>4. Total(f, T) = f[First(T)] + Total(f, T \ {First(T)})
      BY <1>0, <2>2, TotalStep
    <3> QED BY <3>3, <3>4
  <2> QED BY <2>1, <2>2
<1> HIDE DEF Ok
<1>3. Nat \subseteq Ok
  BY <1>1, <1>2, Induct
<1> QED BY <1>0, <1>3 DEF Ok

LEMMA TotalSplit ==
  ASSUME NEW S, IsFiniteSet(S), NEW f, \A x \in S : f[x] \in Nat, NEW y \in S
  PROVE  Total(f, S) = f[y] + Total(f, S \ {y})
<1> DEFINE Ok == {n \in Nat : \A T \in SUBSET S : \A x \in T :
                    Cardinality(T) <= n => Total(f, T) = f[x] + Total(f, T \ {x})}
<1>0. \A T \in SUBSET S : IsFiniteSet(T) /\ Cardinality(T) \in Nat /\ Total(f, T) \in Nat
  <2> TAKE T \in SUBSET S
  <2>1. IsFiniteSet(T) /\ Cardinality(T) \in Nat
    BY FS_Subset, FS_CardinalityType
  <2>2. \A x \in T : f[x] \in Nat
    OBVIOUS
  <2> QED BY <2>1, <2>2, TotalIsNat
<1>1. 0 \in Ok
  <2> SUFFICES ASSUME NEW T \in SUBSET S, NEW x \in T, Cardinality(T) <= 0 PROVE FALSE
    OBVIOUS
  <2>1. Cardinality(T) \in Nat /\ Cardinality(T) # 0
    BY CardinalityLess
  <2> QED BY <2>1
<1>2. ASSUME NEW n \in Nat, n \in Ok PROVE n + 1 \in Ok
  <2> SUFFICES ASSUME NEW T \in SUBSET S, NEW x \in T, Cardinality(T) <= n + 1
               PROVE  Total(f, T) = f[x] + Total(f, T \ {x})
    OBVIOUS
  <2> DEFINE p == First(T)
  <2>1. p \in T /\ Total(f, T) = f[p] + Total(f, T \ {p})
    BY <1>0, TotalStep, FirstIn
  <2>2. CASE x = p
    BY <2>1, <2>2
  <2>3. CASE x # p
    <3> HIDE DEF p
    <3>1. /\ Cardinality(T) \in Nat
          /\ Cardinality(T \ {p}) = Cardinality(T) - 1
          /\ Cardinality(T \ {x}) = Cardinality(T) - 1
      BY <1>0, <2>1, FS_RemoveElement
    <3>2. Cardinality(T \ {p}) <= n /\ Cardinality(T \ {x}) <= n
      BY <3>1
    <3>3. Total(f, T \ {p}) = f[x] + Total(f, (T \ {p}) \ {x})
      BY <1>2, <2>1, <2>3, <3>2
    <3>4. Total(f, T \ {x}) = f[p] + Total(f, (T \ {x}) \ {p})
      BY <1>2, <2>1, <2>3, <3>2
    <3>5. (T \ {p}) \ {x} = (T \ {x}) \ {p}
      OBVIOUS
    <3>6. f[x] \in Nat /\ f[p] \in Nat /\ Total(f, (T \ {x}) \ {p}) \in Nat
      BY <1>0, <2>1
    <3> QED BY <2>1, <3>3, <3>4, <3>5, <3>6
  <2> QED BY <2>2, <2>3
<1> HIDE DEF Ok
<1>3. Nat \subseteq Ok
  BY <1>1, <1>2, Induct
<1> QED BY <1>0, <1>3 DEF Ok

LEMMA ImageFinite ==
  ASSUME NEW h, NEW T, IsFiniteSet(T)
  PROVE  IsFiniteSet({h[x] : x \in T})
<1> DEFINE R == {h[x] : x \in T}
           k == [x \in T |-> h[x]]
<1>1. k \in Surjection(T, R)
  BY DEF Surjection
<1> QED BY <1>1, FS_Surjection

(* Renaming the elements does not change the sum. *)
LEMMA TotalRenamed ==
  ASSUME NEW S, IsFiniteSet(S), NEW f, \A x \in S : f[x] \in Nat,
         NEW g, NEW h, \A x \in S : g[h[x]] = f[x],
         \A x, y \in S : h[x] = h[y] => x = y
  PROVE  Total(g, {h[x] : x \in S}) = Total(f, S)
<1> DEFINE Im(T) == {h[x] : x \in T}
           Ok == {n \in Nat : \A T \in SUBSET S :
                    Cardinality(T) <= n => Total(g, Im(T)) = Total(f, T)}
<1>0. \A T \in SUBSET S : IsFiniteSet(T) /\ Cardinality(T) \in Nat
  BY FS_Subset, FS_CardinalityType
<1>1. 0 \in Ok
  <2> SUFFICES ASSUME NEW T \in SUBSET S, Cardinality(T) <= 0 PROVE Total(g, Im(T)) = Total(f, T)
    OBVIOUS
  <2>1. T # {} => Cardinality(T) \in Nat /\ Cardinality(T) # 0
    BY CardinalityLess
  <2>2. T = {}
    BY <2>1
  <2>3. Im(T) = {}
    BY <2>2
  <2> QED BY <2>2, <2>3, TotalStep, FS_EmptySet
<1>2. ASSUME NEW n \in Nat, n \in Ok PROVE n + 1 \in Ok
  <2> SUFFICES ASSUME NEW T \in SUBSET S, Cardinality(T) <= n + 1
               PROVE  Total(g, Im(T)) = Total(f, T)
    OBVIOUS
  <2>1. CASE T = {}
    <3>1. Im(T) = {}
      BY <2>1
    <3> QED BY <2>1, <3>1, TotalStep, FS_EmptySet
  <2>2. CASE T # {}
    <3> DEFINE p == First(T)
    <3>1. p \in T
      BY <2>2, FirstIn
    <3> HIDE DEF p
    <3>2. Cardinality(T) \in Nat /\ Cardinality(T \ {p}) = Cardinality(T) - 1
      BY <1>0, <3>1, FS_RemoveElement
    <3>3. Total(g, Im(T \ {p})) = Total(f, T \ {p})
      <4>1. Cardinality(T \ {p}) <= n
        BY <3>2
      <4> QED BY <1>2, <4>1
    <3>4. Total(f, T) = f[p] + Total(f, T \ {p})
      <4>1. \A x \in T : f[x] \in Nat
        OBVIOUS
      <4> QED BY <1>0, <3>1, <4>1, TotalSplit
    <3>5. IsFiniteSet(Im(T)) /\ h[p] \in Im(T)
      BY <1>0, <3>1, ImageFinite
    <3>6. \A y \in Im(T) : g[y] \in Nat
      OBVIOUS
    <3>7. Total(g, Im(T)) = g[h[p]] + Total(g, Im(T) \ {h[p]})
      BY <3>5, <3>6, TotalSplit
    <3>8. Im(T) \ {h[p]} = Im(T \ {p})
      BY <3>1
    <3> QED BY <3>1, <3>3, <3>4, <3>7, <3>8
  <2> QED BY <2>1, <2>2
<1> HIDE DEF Ok
<1>3. Nat \subseteq Ok
  BY <1>1, <1>2, Induct
<1> QED BY <1>0, <1>3 DEF Ok

(* The sum of the same numbers, and of numbers that are no larger.         *)
LEMMA TotalSame ==
  ASSUME NEW S, IsFiniteSet(S), NEW f, NEW g, \A x \in S : f[x] \in Nat /\ g[x] = f[x]
  PROVE  Total(g, S) = Total(f, S)
<1> DEFINE h == [x \in S |-> x]
<1>1. \A x \in S : g[h[x]] = f[x]
  OBVIOUS
<1>2. \A x, y \in S : h[x] = h[y] => x = y
  OBVIOUS
<1>3. {h[x] : x \in S} = S
  OBVIOUS
<1> HIDE DEF h
<1>4. Total(g, {h[x] : x \in S}) = Total(f, S)
  BY <1>1, <1>2, TotalRenamed
<1> QED BY <1>3, <1>4

-----------------------------------------------------------------------------
(* The buffer gauge. *)

Input      == [act : {"append", "commit", "idle"}, gen : {generation}, n : Nat]
Appends(q) == {i \in DOMAIN q : q[i].act = "append"}
Sizes(q)   == [i \in DOMAIN q |-> q[i].n]
Chars(q)   == Total(Sizes(q), Appends(q))
CharsOf(e) == IF e.act = "append" THEN e.n ELSE 0

LEMMA AppendsFinite ==
  ASSUME NEW S, NEW q \in Seq(S), \A e \in S : e.n \in Nat
  PROVE  /\ IsFiniteSet(Appends(q)) /\ Appends(q) \subseteq DOMAIN q
         /\ \A i \in Appends(q) : Sizes(q)[i] = q[i].n /\ Sizes(q)[i] \in Nat
<1>1. DOMAIN q = 1..Len(q) /\ Len(q) \in Nat
  OBVIOUS
<1>2. IsFiniteSet(1..Len(q))
  BY <1>1, FS_Interval
<1>3. \A i \in DOMAIN q : q[i] \in S
  OBVIOUS
<1> QED BY <1>1, <1>2, <1>3, FS_Subset DEF Appends, Sizes

LEMMA CharsEmpty == Chars(<<>>) = 0
<1>1. Appends(<<>>) = {}
  BY DEF Appends
<1>2. \A f : Total(f, {}) = 0
  BY TotalStep, FS_EmptySet
<1> QED BY <1>1, <1>2 DEF Chars

LEMMA CharsAppend ==
  ASSUME NEW S, NEW q \in Seq(S), NEW e \in S, \A x \in S : x.n \in Nat
  PROVE  Chars(Append(q, e)) = Chars(q) + CharsOf(e)
<1> DEFINE r == Append(q, e)
           last == Len(q) + 1
<1>1. /\ r \in Seq(S) /\ Len(q) \in Nat /\ DOMAIN q = 1..Len(q) /\ DOMAIN r = 1..last
      /\ r[last] = e /\ \A i \in DOMAIN q : r[i] = q[i]
  OBVIOUS
<1> HIDE DEF r
<1>2. last \notin DOMAIN q /\ DOMAIN r = DOMAIN q \cup {last}
  BY <1>1
<1>3. /\ IsFiniteSet(Appends(q)) /\ IsFiniteSet(Appends(r))
      /\ \A i \in Appends(q) : Sizes(q)[i] \in Nat
      /\ \A i \in Appends(r) : Sizes(r)[i] \in Nat
  BY <1>1, AppendsFinite
<1>4. Appends(r) \ {last} = Appends(q)
  BY <1>1, <1>2 DEF Appends
<1>5. Total(Sizes(r), Appends(q)) = Total(Sizes(q), Appends(q))
  <2>1. \A i \in Appends(q) : Sizes(r)[i] = Sizes(q)[i]
    BY <1>1, <1>2 DEF Appends, Sizes
  <2> QED BY <1>3, <2>1, TotalSame
<1>6. Total(Sizes(q), Appends(q)) \in Nat
  BY <1>3, TotalIsNat
<1>7. CASE e.act = "append"
  <2>1. last \in Appends(r) /\ Sizes(r)[last] = e.n /\ e.n \in Nat
    BY <1>1, <1>2, <1>7 DEF Appends, Sizes
  <2>2. Total(Sizes(r), Appends(r)) = Sizes(r)[last] + Total(Sizes(r), Appends(r) \ {last})
    BY <1>3, <2>1, TotalSplit
  <2>3. Chars(r) = e.n + Chars(q) /\ Chars(q) \in Nat
    BY <1>4, <1>5, <1>6, <2>1, <2>2 DEF Chars
  <2>4. CharsOf(e) = e.n
    BY <1>7 DEF CharsOf
  <2> QED BY <2>1, <2>3, <2>4 DEF r
<1>8. CASE e.act # "append"
  <2>1. Appends(r) = Appends(q)
    BY <1>1, <1>2, <1>8 DEF Appends
  <2>2. Chars(r) = Chars(q) /\ Chars(q) \in Nat
    BY <1>5, <1>6, <2>1 DEF Chars
  <2>3. CharsOf(e) = 0
    BY <1>8 DEF CharsOf
  <2> QED BY <2>2, <2>3 DEF r
<1> QED BY <1>7, <1>8

LEMMA CharsTail ==
  ASSUME NEW S, NEW q \in Seq(S), q # <<>>, \A x \in S : x.n \in Nat
  PROVE  /\ Chars(q) = CharsOf(Head(q)) + Chars(Tail(q))
         /\ CharsOf(Head(q)) \in Nat /\ Chars(Tail(q)) \in Nat
<1> DEFINE t == Tail(q)
           A == Appends(q) \ {1}
           h == [i \in A |-> i - 1]
<1>1. /\ t \in Seq(S) /\ Len(q) \in Nat \ {0} /\ Len(t) = Len(q) - 1
      /\ DOMAIN q = 1..Len(q) /\ DOMAIN t = 1..(Len(q) - 1)
      /\ \A i \in DOMAIN t : t[i] = q[i + 1]
      /\ Head(q) = q[1] /\ q[1] \in S
  OBVIOUS
<1> HIDE DEF t
<1>2. /\ IsFiniteSet(Appends(q)) /\ IsFiniteSet(Appends(t))
      /\ \A i \in Appends(q) : Sizes(q)[i] \in Nat
      /\ \A i \in Appends(t) : Sizes(t)[i] \in Nat
  BY <1>1, AppendsFinite
<1>3. IsFiniteSet(A) /\ \A i \in A : Sizes(q)[i] \in Nat
  BY <1>2, FS_Subset
<1>4. \A i \in A : i \in Nat /\ i > 1 /\ i \in DOMAIN q /\ i - 1 \in DOMAIN t /\ q[i].act = "append"
                   /\ (i - 1) + 1 = i
  BY <1>1 DEF Appends
<1>5. \A i \in A : Sizes(t)[h[i]] = Sizes(q)[i]
  BY <1>1, <1>4 DEF Sizes
<1>6. \A i, j \in A : h[i] = h[j] => i = j
  BY <1>4
<1>7. {h[i] : i \in A} = Appends(t)
  <2>1. ASSUME NEW i \in A PROVE h[i] \in Appends(t)
    BY <1>1, <1>4 DEF Appends
  <2>2. ASSUME NEW k \in Appends(t) PROVE k + 1 \in A /\ h[k + 1] = k
    <3>1. k \in 1..(Len(q) - 1) /\ t[k].act = "append"
      BY <1>1 DEF Appends
    <3>2. k + 1 \in 1..Len(q) /\ k + 1 # 1 /\ (k + 1) - 1 = k
      BY <1>1, <3>1
    <3>3. q[k + 1].act = "append"
      BY <1>1, <3>1
    <3>4. k + 1 \in A
      BY <1>1, <3>2, <3>3 DEF Appends
    <3> QED BY <3>2, <3>4
  <2> QED BY <2>1, <2>2
<1> HIDE DEF h
<1>8. Total(Sizes(t), {h[i] : i \in A}) = Total(Sizes(q), A)
  BY <1>3, <1>5, <1>6, TotalRenamed
<1>9. Total(Sizes(t), Appends(t)) \in Nat
  BY <1>2, TotalIsNat
<1>10. CASE q[1].act = "append"
  <2>1. 1 \in Appends(q) /\ Sizes(q)[1] = q[1].n /\ q[1].n \in Nat
    BY <1>1, <1>10 DEF Appends, Sizes
  <2>2. Total(Sizes(q), Appends(q)) = Sizes(q)[1] + Total(Sizes(q), A)
    BY <1>2, <2>1, TotalSplit
  <2> QED BY <1>1, <1>7, <1>8, <1>9, <1>10, <2>1, <2>2 DEF Chars, CharsOf, t
<1>11. CASE q[1].act # "append"
  <2>1. A = Appends(q)
    BY <1>11 DEF Appends
  <2>2. Chars(q) = Chars(t) /\ Chars(t) \in Nat
    BY <1>7, <1>8, <1>9, <2>1 DEF Chars
  <2>3. CharsOf(Head(q)) = 0
    BY <1>1, <1>11 DEF CharsOf
  <2> QED BY <2>2, <2>3 DEF t
<1> QED BY <1>10, <1>11

(* What BufferExact sums is this sum. *)
LEMMA CharsCounted ==
  ASSUME NEW S, NEW q \in Seq(S), \A x \in S : x.n \in Nat
  PROVE  MapThenSumSet(LAMBDA i : q[i].n, Appends(q)) = Chars(q)
<1> DEFINE T == Appends(q)
           Built(iter) == iter = [s \in SUBSET T |-> IF s = {} THEN 0
                                    ELSE q[First(s)].n + iter[s \ {First(s)}]]
           One == CHOOSE iter : Built(iter)
           Two == CHOOSE iter : Adds(iter, Sizes(q), SUBSET T)
<1>1. MapThenSumSet(LAMBDA i : q[i].n, T) = One[T]
  BY DEF MapThenSumSet, MapThenFoldSet, First
<1>2. Total(Sizes(q), T) = Two[T]
  BY TotalIter
<1>3. IsFiniteSet(T) /\ \A i \in T : Sizes(q)[i] = q[i].n
  BY AppendsFinite
<1> HIDE DEF T
<1>4. \A s \in SUBSET T : s # {} => Sizes(q)[First(s)] = q[First(s)].n
  BY <1>3, FirstIn
<1>5. \A iter : Adds(iter, Sizes(q), SUBSET T) => Built(iter)
  BY <1>4 DEF Adds
<1>6. \A iter : Built(iter) => Adds(iter, Sizes(q), SUBSET T)
  BY <1>4 DEF Adds
<1>7. PICK some : Adds(some, Sizes(q), SUBSET T)
  BY <1>3, AddsExists
<1>8. Adds(Two, Sizes(q), SUBSET T)
  BY <1>7
<1>9. Built(One)
  <2>1. Built(some)
    BY <1>5, <1>7
  <2> HIDE DEF Built
  <2> QED BY <2>1
<1>10. Adds(One, Sizes(q), SUBSET T)
  <2> HIDE DEF One, Built
  <2> QED BY <1>6, <1>9
<1> HIDE DEF One, Two, Built
<1>11. T \in SUBSET T
  OBVIOUS
<1>12. One[T] = Two[T]
  BY <1>3, <1>8, <1>10, <1>11, AddsAgree
<1> QED BY <1>1, <1>2, <1>12 DEF Chars, T

(* What has to be known of the buffer: every entry is of this generation   *)
(* (a cancellation empties the queue, so the segmenter never skips one),   *)
(* and the gauge counts exactly what the queue holds.                      *)
GaugeInv ==
  /\ inputQ \in Seq(Input)
  /\ buffered \in Nat /\ accepted \in Nat
  /\ buffered = Chars(inputQ)
  /\ buffered <= MaxBuffer

LEMMA InputSized == \A e \in Input : e.n \in Nat /\ e.gen = generation
  BY DEF Input

LEMMA GaugeUnchanged ==
  ASSUME GaugeInv, UNCHANGED <<generation, inputQ, buffered, accepted>>
  PROVE  GaugeInv'
  BY DEF GaugeInv, Input

(* One more entry at the end of the queue. *)
LEMMA GaugeAppend ==
  ASSUME GaugeInv, NEW e \in Input, inputQ' = Append(inputQ, e),
         generation' = generation, accepted' \in Nat, buffered' = buffered + CharsOf(e),
         buffered' <= MaxBuffer
  PROVE  GaugeInv'
<1>1. Input' = Input
  BY DEF Input
<1>2. inputQ' \in Seq(Input)
  BY DEF GaugeInv
<1>3. Chars(inputQ') = Chars(inputQ) + CharsOf(e)
  BY InputSized, CharsAppend DEF GaugeInv
<1>4. CharsOf(e) \in Nat
  BY InputSized DEF CharsOf
<1> QED
  BY <1>1, <1>2, <1>3, <1>4 DEF GaugeInv

LEMMA ClientGauge ==
  ASSUME GaugeInv, ClientNext
  PROVE  GaugeInv'
<1> USE DEF textVars, inputVars
<1>1. CASE \E n \in 1..Len(Text) : HandleAppend(n)
  <2>1. PICK n \in 1..Len(Text) : HandleAppend(n)
    BY <1>1
  <2> DEFINE e == [act |-> "append", gen |-> generation, n |-> n]
  <2>2. n \in Nat
    BY TextAssumption
  <2>3. e \in Input /\ CharsOf(e) = n
    BY <2>2 DEF Input, CharsOf
  <2>4. /\ inputQ' = Append(inputQ, e) /\ generation' = generation
        /\ buffered' = buffered + n /\ buffered + n <= MaxBuffer
        /\ accepted' = accepted + n
    BY <2>1 DEF HandleAppend
  <2>5. accepted' \in Nat
    BY <2>2, <2>4 DEF GaugeInv
  <2> HIDE DEF e
  <2> QED
    BY <2>3, <2>4, <2>5, GaugeAppend
<1>2. CASE HandleCommit
  <2> DEFINE e == [act |-> "commit", gen |-> generation, n |-> accepted]
  <2>1. e \in Input /\ CharsOf(e) = 0
    BY DEF Input, CharsOf, GaugeInv
  <2>2. inputQ' = Append(inputQ, e) /\ UNCHANGED <<generation, buffered, accepted>>
    BY <1>2 DEF HandleCommit
  <2>3. buffered' = buffered + 0 /\ buffered' <= MaxBuffer /\ accepted' \in Nat
    BY <2>2 DEF GaugeInv
  <2> HIDE DEF e
  <2> QED
    BY <2>1, <2>2, <2>3, GaugeAppend
<1>3. CASE HandleCancel
  <2>1. inputQ' = <<>> /\ buffered' = 0 /\ accepted' = 0
    BY <1>3 DEF HandleCancel, ForgetText
  <2> QED
    BY <2>1, CharsEmpty, LimitAssumption DEF GaugeInv
<1>4. CASE Connect \/ HandlePause \/ HandleResume \/ HandleUpdate \/ HandleOther
             \/ ClientCloses
  BY <1>4, GaugeUnchanged DEF Connect, HandlePause, HandleResume, HandleUpdate,
     HandleOther, ClientCloses
<1>5. CASE \E r \in DOMAIN playback : \E s \in 0..(MaxFrames - 1) : HandleAck(r, s)
  BY <1>5, GaugeUnchanged DEF HandleAck
<1> QED
  BY <1>1, <1>2, <1>3, <1>4, <1>5 DEF ClientNext

(* The segmenter takes the first entry off the queue and off the gauge. *)
LEMMA SegmenterGauge ==
  ASSUME GaugeInv, SegmenterNext
  PROVE  GaugeInv'
<1>1. CASE SegRead
  <2> DEFINE it == Head(inputQ)
  <2>1. inputQ # <<>> /\ inputQ' = Tail(inputQ) /\ UNCHANGED <<generation, accepted>>
    BY <1>1 DEF SegRead
  <2>2. it \in Input /\ inputQ' \in Seq(Input)
    BY <2>1 DEF GaugeInv
  <2>3. ~Stale(it)
    BY <2>2, InputSized DEF Stale
  <2>4. buffered' = buffered - CharsOf(it)
    BY <1>1, <2>3 DEF SegRead, CharsOf
  <2>5. /\ Chars(inputQ) = CharsOf(it) + Chars(inputQ')
        /\ CharsOf(it) \in Nat /\ Chars(inputQ') \in Nat
    BY <2>1, InputSized, CharsTail DEF GaugeInv
  <2>6. Input' = Input
    BY <2>1 DEF Input
  <2> HIDE DEF it
  <2> QED
    BY <2>1, <2>2, <2>4, <2>5, <2>6, LimitAssumption DEF GaugeInv
<1>2. CASE SegPut
  BY <1>2, GaugeUnchanged DEF SegPut, inputVars
<1> QED
  BY <1>1, <1>2 DEF SegmenterNext

LEMMA ElsewhereGauge ==
  ASSUME GaugeInv,
         ReaderNext \/ SynthesizerNext \/ WorkerNext \/ TimerNext \/ StatusFails \/ Served
  PROVE  GaugeInv'
<1> USE GaugeUnchanged DEF textVars, inputVars
<1>1. CASE ReaderNext
  BY <1>1 DEF ReaderNext, ReplySent, GiveUpSent, UpdateDone, UpdateRefused, GaveUp,
     NoticeDisconnect, StopSegmenter, Joined, ShutdownRaises, LateRelease
<1>2. CASE SynthesizerNext
  <2>1. CASE \/ SynStop \/ SynDiscard \/ SynTake \/ SynWake \/ FrameDropped \/ FrameTaken
             \/ FrameWake \/ WorkerError \/ WorkerDone \/ Join
    BY <2>1 DEF SynStop, SynDiscard, SynTake, SynWake, FrameDropped, FrameTaken, FrameWake,
       WorkerError, WorkerDone, Join
  <2>2. CASE \E sent \in BOOLEAN :
               \/ ToldSent(sent) \/ CreatedSent(sent) \/ DeltaSent(sent)
               \/ FlowErrorSent(sent) \/ ErrorSent(sent) \/ AudioDoneSent(sent)
               \/ DoneSent(sent)
    BY <2>2 DEF ToldSent, CreatedSent, DeltaSent, FlowErrorSent, ErrorSent, AudioDoneSent,
       DoneSent
  <2> QED BY <1>2, <2>1, <2>2 DEF SynthesizerNext
<1>3. CASE WorkerNext
  BY <1>3 DEF WorkerNext, WorkerStarts, WorkerEmits, WorkerReports, WorkerEnds
<1>4. CASE IdleFires
  <2> DEFINE e == [act |-> "idle", gen |-> generation, n |-> 0]
  <2>1. e \in Input /\ CharsOf(e) = 0
    BY DEF Input, CharsOf
  <2>2. inputQ' = Append(inputQ, e) /\ UNCHANGED <<generation, buffered, accepted>>
    BY <1>4 DEF IdleFires
  <2>3. buffered' = buffered + 0 /\ buffered' <= MaxBuffer /\ accepted' \in Nat
    BY <2>2 DEF GaugeInv
  <2> HIDE DEF e
  <2> QED
    BY <2>1, <2>2, <2>3, GaugeAppend
<1>5. CASE GiveUp \/ FlowTimeout \/ JoinTimeout
  BY <1>5 DEF GiveUp, FlowTimeout, JoinTimeout
<1>6. CASE StatusFails \/ Served
  BY <1>6 DEF StatusFails, Served, vars
<1> QED
  BY <1>1, <1>2, <1>3, <1>4, <1>5, <1>6 DEF TimerNext

(* The queued characters are counted exactly, whatever a step does.        *)
LEMMA GaugeInvariant == Spec => []GaugeInv
<1>1. Init => GaugeInv
  BY CharsEmpty, LimitAssumption DEF Init, GaugeInv
<1>2. GaugeInv /\ [Next]_vars => GaugeInv'
  <2> SUFFICES ASSUME GaugeInv, [Next]_vars PROVE GaugeInv'
    OBVIOUS
  <2>1. CASE Next
    BY <2>1, ClientGauge, SegmenterGauge, ElsewhereGauge DEF Next
  <2>2. CASE UNCHANGED vars
    BY <2>2, GaugeUnchanged DEF vars, textVars, inputVars
  <2> QED
    BY <2>1, <2>2
<1> QED BY <1>1, <1>2, PTL DEF Spec

(* The gauge clients pace themselves by is exact and within its limit, for *)
(* every text, however it is split, idle flushes and cancellations         *)
(* included (server.py:539-546, 579, 666).                                 *)
THEOREM GaugeExact == Spec => []BufferExact
<1>1. GaugeInv => BufferExact
  <2> SUFFICES ASSUME GaugeInv PROVE BufferExact
    OBVIOUS
  <2>1. MapThenSumSet(LAMBDA i : inputQ[i].n, Appends(inputQ)) = Chars(inputQ)
    BY InputSized, CharsCounted DEF GaugeInv
  <2> QED
    BY <2>1 DEF GaugeInv, BufferExact, Appends
<1> QED
  BY <1>1, GaugeInvariant, PTL

-----------------------------------------------------------------------------
(* The playback window. *)

Tracker == [sent : Nat, acked : Nat, done : BOOLEAN]

Tracked(p) ==
  /\ p \in [DOMAIN p -> Tracker]
  /\ IsFiniteSet(DOMAIN p)
  /\ \A r \in DOMAIN p : p[r].acked <= p[r].sent

Debt(p)     == [r \in DOMAIN p |-> p[r].sent - p[r].acked]
Due(p)      == Total(Debt(p), DOMAIN p)
DueOf(p, x) == IF x \in DOMAIN p THEN p[x].sent - p[x].acked ELSE 0

(* p and q are the same trackers, but for x. *)
SameBut(p, q, x) ==
  /\ DOMAIN p \ {x} = DOMAIN q \ {x}
  /\ \A r \in DOMAIN p \ {x} : q[r] = p[r]

LEMMA TrackedFields ==
  ASSUME NEW p, Tracked(p), NEW r \in DOMAIN p
  PROVE  /\ p[r].sent \in Nat /\ p[r].acked \in Nat /\ p[r].done \in BOOLEAN
         /\ p[r].acked <= p[r].sent
         /\ Debt(p)[r] \in Nat /\ DueOf(p, r) = Debt(p)[r]
<1>1. p[r] \in Tracker /\ p[r].acked <= p[r].sent
  BY DEF Tracked
<1>2. p[r].sent \in Nat /\ p[r].acked \in Nat /\ p[r].done \in BOOLEAN
  BY <1>1 DEF Tracker
<1> QED
  BY <1>1, <1>2 DEF Debt, DueOf

LEMMA DueApart ==
  ASSUME NEW p, Tracked(p), NEW x
  PROVE  /\ Due(p) \in Nat /\ DueOf(p, x) \in Nat
         /\ Total(Debt(p), DOMAIN p \ {x}) \in Nat
         /\ Due(p) = DueOf(p, x) + Total(Debt(p), DOMAIN p \ {x})
<1> DEFINE D == DOMAIN p \ {x}
<1>1. /\ IsFiniteSet(DOMAIN p) /\ \A r \in DOMAIN p : Debt(p)[r] \in Nat
      /\ IsFiniteSet(D) /\ \A r \in D : Debt(p)[r] \in Nat
  BY TrackedFields, FS_Subset DEF Tracked
<1>2. Total(Debt(p), DOMAIN p) \in Nat
  BY <1>1, TotalIsNat
<1>3. Total(Debt(p), D) \in Nat
  <2> HIDE DEF D
  <2> QED BY <1>1, TotalIsNat
<1>4. CASE x \in DOMAIN p
  <2>1. Total(Debt(p), DOMAIN p) = Debt(p)[x] + Total(Debt(p), D)
    BY <1>1, <1>4, TotalSplit
  <2>2. DueOf(p, x) = Debt(p)[x] /\ Debt(p)[x] \in Nat
    BY <1>4, TrackedFields
  <2> QED BY <1>2, <1>3, <2>1, <2>2 DEF Due
<1>5. CASE x \notin DOMAIN p
  <2>1. D = DOMAIN p
    BY <1>5
  <2>2. DueOf(p, x) = 0
    BY <1>5 DEF DueOf
  <2> QED BY <1>2, <2>1, <2>2 DEF Due
<1> QED BY <1>4, <1>5

(* What changes one tracker changes the sum by as much. *)
LEMMA DueChanged ==
  ASSUME NEW p, NEW q, NEW x, Tracked(p), Tracked(q), SameBut(p, q, x)
  PROVE  /\ Due(p) \in Nat /\ Due(q) \in Nat
         /\ DueOf(p, x) \in Nat /\ DueOf(q, x) \in Nat
         /\ Due(q) + DueOf(p, x) = Due(p) + DueOf(q, x)
<1> DEFINE D == DOMAIN p \ {x}
<1>1. D = DOMAIN q \ {x} /\ IsFiniteSet(D)
  BY FS_Subset DEF SameBut, Tracked
<1>2. \A r \in D : Debt(p)[r] \in Nat /\ Debt(q)[r] = Debt(p)[r]
  BY TrackedFields DEF SameBut, Debt
<1>3. Total(Debt(q), D) = Total(Debt(p), D)
  <2> HIDE DEF D
  <2> QED BY <1>1, <1>2, TotalSame
<1>4. /\ Due(p) \in Nat /\ DueOf(p, x) \in Nat /\ Total(Debt(p), D) \in Nat
      /\ Due(p) = DueOf(p, x) + Total(Debt(p), D)
  BY DueApart
<1>5. /\ Due(q) \in Nat /\ DueOf(q, x) \in Nat
      /\ Due(q) = DueOf(q, x) + Total(Debt(q), D)
  BY <1>1, DueApart
<1> HIDE DEF D
<1> QED BY <1>3, <1>4, <1>5

(* What WindowKept sums is this sum. *)
LEMMA DueCounted ==
  ASSUME Tracked(playback)
  PROVE  Unacked = Due(playback)
<1> DEFINE T == DOMAIN playback
           Built(iter) == iter = [s \in SUBSET T |-> IF s = {} THEN 0
             ELSE (playback[First(s)].sent - playback[First(s)].acked) + iter[s \ {First(s)}]]
           One == CHOOSE iter : Built(iter)
           Two == CHOOSE iter : Adds(iter, Debt(playback), SUBSET T)
<1>1. Unacked = One[T]
  BY DEF Unacked, Outstanding, MapThenSumSet, MapThenFoldSet, First
<1>2. Total(Debt(playback), T) = Two[T]
  BY TotalIter
<1>3. IsFiniteSet(T) /\ \A r \in T : Debt(playback)[r] = playback[r].sent - playback[r].acked
  BY DEF Tracked, Debt
<1> HIDE DEF T
<1>4. \A s \in SUBSET T : s # {} =>
        Debt(playback)[First(s)] = playback[First(s)].sent - playback[First(s)].acked
  BY <1>3, FirstIn
<1>5. \A iter : Adds(iter, Debt(playback), SUBSET T) => Built(iter)
  BY <1>4 DEF Adds
<1>6. \A iter : Built(iter) => Adds(iter, Debt(playback), SUBSET T)
  BY <1>4 DEF Adds
<1>7. PICK some : Adds(some, Debt(playback), SUBSET T)
  BY <1>3, AddsExists
<1>8. Adds(Two, Debt(playback), SUBSET T)
  BY <1>7
<1>9. Built(One)
  <2>1. Built(some)
    BY <1>5, <1>7
  <2> HIDE DEF Built
  <2> QED BY <2>1
<1>10. Adds(One, Debt(playback), SUBSET T)
  <2> HIDE DEF One, Built
  <2> QED BY <1>6, <1>9
<1> HIDE DEF One, Two, Built
<1>11. T \in SUBSET T
  OBVIOUS
<1>12. One[T] = Two[T]
  BY <1>3, <1>8, <1>10, <1>11, AddsAgree
<1> QED BY <1>1, <1>2, <1>12 DEF Due, T

Chunk == [kind : {"audio", "done", "error"}, seq : Nat]

(* The frame of the response that is to be charged next. *)
NextFrame == playback[active].sent + (IF spc = "holding" THEN 1 ELSE 0)

(* Each frame sent is charged as one because the frames come in line: as   *)
(* long as the response may still send, what waits in its output queue     *)
(* follows on what was charged.  A cancelled response has no tracker, and  *)
(* of a stopped worker no frame is taken any more.                         *)
InLine ==
  spc \in {"announce", "output", "holding", "delta"} /\ active \in DOMAIN playback =>
    /\ ~Stale(item)
    /\ spc = "announce" => playback[active].sent = 0
    /\ spc = "holding" => frame = playback[active].sent
    /\ ~stop /\ spc # "announce" =>
         /\ \A i \in DOMAIN out : out[i].kind = "audio" => out[i].seq = NextFrame + i - 1
         /\ worker \in {"queued", "running"} => produced = NextFrame + Len(out)

WindowInv ==
  /\ Tracked(playback)
  /\ Due(playback) <= MaxUnacked
  /\ out \in Seq(Chunk)
  /\ produced \in Nat
  /\ InLine

LEMMA WindowUnchanged ==
  ASSUME WindowInv, stop => stop',
         UNCHANGED <<playback, generation, spc, active, item, frame, worker, produced, out>>
  PROVE  WindowInv'
<1>1. NextFrame' = NextFrame /\ Stale(item)' = Stale(item)
  BY DEF NextFrame, Stale
<1>2. InLine'
  BY <1>1 DEF InLine, WindowInv
<1> QED
  BY <1>2 DEF WindowInv

(* The response sends no more: the trackers are what matters. *)
LEMMA WindowNotSending ==
  ASSUME WindowInv, UNCHANGED playback,
         spc' \notin {"announce", "output", "holding", "delta"},
         out' \in Seq(Chunk), produced' \in Nat
  PROVE  WindowInv'
  BY DEF WindowInv, InLine

(* The sum stays within the window when no tracker grows, or when one      *)
(* grows by one frame and the window was open.                             *)
LEMMA DueKept ==
  ASSUME Tracked(playback), Due(playback) <= MaxUnacked, Tracked(playback'),
         NEW x, SameBut(playback, playback', x),
         \/ DueOf(playback', x) <= DueOf(playback, x)
         \/ FlowOpen /\ DueOf(playback', x) <= DueOf(playback, x) + 1
  PROVE  Due(playback') <= MaxUnacked
<1>1. /\ Due(playback) \in Nat /\ Due(playback') \in Nat
      /\ DueOf(playback, x) \in Nat /\ DueOf(playback', x) \in Nat
      /\ Due(playback') + DueOf(playback, x) = Due(playback) + DueOf(playback', x)
  BY DueChanged
<1>2. FlowOpen => Due(playback) < MaxUnacked
  BY DueCounted DEF FlowOpen
<1> QED
  BY <1>1, <1>2, LimitAssumption

LEMMA AckWindow ==
  ASSUME WindowInv, NEW r \in DOMAIN playback, NEW s \in 0..(MaxFrames - 1), HandleAck(r, s)
  PROVE  WindowInv'
<1> DEFINE t == playback[r]
<1>1. /\ t \in Tracker /\ t.sent \in Nat /\ t.acked \in Nat /\ t.acked <= t.sent
      /\ DueOf(playback, r) = t.sent - t.acked
  BY TrackedFields DEF WindowInv, Tracked, DueOf
<1>2. /\ t.acked <= s /\ s < t.sent /\ s \in Nat
      /\ UNCHANGED <<generation, spc, active, item, frame, worker, produced, out>>
      /\ stop => stop'
  BY LimitAssumption DEF HandleAck, EndRun, synVars, workerVars
<1>3. \/ playback' = Without(playback, r)
      \/ playback' = [playback EXCEPT ![r].acked = s + 1]
  BY DEF HandleAck
<1>4. CASE playback' = Without(playback, r)
  <2>1. /\ DOMAIN playback' = DOMAIN playback \ {r}
        /\ \A y \in DOMAIN playback' : playback'[y] = playback[y]
        /\ playback' = [y \in DOMAIN playback' |-> playback'[y]]
    BY <1>4 DEF Without
  <2>2. SameBut(playback, playback', r) /\ DueOf(playback', r) = 0
    BY <2>1 DEF SameBut, DueOf
  <2>3. Tracked(playback')
    <3>1. IsFiniteSet(DOMAIN playback')
      BY <2>1, FS_Subset DEF WindowInv, Tracked
    <3>2. \A y \in DOMAIN playback' : playback'[y] \in Tracker
                                       /\ playback'[y].acked <= playback'[y].sent
      BY <2>1 DEF WindowInv, Tracked
    <3> QED BY <2>1, <3>1, <3>2 DEF Tracked
  <2>4. Due(playback') <= MaxUnacked
    BY <1>1, <2>2, <2>3, DueKept DEF WindowInv
  <2>5. active \in DOMAIN playback' =>
           active \in DOMAIN playback /\ playback'[active].sent = playback[active].sent
    BY <2>1
  <2>6. InLine'
    BY <1>2, <2>5 DEF WindowInv, InLine, NextFrame, Stale
  <2> QED BY <1>2, <2>3, <2>4, <2>6 DEF WindowInv
<1>5. CASE playback' = [playback EXCEPT ![r].acked = s + 1]
  <2>1. /\ DOMAIN playback' = DOMAIN playback
        /\ \A y \in DOMAIN playback \ {r} : playback'[y] = playback[y]
        /\ playback' = [y \in DOMAIN playback' |-> playback'[y]]
        /\ playback'[r] = [t EXCEPT !.acked = s + 1]
    BY <1>5 DEF WindowInv, Tracked
  <2>2. playback'[r] \in Tracker /\ playback'[r].sent = t.sent /\ playback'[r].acked = s + 1
    BY <1>1, <1>2, <2>1 DEF Tracker
  <2>3. SameBut(playback, playback', r) /\ DueOf(playback', r) = t.sent - (s + 1)
    BY <2>1, <2>2 DEF SameBut, DueOf
  <2>4. Tracked(playback')
    <3>1. \A y \in DOMAIN playback' : playback'[y] \in Tracker
                                       /\ playback'[y].acked <= playback'[y].sent
      <4>1. playback'[r].acked <= playback'[r].sent
        BY <1>1, <1>2, <2>2
      <4>2. \A y \in DOMAIN playback \ {r} : playback'[y] \in Tracker
                                            /\ playback'[y].acked <= playback'[y].sent
        BY <2>1 DEF WindowInv, Tracked
      <4> QED BY <2>1, <2>2, <4>1, <4>2
    <3> QED BY <2>1, <3>1 DEF Tracked, WindowInv
  <2>5. t.sent - (s + 1) <= t.sent - t.acked
    BY <1>1, <1>2
  <2>6. Due(playback') <= MaxUnacked
    BY <1>1, <2>3, <2>4, <2>5, DueKept DEF WindowInv
  <2>7. active \in DOMAIN playback' =>
           active \in DOMAIN playback /\ playback'[active].sent = playback[active].sent
    BY <2>1, <2>2
  <2>8. InLine'
    BY <1>2, <2>7 DEF WindowInv, InLine, NextFrame, Stale
  <2> QED BY <1>2, <2>4, <2>6, <2>8 DEF WindowInv
<1> QED BY <1>3, <1>4, <1>5

(* A cancellation forgets every tracker. *)
LEMMA CancelWindow ==
  ASSUME WindowInv, HandleCancel
  PROVE  WindowInv'
<1>1. playback' = <<>> /\ DOMAIN playback' = {} /\ UNCHANGED <<produced, out>>
  BY DEF HandleCancel, workerVars
<1>2. Tracked(playback')
  BY <1>1, FS_EmptySet DEF Tracked
<1>3. Due(playback') = 0
  <2>1. \A f : Total(f, {}) = 0
    BY TotalStep, FS_EmptySet
  <2> QED BY <1>1, <2>1 DEF Due
<1> QED
  BY <1>1, <1>2, <1>3, LimitAssumption DEF WindowInv, InLine

LEMMA ClientWindow ==
  ASSUME WindowInv, ClientNext
  PROVE  WindowInv'
<1> USE WindowUnchanged DEF voiceVars, respVars, synVars, workerVars, wakeVars, textVars,
        inputVars
<1>1. CASE Connect \/ HandleCommit \/ HandlePause \/ HandleResume \/ HandleUpdate
             \/ HandleOther \/ ClientCloses
  BY <1>1 DEF Connect, HandleCommit, HandlePause, HandleResume, HandleUpdate, HandleOther,
     ClientCloses
<1>2. CASE \E n \in 1..Len(Text) : HandleAppend(n)
  BY <1>2 DEF HandleAppend
<1>3. CASE HandleCancel
  BY <1>3, CancelWindow
<1>4. CASE \E r \in DOMAIN playback : \E s \in 0..(MaxFrames - 1) : HandleAck(r, s)
  BY <1>4, AckWindow
<1> QED
  BY <1>1, <1>2, <1>3, <1>4 DEF ClientNext

(* A response begins with a tracker that owes nothing. *)
LEMMA BeginWindow ==
  ASSUME WindowInv, NEW it, ~Stale(it), Begin(it), UNCHANGED <<generation, produced, out>>
  PROVE  WindowInv'
<1>1. CASE it.kind \in {"end", "mark"}
  <2>1. spc' = "told" /\ UNCHANGED playback
    BY <1>1 DEF Begin
  <2> QED BY <2>1, WindowNotSending DEF WindowInv
<1>2. CASE it.kind = "word"
  <2> DEFINE x == responses + 1
             new == [sent |-> 0, acked |-> 0, done |-> FALSE]
  <2>1. /\ playback' = With(playback, x, new) /\ active' = x /\ item' = it
        /\ spc' \in {"announce", "dead"}
    BY <1>2 DEF Begin
  <2> HIDE DEF x
  <2>2. /\ DOMAIN playback' = DOMAIN playback \cup {x}
        /\ \A y \in DOMAIN playback \ {x} : playback'[y] = playback[y]
        /\ playback' = [y \in DOMAIN playback' |-> playback'[y]]
        /\ playback'[x] = new
    BY <2>1 DEF With
  <2>3. new \in Tracker /\ new.sent = 0 /\ new.acked = 0
    BY DEF Tracker
  <2>4. Tracked(playback')
    <3>1. IsFiniteSet(DOMAIN playback')
      BY <2>2, FS_AddElement DEF WindowInv, Tracked
    <3>2. \A y \in DOMAIN playback \ {x} : playback'[y] \in Tracker
                                          /\ playback'[y].acked <= playback'[y].sent
      BY <2>2 DEF WindowInv, Tracked
    <3>3. playback'[x] \in Tracker /\ playback'[x].acked <= playback'[x].sent
      BY <2>2, <2>3
    <3> HIDE DEF new
    <3> QED BY <2>2, <3>1, <3>2, <3>3 DEF Tracked
  <2>5. SameBut(playback, playback', x) /\ DueOf(playback', x) = 0
    BY <2>2, <2>3 DEF SameBut, DueOf
  <2>6. DueOf(playback, x) \in Nat
    BY DueApart DEF WindowInv
  <2>7. Due(playback') <= MaxUnacked
    BY <2>4, <2>5, <2>6, DueKept DEF WindowInv
  <2>8. InLine'
    BY <2>1, <2>2, <2>3 DEF InLine, Stale
  <2> QED BY <2>4, <2>7, <2>8 DEF WindowInv
<1> QED BY <1>1, <1>2 DEF Begin

(* A frame is charged: one more, in a window that was open. *)
LEMMA SendWindow ==
  ASSUME WindowInv, FlowOpen, NEW f, SendFrame(f),
         active \in DOMAIN playback => f = playback[active].sent
  PROVE  /\ Tracked(playback') /\ Due(playback') <= MaxUnacked
         /\ DOMAIN playback' = DOMAIN playback
         /\ active \in DOMAIN playback =>
              playback'[active].sent = playback[active].sent + 1
<1>1. playback' = [playback EXCEPT ![active].sent = f + 1]
  BY DEF SendFrame
<1>2. /\ DOMAIN playback' = DOMAIN playback
      /\ \A y \in DOMAIN playback \ {active} : playback'[y] = playback[y]
      /\ playback' = [y \in DOMAIN playback' |-> playback'[y]]
      /\ active \in DOMAIN playback =>
           playback'[active] = [playback[active] EXCEPT !.sent = f + 1]
  BY <1>1 DEF WindowInv, Tracked
<1>3. CASE active \notin DOMAIN playback
  <2>1. Tracked(playback')
    BY <1>2, <1>3 DEF WindowInv, Tracked
  <2>2. SameBut(playback, playback', active) /\ DueOf(playback', active) = 0
        /\ DueOf(playback, active) = 0
    BY <1>2, <1>3 DEF SameBut, DueOf
  <2> QED BY <1>2, <1>3, <2>1, <2>2, DueKept DEF WindowInv
<1>4. CASE active \in DOMAIN playback
  <2> DEFINE t == playback[active]
  <2>1. /\ t \in Tracker /\ t.sent \in Nat /\ t.acked \in Nat /\ t.acked <= t.sent
        /\ DueOf(playback, active) = t.sent - t.acked /\ f = t.sent
    BY <1>4, TrackedFields DEF WindowInv, Tracked, DueOf
  <2>2. /\ playback'[active] \in Tracker /\ playback'[active].sent = t.sent + 1
        /\ playback'[active].acked = t.acked
    BY <1>2, <1>4, <2>1 DEF Tracker
  <2>3. Tracked(playback')
    <3>1. playback'[active].acked <= playback'[active].sent
      BY <2>1, <2>2
    <3>2. \A y \in DOMAIN playback \ {active} : playback'[y] \in Tracker
                                              /\ playback'[y].acked <= playback'[y].sent
      BY <1>2 DEF WindowInv, Tracked
    <3>3. \A y \in DOMAIN playback' : playback'[y] \in Tracker
                                       /\ playback'[y].acked <= playback'[y].sent
      BY <1>2, <2>2, <3>1, <3>2
    <3> QED BY <1>2, <3>3 DEF Tracked, WindowInv
  <2>4. SameBut(playback, playback', active)
    BY <1>2 DEF SameBut
  <2>5. DueOf(playback', active) <= DueOf(playback, active) + 1
    <3>1. DueOf(playback', active) = (t.sent + 1) - t.acked
      BY <1>2, <1>4, <2>2 DEF DueOf
    <3> QED BY <2>1, <3>1
  <2> QED BY <1>2, <2>2, <2>3, <2>4, <2>5, DueKept DEF WindowInv
<1> QED BY <1>3, <1>4

(* A frame leaves the output queue and is charged, or held. *)
LEMMA TakenWindow ==
  ASSUME WindowInv, FrameTaken
  PROVE  WindowInv'
<1> DEFINE n == playback[active].sent
<1>1. /\ spc = "output" /\ out # <<>> /\ Head(out).kind = "audio" /\ ~Stale(item) /\ ~stop
      /\ out' = Tail(out) /\ UNCHANGED <<generation, active, item, worker, produced, stop>>
  BY DEF FrameTaken, textVars, inputVars
<1>2. /\ out \in Seq(Chunk) /\ Len(out) \in Nat \ {0} /\ Head(out) = out[1]
      /\ 1 \in DOMAIN out /\ out' \in Seq(Chunk) /\ Len(out') = Len(out) - 1
      /\ \A i \in DOMAIN out' : i \in Nat /\ i + 1 \in DOMAIN out /\ out'[i] = out[i + 1]
  BY <1>1 DEF WindowInv
<1>3. ASSUME active \in DOMAIN playback
      PROVE  /\ n \in Nat /\ Head(out).seq = n
             /\ \A i \in DOMAIN out : out[i].kind = "audio" => out[i].seq = n + i - 1
             /\ worker \in {"queued", "running"} => produced = n + Len(out)
  <2>1. n \in Nat /\ NextFrame = n
    BY <1>1, <1>3, TrackedFields DEF WindowInv, NextFrame
  <2>2. /\ \A i \in DOMAIN out : out[i].kind = "audio" => out[i].seq = n + i - 1
        /\ worker \in {"queued", "running"} => produced = n + Len(out)
    BY <1>1, <1>3, <2>1 DEF WindowInv, InLine
  <2> QED BY <1>1, <1>2, <2>1, <2>2
(* What is left follows on the next frame. *)
<1>4. ASSUME active \in DOMAIN playback
      PROVE  /\ \A i \in DOMAIN out' : out'[i].kind = "audio" => out'[i].seq = (n + 1) + i - 1
             /\ worker \in {"queued", "running"} => produced = (n + 1) + Len(out')
  <2>1. ASSUME NEW i \in DOMAIN out', out'[i].kind = "audio"
        PROVE  out'[i].seq = (n + 1) + i - 1
    <3>1. i + 1 \in DOMAIN out /\ out'[i] = out[i + 1] /\ i \in Nat
      BY <1>2
    <3>2. out[i + 1].seq = n + (i + 1) - 1
      BY <1>3, <1>4, <2>1, <3>1
    <3> QED BY <1>3, <1>4, <3>1, <3>2
  <2>2. ASSUME worker \in {"queued", "running"} PROVE produced = (n + 1) + Len(out')
    BY <1>2, <1>3, <1>4, <2>2
  <2> QED BY <2>1, <2>2
<1>5. CASE FlowOpen
  <2>1. SendFrame(Head(out).seq) /\ UNCHANGED frame
    BY <1>5 DEF FrameTaken
  <2>2. /\ Tracked(playback') /\ Due(playback') <= MaxUnacked
        /\ DOMAIN playback' = DOMAIN playback
        /\ active \in DOMAIN playback => playback'[active].sent = n + 1
    BY <1>3, <1>5, <2>1, SendWindow
  <2>3. spc' = "delta"
    BY <2>1 DEF SendFrame
  <2>4. InLine'
    <3> SUFFICES ASSUME active' \in DOMAIN playback'
                 PROVE  /\ ~Stale(item)'
                        /\ \A i \in DOMAIN out' :
                              out'[i].kind = "audio" => out'[i].seq = NextFrame' + i - 1
                        /\ worker' \in {"queued", "running"} => produced' = NextFrame' + Len(out')
      BY <2>3 DEF InLine
    <3>1. active \in DOMAIN playback /\ NextFrame' = n + 1
      <4>1. active \in DOMAIN playback /\ playback'[active'].sent = n + 1
        BY <1>1, <2>2
      <4> QED BY <1>3, <2>3, <4>1 DEF NextFrame
    <3> QED BY <1>1, <1>4, <3>1 DEF Stale
  <2> QED BY <1>1, <1>2, <2>2, <2>4 DEF WindowInv
<1>6. CASE ~FlowOpen
  <2>1. spc' = "holding" /\ frame' = Head(out).seq /\ UNCHANGED playback
    BY <1>6 DEF FrameTaken
  <2>2. InLine'
    <3> SUFFICES ASSUME active \in DOMAIN playback
                 PROVE  /\ ~Stale(item)' /\ frame' = playback'[active'].sent
                        /\ \A i \in DOMAIN out' :
                              out'[i].kind = "audio" => out'[i].seq = NextFrame' + i - 1
                        /\ worker' \in {"queued", "running"} => produced' = NextFrame' + Len(out')
      BY <1>1, <2>1 DEF InLine
    <3>1. NextFrame' = n + 1
      BY <1>1, <2>1 DEF NextFrame
    <3> QED BY <1>1, <1>3, <1>4, <2>1, <3>1 DEF Stale
  <2> QED BY <1>1, <1>2, <2>1, <2>2 DEF WindowInv
<1> QED BY <1>5, <1>6

(* The held frame is charged, held on, or given up. *)
LEMMA WakeWindow ==
  ASSUME WindowInv, FrameWake
  PROVE  WindowInv'
<1>1. /\ spc = "holding"
      /\ UNCHANGED <<generation, active, item, worker, produced, out>>
      /\ out' \in Seq(Chunk) /\ produced' \in Nat
  BY DEF FrameWake, textVars, inputVars, workerVars, WindowInv
<1>2. CASE spc' = "join" /\ UNCHANGED playback
  BY <1>1, <1>2, WindowNotSending
<1>3. CASE UNCHANGED <<spc, playback, stop>>
  <2>1. frame' = frame
    BY <1>1, <1>3 DEF FrameWake
  <2> QED BY <1>1, <1>3, <2>1, WindowUnchanged
<1>4. CASE Stale(item) /\ UNCHANGED playback
  BY <1>1, <1>4 DEF WindowInv, InLine
<1>5. CASE FlowOpen /\ ~Stale(item) /\ SendFrame(frame) /\ UNCHANGED stop
  <2> DEFINE n == playback[active].sent
  <2>1. active \in DOMAIN playback => n \in Nat /\ frame = n
    BY <1>1, TrackedFields DEF WindowInv, InLine
  <2>2. /\ Tracked(playback') /\ Due(playback') <= MaxUnacked
        /\ DOMAIN playback' = DOMAIN playback
        /\ active \in DOMAIN playback => playback'[active].sent = n + 1
    BY <1>5, <2>1, SendWindow
  <2>3. spc' = "delta"
    BY <1>5 DEF SendFrame
  <2>4. InLine'
    <3> SUFFICES ASSUME active \in DOMAIN playback
                 PROVE  ~Stale(item)' /\ NextFrame' = NextFrame
      BY <1>1, <1>5, <2>2, <2>3 DEF InLine, WindowInv
    <3>1. NextFrame' = n + 1
      <4>1. playback'[active'].sent = n + 1
        BY <1>1, <2>2
      <4> QED BY <2>1, <2>3, <4>1 DEF NextFrame
    <3>2. NextFrame = n + 1
      BY <1>1 DEF NextFrame
    <3> QED BY <1>1, <1>5, <3>1, <3>2 DEF Stale
  <2> QED BY <1>1, <2>2, <2>4 DEF WindowInv
<1> QED BY <1>2, <1>3, <1>4, <1>5 DEF FrameWake

(* The response is over: its tracker goes, or waits for acknowledgements. *)
LEMMA JoinWindow ==
  ASSUME WindowInv, Join
  PROVE  WindowInv'
<1> DEFINE t == playback[active]
<1>1. /\ spc' \notin {"announce", "output", "holding", "delta"}
      /\ out' \in Seq(Chunk) /\ produced' \in Nat
  <2>1. CASE EndResponse
    BY <2>1 DEF EndResponse
  <2>2. CASE spc' \in {"done", "audioDone"} /\ UNCHANGED workerVars
    BY <2>2 DEF workerVars, WindowInv
  <2> QED BY <2>1, <2>2 DEF Join
<1>2. CASE active \notin DOMAIN playback
  BY <1>1, <1>2, WindowNotSending DEF Join
<1>3. CASE active \in DOMAIN playback /\ t.sent = t.acked
  <2>1. playback' = Without(playback, active)
    BY <1>3 DEF Join
  <2>2. /\ DOMAIN playback' = DOMAIN playback \ {active}
        /\ \A y \in DOMAIN playback' : playback'[y] = playback[y]
        /\ playback' = [y \in DOMAIN playback' |-> playback'[y]]
    BY <2>1 DEF Without
  <2>3. Tracked(playback')
    <3>1. IsFiniteSet(DOMAIN playback')
      BY <2>2, FS_Subset DEF WindowInv, Tracked
    <3>2. \A y \in DOMAIN playback' : playback'[y] \in Tracker
                                       /\ playback'[y].acked <= playback'[y].sent
      BY <2>2 DEF WindowInv, Tracked
    <3> QED BY <2>2, <3>1, <3>2 DEF Tracked
  <2>4. /\ SameBut(playback, playback', active) /\ DueOf(playback', active) = 0
        /\ DueOf(playback, active) \in Nat
    BY <2>2, DueApart DEF SameBut, DueOf, WindowInv
  <2>5. Due(playback') <= MaxUnacked
    BY <2>3, <2>4, DueKept DEF WindowInv
  <2> QED BY <1>1, <2>3, <2>5 DEF WindowInv, InLine
<1>4. CASE active \in DOMAIN playback /\ t.sent # t.acked
  <2>1. playback' = [playback EXCEPT ![active].done = TRUE]
    BY <1>4 DEF Join
  <2>2. /\ DOMAIN playback' = DOMAIN playback
        /\ \A y \in DOMAIN playback \ {active} : playback'[y] = playback[y]
        /\ playback' = [y \in DOMAIN playback' |-> playback'[y]]
        /\ playback'[active] = [t EXCEPT !.done = TRUE]
    BY <1>4, <2>1 DEF WindowInv, Tracked
  <2>3. t \in Tracker /\ t.acked <= t.sent
    BY <1>4 DEF WindowInv, Tracked
  <2>4. /\ playback'[active] \in Tracker /\ playback'[active].sent = t.sent
        /\ playback'[active].acked = t.acked
    BY <2>2, <2>3 DEF Tracker
  <2>5. Tracked(playback')
    <3>1. \A y \in DOMAIN playback \ {active} : playback'[y] \in Tracker
                                              /\ playback'[y].acked <= playback'[y].sent
      BY <2>2 DEF WindowInv, Tracked
    <3>2. \A y \in DOMAIN playback' : playback'[y] \in Tracker
                                       /\ playback'[y].acked <= playback'[y].sent
      BY <2>2, <2>3, <2>4, <3>1
    <3> QED BY <2>2, <3>2 DEF Tracked, WindowInv
  <2>6. SameBut(playback, playback', active) /\ DueOf(playback', active) = DueOf(playback, active)
    BY <1>4, <2>2, <2>4 DEF SameBut, DueOf
  <2>7. DueOf(playback, active) \in Nat
    BY DueApart DEF WindowInv
  <2>8. Due(playback') <= MaxUnacked
    BY <2>5, <2>6, <2>7, DueKept DEF WindowInv
  <2> QED BY <1>1, <2>5, <2>8 DEF WindowInv, InLine
<1> QED BY <1>2, <1>3, <1>4

LEMMA SynthesizerWindow ==
  ASSUME WindowInv, SynthesizerNext
  PROVE  WindowInv'
<1> USE DEF linkVars, textVars, inputVars, voiceVars, respVars, synVars, workerVars, wakeVars
<1>1. CASE SynDiscard
  BY <1>1, WindowUnchanged DEF SynDiscard
<1>2. CASE SynStop \/ WorkerError \/ WorkerDone
  <2>1. /\ spc' \notin {"announce", "output", "holding", "delta"} /\ UNCHANGED playback
        /\ out' = out \/ (out # <<>> /\ out' = Tail(out))
        /\ UNCHANGED produced
    BY <1>2 DEF SynStop, WorkerError, WorkerDone
  <2>2. out' \in Seq(Chunk) /\ produced' \in Nat
    BY <2>1 DEF WindowInv
  <2> QED BY <2>1, <2>2, WindowNotSending
<1>3. CASE SynTake
  <2>1. ~Stale(Head(segQ)) /\ UNCHANGED <<generation, produced, out>>
    BY <1>3 DEF SynTake
  <2>2. CASE FlowOpen
    BY <1>3, <2>1, <2>2, BeginWindow DEF SynTake
  <2>3. CASE ~FlowOpen
    <3>1. spc' = "waiting" /\ UNCHANGED playback
      BY <1>3, <2>3 DEF SynTake
    <3> QED BY <2>1, <3>1, WindowNotSending DEF WindowInv
  <2> QED BY <2>2, <2>3
<1>4. CASE SynWake
  <2>1. UNCHANGED <<generation, produced, out>>
    BY <1>4 DEF SynWake
  <2>2. CASE ~Stale(item) /\ Begin(item)
    BY <2>1, <2>2, BeginWindow
  <2>3. CASE spc' \in {"exit", "get", "waiting"} /\ UNCHANGED playback
    BY <2>1, <2>3, WindowNotSending DEF WindowInv
  <2> QED BY <1>4, <2>2, <2>3 DEF SynWake
<1>5. CASE FrameDropped
  <2>1. /\ spc = "output" /\ (Stale(item) \/ stop)
        /\ UNCHANGED <<playback, generation, spc, active, item, produced, stop>>
        /\ out # <<>> /\ out' = Tail(out)
    BY <1>5 DEF FrameDropped
  <2>2. out' \in Seq(Chunk)
    BY <2>1 DEF WindowInv
  <2>3. InLine'
    BY <2>1 DEF WindowInv, InLine, Stale
  <2> QED BY <2>1, <2>2, <2>3 DEF WindowInv
<1>6. CASE FrameTaken \/ FrameWake \/ Join
  BY <1>6, TakenWindow, WakeWindow, JoinWindow
<1>7. ASSUME NEW sent \in BOOLEAN, CreatedSent(sent)
      PROVE  WindowInv'
  <2>1. /\ spc = "announce" /\ spc' = "output" /\ out' = <<>> /\ produced' = 0
        /\ UNCHANGED <<playback, generation, active, item>>
    BY <1>7 DEF CreatedSent
  <2>2. out' \in Seq(Chunk) /\ Len(out') = 0 /\ DOMAIN out' = {}
    BY <2>1
  <2>3. active \in DOMAIN playback => NextFrame' = 0 /\ ~Stale(item)'
    BY <2>1 DEF NextFrame, Stale, WindowInv, InLine
  <2>4. InLine'
    BY <2>1, <2>2, <2>3 DEF InLine
  <2> QED BY <2>1, <2>2, <2>4 DEF WindowInv
<1>8. ASSUME NEW sent \in BOOLEAN, DeltaSent(sent)
      PROVE  WindowInv'
  <2>1. /\ spc = "delta" /\ spc' = "output" /\ (stop => stop')
        /\ UNCHANGED <<playback, generation, active, item, worker, produced, out>>
    BY <1>8 DEF DeltaSent, Sent
  <2>2. NextFrame' = NextFrame /\ Stale(item)' = Stale(item)
    BY <2>1 DEF NextFrame, Stale
  <2>3. InLine'
    BY <2>1, <2>2 DEF InLine, WindowInv
  <2> QED BY <2>1, <2>3 DEF WindowInv
<1>9. ASSUME NEW sent \in BOOLEAN,
             ToldSent(sent) \/ FlowErrorSent(sent) \/ ErrorSent(sent) \/ AudioDoneSent(sent)
               \/ DoneSent(sent)
      PROVE  WindowInv'
  <2>1. CASE ToldSent(sent) \/ FlowErrorSent(sent) \/ ErrorSent(sent) \/ AudioDoneSent(sent)
    <3>1. /\ spc' \notin {"announce", "output", "holding", "delta"}
          /\ UNCHANGED <<playback, produced, out>>
      BY <2>1 DEF ToldSent, FlowErrorSent, ErrorSent, AudioDoneSent
    <3> QED BY <3>1, WindowNotSending DEF WindowInv
  <2>2. CASE DoneSent(sent)
    <3>1. spc' = "get" /\ out' = <<>> /\ produced' = 0 /\ UNCHANGED playback
      BY <2>2 DEF DoneSent, EndResponse
    <3> QED BY <3>1, WindowNotSending
  <2> QED BY <1>9, <2>1, <2>2
<1> QED
  BY <1>1, <1>2, <1>3, <1>4, <1>5, <1>6, <1>7, <1>8, <1>9 DEF SynthesizerNext

(* The worker puts its frames in line. *)
LEMMA WorkerWindow ==
  ASSUME WindowInv, WorkerNext
  PROVE  WindowInv'
<1> USE DEF linkVars, textVars, inputVars, synVars, wakeVars
<1>1. CASE WorkerStarts \/ WorkerEnds
  <2>1. /\ UNCHANGED <<playback, generation, spc, active, item, frame, produced, out, stop>>
        /\ worker' \in {"queued", "running"} => worker \in {"queued", "running"}
    BY <1>1 DEF WorkerStarts, WorkerEnds
  <2>2. NextFrame' = NextFrame /\ Stale(item)' = Stale(item)
    BY <2>1 DEF NextFrame, Stale
  <2>3. InLine'
    BY <2>1, <2>2 DEF InLine, WindowInv
  <2> QED BY <2>1, <2>3 DEF WindowInv
<1>2. CASE WorkerEmits
  <2> DEFINE e == [kind |-> "audio", seq |-> produced]
  <2>1. /\ worker = "running" /\ ~stop /\ produced' = produced + 1 /\ out' = Append(out, e)
        /\ UNCHANGED <<playback, generation, spc, active, item, frame, worker, stop>>
    BY <1>2 DEF WorkerEmits
  <2>2. e \in Chunk /\ produced' \in Nat
    BY <2>1 DEF WindowInv, Chunk
  <2>3. e.seq = produced
    OBVIOUS
  <2> HIDE DEF e
  <2>4. /\ out' \in Seq(Chunk) /\ Len(out) \in Nat /\ Len(out') = Len(out) + 1
        /\ DOMAIN out' = DOMAIN out \cup {Len(out) + 1} /\ out'[Len(out) + 1] = e
        /\ \A i \in DOMAIN out : i \in Nat /\ out'[i] = out[i]
    BY <2>1, <2>2 DEF WindowInv
  <2>5. NextFrame' = NextFrame /\ Stale(item)' = Stale(item)
    BY <2>1 DEF NextFrame, Stale
  <2>6. InLine'
    <3> SUFFICES ASSUME spc \in {"announce", "output", "holding", "delta"},
                        active \in DOMAIN playback, spc # "announce"
                 PROVE  /\ \A i \in DOMAIN out' :
                              out'[i].kind = "audio" => out'[i].seq = NextFrame' + i - 1
                        /\ produced' = NextFrame' + Len(out')
      BY <2>1, <2>5 DEF InLine, WindowInv
    <3>1. /\ \A i \in DOMAIN out : out[i].kind = "audio" => out[i].seq = NextFrame + i - 1
          /\ produced = NextFrame + Len(out)
      BY <2>1 DEF WindowInv, InLine
    <3>2. NextFrame \in Nat
      <4>1. playback[active].sent \in Nat
        BY TrackedFields DEF WindowInv
      <4> QED BY <4>1 DEF NextFrame
    <3>3. e.seq = NextFrame + (Len(out) + 1) - 1
      BY <2>3, <2>4, <3>1, <3>2
    <3>4. produced + 1 = NextFrame + (Len(out) + 1)
      BY <2>4, <3>1, <3>2
    <3> QED BY <2>1, <2>4, <2>5, <3>1, <3>3, <3>4
  <2> QED BY <2>1, <2>2, <2>4, <2>6 DEF WindowInv
<1>3. ASSUME NEW kind \in {"done", "error"}, WorkerReports(kind)
      PROVE  WindowInv'
  <2> DEFINE e == [kind |-> kind, seq |-> produced]
  <2>1. /\ worker' = "closing" /\ out' = Append(out, e)
        /\ UNCHANGED <<playback, generation, spc, active, item, frame, produced, stop>>
    BY <1>3 DEF WorkerReports
  <2>2. e \in Chunk /\ e.kind # "audio"
    BY DEF WindowInv, Chunk
  <2> HIDE DEF e
  <2>3. /\ out' \in Seq(Chunk)
        /\ DOMAIN out' = DOMAIN out \cup {Len(out) + 1} /\ out'[Len(out) + 1] = e
        /\ \A i \in DOMAIN out : out'[i] = out[i]
    BY <2>1, <2>2 DEF WindowInv
  <2>4. NextFrame' = NextFrame /\ Stale(item)' = Stale(item)
    BY <2>1 DEF NextFrame, Stale
  <2>5. InLine'
    BY <2>1, <2>2, <2>3, <2>4 DEF InLine, WindowInv
  <2> QED BY <2>1, <2>3, <2>5 DEF WindowInv
<1> QED
  BY <1>1, <1>2, <1>3 DEF WorkerNext

LEMMA ElsewhereWindow ==
  ASSUME WindowInv,
         ReaderNext \/ SegmenterNext \/ TimerNext \/ StatusFails \/ Served
  PROVE  WindowInv'
<1> USE DEF linkVars, textVars, inputVars, voiceVars, respVars, synVars, workerVars, wakeVars
<1>1. CASE ReaderNext
  <2>1. CASE \E sent \in BOOLEAN : ReplySent(sent)
    BY <2>1, WindowUnchanged DEF ReplySent, LoopOrEnd, EndRun
  <2>2. CASE \E sent \in BOOLEAN : GiveUpSent(sent)
    BY <2>2, WindowUnchanged DEF GiveUpSent, Sent
  <2>3. CASE GaveUp \/ NoticeDisconnect
    BY <2>3, WindowUnchanged DEF GaveUp, NoticeDisconnect, EndRun
  <2>4. CASE UpdateDone \/ UpdateRefused \/ StopSegmenter \/ Joined \/ ShutdownRaises \/ LateRelease
    BY <2>4, WindowUnchanged DEF UpdateDone, UpdateRefused, StopSegmenter, Joined, ShutdownRaises, LateRelease
  <2> QED BY <1>1, <2>1, <2>2, <2>3, <2>4 DEF ReaderNext
<1>2. CASE SegmenterNext \/ IdleFires \/ GiveUp \/ StatusFails \/ Served
  <2>1. CASE SegmenterNext
    <3>1. UNCHANGED <<generation, voiceVars>>
      BY <2>1 DEF SegmenterNext, SegRead, SegPut
    <3> QED BY <3>1, WindowUnchanged
  <2>2. CASE IdleFires \/ GiveUp
    BY <2>2, WindowUnchanged DEF IdleFires, GiveUp
  <2>3. CASE StatusFails \/ Served
    BY <2>3, WindowUnchanged DEF StatusFails, Served, vars
  <2> QED BY <1>2, <2>1, <2>2, <2>3
<1>3. CASE FlowTimeout \/ JoinTimeout
  <2>1. /\ spc' \notin {"announce", "output", "holding", "delta"}
        /\ UNCHANGED <<playback, produced, out>>
    BY <1>3 DEF FlowTimeout, JoinTimeout
  <2> QED BY <2>1, WindowNotSending DEF WindowInv
<1> QED
  BY <1>1, <1>2, <1>3 DEF TimerNext

(* Playback the client has not acknowledged never exceeds the window, for  *)
(* every window, every way to acknowledge and cancel, and every number of  *)
(* responses (server.py:834-859, 784-791).                                 *)
THEOREM WindowHeld == Spec => []WindowKept
<1>1. Init => WindowInv
  <2> SUFFICES ASSUME Init PROVE WindowInv
    OBVIOUS
  <2>1. playback = <<>> /\ DOMAIN playback = {} /\ out = <<>> /\ produced = 0 /\ spc = "get"
    BY DEF Init
  <2>2. Tracked(playback)
    BY <2>1, FS_EmptySet DEF Tracked
  <2>3. Due(playback) = 0
    <3>1. \A f : Total(f, {}) = 0
      BY TotalStep, FS_EmptySet
    <3> QED BY <2>1, <3>1 DEF Due
  <2> QED BY <2>1, <2>2, <2>3, LimitAssumption DEF WindowInv, InLine
<1>2. WindowInv /\ [Next]_vars => WindowInv'
  <2> SUFFICES ASSUME WindowInv, [Next]_vars PROVE WindowInv'
    OBVIOUS
  <2>1. CASE Next
    BY <2>1, ClientWindow, SynthesizerWindow, WorkerWindow, ElsewhereWindow DEF Next
  <2>2. CASE UNCHANGED vars
    BY <2>2, WindowUnchanged DEF vars, textVars, inputVars, voiceVars, respVars, synVars,
       workerVars, wakeVars
  <2> QED
    BY <2>1, <2>2
<1>3. WindowInv => WindowKept
  BY DueCounted DEF WindowInv, WindowKept
<1> QED
  BY <1>1, <1>2, <1>3, PTL DEF Spec

-----------------------------------------------------------------------------
(* What the client hears.  Past this it hears nothing any more.            *)
Deaf == net = "closed" \/ disconnected \/ rpc \in {"late", "over"}

(* The line at the send lock: at most one event by each.                   *)
Lined(q) ==
  /\ q \in Seq(SendCall) /\ Len(q) <= 2
  /\ Len(q) = 2 => q[1].who # q[2].who

Says(q, who) == \E i \in 1..Len(q) : q[i].who = who

EventOf(q, who) ==
  IF Len(q) >= 1 /\ q[1].who = who THEN q[1].ev
  ELSE IF Len(q) = 2 /\ q[2].who = who THEN q[2].ev ELSE Reply

(* What the client hears before anything more of the synthesizer.          *)
Before(q) == IF Len(q) >= 1 /\ q[1].who = "reader" THEN q[1].ev ELSE Reply

Whom == {"reader", "syn"}

LEMMA CallFields ==
  ASSUME NEW c \in SendCall
  PROVE  c.who \in Whom
BY DEF SendCall, Whom

LEMMA LineCases ==
  ASSUME NEW q, Lined(q)
  PROVE  \/ q = <<>>
         \/ Len(q) = 1 /\ q[1] \in SendCall
         \/ Len(q) = 2 /\ q[1] \in SendCall /\ q[2] \in SendCall /\ q[1].who # q[2].who
<1>1. q \in Seq(SendCall) /\ Len(q) <= 2 /\ (Len(q) = 2 => q[1].who # q[2].who)
  BY DEF Lined
<1>2. Len(q) \in Nat /\ (q # <<>> => Len(q) # 0) /\ \A i \in 1..Len(q) : q[i] \in SendCall
  BY <1>1, EmptySeq, LenProperties
<1>3. CASE Len(q) = 0
  BY <1>2, <1>3
<1>4. CASE Len(q) = 1
  BY <1>2, <1>4
<1>5. CASE Len(q) = 2
  <2>1. 1 \in 1..Len(q) /\ 2 \in 1..Len(q)
    BY <1>5
  <2> QED BY <1>1, <1>2, <1>5, <2>1
<1>6. \A n \in Nat : n <= 2 => n = 0 \/ n = 1 \/ n = 2
  OBVIOUS
<1> QED BY <1>1, <1>2, <1>3, <1>4, <1>5, <1>6

LEMMA SayLined ==
  ASSUME NEW q, Lined(q), NEW c \in SendCall, ~Says(q, c.who)
  PROVE  /\ Lined(Append(q, c)) /\ Says(Append(q, c), c.who)
         /\ EventOf(Append(q, c), c.who) = c.ev
         /\ \A w \in Whom : w # c.who =>
              /\ Says(Append(q, c), w) <=> Says(q, w)
              /\ EventOf(Append(q, c), w) = EventOf(q, w)
         /\ c.who = "syn" => Before(Append(q, c)) = EventOf(q, "reader")
         /\ c.who = "reader" /\ Says(q, "syn") => Before(Append(q, c)) = Before(q)
<1> DEFINE p == Append(q, c)
<1>1. q \in Seq(SendCall) /\ Len(q) \in Nat
  BY DEF Lined
<1>2. /\ p \in Seq(SendCall) /\ Len(p) = Len(q) + 1 /\ p[Len(q) + 1] = c
      /\ \A i \in 1..Len(q) : p[i] = q[i]
  BY <1>1, AppendProperties
<1>3. c.who \in Whom
  BY CallFields
<1> HIDE DEF p
<1>4. CASE q = <<>>
  <2>1. Len(q) = 0 /\ Len(p) = 1 /\ p[1] = c
    BY <1>2, <1>4
  <2> QED BY <1>2, <2>1 DEF Lined, Says, EventOf, Before, p
<1>5. CASE Len(q) = 1 /\ q[1] \in SendCall
  <2>1. Len(p) = 2 /\ p[1] = q[1] /\ p[2] = c /\ q[1].who \in Whom
    BY <1>2, <1>5, CallFields
  <2>2. q[1].who # c.who
    BY <1>5 DEF Says
  <2>3. Lined(p) /\ Says(p, c.who) /\ EventOf(p, c.who) = c.ev
    BY <1>2, <1>5, <2>1, <2>2 DEF Lined, Says, EventOf
  <2>4. \A w \in Whom : w # c.who => /\ Says(p, w) <=> Says(q, w)
                                     /\ EventOf(p, w) = EventOf(q, w)
    BY <1>5, <2>1, <2>2 DEF Says, EventOf
  <2>5. Before(p) = Before(q) /\ (c.who = "syn" => Before(q) = EventOf(q, "reader"))
    BY <1>3, <1>5, <2>1, <2>2 DEF Before, EventOf, Whom
  <2> QED BY <2>3, <2>4, <2>5 DEF p
<1>6. CASE Len(q) = 2 /\ q[1] \in SendCall /\ q[2] \in SendCall /\ q[1].who # q[2].who
  <2>1. Says(q, c.who)
    BY <1>3, <1>6, CallFields DEF Says, Whom
  <2> QED BY <2>1
<1> QED BY <1>4, <1>5, <1>6, LineCases

LEMMA NextInLine ==
  ASSUME NEW q, Lined(q), q # <<>>
  PROVE  /\ Lined(Tail(q)) /\ Head(q) \in SendCall
         /\ Says(q, Head(q).who) /\ EventOf(q, Head(q).who) = Head(q).ev
         /\ ~Says(Tail(q), Head(q).who) /\ EventOf(Tail(q), Head(q).who) = Reply
         /\ \A w \in Whom : w # Head(q).who =>
              /\ Says(Tail(q), w) <=> Says(q, w)
              /\ EventOf(Tail(q), w) = EventOf(q, w)
         /\ Head(q).who = "reader" =>
              Before(q) = EventOf(q, "reader") /\ Before(Tail(q)) = Reply
         /\ Head(q).who = "syn" =>
              Before(q) = Reply /\ Before(Tail(q)) = EventOf(q, "reader")
<1> DEFINE p == Tail(q)
<1>1. q \in Seq(SendCall) /\ Len(q) \in Nat /\ Head(q) = q[1]
  BY DEF Lined
<1>2. /\ p \in Seq(SendCall) /\ Len(p) = Len(q) - 1 /\ Head(q) \in SendCall
      /\ \A i \in 1..Len(p) : p[i] = q[i + 1]
  BY <1>1, HeadTailProperties
<1>3. Head(q).who \in Whom
  BY <1>2, CallFields
<1> HIDE DEF p
<1>5. CASE Len(q) = 1 /\ q[1] \in SendCall
  <2>1. Len(p) = 0
    BY <1>2, <1>5
  <2>2. Lined(p) /\ Says(q, Head(q).who) /\ EventOf(q, Head(q).who) = Head(q).ev
        /\ ~Says(p, Head(q).who) /\ EventOf(p, Head(q).who) = Reply
    BY <1>1, <1>2, <1>5, <2>1 DEF Lined, Says, EventOf
  <2>3. \A w \in Whom : w # Head(q).who => /\ Says(p, w) <=> Says(q, w)
                                           /\ EventOf(p, w) = EventOf(q, w)
    BY <1>1, <1>5, <2>1 DEF Says, EventOf
  <2>4. /\ Head(q).who = "reader" => Before(q) = EventOf(q, "reader")
        /\ Head(q).who = "syn" => Before(q) = Reply
        /\ Before(p) = Reply /\ (Head(q).who = "syn" => EventOf(q, "reader") = Reply)
    BY <1>1, <1>5, <2>1 DEF Before, EventOf
  <2> QED BY <1>2, <2>2, <2>3, <2>4 DEF p
<1>6. CASE Len(q) = 2 /\ q[1] \in SendCall /\ q[2] \in SendCall /\ q[1].who # q[2].who
  <2>1. Len(p) = 1 /\ p[1] = q[2] /\ q[2].who \in Whom
    BY <1>2, <1>6, CallFields
  <2>2. Lined(p) /\ Says(q, Head(q).who) /\ EventOf(q, Head(q).who) = Head(q).ev
        /\ ~Says(p, Head(q).who) /\ EventOf(p, Head(q).who) = Reply
    BY <1>1, <1>2, <1>6, <2>1 DEF Lined, Says, EventOf
  <2>3. \A w \in Whom : w # Head(q).who => /\ Says(p, w) <=> Says(q, w)
                                           /\ EventOf(p, w) = EventOf(q, w)
    BY <1>1, <1>6, <2>1 DEF Says, EventOf
  <2>4. /\ Head(q).who = "reader" => Before(q) = EventOf(q, "reader") /\ Before(p) = Reply
        /\ Head(q).who = "syn" => Before(q) = Reply /\ Before(p) = EventOf(q, "reader")
    BY <1>1, <1>6, <2>1 DEF Before, EventOf, Whom
  <2> QED BY <1>2, <2>2, <2>3, <2>4 DEF p
<1> QED BY <1>5, <1>6, LineCases

LEMMA SaysSomething ==
  ASSUME NEW q, Lined(q), NEW w, EventOf(q, w).kind # "reply"
  PROVE  Says(q, w)
<1>1. Len(q) \in Nat
  BY DEF Lined
<1>2. Reply.kind = "reply"
  BY DEF Reply, Event
<1> QED BY <1>1, <1>2 DEF Says, EventOf

FromReader == EventOf(sendQ, "reader")
FromSyn    == EventOf(sendQ, "syn")
Ahead      == Before(sendQ)

(* What the client will believe when it hears the synthesizer's next.      *)
CutThen   == IF Ahead.kind = "cancelled" THEN Ahead.gen + 1 ELSE cut
PosThen   == IF Ahead.kind = "cancelled" THEN 0 ELSE pos
QuietThen == IF Ahead.kind \in {"paused", "resumed"} THEN Ahead.kind = "paused" ELSE quiet

Telling == {"told", "announce", "delta", "stalled", "stalledHolding", "errored", "audioDone",
            "done"}

CallsInLine ==
  /\ Lined(sendQ)
  /\ Says(sendQ, "reader") => rpc \in {"reply", "givingUp"}
  /\ Says(sendQ, "syn") => spc \in Telling

Response == [id : Nat, gen : Int, next : Nat, ended : BOOLEAN]

SpeechTypes ==
  /\ net \in {"open", "closed"} /\ disconnected \in BOOLEAN /\ stop \in BOOLEAN
  /\ cut \in Nat /\ closed \in Nat /\ pos \in Nat
  /\ quiet \in BOOLEAN /\ paused \in BOOLEAN /\ flawed \in BOOLEAN
  /\ open \in Response
  /\ generation \in Nat /\ active \in Nat /\ responses \in Nat
  /\ item \in Item /\ segQ \in Seq(Item) /\ batch \in Seq(Item)
  /\ pending \in [lo : Nat, hi : Nat]

(* The reader announces a cancellation and a pause in the step that makes  *)
(* them: until the event is heard the client is behind by this one.        *)
ReaderHonest ==
  /\ FromReader.kind \in {"reply", "cancelled", "paused", "resumed"}
  /\ rpc = "givingUp" => FromReader.kind = "reply"
  /\ IF FromReader.kind = "cancelled" THEN FromReader.gen = cut /\ generation = cut + 1
                                      ELSE generation = cut
  /\ FromReader.kind = "paused"  => paused
  /\ FromReader.kind = "resumed" => ~paused
  /\ FromReader.kind \in {"reply", "cancelled"} => paused = quiet

(* The response that the synthesizer is at is the one the client has open. *)
Sounding == open.id = active /\ open.gen = item.gen /\ ~open.ended /\ item.gen <= generation

(* Of an event of this generation the client can be told: nothing that the *)
(* reader has said before ends the generation.                             *)
Timely == FromSyn.gen = item.gen /\ CutThen = item.gen

ToldHonest ==
  /\ Timely /\ ~QuietThen /\ FromSyn.n = item.hi
  /\ open.gen < item.gen /\ item.gen <= generation
  /\ \/ FromSyn.kind = "textDone" /\ PosThen <= item.hi
     \/ FromSyn.kind = "skipped" /\ PosThen < item.hi

CreatedHonest ==
  /\ Timely /\ ~QuietThen /\ FromSyn.n = item.hi
  /\ open.gen < item.gen /\ item.gen <= generation
  /\ FromSyn.kind = "created"
  /\ PosThen < item.hi \/ (PosThen = item.hi /\ item.hi \in Cues)
  /\ FromSyn.id = active /\ active = responses /\ open.id < active /\ closed < active

DeltaHonest ==
  /\ Timely /\ ~QuietThen /\ FromSyn.kind = "delta"
  /\ FromSyn.id = active /\ FromSyn.n = open.next

DoneHonest ==
  /\ FromSyn.id = active /\ open.id = active /\ open.gen = item.gen /\ item.gen <= generation
  /\ \/ FromSyn.kind = "done" /\ open.ended
     \/ FromSyn.kind = "failed" /\ ~open.ended /\ CutThen = item.gen

SynHonest ==
  /\ open.id <= responses /\ closed <= responses
  /\ spc \in {"get", "waiting"} => open.gen < generation
  /\ spc = "told" => ToldHonest
  /\ spc = "announce" => CreatedHonest
  /\ spc \in {"output", "holding", "delta", "errored", "stalledHolding", "join", "audioDone"} =>
       Sounding
  /\ spc = "delta" => DeltaHonest
  /\ spc = "audioDone" => Timely /\ FromSyn.kind = "audioDone" /\ FromSyn.id = active
  /\ spc = "done" => DoneHonest
  /\ spc \in {"stalled", "stalledHolding", "errored"} => FromSyn.kind = "reply"

(* Whatever does not touch the synthesizer's side leaves its promises.     *)
LEMMA SynHonestKept ==
  ASSUME SpeechTypes, SpeechTypes', SynHonest, CallsInLine,
         UNCHANGED <<spc, item, active, responses, open, closed>>, generation <= generation',
         FromSyn' = FromSyn,
         Says(sendQ, "syn") => UNCHANGED <<CutThen, PosThen, QuietThen>>
  PROVE  SynHonest'
<1>1. /\ generation \in Nat /\ generation' \in Nat /\ open.gen \in Int /\ item.gen \in Nat
      /\ open.id \in Nat /\ item.hi \in Nat
  BY DEF SpeechTypes, Response, Item
<1>2. FromSyn.kind # "reply" => UNCHANGED <<CutThen, PosThen, QuietThen>>
  BY SaysSomething DEF CallsInLine, FromSyn
<1>3. open.gen < generation => open.gen < generation'
  BY <1>1
<1>4. item.gen <= generation => item.gen <= generation'
  BY <1>1
<1> DEFINE places == {"output", "holding", "delta", "errored", "stalledHolding", "join",
                      "audioDone"}
<1>5. spc \in places => Sounding'
  BY <1>4 DEF SynHonest, Sounding
<1>6. spc = "told" => ToldHonest'
  BY <1>2, <1>4 DEF SynHonest, ToldHonest, Timely
<1>7. spc = "announce" => CreatedHonest'
  BY <1>2, <1>4 DEF SynHonest, CreatedHonest, Timely
<1>8. spc = "delta" => DeltaHonest'
  BY <1>2 DEF SynHonest, DeltaHonest, Timely
<1>9. spc = "audioDone" => (Timely /\ FromSyn.kind = "audioDone" /\ FromSyn.id = active)'
  BY <1>2 DEF SynHonest, Timely
<1>10. spc = "done" => DoneHonest'
  BY <1>2, <1>4 DEF SynHonest, DoneHonest
<1> QED
  BY <1>3, <1>5, <1>6, <1>7, <1>8, <1>9, <1>10 DEF SynHonest

LEMMA SilentReplies ==
  ASSUME NEW q, Lined(q), NEW w, ~Says(q, w)
  PROVE  EventOf(q, w) = Reply
<1>1. Len(q) \in Nat
  BY DEF Lined
<1> QED BY <1>1 DEF Says, EventOf

EventKind == {"reply", "paused", "resumed", "cancelled", "created", "delta", "audioDone", "done",
              "failed", "skipped", "textDone"}

LEMMA CallTyped ==
  ASSUME NEW w \in Whom, NEW k \in EventKind, NEW g \in Nat, NEW i \in Nat, NEW n \in Nat,
         disconnected \in BOOLEAN
  PROVE  /\ Call(w, Event(k, g, i, n)) \in SendCall
         /\ Call(w, Event(k, g, i, n)).who = w
         /\ Call(w, Event(k, g, i, n)).ev = Event(k, g, i, n)
BY DEF Call, Event, SendCall, Whom, EventKind

LEMMA EventFields ==
  ASSUME NEW k, NEW g, NEW i, NEW n
  PROVE  /\ Event(k, g, i, n).kind = k /\ Event(k, g, i, n).gen = g
         /\ Event(k, g, i, n).id = i /\ Event(k, g, i, n).n = n
BY DEF Event

(* A handler's answer joins the line behind what the synthesizer says.     *)
LEMMA ReaderSpeaks ==
  ASSUME SpeechTypes, SpeechTypes', CallsInLine, SynHonest,
         NEW ev, NEW k \in EventKind, NEW g \in Nat, NEW i \in Nat, ev = Event(k, g, i, 0),
         rpc \notin {"reply", "givingUp"}, rpc' \in {"reply", "givingUp"},
         sendQ' = Append(sendQ, Call("reader", ev)),
         UNCHANGED <<spc, item, active, responses, heardVars>>, generation <= generation'
  PROVE  CallsInLine' /\ SynHonest' /\ FromReader = Reply /\ FromReader' = ev
         /\ FromSyn' = FromSyn
<1> DEFINE c == Call("reader", ev)
<1>1. c \in SendCall /\ c.who = "reader" /\ c.ev = ev
  <2>1. "reader" \in Whom /\ 0 \in Nat /\ disconnected \in BOOLEAN
    BY DEF Whom, SpeechTypes
  <2>2. Call("reader", Event(k, g, i, 0)) \in SendCall
        /\ Call("reader", Event(k, g, i, 0)).who = "reader"
        /\ Call("reader", Event(k, g, i, 0)).ev = Event(k, g, i, 0)
    BY <2>1, CallTyped
  <2> QED BY <2>2
<1> HIDE DEF c
<1>2. Lined(sendQ) /\ ~Says(sendQ, "reader") /\ sendQ' = Append(sendQ, c)
  BY DEF CallsInLine, c
<1>3. /\ Lined(sendQ') /\ EventOf(sendQ', "reader") = ev
      /\ Says(sendQ', "syn") <=> Says(sendQ, "syn")
      /\ EventOf(sendQ', "syn") = EventOf(sendQ, "syn")
      /\ Says(sendQ, "syn") => Before(sendQ') = Before(sendQ)
  BY <1>1, <1>2, SayLined DEF Whom
<1>4. FromReader = Reply /\ FromReader' = ev /\ FromSyn' = FromSyn
  BY <1>2, <1>3, SilentReplies DEF FromReader, FromSyn
<1>5. CallsInLine'
  BY <1>3 DEF CallsInLine
<1>6. Says(sendQ, "syn") => UNCHANGED <<CutThen, PosThen, QuietThen>>
  BY <1>3 DEF CutThen, PosThen, QuietThen, Ahead, heardVars
<1>7. SynHonest'
  BY <1>4, <1>6, SynHonestKept DEF heardVars
<1> QED BY <1>4, <1>5, <1>7

(* While anybody listens a send succeeds, and is heard.                    *)
LEMMA HeardWhileOpen ==
  ASSUME SpeechTypes, ~Deaf, NEW who \in Whom, NEW sent \in BOOLEAN, Transmit(who, sent), CallsInLine
  PROVE  /\ sendQ # <<>> /\ Head(sendQ).who = who /\ Hear(EventOf(sendQ, who))
         /\ sent = TRUE /\ disconnected' = disconnected
<1>1. sendQ # <<>> /\ Head(sendQ).who = who /\ net = "open" /\ sent = TRUE
        /\ disconnected = FALSE
  BY DEF Transmit, Deaf, SpeechTypes
<1>2. EventOf(sendQ, who) = Head(sendQ).ev
  BY <1>1, NextInLine DEF CallsInLine
<1> QED BY <1>1, <1>2 DEF Transmit

(* The client hears the reader.                                            *)
LEMMA ReaderHeard ==
  ASSUME SpeechTypes, SpeechTypes', CallsInLine, ReaderHonest, SynHonest, ~Deaf,
         NEW sent \in BOOLEAN, Transmit("reader", sent), sendQ' = Tail(sendQ),
         rpc' # "givingUp",
         UNCHANGED <<spc, item, active, responses, generation, paused>>
  PROVE  /\ CallsInLine' /\ ReaderHonest' /\ SynHonest' /\ FromReader' = Reply
         /\ FromSyn' = FromSyn /\ pos' = (IF FromReader.kind = "cancelled" THEN 0 ELSE pos)
         /\ [Speech!SpeechNext]_(Speech!speechVars)
<1>1. sendQ # <<>> /\ Head(sendQ).who = "reader" /\ Hear(FromReader)
  BY HeardWhileOpen DEF Whom, FromReader
<1>2. /\ Lined(sendQ') /\ ~Says(sendQ', "reader") /\ EventOf(sendQ', "reader") = Reply
      /\ Says(sendQ', "syn") <=> Says(sendQ, "syn")
      /\ EventOf(sendQ', "syn") = EventOf(sendQ, "syn")
      /\ Before(sendQ) = EventOf(sendQ, "reader") /\ Before(sendQ') = Reply
  BY <1>1, NextInLine DEF Whom, CallsInLine
<1>3. FromReader' = Reply /\ FromSyn' = FromSyn /\ Ahead = FromReader /\ Ahead' = Reply
      /\ Reply.kind = "reply"
  BY <1>2, EventFields DEF FromReader, FromSyn, Ahead, Reply
<1>4. CallsInLine'
  BY <1>2 DEF CallsInLine
<1>5. UNCHANGED <<open, closed>>
      /\ cut' = CutThen /\ pos' = PosThen /\ quiet' = QuietThen
  BY <1>1, <1>3 DEF Hear, ReaderHonest, CutThen, PosThen, QuietThen, heardVars
<1>6. UNCHANGED <<CutThen, PosThen, QuietThen>>
  BY <1>3, <1>5 DEF CutThen, PosThen, QuietThen
<1>7. generation <= generation'
  BY DEF SpeechTypes
<1>8. SynHonest'
  BY <1>3, <1>5, <1>6, <1>7, SynHonestKept
<1>9. generation = cut' /\ paused = quiet'
  BY <1>3, <1>5 DEF ReaderHonest, CutThen, QuietThen, SpeechTypes
<1>10. ReaderHonest'
  BY <1>3, <1>9 DEF ReaderHonest
<1>11. [Speech!SpeechNext]_(Speech!speechVars)
  <2>1. CASE FromReader.kind = "reply"
    BY <1>1, <2>1 DEF Hear, heardVars, Speech!speechVars
  <2>2. CASE FromReader.kind = "cancelled"
    BY <1>1, <2>2 DEF Hear, ReaderHonest, Speech!HearCancelled, Speech!SpeechNext
  <2>3. CASE FromReader.kind \in {"paused", "resumed"}
    <3>1. quiet' \in {quiet, ~quiet} /\ UNCHANGED <<cut, open, closed, pos, answered, flawed>>
      BY <1>1, <2>3 DEF Hear, ReaderHonest, SpeechTypes
    <3>2. CASE quiet' = quiet
      BY <3>1, <3>2 DEF Speech!speechVars
    <3> QED BY <3>1, <3>2 DEF Speech!HearPlayback, Speech!SpeechNext
  <2> QED BY <2>1, <2>2, <2>3 DEF ReaderHonest
<1> QED BY <1>3, <1>4, <1>5, <1>8, <1>10, <1>11 DEF PosThen

(* What the synthesizer says now is heard after what the reader has said.  *)
LEMMA SynSpeaks ==
  ASSUME SpeechTypes, CallsInLine, ReaderHonest,
         NEW ev, NEW k \in EventKind, NEW g \in Nat, NEW i \in Nat, NEW n \in Nat,
         ev = Event(k, g, i, n), spc \notin Telling, spc' \in Telling,
         sendQ' = Append(sendQ, Call("syn", ev)),
         UNCHANGED <<rpc, generation, paused, heardVars>>
  PROVE  /\ CallsInLine' /\ ReaderHonest' /\ FromReader' = FromReader
         /\ FromSyn = Reply /\ FromSyn' = ev
         /\ CutThen' = generation /\ QuietThen' = paused
         /\ PosThen' = (IF FromReader.kind = "cancelled" THEN 0 ELSE pos)
<1> DEFINE c == Call("syn", ev)
<1>1. c \in SendCall /\ c.who = "syn" /\ c.ev = ev
  <2>1. "syn" \in Whom /\ disconnected \in BOOLEAN
    BY DEF Whom, SpeechTypes
  <2>2. Call("syn", Event(k, g, i, n)) \in SendCall
        /\ Call("syn", Event(k, g, i, n)).who = "syn"
        /\ Call("syn", Event(k, g, i, n)).ev = Event(k, g, i, n)
    BY <2>1, CallTyped
  <2> QED BY <2>2
<1> HIDE DEF c
<1>2. Lined(sendQ) /\ ~Says(sendQ, "syn") /\ sendQ' = Append(sendQ, c)
  BY DEF CallsInLine, c
<1>3. /\ Lined(sendQ') /\ EventOf(sendQ', "syn") = ev
      /\ Says(sendQ', "reader") <=> Says(sendQ, "reader")
      /\ EventOf(sendQ', "reader") = EventOf(sendQ, "reader")
      /\ Before(sendQ') = EventOf(sendQ, "reader")
  BY <1>1, <1>2, SayLined DEF Whom
<1>4. FromSyn = Reply /\ FromReader' = FromReader /\ FromSyn' = ev /\ Ahead' = FromReader
  BY <1>2, <1>3, SilentReplies DEF FromReader, FromSyn, Ahead
<1>5. CallsInLine'
  BY <1>3 DEF CallsInLine
<1>6. ReaderHonest'
  BY <1>4 DEF ReaderHonest, heardVars
<1>7. UNCHANGED <<cut, pos, quiet>>
  BY DEF heardVars
<1>8. CutThen' = generation
  BY <1>4, <1>7 DEF CutThen, ReaderHonest
<1>9. QuietThen' = paused
  BY <1>4, <1>7 DEF QuietThen, ReaderHonest, SpeechTypes
<1>10. PosThen' = (IF FromReader.kind = "cancelled" THEN 0 ELSE pos)
  BY <1>4, <1>7 DEF PosThen
<1> QED BY <1>4, <1>5, <1>6, <1>8, <1>9, <1>10

(* The client hears the synthesizer.                                       *)
LEMMA SynHeard ==
  ASSUME SpeechTypes, CallsInLine, ReaderHonest, ~Deaf, NEW sent \in BOOLEAN,
         Transmit("syn", sent), rpc' = rpc
  PROVE  /\ Hear(FromSyn) /\ sendQ # <<>> /\ Lined(Tail(sendQ))
         /\ disconnected' = disconnected /\ sent = TRUE
         /\ ~Says(Tail(sendQ), "syn")
         /\ Says(Tail(sendQ), "reader") => rpc' \in {"reply", "givingUp"}
         /\ EventOf(Tail(sendQ), "syn") = Reply
         /\ EventOf(Tail(sendQ), "reader") = FromReader
         /\ Before(Tail(sendQ)) = FromReader
         /\ CutThen = cut /\ PosThen = pos /\ QuietThen = quiet
<1>1. /\ sendQ # <<>> /\ Head(sendQ).who = "syn" /\ Hear(FromSyn)
      /\ disconnected' = disconnected /\ sent = TRUE
  BY HeardWhileOpen DEF Whom, FromSyn
<1>2. /\ Lined(Tail(sendQ)) /\ ~Says(Tail(sendQ), "syn") /\ EventOf(Tail(sendQ), "syn") = Reply
      /\ Says(Tail(sendQ), "reader") <=> Says(sendQ, "reader")
      /\ EventOf(Tail(sendQ), "reader") = EventOf(sendQ, "reader")
      /\ Before(sendQ) = Reply /\ Before(Tail(sendQ)) = EventOf(sendQ, "reader")
  BY <1>1, NextInLine DEF Whom, CallsInLine
<1>3. Ahead = Reply /\ Reply.kind = "reply"
  BY <1>2, EventFields DEF Ahead, Reply
<1>4. CutThen = cut /\ PosThen = pos /\ QuietThen = quiet
  BY <1>3 DEF CutThen, PosThen, QuietThen
<1> QED BY <1>1, <1>2, <1>4 DEF CallsInLine, FromReader

(* Nothing that the synthesizer says is about cancellations or pauses.     *)
LEMMA ReaderHonestKept ==
  ASSUME ReaderHonest, FromReader' = FromReader,
         UNCHANGED <<generation, paused, cut, quiet>>, rpc' = "givingUp" => rpc = "givingUp"
  PROVE  ReaderHonest'
BY DEF ReaderHonest

LEMMA CallsKept ==
  ASSUME CallsInLine, UNCHANGED <<sendQ>>,
         rpc' = rpc \/ rpc \notin {"reply", "givingUp"},
         spc' = spc \/ spc \notin Telling
  PROVE  CallsInLine' /\ FromReader' = FromReader /\ FromSyn' = FromSyn
         /\ (UNCHANGED <<cut, pos, quiet>> => UNCHANGED <<CutThen, PosThen, QuietThen>>)
BY DEF CallsInLine, FromReader, FromSyn, CutThen, PosThen, QuietThen, Ahead

LEMMA SynLeaves ==
  ASSUME NEW e, e.kind \notin {"cancelled", "paused", "resumed"}, Hear(e)
  PROVE  UNCHANGED <<cut, quiet>>
BY DEF Hear, heardVars

(* The place where the synthesizer goes after its event.                   *)
LEMMA SaidAndHeard ==
  ASSUME SpeechTypes, CallsInLine, ReaderHonest, ~Deaf, NEW sent \in BOOLEAN,
         Sent("syn", sent, <<>>), spc' \notin Telling, UNCHANGED <<rpc, generation, paused>>,
         FromSyn.kind \notin {"cancelled", "paused", "resumed"}
  PROVE  /\ Hear(FromSyn) /\ CallsInLine' /\ ReaderHonest'
         /\ FromReader' = FromReader /\ FromSyn' = Reply
         /\ UNCHANGED <<cut, quiet, disconnected, stop>>
         /\ CutThen = cut /\ PosThen = pos /\ QuietThen = quiet
<1>1. Transmit("syn", sent) /\ sendQ' = Tail(sendQ) \o <<>>
  BY DEF Sent
<1>2. /\ Hear(FromSyn) /\ sendQ # <<>> /\ Lined(Tail(sendQ))
      /\ disconnected' = disconnected /\ sent = TRUE
      /\ ~Says(Tail(sendQ), "syn")
      /\ Says(Tail(sendQ), "reader") => rpc' \in {"reply", "givingUp"}
      /\ EventOf(Tail(sendQ), "syn") = Reply
      /\ EventOf(Tail(sendQ), "reader") = FromReader
      /\ CutThen = cut /\ PosThen = pos /\ QuietThen = quiet
  BY <1>1, SynHeard
<1>3. sendQ' = Tail(sendQ)
  BY <1>1, <1>2, ConcatEmptySeq DEF Lined
<1>4. CallsInLine' /\ FromReader' = FromReader /\ FromSyn' = Reply
  BY <1>2, <1>3 DEF CallsInLine, FromReader, FromSyn
<1>5. UNCHANGED <<cut, quiet>>
  BY <1>2, SynLeaves
<1>6. ReaderHonest'
  BY <1>4, <1>5, ReaderHonestKept
<1>7. stop' = stop
  BY <1>2 DEF Broken, Sent, SpeechTypes
<1> QED BY <1>2, <1>4, <1>5, <1>6, <1>7

-----------------------------------------------------------------------------
(* Each event of the synthesizer that is heard is one that LiveSpeech      *)
(* allows, and the place that follows is as honest as the one before.      *)
Allowed == [Speech!SpeechNext]_(Speech!speechVars)

Honest == SpeechTypes /\ CallsInLine /\ ReaderHonest /\ SynHonest

LEMMA Numbers ==
  ASSUME SpeechTypes
  PROVE  /\ open.id \in Nat /\ open.gen \in Int /\ open.next \in Nat /\ open.ended \in BOOLEAN
         /\ item.gen \in Nat /\ item.hi \in Nat /\ item.lo \in Nat
         /\ generation \in Nat /\ cut \in Nat /\ active \in Nat /\ responses \in Nat
         /\ closed \in Nat /\ pos \in Nat
BY DEF SpeechTypes, Response, Item

LEMMA ToldHeard ==
  ASSUME Honest, SpeechTypes', ~Deaf, NEW sent \in BOOLEAN, ToldSent(sent)
  PROVE  /\ CallsInLine' /\ ReaderHonest' /\ SynHonest' /\ Allowed
         /\ FromReader' = FromReader /\ FromSyn' = Reply /\ pos' = FromSyn.n
<1>1. /\ spc = "told" /\ spc' = "get" /\ Sent("syn", sent, <<>>)
      /\ UNCHANGED <<rpc, generation, paused, responses>>
  BY DEF ToldSent, textVars, inputVars
<1>2. ToldHonest
  BY <1>1 DEF Honest, SynHonest
<1>3. FromSyn.kind \in {"textDone", "skipped"}
  BY <1>2 DEF ToldHonest
<1>4. /\ Hear(FromSyn) /\ CallsInLine' /\ ReaderHonest'
      /\ FromReader' = FromReader /\ FromSyn' = Reply
      /\ CutThen = cut /\ PosThen = pos /\ QuietThen = quiet
  BY <1>1, <1>3, SaidAndHeard DEF Honest, Telling
<1>5. /\ pos' = FromSyn.n /\ UNCHANGED <<cut, open, closed, flawed, quiet>>
      /\ answered' = IF FromSyn.kind = "textDone" THEN answered + 1 ELSE answered
  BY <1>3, <1>4 DEF Hear
<1>6. open.gen < cut /\ ~quiet /\ open.gen < generation
      /\ IF FromSyn.kind = "textDone" THEN pos <= pos' ELSE pos < pos'
  BY <1>2, <1>4, <1>5, Numbers DEF ToldHonest, Timely, Honest
<1>7. Allowed
  BY <1>3, <1>5, <1>6 DEF Allowed, Speech!SpeechNext, Speech!HearSkipped, Speech!HearTextDone,
     Speech!Vacant
<1>8. SynHonest'
  BY <1>1, <1>5, <1>6 DEF SynHonest, Honest
<1> QED BY <1>4, <1>5, <1>7, <1>8

LEMMA CreatedHeard ==
  ASSUME Honest, SpeechTypes', ~Deaf, NEW sent \in BOOLEAN, CreatedSent(sent)
  PROVE  /\ CallsInLine' /\ ReaderHonest' /\ SynHonest' /\ Allowed
         /\ FromReader' = FromReader /\ FromSyn' = Reply /\ pos' = FromSyn.n
         /\ open'.next = 0
<1>1. /\ spc = "announce" /\ spc' = "output" /\ Sent("syn", sent, <<>>)
      /\ UNCHANGED <<rpc, generation, paused, responses, active, item>>
  BY DEF CreatedSent, textVars, inputVars
<1>2. CreatedHonest
  BY <1>1 DEF Honest, SynHonest
<1>3. FromSyn.kind = "created"
  BY <1>2 DEF CreatedHonest
<1>4. /\ Hear(FromSyn) /\ CallsInLine' /\ ReaderHonest'
      /\ FromReader' = FromReader /\ FromSyn' = Reply
      /\ CutThen = cut /\ PosThen = pos /\ QuietThen = quiet
  BY <1>1, <1>3, SaidAndHeard DEF Honest, Telling
<1>5. /\ pos' = FromSyn.n /\ UNCHANGED <<cut, closed, answered, flawed, quiet>>
      /\ open' = [id |-> FromSyn.id, gen |-> FromSyn.gen, next |-> 0, ended |-> FALSE]
  BY <1>3, <1>4 DEF Hear
<1>6. open'.id = active /\ open'.gen = item.gen /\ ~open'.ended /\ open'.next = 0
      /\ open' = [id |-> open'.id, gen |-> cut, next |-> 0, ended |-> FALSE]
  BY <1>2, <1>4, <1>5 DEF CreatedHonest, Timely
<1>7. open.gen < cut /\ ~quiet /\ (pos < pos' \/ (pos' = pos /\ pos \in Cues))
      /\ open.id < open'.id /\ closed < open'.id
      /\ item.gen <= generation /\ active <= responses /\ closed <= responses
  BY <1>2, <1>4, <1>5, <1>6, Numbers DEF CreatedHonest, Timely, Honest
<1>8. Allowed
  BY <1>5, <1>6, <1>7 DEF Allowed, Speech!SpeechNext, Speech!HearCreated, Speech!Vacant
<1>9. SynHonest'
  BY <1>1, <1>5, <1>6, <1>7 DEF SynHonest, Sounding, Honest
<1> QED BY <1>4, <1>5, <1>6, <1>8, <1>9

LEMMA DeltaHeard ==
  ASSUME Honest, SpeechTypes', ~Deaf, NEW sent \in BOOLEAN, DeltaSent(sent)
  PROVE  /\ CallsInLine' /\ ReaderHonest' /\ SynHonest' /\ Allowed
         /\ FromReader' = FromReader /\ FromSyn' = Reply /\ pos' = pos
         /\ open'.next = open.next + 1
<1>1. /\ spc = "delta" /\ spc' = "output" /\ Sent("syn", sent, <<>>)
      /\ UNCHANGED <<rpc, generation, paused, responses, active, item>>
  BY DEF DeltaSent, textVars, inputVars
<1>2. DeltaHonest /\ Sounding /\ open.id <= responses /\ closed <= responses
  BY <1>1 DEF Honest, SynHonest
<1>3. FromSyn.kind = "delta"
  BY <1>2 DEF DeltaHonest
<1>4. /\ Hear(FromSyn) /\ CallsInLine' /\ ReaderHonest'
      /\ FromReader' = FromReader /\ FromSyn' = Reply
      /\ CutThen = cut /\ PosThen = pos /\ QuietThen = quiet
  BY <1>1, <1>3, SaidAndHeard DEF Honest, Telling
<1>5. /\ UNCHANGED <<cut, closed, pos, answered, flawed, quiet>>
      /\ open' = [id |-> FromSyn.id, gen |-> FromSyn.gen, next |-> FromSyn.n + 1,
                  ended |-> FALSE]
  BY <1>3, <1>4 DEF Hear
<1>6. /\ FromSyn.id = open.id /\ FromSyn.gen = open.gen /\ FromSyn.n = open.next
      /\ open.ended = FALSE /\ open.gen = cut /\ ~quiet
  BY <1>2, <1>4, Numbers DEF DeltaHonest, Timely, Sounding, Honest
<1>7. open' = [open EXCEPT !.next = @ + 1]
  <2>1. open' = [id |-> open.id, gen |-> open.gen, next |-> open.next + 1, ended |-> open.ended]
    BY <1>5, <1>6
  <2>2. open \in Response
    BY DEF Honest, SpeechTypes
  <2> QED BY <2>1, <2>2 DEF Response
<1>8. open'.id = active /\ open'.gen = item.gen /\ ~open'.ended /\ open'.next = open.next + 1
  BY <1>2, <1>5, <1>6 DEF Sounding
<1>9. Allowed
  BY <1>5, <1>6, <1>7 DEF Allowed, Speech!SpeechNext, Speech!HearDelta
<1>10. SynHonest'
  BY <1>1, <1>2, <1>5, <1>8 DEF SynHonest, Sounding, Honest
<1> QED BY <1>4, <1>5, <1>8, <1>9, <1>10

LEMMA ErrorHeard ==
  ASSUME Honest, SpeechTypes', ~Deaf, NEW sent \in BOOLEAN, ErrorSent(sent)
  PROVE  /\ CallsInLine' /\ ReaderHonest' /\ SynHonest' /\ UNCHANGED heardVars
         /\ FromReader' = FromReader /\ FromSyn' = Reply /\ FromSyn.kind = "reply"
<1>1. /\ spc = "errored" /\ spc' = "join" /\ Sent("syn", sent, <<>>)
      /\ UNCHANGED <<rpc, generation, paused, responses, active, item>>
  BY DEF ErrorSent, textVars, inputVars
<1>2. FromSyn.kind = "reply" /\ Sounding
  BY <1>1 DEF Honest, SynHonest
<1>3. /\ Hear(FromSyn) /\ CallsInLine' /\ ReaderHonest'
      /\ FromReader' = FromReader /\ FromSyn' = Reply
  BY <1>1, <1>2, SaidAndHeard DEF Honest, Telling
<1>4. UNCHANGED heardVars
  BY <1>2, <1>3 DEF Hear
<1>5. SynHonest'
  BY <1>1, <1>2, <1>4 DEF SynHonest, Sounding, Honest, heardVars
<1> QED BY <1>2, <1>3, <1>4, <1>5


(* response.output_audio.done: response.done joins the line in its place.  *)
LEMMA AudioDoneHeard ==
  ASSUME Honest, SpeechTypes', ~Deaf, NEW sent \in BOOLEAN, AudioDoneSent(sent)
  PROVE  /\ CallsInLine' /\ ReaderHonest' /\ SynHonest' /\ Allowed
         /\ FromReader' = FromReader /\ FromSyn'.kind = "done" /\ pos' = pos
<1> DEFINE ev == Event("done", item.gen, active, 0)
           c == [who |-> "syn", live |-> ~disconnected', ev |-> ev]
<1>1. /\ spc = "audioDone" /\ spc' = "done" /\ Sent("syn", sent, <<c>>)
      /\ UNCHANGED <<rpc, generation, paused, responses, active, item>>
  BY DEF AudioDoneSent, textVars, inputVars
<1>2. Sounding /\ Timely /\ FromSyn.kind = "audioDone" /\ FromSyn.id = active
      /\ open.id <= responses /\ closed <= responses
  BY <1>1 DEF Honest, SynHonest
<1>3. Transmit("syn", sent) /\ sendQ' = Tail(sendQ) \o <<c>>
  BY <1>1 DEF Sent
<1>4. /\ Hear(FromSyn) /\ sendQ # <<>> /\ Lined(Tail(sendQ))
      /\ disconnected' = disconnected
      /\ ~Says(Tail(sendQ), "syn")
      /\ Says(Tail(sendQ), "reader") => rpc' \in {"reply", "givingUp"}
      /\ EventOf(Tail(sendQ), "reader") = FromReader
      /\ CutThen = cut /\ PosThen = pos /\ QuietThen = quiet
  BY <1>1, <1>3, SynHeard DEF Honest
<1>5. c \in SendCall /\ c.who = "syn" /\ c.ev = ev /\ ev.kind = "done" /\ ev.id = active
  BY <1>4 DEF SendCall, Event, Honest, SpeechTypes, Item
<1> HIDE DEF c, ev
<1>6. sendQ' = Append(Tail(sendQ), c)
  BY <1>3, <1>4, <1>5, AppendIsConcat DEF Lined
<1>7. /\ Lined(sendQ') /\ EventOf(sendQ', "syn") = ev
      /\ Says(sendQ', "reader") <=> Says(Tail(sendQ), "reader")
      /\ EventOf(sendQ', "reader") = EventOf(Tail(sendQ), "reader")
  BY <1>4, <1>5, <1>6, SayLined DEF Whom
<1>8. CallsInLine' /\ FromReader' = FromReader /\ FromSyn' = ev
  BY <1>1, <1>4, <1>7 DEF CallsInLine, FromReader, FromSyn, Telling
<1>9. UNCHANGED <<cut, quiet>>
  BY <1>2, <1>4, SynLeaves
<1>10. ReaderHonest'
  BY <1>1, <1>8, <1>9, ReaderHonestKept DEF Honest
<1>11. /\ UNCHANGED <<cut, closed, pos, answered, flawed, quiet>>
       /\ open' = [id |-> FromSyn.id, gen |-> FromSyn.gen, next |-> open.next, ended |-> TRUE]
  BY <1>2, <1>4 DEF Hear
<1>12. FromSyn.id = open.id /\ FromSyn.gen = open.gen /\ open.gen = cut /\ ~open.ended
  BY <1>2, <1>4 DEF Timely, Sounding
<1>13. open' = [open EXCEPT !.ended = TRUE]
  <2>1. open' = [id |-> open.id, gen |-> open.gen, next |-> open.next, ended |-> TRUE]
    BY <1>11, <1>12
  <2>2. open \in Response
    BY DEF Honest, SpeechTypes
  <2>3. \A x : [open EXCEPT !.ended = x]
                = [id |-> open.id, gen |-> open.gen, next |-> open.next, ended |-> x]
    BY <2>2 DEF Response
  <2> QED BY <2>1, <2>3
<1>14. open'.id = open.id /\ open'.gen = open.gen /\ open'.ended
  BY <1>11, <1>12
<1>15. Allowed
  BY <1>11, <1>12, <1>13 DEF Allowed, Speech!SpeechNext, Speech!HearAudioDone
<1>16. DoneHonest'
  BY <1>1, <1>2, <1>5, <1>8, <1>14 DEF DoneHonest, Sounding
<1>17. SynHonest'
  BY <1>1, <1>2, <1>11, <1>14, <1>16 DEF SynHonest
<1> QED BY <1>5, <1>8, <1>10, <1>11, <1>15, <1>17

LEMMA DoneHeard ==
  ASSUME Honest, SpeechTypes', ~Deaf, NEW sent \in BOOLEAN, DoneSent(sent)
  PROVE  /\ CallsInLine' /\ ReaderHonest' /\ SynHonest' /\ Allowed
         /\ FromReader' = FromReader /\ FromSyn' = Reply /\ pos' = pos
         /\ FromSyn.kind \in {"done", "failed"}
<1>1. /\ spc = "done" /\ spc' = "get" /\ Sent("syn", sent, <<>>)
      /\ UNCHANGED <<rpc, generation, paused, responses>>
  BY DEF DoneSent, EndResponse, textVars, inputVars
<1>2. DoneHonest /\ open.id <= responses /\ closed <= responses
  BY <1>1 DEF Honest, SynHonest
<1>3. FromSyn.kind \in {"done", "failed"}
  BY <1>2 DEF DoneHonest
<1>4. /\ Hear(FromSyn) /\ CallsInLine' /\ ReaderHonest'
      /\ FromReader' = FromReader /\ FromSyn' = Reply
      /\ CutThen = cut /\ PosThen = pos /\ QuietThen = quiet
  BY <1>1, <1>3, SaidAndHeard DEF Honest, Telling
<1>5. /\ UNCHANGED <<cut, pos, answered, quiet>>
      /\ open' = Speech!NoResponse /\ closed' = FromSyn.id
      /\ flawed' = (flawed \/ FromSyn.kind = "failed")
  BY <1>3, <1>4 DEF Hear
<1>6. /\ FromSyn.id = open.id /\ open.gen \in Nat
      /\ open.ended \/ open.gen = cut
      /\ FromSyn.kind = "failed" <=> ~open.ended
  BY <1>2, <1>4, Numbers DEF DoneHonest, Honest
<1>7. open # Speech!NoResponse /\ open'.gen = -1 /\ open'.id = 0
  BY <1>5, <1>6 DEF Speech!NoResponse
<1>8. flawed' = (flawed \/ ~open.ended)
  BY <1>5, <1>6
<1>9. Allowed
  BY <1>5, <1>6, <1>7, <1>8 DEF Allowed, Speech!SpeechNext, Speech!HearDone
<1>10. open'.gen < generation' /\ open'.id <= responses' /\ closed' <= responses'
  BY <1>1, <1>2, <1>5, <1>6, <1>7, Numbers DEF Honest
<1>11. SynHonest'
  BY <1>1, <1>10 DEF SynHonest
<1> QED BY <1>3, <1>4, <1>5, <1>9, <1>11

(* An event that tells the client nothing of this.                         *)
LEMMA ReplyHeard ==
  ASSUME NEW who \in Whom, NEW sent, CallsInLine, Transmit(who, sent),
         EventOf(sendQ, who).kind = "reply"
  PROVE  UNCHANGED heardVars
<1>1. sendQ # <<>> /\ Head(sendQ).who = who
  BY DEF Transmit
<1>2. Head(sendQ).ev.kind = "reply"
  BY <1>1, NextInLine DEF CallsInLine
<1> QED BY <1>2 DEF Transmit, Hear

-----------------------------------------------------------------------------
(* The synthesizer says what it may.                                       *)
Now == IF FromReader.kind = "cancelled" THEN 0 ELSE pos

Announces == {"textDone", "skipped", "created"}

(* What an item may be announced after: a text up to its end, a segment up *)
(* to its last character, or all of it if that is a cue.                   *)
Further(p, it) ==
  IF it.kind = "end" THEN p <= it.hi
  ELSE p < it.hi \/ (it.kind = "word" /\ p = it.hi /\ p \in Cues)

LEMMA BeginHonest ==
  ASSUME Honest, SpeechTypes', NEW it \in Item, Begin(it), it.gen = generation,
         spc \in {"get", "waiting"}, ~paused, UNCHANGED <<rpc, generation, paused, heardVars>>,
         spc' # "dead", Further(Now, it)
  PROVE  /\ CallsInLine' /\ ReaderHonest' /\ SynHonest' /\ FromReader' = FromReader
         /\ FromSyn = Reply /\ FromSyn'.kind \in Announces /\ FromSyn'.gen = generation
         /\ FromSyn'.n = it.hi
<1>1. it.gen \in Nat /\ it.hi \in Nat /\ spc \notin Telling /\ 0 \in Nat
  BY DEF Item, Telling
<1>2. /\ open.gen < generation /\ open.id <= responses /\ closed <= responses
      /\ open.id \in Nat /\ closed \in Nat /\ responses \in Nat /\ generation \in Nat
      /\ item' = it /\ generation' = generation /\ UNCHANGED <<cut, open, closed, pos, quiet>>
  BY Numbers DEF Honest, SynHonest, Begin, heardVars
<1>3. CASE it.kind \in {"end", "mark"}
  <2> DEFINE k == IF it.kind = "end" THEN "textDone" ELSE "skipped"
             ev == Event(k, it.gen, 0, it.hi)
  <2>1. /\ sendQ' = Append(sendQ, Call("syn", ev)) /\ spc' = "told"
        /\ UNCHANGED <<status, active, responses, playback, stop>>
    BY <1>3 DEF Begin, Say
  <2>2. k \in EventKind /\ spc' \in Telling
    BY <2>1 DEF EventKind, Telling
  <2>3. /\ ev.kind = k /\ ev.gen = it.gen /\ ev.n = it.hi
    BY EventFields
  <2>4. k \in {"textDone", "skipped"} /\ (k = "textDone" <=> it.kind = "end")
    OBVIOUS
  <2> HIDE DEF k
  <2>5. ev = Event(k, it.gen, 0, it.hi)
    OBVIOUS
  <2> HIDE DEF ev
  <2>6. /\ CallsInLine' /\ ReaderHonest' /\ FromReader' = FromReader
        /\ FromSyn = Reply /\ FromSyn' = ev
        /\ CutThen' = generation /\ QuietThen' = paused
        /\ PosThen' = (IF FromReader.kind = "cancelled" THEN 0 ELSE pos)
    BY <1>1, <2>1, <2>2, <2>5, SynSpeaks DEF Honest
  <2>7. PosThen' = Now
    BY <2>6 DEF Now
  <2>8. ToldHonest'
    BY <1>1, <1>2, <1>3, <2>3, <2>4, <2>6, <2>7 DEF ToldHonest, Timely, Further
  <2>9. SynHonest'
    BY <1>2, <2>1, <2>8 DEF SynHonest
  <2> QED BY <2>3, <2>4, <2>6, <2>9 DEF Announces
<1>4. CASE it.kind = "word"
  <2> DEFINE ev == Event("created", it.gen, responses + 1, it.hi)
  <2>1. /\ sendQ' = Append(sendQ, Call("syn", ev)) /\ spc' = "announce"
        /\ active' = responses + 1 /\ responses' = responses + 1
    BY <1>4 DEF Begin, Say
  <2>2. "created" \in EventKind /\ spc' \in Telling /\ responses + 1 \in Nat
    BY <1>2, <2>1 DEF EventKind, Telling
  <2>3. /\ ev.kind = "created" /\ ev.gen = it.gen /\ ev.n = it.hi /\ ev.id = responses + 1
    BY EventFields
  <2>5. ev = Event("created", it.gen, responses + 1, it.hi)
    OBVIOUS
  <2> HIDE DEF ev
  <2>6. /\ CallsInLine' /\ ReaderHonest' /\ FromReader' = FromReader
        /\ FromSyn = Reply /\ FromSyn' = ev
        /\ CutThen' = generation /\ QuietThen' = paused
        /\ PosThen' = (IF FromReader.kind = "cancelled" THEN 0 ELSE pos)
    BY <1>1, <2>1, <2>2, <2>5, SynSpeaks DEF Honest
  <2>7. PosThen' = Now
    BY <2>6 DEF Now
  <2>8. open'.id < active' /\ closed' < active'
    BY <1>2, <2>1
  <2>9. CreatedHonest'
    BY <1>1, <1>2, <1>4, <2>1, <2>3, <2>6, <2>7, <2>8 DEF CreatedHonest, Timely, Further
  <2>10. open'.id <= responses' /\ closed' <= responses'
    BY <1>2, <2>1
  <2>11. SynHonest'
    BY <2>1, <2>9, <2>10 DEF SynHonest
  <2> QED BY <1>2, <2>3, <2>6, <2>11 DEF Announces
<1> QED BY <1>3, <1>4 DEF Begin

LEMMA SendFrameHonest ==
  ASSUME Honest, SpeechTypes', NEW f, f = open.next, SendFrame(f), ~Stale(item),
         spc \in {"output", "holding"}, ~paused,
         UNCHANGED <<rpc, generation, paused, item, active, responses, heardVars>>
  PROVE  /\ CallsInLine' /\ ReaderHonest' /\ SynHonest' /\ FromReader' = FromReader
         /\ FromSyn = Reply /\ FromSyn'.kind = "delta"
<1> DEFINE ev == Event("delta", item.gen, active, f)
<1>1. /\ sendQ' = Append(sendQ, Call("syn", ev)) /\ spc' = "delta"
  BY DEF SendFrame, Say
<1>2. /\ "delta" \in EventKind /\ spc' \in Telling /\ spc \notin Telling
      /\ item.gen \in Nat /\ active \in Nat /\ f \in Nat /\ item.gen = generation
  BY <1>1, Numbers DEF EventKind, Telling, Honest, Stale
<1>3. ev.kind = "delta" /\ ev.gen = item.gen /\ ev.n = f /\ ev.id = active
  BY EventFields
<1>4. ev = Event("delta", item.gen, active, f)
  OBVIOUS
<1> HIDE DEF ev
<1>5. /\ CallsInLine' /\ ReaderHonest' /\ FromReader' = FromReader
      /\ FromSyn = Reply /\ FromSyn' = ev
      /\ CutThen' = generation /\ QuietThen' = paused
  BY <1>1, <1>2, <1>4, SynSpeaks DEF Honest
<1>6. Sounding /\ open.id <= responses /\ closed <= responses
  BY DEF Honest, SynHonest
<1>7. UNCHANGED <<open, closed>>
  BY DEF heardVars
<1>8. Sounding'
  BY <1>6, <1>7 DEF Sounding
<1>9. DeltaHonest'
  BY <1>2, <1>3, <1>5, <1>7 DEF DeltaHonest, Timely
<1>10. SynHonest'
  BY <1>1, <1>6, <1>7, <1>8, <1>9 DEF SynHonest
<1> QED BY <1>3, <1>5, <1>10

(* An error of the flow control or of the worker.                          *)
LEMMA ErrorSaid ==
  ASSUME Honest, SpeechTypes', FlowTimeout \/ WorkerError
  PROVE  /\ CallsInLine' /\ ReaderHonest' /\ SynHonest' /\ FromReader' = FromReader
         /\ FromSyn = Reply /\ FromSyn' = Reply
<1>1. /\ sendQ' = Append(sendQ, Call("syn", Reply)) /\ spc \in {"waiting", "holding", "output"}
      /\ spc' \in {"stalled", "stalledHolding", "errored"}
      /\ spc' # "stalled" => spc \in {"holding", "output"}
      /\ UNCHANGED <<rpc, generation, paused, heardVars, item, active, responses>>
  BY DEF FlowTimeout, WorkerError, Say, textVars, inputVars
<1>2. /\ "reply" \in EventKind /\ 0 \in Nat /\ Reply = Event("reply", 0, 0, 0)
      /\ spc \notin Telling /\ spc' \in Telling
  BY <1>1 DEF EventKind, Reply, Telling
<1>3. /\ CallsInLine' /\ ReaderHonest' /\ FromReader' = FromReader
      /\ FromSyn = Reply /\ FromSyn' = Reply
  BY <1>1, <1>2, SynSpeaks DEF Honest
<1>4. Reply.kind = "reply"
  BY EventFields DEF Reply
<1>5. /\ spc' # "stalled" => Sounding
      /\ open.id <= responses /\ closed <= responses
  BY <1>1 DEF Honest, SynHonest
<1>6. UNCHANGED <<open, closed>>
  BY <1>1 DEF heardVars
<1>7. spc' # "stalled" => Sounding'
  BY <1>1, <1>5, <1>6 DEF Sounding
<1>8. SynHonest'
  BY <1>1, <1>3, <1>4, <1>5, <1>6, <1>7 DEF SynHonest
<1> QED BY <1>3, <1>8

(* The end of a response whose generation is still on.                     *)
LEMMA JoinHonest ==
  ASSUME Honest, SpeechTypes', ~Deaf, Join
  PROVE  /\ CallsInLine' /\ ReaderHonest' /\ SynHonest' /\ FromReader' = FromReader
         /\ FromSyn.kind = "reply"
         /\ FromSyn'.kind \in {"reply", "failed", "audioDone"} /\ UNCHANGED heardVars
<1>1. /\ spc = "join" /\ ~disconnected
      /\ UNCHANGED <<rpc, generation, paused, heardVars, responses>>
  BY DEF Join, textVars, inputVars, Deaf, sockVars
<1>2. Sounding /\ open.id <= responses /\ closed <= responses /\ spc \notin Telling
  BY <1>1 DEF Honest, SynHonest, Telling
<1>3. UNCHANGED <<cut, open, closed, pos, quiet>>
  BY <1>1 DEF heardVars
<1>4. Reply.kind = "reply"
  BY EventFields DEF Reply
<1>5. FromSyn = Reply
  BY <1>2, SilentReplies DEF Honest, CallsInLine, FromSyn
<1>6. CASE Stale(item)
  <2>1. spc' = "get" /\ sendQ' = sendQ
    BY <1>6 DEF Join, EndResponse
  <2>2. open.gen < generation
    BY <1>2, <1>6, Numbers DEF Honest, Sounding, Stale
  <2>3. CallsInLine' /\ FromReader' = FromReader /\ FromSyn' = FromSyn
    BY <1>1, <1>2, <2>1, CallsKept DEF Honest
  <2>4. ReaderHonest'
    BY <1>1, <1>3, <2>3, ReaderHonestKept DEF Honest
  <2>5. SynHonest'
    BY <1>1, <1>2, <1>3, <2>1, <2>2 DEF SynHonest
  <2> QED BY <1>1, <1>4, <1>5, <2>3, <2>4, <2>5
<1>7. CASE ~Stale(item)
  <2> DEFINE k == IF status = "failed" THEN "failed" ELSE "audioDone"
             ev == Event(k, item.gen, active, 0)
  <2>1. /\ sendQ' = Append(sendQ, Call("syn", ev)) /\ UNCHANGED <<item, active>>
        /\ spc' = IF status = "failed" THEN "done" ELSE "audioDone"
    BY <1>1, <1>7 DEF Join, Say
  <2>2. /\ k \in EventKind /\ spc' \in Telling /\ item.gen \in Nat /\ active \in Nat /\ 0 \in Nat
        /\ item.gen = generation
    BY <1>7, <2>1, Numbers DEF EventKind, Telling, Honest, Stale
  <2>3. ev.kind = k /\ ev.gen = item.gen /\ ev.id = active
    BY EventFields
  <2>4. /\ k \in {"failed", "audioDone"} /\ (k = "failed" => spc' = "done")
        /\ (k = "audioDone" => spc' = "audioDone")
    BY <2>1
  <2> HIDE DEF k
  <2>5. ev = Event(k, item.gen, active, 0)
    OBVIOUS
  <2> HIDE DEF ev
  <2>6. /\ CallsInLine' /\ ReaderHonest' /\ FromReader' = FromReader /\ FromSyn' = ev
        /\ CutThen' = generation
    BY <1>1, <1>2, <2>1, <2>2, <2>5, SynSpeaks DEF Honest
  <2>7. Sounding'
    BY <1>1, <1>2, <1>3, <2>1 DEF Sounding
  <2>8. k = "failed" => DoneHonest'
    BY <2>1, <2>2, <2>3, <2>6, <2>7 DEF DoneHonest, Sounding
  <2>9. k = "audioDone" => (Timely /\ FromSyn.kind = "audioDone" /\ FromSyn.id = active)'
    BY <2>1, <2>2, <2>3, <2>6 DEF Timely
  <2>10. SynHonest'
    BY <1>1, <1>2, <1>3, <2>4, <2>7, <2>8, <2>9 DEF SynHonest
  <2> QED BY <1>1, <1>4, <1>5, <2>3, <2>4, <2>6, <2>10
<1> QED BY <1>6, <1>7


(* The synthesizer goes on without a word.                                 *)
LEMMA SilentMove ==
  ASSUME Honest, SpeechTypes', sendQ' = sendQ, spc \notin Telling, spc' \notin Telling,
         UNCHANGED <<rpc, generation, paused, heardVars>>,
         responses' \in {responses, responses + 1},
         spc' \in {"get", "waiting"} => open.gen < generation,
         spc' \in {"output", "holding", "join"} =>
           spc \in {"output", "holding", "join"} /\ item' = item /\ active' = active
  PROVE  /\ CallsInLine' /\ ReaderHonest' /\ SynHonest' /\ FromReader' = FromReader
         /\ FromSyn = Reply /\ FromSyn' = Reply
<1>1. UNCHANGED <<cut, open, closed, pos, quiet>>
  BY DEF heardVars
<1>2. CallsInLine' /\ FromReader' = FromReader /\ FromSyn' = FromSyn
  BY CallsKept DEF Honest
<1>3. FromSyn = Reply
  BY SilentReplies DEF Honest, CallsInLine, FromSyn
<1>4. ReaderHonest'
  BY <1>1, <1>2, ReaderHonestKept DEF Honest
<1>5. open.id <= responses /\ closed <= responses
      /\ (spc \in {"output", "holding", "join"} => Sounding)
  BY DEF Honest, SynHonest
<1>6. spc' \in {"output", "holding", "join"} => Sounding'
  BY <1>1, <1>5 DEF Sounding
<1>7. open.id <= responses' /\ closed <= responses'
  BY <1>5, Numbers DEF Honest
<1>8. SynHonest'
  BY <1>1, <1>6, <1>7 DEF SynHonest, Telling
<1> QED BY <1>2, <1>3, <1>4, <1>8

-----------------------------------------------------------------------------
(* The frames of a response: what waits in its output queue follows on     *)
(* what the client has heard, as long as any of it may still be sent.      *)
Upcoming == open.next + (IF spc = "output" THEN 0 ELSE 1)

FramesFollow ==
  /\ \A i \in 1..Len(out) : out[i].kind = "audio" => out[i].seq = Upcoming + i - 1
  /\ worker \in {"queued", "running"} => produced = Upcoming + Len(out)

FramesInLine ==
  /\ out \in Seq(Chunk) /\ produced \in Nat
  /\ spc = "holding" => frame = open.next
  /\ spc \in {"output", "holding", "delta"} /\ ~Stale(item) /\ ~stop => FramesFollow

LEMMA FramesStay ==
  ASSUME FramesInLine, UNCHANGED <<spc, frame, out, produced, worker, item, open>>,
         stop' \/ (generation' = generation /\ (stop => stop'))
  PROVE  FramesInLine'
BY DEF FramesInLine, FramesFollow, Upcoming, Stale

LEMMA FramesOver ==
  ASSUME FramesInLine, spc' \notin {"output", "holding", "delta"},
         out' \in Seq(Chunk) /\ produced' \in Nat
  PROVE  FramesInLine'
BY DEF FramesInLine

LEMMA CreatedFrames ==
  ASSUME NEW sent \in BOOLEAN, CreatedSent(sent), open'.next = 0
  PROVE  FramesInLine'
<1>1. out' = <<>> /\ produced' = 0 /\ spc' = "output"
  BY DEF CreatedSent
<1>2. out' \in Seq(Chunk) /\ Len(out') = 0
  BY <1>1, EmptySeq
<1>3. FramesFollow'
  BY <1>1, <1>2 DEF FramesFollow, Upcoming
<1> QED BY <1>1, <1>2, <1>3 DEF FramesInLine

LEMMA DeltaFrames ==
  ASSUME Honest, FramesInLine, NEW sent \in BOOLEAN, DeltaSent(sent), stop' = stop,
         open'.next = open.next + 1
  PROVE  FramesInLine'
<1>1. /\ spc = "delta" /\ spc' = "output"
      /\ UNCHANGED <<generation, item, out, produced, worker>>
  BY DEF DeltaSent, textVars, inputVars, workerVars
<1>2. Upcoming' = Upcoming
  BY <1>1, Numbers DEF Upcoming, Honest
<1>3. FramesFollow => FramesFollow'
  BY <1>1, <1>2 DEF FramesFollow
<1> QED BY <1>1, <1>3 DEF FramesInLine, Stale

(* The frame that is taken from the queue is the next; so is one held.     *)
LEMMA FrameNext ==
  ASSUME Honest, FramesInLine, FrameTaken
  PROVE  /\ Head(out).seq = open.next /\ FramesInLine'
<1>1. /\ spc = "output" /\ out # <<>> /\ Head(out).kind = "audio" /\ ~Stale(item) /\ ~stop
      /\ out' = Tail(out) /\ UNCHANGED <<generation, item, produced, worker, open, stop>>
      /\ spc' \in {"delta", "holding"} /\ (spc' = "holding" => frame' = Head(out).seq)
  BY DEF FrameTaken, SendFrame, Say, textVars, inputVars, heardVars
<1>2. /\ out \in Seq(Chunk) /\ produced \in Nat /\ FramesFollow /\ Upcoming = open.next
      /\ open.next \in Nat
  BY <1>1, Numbers DEF FramesInLine, Upcoming, Honest
<1>3. /\ Len(out) \in Nat /\ Len(out) # 0 /\ Head(out) = out[1] /\ out' \in Seq(Chunk)
      /\ Len(out') = Len(out) - 1 /\ \A i \in 1..Len(out') : out'[i] = out[i + 1]
  BY <1>1, <1>2, EmptySeq, HeadTailProperties
<1>4. Head(out).seq = open.next
  <2>1. 1 \in 1..Len(out) /\ open.next + 1 - 1 = open.next
    BY <1>2, <1>3
  <2> QED BY <1>1, <1>2, <1>3, <2>1 DEF FramesFollow
<1>5. Upcoming' = open.next + 1
  BY <1>1 DEF Upcoming
<1>6. \A i \in 1..Len(out') : out'[i].kind = "audio" => out'[i].seq = Upcoming' + i - 1
  <2> TAKE i \in 1..Len(out')
  <2>1. i + 1 \in 1..Len(out) /\ out'[i] = out[i + 1]
    BY <1>3
  <2>2. open.next + (i + 1) - 1 = (open.next + 1) + i - 1
    BY <1>2
  <2> QED BY <1>2, <1>5, <2>1, <2>2 DEF FramesFollow
<1>7. worker' \in {"queued", "running"} => produced' = Upcoming' + Len(out')
  <2>1. open.next + Len(out) = (open.next + 1) + Len(out')
    BY <1>2, <1>3
  <2> QED BY <1>1, <1>2, <1>5, <2>1 DEF FramesFollow
<1> QED BY <1>1, <1>2, <1>3, <1>4, <1>6, <1>7 DEF FramesInLine, FramesFollow

LEMMA WakeFrames ==
  ASSUME Honest, FramesInLine, FrameWake
  PROVE  frame = open.next /\ FramesInLine'
<1>1. /\ spc = "holding" /\ frame = open.next
      /\ UNCHANGED <<generation, item, out, produced, worker, open>>
      /\ (spc' = "holding" => frame' = frame /\ stop' = stop)
      /\ \/ spc' \in {"holding", "delta"} /\ stop' = stop
         \/ spc' \in {"join", "output"} /\ stop'
  BY DEF FrameWake, SendFrame, Say, textVars, inputVars, workerVars, heardVars, FramesInLine
<1>2. spc' \in {"holding", "delta"} => Upcoming' = Upcoming
  BY <1>1 DEF Upcoming
<1>3. spc' \in {"holding", "delta"} /\ FramesFollow => FramesFollow'
  BY <1>1, <1>2 DEF FramesFollow
<1> QED BY <1>1, <1>3 DEF FramesInLine, Stale

LEMMA WorkerFrames ==
  ASSUME Honest, FramesInLine, WorkerNext
  PROVE  FramesInLine'
<1>1. UNCHANGED <<spc, frame, item, generation, stop, open>>
  BY DEF WorkerNext, WorkerStarts, WorkerEmits, WorkerReports, WorkerEnds, textVars, inputVars,
     synVars, wakeVars, heardVars
<1>2. Upcoming' = Upcoming /\ Upcoming \in Nat
  BY <1>1, Numbers DEF Upcoming, Honest
<1>3. out \in Seq(Chunk) /\ Len(out) \in Nat /\ produced \in Nat
  BY DEF FramesInLine
<1>4. CASE WorkerStarts \/ WorkerEnds
  <2>1. UNCHANGED <<out, produced>>
        /\ (worker' \in {"queued", "running"} => worker \in {"queued", "running"})
    BY <1>4 DEF WorkerStarts, WorkerEnds
  <2>2. FramesFollow => FramesFollow'
    BY <1>2, <2>1 DEF FramesFollow
  <2> QED BY <1>1, <2>1, <2>2 DEF FramesInLine, Stale
<1>5. CASE WorkerEmits
  <2> DEFINE e == [kind |-> "audio", seq |-> produced]
  <2>1. worker = "running" /\ produced' = produced + 1 /\ out' = Append(out, e)
    BY <1>5 DEF WorkerEmits
  <2>2. e \in Chunk /\ e.seq = produced
    BY <1>3 DEF Chunk
  <2> HIDE DEF e
  <2>3. /\ out' \in Seq(Chunk) /\ Len(out') = Len(out) + 1 /\ out'[Len(out) + 1] = e
        /\ \A i \in 1..Len(out) : out'[i] = out[i]
    BY <1>3, <2>1, <2>2, AppendProperties
  <2>4. ASSUME FramesFollow PROVE FramesFollow'
    <3>1. produced = Upcoming + Len(out)
      BY <2>1, <2>4 DEF FramesFollow
    <3>2. produced' = Upcoming' + Len(out')
      BY <1>2, <1>3, <2>1, <2>3, <3>1
    <3>3. \A i \in 1..Len(out') : out'[i].kind = "audio" => out'[i].seq = Upcoming' + i - 1
      <4> TAKE i \in 1..Len(out')
      <4>1. CASE i \in 1..Len(out)
        BY <1>2, <2>3, <2>4, <4>1 DEF FramesFollow
      <4>2. CASE i = Len(out) + 1
        BY <1>2, <1>3, <2>2, <2>3, <3>1, <4>2
      <4> QED BY <1>3, <2>3, <4>1, <4>2
    <3> QED BY <3>2, <3>3 DEF FramesFollow
  <2> QED BY <1>1, <1>3, <2>1, <2>3, <2>4 DEF FramesInLine, Stale
<1>6. CASE \E kind \in {"done", "error"} : WorkerReports(kind)
  <2>1. PICK kind \in {"done", "error"} : WorkerReports(kind)
    BY <1>6
  <2> DEFINE e == [kind |-> kind, seq |-> produced]
  <2>2. worker' = "closing" /\ produced' = produced /\ out' = Append(out, e)
    BY <2>1 DEF WorkerReports
  <2>3. e \in Chunk /\ e.kind # "audio"
    BY <1>3 DEF Chunk
  <2> HIDE DEF e
  <2>4. /\ out' \in Seq(Chunk) /\ Len(out') = Len(out) + 1 /\ out'[Len(out) + 1] = e
        /\ \A i \in 1..Len(out) : out'[i] = out[i]
    BY <1>3, <2>2, <2>3, AppendProperties
  <2>5. ASSUME FramesFollow PROVE FramesFollow'
    <3>1. \A i \in 1..Len(out') : out'[i].kind = "audio" => i \in 1..Len(out)
      BY <1>3, <2>3, <2>4
    <3> QED BY <1>2, <2>2, <2>4, <2>5, <3>1 DEF FramesFollow
  <2> QED BY <1>1, <1>3, <2>2, <2>4, <2>5 DEF FramesInLine, Stale
<1> QED BY <1>4, <1>5, <1>6 DEF WorkerNext


-----------------------------------------------------------------------------
(* The text that is on its way to the synthesizer: in the order in which   *)
(* the segmenter cut it, between what the client was told of and what the  *)
(* segmenter has still to cut.  Items of an earlier generation do not count. *)
Fresh(it, g) == it.kind # "stop" /\ it.gen = g

(* What begins where the text up to h ends, or with the cue that ends at h. *)
Behind(h, it) == h <= it.lo \/ (it.kind = "word" /\ h \in Cues /\ h = it.lo + 1)

Placed(it, g, a, b) ==
  /\ it \in Item /\ it.gen <= g
  /\ Fresh(it, g) =>
       /\ Behind(a, it) /\ it.hi <= b
       /\ IF it.kind = "end" THEN it.lo = it.hi ELSE it.lo < it.hi

Succeeds(x, y, g) == Fresh(x, g) /\ Fresh(y, g) => Behind(x.hi, y)

Ordered(q, g, a, b) ==
  /\ q \in Seq(Item)
  /\ \A i \in 1..Len(q) : Placed(q[i], g, a, b)
  /\ \A i, j \in 1..Len(q) : i < j => Succeeds(q[i], q[j], g)

LEMMA ItemFields ==
  ASSUME NEW it \in Item
  PROVE  it.gen \in Nat /\ it.lo \in Nat /\ it.hi \in Nat
         /\ it.kind \in {"word", "mark", "end", "stop"}
BY DEF Item

LEMMA PlacedFurther ==
  ASSUME NEW it, NEW g, NEW a \in Nat, NEW b \in Nat, NEW c \in Nat, NEW d \in Nat,
         Placed(it, g, a, b), c <= a, b <= d
  PROVE  Placed(it, g, c, d)
BY ItemFields DEF Placed, Behind

LEMMA OrderedJoin ==
  ASSUME NEW s \in Seq(Item), NEW t \in Seq(Item), NEW g, NEW a, NEW b
  PROVE  Ordered(s \o t, g, a, b) <=>
           /\ Ordered(s, g, a, b) /\ Ordered(t, g, a, b)
           /\ \A i \in 1..Len(s), j \in 1..Len(t) : Succeeds(s[i], t[j], g)
<1> DEFINE q == s \o t
<1>1. /\ q \in Seq(Item) /\ Len(q) = Len(s) + Len(t) /\ Len(s) \in Nat /\ Len(t) \in Nat
      /\ \A i \in 1..Len(s) + Len(t) : q[i] = IF i <= Len(s) THEN s[i] ELSE t[i - Len(s)]
  BY ConcatProperties, LenProperties
<1> HIDE DEF q
<1>2. \A i \in 1..Len(s) : i \in 1..Len(q) /\ q[i] = s[i]
  BY <1>1
<1>3. ASSUME NEW j \in 1..Len(t)
      PROVE  j + Len(s) \in 1..Len(q) /\ q[j + Len(s)] = t[j]
  <2>1. /\ j + Len(s) \in 1..Len(s) + Len(t) /\ ~(j + Len(s) <= Len(s))
        /\ (j + Len(s)) - Len(s) = j
    BY <1>1
  <2> QED BY <1>1, <2>1
<1>4. \A i \in 1..Len(q) : \/ i \in 1..Len(s) /\ q[i] = s[i]
                           \/ i - Len(s) \in 1..Len(t) /\ q[i] = t[i - Len(s)] /\ i > Len(s)
  BY <1>1
<1>5. ASSUME Ordered(q, g, a, b)
      PROVE  /\ Ordered(s, g, a, b) /\ Ordered(t, g, a, b)
             /\ \A i \in 1..Len(s), j \in 1..Len(t) : Succeeds(s[i], t[j], g)
  <2>1. Ordered(s, g, a, b)
    BY <1>2, <1>5 DEF Ordered
  <2>2. Ordered(t, g, a, b)
    <3>1. \A i, j \in 1..Len(t) : i < j => i + Len(s) < j + Len(s)
      BY <1>1
    <3> QED BY <1>3, <1>5, <3>1 DEF Ordered
  <2>3. ASSUME NEW i \in 1..Len(s), NEW j \in 1..Len(t) PROVE Succeeds(s[i], t[j], g)
    <3>1. i < j + Len(s)
      BY <1>1
    <3> QED BY <1>2, <1>3, <1>5, <3>1 DEF Ordered
  <2> QED BY <2>1, <2>2, <2>3
<1>6. ASSUME Ordered(s, g, a, b), Ordered(t, g, a, b),
             \A i \in 1..Len(s), j \in 1..Len(t) : Succeeds(s[i], t[j], g)
      PROVE  Ordered(q, g, a, b)
  <2>1. \A i \in 1..Len(q) : Placed(q[i], g, a, b)
    BY <1>4, <1>6 DEF Ordered
  <2>2. ASSUME NEW i \in 1..Len(q), NEW j \in 1..Len(q), i < j
        PROVE  Succeeds(q[i], q[j], g)
    <3>1. CASE i \in 1..Len(s) /\ q[i] = s[i] /\ j \in 1..Len(s) /\ q[j] = s[j]
      BY <1>6, <2>2, <3>1 DEF Ordered
    <3>2. CASE i \in 1..Len(s) /\ q[i] = s[i]
               /\ j - Len(s) \in 1..Len(t) /\ q[j] = t[j - Len(s)]
      BY <1>6, <3>2
    <3>3. CASE /\ i - Len(s) \in 1..Len(t) /\ q[i] = t[i - Len(s)]
               /\ j - Len(s) \in 1..Len(t) /\ q[j] = t[j - Len(s)]
      <4>1. i - Len(s) < j - Len(s)
        BY <1>1, <2>2
      <4> QED BY <1>6, <3>3, <4>1 DEF Ordered
    <3>4. ~(i > Len(s) /\ j \in 1..Len(s))
      BY <1>1, <2>2
    <3> QED BY <1>4, <3>1, <3>2, <3>3, <3>4
  <2> QED BY <1>1, <2>1, <2>2 DEF Ordered
<1> QED BY <1>5, <1>6 DEF q

(* What lies behind a position goes after what lies before it.             *)
LEMMA OrderedAdd ==
  ASSUME NEW s, NEW t, NEW g, NEW a \in Nat, NEW b \in Nat, NEW c \in Nat,
         Ordered(s, g, a, b), Ordered(t, g, b, c), a <= b, b <= c
  PROVE  Ordered(s \o t, g, a, c)
<1>1. /\ s \in Seq(Item) /\ t \in Seq(Item)
      /\ \A i \in 1..Len(s) : Placed(s[i], g, a, b)
      /\ \A j \in 1..Len(t) : Placed(t[j], g, b, c)
  BY DEF Ordered
<1>2. Ordered(s, g, a, c)
  <2>1. a <= a
    OBVIOUS
  <2>2. \A i \in 1..Len(s) : Placed(s[i], g, a, c)
    BY <1>1, <2>1, PlacedFurther
  <2> QED BY <2>2 DEF Ordered
<1>3. Ordered(t, g, a, c)
  <2>1. c <= c
    OBVIOUS
  <2>2. \A i \in 1..Len(t) : Placed(t[i], g, a, c)
    BY <1>1, <2>1, PlacedFurther
  <2> QED BY <2>2 DEF Ordered
<1>4. ASSUME NEW i \in 1..Len(s), NEW j \in 1..Len(t) PROVE Succeeds(s[i], t[j], g)
  <2>1. /\ s[i] \in Item /\ t[j] \in Item
        /\ Fresh(s[i], g) => s[i].hi <= b
        /\ Fresh(t[j], g) => Behind(b, t[j])
    BY <1>1 DEF Placed
  <2>2. s[i].hi \in Nat /\ t[j].lo \in Nat
    BY <2>1, ItemFields
  <2> QED BY <2>1, <2>2 DEF Succeeds, Behind
<1> QED BY <1>1, <1>2, <1>3, <1>4, OrderedJoin

LEMMA OrderedTail ==
  ASSUME NEW q, NEW g, NEW a, NEW b, Ordered(q, g, a, b), q # <<>>
  PROVE  /\ Placed(Head(q), g, a, b) /\ Ordered(Tail(q), g, a, b)
         /\ Fresh(Head(q), g) => Ordered(Tail(q), g, Head(q).hi, b)
<1> DEFINE t == Tail(q)
<1>1. /\ q \in Seq(Item) /\ Len(q) \in Nat /\ Len(q) # 0 /\ Head(q) = q[1]
      /\ t \in Seq(Item) /\ Len(t) = Len(q) - 1
      /\ \A i \in 1..Len(t) : t[i] = q[i + 1]
  BY EmptySeq, HeadTailProperties, LenProperties DEF Ordered
<1> HIDE DEF t
<1>2. 1 \in 1..Len(q) /\ \A i \in 1..Len(t) : i + 1 \in 1..Len(q) /\ 1 < i + 1
  BY <1>1
<1>3. Placed(Head(q), g, a, b)
  BY <1>1, <1>2 DEF Ordered
<1>4. /\ \A i \in 1..Len(t) : Placed(t[i], g, a, b) /\ Succeeds(Head(q), t[i], g)
      /\ \A i, j \in 1..Len(t) : i < j => Succeeds(t[i], t[j], g)
  <2>1. \A i, j \in 1..Len(t) : i < j => i + 1 < j + 1
    BY <1>1
  <2> QED BY <1>1, <1>2, <2>1 DEF Ordered
<1>5. Ordered(t, g, a, b)
  BY <1>1, <1>4 DEF Ordered
<1>6. ASSUME Fresh(Head(q), g) PROVE Ordered(t, g, Head(q).hi, b)
  <2>1. \A i \in 1..Len(t) : Placed(t[i], g, Head(q).hi, b)
    BY <1>4, <1>6 DEF Placed, Succeeds, Behind
  <2> QED BY <1>1, <1>4, <2>1 DEF Ordered
<1> QED BY <1>3, <1>5, <1>6 DEF t

(* In the next generation nothing of it counts.                            *)
LEMMA OrderedStale ==
  ASSUME NEW q, NEW g \in Nat, NEW a, NEW b, Ordered(q, g, a, b), NEW c, NEW d
  PROVE  Ordered(q, g + 1, c, d)
<1>1. \A i \in 1..Len(q) : ~Fresh(q[i], g + 1) /\ Placed(q[i], g + 1, c, d)
  BY ItemFields DEF Ordered, Placed, Fresh
<1> QED BY <1>1 DEF Ordered, Succeeds, Behind

LEMMA TailOfConcat ==
  ASSUME NEW S, NEW s \in Seq(S), s # <<>>, NEW t \in Seq(S)
  PROVE  s \o t # <<>> /\ Head(s \o t) = Head(s) /\ Tail(s \o t) = Tail(s) \o t
<1> DEFINE q == s \o t
           r == Tail(s) \o t
<1>1. /\ q \in Seq(S) /\ Len(q) = Len(s) + Len(t) /\ Len(s) \in Nat /\ Len(t) \in Nat
      /\ \A i \in 1..Len(s) + Len(t) : q[i] = IF i <= Len(s) THEN s[i] ELSE t[i - Len(s)]
  BY ConcatProperties, LenProperties
<1>2. Len(s) # 0 /\ Tail(s) \in Seq(S) /\ Len(Tail(s)) = Len(s) - 1
      /\ \A i \in 1..Len(Tail(s)) : Tail(s)[i] = s[i + 1]
  BY EmptySeq, HeadTailProperties
<1>3. /\ r \in Seq(S) /\ Len(r) = Len(Tail(s)) + Len(t)
      /\ \A i \in 1..Len(Tail(s)) + Len(t) :
           r[i] = IF i <= Len(Tail(s)) THEN Tail(s)[i] ELSE t[i - Len(Tail(s))]
  BY <1>2, ConcatProperties
<1> HIDE DEF q, r
<1>4. q # <<>> /\ Head(q) = q[1] /\ Head(s) = s[1]
  BY <1>1, <1>2, EmptySeq
<1>5. q[1] = s[1]
  BY <1>1, <1>2
<1>6. /\ Tail(q) \in Seq(S) /\ Len(Tail(q)) = Len(q) - 1
      /\ \A i \in 1..Len(Tail(q)) : Tail(q)[i] = q[i + 1]
  BY <1>1, <1>4, HeadTailProperties
<1>7. Len(Tail(q)) = Len(r)
  BY <1>1, <1>2, <1>3, <1>6
<1>8. \A i \in 1..Len(Tail(q)) : Tail(q)[i] = r[i]
  <2> TAKE i \in 1..Len(Tail(q))
  <2>1. Tail(q)[i] = q[i + 1]
    BY <1>6
  <2>2. CASE i <= Len(Tail(s))
    BY <1>1, <1>2, <1>3, <1>6, <1>7, <2>1, <2>2
  <2>3. CASE i > Len(Tail(s))
    <3>1. i + 1 > Len(s) /\ i + 1 \in 1..Len(s) + Len(t) /\ i + 1 - Len(s) = i - Len(Tail(s))
      BY <1>1, <1>2, <1>6, <2>3
    <3>2. q[i + 1] = t[i - Len(Tail(s))]
      BY <1>1, <3>1
    <3>3. r[i] = t[i - Len(Tail(s))]
      BY <1>1, <1>2, <1>3, <1>7, <2>3
    <3> QED BY <2>1, <3>2, <3>3
  <2> QED BY <1>2, <1>6, <1>1, <2>2, <2>3
<1>9. Tail(q) = r
  BY <1>3, <1>6, <1>7, <1>8, SeqEqual
<1> QED BY <1>4, <1>5, <1>9 DEF q, r


-----------------------------------------------------------------------------
(* From the segmenter's batch to the item that waits for flow.             *)
Waits == IF spc = "waiting" THEN <<item>> ELSE <<>>
Line  == (Waits \o segQ) \o batch

(* How far the client is told of the text, once it hears all that is said. *)
Reached ==
  IF FromSyn.kind \in Announces /\ FromSyn.gen = generation THEN FromSyn.n ELSE Now

(* The text is cut up to e: what is pending begins there, or with the cue   *)
(* that ends there.                                                        *)
CutTo(e) ==
  /\ Reached <= e /\ pending.lo <= e /\ e <= pending.hi
  /\ e = pending.lo \/ (e \in Cues /\ e = pending.lo + 1)
  /\ Ordered(Line, generation, Reached, e)

TextInOrder == \E e \in Nat : CutTo(e)

LEMMA LineTyped ==
  ASSUME SpeechTypes
  PROVE  Waits \in Seq(Item) /\ segQ \in Seq(Item) /\ batch \in Seq(Item)
         /\ Waits \o segQ \in Seq(Item) /\ Line \in Seq(Item)
<1>1. Waits \in Seq(Item) /\ segQ \in Seq(Item) /\ batch \in Seq(Item)
  BY DEF SpeechTypes, Waits
<1> QED BY <1>1, ConcatProperties DEF Line

LEMMA SaidTyped ==
  ASSUME NEW q, Lined(q), NEW w
  PROVE  /\ EventOf(q, w).kind \in EventKind /\ EventOf(q, w).gen \in Nat
         /\ EventOf(q, w).id \in Nat /\ EventOf(q, w).n \in Nat
<1>1. /\ Reply.kind \in EventKind /\ Reply.gen \in Nat /\ Reply.id \in Nat /\ Reply.n \in Nat
  BY EventFields DEF Reply, EventKind
<1>2. \A c \in SendCall : /\ c.ev.kind \in EventKind /\ c.ev.gen \in Nat
                          /\ c.ev.id \in Nat /\ c.ev.n \in Nat
  BY DEF SendCall, EventKind
<1>3. EventOf(q, w) = Reply \/ \E c \in SendCall : EventOf(q, w) = c.ev
  <2>1. CASE q = <<>>
    BY <2>1, EmptySeq DEF EventOf
  <2>2. CASE Len(q) = 1 /\ q[1] \in SendCall
    BY <2>2 DEF EventOf
  <2>3. CASE Len(q) = 2 /\ q[1] \in SendCall /\ q[2] \in SendCall
    BY <2>3 DEF EventOf
  <2> QED BY <2>1, <2>2, <2>3, LineCases
<1> QED BY <1>1, <1>2, <1>3

LEMMA ReachedTyped ==
  ASSUME Honest
  PROVE  Reached \in Nat /\ Now \in Nat
BY SaidTyped, Numbers DEF Honest, CallsInLine, FromSyn, Reached, Now

(* An item is announced for the generation that the synthesizer works at.  *)
LEMMA AnnouncedItem ==
  ASSUME Honest, FromSyn.kind \in Announces
  PROVE  /\ spc \in {"told", "announce"} /\ FromSyn.gen = item.gen /\ FromSyn.n = item.hi
         /\ item.gen <= generation /\ CutThen = item.gen
<1>1. FromSyn.kind # "reply"
  BY DEF Announces
<1>2. spc \in Telling
  BY <1>1, SaysSomething DEF Honest, CallsInLine, FromSyn
<1>3. spc \in {"told", "announce"}
  BY <1>2 DEF Honest, SynHonest, Telling, DeltaHonest, DoneHonest, Announces
<1> QED BY <1>3 DEF Honest, SynHonest, ToldHonest, CreatedHonest, Timely

LEMMA ReachedKept ==
  ASSUME FromReader' = FromReader, FromSyn' = FromSyn, generation' = generation, pos' = pos
  PROVE  Reached' = Reached
BY DEF Reached, Now

(* Silence and what is no announcement leave the text where it is.         *)
LEMMA ReachedPast ==
  ASSUME FromReader' = FromReader, FromSyn.kind \notin Announces, FromSyn'.kind \notin Announces,
         pos' = pos
  PROVE  Reached' = Reached
BY DEF Reached, Now

LEMMA TextKept ==
  ASSUME TextInOrder, Line' = Line, Reached' = Reached, UNCHANGED <<generation, pending>>
  PROVE  TextInOrder'
<1>1. PICK e \in Nat : CutTo(e)
  BY DEF TextInOrder
<1>2. CutTo(e)'
  BY <1>1 DEF CutTo, Ordered, Placed, Succeeds, Behind, Fresh
<1> QED BY <1>2 DEF TextInOrder

(* An item leaves the line unannounced.                                    *)
LEMMA TextDropped ==
  ASSUME TextInOrder, Line # <<>>, Line' = Tail(Line), Reached' = Reached,
         UNCHANGED <<generation, pending>>
  PROVE  TextInOrder'
<1>1. PICK e \in Nat : CutTo(e)
  BY DEF TextInOrder
<1>2. Ordered(Tail(Line), generation, Reached, e)
  BY <1>1, OrderedTail DEF CutTo
<1>3. CutTo(e)'
  BY <1>1, <1>2 DEF CutTo, Ordered, Placed, Succeeds, Behind, Fresh
<1> QED BY <1>3 DEF TextInOrder

(* What an item that is announced now brings.                              *)
LEMMA TextAhead ==
  ASSUME Honest, NEW e \in Nat, CutTo(e), Line # <<>>, Fresh(Head(Line), generation),
         FromSyn.kind \notin Announces
  PROVE  /\ Head(Line) \in Item
         /\ Further(Now, Head(Line))
         /\ Head(Line).hi <= e
         /\ Ordered(Tail(Line), generation, Head(Line).hi, e)
<1>1. Placed(Head(Line), generation, Reached, e)
      /\ Ordered(Tail(Line), generation, Head(Line).hi, e)
  BY OrderedTail DEF CutTo
<1>2. Reached = Now /\ Now \in Nat
  BY ReachedTyped DEF Reached
<1>3. Head(Line) \in Item /\ Head(Line).lo \in Nat /\ Head(Line).hi \in Nat
  BY <1>1, ItemFields DEF Placed
<1>4. /\ Behind(Now, Head(Line)) /\ Head(Line).hi <= e
      /\ IF Head(Line).kind = "end" THEN Head(Line).lo = Head(Line).hi
                                    ELSE Head(Line).lo < Head(Line).hi
  BY <1>1, <1>2 DEF Placed
<1>5. Further(Now, Head(Line))
  BY <1>2, <1>3, <1>4 DEF Further, Behind
<1> QED BY <1>1, <1>3, <1>4, <1>5

LEMMA TextTaken ==
  ASSUME Honest, TextInOrder, Line # <<>>, Fresh(Head(Line), generation),
         FromSyn.kind \notin Announces, Line' = Tail(Line), UNCHANGED <<generation, pending>>,
         FromSyn'.kind \in Announces, FromSyn'.gen = generation, FromSyn'.n = Head(Line).hi
  PROVE  TextInOrder'
<1>1. PICK e \in Nat : CutTo(e)
  BY DEF TextInOrder
<1>2. Head(Line).hi <= e /\ Ordered(Tail(Line), generation, Head(Line).hi, e)
  BY <1>1, TextAhead
<1>3. Reached' = Head(Line).hi
  BY DEF Reached
<1>4. Ordered(Line', generation', Reached', e)
  BY <1>2, <1>3
<1>5. CutTo(e)'
  BY <1>1, <1>2, <1>3, <1>4 DEF CutTo, Ordered, Placed, Succeeds, Behind, Fresh
<1> QED BY <1>5 DEF TextInOrder

LEMMA LineSame ==
  ASSUME UNCHANGED <<segQ, batch>>, (spc' = "waiting") <=> (spc = "waiting"),
         spc = "waiting" => item' = item
  PROVE  Line' = Line
BY DEF Line, Waits

LEMMA LineFromQueue ==
  ASSUME SpeechTypes, SpeechTypes', spc = "get", spc' # "waiting", segQ # <<>>,
         segQ' = Tail(segQ), batch' = batch
  PROVE  Line # <<>> /\ Head(Line) = Head(segQ) /\ Line' = Tail(Line)
<1>1. Waits = <<>> /\ Waits' = <<>>
  BY DEF Waits
<1>2. segQ \in Seq(Item) /\ batch \in Seq(Item) /\ Tail(segQ) \in Seq(Item)
  BY LineTyped, HeadTailProperties
<1>3. Line = segQ \o batch /\ Line' = Tail(segQ) \o batch
  BY <1>1, <1>2, ConcatEmptySeq DEF Line
<1> QED BY <1>2, <1>3, TailOfConcat

LEMMA Unit ==
  ASSUME NEW S, NEW x \in S, NEW t \in Seq(S)
  PROVE  <<x>> \o t # <<>> /\ Head(<<x>> \o t) = x /\ Tail(<<x>> \o t) = t
<1>1. <<x>> \in Seq(S) /\ <<x>> # <<>> /\ Head(<<x>>) = x /\ Tail(<<x>>) = <<>>
  OBVIOUS
<1> QED BY <1>1, TailOfConcat, ConcatEmptySeq

LEMMA LineToWait ==
  ASSUME SpeechTypes, SpeechTypes', spc = "get", spc' = "waiting", segQ # <<>>,
         item' = Head(segQ), segQ' = Tail(segQ), batch' = batch
  PROVE  Line' = Line
<1>1. Waits = <<>> /\ Waits' = <<Head(segQ)>>
  BY DEF Waits
<1>2. segQ \in Seq(Item) /\ batch \in Seq(Item) /\ Tail(segQ) \in Seq(Item)
      /\ Head(segQ) \in Item /\ segQ' \in Seq(Item)
  BY LineTyped, HeadTailProperties
<1>3. <<Head(segQ)>> \o Tail(segQ) = segQ
  <2> DEFINE r == <<Head(segQ)>> \o Tail(segQ)
  <2>1. r \in Seq(Item) /\ r # <<>> /\ Head(r) = Head(segQ) /\ Tail(r) = Tail(segQ)
    BY <1>2, Unit, ConcatProperties
  <2> HIDE DEF r
  <2>2. /\ Len(r) \in Nat /\ Len(segQ) \in Nat /\ Len(r) # 0 /\ Len(segQ) # 0
        /\ Head(r) = r[1] /\ Head(segQ) = segQ[1]
        /\ Len(Tail(r)) = Len(r) - 1 /\ Len(Tail(segQ)) = Len(segQ) - 1
        /\ \A i \in 1..Len(Tail(r)) : Tail(r)[i] = r[i + 1]
        /\ \A i \in 1..Len(Tail(segQ)) : Tail(segQ)[i] = segQ[i + 1]
    BY <1>2, <2>1, EmptySeq, HeadTailProperties
  <2>3. Len(r) = Len(segQ)
    <3>1. Len(Tail(r)) = Len(Tail(segQ))
      BY <2>1
    <3>2. Len(r) - 1 = Len(segQ) - 1 /\ Len(r) \in Nat /\ Len(segQ) \in Nat
      BY <2>2, <3>1
    <3>3. \A a, b \in Nat : a - 1 = b - 1 => a = b
      OBVIOUS
    <3> QED BY <3>2, <3>3
  <2>4. \A i \in 1..Len(r) : r[i] = segQ[i]
    <3> TAKE i \in 1..Len(r)
    <3>1. CASE i = 1
      BY <2>1, <2>2, <3>1
    <3>2. CASE i # 1
      <4>1. i - 1 \in 1..Len(Tail(r)) /\ (i - 1) + 1 = i
        BY <2>2, <3>2
      <4> QED BY <2>1, <2>2, <4>1
    <3> QED BY <3>1, <3>2
  <2> QED BY <1>2, <2>1, <2>3, <2>4, SeqEqual DEF r
<1>4. Waits' \o segQ' = segQ /\ Waits \o segQ = segQ
  BY <1>1, <1>2, <1>3, ConcatEmptySeq
<1> QED BY <1>4 DEF Line

LEMMA LineFromWait ==
  ASSUME SpeechTypes, SpeechTypes', spc = "waiting", spc' # "waiting", UNCHANGED <<segQ, batch>>
  PROVE  Line # <<>> /\ Head(Line) = item /\ Line' = Tail(Line)
<1>1. Waits = <<item>> /\ Waits' = <<>>
  BY DEF Waits
<1>2. item \in Item /\ segQ \in Seq(Item) /\ batch \in Seq(Item) /\ <<item>> \in Seq(Item)
  BY LineTyped, <1>1 DEF SpeechTypes
<1>3. segQ \o batch \in Seq(Item)
  BY <1>2, ConcatProperties
<1>4. Line = <<item>> \o (segQ \o batch) /\ Line' = segQ \o batch
  BY <1>1, <1>2, ConcatAssociative, ConcatEmptySeq DEF Line
<1> QED BY <1>2, <1>3, <1>4, Unit

LEMMA LinePut ==
  ASSUME SpeechTypes, SegPut
  PROVE  Line' = Line
<1> DEFINE room == MaxSegments - Len(segQ)
           n == IF Len(batch) < room THEN Len(batch) ELSE room
           first == SubSeq(batch, 1, n)
           rest == SubSeq(batch, n + 1, Len(batch))
<1>1. /\ segQ' = segQ \o first /\ batch' = rest /\ UNCHANGED <<spc, item>>
      /\ batch # <<>> /\ Len(segQ) < MaxSegments
  BY DEF SegPut, voiceVars, respVars, synVars
<1>2. Waits \in Seq(Item) /\ segQ \in Seq(Item) /\ batch \in Seq(Item) /\ Waits' = Waits
  BY <1>1, LineTyped DEF Waits
<1>3. Len(segQ) \in Nat /\ Len(batch) \in Nat /\ MaxSegments \in Nat
  BY <1>2, LenProperties, LimitAssumption
<1>4. n \in 0..Len(batch)
  BY <1>1, <1>3
<1> HIDE DEF n
<1>5. first \o rest = batch
  <2>1. /\ 1 \in 1..Len(batch) + 1 /\ n \in 1 - 1..Len(batch) /\ Len(batch) \in n..Len(batch)
    BY <1>3, <1>4
  <2>2. first \o rest = SubSeq(batch, 1, Len(batch))
    BY <1>2, <2>1, ConcatAdjacentSubSeq
  <2> QED BY <1>2, <2>2, SubSeqFull
<1>6. first \in Seq(Item) /\ rest \in Seq(Item)
  <2>1. \A i \in 1..n : batch[i] \in Item
    BY <1>2, <1>3, <1>4, ElementOfSeq
  <2>2. \A i \in n + 1..Len(batch) : batch[i] \in Item
    BY <1>2, <1>3, <1>4, ElementOfSeq
  <2>3. 1 \in Int /\ n \in Int /\ n + 1 \in Int /\ Len(batch) \in Int
    BY <1>3, <1>4
  <2>4. first \in Seq(Item)
    BY <2>1, <2>3, SubSeqProperties
  <2>5. rest \in Seq(Item)
    BY <2>2, <2>3, SubSeqProperties
  <2> QED BY <2>4, <2>5
<1> HIDE DEF first, rest
<1>7. (Waits \o segQ) \o first = Waits \o (segQ \o first)
  <2>1. Waits \in Seq(Item) /\ segQ \in Seq(Item) /\ first \in Seq(Item)
    BY <1>2, <1>6
  <2> QED BY <2>1, ConcatAssociative
<1>8. Waits \o segQ \in Seq(Item)
  BY <1>2, ConcatProperties
<1>9. ((Waits \o segQ) \o first) \o rest = (Waits \o segQ) \o (first \o rest)
  BY <1>6, <1>8, ConcatAssociative
<1> QED BY <1>1, <1>2, <1>5, <1>7, <1>9 DEF Line


-----------------------------------------------------------------------------
(* What the segmenter reads: the position of a commit is that of the text  *)
(* before it, and updated settings find no text.                           *)
InputInOrder ==
  /\ accepted = pending.hi + buffered
  /\ \A i \in 1..Len(inputQ) :
       inputQ[i].act = "commit" => inputQ[i].n = pending.hi + Chars(SubSeq(inputQ, 1, i))
  /\ rpc = "updating" => accepted = 0

LEMMA PendingTyped ==
  ASSUME SpeechTypes
  PROVE  pending.lo \in Nat /\ pending.hi \in Nat
BY DEF SpeechTypes

LEMMA InputKept ==
  ASSUME InputInOrder, UNCHANGED <<inputQ, accepted, buffered, pending>>,
         rpc' = "updating" => rpc = "updating" \/ accepted = 0
  PROVE  InputInOrder'
BY DEF InputInOrder

LEMMA InputForgotten ==
  ASSUME inputQ' = <<>>, accepted' = 0, buffered' = 0, pending' = [lo |-> 0, hi |-> 0]
  PROVE  InputInOrder'
<1>1. Len(inputQ') = 0
  BY EmptySeq
<1> QED BY <1>1 DEF InputInOrder

LEMMA InputAppended ==
  ASSUME GaugeInv, SpeechTypes, InputInOrder, NEW e \in Input, inputQ' = Append(inputQ, e),
         accepted' = accepted + CharsOf(e), buffered' = buffered + CharsOf(e),
         pending' = pending, e.act = "commit" => e.n = accepted,
         rpc' = "updating" => rpc = "updating" /\ accepted' = accepted
  PROVE  InputInOrder'
<1>1. /\ inputQ \in Seq(Input) /\ buffered \in Nat /\ accepted \in Nat /\ pending.hi \in Nat
      /\ buffered = Chars(inputQ) /\ \A x \in Input : x.n \in Nat
  BY PendingTyped, InputSized DEF GaugeInv
<1>2. CharsOf(e) \in Nat /\ (e.act = "commit" => CharsOf(e) = 0)
  BY <1>1 DEF CharsOf
<1>3. Chars(Append(inputQ, e)) = buffered + CharsOf(e)
  BY <1>1, CharsAppend
<1>4. /\ Append(inputQ, e) \in Seq(Input) /\ Len(Append(inputQ, e)) = Len(inputQ) + 1
      /\ \A i \in 1..Len(inputQ) : Append(inputQ, e)[i] = inputQ[i]
      /\ Append(inputQ, e)[Len(inputQ) + 1] = e /\ Len(inputQ) \in Nat
  BY <1>1, AppendProperties, LenProperties
<1>5. ASSUME NEW i \in 1..Len(inputQ)
      PROVE  SubSeq(Append(inputQ, e), 1, i) = SubSeq(inputQ, 1, i)
  <2>1. Append(inputQ, e) = inputQ \o <<e>> /\ <<e>> \in Seq(Input)
    BY <1>1, AppendIsConcat
  <2>2. 1 \in 1..Len(inputQ)
    BY <1>4
  <2> QED BY <1>1, <2>1, <2>2, SubSeqOfConcat1
<1>6. SubSeq(Append(inputQ, e), 1, Len(inputQ) + 1) = Append(inputQ, e)
  BY <1>4, SubSeqFull
<1>7. \A i \in 1..Len(inputQ') : inputQ'[i].act = "commit" =>
        inputQ'[i].n = pending'.hi + Chars(SubSeq(inputQ', 1, i))
  <2> TAKE i \in 1..Len(inputQ')
  <2>1. CASE i \in 1..Len(inputQ)
    BY <1>4, <1>5, <2>1 DEF InputInOrder
  <2>2. CASE i = Len(inputQ) + 1
    <3>1. inputQ'[i] = e /\ SubSeq(inputQ', 1, i) = Append(inputQ, e)
      BY <1>4, <1>6, <2>2
    <3>2. ASSUME e.act = "commit" PROVE e.n = pending.hi + (buffered + CharsOf(e))
      BY <1>1, <1>2, <3>2 DEF InputInOrder
    <3> QED BY <1>3, <3>1, <3>2
  <2> QED BY <1>4, <2>1, <2>2
<1>8. accepted' = pending'.hi + buffered'
  BY <1>1, <1>2 DEF InputInOrder
<1>9. rpc' = "updating" => accepted' = 0
  BY DEF InputInOrder
<1> QED BY <1>7, <1>8, <1>9 DEF InputInOrder

LEMMA InputRead ==
  ASSUME GaugeInv, SpeechTypes, InputInOrder, inputQ # <<>>, inputQ' = Tail(inputQ),
         UNCHANGED <<rpc, accepted>>, buffered' = buffered - CharsOf(Head(inputQ)),
         pending'.hi = pending.hi + CharsOf(Head(inputQ))
  PROVE  /\ InputInOrder'
         /\ Head(inputQ).act = "commit" => Head(inputQ).n = pending.hi
<1> DEFINE c == CharsOf(Head(inputQ))
           t == Tail(inputQ)
<1>1. /\ inputQ \in Seq(Input) /\ buffered \in Nat /\ accepted \in Nat /\ pending.hi \in Nat
      /\ \A x \in Input : x.n \in Nat
  BY PendingTyped, InputSized DEF GaugeInv
<1>2. /\ Head(inputQ) \in Input /\ t \in Seq(Input) /\ Len(t) = Len(inputQ) - 1
      /\ \A i \in 1..Len(t) : t[i] = inputQ[i + 1]
      /\ Len(inputQ) \in Nat /\ Len(inputQ) # 0 /\ Head(inputQ) = inputQ[1]
  BY <1>1, EmptySeq, HeadTailProperties, LenProperties
<1>3. c \in Nat
  BY <1>1, <1>2 DEF CharsOf
<1>4. ASSUME NEW i \in 1..Len(inputQ)
      PROVE  Chars(SubSeq(inputQ, 1, i)) = c + Chars(SubSeq(inputQ, 2, i))
             /\ Chars(SubSeq(inputQ, 2, i)) \in Nat
  <2> DEFINE q == SubSeq(inputQ, 1, i)
  <2>1. 1 \in 1..Len(inputQ) /\ i \in 1..Len(inputQ) /\ 1 \in Int /\ i \in Int
        /\ \A j \in 1..i : inputQ[j] \in Input
    BY <1>1, <1>2, ElementOfSeq
  <2>2. q \in Seq(Input) /\ Len(q) = i
    BY <2>1, SubSeqProperties
  <2>3. Head(q) = inputQ[1] /\ Tail(q) = SubSeq(inputQ, 1 + 1, i)
    BY <1>1, <2>1, HeadTailOfSubSeq
  <2>4. q # <<>>
    BY <2>1, <2>2, EmptySeq
  <2> HIDE DEF q
  <2>5. Chars(q) = CharsOf(Head(q)) + Chars(Tail(q)) /\ Chars(Tail(q)) \in Nat
    BY <1>1, <2>2, <2>4, CharsTail
  <2>6. Tail(q) = SubSeq(inputQ, 2, i) /\ CharsOf(Head(q)) = c
    BY <1>2, <2>3
  <2> QED BY <2>5, <2>6 DEF q
<1>5. ASSUME NEW i \in 1..Len(t)
      PROVE  SubSeq(t, 1, i) = SubSeq(inputQ, 2, i + 1)
  <2>1. t = SubSeq(inputQ, 2, Len(inputQ))
    BY <1>1, TailIsSubSeq
  <2>2. /\ 2 \in 1..Len(inputQ) /\ Len(inputQ) \in 1..Len(inputQ)
        /\ 1 \in 1..Len(inputQ) - 2 + 1 /\ i \in 1..Len(inputQ) - 2 + 1
        /\ 2 + 1 - 1 = 2 /\ 2 + i - 1 = i + 1
    BY <1>2
  <2>3. SubSeq(SubSeq(inputQ, 2, Len(inputQ)), 1, i) = SubSeq(inputQ, 2 + 1 - 1, 2 + i - 1)
    BY <1>1, <2>2, SubSeqOfSubSeq
  <2> QED BY <2>1, <2>2, <2>3
<1>6. \A i \in 1..Len(inputQ') : inputQ'[i].act = "commit" =>
        inputQ'[i].n = pending'.hi + Chars(SubSeq(inputQ', 1, i))
  <2> SUFFICES ASSUME NEW i \in 1..Len(t), t[i].act = "commit"
               PROVE  t[i].n = (pending.hi + c) + Chars(SubSeq(t, 1, i))
    OBVIOUS
  <2>1. i + 1 \in 1..Len(inputQ) /\ t[i] = inputQ[i + 1]
    BY <1>2
  <2>2. inputQ[i + 1].n = pending.hi + Chars(SubSeq(inputQ, 1, i + 1))
    BY <2>1 DEF InputInOrder
  <2>3. Chars(SubSeq(inputQ, 1, i + 1)) = c + Chars(SubSeq(t, 1, i))
        /\ Chars(SubSeq(t, 1, i)) \in Nat
    BY <1>4, <1>5, <2>1
  <2> QED BY <1>1, <1>3, <2>1, <2>2, <2>3
<1>7. accepted' = pending'.hi + buffered'
  BY <1>1, <1>3 DEF InputInOrder
<1>8. InputInOrder'
  BY <1>6, <1>7 DEF InputInOrder
<1>9. ASSUME Head(inputQ).act = "commit" PROVE Head(inputQ).n = pending.hi
  <2>1. 1 \in 1..Len(inputQ)
    BY <1>2
  <2>2. inputQ[1].n = pending.hi + Chars(SubSeq(inputQ, 1, 1))
    BY <1>2, <1>9, <2>1 DEF InputInOrder
  <2>3. Chars(SubSeq(inputQ, 1, 1)) = c + Chars(SubSeq(inputQ, 2, 1))
    BY <1>4, <2>1
  <2>4. SubSeq(inputQ, 2, 1) = <<>>
    BY SubSeqEmpty
  <2>5. c = 0
    BY <1>9 DEF CharsOf
  <2>6. Chars(SubSeq(inputQ, 2, 1)) = 0
    BY <2>4, CharsEmpty
  <2>7. inputQ[1].n = pending.hi + (0 + 0)
    BY <2>2, <2>3, <2>5, <2>6
  <2> QED BY <1>1, <1>2, <2>7
<1> QED BY <1>8, <1>9

(* No text, no cut: an update changes nothing of what is pending.          *)
LEMMA UpdateKeepsText ==
  ASSUME GaugeInv, SpeechTypes, TextInOrder, InputInOrder, UpdateDone
  PROVE  pending' = pending
<1>1. accepted = 0 /\ accepted = pending.hi + buffered /\ pending.lo <= pending.hi
      /\ pending' = [lo |-> 0, hi |-> 0] /\ buffered \in Nat
  BY PendingTyped DEF InputInOrder, TextInOrder, CutTo, UpdateDone, GaugeInv
<1>2. pending.lo = 0 /\ pending.hi = 0
  <2>1. \A a, b, c \in Nat : 0 = b + c /\ a <= b => a = 0 /\ b = 0
    OBVIOUS
  <2>2. pending.lo \in Nat /\ pending.hi \in Nat /\ 0 = pending.hi + buffered
    BY <1>1, PendingTyped
  <2> QED BY <1>1, <2>1, <2>2
<1> QED BY <1>1, <1>2 DEF SpeechTypes


-----------------------------------------------------------------------------
(* What begins with a code block is spoken.                                *)
LEMMA FenceSpoken ==
  ASSUME NEW lo \in Nat, NEW hi \in Nat, lo < hi, lo + 1 \in Cues
  PROVE  ClassOf(lo, hi) = "word"
<1>1. lo + 1 \in (lo + 1)..hi /\ Text[lo + 1] = "fence"
  BY DEF Cues
<1> QED BY <1>1 DEF ClassOf

(* The segmenter adds to the line behind all that is on it.                *)
LEMMA CutsOrdered ==
  ASSUME NEW lo \in Nat, NEW to \in Nat, NEW s \in Cuts(lo, to), NEW g \in Nat,
         NEW e \in Nat, e = lo \/ (e \in Cues /\ e = lo + 1)
  PROVE  Ordered(Segments(g, s), g, e, to)
<1>1. PICK n \in 0..Parts(lo, to) : s \in [1..n -> Ranges(lo, to)]
  BY DEF Cuts
<1>2. /\ DOMAIN s = 1..n /\ n \in Nat
      /\ \A i \in 1..n : s[i] \in Ranges(lo, to)
      /\ \A i \in 1..n : ClassOf(s[i].lo, s[i].hi) # "blank"
      /\ \A i, j \in 1..n : i < j => Follows(s[j], s[i])
  BY <1>1 DEF Cuts
<1>3. \A i \in 1..n : /\ s[i].lo \in Nat /\ s[i].hi \in Nat
                      /\ lo <= s[i].lo /\ s[i].hi <= to /\ s[i].lo < s[i].hi
  BY <1>2 DEF Ranges
<1>4. \A i \in 1..n : ClassOf(s[i].lo, s[i].hi) \in {"word", "mark"}
  <2> TAKE i \in 1..n
  <2>1. ClassOf(s[i].lo, s[i].hi) \in {"word", "mark", "blank"}
    BY DEF ClassOf
  <2> QED BY <1>2, <2>1
<1>11. ASSUME NEW i \in 1..n, NEW h \in Nat, h \in Cues, h = s[i].lo + 1
       PROVE  ClassOf(s[i].lo, s[i].hi) = "word"
  BY <1>3, <1>11, FenceSpoken
<1> DEFINE q == Segments(g, s)
           sg(i) == [kind |-> ClassOf(s[i].lo, s[i].hi), gen |-> g, lo |-> s[i].lo,
                     hi |-> s[i].hi]
<1>5. \A i \in 1..n : /\ sg(i) \in Item
                      /\ sg(i).kind = ClassOf(s[i].lo, s[i].hi) /\ sg(i).gen = g
                      /\ sg(i).lo = s[i].lo /\ sg(i).hi = s[i].hi
  BY <1>3, <1>4 DEF Item
<1>6. q = [i \in 1..n |-> sg(i)]
  BY <1>2 DEF Segments
<1> HIDE DEF sg
<1>7. q \in [1..n -> Item] /\ \A i \in 1..n : q[i] = sg(i)
  BY <1>5, <1>6
<1> HIDE DEF q
<1>8. q \in Seq(Item) /\ Len(q) = n
  BY <1>2, <1>7
<1>9. ASSUME NEW i \in 1..Len(q) PROVE Placed(q[i], g, e, to)
  <2>1. i \in 1..n /\ q[i] = sg(i)
    BY <1>7, <1>8
  <2>2. Behind(e, sg(i))
    <3>1. lo <= s[i].lo /\ s[i].lo \in Nat
      BY <1>3, <2>1
    <3>2. e <= s[i].lo \/ (e \in Cues /\ e = s[i].lo + 1)
      BY <3>1
    <3> QED BY <1>5, <1>11, <2>1, <3>2 DEF Behind
  <2> QED BY <1>3, <1>4, <1>5, <2>1, <2>2 DEF Placed
<1>10. ASSUME NEW i \in 1..Len(q), NEW j \in 1..Len(q), i < j
       PROVE  Succeeds(q[i], q[j], g)
  <2>1. i \in 1..n /\ q[i] = sg(i) /\ j \in 1..n /\ q[j] = sg(j)
    BY <1>7, <1>8
  <2>2. s[i].hi <= s[j].lo \/ (s[i].hi \in Cues /\ s[i].hi = s[j].lo + 1)
    BY <1>2, <1>10, <2>1 DEF Follows
  <2>3. s[i].hi \in Nat
    BY <1>3, <2>1
  <2> QED BY <1>5, <1>11, <2>1, <2>2, <2>3 DEF Succeeds, Behind
<1> QED BY <1>8, <1>9, <1>10 DEF Ordered, q

LEMMA UnitOrdered ==
  ASSUME NEW it \in Item, NEW g \in Nat, NEW b \in Nat, it.gen <= g,
         it.kind = "stop" \/ (it.kind = "end" /\ it.lo = b /\ it.hi = b)
  PROVE  Ordered(<<it>>, g, b, b)
<1>1. <<it>> \in Seq(Item) /\ Len(<<it>>) = 1 /\ <<it>>[1] = it
  OBVIOUS
<1>2. Placed(it, g, b, b)
  BY DEF Placed, Fresh, Behind
<1>3. \A i \in 1..1 : i = 1
  OBVIOUS
<1> QED BY <1>1, <1>2, <1>3 DEF Ordered

LEMMA EmptyOrdered ==
  ASSUME NEW g, NEW a, NEW b
  PROVE  Ordered(<<>>, g, a, b)
BY EmptySeq DEF Ordered

LEMMA LineParts ==
  ASSUME SpeechTypes, NEW e \in Nat, CutTo(e)
  PROVE  /\ Ordered(Waits, generation, Reached, e)
         /\ Ordered(Waits \o segQ, generation, Reached, e)
         /\ Ordered(batch, generation, Reached, e)
BY LineTyped, OrderedJoin DEF CutTo, Line

LEMMA StopText ==
  ASSUME Honest, SpeechTypes', TextInOrder, StopSegmenter, Reached' = Reached
  PROVE  TextInOrder'
<1>1. /\ segQ' = <<Stop>> /\ batch' = <<>> /\ UNCHANGED <<generation, pending, spc, item>>
  BY DEF StopSegmenter, inputVars, voiceVars, respVars, synVars
<1> PICK e \in Nat : CutTo(e)
  BY DEF TextInOrder
<1>2. /\ Reached \in Nat /\ generation \in Nat
      /\ Reached <= e /\ e <= e
  BY ReachedTyped, Numbers DEF Honest, CutTo
<1>3. Stop \in Item /\ Stop.gen = 0 /\ Stop.kind = "stop"
  BY DEF Stop, Item
<1>4. Ordered(<<Stop>>, generation, e, e)
  BY <1>2, <1>3, UnitOrdered
<1>5. Ordered(Waits \o <<Stop>>, generation, Reached, e)
  BY <1>2, <1>4, LineParts, OrderedAdd DEF Honest
<1>6. Waits \o <<Stop>> \in Seq(Item)
  BY <1>5 DEF Ordered
<1>7. Line' = Waits \o <<Stop>>
  BY <1>1, <1>6, ConcatEmptySeq DEF Line, Waits
<1>8. Ordered(Line', generation', Reached', e)
  BY <1>1, <1>5, <1>7
<1>9. CutTo(e)'
  BY <1>1, <1>8 DEF CutTo, Ordered, Placed, Succeeds, Behind, Fresh
<1> QED BY <1>9 DEF TextInOrder

(* After a cancellation nothing is left that counts.                       *)
LEMMA CancelText ==
  ASSUME Honest, SpeechTypes', TextInOrder, HandleCancel, Reached' = 0
  PROVE  TextInOrder'
<1>1. /\ segQ' = <<>> /\ generation' = generation + 1 /\ pending' = [lo |-> 0, hi |-> 0]
      /\ UNCHANGED <<batch, spc, item>>
  BY DEF HandleCancel, ForgetText, synVars
<1>2. generation \in Nat
  BY Numbers DEF Honest
<1>3. Ordered(Waits, generation + 1, 0, 0) /\ Ordered(batch, generation + 1, 0, 0)
  BY <1>2, LineParts, OrderedStale DEF Honest, TextInOrder
<1>4. Ordered(Waits \o batch, generation + 1, 0, 0)
  BY <1>3, OrderedAdd
<1>5. Waits \o <<>> = Waits
  BY LineTyped, ConcatEmptySeq DEF Honest
<1>6. Line' = Waits \o batch
  BY <1>1, <1>5 DEF Line, Waits
<1>7. pending'.lo = 0 /\ pending'.hi = 0
  BY <1>1
<1>8. Ordered(Line', generation', Reached', 0)
  BY <1>1, <1>4, <1>6
<1>9. CutTo(0)'
  BY <1>7, <1>8 DEF CutTo, Ordered, Placed, Succeeds, Behind, Fresh
<1> QED BY <1>9 DEF TextInOrder

LEMMA ReadText ==
  ASSUME GaugeInv, Honest, SpeechTypes', TextInOrder, InputInOrder, SegRead, Reached' = Reached
  PROVE  TextInOrder' /\ InputInOrder'
<1> DEFINE it == Head(inputQ)
           c == CharsOf(it)
           stretch == [pending EXCEPT !.hi = @ + c]
<1>1. /\ batch = <<>> /\ inputQ # <<>> /\ inputQ' = Tail(inputQ)
      /\ UNCHANGED <<rpc, generation, accepted, segQ, spc, item>>
  BY DEF SegRead, linkVars, voiceVars, respVars, synVars
<1>2. it \in Input /\ it.gen = generation /\ ~Stale(it) /\ it.n \in Nat /\ c \in Nat
      /\ generation \in Nat
  <2>1. inputQ \in Seq(Input)
    BY DEF GaugeInv
  <2>2. it \in Input
    BY <1>1, <2>1, HeadTailProperties
  <2>3. it.n \in Nat /\ it.gen = generation
    BY <2>2, InputSized
  <2> QED BY <2>2, <2>3, Numbers DEF Stale, CharsOf, Honest
<1>3. /\ buffered' = buffered - c
      /\ \E to \in CutPoints(it.act, stretch) : \E s \in Cuts(pending.lo, to) :
           /\ \E rest \in Rests(it.act, to) :
                /\ rest >= pending.lo
                /\ pending' = [stretch EXCEPT !.lo = rest]
           /\ batch' = Segments(it.gen, s) \o Marker(it)
  BY <1>2 DEF SegRead, CharsOf
<1> PICK e \in Nat : CutTo(e)
  BY DEF TextInOrder
<1>4. /\ pending.lo \in Nat /\ pending.hi \in Nat /\ pending.lo <= e /\ e <= pending.hi
      /\ e = pending.lo \/ (e \in Cues /\ e = pending.lo + 1)
      /\ Reached \in Nat /\ Reached <= e
  BY PendingTyped, ReachedTyped DEF Honest, CutTo
<1> HIDE DEF c, it
<1>5. stretch = [lo |-> pending.lo, hi |-> pending.hi + c]
  <2>1. pending \in [lo : Nat, hi : Nat]
    BY DEF Honest, SpeechTypes
  <2>2. \A x : [pending EXCEPT !.hi = x] = [lo |-> pending.lo, hi |-> x]
    BY <2>1
  <2>3. stretch = [pending EXCEPT !.hi = pending.hi + c]
    OBVIOUS
  <2> QED BY <2>2, <2>3
<1>6. /\ stretch.lo = pending.lo /\ stretch.hi = pending.hi + c
      /\ \A to : [stretch EXCEPT !.lo = to] = [lo |-> to, hi |-> pending.hi + c]
  <2>1. \A a, b, x : [[lo |-> a, hi |-> b] EXCEPT !.lo = x] = [lo |-> x, hi |-> b]
    OBVIOUS
  <2> HIDE DEF stretch
  <2> QED BY <1>5, <2>1
<1> HIDE DEF stretch
<1>7. PICK to \in CutPoints(it.act, stretch) : \E s \in Cuts(pending.lo, to) :
           /\ \E rest \in Rests(it.act, to) :
                /\ rest >= pending.lo
                /\ pending' = [stretch EXCEPT !.lo = rest]
           /\ batch' = Segments(it.gen, s) \o Marker(it)
  BY <1>3
<1>8. PICK s \in Cuts(pending.lo, to), rest \in Rests(it.act, to) :
           /\ rest >= pending.lo
           /\ pending' = [stretch EXCEPT !.lo = rest]
           /\ batch' = Segments(it.gen, s) \o Marker(it)
  BY <1>7
<1>9. /\ to \in Nat /\ pending.lo <= to /\ to <= pending.hi + c
      /\ it.act = "commit" => to = pending.hi + c
  BY <1>2, <1>4, <1>6 DEF CutPoints
<1>10. pending'.lo = rest /\ pending'.hi = pending.hi + c
  BY <1>6, <1>8
<1>11. InputInOrder' /\ (it.act = "commit" => it.n = pending.hi)
  BY <1>1, <1>3, <1>10, InputRead DEF Honest, it, c
<1>12. Ordered(Marker(it), generation, to, to)
  <2>1. CASE it.act = "commit"
    <3> DEFINE last == EndOfText(it.gen, it.n)
    <3>1. c = 0
      BY <2>1 DEF c, CharsOf
    <3>2. it.n = to
      BY <1>4, <1>9, <1>11, <2>1, <3>1
    <3>3. /\ last \in Item /\ last.kind = "end" /\ last.gen = it.gen
          /\ last.lo = it.n /\ last.hi = it.n
      BY <1>2 DEF EndOfText, Item
    <3> HIDE DEF last
    <3>4. Ordered(<<last>>, generation, to, to)
      BY <1>2, <1>9, <3>2, <3>3, UnitOrdered
    <3> QED BY <2>1, <3>4 DEF Marker, last
  <2>2. CASE it.act # "commit"
    BY <2>2, EmptyOrdered DEF Marker
  <2> QED BY <2>1, <2>2
<1> DEFINE f == IF to < e THEN e ELSE to
<1>13. /\ f \in Nat /\ e <= f /\ to <= f /\ f <= pending.hi + c
       /\ rest <= f /\ (f = rest \/ (f \in Cues /\ f = rest + 1))
       /\ it.act = "commit" => f = to
  <2>1. rest = to \/ (to \in Cues /\ it.act # "commit" /\ rest = to - 1)
    BY <1>8 DEF Rests
  <2>2. CASE to < e
    <3>1. to = pending.lo /\ rest = to /\ f = e /\ f = rest + 1 /\ f \in Cues
      BY <1>4, <1>8, <1>9, <2>1, <2>2
    <3>2. it.act # "commit"
      BY <1>2, <1>4, <1>9, <2>2
    <3> QED BY <1>2, <1>4, <1>9, <2>2, <3>1, <3>2
  <2>3. CASE e <= to
    <3>1. f = to
      BY <1>9, <2>3
    <3> QED BY <1>9, <2>1, <2>3, <3>1
  <2> QED BY <1>9, <2>2, <2>3
<1> HIDE DEF f
<1>14. Ordered(batch', generation, e, f)
  <2>1. Ordered(Segments(it.gen, s), generation, e, to)
    BY <1>2, <1>4, <1>9, CutsOrdered
  <2>2. Ordered(Segments(it.gen, s), generation, e, f)
    <3>1. \A i \in 1..Len(Segments(it.gen, s)) : Placed(Segments(it.gen, s)[i], generation, e, f)
      BY <1>9, <1>13, <2>1, PlacedFurther DEF Ordered
    <3> QED BY <2>1, <3>1 DEF Ordered
  <2>3. Ordered(Marker(it), generation, f, f)
    <3>1. CASE it.act = "commit"
      BY <1>12, <1>13, <3>1
    <3>2. CASE it.act # "commit"
      BY <3>2, EmptyOrdered DEF Marker
    <3> QED BY <3>1, <3>2
  <2> QED BY <1>8, <1>13, <2>2, <2>3, OrderedAdd
<1>15. Ordered((Waits \o segQ) \o batch', generation, Reached, f)
  BY <1>4, <1>13, <1>14, LineParts, OrderedAdd DEF Honest
<1>16. Line' = (Waits \o segQ) \o batch'
  BY <1>1 DEF Line, Waits
<1>17. Ordered(Line', generation', Reached', f)
  BY <1>1, <1>15, <1>16
<1>18. CutTo(f)'
  <2>1. Reached' <= f /\ rest <= f /\ f <= pending.hi + c
    BY <1>4, <1>13
  <2> QED BY <1>10, <1>13, <1>17, <2>1 DEF CutTo, Ordered, Placed, Succeeds, Behind, Fresh
<1> QED BY <1>11, <1>13, <1>18 DEF TextInOrder

-----------------------------------------------------------------------------
(* Every step keeps the types.                                             *)
LEMMA HearTyped ==
  ASSUME SpeechTypes, CallsInLine, NEW who, NEW sent \in BOOLEAN, Transmit(who, sent)
  PROVE  /\ disconnected' \in BOOLEAN /\ cut' \in Nat /\ closed' \in Nat /\ pos' \in Nat
         /\ quiet' \in BOOLEAN /\ flawed' \in BOOLEAN /\ open' \in Response
<1> DEFINE ev == Head(sendQ).ev
<1>1. /\ sendQ # <<>> /\ disconnected' \in BOOLEAN
      /\ Hear(ev) \/ UNCHANGED heardVars
  BY DEF Transmit, SpeechTypes
<1>2. Head(sendQ) \in SendCall
  BY <1>1, NextInLine DEF CallsInLine
<1>3. ev.kind \in EventKind /\ ev.gen \in Nat /\ ev.id \in Nat /\ ev.n \in Nat
  BY <1>2 DEF SendCall, EventKind
<1> HIDE DEF ev
<1>4. /\ cut \in Nat /\ closed \in Nat /\ pos \in Nat /\ quiet \in BOOLEAN
      /\ flawed \in BOOLEAN /\ open \in Response /\ open.next \in Nat
  BY DEF SpeechTypes, Response
<1>5. CASE UNCHANGED heardVars
  BY <1>1, <1>4, <1>5 DEF heardVars
<1>6. CASE Hear(ev)
  <2>1. CASE ev.kind = "created"
    <3>1. /\ open' = [id |-> ev.id, gen |-> ev.gen, next |-> 0, ended |-> FALSE]
          /\ UNCHANGED <<cut, closed, flawed, quiet>> /\ pos' = ev.n
      BY <1>6, <2>1 DEF Hear
    <3>2. open' \in Response
      BY <1>3, <1>4, <3>1 DEF Response
    <3> QED BY <1>1, <1>3, <1>4, <3>1, <3>2
  <2>2. CASE ev.kind = "delta"
    <3>1. /\ open' = [id |-> ev.id, gen |-> ev.gen, next |-> ev.n + 1, ended |-> FALSE]
          /\ UNCHANGED <<cut, closed, pos, flawed, quiet>>
      BY <1>6, <2>2 DEF Hear
    <3>2. open' \in Response
      BY <1>3, <1>4, <3>1 DEF Response
    <3> QED BY <1>1, <1>3, <1>4, <3>1, <3>2
  <2>3. CASE ev.kind = "audioDone"
    <3>1. /\ open' = [id |-> ev.id, gen |-> ev.gen, next |-> open.next, ended |-> TRUE]
          /\ UNCHANGED <<cut, closed, pos, flawed, quiet>>
      BY <1>6, <2>3 DEF Hear
    <3>2. open' \in Response
      BY <1>3, <1>4, <3>1 DEF Response
    <3> QED BY <1>1, <1>3, <1>4, <3>1, <3>2
  <2>4. CASE ev.kind \in {"done", "failed"}
    <3>1. Speech!NoResponse \in Response
      BY DEF Speech!NoResponse, Response
    <3>2. /\ open' = Speech!NoResponse /\ closed' = ev.id /\ UNCHANGED <<cut, pos, quiet>>
          /\ flawed' = (flawed \/ ev.kind = "failed")
      BY <1>6, <2>4 DEF Hear
    <3>3. flawed' \in BOOLEAN
      BY <1>4, <3>2
    <3> QED BY <1>1, <1>3, <1>4, <3>1, <3>2, <3>3
  <2>5. CASE ev.kind \in {"skipped", "textDone"}
    BY <1>1, <1>3, <1>4, <1>6, <2>5 DEF Hear
  <2>6. CASE ev.kind = "cancelled"
    <3>1. cut' = ev.gen + 1 /\ pos' = 0 /\ flawed' = FALSE /\ UNCHANGED <<open, closed, quiet>>
      BY <1>6, <2>6 DEF Hear
    <3>2. cut' \in Nat
      BY <1>3, <3>1
    <3> QED BY <1>1, <1>4, <3>1, <3>2
  <2>7. CASE ev.kind \in {"paused", "resumed"}
    <3>1. quiet' = (ev.kind = "paused") /\ UNCHANGED <<cut, open, closed, pos, flawed>>
      BY <1>6, <2>7 DEF Hear
    <3>2. quiet' \in BOOLEAN
      BY <3>1
    <3> QED BY <1>1, <1>4, <3>1, <3>2
  <2>8. CASE ev.kind = "reply"
    BY <1>1, <1>4, <1>6, <2>8 DEF Hear, heardVars
  <2> QED BY <1>3, <2>1, <2>2, <2>3, <2>4, <2>5, <2>6, <2>7, <2>8 DEF EventKind
<1> QED BY <1>1, <1>5, <1>6

(* Nothing is sent, and what is on its way of the text stays.              *)
LEMMA TypesKept ==
  ASSUME SpeechTypes, UNCHANGED heardVars, UNCHANGED <<segQ, batch, pending>>,
         net' \in {net, "closed"}, disconnected' \in {disconnected, TRUE},
         stop' \in {stop, TRUE, FALSE}, paused' \in BOOLEAN, generation' \in Nat, active' \in Nat,
         responses' \in Nat, item' \in Item
  PROVE  SpeechTypes'
BY DEF SpeechTypes, heardVars, Response

LEMMA StopTyped == Stop \in Item
BY DEF Stop, Item

LEMMA ClientTypes ==
  ASSUME SpeechTypes, ClientNext
  PROVE  SpeechTypes'
<1> USE DEF sockVars, textVars, inputVars, segVars, voiceVars, respVars, synVars,
            wakeVars
<1>1. /\ generation \in Nat /\ active \in Nat /\ responses \in Nat /\ item \in Item
      /\ paused \in BOOLEAN
  BY DEF SpeechTypes
<1>2. CASE HandleCancel
  <2>1. /\ segQ' = <<>> /\ pending' = [lo |-> 0, hi |-> 0] /\ generation' = generation + 1
        /\ stop' = TRUE
        /\ UNCHANGED <<heardVars, net, disconnected, paused, active, responses, item, batch>>
    BY <1>2 DEF HandleCancel, ForgetText
  <2>2. segQ' \in Seq(Item) /\ pending' \in [lo : Nat, hi : Nat] /\ generation' \in Nat
    BY <1>1, <2>1
  <2> QED BY <2>1, <2>2 DEF SpeechTypes, heardVars, Response
<1>3. CASE \E r \in DOMAIN playback : \E s \in 0..(MaxFrames - 1) : HandleAck(r, s)
  BY <1>1, <1>3, TypesKept DEF HandleAck, EndRun
<1>4. CASE ~HandleCancel /\ ~\E r \in DOMAIN playback : \E s \in 0..(MaxFrames - 1) : HandleAck(r, s)
  <2>1. CASE Connect \/ HandleCommit \/ HandleUpdate \/ HandleOther \/ ClientCloses
    BY <1>1, <2>1, TypesKept DEF Connect, HandleCommit, HandleUpdate, HandleOther, ClientCloses
  <2>2. CASE \E n \in 1..Len(Text) : HandleAppend(n)
    BY <1>1, <2>2, TypesKept DEF HandleAppend
  <2>3. CASE HandlePause \/ HandleResume
    BY <1>1, <2>3, TypesKept DEF HandlePause, HandleResume
  <2> QED BY <1>4, <2>1, <2>2, <2>3 DEF ClientNext
<1> QED BY <1>2, <1>3, <1>4

(* Something is sent, but the text stays.                                  *)
LEMMA TypesHeard ==
  ASSUME SpeechTypes, CallsInLine, NEW who, NEW sent \in BOOLEAN, Transmit(who, sent),
         UNCHANGED <<segQ, batch, pending, paused, generation, responses>>,
         net' \in {net, "closed"}, stop' \in BOOLEAN, active' \in Nat, item' \in Item
  PROVE  SpeechTypes'
<1>1. /\ disconnected' \in BOOLEAN /\ cut' \in Nat /\ closed' \in Nat /\ pos' \in Nat
      /\ quiet' \in BOOLEAN /\ flawed' \in BOOLEAN /\ open' \in Response
  BY HearTyped
<1>2. /\ net' \in {"open", "closed"} /\ paused' \in BOOLEAN /\ generation' \in Nat
      /\ responses' \in Nat /\ segQ' \in Seq(Item) /\ batch' \in Seq(Item)
      /\ pending' \in [lo : Nat, hi : Nat]
  BY DEF SpeechTypes
<1>3. Response' = Response /\ Item' = Item
  BY DEF Response, Item
<1> QED BY <1>1, <1>2, <1>3 DEF SpeechTypes

LEMMA StopOnSend ==
  ASSUME SpeechTypes, NEW who, NEW sent \in BOOLEAN, NEW more, Sent(who, sent, more)
  PROVE  stop' \in BOOLEAN /\ Transmit(who, sent)
BY DEF Sent, SpeechTypes

LEMMA ReaderTypes ==
  ASSUME SpeechTypes, CallsInLine, ReaderNext
  PROVE  SpeechTypes'
<1> USE DEF sockVars, textVars, inputVars, segVars, voiceVars, respVars, synVars,
            wakeVars
<1>1. /\ generation \in Nat /\ active \in Nat /\ responses \in Nat /\ item \in Item
      /\ paused \in BOOLEAN /\ stop \in BOOLEAN
  BY DEF SpeechTypes
<1>2. CASE \E sent \in BOOLEAN : ReplySent(sent)
  <2>1. PICK sent \in BOOLEAN : ReplySent(sent)
    BY <1>2
  <2>2. Transmit("reader", sent) /\ stop' \in {stop, TRUE}
        /\ UNCHANGED <<net, segQ, batch, pending, paused, generation, responses, active, item>>
    BY <2>1 DEF ReplySent, LoopOrEnd, EndRun
  <2> QED BY <1>1, <2>2, TypesHeard
<1>3. CASE \E sent \in BOOLEAN : GiveUpSent(sent)
  <2>1. PICK sent \in BOOLEAN : GiveUpSent(sent)
    BY <1>3
  <2>2. Sent("reader", sent, <<>>) /\ net' = "closed"
        /\ UNCHANGED <<segQ, batch, pending, paused, generation, responses, active, item>>
    BY <2>1 DEF GiveUpSent
  <2> QED BY <1>1, <2>2, StopOnSend, TypesHeard
<1>4. CASE UpdateDone
  <2>1. /\ pending' = [lo |-> 0, hi |-> 0]
        /\ UNCHANGED <<heardVars, net, disconnected, stop, paused, active, responses, item,
                       generation, batch, segQ>>
    BY <1>4 DEF UpdateDone
  <2>2. pending' \in [lo : Nat, hi : Nat]
    BY <2>1
  <2> QED BY <2>1, <2>2 DEF SpeechTypes, heardVars, Response
<1>5. CASE StopSegmenter
  <2>1. /\ segQ' = <<Stop>> /\ batch' = <<>>
        /\ UNCHANGED <<heardVars, net, disconnected, stop, paused, active, responses, item,
                       generation, pending>>
    BY <1>5 DEF StopSegmenter
  <2>2. segQ' \in Seq(Item) /\ batch' \in Seq(Item)
    BY <2>1, StopTyped
  <2> QED BY <2>1, <2>2 DEF SpeechTypes, heardVars, Response
<1>6. CASE UpdateRefused \/ Joined \/ ShutdownRaises \/ LateRelease
  BY <1>1, <1>6, TypesKept DEF UpdateRefused, Joined, ShutdownRaises, LateRelease
<1>7. CASE GaveUp \/ NoticeDisconnect
  BY <1>1, <1>7, TypesKept DEF GaveUp, NoticeDisconnect, EndRun
<1> QED BY <1>2, <1>3, <1>4, <1>5, <1>6, <1>7 DEF ReaderNext

LEMMA SegmenterTypes ==
  ASSUME SpeechTypes, GaugeInv, SegmenterNext
  PROVE  SpeechTypes'
<1> USE DEF linkVars, inputVars, segVars, voiceVars, respVars, synVars, wakeVars
<1>1. /\ generation \in Nat /\ active \in Nat /\ responses \in Nat /\ item \in Item
      /\ paused \in BOOLEAN /\ pending \in [lo : Nat, hi : Nat]
      /\ segQ \in Seq(Item) /\ batch \in Seq(Item) /\ pending.lo \in Nat /\ pending.hi \in Nat
  BY DEF SpeechTypes
<1>2. CASE SegRead
  <2> DEFINE it == Head(inputQ)
             c == CharsOf(it)
             stretch == [pending EXCEPT !.hi = @ + c]
  <2>1. /\ inputQ # <<>>
        /\ UNCHANGED <<heardVars, net, disconnected, stop, paused, active, responses, item,
                       generation, segQ>>
    BY <1>2 DEF SegRead
  <2>2. it \in Input
    BY <2>1, HeadTailProperties DEF GaugeInv
  <2>3. it.n \in Nat /\ it.gen = generation /\ ~Stale(it) /\ c \in Nat
    BY <2>2, InputSized DEF Stale, CharsOf
  <2>4. \E to \in CutPoints(it.act, stretch) : \E s \in Cuts(pending.lo, to) :
             /\ \E rest \in Rests(it.act, to) :
                  /\ rest >= pending.lo
                  /\ pending' = [stretch EXCEPT !.lo = rest]
             /\ batch' = Segments(it.gen, s) \o Marker(it)
    BY <1>2, <2>3 DEF SegRead, CharsOf
  <2> HIDE DEF c, it
  <2>5. stretch \in [lo : Nat, hi : Nat] /\ stretch.lo \in Nat /\ stretch.hi \in Nat
    <3>1. \A x \in Nat : [pending EXCEPT !.hi = x] \in [lo : Nat, hi : Nat]
      BY <1>1
    <3>2. pending.hi + c \in Nat /\ stretch = [pending EXCEPT !.hi = pending.hi + c]
      BY <1>1, <2>3
    <3> QED BY <3>1, <3>2
  <2> HIDE DEF stretch
  <2>6. PICK to \in CutPoints(it.act, stretch) : \E s \in Cuts(pending.lo, to) :
             /\ \E rest \in Rests(it.act, to) :
                  /\ rest >= pending.lo
                  /\ pending' = [stretch EXCEPT !.lo = rest]
             /\ batch' = Segments(it.gen, s) \o Marker(it)
    BY <2>4
  <2>7. to \in Nat
    BY <2>5 DEF CutPoints
  <2>8. pending' \in [lo : Nat, hi : Nat]
    <3>1. PICK rest \in Rests(it.act, to) :
             rest >= pending.lo /\ pending' = [stretch EXCEPT !.lo = rest]
      BY <2>6
    <3>2. rest \in Nat
      BY <1>1, <2>7, <3>1 DEF Rests
    <3> QED BY <2>5, <3>1, <3>2
  <2>9. PICK s \in Cuts(pending.lo, to) : batch' = Segments(it.gen, s) \o Marker(it)
    BY <2>6
  <2>10. Segments(it.gen, s) \in Seq(Item)
    BY <1>1, <2>3, <2>7, CutsOrdered DEF Ordered
  <2>11. Marker(it) \in Seq(Item)
    <3>1. EndOfText(it.gen, it.n) \in Item
      BY <1>1, <2>3 DEF EndOfText, Item
    <3> QED BY <3>1 DEF Marker
  <2>12. batch' \in Seq(Item)
    BY <2>9, <2>10, <2>11, ConcatProperties
  <2> QED BY <2>1, <2>8, <2>12 DEF SpeechTypes, heardVars, Response
<1>3. CASE SegPut
  <2> DEFINE room == MaxSegments - Len(segQ)
             n == IF Len(batch) < room THEN Len(batch) ELSE room
  <2>1. /\ segQ' = segQ \o SubSeq(batch, 1, n) /\ batch' = SubSeq(batch, n + 1, Len(batch))
        /\ Len(segQ) < MaxSegments
        /\ UNCHANGED <<heardVars, net, disconnected, stop, paused, active, responses, item,
                       generation, pending>>
    BY <1>3 DEF SegPut
  <2>2. Len(segQ) \in Nat /\ Len(batch) \in Nat /\ MaxSegments \in Nat
    BY <1>1, LenProperties, LimitAssumption
  <2>3. n \in 0..Len(batch)
    BY <2>1, <2>2
  <2> HIDE DEF n
  <2>4. \A i \in 1..n : batch[i] \in Item
    BY <1>1, <2>2, <2>3, ElementOfSeq
  <2>5. \A i \in n + 1..Len(batch) : batch[i] \in Item
    BY <1>1, <2>2, <2>3, ElementOfSeq
  <2>6. 1 \in Int /\ n \in Int /\ n + 1 \in Int /\ Len(batch) \in Int
    BY <2>2, <2>3
  <2>7. SubSeq(batch, 1, n) \in Seq(Item)
    BY <2>4, <2>6, SubSeqProperties
  <2>8. batch' \in Seq(Item)
    BY <2>1, <2>5, <2>6, SubSeqProperties
  <2>9. segQ' \in Seq(Item)
    BY <1>1, <2>1, <2>7, ConcatProperties
  <2> QED BY <2>1, <2>8, <2>9 DEF SpeechTypes, heardVars, Response
<1> QED BY <1>2, <1>3 DEF SegmenterNext


LEMMA TypesTaken ==
  ASSUME SpeechTypes, UNCHANGED heardVars, segQ # <<>>, segQ' = Tail(segQ),
         UNCHANGED <<net, disconnected, paused, generation, batch, pending>>,
         stop' \in BOOLEAN, active' \in Nat, responses' \in Nat, item' \in Item
  PROVE  SpeechTypes'
<1>1. segQ' \in Seq(Item)
  BY HeadTailProperties DEF SpeechTypes
<1> QED BY <1>1 DEF SpeechTypes, heardVars, Response

LEMMA BeginTypes ==
  ASSUME SpeechTypes, NEW it \in Item, Begin(it)
  PROVE  item' = it /\ stop' \in BOOLEAN /\ active' \in Nat /\ responses' \in Nat
         /\ stop' \in {stop, FALSE}
<1>1. stop \in BOOLEAN /\ active \in Nat /\ responses \in Nat
  BY DEF SpeechTypes
<1>2. CASE it.kind = "word"
  <2>1. stop' = FALSE /\ active' = responses + 1 /\ responses' = responses + 1
    BY <1>2 DEF Begin
  <2>2. active' \in Nat /\ responses' \in Nat
    BY <1>1, <2>1
  <2>3. stop' \in BOOLEAN /\ stop' \in {stop, FALSE}
    BY <2>1
  <2>4. item' = it
    BY DEF Begin
  <2> QED BY <2>2, <2>3, <2>4
<1>3. CASE it.kind # "word"
  BY <1>1, <1>3 DEF Begin
<1> QED BY <1>2, <1>3

LEMMA SynthesizerTypes ==
  ASSUME SpeechTypes, CallsInLine, SynthesizerNext
  PROVE  SpeechTypes'
<1> USE DEF sockVars, linkVars, textVars, inputVars, segVars, voiceVars, respVars,
            synVars, wakeVars
<1>1. /\ generation \in Nat /\ active \in Nat /\ responses \in Nat /\ item \in Item
      /\ paused \in BOOLEAN /\ stop \in BOOLEAN
  BY DEF SpeechTypes
<1>2. CASE SynStop \/ SynDiscard
  BY <1>1, <1>2, TypesTaken DEF SynStop, SynDiscard
<1>3. CASE SynTake
  <2>1. segQ # <<>> /\ segQ' = Tail(segQ) /\ Head(segQ) \in Item
    BY <1>3, HeadTailProperties DEF SynTake, SpeechTypes
  <2>2. CASE FlowOpen
    BY <1>3, <2>1, <2>2, BeginTypes, TypesTaken DEF SynTake
  <2>3. CASE ~FlowOpen
    BY <1>1, <1>3, <2>1, <2>3, TypesTaken DEF SynTake
  <2> QED BY <2>2, <2>3
<1>4. CASE SynWake
  <2>1. UNCHANGED heardVars /\ UNCHANGED <<segQ, batch, pending, net, disconnected, paused,
                                           generation>>
    BY <1>4 DEF SynWake
  <2>2. CASE Begin(item)
    <3>1. item' = item /\ active' \in Nat /\ responses' \in Nat /\ stop' \in {stop, FALSE}
      BY <1>1, <2>2, BeginTypes
    <3> QED BY <1>1, <2>1, <3>1, TypesKept
  <2>3. CASE ~Begin(item)
    <3>1. item' \in {item, Stop} /\ UNCHANGED <<active, responses, stop>>
      BY <1>4, <2>3 DEF SynWake
    <3>2. item' \in Item
      BY <1>1, <3>1, StopTyped
    <3> QED BY <1>1, <2>1, <3>1, <3>2, TypesKept
  <2> QED BY <2>2, <2>3
<1>5. CASE FrameDropped \/ FrameTaken \/ FrameWake \/ WorkerError \/ WorkerDone
  <2>1. CASE FrameDropped \/ WorkerError \/ WorkerDone
    BY <1>1, <2>1, TypesKept DEF FrameDropped, WorkerError, WorkerDone
  <2>2. CASE FrameTaken
    BY <1>1, <2>2, TypesKept DEF FrameTaken
  <2>3. CASE FrameWake
    <3>1. /\ UNCHANGED heardVars /\ UNCHANGED <<segQ, batch, pending, net, disconnected, paused,
                                                generation, active, responses, item>>
          /\ stop' \in {stop, TRUE}
      BY <2>3 DEF FrameWake
    <3> QED BY <1>1, <3>1, TypesKept
  <2> QED BY <1>5, <2>1, <2>2, <2>3
<1>6. CASE Join
  <2>1. /\ UNCHANGED heardVars /\ UNCHANGED <<segQ, batch, pending, net, disconnected, paused,
                                              generation, responses, stop>>
        /\ item' \in {item, Stop} /\ active' \in {active, 0}
    BY <1>6 DEF Join, EndResponse
  <2> QED BY <1>1, <2>1, TypesKept, StopTyped
<1>7. ASSUME NEW sent \in BOOLEAN,
             \/ ToldSent(sent) \/ CreatedSent(sent) \/ DeltaSent(sent) \/ ErrorSent(sent)
             \/ AudioDoneSent(sent) \/ DoneSent(sent)
      PROVE  SpeechTypes'
  <2>1. UNCHANGED <<net, segQ, batch, pending, paused, generation, responses>>
        /\ item' \in {item, Stop} /\ active' \in {active, 0}
    BY <1>7 DEF ToldSent, CreatedSent, DeltaSent, ErrorSent, AudioDoneSent, DoneSent,
       EndResponse
  <2>2. PICK more : Sent("syn", sent, more)
    BY <1>7 DEF ToldSent, CreatedSent, DeltaSent, ErrorSent, AudioDoneSent, DoneSent
  <2>3. stop' \in BOOLEAN /\ Transmit("syn", sent)
    BY <2>2, StopOnSend
  <2>4. active' \in Nat /\ item' \in Item
    BY <1>1, <2>1, StopTyped
  <2> QED BY <2>1, <2>3, <2>4, TypesHeard
<1>8. CASE \E sent \in BOOLEAN : FlowErrorSent(sent)
  <2>1. PICK sent \in BOOLEAN : FlowErrorSent(sent)
    BY <1>8
  <2>2. Transmit("syn", sent) /\ stop' = TRUE /\ net' = "closed"
        /\ UNCHANGED <<segQ, batch, pending, paused, generation, responses, active, item>>
    BY <2>1 DEF FlowErrorSent
  <2> QED BY <1>1, <2>2, TypesHeard
<1> QED BY <1>2, <1>3, <1>4, <1>5, <1>6, <1>7, <1>8 DEF SynthesizerNext

LEMMA OtherTypes ==
  ASSUME SpeechTypes, WorkerNext \/ TimerNext \/ StatusFails \/ Served
  PROVE  SpeechTypes'
<1> USE DEF sockVars, linkVars, textVars, inputVars, segVars, voiceVars, respVars,
            synVars, wakeVars
<1>1. /\ generation \in Nat /\ active \in Nat /\ responses \in Nat /\ item \in Item
      /\ paused \in BOOLEAN
  BY DEF SpeechTypes
<1>2. CASE WorkerNext
  BY <1>1, <1>2, TypesKept DEF WorkerNext, WorkerStarts, WorkerEmits, WorkerReports, WorkerEnds
<1>3. CASE IdleFires \/ GiveUp \/ FlowTimeout
  BY <1>1, <1>3, TypesKept DEF IdleFires, GiveUp, FlowTimeout
<1>4. CASE JoinTimeout
  BY <1>1, <1>4, TypesKept DEF JoinTimeout
<1>5. CASE StatusFails
  BY <1>1, <1>5, TypesKept DEF StatusFails
<1>6. CASE Served
  BY <1>1, <1>6, TypesKept DEF Served, vars
<1> QED BY <1>2, <1>3, <1>4, <1>5, <1>6 DEF TimerNext

LEMMA NextTypes ==
  ASSUME SpeechTypes, CallsInLine, GaugeInv, [Next]_vars
  PROVE  SpeechTypes'
<1>1. CASE Next
  BY <1>1, ClientTypes, ReaderTypes, SegmenterTypes, SynthesizerTypes, OtherTypes DEF Next
<1>2. CASE UNCHANGED vars
  BY <1>2, OtherTypes, TypesKept DEF vars, linkVars, textVars, inputVars, segVars,
     voiceVars, respVars, synVars, wakeVars, SpeechTypes
<1> QED BY <1>1, <1>2

-----------------------------------------------------------------------------
(* A client that hears nothing any more never does again.                  *)
LEMMA DeafIsDeaf ==
  ASSUME ReaderShape, Deaf, [Next]_vars
  PROVE  Deaf'
<1> USE DEF sockVars, linkVars, textVars, voiceVars, respVars
<1>1. net = "closed" => net' = "closed"
  <2>1. CASE ClientNext
    BY <2>1 DEF ClientNext, Connect, HandleAppend, HandleCommit, HandleCancel, HandleAck,
       HandlePause, HandleResume, HandleUpdate, HandleOther, ClientCloses
  <2>2. CASE ReaderNext \/ SegmenterNext
    BY <2>2 DEF ReaderNext, ReplySent, GiveUpSent, UpdateDone, UpdateRefused, GaveUp,
       NoticeDisconnect, StopSegmenter, Joined, ShutdownRaises, LateRelease, SegmenterNext, SegRead, SegPut
  <2>3. CASE SynthesizerNext
    BY <2>3 DEF SynthesizerNext, SynStop, SynDiscard, SynTake, SynWake, FrameDropped,
       FrameTaken, FrameWake, WorkerError, WorkerDone, Join, ToldSent, CreatedSent, DeltaSent,
       FlowErrorSent, ErrorSent, AudioDoneSent, DoneSent
  <2>4. CASE WorkerNext \/ TimerNext \/ StatusFails \/ Served
    BY <2>4 DEF WorkerNext, WorkerStarts, WorkerEmits, WorkerReports, WorkerEnds, TimerNext,
       IdleFires, GiveUp, FlowTimeout, JoinTimeout, StatusFails, Served, vars
  <2> QED BY <2>1, <2>2, <2>3, <2>4 DEF Next, vars
<1>2. disconnected => disconnected'
  <2>1. CASE ClientNext
    BY <2>1 DEF ClientNext, Connect, HandleAppend, HandleCommit, HandleCancel, HandleAck,
       HandlePause, HandleResume, HandleUpdate, HandleOther, ClientCloses
  <2>2. CASE ReaderNext \/ SegmenterNext
    BY <2>2 DEF ReaderNext, ReplySent, GiveUpSent, UpdateDone, UpdateRefused, GaveUp,
       NoticeDisconnect, StopSegmenter, Joined, ShutdownRaises, LateRelease, SegmenterNext, SegRead, SegPut,
       Sent, Transmit
  <2>3. CASE SynthesizerNext
    BY <2>3 DEF SynthesizerNext, SynStop, SynDiscard, SynTake, SynWake, FrameDropped,
       FrameTaken, FrameWake, WorkerError, WorkerDone, Join, ToldSent, CreatedSent, DeltaSent,
       FlowErrorSent, ErrorSent, AudioDoneSent, DoneSent, Sent, Transmit
  <2>4. CASE WorkerNext \/ TimerNext \/ StatusFails \/ Served
    BY <2>4 DEF WorkerNext, WorkerStarts, WorkerEmits, WorkerReports, WorkerEnds, TimerNext,
       IdleFires, GiveUp, FlowTimeout, JoinTimeout, StatusFails, Served, vars
  <2> QED BY <2>1, <2>2, <2>3, <2>4 DEF Next, vars
<1>3. rpc \in {"late", "over"} => rpc' \in {"late", "over"}
  <2>1. CASE ClientNext
    BY <2>1 DEF ClientNext, Connect, HandleAppend, HandleCommit, HandleCancel, HandleAck,
       HandlePause, HandleResume, HandleUpdate, HandleOther, ClientCloses
  <2>2. CASE ReaderNext \/ SegmenterNext
    BY <2>2 DEF ReaderNext, ReplySent, GiveUpSent, UpdateDone, UpdateRefused, GaveUp,
       NoticeDisconnect, StopSegmenter, Joined, ShutdownRaises, LateRelease, SegmenterNext, SegRead, SegPut
  <2>3. CASE SynthesizerNext
    BY <2>3 DEF SynthesizerNext, SynStop, SynDiscard, SynTake, SynWake, FrameDropped,
       FrameTaken, FrameWake, WorkerError, WorkerDone, Join, ToldSent, CreatedSent, DeltaSent,
       FlowErrorSent, ErrorSent, AudioDoneSent, DoneSent
  <2>4. CASE WorkerNext \/ TimerNext \/ StatusFails \/ Served
    BY <2>4 DEF WorkerNext, WorkerStarts, WorkerEmits, WorkerReports, WorkerEnds, TimerNext,
       IdleFires, GiveUp, FlowTimeout, JoinTimeout, StatusFails, Served, vars
  <2> QED BY <2>1, <2>2, <2>3, <2>4 DEF Next, vars
<1> QED BY <1>1, <1>2, <1>3 DEF Deaf


-----------------------------------------------------------------------------
(* What holds while the client can hear.                                   *)
SpeechKept == Honest /\ FramesInLine /\ TextInOrder /\ InputInOrder

SpeechInv == ~Deaf => SpeechKept

LEMMA Unheard ==
  ASSUME UNCHANGED heardVars
  PROVE  Allowed
BY DEF Allowed, heardVars, Speech!speechVars

(* A step that leaves frames and text alone.                               *)
LEMMA SideStep ==
  ASSUME SpeechKept, Honest', Reached' = Reached, Line' = Line, InputInOrder',
         UNCHANGED <<spc, frame, out, produced, worker, item, open, generation, pending>>,
         stop => stop'
  PROVE  SpeechKept'
<1>1. FramesInLine'
  BY FramesStay DEF SpeechKept
<1>2. TextInOrder'
  BY TextKept DEF SpeechKept
<1> QED BY <1>1, <1>2 DEF SpeechKept

(* A handler's answer that is about no cancellation.                       *)
LEMMA Answered ==
  ASSUME Honest, SpeechTypes', NEW k \in {"reply", "paused", "resumed"},
         rpc \notin {"reply", "givingUp"}, rpc' \in {"reply", "givingUp"},
         rpc' = "givingUp" => k = "reply",
         sendQ' = Append(sendQ, Call("reader", Event(k, 0, 0, 0))),
         UNCHANGED <<spc, item, active, responses, heardVars, generation>>,
         k = "reply" => paused' = paused, k = "paused" => paused', k = "resumed" => ~paused'
  PROVE  Honest' /\ Reached' = Reached
<1> DEFINE ev == Event(k, 0, 0, 0)
<1>1. k \in EventKind /\ 0 \in Nat /\ ev = Event(k, 0, 0, 0) /\ generation <= generation'
  BY Numbers DEF EventKind, Honest
<1>2. ev.kind = k /\ Reply.kind = "reply"
  BY EventFields DEF Reply
<1>3. sendQ' = Append(sendQ, Call("reader", ev))
  OBVIOUS
<1> HIDE DEF ev
<1>4. CallsInLine' /\ SynHonest' /\ FromReader = Reply /\ FromReader' = ev /\ FromSyn' = FromSyn
  BY <1>1, <1>3, ReaderSpeaks DEF Honest
<1>5. generation = cut /\ paused = quiet /\ UNCHANGED <<cut, pos, quiet>>
  BY <1>2, <1>4 DEF Honest, ReaderHonest, heardVars
<1>6. ReaderHonest'
  BY <1>2, <1>4, <1>5 DEF ReaderHonest
<1>7. Now' = Now
  BY <1>2, <1>4, <1>5 DEF Now
<1>8. Reached' = Reached
  BY <1>4, <1>7 DEF Reached
<1> QED BY <1>4, <1>6, <1>8 DEF Honest

LEMMA CancelAnswered ==
  ASSUME Honest, SpeechTypes', HandleCancel
  PROVE  Honest' /\ Reached' = 0
<1> DEFINE ev == Event("cancelled", generation, active, 0)
<1>1. /\ rpc = "run" /\ rpc' = "reply" /\ sendQ' = Append(sendQ, Call("reader", ev))
      /\ generation' = generation + 1 /\ UNCHANGED heardVars
      /\ UNCHANGED <<spc, item, active, responses, paused>>
  BY DEF HandleCancel, Respond, synVars
<1>2. /\ "cancelled" \in EventKind /\ generation \in Nat /\ active \in Nat
      /\ generation <= generation' /\ ev = Event("cancelled", generation, active, 0)
  BY <1>1, Numbers DEF EventKind, Honest
<1>3. ev.kind = "cancelled" /\ ev.gen = generation /\ Reply.kind = "reply"
  BY EventFields DEF Reply
<1> HIDE DEF ev
<1>4. CallsInLine' /\ SynHonest' /\ FromReader = Reply /\ FromReader' = ev /\ FromSyn' = FromSyn
  BY <1>1, <1>2, ReaderSpeaks DEF Honest
<1>5. generation = cut /\ paused = quiet /\ UNCHANGED <<cut, pos, quiet>>
  BY <1>1, <1>3, <1>4 DEF Honest, ReaderHonest, heardVars
<1>6. ReaderHonest'
  BY <1>1, <1>3, <1>4, <1>5 DEF ReaderHonest
<1>7. Now' = 0
  BY <1>3, <1>4 DEF Now
<1>8. ~(FromSyn.kind \in Announces /\ FromSyn.gen = generation')
  <2> SUFFICES ASSUME FromSyn.kind \in Announces PROVE FromSyn.gen # generation'
    OBVIOUS
  <2>1. FromSyn.gen = item.gen /\ item.gen <= generation
    BY AnnouncedItem
  <2> QED BY <1>1, <2>1, Numbers DEF Honest
<1>9. Reached' = 0
  BY <1>4, <1>7, <1>8 DEF Reached
<1> QED BY <1>4, <1>6, <1>9 DEF Honest

(* Whoever moves, nothing is said and the synthesizer stays.               *)
LEMMA NothingSaid ==
  ASSUME Honest, SpeechTypes', sendQ' = sendQ,
         UNCHANGED <<spc, item, active, responses, heardVars, generation, paused>>,
         rpc' = rpc \/ (rpc \notin {"reply", "givingUp"} /\ rpc' # "givingUp")
  PROVE  Honest' /\ Reached' = Reached
<1>1. UNCHANGED <<cut, pos, quiet, open, closed>>
  BY DEF heardVars
<1>2. CallsInLine' /\ FromReader' = FromReader /\ FromSyn' = FromSyn
      /\ UNCHANGED <<CutThen, PosThen, QuietThen>>
  BY <1>1, CallsKept DEF Honest
<1>3. ReaderHonest'
  BY <1>1, <1>2, ReaderHonestKept DEF Honest
<1>4. generation <= generation'
  BY Numbers DEF Honest
<1>5. SynHonest'
  BY <1>1, <1>2, <1>4, SynHonestKept DEF Honest
<1>6. Reached' = Reached
  BY <1>1, <1>2, ReachedKept
<1> QED BY <1>2, <1>3, <1>5, <1>6 DEF Honest

LEMMA ClientSpeech ==
  ASSUME SpeechKept, GaugeInv, SpeechTypes', ~Deaf, ~Deaf', ClientNext
  PROVE  SpeechKept' /\ Allowed
<1> USE DEF sockVars, linkVars, textVars, inputVars, segVars, voiceVars, respVars,
            synVars, workerVars, wakeVars
<1>1. Honest /\ InputInOrder /\ SpeechTypes /\ generation \in Nat
  BY Numbers DEF SpeechKept, Honest
<1>2. CASE Connect \/ HandleOther
  <2>1. /\ rpc \notin {"reply", "givingUp"} /\ rpc' = "reply"
        /\ sendQ' = Append(sendQ, Call("reader", Event("reply", 0, 0, 0)))
        /\ UNCHANGED heardVars /\ UNCHANGED <<textVars, respVars, stop>>
    BY <1>2 DEF Connect, HandleOther, Respond, Reply
  <2>2. Honest' /\ Reached' = Reached
    BY <1>1, <2>1, Answered
  <2>3. InputInOrder'
    BY <1>1, <2>1, InputKept
  <2>4. Line' = Line /\ open' = open
    BY <2>1, LineSame DEF heardVars
  <2> QED BY <2>1, <2>2, <2>3, <2>4, SideStep, Unheard
<1>3. CASE \E n \in 1..Len(Text) : HandleAppend(n)
  <2>1. PICK n \in 1..Len(Text) : HandleAppend(n)
    BY <1>3
  <2> DEFINE e == [act |-> "append", gen |-> generation, n |-> n]
  <2>2. n \in Nat
    BY TextAssumption
  <2>3. e \in Input /\ CharsOf(e) = n /\ e.act # "commit"
    BY <1>1, <2>2 DEF Input, CharsOf
  <2>4. /\ rpc = "run" /\ rpc' = "reply" /\ inputQ' = Append(inputQ, e)
        /\ accepted' = accepted + n /\ buffered' = buffered + n
        /\ sendQ' = Append(sendQ, Call("reader", Event("reply", 0, 0, 0)))
        /\ UNCHANGED heardVars /\ UNCHANGED <<generation, paused, segVars, respVars, stop>>
    BY <2>1 DEF HandleAppend, Respond, Reply
  <2> HIDE DEF e
  <2>5. Honest' /\ Reached' = Reached
    BY <1>1, <2>4, Answered
  <2>6. InputInOrder'
    BY <1>1, <2>3, <2>4, InputAppended
  <2>7. Line' = Line /\ open' = open
    BY <2>4, LineSame DEF heardVars
  <2> QED BY <2>4, <2>5, <2>6, <2>7, SideStep, Unheard
<1>4. CASE HandleCommit
  <2> DEFINE e == [act |-> "commit", gen |-> generation, n |-> accepted]
  <2>1. accepted \in Nat /\ buffered \in Nat
    BY DEF GaugeInv
  <2>2. e \in Input /\ CharsOf(e) = 0 /\ e.n = accepted
    BY <1>1, <2>1 DEF Input, CharsOf
  <2>3. /\ rpc = "run" /\ rpc' = "reply" /\ inputQ' = Append(inputQ, e)
        /\ accepted' = accepted /\ buffered' = buffered
        /\ sendQ' = Append(sendQ, Call("reader", Event("reply", 0, 0, 0)))
        /\ UNCHANGED heardVars /\ UNCHANGED <<generation, paused, segVars, respVars, stop>>
    BY <1>4 DEF HandleCommit, Respond, Reply
  <2> HIDE DEF e
  <2>4. accepted' = accepted + CharsOf(e) /\ buffered' = buffered + CharsOf(e)
    BY <2>1, <2>2, <2>3
  <2>5. Honest' /\ Reached' = Reached
    BY <1>1, <2>3, Answered
  <2>6. InputInOrder'
    BY <1>1, <2>2, <2>3, <2>4, InputAppended
  <2>7. Line' = Line /\ open' = open
    BY <2>3, LineSame DEF heardVars
  <2> QED BY <2>3, <2>5, <2>6, <2>7, SideStep, Unheard
<1>5. CASE HandleCancel
  <2>1. Honest' /\ Reached' = 0
    BY <1>1, <1>5, CancelAnswered
  <2>2. TextInOrder'
    BY <1>5, <2>1, CancelText DEF SpeechKept
  <2>3. InputInOrder'
    BY <1>5, InputForgotten DEF HandleCancel, ForgetText
  <2>4. FramesInLine'
    <3>1. stop' /\ UNCHANGED <<spc, frame, out, produced, worker, item, open>>
      BY <1>5 DEF HandleCancel, heardVars
    <3> QED BY <3>1, FramesStay DEF SpeechKept
  <2>5. UNCHANGED heardVars
    BY <1>5 DEF HandleCancel
  <2> QED BY <2>1, <2>2, <2>3, <2>4, <2>5, Unheard DEF SpeechKept
<1>6. CASE \E r \in DOMAIN playback : \E s \in 0..(MaxFrames - 1) : HandleAck(r, s)
  <2>1. /\ rpc = "run" /\ rpc' \in {"run", "stopping"} /\ sendQ' = sendQ /\ (stop => stop')
        /\ UNCHANGED heardVars
        /\ UNCHANGED <<generation, inputQ, accepted, buffered, paused, segVars, synVars,
                       workerVars>>
    BY <1>6 DEF HandleAck, EndRun
  <2>2. Honest' /\ Reached' = Reached
    BY <1>1, <2>1, NothingSaid
  <2>3. InputInOrder'
    BY <1>1, <2>1, InputKept
  <2>4. Line' = Line /\ open' = open
    BY <2>1, LineSame DEF heardVars
  <2> QED BY <2>1, <2>2, <2>3, <2>4, SideStep, Unheard
<1>7. CASE HandlePause \/ HandleResume
  <2> DEFINE k == IF HandlePause THEN "paused" ELSE "resumed"
  <2>1. /\ rpc = "run" /\ rpc' = "reply"
        /\ sendQ' = Append(sendQ, Call("reader", Event(k, 0, 0, 0)))
        /\ UNCHANGED heardVars /\ UNCHANGED <<inputVars, segVars, respVars, stop>>
        /\ k = "paused" => paused'
        /\ k = "resumed" => ~paused'
    BY <1>7 DEF HandlePause, HandleResume, Respond
  <2>2. k \in {"reply", "paused", "resumed"} /\ k # "reply"
    OBVIOUS
  <2> HIDE DEF k
  <2>3. Honest' /\ Reached' = Reached
    BY <1>1, <2>1, <2>2, Answered
  <2>4. InputInOrder'
    BY <1>1, <2>1, InputKept
  <2>5. Line' = Line /\ open' = open
    BY <2>1, LineSame DEF heardVars
  <2> QED BY <2>1, <2>3, <2>4, <2>5, SideStep, Unheard
<1>8. CASE HandleUpdate
  <2>1. /\ rpc = "run" /\ rpc' = "updating" /\ sendQ' = sendQ /\ accepted = 0
        /\ UNCHANGED heardVars /\ UNCHANGED <<textVars, respVars, stop>>
    BY <1>8 DEF HandleUpdate, SessionBusy
  <2>2. Honest' /\ Reached' = Reached
    BY <1>1, <2>1, NothingSaid
  <2>3. InputInOrder'
    BY <1>1, <2>1, InputKept
  <2>4. Line' = Line /\ open' = open
    BY <2>1, LineSame DEF heardVars
  <2> QED BY <2>1, <2>2, <2>3, <2>4, SideStep, Unheard
<1>9. ~ClientCloses
  BY DEF ClientCloses, Deaf
<1> QED BY <1>2, <1>3, <1>4, <1>5, <1>6, <1>7, <1>8, <1>9 DEF ClientNext


LEMMA ReplySpeech ==
  ASSUME SpeechKept, SpeechTypes', ~Deaf, NEW sent \in BOOLEAN, ReplySent(sent)
  PROVE  SpeechKept' /\ Allowed
<1>1. /\ rpc = "reply" /\ Transmit("reader", sent) /\ sendQ' = Tail(sendQ)
      /\ rpc' \in {"run", "stopping"} /\ (stop => stop')
      /\ UNCHANGED <<net, generation, inputQ, accepted, buffered, paused, segVars, respVars>>
  BY DEF ReplySent, LoopOrEnd, EndRun, wakeVars
<1>2. UNCHANGED <<spc, item, active, responses, generation, paused, frame, out, produced,
                  worker, segQ, batch, pending>>
  BY <1>1 DEF segVars, respVars, synVars, workerVars
<1>3. Honest /\ SpeechTypes /\ CallsInLine /\ ReaderHonest /\ SynHonest /\ InputInOrder
  BY DEF SpeechKept, Honest
<1>4. /\ CallsInLine' /\ ReaderHonest' /\ SynHonest' /\ FromReader' = Reply
      /\ FromSyn' = FromSyn /\ pos' = (IF FromReader.kind = "cancelled" THEN 0 ELSE pos)
      /\ [Speech!SpeechNext]_(Speech!speechVars)
  BY <1>1, <1>2, <1>3, ReaderHeard
<1>5. open' = open
  <2>1. Hear(FromReader)
    BY <1>1, <1>3, HeardWhileOpen DEF Whom, FromReader
  <2> QED BY <1>3, <2>1 DEF Hear, ReaderHonest, heardVars
<1>6. Now' = Now /\ Reached' = Reached
  <2>1. Reply.kind = "reply"
    BY EventFields DEF Reply
  <2>2. Now' = Now
    BY <1>4, <2>1 DEF Now
  <2> QED BY <1>2, <1>4, <2>2 DEF Reached
<1>7. Line' = Line
  BY <1>2, LineSame
<1>8. InputInOrder'
  BY <1>1, <1>2, <1>3, InputKept
<1> QED BY <1>1, <1>2, <1>4, <1>5, <1>6, <1>7, <1>8, SideStep DEF Honest, Allowed

LEMMA ReaderSpeech ==
  ASSUME SpeechKept, GaugeInv, SpeechTypes', ~Deaf, ~Deaf', ReaderNext
  PROVE  SpeechKept' /\ Allowed
<1> USE DEF sockVars, linkVars, textVars, inputVars, segVars, voiceVars, respVars,
            synVars, workerVars, wakeVars
<1>1. Honest /\ InputInOrder /\ SpeechTypes
  BY DEF SpeechKept, Honest
<1>2. CASE \E sent \in BOOLEAN : ReplySent(sent)
  BY <1>2, ReplySpeech
<1>3. CASE UpdateDone \/ UpdateRefused
  <2>1. /\ rpc = "updating" /\ rpc' = "reply"
        /\ sendQ' = Append(sendQ, Call("reader", Event("reply", 0, 0, 0)))
        /\ UNCHANGED heardVars
        /\ UNCHANGED <<inputVars, paused, batch, segQ, respVars, stop>>
    BY <1>3 DEF UpdateDone, UpdateRefused, Respond, Reply
  <2>2. pending' = pending
    <3>1. CASE UpdateDone
      BY <1>1, <3>1, UpdateKeepsText DEF SpeechKept
    <3>2. CASE UpdateRefused
      BY <3>2 DEF UpdateRefused
    <3> QED BY <1>3, <3>1, <3>2
  <2>3. Honest' /\ Reached' = Reached
    BY <1>1, <2>1, Answered
  <2>4. InputInOrder'
    BY <1>1, <2>1, <2>2, InputKept
  <2>5. Line' = Line /\ open' = open
    BY <2>1, LineSame DEF heardVars
  <2> QED BY <2>1, <2>2, <2>3, <2>4, <2>5, SideStep, Unheard
<1>4. CASE GaveUp
  <2>1. /\ rpc = "gaveUp" /\ rpc' = "stopping" /\ sendQ' = sendQ /\ (stop => stop')
        /\ UNCHANGED heardVars
        /\ UNCHANGED <<generation, inputQ, accepted, buffered, paused, segVars, respVars>>
    BY <1>4 DEF GaveUp, EndRun
  <2>2. Honest' /\ Reached' = Reached
    BY <1>1, <2>1, NothingSaid
  <2>3. InputInOrder'
    BY <1>1, <2>1, InputKept
  <2>4. Line' = Line /\ open' = open
    BY <2>1, LineSame DEF heardVars
  <2> QED BY <2>1, <2>2, <2>3, <2>4, SideStep, Unheard
<1>5. CASE StopSegmenter
  <2>1. /\ rpc = "stopping" /\ rpc' = "joining" /\ sendQ' = sendQ /\ UNCHANGED heardVars
        /\ UNCHANGED <<inputVars, paused, pending, respVars, stop>>
    BY <1>5 DEF StopSegmenter
  <2>2. Honest' /\ Reached' = Reached
    BY <1>1, <2>1, NothingSaid
  <2>3. InputInOrder'
    BY <1>1, <2>1, InputKept
  <2>4. TextInOrder'
    BY <1>1, <1>5, <2>2, StopText DEF SpeechKept
  <2>5. FramesInLine'
    BY <2>1, FramesStay DEF heardVars, SpeechKept
  <2> QED BY <2>1, <2>2, <2>3, <2>4, <2>5, Unheard DEF SpeechKept
<1>7. CASE ShutdownRaises
  <2>1. /\ rpc = "joining" /\ rpc' = "raised" /\ sendQ' = sendQ
        /\ UNCHANGED heardVars /\ UNCHANGED <<textVars, respVars, stop>>
    BY <1>7 DEF ShutdownRaises
  <2>2. Honest' /\ Reached' = Reached
    BY <1>1, <2>1, NothingSaid
  <2>3. InputInOrder'
    BY <1>1, <2>1, InputKept
  <2>4. Line' = Line /\ open' = open
    BY <2>1, LineSame DEF heardVars
  <2> QED BY <2>1, <2>2, <2>3, <2>4, SideStep, Unheard
<1>6. ~NoticeDisconnect /\ ~Joined /\ ~LateRelease /\ ~\E sent \in BOOLEAN : GiveUpSent(sent)
  BY DEF NoticeDisconnect, Joined, LateRelease, GiveUpSent, Deaf
<1> QED BY <1>2, <1>3, <1>4, <1>5, <1>6, <1>7 DEF ReaderNext

LEMMA SegmenterSpeech ==
  ASSUME SpeechKept, GaugeInv, SpeechTypes', SegmenterNext
  PROVE  SpeechKept' /\ Allowed
<1> USE DEF sockVars, linkVars, textVars, inputVars, segVars, voiceVars, respVars,
            synVars, workerVars, wakeVars
<1>1. Honest /\ InputInOrder /\ SpeechTypes
  BY DEF SpeechKept, Honest
<1>2. /\ rpc' = rpc /\ sendQ' = sendQ /\ UNCHANGED heardVars
      /\ UNCHANGED <<generation, paused, respVars, stop>>
  BY DEF SegmenterNext, SegRead, SegPut
<1>3. Honest' /\ Reached' = Reached
  BY <1>1, <1>2, NothingSaid
<1>4. FramesInLine'
  BY <1>2, FramesStay DEF heardVars, SpeechKept
<1>5. CASE SegRead
  BY <1>1, <1>2, <1>3, <1>4, <1>5, ReadText, Unheard DEF SpeechKept
<1>6. CASE SegPut
  <2>1. Line' = Line
    BY <1>1, <1>6, LinePut
  <2>2. UNCHANGED <<generation, inputQ, accepted, buffered, pending>>
    BY <1>6 DEF SegPut
  <2>3. TextInOrder'
    BY <1>3, <2>1, <2>2, TextKept DEF SpeechKept
  <2>4. InputInOrder'
    BY <1>1, <1>2, <2>2, InputKept
  <2> QED BY <1>2, <1>3, <1>4, <2>3, <2>4, Unheard DEF SpeechKept
<1> QED BY <1>5, <1>6 DEF SegmenterNext

LEMMA OtherSpeech ==
  ASSUME SpeechKept, GaugeInv, SpeechTypes', ~Deaf, ~Deaf',
         WorkerNext \/ IdleFires \/ GiveUp \/ JoinTimeout \/ StatusFails \/ Served
  PROVE  SpeechKept' /\ Allowed
<1> USE DEF sockVars, linkVars, textVars, inputVars, segVars, voiceVars, respVars,
            synVars, workerVars, wakeVars
<1>1. Honest /\ InputInOrder /\ SpeechTypes /\ generation \in Nat
  BY Numbers DEF SpeechKept, Honest
<1>2. CASE WorkerNext
  <2>1. /\ rpc' = rpc /\ sendQ' = sendQ /\ UNCHANGED heardVars
        /\ UNCHANGED <<textVars, synVars>>
    BY <1>2 DEF WorkerNext, WorkerStarts, WorkerEmits, WorkerReports, WorkerEnds
  <2>2. Honest' /\ Reached' = Reached
    BY <1>1, <2>1, NothingSaid
  <2>3. FramesInLine'
    BY <1>1, <1>2, WorkerFrames DEF SpeechKept
  <2>4. Line' = Line
    BY <2>1, LineSame
  <2>5. TextInOrder'
    BY <2>1, <2>2, <2>4, TextKept DEF SpeechKept
  <2>6. InputInOrder'
    BY <1>1, <2>1, InputKept
  <2> QED BY <2>1, <2>2, <2>3, <2>5, <2>6, Unheard DEF SpeechKept
<1>3. CASE IdleFires
  <2> DEFINE e == [act |-> "idle", gen |-> generation, n |-> 0]
  <2>1. accepted \in Nat /\ buffered \in Nat
    BY DEF GaugeInv
  <2>2. e \in Input /\ CharsOf(e) = 0 /\ e.act # "commit"
    BY <1>1 DEF Input, CharsOf
  <2>3. /\ rpc' = rpc /\ sendQ' = sendQ /\ inputQ' = Append(inputQ, e)
        /\ accepted' = accepted /\ buffered' = buffered /\ UNCHANGED heardVars
        /\ UNCHANGED <<generation, paused, segVars, respVars, stop>>
    BY <1>3 DEF IdleFires
  <2> HIDE DEF e
  <2>4. accepted' = accepted + CharsOf(e) /\ buffered' = buffered + CharsOf(e)
    BY <2>1, <2>2, <2>3
  <2>5. Honest' /\ Reached' = Reached
    BY <1>1, <2>3, NothingSaid
  <2>6. InputInOrder'
    BY <1>1, <2>2, <2>3, <2>4, InputAppended
  <2>7. Line' = Line /\ open' = open
    BY <2>3, LineSame DEF heardVars
  <2> QED BY <2>3, <2>5, <2>6, <2>7, SideStep, Unheard
<1>4. CASE GiveUp
  <2>1. /\ rpc = "run" /\ rpc' = "givingUp"
        /\ sendQ' = Append(sendQ, Call("reader", Event("reply", 0, 0, 0)))
        /\ UNCHANGED heardVars /\ UNCHANGED <<textVars, respVars, stop>>
    BY <1>4 DEF GiveUp, Reply
  <2>2. Honest' /\ Reached' = Reached
    BY <1>1, <2>1, Answered
  <2>3. InputInOrder'
    BY <1>1, <2>1, InputKept
  <2>4. Line' = Line /\ open' = open
    BY <2>1, LineSame DEF heardVars
  <2> QED BY <2>1, <2>2, <2>3, <2>4, SideStep, Unheard
<1>5. CASE Served
  <2>1. rpc' = rpc /\ sendQ' = sendQ /\ UNCHANGED heardVars /\ UNCHANGED <<textVars, respVars, stop>>
    BY <1>5 DEF Served, vars
  <2>2. Honest' /\ Reached' = Reached
    BY <1>1, <2>1, NothingSaid
  <2>3. InputInOrder'
    BY <1>1, <2>1, InputKept
  <2>4. Line' = Line /\ open' = open
    BY <2>1, LineSame DEF heardVars
  <2> QED BY <2>1, <2>2, <2>3, <2>4, SideStep, Unheard
<1>6. ~JoinTimeout /\ ~StatusFails
  BY DEF JoinTimeout, HandOver, StatusFails, Deaf
<1> QED BY <1>2, <1>3, <1>4, <1>5, <1>6


(* The synthesizer takes nothing from the segmenter's input.               *)
LEMMA InputAside ==
  ASSUME SpeechKept, SynthesizerNext \/ FlowTimeout
  PROVE  InputInOrder'
<1>1. UNCHANGED <<rpc, inputQ, accepted, buffered, pending>>
  <2> USE DEF sockVars, linkVars, textVars, inputVars, segVars, voiceVars
  <2>1. CASE SynStop \/ SynDiscard \/ SynTake \/ SynWake \/ FlowTimeout
    BY <2>1 DEF SynStop, SynDiscard, SynTake, SynWake, FlowTimeout
  <2>2. CASE FrameDropped \/ FrameTaken \/ FrameWake \/ WorkerError \/ WorkerDone \/ Join
    BY <2>2 DEF FrameDropped, FrameTaken, FrameWake, WorkerError, WorkerDone, Join
  <2>3. CASE \E sent \in BOOLEAN :
               \/ ToldSent(sent) \/ CreatedSent(sent) \/ DeltaSent(sent) \/ FlowErrorSent(sent)
               \/ ErrorSent(sent) \/ AudioDoneSent(sent) \/ DoneSent(sent)
    BY <2>3 DEF ToldSent, CreatedSent, DeltaSent, FlowErrorSent, ErrorSent, AudioDoneSent,
       DoneSent
  <2> QED BY <2>1, <2>2, <2>3 DEF SynthesizerNext
<1> QED BY <1>1, InputKept DEF SpeechKept

(* A silent step before a response.                                        *)
LEMMA SilentSpeech ==
  ASSUME SpeechKept, SpeechTypes', sendQ' = sendQ, spc \in {"get", "waiting"},
         spc' \in {"get", "waiting", "exit", "dead"}, responses' \in {responses, responses + 1},
         Line' = Line \/ (Line # <<>> /\ Line' = Tail(Line)),
         UNCHANGED <<rpc, generation, paused, pending, out, produced, heardVars>>,
         InputInOrder'
  PROVE  SpeechKept' /\ Allowed
<1>1. Honest /\ SpeechTypes /\ TextInOrder /\ FramesInLine
  BY DEF SpeechKept, Honest
<1>2. open.gen < generation /\ spc \notin Telling /\ spc' \notin Telling
  BY <1>1 DEF Honest, SynHonest, Telling
<1>3. /\ CallsInLine' /\ ReaderHonest' /\ SynHonest' /\ FromReader' = FromReader
      /\ FromSyn = Reply /\ FromSyn' = Reply
  BY <1>1, <1>2, SilentMove
<1>4. Reached' = Reached
  BY <1>3, ReachedKept DEF heardVars
<1>5. TextInOrder'
  BY <1>1, <1>4, TextKept, TextDropped
<1>6. FramesInLine'
  BY <1>1, FramesOver DEF FramesInLine
<1> QED BY <1>3, <1>5, <1>6, Unheard DEF SpeechKept, Honest

(* An item of this generation is announced.                                *)
LEMMA BeginSpeech ==
  ASSUME SpeechKept, SpeechTypes', Begin(Head(Line)), ~Stale(Head(Line)), FlowOpen,
         Head(Line).kind # "stop", spc \in {"get", "waiting"}, Line # <<>>, Line' = Tail(Line),
         UNCHANGED <<rpc, generation, paused, pending, out, produced, heardVars>>,
         InputInOrder'
  PROVE  SpeechKept' /\ Allowed
<1> DEFINE it == Head(Line)
<1>1. Honest /\ SpeechTypes /\ TextInOrder /\ FramesInLine
  BY DEF SpeechKept, Honest
<1>2. Fresh(it, generation) /\ it.gen = generation /\ ~paused
  BY DEF Fresh, Stale, FlowOpen
<1>3. FromSyn = Reply /\ Reply.kind = "reply"
  <2>1. ~Says(sendQ, "syn") /\ Lined(sendQ)
    BY <1>1 DEF Honest, CallsInLine, Telling
  <2> QED BY <2>1, SilentReplies, EventFields DEF FromSyn, Reply
<1>4. FromSyn.kind \notin Announces
  BY <1>3 DEF Announces
<1>5. it \in Item /\ Further(Now, it)
  <2>1. PICK e \in Nat : CutTo(e)
    BY <1>1 DEF TextInOrder
  <2> QED BY <1>1, <1>2, <1>4, <2>1, TextAhead
<1>6. CASE spc' = "dead"
  <2>1. sendQ' = sendQ /\ responses' = responses + 1
    BY <1>6 DEF Begin, Say
  <2> QED BY <1>6, <2>1, SilentSpeech
<1>7. CASE spc' # "dead"
  <2>1. /\ CallsInLine' /\ ReaderHonest' /\ SynHonest' /\ FromSyn'.kind \in Announces
        /\ FromSyn'.gen = generation /\ FromSyn'.n = it.hi
    <3> HIDE DEF it
    <3>1. Begin(it)
      BY DEF it
    <3> QED BY <1>1, <1>2, <1>5, <1>7, <3>1, BeginHonest
  <2>2. TextInOrder'
    BY <1>1, <1>2, <1>4, <2>1, TextTaken
  <2>3. spc' \in {"told", "announce"}
    BY <1>7 DEF Begin
  <2>4. FramesInLine'
    BY <1>1, <2>3, FramesOver DEF FramesInLine
  <2> QED BY <2>1, <2>2, <2>4, Unheard DEF SpeechKept, Honest
<1> QED BY <1>6, <1>7

LEMMA TakeSpeech ==
  ASSUME SpeechKept, SpeechTypes', SynStop \/ SynDiscard \/ SynTake
  PROVE  SpeechKept' /\ Allowed
<1> USE DEF sockVars, linkVars, textVars, inputVars, segVars, voiceVars, respVars,
            synVars, workerVars, wakeVars
<1>1. Honest /\ SpeechTypes
  BY DEF SpeechKept, Honest
<1>2. InputInOrder'
  BY InputAside DEF SynthesizerNext
<1>3. /\ spc = "get" /\ segQ # <<>> /\ segQ' = Tail(segQ) /\ batch' = batch
      /\ UNCHANGED <<rpc, generation, paused, pending, out, produced, heardVars>>
  BY DEF SynStop, SynDiscard, SynTake
<1>4. spc' # "waiting" => Line # <<>> /\ Head(Line) = Head(segQ) /\ Line' = Tail(Line)
  BY <1>1, <1>3, LineFromQueue
<1>5. CASE SynStop \/ SynDiscard
  <2>1. spc' \in {"get", "exit"} /\ sendQ' = sendQ /\ responses' = responses
    BY <1>3, <1>5 DEF SynStop, SynDiscard
  <2> QED BY <1>2, <1>3, <1>4, <2>1, SilentSpeech
<1>6. CASE SynTake /\ FlowOpen
  <2>1. Begin(Head(segQ)) /\ ~Stale(Head(segQ)) /\ Head(segQ).kind # "stop"
    BY <1>6 DEF SynTake
  <2>2. spc' # "waiting"
    BY <2>1 DEF Begin
  <2> QED BY <1>2, <1>3, <1>4, <1>6, <2>1, <2>2, BeginSpeech
<1>7. CASE SynTake /\ ~FlowOpen
  <2>1. spc' = "waiting" /\ item' = Head(segQ) /\ sendQ' = sendQ /\ responses' = responses
    BY <1>7 DEF SynTake
  <2>2. Line' = Line
    BY <1>1, <1>3, <2>1, LineToWait
  <2> QED BY <1>2, <1>3, <2>1, <2>2, SilentSpeech
<1> QED BY <1>5, <1>6, <1>7

LEMMA WakeSpeech ==
  ASSUME SpeechKept, SpeechTypes', SynWake
  PROVE  SpeechKept' /\ Allowed
<1> USE DEF sockVars, linkVars, textVars, inputVars, segVars, voiceVars, respVars,
            synVars, workerVars, wakeVars
<1>1. Honest /\ SpeechTypes /\ item \in Item
  BY DEF SpeechKept, Honest, SpeechTypes
<1>2. InputInOrder'
  BY InputAside DEF SynthesizerNext
<1>3. /\ spc = "waiting" /\ segQ' = segQ /\ batch' = batch
      /\ UNCHANGED <<rpc, generation, paused, pending, out, produced, heardVars>>
  BY DEF SynWake
<1>4. spc' # "waiting" => Line # <<>> /\ Head(Line) = item /\ Line' = Tail(Line)
  BY <1>1, <1>3, LineFromWait
<1>5. CASE ~Begin(item)
  <2>1. /\ spc' \in {"get", "waiting", "exit"} /\ sendQ' = sendQ /\ responses' = responses
        /\ spc' = "waiting" => item' = item
    BY <1>3, <1>5 DEF SynWake
  <2>2. spc' = "waiting" => Line' = Line
    BY <1>3, <2>1, LineSame
  <2> QED BY <1>2, <1>3, <1>4, <2>1, <2>2, SilentSpeech
<1>6. CASE Begin(item)
  <2>1. spc' \in {"told", "announce", "dead"}
    BY <1>6 DEF Begin
  <2>2. ~Stale(item) /\ FlowOpen
    BY <1>3, <2>1 DEF SynWake
  <2>3. item.kind # "stop"
    BY <1>6 DEF Begin
  <2>4. Begin(Head(Line)) /\ ~Stale(Head(Line)) /\ Head(Line).kind # "stop" /\ Line # <<>>
        /\ Line' = Tail(Line)
    BY <1>4, <1>6, <2>1, <2>2, <2>3
  <2> QED BY <1>2, <1>3, <2>2, <2>4, BeginSpeech
<1> QED BY <1>5, <1>6

LEMMA FrameSpeech ==
  ASSUME SpeechKept, SpeechTypes', FrameDropped \/ FrameTaken \/ FrameWake \/ WorkerDone
  PROVE  SpeechKept' /\ Allowed
<1> USE DEF sockVars, linkVars, textVars, inputVars, segVars, voiceVars, respVars,
            synVars, workerVars, wakeVars
<1>1. Honest /\ SpeechTypes /\ TextInOrder /\ FramesInLine
  BY DEF SpeechKept, Honest
<1>2. InputInOrder'
  BY InputAside DEF SynthesizerNext
<1>3. /\ spc \in {"output", "holding"} /\ spc' \in {"output", "holding", "delta", "join"}
      /\ UNCHANGED <<segQ, batch, pending, rpc, generation, paused, item, active, responses,
                     heardVars>>
  BY DEF FrameDropped, FrameTaken, FrameWake, WorkerDone, SendFrame
<1>4. Line' = Line
  BY <1>3, LineSame
<1>5. ASSUME spc' # "delta" PROVE Honest' /\ TextInOrder' /\ Allowed
  <2>1. sendQ' = sendQ /\ spc \notin Telling /\ spc' \notin Telling
    <3>1. sendQ' = sendQ
      BY <1>5 DEF FrameDropped, FrameTaken, FrameWake, WorkerDone, SendFrame
    <3> QED BY <1>3, <1>5, <3>1 DEF Telling
  <2>2. /\ CallsInLine' /\ ReaderHonest' /\ SynHonest' /\ FromReader' = FromReader
        /\ FromSyn = Reply /\ FromSyn' = Reply
    BY <1>1, <1>3, <2>1, SilentMove
  <2>3. Reached' = Reached
    BY <1>3, <2>2, ReachedKept DEF heardVars
  <2> QED BY <1>1, <1>2, <1>3, <1>4, <2>2, <2>3, TextKept, Unheard DEF Honest
<1>6. ASSUME spc' = "delta" PROVE Honest' /\ TextInOrder' /\ Allowed
  <2> DEFINE f == IF spc = "output" THEN Head(out).seq ELSE frame
  <2>1. SendFrame(f) /\ ~Stale(item) /\ ~paused
    BY <1>6 DEF FrameDropped, FrameTaken, FrameWake, WorkerDone, FlowOpen
  <2>2. f = open.next
    <3>1. CASE FrameTaken
      BY <1>1, <3>1, FrameNext DEF FrameTaken
    <3>2. CASE FrameWake
      BY <1>1, <3>2, WakeFrames DEF FrameWake
    <3>3. ~FrameDropped /\ ~WorkerDone
      BY <1>6 DEF FrameDropped, WorkerDone
    <3> QED BY <3>1, <3>2, <3>3
  <2> HIDE DEF f
  <2>3. /\ CallsInLine' /\ ReaderHonest' /\ SynHonest' /\ FromReader' = FromReader
        /\ FromSyn = Reply /\ FromSyn'.kind = "delta"
    BY <1>1, <1>3, <2>1, <2>2, SendFrameHonest
  <2>4. FromSyn.kind \notin Announces /\ FromSyn'.kind \notin Announces
    BY <2>3, EventFields DEF Announces, Reply
  <2>5. Reached' = Reached
    BY <1>3, <2>3, <2>4, ReachedPast DEF heardVars
  <2> QED BY <1>1, <1>2, <1>3, <1>4, <2>3, <2>5, TextKept, Unheard DEF Honest
<1>7. FramesInLine'
  <2>1. CASE FrameTaken
    BY <1>1, <2>1, FrameNext
  <2>2. CASE FrameWake
    BY <1>1, <2>2, WakeFrames
  <2>3. CASE FrameDropped \/ WorkerDone
    <3>1. /\ out # <<>> /\ out' = Tail(out) /\ UNCHANGED <<produced, stop>>
          /\ spc' = "join" \/ (spc' = "output" /\ (Stale(item) \/ stop))
      BY <2>3 DEF FrameDropped, WorkerDone
    <3>2. out' \in Seq(Chunk) /\ produced' \in Nat
      BY <1>1, <3>1, HeadTailProperties DEF FramesInLine
    <3> QED BY <1>3, <3>1, <3>2 DEF FramesInLine, Stale
  <2> QED BY <2>1, <2>2, <2>3
<1> QED BY <1>2, <1>5, <1>6, <1>7 DEF SpeechKept, Honest


(* An error, or the end of a response.                                     *)
LEMMA EndSpeech ==
  ASSUME SpeechKept, SpeechTypes', ~Deaf, FlowTimeout \/ WorkerError \/ Join
  PROVE  SpeechKept' /\ Allowed
<1> USE DEF sockVars, linkVars, textVars, inputVars, segVars, voiceVars, respVars,
            synVars, workerVars, wakeVars
<1>1. Honest /\ SpeechTypes /\ TextInOrder /\ FramesInLine /\ out \in Seq(Chunk)
      /\ produced \in Nat
  BY DEF SpeechKept, Honest, FramesInLine
<1>2. InputInOrder'
  BY InputAside DEF SynthesizerNext
<1>3. /\ UNCHANGED <<segQ, batch, pending, generation, heardVars>>
      /\ spc' \notin {"output", "holding", "delta", "waiting"}
      /\ spc = "waiting" => FlowTimeout
  BY DEF FlowTimeout, WorkerError, Join, EndResponse
<1>4. /\ CallsInLine' /\ ReaderHonest' /\ SynHonest' /\ FromReader' = FromReader
      /\ FromSyn.kind \notin Announces /\ FromSyn'.kind \notin Announces
  <2>1. Reply.kind = "reply"
    BY EventFields DEF Reply
  <2>2. CASE FlowTimeout \/ WorkerError
    BY <1>1, <2>1, <2>2, ErrorSaid DEF Announces
  <2>3. CASE Join
    BY <1>1, <2>3, JoinHonest DEF Announces
  <2> QED BY <2>2, <2>3
<1>5. Reached' = Reached
  BY <1>3, <1>4, ReachedPast DEF heardVars
<1>6. Line' = Line \/ (Line # <<>> /\ Line' = Tail(Line))
  <2>1. CASE spc = "waiting"
    BY <1>1, <1>3, <2>1, LineFromWait
  <2>2. CASE spc # "waiting"
    BY <1>3, <2>2, LineSame
  <2> QED BY <2>1, <2>2
<1>7. TextInOrder'
  BY <1>1, <1>3, <1>5, <1>6, TextKept, TextDropped
<1>8. out' \in Seq(Chunk) /\ produced' \in Nat
  <2>1. CASE FlowTimeout
    BY <1>1, <2>1 DEF FlowTimeout
  <2>2. CASE WorkerError
    BY <1>1, <2>2, HeadTailProperties DEF WorkerError
  <2>3. CASE Join
    <3>1. UNCHANGED <<out, produced>> \/ (out' = <<>> /\ produced' = 0)
      BY <2>3 DEF Join, EndResponse
    <3>2. <<>> \in Seq(Chunk) /\ 0 \in Nat
      BY EmptySeq
    <3>3. CASE UNCHANGED <<out, produced>>
      BY <1>1, <3>3
    <3>4. CASE out' = <<>> /\ produced' = 0
      BY <3>2, <3>4
    <3> QED BY <3>1, <3>3, <3>4
  <2> QED BY <2>1, <2>2, <2>3
<1>9. FramesInLine'
  BY <1>1, <1>3, <1>8, FramesOver
<1> QED BY <1>2, <1>3, <1>4, <1>7, <1>9, Unheard DEF SpeechKept, Honest

(* input_text.done, input_text.skipped or response.created is heard.       *)
LEMMA AnnouncementHeard ==
  ASSUME Honest, ~Deaf, FromSyn.kind \in Announces, NEW sent \in BOOLEAN,
         Transmit("syn", sent), UNCHANGED <<rpc, generation>>,
         FromReader' = FromReader, FromSyn' = Reply, pos' = FromSyn.n
  PROVE  Reached' = Reached
<1>1. CutThen = cut /\ FromSyn.gen = CutThen
  BY SynHeard, AnnouncedItem DEF Honest
<1>2. Reply.kind \notin Announces
  BY EventFields DEF Reply, Announces
<1>3. Reached' = Now'
  BY <1>2 DEF Reached
<1>4. CASE FromReader.kind = "cancelled"
  <2>1. generation = cut + 1 /\ cut \in Nat
    BY <1>4, Numbers DEF Honest, ReaderHonest
  <2>2. FromSyn.gen # generation
    BY <1>1, <2>1
  <2> QED BY <1>3, <1>4, <2>2 DEF Reached, Now
<1>5. CASE FromReader.kind # "cancelled"
  <2>1. generation = cut
    BY <1>5 DEF Honest, ReaderHonest
  <2> QED BY <1>1, <1>3, <1>5, <2>1 DEF Reached, Now
<1> QED BY <1>4, <1>5

LEMMA SentSpeech ==
  ASSUME SpeechKept, SpeechTypes', ~Deaf, NEW sent \in BOOLEAN,
         \/ ToldSent(sent) \/ CreatedSent(sent) \/ DeltaSent(sent)
         \/ ErrorSent(sent) \/ AudioDoneSent(sent) \/ DoneSent(sent)
  PROVE  SpeechKept' /\ Allowed
<1> USE DEF sockVars, linkVars, textVars, inputVars, segVars, respVars, synVars,
            workerVars
<1>1. Honest /\ SpeechTypes /\ TextInOrder /\ FramesInLine /\ out \in Seq(Chunk)
      /\ produced \in Nat
  BY DEF SpeechKept, Honest, FramesInLine
<1>2. InputInOrder'
  BY InputAside DEF SynthesizerNext
<1>3. /\ UNCHANGED <<segQ, batch, pending, generation, rpc>>
      /\ spc \in Telling /\ spc # "waiting" /\ spc' # "waiting"
  BY DEF ToldSent, CreatedSent, DeltaSent, ErrorSent, AudioDoneSent, DoneSent, EndResponse,
     Telling
<1>4. PICK more : Sent("syn", sent, more)
  BY DEF ToldSent, CreatedSent, DeltaSent, ErrorSent, AudioDoneSent, DoneSent
<1>5. Transmit("syn", sent) /\ stop' = (stop \/ Broken(sent))
  BY <1>4 DEF Sent
<1>6. stop' = stop
  BY <1>1, <1>5, HeardWhileOpen DEF Broken, SpeechTypes, Honest, Whom
<1>7. Line' = Line
  BY <1>3, LineSame
<1>8. Reply.kind \notin Announces
  BY EventFields DEF Reply, Announces
<1>9. ASSUME Reached' = Reached PROVE TextInOrder'
  BY <1>1, <1>3, <1>7, <1>9, TextKept
<1>10. CASE ToldSent(sent)
  <2>1. /\ CallsInLine' /\ ReaderHonest' /\ SynHonest' /\ Allowed
        /\ FromReader' = FromReader /\ FromSyn' = Reply /\ pos' = FromSyn.n
    BY <1>1, <1>10, ToldHeard
  <2>2. FromSyn.kind \in Announces
    BY <1>1, <1>10 DEF ToldSent, Honest, SynHonest, ToldHonest, Announces
  <2>3. Reached' = Reached
    BY <1>1, <1>3, <1>5, <2>1, <2>2, AnnouncementHeard
  <2>4. FramesInLine'
    BY <1>1, <1>10, FramesOver DEF ToldSent
  <2> QED BY <1>2, <1>9, <2>1, <2>3, <2>4 DEF SpeechKept, Honest
<1>11. CASE CreatedSent(sent)
  <2>1. /\ CallsInLine' /\ ReaderHonest' /\ SynHonest' /\ Allowed
        /\ FromReader' = FromReader /\ FromSyn' = Reply /\ pos' = FromSyn.n
        /\ open'.next = 0
    BY <1>1, <1>11, CreatedHeard
  <2>2. FromSyn.kind \in Announces
    BY <1>1, <1>11 DEF CreatedSent, Honest, SynHonest, CreatedHonest, Announces
  <2>3. Reached' = Reached
    BY <1>1, <1>3, <1>5, <2>1, <2>2, AnnouncementHeard
  <2>4. FramesInLine'
    BY <1>11, <2>1, CreatedFrames
  <2> QED BY <1>2, <1>9, <2>1, <2>3, <2>4 DEF SpeechKept, Honest
<1>12. CASE DeltaSent(sent)
  <2>1. /\ CallsInLine' /\ ReaderHonest' /\ SynHonest' /\ Allowed
        /\ FromReader' = FromReader /\ FromSyn' = Reply /\ pos' = pos
        /\ open'.next = open.next + 1
    BY <1>1, <1>12, DeltaHeard
  <2>2. FromSyn.kind \notin Announces
    BY <1>1, <1>12 DEF DeltaSent, Honest, SynHonest, DeltaHonest, Announces
  <2>3. Reached' = Reached
    BY <1>8, <2>1, <2>2, ReachedPast
  <2>4. FramesInLine'
    BY <1>1, <1>6, <1>12, <2>1, DeltaFrames
  <2> QED BY <1>2, <1>9, <2>1, <2>3, <2>4 DEF SpeechKept, Honest
<1>13. CASE ErrorSent(sent)
  <2>1. /\ CallsInLine' /\ ReaderHonest' /\ SynHonest' /\ UNCHANGED heardVars
        /\ FromReader' = FromReader /\ FromSyn' = Reply /\ FromSyn.kind = "reply"
    BY <1>1, <1>13, ErrorHeard
  <2>2. Reached' = Reached
    BY <1>8, <2>1, ReachedPast DEF heardVars, Announces
  <2>3. FramesInLine'
    BY <1>1, <1>13, FramesOver DEF ErrorSent
  <2> QED BY <1>2, <1>9, <2>1, <2>2, <2>3, Unheard DEF SpeechKept, Honest
<1>14. CASE AudioDoneSent(sent)
  <2>1. /\ CallsInLine' /\ ReaderHonest' /\ SynHonest' /\ Allowed
        /\ FromReader' = FromReader /\ FromSyn'.kind = "done" /\ pos' = pos
    BY <1>1, <1>14, AudioDoneHeard
  <2>2. FromSyn.kind \notin Announces /\ FromSyn'.kind \notin Announces
    BY <1>1, <1>14, <2>1 DEF AudioDoneSent, Honest, SynHonest, Announces
  <2>3. Reached' = Reached
    BY <2>1, <2>2, ReachedPast
  <2>4. FramesInLine'
    BY <1>1, <1>14, FramesOver DEF AudioDoneSent
  <2> QED BY <1>2, <1>9, <2>1, <2>3, <2>4 DEF SpeechKept, Honest
<1>15. CASE DoneSent(sent)
  <2>1. /\ CallsInLine' /\ ReaderHonest' /\ SynHonest' /\ Allowed
        /\ FromReader' = FromReader /\ FromSyn' = Reply /\ pos' = pos
        /\ FromSyn.kind \in {"done", "failed"}
    BY <1>1, <1>15, DoneHeard
  <2>2. FromSyn.kind \notin Announces
    BY <2>1 DEF Announces
  <2>3. Reached' = Reached
    BY <1>8, <2>1, <2>2, ReachedPast
  <2>4. /\ out' = <<>> /\ produced' = 0 /\ spc' = "get"
    BY <1>15 DEF DoneSent, EndResponse
  <2>5. out' \in Seq(Chunk) /\ produced' \in Nat
    BY <2>4, EmptySeq
  <2>6. FramesInLine'
    BY <1>1, <2>4, <2>5, FramesOver
  <2> QED BY <1>2, <1>9, <2>1, <2>3, <2>6 DEF SpeechKept, Honest
<1> QED BY <1>10, <1>11, <1>12, <1>13, <1>14, <1>15

LEMMA SynthesizerSpeech ==
  ASSUME SpeechKept, SpeechTypes', ~Deaf, ~Deaf', SynthesizerNext
  PROVE  SpeechKept' /\ Allowed
<1>1. ~\E sent \in BOOLEAN : FlowErrorSent(sent)
  BY DEF FlowErrorSent, Deaf
<1> QED BY <1>1, TakeSpeech, WakeSpeech, FrameSpeech, EndSpeech, SentSpeech DEF SynthesizerNext

(* The step after which the client hears nothing any more tells it nothing. *)
LEMMA LastWords ==
  ASSUME SpeechKept, ~Deaf, Deaf', Next
  PROVE  Allowed
<1> USE DEF sockVars, linkVars, textVars, inputVars, segVars, voiceVars, respVars,
            synVars, workerVars, wakeVars
<1>1. Honest /\ SpeechTypes /\ CallsInLine /\ ReaderHonest /\ SynHonest
  BY DEF SpeechKept, Honest
<1>2. CASE \E sent \in BOOLEAN : GiveUpSent(sent)
  <2>1. PICK sent \in BOOLEAN : GiveUpSent(sent)
    BY <1>2
  <2>2. Transmit("reader", sent) /\ rpc = "givingUp"
    BY <2>1 DEF GiveUpSent, Sent
  <2>3. EventOf(sendQ, "reader").kind = "reply"
    BY <1>1, <2>2 DEF ReaderHonest, FromReader
  <2>4. UNCHANGED heardVars
    BY <1>1, <2>2, <2>3, ReplyHeard DEF Whom
  <2> QED BY <2>4, Unheard
<1>3. CASE \E sent \in BOOLEAN : FlowErrorSent(sent)
  <2>1. PICK sent \in BOOLEAN : FlowErrorSent(sent)
    BY <1>3
  <2>2. Transmit("syn", sent) /\ spc \in {"stalled", "stalledHolding"}
    BY <2>1 DEF FlowErrorSent
  <2>3. EventOf(sendQ, "syn").kind = "reply"
    BY <1>1, <2>2 DEF SynHonest, FromSyn
  <2>4. UNCHANGED heardVars
    BY <1>1, <2>2, <2>3, ReplyHeard DEF Whom
  <2> QED BY <2>4, Unheard
<1>4. ASSUME NEW who \in Whom, NEW sent \in BOOLEAN, Transmit(who, sent),
             net' = net, rpc' \notin {"late", "over"}
      PROVE  FALSE
  BY <1>1, <1>4, HeardWhileOpen DEF Deaf
<1>5. CASE \E sent \in BOOLEAN :
              \/ ReplySent(sent) \/ ToldSent(sent) \/ CreatedSent(sent) \/ DeltaSent(sent)
              \/ ErrorSent(sent) \/ AudioDoneSent(sent) \/ DoneSent(sent)
  <2>1. PICK sent \in BOOLEAN :
              \/ ReplySent(sent) \/ ToldSent(sent) \/ CreatedSent(sent) \/ DeltaSent(sent)
              \/ ErrorSent(sent) \/ AudioDoneSent(sent) \/ DoneSent(sent)
    BY <1>5
  <2>2. CASE ReplySent(sent)
    <3>1. Transmit("reader", sent) /\ net' = net /\ rpc' \in {"run", "stopping"}
      BY <2>2 DEF ReplySent, LoopOrEnd, EndRun
    <3> QED BY <1>4, <3>1 DEF Whom
  <2>3. CASE ~ReplySent(sent)
    <3>1. Transmit("syn", sent) /\ net' = net /\ rpc' = rpc
      BY <2>1, <2>3 DEF ToldSent, CreatedSent, DeltaSent, ErrorSent, AudioDoneSent, DoneSent,
         Sent
    <3> QED BY <1>4, <3>1 DEF Whom, Deaf
  <2> QED BY <2>2, <2>3
<1>6. CASE ClientNext \/ SegmenterNext
  BY <1>6, Unheard DEF ClientNext, Connect, HandleAppend, HandleCommit, HandleCancel, HandleAck,
     HandlePause, HandleResume, HandleUpdate, HandleOther, ClientCloses, SegmenterNext, SegRead,
     SegPut
<1>7. CASE UpdateDone \/ UpdateRefused \/ GaveUp \/ NoticeDisconnect \/ StopSegmenter \/ Joined
           \/ ShutdownRaises \/ LateRelease
  BY <1>7, Unheard DEF UpdateDone, UpdateRefused, GaveUp, NoticeDisconnect, StopSegmenter, Joined,
     ShutdownRaises, LateRelease
<1>8. CASE SynStop \/ SynDiscard \/ SynTake \/ SynWake
  BY <1>8, Unheard DEF SynStop, SynDiscard, SynTake, SynWake
<1>9. CASE FrameDropped \/ FrameTaken \/ FrameWake \/ WorkerError \/ WorkerDone \/ Join
  BY <1>9, Unheard DEF FrameDropped, FrameTaken, FrameWake, WorkerError, WorkerDone, Join
<1>10. CASE WorkerNext \/ TimerNext \/ StatusFails \/ Served
  BY <1>10, Unheard DEF WorkerNext, WorkerStarts, WorkerEmits, WorkerReports, WorkerEnds,
     TimerNext, IdleFires, GiveUp, FlowTimeout, JoinTimeout, StatusFails, Served, vars
<1> QED BY <1>2, <1>3, <1>5, <1>6, <1>7, <1>8, <1>9, <1>10 DEF Next, ReaderNext, SynthesizerNext

LEMMA NothingHeard ==
  ASSUME ReaderShape, Deaf, Next
  PROVE  Allowed
<1> USE DEF sockVars, linkVars, textVars, inputVars, segVars, voiceVars, respVars,
            synVars, workerVars, wakeVars
<1>1. rpc \in {"late", "over"} => spc = "exit"
  BY DEF ReaderShape
<1>2. ASSUME NEW who, NEW sent, Transmit(who, sent), rpc \notin {"late", "over"}
      PROVE  UNCHANGED heardVars
  BY <1>2 DEF Transmit, Deaf
<1>3. CASE \E sent \in BOOLEAN :
              \/ ReplySent(sent) \/ GiveUpSent(sent) \/ ToldSent(sent) \/ CreatedSent(sent)
              \/ DeltaSent(sent) \/ FlowErrorSent(sent) \/ ErrorSent(sent)
              \/ AudioDoneSent(sent) \/ DoneSent(sent)
  <2>1. PICK sent \in BOOLEAN :
              \/ ReplySent(sent) \/ GiveUpSent(sent) \/ ToldSent(sent) \/ CreatedSent(sent)
              \/ DeltaSent(sent) \/ FlowErrorSent(sent) \/ ErrorSent(sent)
              \/ AudioDoneSent(sent) \/ DoneSent(sent)
    BY <1>3
  <2>2. CASE ReplySent(sent) \/ GiveUpSent(sent)
    <3>1. Transmit("reader", sent) /\ rpc \in {"reply", "givingUp"}
      BY <2>2 DEF ReplySent, GiveUpSent, Sent
    <3> QED BY <1>2, <3>1, Unheard
  <2>3. CASE ~(ReplySent(sent) \/ GiveUpSent(sent))
    <3>1. Transmit("syn", sent) /\ spc # "exit"
      BY <2>1, <2>3 DEF ToldSent, CreatedSent, DeltaSent, FlowErrorSent, ErrorSent,
         AudioDoneSent, DoneSent, Sent
    <3> QED BY <1>1, <1>2, <3>1, Unheard
  <2> QED BY <2>2, <2>3
<1>6. CASE ClientNext \/ SegmenterNext
  BY <1>6, Unheard DEF ClientNext, Connect, HandleAppend, HandleCommit, HandleCancel, HandleAck,
     HandlePause, HandleResume, HandleUpdate, HandleOther, ClientCloses, SegmenterNext, SegRead,
     SegPut
<1>7. CASE UpdateDone \/ UpdateRefused \/ GaveUp \/ NoticeDisconnect \/ StopSegmenter \/ Joined
           \/ ShutdownRaises \/ LateRelease
  BY <1>7, Unheard DEF UpdateDone, UpdateRefused, GaveUp, NoticeDisconnect, StopSegmenter, Joined,
     ShutdownRaises, LateRelease
<1>8. CASE SynStop \/ SynDiscard \/ SynTake \/ SynWake
  BY <1>8, Unheard DEF SynStop, SynDiscard, SynTake, SynWake
<1>9. CASE FrameDropped \/ FrameTaken \/ FrameWake \/ WorkerError \/ WorkerDone \/ Join
  BY <1>9, Unheard DEF FrameDropped, FrameTaken, FrameWake, WorkerError, WorkerDone, Join
<1>10. CASE WorkerNext \/ TimerNext \/ StatusFails \/ Served
  BY <1>10, Unheard DEF WorkerNext, WorkerStarts, WorkerEmits, WorkerReports, WorkerEnds,
     TimerNext, IdleFires, GiveUp, FlowTimeout, JoinTimeout, StatusFails, Served, vars
<1> QED BY <1>3, <1>6, <1>7, <1>8, <1>9, <1>10 DEF Next, ReaderNext, SynthesizerNext

LEMMA InitSpeech == Init => SpeechInv /\ Speech!SpeechInit
<1> SUFFICES ASSUME Init PROVE SpeechKept /\ Speech!SpeechInit
  BY DEF SpeechInv
<1> USE DEF Init, Speech!SpeechInit
<1>1. Speech!SpeechInit /\ sendQ = <<>> /\ Len(sendQ) = 0
  BY EmptySeq
<1>2. open \in Response /\ open.id = 0 /\ open.gen = -1
  BY <1>1 DEF Speech!NoResponse, Response
<1>3. SpeechTypes
  <2>1. <<>> \in Seq(Item) /\ [lo |-> 0, hi |-> 0] \in [lo : Nat, hi : Nat]
    BY EmptySeq
  <2>2. segQ \in Seq(Item) /\ batch \in Seq(Item) /\ pending \in [lo : Nat, hi : Nat]
    BY <2>1
  <2>3. item \in Item
    BY StopTyped
  <2>4. net \in {"open", "closed"} /\ disconnected \in BOOLEAN /\ stop \in BOOLEAN
        /\ quiet \in BOOLEAN /\ paused \in BOOLEAN /\ flawed \in BOOLEAN
    BY <1>1
  <2>5. cut \in Nat /\ closed \in Nat /\ pos \in Nat
        /\ generation \in Nat /\ active \in Nat /\ responses \in Nat
    BY <1>1
  <2> QED BY <1>2, <2>2, <2>3, <2>4, <2>5 DEF SpeechTypes
<1>4. CallsInLine
  BY <1>1, EmptySeq DEF CallsInLine, Lined, Says
<1>5. FromReader = Reply /\ FromSyn = Reply /\ Reply.kind = "reply"
  BY <1>1, EventFields DEF FromReader, FromSyn, EventOf, Reply
<1>6. ReaderHonest
  BY <1>5 DEF ReaderHonest
<1>7. SynHonest
  BY <1>2 DEF SynHonest
<1>8. FramesInLine
  BY EmptySeq DEF FramesInLine
<1>9. TextInOrder
  <2>1. Waits = <<>> /\ Waits \o segQ = <<>> /\ Line = <<>>
    BY ConcatEmptySeq, EmptySeq DEF Waits, Line
  <2>2. Reached = 0 /\ pending.lo = 0 /\ pending.hi = 0
    BY <1>5 DEF Reached, Now, Announces
  <2> QED BY <2>1, <2>2, EmptyOrdered DEF TextInOrder, CutTo
<1>10. InputInOrder
  BY EmptySeq DEF InputInOrder
<1> QED BY <1>1, <1>3, <1>4, <1>6, <1>7, <1>8, <1>9, <1>10 DEF SpeechKept, Honest

LEMMA NextSpeech ==
  ASSUME ReaderShape, GaugeInv, SpeechInv, [Next]_vars
  PROVE  SpeechInv' /\ Allowed
<1>1. CASE Next
  <2>1. CASE Deaf
    BY <1>1, <2>1, DeafIsDeaf, NothingHeard DEF SpeechInv
  <2>2. CASE ~Deaf /\ Deaf'
    BY <1>1, <2>2, LastWords DEF SpeechInv
  <2>3. CASE ~Deaf /\ ~Deaf'
    <3>1. SpeechKept
      BY <2>3 DEF SpeechInv
    <3>2. SpeechTypes'
      BY <1>1, <3>1, NextTypes DEF SpeechKept, Honest
    <3>3. SpeechKept' /\ Allowed
      BY <1>1, <2>3, <3>1, <3>2, ClientSpeech, ReaderSpeech, SegmenterSpeech, SynthesizerSpeech,
         EndSpeech, OtherSpeech DEF Next, TimerNext
    <3> QED BY <3>3 DEF SpeechInv
  <2> QED BY <2>1, <2>2, <2>3
<1>2. CASE UNCHANGED vars
  <2> USE DEF vars, linkVars, textVars, inputVars, segVars, voiceVars, respVars,
              synVars, workerVars, wakeVars
  <2>1. Allowed
    BY <1>2, Unheard
  <2>2. ASSUME ~Deaf' PROVE SpeechKept'
    <3>1. ~Deaf /\ SpeechKept
      BY <1>2, <2>2 DEF Deaf, SpeechInv
    <3>2. SpeechTypes'
      BY <3>1, NextTypes DEF SpeechKept, Honest
    <3>3. Honest /\ InputInOrder
      BY <3>1 DEF SpeechKept
    <3>4. Honest' /\ Reached' = Reached
      BY <1>2, <3>2, <3>3, NothingSaid
    <3>5. InputInOrder'
      BY <1>2, <3>3, InputKept
    <3>6. Line' = Line /\ open' = open
      BY <1>2, LineSame DEF heardVars
    <3> QED BY <1>2, <3>1, <3>4, <3>5, <3>6, SideStep
  <2> QED BY <2>1, <2>2 DEF SpeechInv
<1> QED BY <1>1, <1>2

(* A Live Reader session implements LiveSpeech: whatever its four          *)
(* activities do, and however the send lock orders what they say, each     *)
(* event that the client hears is one that LiveSpeech allows next          *)
(* (server.py:290-330, 579-618, 692-900).                                  *)
THEOREM RefinesSpeech == Spec => SpeechContract
<1>1. Init => SpeechInv /\ Speech!SpeechInit
  BY InitSpeech
<1>2. ReaderShape /\ GaugeInv /\ SpeechInv /\ [Next]_vars
        => SpeechInv' /\ [Speech!SpeechNext]_(Speech!speechVars)
  BY NextSpeech DEF Allowed
<1> QED
  BY <1>1, <1>2, ShapeInvariant, GaugeInvariant, PTL DEF Spec, SpeechContract, Speech!SpeechSpec

=============================================================================
