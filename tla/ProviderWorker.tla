--------------------------- MODULE ProviderWorker ---------------------------
(* A provider worker: a process of its own that holds one model on the GPU *)
(* and serves load, unload and speech requests of the gateway, one at a    *)
(* time, under operation_lock.  There are three workers with the same      *)
(* routes and different insides, and one of them is chosen at the start:   *)
(*   qwen3       a producer task makes one segment after the other and     *)
(*               puts it into a queue of two that the response reads;      *)
(*   cosyvoice   the response itself asks the model for the next chunk;    *)
(*   chatterbox  the whole text is made before the response starts, and    *)
(*               after an unload the process restarts once it is idle.     *)
(* A step is what runs between two awaits of the event loop, or the end of *)
(* a call in a thread.  Audio is the number of its segment.                *)
EXTENDS Naturals, SequencesExt

CONSTANTS Model, NoModel, Engines,
          QueueSize,    \* maxsize of the audio queue
          MaxRequests, MaxParts

ASSUME WorkerAssumption ==
  /\ NoModel \notin Model
  /\ Engines \subseteq {"qwen3", "cosyvoice", "chatterbox"}
  /\ QueueSize \in Nat /\ QueueSize > 1
  /\ MaxRequests \in Nat /\ MaxParts \in Nat

VARIABLES engine,
          lock,      \* who holds operation_lock: Free, a request or Restarter
          line,      \* who waits for it, in order
          model,     \* the runtime's model
          failed,    \* runtime.failed_code: the CUDA context is lost
          cuda,      \* runtime.cuda_used
          restart,   \* _restart_when_idle: "none", "sleeping", "queued"
          doom,      \* "term" after SIGTERM, "exit" when os._exit is scheduled
          asked,     \* the requests that have come
          job,       \* request -> operation, model, state of handler and body
          made       \* request -> producer, queue and audio of a speech request

process == <<model, failed, cuda, restart, doom>>
vars == <<engine, lock, line, process, asked, job, made>>

Request   == 1..MaxRequests
Free      == 0
Restarter == MaxRequests + 1
Op        == {"load", "unload", "speech"}

NoJob  == [op |-> "none", want |-> NoModel, pc |-> "none", thread |-> FALSE,
           gone |-> FALSE, answer |-> "none"]
NoAudio == [total |-> 0, next |-> 0, producer |-> "off", queue |-> <<>>, hand |-> FALSE,
            heard |-> 0, closed |-> FALSE]

(* No request is served, and so many have been. *)
Idle(n) ==
  /\ engine \in Engines
  /\ lock = Free /\ line = <<>>
  /\ model \in Model \cup {NoModel}
  /\ cuda = (engine = "chatterbox" /\ model # NoModel)
  /\ failed = FALSE /\ restart = "none" /\ doom = "no"
  /\ asked = n
  /\ job = [r \in Request |-> NoJob]
  /\ made = [r \in Request |-> NoAudio]

Init == Idle(0)

-----------------------------------------------------------------------------
(* The lock.  A release lets the first in line take it, which happens in a *)
(* later step: until then locked() says FALSE and newcomers join the line. *)
Locked == lock # Free
Busy   == {r \in Request : job[r].thread}

(* Who has been asked and not answered, or is still being read. *)
Open == {r \in Request : job[r].pc \notin {"none", "done"}}

Answered(j, how) == [NoJob EXCEPT !.op = j.op, !.pc = "done", !.answer = how]

(* A restart that is scheduled, or taken back, replaces the one before,    *)
(* which may be waiting for the lock.                                      *)
WithoutRestart == RemoveFirst(line, Restarter)

(* _schedule_restart: after an unload and after a load that failed. *)
ScheduleRestart(used) ==
  IF engine = "chatterbox" /\ used
  THEN restart' = "sleeping" /\ line' = WithoutRestart
  ELSE UNCHANGED <<restart, line>>

-----------------------------------------------------------------------------
(* What the holder of the lock starts with: a thread in the runtime, or an *)
(* answer at once.  Text that is only white space has no segment.          *)
BeginLoad(r, m) ==
  /\ lock' = r
  /\ job' = [job EXCEPT ![r] = [@ EXCEPT !.op = "load", !.want = m, !.pc = "run",
                                         !.thread = TRUE]]
  /\ UNCHANGED made

BeginUnload(r, m) ==
  LET j == [job[r] EXCEPT !.op = "unload", !.want = m] IN
  /\ UNCHANGED made
  /\ \/ /\ model \notin {NoModel, m}
        /\ lock' = Free
        /\ job' = [job EXCEPT ![r] = Answered(j, "refused")]
     \/ /\ model \in {NoModel, m}
        /\ lock' = r
        /\ job' = [job EXCEPT ![r] = [j EXCEPT !.pc = "run", !.thread = TRUE]]

QwenSpeech(r, m) ==
  \E n \in 0..MaxParts :
    /\ made' = [made EXCEPT ![r] = [@ EXCEPT !.total = n, !.next = 1,
                                    !.producer = IF n = 0 THEN "end" ELSE "generate"]]
    /\ job' = [job EXCEPT ![r] = [@ EXCEPT !.op = "speech", !.want = m, !.pc = "first",
                                           !.thread = n > 0]]

CosySpeech(r, m) ==
  \E n \in 1..MaxParts :
    /\ made' = [made EXCEPT ![r] = [@ EXCEPT !.total = n, !.next = 1]]
    /\ job' = [job EXCEPT ![r] = [@ EXCEPT !.op = "speech", !.want = m, !.pc = "first",
                                           !.thread = TRUE]]

ChatterboxSpeech(r, m) ==
  /\ made' = [made EXCEPT ![r] = [@ EXCEPT !.total = 1, !.next = 1]]
  /\ job' = [job EXCEPT ![r] = [@ EXCEPT !.op = "speech", !.want = m, !.pc = "first",
                                         !.thread = TRUE]]

(* Mutant: the lock is tested and not acquired. *)
BeginSpeechUnlocked(r, m) ==
  /\ UNCHANGED lock
  /\ \/ engine = "qwen3"      /\ QwenSpeech(r, m)
     \/ engine = "cosyvoice"  /\ CosySpeech(r, m)
     \/ engine = "chatterbox" /\ ChatterboxSpeech(r, m)

BeginSpeech(r, m) ==
  /\ lock' = r
  /\ \/ engine = "qwen3"      /\ QwenSpeech(r, m)
     \/ engine = "cosyvoice"  /\ CosySpeech(r, m)
     \/ engine = "chatterbox" /\ ChatterboxSpeech(r, m)

Begin(r, op, m) ==
  \/ op = "load"   /\ BeginLoad(r, m)
  \/ op = "unload" /\ BeginUnload(r, m)
  \/ op = "speech" /\ BeginSpeech(r, m)

(* A request comes.  A load first takes a pending restart back, also when  *)
(* it is refused next.  A worker whose CUDA context is lost refuses with   *)
(* 503 (a load finds that out in the runtime), a locked one with 429.      *)
(* Else the request gets the lock, or a place in line behind a restart.    *)
Cancels(op) == engine = "chatterbox" /\ op = "load"
Lost(op)    == failed /\ op # "load"

Arrive(op, m) ==
  LET r     == asked + 1
      ahead == IF Cancels(op) THEN WithoutRestart ELSE line
      taken == [job[r] EXCEPT !.op = op, !.want = m]
  IN
  /\ asked < MaxRequests
  /\ asked' = r
  /\ restart' = IF Cancels(op) THEN "none" ELSE restart
  /\ \/ /\ Lost(op) \/ Locked
        /\ job' = [job EXCEPT ![r] = Answered(taken, "refused")]
        /\ line' = ahead
        /\ UNCHANGED <<lock, made>>
     \/ /\ ~Lost(op) /\ ~Locked /\ ahead = <<>>
        /\ line' = <<>>
        /\ Begin(r, op, m)
     \/ /\ ~Lost(op) /\ ~Locked /\ ahead # <<>>
        /\ line' = Append(ahead, r)
        /\ job' = [job EXCEPT ![r] = [taken EXCEPT !.pc = "wait"]]
        /\ UNCHANGED <<lock, made>>
  /\ UNCHANGED <<engine, model, failed, cuda, doom>>

(* The first in line takes a lock that was released. *)
TakeLock ==
  /\ ~Locked /\ line # <<>> /\ Head(line) \in Request
  /\ LET r == Head(line) IN
     /\ job[r].pc = "wait"
     /\ line' = Tail(line)
     /\ Begin(r, job[r].op, job[r].want)
  /\ UNCHANGED <<engine, process, asked>>

-----------------------------------------------------------------------------
(* Load and unload, when their thread ends.  A load unloads what was there *)
(* before it finds out that the new model does not load; a model that is   *)
(* there already is left alone.  Only qwen3 knows a lost CUDA context.     *)
Emptied == model' = NoModel

Loaded(r) ==
  /\ ~failed
  /\ model' = job[r].want
  /\ cuda' = (cuda \/ (engine = "chatterbox" /\ model # job[r].want))
  /\ job' = [job EXCEPT ![r] = Answered(@, "ok")]
  /\ UNCHANGED <<failed, doom, restart, line>>

LoadFailed(r) ==
  /\ ~failed /\ model # job[r].want
  /\ Emptied
  /\ cuda' \in IF engine = "chatterbox" THEN {cuda, TRUE} ELSE {cuda}
  /\ ScheduleRestart(cuda')
  /\ job' = [job EXCEPT ![r] = Answered(@, "failed")]
  /\ UNCHANGED <<failed, doom>>

LoadBroken(r) ==
  /\ engine = "qwen3"
  /\ failed \/ model # job[r].want
  /\ model' = IF failed THEN model ELSE NoModel
  /\ failed' = TRUE
  /\ doom' = "exit"
  /\ job' = [job EXCEPT ![r] = Answered(@, "failed")]
  /\ UNCHANGED <<cuda, restart, line>>

EndLoad(r) ==
  /\ job[r].op = "load" /\ job[r].pc = "run"
  /\ lock' = Free
  /\ Loaded(r) \/ LoadFailed(r) \/ LoadBroken(r)
  /\ UNCHANGED <<engine, asked, made>>

EndUnload(r) ==
  /\ job[r].op = "unload" /\ job[r].pc = "run"
  /\ lock' = Free
  /\ Emptied
  /\ ScheduleRestart(cuda)
  /\ job' = [job EXCEPT ![r] = Answered(@, "ok")]
  /\ UNCHANGED <<engine, failed, cuda, doom, asked, made>>

-----------------------------------------------------------------------------
(* The reader of a speech response is the gateway.  It takes what was sent *)
(* when it likes, and may leave; only then the lock is at its mercy where  *)
(* the response holds it.                                                  *)
Reading(r) == job[r].pc = "body" /\ ~job[r].gone

Read(r) ==
  /\ Reading(r) /\ made[r].hand
  /\ made' = [made EXCEPT ![r] = [@ EXCEPT !.hand = FALSE, !.heard = made[r].heard + 1]]
  /\ UNCHANGED <<engine, lock, line, process, asked, job>>

Leave(r) ==
  /\ job[r].pc \in {"first", "body"} /\ ~job[r].gone
  /\ job' = [job EXCEPT ![r] = [@ EXCEPT !.gone = TRUE]]
  /\ UNCHANGED <<engine, lock, line, process, asked, made>>

(* The model can be asked for this request. *)
Ready(r) == ~failed /\ model = job[r].want

-----------------------------------------------------------------------------
(* qwen3: the producer.  put_unless_closed succeeds when the queue has     *)
(* room, also for a consumer that is closed; at a full queue it fails when *)
(* the consumer is closed or has not read for STREAM_QUEUE_TIMEOUT_S.      *)
Full(r) == Len(made[r].queue) >= QueueSize

(* The next segment, unless the consumer was closed or the client left.    *)
Onward(r) ==
  LET stop == made[r].next >= made[r].total \/ made[r].closed \/ job[r].gone IN
  /\ made' = [made EXCEPT ![r] =
       [@ EXCEPT !.queue = Append(made[r].queue, "audio"),
                 !.next = IF stop THEN made[r].next ELSE made[r].next + 1,
                 !.producer = IF stop THEN "end" ELSE "generate"]]
  /\ job' = [job EXCEPT ![r] = [@ EXCEPT !.thread = ~stop]]

Generated(r) ==
  /\ Ready(r)
  /\ made' = [made EXCEPT ![r] =
       [@ EXCEPT !.producer = IF made[r].closed THEN "end" ELSE "put"]]
  /\ UNCHANGED <<failed, doom>>

GenerateFailed(r) ==
  /\ made' = [made EXCEPT ![r] = [@ EXCEPT !.producer = "fail"]]
  /\ UNCHANGED <<failed, doom>>

ContextLost(r) ==
  /\ made' = [made EXCEPT ![r] = [@ EXCEPT !.producer = "fail"]]
  /\ failed' = TRUE
  /\ doom' = "exit"

EndGenerate(r) ==
  /\ made[r].producer = "generate"
  /\ job' = [job EXCEPT ![r] = [@ EXCEPT !.thread = FALSE]]
  /\ Generated(r) \/ GenerateFailed(r) \/ ContextLost(r)
  /\ UNCHANGED <<engine, lock, line, model, cuda, restart, asked>>

(* force_terminal: what nobody reads makes room for the end of the stream. *)
Displace(r, items) ==
  /\ made' = [made EXCEPT ![r] = [@ EXCEPT !.queue = items, !.producer = "off",
                                           !.closed = made[r].closed \/ items # <<"end">>]]
  /\ lock' = Free
  /\ UNCHANGED job

Put(r) ==
  /\ made[r].producer = "put" /\ ~Full(r)
  /\ Onward(r)
  /\ UNCHANGED lock

PutError(r) ==
  /\ made[r].producer = "fail" /\ ~Full(r)
  /\ made' = [made EXCEPT ![r] = [@ EXCEPT !.queue = Append(made[r].queue, "error"),
                                           !.producer = "end"]]
  /\ UNCHANGED <<lock, job>>

PutEnd(r) ==
  /\ made[r].producer = "end" /\ ~Full(r)
  /\ made' = [made EXCEPT ![r] = [@ EXCEPT !.queue = Append(made[r].queue, "end"),
                                           !.producer = "off"]]
  /\ lock' = Free
  /\ UNCHANGED job

(* Mutant: the end marker waits for a reader that is still connected. *)
GiveUpPatiently(r) ==
  /\ Full(r)
  /\ \/ made[r].producer \in {"put", "fail"} /\ Displace(r, <<"error", "end">>)
     \/ made[r].producer = "end" /\ made[r].closed /\ Displace(r, <<"end">>)

GiveUp(r) ==
  /\ Full(r)
  /\ \/ made[r].producer \in {"put", "fail"} /\ Displace(r, <<"error", "end">>)
     \/ made[r].producer = "end" /\ Displace(r, <<"end">>)

Produce(r) ==
  /\ Put(r) \/ PutError(r) \/ PutEnd(r) \/ GiveUp(r)
  /\ UNCHANGED <<engine, line, process, asked>>

(* The handler awaits the first item: audio starts the response; anything  *)
(* else closes the consumer, waits for the producer and is an error.       *)
FirstItem(r) ==
  /\ job[r].pc = "first" /\ made[r].queue # <<>>
  /\ IF Head(made[r].queue) = "audio"
     THEN /\ made' = [made EXCEPT ![r] = [@ EXCEPT !.queue = Tail(made[r].queue), !.hand = TRUE]]
          /\ job' = [job EXCEPT ![r] = [@ EXCEPT !.pc = "body"]]
     ELSE /\ made' = [made EXCEPT ![r] = [@ EXCEPT !.queue = Tail(made[r].queue), !.closed = TRUE]]
          /\ job' = [job EXCEPT ![r] = [@ EXCEPT !.pc = "join"]]

JoinProducer(r) ==
  /\ job[r].pc = "join" /\ made[r].producer = "off"
  /\ job' = [job EXCEPT ![r] = Answered(@, "failed")]
  /\ UNCHANGED made

(* generate(): the next item, once the last one was taken.                 *)
NextItem(r) ==
  /\ Reading(r) /\ ~made[r].hand /\ made[r].queue # <<>>
  /\ IF Head(made[r].queue) = "audio"
     THEN /\ made' = [made EXCEPT ![r] = [@ EXCEPT !.queue = Tail(made[r].queue), !.hand = TRUE]]
          /\ UNCHANGED job
     ELSE /\ made' = [made EXCEPT ![r] = [@ EXCEPT !.queue = Tail(made[r].queue), !.closed = TRUE]]
          /\ job' = [job EXCEPT ![r] = [@ EXCEPT !.pc = "done",
                       !.answer = IF Head(made[r].queue) = "end" THEN "ok" ELSE "failed"]]

(* The client has left: the generator's finally or the background task     *)
(* closes the consumer, and the producer notices.                          *)
CloseConsumer(r) ==
  /\ job[r].pc = "body" /\ job[r].gone
  /\ made' = [made EXCEPT ![r] = [@ EXCEPT !.closed = TRUE, !.hand = FALSE]]
  /\ job' = [job EXCEPT ![r] = [@ EXCEPT !.pc = "done", !.answer = "left"]]

QwenReply(r) ==
  /\ engine = "qwen3"
  /\ FirstItem(r) \/ JoinProducer(r) \/ NextItem(r) \/ CloseConsumer(r)
  /\ UNCHANGED <<engine, lock, line, process, asked>>

-----------------------------------------------------------------------------
(* cosyvoice and chatterbox: the response holds the lock itself.  A body   *)
(* that ends, whichever way, releases it.                                  *)
Release(r, how) ==
  /\ lock' = Free
  /\ job' = [job EXCEPT ![r] = [@ EXCEPT !.pc = "done", !.answer = how]]

(* The first call into the model, for a reference that may be refused, a   *)
(* model that is not there and an inference that may fail.                 *)
FirstMade(r) ==
  /\ Ready(r)
  /\ made' = [made EXCEPT ![r] = [@ EXCEPT !.hand = TRUE]]
  /\ job' = [job EXCEPT ![r] = [@ EXCEPT !.pc = "body", !.thread = FALSE]]
  /\ UNCHANGED lock

FirstFailed(r) ==
  /\ lock' = Free
  /\ job' = [job EXCEPT ![r] = Answered(@, "failed")]
  /\ UNCHANGED made

FirstAudio(r) ==
  /\ engine # "qwen3"
  /\ job[r].pc = "first" /\ job[r].thread
  /\ FirstMade(r) \/ FirstFailed(r)
  /\ UNCHANGED <<engine, line, process, asked>>

(* cosyvoice: generate() asks for the next chunk in a thread. *)
AskChunk(r) ==
  /\ engine = "cosyvoice"
  /\ Reading(r) /\ ~made[r].hand /\ ~job[r].thread
  /\ job' = [job EXCEPT ![r] = [@ EXCEPT !.thread = TRUE]]
  /\ UNCHANGED <<engine, lock, line, process, asked, made>>

Chunk(r) ==
  /\ made[r].next < made[r].total
  /\ made' = [made EXCEPT ![r] = [@ EXCEPT !.next = made[r].next + 1, !.hand = TRUE]]
  /\ job' = [job EXCEPT ![r] = [@ EXCEPT !.thread = FALSE]]
  /\ UNCHANGED lock

LastChunk(r) ==
  /\ made[r].next = made[r].total
  /\ lock' = Free
  /\ job' = [job EXCEPT ![r] = Answered(@, "ok")]
  /\ UNCHANGED made

(* Mutant: a chunk that fails ends the loop like the last one. *)
ChunkFailedQuietly(r) ==
  /\ lock' = Free
  /\ job' = [job EXCEPT ![r] = Answered(@, "ok")]
  /\ UNCHANGED made

ChunkFailed(r) ==
  /\ lock' = Free
  /\ job' = [job EXCEPT ![r] = Answered(@, "failed")]
  /\ UNCHANGED made

EndChunk(r) ==
  /\ engine = "cosyvoice" /\ Reading(r) /\ job[r].thread
  /\ Chunk(r) \/ LastChunk(r) \/ ChunkFailed(r)
  /\ UNCHANGED <<engine, line, process, asked>>

(* chatterbox: there is nothing after the first piece. *)
EndPiece(r) ==
  /\ engine = "chatterbox" /\ Reading(r) /\ ~made[r].hand
  /\ Release(r, "ok")
  /\ UNCHANGED <<engine, line, process, asked, made>>

(* The client has left: the lock is released at once, although a thread of *)
(* cosyvoice may still be computing a chunk, which nobody will read.       *)
CloseStream(r) ==
  /\ engine # "qwen3"
  /\ job[r].pc = "body" /\ job[r].gone
  /\ Release(r, "left")
  /\ made' = [made EXCEPT ![r] = [@ EXCEPT !.hand = FALSE]]
  /\ UNCHANGED <<engine, line, process, asked>>

EndStraggler(r) ==
  /\ engine = "cosyvoice" /\ job[r].pc = "done" /\ job[r].thread
  /\ job' = [job EXCEPT ![r] = [@ EXCEPT !.thread = FALSE]]
  /\ UNCHANGED <<engine, lock, line, process, asked, made>>

-----------------------------------------------------------------------------
(* chatterbox: after the idle time the restart waits for the lock, finds   *)
(* a model or sends SIGTERM to its own process.                            *)
WakeRestart ==
  /\ restart = "sleeping"
  /\ restart' = "queued"
  /\ line' = Append(line, Restarter)
  /\ UNCHANGED <<engine, lock, model, failed, cuda, doom, asked, job, made>>

RestartWhenIdle ==
  /\ ~Locked /\ line # <<>> /\ Head(line) = Restarter
  /\ line' = Tail(line)
  /\ restart' = "none"
  /\ doom' = IF model = NoModel THEN "term" ELSE doom
  /\ UNCHANGED <<engine, lock, model, failed, cuda, asked, job, made>>

(* The process ends: uvicorn after SIGTERM when nothing is open, os._exit  *)
(* at any moment; the container's restart policy starts an empty one.      *)
Exit ==
  /\ doom = "exit" \/ (doom = "term" /\ Open = {} /\ Busy = {})
  /\ lock' = Free /\ line' = <<>>
  /\ model' = NoModel /\ failed' = FALSE /\ cuda' = FALSE
  /\ restart' = "none" /\ doom' = "no"
  /\ job' = [r \in Request |-> IF r \in Open THEN Answered(job[r], "failed")
                               ELSE [job[r] EXCEPT !.thread = FALSE]]
  /\ made' = [r \in Request |-> [made[r] EXCEPT !.producer = "off", !.queue = <<>>,
                                                !.hand = FALSE]]
  /\ UNCHANGED <<engine, asked>>

-----------------------------------------------------------------------------
RequestStep(r) ==
  \/ EndLoad(r) \/ EndUnload(r)
  \/ EndGenerate(r) \/ Produce(r) \/ QwenReply(r)
  \/ FirstAudio(r) \/ AskChunk(r) \/ EndChunk(r) \/ EndPiece(r)
  \/ CloseStream(r) \/ EndStraggler(r)

Next ==
  \/ \E op \in Op, m \in Model : Arrive(op, m)
  \/ TakeLock
  \/ \E r \in Request : RequestStep(r) \/ Read(r) \/ Leave(r)
  \/ WakeRestart \/ RestartWhenIdle \/ Exit

(* What the event loop, the threads and the timers do on their own is      *)
(* done; reading and leaving are up to the gateway.                        *)
Fairness ==
  /\ WF_vars(TakeLock) /\ WF_vars(WakeRestart) /\ WF_vars(RestartWhenIdle)
  /\ WF_vars(Exit)
  /\ \A r \in Request : WF_vars(RequestStep(r))

Spec == Init /\ [][Next]_vars /\ Fairness

-----------------------------------------------------------------------------
Answer == {"none", "ok", "refused", "failed", "left"}

TypeOK ==
  /\ engine \in Engines
  /\ lock \in 0..MaxRequests
  /\ line \in Seq(1..Restarter)
  /\ model \in Model \cup {NoModel}
  /\ failed \in BOOLEAN /\ cuda \in BOOLEAN
  /\ restart \in {"none", "sleeping", "queued"}
  /\ doom \in {"no", "term", "exit"}
  /\ asked \in 0..MaxRequests
  /\ job \in [Request -> [op : Op \cup {"none"}, want : Model \cup {NoModel},
                           pc : {"none", "wait", "run", "first", "join", "body", "done"},
                           thread : BOOLEAN, gone : BOOLEAN, answer : Answer]]
  /\ made \in [Request -> [total : Nat, next : Nat,
                            producer : {"off", "generate", "put", "fail", "end"},
                            queue : Seq({"audio", "error", "end"}), hand : BOOLEAN,
                            heard : Nat, closed : BOOLEAN]]

(* Two threads are never in the model at once, except that cosyvoice lets  *)
(* the next request in beside the chunk of a client that has left.         *)
EngineAlone ==
  \A r, s \in Busy : r = s \/ (engine = "cosyvoice" /\ (job[r].gone \/ job[s].gone))

(* A stream that ends without an error was heard to its end, except where  *)
(* qwen3 cannot place the end marker and drops a full queue for it: then   *)
(* every item of the queue stood for a part that the reader misses, so a   *)
(* text of up to QueueSize parts is never cut.                             *)
CleanEnd ==
  \A r \in Request : job[r].op = "speech" /\ job[r].answer = "ok" =>
    \/ made[r].heard = made[r].total
    \/ engine = "qwen3" /\ made[r].heard + QueueSize <= made[r].total

(* The lock comes back whatever the runtime does.  qwen3 needs no help of  *)
(* its reader; the others are held by one that neither reads nor leaves.   *)
AtReadersMercy ==
  engine # "qwen3" /\ \E r \in Request : Reading(r) /\ made[r].hand

LockReturns == Locked ~> (~Locked \/ AtReadersMercy)

=============================================================================
