---------------------------- MODULE SpeechService ----------------------------
(* Speech requests to one provider, and the cache they share.              *)
(*   stream   HTTP with stream=true: a thread of its own makes the audio   *)
(*            and puts it into a queue that the response reads;            *)
(*   whole    HTTP without: made in a pool thread, kept in the cache;      *)
(*   clone    HTTP with a reference recording: as whole, never kept;       *)
(*   wyoming  the Wyoming server: a TTSCache object of its own, with a     *)
(*            lock of its own, over the same directory.                    *)
(* The format is PCM, whose rate is not written down in the data.  A step  *)
(* is what runs between two awaits, waits for a lock, tests of the cancel  *)
(* event or file operations.                                               *)
EXTENDS Naturals, FiniteSets, SequencesExt

CONSTANTS Key, None, Kinds, MaxRequests,
          QueueSize,   \* of the queue between worker and response
          MaxChunks,   \* how many pieces an encoder makes of a text
          MaxFiles,    \* TTS_CACHE_MAX_MB, every file having size 1
          Rate,        \* the sample rate of the model
          MaxCrashes

ASSUME SpeechAssumption ==
  /\ Kinds \subseteq {"stream", "whole", "clone", "wyoming"}
  /\ MaxRequests \in Nat /\ (1..MaxRequests) \cap Key = {}
  /\ 0 \notin Key /\ None \notin Key \cup (0..MaxRequests)
  /\ QueueSize \in Nat \ {0} /\ MaxChunks \in Nat /\ MaxFiles \in Nat
  /\ Rate \in Nat /\ MaxCrashes \in Nat

VARIABLES lock,      \* who holds the provider's synthesis lock
          req,       \* request -> what was asked and how far its handler is
          work,      \* request -> its worker thread and queue
          dir,       \* the files of the cache directory, oldest first
          content,   \* key -> rate of the audio in its file
          inst,      \* cache object -> who holds its lock
          sweep,     \* cache object -> the eviction under that lock
          cleanup,   \* the cleanup task: "asleep", "sweeping", "dead"
          crashes

cache == <<dir, content, inst, sweep>>
vars == <<lock, req, work, cache, cleanup, crashes>>

Request  == 1..MaxRequests
Cleanup  == 0
Instance == {"http", "wyoming"}
NoAsk   == [kind |-> None, key |-> None, pc |-> "none", hand |-> "none",
            getter |-> FALSE, cancel |-> FALSE, sent |-> 0, rate |-> 0,
            answer |-> "none", logged |-> FALSE]
NoWork  == [job |-> "none", total |-> 0, left |-> 0, queue |-> <<>>, failed |-> FALSE,
            unmarked |-> FALSE]
NoSweep == [pc |-> "off", files |-> <<>>, total |-> 0]

Init ==
  /\ lock = None
  /\ req = [r \in Request |-> NoAsk] /\ work = [r \in Request |-> NoWork]
  /\ dir = <<>> /\ content = [k \in Key |-> 0]
  /\ inst = [i \in Instance |-> None]
  /\ sweep = [i \in Instance |-> NoSweep]
  /\ cleanup = "asleep" /\ crashes = 0

Kind(r) == req[r].kind
Own(r)  == IF Kind(r) = "wyoming" THEN "wyoming" ELSE "http"

-----------------------------------------------------------------------------
(* The next request comes.  One that does not pass validation ends here.   *)
Comes(r) == req[r].pc = "none" /\ \A q \in Request : q < r => req[q].pc # "none"

Refuse(r) ==
  /\ Comes(r)
  /\ req' = [req EXCEPT ![r] = [@ EXCEPT !.pc = "done", !.answer = "refused"]]
  /\ UNCHANGED <<lock, work, cache, cleanup, crashes>>

Asked(kind, k, pc) == [NoAsk EXCEPT !.kind = kind, !.key = k, !.pc = pc]

(* A stream is logged before anything is made; its worker starts, and a    *)
(* pool thread waits for the first item.                                   *)
AskStream(r) ==
  /\ req' = [req EXCEPT ![r] = [Asked("stream", None, "first") EXCEPT !.getter = TRUE,
                                                              !.logged = TRUE]]
  /\ work' = [work EXCEPT ![r] = [@ EXCEPT !.job = "want"]]
  /\ UNCHANGED cache

AskThread(r, kind, k) ==
  /\ req' = [req EXCEPT ![r] = Asked(kind, k, "wait")]
  /\ work' = [work EXCEPT ![r] = [@ EXCEPT !.job = "want"]]
  /\ UNCHANGED cache

(* TTSCache.get: a hit is the newest file from now on.                     *)
Hit(r, kind, k) ==
  /\ Contains(dir, k)
  /\ req' = [req EXCEPT ![r] =
       [Asked(kind, k, "done") EXCEPT !.answer = "ok", !.rate = content[k],
                                      !.logged = (kind = "whole")]]
  /\ dir' = Append(Remove(dir, k), k)
  /\ UNCHANGED <<work, content, inst, sweep>>

AskCached(r, kind, k) ==
  /\ inst[IF kind = "wyoming" THEN "wyoming" ELSE "http"] = None
  /\ Hit(r, kind, k) \/ (~Contains(dir, k) /\ AskThread(r, kind, k))

AskClone(r) == AskThread(r, "clone", None)

AskWyoming(r, k) == AskCached(r, "wyoming", k)

Ask(r, kind, k) ==
  /\ Comes(r)
  /\ \/ kind = "stream" /\ AskStream(r)
     \/ kind = "whole" /\ AskCached(r, kind, k)
     \/ kind = "clone" /\ AskClone(r)
     \/ kind = "wyoming" /\ AskWyoming(r, k)
  /\ UNCHANGED <<lock, cleanup, crashes>>

-----------------------------------------------------------------------------
(* The thread that synthesizes.  process_tts_chunks draws all audio out of *)
(* the model before anything is encoded, so the provider's lock is free    *)
(* again when the first piece is put into the queue.                       *)
Work(r, job) == work' = [work EXCEPT ![r] = [@ EXCEPT !.job = job]]

TakeSynthesis(r) ==
  /\ work[r].job = "want" /\ lock = None
  /\ lock' = r
  /\ Work(r, "synth")
  /\ UNCHANGED <<req, cache, cleanup, crashes>>

EndSynthesis(r) ==
  \E n \in 0..(IF Kind(r) = "stream" THEN MaxChunks ELSE 1) :
    /\ lock' = None
    /\ work' = [work EXCEPT ![r] = [@ EXCEPT !.job = "encode", !.total = n, !.left = n]]

(* The model fails, or the request is found out not to fit it. *)
SynthesisFails(r) ==
  /\ lock' = None
  /\ work' = [work EXCEPT ![r] = [@ EXCEPT !.failed = TRUE,
                         !.job = IF Kind(r) = "stream" THEN "fail" ELSE "over"]]

(* _cancelable_chunks looks at the cancel event at each piece. *)
SynthesisStopped(r) ==
  /\ req[r].cancel
  /\ lock' = None
  /\ Work(r, "finish")

Synthesize(r) ==
  /\ work[r].job = "synth"
  /\ EndSynthesis(r) \/ SynthesisFails(r) \/ SynthesisStopped(r)
  /\ UNCHANGED <<req, cache, cleanup, crashes>>

(* Encoding for an answer that is sent whole; what is empty is not kept.   *)
EncodeWhole(r) ==
  /\ work[r].job = "encode" /\ Kind(r) # "stream"
  /\ Work(r, IF Kind(r) = "clone" \/ work[r].total = 0 THEN "over" ELSE "store")
  /\ UNCHANGED <<lock, req, cache, cleanup, crashes>>

-----------------------------------------------------------------------------
(* The queue of a stream: _put_stream_item goes on trying until there is   *)
(* room or the cancel event is set.                                        *)
Room(r) == Len(work[r].queue) < QueueSize

PutChunk(r) ==
  /\ work[r].job = "encode" /\ Kind(r) = "stream" /\ work[r].left > 0
  /\ \/ /\ ~req[r].cancel /\ Room(r)
        /\ work' = [work EXCEPT ![r] = [@ EXCEPT !.queue = Append(work[r].queue, "audio"),
                                                 !.left = work[r].left - 1]]
     \/ req[r].cancel /\ Work(r, "finish")

(* The encoder ends, or fails: ffmpeg's verdict comes at its end. *)
EncoderFails(r) ==
  work' = [work EXCEPT ![r] = [@ EXCEPT !.job = "fail", !.failed = TRUE]]

EndEncoding(r) ==
  /\ work[r].job = "encode" /\ Kind(r) = "stream" /\ work[r].left = 0
  /\ Work(r, "finish") \/ EncoderFails(r)

(* Mutant: an error of the encoder is logged and no item is put for it. *)
PutErrorNowhere(r) ==
  /\ work[r].job = "fail"
  /\ Work(r, "finish")

PutError(r) ==
  /\ work[r].job = "fail"
  /\ \/ /\ ~req[r].cancel /\ Room(r)
        /\ work' = [work EXCEPT ![r] = [@ EXCEPT !.queue = Append(work[r].queue, "error"),
                                                 !.job = "finish"]]
     \/ req[r].cancel /\ Work(r, "finish")

(* _finish_stream tests the event once, and its put once more. *)
Finish(r) ==
  /\ work[r].job = "finish"
  /\ Work(r, IF req[r].cancel THEN "force" ELSE "end")

(* Mutant: a full queue does without the end marker. *)
PutEndIfRoom(r) ==
  /\ work[r].job = "end"
  /\ work' = [work EXCEPT ![r] = [@ EXCEPT !.job = "over",
                !.queue = IF Room(r) /\ ~req[r].cancel THEN Append(work[r].queue, "end")
                          ELSE work[r].queue]]

(* A cancel between these two looks leaves the queue without its end. *)
PutEnd(r) ==
  /\ work[r].job = "end"
  /\ \/ /\ ~req[r].cancel /\ Room(r)
        /\ work' = [work EXCEPT ![r] = [@ EXCEPT !.queue = Append(work[r].queue, "end"),
                                                 !.job = "over"]]
     \/ /\ req[r].cancel
        /\ work' = [work EXCEPT ![r] = [@ EXCEPT !.job = "over", !.unmarked = TRUE]]

ForceEnd(r) ==
  /\ work[r].job = "force"
  /\ work' = [work EXCEPT ![r] =
       IF Room(r) THEN [@ EXCEPT !.queue = Append(work[r].queue, "end"), !.job = "over"]
       ELSE [@ EXCEPT !.queue = Tail(work[r].queue)]]

Deliver(r) ==
  /\ PutChunk(r) \/ EndEncoding(r) \/ PutError(r) \/ Finish(r) \/ PutEnd(r) \/ ForceEnd(r)
  /\ UNCHANGED <<lock, req, cache, cleanup, crashes>>

-----------------------------------------------------------------------------
(* The handler and the body of a stream. *)

(* The pool thread in queue.get has an item; nobody may want it any more.  *)
(* An error before any audio is an HTTP error; else the response begins.   *)
TakeItem(r) ==
  LET item == Head(work[r].queue)
      q == req[r]
  IN
  /\ q.getter /\ work[r].queue # <<>>
  /\ work' = [work EXCEPT ![r] = [@ EXCEPT !.queue = Tail(work[r].queue)]]
  /\ \/ /\ q.pc = "first" /\ item = "error"
        /\ req' = [req EXCEPT ![r] = [q EXCEPT !.getter = FALSE, !.cancel = TRUE,
                                               !.pc = "done", !.answer = "failed"]]
     \/ /\ q.pc = "first" /\ item # "error"
        /\ req' = [req EXCEPT ![r] = [q EXCEPT !.getter = FALSE, !.hand = item,
                                               !.pc = "start"]]
     \/ /\ q.pc = "body"
        /\ req' = [req EXCEPT ![r] = [q EXCEPT !.getter = FALSE, !.hand = item]]
     \/ /\ q.pc = "done"
        /\ req' = [req EXCEPT ![r] = [q EXCEPT !.getter = FALSE]]
  /\ UNCHANGED <<lock, cache, cleanup, crashes>>

Begin(r) ==
  /\ req[r].pc = "start"
  /\ req' = [req EXCEPT ![r] = [@ EXCEPT !.pc = "body"]]
  /\ UNCHANGED <<lock, work, cache, cleanup, crashes>>

(* The client takes a piece, and the next one is waited for. *)
Read(r) ==
  /\ req[r].pc = "body" /\ req[r].hand = "audio"
  /\ req' = [req EXCEPT ![r] = [@ EXCEPT !.hand = "none", !.sent = req[r].sent + 1,
                                         !.getter = TRUE]]
  /\ UNCHANGED <<lock, work, cache, cleanup, crashes>>

(* The end, or an error, ends the body: the connection, or an SSE event,   *)
(* tells the client which.                                                 *)
EndBody(r) ==
  /\ req[r].pc = "body" /\ req[r].hand \in {"end", "error"}
  /\ req' = [req EXCEPT ![r] = [@ EXCEPT !.pc = "done", !.hand = "none", !.cancel = TRUE,
                                 !.answer = IF req[r].hand = "end" THEN "ok" ELSE "failed"]]
  /\ UNCHANGED <<lock, work, cache, cleanup, crashes>>

(* Mutant: the worker is told by the body's finally alone. *)
LeaveUnfinalized(r) ==
  /\ req[r].pc \in {"first", "start", "body"}
  /\ req' = [req EXCEPT ![r] = [@ EXCEPT !.pc = "done", !.hand = "none", !.answer = "left",
                                         !.cancel = (req[r].pc # "start")]]
  /\ UNCHANGED <<lock, work, cache, cleanup, crashes>>

(* The client leaves, or the server cancels the request: while the first   *)
(* item is waited for, before the body starts, or in the body.             *)
Leave(r) ==
  /\ req[r].pc \in {"first", "start", "body"}
  /\ req' = [req EXCEPT ![r] = [@ EXCEPT !.pc = "done", !.hand = "none", !.answer = "left",
                                         !.cancel = TRUE]]
  /\ UNCHANGED <<lock, work, cache, cleanup, crashes>>

(* The thread of a request that is answered whole has ended.  HTTP brings  *)
(* PCM to 24 kHz; a clone's, and what Wyoming resamples itself, keeps the  *)
(* model's rate.                                                           *)
ReplyFailed(r) ==
  /\ work[r].failed
  /\ req' = [req EXCEPT ![r] = [@ EXCEPT !.pc = "done", !.answer = "failed"]]

ReplyWhole(r) ==
  /\ ~work[r].failed /\ Kind(r) = "whole"
  /\ req' = [req EXCEPT ![r] = [@ EXCEPT !.pc = "done", !.answer = "ok",
                                         !.rate = 24000, !.logged = TRUE]]

ReplyNative(r) ==
  /\ ~work[r].failed /\ Kind(r) \in {"clone", "wyoming"}
  /\ req' = [req EXCEPT ![r] = [@ EXCEPT !.pc = "done", !.answer = "ok", !.rate = Rate]]

Reply(r) ==
  /\ req[r].pc = "wait" /\ work[r].job = "over"
  /\ ReplyFailed(r) \/ ReplyWhole(r) \/ ReplyNative(r)
  /\ UNCHANGED <<lock, work, cache, cleanup, crashes>>

-----------------------------------------------------------------------------
(* TTSCache.set: a temporary file that takes the place of the old one, and *)
(* an eviction, under the lock of this cache object only.                  *)
WriteTemp(r) ==
  /\ work[r].job = "store" /\ inst[Own(r)] = None
  /\ inst' = [inst EXCEPT ![Own(r)] = r]
  /\ dir' = Append(dir, r)
  /\ Work(r, "rename")
  /\ UNCHANGED <<lock, req, content, sweep, cleanup, crashes>>

(* What went wrong ends the call; the temporary file, if any, is removed.  *)
GiveUpSet(r) ==
  /\ dir' = Remove(dir, r)
  /\ inst' = [inst EXCEPT ![Own(r)] = None]
  /\ Work(r, "over")
  /\ UNCHANGED <<content, sweep>>

Renamed(r) ==
  /\ dir' = ReplaceAll(Remove(dir, req[r].key), r, req[r].key)
  /\ content' = [content EXCEPT ![req[r].key] = IF Kind(r) = "whole" THEN 24000 ELSE Rate]
  /\ sweep' = [sweep EXCEPT ![Own(r)] = [NoSweep EXCEPT !.pc = "list"]]
  /\ Work(r, "evict")
  /\ UNCHANGED inst

Rename(r) ==
  /\ work[r].job = "rename"
  /\ (Contains(dir, r) /\ Renamed(r)) \/ GiveUpSet(r)
  /\ UNCHANGED <<lock, req, cleanup, crashes>>

(* evict_if_needed, for a set or for the cleanup task (where a sweep of an *)
(* empty directory, which does nothing, is left out).                      *)
StartCleanup ==
  /\ cleanup = "asleep" /\ inst["http"] = None /\ dir # <<>>
  /\ inst' = [inst EXCEPT !["http"] = Cleanup]
  /\ sweep' = [sweep EXCEPT !["http"] = [NoSweep EXCEPT !.pc = "list"]]
  /\ cleanup' = "sweeping"
  /\ UNCHANGED <<lock, req, work, dir, content, crashes>>

(* The end of an eviction, or a file that was gone when it was looked at:  *)
(* set() carries on, the cleanup task does not survive.                    *)
EndSweep(i, gone) ==
  /\ sweep' = [sweep EXCEPT ![i] = NoSweep]
  /\ inst' = [inst EXCEPT ![i] = None]
  /\ UNCHANGED dir
  /\ IF inst[i] = Cleanup
     THEN cleanup' = (IF gone THEN "dead" ELSE "asleep") /\ UNCHANGED work
     ELSE Work(inst[i], "over") /\ UNCHANGED cleanup

(* Mutant: files that a crash left behind are not looked at. *)
ListFinished(i) ==
  LET files == SelectSeq(dir, LAMBDA f : f \in Key) IN
  /\ sweep[i].pc = "list"
  /\ sweep' = [sweep EXCEPT ![i] = [pc |-> "measure", files |-> files, total |-> Len(files)]]
  /\ UNCHANGED <<dir, inst, work, cleanup>>

List(i) ==
  /\ sweep[i].pc = "list"
  /\ sweep' = [sweep EXCEPT ![i] = [pc |-> "measure", files |-> dir, total |-> Len(dir)]]
  /\ UNCHANGED <<dir, inst, work, cleanup>>

There(i) == ToSet(sweep[i].files) \subseteq ToSet(dir)

Measure(i) ==
  /\ sweep[i].pc = "measure"
  /\ \/ ~There(i) /\ EndSweep(i, TRUE)
     \/ There(i) /\ sweep[i].total <= MaxFiles /\ EndSweep(i, FALSE)
     \/ /\ There(i) /\ sweep[i].total > MaxFiles
        /\ sweep' = [sweep EXCEPT ![i] = [@ EXCEPT !.pc = "remove",
             !.files = SelectSeq(dir, LAMBDA f : Contains(sweep[i].files, f))]]
        /\ UNCHANGED <<dir, inst, work, cleanup>>

RemoveOldest(i) ==
  LET f == Head(sweep[i].files) IN
  /\ dir' = Remove(dir, f)
  /\ sweep' = [sweep EXCEPT ![i] = [@ EXCEPT !.files = Tail(@),
                                     !.total = IF Contains(dir, f) THEN @ - 1 ELSE @]]
  /\ UNCHANGED <<inst, work, cleanup>>

RemoveFiles(i) ==
  /\ sweep[i].pc = "remove"
  /\ IF sweep[i].total <= MaxFiles \/ sweep[i].files = <<>>
     THEN EndSweep(i, FALSE) ELSE RemoveOldest(i)

Sweep(i) ==
  /\ List(i) \/ Measure(i) \/ RemoveFiles(i)
  /\ UNCHANGED <<lock, req, content, crashes>>

-----------------------------------------------------------------------------
(* The process ends and starts again: what is in the directory stays.      *)
Crash ==
  /\ crashes < MaxCrashes
  /\ crashes' = crashes + 1
  /\ lock' = None
  /\ req' = [r \in Request |->
       IF req[r].pc \in {"none", "done"} THEN [req[r] EXCEPT !.getter = FALSE]
       ELSE [req[r] EXCEPT !.pc = "done", !.answer = "failed", !.getter = FALSE]]
  /\ work' = [r \in Request |-> [work[r] EXCEPT !.job = IF @ = "none" THEN @ ELSE "over",
                                                !.queue = <<>>]]
  /\ inst' = [i \in Instance |-> None] /\ sweep' = [i \in Instance |-> NoSweep]
  /\ cleanup' = "asleep"
  /\ UNCHANGED <<dir, content>>

RequestStep(r) ==
  \/ TakeSynthesis(r) \/ Synthesize(r) \/ EncodeWhole(r) \/ Deliver(r)
  \/ TakeItem(r) \/ Begin(r) \/ EndBody(r) \/ Reply(r)
  \/ WriteTemp(r) \/ Rename(r)

Next ==
  \/ \E r \in Request, kind \in Kinds, k \in Key : Ask(r, kind, k)
  \/ \E r \in Request : Refuse(r) \/ RequestStep(r) \/ Read(r) \/ Leave(r)
  \/ StartCleanup
  \/ \E i \in Instance : Sweep(i)
  \/ Crash

(* Threads, tasks and timers go on; clients need not read, nor leave.  The *)
(* cleanup task sleeps for 30 s between two sweeps: a set gets its turn.   *)
Fairness ==
  /\ \A r \in Request : WF_vars(RequestStep(r)) /\ SF_vars(WriteTemp(r))
  /\ \A i \in Instance : WF_vars(Sweep(i))
  /\ WF_vars(StartCleanup)

Spec == Init /\ [][Next]_vars /\ Fairness

-----------------------------------------------------------------------------
(* A stream that ends without an error carries all the audio there is. *)
CleanStreamEnd ==
  \A r \in Request : Kind(r) = "stream" /\ req[r].answer = "ok" =>
    req[r].sent = work[r].total /\ ~work[r].failed

(* "Speech PCM is always signed 16-bit little-endian mono at 24 kHz,       *)
(* including Piper" (README.md:292), for what HTTP answers whole.          *)
PcmAt24k ==
  \A r \in Request : Kind(r) = "whole" /\ req[r].answer = "ok" => req[r].rate = 24000

(* Workers do not outlive their requests for long, wherever the clients    *)
(* leave: again and again there is none, and none that holds the lock.     *)
Orphan(r) == req[r].pc = "done" /\ (work[r].job \notin {"none", "over"} \/ lock = r)

WorkersStop == []<>(\A r \in Request : ~Orphan(r))

(* A request that waits for its thread, or for the next item of a stream,  *)
(* gets it, whatever stalls or fails elsewhere, and so does the pool thread *)
(* in queue.get that a cancelled request leaves behind, unless the cancel   *)
(* came between the two looks of _finish_stream: that thread waits for ever *)
(* (src/src/services/tts.py 480-482, 709).                                  *)
Waits(r) ==
  req[r].pc \in {"first", "wait"} \/ (req[r].pc = "body" /\ req[r].hand = "none")

ThreadWaits(r) == req[r].getter /\ ~work[r].unmarked

WaitersServed == []<>(\A r \in Request : ~Waits(r) /\ ~ThreadWaits(r))

(* The cache comes back under its limit, with what crashes left behind,    *)
(* as long as its cleanup task lives.                                      *)
CacheTrimmed == Len(dir) > MaxFiles ~> (Len(dir) <= MaxFiles \/ cleanup = "dead")
=============================================================================
