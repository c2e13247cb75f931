------------------------------ MODULE LiveReader ------------------------------
(***************************************************************************)
(* One Live Reader connection: LiveTTSSession and its endpoint             *)
(* (src/src/live_tts/server.py), with the segmenter it drives              *)
(* (src/src/live_tts/segmenter.py).                                        *)
(*                                                                         *)
(* Four activities share the session.  Three are coroutines of one event   *)
(* loop, so the code between two awaits is one step here:                  *)
(*   the reader       run(), the _handle_* methods and shutdown();         *)
(*   the segmenter    _segment_input_loop();                               *)
(*   the synthesizer  _synthesis_loop(), _synthesize_segment() and         *)
(*                    _wait_for_flow().                                    *)
(* The fourth, the worker, is the executor thread of _synthesize_worker(). *)
(*                                                                         *)
(* Every event to the client goes through _send(), whose lock is fair: the *)
(* sends of reader and synthesizer complete in the order they were called, *)
(* and the code after a send runs in the step that completes it.           *)
(*                                                                         *)
(* Data.  A client's text is a sequence of character classes, a position   *)
(* is an index into what the segmenter has read of the generation, audio   *)
(* is counted in frames and one frame is the unit of playback time.        *)
(* Timers may fire at any moment they are armed.  The wording of errors is *)
(* left out, and so are session.status events, unless they fail.           *)
(***************************************************************************)
EXTENDS Integers, Sequences, FiniteSetsExt

CONSTANTS
  Text,         \* the text a client sends in a generation, by class:
                \*   "word" speakable, "mark" only markup, "blank" white space
                \*   or code, "fence" the opening of a code block, for which
                \*   the segmenter puts in a cue
  CueParts,     \* how many segments CODE_BLOCK_CUE can be cut into, at most
  MaxBuffer,    \* settings.tts_live_max_buffer_chars
  MaxSegments,  \* size of _segment_queue, max(1, tts_live_max_pending_segments)
  MaxUnacked,   \* settings.tts_live_max_unacked_seconds, in frames
  MaxFrames,    \* frames the backend yields for a segment, at most
  MaxCancels, MaxCommits, \* bounds on what the client does
  Uses          \* what may happen besides text, commits and acknowledgements:
                \*   "update", a session.update; "leave", the client goes;
                \*   "pause", playback.pause and playback.resume;
                \*   "idle", "giveUp", "flow", timers that may fire

ASSUME TextAssumption == Text \in Seq({"word", "mark", "blank", "fence"})
ASSUME LimitAssumption ==
  /\ MaxBuffer \in Nat /\ MaxSegments \in Nat \ {0} /\ MaxUnacked \in Nat
  /\ MaxFrames \in Nat /\ CueParts \in Nat \ {0}
  /\ MaxCancels \in Nat /\ MaxCommits \in Nat
  /\ Uses \subseteq {"update", "leave", "pause", "idle", "giveUp", "flow"}

VARIABLES
  net,           \* the socket: "open" or "closed"
  slot,          \* the connection's entry in LiveTTSAdmission._states
  rpc,           \* where the reader is
  closing,       \* _closing
  disconnected,  \* _disconnected
  sendQ          \* holder and waiters of _send_lock, with their events

VARIABLES
  generation,    \* _generation
  inputQ,        \* _input_queue
  buffered,      \* _buffered_input_chars
  accepted,      \* _accepted_chars
  idle,          \* the idle flush timer is armed
  paused,        \* _paused_at is set
  asked          \* history: commits accepted in the generation

VARIABLES
  pending,       \* the segmenter's unread stretch of text, [lo, hi]
  batch,         \* segments the segmenter task still has to put
  segQ           \* _segment_queue

VARIABLES
  spc,           \* where the synthesizer is
  item,          \* the queue item it works on
  frame,         \* the frame it holds while it waits for flow
  status,        \* status of the response
  active,        \* _active_response_id, 0 for None
  responses,     \* responses started so far
  playback,      \* _playback: sent and acknowledged frames of each response
  flowChanged    \* _flow_changed

VARIABLES
  worker,        \* _worker_future
  produced,      \* frames the worker has emitted
  out,           \* the output queue of the response
  stop           \* _worker_cancel of the current worker

(* What the client has heard: the variables of LiveSpeech. *)
VARIABLES cut, open, closed, pos, answered, flawed, quiet

linkVars   == <<net, slot, rpc, closing, disconnected, sendQ>>
sockVars   == <<net, slot, closing, disconnected>>
inputVars  == <<generation, inputQ, buffered, accepted, idle, asked>>
segVars    == <<pending, batch, segQ>>
textVars   == <<inputVars, paused, segVars>>
synVars    == <<spc, item, frame, status, active, responses>>
workerVars == <<worker, produced, out>>
respVars   == <<synVars, playback, workerVars>>
wakeVars   == <<flowChanged, stop>>
heardVars  == <<cut, open, closed, pos, answered, flawed, quiet>>
voiceVars  == <<respVars, wakeVars, heardVars>>
vars == <<linkVars, textVars, voiceVars>>

Cues == {p \in DOMAIN Text : Text[p] = "fence"}

Speech == INSTANCE LiveSpeech

-----------------------------------------------------------------------------
(* Segments and queue items. *)

(* What a stretch of the text cleans up to: something to say, markup that  *)
(* leaves nothing to say, or white space the segmenter drops.              *)
ClassOf(lo, hi) ==
  CASE \E p \in (lo + 1)..hi : Text[p] \in {"word", "fence"} -> "word"
    [] \A p \in (lo + 1)..hi : Text[p] = "blank" -> "blank"
    [] OTHER -> "mark"

Ranges(lo, hi) == {r \in [lo : lo..hi, hi : lo..hi] : r.lo < r.hi}

(* A segment after another: the cue for a code block may be cut after any  *)
(* word of it, and both parts have the whole fence as their source.        *)
Follows(q, r) == r.hi <= q.lo \/ (r.hi \in Cues /\ r.hi = q.lo + 1)

Within(p, r) == r.lo < p /\ p <= r.hi

(* How many segments the stretch lo..to can be cut into. *)
Parts(lo, to) == to - lo + (CueParts - 1) * Cardinality(Cues \cap (lo + 1)..to)

(* The ways to cut the stretch lo..to into segments: in order, without     *)
(* overlap but in a cue, and leaving out only white space and code.        *)
Cuts(lo, to) ==
  {s \in UNION {[1..n -> Ranges(lo, to)] : n \in 0..Parts(lo, to)} :
     /\ \A i \in DOMAIN s : ClassOf(s[i].lo, s[i].hi) # "blank"
     /\ \A i, j \in DOMAIN s : i < j => Follows(s[j], s[i])
     /\ \A p \in (lo + 1)..to :
          /\ Text[p] = "blank" \/ \E i \in DOMAIN s : Within(p, s[i])
          /\ Cardinality({i \in DOMAIN s : Within(p, s[i])}) <= CueParts}

(* Where the rest begins after a cut at to: in a cue, words of it may be   *)
(* left.  (How many is not kept, so a cue cut again may fall into more     *)
(* segments than the code would make of it.)                               *)
Rests(act, to) == IF to \in Cues /\ act # "commit" THEN {to, to - 1} ELSE {to}

Stop == [kind |-> "stop", gen |-> 0, lo |-> 0, hi |-> 0]

(* (generation, None): the text up to position p is complete. *)
EndOfText(g, p) == [kind |-> "end", gen |-> g, lo |-> p, hi |-> p]

Segments(g, s) ==
  [i \in DOMAIN s |->
     [kind |-> ClassOf(s[i].lo, s[i].hi), gen |-> g, lo |-> s[i].lo, hi |-> s[i].hi]]

(* Mutant: nobody compares generations. *)
StaleNever(it) == FALSE

Stale(it) == it.gen # generation

-----------------------------------------------------------------------------
(* Flow control. *)

Outstanding(trackers) ==
  MapThenSumSet(LAMBDA r : trackers[r].sent - trackers[r].acked, DOMAIN trackers)

Unacked == Outstanding(playback)

(* Mutant: a full window still counts as open. *)
FlowOpenWhenFull == ~paused /\ Unacked <= MaxUnacked

(* The condition under which _wait_for_flow returns True at once. *)
FlowOpen == ~paused /\ Unacked < MaxUnacked

With(f, x, v) == [y \in DOMAIN f \cup {x} |-> IF y = x THEN v ELSE f[y]]

Without(f, x) == [y \in DOMAIN f \ {x} |-> f[y]]

Unfinished == worker \in {"queued", "running", "closing"}

-----------------------------------------------------------------------------
(* _send().                                                                *)

(* An event on its way: who sends it, and whether the socket was believed  *)
(* connected when _send was called (it gives up at once otherwise).        *)
Call(who, ev) == [who |-> who, live |-> ~disconnected, ev |-> ev]

Event(kind, g, id, n) == [kind |-> kind, gen |-> g, id |-> id, n |-> n]

Reply == Event("reply", 0, 0, 0)

(* The client hears an event; what it then believes is the event's doing   *)
(* alone.                                                                  *)
Hear(ev) ==
  CASE ev.kind = "created" ->
         /\ open' = [id |-> ev.id, gen |-> ev.gen, next |-> 0, ended |-> FALSE]
         /\ pos' = ev.n
         /\ UNCHANGED <<cut, closed, answered, flawed, quiet>>
    [] ev.kind = "delta" ->
         /\ open' = [id |-> ev.id, gen |-> ev.gen, next |-> ev.n + 1, ended |-> FALSE]
         /\ UNCHANGED <<cut, closed, pos, answered, flawed, quiet>>
    [] ev.kind = "audioDone" ->
         /\ open' = [id |-> ev.id, gen |-> ev.gen, next |-> open.next, ended |-> TRUE]
         /\ UNCHANGED <<cut, closed, pos, answered, flawed, quiet>>
    [] ev.kind \in {"done", "failed"} ->
         /\ open' = Speech!NoResponse
         /\ closed' = ev.id
         /\ flawed' = (flawed \/ ev.kind = "failed")
         /\ UNCHANGED <<cut, pos, answered, quiet>>
    [] ev.kind = "skipped" ->
         /\ pos' = ev.n
         /\ UNCHANGED <<cut, open, closed, answered, flawed, quiet>>
    [] ev.kind = "textDone" ->
         /\ pos' = ev.n
         /\ answered' = answered + 1
         /\ UNCHANGED <<cut, open, closed, flawed, quiet>>
    [] ev.kind = "cancelled" ->
         /\ cut' = ev.gen + 1
         /\ pos' = 0 /\ answered' = 0 /\ flawed' = FALSE
         /\ UNCHANGED <<open, closed, quiet>>
    [] ev.kind \in {"paused", "resumed"} ->
         /\ quiet' = (ev.kind = "paused")
         /\ UNCHANGED <<cut, open, closed, pos, answered, flawed>>
    [] OTHER -> UNCHANGED heardVars

(* The send at the head of the lock's line completes; sent is what _send   *)
(* returns.  On a closed socket the event is lost, noticed or not.         *)
Transmit(who, sent) ==
  /\ sendQ # <<>>
  /\ Head(sendQ).who = who
  /\ IF sent THEN Head(sendQ).live /\ ~disconnected ELSE net = "closed"
  /\ IF sent /\ net = "open" THEN Hear(Head(sendQ).ev) ELSE UNCHANGED heardVars
  /\ disconnected' = (disconnected \/ ~sent)

(* A failure discovered by the send itself stops the worker and wakes the  *)
(* flow control.                                                           *)
Broken(sent) == ~sent /\ Head(sendQ).live

(* A send completes and the sender goes on, with more to send or not. *)
Sent(who, sent, more) ==
  /\ Transmit(who, sent)
  /\ sendQ' = Tail(sendQ) \o more
  /\ stop' = (stop \/ Broken(sent))
  /\ flowChanged' = (flowChanged \/ Broken(sent))

-----------------------------------------------------------------------------
(* The reader: live_tts_endpoint and run().                                *)

(* A handler ends by sending an event; the next message waits for it. *)
Respond(ev) ==
  /\ rpc' = "reply"
  /\ sendQ' = Append(sendQ, Call("reader", ev))

(* run() is over: mark_draining, and shutdown() up to its first await. *)
EndRun ==
  /\ slot' = "draining"
  /\ closing' = TRUE
  /\ stop' = TRUE
  /\ flowChanged' = TRUE
  /\ idle' = FALSE
  /\ rpc' = "stopping"

(* The top of the receive loop. *)
LoopOrEnd(over) ==
  IF over THEN EndRun
  ELSE rpc' = "run" /\ UNCHANGED <<slot, closing, idle, wakeVars>>

(* The slot is acquired, the tasks start, session.created is sent. *)
Connect ==
  /\ rpc = "new"
  /\ slot' = "active"
  /\ Respond(Reply)
  /\ UNCHANGED <<net, closing, disconnected, textVars, voiceVars>>

ReplySent(sent) ==
  /\ rpc = "reply"
  /\ Transmit("reader", sent)
  /\ sendQ' = Tail(sendQ)
  /\ LoopOrEnd(closing \/ disconnected')
  /\ UNCHANGED <<net, generation, inputQ, buffered, accepted, asked, paused,
                 segVars, respVars>>

(* Mutant: the buffer gauge is not reset with the buffer. *)
ForgetTextKeepingGauge ==
  /\ inputQ' = <<>>
  /\ segQ' = <<>>
  /\ accepted' = 0
  /\ asked' = 0
  /\ pending' = [lo |-> 0, hi |-> 0]
  /\ UNCHANGED buffered

(* _drain_queue of both queues and a new segmenter: the text so far is     *)
(* forgotten.                                                              *)
ForgetText ==
  /\ inputQ' = <<>>
  /\ segQ' = <<>>
  /\ buffered' = 0
  /\ accepted' = 0
  /\ asked' = 0
  /\ pending' = [lo |-> 0, hi |-> 0]

(* input_text.append of the next n characters, while the buffer has room. *)
HandleAppend(n) ==
  /\ rpc = "run"
  /\ accepted + n <= Len(Text)
  /\ buffered + n <= MaxBuffer
  /\ buffered' = buffered + n
  /\ accepted' = accepted + n
  /\ inputQ' = Append(inputQ, [act |-> "append", gen |-> generation, n |-> n])
  /\ idle' = TRUE
  /\ Respond(Reply)
  /\ UNCHANGED <<sockVars, generation, asked, paused, segVars, voiceVars>>

(* input_text.commit.  The position recorded with it is history: the text  *)
(* the commit covers.                                                      *)
HandleCommit ==
  /\ rpc = "run"
  /\ asked < MaxCommits
  /\ asked' = asked + 1
  /\ inputQ' = Append(inputQ, [act |-> "commit", gen |-> generation, n |-> accepted])
  /\ idle' = FALSE
  /\ Respond(Reply)
  /\ UNCHANGED <<sockVars, generation, buffered, accepted, paused, segVars,
                 voiceVars>>

(* response.cancel: everything of the generation is dropped, a new one     *)
(* begins.  The synthesizer and a blocked segmenter find out by themselves. *)
HandleCancel ==
  /\ rpc = "run"
  /\ generation < MaxCancels
  /\ generation' = generation + 1
  /\ stop' = TRUE
  /\ flowChanged' = TRUE
  /\ idle' = FALSE
  /\ ForgetText
  /\ playback' = <<>>
  /\ Respond(Event("cancelled", generation, active, 0))
  /\ UNCHANGED <<sockVars, paused, batch, synVars, workerVars, heardVars>>

(* playback.ack of frame s of response r, and of every frame before it.    *)
(* An ack of frames that are not outstanding is ignored.  It sends nothing. *)
HandleAck(r, s) ==
  /\ rpc = "run"
  /\ r \in DOMAIN playback
  /\ playback[r].acked <= s /\ s < playback[r].sent
  /\ playback' = IF playback[r].done /\ s + 1 = playback[r].sent
                 THEN Without(playback, r)
                 ELSE [playback EXCEPT ![r].acked = s + 1]
  /\ IF closing \/ disconnected THEN EndRun
     ELSE flowChanged' = TRUE /\ UNCHANGED <<slot, rpc, closing, idle, stop>>
  /\ UNCHANGED <<net, disconnected, sendQ, generation, inputQ, buffered,
                 accepted, asked, paused, segVars, synVars, workerVars,
                 heardVars>>

(* playback.pause and playback.resume, as often as the client likes.       *)
HandlePause ==
  /\ "pause" \in Uses
  /\ rpc = "run"
  /\ paused' = TRUE
  /\ flowChanged' = TRUE
  /\ Respond(Event("paused", 0, 0, 0))
  /\ UNCHANGED <<sockVars, inputVars, segVars, respVars, stop, heardVars>>

(* Mutant: the sleeping synthesizer is not told of the resume. *)
HandleResumeSilently ==
  /\ "pause" \in Uses
  /\ rpc = "run"
  /\ paused' = FALSE
  /\ Respond(Event("resumed", 0, 0, 0))
  /\ UNCHANGED <<sockVars, inputVars, segVars, voiceVars>>

HandleResume ==
  /\ "pause" \in Uses
  /\ rpc = "run"
  /\ paused' = FALSE
  /\ flowChanged' = TRUE
  /\ Respond(Event("resumed", 0, 0, 0))
  /\ UNCHANGED <<sockVars, inputVars, segVars, respVars, stop, heardVars>>

(* A message that changes nothing and is answered: a keep-alive, an append *)
(* the buffer has no room for, an unknown or malformed event, an update    *)
(* while the session is busy.                                              *)
HandleOther ==
  /\ rpc = "run"
  /\ Respond(Reply)
  /\ UNCHANGED <<sockVars, textVars, voiceVars>>

(* Settings may only change before text is accepted or after a cancel.     *)
SessionBusy == accepted # 0 \/ active # 0 \/ segQ # <<>>

(* session.update passes its busy test and goes to other threads to        *)
(* resolve and check the voice: awaits during which the session goes on.   *)
HandleUpdate ==
  /\ "update" \in Uses
  /\ rpc = "run"
  /\ ~SessionBusy
  /\ rpc' = "updating"
  /\ UNCHANGED <<sockVars, sendQ, textVars, voiceVars>>

(* The new settings take effect, with a new segmenter for them. *)
UpdateDone ==
  /\ rpc = "updating"
  /\ pending' = [lo |-> 0, hi |-> 0]
  /\ Respond(Reply)
  /\ UNCHANGED <<sockVars, inputVars, paused, batch, segQ, voiceVars>>

(* The voice is not available or not supported: the settings stay. *)
UpdateRefused ==
  /\ rpc = "updating"
  /\ Respond(Reply)
  /\ UNCHANGED <<sockVars, textVars, voiceVars>>

(* The idle flush timer, armed by the last append. *)
IdleFires ==
  /\ "idle" \in Uses
  /\ idle
  /\ idle' = FALSE
  /\ inputQ' = Append(inputQ, [act |-> "idle", gen |-> generation, n |-> 0])
  /\ UNCHANGED <<linkVars, generation, buffered, accepted, asked, paused,
                 segVars, voiceVars>>

(* No message for tts_live_idle_timeout_s, or a message after a pause of   *)
(* more than tts_live_max_pause_s: an error, then the socket is closed.    *)
GiveUp ==
  /\ "giveUp" \in Uses
  /\ rpc = "run"
  /\ rpc' = "givingUp"
  /\ sendQ' = Append(sendQ, Call("reader", Reply))
  /\ UNCHANGED <<sockVars, textVars, voiceVars>>

GiveUpSent(sent) ==
  /\ rpc = "givingUp"
  /\ Sent("reader", sent, <<>>)
  /\ net' = "closed"
  /\ rpc' = "gaveUp"
  /\ UNCHANGED <<slot, closing, textVars, respVars>>

GaveUp ==
  /\ rpc = "gaveUp"
  /\ EndRun
  /\ UNCHANGED <<net, disconnected, sendQ, generation, inputQ, buffered,
                 accepted, asked, paused, segVars, respVars, heardVars>>

(* The receive finds the socket closed, by either side. *)
NoticeDisconnect ==
  /\ rpc = "run"
  /\ net = "closed"
  /\ disconnected' = TRUE
  /\ EndRun
  /\ UNCHANGED <<net, sendQ, generation, inputQ, buffered, accepted, asked,
                 paused, segVars, respVars, heardVars>>

-----------------------------------------------------------------------------
(* shutdown(), after its first await, and the endpoint's release.          *)

(* The segmenter task is cancelled, the synthesizer is sent None. *)
StopSegmenter ==
  /\ rpc = "stopping"
  /\ rpc' = "joining"
  /\ batch' = <<>>
  /\ segQ' = <<Stop>>
  /\ UNCHANGED <<sockVars, sendQ, inputVars, paused, pending, voiceVars>>

(* The synthesizer has ended; it always leaves without a worker. *)
Joined ==
  /\ rpc = "joining"
  /\ spc = "exit"
  /\ rpc' = "over"
  /\ slot' = "none"
  /\ UNCHANGED <<net, closing, disconnected, sendQ, textVars, voiceVars>>

(* Mutant: the slot is given back whatever shutdown() says. *)
HandOverReleasing ==
  /\ rpc' = IF Unfinished THEN "late" ELSE "over"
  /\ slot' = "none"

(* What shutdown() tells the endpoint after its deadline: a worker that is *)
(* still busy keeps the slot until its done-callback runs.                 *)
HandOver ==
  IF Unfinished THEN rpc' = "late" /\ UNCHANGED slot
                ELSE rpc' = "over" /\ slot' = "none"

(* The synthesizer has died: shutdown() raises what it died of, and the    *)
(* endpoint ends there, without releasing the slot.                        *)
ShutdownRaises ==
  /\ rpc = "joining"
  /\ spc = "dead"
  /\ rpc' = "raised"
  /\ UNCHANGED <<sockVars, sendQ, textVars, voiceVars>>

(* The deadline passes first: the synthesizer is cancelled wherever it is. *)
JoinTimeout ==
  /\ rpc = "joining"
  /\ spc \notin {"exit", "dead"}
  /\ spc' = "exit"
  /\ sendQ' = SelectSeq(sendQ, LAMBDA c : c.who = "reader")
  /\ HandOver
  /\ UNCHANGED <<net, closing, disconnected, textVars, item, frame, status,
                 active, responses, playback, workerVars, wakeVars, heardVars>>

(* Mutant: no done-callback was registered. *)
LateReleaseForgotten ==
  /\ rpc = "late"
  /\ worker = "finished"
  /\ rpc' = "over"
  /\ UNCHANGED <<sockVars, sendQ, textVars, voiceVars>>

(* The done-callback of the worker that was left behind. *)
LateRelease ==
  /\ rpc = "late"
  /\ worker = "finished"
  /\ rpc' = "over"
  /\ slot' = "none"
  /\ UNCHANGED <<net, closing, disconnected, sendQ, textVars, voiceVars>>

-----------------------------------------------------------------------------
(* The segmenter: _segment_input_loop().                                   *)

SegmenterRuns == rpc \notin {"new", "joining", "late", "over", "raised"}

(* How far the segmenter may cut into a stretch of text: an append or an   *)
(* idle flush may keep back its end, a commit takes all of it.             *)
CutPoints(act, stretch) ==
  IF act = "commit" THEN {stretch.hi} ELSE stretch.lo..stretch.hi

(* Mutant: a flush of nothing is not worth an answer. *)
MarkerIfText(it) ==
  IF it.act = "commit" /\ pending.hi > pending.lo THEN <<EndOfText(it.gen, it.n)>> ELSE <<>>

(* What follows the segments: a commit marks the end of the text.          *)
Marker(it) == IF it.act = "commit" THEN <<EndOfText(it.gen, it.n)>> ELSE <<>>

(* An item is read and its text is cut.  The status event sent next is an  *)
(* await before the segments are put.                                      *)
SegRead ==
  /\ SegmenterRuns
  /\ batch = <<>> /\ inputQ # <<>>
  /\ inputQ' = Tail(inputQ)
  /\ LET it == Head(inputQ)
         new == IF it.act = "append" THEN it.n ELSE 0
         stretch == [pending EXCEPT !.hi = @ + new]
     IN IF Stale(it) THEN UNCHANGED <<buffered, pending, batch>>
        ELSE /\ buffered' = buffered - new
             /\ \E to \in CutPoints(it.act, stretch) : \E s \in Cuts(pending.lo, to) :
                  /\ \E rest \in Rests(it.act, to) :
                       /\ rest >= pending.lo
                       /\ pending' = [stretch EXCEPT !.lo = rest]
                  /\ batch' = Segments(it.gen, s) \o Marker(it)
  /\ UNCHANGED <<linkVars, generation, accepted, idle, asked, paused, segQ,
                 voiceVars>>

(* The puts: as many as fit without waiting, the rest when there is room.  *)
(* A cancellation meanwhile leaves them tagged with the old generation.    *)
SegPut ==
  /\ SegmenterRuns
  /\ batch # <<>> /\ Len(segQ) < MaxSegments
  /\ LET room == MaxSegments - Len(segQ)
         n == IF Len(batch) < room THEN Len(batch) ELSE room
     IN /\ segQ' = segQ \o SubSeq(batch, 1, n)
        /\ batch' = SubSeq(batch, n + 1, Len(batch))
  /\ UNCHANGED <<linkVars, inputVars, paused, pending, voiceVars>>

-----------------------------------------------------------------------------
(* The synthesizer: _synthesis_loop() and _synthesize_segment().           *)

Say(ev) == sendQ' = Append(sendQ, Call("syn", ev))

(* An item whose turn has come: the end of a text and a segment with       *)
(* nothing to say are reported, a segment with words becomes a response    *)
(* with a fresh cancel event.  The pronunciation dictionary may raise on   *)
(* its words, which is the end of the synthesizer's task.                  *)
Begin(it) ==
  /\ item' = it
  /\ \/ /\ it.kind = "end"
        /\ Say(Event("textDone", it.gen, 0, it.hi))
        /\ spc' = "told"
        /\ UNCHANGED <<status, active, responses, playback, stop>>
     \/ /\ it.kind = "mark"
        /\ Say(Event("skipped", it.gen, 0, it.hi))
        /\ spc' = "told"
        /\ UNCHANGED <<status, active, responses, playback, stop>>
     \/ /\ it.kind = "word"
        /\ responses' = responses + 1
        /\ active' = responses + 1
        /\ status' = "completed"
        /\ stop' = FALSE
        /\ playback' = With(playback, responses + 1,
                               [sent |-> 0, acked |-> 0, done |-> FALSE])
        /\ \/ Say(Event("created", it.gen, responses + 1, it.hi)) /\ spc' = "announce"
           \/ spc' = "dead" /\ UNCHANGED sendQ

SynStop ==
  /\ spc = "get"
  /\ segQ # <<>> /\ Head(segQ).kind = "stop"
  /\ spc' = "exit"
  /\ segQ' = Tail(segQ)
  /\ UNCHANGED <<linkVars, inputVars, paused, pending, batch, item, frame,
                 status, active, responses, playback, workerVars, wakeVars,
                 heardVars>>

SynDiscard ==
  /\ spc = "get"
  /\ segQ # <<>> /\ Head(segQ).kind # "stop"
  /\ Stale(Head(segQ)) \/ closing
  /\ segQ' = Tail(segQ)
  /\ UNCHANGED <<linkVars, inputVars, paused, pending, batch, voiceVars>>

SynTake ==
  /\ spc = "get"
  /\ segQ # <<>> /\ Head(segQ).kind # "stop"
  /\ ~Stale(Head(segQ)) /\ ~closing
  /\ segQ' = Tail(segQ)
  /\ IF FlowOpen
     THEN Begin(Head(segQ)) /\ UNCHANGED <<frame, flowChanged>>
     ELSE /\ item' = Head(segQ)
          /\ spc' = "waiting"
          /\ flowChanged' = FALSE
          /\ UNCHANGED <<sendQ, frame, status, active, responses, playback,
                         stop>>
  /\ UNCHANGED <<sockVars, rpc, inputVars, paused, pending, batch,
                 workerVars, heardVars>>

(* _wait_for_flow() is woken before a segment: it looks again, and an item *)
(* that went stale during the wait is dropped.                             *)
SynWake ==
  /\ spc = "waiting"
  /\ flowChanged
  /\ \/ /\ closing
        /\ spc' = "exit"
        /\ UNCHANGED <<sendQ, item, status, active, responses, playback,
                          wakeVars>>
     \/ /\ ~closing /\ ~FlowOpen
        /\ flowChanged' = FALSE
        /\ UNCHANGED <<sendQ, spc, item, status, active, responses,
                          playback, stop>>
     \/ /\ ~closing /\ FlowOpen /\ Stale(item)
        /\ spc' = "get" /\ item' = Stop
        /\ UNCHANGED <<sendQ, status, active, responses, playback,
                          wakeVars>>
     \/ /\ ~closing /\ FlowOpen /\ ~Stale(item)
        /\ Begin(item) /\ UNCHANGED flowChanged
  /\ UNCHANGED <<sockVars, rpc, textVars, frame, workerVars, heardVars>>

(* input_text.done or input_text.skipped is out. *)
ToldSent(sent) ==
  /\ spc = "told"
  /\ Sent("syn", sent, <<>>)
  /\ spc' = "get" /\ item' = Stop
  /\ UNCHANGED <<net, slot, rpc, closing, textVars, frame, status, active,
                 responses, playback, workerVars>>

(* response.created is out: the segment goes to the executor, whatever     *)
(* happened to the session during the send.                                *)
CreatedSent(sent) ==
  /\ spc = "announce"
  /\ Sent("syn", sent, <<>>)
  /\ worker' = "queued"
  /\ produced' = 0
  /\ out' = <<>>
  /\ spc' = "output"
  /\ UNCHANGED <<net, slot, rpc, closing, textVars, item, frame, status,
                 active, responses, playback>>

(* The response is over, its locals are gone. *)
EndResponse ==
  /\ spc' = "get" /\ item' = Stop
  /\ active' = 0 /\ worker' = "none"
  /\ status' = "completed" /\ produced' = 0 /\ out' = <<>>

(* The frame is charged to the playback window and sent. *)
SendFrame(f) ==
  /\ playback' = [playback EXCEPT ![active].sent = f + 1]
  /\ Say(Event("delta", item.gen, active, f))
  /\ spc' = "delta"

(* A frame of a cancelled generation, or of a stopped worker, is dropped. *)
FrameDropped ==
  /\ spc = "output"
  /\ out # <<>> /\ Head(out).kind = "audio"
  /\ Stale(item) \/ stop
  /\ out' = Tail(out)
  /\ status' = "cancelled"
  /\ UNCHANGED <<linkVars, textVars, spc, item, frame, active, responses,
                 playback, worker, produced, wakeVars, heardVars>>

(* A frame is sent if the window is open, else it is kept until it is.     *)
(* (_closing is never set here without _worker_cancel.)                    *)
FrameTaken ==
  /\ spc = "output"
  /\ out # <<>> /\ Head(out).kind = "audio"
  /\ ~Stale(item) /\ ~stop
  /\ out' = Tail(out)
  /\ IF FlowOpen
     THEN SendFrame(Head(out).seq) /\ UNCHANGED <<frame, flowChanged>>
     ELSE /\ spc' = "holding"
          /\ frame' = Head(out).seq
          /\ flowChanged' = FALSE
          /\ UNCHANGED <<sendQ, playback>>
  /\ UNCHANGED <<sockVars, rpc, textVars, item, status, active, responses,
                 worker, produced, stop, heardVars>>

(* _wait_for_flow() is woken while it holds a frame. *)
FrameWake ==
  /\ spc = "holding"
  /\ flowChanged
  /\ \/ /\ closing
        /\ status' = "cancelled" /\ stop' = TRUE
        /\ spc' = "join"
        /\ UNCHANGED <<sendQ, playback, flowChanged>>
     \/ /\ ~closing /\ ~FlowOpen
        /\ flowChanged' = FALSE
        /\ UNCHANGED <<sendQ, spc, status, playback, stop>>
     \/ /\ ~closing /\ FlowOpen /\ Stale(item)
        /\ status' = "cancelled" /\ stop' = TRUE
        /\ spc' = "output"
        /\ UNCHANGED <<sendQ, playback, flowChanged>>
     \/ /\ ~closing /\ FlowOpen /\ ~Stale(item)
        /\ SendFrame(frame) /\ UNCHANGED <<status, flowChanged, stop>>
  /\ frame' = IF spc' = "holding" THEN frame ELSE 0
  /\ UNCHANGED <<sockVars, rpc, textVars, item, active, responses, workerVars,
                 heardVars>>

DeltaSent(sent) ==
  /\ spc = "delta"
  /\ Sent("syn", sent, <<>>)
  /\ spc' = "output"
  /\ UNCHANGED <<net, slot, rpc, closing, textVars, item, frame, status,
                 active, responses, playback, workerVars>>

(* The acknowledgements or the resume did not come in time (the timer may  *)
(* win against a wake-up): the session is closed with an error.            *)
FlowTimeout ==
  /\ "flow" \in Uses
  /\ spc \in {"waiting", "holding"}
  /\ Say(Reply)
  /\ spc' = IF spc = "waiting" THEN "stalled" ELSE "stalledHolding"
  /\ UNCHANGED <<sockVars, rpc, textVars, item, frame, status, active,
                 responses, playback, workerVars, wakeVars, heardVars>>

FlowErrorSent(sent) ==
  /\ spc \in {"stalled", "stalledHolding"}
  /\ Transmit("syn", sent)
  /\ sendQ' = Tail(sendQ)
  /\ closing' = TRUE /\ stop' = TRUE /\ flowChanged' = TRUE
  /\ net' = "closed"
  /\ IF spc = "stalled" THEN spc' = "exit" /\ UNCHANGED status
                        ELSE spc' = "join" /\ status' = "cancelled"
  /\ UNCHANGED <<slot, rpc, textVars, item, frame, active, responses, playback,
                 workerVars>>

(* The worker failed: an error for the response, of whatever generation. *)
WorkerError ==
  /\ spc = "output"
  /\ out # <<>> /\ Head(out).kind = "error"
  /\ out' = Tail(out)
  /\ status' = "failed"
  /\ Say(Reply)
  /\ spc' = "errored"
  /\ UNCHANGED <<sockVars, rpc, textVars, item, frame, active, responses,
                 playback, worker, produced, wakeVars, heardVars>>

ErrorSent(sent) ==
  /\ spc = "errored"
  /\ Sent("syn", sent, <<>>)
  /\ spc' = "join"
  /\ UNCHANGED <<net, slot, rpc, closing, textVars, item, frame, status,
                 active, responses, playback, workerVars>>

WorkerDone ==
  /\ spc = "output"
  /\ out # <<>> /\ Head(out).kind = "done"
  /\ out' = Tail(out)
  /\ spc' = "join"
  /\ UNCHANGED <<linkVars, textVars, item, frame, status, active, responses,
                 playback, worker, produced, wakeVars, heardVars>>

(* The worker is awaited.  Its tracker goes unless frames are outstanding  *)
(* (a cancellation may have removed it already).  The generation is looked *)
(* at once, before the first of the two closing events.                    *)
Join ==
  /\ spc = "join"
  /\ worker = "finished"
  /\ playback' = IF active \notin DOMAIN playback THEN playback
                 ELSE IF playback[active].sent = playback[active].acked
                 THEN Without(playback, active)
                 ELSE [playback EXCEPT ![active].done = TRUE]
  /\ IF Stale(item) \/ disconnected
     THEN EndResponse /\ UNCHANGED sendQ
     ELSE /\ IF status = "failed"
             THEN Say(Event("failed", item.gen, active, 0)) /\ spc' = "done"
             ELSE Say(Event("audioDone", item.gen, active, 0)) /\ spc' = "audioDone"
          /\ UNCHANGED <<item, status, active, workerVars>>
  /\ UNCHANGED <<sockVars, rpc, textVars, frame, responses, wakeVars,
                 heardVars>>

AudioDoneSent(sent) ==
  /\ spc = "audioDone"
  /\ Sent("syn", sent, <<[who |-> "syn", live |-> ~disconnected',
                          ev |-> Event("done", item.gen, active, 0)]>>)
  /\ spc' = "done"
  /\ UNCHANGED <<net, slot, rpc, closing, textVars, item, frame, status,
                 active, responses, playback, workerVars>>

DoneSent(sent) ==
  /\ spc = "done"
  /\ Sent("syn", sent, <<>>)
  /\ EndResponse
  /\ UNCHANGED <<net, slot, rpc, closing, textVars, frame, responses,
                 playback>>

-----------------------------------------------------------------------------
(* The worker: _synthesize_worker() on the executor thread.  A frame that  *)
(* slips out between its test of the cancel event and the event being set  *)
(* is one emitted just before: either way the synthesizer drops it.        *)

WorkerStarts ==
  /\ worker = "queued"
  /\ worker' = "running"
  /\ UNCHANGED <<linkVars, textVars, synVars, playback, produced, out,
                 wakeVars, heardVars>>

WorkerEmits ==
  /\ worker = "running"
  /\ ~stop /\ produced < MaxFrames
  /\ produced' = produced + 1
  /\ out' = Append(out, [kind |-> "audio", seq |-> produced])
  /\ UNCHANGED <<linkVars, textVars, synVars, playback, worker, wakeVars,
                 heardVars>>

(* The text is spoken, the cancel event was seen, or the backend raised;   *)
(* the generator still has to be closed.                                   *)
WorkerReports(kind) ==
  /\ worker = "running"
  /\ worker' = "closing"
  /\ out' = Append(out, [kind |-> kind, seq |-> produced])
  /\ UNCHANGED <<linkVars, textVars, synVars, playback, produced, wakeVars,
                 heardVars>>

WorkerEnds ==
  /\ worker = "closing"
  /\ worker' = "finished"
  /\ UNCHANGED <<linkVars, textVars, synVars, playback, produced, out,
                 wakeVars, heardVars>>

-----------------------------------------------------------------------------
(* The client goes away. *)
ClientCloses ==
  /\ "leave" \in Uses
  /\ net = "open" /\ rpc # "new"
  /\ net' = "closed"
  /\ UNCHANGED <<slot, rpc, closing, disconnected, sendQ, textVars, voiceVars>>

(* A session.status is the first to find the socket closed.  (A status     *)
(* that is sent changes nothing, and one that waits only delays its task.) *)
StatusFails ==
  /\ net = "closed" /\ ~disconnected
  /\ rpc \notin {"late", "over", "raised"}
  /\ disconnected' = TRUE
  /\ stop' = TRUE
  /\ flowChanged' = TRUE
  /\ UNCHANGED <<net, slot, rpc, closing, sendQ, textVars, respVars, heardVars>>

(* The endpoint has ended. *)
Served == rpc \in {"over", "raised"} /\ UNCHANGED vars

Init ==
  /\ net = "open" /\ slot = "none" /\ rpc = "new"
  /\ closing = FALSE /\ disconnected = FALSE /\ sendQ = <<>>
  /\ generation = 0 /\ inputQ = <<>> /\ buffered = 0 /\ accepted = 0
  /\ idle = FALSE /\ asked = 0
  /\ paused = FALSE
  /\ pending = [lo |-> 0, hi |-> 0] /\ batch = <<>> /\ segQ = <<>>
  /\ spc = "get" /\ item = Stop /\ frame = 0 /\ status = "completed"
  /\ active = 0 /\ responses = 0
  /\ playback = <<>> /\ flowChanged = FALSE
  /\ worker = "none" /\ produced = 0 /\ out = <<>> /\ stop = FALSE
  /\ Speech!SpeechInit

(* What a client may send, and when it may go. *)
ClientNext ==
  \/ Connect
  \/ \E n \in 1..Len(Text) : HandleAppend(n)
  \/ HandleCommit \/ HandleCancel \/ HandlePause \/ HandleResume
  \/ HandleUpdate \/ HandleOther
  \/ \E r \in DOMAIN playback : \E s \in 0..(MaxFrames - 1) : HandleAck(r, s)
  \/ ClientCloses

ReaderNext ==
  \/ \E sent \in BOOLEAN : ReplySent(sent) \/ GiveUpSent(sent)
  \/ UpdateDone \/ UpdateRefused \/ GaveUp \/ NoticeDisconnect
  \/ StopSegmenter \/ Joined \/ ShutdownRaises \/ LateRelease

SegmenterNext == SegRead \/ SegPut

SynthesizerNext ==
  \/ SynStop \/ SynDiscard \/ SynTake \/ SynWake
  \/ FrameDropped \/ FrameTaken \/ FrameWake
  \/ WorkerError \/ WorkerDone \/ Join
  \/ \E sent \in BOOLEAN :
       \/ ToldSent(sent) \/ CreatedSent(sent) \/ DeltaSent(sent) \/ FlowErrorSent(sent)
       \/ ErrorSent(sent) \/ AudioDoneSent(sent) \/ DoneSent(sent)

WorkerNext ==
  \/ WorkerStarts \/ WorkerEmits \/ WorkerEnds
  \/ \E kind \in {"done", "error"} : WorkerReports(kind)

TimerNext == IdleFires \/ GiveUp \/ FlowTimeout \/ JoinTimeout

Next ==
  \/ ClientNext \/ ReaderNext \/ SegmenterNext \/ SynthesizerNext
  \/ WorkerNext \/ TimerNext \/ StatusFails \/ Served

(* Tasks and threads that are ready to run do run, a synthesis ends, and   *)
(* the timers that bound a wait expire.  The messages a client left in a   *)
(* closed socket are finitely many, so the reader gets to its end (the     *)
(* strong fairness).  The limit on a pause counts from its beginning; the  *)
(* one on missing acknowledgements counts again from every wake-up, so it  *)
(* expires only where none comes.  Nothing is assumed of the client: it    *)
(* need not acknowledge, resume or leave.                                  *)
Fairness ==
  /\ WF_vars(ReaderNext) /\ WF_vars(SegmenterNext) /\ WF_vars(SynthesizerNext)
  /\ SF_vars(NoticeDisconnect)
  /\ WF_vars(WorkerStarts) /\ WF_vars(WorkerEnds)
  /\ WF_vars(\E kind \in {"done", "error"} : WorkerReports(kind))
  /\ WF_vars(paused /\ FlowTimeout) /\ WF_vars(~flowChanged /\ FlowTimeout)
  /\ WF_vars(JoinTimeout)

Spec == Init /\ [][Next]_vars /\ Fairness

-----------------------------------------------------------------------------
(* Properties. *)

Item == [kind : {"word", "mark", "end", "stop"}, gen : Nat, lo : Nat, hi : Nat]

SendCall ==
  [who : {"reader", "syn"}, live : BOOLEAN,
   ev : [kind : {"reply", "paused", "resumed", "cancelled", "created", "delta",
                 "audioDone", "done", "failed", "skipped", "textDone"},
         gen : Nat, id : Nat, n : Nat]]

TypeOK ==
  /\ net \in {"open", "closed"}
  /\ slot \in {"none", "active", "draining"}
  /\ rpc \in {"new", "run", "reply", "updating", "givingUp", "gaveUp", "stopping",
              "joining", "late", "over", "raised"}
  /\ closing \in BOOLEAN /\ disconnected \in BOOLEAN
  /\ sendQ \in Seq(SendCall)
  /\ generation \in Nat
  /\ inputQ \in Seq([act : {"append", "commit", "idle"}, gen : Nat, n : Nat])
  /\ buffered \in Nat /\ accepted \in Nat /\ asked \in Nat
  /\ idle \in BOOLEAN /\ paused \in BOOLEAN
  /\ pending \in [lo : Nat, hi : Nat]
  /\ batch \in Seq(Item) /\ segQ \in Seq(Item)
  /\ spc \in {"get", "waiting", "told", "announce", "output", "holding", "delta",
              "stalled", "stalledHolding", "errored", "join", "audioDone", "done", "exit",
              "dead"}
  /\ item \in Item /\ frame \in Nat
  /\ status \in {"completed", "failed", "cancelled"}
  /\ active \in Nat /\ responses \in Nat
  /\ playback \in [DOMAIN playback -> [sent : Nat, acked : Nat, done : BOOLEAN]]
  /\ flowChanged \in BOOLEAN
  /\ worker \in {"none", "queued", "running", "closing", "finished"}
  /\ produced \in Nat
  /\ out \in Seq([kind : {"audio", "done", "error"}, seq : Nat])
  /\ stop \in BOOLEAN

(* The buffer gauge clients pace themselves by (session.status, and the    *)
(* test that answers buffer_overflow) is exact: the characters of the      *)
(* appends that the segmenter has not read, of this generation only, and   *)
(* never more than the limit (server.py:539-546, 579, 666).                *)
BufferExact ==
  /\ buffered = MapThenSumSet(LAMBDA i : inputQ[i].n,
                  {i \in DOMAIN inputQ : inputQ[i].act = "append"})
  /\ buffered <= MaxBuffer

(* Playback the client has not acknowledged never exceeds the window, over *)
(* all its responses and through cancellations (server.py:834-859).        *)
WindowKept == Unacked <= MaxUnacked

(* No wake-up is lost: when the synthesizer sleeps although the window is  *)
(* open, or the session is closing, its event is set (server.py:855-862    *)
(* clears the event between two looks at the state; 570-617 and 290 set it).*)
WakeUpPending ==
  spc \in {"waiting", "holding"} /\ (closing \/ FlowOpen) => flowChanged

(* The events the client hears keep the promises of LiveSpeech. *)
SpeechContract == Speech!SpeechSpec

(* The session as LiveAdmission sees it. *)
Task ==
  CASE rpc \in {"new", "over"} -> "idle"
    [] rpc \in {"stopping", "joining"} -> "stopping"
    [] rpc = "late" -> "handedOver"
    [] rpc = "raised" -> "raised"
    [] OTHER -> "serving"

Thread ==
  CASE rpc = "over" -> "none"
    [] worker = "closing" -> "running"
    [] OTHER -> worker

Admission == INSTANCE LiveAdmission WITH
  Conn   <- {"self"},
  Limit  <- 1,
  slot   <- [c \in {"self"} |-> slot],
  task   <- [c \in {"self"} |-> Task],
  worker <- [c \in {"self"} |-> Thread],
  queue  <- IF worker = "queued" THEN <<"self">> ELSE <<>>

(* This connection behaves as LiveAdmission says a connection does: its    *)
(* slot is held until its last worker is done, and comes back unless the   *)
(* synthesizer died of an exception.                                       *)
AdmissionContract == Admission!Spec

(* How far the slot, the reader and the synthesizer's worker can be apart: *)
(* the inductive invariant behind the refinement of LiveAdmission.         *)
SlotMatchesReader ==
  /\ rpc = "new" => slot = "none" /\ spc = "get" /\ segQ = <<>>
  /\ rpc \in {"run", "reply", "updating", "givingUp", "gaveUp"} => slot = "active"
  /\ rpc \in {"stopping", "joining", "late", "raised"} => slot = "draining"
  /\ rpc = "over" => slot = "none" /\ worker \in {"none", "finished"}

WorkerMatchesSynthesizer ==
  /\ spc \in {"get", "waiting", "told", "announce", "stalled", "dead"} => worker = "none"
  /\ spc \in {"output", "holding", "delta", "stalledHolding", "errored", "join"} =>
       worker \in {"queued", "running", "closing", "finished"}
  /\ spc \in {"audioDone", "done"} => worker = "finished"
  /\ spc = "exit" /\ rpc \notin {"late", "over"} => worker = "none"

ReaderShape ==
  /\ rpc \in {"new", "run", "reply", "updating", "givingUp", "gaveUp", "stopping",
              "joining", "late", "over", "raised"}
  /\ spc \in {"get", "waiting", "told", "announce", "output", "holding", "delta",
              "stalled", "stalledHolding", "errored", "join", "audioDone", "done",
              "exit", "dead"}
  /\ worker \in {"none", "queued", "running", "closing", "finished"}
  /\ rpc \in {"late", "over"} => spc = "exit"
  /\ rpc = "raised" => spc = "dead"
  /\ SlotMatchesReader
  /\ WorkerMatchesSynthesizer

(* Every commit is answered with input_text.done, unless the generation is *)
(* cancelled, the session ends or the dictionary raised: the queues, the   *)
(* flow control, the worker and the send lock never wait for each other,   *)
(* and a client that stops acknowledging or stays paused is cut off.  One  *)
(* that sends playback.resume again and again is not: each restarts the    *)
(* timer of _wait_for_flow (server.py:614-617, 834-865).                   *)
CommitAnswered ==
  <>[][~HandleResume]_vars =>
    (asked > answered ~> (asked <= answered \/ rpc = "over" \/ spc = "dead"))

(* Once the socket is closed, by whoever, the slot is given back, unless   *)
(* the dictionary raised: then the endpoint loses it (server.py:396-401,   *)
(* 720, 974-986).                                                          *)
SlotFreed == net = "closed" ~> (slot = "none" \/ rpc = "raised")
=============================================================================
