------------------------- MODULE SpeechServiceProofs -------------------------
(***************************************************************************)
(* Proofs about SpeechService for every number of requests, every queue    *)
(* size, every number of pieces and any crashes: a stream that ends        *)
(* without an error has carried all the audio there is.                    *)
(***************************************************************************)
EXTENDS SpeechService, SequenceTheorems, TLAPS

(* What a request and its worker can hold. *)
Item == {"audio", "error", "end"}

Asking ==
  [kind : {"stream", "whole", "clone", "wyoming", None}, key : Key \cup {None},
   pc : {"none", "wait", "first", "start", "body", "done"},
   hand : Item \cup {"none"}, getter : BOOLEAN, cancel : BOOLEAN,
   sent : Nat, rate : Nat, answer : {"none", "refused", "ok", "failed", "left"},
   logged : BOOLEAN]

Working ==
  [job : {"none", "want", "synth", "encode", "fail", "finish", "end", "force", "store",
          "rename", "evict", "over"},
   total : Nat, left : Nat, queue : Seq(Item), failed : BOOLEAN, unmarked : BOOLEAN]

(* Pieces on their way to the client: in the handler's hand, and in the    *)
(* queue, where the end of the stream takes a place as well.               *)
Sent(q)   == q.sent
InHand(q) == IF q.hand = "audio" THEN 1 ELSE 0
Left(w)   == w.left
Total(w)  == w.total

InQueue(q, w) ==
  Len(w.queue) - (IF w.job = "over" /\ q.hand # "end" THEN 1 ELSE 0)

(* Nothing went wrong so far: the queue holds audio, at last the end, and  *)
(* no piece is lost between the encoder and the client.                    *)
EndsWell(q, w) ==
  /\ w.job # "fail"
  /\ w.job \in {"want", "synth"} => w.total = 0
  /\ w.job \in {"finish", "end", "over"} => w.left = 0
  /\ q.hand # "error"
  /\ q.hand = "end" => w.job = "over" /\ w.queue = <<>>
  /\ w.job = "over" /\ q.hand # "end" => w.queue # <<>>
  /\ \A i \in DOMAIN w.queue :
       w.queue[i] = IF w.job = "over" /\ i = Len(w.queue) THEN "end" ELSE "audio"
  /\ Sent(q) + InHand(q) + InQueue(q, w) + Left(w) = Total(w)

(* Something did: an error comes to the client before the end does. *)
EndsBadly(q, w) ==
  /\ w.job \in {"fail", "finish", "end", "over"}
  /\ q.hand # "end"
  /\ w.job # "fail" /\ q.hand # "error" => \E j \in DOMAIN w.queue : w.queue[j] = "error"
  /\ q.hand # "error" =>
       \A i \in DOMAIN w.queue :
         w.queue[i] = "end" => \E j \in 1..(i - 1) : w.queue[j] = "error"

(* A stream somebody still reads. *)
Flows(q, w) ==
  /\ ~q.cancel /\ q.answer # "ok"
  /\ w.job # "force"
  /\ q.getter => q.hand = "none"
  /\ ~w.failed => EndsWell(q, w)
  /\ w.failed => EndsBadly(q, w)

Fine(q, w) ==
  /\ q.pc = "none" => q.answer # "ok" /\
       w.job = "none" /\ w.total = 0 /\ w.left = 0 /\ w.queue = <<>> /\ ~w.failed
  /\ q.kind = "stream" /\ q.pc # "none" =>
       /\ q.pc # "wait" /\ w.job \notin {"store", "rename", "evict"}
       /\ q.pc # "done" => Flows(q, w)
       /\ q.pc = "done" /\ q.answer = "ok" =>
            w.job = "over" /\ q.sent = w.total /\ ~w.failed

(* Only a request that has a file to write holds the lock of a cache.      *)
Keeps(i) == inst[i] \in Request => req[inst[i]].pc # "none" /\ req[inst[i]].kind # "stream"

StreamInv ==
  /\ req \in [Request -> Asking]
  /\ work \in [Request -> Working]
  /\ content \in [Key -> Nat]
  /\ inst \in [Instance -> Request \cup {Cleanup, None}]
  /\ \A r \in Request : Fine(req[r], work[r])
  /\ \A i \in Instance : Keeps(i)

-----------------------------------------------------------------------------
(* A step of one request: it keeps its kind, and the others stay. *)
LEMMA OneRequest ==
  ASSUME StreamInv, NEW r \in Request, NEW q \in Asking, NEW w \in Working,
         req' = [req EXCEPT ![r] = q], work' = [work EXCEPT ![r] = w], Fine(q, w),
         req[r].pc # "none" => q.pc # "none" /\ q.kind = req[r].kind,
         content' \in [Key -> Nat],
         inst' \in [Instance -> Request \cup {Cleanup, None}],
         \A i \in Instance : inst'[i] \in Request /\ inst'[i] # inst[i] =>
           inst'[i] = r /\ q.pc # "none" /\ q.kind # "stream"
  PROVE  StreamInv'
<1>1. /\ req' \in [Request -> Asking] /\ work' \in [Request -> Working]
      /\ req'[r] = q /\ work'[r] = w
      /\ \A s \in Request \ {r} : req'[s] = req[s] /\ work'[s] = work[s]
  BY DEF StreamInv
<1>2. \A s \in Request : Fine(req'[s], work'[s])
  BY <1>1 DEF StreamInv
<1>3. \A i \in Instance : inst'[i] \in Request =>
        req'[inst'[i]].pc # "none" /\ req'[inst'[i]].kind # "stream"
  <2> TAKE i \in Instance
  <2> HAVE inst'[i] \in Request
  <2>1. CASE inst'[i] # inst[i]
    BY <1>1, <2>1
  <2>2. CASE inst'[i] = inst[i]
    <3>1. req[inst[i]].pc # "none" /\ req[inst[i]].kind # "stream"
      BY <2>2 DEF StreamInv, Keeps
    <3> QED BY <1>1, <2>2, <3>1
  <2> QED BY <2>1, <2>2
<1> QED BY <1>1, <1>2, <1>3 DEF StreamInv, Keeps

(* The handler alone moves, or the worker alone. *)
LEMMA HandlerOnly ==
  ASSUME StreamInv, NEW r \in Request, NEW q \in Asking,
         req' = [req EXCEPT ![r] = q], UNCHANGED <<work, content, inst>>, Fine(q, work[r]),
         q.pc # "none", req[r].pc # "none" => q.kind = req[r].kind
  PROVE  StreamInv'
<1>1. work[r] \in Working /\ work' = [work EXCEPT ![r] = work[r]]
  BY DEF StreamInv
<1>2. content' \in [Key -> Nat] /\ inst' \in [Instance -> Request \cup {Cleanup, None}]
  BY DEF StreamInv
<1> DEFINE w == work[r]
<1> HIDE DEF w
<1>3. w \in Working /\ work' = [work EXCEPT ![r] = w] /\ Fine(q, w)
  BY <1>1 DEF w
<1> QED BY <1>2, <1>3, OneRequest

LEMMA WorkerOnly ==
  ASSUME StreamInv, NEW r \in Request, NEW w \in Working,
         work' = [work EXCEPT ![r] = w], UNCHANGED <<req, content, inst>>, Fine(req[r], w)
  PROVE  StreamInv'
<1>1. req[r] \in Asking /\ req' = [req EXCEPT ![r] = req[r]]
  BY DEF StreamInv
<1>2. content' \in [Key -> Nat] /\ inst' \in [Instance -> Request \cup {Cleanup, None}]
  BY DEF StreamInv
<1> DEFINE q == req[r]
<1> HIDE DEF q
<1>3. q \in Asking /\ req' = [req EXCEPT ![r] = q] /\ Fine(q, w) /\ q = req[r]
  BY <1>1 DEF q
<1> QED BY <1>2, <1>3, OneRequest

-----------------------------------------------------------------------------
(* A request comes. *)
LEMMA RefuseFine ==
  ASSUME StreamInv, NEW r \in Request, Refuse(r)
  PROVE  StreamInv'
<1> DEFINE q == [req[r] EXCEPT !.pc = "done", !.answer = "refused"]
<1>1. /\ req[r] \in Asking /\ req' = [req EXCEPT ![r] = q] /\ req[r].pc = "none"
      /\ UNCHANGED <<work, content, inst>>
  BY DEF StreamInv, Refuse, Comes, cache
<1>2. q \in Asking /\ q.pc = "done" /\ q.answer = "refused"
  BY <1>1 DEF Asking
<1> HIDE DEF q
<1>3. Fine(q, work[r])
  <2>1. work[r].job = "none"
    BY <1>1 DEF StreamInv, Fine
  <2> QED BY <1>2, <2>1 DEF Fine
<1> QED BY <1>1, <1>2, <1>3, HandlerOnly

(* What every fresh request looks like. *)
LEMMA AskedFields ==
  ASSUME NEW kind \in {"stream", "whole", "clone", "wyoming"}, NEW k \in Key \cup {None},
         NEW pc \in {"wait", "first", "done"}
  PROVE  /\ Asked(kind, k, pc) \in Asking
         /\ Asked(kind, k, pc).kind = kind /\ Asked(kind, k, pc).pc = pc
         /\ Asked(kind, k, pc).hand = "none" /\ Asked(kind, k, pc).sent = 0
         /\ ~Asked(kind, k, pc).cancel /\ Asked(kind, k, pc).answer = "none"
  BY DEF Asked, NoAsk, Asking, Item

(* A worker thread starts for it. *)
LEMMA ThreadFine ==
  ASSUME StreamInv, NEW r \in Request, req[r].pc = "none", NEW q \in Asking,
         req' = [req EXCEPT ![r] = q],
         work' = [work EXCEPT ![r] = [@ EXCEPT !.job = "want"]], UNCHANGED <<content, inst>>,
         \/ q.kind \in {"whole", "clone", "wyoming"} /\ q.pc = "wait"
         \/ q.kind = "stream" /\ q.pc = "first" /\ q.hand = "none" /\ q.sent = 0 /\ ~q.cancel
              /\ q.answer = "none"
  PROVE  StreamInv'
<1> DEFINE w == [work[r] EXCEPT !.job = "want"]
<1>1. /\ work[r] \in Working /\ work[r].job = "none" /\ work[r].total = 0 /\ work[r].left = 0
      /\ work[r].queue = <<>> /\ ~work[r].failed
  BY DEF StreamInv, Fine
<1>2. /\ w \in Working /\ w.job = "want" /\ w.total = 0 /\ w.left = 0
      /\ w.queue = <<>> /\ ~w.failed /\ work' = [work EXCEPT ![r] = w]
  BY <1>1 DEF Working
<1> HIDE DEF w
<1>3. q.kind = "stream" => EndsWell(q, w)
  BY <1>2 DEF EndsWell, InHand, InQueue, Sent, Left, Total
<1>4. Fine(q, w)
  BY <1>2, <1>3 DEF Fine, Flows
<1>5. content' \in [Key -> Nat] /\ inst' \in [Instance -> Request \cup {Cleanup, None}]
  BY DEF StreamInv
<1> QED BY <1>2, <1>4, <1>5, OneRequest

LEMMA AskFine ==
  ASSUME StreamInv, NEW r \in Request, NEW kind \in Kinds, NEW k \in Key, Ask(r, kind, k)
  PROVE  StreamInv'
<1>1. req[r].pc = "none" /\ kind \in {"stream", "whole", "clone", "wyoming"}
  BY SpeechAssumption DEF Ask, Comes
<1>2. CASE AskStream(r)
  <2> DEFINE a == Asked("stream", None, "first")
             q == [a EXCEPT !.getter = TRUE, !.logged = TRUE]
  <2>1. /\ req' = [req EXCEPT ![r] = q] /\ UNCHANGED <<content, inst>>
        /\ work' = [work EXCEPT ![r] = [@ EXCEPT !.job = "want"]]
    BY <1>2 DEF AskStream, cache
  <2>2. /\ a \in Asking /\ a.kind = "stream" /\ a.pc = "first" /\ a.hand = "none"
        /\ a.sent = 0 /\ ~a.cancel /\ a.answer = "none"
    BY AskedFields
  <2> HIDE DEF a
  <2>3. /\ q \in Asking /\ q.kind = "stream" /\ q.pc = "first" /\ q.hand = "none"
        /\ q.sent = 0 /\ ~q.cancel /\ q.answer = "none"
    BY <2>2 DEF Asking
  <2> HIDE DEF q
  <2> QED BY <1>1, <2>1, <2>3, ThreadFine
<1>3. ASSUME NEW asked \in {"whole", "clone", "wyoming"}, NEW key \in Key \cup {None},
             AskThread(r, asked, key)
      PROVE  StreamInv'
  <2> DEFINE q == Asked(asked, key, "wait")
  <2>1. /\ req' = [req EXCEPT ![r] = q] /\ UNCHANGED <<content, inst>>
        /\ work' = [work EXCEPT ![r] = [@ EXCEPT !.job = "want"]]
    BY <1>3 DEF AskThread, cache
  <2>2. q \in Asking /\ q.kind = asked /\ q.pc = "wait"
    BY AskedFields
  <2> HIDE DEF q
  <2> QED BY <1>1, <2>1, <2>2, ThreadFine
<1>4. ASSUME NEW asked \in {"whole", "wyoming"}, Hit(r, asked, k)
      PROVE  StreamInv'
  <2> DEFINE a == Asked(asked, k, "done")
             q == [a EXCEPT !.answer = "ok", !.rate = content[k], !.logged = (asked = "whole")]
  <2>1. req' = [req EXCEPT ![r] = q] /\ UNCHANGED <<work, content, inst>>
    BY <1>4 DEF Hit
  <2>2. a \in Asking /\ a.kind = asked /\ a.pc = "done"
    BY AskedFields
  <2>3. content[k] \in Nat
    BY DEF StreamInv
  <2> HIDE DEF a
  <2>4. q \in Asking /\ q.kind = asked /\ q.pc = "done"
    BY <2>2, <2>3 DEF Asking
  <2> HIDE DEF q
  <2>5. Fine(q, work[r])
    BY <2>4 DEF Fine
  <2> QED BY <1>1, <2>1, <2>4, <2>5, HandlerOnly
<1> QED
  BY <1>1, <1>2, <1>3, <1>4 DEF Ask, AskCached, AskClone, AskWyoming

-----------------------------------------------------------------------------
(* The thread that synthesizes. *)

(* Its job alone changes, where that breaks no promise. *)
LEMMA JobFine ==
  ASSUME StreamInv, NEW r \in Request,
         NEW job \in {"synth", "finish", "over", "store", "end", "force", "rename", "evict"},
         Work(r, job), UNCHANGED <<req, content, inst>>, req[r].pc # "none",
         req[r].kind = "stream" =>
           /\ job \notin {"store", "rename", "evict"}
           /\ req[r].pc # "done" => Flows(req[r], [work[r] EXCEPT !.job = job])
           /\ req[r].pc = "done" /\ work[r].job = "over" => job = "over"
  PROVE  StreamInv'
<1> DEFINE w == [work[r] EXCEPT !.job = job]
<1>1. /\ work[r] \in Working /\ work' = [work EXCEPT ![r] = w] /\ Fine(req[r], work[r])
  BY DEF StreamInv, Work
<1>2. /\ w \in Working /\ w.job = job /\ w.total = work[r].total /\ w.failed = work[r].failed
  BY <1>1 DEF Working
<1>3. req[r].kind = "stream" /\ req[r].pc # "done" => Flows(req[r], w)
  OBVIOUS
<1> HIDE DEF w
<1>4. Fine(req[r], w)
  BY <1>1, <1>2, <1>3 DEF Fine
<1> QED BY <1>1, <1>2, <1>4, WorkerOnly

(* A worker that is at it belongs to a request. *)
LEMMA AtWork ==
  ASSUME StreamInv, NEW r \in Request, work[r].job # "none"
  PROVE  req[r].pc # "none"
  BY DEF StreamInv, Fine

LEMMA Counts ==
  ASSUME NEW q \in Asking, NEW w \in Working
  PROVE  /\ Sent(q) \in Nat /\ InHand(q) \in Nat /\ Left(w) \in Nat /\ Total(w) \in Nat
         /\ w.queue \in Seq(Item) /\ Len(w.queue) \in Nat
         /\ w.job # "over" => InQueue(q, w) = Len(w.queue)
         /\ w.job = "over" /\ q.hand # "end" => InQueue(q, w) = Len(w.queue) - 1
         /\ q.hand = "end" => InQueue(q, w) = Len(w.queue)
  BY DEF Asking, Working, Sent, InHand, Left, Total, InQueue

LEMMA TakeSynthesisFine ==
  ASSUME StreamInv, NEW r \in Request, TakeSynthesis(r)
  PROVE  StreamInv'
<1> DEFINE q == req[r]
           w == work[r]
           v == [w EXCEPT !.job = "synth"]
<1>1. /\ w.job = "want" /\ Work(r, "synth") /\ UNCHANGED <<req, content, inst>>
  BY DEF TakeSynthesis, cache
<1>2. q \in Asking /\ w \in Working /\ Fine(q, w) /\ q.pc # "none"
  BY <1>1, AtWork DEF StreamInv
<1>3. ASSUME q.kind = "stream", q.pc # "done" PROVE Flows(q, v)
  <2>1. Flows(q, w)
    BY <1>2, <1>3 DEF Fine
  <2>2. /\ v.job = "synth" /\ v.total = w.total /\ v.left = w.left /\ v.queue = w.queue
        /\ v.failed = w.failed
    BY <1>2 DEF Working
  <2> HIDE DEF v, w, q
  <2>3. ~w.failed /\ EndsWell(q, w)
    BY <1>1, <2>1 DEF Flows, EndsBadly, w
  <2>4. EndsWell(q, v)
    BY <1>1, <2>2, <2>3 DEF EndsWell, InQueue, Left, Total, w
  <2> QED BY <2>1, <2>2, <2>3, <2>4 DEF Flows
<1> QED BY <1>1, <1>2, <1>3, JobFine

(* The worker of a stream that is over has done all it does. *)
LEMMA WorkFine ==
  ASSUME StreamInv, NEW r \in Request, work[r].job \notin {"none", "over"}, NEW w \in Working,
         work' = [work EXCEPT ![r] = w], UNCHANGED <<req, content, inst>>,
         req[r].kind = "stream" =>
           /\ w.job \notin {"store", "rename", "evict"}
           /\ req[r].pc # "done" => Flows(req[r], w)
  PROVE  StreamInv'
<1>1. req[r] \in Asking /\ Fine(req[r], work[r]) /\ req[r].pc # "none"
  BY AtWork DEF StreamInv
<1>2. Fine(req[r], w)
  BY <1>1 DEF Fine
<1> QED BY <1>2, WorkerOnly

(* What is known of a stream that is read, and of its worker. *)
LEMMA Flowing ==
  ASSUME StreamInv, NEW r \in Request, req[r].kind = "stream",
         req[r].pc \notin {"none", "done"}
  PROVE  Flows(req[r], work[r])
  BY DEF StreamInv, Fine

LEMMA SynthesizeFine ==
  ASSUME StreamInv, NEW r \in Request, Synthesize(r)
  PROVE  StreamInv'
<1> DEFINE q == req[r]
           w == work[r]
<1>1. w.job = "synth" /\ UNCHANGED <<req, content, inst>>
  BY DEF Synthesize, cache
<1>2. q \in Asking /\ w \in Working /\ q.pc # "none"
  BY <1>1, AtWork DEF StreamInv
(* Nothing has been made yet. *)
<1>3. ASSUME q.kind = "stream", q.pc # "done"
      PROVE  /\ Flows(q, w) /\ ~w.failed /\ EndsWell(q, w) /\ q.hand # "end"
             /\ Sent(q) = 0 /\ InHand(q) = 0 /\ Len(w.queue) = 0 /\ w.queue = <<>>
  <2>1. Flows(q, w)
    BY <1>2, <1>3, Flowing
  <2>2. ~w.failed /\ EndsWell(q, w)
    BY <1>1, <2>1 DEF Flows, EndsBadly
  <2>3. /\ Sent(q) \in Nat /\ InHand(q) \in Nat /\ Left(w) \in Nat
        /\ w.queue \in Seq(Item) /\ Len(w.queue) \in Nat /\ InQueue(q, w) = Len(w.queue)
    BY <1>1, <1>2, Counts
  <2>4. Total(w) = 0 /\ q.hand # "end"
    BY <1>1, <2>2 DEF EndsWell, Total
  <2>5. Sent(q) + InHand(q) + InQueue(q, w) + Left(w) = 0
    BY <2>2, <2>4 DEF EndsWell
  <2>6. Sent(q) = 0 /\ InHand(q) = 0 /\ Len(w.queue) = 0
    BY <2>3, <2>5
  <2> QED BY <2>1, <2>2, <2>3, <2>4, <2>6
<1>4. CASE EndSynthesis(r)
  <2>1. PICK n \in 0..(IF Kind(r) = "stream" THEN MaxChunks ELSE 1) :
          work' = [work EXCEPT ![r] = [@ EXCEPT !.job = "encode", !.total = n, !.left = n]]
    BY <1>4 DEF EndSynthesis
  <2> DEFINE v == [w EXCEPT !.job = "encode", !.total = n, !.left = n]
  <2>2. n \in Nat
    BY SpeechAssumption
  <2>3. /\ v \in Working /\ v.job = "encode" /\ v.total = n /\ v.left = n
        /\ v.queue = w.queue /\ v.failed = w.failed /\ work' = [work EXCEPT ![r] = v]
    BY <1>2, <2>1, <2>2 DEF Working
  <2> HIDE DEF v
  <2>4. ASSUME q.kind = "stream", q.pc # "done" PROVE Flows(q, v)
    <3>1. Sent(q) + InHand(q) + InQueue(q, v) + Left(v) = Total(v)
      <4>1. InQueue(q, v) = 0
        BY <1>2, <1>3, <2>3, <2>4, Counts
      <4>2. Left(v) = n /\ Total(v) = n
        BY <2>3 DEF Left, Total
      <4> QED BY <1>3, <2>2, <2>4, <4>1, <4>2
    <3>2. \A i \in DOMAIN v.queue : FALSE
      BY <1>3, <2>3, <2>4
    <3>3. EndsWell(q, v)
      BY <1>3, <2>3, <2>4, <3>1, <3>2 DEF EndsWell
    <3> QED BY <1>3, <2>3, <2>4, <3>3 DEF Flows
  <2> QED BY <1>1, <2>3, <2>4, WorkFine
<1>5. CASE SynthesisFails(r)
  <2> DEFINE job == IF Kind(r) = "stream" THEN "fail" ELSE "over"
             v == [w EXCEPT !.failed = TRUE, !.job = job]
  <2>1. job \in {"fail", "over"} /\ (q.kind = "stream" => job = "fail")
    BY DEF Kind
  <2>2. work' = [work EXCEPT ![r] = v]
    BY <1>5 DEF SynthesisFails
  <2> HIDE DEF job
  <2>3. /\ v \in Working /\ v.job = job /\ v.queue = w.queue /\ v.failed
    BY <1>2, <2>1 DEF Working
  <2> HIDE DEF v
  <2>4. ASSUME q.kind = "stream", q.pc # "done" PROVE Flows(q, v)
    BY <1>3, <2>1, <2>3, <2>4 DEF Flows, EndsBadly
  <2> QED BY <1>1, <2>1, <2>2, <2>3, <2>4, WorkFine
<1>6. CASE SynthesisStopped(r)
  <2> DEFINE v == [w EXCEPT !.job = "finish"]
  <2>1. q.cancel /\ work' = [work EXCEPT ![r] = v]
    BY <1>6 DEF SynthesisStopped, Work
  <2>2. v \in Working /\ v.job = "finish"
    BY <1>2 DEF Working
  <2> HIDE DEF v
  <2>3. ~(q.kind = "stream" /\ q.pc # "done")
    BY <1>3, <2>1 DEF Flows
  <2> QED BY <1>1, <2>1, <2>2, <2>3, WorkFine
<1> QED BY <1>4, <1>5, <1>6 DEF Synthesize

LEMMA EncodeWholeFine ==
  ASSUME StreamInv, NEW r \in Request, EncodeWhole(r)
  PROVE  StreamInv'
<1> DEFINE job == IF Kind(r) = "clone" \/ work[r].total = 0 THEN "over" ELSE "store"
           v == [work[r] EXCEPT !.job = job]
<1>1. /\ work[r].job = "encode" /\ req[r].kind # "stream" /\ work' = [work EXCEPT ![r] = v]
      /\ UNCHANGED <<req, content, inst>>
  BY DEF EncodeWhole, Work, cache, Kind
<1>2. v \in Working
  BY DEF StreamInv, Working
<1> HIDE DEF v
<1> QED BY <1>1, <1>2, WorkFine

-----------------------------------------------------------------------------
(* The queue of a stream: what is put, and in which order. *)
LEMMA Appended ==
  ASSUME NEW S, NEW s \in Seq(S), NEW e \in S
  PROVE  /\ Append(s, e) \in Seq(S) /\ Len(s) \in Nat /\ Len(Append(s, e)) = Len(s) + 1
         /\ DOMAIN Append(s, e) = DOMAIN s \cup {Len(Append(s, e))}
         /\ Append(s, e)[Len(Append(s, e))] = e
         /\ \A i \in DOMAIN s : i \in Nat /\ i < Len(Append(s, e)) /\ Append(s, e)[i] = s[i]
  OBVIOUS

LEMMA PutChunkFine ==
  ASSUME StreamInv, NEW r \in Request, PutChunk(r), UNCHANGED <<req, content, inst>>
  PROVE  StreamInv'
<1> DEFINE q == req[r]
           w == work[r]
<1>1. w.job = "encode" /\ q.kind = "stream" /\ w.left > 0
  BY DEF PutChunk, Kind
<1>2. q \in Asking /\ w \in Working /\ q.pc # "none"
  BY <1>1, AtWork DEF StreamInv
<1>3. ASSUME q.pc # "done" PROVE Flows(q, w) /\ ~w.failed /\ EndsWell(q, w)
  <2>1. Flows(q, w)
    BY <1>1, <1>2, <1>3, Flowing
  <2> QED BY <1>1, <2>1 DEF Flows, EndsBadly
<1>4. CASE q.cancel /\ Work(r, "finish")
  <2> DEFINE v == [w EXCEPT !.job = "finish"]
  <2>1. work' = [work EXCEPT ![r] = v] /\ v \in Working /\ v.job = "finish"
    BY <1>2, <1>4 DEF Work, Working
  <2> HIDE DEF v
  <2>2. q.pc = "done"
    BY <1>3, <1>4 DEF Flows
  <2> QED BY <1>1, <2>1, <2>2, WorkFine
<1>5. CASE work' = [work EXCEPT ![r] = [@ EXCEPT !.queue = Append(work[r].queue, "audio"),
                                                 !.left = work[r].left - 1]]
  <2> DEFINE more == Append(w.queue, "audio")
             v == [w EXCEPT !.queue = more, !.left = w.left - 1]
  <2>1. w.queue \in Seq(Item) /\ w.left - 1 \in Nat
    BY <1>1, <1>2 DEF Working
  <2>2. /\ more \in Seq(Item) /\ Len(more) = Len(w.queue) + 1 /\ Len(w.queue) \in Nat
        /\ DOMAIN more = DOMAIN w.queue \cup {Len(more)} /\ more[Len(more)] = "audio"
        /\ \A i \in DOMAIN w.queue : more[i] = w.queue[i]
    <3>1. "audio" \in Item
      BY DEF Item
    <3> QED BY <2>1, <3>1, Appended
  <2> HIDE DEF more
  <2>3. /\ v \in Working /\ v.job = "encode" /\ v.total = w.total /\ v.left = w.left - 1
        /\ v.queue = more /\ v.failed = w.failed
    BY <1>1, <1>2, <2>1, <2>2 DEF Working
  <2>4. work' = [work EXCEPT ![r] = v]
    BY <1>5 DEF more
  <2>5. Left(w) = Left(v) + 1 /\ Total(v) = Total(w)
    BY <1>2, <2>3 DEF Left, Total, Working
  <2> HIDE DEF v
  <2>6. ASSUME q.pc # "done" PROVE Flows(q, v)
    <3>1. Sent(q) + InHand(q) + InQueue(q, w) + Left(w) = Total(w)
      BY <1>3, <2>6 DEF EndsWell
    <3>2. Sent(q) + InHand(q) + InQueue(q, v) + Left(v) = Total(v)
      <4>1. /\ InQueue(q, w) = Len(w.queue) /\ InQueue(q, v) = Len(more)
        BY <1>1, <1>2, <2>3, Counts
      <4>2. InQueue(q, w) \in Nat /\ InQueue(q, v) = InQueue(q, w) + 1
        BY <2>2, <4>1
      <4>3. Sent(q) \in Nat /\ InHand(q) \in Nat /\ Left(v) \in Nat /\ Total(v) \in Nat
        BY <1>2, <2>3, Counts
      <4> HIDE DEF q, w
      <4> QED BY <2>5, <3>1, <4>2, <4>3
    <3>4. \A i \in DOMAIN w.queue : w.queue[i] = "audio"
      BY <1>1, <1>3, <2>6 DEF EndsWell
    <3>5. EndsWell(q, v)
      BY <1>1, <1>3, <2>2, <2>3, <2>6, <3>2, <3>4 DEF EndsWell
    <3> QED BY <1>3, <2>3, <2>6, <3>5 DEF Flows
  <2> QED BY <1>1, <2>3, <2>4, <2>6, WorkFine
<1> QED BY <1>4, <1>5 DEF PutChunk

(* A worker told to stop belongs to a stream nobody reads. *)
LEMMA StoppedFine ==
  ASSUME StreamInv, NEW r \in Request, work[r].job \notin {"none", "over"},
         req[r].kind = "stream" => req[r].cancel \/ work[r].job = "force",
         NEW w \in Working, w.job \notin {"store", "rename", "evict"},
         work' = [work EXCEPT ![r] = w], UNCHANGED <<req, content, inst>>
  PROVE  StreamInv'
<1>1. req[r].pc # "none"
  BY AtWork
<1>2. req[r].kind = "stream" => req[r].pc = "done"
  BY <1>1, Flowing DEF Flows
<1> QED BY <1>2, WorkFine

LEMMA EndEncodingFine ==
  ASSUME StreamInv, NEW r \in Request, EndEncoding(r), UNCHANGED <<req, content, inst>>
  PROVE  StreamInv'
<1> DEFINE q == req[r]
           w == work[r]
<1>1. w.job = "encode" /\ q.kind = "stream" /\ w.left = 0
  BY DEF EndEncoding, Kind
<1>2. q \in Asking /\ w \in Working /\ q.pc # "none"
  BY <1>1, AtWork DEF StreamInv
<1>3. ASSUME q.pc # "done" PROVE Flows(q, w) /\ ~w.failed /\ EndsWell(q, w)
  <2>1. Flows(q, w)
    BY <1>1, <1>2, <1>3, Flowing
  <2> QED BY <1>1, <2>1 DEF Flows, EndsBadly
<1>4. CASE Work(r, "finish")
  <2> DEFINE v == [w EXCEPT !.job = "finish"]
  <2>1. /\ work' = [work EXCEPT ![r] = v] /\ v \in Working /\ v.job = "finish"
        /\ v.left = w.left /\ v.total = w.total /\ v.queue = w.queue /\ v.failed = w.failed
    BY <1>2, <1>4 DEF Work, Working
  <2> HIDE DEF v
  <2>2. ASSUME q.pc # "done" PROVE Flows(q, v)
    <3>1. InQueue(q, v) = InQueue(q, w)
      BY <1>1, <2>1 DEF InQueue
    <3>2. Left(v) = Left(w) /\ Total(v) = Total(w)
      BY <2>1 DEF Left, Total
    <3>3. EndsWell(q, v)
      BY <1>1, <1>3, <2>1, <2>2, <3>1, <3>2 DEF EndsWell
    <3> QED BY <1>3, <2>1, <2>2, <3>3 DEF Flows
  <2> QED BY <1>1, <2>1, <2>2, WorkFine
<1>5. CASE EncoderFails(r)
  <2> DEFINE v == [w EXCEPT !.job = "fail", !.failed = TRUE]
  <2>1. /\ work' = [work EXCEPT ![r] = v] /\ v \in Working /\ v.job = "fail"
        /\ v.queue = w.queue /\ v.failed
    BY <1>2, <1>5 DEF EncoderFails, Working
  <2> HIDE DEF v
  <2>2. ASSUME q.pc # "done" PROVE Flows(q, v)
    <3>1. q.hand # "end" /\ \A i \in DOMAIN w.queue : w.queue[i] = "audio"
      BY <1>1, <1>3, <2>2 DEF EndsWell
    <3>2. EndsBadly(q, v)
      BY <2>1, <3>1 DEF EndsBadly
    <3> QED BY <1>3, <2>1, <2>2, <3>2 DEF Flows
  <2> QED BY <1>1, <2>1, <2>2, WorkFine
<1> QED BY <1>4, <1>5 DEF EndEncoding

LEMMA PutErrorFine ==
  ASSUME StreamInv, NEW r \in Request, PutError(r), UNCHANGED <<req, content, inst>>
  PROVE  StreamInv'
<1> DEFINE q == req[r]
           w == work[r]
<1>1. w.job = "fail"
  BY DEF PutError
<1>2. q \in Asking /\ w \in Working /\ q.pc # "none"
  BY <1>1, AtWork DEF StreamInv
<1>3. CASE q.cancel /\ Work(r, "finish")
  <2> DEFINE v == [w EXCEPT !.job = "finish"]
  <2>1. work' = [work EXCEPT ![r] = v] /\ v \in Working /\ v.job = "finish"
    BY <1>2, <1>3 DEF Work, Working
  <2> HIDE DEF v
  <2> QED BY <1>1, <1>3, <2>1, StoppedFine
<1>4. CASE work' = [work EXCEPT ![r] = [@ EXCEPT !.queue = Append(work[r].queue, "error"),
                                                 !.job = "finish"]]
  <2> DEFINE more == Append(w.queue, "error")
             v == [w EXCEPT !.queue = more, !.job = "finish"]
  <2>1. w.queue \in Seq(Item) /\ "error" \in Item
    BY <1>2 DEF Working, Item
  <2>2. /\ more \in Seq(Item) /\ Len(more) \in DOMAIN more /\ more[Len(more)] = "error"
        /\ DOMAIN more = DOMAIN w.queue \cup {Len(more)}
        /\ \A i \in DOMAIN w.queue : more[i] = w.queue[i]
        /\ \A i \in DOMAIN w.queue : \A j \in 1..(i - 1) : j \in DOMAIN w.queue
    BY <2>1, Appended
  <2> HIDE DEF more
  <2>3. /\ v \in Working /\ v.job = "finish" /\ v.queue = more /\ v.failed = w.failed
        /\ work' = [work EXCEPT ![r] = v]
    BY <1>2, <1>4, <2>2 DEF Working, more
  <2> HIDE DEF v
  <2>4. ASSUME q.kind = "stream", q.pc # "done" PROVE Flows(q, v)
    <3>1. Flows(q, w) /\ w.failed /\ EndsBadly(q, w)
      <4>1. Flows(q, w)
        BY <1>2, <2>4, Flowing
      <4> QED BY <1>1, <4>1 DEF Flows, EndsWell
    <3>2. q.hand # "end" /\ \E j \in DOMAIN more : more[j] = "error"
      BY <2>2, <3>1 DEF EndsBadly
    <3>3. q.hand # "error" =>
            \A i \in DOMAIN more : more[i] = "end" => \E j \in 1..(i - 1) : more[j] = "error"
      <4> SUFFICES ASSUME q.hand # "error", NEW i \in DOMAIN more, more[i] = "end"
                   PROVE  \E j \in 1..(i - 1) : more[j] = "error"
        OBVIOUS
      <4>1. i \in DOMAIN w.queue /\ w.queue[i] = "end"
        BY <2>2
      <4>2. PICK j \in 1..(i - 1) : w.queue[j] = "error"
        BY <3>1, <4>1 DEF EndsBadly
      <4>3. more[j] = "error"
        BY <2>2, <4>1, <4>2
      <4> QED BY <4>3
    <3>4. EndsBadly(q, v)
      BY <2>3, <3>2, <3>3 DEF EndsBadly
    <3> QED BY <2>3, <3>1, <3>4 DEF Flows
  <2> QED BY <1>1, <2>3, <2>4, WorkFine
<1> QED BY <1>3, <1>4 DEF PutError

LEMMA FinishFine ==
  ASSUME StreamInv, NEW r \in Request, Finish(r), UNCHANGED <<req, content, inst>>
  PROVE  StreamInv'
<1> DEFINE q == req[r]
           w == work[r]
<1>1. w.job = "finish"
  BY DEF Finish
<1>2. q \in Asking /\ w \in Working /\ q.pc # "none"
  BY <1>1, AtWork DEF StreamInv
<1>3. CASE q.cancel
  <2> DEFINE v == [w EXCEPT !.job = "force"]
  <2>1. work' = [work EXCEPT ![r] = v] /\ v \in Working /\ v.job = "force"
    BY <1>2, <1>3 DEF Finish, Work, Working
  <2> HIDE DEF v
  <2> QED BY <1>1, <1>3, <2>1, StoppedFine
<1>4. CASE ~q.cancel
  <2> DEFINE v == [w EXCEPT !.job = "end"]
  <2>1. /\ work' = [work EXCEPT ![r] = v] /\ v \in Working /\ v.job = "end"
        /\ v.left = w.left /\ v.total = w.total /\ v.queue = w.queue /\ v.failed = w.failed
    BY <1>2, <1>4 DEF Finish, Work, Working
  <2> HIDE DEF v
  <2>2. ASSUME q.kind = "stream", q.pc # "done" PROVE Flows(q, v)
    <3>1. Flows(q, w)
      BY <1>2, <2>2, Flowing
    <3>2. InQueue(q, v) = InQueue(q, w)
      BY <1>1, <2>1 DEF InQueue
    <3>3. Left(v) = Left(w) /\ Total(v) = Total(w)
      BY <2>1 DEF Left, Total
    <3>4. EndsWell(q, w) => EndsWell(q, v)
      BY <1>1, <2>1, <3>2, <3>3 DEF EndsWell
    <3>5. EndsBadly(q, w) => EndsBadly(q, v)
      BY <1>1, <2>1 DEF EndsBadly
    <3> QED BY <2>1, <3>1, <3>4, <3>5 DEF Flows
  <2> QED BY <1>1, <2>1, <2>2, WorkFine
<1> QED BY <1>3, <1>4

LEMMA PutEndFine ==
  ASSUME StreamInv, NEW r \in Request, PutEnd(r), UNCHANGED <<req, content, inst>>
  PROVE  StreamInv'
<1> DEFINE q == req[r]
           w == work[r]
<1>1. w.job = "end"
  BY DEF PutEnd
<1>2. q \in Asking /\ w \in Working /\ q.pc # "none"
  BY <1>1, AtWork DEF StreamInv
<1>3. CASE q.cancel /\ work' = [work EXCEPT ![r] = [@ EXCEPT !.job = "over", !.unmarked = TRUE]]
  <2> DEFINE v == [w EXCEPT !.job = "over", !.unmarked = TRUE]
  <2>1. work' = [work EXCEPT ![r] = v] /\ v \in Working /\ v.job = "over"
    BY <1>2, <1>3 DEF Working
  <2> HIDE DEF v
  <2> QED BY <1>1, <1>3, <2>1, StoppedFine
<1>4. CASE work' = [work EXCEPT ![r] = [@ EXCEPT !.queue = Append(work[r].queue, "end"),
                                                 !.job = "over"]]
  <2> DEFINE more == Append(w.queue, "end")
             v == [w EXCEPT !.queue = more, !.job = "over"]
  <2>1. w.queue \in Seq(Item) /\ "end" \in Item
    BY <1>2 DEF Working, Item
  <2>2. /\ more \in Seq(Item) /\ Len(w.queue) \in Nat /\ Len(more) = Len(w.queue) + 1
        /\ Len(more) \in DOMAIN more /\ more[Len(more)] = "end"
        /\ DOMAIN more = DOMAIN w.queue \cup {Len(more)}
        /\ \A i \in DOMAIN w.queue : i \in Nat /\ more[i] = w.queue[i] /\ i # Len(more)
        /\ \A i \in DOMAIN w.queue : \A j \in 1..(i - 1) : j \in DOMAIN w.queue
        /\ \A i \in DOMAIN w.queue : i \in 1..(Len(more) - 1)
    BY <2>1, Appended
  <2> HIDE DEF more
  <2>3. /\ v \in Working /\ v.job = "over" /\ v.queue = more /\ v.failed = w.failed
        /\ v.left = w.left /\ v.total = w.total /\ work' = [work EXCEPT ![r] = v]
    BY <1>2, <1>4, <2>2 DEF Working, more
  <2> HIDE DEF v
  <2>4. ASSUME q.kind = "stream", q.pc # "done" PROVE Flows(q, v)
    <3>1. Flows(q, w)
      BY <1>2, <2>4, Flowing
    <3>2. ASSUME EndsWell(q, w) PROVE EndsWell(q, v)
      <4>1. q.hand # "end" /\ w.left = 0 /\ \A i \in DOMAIN w.queue : w.queue[i] = "audio"
        BY <1>1, <3>2 DEF EndsWell
      <4>2. InQueue(q, v) = InQueue(q, w)
        BY <1>1, <2>2, <2>3, <4>1 DEF InQueue
      <4>3. Left(v) = Left(w) /\ Total(v) = Total(w)
        BY <2>3 DEF Left, Total
      <4>4. more # <<>>
        <5>1. DOMAIN <<>> = {}
          OBVIOUS
        <5> QED BY <2>2, <5>1
      <4>5. \A i \in DOMAIN more : more[i] = IF i = Len(more) THEN "end" ELSE "audio"
        BY <2>2, <4>1
      <4> QED BY <2>3, <3>2, <4>1, <4>2, <4>3, <4>4, <4>5 DEF EndsWell
    <3>3. ASSUME EndsBadly(q, w) PROVE EndsBadly(q, v)
      <4>1. q.hand # "end" /\ (q.hand # "error" => \E j \in DOMAIN more : more[j] = "error")
        BY <1>1, <2>2, <3>3 DEF EndsBadly
      <4>2. ASSUME q.hand # "error", NEW i \in DOMAIN more, more[i] = "end"
            PROVE  \E j \in 1..(i - 1) : more[j] = "error"
        <5>1. CASE i \in DOMAIN w.queue
          <6>1. PICK j \in 1..(i - 1) : w.queue[j] = "error"
            BY <2>2, <3>3, <4>2, <5>1 DEF EndsBadly
          <6>2. more[j] = "error"
            BY <2>2, <5>1, <6>1
          <6> QED BY <6>2
        <5>2. CASE i = Len(more)
          <6>1. PICK j \in DOMAIN w.queue : w.queue[j] = "error"
            BY <1>1, <3>3, <4>2 DEF EndsBadly
          <6>2. j \in 1..(i - 1) /\ more[j] = "error"
            BY <2>2, <5>2, <6>1
          <6> QED BY <6>2
        <5> QED BY <2>2, <5>1, <5>2
      <4> QED BY <2>3, <4>1, <4>2 DEF EndsBadly
    <3> QED BY <2>3, <3>1, <3>2, <3>3 DEF Flows
  <2> QED BY <1>1, <2>3, <2>4, WorkFine
<1> QED BY <1>3, <1>4 DEF PutEnd

LEMMA ForceEndFine ==
  ASSUME StreamInv, NEW r \in Request, ForceEnd(r), UNCHANGED <<req, content, inst>>
  PROVE  StreamInv'
<1> DEFINE w == work[r]
<1>1. w.job = "force" /\ w \in Working /\ w.queue \in Seq(Item)
  BY DEF ForceEnd, StreamInv, Working
<1>2. CASE Room(r)
  <2> DEFINE more == Append(w.queue, "end")
             v == [w EXCEPT !.queue = more, !.job = "over"]
  <2>1. work' = [work EXCEPT ![r] = v]
    BY <1>2 DEF ForceEnd
  <2>2. "end" \in Item
    BY DEF Item
  <2>3. more \in Seq(Item)
    BY <1>1, <2>2, Appended
  <2> HIDE DEF more
  <2>4. v \in Working /\ v.job = "over"
    BY <1>1, <2>3 DEF Working
  <2> HIDE DEF v
  <2> QED BY <1>1, <2>1, <2>4, StoppedFine
<1>3. CASE ~Room(r)
  <2> DEFINE rest == Tail(w.queue)
             v == [w EXCEPT !.queue = rest]
  <2>1. work' = [work EXCEPT ![r] = v]
    BY <1>3 DEF ForceEnd
  <2>2. Len(w.queue) # 0
    BY <1>1, <1>3, SpeechAssumption DEF Room
  <2>3. rest \in Seq(Item)
    BY <1>1, <2>2
  <2> HIDE DEF rest
  <2>4. v \in Working /\ v.job = "force"
    BY <1>1, <2>3 DEF Working
  <2> HIDE DEF v
  <2> QED BY <1>1, <2>1, <2>4, StoppedFine
<1> QED BY <1>2, <1>3

LEMMA DeliverFine ==
  ASSUME StreamInv, NEW r \in Request, Deliver(r)
  PROVE  StreamInv'
  BY PutChunkFine, EndEncodingFine, PutErrorFine, FinishFine, PutEndFine, ForceEndFine
  DEF Deliver, cache

-----------------------------------------------------------------------------
(* The handler takes an item, and the body passes it on. *)
LEMMA Taken ==
  ASSUME NEW S, NEW s \in Seq(S), s # <<>>
  PROVE  /\ Head(s) = s[1] /\ Head(s) \in S /\ 1 \in DOMAIN s
         /\ Len(s) \in Nat /\ Len(s) > 0
         /\ Tail(s) \in Seq(S) /\ Len(Tail(s)) = Len(s) - 1
         /\ Len(s) = 1 => Tail(s) = <<>>
         /\ Len(s) # 1 => Tail(s) # <<>>
         /\ \A i \in DOMAIN Tail(s) : i \in Nat /\ i + 1 \in DOMAIN s /\ Tail(s)[i] = s[i + 1]
         /\ \A i \in DOMAIN s : i = 1 \/ (i - 1 \in DOMAIN Tail(s) /\ Tail(s)[i - 1] = s[i])
<1>1. /\ Head(s) = s[1] /\ Head(s) \in S /\ 1 \in DOMAIN s
      /\ Len(s) \in Nat /\ Len(s) > 0
      /\ Tail(s) \in Seq(S) /\ Len(Tail(s)) = Len(s) - 1
  OBVIOUS
<1>0. PICK n \in Nat, t \in Seq(S) : n = Len(s) /\ t = Tail(s) /\ Len(t) = n - 1
  BY <1>1
<1>6. t = <<>> <=> Len(t) = 0
  BY EmptySeq
<1>2. Len(s) = 1 => Tail(s) = <<>>
  BY <1>0, <1>6
<1>3. Len(s) # 1 => Tail(s) # <<>>
  BY <1>0, <1>6
<1>4. \A i \in DOMAIN Tail(s) : i \in Nat /\ i + 1 \in DOMAIN s /\ Tail(s)[i] = s[i + 1]
  BY <1>1
<1>5. \A i \in DOMAIN s : i = 1 \/ (i - 1 \in DOMAIN Tail(s) /\ Tail(s)[i - 1] = s[i])
  BY <1>1
<1> QED BY <1>1, <1>2, <1>3, <1>4, <1>5

LEMMA TakenWell ==
  ASSUME NEW q \in Asking, NEW p \in Asking, NEW w \in Working, NEW v \in Working,
         EndsWell(q, w), q.hand = "none", w.queue # <<>>, v.queue = Tail(w.queue),
         v.job = w.job, v.total = w.total, v.left = w.left,
         p.hand = Head(w.queue), p.sent = q.sent
  PROVE  EndsWell(p, v)
<1>1. w.queue \in Seq(Item)
  BY DEF Working
<1> DEFINE s == w.queue
<1>2. /\ Head(s) = s[1] /\ 1 \in DOMAIN s
      /\ Len(s) \in Nat /\ Len(s) > 0 /\ Len(Tail(s)) = Len(s) - 1
      /\ Len(s) = 1 => Tail(s) = <<>>
      /\ Len(s) # 1 => Tail(s) # <<>>
      /\ \A i \in DOMAIN Tail(s) : i \in Nat /\ i + 1 \in DOMAIN s /\ Tail(s)[i] = s[i + 1]
  BY <1>1, Taken
<1>3. \A i \in DOMAIN s : s[i] = IF w.job = "over" /\ i = Len(s) THEN "end" ELSE "audio"
  BY DEF EndsWell
<1>4. p.hand = IF w.job = "over" /\ Len(s) = 1 THEN "end" ELSE "audio"
  BY <1>2, <1>3
<1>5. Sent(p) = Sent(q) /\ Left(v) = Left(w) /\ Total(v) = Total(w)
  BY DEF Sent, Left, Total
<1> DEFINE t == v.queue
<1>6. /\ Len(t) = Len(s) - 1
      /\ Len(s) = 1 => t = <<>>
      /\ Len(s) # 1 => t # <<>>
      /\ \A i \in DOMAIN t : i \in Nat /\ i + 1 \in DOMAIN s /\ t[i] = s[i + 1]
  BY <1>2
<1>7. \A i \in DOMAIN t : t[i] = IF v.job = "over" /\ i = Len(t) THEN "end" ELSE "audio"
  <2> HIDE DEF s, t
  <2> TAKE i \in DOMAIN t
  <2>1. i \in Nat /\ i + 1 \in DOMAIN s /\ t[i] = s[i + 1]
    BY <1>6
  <2>2. i + 1 = Len(s) <=> i = Len(t)
    BY <1>2, <1>6, <2>1
  <2> QED BY <1>3, <2>1, <2>2
<1>8. /\ Sent(q) \in Nat /\ Left(w) \in Nat /\ Total(w) \in Nat /\ Len(s) \in Nat
      /\ Len(t) = Len(s) - 1
  BY <1>2, <1>6, Counts
<1>9. Sent(q) + InHand(q) + InQueue(q, w) + Left(w) = Total(w)
  BY DEF EndsWell
<1>10. /\ InHand(q) + InQueue(q, w) = InHand(p) + InQueue(p, v)
       /\ InHand(q) \in Nat /\ InQueue(q, w) \in Int /\ InHand(p) \in Nat
       /\ InQueue(p, v) \in Int
  <2>1. InHand(q) = 0
    BY DEF InHand
  <2>2. CASE p.hand = "end"
    <3>1. /\ InQueue(q, w) = Len(s) - 1 /\ InQueue(p, v) = Len(t) /\ InHand(p) = 0
      BY <1>4, <2>2, Counts DEF InHand
    <3> HIDE DEF s, t
    <3> QED BY <1>8, <2>1, <3>1, <1>4, <2>2
  <2>3. CASE p.hand = "audio" /\ w.job = "over"
    <3>1. /\ InQueue(q, w) = Len(s) - 1 /\ InQueue(p, v) = Len(t) - 1 /\ InHand(p) = 1
      BY <2>3, Counts DEF InHand
    <3> HIDE DEF s, t
    <3> QED BY <1>8, <2>1, <3>1
  <2>4. CASE p.hand = "audio" /\ w.job # "over"
    <3>1. /\ InQueue(q, w) = Len(s) /\ InQueue(p, v) = Len(t) /\ InHand(p) = 1
      BY <2>4, Counts DEF InHand
    <3> HIDE DEF s, t
    <3> QED BY <1>8, <2>1, <3>1
  <2> QED BY <1>4, <2>2, <2>3, <2>4
<1>11. Sent(p) + InHand(p) + InQueue(p, v) + Left(v) = Total(v)
  <2>1. Sent(q) \in Nat /\ Left(w) \in Nat /\ Total(w) \in Nat
    BY Counts
  <2>2. Sent(q) + InHand(p) + InQueue(p, v) + Left(w) = Total(w)
    BY <1>9, <1>10, <2>1
  <2> QED BY <1>5, <2>2
<1> QED BY <1>4, <1>6, <1>7, <1>11 DEF EndsWell

LEMMA TakenBadly ==
  ASSUME NEW q \in Asking, NEW p \in Asking, NEW w \in Working, NEW v \in Working,
         EndsBadly(q, w), q.hand = "none", w.queue # <<>>, v.queue = Tail(w.queue),
         v.job = w.job, p.hand = Head(w.queue)
  PROVE  EndsBadly(p, v)
<1>1. w.queue \in Seq(Item)
  BY DEF Working
<1> DEFINE s == w.queue
           t == v.queue
<1>2. /\ p.hand = s[1] /\ 1 \in DOMAIN s
      /\ \A i \in DOMAIN t : i \in Nat /\ i + 1 \in DOMAIN s /\ t[i] = s[i + 1]
      /\ \A i \in DOMAIN s : i = 1 \/ (i - 1 \in DOMAIN t /\ t[i - 1] = s[i])
      /\ \A i \in DOMAIN s : i \in Nat /\ \A j \in 1..(i - 1) : j \in DOMAIN s
  BY <1>1, Taken
<1>3. \A i \in DOMAIN s : s[i] = "end" => \E j \in 1..(i - 1) : s[j] = "error"
  BY DEF EndsBadly
<1>4. p.hand # "end"
  BY <1>2, <1>3
<1>5. ASSUME w.job # "fail", p.hand # "error" PROVE \E j \in DOMAIN t : t[j] = "error"
  <2>1. PICK j \in DOMAIN s : s[j] = "error"
    BY <1>5 DEF EndsBadly
  <2> QED BY <1>2, <1>5, <2>1
<1>6. ASSUME p.hand # "error", NEW i \in DOMAIN t, t[i] = "end"
      PROVE  \E j \in 1..(i - 1) : t[j] = "error"
  <2>1. i \in Nat /\ i + 1 \in DOMAIN s /\ s[i + 1] = "end"
    BY <1>2, <1>6
  <2>2. PICK j \in 1..((i + 1) - 1) : s[j] = "error"
    BY <1>3, <2>1
  <2>3. j \in DOMAIN s /\ j # 1
    BY <1>2, <1>6, <2>1, <2>2
  <2>4. t[j - 1] = "error" /\ j - 1 \in 1..(i - 1)
    BY <1>2, <2>1, <2>2, <2>3
  <2> QED BY <2>4
<1> QED BY <1>4, <1>5, <1>6 DEF EndsBadly

LEMMA TakeItemFine ==
  ASSUME StreamInv, NEW r \in Request, TakeItem(r)
  PROVE  StreamInv'
<1> DEFINE q == req[r]
           w == work[r]
           item == Head(w.queue)
           v == [w EXCEPT !.queue = Tail(w.queue)]
<1>1. /\ q.getter /\ w.queue # <<>> /\ work' = [work EXCEPT ![r] = v]
      /\ UNCHANGED <<content, inst>>
  BY DEF TakeItem, cache
<1>2. q \in Asking /\ w \in Working /\ Fine(q, w)
  BY DEF StreamInv
<1>3. w.queue \in Seq(Item)
  BY <1>2 DEF Working
<1>4. item \in Item /\ Tail(w.queue) \in Seq(Item)
  BY <1>1, <1>3, Taken
<1>5. /\ v \in Working /\ v.job = w.job /\ v.total = w.total /\ v.left = w.left
      /\ v.failed = w.failed /\ v.queue = Tail(w.queue)
  BY <1>2, <1>4 DEF Working
<1>6. q.pc # "none"
  BY <1>1, <1>2 DEF Fine
<1>7. content' \in [Key -> Nat] /\ inst' \in [Instance -> Request \cup {Cleanup, None}]
  BY <1>1 DEF StreamInv
<1> HIDE DEF v, item
(* It goes to the hand, unless it ended the request. *)
<1>8. ASSUME NEW p \in Asking, req' = [req EXCEPT ![r] = p], p.kind = q.kind,
             \/ p.pc = "done" /\ p.answer = "failed"
             \/ p.pc = "done" /\ q.pc = "done" /\ p.answer = q.answer /\ p.sent = q.sent
             \/ /\ q.pc \in {"first", "body"} /\ p.pc \in {"start", "body"} /\ p.hand = item
                /\ ~p.getter /\ p.cancel = q.cancel /\ p.answer = q.answer /\ p.sent = q.sent
      PROVE  StreamInv'
  <2>1. ASSUME p.kind = "stream", p.pc # "done" PROVE Flows(p, v)
    <3>1. /\ q.pc \in {"first", "body"} /\ p.hand = item /\ ~p.getter /\ p.cancel = q.cancel
          /\ p.answer = q.answer /\ p.sent = q.sent
      BY <1>8, <2>1
    <3>2. Flows(q, w)
      BY <1>2, <1>8, <2>1, <3>1 DEF Fine
    <3>3. q.hand = "none" /\ p.hand = Head(w.queue)
      BY <1>1, <3>1, <3>2 DEF Flows, item
    <3>4. ~w.failed => EndsWell(p, v)
      BY <1>1, <1>2, <1>5, <3>1, <3>2, <3>3, TakenWell DEF Flows
    <3>5. w.failed => EndsBadly(p, v)
      BY <1>1, <1>2, <1>5, <3>2, <3>3, TakenBadly DEF Flows
    <3> QED BY <1>5, <3>1, <3>2, <3>4, <3>5 DEF Flows
  <2>2. p.pc \in {"start", "body", "done"}
    BY <1>8
  <2>3. Fine(p, v)
    BY <1>2, <1>5, <1>6, <1>8, <2>1, <2>2 DEF Fine
  <2> QED BY <1>1, <1>5, <1>6, <1>7, <1>8, <2>2, <2>3, OneRequest
<1>9. CASE q.pc = "first" /\ item = "error"
  <2> DEFINE p == [q EXCEPT !.getter = FALSE, !.cancel = TRUE, !.pc = "done",
                            !.answer = "failed"]
  <2>1. req' = [req EXCEPT ![r] = p]
    BY <1>9 DEF TakeItem, item
  <2>2. p \in Asking /\ p.kind = q.kind /\ p.pc = "done" /\ p.answer = "failed"
    BY <1>2 DEF Asking
  <2> HIDE DEF p
  <2> QED BY <1>8, <2>1, <2>2
<1>10. CASE q.pc = "first" /\ item # "error"
  <2> DEFINE p == [q EXCEPT !.getter = FALSE, !.hand = item, !.pc = "start"]
  <2>1. req' = [req EXCEPT ![r] = p]
    BY <1>10 DEF TakeItem, item
  <2>2. /\ p \in Asking /\ p.kind = q.kind /\ p.pc = "start" /\ p.hand = item /\ ~p.getter
        /\ p.cancel = q.cancel /\ p.answer = q.answer /\ p.sent = q.sent
    BY <1>2, <1>4 DEF Asking
  <2> HIDE DEF p
  <2> QED BY <1>8, <1>10, <2>1, <2>2
<1>11. CASE q.pc = "body"
  <2> DEFINE p == [q EXCEPT !.getter = FALSE, !.hand = item]
  <2>1. req' = [req EXCEPT ![r] = p]
    BY <1>11 DEF TakeItem, item
  <2>2. /\ p \in Asking /\ p.kind = q.kind /\ p.pc = "body" /\ p.hand = item /\ ~p.getter
        /\ p.cancel = q.cancel /\ p.answer = q.answer /\ p.sent = q.sent
    BY <1>2, <1>4, <1>11 DEF Asking
  <2> HIDE DEF p
  <2> QED BY <1>8, <1>11, <2>1, <2>2
<1>12. CASE q.pc = "done"
  <2> DEFINE p == [q EXCEPT !.getter = FALSE]
  <2>1. req' = [req EXCEPT ![r] = p]
    BY <1>12 DEF TakeItem, item
  <2>2. /\ p \in Asking /\ p.kind = q.kind /\ p.pc = "done"
        /\ p.answer = q.answer /\ p.sent = q.sent
    BY <1>2, <1>12 DEF Asking
  <2> HIDE DEF p
  <2> QED BY <1>8, <1>12, <2>1, <2>2
<1> QED BY <1>9, <1>10, <1>11, <1>12 DEF TakeItem, item

LEMMA BeginFine ==
  ASSUME StreamInv, NEW r \in Request, Begin(r)
  PROVE  StreamInv'
<1> DEFINE q == req[r]
           p == [q EXCEPT !.pc = "body"]
<1>1. q.pc = "start" /\ req' = [req EXCEPT ![r] = p] /\ UNCHANGED <<work, content, inst>>
  BY DEF Begin, cache
<1>2. q \in Asking /\ work[r] \in Working /\ Fine(q, work[r])
  BY DEF StreamInv
<1>3. /\ p \in Asking /\ p.kind = q.kind /\ p.pc = "body" /\ p.hand = q.hand
      /\ p.getter = q.getter /\ p.cancel = q.cancel /\ p.answer = q.answer /\ p.sent = q.sent
  BY <1>2 DEF Asking
<1> HIDE DEF p
<1>4. ASSUME p.kind = "stream" PROVE Flows(p, work[r])
  <2>1. Flows(q, work[r])
    BY <1>1, <1>2, <1>3, <1>4 DEF Fine
  <2>2. /\ Sent(p) = Sent(q) /\ InHand(p) = InHand(q)
        /\ InQueue(p, work[r]) = InQueue(q, work[r])
    BY <1>3 DEF Sent, InHand, InQueue
  <2>3. EndsWell(q, work[r]) => EndsWell(p, work[r])
    BY <1>3, <2>2 DEF EndsWell
  <2>4. EndsBadly(q, work[r]) => EndsBadly(p, work[r])
    BY <1>3 DEF EndsBadly
  <2> QED BY <1>3, <2>1, <2>3, <2>4 DEF Flows
<1>5. Fine(p, work[r])
  BY <1>1, <1>2, <1>3, <1>4 DEF Fine
<1> QED BY <1>1, <1>3, <1>5, HandlerOnly

(* A piece that is read moves from the hand to what was sent. *)
LEMMA ReadFine ==
  ASSUME StreamInv, NEW r \in Request, Read(r)
  PROVE  StreamInv'
<1> DEFINE q == req[r]
           w == work[r]
           sent == q.sent + 1
           p == [q EXCEPT !.hand = "none", !.sent = sent, !.getter = TRUE]
<1>1. /\ q.pc = "body" /\ q.hand = "audio" /\ req' = [req EXCEPT ![r] = p]
      /\ UNCHANGED <<work, content, inst>>
  BY DEF Read, cache
<1>2. q \in Asking /\ w \in Working /\ Fine(q, w)
  BY DEF StreamInv
<1>3. /\ p \in Asking /\ p.kind = q.kind /\ p.pc = "body" /\ p.hand = "none"
      /\ p.cancel = q.cancel /\ p.answer = q.answer /\ p.sent = sent
  <2>1. sent \in Nat
    <3>1. Sent(q) \in Nat
      BY <1>2, Counts
    <3> QED BY <3>1 DEF Sent
  <2> HIDE DEF sent
  <2> QED BY <1>1, <1>2, <2>1 DEF Asking
<1>4. Sent(p) = Sent(q) + 1
  BY <1>3 DEF Sent
<1> HIDE DEF sent
<1> HIDE DEF p
<1>5. ASSUME p.kind = "stream" PROVE Flows(p, w)
  <2>1. Flows(q, w)
    BY <1>1, <1>2, <1>3, <1>5 DEF Fine
  <2>2. InHand(q) = 1 /\ InHand(p) = 0 /\ InQueue(p, w) = InQueue(q, w)
    BY <1>1, <1>3 DEF InHand, InQueue
  <2>3. ASSUME EndsWell(q, w) PROVE EndsWell(p, w)
    <3>1. Sent(q) + InHand(q) + InQueue(q, w) + Left(w) = Total(w)
      BY <2>3 DEF EndsWell
    <3>2. /\ Sent(q) \in Nat /\ Left(w) \in Nat /\ Total(w) \in Nat /\ InQueue(q, w) \in Int
      BY <1>2, Counts
    <3>3. Sent(p) + InHand(p) + InQueue(p, w) + Left(w) = Total(w)
      <4> HIDE DEF q, w
      <4> QED BY <1>4, <2>2, <3>1, <3>2
    <3> QED BY <1>1, <1>3, <2>3, <3>3 DEF EndsWell
  <2>4. EndsBadly(q, w) => EndsBadly(p, w)
    BY <1>1, <1>3 DEF EndsBadly
  <2> QED BY <1>3, <2>1, <2>3, <2>4 DEF Flows
<1>6. Fine(p, w)
  BY <1>2, <1>1, <1>3, <1>5 DEF Fine
<1> QED BY <1>1, <1>3, <1>6, HandlerOnly

(* The end came to the hand: all the audio went before it. *)
LEMMA EndBodyFine ==
  ASSUME StreamInv, NEW r \in Request, EndBody(r)
  PROVE  StreamInv'
<1> DEFINE q == req[r]
           w == work[r]
           answer == IF q.hand = "end" THEN "ok" ELSE "failed"
           p == [q EXCEPT !.pc = "done", !.hand = "none", !.cancel = TRUE, !.answer = answer]
<1>1. /\ q.pc = "body" /\ q.hand \in {"end", "error"} /\ req' = [req EXCEPT ![r] = p]
      /\ UNCHANGED <<work, content, inst>>
  BY DEF EndBody, cache
<1>2. q \in Asking /\ w \in Working /\ Fine(q, w)
  BY DEF StreamInv
<1> HIDE DEF answer
<1>3. /\ p \in Asking /\ p.kind = q.kind /\ p.pc = "done" /\ p.sent = q.sent
      /\ p.answer = "ok" => q.hand = "end"
  <2>1. answer \in {"ok", "failed"} /\ (answer = "ok" => q.hand = "end")
    BY DEF answer
  <2> QED BY <1>2, <2>1 DEF Asking
<1> HIDE DEF p
<1>4. ASSUME p.kind = "stream", q.hand = "end"
      PROVE  w.job = "over" /\ p.sent = w.total /\ ~w.failed
  <2>1. Flows(q, w)
    BY <1>1, <1>2, <1>3, <1>4 DEF Fine
  <2>2. ~w.failed /\ EndsWell(q, w)
    BY <1>4, <2>1 DEF Flows, EndsBadly
  <2>3. w.job = "over" /\ w.queue = <<>> /\ w.left = 0
    BY <1>4, <2>2 DEF EndsWell
  <2>4. InHand(q) = 0 /\ InQueue(q, w) = 0 /\ Left(w) = 0
    <3>1. Len(w.queue) = 0
      BY <2>3, EmptySeq
    <3> QED BY <1>2, <1>4, <2>3, <3>1, Counts DEF InHand, Left
  <2>5. Sent(q) + InHand(q) + InQueue(q, w) + Left(w) = Total(w)
    BY <2>2 DEF EndsWell
  <2>6. Sent(q) \in Nat /\ Total(w) \in Nat
    BY <1>2, Counts
  <2>7. Sent(q) = Total(w)
    <3> HIDE DEF q, w
    <3> QED BY <2>4, <2>5, <2>6
  <2> QED BY <1>3, <2>2, <2>3, <2>7 DEF Sent, Total
<1>5. Fine(p, w)
  BY <1>1, <1>2, <1>3, <1>4 DEF Fine
<1> QED BY <1>1, <1>3, <1>5, HandlerOnly

(* A request that ends without a stream's success owes nothing. *)
LEMMA EndsFine ==
  ASSUME StreamInv, NEW r \in Request, NEW p \in Asking, req' = [req EXCEPT ![r] = p],
         req[r].pc # "none", p.pc = "done", p.kind = req[r].kind,
         p.kind = "stream" => p.answer # "ok", UNCHANGED <<work, content, inst>>
  PROVE  StreamInv'
<1>1. Fine(req[r], work[r])
  BY DEF StreamInv
<1>2. Fine(p, work[r])
  BY <1>1 DEF Fine
<1> QED BY <1>2, HandlerOnly

LEMMA LeaveFine ==
  ASSUME StreamInv, NEW r \in Request, Leave(r)
  PROVE  StreamInv'
<1> DEFINE q == req[r]
           p == [q EXCEPT !.pc = "done", !.hand = "none", !.answer = "left", !.cancel = TRUE]
<1>1. q.pc # "none" /\ req' = [req EXCEPT ![r] = p] /\ UNCHANGED <<work, content, inst>>
  BY DEF Leave, cache
<1>2. q \in Asking
  BY DEF StreamInv
<1>3. p \in Asking /\ p.kind = q.kind /\ p.pc = "done" /\ p.answer = "left"
  BY <1>2 DEF Asking
<1> HIDE DEF p
<1> QED BY <1>1, <1>3, EndsFine

LEMMA ReplyFine ==
  ASSUME StreamInv, NEW r \in Request, Reply(r)
  PROVE  StreamInv'
<1> DEFINE q == req[r]
<1>1. q.pc = "wait" /\ UNCHANGED <<work, content, inst>>
  BY DEF Reply, cache
<1>2. q \in Asking /\ Fine(q, work[r])
  BY DEF StreamInv
<1>3. q.kind # "stream"
  BY <1>1, <1>2 DEF Fine
<1>4. CASE ReplyFailed(r)
  <2> DEFINE p == [q EXCEPT !.pc = "done", !.answer = "failed"]
  <2>1. req' = [req EXCEPT ![r] = p] /\ p \in Asking /\ p.kind = q.kind /\ p.pc = "done"
    BY <1>2, <1>4 DEF ReplyFailed, Asking
  <2> HIDE DEF p
  <2> QED BY <1>1, <1>3, <2>1, EndsFine
<1>5. CASE ReplyWhole(r)
  <2> DEFINE rate == 24000
             p == [q EXCEPT !.pc = "done", !.answer = "ok", !.rate = rate, !.logged = TRUE]
  <2>1. req' = [req EXCEPT ![r] = p] /\ p \in Asking /\ p.kind = q.kind /\ p.pc = "done"
    <3>1. req' = [req EXCEPT ![r] = p]
      BY <1>5 DEF ReplyWhole
    <3>2. rate \in Nat
      OBVIOUS
    <3> HIDE DEF rate
    <3>3. p \in Asking /\ p.kind = q.kind /\ p.pc = "done"
      BY <1>2, <3>2 DEF Asking
    <3> QED BY <3>1, <3>3
  <2> HIDE DEF p
  <2> QED BY <1>1, <1>3, <2>1, EndsFine
<1>6. CASE ReplyNative(r)
  <2> DEFINE p == [q EXCEPT !.pc = "done", !.answer = "ok", !.rate = Rate]
  <2>1. req' = [req EXCEPT ![r] = p] /\ p \in Asking /\ p.kind = q.kind /\ p.pc = "done"
    BY <1>2, <1>6, SpeechAssumption DEF ReplyNative, Asking
  <2> HIDE DEF p
  <2> QED BY <1>1, <1>3, <2>1, EndsFine
<1> QED BY <1>4, <1>5, <1>6 DEF Reply

-----------------------------------------------------------------------------
(* The cache: its locks are held for requests that have a file to write.   *)
LEMMA Strangers ==
  /\ None \notin Request /\ Cleanup \notin Request /\ Cleanup # None
  BY SpeechAssumption DEF Request, Cleanup

LEMMA StoreFine ==
  ASSUME StreamInv, NEW r \in Request, NEW job \in {"rename", "evict", "over"}, Work(r, job),
         UNCHANGED req, req[r].pc # "none", req[r].kind # "stream",
         content' \in [Key -> Nat],
         inst' \in [Instance -> Request \cup {Cleanup, None}],
         \A i \in Instance : inst'[i] \in Request /\ inst'[i] # inst[i] => inst'[i] = r
  PROVE  StreamInv'
<1> DEFINE q == req[r]
           w == [work[r] EXCEPT !.job = job]
<1>1. q \in Asking /\ w \in Working /\ req' = [req EXCEPT ![r] = q]
      /\ work' = [work EXCEPT ![r] = w]
  BY DEF StreamInv, Working, Work
<1> HIDE DEF w
<1>2. Fine(q, w)
  BY DEF Fine
<1> QED
  <2>1. PICK p \in Asking : p = q
    BY <1>1
  <2>2. /\ req' = [req EXCEPT ![r] = p] /\ Fine(p, w) /\ p.pc # "none"
        /\ p.kind # "stream" /\ p.kind = req[r].kind
    BY <1>1, <1>2, <2>1
  <2>3. req[r].pc # "none" => p.pc # "none" /\ p.kind = req[r].kind
    BY <2>2
  <2>4. \A i \in Instance : inst'[i] \in Request /\ inst'[i] # inst[i] =>
          inst'[i] = r /\ p.pc # "none" /\ p.kind # "stream"
    BY <2>2
  <2>5. w \in Working /\ work' = [work EXCEPT ![r] = w]
    BY <1>1
  <2> QED BY <2>2, <2>3, <2>4, <2>5, OneRequest

LEMMA LockOnly ==
  ASSUME StreamInv, UNCHANGED <<req, work, content>>,
         inst' \in [Instance -> Request \cup {Cleanup, None}],
         \A i \in Instance : inst'[i] \in Request => inst'[i] = inst[i]
  PROVE  StreamInv'
  BY DEF StreamInv, Keeps

LEMMA WriteTempFine ==
  ASSUME StreamInv, NEW r \in Request, WriteTemp(r)
  PROVE  StreamInv'
<1>1. /\ work[r].job = "store" /\ inst' = [inst EXCEPT ![Own(r)] = r] /\ Work(r, "rename")
      /\ UNCHANGED <<req, content>>
  BY DEF WriteTemp
<1>2. req[r].pc # "none" /\ Fine(req[r], work[r])
  BY <1>1, AtWork DEF StreamInv
<1>3. req[r].kind # "stream"
  BY <1>1, <1>2 DEF Fine
<1>4. /\ content' \in [Key -> Nat] /\ inst' \in [Instance -> Request \cup {Cleanup, None}]
      /\ \A i \in Instance : inst'[i] \in Request /\ inst'[i] # inst[i] => inst'[i] = r
  BY <1>1 DEF StreamInv
<1> QED BY <1>1, <1>2, <1>3, <1>4, StoreFine

LEMMA RenameFine ==
  ASSUME StreamInv, NEW r \in Request, Rename(r)
  PROVE  StreamInv'
<1>1. work[r].job = "rename" /\ UNCHANGED req
  BY DEF Rename
<1>2. req[r].pc # "none" /\ Fine(req[r], work[r])
  BY <1>1, AtWork DEF StreamInv
<1>3. req[r].kind # "stream"
  BY <1>1, <1>2 DEF Fine
<1>4. CASE Renamed(r)
  <2>1. Work(r, "evict") /\ UNCHANGED inst
    BY <1>4 DEF Renamed
  <2>2. content' \in [Key -> Nat]
    <3> DEFINE rate == IF Kind(r) = "whole" THEN 24000 ELSE Rate
    <3>1. rate \in Nat
      BY SpeechAssumption
    <3>2. content' = [content EXCEPT ![req[r].key] = rate]
      BY <1>4 DEF Renamed
    <3> HIDE DEF rate
    <3> QED BY <3>1, <3>2 DEF StreamInv
  <2>3. inst' \in [Instance -> Request \cup {Cleanup, None}]
    BY <2>1 DEF StreamInv
  <2> QED BY <1>1, <1>2, <1>3, <2>1, <2>2, <2>3, StoreFine
<1>5. CASE GiveUpSet(r)
  <2>1. Work(r, "over") /\ inst' = [inst EXCEPT ![Own(r)] = None] /\ UNCHANGED content
    BY <1>5 DEF GiveUpSet
  <2>2. /\ content' \in [Key -> Nat] /\ inst' \in [Instance -> Request \cup {Cleanup, None}]
        /\ \A i \in Instance : inst'[i] \in Request => inst'[i] = inst[i]
    BY <2>1, Strangers DEF StreamInv
  <2> QED BY <1>1, <1>2, <1>3, <2>1, <2>2, StoreFine
<1> QED BY <1>4, <1>5 DEF Rename

LEMMA StartCleanupFine ==
  ASSUME StreamInv, StartCleanup
  PROVE  StreamInv'
<1>1. inst' = [inst EXCEPT !["http"] = Cleanup] /\ UNCHANGED <<req, work, content>>
  BY DEF StartCleanup
<1>2. /\ inst' \in [Instance -> Request \cup {Cleanup, None}]
      /\ \A i \in Instance : inst'[i] \in Request => inst'[i] = inst[i]
  BY <1>1, Strangers DEF StreamInv
<1> QED BY <1>1, <1>2, LockOnly

LEMMA EndSweepFine ==
  ASSUME StreamInv, NEW i \in Instance, NEW gone \in BOOLEAN, EndSweep(i, gone),
         UNCHANGED <<req, content>>
  PROVE  StreamInv'
<1>1. /\ inst' = [inst EXCEPT ![i] = None]
      /\ inst[i] # Cleanup => Work(inst[i], "over")
      /\ inst[i] = Cleanup => UNCHANGED work
  BY DEF EndSweep
<1>2. /\ content' \in [Key -> Nat] /\ inst' \in [Instance -> Request \cup {Cleanup, None}]
      /\ \A j \in Instance : inst'[j] \in Request => inst'[j] = inst[j]
  BY <1>1, Strangers DEF StreamInv
<1>3. CASE inst[i] \in Request
  <2>1. PICK r \in Request : r = inst[i]
    BY <1>3
  <2>2. Work(r, "over")
    BY <1>1, <2>1, Strangers
  <2>3. req[r].pc # "none" /\ req[r].kind # "stream"
    BY <2>1 DEF StreamInv, Keeps
  <2> QED BY <1>2, <2>2, <2>3, StoreFine
<1>4. CASE inst[i] = None
  <2>1. Work(None, "over")
    BY <1>1, <1>4, Strangers
  <2>2. UNCHANGED work
    BY <2>1, Strangers DEF Work, StreamInv
  <2> QED BY <1>2, <2>2, LockOnly
<1>5. CASE inst[i] = Cleanup
  BY <1>1, <1>2, <1>5, LockOnly
<1> QED BY <1>3, <1>4, <1>5 DEF StreamInv

LEMMA SweepFine ==
  ASSUME StreamInv, NEW i \in Instance, Sweep(i)
  PROVE  StreamInv'
<1>1. UNCHANGED <<req, content>>
  BY DEF Sweep
<1>2. \/ EndSweep(i, TRUE) \/ EndSweep(i, FALSE)
      \/ UNCHANGED <<inst, work>>
  BY DEF Sweep, List, Measure, RemoveFiles, RemoveOldest
<1>3. CASE UNCHANGED <<inst, work>>
  BY <1>1, <1>3 DEF StreamInv, Keeps
<1> QED BY <1>1, <1>2, <1>3, EndSweepFine

-----------------------------------------------------------------------------
(* The process ends: no request that was open is answered with success.    *)
LEMMA CrashFine ==
  ASSUME StreamInv, Crash
  PROVE  StreamInv'
<1>1. /\ inst' = [i \in Instance |-> None] /\ UNCHANGED content
      /\ req' = [r \in Request |->
           IF req[r].pc \in {"none", "done"} THEN [req[r] EXCEPT !.getter = FALSE]
           ELSE [req[r] EXCEPT !.pc = "done", !.answer = "failed", !.getter = FALSE]]
      /\ work' = [r \in Request |-> [work[r] EXCEPT !.job = IF @ = "none" THEN @ ELSE "over",
                                                    !.queue = <<>>]]
  BY DEF Crash
<1>2. ASSUME NEW r \in Request
      PROVE  req'[r] \in Asking /\ work'[r] \in Working /\ Fine(req'[r], work'[r])
  <2> DEFINE q == req[r]
             w == work[r]
             p == IF q.pc \in {"none", "done"} THEN [q EXCEPT !.getter = FALSE]
                  ELSE [q EXCEPT !.pc = "done", !.answer = "failed", !.getter = FALSE]
             job == IF w.job = "none" THEN w.job ELSE "over"
             v == [w EXCEPT !.job = job, !.queue = <<>>]
  <2>1. req'[r] = p /\ work'[r] = v
    BY <1>1
  <2>2. q \in Asking /\ w \in Working /\ Fine(q, w)
    BY DEF StreamInv
  <2>3. /\ p \in Asking /\ p.kind = q.kind /\ p.sent = q.sent
        /\ q.pc = "none" => p.pc = "none"
        /\ q.pc # "none" => p.pc = "done"
        /\ p.answer = "ok" => q.answer = "ok" /\ (q.pc = "none" \/ q.pc = "done")
    BY <2>2 DEF Asking
  <2>4. <<>> \in Seq(Item)
    BY EmptySeq
  <2>5. job \in {"none", "over"} /\ (w.job = "none" => job = "none")
    OBVIOUS
  <2>6. job = "none" => w.job = "none"
    OBVIOUS
  <2> HIDE DEF job
  <2>7. /\ v \in Working /\ v.job = job /\ v.queue = <<>> /\ v.total = w.total
        /\ v.left = w.left /\ v.failed = w.failed
    BY <2>2, <2>4, <2>5 DEF Working
  <2> HIDE DEF p, v
  <2>8. Fine(p, v)
    BY <2>2, <2>3, <2>5, <2>6, <2>7 DEF Fine
  <2> HIDE DEF q, w
  <2> QED BY <2>1, <2>3, <2>7, <2>8
<1>3. req' \in [Request -> Asking] /\ work' \in [Request -> Working]
  <2>1. DOMAIN req' = Request /\ DOMAIN work' = Request
    BY <1>1
  <2>2. req' = [r \in Request |-> req'[r]] /\ work' = [r \in Request |-> work'[r]]
    BY <1>1
  <2> QED BY <1>2, <2>2
<1>4. inst' \in [Instance -> Request \cup {Cleanup, None}] /\ content' \in [Key -> Nat]
  BY <1>1 DEF StreamInv
<1>5. \A i \in Instance : Keeps(i)'
  BY <1>1, Strangers DEF Keeps
<1> QED BY <1>2, <1>3, <1>4, <1>5 DEF StreamInv

LEMMA StreamInit == Init => StreamInv
<1> SUFFICES ASSUME Init PROVE StreamInv
  OBVIOUS
<1>1. <<>> \in Seq(Item)
  BY EmptySeq
<1>2. NoAsk \in Asking /\ NoAsk.pc = "none" /\ NoAsk.answer # "ok"
  BY SpeechAssumption DEF NoAsk, Asking
<1>3. /\ NoWork \in Working /\ NoWork.job = "none" /\ NoWork.total = 0 /\ NoWork.left = 0
      /\ NoWork.queue = <<>> /\ ~NoWork.failed
  BY <1>1 DEF NoWork, Working
<1>4. Fine(NoAsk, NoWork)
  BY <1>2, <1>3 DEF Fine
<1> QED BY <1>2, <1>3, <1>4, Strangers DEF Init, StreamInv, Keeps

LEMMA StreamStep ==
  ASSUME StreamInv, [Next]_vars
  PROVE  StreamInv'
<1>1. CASE UNCHANGED vars
  BY <1>1 DEF vars, cache, StreamInv, Keeps
<1>2. ASSUME NEW r \in Request, RequestStep(r) PROVE StreamInv'
  BY <1>2, TakeSynthesisFine, SynthesizeFine, EncodeWholeFine, DeliverFine, TakeItemFine,
     BeginFine, EndBodyFine, ReplyFine, WriteTempFine, RenameFine DEF RequestStep
<1> QED
  BY <1>1, <1>2, AskFine, RefuseFine, ReadFine, LeaveFine, StartCleanupFine, SweepFine,
     CrashFine DEF Next

(* A stream that ends without an error carries all the audio there is,     *)
(* whatever the size of its queue, however many requests there are, and    *)
(* whoever leaves, fails or crashes on the way.                            *)
THEOREM StreamsEndClean == Spec => []CleanStreamEnd
<1>1. StreamInv => CleanStreamEnd
  <2> SUFFICES ASSUME StreamInv, NEW r \in Request, Kind(r) = "stream", req[r].answer = "ok"
               PROVE  req[r].sent = work[r].total /\ ~work[r].failed
    BY DEF CleanStreamEnd
  <2>1. Fine(req[r], work[r]) /\ req[r].kind = "stream"
    BY DEF StreamInv, Kind
  <2>2. req[r].pc # "none"
    BY <2>1 DEF Fine
  <2> QED BY <2>1, <2>2 DEF Fine, Flows
<1> QED BY <1>1, StreamInit, StreamStep, PTL DEF Spec
=============================================================================
