--------------------------- MODULE ProvidersProofs ---------------------------
(***************************************************************************)
(* What Providers promises for any models, workers, threads, queue sizes   *)
(* and numbers of requests.                                                *)
(***************************************************************************)
EXTENDS Providers, TLAPS

-----------------------------------------------------------------------------
(* The gateway.  Whatever it remembers of a worker's models was once sent  *)
(* by the worker, and a thread told that the manifest is good looks at one *)
(* that is not empty: so it has all models that the worker always offers.  *)
Stage == {"enter", "backend", "voice", "queue", "manifest", "use", "change", "fresh", "scan",
          "available", "advertised"}

ThreadType ==
  [path : Seq(Stage), read : {"no", "ok", "failed", "asking"},
   model : ModelId \cup {NoRequest.model}]

ManifestType == [models : SUBSET Name, error : BOOLEAN]

WorkerType == [condition : {"up", "broken", "hangs"}, catalog : SUBSET Name]

RoutingTypeOK ==
  /\ thread \in [Thread -> ThreadType]
  /\ manifests \in [External -> ManifestType]
  /\ worker \in [External -> WorkerType]

CatalogsHoldKept == \A p \in External : Kept \subseteq worker[p].catalog

ManifestsHoldKept ==
  \A p \in External : manifests[p].models = {} \/ Kept \subseteq manifests[p].models

ReadersHoldKept ==
  \A t \in Thread :
    thread[t].read = "ok" /\ Own(t) \in External => Kept \subseteq manifests[Own(t)].models

RoutingInv ==
  /\ RoutingTypeOK /\ CatalogsHoldKept /\ ManifestsHoldKept /\ ReadersHoldKept
  /\ KeptStaysKnown

LEMMA NoRequestType == NoRequest \in ThreadType /\ NoRequest.read = "no"
BY DEF NoRequest, ThreadType

LEMMA PathType == \A op \in Operation : Path[op] \in Seq(Stage)
<1>1. Path.speak = <<"enter", "backend", "voice", "queue", "manifest", "use">>
      /\ Path.load = <<"enter", "backend", "queue", "manifest", "change">>
  BY DEF Path
<1>2. Path.unload = <<"enter", "backend", "queue", "change">>
      /\ Path.voices = <<"enter", "backend", "queue", "manifest">>
  BY DEF Path
<1>3. Path.describe = <<"backend", "manifest">> /\ Path.loaded = <<"enter", "backend", "fresh">>
  BY DEF Path
<1>4. Path.status = <<"enter", "scan", "available", "advertised">>
      /\ Path.list = <<"enter", "scan", "advertised", "available">>
  BY DEF Path
<1>5. Path.speak \in Seq(Stage) /\ Path.load \in Seq(Stage)
  BY <1>1 DEF Stage
<1>6. Path.unload \in Seq(Stage) /\ Path.voices \in Seq(Stage)
  BY <1>2 DEF Stage
<1>7. Path.describe \in Seq(Stage) /\ Path.loaded \in Seq(Stage)
  BY <1>3 DEF Stage
<1>8. Path.status \in Seq(Stage) /\ Path.list \in Seq(Stage)
  BY <1>4 DEF Stage
<1>9. Operation = {"speak", "load", "unload", "voices", "describe", "loaded", "status", "list"}
  BY DEF Operation, Path
<1> QED BY <1>5, <1>6, <1>7, <1>8, <1>9

LEMMA RestType == ASSUME NEW path \in Seq(Stage), path # <<>> PROVE Tail(path) \in Seq(Stage)
OBVIOUS

(* A request that ends leaves a free thread, and names its model as denied *)
(* only if that was the answer.                                            *)
LEMMA FinishKeeps ==
  ASSUME RoutingInv, NEW t \in Thread, NEW answer, Finish(t, answer),
         UNCHANGED <<manifests, worker>>,
         answer \in {"unknown", "unlisted"} =>
           ~(Wanted(t).backend \in External /\ Wanted(t).name \in Kept)
  PROVE  RoutingInv'
<1>1. thread' = [thread EXCEPT ![t] = NoRequest]
  BY DEF Finish
<1>2. RoutingTypeOK'
  BY <1>1, NoRequestType DEF RoutingInv, RoutingTypeOK
<1>3. ReadersHoldKept'
  BY <1>1, NoRequestType DEF RoutingInv, RoutingTypeOK, ReadersHoldKept, Own, Wanted
<1>4. KeptStaysKnown'
  BY DEF Finish, RoutingInv, KeptStaysKnown
<1> QED
  BY <1>2, <1>3, <1>4 DEF RoutingInv, CatalogsHoldKept, ManifestsHoldKept

(* So does one that goes on: it reads again what it needs next.            *)
LEMMA ForwardKeeps ==
  ASSUME RoutingInv, NEW t \in Thread, Forward(t), thread[t].path # <<>>,
         UNCHANGED <<manifests, worker>>
  PROVE  RoutingInv'
<1> DEFINE rest == Tail(thread[t].path)
<1>1. CASE rest = <<>>
  BY <1>1, FinishKeeps DEF Forward
<1>2. CASE rest # <<>>
  <2>1. thread' = [thread EXCEPT ![t] = [@ EXCEPT !.path = rest, !.read = "no"]] /\ denied' = denied
    BY <1>2 DEF Forward
  <2>2. rest \in Seq(Stage)
    <3>1. thread[t].path \in Seq(Stage)
      BY DEF RoutingInv, RoutingTypeOK, ThreadType
    <3> QED BY <3>1, RestType
  <2> HIDE DEF rest
  <2>3. RoutingTypeOK'
    BY <2>1, <2>2 DEF RoutingInv, RoutingTypeOK, ThreadType
  <2>4. ReadersHoldKept'
    BY <2>1 DEF RoutingInv, RoutingTypeOK, ThreadType, ReadersHoldKept, Own, Wanted
  <2> QED
    BY <2>1, <2>3, <2>4 DEF RoutingInv, CatalogsHoldKept, ManifestsHoldKept, KeptStaysKnown
<1> QED BY <1>1, <1>2

(* A thread that moves on its path and reads nothing.                      *)
LEMMA MoveKeeps ==
  ASSUME RoutingInv, NEW t \in Thread, NEW rest \in Seq(Stage),
         thread' = [thread EXCEPT ![t] = [@ EXCEPT !.path = rest]],
         UNCHANGED <<manifests, worker, denied>>
  PROVE  RoutingInv'
<1>1. RoutingTypeOK'
  BY DEF RoutingInv, RoutingTypeOK, ThreadType
<1>2. ReadersHoldKept'
  BY DEF RoutingInv, RoutingTypeOK, ThreadType, ReadersHoldKept, Own, Wanted
<1> QED
  BY <1>1, <1>2 DEF RoutingInv, CatalogsHoldKept, ManifestsHoldKept, KeptStaysKnown

(* A thread that is told of a manifest, which is good or it is not.        *)
LEMMA NotesKeep ==
  ASSUME RoutingInv, NEW t \in Thread, NEW read \in {"no", "ok", "failed", "asking"},
         Notes(t, read),
         read = "ok" /\ Own(t) \in External => Kept \subseteq manifests[Own(t)].models,
         UNCHANGED <<manifests, worker, denied>>
  PROVE  RoutingInv'
<1>1. thread' = [thread EXCEPT ![t] = [@ EXCEPT !.read = read]]
  BY DEF Notes
<1>2. RoutingTypeOK'
  BY <1>1 DEF RoutingInv, RoutingTypeOK, ThreadType
<1>3. ReadersHoldKept'
  BY <1>1 DEF RoutingInv, RoutingTypeOK, ThreadType, ReadersHoldKept, Own, Wanted
<1> QED
  BY <1>2, <1>3 DEF RoutingInv, CatalogsHoldKept, ManifestsHoldKept, KeptStaysKnown

LEMMA InProcessKeeps ==
  ASSUME RoutingInv, NEW t \in Thread, InProcess(t)
  PROVE  RoutingInv'
<1>1. Own(t) \in Local /\ UNCHANGED <<manifests, worker>> /\ thread[t].path # <<>>
  BY DEF InProcess, At
<1>2. ~(Wanted(t).backend \in External)
  BY <1>1, RoutingAssumption DEF Own
<1>3. (\E answer : Finish(t, answer)) \/ Forward(t)
  BY DEF InProcess, Invalid
<1> QED
  BY <1>1, <1>2, <1>3, FinishKeeps, ForwardKeeps

LEMMA ReadManifestsKeeps ==
  ASSUME RoutingInv, NEW t \in Thread, ReadManifests(t)
  PROVE  RoutingInv'
<1>1. Own(t) \in External /\ UNCHANGED <<manifests, worker, denied>>
  BY DEF ReadManifests
<1>2. CASE manifests[Own(t)].models # {} /\ Notes(t, "ok")
  <2>1. Kept \subseteq manifests[Own(t)].models
    BY <1>1, <1>2 DEF RoutingInv, ManifestsHoldKept
  <2> QED BY <1>1, <1>2, <2>1, NotesKeep
<1>3. CASE Notes(t, "failed") \/ Notes(t, "asking")
  BY <1>1, <1>3, NotesKeep
<1> QED
  BY <1>2, <1>3 DEF ReadManifests

(* A manifest that comes is the worker's catalog; else the one before      *)
(* stays.                                                                  *)
LEMMA ManifestAnswerKeeps ==
  ASSUME RoutingInv, NEW t \in Thread, ManifestAnswer(t)
  PROVE  RoutingInv'
<1> DEFINE p == Own(t)
           read == IF worker[p].condition = "up" THEN "ok" ELSE "failed"
<1>1. /\ Remember(p) /\ Notes(t, read) /\ UNCHANGED <<worker, denied>>
  BY DEF ManifestAnswer
<1>2. \A q \in External :
        /\ manifests'[q] \in ManifestType
        /\ manifests'[q].models = manifests[q].models \/ manifests'[q].models = worker[q].catalog
        /\ q = p /\ worker[q].condition = "up" => manifests'[q].models = worker[q].catalog
  <2>1. CASE worker[p].condition = "up"
    <3>1. manifests' = [manifests EXCEPT ![p] = [models |-> worker[p].catalog, error |-> FALSE]]
      BY <1>1, <2>1 DEF Remember
    <3>2. p \in External => [models |-> worker[p].catalog, error |-> FALSE] \in ManifestType
      BY DEF RoutingInv, RoutingTypeOK, WorkerType, ManifestType
    <3> QED BY <3>1, <3>2 DEF RoutingInv, RoutingTypeOK, ManifestType
  <2>2. CASE worker[p].condition # "up"
    <3> DEFINE bad == worker[p].condition = "broken"
    <3>1. manifests' = [manifests EXCEPT ![p] = [@ EXCEPT !.error = bad]]
      BY <1>1, <2>2 DEF Remember
    <3>2. bad \in BOOLEAN
      OBVIOUS
    <3> HIDE DEF bad
    <3> QED BY <2>2, <3>1, <3>2 DEF RoutingInv, RoutingTypeOK, ManifestType
  <2> QED BY <2>1, <2>2
<1>3. manifests' \in [External -> ManifestType]
  <2>1. DOMAIN manifests' = External /\ manifests' = [q \in External |-> manifests'[q]]
    BY <1>1 DEF Remember, RoutingInv, RoutingTypeOK
  <2> QED BY <1>2, <2>1
<1>4. thread' = [thread EXCEPT ![t] = [@ EXCEPT !.read = read]]
  BY <1>1 DEF Notes
<1>5. read \in {"ok", "failed"} /\ (read = "ok" => worker[p].condition = "up")
  OBVIOUS
<1> HIDE DEF p, read
<1>6. RoutingTypeOK'
  BY <1>1, <1>3, <1>4, <1>5 DEF RoutingInv, RoutingTypeOK, ThreadType
<1>7. CatalogsHoldKept' /\ KeptStaysKnown'
  BY <1>1 DEF RoutingInv, CatalogsHoldKept, KeptStaysKnown
<1>8. ManifestsHoldKept'
  BY <1>2, <1>7 DEF RoutingInv, ManifestsHoldKept, CatalogsHoldKept
<1>9. ReadersHoldKept'
  <2> SUFFICES ASSUME NEW s \in Thread, thread'[s].read = "ok", Own(s)' \in External
               PROVE  Kept \subseteq manifests'[Own(s)'].models
    BY DEF ReadersHoldKept
  <2>1. Own(s)' = Own(s)
    BY <1>4 DEF RoutingInv, RoutingTypeOK, ThreadType, Own, Wanted
  <2>2. CASE s = t
    <3>1. read = "ok"
      BY <1>4, <2>2 DEF RoutingInv, RoutingTypeOK, ThreadType
    <3> QED BY <1>2, <1>5, <2>1, <2>2, <3>1 DEF RoutingInv, CatalogsHoldKept, p
  <2>3. CASE s # t
    <3>1. thread[s].read = "ok"
      BY <1>4, <2>3 DEF RoutingInv, RoutingTypeOK, ThreadType
    <3> QED BY <1>2, <2>1, <3>1 DEF RoutingInv, CatalogsHoldKept, ReadersHoldKept
  <2> QED BY <2>2, <2>3
<1> QED BY <1>6, <1>7, <1>8, <1>9 DEF RoutingInv

(* A model that is said to be unknown, or left out of the list, is missing *)
(* from a manifest that is not empty.                                      *)
LEMMA LookersKeep ==
  ASSUME RoutingInv, NEW t \in Thread, ChooseBackend(t) \/ UseManifest(t) \/ LookUp(t)
  PROVE  RoutingInv'
<1>1. /\ Own(t) \in External /\ UNCHANGED <<manifests, worker>> /\ thread[t].path # <<>>
      /\ thread[t].read \in {"ok", "failed"}
  BY DEF ChooseBackend, UseManifest, LookUp, At
<1>2. thread[t].read = "ok" => Kept \subseteq manifests[Own(t)].models
  BY <1>1 DEF RoutingInv, ReadersHoldKept
<1>3. CASE ChooseBackend(t)
  <2>1. CASE Supported(t)
    BY <1>1, <1>3, <2>1, ForwardKeeps DEF ChooseBackend
  <2>2. CASE ~Supported(t)
    <3>1. Wanted(t).name \notin Kept
      BY <1>1, <1>2, <2>2 DEF Supported
    <3> QED BY <1>1, <1>3, <2>2, <3>1, FinishKeeps DEF ChooseBackend
  <2> QED BY <2>1, <2>2
<1>4. CASE UseManifest(t)
  <2>1. CASE thread[t].read = "failed" /\ Finish(t, "unavailable")
    BY <1>1, <2>1, FinishKeeps
  <2>2. CASE /\ thread[t].read = "ok" /\ Wanted(t).name \notin manifests[Own(t)].models
             /\ Finish(t, "unknown")
    BY <1>1, <1>2, <2>2, FinishKeeps
  <2>3. CASE Forward(t) \/ Invalid(t)
    BY <1>1, <2>3, FinishKeeps, ForwardKeeps DEF Invalid
  <2> QED BY <1>4, <2>1, <2>2, <2>3 DEF UseManifest
<1>5. CASE LookUp(t)
  <2>1. CASE Advertised(t) = "yes" /\ Forward(t)
    BY <1>1, <2>1, ForwardKeeps
  <2>2. CASE Finish(t, "unavailable")
    BY <1>1, <2>2, FinishKeeps
  <2>3. CASE Advertised(t) = "no" /\ Finish(t, "unlisted")
    <3>1. /\ ~(thread[t].read = "failed" /\ manifests[Own(t)].models = {})
          /\ Wanted(t).name \notin manifests[Own(t)].models
      BY <2>3 DEF Advertised
    <3>2. Kept \subseteq manifests[Own(t)].models
      BY <1>1, <1>2, <3>1 DEF RoutingInv, ManifestsHoldKept
    <3> QED BY <1>1, <2>3, <3>1, <3>2, FinishKeeps
  <2> QED BY <1>5, <2>1, <2>2, <2>3 DEF LookUp
<1> QED BY <1>3, <1>4, <1>5

LEMMA CallersKeep ==
  ASSUME RoutingInv, NEW t \in Thread, ReadHealth(t) \/ Served(t) \/ NotServed(t)
  PROVE  RoutingInv'
<1>1. UNCHANGED <<manifests, worker>> /\ thread[t].path # <<>>
  BY DEF ReadHealth, Served, NotServed, InUse, At
<1>2. Forward(t) \/ Finish(t, "loaded") \/ Finish(t, "unavailable") \/ Finish(t, "done")
      \/ Finish(t, "failed")
  BY DEF ReadHealth, Served, NotServed
<1> QED BY <1>1, <1>2, FinishKeeps, ForwardKeeps

LEMMA MoversKeep ==
  ASSUME RoutingInv, NEW t \in Thread, Enter(t) \/ Queue(t)
  PROVE  RoutingInv'
<1>1. UNCHANGED <<manifests, worker, denied>> /\ thread[t].path # <<>>
  BY DEF Enter, Queue, At
<1>2. thread[t].path \in Seq(Stage)
  BY DEF RoutingInv, RoutingTypeOK, ThreadType
<1>3. thread' = [thread EXCEPT ![t] = [@ EXCEPT !.path = Tail(thread[t].path)]]
  <2>1. CASE Enter(t)
    BY <2>1 DEF Enter
  <2>2. CASE Queue(t)
    BY <2>2 DEF Queue
  <2> QED BY <2>1, <2>2
<1> QED BY <1>1, <1>2, <1>3, MoveKeeps, RestType

LEMMA AskForKeeps ==
  ASSUME RoutingInv, NEW t \in Thread, NEW op \in Operation, NEW m \in ModelId, AskFor(t, op, m)
  PROVE  RoutingInv'
<1> DEFINE request == [NoRequest EXCEPT !.model = m, !.path = Path[op]]
<1>1. thread' = [thread EXCEPT ![t] = request] /\ UNCHANGED <<manifests, worker, denied>>
  BY DEF AskFor
<1>2. request \in ThreadType /\ request.read = "no"
  BY PathType DEF NoRequest, ThreadType
<1> HIDE DEF request
<1>3. RoutingTypeOK'
  BY <1>1, <1>2 DEF RoutingInv, RoutingTypeOK
<1>4. ReadersHoldKept'
  BY <1>1, <1>2 DEF RoutingInv, RoutingTypeOK, ReadersHoldKept, Own, Wanted
<1> QED
  BY <1>1, <1>3, <1>4 DEF RoutingInv, CatalogsHoldKept, ManifestsHoldKept, KeptStaysKnown

(* A worker that comes up offers at least Kept.                            *)
LEMMA WorkerChangesKeeps ==
  ASSUME RoutingInv, NEW p \in External, WorkerChanges(p)
  PROVE  RoutingInv'
<1>1. UNCHANGED <<manifests, thread, denied>>
  BY DEF WorkerChanges
<1>2. worker' \in [External -> WorkerType] /\ CatalogsHoldKept'
  <2>1. CASE \E how \in {"broken", "hangs"} :
               worker' = [worker EXCEPT ![p] = [@ EXCEPT !.condition = how]]
    BY <2>1 DEF RoutingInv, RoutingTypeOK, WorkerType, CatalogsHoldKept
  <2>2. CASE \E more \in SUBSET Name :
               worker' = [worker EXCEPT ![p] = [condition |-> "up", catalog |-> Kept \cup more]]
    BY <2>2, RoutingAssumption DEF RoutingInv, RoutingTypeOK, WorkerType, CatalogsHoldKept
  <2> QED BY <2>1, <2>2 DEF WorkerChanges
<1> QED
  BY <1>1, <1>2 DEF RoutingInv, RoutingTypeOK, ManifestsHoldKept, ReadersHoldKept, KeptStaysKnown,
       Own, Wanted

LEMMA RoutingInitEstablishes == RoutingInit \/ RoutingRests => RoutingInv
<1> SUFFICES ASSUME NEW n, RoutingIdle(n) PROVE RoutingInv
  BY DEF RoutingInit, RoutingRests
<1>1. thread \in [Thread -> ThreadType] /\ \A t \in Thread : thread[t].read = "no"
  BY NoRequestType DEF RoutingIdle
<1>2. /\ manifests \in [External -> ManifestType]
      /\ \A p \in External : manifests[p].models = {}
  BY DEF RoutingIdle, ManifestType
<1>3. worker \in [External -> WorkerType] /\ \A p \in External : worker[p].catalog = Kept
  <2>1. \A p \in External : worker[p] \in [condition : {"up", "broken"}, catalog : {Kept}]
    BY DEF RoutingIdle
  <2>2. DOMAIN worker = External /\ worker = [p \in External |-> worker[p]]
    BY DEF RoutingIdle
  <2> QED BY <2>1, <2>2, RoutingAssumption DEF WorkerType
<1> QED
  BY <1>1, <1>2, <1>3 DEF RoutingIdle, RoutingInv, RoutingTypeOK, CatalogsHoldKept,
       ManifestsHoldKept, ReadersHoldKept, KeptStaysKnown

LEMMA RoutingStepPreserves == RoutingInv /\ [RoutingNext]_routingVars => RoutingInv'
<1> SUFFICES ASSUME RoutingInv, [RoutingNext]_routingVars PROVE RoutingInv'
  OBVIOUS
<1>1. ASSUME NEW t \in Thread, Serve(t) PROVE RoutingInv'
  BY <1>1, MoversKeep, InProcessKeeps, ReadManifestsKeeps, ManifestAnswerKeeps, LookersKeep,
     CallersKeep DEF Serve
<1>2. CASE UNCHANGED routingVars \/ \E b \in Local : Register(b)
  BY <1>2 DEF routingVars, Register, RoutingInv, RoutingTypeOK, CatalogsHoldKept,
       ManifestsHoldKept, ReadersHoldKept, KeptStaysKnown, Own, Wanted
<1> QED
  BY <1>1, <1>2, AskForKeeps, WorkerChangesKeeps DEF RoutingNext

-----------------------------------------------------------------------------
(* The worker.  Each request's handler, its thread and its producer fit    *)
(* together and to the lock, and the audio of its stream adds up: what was *)
(* heard, what is in hand and what is in the queue.                        *)
JobType ==
  [op : Op \cup {"none"}, want : Model \cup {NoModel},
   pc : {"none", "wait", "run", "first", "join", "body", "done"},
   thread : BOOLEAN, gone : BOOLEAN, answer : Answer]

Item == {"audio", "error", "end"}

AudioType ==
  [total : Nat, next : Nat, producer : {"off", "generate", "put", "fail", "end"},
   queue : Seq(Item), hand : BOOLEAN, heard : Nat, closed : BOOLEAN]

WorkerTypeOK ==
  /\ engine \in {"qwen3", "cosyvoice", "chatterbox"}
  /\ lock \in 0..MaxRequests /\ asked \in 0..MaxRequests
  /\ job \in [Request -> JobType] /\ made \in [Request -> AudioType]

(* A request that has not begun has nothing yet; one that is answered is   *)
(* over.                                                                   *)
Silent(a) == a.producer = "off" /\ a.queue = <<>> /\ ~a.hand /\ a.heard = 0 /\ ~a.closed

Begun(r) ==
  /\ asked < r => job[r].pc = "none"
  /\ job[r].pc \in {"none", "wait"} => Silent(made[r]) /\ ~job[r].thread /\ ~job[r].gone
  /\ job[r].answer # "none" => job[r].pc = "done"

(* Whoever is in the model, or will be, holds the lock.                    *)
HoldsLock(r) ==
  /\ job[r].thread => lock = r \/ (engine = "cosyvoice" /\ job[r].gone /\ job[r].pc = "done")
  /\ job[r].pc = "run" => lock = r
  /\ made[r].producer # "off" =>
       engine = "qwen3" /\ lock = r /\ job[r].pc \in {"first", "join", "body", "done"}
  /\ made[r].producer \in {"put", "fail", "end"} => ~job[r].thread
  /\ engine # "qwen3" /\ job[r].pc \in {"first", "body"} => lock = r
  /\ engine = "chatterbox" /\ job[r].pc = "body" => ~job[r].thread

InHand(r) == IF made[r].hand THEN 1 ELSE 0
Pieces(r) == made[r].heard + InHand(r) + Len(made[r].queue)

AllAudio(items, n) == \A i \in 1..n : items[i] = "audio"

(* The queue of qwen3, by what its producer is at.                         *)
Producing(a, sum) ==
  /\ AllAudio(a.queue, Len(a.queue))
  /\ sum + 1 = a.next /\ a.next <= a.total

Ending(a, sum) ==
  \/ AllAudio(a.queue, Len(a.queue)) /\ sum = a.total
  \/ /\ a.queue # <<>> /\ AllAudio(a.queue, Len(a.queue) - 1)
     /\ a.queue[Len(a.queue)] = "error" /\ sum <= a.total

Ended(a, sum) ==
  /\ a.queue # <<>> /\ a.queue[Len(a.queue)] = "end"
  /\ \/ /\ Len(a.queue) > 1 /\ AllAudio(a.queue, Len(a.queue) - 2)
        /\ a.queue[Len(a.queue) - 1] = "error"
     \/ /\ AllAudio(a.queue, Len(a.queue) - 1)
        /\ sum = a.total + 1 \/ sum + QueueSize <= a.total + 1

StreamAddsUp(a, sum) ==
  /\ a.closed => a.producer = "off"
  /\ a.producer \in {"generate", "put", "fail"} => Producing(a, sum)
  /\ a.producer = "end" => Ending(a, sum)
  /\ a.producer = "off" => Ended(a, sum)

Streaming(r) ==
  /\ job[r].pc = "first" => made[r].heard = 0 /\ ~made[r].hand
  /\ engine = "qwen3" /\ job[r].pc \in {"first", "body"} /\ ~job[r].gone =>
       StreamAddsUp(made[r], Pieces(r))
  /\ engine # "qwen3" /\ job[r].pc = "first" => made[r].next = 1
  /\ engine # "qwen3" /\ job[r].pc \in {"first", "body"} => made[r].next <= made[r].total
  /\ engine = "chatterbox" /\ job[r].pc \in {"first", "body"} => made[r].next = made[r].total
  /\ engine # "qwen3" /\ job[r].pc = "body" /\ ~job[r].gone =>
       /\ made[r].heard + InHand(r) = made[r].next
       /\ job[r].thread => ~made[r].hand

EndsClean(r) ==
  job[r].op = "speech" /\ job[r].answer = "ok" =>
    \/ made[r].heard = made[r].total
    \/ engine = "qwen3" /\ made[r].heard + QueueSize <= made[r].total

RequestOK(r) == Begun(r) /\ HoldsLock(r) /\ Streaming(r) /\ EndsClean(r)

WorkerInv == WorkerTypeOK /\ \A r \in Request : RequestOK(r)

(* A step of one request, which takes the lock or releases it, leaves the  *)
(* others as they are.                                                     *)
LEMMA OthersKeep ==
  ASSUME WorkerTypeOK, NEW s \in Request, RequestOK(s), job'[s] = job[s], made'[s] = made[s],
         engine' = engine, asked' \in Nat, asked' >= asked, lock = s => lock' = s
  PROVE  RequestOK(s)'
<1>1. Begun(s)'
  BY DEF RequestOK, Begun, WorkerTypeOK, Request
<1>2. HoldsLock(s)'
  BY DEF RequestOK, HoldsLock
<1>3. InHand(s)' = InHand(s) /\ Pieces(s)' = Pieces(s)
  BY DEF InHand, Pieces
<1>4. Streaming(s)'
  BY <1>3 DEF RequestOK, Streaming
<1>5. EndsClean(s)'
  BY DEF RequestOK, EndsClean
<1> QED BY <1>1, <1>2, <1>4, <1>5 DEF RequestOK

LEMMA StepOfOne ==
  ASSUME WorkerInv, NEW r \in Request, NEW j \in JobType, NEW a \in AudioType,
         job' = [job EXCEPT ![r] = j], made' = [made EXCEPT ![r] = a],
         engine' = engine, asked' \in asked..MaxRequests,
         lock' = lock \/ (lock = Free /\ lock' = r) \/ (lock = r /\ lock' = Free),
         RequestOK(r)'
  PROVE  WorkerInv'
<1>1. WorkerTypeOK'
  <2>1. job' \in [Request -> JobType] /\ made' \in [Request -> AudioType]
    BY DEF WorkerInv, WorkerTypeOK
  <2>2. lock' \in 0..MaxRequests /\ asked' \in 0..MaxRequests
    BY WorkerAssumption DEF WorkerInv, WorkerTypeOK, Free, Request
  <2> QED BY <2>1, <2>2 DEF WorkerInv, WorkerTypeOK
<1>2. ASSUME NEW s \in Request, s # r
      PROVE  RequestOK(s)'
  <2>1. job'[s] = job[s] /\ made'[s] = made[s]
    BY <1>2 DEF WorkerInv, WorkerTypeOK
  <2>2. lock = s => lock' = s
    BY <1>2 DEF Free, Request
  <2>3. asked' \in Nat /\ asked' >= asked
    BY DEF WorkerInv, WorkerTypeOK
  <2> QED BY <2>1, <2>2, <2>3, OthersKeep DEF WorkerInv
<1> QED BY <1>1, <1>2 DEF WorkerInv

LEMMA OfOne ==
  ASSUME WorkerInv, NEW r \in Request
  PROVE  /\ job[r] \in JobType /\ made[r] \in AudioType /\ RequestOK(r)
         /\ job = [job EXCEPT ![r] = job[r]] /\ made = [made EXCEPT ![r] = made[r]]
         /\ \A j : [job EXCEPT ![r] = j][r] = j
         /\ \A a : [made EXCEPT ![r] = a][r] = a
BY DEF WorkerInv, WorkerTypeOK

LEMMA AnsweredType ==
  ASSUME NEW j \in JobType, NEW how \in Answer
  PROVE  /\ Answered(j, how) \in JobType
         /\ Answered(j, how).op = j.op /\ Answered(j, how).pc = "done"
         /\ Answered(j, how).answer = how
         /\ ~Answered(j, how).thread /\ ~Answered(j, how).gone
<1>1. NoJob \in JobType /\ ~NoJob.thread /\ ~NoJob.gone
  BY DEF NoJob, JobType, Answer
<1>2. j.op \in Op \cup {"none"}
  BY DEF JobType
<1> QED BY <1>1, <1>2 DEF JobType, Answered

(* A request that was answered before or without audio is fine.            *)
LEMMA AnsweredOK ==
  ASSUME WorkerInv, NEW r \in Request, NEW before \in JobType, NEW how \in Answer,
         made[r].producer = "off",
         before.op = "speech" => how # "ok" \/ made[r].heard = made[r].total,
         job' = [job EXCEPT ![r] = Answered(before, how)], made' = made,
         engine' = engine, asked' \in asked..MaxRequests, r <= asked',
         lock' = lock \/ (lock = r /\ lock' = Free)
  PROVE  WorkerInv'
<1> DEFINE j == Answered(before, how)
<1>1. /\ j \in JobType /\ j.op = before.op /\ j.pc = "done" /\ ~j.thread
      /\ ~j.gone /\ j.answer = how
  BY AnsweredType
<1>2. job' = [job EXCEPT ![r] = j] /\ job'[r] = j /\ made' = [made EXCEPT ![r] = made[r]]
      /\ made'[r] = made[r]
  BY OfOne
<1> HIDE DEF j
<1>3. ~(asked' < r)
  BY DEF WorkerInv, WorkerTypeOK, Request
<1>4. RequestOK(r)'
  <2>1. Begun(r)'
    BY <1>1, <1>2, <1>3 DEF Begun
  <2>2. HoldsLock(r)'
    BY <1>1, <1>2 DEF HoldsLock
  <2>3. Streaming(r)'
    BY <1>1, <1>2 DEF Streaming
  <2>4. EndsClean(r)'
    BY <1>1, <1>2 DEF EndsClean
  <2> QED BY <2>1, <2>2, <2>3, <2>4 DEF RequestOK
<1>5. made[r] \in AudioType
  BY OfOne
<1>6. lock' = lock \/ (lock = Free /\ lock' = r) \/ (lock = r /\ lock' = Free)
  OBVIOUS
<1>7. j \in JobType
  BY <1>1
<1> QED BY <1>2, <1>4, <1>5, <1>6, <1>7, StepOfOne

(* What begins holds the lock, unless it is refused.                       *)
LEMMA BeginLoadKeeps ==
  ASSUME WorkerInv, NEW r \in Request, NEW m \in Model \cup {NoModel}, lock = Free,
         job[r].pc \in {"none", "wait"}, engine' = engine, asked' \in asked..MaxRequests,
         r <= asked', NEW op \in {"load", "unload"}, lock' = r, made' = made,
         job' = [job EXCEPT ![r] = [@ EXCEPT !.op = op, !.want = m, !.pc = "run", !.thread = TRUE]]
  PROVE  WorkerInv'
<1> DEFINE j == [job[r] EXCEPT !.op = op, !.want = m, !.pc = "run", !.thread = TRUE]
<1>1. /\ job[r] \in JobType /\ Silent(made[r]) /\ ~job[r].gone /\ job[r].answer = "none"
  BY OfOne DEF RequestOK, Begun
<1>2. /\ j \in JobType /\ j.op = op /\ j.pc = "run" /\ j.thread /\ ~j.gone /\ j.answer = "none"
  BY <1>1 DEF JobType, Op
<1>3. job' = [job EXCEPT ![r] = j] /\ job'[r] = j
  BY OfOne
<1>4. made' = [made EXCEPT ![r] = made[r]] /\ Silent(made'[r]) /\ made[r] \in AudioType
  BY <1>1, OfOne
<1> HIDE DEF j
<1>5. ~(asked' < r)
  BY DEF WorkerInv, WorkerTypeOK, Request
<1>6. RequestOK(r)'
  <2>1. Begun(r)'
    BY <1>2, <1>3, <1>5 DEF Begun
  <2>2. HoldsLock(r)'
    BY <1>2, <1>3, <1>4 DEF HoldsLock, Silent
  <2>3. Streaming(r)' /\ EndsClean(r)'
    BY <1>2, <1>3, <1>4 DEF Streaming, EndsClean
  <2> QED BY <2>1, <2>2, <2>3 DEF RequestOK
<1>7. j \in JobType
  BY <1>2
<1> QED BY <1>3, <1>4, <1>6, <1>7, StepOfOne

(* A speech request begins with nothing heard and nothing in the queue.    *)
LEMMA SpeechBegunKeeps ==
  ASSUME WorkerInv, NEW r \in Request, NEW j \in JobType, NEW a \in AudioType,
         lock = Free, lock' = r, engine' = engine, asked' \in asked..MaxRequests, r <= asked',
         job' = [job EXCEPT ![r] = j], made' = [made EXCEPT ![r] = a],
         j.pc = "first", ~j.gone, j.answer = "none",
         a.next = 1, a.queue = <<>>, ~a.hand, a.heard = 0, ~a.closed,
         engine = "qwen3" => \/ a.producer = "end" /\ ~j.thread /\ a.total = 0
                             \/ a.producer = "generate" /\ a.total > 0,
         engine # "qwen3" => a.producer = "off" /\ a.total > 0,
         engine = "chatterbox" => a.total = 1
  PROVE  WorkerInv'
<1>1. job'[r] = j /\ made'[r] = a /\ a.total \in Nat
  BY OfOne DEF AudioType
<1>2. ~(asked' < r)
  BY DEF WorkerInv, WorkerTypeOK, Request
<1>3. Pieces(r)' = 0 /\ InHand(r)' = 0
  BY <1>1 DEF Pieces, InHand
<1>4. Begun(r)'
  BY <1>1, <1>2 DEF Begun
<1>5. HoldsLock(r)'
  BY <1>1 DEF HoldsLock
<1>6. engine = "qwen3" => StreamAddsUp(a, 0)
  BY <1>1 DEF StreamAddsUp, Producing, Ending, AllAudio
<1>7. Streaming(r)'
  BY <1>1, <1>3, <1>6 DEF Streaming
<1>8. EndsClean(r)'
  BY <1>1 DEF EndsClean
<1>9. RequestOK(r)'
  BY <1>4, <1>5, <1>7, <1>8 DEF RequestOK
<1> QED BY <1>9, StepOfOne

LEMMA BeginSpeechKeeps ==
  ASSUME WorkerInv, NEW r \in Request, NEW m \in Model \cup {NoModel}, lock = Free,
         job[r].pc \in {"none", "wait"}, engine' = engine, asked' \in asked..MaxRequests,
         r <= asked', BeginSpeech(r, m)
  PROVE  WorkerInv'
<1>1. /\ job[r] \in JobType /\ ~job[r].gone /\ job[r].answer = "none"
      /\ made[r] \in AudioType /\ lock' = r
  BY OfOne DEF RequestOK, Begun, BeginSpeech
<1>2. /\ made[r].producer = "off" /\ made[r].queue = <<>> /\ ~made[r].hand
      /\ made[r].heard = 0 /\ ~made[r].closed
  BY OfOne DEF RequestOK, Begun, Silent
<1>3. CASE engine = "qwen3"
  <2>1. PICK n \in 0..MaxParts :
          /\ made' = [made EXCEPT ![r] = [@ EXCEPT !.total = n, !.next = 1,
                                     !.producer = IF n = 0 THEN "end" ELSE "generate"]]
          /\ job' = [job EXCEPT ![r] = [@ EXCEPT !.op = "speech", !.want = m, !.pc = "first",
                                                 !.thread = n > 0]]
    BY <1>3 DEF BeginSpeech, QwenSpeech
  <2> DEFINE busy == n > 0
             producer == IF n = 0 THEN "end" ELSE "generate"
             j == [job[r] EXCEPT !.op = "speech", !.want = m, !.pc = "first", !.thread = busy]
             a == [made[r] EXCEPT !.total = n, !.next = 1, !.producer = producer]
  <2>2. /\ n \in Nat /\ busy \in BOOLEAN
        /\ \/ producer = "end" /\ ~busy /\ n = 0
           \/ producer = "generate" /\ n > 0
    BY WorkerAssumption
  <2>3. job' = [job EXCEPT ![r] = j] /\ made' = [made EXCEPT ![r] = a]
    BY <2>1
  <2> HIDE DEF busy, producer
  <2>4. /\ j \in JobType /\ j.pc = "first" /\ ~j.gone /\ j.answer = "none" /\ j.thread = busy
    BY <1>1, <2>2 DEF JobType, Op
  <2>5. /\ a \in AudioType /\ a.next = 1 /\ a.queue = <<>> /\ ~a.hand /\ a.heard = 0
        /\ ~a.closed /\ a.producer = producer /\ a.total = n
    BY <1>1, <1>2, <2>2 DEF AudioType
  <2> HIDE DEF j, a
  <2> QED BY <1>1, <1>3, <2>2, <2>3, <2>4, <2>5, SpeechBegunKeeps
<1>4. CASE engine # "qwen3"
  <2>1. PICK n \in Nat :
          /\ n > 0
          /\ engine = "chatterbox" => n = 1
          /\ made' = [made EXCEPT ![r] = [@ EXCEPT !.total = n, !.next = 1]]
          /\ job' = [job EXCEPT ![r] = [@ EXCEPT !.op = "speech", !.want = m, !.pc = "first",
                                                 !.thread = TRUE]]
    <3>1. CASE engine = "cosyvoice"
      <4>1. PICK n \in 1..MaxParts :
              /\ made' = [made EXCEPT ![r] = [@ EXCEPT !.total = n, !.next = 1]]
              /\ job' = [job EXCEPT ![r] = [@ EXCEPT !.op = "speech", !.want = m, !.pc = "first",
                                                     !.thread = TRUE]]
        BY <3>1 DEF BeginSpeech, CosySpeech
      <4>2. n \in Nat /\ n > 0
        BY WorkerAssumption
      <4> QED BY <3>1, <4>1, <4>2
    <3>2. CASE engine = "chatterbox"
      <4>1. ChatterboxSpeech(r, m)
        BY <3>2 DEF BeginSpeech
      <4>2. /\ made' = [made EXCEPT ![r] = [@ EXCEPT !.total = 1, !.next = 1]]
            /\ job' = [job EXCEPT ![r] = [@ EXCEPT !.op = "speech", !.want = m, !.pc = "first",
                                                   !.thread = TRUE]]
        BY <4>1 DEF ChatterboxSpeech
      <4> WITNESS 1 \in Nat
      <4> QED BY <4>2
    <3> QED BY <1>4, <3>1, <3>2 DEF WorkerInv, WorkerTypeOK
  <2> DEFINE j == [job[r] EXCEPT !.op = "speech", !.want = m, !.pc = "first", !.thread = TRUE]
             a == [made[r] EXCEPT !.total = n, !.next = 1]
  <2>2. job' = [job EXCEPT ![r] = j] /\ made' = [made EXCEPT ![r] = a]
    BY <2>1
  <2>3. /\ j \in JobType /\ j.pc = "first" /\ ~j.gone /\ j.answer = "none"
    BY <1>1 DEF JobType, Op
  <2>4. /\ a \in AudioType /\ a.next = 1 /\ a.queue = <<>> /\ ~a.hand /\ a.heard = 0
        /\ ~a.closed /\ a.producer = "off" /\ a.total = n
    BY <1>1, <1>2 DEF AudioType
  <2> HIDE DEF j, a
  <2> QED BY <1>1, <1>4, <2>1, <2>2, <2>3, <2>4, SpeechBegunKeeps
<1> QED BY <1>3, <1>4

LEMMA BeginKeeps ==
  ASSUME WorkerInv, NEW r \in Request, NEW op, NEW m \in Model \cup {NoModel},
         lock = Free,
         job[r].pc \in {"none", "wait"}, engine' = engine, asked' \in asked..MaxRequests,
         r <= asked', Begin(r, op, m)
  PROVE  WorkerInv'
<1>1. CASE op = "speech" /\ BeginSpeech(r, m)
  BY <1>1, BeginSpeechKeeps
<1>2. CASE op = "load" /\ BeginLoad(r, m)
  BY <1>2, BeginLoadKeeps DEF BeginLoad
<1>3. CASE op = "unload" /\ BeginUnload(r, m)
  <2> DEFINE j == [job[r] EXCEPT !.op = "unload", !.want = m]
  <2>1. j \in JobType /\ j.op = "unload"
    <3>1. job[r] \in JobType
      BY OfOne
    <3> QED BY <3>1 DEF JobType, Op
  <2>4. made[r].producer = "off"
    BY OfOne DEF RequestOK, Begun, Silent
  <2>2. CASE lock' = Free /\ job' = [job EXCEPT ![r] = Answered(j, "refused")]
    <3> HIDE DEF j
    <3> QED BY <1>3, <2>1, <2>2, <2>4, AnsweredOK DEF Answer, BeginUnload
  <2>3. CASE lock' = r /\ job' = [job EXCEPT ![r] = [j EXCEPT !.pc = "run", !.thread = TRUE]]
    <3>1. [j EXCEPT !.pc = "run", !.thread = TRUE]
            = [job[r] EXCEPT !.op = "unload", !.want = m, !.pc = "run", !.thread = TRUE]
      <4>1. job[r] \in JobType
        BY OfOne
      <4> QED BY <4>1 DEF JobType
    <3> QED BY <1>3, <2>3, <3>1, BeginLoadKeeps DEF BeginUnload
  <2> QED BY <1>3, <2>2, <2>3 DEF BeginUnload
<1> QED BY <1>1, <1>2, <1>3 DEF Begin

-----------------------------------------------------------------------------
LEMMA ArriveKeeps ==
  ASSUME WorkerInv, NEW op \in Op, NEW m \in Model, Arrive(op, m)
  PROVE  WorkerInv'
<1>0. PICK r \in Request : r = asked + 1
  BY WorkerAssumption DEF Arrive, WorkerInv, WorkerTypeOK, Request
<1> DEFINE taken == [job[r] EXCEPT !.op = op, !.want = m]
           waiting == [taken EXCEPT !.pc = "wait"]
<1>1. /\ asked' = r /\ engine' = engine
      /\ asked' \in asked..MaxRequests /\ r <= asked'
  BY <1>0, WorkerAssumption DEF Arrive, WorkerInv, WorkerTypeOK, Request
<1>2. job[r].pc = "none"
  BY <1>0, OfOne DEF RequestOK, Begun, WorkerInv, WorkerTypeOK
<1>3. /\ Silent(made[r]) /\ ~job[r].thread /\ ~job[r].gone /\ job[r].answer = "none"
      /\ job[r] \in JobType
  BY <1>2, OfOne DEF RequestOK, Begun
<1>4. taken \in JobType
  BY <1>3 DEF JobType
<1>5. /\ waiting \in JobType /\ ~waiting.thread /\ ~waiting.gone /\ waiting.pc = "wait"
      /\ waiting.answer = "none"
  BY <1>3 DEF JobType
<1>6. made[r].producer = "off"
  BY <1>3 DEF Silent
<1>7. CASE job' = [job EXCEPT ![r] = Answered(taken, "refused")] /\ UNCHANGED <<lock, made>>
  <2> HIDE DEF taken
  <2> QED BY <1>1, <1>4, <1>6, <1>7, AnsweredOK DEF Answer
<1>8. CASE ~Locked /\ Begin(r, op, m)
  BY <1>1, <1>2, <1>8, BeginKeeps DEF Locked
<1>9. CASE job' = [job EXCEPT ![r] = waiting] /\ UNCHANGED <<lock, made>>
  <2> HIDE DEF waiting, taken
  <2>1. job'[r] = waiting /\ Silent(made'[r]) /\ made'[r].producer = "off"
    BY <1>1, <1>3, <1>6, <1>9, OfOne
  <2>2. ~(asked' < r)
    BY <1>1 DEF Request
  <2>3. made' = [made EXCEPT ![r] = made[r]] /\ made[r] \in AudioType
    BY <1>1, <1>9, OfOne
  <2>4. Begun(r)'
    BY <1>5, <2>1, <2>2 DEF Begun
  <2>5. HoldsLock(r)'
    BY <1>5, <2>1 DEF HoldsLock
  <2>6. Streaming(r)' /\ EndsClean(r)'
    BY <1>5, <2>1 DEF Streaming, EndsClean
  <2>7. RequestOK(r)'
    BY <2>4, <2>5, <2>6 DEF RequestOK
  <2>8. waiting \in JobType /\ lock' = lock
    BY <1>5, <1>9
  <2> QED BY <1>1, <1>9, <2>3, <2>7, <2>8, StepOfOne
<1> QED BY <1>0, <1>7, <1>8, <1>9 DEF Arrive

LEMMA TakeLockKeeps ==
  ASSUME WorkerInv, TakeLock
  PROVE  WorkerInv'
<1> DEFINE r == Head(line)
<1>1. /\ r \in Request /\ job[r].pc = "wait" /\ lock = Free /\ Begin(r, job[r].op, job[r].want)
      /\ UNCHANGED <<engine, asked>>
  BY DEF TakeLock, Locked
<1> HIDE DEF r
<1>2. r <= asked /\ asked \in asked..MaxRequests
  BY <1>1, OfOne DEF RequestOK, Begun, WorkerInv, WorkerTypeOK, Request
<1>3. job[r].want \in Model \cup {NoModel}
  BY <1>1, OfOne DEF JobType
<1> QED BY <1>1, <1>2, <1>3, BeginKeeps

LEMMA EndLoadKeeps ==
  ASSUME WorkerInv, NEW r \in Request, EndLoad(r) \/ EndUnload(r)
  PROVE  WorkerInv'
<1>1. /\ job[r].op \in {"load", "unload"} /\ job[r].pc = "run" /\ lock' = Free
      /\ UNCHANGED <<engine, asked, made>>
  BY DEF EndLoad, EndUnload
<1>2. PICK how \in Answer : job' = [job EXCEPT ![r] = Answered(@, how)]
  BY DEF EndLoad, EndUnload, Loaded, LoadFailed, LoadBroken, Answer
<1>3. /\ lock = r /\ made[r].producer = "off" /\ job[r] \in JobType
      /\ r <= asked /\ asked \in asked..MaxRequests
  BY <1>1, OfOne DEF RequestOK, HoldsLock, Begun, WorkerInv, WorkerTypeOK, Request
<1> QED BY <1>1, <1>2, <1>3, AnsweredOK

(* Reading moves one piece from the hand to what was heard.                *)
LEMMA ReadKeeps ==
  ASSUME WorkerInv, NEW r \in Request, Read(r)
  PROVE  WorkerInv'
<1> DEFINE a == [made[r] EXCEPT !.hand = FALSE, !.heard = made[r].heard + 1]
<1>1. /\ job[r].pc = "body" /\ ~job[r].gone /\ made[r].hand /\ made[r] \in AudioType
      /\ job[r] \in JobType /\ RequestOK(r)
  BY OfOne DEF Read, Reading
<1>2. made' = [made EXCEPT ![r] = a] /\ UNCHANGED <<engine, lock, asked, job>>
  BY DEF Read
<1>3. /\ a \in AudioType /\ ~a.hand /\ a.heard = made[r].heard + 1 /\ a.total = made[r].total
      /\ a.next = made[r].next /\ a.queue = made[r].queue /\ a.closed = made[r].closed
      /\ a.producer = made[r].producer
  <2>1. made[r].heard + 1 \in Nat
    BY <1>1 DEF AudioType
  <2>2. a \in AudioType
    BY <1>1, <2>1 DEF AudioType
  <2> QED BY <1>1, <2>2 DEF AudioType
<1>4. made'[r] = a /\ job' = [job EXCEPT ![r] = job[r]] /\ asked' \in asked..MaxRequests
  BY <1>2, OfOne DEF WorkerInv, WorkerTypeOK
<1> HIDE DEF a
<1>5. Pieces(r)' = Pieces(r) /\ a.heard + 0 = made[r].heard + InHand(r) /\ InHand(r)' = 0
  BY <1>1, <1>3, <1>4 DEF Pieces, InHand, AudioType
<1>6. Begun(r)' /\ HoldsLock(r)' /\ EndsClean(r)'
  BY <1>1, <1>2, <1>3, <1>4 DEF RequestOK, Begun, HoldsLock, EndsClean
<1>7. Streaming(r)'
  <2>1. StreamAddsUp(made[r], Pieces(r)) => StreamAddsUp(a, Pieces(r))
    BY <1>3 DEF StreamAddsUp, Producing, Ending, Ended
  <2> QED BY <1>1, <1>2, <1>3, <1>4, <1>5, <2>1 DEF RequestOK, Streaming
<1>8. RequestOK(r)'
  BY <1>6, <1>7 DEF RequestOK
<1> QED BY <1>2, <1>3, <1>4, <1>1, <1>8, StepOfOne

-----------------------------------------------------------------------------
(* What puts and takes do to the queue of a stream that adds up.           *)
LEMMA AppendFacts ==
  ASSUME NEW items \in Seq(Item), NEW x \in Item
  PROVE  /\ Append(items, x) \in Seq(Item) /\ Len(Append(items, x)) = Len(items) + 1
         /\ \A i \in 1..Len(items) : Append(items, x)[i] = items[i]
         /\ Append(items, x)[Len(items) + 1] = x
         /\ Append(items, x) # <<>>
OBVIOUS

LEMMA TailFacts ==
  ASSUME NEW items \in Seq(Item), items # <<>>
  PROVE  /\ Tail(items) \in Seq(Item) /\ Len(Tail(items)) = Len(items) - 1
         /\ \A i \in 1..(Len(items) - 1) : Tail(items)[i] = items[i + 1]
         /\ Len(items) \in Nat /\ Len(items) > 0 /\ Head(items) = items[1]
         /\ Len(items) > 1 => Tail(items) # <<>>
<1>1. Tail(items) \in Seq(Item) /\ Len(Tail(items)) = Len(items) - 1
  OBVIOUS
<1>2. \A i \in 1..(Len(items) - 1) : Tail(items)[i] = items[i + 1]
  OBVIOUS
<1>3. Len(items) \in Nat /\ Len(items) > 0 /\ Head(items) = items[1]
  OBVIOUS
<1>4. Len(items) > 1 => Tail(items) # <<>>
  <2>1. Len(<<>>) = 0
    OBVIOUS
  <2>2. Len(items) > 1 => Len(Tail(items)) # 0
    BY <1>1, <1>3
  <2> QED BY <2>1, <2>2
<1> QED BY <1>1, <1>2, <1>3, <1>4

(* An item of audio passes from the queue into the hand: the sum stays.    *)
LEMMA TakeAudio ==
  ASSUME NEW a \in AudioType, NEW b \in AudioType, NEW sum \in Nat, StreamAddsUp(a, sum),
         a.queue # <<>>, Head(a.queue) = "audio", b.queue = Tail(a.queue),
         b.total = a.total, b.next = a.next, b.producer = a.producer, b.closed <=> a.closed
  PROVE  StreamAddsUp(b, sum)
<1> DEFINE n == Len(a.queue)
<1>1. a.queue \in Seq(Item)
  BY DEF AudioType
<1>2. /\ n \in Nat /\ n > 0 /\ Len(b.queue) = n - 1 /\ a.queue[1] = "audio"
      /\ \A i \in 1..(n - 1) : b.queue[i] = a.queue[i + 1]
      /\ n > 1 => b.queue # <<>>
  BY <1>1, TailFacts
<1> HIDE DEF n
<1>3. \A k \in Int : k <= n /\ AllAudio(a.queue, k) => AllAudio(b.queue, k - 1)
  BY <1>2 DEF AllAudio
<1>4. Producing(a, sum) => Producing(b, sum)
  BY <1>2, <1>3 DEF Producing, n
<1>5. Ending(a, sum) => Ending(b, sum)
  <2>1. CASE AllAudio(a.queue, n) /\ sum = a.total
    BY <1>2, <1>3, <2>1 DEF Ending
  <2>2. CASE AllAudio(a.queue, n - 1) /\ a.queue[n] = "error" /\ sum <= a.total
    <3>1. n > 1 /\ b.queue[n - 1] = "error"
      BY <1>2, <2>2
    <3> QED BY <1>2, <1>3, <2>2, <3>1 DEF Ending
  <2> QED BY <2>1, <2>2 DEF Ending, n
<1>6. Ended(a, sum) => Ended(b, sum)
  <2> SUFFICES ASSUME Ended(a, sum) PROVE Ended(b, sum)
    OBVIOUS
  <2>1. n > 1 /\ b.queue # <<>> /\ b.queue[n - 1] = "end"
    BY <1>2 DEF Ended, n
  <2>2. CASE n > 1 /\ AllAudio(a.queue, n - 2) /\ a.queue[n - 1] = "error"
    <3>1. n > 2 /\ b.queue[n - 2] = "error"
      BY <1>2, <2>2
    <3>2. AllAudio(b.queue, n - 3)
      <4>1. n - 2 \in Int /\ n - 2 <= n /\ (n - 2) - 1 = n - 3
        BY <1>2
      <4> QED BY <1>3, <2>2, <4>1
    <3>3. Len(b.queue) - 2 = n - 3 /\ Len(b.queue) - 1 = n - 2 /\ Len(b.queue) > 1
      BY <1>2, <3>1
    <3> QED BY <1>2, <2>1, <3>1, <3>2, <3>3 DEF Ended
  <2>3. CASE AllAudio(a.queue, n - 1) /\ (sum = a.total + 1 \/ sum + QueueSize <= a.total + 1)
    BY <1>2, <1>3, <2>1, <2>3 DEF Ended
  <2> QED BY <2>2, <2>3 DEF Ended, n
<1> QED BY <1>4, <1>5, <1>6 DEF StreamAddsUp

(* Whoever takes the end marker had taken everything else.                 *)
LEMMA TakeEnd ==
  ASSUME NEW a \in AudioType, NEW sum \in Nat, StreamAddsUp(a, sum),
         a.queue # <<>>, Head(a.queue) = "end"
  PROVE  Len(a.queue) = 1 /\ (sum = a.total + 1 \/ sum + QueueSize <= a.total + 1)
<1> DEFINE n == Len(a.queue)
<1>1. n \in Nat /\ n > 0 /\ a.queue[1] = "end"
  BY TailFacts DEF AudioType
<1> HIDE DEF n
<1>2. \A k \in Int : AllAudio(a.queue, k) => k < 1
  BY <1>1 DEF AllAudio
<1>3. a.producer = "off"
  <2>1. ~Producing(a, sum)
    BY <1>1, <1>2 DEF Producing, n
  <2>2. ~Ending(a, sum)
    BY <1>1, <1>2 DEF Ending, n
  <2> QED BY <2>1, <2>2 DEF StreamAddsUp, AudioType
<1>4. Ended(a, sum)
  BY <1>3 DEF StreamAddsUp
<1>5. ~(n > 1 /\ AllAudio(a.queue, n - 2) /\ a.queue[n - 1] = "error")
  <2>1. CASE n > 2
    BY <1>1, <1>2, <2>1
  <2>2. CASE n <= 2
    BY <1>1, <2>2
  <2> QED BY <1>1, <2>1, <2>2
<1>6. AllAudio(a.queue, n - 1) /\ (sum = a.total + 1 \/ sum + QueueSize <= a.total + 1)
  BY <1>4, <1>5 DEF Ended, n
<1>7. n - 1 \in Int /\ n - 1 < 1
  BY <1>1, <1>2, <1>6
<1>8. n = 1
  BY <1>1, <1>7
<1> QED BY <1>6, <1>8 DEF n

-----------------------------------------------------------------------------
(* A step of a request that has begun: what is left to show of it.         *)
LEMMA StepAtHand ==
  ASSUME WorkerInv, NEW r \in Request, NEW j \in JobType, NEW a \in AudioType,
         job[r].pc \notin {"none", "wait"}, j.pc \notin {"none", "wait"},
         j.answer # "none" => j.pc = "done",
         job' = [job EXCEPT ![r] = j], made' = [made EXCEPT ![r] = a],
         engine' = engine, asked' = asked,
         lock' = lock \/ (lock = r /\ lock' = Free),
         job'[r] = j /\ made'[r] = a => HoldsLock(r)' /\ Streaming(r)' /\ EndsClean(r)'
  PROVE  WorkerInv'
<1>1. job'[r] = j /\ made'[r] = a
  BY OfOne
<1>2. ~(asked' < r) /\ asked' \in asked..MaxRequests
  BY OfOne DEF RequestOK, Begun, WorkerInv, WorkerTypeOK
<1>3. Begun(r)'
  BY <1>1, <1>2 DEF Begun
<1>4. RequestOK(r)'
  BY <1>1, <1>3 DEF RequestOK
<1> QED BY <1>2, <1>4, StepOfOne

(* A client that leaves waits for nothing more.                            *)
LEMMA LeaveKeeps ==
  ASSUME WorkerInv, NEW r \in Request, Leave(r)
  PROVE  WorkerInv'
<1> DEFINE j == [job[r] EXCEPT !.gone = TRUE]
<1>1. /\ job[r].pc \in {"first", "body"} /\ ~job[r].gone /\ job[r] \in JobType
      /\ made[r] \in AudioType /\ RequestOK(r) /\ UNCHANGED <<engine, lock, asked, made>>
      /\ made' = [made EXCEPT ![r] = made[r]] /\ job' = [job EXCEPT ![r] = j]
  BY OfOne DEF Leave
<1>2. /\ j \in JobType /\ j.gone /\ j.pc = job[r].pc /\ j.thread = job[r].thread
      /\ j.op = job[r].op /\ j.answer = job[r].answer
  BY <1>1 DEF JobType
<1> HIDE DEF j
<1>3. ASSUME job'[r] = j
      PROVE  HoldsLock(r)' /\ Streaming(r)' /\ EndsClean(r)'
  <2>1. HoldsLock(r)'
    BY <1>1, <1>2, <1>3 DEF RequestOK, HoldsLock
  <2>2. Streaming(r)'
    BY <1>1, <1>2, <1>3 DEF RequestOK, Streaming
  <2>3. EndsClean(r)'
    BY <1>1, <1>2, <1>3 DEF RequestOK, EndsClean
  <2> QED BY <2>1, <2>2, <2>3
<1>4. job[r].answer = "none"
  BY <1>1 DEF RequestOK, Begun
<1> QED BY <1>1, <1>2, <1>3, <1>4, StepAtHand

(* A step of the producer of qwen3, which keeps the lock until it is off.  *)
LEMMA ProducerKeeps ==
  ASSUME WorkerInv, NEW r \in Request, NEW j \in JobType, NEW a \in AudioType,
         made[r].producer # "off",
         job' = [job EXCEPT ![r] = j], made' = [made EXCEPT ![r] = a],
         engine' = engine, asked' = asked,
         lock' = IF a.producer = "off" THEN Free ELSE lock,
         j.thread => a.producer = "generate",
         j.pc = job[r].pc, j.gone = job[r].gone, j.op = job[r].op, j.answer = job[r].answer,
         a.total = made[r].total, a.hand = made[r].hand, a.heard = made[r].heard,
         ~job[r].gone /\ StreamAddsUp(made[r], Pieces(r)) =>
           StreamAddsUp(a, made[r].heard + InHand(r) + Len(a.queue))
  PROVE  WorkerInv'
<1>1. /\ RequestOK(r) /\ engine = "qwen3" /\ lock = r
      /\ job[r].pc \in {"first", "join", "body", "done"}
  BY OfOne DEF RequestOK, HoldsLock
<1>2. ASSUME job'[r] = j /\ made'[r] = a
      PROVE  HoldsLock(r)' /\ Streaming(r)' /\ EndsClean(r)'
  <2>1. HoldsLock(r)'
    BY <1>1, <1>2 DEF HoldsLock
  <2>2. Pieces(r)' = made[r].heard + InHand(r) + Len(a.queue)
    BY <1>2 DEF Pieces, InHand
  <2>3. Streaming(r)'
    BY <1>1, <1>2, <2>2 DEF RequestOK, Streaming
  <2>4. EndsClean(r)'
    BY <1>1, <1>2 DEF RequestOK, EndsClean
  <2> QED BY <2>1, <2>3, <2>4
<1>3. j.answer # "none" => j.pc = "done"
  BY <1>1 DEF RequestOK, Begun
<1> QED BY <1>1, <1>2, <1>3, StepAtHand

LEMMA EndGenerateKeeps ==
  ASSUME WorkerInv, NEW r \in Request, EndGenerate(r)
  PROVE  WorkerInv'
<1>1. PICK p \in {"end", "put", "fail"} :
        /\ made' = [made EXCEPT ![r] = [@ EXCEPT !.producer = p]]
        /\ p = "end" => made[r].closed
  BY DEF EndGenerate, Generated, GenerateFailed, ContextLost
<1> DEFINE j == [job[r] EXCEPT !.thread = FALSE]
           a == [made[r] EXCEPT !.producer = p]
<1>2. /\ made[r].producer = "generate" /\ job[r] \in JobType /\ made[r] \in AudioType
      /\ UNCHANGED <<engine, lock, asked>>
      /\ job' = [job EXCEPT ![r] = j] /\ made' = [made EXCEPT ![r] = a]
  BY <1>1, OfOne DEF EndGenerate
<1>3. /\ j \in JobType /\ ~j.thread /\ j.pc = job[r].pc /\ j.gone = job[r].gone
      /\ j.op = job[r].op /\ j.answer = job[r].answer
  BY <1>2 DEF JobType
<1>4. /\ a \in AudioType /\ a.producer = p /\ a.total = made[r].total /\ a.hand = made[r].hand
      /\ a.heard = made[r].heard /\ a.queue = made[r].queue /\ a.closed = made[r].closed
      /\ a.next = made[r].next
  BY <1>2 DEF AudioType
<1> HIDE DEF j, a
<1>5. StreamAddsUp(made[r], Pieces(r)) => StreamAddsUp(a, Pieces(r))
  BY <1>1, <1>2, <1>4 DEF StreamAddsUp, Producing
<1>6. Pieces(r) = made[r].heard + InHand(r) + Len(a.queue)
  BY <1>4 DEF Pieces
<1>7. made[r].producer # "off" /\ a.producer # "off"
  BY <1>2, <1>4
<1> QED BY <1>2, <1>3, <1>4, <1>5, <1>6, <1>7, ProducerKeeps

(* What the producer puts, and what it puts in the place of a full queue.  *)
LEMMA PutAudio ==
  ASSUME NEW a \in AudioType, NEW b \in AudioType, NEW sum \in Nat, StreamAddsUp(a, sum),
         a.producer = "put", b.queue = Append(a.queue, "audio"), b.total = a.total,
         ~b.closed,
         \/ b.producer = "generate" /\ b.next = a.next + 1 /\ a.next < a.total
         \/ b.producer = "end" /\ a.next >= a.total
  PROVE  StreamAddsUp(b, sum + 1)
<1>1. /\ a.queue \in Seq(Item) /\ a.total \in Nat /\ a.next \in Nat /\ Len(a.queue) \in Nat
  BY DEF AudioType
<1>2. AllAudio(a.queue, Len(a.queue)) /\ sum + 1 = a.next /\ a.next <= a.total
  BY DEF StreamAddsUp, Producing
<1>0. "audio" \in Item
  BY DEF Item
<1>3. /\ Len(b.queue) = Len(a.queue) + 1 /\ b.queue[Len(a.queue) + 1] = "audio"
      /\ \A i \in 1..Len(a.queue) : b.queue[i] = a.queue[i]
  BY <1>0, <1>1, AppendFacts
<1>4. AllAudio(b.queue, Len(b.queue))
  BY <1>1, <1>2, <1>3 DEF AllAudio
<1>5. CASE b.producer = "generate" /\ b.next = a.next + 1 /\ a.next < a.total
  BY <1>1, <1>2, <1>4, <1>5 DEF StreamAddsUp, Producing
<1>6. CASE b.producer = "end" /\ a.next >= a.total
  BY <1>1, <1>2, <1>4, <1>6 DEF StreamAddsUp, Ending
<1> QED BY <1>5, <1>6

LEMMA PutTheError ==
  ASSUME NEW a \in AudioType, NEW b \in AudioType, NEW sum \in Nat, StreamAddsUp(a, sum),
         a.producer = "fail", b.queue = Append(a.queue, "error"), b.total = a.total,
         b.closed = a.closed, b.producer = "end"
  PROVE  StreamAddsUp(b, sum + 1)
<1>1. /\ a.queue \in Seq(Item) /\ a.total \in Nat /\ a.next \in Nat /\ Len(a.queue) \in Nat
  BY DEF AudioType
<1>2. AllAudio(a.queue, Len(a.queue)) /\ sum + 1 = a.next /\ a.next <= a.total /\ ~a.closed
  BY DEF StreamAddsUp, Producing
<1>0. "error" \in Item
  BY DEF Item
<1>3. /\ Len(b.queue) = Len(a.queue) + 1 /\ b.queue[Len(a.queue) + 1] = "error"
      /\ \A i \in 1..Len(a.queue) : b.queue[i] = a.queue[i]
      /\ b.queue # <<>>
  BY <1>0, <1>1, AppendFacts
<1>4. AllAudio(b.queue, Len(b.queue) - 1) /\ b.queue[Len(b.queue)] = "error"
  BY <1>1, <1>2, <1>3 DEF AllAudio
<1>5. Ending(b, sum + 1)
  BY <1>1, <1>2, <1>3, <1>4 DEF Ending
<1> QED BY <1>2, <1>5 DEF StreamAddsUp

LEMMA PutTheEnd ==
  ASSUME NEW a \in AudioType, NEW b \in AudioType, NEW sum \in Nat, StreamAddsUp(a, sum),
         a.producer = "end", b.queue = Append(a.queue, "end"), b.total = a.total,
         b.producer = "off"
  PROVE  StreamAddsUp(b, sum + 1)
<1> DEFINE n == Len(a.queue)
<1>1. a.queue \in Seq(Item) /\ a.total \in Nat /\ n \in Nat
  BY DEF AudioType
<1>2. Ending(a, sum)
  BY DEF StreamAddsUp
<1>0. "end" \in Item
  BY DEF Item
<1>3. /\ Len(b.queue) = n + 1 /\ b.queue[n + 1] = "end"
      /\ \A i \in 1..n : b.queue[i] = a.queue[i]
      /\ b.queue # <<>>
  BY <1>0, <1>1, AppendFacts
<1>4. Len(b.queue) - 1 = n /\ Len(b.queue) - 2 = n - 1
  BY <1>1, <1>3
<1>5. CASE AllAudio(a.queue, n) /\ sum = a.total
  <2>1. AllAudio(b.queue, n)
    BY <1>1, <1>3, <1>5 DEF AllAudio
  <2>2. Ended(b, sum + 1)
    BY <1>3, <1>4, <1>5, <2>1 DEF Ended
  <2> QED BY <2>2 DEF StreamAddsUp
<1>6. CASE a.queue # <<>> /\ AllAudio(a.queue, n - 1) /\ a.queue[n] = "error"
  <2>1. n > 0
    BY <1>1, <1>6, TailFacts
  <2>2. AllAudio(b.queue, n - 1) /\ b.queue[n] = "error" /\ Len(b.queue) > 1
    BY <1>1, <1>3, <1>6, <2>1 DEF AllAudio
  <2>3. Ended(b, sum + 1)
    BY <1>3, <1>4, <2>2 DEF Ended
  <2> QED BY <2>3 DEF StreamAddsUp
<1> QED BY <1>2, <1>5, <1>6 DEF Ending

LEMMA DisplacedByError ==
  ASSUME NEW b, NEW sum, b.queue = <<"error", "end">>, b.producer = "off"
  PROVE  StreamAddsUp(b, sum)
<1>1. /\ Len(<<"error", "end">>) = 2 /\ <<"error", "end">>[2] = "end"
      /\ <<"error", "end">>[1] = "error" /\ <<"error", "end">> # <<>>
  OBVIOUS
<1>2. Ended(b, sum)
  BY <1>1 DEF Ended, AllAudio
<1> QED BY <1>2 DEF StreamAddsUp

LEMMA DisplacedByEnd ==
  ASSUME NEW a \in AudioType, NEW b, NEW heard \in Nat,
         StreamAddsUp(a, heard + Len(a.queue)), Len(a.queue) >= QueueSize,
         a.producer = "end", b.total = a.total, b.queue = <<"end">>, b.producer = "off"
  PROVE  StreamAddsUp(b, heard + 1)
<1>1. Len(a.queue) \in Nat /\ a.total \in Nat /\ QueueSize \in Nat
  BY WorkerAssumption DEF AudioType
<1>2. heard + Len(a.queue) <= a.total
  BY <1>1 DEF StreamAddsUp, Ending
<1>3. heard + 1 + QueueSize <= b.total + 1
  BY <1>1, <1>2
<1>4. Len(<<"end">>) = 1 /\ <<"end">>[1] = "end" /\ <<"end">> # <<>>
  OBVIOUS
<1>5. Ended(b, heard + 1)
  BY <1>3, <1>4 DEF Ended, AllAudio
<1> QED BY <1>5 DEF StreamAddsUp

(* What is in hand of a request, beside its queue, when it produces.       *)
LEMMA ProducerFacts ==
  ASSUME WorkerInv, NEW r \in Request
  PROVE  /\ job[r] \in JobType /\ made[r] \in AudioType /\ RequestOK(r)
         /\ made[r].heard + InHand(r) \in Nat /\ Pieces(r) \in Nat
         /\ Pieces(r) = made[r].heard + InHand(r) + Len(made[r].queue)
         /\ made[r].producer \in {"put", "fail", "end"} => ~job[r].thread
         /\ job = [job EXCEPT ![r] = job[r]]
         /\ made[r].queue \in Seq(Item) /\ Len(made[r].queue) \in Nat
<1>1. job[r] \in JobType /\ made[r] \in AudioType /\ RequestOK(r)
  BY OfOne
<1>2. made[r].queue \in Seq(Item) /\ Len(made[r].queue) \in Nat /\ made[r].heard \in Nat
  BY <1>1 DEF AudioType
<1>3. InHand(r) \in Nat
  BY DEF InHand
<1>4. made[r].heard + InHand(r) \in Nat
  BY <1>2, <1>3
<1>5. Pieces(r) \in Nat /\ Pieces(r) = made[r].heard + InHand(r) + Len(made[r].queue)
  BY <1>2, <1>4 DEF Pieces
<1>6. /\ made[r].producer \in {"put", "fail", "end"} => ~job[r].thread
      /\ job = [job EXCEPT ![r] = job[r]]
  BY <1>1, OfOne DEF RequestOK, HoldsLock
<1> QED BY <1>1, <1>2, <1>4, <1>5, <1>6

LEMMA OneMorePiece ==
  ASSUME WorkerInv, NEW r \in Request, NEW n, n = Len(made[r].queue) + 1
  PROVE  Pieces(r) + 1 = made[r].heard + InHand(r) + n
<1>1. PICK base \in Nat, q \in Nat :
        base = made[r].heard + InHand(r) /\ q = Len(made[r].queue) /\ Pieces(r) = base + q
  BY ProducerFacts
<1>2. n = q + 1
  BY <1>1
<1>3. (base + q) + 1 = base + (q + 1)
  OBVIOUS
<1> QED BY <1>1, <1>2, <1>3

LEMMA PutKeeps ==
  ASSUME WorkerInv, NEW r \in Request, Put(r), UNCHANGED <<engine, asked>>
  PROVE  WorkerInv'
<1> DEFINE stop == made[r].next >= made[r].total \/ made[r].closed \/ job[r].gone
           next == IF stop THEN made[r].next ELSE made[r].next + 1
           producer == IF stop THEN "end" ELSE "generate"
           queue == Append(made[r].queue, "audio")
           going == ~stop
           j == [job[r] EXCEPT !.thread = going]
           a == [made[r] EXCEPT !.queue = queue, !.next = next, !.producer = producer]
<1>1. /\ made[r].producer = "put" /\ lock' = lock
      /\ job' = [job EXCEPT ![r] = j] /\ made' = [made EXCEPT ![r] = a]
  BY DEF Put, Onward
<1>2. /\ job[r] \in JobType /\ made[r] \in AudioType /\ Pieces(r) \in Nat
      /\ Pieces(r) = made[r].heard + InHand(r) + Len(made[r].queue)
      /\ made[r].queue \in Seq(Item) /\ Len(made[r].queue) \in Nat
      /\ made[r].heard + InHand(r) \in Nat
  BY ProducerFacts
<1>3. made[r].next \in Nat /\ made[r].total \in Nat /\ made[r].closed \in BOOLEAN
      /\ job[r].gone \in BOOLEAN
  BY <1>2 DEF JobType, AudioType
<1>4. \/ ~stop /\ going = TRUE /\ next = made[r].next + 1 /\ producer = "generate"
      \/ stop /\ going = FALSE /\ next = made[r].next /\ producer = "end"
  OBVIOUS
<1>5. /\ going \in BOOLEAN /\ next \in Nat /\ producer \in {"end", "generate"}
      /\ queue \in Seq(Item) /\ Len(queue) = Len(made[r].queue) + 1
  BY <1>2, <1>3, <1>4, AppendFacts DEF Item
<1>6. ~stop => made[r].next < made[r].total
  BY <1>3
<1>7. stop => made[r].next >= made[r].total \/ made[r].closed \/ job[r].gone
  OBVIOUS
<1>8. queue = Append(made[r].queue, "audio")
  OBVIOUS
<1> HIDE DEF stop, next, producer, queue, going
<1>9. /\ j \in JobType /\ j.thread = going /\ j.pc = job[r].pc /\ j.gone = job[r].gone
      /\ j.op = job[r].op /\ j.answer = job[r].answer
  BY <1>2, <1>5 DEF JobType
<1>10. /\ a \in AudioType /\ a.producer = producer /\ a.total = made[r].total
       /\ a.hand = made[r].hand /\ a.heard = made[r].heard /\ a.queue = queue
       /\ a.closed = made[r].closed /\ a.next = next
  BY <1>2, <1>5 DEF AudioType
<1> HIDE DEF j, a
<1>11. ASSUME ~job[r].gone, StreamAddsUp(made[r], Pieces(r))
       PROVE  StreamAddsUp(a, Pieces(r) + 1)
  <2>1. ~made[r].closed
    BY <1>1, <1>11 DEF StreamAddsUp
  <2>2. \/ a.producer = "generate" /\ a.next = made[r].next + 1 /\ made[r].next < made[r].total
        \/ a.producer = "end" /\ made[r].next >= made[r].total
    BY <1>4, <1>6, <1>7, <1>10, <1>11, <2>1
  <2> QED BY <1>1, <1>2, <1>8, <1>10, <1>11, <2>1, <2>2, PutAudio
<1>12. Pieces(r) + 1 = made[r].heard + InHand(r) + Len(a.queue)
  <2>1. Len(a.queue) = Len(made[r].queue) + 1
    BY <1>5, <1>10
  <2> QED BY <2>1, OneMorePiece
<1>13. made[r].producer # "off" /\ a.producer # "off" /\ (j.thread => a.producer = "generate")
  BY <1>1, <1>4, <1>5, <1>9, <1>10
<1> QED BY <1>1, <1>9, <1>10, <1>11, <1>12, <1>13, ProducerKeeps

LEMMA PutErrorKeeps ==
  ASSUME WorkerInv, NEW r \in Request, PutError(r), UNCHANGED <<engine, asked>>
  PROVE  WorkerInv'
<1> DEFINE queue == Append(made[r].queue, "error")
           a == [made[r] EXCEPT !.queue = queue, !.producer = "end"]
<1>1. /\ made[r].producer = "fail" /\ lock' = lock /\ job' = job
      /\ made' = [made EXCEPT ![r] = a]
  BY DEF PutError
<1>2. /\ job[r] \in JobType /\ made[r] \in AudioType /\ Pieces(r) \in Nat /\ ~job[r].thread
      /\ Pieces(r) = made[r].heard + InHand(r) + Len(made[r].queue)
      /\ made[r].queue \in Seq(Item) /\ Len(made[r].queue) \in Nat
      /\ made[r].heard + InHand(r) \in Nat
      /\ job' = [job EXCEPT ![r] = job[r]]
  BY <1>1, ProducerFacts
<1>3. queue \in Seq(Item) /\ Len(queue) = Len(made[r].queue) + 1
  BY <1>2, AppendFacts DEF Item
<1>4. queue = Append(made[r].queue, "error")
  OBVIOUS
<1> HIDE DEF queue
<1>5. /\ a \in AudioType /\ a.producer = "end" /\ a.total = made[r].total
      /\ a.hand = made[r].hand /\ a.heard = made[r].heard /\ a.queue = queue
      /\ a.closed = made[r].closed
  BY <1>2, <1>3 DEF AudioType
<1> HIDE DEF a
<1>6. StreamAddsUp(made[r], Pieces(r)) => StreamAddsUp(a, Pieces(r) + 1)
  BY <1>1, <1>2, <1>4, <1>5, PutTheError
<1>7. Pieces(r) + 1 = made[r].heard + InHand(r) + Len(a.queue)
  <2>1. Len(a.queue) = Len(made[r].queue) + 1
    BY <1>3, <1>5
  <2> QED BY <2>1, OneMorePiece
<1>8. made[r].producer # "off" /\ a.producer # "off"
  BY <1>1, <1>5
<1> QED BY <1>1, <1>2, <1>5, <1>6, <1>7, <1>8, ProducerKeeps

LEMMA PutEndKeeps ==
  ASSUME WorkerInv, NEW r \in Request, PutEnd(r), UNCHANGED <<engine, asked>>
  PROVE  WorkerInv'
<1> DEFINE queue == Append(made[r].queue, "end")
           a == [made[r] EXCEPT !.queue = queue, !.producer = "off"]
<1>1. /\ made[r].producer = "end" /\ lock' = Free /\ job' = job
      /\ made' = [made EXCEPT ![r] = a]
  BY DEF PutEnd
<1>2. /\ job[r] \in JobType /\ made[r] \in AudioType /\ Pieces(r) \in Nat /\ ~job[r].thread
      /\ Pieces(r) = made[r].heard + InHand(r) + Len(made[r].queue)
      /\ made[r].queue \in Seq(Item) /\ Len(made[r].queue) \in Nat
      /\ made[r].heard + InHand(r) \in Nat
      /\ job' = [job EXCEPT ![r] = job[r]]
  BY <1>1, ProducerFacts
<1>3. queue \in Seq(Item) /\ Len(queue) = Len(made[r].queue) + 1
  BY <1>2, AppendFacts DEF Item
<1>4. queue = Append(made[r].queue, "end")
  OBVIOUS
<1> HIDE DEF queue
<1>5. /\ a \in AudioType /\ a.producer = "off" /\ a.total = made[r].total
      /\ a.hand = made[r].hand /\ a.heard = made[r].heard /\ a.queue = queue
  BY <1>2, <1>3 DEF AudioType
<1> HIDE DEF a
<1>6. StreamAddsUp(made[r], Pieces(r)) => StreamAddsUp(a, Pieces(r) + 1)
  BY <1>1, <1>2, <1>4, <1>5, PutTheEnd
<1>7. Pieces(r) + 1 = made[r].heard + InHand(r) + Len(a.queue)
  <2>1. Len(a.queue) = Len(made[r].queue) + 1
    BY <1>3, <1>5
  <2> QED BY <2>1, OneMorePiece
<1>8. made[r].producer # "off" /\ a.producer = "off"
  BY <1>1, <1>5
<1> QED BY <1>1, <1>2, <1>5, <1>6, <1>7, <1>8, ProducerKeeps

LEMMA GiveUpKeeps ==
  ASSUME WorkerInv, NEW r \in Request, GiveUp(r), UNCHANGED <<engine, asked>>
  PROVE  WorkerInv'
<1>0. /\ job[r] \in JobType /\ made[r] \in AudioType /\ Pieces(r) \in Nat
      /\ Pieces(r) = made[r].heard + InHand(r) + Len(made[r].queue)
      /\ made[r].heard + InHand(r) \in Nat
      /\ job = [job EXCEPT ![r] = job[r]]
  BY ProducerFacts
<1>1. PICK items \in {<<"error", "end">>, <<"end">>} :
        /\ Displace(r, items)
        /\ made[r].producer \in {"put", "fail", "end"} /\ Len(made[r].queue) >= QueueSize
        /\ items = <<"error", "end">> \/ (made[r].producer = "end" /\ items = <<"end">>)
  BY DEF GiveUp, Full
<1> DEFINE closed == made[r].closed \/ items # <<"end">>
           a == [made[r] EXCEPT !.queue = items, !.producer = "off", !.closed = closed]
<1>2. /\ lock' = Free /\ job' = job /\ made' = [made EXCEPT ![r] = a] /\ ~job[r].thread
  BY <1>1, ProducerFacts DEF Displace
<1>3. closed \in BOOLEAN /\ items \in Seq(Item)
  <2>1. <<"error", "end">> \in Seq(Item) /\ <<"end">> \in Seq(Item)
    BY DEF Item
  <2>2. made[r].closed \in BOOLEAN
    BY <1>0 DEF AudioType
  <2> QED BY <2>1, <2>2
<1> HIDE DEF closed
<1>4. /\ a \in AudioType /\ a.producer = "off" /\ a.total = made[r].total
      /\ a.hand = made[r].hand /\ a.heard = made[r].heard /\ a.queue = items
  BY <1>0, <1>3 DEF AudioType
<1> HIDE DEF a
<1>5. ASSUME StreamAddsUp(made[r], Pieces(r))
      PROVE  StreamAddsUp(a, made[r].heard + InHand(r) + Len(a.queue))
  <2>1. CASE items = <<"error", "end">>
    BY <1>4, <2>1, DisplacedByError
  <2>2. CASE made[r].producer = "end" /\ items = <<"end">>
    <3>1. StreamAddsUp(a, made[r].heard + InHand(r) + 1)
      BY <1>0, <1>1, <1>4, <1>5, <2>2, DisplacedByEnd
    <3>2. Len(a.queue) = 1
      BY <1>4, <2>2
    <3> QED BY <3>1, <3>2
  <2> QED BY <1>1, <2>1, <2>2
<1>6. made[r].producer # "off" /\ a.producer = "off" /\ job' = [job EXCEPT ![r] = job[r]]
  BY <1>0, <1>1, <1>2, <1>4
<1> QED BY <1>0, <1>2, <1>4, <1>5, <1>6, ProducerKeeps

LEMMA ProduceKeeps ==
  ASSUME WorkerInv, NEW r \in Request, Produce(r)
  PROVE  WorkerInv'
BY PutKeeps, PutErrorKeeps, PutEndKeeps, GiveUpKeeps DEF Produce

-----------------------------------------------------------------------------
(* The handler of qwen3, which takes from the queue what the producer put. *)
LEMMA FirstItemKeeps ==
  ASSUME WorkerInv, NEW r \in Request, FirstItem(r), engine = "qwen3",
         UNCHANGED <<engine, lock, asked>>
  PROVE  WorkerInv'
<1> DEFINE queue == Tail(made[r].queue)
<1>1. /\ job[r] \in JobType /\ made[r] \in AudioType /\ RequestOK(r) /\ Pieces(r) \in Nat
      /\ Pieces(r) = made[r].heard + InHand(r) + Len(made[r].queue)
      /\ job[r].pc = "first" /\ made[r].queue # <<>> /\ made[r].queue \in Seq(Item)
      /\ job[r].answer = "none" /\ made[r].heard = 0 /\ ~made[r].hand
  BY ProducerFacts DEF FirstItem, RequestOK, Begun, Streaming
<1>2. queue \in Seq(Item) /\ Len(queue) = Len(made[r].queue) - 1 /\ Len(made[r].queue) \in Nat
  BY <1>1, TailFacts
<1>3. queue = Tail(made[r].queue)
  OBVIOUS
<1>4. CASE Head(made[r].queue) = "audio"
  <2> DEFINE j == [job[r] EXCEPT !.pc = "body"]
             a == [made[r] EXCEPT !.queue = queue, !.hand = TRUE]
  <2>1. job' = [job EXCEPT ![r] = j] /\ made' = [made EXCEPT ![r] = a]
    BY <1>4 DEF FirstItem
  <2> HIDE DEF queue
  <2>2. /\ j \in JobType /\ j.pc = "body" /\ j.thread = job[r].thread /\ j.gone = job[r].gone
        /\ j.answer = "none" /\ j.op = job[r].op
    BY <1>1 DEF JobType
  <2>3. /\ a \in AudioType /\ a.queue = queue /\ a.hand /\ a.heard = 0
        /\ a.total = made[r].total /\ a.next = made[r].next
        /\ a.producer = made[r].producer /\ a.closed = made[r].closed
    BY <1>1, <1>2 DEF AudioType
  <2> HIDE DEF j, a
  <2>4. StreamAddsUp(made[r], Pieces(r)) => StreamAddsUp(a, Pieces(r))
    BY <1>1, <1>3, <1>4, <2>3, TakeAudio
  <2>5. ASSUME job'[r] = j, made'[r] = a
        PROVE  HoldsLock(r)' /\ Streaming(r)' /\ EndsClean(r)'
    <3>1. Pieces(r)' = Pieces(r)
      BY <1>1, <1>2, <2>3, <2>5 DEF Pieces, InHand
    <3>2. HoldsLock(r)'
      BY <1>1, <2>2, <2>3, <2>5 DEF RequestOK, HoldsLock
    <3>3. Streaming(r)'
      BY <1>1, <2>2, <2>3, <2>4, <2>5, <3>1 DEF RequestOK, Streaming
    <3> QED BY <2>2, <2>5, <3>2, <3>3 DEF EndsClean
  <2> QED BY <1>1, <2>1, <2>2, <2>3, <2>5, StepAtHand
<1>5. CASE Head(made[r].queue) # "audio"
  <2> DEFINE j == [job[r] EXCEPT !.pc = "join"]
             a == [made[r] EXCEPT !.queue = queue, !.closed = TRUE]
  <2>1. job' = [job EXCEPT ![r] = j] /\ made' = [made EXCEPT ![r] = a]
    BY <1>5 DEF FirstItem
  <2> HIDE DEF queue
  <2>2. /\ j \in JobType /\ j.pc = "join" /\ j.thread = job[r].thread /\ j.gone = job[r].gone
        /\ j.answer = "none" /\ j.op = job[r].op
    BY <1>1 DEF JobType
  <2>3. a \in AudioType /\ a.producer = made[r].producer
    BY <1>1, <1>2 DEF AudioType
  <2> HIDE DEF j, a
  <2>4. ASSUME job'[r] = j, made'[r] = a
        PROVE  HoldsLock(r)' /\ Streaming(r)' /\ EndsClean(r)'
    BY <1>1, <2>2, <2>3, <2>4 DEF RequestOK, HoldsLock, Streaming, EndsClean
  <2> QED BY <1>1, <2>1, <2>2, <2>3, <2>4, StepAtHand
<1> QED BY <1>4, <1>5

LEMMA NextItemKeeps ==
  ASSUME WorkerInv, NEW r \in Request, NextItem(r), engine = "qwen3",
         UNCHANGED <<engine, lock, asked>>
  PROVE  WorkerInv'
<1> DEFINE queue == Tail(made[r].queue)
<1>1. /\ job[r] \in JobType /\ made[r] \in AudioType /\ RequestOK(r) /\ Pieces(r) \in Nat
      /\ Pieces(r) = made[r].heard + InHand(r) + Len(made[r].queue)
      /\ job[r].pc = "body" /\ ~job[r].gone /\ ~made[r].hand
      /\ made[r].queue # <<>> /\ made[r].queue \in Seq(Item)
      /\ job[r].answer = "none" /\ job = [job EXCEPT ![r] = job[r]]
  BY ProducerFacts DEF NextItem, Reading, RequestOK, Begun
<1>2. queue \in Seq(Item) /\ Len(queue) = Len(made[r].queue) - 1 /\ Len(made[r].queue) \in Nat
  BY <1>1, TailFacts
<1>3. queue = Tail(made[r].queue) /\ made[r].heard \in Nat /\ made[r].total \in Nat
  BY <1>1 DEF AudioType
<1>4. StreamAddsUp(made[r], Pieces(r)) /\ Pieces(r) = made[r].heard + Len(made[r].queue)
  BY <1>1, <1>2, <1>3 DEF RequestOK, Streaming, InHand
<1>5. CASE Head(made[r].queue) = "audio"
  <2> DEFINE a == [made[r] EXCEPT !.queue = queue, !.hand = TRUE]
  <2>1. job' = [job EXCEPT ![r] = job[r]] /\ made' = [made EXCEPT ![r] = a]
    BY <1>1, <1>5 DEF NextItem
  <2> HIDE DEF queue
  <2>2. /\ a \in AudioType /\ a.queue = queue /\ a.hand /\ a.heard = made[r].heard
        /\ a.total = made[r].total /\ a.next = made[r].next
        /\ a.producer = made[r].producer /\ a.closed = made[r].closed
    BY <1>1, <1>2 DEF AudioType
  <2> HIDE DEF a
  <2>3. StreamAddsUp(a, Pieces(r))
    BY <1>1, <1>3, <1>4, <1>5, <2>2, TakeAudio
  <2>4. ASSUME job'[r] = job[r], made'[r] = a
        PROVE  HoldsLock(r)' /\ Streaming(r)' /\ EndsClean(r)'
    <3>1. Pieces(r)' = Pieces(r)
      <4>1. Pieces(r)' = made[r].heard + 1 + (Len(made[r].queue) - 1)
        BY <1>2, <2>2, <2>4 DEF Pieces, InHand
      <4>2. \A x, n \in Nat : n > 0 => x + 1 + (n - 1) = x + n
        OBVIOUS
      <4> QED BY <1>1, <1>2, <1>3, <1>4, <4>1, <4>2, TailFacts
    <3>2. HoldsLock(r)'
      BY <1>1, <2>2, <2>4 DEF RequestOK, HoldsLock
    <3>3. Streaming(r)'
      BY <1>1, <2>2, <2>3, <2>4, <3>1 DEF RequestOK, Streaming
    <3> QED BY <1>1, <2>4, <3>2, <3>3 DEF EndsClean
  <2> QED BY <1>1, <2>1, <2>2, <2>4, StepAtHand
<1>6. CASE Head(made[r].queue) # "audio"
  <2> DEFINE how == IF Head(made[r].queue) = "end" THEN "ok" ELSE "failed"
             j == [job[r] EXCEPT !.pc = "done", !.answer = how]
             a == [made[r] EXCEPT !.queue = queue, !.closed = TRUE]
  <2>1. job' = [job EXCEPT ![r] = j] /\ made' = [made EXCEPT ![r] = a]
    BY <1>6 DEF NextItem
  <2>2. how \in {"ok", "failed"} /\ (how = "ok" => Head(made[r].queue) = "end")
    OBVIOUS
  <2> HIDE DEF queue, how
  <2>3. /\ j \in JobType /\ j.pc = "done" /\ j.thread = job[r].thread /\ j.gone = job[r].gone
        /\ j.answer = how /\ j.op = job[r].op
    BY <1>1, <2>2 DEF JobType, Answer
  <2>4. /\ a \in AudioType /\ a.producer = made[r].producer /\ a.heard = made[r].heard
        /\ a.total = made[r].total
    BY <1>1, <1>2 DEF AudioType
  <2> HIDE DEF j, a
  <2>5. how = "ok" => a.heard = a.total \/ a.heard + QueueSize <= a.total
    <3> SUFFICES ASSUME how = "ok" PROVE a.heard = a.total \/ a.heard + QueueSize <= a.total
      OBVIOUS
    <3>1. /\ Len(made[r].queue) = 1
          /\ Pieces(r) = made[r].total + 1 \/ Pieces(r) + QueueSize <= made[r].total + 1
      BY <1>1, <1>4, <2>2, TakeEnd
    <3> QED BY <1>3, <1>4, <2>4, <3>1, WorkerAssumption
  <2>6. ASSUME job'[r] = j, made'[r] = a
        PROVE  HoldsLock(r)' /\ Streaming(r)' /\ EndsClean(r)'
    <3>1. HoldsLock(r)' /\ Streaming(r)'
      BY <1>1, <2>3, <2>4, <2>6 DEF RequestOK, HoldsLock, Streaming
    <3>2. EndsClean(r)'
      BY <2>3, <2>5, <2>6 DEF EndsClean
    <3> QED BY <3>1, <3>2
  <2> QED BY <1>1, <2>1, <2>3, <2>4, <2>6, StepAtHand
<1> QED BY <1>5, <1>6

(* A body that was left: the handler or the response closes the stream.    *)
LEMMA ClosedKeeps ==
  ASSUME WorkerInv, NEW r \in Request, NEW a \in AudioType, job[r].pc = "body", job[r].gone,
         made' = [made EXCEPT ![r] = a], a.producer = made[r].producer,
         NEW j, j = [job[r] EXCEPT !.pc = "done", !.answer = "left"],
         job' = [job EXCEPT ![r] = j], engine' = engine, asked' = asked,
         \/ engine = "qwen3" /\ lock' = lock
         \/ engine # "qwen3" /\ lock' = Free
  PROVE  WorkerInv'
<1>1. /\ job[r] \in JobType /\ RequestOK(r)
      /\ engine \in {"qwen3", "cosyvoice", "chatterbox"}
      /\ lock' = lock \/ (lock = r /\ lock' = Free)
  BY OfOne DEF RequestOK, HoldsLock, WorkerInv, WorkerTypeOK
<1>2. /\ j \in JobType /\ j.pc = "done" /\ j.answer = "left" /\ j.thread = job[r].thread
      /\ j.gone /\ j.op = job[r].op
  BY <1>1 DEF JobType, Answer
<1>3. ASSUME job'[r] = j, made'[r] = a
      PROVE  HoldsLock(r)' /\ Streaming(r)' /\ EndsClean(r)'
  BY <1>1, <1>2, <1>3 DEF RequestOK, HoldsLock, Streaming, EndsClean
<1> QED BY <1>1, <1>2, <1>3, StepAtHand

LEMMA QwenReplyKeeps ==
  ASSUME WorkerInv, NEW r \in Request, QwenReply(r)
  PROVE  WorkerInv'
<1>1. engine = "qwen3" /\ UNCHANGED <<engine, lock, asked>> /\ asked' \in asked..MaxRequests
  BY DEF QwenReply, WorkerInv, WorkerTypeOK
<1>2. CASE JoinProducer(r)
  <2>1. r <= asked /\ job[r] \in JobType /\ "failed" \in Answer
    BY <1>2, OfOne DEF JoinProducer, RequestOK, Begun, WorkerInv, WorkerTypeOK, Request, Answer
  <2> QED BY <1>1, <1>2, <2>1, AnsweredOK DEF JoinProducer
<1>3. CASE CloseConsumer(r)
  <2> DEFINE a == [made[r] EXCEPT !.closed = TRUE, !.hand = FALSE]
  <2>1. a \in AudioType /\ a.producer = made[r].producer /\ made' = [made EXCEPT ![r] = a]
    <3>1. made[r] \in AudioType
      BY OfOne
    <3> QED BY <1>3, <3>1 DEF AudioType, CloseConsumer
  <2> DEFINE j == [job[r] EXCEPT !.pc = "done", !.answer = "left"]
  <2>2. job' = [job EXCEPT ![r] = j] /\ job[r].pc = "body" /\ job[r].gone
    BY <1>3 DEF CloseConsumer
  <2> HIDE DEF a
  <2> QED BY <1>1, <2>1, <2>2, ClosedKeeps
<1> QED BY <1>1, <1>2, <1>3, FirstItemKeeps, NextItemKeeps DEF QwenReply

-----------------------------------------------------------------------------
(* The responses of cosyvoice and chatterbox, which hold the lock.         *)
LEMMA ResponseFacts ==
  ASSUME WorkerInv, NEW r \in Request, engine # "qwen3", job[r].pc \in {"first", "body"}
  PROVE  /\ job[r] \in JobType /\ made[r] \in AudioType /\ RequestOK(r) /\ lock = r
         /\ made[r].producer = "off" /\ job[r].answer = "none" /\ r <= asked
         /\ asked \in asked..MaxRequests /\ {"ok", "failed"} \subseteq Answer
         /\ made[r].heard \in Nat /\ made[r].next \in Nat /\ made[r].total \in Nat
         /\ job = [job EXCEPT ![r] = job[r]] /\ made = [made EXCEPT ![r] = made[r]]
<1>1. job[r] \in JobType /\ made[r] \in AudioType /\ RequestOK(r)
  BY OfOne
<1>2. lock = r /\ made[r].producer = "off" /\ job[r].answer = "none" /\ ~(asked < r)
  BY <1>1 DEF RequestOK, HoldsLock, Begun
<1> QED BY <1>1, <1>2, OfOne DEF AudioType, WorkerInv, WorkerTypeOK, Request, Answer

LEMMA FirstAudioKeeps ==
  ASSUME WorkerInv, NEW r \in Request, FirstAudio(r)
  PROVE  WorkerInv'
<1>1. engine # "qwen3" /\ job[r].pc = "first" /\ UNCHANGED <<engine, asked>>
  BY DEF FirstAudio
<1>2. CASE FirstFailed(r)
  BY <1>1, <1>2, ResponseFacts, AnsweredOK DEF FirstFailed
<1>3. CASE FirstMade(r)
  <2> DEFINE j == [job[r] EXCEPT !.pc = "body", !.thread = FALSE]
             a == [made[r] EXCEPT !.hand = TRUE]
  <2>1. job' = [job EXCEPT ![r] = j] /\ made' = [made EXCEPT ![r] = a] /\ lock' = lock
    BY <1>3 DEF FirstMade
  <2>2. /\ j \in JobType /\ j.pc = "body" /\ ~j.thread /\ j.gone = job[r].gone
        /\ j.answer = "none" /\ j.op = job[r].op
    BY <1>1, ResponseFacts DEF JobType
  <2>3. /\ a \in AudioType /\ a.hand /\ a.heard = made[r].heard /\ a.producer = "off"
        /\ a.total = made[r].total /\ a.next = made[r].next
    BY <1>1, ResponseFacts DEF AudioType
  <2> HIDE DEF j, a
  <2>4. ASSUME job'[r] = j, made'[r] = a
        PROVE  HoldsLock(r)' /\ Streaming(r)' /\ EndsClean(r)'
    <3>1. RequestOK(r) /\ lock = r
      BY <1>1, ResponseFacts
    <3>2. HoldsLock(r)'
      BY <1>1, <2>1, <2>2, <2>3, <2>4, <3>1 DEF HoldsLock
    <3>3. made[r].heard = 0 /\ made[r].next = 1 /\ InHand(r)' = 1
      BY <1>1, <2>3, <2>4, <3>1 DEF RequestOK, Streaming, InHand
    <3>4. Streaming(r)'
      BY <1>1, <2>2, <2>3, <2>4, <3>1, <3>3 DEF RequestOK, Streaming
    <3> QED BY <2>2, <2>4, <3>2, <3>4 DEF EndsClean
  <2> QED BY <1>1, <2>1, <2>2, <2>3, <2>4, StepAtHand
<1> QED BY <1>2, <1>3 DEF FirstAudio

LEMMA AskChunkKeeps ==
  ASSUME WorkerInv, NEW r \in Request, AskChunk(r)
  PROVE  WorkerInv'
<1> DEFINE j == [job[r] EXCEPT !.thread = TRUE]
<1>1. /\ engine = "cosyvoice" /\ job[r].pc = "body" /\ ~job[r].gone /\ ~made[r].hand
      /\ UNCHANGED <<engine, lock, asked, made>> /\ job' = [job EXCEPT ![r] = j]
  BY DEF AskChunk, Reading
<1>2. /\ j \in JobType /\ j.pc = "body" /\ j.thread /\ ~j.gone /\ j.answer = "none"
      /\ j.op = job[r].op
  BY <1>1, ResponseFacts DEF JobType
<1> HIDE DEF j
<1>3. ASSUME job'[r] = j
      PROVE  HoldsLock(r)' /\ Streaming(r)' /\ EndsClean(r)'
  <2>1. RequestOK(r) /\ lock = r /\ made[r].producer = "off"
    BY <1>1, ResponseFacts
  <2>2. InHand(r)' = InHand(r)
    BY <1>1 DEF InHand
  <2>3. HoldsLock(r)' /\ EndsClean(r)'
    BY <1>1, <1>2, <1>3, <2>1 DEF HoldsLock, EndsClean
  <2>4. Streaming(r)'
    BY <1>1, <1>2, <1>3, <2>1, <2>2 DEF RequestOK, Streaming
  <2> QED BY <2>3, <2>4
<1>4. made[r] \in AudioType /\ made' = [made EXCEPT ![r] = made[r]]
  BY <1>1, ResponseFacts
<1> QED BY <1>1, <1>2, <1>3, <1>4, StepAtHand

LEMMA EndChunkKeeps ==
  ASSUME WorkerInv, NEW r \in Request, EndChunk(r)
  PROVE  WorkerInv'
<1>1. /\ engine = "cosyvoice" /\ job[r].pc = "body" /\ ~job[r].gone /\ job[r].thread
      /\ UNCHANGED <<engine, asked>>
  BY DEF EndChunk, Reading
<1>2. /\ ~made[r].hand /\ made[r].heard = made[r].next /\ made[r].next <= made[r].total
  <2>1. RequestOK(r) /\ made[r].heard \in Nat
    BY <1>1, ResponseFacts
  <2> QED BY <1>1, <2>1 DEF RequestOK, Streaming, InHand
<1>3. CASE LastChunk(r) \/ ChunkFailed(r)
  <2>1. PICK how \in {"ok", "failed"} :
          /\ job' = [job EXCEPT ![r] = Answered(@, how)] /\ lock' = Free /\ made' = made
          /\ how = "ok" => made[r].next = made[r].total
    BY <1>3 DEF LastChunk, ChunkFailed
  <2> QED BY <1>1, <1>2, <2>1, ResponseFacts, AnsweredOK
<1>4. CASE Chunk(r)
  <2> DEFINE next == made[r].next + 1
             j == [job[r] EXCEPT !.thread = FALSE]
             a == [made[r] EXCEPT !.next = next, !.hand = TRUE]
  <2>1. /\ job' = [job EXCEPT ![r] = j] /\ made' = [made EXCEPT ![r] = a] /\ lock' = lock
        /\ made[r].next < made[r].total
    BY <1>4 DEF Chunk
  <2>2. next \in Nat /\ next = made[r].heard + 1 /\ next <= made[r].total
    BY <1>1, <1>2, <2>1, ResponseFacts
  <2> HIDE DEF next
  <2>3. /\ j \in JobType /\ j.pc = "body" /\ ~j.thread /\ ~j.gone
        /\ j.answer = "none" /\ j.op = job[r].op
    BY <1>1, ResponseFacts DEF JobType
  <2>4. /\ a \in AudioType /\ a.hand /\ a.heard = made[r].heard /\ a.producer = "off"
        /\ a.total = made[r].total /\ a.next = next
    BY <1>1, <2>2, ResponseFacts DEF AudioType
  <2> HIDE DEF j, a
  <2>5. ASSUME job'[r] = j, made'[r] = a
        PROVE  HoldsLock(r)' /\ Streaming(r)' /\ EndsClean(r)'
    <3>1. RequestOK(r) /\ lock = r
      BY <1>1, ResponseFacts
    <3>2. InHand(r)' = 1
      BY <2>4, <2>5 DEF InHand
    <3>3. HoldsLock(r)' /\ EndsClean(r)'
      BY <1>1, <2>1, <2>3, <2>4, <2>5, <3>1 DEF HoldsLock, EndsClean
    <3>4. Streaming(r)'
      BY <1>1, <2>2, <2>3, <2>4, <2>5, <3>1, <3>2 DEF RequestOK, Streaming
    <3> QED BY <3>3, <3>4
  <2> QED BY <1>1, <2>1, <2>3, <2>4, <2>5, StepAtHand
<1> QED BY <1>3, <1>4 DEF EndChunk

LEMMA EndPieceKeeps ==
  ASSUME WorkerInv, NEW r \in Request, EndPiece(r)
  PROVE  WorkerInv'
<1> DEFINE j == [job[r] EXCEPT !.pc = "done", !.answer = "ok"]
<1>1. /\ engine = "chatterbox" /\ job[r].pc = "body" /\ ~job[r].gone /\ ~made[r].hand
      /\ UNCHANGED <<engine, asked, made>> /\ lock' = Free /\ job' = [job EXCEPT ![r] = j]
  BY DEF EndPiece, Reading, Release
<1>2. /\ RequestOK(r) /\ lock = r /\ made[r].producer = "off" /\ made[r].heard \in Nat
      /\ made[r] \in AudioType /\ made' = [made EXCEPT ![r] = made[r]] /\ made'[r] = made[r]
  BY <1>1, ResponseFacts
<1>3. made[r].heard = made[r].total /\ ~job[r].thread
  BY <1>1, <1>2 DEF RequestOK, HoldsLock, Streaming, InHand
<1>4. /\ j \in JobType /\ j.pc = "done" /\ ~j.thread
  BY <1>1, <1>3, ResponseFacts DEF JobType, Answer
<1> HIDE DEF j
<1>5. ASSUME job'[r] = j
      PROVE  HoldsLock(r)' /\ Streaming(r)' /\ EndsClean(r)'
  BY <1>1, <1>2, <1>3, <1>4, <1>5 DEF HoldsLock, Streaming, EndsClean
<1> QED BY <1>1, <1>2, <1>4, <1>5, StepAtHand

LEMMA CloseStreamKeeps ==
  ASSUME WorkerInv, NEW r \in Request, CloseStream(r)
  PROVE  WorkerInv'
<1> DEFINE a == [made[r] EXCEPT !.hand = FALSE]
<1>1. a \in AudioType /\ a.producer = made[r].producer /\ made' = [made EXCEPT ![r] = a]
  <2>1. made[r] \in AudioType
    BY OfOne
  <2> QED BY <2>1 DEF AudioType, CloseStream
<1> DEFINE j == [job[r] EXCEPT !.pc = "done", !.answer = "left"]
<1>2. job' = [job EXCEPT ![r] = j] /\ job[r].pc = "body" /\ job[r].gone
  BY DEF CloseStream, Release
<1>3. engine # "qwen3" /\ lock' = Free /\ UNCHANGED <<engine, asked>>
  BY DEF CloseStream, Release
<1> HIDE DEF a
<1> QED BY <1>1, <1>2, <1>3, ClosedKeeps

LEMMA EndStragglerKeeps ==
  ASSUME WorkerInv, NEW r \in Request, EndStraggler(r)
  PROVE  WorkerInv'
<1> DEFINE j == [job[r] EXCEPT !.thread = FALSE]
<1>1. /\ job[r].pc = "done" /\ UNCHANGED <<engine, lock, asked, made>>
      /\ job' = [job EXCEPT ![r] = j] /\ job[r] \in JobType /\ RequestOK(r)
      /\ made[r] \in AudioType /\ made' = [made EXCEPT ![r] = made[r]]
  BY OfOne DEF EndStraggler
<1>2. /\ j \in JobType /\ j.pc = "done" /\ ~j.thread /\ j.op = job[r].op
      /\ j.answer = job[r].answer
  BY <1>1 DEF JobType
<1> HIDE DEF j
<1>3. ASSUME job'[r] = j
      PROVE  HoldsLock(r)' /\ Streaming(r)' /\ EndsClean(r)'
  BY <1>1, <1>2, <1>3 DEF RequestOK, HoldsLock, Streaming, EndsClean
<1> QED BY <1>1, <1>2, <1>3, StepAtHand

-----------------------------------------------------------------------------
(* The process ends under everybody, and nothing of it is left.            *)
LEMMA ExitKeeps ==
  ASSUME WorkerInv, Exit
  PROVE  WorkerInv'
<1> DEFINE Fate(r)  == IF r \in Open THEN Answered(job[r], "failed")
                       ELSE [job[r] EXCEPT !.thread = FALSE]
           Relic(r) == [made[r] EXCEPT !.producer = "off", !.queue = <<>>, !.hand = FALSE]
<1>1. /\ job' = [r \in Request |-> Fate(r)] /\ made' = [r \in Request |-> Relic(r)]
      /\ lock' = Free /\ UNCHANGED <<engine, asked>>
  <2>1. job' = [r \in Request |-> Fate(r)]
    BY DEF Exit
  <2>2. made' = [r \in Request |-> Relic(r)]
    BY DEF Exit
  <2> HIDE DEF Fate, Relic
  <2> QED BY <2>1, <2>2 DEF Exit
<1>2. ASSUME NEW r \in Request
      PROVE  /\ Fate(r) \in JobType /\ ~Fate(r).thread
             /\ r \in Open => Fate(r).pc = "done" /\ Fate(r).answer = "failed"
             /\ r \notin Open => /\ Fate(r).pc = job[r].pc /\ Fate(r).op = job[r].op
                                 /\ Fate(r).answer = job[r].answer /\ Fate(r).gone = job[r].gone
  <2>1. job[r] \in JobType /\ "failed" \in Answer
    BY OfOne DEF Answer
  <2>2. CASE r \in Open
    BY <2>1, <2>2, AnsweredType
  <2>3. CASE r \notin Open
    BY <2>1, <2>3 DEF JobType
  <2> QED BY <2>2, <2>3
<1>3. ASSUME NEW r \in Request
      PROVE  /\ Relic(r) \in AudioType /\ Relic(r).producer = "off"
             /\ Relic(r).heard = made[r].heard /\ Relic(r).total = made[r].total
             /\ Silent(made[r]) => Silent(Relic(r))
  <2>1. made[r] \in AudioType /\ <<>> \in Seq(Item)
    BY OfOne
  <2>2. /\ Relic(r) \in AudioType /\ Relic(r).producer = "off" /\ Relic(r).queue = <<>>
        /\ ~Relic(r).hand /\ Relic(r).heard = made[r].heard
        /\ Relic(r).total = made[r].total /\ Relic(r).closed = made[r].closed
    BY <2>1 DEF AudioType
  <2> HIDE DEF Relic
  <2> QED BY <2>2 DEF Silent
<1> HIDE DEF Fate, Relic
<1>4. WorkerTypeOK'
  BY <1>1, <1>2, <1>3, WorkerAssumption DEF WorkerInv, WorkerTypeOK, Free
<1>5. ASSUME NEW r \in Request
      PROVE  RequestOK(r)'
  <2>1. RequestOK(r) /\ job'[r] = Fate(r) /\ made'[r] = Relic(r)
    BY <1>1, OfOne
  <2>2. r \in Open <=> job[r].pc \notin {"none", "done"}
    BY DEF Open
  <2>3. asked < r => job[r].pc = "none"
    BY <2>1 DEF RequestOK, Begun
  <2>4. Begun(r)'
    <3>1. job[r].pc = "none" => /\ Silent(made[r]) /\ job[r].answer = "none" /\ ~job[r].gone
      BY <2>1 DEF RequestOK, Begun
    <3>2. CASE r \in Open
      BY <1>1, <1>2, <2>1, <2>2, <2>3, <3>2 DEF Begun
    <3>3. CASE job[r].pc = "none"
      BY <1>2, <1>3, <2>1, <2>2, <3>1, <3>3 DEF Begun
    <3>4. CASE job[r].pc = "done"
      BY <1>1, <1>2, <2>1, <2>2, <2>3, <3>4 DEF Begun
    <3> QED BY <2>2, <3>2, <3>3, <3>4
  <2>5. HoldsLock(r)' /\ Streaming(r)'
    BY <1>2, <1>3, <2>1, <2>2 DEF HoldsLock, Streaming
  <2>6. EndsClean(r)'
    BY <1>1, <1>2, <1>3, <2>1 DEF RequestOK, EndsClean
  <2> QED BY <2>4, <2>5, <2>6 DEF RequestOK
<1> QED BY <1>4, <1>5 DEF WorkerInv

LEMMA WorkerInitEstablishes == Init \/ WorkerRests => WorkerInv
<1> SUFFICES ASSUME NEW n \in 0..MaxRequests, Idle(n) PROVE WorkerInv
  BY WorkerAssumption DEF Init, WorkerRests
<1>1. NoJob \in JobType /\ NoAudio \in AudioType
  <2>1. <<>> \in Seq(Item)
    OBVIOUS
  <2> QED BY <2>1 DEF NoJob, NoAudio, JobType, AudioType, Answer
<1>2. WorkerTypeOK
  BY <1>1, WorkerAssumption DEF WorkerTypeOK, Idle, Free
<1>3. ASSUME NEW r \in Request
      PROVE  RequestOK(r)
  <2>1. job[r] = NoJob /\ made[r] = NoAudio
    BY DEF Idle
  <2> QED
    BY <2>1 DEF NoJob, NoAudio, Silent, RequestOK, Begun, HoldsLock, Streaming, EndsClean
<1> QED BY <1>2, <1>3 DEF WorkerInv

(* Nobody's request moves.                                                 *)
LEMMA WorkerRestsKeeps ==
  ASSUME WorkerInv, UNCHANGED <<engine, lock, asked, job, made>>
  PROVE  WorkerInv'
<1>1. WorkerTypeOK'
  BY DEF WorkerInv, WorkerTypeOK
<1>2. \A r \in Request : RequestOK(r)'
  BY DEF WorkerInv, RequestOK, Begun, HoldsLock, Streaming, EndsClean, Pieces, InHand
<1> QED BY <1>1, <1>2 DEF WorkerInv

LEMMA WorkerStepPreserves == WorkerInv /\ [Next]_vars => WorkerInv'
<1> SUFFICES ASSUME WorkerInv, [Next]_vars PROVE WorkerInv'
  OBVIOUS
<1>1. ASSUME NEW op \in Op, NEW m \in Model, Arrive(op, m) PROVE WorkerInv'
  BY <1>1, ArriveKeeps
<1>2. CASE TakeLock
  BY <1>2, TakeLockKeeps
<1>3. ASSUME NEW r \in Request, RequestStep(r) PROVE WorkerInv'
  <2>1. CASE EndLoad(r) \/ EndUnload(r)
    BY <2>1, EndLoadKeeps
  <2>2. CASE EndGenerate(r) \/ Produce(r) \/ QwenReply(r)
    BY <2>2, EndGenerateKeeps, ProduceKeeps, QwenReplyKeeps
  <2>3. CASE FirstAudio(r) \/ AskChunk(r) \/ EndChunk(r) \/ EndPiece(r)
    BY <2>3, FirstAudioKeeps, AskChunkKeeps, EndChunkKeeps, EndPieceKeeps
  <2>4. CASE CloseStream(r) \/ EndStraggler(r)
    BY <2>4, CloseStreamKeeps, EndStragglerKeeps
  <2> QED BY <1>3, <2>1, <2>2, <2>3, <2>4 DEF RequestStep
<1>4. ASSUME NEW r \in Request, Read(r) \/ Leave(r) PROVE WorkerInv'
  BY <1>4, ReadKeeps, LeaveKeeps
<1>5. CASE WakeRestart \/ RestartWhenIdle \/ UNCHANGED vars
  <2>1. UNCHANGED <<engine, lock, asked, job, made>>
    BY <1>5 DEF WakeRestart, RestartWhenIdle, vars
  <2> QED BY <2>1, WorkerRestsKeeps
<1>6. CASE Exit
  BY <1>6, ExitKeeps
<1> QED BY <1>1, <1>2, <1>3, <1>4, <1>5, <1>6 DEF Next

-----------------------------------------------------------------------------
(* Each side keeps its invariant while it moves and while the other does.  *)
THEOREM ProvidersInvariance == ProvidersSpec => [](WorkerInv /\ RoutingInv)
<1>1. ProvidersInit => WorkerInv /\ RoutingInv
  BY WorkerInitEstablishes, RoutingInitEstablishes DEF ProvidersInit
<1>2. WorkerInv /\ RoutingInv /\ [WorkerStep \/ GatewayStep]_providerVars
        => (WorkerInv /\ RoutingInv)'
  <2>1. [WorkerStep \/ GatewayStep]_providerVars => [Next]_vars /\ [RoutingNext]_routingVars
    BY DEF WorkerStep, GatewayStep, providerVars
  <2> QED BY <2>1, WorkerStepPreserves, RoutingStepPreserves
<1> QED BY <1>1, <1>2, PTL DEF ProvidersSpec

(* Two threads are never in a worker's model at once, except that          *)
(* cosyvoice lets the next request in beside the chunk of a client that    *)
(* has left: whoever has a thread holds operation_lock.                    *)
THEOREM WorkersEngineAlone == ProvidersSpec => []EngineAlone
<1>1. WorkerInv => EngineAlone
  <2> SUFFICES ASSUME WorkerInv, NEW r \in Busy, NEW s \in Busy
               PROVE  r = s \/ (engine = "cosyvoice" /\ (job[r].gone \/ job[s].gone))
    BY DEF EngineAlone
  <2>1. /\ lock = r \/ (engine = "cosyvoice" /\ job[r].gone)
        /\ lock = s \/ (engine = "cosyvoice" /\ job[s].gone)
    BY DEF Busy, WorkerInv, RequestOK, HoldsLock
  <2> QED BY <2>1
<1> QED BY <1>1, ProvidersInvariance, PTL

(* A speech stream that ends without an error was heard to its end, except *)
(* where qwen3 drops a full queue to place the end marker: then at least   *)
(* QueueSize parts are missing, so a shorter text is never cut.            *)
THEOREM WorkersCleanEnd == ProvidersSpec => []CleanEnd
<1>1. WorkerInv => CleanEnd
  BY DEF WorkerInv, RequestOK, EndsClean, CleanEnd
<1> QED BY <1>1, ProvidersInvariance, PTL

(* A model that a worker offers whenever it is up is never refused as      *)
(* unknown: an empty manifest is fetched again before it is looked at.     *)
THEOREM RoutingKeptStaysKnown == ProvidersSpec => []KeptStaysKnown
<1>1. RoutingInv => KeptStaysKnown
  BY DEF RoutingInv
<1> QED BY <1>1, ProvidersInvariance, PTL
=============================================================================
