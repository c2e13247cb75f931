--------------------------- MODULE ProviderRouting ---------------------------
(* The gateway's side of speech providers: TTSRouter, the backends in its  *)
(* own process and the ExternalTTSBackend of each worker, which keeps the  *)
(* worker's manifest for 30 seconds and its health for one.                *)
(* A request runs in a thread of its own through the stages of its path.   *)
(* It may wait for the router's lock, the lock on a worker's manifests and *)
(* the provider's synthesis lock, and it may hold the first while it asks  *)
(* a worker.  A worker that hangs is given up after three seconds.         *)
EXTENDS Naturals, FiniteSets, Sequences

CONSTANTS Local, External,  \* backends of either kind
          Name, Kept,       \* model names; those a worker always offers
          Thread, Nobody, NoName,
          MaxAsks, MaxChanges

ASSUME RoutingAssumption ==
  /\ Local \cap External = {} /\ Kept \subseteq Name /\ Kept # {}
  /\ Nobody \notin Thread /\ NoName \notin Name
  /\ MaxAsks \in Nat /\ MaxChanges \in Nat

VARIABLES
  backends,       \* the registered ones
  routerLock,     \* TTSRouter._lock
  synthesisLock,  \* backend -> who speaks, loads or unloads
  manifestLock,   \* worker -> who reads its manifest
  manifests,      \* worker -> the models and the error that are remembered
  health,         \* worker -> what is remembered of its health
  thread,         \* the request each thread serves
  denied,         \* models that a request was told not to exist
  worker,         \* worker -> condition, catalog: not the gateway's
  asks, changes   \* bounds spent

locks       == <<routerLock, synthesisLock, manifestLock>>
routingVars == <<backends, locks, manifests, health, thread, denied, worker, asks, changes>>

Backend == Local \cup External

(* A worker's model has its backend's name as a prefix; of a backend in    *)
(* the process one is as good as any other.                                *)
ModelId == [backend : Local, name : {NoName}] \cup [backend : External, name : Name]

(* Where each operation stops on its way. *)
Path ==
  [speak    |-> <<"enter", "backend", "voice", "queue", "manifest", "use">>,
   load     |-> <<"enter", "backend", "queue", "manifest", "change">>,
   unload   |-> <<"enter", "backend", "queue", "change">>,
   voices   |-> <<"enter", "backend", "queue", "manifest">>,
   describe |-> <<"backend", "manifest">>,
   loaded   |-> <<"enter", "backend", "fresh">>,
   status   |-> <<"enter", "scan", "available", "advertised">>,
   list     |-> <<"enter", "scan", "advertised", "available">>]

Operation == DOMAIN Path

NoRequest == [path |-> <<>>, read |-> "no",
              model |-> [backend |-> CHOOSE b \in Backend : TRUE, name |-> NoName]]

(* What is installed registers itself; every configured worker is added. *)
RoutingIdle(n) ==
  /\ \E installed \in SUBSET Local : backends = installed \cup External
  /\ routerLock = Nobody
  /\ synthesisLock = [b \in Backend |-> Nobody]
  /\ manifestLock = [p \in External |-> Nobody]
  /\ manifests = [p \in External |-> [models |-> {}, error |-> FALSE]]
  /\ health = [p \in External |-> "nothing"]
  /\ thread = [t \in Thread |-> NoRequest]
  /\ denied = {}
  /\ worker \in [External -> [condition : {"up", "broken"}, catalog : {Kept}]]
  /\ asks = n /\ changes = 0

RoutingInit == RoutingIdle(0)

-----------------------------------------------------------------------------
Wanted(t) == thread[t].model
Own(t)   == Wanted(t).backend
At(t, stage) == thread[t].path # <<>> /\ Head(thread[t].path) = stage

(* The locks a request has when it is at the rest of its path.  The        *)
(* router's lock is held while the backend is chosen and the voice looked  *)
(* up, the provider's from the queue to the end.                           *)
KeepsRouter(rest) == rest # <<>> /\ Head(rest) \in {"backend", "voice"}

Give(t, rest) ==
  /\ routerLock' = IF routerLock = t /\ ~KeepsRouter(rest) THEN Nobody ELSE routerLock
  /\ synthesisLock' = [b \in Backend |-> IF synthesisLock[b] = t /\ rest = <<>> THEN Nobody
                                         ELSE synthesisLock[b]]

Finish(t, answer) ==
  /\ Give(t, <<>>)
  /\ thread' = [thread EXCEPT ![t] = NoRequest]
  /\ denied' = IF answer \in {"unknown", "unlisted"} THEN denied \cup {Wanted(t)} ELSE denied

Forward(t) ==
  LET rest == Tail(thread[t].path)
  IN IF rest = <<>> THEN Finish(t, "done")
     ELSE /\ Give(t, rest)
          /\ thread' = [thread EXCEPT ![t] = [@ EXCEPT !.path = rest, !.read = "no"]]
          /\ UNCHANGED denied

Notes(t, read) == thread' = [thread EXCEPT ![t] = [@ EXCEPT !.read = read]]

AskFor(t, op, m) ==
  /\ thread[t].path = <<>> /\ asks < MaxAsks
  /\ thread' = [thread EXCEPT ![t] = [NoRequest EXCEPT !.model = m, !.path = Path[op]]]
  /\ asks' = asks + 1
  /\ UNCHANGED <<backends, locks, manifests, health, denied, worker, changes>>

Enter(t) ==
  /\ At(t, "enter") /\ routerLock = Nobody
  /\ LET rest == Tail(thread[t].path)
     IN /\ thread' = [thread EXCEPT ![t] = [@ EXCEPT !.path = rest]]
        /\ routerLock' = IF KeepsRouter(rest) THEN t ELSE Nobody
  /\ UNCHANGED <<backends, synthesisLock, manifestLock, manifests, health, denied, worker, asks,
                 changes>>

Queue(t) ==
  /\ At(t, "queue") /\ synthesisLock[Own(t)] = Nobody
  /\ synthesisLock' = [synthesisLock EXCEPT ![Own(t)] = t]
  /\ thread' = [thread EXCEPT ![t] = [@ EXCEPT !.path = Tail(thread[t].path)]]
  /\ UNCHANGED <<backends, routerLock, manifestLock, manifests, health, denied, worker, asks,
                 changes>>

Invalid(t) == At(t, "voice") /\ Finish(t, "invalid")

(* A backend in the process answers at once, or when nobody speaks if it is *)
(* asked what it has loaded; one that is not registered is unknown, or      *)
(* missing from the list of models.                                         *)
InProcess(t) ==
  /\ Own(t) \in Local
  /\ \E stage \in {"backend", "voice", "manifest", "fresh", "scan", "available", "advertised"} :
       /\ At(t, stage)
       /\ IF Own(t) \notin backends
          THEN Finish(t, IF stage = "backend" THEN "unknown" ELSE "missing")
          ELSE /\ stage \in {"fresh", "scan"} => synthesisLock[Own(t)] = Nobody
               /\ Forward(t) \/ Invalid(t)
  /\ UNCHANGED <<backends, manifestLock, manifests, health, worker, asks, changes>>

-----------------------------------------------------------------------------
(* _refresh_manifests.  Manifests are good for 30 seconds, also when the   *)
(* last attempt to read them failed; without any, an error is good for 2.  *)
(* That may be over at any time.  The age counts from before the request,  *)
(* so an error that took the three seconds of a timeout is not used again. *)
ReadManifests(t) ==
  LET p == Own(t)
  IN /\ p \in External /\ thread[t].read = "no"
     /\ \E stage \in {"backend", "voice", "manifest", "advertised"} : At(t, stage)
     /\ manifestLock[p] = Nobody
     /\ \/ manifests[p].models # {} /\ Notes(t, "ok") /\ UNCHANGED manifestLock
        \/ /\ manifests[p].models = {} /\ manifests[p].error
           /\ Notes(t, "failed") /\ UNCHANGED manifestLock
        \/ /\ manifestLock' = [manifestLock EXCEPT ![p] = t]
           /\ Notes(t, "asking")
     /\ UNCHANGED <<backends, routerLock, synthesisLock, manifests, health, denied, worker, asks,
                    changes>>

Remember(p) ==
  manifests' = [manifests EXCEPT ![p] =
    IF worker[p].condition = "up" THEN [models |-> worker[p].catalog, error |-> FALSE]
    ELSE [@ EXCEPT !.error = worker[p].condition = "broken"]]

(* The manifest comes, or an error: refused, of another schema or another  *)
(* provider, no JSON; or nothing in time.                                  *)
ManifestAnswerLocked(t) ==
  LET p == Own(t)
  IN /\ thread[t].read = "asking" /\ manifestLock[p] = t
     /\ Remember(p)
     /\ manifestLock' = [manifestLock EXCEPT ![p] = IF worker[p].condition = "up" THEN Nobody ELSE t]
     /\ Notes(t, IF worker[p].condition = "up" THEN "ok" ELSE "failed")
     /\ UNCHANGED <<backends, routerLock, synthesisLock, health, denied, worker, asks, changes>>

ManifestAnswer(t) ==
  LET p == Own(t)
  IN /\ thread[t].read = "asking" /\ manifestLock[p] = t
     /\ Remember(p)
     /\ manifestLock' = [manifestLock EXCEPT ![p] = Nobody]
     /\ Notes(t, IF worker[p].condition = "up" THEN "ok" ELSE "failed")
     /\ UNCHANGED <<backends, routerLock, synthesisLock, health, denied, worker, asks, changes>>

(* get_backend: supports_model lets a worker that cannot be asked keep     *)
(* what has its prefix.                                                    *)
SupportedIfListed(t) == Wanted(t).name \in manifests[Own(t)].models

Supported(t) == thread[t].read = "failed" \/ Wanted(t).name \in manifests[Own(t)].models

ChooseBackend(t) ==
  /\ At(t, "backend") /\ thread[t].read \in {"ok", "failed"} /\ Own(t) \in External
  /\ IF Supported(t) THEN Forward(t) ELSE Finish(t, "unknown")
  /\ UNCHANGED <<backends, manifestLock, manifests, health, worker, asks, changes>>

(* get_model_manifest, and with its voices the voice.  Read again under    *)
(* the provider's lock, where an upgrade may have changed it.              *)
UseManifest(t) ==
  /\ thread[t].read \in {"ok", "failed"} /\ Own(t) \in External
  /\ At(t, "voice") \/ At(t, "manifest")
  /\ \/ thread[t].read = "failed" /\ Finish(t, "unavailable")
     \/ /\ thread[t].read = "ok" /\ Wanted(t).name \notin manifests[Own(t)].models
        /\ Finish(t, "unknown")
     \/ /\ thread[t].read = "ok" /\ Wanted(t).name \in manifests[Own(t)].models
        /\ Forward(t) \/ Invalid(t)
  /\ UNCHANGED <<backends, manifestLock, manifests, health, worker, asks, changes>>

(* advertises_model is a third answer where nothing was ever read.         *)
Advertised(t) ==
  IF thread[t].read = "failed" /\ manifests[Own(t)].models = {} THEN "unchecked"
  ELSE IF Wanted(t).name \in manifests[Own(t)].models THEN "yes" ELSE "no"

(* list_all leaves out what is not advertised; for status it is there, but *)
(* its provider is not.                                                    *)
LookUp(t) ==
  /\ At(t, "advertised") /\ thread[t].read \in {"ok", "failed"} /\ Own(t) \in External
  /\ \/ Advertised(t) = "yes" /\ Forward(t)
     \/ Advertised(t) = "unchecked" /\ Finish(t, "unavailable")
     \/ /\ Advertised(t) = "no"
        /\ Finish(t, IF Tail(thread[t].path) = <<>> THEN "unavailable" ELSE "unlisted")
  /\ UNCHANGED <<backends, manifestLock, manifests, health, worker, asks, changes>>

-----------------------------------------------------------------------------
(* _get_health, for which nothing is locked: what is remembered, or the    *)
(* worker's answer.  A call that is given up takes longer than what is     *)
(* remembered is used.  Which model the health names is left out.          *)
CallHealth(p, how) ==
  /\ how = IF worker[p].condition = "up" THEN "ok" ELSE "failed"
  /\ health' = [health EXCEPT ![p] = IF worker[p].condition = "hangs" THEN "nothing" ELSE how]

GetHealth(p, how) == CallHealth(p, how) \/ (how = health[p] /\ UNCHANGED health)

(* loaded_models leaves out a worker that cannot be asked; is_model_loaded *)
(* always asks, and fails; for list_all and status the provider is then    *)
(* not available.                                                          *)
ReadHealth(t) ==
  /\ Own(t) \in External
  /\ \E how \in {"ok", "failed"} :
       \/ /\ At(t, "scan") /\ GetHealth(Own(t), how)
          /\ Forward(t) \/ (how = "ok" /\ Finish(t, "loaded"))
       \/ /\ At(t, "available") /\ GetHealth(Own(t), how)
          /\ IF how = "ok" THEN Forward(t) ELSE Finish(t, "unavailable")
       \/ /\ At(t, "fresh") /\ CallHealth(Own(t), how)
          /\ IF how = "ok" THEN Forward(t) ELSE Finish(t, "unavailable")
  /\ UNCHANGED <<backends, manifestLock, manifests, worker, asks, changes>>

-----------------------------------------------------------------------------
(* The request to the worker, or the work in the process.  After a load or *)
(* an unload the remembered health is dropped.                             *)
InUse(t) == At(t, "use") \/ At(t, "change")

Served(t) ==
  /\ InUse(t)
  /\ IF Own(t) \in External THEN worker[Own(t)].condition = "up" ELSE TRUE
  /\ Finish(t, "done")
  /\ IF Own(t) \in External /\ At(t, "change")
     THEN health' = [health EXCEPT ![Own(t)] = "nothing"]
     ELSE UNCHANGED health
  /\ UNCHANGED <<backends, manifestLock, manifests, worker, asks, changes>>

(* Whatever a worker answers instead, or that it does not.                 *)
NotServed(t) ==
  /\ InUse(t)
  /\ Finish(t, "failed")
  /\ UNCHANGED <<backends, manifestLock, manifests, health, worker, asks, changes>>

Serve(t) ==
  \/ Enter(t) \/ Queue(t) \/ InProcess(t) \/ ReadManifests(t) \/ ManifestAnswer(t)
  \/ ChooseBackend(t) \/ UseManifest(t) \/ LookUp(t) \/ ReadHealth(t)
  \/ Served(t) \/ NotServed(t)

-----------------------------------------------------------------------------
Register(b) ==
  /\ routerLock = Nobody /\ b \notin backends
  /\ backends' = backends \cup {b}
  /\ UNCHANGED <<locks, manifests, health, thread, denied, worker, asks, changes>>

(* A worker breaks, hangs, or comes up, perhaps with other models than     *)
(* before.                                                                 *)
WorkerChanges(p) ==
  /\ changes < MaxChanges
  /\ changes' = changes + 1
  /\ \/ \E how \in {"broken", "hangs"} :
          worker' = [worker EXCEPT ![p] = [@ EXCEPT !.condition = how]]
     \/ \E more \in SUBSET Name :
          worker' = [worker EXCEPT ![p] = [condition |-> "up", catalog |-> Kept \cup more]]
  /\ UNCHANGED <<backends, locks, manifests, health, thread, denied, asks>>

RoutingNext ==
  \/ \E t \in Thread : Serve(t) \/ \E op \in Operation, m \in ModelId : AskFor(t, op, m)
  \/ \E b \in Local : Register(b)
  \/ \E p \in External : WorkerChanges(p)

(* Threads run on, and no call to a worker outlives its timeout.           *)
RoutingFairness == WF_routingVars(\E t \in Thread : Serve(t))

-----------------------------------------------------------------------------
(* A model that its worker offers at all times is never said to be unknown *)
(* and never missing from the list: a worker that is down, hangs or comes  *)
(* back makes it unavailable, so that its requests are not taken for       *)
(* requests to other models (tts/external.py:244-260, router.py:122).      *)
KeptStaysKnown ==
  \A m \in denied : ~(m.backend \in External /\ m.name \in Kept)

(* Every request is answered: three kinds of locks, one of them held while *)
(* a worker is asked, keep nobody waiting for ever (router.py:57,          *)
(* external.py:182).                                                       *)
AllAnswered == []<>(\A t \in Thread : thread[t].path = <<>>)
=============================================================================
