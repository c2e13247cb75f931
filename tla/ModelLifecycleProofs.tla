------------------------ MODULE ModelLifecycleProofs ------------------------
(***************************************************************************)
(* What ModelLifecycle promises for any models, providers and requests:    *)
(* types, models in use that stay loaded, one model per worker, files for  *)
(* every Piper voice in memory, progress entries that end with their       *)
(* operation, and models that an operation took out and brings back.       *)
(*                                                                         *)
(* Whatever loads or unloads a model does so through Load, FailLoad,       *)
(* Unload or FailUnload, and each keeps what Memory says as long as no     *)
(* request holds the provider's lock; the lemmas about them are the heart  *)
(* of the proof.                                                           *)
(***************************************************************************)
EXTENDS ModelLifecycle, FiniteSetTheorems, TLAPS

MemoryOK == loaded \subseteq Model /\ old \subseteq loaded /\ files \subseteq Model

UseOK == use \in [User -> [at : {"asked", "using", "done"}, model : Model]]

Memory == MemoryOK /\ InUseLoaded /\ OnePerWorker /\ PiperOnDisk

OpType ==
  [pc : {"idle", "evict", "check", "load", "unload", "settle", "restore", "status",
         "delete"},
   scan : SUBSET Provider, found : SUBSET Model, evicted : SUBSET Model,
   before : SUBSET Model, stale : SUBSET Model, was : BOOLEAN, ok : BOOLEAN,
   taken : SUBSET Model, misread : SUBSET Model]

PassType ==
  [pc : {"off", "ttl", "lru"}, scan : SUBSET Provider, found : SUBSET Model, count : Nat]

ProgressType ==
  [Model -> {"none", "queued", "loading", "downloading", "ready", "downloaded"}]

OpOK == op \in OpType /\ (op.pc # "idle" => line # <<>>)

LineOK == line \in Seq([kind : Kind, model : Model])

BoundOK == failures \in 0..MaxFailures

PassOK == pass \in PassType

ProgressOK == progress \in ProgressType

MemoryInv == UseOK /\ Memory /\ BoundOK

ApiInv == OpOK /\ LineOK /\ requests \in 0..MaxRequests /\ ProgressOK /\ InFlight

(* The types in parts, so that a step is asked only for what it touches. *)
Inv == MemoryInv /\ ApiInv /\ PassOK

LEMMA InvIsTyped == Inv <=> TypeOK /\ InUseLoaded /\ OnePerWorker /\ PiperOnDisk /\ InFlight
BY DEF Inv, MemoryInv, ApiInv, TypeOK, Memory, MemoryOK, UseOK, OpOK, OpType, LineOK,
       BoundOK, PassOK, PassType, ProgressOK, ProgressType

-----------------------------------------------------------------------------
(* A load gives up models of the same provider only, none of them in use. *)
LEMMA LoadKeeps ==
  ASSUME UseOK, Memory, UNCHANGED use, NEW m \in Model, ~Held(At[m]), Load(m)
  PROVE  Memory'
<1> USE DEF UseOK, Memory, Mates, Stored
<1>1. MemoryOK'
  <2>1. m \in loaded => Mates(m) = {}
    BY DEF OnePerWorker, MemoryOK
  <2> QED BY <2>1 DEF MemoryOK, Load
<1>2. InUseLoaded'
  <2> SUFFICES ASSUME NEW u \in User, use[u].at = "using"
               PROVE  use[u].model \in loaded'
    BY DEF InUseLoaded
  <2>1. use[u].model \in loaded /\ At[use[u].model] # At[m]
    BY DEF InUseLoaded, Held
  <2> QED BY <2>1 DEF Load
<1>3. OnePerWorker'
  BY DEF Load, OnePerWorker
<1>4. PiperOnDisk'
  BY DEF Load, PiperOnDisk
<1> QED BY <1>1, <1>2, <1>3, <1>4

LEMMA FailLoadKeeps ==
  ASSUME UseOK, Memory, BoundOK, UNCHANGED use, NEW m \in Model, ~Held(At[m]), FailLoad(m)
  PROVE  Memory' /\ BoundOK'
<1>1. PICK gone \in {{}, Mates(m)} : loaded' = loaded \ gone /\ old' = old \ gone
  BY DEF FailLoad
<1>2. \A x \in gone : At[x] = At[m]
  BY DEF Mates
<1>3. MemoryOK'
  BY <1>1 DEF Memory, MemoryOK, FailLoad, Stored
<1>4. InUseLoaded'
  <2> SUFFICES ASSUME NEW u \in User, use[u].at = "using"
               PROVE  use[u].model \in loaded'
    BY DEF InUseLoaded
  <2>1. use[u].model \in loaded /\ At[use[u].model] # At[m]
    BY DEF InUseLoaded, Held, Memory
  <2> QED BY <1>1, <1>2, <2>1
<1>5. OnePerWorker'
  BY <1>1 DEF Memory, OnePerWorker
<1>6. PiperOnDisk'
  BY <1>1 DEF Memory, PiperOnDisk, FailLoad, Stored
<1>7. BoundOK'
  BY BoundAssumption DEF BoundOK, FailLoad
<1> QED BY <1>3, <1>4, <1>5, <1>6, <1>7 DEF Memory

(* An unload takes one model, and nobody uses its provider. *)
LEMMA UnloadKeeps ==
  ASSUME UseOK, Memory, BoundOK, UNCHANGED use, NEW m \in Model, ~Held(At[m]),
         Unload(m) \/ FailUnload(m)
  PROVE  Memory' /\ BoundOK'
<1>1. CASE Unload(m)
  <2>1. MemoryOK'
    BY <1>1 DEF Memory, MemoryOK, Unload
  <2>2. InUseLoaded'
    <3> SUFFICES ASSUME NEW u \in User, use[u].at = "using"
                 PROVE  use[u].model \in loaded'
      BY DEF InUseLoaded
    <3>1. use[u].model \in loaded /\ At[use[u].model] # At[m]
      BY DEF InUseLoaded, Held, Memory
    <3> QED BY <1>1, <3>1 DEF Unload
  <2>3. OnePerWorker'
    BY <1>1 DEF Memory, OnePerWorker, Unload
  <2>4. PiperOnDisk'
    BY <1>1 DEF Memory, PiperOnDisk, Unload
  <2>5. BoundOK'
    BY <1>1 DEF BoundOK, Unload
  <2> QED BY <2>1, <2>2, <2>3, <2>4, <2>5 DEF Memory
<1>2. CASE FailUnload(m)
  <2>1. Memory'
    BY <1>2 DEF FailUnload, memory, Memory, MemoryOK, InUseLoaded, OnePerWorker, PiperOnDisk
  <2>2. BoundOK'
    BY <1>2, BoundAssumption DEF FailUnload, BoundOK
  <2> QED BY <2>1, <2>2
<1> QED BY <1>1, <1>2

LEMMA MemoryUnchanged ==
  ASSUME Memory, UNCHANGED <<memory, use>>
  PROVE  Memory'
BY DEF memory, Memory, MemoryOK, InUseLoaded, OnePerWorker, PiperOnDisk

-----------------------------------------------------------------------------
LEMMA TailFacts ==
  ASSUME NEW S, NEW s \in Seq(S), s # <<>>
  PROVE  /\ Head(s) = s[1] /\ Head(s) \in S
         /\ Tail(s) \in Seq(S)
         /\ \A i \in DOMAIN s : i # 1 =>
              i - 1 \in DOMAIN Tail(s) /\ Tail(s)[i - 1] = s[i]
<1>1. Head(s) = s[1] /\ Head(s) \in S
  OBVIOUS
<1>2. Tail(s) \in Seq(S) /\ Len(Tail(s)) = Len(s) - 1
  OBVIOUS
<1>3. \A k \in 1..Len(Tail(s)) : Tail(s)[k] = s[k + 1]
  BY <1>2
<1>4. ASSUME NEW i \in DOMAIN s, i # 1
      PROVE  i - 1 \in DOMAIN Tail(s) /\ Tail(s)[i - 1] = s[i]
  <2>1. DOMAIN s = 1..Len(s) /\ DOMAIN Tail(s) = 1..Len(Tail(s))
    BY <1>2
  <2>2. i - 1 \in 1..Len(Tail(s)) /\ (i - 1) + 1 = i
    BY <1>2, <1>4, <2>1
  <2> QED BY <1>3, <2>1, <2>2
<1> QED BY <1>1, <1>2, <1>4

(* The first operation in line. *)
LEMMA HeadFacts ==
  ASSUME LineOK, line # <<>>
  PROVE  /\ Now \in [kind : Kind, model : Model]
         /\ Now = line[1]
         /\ Tail(line) \in Seq([kind : Kind, model : Model])
         /\ \A i \in DOMAIN line : i # 1 =>
              i - 1 \in DOMAIN Tail(line) /\ Tail(line)[i - 1] = line[i]
BY TailFacts DEF LineOK, Now

(* An operation that ends leaves the line with its progress entry. *)
LEMMA FinishFacts ==
  ASSUME Inv, op.pc # "idle", NEW ok \in BOOLEAN, Finish(ok)
  PROVE  ApiInv'
<1>0. line # <<>> /\ LineOK
  BY DEF Inv, ApiInv, OpOK
<1>1. Now \in [kind : Kind, model : Model]
  BY <1>0, HeadFacts
<1>2. OpOK'
  BY DEF Finish, Idle, OpOK, OpType
<1>3. LineOK'
  BY <1>0, HeadFacts DEF Finish, LineOK
<1>4. requests' \in 0..MaxRequests
  BY DEF Finish, Inv, ApiInv
<1>5. ProgressOK'
  BY <1>1 DEF Finish, Inv, ApiInv, ProgressOK, ProgressType
<1>6. InFlight'
  <2> SUFFICES ASSUME NEW m \in Model,
                      progress'[m] \in {"queued", "loading", "downloading"}
               PROVE  \E i \in DOMAIN line' :
                        line'[i].model = m /\ line'[i].kind \in {"load", "download"}
    BY DEF InFlight
  <2>1. progress'[m] = progress[m] /\ ~(Now.model = m /\ Now.kind \in {"load", "download"})
    BY <1>1 DEF Finish, Inv, ApiInv, ProgressOK, ProgressType
  <2>2. PICK i \in DOMAIN line :
          line[i].model = m /\ line[i].kind \in {"load", "download"}
    BY <2>1 DEF Inv, ApiInv, InFlight
  <2>3. i # 1
    BY <1>0, <2>1, <2>2, HeadFacts
  <2>4. i - 1 \in DOMAIN line' /\ line'[i - 1] = line[i]
    BY <1>0, <2>3, HeadFacts DEF Finish
  <2> QED BY <2>2, <2>4
<1> QED BY <1>2, <1>3, <1>4, <1>5, <1>6 DEF ApiInv

LEMMA ApiUnchanged ==
  ASSUME Inv, UNCHANGED api, op' \in OpType, op.pc # "idle" \/ op'.pc = "idle"
  PROVE  ApiInv'
BY DEF Inv, ApiInv, api, OpOK, LineOK, ProgressOK, InFlight

(* What follows a load or an unload of the operation. *)
LEMMA TakenTyped ==
  ASSUME Inv, NEW m
  PROVE  Taken(m) \in SUBSET Model
BY DEF Taken, Inv, MemoryInv, ApiInv, OpOK, OpType, Memory, MemoryOK

(* An operation that goes on leaves the API's state alone. *)
LEMMA OpUnchanged ==
  ASSUME Inv, UNCHANGED <<api, op>>
  PROVE  ApiInv'
BY DEF Inv, ApiInv, api, OpOK, LineOK, ProgressOK, InFlight

LEMMA ListingTyped ==
  ASSUME NEW t, NEW pc
  PROVE  /\ t \in OpType /\ pc \in {"evict", "check", "settle", "status"} =>
              Listing(t, pc) \in OpType /\ Listing(t, pc).pc = pc
         /\ t \in PassType /\ pc \in {"ttl", "lru"} => Listing(t, pc) \in PassType
BY DEF Listing, OpType, PassType

LEMMA ScannedTyped ==
  ASSUME NEW t, NEW S, S \subseteq Model
  PROVE  /\ t \in OpType => Scanned(t, S) \in OpType /\ Scanned(t, S).pc = t.pc
         /\ t \in PassType => Scanned(t, S) \in PassType
BY DEF Scanned, There, OpType, PassType

LEMMA LoadedKeeps ==
  ASSUME Inv, MemoryInv', op.pc = "load", NEW ok \in BOOLEAN, Loaded(ok)
  PROVE  ApiInv'
<1>1. Taken(Now.model) \in SUBSET Model /\ op \in OpType
  BY TakenTyped DEF Inv, ApiInv, OpOK
<1>2. CASE Now.kind = "load" /\ ok
  BY <1>2, FinishFacts DEF Loaded
<1>3. CASE Now.kind = "load" /\ ~ok
  <2>1. \A T \in SUBSET Model :
          [op EXCEPT !.pc = "restore", !.ok = FALSE, !.taken = T] \in OpType
    BY <1>1 DEF OpType
  <2>2. op' = [op EXCEPT !.pc = "restore", !.ok = FALSE, !.taken = Taken(Now.model)]
    BY <1>3 DEF Loaded
  <2>3. op' \in OpType
    BY <1>1, <2>1, <2>2
  <2> QED BY <1>3, <2>3, ApiUnchanged DEF Loaded
<1>4. CASE Now.kind # "load"
  <2>1. op' \in OpType
    <3> DEFINE next == IF ok /\ ~op.was THEN [op EXCEPT !.pc = "unload"]
                       ELSE Listing(op, "settle")
    <3>1. next \in OpType
      <4>1. [op EXCEPT !.pc = "unload"] \in OpType
        BY <1>1 DEF OpType
      <4>2. Listing(op, "settle") \in OpType
        BY <1>1, ListingTyped
      <4> QED BY <4>1, <4>2
    <3>2. op' = [next EXCEPT !.ok = ok, !.taken = Taken(Now.model), !.stale = Stale(ok)]
      BY <1>4 DEF Loaded
    <3>3. Stale(ok) \in SUBSET Model
      BY DEF Stale, Inv, MemoryInv, Memory, MemoryOK
    <3> HIDE DEF next
    <3> QED BY <1>1, <3>1, <3>2, <3>3 DEF OpType
  <2> QED BY <1>4, <2>1, ApiUnchanged DEF Loaded
<1> QED BY <1>2, <1>3, <1>4

LEMMA UnloadedKeeps ==
  ASSUME Inv, op.pc = "unload", NEW ok \in BOOLEAN, Unloaded(ok)
  PROVE  ApiInv'
<1>1. op \in OpType
  BY DEF Inv, ApiInv, OpOK
<1>2. CASE Now.kind = "unload"
  BY <1>2, FinishFacts DEF Unloaded
<1>3. CASE Now.kind = "download"
  <2>1. Listing(op, "settle") \in OpType
    BY <1>1, ListingTyped
  <2>2. op' \in OpType
    BY <1>3, <2>1 DEF Unloaded, OpType
  <2> QED BY <1>3, <2>2, ApiUnchanged DEF Unloaded
<1>4. CASE Now.kind \notin {"unload", "download"}
  <2>1. op' \in OpType
    BY <1>1, <1>4 DEF Unloaded, OpType
  <2> QED BY <1>4, <2>1, ApiUnchanged DEF Unloaded
<1> QED BY <1>2, <1>3, <1>4

-----------------------------------------------------------------------------
(* The steps of the operation that runs. *)

(* A step that does no more than ask a worker, perhaps in vain. *)
Asking == UNCHANGED failures \/ \E p \in Worker : Unanswered(p)

LEMMA MemoryKept ==
  ASSUME Inv, UNCHANGED <<memory, use>>, Asking
  PROVE  MemoryInv'
<1>1. BoundOK'
  BY BoundAssumption DEF Asking, Unanswered, Inv, MemoryInv, BoundOK
<1> QED BY <1>1, MemoryUnchanged DEF Inv, MemoryInv, UseOK

LEMMA BeginKeeps ==
  ASSUME Inv, Begin
  PROVE  Inv'
<1>1. MemoryInv'
  BY MemoryKept DEF Begin, Asking
<1>2. line # <<>> /\ op.pc = "idle" /\ op \in OpType /\ LineOK /\ ProgressOK /\ InFlight
  BY DEF Begin, Inv, ApiInv, OpOK
<1>3. Now \in [kind : Kind, model : Model] /\ Now = line[1] /\ 1 \in DOMAIN line
  BY <1>2, HeadFacts DEF LineOK
<1>4. op' \in OpType
  <2>1. \A pc \in {"evict", "check", "status"} : Listing(op, pc) \in OpType
    BY <1>2, ListingTyped
  <2>2. \A pc \in {"unload", "delete"} : [op EXCEPT !.pc = pc] \in OpType
    BY <1>2 DEF OpType
  <2> QED BY <2>1, <2>2 DEF Begin
<1>5. OpOK' /\ LineOK'
  BY <1>2, <1>4 DEF Begin, OpOK, LineOK
<1>6. ProgressOK'
  BY <1>2, <1>3 DEF Begin, ProgressOK, ProgressType
<1>7. InFlight'
  <2> SUFFICES ASSUME NEW m \in Model,
                      progress'[m] \in {"queued", "loading", "downloading"}
               PROVE  \E i \in DOMAIN line :
                        line[i].model = m /\ line[i].kind \in {"load", "download"}
    BY DEF InFlight, Begin
  <2>1. CASE progress'[m] = progress[m]
    BY <1>2, <2>1 DEF InFlight
  <2>2. CASE progress'[m] # progress[m]
    <3>1. Now.model = m /\ Now.kind \in {"load", "download"}
      BY <1>2, <2>2 DEF Begin, ProgressOK, ProgressType
    <3> QED BY <1>3, <3>1
  <2> QED BY <2>1, <2>2
<1>8. PassOK' /\ requests' \in 0..MaxRequests
  BY DEF Begin, Inv, ApiInv, PassOK
<1> QED BY <1>1, <1>5, <1>6, <1>7, <1>8 DEF Inv, ApiInv

(* Steps that only move the operation on. *)
LEMMA MovesOn ==
  ASSUME Inv, UNCHANGED <<memory, use, api, pass>>, Asking,
         op' \in OpType, op.pc # "idle" \/ op'.pc = "idle"
  PROVE  Inv'
<1>1. MemoryInv' /\ ApiInv'
  BY MemoryKept, ApiUnchanged
<1>2. PassOK'
  BY DEF Inv, PassOK
<1> QED BY <1>1, <1>2 DEF Inv

LEMMA OpScanKeeps ==
  ASSUME Inv, OpScan
  PROVE  Inv' /\ op'.pc = op.pc
<1>1. op \in OpType /\ loaded \subseteq Model
  BY DEF Inv, ApiInv, OpOK, MemoryInv, Memory, MemoryOK
<1>2. Wanted \subseteq Model /\ op.stale \subseteq Model /\ op.misread \subseteq Model
  BY <1>1 DEF Wanted, OpType
<1>3. op' \in OpType /\ op'.pc = op.pc /\ Asking
  <2>1. \A S \in SUBSET Model : Scanned(op, S) \in OpType /\ Scanned(op, S).pc = op.pc
    BY <1>1, ScannedTyped
  <2>2. \A t \in OpType, S \in SUBSET Model :
          /\ [t EXCEPT !.misread = @ \union There(op, S)] \in OpType
          /\ [t EXCEPT !.misread = @ \union There(op, S)].pc = t.pc
    BY DEF OpType, There
  <2>3. CASE op' = Scanned(op, Wanted) /\ UNCHANGED failures
    BY <1>2, <2>1, <2>3 DEF Asking
  <2>4. CASE /\ Unanswered(Visited(op))
             /\ op' = [Scanned(op, {}) EXCEPT !.misread = @ \union There(op, Wanted)]
    <3>1. Asking
      BY <2>4 DEF Asking, Unanswered
    <3> QED BY <1>2, <2>1, <2>2, <2>4, <3>1
  <2>5. CASE /\ op' = [Scanned(op, op.stale) EXCEPT !.misread = @ \union There(op, op.stale)]
             /\ UNCHANGED failures
    BY <1>2, <2>1, <2>2, <2>5 DEF Asking
  <2> QED BY <2>3, <2>4, <2>5 DEF OpScan
<1> QED BY <1>3, MovesOn DEF OpScan

LEMMA LoadModelKeeps ==
  ASSUME Inv, LoadModel
  PROVE  Inv'
<1>1. Now.model \in Model /\ op.pc = "load" /\ ~Held(At[Now.model]) /\ UNCHANGED use
  BY HeadFacts DEF LoadModel, Inv, ApiInv, OpOK
<1>2. PassOK' /\ UseOK'
  BY DEF LoadModel, Inv, MemoryInv, PassOK, UseOK
<1>3. CASE Load(Now.model) /\ Loaded(TRUE) /\ UNCHANGED failures
  <2>1. MemoryInv'
    BY <1>1, <1>2, <1>3, LoadKeeps DEF Inv, MemoryInv, BoundOK
  <2> QED BY <1>1, <1>2, <1>3, <2>1, LoadedKeeps DEF Inv
<1>4. CASE FailLoad(Now.model) /\ Loaded(FALSE)
  <2>1. MemoryInv'
    BY <1>1, <1>2, <1>4, FailLoadKeeps DEF Inv, MemoryInv
  <2> QED BY <1>1, <1>2, <1>4, <2>1, LoadedKeeps DEF Inv
<1> QED BY <1>3, <1>4 DEF LoadModel

LEMMA UnloadModelKeeps ==
  ASSUME Inv, UnloadModel
  PROVE  Inv'
<1>1. Now.model \in Model /\ op.pc = "unload" /\ ~Held(At[Now.model]) /\ UNCHANGED use
  BY HeadFacts DEF UnloadModel, Inv, ApiInv, OpOK
<1>2. PassOK' /\ UseOK'
  BY DEF UnloadModel, Inv, MemoryInv, PassOK, UseOK
<1>3. PICK ok \in BOOLEAN :
        (Unload(Now.model) \/ FailUnload(Now.model)) /\ Unloaded(ok)
  BY DEF UnloadModel
<1>4. MemoryInv'
  BY <1>1, <1>2, <1>3, UnloadKeeps DEF Inv, MemoryInv
<1> QED BY <1>1, <1>2, <1>3, <1>4, UnloadedKeeps DEF Inv

LEMMA EvictOtherKeeps ==
  ASSUME Inv, NEW m \in Model, EvictOther(m)
  PROVE  Inv'
<1>1. UNCHANGED <<use, api, pass>> /\ ~Held(At[m]) /\ op.pc = "evict" /\ op \in OpType
  BY DEF EvictOther, Inv, ApiInv, OpOK
<1>2. PassOK' /\ UseOK'
  BY <1>1 DEF Inv, MemoryInv, PassOK, UseOK
<1>3. MemoryInv'
  <2>1. Unload(m) \/ FailUnload(m)
    BY DEF EvictOther
  <2> QED BY <1>1, <1>2, <2>1, UnloadKeeps DEF Inv, MemoryInv
<1>4. Taken(m) \in SUBSET Model
  BY TakenTyped
<1>5. op' \in OpType
  <2>1. [op EXCEPT !.evicted = @ \union {m}, !.taken = Taken(m)] \in OpType
    BY <1>1, <1>4 DEF OpType
  <2>2. [op EXCEPT !.pc = "restore", !.found = {}, !.ok = FALSE] \in OpType
    BY <1>1 DEF OpType
  <2> QED BY <2>1, <2>2 DEF EvictOther
<1> QED BY <1>1, <1>2, <1>3, <1>5, ApiUnchanged DEF Inv

LEMMA RestoreKeeps ==
  ASSUME Inv, NEW m \in Model, Restore(m)
  PROVE  Inv'
<1>1. UNCHANGED <<use, api, pass>> /\ ~Held(At[m]) /\ op.pc = "restore" /\ op \in OpType
  BY DEF Restore, Inv, ApiInv, OpOK
<1>2. PassOK' /\ UseOK'
  BY <1>1 DEF Inv, MemoryInv, PassOK, UseOK
<1>3. MemoryInv'
  <2>1. CASE Load(m) /\ UNCHANGED failures
    BY <1>1, <1>2, <2>1, LoadKeeps DEF Inv, MemoryInv, BoundOK
  <2>2. CASE FailLoad(m)
    BY <1>1, <1>2, <2>2, FailLoadKeeps DEF Inv, MemoryInv
  <2> QED BY <2>1, <2>2 DEF Restore
<1>4. Taken(m) \in SUBSET Model
  BY TakenTyped
<1>5. op' \in OpType
  BY <1>1, <1>4 DEF Restore, OpType
<1> QED BY <1>1, <1>2, <1>3, <1>5, ApiUnchanged DEF Inv

LEMMA DeleteKeeps ==
  ASSUME Inv, DeleteArtifacts
  PROVE  Inv'
<1> DEFINE m == Now.model
<1>1. m \in Model /\ op.pc = "delete" /\ UNCHANGED <<use, failures, pass>> /\ Finish(TRUE)
  BY HeadFacts DEF DeleteArtifacts, Inv, ApiInv, OpOK
<1>2. PassOK' /\ UseOK' /\ BoundOK'
  BY <1>1 DEF Inv, MemoryInv, PassOK, UseOK, BoundOK
<1>3. Memory /\ UseOK
  BY DEF Inv, MemoryInv
<1>4. Memory'
  <2>1. CASE At[m] \in Piper
    <3>1. ~Held(At[m]) /\ loaded' = loaded \ {m} /\ old' = old \ {m} /\ files' = files \ {m}
      BY <2>1 DEF DeleteArtifacts
    <3> HIDE DEF m
    <3>2. InUseLoaded'
      <4> SUFFICES ASSUME NEW u \in User, use[u].at = "using"
                   PROVE  use[u].model \in loaded'
        BY <1>1 DEF InUseLoaded
      <4>1. use[u].model \in loaded /\ At[use[u].model] # At[m]
        BY <1>3, <3>1 DEF InUseLoaded, Held, Memory
      <4> QED BY <3>1, <4>1
    <3>3. MemoryOK' /\ OnePerWorker' /\ PiperOnDisk'
      BY <1>3, <3>1 DEF Memory, MemoryOK, OnePerWorker, PiperOnDisk
    <3> QED BY <3>2, <3>3 DEF Memory
  <2>2. CASE At[m] \notin Piper
    <3>1. UNCHANGED <<loaded, old>> /\ files' = files \ {m}
      BY <2>2 DEF DeleteArtifacts
    <3> HIDE DEF m
    <3> QED BY <1>1, <1>3, <2>2, <3>1
            DEF Memory, MemoryOK, InUseLoaded, OnePerWorker, PiperOnDisk
  <2> QED BY <2>1, <2>2
<1>5. ApiInv'
  BY <1>1, FinishFacts
<1> QED BY <1>2, <1>4, <1>5 DEF Inv, MemoryInv

LEMMA OpStepKeeps ==
  ASSUME Inv, OpNext
  PROVE  Inv'
<1>1. op \in OpType
  BY DEF Inv, ApiInv, OpOK
<1>2. CASE RefuseLoad
  <2>1. UNCHANGED <<memory, use, pass>> /\ op.pc = "evict" /\ Finish(FALSE)
    BY <1>2 DEF RefuseLoad
  <2>2. MemoryInv' /\ PassOK'
    <3>1. BoundOK'
      BY <1>2, BoundAssumption DEF RefuseLoad, Inv, MemoryInv, BoundOK
    <3> QED BY <2>1, <3>1, MemoryUnchanged DEF Inv, MemoryInv, UseOK, PassOK
  <2> QED BY <2>1, <2>2, FinishFacts DEF Inv
<1>3. CASE EvictDone
  <2>1. op' \in OpType
    BY <1>1, <1>3 DEF EvictDone, OpType
  <2> QED BY <1>3, <2>1, MovesOn DEF EvictDone, Asking
<1>4. CASE Check
  <2>1. PICK was \in BOOLEAN :
          /\ op' = [op EXCEPT !.pc = "load", !.before = op.found, !.found = {}, !.was = was]
          /\ UNCHANGED failures \/ Unanswered(At[Now.model])
    BY <1>4 DEF Check
  <2>2. op' \in OpType
    BY <1>1, <2>1 DEF OpType
  <2>3. Asking
    BY <2>1 DEF Asking, Unanswered
  <2> QED BY <1>4, <2>2, <2>3, MovesOn DEF Check
<1>5. CASE Settle
  <2>1. op' \in OpType
    BY <1>1, <1>5 DEF Settle, OpType
  <2> QED BY <1>5, <2>1, MovesOn DEF Settle, Asking
<1>6. CASE Status
  <2>1. op' \in OpType
    BY <1>1, <1>6 DEF Status, OpType
  <2> QED BY <1>6, <2>1, MovesOn DEF Status, Asking
<1>7. CASE RestoreDone
  <2>1. /\ UNCHANGED <<memory, use, failures, pass>> /\ op.pc = "restore"
        /\ Finish(op.ok) /\ op.ok \in BOOLEAN
    BY <1>1, <1>7 DEF RestoreDone, OpType
  <2>2. PassOK'
    BY <2>1 DEF Inv, PassOK
  <2> QED BY <2>1, <2>2, MemoryKept, FinishFacts DEF Inv, Asking
<1>8. CASE \E m \in Model : EvictOther(m) \/ Restore(m)
  BY <1>8, EvictOtherKeeps, RestoreKeeps
<1> QED BY <1>2, <1>3, <1>4, <1>5, <1>6, <1>7, <1>8, BeginKeeps, OpScanKeeps,
           LoadModelKeeps, UnloadModelKeeps, DeleteKeeps DEF OpNext

-----------------------------------------------------------------------------
(* The steps of requests, of the API's callers and of the eviction pass. *)

LEMMA BeginUseKeeps ==
  ASSUME Inv, NEW u \in User, BeginUse(u)
  PROVE  Inv'
<1> DEFINE m == use[u].model
<1>1. UseOK /\ Memory /\ BoundOK /\ use[u] \in [at : {"asked", "using", "done"}, model : Model]
  BY DEF Inv, MemoryInv, UseOK
<1>2. m \in Model
  BY <1>1
<1>3. ApiInv' /\ PassOK'
  <2>1. UNCHANGED <<api, op, pass>>
    BY DEF BeginUse
  <2> QED BY <2>1, OpUnchanged DEF Inv, PassOK
<1>4. PICK at \in {"using", "done"} : use' = [use EXCEPT ![u].at = at]
  BY DEF BeginUse
<1>5. UseOK'
  BY <1>1, <1>4 DEF UseOK
<1>6. \A v \in User : v # u => use'[v] = use[v]
  BY <1>1, <1>4 DEF UseOK
<1>7. use'[u].at = at /\ use'[u].model = m
  BY <1>1, <1>4 DEF UseOK
<1>8. CASE At[m] \notin Worker /\ UNCHANGED failures
             /\ loaded' = loaded \union {m} /\ old' = old \ {m}
             /\ files' = files \union Stored(m)
  <2> HIDE DEF m
  <2>1. MemoryOK' /\ OnePerWorker' /\ PiperOnDisk'
    BY <1>1, <1>2, <1>8 DEF Memory, MemoryOK, OnePerWorker, PiperOnDisk, Stored
  <2>2. InUseLoaded'
    BY <1>1, <1>6, <1>7, <1>8 DEF Memory, InUseLoaded
  <2> QED BY <1>1, <1>3, <1>5, <1>8, <2>1, <2>2 DEF Inv, MemoryInv, Memory, BoundOK
<1>9. CASE At[m] \notin Worker /\ use' = [use EXCEPT ![u].at = "done"] /\ FailLoad(m)
  <2>1. use'[u].at = "done"
    BY <1>1, <1>9 DEF UseOK
  <2>2. /\ loaded' = loaded /\ old' = old /\ BoundOK'
        /\ files \subseteq files' /\ files' \subseteq Model
    BY <1>1, <1>2, <1>9, BoundAssumption
    DEF FailLoad, Mates, BoundOK, Stored, Memory, MemoryOK
  <2> HIDE DEF m
  <2>3. InUseLoaded'
    BY <1>1, <1>6, <2>1, <2>2 DEF Memory, InUseLoaded
  <2>4. MemoryOK' /\ OnePerWorker' /\ PiperOnDisk'
    BY <1>1, <2>2 DEF Memory, MemoryOK, OnePerWorker, PiperOnDisk
  <2> QED BY <1>3, <1>5, <2>2, <2>3, <2>4 DEF Inv, MemoryInv, Memory
<1>10. CASE At[m] \in Worker
  <2>1. /\ UNCHANGED <<loaded, files, failures>> /\ old' = {x \in old : At[x] # At[m]}
        /\ use' = [use EXCEPT ![u].at = IF m \in loaded THEN "using" ELSE "done"]
    BY <1>10 DEF BeginUse
  <2>2. use'[u].at = "using" => m \in loaded
    BY <1>1, <2>1 DEF UseOK
  <2> HIDE DEF m
  <2>3. InUseLoaded'
    BY <1>1, <1>6, <1>7, <2>1, <2>2 DEF Memory, InUseLoaded
  <2>4. MemoryOK' /\ OnePerWorker' /\ PiperOnDisk'
    BY <1>1, <2>1 DEF Memory, MemoryOK, OnePerWorker, PiperOnDisk
  <2>5. BoundOK'
    BY <1>1, <2>1 DEF BoundOK
  <2> QED BY <1>3, <1>5, <2>3, <2>4, <2>5 DEF Inv, MemoryInv, Memory
<1> QED BY <1>8, <1>9, <1>10 DEF BeginUse

LEMMA EndUseKeeps ==
  ASSUME Inv, NEW u \in User, EndUse(u)
  PROVE  Inv'
<1>1. UseOK /\ Memory /\ BoundOK
  BY DEF Inv, MemoryInv
<1>2. /\ use' = [use EXCEPT ![u].at = "done"] /\ old' \subseteq old
      /\ UNCHANGED <<loaded, files, api, failures, op, pass>>
  BY DEF EndUse
<1>3. UseOK' /\ \A v \in User : use'[v].at = "using" => v # u /\ use'[v] = use[v]
  BY <1>1, <1>2 DEF UseOK
<1>4. Memory'
  BY <1>1, <1>2, <1>3 DEF Memory, MemoryOK, InUseLoaded, OnePerWorker, PiperOnDisk
<1>5. ApiInv' /\ PassOK' /\ BoundOK'
  BY <1>1, <1>2, OpUnchanged DEF Inv, PassOK, BoundOK
<1> QED BY <1>3, <1>4, <1>5 DEF Inv, MemoryInv

LEMMA AgeKeeps ==
  ASSUME Inv, NEW m \in Model, Age(m)
  PROVE  Inv'
<1>1. UseOK /\ Memory /\ BoundOK
  BY DEF Inv, MemoryInv
<1>2. Memory' /\ UseOK' /\ BoundOK'
  BY <1>1 DEF Age, UseOK, BoundOK, Memory, MemoryOK, InUseLoaded, OnePerWorker, PiperOnDisk
<1>3. UNCHANGED <<api, op, pass>>
  BY DEF Age
<1>4. ApiInv' /\ PassOK'
  BY <1>3, OpUnchanged DEF Inv, PassOK
<1> QED BY <1>2, <1>4 DEF Inv, MemoryInv

LEMMA AskKeeps ==
  ASSUME Inv, NEW kind \in Kind, NEW m \in Model, Ask(kind, m)
  PROVE  Inv'
<1> DEFINE new == [kind |-> kind, model |-> m]
<1>1. LineOK /\ ProgressOK /\ InFlight /\ OpOK /\ requests \in 0..MaxRequests
  BY DEF Inv, ApiInv
<1>2. MemoryInv' /\ PassOK'
  BY MemoryKept DEF Ask, Inv, PassOK, Asking
<1>3. /\ line' = Append(line, new) /\ op' = op
      /\ requests < MaxRequests /\ requests' = requests + 1
      /\ progress' = IF kind \in {"load", "download"}
                     THEN [progress EXCEPT ![m] = "queued"] ELSE progress
  BY DEF Ask
<1>4. new \in [kind : Kind, model : Model] /\ new.kind = kind /\ new.model = m
  OBVIOUS
<1> HIDE DEF new
<1>5. /\ LineOK' /\ line' # <<>>
      /\ \A i \in DOMAIN line : i \in DOMAIN line' /\ line'[i] = line[i]
      /\ Len(line) + 1 \in DOMAIN line' /\ line'[Len(line) + 1] = new
  BY <1>1, <1>3, <1>4 DEF LineOK
<1>6. OpOK' /\ requests' \in 0..MaxRequests /\ ProgressOK'
  BY <1>1, <1>3, <1>5, BoundAssumption DEF OpOK, ProgressOK, ProgressType
<1>7. InFlight'
  <2> SUFFICES ASSUME NEW n \in Model,
                      progress'[n] \in {"queued", "loading", "downloading"}
               PROVE  \E i \in DOMAIN line' :
                        line'[i].model = n /\ line'[i].kind \in {"load", "download"}
    BY DEF InFlight
  <2>1. CASE n = m /\ kind \in {"load", "download"}
    BY <1>4, <1>5, <2>1
  <2>2. CASE ~(n = m /\ kind \in {"load", "download"})
    <3>1. progress'[n] = progress[n]
      BY <1>1, <1>3, <2>2 DEF ProgressOK, ProgressType
    <3>2. PICK i \in DOMAIN line : line[i].model = n /\ line[i].kind \in {"load", "download"}
      BY <1>1, <3>1 DEF InFlight
    <3> QED BY <1>5, <3>2
  <2> QED BY <2>1, <2>2
<1> QED BY <1>2, <1>5, <1>6, <1>7 DEF Inv, ApiInv

(* Steps that only move the pass on. *)
LEMMA PassMovesOn ==
  ASSUME Inv, UNCHANGED <<memory, use, api, op>>, Asking, pass' \in PassType
  PROVE  Inv'
BY MemoryKept, OpUnchanged DEF Inv, PassOK

LEMMA EvictKeeps ==
  ASSUME Inv, NEW m \in Model, NEW next \in PassType, Evict(m, next)
  PROVE  Inv'
<1>1. UNCHANGED <<use, api, op>> /\ ~Held(At[m]) /\ (Unload(m) \/ FailUnload(m))
  BY DEF Evict
<1>2. PassOK'
  BY DEF Evict, PassOK, PassType, Off
<1>3. MemoryInv'
  BY <1>1, UnloadKeeps DEF Inv, MemoryInv, UseOK
<1>4. ApiInv'
  BY <1>1, OpUnchanged
<1> QED BY <1>2, <1>3, <1>4 DEF Inv

LEMMA PassStepKeeps ==
  ASSUME Inv, StartPass \/ PassNext
  PROVE  Inv'
<1>1. pass \in PassType /\ old \subseteq Model /\ loaded \subseteq Model
  BY DEF Inv, PassOK, MemoryInv, Memory, MemoryOK
<1>2. CASE StartPass
  <2>1. pass' \in PassType
    BY <1>1, <1>2, ListingTyped DEF StartPass
  <2> QED BY <1>2, <2>1, PassMovesOn DEF StartPass, Asking
<1>3. CASE PassScan
  <2>1. pass' \in PassType
    BY <1>1, <1>3, ScannedTyped DEF PassScan
  <2>2. Asking
    BY <1>3 DEF PassScan, Asking, Unanswered
  <2> QED BY <1>3, <2>1, <2>2, PassMovesOn DEF PassScan
<1>4. CASE TtlDone
  <2>1. Cardinality(Model) + 1 \in Nat /\ Listing(pass, "lru") \in PassType
    BY <1>1, ListingTyped, FS_CardinalityType, ProviderAssumption
  <2>2. pass' \in PassType
    BY <1>4, <2>1 DEF TtlDone, Off, PassType
  <2> QED BY <1>4, <2>2, PassMovesOn DEF TtlDone, Asking
<1>5. CASE LruDone
  <2>1. pass' \in PassType
    BY <1>5 DEF LruDone, Off, PassType
  <2> QED BY <1>5, <2>1, PassMovesOn DEF LruDone, Asking
<1>6. ASSUME NEW m \in Model, EvictIdle(m)
      PROVE  Inv'
  <2>1. [pass EXCEPT !.found = @ \ {m}] \in PassType
    BY <1>1 DEF PassType
  <2> QED BY <1>6, <2>1, EvictKeeps DEF EvictIdle
<1>7. ASSUME NEW m \in Model, EvictLru(m)
      PROVE  Inv'
  <2>1. Cardinality(pass.found) \in Nat /\ Listing(pass, "lru") \in PassType
    <3>1. pass.found \subseteq Model
      BY <1>1 DEF PassType
    <3>2. IsFiniteSet(pass.found)
      BY <3>1, FS_Subset, ProviderAssumption
    <3> QED BY <1>1, <3>2, ListingTyped, FS_CardinalityType
  <2>2. [Listing(pass, "lru") EXCEPT !.count = Cardinality(pass.found)] \in PassType
    BY <2>1 DEF PassType
  <2> QED BY <1>7, <2>2, EvictKeeps DEF EvictLru
<1> QED BY <1>2, <1>3, <1>4, <1>5, <1>6, <1>7 DEF PassNext

-----------------------------------------------------------------------------
LEMMA InitInv == Init => Inv
<1> SUFFICES ASSUME Init PROVE Inv
  OBVIOUS
<1>1. UseOK /\ BoundOK
  BY BoundAssumption DEF Init, UseOK, BoundOK
<1>2. MemoryOK
  BY ProviderAssumption DEF Init, MemoryOK, Stored
<1>3. InUseLoaded
  BY DEF Init, InUseLoaded
<1>4. OnePerWorker
  BY ProviderAssumption DEF Init, OnePerWorker
<1>5. PiperOnDisk
  BY DEF Init, PiperOnDisk, Stored
<1>6. LineOK /\ requests \in 0..MaxRequests
  BY BoundAssumption DEF Init, LineOK
<1>7. OpOK /\ PassOK
  BY DEF Init, Idle, Off, OpOK, OpType, PassOK, PassType
<1>8. ProgressOK /\ InFlight
  BY DEF Init, ProgressOK, ProgressType, InFlight
<1> QED BY <1>1, <1>2, <1>3, <1>4, <1>5, <1>6, <1>7, <1>8
        DEF Inv, MemoryInv, Memory, ApiInv

LEMMA NextInv == Inv /\ [Next]_vars => Inv'
<1> SUFFICES ASSUME Inv, [Next]_vars PROVE Inv'
  OBVIOUS
<1>1. CASE \E kind \in Kind, m \in Model : Ask(kind, m)
  BY <1>1, AskKeeps
<1>2. CASE \E u \in User : BeginUse(u) \/ EndUse(u)
  BY <1>2, BeginUseKeeps, EndUseKeeps
<1>3. CASE \E m \in Model : Age(m)
  BY <1>3, AgeKeeps
<1>4. CASE OpNext
  BY <1>4, OpStepKeeps
<1>5. CASE StartPass \/ PassNext
  BY <1>5, PassStepKeeps
<1>6. CASE UNCHANGED vars
  BY <1>6, MemoryKept, OpUnchanged DEF vars, Inv, PassOK, Asking
<1> QED BY <1>1, <1>2, <1>3, <1>4, <1>5, <1>6 DEF Next

(* The invariant: types with the four promises about memory and progress. *)
THEOREM Invariance == Spec => []Inv
BY InitInv, NextInv, PTL DEF Spec

(* ModelLifecycle keeps its types. *)
THEOREM TypeCorrect == Spec => []TypeOK
<1>1. Inv => TypeOK
  BY InvIsTyped
<1> QED BY <1>1, Invariance, PTL

(* However loads, first uses, deletions and eviction passes interleave, no  *)
(* request has its model taken from under it: each waits for the lock of    *)
(* the provider, and a worker gives up only what its own lock protects.     *)
THEOREM UsedModelsStay == Spec => []InUseLoaded
<1>1. Inv => InUseLoaded
  BY InvIsTyped
<1> QED BY <1>1, Invariance, PTL

(* A worker never counts two models as loaded. *)
THEOREM WorkersHoldOne == Spec => []OnePerWorker
<1>1. Inv => OnePerWorker
  BY InvIsTyped
<1> QED BY <1>1, Invariance, PTL

(* A Piper voice in memory has its files, also when it was loaded again on *)
(* first use around a deletion.                                            *)
THEOREM VoicesOnDisk == Spec => []PiperOnDisk
<1>1. Inv => PiperOnDisk
  BY InvIsTyped
<1> QED BY <1>1, Invariance, PTL

(* A progress entry that says queued, loading or downloading belongs to an *)
(* operation that still waits or runs.                                     *)
THEOREM ProgressEnds == Spec => []InFlight
<1>1. Inv => InFlight
  BY InvIsTyped
<1> QED BY <1>1, Invariance, PTL
-----------------------------------------------------------------------------
(* What an operation took out of memory.  Only operations load a model     *)
(* into a worker, and one runs at a time: while it does, what a worker     *)
(* holds is what the listing found there, what the listing was wrong       *)
(* about, the operation's own model, or what the operation brought back.   *)
Fellows(x, y) == At[x] = At[y] /\ At[y] \in Worker

OneEach(S) == \A x, y \in S : Fellows(x, y) => x = y

(* S has all that workers hold where the listing has been. *)
Listed(S) ==
  /\ S \subseteq SameType(Now.model) /\ OneEach(S)
  /\ \A x \in S, y \in op.misread : At[x] # At[y]
  /\ \A x \in loaded :
       At[x] \in Worker /\ x \in SameType(Now.model) /\ x # Now.model =>
         At[x] \in op.scan \/ x \in S \/ x \in op.misread

(* To load a model of S makes a worker give up the operation's at most. *)
Apart(S) ==
  /\ OneEach(S)
  /\ \A x \in loaded, y \in S : Fellows(x, y) => x = y \/ x = Now.model

Evicting ==
  /\ Now.kind = "load"
  /\ Listed(op.found) /\ \A x \in op.found \union op.misread : At[x] \notin op.scan
  /\ op.taken \subseteq op.evicted /\ op.evicted \subseteq op.found /\ Apart(op.evicted)
  /\ op.scan # {} => op.evicted = {}

Checking ==
  /\ Now.kind = "download" /\ op.evicted = {} /\ op.taken = {}
  /\ Listed(op.found) /\ \A x \in op.found \union op.misread : At[x] \notin op.scan

Loading ==
  \/ /\ Now.kind = "load" /\ op.taken \subseteq op.evicted
     /\ Listed(op.evicted) /\ Apart(op.evicted)
  \/ Now.kind = "download" /\ op.taken = {} /\ op.evicted = {} /\ Listed(op.before)

(* A download is over but for the models that its worker gave up for it. *)
Replacing ==
  /\ op.evicted = {} /\ Apart(op.before)
  /\ op.taken \subseteq (op.before \union op.misread) \ loaded
  /\ \A x \in op.taken : At[x] \in Worker

Settling ==
  Now.kind = "download" /\ Replacing /\ op.taken \intersect op.found \subseteq op.misread

Restoring == op.taken \subseteq op.evicted \union op.misread /\ Apart(op.evicted)

Scanning == op.scan # {} => op.pc \in {"evict", "check", "settle", "status"}

TakenInv ==
  /\ Scanning
  /\ op.pc = "idle" => op.evicted = {} /\ op.taken = {} /\ op.misread = {}
  /\ op.pc = "evict" => Evicting
  /\ op.pc = "check" => Checking
  /\ op.pc = "load" => Loading
  /\ op.pc = "unload" => Now.kind # "load" /\ (Now.kind = "download" => Replacing)
  /\ op.pc = "settle" => Settling
  /\ op.pc = "restore" => Restoring
  /\ op.pc \in {"status", "delete"} => Now.kind = "delete"

(* A load that fails or a download has nothing left to give back but what a *)
(* listing was wrong about.                                                 *)
Returns ==
  /\ op.pc # "idle" /\ op'.pc = "idle"
  /\ Now.kind = "download" \/ (Now.kind = "load" /\ progress'[Now.model] = "none")
  => op.taken \subseteq op.misread

(* Uses and evictions bring no model into a worker. *)
WorkersShrink == \A x \in loaded' : x \in loaded \/ At[x] \notin Worker

LEMMA ShrinkKeeps ==
  ASSUME Inv, WorkersShrink, Now' = Now, UNCHANGED op
  PROVE  /\ \A S \in SUBSET Model : Listed(S) => Listed(S)'
         /\ \A S \in SUBSET Model : Apart(S) => Apart(S)'
BY DEF WorkersShrink, Listed, Apart, OneEach, Fellows, SameType

LEMMA ElsewhereTaken ==
  ASSUME Inv, TakenInv, WorkersShrink, UNCHANGED op, op.pc # "idle" => Now' = Now
  PROVE  TakenInv'
<1>1. CASE op.pc = "idle"
  BY <1>1 DEF TakenInv, Scanning
<1>2. CASE op.pc # "idle"
  <2>1. /\ op.found \subseteq Model /\ op.evicted \subseteq Model /\ op.before \subseteq Model
        /\ op \in OpType
    BY DEF Inv, ApiInv, OpOK, OpType
  <2>2. Replacing => Replacing'
    BY <1>2, <2>1, ShrinkKeeps DEF Replacing, WorkersShrink
  <2>3. Evicting => Evicting'
    BY <1>2, <2>1, ShrinkKeeps DEF Evicting
  <2>4. Checking => Checking'
    BY <1>2, <2>1, ShrinkKeeps DEF Checking
  <2>5. Loading => Loading'
    BY <1>2, <2>1, ShrinkKeeps DEF Loading
  <2>6. Restoring => Restoring'
    BY <1>2, <2>1, ShrinkKeeps DEF Restoring
  <2> QED BY <1>2, <2>2, <2>3, <2>4, <2>5, <2>6 DEF TakenInv, Scanning, Settling
<1> QED BY <1>1, <1>2

LEMMA BeginTaken ==
  ASSUME Inv, TakenInv, Begin
  PROVE  TakenInv'
<1>1. /\ op.pc = "idle" /\ op \in OpType
      /\ op.evicted = {} /\ op.taken = {} /\ op.misread = {}
      /\ Now' = Now /\ loaded' = loaded /\ loaded \subseteq Model
  BY DEF Begin, memory, Now, TakenInv, Inv, MemoryInv, Memory, MemoryOK, ApiInv, OpOK
<1>2. \A pc \in {"evict", "check", "status"} :
        LET t == Listing(op, pc)
        IN t.pc = pc /\ t.scan = Provider /\ t.found = {} /\ t.evicted = {} /\ t.taken = {}
           /\ t.misread = {}
  BY <1>1 DEF Listing, OpType
<1>3. op'.found = {} /\ op'.scan = Provider /\ op'.misread = {} => Listed(op.found)'
  BY <1>1, ProviderAssumption DEF Listed, OneEach
<1>4. CASE Now.kind = "load"
  <2>1. op' = Listing(op, "evict")
    BY <1>4 DEF Begin
  <2> QED BY <1>1, <1>2, <1>3, <1>4, <2>1 DEF TakenInv, Scanning, Evicting, Apart, OneEach
<1>5. CASE Now.kind = "download"
  <2>1. op' = Listing(op, "check")
    BY <1>5 DEF Begin
  <2> QED BY <1>1, <1>2, <1>3, <1>5, <2>1 DEF TakenInv, Scanning, Checking
<1>6. CASE Now.kind = "unload"
  <2>1. op' = [op EXCEPT !.pc = "unload"]
    BY <1>6 DEF Begin
  <2>2. op'.pc = "unload" /\ op'.scan = op.scan
    BY <1>1, <2>1 DEF OpType
  <2> QED BY <1>1, <1>6, <2>2 DEF TakenInv, Scanning
<1>7. CASE Now.kind = "delete"
  <2>1. op' = [op EXCEPT !.pc = "delete"] \/ op' = Listing(op, "status")
    BY <1>7 DEF Begin
  <2>2. op'.pc = "status" \/ (op'.pc = "delete" /\ op'.scan = op.scan)
    BY <1>1, <1>2, <2>1 DEF OpType
  <2> QED BY <1>1, <1>7, <2>2 DEF TakenInv, Scanning
<1> QED BY <1>4, <1>5, <1>6, <1>7 DEF Begin

(* A worker that is asked has one model at most, which the listing shows or *)
(* is wrong about.                                                          *)
LEMMA OpScanTaken ==
  ASSUME Inv, TakenInv, OpScan
  PROVE  TakenInv'
<1>1. /\ op \in OpType /\ Now' = Now /\ loaded' = loaded /\ OnePerWorker
      /\ op.scan # {} /\ op.found \subseteq Model /\ loaded \subseteq Model
      /\ op.stale \subseteq Model /\ op.misread \subseteq Model
  BY DEF OpScan, ScanBy, api, memory, Now, Inv, MemoryInv, Memory, MemoryOK, ApiInv, OpOK,
         OpType
<1> DEFINE p == Visited(op)
<1>2. p \in op.scan
  BY <1>1 DEF Visited
<1>3. PICK shown \in SUBSET Model, wrong \in SUBSET Model :
        /\ op'.pc = op.pc /\ op'.evicted = op.evicted /\ op'.taken = op.taken
        /\ op'.before = op.before /\ op'.scan = op.scan \ {p}
        /\ op'.found = op.found \union {m \in shown : At[m] = p}
        /\ op'.misread = op.misread \union {m \in wrong : At[m] = p}
        /\ \/ shown = Wanted /\ wrong = {}
           \/ shown = {} /\ wrong = Wanted
           \/ op.pc = "settle" /\ shown = wrong
  <2>1. Wanted \in SUBSET Model /\ op.stale \in SUBSET Model /\ {} \in SUBSET Model
    BY <1>1 DEF Wanted
  <2>2. \A S \in SUBSET Model :
          LET t == Scanned(op, S)
          IN /\ t \in OpType /\ t.pc = op.pc /\ t.evicted = op.evicted
             /\ t.taken = op.taken /\ t.before = op.before /\ t.misread = op.misread
             /\ t.scan = op.scan \ {p} /\ t.found = op.found \union {m \in S : At[m] = p}
    BY <1>1 DEF Scanned, There, OpType
  <2>3. \A t \in OpType, S \in SUBSET Model :
          LET u == [t EXCEPT !.misread = @ \union There(op, S)]
          IN /\ u.pc = t.pc /\ u.evicted = t.evicted /\ u.taken = t.taken
             /\ u.before = t.before /\ u.scan = t.scan /\ u.found = t.found
             /\ u.misread = t.misread \union {m \in S : At[m] = p}
    BY DEF OpType, There
  <2>4. CASE op' = Scanned(op, Wanted)
    BY <2>1, <2>2, <2>4
  <2>5. CASE op' = [Scanned(op, {}) EXCEPT !.misread = @ \union There(op, Wanted)]
    <3> DEFINE t == Scanned(op, {})
    <3>1. /\ t \in OpType /\ t.pc = op.pc /\ t.evicted = op.evicted
          /\ t.taken = op.taken /\ t.before = op.before /\ t.misread = op.misread
          /\ t.scan = op.scan \ {p} /\ t.found = op.found \union {m \in {} : At[m] = p}
      BY <2>1, <2>2
    <3>2. op' = [t EXCEPT !.misread = @ \union There(op, Wanted)]
      BY <2>5
    <3> HIDE DEF t, p
    <3>3. /\ op'.pc = op.pc /\ op'.evicted = op.evicted /\ op'.taken = op.taken
          /\ op'.before = op.before /\ op'.scan = op.scan \ {p}
          /\ op'.found = op.found \union {m \in {} : At[m] = p}
          /\ op'.misread = op.misread \union {m \in Wanted : At[m] = p}
      BY <2>1, <2>3, <3>1, <3>2
    <3> QED BY <2>1, <2>5, <3>3
  <2>6. CASE /\ op.pc = "settle"
             /\ op' = [Scanned(op, op.stale) EXCEPT !.misread = @ \union There(op, op.stale)]
    <3> DEFINE t == Scanned(op, op.stale)
    <3>1. /\ t \in OpType /\ t.pc = op.pc /\ t.evicted = op.evicted
          /\ t.taken = op.taken /\ t.before = op.before /\ t.misread = op.misread
          /\ t.scan = op.scan \ {p} /\ t.found = op.found \union {m \in op.stale : At[m] = p}
      BY <2>1, <2>2
    <3>2. op' = [t EXCEPT !.misread = @ \union There(op, op.stale)]
      BY <2>6
    <3> HIDE DEF t, p
    <3>3. /\ op'.pc = op.pc /\ op'.evicted = op.evicted /\ op'.taken = op.taken
          /\ op'.before = op.before /\ op'.scan = op.scan \ {p}
          /\ op'.found = op.found \union {m \in op.stale : At[m] = p}
          /\ op'.misread = op.misread \union {m \in op.stale : At[m] = p}
      BY <2>1, <2>3, <3>1, <3>2
    <3> QED BY <2>1, <2>6, <3>3
  <2> QED BY <2>4, <2>5, <2>6 DEF OpScan
<1>4. ASSUME op.pc \notin {"status", "settle"}, Listed(op.found),
             \A x \in op.found \union op.misread : At[x] \notin op.scan
      PROVE  /\ Listed(op.found)'
             /\ (\A x \in op.found \union op.misread : At[x] \notin op.scan)'
  <2>1. Wanted = SameType(Now.model) \intersect loaded
    BY <1>4 DEF Wanted
  <2>2. /\ op'.found \subseteq SameType(Now.model)
        /\ \A x \in op'.found : x \in op.found \/ (x \in loaded /\ At[x] = p)
        /\ \A x \in op'.misread : x \in op.misread \/ At[x] = p
    BY <1>3, <1>4, <2>1 DEF Listed
  <2>3. \A x \in op'.found \union op'.misread : At[x] \notin op'.scan
    BY <1>3, <1>4, <2>2
  <2>4. OneEach(op'.found)
    BY <1>1, <1>2, <1>4, <2>2 DEF OneEach, Fellows, Listed, OnePerWorker
  <2>5. \A x \in op'.found, y \in op'.misread : At[x] # At[y]
    <3>1. CASE shown = Wanted /\ wrong = {}
      BY <1>2, <1>3, <1>4, <2>2, <3>1 DEF Listed
    <3>2. CASE shown = {} /\ wrong = Wanted
      BY <1>2, <1>3, <1>4, <2>2, <3>2 DEF Listed
    <3> QED BY <1>3, <1>4, <3>1, <3>2
  <2>6. ASSUME NEW x \in loaded, At[x] \in Worker, x \in SameType(Now.model), x # Now.model
        PROVE  At[x] \in op'.scan \/ x \in op'.found \/ x \in op'.misread
    <3>1. CASE At[x] = p
      BY <1>3, <1>4, <2>1, <2>6, <3>1
    <3>2. CASE At[x] # p
      BY <1>3, <1>4, <2>6, <3>2 DEF Listed
    <3> QED BY <3>1, <3>2
  <2> QED BY <1>1, <2>2, <2>3, <2>4, <2>5, <2>6 DEF Listed, OneEach, Fellows, SameType
<1> HIDE DEF p
<1>5. CASE op.pc = "evict"
  <2>1. Evicting /\ op.evicted = {} /\ op.taken = {}
    BY <1>1, <1>5 DEF TakenInv, Scanning, Evicting
  <2> QED BY <1>1, <1>3, <1>4, <1>5, <2>1 DEF TakenInv, Scanning, Evicting, Apart, OneEach
<1>6. CASE op.pc = "check"
  BY <1>1, <1>3, <1>4, <1>6 DEF TakenInv, Scanning, Checking
<1>7. CASE op.pc = "settle"
  <2>1. Settling
    BY <1>7 DEF TakenInv, Scanning
  <2>2. op'.taken \intersect op'.found \subseteq op'.misread
    <3>1. op'.taken \intersect op'.found \subseteq op.misread \union {m \in shown : At[m] = p}
      BY <1>3, <2>1 DEF Settling
    <3>2. shown = Wanted => op'.taken \intersect shown = {}
      BY <1>3, <2>1 DEF Settling, Replacing, Wanted
    <3> QED BY <1>3, <3>1, <3>2
  <2>3. Replacing'
    BY <1>1, <1>3, <2>1 DEF Settling, Replacing, Apart, OneEach, Fellows
  <2> QED BY <1>1, <1>3, <1>7, <2>1, <2>2, <2>3 DEF TakenInv, Scanning, Settling
<1>8. CASE op.pc = "status"
  BY <1>1, <1>3, <1>8 DEF TakenInv, Scanning
<1>9. op.pc \in {"evict", "check", "settle", "status"}
  BY <1>1 DEF TakenInv, Scanning
<1> QED BY <1>5, <1>6, <1>7, <1>8, <1>9

(* A load unloads the others of its type, of which a worker has one.       *)
LEMMA EvictOtherTaken ==
  ASSUME Inv, TakenInv, NEW m \in Model, EvictOther(m)
  PROVE  TakenInv'
<1>1. /\ op \in OpType /\ op.pc = "evict" /\ op.scan = {} /\ Now' = Now
      /\ m \in op.found /\ m # Now.model /\ m \notin op.evicted /\ op.evicted \subseteq Model
  BY DEF EvictOther, ToEvict, api, Now, Inv, ApiInv, OpOK, OpType
<1>2. Evicting
  BY <1>1 DEF TakenInv
<1>3. CASE Unload(m) /\ op' = [op EXCEPT !.evicted = @ \union {m}, !.taken = Taken(m)]
  <2>1. /\ op'.pc = "evict" /\ op'.scan = {} /\ op'.found = op.found
        /\ op'.evicted = op.evicted \union {m} /\ op'.taken = Taken(m)
        /\ op'.misread = op.misread
    BY <1>1, <1>3 DEF OpType
  <2>2. loaded' = loaded \ {m} /\ Mates(m) = {}
    BY <1>3 DEF Unload
  <2>3. op'.taken \subseteq op'.evicted
    BY <1>2, <2>1, <2>2 DEF Taken, Evicting
  <2>4. Apart(op.evicted)'
    <3>1. OneEach(op'.evicted)
      BY <1>1, <1>2, <2>1 DEF Evicting, Listed, OneEach
    <3>2. \A x \in loaded : ~Fellows(x, m) \/ x = m
      BY <2>2 DEF Mates, Fellows
    <3> QED BY <1>1, <1>2, <2>1, <2>2, <3>1, <3>2 DEF Evicting, Apart, OneEach, Fellows
  <2>5. Listed(op.found)'
    BY <1>1, <1>2, <2>1, <2>2 DEF Evicting, Listed, OneEach, Fellows, SameType
  <2> QED BY <1>1, <1>2, <2>1, <2>3, <2>4, <2>5 DEF TakenInv, Scanning, Evicting
<1>4. CASE FailUnload(m) /\ op' = [op EXCEPT !.pc = "restore", !.found = {}, !.ok = FALSE]
  <2>1. /\ op'.pc = "restore" /\ op'.scan = {} /\ op'.evicted = op.evicted
        /\ op'.taken = op.taken
    BY <1>1, <1>4 DEF OpType
  <2>2. loaded' = loaded
    BY <1>4 DEF FailUnload, memory
  <2> QED BY <1>1, <1>2, <2>1, <2>2
          DEF TakenInv, Scanning, Evicting, Restoring, Apart, OneEach, Fellows
<1> QED BY <1>3, <1>4 DEF EvictOther

(* All that the listing found has gone, the operation's own model aside.   *)
LEMMA EvictDoneTaken ==
  ASSUME Inv, TakenInv, EvictDone
  PROVE  TakenInv'
<1>1. /\ op \in OpType /\ op.pc = "evict" /\ op.scan = {} /\ Now' = Now /\ loaded' = loaded
      /\ op.found \subseteq op.evicted \union {Now.model}
  BY DEF EvictDone, ToEvict, memory, api, Now, Inv, ApiInv, OpOK, OpType
<1>2. /\ op'.pc = "load" /\ op'.scan = {} /\ op'.evicted = op.evicted /\ op'.taken = op.taken
      /\ op'.misread = op.misread
  BY <1>1 DEF EvictDone, OpType
<1>3. Evicting
  BY <1>1 DEF TakenInv
<1>4. Listed(op.evicted)'
  BY <1>1, <1>2, <1>3 DEF Evicting, Listed, OneEach, Fellows, SameType
<1>5. Apart(op.evicted)'
  BY <1>1, <1>2, <1>3 DEF Evicting, Apart, OneEach, Fellows
<1> QED BY <1>1, <1>2, <1>3, <1>4, <1>5 DEF TakenInv, Scanning, Evicting, Loading

LEMMA CheckTaken ==
  ASSUME Inv, TakenInv, Check
  PROVE  TakenInv'
<1>1. /\ op \in OpType /\ op.pc = "check" /\ op.scan = {} /\ Now' = Now /\ loaded' = loaded
  BY DEF Check, memory, api, Now, Inv, ApiInv, OpOK
<1>2. /\ op'.pc = "load" /\ op'.scan = {} /\ op'.evicted = op.evicted /\ op'.taken = op.taken
      /\ op'.before = op.found /\ op'.misread = op.misread
  <2>1. PICK was \in BOOLEAN :
          op' = [op EXCEPT !.pc = "load", !.before = op.found, !.found = {}, !.was = was]
    BY DEF Check
  <2> QED BY <1>1, <2>1 DEF OpType
<1>3. Checking
  BY <1>1 DEF TakenInv
<1>4. Listed(op.before)'
  BY <1>1, <1>2, <1>3 DEF Checking, Listed, OneEach, Fellows, SameType
<1> QED BY <1>1, <1>2, <1>3, <1>4 DEF TakenInv, Scanning, Checking, Loading

(* A load makes the worker give up what the listing found there.           *)
LEMMA LoadModelTaken ==
  ASSUME Inv, TakenInv, LoadModel
  PROVE  TakenInv' /\ Returns
<1> DEFINE m == Now.model
<1>1. /\ op \in OpType /\ op.pc = "load" /\ op.scan = {} /\ loaded \subseteq Model
      /\ m \in Model /\ progress \in ProgressType /\ line # <<>>
  BY HeadFacts DEF LoadModel, TakenInv, Scanning, Inv, MemoryInv, Memory, MemoryOK, ApiInv,
     OpOK, ProgressOK
<1>2. Loading
  BY <1>1 DEF TakenInv
<1>3. PICK ok \in BOOLEAN : Loaded(ok) /\ IF ok THEN Load(m) ELSE FailLoad(m)
  BY DEF LoadModel
<1>4. /\ \A x \in loaded' : x \in loaded \/ x = m
      /\ \A x \in loaded \ loaded' : Fellows(x, m) /\ x # m
  BY <1>3 DEF Load, FailLoad, Mates, Fellows
<1>5. ~ok => loaded' \subseteq loaded
  BY <1>3 DEF FailLoad
<1>6. \A S \in SUBSET Model : Listed(S) => loaded \ loaded' \subseteq S \union op.misread
  BY <1>1, <1>4, ProviderAssumption DEF Listed, Fellows, SameType
<1>7. op.evicted \subseteq Model /\ op.before \subseteq Model
  BY <1>1 DEF OpType
<1>8. CASE Now.kind = "load" /\ ok
  <2>1. Finish(TRUE)
    BY <1>3, <1>8 DEF Loaded
  <2>2. progress'[m] = "ready"
    BY <1>1, <1>8, <2>1 DEF Finish, ProgressType
  <2>3. op' = Idle
    BY <2>1 DEF Finish
  <2> QED BY <1>8, <2>2, <2>3 DEF TakenInv, Scanning, Idle, Returns
<1>9. CASE Now.kind = "load" /\ ~ok
  <2>1. /\ op' = [op EXCEPT !.pc = "restore", !.ok = FALSE, !.taken = Taken(m)]
        /\ UNCHANGED api
    BY <1>3, <1>9 DEF Loaded
  <2>2. /\ op'.pc = "restore" /\ op'.scan = {} /\ op'.taken = Taken(m)
        /\ op'.evicted = op.evicted /\ op'.misread = op.misread /\ Now' = Now
    BY <1>1, <2>1 DEF OpType, api, Now
  <2>3. Listed(op.evicted) /\ Apart(op.evicted) /\ op.taken \subseteq op.evicted
    BY <1>2, <1>9 DEF Loading
  <2>4. op'.taken \subseteq op'.evicted \union op'.misread
    BY <1>6, <1>7, <2>2, <2>3 DEF Taken
  <2>5. Apart(op.evicted)'
    BY <1>5, <1>9, <2>2, <2>3 DEF Apart, OneEach, Fellows
  <2> QED BY <2>2, <2>4, <2>5 DEF TakenInv, Scanning, Restoring, Returns
<1>10. CASE Now.kind # "load"
  <2> DEFINE next == IF ok /\ ~op.was THEN [op EXCEPT !.pc = "unload"]
                     ELSE Listing(op, "settle")
  <2>1. op' = [next EXCEPT !.ok = ok, !.taken = Taken(m), !.stale = Stale(ok)] /\ UNCHANGED api
    BY <1>3, <1>10 DEF Loaded
  <2>2. /\ next \in OpType /\ next.evicted = op.evicted /\ next.before = op.before
        /\ next.misread = op.misread
        /\ \/ next.pc = "unload" /\ next.scan = {}
           \/ next.pc = "settle" /\ next.found = {}
    BY <1>1 DEF OpType, Listing
  <2> HIDE DEF next
  <2>3. /\ op'.pc = next.pc /\ op'.scan = next.scan /\ op'.found = next.found
        /\ op'.evicted = op.evicted /\ op'.before = op.before /\ op'.taken = Taken(m)
        /\ op'.misread = op.misread /\ Now' = Now
    BY <2>1, <2>2 DEF OpType, api, Now
  <2>4. Now.kind = "download" /\ op.taken = {} /\ op.evicted = {} /\ Listed(op.before)
    BY <1>2, <1>10 DEF Loading
  <2>5. op'.taken = (loaded \ loaded') \ {m}
    BY <2>3, <2>4 DEF Taken
  <2>6. /\ op'.taken \subseteq (op'.before \union op'.misread) \ loaded'
        /\ \A x \in op'.taken : At[x] \in Worker
    BY <1>4, <1>6, <1>7, <2>3, <2>4, <2>5 DEF Fellows
  <2>7. Apart(op.before)'
    <3>1. OneEach(op'.before)
      BY <2>3, <2>4 DEF Listed, OneEach
    <3>2. ASSUME NEW x \in loaded', NEW y \in op'.before, Fellows(x, y), x # m
          PROVE  x = y
      <4>1. x \in loaded /\ y \in op.before /\ y \in SameType(m) /\ At[x] \in Worker
        BY <1>4, <2>3, <2>4, <3>2 DEF Listed, Fellows
      <4>2. x \in SameType(m)
        BY <1>1, <3>2, <4>1, ProviderAssumption DEF SameType, Fellows
      <4>3. x \in op.before
        BY <1>1, <2>4, <3>2, <4>1, <4>2 DEF Listed, Fellows
      <4> QED BY <3>1, <3>2, <4>3, <2>3 DEF OneEach
    <3> QED BY <2>3, <3>1, <3>2 DEF Apart, OneEach, Fellows
  <2>8. Replacing'
    BY <2>3, <2>4, <2>6, <2>7 DEF Replacing
  <2>9. op'.pc = "settle" => op'.found = {}
    BY <2>2, <2>3
  <2> QED BY <2>2, <2>3, <2>4, <2>8, <2>9 DEF TakenInv, Scanning, Settling, Returns
<1> QED BY <1>8, <1>9, <1>10

LEMMA UnloadModelTaken ==
  ASSUME Inv, TakenInv, UnloadModel
  PROVE  TakenInv' /\ Returns
<1>1. /\ op \in OpType /\ op.pc = "unload" /\ op.scan = {} /\ Now.kind # "load"
      /\ Now.kind = "download" => Replacing
  BY DEF UnloadModel, TakenInv, Scanning, Inv, ApiInv, OpOK
<1>2. PICK ok \in BOOLEAN : Unloaded(ok) /\ (Unload(Now.model) \/ FailUnload(Now.model))
  BY DEF UnloadModel
<1>3. loaded' \subseteq loaded
  BY <1>2 DEF Unload, FailUnload, memory
<1>4. CASE Now.kind = "unload"
  BY <1>2, <1>4 DEF Unloaded, Finish, Idle, TakenInv, Scanning, Returns
<1>5. CASE Now.kind = "download"
  <2>1. op' = [Listing(op, "settle") EXCEPT !.ok = ok] /\ Now' = Now
    BY <1>2, <1>5 DEF Unloaded, api, Now
  <2>2. /\ op'.pc = "settle" /\ op'.found = {} /\ op'.evicted = op.evicted
        /\ op'.before = op.before /\ op'.taken = op.taken /\ op'.misread = op.misread
    BY <1>1, <2>1 DEF Listing, OpType
  <2>3. Replacing'
    BY <1>1, <1>3, <1>5, <2>1, <2>2 DEF Replacing, Apart, OneEach, Fellows
  <2> QED BY <1>5, <2>1, <2>2, <2>3 DEF TakenInv, Scanning, Settling, Returns
<1>6. CASE Now.kind \notin {"unload", "download"}
  <2>1. op' = [op EXCEPT !.pc = "delete"] /\ Now' = Now
    BY <1>2, <1>6 DEF Unloaded, api, Now
  <2>2. op'.pc = "delete" /\ op'.scan = {}
    BY <1>1, <2>1 DEF OpType
  <2>3. Now.kind = "delete"
    BY <1>1, <1>6, HeadFacts DEF Inv, ApiInv, OpOK, Kind
  <2> QED BY <2>1, <2>2, <2>3 DEF TakenInv, Scanning, Returns
<1> QED BY <1>4, <1>5, <1>6

(* What was there before and is not now is what the worker gave up.        *)
LEMMA SettleTaken ==
  ASSUME Inv, TakenInv, Settle
  PROVE  TakenInv'
<1>1. /\ op \in OpType /\ op.pc = "settle" /\ op.scan = {} /\ Now' = Now /\ loaded' = loaded
      /\ Settling
  BY DEF Settle, TakenInv, memory, api, Now, Inv, ApiInv, OpOK
<1>2. /\ op'.pc = "restore" /\ op'.scan = {} /\ op'.taken = op.taken
      /\ op'.evicted = op.before \ op.found /\ op'.misread = op.misread
  BY <1>1 DEF Settle, OpType
<1>3. op'.taken \subseteq op'.evicted \union op'.misread
  BY <1>1, <1>2 DEF Settling, Replacing
<1>4. Apart(op.evicted)'
  BY <1>1, <1>2 DEF Settling, Replacing, Apart, OneEach, Fellows
<1> QED BY <1>2, <1>3, <1>4 DEF TakenInv, Scanning, Restoring

(* To bring a model back takes no other from its worker but the one that   *)
(* the operation is about.                                                 *)
LEMMA RestoreTaken ==
  ASSUME Inv, TakenInv, NEW m \in Model, Restore(m)
  PROVE  TakenInv'
<1>1. /\ op \in OpType /\ op.pc = "restore" /\ op.scan = {} /\ Now' = Now /\ Restoring
      /\ m \in op.evicted /\ (Load(m) \/ FailLoad(m))
  BY DEF Restore, TakenInv, Scanning, api, Now, Inv, ApiInv, OpOK
<1>2. /\ op'.pc = "restore" /\ op'.scan = {} /\ op'.taken = Taken(m)
      /\ op'.evicted = op.evicted \ {m} /\ op'.misread = op.misread
  BY <1>1 DEF Restore, OpType
<1>3. /\ \A x \in loaded' : x \in loaded \/ x = m
      /\ \A x \in loaded \ loaded' : Fellows(x, m) /\ x # m
  BY <1>1 DEF Load, FailLoad, Mates, Fellows
<1>4. loaded \ loaded' \subseteq {Now.model}
  BY <1>1, <1>3 DEF Restoring, Apart
<1>5. op'.taken \subseteq op'.evicted \union op'.misread
  BY <1>1, <1>2, <1>4 DEF Taken, Restoring
<1>6. Apart(op.evicted)'
  BY <1>1, <1>2, <1>3 DEF Restoring, Apart, OneEach, Fellows
<1> QED BY <1>2, <1>5, <1>6 DEF TakenInv, Scanning, Restoring

LEMMA FinishTaken ==
  ASSUME Finish(TRUE) \/ Finish(FALSE) \/ Finish(op.ok)
  PROVE  TakenInv'
BY DEF Finish, Idle, TakenInv, Scanning

LEMMA OpStepTaken ==
  ASSUME Inv, TakenInv, OpNext
  PROVE  TakenInv' /\ Returns
<1>1. op \in OpType
  BY DEF Inv, ApiInv, OpOK
<1>2. CASE Begin
  BY <1>2, BeginTaken DEF Begin, Returns
<1>3. CASE RefuseLoad
  <2>1. Model # {} => Provider # {}
    BY ProviderAssumption
  <2>2. op.taken = {}
    BY <1>1, <1>3, <2>1 DEF RefuseLoad, TakenInv, Evicting, OpType
  <2> QED BY <1>3, <2>2, FinishTaken DEF RefuseLoad, Returns
<1>4. CASE OpScan
  <2>1. op.pc # "idle"
    BY <1>4 DEF OpScan, ScanBy, TakenInv, Scanning
  <2>2. op'.pc = op.pc
    BY <1>4, OpScanKeeps
  <2> QED BY <1>4, <2>1, <2>2, OpScanTaken DEF Returns
<1>5. CASE EvictDone
  <2>1. op'.pc = "load"
    BY <1>1, <1>5 DEF EvictDone, OpType
  <2> QED BY <1>5, <2>1, EvictDoneTaken DEF Returns
<1>6. CASE Check
  <2>1. op'.pc # "idle"
    <3>1. PICK was \in BOOLEAN :
            op' = [op EXCEPT !.pc = "load", !.before = op.found, !.found = {}, !.was = was]
      BY <1>6 DEF Check
    <3> QED BY <1>1, <3>1 DEF OpType
  <2> QED BY <1>6, <2>1, CheckTaken DEF Returns
<1>7. CASE LoadModel \/ UnloadModel
  BY <1>7, LoadModelTaken, UnloadModelTaken
<1>8. CASE Settle
  <2>1. op'.pc = "restore"
    BY <1>1, <1>8 DEF Settle, OpType
  <2> QED BY <1>8, <2>1, SettleTaken DEF Returns
<1>9. CASE RestoreDone
  <2>1. op.taken \subseteq op.misread
    BY <1>9 DEF RestoreDone, TakenInv, Restoring
  <2> QED BY <1>9, <2>1, FinishTaken DEF RestoreDone, Returns
<1>10. CASE Status
  <2>1. op.scan = {} /\ op.pc = "status" /\ Now' = Now /\ op'.pc \in {"unload", "delete"}
    BY <1>1, <1>10 DEF Status, api, Now, OpType
  <2>2. op'.scan = {} /\ Now.kind = "delete"
    BY <1>1, <1>10, <2>1 DEF Status, TakenInv, OpType
  <2> QED BY <2>1, <2>2 DEF TakenInv, Scanning, Returns
<1>11. CASE DeleteArtifacts
  <2>1. op.pc = "delete" /\ Now.kind = "delete" /\ Finish(TRUE)
    BY <1>11 DEF DeleteArtifacts, TakenInv
  <2> QED BY <2>1, FinishTaken DEF Returns
<1>12. ASSUME NEW m \in Model, EvictOther(m)
       PROVE  TakenInv' /\ Returns
  <2>1. op'.pc # "idle"
    BY <1>1, <1>12 DEF EvictOther, OpType
  <2> QED BY <1>12, <2>1, EvictOtherTaken DEF Returns
<1>13. ASSUME NEW m \in Model, Restore(m)
       PROVE  TakenInv' /\ Returns
  <2>1. op'.pc = "restore"
    BY <1>1, <1>13 DEF Restore, OpType
  <2> QED BY <1>13, <2>1, RestoreTaken DEF Returns
<1> QED BY <1>2, <1>3, <1>4, <1>5, <1>6, <1>7, <1>8, <1>9, <1>10, <1>11, <1>12, <1>13
        DEF OpNext

LEMMA StepTaken ==
  ASSUME Inv, TakenInv, [Next]_vars
  PROVE  TakenInv' /\ Returns
<1>1. ASSUME UNCHANGED op, WorkersShrink, op.pc # "idle" => Now' = Now
      PROVE  TakenInv' /\ Returns
  BY <1>1, ElsewhereTaken DEF Returns
<1>2. ASSUME NEW kind \in Kind, NEW m \in Model, Ask(kind, m)
      PROVE  TakenInv' /\ Returns
  <2>1. op.pc # "idle" => Now' = Now
    BY <1>2 DEF Ask, Now, Inv, ApiInv, OpOK, LineOK
  <2>2. UNCHANGED op /\ WorkersShrink
    BY <1>2 DEF Ask, memory, WorkersShrink
  <2> QED BY <1>1, <2>1, <2>2
<1>3. ASSUME NEW u \in User, BeginUse(u)
      PROVE  TakenInv' /\ Returns
  <2>1. UNCHANGED <<op, Now>>
    BY <1>3 DEF BeginUse, api, Now
  <2>2. WorkersShrink
    BY <1>3 DEF BeginUse, FailLoad, WorkersShrink
  <2> QED BY <1>1, <2>1, <2>2
<1>4. ASSUME UNCHANGED <<op, line>>, loaded' \subseteq loaded
      PROVE  TakenInv' /\ Returns
  BY <1>1, <1>4 DEF WorkersShrink, Now
<1>5. CASE \E u \in User : EndUse(u)
  BY <1>4, <1>5 DEF EndUse, api
<1>6. CASE \E m \in Model : Age(m)
  BY <1>4, <1>6 DEF Age, api
<1>7. CASE OpNext
  BY <1>7, OpStepTaken
<1>8. ASSUME NEW m \in Model, EvictIdle(m) \/ EvictLru(m)
      PROVE  TakenInv' /\ Returns
  <2>1. UNCHANGED <<op, line>> /\ (Unload(m) \/ FailUnload(m))
    BY <1>8 DEF EvictIdle, EvictLru, Evict, api
  <2>2. loaded' \subseteq loaded
    BY <2>1 DEF Unload, FailUnload, memory
  <2> QED BY <1>4, <2>1, <2>2
<1>9. CASE StartPass \/ PassScan \/ TtlDone \/ LruDone \/ UNCHANGED vars
  BY <1>4, <1>9 DEF StartPass, PassScan, TtlDone, LruDone, vars, api, memory
<1> QED BY <1>2, <1>3, <1>5, <1>6, <1>7, <1>8, <1>9 DEF Next, PassNext

(* A load that fails, and every download, has tried to bring back each     *)
(* model that it unloaded or that a worker gave up for it, whatever the    *)
(* eviction passes and the requests do meanwhile, except for models that   *)
(* one of its listings was wrong about, because the worker did not answer  *)
(* or answered from before (model_manager.py:212-318,                      *)
(* tts/router.py:235-243, tts/external.py:273-295).                        *)
THEOREM TakenGivenBack == Spec => GivenBack
<1>1. Init => TakenInv
  BY DEF Init, Idle, TakenInv, Scanning
<1>2. Inv /\ TakenInv /\ [Next]_vars => TakenInv'
  BY StepTaken
<1>3. Inv /\ TakenInv /\ [Next]_vars => [Returns]_vars
  BY StepTaken
<1> QED BY <1>1, <1>2, <1>3, Invariance, PTL DEF Spec, GivenBack, Returns
=============================================================================
