--------------------------- MODULE ModelLifecycle ---------------------------
(***************************************************************************)
(* Which models are in memory.  The API's operations on models run one at  *)
(* a time under model_operation_lock (src/src/services/models.py), each as *)
(* a thread that calls ModelManager (src/src/model_manager.py).  Two       *)
(* others do not take that lock: the eviction pass every 30 seconds        *)
(* (src/src/lifecycle.py) and the requests that use a model, which load    *)
(* it on first use.                                                        *)
(*                                                                         *)
(* A provider's lock is held while a request uses one of its models, so a  *)
(* load or unload waits and is then one step.  A listing of what is loaded *)
(* visits the providers one by one; it waits for the lock of a local one   *)
(* and asks a worker (src/src/tts/external.py) without it, whose answer    *)
(* may be missing or a second old.  A worker holds one model and loads     *)
(* none on first use.  Times are only what matters: old are the loaded     *)
(* models that os_model_ttl ago were last used.                            *)
(***************************************************************************)
EXTENDS Naturals, Sequences, FiniteSets

CONSTANTS
  Model, Provider,
  At,            \* the provider of a model
  Worker,        \* providers behind a URL
  Piper,         \* providers whose artifacts are deleted under their lock
  Stt,           \* the models that transcribe, in this process; the others speak
  User,          \* requests that use a model
  Preloaded,     \* stt_preload_models and tts_preload_models
  MaxLoaded,     \* os_max_loaded_models, 0 for no limit
  Asked,         \* bound: the operations asked of the API, kinds with models
  MaxRequests,   \* bound: and how many of them
  MaxFailures    \* bound: loads, unloads and questions to workers that fail

Kind == {"load", "download", "unload", "delete"}

ASSUME ProviderAssumption ==
  /\ At \in [Model -> Provider]
  /\ Worker \subseteq Provider /\ Piper \subseteq Provider \ Worker
  /\ Stt \subseteq Model /\ \A m \in Stt : At[m] \notin Worker
  /\ Asked \subseteq Kind \X Model
  /\ Preloaded \subseteq Model /\ IsFiniteSet(Model)
  /\ \A m, n \in Preloaded : At[m] = At[n] /\ At[m] \in Worker => m = n
ASSUME BoundAssumption ==
  MaxLoaded \in Nat /\ MaxRequests \in Nat /\ MaxFailures \in Nat

VARIABLES
  loaded, old,
  files,      \* voices of Piper whose files are on disk
  use,        \* of a request: [at, model]
  line,       \* operations asked for; the first holds the lock, or is next
  requests, failures,
  op,         \* the operation that runs; taken is history: the other models
              \* it took out of memory and has not tried to bring back; so is
              \* misread: the models its listings were wrong about
  pass,       \* the eviction pass
  progress    \* download_progress

memory == <<loaded, old, files>>
api == <<line, requests, progress>>
vars == <<memory, use, api, failures, op, pass>>

Stored(m) == IF At[m] \in Piper THEN {m} ELSE {}

SameType(m) == IF m \in Stt THEN Stt ELSE Model \ Stt

Held(p) == \E u \in User : use[u].at = "using" /\ At[use[u].model] = p

Idle == [pc |-> "idle", scan |-> {}, found |-> {}, evicted |-> {},
         before |-> {}, stale |-> {}, was |-> FALSE, ok |-> TRUE, taken |-> {},
         misread |-> {}]
Off == [pc |-> "off", scan |-> {}, found |-> {}, count |-> 0]

Init ==
  /\ loaded = Preloaded /\ old = {} /\ files = UNION {Stored(m) : m \in Preloaded}
  /\ use \in [User -> [at : {"asked"}, model : Model]]
  /\ line = <<>> /\ requests = 0 /\ failures = 0
  /\ op = Idle /\ pass = Off
  /\ progress = [m \in Model |-> "none"]

-----------------------------------------------------------------------------
(* The providers. *)

(* The model a worker would give up for m. *)
Mates(m) ==
  IF At[m] \in Worker THEN {x \in loaded : At[x] = At[m] /\ x # m} ELSE {}

Load(m) ==
  /\ loaded' = (loaded \ Mates(m)) \union {m}
  /\ old' = IF m \in loaded THEN old ELSE old \ ({m} \union Mates(m))
  /\ files' = files \union Stored(m)

(* A load that fails: a worker may have given up its model for it before, *)
(* and the files of a voice may be there.                                 *)
FailLoad(m) ==
  /\ failures < MaxFailures
  /\ failures' = failures + 1
  /\ m \in loaded => At[m] \in Worker
  /\ \E gone \in {{}, Mates(m)} : loaded' = loaded \ gone /\ old' = old \ gone
  /\ files' \in {files, files \union Stored(m)}

Unload(m) ==
  /\ Mates(m) = {}
  /\ loaded' = loaded \ {m}
  /\ old' = old \ {m}
  /\ UNCHANGED <<files, failures>>

(* A worker refuses to unload a model it does not hold, or does not answer. *)
FailUnload(m) ==
  /\ \/ Mates(m) # {} /\ UNCHANGED failures
     \/ At[m] \in Worker /\ failures < MaxFailures /\ failures' = failures + 1
  /\ UNCHANGED memory

(* A step of a listing: what the next provider has loaded. *)
Visited(t) == CHOOSE p \in t.scan : TRUE

There(t, S) == {m \in S : At[m] = Visited(t)}

ScanBy(t) == t.scan # {} /\ (Visited(t) \in Worker \/ ~Held(Visited(t)))

Scanned(t, S) ==
  [t EXCEPT !.scan = @ \ {Visited(t)}, !.found = @ \union There(t, S)]

(* A question to a worker that goes unanswered. *)
Unanswered(p) ==
  /\ p \in Worker
  /\ failures < MaxFailures /\ failures' = failures + 1

Listing(t, pc) == [t EXCEPT !.pc = pc, !.scan = Provider, !.found = {}]

-----------------------------------------------------------------------------
(* Requests that use a model. *)

(* The lock is taken.  A worker answers 409 for a model it does not hold; *)
(* the gateway counts that as use of the one it does hold.                *)
BeginUse(u) ==
  LET m == use[u].model
  IN /\ use[u].at = "asked"
     /\ ~Held(At[m])
     /\ IF At[m] \notin Worker
        THEN \/ /\ use' = [use EXCEPT ![u].at = "using"]
                /\ loaded' = loaded \union {m}
                /\ old' = old \ {m}
                /\ files' = files \union Stored(m)
                /\ UNCHANGED failures
             \/ /\ use' = [use EXCEPT ![u].at = "done"]
                /\ FailLoad(m)
        ELSE /\ use' = [use EXCEPT ![u].at = IF m \in loaded THEN "using" ELSE "done"]
             /\ old' = {x \in old : At[x] # At[m]}
             /\ UNCHANGED <<loaded, files, failures>>
  /\ UNCHANGED <<api, op, pass>>

(* A local backend notes the time when the use begins, the gateway to a *)
(* worker also when it ends.                                            *)
EndUse(u) ==
  /\ use[u].at = "using"
  /\ use' = [use EXCEPT ![u].at = "done"]
  /\ old' = IF At[use[u].model] \in Worker
            THEN {x \in old : At[x] # At[use[u].model]} ELSE old
  /\ UNCHANGED <<loaded, files, api, failures, op, pass>>

(* os_model_ttl passes.  The model of a worker in use never looks idle. *)
Age(m) ==
  /\ m \in loaded \ old
  /\ ~(At[m] \in Worker /\ Held(At[m]))
  /\ old' = old \union {m}
  /\ UNCHANGED <<loaded, files, use, api, failures, op, pass>>

-----------------------------------------------------------------------------
(* The operations of the API. *)

(* An unload of a model that is not loaded is refused before the lock. *)
Ask(kind, m) ==
  /\ <<kind, m>> \in Asked
  /\ requests < MaxRequests
  /\ kind = "unload" => m \in loaded /\ (At[m] \notin Worker => ~Held(At[m]))
  /\ requests' = requests + 1
  /\ line' = Append(line, [kind |-> kind, model |-> m])
  /\ progress' = IF kind \in {"load", "download"}
                 THEN [progress EXCEPT ![m] = "queued"] ELSE progress
  /\ UNCHANGED <<memory, use, failures, op, pass>>

Now == Head(line)

(* Mutant: the progress entry of an operation that fails stays. *)
FinishKeepingEntry(ok) ==
  /\ op' = Idle
  /\ line' = Tail(line)
  /\ progress' =
       IF ~ok \/ Now.kind \notin {"load", "download"} THEN progress
       ELSE [progress EXCEPT ![Now.model] = IF Now.kind = "load" THEN "ready"
                                            ELSE "downloaded"]
  /\ UNCHANGED requests

(* The end of the operation: its progress entry, the answer, the lock. *)
Finish(ok) ==
  /\ op' = Idle
  /\ line' = Tail(line)
  /\ progress' =
       IF Now.kind \notin {"load", "download"} THEN progress
       ELSE [progress EXCEPT ![Now.model] = IF ~ok THEN "none"
                                            ELSE IF Now.kind = "load" THEN "ready"
                                            ELSE "downloaded"]
  /\ UNCHANGED requests

Begin ==
  /\ line # <<>> /\ op.pc = "idle"
  /\ \/ /\ Now.kind = "load"
        /\ op' = Listing(op, "evict")
        /\ progress' = [progress EXCEPT ![Now.model] = "loading"]
     \/ /\ Now.kind = "download"
        /\ op' = Listing(op, "check")
        /\ progress' = [progress EXCEPT ![Now.model] = "downloading"]
     \/ /\ Now.kind = "unload"
        /\ op' = [op EXCEPT !.pc = "unload"]
        /\ UNCHANGED progress
     \/ /\ Now.kind = "delete"
        /\ op' = IF At[Now.model] \in Piper THEN [op EXCEPT !.pc = "delete"]
                                             ELSE Listing(op, "status")
        /\ UNCHANGED progress
  /\ UNCHANGED <<memory, use, line, requests, failures, pass>>

(* The provider is missing or unavailable, or does not know the model. *)
RefuseLoad ==
  /\ op.pc = "evict" /\ op.scan = Provider
  /\ failures < MaxFailures /\ failures' = failures + 1
  /\ Finish(FALSE)
  /\ UNCHANGED <<memory, use, pass>>

Wanted ==
  (IF op.pc = "status" THEN {Now.model} ELSE SameType(Now.model)) \intersect loaded

(* A worker that does not answer is left out of the listing.  Its answer of *)
(* a second ago, which only a load or unload that succeeds drops, still     *)
(* shows the model it gave up for a load that failed.                       *)
OpScan ==
  /\ ScanBy(op)
  /\ \/ op' = Scanned(op, Wanted) /\ UNCHANGED failures
     \/ /\ Unanswered(Visited(op))
        /\ op' = [Scanned(op, {}) EXCEPT !.misread = @ \union There(op, Wanted)]
     \/ /\ op.pc = "settle" /\ There(op, op.stale) # {}
        /\ op' = [Scanned(op, op.stale) EXCEPT !.misread = @ \union There(op, op.stale)]
        /\ UNCHANGED failures
  /\ UNCHANGED <<memory, use, api, pass>>

Taken(m) == ((op.taken \ {m}) \union (loaded \ loaded')) \ {Now.model}

(* load: the others of its type go first. *)
ToEvict == op.found \ ({Now.model} \union op.evicted)

EvictOther(m) ==
  /\ op.pc = "evict" /\ op.scan = {}
  /\ m \in ToEvict
  /\ ~Held(At[m])
  /\ \/ /\ Unload(m)
        /\ op' = [op EXCEPT !.evicted = @ \union {m}, !.taken = Taken(m)]
     \/ /\ FailUnload(m)
        /\ op' = [op EXCEPT !.pc = "restore", !.found = {}, !.ok = FALSE]
  /\ UNCHANGED <<use, api, pass>>

EvictDone ==
  /\ op.pc = "evict" /\ op.scan = {} /\ ToEvict = {}
  /\ op' = [op EXCEPT !.pc = "load", !.found = {}]
  /\ UNCHANGED <<memory, use, api, failures, pass>>

(* download: what is loaded, and whether the model is among it, which it is *)
(* not if the worker cannot tell.                                           *)
Check ==
  /\ op.pc = "check" /\ op.scan = {}
  /\ At[Now.model] \notin Worker => ~Held(At[Now.model])
  /\ \E was \in BOOLEAN :
       /\ op' = [op EXCEPT !.pc = "load", !.before = op.found, !.found = {}, !.was = was]
       /\ \/ was = (Now.model \in loaded) /\ UNCHANGED failures
          \/ ~was /\ Unanswered(At[Now.model])
  /\ UNCHANGED <<memory, use, api, pass>>

Stale(ok) == IF ok THEN {} ELSE loaded \ loaded'

(* Mutant: only a failed unload brings the evicted models back. *)
LoadedOrLost(ok) ==
  IF Now.kind = "load" THEN Finish(ok)
  ELSE /\ op' = [IF ok /\ ~op.was THEN [op EXCEPT !.pc = "unload"] ELSE Listing(op, "settle")
                   EXCEPT !.ok = ok, !.taken = Taken(Now.model), !.stale = Stale(ok)]
       /\ UNCHANGED api

(* What follows a load that succeeds or fails. *)
Loaded(ok) ==
  IF Now.kind = "load"
  THEN IF ok THEN Finish(TRUE)
       ELSE /\ op' = [op EXCEPT !.pc = "restore", !.ok = FALSE, !.taken = Taken(Now.model)]
            /\ UNCHANGED api
  ELSE /\ op' = [IF ok /\ ~op.was THEN [op EXCEPT !.pc = "unload"] ELSE Listing(op, "settle")
                   EXCEPT !.ok = ok, !.taken = Taken(Now.model), !.stale = Stale(ok)]
       /\ UNCHANGED api

LoadModel ==
  LET m == Now.model
  IN /\ op.pc = "load"
     /\ ~Held(At[m])
     /\ \/ Load(m) /\ Loaded(TRUE) /\ UNCHANGED failures
        \/ FailLoad(m) /\ Loaded(FALSE)
     /\ UNCHANGED <<use, pass>>

(* unload, and the unload within download and delete. *)
Unloaded(ok) ==
  IF Now.kind = "unload" THEN Finish(ok)
  ELSE /\ op' = IF Now.kind = "download" THEN [Listing(op, "settle") EXCEPT !.ok = ok]
                                        ELSE [op EXCEPT !.pc = "delete"]
       /\ UNCHANGED api

UnloadModel ==
  LET m == Now.model
  IN /\ op.pc = "unload"
     /\ ~Held(At[m])
     /\ \/ Unload(m) /\ Unloaded(TRUE)
        \/ FailUnload(m) /\ Unloaded(FALSE)
     /\ UNCHANGED <<use, pass>>

(* download: what was loaded before and is not now comes back. *)
Settle ==
  /\ op.pc = "settle" /\ op.scan = {}
  /\ op' = [op EXCEPT !.pc = "restore", !.evicted = op.before \ op.found,
                      !.before = {}, !.stale = {}, !.found = {}]
  /\ UNCHANGED <<memory, use, api, failures, pass>>

(* _restore_models: a failure is logged and the next one tried. *)
Restore(m) ==
  /\ op.pc = "restore" /\ m \in op.evicted
  /\ ~Held(At[m])
  /\ \/ Load(m) /\ UNCHANGED failures
     \/ FailLoad(m)
  /\ op' = [op EXCEPT !.evicted = @ \ {m}, !.taken = Taken(m)]
  /\ UNCHANGED <<use, api, pass>>

RestoreDone ==
  /\ op.pc = "restore" /\ op.evicted = {}
  /\ Finish(op.ok)
  /\ UNCHANGED <<memory, use, failures, pass>>

Status ==
  /\ op.pc = "status" /\ op.scan = {}
  /\ op' = [op EXCEPT !.pc = IF op.found # {} THEN "unload" ELSE "delete", !.found = {}]
  /\ UNCHANGED <<memory, use, api, failures, pass>>

(* Mutant: the voice is deleted and left in memory. *)
DeleteArtifactsOnly ==
  /\ op.pc = "delete"
  /\ files' = files \ {Now.model}
  /\ Finish(TRUE)
  /\ UNCHANGED <<loaded, old, use, failures, pass>>

(* Mutant: the deletion leaves a voice in memory alone until some eviction *)
(* pass has unloaded it.                                                  *)
DeleteWhenUnloaded ==
  LET m == Now.model
  IN /\ op.pc = "delete"
     /\ At[m] \in Piper => ~Held(At[m]) /\ m \notin loaded
     /\ files' = files \ {m}
     /\ Finish(TRUE)
     /\ UNCHANGED <<loaded, old, use, failures, pass>>

(* Piper's voices are unloaded and deleted under the provider's lock. *)
DeleteArtifacts ==
  LET m == Now.model
  IN /\ op.pc = "delete"
     /\ IF At[m] \in Piper
        THEN ~Held(At[m]) /\ loaded' = loaded \ {m} /\ old' = old \ {m}
        ELSE UNCHANGED <<loaded, old>>
     /\ files' = files \ {m}
     /\ Finish(TRUE)
     /\ UNCHANGED <<use, failures, pass>>

OpNext ==
  \/ Begin \/ RefuseLoad \/ OpScan \/ EvictDone \/ Check \/ LoadModel
  \/ UnloadModel \/ Settle \/ RestoreDone \/ Status \/ DeleteArtifacts
  \/ \E m \in Model : EvictOther(m) \/ Restore(m)

-----------------------------------------------------------------------------
(* The eviction pass. *)

StartPass ==
  /\ pass.pc = "off"
  /\ pass' = Listing(pass, "ttl")
  /\ UNCHANGED <<memory, use, api, failures, op>>

(* Mutant: models that transcribe are kept whatever their idle time. *)
PassScanSparingStt ==
  /\ ScanBy(pass)
  /\ pass' = Scanned(pass, IF pass.pc = "ttl" THEN old \ Stt ELSE loaded)
  /\ UNCHANGED <<memory, use, api, failures, op>>

(* check_ttl goes by the times of the listing. *)
PassScan ==
  /\ ScanBy(pass)
  /\ \/ pass' = Scanned(pass, IF pass.pc = "ttl" THEN old ELSE loaded) /\ UNCHANGED failures
     \/ pass' = Scanned(pass, {}) /\ Unanswered(Visited(pass))
  /\ UNCHANGED <<memory, use, api, op>>

(* Mutant: the pass does not wait for the provider's lock. *)
EvictAtOnce(m, next) ==
  /\ \/ Unload(m) /\ pass' = next
     \/ FailUnload(m) /\ pass' = Off
  /\ UNCHANGED <<use, api, op>>

(* An unload that fails ends the pass. *)
Evict(m, next) ==
  /\ ~Held(At[m])
  /\ \/ Unload(m) /\ pass' = next
     \/ FailUnload(m) /\ pass' = Off
  /\ UNCHANGED <<use, api, op>>

EvictIdle(m) ==
  /\ pass.pc = "ttl" /\ pass.scan = {}
  /\ m \in pass.found
  /\ Evict(m, [pass EXCEPT !.found = @ \ {m}])

TtlDone ==
  /\ pass.pc = "ttl" /\ pass.scan = {} /\ pass.found = {}
  /\ pass' = IF MaxLoaded = 0 THEN Off
             ELSE [Listing(pass, "lru") EXCEPT !.count = Cardinality(Model) + 1]
  /\ UNCHANGED <<memory, use, api, failures, op>>

(* Listings with nothing between them are one here.  A pass that does not *)
(* get below the count before it stops.                                   *)
EvictMore ==
  Cardinality(pass.found) > MaxLoaded /\ Cardinality(pass.found) < pass.count

(* Which of the listed models is the oldest is left open. *)
EvictLru(m) ==
  /\ pass.pc = "lru" /\ pass.scan = {} /\ EvictMore
  /\ m \in pass.found
  /\ Evict(m, [Listing(pass, "lru") EXCEPT !.count = Cardinality(pass.found)])

LruDone ==
  /\ pass.pc = "lru" /\ pass.scan = {} /\ ~EvictMore
  /\ pass' = Off
  /\ UNCHANGED <<memory, use, api, failures, op>>

PassNext ==
  \/ PassScan \/ TtlDone \/ LruDone
  \/ \E m \in Model : EvictIdle(m) \/ EvictLru(m)

-----------------------------------------------------------------------------

Next ==
  \/ \E kind \in Kind, m \in Model : Ask(kind, m)
  \/ \E u \in User : BeginUse(u) \/ EndUse(u)
  \/ \E m \in Model : Age(m)
  \/ OpNext
  \/ StartPass \/ PassNext

(* A use ends, a thread goes on, and the pass starts again after 30 s.  A  *)
(* lock that is free again and again is taken in the end.                  *)
Fairness ==
  /\ \A u \in User : WF_vars(EndUse(u))
  /\ WF_vars(OpNext) /\ WF_vars(StartPass) /\ WF_vars(PassNext)

Spec == Init /\ [][Next]_vars /\ Fairness

-----------------------------------------------------------------------------
(* Types. *)
TypeOK ==
  /\ loaded \subseteq Model /\ old \subseteq loaded /\ files \subseteq Model
  /\ use \in [User -> [at : {"asked", "using", "done"}, model : Model]]
  /\ line \in Seq([kind : Kind, model : Model])
  /\ requests \in 0..MaxRequests /\ failures \in 0..MaxFailures
  /\ op \in [pc : {"idle", "evict", "check", "load", "unload", "settle", "restore",
                   "status", "delete"},
             scan : SUBSET Provider, found : SUBSET Model, evicted : SUBSET Model,
             before : SUBSET Model, stale : SUBSET Model, was : BOOLEAN, ok : BOOLEAN,
             taken : SUBSET Model, misread : SUBSET Model]
  /\ op.pc # "idle" => line # <<>>
  /\ pass \in [pc : {"off", "ttl", "lru"}, scan : SUBSET Provider,
               found : SUBSET Model, count : Nat]
  /\ progress \in [Model -> {"none", "queued", "loading", "downloading", "ready",
                             "downloaded"}]

(* A model is never unloaded, evicted or replaced on its worker while a *)
(* request uses it.                                                     *)
InUseLoaded == \A u \in User : use[u].at = "using" => use[u].model \in loaded

(* A worker never counts two models as loaded. *)
OnePerWorker ==
  \A m, n \in loaded : At[m] = At[n] /\ At[m] \in Worker => m = n

(* The files of a Piper voice are not deleted under a voice that a request *)
(* has just loaded on first use.                                           *)
PiperOnDisk == \A m \in loaded : At[m] \in Piper => m \in files

(* Progress says that a model is being loaded or downloaded only while an *)
(* operation on it waits or runs.                                         *)
InFlight ==
  \A m \in Model :
    progress[m] \in {"queued", "loading", "downloading"} =>
      \E i \in DOMAIN line : line[i].model = m /\ line[i].kind \in {"load", "download"}

(* A load that fails, and every download, has tried to bring back each     *)
(* model that it unloaded or that its worker gave up for it, whatever else *)
(* was unloaded or used meanwhile, unless a listing was wrong about that   *)
(* very model: its worker did not answer then, or answered from before.    *)
GivenBack ==
  [][/\ op.pc # "idle" /\ op'.pc = "idle"
     /\ Now.kind = "download" \/ (Now.kind = "load" /\ progress'[Now.model] = "none")
     => op.taken \subseteq op.misread]_vars

(* Every operation that was asked for is answered: uses, loads, listings   *)
(* and evictions that wait for each other's locks all come to an end.      *)
RequestsAnswered == line # <<>> ~> line = <<>>

(* Again and again nothing is idle: every model left idle is unloaded, or   *)
(* used again, also when single unloads fail.                               *)
IdleGoes == []<>(old = {})

=============================================================================
