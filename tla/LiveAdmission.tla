---------------------------- MODULE LiveAdmission ----------------------------
(***************************************************************************)
(* Admission of Live Reader sockets (src/src/live_tts/server.py).          *)
(*                                                                         *)
(* The process serves at most max(1, tts_live_max_connections) Live Reader *)
(* sessions.  A session's synthesis runs on a one-thread executor that it  *)
(* cannot interrupt, so a session whose shutdown deadline passes while its *)
(* worker is still busy leaves its slot behind in the state "draining";    *)
(* the worker's done-callback gives the slot back.                         *)
(*                                                                         *)
(* This is the abstract specification: what a session does between being   *)
(* admitted and being shut down is reduced to submitting workers and       *)
(* collecting them.  LiveReader is the detailed session and implements it. *)
(***************************************************************************)
EXTENDS Naturals, FiniteSets, Sequences

CONSTANTS
  Conn,   \* client connections; one may come back after it was served
  Limit   \* settings.tts_live_max_connections

ASSUME LimitAssumption == Limit \in Nat

VARIABLES
  slot,    \* LiveTTSAdmission._states: "none" is a token that is not there
  task,    \* where live_tts_endpoint is for the connection
  worker,  \* the session's _worker_future
  queue    \* submissions waiting for the one thread of _live_executor

vars == <<slot, task, worker, queue>>

SlotStates   == {"none", "active", "draining"}
TaskStates   == {"idle", "serving", "stopping", "handedOver", "raised"}
WorkerStates == {"none", "queued", "running", "finished"}

(* max(1, limit): a limit of zero still admits one session. *)
Capacity == IF Limit = 0 THEN 1 ELSE Limit

Held == {c \in Conn : slot[c] # "none"}

Unfinished(c) == worker[c] \in {"queued", "running"}

Init ==
  /\ slot   = [c \in Conn |-> "none"]
  /\ task   = [c \in Conn |-> "idle"]
  /\ worker = [c \in Conn |-> "none"]
  /\ queue  = <<>>

(* Mutant: the limit test lets one session too many in. *)
AdmitOffByOne(c) ==
  /\ task[c] = "idle"
  /\ Cardinality(Held) <= Capacity
  /\ slot' = [slot EXCEPT ![c] = "active"]
  /\ task' = [task EXCEPT ![c] = "serving"]
  /\ UNCHANGED <<worker, queue>>

(* LiveTTSAdmission.acquire succeeds and the session starts.               *)
Admit(c) ==
  /\ task[c] = "idle"
  /\ Cardinality(Held) < Capacity
  /\ slot' = [slot EXCEPT ![c] = "active"]
  /\ task' = [task EXCEPT ![c] = "serving"]
  /\ UNCHANGED <<worker, queue>>

(* A refused socket changes nothing: it is told why and closed.            *)
Refuse(c) ==
  /\ task[c] = "idle"
  /\ Cardinality(Held) >= Capacity
  /\ UNCHANGED vars

(* _synthesize_segment hands a segment to the executor.  It does not look  *)
(* at _closing between announcing the response and submitting it, so this  *)
(* can also happen while the session is being shut down.                   *)
Submit(c) ==
  /\ task[c] \in {"serving", "stopping"}
  /\ worker[c] = "none"
  /\ worker' = [worker EXCEPT ![c] = "queued"]
  /\ queue' = Append(queue, c)
  /\ UNCHANGED <<slot, task>>

(* The executor's thread takes the next submission. *)
StartWorker(c) ==
  /\ queue # <<>>
  /\ c = Head(queue)
  /\ \A d \in Conn : worker[d] # "running"
  /\ worker' = [worker EXCEPT ![c] = "running"]
  /\ queue' = Tail(queue)
  /\ UNCHANGED <<slot, task>>

(* _synthesize_worker returns and its future is resolved. *)
FinishWorker(c) ==
  /\ worker[c] = "running"
  /\ worker' = [worker EXCEPT ![c] = "finished"]
  /\ UNCHANGED <<slot, task, queue>>

(* The synthesis task has awaited the future and clears _worker_future. *)
Collect(c) ==
  /\ task[c] \in {"serving", "stopping"}
  /\ worker[c] = "finished"
  /\ worker' = [worker EXCEPT ![c] = "none"]
  /\ UNCHANGED <<slot, task, queue>>

(* run() ended, for whatever reason: mark_draining, then shutdown(). *)
BeginShutdown(c) ==
  /\ task[c] = "serving"
  /\ slot' = [slot EXCEPT ![c] = "draining"]
  /\ task' = [task EXCEPT ![c] = "stopping"]
  /\ UNCHANGED <<worker, queue>>

(* shutdown() returned True: no worker is left, the slot is released. *)
ShutdownClean(c) ==
  /\ task[c] = "stopping"
  /\ ~Unfinished(c)
  /\ slot' = [slot EXCEPT ![c] = "none"]
  /\ task' = [task EXCEPT ![c] = "idle"]
  /\ worker' = [worker EXCEPT ![c] = "none"]
  /\ UNCHANGED queue

(* Mutant: the endpoint releases the slot whatever shutdown() returned. *)
ShutdownLateReleases(c) ==
  /\ task[c] = "stopping"
  /\ Unfinished(c)
  /\ slot' = [slot EXCEPT ![c] = "none"]
  /\ task' = [task EXCEPT ![c] = "handedOver"]
  /\ UNCHANGED <<worker, queue>>

(* shutdown() returned False at its deadline: the release is left to the   *)
(* worker future's done-callback.                                          *)
ShutdownLate(c) ==
  /\ task[c] = "stopping"
  /\ Unfinished(c)
  /\ task' = [task EXCEPT ![c] = "handedOver"]
  /\ UNCHANGED <<slot, worker, queue>>

(* shutdown() raises what the synthesis task died of, before it had a      *)
(* worker: the endpoint is left at that line and nobody has the token.     *)
ShutdownRaises(c) ==
  /\ task[c] = "stopping"
  /\ worker[c] = "none"
  /\ task' = [task EXCEPT ![c] = "raised"]
  /\ UNCHANGED <<slot, worker, queue>>

(* Mutant: shutdown() returned False and the done-callback was not registered. *)
ReleaseLateLost(c) ==
  /\ task[c] = "handedOver"
  /\ worker[c] = "finished"
  /\ task' = [task EXCEPT ![c] = "idle"]
  /\ worker' = [worker EXCEPT ![c] = "none"]
  /\ UNCHANGED <<slot, queue>>

(* The done-callback: _admission.release(token). *)
ReleaseLate(c) ==
  /\ task[c] = "handedOver"
  /\ worker[c] = "finished"
  /\ slot' = [slot EXCEPT ![c] = "none"]
  /\ task' = [task EXCEPT ![c] = "idle"]
  /\ worker' = [worker EXCEPT ![c] = "none"]
  /\ UNCHANGED queue

Stop(c) == ShutdownClean(c) \/ ShutdownLate(c) \/ ShutdownRaises(c)

Next ==
  \E c \in Conn :
    \/ Admit(c) \/ Refuse(c)
    \/ Submit(c) \/ StartWorker(c) \/ FinishWorker(c) \/ Collect(c)
    \/ BeginShutdown(c) \/ ShutdownClean(c) \/ ShutdownLate(c) \/ ShutdownRaises(c)
    \/ ReleaseLate(c)

(* The thread runs what it is given, a synthesis ends, shutdown() is       *)
(* bounded by its deadline and the loop runs callbacks.  Nothing makes a   *)
(* client come, go, or have text to speak.                                 *)
Fairness ==
  \A c \in Conn :
    /\ WF_vars(StartWorker(c)) /\ WF_vars(FinishWorker(c))
    /\ WF_vars(Stop(c)) /\ WF_vars(ReleaseLate(c))

Spec == Init /\ [][Next]_vars /\ Fairness

-----------------------------------------------------------------------------
TypeOK ==
  /\ slot   \in [Conn -> SlotStates]
  /\ task   \in [Conn -> TaskStates]
  /\ worker \in [Conn -> WorkerStates]
  /\ queue  \in Seq(Conn)

(* Never more sessions, served or draining, than the configured limit      *)
(* (server.py:48): a session that left a worker behind still counts.       *)
WithinCapacity == Cardinality(Held) <= Capacity

(* A worker that is queued or running belongs to a connection that still   *)
(* holds its slot, even after the socket and its session are gone: the     *)
(* reason the "draining" state exists (server.py:369-374, 979-986).        *)
SlotCoversWorker == \A c \in Conn : Unfinished(c) => slot[c] # "none"

(* The submissions waiting for the thread are exactly the queued workers,  *)
(* each once: what makes the executor start only a worker whose session    *)
(* is still waiting for it.                                                *)
QueueMatches ==
  /\ \A i \in 1..Len(queue) : worker[queue[i]] = "queued"
  /\ \A i, j \in 1..Len(queue) : i # j => queue[i] # queue[j]

(* A slot is held exactly from admission until the endpoint, or the        *)
(* callback it left behind, lets go; a connection without one has no       *)
(* worker; "draining" is the state of a session being shut down.           *)
SlotMatchesTask ==
  \A c \in Conn :
    /\ slot[c] = "none" <=> task[c] = "idle"
    /\ slot[c] = "active" <=> task[c] = "serving"
    /\ slot[c] = "none" => worker[c] = "none"

(* The inductive invariant behind WithinCapacity and SlotCoversWorker.     *)
IInv ==
  /\ TypeOK
  /\ QueueMatches
  /\ SlotMatchesTask
  /\ IsFiniteSet(Held)
  /\ WithinCapacity

(* Whatever a session leaves behind is released, unless its synthesis task *)
(* died of an exception: that slot is lost until the process restarts      *)
(* (server.py:396-401, 974-986; ShutdownRaises).                           *)
DrainEnds ==
  \A c \in Conn : slot[c] = "draining" ~> (slot[c] = "none" \/ task[c] = "raised")
=============================================================================
