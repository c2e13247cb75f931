------------------------------ MODULE BatchJobs ------------------------------
(***************************************************************************)
(* Batch transcription jobs: src/src/services/batch.py (the HTTP service), *)
(* src/src/batch/worker.py (one asyncio task per job, at most              *)
(* max_concurrent of them past the semaphore) and src/src/batch/store.py   *)
(* (one SQLite row per job, written under the store's lock).               *)
(*                                                                         *)
(* The rows outlive the process; tasks and the uploaded audio do not.  A   *)
(* step is what the event loop runs between two awaits.  A transcription   *)
(* is an await that ends one way or the other: a file that fails is a      *)
(* result like any other.  What it says is left out, its count is kept.    *)
(***************************************************************************)
EXTENDS Naturals, SequencesExt

CONSTANTS
  Job,            \* submissions; job ids are never used twice
  Files,          \* files in a submission
  MaxConcurrent,  \* os_batch_workers
  MaxPending,     \* os_batch_max_pending
  MaxRestarts     \* bound: how often the process may end

ASSUME LimitAssumption ==
  /\ Files \in Nat \ {0} /\ MaxConcurrent \in Nat \ {0}
  /\ MaxPending \in Nat /\ MaxRestarts \in Nat

VARIABLES
  server,    \* the process: "up", "stopping", "down", or "starting"
  restarts,
  request,   \* submit_batch_transcription: "none", "reading", "answered"
  row,       \* status of the job's row, "none" without one
  results,   \* results in the row
  task,      \* the entry in BatchWorker._tasks
  line,      \* tasks that wait for the semaphore, first come first served
  progress   \* len(results) of a task past the semaphore

vars == <<server, restarts, request, row, results, task, line, progress>>

(* "dropped" and "unwinding" are tasks told to cancel, in line and past it, *)
(* that have not run since.                                                 *)
Pending == {j \in Job : task[j] # "none"}
Holding == {j \in Job : task[j] \in {"working", "unwinding"}}

Unfinished(j) == row[j] \in {"queued", "running"}

Init ==
  /\ server = "up" /\ restarts = 0
  /\ request = [j \in Job |-> "none"]
  /\ row = [j \in Job |-> "none"] /\ results = [j \in Job |-> 0]
  /\ task = [j \in Job |-> "none"] /\ line = <<>>
  /\ progress = [j \in Job |-> 0]

-----------------------------------------------------------------------------
(* The service. *)

(* The pending test, before the uploads are read. *)
Accept(j) ==
  /\ server = "up"
  /\ request[j] = "none"
  /\ Cardinality(Pending) < MaxPending
  /\ request' = [request EXCEPT ![j] = "reading"]
  /\ UNCHANGED <<server, restarts, row, results, task, line, progress>>

(* The uploads are too large, or empty: 413, 400 or 422. *)
Refuse(j) ==
  /\ server = "up"
  /\ request[j] = "reading"
  /\ request' = [request EXCEPT ![j] = "answered"]
  /\ UNCHANGED <<server, restarts, row, results, task, line, progress>>

(* The uploads are read: the row is created and the task submitted. *)
Submit(j) ==
  /\ server = "up"
  /\ request[j] = "reading"
  /\ request' = [request EXCEPT ![j] = "answered"]
  /\ row' = [row EXCEPT ![j] = "queued"]
  /\ task' = [task EXCEPT ![j] = "line"]
  /\ line' = Append(line, j)
  /\ UNCHANGED <<server, restarts, results, progress>>

(* task.cancel(), as in BatchWorker.cancel: the task ends when it runs next. *)
Cancelled(t) == CASE t = "line" -> "dropped" [] t = "working" -> "unwinding" [] OTHER -> t

(* A cancelled waiter leaves the line of the semaphore at once. *)
LeaveLine(j) ==
  \/ task[j] # "line" /\ UNCHANGED line
  \/ \E i \in DOMAIN line : line[i] = j /\ line' = RemoveAt(line, i)

(* delete_job: an unfinished job is cancelled, and the row goes at once. *)
Delete(j) ==
  /\ server = "up"
  /\ row[j] # "none"
  /\ IF Unfinished(j)
     THEN task' = [task EXCEPT ![j] = Cancelled(@)] /\ LeaveLine(j)
     ELSE UNCHANGED <<task, line>>
  /\ row' = [row EXCEPT ![j] = "none"]
  /\ UNCHANGED <<server, restarts, request, results, progress>>

-----------------------------------------------------------------------------
(* The worker. *)

(* Mutant: the store's update inserts the row it does not find. *)
UpdateInserting(j, status, n) ==
  /\ row' = [row EXCEPT ![j] = status]
  /\ results' = [results EXCEPT ![j] = n]

(* BatchJobStore.update: a row that is gone is not written. *)
Update(j, status, n) ==
  IF row[j] = "none" THEN UNCHANGED <<row, results>>
  ELSE /\ row' = [row EXCEPT ![j] = status]
       /\ results' = [results EXCEPT ![j] = n]

(* The semaphore lets the first in line through. *)
StartJob ==
  /\ line # <<>>
  /\ Cardinality(Holding) < MaxConcurrent
  /\ LET j == Head(line)
     IN /\ task' = [task EXCEPT ![j] = "working"]
        /\ progress' = [progress EXCEPT ![j] = 0]
        /\ Update(j, "running", results[j])
  /\ line' = Tail(line)
  /\ UNCHANGED <<server, restarts, request>>

LastFile(n) == n = Files

(* A transcription ends: its result is stored, and after the last one the  *)
(* job is done.                                                            *)
FinishFile(j) ==
  /\ task[j] = "working"
  /\ progress' = [progress EXCEPT ![j] = @ + 1]
  /\ IF LastFile(progress'[j])
     THEN Update(j, "done", progress'[j]) /\ task' = [task EXCEPT ![j] = "none"]
     ELSE Update(j, row[j], progress'[j]) /\ UNCHANGED task
  /\ UNCHANGED <<server, restarts, request, line>>

(* An exception that is not the transcription's: the store's.              *)
FailJob(j) ==
  /\ task[j] = "working"
  /\ Update(j, "failed", results[j])
  /\ task' = [task EXCEPT ![j] = "none"]
  /\ UNCHANGED <<server, restarts, request, line, progress>>

(* CancelledError: a job past the semaphore fails, one still in line goes  *)
(* without a trace.                                                        *)
Unwind(j) ==
  /\ task[j] \in {"dropped", "unwinding"}
  /\ IF task[j] = "unwinding" THEN Update(j, "failed", results[j])
                              ELSE UNCHANGED <<row, results>>
  /\ task' = [task EXCEPT ![j] = "none"]
  /\ UNCHANGED <<server, restarts, request, line, progress>>

-----------------------------------------------------------------------------
(* The process. *)

(* lifespan's shutdown: all tasks are cancelled and awaited. *)
Shutdown ==
  /\ server = "up"
  /\ restarts < MaxRestarts
  /\ server' = "stopping"
  /\ task' = [j \in Job |-> Cancelled(task[j])]
  /\ line' = <<>>
  /\ request' = [j \in Job |-> IF request[j] = "reading" THEN "answered" ELSE request[j]]
  /\ UNCHANGED <<restarts, row, results, progress>>

(* The end of the shutdown, or a crash at any moment. *)
End ==
  /\ server # "down"
  /\ restarts < MaxRestarts
  /\ server' = "down"
  /\ restarts' = restarts + 1
  /\ request' = [j \in Job |-> IF request[j] = "reading" THEN "answered" ELSE request[j]]
  /\ task' = [j \in Job |-> "none"]
  /\ line' = <<>>
  /\ UNCHANGED <<row, results, progress>>

Start ==
  /\ server = "down"
  /\ server' = "starting"
  /\ UNCHANGED <<restarts, request, row, results, task, line, progress>>

(* recover_interrupted_jobs, row by row. *)
Recover(j) ==
  /\ server = "starting"
  /\ Unfinished(j)
  /\ row' = [row EXCEPT ![j] = "failed"]
  /\ UNCHANGED <<server, restarts, request, results, task, line, progress>>

(* Mutant: jobs that had not started are not recovered. *)
ServeWithQueued ==
  /\ server = "starting"
  /\ \A j \in Job : row[j] # "running"
  /\ server' = "up"
  /\ UNCHANGED <<restarts, request, row, results, task, line, progress>>

(* Requests are served once no interrupted job is left. *)
Serve ==
  /\ server = "starting"
  /\ \A j \in Job : ~Unfinished(j)
  /\ server' = "up"
  /\ UNCHANGED <<restarts, request, row, results, task, line, progress>>

JobNext(j) ==
  \/ Accept(j) \/ Refuse(j) \/ Submit(j) \/ Delete(j)
  \/ FinishFile(j) \/ FailJob(j) \/ Unwind(j) \/ Recover(j)

(* Everything was asked for and answered. *)
Rest ==
  /\ server = "up" /\ Pending = {}
  /\ \A j \in Job : request[j] = "answered"
  /\ UNCHANGED vars

Next ==
  (\E j \in Job : JobNext(j)) \/ StartJob \/ Shutdown \/ End \/ Start \/ Serve \/ Rest

(* The loop runs its tasks, a transcription ends, a process that is going  *)
(* down ends and comes up again.  Nobody has to submit or delete a job.    *)
Fairness ==
  /\ \A j \in Job : WF_vars(FinishFile(j) \/ FailJob(j)) /\ WF_vars(Unwind(j))
                  /\ WF_vars(Recover(j))
  /\ WF_vars(StartJob) /\ WF_vars(Start) /\ WF_vars(Serve)
  /\ WF_vars(server = "stopping" /\ End)

Spec == Init /\ [][Next]_vars /\ Fairness

-----------------------------------------------------------------------------
TypeOK ==
  /\ server \in {"up", "stopping", "down", "starting"}
  /\ restarts \in 0..MaxRestarts
  /\ request \in [Job -> {"none", "reading", "answered"}]
  /\ row \in [Job -> {"none", "queued", "running", "done", "failed"}]
  /\ results \in [Job -> 0..Files]
  /\ task \in [Job -> {"none", "line", "working", "dropped", "unwinding"}]
  /\ line \in Seq(Job)
  /\ progress \in [Job -> 0..Files]

(* No zombies: while requests are served, a job that a client sees queued  *)
(* or running has a task that will finish it, whatever was cancelled,      *)
(* deleted or interrupted before (worker.py:17-46, 108-132).               *)
NoZombie ==
  server = "up" => \A j \in Job : Unfinished(j) => task[j] \in {"line", "working"}

(* A job that is over stays as it is until it is deleted, and a deleted    *)
(* job stays deleted: no task, cancelled or not, writes to it any more     *)
(* (store.py:131-141, services/batch.py:139-148).                          *)
VerdictStands ==
  [][\A j \in Job :
       /\ row[j] \in {"done", "failed"} =>
            row'[j] \in {row[j], "none"} /\ (row'[j] = row[j] => results'[j] = results[j])
       /\ row[j] = "none" /\ request[j] = "answered" => row'[j] = "none"]_vars

(* Every job that was accepted is decided, through restarts. *)
Decided == \A j \in Job : row[j] = "queued" ~> ~Unfinished(j)

=============================================================================
