--------------------------- MODULE BatchJobsProofs ---------------------------
(***************************************************************************)
(* What BatchJobs promises for any number of jobs, files, workers and      *)
(* restarts: types, no zombies, and verdicts that stand.                   *)
(*                                                                         *)
(* All rest on one invariant that ties the row of a job, its task and its  *)
(* place in the semaphore's line to each other: a task, which may still    *)
(* write, is always that of a job that is not over, or whose row is gone.  *)
(***************************************************************************)
EXTENDS BatchJobs, TLAPS

(* Who stands in line waits, and nobody stands in it twice. *)
LineHolds ==
  /\ \A i \in 1..Len(line) : task[line[i]] = "line"
  /\ \A i, k \in 1..Len(line) : line[i] = line[k] => i = k

(* A task exists only for a submitted job, and the row of that job is not  *)
(* over.                                                                   *)
TaskMatchesRow ==
  \A j \in Job :
    /\ request[j] # "answered" => row[j] = "none" /\ task[j] = "none"
    /\ task[j] # "none" => row[j] \in {"none", "queued", "running"}

(* A task at work has a file left. *)
FilesLeft == \A j \in Job : task[j] = "working" => progress[j] < Files

NoTaskWhenDown == server \in {"down", "starting"} => \A j \in Job : task[j] = "none"

IInv ==
  TypeOK /\ LineHolds /\ TaskMatchesRow /\ FilesLeft /\ NoTaskWhenDown /\ NoZombie

-----------------------------------------------------------------------------
(* What RemoveAt returns. *)
LEMMA RemoveAtFacts ==
  ASSUME NEW S, NEW s \in Seq(S), NEW i \in 1..Len(s)
  PROVE  /\ RemoveAt(s, i) \in Seq(S)
         /\ Len(RemoveAt(s, i)) = Len(s) - 1
         /\ \A k \in 1..(Len(s) - 1) :
              RemoveAt(s, i)[k] = IF k < i THEN s[k] ELSE s[k + 1]
<1> DEFINE front == SubSeq(s, 1, i - 1)
           back  == SubSeq(s, i + 1, Len(s))
<1>1. /\ front \in Seq(S) /\ Len(front) = i - 1
      /\ \A k \in 1..(i - 1) : front[k] = s[k]
  OBVIOUS
<1>2. /\ back \in Seq(S) /\ Len(back) = Len(s) - i
      /\ \A k \in 1..(Len(s) - i) : back[k] = s[k + i]
  OBVIOUS
<1>3. RemoveAt(s, i) = front \o back
  BY DEF RemoveAt
<1> HIDE DEF front, back
<1>4. /\ front \o back \in Seq(S) /\ Len(front \o back) = Len(s) - 1
  BY <1>1, <1>2
<1>5. ASSUME NEW k \in 1..(Len(s) - 1)
      PROVE  (front \o back)[k] = IF k < i THEN s[k] ELSE s[k + 1]
  <2>1. CASE k < i
    BY <1>1, <1>2, <2>1
  <2>2. CASE ~(k < i)
    <3>1. (front \o back)[k] = back[k - Len(front)]
      BY <1>1, <1>2, <2>2
    <3>2. k - (i - 1) \in 1..(Len(s) - i)
      BY <2>2
    <3>3. back[k - (i - 1)] = s[(k - (i - 1)) + i]
      BY <1>2, <3>2
    <3> QED BY <1>1, <2>2, <3>1, <3>3
  <2> QED BY <2>1, <2>2
<1> QED BY <1>3, <1>4, <1>5

(* A cancelled waiter leaves nobody behind, and the others keep their turn. *)
LEMMA LeaveLineKeeps ==
  ASSUME TypeOK, LineHolds, NEW j \in Job, LeaveLine(j),
         task' = [task EXCEPT ![j] = Cancelled(@)]
  PROVE  line' \in Seq(Job) /\ LineHolds'
<1>1. CASE task[j] # "line" /\ UNCHANGED line
  <2>1. \A i \in 1..Len(line) : line[i] \in Job /\ line[i] # j
    BY <1>1 DEF TypeOK, LineHolds
  <2> QED BY <1>1, <2>1 DEF TypeOK, LineHolds
<1>2. CASE \E i \in DOMAIN line : line[i] = j /\ line' = RemoveAt(line, i)
  <2>1. PICK i \in 1..Len(line) : line[i] = j /\ line' = RemoveAt(line, i)
    BY <1>2 DEF TypeOK
  <2>2. /\ line' \in Seq(Job) /\ Len(line') = Len(line) - 1
        /\ \A k \in 1..(Len(line) - 1) :
             line'[k] = IF k < i THEN line[k] ELSE line[k + 1]
    BY <2>1, RemoveAtFacts DEF TypeOK
  <2>3. \A k \in 1..(Len(line) - 1) :
          \E m \in 1..Len(line) : m # i /\ line'[k] = line[m] /\ m = IF k < i THEN k ELSE k + 1
    <3>1. TAKE k \in 1..(Len(line) - 1)
    <3>2. CASE k < i
      BY <2>2, <3>2
    <3>3. CASE ~(k < i)
      <4>1. k + 1 \in 1..Len(line) /\ k + 1 # i
        BY <3>3, <2>2
      <4> QED BY <2>2, <3>3, <4>1
    <3> QED BY <3>2, <3>3
  <2>4. \A m \in 1..Len(line) : m # i => line[m] \in Job /\ line[m] # j
    <3>1. \A m \in 1..Len(line) : line[m] \in Job
      BY DEF TypeOK
    <3>2. \A m \in 1..Len(line) : line[m] = line[i] => m = i
      BY <2>1 DEF LineHolds
    <3> QED BY <2>1, <3>1, <3>2
  <2>5. \A k \in 1..Len(line') : task'[line'[k]] = "line"
    <3>1. \A k \in 1..(Len(line) - 1) : line'[k] \in Job /\ line'[k] # j /\ task[line'[k]] = "line"
      <4>1. TAKE k \in 1..(Len(line) - 1)
      <4>2. PICK m \in 1..Len(line) : m # i /\ line'[k] = line[m]
        BY <2>3
      <4> QED BY <2>4, <4>2 DEF LineHolds
    <3>2. \A k \in Job : k # j => task'[k] = task[k]
      BY DEF TypeOK
    <3> QED BY <2>2, <3>1, <3>2
  <2>6. \A k, n \in 1..Len(line') : line'[k] = line'[n] => k = n
    BY <2>2, <2>3 DEF LineHolds
  <2> QED BY <2>2, <2>5, <2>6 DEF LineHolds
<1> QED BY <1>1, <1>2 DEF LeaveLine

(* BatchJobStore.update writes one row, if it is there, and keeps types.   *)
LEMMA UpdateFacts ==
  ASSUME TypeOK, NEW j \in Job, NEW n \in 0..Files,
         NEW status \in {"none", "queued", "running", "done", "failed"}, Update(j, status, n)
  PROVE  /\ row' \in [Job -> {"none", "queued", "running", "done", "failed"}]
         /\ results' \in [Job -> 0..Files]
         /\ \A k \in Job : k # j \/ row[j] = "none" => row'[k] = row[k] /\ results'[k] = results[k]
         /\ row[j] # "none" => row'[j] = status /\ results'[j] = n
<1>1. CASE row[j] = "none"
  BY <1>1 DEF Update, TypeOK
<1>2. CASE row[j] # "none"
  <2>1. row' = [row EXCEPT ![j] = status] /\ results' = [results EXCEPT ![j] = n]
    BY <1>2 DEF Update
  <2> QED BY <1>2, <2>1 DEF TypeOK
<1> QED BY <1>1, <1>2

-----------------------------------------------------------------------------
(* IInv is inductive. *)
LEMMA InitEstablishes == Init => IInv
BY LimitAssumption
   DEF Init, IInv, TypeOK, LineHolds, TaskMatchesRow, FilesLeft, NoTaskWhenDown,
       NoZombie, Unfinished

LEMMA StepPreserves == IInv /\ [Next]_vars => IInv'
<1> SUFFICES ASSUME IInv, [Next]_vars PROVE IInv'
  OBVIOUS
<1> USE LimitAssumption
<1>1. ASSUME NEW j \in Job, Accept(j) PROVE IInv'
  BY <1>1 DEF Accept, IInv, TypeOK, LineHolds, TaskMatchesRow, FilesLeft, NoTaskWhenDown,
       NoZombie, Unfinished
<1>2. ASSUME NEW j \in Job, Refuse(j) PROVE IInv'
  BY <1>2 DEF Refuse, IInv, TypeOK, LineHolds, TaskMatchesRow, FilesLeft, NoTaskWhenDown,
       NoZombie, Unfinished
<1>3. ASSUME NEW j \in Job, Submit(j) PROVE IInv'
  <2>1. \A i \in 1..Len(line) : line[i] \in Job /\ line[i] # j
    <3>1. task[j] = "none"
      BY <1>3 DEF Submit, IInv, TaskMatchesRow
    <3>2. \A i \in 1..Len(line) : line[i] \in Job /\ task[line[i]] = "line"
      BY DEF IInv, TypeOK, LineHolds
    <3> QED BY <3>1, <3>2
  <2>2. /\ line' \in Seq(Job) /\ Len(line') = Len(line) + 1
        /\ \A i \in 1..Len(line) : line'[i] = line[i]
        /\ line'[Len(line) + 1] = j
    BY <1>3 DEF Submit, IInv, TypeOK
  <2>3. TypeOK'
    BY <1>3, <2>2 DEF Submit, IInv, TypeOK
  <2>4. LineHolds'
    <3>1. \A k \in Job : task'[k] = IF k = j THEN "line" ELSE task[k]
      BY <1>3 DEF Submit, IInv, TypeOK
    <3>2. \A i \in 1..Len(line) : task'[line'[i]] = "line" /\ line'[i] # j
      BY <2>1, <2>2, <3>1 DEF IInv, LineHolds
    <3>3. Len(line) \in Nat /\ 1..Len(line') = (1..Len(line)) \cup {Len(line) + 1}
      BY <2>2 DEF IInv, TypeOK
    <3>4. task'[line'[Len(line) + 1]] = "line"
      BY <2>2, <3>1
    <3>5. \A i, k \in 1..Len(line) : line'[i] = line'[k] => i = k
      BY <2>2 DEF IInv, LineHolds
    <3> QED BY <2>2, <3>2, <3>3, <3>4, <3>5 DEF LineHolds
  <2>5. (TaskMatchesRow /\ FilesLeft /\ NoTaskWhenDown /\ NoZombie)'
    BY <1>3 DEF Submit, IInv, TypeOK, TaskMatchesRow, FilesLeft, NoTaskWhenDown,
       NoZombie, Unfinished
  <2> QED BY <2>3, <2>4, <2>5 DEF IInv
<1>4. ASSUME NEW j \in Job, Delete(j) PROVE IInv'
  <2>1. CASE ~Unfinished(j)
    BY <1>4, <2>1 DEF Delete, IInv, TypeOK, LineHolds, TaskMatchesRow, FilesLeft,
       NoTaskWhenDown, NoZombie, Unfinished
  <2>2. CASE Unfinished(j)
    <3>1. task' = [task EXCEPT ![j] = Cancelled(@)] /\ LeaveLine(j)
      BY <1>4, <2>2 DEF Delete
    <3>2. line' \in Seq(Job) /\ LineHolds'
      BY <3>1, LeaveLineKeeps DEF IInv
    <3>3. TypeOK'
      BY <1>4, <3>1, <3>2 DEF Delete, IInv, TypeOK, Cancelled
    <3>4. (TaskMatchesRow /\ FilesLeft /\ NoTaskWhenDown /\ NoZombie)'
      BY <1>4, <3>1 DEF Delete, IInv, TypeOK, TaskMatchesRow, FilesLeft, NoTaskWhenDown,
         NoZombie, Unfinished, Cancelled
    <3> QED BY <3>2, <3>3, <3>4 DEF IInv
  <2> QED BY <2>1, <2>2
<1>5. CASE StartJob
  <2> DEFINE j == Head(line)
  <2>1. /\ j \in Job /\ j = line[1] /\ task[j] = "line"
        /\ Len(line) \in Nat /\ 1 \in 1..Len(line)
        /\ line' \in Seq(Job) /\ Len(line') = Len(line) - 1
        /\ \A i \in 1..(Len(line) - 1) : line'[i] = line[i + 1]
    BY <1>5 DEF StartJob, IInv, TypeOK, LineHolds
  <2>2. /\ task' = [task EXCEPT ![j] = "working"]
        /\ progress' = [progress EXCEPT ![j] = 0]
        /\ Update(j, "running", results[j])
        /\ UNCHANGED <<server, restarts, request>>
    BY <1>5 DEF StartJob
  <2> HIDE DEF j
  <2>3. TypeOK'
    BY <2>1, <2>2 DEF Update, IInv, TypeOK
  <2>4. LineHolds'
    <3>1. \A i \in 1..(Len(line) - 1) : line'[i] \in Job /\ line'[i] # j /\ task[line'[i]] = "line"
      <4>1. TAKE i \in 1..(Len(line) - 1)
      <4>2. i + 1 \in 1..Len(line) /\ i + 1 # 1
        BY <2>1
      <4>3. line[i + 1] \in Job /\ task[line[i + 1]] = "line"
        BY <4>2 DEF IInv, TypeOK, LineHolds
      <4>4. line[i + 1] = line[1] => i + 1 = 1
        BY <2>1, <4>2 DEF IInv, LineHolds
      <4> QED BY <2>1, <4>2, <4>3, <4>4
    <3>2. \A i, k \in 1..(Len(line) - 1) : line'[i] = line'[k] => i = k
      <4>1. TAKE i, k \in 1..(Len(line) - 1)
      <4>2. i + 1 \in 1..Len(line) /\ k + 1 \in 1..Len(line)
        BY <2>1
      <4>3. line[i + 1] = line[k + 1] => i + 1 = k + 1
        BY <4>2 DEF IInv, LineHolds
      <4> QED BY <2>1, <4>3
    <3>3. \A k \in Job : k # j => task'[k] = task[k]
      BY <2>2 DEF IInv, TypeOK
    <3> QED BY <2>1, <3>1, <3>2, <3>3 DEF LineHolds
  <2>5. /\ row' = [row EXCEPT ![j] = IF row[j] = "none" THEN "none" ELSE "running"]
        /\ row[j] \in {"none", "queued", "running"}
    BY <2>1, <2>2 DEF Update, IInv, TypeOK, TaskMatchesRow
  <2>6. TaskMatchesRow'
    BY <2>1, <2>2, <2>5 DEF IInv, TypeOK, TaskMatchesRow
  <2>7. (FilesLeft /\ NoTaskWhenDown)'
    BY <2>1, <2>2 DEF IInv, TypeOK, FilesLeft, NoTaskWhenDown
  <2>8. NoZombie'
    BY <2>1, <2>2, <2>5 DEF IInv, TypeOK, NoZombie, Unfinished
  <2> QED BY <2>3, <2>4, <2>6, <2>7, <2>8 DEF IInv
<1>6. ASSUME NEW j \in Job, FinishFile(j) PROVE IInv'
  <2>0. /\ progress[j] \in 0..Files /\ progress[j] < Files
        /\ progress' = [progress EXCEPT ![j] = progress[j] + 1]
        /\ progress'[j] = progress[j] + 1 /\ progress'[j] \in 0..Files
        /\ \A k \in Job : k # j => progress'[k] = progress[k]
    BY <1>6 DEF FinishFile, IInv, TypeOK, FilesLeft
  <2>1. TypeOK'
    <3>1. progress' \in [Job -> 0..Files]
      BY <2>0 DEF IInv, TypeOK
    <3>2. row' \in [Job -> {"none", "queued", "running", "done", "failed"}]
          /\ results' \in [Job -> 0..Files]
      <4>1. \/ Update(j, "done", progress'[j])
            \/ Update(j, row[j], progress'[j])
        BY <1>6 DEF FinishFile
      <4>2. row[j] \in {"none", "queued", "running", "done", "failed"}
        BY DEF IInv, TypeOK
      <4> QED BY <2>0, <4>1, <4>2, UpdateFacts DEF IInv
    <3> QED BY <1>6, <3>1, <3>2 DEF FinishFile, IInv, TypeOK
  <2>2. LineHolds'
    <3>1. \A i \in 1..Len(line) : line[i] \in Job /\ line[i] # j
      BY <1>6 DEF FinishFile, IInv, TypeOK, LineHolds
    <3>2. line' = line /\ \A k \in Job : k # j => task'[k] = task[k]
      BY <1>6 DEF FinishFile, IInv, TypeOK
    <3> QED BY <3>1, <3>2 DEF IInv, LineHolds
  <2>3. CASE LastFile(progress'[j])
    <3>1. /\ task' = [task EXCEPT ![j] = "none"] /\ Update(j, "done", progress'[j])
          /\ UNCHANGED <<server, request>>
      BY <1>6, <2>3 DEF FinishFile
    <3>2. (TaskMatchesRow /\ NoTaskWhenDown /\ NoZombie)'
      BY <3>1 DEF Update, IInv, TypeOK, TaskMatchesRow, NoTaskWhenDown, NoZombie, Unfinished
    <3>3. FilesLeft'
      BY <2>0, <3>1 DEF IInv, TypeOK, FilesLeft
    <3> QED BY <2>1, <2>2, <3>2, <3>3 DEF IInv
  <2>4. CASE ~LastFile(progress'[j])
    <3>1. progress'[j] < Files /\ UNCHANGED task /\ Update(j, row[j], progress'[j])
      BY <1>6, <2>0, <2>4 DEF FinishFile, LastFile
    <3>2. UNCHANGED row
      BY <3>1 DEF Update, IInv, TypeOK
    <3>3. FilesLeft'
      BY <2>0, <3>1 DEF IInv, FilesLeft
    <3>4. (TaskMatchesRow /\ NoTaskWhenDown /\ NoZombie)'
      BY <1>6, <3>1, <3>2 DEF FinishFile, IInv, TaskMatchesRow, NoTaskWhenDown, NoZombie,
         Unfinished
    <3> QED BY <3>3, <3>4, <2>1, <2>2 DEF IInv
  <2> QED BY <2>1, <2>2, <2>3, <2>4 DEF IInv
<1>7. ASSUME NEW j \in Job, FailJob(j) PROVE IInv'
  <2>1. TypeOK'
    <3>1. Update(j, "failed", results[j]) /\ results[j] \in 0..Files
      BY <1>7 DEF FailJob, IInv, TypeOK
    <3>2. row' \in [Job -> {"none", "queued", "running", "done", "failed"}]
          /\ results' \in [Job -> 0..Files]
      BY <3>1, UpdateFacts DEF IInv
    <3> QED BY <1>7, <3>2 DEF FailJob, IInv, TypeOK
  <2>2. LineHolds'
    <3>1. \A i \in 1..Len(line) : line[i] \in Job /\ line[i] # j
      BY <1>7 DEF FailJob, IInv, TypeOK, LineHolds
    <3>2. line' = line /\ \A k \in Job : k # j => task'[k] = task[k]
      BY <1>7 DEF FailJob, IInv, TypeOK
    <3> QED BY <3>1, <3>2 DEF IInv, LineHolds
  <2>3. /\ \A k \in Job : k # j => row'[k] = row[k] /\ task'[k] = task[k]
        /\ row'[j] \in {"none", "failed"} /\ task'[j] = "none"
        /\ UNCHANGED <<server, request, progress>>
    BY <1>7 DEF FailJob, Update, IInv, TypeOK
  <2>4. (TaskMatchesRow /\ FilesLeft)'
    BY <1>7, <2>3 DEF FailJob, IInv, TaskMatchesRow, FilesLeft
  <2>5. (NoTaskWhenDown /\ NoZombie)'
    BY <2>3 DEF IInv, NoTaskWhenDown, NoZombie, Unfinished
  <2> QED BY <2>1, <2>2, <2>4, <2>5 DEF IInv
<1>8. ASSUME NEW j \in Job, Unwind(j) PROVE IInv'
  <2>1. TypeOK'
    <3>1. row' \in [Job -> {"none", "queued", "running", "done", "failed"}]
          /\ results' \in [Job -> 0..Files]
      <4>1. CASE task[j] = "unwinding"
        <5>1. Update(j, "failed", results[j]) /\ results[j] \in 0..Files
          BY <1>8, <4>1 DEF Unwind, IInv, TypeOK
        <5> QED BY <5>1, UpdateFacts DEF IInv
      <4>2. CASE task[j] # "unwinding"
        BY <1>8, <4>2 DEF Unwind, IInv, TypeOK
      <4> QED BY <4>1, <4>2
    <3> QED BY <1>8, <3>1 DEF Unwind, IInv, TypeOK
  <2>2. LineHolds'
    <3>1. \A i \in 1..Len(line) : line[i] \in Job /\ line[i] # j
      BY <1>8 DEF Unwind, IInv, TypeOK, LineHolds
    <3>2. line' = line /\ \A k \in Job : k # j => task'[k] = task[k]
      BY <1>8 DEF Unwind, IInv, TypeOK
    <3> QED BY <3>1, <3>2 DEF IInv, LineHolds
  <2>3. (TaskMatchesRow /\ FilesLeft /\ NoTaskWhenDown /\ NoZombie)'
    BY <1>8 DEF Unwind, Update, IInv, TypeOK, TaskMatchesRow, FilesLeft, NoTaskWhenDown,
       NoZombie, Unfinished
  <2> QED BY <2>1, <2>2, <2>3 DEF IInv
<1>9. ASSUME NEW j \in Job, Recover(j) PROVE IInv'
  BY <1>9 DEF Recover, IInv, TypeOK, LineHolds, TaskMatchesRow,
     FilesLeft, NoTaskWhenDown, NoZombie, Unfinished
<1>10. CASE Shutdown
  BY <1>10 DEF Shutdown, Cancelled, IInv, TypeOK, LineHolds, TaskMatchesRow,
     FilesLeft, NoTaskWhenDown, NoZombie, Unfinished
<1>11. CASE End
  BY <1>11 DEF End, IInv, TypeOK, LineHolds, TaskMatchesRow,
     FilesLeft, NoTaskWhenDown, NoZombie, Unfinished
<1>12. CASE Start \/ Serve
  <2>1. /\ UNCHANGED <<restarts, request, row, results, task, line, progress>>
        /\ server' \in {"starting", "up"} /\ server \in {"down", "starting"}
        /\ server' = "up" => \A j \in Job : ~Unfinished(j)
    BY <1>12 DEF Start, Serve
  <2>2. (TypeOK /\ LineHolds)'
    BY <2>1 DEF IInv, TypeOK, LineHolds
  <2>3. (TaskMatchesRow /\ FilesLeft)'
    BY <2>1 DEF IInv, TaskMatchesRow, FilesLeft
  <2>4. (NoTaskWhenDown /\ NoZombie)'
    BY <2>1 DEF IInv, NoTaskWhenDown, NoZombie, Unfinished
  <2> QED BY <2>2, <2>3, <2>4 DEF IInv
<1>13. CASE Rest \/ UNCHANGED vars
  BY <1>13 DEF Rest, vars, IInv, TypeOK, LineHolds, TaskMatchesRow,
     FilesLeft, NoTaskWhenDown, NoZombie, Unfinished
<1> QED
  BY <1>1, <1>2, <1>3, <1>4, <1>5, <1>6, <1>7, <1>8, <1>9, <1>10, <1>11, <1>12, <1>13
  DEF Next, JobNext

LEMMA Invariance == Spec => []IInv
BY InitEstablishes, StepPreserves, PTL DEF Spec

-----------------------------------------------------------------------------
(* Types, for any number of jobs and any limits. *)
THEOREM TypeCorrect == Spec => []TypeOK
<1>1. IInv => TypeOK
  BY DEF IInv
<1> QED BY <1>1, Invariance, PTL

(* No job stays queued or running in the store with nobody at work on it   *)
(* while the server answers (batch/worker.py:17-46, 114-124).              *)
THEOREM NoZombies == Spec => []NoZombie
<1>1. IInv => NoZombie
  BY DEF IInv
<1> QED BY <1>1, Invariance, PTL

(* What a step may do to the row of a job that is over or deleted. *)
Stands(j) ==
  /\ row[j] \in {"done", "failed"} =>
       row'[j] \in {row[j], "none"} /\ (row'[j] = row[j] => results'[j] = results[j])
  /\ row[j] = "none" /\ request[j] = "answered" => row'[j] = "none"

(* Only a task writes a result, and it writes to the row of its own job.   *)
LEMMA StepStands == ASSUME IInv, [Next]_vars, NEW j \in Job PROVE Stands(j)
<1>1. ASSUME NEW k \in Job, Accept(k) \/ Refuse(k) \/ Submit(k) \/ Delete(k) \/ Recover(k)
      PROVE  Stands(j)
  BY <1>1 DEF Accept, Refuse, Submit, Delete, Recover, Stands, Unfinished,
     IInv, TypeOK, TaskMatchesRow
<1>2. ASSUME NEW k \in Job, FinishFile(k) \/ FailJob(k) \/ Unwind(k)
      PROVE  Stands(j)
  <2>1. /\ row[k] \in {"none", "queued", "running"}
        /\ row[k] = "none" => UNCHANGED <<row, results>>
        /\ j # k => row'[j] = row[j] /\ results'[j] = results[j]
    <3>1. CASE FinishFile(k)
      BY <3>1 DEF FinishFile, Update, IInv, TypeOK, TaskMatchesRow
    <3>2. CASE FailJob(k)
      BY <3>2 DEF FailJob, Update, IInv, TypeOK, TaskMatchesRow
    <3>3. CASE Unwind(k)
      BY <3>3 DEF Unwind, Update, IInv, TypeOK, TaskMatchesRow
    <3> QED BY <1>2, <3>1, <3>2, <3>3
  <2> QED BY <2>1 DEF Stands
<1>3. CASE StartJob
  <2> DEFINE k == Head(line)
  <2>1. k \in Job /\ task[k] = "line"
    BY <1>3 DEF StartJob, IInv, TypeOK, LineHolds
  <2>2. Update(k, "running", results[k])
    BY <1>3 DEF StartJob
  <2> HIDE DEF k
  <2> QED BY <2>1, <2>2 DEF Update, Stands, IInv, TypeOK, TaskMatchesRow
<1>4. CASE Shutdown \/ End \/ Start \/ Serve \/ Rest \/ UNCHANGED vars
  BY <1>4 DEF Shutdown, End, Start, Serve, Rest, vars, Stands
<1> QED BY <1>1, <1>2, <1>3, <1>4 DEF Next, JobNext

(* A verdict stands: no late task touches a job that is over or deleted    *)
(* (batch/store.py:138-144, services/batch.py:140-148).                    *)
THEOREM VerdictsStand == Spec => VerdictStands
<1>1. IInv /\ [Next]_vars => [\A j \in Job : Stands(j)]_vars
  BY StepStands
<1>2. [\A j \in Job : Stands(j)]_vars =>
        [\A j \in Job :
           /\ row[j] \in {"done", "failed"} =>
                row'[j] \in {row[j], "none"} /\ (row'[j] = row[j] => results'[j] = results[j])
           /\ row[j] = "none" /\ request[j] = "answered" => row'[j] = "none"]_vars
  BY DEF Stands
<1> QED BY <1>1, <1>2, Invariance, PTL DEF Spec, VerdictStands
=============================================================================
