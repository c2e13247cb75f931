---------------------------- MODULE ReadersProofs ----------------------------
(***************************************************************************)
(* Proofs about the slots of the Live Reader, for every set of connections,*)
(* finite or not, and every configured limit, and about the Web Reader,    *)
(* for any documents, requests, sizes and restarts.  The Web Reader's      *)
(* renderer lets the Live Reader go first: busy is a slot that is held     *)
(* (main.py:125), and all that passes between the two.                     *)
(***************************************************************************)
EXTENDS LiveAdmission, ReaderRenderer, FiniteSetTheorems, WellFoundedInduction, SequenceTheorems,
        TLAPS

-----------------------------------------------------------------------------
(* The slots.                                                              *)

(* The capacity is a positive number of sessions (max(1, limit)). *)
LEMMA CapacityPositive == Capacity \in Nat /\ Capacity >= 1
  BY LimitAssumption DEF Capacity

(* A step that frees slots, or only relabels them, keeps within capacity.  *)
LEMMA ShrinkHeld ==
  ASSUME IsFiniteSet(Held), WithinCapacity, Held' \subseteq Held
  PROVE  IsFiniteSet(Held') /\ WithinCapacity'
<1>1. IsFiniteSet(Held') /\ Cardinality(Held') <= Cardinality(Held)
  BY FS_Subset
<1>2. Cardinality(Held) \in Nat /\ Cardinality(Held') \in Nat
  BY <1>1, FS_CardinalityType
<1>3. Capacity' = Capacity
  BY DEF Capacity
<1> QED
  BY <1>1, <1>2, <1>3, CapacityPositive DEF WithinCapacity

(* At the start nobody holds a slot. *)
LEMMA InitIInv == Init => IInv
<1> SUFFICES ASSUME Init PROVE IInv
  OBVIOUS
<1>1. Held = {}
  BY DEF Init, Held
<1>2. IsFiniteSet(Held) /\ WithinCapacity
  BY <1>1, FS_EmptySet, CapacityPositive DEF WithinCapacity
<1>3. TypeOK /\ QueueMatches /\ SlotMatchesTask
  BY DEF Init, TypeOK, QueueMatches, SlotMatchesTask, SlotStates, TaskStates,
         WorkerStates
<1> QED
  BY <1>2, <1>3 DEF IInv

(* acquire() admits only below the limit, and one session at a time.       *)
LEMMA AdmitIInv ==
  ASSUME IInv, NEW c \in Conn, Admit(c)
  PROVE  IInv'
<1> USE DEF IInv
<1>1. TypeOK' /\ QueueMatches' /\ SlotMatchesTask'
  BY DEF Admit, TypeOK, QueueMatches, SlotMatchesTask, SlotStates, TaskStates
<1>2. Held' = Held \cup {c} /\ c \notin Held
  BY DEF Admit, TypeOK, SlotMatchesTask, Held, SlotStates
<1>3. IsFiniteSet(Held') /\ Cardinality(Held') = Cardinality(Held) + 1
  BY <1>2, FS_AddElement
<1>4. Cardinality(Held) \in Nat
  BY FS_CardinalityType
<1>5. Capacity' = Capacity
  BY DEF Capacity
<1>6. WithinCapacity'
  BY <1>3, <1>4, <1>5, CapacityPositive DEF Admit, WithinCapacity
<1> QED
  BY <1>1, <1>3, <1>6

(* Submitting appends a connection that had no worker to the executor's    *)
(* queue, so no connection is in it twice.                                 *)
LEMMA SubmitIInv ==
  ASSUME IInv, NEW c \in Conn, Submit(c)
  PROVE  IInv'
<1> USE DEF IInv
<1>1. TypeOK'
  BY DEF Submit, TypeOK, WorkerStates
<1>2. QueueMatches'
  <2>1. Len(queue') = Len(queue) + 1 /\ queue'[Len(queue) + 1] = c
    BY DEF Submit, TypeOK
  <2>2. \A i \in 1..Len(queue) : queue'[i] = queue[i] /\ queue[i] \in Conn
    BY DEF Submit, TypeOK
  <2>3. \A i \in 1..Len(queue) : queue[i] # c
    BY DEF Submit, QueueMatches
  <2>4. Len(queue) \in Nat
    BY DEF TypeOK
  <2>5. \A i \in 1..Len(queue') : worker'[queue'[i]] = "queued"
    BY <2>1, <2>2, <2>3, <2>4 DEF Submit, TypeOK, QueueMatches
  <2>6. \A i, j \in 1..Len(queue') : i # j => queue'[i] # queue'[j]
    BY <2>1, <2>2, <2>3, <2>4 DEF QueueMatches
  <2> QED
    BY <2>5, <2>6 DEF QueueMatches
<1>3. SlotMatchesTask'
  BY DEF Submit, TypeOK, SlotMatchesTask
<1>4. Held' = Held
  BY DEF Submit, Held
<1> QED
  BY <1>1, <1>2, <1>3, <1>4, ShrinkHeld

(* The thread takes the head of the queue, which is a queued worker.       *)
LEMMA StartWorkerIInv ==
  ASSUME IInv, NEW c \in Conn, StartWorker(c)
  PROVE  IInv'
<1> USE DEF IInv
<1>1. queue \in Seq(Conn) /\ queue # <<>> /\ c = queue[1] /\ worker[c] = "queued"
  BY DEF StartWorker, TypeOK, QueueMatches
<1>2. TypeOK'
  BY <1>1 DEF StartWorker, TypeOK, WorkerStates
<1>3. QueueMatches'
  <2>1. Len(queue') = Len(queue) - 1 /\ Len(queue) \in Nat \ {0}
    BY <1>1 DEF StartWorker
  <2>2. \A i \in 1..Len(queue') : queue'[i] = queue[i + 1] /\ i + 1 \in 2..Len(queue)
    BY <1>1, <2>1 DEF StartWorker
  <2>3. \A i \in 2..Len(queue) : queue[i] # c /\ queue[i] \in Conn
    BY <1>1, <2>1 DEF QueueMatches
  <2>4. \A i \in 1..Len(queue') : worker'[queue'[i]] = "queued"
    BY <2>1, <2>2, <2>3 DEF StartWorker, TypeOK, QueueMatches
  <2>5. \A i, j \in 1..Len(queue') : i # j => queue'[i] # queue'[j]
    BY <2>1, <2>2 DEF QueueMatches
  <2> QED
    BY <2>4, <2>5 DEF QueueMatches
<1>4. SlotMatchesTask'
  BY <1>1 DEF StartWorker, TypeOK, SlotMatchesTask
<1>5. Held' = Held
  BY DEF StartWorker, Held
<1> QED
  BY <1>2, <1>3, <1>4, <1>5, ShrinkHeld

(* A worker that is not waiting in the queue may change state freely.      *)
LEMMA WorkerIInv ==
  ASSUME IInv, NEW c \in Conn, FinishWorker(c) \/ Collect(c)
  PROVE  IInv'
<1> USE DEF IInv
<1>1. worker[c] # "queued" /\ slot[c] # "none"
  BY DEF FinishWorker, Collect, SlotMatchesTask
<1>2. TypeOK'
  BY DEF FinishWorker, Collect, TypeOK, WorkerStates
<1>3. QueueMatches'
  BY <1>1 DEF FinishWorker, Collect, TypeOK, QueueMatches
<1>4. SlotMatchesTask'
  BY <1>1 DEF FinishWorker, Collect, TypeOK, SlotMatchesTask
<1>5. Held' = Held
  BY DEF FinishWorker, Collect, Held
<1> QED
  BY <1>2, <1>3, <1>4, <1>5, ShrinkHeld

(* Shutting down relabels the slot, leaves it to the callback or loses it. *)
LEMMA ShutdownIInv ==
  ASSUME IInv, NEW c \in Conn, BeginShutdown(c) \/ ShutdownLate(c) \/ ShutdownRaises(c)
  PROVE  IInv'
<1> USE DEF IInv
<1>1. TypeOK'
  BY DEF BeginShutdown, ShutdownLate, ShutdownRaises, TypeOK, SlotStates, TaskStates
<1>2. QueueMatches' /\ SlotMatchesTask'
  BY DEF BeginShutdown, ShutdownLate, ShutdownRaises, TypeOK, QueueMatches, SlotMatchesTask
<1>3. Held' \subseteq Held
  BY DEF BeginShutdown, ShutdownLate, ShutdownRaises, TypeOK, SlotMatchesTask, Held
<1> QED
  BY <1>1, <1>2, <1>3, ShrinkHeld

(* Releasing happens only when no worker of the connection is unfinished.  *)
LEMMA ReleaseIInv ==
  ASSUME IInv, NEW c \in Conn, ShutdownClean(c) \/ ReleaseLate(c)
  PROVE  IInv'
<1> USE DEF IInv
<1>1. worker[c] # "queued"
  BY DEF ShutdownClean, ReleaseLate, Unfinished
<1>2. TypeOK'
  BY DEF ShutdownClean, ReleaseLate, TypeOK, SlotStates, TaskStates, WorkerStates
<1>3. QueueMatches'
  BY <1>1 DEF ShutdownClean, ReleaseLate, TypeOK, QueueMatches
<1>4. SlotMatchesTask'
  BY DEF ShutdownClean, ReleaseLate, TypeOK, SlotMatchesTask
<1>5. Held' \subseteq Held
  BY DEF ShutdownClean, ReleaseLate, TypeOK, Held
<1> QED
  BY <1>2, <1>3, <1>4, <1>5, ShrinkHeld

(* The invariant is inductive. *)
LEMMA NextIInv == IInv /\ [Next]_vars => IInv'
<1> SUFFICES ASSUME IInv, [Next]_vars PROVE IInv'
  OBVIOUS
<1>1. ASSUME NEW c \in Conn, Admit(c) PROVE IInv'
  BY <1>1, AdmitIInv
<1>2. ASSUME NEW c \in Conn, Submit(c) PROVE IInv'
  BY <1>2, SubmitIInv
<1>3. ASSUME NEW c \in Conn, StartWorker(c) PROVE IInv'
  BY <1>3, StartWorkerIInv
<1>4. ASSUME NEW c \in Conn, FinishWorker(c) \/ Collect(c) PROVE IInv'
  BY <1>4, WorkerIInv
<1>5. ASSUME NEW c \in Conn, BeginShutdown(c) \/ ShutdownLate(c) \/ ShutdownRaises(c)
      PROVE  IInv'
  BY <1>5, ShutdownIInv
<1>6. ASSUME NEW c \in Conn, ShutdownClean(c) \/ ReleaseLate(c) PROVE IInv'
  BY <1>6, ReleaseIInv
<1>7. CASE UNCHANGED vars
  <2>1. Held' = Held
    BY <1>7 DEF vars, Held
  <2>2. TypeOK' /\ QueueMatches' /\ SlotMatchesTask'
    BY <1>7 DEF IInv, vars, TypeOK, QueueMatches, SlotMatchesTask
  <2> QED
    BY <2>1, <2>2, ShrinkHeld DEF IInv
<1>8. ASSUME NEW c \in Conn, Refuse(c) PROVE UNCHANGED vars
  BY <1>8 DEF Refuse
<1> QED
  BY <1>1, <1>2, <1>3, <1>4, <1>5, <1>6, <1>7, <1>8 DEF Next

(* The inductive invariant holds in every reachable state. *)
THEOREM Invariance == Spec => []IInv
<1>1. Init => IInv
  BY InitIInv
<1>2. IInv /\ [Next]_vars => IInv'
  BY NextIInv
<1> QED
  BY <1>1, <1>2, PTL DEF Spec

(* Every variable keeps to its type, whatever the connections and limit.   *)
THEOREM TypeCorrect == Spec => []TypeOK
<1>1. IInv => TypeOK
  BY DEF IInv
<1> QED
  BY <1>1, Invariance, PTL

(* The process never holds more Live Reader slots than max(1, limit), the  *)
(* slots of sessions that left a worker behind included.                   *)
THEOREM CapacityRespected == Spec => []WithinCapacity
<1>1. IInv => WithinCapacity
  BY DEF IInv
<1> QED
  BY <1>1, Invariance, PTL

(* A backend worker that is queued or running always belongs to a          *)
(* connection whose slot is still held, however its socket ended.          *)
THEOREM WorkersAreCovered == Spec => []SlotCoversWorker
<1>1. IInv => SlotCoversWorker
  BY DEF IInv, SlotMatchesTask, SlotCoversWorker, Unfinished
<1> QED
  BY <1>1, Invariance, PTL

-----------------------------------------------------------------------------
(* Sequences and functions that the Web Reader builds step by step.        *)

(* Induction: a set of naturals that is not empty has a least element, and *)
(* one that holds 0 and every successor holds them all.                    *)
LEMMA LeastNat ==
  ASSUME NEW T, T \subseteq Nat, T # {}
  PROVE  \E n \in T : \A m \in T : n <= m
<1> DEFINE R == OpToRel(<, Nat)
<1>1. IsWellFoundedOn(R, Nat)
  BY NatLessThanWellFounded
<1>2. \A m, n \in Nat : m < n => <<m, n>> \in R
  BY DEF OpToRel
<1> HIDE DEF R
<1>3. PICK n \in T : \A m \in T : <<m, n>> \notin R
  BY <1>1, WFMin
<1>4. \A m \in T : ~(m < n)
  BY <1>2, <1>3
<1>5. \A m \in T : n <= m
  <2> TAKE m \in T
  <2>1. n \in Nat /\ m \in Nat
    OBVIOUS
  <2> QED BY <2>1, <1>4
<1> QED BY <1>5

LEMMA Induct ==
  ASSUME NEW S, 0 \in S, \A n \in Nat : n \in S => n + 1 \in S
  PROVE  Nat \subseteq S
<1> DEFINE T == {n \in Nat : n \notin S}
<1> SUFFICES ASSUME T # {} PROVE FALSE
  OBVIOUS
<1>1. PICK n \in T : \A m \in T : n <= m
  BY LeastNat
<1>2. n \in Nat /\ n # 0
  OBVIOUS
<1>3. n - 1 \in Nat /\ ~(n <= n - 1) /\ (n - 1) + 1 = n
  BY <1>2
<1>4. n - 1 \in S
  BY <1>1, <1>3
<1> QED BY <1>1, <1>2, <1>3, <1>4

(* A function defined from its value one below exists, and keeps to the    *)
(* set that its steps stay in.                                             *)
Unfolds(f, N, base, step) ==
  \A n \in 0..N : f[n] = IF n = 0 THEN base ELSE step[<<n, f[n - 1]>>]

LEMMA Iterates ==
  ASSUME NEW A, NEW base \in A, NEW step \in [Nat \X A -> A], NEW N \in Nat
  PROVE  \E f \in [0..N -> A] : Unfolds(f, N, base, step)
<1> DEFINE S == {n \in Nat : \E f \in [0..n -> A] : Unfolds(f, n, base, step)}
<1>1. 0 \in S
  <2> DEFINE f == [n \in 0..0 |-> base]
  <2>1. f \in [0..0 -> A] /\ Unfolds(f, 0, base, step)
    BY DEF Unfolds
  <2> QED BY <2>1
<1>2. ASSUME NEW n \in Nat, n \in S PROVE n + 1 \in S
  <2>1. PICK f \in [0..n -> A] : Unfolds(f, n, base, step)
    BY <1>2
  <2> DEFINE g == [k \in 0..(n + 1) |-> IF k = n + 1 THEN step[<<n + 1, f[n]>>] ELSE f[k]]
  <2>2. f[n] \in A /\ n + 1 \in Nat
    BY <2>1
  <2>3. step[<<n + 1, f[n]>>] \in A
    BY <2>2
  <2>4. \A k \in 0..(n + 1) : k # n + 1 => k \in 0..n /\ (k # 0 => k - 1 \in 0..n)
    OBVIOUS
  <2>5. g \in [0..(n + 1) -> A]
    BY <2>1, <2>3, <2>4
  <2>6. \A k \in 0..n : k \in 0..(n + 1) /\ k # n + 1
    OBVIOUS
  <2>7. \A k \in 0..n : g[k] = f[k]
    BY <2>6
  <2>8. n + 1 \in 0..(n + 1) /\ g[n + 1] = step[<<n + 1, f[n]>>] /\ n \in 0..n /\ (n + 1) - 1 = n
    OBVIOUS
  <2> HIDE DEF g
  <2>9. ASSUME NEW k \in 0..(n + 1)
        PROVE  g[k] = IF k = 0 THEN base ELSE step[<<k, g[k - 1]>>]
    <3>1. CASE k = n + 1
      BY <2>7, <2>8, <3>1
    <3>2. CASE k # n + 1
      <4>1. k \in 0..n /\ (k # 0 => k - 1 \in 0..n)
        BY <2>4, <3>2
      <4>2. f[k] = IF k = 0 THEN base ELSE step[<<k, f[k - 1]>>]
        BY <2>1, <4>1 DEF Unfolds
      <4> QED BY <2>7, <4>1, <4>2
    <3> QED BY <3>1, <3>2
  <2>10. Unfolds(g, n + 1, base, step)
    BY <2>9 DEF Unfolds
  <2> QED BY <2>2, <2>5, <2>10
<1>3. Nat \subseteq S
  <2> HIDE DEF S
  <2> QED BY <1>1, <1>2, Induct
<1> QED BY <1>3

LEMMA SetOf ==
  ASSUME NEW T, NEW s \in Seq(T)
  PROVE  /\ ToSet(s) \subseteq T /\ s \in Seq(ToSet(s))
         /\ \A i \in 1..Len(s) : s[i] \in ToSet(s)
         /\ \A x \in T : Append(s, x) \in Seq(T) /\ ToSet(Append(s, x)) = ToSet(s) \cup {x}
<1>1. Len(s) \in Nat /\ DOMAIN s = 1..Len(s) /\ (\A i \in 1..Len(s) : s[i] \in T)
  BY LenProperties
<1>2. ToSet(s) \subseteq T /\ \A i \in 1..Len(s) : s[i] \in ToSet(s)
  BY <1>1 DEF ToSet
<1>3. s \in Seq(ToSet(s))
  BY <1>1, <1>2, SeqDef
<1>4. ASSUME NEW x \in T
      PROVE  Append(s, x) \in Seq(T) /\ ToSet(Append(s, x)) = ToSet(s) \cup {x}
  <2> DEFINE t == Append(s, x)
  <2>1. /\ t \in Seq(T) /\ Len(t) = Len(s) + 1 /\ DOMAIN t = 1..(Len(s) + 1)
        /\ (\A i \in 1..Len(s) : t[i] = s[i]) /\ t[Len(s) + 1] = x
    BY AppendProperties, LenProperties
  <2> HIDE DEF t
  <2>2. \A i \in 1..(Len(s) + 1) : i \in 1..Len(s) \/ i = Len(s) + 1
    BY <1>1
  <2>3. 1..Len(s) \subseteq 1..(Len(s) + 1) /\ Len(s) + 1 \in 1..(Len(s) + 1)
    BY <1>1
  <2>4. ToSet(t) = ToSet(s) \cup {x}
    BY <1>1, <2>1, <2>2, <2>3 DEF ToSet
  <2> QED BY <2>1, <2>4 DEF t
<1> QED BY <1>2, <1>3, <1>4

(* The recorded parts that a removal leaves: no others come in, and none   *)
(* of the removed stays.                                                   *)
Keeps(kept, parts) ==
  kept = [n \in 0..Len(rows) |->
            IF n = 0 THEN <<>>
            ELSE IF rows[n] \in parts THEN kept[n - 1] ELSE Append(kept[n - 1], rows[n])]

LEMMA WithoutKept ==
  ASSUME NEW parts
  PROVE  Without(parts) = (CHOOSE kept : Keeps(kept, parts))[Len(rows)]
BY DEF Without, Keeps

LEMMA WithoutDrops ==
  ASSUME NEW T, rows \in Seq(T), NEW parts
  PROVE  Without(parts) \in Seq(Recorded \ parts)
<1> DEFINE A == Seq(Recorded \ parts)
<1>1. Len(rows) \in Nat /\ \A n \in 1..Len(rows) : rows[n] \in Recorded
  BY SetOf, LenProperties DEF Recorded
<1>2. \A a \in A, n \in 1..Len(rows) : rows[n] \notin parts => Append(a, rows[n]) \in A
  BY <1>1, AppendProperties
<1>3. <<>> \in A
  BY EmptySeq
<1> HIDE DEF A
<1>4. \E kept : Keeps(kept, parts)
  <2> DEFINE step == [x \in Nat \X A |-> IF x[1] \in 1..Len(rows) /\ rows[x[1]] \notin parts
                                          THEN Append(x[2], rows[x[1]]) ELSE x[2]]
  <2>1. step \in [Nat \X A -> A]
    BY <1>2
  <2>2. \A n \in 1..Len(rows), a \in A :
          step[<<n, a>>] = IF rows[n] \in parts THEN a ELSE Append(a, rows[n])
    BY <1>1
  <2> HIDE DEF step
  <2>3. PICK f \in [0..Len(rows) -> A] : Unfolds(f, Len(rows), <<>>, step)
    BY <1>1, <1>3, <2>1, Iterates
  <2>4. \A n \in 0..Len(rows) : n # 0 => n \in 1..Len(rows) /\ n - 1 \in 0..Len(rows)
    BY <1>1
  <2>5. ASSUME NEW n \in 0..Len(rows)
        PROVE  f[n] = IF n = 0 THEN <<>>
                      ELSE IF rows[n] \in parts THEN f[n - 1] ELSE Append(f[n - 1], rows[n])
    <3>1. CASE n = 0
      BY <2>3, <3>1 DEF Unfolds
    <3>2. CASE n # 0
      <4>1. f[n] = step[<<n, f[n - 1]>>]
        BY <2>3, <3>2 DEF Unfolds
      <4>2. n \in 1..Len(rows) /\ f[n - 1] \in A
        BY <2>3, <2>4, <3>2
      <4>3. step[<<n, f[n - 1]>>]
              = IF rows[n] \in parts THEN f[n - 1] ELSE Append(f[n - 1], rows[n])
        BY <2>2, <4>2
      <4> QED BY <3>2, <4>1, <4>3
    <3> QED BY <3>1, <3>2
  <2>6. f = [n \in 0..Len(rows) |->
               IF n = 0 THEN <<>>
               ELSE IF rows[n] \in parts THEN f[n - 1] ELSE Append(f[n - 1], rows[n])]
    BY <2>3, <2>5
  <2> QED BY <2>6 DEF Keeps
<1>5. PICK kept : kept = (CHOOSE k : Keeps(k, parts)) /\ Keeps(kept, parts)
  BY <1>4
<1> DEFINE S == {n \in Nat : n <= Len(rows) => kept[n] \in A}
<1>6. 0 \in S
  <2>1. 0 \in 0..Len(rows)
    BY <1>1
  <2> QED BY <1>3, <1>5, <2>1 DEF Keeps
<1>7. ASSUME NEW n \in Nat, n \in S PROVE n + 1 \in S
  <2> SUFFICES ASSUME n + 1 <= Len(rows) PROVE kept[n + 1] \in A
    OBVIOUS
  <2>1. n + 1 \in 0..Len(rows) /\ n + 1 \in 1..Len(rows) /\ n + 1 # 0 /\ (n + 1) - 1 = n
    BY <1>1
  <2>2. kept[n] \in A
    BY <1>1, <1>7
  <2>3. kept[n + 1] = IF rows[n + 1] \in parts THEN kept[n] ELSE Append(kept[n], rows[n + 1])
    <3>1. \A m \in 0..Len(rows) : kept[m] =
            IF m = 0 THEN <<>>
            ELSE IF rows[m] \in parts THEN kept[m - 1] ELSE Append(kept[m - 1], rows[m])
      BY <1>5 DEF Keeps
    <3> HIDE <1>5
    <3> QED BY <2>1, <3>1
  <2> QED BY <1>2, <2>1, <2>2, <2>3
<1>8. Nat \subseteq S
  <2> HIDE DEF S
  <2> QED BY <1>6, <1>7, Induct
<1>9. kept[Len(rows)] \in A
  BY <1>1, <1>8
<1> QED BY <1>5, <1>9, WithoutKept DEF A

-----------------------------------------------------------------------------
(* The parts that a walk over the blocks plans.                            *)
AnyPart    == [doc : Doc, first : Nat, last : Nat]
PartsOf(d) == {p \in AnyPart : p.doc = d}
Plan(d)    == [ready : SUBSET PartsOf(d), missing : SUBSET PartsOf(d), parts : Seq(PartsOf(d))]

(* A new part ends: at the last block nothing more can join.               *)
LEMMA NewPartEnds ==
  ASSUME NEW d \in Doc, NEW ready, NEW short,
         NEW first \in Nat, first <= Len(Outline[d])
  PROVE  NewPart(d, ready, first, short) \in PartsOf(d)
<1> DEFINE n == Len(Outline[d])
           Ends(l) == ~Grows(d, ready, first, l, short)
           T == {l \in first..n : Ends(l)}
<1>1. n \in Nat
  BY LenProperties, ReaderAssumption
<1>2. n \in first..n /\ ~(n + 1 <= n)
  BY <1>1
<1>3. Ends(n)
  BY <1>2 DEF Grows, Joins
<1> HIDE DEF n, Ends
<1>4. T \subseteq Nat /\ T # {}
  BY <1>1, <1>2, <1>3
<1>5. PICK l \in T : \A m \in T : l <= m
  BY <1>4, LeastNat
<1>6. l \in first..n /\ \A m \in first..(l - 1) : m \in first..n /\ ~(l <= m)
  BY <1>1, <1>5
<1>7. \A m \in first..(l - 1) : ~Ends(m)
  BY <1>5, <1>6
<1>8. \E last \in first..n : /\ \A m \in first..(last - 1) : Grows(d, ready, first, m, short)
                             /\ ~Grows(d, ready, first, last, short)
  BY <1>5, <1>6, <1>7 DEF Ends
<1>9. PICK last : /\ last \in first..n
                  /\ NewPart(d, ready, first, short) = Part(d, first, last)
  BY <1>8 DEF NewPart, n
<1>10. last \in Nat
  BY <1>1, <1>9
<1> QED BY <1>9, <1>10 DEF Part, PartsOf, AnyPart

LEMMA VisitPlans ==
  ASSUME NEW d \in Doc, NEW acc \in Plan(d), NEW queued \in SUBSET PartsOf(d),
         NEW first \in Nat, first <= Len(Outline[d])
  PROVE  Visit(d, acc, queued, first) \in Plan(d)
<1> DEFINE gone     == {p \in acc.ready \ files : p.first = first}
           ready    == acc.ready \ gone
           starting == {p \in ready : p.first = first}
           waiting  == {p \in queued : p.first = first}
           short    == acc.parts = <<>>
           part     == IF starting \cup waiting = {} THEN NewPart(d, ready, first, short)
                       ELSE CHOOSE p \in (IF starting # {} THEN starting ELSE waiting) : TRUE
<1>1. /\ acc.ready \in SUBSET PartsOf(d) /\ acc.missing \in SUBSET PartsOf(d)
      /\ acc.parts \in Seq(PartsOf(d))
  BY DEF Plan
<1>2. ready \in SUBSET PartsOf(d) /\ acc.missing \cup gone \in SUBSET PartsOf(d)
      /\ starting \in SUBSET PartsOf(d) /\ waiting \in SUBSET PartsOf(d)
  BY <1>1
<1>3. part \in PartsOf(d)
  <2>1. CASE starting \cup waiting = {}
    <3>1. part = NewPart(d, ready, first, short)
      BY <2>1
    <3> HIDE DEF part, ready, short
    <3> QED BY <3>1, NewPartEnds
  <2>2. CASE starting \cup waiting # {}
    <3> HIDE DEF starting, waiting
    <3>1. (IF starting # {} THEN starting ELSE waiting) # {}
      BY <2>2
    <3>2. part \in (IF starting # {} THEN starting ELSE waiting)
      BY <2>2, <3>1
    <3> QED BY <1>2, <3>2
  <2> QED BY <2>1, <2>2
<1>4. Visit(d, acc, queued, first)
        = [ready |-> ready, missing |-> acc.missing \cup gone, parts |-> Append(acc.parts, part)]
  BY DEF Visit
<1> HIDE DEF part, ready, gone
<1>5. Append(acc.parts, part) \in Seq(PartsOf(d))
  BY <1>1, <1>3, AppendProperties
<1> QED BY <1>2, <1>4, <1>5 DEF Plan

(* One round of the walk.                                                  *)
Round(d, acc, from, queued) ==
  IF Reached(acc, from) > Len(Outline[d]) THEN acc
  ELSE Visit(d, acc, queued, Reached(acc, from))

LEMMA RoundPlans ==
  ASSUME NEW d \in Doc, NEW acc \in Plan(d), NEW queued \in SUBSET PartsOf(d),
         NEW from \in Nat
  PROVE  Round(d, acc, from, queued) \in Plan(d)
<1>1. acc.parts \in Seq(PartsOf(d)) /\ Len(Outline[d]) \in Nat
  BY LenProperties, ReaderAssumption DEF Plan
<1>2. Reached(acc, from) \in Nat
  <2>1. CASE acc.parts = <<>>
    BY <2>1 DEF Reached
  <2>2. CASE acc.parts # <<>>
    <3>1. Len(acc.parts) \in 1..Len(acc.parts)
      BY <1>1, <2>2, EmptySeq, LenProperties
    <3>2. acc.parts[Len(acc.parts)] \in PartsOf(d)
      BY <1>1, <3>1, ElementOfSeq
    <3>3. acc.parts[Len(acc.parts)].last \in Nat
      BY <3>2 DEF PartsOf, AnyPart
    <3> QED BY <2>2, <3>3 DEF Reached, Last
  <2> QED BY <2>1, <2>2
<1>3. CASE Reached(acc, from) > Len(Outline[d])
  BY <1>3 DEF Round
<1>4. CASE ~(Reached(acc, from) > Len(Outline[d]))
  <2>1. Reached(acc, from) <= Len(Outline[d])
    BY <1>1, <1>2, <1>4
  <2>2. Visit(d, acc, queued, Reached(acc, from)) \in Plan(d)
    BY <1>2, <2>1, VisitPlans
  <2> QED BY <1>4, <2>2 DEF Round
<1> QED BY <1>3, <1>4

Walks(planned, d, from, ready, queued) ==
  planned = [n \in 0..Lookahead |->
               IF n = 0 THEN [ready |-> ready, missing |-> {}, parts |-> <<>>]
               ELSE Round(d, planned[n - 1], from, queued)]

LEMMA PlannedWalks ==
  ASSUME NEW d, NEW from, NEW ready, NEW queued
  PROVE  Planned(d, from, ready, queued)
           = (CHOOSE planned : Walks(planned, d, from, ready, queued))[Lookahead]
BY DEF Planned, Walks, Round

(* Whatever is planned for a document are parts of it.                     *)
LEMMA PlannedParts ==
  ASSUME NEW d \in Doc, NEW from \in Nat,
         NEW ready \in SUBSET PartsOf(d), NEW queued \in SUBSET PartsOf(d)
  PROVE  Planned(d, from, ready, queued) \in Plan(d)
<1> DEFINE A == Plan(d)
           base == [ready |-> ready, missing |-> {}, parts |-> <<>>]
<1>1. Lookahead \in Nat
  BY ReaderAssumption
<1>2. base \in A
  BY EmptySeq DEF Plan
<1>3. \A acc \in A : Round(d, acc, from, queued) \in A
  BY RoundPlans
<1> HIDE DEF A, base
<1>4. \E planned : Walks(planned, d, from, ready, queued)
  <2> DEFINE step == [x \in Nat \X A |-> Round(d, x[2], from, queued)]
  <2>1. step \in [Nat \X A -> A]
    BY <1>3
  <2>2. \A n \in Nat, a \in A : step[<<n, a>>] = Round(d, a, from, queued)
    OBVIOUS
  <2> HIDE DEF step
  <2>3. PICK f \in [0..Lookahead -> A] : Unfolds(f, Lookahead, base, step)
    BY <1>1, <1>2, <2>1, Iterates
  <2>4. ASSUME NEW n \in 0..Lookahead
        PROVE  f[n] = IF n = 0 THEN base ELSE Round(d, f[n - 1], from, queued)
    <3>1. CASE n = 0
      BY <2>3, <3>1 DEF Unfolds
    <3>2. CASE n # 0
      <4>1. f[n] = step[<<n, f[n - 1]>>]
        BY <2>3, <3>2 DEF Unfolds
      <4>2. n \in Nat /\ n - 1 \in 0..Lookahead
        BY <1>1, <3>2
      <4>3. f[n - 1] \in A
        BY <2>3, <4>2
      <4> QED BY <2>2, <3>2, <4>1, <4>2, <4>3
    <3> QED BY <3>1, <3>2
  <2>5. f = [n \in 0..Lookahead |-> IF n = 0 THEN base ELSE Round(d, f[n - 1], from, queued)]
    BY <2>3, <2>4
  <2> QED BY <2>5 DEF Walks, base
<1>5. PICK planned : /\ planned = (CHOOSE k : Walks(k, d, from, ready, queued))
                     /\ Walks(planned, d, from, ready, queued)
  BY <1>4
<1> DEFINE S == {n \in Nat : n <= Lookahead => planned[n] \in A}
<1>6. 0 \in S
  <2>1. 0 \in 0..Lookahead
    BY <1>1
  <2>2. planned[0] = base
    BY <1>5, <2>1 DEF Walks, base
  <2> QED BY <1>2, <2>2
<1>7. ASSUME NEW n \in Nat, n \in S PROVE n + 1 \in S
  <2> SUFFICES ASSUME n + 1 <= Lookahead PROVE planned[n + 1] \in A
    OBVIOUS
  <2>1. n + 1 \in 0..Lookahead /\ n + 1 # 0 /\ (n + 1) - 1 = n
    BY <1>1
  <2>2. planned[n] \in A
    BY <1>1, <1>7
  <2>3. planned[n + 1] = Round(d, planned[n], from, queued)
    BY <1>5, <2>1 DEF Walks
  <2> QED BY <1>3, <2>2, <2>3
<1>8. Nat \subseteq S
  <2> HIDE DEF S
  <2> QED BY <1>6, <1>7, Induct
<1>9. planned[Lookahead] \in A
  BY <1>1, <1>8
<1> QED BY <1>5, <1>9, PlannedWalks DEF A

-----------------------------------------------------------------------------
(* What holds of the Web Reader in every state.                            *)
DocStates == {"absent", "stored", "deleted"}
Places    == {"free", "outline", "remember", "ready", "walk", "forget", "job",
              "forgetDocument", "rows", "files", "serve"}
Ops       == {None, "render", "status", "delete", "media"}

Request ==
  [pc : Places, op : Ops, doc : Doc \cup {None}, from : Nat, ready : SUBSET AnyPart,
   missing : SUBSET AnyPart, parts : Seq(AnyPart)]

(* A handler works on parts of its own document; it deletes files only of  *)
(* a document that is deleted for good.                                    *)
Fits(r, docs) ==
  /\ r \in Request
  /\ r.pc \notin {"free", "serve"} => r.doc \in Doc
  /\ r.ready \in SUBSET PartsOf(r.doc) /\ r.parts \in Seq(PartsOf(r.doc))
  /\ r.pc = "files" => docs[r.doc] = "deleted"

HandlersFit == handler \in [Handler -> Request] /\ \A h \in Handler : Fits(handler[h], doc)

(* A recorded part has its file, and its document is stored.               *)
RowsSafe ==
  /\ rows \in Seq(AnyPart)
  /\ \A p \in Recorded : p \in files /\ doc[p.doc] = "stored"

JobFits ==
  /\ job \in [doc : Doc \cup {None}, parts : Seq(AnyPart)]
  /\ job.parts \in Seq(PartsOf(job.doc))

(* From reading the blocks on the part is one of a document that was there *)
(* and stays known; what is about to be saved has its file unless its      *)
(* document is deleted; what is about to be unlinked is not recorded.      *)
AtPart  == {"blocks", "speak", "encoded", "write", "replace", "save", "discard"}
ReadDoc == AtPart \ {"blocks"}

RendererFits ==
  /\ renderer = [pc |-> renderer.pc, part |-> renderer.part, keep |-> renderer.keep]
  /\ renderer.pc \in AtPart => renderer.part \in AnyPart
  /\ renderer.pc \in ReadDoc => doc[renderer.part.doc] # "absent"
  /\ renderer.pc = "save" /\ doc[renderer.part.doc] = "stored" => renderer.part \in files
  /\ renderer.pc = "discard" => doc[renderer.part.doc] = "deleted"
  /\ renderer.pc = "sweepFiles" => Recorded \subseteq renderer.keep
  /\ renderer.pc = "unlink" => renderer.keep \cap Recorded = {}

DocsTyped == doc \in [Doc -> DocStates]

ReaderInv == DocsTyped /\ RowsSafe /\ HandlersFit /\ JobFits /\ RendererFits

(* A document that is known stays known, a deleted one stays deleted.      *)
DocsAge ==
  /\ DocsTyped'
  /\ \A d \in Doc : /\ doc[d] = "deleted" => doc'[d] = "deleted"
                    /\ doc[d] # "absent" => doc'[d] # "absent"

(* What an unlinking leaves, and what of it is not there by a failure.     *)
LEMMA Unlinked ==
  ASSUME NEW gone, NEW goneTmp, Unlink(gone, goneTmp)
  PROVE  /\ files' \subseteq files /\ \A p \in files : p \in gone \/ p \in files'
         /\ Left' \subseteq Left \ gone
         /\ tmp' \subseteq tmp /\ LeftTmp' \subseteq LeftTmp \ goneTmp
<1>1. PICK kept \in SUBSET (files \cap gone), keptTmp \in SUBSET (tmp \cap goneTmp) :
        /\ files' = (files \ gone) \cup kept
        /\ tmp' = (tmp \ goneTmp) \cup keptTmp
        /\ stuckFiles' = (stuckFiles \ gone) \cup kept
        /\ stuckTmp' = (stuckTmp \ goneTmp) \cup keptTmp
  BY DEF Unlink, Stuck
<1> QED BY <1>1 DEF Left, LeftTmp

LEMMA DocsStay == ASSUME DocsTyped, UNCHANGED doc PROVE DocsAge
BY DEF DocsAge, DocsTyped

LEMMA RowsTyped ==
  ASSUME RowsSafe
  PROVE  /\ rows \in Seq(AnyPart) /\ Recorded \subseteq AnyPart
         /\ \A p \in Recorded : p.doc \in Doc
<1>1. Recorded \subseteq AnyPart
  BY SetOf DEF RowsSafe, Recorded
<1> QED BY <1>1 DEF RowsSafe, AnyPart

LEMMA Removed ==
  ASSUME RowsSafe, NEW parts, rows' = Without(parts)
  PROVE  /\ rows' \in Seq(AnyPart) /\ Recorded' \subseteq Recorded \ parts
<1> DEFINE left == Without(parts)
<1>1. left \in Seq(Recorded \ parts)
  BY RowsTyped, WithoutDrops
<1>2. Recorded \ parts \subseteq AnyPart
  BY RowsTyped
<1> HIDE DEF left
<1>3. left \in Seq(AnyPart)
  BY <1>1, <1>2, SeqMonotonic
<1>4. ToSet(left) \subseteq Recorded \ parts
  BY <1>1, SetOf
<1>5. Recorded' = ToSet(left)
  BY DEF Recorded, ToSet, left
<1> QED BY <1>3, <1>4, <1>5 DEF left

(* A part that is taken out and put at the end again, as the last used.    *)
LEMMA Moved ==
  ASSUME RowsSafe, NEW p \in AnyPart, rows' = Append(Without({p}), p)
  PROVE  rows' \in Seq(AnyPart) /\ Recorded' \subseteq Recorded \cup {p}
<1> DEFINE left == Without({p})
<1>1. left \in Seq(Recorded \ {p})
  BY RowsTyped, WithoutDrops
<1>2. Recorded \ {p} \subseteq AnyPart
  BY RowsTyped
<1> HIDE DEF left
<1>3. left \in Seq(AnyPart) /\ ToSet(left) \subseteq Recorded
  BY <1>1, <1>2, SeqMonotonic, SetOf
<1>4. Append(left, p) \in Seq(AnyPart) /\ ToSet(Append(left, p)) = ToSet(left) \cup {p}
  BY <1>3, SetOf
<1>5. rows' = Append(left, p)
  BY DEF left
<1>6. Recorded' = ToSet(Append(left, p))
  BY <1>5 DEF Recorded, ToSet
<1> QED BY <1>3, <1>4, <1>5, <1>6

LEMMA RowsKept ==
  ASSUME DocsTyped, RowsSafe, DocsAge, rows' \in Seq(AnyPart), Recorded' \subseteq Recorded,
         \A p \in Recorded' : p \in files' /\ doc'[p.doc] # "deleted"
  PROVE  RowsSafe'
<1>1. ASSUME NEW p \in Recorded' PROVE p \in files' /\ doc'[p.doc] = "stored"
  <2>1. p \in Recorded /\ p.doc \in Doc
    BY <1>1, RowsTyped
  <2>2. doc[p.doc] = "stored"
    BY <2>1 DEF RowsSafe
  <2>3. doc'[p.doc] # "absent" /\ doc'[p.doc] \in DocStates
    BY <2>1, <2>2 DEF DocsAge, DocsTyped
  <2> QED BY <1>1, <2>3 DEF DocStates
<1> QED BY <1>1 DEF RowsSafe

LEMMA RowsSame ==
  ASSUME RowsSafe, UNCHANGED <<rows, doc>>, files \subseteq files'
  PROVE  RowsSafe' /\ Recorded' = Recorded
BY DEF RowsSafe, Recorded, ToSet

LEMMA FitsLater ==
  ASSUME DocsTyped, DocsAge, NEW r, Fits(r, doc)
  PROVE  Fits(r, doc')
BY DEF Fits, DocsAge

LEMMA HandlersKept ==
  ASSUME DocsTyped, DocsAge, HandlersFit, UNCHANGED handler
  PROVE  HandlersFit'
BY FitsLater DEF HandlersFit

LEMMA HandlerMoves ==
  ASSUME DocsTyped, DocsAge, HandlersFit, NEW h \in Handler, NEW r, Fits(r, doc'),
         handler' = [handler EXCEPT ![h] = r]
  PROVE  HandlersFit'
<1>1. r \in Request /\ handler' \in [Handler -> Request]
  BY DEF HandlersFit, Fits
<1>2. ASSUME NEW k \in Handler PROVE Fits(handler'[k], doc')
  <2>1. CASE k = h
    BY <2>1 DEF HandlersFit
  <2>2. CASE k # h
    <3>1. handler'[k] = handler[k] /\ Fits(handler[k], doc)
      BY <2>2 DEF HandlersFit
    <3> QED BY <3>1, FitsLater
  <2> QED BY <2>1, <2>2
<1> QED BY <1>1, <1>2 DEF HandlersFit

LEMMA NobodyFits == \A docs : Fits(NoHandler, docs)
<1>1. <<>> \in Seq(AnyPart) /\ <<>> \in Seq(PartsOf(None))
  BY EmptySeq
<1> QED BY <1>1 DEF Fits, NoHandler, Request, Places, Ops

(* A handler that goes on to a place that asks nothing more of it.         *)
LEMMA GoesOn ==
  ASSUME DocsTyped, DocsAge, HandlersFit,
         NEW h \in Handler, NEW place \in Places \ {"free", "serve"},
         handler[h].doc \in Doc, place = "files" => doc'[handler[h].doc] = "deleted",
         Go(h, place)
  PROVE  HandlersFit'
<1> DEFINE r == [handler[h] EXCEPT !.pc = place]
<1>1. handler[h] \in Request /\ Fits(handler[h], doc)
  BY DEF HandlersFit
<1>2. /\ r.pc = place /\ r.doc = handler[h].doc /\ r.ready = handler[h].ready
      /\ r.parts = handler[h].parts /\ r \in Request
  BY <1>1 DEF Request
<1>3. handler' = [handler EXCEPT ![h] = r]
  BY DEF Go
<1> HIDE DEF r
<1>4. Fits(r, doc')
  BY <1>1, <1>2 DEF Fits
<1> QED BY <1>3, <1>4, HandlerMoves

LEMMA Finishes ==
  ASSUME DocsTyped, DocsAge, HandlersFit, NEW h \in Handler, Done(h)
  PROVE  HandlersFit'
<1>1. handler' = [handler EXCEPT ![h] = NoHandler]
  BY DEF Done
<1> QED BY <1>1, NobodyFits, HandlerMoves

(* The renderer rests while others move, as long as they neither record    *)
(* more nor take the file of a part whose document is stored.              *)
LEMMA RendererRests ==
  ASSUME DocsTyped, DocsAge, RendererFits, UNCHANGED renderer, Recorded' \subseteq Recorded,
         \A p \in files : p \in files' \/ doc'[p.doc] = "deleted"
  PROVE  RendererFits'
<1>1. ASSUME renderer.pc \in ReadDoc
      PROVE  /\ renderer.part.doc \in Doc /\ doc[renderer.part.doc] # "absent"
             /\ doc'[renderer.part.doc] # "absent"
             /\ doc'[renderer.part.doc] = "stored" => doc[renderer.part.doc] = "stored"
             /\ doc[renderer.part.doc] = "deleted" => doc'[renderer.part.doc] = "deleted"
  <2>1. renderer.part.doc \in Doc /\ doc[renderer.part.doc] # "absent"
    BY <1>1 DEF RendererFits, ReadDoc, AnyPart
  <2>2. doc[renderer.part.doc] \in DocStates
    BY <2>1 DEF DocsTyped
  <2> QED BY <2>1, <2>2 DEF DocsAge, DocStates
<1>2. renderer.pc = "save" /\ doc'[renderer.part.doc] = "stored" => renderer.part \in files'
  BY <1>1 DEF RendererFits, ReadDoc, AtPart
<1>3. renderer.pc = "discard" => doc'[renderer.part.doc] = "deleted"
  BY <1>1 DEF RendererFits, ReadDoc, AtPart
<1> QED BY <1>1, <1>2, <1>3 DEF RendererFits

LEMMA OthersStay ==
  ASSUME ReaderInv, UNCHANGED <<doc, rows, files, job, renderer>>, HandlersFit'
  PROVE  ReaderInv'
<1>1. DocsAge /\ DocsTyped'
  BY DocsStay DEF ReaderInv, DocsAge
<1>2. RowsSafe' /\ Recorded' = Recorded
  BY RowsSame DEF ReaderInv
<1>3. JobFits'
  BY DEF ReaderInv, JobFits
<1>4. RendererFits'
  BY <1>1, <1>2, RendererRests DEF ReaderInv
<1> QED BY <1>1, <1>2, <1>3, <1>4 DEF ReaderInv

LEMMA AskInv ==
  ASSUME ReaderInv, NEW h \in Handler, NEW op \in Ops, NEW d \in Doc, NEW from \in Nat,
         NEW place \in {"outline", "forgetDocument"}, Ask(h, op, d, from, place)
  PROVE  ReaderInv'
<1> DEFINE r == [NoHandler EXCEPT !.op = op, !.doc = d, !.from = from, !.pc = place]
<1>1. handler' = [handler EXCEPT ![h] = r] /\ UNCHANGED <<doc, rows, files, job, renderer>>
  BY DEF Ask, stored, disk, memory
<1>2. NoHandler \in Request /\ NoHandler.ready = {} /\ NoHandler.parts = <<>>
  BY NobodyFits DEF Fits, NoHandler
<1>3. <<>> \in Seq(PartsOf(d)) /\ place \in Places
  BY EmptySeq DEF Places
<1>4. r \in Request /\ r.pc = place /\ r.doc = d /\ r.ready = {} /\ r.parts = <<>>
  BY <1>2, <1>3 DEF Request
<1> HIDE DEF r
<1>5. Fits(r, doc')
  BY <1>3, <1>4 DEF Fits
<1>6. HandlersFit'
  BY <1>1, <1>5, DocsStay, HandlerMoves DEF ReaderInv
<1> QED BY <1>1, <1>6, OthersStay

LEMMA FetchInv ==
  ASSUME ReaderInv, NEW h \in Handler, NEW p \in Recorded, FetchPart(h, p)
  PROVE  ReaderInv'
<1> DEFINE r == [NoHandler EXCEPT !.op = "media", !.pc = "serve", !.missing = {p}]
<1>1. handler' = [handler EXCEPT ![h] = r] /\ UNCHANGED <<doc, rows, files, job, renderer>>
  BY DEF FetchPart, stored, disk, memory
<1>2. /\ NoHandler \in Request /\ NoHandler.ready = {} /\ NoHandler.parts = <<>>
      /\ NoHandler.doc = None
  BY NobodyFits DEF Fits, NoHandler
<1>3. /\ <<>> \in Seq(PartsOf(None)) /\ {p} \in SUBSET AnyPart
      /\ "serve" \in Places /\ "media" \in Ops
  BY EmptySeq, RowsTyped DEF ReaderInv, Places, Ops
<1>4. r \in Request /\ r.pc = "serve" /\ r.doc = None /\ r.ready = {} /\ r.parts = <<>>
  BY <1>2, <1>3 DEF Request
<1> HIDE DEF r
<1>5. Fits(r, doc')
  BY <1>3, <1>4 DEF Fits
<1>6. HandlersFit'
  BY <1>1, <1>5, DocsStay, HandlerMoves DEF ReaderInv
<1> QED BY <1>1, <1>6, OthersStay

(* The outline is found in memory or in the store, or the request ends.    *)
LEMMA OutlineInv ==
  ASSUME ReaderInv, NEW h \in Handler, ReadOutline(h) \/ RememberOutline(h)
  PROVE  ReaderInv'
<1>1. UNCHANGED <<doc, rows, files, job, renderer>> /\ handler[h].pc \in {"outline", "remember"}
  BY DEF ReadOutline, RememberOutline, stored, disk, memory
<1>2. Go(h, "ready") \/ Go(h, "remember") \/ Done(h)
  BY DEF ReadOutline, RememberOutline
<1>3. handler[h].doc \in Doc
  BY <1>1 DEF ReaderInv, HandlersFit, Fits
<1>4. {"ready", "remember"} \subseteq Places \ {"free", "serve"}
  BY DEF Places
<1>5. HandlersFit'
  BY <1>1, <1>2, <1>3, <1>4, DocsStay, GoesOn, Finishes DEF ReaderInv
<1> QED BY <1>1, <1>5, OthersStay

LEMMA ReadReadyInv ==
  ASSUME ReaderInv, NEW h \in Handler, ReadReady(h)
  PROVE  ReaderInv'
<1> DEFINE d     == handler[h].doc
           ready == Ready(d)
           r     == [handler[h] EXCEPT !.pc = "walk", !.ready = ready]
<1>1. UNCHANGED <<doc, rows, files, job, renderer>> /\ handler[h].pc = "ready"
  BY DEF ReadReady, stored, disk, memory
<1>2. handler[h] \in Request /\ Fits(handler[h], doc) /\ handler \in [Handler -> Request]
  BY DEF ReaderInv, HandlersFit
<1>3. handler' = [handler EXCEPT ![h] = r]
  BY <1>2 DEF ReadReady
<1>4. ready \in SUBSET PartsOf(d) /\ ready \in SUBSET AnyPart
  BY RowsTyped DEF ReaderInv, Ready, Of, PartsOf
<1> HIDE DEF ready
<1>5. /\ r.pc = "walk" /\ r.doc = d /\ r.ready = ready /\ r.parts = handler[h].parts
      /\ r \in Request
  BY <1>2, <1>4 DEF Request, Places
<1> HIDE DEF r
<1>6. Fits(r, doc')
  BY <1>1, <1>2, <1>4, <1>5 DEF Fits
<1>7. HandlersFit'
  BY <1>1, <1>3, <1>6, DocsStay, HandlerMoves DEF ReaderInv
<1> QED BY <1>1, <1>7, OthersStay

LEMMA WalkInv ==
  ASSUME ReaderInv, NEW h \in Handler, Walk(h)
  PROVE  ReaderInv'
<1> DEFINE d       == handler[h].doc
           queued  == IF job.doc = d THEN ToSet(job.parts) ELSE {}
           planned == Planned(d, handler[h].from, handler[h].ready, queued)
           r       == [handler[h] EXCEPT !.pc = "forget", !.ready = {},
                                         !.missing = planned.missing, !.parts = planned.parts]
<1>1. UNCHANGED <<doc, rows, files, job, renderer>> /\ handler[h].pc = "walk"
  BY DEF Walk, stored, disk, memory
<1>2. handler[h] \in Request /\ Fits(handler[h], doc) /\ handler \in [Handler -> Request]
  BY DEF ReaderInv, HandlersFit
<1>3. handler' = [handler EXCEPT ![h] = r]
  BY <1>2 DEF Walk
<1>4. queued \in SUBSET PartsOf(d)
  BY SetOf DEF ReaderInv, JobFits
<1>5. d \in Doc /\ handler[h].from \in Nat /\ handler[h].ready \in SUBSET PartsOf(d)
  BY <1>1, <1>2 DEF Fits, Request
<1> HIDE DEF queued
<1>6. planned \in Plan(d)
  BY <1>4, <1>5, PlannedParts
<1> HIDE DEF planned
<1>7. PartsOf(d) \subseteq AnyPart
  BY DEF PartsOf
<1>8. /\ planned.missing \in SUBSET AnyPart /\ planned.parts \in Seq(PartsOf(d))
      /\ planned.parts \in Seq(AnyPart)
  BY <1>6, <1>7, SeqMonotonic DEF Plan
<1>9. /\ r.pc = "forget" /\ r.doc = d /\ r.ready = {} /\ r.parts = planned.parts
      /\ r \in Request
  BY <1>2, <1>8 DEF Request, Places
<1> HIDE DEF r
<1>10. Fits(r, doc')
  BY <1>5, <1>8, <1>9 DEF Fits
<1>11. HandlersFit'
  BY <1>1, <1>3, <1>10, DocsStay, HandlerMoves DEF ReaderInv
<1> QED BY <1>1, <1>11, OthersStay

(* Rows of parts whose file is gone are dropped; one that was fetched is   *)
(* moved to the end of the line if it is still recorded.                   *)
LEMMA RowsInv ==
  ASSUME ReaderInv, NEW h \in Handler, ForgetMissing(h) \/ ServePart(h)
  PROVE  ReaderInv'
<1>1. UNCHANGED <<doc, files, job, renderer>> /\ handler[h].pc \in {"forget", "serve"}
  BY DEF ForgetMissing, ServePart, memory, disk
<1>2. rows' \in Seq(AnyPart) /\ Recorded' \subseteq Recorded
  <2>1. CASE ForgetMissing(h)
    BY <2>1, Removed DEF ForgetMissing, ReaderInv
  <2>2. CASE ServePart(h)
    <3> DEFINE p == CHOOSE q \in handler[h].missing : TRUE
    <3>1. \/ rows' = Without({p})
          \/ p \in Recorded /\ rows' = Append(Without({p}), p)
          \/ rows' = rows
      BY <2>2 DEF ServePart
    <3> HIDE DEF p
    <3>2. CASE rows' = Without({p})
      BY <3>2, Removed DEF ReaderInv
    <3>3. CASE p \in Recorded /\ rows' = Append(Without({p}), p)
      <4>1. p \in AnyPart
        BY <3>3, RowsTyped DEF ReaderInv
      <4>2. rows' \in Seq(AnyPart) /\ Recorded' \subseteq Recorded \cup {p}
        BY <3>3, <4>1, Moved DEF ReaderInv
      <4> QED BY <3>3, <4>2
    <3>4. CASE rows' = rows
      BY <3>4 DEF Recorded, ToSet, ReaderInv, RowsSafe
    <3> QED BY <3>1, <3>2, <3>3, <3>4
  <2> QED BY <2>1, <2>2
<1>3. DocsAge /\ DocsTyped'
  BY <1>1, DocsStay DEF ReaderInv, DocsAge
<1>4. RowsSafe'
  <2>1. \A p \in Recorded' : p \in files' /\ doc'[p.doc] # "deleted"
    BY <1>1, <1>2 DEF ReaderInv, RowsSafe
  <2> QED BY <1>2, <1>3, <2>1, RowsKept DEF ReaderInv
<1>5. HandlersFit'
  <2>1. CASE ForgetMissing(h)
    <3>1. handler[h].pc = "forget" /\ (Go(h, "job") \/ Done(h))
      BY <2>1 DEF ForgetMissing
    <3>2. handler[h].doc \in Doc /\ "job" \in Places \ {"free", "serve"}
      BY <3>1 DEF ReaderInv, HandlersFit, Fits, Places
    <3> QED BY <1>3, <3>1, <3>2, GoesOn, Finishes DEF ReaderInv
  <2>2. CASE ServePart(h)
    <3>1. Done(h)
      BY <2>2 DEF ServePart
    <3> QED BY <1>3, <3>1, Finishes DEF ReaderInv
  <2> QED BY <2>1, <2>2
<1>6. RendererFits'
  BY <1>1, <1>2, <1>3, RendererRests DEF ReaderInv
<1>7. JobFits'
  BY <1>1 DEF ReaderInv, JobFits
<1> QED BY <1>3, <1>4, <1>5, <1>6, <1>7 DEF ReaderInv

LEMMA SetJobInv ==
  ASSUME ReaderInv, NEW h \in Handler, SetJob(h)
  PROVE  ReaderInv'
<1>1. UNCHANGED <<doc, rows, files>> /\ handler[h].pc = "job" /\ Done(h)
  BY DEF SetJob, stored, disk
<1>2. DocsAge /\ DocsTyped'
  BY <1>1, DocsStay DEF ReaderInv, DocsAge
<1>3. RowsSafe' /\ Recorded' = Recorded
  BY <1>1, RowsSame DEF ReaderInv
<1>4. HandlersFit'
  BY <1>1, <1>2, Finishes DEF ReaderInv
<1>5. JobFits'
  <2>1. handler[h] \in Request /\ handler[h].parts \in Seq(PartsOf(handler[h].doc))
    BY DEF ReaderInv, HandlersFit, Fits
  <2>2. job' = [doc |-> handler[h].doc, parts |-> handler[h].parts]
    BY DEF SetJob
  <2> QED BY <2>1, <2>2 DEF JobFits, Request
<1>6. RendererFits'
  <2>1. CASE renderer.pc = "none"
    <3>1. renderer' = [pc |-> "sweep", part |-> None, keep |-> {}]
      BY <2>1 DEF SetJob, NoWork
    <3> QED BY <3>1 DEF RendererFits, AtPart, ReadDoc
  <2>2. CASE renderer.pc # "none"
    <3>1. UNCHANGED renderer
      BY <2>2 DEF SetJob
    <3> QED BY <1>1, <1>2, <1>3, <3>1, RendererRests DEF ReaderInv
  <2> QED BY <2>1, <2>2
<1> QED BY <1>2, <1>3, <1>4, <1>5, <1>6 DEF ReaderInv

LEMMA JobDropped ==
  ASSUME JobFits, job' \in {job, NoJob}
  PROVE  JobFits'
<1>1. <<>> \in Seq(AnyPart) /\ <<>> \in Seq(PartsOf(None))
  BY EmptySeq
<1>2. CASE job' = job
  BY <1>2 DEF JobFits
<1>3. CASE job' = NoJob
  BY <1>1, <1>3 DEF JobFits, NoJob
<1> QED BY <1>2, <1>3

(* The deletion of a document: memory, then rows, then files.              *)
LEMMA ForgetDocumentInv ==
  ASSUME ReaderInv, NEW h \in Handler, ForgetDocument(h)
  PROVE  ReaderInv'
<1>1. /\ UNCHANGED <<doc, rows, files, renderer>> /\ job' \in {job, NoJob}
      /\ handler[h].pc = "forgetDocument" /\ Go(h, "rows")
  BY DEF ForgetDocument, stored, disk
<1>2. DocsAge /\ DocsTyped'
  BY <1>1, DocsStay DEF ReaderInv, DocsAge
<1>3. RowsSafe' /\ Recorded' = Recorded
  BY <1>1, RowsSame DEF ReaderInv
<1>4. handler[h].doc \in Doc /\ "rows" \in Places \ {"free", "serve"}
  BY <1>1 DEF ReaderInv, HandlersFit, Fits, Places
<1>5. HandlersFit'
  BY <1>1, <1>2, <1>4, GoesOn DEF ReaderInv
<1>6. RendererFits'
  BY <1>1, <1>2, <1>3, RendererRests DEF ReaderInv
<1> QED BY <1>1, <1>2, <1>3, <1>5, <1>6, JobDropped DEF ReaderInv

LEMMA DeleteRowsInv ==
  ASSUME ReaderInv, NEW h \in Handler, DeleteRows(h)
  PROVE  ReaderInv'
<1> DEFINE d == handler[h].doc
<1>1. UNCHANGED <<files, job, renderer>> /\ handler[h].pc = "rows"
  BY DEF DeleteRows, memory, disk
<1>2. d \in Doc /\ "files" \in Places \ {"free", "serve"}
  BY <1>1 DEF ReaderInv, HandlersFit, Fits, Places
<1>3. CASE doc[d] = "stored"
  <2>1. doc' = [doc EXCEPT ![d] = "deleted"] /\ rows' = Without(Of(d)) /\ Go(h, "files")
    BY <1>3 DEF DeleteRows
  <2>2. DocsAge /\ DocsTyped' /\ doc'[d] = "deleted" /\ \A e \in Doc : e # d => doc'[e] = doc[e]
    BY <1>2, <2>1 DEF ReaderInv, DocsAge, DocsTyped, DocStates
  <2>3. rows' \in Seq(AnyPart) /\ Recorded' \subseteq Recorded \ Of(d)
    BY <2>1, Removed DEF ReaderInv
  <2>4. \A p \in Recorded' : p \in files' /\ doc'[p.doc] # "deleted"
    <3> TAKE p \in Recorded'
    <3>1. p \in Recorded /\ p.doc # d /\ p.doc \in Doc
      BY <2>3, RowsTyped DEF Of, ReaderInv
    <3>2. p \in files /\ doc[p.doc] = "stored"
      BY <3>1 DEF ReaderInv, RowsSafe
    <3> QED BY <1>1, <2>2, <3>1, <3>2
  <2>5. RowsSafe'
    BY <2>2, <2>3, <2>4, RowsKept DEF ReaderInv
  <2>6. HandlersFit'
    BY <1>2, <2>1, <2>2, GoesOn DEF ReaderInv
  <2>7. RendererFits'
    BY <1>1, <2>2, <2>3, RendererRests DEF ReaderInv
  <2>8. JobFits'
    BY <1>1 DEF ReaderInv, JobFits
  <2> QED BY <2>2, <2>5, <2>6, <2>7, <2>8 DEF ReaderInv
<1>4. CASE doc[d] # "stored"
  <2>1. UNCHANGED <<doc, rows>> /\ Done(h)
    BY <1>4 DEF DeleteRows
  <2>2. HandlersFit'
    BY <2>1, DocsStay, Finishes DEF ReaderInv
  <2> QED BY <1>1, <2>1, <2>2, OthersStay
<1> QED BY <1>3, <1>4

LEMMA DeleteFilesInv ==
  ASSUME ReaderInv, NEW h \in Handler, DeleteFiles(h)
  PROVE  ReaderInv'
<1> DEFINE d == handler[h].doc
<1>1. /\ UNCHANGED <<doc, rows, job, renderer>> /\ handler[h].pc = "files" /\ Done(h)
      /\ \A p \in files : p.doc = d \/ p \in files'
  BY Unlinked DEF DeleteFiles, memory, disk
<1>2. doc[d] = "deleted"
  BY <1>1 DEF ReaderInv, HandlersFit, Fits
<1>3. DocsAge /\ DocsTyped'
  BY <1>1, DocsStay DEF ReaderInv, DocsAge
<1>4. rows' \in Seq(AnyPart) /\ Recorded' = Recorded
  BY <1>1 DEF Recorded, ToSet, ReaderInv, RowsSafe
<1>5. \A p \in Recorded' : p \in files' /\ doc'[p.doc] # "deleted"
  <2> TAKE p \in Recorded'
  <2>1. p \in files /\ doc[p.doc] = "stored"
    BY <1>4 DEF ReaderInv, RowsSafe
  <2>2. p.doc # d
    BY <1>2, <2>1
  <2> QED BY <1>1, <2>1, <2>2
<1>6. RowsSafe'
  BY <1>3, <1>4, <1>5, RowsKept DEF ReaderInv
<1>7. \A p \in files : p \in files' \/ doc'[p.doc] = "deleted"
  BY <1>1, <1>2
<1>8. RendererFits'
  BY <1>1, <1>3, <1>4, <1>7, RendererRests DEF ReaderInv
<1>9. HandlersFit' /\ JobFits'
  BY <1>1, <1>3, Finishes DEF ReaderInv, JobFits
<1> QED BY <1>3, <1>6, <1>8, <1>9 DEF ReaderInv

(* The renderer's steps leave documents and handlers alone.                *)
LEMMA AtWork ==
  ASSUME ReaderInv, UNCHANGED <<doc, handler>>, RowsSafe', job' \in {job, NoJob}, RendererFits'
  PROVE  ReaderInv'
<1>1. DocsAge /\ DocsTyped'
  BY DocsStay DEF ReaderInv, DocsAge
<1> QED BY <1>1, HandlersKept, JobDropped DEF ReaderInv

(* Between two jobs nothing is asked of the renderer.                      *)
LEMMA RendererIdle ==
  ASSUME NEW place \in {"none", "sweep", "next", "keep", "prune"}, NEW part, NEW keep,
         renderer' = [pc |-> place, part |-> part, keep |-> keep]
  PROVE  RendererFits'
BY DEF RendererFits, AtPart, ReadDoc

LEMMA WorksOn ==
  ASSUME RendererFits, NEW place, Work(place)
  PROVE  renderer' = [pc |-> place, part |-> renderer.part, keep |-> renderer.keep]
<1>1. renderer' = [renderer EXCEPT !.pc = place]
  BY DEF Work
<1>2. \A p, a, k : [[pc |-> p, part |-> a, keep |-> k] EXCEPT !.pc = place]
                     = [pc |-> place, part |-> a, keep |-> k]
  OBVIOUS
<1>3. renderer = [pc |-> renderer.pc, part |-> renderer.part, keep |-> renderer.keep]
  BY DEF RendererFits
<1> QED BY <1>1, <1>2, <1>3

LEMMA WorksWith ==
  ASSUME RendererFits, NEW place, NEW keep,
         renderer' = [renderer EXCEPT !.pc = place, !.keep = keep]
  PROVE  renderer' = [pc |-> place, part |-> renderer.part, keep |-> keep]
<1> DEFINE there == [pc |-> place, part |-> renderer.part, keep |-> renderer.keep]
<1>1. renderer = [pc |-> renderer.pc, part |-> renderer.part, keep |-> renderer.keep]
  BY DEF RendererFits
<1>2. \A p, a, k : [[pc |-> p, part |-> a, keep |-> k] EXCEPT !.pc = place]
                     = [pc |-> place, part |-> a, keep |-> k]
  OBVIOUS
<1>3. [renderer EXCEPT !.pc = place] = there
  BY <1>1, <1>2
<1>4. \A p, a, k : [[pc |-> p, part |-> a, keep |-> k] EXCEPT !.keep = keep]
                     = [pc |-> p, part |-> a, keep |-> keep]
  OBVIOUS
<1>5. [there EXCEPT !.keep = keep] = [pc |-> place, part |-> renderer.part, keep |-> keep]
  BY <1>4
<1> HIDE DEF there
<1>6. \A r : [r EXCEPT !.pc = place, !.keep = keep] = [[r EXCEPT !.pc = place] EXCEPT !.keep = keep]
  OBVIOUS
<1> QED BY <1>3, <1>5, <1>6

LEMMA SweepInv ==
  ASSUME ReaderInv, SweepRows \/ SweepFiles
  PROVE  ReaderInv'
<1>1. UNCHANGED <<doc, handler, job>>
  BY DEF SweepRows, SweepFiles, memory, disk
<1>2. DocsAge
  BY <1>1, DocsStay DEF ReaderInv
<1>3. CASE SweepRows
  <2>1. rows' = Without(Recorded \ files) /\ UNCHANGED files
    BY <1>3 DEF SweepRows, disk
  <2>2. rows' \in Seq(AnyPart) /\ Recorded' \subseteq Recorded
    BY <2>1, Removed DEF ReaderInv
  <2>3. \A p \in Recorded' : p \in files' /\ doc'[p.doc] # "deleted"
    BY <1>1, <2>1, <2>2 DEF ReaderInv, RowsSafe
  <2>4. RowsSafe'
    BY <1>2, <2>2, <2>3, RowsKept DEF ReaderInv
  <2>5. renderer' = [pc |-> "sweepFiles", part |-> None, keep |-> Recorded]
    BY <1>3 DEF SweepRows, NoWork
  <2>6. RendererFits'
    BY <2>2, <2>5 DEF RendererFits, AtPart, ReadDoc
  <2> QED BY <1>1, <2>4, <2>6, AtWork
<1>4. CASE SweepFiles
  <2>1. /\ \A p \in files : p \in renderer.keep => p \in files'
        /\ UNCHANGED rows /\ renderer.pc = "sweepFiles"
        /\ renderer' = [pc |-> "next", part |-> None, keep |-> {}]
    BY <1>4, Unlinked DEF SweepFiles, NoWork, At
  <2>2. rows' \in Seq(AnyPart) /\ Recorded' = Recorded
    BY <2>1 DEF Recorded, ToSet, ReaderInv, RowsSafe
  <2>3. Recorded \subseteq renderer.keep
    BY <2>1 DEF ReaderInv, RendererFits
  <2>4. \A p \in Recorded' : p \in files' /\ doc'[p.doc] # "deleted"
    BY <1>1, <2>1, <2>2, <2>3 DEF ReaderInv, RowsSafe
  <2>5. RowsSafe'
    BY <1>2, <2>2, <2>4, RowsKept DEF ReaderInv
  <2>6. RendererFits'
    BY <2>1, RendererIdle
  <2> QED BY <1>1, <2>5, <2>6, AtWork
<1> QED BY <1>3, <1>4

(* Taking up a part of the job.                                            *)
LEMMA PickInv ==
  ASSUME ReaderInv, Pick \/ Stopped
  PROVE  ReaderInv'
<1>1. UNCHANGED <<doc, rows, files, handler, job>>
  BY DEF Pick, Stopped, stored, disk, memory
<1>2. RowsSafe'
  BY <1>1, RowsSame DEF ReaderInv
<1>3. RendererFits'
  <2>1. CASE Pick
    <3>1. PICK i \in 1..Len(job.parts) :
             renderer' = [NoWork EXCEPT !.pc = "blocks", !.part = job.parts[i]]
      BY <2>1 DEF Pick
    <3>2. job.parts[i] \in AnyPart
      BY ElementOfSeq DEF ReaderInv, JobFits
    <3>3. renderer' = [pc |-> "blocks", part |-> job.parts[i], keep |-> {}]
      BY <3>1 DEF NoWork
    <3> QED BY <3>2, <3>3 DEF RendererFits, AtPart, ReadDoc
  <2>2. CASE Stopped
    <3>1. renderer' = [pc |-> "none", part |-> None, keep |-> {}]
      BY <2>2 DEF Stopped, NoWork
    <3> QED BY <3>1, RendererIdle
  <2> QED BY <2>1, <2>2
<1> QED BY <1>1, <1>2, <1>3, AtWork

(* Speaking the part, which may fail or be given up at each step.          *)
LEMMA RenderInv ==
  ASSUME ReaderInv, ReadBlocks \/ Speak \/ LastLook \/ WriteTemp
  PROVE  ReaderInv'
<1>1. UNCHANGED <<doc, rows, files, handler>> /\ job' \in {job, NoJob}
  <2>1. CASE ReadBlocks
    BY <2>1 DEF ReadBlocks, DropJob, stored, disk
  <2>2. CASE Speak \/ LastLook \/ WriteTemp
    BY <2>2 DEF Speak, LastLook, WriteTemp, stored, disk, memory
  <2> QED BY <2>1, <2>2
<1>2. RowsSafe'
  BY <1>1, RowsSame DEF ReaderInv
<1>3. \/ Work("next")
      \/ renderer.pc = "blocks" /\ doc[renderer.part.doc] = "stored" /\ Work("speak")
      \/ renderer.pc = "speak" /\ Work("encoded")
      \/ renderer.pc = "encoded" /\ Work("write")
      \/ renderer.pc = "write" /\ Work("replace")
  <2>1. CASE ReadBlocks
    BY <2>1 DEF ReadBlocks, At, Fail
  <2>2. CASE Speak
    BY <2>2 DEF Speak, At, Fail
  <2>3. CASE LastLook
    BY <2>3 DEF LastLook, At
  <2>4. CASE WriteTemp
    BY <2>4 DEF WriteTemp, At, Fail
  <2> QED BY <2>1, <2>2, <2>3, <2>4
<1>4. RendererFits
  BY DEF ReaderInv
<1>5. RendererFits'
  <2>1. CASE Work("next")
    BY <1>4, <2>1, WorksOn, RendererIdle
  <2>2. ASSUME NEW place \in {"speak", "encoded", "write", "replace"}, Work(place),
               renderer.part \in AnyPart, doc[renderer.part.doc] # "absent"
        PROVE  RendererFits'
    <3>1. renderer' = [pc |-> place, part |-> renderer.part, keep |-> renderer.keep]
      BY <1>4, <2>2, WorksOn
    <3> QED BY <1>1, <2>2, <3>1 DEF RendererFits, AtPart, ReadDoc
  <2>3. renderer.pc \in {"blocks", "speak", "encoded", "write"} => renderer.part \in AnyPart
    BY <1>4 DEF RendererFits, AtPart
  <2>4. renderer.pc \in {"speak", "encoded", "write"} => doc[renderer.part.doc] # "absent"
    BY <1>4 DEF RendererFits, AtPart, ReadDoc
  <2> QED BY <1>3, <2>1, <2>2, <2>3, <2>4
<1> QED BY <1>1, <1>2, <1>5, AtWork

LEMMA ReplaceInv ==
  ASSUME ReaderInv, Replace
  PROVE  ReaderInv'
<1>1. /\ UNCHANGED <<doc, rows, handler, job>> /\ renderer.pc = "replace"
      /\ \/ files' = files \cup {renderer.part} /\ Work("save")
         \/ UNCHANGED files /\ Work("next")
  BY DEF Replace, At, Fail, disk
<1>2. RowsSafe'
  BY <1>1, RowsSame DEF ReaderInv
<1>3. RendererFits
  BY DEF ReaderInv
<1>4. RendererFits'
  <2>1. CASE files' = files \cup {renderer.part} /\ Work("save")
    <3>1. renderer' = [pc |-> "save", part |-> renderer.part, keep |-> renderer.keep]
      BY <1>3, <2>1, WorksOn
    <3>2. renderer.part \in AnyPart /\ doc[renderer.part.doc] # "absent"
      BY <1>1, <1>3 DEF RendererFits, AtPart, ReadDoc
    <3> QED BY <1>1, <2>1, <3>1, <3>2 DEF RendererFits, AtPart, ReadDoc
  <2>2. CASE UNCHANGED files /\ Work("next")
    BY <1>3, <2>2, WorksOn, RendererIdle
  <2> QED BY <1>1, <2>1, <2>2
<1> QED BY <1>1, <1>2, <1>4, AtWork

(* The part is recorded with its file there, or its document is gone.      *)
LEMMA SaveInv ==
  ASSUME ReaderInv, SavePart
  PROVE  ReaderInv'
<1> DEFINE p == renderer.part
<1>1. UNCHANGED <<doc, files, handler, job>> /\ renderer.pc = "save"
  BY DEF SavePart, At, memory, disk
<1>2. RendererFits /\ p \in AnyPart /\ doc[p.doc] # "absent"
  BY <1>1 DEF ReaderInv, RendererFits, AtPart, ReadDoc
<1>3. CASE doc[p.doc] = "stored"
  <2>1. rows' = Append(Without({p}), p) /\ Work("keep")
    BY <1>3 DEF SavePart
  <2>2. rows' \in Seq(AnyPart) /\ Recorded' \subseteq Recorded \cup {p}
    BY <1>2, <2>1, Moved DEF ReaderInv
  <2>3. p \in files
    BY <1>1, <1>2, <1>3 DEF RendererFits
  <2>4. RowsSafe'
    <3>1. \A q \in Recorded' : q \in files' /\ doc'[q.doc] = "stored"
      BY <1>1, <1>3, <2>2, <2>3 DEF ReaderInv, RowsSafe
    <3> QED BY <2>2, <3>1 DEF RowsSafe
  <2>5. RendererFits'
    BY <1>2, <2>1, WorksOn, RendererIdle
  <2> QED BY <1>1, <2>4, <2>5, AtWork
<1>4. CASE doc[p.doc] # "stored"
  <2>1. UNCHANGED rows /\ Work("discard")
    BY <1>4 DEF SavePart
  <2>2. RowsSafe'
    BY <1>1, <2>1, RowsSame DEF ReaderInv
  <2>3. p.doc \in Doc
    BY <1>2 DEF AnyPart
  <2>4. doc[p.doc] = "deleted"
    BY <1>2, <1>4, <2>3 DEF ReaderInv, DocsTyped, DocStates
  <2>5. renderer' = [pc |-> "discard", part |-> p, keep |-> renderer.keep]
    BY <1>2, <2>1, WorksOn
  <2>6. RendererFits'
    BY <1>1, <1>2, <2>4, <2>5 DEF RendererFits, AtPart, ReadDoc
  <2> QED BY <1>1, <2>2, <2>6, AtWork
<1> QED BY <1>3, <1>4

LEMMA DiscardInv ==
  ASSUME ReaderInv, Discard
  PROVE  ReaderInv'
<1>1. /\ UNCHANGED <<doc, rows, handler>> /\ renderer.pc = "discard" /\ Work("next")
      /\ \A p \in files : p = renderer.part \/ p \in files'
      /\ job' \in {job, NoJob}
  BY Unlinked DEF Discard, At, DropJob
<1>2. RendererFits /\ doc[renderer.part.doc] = "deleted"
  BY <1>1 DEF ReaderInv, RendererFits
<1>3. rows' \in Seq(AnyPart) /\ Recorded' = Recorded
  BY <1>1 DEF Recorded, ToSet, ReaderInv, RowsSafe
<1>4. \A p \in Recorded' : p \in files' /\ doc'[p.doc] = "stored"
  <2> TAKE p \in Recorded'
  <2>1. p \in files /\ doc[p.doc] = "stored"
    BY <1>3 DEF ReaderInv, RowsSafe
  <2>2. p # renderer.part
    BY <1>2, <2>1
  <2> QED BY <1>1, <2>1, <2>2
<1>5. RowsSafe'
  BY <1>3, <1>4 DEF RowsSafe
<1>6. RendererFits'
  BY <1>1, <1>2, WorksOn, RendererIdle
<1> QED BY <1>1, <1>5, <1>6, AtWork

(* Rows first, then files: what is unlinked is not recorded any more.      *)
LEMMA PruneInv ==
  ASSUME ReaderInv, Keep \/ PruneRows \/ PruneFiles
  PROVE  ReaderInv'
<1>1. UNCHANGED <<doc, handler, job>> /\ RendererFits
  BY DEF Keep, PruneRows, PruneFiles, stored, disk, memory, ReaderInv
<1>2. CASE Keep
  <2>1. UNCHANGED <<rows, files>>
    BY <1>2 DEF Keep, stored, disk
  <2>2. RowsSafe'
    BY <1>1, <2>1, RowsSame DEF ReaderInv
  <2>3. renderer' = [renderer EXCEPT !.pc = "prune", !.keep = ToSet(job.parts)]
    BY <1>2 DEF Keep
  <2>4. renderer' = [pc |-> "prune", part |-> renderer.part, keep |-> ToSet(job.parts)]
    BY <1>1, <2>3, WorksWith
  <2>5. RendererFits'
    BY <2>4, RendererIdle
  <2> QED BY <1>1, <2>2, <2>5, AtWork
<1>3. CASE PruneRows
  <2>1. PICK old : /\ rows' = Without(Prunable(old))
                   /\ renderer' = [renderer EXCEPT !.pc = "unlink", !.keep = Prunable(old)]
                   /\ UNCHANGED files
    BY <1>3 DEF PruneRows, disk
  <2>2. rows' \in Seq(AnyPart) /\ Recorded' \subseteq Recorded \ Prunable(old)
    BY <2>1, Removed DEF ReaderInv
  <2>3. \A p \in Recorded' : p \in files' /\ doc'[p.doc] = "stored"
    BY <1>1, <2>1, <2>2 DEF ReaderInv, RowsSafe
  <2>4. RowsSafe'
    BY <2>2, <2>3 DEF RowsSafe
  <2>5. renderer' = [pc |-> "unlink", part |-> renderer.part, keep |-> Prunable(old)]
    BY <1>1, <2>1, WorksWith
  <2>6. RendererFits'
    BY <2>2, <2>5 DEF RendererFits, AtPart, ReadDoc
  <2> QED BY <1>1, <2>4, <2>6, AtWork
<1>4. CASE PruneFiles
  <2>1. /\ \A p \in files : p \in renderer.keep \/ p \in files'
        /\ renderer.pc = "unlink" /\ UNCHANGED rows
        /\ renderer' = [pc |-> "next", part |-> None, keep |-> {}]
    BY <1>4, Unlinked DEF PruneFiles, At, NoWork
  <2>2. rows' \in Seq(AnyPart) /\ Recorded' = Recorded
    BY <2>1 DEF Recorded, ToSet, ReaderInv, RowsSafe
  <2>3. renderer.keep \cap Recorded = {}
    BY <1>1, <2>1 DEF RendererFits
  <2>4. \A p \in Recorded' : p \in files' /\ doc'[p.doc] = "stored"
    BY <1>1, <2>1, <2>2, <2>3 DEF ReaderInv, RowsSafe
  <2>5. RowsSafe'
    BY <2>2, <2>4 DEF RowsSafe
  <2>6. RendererFits'
    BY <2>1, RendererIdle
  <2> QED BY <1>1, <2>5, <2>6, AtWork
<1> QED BY <1>2, <1>3, <1>4

LEMMA ImportInv ==
  ASSUME ReaderInv, NEW d \in Doc, Import(d)
  PROVE  ReaderInv'
<1>1. /\ doc[d] = "absent" /\ doc' = [doc EXCEPT ![d] = "stored"]
      /\ UNCHANGED <<rows, files, job, renderer, handler>>
  BY DEF Import, memory, disk
<1>2. DocsAge /\ DocsTyped' /\ \A e \in Doc : e # d => doc'[e] = doc[e]
  BY <1>1 DEF ReaderInv, DocsAge, DocsTyped, DocStates
<1>3. rows' \in Seq(AnyPart) /\ Recorded' = Recorded
  BY <1>1 DEF Recorded, ToSet, ReaderInv, RowsSafe
<1>4. \A p \in Recorded' : p \in files' /\ doc'[p.doc] # "deleted"
  <2> TAKE p \in Recorded'
  <2>1. p \in files /\ doc[p.doc] = "stored" /\ p.doc \in Doc
    BY <1>3, RowsTyped DEF ReaderInv, RowsSafe
  <2> QED BY <1>1, <1>2, <2>1
<1>5. RowsSafe'
  BY <1>2, <1>3, <1>4, RowsKept DEF ReaderInv
<1>6. HandlersFit' /\ RendererFits'
  BY <1>1, <1>2, <1>3, HandlersKept, RendererRests DEF ReaderInv
<1>7. JobFits'
  BY <1>1 DEF ReaderInv, JobFits
<1> QED BY <1>2, <1>5, <1>6, <1>7 DEF ReaderInv

(* What a crash leaves is on disk: rows, files and documents.              *)
LEMMA RestartInv ==
  ASSUME ReaderInv, StopRenderer \/ Restart
  PROVE  ReaderInv'
<1>1. UNCHANGED <<doc, rows, files>> /\ job' = NoJob
  BY DEF StopRenderer, Restart, stored, disk
<1>2. DocsAge /\ DocsTyped'
  BY <1>1, DocsStay DEF ReaderInv, DocsAge
<1>3. RowsSafe' /\ Recorded' = Recorded
  BY <1>1, RowsSame DEF ReaderInv
<1>4. JobFits'
  BY <1>1, JobDropped DEF ReaderInv
<1>5. CASE StopRenderer
  <2>1. UNCHANGED <<renderer, handler>>
    BY <1>5 DEF StopRenderer
  <2> QED BY <1>1, <1>2, <1>3, <1>4, <2>1, HandlersKept, RendererRests DEF ReaderInv
<1>6. CASE Restart
  <2>1. /\ renderer' = [pc |-> "none", part |-> None, keep |-> {}]
        /\ handler' = [h \in Handler |-> NoHandler]
    BY <1>6 DEF Restart, NoWork
  <2>2. Fits(NoHandler, doc') /\ NoHandler \in Request
    BY NobodyFits DEF Fits
  <2>3. HandlersFit'
    BY <2>1, <2>2 DEF HandlersFit
  <2> QED BY <1>2, <1>3, <1>4, <2>1, <2>3, RendererIdle DEF ReaderInv
<1> QED BY <1>5, <1>6

LEMMA InitReader == ReaderInit => ReaderInv
<1> SUFFICES ASSUME ReaderInit PROVE ReaderInv
  OBVIOUS
<1> USE DEF ReaderInit
<1>1. rows = <<>> /\ <<>> \in Seq(AnyPart) /\ <<>> \in Seq(PartsOf(None))
  BY EmptySeq
<1>2. Recorded = {}
  BY <1>1, EmptySeq DEF Recorded, ToSet
<1>3. RowsSafe
  BY <1>1, <1>2 DEF RowsSafe
<1>4. DocsTyped
  BY DEF DocsTyped, DocStates
<1>5. JobFits
  BY <1>1 DEF JobFits, NoJob
<1>6. HandlersFit
  <2>1. Fits(NoHandler, doc) /\ NoHandler \in Request
    BY NobodyFits DEF Fits
  <2> QED BY <2>1 DEF HandlersFit
<1>7. RendererFits
  BY DEF RendererFits, NoWork, AtPart, ReadDoc
<1> QED BY <1>3, <1>4, <1>5, <1>6, <1>7 DEF ReaderInv

LEMMA HandleInv ==
  ASSUME ReaderInv, NEW h \in Handler, Asks(h) \/ Handle(h)
  PROVE  ReaderInv'
<1>1. CASE Asks(h)
  <2>1. ASSUME NEW d \in Doc, NEW from \in 1..Len(Outline[d]),
               Ask(h, "render", d, from, "outline") \/ Ask(h, "status", d, from, "outline")
        PROVE  ReaderInv'
    <3>1. from \in Nat /\ {"render", "status"} \subseteq Ops
      BY DEF Ops
    <3> QED BY <2>1, <3>1, AskInv
  <2>2. ASSUME NEW d \in Doc, Ask(h, "delete", d, 0, "forgetDocument") PROVE ReaderInv'
    <3>1. "delete" \in Ops /\ 0 \in Nat
      BY DEF Ops
    <3> QED BY <2>2, <3>1, AskInv
  <2> QED BY <1>1, <2>1, <2>2, FetchInv DEF Asks
<1>2. CASE Handle(h)
  BY <1>2, OutlineInv, ReadReadyInv, WalkInv, RowsInv, SetJobInv, ForgetDocumentInv, DeleteRowsInv,
     DeleteFilesInv DEF Handle
<1> QED BY <1>1, <1>2

LEMMA NextReader ==
  ASSUME ReaderInv, [ReaderNext]_readerVars
  PROVE  ReaderInv'
<1>1. CASE ReaderNext
  <2>1. CASE \E d \in Doc : Import(d)
    BY <2>1, ImportInv
  <2>2. CASE \E h \in Handler : Asks(h) \/ Handle(h)
    BY <2>2, HandleInv
  <2>3. CASE Worker
    BY <2>3, SweepInv, PickInv, RenderInv, ReplaceInv, SaveInv, DiscardInv, PruneInv DEF Worker
  <2>4. CASE LiveReader
    <3>1. UNCHANGED <<doc, rows, files, job, renderer, handler>>
      BY <2>4 DEF LiveReader, stored, disk, memory
    <3>2. HandlersFit'
      BY <3>1, DocsStay, HandlersKept DEF ReaderInv
    <3> QED BY <3>1, <3>2, OthersStay
  <2>5. CASE StopRenderer \/ Restart
    BY <2>5, RestartInv
  <2> QED BY <1>1, <2>1, <2>2, <2>3, <2>4, <2>5 DEF ReaderNext
<1>2. CASE UNCHANGED readerVars
  <2>1. UNCHANGED <<doc, rows, files, job, renderer, handler>>
    BY <1>2 DEF readerVars, stored, disk, memory
  <2>2. HandlersFit'
    BY <2>1, DocsStay, HandlersKept DEF ReaderInv
  <2> QED BY <2>1, <2>2, OthersStay
<1> QED BY <1>1, <1>2

(* What the Web Reader has recorded can be played: for any documents, any  *)
(* sizes of the cache and of the look-ahead, any number of pool threads,   *)
(* requests and restarts, no pruning, sweep, deletion or crash takes the   *)
(* file of a part and leaves its row (reader/store.py:275,                 *)
(* renderer.py:345).                                                       *)
THEOREM PartsHaveFiles == ReaderSpec => []RowHasFile
<1>1. ReaderInit => ReaderInv
  BY InitReader
<1>2. ReaderInv /\ [ReaderNext]_readerVars => ReaderInv'
  BY NextReader
<1>3. ReaderInv => RowHasFile
  BY DEF ReaderInv, RowsSafe, RowHasFile
<1> QED
  BY <1>1, <1>2, <1>3, PTL DEF ReaderSpec

-----------------------------------------------------------------------------
(* What is left of a deleted document.                                     *)
Deleting(p) == \E h \in Handler : handler[h].pc = "files" /\ handler[h].doc = p.doc

(* Who is to remove a file, and a temporary file: the handler that deletes *)
(* the document, the renderer when it finds the document gone, or the      *)
(* sweep of the next renderer.                                             *)
FileInHand(p) ==
  \/ Deleting(p)
  \/ renderer.pc \in {"save", "discard"} /\ renderer.part = p
  \/ renderer.pc \in {"none", "sweep"}
  \/ renderer.pc = "sweepFiles" /\ p \notin renderer.keep

TempInHand(p) ==
  \/ Deleting(p)
  \/ renderer.pc = "replace" /\ renderer.part = p
  \/ renderer.pc \in {"none", "sweep", "sweepFiles"}

LeftInHand ==
  /\ \A p \in Left    : doc[p.doc] = "deleted" => FileInHand(p)
  /\ \A p \in LeftTmp : doc[p.doc] = "deleted" => TempInHand(p)

LeftInv == files \subseteq AnyPart /\ tmp \subseteq AnyPart /\ LeftInHand

(* No handler but the one that deletes the files leaves that place.        *)
DeletersStay == \A h \in Handler : handler[h].pc = "files" => handler'[h] = handler[h]

LEMMA DeletingStays ==
  ASSUME DeletersStay, NEW p, Deleting(p)
  PROVE  Deleting(p)'
BY DEF DeletersStay, Deleting

LEMMA OneMoves ==
  ASSUME HandlersFit, NEW h \in Handler, handler[h].pc # "files",
         \/ \E place : Go(h, place)
         \/ Done(h)
         \/ \E r : handler' = [handler EXCEPT ![h] = r]
  PROVE  DeletersStay
BY DEF HandlersFit, DeletersStay, Go, Done

LEMMA LeftStays ==
  ASSUME LeftInv, UNCHANGED <<doc, disk>>, DeletersStay,
         \/ UNCHANGED renderer
         \/ renderer.pc \in {"none", "next"} /\ renderer'.pc \in {"none", "sweep"}
  PROVE  LeftInv'
<1>1. ASSUME NEW p \in Left, doc[p.doc] = "deleted" PROVE FileInHand(p)'
  BY <1>1, DeletingStays DEF LeftInv, LeftInHand, FileInHand
<1>2. ASSUME NEW p \in LeftTmp, doc[p.doc] = "deleted" PROVE TempInHand(p)'
  BY <1>2, DeletingStays DEF LeftInv, LeftInHand, TempInHand
<1> QED BY <1>1, <1>2 DEF disk, Left, LeftTmp, LeftInv, LeftInHand

LEMMA LeftByHandler ==
  ASSUME ReaderInv, LeftInv, NEW h \in Handler,
         Asks(h) \/ (Handle(h) /\ ~DeleteRows(h) /\ ~DeleteFiles(h))
  PROVE  LeftInv'
<1> USE DEF stored, disk, memory
<1>1. HandlersFit
  BY DEF ReaderInv
<1>2. CASE Asks(h)
  <2>1. /\ UNCHANGED <<doc, disk, renderer>> /\ handler[h].pc = "free"
        /\ \E r : handler' = [handler EXCEPT ![h] = r]
    BY <1>2 DEF Asks, Ask, FetchPart, Free
  <2> QED BY <1>1, <2>1, OneMoves, LeftStays
<1>3. CASE ReadOutline(h) \/ RememberOutline(h)
  <2>1. /\ UNCHANGED <<doc, disk, renderer>> /\ handler[h].pc # "files"
        /\ (\E place : Go(h, place)) \/ Done(h)
    BY <1>3 DEF ReadOutline, RememberOutline
  <2> QED BY <1>1, <2>1, OneMoves, LeftStays
<1>4. CASE ReadReady(h) \/ Walk(h)
  <2>1. UNCHANGED <<doc, disk, renderer>>
    BY <1>4 DEF ReadReady, Walk
  <2>2. DeletersStay
    BY <1>1, <1>4 DEF ReadReady, Walk, DeletersStay, HandlersFit
  <2> QED BY <2>1, <2>2, LeftStays
<1>5. CASE ForgetMissing(h) \/ ServePart(h) \/ ForgetDocument(h)
  <2>1. /\ UNCHANGED <<doc, disk, renderer>> /\ handler[h].pc # "files"
        /\ (\E place : Go(h, place)) \/ Done(h)
    BY <1>5 DEF ForgetMissing, ServePart, ForgetDocument
  <2> QED BY <1>1, <2>1, OneMoves, LeftStays
<1>6. CASE SetJob(h)
  <2>1. UNCHANGED <<doc, disk>> /\ handler[h].pc # "files" /\ Done(h)
    BY <1>6 DEF SetJob
  <2>2. \/ UNCHANGED renderer
        \/ renderer.pc = "none" /\ renderer'.pc = "sweep"
    BY <1>6 DEF SetJob, NoWork
  <2> QED BY <1>1, <2>1, <2>2, OneMoves, LeftStays
<1> QED BY <1>2, <1>3, <1>4, <1>5, <1>6 DEF Handle

(* The rows of the document go, and its deleter is to remove the files.    *)
LEMMA LeftByDeleteRows ==
  ASSUME ReaderInv, LeftInv, NEW h \in Handler, DeleteRows(h)
  PROVE  LeftInv'
<1> DEFINE d == handler[h].doc
<1>1. UNCHANGED <<disk, renderer>> /\ handler[h].pc = "rows" /\ HandlersFit
  BY DEF DeleteRows, memory, disk, ReaderInv
<1>2. d \in Doc /\ handler[h] \in Request
  BY <1>1 DEF HandlersFit, Fits
<1>3. CASE doc[d] = "stored"
  <2>1. doc' = [doc EXCEPT ![d] = "deleted"] /\ Go(h, "files")
    BY <1>3 DEF DeleteRows
  <2>2. DeletersStay
    BY <1>1, <2>1, OneMoves
  <2>3. handler'[h].pc = "files" /\ handler'[h].doc = d
    BY <1>1, <1>2, <2>1 DEF Go, HandlersFit, Request
  <2>4. ASSUME NEW p \in AnyPart, doc'[p.doc] = "deleted"
        PROVE  doc[p.doc] = "deleted" \/ Deleting(p)'
    <3>1. CASE p.doc = d
      BY <2>3, <3>1 DEF Deleting
    <3>2. CASE p.doc # d
      <4>1. p.doc \in Doc
        BY DEF AnyPart
      <4> QED BY <2>1, <2>4, <3>2, <4>1 DEF ReaderInv, DocsTyped
    <3> QED BY <3>1, <3>2
  <2>5. ASSUME NEW p \in Left, doc'[p.doc] = "deleted" PROVE FileInHand(p)'
    <3>1. Deleting(p)' \/ FileInHand(p)
      BY <2>4, <2>5 DEF Left, LeftTmp, LeftInv, LeftInHand
    <3> QED BY <1>1, <2>2, <3>1, DeletingStays DEF FileInHand
  <2>6. ASSUME NEW p \in LeftTmp, doc'[p.doc] = "deleted" PROVE TempInHand(p)'
    <3>1. Deleting(p)' \/ TempInHand(p)
      BY <2>4, <2>6 DEF Left, LeftTmp, LeftInv, LeftInHand
    <3> QED BY <1>1, <2>2, <3>1, DeletingStays DEF TempInHand
  <2> QED BY <1>1, <2>5, <2>6 DEF disk, Left, LeftTmp, LeftInv, LeftInHand
<1>4. CASE doc[d] # "stored"
  <2>1. UNCHANGED doc /\ Done(h)
    BY <1>4 DEF DeleteRows
  <2>2. DeletersStay
    BY <1>1, <2>1, OneMoves
  <2> QED BY <1>1, <2>1, <2>2, LeftStays
<1> QED BY <1>3, <1>4

LEMMA LeftByDeleteFiles ==
  ASSUME ReaderInv, LeftInv, NEW h \in Handler, DeleteFiles(h)
  PROVE  LeftInv'
<1> DEFINE d == handler[h].doc
<1>1. /\ UNCHANGED <<doc, renderer>> /\ handler' = [handler EXCEPT ![h] = NoHandler]
      /\ files' \subseteq files /\ \A p \in Left' : p \in Left /\ p.doc # d
      /\ tmp' \subseteq tmp /\ \A p \in LeftTmp' : p \in LeftTmp /\ p.doc # d
  <2>1. Unlink({p \in files : p.doc = d}, {p \in tmp : p.doc = d})
    BY DEF DeleteFiles
  <2>2. /\ \A p \in Left' : p \in Left /\ ~(p \in files /\ p.doc = d)
        /\ \A p \in LeftTmp' : p \in LeftTmp /\ ~(p \in tmp /\ p.doc = d)
    BY <2>1, Unlinked
  <2> QED BY <2>1, <2>2, Unlinked DEF DeleteFiles, memory, disk, Done, Left, LeftTmp
<1>2. ASSUME NEW p, p.doc # d, Deleting(p) PROVE Deleting(p)'
  <2>1. PICK k \in Handler : handler[k].pc = "files" /\ handler[k].doc = p.doc
    BY <1>2 DEF Deleting
  <2>2. k # h
    BY <1>2, <2>1
  <2>3. handler'[k] = handler[k]
    BY <1>1, <2>2 DEF ReaderInv, HandlersFit
  <2> QED BY <2>1, <2>3 DEF Deleting
<1>3. ASSUME NEW p \in Left', doc'[p.doc] = "deleted" PROVE FileInHand(p)'
  <2>1. p \in Left /\ p.doc # d
    BY <1>1, <1>3
  <2>2. FileInHand(p)
    BY <1>1, <1>3, <2>1 DEF LeftInv, LeftInHand
  <2> QED BY <1>1, <1>2, <2>1, <2>2 DEF FileInHand
<1>4. ASSUME NEW p \in LeftTmp', doc'[p.doc] = "deleted" PROVE TempInHand(p)'
  <2>1. p \in LeftTmp /\ p.doc # d
    BY <1>1, <1>4
  <2>2. TempInHand(p)
    BY <1>1, <1>4, <2>1 DEF LeftInv, LeftInHand
  <2> QED BY <1>1, <1>2, <2>1, <2>2 DEF TempInHand
<1> QED BY <1>1, <1>3, <1>4 DEF LeftInv, LeftInHand

(* The renderer's steps leave the deleting handlers where they are.        *)
LEMMA Handed ==
  ASSUME LeftInv, UNCHANGED <<doc, handler>>, files' \subseteq AnyPart, tmp' \subseteq AnyPart,
         \A p \in Left' : doc[p.doc] = "deleted" =>
           \/ p \in Left /\ (FileInHand(p) => Deleting(p))
           \/ FileInHand(p)',
         \A p \in LeftTmp' : doc[p.doc] = "deleted" =>
           \/ p \in LeftTmp /\ (TempInHand(p) => Deleting(p))
           \/ TempInHand(p)'
  PROVE  LeftInv'
<1>1. \A p : Deleting(p) => Deleting(p)'
  BY DEF Deleting
<1>2. ASSUME NEW p \in Left', doc'[p.doc] = "deleted" PROVE FileInHand(p)'
  BY <1>1, <1>2 DEF LeftInv, LeftInHand, FileInHand
<1>3. ASSUME NEW p \in LeftTmp', doc'[p.doc] = "deleted" PROVE TempInHand(p)'
  BY <1>1, <1>3 DEF LeftInv, LeftInHand, TempInHand
<1> QED BY <1>2, <1>3 DEF LeftInv, LeftInHand

(* At these places the renderer takes no file into its hands.              *)
LEMMA LeftElsewhere ==
  ASSUME LeftInv, UNCHANGED <<doc, handler>>, files' \subseteq files, tmp' \subseteq tmp,
         Left' \subseteq Left, LeftTmp' \subseteq LeftTmp,
         renderer.pc \in {"next", "blocks", "speak", "encoded", "write", "keep", "prune", "unlink"}
  PROVE  LeftInv'
<1>1. \A p : (FileInHand(p) => Deleting(p)) /\ (TempInHand(p) => Deleting(p))
  BY DEF FileInHand, TempInHand
<1> QED BY <1>1, Handed DEF LeftInv

LEMMA LeftBySweep ==
  ASSUME ReaderInv, LeftInv, SweepRows \/ SweepFiles
  PROVE  LeftInv'
<1>1. UNCHANGED <<doc, handler>>
  BY DEF SweepRows, SweepFiles
<1>2. CASE SweepRows
  <2>1. /\ UNCHANGED disk
        /\ renderer' = [pc |-> "sweepFiles", part |-> None, keep |-> Recorded]
    BY <1>2 DEF SweepRows, NoWork
  <2>2. ASSUME NEW p, doc[p.doc] = "deleted" PROVE FileInHand(p)' /\ TempInHand(p)'
    <3>1. p \notin Recorded
      BY <2>2 DEF ReaderInv, RowsSafe
    <3> QED BY <2>1, <3>1 DEF FileInHand, TempInHand
  <2> QED BY <1>1, <2>1, <2>2, Handed DEF disk, Left, LeftTmp, LeftInv
<1>3. CASE SweepFiles
  <2>1. Unlink(files \ renderer.keep, tmp) /\ renderer.pc = "sweepFiles"
    BY <1>3 DEF SweepFiles, At
  <2>2. /\ files' \subseteq files /\ \A p \in Left' : p \in Left /\ p \in renderer.keep
        /\ tmp' \subseteq tmp /\ \A p \in LeftTmp' : FALSE
    BY <2>1, Unlinked DEF Left, LeftTmp
  <2>3. \A p \in Left' : p \in Left /\ (FileInHand(p) => Deleting(p))
    BY <2>1, <2>2 DEF FileInHand
  <2> QED BY <1>1, <2>2, <2>3, Handed DEF LeftInv
<1> QED BY <1>2, <1>3

LEMMA LeftByWrite ==
  ASSUME ReaderInv, LeftInv, WriteTemp
  PROVE  LeftInv'
<1> DEFINE part == renderer.part
<1>1. UNCHANGED <<doc, handler, files>> /\ renderer.pc = "write" /\ RendererFits /\ part \in AnyPart
  BY DEF WriteTemp, At, ReaderInv, RendererFits, AtPart
<1>2. CASE UNCHANGED <<tmp, stuckFiles, stuckTmp>>
  BY <1>1, <1>2, LeftElsewhere DEF Left, LeftTmp
<1>3. CASE /\ tmp' = tmp \cup {part} /\ stuckFiles' = stuckFiles
           /\ stuckTmp' = stuckTmp \ {part} /\ Work("replace")
  <2>1. renderer'.pc = "replace" /\ renderer'.part = part
    BY <1>1, <1>3, WorksOn
  <2>2. /\ \A p \in Left' : p \in Left
        /\ \A p \in LeftTmp' : p \in LeftTmp \/ p = part
    BY <1>1, <1>3 DEF Left, LeftTmp
  <2>3. \A p \in Left' : p \in Left /\ (FileInHand(p) => Deleting(p))
    BY <1>1, <2>2 DEF FileInHand
  <2>4. \A p \in LeftTmp' : (p \in LeftTmp /\ (TempInHand(p) => Deleting(p))) \/ TempInHand(p)'
    BY <1>1, <2>1, <2>2 DEF TempInHand
  <2> QED BY <1>1, <1>3, <2>3, <2>4, Handed DEF LeftInv
<1>4. CASE /\ tmp' = tmp \cup {part} /\ stuckFiles' = stuckFiles
           /\ stuckTmp' = stuckTmp \cup {part}
  <2>1. Left' \subseteq Left /\ LeftTmp' \subseteq LeftTmp
    BY <1>1, <1>4 DEF Left, LeftTmp
  <2>2. \A p : (FileInHand(p) => Deleting(p)) /\ (TempInHand(p) => Deleting(p))
    BY <1>1 DEF FileInHand, TempInHand
  <2> QED BY <1>1, <1>4, <2>1, <2>2, Handed DEF LeftInv
<1> QED BY <1>2, <1>3, <1>4 DEF WriteTemp, Stuck

LEMMA LeftByReplace ==
  ASSUME ReaderInv, LeftInv, Replace
  PROVE  LeftInv'
<1> DEFINE part == renderer.part
<1>1. UNCHANGED <<doc, handler>> /\ renderer.pc = "replace" /\ RendererFits /\ part \in AnyPart
  BY DEF Replace, At, ReaderInv, RendererFits, AtPart
<1>2. \A p : /\ FileInHand(p) => Deleting(p)
             /\ p # part /\ TempInHand(p) => Deleting(p)
  BY <1>1 DEF FileInHand, TempInHand
<1>3. CASE /\ files' = files \cup {part} /\ tmp' = tmp \ {part}
           /\ stuckFiles' = stuckFiles \ {part} /\ stuckTmp' = stuckTmp \ {part} /\ Work("save")
  <2>1. renderer'.pc = "save" /\ renderer'.part = part
    BY <1>1, <1>3, WorksOn
  <2>2. /\ \A p \in Left' : p \in Left \/ p = part
        /\ \A p \in LeftTmp' : p \in LeftTmp /\ p # part
    BY <1>3 DEF Left, LeftTmp
  <2>3. \A p \in Left' : (p \in Left /\ (FileInHand(p) => Deleting(p))) \/ FileInHand(p)'
    BY <1>2, <2>1, <2>2 DEF FileInHand
  <2>4. \A p \in LeftTmp' : p \in LeftTmp /\ (TempInHand(p) => Deleting(p))
    BY <1>2, <2>2
  <2> QED BY <1>1, <1>3, <2>3, <2>4, Handed DEF LeftInv
<1>4. CASE /\ UNCHANGED <<files, tmp>> /\ stuckFiles' = stuckFiles
           /\ stuckTmp' = stuckTmp \cup {part}
  <2>1. /\ \A p \in Left' : p \in Left
        /\ \A p \in LeftTmp' : p \in LeftTmp /\ p # part
    BY <1>4 DEF Left, LeftTmp
  <2> QED BY <1>1, <1>2, <1>4, <2>1, Handed DEF LeftInv
<1>5. CASE part \notin tmp /\ UNCHANGED disk
  <2>1. /\ \A p \in Left' : p \in Left
        /\ \A p \in LeftTmp' : p \in LeftTmp /\ p # part
    BY <1>5 DEF Left, LeftTmp, disk
  <2> QED BY <1>1, <1>2, <1>5, <2>1, Handed DEF LeftInv, disk
<1> QED BY <1>3, <1>4, <1>5 DEF Replace, Stuck

(* The document is looked at once more with the file in place.             *)
LEMMA LeftBySave ==
  ASSUME ReaderInv, LeftInv, SavePart \/ Discard
  PROVE  LeftInv'
<1> DEFINE part == renderer.part
<1>1. UNCHANGED <<doc, handler>> /\ renderer.pc \in {"save", "discard"} /\ RendererFits
  BY DEF SavePart, Discard, At, ReaderInv
<1>2. \A p : /\ p # part => (FileInHand(p) => Deleting(p))
             /\ TempInHand(p) => Deleting(p)
  BY <1>1 DEF FileInHand, TempInHand
<1>3. CASE SavePart
  <2>1. UNCHANGED disk
    BY <1>3 DEF SavePart
  <2>2. Left' = Left /\ LeftTmp' = LeftTmp
    BY <2>1 DEF Left, LeftTmp, disk
  <2>3. \/ doc[part.doc] = "stored"
        \/ renderer'.pc = "discard" /\ renderer'.part = part
    BY <1>1, <1>3, WorksOn DEF SavePart
  <2>4. \A p \in Left' : doc[p.doc] = "deleted" =>
          (p \in Left /\ (FileInHand(p) => Deleting(p))) \/ FileInHand(p)'
    BY <1>2, <2>2, <2>3 DEF FileInHand
  <2> QED BY <1>1, <1>2, <2>1, <2>2, <2>4, Handed DEF LeftInv, disk
<1>4. CASE Discard
  <2>1. Unlink({part}, {})
    BY <1>4 DEF Discard
  <2>2. /\ files' \subseteq files /\ \A p \in Left' : p \in Left /\ p # part
        /\ tmp' \subseteq tmp /\ \A p \in LeftTmp' : p \in LeftTmp
    BY <2>1, Unlinked
  <2> QED BY <1>1, <1>2, <2>2, Handed DEF LeftInv
<1> QED BY <1>3, <1>4

LEMMA LeftByRenderer ==
  ASSUME ReaderInv, LeftInv, Worker
  PROVE  LeftInv'
<1> USE DEF stored, disk, memory, At
<1>0. ASSUME UNCHANGED disk
      PROVE  /\ files' \subseteq files /\ tmp' \subseteq tmp
             /\ Left' \subseteq Left /\ LeftTmp' \subseteq LeftTmp
  BY <1>0 DEF disk, Left, LeftTmp
<1>1. CASE SweepRows \/ SweepFiles
  BY <1>1, LeftBySweep
<1>2. CASE Pick
  <2>1. UNCHANGED <<doc, handler, disk>> /\ renderer.pc = "next"
    BY <1>2 DEF Pick
  <2> QED BY <2>1, <1>0, LeftElsewhere
<1>3. CASE Stopped
  <2>1. UNCHANGED <<doc, handler, disk>> /\ renderer.pc = "next"
    BY <1>3 DEF Stopped
  <2> QED BY <2>1, <1>0, LeftElsewhere
<1>4. CASE ReadBlocks
  <2>1. UNCHANGED <<doc, handler, disk>> /\ renderer.pc = "blocks"
    BY <1>4 DEF ReadBlocks
  <2> QED BY <2>1, <1>0, LeftElsewhere
<1>5. CASE Speak
  <2>1. UNCHANGED <<doc, handler, disk>> /\ renderer.pc = "speak"
    BY <1>5 DEF Speak
  <2> QED BY <2>1, <1>0, LeftElsewhere
<1>6. CASE LastLook
  <2>1. UNCHANGED <<doc, handler, disk>> /\ renderer.pc = "encoded"
    BY <1>6 DEF LastLook
  <2> QED BY <2>1, <1>0, LeftElsewhere
<1>7. CASE WriteTemp
  BY <1>7, LeftByWrite
<1>8. CASE Replace
  BY <1>8, LeftByReplace
<1>9. CASE SavePart \/ Discard
  BY <1>9, LeftBySave
<1>10. CASE Keep
  <2>1. UNCHANGED <<doc, handler, disk>> /\ renderer.pc = "keep"
    BY <1>10 DEF Keep
  <2> QED BY <2>1, <1>0, LeftElsewhere
<1>11. CASE PruneRows
  <2>1. UNCHANGED <<doc, handler, disk>> /\ renderer.pc = "prune"
    BY <1>11 DEF PruneRows
  <2> QED BY <2>1, <1>0, LeftElsewhere
<1>12. CASE PruneFiles
  <2>1. UNCHANGED <<doc, handler>> /\ Unlink(renderer.keep, {}) /\ renderer.pc = "unlink"
    BY <1>12 DEF PruneFiles
  <2>2. /\ files' \subseteq files /\ tmp' \subseteq tmp
        /\ Left' \subseteq Left /\ LeftTmp' \subseteq LeftTmp
    BY <2>1, Unlinked
  <2> QED BY <2>1, <2>2, LeftElsewhere
<1> QED
  BY <1>1, <1>2, <1>3, <1>4, <1>5, <1>6, <1>7, <1>8, <1>9, <1>10, <1>11, <1>12 DEF Worker

LEMMA LeftByImport ==
  ASSUME ReaderInv, LeftInv, NEW d \in Doc, Import(d)
  PROVE  LeftInv'
<1>1. doc[d] = "absent" /\ doc' = [doc EXCEPT ![d] = "stored"]
      /\ UNCHANGED <<disk, renderer, handler>>
  BY DEF Import, memory, disk
<1>2. ASSUME NEW p \in AnyPart, doc'[p.doc] = "deleted" PROVE doc[p.doc] = "deleted"
  <2>1. p.doc \in Doc
    BY DEF AnyPart
  <2> QED BY <1>1, <1>2, <2>1 DEF ReaderInv, DocsTyped
<1>3. \A p : Deleting(p) => Deleting(p)'
  BY <1>1 DEF Deleting
<1>4. ASSUME NEW p \in Left, doc'[p.doc] = "deleted" PROVE FileInHand(p)'
  BY <1>1, <1>2, <1>3, <1>4 DEF LeftInv, LeftInHand, FileInHand
<1>5. ASSUME NEW p \in LeftTmp, doc'[p.doc] = "deleted" PROVE TempInHand(p)'
  BY <1>1, <1>2, <1>3, <1>5 DEF LeftInv, LeftInHand, TempInHand
<1> QED BY <1>1, <1>4, <1>5 DEF disk, Left, LeftTmp, LeftInv, LeftInHand

LEMMA LeftByNext ==
  ASSUME ReaderInv, LeftInv, [ReaderNext]_readerVars
  PROVE  LeftInv'
<1>1. ASSUME NEW d \in Doc, Import(d) PROVE LeftInv'
  BY <1>1, LeftByImport
<1>2. ASSUME NEW h \in Handler, Asks(h) \/ Handle(h) PROVE LeftInv'
  BY <1>2, LeftByHandler, LeftByDeleteRows, LeftByDeleteFiles
<1>3. CASE Worker
  BY <1>3, LeftByRenderer
<1>4. ASSUME UNCHANGED <<doc, disk, renderer, handler>> PROVE LeftInv'
  <2>1. DeletersStay
    BY <1>4 DEF DeletersStay
  <2> QED BY <1>4, <2>1, LeftStays
<1>5. CASE LiveReader \/ StopRenderer \/ UNCHANGED readerVars
  BY <1>4, <1>5 DEF LiveReader, StopRenderer, readerVars, stored, disk
<1>6. CASE Restart
  <2>1. UNCHANGED <<doc, disk>> /\ renderer'.pc = "none"
    BY <1>6 DEF Restart, NoWork, stored, disk
  <2>2. \A p : FileInHand(p)' /\ TempInHand(p)'
    BY <2>1 DEF FileInHand, TempInHand
  <2> QED BY <2>1, <2>2 DEF disk, Left, LeftTmp, LeftInv, LeftInHand
<1> QED BY <1>1, <1>2, <1>3, <1>5, <1>6 DEF ReaderNext

(* Audio of a deleted document that is still in the cache folder, and that *)
(* the file system did not fail on when it was last tried, is about to be  *)
(* removed: by the handler that deletes the document, by the renderer when *)
(* it is to record the part, or by the sweep of the next renderer          *)
(* (routes/reader.py:122-132, reader/renderer.py:240-267, 345-367).        *)
THEOREM DeletedInHand == ReaderSpec => []LeftInHand
<1>1. ReaderInit => ReaderInv /\ LeftInv
  BY InitReader DEF Left, LeftTmp, ReaderInit, LeftInv, LeftInHand
<1>2. ReaderInv /\ LeftInv /\ [ReaderNext]_readerVars => (ReaderInv /\ LeftInv)'
  BY NextReader, LeftByNext
<1>3. ReaderInv /\ LeftInv => LeftInHand
  BY DEF LeftInv
<1> QED BY <1>1, <1>2, <1>3, PTL DEF ReaderSpec
=============================================================================
