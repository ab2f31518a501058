--------------------------- MODULE JobManagerProofs ---------------------------
(***************************************************************************)
(* Proofs about the Job_Manager, for every concurrency limit and every      *)
(* number of Jobs.  IInv of JobManager.tla is shown inductive, one lemma    *)
(* per action; the invariants follow from it and the action properties from *)
(* it and one step.                                                         *)
(***************************************************************************)
EXTENDS JobManager, FiniteSetTheorems, SequenceTheorems, TLAPS

-----------------------------------------------------------------------------
(* Counting slots.                                                           *)

(* The worker table is finite, so counting its entries means something.      *)
LEMMA TasksFinite ==
  ASSUME NEW S \in SUBSET Job
  PROVE  IsFiniteSet(S) /\ Cardinality(S) \in Nat
<1>1. IsFiniteSet(Job)
  BY MaxJobsAssumption, FS_Interval DEF Job
<1>2. IsFiniteSet(S)
  BY <1>1, FS_Subset
<1> QED
  BY <1>2, FS_CardinalityType

(* _worker_tasks[j] = task adds one entry for a Job that had none.           *)
LEMMA TaskAdded ==
  ASSUME NEW S \in SUBSET Job, NEW j \in Job, j \notin S
  PROVE  Cardinality(S \union {j}) = Cardinality(S) + 1
BY TasksFinite, FS_AddElement

(* _worker_tasks.pop(j) removes one entry for a Job that had one.            *)
LEMMA TaskRemoved ==
  ASSUME NEW S \in SUBSET Job, NEW j \in S
  PROVE  Cardinality(S \ {j}) = Cardinality(S) - 1
BY TasksFinite, FS_RemoveElement

-----------------------------------------------------------------------------
(* What the deque operations do to the queue.                                *)

(* append: one more entry, at the end.                                       *)
LEMMA QueueAppended ==
  ASSUME TypeOK, NEW j \in Job, Enqueued(j)
  PROVE  /\ queue' \in Seq(Job)
         /\ Len(queue') = Len(queue) + 1
         /\ Len(queue) \in Nat
         /\ \A n \in 1 .. Len(queue) : queue'[n] = queue[n]
         /\ queue'[Len(queue) + 1] = j
<1>1. queue \in Seq(Job)
  BY DEF TypeOK
<1>2. queue' = Append(queue, j)
  BY DEF Enqueued
<1> QED
  BY <1>1, <1>2, AppendProperties, LenProperties

(* popleft until the n-th entry has been popped: the entries after it remain. *)
LEMMA QueuePopped ==
  ASSUME TypeOK, NEW n \in 1 .. Len(queue),
         queue' = SubSeq(queue, n + 1, Len(queue))
  PROVE  /\ queue' \in Seq(Job)
         /\ Len(queue) \in Nat
         /\ Len(queue') = Len(queue) - n
         /\ \A m \in 1 .. Len(queue') : queue'[m] = queue[n + m]
<1>1. queue \in Seq(Job) /\ Len(queue) \in Nat
  BY LenProperties DEF TypeOK
<1>2. \A i \in n + 1 .. Len(queue) : queue[i] \in Job
  BY <1>1, ElementOfSeq
<1> DEFINE rest == SubSeq(queue, n + 1, Len(queue))
<1>3. /\ rest \in Seq(Job)
      /\ Len(rest) = IF n + 1 <= Len(queue) THEN Len(queue) - (n + 1) + 1 ELSE 0
      /\ \A i \in 1 .. Len(queue) - (n + 1) + 1 : rest[i] = queue[n + 1 + i - 1]
  <2>1. n + 1 \in Int /\ Len(queue) \in Int
    BY <1>1
  <2> QED
    BY <1>2, <2>1, SubSeqProperties
<1> HIDE DEF rest
<1>4. /\ Len(rest) = Len(queue) - n
      /\ \A m \in 1 .. Len(rest) : rest[m] = queue[n + m]
  BY <1>1, <1>3
<1>5. queue' = rest
  BY DEF rest
<1> QED
  BY <1>1, <1>3, <1>4, <1>5

(* remove: the entries after the removed one move up by one place.           *)
LEMMA QueueRemoved ==
  ASSUME TypeOK, NEW j \in Job, RemovedFromQueue(j),
         \E n \in 1 .. Len(queue) : queue[n] = j
  PROVE  /\ queue' \in Seq(Job)
         /\ Len(queue) \in Nat
         /\ Len(queue') = Len(queue) - 1
         /\ \E n \in 1 .. Len(queue) :
              /\ queue[n] = j
              /\ \A m \in 1 .. Len(queue') :
                   queue'[m] = IF m < n THEN queue[m] ELSE queue[m + 1]
<1>1. queue \in Seq(Job) /\ Len(queue) \in Nat
  BY LenProperties DEF TypeOK
<1>2. PICK n \in 1 .. Len(queue) :
        /\ queue[n] = j
        /\ queue' = [m \in 1 .. Len(queue) - 1 |->
                       IF m < n THEN queue[m] ELSE queue[m + 1]]
  BY DEF RemovedFromQueue
<1>3. \A m \in 1 .. Len(queue) - 1 :
        (IF m < n THEN queue[m] ELSE queue[m + 1]) \in Job
  BY <1>1, <1>2, ElementOfSeq
<1>4. queue' \in [1 .. Len(queue) - 1 -> Job]
  BY <1>2, <1>3
<1>5. Len(queue) - 1 \in Nat
  BY <1>1, <1>2
<1>6. queue' \in Seq(Job)
  BY <1>4, <1>5, SeqDef
<1>7. Len(queue') = Len(queue) - 1
  BY <1>4, <1>5, <1>6, LenProperties
<1> QED
  BY <1>1, <1>2, <1>6, <1>7

-----------------------------------------------------------------------------
(* Each action preserves IInv.  The steps come in groups by what they change. *)

(* Initially nothing is queued, held or running and every permit is free.    *)
LEMMA InitIInv == Init => IInv
<1> SUFFICES ASSUME Init PROVE IInv
  OBVIOUS
<1>1. Cardinality({}) = 0
  BY FS_EmptySet
<1>2. queue \in Seq(Job) /\ Len(queue) = 0
  BY EmptySeq DEF Init
<1>3. TypeOK
  <2>1. nextSuffix \in 1 .. MaxJobs + 1 /\ permits \in 0 .. ConcurrencyLimit
    BY ConcurrencyLimitAssumption, MaxJobsAssumption DEF Init
  <2> QED
    BY <1>2, <2>1 DEF Init, TypeOK, Status
<1>4. SlotAccounting
  BY <1>1, ConcurrencyLimitAssumption DEF Init, SlotAccounting
<1>5. QueueInv /\ PendingInv /\ TasksInv /\ NoMissedWakeup
  BY <1>2 DEF Init, QueueInv, PendingInv, TasksInv, NoMissedWakeup
<1>6. HeldInv /\ MintedInv
  BY MaxJobsAssumption DEF Init, HeldInv, MintedInv, Job, NoJob
<1> QED
  BY <1>3, <1>4, <1>5, <1>6 DEF IInv

(* Steps that move only the dispatcher: nothing they leave alone is about it *)
(* except that an acquiring dispatcher holds a Job and an idle one has none. *)
LEMMA DispatcherMoves ==
  ASSUME IInv, start \/ stop \/ DispatcherWakes
  PROVE  IInv'
<1> USE DEF IInv, start, stop, DispatcherWakes
<1>1. TypeOK'
  BY DEF TypeOK
<1>2. SlotAccounting'
  BY DEF SlotAccounting
<1>3. QueueInv' /\ MintedInv' /\ TasksInv'
  BY DEF QueueInv, MintedInv, TasksInv
<1>4. HeldInv'
  BY DEF HeldInv
<1>5. PendingInv'
  BY DEF PendingInv
<1>6. NoMissedWakeup'
  BY DEF NoMissedWakeup
<1> QED
  BY <1>1, <1>2, <1>3, <1>4, <1>5, <1>6

(* A new Job has the largest suffix, so it goes behind all others.           *)
LEMMA create_jobIInv ==
  ASSUME IInv, create_job
  PROVE  IInv'
<1> DEFINE j == nextSuffix
<1>1. j \in Job /\ status[j] = "Absent" /\ j \notin tasks /\ j # held
  BY DEF IInv, create_job, MintedInv, TasksInv, HeldInv, TypeOK, Job, NoJob
<1>2. /\ queue' \in Seq(Job)
      /\ Len(queue') = Len(queue) + 1
      /\ Len(queue) \in Nat
      /\ \A n \in 1 .. Len(queue) : queue'[n] = queue[n]
      /\ queue'[Len(queue) + 1] = j
  BY <1>1, QueueAppended DEF IInv, create_job
<1>3. \A i \in Job : status'[i] = IF i = j THEN "Queued" ELSE status[i]
  BY DEF IInv, TypeOK, create_job
<1>4. \A n \in 1 .. Len(queue) : queue[n] \in Job /\ queue[n] < j
  <2>1. \A n \in 1 .. Len(queue) : queue[n] \in Job
    BY ElementOfSeq DEF IInv, TypeOK
  <2> QED
    BY <2>1, <1>1 DEF IInv, QueueInv, MintedInv, TypeOK, Job
<1>5. TypeOK'
  <2>1. nextSuffix' \in 1 .. MaxJobs + 1
    BY <1>1, MaxJobsAssumption DEF create_job, Job
  <2>2. status' \in [Job -> Status]
    BY <1>1 DEF IInv, TypeOK, create_job, Status
  <2>3. wakeup' \in BOOLEAN
    BY DEF create_job, notify
  <2> QED
    BY <1>2, <2>1, <2>2, <2>3 DEF IInv, TypeOK, create_job
<1>6. SlotAccounting'
  BY <1>1, <1>3 DEF IInv, SlotAccounting, create_job
<1>7. QueueInv'
  BY <1>1, <1>2, <1>3, <1>4 DEF IInv, QueueInv
<1>8. HeldInv'
  <2>1. held # NoJob => status[held] # "Absent" /\ held \in Job
    BY DEF IInv, HeldInv, TypeOK
  <2>2. held # NoJob => held < j
    BY <2>1, <1>1 DEF IInv, MintedInv, TypeOK, Job
  <2> QED
    BY <2>1, <2>2, <1>1, <1>2, <1>3 DEF IInv, HeldInv, create_job
<1>9. MintedInv' /\ TasksInv'
  BY <1>1, <1>3 DEF IInv, MintedInv, TasksInv, TypeOK, create_job, Job
<1>10. PendingInv'
  <2> SUFFICES ASSUME dispatcher # "stopped", NEW i \in Job, status'[i] = "Queued"
               PROVE  held = i \/ \E n \in 1 .. Len(queue') : queue'[n] = i
    BY DEF PendingInv, create_job
  <2>1. CASE i = j
    BY <2>1, <1>2
  <2>2. CASE i # j
    BY <2>2, <1>2, <1>3 DEF IInv, PendingInv
  <2> QED
    BY <2>1, <2>2
<1>11. NoMissedWakeup'
  BY DEF NoMissedWakeup, create_job, notify
<1> QED
  BY <1>5, <1>6, <1>7, <1>8, <1>9, <1>10, <1>11 DEF IInv

(* Taking a permit for a Queued Job keeps permits and worker tasks balanced. *)
LEMMA SpawnAccounting ==
  ASSUME TypeOK, SlotAccounting, NEW j \in Job, j \notin tasks, permits > 0,
         _spawn_worker(j)
  PROVE  /\ SlotAccounting'
         /\ permits' \in 0 .. ConcurrencyLimit
         /\ tasks' \in SUBSET Job
         /\ token' \in [Job -> {"none", "clear", "set"}]
         /\ status' = [status EXCEPT ![j] = "Running"]
<1>1. Cardinality(tasks') = Cardinality(tasks) + 1
  BY TaskAdded DEF TypeOK, _spawn_worker
<1>2. Cardinality(tasks) \in Nat
  BY TasksFinite DEF TypeOK
<1>3. permits' = permits - 1 /\ permits \in Nat
  BY DEF TypeOK, _spawn_worker
<1>4. permits' + Cardinality(tasks') = ConcurrencyLimit
  BY <1>1, <1>2, <1>3 DEF SlotAccounting
<1>5. \A i \in Job : status'[i] = "Running" => i \in tasks'
  BY DEF SlotAccounting, TypeOK, _spawn_worker
<1> QED
  BY <1>3, <1>4, <1>5, ConcurrencyLimitAssumption
  DEF SlotAccounting, TypeOK, _spawn_worker

(* With no stale entries in the queue, the Job popped is the oldest one.     *)
LEMMA PopsFirst ==
  ASSUME IInv, NEW n \in 1 .. Len(queue), PopsAt(n)
  PROVE  n = 1
<1>1. Len(queue) \in Nat
  BY LenProperties DEF IInv, TypeOK
<1> QED
  BY <1>1 DEF IInv, QueueInv, PopsAt

(* Popping, spawning: the Job leaves the queue and gets a worker.            *)
LEMMA DispatchNowIInv ==
  ASSUME IInv, DispatchNow
  PROVE  IInv'
<1>1. PICK n \in 1 .. Len(queue) :
        /\ PopsAt(n)
        /\ queue' = SubSeq(queue, n + 1, Len(queue))
        /\ _spawn_worker(queue[n])
  BY DEF DispatchNow
<1>2. n = 1
  BY <1>1, PopsFirst
<1> DEFINE j == queue[1]
<1>3. /\ queue' \in Seq(Job)
      /\ Len(queue) \in Nat
      /\ Len(queue') = Len(queue) - 1
      /\ \A m \in 1 .. Len(queue') : queue'[m] = queue[1 + m]
  BY <1>1, <1>2, QueuePopped DEF IInv
<1>4. j \in Job /\ status[j] = "Queued" /\ j \notin tasks
  <2>1. j \in Job
    BY <1>1, <1>2, ElementOfSeq DEF IInv, TypeOK
  <2> QED
    BY <2>1, <1>1, <1>2 DEF IInv, QueueInv, TasksInv
<1>5. /\ SlotAccounting'
      /\ permits' \in 0 .. ConcurrencyLimit
      /\ tasks' \in SUBSET Job
      /\ token' \in [Job -> {"none", "clear", "set"}]
      /\ status' = [status EXCEPT ![j] = "Running"]
  BY <1>1, <1>2, <1>4, SpawnAccounting DEF IInv, DispatchNow
<1>6. /\ \A i \in Job : status'[i] = IF i = j THEN "Running" ELSE status[i]
      /\ tasks' = tasks \union {j}
      /\ UNCHANGED <<nextSuffix, wakeup, dispatcher, held, entered>>
      /\ dispatcher = "looping"
      /\ held = NoJob
  BY <1>1, <1>2, <1>5
  DEF IInv, TypeOK, HeldInv, DispatchNow, _spawn_worker
<1> HIDE DEF j
<1>7. TypeOK'
  BY <1>3, <1>4, <1>5, <1>6 DEF IInv, TypeOK, Status
<1>8. \A m \in 1 .. Len(queue') : queue'[m] # j
  <2> SUFFICES ASSUME NEW m \in 1 .. Len(queue')
               PROVE  queue'[m] # j
    OBVIOUS
  <2>1. 1 + m \in 1 .. Len(queue) /\ 1 \in 1 .. Len(queue) /\ 1 < 1 + m
    BY <1>3
  <2>2. queue[1] < queue[1 + m] /\ queue[1] \in Int
    BY <2>1, <1>4 DEF IInv, QueueInv, j, Job
  <2> QED
    BY <2>1, <2>2, <1>3 DEF j
<1>9. QueueInv'
  BY <1>3, <1>6, <1>8 DEF IInv, QueueInv
<1>10. HeldInv'
  BY <1>6 DEF IInv, HeldInv
<1>11. MintedInv' /\ TasksInv'
  BY <1>4, <1>6 DEF IInv, MintedInv, TasksInv, TypeOK
<1>12. PendingInv'
  <2> SUFFICES ASSUME NEW i \in Job, status'[i] = "Queued"
               PROVE  \E m \in 1 .. Len(queue') : queue'[m] = i
    BY DEF PendingInv
  <2>1. i # j /\ status[i] = "Queued"
    BY <1>6
  <2>2. PICK m \in 1 .. Len(queue) : queue[m] = i
    BY <2>1, <1>6 DEF IInv, PendingInv, NoJob, Job
  <2>3. m # 1
    BY <2>1, <2>2 DEF j
  <2>4. m - 1 \in 1 .. Len(queue') /\ queue'[m - 1] = i
    BY <2>2, <2>3, <1>3
  <2> QED
    BY <2>4
<1>13. NoMissedWakeup'
  BY <1>6 DEF NoMissedWakeup
<1> QED
  BY <1>5, <1>7, <1>9, <1>10, <1>11, <1>12, <1>13 DEF IInv

(* Popping without a free slot: the Job goes from the queue to the dispatcher *)
(* and stays older than everything left in the queue.                        *)
LEMMA DispatchMustWaitIInv ==
  ASSUME IInv, DispatchMustWait
  PROVE  IInv'
<1>1. PICK n \in 1 .. Len(queue) :
        /\ PopsAt(n)
        /\ queue' = SubSeq(queue, n + 1, Len(queue))
        /\ held' = queue[n]
  BY DEF DispatchMustWait
<1>2. n = 1
  BY <1>1, PopsFirst
<1>3. /\ queue' \in Seq(Job)
      /\ Len(queue) \in Nat
      /\ Len(queue') = Len(queue) - 1
      /\ \A m \in 1 .. Len(queue') : queue'[m] = queue[1 + m]
  BY <1>1, <1>2, QueuePopped DEF IInv
<1>4. held' \in Job /\ status[held'] = "Queued" /\ held' \notin tasks
  <2>1. held' \in Job
    BY <1>1, <1>2, ElementOfSeq DEF IInv, TypeOK
  <2> QED
    BY <2>1, <1>1, <1>2 DEF IInv, QueueInv, TasksInv
<1>5. /\ UNCHANGED <<nextSuffix, status, permits, wakeup, tasks, entered, token>>
      /\ dispatcher = "looping"
      /\ dispatcher' = "acquiring"
      /\ held = NoJob
  BY DEF IInv, HeldInv, DispatchMustWait
<1>6. TypeOK' /\ SlotAccounting'
  BY <1>3, <1>4, <1>5 DEF IInv, TypeOK, SlotAccounting
<1>7. QueueInv'
  BY <1>3, <1>5 DEF IInv, QueueInv
<1>8. HeldInv'
  <2>1. \A m \in 1 .. Len(queue') : held' < queue'[m]
    BY <1>1, <1>2, <1>3 DEF IInv, QueueInv
  <2>2. held' # NoJob
    BY <1>4 DEF Job, NoJob
  <2> QED
    BY <2>1, <2>2, <1>4, <1>5 DEF HeldInv
<1>9. MintedInv' /\ TasksInv'
  BY <1>5 DEF IInv, MintedInv, TasksInv
<1>10. PendingInv'
  <2> SUFFICES ASSUME NEW i \in Job, status[i] = "Queued", i # held'
               PROVE  \E m \in 1 .. Len(queue') : queue'[m] = i
    BY <1>5 DEF PendingInv
  <2>1. PICK m \in 1 .. Len(queue) : queue[m] = i
    BY <1>5 DEF IInv, PendingInv, NoJob, Job
  <2>2. m # 1
    BY <2>1, <1>1, <1>2
  <2>3. m - 1 \in 1 .. Len(queue') /\ queue'[m - 1] = i
    BY <2>1, <2>2, <1>3
  <2> QED
    BY <2>3
<1>11. NoMissedWakeup'
  BY <1>5 DEF NoMissedWakeup
<1> QED
  BY <1>6, <1>7, <1>8, <1>9, <1>10, <1>11 DEF IInv

(* The held Job gets its worker, or, cancelled meanwhile, is let go and the  *)
(* permit is left where it was.                                              *)
LEMMA SlotAcquiredIInv ==
  ASSUME IInv, SlotAcquired
  PROVE  IInv'
<1>1. /\ UNCHANGED <<nextSuffix, queue, wakeup, entered>>
      /\ held' = NoJob
      /\ dispatcher = "acquiring" /\ dispatcher' = "looping"
      /\ permits > 0
  BY DEF SlotAcquired
<1>2. /\ held \in Job
      /\ status[held] \in {"Queued", "Cancelled"}
      /\ held \notin tasks
      /\ \A n \in 1 .. Len(queue) : held < queue[n]
  BY <1>1 DEF IInv, HeldInv, TypeOK
<1>3. \A n \in 1 .. Len(queue) : queue[n] # held
  BY <1>2 DEF Job
<1>4. CASE StillQueued(held)
  <2>1. /\ SlotAccounting'
        /\ permits' \in 0 .. ConcurrencyLimit
        /\ tasks' \in SUBSET Job
        /\ token' \in [Job -> {"none", "clear", "set"}]
        /\ status' = [status EXCEPT ![held] = "Running"]
    BY <1>1, <1>2, <1>4, SpawnAccounting DEF IInv, SlotAcquired
  <2>2. /\ \A i \in Job : status'[i] = IF i = held THEN "Running" ELSE status[i]
        /\ tasks' = tasks \union {held}
    BY <1>4, <2>1 DEF IInv, TypeOK, SlotAcquired, _spawn_worker
  <2>3. TypeOK'
    BY <1>1, <1>2, <2>1, <2>2 DEF IInv, TypeOK, Status
  <2>4. QueueInv'
    BY <1>1, <1>3, <2>2, ElementOfSeq DEF IInv, QueueInv, TypeOK
  <2>5. HeldInv'
    BY <1>1 DEF HeldInv
  <2>6. MintedInv' /\ TasksInv'
    BY <1>1, <1>2, <2>2 DEF IInv, MintedInv, TasksInv, TypeOK
  <2>7. PendingInv' /\ NoMissedWakeup'
    BY <1>1, <1>2, <2>2 DEF IInv, PendingInv, NoMissedWakeup
  <2> QED
    BY <2>1, <2>3, <2>4, <2>5, <2>6, <2>7 DEF IInv
<1>5. CASE ~StillQueued(held)
  <2>1. UNCHANGED <<permits, token, status, tasks>>
    BY <1>5 DEF SlotAcquired
  <2>2. TypeOK' /\ SlotAccounting' /\ QueueInv'
    BY <1>1, <2>1 DEF IInv, TypeOK, SlotAccounting, QueueInv
  <2>3. HeldInv' /\ MintedInv' /\ TasksInv'
    BY <1>1, <2>1 DEF IInv, HeldInv, MintedInv, TasksInv
  <2>4. PendingInv' /\ NoMissedWakeup'
    BY <1>1, <1>5, <2>1 DEF IInv, PendingInv, NoMissedWakeup, StillQueued
  <2> QED
    BY <2>2, <2>3, <2>4 DEF IInv
<1> QED
  BY <1>4, <1>5

(* The dispatcher waits only on an empty queue.                              *)
LEMMA DispatcherSleepsIInv ==
  ASSUME IInv, DispatcherSleeps
  PROVE  IInv'
<1>1. queue' \in Seq(Job) /\ Len(queue') = 0
  BY EmptySeq DEF DispatcherSleeps
<1>2. Len(queue) = 0
  <2>1. Len(queue) \in Nat
    BY LenProperties DEF IInv, TypeOK
  <2>2. \A n \in 1 .. Len(queue) : FALSE
    BY DEF IInv, QueueInv, DispatcherSleeps, NothingQueued
  <2> QED
    BY <2>1, <2>2
<1>3. TypeOK' /\ SlotAccounting'
  BY <1>1 DEF IInv, TypeOK, SlotAccounting, DispatcherSleeps
<1>4. QueueInv' /\ HeldInv' /\ MintedInv' /\ TasksInv'
  BY <1>1 DEF IInv, QueueInv, HeldInv, MintedInv, TasksInv, DispatcherSleeps
<1>5. PendingInv' /\ NoMissedWakeup'
  BY <1>1, <1>2 DEF IInv, PendingInv, NoMissedWakeup, DispatcherSleeps
<1> QED
  BY <1>3, <1>4, <1>5 DEF IInv

(* Cancelling a Queued Job takes it out of the queue wherever it is, and     *)
(* leaves a held one to be skipped.                                          *)
LEMMA cancel_queuedIInv ==
  ASSUME IInv, NEW j \in Job, cancel_queued(j)
  PROVE  IInv'
<1>1. /\ UNCHANGED <<nextSuffix, permits, wakeup, dispatcher, held, tasks, entered, token>>
      /\ status[j] = "Queued"
      /\ \A i \in Job : status'[i] = IF i = j THEN "Cancelled" ELSE status[i]
      /\ status' \in [Job -> Status]
  BY DEF IInv, TypeOK, Status, Terminal, cancel_queued
<1>2. j \notin tasks
  BY <1>1 DEF IInv, TasksInv
<1>3. Len(queue) \in Nat /\ \A n \in 1 .. Len(queue) : queue[n] \in Job
  BY LenProperties, ElementOfSeq DEF IInv, TypeOK
<1>4. SlotAccounting' /\ MintedInv' /\ TasksInv'
  BY <1>1 DEF IInv, SlotAccounting, MintedInv, TasksInv, TypeOK
<1>5. CASE \E n \in 1 .. Len(queue) : queue[n] = j
  <2>1. PICK k \in 1 .. Len(queue) :
          /\ queue' \in Seq(Job)
          /\ Len(queue') = Len(queue) - 1
          /\ queue[k] = j
          /\ \A m \in 1 .. Len(queue') :
               queue'[m] = IF m < k THEN queue[m] ELSE queue[m + 1]
    BY <1>5, QueueRemoved DEF IInv, cancel_queued
  <2>2. \A m \in 1 .. Len(queue') :
          \E n \in 1 .. Len(queue) :
            /\ n # k
            /\ queue'[m] = queue[n]
            /\ n = IF m < k THEN m ELSE m + 1
    BY <2>1, <1>3
  <2>3. \A n \in 1 .. Len(queue) : n # k => queue[n] # j
    BY <2>1, <1>3 DEF IInv, QueueInv, Job
  <2>4. QueueInv'
    <3>1. \A m \in 1 .. Len(queue') : status'[queue'[m]] = "Queued"
      BY <2>2, <2>3, <1>1, <1>3 DEF IInv, QueueInv
    <3>2. \A l, m \in 1 .. Len(queue') : l < m => queue'[l] < queue'[m]
      <4> SUFFICES ASSUME NEW l \in 1 .. Len(queue'), NEW m \in 1 .. Len(queue'), l < m
                   PROVE  queue'[l] < queue'[m]
        OBVIOUS
      <4>1. PICK a \in 1 .. Len(queue) : queue'[l] = queue[a] /\ a = IF l < k THEN l ELSE l + 1
        BY <2>2
      <4>2. PICK b \in 1 .. Len(queue) : queue'[m] = queue[b] /\ b = IF m < k THEN m ELSE m + 1
        BY <2>2
      <4>3. a < b
        BY <4>1, <4>2, <1>3, <2>1
      <4> QED
        BY <4>1, <4>2, <4>3 DEF IInv, QueueInv
    <3> QED
      BY <3>1, <3>2 DEF QueueInv
  <2>5. HeldInv'
    BY <2>2, <1>1, <1>2 DEF IInv, HeldInv, TypeOK
  <2>6. PendingInv'
    <3> SUFFICES ASSUME dispatcher # "stopped", NEW i \in Job, status'[i] = "Queued", held # i
                 PROVE  \E m \in 1 .. Len(queue') : queue'[m] = i
      BY <1>1 DEF PendingInv
    <3>1. i # j /\ status[i] = "Queued"
      BY <1>1
    <3>2. PICK n \in 1 .. Len(queue) : queue[n] = i
      BY <3>1 DEF IInv, PendingInv
    <3>3. n # k
      BY <3>1, <3>2, <2>1
    <3>4. CASE n < k
      BY <3>2, <3>4, <2>1, <1>3
    <3>5. CASE n > k
      <4>1. n - 1 \in 1 .. Len(queue') /\ ~(n - 1 < k) /\ (n - 1) + 1 = n
        BY <3>5, <2>1, <1>3
      <4> QED
        BY <4>1, <3>2, <2>1
    <3> QED
      BY <3>3, <3>4, <3>5, <1>3
  <2>7. NoMissedWakeup'
    BY <2>2, <1>1 DEF IInv, QueueInv, NoMissedWakeup
  <2>8. TypeOK'
    BY <2>1, <1>1 DEF IInv, TypeOK
  <2> QED
    BY <1>4, <2>4, <2>5, <2>6, <2>7, <2>8 DEF IInv
<1>6. CASE ~\E n \in 1 .. Len(queue) : queue[n] = j
  <2>1. queue' = queue
    BY <1>6 DEF cancel_queued, RemovedFromQueue
  <2>2. TypeOK'
    BY <2>1, <1>1 DEF IInv, TypeOK
  <2>3. QueueInv' /\ NoMissedWakeup'
    BY <2>1, <1>1, <1>3, <1>6 DEF IInv, QueueInv, NoMissedWakeup
  <2>4. HeldInv' /\ PendingInv'
    BY <2>1, <1>1, <1>2, <1>6 DEF IInv, HeldInv, PendingInv, TypeOK
  <2> QED
    BY <1>4, <2>2, <2>3, <2>4 DEF IInv
<1> QED
  BY <1>5, <1>6

(* Steps that change only the status of Jobs that have a worker, and never to *)
(* Queued or Absent, do not concern the queue.                               *)
LEMMA StatusOfWorkersChanges ==
  ASSUME IInv, NEW j \in tasks, NEW s \in Status \ {"Absent", "Queued"},
         status' = [status EXCEPT ![j] = s],
         tasks' \in SUBSET tasks,
         UNCHANGED <<nextSuffix, queue, dispatcher, held>>,
         wakeup' \in {wakeup, TRUE}
  PROVE  /\ status' \in [Job -> Status]
         /\ QueueInv' /\ HeldInv' /\ MintedInv' /\ TasksInv'
         /\ PendingInv' /\ NoMissedWakeup'
<1>1. /\ j \in Job
      /\ status' \in [Job -> Status]
      /\ \A i \in Job : status'[i] = IF i = j THEN s ELSE status[i]
  BY DEF IInv, TypeOK
<1>2. /\ \A n \in 1 .. Len(queue) : queue[n] \in Job /\ queue[n] # j
      /\ status[j] \notin {"Absent", "Queued"}
  BY ElementOfSeq DEF IInv, TypeOK, QueueInv, TasksInv
<1>3. held # j
  BY DEF IInv, HeldInv, TypeOK, NoJob, Job
<1>4. QueueInv' /\ NoMissedWakeup'
  BY <1>1, <1>2 DEF IInv, QueueInv, NoMissedWakeup
<1>5. HeldInv'
  BY <1>1, <1>3 DEF IInv, HeldInv, TypeOK
<1>6. MintedInv' /\ TasksInv'
  BY <1>1, <1>2 DEF IInv, MintedInv, TasksInv, TypeOK
<1>7. PendingInv'
  BY <1>1, <1>2 DEF IInv, PendingInv
<1> QED
  BY <1>1, <1>4, <1>5, <1>6, <1>7

(* Freeing a slot keeps permits and worker tasks balanced.                   *)
LEMMA ReleaseAccounting ==
  ASSUME TypeOK, SlotAccounting, NEW j \in tasks, ReleaseSlot(j),
         \A i \in Job \ {j} : status'[i] = status[i],
         status'[j] # "Running"
  PROVE  /\ SlotAccounting'
         /\ permits' \in 0 .. ConcurrencyLimit
         /\ tasks' \in SUBSET Job /\ tasks' \subseteq tasks
         /\ entered' \subseteq tasks'
         /\ wakeup' = TRUE
         /\ token' \in [Job -> {"none", "clear", "set"}]
<1>1. Cardinality(tasks') = Cardinality(tasks) - 1 /\ Cardinality(tasks) \in Nat
  BY TaskRemoved, TasksFinite DEF TypeOK, ReleaseSlot
<1>2. Cardinality(tasks') \in Nat
  BY TasksFinite DEF TypeOK, ReleaseSlot
<1>3. permits' = permits + 1 /\ permits \in Nat
  BY DEF TypeOK, ReleaseSlot
<1>4. permits' + Cardinality(tasks') = ConcurrencyLimit
  BY <1>1, <1>3 DEF SlotAccounting
<1>5. permits' \in 0 .. ConcurrencyLimit
  BY <1>2, <1>3, <1>4, ConcurrencyLimitAssumption
<1>6. \A i \in Job : status'[i] = "Running" => i \in tasks'
  BY DEF SlotAccounting, TypeOK, ReleaseSlot
<1> QED
  BY <1>4, <1>5, <1>6 DEF SlotAccounting, TypeOK, ReleaseSlot

(* Cancelling a Running Job only signals it: queue, slots and tasks stay.    *)
LEMMA cancel_runningIInv ==
  ASSUME IInv, NEW j \in Job, cancel_running(j)
  PROVE  IInv'
<1>1. j \in tasks
  BY DEF IInv, SlotAccounting, cancel_running
<1>2. /\ status' \in [Job -> Status]
      /\ QueueInv' /\ HeldInv' /\ MintedInv' /\ TasksInv'
      /\ PendingInv' /\ NoMissedWakeup'
  BY <1>1, StatusOfWorkersChanges DEF cancel_running, Status, Terminal
<1>3. TypeOK'
  BY <1>2 DEF IInv, TypeOK, cancel_running
<1>4. SlotAccounting'
  BY DEF IInv, SlotAccounting, TypeOK, cancel_running
<1> QED
  BY <1>2, <1>3, <1>4 DEF IInv

(* The first step of a worker touches only its own Job's status.             *)
LEMMA WorkerEntersIInv ==
  ASSUME IInv, NEW j \in Job, WorkerEnters(j)
  PROVE  IInv'
<1>1. /\ status' \in [Job -> Status]
      /\ QueueInv' /\ HeldInv' /\ MintedInv' /\ TasksInv'
      /\ PendingInv' /\ NoMissedWakeup'
  BY StatusOfWorkersChanges DEF WorkerEnters, Status
<1>2. TypeOK'
  BY <1>1 DEF IInv, TypeOK, WorkerEnters
<1>3. SlotAccounting'
  BY DEF IInv, SlotAccounting, TypeOK, WorkerEnters
<1> QED
  BY <1>1, <1>2, <1>3 DEF IInv

(* Recording an outcome touches only the status; the slot is still held.     *)
LEMMA WorkerReportsIInv ==
  ASSUME IInv, NEW j \in Job, NEW outcome \in Finished, WorkerReports(j, outcome)
  PROVE  IInv'
<1>1. j \in tasks /\ outcome \in Status \ {"Absent", "Queued"} /\ outcome # "Running"
  BY DEF IInv, TypeOK, WorkerReports, Status, Terminal, Finished
<1>2. /\ status' \in [Job -> Status]
      /\ QueueInv' /\ HeldInv' /\ MintedInv' /\ TasksInv'
      /\ PendingInv' /\ NoMissedWakeup'
  BY <1>1, StatusOfWorkersChanges DEF WorkerReports
<1>3. TypeOK'
  BY <1>2 DEF IInv, TypeOK, WorkerReports
<1>4. SlotAccounting'
  BY <1>1 DEF IInv, SlotAccounting, TypeOK, WorkerReports
<1> QED
  BY <1>2, <1>3, <1>4 DEF IInv

(* However a worker ends, it ends terminal and gives back one slot.          *)
LEMMA WorkerEndsIInv ==
  ASSUME IInv, NEW j \in Job,
         WorkerReturns(j) \/ WorkerStops(j) \/ WorkerRaises(j) \/ WorkerTornDown(j)
  PROVE  IInv'
<1>1. /\ j \in tasks
      /\ ReleaseSlot(j)
      /\ UNCHANGED <<nextSuffix, queue, dispatcher, held>>
  BY DEF IInv, TypeOK, WorkerReturns, WorkerStops, WorkerRaises, WorkerTornDown
<1>2. PICK s \in Terminal : status' = [status EXCEPT ![j] = s]
  <2>1. CASE WorkerReturns(j)
    BY <2>1 DEF IInv, TypeOK, WorkerReturns, Finished, Terminal
  <2>2. CASE WorkerStops(j)
    BY <2>2 DEF WorkerStops, Terminal
  <2>3. CASE WorkerRaises(j)
    BY <2>3 DEF WorkerRaises, Finished, Terminal
  <2>4. CASE WorkerTornDown(j)
    BY <2>4 DEF WorkerTornDown, Terminal
  <2> QED
    BY <2>1, <2>2, <2>3, <2>4
<1>3. s \in Status \ {"Absent", "Queued"} /\ s # "Running"
  BY DEF Status, Terminal, Finished
<1>4. /\ SlotAccounting'
      /\ permits' \in 0 .. ConcurrencyLimit
      /\ tasks' \in SUBSET Job /\ tasks' \subseteq tasks
      /\ entered' \subseteq tasks'
      /\ wakeup' = TRUE
      /\ token' \in [Job -> {"none", "clear", "set"}]
  BY <1>1, <1>2, <1>3, ReleaseAccounting DEF IInv, TypeOK
<1>5. /\ status' \in [Job -> Status]
      /\ QueueInv' /\ HeldInv' /\ MintedInv' /\ TasksInv'
      /\ PendingInv' /\ NoMissedWakeup'
  BY <1>1, <1>2, <1>3, <1>4, StatusOfWorkersChanges
<1>6. TypeOK'
  BY <1>1, <1>4, <1>5 DEF IInv, TypeOK
<1> QED
  BY <1>4, <1>5, <1>6 DEF IInv

-----------------------------------------------------------------------------
(* The theorems.                                                             *)

(* Every step of the manager, its users and the workers preserves IInv.      *)
LEMMA NextIInv ==
  ASSUME IInv, [Next]_vars
  PROVE  IInv'
<1>1. CASE start \/ stop
  BY <1>1, DispatcherMoves
<1>2. CASE create_job
  BY <1>2, create_jobIInv
<1>3. CASE DispatcherStep
  BY <1>3, DispatchNowIInv, DispatchMustWaitIInv, SlotAcquiredIInv,
     DispatcherSleepsIInv, DispatcherMoves DEF DispatcherStep
<1>4. CASE \E j \in Job : create_revision(j)
  BY <1>4, create_jobIInv DEF create_revision
<1>5. CASE \E j \in Job : cancel(j)
  BY <1>5, cancel_queuedIInv, cancel_runningIInv DEF cancel
<1>6. CASE \E j \in Job : WorkerStep(j) \/ WorkerTornDown(j)
  BY <1>6, WorkerEntersIInv, WorkerReportsIInv, WorkerEndsIInv DEF WorkerStep
<1>7. CASE UNCHANGED vars
  BY <1>7 DEF vars, IInv, TypeOK, SlotAccounting, QueueInv, HeldInv, MintedInv,
              TasksInv, PendingInv, NoMissedWakeup
<1> QED
  BY <1>1, <1>2, <1>3, <1>4, <1>5, <1>6, <1>7 DEF Next

(* IInv holds in every reachable state of the Job_Manager.                   *)
THEOREM ManagerInvariant == Spec => []IInv
<1>1. Init => IInv
  BY InitIInv
<1>2. IInv /\ [Next]_vars => IInv'
  BY NextIInv
<1> QED
  BY <1>1, <1>2, PTL DEF Spec

(* Every variable keeps its type; in particular the semaphore never counts   *)
(* below zero or above the limit.                                            *)
THEOREM TypeCorrect == Spec => []TypeOK
<1>1. IInv => TypeOK
  BY DEF IInv
<1> QED
  BY <1>1, ManagerInvariant, PTL

(* Permits and worker tasks always add up to the limit, and a Running Job    *)
(* has a worker task: no path leaks a slot or frees one twice.               *)
THEOREM SlotsAreAccountedFor == Spec => []SlotAccounting
<1>1. IInv => SlotAccounting
  BY DEF IInv
<1> QED
  BY <1>1, ManagerInvariant, PTL

(* At most concurrency_limit Jobs are Running at any time.                   *)
THEOREM RunningJobsAreBounded ==
  Spec => [](Cardinality({j \in Job : status[j] = "Running"}) <= ConcurrencyLimit)
<1>1. IInv => Cardinality({j \in Job : status[j] = "Running"}) <= ConcurrencyLimit
  <2> SUFFICES ASSUME IInv
               PROVE  Cardinality({j \in Job : status[j] = "Running"}) <= ConcurrencyLimit
    OBVIOUS
  <2> DEFINE R == {j \in Job : status[j] = "Running"}
  <2>1. R \in SUBSET tasks /\ tasks \in SUBSET Job /\ R \in SUBSET Job
    BY DEF IInv, SlotAccounting, TypeOK
  <2> HIDE DEF R
  <2>2. Cardinality(R) <= Cardinality(tasks)
    BY <2>1, TasksFinite, FS_Subset
  <2>3. Cardinality(R) \in Nat /\ Cardinality(tasks) \in Nat
    BY <2>1, TasksFinite
  <2>4. permits \in Nat /\ permits + Cardinality(tasks) = ConcurrencyLimit
    BY DEF IInv, TypeOK, SlotAccounting
  <2>5. Cardinality(R) <= ConcurrencyLimit
    BY <2>2, <2>3, <2>4, ConcurrencyLimitAssumption
  <2> QED
    BY <2>5 DEF R
<1> QED
  BY <1>1, ManagerInvariant, PTL

(* A Queued Job is always in exactly one place the dispatcher will look.     *)
THEOREM QueuedJobsAreNeverLost == Spec => []QueuedIsPending
<1>1. IInv => QueuedIsPending
  <2> SUFFICES ASSUME IInv, dispatcher # "stopped", NEW j \in Job, status[j] = "Queued"
               PROVE  /\ (held = j) # (\E n \in 1 .. Len(queue) : queue[n] = j)
                      /\ \A m, n \in 1 .. Len(queue) :
                           queue[m] = j /\ queue[n] = j => m = n
    BY DEF QueuedIsPending
  <2>1. held = j \/ \E n \in 1 .. Len(queue) : queue[n] = j
    BY DEF IInv, PendingInv
  <2>2. held = j => \A n \in 1 .. Len(queue) : queue[n] # j
    BY DEF IInv, HeldInv, NoJob, Job
  <2>3. \A m, n \in 1 .. Len(queue) : queue[m] = j /\ queue[n] = j => m = n
    <3>1. Len(queue) \in Nat
      BY LenProperties DEF IInv, TypeOK
    <3> QED
      BY <3>1 DEF IInv, QueueInv, Job
  <2>4. (held = j) # (\E n \in 1 .. Len(queue) : queue[n] = j)
    BY <2>1, <2>2
  <2> QED
    BY <2>3, <2>4
<1> QED
  BY <1>1, ManagerInvariant, PTL

(* An idle dispatcher with work in the queue has a wakeup pending.           *)
THEOREM NoWakeupIsMissed == Spec => []NoMissedWakeup
<1>1. IInv => NoMissedWakeup
  BY DEF IInv
<1> QED
  BY <1>1, ManagerInvariant, PTL

(* Whoever is promoted, nobody submitted earlier is still waiting.           *)
THEOREM PromotionIsFifo == Spec => FifoPromotion
<1> DEFINE Fifo ==
      \A j \in Job : status[j] = "Queued" /\ status'[j] = "Running" =>
        \A i \in 1 .. j - 1 : status[i] # "Queued"
<1>1. ASSUME IInv, Next
      PROVE  Fifo
  <2> SUFFICES ASSUME NEW j \in Job, status[j] = "Queued", status'[j] = "Running",
                      NEW i \in 1 .. j - 1, status[i] = "Queued"
               PROVE  FALSE
    OBVIOUS
  <2>1. i \in Job /\ i < j /\ i # j
    BY MaxJobsAssumption DEF Job
  <2>2. held = i \/ \E n \in 1 .. Len(queue) : queue[n] = i
    <3>1. dispatcher # "stopped"
      BY <1>1 DEF IInv, Next, start, stop, create_job, DispatcherStep, DispatchNow,
        DispatchMustWait, SlotAcquired, DispatcherSleeps, DispatcherWakes,
        create_revision, cancel, cancel_queued, cancel_running, WorkerStep,
        WorkerEnters, WorkerReports, WorkerReturns, WorkerStops, WorkerRaises,
        WorkerTornDown, TypeOK, TasksInv, Finished, Terminal
    <3> QED
      BY <3>1, <2>1, <1>1 DEF IInv, PendingInv
  <2>3. DispatchNow \/ SlotAcquired
    BY <1>1 DEF IInv, Next, start, stop, create_job, DispatcherStep,
      DispatchMustWait, DispatcherSleeps, DispatcherWakes,
      create_revision, cancel, cancel_queued, cancel_running, WorkerStep,
      WorkerEnters, WorkerReports, WorkerReturns, WorkerStops, WorkerRaises,
      WorkerTornDown, TypeOK, TasksInv, Finished, Terminal
  <2>4. CASE DispatchNow
    <3>1. PICK n \in 1 .. Len(queue) : PopsAt(n) /\ _spawn_worker(queue[n])
      BY <2>4 DEF DispatchNow
    <3>2. n = 1 /\ queue[1] = j
      BY <3>1, <1>1, PopsFirst DEF IInv, TypeOK, _spawn_worker
    <3>3. PICK m \in 1 .. Len(queue) : queue[m] = i
      BY <2>2, <2>4, <2>1, <1>1 DEF IInv, HeldInv, DispatchNow, Job, NoJob
    <3>4. m # 1 => queue[1] < queue[m]
      BY <3>2, <3>3, <1>1 DEF IInv, QueueInv
    <3> QED
      BY <3>2, <3>3, <3>4, <2>1 DEF Job
  <2>5. CASE SlotAcquired
    <3>1. held = j
      BY <2>5, <1>1 DEF IInv, TypeOK, SlotAcquired, _spawn_worker
    <3>2. held < i
      BY <3>1, <2>1, <2>2, <1>1 DEF IInv, HeldInv, Job, NoJob
    <3> QED
      BY <3>1, <3>2, <2>1 DEF Job
  <2> QED
    BY <2>3, <2>4, <2>5
<1>2. IInv /\ [Next]_vars => [Fifo]_vars
  BY <1>1
<1> QED
  BY <1>2, ManagerInvariant, PTL DEF Spec, FifoPromotion

(* A Job cancelled in the queue, or in the dispatcher's hands, stays         *)
(* Cancelled and never gets a worker.                                        *)
THEOREM CancelledInQueueStaysCancelled == Spec => CancelledWhileQueuedNeverRuns
<1> DEFINE Stays ==
      \A j \in Job : status[j] = "Cancelled" /\ j \notin tasks =>
        status'[j] = "Cancelled" /\ j \notin tasks'
<1>1. ASSUME IInv, Next
      PROVE  Stays
  <2> SUFFICES ASSUME NEW j \in Job, status[j] = "Cancelled", j \notin tasks
               PROVE  status'[j] = "Cancelled" /\ j \notin tasks'
    OBVIOUS
  <2>1. CASE start \/ stop \/ DispatchMustWait \/ DispatcherSleeps \/ DispatcherWakes
    BY <2>1 DEF start, stop, DispatchMustWait, DispatcherSleeps, DispatcherWakes
  <2>2. CASE create_job \/ \E b \in Job : create_revision(b)
    BY <2>2, <1>1 DEF IInv, TypeOK, MintedInv, create_job, create_revision
  <2>3. CASE DispatchNow
    <3>1. PICK n \in 1 .. Len(queue) : PopsAt(n) /\ _spawn_worker(queue[n])
      BY <2>3 DEF DispatchNow
    <3> QED
      BY <3>1, <1>1 DEF IInv, TypeOK, PopsAt, _spawn_worker
  <2>4. CASE SlotAcquired
    BY <2>4, <1>1 DEF IInv, TypeOK, SlotAcquired, StillQueued, _spawn_worker
  <2>5. CASE \E i \in Job : cancel(i)
    BY <2>5, <1>1 DEF IInv, TypeOK, cancel, cancel_queued, cancel_running
  <2>6. CASE \E i \in Job : WorkerStep(i) \/ WorkerTornDown(i)
    BY <2>6, <1>1 DEF IInv, TypeOK, WorkerStep, WorkerEnters, WorkerReports,
      WorkerReturns, WorkerStops, WorkerRaises, WorkerTornDown, ReleaseSlot
  <2> QED
    BY <2>1, <2>2, <2>3, <2>4, <2>5, <2>6, <1>1 DEF Next, DispatcherStep
<1>2. IInv /\ [Next]_vars => [Stays]_vars
  BY <1>1
<1> QED
  BY <1>2, ManagerInvariant, PTL DEF Spec, CancelledWhileQueuedNeverRuns

-----------------------------------------------------------------------------
(* Why a Queued Job is served (QueuedJobIsServed): the part of it that is not    *)
(* about time.                                                               *)

(* While a Job is Queued the dispatcher has something to do, or waits for a slot  *)
(* that a worker has.                                                        *)
DispatcherCanMove ==
  (\E j \in Job : status[j] = "Queued") =>
    \/ dispatcher \in {"off", "looping", "stopped"}
    \/ dispatcher = "idle" /\ wakeup
    \/ dispatcher = "acquiring" /\ (permits > 0 \/ tasks # {})

(* What there is before Job j: its place in the queue, and whether the dispatcher  *)
(* has yet to come back to it.  It grows by nothing anybody does, submitting,      *)
(* cancelling or a worker that fails, and every step of the dispatcher makes it    *)
(* less.                                                                     *)
Position(j) == IF held = j THEN 0 ELSE CHOOSE n \in 1 .. Len(queue) : queue[n] = j
Ahead(j) == 2 * Position(j) + (IF dispatcher = "looping" THEN 0 ELSE 1)

ComesCloser ==
  \A j \in Job :
    status[j] = "Queued" /\ status'[j] = "Queued" /\ dispatcher' # "stopped" =>
      Ahead(j)' <= Ahead(j) /\ (DispatcherStep => Ahead(j)' < Ahead(j))

HasPosition ==
  dispatcher # "stopped" =>
    \A j \in Job : status[j] = "Queued" =>
      \/ held = j /\ Position(j) = 0
      \/ held # j /\ \E n \in 1 .. Len(queue) : queue[n] = j /\ Position(j) = n

LEMMA QueuedHasPosition == IInv => HasPosition
<1> SUFFICES ASSUME IInv, dispatcher # "stopped", NEW j \in Job, status[j] = "Queued", held # j
             PROVE  \E n \in 1 .. Len(queue) : queue[n] = j /\ Position(j) = n
  BY DEF HasPosition, Position
<1>1. \E n \in 1 .. Len(queue) : queue[n] = j
  BY DEF IInv, PendingInv
<1>2. Position(j) = CHOOSE n \in 1 .. Len(queue) : queue[n] = j
  BY DEF Position
<1> QED
  BY <1>1, <1>2

(* Two places of one Job are one.                                             *)
LEMMA OnePlace ==
  ASSUME IInv, NEW m \in 1 .. Len(queue), NEW n \in 1 .. Len(queue), queue[m] = queue[n]
  PROVE  m = n
<1>1. Len(queue) \in Nat /\ queue[m] \in Job /\ queue[n] \in Job
  BY LenProperties, ElementOfSeq DEF IInv, TypeOK
<1> QED
  BY <1>1 DEF IInv, QueueInv, Job

(* A step that leaves the queue and the dispatcher's hands alone.                *)
LEMMA SamePlaceInQueue ==
  ASSUME IInv, HasPosition, HasPosition', queue' = queue, held' = held,
         dispatcher # "stopped", dispatcher' # "stopped",
         NEW j \in Job, status[j] = "Queued", status'[j] = "Queued"
  PROVE  Position(j)' = Position(j) /\ Position(j) \in Nat
BY OnePlace, LenProperties DEF HasPosition, IInv, TypeOK

LEMMA DispatcherComesCloser ==
  ASSUME IInv, HasPosition, HasPosition', DispatcherStep,
         NEW j \in Job, status[j] = "Queued", status'[j] = "Queued"
  PROVE  Ahead(j)' < Ahead(j)
<1> USE DEF Ahead
<1>1. /\ dispatcher # "stopped" /\ dispatcher' # "stopped"
      /\ Len(queue) \in Nat /\ queue \in Seq(Job)
  BY LenProperties
  DEF DispatcherStep, DispatchNow, DispatchMustWait, SlotAcquired, DispatcherSleeps,
      DispatcherWakes, IInv, TypeOK
<1>2. CASE DispatcherWakes
  BY <1>1, <1>2, SamePlaceInQueue DEF DispatcherWakes
<1>3. CASE DispatcherSleeps
  <2>1. held # j
    BY <1>3 DEF IInv, HeldInv, DispatcherSleeps, Job, NoJob
  <2> QED
    BY <1>1, <1>3, <2>1 DEF HasPosition, DispatcherSleeps, NothingQueued
<1>4. CASE SlotAcquired
  <2>1. held # j
    BY <1>4 DEF SlotAcquired, StillQueued, _spawn_worker, IInv, TypeOK
  <2>2. held' # j /\ queue' = queue
    BY <1>4 DEF SlotAcquired, Job, NoJob
  <2>3. Position(j)' = Position(j) /\ Position(j) \in Nat
    BY <1>1, <2>1, <2>2, OnePlace DEF HasPosition
  <2> QED
    BY <1>4, <2>3 DEF SlotAcquired
<1>5. CASE DispatchNow \/ DispatchMustWait
  <2>1. PICK n \in 1 .. Len(queue) :
          PopsAt(n) /\ queue' = SubSeq(queue, n + 1, Len(queue))
    BY <1>5 DEF DispatchNow, DispatchMustWait
  <2>2. n = 1
    BY <2>1, PopsFirst
  <2>3. \A m \in 1 .. Len(queue') : queue'[m] = queue[1 + m] /\ 1 + m \in 1 .. Len(queue)
    BY <1>1, <2>1, <2>2, QueuePopped DEF IInv
  <2>4. held = NoJob /\ held # j /\ dispatcher = "looping"
    BY <1>5 DEF IInv, HeldInv, DispatchNow, DispatchMustWait, Job, NoJob
  <2>5. PICK m \in 1 .. Len(queue) : queue[m] = j /\ Position(j) = m
    BY <1>1, <2>4 DEF HasPosition
  <2>6. Position(j)' = Position(j) - 1
    <3>1. CASE held' = j
      <4>1. DispatchMustWait
        BY <1>5, <2>4, <3>1 DEF DispatchNow
      <4>2. PICK k \in 1 .. Len(queue) : PopsAt(k) /\ held' = queue[k]
        BY <4>1 DEF DispatchMustWait
      <4>3. k = 1 /\ m = 1
        BY <2>5, <3>1, <4>2, PopsFirst, OnePlace
      <4> QED
        BY <1>1, <2>5, <3>1, <4>3 DEF HasPosition
    <3>2. CASE held' # j
      <4>1. PICK k \in 1 .. Len(queue') : queue'[k] = j /\ Position(j)' = k
        BY <1>1, <3>2 DEF HasPosition
      <4>2. m = 1 + k
        BY <2>3, <2>5, <4>1, OnePlace
      <4> QED
        BY <2>5, <4>1, <4>2
    <3> QED
      BY <3>1, <3>2
  <2>7. Position(j) \in Nat
    BY <1>1, <2>5
  <2> QED
    BY <2>4, <2>6, <2>7
<1> QED
  BY <1>2, <1>3, <1>4, <1>5 DEF DispatcherStep

LEMMA SubmittedComesLast ==
  ASSUME IInv, HasPosition, HasPosition', create_job,
         dispatcher # "stopped", dispatcher' # "stopped",
         NEW j \in Job, status[j] = "Queued", status'[j] = "Queued"
  PROVE  Position(j)' = Position(j) /\ Position(j) \in Nat
<1>1. /\ nextSuffix \in Job /\ status[nextSuffix] = "Absent" /\ held' = held
      /\ Len(queue) \in Nat
  BY LenProperties DEF IInv, MintedInv, TypeOK, create_job, Job
<1>2. /\ Len(queue') = Len(queue) + 1
      /\ \A n \in 1 .. Len(queue) : queue'[n] = queue[n]
      /\ queue'[Len(queue) + 1] = nextSuffix
  BY <1>1, QueueAppended DEF IInv, create_job
<1>3. CASE held = j
  BY <1>1, <1>3 DEF HasPosition
<1>4. CASE held # j
  <2>1. PICK m \in 1 .. Len(queue) : queue[m] = j /\ Position(j) = m
    BY <1>4 DEF HasPosition
  <2>2. PICK k \in 1 .. Len(queue') : queue'[k] = j /\ Position(j)' = k
    BY <1>1, <1>4 DEF HasPosition
  <2>3. k # Len(queue) + 1
    BY <1>1, <1>2, <2>2
  <2>4. k \in 1 .. Len(queue) /\ queue[k] = j
    BY <1>1, <1>2, <2>2, <2>3
  <2> QED
    BY <2>1, <2>2, <2>4, OnePlace
<1> QED
  BY <1>3, <1>4

LEMMA CancelledMakesRoom ==
  ASSUME IInv, HasPosition, HasPosition', NEW i \in Job, cancel_queued(i),
         dispatcher # "stopped", dispatcher' # "stopped",
         NEW j \in Job, status[j] = "Queued", status'[j] = "Queued"
  PROVE  Position(j)' <= Position(j) /\ Position(j) \in Nat /\ Position(j)' \in Nat
<1>1. held' = held /\ Len(queue) \in Nat
  BY LenProperties DEF IInv, TypeOK, cancel_queued
<1>2. CASE held = j
  BY <1>1, <1>2 DEF HasPosition
<1>3. CASE held # j /\ \E n \in 1 .. Len(queue) : queue[n] = i
  <2>1. PICK m \in 1 .. Len(queue) : queue[m] = j /\ Position(j) = m
    BY <1>3 DEF HasPosition
  <2>2. PICK k \in 1 .. Len(queue') : queue'[k] = j /\ Position(j)' = k
    BY <1>1, <1>3 DEF HasPosition
  <2>3. Len(queue') = Len(queue) - 1 /\ queue'[k] \in {queue[k], queue[k + 1]}
    BY <1>3, <2>2, QueueRemoved DEF IInv, cancel_queued
  <2>4. m \in {k, k + 1}
    <3>1. k \in 1 .. Len(queue) /\ k + 1 \in 1 .. Len(queue)
      BY <1>1, <2>2, <2>3
    <3> QED
      BY <2>1, <2>2, <2>3, <3>1, OnePlace
  <2> QED
    BY <1>1, <2>1, <2>2, <2>3, <2>4
<1>4. CASE held # j /\ ~ \E n \in 1 .. Len(queue) : queue[n] = i
  <2>1. queue' = queue
    BY <1>4 DEF cancel_queued, RemovedFromQueue
  <2> QED
    BY <1>1, <2>1, SamePlaceInQueue
<1> QED
  BY <1>2, <1>3, <1>4

(* QueuedJobIsServed without the fairness, for every limit and any number of Jobs:  *)
(* the dispatcher is never stuck while a Job is Queued, except for want of a slot    *)
(* that a worker will give back, and nothing ever puts a Queued Job back.         *)
THEOREM QueuedJobComesCloser == Spec => []DispatcherCanMove /\ [][ComesCloser]_vars
<1>1. IInv => DispatcherCanMove
  <2> SUFFICES ASSUME IInv, NEW j \in Job, status[j] = "Queued",
                      dispatcher \notin {"off", "looping", "stopped"}
               PROVE  \/ dispatcher = "idle" /\ wakeup
                      \/ dispatcher = "acquiring" /\ (permits > 0 \/ tasks # {})
    BY DEF DispatcherCanMove
  <2>1. CASE dispatcher = "idle"
    <3>1. held = NoJob /\ held # j
      BY <2>1 DEF IInv, HeldInv, Job, NoJob
    <3>2. \E n \in 1 .. Len(queue) : queue[n] = j
      BY <2>1, <3>1 DEF IInv, PendingInv
    <3> QED
      BY <2>1, <3>2 DEF IInv, NoMissedWakeup
  <2>2. CASE dispatcher = "acquiring"
    <3>1. tasks = {} => Cardinality(tasks) = 0
      BY FS_EmptySet
    <3>2. tasks = {} => permits > 0
      BY <3>1, ConcurrencyLimitAssumption DEF IInv, SlotAccounting, TypeOK
    <3> QED
      BY <2>2, <3>2
  <2> QED
    BY <2>1, <2>2 DEF IInv, TypeOK
<1>2. ASSUME IInv, HasPosition, HasPosition', [Next]_vars
      PROVE  [ComesCloser]_vars
  <2> SUFFICES ASSUME Next, NEW j \in Job, status[j] = "Queued", status'[j] = "Queued",
                      dispatcher' # "stopped"
               PROVE  Ahead(j)' <= Ahead(j) /\ (DispatcherStep => Ahead(j)' < Ahead(j))
    BY <1>2 DEF ComesCloser
  <2>1. CASE DispatcherStep
    <3>1. Ahead(j)' < Ahead(j)
      BY <1>2, <2>1, DispatcherComesCloser
    <3>2. dispatcher # "stopped" /\ Len(queue) \in Nat
      BY <1>2, <2>1, LenProperties
      DEF DispatcherStep, DispatchNow, DispatchMustWait, SlotAcquired, DispatcherSleeps,
          DispatcherWakes, IInv, TypeOK
    <3>3. Position(j) \in Nat
      BY <1>2, <3>2 DEF HasPosition
    <3>4. Position(j)' \in Nat
      <4>1. Len(queue') \in Nat
        BY <1>2, <2>1, <3>2, QueuePopped, EmptySeq
        DEF IInv, DispatcherStep, DispatchNow, DispatchMustWait, SlotAcquired,
            DispatcherSleeps, DispatcherWakes
      <4> QED
        BY <1>2, <4>1 DEF HasPosition
    <3> QED
      BY <3>1, <3>3, <3>4 DEF Ahead
  <2>2. CASE ~ DispatcherStep
    <3>1. dispatcher # "stopped" /\ (dispatcher = "looping" => dispatcher' = "looping")
      BY <2>2
      DEF Next, start, stop, create_job, create_revision, cancel, cancel_queued,
          cancel_running, WorkerStep, WorkerEnters, WorkerReports, WorkerReturns,
          WorkerStops, WorkerRaises, WorkerTornDown
    <3>2. Position(j)' <= Position(j) /\ Position(j) \in Nat /\ Position(j)' \in Nat
      <4>1. CASE create_job
        BY <1>2, <3>1, <4>1, SubmittedComesLast
      <4>2. CASE \E i \in Job : cancel_queued(i)
        BY <1>2, <3>1, <4>2, CancelledMakesRoom
      <4>3. CASE queue' = queue /\ held' = held
        BY <1>2, <3>1, <4>3, SamePlaceInQueue
      <4> QED
        BY <2>2, <4>1, <4>2, <4>3
        DEF Next, start, stop, create_revision, cancel, cancel_running, WorkerStep,
            WorkerEnters, WorkerReports, WorkerReturns, WorkerStops, WorkerRaises,
            WorkerTornDown
    <3> QED
      BY <2>2, <3>1, <3>2 DEF Ahead
  <2> QED
    BY <2>1, <2>2
<1> QED
  BY <1>1, <1>2, QueuedHasPosition, ManagerInvariant, PTL DEF Spec
=============================================================================
