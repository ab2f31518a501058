------------------------------ MODULE JobManager ------------------------------
(***************************************************************************)
(* The Job_Manager (discord_ollama_agent/job_manager.py): the Job table,    *)
(* the FIFO queue, the dispatcher coroutine, the semaphore that bounds the  *)
(* Running Jobs and cancellation.                                           *)
(*                                                                         *)
(* Everything runs on one asyncio event loop, so one action is the code     *)
(* between two points where a coroutine may suspend.  A Job is identified   *)
(* by the suffix of its id: ids are "<target>-<suffix>" with a suffix that  *)
(* is minted once, so two Jobs are equal iff their suffixes are.            *)
(*                                                                         *)
(* The worker coroutine of a Job is left open here: the module states what  *)
(* the manager assumes of it (the actions Worker...), and CodingAgent.tla   *)
(* gives the worker the application really installs.                        *)
(***************************************************************************)
EXTENDS Integers, Sequences, FiniteSets

CONSTANTS ConcurrencyLimit,  \* slots of the semaphore
          MaxJobs            \* bound on the Jobs ever created

ASSUME ConcurrencyLimitAssumption == ConcurrencyLimit \in Nat \ {0}
ASSUME MaxJobsAssumption == MaxJobs \in Nat

Job == 1 .. MaxJobs
NoJob == 0

Finished == {"Succeeded", "Failed"}
Terminal == Finished \union {"Cancelled"}
Status == {"Absent", "Queued", "Running"} \union Terminal

VARIABLES
  nextSuffix,  \* _suffix_counter: the suffix of the next Job
  status,      \* job.status; "Absent" while the id has not been minted
  queue,       \* _queue: the suffixes awaiting dispatch, oldest first
  permits,     \* _semaphore: free running slots
  wakeup,      \* _wakeup: the event that wakes an idle dispatcher
  dispatcher,  \* where the _dispatch_loop coroutine is
  held,        \* the Job it popped and waits for a slot with, or NoJob
  tasks,       \* _worker_tasks: the Jobs whose worker holds a slot
  entered,     \* those whose worker coroutine has executed its first step
  token        \* _cancel_tokens: "none", or whether it has been signalled

vars == <<nextSuffix, status, queue, permits, wakeup, dispatcher, held,
          tasks, entered, token>>

TypeOK ==
  /\ nextSuffix \in 1 .. MaxJobs + 1
  /\ status \in [Job -> Status]
  /\ queue \in Seq(Job)
  /\ permits \in 0 .. ConcurrencyLimit
  /\ wakeup \in BOOLEAN
  /\ dispatcher \in {"off", "looping", "idle", "acquiring", "stopped"}
  /\ held \in Job \union {NoJob}
  /\ tasks \subseteq Job
  /\ entered \subseteq tasks
  /\ token \in [Job -> {"none", "clear", "set"}]

Init ==
  /\ nextSuffix = 1
  /\ status = [j \in Job |-> "Absent"]
  /\ queue = << >>
  /\ permits = ConcurrencyLimit
  /\ wakeup = FALSE
  /\ dispatcher = "off"
  /\ held = NoJob
  /\ tasks = {}
  /\ entered = {}
  /\ token = [j \in Job |-> "none"]

-----------------------------------------------------------------------------
(* Submitting.  The /build and /revise handlers create a Job and notify the  *)
(* dispatcher without suspending, so both belong to one step.  Commands are  *)
(* registered after the dispatcher was started.                              *)

notify_Forgotten == wakeup' = wakeup
notify == wakeup' = TRUE

Enqueued_AtFront(j) == queue' = <<j>> \o queue
Enqueued(j) == queue' = Append(queue, j)

create_job ==
  /\ dispatcher # "off"
  /\ nextSuffix \in Job
  /\ nextSuffix' = nextSuffix + 1
  /\ status' = [status EXCEPT ![nextSuffix] = "Queued"]
  /\ Enqueued(nextSuffix)
  /\ notify
  /\ UNCHANGED <<permits, dispatcher, held, tasks, entered, token>>

(* A revision is a Job of its own; only a Succeeded Job can be its base.     *)
create_revision(base) ==
  /\ status[base] = "Succeeded"
  /\ create_job

-----------------------------------------------------------------------------
(* The dispatcher.  One iteration of _dispatch_loop is one step; when a slot *)
(* is free it pops, takes the permit and spawns without suspending.          *)

start ==
  /\ dispatcher = "off"
  /\ dispatcher' = "looping"
  /\ UNCHANGED <<nextSuffix, status, queue, permits, wakeup, held, tasks,
                 entered, token>>

(* _pop_next_queued returns the first entry whose Job is still Queued and    *)
(* discards the stale entries before it.                                     *)
PopsAt(n) ==
  /\ n \in 1 .. Len(queue)
  /\ status[queue[n]] = "Queued"
  /\ \A m \in 1 .. n - 1 : status[queue[m]] # "Queued"

NothingQueued == \A n \in 1 .. Len(queue) : status[queue[n]] # "Queued"

(* _spawn_worker: the Job is Running, its worker task exists but has not run *)
_spawn_worker_PermitNotTaken(j) ==
  /\ permits' = permits
  /\ token' = [token EXCEPT ![j] = "clear"]
  /\ status' = [status EXCEPT ![j] = "Running"]
  /\ tasks' = tasks \union {j}

_spawn_worker(j) ==
  /\ permits' = permits - 1
  /\ token' = [token EXCEPT ![j] = "clear"]
  /\ status' = [status EXCEPT ![j] = "Running"]
  /\ tasks' = tasks \union {j}

(* The iteration finds a Queued Job and a free slot.                         *)
DispatchNow ==
  /\ dispatcher = "looping"
  /\ permits > 0
  /\ \E n \in 1 .. Len(queue) :
       /\ PopsAt(n)
       /\ queue' = SubSeq(queue, n + 1, Len(queue))
       /\ _spawn_worker(queue[n])
  /\ UNCHANGED <<nextSuffix, wakeup, dispatcher, held, entered>>

(* It finds a Queued Job but no slot: the Job is out of the queue, in the    *)
(* hands of a dispatcher suspended in semaphore.acquire().                   *)
DispatchMustWait ==
  /\ dispatcher = "looping"
  /\ permits = 0
  /\ \E n \in 1 .. Len(queue) :
       /\ PopsAt(n)
       /\ queue' = SubSeq(queue, n + 1, Len(queue))
       /\ held' = queue[n]
  /\ dispatcher' = "acquiring"
  /\ UNCHANGED <<nextSuffix, status, permits, wakeup, tasks, entered, token>>

(* A slot was released: run the held Job unless it was cancelled meanwhile.  *)
StillQueued_NotChecked(j) == TRUE
StillQueued(j) == status[j] = "Queued"

SlotAcquired_PermitKeptWhenSkipping ==
  /\ dispatcher = "acquiring"
  /\ permits > 0
  /\ IF StillQueued(held)
     THEN _spawn_worker(held)
     ELSE permits' = permits - 1 /\ UNCHANGED <<token, status, tasks>>
  /\ held' = NoJob
  /\ dispatcher' = "looping"
  /\ UNCHANGED <<nextSuffix, queue, wakeup, entered>>

SlotAcquired ==
  /\ dispatcher = "acquiring"
  /\ permits > 0
  /\ IF StillQueued(held)
     THEN _spawn_worker(held)
     ELSE UNCHANGED <<permits, token, status, tasks>>
  /\ held' = NoJob
  /\ dispatcher' = "looping"
  /\ UNCHANGED <<nextSuffix, queue, wakeup, entered>>

(* It finds nothing: clear the event, look again, wait.                      *)
DispatcherSleeps ==
  /\ dispatcher = "looping"
  /\ NothingQueued
  /\ queue' = << >>
  /\ wakeup' = FALSE
  /\ dispatcher' = "idle"
  /\ UNCHANGED <<nextSuffix, status, permits, held, tasks, entered, token>>

DispatcherWakes ==
  /\ dispatcher = "idle"
  /\ wakeup
  /\ dispatcher' = "looping"
  /\ UNCHANGED <<nextSuffix, status, queue, permits, wakeup, held, tasks,
                 entered, token>>

(* stop, at shutdown: the dispatcher coroutine is cancelled where it is and  *)
(* a Job it holds is lost with it.  The workers are left alone.              *)
stop ==
  /\ dispatcher \notin {"off", "stopped"}
  /\ dispatcher' = "stopped"
  /\ held' = NoJob
  /\ wakeup' = TRUE
  /\ UNCHANGED <<nextSuffix, status, queue, permits, tasks, entered, token>>

-----------------------------------------------------------------------------
(* Cancelling.  An unknown or a terminal Job is refused with no change.      *)

RemovedFromQueue_WithAllAfter(j) ==
  IF \E n \in 1 .. Len(queue) : queue[n] = j
  THEN \E n \in 1 .. Len(queue) :
         /\ queue[n] = j
         /\ queue' = SubSeq(queue, 1, n - 1)
  ELSE queue' = queue

RemovedFromQueue(j) ==
  IF \E n \in 1 .. Len(queue) : queue[n] = j
  THEN \E n \in 1 .. Len(queue) :
         /\ queue[n] = j
         /\ \A m \in 1 .. n - 1 : queue[m] # j
         /\ queue' = [m \in 1 .. Len(queue) - 1 |->
                        IF m < n THEN queue[m] ELSE queue[m + 1]]
  ELSE queue' = queue

cancel_queued(j) ==
  /\ status[j] = "Queued"
  /\ RemovedFromQueue(j)
  /\ status' = [status EXCEPT ![j] = "Cancelled"]
  /\ UNCHANGED <<nextSuffix, permits, wakeup, dispatcher, held, tasks,
                 entered, token>>

(* The worker keeps its slot until it notices the signal.                    *)
cancel_running_WhileItHasAToken(j) ==
  /\ token[j] # "none"
  /\ token' = [token EXCEPT ![j] = "set"]
  /\ status' = [status EXCEPT ![j] = "Cancelled"]
  /\ UNCHANGED <<nextSuffix, queue, permits, wakeup, dispatcher, held, tasks,
                 entered>>

cancel_running(j) ==
  /\ status[j] = "Running"
  /\ token' = [token EXCEPT ![j] = IF @ = "none" THEN @ ELSE "set"]
  /\ status' = [status EXCEPT ![j] = "Cancelled"]
  /\ UNCHANGED <<nextSuffix, queue, permits, wakeup, dispatcher, held, tasks,
                 entered>>

cancel(j) == cancel_queued(j) \/ cancel_running(j)

-----------------------------------------------------------------------------
(* The worker task of a Job (_run_worker around self._worker).               *)

(* The finally block: forget the worker, free the slot, wake the dispatcher. *)
ReleaseSlot_NotFreed(j) ==
  /\ token' = [token EXCEPT ![j] = "none"]
  /\ tasks' = tasks \ {j}
  /\ entered' = entered \ {j}
  /\ permits' = permits
  /\ wakeup' = TRUE

ReleaseSlot(j) ==
  /\ token' = [token EXCEPT ![j] = "none"]
  /\ tasks' = tasks \ {j}
  /\ entered' = entered \ {j}
  /\ permits' = permits + 1
  /\ wakeup' = TRUE

(* The first step of the worker sets Running, whatever the status has become *)
(* since the task was created.                                               *)
WorkerEnters(j) ==
  /\ j \in tasks \ entered
  /\ entered' = entered \union {j}
  /\ status' = [status EXCEPT ![j] = "Running"]
  /\ UNCHANGED <<nextSuffix, queue, permits, wakeup, dispatcher, held, tasks,
                 token>>

(* The worker records its outcome and suspends while the event is delivered. *)
(* It may do so over a Cancelled status it has not noticed.                  *)
WorkerReports(j, outcome) ==
  /\ j \in entered
  /\ status[j] \in {"Running", "Cancelled"}
  /\ status' = [status EXCEPT ![j] = outcome]
  /\ UNCHANGED <<nextSuffix, queue, permits, wakeup, dispatcher, held, tasks,
                 entered, token>>

WorkerReturns(j) ==
  /\ j \in entered
  /\ status[j] \in Finished
  /\ ReleaseSlot(j)
  /\ UNCHANGED <<nextSuffix, status, queue, dispatcher, held>>

(* The worker notices the signal: a Cancelled event has no message to        *)
(* deliver, so it returns in the same step.                                  *)
WorkerStops(j) ==
  /\ j \in entered
  /\ token[j] = "set"
  /\ status' = [status EXCEPT ![j] = "Cancelled"]
  /\ ReleaseSlot(j)
  /\ UNCHANGED <<nextSuffix, queue, dispatcher, held>>

(* The worker raises something _run_worker does not expect.                  *)
WorkerRaises(j) ==
  /\ j \in entered
  /\ status' = [status EXCEPT ![j] = IF @ \in Terminal THEN @ ELSE "Failed"]
  /\ ReleaseSlot(j)
  /\ UNCHANGED <<nextSuffix, queue, dispatcher, held>>

(* The event loop is torn down after stop and cancels the worker tasks.  A   *)
(* task that never ran is dropped before it enters _run_worker's try block,  *)
(* so nothing is released for it.                                            *)
WorkerTornDown(j) ==
  /\ dispatcher = "stopped"
  /\ j \in entered
  /\ status' = [status EXCEPT ![j] = IF @ \in Terminal THEN @ ELSE "Cancelled"]
  /\ ReleaseSlot(j)
  /\ UNCHANGED <<nextSuffix, queue, dispatcher, held>>

WorkerStep(j) ==
  \/ WorkerEnters(j)
  \/ \E outcome \in Finished : WorkerReports(j, outcome)
  \/ WorkerReturns(j)
  \/ WorkerStops(j)
  \/ WorkerRaises(j)

-----------------------------------------------------------------------------
DispatcherStep ==
  DispatchNow \/ DispatchMustWait \/ SlotAcquired \/ DispatcherSleeps
    \/ DispatcherWakes

Next ==
  \/ start
  \/ stop
  \/ create_job
  \/ DispatcherStep
  \/ \E j \in Job :
       create_revision(j) \/ cancel(j) \/ WorkerStep(j) \/ WorkerTornDown(j)

(* The event loop runs every ready coroutine in turn.  Of its worker the     *)
(* manager assumes that it returns: CodingAgent.tla says when that is so.     *)
(* Nothing is asked of the users, nor of anything once the system is shutting *)
(* down.                                                                     *)
Fairness ==
  /\ WF_vars(start)
  /\ WF_vars(DispatcherStep)
  /\ \A j \in Job : WF_vars(dispatcher # "stopped" /\ WorkerStep(j))

Spec == Init /\ [][Next]_vars
FairSpec == Spec /\ Fairness
-----------------------------------------------------------------------------
(* Properties.                                                               *)

(* Every permit is either free or held by exactly one worker task, and a     *)
(* Running Job has one: never more than ConcurrencyLimit Jobs run, and the   *)
(* skip of a cancelled Job, a worker error and a cancellation each give back *)
(* exactly the slot they hold (semaphore vs. _worker_tasks).                 *)
SlotAccounting ==
  /\ permits + Cardinality(tasks) = ConcurrencyLimit
  /\ \A j \in Job : status[j] = "Running" => j \in tasks

(* No Job is lost or duplicated between /build and its dispatch: a Queued    *)
(* Job is in the queue or in the dispatcher's hands, never both, and in the  *)
(* queue once (deque vs. job.status vs. the local of _dispatch_loop).        *)
QueuedIsPending ==
  dispatcher # "stopped" =>
    \A j \in Job : status[j] = "Queued" =>
      /\ (held = j) # (\E n \in 1 .. Len(queue) : queue[n] = j)
      /\ \A m, n \in 1 .. Len(queue) : queue[m] = j /\ queue[n] = j => m = n

(* The dispatcher never waits for an event that was already consumed while a *)
(* Queued Job sits in the queue (clear-then-recheck of _take_next_queued).   *)
NoMissedWakeup ==
  dispatcher = "idle" /\ (\E n \in 1 .. Len(queue) : status[queue[n]] = "Queued")
    => wakeup

(* A Job is promoted only when no Job submitted before it is still Queued,   *)
(* also across a Job the dispatcher holds and Jobs cancelled in the middle   *)
(* of the queue.                                                             *)
FifoPromotion ==
  [][\A j \in Job : status[j] = "Queued" /\ status'[j] = "Running" =>
       \A i \in 1 .. j - 1 : status[i] # "Queued"]_vars

(* A Job cancelled before it got a worker never gets one, even when the      *)
(* dispatcher had already popped it and was waiting for its slot.            *)
CancelledWhileQueuedNeverRuns ==
  [][\A j \in Job : status[j] = "Cancelled" /\ j \notin tasks =>
       status'[j] = "Cancelled" /\ j \notin tasks']_vars

(* No Queued Job waits forever: slots come back and the dispatcher is woken. *)
QueuedJobIsServed ==
  \A j \in Job :
    status[j] = "Queued" ~> (status[j] # "Queued" \/ dispatcher = "stopped")
-----------------------------------------------------------------------------
(* The invariant the proofs of JobManagerProofs.tla are by induction on: what *)
(* the queue, the held Job, the suffixes and the worker tasks are to each     *)
(* other.  None of the properties above is inductive without it.              *)

QueueInv ==
  /\ \A n \in 1 .. Len(queue) : status[queue[n]] = "Queued"
  /\ \A m, n \in 1 .. Len(queue) : m < n => queue[m] < queue[n]

HeldInv ==
  /\ dispatcher = "acquiring" <=> held # NoJob
  /\ held # NoJob =>
       /\ status[held] \in {"Queued", "Cancelled"}
       /\ held \notin tasks
       /\ \A n \in 1 .. Len(queue) : held < queue[n]

MintedInv == \A j \in Job : status[j] = "Absent" <=> j >= nextSuffix

TasksInv == \A j \in tasks : status[j] \notin {"Absent", "Queued"}

PendingInv ==
  dispatcher # "stopped" =>
    \A j \in Job : status[j] = "Queued" =>
      held = j \/ \E n \in 1 .. Len(queue) : queue[n] = j

(* The state of the manager between two steps: the queue holds exactly the    *)
(* Queued Jobs the dispatcher has not taken, in the order of their suffixes.  *)
IInv ==
  /\ TypeOK
  /\ SlotAccounting
  /\ QueueInv
  /\ HeldInv
  /\ MintedInv
  /\ TasksInv
  /\ PendingInv
  /\ NoMissedWakeup
=============================================================================
