----------------------------- MODULE CodingAgent -----------------------------
(***************************************************************************)
(* The worker the application installs in the Job_Manager:                  *)
(* CodingAgent.run (discord_ollama_agent/coding_agent.py), one per Running   *)
(* Job, composed with the manager of JobManager.tla and with the command     *)
(* handlers that create, revise and cancel Jobs.                             *)
(*                                                                         *)
(* The coroutine is cut where it suspends: delivering the started message,   *)
(* syncing, generating, building, pushing, delivering the outcome.  Between  *)
(* two suspensions it runs alone, so its checks of the cancellation signal   *)
(* are as of the moment it resumes.  The push itself runs in a thread that   *)
(* neither /cancel nor the timeout of the waiting coroutine stops.           *)
(***************************************************************************)
EXTENDS JobManager

CONSTANT MaxBuildAttempts  \* config.max_build_attempts

ASSUME MaxBuildAttemptsAssumption == MaxBuildAttempts \in Nat \ {0}

Waiting == {"announcing", "syncing", "generating", "building", "hung", "pushing", "reporting"}

(* failure_reason, as far as the properties tell reasons apart: "exhausted"  *)
(* is invalid-output and max-attempts-exhausted, "failed" is a target that     *)
(* does not resolve, sync-failure, sandbox-init-failure, ollama-error, timeout, empty-generation,             *)
(* write-failure, missing-credentials and push-error.                         *)
Reason == {"none", "failed", "exhausted", "internal-error"}

VARIABLES
  pc,        \* what the worker coroutine of the Job is suspended in
  builds,    \* whether the Job's target has a Build_Command
  attempts,  \* job.attempts_completed
  reason,    \* job.failure_reason
  base,      \* job.base_job_id, NoJob for a /build
  branch,    \* job.branch_name: the Job whose id the branch is named after
  thread,    \* the thread of the Job's push, and what it did
  pushed,    \* the Jobs whose commit is on the remote
  events,    \* the JobEvents emitted for the Job
  acked      \* the Jobs for which /cancel answered "Cancelled job"

agentVars ==
  <<pc, builds, attempts, reason, base, branch, thread, pushed, events, acked>>
allVars == <<vars, agentVars>>

JobEvent == [status : Status, branch : Job \union {NoJob}]

AgentTypeOK ==
  /\ TypeOK
  /\ pc \in [Job -> Waiting \union {"none"}]
  /\ builds \in [Job -> BOOLEAN]
  /\ attempts \in [Job -> 0 .. MaxBuildAttempts]
  /\ reason \in [Job -> Reason]
  /\ base \in [Job -> Job \union {NoJob}]
  /\ branch \in [Job -> Job \union {NoJob}]
  /\ thread \in [Job -> {"none", "running", "pushed", "unchanged", "refused", "broken"}]
  /\ pushed \subseteq Job
  /\ events \in [Job -> Seq(JobEvent)]
  /\ acked \subseteq Job

AgentInit ==
  /\ Init
  /\ pc = [j \in Job |-> "none"]
  /\ builds = [j \in Job |-> FALSE]
  /\ attempts = [j \in Job |-> 0]
  /\ reason = [j \in Job |-> "none"]
  /\ base = [j \in Job |-> NoJob]
  /\ branch = [j \in Job |-> NoJob]
  /\ thread = [j \in Job |-> "none"]
  /\ pushed = {}
  /\ events = [j \in Job |-> << >>]
  /\ acked = {}

-----------------------------------------------------------------------------
(* The commands (discord_bot.py), after the gate let them through.           *)

on_build ==
  /\ create_job
  /\ \E b \in BOOLEAN : builds' = [builds EXCEPT ![nextSuffix] = b]
  /\ UNCHANGED <<pc, attempts, reason, base, branch, thread, pushed, events, acked>>

(* The base must have succeeded and still know its branch.                   *)
Revisable(b) == status[b] = "Succeeded" /\ branch[b] # NoJob

on_revise(b) ==
  /\ Revisable(b)
  /\ create_revision(b)
  /\ builds' = [builds EXCEPT ![nextSuffix] = builds[b]]
  /\ base' = [base EXCEPT ![nextSuffix] = b]
  /\ branch' = [branch EXCEPT ![nextSuffix] = branch[b]]
  /\ UNCHANGED <<pc, attempts, reason, thread, pushed, events, acked>>

(* A snapshot of the Job, handed to the event sink.                          *)
_emit(j, s, b) ==
  events' = [events EXCEPT ![j] = Append(@, [status |-> s, branch |-> b])]

(* Cancelling a Queued Job emits its event here; the worker of a Running one *)
(* does when it unwinds.                                                     *)
on_cancel(j) ==
  /\ \/ cancel_queued(j) /\ _emit(j, "Cancelled", branch[j])
     \/ cancel_running(j) /\ UNCHANGED events
  /\ acked' = acked \union {j}
  /\ UNCHANGED <<pc, builds, attempts, reason, base, branch, thread, pushed>>

-----------------------------------------------------------------------------
(* What the segments of run are made of.                                     *)

Goto(j, place) == pc' = [pc EXCEPT ![j] = place]

KeepsSlot == UNCHANGED <<permits, wakeup, tasks, entered, token>>
NotTheManager == UNCHANGED <<nextSuffix, queue, dispatcher, held>>
NotTheUsers == UNCHANGED <<builds, base, acked>>

_is_cancelled_ByStatusOnly(j) == status[j] = "Cancelled"
_is_cancelled(j) == token[j] = "set" \/ status[j] = "Cancelled"

(* Record Cancelled and return; the slot is freed in the same step.          *)
_finish_cancelled_SlotKept(j) ==
  /\ status' = [status EXCEPT ![j] = "Cancelled"]
  /\ _emit(j, "Cancelled", branch[j])
  /\ KeepsSlot
  /\ Goto(j, "none")
  /\ UNCHANGED reason

_finish_cancelled(j) ==
  /\ status' = [status EXCEPT ![j] = "Cancelled"]
  /\ _emit(j, "Cancelled", branch[j])
  /\ ReleaseSlot(j)
  /\ Goto(j, "none")
  /\ UNCHANGED reason

(* Record the failure, whatever the status was, and deliver the message.     *)
_fail_WithoutEvent(j, r) ==
  /\ status' = [status EXCEPT ![j] = "Failed"]
  /\ reason' = [reason EXCEPT ![j] = r]
  /\ UNCHANGED events
  /\ Goto(j, "reporting")
  /\ KeepsSlot

_fail_SlotFreedFirst(j, r) ==
  /\ status' = [status EXCEPT ![j] = "Failed"]
  /\ reason' = [reason EXCEPT ![j] = r]
  /\ _emit(j, "Failed", branch[j])
  /\ Goto(j, "reporting")
  /\ ReleaseSlot(j)

_fail(j, r) ==
  /\ status' = [status EXCEPT ![j] = "Failed"]
  /\ reason' = [reason EXCEPT ![j] = r]
  /\ _emit(j, "Failed", branch[j])
  /\ Goto(j, "reporting")
  /\ KeepsSlot

(* Record the success with the branch the Job has from now on.               *)
_succeed(j, b) ==
  /\ status' = [status EXCEPT ![j] = "Succeeded"]
  /\ branch' = [branch EXCEPT ![j] = b]
  /\ _emit(j, "Succeeded", b)
  /\ Goto(j, "reporting")
  /\ KeepsSlot
  /\ UNCHANGED reason

Advance(j, place) ==
  /\ Goto(j, place)
  /\ KeepsSlot
  /\ UNCHANGED <<status, reason, events>>

UnlessCancelled(j, place) ==
  IF _is_cancelled(j) THEN _finish_cancelled(j) ELSE Advance(j, place)

-----------------------------------------------------------------------------
(* The segments.                                                             *)

(* First step of the task: Running, and the started message on its way.      *)
RunStarts(j) ==
  /\ WorkerEnters(j)
  /\ Goto(j, "announcing")
  /\ _emit(j, "Running", branch[j])
  /\ UNCHANGED <<builds, attempts, reason, base, branch, thread, pushed, acked>>

Announced(j) ==
  /\ pc[j] = "announcing"
  /\ \/ UnlessCancelled(j, "syncing")
     \/ ~_is_cancelled(j) /\ _fail(j, "failed")  \* the target does not resolve
  /\ NotTheManager /\ NotTheUsers
  /\ UNCHANGED <<attempts, branch, thread, pushed>>

(* A failed sync is reported even if the Job was cancelled meanwhile.        *)
Synced(j) ==
  /\ pc[j] = "syncing"
  /\ \/ _fail(j, "failed")
     \/ UnlessCancelled(j, "generating")
  /\ NotTheManager /\ NotTheUsers
  /\ UNCHANGED <<attempts, branch, thread, pushed>>

(* Ollama error or generation timeout: terminal, no attempt is counted.      *)
GenerationFails(j) ==
  /\ pc[j] = "generating"
  /\ _fail(j, "failed")
  /\ NotTheManager /\ NotTheUsers
  /\ UNCHANGED <<attempts, branch, thread, pushed>>

IsFinal_OneEarly(n) == n + 1 >= MaxBuildAttempts
IsFinal_Never(n) == FALSE
IsFinal(n) == n >= MaxBuildAttempts

(* A completion that is not valid JSON of the expected shape costs an attempt *)
(* and is fed back while attempts remain.                                    *)
GeneratedMalformed(j) ==
  /\ pc[j] = "generating"
  /\ attempts' = [attempts EXCEPT ![j] = @ + 1]
  /\ IF IsFinal(attempts[j] + 1)
     THEN _fail(j, "exhausted")
     ELSE UnlessCancelled(j, "generating")
  /\ NotTheManager /\ NotTheUsers
  /\ UNCHANGED <<branch, thread, pushed>>

(* The commit and push starts in a thread once no signal is seen.            *)
PushUnlessCancelled(j) ==
  /\ UnlessCancelled(j, "pushing")
  /\ thread' = IF _is_cancelled(j) THEN thread ELSE [thread EXCEPT ![j] = "running"]

(* A completion of the right shape: no files is a failure, else they are      *)
(* written, and built if the target has a Build_Command.                      *)
Generated(j) ==
  /\ pc[j] = "generating"
  /\ attempts' = [attempts EXCEPT ![j] = @ + 1]
  /\ \/ _fail(j, "failed") /\ UNCHANGED thread       \* empty-generation, write-failure
     \/ builds[j] /\ UnlessCancelled(j, "building") /\ UNCHANGED thread
     \/ ~builds[j] /\ PushUnlessCancelled(j)
  /\ NotTheManager /\ NotTheUsers
  /\ UNCHANGED <<branch, pushed>>

BuildCancelled(j) ==
  /\ pc[j] = "building"
  /\ _is_cancelled(j)
  /\ _finish_cancelled(j)
  /\ NotTheManager /\ NotTheUsers
  /\ UNCHANGED <<attempts, branch, thread, pushed>>

BuildTimesOut(j) ==
  /\ pc[j] = "building"
  /\ ~_is_cancelled(j)
  /\ _fail(j, "failed")
  /\ NotTheManager /\ NotTheUsers
  /\ UNCHANGED <<attempts, branch, thread, pushed>>

BuildSucceeds(j) ==
  /\ pc[j] = "building"
  /\ ~_is_cancelled(j)
  /\ PushUnlessCancelled(j)
  /\ NotTheManager /\ NotTheUsers
  /\ UNCHANGED <<attempts, branch, pushed>>

BuildFails(j) ==
  /\ pc[j] = "building"
  /\ ~_is_cancelled(j)
  /\ IF IsFinal(attempts[j]) THEN _fail(j, "exhausted") ELSE Advance(j, "generating")
  /\ NotTheManager /\ NotTheUsers
  /\ UNCHANGED <<attempts, branch, thread, pushed>>

(* run_command never returns: a process the Build_Command left behind holds   *)
(* its output open for ever (ExecutionSandbox.tla).                           *)
BuildHangs(j) ==
  /\ pc[j] = "building"
  /\ Goto(j, "hung")
  /\ UNCHANGED <<vars, builds, attempts, reason, base, branch, thread, pushed, events, acked>>

(* The thread of _commit_and_push_blocking: pushed; nothing to commit;        *)
(* refused for want of credentials or by git; or an error nobody expects.     *)
PushThread(j) ==
  /\ thread[j] = "running"
  /\ \E r \in {"pushed", "unchanged", "refused", "broken"} :
       /\ thread' = [thread EXCEPT ![j] = r]
       /\ pushed' = IF r = "pushed" THEN pushed \union {j} ELSE pushed
  /\ UNCHANGED <<vars, pc, builds, attempts, reason, base, branch, events, acked>>

(* branch_name_for a new Job; a revision continues the branch it was given.  *)
BranchOf(j) == IF base[j] = NoJob THEN j ELSE branch[j]

PushResult_NoChangesAsPushed(j) ==
  \/ thread[j] \in {"pushed", "unchanged"} /\ _succeed(j, BranchOf(j))
  \/ thread[j] = "refused" /\ _fail(j, "failed") /\ UNCHANGED branch

PushResult(j) ==
  \/ thread[j] = "pushed" /\ _succeed(j, BranchOf(j))
  \/ thread[j] = "unchanged" /\ _succeed(j, branch[j])
  \/ thread[j] = "refused" /\ _fail(j, "failed") /\ UNCHANGED branch

PushEnds(j) ==
  /\ pc[j] = "pushing"
  /\ PushResult(j)
  /\ NotTheManager /\ NotTheUsers
  /\ UNCHANGED <<attempts, thread, pushed>>

(* The backstop of _run_with_timeout gives up on the thread, not the thread. *)
PushTimesOut(j) ==
  /\ pc[j] = "pushing"
  /\ thread[j] = "running"
  /\ _fail(j, "failed")
  /\ NotTheManager /\ NotTheUsers
  /\ UNCHANGED <<attempts, branch, thread, pushed>>

(* The outcome was delivered, or given up on: the worker returns.            *)
Reported(j) ==
  /\ pc[j] = "reporting"
  /\ WorkerReturns(j)
  /\ Goto(j, "none")
  /\ UNCHANGED <<builds, attempts, reason, base, branch, thread, pushed, events, acked>>

(* An exception run does not expect: reading the credentials, starting the   *)
(* build, writing a file or opening the repository.  Only the status and the  *)
(* reason are set; no event is emitted.                                      *)
RunRaises(j) ==
  /\ \/ pc[j] \in {"syncing", "generating", "building"}
     \/ pc[j] = "pushing" /\ thread[j] = "broken"
  /\ WorkerRaises(j)
  /\ reason' = IF status[j] \in Terminal THEN reason
               ELSE [reason EXCEPT ![j] = "internal-error"]
  /\ \/ UNCHANGED attempts
     \/ pc[j] = "generating" /\ attempts' = [attempts EXCEPT ![j] = @ + 1]
  /\ Goto(j, "none")
  /\ UNCHANGED <<builds, base, branch, thread, pushed, events, acked>>

TornDown(j) ==
  /\ WorkerTornDown(j)
  /\ Goto(j, "none")
  /\ UNCHANGED <<builds, attempts, reason, base, branch, thread, pushed, events, acked>>

AgentStep(j) ==
  \/ RunStarts(j) \/ Announced(j) \/ Synced(j)
  \/ GenerationFails(j) \/ GeneratedMalformed(j) \/ Generated(j)
  \/ BuildCancelled(j) \/ BuildTimesOut(j) \/ BuildSucceeds(j) \/ BuildFails(j)
  \/ PushEnds(j) \/ PushTimesOut(j) \/ Reported(j) \/ RunRaises(j)

-----------------------------------------------------------------------------
AgentNext ==
  \/ (start \/ stop \/ DispatcherStep) /\ UNCHANGED agentVars
  \/ on_build
  \/ \E j \in Job :
       on_revise(j) \/ on_cancel(j) \/ AgentStep(j) \/ BuildHangs(j)
         \/ PushThread(j) \/ TornDown(j)

(* The event loop runs every ready coroutine.  Every wait of the agent but a  *)
(* hung build is bounded by a timeout, so the thread of a push needs no       *)
(* fairness of its own.                                                      *)
AgentFairness ==
  /\ WF_allVars(start /\ UNCHANGED agentVars)
  /\ WF_allVars(DispatcherStep /\ UNCHANGED agentVars)
  /\ \A j \in Job : WF_allVars(dispatcher # "stopped" /\ AgentStep(j))

AgentSpec == AgentInit /\ [][AgentNext]_allVars
AgentFairSpec == AgentSpec /\ AgentFairness

-----------------------------------------------------------------------------
(* Properties.                                                               *)

(* The agent keeps every promise the manager was verified against: it changes *)
(* the status only as a worker may, holds its slot until it has reported, and *)
(* goes on to return unless its build hangs.  So what is shown of JobManager   *)
(* holds of the two together, as long as no build hangs.                      *)
ImplementsJobManager ==
  /\ Spec
  /\ WF_vars(start)
  /\ WF_vars(DispatcherStep)
  /\ \A j \in Job :
       <>(pc[j] = "hung") \/ WF_vars(dispatcher # "stopped" /\ WorkerStep(j))

StartsWork(j) ==
  /\ pc'[j] \in {"syncing", "generating", "building", "pushing"}
  /\ pc'[j] # pc[j] \/ attempts'[j] # attempts[j]

(* What /cancel does promise: once it answered "Cancelled job" the agent starts  *)
(* nothing new for the Job, no sync, no generation, no build, no push, wherever  *)
(* the signal reached it, also when its status no longer says Cancelled; and a   *)
(* push that had not begun never does.                                       *)
NoWorkAfterCancel ==
  [][\A j \in acked :
       ~StartsWork(j) /\ (thread[j] = "none" => thread'[j] = "none")]_allVars

(* A Job with a branch, and so any Job /revise accepts, has a branch that     *)
(* really is on the remote, put there by it or by a Job it descends from.     *)
BranchIsOnRemote ==
  \A j \in Job : branch[j] # NoJob => branch[j] \in {BranchOf(i) : i \in pushed}

(* A recoverable failure is final only when every attempt was used.           *)
RetriesUsedUp ==
  \A j \in Job : reason[j] = "exhausted" => attempts[j] = MaxBuildAttempts

(* What the agent records it reports (_fail, _succeed vs. _finish_cancelled and   *)
(* every overwritten status): when the worker of a Job is gone, the one outcome   *)
(* reported is the one /status gives, and none was reported of a Job that ended    *)
(* Cancelled.  Nothing is claimed of internal-error, which the manager records     *)
(* without a report, nor of the teardown of the process.                        *)
OutcomesReported(j) ==
  {n \in 1 .. Len(events[j]) : events[j][n].status \in Finished}

EventsTellTheOutcome ==
  \A j \in Job :
    /\ status[j] \in Terminal /\ reason[j] # "internal-error"
    /\ j \notin tasks /\ dispatcher # "stopped"
    => IF status[j] = "Cancelled" THEN OutcomesReported(j) = {}
       ELSE \E n \in 1 .. Len(events[j]) :
              OutcomesReported(j) = {n} /\ events[j][n].status = status[j]

(* Succeeded and Failed are final, and Cancelled is left only by the Job's own  *)
(* worker before it has given its slot back: once the worker is gone, what     *)
(* /status answers never changes again.                                       *)
TerminalLeftOnlyByItsWorker ==
  [][\A j \in Job : status[j] \in Terminal /\ status'[j] # status[j] =>
       status[j] = "Cancelled" /\ j \in tasks]_allVars

(* What the commands see of the Jobs is JobTable.tla: however a worker fails, is   *)
(* cancelled, times out or is torn down, an outcome it reported is never taken     *)
(* back, only success brings a branch, and what a revision continues has one.     *)
HasItsSay(j) == j \in tasks /\ status[j] \notin Finished

TableOfJobs ==
  [j \in Job |-> [status |-> status[j], branch |-> branch[j] # NoJob, base |-> base[j],
                 works |-> HasItsSay(j)]]

Table == INSTANCE JobTable WITH table <- TableOfJobs

ImplementsJobTable == Table!TableSpec

(* A slot whose Job was told to stop comes back, unless its build hangs.      *)
SignalledSlotIsFreed ==
  \A j \in Job :
    token[j] = "set" ~> (token[j] = "none" \/ pc[j] = "hung" \/ dispatcher = "stopped")

(* The induction behind these: a suspended worker has its slot and its token;  *)
(* a Job that was cancelled under it has the token set;                       *)
WorkerInv ==
  \A j \in Job :
    /\ pc[j] # "none" => j \in entered
    /\ pc[j] \in Waiting \ {"reporting"} => status[j] \in {"Running", "Cancelled"}
    /\ j \in tasks => token[j] # "none"
    /\ j \in tasks /\ status[j] = "Cancelled" => token[j] = "set"

(* a worker that may still generate has an attempt left, and nothing is        *)
(* counted or failed before it starts;                                        *)
AttemptsInv ==
  \A j \in Job :
    /\ pc[j] \in {"announcing", "syncing", "generating"} => attempts[j] < MaxBuildAttempts
    /\ reason[j] # "none" => pc[j] \in {"reporting", "none"}
    /\ status[j] \in {"Absent", "Queued"} \/ j \in tasks \ entered =>
         attempts[j] = 0 /\ reason[j] = "none"

(* and only a Job that exists pushes.                                         *)
PushInv ==
  \A j \in Job :
    /\ thread[j] = "pushed" => j \in pushed
    /\ thread[j] # "none" \/ j \in pushed => status[j] # "Absent"

AInv ==
  /\ IInv
  /\ AgentTypeOK
  /\ WorkerInv
  /\ AttemptsInv
  /\ PushInv
  /\ RetriesUsedUp
  /\ BranchIsOnRemote

-----------------------------------------------------------------------------
(* What the documentation says and the code does not do.                     *)

(* models/job.py: "A Job only ever leaves a terminal state via /revise, which *)
(* creates a new Job rather than mutating the existing one."                  *)
TerminalIsFinal ==
  [][\A j \in Job : status[j] \in Terminal => status'[j] = status[j]]_allVars

(* JobManager.cancel: a Running Job's worker "observes the signal and stops    *)
(* without committing or pushing".                                            *)
NothingPushedAfterCancel ==
  [][\A j \in acked : j \in pushed' => j \in pushed]_allVars
=============================================================================
