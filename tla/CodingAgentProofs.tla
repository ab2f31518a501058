-------------------------- MODULE CodingAgentProofs --------------------------
(***************************************************************************)
(* Every step of the agent is a step the manager lets its worker take, for   *)
(* every number of slots, Jobs and attempts: what is proved of JobManager     *)
(* holds of the two together.                                                *)
(***************************************************************************)
EXTENDS CodingAgent, JobManagerProofs

-----------------------------------------------------------------------------
(* What a segment of run does to the manager: nothing, a report, a stop.      *)

(* _fail is a report of a failure.                                           *)
LEMMA FailIsReport ==
  ASSUME AInv, NEW j \in Job, NEW r, _fail(j, r), NotTheManager,
         j \in entered, status[j] \in {"Running", "Cancelled"}
  PROVE  WorkerReports(j, "Failed")
BY DEF _fail, NotTheManager, KeepsSlot, WorkerReports

(* _succeed is a report of a success.                                        *)
LEMMA SucceedIsReport ==
  ASSUME AInv, NEW j \in Job, NEW b, _succeed(j, b), NotTheManager,
         j \in entered, status[j] \in {"Running", "Cancelled"}
  PROVE  WorkerReports(j, "Succeeded")
BY DEF _succeed, NotTheManager, KeepsSlot, WorkerReports

(* _finish_cancelled is what a worker does that noticed its signal.           *)
LEMMA FinishIsStop ==
  ASSUME AInv, NEW j \in Job, _finish_cancelled(j), _is_cancelled(j), NotTheManager,
         j \in entered
  PROVE  WorkerStops(j)
<1>1. token[j] = "set"
  BY DEF AInv, WorkerInv, AgentTypeOK, TypeOK, _is_cancelled
<1> QED
  BY <1>1 DEF _finish_cancelled, NotTheManager, WorkerStops

(* Going on is none of the manager's business.                               *)
LEMMA AdvanceIsStutter ==
  ASSUME NEW j \in Job, NEW place, Advance(j, place), NotTheManager
  PROVE  UNCHANGED vars
BY DEF Advance, KeepsSlot, NotTheManager, vars

LEMMA UnlessCancelledSimulates ==
  ASSUME AInv, NEW j \in Job, NEW place, UnlessCancelled(j, place), NotTheManager,
         j \in entered
  PROVE  WorkerStep(j) \/ UNCHANGED vars
<1>1. CASE _is_cancelled(j)
  BY <1>1, FinishIsStop DEF UnlessCancelled, WorkerStep
<1>2. CASE ~ _is_cancelled(j)
  BY <1>2, AdvanceIsStutter DEF UnlessCancelled
<1> QED
  BY <1>1, <1>2

(* Every segment of run.                                                     *)
LEMMA AgentStepSimulates ==
  ASSUME AInv, NEW j \in Job, AgentStep(j)
  PROVE  WorkerStep(j) \/ UNCHANGED vars
<1> USE DEF AInv, WorkerInv, Waiting
<1>1. ASSUME NEW r, _fail(j, r), NotTheManager, pc[j] \in Waiting \ {"reporting"}
      PROVE  WorkerStep(j)
  BY <1>1, FailIsReport DEF WorkerStep, Finished
<1>2. CASE RunStarts(j) \/ Reported(j) \/ RunRaises(j)
  BY <1>2 DEF RunStarts, Reported, RunRaises, WorkerStep
<1>3. CASE Announced(j)
  BY <1>3, <1>1, UnlessCancelledSimulates DEF Announced
<1>4. CASE Synced(j)
  BY <1>4, <1>1, UnlessCancelledSimulates DEF Synced
<1>5. CASE GenerationFails(j) \/ BuildTimesOut(j) \/ PushTimesOut(j)
  BY <1>5, <1>1 DEF GenerationFails, BuildTimesOut, PushTimesOut
<1>6. CASE GeneratedMalformed(j)
  BY <1>6, <1>1, UnlessCancelledSimulates DEF GeneratedMalformed
<1>7. CASE Generated(j)
  BY <1>7, <1>1, UnlessCancelledSimulates DEF Generated, PushUnlessCancelled
<1>8. CASE BuildCancelled(j)
  BY <1>8, FinishIsStop DEF BuildCancelled, WorkerStep
<1>9. CASE BuildSucceeds(j)
  BY <1>9, UnlessCancelledSimulates DEF BuildSucceeds, PushUnlessCancelled
<1>10. CASE BuildFails(j)
  BY <1>10, <1>1, AdvanceIsStutter DEF BuildFails
<1>11. CASE PushEnds(j)
  BY <1>11, <1>1, SucceedIsReport DEF PushEnds, PushResult, WorkerStep, Finished
<1> QED
  BY <1>2, <1>3, <1>4, <1>5, <1>6, <1>7, <1>8, <1>9, <1>10, <1>11 DEF AgentStep

LEMMA AgentSimulatesManager ==
  ASSUME AInv, [AgentNext]_allVars
  PROVE  [Next]_vars
<1>1. CASE UNCHANGED allVars
  BY <1>1 DEF allVars
<1>2. CASE (start \/ stop \/ DispatcherStep) /\ UNCHANGED agentVars
  BY <1>2 DEF Next
<1>3. CASE on_build
  BY <1>3 DEF on_build, Next
<1>4. CASE \E j \in Job : on_revise(j) \/ on_cancel(j)
  BY <1>4 DEF on_revise, on_cancel, cancel, Next
<1>5. CASE \E j \in Job : AgentStep(j)
  BY <1>5, AgentStepSimulates DEF Next
<1>6. CASE \E j \in Job : BuildHangs(j) \/ PushThread(j)
  BY <1>6 DEF BuildHangs, PushThread
<1>7. CASE \E j \in Job : TornDown(j)
  BY <1>7 DEF TornDown, Next
<1> QED
  BY <1>1, <1>2, <1>3, <1>4, <1>5, <1>6, <1>7 DEF AgentNext

-----------------------------------------------------------------------------
(* Types.                                                                    *)

(* An event is appended to those of its Job.                                  *)
LEMMA EmitIsTyped ==
  ASSUME AgentTypeOK, NEW j \in Job, NEW s \in Status, NEW b \in Job \union {NoJob},
         _emit(j, s, b)
  PROVE  events' \in [Job -> Seq(JobEvent)]
<1>1. [status |-> s, branch |-> b] \in JobEvent
  BY DEF JobEvent
<1>2. events[j] \in Seq(JobEvent)
  BY DEF AgentTypeOK
<1>3. Append(events[j], [status |-> s, branch |-> b]) \in Seq(JobEvent)
  BY <1>1, <1>2, AppendProperties
<1> QED
  BY <1>3 DEF _emit, AgentTypeOK

(* The variables the pieces of a segment change.                              *)
PiecesTyped ==
  /\ pc' \in [Job -> Waiting \union {"none"}]
  /\ reason' \in [Job -> Reason]
  /\ events' \in [Job -> Seq(JobEvent)]

LEMMA FailIsTyped ==
  ASSUME AgentTypeOK, NEW j \in Job, NEW r \in Reason, _fail(j, r)
  PROVE  PiecesTyped
<1>1. events' \in [Job -> Seq(JobEvent)]
  BY EmitIsTyped DEF _fail, AgentTypeOK, Status, Terminal, Finished
<1> QED
  BY <1>1 DEF _fail, Goto, AgentTypeOK, PiecesTyped, Waiting

LEMMA SucceedIsTyped ==
  ASSUME AgentTypeOK, NEW j \in Job, NEW b \in Job \union {NoJob}, _succeed(j, b)
  PROVE  PiecesTyped /\ branch' \in [Job -> Job \union {NoJob}]
<1>1. events' \in [Job -> Seq(JobEvent)]
  BY EmitIsTyped DEF _succeed, Status, Terminal, Finished
<1> QED
  BY <1>1 DEF _succeed, Goto, AgentTypeOK, PiecesTyped, Waiting

LEMMA FinishIsTyped ==
  ASSUME AgentTypeOK, NEW j \in Job, _finish_cancelled(j)
  PROVE  PiecesTyped
<1>1. events' \in [Job -> Seq(JobEvent)]
  BY EmitIsTyped DEF _finish_cancelled, AgentTypeOK, Status, Terminal
<1> QED
  BY <1>1 DEF _finish_cancelled, Goto, AgentTypeOK, PiecesTyped

LEMMA UnlessCancelledIsTyped ==
  ASSUME AgentTypeOK, NEW j \in Job, NEW place \in Waiting, UnlessCancelled(j, place)
  PROVE  PiecesTyped
<1>1. CASE _is_cancelled(j)
  BY <1>1, FinishIsTyped DEF UnlessCancelled
<1>2. CASE ~ _is_cancelled(j)
  BY <1>2 DEF UnlessCancelled, Advance, Goto, AgentTypeOK, PiecesTyped
<1> QED
  BY <1>1, <1>2

LEMMA AgentStepTyped ==
  ASSUME AInv, TypeOK', NEW j \in Job, AgentStep(j)
  PROVE  AgentTypeOK'
<1> USE MaxBuildAttemptsAssumption DEF NotTheUsers
<1>1. /\ AgentTypeOK
      /\ attempts[j] \in 0 .. MaxBuildAttempts
      /\ pc[j] = "generating" => attempts[j] + 1 \in 0 .. MaxBuildAttempts
  BY DEF AInv, AgentTypeOK, AttemptsInv
<1>2. "failed" \in Reason /\ "exhausted" \in Reason /\ "internal-error" \in Reason
  BY DEF Reason
<1>3. \A place \in {"syncing", "generating", "building", "pushing"} : place \in Waiting
  BY DEF Waiting
<1>4. CASE RunStarts(j)
  <2>1. events' \in [Job -> Seq(JobEvent)]
    BY <1>1, <1>4, EmitIsTyped DEF RunStarts, AgentTypeOK, Status
  <2> QED
    BY <1>1, <1>4, <2>1 DEF RunStarts, Goto, AgentTypeOK, Waiting
<1>5. CASE Reported(j)
  BY <1>1, <1>5 DEF Reported, Goto, AgentTypeOK
<1>6. CASE RunRaises(j)
  BY <1>1, <1>2, <1>6 DEF RunRaises, Goto, AgentTypeOK
<1>7. CASE Announced(j) \/ Synced(j)
  <2>1. PiecesTyped
    BY <1>1, <1>2, <1>3, <1>7, FailIsTyped, UnlessCancelledIsTyped DEF Announced, Synced
  <2> QED
    BY <1>1, <1>7, <2>1 DEF Announced, Synced, PiecesTyped, AgentTypeOK
<1>8. CASE GenerationFails(j) \/ BuildTimesOut(j) \/ PushTimesOut(j) \/ BuildCancelled(j)
  <2>1. PiecesTyped
    BY <1>1, <1>2, <1>8, FailIsTyped, FinishIsTyped
       DEF GenerationFails, BuildTimesOut, PushTimesOut, BuildCancelled
  <2> QED
    BY <1>1, <1>8, <2>1
       DEF GenerationFails, BuildTimesOut, PushTimesOut, BuildCancelled, PiecesTyped,
           AgentTypeOK
<1>9. CASE GeneratedMalformed(j)
  <2>1. PiecesTyped
    BY <1>1, <1>2, <1>3, <1>9, FailIsTyped, UnlessCancelledIsTyped DEF GeneratedMalformed
  <2> QED
    BY <1>1, <1>9, <2>1 DEF GeneratedMalformed, PiecesTyped, AgentTypeOK
<1>10. CASE Generated(j)
  <2>1. PiecesTyped
    BY <1>1, <1>2, <1>3, <1>10, FailIsTyped, UnlessCancelledIsTyped
       DEF Generated, PushUnlessCancelled
  <2> QED
    BY <1>1, <1>10, <2>1 DEF Generated, PushUnlessCancelled, PiecesTyped, AgentTypeOK
<1>11. CASE BuildSucceeds(j)
  <2>1. PiecesTyped
    BY <1>1, <1>3, <1>11, UnlessCancelledIsTyped DEF BuildSucceeds, PushUnlessCancelled
  <2> QED
    BY <1>1, <1>11, <2>1 DEF BuildSucceeds, PushUnlessCancelled, PiecesTyped, AgentTypeOK
<1>12. CASE BuildFails(j)
  <2>1. PiecesTyped
    BY <1>1, <1>2, <1>3, <1>12, FailIsTyped
       DEF BuildFails, Advance, Goto, AgentTypeOK, PiecesTyped
  <2> QED
    BY <1>1, <1>12, <2>1 DEF BuildFails, PiecesTyped, AgentTypeOK
<1>13. CASE PushEnds(j)
  <2>1. BranchOf(j) \in Job \union {NoJob} /\ branch[j] \in Job \union {NoJob}
    BY <1>1 DEF BranchOf, AgentTypeOK
  <2>2. PiecesTyped /\ branch' \in [Job -> Job \union {NoJob}]
    BY <1>1, <1>2, <1>13, <2>1, FailIsTyped, SucceedIsTyped
       DEF PushEnds, PushResult, AgentTypeOK
  <2> QED
    BY <1>1, <1>13, <2>2 DEF PushEnds, PiecesTyped, AgentTypeOK
<1> QED
  BY <1>4, <1>5, <1>6, <1>7, <1>8, <1>9, <1>10, <1>11, <1>12, <1>13 DEF AgentStep

LEMMA AgentNextTyped ==
  ASSUME AInv, TypeOK', [AgentNext]_allVars
  PROVE  AgentTypeOK'
<1>1. AgentTypeOK
  BY DEF AInv
<1>2. CASE UNCHANGED agentVars
  BY <1>1, <1>2 DEF agentVars, AgentTypeOK
<1>3. CASE on_build
  BY <1>1, <1>3 DEF on_build, create_job, AgentTypeOK
<1>4. ASSUME NEW j \in Job, on_revise(j)
      PROVE  AgentTypeOK'
  BY <1>1, <1>4 DEF on_revise, create_revision, create_job, AgentTypeOK
<1>5. ASSUME NEW j \in Job, on_cancel(j)
      PROVE  AgentTypeOK'
  <2>1. events' \in [Job -> Seq(JobEvent)]
    BY <1>1, <1>5, EmitIsTyped DEF on_cancel, AgentTypeOK, Status, Terminal
  <2> QED
    BY <1>1, <1>5, <2>1 DEF on_cancel, AgentTypeOK
<1>6. ASSUME NEW j \in Job, BuildHangs(j) \/ PushThread(j) \/ TornDown(j)
      PROVE  AgentTypeOK'
  BY <1>1, <1>6 DEF BuildHangs, PushThread, TornDown, Goto, AgentTypeOK, Waiting
<1> QED
  BY <1>2, <1>3, <1>4, <1>5, <1>6, AgentStepTyped DEF AgentNext, allVars
-----------------------------------------------------------------------------
(* The workers, one segment at a time.                                       *)

(* A segment touches no other Job.                                            *)
Others(j) ==
  \A i \in Job \ {j} :
    /\ status'[i] = status[i] /\ token'[i] = token[i] /\ pc'[i] = pc[i]
    /\ attempts'[i] = attempts[i] /\ reason'[i] = reason[i]
    /\ branch'[i] = branch[i] /\ thread'[i] = thread[i]
    /\ i \in tasks' <=> i \in tasks
    /\ i \in entered' <=> i \in entered

(* How it can leave its own: reporting an outcome, gone, or further on.       *)
Reports(j) ==
  /\ pc'[j] = "reporting" /\ status'[j] \in Finished
  /\ token' = token /\ tasks' = tasks /\ entered' = entered
Leaves(j) ==
  pc'[j] = "none" /\ j \notin tasks' /\ j \notin entered' /\ status'[j] \in Terminal
Continues(j) ==
  /\ pc'[j] \in Waiting \ {"reporting"}
  /\ status' = status /\ token' = token /\ tasks' = tasks /\ entered' = entered
Enters(j) ==
  /\ j \in tasks \ entered /\ pc'[j] = "announcing" /\ status'[j] = "Running"
  /\ token' = token /\ tasks' = tasks /\ entered' = entered \union {j}

LEMMA FailEffect ==
  ASSUME AgentTypeOK, NEW j \in Job, NEW r, _fail(j, r)
  PROVE  /\ Reports(j) /\ reason'[j] = r
         /\ \A i \in Job \ {j} :
              status'[i] = status[i] /\ pc'[i] = pc[i] /\ reason'[i] = reason[i]
BY DEF _fail, Goto, KeepsSlot, Reports, AgentTypeOK, TypeOK, Finished

LEMMA SucceedEffect ==
  ASSUME AgentTypeOK, NEW j \in Job, NEW b, _succeed(j, b)
  PROVE  /\ Reports(j) /\ reason' = reason /\ branch'[j] = b
         /\ \A i \in Job \ {j} :
              status'[i] = status[i] /\ pc'[i] = pc[i] /\ branch'[i] = branch[i]
BY DEF _succeed, Goto, KeepsSlot, Reports, AgentTypeOK, TypeOK, Finished

LEMMA FinishEffect ==
  ASSUME AgentTypeOK, NEW j \in Job, _finish_cancelled(j)
  PROVE  /\ Leaves(j) /\ reason' = reason
         /\ \A i \in Job \ {j} :
              /\ status'[i] = status[i] /\ pc'[i] = pc[i] /\ token'[i] = token[i]
              /\ i \in tasks' <=> i \in tasks
              /\ i \in entered' <=> i \in entered
BY DEF _finish_cancelled, ReleaseSlot, Goto, Leaves, AgentTypeOK, TypeOK, Terminal

LEMMA AdvanceEffect ==
  ASSUME AgentTypeOK, NEW j \in Job, NEW place \in Waiting \ {"reporting"},
         Advance(j, place)
  PROVE  /\ Continues(j) /\ reason' = reason /\ pc'[j] = place
         /\ \A i \in Job \ {j} : pc'[i] = pc[i]
BY DEF Advance, Goto, KeepsSlot, Continues, AgentTypeOK, Waiting

LEMMA UnlessCancelledEffect ==
  ASSUME AgentTypeOK, NEW j \in Job, NEW place \in Waiting \ {"reporting"},
         UnlessCancelled(j, place)
  PROVE  /\ Leaves(j) \/ (Continues(j) /\ pc'[j] = place)
         /\ reason' = reason
         /\ \A i \in Job \ {j} :
              /\ status'[i] = status[i] /\ pc'[i] = pc[i] /\ token'[i] = token[i]
              /\ i \in tasks' <=> i \in tasks
              /\ i \in entered' <=> i \in entered
<1>1. CASE _is_cancelled(j)
  BY <1>1, FinishEffect DEF UnlessCancelled
<1>2. CASE ~ _is_cancelled(j)
  BY <1>2, AdvanceEffect DEF UnlessCancelled, Continues
<1> QED
  BY <1>1, <1>2

(* The effect of a segment on the Job's worker and on its record.             *)
Effect(j) ==
  /\ Others(j)
  /\ \/ Reports(j) /\ pc[j] \in Waiting
     \/ Leaves(j) /\ pc[j] \in Waiting
     \/ Continues(j) /\ pc[j] \in Waiting \ {"reporting"}
     \/ Enters(j)
  /\ UNCHANGED <<nextSuffix, pushed, base>>
  /\ pc'[j] \in {"announcing", "syncing", "generating"} => attempts'[j] < MaxBuildAttempts
  /\ reason'[j] # reason[j] => pc'[j] \in {"reporting", "none"}
  /\ reason'[j] = "exhausted" /\ reason[j] # "exhausted" => attempts'[j] = MaxBuildAttempts
  /\ attempts'[j] # attempts[j] => pc[j] = "generating"
  /\ thread'[j] = thread[j] \/ (thread'[j] = "running" /\ pc[j] \in Waiting)
  /\ branch'[j] = branch[j] \/ (branch'[j] = BranchOf(j) /\ thread[j] = "pushed")

LEMMA AgentStepEffect ==
  ASSUME AInv, NEW j \in Job, AgentStep(j)
  PROVE  Effect(j)
<1> USE MaxBuildAttemptsAssumption
<1>1. /\ AgentTypeOK /\ TypeOK
      /\ attempts[j] \in 0 .. MaxBuildAttempts
      /\ pc[j] \in {"announcing", "syncing", "generating"} =>
           attempts[j] < MaxBuildAttempts
  BY DEF AInv, AgentTypeOK, AttemptsInv
<1>2. \A place \in {"announcing", "syncing", "generating", "building", "hung", "pushing"} :
        place \in Waiting \ {"reporting"}
  BY DEF Waiting
<1>3. CASE RunStarts(j)
  <2>1. attempts[j] = 0 /\ reason[j] = "none"
    BY <1>3 DEF AInv, AttemptsInv, RunStarts, WorkerEnters
  <2>2. Others(j) /\ Enters(j)
    BY <1>1, <1>3 DEF RunStarts, WorkerEnters, Goto, Others, Enters, AgentTypeOK, TypeOK
  <2> QED
    BY <1>1, <1>3, <2>1, <2>2 DEF RunStarts, WorkerEnters, Effect
<1>4. CASE Announced(j)
  <2> USE <1>4 DEF Announced, NotTheManager, NotTheUsers
  <2>1. CASE _fail(j, "failed")
    BY <1>1, <1>2, <2>1, FailEffect DEF Effect, Others, Reports
  <2>2. CASE UnlessCancelled(j, "syncing")
    BY <1>1, <1>2, <2>2, UnlessCancelledEffect DEF Effect, Others, Continues, Leaves
  <2> QED
    BY <2>1, <2>2
<1>5. CASE Synced(j)
  <2> USE <1>5 DEF Synced, NotTheManager, NotTheUsers
  <2>1. CASE _fail(j, "failed")
    BY <1>1, <1>2, <2>1, FailEffect DEF Effect, Others, Reports
  <2>2. CASE UnlessCancelled(j, "generating")
    BY <1>1, <1>2, <2>2, UnlessCancelledEffect DEF Effect, Others, Continues, Leaves
  <2> QED
    BY <2>1, <2>2
<1>6. CASE GenerationFails(j) \/ BuildTimesOut(j) \/ PushTimesOut(j)
  <2> USE <1>6 DEF GenerationFails, BuildTimesOut, PushTimesOut, NotTheManager, NotTheUsers
  <2>1. _fail(j, "failed")
    OBVIOUS
  <2> QED
    BY <1>1, <1>2, <2>1, FailEffect DEF Effect, Others, Reports
<1>7. CASE GeneratedMalformed(j)
  <2> USE <1>7 DEF GeneratedMalformed, NotTheManager, NotTheUsers
  <2>1. /\ attempts'[j] = attempts[j] + 1
        /\ \A i \in Job \ {j} : attempts'[i] = attempts[i]
    BY <1>1 DEF AgentTypeOK
  <2>2. CASE IsFinal(attempts[j] + 1)
    BY <1>1, <1>2, <2>1, <2>2, FailEffect DEF Effect, Others, Reports, IsFinal
  <2>3. CASE ~ IsFinal(attempts[j] + 1)
    BY <1>1, <1>2, <2>1, <2>3, UnlessCancelledEffect
       DEF Effect, Others, Continues, Leaves, IsFinal
  <2> QED
    BY <2>2, <2>3
<1>8. CASE Generated(j)
  <2> USE <1>8 DEF Generated, NotTheManager, NotTheUsers
  <2>1. /\ attempts'[j] = attempts[j] + 1
        /\ \A i \in Job \ {j} : attempts'[i] = attempts[i]
    BY <1>1 DEF AgentTypeOK
  <2>2. CASE _fail(j, "failed") /\ UNCHANGED thread
    BY <1>1, <1>2, <2>1, <2>2, FailEffect DEF Effect, Others, Reports
  <2>3. CASE UnlessCancelled(j, "building") /\ UNCHANGED thread
    BY <1>1, <1>2, <2>1, <2>3, UnlessCancelledEffect DEF Effect, Others, Continues, Leaves
  <2>4. CASE PushUnlessCancelled(j)
    <3>1. /\ thread'[j] \in {thread[j], "running"}
          /\ \A i \in Job \ {j} : thread'[i] = thread[i]
      BY <1>1, <2>4 DEF PushUnlessCancelled, AgentTypeOK
    <3>2. UnlessCancelled(j, "pushing")
      BY <2>4 DEF PushUnlessCancelled
    <3> QED
      BY <1>1, <1>2, <2>1, <3>1, <3>2, UnlessCancelledEffect
         DEF Effect, Others, Continues, Leaves
  <2> QED
    BY <2>2, <2>3, <2>4
<1>9. CASE BuildCancelled(j)
  <2> USE <1>9 DEF BuildCancelled, NotTheManager, NotTheUsers
  <2> QED
    BY <1>1, <1>2, FinishEffect DEF Effect, Others, Leaves
<1>10. CASE BuildSucceeds(j)
  <2> USE <1>10 DEF BuildSucceeds, NotTheManager, NotTheUsers
  <2>1. /\ thread'[j] \in {thread[j], "running"}
        /\ \A i \in Job \ {j} : thread'[i] = thread[i]
    BY <1>1 DEF PushUnlessCancelled, AgentTypeOK
  <2>2. UnlessCancelled(j, "pushing")
    BY DEF PushUnlessCancelled
  <2> QED
    BY <1>1, <1>2, <2>1, <2>2, UnlessCancelledEffect DEF Effect, Others, Continues, Leaves
<1>11. CASE BuildFails(j)
  <2> USE <1>11 DEF BuildFails, NotTheManager, NotTheUsers
  <2>1. CASE IsFinal(attempts[j])
    BY <1>1, <1>2, <2>1, FailEffect DEF Effect, Others, Reports, IsFinal
  <2>2. CASE ~ IsFinal(attempts[j])
    BY <1>1, <1>2, <2>2, AdvanceEffect DEF Effect, Others, Continues, IsFinal
  <2> QED
    BY <2>1, <2>2
<1>12. CASE PushEnds(j)
  <2> USE <1>12 DEF PushEnds, NotTheManager, NotTheUsers
  <2>1. CASE thread[j] = "pushed" /\ _succeed(j, BranchOf(j))
    BY <1>1, <1>2, <2>1, SucceedEffect DEF Effect, Others, Reports
  <2>2. CASE _succeed(j, branch[j])
    BY <1>1, <1>2, <2>2, SucceedEffect DEF Effect, Others, Reports
  <2>3. CASE _fail(j, "failed") /\ UNCHANGED branch
    BY <1>1, <1>2, <2>3, FailEffect DEF Effect, Others, Reports
  <2> QED
    BY <2>1, <2>2, <2>3 DEF PushResult
<1>13. CASE Reported(j) \/ RunRaises(j)
  <2>1. UNCHANGED <<nextSuffix, pushed, base, branch, thread>> /\ pc[j] \in Waiting
    BY <1>13 DEF Reported, RunRaises, WorkerReturns, WorkerRaises, Waiting
  <2>2. Leaves(j) /\ ReleaseSlot(j) /\ pc' = [pc EXCEPT ![j] = "none"]
    BY <1>1, <1>13
       DEF Reported, RunRaises, WorkerReturns, WorkerRaises, ReleaseSlot, Goto, Leaves,
           AgentTypeOK, TypeOK, Terminal, Finished
  <2>3. \A i \in Job \ {j} :
          /\ status'[i] = status[i] /\ reason'[i] = reason[i] /\ attempts'[i] = attempts[i]
    BY <1>1, <1>13 DEF Reported, RunRaises, WorkerReturns, WorkerRaises, AgentTypeOK, TypeOK
  <2>4. Others(j)
    BY <1>1, <2>1, <2>2, <2>3 DEF Others, ReleaseSlot, AgentTypeOK, TypeOK
  <2>5. /\ reason'[j] \in {reason[j], "internal-error"}
        /\ attempts'[j] # attempts[j] => pc[j] = "generating"
    BY <1>1, <1>13 DEF Reported, RunRaises, AgentTypeOK
  <2> QED
    BY <2>1, <2>2, <2>4, <2>5 DEF Effect, Leaves
<1> QED
  BY <1>3, <1>4, <1>5, <1>6, <1>7, <1>8, <1>9, <1>10, <1>11, <1>12, <1>13 DEF AgentStep

-----------------------------------------------------------------------------
(* The induction.                                                            *)

(* What AInv says besides the manager's own invariant and the types.          *)
RecordInv ==
  /\ WorkerInv /\ AttemptsInv /\ PushInv /\ RetriesUsedUp /\ BranchIsOnRemote

LEMMA InitAInv == AgentInit => AInv
<1> SUFFICES ASSUME AgentInit PROVE AInv
  OBVIOUS
<1> USE MaxBuildAttemptsAssumption DEF AgentInit
<1>1. IInv
  BY InitIInv
<1>2. AgentTypeOK
  <2>1. \A j \in Job : events[j] \in Seq(JobEvent)
    BY EmptySeq
  <2> QED
    BY <1>1, <2>1 DEF IInv, AgentTypeOK, Reason
<1>3. RecordInv
  BY DEF RecordInv, Init, WorkerInv, AttemptsInv, PushInv, RetriesUsedUp, BranchIsOnRemote,
         Waiting
<1> QED
  BY <1>1, <1>2, <1>3 DEF AInv, RecordInv

(* A segment keeps the branches that are on the remote, and adds its own.      *)
LEMMA SegmentBranches ==
  ASSUME AInv, NEW j \in Job, Effect(j)
  PROVE  BranchIsOnRemote'
<1> USE DEF Effect, Others
<1>1. /\ AgentTypeOK /\ pushed' = pushed /\ base' = base
      /\ thread[j] = "pushed" => j \in pushed
  BY DEF AInv, PushInv
<1>2. \A i \in Job : BranchOf(i)' = BranchOf(i)
  BY <1>1 DEF BranchOf
<1>3. \A b : b \in {BranchOf(i) : i \in pushed} => b \in {BranchOf(i) : i \in pushed}'
  BY <1>1, <1>2 DEF AgentTypeOK
<1> SUFFICES ASSUME NEW i \in Job, branch'[i] # NoJob
             PROVE  branch'[i] \in {BranchOf(k) : k \in pushed}
  BY <1>3 DEF BranchIsOnRemote
<1>4. CASE branch'[i] = branch[i]
  BY <1>4 DEF AInv, BranchIsOnRemote
<1>5. CASE i = j /\ branch'[j] = BranchOf(j) /\ thread[j] = "pushed"
  BY <1>1, <1>5
<1> QED
  BY <1>4, <1>5

LEMMA SegmentKeeps ==
  ASSUME AInv, IInv', NEW j \in Job, Effect(j)
  PROVE  RecordInv'
<1> USE DEF Effect, Others
<1>1. /\ AgentTypeOK /\ TypeOK
      /\ MintedInv /\ MintedInv' /\ TasksInv /\ TasksInv'
      /\ WorkerInv /\ AttemptsInv /\ PushInv /\ RetriesUsedUp
  BY DEF AInv, IInv
<1>2. WorkerInv'
  <2> SUFFICES ASSUME NEW i \in Job
               PROVE  /\ pc'[i] # "none" => i \in entered'
                      /\ pc'[i] \in Waiting \ {"reporting"} =>
                           status'[i] \in {"Running", "Cancelled"}
                      /\ i \in tasks' => token'[i] # "none"
                      /\ i \in tasks' /\ status'[i] = "Cancelled" => token'[i] = "set"
    BY DEF WorkerInv
  <2>1. CASE i # j
    BY <1>1, <2>1 DEF WorkerInv
  <2>2. CASE i = j
    BY <1>1, <2>2 DEF WorkerInv, Reports, Leaves, Continues, Enters, Waiting, Finished
  <2> QED
    BY <2>1, <2>2
<1>3. status'[j] \notin {"Absent", "Queued"} /\ j \notin tasks' \ entered'
  BY <1>1 DEF Reports, Leaves, Continues, Enters, TasksInv, WorkerInv, Waiting, TypeOK,
              Terminal, Finished
<1>4. pc[j] = "generating" => j \in entered /\ reason[j] = "none"
  BY <1>1 DEF WorkerInv, AttemptsInv, Waiting
<1>5. reason[j] # "none" => pc'[j] \in {"reporting", "none"}
  BY <1>1 DEF AttemptsInv, Reports, Leaves, Continues, Enters, Waiting
<1>6. AttemptsInv'
  <2> SUFFICES ASSUME NEW i \in Job
               PROVE  /\ pc'[i] \in {"announcing", "syncing", "generating"} =>
                           attempts'[i] < MaxBuildAttempts
                      /\ reason'[i] # "none" => pc'[i] \in {"reporting", "none"}
                      /\ status'[i] \in {"Absent", "Queued"} \/ i \in tasks' \ entered' =>
                           attempts'[i] = 0 /\ reason'[i] = "none"
    BY DEF AttemptsInv
  <2>1. CASE i # j
    BY <1>1, <2>1 DEF AttemptsInv
  <2>2. CASE i = j
    BY <1>3, <1>5, <2>2
  <2> QED
    BY <2>1, <2>2
<1>7. PushInv'
  <2>1. status[j] # "Absent"
    BY <1>1 DEF WorkerInv, TasksInv, Enters, TypeOK, Waiting
  <2>2. \A i \in Job : status[i] # "Absent" => status'[i] # "Absent"
    BY <1>3
  <2> QED
    BY <1>1, <2>1, <2>2 DEF PushInv
<1>8. RetriesUsedUp'
  BY <1>1, <1>4 DEF RetriesUsedUp
<1> QED
  BY <1>2, <1>6, <1>7, <1>8, SegmentBranches DEF RecordInv

(* The dispatcher and the users leave every record alone but a new Job's.     *)
Untouched == UNCHANGED <<pc, attempts, reason, base, branch, thread, pushed>>

LEMMA UntouchedBranches ==
  ASSUME BranchIsOnRemote, Untouched
  PROVE  BranchIsOnRemote'
BY DEF BranchIsOnRemote, Untouched, BranchOf

LEMMA QuietKeeps ==
  ASSUME AInv, Untouched, UNCHANGED <<status, tasks, entered, token>>
  PROVE  RecordInv'
<1>1. BranchIsOnRemote'
  BY UntouchedBranches DEF AInv
<1> QED
  BY <1>1 DEF Untouched, AInv, RecordInv, WorkerInv, AttemptsInv, PushInv, RetriesUsedUp

(* A promoted Job gets a token, and has no worker yet.                        *)
LEMMA SpawnKeeps ==
  ASSUME AInv, Untouched, NEW j \in Job, status[j] = "Queued", _spawn_worker(j),
         entered' = entered
  PROVE  RecordInv'
<1> USE DEF Untouched, _spawn_worker
<1>1. /\ AgentTypeOK /\ TypeOK /\ TasksInv
      /\ WorkerInv /\ AttemptsInv /\ PushInv /\ RetriesUsedUp
  BY DEF AInv, IInv
<1>2. j \notin tasks /\ j \notin entered /\ pc[j] = "none"
  BY <1>1 DEF TasksInv, TypeOK, WorkerInv
<1>3. WorkerInv'
  BY <1>1, <1>2 DEF WorkerInv, TypeOK
<1>4. AttemptsInv'
  BY <1>1, <1>2 DEF AttemptsInv, TypeOK
<1>5. PushInv' /\ RetriesUsedUp'
  BY <1>1 DEF PushInv, RetriesUsedUp, TypeOK
<1>6. BranchIsOnRemote'
  BY UntouchedBranches DEF AInv
<1> QED
  BY <1>3, <1>4, <1>5, <1>6 DEF RecordInv

LEMMA DispatcherKeeps ==
  ASSUME AInv, Untouched, start \/ stop \/ DispatcherStep
  PROVE  RecordInv'
<1>1. CASE start \/ stop \/ DispatchMustWait \/ DispatcherSleeps \/ DispatcherWakes
  BY <1>1, QuietKeeps
     DEF start, stop, DispatchMustWait, DispatcherSleeps, DispatcherWakes
<1>2. CASE DispatchNow
  <2>1. PICK n \in 1 .. Len(queue) : PopsAt(n) /\ _spawn_worker(queue[n])
    BY <1>2 DEF DispatchNow
  <2>2. queue[n] \in Job
    BY <2>1, LenProperties DEF AInv, IInv, TypeOK
  <2>3. status[queue[n]] = "Queued" /\ entered' = entered
    BY <1>2, <2>1 DEF PopsAt, DispatchNow
  <2> QED
    BY <2>1, <2>2, <2>3, SpawnKeeps
<1>3. CASE SlotAcquired
  <2>1. CASE StillQueued(held)
    <3>1. held \in Job
      BY <1>3 DEF SlotAcquired, AInv, IInv, HeldInv, TypeOK
    <3> QED
      BY <1>3, <2>1, <3>1, SpawnKeeps DEF SlotAcquired, StillQueued
  <2>2. CASE ~ StillQueued(held)
    BY <1>3, <2>2, QuietKeeps DEF SlotAcquired
  <2> QED
    BY <2>1, <2>2
<1> QED
  BY <1>1, <1>2, <1>3 DEF DispatcherStep

(* A Queued Job has no worker; a Running one has a token to set.              *)
LEMMA CancelKeeps ==
  ASSUME AInv, Untouched, NEW j \in Job, cancel_queued(j) \/ cancel_running(j)
  PROVE  RecordInv'
<1> USE DEF Untouched, cancel_queued, cancel_running
<1>1. /\ AgentTypeOK /\ TypeOK /\ TasksInv
      /\ WorkerInv /\ AttemptsInv /\ PushInv /\ RetriesUsedUp
  BY DEF AInv, IInv
<1>2. tasks' = tasks /\ entered' = entered
  OBVIOUS
<1>3. /\ status[j] \in {"Queued", "Running"}
      /\ \A i \in Job : status'[i] = IF i = j THEN "Cancelled" ELSE status[i]
  BY <1>1 DEF TypeOK
<1>4. status[j] = "Queued" => j \notin tasks /\ token' = token
  BY <1>1 DEF TasksInv
<1>5. status[j] = "Running" =>
        \A i \in Job : token'[i] = IF i = j /\ token[j] # "none" THEN "set" ELSE token[i]
  BY <1>1 DEF TypeOK
<1>6. WorkerInv'
  BY <1>1, <1>2, <1>3, <1>4, <1>5 DEF WorkerInv
<1>7. AttemptsInv' /\ PushInv' /\ RetriesUsedUp'
  BY <1>1, <1>2, <1>3 DEF AttemptsInv, PushInv, RetriesUsedUp
<1>8. BranchIsOnRemote'
  BY UntouchedBranches DEF AInv
<1> QED
  BY <1>6, <1>7, <1>8 DEF RecordInv

(* A new Job starts with a clean record; a revision with its base's branch.   *)
LEMMA CreateKeeps ==
  ASSUME AInv, create_job,
         UNCHANGED <<pc, attempts, reason, thread, pushed>>,
         \/ UNCHANGED <<base, branch>>
         \/ \E b \in Job :
              /\ base' = [base EXCEPT ![nextSuffix] = b]
              /\ branch' = [branch EXCEPT ![nextSuffix] = branch[b]]
  PROVE  RecordInv'
<1> USE DEF create_job
<1>1. /\ AgentTypeOK /\ TypeOK /\ TasksInv /\ MintedInv
      /\ WorkerInv /\ AttemptsInv /\ PushInv /\ RetriesUsedUp /\ BranchIsOnRemote
  BY DEF AInv, IInv
<1> DEFINE new == nextSuffix
<1>2. new \in Job /\ status[new] = "Absent"
  BY <1>1 DEF MintedInv, Job
<1>3. new \notin tasks /\ new \notin entered /\ pc[new] = "none" /\ new \notin pushed
  BY <1>1, <1>2 DEF TasksInv, TypeOK, WorkerInv, PushInv
<1>4. /\ tasks' = tasks /\ entered' = entered /\ token' = token
      /\ \A i \in Job : status'[i] = IF i = new THEN "Queued" ELSE status[i]
  BY <1>1 DEF TypeOK
<1> HIDE DEF new
<1>5. WorkerInv'
  BY <1>1, <1>2, <1>3, <1>4 DEF WorkerInv
<1>6. AttemptsInv' /\ PushInv' /\ RetriesUsedUp'
  BY <1>1, <1>2, <1>3, <1>4 DEF AttemptsInv, PushInv, RetriesUsedUp
<1>7. BranchIsOnRemote'
  <2>1. /\ \A i \in Job \ {new} : base'[i] = base[i] /\ branch'[i] = branch[i]
        /\ \E b \in Job : branch'[new] = branch[b]
    BY <1>1, <1>2 DEF AgentTypeOK, new
  <2>2. \A i \in pushed : BranchOf(i)' = BranchOf(i)
    BY <1>1, <1>3, <2>1 DEF BranchOf, AgentTypeOK
  <2>3. \A i \in Job : \E b \in Job : branch'[i] = branch[b]
    BY <2>1
  <2> QED
    BY <1>1, <2>2, <2>3 DEF BranchIsOnRemote
<1> QED
  BY <1>5, <1>6, <1>7 DEF RecordInv

(* A push that lands puts the Job's commit on the remote.                     *)
LEMMA PushThreadKeeps ==
  ASSUME AInv, NEW j \in Job, PushThread(j)
  PROVE  RecordInv'
<1> USE DEF PushThread, vars
<1>1. /\ AgentTypeOK /\ WorkerInv /\ AttemptsInv /\ PushInv /\ RetriesUsedUp
      /\ BranchIsOnRemote
  BY DEF AInv
<1>2. /\ pushed \subseteq pushed' /\ pushed' \subseteq pushed \union {j}
      /\ thread'[j] = "pushed" => j \in pushed'
      /\ \A i \in Job \ {j} : thread'[i] = thread[i]
  BY <1>1 DEF AgentTypeOK
<1>3. WorkerInv' /\ AttemptsInv' /\ RetriesUsedUp'
  BY <1>1 DEF WorkerInv, AttemptsInv, RetriesUsedUp
<1>4. PushInv'
  BY <1>1, <1>2 DEF PushInv
<1>5. BranchIsOnRemote'
  BY <1>1, <1>2 DEF BranchIsOnRemote, BranchOf
<1> QED
  BY <1>3, <1>4, <1>5 DEF RecordInv

(* A hung build and a torn-down worker end nothing but themselves.            *)
LEMMA HangsKeeps ==
  ASSUME AInv, NEW j \in Job, BuildHangs(j)
  PROVE  RecordInv'
<1> USE DEF BuildHangs, Goto, vars
<1>1. /\ AgentTypeOK /\ WorkerInv /\ AttemptsInv /\ PushInv /\ RetriesUsedUp
      /\ BranchIsOnRemote
  BY DEF AInv
<1>2. WorkerInv' /\ AttemptsInv'
  BY <1>1 DEF WorkerInv, AttemptsInv, AgentTypeOK, Waiting
<1>3. PushInv' /\ RetriesUsedUp' /\ BranchIsOnRemote'
  BY <1>1 DEF PushInv, RetriesUsedUp, BranchIsOnRemote, BranchOf
<1> QED
  BY <1>2, <1>3 DEF RecordInv

LEMMA TornDownKeeps ==
  ASSUME AInv, NEW j \in Job, TornDown(j)
  PROVE  RecordInv'
<1> USE DEF TornDown, WorkerTornDown, ReleaseSlot, Goto
<1>1. /\ AgentTypeOK /\ TypeOK /\ TasksInv
      /\ WorkerInv /\ AttemptsInv /\ PushInv /\ RetriesUsedUp /\ BranchIsOnRemote
  BY DEF AInv, IInv
<1>2. WorkerInv'
  <2>1. /\ pc'[j] = "none" /\ j \notin tasks'
        /\ \A i \in Job \ {j} :
             /\ pc'[i] = pc[i] /\ status'[i] = status[i] /\ token'[i] = token[i]
             /\ i \in tasks' <=> i \in tasks
             /\ i \in entered' <=> i \in entered
    BY <1>1 DEF AgentTypeOK, TypeOK
  <2> QED
    BY <1>1, <2>1 DEF WorkerInv, Waiting
<1>3. AttemptsInv'
  BY <1>1 DEF AttemptsInv, AgentTypeOK, TypeOK, TasksInv, Terminal
<1>4. PushInv' /\ RetriesUsedUp'
  BY <1>1 DEF PushInv, RetriesUsedUp, AgentTypeOK, TypeOK
<1>5. BranchIsOnRemote'
  BY <1>1 DEF BranchIsOnRemote, BranchOf
<1> QED
  BY <1>2, <1>3, <1>4, <1>5 DEF RecordInv

LEMMA NextKeepsAInv == AInv /\ [AgentNext]_allVars => AInv'
<1> SUFFICES ASSUME AInv, [AgentNext]_allVars PROVE AInv'
  OBVIOUS
<1>1. IInv' /\ TypeOK'
  BY AgentSimulatesManager, NextIInv DEF AInv, IInv
<1>2. AgentTypeOK'
  BY <1>1, AgentNextTyped
<1>3. RecordInv'
  <2>1. CASE UNCHANGED allVars
    BY <2>1, QuietKeeps DEF allVars, vars, agentVars, Untouched
  <2>2. CASE (start \/ stop \/ DispatcherStep) /\ UNCHANGED agentVars
    BY <2>2, DispatcherKeeps DEF agentVars, Untouched
  <2>3. CASE on_build
    BY <2>3, CreateKeeps DEF on_build
  <2>4. CASE \E j \in Job : on_revise(j)
    BY <2>4, CreateKeeps DEF on_revise, create_revision
  <2>5. CASE \E j \in Job : on_cancel(j)
    BY <2>5, CancelKeeps DEF on_cancel, Untouched
  <2>6. CASE \E j \in Job : AgentStep(j)
    BY <1>1, <2>6, AgentStepEffect, SegmentKeeps
  <2> QED
    BY <2>1, <2>2, <2>3, <2>4, <2>5, <2>6, HangsKeeps, PushThreadKeeps, TornDownKeeps
       DEF AgentNext
<1> QED
  BY <1>1, <1>2, <1>3 DEF AInv, RecordInv

(* AInv holds in every run of the manager with its agents.                    *)
THEOREM AgentInvariant == AgentSpec => []AInv
<1> QED
  BY InitAInv, NextKeepsAInv, PTL DEF AgentSpec

-----------------------------------------------------------------------------
(* What follows.                                                             *)

(* The agent never does what the manager does not expect of a worker: the      *)
(* safety part of ImplementsJobManager.                                       *)
THEOREM AgentImplementsManager == AgentSpec => Spec
<1>1. AgentInit => Init
  BY DEF AgentInit
<1>2. AInv /\ [AgentNext]_allVars => [Next]_vars
  BY AgentSimulatesManager
<1> QED
  BY <1>1, <1>2, AgentInvariant, PTL DEF AgentSpec, Spec

(* So no slot is lost or overbooked with the real worker in it, wherever it    *)
(* is cancelled and whatever fails in it.                                     *)
THEOREM SlotsAreAccountedForWithAgents == AgentSpec => []SlotAccounting
<1> QED
  BY AgentImplementsManager, SlotsAreAccountedFor, PTL

(* The record of every Job keeps its type: no more attempts are made than      *)
(* configured.                                                                *)
THEOREM AgentTypeCorrect == AgentSpec => []AgentTypeOK
<1>1. AInv => AgentTypeOK
  BY DEF AInv
<1> QED
  BY <1>1, AgentInvariant, PTL

(* A Job with a branch, and so any base /revise accepts, has a branch some Job *)
(* really pushed.                                                             *)
THEOREM RevisableBranchExists == AgentSpec => []BranchIsOnRemote
<1>1. AInv => BranchIsOnRemote
  BY DEF AInv
<1> QED
  BY <1>1, AgentInvariant, PTL

(* No recoverable failure is final before every attempt was used.             *)
THEOREM EveryAttemptIsMade == AgentSpec => []RetriesUsedUp
<1>1. AInv => RetriesUsedUp
  BY DEF AInv
<1> QED
  BY <1>1, AgentInvariant, PTL

(* Once the token of a Job is set no sync, generation, build or push of it     *)
(* starts, wherever the signal met its worker.                                *)
LEMMA SignalledStartsNothing ==
  ASSUME AInv, AgentNext, NEW j \in Job, token[j] = "set"
  PROVE  ~ StartsWork(j)
<1>1. AgentTypeOK /\ _is_cancelled(j)
  BY DEF AInv, _is_cancelled
<1>2. CASE UNCHANGED <<pc, attempts>>
  BY <1>2 DEF StartsWork
<1>3. CASE \E i \in Job : BuildHangs(i) \/ TornDown(i)
  BY <1>1, <1>3 DEF BuildHangs, TornDown, Goto, AgentTypeOK, StartsWork
<1>4. CASE \E i \in Job \ {j} : AgentStep(i)
  BY <1>4, AgentStepEffect DEF Effect, Others, StartsWork
<1>5. CASE AgentStep(j)
  <2>1. \A place : UnlessCancelled(j, place) => pc'[j] = "none"
    BY <1>1, FinishEffect DEF UnlessCancelled, Leaves
  <2>2. \A r : _fail(j, r) => pc'[j] = "reporting"
    BY <1>1, FailEffect DEF Reports
  <2>3. \A b : _succeed(j, b) => pc'[j] = "reporting"
    BY <1>1, SucceedEffect DEF Reports
  <2>4. _finish_cancelled(j) => pc'[j] = "none"
    BY <1>1, FinishEffect DEF Leaves
  <2>5. CASE RunStarts(j) \/ Reported(j) \/ RunRaises(j)
    BY <1>1, <2>5 DEF RunStarts, Reported, RunRaises, Goto, AgentTypeOK, StartsWork
  <2>6. CASE ~ (RunStarts(j) \/ Reported(j) \/ RunRaises(j))
    <3>1. pc'[j] \in {"none", "reporting"}
      BY <1>1, <1>5, <2>1, <2>2, <2>3, <2>4, <2>6
         DEF AgentStep, Announced, Synced, GenerationFails, GeneratedMalformed, Generated,
             PushUnlessCancelled, BuildCancelled, BuildTimesOut, BuildSucceeds,
             BuildFails, PushEnds, PushResult, PushTimesOut
    <3> QED
      BY <3>1 DEF StartsWork
  <2> QED
    BY <2>5, <2>6
<1> QED
  BY <1>2, <1>3, <1>4, <1>5
     DEF AgentNext, agentVars, on_build, on_revise, on_cancel, PushThread

LEMMA SignalledStartsNoPush ==
  ASSUME AInv, AgentNext, NEW j \in Job, token[j] = "set", thread[j] = "none"
  PROVE  thread'[j] = "none"
<1>1. AgentTypeOK /\ _is_cancelled(j)
  BY DEF AInv, _is_cancelled
<1>2. CASE UNCHANGED thread
  BY <1>2
<1>3. CASE \E i \in Job \ {j} : AgentStep(i)
  BY <1>3, AgentStepEffect DEF Effect, Others
<1>4. CASE AgentStep(j)
  <2>1. UNCHANGED thread
    BY <1>1, <1>4
       DEF AgentStep, RunStarts, Announced, Synced, GenerationFails, GeneratedMalformed,
           Generated, PushUnlessCancelled, BuildCancelled, BuildTimesOut, BuildSucceeds,
           BuildFails, PushEnds, PushTimesOut, Reported, RunRaises
  <2> QED
    BY <2>1
<1>5. CASE \E i \in Job : PushThread(i)
  BY <1>1, <1>5 DEF PushThread, AgentTypeOK
<1> QED
  BY <1>2, <1>3, <1>4, <1>5
     DEF AgentNext, agentVars, on_build, on_revise, on_cancel, BuildHangs, TornDown

(* A Job /cancel was confirmed for: its worker is told, or it has none any more.  *)
Told(j) ==
  \/ token[j] = "set" /\ j \in tasks
  \/ j \notin tasks /\ status[j] \in Terminal

AckedInv == \A j \in acked : Told(j)

LEMMA ManagerKeepsTold ==
  ASSUME IInv, Next, NEW j \in Job, Told(j)
  PROVE  Told(j)'
<1>1. /\ TypeOK /\ TasksInv /\ MintedInv /\ HeldInv
      /\ status[j] \notin {"Absent", "Queued"}
      /\ status \in [Job -> Status] /\ token \in [Job -> {"none", "clear", "set"}]
  BY DEF IInv, TypeOK, Told, TasksInv, Terminal, Finished
<1> USE DEF Told
<1>2. CASE start \/ stop
  BY <1>2 DEF start, stop
<1>3. CASE create_job \/ \E b \in Job : create_revision(b)
  <2>1. nextSuffix # j
    BY <1>1, <1>3 DEF create_revision, create_job, MintedInv, Job
  <2> QED
    BY <1>1, <1>3, <2>1 DEF create_revision, create_job
<1>4. CASE DispatcherStep
  <2>1. ASSUME NEW i \in Job, status[i] = "Queued", _spawn_worker(i)
        PROVE  Told(j)'
    BY <1>1, <2>1 DEF _spawn_worker
  <2>2. CASE DispatchNow
    BY <1>1, <2>1, <2>2, LenProperties DEF DispatchNow, PopsAt, TypeOK
  <2>3. CASE SlotAcquired /\ StillQueued(held)
    <3>1. held \in Job
      BY <1>1, <2>3 DEF SlotAcquired, HeldInv, TypeOK
    <3> QED
      BY <2>1, <2>3, <3>1 DEF SlotAcquired, StillQueued
  <2> QED
    BY <1>4, <2>2, <2>3
       DEF DispatcherStep, DispatchMustWait, SlotAcquired, DispatcherSleeps, DispatcherWakes
<1>5. CASE \E i \in Job : cancel(i)
  BY <1>1, <1>5 DEF cancel, cancel_queued, cancel_running, Terminal, Finished
<1>6. ASSUME NEW i \in Job, WorkerStep(i) \/ WorkerTornDown(i)
      PROVE  Told(j)'
  <2>1. i \in tasks
    BY <1>1, <1>6 DEF WorkerStep, WorkerEnters, WorkerReports, WorkerReturns, WorkerStops,
       WorkerRaises, WorkerTornDown, TypeOK
  <2>2. CASE i # j
    BY <1>1, <1>6, <2>2 DEF WorkerStep, WorkerEnters, WorkerReports, WorkerReturns,
       WorkerStops, WorkerRaises, WorkerTornDown, ReleaseSlot
  <2>3. CASE WorkerEnters(j) \/ \E outcome \in Finished : WorkerReports(j, outcome)
    <3>1. j \in tasks /\ tasks' = tasks /\ token' = token
      BY <1>1, <2>3 DEF WorkerEnters, WorkerReports, TypeOK
    <3> QED
      BY <3>1
  <2>4. CASE WorkerReturns(j) \/ WorkerStops(j) \/ WorkerRaises(j) \/ WorkerTornDown(j)
    BY <1>1, <2>4 DEF WorkerReturns, WorkerStops, WorkerRaises, WorkerTornDown,
       ReleaseSlot, Terminal, Finished
  <2> QED
    BY <1>1, <1>6, <2>1, <2>2, <2>3, <2>4 DEF WorkerStep, WorkerEnters, WorkerReports, TypeOK
<1> QED
  BY <1>2, <1>3, <1>4, <1>5, <1>6 DEF Next

LEMMA NextKeepsAcked ==
  ASSUME AInv, AckedInv, [AgentNext]_allVars
  PROVE  AckedInv'
<1>1. IInv /\ AgentTypeOK /\ TypeOK /\ TasksInv /\ SlotAccounting /\ WorkerInv
  BY DEF AInv, IInv
<1>2. [Next]_vars
  BY AgentSimulatesManager
<1>3. ASSUME NEW j \in Job, Told(j)
      PROVE  Told(j)'
  BY <1>1, <1>2, <1>3, ManagerKeepsTold DEF Told, vars
<1>4. CASE acked' = acked
  BY <1>1, <1>3, <1>4 DEF AckedInv, AgentTypeOK
<1>5. ASSUME NEW j \in Job, on_cancel(j)
      PROVE  AckedInv'
  <2>1. Told(j)'
    <3>1. CASE cancel_queued(j)
      BY <1>1, <3>1 DEF cancel_queued, Told, TasksInv, TypeOK, Terminal
    <3>2. CASE cancel_running(j)
      BY <1>1, <3>2 DEF cancel_running, Told, SlotAccounting, WorkerInv, TypeOK
    <3> QED
      BY <1>5, <3>1, <3>2 DEF on_cancel
  <2> QED
    BY <1>1, <1>3, <1>5, <2>1 DEF AckedInv, on_cancel, AgentTypeOK
<1> QED
  BY <1>4, <1>5 DEF AgentNext, allVars, agentVars, on_build, on_revise, AgentStep, RunStarts,
     Announced, Synced, GenerationFails, GeneratedMalformed, Generated, BuildCancelled,
     BuildTimesOut, BuildSucceeds, BuildFails, PushEnds, PushTimesOut, Reported, RunRaises,
     NotTheUsers, BuildHangs, PushThread, TornDown

(* A Job without a worker starts nothing.                                     *)
LEMMA GoneStartsNothing ==
  ASSUME AInv, AgentNext, NEW j \in Job, j \notin tasks
  PROVE  ~ StartsWork(j) /\ (thread[j] = "none" => thread'[j] = "none")
<1>1. AgentTypeOK /\ pc[j] = "none" /\ j \notin entered
  BY DEF AInv, IInv, TypeOK, WorkerInv
<1>2. CASE UNCHANGED <<pc, attempts, thread>>
  BY <1>2 DEF StartsWork
<1>3. CASE \E i \in Job \ {j} : AgentStep(i)
  BY <1>3, AgentStepEffect DEF Effect, Others, StartsWork
<1>4. ~ AgentStep(j)
  BY <1>1, AgentStepEffect DEF Effect, Enters, Waiting
<1>5. CASE \E i \in Job : BuildHangs(i) \/ PushThread(i) \/ TornDown(i)
  BY <1>1, <1>5 DEF BuildHangs, PushThread, TornDown, Goto, AgentTypeOK, StartsWork
<1> QED
  BY <1>2, <1>3, <1>4, <1>5 DEF AgentNext, agentVars, on_build, on_revise, on_cancel

(* Whoever got the answer "Cancelled job" can rely on this: no sync, generation,   *)
(* build or push of the Job starts any more, and it is never pushed if its push    *)
(* had not begun (run's checks of the token between its suspensions).            *)
THEOREM NothingStartsAfterCancel == AgentSpec => NoWorkAfterCancel
<1> DEFINE Quiet ==
      \A j \in acked : ~ StartsWork(j) /\ (thread[j] = "none" => thread'[j] = "none")
<1>1. AgentInit => AckedInv
  BY DEF AgentInit, AckedInv
<1>2. AInv /\ AckedInv /\ [AgentNext]_allVars => AckedInv'
  BY NextKeepsAcked
<1>3. AInv /\ AckedInv /\ [AgentNext]_allVars => [Quiet]_allVars
  <2> SUFFICES ASSUME AInv, AckedInv, AgentNext, NEW j \in acked
               PROVE  ~ StartsWork(j) /\ (thread[j] = "none" => thread'[j] = "none")
    OBVIOUS
  <2>1. j \in Job /\ Told(j)
    BY DEF AInv, AgentTypeOK, AckedInv
  <2> QED
    BY <2>1, SignalledStartsNothing, SignalledStartsNoPush, GoneStartsNothing DEF Told
<1> QED
  BY <1>1, <1>2, <1>3, AgentInvariant, PTL DEF AgentSpec, NoWorkAfterCancel

(* A worker that has not taken its first step is of a Job that is Running, or   *)
(* was cancelled since.                                                      *)
FreshInv == \A j \in tasks \ entered : status[j] \in {"Running", "Cancelled"}

LEMMA NextKeepsFresh ==
  ASSUME IInv, FreshInv, [Next]_vars
  PROVE  FreshInv'
<1> SUFFICES ASSUME NEW j \in tasks', j \notin entered'
             PROVE  status'[j] \in {"Running", "Cancelled"}
  BY DEF FreshInv
<1> USE DEF TypeOK
<1>0. TypeOK /\ MintedInv /\ TasksInv /\ HeldInv
  BY DEF IInv
<1>1. CASE j \in tasks \ entered /\ status'[j] = status[j]
  BY <1>1 DEF FreshInv
<1>2. CASE UNCHANGED vars
  BY <1>2 DEF FreshInv, vars
<1>3. CASE start \/ stop
  BY <1>0, <1>1, <1>3 DEF start, stop
<1>4. CASE create_job \/ \E b \in Job : create_revision(b)
  <2>1. create_job
    BY <1>4 DEF create_revision
  <2>2. j \in tasks \ entered /\ j \in Job /\ status[j] # "Absent"
    BY <1>0, <2>1 DEF create_job, TasksInv
  <2>3. j # nextSuffix
    BY <1>0, <2>2 DEF MintedInv, Job
  <2> QED
    BY <1>0, <1>1, <2>1, <2>2, <2>3 DEF create_job
<1>5. CASE DispatcherStep
  <2>1. ASSUME NEW i \in Job, _spawn_worker(i), entered' = entered
        PROVE  status'[j] \in {"Running", "Cancelled"}
    BY <1>0, <2>1 DEF _spawn_worker, FreshInv
  <2>2. CASE DispatchNow
    BY <1>0, <2>1, <2>2 DEF DispatchNow
  <2>3. CASE SlotAcquired
    <3>1. held \in Job
      BY <1>0, <2>3 DEF SlotAcquired, HeldInv
    <3> QED
      BY <1>0, <1>1, <2>1, <2>3, <3>1 DEF SlotAcquired
  <2>4. CASE DispatchMustWait \/ DispatcherSleeps \/ DispatcherWakes
    BY <1>1, <2>4 DEF DispatchMustWait, DispatcherSleeps, DispatcherWakes
  <2> QED
    BY <1>5, <2>2, <2>3, <2>4 DEF DispatcherStep
<1>6. CASE \E i \in Job : cancel(i)
  BY <1>0, <1>6 DEF cancel, cancel_queued, cancel_running, FreshInv
<1>7. ASSUME NEW i \in Job, WorkerStep(i) \/ WorkerTornDown(i)
      PROVE  status'[j] \in {"Running", "Cancelled"}
  <2>1. i # j /\ j \in tasks \ entered
    BY <1>0, <1>7 DEF WorkerStep, WorkerEnters, WorkerReports, WorkerReturns, WorkerStops,
       WorkerRaises, WorkerTornDown, ReleaseSlot
  <2>2. status'[j] = status[j]
    BY <1>0, <1>7, <2>1 DEF WorkerStep, WorkerEnters, WorkerReports, WorkerReturns,
       WorkerStops, WorkerRaises, WorkerTornDown
  <2> QED
    BY <1>1, <2>1, <2>2
<1> QED
  BY <1>2, <1>3, <1>4, <1>5, <1>6, <1>7 DEF Next

THEOREM FreshWorkerIsRunning == Spec => []FreshInv
<1>1. Init => FreshInv
  BY DEF Init, FreshInv
<1>2. IInv /\ FreshInv /\ [Next]_vars => FreshInv'
  BY NextKeepsFresh
<1> QED
  BY <1>1, <1>2, ManagerInvariant, PTL DEF Spec

(* The manager itself changes a status only from Absent, Queued or Running.     *)
LEMMA ManagerLeavesTerminal ==
  ASSUME IInv, NEW j \in Job, status[j] \in Terminal,
         \/ start \/ stop \/ create_job \/ DispatcherStep
         \/ \E i \in Job : create_revision(i) \/ cancel(i)
  PROVE  status'[j] = status[j]
<1> USE DEF IInv, TypeOK, Terminal, Finished
<1>1. status[j] \notin {"Absent", "Queued", "Running"}
  OBVIOUS
<1>2. nextSuffix \in Job => nextSuffix # j
  BY <1>1 DEF MintedInv, Job
<1>3. CASE start \/ stop
  BY <1>3 DEF start, stop
<1>4. CASE create_job \/ \E b \in Job : create_revision(b)
  BY <1>2, <1>4 DEF create_job, create_revision
<1>5. CASE DispatcherStep
  BY <1>1, <1>5 DEF DispatcherStep, DispatchNow, DispatchMustWait, SlotAcquired,
     DispatcherSleeps, DispatcherWakes, PopsAt, StillQueued, _spawn_worker
<1>6. CASE \E i \in Job : cancel(i)
  BY <1>1, <1>6 DEF cancel, cancel_queued, cancel_running
<1> QED
  BY <1>3, <1>4, <1>5, <1>6

(* A worker leaves a terminal status only if that is Cancelled: after it        *)
(* reported it only returns.                                                 *)
LEMMA WorkerLeavesTerminal ==
  ASSUME AInv, FreshInv, NEW j \in Job, AgentStep(j),
         status[j] \in Terminal, status'[j] # status[j]
  PROVE  status[j] = "Cancelled" /\ j \in tasks
<1>1. /\ IInv /\ AgentTypeOK /\ TypeOK /\ WorkerInv
      /\ entered \subseteq tasks /\ status \in [Job -> Status]
  BY DEF AInv, AgentTypeOK, IInv, TypeOK
<1>2. CASE pc[j] \in Waiting \ {"reporting"}
  BY <1>1, <1>2 DEF WorkerInv, Terminal, Finished, Waiting
<1>3. CASE RunStarts(j)
  BY <1>1, <1>3 DEF RunStarts, WorkerEnters, FreshInv, Terminal, Finished
<1>4. CASE Reported(j)
  BY <1>4 DEF Reported, WorkerReturns
<1> QED
  BY <1>2, <1>3, <1>4
     DEF AgentStep, Announced, Synced, GenerationFails, GeneratedMalformed, Generated,
         BuildCancelled, BuildTimesOut, BuildSucceeds, BuildFails, PushEnds, PushTimesOut,
         RunRaises, Waiting

(* Once its worker is gone the outcome of a Job is final, and nobody but the    *)
(* worker changes it before (the status /cancel and the worker both write).   *)
THEOREM OutcomeIsFinal == AgentSpec => TerminalLeftOnlyByItsWorker
<1>1. AInv /\ FreshInv /\ [AgentNext]_allVars =>
        [\A j \in Job : status[j] \in Terminal /\ status'[j] # status[j] =>
           status[j] = "Cancelled" /\ j \in tasks]_allVars
  <2> SUFFICES ASSUME AInv, FreshInv, AgentNext, NEW j \in Job,
                      status[j] \in Terminal, status'[j] # status[j]
               PROVE  status[j] = "Cancelled" /\ j \in tasks
    BY DEF allVars, vars
  <2>1. IInv /\ AgentTypeOK /\ TypeOK
    BY DEF AInv, AgentTypeOK
  <2>2. CASE start \/ stop \/ DispatcherStep \/ on_build \/ \E i \in Job : on_revise(i)
    <3>1. \/ start \/ stop \/ create_job \/ DispatcherStep
          \/ \E i \in Job : create_revision(i)
      BY <2>2 DEF on_build, on_revise
    <3> QED
      BY <2>1, <3>1, ManagerLeavesTerminal
  <2>3. CASE \E i \in Job : on_cancel(i)
    <3>1. \E i \in Job : create_revision(i) \/ cancel(i)
      BY <2>3 DEF on_cancel, cancel
    <3> QED
      BY <2>1, <3>1, ManagerLeavesTerminal
  <2>4. ASSUME NEW i \in Job \ {j}, AgentStep(i)
        PROVE  FALSE
    BY <2>4, AgentStepEffect DEF Effect, Others
  <2>5. CASE AgentStep(j)
    BY <2>5, WorkerLeavesTerminal
  <2>6. CASE \E i \in Job : TornDown(i)
    BY <2>1, <2>6 DEF TornDown, WorkerTornDown, TypeOK
  <2>7. CASE \E i \in Job : BuildHangs(i) \/ PushThread(i)
    BY <2>7 DEF BuildHangs, PushThread, vars
  <2> QED
    BY <2>2, <2>3, <2>4, <2>5, <2>6, <2>7 DEF AgentNext, vars
<1> QED
  BY <1>1, AgentInvariant, AgentImplementsManager, FreshWorkerIsRunning, PTL
     DEF AgentSpec, TerminalLeftOnlyByItsWorker

-----------------------------------------------------------------------------
(* What the channel was told.                                                *)

(* No outcome is among the events, or exactly one is, and it is s.            *)
SilentIn(e) == \A n \in 1 .. Len(e) : e[n].status \notin Finished
ToldIn(e, s) ==
  /\ s \in Finished
  /\ \E n \in 1 .. Len(e) :
       /\ e[n].status = s
       /\ \A m \in 1 .. Len(e) : e[m].status \in Finished => m = n

(* A Job reports its outcome as it begins to report, and before that none;     *)
(* what was reported when its worker has gone is what EventsTellTheOutcome     *)
(* says.                                                                     *)
GoneInv(j) ==
  IF status[j] = "Cancelled" \/ reason[j] = "internal-error"
  THEN SilentIn(events[j])
  ELSE ToldIn(events[j], status[j])

EventsInv ==
  \A j \in Job :
    /\ pc[j] = "reporting" =>
         ToldIn(events[j], status[j]) /\ reason[j] # "internal-error"
    /\ (j \in tasks /\ pc[j] # "reporting") \/ status[j] \in {"Absent", "Queued"} =>
         SilentIn(events[j])
    /\ status[j] \in Terminal /\ j \notin tasks /\ dispatcher # "stopped" => GoneInv(j)

(* An event that is no outcome keeps a silent list silent, an outcome is the    *)
(* one of it.                                                                *)
LEMMA AppendedEvent ==
  ASSUME NEW e \in Seq(JobEvent), SilentIn(e), NEW s \in Status,
         NEW b \in Job \union {NoJob}
  PROVE  LET f == Append(e, [status |-> s, branch |-> b])
         IN  IF s \in Finished THEN ToldIn(f, s) ELSE SilentIn(f)
<1> DEFINE f == Append(e, [status |-> s, branch |-> b])
<1>1. [status |-> s, branch |-> b] \in JobEvent
  BY DEF JobEvent
<1>2. /\ Len(e) \in Nat /\ Len(f) = Len(e) + 1 /\ f[Len(e) + 1].status = s
      /\ \A n \in 1 .. Len(e) : f[n] = e[n]
  BY <1>1, AppendProperties, LenProperties
<1> HIDE DEF f
<1>3. CASE s \in Finished
  <2>1. \A m \in 1 .. Len(f) : f[m].status \in Finished => m = Len(e) + 1
    BY <1>2 DEF SilentIn
  <2> QED
    BY <1>2, <1>3, <2>1 DEF ToldIn, f
<1>4. CASE s \notin Finished
  <2>1. SilentIn(f)
    BY <1>2, <1>4 DEF SilentIn
  <2> QED
    BY <1>4, <2>1 DEF f
<1> QED
  BY <1>3, <1>4

(* What a segment tells the channel, beside what it does to its worker.        *)
Tells(j, s) ==
  \E b \in Job \union {NoJob} :
    events'[j] = Append(events[j], [status |-> s, branch |-> b])

EventsEffect(j) ==
  /\ \A i \in Job \ {j} : events'[i] = events[i]
  /\ \/ Reports(j) /\ Tells(j, status'[j]) /\ pc[j] # "reporting"
     \/ Leaves(j) /\ Tells(j, "Cancelled") /\ status'[j] = "Cancelled"
          /\ pc[j] # "reporting"
     \/ Leaves(j) /\ events'[j] = events[j] /\ pc[j] = "reporting"
          /\ status'[j] = status[j] /\ reason'[j] = reason[j]
     \/ Leaves(j) /\ events'[j] = events[j] /\ pc[j] # "reporting"
          /\ (status'[j] = "Cancelled" \/ reason'[j] = "internal-error")
     \/ Continues(j) /\ events'[j] = events[j]
     \/ Enters(j) /\ Tells(j, "Running")
  /\ Reports(j) => reason'[j] # "internal-error"
  /\ Leaves(j) \/ Continues(j) \/ Enters(j) => pc'[j] # "reporting"
  /\ dispatcher' = dispatcher

LEMMA EmitTells ==
  ASSUME AgentTypeOK, NEW j \in Job, NEW s, NEW b \in Job \union {NoJob}, _emit(j, s, b)
  PROVE  /\ Tells(j, s)
         /\ \A i \in Job \ {j} : events'[i] = events[i]
BY DEF _emit, Tells, AgentTypeOK

LEMMA FailTells ==
  ASSUME AgentTypeOK, NEW j \in Job, NEW r, _fail(j, r), r # "internal-error",
         pc[j] # "reporting", dispatcher' = dispatcher
  PROVE  EventsEffect(j)
<1>1. Tells(j, "Failed") /\ \A i \in Job \ {j} : events'[i] = events[i]
  BY EmitTells DEF _fail, AgentTypeOK
<1>2. Reports(j) /\ reason'[j] = r /\ status'[j] = "Failed"
  BY FailEffect DEF _fail, AgentTypeOK, TypeOK
<1> QED
  BY <1>1, <1>2 DEF EventsEffect, Reports, Leaves, Continues, Enters, Waiting

LEMMA SucceedTells ==
  ASSUME AgentTypeOK, NEW j \in Job, NEW b \in Job \union {NoJob}, _succeed(j, b),
         reason[j] = "none", pc[j] # "reporting", dispatcher' = dispatcher
  PROVE  EventsEffect(j)
<1>1. Tells(j, "Succeeded") /\ \A i \in Job \ {j} : events'[i] = events[i]
  BY EmitTells DEF _succeed
<1>2. Reports(j) /\ reason'[j] = "none" /\ status'[j] = "Succeeded"
  BY SucceedEffect DEF _succeed, AgentTypeOK, TypeOK
<1> QED
  BY <1>1, <1>2 DEF EventsEffect, Reports, Leaves, Continues, Enters, Waiting

LEMMA FinishTells ==
  ASSUME AgentTypeOK, NEW j \in Job, _finish_cancelled(j), pc[j] # "reporting",
         dispatcher' = dispatcher
  PROVE  EventsEffect(j)
<1>1. Tells(j, "Cancelled") /\ \A i \in Job \ {j} : events'[i] = events[i]
  BY EmitTells DEF _finish_cancelled, AgentTypeOK
<1>2. Leaves(j) /\ status'[j] = "Cancelled"
  BY FinishEffect DEF _finish_cancelled, AgentTypeOK, TypeOK
<1> QED
  BY <1>1, <1>2 DEF EventsEffect, Reports, Leaves, Continues, Enters, Waiting

LEMMA AdvanceTells ==
  ASSUME AgentTypeOK, NEW j \in Job, NEW place \in Waiting \ {"reporting"},
         Advance(j, place), dispatcher' = dispatcher
  PROVE  EventsEffect(j)
<1>1. Continues(j) /\ pc'[j] = place
  BY AdvanceEffect
<1> QED
  BY <1>1 DEF Advance, EventsEffect, Reports, Leaves, Continues, Enters, Waiting

LEMMA UnlessCancelledTells ==
  ASSUME AgentTypeOK, NEW j \in Job, NEW place \in Waiting \ {"reporting"},
         UnlessCancelled(j, place), pc[j] # "reporting", dispatcher' = dispatcher
  PROVE  EventsEffect(j)
BY FinishTells, AdvanceTells DEF UnlessCancelled

LEMMA AgentStepTells ==
  ASSUME AInv, NEW j \in Job, AgentStep(j)
  PROVE  EventsEffect(j)
<1> USE DEF NotTheManager
<1>1. /\ AgentTypeOK /\ TypeOK /\ WorkerInv /\ AttemptsInv
      /\ BranchOf(j) \in Job \union {NoJob} /\ branch[j] \in Job \union {NoJob}
  BY DEF AInv, AgentTypeOK, BranchOf
<1>2. \A place \in {"announcing", "syncing", "generating", "building", "hung", "pushing"} :
        place \in Waiting \ {"reporting"}
  BY DEF Waiting
<1>3. "failed" # "internal-error" /\ "exhausted" # "internal-error"
  OBVIOUS
<1>4. CASE RunStarts(j)
  <2>1. Tells(j, "Running") /\ \A i \in Job \ {j} : events'[i] = events[i]
    BY <1>1, <1>4, EmitTells DEF RunStarts
  <2>2. Enters(j) /\ pc'[j] = "announcing" /\ dispatcher' = dispatcher
    BY <1>1, <1>4 DEF RunStarts, WorkerEnters, Goto, Enters, AgentTypeOK, TypeOK
  <2> QED
    BY <2>1, <2>2 DEF EventsEffect, Reports
<1>5. CASE Announced(j) \/ Synced(j)
  BY <1>1, <1>2, <1>3, <1>5, FailTells, UnlessCancelledTells DEF Announced, Synced
<1>6. CASE GenerationFails(j) \/ BuildTimesOut(j) \/ PushTimesOut(j)
  BY <1>1, <1>3, <1>6, FailTells DEF GenerationFails, BuildTimesOut, PushTimesOut
<1>7. CASE GeneratedMalformed(j) \/ Generated(j)
  BY <1>1, <1>2, <1>3, <1>7, FailTells, UnlessCancelledTells
     DEF GeneratedMalformed, Generated, PushUnlessCancelled
<1>8. CASE BuildCancelled(j)
  BY <1>1, <1>8, FinishTells DEF BuildCancelled
<1>9. CASE BuildSucceeds(j)
  BY <1>1, <1>2, <1>9, UnlessCancelledTells DEF BuildSucceeds, PushUnlessCancelled
<1>10. CASE BuildFails(j)
  BY <1>1, <1>2, <1>3, <1>10, FailTells, AdvanceTells DEF BuildFails
<1>11. CASE PushEnds(j)
  <2>1. reason[j] = "none"
    BY <1>1, <1>11 DEF PushEnds, AttemptsInv
  <2> QED
    BY <1>1, <1>3, <1>11, <2>1, FailTells, SucceedTells DEF PushEnds, PushResult
<1>12. CASE Reported(j)
  <2>1. Leaves(j) /\ status'[j] = status[j] /\ pc'[j] = "none"
    BY <1>1, <1>12 DEF Reported, WorkerReturns, ReleaseSlot, Goto, Leaves, AgentTypeOK, TypeOK,
       Terminal
  <2> QED
    BY <1>12, <2>1 DEF Reported, WorkerReturns, EventsEffect, Reports
<1>13. CASE RunRaises(j)
  <2>1. /\ pc[j] \in Waiting \ {"reporting"} /\ status[j] \in {"Running", "Cancelled"}
        /\ pc'[j] = "none" /\ j \notin tasks' /\ j \notin entered'
    BY <1>1, <1>13
       DEF RunRaises, WorkerRaises, ReleaseSlot, Goto, AgentTypeOK, TypeOK, WorkerInv, Waiting
  <2>2. /\ status'[j] = IF status[j] \in Terminal THEN status[j] ELSE "Failed"
        /\ status[j] \notin Terminal => reason'[j] = "internal-error"
    BY <1>1, <1>13 DEF RunRaises, WorkerRaises, AgentTypeOK, TypeOK
  <2>3. Leaves(j) /\ (status'[j] = "Cancelled" \/ reason'[j] = "internal-error")
    BY <2>1, <2>2 DEF Leaves, Terminal, Finished
  <2> QED
    BY <1>13, <2>1, <2>3 DEF RunRaises, WorkerRaises, EventsEffect, Reports, Waiting
<1> QED
  BY <1>4, <1>5, <1>6, <1>7, <1>8, <1>9, <1>10, <1>11, <1>12, <1>13 DEF AgentStep

LEMMA SegmentKeepsEvents ==
  ASSUME AInv, AInv', EventsInv, NEW j \in Job, Effect(j), EventsEffect(j)
  PROVE  EventsInv'
<1>1. /\ AgentTypeOK /\ TypeOK /\ WorkerInv /\ WorkerInv' /\ entered \subseteq tasks
      /\ events[j] \in Seq(JobEvent)
      /\ status'[j] \in Status
  BY DEF AInv, AgentTypeOK, TypeOK
<1>2. SilentIn(events[j]) \/ pc[j] = "reporting"
  <2>1. j \in tasks
    BY <1>1 DEF Effect, Enters, WorkerInv, Waiting
  <2> QED
    BY <2>1 DEF EventsInv
<1>3. /\ pc'[j] = "reporting" =>
           ToldIn(events'[j], status'[j]) /\ reason'[j] # "internal-error"
      /\ (j \in tasks' /\ pc'[j] # "reporting") \/ status'[j] \in {"Absent", "Queued"} =>
           SilentIn(events'[j])
      /\ status'[j] \in Terminal /\ j \notin tasks' /\ dispatcher' # "stopped" =>
           GoneInv(j)'
  <2> USE <1>1 DEF EventsEffect
  <2>1. ASSUME NEW s \in Status, Tells(j, s), pc[j] # "reporting"
        PROVE  IF s \in Finished THEN ToldIn(events'[j], s) ELSE SilentIn(events'[j])
    BY <1>2, <2>1, AppendedEvent DEF Tells
  <2>2. CASE Reports(j) /\ Tells(j, status'[j]) /\ pc[j] # "reporting"
    BY <2>1, <2>2 DEF Reports, GoneInv, Finished
  <2>3. CASE Leaves(j) /\ Tells(j, "Cancelled") /\ status'[j] = "Cancelled"
               /\ pc[j] # "reporting"
    <3>1. SilentIn(events'[j])
      BY <2>1, <2>3 DEF Finished, Status, Terminal
    <3> QED
      BY <2>3, <3>1 DEF Leaves, GoneInv
  <2>4. CASE Leaves(j) /\ events'[j] = events[j] /\ pc[j] = "reporting"
               /\ status'[j] = status[j] /\ reason'[j] = reason[j]
    <3>1. ToldIn(events'[j], status'[j]) /\ reason'[j] # "internal-error"
      BY <2>4 DEF EventsInv
    <3> QED
      BY <2>4, <3>1 DEF Leaves, GoneInv, ToldIn, Finished
  <2>5. CASE Leaves(j) /\ events'[j] = events[j] /\ pc[j] # "reporting"
               /\ (status'[j] = "Cancelled" \/ reason'[j] = "internal-error")
    BY <1>2, <2>5 DEF Leaves, GoneInv, Terminal, Finished
  <2>6. CASE Continues(j) /\ events'[j] = events[j]
    <3>1. pc[j] \in Waiting \ {"reporting"}
      BY <2>6 DEF Effect, Reports, Leaves, Continues, Enters, Waiting
    <3>2. SilentIn(events'[j]) /\ j \in tasks'
      BY <1>2, <2>6, <3>1 DEF Continues, WorkerInv, Waiting
    <3> QED
      BY <2>6, <3>2 DEF Continues, Terminal, Finished, WorkerInv, Waiting
  <2>7. CASE Enters(j) /\ Tells(j, "Running")
    <3>1. pc[j] # "reporting" /\ "Running" \in Status \ Finished
      BY <2>7 DEF Enters, WorkerInv, Waiting, Status, Finished, Terminal
    <3>2. SilentIn(events'[j])
      BY <2>1, <2>7, <3>1
    <3> QED
      BY <2>7, <3>1, <3>2 DEF Enters, Terminal, Finished
  <2> QED
    BY <2>2, <2>3, <2>4, <2>5, <2>6, <2>7
<1>4. \A i \in Job \ {j} :
        /\ status'[i] = status[i] /\ pc'[i] = pc[i] /\ reason'[i] = reason[i]
        /\ i \in tasks' <=> i \in tasks
        /\ events'[i] = events[i]
  BY DEF Effect, Others, EventsEffect
<1> QED
  BY <1>3, <1>4 DEF EventsInv, GoneInv, EventsEffect

(* The manager, the users and the thread of a push report no outcome: a Job    *)
(* that is created or promoted was silent and stays so.                        *)
LEMMA OthersKeepEvents ==
  ASSUME EventsInv, UNCHANGED <<pc, reason, events>>,
         dispatcher' # "stopped" => dispatcher # "stopped",
         \A i \in Job :
           \/ status'[i] = status[i] /\ (i \in tasks' <=> i \in tasks)
           \/ status[i] \in {"Absent", "Queued"} /\ status'[i] \in {"Queued", "Running"}
  PROVE  EventsInv'
<1> SUFFICES ASSUME NEW i \in Job
             PROVE  /\ pc'[i] = "reporting" =>
                         ToldIn(events'[i], status'[i]) /\ reason'[i] # "internal-error"
                    /\ (i \in tasks' /\ pc'[i] # "reporting")
                         \/ status'[i] \in {"Absent", "Queued"} => SilentIn(events'[i])
                    /\ status'[i] \in Terminal /\ i \notin tasks' /\ dispatcher' # "stopped"
                         => GoneInv(i)'
  BY DEF EventsInv
<1>1. CASE status'[i] = status[i] /\ (i \in tasks' <=> i \in tasks)
  BY <1>1 DEF EventsInv, GoneInv
<1>2. CASE status[i] \in {"Absent", "Queued"} /\ status'[i] \in {"Queued", "Running"}
  BY <1>2 DEF EventsInv, ToldIn, Terminal, Finished
<1> QED
  BY <1>1, <1>2

(* Cancelling a Queued Job is told but is no outcome; a Running one is silent.  *)
LEMMA CancelKeepsEvents ==
  ASSUME AInv, EventsInv, NEW j \in Job, on_cancel(j)
  PROVE  EventsInv'
<1>1. /\ AgentTypeOK /\ TypeOK /\ SlotAccounting
      /\ events[j] \in Seq(JobEvent) /\ branch[j] \in Job \union {NoJob}
  BY DEF AInv, IInv, AgentTypeOK
<1>2. /\ status[j] \in {"Queued", "Running"} /\ status'[j] = "Cancelled"
      /\ \A i \in Job \ {j} : status'[i] = status[i] /\ events'[i] = events[i]
      /\ UNCHANGED <<pc, reason, dispatcher, tasks>>
  BY <1>1 DEF on_cancel, cancel_queued, cancel_running, _emit, AgentTypeOK, TypeOK
<1>3. pc[j] # "reporting" /\ SilentIn(events[j])
  BY <1>1, <1>2 DEF EventsInv, ToldIn, Finished, SlotAccounting
<1>4. SilentIn(events'[j])
  <2>1. CASE _emit(j, "Cancelled", branch[j])
    <3>1. "Cancelled" \in Status \ Finished
      BY DEF Status, Terminal, Finished
    <3>2. events'[j] = Append(events[j], [status |-> "Cancelled", branch |-> branch[j]])
      BY <1>1, <2>1 DEF _emit, AgentTypeOK
    <3> QED
      BY <1>1, <1>3, <3>1, <3>2, AppendedEvent
  <2>2. CASE UNCHANGED events
    BY <1>3, <2>2
  <2> QED
    BY <2>1, <2>2 DEF on_cancel
<1> QED
  BY <1>2, <1>3, <1>4 DEF EventsInv, GoneInv

LEMMA NextKeepsEvents ==
  ASSUME AInv, AInv', EventsInv, [AgentNext]_allVars
  PROVE  EventsInv'
<1>1. AgentTypeOK /\ TypeOK /\ IInv /\ HeldInv /\ MintedInv /\ WorkerInv
  BY DEF AInv, IInv
<1>2. CASE UNCHANGED allVars
  BY <1>2, OthersKeepEvents DEF allVars, vars, agentVars
<1>3. CASE (start \/ stop \/ DispatchMustWait \/ DispatcherSleeps \/ DispatcherWakes)
             /\ UNCHANGED agentVars
  BY <1>3, OthersKeepEvents
     DEF start, stop, DispatchMustWait, DispatcherSleeps, DispatcherWakes, agentVars
<1>4. ASSUME NEW i \in Job, status[i] = "Queued", _spawn_worker(i), UNCHANGED agentVars,
             dispatcher' # "stopped" => dispatcher # "stopped"
      PROVE  EventsInv'
  BY <1>1, <1>4, OthersKeepEvents DEF _spawn_worker, TypeOK, agentVars
<1>5. CASE DispatchNow /\ UNCHANGED agentVars
  <2>1. PICK n \in 1 .. Len(queue) : PopsAt(n) /\ _spawn_worker(queue[n])
    BY <1>5 DEF DispatchNow
  <2>2. queue[n] \in Job
    BY <1>1, <2>1, LenProperties DEF TypeOK
  <2> QED
    BY <1>4, <1>5, <2>1, <2>2 DEF PopsAt, DispatchNow
<1>6. CASE SlotAcquired /\ UNCHANGED agentVars
  <2>1. held \in Job
    BY <1>1, <1>6 DEF SlotAcquired, HeldInv, TypeOK
  <2>2. CASE StillQueued(held)
    BY <1>4, <1>6, <2>1, <2>2 DEF SlotAcquired, StillQueued
  <2>3. CASE ~ StillQueued(held)
    BY <1>6, <2>3, OthersKeepEvents DEF SlotAcquired, agentVars
  <2> QED
    BY <2>2, <2>3
<1>7. CASE on_build \/ \E b \in Job : on_revise(b)
  <2>1. create_job /\ UNCHANGED <<pc, reason, events>>
    BY <1>7 DEF on_build, on_revise, create_revision
  <2>2. /\ nextSuffix \in Job /\ status[nextSuffix] = "Absent"
        /\ status' = [status EXCEPT ![nextSuffix] = "Queued"]
        /\ tasks' = tasks /\ dispatcher' = dispatcher
    BY <1>1, <2>1 DEF create_job, MintedInv, Job
  <2> QED
    BY <1>1, <2>1, <2>2, OthersKeepEvents DEF TypeOK
<1>8. ASSUME NEW j \in Job, AgentStep(j)
      PROVE  EventsInv'
  BY <1>8, AgentStepEffect, AgentStepTells, SegmentKeepsEvents
<1>9. ASSUME NEW j \in Job, BuildHangs(j)
      PROVE  EventsInv'
  <2>1. /\ pc[j] = "building" /\ pc'[j] = "hung"
        /\ \A i \in Job \ {j} : pc'[i] = pc[i]
    BY <1>1, <1>9 DEF BuildHangs, Goto, AgentTypeOK
  <2> QED
    BY <1>9, <2>1 DEF BuildHangs, vars, EventsInv, GoneInv
<1>10. ASSUME NEW j \in Job, PushThread(j)
       PROVE  EventsInv'
  BY <1>10, OthersKeepEvents DEF PushThread, vars
<1>11. ASSUME NEW j \in Job, TornDown(j)
       PROVE  EventsInv'
  <2>1. /\ pc'[j] = "none" /\ j \notin tasks' /\ dispatcher' = "stopped"
        /\ status'[j] \in Terminal /\ UNCHANGED <<reason, events>>
        /\ \A i \in Job \ {j} :
             /\ pc'[i] = pc[i] /\ status'[i] = status[i]
             /\ i \in tasks' <=> i \in tasks
    BY <1>1, <1>11
       DEF TornDown, WorkerTornDown, ReleaseSlot, Goto, AgentTypeOK, TypeOK, Terminal
  <2> QED
    BY <2>1 DEF EventsInv, GoneInv, Terminal, Finished
<1> QED
  BY <1>2, <1>3, <1>5, <1>6, <1>7, <1>8, <1>9, <1>10, <1>11, CancelKeepsEvents
     DEF AgentNext, DispatcherStep

(* What the agent records it reports, whatever happened to the Job: exactly one  *)
(* outcome, the one /status gives, and none for a Job that ended Cancelled.      *)
(* Of a Job the manager failed with internal-error nothing is said.             *)
THEOREM ChannelLearnsTheOutcome == AgentSpec => []EventsTellTheOutcome
<1>1. AgentInit => EventsInv
  <2> SUFFICES ASSUME AgentInit PROVE EventsInv
    OBVIOUS
  <2>1. SilentIn(<< >>)
    BY EmptySeq DEF SilentIn
  <2> QED
    BY <2>1 DEF AgentInit, Init, EventsInv, Terminal, Finished
<1>2. AInv /\ AInv' /\ EventsInv /\ [AgentNext]_allVars => EventsInv'
  BY NextKeepsEvents
<1>3. EventsInv => EventsTellTheOutcome
  <2> SUFFICES ASSUME EventsInv, NEW j \in Job, status[j] \in Terminal, j \notin tasks,
                      dispatcher # "stopped", reason[j] # "internal-error"
               PROVE  IF status[j] = "Cancelled" THEN OutcomesReported(j) = {}
                      ELSE \E n \in 1 .. Len(events[j]) :
                             OutcomesReported(j) = {n} /\ events[j][n].status = status[j]
    BY DEF EventsTellTheOutcome
  <2>1. GoneInv(j)
    BY DEF EventsInv
  <2>2. SilentIn(events[j]) => OutcomesReported(j) = {}
    BY DEF SilentIn, OutcomesReported
  <2>3. ToldIn(events[j], status[j]) =>
          \E n \in 1 .. Len(events[j]) :
            OutcomesReported(j) = {n} /\ events[j][n].status = status[j]
    BY DEF ToldIn, OutcomesReported
  <2> QED
    BY <2>1, <2>2, <2>3 DEF GoneInv
<1> QED
  BY <1>1, <1>2, <1>3, AgentInvariant, PTL DEF AgentSpec
-----------------------------------------------------------------------------
(* The table of Jobs.                                                        *)

(* An id that was not minted has no branch and no base.                       *)
AbsentInv == \A j \in Job : status[j] = "Absent" => branch[j] = NoJob /\ base[j] = NoJob

(* A segment gives its Job a branch only in reporting a success.               *)
LEMMA SegmentBranch ==
  ASSUME AInv, NEW j \in Job, AgentStep(j)
  PROVE  \/ branch' = branch
         \/ /\ branch' = [branch EXCEPT ![j] = BranchOf(j)]
            /\ status[j] \in {"Running", "Cancelled"} /\ status'[j] = "Succeeded"
<1>1. AgentTypeOK /\ TypeOK /\ WorkerInv
  BY DEF AInv, AgentTypeOK
<1>2. CASE PushEnds(j)
  <2>1. status[j] \in {"Running", "Cancelled"}
    BY <1>1, <1>2 DEF PushEnds, WorkerInv, Waiting
  <2>2. CASE thread[j] = "pushed" /\ _succeed(j, BranchOf(j))
    BY <1>1, <2>1, <2>2 DEF _succeed, TypeOK
  <2>3. CASE thread[j] = "unchanged" /\ _succeed(j, branch[j])
    BY <1>1, <2>3 DEF _succeed, AgentTypeOK
  <2> QED
    BY <1>2, <2>2, <2>3 DEF PushEnds, PushResult
<1> QED
  BY <1>2 DEF AgentStep, RunStarts, Announced, Synced, GenerationFails, GeneratedMalformed,
     Generated, BuildCancelled, BuildTimesOut, BuildSucceeds, BuildFails, PushTimesOut,
     Reported, RunRaises

(* No step but a command changes what a Job is based on, and none makes a minted *)
(* id absent again.                                                           *)
LEMMA NextKeepsAbsent ==
  ASSUME AInv, AInv', AbsentInv, [AgentNext]_allVars
  PROVE  AbsentInv'
<1> SUFFICES ASSUME NEW j \in Job, status'[j] = "Absent"
             PROVE  branch'[j] = NoJob /\ base'[j] = NoJob
  BY DEF AbsentInv
<1>1. /\ AgentTypeOK /\ TypeOK /\ MintedInv /\ MintedInv'
  BY DEF AInv, IInv, AgentTypeOK
<1>2. [Next]_vars
  BY AgentSimulatesManager
<1>3. nextSuffix' \in {nextSuffix, nextSuffix + 1}
  BY <1>2 DEF Next, vars, start, stop, create_job, create_revision, DispatcherStep, DispatchNow,
     DispatchMustWait, SlotAcquired, DispatcherSleeps, DispatcherWakes, cancel, cancel_queued,
     cancel_running, WorkerStep, WorkerEnters, WorkerReports, WorkerReturns, WorkerStops,
     WorkerRaises, WorkerTornDown
<1>4. j \in Int /\ nextSuffix \in Int
  BY <1>1 DEF TypeOK, Job
<1>5. status[j] = "Absent" /\ (j # nextSuffix \/ nextSuffix' = nextSuffix)
  BY <1>1, <1>3, <1>4 DEF MintedInv
<1>6. branch[j] = NoJob /\ base[j] = NoJob
  BY <1>5 DEF AbsentInv
<1>7. CASE UNCHANGED <<base, branch>>
  BY <1>6, <1>7
<1>8. ASSUME NEW b \in Job, on_revise(b)
      PROVE  branch'[j] = NoJob /\ base'[j] = NoJob
  <2>1. j # nextSuffix
    BY <1>4, <1>5, <1>8 DEF on_revise, create_revision, create_job
  <2> QED
    BY <1>1, <1>6, <1>8, <2>1 DEF on_revise, AgentTypeOK
<1>9. ASSUME NEW i \in Job, AgentStep(i)
      PROVE  branch'[j] = NoJob /\ base'[j] = NoJob
  <2>1. base' = base
    BY <1>9, AgentStepEffect DEF Effect
  <2>2. \/ branch' = branch
        \/ /\ branch' = [branch EXCEPT ![i] = BranchOf(i)]
           /\ status[i] \in {"Running", "Cancelled"}
    BY <1>9, SegmentBranch
  <2> QED
    BY <1>1, <1>5, <1>6, <2>1, <2>2 DEF AgentTypeOK
<1> QED
  BY <1>7, <1>8, <1>9
     DEF AgentNext, allVars, agentVars, on_build, on_cancel, BuildHangs, PushThread, TornDown

(* What an entry of the table says of its Job.                                 *)
LEMMA EntryOf ==
  ASSUME NEW j \in Job
  PROVE  /\ TableOfJobs[j].status = status[j] /\ TableOfJobs[j].base = base[j]
         /\ TableOfJobs[j].branch \in BOOLEAN /\ TableOfJobs[j].works \in BOOLEAN
         /\ TableOfJobs[j].branch <=> branch[j] # NoJob
         /\ TableOfJobs[j].works <=> HasItsSay(j)
<1> DEFINE has == HasItsSay(j)
           b == branch[j] # NoJob
<1>1. has \in BOOLEAN /\ b \in BOOLEAN
  BY DEF HasItsSay
<1>2. TableOfJobs[j] = [status |-> status[j], branch |-> b, base |-> base[j], works |-> has]
  BY DEF TableOfJobs
<1> HIDE DEF has, b
<1>3. /\ TableOfJobs[j].status = status[j] /\ TableOfJobs[j].base = base[j]
      /\ TableOfJobs[j].branch = b /\ TableOfJobs[j].works = has
  BY <1>2
<1> QED
  BY <1>1, <1>3 DEF has, b

(* The rest of the table, where a step touches one Job only.                   *)
OnlyJob(j) ==
  \A i \in Job \ {j} :
    /\ status'[i] = status[i] /\ branch'[i] = branch[i] /\ base'[i] = base[i]
    /\ i \in tasks' <=> i \in tasks

LEMMA EntriesAfter ==
  ASSUME NEW j \in Job, OnlyJob(j), NEW b \in BOOLEAN, b <=> branch'[j] # NoJob,
         NEW works \in BOOLEAN, works <=> HasItsSay(j)'
  PROVE  TableOfJobs' = [TableOfJobs EXCEPT ![j] = [status |-> status'[j], branch |-> b,
                                                   base |-> base'[j], works |-> works]]
<1> DEFINE entry == [status |-> status'[j], branch |-> b, base |-> base'[j], works |-> works]
<1>1. TableOfJobs'[j] = entry
  <2>1. (branch'[j] # NoJob) = b /\ HasItsSay(j)' = works
    BY DEF HasItsSay
  <2> QED
    BY <2>1 DEF TableOfJobs
<1>2. ASSUME NEW i \in Job \ {j}
      PROVE  TableOfJobs'[i] = TableOfJobs[i]
  <2>1. /\ status'[i] = status[i] /\ branch'[i] = branch[i] /\ base'[i] = base[i]
        /\ HasItsSay(i)' = HasItsSay(i)
    BY DEF OnlyJob, HasItsSay
  <2> QED
    BY <2>1 DEF TableOfJobs
<1>3. /\ TableOfJobs = [i \in Job |-> TableOfJobs[i]]
      /\ TableOfJobs' = [i \in Job |-> TableOfJobs'[i]]
  BY DEF TableOfJobs
<1> HIDE DEF entry
<1>4. TableOfJobs' = [TableOfJobs EXCEPT ![j] = entry]
  BY <1>1, <1>2, <1>3
<1> QED
  BY <1>4 DEF entry

LEMMA JobBecomes ==
  ASSUME NEW j \in Job, OnlyJob(j), base'[j] = base[j],
         NEW b \in BOOLEAN, b <=> branch'[j] # NoJob,
         NEW works \in BOOLEAN, works <=> HasItsSay(j)'
  PROVE  Table!Becomes(j, status'[j], b, works)
<1>1. TableOfJobs[j].base = base'[j]
  BY EntryOf
<1> QED
  BY <1>1, EntriesAfter DEF Table!Becomes

LEMMA TableStays ==
  ASSUME UNCHANGED <<status, branch, base>>,
         \A j \in Job : HasItsSay(j)' <=> HasItsSay(j)
  PROVE  UNCHANGED TableOfJobs
<1>1. \A j \in Job : HasItsSay(j)' = HasItsSay(j)
  BY DEF HasItsSay
<1>2. ASSUME NEW j \in Job
      PROVE  TableOfJobs'[j] = TableOfJobs[j]
  BY <1>1 DEF TableOfJobs
<1>3. /\ TableOfJobs = [i \in Job |-> TableOfJobs[i]]
      /\ TableOfJobs' = [i \in Job |-> TableOfJobs'[i]]
  BY DEF TableOfJobs
<1> QED
  BY <1>2, <1>3

(* /build and /revise, whose base is NoJob or can be revised.                  *)
LEMMA CommandIsAccepted ==
  ASSUME AInv, AbsentInv, create_job, NEW b \in Job \union {NoJob}, b # NoJob => Revisable(b),
         base' = [base EXCEPT ![nextSuffix] = b],
         branch' = [branch EXCEPT ![nextSuffix] = IF b = NoJob THEN NoJob ELSE branch[b]]
  PROVE  Table!TableNext
<1>0. /\ AgentTypeOK /\ TypeOK /\ MintedInv /\ TasksInv
      /\ nextSuffix \in Job /\ status[nextSuffix] = "Absent"
  BY DEF AInv, IInv, AgentTypeOK, create_job, MintedInv, Job
<1> PICK new \in Job : new = nextSuffix
  BY <1>0
<1>1. AgentTypeOK /\ TypeOK /\ MintedInv /\ TasksInv /\ status[new] = "Absent"
  BY <1>0
<1>2. /\ OnlyJob(new) /\ status'[new] = "Queued" /\ base'[new] = b
      /\ branch'[new] = IF b = NoJob THEN NoJob ELSE branch[b]
  BY <1>1 DEF create_job, OnlyJob, AgentTypeOK, TypeOK
<1>3. ~ HasItsSay(new)'
  BY <1>1 DEF create_job, HasItsSay, TasksInv
<1>4. PICK has \in BOOLEAN : has = (b # NoJob)
  OBVIOUS
<1>5. has <=> branch'[new] # NoJob
  BY <1>2, <1>4 DEF Revisable
<1>6. TableOfJobs' = [TableOfJobs EXCEPT ![new] = [status |-> "Queued", branch |-> has,
                                                  base |-> b, works |-> FALSE]]
  BY <1>1, <1>2, <1>3, <1>5, EntriesAfter
<1>7. ~ Table!Minted(new)
  BY <1>1, EntryOf DEF Table!Minted
<1>8. ASSUME NEW i \in 1 .. new - 1
      PROVE  Table!Minted(i)
  <2>1. i \in Job /\ status[i] # "Absent"
    BY <1>1, MaxJobsAssumption DEF MintedInv, Job
  <2> QED
    BY <2>1, EntryOf DEF Table!Minted
<1>9. b # NoJob => Table!Revisable(b)
  BY EntryOf DEF Table!Revisable, Revisable
<1>10. Table!Accepted(new, b)
  BY <1>4, <1>6, <1>7, <1>8, <1>9 DEF Table!Accepted, Table!NoBase, NoJob
<1> QED
  BY <1>1, <1>10 DEF Table!TableNext, Table!Job, Table!NoBase, Job, NoJob

(* The dispatcher gives a Queued Job its worker.                               *)
LEMMA SpawnIsPromoted ==
  ASSUME TypeOK, NEW j \in Job, status[j] = "Queued", _spawn_worker(j),
         UNCHANGED <<branch, base>>
  PROVE  Table!TableNext
<1>1. /\ OnlyJob(j) /\ status'[j] = "Running" /\ base'[j] = base[j] /\ branch'[j] = branch[j]
      /\ j \in tasks'
  BY DEF _spawn_worker, OnlyJob, TypeOK
<1>2. HasItsSay(j)'
  BY <1>1 DEF HasItsSay, Finished
<1>3. Table!Becomes(j, "Running", TableOfJobs[j].branch, TRUE)
  BY <1>1, <1>2, EntryOf, JobBecomes
<1>4. Table!Promoted(j)
  BY <1>3, EntryOf DEF Table!Promoted
<1> QED
  BY <1>4 DEF Table!TableNext, Table!Job, Job

LEMMA DispatcherIsTableStep ==
  ASSUME AInv, start \/ stop \/ DispatcherStep, UNCHANGED <<branch, base>>
  PROVE  Table!TableNext \/ UNCHANGED TableOfJobs
<1>0. TypeOK /\ HeldInv
  BY DEF AInv, IInv
<1>1. CASE UNCHANGED <<status, tasks>>
  BY <1>1, TableStays DEF HasItsSay
<1>2. CASE DispatchNow
  <2>1. PICK n \in 1 .. Len(queue) : PopsAt(n) /\ _spawn_worker(queue[n])
    BY <1>2 DEF DispatchNow
  <2>2. PICK j \in Job : j = queue[n]
    BY <1>0, <2>1, LenProperties DEF TypeOK
  <2>3. status[j] = "Queued" /\ _spawn_worker(j)
    BY <2>1, <2>2 DEF PopsAt, _spawn_worker
  <2> QED
    BY <1>0, <2>3, SpawnIsPromoted
<1>3. CASE SlotAcquired /\ StillQueued(held)
  <2>1. PICK j \in Job : j = held
    BY <1>0, <1>3 DEF SlotAcquired, HeldInv, TypeOK
  <2>2. status[j] = "Queued" /\ _spawn_worker(j)
    BY <1>3, <2>1 DEF SlotAcquired, StillQueued, _spawn_worker
  <2> QED
    BY <1>0, <2>2, SpawnIsPromoted
<1> QED
  BY <1>1, <1>2, <1>3
     DEF DispatcherStep, start, stop, DispatchMustWait, SlotAcquired, DispatcherSleeps,
         DispatcherWakes

LEMMA CancelIsTableStep ==
  ASSUME AInv, NEW j \in Job, on_cancel(j)
  PROVE  Table!TableNext
<1>1. /\ AgentTypeOK /\ TypeOK /\ TasksInv /\ SlotAccounting
  BY DEF AInv, IInv
<1>2. /\ status[j] \in {"Queued", "Running"} /\ status'[j] = "Cancelled"
      /\ OnlyJob(j) /\ UNCHANGED <<base, branch, tasks>>
  BY <1>1 DEF on_cancel, cancel_queued, cancel_running, OnlyJob, TypeOK
<1>3. HasItsSay(j)' <=> HasItsSay(j)
  BY <1>2 DEF HasItsSay, Finished
<1>4. Table!Becomes(j, "Cancelled", TableOfJobs[j].branch, TableOfJobs[j].works)
  BY <1>2, <1>3, EntryOf, JobBecomes
<1>5. Table!Cancelled(j)
  BY <1>2, <1>4, EntryOf DEF Table!Cancelled
<1> QED
  BY <1>5 DEF Table!TableNext, Table!Job, Job

(* A worker whose say is over; with a branch only after a success.              *)
LEMMA LeavingIsEnded ==
  ASSUME NEW j \in Job, HasItsSay(j), ~ HasItsSay(j)', OnlyJob(j), base' = base,
         \/ status'[j] \in {"Succeeded", "Failed", "Cancelled"} /\ branch'[j] = branch[j]
         \/ status'[j] = "Succeeded" /\ branch'[j] # NoJob
  PROVE  Table!TableNext
<1>1. PICK b \in BOOLEAN : b <=> branch'[j] # NoJob
  OBVIOUS
<1>2. Table!Becomes(j, status'[j], b, FALSE)
  BY <1>1, JobBecomes
<1>3. TableOfJobs[j].works
  BY EntryOf
<1>4. CASE status'[j] \in {"Failed", "Cancelled"}
  <2>1. b = TableOfJobs[j].branch
    BY <1>1, <1>4, EntryOf
  <2>2. Table!Ended(j)
    BY <1>2, <1>3, <1>4, <2>1 DEF Table!Ended
  <2> QED
    BY <2>2 DEF Table!TableNext, Table!Job, Job
<1>5. CASE status'[j] = "Succeeded"
  <2>1. b = (TableOfJobs[j].branch \/ b)
    BY <1>1, EntryOf
  <2>2. Table!Ended(j)
    BY <1>2, <1>3, <1>5, <2>1 DEF Table!Ended
  <2> QED
    BY <2>2 DEF Table!TableNext, Table!Job, Job
<1> QED
  BY <1>4, <1>5

(* A worker that is gone had its say, or has it with the status it leaves.       *)
LEMMA QuitIsTableStep ==
  ASSUME AInv, NEW j \in Job, j \in tasks, j \notin tasks', OnlyJob(j),
         UNCHANGED <<base, branch>>,
         IF status[j] \in Finished THEN status'[j] = status[j]
                                   ELSE status'[j] \in {"Failed", "Cancelled"},
         TypeOK'
  PROVE  Table!TableNext \/ UNCHANGED TableOfJobs
<1>1. ~ HasItsSay(j)'
  BY DEF HasItsSay
<1>2. CASE status[j] \in Finished
  <2>1. status' = status
    BY <1>2 DEF AInv, IInv, TypeOK, OnlyJob
  <2>2. \A i \in Job : HasItsSay(i)' <=> HasItsSay(i)
    BY <1>1, <1>2, <2>1 DEF HasItsSay, OnlyJob
  <2> QED
    BY <2>1, <2>2, TableStays
<1>3. CASE status[j] \notin Finished
  <2>1. HasItsSay(j)
    BY <1>3 DEF HasItsSay
  <2> QED
    BY <1>1, <1>3, <2>1, LeavingIsEnded
<1> QED
  BY <1>2, <1>3

LEMMA SegmentIsTableStep ==
  ASSUME AInv, AInv', FreshInv, NEW j \in Job, AgentStep(j)
  PROVE  Table!TableNext \/ UNCHANGED TableOfJobs
<1>1. /\ AgentTypeOK /\ TypeOK /\ TypeOK' /\ TasksInv /\ entered \subseteq tasks
      /\ status \in [Job -> Status]
  BY DEF AInv, IInv, TypeOK
<1>2. OnlyJob(j) /\ base' = base
  BY AgentStepEffect DEF Effect, Others, OnlyJob
<1>3. \/ branch' = branch
      \/ /\ branch' = [branch EXCEPT ![j] = BranchOf(j)]
         /\ status[j] \in {"Running", "Cancelled"} /\ status'[j] = "Succeeded"
  BY SegmentBranch
<1>4. CASE UNCHANGED vars
  BY <1>2, <1>3, <1>4, TableStays DEF vars, HasItsSay
<1>5. CASE WorkerEnters(j)
  <2>1. /\ j \in tasks /\ tasks' = tasks /\ branch' = branch
        /\ status[j] \in {"Running", "Cancelled"} /\ status'[j] = "Running"
    BY <1>1, <1>3, <1>5 DEF WorkerEnters, FreshInv
  <2>2. HasItsSay(j) /\ HasItsSay(j)'
    BY <2>1 DEF HasItsSay, Finished
  <2>3. CASE status[j] = "Cancelled"
    <3>1. Table!Becomes(j, "Running", TableOfJobs[j].branch, TRUE)
      BY <1>2, <2>1, <2>2, EntryOf, JobBecomes
    <3>2. Table!Begun(j)
      BY <2>2, <2>3, <3>1, EntryOf DEF Table!Begun
    <3> QED
      BY <3>2 DEF Table!TableNext, Table!Job, Job
  <2>4. CASE status[j] = "Running"
    <3>1. status' = status
      BY <1>1, <1>5, <2>4 DEF WorkerEnters
    <3> QED
      BY <1>2, <2>1, <3>1, TableStays DEF HasItsSay
  <2> QED
    BY <2>1, <2>3, <2>4
<1>6. CASE \E outcome \in Finished : WorkerReports(j, outcome)
  <2>1. j \in tasks /\ status[j] \in {"Running", "Cancelled"} /\ status'[j] \in Finished
    BY <1>1, <1>6 DEF WorkerReports
  <2>2. HasItsSay(j) /\ ~ HasItsSay(j)'
    BY <2>1 DEF HasItsSay, Finished
  <2>3. \/ branch'[j] = branch[j]
        \/ status'[j] = "Succeeded" /\ branch'[j] # NoJob
    <3>1. j # NoJob /\ branch \in [Job -> Job \union {NoJob}]
      BY <1>1 DEF AgentTypeOK, Job, NoJob
    <3>2. BranchOf(j) # NoJob \/ BranchOf(j) = branch[j]
      BY <3>1 DEF BranchOf
    <3> QED
      BY <1>3, <3>1, <3>2
  <2> QED
    BY <1>2, <2>1, <2>2, <2>3, LeavingIsEnded DEF Finished
<1>7. CASE WorkerReturns(j) \/ WorkerStops(j) \/ WorkerRaises(j)
  <2>1. j \in tasks /\ j \notin tasks' /\ status[j] \notin {"Absent", "Queued"}
    BY <1>1, <1>7 DEF WorkerReturns, WorkerStops, WorkerRaises, ReleaseSlot, TasksInv
  <2>2. branch' = branch
    BY <1>1, <1>3, <1>7 DEF WorkerReturns, WorkerStops, WorkerRaises, Terminal, Finished
  <2>3. status[j] \in Finished => status'[j] = status[j]
    BY WorkerLeavesTerminal DEF Terminal, Finished
  <2>4. status[j] \notin Finished => status'[j] \in {"Failed", "Cancelled"}
    BY <1>1, <1>7, <2>1 DEF WorkerReturns, WorkerStops, WorkerRaises, Terminal, Finished, Status
  <2> QED
    BY <1>1, <1>2, <2>1, <2>2, <2>3, <2>4, QuitIsTableStep
<1> QED
  BY <1>4, <1>5, <1>6, <1>7, AgentStepSimulates DEF WorkerStep

LEMMA NextIsTableStep ==
  ASSUME AInv, AInv', AbsentInv, FreshInv, [AgentNext]_allVars
  PROVE  Table!TableNext \/ UNCHANGED TableOfJobs
<1>1. CASE UNCHANGED <<status, branch, base, tasks>>
  BY <1>1, TableStays DEF HasItsSay
<1>2. CASE (start \/ stop \/ DispatcherStep) /\ UNCHANGED agentVars
  BY <1>2, DispatcherIsTableStep DEF agentVars
<1>3. CASE on_build
  <2>1. nextSuffix \in Job /\ branch[nextSuffix] = NoJob /\ base[nextSuffix] = NoJob
    BY <1>3 DEF on_build, create_job, AbsentInv, AInv, IInv, MintedInv, Job
  <2>2. /\ base' = [base EXCEPT ![nextSuffix] = NoJob]
        /\ branch' = [branch EXCEPT ![nextSuffix] = NoJob]
    BY <1>3, <2>1 DEF on_build, AInv, AgentTypeOK
  <2> QED
    BY <1>3, <2>2, CommandIsAccepted DEF on_build
<1>4. ASSUME NEW b \in Job, on_revise(b)
      PROVE  Table!TableNext
  <2>1. b # NoJob
    BY DEF Job, NoJob
  <2> QED
    BY <1>4, <2>1, CommandIsAccepted DEF on_revise, create_revision
<1>5. ASSUME NEW j \in Job, TornDown(j)
      PROVE  Table!TableNext \/ UNCHANGED TableOfJobs
  <2>1. TypeOK /\ TypeOK' /\ TasksInv /\ j \in tasks
    BY <1>5 DEF AInv, IInv, TypeOK, TornDown, WorkerTornDown
  <2>2. /\ OnlyJob(j) /\ j \notin tasks' /\ UNCHANGED <<base, branch>>
        /\ status'[j] = IF status[j] \in Terminal THEN status[j] ELSE "Cancelled"
    BY <1>5, <2>1 DEF TornDown, WorkerTornDown, ReleaseSlot, OnlyJob, TypeOK
  <2> QED
    BY <2>1, <2>2, QuitIsTableStep DEF Terminal
<1> QED
  BY <1>1, <1>2, <1>3, <1>4, <1>5, CancelIsTableStep, SegmentIsTableStep
     DEF AgentNext, allVars, agentVars, vars, BuildHangs, PushThread

(* What the commands see of the manager and its agents is a table of Jobs as      *)
(* JobTable.tla describes it (the status, branch and base the workers, /cancel    *)
(* and the teardown write).                                                    *)
THEOREM AgentImplementsJobTable == AgentSpec => ImplementsJobTable
<1>1. AgentInit => Table!TableInit /\ AbsentInv
  <2> SUFFICES ASSUME AgentInit PROVE Table!TableInit /\ AbsentInv
    OBVIOUS
  <2>1. ASSUME NEW j \in Job
        PROVE  TableOfJobs[j] = Table!NoEntry
    <3>1. /\ status[j] = "Absent" /\ base[j] = NoJob /\ (branch[j] # NoJob) = FALSE
          /\ HasItsSay(j) = FALSE
      BY DEF AgentInit, Init, HasItsSay
    <3> QED
      BY <3>1 DEF TableOfJobs, Table!NoEntry, Table!NoBase, NoJob
  <2>2. TableOfJobs = [j \in Job |-> TableOfJobs[j]]
    BY DEF TableOfJobs
  <2> QED
    BY <2>1, <2>2 DEF Table!TableInit, Table!Job, Job, AbsentInv, AgentInit
<1>2. AInv /\ AInv' /\ AbsentInv /\ [AgentNext]_allVars => AbsentInv'
  BY NextKeepsAbsent
<1>3. AInv /\ AInv' /\ AbsentInv /\ FreshInv /\ [AgentNext]_allVars =>
        [Table!TableNext]_TableOfJobs
  BY NextIsTableStep
<1> QED
  BY <1>1, <1>2, <1>3, AgentInvariant, AgentImplementsManager, FreshWorkerIsRunning, PTL
     DEF AgentSpec, ImplementsJobTable, Table!TableSpec

(* What every table of JobTable.tla has, with what the induction needs: a worker   *)
(* that may have its say is of a Job that runs or was cancelled, and ids are      *)
(* minted in order.                                                          *)
TableInv ==
  /\ Table!TableTypeOK
  /\ \A j \in Job : TableOfJobs[j].works => TableOfJobs[j].status \in {"Running", "Cancelled"}
  /\ \A j \in Job : Table!Minted(j) => \A i \in 1 .. j - 1 : Table!Minted(i)
  /\ Table!BasesAreRevisable

LEMMA BecomesKeepsTable ==
  ASSUME TableInv, NEW j \in Job, NEW s \in {"Running", "Cancelled", "Succeeded", "Failed"},
         NEW b \in BOOLEAN, NEW works \in BOOLEAN, Table!Becomes(j, s, b, works),
         works => s \in {"Running", "Cancelled"},
         Table!Minted(j), ~ Table!Revisable(j)
  PROVE  TableInv'
<1>1. /\ TableOfJobs \in [Job -> Table!Entry]
      /\ \A i \in Job : TableOfJobs[i] \in Table!Entry
  BY DEF TableInv, Table!TableTypeOK, Table!Job, Job
<1> DEFINE entry == [status |-> s, branch |-> b, base |-> TableOfJobs[j].base, works |-> works]
<1>2. TableOfJobs' = [TableOfJobs EXCEPT ![j] = entry]
  BY DEF Table!Becomes
<1>3. entry \in Table!Entry
  BY <1>1 DEF Table!Entry
<1>4. entry.base = TableOfJobs[j].base /\ entry.status = s /\ (entry.works => works)
  OBVIOUS
<1> HIDE DEF entry
<1>5. \A i \in Job : TableOfJobs'[i] = IF i = j THEN entry ELSE TableOfJobs[i]
  BY <1>1, <1>2
<1>6. Table!TableTypeOK'
  BY <1>1, <1>2, <1>3 DEF Table!TableTypeOK, Table!Job, Job
<1>7. Table!BasesAreRevisable'
  <2> SUFFICES ASSUME NEW i \in Job, TableOfJobs'[i].base # 0
               PROVE  /\ TableOfJobs'[i].base < i
                      /\ TableOfJobs'[TableOfJobs'[i].base].status = "Succeeded"
                      /\ TableOfJobs'[TableOfJobs'[i].base].branch
    BY DEF Table!BasesAreRevisable, Table!Revisable, Table!NoBase, Table!Job, Job
  <2>1. PICK k : k = TableOfJobs[i].base
    OBVIOUS
  <2>2. TableOfJobs'[i].base = k
    BY <1>4, <1>5, <2>1
  <2>3. k \in Job /\ k < i /\ Table!Revisable(k)
    BY <1>1, <2>1, <2>2
       DEF TableInv, Table!BasesAreRevisable, Table!NoBase, Table!Job, Job, Table!Entry
  <2>4. k # j
    BY <2>3
  <2>5. TableOfJobs'[k] = TableOfJobs[k]
    BY <1>5, <2>3, <2>4
  <2> QED
    BY <2>2, <2>3, <2>5 DEF Table!Revisable
<1>8. \A i \in Job : TableOfJobs'[i].works => TableOfJobs'[i].status \in {"Running", "Cancelled"}
  BY <1>4, <1>5 DEF TableInv
<1>9. \A i \in Job : Table!Minted(i)' <=> Table!Minted(i)
  BY <1>4, <1>5 DEF Table!Minted
<1>10. \A i \in Job : Table!Minted(i)' => \A k \in 1 .. i - 1 : Table!Minted(k)'
  <2> SUFFICES ASSUME NEW i \in Job, Table!Minted(i), NEW k \in 1 .. i - 1
               PROVE  Table!Minted(k)'
    BY <1>9
  <2>1. k \in Job /\ Table!Minted(k)
    BY MaxJobsAssumption DEF TableInv, Job
  <2> QED
    BY <1>9, <2>1
<1> QED
  BY <1>6, <1>7, <1>8, <1>10 DEF TableInv

LEMMA AcceptedKeepsTable ==
  ASSUME TableInv, NEW j \in Job, NEW b \in Job \union {NoJob}, Table!Accepted(j, b)
  PROVE  TableInv'
<1>1. /\ TableOfJobs \in [Job -> Table!Entry]
      /\ \A i \in Job : TableOfJobs[i] \in Table!Entry
  BY DEF TableInv, Table!TableTypeOK, Table!Job, Job
<1>2. PICK has \in BOOLEAN : has = (b # NoJob)
  OBVIOUS
<1> DEFINE entry == [status |-> "Queued", branch |-> has, base |-> b, works |-> FALSE]
<1>3. TableOfJobs' = [TableOfJobs EXCEPT ![j] = entry]
  BY <1>2 DEF Table!Accepted, Table!NoBase, NoJob
<1>4. entry \in Table!Entry
  BY DEF Table!Entry, Table!Job, Table!NoBase, Job, NoJob
<1>5. entry.base = b /\ ~ entry.works
  OBVIOUS
<1> HIDE DEF entry
<1>6. \A i \in Job : TableOfJobs'[i] = IF i = j THEN entry ELSE TableOfJobs[i]
  BY <1>1, <1>3
<1>7. Table!TableTypeOK'
  BY <1>1, <1>3, <1>4 DEF Table!TableTypeOK, Table!Job, Job
<1>8. /\ TableOfJobs[j].status = "Absent"
      /\ \A i \in 1 .. j - 1 : TableOfJobs[i].status # "Absent"
      /\ b # NoJob => Table!Revisable(b)
  BY DEF Table!Accepted, Table!Minted, Table!NoBase, NoJob
<1>9. j \in Int /\ \A i \in Job : i \in Int /\ (i > j => ~ Table!Minted(i))
  <2>1. \A i \in Job : i > j => j \in 1 .. i - 1
    BY MaxJobsAssumption DEF Job
  <2> QED
    BY <1>8, <2>1, MaxJobsAssumption DEF TableInv, Table!Minted, Job
<1>10. b # NoJob => b \in Job /\ b < j
  <2>1. b # NoJob => b \in Job /\ b # j /\ Table!Minted(b)
    BY <1>8 DEF Table!Revisable, Table!Minted
  <2> QED
    BY <1>9, <2>1
<1>11. ~ Table!Revisable(j)
  BY <1>8 DEF Table!Revisable
<1>12. Table!BasesAreRevisable'
  <2> SUFFICES ASSUME NEW i \in Job, TableOfJobs'[i].base # 0
               PROVE  /\ TableOfJobs'[i].base < i
                      /\ TableOfJobs'[TableOfJobs'[i].base].status = "Succeeded"
                      /\ TableOfJobs'[TableOfJobs'[i].base].branch
    BY DEF Table!BasesAreRevisable, Table!Revisable, Table!NoBase, Table!Job, Job
  <2>1. PICK k : k = TableOfJobs'[i].base
    OBVIOUS
  <2>2. k \in Job /\ k < i /\ Table!Revisable(k)
    <3>1. CASE i = j
      BY <1>5, <1>6, <1>8, <1>10, <2>1, <3>1 DEF NoJob
    <3>2. CASE i # j
      BY <1>1, <1>6, <2>1, <3>2
         DEF TableInv, Table!BasesAreRevisable, Table!NoBase, Table!Job, Job, Table!Entry
    <3> QED
      BY <3>1, <3>2
  <2>3. TableOfJobs'[k] = TableOfJobs[k]
    BY <1>6, <1>11, <2>2
  <2> QED
    BY <2>1, <2>2, <2>3 DEF Table!Revisable
<1>13. \A i \in Job : TableOfJobs'[i].works => TableOfJobs'[i].status \in {"Running", "Cancelled"}
  BY <1>5, <1>6 DEF TableInv
<1>14. \A i \in Job : Table!Minted(i)' <=> i = j \/ Table!Minted(i)
  <2>1. entry.status # "Absent"
    BY DEF entry
  <2> QED
    BY <1>6, <2>1 DEF Table!Minted
<1>15. \A i \in Job : Table!Minted(i)' => \A k \in 1 .. i - 1 : Table!Minted(k)'
  <2> SUFFICES ASSUME NEW i \in Job, Table!Minted(i) \/ i = j, NEW k \in 1 .. i - 1
               PROVE  Table!Minted(k)'
    BY <1>14
  <2>1. k \in Job
    BY MaxJobsAssumption DEF Job
  <2>2. Table!Minted(k)
    BY <1>8 DEF TableInv, Table!Minted
  <2> QED
    BY <1>14, <2>1, <2>2
<1> QED
  BY <1>7, <1>12, <1>13, <1>15 DEF TableInv

LEMMA StepKeepsTable == TableInv /\ [Table!TableNext]_TableOfJobs => TableInv'
<1> SUFFICES ASSUME TableInv, [Table!TableNext]_TableOfJobs
             PROVE  TableInv'
  OBVIOUS
<1> USE DEF Table!Job, Job, Table!NoBase, NoJob
<1>1. CASE UNCHANGED TableOfJobs
  BY <1>1 DEF TableInv, Table!TableTypeOK, Table!Minted, Table!BasesAreRevisable,
     Table!Revisable
<1>2. CASE Table!Forgotten
  <2>1. \A i \in Job : TableOfJobs'[i] = Table!NoEntry
    BY <1>2 DEF Table!Forgotten
  <2>2. Table!NoEntry \in Table!Entry
    BY DEF Table!NoEntry, Table!Entry
  <2>3. Table!TableTypeOK'
    BY <1>2, <2>2 DEF Table!Forgotten, Table!TableTypeOK
  <2>4. Table!NoEntry.base = 0 /\ ~ Table!NoEntry.works /\ Table!NoEntry.status = "Absent"
    BY DEF Table!NoEntry
  <2> QED
    BY <2>1, <2>3, <2>4 DEF TableInv, Table!BasesAreRevisable, Table!Minted
<1>3. ASSUME NEW j \in Job
      PROVE  TableOfJobs[j].branch \in BOOLEAN /\ TableOfJobs[j].works \in BOOLEAN
  BY DEF TableInv, Table!TableTypeOK, Table!Entry
<1>4. ASSUME NEW j \in Job, Table!Promoted(j) \/ Table!Cancelled(j) \/ Table!Begun(j)
      PROVE  TableInv'
  <2>1. TableOfJobs[j].status \in {"Queued", "Running", "Cancelled"}
    BY <1>4 DEF Table!Promoted, Table!Cancelled, Table!Begun
  <2>2. Table!Minted(j) /\ ~ Table!Revisable(j)
    BY <2>1 DEF Table!Minted, Table!Revisable
  <2> QED
    BY <1>3, <1>4, <2>2, BecomesKeepsTable
       DEF Table!Promoted, Table!Cancelled, Table!Begun
<1>5. ASSUME NEW j \in Job, Table!Ended(j)
      PROVE  TableInv'
  <2>1. TableOfJobs[j].works /\ TableOfJobs[j].status \notin {"Succeeded", "Absent"}
    BY <1>5 DEF Table!Ended, TableInv
  <2>2. Table!Minted(j) /\ ~ Table!Revisable(j)
    BY <2>1 DEF Table!Minted, Table!Revisable
  <2>3. ASSUME NEW changed \in BOOLEAN,
               Table!Becomes(j, "Succeeded", TableOfJobs[j].branch \/ changed, FALSE)
        PROVE  TableInv'
    <3>1. PICK b \in BOOLEAN : b = (TableOfJobs[j].branch \/ changed)
      OBVIOUS
    <3> QED
      BY <2>2, <2>3, <3>1, BecomesKeepsTable
  <2> QED
    BY <1>3, <1>5, <2>2, <2>3, BecomesKeepsTable DEF Table!Ended
<1> QED
  BY <1>1, <1>2, <1>4, <1>5, AcceptedKeepsTable DEF Table!TableNext

LEMMA StepKeepsFinal ==
  ASSUME TableInv, Table!TableNext, NEW j \in Job,
         TableOfJobs[j].status \in {"Succeeded", "Failed", "Cancelled"}, ~ TableOfJobs[j].works
  PROVE  TableOfJobs'[j] = TableOfJobs[j] \/ ~ Table!Minted(j)'
<1> USE DEF Table!Job, Job, Table!NoBase, NoJob
<1>1. ASSUME NEW i \in Job \ {j}, NEW entry, TableOfJobs' = [TableOfJobs EXCEPT ![i] = entry]
      PROVE  TableOfJobs'[j] = TableOfJobs[j]
  BY <1>1 DEF TableInv, Table!TableTypeOK
<1>2. CASE Table!Forgotten
  BY <1>2 DEF Table!Forgotten, Table!NoEntry, Table!Minted
<1>3. ASSUME NEW i \in Job, NEW b \in Job \union {NoJob}, Table!Accepted(i, b)
      PROVE  TableOfJobs'[j] = TableOfJobs[j]
  <2>1. i # j
    BY <1>3 DEF Table!Accepted, Table!Minted
  <2> QED
    BY <1>1, <1>3, <2>1 DEF Table!Accepted
<1>4. ASSUME NEW i \in Job,
             \/ Table!Promoted(i) \/ Table!Cancelled(i) \/ Table!Begun(i) \/ Table!Ended(i)
      PROVE  TableOfJobs'[j] = TableOfJobs[j]
  <2>1. i # j
    BY <1>4 DEF Table!Promoted, Table!Cancelled, Table!Begun, Table!Ended
  <2> QED
    BY <1>1, <1>4, <2>1
       DEF Table!Promoted, Table!Cancelled, Table!Begun, Table!Ended, Table!Becomes
<1> QED
  BY <1>2, <1>3, <1>4 DEF Table!TableNext

LEMMA InitTable == Table!TableInit => TableInv
<1> SUFFICES ASSUME Table!TableInit PROVE TableInv
  OBVIOUS
<1> USE DEF Table!Job, Job, Table!NoBase, NoJob
<1>1. \A i \in Job : TableOfJobs[i] = Table!NoEntry
  BY DEF Table!TableInit
<1>2. Table!NoEntry \in Table!Entry
  BY DEF Table!NoEntry, Table!Entry
<1>3. Table!TableTypeOK
  BY <1>2 DEF Table!TableInit, Table!TableTypeOK
<1>4. Table!NoEntry.base = 0 /\ ~ Table!NoEntry.works /\ Table!NoEntry.status = "Absent"
  BY DEF Table!NoEntry
<1> QED
  BY <1>1, <1>3, <1>4 DEF TableInv, Table!BasesAreRevisable, Table!Minted

LEMMA TableInvariant == ImplementsJobTable => []TableInv
<1> QED
  BY InitTable, StepKeepsTable, PTL DEF ImplementsJobTable, Table!TableSpec

(* What a revision is based on was minted before it, succeeded and has a branch, for *)
(* as long as the revision exists: revisions form no cycle, and no worker, no      *)
(* cancellation and no teardown takes the base's success back.                  *)
THEOREM RevisionsKeepTheirBase == AgentSpec => []Table!BasesAreRevisable
<1>1. TableInv => Table!BasesAreRevisable
  BY DEF TableInv
<1> QED
  BY <1>1, AgentImplementsJobTable, TableInvariant, PTL

(* Once no worker may have its say, the whole answer of /status, the branch         *)
(* included, stays what it is: Succeeded, Failed and Cancelled alike.             *)
THEOREM AnswersAreForGood == AgentSpec => Table!FinalForGood
<1>1. TableInv /\ [Table!TableNext]_TableOfJobs => [Table!KeepsAnswers]_TableOfJobs
  BY StepKeepsFinal DEF Table!KeepsAnswers, Table!Job, Job
<1> QED
  BY <1>1, AgentImplementsJobTable, TableInvariant, PTL
     DEF ImplementsJobTable, Table!TableSpec, Table!FinalForGood
-----------------------------------------------------------------------------
(* Why a slot whose Job was told to stop comes back (SignalledSlotIsFreed): the     *)
(* part that is not about time.                                               *)

(* A worker waits for nothing that cannot end: it has not started yet, its wait has *)
(* a result or a timeout of its own, or its build hangs.                        *)
WorkerCanMove ==
  \A j \in tasks :
    \/ j \notin entered
    \/ pc[j] \in {"announcing", "syncing", "generating", "building", "hung"}
    \/ pc[j] = "pushing" /\ thread[j] # "none"
    \/ pc[j] = "reporting" /\ status[j] \in Finished

(* Every segment of a worker that was told to stop brings it closer to its end.    *)
StepsLeft(j) ==
  CASE j \notin entered -> 3
    [] j \in entered /\ pc[j] # "reporting" -> 2
    [] j \in entered /\ pc[j] = "reporting" -> 1

HurriesToTheEnd ==
  \A j \in Job :
    token[j] = "set" /\ AgentStep(j) => token'[j] = "none" \/ StepsLeft(j)' < StepsLeft(j)

(* Where a worker that has started can be.                                     *)
PlaceInv ==
  \A j \in Job :
    /\ j \in entered => pc[j] # "none"
    /\ pc[j] = "pushing" => thread[j] # "none"
    /\ pc[j] = "reporting" => status[j] \in Finished

LEMMA SegmentPushes ==
  ASSUME AInv, NEW j \in Job, AgentStep(j), pc'[j] = "pushing"
  PROVE  thread'[j] # "none" \/ (pc[j] = "pushing" /\ thread'[j] = thread[j])
<1>1. AgentTypeOK
  BY DEF AInv
<1>2. \A place : UnlessCancelled(j, place) => pc'[j] \in {"none", place}
  BY <1>1, FinishEffect DEF UnlessCancelled, Advance, Goto, Leaves, AgentTypeOK
<1>3. \A r : ~ _fail(j, r)
  BY <1>1, FailEffect DEF Reports
<1>4. \A b : ~ _succeed(j, b)
  BY <1>1, SucceedEffect DEF Reports
<1>5. ~ _finish_cancelled(j)
  BY <1>1, FinishEffect DEF Leaves
<1>6. PushUnlessCancelled(j) => thread'[j] = "running"
  <2>1. _is_cancelled(j) => ~ UnlessCancelled(j, "pushing")
    BY <1>5 DEF UnlessCancelled
  <2> QED
    BY <1>1, <2>1 DEF PushUnlessCancelled, AgentTypeOK
<1>7. ~ Advance(j, "generating")
  BY <1>1 DEF Advance, Goto, AgentTypeOK
<1>8. CASE RunStarts(j) \/ Reported(j) \/ RunRaises(j)
  BY <1>1, <1>8 DEF RunStarts, Reported, RunRaises, Goto, AgentTypeOK
<1>9. CASE Announced(j) \/ Synced(j) \/ GeneratedMalformed(j) \/ Generated(j)
  BY <1>2, <1>3, <1>6, <1>9 DEF Announced, Synced, GeneratedMalformed, Generated
<1>10. CASE BuildCancelled(j) \/ BuildTimesOut(j) \/ BuildSucceeds(j) \/ BuildFails(j)
  BY <1>3, <1>5, <1>6, <1>7, <1>10 DEF BuildCancelled, BuildTimesOut, BuildSucceeds, BuildFails
<1>11. CASE GenerationFails(j) \/ PushEnds(j) \/ PushTimesOut(j)
  BY <1>3, <1>4, <1>11 DEF GenerationFails, PushEnds, PushResult, PushTimesOut
<1> QED
  BY <1>8, <1>9, <1>10, <1>11 DEF AgentStep

LEMMA OthersKeepPlace ==
  ASSUME AInv, PlaceInv, UNCHANGED <<pc, thread>>, entered' \subseteq entered,
         \A i \in Job : status[i] \in Finished => status'[i] = status[i]
  PROVE  PlaceInv'
BY DEF PlaceInv

LEMMA NextKeepsPlace ==
  ASSUME AInv, PlaceInv, [AgentNext]_allVars
  PROVE  PlaceInv'
<1>1. /\ AgentTypeOK /\ TypeOK /\ TasksInv /\ MintedInv /\ HeldInv /\ WorkerInv
      /\ status \in [Job -> Status]
  BY DEF AInv, IInv, AgentTypeOK, TypeOK
<1>2. CASE UNCHANGED allVars
  BY <1>2, OthersKeepPlace DEF allVars, vars, agentVars
<1>3. CASE on_build \/ \E b \in Job : on_revise(b)
  <2>1. create_job /\ UNCHANGED <<pc, thread>>
    BY <1>3 DEF on_build, on_revise, create_revision
  <2>2. nextSuffix \in Job /\ status[nextSuffix] = "Absent"
    BY <1>1, <2>1 DEF create_job, MintedInv, Job
  <2> QED
    BY <1>1, <2>1, <2>2, OthersKeepPlace DEF create_job, Finished
<1>4. CASE (start \/ stop \/ DispatcherStep) /\ UNCHANGED agentVars
  <2>1. ASSUME NEW i \in Job, status[i] = "Queued", _spawn_worker(i), entered' = entered
        PROVE  PlaceInv'
    BY <1>1, <1>4, <2>1, OthersKeepPlace DEF _spawn_worker, agentVars, Finished
  <2>2. CASE DispatchNow
    BY <1>1, <2>1, <2>2, LenProperties DEF DispatchNow, PopsAt, TypeOK
  <2>3. CASE SlotAcquired /\ StillQueued(held)
    <3>1. held \in Job
      BY <1>1, <2>3 DEF SlotAcquired, HeldInv, TypeOK
    <3> QED
      BY <2>1, <2>3, <3>1 DEF SlotAcquired, StillQueued
  <2>4. CASE UNCHANGED <<status, entered>>
    BY <1>4, <2>4, OthersKeepPlace DEF agentVars
  <2> QED
    BY <1>4, <2>2, <2>3, <2>4
       DEF start, stop, DispatcherStep, DispatchMustWait, SlotAcquired, DispatcherSleeps,
           DispatcherWakes
<1>5. CASE \E i \in Job : on_cancel(i)
  <2>1. PICK i \in Job : on_cancel(i)
    BY <1>5
  <2>2. /\ UNCHANGED <<pc, thread, entered>> /\ status[i] \in {"Queued", "Running"}
        /\ status' = [status EXCEPT ![i] = "Cancelled"]
    BY <2>1 DEF on_cancel, cancel_queued, cancel_running
  <2> QED
    BY <1>1, <2>2, OthersKeepPlace DEF Finished
<1>6. ASSUME NEW j \in Job, AgentStep(j)
      PROVE  PlaceInv'
  <2>1. Effect(j)
    BY <1>6, AgentStepEffect
  <2> SUFFICES ASSUME NEW i \in Job
               PROVE  /\ i \in entered' => pc'[i] # "none"
                      /\ pc'[i] = "pushing" => thread'[i] # "none"
                      /\ pc'[i] = "reporting" => status'[i] \in Finished
    BY DEF PlaceInv
  <2>2. CASE i # j
    BY <2>1, <2>2 DEF Effect, Others, PlaceInv
  <2>3. CASE i = j
    <3>1. pc'[j] = "pushing" => thread'[j] # "none"
      BY <1>6, SegmentPushes DEF PlaceInv
    <3>2. j \in entered' => pc'[j] # "none"
      BY <2>1 DEF Effect, Reports, Leaves, Continues, Enters, Waiting
    <3>3. pc'[j] = "reporting" => status'[j] \in Finished
      BY <2>1 DEF Effect, Reports, Leaves, Continues, Enters
    <3> QED
      BY <2>3, <3>1, <3>2, <3>3
  <2> QED
    BY <2>2, <2>3
<1>7. CASE \E j \in Job : BuildHangs(j) \/ PushThread(j)
  <2>1. PICK j \in Job : BuildHangs(j) \/ PushThread(j)
    BY <1>7
  <2>2. /\ UNCHANGED <<entered, status>>
        /\ pc' = pc \/ (pc' = [pc EXCEPT ![j] = "hung"] /\ thread' = thread)
        /\ thread' = thread \/ \E r \in {"pushed", "unchanged", "refused", "broken"} :
                                 thread' = [thread EXCEPT ![j] = r]
    BY <2>1 DEF BuildHangs, PushThread, Goto, vars
  <2> QED
    BY <1>1, <2>2 DEF PlaceInv, AgentTypeOK
<1>8. CASE \E j \in Job : TornDown(j)
  <2>1. PICK j \in Job : TornDown(j)
    BY <1>8
  <2>2. /\ pc' = [pc EXCEPT ![j] = "none"] /\ thread' = thread
        /\ entered' = entered \ {j}
        /\ \A i \in Job \ {j} : status'[i] = status[i]
    BY <1>1, <2>1 DEF TornDown, WorkerTornDown, ReleaseSlot, Goto
  <2> QED
    BY <1>1, <2>2 DEF PlaceInv, AgentTypeOK
<1> QED
  BY <1>2, <1>3, <1>4, <1>5, <1>6, <1>7, <1>8 DEF AgentNext

LEMMA SignalledHurries ==
  ASSUME AInv, NEW j \in Job, token[j] = "set", AgentStep(j)
  PROVE  token'[j] = "none" \/ StepsLeft(j)' < StepsLeft(j)
<1>1. AgentTypeOK /\ TypeOK /\ _is_cancelled(j) /\ WorkerInv
  BY DEF AInv, AgentTypeOK, _is_cancelled
<1>2. ReleaseSlot(j) => token'[j] = "none"
  BY <1>1 DEF ReleaseSlot, TypeOK
<1>3. \A place : UnlessCancelled(j, place) => token'[j] = "none"
  BY <1>1, <1>2 DEF UnlessCancelled, _finish_cancelled
<1>4. ASSUME pc[j] \in Waiting \ {"reporting"}, pc'[j] = "reporting", entered' = entered
      PROVE  StepsLeft(j)' < StepsLeft(j)
  BY <1>1, <1>4 DEF WorkerInv, StepsLeft, Waiting
<1>5. \A r : _fail(j, r) /\ pc[j] \in Waiting \ {"reporting"} =>
        StepsLeft(j)' < StepsLeft(j)
  BY <1>1, <1>4, FailEffect DEF Reports
<1>6. \A b : _succeed(j, b) /\ pc[j] \in Waiting \ {"reporting"} =>
        StepsLeft(j)' < StepsLeft(j)
  BY <1>1, <1>4, SucceedEffect DEF Reports
<1>7. {"announcing", "syncing", "generating", "building", "pushing"}
        \subseteq Waiting \ {"reporting"}
  BY DEF Waiting
<1>8. CASE RunStarts(j)
  <2>1. j \notin entered /\ j \in entered' /\ pc'[j] = "announcing"
    BY <1>1, <1>8 DEF RunStarts, WorkerEnters, Goto, AgentTypeOK
  <2> QED
    BY <2>1 DEF StepsLeft
<1>9. CASE Announced(j) \/ Synced(j) \/ GeneratedMalformed(j) \/ Generated(j)
  BY <1>3, <1>5, <1>7, <1>9
  DEF Announced, Synced, GeneratedMalformed, Generated, PushUnlessCancelled
<1>10. CASE BuildCancelled(j)
  BY <1>2, <1>10 DEF BuildCancelled, _finish_cancelled
<1>11. CASE GenerationFails(j) \/ PushEnds(j) \/ PushTimesOut(j)
  BY <1>5, <1>6, <1>7, <1>11 DEF GenerationFails, PushEnds, PushResult, PushTimesOut
<1>12. CASE Reported(j) \/ RunRaises(j)
  BY <1>2, <1>12 DEF Reported, RunRaises, WorkerReturns, WorkerRaises
<1> QED
  BY <1>1, <1>8, <1>9, <1>10, <1>11, <1>12
     DEF AgentStep, BuildTimesOut, BuildSucceeds, BuildFails

(* SignalledSlotIsFreed without the fairness: no worker is stuck but in a hung       *)
(* build, and one that was told to stop needs at most three segments to give its     *)
(* slot back, for any number of attempts it had left.                            *)
THEOREM SignalledWorkerEnds == AgentSpec => []WorkerCanMove /\ [][HurriesToTheEnd]_allVars
<1>1. AgentInit => PlaceInv
  BY DEF AgentInit, Init, PlaceInv
<1>2. AInv /\ PlaceInv /\ [AgentNext]_allVars => PlaceInv'
  BY NextKeepsPlace
<1>3. AInv /\ PlaceInv => WorkerCanMove
  <2> SUFFICES ASSUME AInv, PlaceInv, NEW j \in tasks, j \in entered
               PROVE  \/ pc[j] \in {"announcing", "syncing", "generating", "building", "hung"}
                      \/ pc[j] = "pushing" /\ thread[j] # "none"
                      \/ pc[j] = "reporting" /\ status[j] \in Finished
    BY DEF WorkerCanMove
  <2>1. j \in Job /\ pc[j] \in Waiting \union {"none"}
    BY DEF AInv, AgentTypeOK, TypeOK
  <2> QED
    BY <2>1 DEF PlaceInv, Waiting
<1>4. AInv /\ [AgentNext]_allVars => [HurriesToTheEnd]_allVars
  BY SignalledHurries DEF HurriesToTheEnd
<1> QED
  BY <1>1, <1>2, <1>3, <1>4, AgentInvariant, PTL DEF AgentSpec
=============================================================================
