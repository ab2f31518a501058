--------------------------- MODULE DiscordBotProofs ---------------------------
(***************************************************************************)
(* The gate comes first, the commands leave the registry what                  *)
(* TargetRegistry.tla says it is, a Job works on the target it was asked for, and *)
(* the table the commands see is that of JobTable.tla: for every set of names and  *)
(* every number of Jobs.                                                      *)
(***************************************************************************)
EXTENDS DiscordBot, TargetRegistryProofs

(* Design.md's Property 1 holds of the replies of every handler in every state;   *)
(* of /build and /revise nothing is said while the model is not available.       *)
THEOREM GateIsFirst == BotSpec => []GateComesFirst
<1>1. ASSUME NEW c, NEW admin, ~ Allowed(c, admin)
      PROVE  \A reply : _gate(c, admin, reply) = Denial(c)
  BY <1>1 DEF _gate
<1>2. GateComesFirst
  <2>1. ASSUME NEW c \in Caller, ~ Allowed(c, FALSE)
        PROVE  /\ \A id : StatusReply(c, id) = Denial(c) /\ CancelReply(c, id) = Denial(c)
               /\ TargetsReply(c) = Denial(c)
    BY <1>1, <2>1 DEF StatusReply, CancelReply, TargetsReply
  <2>2. ASSUME NEW c \in Caller, ~ Allowed(c, FALSE), available
        PROVE  /\ \A typed, idea : BuildReply(c, typed, idea) = Denial(c)
               /\ \A id, feedback : ReviseReply(c, id, feedback) = Denial(c)
    BY <1>1, <2>2 DEF BuildReply, ReviseReply, WhileAvailable
  <2>3. ASSUME NEW c \in Caller, ~ Allowed(c, TRUE)
        PROVE  \A name, text, path : AddTargetReply(c, name, text, path) = Denial(c)
    BY <1>1, <2>3 DEF AddTargetReply
  <2> QED
    BY <2>1, <2>2, <2>3 DEF GateComesFirst
<1> QED
  BY <1>2, PTL

-----------------------------------------------------------------------------
(* The registry under the commands.                                          *)

(* /addtarget adds as TargetRegistry.tla does, and nothing else touches it.     *)
THEOREM BotImplementsRegistry == BotSpec => RegistrySpec
<1>1. BotInit => RegistryInit
  BY DEF BotInit
<1>2. [BotNext]_botVars => [RegistryNext]_registryVars
  <2> SUFFICES ASSUME BotNext PROVE RegistryNext \/ UNCHANGED registryVars
    BY DEF botVars
  <2>1. CASE \E c \in Caller, e \in Entry, text \in NameText, path \in Path :
               on_addtarget(c, e, text, path)
    BY <2>1 DEF on_addtarget, RegistryNext
  <2>2. CASE \E c \in Caller :
               \/ \E typed \in Name \union {NoName}, idea \in Text : on_build(c, typed, idea)
               \/ \E id \in JobId, feedback \in Text : on_revise(c, id, feedback)
               \/ \E id \in JobId : on_cancel(c, id)
    BY <2>2 DEF on_build, on_revise, on_cancel, Creates
  <2>3. CASE \/ ModelConfirmed
             \/ \E j \in 1 .. Len(jobs) :
                  JobStarts(j) \/ WorkerEnters(j) \/ _resolve_target(j) \/ _finish_cancelled(j)
                    \/ JobEnds(j)
    BY <2>3
    DEF JobStarts, WorkerEnters, _resolve_target, _finish_cancelled, JobEnds, WorkerStep,
        ModelConfirmed
  <2>4. CASE BotCrash \/ RegistryStep
    BY <2>4 DEF BotCrash, RegistryStep, RegistryNext
  <2> QED
    BY <2>1, <2>2, <2>3, <2>4 DEF BotNext
<1> QED
  BY <1>1, <1>2, PTL DEF BotSpec, RegistrySpec

-----------------------------------------------------------------------------
(* The targets of Jobs.                                                      *)

(* What makes a name lead to the same entry for as long as the process runs: a  *)
(* usable name is known, so it is never registered again, and no Job is older    *)
(* than the process.  Of a Job, that a worker has its say only while it runs or    *)
(* was cancelled running, and that what it revises can be revised.              *)
WorkerHasItsSay(job) ==
  /\ job.worker # "none" => job.status \in {"Running", "Cancelled"}
  /\ job.status = "Running" => job.worker # "none"

CanBeRevised(job) == job.status = "Succeeded" /\ job.branch

TargetsInv ==
  /\ BotTypeOK
  /\ \A n \in Name : usable[n] # NoEntry => n \in known
  /\ ~ up => jobs = << >>
  /\ \A j \in 1 .. Len(jobs) :
       /\ WorkerHasItsSay(jobs[j])
       /\ jobs[j].base < j
       /\ jobs[j].base # 0 => CanBeRevised(jobs[jobs[j].base])
  /\ JobKeepsItsTarget

LEMMA NoJobsAreTyped ==
  ASSUME NEW none, none = << >>
  PROVE  none \in Seq(Job) /\ Len(none) = 0 /\ Len(none) <= MaxJobs
<1>1. MaxJobs \in Nat
  BY BotAssumption
<1> QED
  BY <1>1, EmptySeq

LEMMA InitTargetsInv == BotInit => TargetsInv
<1> SUFFICES ASSUME BotInit PROVE TargetsInv
  OBVIOUS
<1>1. RegistryTypeOK
  BY InitRInv DEF BotInit, RInv
<1>2. jobs \in Seq(Job) /\ Len(jobs) = 0 /\ Len(jobs) <= MaxJobs
  BY NoJobsAreTyped DEF BotInit
<1>3. BotTypeOK
  BY <1>1, <1>2 DEF BotInit, BotTypeOK
<1>4. \A n \in Name : usable[n] = NoEntry
  BY DEF BotInit, RegistryInit, NoMemory
<1>5. 1 .. Len(jobs) = {}
  BY <1>2
<1> QED
  BY <1>3, <1>4, <1>5 DEF BotInit, TargetsInv, JobKeepsItsTarget

LEMMA JobsAreJobs ==
  ASSUME BotTypeOK
  PROVE  /\ Len(jobs) \in Nat
         /\ \A j \in 1 .. Len(jobs) : jobs[j] \in Job /\ jobs[j].base \in Nat
<1>1. Len(jobs) \in Nat /\ \A j \in 1 .. Len(jobs) : jobs[j] \in Job
  BY LenProperties, ElementOfSeq DEF BotTypeOK
<1>2. \A job \in Job : job.base \in Nat
  BY BotAssumption DEF Job
<1> QED
  BY <1>1, <1>2

(* Only the registry moves: names that were usable lead where they did.        *)
LEMMA RegistryMoves ==
  ASSUME TargetsInv, RegistryTypeOK', UNCHANGED <<available, jobs>>, up => up',
         \A n \in Name : usable[n] # NoEntry => usable'[n] = usable[n],
         \A n \in Name : usable'[n] # NoEntry => n \in known'
  PROVE  TargetsInv'
<1>1. \A j \in 1 .. Len(jobs) :
        /\ jobs[j] \in Job
        /\ usable[jobs[j].target_name] = jobs[j].asked
        /\ jobs[j].asked # NoEntry
  <2>1. \A job \in Job : job.asked # NoEntry
    BY NoEntryIsNone DEF Job
  <2> QED
    BY <2>1, JobsAreJobs DEF TargetsInv, JobKeepsItsTarget
<1>2. \A j \in 1 .. Len(jobs) : usable'[jobs[j].target_name] = jobs[j].asked
  BY <1>1 DEF Job
<1> QED
  BY <1>2 DEF TargetsInv, BotTypeOK, JobKeepsItsTarget

LEMMA LoadMoves ==
  ASSUME RInv, RegistryTypeOK', TargetsInv, load, UNCHANGED <<available, jobs>>
  PROVE  TargetsInv'
<1>1. /\ jobs = << >> /\ up' /\ known' = Store!Names(file)
      /\ usable' = UsableOf(file)
  BY DEF TargetsInv, load
<1>2. ASSUME NEW n \in Name, usable'[n] # NoEntry
      PROVE  n \in known'
  <2>1. UsableAt(file, n) # {}
    BY <1>1, <1>2 DEF UsableOf
  <2> QED
    BY <1>1, <2>1 DEF UsableAt, Store!Names
<1> QED
  BY <1>1, <1>2 DEF TargetsInv, BotTypeOK, JobKeepsItsTarget, load

LEMMA AddedMoves ==
  ASSUME RInv, RegistryTypeOK', TargetsInv, Added, UNCHANGED <<available, jobs>>
  PROVE  TargetsInv'
<1>1. /\ adding \in Entry /\ adding.name \in Name /\ adding.name \notin known
      /\ usable \in [Name -> {usable[n] : n \in Name}]
  BY DEF RInv, RegistryTypeOK, PendingIsNew, FileIsMemory, Added, Entry, Store!Entry
<1>2. \A n \in Name : usable[n] # NoEntry => n # adding.name
  BY <1>1 DEF TargetsInv
<1>3. \A n \in Name : usable'[n] = IF n = adding.name THEN adding ELSE usable[n]
  BY <1>1 DEF Added
<1>4. \A n \in Name : usable'[n] # NoEntry => n \in known'
  BY <1>1, <1>3 DEF Added, TargetsInv
<1> QED
  BY <1>2, <1>3, <1>4, RegistryMoves DEF Added

(* A Job is created for the entry its name leads to, or the one of its base.    *)
IsNew(job) ==
  /\ usable[job.target_name] = job.asked
  /\ job.status = "Queued" /\ job.worker = "none"
  /\ job.branch <=> job.base # 0
  /\ \/ job.base = 0
     \/ /\ job.base \in 1 .. Len(jobs)
        /\ CanBeRevised(jobs[job.base])
        /\ jobs[job.base].target_name = job.target_name

LEMMA CreatesKeeps ==
  ASSUME TargetsInv, up, NEW job \in Job, Creates(job), IsNew(job)
  PROVE  TargetsInv'
<1>1. /\ jobs \in Seq(Job) /\ Len(jobs) \in Nat /\ Len(jobs) < MaxJobs
      /\ jobs' = Append(jobs, job) /\ UNCHANGED <<registryVars, available>>
  BY DEF Creates, TargetsInv, BotTypeOK
<1>2. /\ jobs' \in Seq(Job) /\ Len(jobs') = Len(jobs) + 1
      /\ \A j \in 1 .. Len(jobs) : jobs'[j] = jobs[j]
      /\ jobs'[Len(jobs) + 1] = job
  BY <1>1, AppendProperties
<1>3. BotTypeOK'
  BY <1>1, <1>2, BotAssumption DEF TargetsInv, BotTypeOK, RegistryTypeOK, registryVars, memory
<1>4. \A j \in 1 .. Len(jobs') : jobs'[j].base < j
  BY <1>1, <1>2 DEF TargetsInv, Job, IsNew
<1>5. ASSUME NEW j \in 1 .. Len(jobs')
      PROVE  /\ WorkerHasItsSay(jobs'[j])
             /\ usable[jobs'[j].target_name] = jobs'[j].asked
             /\ jobs'[j].worker = "working" \/ jobs'[j].status \in {"Succeeded", "Failed"} =>
                  jobs'[j].found = jobs'[j].asked
             /\ jobs'[j].base # 0 =>
                  /\ CanBeRevised(jobs'[jobs'[j].base])
                  /\ jobs'[jobs'[j].base].target_name = jobs'[j].target_name
  <2>1. CASE j = Len(jobs) + 1
    BY <1>1, <1>2, <2>1 DEF WorkerHasItsSay, IsNew
  <2>2. CASE j \in 1 .. Len(jobs)
    <3>1. jobs[j].base \in Nat /\ jobs[j].base < j
      BY <2>2, JobsAreJobs DEF TargetsInv
    <3>2. jobs[j].base # 0 => jobs'[jobs[j].base] = jobs[jobs[j].base]
      BY <1>1, <1>2, <2>2, <3>1
    <3> QED
      BY <1>2, <2>2, <3>2 DEF TargetsInv, JobKeepsItsTarget
  <2>3. j \in 1 .. Len(jobs) \/ j = Len(jobs) + 1
    BY <1>1, <1>2
  <2> QED
    BY <2>1, <2>2, <2>3
<1> QED
  BY <1>1, <1>3, <1>4, <1>5 DEF TargetsInv, JobKeepsItsTarget, registryVars, memory

LEMMA BuildCreates ==
  ASSUME TargetsInv, NEW c, NEW typed \in Name \union {NoName}, NEW idea,
         on_build(c, typed, idea)
  PROVE  up /\ \E job \in Job : Creates(job) /\ IsNew(job)
<1> DEFINE name == NameOf(typed)
           job == Queued(NewJob(typed), usable[name], FALSE, 0)
<1>1. BuildReply(c, typed, idea) = "created" /\ Creates(job) /\ up
  BY DEF on_build, LoopRuns
<1>2. name # NoName /\ usable[name] # NoEntry
  BY <1>1 DEF BuildReply, WhileAvailable, _gate, Denial
<1>3. name \in Name
  BY <1>2, BotAssumption DEF NameOf
<1>4. /\ usable[name].name = name
      /\ usable[name] \in [name : {name}, config : {"complete", "no-remote"},
                           by : {"operator", "addtarget"}]
  BY <1>2, <1>3 DEF TargetsInv, BotTypeOK, RegistryTypeOK
<1>5. usable[name] \in Entry
  BY <1>3, <1>4 DEF Entry, Store!Entry
<1>6. NewJob(typed) = name
  BY <1>4 DEF NewJob
<1>7. job \in Job
  BY <1>3, <1>5, <1>6, BotAssumption DEF Job, Queued
<1> QED
  BY <1>1, <1>6, <1>7 DEF Queued, IsNew

LEMMA ReviseCreates ==
  ASSUME TargetsInv, NEW c, NEW id \in JobId, NEW feedback, on_revise(c, id, feedback)
  PROVE  up /\ \E job \in Job : Creates(job) /\ IsNew(job)
<1> DEFINE job == Queued(jobs[id].target_name, jobs[id].asked, TRUE, id)
<1>1. ReviseReply(c, id, feedback) = "created" /\ Creates(job) /\ up
  BY DEF on_revise, LoopRuns
<1>2. id \in 1 .. Len(jobs) /\ CanBeRevised(jobs[id])
  BY <1>1 DEF ReviseReply, WhileAvailable, _gate, Denial, Known, CanBeRevised
<1>3. jobs[id] \in Job /\ usable[jobs[id].target_name] = jobs[id].asked
  BY <1>2, ElementOfSeq DEF TargetsInv, BotTypeOK, JobKeepsItsTarget
<1>4. job \in Job
  BY <1>3 DEF Job, JobId, Queued
<1> QED
  BY <1>1, <1>2, <1>3, <1>4 DEF Queued, IsNew

(* A step of one Job: its name, its entry and its base stay; what its worker    *)
(* finds is what was asked for; a Job that can be revised takes no step.         *)
LEMMA JobStepKeeps ==
  ASSUME TargetsInv, up, UNCHANGED <<registryVars, available>>,
         NEW j \in 1 .. Len(jobs), NEW job \in Job, jobs' = [jobs EXCEPT ![j] = job],
         job.target_name = jobs[j].target_name, job.asked = jobs[j].asked,
         job.base = jobs[j].base,
         WorkerHasItsSay(job), ~ CanBeRevised(jobs[j]),
         job.worker = "working" \/ job.status \in {"Succeeded", "Failed"} =>
           job.found = job.asked
  PROVE  TargetsInv'
<1>1. /\ jobs \in Seq(Job) /\ Len(jobs) \in Nat
      /\ jobs' \in Seq(Job) /\ Len(jobs') = Len(jobs)
      /\ \A k \in 1 .. Len(jobs) : jobs'[k] = IF k = j THEN job ELSE jobs[k]
  BY ExceptSeq DEF TargetsInv, BotTypeOK
<1>2. \A k \in 1 .. Len(jobs) :
        /\ jobs'[k].target_name = jobs[k].target_name
        /\ jobs'[k].asked = jobs[k].asked
        /\ jobs'[k].base = jobs[k].base
  BY <1>1
<1>3. \A k \in 1 .. Len(jobs) : jobs[k].base \in Nat /\ jobs[k].base < k
  BY JobsAreJobs DEF TargetsInv
<1>4. \A k \in 1 .. Len(jobs) :
        jobs'[k].base # 0 => jobs'[jobs'[k].base].target_name = jobs'[k].target_name
  BY <1>1, <1>2, <1>3 DEF TargetsInv, JobKeepsItsTarget
<1>5. \A k \in 1 .. Len(jobs) :
        jobs'[k].worker = "working" \/ jobs'[k].status \in {"Succeeded", "Failed"} =>
          jobs'[k].found = jobs'[k].asked
  BY <1>1 DEF TargetsInv, JobKeepsItsTarget
<1>6. \A k \in 1 .. Len(jobs) : jobs'[k].base # 0 => CanBeRevised(jobs'[jobs'[k].base])
  BY <1>1, <1>2, <1>3 DEF TargetsInv
<1>7. \A k \in 1 .. Len(jobs) : WorkerHasItsSay(jobs'[k])
  BY <1>1 DEF TargetsInv
<1> QED
  BY <1>1, <1>2, <1>4, <1>5, <1>6, <1>7
     DEF TargetsInv, BotTypeOK, RegistryTypeOK, JobKeepsItsTarget, registryVars, memory

LEMMA CancelKeeps ==
  ASSUME TargetsInv, NEW c, NEW id \in JobId, on_cancel(c, id)
  PROVE  TargetsInv'
<1> DEFINE job == [jobs[id] EXCEPT !.status = "Cancelled",
                                   !.signalled = jobs[id].status = "Running"]
<1>1. CancelReply(c, id) = "cancelled" /\ up
  BY DEF on_cancel, LoopRuns
<1>2. id \in 1 .. Len(jobs) /\ jobs[id].status \notin Terminal
  BY <1>1 DEF CancelReply, _gate, Denial, Known
<1>3. jobs[id] \in Job
  BY <1>2, ElementOfSeq DEF TargetsInv, BotTypeOK
<1>4. (jobs[id].status = "Running") \in BOOLEAN
  OBVIOUS
<1>5. job \in Job
  BY <1>3, <1>4 DEF Job
<1>6. jobs' = [jobs EXCEPT ![id] = job] /\ UNCHANGED <<registryVars, available>>
  BY DEF on_cancel
<1>7. /\ job.status = "Cancelled" /\ job.worker = jobs[id].worker
      /\ job.target_name = jobs[id].target_name /\ job.asked = jobs[id].asked
      /\ job.base = jobs[id].base /\ job.found = jobs[id].found
  BY <1>3 DEF Job
<1>8. job.worker = "working" => job.found = job.asked
  BY <1>2, <1>7 DEF TargetsInv, JobKeepsItsTarget
<1>9. WorkerHasItsSay(job) /\ ~ CanBeRevised(jobs[id])
  BY <1>2, <1>7 DEF WorkerHasItsSay, CanBeRevised, Terminal
<1> HIDE DEF job
<1> QED
  BY <1>1, <1>2, <1>5, <1>6, <1>7, <1>8, <1>9, JobStepKeeps

(* The Job goes from its queue to a worker, and the worker begins.             *)
LEMMA StartsKeeps ==
  ASSUME TargetsInv, NEW j \in 1 .. Len(jobs), JobStarts(j) \/ WorkerEnters(j)
  PROVE  TargetsInv'
<1>1. jobs[j] \in Job /\ WorkerHasItsSay(jobs[j])
  BY ElementOfSeq DEF TargetsInv, BotTypeOK
<1>2. ASSUME NEW worker \in {"created", "announcing"},
             jobs[j].status \in {"Queued", "Running", "Cancelled"},
             WorkerStep(j, [jobs[j] EXCEPT !.status = "Running", !.worker = worker])
      PROVE  TargetsInv'
  <2> DEFINE job == [jobs[j] EXCEPT !.status = "Running", !.worker = worker]
  <2>1. /\ job \in Job /\ job.status = "Running" /\ job.worker = worker
        /\ job.target_name = jobs[j].target_name /\ job.asked = jobs[j].asked
        /\ job.base = jobs[j].base
    BY <1>1 DEF Job
  <2>2. /\ jobs' = [jobs EXCEPT ![j] = job] /\ up
        /\ UNCHANGED <<registryVars, available>>
    BY <1>2 DEF WorkerStep, LoopRuns
  <2>3. WorkerHasItsSay(job) /\ ~ CanBeRevised(jobs[j])
    BY <1>2, <2>1 DEF WorkerHasItsSay, CanBeRevised
  <2> HIDE DEF job
  <2> QED
    BY <2>1, <2>2, <2>3, JobStepKeeps
<1> QED
  BY <1>1, <1>2 DEF JobStarts, WorkerEnters, WorkerHasItsSay

(* The worker finds what the Job was asked for, so it never fails for want of it. *)
LEMMA ResolvesKeeps ==
  ASSUME TargetsInv, NEW j \in 1 .. Len(jobs), _resolve_target(j)
  PROVE  TargetsInv'
<1> DEFINE job == [jobs[j] EXCEPT !.found = usable[jobs[j].target_name], !.worker = "working"]
<1>1. jobs[j] \in Job /\ WorkerHasItsSay(jobs[j])
  BY ElementOfSeq DEF TargetsInv, BotTypeOK
<1>2. usable[jobs[j].target_name] = jobs[j].asked /\ jobs[j].asked # NoEntry
  BY <1>1, NoEntryIsNone DEF Job, TargetsInv, JobKeepsItsTarget
<1>3. WorkerStep(j, job)
  BY <1>2 DEF _resolve_target
<1>4. /\ job \in Job /\ job.status = jobs[j].status /\ job.worker = "working"
      /\ job.target_name = jobs[j].target_name /\ job.asked = jobs[j].asked
      /\ job.base = jobs[j].base /\ job.found = job.asked
  BY <1>1, <1>2 DEF Job
<1>5. WorkerHasItsSay(job) /\ ~ CanBeRevised(jobs[j])
  BY <1>1, <1>4 DEF _resolve_target, WorkerHasItsSay, CanBeRevised
<1>6. /\ jobs' = [jobs EXCEPT ![j] = job] /\ up
      /\ UNCHANGED <<registryVars, available>>
  BY <1>3 DEF WorkerStep, LoopRuns
<1> HIDE DEF job
<1> QED
  BY <1>4, <1>5, <1>6, JobStepKeeps

(* The worker is gone, with one outcome or the other.                          *)
LEMMA EndsKeeps ==
  ASSUME TargetsInv, NEW j \in 1 .. Len(jobs), _finish_cancelled(j) \/ JobEnds(j)
  PROVE  TargetsInv'
<1>1. jobs[j] \in Job /\ WorkerHasItsSay(jobs[j]) /\ jobs[j].branch \in BOOLEAN
  <2>1. jobs[j] \in Job /\ WorkerHasItsSay(jobs[j])
    BY ElementOfSeq DEF TargetsInv, BotTypeOK
  <2> QED
    BY <2>1 DEF Job
<1>2. jobs[j].worker = "working" => jobs[j].found = jobs[j].asked
  BY DEF TargetsInv, JobKeepsItsTarget
<1>3. jobs[j].worker # "none"
  BY DEF _finish_cancelled, JobEnds
<1>4. ASSUME NEW status \in {"Succeeded", "Failed", "Cancelled"}, NEW branch \in BOOLEAN,
             status = "Cancelled" \/ jobs[j].worker = "working",
             WorkerStep(j, [jobs[j] EXCEPT !.status = status, !.branch = branch,
                                          !.worker = "none", !.signalled = FALSE])
      PROVE  TargetsInv'
  <2> DEFINE job == [jobs[j] EXCEPT !.status = status, !.branch = branch,
                                    !.worker = "none", !.signalled = FALSE]
  <2>1. /\ job \in Job /\ job.status = status /\ job.worker = "none"
        /\ job.target_name = jobs[j].target_name /\ job.asked = jobs[j].asked
        /\ job.base = jobs[j].base /\ job.found = jobs[j].found
    BY <1>1 DEF Job
  <2>2. /\ jobs' = [jobs EXCEPT ![j] = job] /\ up
        /\ UNCHANGED <<registryVars, available>>
    BY <1>4 DEF WorkerStep, LoopRuns
  <2>3. WorkerHasItsSay(job) /\ ~ CanBeRevised(jobs[j])
    BY <1>1, <1>3, <2>1 DEF WorkerHasItsSay, CanBeRevised
  <2> HIDE DEF job
  <2> QED
    BY <1>2, <1>4, <2>1, <2>2, <2>3, JobStepKeeps
<1>5. [jobs[j] EXCEPT !.status = "Cancelled", !.worker = "none", !.signalled = FALSE]
        = [jobs[j] EXCEPT !.status = "Cancelled", !.branch = jobs[j].branch,
                          !.worker = "none", !.signalled = FALSE]
  BY <1>1 DEF Job
<1>6. [jobs[j] EXCEPT !.status = "Failed", !.worker = "none", !.signalled = FALSE]
        = [jobs[j] EXCEPT !.status = "Failed", !.branch = jobs[j].branch,
                          !.worker = "none", !.signalled = FALSE]
  BY <1>1 DEF Job
<1>7. CASE _finish_cancelled(j)
  BY <1>1, <1>4, <1>5, <1>7 DEF _finish_cancelled
<1>8. CASE JobEnds(j)
  <2>1. ASSUME NEW changed \in BOOLEAN,
               WorkerStep(j, [jobs[j] EXCEPT !.status = "Succeeded", !.branch = @ \/ changed,
                                            !.worker = "none", !.signalled = FALSE])
        PROVE  TargetsInv'
    <3>1. PICK branch \in BOOLEAN : branch = (jobs[j].branch \/ changed)
      BY <1>1
    <3>2. WorkerStep(j, [jobs[j] EXCEPT !.status = "Succeeded", !.branch = branch,
                                       !.worker = "none", !.signalled = FALSE])
      BY <2>1, <3>1
    <3> QED
      BY <1>4, <1>8, <3>2 DEF JobEnds
  <2> QED
    BY <1>1, <1>4, <1>6, <1>8, <2>1 DEF JobEnds
<1> QED
  BY <1>7, <1>8

LEMMA NextKeepsTargetsInv ==
  ASSUME RInv, RInv', TargetsInv, [BotNext]_botVars
  PROVE  TargetsInv'
<1>0. RegistryTypeOK'
  BY DEF RInv
<1>1. CASE UNCHANGED botVars
  BY <1>0, <1>1, RegistryMoves DEF botVars, registryVars, memory, TargetsInv
<1>2. CASE \E c \in Caller :
             \/ \E typed \in Name \union {NoName}, idea \in Text : on_build(c, typed, idea)
             \/ \E id \in JobId, feedback \in Text : on_revise(c, id, feedback)
  BY <1>2, BuildCreates, ReviseCreates, CreatesKeeps
<1>3. ASSUME NEW c \in Caller, NEW id \in JobId, on_cancel(c, id)
      PROVE  TargetsInv'
  BY <1>3, CancelKeeps
<1>4. ASSUME NEW j \in 1 .. Len(jobs),
             \/ JobStarts(j) \/ WorkerEnters(j) \/ _resolve_target(j) \/ _finish_cancelled(j)
             \/ JobEnds(j)
      PROVE  TargetsInv'
  BY <1>4, StartsKeeps, ResolvesKeeps, EndsKeeps
<1>6. CASE ModelConfirmed
  BY <1>0, <1>6
     DEF ModelConfirmed, registryVars, memory, TargetsInv, BotTypeOK, JobKeepsItsTarget
<1>7. CASE BotCrash
  <2>1. /\ jobs' = << >> /\ jobs' \in Seq(Job)
        /\ Len(jobs') = 0 /\ Len(jobs') <= MaxJobs
    BY <1>7, NoJobsAreTyped DEF BotCrash
  <2>2. BotTypeOK'
    BY <1>0, <1>7, <2>1 DEF BotCrash, BotTypeOK
  <2>3. \A n \in Name : usable'[n] = NoEntry
    BY <1>7 DEF BotCrash, Crash
  <2>4. 1 .. Len(jobs') = {}
    BY <2>1
  <2> QED
    BY <2>1, <2>2, <2>3, <2>4 DEF TargetsInv, JobKeepsItsTarget
<1>8. CASE load /\ UNCHANGED <<available, jobs>>
  BY <1>0, <1>8, LoadMoves
<1>9. CASE Added /\ UNCHANGED <<available, jobs>>
  BY <1>0, <1>9, AddedMoves
<1>10. CASE /\ \/ TemporaryWritten \/ Replaced \/ PersistFails \/ OperatorRepairs
               \/ \E e \in Entry : add(e)
            /\ UNCHANGED <<available, jobs>>
  <2>1. UNCHANGED memory /\ up' = up
    BY <1>10 DEF TemporaryWritten, Replaced, PersistFails, OperatorRepairs, add, MemoryOnCall
  <2> QED
    BY <1>0, <1>10, <2>1, RegistryMoves DEF memory, TargetsInv
<1> QED
  BY <1>1, <1>2, <1>3, <1>4, <1>6, <1>7, <1>8, <1>9, <1>10
     DEF BotNext, RegistryStep, on_addtarget

THEOREM BotInvariant == BotSpec => [](RInv /\ TargetsInv)
<1>1. BotInit => RInv /\ TargetsInv
  BY InitRInv, InitTargetsInv DEF BotInit
<1>2. RInv /\ RInv' /\ TargetsInv /\ [BotNext]_botVars => TargetsInv'
  BY NextKeepsTargetsInv
<1> QED
  BY <1>1, <1>2, BotImplementsRegistry, RegistryInvariant, PTL DEF BotSpec

-----------------------------------------------------------------------------
(* The table of Jobs.                                                        *)

(* What a step of one Job is in the table.                                    *)
LEMMA TableStep ==
  ASSUME BotTypeOK, NEW j \in 1 .. Len(jobs), NEW job, jobs' = [jobs EXCEPT ![j] = job]
  PROVE  /\ j \in JobId /\ TableOfJobs[j] = InTable(jobs[j])
         /\ TableOfJobs' = [TableOfJobs EXCEPT ![j] = InTable(job)]
<1>1. /\ Len(jobs) \in Nat /\ Len(jobs) <= MaxJobs /\ MaxJobs \in Nat
      /\ Len(jobs') = Len(jobs)
      /\ \A k \in 1 .. Len(jobs) : jobs'[k] = IF k = j THEN job ELSE jobs[k]
  <2>1. /\ jobs \in Seq(Job) /\ Len(jobs) <= MaxJobs /\ MaxJobs \in Nat
    BY BotAssumption DEF BotTypeOK
  <2>2. Len(jobs) \in Nat /\ DOMAIN jobs = 1 .. Len(jobs)
    BY <2>1, LenProperties
  <2>3. DOMAIN jobs' = 1 .. Len(jobs)
    BY <2>2
  <2>4. jobs' = [k \in 1 .. Len(jobs) |-> IF k = j THEN job ELSE jobs[k]]
    BY <2>2
  <2>5. Len(jobs') = Len(jobs)
    BY <2>1, <2>2, <2>4
  <2> QED
    BY <2>1, <2>2, <2>4, <2>5
<1>2. j \in JobId
  BY <1>1 DEF JobId
<1>3. ASSUME NEW k \in JobId
      PROVE  TableOfJobs'[k] = IF k = j THEN InTable(job) ELSE TableOfJobs[k]
  BY <1>1, <1>2 DEF TableOfJobs, InTable
<1>4. TableOfJobs' = [k \in JobId |-> TableOfJobs'[k]]
  BY DEF TableOfJobs
<1>5. TableOfJobs = [k \in JobId |-> TableOfJobs[k]]
  BY DEF TableOfJobs
<1> QED
  BY <1>1, <1>2, <1>3, <1>4, <1>5 DEF TableOfJobs

LEMMA CreatesIsAccepted ==
  ASSUME BotTypeOK, NEW job \in Job, Creates(job), IsNew(job)
  PROVE  Table!TableNext
<1> DEFINE new == Len(jobs) + 1
           base == job.base
<1>1. /\ jobs \in Seq(Job) /\ Len(jobs) \in Nat /\ Len(jobs) < MaxJobs /\ MaxJobs \in Nat
      /\ jobs' = Append(jobs, job)
  BY BotAssumption, LenProperties DEF Creates, BotTypeOK
<1>2. /\ Len(jobs') = new /\ jobs'[new] = job
      /\ \A j \in 1 .. Len(jobs) : jobs'[j] = jobs[j]
  BY <1>1, AppendProperties
<1>3. new \in JobId
  BY <1>1 DEF JobId
<1>4. InTable(job) = [status |-> "Queued", branch |-> base # 0, base |-> base, works |-> FALSE]
  <2>1. job.branch = (base # 0)
    BY DEF IsNew, Job
  <2>2. (job.worker # "none") = FALSE
    BY DEF IsNew
  <2> QED
    BY <2>1, <2>2 DEF InTable, IsNew
<1>5. TableOfJobs' = [TableOfJobs EXCEPT ![new] = InTable(job)]
  <2>1. \A j \in JobId : TableOfJobs'[j] = IF j = new THEN InTable(job) ELSE TableOfJobs[j]
    BY <1>1, <1>2, <1>3 DEF TableOfJobs, InTable, NotMinted
  <2>2. /\ TableOfJobs = [j \in JobId |-> TableOfJobs[j]]
        /\ TableOfJobs' = [j \in JobId |-> TableOfJobs'[j]]
    BY DEF TableOfJobs
  <2> QED
    BY <1>3, <2>1, <2>2
<1>6. ~ Table!Minted(new)
  BY <1>1, <1>3 DEF Table!Minted, TableOfJobs, NotMinted
<1>7. ASSUME NEW i \in 1 .. new - 1
      PROVE  Table!Minted(i)
  <2>1. i \in 1 .. Len(jobs) /\ i \in JobId
    BY <1>1, <1>7 DEF JobId
  <2>2. jobs[i] \in Job
    BY <1>1, <2>1, ElementOfSeq
  <2>3. jobs[i].status # "Absent"
    BY <2>2 DEF Job
  <2> QED
    BY <2>1, <2>3 DEF Table!Minted, TableOfJobs, InTable
<1>8. base # 0 => Table!Revisable(base)
  <2>1. base # 0 => base \in JobId /\ base \in 1 .. Len(jobs) /\ CanBeRevised(jobs[base])
    BY <1>1 DEF JobId, IsNew
  <2> QED
    BY <2>1 DEF Table!Revisable, TableOfJobs, InTable, CanBeRevised
<1>9. Table!Accepted(new, base)
  BY <1>4, <1>5, <1>6, <1>7, <1>8 DEF Table!Accepted, Table!NoBase
<1>10. base \in 0 .. MaxJobs
  BY DEF Job
<1> QED
  BY <1>1, <1>3, <1>9, <1>10 DEF Table!TableNext, Table!Job, Table!NoBase, JobId

LEMMA InTableIs ==
  ASSUME NEW job, NEW works \in BOOLEAN, works <=> job.worker # "none"
  PROVE  InTable(job) = [status |-> job.status, branch |-> job.branch, base |-> job.base,
                         works |-> works]
<1>1. (job.worker # "none") = works
  OBVIOUS
<1> QED
  BY <1>1 DEF InTable

(* A step of one Job that keeps its base, as the table has it.                  *)
LEMMA JobBecomes ==
  ASSUME BotTypeOK, NEW j \in 1 .. Len(jobs), NEW job, jobs' = [jobs EXCEPT ![j] = job],
         job.base = jobs[j].base, NEW works \in BOOLEAN, works <=> job.worker # "none"
  PROVE  Table!Becomes(j, job.status, job.branch, works)
<1>1. /\ TableOfJobs[j] = InTable(jobs[j])
      /\ TableOfJobs' = [TableOfJobs EXCEPT ![j] = InTable(job)]
  BY TableStep
<1>2. InTable(job) = [status |-> job.status, branch |-> job.branch, base |-> job.base,
                      works |-> works]
  BY InTableIs
<1>3. InTable(jobs[j]).base = jobs[j].base
  BY DEF InTable
<1> QED
  BY <1>1, <1>2, <1>3 DEF Table!Becomes

(* What an entry of the table says of its Job.                                 *)
LEMMA EntryOf ==
  ASSUME BotTypeOK, NEW j \in 1 .. Len(jobs)
  PROVE  /\ j \in Table!Job /\ jobs[j] \in Job
         /\ TableOfJobs[j] = InTable(jobs[j])
         /\ TableOfJobs[j].status = jobs[j].status /\ TableOfJobs[j].branch = jobs[j].branch
         /\ TableOfJobs[j].works \in BOOLEAN
         /\ TableOfJobs[j].works <=> jobs[j].worker # "none"
<1>1. jobs[j] \in Job
  BY ElementOfSeq DEF BotTypeOK
<1>2. Len(jobs) \in Nat /\ Len(jobs) <= MaxJobs /\ MaxJobs \in Nat
  BY JobsAreJobs, BotAssumption DEF BotTypeOK
<1>3. j \in JobId /\ j \in Table!Job
  BY <1>2 DEF Table!Job, JobId
<1>4. TableOfJobs[j] = InTable(jobs[j])
  BY <1>3 DEF TableOfJobs
<1>5. ASSUME NEW job
      PROVE  /\ InTable(job).status = job.status /\ InTable(job).branch = job.branch
             /\ InTable(job).works \in BOOLEAN
             /\ InTable(job).works <=> job.worker # "none"
  BY DEF InTable
<1>6. /\ InTable(jobs[j]).status = jobs[j].status /\ InTable(jobs[j]).branch = jobs[j].branch
      /\ InTable(jobs[j]).works \in BOOLEAN
      /\ InTable(jobs[j]).works <=> jobs[j].worker # "none"
  BY <1>5
<1> QED
  BY <1>1, <1>3, <1>4, <1>6

LEMMA CommandIsTableStep ==
  ASSUME TargetsInv, NEW c,
         \/ \E typed \in Name \union {NoName}, idea \in Text : on_build(c, typed, idea)
         \/ \E id \in JobId, feedback \in Text : on_revise(c, id, feedback)
         \/ \E id \in JobId : on_cancel(c, id)
  PROVE  Table!TableNext
<1>1. BotTypeOK
  BY DEF TargetsInv
<1>2. ASSUME NEW id \in JobId, on_cancel(c, id)
      PROVE  Table!TableNext
  <2> DEFINE job == [jobs[id] EXCEPT !.status = "Cancelled",
                                     !.signalled = jobs[id].status = "Running"]
  <2>1. id \in 1 .. Len(jobs) /\ jobs[id].status \notin Terminal
    BY <1>2 DEF on_cancel, CancelReply, _gate, Denial, Known
  <2>2. jobs[id] \in Job
    BY <1>1, <2>1, EntryOf
  <2>3. jobs[id].status \in {"Queued", "Running"}
    BY <2>1, <2>2 DEF Job, Terminal
  <2>4. jobs' = [jobs EXCEPT ![id] = job]
    BY <1>2 DEF on_cancel
  <2>5. /\ job.status = "Cancelled" /\ job.branch = jobs[id].branch
        /\ job.base = jobs[id].base /\ job.worker = jobs[id].worker
    BY <2>2 DEF Job
  <2>6. PICK works \in BOOLEAN : works <=> jobs[id].worker # "none"
    OBVIOUS
  <2>7. Table!Becomes(id, "Cancelled", jobs[id].branch, works)
    <3> HIDE DEF job
    <3>1. works <=> job.worker # "none"
      BY <2>5, <2>6
    <3> QED
      BY <1>1, <2>1, <2>4, <2>5, <3>1, JobBecomes
  <2>8. works = TableOfJobs[id].works
    <3>1. TableOfJobs[id].works \in BOOLEAN
      BY <1>1, <2>1, EntryOf
    <3>2. TableOfJobs[id].works <=> works
      BY <1>1, <2>1, <2>6, EntryOf
    <3> QED
      BY <3>1, <3>2
  <2>9. Table!Cancelled(id)
    BY <1>1, <2>1, <2>3, <2>7, <2>8, EntryOf DEF Table!Cancelled
  <2> QED
    BY <1>1, <2>1, <2>9, EntryOf DEF Table!TableNext
<1> QED
  BY <1>1, <1>2, BuildCreates, ReviseCreates, CreatesIsAccepted

LEMMA WorkerIsTableStep ==
  ASSUME TargetsInv, NEW j \in 1 .. Len(jobs),
         \/ JobStarts(j) \/ WorkerEnters(j) \/ _resolve_target(j) \/ _finish_cancelled(j)
         \/ JobEnds(j)
  PROVE  Table!TableNext \/ UNCHANGED TableOfJobs
<1>1. BotTypeOK /\ WorkerHasItsSay(jobs[j])
  BY DEF TargetsInv
<1>2. /\ j \in Table!Job /\ jobs[j] \in Job
      /\ TableOfJobs[j] = InTable(jobs[j])
      /\ TableOfJobs[j].status = jobs[j].status /\ TableOfJobs[j].branch = jobs[j].branch
      /\ TableOfJobs[j].works <=> jobs[j].worker # "none"
  BY <1>1, EntryOf
<1>3. ASSUME Table!Promoted(j) \/ Table!Begun(j) \/ Table!Ended(j)
      PROVE  Table!TableNext
  BY <1>2, <1>3 DEF Table!TableNext
<1>4. ASSUME NEW job, WorkerStep(j, job), job.base = jobs[j].base,
             NEW works \in BOOLEAN, works <=> job.worker # "none"
      PROVE  Table!Becomes(j, job.status, job.branch, works)
  BY <1>1, <1>4, JobBecomes DEF WorkerStep
<1>5. ASSUME NEW job, WorkerStep(j, job), InTable(job) = InTable(jobs[j])
      PROVE  UNCHANGED TableOfJobs
  <2>1. TableOfJobs' = [TableOfJobs EXCEPT ![j] = TableOfJobs[j]]
    BY <1>1, <1>2, <1>5, TableStep DEF WorkerStep
  <2>2. TableOfJobs = [k \in JobId |-> TableOfJobs[k]]
    BY DEF TableOfJobs
  <2> QED
    BY <2>1, <2>2
<1>6. CASE JobStarts(j)
  <2> DEFINE job == [jobs[j] EXCEPT !.status = "Running", !.worker = "created"]
  <2>1. WorkerStep(j, job) /\ jobs[j].status = "Queued"
    BY <1>6 DEF JobStarts
  <2>2. /\ job.status = "Running" /\ job.branch = jobs[j].branch
        /\ job.base = jobs[j].base /\ job.worker = "created"
    BY <1>2 DEF Job
  <2> HIDE DEF job
  <2>3. Table!Becomes(j, "Running", jobs[j].branch, TRUE)
    BY <1>4, <2>1, <2>2
  <2> QED
    BY <1>2, <1>3, <2>1, <2>3 DEF Table!Promoted
<1>7. CASE WorkerEnters(j)
  <2> DEFINE job == [jobs[j] EXCEPT !.status = "Running", !.worker = "announcing"]
  <2>1. WorkerStep(j, job) /\ jobs[j].worker = "created"
    BY <1>7 DEF WorkerEnters
  <2>2. /\ job.status = "Running" /\ job.branch = jobs[j].branch
        /\ job.base = jobs[j].base /\ job.worker = "announcing"
    BY <1>2 DEF Job
  <2> HIDE DEF job
  <2>3. TableOfJobs[j].works /\ jobs[j].status \in {"Running", "Cancelled"}
    BY <1>1, <1>2, <2>1 DEF WorkerHasItsSay
  <2>4. CASE jobs[j].status = "Cancelled"
    <3>1. Table!Becomes(j, "Running", jobs[j].branch, TRUE)
      BY <1>4, <2>1, <2>2
    <3> QED
      BY <1>2, <1>3, <2>3, <2>4, <3>1 DEF Table!Begun
  <2>5. CASE jobs[j].status = "Running"
    <3>1. InTable(job) = InTable(jobs[j])
      BY <2>1, <2>2, <2>5 DEF InTable
    <3> QED
      BY <1>5, <2>1, <3>1
  <2> QED
    BY <2>3, <2>4, <2>5
<1>8. CASE _resolve_target(j)
  <2> DEFINE job == [jobs[j] EXCEPT !.found = usable[jobs[j].target_name], !.worker = "working"]
  <2>1. usable[jobs[j].target_name] # NoEntry
    BY <1>1, <1>2, NoEntryIsNone DEF Job, TargetsInv, JobKeepsItsTarget
  <2>2. WorkerStep(j, job) /\ jobs[j].worker = "announcing"
    BY <1>8, <2>1 DEF _resolve_target
  <2>3. InTable(job) = InTable(jobs[j])
    BY <1>2, <2>2 DEF InTable, Job
  <2> QED
    BY <1>5, <2>2, <2>3
<1>9. ASSUME NEW status \in {"Failed", "Cancelled"}, jobs[j].worker # "none",
             WorkerStep(j, [jobs[j] EXCEPT !.status = status, !.worker = "none",
                                          !.signalled = FALSE])
      PROVE  Table!TableNext
  <2> DEFINE job == [jobs[j] EXCEPT !.status = status, !.worker = "none", !.signalled = FALSE]
  <2>1. /\ job.status = status /\ job.branch = jobs[j].branch
        /\ job.base = jobs[j].base /\ job.worker = "none"
    BY <1>2 DEF Job
  <2>2. WorkerStep(j, job)
    BY <1>9
  <2> HIDE DEF job
  <2>3. Table!Becomes(j, status, jobs[j].branch, FALSE)
    BY <1>4, <2>1, <2>2
  <2> QED
    BY <1>2, <1>3, <1>9, <2>3 DEF Table!Ended
<1>10. CASE _finish_cancelled(j)
  BY <1>9, <1>10 DEF _finish_cancelled
<1>11. CASE JobEnds(j)
  <2>1. ASSUME NEW changed \in BOOLEAN,
               WorkerStep(j, [jobs[j] EXCEPT !.status = "Succeeded", !.branch = @ \/ changed,
                                            !.worker = "none", !.signalled = FALSE])
        PROVE  Table!TableNext
    <3>1. PICK branch \in BOOLEAN : branch = (jobs[j].branch \/ changed)
      BY <1>2 DEF Job
    <3> DEFINE job == [jobs[j] EXCEPT !.status = "Succeeded", !.branch = branch,
                                      !.worker = "none", !.signalled = FALSE]
    <3>2. WorkerStep(j, job)
      BY <2>1, <3>1
    <3>3. /\ job.status = "Succeeded" /\ job.branch = branch
          /\ job.base = jobs[j].base /\ job.worker = "none"
      BY <1>2 DEF Job
    <3> HIDE DEF job
    <3>4. Table!Becomes(j, "Succeeded", branch, FALSE)
      BY <1>4, <3>2, <3>3
    <3>5. branch = (TableOfJobs[j].branch \/ changed)
      BY <1>2, <3>1, Zenon
    <3>6. TableOfJobs[j].works
      BY <1>2, <1>11 DEF JobEnds
    <3>7. Table!Ended(j)
      BY <3>4, <3>5, <3>6, Zenon DEF Table!Ended
    <3> QED
      BY <1>3, <3>7
  <2> QED
    BY <1>9, <1>11, <2>1 DEF JobEnds
<1> QED
  BY <1>6, <1>7, <1>8, <1>10, <1>11

(* What the handlers see and change is a table of Jobs as JobTable.tla describes it, *)
(* for every number of Jobs and targets.                                       *)
THEOREM BotImplementsJobTable == BotSpec => CommandsSeeJobTable
<1>1. BotInit => Table!TableInit
  <2> SUFFICES ASSUME BotInit PROVE TableOfJobs = [j \in JobId |-> NotMinted]
    BY DEF Table!TableInit, Table!Job, Table!NoEntry, Table!NoBase, NotMinted, JobId
  <2>1. 1 .. Len(jobs) = {}
    BY NoJobsAreTyped DEF BotInit
  <2> QED
    BY <2>1 DEF TableOfJobs
<1>2. TargetsInv /\ [BotNext]_botVars => [Table!TableNext]_TableOfJobs
  <2> SUFFICES ASSUME TargetsInv, [BotNext]_botVars
               PROVE  Table!TableNext \/ UNCHANGED TableOfJobs
    OBVIOUS
  <2>1. jobs' = jobs => UNCHANGED TableOfJobs
    BY DEF TableOfJobs, InTable, NotMinted
  <2>2. CASE UNCHANGED botVars \/ ModelConfirmed \/ RegistryStep
    BY <2>1, <2>2 DEF botVars, ModelConfirmed, RegistryStep
  <2>3. CASE \E c \in Caller, e \in Entry, text \in NameText, path \in Path :
               on_addtarget(c, e, text, path)
    BY <2>1, <2>3 DEF on_addtarget
  <2>4. CASE BotCrash
    <3>1. 1 .. Len(jobs') = {}
      BY <2>4, NoJobsAreTyped DEF BotCrash
    <3>2. TableOfJobs' = [j \in JobId |-> NotMinted]
      BY <3>1 DEF TableOfJobs
    <3>3. Table!Forgotten
      BY <3>2 DEF Table!Forgotten, Table!Job, Table!NoEntry, Table!NoBase, NotMinted, JobId
    <3> QED
      BY <3>3 DEF Table!TableNext
  <2> QED
    BY <2>2, <2>3, <2>4, CommandIsTableStep, WorkerIsTableStep DEF BotNext
<1>3. TableOfJobs = [j \in JobId |-> IF j \in 1 .. Len(jobs) THEN InTable(jobs[j]) ELSE NotMinted]
  BY DEF TableOfJobs
<1> QED
  BY <1>1, <1>2, BotInvariant, PTL DEF BotSpec, CommandsSeeJobTable, Table!TableSpec

(* A queued Job, a running one and every revision of it work on the target the   *)
(* user named, whatever is registered meanwhile.                              *)
THEOREM JobsKeepTheirTarget == BotSpec => []JobKeepsItsTarget
<1>1. TargetsInv => JobKeepsItsTarget
  BY DEF TargetsInv
<1> QED
  BY <1>1, BotInvariant, PTL

(* Jobs, targets and what is being added keep their types.                     *)
THEOREM BotTypeCorrect == BotSpec => []BotTypeOK
<1>1. TargetsInv => BotTypeOK
  BY DEF TargetsInv
<1> QED
  BY <1>1, BotInvariant, PTL
=============================================================================
