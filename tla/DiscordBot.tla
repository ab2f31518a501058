------------------------------ MODULE DiscordBot ------------------------------
(***************************************************************************)
(* The slash commands: the callbacks of main.py and the handlers of DiscordBot *)
(* (discord_ollama_agent/discord_bot.py), with the registry they read and      *)
(* extend and the table of Jobs they create in and look into, which workers       *)
(* change meanwhile.                                                         *)
(*                                                                         *)
(* A handler is a reply, a function of the state and of what the caller typed,  *)
(* and an action, taken when the reply says so.  None of them suspends before    *)
(* its effect; how Jobs are queued, run and cancelled is JobManager.tla and       *)
(* CodingAgent.tla.                                                           *)
(***************************************************************************)
EXTENDS TargetRegistry

CONSTANTS Strip,          \* str.strip on target names
          DefaultTarget,  \* config.default_target, or NoName
          MaxJobs         \* bound on the Jobs of one process

NoName == "none"

ASSUME BotAssumption ==
  /\ Strip \in [Name -> Name]
  /\ \A n \in Name : Strip[Strip[n]] = Strip[n]
  /\ DefaultTarget \in Name \union {NoName}
  /\ MaxJobs \in Nat

VARIABLES
  available,  \* monitor.available
  jobs        \* _jobs, in the order of creation

botVars == <<registryVars, available, jobs>>

JobId == 1 .. MaxJobs
Unknown == 0

(* A Job keeps the name of its target; the entry found under it when the Job     *)
(* was asked for and the one its worker finds are there for the properties.  Of   *)
(* the worker it says how far it is and whether it was signalled.              *)
Job == [status : {"Queued", "Running", "Succeeded", "Failed", "Cancelled"},
        target_name : Name, branch : BOOLEAN, base : 0 .. MaxJobs,
        asked : Entry, found : Entry \union {NoEntry},
        worker : {"none", "created", "announcing", "working"}, signalled : BOOLEAN]

Queued(name, entry, branch, base) ==
  [status |-> "Queued", target_name |-> name, branch |-> branch, base |-> base,
   asked |-> entry, found |-> NoEntry, worker |-> "none", signalled |-> FALSE]

BotTypeOK ==
  /\ RegistryTypeOK
  /\ available \in BOOLEAN
  /\ jobs \in Seq(Job) /\ Len(jobs) <= MaxJobs

BotInit ==
  /\ RegistryInit
  /\ available = FALSE
  /\ jobs = << >>

-----------------------------------------------------------------------------
(* The gate.                                                                 *)

Caller == [channel : BOOLEAN, user : BOOLEAN, admin : BOOLEAN]

Allowed(c, admin) == c.channel /\ (IF admin THEN c.admin ELSE c.user)
Denial(c) == IF c.channel THEN "not authorized" ELSE "channel not permitted"

_gate(c, admin, reply) == IF Allowed(c, admin) THEN reply ELSE Denial(c)

(* The callbacks of /build and /revise answer before the handler is called.     *)
WhileAvailable(reply) == IF available THEN reply ELSE "unavailable"

-----------------------------------------------------------------------------
(* /build.  The default is taken as it is configured, a typed name stripped.   *)

Text == {"blank", "good", "too long"}

NameOf(typed) == IF typed = NoName THEN DefaultTarget ELSE Strip[typed]

BuildReply(c, typed, idea) ==
  WhileAvailable(_gate(c, FALSE,
    CASE idea = "blank"             -> "empty idea"
      [] idea = "too long"          -> "idea too long"
      [] NameOf(typed) = NoName     -> "no target"
      [] usable[NameOf(typed)] = NoEntry -> "not registered"
      [] OTHER                      -> "created"))

NewJob_NameAsTyped(typed) == IF typed = NoName THEN DefaultTarget ELSE typed
NewJob(typed) == usable[NameOf(typed)].name

(* Nothing of the process runs while add writes the file.                     *)
LoopRuns == up /\ adding = NoEntry

Creates(job) ==
  /\ Len(jobs) < MaxJobs
  /\ jobs' = Append(jobs, job)
  /\ UNCHANGED <<registryVars, available>>

on_build(c, typed, idea) ==
  /\ LoopRuns
  /\ BuildReply(c, typed, idea) = "created"
  /\ Creates(Queued(NewJob(typed), usable[NameOf(typed)], FALSE, 0))

-----------------------------------------------------------------------------
(* /revise.  A Succeeded Job without a branch changed nothing.                 *)

Known(id) == id \in 1 .. Len(jobs)

ReviseReply_AnySucceeded(c, id, feedback) ==
  WhileAvailable(_gate(c, FALSE,
    CASE feedback = "blank"                -> "empty feedback"
      [] ~Known(id)                        -> "not found"
      [] jobs[id].status # "Succeeded"     -> "not succeeded"
      [] OTHER                             -> "created"))
ReviseReply(c, id, feedback) ==
  WhileAvailable(_gate(c, FALSE,
    CASE feedback = "blank"                -> "empty feedback"
      [] ~Known(id)                        -> "not found"
      [] jobs[id].status # "Succeeded"     -> "not succeeded"
      [] ~jobs[id].branch                  -> "not revisable"
      [] OTHER                             -> "created"))

on_revise(c, id, feedback) ==
  /\ LoopRuns
  /\ ReviseReply(c, id, feedback) = "created"
  /\ Creates(Queued(jobs[id].target_name, jobs[id].asked, TRUE, id))

-----------------------------------------------------------------------------
(* /status, /cancel and /targets.                                            *)

StatusReply_LookedUpFirst(c, id) ==
  IF ~Known(id) THEN "not found" ELSE _gate(c, FALSE, jobs[id].status)
StatusReply(c, id) ==
  _gate(c, FALSE, IF Known(id) THEN jobs[id].status ELSE "not found")

Terminal == {"Succeeded", "Failed", "Cancelled"}

CancelReply(c, id) ==
  _gate(c, FALSE,
    CASE ~Known(id)                     -> "not found"
      [] jobs[id].status \in Terminal   -> "already ended"
      [] OTHER                          -> "cancelled")

on_cancel(c, id) ==
  /\ LoopRuns
  /\ CancelReply(c, id) = "cancelled"
  /\ jobs' = [jobs EXCEPT ![id].status = "Cancelled",
                          ![id].signalled = jobs[id].status = "Running"]
  /\ UNCHANGED <<registryVars, available>>

Listed == {n \in Name : usable[n] # NoEntry}
TargetsReply(c) == _gate(c, FALSE, IF Listed = {} THEN "no targets" ELSE "listed")

-----------------------------------------------------------------------------
(* /addtarget, the one command with an allowlist of its own.                  *)

Path == {"inside", "outside", "no directory"}
NameText == {"good", "blank or too long"}

AddTargetReply(c, name, text, path) ==
  _gate(c, TRUE,
    CASE text # "good"          -> "invalid name"
      [] NameTaken(name)        -> "in use"
      [] path = "outside"       -> "not in workspace"
      [] path = "no directory"  -> "no directory"
      [] OTHER                  -> "registering")

on_addtarget(c, e, text, path) ==
  /\ LoopRuns
  /\ AddTargetReply(c, e.name, text, path) = "registering"
  /\ add(e)
  /\ UNCHANGED <<available, jobs>>

-----------------------------------------------------------------------------
(* What workers do to Jobs meanwhile (CodingAgent.tla), as far as a command sees *)
(* it.                                                                       *)

WorkerStep(j, job) ==
  /\ LoopRuns
  /\ jobs' = [jobs EXCEPT ![j] = job]
  /\ UNCHANGED <<registryVars, available>>

JobStarts(j) ==
  /\ jobs[j].status = "Queued"
  /\ WorkerStep(j, [jobs[j] EXCEPT !.status = "Running", !.worker = "created"])

(* The first step of the worker, whatever the status has become.               *)
WorkerEnters(j) ==
  /\ jobs[j].worker = "created"
  /\ WorkerStep(j, [jobs[j] EXCEPT !.status = "Running", !.worker = "announcing"])

_is_cancelled(job) == job.signalled \/ job.status = "Cancelled"

(* Its target, looked up by name once the start was announced.                 *)
_resolve_target(j) ==
  /\ jobs[j].worker = "announcing"
  /\ ~_is_cancelled(jobs[j])
  /\ LET found == usable[jobs[j].target_name] IN
       IF found = NoEntry
       THEN WorkerStep(j, [jobs[j] EXCEPT !.status = "Failed", !.worker = "none"])
       ELSE WorkerStep(j, [jobs[j] EXCEPT !.found = found, !.worker = "working"])

_finish_cancelled(j) ==
  /\ jobs[j].worker \in {"announcing", "working"}
  /\ _is_cancelled(jobs[j])
  /\ WorkerStep(j, [jobs[j] EXCEPT !.status = "Cancelled", !.worker = "none",
                                   !.signalled = FALSE])

(* The Job ends as its worker says, also when it was cancelled and the worker     *)
(* has not noticed; with a branch if it pushed one.                            *)
JobEnds(j) ==
  /\ jobs[j].worker = "working"
  /\ \/ \E changed \in BOOLEAN :
          WorkerStep(j, [jobs[j] EXCEPT !.status = "Succeeded", !.branch = @ \/ changed,
                                       !.worker = "none", !.signalled = FALSE])
     \/ WorkerStep(j, [jobs[j] EXCEPT !.status = "Failed", !.worker = "none",
                                      !.signalled = FALSE])

(* ConnectivityMonitor.tla.                                                  *)
ModelConfirmed ==
  /\ LoopRuns /\ ~available
  /\ available' = TRUE
  /\ UNCHANGED <<registryVars, jobs>>

(* Jobs are only in memory.                                                  *)
BotCrash ==
  /\ Crash
  /\ available' = FALSE
  /\ jobs' = << >>

RegistryStep ==
  /\ load \/ TemporaryWritten \/ Replaced \/ PersistFails \/ Added \/ OperatorRepairs
  /\ UNCHANGED <<available, jobs>>

BotNext ==
  \/ \E c \in Caller :
       \/ \E typed \in Name \union {NoName}, idea \in Text : on_build(c, typed, idea)
       \/ \E id \in JobId, feedback \in Text : on_revise(c, id, feedback)
       \/ \E id \in JobId : on_cancel(c, id)
       \/ \E e \in Entry, text \in NameText, path \in Path : on_addtarget(c, e, text, path)
  \/ \E j \in 1 .. Len(jobs) :
       JobStarts(j) \/ WorkerEnters(j) \/ _resolve_target(j) \/ _finish_cancelled(j)
         \/ JobEnds(j)
  \/ ModelConfirmed \/ BotCrash \/ RegistryStep

BotSpec == BotInit /\ [][BotNext]_botVars

-----------------------------------------------------------------------------
(* Properties.                                                               *)

(* design.md, Property 1: whoever may not use a command gets the denial from its  *)
(* handler and learns nothing else, not even whether a Job or a target exists.    *)
(* The callbacks of /build and /revise answer instead of their handler while the   *)
(* model is not available: nothing is claimed of these two then.                *)
GateComesFirst ==
  \A c \in Caller :
    /\ ~Allowed(c, FALSE) =>
         /\ \A id \in JobId \union {Unknown} :
              StatusReply(c, id) = Denial(c) /\ CancelReply(c, id) = Denial(c)
         /\ TargetsReply(c) = Denial(c)
    /\ ~Allowed(c, FALSE) /\ available =>
         /\ \A typed \in Name \union {NoName}, idea \in Text :
              BuildReply(c, typed, idea) = Denial(c)
         /\ \A id \in JobId \union {Unknown}, feedback \in Text :
              ReviseReply(c, id, feedback) = Denial(c)
    /\ ~Allowed(c, TRUE) =>
         \A name \in Name, text \in NameText, path \in Path :
           AddTargetReply(c, name, text, path) = Denial(c)

(* A Job works on the target it was asked for: between its creation and its      *)
(* start, however long it is queued and whatever is registered meanwhile, the     *)
(* name it keeps leads to the same entry, for a revision to that of its base.     *)
JobKeepsItsTarget ==
  \A j \in 1 .. Len(jobs) :
    /\ usable[jobs[j].target_name] = jobs[j].asked
    /\ jobs[j].worker = "working" \/ jobs[j].status \in {"Succeeded", "Failed"} =>
         jobs[j].found = jobs[j].asked
    /\ jobs[j].base # 0 => jobs[jobs[j].base].target_name = jobs[j].target_name

(* What the handlers see and change is the table the workers keep: JobTable.tla  *)
(* is what CodingAgent.tla implements too, so no reply relies on an answer that    *)
(* a worker takes back, and a revision has a base with a branch, which it keeps.   *)
InTable(job) ==
  [status |-> job.status, branch |-> job.branch, base |-> job.base,
   works |-> job.worker # "none"]
NotMinted == [status |-> "Absent", branch |-> FALSE, base |-> 0, works |-> FALSE]

TableOfJobs ==
  [j \in JobId |-> IF j \in 1 .. Len(jobs) THEN InTable(jobs[j]) ELSE NotMinted]

Table == INSTANCE JobTable WITH table <- TableOfJobs

CommandsSeeJobTable == Table!TableSpec
=============================================================================
