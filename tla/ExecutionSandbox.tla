-------------------------- MODULE ExecutionSandbox --------------------------
(***************************************************************************)
(* ExecutionSandbox.run_command and _terminate                              *)
(* (discord_ollama_agent/execution_sandbox.py): one Build_Command, the       *)
(* processes it starts, the pipe they share, the coroutine that waits for    *)
(* them and the reader that empties the pipe.                               *)
(*                                                                         *)
(* The shell leads a process group of its own.  What it starts in the        *)
(* background may ignore SIGTERM, leave the group (setsid) or hold the pipe  *)
(* open; that is up to the Build_Command, and so external here.              *)
(***************************************************************************)
EXTENDS Integers, FiniteSetsExt

CONSTANTS Child,         \* the processes the shell may start in the background
          OutputCap,     \* build_output_cap_bytes, in units of output
          PipeSize,      \* units the pipe (and the stream's buffer) hold
          MaxOutput      \* bound on the units written

ASSUME SandboxAssumption ==
  /\ OutputCap \in Nat /\ PipeSize \in Nat \ {0} /\ MaxOutput \in Nat

Shell == "shell"
Process == Child \union {Shell}

(* How a process takes SIGTERM, whether it stayed in the group, and whether   *)
(* it kept the pipe as its output.                                           *)
Kind == [obeys : BOOLEAN, grouped : BOOLEAN, writes : BOOLEAN]

VARIABLES
  process,     \* which processes exist, and which have ended
  kind,        \* their kinds
  written,     \* units written to the pipe
  drained,     \* units the reader took out of it
  captured,    \* units it kept
  truncated,   \* output_truncated
  reader,      \* the reader task
  cancel,      \* the cancellation token
  place,       \* what run_command waits for
  timed_out, cancelled,  \* the flags of the result
  waitNeedsEof  \* whether this Python's Process.wait() also waits for end of file

outputVars == <<written, drained, captured, truncated, reader>>
sandboxVars == <<process, kind, outputVars, cancel, place, timed_out, cancelled, waitNeedsEof>>

SandboxTypeOK ==
  /\ process \in [Process -> {"unborn", "alive", "dead"}]
  /\ kind \in [Process -> Kind]
  /\ written \in 0 .. MaxOutput
  /\ drained \in 0 .. written
  /\ captured \in 0 .. OutputCap
  /\ truncated \in BOOLEAN
  /\ reader \in {"reading", "done"}
  /\ cancel \in BOOLEAN
  /\ place \in {"waiting", "terminating", "reaping", "draining", "returned"}
  /\ timed_out \in BOOLEAN
  /\ cancelled \in BOOLEAN
  /\ waitNeedsEof \in BOOLEAN

(* create_subprocess_shell has returned; only the shell exists.               *)
SandboxInit ==
  /\ process = [p \in Process |-> IF p = Shell THEN "alive" ELSE "unborn"]
  /\ \E o \in BOOLEAN :
       kind = [p \in Process |-> [obeys |-> o, grouped |-> TRUE, writes |-> TRUE]]
  /\ written = 0 /\ drained = 0 /\ captured = 0
  /\ truncated = FALSE
  /\ reader = "reading"
  /\ cancel = FALSE
  /\ place = "waiting"
  /\ timed_out = FALSE /\ cancelled = FALSE
  /\ waitNeedsEof \in BOOLEAN

Alive == {p \in Process : process[p] = "alive"}
Writers == {p \in Alive : kind[p].writes}
Group == {p \in Alive : kind[p].grouped}

Killed(ps) == process' = [p \in Process |-> IF p \in ps THEN "dead" ELSE process[p]]

-----------------------------------------------------------------------------
(* The processes of the Build_Command.                                       *)

StartsChild(c) ==
  /\ process[Shell] = "alive"
  /\ process[c] = "unborn"
  /\ process' = [process EXCEPT ![c] = "alive"]
  /\ \E k \in Kind : kind' = [kind EXCEPT ![c] = k]
  /\ UNCHANGED <<outputVars, cancel, place, timed_out, cancelled, waitNeedsEof>>

ProcessExits(p) ==
  /\ process[p] = "alive"
  /\ Killed({p})
  /\ UNCHANGED <<kind, outputVars, cancel, place, timed_out, cancelled, waitNeedsEof>>

(* A full pipe blocks its writers.                                           *)
Writes ==
  /\ Writers # {}
  /\ written < MaxOutput
  /\ written - drained < PipeSize
  /\ written' = written + 1
  /\ UNCHANGED <<process, kind, drained, captured, truncated, reader, cancel, place,
                 timed_out, cancelled, waitNeedsEof>>

-----------------------------------------------------------------------------
(* _drain_output: a chunk of n units, kept up to the cap.                     *)

Remaining == OutputCap - captured

Kept_Whole(n) == n
Kept(n) == IF n <= Remaining THEN n ELSE Remaining
Overflows_AtTheCap(n) == n >= Remaining
Overflows(n) == n > Remaining

MayRead_UpToTheCap == Remaining > 0
MayRead == TRUE

Reads ==
  /\ reader = "reading"
  /\ MayRead
  /\ \E n \in 1 .. written - drained :
       /\ drained' = drained + n
       /\ captured' = captured + Kept(n)
       /\ truncated' = (truncated \/ Overflows(n))
  /\ UNCHANGED <<process, kind, written, reader, cancel, place, timed_out, cancelled,
                 waitNeedsEof>>

EndOfFile == Writers = {} /\ written = drained

ReadsEndOfFile ==
  /\ reader = "reading"
  /\ EndOfFile
  /\ reader' = "done"
  /\ UNCHANGED <<process, kind, written, drained, captured, truncated, cancel, place,
                 timed_out, cancelled, waitNeedsEof>>

-----------------------------------------------------------------------------
(* The coroutine.                                                            *)

(* wait_task is done.  proc.returncode is set as soon as the shell is dead.   *)
WaitDone == process[Shell] = "dead" /\ (waitNeedsEof => EndOfFile)

Goes(p) == place' = p

(* asyncio.wait: the command is over, whatever else happened.                 *)
CommandEnds ==
  /\ place = "waiting"
  /\ WaitDone
  /\ Goes("reaping")
  /\ UNCHANGED <<process, kind, outputVars, cancel, timed_out, cancelled, waitNeedsEof>>

(* _terminate: SIGTERM for the group, unless the shell is known to be dead.   *)
_terminate ==
  IF process[Shell] = "dead"
  THEN Goes("reaping") /\ UNCHANGED process
  ELSE Goes("terminating") /\ Killed({p \in Group : kind[p].obeys})

(* Or the signal was given, or the time is up; a signal between the timer and  *)
(* the resumption is not seen.                                               *)
CancelSeen ==
  /\ place = "waiting"
  /\ ~WaitDone
  /\ cancel
  /\ cancelled' = TRUE
  /\ _terminate
  /\ UNCHANGED <<kind, outputVars, cancel, timed_out, waitNeedsEof>>

TimesOut ==
  /\ place = "waiting"
  /\ ~WaitDone
  /\ timed_out' = TRUE
  /\ _terminate
  /\ UNCHANGED <<kind, outputVars, cancel, cancelled, waitNeedsEof>>

TerminatedInTime ==
  /\ place = "terminating"
  /\ WaitDone
  /\ Goes("reaping")
  /\ UNCHANGED <<process, kind, outputVars, cancel, timed_out, cancelled, waitNeedsEof>>

(* The grace period is over: SIGKILL.                                        *)
GraceEnds ==
  /\ place = "terminating"
  /\ ~WaitDone
  /\ Killed(Group)
  /\ Goes("reaping")
  /\ UNCHANGED <<kind, outputVars, cancel, timed_out, cancelled, waitNeedsEof>>

(* exit_code = await wait_task; await reader_task: no timeout on either.      *)
ExitCodeKnown ==
  /\ place = "reaping"
  /\ WaitDone
  /\ Goes("draining")
  /\ UNCHANGED <<process, kind, outputVars, cancel, timed_out, cancelled, waitNeedsEof>>

OutputComplete_NotAwaited == TRUE
OutputComplete == reader = "done"

Returns ==
  /\ place = "draining"
  /\ OutputComplete
  /\ Goes("returned")
  /\ UNCHANGED <<process, kind, outputVars, cancel, timed_out, cancelled, waitNeedsEof>>

(* CancellationToken.cancel                                                  *)
Signal ==
  /\ ~cancel
  /\ cancel' = TRUE
  /\ UNCHANGED <<process, kind, outputVars, place, timed_out, cancelled, waitNeedsEof>>

Coroutine ==
  CommandEnds \/ CancelSeen \/ TimesOut \/ TerminatedInTime \/ GraceEnds
    \/ ExitCodeKnown \/ Returns

SandboxNext ==
  \/ \E c \in Child : StartsChild(c)
  \/ \E p \in Process : ProcessExits(p)
  \/ Writes \/ Reads \/ ReadsEndOfFile \/ Coroutine \/ Signal

(* The event loop runs the coroutine and the reader, and its timers fire.     *)
(* Nothing is asked of the processes: they may run for ever.                 *)
SandboxSpec ==
  /\ SandboxInit /\ [][SandboxNext]_sandboxVars
  /\ WF_sandboxVars(Coroutine)
  /\ WF_sandboxVars(Reads \/ ReadsEndOfFile)

-----------------------------------------------------------------------------
(* Properties.                                                               *)

(* The captured output is the output up to the cap, and the result says so if *)
(* and only if some was dropped, however the output was cut into chunks.      *)
OutputIsCapped ==
  /\ captured = Min({drained, OutputCap})
  /\ truncated <=> drained > OutputCap

(* When the result is returned the command is over: the shell is dead, nothing *)
(* will write any more and all that was written is accounted for; a kill took  *)
(* the writers of its process group along.                                   *)
ResultIsFinal ==
  place = "returned" =>
    process[Shell] = "dead" /\ Writers = {} /\ drained = written

(* run_command returns, unless a process its command started runs for ever:   *)
(* no amount of output, no process that ignores SIGTERM and no late signal    *)
(* blocks it.                                                                *)
ReturnsUnlessOutlived ==
  <>(place = "returned") \/ <>[](\E c \in Child : process[c] = "alive")

(* The induction behind the two: the shell is a writer as long as it lives, so *)
(* the end of the output is final, and the result comes after both.           *)
SInv ==
  /\ SandboxTypeOK
  /\ OutputIsCapped
  /\ kind[Shell].writes
  /\ reader = "done" => EndOfFile
  /\ place \in {"draining", "returned"} => process[Shell] = "dead"
  /\ place = "returned" => reader = "done"

-----------------------------------------------------------------------------
(* run_command: "If the command exceeds timeout_s it is terminated".  It       *)
(* returns, then, whatever the command does.                                 *)
CommandReturns == <>(place = "returned")
=============================================================================
