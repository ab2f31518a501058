------------------------ MODULE ExecutionSandboxProofs ------------------------
(***************************************************************************)
(* Proofs about run_command, for every number of background processes, every *)
(* cap and every size of the pipe.                                           *)
(***************************************************************************)
EXTENDS ExecutionSandbox, TLAPS

-----------------------------------------------------------------------------
(* Minima and types.                                                         *)

(* The smaller of two numbers.                                                *)
LEMMA MinOfTwo ==
  ASSUME NEW a \in Nat, NEW b \in Nat
  PROVE  Min({a, b}) = IF a <= b THEN a ELSE b
<1> DEFINE least == IF a <= b THEN a ELSE b
           IsMin(x) == x \in {a, b} /\ \A y \in {a, b} : x <= y
<1>1. IsMin(least) /\ \A x : IsMin(x) => x = least
  OBVIOUS
<1>2. (CHOOSE x : IsMin(x)) = least
  BY <1>1, Zenon
<1>3. Min({a, b}) = CHOOSE x \in {a, b} : \A y \in {a, b} : x <= y
  BY DEF Min
<1> QED
  BY <1>2, <1>3

(* Ending processes keeps the table a table.                                  *)
LEMMA KilledIsTyped ==
  ASSUME SandboxTypeOK, NEW ps, Killed(ps)
  PROVE  /\ process' \in [Process -> {"unborn", "alive", "dead"}]
         /\ \A p \in Process : process'[p] = IF p \in ps THEN "dead" ELSE process[p]
BY DEF SandboxTypeOK, Killed

(* Nobody who had ended writes again, and nobody new does.                    *)
LEMMA EndOfFileStays ==
  ASSUME EndOfFile, kind' = kind, written' = written, drained' = drained,
         \A p \in Process : process'[p] = process[p] \/ process'[p] = "dead"
  PROVE  EndOfFile'
BY DEF EndOfFile, Writers, Alive

-----------------------------------------------------------------------------
(* The induction.                                                            *)

LEMMA InitSInv == SandboxInit => SInv
<1> SUFFICES ASSUME SandboxInit PROVE SInv
  OBVIOUS
<1> USE SandboxAssumption DEF SandboxInit
<1>1. SandboxTypeOK /\ kind[Shell].writes
  <2>1. PICK o \in BOOLEAN :
          kind = [p \in Process |-> [obeys |-> o, grouped |-> TRUE, writes |-> TRUE]]
    OBVIOUS
  <2>2. [obeys |-> o, grouped |-> TRUE, writes |-> TRUE] \in Kind
    BY DEF Kind
  <2>3. kind \in [Process -> Kind]
    BY <2>1, <2>2
  <2>4. process \in [Process -> {"unborn", "alive", "dead"}]
    OBVIOUS
  <2>5. kind[Shell].writes
    BY <2>1 DEF Process
  <2>6. written \in 0 .. MaxOutput /\ drained \in 0 .. written /\ captured \in 0 .. OutputCap
    OBVIOUS
  <2>7. /\ truncated \in BOOLEAN /\ cancel \in BOOLEAN /\ timed_out \in BOOLEAN
        /\ cancelled \in BOOLEAN /\ waitNeedsEof \in BOOLEAN
    BY Zenon
  <2>8. /\ reader \in {"reading", "done"}
        /\ place \in {"waiting", "terminating", "reaping", "draining", "returned"}
    OBVIOUS
  <2> QED
    BY <2>3, <2>4, <2>5, <2>6, <2>7, <2>8, Zenon DEF SandboxTypeOK
<1>2. OutputIsCapped
  BY MinOfTwo DEF OutputIsCapped
<1> QED
  BY <1>1, <1>2 DEF SInv

(* The shell starts a process: it is alive, so the output has not ended.      *)
LEMMA StartsChildKeeps == ASSUME SInv, NEW c \in Child, StartsChild(c) PROVE SInv'
<1> USE DEF StartsChild, outputVars
<1>1. SandboxTypeOK'
  BY DEF SInv, SandboxTypeOK, Process
<1>2. OutputIsCapped'
  BY DEF SInv, OutputIsCapped
<1>3. reader # "done"
  BY DEF SInv, EndOfFile, Writers, Alive, Process
<1> QED
  BY <1>1, <1>2, <1>3 DEF SInv, SandboxTypeOK, Process, Kind

(* A process ends by itself; the command's output can only end with it.       *)
LEMMA ProcessExitsKeeps == ASSUME SInv, NEW p \in Process, ProcessExits(p) PROVE SInv'
<1> USE DEF ProcessExits, outputVars
<1>1. /\ process' \in [Process -> {"unborn", "alive", "dead"}]
      /\ \A q \in Process : process'[q] = IF q \in {p} THEN "dead" ELSE process[q]
  BY KilledIsTyped DEF SInv
<1>2. SandboxTypeOK' /\ OutputIsCapped'
  BY <1>1 DEF SInv, SandboxTypeOK, OutputIsCapped
<1>3. (reader = "done" => EndOfFile)'
  BY <1>1, EndOfFileStays DEF SInv
<1> QED
  BY <1>1, <1>2, <1>3 DEF SInv, Process

(* Writing needs a writer, and so happens before the end of the output.       *)
LEMMA WritesKeeps == ASSUME SInv, Writes PROVE SInv'
<1> USE SandboxAssumption DEF Writes
<1>1. SandboxTypeOK'
  BY DEF SInv, SandboxTypeOK
<1>2. reader # "done"
  BY DEF SInv, EndOfFile
<1> QED
  BY <1>1, <1>2 DEF SInv, OutputIsCapped

(* A chunk of n units: kept up to the cap, and flagged when it passes it.     *)
LEMMA ReadsKeeps == ASSUME SInv, Reads PROVE SInv'
<1> USE SandboxAssumption DEF Reads
<1>1. PICK n \in 1 .. written - drained :
        /\ drained' = drained + n
        /\ captured' = captured + Kept(n)
        /\ truncated' = (truncated \/ Overflows(n))
  OBVIOUS
<1>2. /\ written \in Nat /\ drained \in Nat /\ drained <= written /\ n \in Nat
      /\ captured \in Nat /\ written <= MaxOutput /\ n <= written - drained
  BY DEF SInv, SandboxTypeOK
<1>3. captured = IF drained <= OutputCap THEN drained ELSE OutputCap
  BY <1>2, MinOfTwo DEF SInv, OutputIsCapped
<1>4. captured' = IF drained' <= OutputCap THEN drained' ELSE OutputCap
  BY <1>1, <1>2, <1>3 DEF Kept, Remaining
<1>5. drained' \in 0 .. written /\ captured' \in 0 .. OutputCap
  BY <1>1, <1>2, <1>4
<1>6. Overflows(n) <=> drained' > OutputCap
  BY <1>1, <1>2, <1>3 DEF Overflows, Remaining
<1>7. drained > OutputCap => drained' > OutputCap
  BY <1>1, <1>2
<1>8. drained > OutputCap => Overflows(n)
  BY <1>6, <1>7
<1>9. OutputIsCapped'
  <2>1. captured' = Min({drained', OutputCap})
    BY <1>4, <1>5, MinOfTwo, <1>2
  <2>2. truncated <=> drained > OutputCap
    BY DEF SInv, OutputIsCapped
  <2>3. truncated' <=> drained' > OutputCap
    BY <1>1, <1>6, <1>8, <2>2, Zenon
  <2> QED
    BY <2>1, <2>3 DEF OutputIsCapped
<1>10. SandboxTypeOK'
  <2>1. truncated' \in BOOLEAN
    BY <1>1, Zenon DEF SInv, SandboxTypeOK
  <2> QED
    BY <1>5, <2>1 DEF SInv, SandboxTypeOK
<1> QED
  BY <1>9, <1>10 DEF SInv

(* The end of the output.                                                     *)
LEMMA ReadsEndOfFileKeeps == ASSUME SInv, ReadsEndOfFile PROVE SInv'
<1> USE DEF ReadsEndOfFile
<1>1. SandboxTypeOK' /\ OutputIsCapped'
  BY DEF SInv, SandboxTypeOK, OutputIsCapped
<1>2. EndOfFile'
  BY DEF EndOfFile, Writers, Alive
<1> QED
  BY <1>1, <1>2 DEF SInv

(* The coroutine without its kills: it only moves, and only past what it       *)
(* waits for.                                                                 *)
Moves ==
  CommandEnds \/ TerminatedInTime \/ ExitCodeKnown \/ Returns \/ Signal

LEMMA MovesKeeps == ASSUME SInv, Moves PROVE SInv'
<1> USE DEF Moves, CommandEnds, TerminatedInTime, ExitCodeKnown, Returns, Signal, Goes,
            outputVars, OutputComplete, WaitDone
<1>1. UNCHANGED <<process, kind, written, drained, captured, truncated, reader>>
  OBVIOUS
<1>2. SandboxTypeOK'
  BY <1>1 DEF SInv, SandboxTypeOK
<1>3. OutputIsCapped' /\ (reader = "done" => EndOfFile)'
  BY <1>1 DEF SInv, OutputIsCapped, EndOfFile, Writers, Alive
<1> QED
  BY <1>1, <1>2, <1>3 DEF SInv

(* The kills: SIGTERM for those that obey it, SIGKILL for the group.          *)
LEMMA KillsKeeps == ASSUME SInv, CancelSeen \/ TimesOut \/ GraceEnds PROVE SInv'
<1> USE DEF CancelSeen, TimesOut, GraceEnds, Goes, outputVars
<1>1. /\ process' \in [Process -> {"unborn", "alive", "dead"}]
      /\ \A p \in Process : process'[p] = process[p] \/ process'[p] = "dead"
  BY KilledIsTyped DEF SInv, SandboxTypeOK, _terminate
<1>2. /\ UNCHANGED <<kind, written, drained, captured, truncated, reader>>
      /\ place' \in {"terminating", "reaping"}
  BY DEF _terminate
<1>3. SandboxTypeOK'
  BY <1>1, <1>2 DEF SInv, SandboxTypeOK
<1>4. OutputIsCapped'
  BY <1>2 DEF SInv, OutputIsCapped
<1>5. (reader = "done" => EndOfFile)'
  BY <1>1, <1>2, EndOfFileStays DEF SInv
<1> QED
  BY <1>2, <1>3, <1>4, <1>5 DEF SInv

LEMMA NextKeepsSInv == SInv /\ [SandboxNext]_sandboxVars => SInv'
<1> SUFFICES ASSUME SInv, [SandboxNext]_sandboxVars PROVE SInv'
  OBVIOUS
<1>1. CASE UNCHANGED sandboxVars
  BY <1>1 DEF sandboxVars, outputVars, SInv, SandboxTypeOK, OutputIsCapped, EndOfFile,
              Writers, Alive
<1>2. CASE \E c \in Child : StartsChild(c)
  BY <1>2, StartsChildKeeps
<1>3. CASE \E p \in Process : ProcessExits(p)
  BY <1>3, ProcessExitsKeeps
<1>4. CASE Coroutine \/ Signal
  BY <1>4, MovesKeeps, KillsKeeps DEF Coroutine, Moves
<1> QED
  BY <1>1, <1>2, <1>3, <1>4, WritesKeeps, ReadsKeeps, ReadsEndOfFileKeeps DEF SandboxNext

(* SInv holds whatever the processes of the command do.                       *)
THEOREM SandboxInvariant == SandboxSpec => []SInv
<1> QED
  BY InitSInv, NextKeepsSInv, PTL DEF SandboxSpec

-----------------------------------------------------------------------------
(* What follows.                                                             *)

(* Every part of run_command keeps its type; never more than the cap is kept.  *)
THEOREM SandboxTypeCorrect == SandboxSpec => []SandboxTypeOK
<1>1. SInv => SandboxTypeOK
  BY DEF SInv
<1> QED
  BY <1>1, SandboxInvariant, PTL

(* _drain_output keeps exactly the output up to the cap and flags exactly what  *)
(* it dropped, for every cap and every cutting into chunks.                    *)
THEOREM CapIsExact == SandboxSpec => []OutputIsCapped
<1>1. SInv => OutputIsCapped
  BY DEF SInv
<1> QED
  BY <1>1, SandboxInvariant, PTL

(* When run_command has returned nothing of the command writes any more and    *)
(* all it wrote is accounted for, for any number of processes it started.      *)
THEOREM ReturnedIsFinal == SandboxSpec => []ResultIsFinal
<1>1. SInv => ResultIsFinal
  BY DEF SInv, ResultIsFinal, EndOfFile
<1> QED
  BY <1>1, SandboxInvariant, PTL

-----------------------------------------------------------------------------
(* Why run_command returns (ReturnsUnlessOutlived): the part that is not about     *)
(* time.                                                                     *)

(* The shell does not outlive the kill; whenever the coroutine cannot go on, the    *)
(* reader can, or a process that outlived the shell holds the output open.         *)
HeldUpOnlyByChildren ==
  /\ place \in {"reaping", "draining", "returned"} => process[Shell] = "dead"
  /\ (place = "reaping" /\ ~ WaitDone) \/ (place = "draining" /\ ~ OutputComplete) =>
       \/ reader = "reading" /\ (drained < written \/ EndOfFile)
       \/ \E c \in Child : c \in Writers

(* The coroutine never goes back to an earlier wait.                            *)
WaitsFor(p) ==
  CASE p = "waiting" -> 4 [] p = "terminating" -> 3 [] p = "reaping" -> 2
    [] p = "draining" -> 1 [] p = "returned" -> 0

GoesForward == Coroutine => WaitsFor(place') < WaitsFor(place)

(* SIGKILL reaches the shell, which never leaves its group.                      *)
ShellIsKilled ==
  /\ kind[Shell].grouped
  /\ process[Shell] # "unborn"
  /\ place \in {"reaping", "draining", "returned"} => process[Shell] = "dead"

LEMMA ShellIsKilledKeeps ==
  ASSUME SInv, ShellIsKilled, [SandboxNext]_sandboxVars
  PROVE  ShellIsKilled'
<1> USE DEF ShellIsKilled
<1>1. process \in [Process -> {"unborn", "alive", "dead"}] /\ Shell \in Process
  BY DEF SInv, SandboxTypeOK, Process
<1>2. CASE \E c \in Child : StartsChild(c)
  <2>1. PICK c \in Child : StartsChild(c)
    BY <1>2
  <2>2. c # Shell /\ place' = place /\ place \notin {"reaping", "draining", "returned"}
    BY <1>1, <2>1 DEF StartsChild
  <2> QED
    BY <2>1, <2>2 DEF StartsChild, SInv, SandboxTypeOK
<1>3. CASE \E p \in Process : ProcessExits(p)
  BY <1>1, <1>3 DEF ProcessExits, Killed
<1>4. CASE CancelSeen \/ TimesOut
  <2>1. kind' = kind /\ _terminate
    BY <1>4 DEF CancelSeen, TimesOut
  <2>2. CASE process[Shell] = "dead"
    BY <2>1, <2>2 DEF _terminate
  <2>3. CASE process[Shell] # "dead"
    <3>1. place' = "terminating" /\ process'[Shell] \in {process[Shell], "dead"}
      BY <1>1, <2>1, <2>3 DEF _terminate, Goes, Killed
    <3> QED
      BY <2>1, <3>1
  <2> QED
    BY <2>2, <2>3
<1>6. CASE GraceEnds
  <2>1. Shell \in Group \/ process[Shell] = "dead"
    BY <1>1 DEF Group, Alive
  <2>2. kind' = kind /\ process'[Shell] = "dead"
    BY <1>1, <1>6, <2>1 DEF GraceEnds, Killed
  <2> QED
    BY <2>2
<1>5. CASE CommandEnds \/ TerminatedInTime \/ ExitCodeKnown \/ Returns \/ Signal
  BY <1>5
  DEF CommandEnds, TerminatedInTime, ExitCodeKnown, Returns, Signal, Goes, WaitDone
<1>7. CASE Writes \/ Reads \/ ReadsEndOfFile \/ UNCHANGED sandboxVars
  BY <1>7 DEF Writes, Reads, ReadsEndOfFile, sandboxVars
<1> QED
  BY <1>2, <1>3, <1>4, <1>5, <1>6, <1>7 DEF SandboxNext, Coroutine

(* ReturnsUnlessOutlived without the fairness: past the time limit, the signal and  *)
(* the grace period nothing but a process that outlived the shell delays the result, *)
(* for any number of processes of any kind, and the coroutine waits for at most     *)
(* four things.                                                               *)
THEOREM OnlyChildrenDelay == SandboxSpec => []HeldUpOnlyByChildren /\ [][GoesForward]_sandboxVars
<1>1. SandboxInit => ShellIsKilled
  BY DEF SandboxInit, ShellIsKilled, Process
<1>2. SInv /\ ShellIsKilled => HeldUpOnlyByChildren
  <2> SUFFICES ASSUME SInv, ShellIsKilled,
                      (place = "reaping" /\ ~ WaitDone) \/ (place = "draining" /\ ~ OutputComplete)
               PROVE  \/ reader = "reading" /\ (drained < written \/ EndOfFile)
                      \/ \E c \in Child : c \in Writers
    BY DEF HeldUpOnlyByChildren, ShellIsKilled
  <2>1. process[Shell] = "dead" /\ drained \in 0 .. written /\ written \in Nat
        /\ reader \in {"reading", "done"}
    BY DEF ShellIsKilled, SInv, SandboxTypeOK
  <2>2. reader = "reading"
    BY <2>1 DEF WaitDone, OutputComplete, SInv
  <2>3. CASE Writers = {}
    BY <2>1, <2>2, <2>3 DEF EndOfFile
  <2>4. CASE Writers # {}
    <3>1. PICK p \in Process : p \in Writers
      BY <2>4 DEF Writers, Alive
    <3>2. p # Shell
      BY <2>1, <3>1 DEF Writers, Alive
    <3> QED
      BY <3>1, <3>2 DEF Process
  <2> QED
    BY <2>3, <2>4
<1>3. GoesForward
  BY DEF GoesForward, WaitsFor, Coroutine, CommandEnds, CancelSeen, TimesOut,
         TerminatedInTime, GraceEnds, ExitCodeKnown, Returns, Goes, _terminate
<1>4. SInv /\ ShellIsKilled /\ [SandboxNext]_sandboxVars => ShellIsKilled'
  BY ShellIsKilledKeeps
<1> QED
  BY <1>1, <1>2, <1>3, <1>4, SandboxInvariant, PTL DEF SandboxSpec
=============================================================================
