-------------------------------- MODULE JobTable --------------------------------
(***************************************************************************)
(* What the commands may rely on about the table of Jobs, whoever keeps it:    *)
(* the abstraction CodingAgent.tla (with the manager) and DiscordBot.tla (with   *)
(* the handlers) both implement.  A Job is its status, whether it has a branch,  *)
(* the Job it revises and whether a worker may still have its say about it.     *)
(***************************************************************************)
EXTENDS Naturals

CONSTANT MaxJobs  \* bound on the Jobs of one process

VARIABLE table

Job == 1 .. MaxJobs
NoBase == 0

Entry == [status : {"Absent", "Queued", "Running", "Succeeded", "Failed", "Cancelled"},
          branch : BOOLEAN, base : Job \union {NoBase}, works : BOOLEAN]
NoEntry == [status |-> "Absent", branch |-> FALSE, base |-> NoBase, works |-> FALSE]

Minted(j) == table[j].status # "Absent"
Revisable(j) == table[j].status = "Succeeded" /\ table[j].branch

(* Ids are minted in order; a revision continues the branch of its base.        *)
Accepted(j, base) ==
  /\ ~Minted(j) /\ \A i \in 1 .. j - 1 : Minted(i)
  /\ base # NoBase => Revisable(base)
  /\ table' = [table EXCEPT ![j] = [status |-> "Queued", branch |-> base # NoBase,
                                    base |-> base, works |-> FALSE]]

Becomes(j, status, branch, works) ==
  table' = [table EXCEPT ![j] = [status |-> status, branch |-> branch,
                                 base |-> table[j].base, works |-> works]]

Promoted(j) ==
  /\ table[j].status = "Queued"
  /\ Becomes(j, "Running", table[j].branch, TRUE)

Cancelled(j) ==
  /\ table[j].status \in {"Queued", "Running"}
  /\ Becomes(j, "Cancelled", table[j].branch, table[j].works)

(* A worker that had not begun when its Job was cancelled begins all the same.   *)
Begun(j) ==
  /\ table[j].works /\ table[j].status = "Cancelled"
  /\ Becomes(j, "Running", table[j].branch, TRUE)

(* The worker has its say, over a Cancelled status too; only success may bring   *)
(* a branch.                                                                 *)
Ended(j) ==
  /\ table[j].works
  /\ \/ \E changed \in BOOLEAN :
          Becomes(j, "Succeeded", table[j].branch \/ changed, FALSE)
     \/ \E outcome \in {"Failed", "Cancelled"} :
          Becomes(j, outcome, table[j].branch, FALSE)

(* The process ends and the table with it.                                    *)
Forgotten == table' = [j \in Job |-> NoEntry]

TableInit == table = [j \in Job |-> NoEntry]
TableNext ==
  \/ \E j \in Job :
       \/ \E base \in Job \union {NoBase} : Accepted(j, base)
       \/ Promoted(j) \/ Cancelled(j) \/ Begun(j) \/ Ended(j)
  \/ Forgotten
TableSpec == TableInit /\ [][TableNext]_table

-----------------------------------------------------------------------------
(* Properties.                                                               *)

TableTypeOK == table \in [Job -> Entry]

(* A final answer of /status stays the answer for as long as the process runs:   *)
(* Succeeded, Failed, and Cancelled once no worker may have its say.             *)
KeepsAnswers ==
  \A j \in Job :
    table[j].status \in {"Succeeded", "Failed", "Cancelled"} /\ ~table[j].works =>
      table'[j] = table[j] \/ ~Minted(j)'

FinalForGood == [][KeepsAnswers]_table

(* What a revision revises succeeded with a branch before the revision was asked  *)
(* for, so revisions form no cycle; it still has.                              *)
BasesAreRevisable ==
  \A j \in Job : table[j].base # NoBase => table[j].base < j /\ Revisable(table[j].base)
=============================================================================
