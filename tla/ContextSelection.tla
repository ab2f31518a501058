--------------------------- MODULE ContextSelection ---------------------------
(***************************************************************************)
(* The files of the working copy a generation request shows to the model:     *)
(* _load_files and _select_within_budget of CodingAgent                        *)
(* (discord_ollama_agent/coding_agent.py), one file at a time; that all are     *)
(* read before the first is selected makes no difference.  A file is its size   *)
(* and whether it is context; the order of the files is that of their paths.    *)
(***************************************************************************)
EXTENDS Integers, SequencesExt

CONSTANTS MaxFileCount,   \* context_budget.max_file_count
          MaxTotalBytes   \* context_budget.max_total_bytes

ASSUME BudgetAssumption == MaxFileCount \in Nat \ {0} /\ MaxTotalBytes \in Nat \ {0}

VARIABLES
  entries,   \* the files of the working copy
  at,        \* the file that is considered next; 0 when no selection is under way
  selected,  \* the files chosen, by their position, oldest first
  total      \* total_bytes

selectionVars == <<entries, at, selected, total>>

File == [kind : {"text", "binary", "vcs"}, size : Nat]

SelectionTypeOK ==
  /\ entries \in Seq(File)
  /\ at \in Nat
  /\ selected \in Seq(Nat)
  /\ total \in Nat

NoSelection ==
  /\ entries = << >>
  /\ at = 0
  /\ selected = << >>
  /\ total = 0

(* Metadata of version control, unreadable files and files that are not UTF-8   *)
(* are no context.                                                           *)
IsContext(file) == file.kind = "text"

SelectionStarts(copy) ==
  /\ at = 0
  /\ entries' = copy
  /\ at' = 1
  /\ selected' = << >>
  /\ total' = 0

CountReached == Len(selected) >= MaxFileCount
Fits_Alone(file) == file.size <= MaxTotalBytes
Fits(file) == total + file.size <= MaxTotalBytes

Considers == at \in 1 .. Len(entries) /\ ~CountReached

Selects ==
  /\ Considers
  /\ IsContext(entries[at]) /\ Fits(entries[at])
  /\ selected' = Append(selected, at)
  /\ total' = total + entries[at].size
  /\ at' = at + 1
  /\ UNCHANGED entries

AfterTooBig_Stops == IF IsContext(entries[at]) THEN Len(entries) + 1 ELSE at + 1
AfterTooBig == at + 1

Skips ==
  /\ Considers
  /\ ~(IsContext(entries[at]) /\ Fits(entries[at]))
  /\ at' = AfterTooBig
  /\ UNCHANGED <<entries, selected, total>>

SelectionDone == at > 0 /\ ~Considers

(* The locals die with the call, or with the process.                        *)
SelectionForgotten ==
  /\ entries' = << >>
  /\ at' = 0
  /\ selected' = << >>
  /\ total' = 0

SelectionReturns == SelectionDone /\ SelectionForgotten

SelectionStep == Selects \/ Skips

SelectionInit == NoSelection
SelectionNext ==
  \/ \E copy \in Seq(File) : SelectionStarts(copy)
  \/ SelectionStep \/ SelectionReturns \/ SelectionForgotten
SelectionSpec == SelectionInit /\ [][SelectionNext]_selectionVars

-----------------------------------------------------------------------------
(* Properties.                                                               *)

SizeOf(copy, positions) ==
  LET upTo[n \in 0 .. Len(positions)] ==
        IF n = 0 THEN 0 ELSE upTo[n - 1] + copy[positions[n]].size
  IN  upTo[Len(positions)]

(* design.md, Property 9, and what makes it more than the empty selection: the  *)
(* files shown are within both bounds, and every file left out would break     *)
(* one of them, also one that comes after a file that was too big.             *)
LeftOut == {n \in 1 .. Len(entries) : IsContext(entries[n])} \ Range(selected)

WithinBudget == Len(selected) <= MaxFileCount /\ total <= MaxTotalBytes
NoneLeftThatFits == SelectionDone => CountReached \/ \A n \in LeftOut : ~Fits(entries[n])

TotalIsTheirSize == total = SizeOf(entries, selected)

ContextIsMaximal == WithinBudget /\ TotalIsTheirSize /\ NoneLeftThatFits
=============================================================================
