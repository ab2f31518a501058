---------------------------- MODULE TargetRegistry ----------------------------
(***************************************************************************)
(* The Target_Registry (discord_ollama_agent/target_registry.py): the JSON   *)
(* file of targets, what load makes of it, and add, which rewrites the file   *)
(* through a temporary one and only then changes the memory.                 *)
(*                                                                         *)
(* add does not suspend, so nothing of the process runs between its steps;    *)
(* but each step can fail, and the process can die between any two.  The      *)
(* operator edits the file while the process is down (external).             *)
(***************************************************************************)
EXTENDS Integers, Sequences, FiniteSets

CONSTANTS Name,       \* target names
          MaxEntries  \* bound on the entries of the file

ASSUME MaxEntriesAssumption == MaxEntries \in Nat \ {0}

VARIABLES
  file,     \* the entries in the registry file
  up,       \* the process runs, and has loaded the file
  raw,      \* _raw_entries
  usable,   \* _usable
  known,    \* _known_names
  adding,   \* the entry add was called with, NoEntry between two calls
  saved,    \* how far _persist is: nothing, temporary file written, replaced
  acked     \* the targets /addtarget has confirmed

memory == <<raw, usable, known>>
registryVars == <<file, up, memory, adding, saved, acked>>

Store == INSTANCE RegistryStore WITH entries <- file

Entry == Store!Entry
NoEntry == [name |-> "none"]

(* _classify_entry: complete and inside the workspace.                        *)
IsUsable_WithoutContainment(e) == e.config \in {"complete", "outside-workspace"}
IsUsable(e) == e.config = "complete"

(* What load makes of the entries: of those with the same name the first      *)
(* usable one counts; the names of excluded ones are known too.               *)
UsableAt(es, name) == {n \in 1 .. Len(es) : es[n].name = name /\ IsUsable(es[n])}
UsableOf(es) ==
  [name \in Name |->
     IF UsableAt(es, name) = {} THEN NoEntry
     ELSE es[CHOOSE n \in UsableAt(es, name) : \A m \in UsableAt(es, name) : n <= m]]

RegistryTypeOK ==
  /\ file \in Seq(Entry) /\ raw \in Seq(Entry)
  /\ up \in BOOLEAN
  /\ \A n \in Name : usable[n] # NoEntry =>
       usable[n] \in [name : {n}, config : {"complete", "no-remote"},
                      by : {"operator", "addtarget"}]
  /\ known \subseteq Name
  /\ adding \in Entry \union {NoEntry}
  /\ saved \in {"nothing", "temporary", "replaced"}
  /\ acked \subseteq Entry

NoMemory ==
  /\ raw = << >>
  /\ usable = [n \in Name |-> NoEntry]
  /\ known = {}

RegistryInit ==
  /\ Store!StoreInit
  /\ up = FALSE
  /\ NoMemory
  /\ adding = NoEntry
  /\ saved = "nothing"
  /\ acked = {}

(* The process starts.  (A missing file is an empty list.)                    *)
load ==
  /\ ~up
  /\ up' = TRUE
  /\ raw' = file
  /\ usable' = UsableOf(file)
  /\ known' = Store!Names(file)
  /\ UNCHANGED <<file, adding, saved, acked>>

-----------------------------------------------------------------------------
(* add, for a target whose directory is inside the workspace and exists: the  *)
(* other two guards refuse without a trace.  The remote may be blank.         *)

NameTaken_ByUsableOnly(name) == usable[name] # NoEntry
NameTaken(name) == name \in known

MemoryOnCall_Updated(e) ==
  /\ raw' = Append(raw, e)
  /\ usable' = [usable EXCEPT ![e.name] = e]
  /\ known' = known \union {e.name}
MemoryOnCall(e) == UNCHANGED memory

add(e) ==
  /\ up
  /\ adding = NoEntry
  /\ e.config \in {"complete", "no-remote"} /\ e.by = "addtarget"
  /\ ~NameTaken(e.name)
  /\ Len(raw) < MaxEntries
  /\ adding' = e
  /\ MemoryOnCall(e)
  /\ UNCHANGED <<file, up, saved, acked>>

(* What _persist writes: excluded entries too.                                *)
Payload_UsableOnly == Append(SelectSeq(raw, IsUsable), adding)
Payload == Append(raw, adding)

TemporaryWritten ==
  /\ adding # NoEntry
  /\ saved = "nothing"
  /\ saved' = "temporary"
  /\ UNCHANGED <<file, up, memory, adding, acked>>

Replaced ==
  /\ saved = "temporary"
  /\ file' = Payload
  /\ saved' = "replaced"
  /\ UNCHANGED <<up, memory, adding, acked>>

(* The temporary file is removed and the error passed on; /addtarget fails.   *)
PersistFails ==
  /\ adding # NoEntry
  /\ saved # "replaced"
  /\ adding' = NoEntry
  /\ saved' = "nothing"
  /\ UNCHANGED <<file, up, memory, acked>>

Added ==
  /\ saved = "replaced"
  /\ raw' = Append(raw, adding)
  /\ usable' = [usable EXCEPT ![adding.name] = adding]
  /\ known' = known \union {adding.name}
  /\ acked' = acked \union {adding}
  /\ adding' = NoEntry
  /\ saved' = "nothing"
  /\ UNCHANGED <<file, up>>

Crash ==
  /\ up
  /\ up' = FALSE
  /\ raw' = << >>
  /\ usable' = [n \in Name |-> NoEntry]
  /\ known' = {}
  /\ adding' = NoEntry
  /\ saved' = "nothing"
  /\ UNCHANGED <<file, acked>>

OperatorRepairs ==
  /\ ~up
  /\ \E n \in 1 .. Len(file) : Store!Repair(n)
  /\ UNCHANGED <<up, memory, adding, saved, acked>>

RegistryNext ==
  \/ load \/ TemporaryWritten \/ Replaced \/ PersistFails \/ Added
  \/ \E e \in Entry : add(e)
  \/ Crash \/ OperatorRepairs

RegistrySpec == RegistryInit /\ [][RegistryNext]_registryVars

-----------------------------------------------------------------------------
(* Properties.                                                               *)

(* Whatever fails and whenever the process dies, the file goes from one list  *)
(* to the next as RegistryStore says: by one whole entry under a new name,     *)
(* with the entries load excluded kept for the operator to repair.            *)
ImplementsStore == Store!StoreSpec

(* Between two calls the memory is what the file says, also after a call that  *)
(* failed half way: the next rewrite loses nothing and invents nothing.       *)
MemoryMatchesFile ==
  up /\ adding = NoEntry => raw = file /\ known = Store!Names(file)

(* A complete target that was confirmed is the one /build finds under its      *)
(* name in this process and in every later one, whatever excluded entries the  *)
(* operator repairs meanwhile.                                                *)
ConfirmedTargetSurvives ==
  \A e \in acked : e.config = "complete" /\ up => usable[e.name] = e

(* The induction behind the three: the pending target is new and there is room *)
(* for it,                                                                    *)
PendingIsNew ==
  adding # NoEntry =>
    /\ up
    /\ adding.config \in {"complete", "no-remote"} /\ adding.by = "addtarget"
    /\ adding.name \notin Store!Names(raw)
    /\ Len(raw) < MaxEntries

(* the memory is the file, until the file has the new entry too,               *)
FileIsMemory ==
  /\ up /\ saved # "replaced" => file = raw
  /\ saved = "replaced" => file = Append(raw, adding)
  /\ up => known = Store!Names(raw)

(* and a confirmed complete target is in the file, alone under its name.       *)
Alone(e) ==
  \E n \in 1 .. Len(file) :
    file[n] = e /\ \A m \in 1 .. Len(file) : file[m].name = e.name => m = n
ConfirmedIsAlone == \A e \in acked : e.config = "complete" => Alone(e)

RInv ==
  /\ RegistryTypeOK
  /\ usable = [n \in Name |-> usable[n]]
  /\ saved # "nothing" => adding # NoEntry
  /\ PendingIsNew
  /\ FileIsMemory
  /\ ConfirmedIsAlone
  /\ ConfirmedTargetSurvives
=============================================================================
