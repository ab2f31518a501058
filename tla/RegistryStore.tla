---------------------------- MODULE RegistryStore ----------------------------
(***************************************************************************)
(* What the Target_Registry promises to whoever reads its file: a list of    *)
(* targets that grows by whole entries under names nobody uses yet, and that *)
(* only an operator changes otherwise.  TargetRegistry.tla implements it.     *)
(***************************************************************************)
EXTENDS Integers, Sequences

CONSTANTS Name,       \* target names
          MaxEntries  \* bound on the entries

(* What the validation of load tells entries apart by, and who wrote them.    *)
Entry == [name : Name,
          config : {"complete", "no-remote", "outside-workspace", "invalid"},
          by : {"operator", "addtarget"}]

VARIABLE entries

Names(es) == {es[n].name : n \in 1 .. Len(es)}

StoreInit ==
  /\ entries \in UNION {[1 .. n -> [name : Name, config : {"complete", "no-remote",
                          "outside-workspace", "invalid"}, by : {"operator"}]] :
                        n \in 0 .. MaxEntries - 1}

Register(e) ==
  /\ Len(entries) < MaxEntries
  /\ e.name \notin Names(entries)
  /\ entries' = Append(entries, e)

(* The operator completes the configuration of an entry.                      *)
Repair(n) ==
  /\ entries[n].config # "complete"
  /\ entries' = [entries EXCEPT ![n].config = "complete"]

StoreNext ==
  \/ \E e \in Entry : Register(e)
  \/ \E n \in 1 .. Len(entries) : Repair(n)

StoreSpec == StoreInit /\ [][StoreNext]_entries
=============================================================================
