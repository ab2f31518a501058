------------------------- MODULE TargetRegistryProofs -------------------------
(***************************************************************************)
(* The Target_Registry implements RegistryStore and keeps confirmed targets, *)
(* for every set of names and every length of the file.                      *)
(***************************************************************************)
EXTENDS TargetRegistry, SequenceTheorems, WellFoundedInduction, TLAPS

-----------------------------------------------------------------------------
(* Entries and lists of entries.                                             *)

(* The placeholder for "no call" is no entry.                                *)
LEMMA NoEntryIsNone == \A e \in Entry : e # NoEntry
BY DEF NoEntry, Entry, Store!Entry

(* _raw_entries + [entry]: one more entry, at the end.                       *)
LEMMA EntryAppended ==
  ASSUME NEW es \in Seq(Entry), NEW e \in Entry
  PROVE  /\ Append(es, e) \in Seq(Entry)
         /\ Len(es) \in Nat
         /\ Len(Append(es, e)) = Len(es) + 1
         /\ \A n \in 1 .. Len(es) : Append(es, e)[n] = es[n]
         /\ Append(es, e)[Len(es) + 1] = e
         /\ Store!Names(Append(es, e)) = Store!Names(es) \union {e.name}
<1>1. /\ Append(es, e) \in Seq(Entry)
      /\ Len(es) \in Nat
      /\ Len(Append(es, e)) = Len(es) + 1
      /\ \A n \in 1 .. Len(es) : Append(es, e)[n] = es[n]
      /\ Append(es, e)[Len(es) + 1] = e
  BY AppendProperties, LenProperties
<1>2. \A x : x \in Store!Names(Append(es, e)) <=> x \in Store!Names(es) \union {e.name}
  BY <1>1 DEF Store!Names
<1> QED
  BY <1>1, <1>2

(* The entries of a list have names.                                         *)
LEMMA NamesAreNames ==
  ASSUME NEW es \in Seq(Entry)
  PROVE  Store!Names(es) \subseteq Name
<1>1. \A n \in 1 .. Len(es) : es[n] \in Entry
  BY LenProperties
<1> QED
  BY <1>1 DEF Store!Names, Entry, Store!Entry

(* An operator's repair changes one incomplete entry, and not its name.       *)
LEMMA EntryRepaired ==
  ASSUME file \in Seq(Entry), NEW n \in 1 .. Len(file), Store!Repair(n)
  PROVE  /\ file' \in Seq(Entry)
         /\ Len(file') = Len(file)
         /\ \A m \in 1 .. Len(file) :
              /\ file'[m].name = file[m].name
              /\ file[m].config = "complete" => file'[m] = file[m]
<1>1. file[n] \in Entry /\ file[n].config # "complete"
  BY LenProperties DEF Store!Repair
<1>2. file' = [file EXCEPT ![n] = [file[n] EXCEPT !.config = "complete"]]
  BY DEF Store!Repair
<1>3. [file[n] EXCEPT !.config = "complete"] \in Entry
  BY <1>1 DEF Entry, Store!Entry
<1>4. file' \in Seq(Entry) /\ Len(file') = Len(file)
  BY <1>2, <1>3, ExceptSeq
<1>5. \A m \in 1 .. Len(file) :
        file'[m] = IF m = n THEN [file[n] EXCEPT !.config = "complete"] ELSE file[m]
  BY <1>2, ExceptSeq
<1>6. [file[n] EXCEPT !.config = "complete"].name = file[n].name
  BY <1>1 DEF Entry, Store!Entry
<1> QED
  BY <1>1, <1>4, <1>5, <1>6

(* A set of positions that is not empty has a first one.                      *)
LEMMA LeastExists ==
  ASSUME NEW S \in SUBSET Nat, S # {}
  PROVE  \E x \in S : \A y \in S : x <= y
<1>1. IsWellFoundedOn(OpToRel(<, Nat), Nat)
  BY NatLessThanWellFounded
<1>2. S \subseteq Nat
  OBVIOUS
<1>3. PICK x \in S : \A y \in S : ~ (<<y, x>> \in OpToRel(<, Nat))
  BY <1>1, <1>2, WFMin, Zenon
<1>4. \A y \in S : y < x => <<y, x>> \in OpToRel(<, Nat)
  BY <1>2, Zenon DEF OpToRel
<1>5. \A y \in S : ~ (y < x)
  BY <1>3, <1>4, Zenon
<1> QED
  BY <1>2, <1>5

(* What load makes usable under a name is a complete entry of that name.      *)
LEMMA UsableIsComplete ==
  ASSUME NEW es \in Seq(Entry), NEW name \in Name
  PROVE  UsableOf(es)[name] # NoEntry =>
           /\ UsableOf(es)[name] \in Entry
           /\ UsableOf(es)[name].name = name
           /\ UsableOf(es)[name].config = "complete"
<1> DEFINE S == UsableAt(es, name)
           first == CHOOSE k \in S : \A m \in S : k <= m
<1>1. CASE S = {}
  BY <1>1 DEF UsableOf
<1>2. CASE S # {}
  <2>1. S \in SUBSET Nat
    BY LenProperties DEF UsableAt
  <2>2. \E k \in S : \A m \in S : k <= m
    BY <1>2, <2>1, LeastExists
  <2>3. first \in S
    BY <2>2, Zenon
  <2>4. UsableOf(es)[name] = es[first]
    BY <1>2 DEF UsableOf
  <2>5. first \in 1 .. Len(es) /\ es[first].name = name /\ es[first].config = "complete"
    BY <2>3 DEF UsableAt, IsUsable
  <2> HIDE DEF first
  <2>6. es[first] \in Entry
    BY <2>5, LenProperties
  <2> QED
    BY <2>4, <2>5, <2>6
<1> QED
  BY <1>1, <1>2

(* What load makes usable under a name that one complete entry has alone.     *)
LEMMA LoneEntryIsUsable ==
  ASSUME NEW es \in Seq(Entry), NEW n \in 1 .. Len(es), es[n].config = "complete",
         \A m \in 1 .. Len(es) : es[m].name = es[n].name => m = n
  PROVE  UsableOf(es)[es[n].name] = es[n]
<1> DEFINE name == es[n].name
           First(k) == k \in UsableAt(es, name) /\ \A m \in UsableAt(es, name) : k <= m
<1>1. UsableAt(es, name) = {n}
  BY DEF UsableAt, IsUsable
<1>2. name \in Name /\ n \in Nat
  <2>1. es[n] \in Entry /\ n \in Nat
    BY LenProperties
  <2> QED
    BY <2>1 DEF Entry, Store!Entry
<1>3. First(n) /\ \A k : First(k) => k = n
  BY <1>1, <1>2
<1>4. (CHOOSE k : First(k)) = n
  BY <1>3, Zenon
<1>5. (CHOOSE k \in UsableAt(es, name) : \A m \in UsableAt(es, name) : k <= m) = n
  BY <1>4
<1>6. UsableAt(es, name) # {}
  BY <1>1
<1> HIDE DEF name
<1>7. UsableOf(es)[name] = es[n]
  BY <1>2, <1>5, <1>6 DEF UsableOf
<1> QED
  BY <1>7 DEF name

-----------------------------------------------------------------------------
(* The induction.                                                            *)

(* An initial file is a list of entries.                                      *)
LEMMA InitialFile ==
  ASSUME Store!StoreInit
  PROVE  file \in Seq(Entry)
<1>1. PICK n \in 0 .. MaxEntries - 1 :
        file \in [1 .. n -> [name : Name, config : {"complete", "no-remote",
                  "outside-workspace", "invalid"}, by : {"operator"}]]
  BY DEF Store!StoreInit
<1>2. n \in Nat
  BY MaxEntriesAssumption
<1>3. \A m \in 1 .. n : file[m] \in Entry
  BY <1>1 DEF Entry, Store!Entry
<1> QED
  BY <1>1, <1>2, <1>3, SeqDef

LEMMA InitRInv == RegistryInit => RInv
<1> SUFFICES ASSUME RegistryInit PROVE RInv
  OBVIOUS
<1> USE DEF RegistryInit, NoMemory
<1>1. file \in Seq(Entry)
  BY InitialFile
<1>2. raw \in Seq(Entry)
  BY EmptySeq
<1>3. usable = [n \in Name |-> usable[n]] /\ \A n \in Name : usable[n] = NoEntry
  OBVIOUS
<1>4. RegistryTypeOK
  BY <1>1, <1>2, <1>3 DEF RegistryTypeOK
<1> QED
  BY <1>3, <1>4 DEF RInv, PendingIsNew, FileIsMemory, ConfirmedIsAlone,
                    ConfirmedTargetSurvives

(* The type of a usable target, from what is known of its entry.              *)
LEMMA UsableType ==
  ASSUME NEW e \in Entry, e.config \in {"complete", "no-remote"}
  PROVE  e \in [name : {e.name}, config : {"complete", "no-remote"},
                by : {"operator", "addtarget"}]
BY DEF Entry, Store!Entry

(* load: usable are the complete entries, every confirmed one among them.     *)
LEMMA LoadKeeps == ASSUME RInv, load PROVE RInv'
<1> USE DEF load
<1>1. file \in Seq(Entry) /\ adding = NoEntry /\ saved = "nothing"
  BY NoEntryIsNone DEF RInv, RegistryTypeOK, PendingIsNew
<1>2. usable' = [n \in Name |-> usable'[n]]
  BY DEF UsableOf
<1>3. ASSUME NEW n \in Name, usable'[n] # NoEntry
      PROVE  usable'[n] \in [name : {n}, config : {"complete", "no-remote"},
                             by : {"operator", "addtarget"}]
  <2>1. /\ usable'[n] \in Entry
        /\ usable'[n].name = n
        /\ usable'[n].config = "complete"
    BY <1>1, <1>3, UsableIsComplete
  <2> QED
    BY <2>1, UsableType
<1>4. RegistryTypeOK'
  BY <1>1, <1>3, NamesAreNames DEF RInv, RegistryTypeOK
<1>5. ConfirmedTargetSurvives'
  <2> SUFFICES ASSUME NEW e \in acked, e.config = "complete"
               PROVE  usable'[e.name] = e
    BY DEF ConfirmedTargetSurvives
  <2>1. PICK n \in 1 .. Len(file) :
          file[n] = e /\ \A m \in 1 .. Len(file) : file[m].name = e.name => m = n
    BY DEF RInv, ConfirmedIsAlone, Alone
  <2> QED
    BY <1>1, <2>1, LoneEntryIsUsable
<1> QED
  BY <1>1, <1>2, <1>4, <1>5
     DEF RInv, PendingIsNew, FileIsMemory, ConfirmedIsAlone, Alone

(* add: the pending target is new because every name in the file is known.    *)
LEMMA AddKeeps == ASSUME RInv, NEW e \in Entry, add(e) PROVE RInv'
<1> USE DEF add, MemoryOnCall, memory, NameTaken
<1>1. RegistryTypeOK'
  BY DEF RInv, RegistryTypeOK
<1>2. saved = "nothing"
  BY DEF RInv, RegistryTypeOK
<1> QED
  BY <1>1, <1>2 DEF RInv, PendingIsNew, FileIsMemory, ConfirmedIsAlone, Alone,
                    ConfirmedTargetSurvives

(* The temporary file is nobody's file yet.                                   *)
LEMMA TemporaryWrittenKeeps == ASSUME RInv, TemporaryWritten PROVE RInv'
<1> USE DEF TemporaryWritten, memory
<1>1. RegistryTypeOK'
  BY DEF RInv, RegistryTypeOK
<1> QED
  BY <1>1 DEF RInv, PendingIsNew, FileIsMemory, ConfirmedIsAlone, Alone,
              ConfirmedTargetSurvives

(* The file gets the new entry; the confirmed ones stay alone in it.          *)
LEMMA ReplacedKeeps == ASSUME RInv, Replaced PROVE RInv'
<1> USE DEF Replaced, memory, Payload
<1>1. /\ adding \in Entry /\ raw \in Seq(Entry) /\ file \in Seq(Entry) /\ up
      /\ file = raw /\ adding.name \notin Store!Names(raw)
  BY DEF RInv, RegistryTypeOK, PendingIsNew, FileIsMemory
<1>2. file' = Append(file, adding)
  BY <1>1
<1>3. /\ file' \in Seq(Entry)
      /\ Len(file) \in Nat
      /\ Len(file') = Len(file) + 1
      /\ \A n \in 1 .. Len(file) : file'[n] = file[n]
      /\ file'[Len(file) + 1] = adding
  BY <1>1, <1>2, EntryAppended
<1>4. RegistryTypeOK'
  BY <1>3 DEF RInv, RegistryTypeOK
<1>5. ConfirmedIsAlone'
  <2> SUFFICES ASSUME NEW e \in acked, e.config = "complete" PROVE Alone(e)'
    BY DEF ConfirmedIsAlone
  <2>1. PICK n \in 1 .. Len(file) :
          file[n] = e /\ \A m \in 1 .. Len(file) : file[m].name = e.name => m = n
    BY DEF RInv, ConfirmedIsAlone, Alone
  <2>2. adding.name # e.name
    BY <1>1, <2>1 DEF Store!Names
  <2>3. \A m \in 1 .. Len(file') : file'[m].name = e.name => m = n
    BY <1>3, <2>1, <2>2
  <2>4. n \in 1 .. Len(file') /\ file'[n] = e
    BY <1>3, <2>1
  <2> QED
    BY <2>3, <2>4 DEF Alone
<1> QED
  BY <1>1, <1>2, <1>4, <1>5
     DEF RInv, PendingIsNew, FileIsMemory, ConfirmedTargetSurvives

(* A failure before the replacement leaves memory and file as they were.      *)
LEMMA PersistFailsKeeps == ASSUME RInv, PersistFails PROVE RInv'
<1> USE DEF PersistFails, memory
<1>1. RegistryTypeOK'
  BY DEF RInv, RegistryTypeOK
<1> QED
  BY <1>1 DEF RInv, PendingIsNew, FileIsMemory, ConfirmedIsAlone, Alone,
              ConfirmedTargetSurvives

(* Memory and reply follow the file.                                          *)
LEMMA AddedKeeps == ASSUME RInv, Added PROVE RInv'
<1> USE DEF Added
<1>1. /\ adding \in Entry /\ raw \in Seq(Entry) /\ up
      /\ adding.config \in {"complete", "no-remote"}
      /\ file = Append(raw, adding) /\ adding.name \notin Store!Names(raw)
      /\ known = Store!Names(raw)
  BY DEF RInv, RegistryTypeOK, PendingIsNew, FileIsMemory
<1>2. adding.name \in Name
  BY <1>1 DEF Entry, Store!Entry
<1>3. /\ file \in Seq(Entry)
      /\ Len(raw) \in Nat
      /\ Len(file) = Len(raw) + 1
      /\ \A n \in 1 .. Len(raw) : file[n] = raw[n]
      /\ file[Len(raw) + 1] = adding
      /\ Store!Names(file) = known \union {adding.name}
  BY <1>1, EntryAppended
<1>4. /\ usable = [n \in Name |-> usable[n]]
      /\ usable' = [usable EXCEPT ![adding.name] = adding]
  BY DEF RInv
<1>5. \A n \in Name : usable'[n] = IF n = adding.name THEN adding ELSE usable[n]
  BY <1>2, <1>4
<1>6. usable' = [n \in Name |-> usable'[n]]
  BY <1>4
<1>7. RegistryTypeOK'
  <2>1. \A n \in Name : usable'[n] # NoEntry =>
          usable'[n] \in [name : {n}, config : {"complete", "no-remote"},
                          by : {"operator", "addtarget"}]
    BY <1>1, <1>5, UsableType DEF RInv, RegistryTypeOK
  <2> QED
    BY <1>1, <1>2, <1>3, <2>1 DEF RInv, RegistryTypeOK
<1>8. ASSUME NEW e \in acked, e.config = "complete"
      PROVE  e.name \in Name /\ (e.name = adding.name => e = adding)
  <2>1. PICK n \in 1 .. Len(file) :
          file[n] = e /\ \A m \in 1 .. Len(file) : file[m].name = e.name => m = n
    BY <1>8 DEF RInv, ConfirmedIsAlone, Alone
  <2>2. e \in Entry
    BY DEF RInv, RegistryTypeOK
  <2>3. e.name \in Name
    BY <2>2 DEF Entry, Store!Entry
  <2>4. e.name = adding.name => n = Len(raw) + 1
    BY <1>3, <2>1
  <2> QED
    BY <1>3, <2>1, <2>3, <2>4
<1>9. ConfirmedTargetSurvives'
  <2> SUFFICES ASSUME NEW e \in acked', e.config = "complete"
               PROVE  usable'[e.name] = e
    BY DEF ConfirmedTargetSurvives
  <2>1. CASE e = adding
    BY <1>2, <1>5, <2>1
  <2>2. CASE e \in acked /\ e # adding
    BY <1>1, <1>5, <1>8, <2>2 DEF RInv, ConfirmedTargetSurvives
  <2> QED
    BY <2>1, <2>2
<1>10. ConfirmedIsAlone'
  <2> SUFFICES ASSUME NEW e \in acked', e.config = "complete" PROVE Alone(e)'
    BY DEF ConfirmedIsAlone
  <2>1. CASE e = adding
    <3>1. \A m \in 1 .. Len(raw) : file[m].name # adding.name
      BY <1>1, <1>3 DEF Store!Names
    <3>2. Len(raw) + 1 \in 1 .. Len(file)
      BY <1>3
    <3>3. \A m \in 1 .. Len(file) : file[m].name = e.name => m = Len(raw) + 1
      BY <1>3, <2>1, <3>1
    <3> QED
      BY <1>3, <2>1, <3>2, <3>3 DEF Alone
  <2>2. CASE e \in acked
    BY <2>2 DEF RInv, ConfirmedIsAlone, Alone
  <2> QED
    BY <2>1, <2>2
<1> QED
  BY <1>1, <1>3, <1>6, <1>7, <1>9, <1>10 DEF RInv, PendingIsNew, FileIsMemory

(* The process dies between any two steps; the file stays.                    *)
LEMMA CrashKeeps == ASSUME RInv, Crash PROVE RInv'
<1> USE DEF Crash
<1>1. RegistryTypeOK'
  BY EmptySeq DEF RInv, RegistryTypeOK
<1> QED
  BY <1>1 DEF RInv, PendingIsNew, FileIsMemory, ConfirmedIsAlone, Alone,
              ConfirmedTargetSurvives

(* A repair changes no complete entry and no name.                            *)
LEMMA OperatorRepairsKeeps == ASSUME RInv, OperatorRepairs PROVE RInv'
<1> USE DEF OperatorRepairs, memory
<1>1. PICK k \in 1 .. Len(file) : Store!Repair(k)
  OBVIOUS
<1>2. file \in Seq(Entry) /\ ~ up /\ adding = NoEntry /\ saved = "nothing"
  BY NoEntryIsNone DEF RInv, RegistryTypeOK, PendingIsNew
<1>3. /\ file' \in Seq(Entry)
      /\ Len(file') = Len(file)
      /\ \A m \in 1 .. Len(file) :
           /\ file'[m].name = file[m].name
           /\ file[m].config = "complete" => file'[m] = file[m]
  BY <1>1, <1>2, EntryRepaired
<1>4. RegistryTypeOK'
  BY <1>3 DEF RInv, RegistryTypeOK
<1>5. ConfirmedIsAlone'
  BY <1>3 DEF RInv, ConfirmedIsAlone, Alone
<1> QED
  BY <1>2, <1>4, <1>5 DEF RInv, PendingIsNew, FileIsMemory, ConfirmedTargetSurvives

LEMMA NextKeepsRInv == RInv /\ [RegistryNext]_registryVars => RInv'
<1> SUFFICES ASSUME RInv, [RegistryNext]_registryVars PROVE RInv'
  OBVIOUS
<1>1. CASE UNCHANGED registryVars
  <2> USE <1>1 DEF registryVars, memory
  <2>1. RegistryTypeOK'
    BY DEF RInv, RegistryTypeOK
  <2> QED
    BY <2>1 DEF RInv, PendingIsNew, FileIsMemory, ConfirmedIsAlone, Alone,
                ConfirmedTargetSurvives
<1>2. CASE RegistryNext
  <2>1. CASE \E e \in Entry : add(e)
    BY <2>1, AddKeeps
  <2> QED
    BY <1>2, <2>1, LoadKeeps, TemporaryWrittenKeeps, ReplacedKeeps, PersistFailsKeeps,
       AddedKeeps, CrashKeeps, OperatorRepairsKeeps DEF RegistryNext
<1> QED
  BY <1>1, <1>2

(* RInv holds between any two steps, whatever fails and whenever the process   *)
(* dies.                                                                      *)
THEOREM RegistryInvariant == RegistrySpec => []RInv
<1> QED
  BY InitRInv, NextKeepsRInv, PTL DEF RegistrySpec

-----------------------------------------------------------------------------
(* What follows.                                                             *)

(* The file, the memory of add's process and what /addtarget answered keep     *)
(* their types.                                                               *)
THEOREM RegistryTypeCorrect == RegistrySpec => []RegistryTypeOK
<1>1. RInv => RegistryTypeOK
  BY DEF RInv
<1> QED
  BY <1>1, RegistryInvariant, PTL

(* Between two calls of add the memory is what the file says.                 *)
THEOREM MemoryAgrees == RegistrySpec => []MemoryMatchesFile
<1>1. RInv => MemoryMatchesFile
  <2> SUFFICES ASSUME RInv, up, adding = NoEntry
               PROVE  raw = file /\ known = Store!Names(file)
    BY DEF MemoryMatchesFile
  <2>1. saved = "nothing"
    BY DEF RInv
  <2> QED
    BY <2>1 DEF RInv, FileIsMemory
<1> QED
  BY <1>1, RegistryInvariant, PTL

(* A confirmed complete target is the one /build finds under its name, in this *)
(* process and in every later one.                                            *)
THEOREM ConfirmedIsFound == RegistrySpec => []ConfirmedTargetSurvives
<1>1. RInv => ConfirmedTargetSurvives
  BY DEF RInv
<1> QED
  BY <1>1, RegistryInvariant, PTL

(* The file changes only as RegistryStore says: one whole new entry at a time. *)
THEOREM RegistryImplementsStore == RegistrySpec => ImplementsStore
<1>1. RegistryInit => Store!StoreInit
  BY DEF RegistryInit
<1>2. RInv /\ [RegistryNext]_registryVars => [Store!StoreNext]_file
  <2> SUFFICES ASSUME RInv, RegistryNext, file' # file PROVE Store!StoreNext
    BY DEF registryVars
  <2>1. CASE Replaced
    <3> USE <2>1 DEF Replaced, Payload
    <3>1. file = raw /\ file' = Append(file, adding) /\ adding \in Entry
      BY DEF RInv, PendingIsNew, FileIsMemory, RegistryTypeOK
    <3>2. Store!Register(adding)
      BY <3>1 DEF Store!Register, RInv, PendingIsNew
    <3> QED
      BY <3>1, <3>2 DEF Store!StoreNext, Entry
  <2>2. CASE OperatorRepairs
    BY <2>2 DEF OperatorRepairs, Store!StoreNext
  <2> QED
    BY <2>1, <2>2 DEF RegistryNext, load, add, TemporaryWritten, PersistFails, Added, Crash
<1> QED
  BY <1>1, <1>2, RegistryInvariant, PTL
     DEF RegistrySpec, ImplementsStore, Store!StoreSpec
=============================================================================
