--------------------------- MODULE GitManagerProofs ---------------------------
(***************************************************************************)
(* The safety of GitManager.tla for every set of Jobs and files, every          *)
(* concurrency limit and any number of versions and restarts.                  *)
(***************************************************************************)
EXTENDS GitManager, SequenceTheorems, TLAPS

Syncing == {"none", "fetching", "fetched", "resolved", "cloning", "writing", "ok", "failed"}
Place == {"absent", "syncing", "copying", "working", "pushing", "ended"}
Pushing == {"none", "committing", "sending"} \union Outcome

WorkingCopy == [files : [File -> 0 .. version], head : 0 .. version,
                tracking : [Job -> History], locked : BOOLEAN]

JobRecord ==
  [place : Place,
   branch : Job \union {NoJob},
   syncing : Syncing,
   want : 0 .. version,
   copied : SUBSET Item,
   copy : WorkingCopy,
   edited : BOOLEAN,
   pushing : Pushing,
   local : History,
   outcome : Outcome,
   since : 0 .. version,
   alone : BOOLEAN]

Repository == [cloned : BOOLEAN, files : [File -> 0 .. version], head : 0 .. version,
               fetchHead : 0 .. version, tracking : [Job -> History]]

(* The types, with what each operation needs of them to keep them: a lock that   *)
(* is held is held by a thread that is writing, and a Job that was not started   *)
(* has done nothing.                                                          *)
Typed ==
  /\ version \in 1 .. MaxVersion
  /\ remote \in [Job -> History]
  /\ repo \in Repository
  /\ lock \in {NoJob, DeadProcess} \union Job
  /\ life \in 1 .. MaxLife
  /\ job \in [Job -> JobRecord]

LockIsHeld == \A j \in Job : lock = j => Writing(j)
AbsentIsNew == \A j \in Job : job[j].place = "absent" => job[j] = NewJob

StartedHasBranch == \A j \in Job : job[j].place # "absent" => job[j].branch \in Job

TypeInv == Typed /\ LockIsHeld /\ AbsentIsNew /\ StartedHasBranch

(* In which order a Job does things.                                          *)
OrderedJob(j) ==
  /\ job[j].place \in {"copying", "working", "pushing"} => job[j].syncing = "ok"
  /\ job[j].place = "syncing" => job[j].copied = {}
  /\ job[j].pushing # "none" => job[j].place \in {"pushing", "ended"}
  /\ job[j].outcome # "none" => job[j].place = "ended"

(* A Job that was reported as anything that leaves no commit behind has no thread *)
(* that may make one, and none that did.                                      *)
MayLand == {"none", "pushed", "push-error"}

ReportJob(j) ==
  job[j].outcome \notin MayLand =>
    job[j].pushing \notin {"committing", "sending", "pushed", "push-error"}

(* The commit is in what is sent, and in what has been sent.                    *)
PushedJob(j) ==
  /\ job[j].pushing = "sending" => Contains(job[j].local.commits, <<life, j>>)
  /\ job[j].pushing = "pushed" \/ job[j].outcome = "pushed" =>
       Contains(remote[job[j].branch].commits, <<life, j>>)

(* A history of the branch of b, and the tips anybody knows of a branch: what    *)
(* is known was on the remote, and what is sent is a lineage.  A revision's      *)
(* branch began in this process.                                              *)
Lineage(b, h) ==
  h # Absent =>
    /\ Len(h.commits) >= 1
    /\ h.commits[1][2] = b
    /\ \A n \in 2 .. Len(h.commits) :
         h.commits[n][1] = h.commits[1][1] /\ h.commits[n][2] # b

Known(b, h) == (h # Absent => Len(h.commits) >= 1) /\ Extends(remote[b], h)

BeganHere(b) == remote[b] # Absent /\ remote[b].commits[1][1] = life

LineageJob(j) ==
  /\ job[j].pushing = "sending" => Lineage(job[j].branch, job[j].local)
  /\ job[j].place # "absent" /\ job[j].branch # j => BeganHere(job[j].branch)
  /\ \A b \in Job : Known(b, job[j].copy.tracking[b])

LineageInv ==
  /\ \A b \in Job : Lineage(b, remote[b]) /\ Known(b, repo.tracking[b])
  /\ \A j \in Job : LineageJob(j)

(* A Job that is alone with the target's directory: what its thread is about to  *)
(* check out, what the directory is when it has, and what the copy is while it   *)
(* is made and when it is complete.                                           *)
Settled(j) ==
  /\ \A f \in File : repo.files[f] = repo.head
  /\ repo.head >= job[j].since
  /\ lock = NoJob

AloneSyncing(j) ==
  /\ job[j].syncing = "fetched" => repo.fetchHead >= job[j].since
  /\ job[j].syncing \in {"resolved", "cloning", "writing"} => job[j].want >= job[j].since
  /\ job[j].syncing = "ok" => Settled(j)

AloneCopying(j) ==
  /\ \A f \in File \intersect job[j].copied : job[j].copy.files[f] = repo.head
  /\ DotGit \in job[j].copied => job[j].copy.head = repo.head /\ ~ job[j].copy.locked

AloneJob(j) ==
  job[j].alone =>
    /\ job[j].place \in {"syncing", "copying"} => SyncThreads \subseteq {j} /\ AloneSyncing(j)
    /\ job[j].place = "copying" => AloneCopying(j)
    /\ job[j].place = "working" => WholeCopy(j) /\ FreshCopy(j) /\ ~ job[j].copy.locked

GitInv ==
  /\ TypeInv
  /\ LineageInv
  /\ \A j \in Job : OrderedJob(j) /\ ReportJob(j) /\ PushedJob(j) /\ AloneJob(j)

-----------------------------------------------------------------------------
(* Histories.                                                                *)

LEMMA AbsentIsHistory == Absent \in History
BY GitAssumption, EmptySeq DEF Absent, History

LEMMA NewJobTyped == version \in 1 .. MaxVersion => NewJob \in JobRecord
BY AbsentIsHistory, GitAssumption
DEF NewJob, JobRecord, Place, Syncing, Pushing, WorkingCopy, NoCopy, NoRepo, Outcome, NoJob

LEMMA JobNames == \A j \in Job : j # NoJob /\ j # DeadProcess
BY GitAssumption DEF NoJob, DeadProcess

LEMMA CheckedOutTyped ==
  ASSUME Typed, NEW j \in Job, job[j].branch \in Job
  PROVE  CheckedOut(j) \in History
<1>1. job[j].copy \in WorkingCopy
  BY DEF Typed, JobRecord
<1>2. job[j].copy.head \in 0 .. version /\ job[j].copy.tracking \in [Job -> History]
  BY <1>1 DEF WorkingCopy
<1>3. job[j].copy.head \in 0 .. MaxVersion
  BY <1>2, GitAssumption DEF Typed
<1>4. OnHead(j) \in History
  BY <1>3, EmptySeq DEF OnHead, History
<1> QED
  BY <1>2, <1>4 DEF CheckedOut

LEMMA CommitTyped ==
  ASSUME Typed, NEW j \in Job, NEW h \in History
  PROVE  [h EXCEPT !.commits = Append(@, <<life, j>>)] \in History
<1>1. <<life, j>> \in Commit
  BY DEF Commit, Typed
<1>2. h.commits \in Seq(Commit)
  BY DEF History
<1>3. Append(h.commits, <<life, j>>) \in Seq(Commit)
  BY <1>1, <1>2, AppendProperties
<1> QED
  BY <1>3 DEF History

LEMMA HistoryParts ==
  ASSUME NEW h \in History
  PROVE  /\ h.commits \in Seq(Commit) /\ Len(h.commits) \in Nat
         /\ \A n \in 1 .. Len(h.commits) : h.commits[n] \in Commit
<1>1. h.commits \in Seq(Commit)
  BY DEF History
<1> QED
  BY <1>1, LenProperties, ElementOfSeq

(* h begins with the commits of g.                                             *)
LEMMA ExtensionKeepsCommits ==
  ASSUME NEW g \in History, NEW h \in History, Extends(h, g), g # Absent
  PROVE  /\ h.root = g.root /\ Len(g.commits) <= Len(h.commits)
         /\ \A n \in 1 .. Len(g.commits) : h.commits[n] = g.commits[n]
<1>1. h.root = g.root /\ IsPrefix(g.commits, h.commits)
  BY DEF Extends
<1>2. /\ Len(g.commits) <= Len(h.commits)
      /\ SubSeq(g.commits, 1, Len(g.commits)) = SubSeq(h.commits, 1, Len(g.commits))
  BY <1>1 DEF IsPrefix
<1>3. \A n \in 1 .. Len(g.commits) : g.commits[n] \in Commit /\ h.commits[n] \in Commit
  BY <1>2, HistoryParts
<1>4. Len(g.commits) \in Int /\ 1 \in Int /\ Len(g.commits) \in Nat
  BY HistoryParts
<1>5. \A n \in 1 .. Len(g.commits) - 1 + 1 :
        /\ SubSeq(g.commits, 1, Len(g.commits))[n] = g.commits[1 + n - 1]
        /\ SubSeq(h.commits, 1, Len(g.commits))[n] = h.commits[1 + n - 1]
  BY <1>3, <1>4, SubSeqProperties
<1> QED
  BY <1>1, <1>2, <1>4, <1>5

LEMMA ExtensionFromCommits ==
  ASSUME NEW g \in History, NEW h \in History, h.root = g.root,
         Len(g.commits) <= Len(h.commits),
         \A n \in 1 .. Len(g.commits) : h.commits[n] = g.commits[n]
  PROVE  Extends(h, g)
<1>1. /\ g.commits \in Seq(Commit) /\ h.commits \in Seq(Commit)
      /\ Len(g.commits) \in Nat
  BY HistoryParts
<1>2. SubSeq(g.commits, 1, Len(g.commits)) = SubSeq(h.commits, 1, Len(g.commits))
  BY <1>1
<1> QED
  BY <1>2 DEF Extends, IsPrefix

LEMMA ExtendsItself ==
  ASSUME NEW h \in History
  PROVE  Extends(h, h)
BY HistoryParts, ExtensionFromCommits

LEMMA ExtendsTransitively ==
  ASSUME NEW f \in History, NEW g \in History, NEW h \in History,
         Extends(g, f), Extends(h, g)
  PROVE  Extends(h, f)
<1>1. CASE f = Absent
  BY <1>1 DEF Extends
<1>2. CASE f # Absent /\ g = Absent
  <2>1. Len(f.commits) <= 0 /\ f.root = 0
    BY <1>2, ExtensionKeepsCommits DEF Absent
  <2>2. f.commits = << >>
    BY <2>1, HistoryParts, EmptySeq
  <2>3. f = Absent
    BY <2>1, <2>2 DEF Absent, History
  <2> QED
    BY <1>2, <2>3
<1>3. CASE f # Absent /\ g # Absent
  <2>1. /\ h.root = f.root /\ Len(f.commits) <= Len(h.commits)
        /\ \A n \in 1 .. Len(f.commits) : h.commits[n] = f.commits[n]
    <3>1. /\ g.root = f.root /\ Len(f.commits) <= Len(g.commits)
          /\ \A n \in 1 .. Len(f.commits) : g.commits[n] = f.commits[n]
      BY <1>3, ExtensionKeepsCommits
    <3>2. /\ h.root = g.root /\ Len(g.commits) <= Len(h.commits)
          /\ \A n \in 1 .. Len(g.commits) : h.commits[n] = g.commits[n]
      BY <1>3, ExtensionKeepsCommits
    <3>3. Len(f.commits) \in Nat /\ Len(g.commits) \in Nat /\ Len(h.commits) \in Nat
      BY HistoryParts
    <3> QED
      BY <3>1, <3>2, <3>3
  <2> QED
    BY <2>1, ExtensionFromCommits
<1> QED
  BY <1>1, <1>2, <1>3

LEMMA ExtensionContains ==
  ASSUME NEW g \in History, NEW h \in History, Extends(h, g), NEW c, Contains(g.commits, c)
  PROVE  Contains(h.commits, c)
<1>1. PICK n \in 1 .. Len(g.commits) : g.commits[n] = c
  BY DEF Contains
<1>2. g # Absent
  BY <1>1 DEF Absent
<1>3. n \in 1 .. Len(h.commits) /\ h.commits[n] = c
  BY <1>1, <1>2, ExtensionKeepsCommits, HistoryParts
<1> QED
  BY <1>3 DEF Contains

-----------------------------------------------------------------------------
(* What a step changes of the Job it is a step of, part by part.               *)

Others(j) == \A i \in Job \ {j} : job'[i] = job[i]
SameStart(j) ==
  job'[j].branch = job[j].branch /\ job'[j].since = job[j].since /\ job'[j].alone = job[j].alone
SameSync(j) == job'[j].syncing = job[j].syncing /\ job'[j].want = job[j].want
SameCopy(j) == job'[j].copied = job[j].copied /\ job'[j].copy = job[j].copy
SamePlace(j) == job'[j].place = job[j].place /\ job'[j].outcome = job[j].outcome
SameEdited(j) == job'[j].edited = job[j].edited
SamePush(j) == job'[j].pushing = job[j].pushing /\ job'[j].local = job[j].local

(* The thread of the sync goes on.                                            *)
LEMMA SyncingChanges ==
  ASSUME Typed, NEW j \in Job, NEW s \in Syncing,
         job' = [job EXCEPT ![j].syncing = s]
  PROVE  /\ job' \in [Job -> JobRecord] /\ Others(j)
         /\ job'[j].syncing = s /\ SameStart(j) /\ job'[j].want = job[j].want
         /\ SameCopy(j) /\ SamePlace(j) /\ SameEdited(j) /\ SamePush(j)
<1>1. job[j] \in JobRecord
  BY DEF Typed
<1>2. Others(j)
  BY DEF Others, Typed
<1>3. job'[j] = [job[j] EXCEPT !.syncing = s]
  BY DEF Typed
<1>4. ASSUME NEW r \in JobRecord, NEW t, t = [r EXCEPT !.syncing = s]
      PROVE  /\ t \in JobRecord
             /\ t.syncing = s /\ t.branch = r.branch /\ t.since = r.since
             /\ t.alone = r.alone /\ t.want = r.want /\ t.copied = r.copied
             /\ t.copy = r.copy /\ t.place = r.place /\ t.outcome = r.outcome
             /\ t.edited = r.edited /\ t.pushing = r.pushing
             /\ t.local = r.local
  BY <1>4 DEF JobRecord
<1>5. /\ job'[j] \in JobRecord
      /\ job'[j].syncing = s /\ job'[j].branch = job[j].branch
      /\ job'[j].since = job[j].since /\ job'[j].alone = job[j].alone
      /\ job'[j].want = job[j].want /\ job'[j].copied = job[j].copied
      /\ job'[j].copy = job[j].copy /\ job'[j].place = job[j].place
      /\ job'[j].outcome = job[j].outcome /\ job'[j].edited = job[j].edited
      /\ job'[j].pushing = job[j].pushing /\ job'[j].local = job[j].local
  BY <1>1, <1>3, <1>4, Zenon
<1>6. job' \in [Job -> JobRecord]
  BY <1>5 DEF Typed
<1> QED
  BY <1>2, <1>5, <1>6
  DEF SameStart, SameSync, SameCopy, SamePlace, SameEdited, SamePush

(* It learns which version it is to check out.                                *)
LEMMA TargetChanges ==
  ASSUME Typed, NEW j \in Job, NEW s \in Syncing, NEW w \in 0 .. version,
         job' = [job EXCEPT ![j].syncing = s, ![j].want = w]
  PROVE  /\ job' \in [Job -> JobRecord] /\ Others(j)
         /\ job'[j].syncing = s /\ job'[j].want = w /\ SameStart(j)
         /\ SameCopy(j) /\ SamePlace(j) /\ SameEdited(j) /\ SamePush(j)
<1>1. job[j] \in JobRecord
  BY DEF Typed
<1>2. Others(j)
  BY DEF Others, Typed
<1>3. job'[j] = [job[j] EXCEPT !.syncing = s, !.want = w]
  BY DEF Typed
<1>4. ASSUME NEW r \in JobRecord, NEW t, t = [r EXCEPT !.syncing = s, !.want = w]
      PROVE  /\ t \in JobRecord
             /\ t.syncing = s /\ t.want = w /\ t.branch = r.branch
             /\ t.since = r.since /\ t.alone = r.alone /\ t.copied = r.copied
             /\ t.copy = r.copy /\ t.place = r.place /\ t.outcome = r.outcome
             /\ t.edited = r.edited /\ t.pushing = r.pushing
             /\ t.local = r.local
  BY <1>4 DEF JobRecord
<1>5. /\ job'[j] \in JobRecord
      /\ job'[j].syncing = s /\ job'[j].want = w
      /\ job'[j].branch = job[j].branch /\ job'[j].since = job[j].since
      /\ job'[j].alone = job[j].alone /\ job'[j].copied = job[j].copied
      /\ job'[j].copy = job[j].copy /\ job'[j].place = job[j].place
      /\ job'[j].outcome = job[j].outcome /\ job'[j].edited = job[j].edited
      /\ job'[j].pushing = job[j].pushing /\ job'[j].local = job[j].local
  BY <1>1, <1>3, <1>4, Zenon
<1>6. job' \in [Job -> JobRecord]
  BY <1>5 DEF Typed
<1> QED
  BY <1>2, <1>5, <1>6
  DEF SameStart, SameSync, SameCopy, SamePlace, SameEdited, SamePush

(* The coroutine goes on.                                                     *)
LEMMA PlaceChanges ==
  ASSUME Typed, NEW j \in Job, NEW p \in Place,
         job' = [job EXCEPT ![j].place = p]
  PROVE  /\ job' \in [Job -> JobRecord] /\ Others(j)
         /\ job'[j].place = p /\ SameStart(j) /\ SameSync(j) /\ SameCopy(j)
         /\ job'[j].outcome = job[j].outcome /\ SameEdited(j) /\ SamePush(j)
<1>1. job[j] \in JobRecord
  BY DEF Typed
<1>2. Others(j)
  BY DEF Others, Typed
<1>3. job'[j] = [job[j] EXCEPT !.place = p]
  BY DEF Typed
<1>4. ASSUME NEW r \in JobRecord, NEW t, t = [r EXCEPT !.place = p]
      PROVE  /\ t \in JobRecord
             /\ t.place = p /\ t.branch = r.branch /\ t.since = r.since
             /\ t.alone = r.alone /\ t.syncing = r.syncing /\ t.want = r.want
             /\ t.copied = r.copied /\ t.copy = r.copy
             /\ t.outcome = r.outcome /\ t.edited = r.edited
             /\ t.pushing = r.pushing /\ t.local = r.local
  BY <1>4 DEF JobRecord
<1>5. /\ job'[j] \in JobRecord
      /\ job'[j].place = p /\ job'[j].branch = job[j].branch
      /\ job'[j].since = job[j].since /\ job'[j].alone = job[j].alone
      /\ job'[j].syncing = job[j].syncing /\ job'[j].want = job[j].want
      /\ job'[j].copied = job[j].copied /\ job'[j].copy = job[j].copy
      /\ job'[j].outcome = job[j].outcome /\ job'[j].edited = job[j].edited
      /\ job'[j].pushing = job[j].pushing /\ job'[j].local = job[j].local
  BY <1>1, <1>3, <1>4, Zenon
<1>6. job' \in [Job -> JobRecord]
  BY <1>5 DEF Typed
<1> QED
  BY <1>2, <1>5, <1>6
  DEF SameStart, SameSync, SameCopy, SamePlace, SameEdited, SamePush

(* The Job ends.                                                              *)
LEMMA JobEnds ==
  ASSUME Typed, NEW j \in Job, NEW p \in Place, NEW o \in Outcome,
         job' = [job EXCEPT ![j].place = p, ![j].outcome = o]
  PROVE  /\ job' \in [Job -> JobRecord] /\ Others(j)
         /\ job'[j].place = p /\ job'[j].outcome = o /\ SameStart(j)
         /\ SameSync(j) /\ SameCopy(j) /\ SameEdited(j) /\ SamePush(j)
<1>1. job[j] \in JobRecord
  BY DEF Typed
<1>2. Others(j)
  BY DEF Others, Typed
<1>3. job'[j] = [job[j] EXCEPT !.place = p, !.outcome = o]
  BY DEF Typed
<1>4. ASSUME NEW r \in JobRecord, NEW t, t = [r EXCEPT !.place = p, !.outcome = o]
      PROVE  /\ t \in JobRecord
             /\ t.place = p /\ t.outcome = o /\ t.branch = r.branch
             /\ t.since = r.since /\ t.alone = r.alone
             /\ t.syncing = r.syncing /\ t.want = r.want
             /\ t.copied = r.copied /\ t.copy = r.copy /\ t.edited = r.edited
             /\ t.pushing = r.pushing /\ t.local = r.local
  BY <1>4 DEF JobRecord
<1>5. /\ job'[j] \in JobRecord
      /\ job'[j].place = p /\ job'[j].outcome = o
      /\ job'[j].branch = job[j].branch /\ job'[j].since = job[j].since
      /\ job'[j].alone = job[j].alone /\ job'[j].syncing = job[j].syncing
      /\ job'[j].want = job[j].want /\ job'[j].copied = job[j].copied
      /\ job'[j].copy = job[j].copy /\ job'[j].edited = job[j].edited
      /\ job'[j].pushing = job[j].pushing /\ job'[j].local = job[j].local
  BY <1>1, <1>3, <1>4, Zenon
<1>6. job' \in [Job -> JobRecord]
  BY <1>5 DEF Typed
<1> QED
  BY <1>2, <1>5, <1>6
  DEF SameStart, SameSync, SameCopy, SamePlace, SameEdited, SamePush

(* The work on the copy is done and the push begins.                          *)
LEMMA WorkDone ==
  ASSUME Typed, NEW j \in Job, NEW e \in BOOLEAN, NEW p \in Place, NEW u \in Pushing,
         job' = [job EXCEPT ![j].edited = e, ![j].place = p, ![j].pushing = u]
  PROVE  /\ job' \in [Job -> JobRecord] /\ Others(j)
         /\ job'[j].edited = e /\ job'[j].place = p /\ job'[j].pushing = u
         /\ SameStart(j) /\ SameSync(j) /\ SameCopy(j)
         /\ job'[j].outcome = job[j].outcome /\ job'[j].local = job[j].local
<1>1. job[j] \in JobRecord
  BY DEF Typed
<1>2. Others(j)
  BY DEF Others, Typed
<1>3. job'[j] = [job[j] EXCEPT !.edited = e, !.place = p, !.pushing = u]
  BY DEF Typed
<1>4. ASSUME NEW r \in JobRecord, NEW t, t = [r EXCEPT !.edited = e, !.place = p, !.pushing = u]
      PROVE  /\ t \in JobRecord
             /\ t.edited = e /\ t.place = p /\ t.pushing = u
             /\ t.branch = r.branch /\ t.since = r.since /\ t.alone = r.alone
             /\ t.syncing = r.syncing /\ t.want = r.want
             /\ t.copied = r.copied /\ t.copy = r.copy
             /\ t.outcome = r.outcome /\ t.local = r.local
  BY <1>4 DEF JobRecord
<1>5. /\ job'[j] \in JobRecord
      /\ job'[j].edited = e /\ job'[j].place = p /\ job'[j].pushing = u
      /\ job'[j].branch = job[j].branch /\ job'[j].since = job[j].since
      /\ job'[j].alone = job[j].alone /\ job'[j].syncing = job[j].syncing
      /\ job'[j].want = job[j].want /\ job'[j].copied = job[j].copied
      /\ job'[j].copy = job[j].copy /\ job'[j].outcome = job[j].outcome
      /\ job'[j].local = job[j].local
  BY <1>1, <1>3, <1>4, Zenon
<1>6. job' \in [Job -> JobRecord]
  BY <1>5 DEF Typed
<1> QED
  BY <1>2, <1>5, <1>6
  DEF SameStart, SameSync, SameCopy, SamePlace, SameEdited, SamePush

(* The thread of the push goes on.                                            *)
LEMMA PushingChanges ==
  ASSUME Typed, NEW j \in Job, NEW u \in Pushing,
         job' = [job EXCEPT ![j].pushing = u]
  PROVE  /\ job' \in [Job -> JobRecord] /\ Others(j)
         /\ job'[j].pushing = u /\ SameStart(j) /\ SameSync(j) /\ SameCopy(j)
         /\ SamePlace(j) /\ SameEdited(j) /\ job'[j].local = job[j].local
<1>1. job[j] \in JobRecord
  BY DEF Typed
<1>2. Others(j)
  BY DEF Others, Typed
<1>3. job'[j] = [job[j] EXCEPT !.pushing = u]
  BY DEF Typed
<1>4. ASSUME NEW r \in JobRecord, NEW t, t = [r EXCEPT !.pushing = u]
      PROVE  /\ t \in JobRecord
             /\ t.pushing = u /\ t.branch = r.branch /\ t.since = r.since
             /\ t.alone = r.alone /\ t.syncing = r.syncing /\ t.want = r.want
             /\ t.copied = r.copied /\ t.copy = r.copy /\ t.place = r.place
             /\ t.outcome = r.outcome /\ t.edited = r.edited
             /\ t.local = r.local
  BY <1>4 DEF JobRecord
<1>5. /\ job'[j] \in JobRecord
      /\ job'[j].pushing = u /\ job'[j].branch = job[j].branch
      /\ job'[j].since = job[j].since /\ job'[j].alone = job[j].alone
      /\ job'[j].syncing = job[j].syncing /\ job'[j].want = job[j].want
      /\ job'[j].copied = job[j].copied /\ job'[j].copy = job[j].copy
      /\ job'[j].place = job[j].place /\ job'[j].outcome = job[j].outcome
      /\ job'[j].edited = job[j].edited /\ job'[j].local = job[j].local
  BY <1>1, <1>3, <1>4, Zenon
<1>6. job' \in [Job -> JobRecord]
  BY <1>5 DEF Typed
<1> QED
  BY <1>2, <1>5, <1>6
  DEF SameStart, SameSync, SameCopy, SamePlace, SameEdited, SamePush

(* It has committed.                                                          *)
LEMMA CommitMade ==
  ASSUME Typed, NEW j \in Job, NEW u \in Pushing, NEW h \in History,
         job' = [job EXCEPT ![j].pushing = u, ![j].local = h]
  PROVE  /\ job' \in [Job -> JobRecord] /\ Others(j)
         /\ job'[j].pushing = u /\ job'[j].local = h /\ SameStart(j)
         /\ SameSync(j) /\ SameCopy(j) /\ SamePlace(j) /\ SameEdited(j)
<1>1. job[j] \in JobRecord
  BY DEF Typed
<1>2. Others(j)
  BY DEF Others, Typed
<1>3. job'[j] = [job[j] EXCEPT !.pushing = u, !.local = h]
  BY DEF Typed
<1>4. ASSUME NEW r \in JobRecord, NEW t, t = [r EXCEPT !.pushing = u, !.local = h]
      PROVE  /\ t \in JobRecord
             /\ t.pushing = u /\ t.local = h /\ t.branch = r.branch
             /\ t.since = r.since /\ t.alone = r.alone
             /\ t.syncing = r.syncing /\ t.want = r.want
             /\ t.copied = r.copied /\ t.copy = r.copy /\ t.place = r.place
             /\ t.outcome = r.outcome /\ t.edited = r.edited
  BY <1>4 DEF JobRecord
<1>5. /\ job'[j] \in JobRecord
      /\ job'[j].pushing = u /\ job'[j].local = h
      /\ job'[j].branch = job[j].branch /\ job'[j].since = job[j].since
      /\ job'[j].alone = job[j].alone /\ job'[j].syncing = job[j].syncing
      /\ job'[j].want = job[j].want /\ job'[j].copied = job[j].copied
      /\ job'[j].copy = job[j].copy /\ job'[j].place = job[j].place
      /\ job'[j].outcome = job[j].outcome /\ job'[j].edited = job[j].edited
  BY <1>1, <1>3, <1>4, Zenon
<1>6. job' \in [Job -> JobRecord]
  BY <1>5 DEF Typed
<1> QED
  BY <1>2, <1>5, <1>6
  DEF SameStart, SameSync, SameCopy, SamePlace, SameEdited, SamePush

(* One more item is copied.                                                   *)
LEMMA CopyChanges ==
  ASSUME Typed, NEW j \in Job, NEW d \in SUBSET Item, NEW c \in WorkingCopy,
         job' = [job EXCEPT ![j].copied = d, ![j].copy = c]
  PROVE  /\ job' \in [Job -> JobRecord] /\ Others(j)
         /\ job'[j].copied = d /\ job'[j].copy = c /\ SameStart(j)
         /\ SameSync(j) /\ SamePlace(j) /\ SameEdited(j) /\ SamePush(j)
<1>1. job[j] \in JobRecord
  BY DEF Typed
<1>2. Others(j)
  BY DEF Others, Typed
<1>3. job'[j] = [job[j] EXCEPT !.copied = d, !.copy = c]
  BY DEF Typed
<1>4. ASSUME NEW r \in JobRecord, NEW t, t = [r EXCEPT !.copied = d, !.copy = c]
      PROVE  /\ t \in JobRecord
             /\ t.copied = d /\ t.copy = c /\ t.branch = r.branch
             /\ t.since = r.since /\ t.alone = r.alone
             /\ t.syncing = r.syncing /\ t.want = r.want /\ t.place = r.place
             /\ t.outcome = r.outcome /\ t.edited = r.edited
             /\ t.pushing = r.pushing /\ t.local = r.local
  BY <1>4 DEF JobRecord
<1>5. /\ job'[j] \in JobRecord
      /\ job'[j].copied = d /\ job'[j].copy = c
      /\ job'[j].branch = job[j].branch /\ job'[j].since = job[j].since
      /\ job'[j].alone = job[j].alone /\ job'[j].syncing = job[j].syncing
      /\ job'[j].want = job[j].want /\ job'[j].place = job[j].place
      /\ job'[j].outcome = job[j].outcome /\ job'[j].edited = job[j].edited
      /\ job'[j].pushing = job[j].pushing /\ job'[j].local = job[j].local
  BY <1>1, <1>3, <1>4, Zenon
<1>6. job' \in [Job -> JobRecord]
  BY <1>5 DEF Typed
<1> QED
  BY <1>2, <1>5, <1>6
  DEF SameStart, SameSync, SameCopy, SamePlace, SameEdited, SamePush

-----------------------------------------------------------------------------
(* Types.                                                                    *)

LEMMA AbsentHasDoneNothing ==
  ASSUME TypeInv, NEW j \in Job, job[j].place = "absent"
  PROVE  /\ job[j].syncing = "none" /\ job[j].pushing = "none" /\ job[j].outcome = "none"
         /\ job[j].alone = FALSE /\ job[j].copied = {}
BY DEF TypeInv, AbsentIsNew, NewJob

(* A step of one Job that was started keeps the types if what it writes is typed. *)
LEMMA StepKeepsTypes ==
  ASSUME TypeInv, NEW j \in Job, Others(j), job' \in [Job -> JobRecord],
         job'[j].branch = job[j].branch,
         job[j].place # "absent", job'[j].place # "absent",
         version' = version, life' = life,
         remote' \in [Job -> History], repo' \in Repository,
         lock' \in {NoJob, DeadProcess} \union Job,
         \A i \in Job : lock' = i => job'[i].syncing \in {"cloning", "writing"}
  PROVE  TypeInv'
<1>1. Typed'
  BY DEF TypeInv, Typed, JobRecord, WorkingCopy, Repository
<1>2. LockIsHeld'
  BY DEF LockIsHeld, Writing
<1>3. AbsentIsNew' /\ StartedHasBranch'
  BY DEF TypeInv, AbsentIsNew, StartedHasBranch, Others
<1> QED
  BY <1>1, <1>2, <1>3 DEF TypeInv

LEMMA OvertakenJob ==
  ASSUME NEW r \in JobRecord, NEW a \in BOOLEAN, NEW s, s = [r EXCEPT !.alone = a]
  PROVE  /\ s \in JobRecord
         /\ s.place = r.place /\ s.branch = r.branch /\ s.syncing = r.syncing
         /\ s.want = r.want /\ s.copied = r.copied /\ s.copy = r.copy
         /\ s.edited = r.edited /\ s.pushing = r.pushing /\ s.local = r.local
         /\ s.outcome = r.outcome /\ s.since = r.since /\ s.alone = a
         /\ r.alone = a => s = r
BY DEF JobRecord

(* Versions only grow, so what is within one version stays within the next.    *)
LEMMA JobStartsKeepsTypes ==
  ASSUME TypeInv, NEW j \in Job, JobStarts(j)
  PROVE  TypeInv'
<1>1. PICK b \in {branch_name_for(j)} \union
                 {job[i].branch : i \in {i \in Job : job[i].outcome = "pushed"}} :
        job' = [i \in Job |->
          IF i = j
          THEN [NewJob EXCEPT !.place = "syncing", !.branch = b, !.syncing = "fetching",
                              !.since = version, !.alone = (SyncThreads = {})]
          ELSE [job[i] EXCEPT !.alone = @ /\ job[i].place # "syncing"]]
  BY DEF JobStarts
<1>2. UNCHANGED <<version, remote, repo, lock, life>> /\ job[j].place = "absent"
  BY DEF JobStarts
<1>3. NewJob \in JobRecord /\ NewJob.outcome = "none" /\ NewJob.syncing = "none"
      /\ NewJob.alone = FALSE
  BY NewJobTyped DEF TypeInv, Typed, NewJob
<1>4. b \in Job
  <2>1. \A i \in Job : job[i].outcome = "pushed" => job[i].branch \in Job
    BY <1>3 DEF TypeInv, StartedHasBranch, AbsentIsNew
  <2> QED
    BY <2>1 DEF branch_name_for
<1>5. job'[j] \in JobRecord /\ job'[j].place = "syncing" /\ job'[j].branch = b
  <2>1. version \in 0 .. version
    BY DEF TypeInv, Typed
  <2>2. job'[j] = [NewJob EXCEPT !.place = "syncing", !.branch = b, !.syncing = "fetching",
                                 !.since = version, !.alone = (SyncThreads = {})]
    BY <1>1
  <2>4. NewJob \in JobRecord
    BY <1>3
  <2>5. PICK a \in BOOLEAN :
          job'[j] = [NewJob EXCEPT !.place = "syncing", !.branch = b, !.syncing = "fetching",
                                   !.since = version, !.alone = a]
    BY <2>2
  <2> QED
    BY <1>4, <2>1, <2>4, <2>5 DEF JobRecord, Place, Syncing
<1>6. ASSUME NEW i \in Job \ {j}
      PROVE  /\ job'[i] \in JobRecord
             /\ job'[i].syncing = job[i].syncing
             /\ job'[i].place = job[i].place
             /\ job'[i].branch = job[i].branch
             /\ job[i].place = "absent" => job'[i] = job[i]
  <2>1. job'[i] = [job[i] EXCEPT !.alone = @ /\ job[i].place # "syncing"]
    BY <1>1
  <2>2. job[i] \in JobRecord
    BY DEF TypeInv, Typed
  <2>3. PICK a \in BOOLEAN : a = (job[i].alone /\ job[i].place # "syncing")
    OBVIOUS
  <2>4. job'[i] = [job[i] EXCEPT !.alone = a]
    BY <2>1, <2>3
  <2>5. job[i].place = "absent" => job[i].alone = a
    BY <2>2, <2>3 DEF JobRecord
  <2> QED
    BY <2>2, <2>4, <2>5, OvertakenJob
<1>7. job' \in [Job -> JobRecord]
  BY <1>1, <1>5, <1>6, Zenon
<1>8. Typed'
  BY <1>2, <1>7 DEF TypeInv, Typed, JobRecord, WorkingCopy, Repository
<1>9. lock # j
  BY <1>2, <1>3 DEF TypeInv, LockIsHeld, AbsentIsNew, Writing
<1> QED
  BY <1>2, <1>4, <1>5, <1>6, <1>8, <1>9
  DEF TypeInv, LockIsHeld, AbsentIsNew, StartedHasBranch, Writing

-----------------------------------------------------------------------------
(* What a step leaves as it is.                                              *)

LEMMA GrowthKeeps ==
  ASSUME GitInv, NEW b \in Job, remote' \in [Job -> History],
         Extends(remote'[b], remote[b])
  PROVE  /\ \A c : Contains(remote[b].commits, c) => Contains(remote'[b].commits, c)
         /\ BeganHere(b) /\ life' = life => BeganHere(b)'
         /\ \A h \in History : Extends(remote[b], h) => Extends(remote'[b], h)
<1>1. remote[b] \in History /\ remote'[b] \in History
  BY DEF GitInv, TypeInv, Typed
<1>2. \A c : Contains(remote[b].commits, c) => Contains(remote'[b].commits, c)
  BY <1>1, ExtensionContains
<1>3. \A h \in History : Extends(remote[b], h) => Extends(remote'[b], h)
  BY <1>1, ExtendsTransitively
<1>4. ASSUME BeganHere(b), life' = life
      PROVE  BeganHere(b)'
  <2>1. remote[b] # Absent /\ remote[b].commits[1][1] = life
    BY <1>4 DEF BeganHere
  <2>2. Len(remote[b].commits) >= 1
    BY <2>1 DEF GitInv, LineageInv, Lineage
  <2>3. /\ Len(remote[b].commits) <= Len(remote'[b].commits)
        /\ remote'[b].commits[1] = remote[b].commits[1]
    BY <1>1, <2>1, <2>2, ExtensionKeepsCommits, HistoryParts
  <2>4. Len(remote'[b].commits) # 0
    BY <1>1, <2>2, <2>3, HistoryParts
  <2>5. remote'[b] # Absent
    BY <2>4 DEF Absent
  <2> QED
    BY <1>4, <2>1, <2>3, <2>5 DEF BeganHere
<1> QED
  BY <1>2, <1>3, <1>4

(* Of every Job but the one that steps.                                        *)
LEMMA OthersKeep ==
  ASSUME GitInv, NEW j \in Job, Others(j), life' = life, remote' \in [Job -> History],
         \A b \in Job : Extends(remote'[b], remote[b]), NEW i \in Job \ {j}
  PROVE  OrderedJob(i)' /\ ReportJob(i)' /\ PushedJob(i)' /\ LineageJob(i)'
<1>1. job'[i] = job[i]
  BY DEF Others
<1>2. OrderedJob(i) /\ ReportJob(i) /\ PushedJob(i) /\ LineageJob(i)
  BY DEF GitInv, LineageInv
<1>3. OrderedJob(i)'
  BY <1>1, <1>2 DEF OrderedJob
<1>4. ReportJob(i)'
  BY <1>1, <1>2 DEF ReportJob
<1>5. job[i].place # "absent" => job[i].branch \in Job
  BY DEF GitInv, TypeInv, StartedHasBranch
<1>6. PushedJob(i)'
  <2>1. job[i].pushing = "pushed" \/ job[i].outcome = "pushed" => job[i].place # "absent"
    BY <1>2 DEF OrderedJob
  <2> QED
    BY <1>1, <1>2, <1>5, <2>1, GrowthKeeps DEF PushedJob
<1>7. LineageJob(i)'
  <2>1. \A b \in Job : job[i].copy.tracking[b] \in History
    <3>1. job[i].copy \in WorkingCopy
      BY DEF GitInv, TypeInv, Typed, JobRecord
    <3> QED
      BY <3>1 DEF WorkingCopy
  <2>2. \A b \in Job : Known(b, job[i].copy.tracking[b])'
    BY <1>1, <1>2, <2>1, GrowthKeeps DEF LineageJob, Known
  <2>3. job[i].place # "absent" /\ job[i].branch # i =>
          BeganHere(job[i].branch) /\ job[i].branch \in Job
    BY <1>2, <1>5 DEF LineageJob
  <2>4. \A b \in Job : BeganHere(b) => remote'[b] # Absent /\ remote'[b].commits[1][1] = life'
    BY GrowthKeeps DEF BeganHere
  <2>5. job[i].pushing = "sending" => Lineage(job[i].branch, job[i].local)
    BY <1>2 DEF LineageJob
  <2>6. (job[i].pushing = "sending" => Lineage(job[i].branch, job[i].local))'
    BY <1>1, <2>5 DEF Lineage, Absent
  <2> QED
    BY <1>1, <2>2, <2>3, <2>4, <2>6 DEF LineageJob, BeganHere
<1> QED
  BY <1>3, <1>4, <1>6, <1>7

LEMMA SameRemoteGrows ==
  ASSUME GitInv, remote' = remote
  PROVE  remote' \in [Job -> History] /\ \A b \in Job : Extends(remote'[b], remote[b])
BY ExtendsItself DEF GitInv, TypeInv, Typed

(* A step outside the directory and its threads leaves every other Job alone       *)
(* that was.                                                                  *)
LEMMA OthersStayAlone ==
  ASSUME GitInv, NEW j \in Job, Others(j), SameSync(j), repo' = repo, lock' = lock,
         NEW i \in Job \ {j}
  PROVE  AloneJob(i)'
<1>1. job'[i] = job[i] /\ AloneJob(i)
  BY DEF Others, GitInv
<1>2. SyncThreads' = SyncThreads
  BY DEF SyncThreads, Writing, Others, SameSync
<1> QED
  BY <1>1, <1>2
  DEF AloneJob, AloneSyncing, AloneCopying, Settled, WholeCopy, FreshCopy

-----------------------------------------------------------------------------
(* The thread of a sync.                                                     *)

(* What it may do: anything to the directory, for a Job that waits for it or has  *)
(* given it up.  No other Job that was alone is syncing or copying then.          *)
LEMMA SyncStepKeeps ==
  ASSUME GitInv, NEW j \in Job, j \in SyncThreads,
         Others(j), job' \in [Job -> JobRecord],
         SameStart(j), SameCopy(j), SamePlace(j), SameEdited(j), SamePush(j),
         version' = version, remote' = remote, life' = life,
         repo' \in Repository, repo'.tracking \in {repo.tracking, remote},
         lock' \in {NoJob, DeadProcess} \union Job,
         \A i \in Job : lock' = i => job'[i].syncing \in {"cloning", "writing"},
         job[j].alone /\ job[j].place = "syncing" => AloneSyncing(j)'
  PROVE  GitInv'
<1>1. OrderedJob(j) /\ ReportJob(j) /\ PushedJob(j) /\ LineageJob(j) /\ AloneJob(j) /\ TypeInv
  BY DEF GitInv, LineageInv
<1>2. job[j].syncing \notin {"none", "ok"}
  BY DEF SyncThreads, Writing
<1>3. job[j].place \notin {"absent", "copying", "working", "pushing"}
  BY <1>1, <1>2, AbsentHasDoneNothing DEF OrderedJob
<1>4. TypeInv'
  BY <1>1, <1>3, StepKeepsTypes DEF SameStart, SamePlace, TypeInv, Typed
<1>5. \A i \in Job \ {j} :
        OrderedJob(i)' /\ ReportJob(i)' /\ PushedJob(i)' /\ LineageJob(i)'
  BY OthersKeep, SameRemoteGrows
<1>6. OrderedJob(j)'
  BY <1>1, <1>3 DEF OrderedJob, SameCopy, SamePlace, SamePush
<1>7. ReportJob(j)'
  BY <1>1 DEF ReportJob, SamePlace, SamePush
<1>8. PushedJob(j)'
  BY <1>1 DEF PushedJob, SameStart, SamePlace, SamePush
<1>9. LineageJob(j)'
  BY <1>1 DEF LineageJob, BeganHere, Lineage, Known, SameStart, SamePlace, SamePush, SameCopy
<1>10. LineageInv'
  <2>1. \A b \in Job : Lineage(b, remote[b]) /\ Known(b, repo.tracking[b])
    BY DEF GitInv, LineageInv
  <2>2. \A b \in Job : Known(b, remote[b])
    BY <2>1, SameRemoteGrows DEF Known, Lineage
  <2>3. \A b \in Job : Known(b, repo.tracking[b])'
    BY <2>1, <2>2 DEF Known
  <2>4. (\A b \in Job : Lineage(b, remote[b]))'
    BY <2>1 DEF Lineage, Absent
  <2> QED
    BY <1>5, <1>9, <2>3, <2>4 DEF LineageInv
<1>11. ASSUME NEW i \in Job \ {j}
       PROVE  AloneJob(i)'
  <2>1. job'[i] = job[i] /\ AloneJob(i)
    BY DEF Others, GitInv
  <2>2. job[i].alone => job[i].place \notin {"syncing", "copying"}
    BY <2>1 DEF AloneJob
  <2> QED
    BY <2>1, <2>2 DEF AloneJob, WholeCopy, FreshCopy
<1>12. AloneJob(j)'
  <2>1. SyncThreads \subseteq {j} => SyncThreads' \subseteq {j}
    BY DEF SyncThreads, Writing, Others
  <2> QED
    BY <1>1, <1>3, <2>1 DEF AloneJob, SameStart, SamePlace
<1> QED
  BY <1>4, <1>5, <1>6, <1>7, <1>8, <1>10, <1>11, <1>12 DEF GitInv

LEMMA LockStays ==
  ASSUME GitInv, NEW j \in Job, Others(j), lock' = lock,
         lock # j \/ job'[j].syncing \in {"cloning", "writing"}
  PROVE  \A i \in Job : lock' = i => job'[i].syncing \in {"cloning", "writing"}
BY DEF Others, GitInv, TypeInv, LockIsHeld, Writing

LEMMA CloneKeeps ==
  ASSUME GitInv, NEW j \in Job, _clone(j)
  PROVE  GitInv'
<1>1. Typed
  BY DEF GitInv, TypeInv
<1>2. /\ job' \in [Job -> JobRecord] /\ Others(j)
      /\ job'[j].syncing = "cloning" /\ job'[j].want = version /\ SameStart(j)
      /\ SameCopy(j) /\ SamePlace(j) /\ SameEdited(j) /\ SamePush(j)
  <2>1. "cloning" \in Syncing /\ version \in 0 .. version
    BY <1>1 DEF Syncing, Typed
  <2> QED
    BY <1>1, <2>1, TargetChanges DEF _clone
<1>3. repo' \in Repository
  BY <1>1 DEF _clone, Typed, Repository
<1>4. repo'.tracking = remote
  BY <1>1 DEF _clone, Typed, Repository
<1>5. job[j].since <= version
  BY <1>1 DEF Typed, JobRecord
<1>6. AloneSyncing(j)'
  BY <1>1, <1>2, <1>5 DEF AloneSyncing, SameStart, Typed, JobRecord
<1>7. \A i \in Job : lock' = i => job'[i].syncing \in {"cloning", "writing"}
  BY <1>2 DEF _clone
<1>8. j \in SyncThreads
  BY DEF _clone, SyncThreads
<1> QED
  BY <1>1, <1>2, <1>3, <1>4, <1>6, <1>7, <1>8, SyncStepKeeps DEF _clone

LEMMA FetchKeeps ==
  ASSUME GitInv, NEW j \in Job, Fetch(j)
  PROVE  GitInv'
<1>1. Typed
  BY DEF GitInv, TypeInv
<1>2. /\ job' \in [Job -> JobRecord] /\ Others(j)
      /\ job'[j].syncing = "fetched" /\ SameStart(j)
      /\ SameCopy(j) /\ SamePlace(j) /\ SameEdited(j) /\ SamePush(j)
  <2>1. "fetched" \in Syncing
    BY DEF Syncing
  <2> QED
    BY <1>1, <2>1, SyncingChanges DEF Fetch
<1>3. repo' \in Repository /\ repo'.tracking = repo.tracking /\ repo'.fetchHead = version
  BY <1>1 DEF Fetch, Typed, Repository
<1>4. job[j].since <= version
  BY <1>1 DEF Typed, JobRecord
<1>5. AloneSyncing(j)'
  BY <1>2, <1>3, <1>4 DEF AloneSyncing, SameStart
<1>6. lock # j
  BY DEF Fetch, GitInv, TypeInv, LockIsHeld, Writing
<1>7. \A i \in Job : lock' = i => job'[i].syncing \in {"cloning", "writing"}
  BY <1>2, <1>6, LockStays DEF Fetch
<1>8. j \in SyncThreads
  BY DEF Fetch, SyncThreads
<1> QED
  BY <1>1, <1>2, <1>3, <1>5, <1>7, <1>8, SyncStepKeeps DEF Fetch, Typed

LEMMA ResetResolvesKeeps ==
  ASSUME GitInv, NEW j \in Job, ResetResolves(j)
  PROVE  GitInv'
<1>1. Typed
  BY DEF GitInv, TypeInv
<1>2. /\ job' \in [Job -> JobRecord] /\ Others(j)
      /\ job'[j].syncing = "resolved" /\ job'[j].want = repo.fetchHead /\ SameStart(j)
      /\ SameCopy(j) /\ SamePlace(j) /\ SameEdited(j) /\ SamePush(j)
  <2>1. "resolved" \in Syncing /\ repo.fetchHead \in 0 .. version
    BY <1>1 DEF Syncing, Typed, Repository
  <2> QED
    BY <1>1, <2>1, TargetChanges DEF ResetResolves, ResetTarget
<1>3. job[j].alone /\ job[j].place = "syncing" => AloneSyncing(j)'
  <2>1. job[j].alone /\ job[j].place = "syncing" => AloneSyncing(j)
    BY DEF GitInv, AloneJob
  <2> QED
    BY <1>2, <2>1 DEF AloneSyncing, SameStart, ResetResolves
<1>4. lock # j
  BY DEF ResetResolves, GitInv, TypeInv, LockIsHeld, Writing
<1>5. \A i \in Job : lock' = i => job'[i].syncing \in {"cloning", "writing"}
  BY <1>2, <1>4, LockStays DEF ResetResolves
<1>6. j \in SyncThreads
  BY DEF ResetResolves, SyncThreads
<1> QED
  BY <1>1, <1>2, <1>3, <1>5, <1>6, SyncStepKeeps DEF ResetResolves, Typed

LEMMA ResetLocksKeeps ==
  ASSUME GitInv, NEW j \in Job, ResetLocks(j)
  PROVE  GitInv'
<1>1. Typed
  BY DEF GitInv, TypeInv
<1>2. /\ job' \in [Job -> JobRecord] /\ Others(j)
      /\ job'[j].syncing = "writing" /\ SameStart(j) /\ job'[j].want = job[j].want
      /\ SameCopy(j) /\ SamePlace(j) /\ SameEdited(j) /\ SamePush(j)
  <2>1. "writing" \in Syncing
    BY DEF Syncing
  <2> QED
    BY <1>1, <2>1, SyncingChanges DEF ResetLocks
<1>3. job[j].alone /\ job[j].place = "syncing" => AloneSyncing(j)'
  <2>1. job[j].alone /\ job[j].place = "syncing" => AloneSyncing(j)
    BY DEF GitInv, AloneJob
  <2> QED
    BY <1>2, <2>1 DEF AloneSyncing, SameStart, ResetLocks
<1>4. \A i \in Job : lock' = i => job'[i].syncing \in {"cloning", "writing"}
  BY <1>2 DEF ResetLocks
<1>5. j \in SyncThreads
  BY DEF ResetLocks, SyncThreads
<1> QED
  BY <1>1, <1>2, <1>3, <1>4, <1>5, SyncStepKeeps DEF ResetLocks, Typed

LEMMA ResetWritesKeeps ==
  ASSUME GitInv, NEW j \in Job, ResetWrites(j)
  PROVE  GitInv'
<1>1. Typed /\ job' = job /\ lock' = lock
  BY DEF GitInv, TypeInv, ResetWrites
<1>2. job[j].want \in 0 .. version
  BY <1>1 DEF Typed, JobRecord
<1>3. repo' \in Repository /\ repo'.tracking = repo.tracking
  <2>1. PICK f \in File : repo' = [repo EXCEPT !.files[f] = job[j].want]
    BY DEF ResetWrites
  <2> QED
    BY <1>1, <1>2, <2>1 DEF Typed, Repository
<1>4. job[j].alone /\ job[j].place = "syncing" => AloneSyncing(j)'
  <2>1. job[j].alone /\ job[j].place = "syncing" => AloneSyncing(j)
    BY DEF GitInv, AloneJob
  <2> QED
    BY <1>1, <2>1 DEF AloneSyncing, ResetWrites, Writing
<1>5. \A i \in Job : lock' = i => job'[i].syncing \in {"cloning", "writing"}
  BY <1>1 DEF GitInv, TypeInv, LockIsHeld, Writing
<1>6. j \in SyncThreads
  BY DEF ResetWrites, SyncThreads
<1>7. /\ job' \in [Job -> JobRecord] /\ Others(j) /\ SameStart(j) /\ SameCopy(j)
      /\ SamePlace(j) /\ SameEdited(j) /\ SamePush(j)
  BY <1>1 DEF Typed, Others, SameStart, SameCopy, SamePlace, SameEdited, SamePush
<1> QED
  BY <1>1, <1>3, <1>4, <1>5, <1>6, <1>7, SyncStepKeeps DEF ResetWrites, Typed

LEMMA ResetEndsKeeps ==
  ASSUME GitInv, NEW j \in Job, ResetEnds(j)
  PROVE  GitInv'
<1>1. Typed
  BY DEF GitInv, TypeInv
<1>2. /\ job' \in [Job -> JobRecord] /\ Others(j)
      /\ job'[j].syncing = "ok" /\ SameStart(j) /\ job'[j].want = job[j].want
      /\ SameCopy(j) /\ SamePlace(j) /\ SameEdited(j) /\ SamePush(j)
  <2>1. "ok" \in Syncing
    BY DEF Syncing
  <2> QED
    BY <1>1, <2>1, SyncingChanges DEF ResetEnds
<1>3. job[j].want \in 0 .. version
  BY <1>1 DEF Typed, JobRecord
<1>4. /\ repo' \in Repository /\ repo'.tracking = repo.tracking
      /\ repo'.files = repo.files /\ repo'.head = job[j].want
  BY <1>1, <1>3 DEF ResetEnds, Typed, Repository
<1>5. job[j].alone /\ job[j].place = "syncing" => AloneSyncing(j)'
  <2>1. job[j].alone /\ job[j].place = "syncing" => job[j].want >= job[j].since
    BY DEF GitInv, AloneJob, AloneSyncing, ResetEnds, Writing
  <2>2. \A f \in File : repo'.files[f] = repo'.head
    BY <1>4 DEF ResetEnds
  <2> QED
    BY <1>2, <1>4, <2>1, <2>2 DEF AloneSyncing, Settled, SameStart, ResetEnds
<1>6. \A i \in Job : lock' # i /\ lock' = NoJob
  BY JobNames DEF ResetEnds
<1>7. j \in SyncThreads
  BY DEF ResetEnds, SyncThreads
<1> QED
  BY <1>1, <1>2, <1>4, <1>5, <1>6, <1>7, SyncStepKeeps DEF ResetEnds, Typed

LEMMA SyncThreadFailsKeeps ==
  ASSUME GitInv, NEW j \in Job, SyncThreadFails(j)
  PROVE  GitInv'
<1>1. Typed
  BY DEF GitInv, TypeInv
<1>2. /\ job' \in [Job -> JobRecord] /\ Others(j)
      /\ job'[j].syncing = "failed" /\ SameStart(j)
      /\ SameCopy(j) /\ SamePlace(j) /\ SameEdited(j) /\ SamePush(j)
  <2>1. "failed" \in Syncing
    BY DEF Syncing
  <2> QED
    BY <1>1, <2>1, SyncingChanges DEF SyncThreadFails
<1>3. AloneSyncing(j)'
  BY <1>2 DEF AloneSyncing
<1>4. lock # j
  BY DEF SyncThreadFails, GitInv, TypeInv, LockIsHeld, Writing
<1>5. \A i \in Job : lock' = i => job'[i].syncing \in {"cloning", "writing"}
  BY <1>2, <1>4, LockStays DEF SyncThreadFails
<1>6. j \in SyncThreads
  BY DEF SyncThreadFails, SyncThreads
<1> QED
  BY <1>1, <1>2, <1>3, <1>5, <1>6, SyncStepKeeps DEF SyncThreadFails, Typed

LEMMA CloneKilledKeeps ==
  ASSUME GitInv, NEW j \in Job, CloneKilled(j)
  PROVE  GitInv'
<1>1. Typed
  BY DEF GitInv, TypeInv
<1>2. /\ job' \in [Job -> JobRecord] /\ Others(j)
      /\ job'[j].syncing = "failed" /\ SameStart(j)
      /\ SameCopy(j) /\ SamePlace(j) /\ SameEdited(j) /\ SamePush(j)
  <2>1. "failed" \in Syncing
    BY DEF Syncing
  <2> QED
    BY <1>1, <2>1, SyncingChanges DEF CloneKilled
<1>3. AloneSyncing(j)'
  BY <1>2 DEF AloneSyncing
<1>4. \A i \in Job : lock' # i /\ lock' = DeadProcess
  BY JobNames DEF CloneKilled
<1>5. j \in SyncThreads
  BY DEF CloneKilled, SyncThreads, Writing
<1> QED
  BY <1>1, <1>2, <1>3, <1>4, <1>5, SyncStepKeeps DEF CloneKilled, Typed

-----------------------------------------------------------------------------
(* The coroutine of a Job and the thread of its push: neither touches the          *)
(* directory, and the remote only grows.                                       *)

LEMMA OwnStepKeeps ==
  ASSUME GitInv, NEW j \in Job, job[j].place # "absent", job'[j].place # "absent",
         Others(j), job' \in [Job -> JobRecord], SameStart(j), SameSync(j),
         version' = version, life' = life, repo' = repo, lock' = lock,
         remote' \in [Job -> History], \A b \in Job : Extends(remote'[b], remote[b]),
         \A b \in Job : Lineage(b, remote[b])',
         OrderedJob(j)', ReportJob(j)', PushedJob(j)', LineageJob(j)', AloneJob(j)'
  PROVE  GitInv'
<1>1. TypeInv /\ Typed
  BY DEF GitInv, TypeInv
<1>2. TypeInv'
  <2>1. \A i \in Job : lock' = i => job'[i].syncing \in {"cloning", "writing"}
    BY <1>1 DEF TypeInv, LockIsHeld, Writing, Others, SameSync
  <2> QED
    BY <1>1, <2>1, StepKeepsTypes DEF SameStart, Typed
<1>3. \A i \in Job \ {j} :
        OrderedJob(i)' /\ ReportJob(i)' /\ PushedJob(i)' /\ LineageJob(i)'
  BY OthersKeep
<1>4. \A i \in Job \ {j} : AloneJob(i)'
  BY OthersStayAlone
<1>5. LineageInv'
  <2>1. \A b \in Job : repo.tracking[b] \in History /\ Known(b, repo.tracking[b])
    BY <1>1 DEF Typed, Repository, GitInv, LineageInv
  <2>2. \A b \in Job : Known(b, repo.tracking[b])'
    BY <2>1, GrowthKeeps DEF Known
  <2> QED
    BY <1>3, <2>2 DEF LineageInv
<1> QED
  BY <1>2, <1>3, <1>4, <1>5 DEF GitInv

LEMMA SameHistories ==
  ASSUME GitInv, remote' = remote, life' = life
  PROVE  \A b \in Job : Lineage(b, remote[b])'
BY DEF GitInv, LineageInv, Lineage, Absent

(* What a step of a coroutine that leaves the copy alone need not say.             *)
LEMMA CoroutineKeeps ==
  ASSUME GitInv, NEW j \in Job, job[j].place # "absent", job'[j].place # "absent",
         Others(j), job' \in [Job -> JobRecord], SameStart(j), SameSync(j), SameCopy(j),
         UNCHANGED <<version, remote, repo, lock, life>>,
         OrderedJob(j)', ReportJob(j)', PushedJob(j)', AloneJob(j)',
         job'[j].pushing = "sending" => job[j].pushing = "sending" /\ job'[j].local = job[j].local
  PROVE  GitInv'
<1>1. LineageJob(j)
  BY DEF GitInv, LineageInv
<1>2. LineageJob(j)'
  BY <1>1 DEF LineageJob, BeganHere, Lineage, Known, Absent, SameStart, SameCopy
<1>3. \A b \in Job : Lineage(b, remote[b])'
  BY SameHistories
<1> QED
  BY <1>2, <1>3, SameRemoteGrows, OwnStepKeeps

(* A Job that ends, with something it may end with.                              *)
LEMMA JobEndsKeeps ==
  ASSUME GitInv, NEW j \in Job, NEW o \in Outcome, Ends(j, o),
         job[j].place # "absent", UNCHANGED <<version, remote, repo, lock, life>>,
         o = "pushed" => job[j].pushing = o,
         o \notin MayLand =>
           job[j].pushing \notin {"committing", "sending", "pushed", "push-error"}
  PROVE  GitInv'
<1>1. Typed /\ OrderedJob(j) /\ ReportJob(j) /\ PushedJob(j)
  BY DEF GitInv, TypeInv
<1>2. /\ job' \in [Job -> JobRecord] /\ Others(j)
      /\ job'[j].place = "ended" /\ job'[j].outcome = o
      /\ SameStart(j) /\ SameSync(j) /\ SameCopy(j) /\ SameEdited(j) /\ SamePush(j)
  BY <1>1, JobEnds DEF Ends, Place
<1>3. OrderedJob(j)'
  BY <1>2 DEF OrderedJob
<1>4. ReportJob(j)'
  BY <1>1, <1>2 DEF ReportJob, SamePush
<1>5. PushedJob(j)'
  BY <1>1, <1>2 DEF PushedJob, SameStart, SamePush
<1>6. AloneJob(j)'
  BY <1>2 DEF AloneJob
<1> QED
  BY <1>2, <1>3, <1>4, <1>5, <1>6, CoroutineKeeps DEF SamePush

LEMMA SyncResultKeeps ==
  ASSUME GitInv, NEW j \in Job, sync_default_branch(j)
  PROVE  GitInv'
<1>1. job[j].place = "syncing" /\ UNCHANGED <<version, remote, repo, lock, life>>
  BY DEF sync_default_branch
<1>2. CASE Ends(j, "sync-failure")
  <2>1. job[j].pushing = "none"
    BY <1>1 DEF GitInv, OrderedJob
  <2> QED
    BY <1>1, <1>2, <2>1, JobEndsKeeps DEF Outcome
<1>3. CASE job[j].syncing = "ok" /\ Goes(j, "copying")
  <2>1. Typed /\ OrderedJob(j) /\ ReportJob(j) /\ PushedJob(j) /\ AloneJob(j)
    BY DEF GitInv, TypeInv
  <2>2. /\ job' \in [Job -> JobRecord] /\ Others(j)
        /\ job'[j].place = "copying" /\ SameStart(j) /\ SameSync(j) /\ SameCopy(j)
        /\ job'[j].outcome = job[j].outcome /\ SameEdited(j) /\ SamePush(j)
    BY <1>3, <2>1, PlaceChanges DEF Goes, Place
  <2>3. OrderedJob(j)'
    BY <1>1, <1>3, <2>1, <2>2 DEF OrderedJob, SameSync, SamePush
  <2>4. ReportJob(j)'
    BY <2>1, <2>2 DEF ReportJob, SamePush
  <2>5. PushedJob(j)'
    BY <1>1, <2>1, <2>2 DEF PushedJob, SameStart, SamePush
  <2>6. AloneJob(j)'
    <3>1. SyncThreads' = SyncThreads
      BY <2>2 DEF SyncThreads, Writing, Others, SameSync
    <3>2. job[j].copied = {}
      BY <1>1, <2>1 DEF OrderedJob
    <3>3. job'[j].copied = {}
      BY <2>2, <3>2 DEF SameCopy
    <3>4. AloneCopying(j)'
      BY <3>3 DEF AloneCopying
    <3>5. AloneSyncing(j) => AloneSyncing(j)'
      BY <1>1, <2>2 DEF AloneSyncing, Settled, SameSync, SameStart
    <3> QED
      BY <1>1, <2>1, <2>2, <3>1, <3>4, <3>5 DEF AloneJob, SameStart
  <2> QED
    BY <1>1, <2>2, <2>3, <2>4, <2>5, <2>6, CoroutineKeeps DEF SamePush
<1> QED
  BY <1>2, <1>3 DEF sync_default_branch

LEMMA InitWorkingDirKeeps ==
  ASSUME GitInv, NEW j \in Job, init_working_dir(j)
  PROVE  GitInv'
<1>1. job[j].place = "copying" /\ UNCHANGED <<version, remote, repo, lock, life>>
  BY DEF init_working_dir
<1>2. CASE Ends(j, "sandbox-init-failure")
  <2>1. job[j].pushing = "none"
    BY <1>1 DEF GitInv, OrderedJob
  <2> QED
    BY <1>1, <1>2, <2>1, JobEndsKeeps DEF Outcome
<1>3. CASE job[j].copied = Item /\ Goes(j, "working")
  <2>1. Typed /\ OrderedJob(j) /\ ReportJob(j) /\ PushedJob(j) /\ AloneJob(j)
    BY DEF GitInv, TypeInv
  <2>2. /\ job' \in [Job -> JobRecord] /\ Others(j)
        /\ job'[j].place = "working" /\ SameStart(j) /\ SameSync(j) /\ SameCopy(j)
        /\ job'[j].outcome = job[j].outcome /\ SameEdited(j) /\ SamePush(j)
    BY <1>3, <2>1, PlaceChanges DEF Goes, Place
  <2>3. OrderedJob(j)'
    BY <1>1, <2>1, <2>2 DEF OrderedJob, SameSync, SamePush
  <2>4. ReportJob(j)'
    BY <2>1, <2>2 DEF ReportJob, SamePush
  <2>5. PushedJob(j)'
    BY <1>1, <2>1, <2>2 DEF PushedJob, SameStart, SamePush
  <2>6. ASSUME job[j].alone
        PROVE  (WholeCopy(j) /\ FreshCopy(j) /\ ~ job[j].copy.locked)'
    <3>1. AloneSyncing(j) /\ AloneCopying(j) /\ job[j].syncing = "ok"
      BY <1>1, <2>1, <2>6 DEF AloneJob, OrderedJob
    <3>2. \A f \in File : job[j].copy.files[f] = repo.head
      BY <1>3, <3>1 DEF AloneCopying, Item
    <3>3. job[j].copy.head = repo.head /\ ~ job[j].copy.locked
      BY <1>3, <3>1 DEF AloneCopying, Item
    <3>4. repo.head >= job[j].since
      BY <3>1 DEF AloneSyncing, Settled
    <3> QED
      BY <2>2, <3>2, <3>3, <3>4 DEF WholeCopy, FreshCopy, SameCopy, SameStart
  <2>7. AloneJob(j)'
    BY <2>2, <2>6 DEF AloneJob, SameStart
  <2> QED
    BY <1>1, <2>2, <2>3, <2>4, <2>5, <2>7, CoroutineKeeps DEF SamePush
<1> QED
  BY <1>2, <1>3 DEF init_working_dir

LEMMA CopyItemKeeps ==
  ASSUME GitInv, NEW j \in Job, CopyItem(j)
  PROVE  GitInv'
<1>1. Typed /\ OrderedJob(j) /\ ReportJob(j) /\ PushedJob(j) /\ LineageJob(j) /\ AloneJob(j)
  BY DEF GitInv, TypeInv, LineageInv
<1>2. job[j].place = "copying" /\ UNCHANGED <<version, remote, repo, lock, life>>
  BY DEF CopyItem
<1>3. PICK i \in Item \ job[j].copied :
        job' = [job EXCEPT
          ![j].copied = @ \union {i},
          ![j].copy =
             IF i = DotGit
             THEN [@ EXCEPT !.head = repo.head, !.tracking = repo.tracking,
                            !.locked = (lock # NoJob)]
             ELSE [@ EXCEPT !.files[i] = repo.files[i]]]
  BY DEF CopyItem
<1> DEFINE d == job[j].copied \union {i}
           c == IF i = DotGit
                THEN [job[j].copy EXCEPT !.head = repo.head, !.tracking = repo.tracking,
                                         !.locked = (lock # NoJob)]
                ELSE [job[j].copy EXCEPT !.files[i] = repo.files[i]]
<1>4. job' = [job EXCEPT ![j].copied = d, ![j].copy = c]
  BY <1>1, <1>3 DEF Typed
<1>5. job[j].copy \in WorkingCopy /\ job[j].copied \in SUBSET Item
  BY <1>1 DEF Typed, JobRecord
<1>6. /\ c \in WorkingCopy
      /\ \A b \in Job : Known(b, c.tracking[b])
      /\ job[j].alone => \A f \in File \intersect d : c.files[f] = repo.head
      /\ job[j].alone /\ DotGit \in d => c.head = repo.head /\ ~ c.locked
  <2>1. \A b \in Job : Known(b, repo.tracking[b]) /\ Known(b, job[j].copy.tracking[b])
    BY <1>1 DEF GitInv, LineageInv, LineageJob
  <2>2. job[j].alone => Settled(j) /\ AloneCopying(j)
    BY <1>1, <1>2 DEF AloneJob, AloneSyncing, OrderedJob
  <2>3. repo \in Repository
    BY <1>1 DEF Typed
  <2>4. CASE i = DotGit
    <3>1. PICK l \in BOOLEAN : l = (lock # NoJob)
      OBVIOUS
    <3>2. c = [job[j].copy EXCEPT !.head = repo.head, !.tracking = repo.tracking, !.locked = l]
      BY <2>4, <3>1
    <3>3. /\ c \in WorkingCopy /\ c.files = job[j].copy.files /\ c.head = repo.head
          /\ c.tracking = repo.tracking /\ c.locked = l
      BY <1>5, <2>3, <3>2 DEF WorkingCopy, Repository
    <3>4. job[j].alone => ~ c.locked
      BY <2>2, <3>1, <3>3 DEF Settled
    <3>5. File \intersect d \subseteq job[j].copied
      BY <2>4, GitAssumption
    <3>6. job[j].alone => \A f \in File \intersect d : c.files[f] = repo.head
      BY <2>2, <3>3, <3>5 DEF AloneCopying
    <3> QED
      BY <2>1, <3>3, <3>4, <3>6
  <2>5. CASE i # DotGit
    <3>1. i \in File
      BY <2>5 DEF Item
    <3>2. c = [job[j].copy EXCEPT !.files[i] = repo.files[i]]
      BY <2>5
    <3>3. /\ c \in WorkingCopy
          /\ c.files = [job[j].copy.files EXCEPT ![i] = repo.files[i]]
          /\ c.head = job[j].copy.head
          /\ c.tracking = job[j].copy.tracking /\ c.locked = job[j].copy.locked
      BY <1>5, <2>3, <3>1, <3>2 DEF WorkingCopy, Repository
    <3>4. job[j].copy.files \in [File -> 0 .. version]
      BY <1>5 DEF WorkingCopy
    <3>5. job[j].alone => \A f \in File \intersect d : c.files[f] = repo.head
      BY <2>2, <3>1, <3>3, <3>4 DEF AloneCopying, Settled
    <3>6. job[j].alone /\ DotGit \in d => c.head = repo.head /\ ~ c.locked
      BY <2>2, <2>5, <3>3 DEF AloneCopying
    <3> QED
      BY <2>1, <3>3, <3>5, <3>6
  <2> QED
    BY <2>4, <2>5
<1>7. d \in SUBSET Item
  BY <1>5
<1> HIDE DEF c, d
<1>8. /\ job' \in [Job -> JobRecord] /\ Others(j)
      /\ job'[j].copied = d /\ job'[j].copy = c /\ SameStart(j)
      /\ SameSync(j) /\ SamePlace(j) /\ SameEdited(j) /\ SamePush(j)
  BY <1>1, <1>4, <1>6, <1>7, CopyChanges
<1>9. job[j].pushing = "none" /\ job[j].outcome = "none"
  BY <1>1, <1>2 DEF OrderedJob
<1>10. OrderedJob(j)' /\ ReportJob(j)' /\ PushedJob(j)'
  BY <1>1, <1>2, <1>8, <1>9
  DEF OrderedJob, ReportJob, PushedJob, SamePlace, SameSync, SamePush
<1>11. LineageJob(j)'
  BY <1>1, <1>2, <1>6, <1>8, <1>9 DEF LineageJob, BeganHere, Known, SameStart, SamePlace, SamePush
<1>12. AloneJob(j)'
  <2>1. SyncThreads' = SyncThreads
    BY <1>8 DEF SyncThreads, Writing, Others, SameSync
  <2>2. AloneSyncing(j) => AloneSyncing(j)'
    BY <1>2, <1>8 DEF AloneSyncing, Settled, SameSync, SameStart
  <2>3. job[j].alone => AloneCopying(j)'
    BY <1>2, <1>6, <1>8 DEF AloneCopying
  <2> QED
    BY <1>1, <1>2, <1>8, <2>1, <2>2, <2>3 DEF AloneJob, SameStart, SamePlace
<1>13. \A b \in Job : Lineage(b, remote[b])'
  BY <1>2, SameHistories
<1> QED
  BY <1>2, <1>8, <1>10, <1>11, <1>12, <1>13, SameRemoteGrows, OwnStepKeeps DEF SamePlace

LEMMA JobWorksKeeps ==
  ASSUME GitInv, NEW j \in Job, JobWorks(j)
  PROVE  GitInv'
<1>1. job[j].place = "working" /\ UNCHANGED <<version, remote, repo, lock, life>>
  BY DEF JobWorks
<1>2. CASE Ends(j, "abandoned")
  <2>1. job[j].pushing = "none"
    BY <1>1 DEF GitInv, OrderedJob
  <2> QED
    BY <1>1, <1>2, <2>1, JobEndsKeeps DEF Outcome
<1>3. ASSUME NEW e \in BOOLEAN,
             job' = [job EXCEPT ![j].edited = e, ![j].place = "pushing",
                                ![j].pushing = "committing"]
      PROVE  GitInv'
  <2>1. Typed /\ OrderedJob(j)
    BY DEF GitInv, TypeInv
  <2>2. /\ job' \in [Job -> JobRecord] /\ Others(j) /\ job'[j].edited = e
        /\ job'[j].place = "pushing" /\ job'[j].pushing = "committing"
        /\ SameStart(j) /\ SameSync(j) /\ SameCopy(j)
        /\ job'[j].outcome = job[j].outcome
    BY <1>3, <2>1, WorkDone DEF Place, Pushing
  <2>3. OrderedJob(j)' /\ ReportJob(j)' /\ PushedJob(j)'
    BY <1>1, <2>1, <2>2 DEF OrderedJob, ReportJob, MayLand, PushedJob, SameSync
  <2>4. AloneJob(j)'
    BY <2>2 DEF AloneJob
  <2> QED
    BY <1>1, <2>2, <2>3, <2>4, CoroutineKeeps
<1> QED
  BY <1>2, <1>3 DEF JobWorks

LEMMA PushResultKeeps ==
  ASSUME GitInv, NEW j \in Job, _commit_and_push(j)
  PROVE  GitInv'
<1>1. job[j].place = "pushing" /\ UNCHANGED <<version, remote, repo, lock, life>>
  BY DEF _commit_and_push
<1>2. job[j].pushing \in Pushing
  BY DEF GitInv, TypeInv, Typed, JobRecord
<1>3. CASE j \in PushThreads /\ Ends(j, "push-error")
  BY <1>1, <1>3, JobEndsKeeps DEF Outcome, MayLand
<1>4. CASE j \notin PushThreads /\ Ends(j, job[j].pushing)
  <2>1. job[j].pushing \in Outcome
    BY <1>2, <1>4 DEF PushThreads, Pushing, Outcome
  <2>2. job[j].pushing \notin {"committing", "sending"}
    BY <2>1 DEF Outcome
  <2> QED
    BY <1>1, <1>4, <2>1, <2>2, JobEndsKeeps DEF MayLand
<1> QED
  BY <1>3, <1>4 DEF _commit_and_push

-----------------------------------------------------------------------------
(* The thread of a push.                                                     *)

(* It may outlive the Job, and has nothing to do with its place.                *)
LEMMA PusherIsPushing ==
  ASSUME GitInv, NEW j \in Job, job[j].pushing # "none"
  PROVE  job[j].place \in {"pushing", "ended"}
BY DEF GitInv, OrderedJob

LEMMA PushThreadEndsKeeps ==
  ASSUME GitInv, NEW j \in Job, NEW u \in Outcome \ {"none"}, PushThreadEnds(j, u),
         job[j].pushing \in {"committing", "sending"},
         version' = version, life' = life, repo' = repo, lock' = lock,
         remote' \in [Job -> History], \A b \in Job : Extends(remote'[b], remote[b]),
         \A b \in Job : Lineage(b, remote[b])',
         u = "pushed" => Contains(remote'[job[j].branch].commits, <<life, j>>)
  PROVE  GitInv'
<1>1. /\ Typed /\ OrderedJob(j) /\ ReportJob(j) /\ PushedJob(j) /\ LineageJob(j)
      /\ job[j].branch \in Job
  BY PusherIsPushing DEF GitInv, TypeInv, LineageInv, StartedHasBranch
<1>2. /\ job' \in [Job -> JobRecord] /\ Others(j)
      /\ job'[j].pushing = u /\ SameStart(j) /\ SameSync(j) /\ SameCopy(j)
      /\ SamePlace(j) /\ SameEdited(j)
  BY <1>1, PushingChanges DEF PushThreadEnds, Pushing
<1>3. job[j].place \in {"pushing", "ended"} /\ job'[j].place \in {"pushing", "ended"}
  BY <1>2, PusherIsPushing DEF SamePlace
<1>4. u # "sending"
  BY DEF Outcome
<1>5. OrderedJob(j)'
  BY <1>1, <1>2, <1>3 DEF OrderedJob, SameSync, SamePlace
<1>6. ReportJob(j)'
  BY <1>1, <1>2 DEF ReportJob, SamePlace
<1>7. PushedJob(j)'
  <2>1. job[j].outcome = "pushed" => Contains(remote'[job[j].branch].commits, <<life, j>>)
    BY <1>1, GrowthKeeps DEF PushedJob
  <2> QED
    BY <1>2, <1>4, <2>1 DEF PushedJob, SamePlace, SameStart
<1>8. LineageJob(j)'
  <2>1. \A b \in Job : job[j].copy.tracking[b] \in History
    <3>1. job[j].copy \in WorkingCopy
      BY <1>1 DEF Typed, JobRecord
    <3> QED
      BY <3>1 DEF WorkingCopy
  <2>2. \A b \in Job : Known(b, job[j].copy.tracking[b])'
    BY <1>1, <1>2, <2>1, GrowthKeeps DEF LineageJob, Known, SameCopy
  <2>3. job[j].branch # j => BeganHere(job[j].branch)
    BY <1>1, <1>3 DEF LineageJob
  <2>4. job[j].branch # j =>
          remote'[job[j].branch] # Absent /\ remote'[job[j].branch].commits[1][1] = life'
    BY <1>1, <2>3, GrowthKeeps DEF BeganHere
  <2> QED
    BY <1>2, <1>4, <2>2, <2>4 DEF LineageJob, BeganHere, SameStart
<1>9. AloneJob(j)'
  BY <1>3 DEF AloneJob
<1> QED
  BY <1>2, <1>3, <1>5, <1>6, <1>7, <1>8, <1>9, OwnStepKeeps

LEMMA NothingToCommitKeeps ==
  ASSUME GitInv, NEW j \in Job, NothingToCommit(j)
  PROVE  GitInv'
<1>1. \A b \in Job : Lineage(b, remote[b])'
  BY SameHistories DEF NothingToCommit
<1> QED
  BY <1>1, SameRemoteGrows, PushThreadEndsKeeps DEF NothingToCommit, Outcome

LEMMA PushFailsKeeps ==
  ASSUME GitInv, NEW j \in Job,
         NEW u \in {"missing-credentials", "push-error", "no-branch"}, PushThreadEnds(j, u),
         job[j].pushing \in {"committing", "sending"},
         UNCHANGED <<version, remote, repo, lock, life>>
  PROVE  GitInv'
<1>1. \A b \in Job : Lineage(b, remote[b])'
  BY SameHistories
<1> QED
  BY <1>1, SameRemoteGrows, PushThreadEndsKeeps DEF Outcome

LEMMA CannotCommitKeeps ==
  ASSUME GitInv, NEW j \in Job, CannotCommit(j)
  PROVE  GitInv'
BY PushFailsKeeps DEF CannotCommit

LEMMA SendFailsKeeps ==
  ASSUME GitInv, NEW j \in Job, SendFails(j)
  PROVE  GitInv'
BY PushFailsKeeps DEF SendFails, _raise_on_push_error

LEMMA SendsKeeps ==
  ASSUME GitInv, NEW j \in Job, Sends(j)
  PROVE  GitInv'
<1> DEFINE b == job[j].branch
<1>1. /\ Typed /\ b \in Job /\ job[j].pushing = "sending"
      /\ PushedJob(j) /\ LineageJob(j)
  BY PusherIsPushing DEF Sends, GitInv, TypeInv, LineageInv, StartedHasBranch
<1>2. job[j].local \in History
  BY <1>1 DEF Typed, JobRecord
<1>3. remote' \in [Job -> History] /\ remote'[b] = job[j].local
  BY <1>1, <1>2 DEF Sends, Typed
<1>4. \A c \in Job \ {b} : remote'[c] = remote[c]
  BY <1>1 DEF Sends, Typed
<1>5. \A c \in Job : Extends(remote'[c], remote[c])
  <2>1. Extends(remote'[b], remote[b])
    BY <1>3 DEF Sends, Accepts
  <2>2. \A c \in Job : Extends(remote[c], remote[c])
    BY ExtendsItself, <1>1 DEF Typed
  <2> QED
    BY <1>4, <2>1, <2>2
<1>6. \A c \in Job : Lineage(c, remote[c])'
  <2>1. \A c \in Job : Lineage(c, remote[c])
    BY DEF GitInv, LineageInv
  <2>2. Lineage(b, job[j].local)
    BY <1>1 DEF LineageJob
  <2> QED
    BY <1>3, <1>4, <2>1, <2>2 DEF Lineage
<1>7. Contains(remote'[b].commits, <<life, j>>)
  BY <1>1, <1>3 DEF PushedJob
<1> QED
  BY <1>1, <1>3, <1>5, <1>6, <1>7, PushThreadEndsKeeps DEF Sends, Outcome

(* The new tip is one more commit of this process on a branch it may be on.        *)
LEMMA CommitsKeeps ==
  ASSUME GitInv, NEW j \in Job, Commits(j)
  PROVE  GitInv'
<1> DEFINE g == CheckedOut(j)
           h == [g EXCEPT !.commits = Append(@, <<life, j>>)]
           b == job[j].branch
<1>1. /\ Typed /\ b \in Job /\ job[j].pushing = "committing" /\ g # Absent
      /\ OrderedJob(j) /\ ReportJob(j) /\ PushedJob(j) /\ LineageJob(j)
      /\ job[j].place \in {"pushing", "ended"}
      /\ UNCHANGED <<version, remote, repo, lock, life>>
  BY PusherIsPushing DEF Commits, GitInv, TypeInv, LineageInv, StartedHasBranch
<1>2. g \in History /\ h \in History
  BY <1>1, CheckedOutTyped, CommitTyped
<1>3. /\ g.commits \in Seq(Commit) /\ Len(g.commits) \in Nat
      /\ h.commits = Append(g.commits, <<life, j>>)
      /\ Len(h.commits) = Len(g.commits) + 1
      /\ \A n \in 1 .. Len(g.commits) : h.commits[n] = g.commits[n]
      /\ h.commits[Len(g.commits) + 1] = <<life, j>>
  <2>1. <<life, j>> \in Commit
    BY <1>1 DEF Typed, Commit
  <2>2. g.commits \in Seq(Commit) /\ Len(g.commits) \in Nat
    BY <1>2, HistoryParts
  <2>3. h.commits = Append(g.commits, <<life, j>>)
    BY <1>2 DEF History
  <2> HIDE DEF h, g
  <2> QED
    BY <2>1, <2>2, <2>3, AppendProperties
<1>4. Contains(h.commits, <<life, j>>)
  <2> HIDE DEF h, g
  <2>1. Len(g.commits) + 1 \in 1 .. Len(h.commits)
    BY <1>3
  <2> QED
    BY <1>3, <2>1 DEF Contains
<1>5. Lineage(b, h)
  <2>1. CASE b = j
    <3>1. g.commits = << >>
      BY <2>1 DEF CheckedOut, IsRevision, branch_name_for, OnHead
    <3> HIDE DEF h, g
    <3>2. Len(h.commits) = 1 /\ h.commits[1] = <<life, j>>
      BY <1>3, <3>1
    <3> QED
      BY <2>1, <3>2 DEF Lineage
  <2>2. CASE b # j
    <3>1. g = job[j].copy.tracking[b] /\ Known(b, g) /\ BeganHere(b)
      BY <1>1, <2>2 DEF CheckedOut, IsRevision, branch_name_for, LineageJob
    <3> HIDE DEF h, g
    <3>2. remote[b] \in History /\ Lineage(b, remote[b]) /\ Len(remote[b].commits) \in Nat
      BY <1>1, HistoryParts DEF Typed, GitInv, LineageInv
    <3>3. /\ Len(g.commits) >= 1 /\ Len(g.commits) <= Len(remote[b].commits)
          /\ \A n \in 1 .. Len(g.commits) : remote[b].commits[n] = g.commits[n]
      BY <1>1, <1>2, <3>1, <3>2, ExtensionKeepsCommits DEF Known
    <3>4. \A n \in 1 .. Len(g.commits) : h.commits[n] = remote[b].commits[n]
      BY <1>3, <3>3
    <3>5. h.commits[1] = remote[b].commits[1]
      BY <1>3, <3>3, <3>4
    <3>6. /\ remote[b].commits[1][2] = b /\ remote[b].commits[1][1] = life
          /\ \A n \in 2 .. Len(remote[b].commits) :
               remote[b].commits[n][1] = life /\ remote[b].commits[n][2] # b
      BY <3>1, <3>2 DEF Lineage, BeganHere
    <3>7. ASSUME NEW n \in 2 .. Len(h.commits)
          PROVE  h.commits[n][1] = life /\ h.commits[n][2] # b
      <4>1. CASE n = Len(g.commits) + 1
        BY <1>3, <2>2, <4>1
      <4>2. CASE n # Len(g.commits) + 1
        <5>1. n \in 1 .. Len(g.commits) /\ n \in 2 .. Len(remote[b].commits)
          BY <1>3, <3>2, <3>3, <4>2
        <5> QED
          BY <3>4, <3>6, <5>1
      <4> QED
        BY <4>1, <4>2
    <3>8. Len(h.commits) >= 1
      BY <1>3
    <3> QED
      BY <3>5, <3>6, <3>7, <3>8 DEF Lineage
  <2> QED
    BY <2>1, <2>2
<1>6. job' = [job EXCEPT ![j].pushing = "sending", ![j].local = h]
  BY DEF Commits
<1> HIDE DEF h, g, b
<1>7. /\ job' \in [Job -> JobRecord] /\ Others(j)
      /\ job'[j].pushing = "sending" /\ job'[j].local = h /\ SameStart(j)
      /\ SameSync(j) /\ SameCopy(j) /\ SamePlace(j) /\ SameEdited(j)
  BY <1>1, <1>2, <1>6, CommitMade DEF Pushing
<1>8. OrderedJob(j)'
  BY <1>1, <1>7 DEF OrderedJob, SameSync, SamePlace
<1>9. ReportJob(j)'
  BY <1>1, <1>7 DEF ReportJob, SamePlace
<1>10. PushedJob(j)'
  BY <1>1, <1>4, <1>7 DEF PushedJob, SamePlace, SameStart
<1>11. LineageJob(j)'
  <2>1. Lineage(job'[j].branch, job'[j].local)
    BY <1>5, <1>7 DEF SameStart, b
  <2> QED
    BY <1>1, <1>7, <2>1
    DEF LineageJob, BeganHere, Known, Lineage, SameStart, SamePlace, SameCopy
<1>12. AloneJob(j)'
  BY <1>1, <1>7 DEF AloneJob, SamePlace
<1>13. \A c \in Job : Lineage(c, remote[c])'
  BY <1>1, SameHistories
<1>14. job[j].place # "absent" /\ job'[j].place # "absent"
  BY <1>1, <1>7 DEF SamePlace
<1> QED
  BY <1>1, <1>7, <1>8, <1>9, <1>10, <1>11, <1>12, <1>13, <1>14, SameRemoteGrows, OwnStepKeeps

-----------------------------------------------------------------------------
(* A Job starts.                                                             *)

LEMMA PushedBeganHere ==
  ASSUME GitInv, NEW i \in Job, job[i].outcome = "pushed"
  PROVE  BeganHere(job[i].branch)
<1> DEFINE b == job[i].branch
<1>1. job[i].place # "absent" /\ Contains(remote[b].commits, <<life, i>>)
  BY DEF GitInv, OrderedJob, PushedJob
<1>2. b \in Job
  BY <1>1 DEF GitInv, TypeInv, StartedHasBranch
<1>3. remote[b] \in History /\ Lineage(b, remote[b]) /\ Len(remote[b].commits) \in Nat
  BY <1>2, HistoryParts DEF GitInv, TypeInv, Typed, LineageInv
<1>4. PICK n \in 1 .. Len(remote[b].commits) : remote[b].commits[n] = <<life, i>>
  BY <1>1 DEF Contains
<1>5. remote[b] # Absent
  BY <1>4 DEF Absent
<1>6. remote[b].commits[1][1] = life
  <2>1. CASE n = 1
    BY <1>4, <2>1
  <2>2. CASE n # 1
    <3>1. n \in 2 .. Len(remote[b].commits)
      BY <1>3, <2>2
    <3> QED
      BY <1>3, <1>4, <1>5, <3>1 DEF Lineage
  <2> QED
    BY <2>1, <2>2
<1> QED
  BY <1>5, <1>6 DEF BeganHere

(* What a Job is that starts, and that a Job that was syncing is not alone any more. *)
LEMMA JobStartsWith ==
  ASSUME GitInv, NEW j \in Job, JobStarts(j)
  PROVE  /\ job'[j].place = "syncing" /\ job'[j].syncing = "fetching"
         /\ job'[j].copied = {} /\ job'[j].pushing = "none" /\ job'[j].outcome = "none"
         /\ job'[j].copy = NoCopy
         /\ job'[j].branch # j => BeganHere(job'[j].branch)
         /\ job'[j].alone => SyncThreads = {}
         /\ \A i \in Job \ {j} :
              /\ SameSync(i) /\ SameCopy(i) /\ SamePlace(i) /\ SameEdited(i) /\ SamePush(i)
              /\ job'[i].branch = job[i].branch /\ job'[i].since = job[i].since
              /\ job'[i].alone => job[i].alone /\ job[i].place # "syncing"
<1>1. PICK b \in {branch_name_for(j)} \union
                 {job[i].branch : i \in {i \in Job : job[i].outcome = "pushed"}} :
        job' = [i \in Job |->
          IF i = j
          THEN [NewJob EXCEPT !.place = "syncing", !.branch = b, !.syncing = "fetching",
                              !.since = version, !.alone = (SyncThreads = {})]
          ELSE [job[i] EXCEPT !.alone = @ /\ job[i].place # "syncing"]]
  BY DEF JobStarts
<1>2. b # j => BeganHere(b)
  BY PushedBeganHere DEF branch_name_for
<1>3. job'[j] = [NewJob EXCEPT !.place = "syncing", !.branch = b, !.syncing = "fetching",
                              !.since = version, !.alone = (SyncThreads = {})]
  BY <1>1
<1>4. /\ job'[j].place = "syncing" /\ job'[j].syncing = "fetching"
      /\ job'[j].copied = {} /\ job'[j].pushing = "none" /\ job'[j].outcome = "none"
      /\ job'[j].copy = NoCopy /\ job'[j].branch = b
      /\ job'[j].alone => SyncThreads = {}
  BY <1>3 DEF NewJob
<1>5. ASSUME NEW i \in Job \ {j}
      PROVE  /\ SameSync(i) /\ SameCopy(i) /\ SamePlace(i) /\ SameEdited(i) /\ SamePush(i)
             /\ job'[i].branch = job[i].branch /\ job'[i].since = job[i].since
             /\ job'[i].alone => job[i].alone /\ job[i].place # "syncing"
  <2>1. job'[i] = [job[i] EXCEPT !.alone = @ /\ job[i].place # "syncing"]
    BY <1>1
  <2>2. job[i] \in JobRecord
    BY DEF GitInv, TypeInv, Typed
  <2>3. PICK a \in BOOLEAN : a = (job[i].alone /\ job[i].place # "syncing")
    OBVIOUS
  <2>4. job'[i] = [job[i] EXCEPT !.alone = a]
    BY <2>1, <2>3
  <2>5. /\ job'[i].place = job[i].place /\ job'[i].branch = job[i].branch
        /\ job'[i].syncing = job[i].syncing
        /\ job'[i].want = job[i].want /\ job'[i].copied = job[i].copied
        /\ job'[i].copy = job[i].copy
        /\ job'[i].edited = job[i].edited /\ job'[i].pushing = job[i].pushing
        /\ job'[i].local = job[i].local
        /\ job'[i].outcome = job[i].outcome /\ job'[i].since = job[i].since
        /\ job'[i].alone = a
    BY <2>2, <2>4, OvertakenJob
  <2> QED
    BY <2>3, <2>5 DEF SameSync, SameCopy, SamePlace, SameEdited, SamePush
<1> QED
  BY <1>2, <1>4, <1>5

LEMMA JobStartsKeeps ==
  ASSUME GitInv, NEW j \in Job, JobStarts(j)
  PROVE  GitInv'
<1>1. /\ TypeInv' /\ UNCHANGED <<version, remote, repo, lock, life>> /\ LoopIsFree
  BY JobStartsKeepsTypes DEF GitInv, JobStarts
<1>2. ASSUME NEW i \in Job \ {j}
      PROVE  /\ OrderedJob(i)' /\ ReportJob(i)' /\ PushedJob(i)'
             /\ LineageJob(i)' /\ AloneJob(i)'
  <2>1. OrderedJob(i) /\ ReportJob(i) /\ PushedJob(i) /\ LineageJob(i) /\ AloneJob(i)
    BY DEF GitInv, LineageInv
  <2>2. /\ SameSync(i) /\ SameCopy(i) /\ SamePlace(i) /\ SameEdited(i) /\ SamePush(i)
        /\ job'[i].branch = job[i].branch /\ job'[i].since = job[i].since
        /\ job'[i].alone => job[i].alone /\ job[i].place # "syncing"
    BY JobStartsWith
  <2>3. OrderedJob(i)'
    BY <2>1, <2>2 DEF OrderedJob, SameSync, SameCopy, SamePlace, SamePush
  <2>4. ReportJob(i)'
    BY <2>1, <2>2 DEF ReportJob, SamePlace, SamePush
  <2>5. PushedJob(i)'
    BY <1>1, <2>1, <2>2 DEF PushedJob, SamePlace, SamePush
  <2>6. LineageJob(i)'
    BY <1>1, <2>1, <2>2 DEF LineageJob, BeganHere, Known, Lineage, SameCopy, SamePlace, SamePush
  <2>7. AloneJob(i)'
    <3>1. job[i].place # "copying"
      BY <1>1 DEF LoopIsFree
    <3> QED
      BY <2>1, <2>2, <3>1 DEF AloneJob, WholeCopy, FreshCopy, SamePlace, SameCopy
  <2> QED
    BY <2>3, <2>4, <2>5, <2>6, <2>7
<1>3. /\ OrderedJob(j)' /\ ReportJob(j)' /\ PushedJob(j)'
  BY JobStartsWith DEF OrderedJob, ReportJob, PushedJob
<1>4. LineageJob(j)'
  <2>1. \A b \in Job : job'[j].copy.tracking[b] = Absent
    BY JobStartsWith DEF NoCopy, NoRepo
  <2>2. \A b \in Job : Known(b, job[j].copy.tracking[b])'
    BY <2>1 DEF Known, Extends
  <2>3. job'[j].branch # j => BeganHere(job[j].branch)'
    BY <1>1, JobStartsWith DEF BeganHere
  <2> QED
    BY <2>2, <2>3, JobStartsWith DEF LineageJob
<1>5. AloneJob(j)'
  <2>1. SyncThreads' \subseteq SyncThreads \union {j}
    BY JobStartsWith DEF SyncThreads, Writing, SameSync
  <2> QED
    BY <2>1, JobStartsWith DEF AloneJob, AloneSyncing
<1>6. LineageInv'
  <2>1. \A b \in Job : Lineage(b, remote[b]) /\ Known(b, repo.tracking[b])
    BY DEF GitInv, LineageInv
  <2> QED
    BY <1>1, <1>2, <1>4, <2>1 DEF LineageInv, Lineage, Known
<1> QED
  BY <1>1, <1>2, <1>3, <1>5, <1>6 DEF GitInv

-----------------------------------------------------------------------------
(* What happens outside the process.                                         *)

LEMMA VersionGrows ==
  ASSUME NEW v \in Nat, NEW w \in Nat, v <= w
  PROVE  0 .. v \subseteq 0 .. w
OBVIOUS

LEMMA DefaultBranchAdvancesKeeps ==
  ASSUME GitInv, DefaultBranchAdvances
  PROVE  GitInv'
<1>1. /\ TypeInv /\ Typed /\ version' = version + 1 /\ version < MaxVersion
      /\ remote' = remote /\ repo' = repo /\ lock' = lock /\ job' = job /\ life' = life
  BY DEF GitInv, TypeInv, DefaultBranchAdvances
<1>2. version' \in 1 .. MaxVersion /\ 0 .. version \subseteq 0 .. version'
  BY <1>1, GitAssumption DEF Typed
<1>3. repo' \in Repository'
  BY <1>1, <1>2 DEF Typed, Repository
<1>4. WorkingCopy \subseteq WorkingCopy'
  BY <1>2 DEF WorkingCopy
<1>5. JobRecord \subseteq JobRecord'
  BY <1>2, <1>4 DEF JobRecord
<1>6. Typed'
  BY <1>1, <1>2, <1>3, <1>5 DEF Typed
<1>7. TypeInv'
  BY <1>1, <1>6 DEF TypeInv, LockIsHeld, AbsentIsNew, StartedHasBranch, Writing
<1>8. LineageInv'
  BY <1>1 DEF GitInv, LineageInv, LineageJob, Lineage, Known, BeganHere
<1>9. ASSUME NEW j \in Job
      PROVE  (OrderedJob(j) /\ ReportJob(j) /\ PushedJob(j) /\ AloneJob(j))'
  <2>1. OrderedJob(j) /\ ReportJob(j) /\ PushedJob(j) /\ AloneJob(j)
    BY DEF GitInv
  <2>2. AloneJob(j)'
    BY <1>1, <2>1
    DEF AloneJob, AloneSyncing, AloneCopying, Settled, SyncThreads, Writing, WholeCopy, FreshCopy
  <2> QED
    BY <1>1, <2>1, <2>2 DEF OrderedJob, ReportJob, PushedJob
<1> QED
  BY <1>7, <1>8, <1>9 DEF GitInv

LEMMA NothingStarted ==
  ASSUME NEW j \in Job, job' = [i \in Job |-> NewJob]
  PROVE  OrderedJob(j)' /\ ReportJob(j)' /\ PushedJob(j)' /\ LineageJob(j)' /\ AloneJob(j)'
<1>1. job'[j] = NewJob
  OBVIOUS
<1>2. OrderedJob(j)' /\ ReportJob(j)' /\ PushedJob(j)'
  BY <1>1 DEF OrderedJob, ReportJob, PushedJob, NewJob
<1>3. LineageJob(j)'
  BY <1>1 DEF LineageJob, NewJob, NoCopy, NoRepo, Known, Extends
<1>4. AloneJob(j)'
  BY <1>1 DEF AloneJob, NewJob
<1> QED
  BY <1>2, <1>3, <1>4

LEMMA RestartKeeps ==
  ASSUME GitInv, Restart
  PROVE  GitInv'
<1>1. /\ Typed /\ version' = version /\ remote' = remote /\ repo' = repo
      /\ job' = [i \in Job |-> NewJob] /\ life' = life + 1 /\ life < MaxLife
      /\ lock' \in {NoJob, DeadProcess}
  BY DEF GitInv, TypeInv, Restart
<1>2. NewJob \in JobRecord
  BY <1>1, NewJobTyped DEF Typed
<1>3. life' \in 1 .. MaxLife
  BY <1>1, GitAssumption DEF Typed
<1>4. Typed'
  BY <1>1, <1>2, <1>3 DEF Typed, JobRecord, WorkingCopy, Repository
<1>5. TypeInv'
  BY <1>1, <1>4, JobNames DEF TypeInv, LockIsHeld, AbsentIsNew, StartedHasBranch, NewJob
<1>6. \A j \in Job :
        OrderedJob(j)' /\ ReportJob(j)' /\ PushedJob(j)' /\ LineageJob(j)' /\ AloneJob(j)'
  BY <1>1, NothingStarted
<1>7. LineageInv'
  <2>1. \A b \in Job : Lineage(b, remote[b]) /\ Known(b, repo.tracking[b])
    BY DEF GitInv, LineageInv
  <2> QED
    BY <1>1, <1>6, <2>1 DEF LineageInv, Lineage, Known
<1> QED
  BY <1>5, <1>6, <1>7 DEF GitInv

(* The operator changes nothing a Job that is alone relies on.                   *)
LEMMA OperatorUnlocksKeeps ==
  ASSUME GitInv, OperatorUnlocks
  PROVE  GitInv'
<1>1. /\ TypeInv /\ version' = version /\ remote' = remote /\ repo' = repo
      /\ job' = job /\ life' = life /\ lock' = NoJob
  BY DEF GitInv, OperatorUnlocks
<1>2. TypeInv'
  BY <1>1, JobNames
  DEF TypeInv, Typed, JobRecord, WorkingCopy, Repository, LockIsHeld, AbsentIsNew,
      StartedHasBranch
<1>3. LineageInv'
  BY <1>1 DEF GitInv, LineageInv, LineageJob, Lineage, Known, BeganHere
<1>4. ASSUME NEW j \in Job
      PROVE  (OrderedJob(j) /\ ReportJob(j) /\ PushedJob(j) /\ AloneJob(j))'
  <2>1. OrderedJob(j) /\ ReportJob(j) /\ PushedJob(j) /\ AloneJob(j)
    BY DEF GitInv
  <2>2. AloneJob(j)'
    BY <1>1, <2>1
    DEF AloneJob, AloneSyncing, AloneCopying, Settled, SyncThreads, Writing, WholeCopy, FreshCopy
  <2> QED
    BY <1>1, <2>1, <2>2 DEF OrderedJob, ReportJob, PushedJob
<1> QED
  BY <1>2, <1>3, <1>4 DEF GitInv

LEMMA OperatorFetchesKeeps ==
  ASSUME GitInv, OperatorFetches
  PROVE  GitInv'
<1>1. /\ TypeInv /\ Typed /\ version' = version /\ remote' = remote /\ lock' = lock
      /\ job' = job /\ life' = life
      /\ repo' = [repo EXCEPT !.tracking = remote]
  BY DEF GitInv, TypeInv, OperatorFetches
<1>2. /\ repo' \in Repository /\ repo'.tracking = remote
      /\ repo'.files = repo.files /\ repo'.head = repo.head
      /\ repo'.fetchHead = repo.fetchHead
  BY <1>1 DEF Typed, Repository
<1>3. TypeInv'
  BY <1>1, <1>2
  DEF TypeInv, Typed, JobRecord, WorkingCopy, Repository, LockIsHeld, AbsentIsNew,
      StartedHasBranch, Writing
<1>4. LineageInv'
  <2>1. \A b \in Job : Lineage(b, remote[b]) /\ Known(b, remote[b])
    BY SameRemoteGrows, <1>1 DEF Known, Lineage, GitInv, LineageInv
  <2>2. \A j \in Job : LineageJob(j)
    BY DEF GitInv, LineageInv
  <2>3. \A j \in Job : LineageJob(j)'
    BY <1>1, <2>2 DEF LineageJob, Lineage, Known, BeganHere
  <2> QED
    BY <1>1, <1>2, <2>1, <2>3 DEF LineageInv, Lineage, Known
<1>5. ASSUME NEW j \in Job
      PROVE  (OrderedJob(j) /\ ReportJob(j) /\ PushedJob(j) /\ AloneJob(j))'
  <2>1. OrderedJob(j) /\ ReportJob(j) /\ PushedJob(j) /\ AloneJob(j)
    BY DEF GitInv
  <2>2. AloneJob(j)'
    BY <1>1, <1>2, <2>1
    DEF AloneJob, AloneSyncing, AloneCopying, Settled, SyncThreads, Writing, WholeCopy, FreshCopy
  <2> QED
    BY <1>1, <2>1, <2>2 DEF OrderedJob, ReportJob, PushedJob
<1> QED
  BY <1>3, <1>4, <1>5 DEF GitInv

-----------------------------------------------------------------------------
(* The theorems.                                                             *)

LEMMA InitKeeps == GitInit => GitInv
<1> SUFFICES ASSUME GitInit PROVE GitInv
  OBVIOUS
<1>1. /\ version = 1 /\ remote = [b \in Job |-> Absent] /\ repo = NoRepo /\ lock = NoJob
      /\ job = [j \in Job |-> NewJob] /\ life = 1
  BY DEF GitInit
<1>2. version \in 1 .. MaxVersion /\ life \in 1 .. MaxLife
  BY <1>1, GitAssumption
<1>3. repo \in Repository
  BY <1>1, AbsentIsHistory DEF NoRepo, Repository
<1>4. Typed
  BY <1>1, <1>2, <1>3, NewJobTyped, AbsentIsHistory DEF Typed
<1>5. TypeInv
  BY <1>1, <1>4, JobNames DEF TypeInv, LockIsHeld, AbsentIsNew, StartedHasBranch, NewJob
<1>6. ASSUME NEW j \in Job
      PROVE  OrderedJob(j) /\ ReportJob(j) /\ PushedJob(j) /\ LineageJob(j) /\ AloneJob(j)
  <2>1. job[j] = NewJob
    BY <1>1
  <2>2. OrderedJob(j) /\ ReportJob(j) /\ PushedJob(j)
    BY <2>1 DEF OrderedJob, ReportJob, PushedJob, NewJob
  <2>3. LineageJob(j)
    BY <2>1 DEF LineageJob, NewJob, NoCopy, NoRepo, Known, Extends
  <2>4. AloneJob(j)
    BY <2>1 DEF AloneJob, NewJob
  <2> QED
    BY <2>2, <2>3, <2>4
<1>7. LineageInv
  BY <1>1, <1>6 DEF LineageInv, Lineage, Known, Extends, NoRepo
<1> QED
  BY <1>5, <1>6, <1>7 DEF GitInv

LEMMA StutterKeeps ==
  ASSUME GitInv, UNCHANGED gitVars
  PROVE  GitInv'
<1>1. /\ version' = version /\ remote' = remote /\ repo' = repo /\ lock' = lock
      /\ job' = job /\ life' = life
  BY DEF gitVars
<1>2. TypeInv'
  BY <1>1
  DEF GitInv, TypeInv, Typed, JobRecord, WorkingCopy, Repository, LockIsHeld, AbsentIsNew,
      StartedHasBranch, Writing
<1>3. LineageInv'
  BY <1>1 DEF GitInv, LineageInv, LineageJob, Lineage, Known, BeganHere
<1>4. ASSUME NEW j \in Job
      PROVE  (OrderedJob(j) /\ ReportJob(j) /\ PushedJob(j) /\ AloneJob(j))'
  <2>1. OrderedJob(j) /\ ReportJob(j) /\ PushedJob(j) /\ AloneJob(j)
    BY DEF GitInv
  <2>2. AloneJob(j)'
    BY <1>1, <2>1
    DEF AloneJob, AloneSyncing, AloneCopying, Settled, SyncThreads, Writing, WholeCopy, FreshCopy
  <2> QED
    BY <1>1, <2>1, <2>2 DEF OrderedJob, ReportJob, PushedJob
<1> QED
  BY <1>2, <1>3, <1>4 DEF GitInv

(* GitInv holds in every state: it says what the threads, the coroutine and the    *)
(* remote rely on of each other, which the properties below follow from.           *)
THEOREM GitInvariant == GitSpec => []GitInv
<1>1. ASSUME GitInv, [GitNext]_gitVars PROVE GitInv'
  <2>1. ASSUME NEW j \in Job, SyncStep(j) PROVE GitInv'
    BY <1>1, <2>1, CloneKeeps, FetchKeeps, ResetResolvesKeeps, ResetLocksKeeps,
       ResetWritesKeeps, ResetEndsKeeps, SyncThreadFailsKeeps, CloneKilledKeeps DEF SyncStep
  <2>2. ASSUME NEW j \in Job, CoroutineStep(j) PROVE GitInv'
    BY <1>1, <2>2, JobStartsKeeps, SyncResultKeeps, CopyItemKeeps, InitWorkingDirKeeps,
       JobWorksKeeps, PushResultKeeps DEF CoroutineStep
  <2>3. ASSUME NEW j \in Job, PushStep(j) PROVE GitInv'
    BY <1>1, <2>3, NothingToCommitKeeps, CannotCommitKeeps, CommitsKeeps, SendsKeeps,
       SendFailsKeeps DEF PushStep
  <2> QED
    BY <1>1, <2>1, <2>2, <2>3, DefaultBranchAdvancesKeeps, RestartKeeps,
       OperatorUnlocksKeeps, OperatorFetchesKeeps, StutterKeeps DEF GitNext
<1> QED
  BY <1>1, InitKeeps, PTL DEF GitSpec

(* GitTypeOK: a thread that holds the index lock is one that is writing.          *)
THEOREM GitTypeCorrect == GitSpec => []GitTypeOK
<1>1. GitInv => GitTypeOK
  <2> SUFFICES ASSUME GitInv PROVE GitTypeOK
    OBVIOUS
  <2>1. Typed /\ LockIsHeld
    BY DEF GitInv, TypeInv
  <2>2. lock \in {NoJob, DeadProcess} \union {j \in Job : Writing(j)}
    BY <2>1 DEF Typed, LockIsHeld
  <2> QED
    BY <2>1, <2>2
    DEF GitTypeOK, Typed, Repository, JobRecord, WorkingCopy, Place, Syncing, Pushing
<1> QED
  BY <1>1, GitInvariant, PTL

(* A Job whose sync no other sync overlapped works on one version of the default    *)
(* branch, at least as new as when it started, whatever a crash left behind.       *)
THEOREM UndisturbedIsCurrent == GitSpec => []UndisturbedCopyIsCurrent
<1>1. GitInv => UndisturbedCopyIsCurrent
  BY DEF GitInv, AloneJob, UndisturbedCopyIsCurrent
<1> QED
  BY <1>1, GitInvariant, PTL

(* What is reported as pushed is on the remote, also after later pushes.           *)
THEOREM PushedStaysOnRemote == GitSpec => []PushedIsOnRemote
<1>1. GitInv => PushedIsOnRemote
  BY DEF GitInv, PushedJob, PushedIsOnRemote
<1> QED
  BY <1>1, GitInvariant, PTL

(* A branch holds the commit of its /build, then revisions of the same process.     *)
THEOREM OneLineage == GitSpec => []BranchIsOneLineage
<1>1. GitInv => BranchIsOneLineage
  BY DEF GitInv, LineageInv, Lineage, BranchIsOneLineage
<1> QED
  BY <1>1, GitInvariant, PTL

(* Only a push that lands changes the remote.                                   *)
LEMMA OnlySendsChangeRemote ==
  ASSUME [GitNext]_gitVars, remote' # remote
  PROVE  \E j \in Job : Sends(j)
<1>1. ASSUME NEW j \in Job, SyncStep(j) PROVE remote' = remote
  BY <1>1 DEF SyncStep, _clone, Fetch, ResetResolves, ResetLocks, ResetWrites, ResetEnds,
              SyncThreadFails, CloneKilled
<1>2. ASSUME NEW j \in Job, CoroutineStep(j) PROVE remote' = remote
  BY <1>2 DEF CoroutineStep, JobStarts, sync_default_branch, CopyItem, init_working_dir,
              JobWorks, _commit_and_push
<1>3. ASSUME NEW j \in Job, PushStep(j) PROVE remote' = remote \/ Sends(j)
  BY <1>3 DEF PushStep, NothingToCommit, CannotCommit, Commits, SendFails
<1>4. DefaultBranchAdvances \/ Restart \/ OperatorUnlocks \/ OperatorFetches
        \/ UNCHANGED gitVars => remote' = remote
  BY DEF DefaultBranchAdvances, Restart, OperatorUnlocks, OperatorFetches, gitVars
<1> QED
  BY <1>1, <1>2, <1>3, <1>4 DEF GitNext

(* No step takes a commit off a branch of the remote.                            *)
THEOREM RemoteOnlyGrows == GitSpec => RemoteIsAppendOnly
<1>1. ASSUME GitInv, [GitNext]_gitVars
      PROVE  \A b \in Job : Extends(remote'[b], remote[b])
  <2>1. remote \in [Job -> History]
    BY <1>1 DEF GitInv, TypeInv, Typed
  <2>2. CASE remote' = remote
    BY <2>1, <2>2, ExtendsItself
  <2>3. CASE remote' # remote
    <3>1. PICK j \in Job : Sends(j)
      BY <1>1, <2>3, OnlySendsChangeRemote
    <3>2. /\ remote' = [remote EXCEPT ![job[j].branch] = job[j].local]
          /\ Extends(job[j].local, remote[job[j].branch])
      BY <3>1 DEF Sends, Accepts
    <3> QED
      BY <2>1, <3>2, ExtendsItself
  <2> QED
    BY <2>2, <2>3
<1> QED
  BY <1>1, GitInvariant, PTL DEF GitSpec, RemoteIsAppendOnly

-----------------------------------------------------------------------------
(* A push adds one commit.  What a thread sends is a tip somebody knew and one     *)
(* commit of its own; and the commits of this process on the remote are of Jobs    *)
(* whose thread has sent them, so that it cannot send them again, and has ended    *)
(* as one that did.                                                           *)

Unsent == Pushing \ {"pushed", "push-error"}

SendingJob(j) ==
  job[j].pushing = "sending" =>
    \E g \in History :
      /\ g.commits = << >> \/ (g # Absent /\ Known(job[j].branch, g))
      /\ job[j].local.root = g.root
      /\ job[j].local.commits = Append(g.commits, <<life, j>>)

OfThePast(c) == c[1] <= life /\ (c[1] = life => job[c[2]].pushing \notin Unsent)

SentInv ==
  /\ \A j \in Job : SendingJob(j)
  /\ \A b \in Job : \A n \in 1 .. Len(remote[b].commits) : OfThePast(remote[b].commits[n])

(* A step that sends nothing and is no new process: a thread that has not begun     *)
(* may begin, one that has not ended may end.                                   *)
SamePushing(i) ==
  /\ job'[i].pushing = job[i].pushing
  /\ job'[i].local = job[i].local /\ job'[i].branch = job[i].branch

NotSending(i) ==
  job'[i].pushing # "sending" /\ (job[i].pushing \notin Unsent => job'[i].pushing \notin Unsent)

LEMMA QuietStepKeepsSent ==
  ASSUME GitInv, SentInv, remote' = remote, life' = life,
         \A i \in Job : NotSending(i) \/ SamePushing(i)
  PROVE  SentInv'
<1>1. ASSUME NEW i \in Job PROVE SendingJob(i)'
  <2>1. CASE NotSending(i)
    BY <2>1 DEF NotSending, SendingJob
  <2>2. CASE SamePushing(i)
    <3>1. SendingJob(i)
      BY DEF SentInv
    <3> QED
      BY <2>2, <3>1 DEF SamePushing, SendingJob, Known
  <2> QED
    BY <2>1, <2>2
<1>2. ASSUME NEW b \in Job, NEW n \in 1 .. Len(remote[b].commits)
      PROVE  OfThePast(remote[b].commits[n])'
  <2>1. OfThePast(remote[b].commits[n]) /\ remote[b].commits[n] \in Commit
    BY HistoryParts DEF SentInv, GitInv, TypeInv, Typed
  <2>2. remote[b].commits[n][2] \in Job
    BY <2>1 DEF Commit
  <2> QED
    BY <2>1, <2>2 DEF OfThePast, NotSending, SamePushing
<1> QED
  BY <1>1, <1>2 DEF SentInv

LEMMA SyncStepKeepsSent ==
  ASSUME GitInv, SentInv, NEW j \in Job, SyncStep(j)
  PROVE  SentInv'
<1>1. job \in [Job -> JobRecord]
  BY DEF GitInv, TypeInv, Typed
<1>2. remote' = remote /\ life' = life
  BY DEF SyncStep, _clone, Fetch, ResetResolves, ResetLocks, ResetWrites, ResetEnds,
         SyncThreadFails, CloneKilled
<1>3. \/ job' = job
      \/ \E s \in Syncing : job' = [job EXCEPT ![j].syncing = s]
      \/ \E s \in Syncing, v \in 0 .. version :
           job' = [job EXCEPT ![j].syncing = s, ![j].want = v]
  <2>1. version \in 0 .. version /\ repo.fetchHead \in 0 .. version
    BY DEF GitInv, TypeInv, Typed, Repository
  <2> QED
    BY <2>1 DEF SyncStep, _clone, Fetch, ResetResolves, ResetTarget, ResetLocks, ResetWrites,
                ResetEnds, SyncThreadFails, CloneKilled, Syncing
<1>4. \A i \in Job : SamePushing(i)
  <2>1. Typed
    BY DEF GitInv, TypeInv
  <2>2. job' = job \/ (Others(j) /\ SamePush(j) /\ SameStart(j))
    BY <1>3, <2>1, SyncingChanges, TargetChanges
  <2> QED
    BY <2>2 DEF Others, SamePush, SameStart, SamePushing
<1> QED
  BY <1>2, <1>4, QuietStepKeepsSent

LEMMA JobStartsKeepsSent ==
  ASSUME GitInv, SentInv, NEW j \in Job, JobStarts(j)
  PROVE  SentInv'
<1>1. job \in [Job -> JobRecord] /\ job[j].pushing = "none"
  BY AbsentHasDoneNothing DEF GitInv, TypeInv, Typed, JobStarts
<1>2. remote' = remote /\ life' = life
  BY DEF JobStarts
<1>3. PICK b : job' = [i \in Job |->
        IF i = j
        THEN [NewJob EXCEPT !.place = "syncing", !.branch = b, !.syncing = "fetching",
                            !.since = version, !.alone = (SyncThreads = {})]
        ELSE [job[i] EXCEPT !.alone = @ /\ job[i].place # "syncing"]]
  BY DEF JobStarts
<1>4. NotSending(j)
  <2>1. job'[j].pushing = "none"
    BY <1>3 DEF NewJob
  <2> QED
    BY <1>1, <2>1 DEF NotSending, Unsent
<1>5. ASSUME NEW i \in Job \ {j} PROVE SamePushing(i)
  <2>1. job'[i] = [job[i] EXCEPT !.alone = @ /\ job[i].place # "syncing"]
    BY <1>3
  <2> QED
    BY <1>1, <2>1 DEF JobRecord, SamePushing
<1> QED
  BY <1>2, <1>4, <1>5, QuietStepKeepsSent

LEMMA CoroutineKeepsSent ==
  ASSUME GitInv, SentInv, NEW j \in Job, CoroutineStep(j)
  PROVE  SentInv'
<1>1. job \in [Job -> JobRecord] /\ OrderedJob(j)
  BY DEF GitInv, TypeInv, Typed
<1>2. CASE JobStarts(j)
  BY <1>2, JobStartsKeepsSent
<1>3. CASE JobWorks(j)
  <2>1. remote' = remote /\ life' = life /\ job[j].pushing = "none"
    BY <1>1, <1>3 DEF JobWorks, OrderedJob
  <2>2. \/ \E u \in Outcome : job' = [job EXCEPT ![j].place = "ended", ![j].outcome = u]
        \/ \E e \in BOOLEAN :
             job' = [job EXCEPT ![j].edited = e, ![j].place = "pushing",
                                ![j].pushing = "committing"]
    BY <1>3 DEF JobWorks, Ends, Outcome
  <2>3. \A i \in Job : NotSending(i) \/ SamePushing(i)
    BY <1>1, <2>1, <2>2 DEF JobRecord, SamePushing, NotSending, Unsent
  <2> QED
    BY <2>1, <2>3, QuietStepKeepsSent
<1>4. CASE sync_default_branch(j) \/ init_working_dir(j) \/ _commit_and_push(j)
  <2>1. remote' = remote /\ life' = life
    BY <1>4 DEF sync_default_branch, init_working_dir, _commit_and_push
  <2>2. \E p, u : \/ job' = [job EXCEPT ![j].place = p]
                  \/ job' = [job EXCEPT ![j].place = p, ![j].outcome = u]
    BY <1>4 DEF sync_default_branch, init_working_dir, _commit_and_push, Goes, Ends
  <2>3. \A i \in Job : SamePushing(i)
    BY <1>1, <2>2 DEF JobRecord, SamePushing
  <2> QED
    BY <2>1, <2>3, QuietStepKeepsSent
<1>5. CASE CopyItem(j)
  <2>1. remote' = remote /\ life' = life
    BY <1>5 DEF CopyItem
  <2>2. \E d, k : job' = [job EXCEPT ![j].copied = d, ![j].copy = k]
    BY <1>5 DEF CopyItem
  <2>3. \A i \in Job : SamePushing(i)
    BY <1>1, <2>2 DEF JobRecord, SamePushing
  <2> QED
    BY <2>1, <2>3, QuietStepKeepsSent
<1> QED
  BY <1>2, <1>3, <1>4, <1>5 DEF CoroutineStep

LEMMA CommitsKeepsSent ==
  ASSUME GitInv, SentInv, NEW j \in Job, Commits(j)
  PROVE  SentInv'
<1> DEFINE g == CheckedOut(j)
           b == job[j].branch
<1>1. /\ Typed /\ b \in Job /\ job[j].pushing = "committing" /\ g # Absent
      /\ LineageJob(j) /\ remote' = remote /\ life' = life
  BY PusherIsPushing DEF Commits, GitInv, TypeInv, LineageInv, StartedHasBranch
<1>2. g \in History
  BY <1>1, CheckedOutTyped
<1>3. job' = [job EXCEPT ![j].pushing = "sending",
                         ![j].local = [g EXCEPT !.commits = Append(@, <<life, j>>)]]
  BY DEF Commits
<1>4. /\ job'[j].pushing = "sending" /\ job'[j].branch = b
      /\ job'[j].local = [g EXCEPT !.commits = Append(@, <<life, j>>)]
      /\ \A i \in Job \ {j} : job'[i] = job[i]
  BY <1>1, <1>3 DEF Typed, JobRecord
<1>5. job'[j].local.root = g.root /\ job'[j].local.commits = Append(g.commits, <<life, j>>)
  BY <1>2, <1>4 DEF History
<1>6. g.commits = << >> \/ Known(b, g)
  BY <1>1 DEF CheckedOut, IsRevision, OnHead, LineageJob
<1>7. SendingJob(j)'
  <2> HIDE DEF g, b
  <2> QED
    BY <1>1, <1>2, <1>4, <1>5, <1>6 DEF SendingJob, Known
<1>8. ASSUME NEW i \in Job \ {j} PROVE SendingJob(i)'
  BY <1>1, <1>4 DEF SentInv, SendingJob, Known
<1>9. ASSUME NEW a \in Job, NEW n \in 1 .. Len(remote[a].commits)
      PROVE  OfThePast(remote[a].commits[n])'
  <2>1. OfThePast(remote[a].commits[n]) /\ remote[a].commits[n] \in Commit
    BY <1>1, HistoryParts DEF SentInv, Typed
  <2>2. remote[a].commits[n][2] \in Job
    BY <2>1 DEF Commit
  <2>3. CASE remote[a].commits[n][2] = j
    BY <1>1, <2>1, <2>3 DEF OfThePast, Unsent, Pushing
  <2>4. CASE remote[a].commits[n][2] # j
    BY <1>1, <1>4, <2>1, <2>2, <2>4 DEF OfThePast
  <2> QED
    BY <2>3, <2>4
<1> QED
  BY <1>1, <1>7, <1>8, <1>9 DEF SentInv

(* What arrives is what was there and the one commit.                           *)
LEMMA ArrivalIsOneCommit ==
  ASSUME GitInv, SentInv, NEW j \in Job, Sends(j)
  PROVE  /\ job[j].branch \in Job
         /\ remote' = [remote EXCEPT ![job[j].branch] = job[j].local]
         /\ job[j].local.commits = Append(remote[job[j].branch].commits, <<life, j>>)
         /\ remote[job[j].branch] = Absent \/ job[j].local.root = remote[job[j].branch].root
         /\ \A a \in Job : ~ Contains(remote[a].commits, <<life, j>>)
<1> DEFINE b == job[j].branch
           r == remote[b]
           h == job[j].local
<1>1. Typed /\ b \in Job /\ job[j].pushing = "sending"
  BY PusherIsPushing DEF Sends, GitInv, TypeInv, StartedHasBranch
<1>2. r \in History /\ h \in History /\ Lineage(b, r) /\ Extends(h, r)
  BY <1>1 DEF Typed, JobRecord, Sends, Accepts, GitInv, LineageInv
<1>3. ASSUME NEW a \in Job PROVE ~ Contains(remote[a].commits, <<life, j>>)
  <2> SUFFICES ASSUME NEW n \in 1 .. Len(remote[a].commits),
                      remote[a].commits[n] = <<life, j>>
               PROVE  FALSE
    BY DEF Contains
  <2> QED
    BY <1>1 DEF SentInv, OfThePast, Unsent, Pushing
<1>4. PICK g \in History :
        /\ g.commits = << >> \/ (g # Absent /\ Known(b, g))
        /\ h.root = g.root /\ h.commits = Append(g.commits, <<life, j>>)
  BY <1>1 DEF SentInv, SendingJob
<1> HIDE DEF b, r, h
<1>5. /\ g.commits \in Seq(Commit) /\ Len(g.commits) \in Nat
      /\ r.commits \in Seq(Commit) /\ Len(r.commits) \in Nat
      /\ Len(h.commits) = Len(g.commits) + 1
      /\ \A n \in 1 .. Len(g.commits) : h.commits[n] = g.commits[n]
      /\ h.commits[Len(g.commits) + 1] = <<life, j>>
  <2>1. <<life, j>> \in Commit
    BY <1>1 DEF Typed, Commit
  <2>2. /\ g.commits \in Seq(Commit) /\ Len(g.commits) \in Nat
        /\ r.commits \in Seq(Commit) /\ Len(r.commits) \in Nat
    BY <1>2, HistoryParts
  <2> QED
    BY <1>4, <2>1, <2>2, AppendProperties
<1> DEFINE OneMore == /\ h.commits = Append(r.commits, <<life, j>>)
                      /\ r = Absent \/ h.root = r.root
<1>6. ASSUME r = Absent PROVE OneMore
  <2>1. g.commits = << >>
    <3> SUFFICES ASSUME g # Absent, Known(b, g) PROVE FALSE
      BY <1>4
    <3>1. Len(g.commits) >= 1 /\ Extends(r, g)
      BY DEF Known, r
    <3>2. Len(g.commits) <= Len(r.commits)
      BY <1>2, <3>1, ExtensionKeepsCommits
    <3> QED
      BY <1>5, <1>6, <3>1, <3>2 DEF Absent
  <2> QED
    BY <1>4, <1>6, <2>1 DEF Absent
<1>7. ASSUME r # Absent PROVE OneMore
  <2>1. /\ h.root = r.root /\ Len(r.commits) <= Len(h.commits) /\ Len(r.commits) >= 1
        /\ \A n \in 1 .. Len(r.commits) : h.commits[n] = r.commits[n]
    BY <1>2, <1>7, ExtensionKeepsCommits DEF Lineage
  <2>2. Len(r.commits) # Len(g.commits) + 1
    <3> SUFFICES ASSUME Len(r.commits) = Len(g.commits) + 1 PROVE FALSE
      OBVIOUS
    <3>1. r.commits[Len(r.commits)] = <<life, j>> /\ Len(r.commits) \in 1 .. Len(r.commits)
      BY <1>5, <2>1
    <3> QED
      BY <1>1, <1>3, <3>1 DEF Contains, r
  <2>3. Len(r.commits) <= Len(g.commits)
    BY <1>5, <2>1, <2>2
  <2>4. g # Absent /\ Known(b, g)
    BY <1>4, <1>5, <2>1, <2>3
  <2>5. Len(g.commits) <= Len(r.commits)
    BY <1>2, <2>4, ExtensionKeepsCommits DEF Known, r
  <2>6. g.commits = r.commits
    BY <1>5, <2>1, <2>3, <2>5
  <2> QED
    BY <1>4, <2>1, <2>6
<1>8. remote' = [remote EXCEPT ![b] = h]
  BY DEF Sends, b, h
<1> QED
  BY <1>1, <1>3, <1>6, <1>7, <1>8 DEF b, r, h

LEMMA SendsKeepsSent ==
  ASSUME GitInv, SentInv, NEW j \in Job, Sends(j), GitInv'
  PROVE  SentInv'
<1> DEFINE b == job[j].branch
           r == remote[b]
<1>1. /\ b \in Job /\ remote' = [remote EXCEPT ![b] = job[j].local]
      /\ job[j].local.commits = Append(r.commits, <<life, j>>)
  BY ArrivalIsOneCommit
<1>2. Typed /\ life' = life /\ remote' \in [Job -> History]
  BY DEF GitInv, TypeInv, Typed, Sends
<1>3. PICK u \in {"pushed", "push-error"} : job' = [job EXCEPT ![j].pushing = u]
  BY DEF Sends, PushThreadEnds
<1>4. /\ job'[j].pushing \notin Unsent
      /\ \A i \in Job \ {j} : job'[i] = job[i]
  BY <1>2, <1>3 DEF Typed, JobRecord, Unsent
<1>5. \A a \in Job : Extends(remote'[a], remote[a])
  BY <1>1, <1>2, ExtendsItself DEF Sends, Accepts, Typed
<1>6. ASSUME NEW i \in Job PROVE SendingJob(i)'
  <2>1. CASE i = j
    BY <1>4, <2>1 DEF SendingJob, Unsent, Pushing
  <2>2. CASE i # j
    <3> SUFFICES ASSUME job[i].pushing = "sending"
                 PROVE  \E g \in History :
                          /\ g.commits = << >> \/ (g # Absent /\ Known(job[i].branch, g)')
                          /\ job[i].local.root = g.root
                          /\ job[i].local.commits = Append(g.commits, <<life, i>>)
      BY <1>2, <1>4, <2>2 DEF SendingJob, Known
    <3>1. job[i].branch \in Job
      BY PusherIsPushing DEF GitInv, TypeInv, StartedHasBranch
    <3>2. PICK g \in History :
            /\ g.commits = << >> \/ (g # Absent /\ Known(job[i].branch, g))
            /\ job[i].local.root = g.root
            /\ job[i].local.commits = Append(g.commits, <<life, i>>)
      BY DEF SentInv, SendingJob
    <3>3. Known(job[i].branch, g) => Known(job[i].branch, g)'
      BY <1>2, <1>4, <1>5, <2>2, <3>1, GrowthKeeps DEF Known
    <3> QED
      BY <3>2, <3>3
  <2> QED
    BY <2>1, <2>2
<1>7. ASSUME NEW c \in Commit, OfThePast(c) PROVE OfThePast(c)'
  BY <1>2, <1>4, <1>7 DEF OfThePast, Commit
<1>8. ASSUME NEW a \in Job, NEW n \in 1 .. Len(remote'[a].commits)
      PROVE  OfThePast(remote[a].commits[n])'
  <2>1. CASE a # b
    <3>1. remote'[a] = remote[a]
      BY <1>1, <1>2, <2>1 DEF Typed
    <3>2. remote[a].commits[n] \in Commit /\ OfThePast(remote[a].commits[n])
      BY <1>2, <3>1, HistoryParts DEF SentInv, Typed
    <3> QED
      BY <1>7, <3>1, <3>2 DEF OfThePast
  <2>2. CASE a = b
    <3>1. remote'[a].commits = Append(r.commits, <<life, j>>)
      BY <1>1, <1>2, <2>2 DEF Typed
    <3>2. r.commits \in Seq(Commit) /\ Len(r.commits) \in Nat /\ <<life, j>> \in Commit
      BY <1>1, <1>2, HistoryParts DEF Typed, Commit
    <3>3. /\ Len(remote'[a].commits) = Len(r.commits) + 1
          /\ remote'[a].commits[Len(r.commits) + 1] = <<life, j>>
          /\ \A m \in 1 .. Len(r.commits) : remote'[a].commits[m] = r.commits[m]
      <4> HIDE DEF r
      <4> QED
        BY <3>1, <3>2, AppendProperties
    <3>4. CASE n = Len(r.commits) + 1
      <4>1. life \in Int
        BY <1>2 DEF Typed
      <4>2. remote'[a].commits[n] = <<life, j>>
        BY <3>3, <3>4
      <4>3. <<life, j>>[1] <= life' /\ job'[<<life, j>>[2]].pushing \notin Unsent
        BY <1>2, <1>4, <4>1
      <4> QED
        BY <4>2, <4>3 DEF OfThePast
    <3>5. CASE n # Len(r.commits) + 1
      <4>1. n \in 1 .. Len(r.commits)
        BY <3>2, <3>3, <3>5
      <4>2. r.commits[n] \in Commit /\ OfThePast(r.commits[n])
        BY <1>1, <1>2, <4>1, HistoryParts DEF SentInv, Typed
      <4> QED
        BY <1>7, <3>3, <4>1, <4>2 DEF OfThePast
    <3> QED
      BY <3>4, <3>5
  <2> QED
    BY <2>1, <2>2
<1> QED
  BY <1>6, <1>8 DEF SentInv

LEMMA PushStepKeepsSent ==
  ASSUME GitInv, SentInv, NEW j \in Job, PushStep(j), GitInv'
  PROVE  SentInv'
<1>1. job \in [Job -> JobRecord]
  BY DEF GitInv, TypeInv, Typed
<1>2. CASE NothingToCommit(j) \/ CannotCommit(j) \/ SendFails(j)
  <2>1. remote' = remote /\ life' = life
    BY <1>2 DEF NothingToCommit, CannotCommit, SendFails
  <2>2. \E u \in Outcome \ {"none"} : job' = [job EXCEPT ![j].pushing = u]
    BY <1>2 DEF NothingToCommit, CannotCommit, SendFails, PushThreadEnds, Outcome,
                _raise_on_push_error
  <2>3. job[j].pushing \in Unsent
    BY <1>2 DEF NothingToCommit, CannotCommit, SendFails, Unsent, Pushing
  <2>4. \A i \in Job : NotSending(i) \/ SamePushing(i)
    BY <1>1, <2>2, <2>3 DEF JobRecord, SamePushing, NotSending, Outcome
  <2> QED
    BY <2>1, <2>4, QuietStepKeepsSent
<1> QED
  BY <1>2, CommitsKeepsSent, SendsKeepsSent DEF PushStep

LEMMA RestartKeepsSent ==
  ASSUME GitInv, SentInv, Restart
  PROVE  SentInv'
<1>1. /\ Typed /\ remote' = remote /\ life' = life + 1 /\ life \in Int
      /\ job' = [i \in Job |-> NewJob]
  BY DEF GitInv, TypeInv, Typed, Restart
<1>2. \A j \in Job : SendingJob(j)'
  BY <1>1 DEF SendingJob, NewJob
<1>3. ASSUME NEW b \in Job, NEW n \in 1 .. Len(remote[b].commits)
      PROVE  OfThePast(remote[b].commits[n])'
  <2>1. OfThePast(remote[b].commits[n]) /\ remote[b].commits[n] \in Commit
    BY <1>1, HistoryParts DEF SentInv, Typed
  <2> QED
    BY <1>1, <2>1 DEF OfThePast, Commit
<1> QED
  BY <1>1, <1>2, <1>3 DEF SentInv

LEMMA OutsideKeepsSent ==
  ASSUME GitInv, SentInv,
         DefaultBranchAdvances \/ OperatorUnlocks \/ OperatorFetches \/ UNCHANGED gitVars
  PROVE  SentInv'
<1>1. remote' = remote /\ life' = life /\ job' = job
  BY DEF DefaultBranchAdvances, OperatorUnlocks, OperatorFetches, gitVars
<1> QED
  BY <1>1, QuietStepKeepsSent DEF SamePushing

LEMMA SentInvariant == GitSpec => []SentInv
<1>1. GitInit => SentInv
  BY DEF GitInit, SentInv, SendingJob, NewJob, Absent
<1>2. ASSUME GitInv, GitInv', SentInv, [GitNext]_gitVars PROVE SentInv'
  BY <1>2, SyncStepKeepsSent, CoroutineKeepsSent, PushStepKeepsSent, RestartKeepsSent,
     OutsideKeepsSent DEF GitNext
<1> QED
  BY <1>1, <1>2, GitInvariant, PTL DEF GitSpec

(* A commit on the remote is of a Job that is under way, or was reported as pushed   *)
(* or as a push error: who was told that there is nothing to look for finds           *)
(* nothing, not even from a thread that was given up on.                         *)
THEOREM LandedIsReported == GitSpec => []LandsOnlyAsReported
<1>1. GitInv /\ SentInv => LandsOnlyAsReported
  <2> SUFFICES ASSUME GitInv, SentInv,
                      NEW b \in Job, NEW n \in 1 .. Len(remote[b].commits),
                      remote[b].commits[n][1] = life
               PROVE  job[remote[b].commits[n][2]].outcome \in MayLand
    BY DEF LandsOnlyAsReported, MayLand
  <2> DEFINE j == remote[b].commits[n][2]
  <2>1. remote[b].commits[n] \in Commit /\ OfThePast(remote[b].commits[n])
    BY HistoryParts DEF SentInv, GitInv, TypeInv, Typed
  <2>2. j \in Job /\ job[j].pushing \notin Unsent
    BY <2>1 DEF Commit, OfThePast
  <2>3. job[j].pushing \in Pushing /\ ReportJob(j)
    BY <2>2 DEF GitInv, TypeInv, Typed, JobRecord
  <2> QED
    BY <2>2, <2>3 DEF Unsent, ReportJob
<1> QED
  BY <1>1, GitInvariant, SentInvariant, PTL

(* Every push that lands adds one commit of its own Job to one branch, a commit      *)
(* that is there for the first time.                                            *)
THEOREM OneCommitPerPush == GitSpec => PushesAddOneCommit
<1>1. ASSUME GitInv, SentInv, [GitNext]_gitVars
      PROVE  \A b \in Job : remote'[b] # remote[b] => OneCommitArrives(b)
  <2> SUFFICES ASSUME NEW b \in Job, remote'[b] # remote[b] PROVE OneCommitArrives(b)
    OBVIOUS
  <2>1. PICK j \in Job : Sends(j)
    BY <1>1, OnlySendsChangeRemote
  <2>2. /\ remote' = [remote EXCEPT ![job[j].branch] = job[j].local]
        /\ job[j].local.commits = Append(remote[job[j].branch].commits, <<life, j>>)
        /\ remote[job[j].branch] = Absent \/ job[j].local.root = remote[job[j].branch].root
        /\ \A a \in Job : ~ Contains(remote[a].commits, <<life, j>>)
    BY <1>1, <2>1, ArrivalIsOneCommit
  <2>3. remote \in [Job -> History]
    BY <1>1 DEF GitInv, TypeInv, Typed
  <2>4. b = job[j].branch
    BY <1>1, <2>2, <2>3
  <2> QED
    BY <2>2, <2>3, <2>4 DEF OneCommitArrives
<1> QED
  BY <1>1, GitInvariant, SentInvariant, PTL DEF GitSpec, PushesAddOneCommit

=============================================================================
