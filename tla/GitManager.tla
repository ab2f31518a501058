----------------------------- MODULE GitManager -----------------------------
(***************************************************************************)
(* Git_Manager (discord_ollama_agent/git_manager.py) and the copy that      *)
(* ExecutionSandbox.init_working_dir takes, for the Jobs of one target: the *)
(* remote, the target's directory they all sync, and the working copy each   *)
(* of them gets.                                                            *)
(*                                                                         *)
(* The Git operations run in threads while their Job waits for them at most *)
(* a timeout; a thread that is given up on goes on.  The copy is made on the *)
(* event loop's thread: no other Job's coroutine runs meanwhile, threads do. *)
(*                                                                         *)
(* A history is a version of the default branch and the commits made on it. *)
(* A commit is known by the process lifetime and the Job that made it: Job   *)
(* ids start again with every process, and branch names with them.  The      *)
(* external parts are Git, the remote, other developers and the operator.    *)
(***************************************************************************)
EXTENDS Integers, SequencesExt

CONSTANTS Job,               \* suffixes of the Jobs of the target
          File,              \* files of the default branch
          ConcurrencyLimit,  \* Jobs that run at once
          MaxVersion,        \* bound on the versions of the default branch
          MaxLife            \* bound on the lifetimes of the process

DotGit == "dot-git"

ASSUME GitAssumption ==
  /\ Job \subseteq Nat \ {0}
  /\ DotGit \notin File
  /\ ConcurrencyLimit \in Nat \ {0}
  /\ MaxVersion \in Nat \ {0}
  /\ MaxLife \in Nat \ {0}

Commit == (1 .. MaxLife) \X Job
History == [root : 0 .. MaxVersion, commits : Seq(Commit)]
Absent == [root |-> 0, commits |-> << >>]  \* of a branch that does not exist

(* h is g with commits added.                                                *)
Extends(h, g) == g = Absent \/ (g.root = h.root /\ IsPrefix(g.commits, h.commits))

VARIABLES
  version,  \* the tip of the default branch on the remote
  remote,   \* the history of every Job branch on the remote
  repo,     \* the target's directory
  lock,     \* who made its index.lock
  job,      \* every Job of the process, see NewJob
  life      \* which process it is

gitVars == <<version, remote, repo, lock, job, life>>

NoJob == 0
DeadProcess == -1

NoRepo ==
  [cloned    |-> FALSE,                    \* it is a Git repository
   files     |-> [f \in File |-> 0],       \* the version each file is of, 0 if missing
   head      |-> 0,                        \* the version HEAD and the index are at
   fetchHead |-> 0,
   tracking  |-> [b \in Job |-> Absent]]   \* the Job branches, as last learnt of

NoCopy == [files |-> NoRepo.files, head |-> 0, tracking |-> NoRepo.tracking, locked |-> FALSE]

NewJob ==
  [place   |-> "absent",  \* where the coroutine is
   branch  |-> NoJob,     \* the branch it commits to, by the Job it is named after
   syncing |-> "none",    \* the thread of its sync
   want    |-> 0,         \* the version that thread checks out
   copied  |-> {},        \* what init_working_dir has copied
   copy    |-> NoCopy,    \* the working copy
   edited  |-> FALSE,     \* it changed a file Git looks at: tracked, or not ignored
   pushing |-> "none",    \* the thread of its push
   local   |-> Absent,    \* the history that thread sends
   outcome |-> "none",    \* what the Job ended with
   since   |-> 0,         \* the tip of the default branch when its sync began
   alone   |-> FALSE]     \* no other sync of the target overlapped its sync

Item == File \union {DotGit}  \* what there is to copy
Outcome == {"none", "sync-failure", "sandbox-init-failure", "abandoned", "no-changes",
            "missing-credentials", "push-error", "no-branch", "pushed"}

Writing(j) == job[j].syncing \in {"cloning", "writing"}

GitTypeOK ==
  /\ version \in 1 .. MaxVersion
  /\ remote \in [Job -> History]
  /\ repo \in [cloned : BOOLEAN, files : [File -> 0 .. version], head : 0 .. version,
               fetchHead : 0 .. version, tracking : [Job -> History]]
  /\ lock \in {NoJob, DeadProcess} \union {j \in Job : Writing(j)}
  /\ life \in 1 .. MaxLife
  /\ \A j \in Job :
       job[j] \in
         [place : {"absent", "syncing", "copying", "working", "pushing", "ended"},
          branch : Job \union {NoJob},
          syncing : {"none", "fetching", "fetched", "resolved", "cloning", "writing", "ok", "failed"},
          want : 0 .. version,
          copied : SUBSET Item,
          copy : [files : [File -> 0 .. version], head : 0 .. version,
                  tracking : [Job -> History], locked : BOOLEAN],
          edited : BOOLEAN,
          pushing : {"none", "committing", "sending"} \union Outcome,
          local : History,
          outcome : Outcome,
          since : 0 .. version,
          alone : BOOLEAN]

GitInit ==
  /\ version = 1
  /\ remote = [b \in Job |-> Absent]
  /\ repo = NoRepo
  /\ lock = NoJob
  /\ job = [j \in Job |-> NewJob]
  /\ life = 1

-----------------------------------------------------------------------------
Active == {j \in Job : job[j].place \notin {"absent", "ended"}}
SyncThreads == {j \in Job : job[j].syncing \in {"fetching", "fetched", "resolved"} \/ Writing(j)}
PushThreads == {j \in Job : job[j].pushing \in {"committing", "sending"}}

(* The loop's thread is not busy with a copytree.                            *)
LoopIsFree == \A j \in Job : job[j].place # "copying"

Goes(j, place) == job' = [job EXCEPT ![j].place = place]
Ends(j, outcome) == job' = [job EXCEPT ![j].place = "ended", ![j].outcome = outcome]

(* branch_name_for with the default scheme: the id of the Job.               *)
branch_name_for_WithoutId(j) == CHOOSE i \in Job : TRUE
branch_name_for(j) == j

(* A /build gets a branch of its own; a revision continues the branch of a   *)
(* Job of this process that pushed one.                                      *)
JobStarts(j) ==
  /\ LoopIsFree
  /\ job[j].place = "absent"
  /\ Cardinality(Active) < ConcurrencyLimit
  /\ \E b \in {branch_name_for(j)} \union
               {job[i].branch : i \in {i \in Job : job[i].outcome = "pushed"}} :
       job' = [i \in Job |->
         IF i = j
         THEN [NewJob EXCEPT !.place = "syncing", !.branch = b, !.syncing = "fetching",
                             !.since = version, !.alone = (SyncThreads = {})]
         ELSE [job[i] EXCEPT !.alone = @ /\ job[i].place # "syncing"]]
  /\ UNCHANGED <<version, remote, repo, lock, life>>

-----------------------------------------------------------------------------
(* The thread of sync_default_branch.                                        *)

(* The directory is no repository yet: clone, which learns every branch and   *)
(* checks the default branch out, under the index lock like a reset.         *)
_clone(j) ==
  /\ job[j].syncing = "fetching"
  /\ ~repo.cloned
  /\ lock = NoJob
  /\ repo' = [repo EXCEPT !.cloned = TRUE, !.tracking = remote]
  /\ lock' = j
  /\ job' = [job EXCEPT ![j].syncing = "cloning", ![j].want = version]
  /\ UNCHANGED <<version, remote, life>>

(* Only the default branch is fetched.                                       *)
Fetch(j) ==
  /\ job[j].syncing = "fetching"
  /\ repo.cloned
  /\ repo' = [repo EXCEPT !.fetchHead = version]
  /\ job' = [job EXCEPT ![j].syncing = "fetched"]
  /\ UNCHANGED <<version, remote, lock, life>>

(* reset --hard FETCH_HEAD: look the commit up, lock the index, write the     *)
(* files one after the other, move HEAD and unlock.                          *)
ResetTarget_LocalBranch == repo.head
ResetTarget == repo.fetchHead

ResetResolves(j) ==
  /\ job[j].syncing = "fetched"
  /\ job' = [job EXCEPT ![j].syncing = "resolved", ![j].want = ResetTarget]
  /\ UNCHANGED <<version, remote, repo, lock, life>>

ResetLocks(j) ==
  /\ job[j].syncing = "resolved"
  /\ lock = NoJob
  /\ lock' = j
  /\ job' = [job EXCEPT ![j].syncing = "writing"]
  /\ UNCHANGED <<version, remote, repo, life>>

ResetWrites(j) ==
  /\ Writing(j)
  /\ \E f \in File :
       /\ repo.files[f] # job[j].want
       /\ repo' = [repo EXCEPT !.files[f] = job[j].want]
  /\ UNCHANGED <<version, remote, lock, job, life>>

ResetEnds_StaysLocked(j) ==
  /\ Writing(j)
  /\ \A f \in File : repo.files[f] = job[j].want
  /\ repo' = [repo EXCEPT !.head = job[j].want]
  /\ job' = [job EXCEPT ![j].syncing = "ok"]
  /\ UNCHANGED <<version, remote, lock, life>>

ResetEnds(j) ==
  /\ Writing(j)
  /\ \A f \in File : repo.files[f] = job[j].want
  /\ repo' = [repo EXCEPT !.head = job[j].want]
  /\ lock' = NoJob
  /\ job' = [job EXCEPT ![j].syncing = "ok"]
  /\ UNCHANGED <<version, remote, life>>

(* The remote cannot be reached, or somebody else has the index locked: a     *)
(* lock is never waited for.                                                 *)
SyncThreadFails(j) ==
  /\ \/ job[j].syncing = "fetching"
     \/ job[j].syncing = "resolved" /\ lock # NoJob
  /\ job' = [job EXCEPT ![j].syncing = "failed"]
  /\ UNCHANGED <<version, remote, repo, lock, life>>

(* A clone that takes too long is killed (kill_after_timeout), and can leave   *)
(* its lock behind; a reset has no time limit.                               *)
CloneKilled(j) ==
  /\ job[j].syncing = "cloning"
  /\ job' = [job EXCEPT ![j].syncing = "failed"]
  /\ lock' = DeadProcess
  /\ UNCHANGED <<version, remote, repo, life>>

-----------------------------------------------------------------------------
(* The coroutine: from the result of the sync into init_working_dir.         *)

sync_default_branch(j) ==
  /\ LoopIsFree
  /\ job[j].place = "syncing"
  /\ \/ job[j].syncing = "ok" /\ Goes(j, "copying")
     \/ job[j].syncing = "failed" /\ Ends(j, "sync-failure")
     \/ j \in SyncThreads /\ Ends(j, "sync-failure")      \* the timeout
  /\ UNCHANGED <<version, remote, repo, lock, life>>

CopyItem(j) ==
  /\ job[j].place = "copying"
  /\ \E i \in Item \ job[j].copied :
       job' = [job EXCEPT
         ![j].copied = @ \union {i},
         ![j].copy =
            IF i = DotGit
            THEN [@ EXCEPT !.head = repo.head, !.tracking = repo.tracking,
                           !.locked = (lock # NoJob)]
            ELSE [@ EXCEPT !.files[i] = repo.files[i]]]
  /\ UNCHANGED <<version, remote, repo, lock, life>>

(* copytree fails when a file it saw is gone: another thread is writing.      *)
init_working_dir(j) ==
  /\ job[j].place = "copying"
  /\ \/ job[j].copied = Item /\ Goes(j, "working")
     \/ SyncThreads # {} /\ Ends(j, "sandbox-init-failure")
  /\ UNCHANGED <<version, remote, repo, lock, life>>

(* Generation and build change files of the working copy, or the Job ends.     *)
(* Files that .gitignore names, which is all a Job may have written, do not     *)
(* count: Git does not see them.                                             *)
JobWorks(j) ==
  /\ LoopIsFree
  /\ job[j].place = "working"
  /\ \/ Ends(j, "abandoned")
     \/ \E e \in BOOLEAN :
          job' = [job EXCEPT ![j].edited = e, ![j].place = "pushing",
                             ![j].pushing = "committing"]
  /\ UNCHANGED <<version, remote, repo, lock, life>>

-----------------------------------------------------------------------------
(* The thread of _commit_and_push.                                           *)

(* Any difference from HEAD that Git sees, also one the Job did not make.      *)
IsDirty(j) ==
  job[j].edited \/ \E f \in File : job[j].copy.files[f] # job[j].copy.head

IsRevision(j) == job[j].branch # branch_name_for(j)

(* checkout -B makes the branch from HEAD; a revision's checkout takes it as  *)
(* the repository knows it.                                                  *)
OnHead(j) == [root |-> job[j].copy.head, commits |-> << >>]
CheckedOut(j) ==
  IF IsRevision(j) THEN job[j].copy.tracking[job[j].branch] ELSE OnHead(j)

PushThreadEnds(j, result) == job' = [job EXCEPT ![j].pushing = result]

NothingToCommit(j) ==
  /\ job[j].pushing = "committing"
  /\ ~IsDirty(j)
  /\ PushThreadEnds(j, "no-changes")
  /\ UNCHANGED <<version, remote, repo, lock, life>>

CannotCommit(j) ==
  /\ job[j].pushing = "committing"
  /\ IsDirty(j)
  /\ \/ PushThreadEnds(j, "missing-credentials")
     \/ job[j].copy.locked /\ PushThreadEnds(j, "push-error")
     \/ CheckedOut(j) = Absent /\ PushThreadEnds(j, "no-branch")
     \/ /\ IsRevision(j)            \* its changes are in the way of the checkout
        /\ CheckedOut(j) # Absent
        /\ PushThreadEnds(j, "push-error")
  /\ UNCHANGED <<version, remote, repo, lock, life>>

Commits(j) ==
  /\ job[j].pushing = "committing"
  /\ IsDirty(j)
  /\ ~job[j].copy.locked
  /\ CheckedOut(j) # Absent
  /\ job' = [job EXCEPT
       ![j].pushing = "sending",
       ![j].local = [CheckedOut(j) EXCEPT !.commits = Append(@, <<life, j>>)]]
  /\ UNCHANGED <<version, remote, repo, lock, life>>

(* The remote takes a push that only adds commits; without force it refuses   *)
(* any other.                                                                *)
Accepts_Forced(b, h) == TRUE
Accepts(b, h) == Extends(h, remote[b])

Sends(j) ==
  /\ job[j].pushing = "sending"
  /\ Accepts(job[j].branch, job[j].local)
  /\ remote' = [remote EXCEPT ![job[j].branch] = job[j].local]
  /\ \/ PushThreadEnds(j, "pushed")
     \/ PushThreadEnds(j, "push-error")      \* killed after it landed
  /\ UNCHANGED <<version, repo, lock, life>>

(* A rejected push need not raise; _raise_on_push_error looks at its flags.   *)
_raise_on_push_error_Unchecked(j) == PushThreadEnds(j, "pushed")
_raise_on_push_error(j) == PushThreadEnds(j, "push-error")

SendFails(j) ==
  /\ job[j].pushing = "sending"
  /\ \/ ~Accepts(job[j].branch, job[j].local) /\ _raise_on_push_error(j)
     \/ PushThreadEnds(j, "push-error")      \* unreachable, denied or killed
  /\ UNCHANGED <<version, remote, repo, lock, life>>

(* The result of the thread, or the timeout; a /cancel ends neither.           *)
_commit_and_push_AsSync(j) ==
  /\ LoopIsFree
  /\ job[j].place = "pushing"
  /\ Ends(j, IF j \in PushThreads THEN "sync-failure" ELSE job[j].pushing)
  /\ UNCHANGED <<version, remote, repo, lock, life>>

_commit_and_push(j) ==
  /\ LoopIsFree
  /\ job[j].place = "pushing"
  /\ Ends(j, IF j \in PushThreads THEN "push-error" ELSE job[j].pushing)
  /\ UNCHANGED <<version, remote, repo, lock, life>>

-----------------------------------------------------------------------------
(* What is outside the process.                                              *)

DefaultBranchAdvances ==
  /\ version < MaxVersion
  /\ version' = version + 1
  /\ UNCHANGED <<remote, repo, lock, job, life>>

(* The process dies, its Git commands with it, and is started again.          *)
Restart ==
  /\ life < MaxLife
  /\ life' = life + 1
  /\ lock' = IF lock = NoJob THEN NoJob ELSE DeadProcess
  /\ job' = [j \in Job |-> NewJob]
  /\ UNCHANGED <<version, remote, repo>>

(* The operator removes a dead process's lock, or fetches every branch.       *)
OperatorUnlocks ==
  /\ lock = DeadProcess
  /\ lock' = NoJob
  /\ UNCHANGED <<version, remote, repo, job, life>>

OperatorFetches ==
  /\ repo.cloned
  /\ repo.tracking # remote
  /\ repo' = [repo EXCEPT !.tracking = remote]
  /\ UNCHANGED <<version, remote, lock, job, life>>

SyncStep(j) ==
  \/ _clone(j) \/ Fetch(j) \/ ResetResolves(j) \/ ResetLocks(j) \/ ResetWrites(j)
  \/ ResetEnds(j) \/ SyncThreadFails(j)
  \/ CloneKilled(j)

CoroutineStep(j) ==
  \/ JobStarts(j) \/ sync_default_branch(j) \/ CopyItem(j) \/ init_working_dir(j)
  \/ JobWorks(j) \/ _commit_and_push(j)

PushStep(j) ==
  NothingToCommit(j) \/ CannotCommit(j) \/ Commits(j) \/ Sends(j) \/ SendFails(j)

GitNext ==
  \/ \E j \in Job : SyncStep(j) \/ CoroutineStep(j) \/ PushStep(j)
  \/ DefaultBranchAdvances \/ Restart \/ OperatorUnlocks \/ OperatorFetches

GitSpec == GitInit /\ [][GitNext]_gitVars

-----------------------------------------------------------------------------
(* Properties.                                                               *)

(* No push takes a commit off a branch of the remote: not a revision that     *)
(* knows an old tip of the branch, not a Job whose id, and so whose branch,   *)
(* was used by an earlier process, not a thread that was given up on.         *)
RemoteIsAppendOnly ==
  [][\A b \in Job : Extends(remote'[b], remote[b])]_gitVars

(* More than that: a push that lands adds one commit to one branch, that of a   *)
(* Job of this process, and never one that is there already.  What a thread was *)
(* about to send when it was given up on, or when another revision of the same   *)
(* Job got ahead of it, does not arrive together with anything else, nor twice.  *)
OneCommitArrives(b) ==
  \E j \in Job :
    /\ remote'[b].commits = Append(remote[b].commits, <<life, j>>)
    /\ remote[b] = Absent \/ remote'[b].root = remote[b].root
    /\ ~Contains(remote[b].commits, <<life, j>>)
    /\ \A a \in Job \ {b} : remote'[a] = remote[a]

PushesAddOneCommit ==
  [][\A b \in Job : remote'[b] # remote[b] => OneCommitArrives(b)]_gitVars

(* A Job reported as pushed has its commit on its branch, whatever was pushed *)
(* to that branch since (PushStatus.PUSHED vs. the push flags).               *)
PushedIsOnRemote ==
  \A j \in Job :
    job[j].outcome = "pushed" => Contains(remote[job[j].branch].commits, <<life, j>>)

(* A branch starts with the commit of the /build it is named after, and every *)
(* other commit on it is of a revision made in the same process.              *)
BranchIsOneLineage ==
  \A b \in Job : remote[b] # Absent =>
    LET c == remote[b].commits IN
    /\ c[1][2] = b
    /\ \A n \in 2 .. Len(c) : c[n][1] = c[1][1] /\ c[n][2] # b

WholeCopy(j) == \A f \in File : job[j].copy.files[f] = job[j].copy.head
FreshCopy(j) == job[j].copy.head >= job[j].since

(* A Job whose sync no other sync of the target overlapped works on exactly   *)
(* one version of the default branch, at least as new as the one that was      *)
(* current when it started, also after a crash in the middle of a reset.       *)
UndisturbedCopyIsCurrent ==
  \A j \in Job :
    job[j].alone /\ job[j].place = "working" =>
      WholeCopy(j) /\ FreshCopy(j) /\ ~job[j].copy.locked

(* Whoever is told that a Job did not get as far as a push, had nothing to push  *)
(* or may not push (PushStatus, the failure reasons) need not look for its        *)
(* commit, now or later: one that lands, also from a thread that was given up on,  *)
(* is of a Job still under way, or reported as pushed or as a push error.         *)
LandsOnlyAsReported ==
  \A b \in Job : \A n \in 1 .. Len(remote[b].commits) :
    LET c == remote[b].commits[n] IN
      c[1] = life => job[c[2]].outcome \in {"none", "pushed", "push-error"}

-----------------------------------------------------------------------------
(* What the documentation says and the code does not do.                     *)

(* sync_default_branch documents its working_copy as "The Job's isolated       *)
(* working-copy root" and the requirements ask for a copy no other Job of the  *)
(* target can corrupt (7.2): every working copy is one version of the branch.  *)
WorkingCopyIsWhole == \A j \in Job : job[j].place = "working" => WholeCopy(j)

(* commit_and_push_revision "checks out that branch": the branch a revision    *)
(* continues is there to be checked out.                                      *)
RevisionFindsBranch == \A j \in Job : job[j].pushing # "no-branch"
=============================================================================
