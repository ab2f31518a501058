------------------------------- MODULE Attempt -------------------------------
(***************************************************************************)
(* What one Job does to files, requests and messages: the data that           *)
(* CodingAgent.tla abstracts from.  The Job is accepted by a process of        *)
(* ConnectivityMonitor.tla, shows files chosen as in ContextSelection.tla to    *)
(* the endpoint of OllamaClient.tla, writes what comes back into its working    *)
(* copy (execution_sandbox.py), builds and pushes that, and what became of it   *)
(* is announced by _deliver (discord_bot.py).                                  *)
(*                                                                         *)
(* Of the files only those count that Git looks at; a path in .gitignore is not  *)
(* one of them.  The files of attempt n are written by its completion, writer    *)
(* 2n - 1, and by the Build_Command run on it, writer 2n, which is an arbitrary  *)
(* command.  The content of a file is its writer, 0 for what Git has: the default  *)
(* branch in the working copy, the branch it continues in what a revision pushes  *)
(* (checkout keeps what was written and changes the rest).  A worker that is done  *)
(* does not read its working copy again, nor does anybody else.                *)
(*                                                                         *)
(* The build and the channel are external: a process of a build may stay and go  *)
(* on writing; a message may fail to be sent, and may have been sent although     *)
(* sending it failed.                                                        *)
(***************************************************************************)
EXTENDS ConnectivityMonitor, ContextSelection

CONSTANTS Path,              \* the files of the working copy that Git looks at
          Artefact,          \* those the Build_Command may write
          Copies,            \* the working copies a Job may find
          MaxBuildAttempts,  \* config.max_build_attempts
          MaxDeliveryRetries \* _MAX_DELIVERY_RETRIES

ASSUME AttemptAssumption ==
  /\ MaxBuildAttempts \in Nat \ {0}
  /\ MaxDeliveryRetries \in Nat
  /\ Copies \subseteq Seq(File)
  /\ Artefact \subseteq Path

VARIABLES
  step,      \* the await the worker of the Job is in
  revision,  \* job.is_revision
  builds,    \* the target has a Build_Command
  attempt,   \* job.attempts_completed
  request,   \* the GenerationRequest
  wrote,     \* what each writer wrote
  tree,      \* the content of every file of the working copy
  tested,    \* the working copy as the build that succeeded left it
  outlived,  \* a process of a build is still there and may write
  pushed,    \* the working copy that was pushed
  message,   \* the message that is delivered, or was last
  tries,     \* how often sending it was tried
  faults,    \* how often that failed for no fault of the message
  shown      \* the messages in the channel

jobVars == <<revision, builds, attempt, request, wrote, tree, tested, outlived, pushed>>
deliveryVars == <<message, tries, faults, shown>>
workVars == <<step, selectionVars, jobVars, deliveryVars>>
attemptVars == <<connectivityVars, workVars>>

Writer == 1 .. 2 * MaxBuildAttempts
CompletionOf(n) == 2 * n - 1
BuildOf(n) == 2 * n

Content == {0} \union Writer
Tree == [Path -> Content]
Original == [p \in Path |-> 0]
NoTree == << >>

(* Some files with their content, which may be what Git has.                    *)
Files(ps, w) == UNION {[qs -> {0, w}] : qs \in SUBSET ps}
NoFiles == << >>
NothingWritten == [w \in Writer |-> NoFiles]

NoRequest == [context |-> FALSE, feedback |-> FALSE, prior |-> 0]
Kind == {"started", "branch", "no-changes", "failed", "build failed"}
Message == [kind : {"none"} \union Kind, fits : BOOLEAN]
NoMessage == [kind |-> "none", fits |-> TRUE]

AttemptTypeOK ==
  /\ ConnectivityTypeOK
  /\ SelectionTypeOK
  /\ step \in {"none", "announcing", "syncing", "selecting", "generating", "building",
               "pushing", "reporting", "ended"}
  /\ revision \in BOOLEAN /\ builds \in BOOLEAN
  /\ attempt \in 0 .. MaxBuildAttempts
  /\ request \in [context : BOOLEAN, feedback : BOOLEAN, prior : 0 .. MaxBuildAttempts - 1]
  /\ \A w \in Writer : wrote[w] \in Files(Path, w)
  /\ tree \in Tree /\ outlived \in BOOLEAN
  /\ tested \in Tree \union {NoTree} /\ pushed \in Tree \union {NoTree}
  /\ message \in Message
  /\ tries \in 0 .. MaxDeliveryRetries + 1 /\ faults \in 0 .. tries
  /\ shown \subseteq Kind

NoWork ==
  /\ step = "none"
  /\ NoSelection
  /\ revision = FALSE /\ builds = FALSE
  /\ attempt = 0
  /\ request = NoRequest
  /\ wrote = NothingWritten
  /\ tree = Original
  /\ tested = NoTree /\ outlived = FALSE /\ pushed = NoTree
  /\ message = NoMessage /\ tries = 0 /\ faults = 0
  /\ shown = {}

AttemptInit == ConnectivityInit /\ NoWork

-----------------------------------------------------------------------------
(* Delivery.                                                                 *)

Posts(kind, fits) ==
  /\ message' = [kind |-> kind, fits |-> fits]
  /\ tries' = 0
  /\ faults' = 0
  /\ UNCHANGED shown

(* The worker is done: with its request, and with its working copy.             *)
LocalsForgotten ==
  /\ request' = NoRequest
  /\ wrote' = NothingWritten
  /\ tree' = Original
  /\ tested' = NoTree
  /\ outlived' = FALSE

(* _fail with a text of any length (the output of a build, an exception, an error *)
(* in a completion), or with a detail of one line or none.                     *)
_fail(kind, text) ==
  /\ step' = "reporting"
  /\ LocalsForgotten
  /\ \E fits \in {TRUE, ~text} : Posts(kind, fits)

(* After one message or the other the worker goes on, or ends if it was signalled *)
(* meanwhile.                                                                *)
Delivered ==
  \/ step = "announcing" /\ step' \in {"syncing", "ended"}
  \/ step = "reporting" /\ step' = "ended"

Delivering == step \in {"announcing", "reporting"}

MaxTries_RetriesOnly == MaxDeliveryRetries
MaxTries == MaxDeliveryRetries + 1

SendSucceeds ==
  /\ Delivering
  /\ message.fits
  /\ shown' = shown \union {message.kind}
  /\ tries' = tries + 1
  /\ Delivered
  /\ UNCHANGED <<message, faults>>

(* Discord refuses a message of more than 2000 characters; anything else that   *)
(* raises may have come before or after the message was posted.               *)
SendRaises ==
  /\ Delivering
  /\ tries' = tries + 1
  /\ IF tries + 1 >= MaxTries THEN Delivered ELSE UNCHANGED step
  /\ IF message.fits
     THEN faults' = faults + 1 /\ shown' \in {shown, shown \union {message.kind}}
     ELSE UNCHANGED <<faults, shown>>
  /\ UNCHANGED message

_deliver ==
  /\ SendSucceeds \/ SendRaises
  /\ UNCHANGED <<connectivityVars, selectionVars, jobVars>>

-----------------------------------------------------------------------------
(* The Job.                                                                  *)

(* The build and revise callbacks, up to the first await of run.              *)
JobAccepted ==
  /\ place = "serving" /\ commands # "none" /\ listed
  /\ available
  /\ step = "none"
  /\ step' = "announcing"
  /\ revision' \in BOOLEAN
  /\ builds' \in BOOLEAN
  /\ Posts("started", TRUE)
  /\ UNCHANGED <<connectivityVars, selectionVars, attempt, request, wrote, tree, tested,
                 outlived, pushed>>

(* Sync and copy (GitManager.tla): of an error of Git one line is kept, one of    *)
(* the copy lists every file; a target that is gone fails as a sync does.  Then the files are loaded; a revision's come from  *)
(* the same copy.                                                            *)
Synced ==
  /\ step = "syncing"
  /\ \/ _fail("failed", FALSE) /\ UNCHANGED selectionVars      \* the sync failed
     \/ _fail("failed", TRUE) /\ UNCHANGED selectionVars       \* the copy failed
     \/ /\ \E copy \in Copies : SelectionStarts(copy)
        /\ step' = "selecting"
        /\ UNCHANGED <<request, wrote, tree, tested, outlived, deliveryVars>>
  /\ UNCHANGED <<connectivityVars, revision, builds, attempt, pushed>>

SelectsFiles ==
  /\ step = "selecting"
  /\ SelectionStep
  /\ UNCHANGED <<connectivityVars, step, jobVars, deliveryVars>>

_initial_request ==
  /\ step = "selecting"
  /\ SelectionReturns
  /\ request' = [context |-> selected # << >>, feedback |-> revision, prior |-> 0]
  /\ step' = "generating"
  /\ UNCHANGED <<connectivityVars, revision, builds, attempt, wrote, tree, tested, outlived,
                 pushed, deliveryVars>>

IsFinal_OneLate(n) == n > MaxBuildAttempts
IsFinal(n) == n >= MaxBuildAttempts

_retry_request_WithoutFeedback(n) == request' = [request EXCEPT !.prior = n, !.feedback = FALSE]
_retry_request(n) == request' = [request EXCEPT !.prior = n]

(* A recoverable failure of attempt n: fed back, or final.                     *)
FedBack(n) ==
  /\ ~IsFinal(n)
  /\ _retry_request(n)
  /\ step' = "generating"
  /\ UNCHANGED <<tested, deliveryVars>>

FailsFinally(n, kind) == IsFinal(n) /\ _fail(kind, TRUE)

GenerationRaises ==
  /\ step = "generating"
  /\ generate({}) \intersect Raised # {}
  /\ _fail("failed", TRUE)
  /\ UNCHANGED <<connectivityVars, selectionVars, revision, builds, attempt, pushed>>

Generates(contents) == step = "generating" /\ contents \intersect generate(contents) # {}

(* _parse_completion: empty, not JSON, or of another shape.                   *)
GeneratesMalformed ==
  /\ Generates({"malformed"})
  /\ attempt' = attempt + 1
  /\ \/ FedBack(attempt + 1) /\ UNCHANGED <<wrote, tree, outlived>>
     \/ FailsFinally(attempt + 1, "failed")
  /\ UNCHANGED <<connectivityVars, selectionVars, revision, builds, pushed>>

GeneratesNothing ==
  /\ Generates({"no files"})
  /\ attempt' = attempt + 1
  /\ _fail("failed", FALSE)
  /\ UNCHANGED <<connectivityVars, selectionVars, revision, builds, pushed>>

(* Whole-file replacement of the files, one after the other.                  *)
Written_NewFilesOnly(files) ==
  [p \in Path |-> IF p \in DOMAIN files /\ tree[p] = 0 THEN files[p] ELSE tree[p]]
Written(files) == [p \in Path |-> IF p \in DOMAIN files THEN files[p] ELSE tree[p]]

(* w has written some of ps, or nothing that Git looks at.  Who wrote what is kept  *)
(* as long as no process is left behind that writes as well.                    *)
Writes(ps, w) ==
  \E files \in Files(ps, w) :
    /\ tree' = Written(files)
    /\ wrote' = IF outlived' THEN NothingWritten ELSE [wrote EXCEPT ![w] = files]

GeneratesFiles ==
  /\ Generates({"files"})
  /\ attempt' = attempt + 1
  /\ UNCHANGED outlived
  /\ Writes(Path, CompletionOf(attempt + 1))
  /\ step' = IF builds THEN "building" ELSE "pushing"
  /\ UNCHANGED <<connectivityVars, selectionVars, revision, builds, request, tested, pushed,
                 deliveryVars>>

(* A path escapes the working directory or cannot be written; the entries before  *)
(* it have been.                                                             *)
WriteFails ==
  /\ Generates({"files"})
  /\ attempt' = attempt + 1
  /\ _fail("failed", TRUE)
  /\ UNCHANGED <<connectivityVars, selectionVars, revision, builds, pushed>>

(* The Build_Command has run: it has written, whether it failed or not, and a      *)
(* process it started may still be there (ExecutionSandbox.tla).                *)
BuildRuns ==
  /\ step = "building"
  /\ outlived' \in {outlived, TRUE}
  /\ Writes(Artefact, BuildOf(attempt))

BuildSucceeds ==
  /\ BuildRuns
  /\ tested' = IF outlived' THEN NoTree ELSE tree'
  /\ step' = "pushing"
  /\ UNCHANGED <<connectivityVars, selectionVars, revision, builds, attempt, request, pushed,
                 deliveryVars>>

BuildFails ==
  /\ step = "building"
  /\ \/ BuildRuns /\ FedBack(attempt)
     \/ FailsFinally(attempt, "build failed")
  /\ UNCHANGED <<connectivityVars, selectionVars, revision, builds, attempt, pushed>>

BuildTimesOut ==
  /\ step = "building"
  /\ _fail("build failed", TRUE)
  /\ UNCHANGED <<connectivityVars, selectionVars, revision, builds, attempt, pushed>>

(* A process that outlived its build writes while the Job goes on.              *)
SurvivorWrites ==
  /\ outlived
  /\ step \in {"generating", "building", "pushing"}
  /\ \E n \in 1 .. attempt : \E files \in Files(Artefact, BuildOf(n)) : tree' = Written(files)
  /\ UNCHANGED <<connectivityVars, selectionVars, step, revision, builds, attempt, request,
                 wrote, tested, outlived, pushed, deliveryVars>>

(* _render_event names the branch whenever the Job has one.                   *)
SuccessKind_AlwaysBranch(changed) == "branch"
SuccessKind(changed) == IF changed \/ revision THEN "branch" ELSE "no-changes"

_succeed(changed) ==
  /\ step' = "reporting"
  /\ LocalsForgotten
  /\ Posts(SuccessKind(changed), TRUE)

(* Commit and push (GitManager.tla): nothing changed, pushed, or failed, with a   *)
(* detail of one line.  Git fails with a clean copy, too; a push that is given up  *)
(* on may land.                                                              *)
_commit_and_push ==
  /\ step = "pushing"
  /\ \/ tree = Original /\ _succeed(FALSE) /\ UNCHANGED pushed
     \/ tree # Original /\ _succeed(TRUE) /\ pushed' = tree
     \/ _fail("failed", FALSE) /\ pushed' \in {pushed} \union ({tree} \ {Original})
  /\ UNCHANGED <<connectivityVars, selectionVars, revision, builds, attempt>>

(* run returns without a message: it was signalled, or something was raised that  *)
(* nobody expects, which the manager records.                                  *)
Stops ==
  /\ step \in {"syncing", "selecting", "generating", "building", "pushing"}
  /\ step' = "ended"
  /\ SelectionForgotten
  /\ LocalsForgotten
  /\ message' = NoMessage
  /\ tries' = 0 /\ faults' = 0
  /\ UNCHANGED <<connectivityVars, revision, builds, attempt, pushed, shown>>

(* The process ends: its Job is gone, the next one starts from nothing.        *)
WorkDies ==
  /\ step' = "none"
  /\ SelectionForgotten
  /\ revision' = FALSE /\ builds' = FALSE
  /\ attempt' = 0
  /\ LocalsForgotten
  /\ pushed' = NoTree
  /\ message' = NoMessage /\ tries' = 0 /\ faults' = 0
  /\ shown' = {}

AttemptStep ==
  \/ _deliver \/ Synced \/ SelectsFiles \/ _initial_request
  \/ GenerationRaises \/ GeneratesMalformed \/ GeneratesNothing \/ GeneratesFiles
  \/ WriteFails
  \/ BuildSucceeds \/ BuildFails \/ BuildTimesOut \/ _commit_and_push \/ Stops

(* The selection of files does not suspend: only the endpoint goes on.         *)
LoopIsFree == step # "selecting"

AttemptNext ==
  \/ JobAccepted \/ AttemptStep \/ SurvivorWrites
  \/ LoopIsFree /\ (Starts \/ ProcessStep \/ on_ready \/ GatewayEnds) /\ UNCHANGED workVars
  \/ (Exits \/ Killed) /\ WorkDies
  \/ EndpointChanges /\ UNCHANGED <<listed, monitorVars, workVars>>

AttemptSpec == AttemptInit /\ [][AttemptNext]_attemptVars
AttemptFairSpec == AttemptSpec /\ ConnectivityFairness /\ WF_attemptVars(AttemptStep)

-----------------------------------------------------------------------------
(* Properties.                                                               *)

(* What is pushed to a new branch is what the build that succeeded left, and in    *)
(* any push every file is as its last writer left it, of all completions and       *)
(* builds, those of attempts that failed included (_write_files and run_command    *)
(* vs. retries) -- unless a process of a build is left behind, which nobody looks   *)
(* for.  What a revision pushes was built on another branch.                     *)
WritersOf(p) == {w \in Writer : p \in DOMAIN wrote[w]}
LastWritten(p) ==
  IF WritersOf(p) = {} THEN 0
  ELSE LET w == CHOOSE w \in WritersOf(p) : \A v \in WritersOf(p) : v <= w IN wrote[w][p]

PushesWhatWasBuilt ==
  pushed' \notin {pushed, NoTree} /\ ~outlived =>
    /\ builds /\ ~revision => pushed' = tested
    /\ \A p \in Path : pushed'[p] = LastWritten(p)

PushedIsWhatWasBuilt == [][PushesWhatWasBuilt]_attemptVars

(* Each retry carries the error of the attempt just before it, and no other,    *)
(* with the feedback of the revision still in it.                             *)
RetryCarriesLastError ==
  step = "generating" => request.prior = attempt /\ request.feedback = revision

(* A message that Discord takes is lost only when every try of it failed.      *)
DeliveredUnlessAllTriesFail ==
  ~Delivering /\ message.kind # "none" =>
    message.kind \in shown \/ ~message.fits \/ faults = MaxDeliveryRetries + 1

(* A /build Job whose branch is announced pushed it.  "No changes" is never said   *)
(* of a Job that pushed something, nor of a revision (_render_event vs. the result *)
(* of the push).  A revision may be announced to have pushed a branch although it   *)
(* pushed nothing: nothing is claimed of its branch here.                       *)
SuccessIsToldTruly ==
  /\ "branch" \in shown /\ ~revision => pushed # NoTree
  /\ "no-changes" \in shown => pushed = NoTree /\ ~revision

-----------------------------------------------------------------------------
(* What the documentation says and the code does not do.                     *)

(* requirements.md, 6.3: a Job that fails is announced with its reason; here a Job  *)
(* whose build fails or times out, in a channel in which no send ever fails of     *)
(* itself.                                                                   *)
FailedBuildIsAnnounced ==
  step = "ended" /\ message.kind = "build failed" /\ faults = 0 => "build failed" \in shown
=============================================================================
