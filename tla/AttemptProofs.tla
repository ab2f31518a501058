----------------------------- MODULE AttemptProofs -----------------------------
(***************************************************************************)
(* The safety of Attempt.tla for every set of paths and working copies, every   *)
(* bound on build attempts and deliveries and every context budget.            *)
(***************************************************************************)
EXTENDS Attempt, ContextSelectionProofs

Step == {"none", "announcing", "syncing", "selecting", "generating", "building", "pushing",
         "reporting", "ended"}
Request == [context : BOOLEAN, feedback : BOOLEAN, prior : 0 .. MaxBuildAttempts - 1]
Attempts == 0 .. MaxBuildAttempts

(* Not announced yet, and nothing pushed.                                      *)
Working == step \notin {"reporting", "ended"}

WroteTyped(wr) ==
  /\ DOMAIN wr = Writer /\ wr = [w \in Writer |-> wr[w]]
  /\ \A w \in Writer : wr[w] \in Files(Path, w)

JobTyped ==
  /\ step \in Step
  /\ revision \in BOOLEAN /\ builds \in BOOLEAN /\ outlived \in BOOLEAN
  /\ attempt \in Attempts
  /\ request \in Request
  /\ WroteTyped(wrote)
  /\ tree \in Tree
  /\ tested \in Tree \union {NoTree} /\ pushed \in Tree \union {NoTree}

(* A request is made for the attempt after the one whose error it carries.       *)
Progress ==
  /\ step \in {"none", "announcing", "syncing", "selecting"} => attempt = 0
  /\ step = "generating" => attempt < MaxBuildAttempts /\ request.prior = attempt
  /\ step = "building" => attempt # 0
  /\ step \in {"generating", "building"} => request.feedback = revision

(* c is what the last writer of p, of those in wr, left of it.                   *)
IsLast(wr, p, c) ==
  \/ c = 0 /\ \A w \in Writer : p \notin DOMAIN wr[w]
  \/ \E w \in Writer :
       /\ p \in DOMAIN wr[w] /\ c = wr[w][p]
       /\ \A v \in Writer : p \in DOMAIN wr[v] => v <= w

NothingFrom(wr, n) == \A w \in Writer : w >= n => wr[w] = NoFiles

(* As long as no process outlived its build, the working copy is what Git has with  *)
(* the files of completions and builds so far on it, and what the build that        *)
(* succeeded left when the Job comes to push it.  The next writer has not written.  *)
TreeInv ==
  /\ Working => pushed = NoTree
  /\ step = "building" => NothingFrom(wrote, BuildOf(attempt))
  /\ step # "building" => NothingFrom(wrote, CompletionOf(attempt + 1))
  /\ Working /\ ~outlived => \A p \in Path : IsLast(wrote, p, tree[p])
  /\ step = "pushing" /\ builds /\ ~outlived => tested = tree

DeliveryInv ==
  /\ message \in Message
  /\ tries \in 0 .. MaxDeliveryRetries + 1 /\ faults \in 0 .. tries
  /\ Delivering => /\ message.kind # "none" /\ tries <= MaxDeliveryRetries
                   /\ message.fits => faults = tries
  /\ DeliveredUnlessAllTriesFail

TellInv ==
  /\ shown \subseteq Kind
  /\ Working => shown \subseteq {"started"} /\ message.kind \in {"none", "started"}
  /\ message.kind = "branch" => pushed # NoTree \/ revision
  /\ message.kind = "no-changes" => pushed = NoTree /\ ~revision
  /\ SuccessIsToldTruly

WorkInv == JobTyped /\ Progress /\ TreeInv /\ DeliveryInv /\ TellInv

-----------------------------------------------------------------------------
(* What is written last.                                                      *)

LEMMA IsLastWritten ==
  ASSUME NEW p, NEW c, IsLast(wrote, p, c)
  PROVE  c = LastWritten(p)
<1>1. CASE WritersOf(p) = {}
  BY <1>1 DEF IsLast, LastWritten, WritersOf
<1>2. CASE WritersOf(p) # {}
  <2>1. PICK n \in WritersOf(p) : c = wrote[n][p] /\ \A m \in WritersOf(p) : m <= n
    BY <1>2 DEF IsLast, WritersOf
  <2> DEFINE k == CHOOSE i \in WritersOf(p) : \A m \in WritersOf(p) : m <= i
  <2>2. k \in WritersOf(p) /\ \A m \in WritersOf(p) : m <= k
    BY <2>1
  <2>3. n \in Int /\ k \in Int /\ n <= k /\ k <= n
    BY <2>1, <2>2, AttemptAssumption DEF WritersOf, Writer
  <2>4. k = n
    BY <2>3
  <2>5. LastWritten(p) = wrote[k][p]
    BY <1>2 DEF LastWritten
  <2> QED
    BY <2>1, <2>4, <2>5
<1> QED
  BY <1>1, <1>2

LEMMA FilesParts ==
  ASSUME NEW ps \in SUBSET Path, NEW w, NEW files \in Files(ps, w)
  PROVE  /\ DOMAIN files \in SUBSET Path /\ \A p \in DOMAIN files : files[p] \in {0, w}
         /\ files \in Files(Path, w)
<1>1. PICK qs \in SUBSET ps : files \in [qs -> {0, w}]
  BY DEF Files
<1>2. qs \in SUBSET Path
  BY <1>1
<1> QED
  BY <1>1, <1>2 DEF Files

LEMMA NoFilesWritten ==
  ASSUME NEW w
  PROVE  NoFiles \in Files(Path, w) /\ DOMAIN NoFiles = {}
<1>1. NoFiles \in [{} -> {0, w}]
  BY DEF NoFiles
<1>2. {} \in SUBSET Path
  OBVIOUS
<1> QED
  BY <1>1, <1>2 DEF Files, NoFiles

LEMMA NothingWrittenTyped ==
  /\ WroteTyped(NothingWritten)
  /\ \A n : NothingFrom(NothingWritten, n)
<1>1. \A w \in Writer : NothingWritten[w] = NoFiles
  BY DEF NothingWritten
<1>2. \A w \in Writer : NothingWritten[w] \in Files(Path, w)
  BY <1>1, NoFilesWritten
<1>3. DOMAIN NothingWritten = Writer
      /\ NothingWritten = [w \in Writer |-> NothingWritten[w]]
  BY DEF NothingWritten
<1> QED
  BY <1>1, <1>2, <1>3 DEF WroteTyped, NothingFrom

LEMMA WrittenTyped ==
  ASSUME tree \in Tree, NEW ps \in SUBSET Path, NEW w \in Writer, NEW files \in Files(ps, w)
  PROVE  Written(files) \in Tree
<1>1. w \in Content /\ 0 \in Content
  BY DEF Content
<1>2. \A p \in Path : p \in DOMAIN files => files[p] \in Content
  BY <1>1, FilesParts
<1> QED
  BY <1>2 DEF Written, Tree

(* What the next writer writes is the last.                                     *)
LEMMA WrittenIsLast ==
  ASSUME WroteTyped(wrote), NEW w \in Writer, NothingFrom(wrote, w),
         NEW files, NEW p \in Path, IsLast(wrote, p, tree[p])
  PROVE  IsLast([wrote EXCEPT ![w] = files], p, Written(files)[p])
<1> DEFINE wr == [wrote EXCEPT ![w] = files]
<1>1. w \in Int /\ Writer \subseteq Int
  BY AttemptAssumption DEF Writer
<1>2. wr[w] = files /\ \A v \in Writer \ {w} : wr[v] = wrote[v]
  BY DEF WroteTyped
<1>3. \A v \in Writer : v >= w => DOMAIN wrote[v] = {}
  BY NoFilesWritten DEF NothingFrom
<1>4. Written(files)[p] = IF p \in DOMAIN files THEN files[p] ELSE tree[p]
  BY DEF Written
<1>5. CASE p \in DOMAIN files
  <2>1. \A v \in Writer : p \in DOMAIN wr[v] => v <= w
    BY <1>1, <1>2, <1>3
  <2> QED
    BY <1>2, <1>4, <1>5, <2>1 DEF IsLast
<1>6. CASE p \notin DOMAIN files
  <2>1. p \notin DOMAIN wrote[w]
    BY <1>1, <1>3
  <2>2. \A v \in Writer : p \in DOMAIN wr[v] <=> p \in DOMAIN wrote[v]
    BY <1>2, <1>6, <2>1
  <2>3. \A v \in Writer : p \in DOMAIN wrote[v] => wr[v] = wrote[v]
    BY <1>2, <2>1
  <2> HIDE DEF wr
  <2>4. IsLast(wr, p, tree[p])
    BY <2>2, <2>3 DEF IsLast
  <2> QED
    BY <1>4, <1>6, <2>4 DEF wr
<1> QED
  BY <1>5, <1>6

LEMMA WritesKeeps ==
  ASSUME JobTyped, TreeInv, Working, NEW w \in Writer, NothingFrom(wrote, w),
         NEW ps \in SUBSET Path, outlived => outlived', Writes(ps, w)
  PROVE  /\ tree' \in Tree
         /\ WroteTyped(wrote')
         /\ NothingFrom(wrote', w + 1)
         /\ ~outlived' => \A p \in Path : IsLast(wrote', p, tree'[p])
<1>1. PICK files \in Files(ps, w) :
        /\ tree' = Written(files)
        /\ wrote' = IF outlived' THEN NothingWritten ELSE [wrote EXCEPT ![w] = files]
  BY DEF Writes
<1>2. tree' \in Tree
  BY <1>1, WrittenTyped DEF JobTyped
<1>3. CASE outlived'
  BY <1>1, <1>2, <1>3, NothingWrittenTyped
<1>4. CASE ~outlived'
  <2>1. wrote' = [wrote EXCEPT ![w] = files] /\ WroteTyped(wrote) /\ ~outlived
    BY <1>1, <1>4 DEF JobTyped
  <2>2. wrote'[w] = files /\ \A v \in Writer \ {w} : wrote'[v] = wrote[v]
    BY <2>1 DEF WroteTyped
  <2>3. \A v \in Writer : wrote'[v] \in Files(Path, v)
    BY <2>1, <2>2, FilesParts DEF WroteTyped
  <2>4. DOMAIN wrote' = Writer /\ wrote' = [v \in Writer |-> wrote'[v]]
    BY <2>1 DEF WroteTyped
  <2>5. \A v \in Writer : v >= w + 1 => v >= w /\ v # w
    BY AttemptAssumption DEF Writer
  <2>6. NothingFrom(wrote', w + 1)
    BY <2>2, <2>5 DEF NothingFrom
  <2>7. ASSUME NEW p \in Path PROVE IsLast(wrote', p, tree'[p])
    BY <1>1, <2>1, WrittenIsLast DEF TreeInv
  <2> QED
    BY <1>2, <2>3, <2>4, <2>6, <2>7 DEF WroteTyped
<1> QED
  BY <1>3, <1>4

-----------------------------------------------------------------------------
(* Steps that have much in common.                                           *)

LEMMA StaysKeeps ==
  ASSUME WorkInv, UNCHANGED <<step, jobVars, deliveryVars>>
  PROVE  WorkInv'
<1>1. /\ step' = step /\ revision' = revision /\ builds' = builds /\ attempt' = attempt
      /\ request' = request /\ wrote' = wrote /\ tree' = tree /\ tested' = tested
      /\ outlived' = outlived
      /\ pushed' = pushed /\ message' = message /\ tries' = tries /\ faults' = faults
      /\ shown' = shown
  BY DEF jobVars, deliveryVars
<1>2. JobTyped' /\ Progress'
  BY <1>1 DEF WorkInv, JobTyped, Progress
<1>3. TreeInv'
  BY <1>1 DEF WorkInv, TreeInv, Working
<1>4. DeliveryInv'
  BY <1>1 DEF WorkInv, DeliveryInv, Delivering, DeliveredUnlessAllTriesFail
<1>5. TellInv'
  BY <1>1 DEF WorkInv, TellInv, Working, SuccessIsToldTruly
<1> QED
  BY <1>2, <1>3, <1>4, <1>5 DEF WorkInv

(* The Job goes on without a message.                                          *)
LEMMA GoesOnKeeps ==
  ASSUME WorkInv, Working, ~ Delivering, ~ Delivering', Working',
         UNCHANGED deliveryVars, revision' = revision, pushed' = pushed,
         JobTyped', Progress', TreeInv'
  PROVE  WorkInv'
<1>1. message' = message /\ tries' = tries /\ faults' = faults /\ shown' = shown
  BY DEF deliveryVars
<1>2. DeliveryInv'
  BY <1>1 DEF WorkInv, DeliveryInv, DeliveredUnlessAllTriesFail
<1>3. TellInv'
  BY <1>1 DEF WorkInv, TellInv, SuccessIsToldTruly
<1> QED
  BY <1>2, <1>3 DEF WorkInv

(* The worker is done with its request and its working copy.                     *)
LEMMA DoneKeeps ==
  ASSUME JobTyped, step' \in {"reporting", "ended"}, LocalsForgotten,
         revision' = revision, builds' = builds, attempt' \in Attempts,
         pushed' \in Tree \union {NoTree}
  PROVE  JobTyped' /\ Progress' /\ TreeInv'
<1>1. /\ request' = NoRequest /\ wrote' = NothingWritten /\ tree' = Original
      /\ tested' = NoTree /\ outlived' = FALSE
  BY DEF LocalsForgotten
<1>2. request' \in Request /\ tree' \in Tree
  BY <1>1, AttemptAssumption DEF NoRequest, Request, Original, Tree, Content
<1>3. JobTyped'
  BY <1>1, <1>2, NothingWrittenTyped DEF JobTyped, Step
<1>4. Progress' /\ TreeInv'
  BY <1>1, NothingWrittenTyped DEF Progress, TreeInv, Working
<1> QED
  BY <1>3, <1>4

LEMMA DeliveryStarts ==
  ASSUME message' \in Message, message'.kind # "none", tries' = 0, faults' = 0, Delivering'
  PROVE  DeliveryInv'
BY AttemptAssumption DEF DeliveryInv, DeliveredUnlessAllTriesFail

(* The outcome is announced: a failure, a branch or that nothing changed.         *)
LEMMA PostsKeeps ==
  ASSUME WorkInv, Working, NEW k \in {"branch", "no-changes", "failed", "build failed"},
         NEW f \in BOOLEAN, step' = "reporting", Posts(k, f), LocalsForgotten,
         revision' = revision, builds' = builds, attempt' \in Attempts,
         pushed' \in Tree \union {NoTree},
         k = "branch" => pushed' # NoTree \/ revision,
         k = "no-changes" => pushed' = NoTree /\ ~revision
  PROVE  WorkInv'
<1>1. message' = [kind |-> k, fits |-> f] /\ tries' = 0 /\ faults' = 0 /\ shown' = shown
  BY DEF Posts
<1>2. message' \in Message /\ message'.kind = k /\ message'.fits = f
  BY <1>1 DEF Message, Kind
<1>3. JobTyped' /\ Progress' /\ TreeInv'
  BY DoneKeeps DEF WorkInv
<1>4. DeliveryInv'
  <2>1. Delivering' /\ message'.kind # "none"
    BY <1>2 DEF Delivering
  <2> QED
    BY <1>1, <1>2, <2>1, DeliveryStarts
<1>5. TellInv'
  BY <1>1, <1>2 DEF WorkInv, TellInv, Working, SuccessIsToldTruly
<1> QED
  BY <1>3, <1>4, <1>5 DEF WorkInv

LEMMA FailKeeps ==
  ASSUME WorkInv, Working, NEW k \in {"failed", "build failed"}, NEW d \in BOOLEAN,
         _fail(k, d), UNCHANGED <<revision, builds>>,
         attempt' \in Attempts, pushed' \in Tree \union {NoTree}
  PROVE  WorkInv'
<1>1. PICK f \in BOOLEAN : step' = "reporting" /\ LocalsForgotten /\ Posts(k, f)
  BY DEF _fail
<1> QED
  BY <1>1, PostsKeeps

LEMMA FailKeepsUnpushed ==
  ASSUME WorkInv, Working, NEW k \in {"failed", "build failed"}, NEW d \in BOOLEAN,
         _fail(k, d), UNCHANGED <<revision, builds, pushed>>, attempt' \in Attempts
  PROVE  WorkInv'
<1>1. pushed' \in Tree \union {NoTree}
  BY DEF WorkInv, JobTyped
<1> QED
  BY <1>1, FailKeeps

(* A recoverable failure of attempt n: the next request carries its error.         *)
LEMMA FedBackKeeps ==
  ASSUME WorkInv, step \in {"generating", "building"}, NEW n \in Attempts,
         attempt' = n, FedBack(n), UNCHANGED <<revision, builds, pushed>>,
         tree' \in Tree, WroteTyped(wrote'), outlived' \in BOOLEAN,
         NothingFrom(wrote', CompletionOf(n + 1)),
         ~outlived' => \A p \in Path : IsLast(wrote', p, tree'[p])
  PROVE  WorkInv'
<1>1. JobTyped /\ TreeInv /\ Progress /\ Working
  BY DEF WorkInv, Working
<1>2. /\ request' = [request EXCEPT !.prior = n] /\ step' = "generating"
      /\ tested' = tested /\ UNCHANGED deliveryVars /\ n < MaxBuildAttempts
  BY AttemptAssumption DEF FedBack, _retry_request, IsFinal, Attempts
<1>3. /\ request' \in Request /\ request'.prior = n
      /\ request'.feedback = request.feedback
  BY <1>1, <1>2, AttemptAssumption DEF JobTyped, Request, Attempts
<1>4. JobTyped'
  BY <1>1, <1>2, <1>3 DEF JobTyped, Step
<1>5. Progress'
  BY <1>1, <1>2, <1>3 DEF Progress
<1>6. TreeInv'
  BY <1>1, <1>2 DEF TreeInv, Working
<1>7. ~ Delivering /\ ~ Delivering' /\ Working'
  BY <1>2 DEF Delivering, Working
<1> QED
  BY <1>1, <1>2, <1>4, <1>5, <1>6, <1>7, GoesOnKeeps

-----------------------------------------------------------------------------
(* The actions.                                                              *)

LEMMA JobAcceptedKeeps ==
  ASSUME WorkInv, JobAccepted
  PROVE  WorkInv'
<1>1. /\ step = "none" /\ step' = "announcing" /\ revision' \in BOOLEAN /\ builds' \in BOOLEAN
      /\ message' = [kind |-> "started", fits |-> TRUE] /\ tries' = 0 /\ faults' = 0
      /\ shown' = shown
      /\ UNCHANGED <<attempt, request, wrote, tree, tested, outlived, pushed>>
  BY DEF JobAccepted, Posts
<1>2. message' \in Message /\ message'.kind = "started"
  BY <1>1 DEF Message, Kind
<1>3. JobTyped' /\ Progress'
  BY <1>1 DEF WorkInv, JobTyped, Progress, Step
<1>4. TreeInv'
  BY <1>1 DEF WorkInv, TreeInv, Working
<1>5. DeliveryInv'
  BY <1>1, <1>2, AttemptAssumption
  DEF DeliveryInv, Delivering, DeliveredUnlessAllTriesFail
<1>6. TellInv'
  BY <1>1, <1>2 DEF WorkInv, TellInv, Working, SuccessIsToldTruly
<1> QED
  BY <1>3, <1>4, <1>5, <1>6 DEF WorkInv

LEMMA DeliverKeeps ==
  ASSUME WorkInv, _deliver
  PROVE  WorkInv'
<1>1. /\ UNCHANGED <<revision, builds, attempt, request, wrote, tree, tested, outlived, pushed>>
      /\ message' = message /\ Delivering /\ tries' = tries + 1
  BY DEF _deliver, jobVars, SendSucceeds, SendRaises
<1>2. /\ JobTyped /\ Progress /\ TreeInv /\ DeliveryInv /\ TellInv
      /\ message.kind \in {"none"} \union Kind
  BY DEF WorkInv, DeliveryInv, Message
<1>3. step' \in IF step = "announcing" THEN {step, "syncing", "ended"} ELSE {step, "ended"}
  BY DEF _deliver, SendSucceeds, SendRaises, Delivered
<1>4. shown' \in {shown, shown \union {message.kind}}
  BY DEF _deliver, SendSucceeds, SendRaises
<1>5. JobTyped' /\ Progress'
  BY <1>1, <1>2, <1>3 DEF JobTyped, Progress, Step, Delivering
<1>6. Working' => Working
  BY <1>1, <1>3 DEF Working, Delivering
<1>7. TreeInv'
  BY <1>1, <1>2, <1>3, <1>6 DEF TreeInv, Delivering
<1>8. DeliveryInv'
  <2>1. CASE SendSucceeds
    <3>1. ~ Delivering' /\ message.kind \in shown' /\ faults' = faults
      BY <2>1 DEF SendSucceeds, Delivered, Delivering
    <3> QED
      BY <1>1, <1>2, <3>1, AttemptAssumption DEF DeliveryInv, DeliveredUnlessAllTriesFail
  <2>2. CASE SendRaises
    <3>1. CASE tries + 1 >= MaxTries
      <4>1. ~ Delivering'
        BY <2>2, <3>1 DEF SendRaises, Delivered, Delivering
      <4>2. tries = MaxDeliveryRetries
        BY <1>1, <1>2, <3>1, AttemptAssumption DEF DeliveryInv, MaxTries
      <4> QED
        BY <1>1, <1>2, <2>2, <4>1, <4>2, AttemptAssumption
        DEF SendRaises, DeliveryInv, DeliveredUnlessAllTriesFail
    <3>2. CASE ~ (tries + 1 >= MaxTries)
      <4>1. step' = step /\ Delivering'
        BY <1>1, <2>2, <3>2 DEF SendRaises, Delivering
      <4>2. tries + 1 <= MaxDeliveryRetries
        BY <1>1, <1>2, <3>2, AttemptAssumption DEF DeliveryInv, MaxTries
      <4> QED
        BY <1>1, <1>2, <2>2, <4>1, <4>2, AttemptAssumption
        DEF SendRaises, DeliveryInv, DeliveredUnlessAllTriesFail
    <3> QED
      BY <3>1, <3>2
  <2> QED
    BY <2>1, <2>2 DEF _deliver
<1>9. TellInv'
  <2>1. message.kind \in Kind
    BY <1>1, <1>2 DEF DeliveryInv
  <2>2. shown' \subseteq shown \union {message.kind} /\ shown \subseteq Kind
    BY <1>2, <1>4 DEF TellInv
  <2>4. Working' => shown' \subseteq {"started"}
    BY <1>1, <1>2, <1>6, <2>1, <2>2 DEF TellInv, Kind
  <2>5. shown' \subseteq Kind
    BY <2>1, <2>2
  <2>3. SuccessIsToldTruly'
    BY <1>1, <1>2, <1>4 DEF TellInv, SuccessIsToldTruly
  <2> QED
    BY <1>1, <1>2, <1>6, <2>3, <2>4, <2>5 DEF TellInv
<1> QED
  BY <1>5, <1>7, <1>8, <1>9 DEF WorkInv

LEMMA SyncedKeeps ==
  ASSUME WorkInv, Synced
  PROVE  WorkInv'
<1>1. step = "syncing" /\ Working /\ ~ Delivering
      /\ UNCHANGED <<revision, builds, attempt, pushed>>
  BY DEF Synced, Working, Delivering
<1>2. JobTyped /\ Progress /\ TreeInv
  BY DEF WorkInv
<1>3. CASE _fail("failed", FALSE) \/ _fail("failed", TRUE)
  <2>1. attempt' \in Attempts
    BY <1>1, <1>2 DEF JobTyped
  <2> QED
    BY <1>1, <1>3, <2>1, FailKeepsUnpushed
<1>4. CASE step' = "selecting"
           /\ UNCHANGED <<request, wrote, tree, tested, outlived, deliveryVars>>
  <2>1. JobTyped' /\ Progress' /\ TreeInv' /\ Working' /\ ~ Delivering'
    BY <1>1, <1>2, <1>4 DEF JobTyped, Progress, TreeInv, Working, Delivering, Step
  <2> QED
    BY <1>1, <1>4, <2>1, GoesOnKeeps
<1> QED
  BY <1>3, <1>4 DEF Synced

LEMMA InitialRequestKeeps ==
  ASSUME WorkInv, _initial_request
  PROVE  WorkInv'
<1>1. /\ step = "selecting" /\ step' = "generating" /\ UNCHANGED deliveryVars
      /\ UNCHANGED <<revision, builds, attempt, wrote, tree, tested, outlived, pushed>>
  BY DEF _initial_request
<1>2. JobTyped /\ Progress /\ TreeInv
  BY DEF WorkInv
<1>3. request' \in Request /\ request'.feedback = revision /\ request'.prior = 0
  BY <1>2, AttemptAssumption DEF _initial_request, Request, JobTyped
<1>4. JobTyped' /\ Working /\ ~ Delivering /\ Working' /\ ~ Delivering'
  BY <1>1, <1>2, <1>3 DEF JobTyped, Working, Delivering, Step
<1>5. Progress'
  BY <1>1, <1>2, <1>3, AttemptAssumption DEF Progress
<1>6. TreeInv'
  BY <1>1, <1>2 DEF TreeInv, Working
<1> QED
  BY <1>1, <1>4, <1>5, <1>6, GoesOnKeeps

LEMMA AttemptCounts ==
  ASSUME WorkInv, step = "generating"
  PROVE  /\ attempt + 1 \in Attempts /\ attempt \in Attempts
         /\ CompletionOf(attempt + 1) \in Writer
         /\ attempt < MaxBuildAttempts /\ Working
BY AttemptAssumption
DEF WorkInv, JobTyped, Progress, Attempts, Writer, CompletionOf, Working

LEMMA GenerationRaisesKeeps ==
  ASSUME WorkInv, GenerationRaises
  PROVE  WorkInv'
<1>1. /\ step = "generating" /\ _fail("failed", TRUE)
      /\ UNCHANGED <<revision, builds, attempt, pushed>>
  BY DEF GenerationRaises
<1> QED
  BY <1>1, AttemptCounts, FailKeepsUnpushed

LEMMA GeneratesMalformedKeeps ==
  ASSUME WorkInv, GeneratesMalformed
  PROVE  WorkInv'
<1>1. /\ step = "generating" /\ attempt' = attempt + 1
      /\ UNCHANGED <<revision, builds, pushed>>
  BY DEF GeneratesMalformed, Generates
<1>2. JobTyped /\ TreeInv /\ Working /\ attempt + 1 \in Attempts
  BY <1>1, AttemptCounts DEF WorkInv
<1>3. CASE FailsFinally(attempt + 1, "failed")
  BY <1>1, <1>2, <1>3, FailKeepsUnpushed DEF FailsFinally
<1>4. CASE FedBack(attempt + 1) /\ UNCHANGED <<wrote, tree, outlived>>
  <2>1. NothingFrom(wrote, CompletionOf(attempt + 1))
    BY <1>1, <1>2 DEF TreeInv
  <2>2. \A w \in Writer : w >= CompletionOf(attempt + 1 + 1) => w >= CompletionOf(attempt + 1)
    BY <1>2, AttemptAssumption DEF JobTyped, Attempts, Writer, CompletionOf
  <2>3. NothingFrom(wrote', CompletionOf(attempt + 1 + 1))
    BY <1>4, <2>1, <2>2 DEF NothingFrom
  <2>4. /\ tree' \in Tree /\ WroteTyped(wrote') /\ outlived' \in BOOLEAN
        /\ ~outlived' => \A p \in Path : IsLast(wrote', p, tree'[p])
    BY <1>2, <1>4 DEF JobTyped, TreeInv
  <2> QED
    BY <1>1, <1>2, <1>4, <2>3, <2>4, FedBackKeeps
<1> QED
  BY <1>3, <1>4 DEF GeneratesMalformed

LEMMA GeneratesNothingKeeps ==
  ASSUME WorkInv, GeneratesNothing
  PROVE  WorkInv'
<1>1. /\ step = "generating" /\ attempt' = attempt + 1 /\ _fail("failed", FALSE)
      /\ UNCHANGED <<revision, builds, pushed>>
  BY DEF GeneratesNothing, Generates
<1> QED
  BY <1>1, AttemptCounts, FailKeepsUnpushed

LEMMA WriteFailsKeeps ==
  ASSUME WorkInv, WriteFails
  PROVE  WorkInv'
<1>1. /\ step = "generating" /\ attempt' = attempt + 1 /\ _fail("failed", TRUE)
      /\ UNCHANGED <<revision, builds, pushed>>
  BY DEF WriteFails, Generates
<1> QED
  BY <1>1, AttemptCounts, FailKeepsUnpushed

LEMMA GeneratesFilesKeeps ==
  ASSUME WorkInv, GeneratesFiles
  PROVE  WorkInv'
<1>1. /\ step = "generating" /\ attempt' = attempt + 1
      /\ step' \in {"building", "pushing"} /\ (builds => step' = "building")
      /\ UNCHANGED <<revision, builds, request, tested, outlived, pushed>>
      /\ UNCHANGED deliveryVars /\ Writes(Path, CompletionOf(attempt + 1))
  BY DEF GeneratesFiles, Generates
<1>2. /\ JobTyped /\ Progress /\ TreeInv /\ attempt < MaxBuildAttempts
      /\ attempt + 1 \in Attempts /\ CompletionOf(attempt + 1) \in Writer
      /\ Working /\ Working' /\ ~ Delivering /\ ~ Delivering'
  BY <1>1, AttemptCounts DEF WorkInv, Working, Delivering
<1>3. NothingFrom(wrote, CompletionOf(attempt + 1)) /\ (outlived => outlived')
  BY <1>1, <1>2 DEF TreeInv
<1>4. /\ tree' \in Tree /\ WroteTyped(wrote')
      /\ NothingFrom(wrote', CompletionOf(attempt + 1) + 1)
      /\ ~outlived' => \A p \in Path : IsLast(wrote', p, tree'[p])
  BY <1>1, <1>2, <1>3, WritesKeeps
<1>5. CompletionOf(attempt + 1) + 1 = BuildOf(attempt')
      /\ \A w \in Writer : w >= CompletionOf(attempt' + 1) => w >= BuildOf(attempt')
  BY <1>1, <1>2, AttemptAssumption DEF JobTyped, Attempts, Writer, CompletionOf, BuildOf
<1>6. /\ NothingFrom(wrote', BuildOf(attempt'))
      /\ NothingFrom(wrote', CompletionOf(attempt' + 1))
  BY <1>4, <1>5 DEF NothingFrom
<1>7. JobTyped'
  BY <1>1, <1>2, <1>4 DEF JobTyped, Step
<1>8. Progress'
  BY <1>1, <1>2, AttemptAssumption DEF Progress, JobTyped, Attempts
<1>9. TreeInv'
  BY <1>1, <1>2, <1>4, <1>6 DEF TreeInv, JobTyped
<1> QED
  BY <1>1, <1>2, <1>7, <1>8, <1>9, GoesOnKeeps

(* What a build leaves, whether it succeeds or not.                              *)
LEMMA BuildRunsKeeps ==
  ASSUME WorkInv, BuildRuns
  PROVE  /\ tree' \in Tree /\ WroteTyped(wrote') /\ outlived' \in BOOLEAN
         /\ NothingFrom(wrote', CompletionOf(attempt + 1))
         /\ ~outlived' => \A p \in Path : IsLast(wrote', p, tree'[p])
<1>1. /\ step = "building" /\ outlived' \in {outlived, TRUE}
      /\ Writes(Artefact, BuildOf(attempt))
  BY DEF BuildRuns
<1>2. JobTyped /\ Progress /\ TreeInv /\ Working
  BY <1>1 DEF WorkInv, Working
<1>3. BuildOf(attempt) \in Writer /\ BuildOf(attempt) + 1 = CompletionOf(attempt + 1)
  BY <1>1, <1>2, AttemptAssumption
  DEF JobTyped, Progress, Attempts, Writer, CompletionOf, BuildOf
<1>4. /\ NothingFrom(wrote, BuildOf(attempt)) /\ (outlived => outlived')
      /\ outlived' \in BOOLEAN /\ Artefact \in SUBSET Path
  BY <1>1, <1>2, AttemptAssumption DEF TreeInv, JobTyped
<1> QED
  BY <1>1, <1>2, <1>3, <1>4, WritesKeeps

LEMMA BuildSucceedsKeeps ==
  ASSUME WorkInv, BuildSucceeds
  PROVE  WorkInv'
<1>1. /\ step = "building" /\ step' = "pushing" /\ UNCHANGED deliveryVars
      /\ tested' = IF outlived' THEN NoTree ELSE tree'
      /\ UNCHANGED <<revision, builds, attempt, request, pushed>>
  BY DEF BuildSucceeds, BuildRuns
<1>2. /\ tree' \in Tree /\ WroteTyped(wrote') /\ outlived' \in BOOLEAN
      /\ NothingFrom(wrote', CompletionOf(attempt + 1))
      /\ ~outlived' => \A p \in Path : IsLast(wrote', p, tree'[p])
  BY BuildRunsKeeps DEF BuildSucceeds
<1>3. JobTyped /\ Progress /\ TreeInv /\ Working /\ ~ Delivering /\ Working' /\ ~ Delivering'
  BY <1>1 DEF WorkInv, Working, Delivering
<1>4. JobTyped' /\ Progress'
  BY <1>1, <1>2, <1>3 DEF JobTyped, Progress, Step
<1>5. TreeInv'
  BY <1>1, <1>2, <1>3 DEF TreeInv
<1> QED
  BY <1>1, <1>3, <1>4, <1>5, GoesOnKeeps

LEMMA BuildFailsKeeps ==
  ASSUME WorkInv, BuildFails
  PROVE  WorkInv'
<1>1. step = "building" /\ attempt' = attempt /\ UNCHANGED <<revision, builds, pushed>>
      /\ Working
  BY DEF BuildFails, Working
<1>2. attempt \in Attempts
  BY DEF WorkInv, JobTyped
<1>3. CASE FailsFinally(attempt, "build failed")
  BY <1>1, <1>2, <1>3, FailKeepsUnpushed DEF FailsFinally
<1>4. CASE BuildRuns /\ FedBack(attempt)
  BY <1>1, <1>2, <1>4, BuildRunsKeeps, FedBackKeeps
<1> QED
  BY <1>3, <1>4 DEF BuildFails

LEMMA BuildTimesOutKeeps ==
  ASSUME WorkInv, BuildTimesOut
  PROVE  WorkInv'
<1>1. /\ step = "building" /\ _fail("build failed", TRUE)
      /\ UNCHANGED <<revision, builds, attempt, pushed>>
  BY DEF BuildTimesOut
<1>2. attempt' \in Attempts /\ Working
  BY <1>1 DEF WorkInv, JobTyped, Working
<1> QED
  BY <1>1, <1>2, FailKeepsUnpushed

(* Of what a process that outlived its build writes nothing is known.            *)
LEMMA SurvivorWritesKeeps ==
  ASSUME WorkInv, SurvivorWrites
  PROVE  WorkInv'
<1>1. /\ outlived /\ step \in {"generating", "building", "pushing"} /\ UNCHANGED deliveryVars
      /\ UNCHANGED <<step, revision, builds, attempt, request, wrote, tested, outlived, pushed>>
  BY DEF SurvivorWrites
<1>2. JobTyped /\ Progress /\ TreeInv /\ Working /\ ~ Delivering /\ Working' /\ ~ Delivering'
  BY <1>1 DEF WorkInv, Working, Delivering
<1>3. PICK n \in 1 .. attempt : \E files \in Files(Artefact, BuildOf(n)) : tree' = Written(files)
  BY DEF SurvivorWrites
<1>4. BuildOf(n) \in Writer /\ Artefact \in SUBSET Path
  BY <1>2, AttemptAssumption DEF JobTyped, Attempts, Writer, BuildOf
<1>5. tree' \in Tree
  BY <1>2, <1>3, <1>4, WrittenTyped DEF JobTyped
<1>6. JobTyped' /\ Progress'
  BY <1>1, <1>2, <1>5 DEF JobTyped, Progress
<1>7. TreeInv'
  BY <1>1, <1>2 DEF TreeInv
<1> QED
  BY <1>1, <1>2, <1>6, <1>7, GoesOnKeeps

(* A working copy that is not the default branch's is something that was pushed.   *)
LEMMA ChangedIsATree ==
  ASSUME tree \in Tree, tree # Original
  PROVE  tree # NoTree
<1> SUFFICES ASSUME tree = NoTree PROVE FALSE
  OBVIOUS
<1>1. Path = {}
  BY DEF Tree, NoTree
<1> QED
  BY <1>1 DEF Tree, Original

LEMMA CommitAndPushKeeps ==
  ASSUME WorkInv, _commit_and_push
  PROVE  WorkInv'
<1>1. step = "pushing" /\ Working /\ UNCHANGED <<revision, builds, attempt>>
  BY DEF _commit_and_push, Working
<1>2. JobTyped /\ TreeInv /\ attempt' \in Attempts /\ pushed = NoTree
  BY <1>1 DEF WorkInv, JobTyped, TreeInv
<1>3. CASE _fail("failed", FALSE) /\ pushed' \in {pushed} \union ({tree} \ {Original})
  <2>1. pushed' \in Tree \union {NoTree}
    BY <1>2, <1>3 DEF JobTyped
  <2> QED
    BY <1>1, <1>2, <1>3, <2>1, FailKeeps
<1>4. CASE tree = Original /\ _succeed(FALSE) /\ UNCHANGED pushed
  <2>1. /\ step' = "reporting" /\ LocalsForgotten /\ Posts(SuccessKind(FALSE), TRUE)
        /\ pushed' = NoTree
    BY <1>2, <1>4 DEF _succeed
  <2>2. CASE revision
    <3>1. SuccessKind(FALSE) = "branch"
      BY <2>2 DEF SuccessKind
    <3> QED
      BY <1>1, <1>2, <2>1, <2>2, <3>1, PostsKeeps
  <2>3. CASE ~revision
    <3>1. SuccessKind(FALSE) = "no-changes"
      BY <2>3 DEF SuccessKind
    <3> QED
      BY <1>1, <1>2, <2>1, <2>3, <3>1, PostsKeeps
  <2> QED
    BY <2>2, <2>3
<1>5. CASE tree # Original /\ _succeed(TRUE) /\ pushed' = tree
  <2>1. step' = "reporting" /\ LocalsForgotten /\ Posts("branch", TRUE)
    BY <1>5 DEF _succeed, SuccessKind
  <2>2. pushed' # NoTree /\ pushed' \in Tree
    BY <1>2, <1>5, ChangedIsATree DEF JobTyped
  <2> QED
    BY <1>1, <1>2, <2>1, <2>2, PostsKeeps
<1> QED
  BY <1>3, <1>4, <1>5 DEF _commit_and_push

LEMMA StopsKeeps ==
  ASSUME WorkInv, Stops
  PROVE  WorkInv'
<1>1. /\ Working /\ step' = "ended" /\ message' = NoMessage /\ tries' = 0 /\ faults' = 0
      /\ shown' = shown /\ LocalsForgotten
      /\ UNCHANGED <<revision, builds, attempt, pushed>>
  BY DEF Stops, Working
<1>2. JobTyped /\ TreeInv /\ TellInv
  BY DEF WorkInv
<1>3. message' \in Message /\ message'.kind = "none"
  BY <1>1 DEF NoMessage, Message
<1>4. attempt' \in Attempts /\ pushed' \in Tree \union {NoTree}
  BY <1>1, <1>2 DEF JobTyped
<1>5. JobTyped' /\ Progress' /\ TreeInv'
  BY <1>1, <1>2, <1>4, DoneKeeps
<1>6. DeliveryInv'
  BY <1>1, <1>3, AttemptAssumption DEF DeliveryInv, Delivering, DeliveredUnlessAllTriesFail
<1>7. TellInv'
  BY <1>1, <1>2, <1>3 DEF TellInv, Working, SuccessIsToldTruly
<1> QED
  BY <1>5, <1>6, <1>7 DEF WorkInv

LEMMA NoWorkIsFine == NoWork => WorkInv
<1> SUFFICES ASSUME NoWork PROVE WorkInv
  OBVIOUS
<1>1. /\ step = "none" /\ revision = FALSE /\ builds = FALSE /\ attempt = 0
      /\ request = NoRequest /\ wrote = NothingWritten /\ tree = Original
      /\ tested = NoTree /\ outlived = FALSE /\ pushed = NoTree
      /\ message = NoMessage /\ tries = 0 /\ faults = 0 /\ shown = {}
  BY DEF NoWork
<1>2. tree \in Tree /\ attempt \in Attempts /\ request \in Request
  BY <1>1, AttemptAssumption DEF Original, Tree, Content, Attempts, NoRequest, Request
<1>3. \A w \in Writer : wrote[w] = NoFiles /\ DOMAIN wrote[w] = {}
  BY <1>1, NoFilesWritten DEF NothingWritten
<1>4. JobTyped
  BY <1>1, <1>2, NothingWrittenTyped DEF JobTyped, Step
<1>5. Progress
  BY <1>1 DEF Progress
<1>6. TreeInv
  BY <1>1, <1>3, NothingWrittenTyped DEF TreeInv, Working, IsLast, Original
<1>7. message \in Message /\ message.kind = "none"
  BY <1>1 DEF NoMessage, Message
<1>8. DeliveryInv
  BY <1>1, <1>7, AttemptAssumption DEF DeliveryInv, Delivering, DeliveredUnlessAllTriesFail
<1>9. TellInv
  BY <1>1, <1>7 DEF TellInv, Working, SuccessIsToldTruly
<1> QED
  BY <1>4, <1>5, <1>6, <1>8, <1>9 DEF WorkInv

LEMMA WorkDiesKeeps ==
  ASSUME WorkDies
  PROVE  WorkInv'
<1>1. NoWork'
  BY DEF WorkDies, NoWork, LocalsForgotten, SelectionForgotten, NoSelection
<1>2. (NoWork => WorkInv)'
  BY NoWorkIsFine, PTL
<1> QED
  BY <1>1, <1>2

-----------------------------------------------------------------------------
(* The process that accepts the Job.                                         *)

(* The monitor takes for the model what the endpoint takes for it.               *)
LEMMA CheckedIsServed ==
  ASSUME endpoint \in Endpoint, check_connectivity
  PROVE  ServesModel
<1>1. endpoint.answers = "ok" /\ endpoint.tags \subseteq Tag /\ "none" \notin Tag
  BY DEF check_connectivity, Endpoint, Tag
<1> QED
  BY <1>1 DEF check_connectivity, _model_present, ServesModel

ConnectivityInv ==
  /\ ConnectivityTypeOK
  /\ AvailableWasConfirmed
  /\ monitor = "found" => confirmed

LEMMA ConnectivityKeeps ==
  ASSUME ConnectivityInv, ConnectivityNext
  PROVE  ConnectivityInv'
<1>1. CASE Starts \/ Exits \/ Killed
  BY <1>1
  DEF Starts, Exits, Killed, Fresh, ConnectivityInv, ConnectivityTypeOK, AvailableWasConfirmed
<1>2. CASE Answers
  <2>1. check_connectivity => ServesModel
    BY CheckedIsServed DEF ConnectivityInv, ConnectivityTypeOK
  <2>2. PICK c \in BOOLEAN : c = (confirmed \/ ServesModel)
    OBVIOUS
  <2>3. confirmed' = c
    BY <1>2, <2>2 DEF Answers
  <2> QED
    BY <1>2, <2>1, <2>2, <2>3
    DEF Answers, ConnectivityInv, ConnectivityTypeOK, AvailableWasConfirmed
<1>3. CASE check_connectivity_AtStartup \/ _recheck_loop
  BY <1>3
  DEF check_connectivity_AtStartup, _recheck_loop, NextRecheck, ConnectivityInv,
      ConnectivityTypeOK, AvailableWasConfirmed
<1>4. CASE Rechecks \/ stop_Monitor
  BY <1>4
  DEF Rechecks, stop_Monitor, ConnectivityInv, ConnectivityTypeOK, AvailableWasConfirmed
<1>5. CASE SyncEnds
  <2>1. listed' \in BOOLEAN /\ commands' \in {"none", "syncing", "synced", "unsynced"}
    BY <1>5 DEF SyncEnds, ConnectivityInv, ConnectivityTypeOK
  <2> QED
    BY <1>5, <2>1
    DEF SyncEnds, ConnectivityInv, ConnectivityTypeOK, AvailableWasConfirmed
<1>6. CASE on_ready \/ GatewayEnds
  BY <1>6
  DEF on_ready, GatewayEnds, ConnectivityInv, ConnectivityTypeOK, AvailableWasConfirmed
<1>7. CASE EndpointChanges /\ UNCHANGED <<listed, monitorVars>>
  BY <1>7
  DEF EndpointChanges, monitorVars, ConnectivityInv, ConnectivityTypeOK, AvailableWasConfirmed
<1> QED
  BY <1>1, <1>2, <1>3, <1>4, <1>5, <1>6, <1>7 DEF ConnectivityNext, ProcessStep

-----------------------------------------------------------------------------
(* The composition.                                                          *)

AttemptInv == WorkInv /\ ConnectivityInv

(* What each step is to the parts.                                             *)
LEMMA StepIsOf ==
  ASSUME AttemptNext
  PROVE  /\ ConnectivityNext \/ UNCHANGED connectivityVars
         /\ SelectionNext \/ UNCHANGED selectionVars
<1>1. CASE JobAccepted
  BY <1>1 DEF JobAccepted
<1>2. CASE AttemptStep
  <2>1. UNCHANGED connectivityVars
    BY <1>2
    DEF AttemptStep, _deliver, Synced, SelectsFiles, _initial_request, GenerationRaises,
        GeneratesMalformed, GeneratesNothing, GeneratesFiles, WriteFails, BuildSucceeds,
        BuildFails, BuildTimesOut, _commit_and_push, Stops
  <2>2. CASE Synced
    BY <2>2, AttemptAssumption DEF Synced, SelectionNext
  <2>3. CASE SelectsFiles \/ _initial_request \/ Stops
    BY <2>3 DEF SelectsFiles, _initial_request, Stops, SelectionNext
  <2>4. CASE ~ (Synced \/ SelectsFiles \/ _initial_request \/ Stops)
    BY <1>2, <2>4
    DEF AttemptStep, _deliver, GenerationRaises, GeneratesMalformed, GeneratesNothing,
        GeneratesFiles, WriteFails, BuildSucceeds, BuildFails, BuildTimesOut,
        _commit_and_push
  <2> QED
    BY <2>1, <2>2, <2>3, <2>4
<1>3. CASE LoopIsFree /\ (Starts \/ ProcessStep \/ on_ready \/ GatewayEnds) /\ UNCHANGED workVars
  BY <1>3 DEF workVars, ConnectivityNext
<1>4. CASE (Exits \/ Killed) /\ WorkDies
  BY <1>4 DEF WorkDies, ConnectivityNext, SelectionNext
<1>5. CASE EndpointChanges /\ UNCHANGED <<listed, monitorVars, workVars>>
  BY <1>5 DEF workVars, ConnectivityNext
<1>6. CASE SurvivorWrites
  BY <1>6 DEF SurvivorWrites
<1> QED
  BY <1>1, <1>2, <1>3, <1>4, <1>5, <1>6 DEF AttemptNext

LEMMA AttemptKeeps ==
  ASSUME AttemptInv, [AttemptNext]_attemptVars
  PROVE  AttemptInv'
<1>1. WorkInv /\ ConnectivityInv
  BY DEF AttemptInv
<1>2. CASE UNCHANGED attemptVars
  <2>1. UNCHANGED workVars /\ UNCHANGED connectivityVars
    BY <1>2 DEF attemptVars
  <2>2. WorkInv'
    BY <1>1, <2>1, StaysKeeps DEF workVars
  <2>3. ConnectivityInv'
    BY <1>1, <2>1
    DEF connectivityVars, monitorVars, ConnectivityInv, ConnectivityTypeOK,
        AvailableWasConfirmed
  <2> QED
    BY <2>2, <2>3 DEF AttemptInv
<1>3. CASE AttemptNext
  <2>1. ConnectivityInv'
    <3>1. CASE ConnectivityNext
      BY <1>1, <3>1, ConnectivityKeeps
    <3>2. CASE UNCHANGED connectivityVars
      BY <1>1, <3>2
      DEF connectivityVars, monitorVars, ConnectivityInv, ConnectivityTypeOK,
          AvailableWasConfirmed
    <3> QED
      BY <1>3, <3>1, <3>2, StepIsOf
  <2>2. WorkInv'
    <3>1. CASE JobAccepted
      BY <1>1, <3>1, JobAcceptedKeeps
    <3>2. CASE AttemptStep
      <4>1. CASE SelectsFiles
        BY <1>1, <4>1, StaysKeeps DEF SelectsFiles
      <4> QED
        BY <1>1, <3>2, <4>1, DeliverKeeps, SyncedKeeps, InitialRequestKeeps,
           GenerationRaisesKeeps, GeneratesMalformedKeeps, GeneratesNothingKeeps,
           GeneratesFilesKeeps, WriteFailsKeeps, BuildSucceedsKeeps, BuildFailsKeeps,
           BuildTimesOutKeeps, CommitAndPushKeeps, StopsKeeps DEF AttemptStep
    <3>3. CASE UNCHANGED workVars
      BY <1>1, <3>3, StaysKeeps DEF workVars
    <3>4. CASE WorkDies
      BY <3>4, WorkDiesKeeps
    <3>5. CASE SurvivorWrites
      BY <1>1, <3>5, SurvivorWritesKeeps
    <3> QED
      BY <1>3, <3>1, <3>2, <3>3, <3>4, <3>5 DEF AttemptNext
  <2> QED
    BY <2>1, <2>2 DEF AttemptInv
<1> QED
  BY <1>2, <1>3

(* AttemptInv holds in every state.                                           *)
THEOREM AttemptInvariant == AttemptSpec => []AttemptInv
<1>1. AttemptInit => AttemptInv
  BY NoWorkIsFine
  DEF AttemptInit, AttemptInv, ConnectivityInit, ConnectivityInv, ConnectivityTypeOK,
      AvailableWasConfirmed
<1> QED
  BY <1>1, AttemptKeeps, PTL DEF AttemptSpec

(* The Job chooses its context as ContextSelection.tla does, whatever becomes of  *)
(* the Job and the process meanwhile.                                          *)
THEOREM AttemptSelectsContext == AttemptSpec => SelectionSpec
<1>1. AttemptInit => SelectionInit
  BY DEF AttemptInit, NoWork, SelectionInit
<1>2. [AttemptNext]_attemptVars => [SelectionNext]_selectionVars
  <2>1. UNCHANGED attemptVars => UNCHANGED selectionVars
    BY DEF attemptVars, workVars
  <2> QED
    BY <2>1, StepIsOf
<1> QED
  BY <1>1, <1>2, PTL DEF AttemptSpec, SelectionSpec

(* The files a request shows are within both bounds, counted by their sizes, and    *)
(* none that still fits is left out.                                           *)
THEOREM ShownContextFits == AttemptSpec => []ContextIsMaximal
BY AttemptSelectsContext, ContextIsMaximalAlways, PTL

(* The process of a Job starts, checks, rechecks and dies as ConnectivityMonitor.tla *)
(* says: the Job takes no step of it.                                          *)
THEOREM AttemptKeepsTheMonitor == AttemptSpec => ConnectivitySpec
<1>1. AttemptInit => ConnectivityInit
  BY DEF AttemptInit
<1>2. [AttemptNext]_attemptVars => [ConnectivityNext]_connectivityVars
  <2>1. UNCHANGED attemptVars => UNCHANGED connectivityVars
    BY DEF attemptVars
  <2> QED
    BY <2>1, StepIsOf
<1> QED
  BY <1>1, <1>2, PTL DEF AttemptSpec, ConnectivitySpec

(* Types, of the process, the selection and the Job.                           *)
THEOREM AttemptTypeCorrect == AttemptSpec => []AttemptTypeOK
<1>1. AttemptInv /\ SelectionInv => AttemptTypeOK
  BY DEF AttemptInv, ConnectivityInv, WorkInv, JobTyped, DeliveryInv, TellInv, SelectionInv,
         AttemptTypeOK, Step, Request, Attempts, WroteTyped
<1> QED
  BY <1>1, AttemptInvariant, AttemptSelectsContext, SelectionInvariant, PTL

(* Only an answer given to this process makes it available.                      *)
THEOREM OnlyConfirmedIsAvailable == AttemptSpec => []AvailableWasConfirmed
<1>1. AttemptInv => AvailableWasConfirmed
  BY DEF AttemptInv, ConnectivityInv
<1> QED
  BY <1>1, AttemptInvariant, PTL

LEMMA StepPushes ==
  ASSUME AttemptInv, AttemptNext
  PROVE  PushesWhatWasBuilt
<1> SUFFICES ASSUME pushed' \notin {pushed, NoTree}, ~outlived
             PROVE  /\ builds /\ ~revision => pushed' = tested
                    /\ \A p \in Path : pushed'[p] = LastWritten(p)
  BY DEF PushesWhatWasBuilt
<1>1. TreeInv
  BY DEF AttemptInv, WorkInv
<1>2. _commit_and_push
  BY DEF AttemptNext, AttemptStep, JobAccepted, SurvivorWrites, _deliver, Synced, SelectsFiles,
         _initial_request, GenerationRaises, GeneratesMalformed, GeneratesNothing,
         GeneratesFiles, WriteFails, BuildSucceeds, BuildFails, BuildTimesOut, Stops,
         WorkDies, workVars, jobVars
<1>3. step = "pushing" /\ pushed' = tree
  BY <1>2 DEF _commit_and_push
<1>4. \A p \in Path : IsLast(wrote, p, pushed'[p])
  BY <1>1, <1>3 DEF TreeInv, Working
<1> QED
  BY <1>1, <1>3, <1>4, IsLastWritten DEF TreeInv

(* What is pushed to a new branch is what the build that succeeded left, and every  *)
(* file in a push is as its last writer left it, whichever attempt that was of --   *)
(* unless a process outlived a build of the Job.                                *)
THEOREM BuiltIsPushed == AttemptSpec => PushedIsWhatWasBuilt
<1>1. AttemptInv /\ [AttemptNext]_attemptVars => [PushesWhatWasBuilt]_attemptVars
  BY StepPushes
<1> QED
  BY <1>1, AttemptInvariant, PTL DEF AttemptSpec, PushedIsWhatWasBuilt

(* A retry carries the error of the attempt before it, and the feedback.           *)
THEOREM RetriesLearn == AttemptSpec => []RetryCarriesLastError
<1>1. AttemptInv => RetryCarriesLastError
  BY DEF AttemptInv, WorkInv, Progress, RetryCarriesLastError
<1> QED
  BY <1>1, AttemptInvariant, PTL

(* A message Discord takes is lost only when every try of it failed.              *)
THEOREM EveryTryIsMade == AttemptSpec => []DeliveredUnlessAllTriesFail
<1>1. AttemptInv => DeliveredUnlessAllTriesFail
  BY DEF AttemptInv, WorkInv, DeliveryInv
<1> QED
  BY <1>1, AttemptInvariant, PTL

(* A branch is announced of a /build Job only if it pushed it, "no changes" only of *)
(* one that pushed nothing.                                                   *)
THEOREM SuccessIsTrue == AttemptSpec => []SuccessIsToldTruly
<1>1. AttemptInv => SuccessIsToldTruly
  BY DEF AttemptInv, WorkInv, TellInv
<1> QED
  BY <1>1, AttemptInvariant, PTL
-----------------------------------------------------------------------------
(* Why degraded mode ends (DegradedModeEnds): the part that is not about time.     *)

(* While the gateway is served the recheck loop is there if and only if the model   *)
(* was not confirmed, and what was confirmed stays so until the process ends.     *)
RecheckIsPending == place \in {"connecting", "serving"} => (available <=> monitor = "none")

StaysAvailable == available => available' \/ place' = "down"

MonitorInv ==
  /\ place \in {"down", "closing"} => monitor = "none"
  /\ place = "down" => ~ available
  /\ place = "checking" => ~ available /\ monitor \in {"asking", "found", "missing"}
  /\ place \in {"connecting", "serving", "stopping"} => (available <=> monitor = "none")

LEMMA MonitorKeeps ==
  ASSUME ConnectivityTypeOK, MonitorInv, [ConnectivityNext]_connectivityVars
  PROVE  MonitorInv' /\ (available => available' \/ place' = "down")
<1> USE DEF MonitorInv
<1>1. PICK a \in BOOLEAN : a = available
  BY DEF ConnectivityTypeOK
<1>2. CASE Starts \/ Exits \/ Killed
  BY <1>2 DEF Starts, Exits, Killed, Fresh
<1>3. CASE Answers \/ Rechecks
  BY <1>1, <1>3 DEF Answers, Rechecks, ConnectivityTypeOK
<1>4. CASE check_connectivity_AtStartup
  BY <1>4 DEF check_connectivity_AtStartup
<1>5. CASE _recheck_loop
  BY <1>1, <1>5 DEF _recheck_loop, NextRecheck, ConnectivityTypeOK
<1>6. CASE SyncEnds \/ UNCHANGED connectivityVars
  <2>1. UNCHANGED <<place, monitor, available>>
    BY <1>6 DEF SyncEnds, connectivityVars, monitorVars
  <2> QED
    BY <2>1
<1>7. CASE on_ready \/ GatewayEnds \/ stop_Monitor
  BY <1>1, <1>7 DEF on_ready, GatewayEnds, stop_Monitor
<1>8. CASE EndpointChanges /\ UNCHANGED <<listed, monitorVars>>
  BY <1>8 DEF monitorVars
<1> QED
  BY <1>2, <1>3, <1>4, <1>5, <1>6, <1>7, <1>8 DEF ConnectivityNext, ProcessStep

(* DegradedModeEnds without the fairness: in degraded mode a recheck is always on   *)
(* its way, however often the gateway connects, and no later answer of the         *)
(* endpoint puts a process back into degraded mode.                            *)
THEOREM MonitorKeepsRechecking ==
  AttemptSpec => []RecheckIsPending /\ [][StaysAvailable]_connectivityVars
<1>1. ConnectivityInit => MonitorInv
  BY DEF ConnectivityInit, MonitorInv
<1>2. AttemptInv => ConnectivityTypeOK
  BY DEF AttemptInv, ConnectivityInv
<1>3. ConnectivityTypeOK /\ MonitorInv /\ [ConnectivityNext]_connectivityVars => MonitorInv'
  BY MonitorKeeps
<1>4. ConnectivityTypeOK /\ MonitorInv /\ [ConnectivityNext]_connectivityVars
        => [StaysAvailable]_connectivityVars
  BY MonitorKeeps DEF StaysAvailable
<1>5. MonitorInv => RecheckIsPending
  BY DEF MonitorInv, RecheckIsPending
<1> QED
  BY <1>1, <1>2, <1>3, <1>4, <1>5, AttemptInvariant, AttemptKeepsTheMonitor, PTL
     DEF ConnectivitySpec
=============================================================================
