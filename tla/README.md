# Discord-Ollama Coding Agent: TLA+ models and proofs

The Coding Agent turns `/build` and `/revise` commands given in Discord into pushed
Git branches: a Job is queued, gets a slot, synchronises its target, generates files
with a local Ollama model, builds them, and commits and pushes. This directory models
the parts of it whose correctness depends on order, failure or cancellation, checks
the models with TLC, and proves the central results with TLAPS.

File and line references are to the repository; the code is under
`src/discord_ollama_agent/`, the documents quoted are under
`.kiro/specs/discord-ollama-coding-agent/` (`requirements.md`, `design.md`).

## 1. The system

Everything runs in one process on one asyncio event loop. Code between two `await`s is
atomic with respect to other coroutines; what is not on the loop is Git (threads,
through `asyncio.to_thread`), the build command (processes) and the operator.

| Component | State | Operations | Talks to |
|---|---|---|---|
| Job_Manager (`job_manager.py`) | Job table, FIFO queue, suffix counter, semaphore of slots, wake-up event, worker tasks, cancellation tokens, dispatcher task | `create_job`, `create_revision`, `notify`, `start`, `stop`, `cancel`, `_dispatch_loop`, `_run_worker` | called by Discord_Bot; runs Coding_Agent |
| Coding_Agent (`coding_agent.py`) | of each Job: status, attempts, failure reason, branch, events; request, working copy | `run`: announce, sync, choose context, build loop, commit and push, report | Git_Manager, Execution_Sandbox, Ollama_Client, event sink |
| Git_Manager (`git_manager.py`) | the target's directory, its index lock, each working copy, the remote | `sync_default_branch`, `_clone`, `commit_and_push`, `commit_and_push_revision` | Git, the remote |
| Execution_Sandbox (`execution_sandbox.py`) | process group, pipe, reader and wait tasks, timer, token | `init_working_dir`, `run_command`, `_terminate`, `write_file`, path confinement | the operating system |
| Target_Registry (`target_registry.py`) | registry file, raw entries, usable targets, known names | `load`, `add`, `_persist`, queries | the file; `/addtarget` |
| Discord_Bot (`discord_bot.py`) | none of its own | `on_build`, `on_revise`, `on_cancel`, `on_status`, `on_targets`, `on_addtarget`, `on_job_event` | Job_Manager, Target_Registry, Discord |
| Application, Connectivity_Monitor (`main.py`) | wiring, availability flag, recheck task, registered commands | start-up, recheck loop, `on_ready`, command callbacks, shutdown | all |
| Ollama_Client (`ollama_client.py`) | none | `generate`, `check_connectivity` | the model's endpoint |
| Configuration (`config_loader.py`) | none | validation at start-up | the environment |

**What is hard.** A Job is cancelled from the loop while its worker is suspended in any
of seven waits; the status is written by both. The dispatcher may hold a Job it has
popped while it waits for a slot. A Git thread that exceeded its timeout goes on after
its Job was reported as failed. All Jobs of a target synchronise one shared directory,
which is then copied file by file while other threads write it. Job ids and branch names
start again after a restart and meet the branches of the last process. A build command
can leave processes behind that ignore signals or hold the output open. The registry is
rewritten through a temporary file and the process may die between any two steps. Each
attempt writes over what the failed ones left, and each retry is built from the request
before it. A message may be refused, lost, or posted although sending it raised. The
process may start without its model and has to notice when it appears.

**What makes each component correct.**

* Job_Manager: slots are neither lost nor overbooked; a Queued Job is in exactly one
  place; no wake-up is missed; promotion is in order of submission; a Job cancelled in
  the queue never runs; a Queued Job is served.
* Coding_Agent: nothing starts after the signal; a failure is final only after all
  attempts; exactly one outcome is reported and it is the true one; a branch that can be
  revised exists; a worker told to stop gives its slot back. What is shown to the model is within
  the budget and leaves out nothing that fits; what is pushed is what the build left, with every file as its last
  writer left it; each retry carries the last error; what is announced of a `/build` Job is what happened.
* Git_Manager: an undisturbed Job works on one current version; a push adds one commit, removes
  none and is reported only if it happened; branches are not mixed; no commit lands of a Job that was
  reported as having nothing to push or as never having come that far.
* Execution_Sandbox: output is kept exactly up to the cap; the result is final; nothing
  but a process that outlives the shell delays it.
* Target_Registry: the file grows by whole new entries; memory agrees with it; a
  confirmed target is found again.
* Discord_Bot: in a handler the gate comes before anything a reply could tell; a Job works on the target it was asked
  for; an answer of `/status` that is final stays; a message is given up only after all its tries.
* Connectivity_Monitor: availability rests on an answer to this process; degraded mode ends.

`PROJECT.json` lists the hazards, each at its line with the properties that cover it, and
maps every definition to the lines it models.

## 2. The modules

| Module | Models | State and actions |
|---|---|---|
| `JobManager` | `job_manager.py` complete | Variables are the attributes of `JobManager`; `permits` is the semaphore's value, `held` the local `job` of the dispatcher, `entered` the tasks whose coroutine has run at least once. The dispatcher's awaits are the values of `dispatcher`. A Job is its suffix. The worker is any coroutine that keeps the manager's assumptions (`WorkerStep`). |
| `CodingAgent` | `CodingAgent.run`, and the effect of `/build`, `/revise`, `/cancel` on Jobs | EXTENDS `JobManager`, gives every slot the real worker. `pc[j]` is the await the coroutine of Job j is suspended in; an action runs from one await to the next. The push runs in `thread[j]`, which a timeout leaves behind. |
| `GitManager` | `git_manager.py`, and `ExecutionSandbox.init_working_dir` | All Jobs of one target: the remote, the shared directory (`repo`), its lock, and of each Job the coroutine, the sync thread, the working copy and the push thread. Files carry the version of the default branch they are of. |
| `ExecutionSandbox` | `run_command`, `_drain_output`, `_terminate`, `CancellationToken` | One build command: processes with the ways they may behave, a bounded pipe, the reader, and the coroutine's awaits (`place`). |
| `OllamaClient` | `ollama_client.py` | The endpoint, which changes when it likes, and what `check_connectivity` and `generate` make of its answer. |
| `ConnectivityMonitor` | `run_gateway`, `ConnectivityMonitor` (`main.py`) | EXTENDS `OllamaClient`. `place` is where `run_gateway` is, `monitor` the request under way or the sleeping recheck loop; `listed` outlives the process. |
| `ContextSelection` | `_load_files`, `_select_within_budget` | One file at a time; `at` is the loop's position, `selected` and `total` its accumulators. |
| `Attempt` | the data of one Job: requests, completions, `_parse_completion`, `_write_files`, the build, `_deliver` and `_render_event` | EXTENDS `ConnectivityMonitor` and `ContextSelection`. `step` is the await of the worker; the content of a file says which completion or which build wrote it, `outlived` that a process survived its build. |
| `TargetRegistry` | `load`, `add`, `_persist` | File and memory; `add` is cut at each point where it can fail or the process can die. |
| `RegistryStore` | the promise of the registry | abstract specification: a list that grows by whole new entries and is repaired by operators |
| `DiscordBot` | the gate and the six handlers of `discord_bot.py`, the command callbacks of `main.py` | EXTENDS `TargetRegistry`. A handler is a reply (`BuildReply`, ..., a function of the state and the input, its cases in the order of the code's checks) and an action, taken when the reply says so. Of the worker of a Job it keeps the stages a command can tell apart (created, announcing, working) and whether it was signalled. |
| `JobTable` | the promise of the Job table to the commands | abstract specification: of each Job its status, whether it has a branch, its base and whether a worker may still have its say |
| `JobManagerProofs`, `CodingAgentProofs`, `GitManagerProofs`, `ExecutionSandboxProofs`, `ContextSelectionProofs`, `AttemptProofs`, `TargetRegistryProofs`, `DiscordBotProofs` | | the theorems about the module they are named after |
| `MC*` | | instances for TLC |

**Composition.** `CodingAgent` is the manager with its workers, and the property
`ImplementsJobManager` shows that the workers stay within what `JobManager` lets a worker
do. `Attempt` is the same `run` seen from its data, for one Job: it is composed with the process that
accepts the Job, the endpoint that answers it and the channel it reports to; its control is that of
`CodingAgent` with every recoverable and every final failure kept apart. `DiscordBot` is the
handlers composed with the registry they read and extend; `TargetRegistry` implements `RegistryStore`
through `INSTANCE ... WITH entries <- file`, and `DiscordBot` does because its registry steps are
`TargetRegistry`'s. `JobTable` ties the two views of a Job together: `CodingAgent` with the manager below it
and `DiscordBot`, which knows the workers only from outside, implement the same table
(`ImplementsJobTable`, `CommandsSeeJobTable`), so the handlers are checked against nothing the real workers
could not do to a Job's entry. `GitManager` and `ExecutionSandbox` are the two places where the agent waits for
something it does not control: `CodingAgent` and `Attempt` use only the outcomes that they show to be
possible, the hung build (`BuildHangs`) among them.

**Abstractions.** Prompts, wording and identifiers are left out; where the code branches on
text the model has a choice. In `CodingAgent` a completion is an error, malformed, or files;
in `Attempt` it names files and gives each either its old content or a new one. A build is an arbitrary command:
in `Attempt` it may write any of the files in `Artefact`, tracked or new, whether it succeeds, fails or times out, and a
process it leaves behind may do so at any later moment (`BuildRuns`, `SurvivorWrites`); what it writes is not what any
completion wrote. A push thread ends pushed,
unchanged, refused or, in `CodingAgent`, with an unexpected error. Files of a branch are told apart by version
only in `GitManager`, by their writer in `Attempt`; a Job that changed nothing but files that `.gitignore` names counts
in `GitManager` as one that changed nothing, and `Attempt` has only files that Git looks at. A file shown to the model is a
kind and a size. Credentials are present or missing. Output of a command is a number of
units. A message either fits into what Discord takes or does not. Of a caller only
the three lists matter it is on or not; of a typed text, whether it is blank, good or too long.

**External parts**, modelled from how the code uses them and marked so in the map: Git's
index lock and refusal of non-fast-forward pushes, other developers' pushes, the processes
of a build command, the model's endpoint, the Discord channel, restarts of the container, and the
operator, who removes a stale lock, fetches, or repairs the registry file while the process is down.

## 3. What the runs check

| Run | Instance | Distinct states | Shows |
|---|---|---|---|
| `job_manager` | 2 slots, 4 Jobs | 24 352 | all properties of the manager |
| `coding_agent` | 2 slots, 2 Jobs, 2 attempts | 245 320 | the agent's properties, that it implements `JobManager` with its fairness, and that it implements `JobTable` |
| `git_manager` | 2 Jobs at once, 2 files, 2 versions, 2 lives; a second revision of a pushed Job | 4 693 718 (2 to 4 minutes) | copies, lineage of branches, that a push adds one commit and that no commit lands of a Job reported as without one, with a crash in the middle of anything |
| `execution_sandbox` | shell and one background process, cap 2, pipe 2, 5 units | 22 167 | cap, finality, and when `run_command` returns |
| `discord_bot` | 2 names (one the other with a blank), files of up to 3 entries, 2 Jobs, every kind of caller | 135 187 | the gate, the targets of Jobs, the registry with failures, crashes and repairs, and that it implements `RegistryStore` and `JobTable` |
| `attempt` | copies of up to 3 files of sizes 1 to 3, a budget of 2 files and 2 units, 2 attempts at 2 files, 1 delivery retry | 1 318 842 (2 to 3 minutes) | the data of a Job from acceptance to its last message, availability, and that degraded mode ends |
| `terminal_is_final`, `push_after_cancel`, `working_copy`, `revision_branch`, `command_returns`, `long_failure_message` | as small as shows it | | the disagreements of section 6 |

**Bounds, and why they are enough.** Four Jobs on two slots fill both slots, put one Job in
the dispatcher's hands and leave one in the queue behind it; a fifth would only make that
queue longer, and the proofs cover every length. Two attempts are one that is not final and
one that is. Two Jobs in `CodingAgent` are two that run at once or a base and its revision;
the agents of different Jobs share nothing but the manager. In Git, two files are enough for a
copy to be mixed, two versions for it to be stale, two lives for a branch to be met again. A
third Job matters only for two revisions that know different tips of one branch, so the constraint
`SecondRevision` admits it only where that can happen: on one version in one process, after the first
Job pushed its branch and its revision got a copy. The theorems about `GitManager` have no such
constraint. With a cap of 2 and five units a chunk may end before, at and after the cap, and a pipe of 2
fills. One background process can have every combination of ignoring SIGTERM, leaving the group and
holding the pipe. In the registry, three entries leave room for a name used twice and a registration; the name
with a blank is what `str.strip` distinguishes. In `Attempt`, three files and a budget of two files and two
units give a file that is too big before one that fits, and each bound being the one that is
reached; two files and two attempts give a file that only the failed attempt named, and the
build writes one of the two, which the model may name as well; one retry of a message is
one try that is not the last and one that is (`long_failure_message` uses the program's three). A model
configured by its bare name is the one for which tags matter; the theorems cover the others. `MaxJobs`,
`MaxVersion`, `MaxLife`, `MaxOutput` and `MaxEntries` cap what is unbounded in the program.

Deadlock is not checked: every one of these systems may stop (all Jobs done and the bound on
their number reached, the manager stopped, the command returned).

**Fairness.** The event loop runs every coroutine that is ready, so the dispatcher and `start`
are weakly fair. In `JobManager` a worker is weakly fair until shutdown: that is the assumption
the manager makes. `CodingAgent` discharges it: each await of `run` is bounded by a
timeout (generation, build, the backstop of Git threads, delivery), and each step is assumed
weakly fair, *except* an agent whose build hangs, which has no step at all; hence
`ImplementsJobManager` grants fairness only to workers that do not hang. Push threads get no
fairness, since nothing waits for one without a limit. In `ExecutionSandbox` the coroutine, its timers
and the reader are fair and the processes are not: they may run for ever.
`ConnectivityFairness` makes the coroutines of the monitor fair, and the answer to a request, which is
bounded by the ten seconds of its budget; `AttemptFairSpec` adds the worker, whose selection of
files does not suspend and would otherwise hold the loop for ever. The endpoint, the gateway,
the users and the end of the process get none: `DegradedModeEnds` is about behaviours in which the
process keeps running and the endpoint keeps serving the model.

## 4. What is proved

Assumptions on the constants: `ConcurrencyLimit, MaxBuildAttempts, MaxFileCount, MaxTotalBytes, MaxEntries,
MaxVersion, MaxLife, PipeSize \in Nat \ {0}`, `MaxJobs, OutputCap, MaxOutput, MaxDeliveryRetries \in Nat`;
`Artefact` is a set of paths; `Strip` maps names to names and is idempotent; the Jobs of a target are positive numbers; names, files, paths,
working copies and background processes are arbitrary. All results hold for every such value. Every
invariant and every action property of the runs is proved, and so is every refinement, but for fairness.

**Job_Manager** (`JobManagerProofs`). None of the properties is inductive. That permits and tasks add up
needs to know that a Job the dispatcher holds while it has a permit is not among the tasks;
that a Queued Job is in one place needs the queue to be free of duplicates and
everything in it to be of a status that has not run; FIFO needs the queue to be in the order of suffixes with
the held Job before all of it. `IInv` is the conjunction of these; one lemma per
action shows that it is kept. From it: `TypeCorrect`, `SlotsAreAccountedFor`,
`RunningJobsAreBounded`, `QueuedJobsAreNeverLost`, `NoWakeupIsMissed`, and the action
properties `PromotionIsFifo` and `CancelledInQueueStaysCancelled`.

**Coding_Agent** (`CodingAgentProofs`). `AInv` is `IInv` with what ties a worker to its slot: a
suspended coroutine is among the entered tasks, a Job cancelled under its worker has its
token set (`WorkerInv`); a worker that may generate has an attempt left and nothing is
counted before it starts (`AttemptsInv`); only existing Jobs push (`PushInv`). Under it every segment
of `run` is a report, a stop, a return or nothing to the manager
(`AgentSimulatesManager`), so `IInv` is kept by the manager's own lemmas. From it:
`AgentImplementsManager`, the safety half of the refinement, by which the theorems of the manager
hold with the real workers (`SlotsAreAccountedForWithAgents` states the central one), `AgentTypeCorrect`,
`RevisableBranchExists` and `EveryAttemptIsMade`. `NothingStartsAfterCancel` is about every Job for which
`/cancel` was confirmed: such a Job has its token set or no worker any more (`AckedInv`), a worker whose token is set
starts nothing, and one that does not exist neither. `OutcomeIsFinal` needs in
addition that a worker that has not taken its first step is of a Running or cancelled Job (`FreshInv`).
`ChannelLearnsTheOutcome` needs to know of each list of events whether it holds an outcome yet
(`EventsInv`): none before the worker reports, exactly one, the status, from then on.
`AgentImplementsJobTable` maps every step to one of the table or to a stutter, which needs `FreshInv` and that an id
that was not minted has neither base nor branch (`AbsentInv`). What is then proved of the table alone, with the invariant
`TableInv`, holds of the agents: what a revision is based on stays revisable (`RevisionsKeepTheirBase`), and an answer
of `/status` is for good once no worker may have its say (`AnswersAreForGood`).

**Git_Manager** (`GitManagerProofs`). `GitInv` has four parts. `TypeInv`: the types, and who holds the lock.
`OrderedJob`, `ReportJob` and `PushedJob`: in which order a Job does things, what its push thread has
sent, and that a Job reported as without a commit has no thread that may make one. `LineageInv`: every branch is a lineage, what a Job is about to send is one, and every tip
anybody knows of (the shared directory, a working copy) was once on the remote, which is what makes
a non-fast-forward push refusable. `AloneJob`: what the shared directory and the copy are, at each point
of the sync, to a Job no other sync overlapped. From it: `GitTypeCorrect`, `UndisturbedIsCurrent`,
`PushedStaysOnRemote`, `OneLineage` and `RemoteOnlyGrows`. `OneCommitPerPush` needs one more
invariant, `SentInv`: what a Job is about to send is one commit of its own on top of a tip the remote once had, and no commit on the
remote is of a Job of this process whose thread has not ended as one that sent it. The remote takes only what continues its own tip, so that tip
is the present one, and one commit arrives. With `ReportJob` it gives `LandedIsReported`.

**Execution_Sandbox** (`ExecutionSandboxProofs`). `SInv` adds that the shell holds the pipe as long as it
lives: so once the reader has seen the end of the output nobody can start a new writer,
and the end is final. From it: `SandboxTypeCorrect`, `CapIsExact` and `ReturnedIsFinal`.

**Choice of context** (`ContextSelectionProofs`). `SelectionInvariant`: what was passed over did not fit then, and the
total, which only grows, is the size of what was selected. `SizeOf` is a recursive function over a sequence; that the
recursion has a solution of every length, and what `Append` does to it, is proved with an induction over a set of positions
(`SetInduction`, by its least missing element), since the library's induction over a predicate is out of the
provers' reach. From it `ContextIsMaximalAlways`, with every part of the property.

**A Job's data** (`AttemptProofs`). `AttemptInv` is `WorkInv`, about the Job, and `ConnectivityInv`, about
the process. The centre of `WorkInv` is `TreeInv`: until a process outlives its build, every file of the copy is as the last of
all completions and builds that wrote it left it, those of failed attempts included, and when the Job comes to push, the
copy is what the build that succeeded left; `DeliveryInv`
counts the tries of a message that fits, `TellInv` relates messages to what was pushed. From it:
`AttemptTypeCorrect`, `OnlyConfirmedIsAvailable`, `BuiltIsPushed`, `RetriesLearn`, `EveryTryIsMade` and
`SuccessIsTrue`. `AttemptSelectsContext` is a refinement: a Job with everything that happens around it
implements `SelectionSpec`, so the theorems about the choice of context hold in it (`ShownContextFits`);
`AttemptKeepsTheMonitor` is the same for the process: it implements `ConnectivitySpec`.

**Target_Registry and Discord_Bot** (`TargetRegistryProofs`, `DiscordBotProofs`). `RInv` adds to the properties
that the pending target's name is nowhere in memory, that the file is the memory with the pending entry once it
is replaced (`FileIsMemory`), and that a confirmed complete target is alone under its name in the file
(`ConfirmedIsAlone`), since `load` picks the first usable entry of a name. From it: `RegistryTypeCorrect`,
`MemoryAgrees`, `ConfirmedIsFound`, and the refinement `RegistryImplementsStore`, of the registry by itself;
`BotImplementsRegistry` carries them to the registry under the handlers. `GateIsFirst` follows from
the replies alone. `JobsKeepTheirTarget` needs that a usable name is known, so that nobody can register it
again, and that no Job is older than its process (`TargetsInv`). `TargetsInv` also says which stage of a worker
goes with which status, and that what a Job is based on is older and can be revised; from it (`BotInvariant`) `BotImplementsJobTable`, in which a crash is the step
that forgets the table.

**Liveness: what of it is proved.** That something happens in the end rests on fairness, which the proof system cannot
use. What it can prove is the rest of the argument: that whoever must move is never stuck, and that every move is
progress. For each of the liveness properties there is such a theorem, for all values of the constants:

* `QueuedJobComesCloser` (`QueuedJobIsServed`): while a Job is Queued the dispatcher can move, or all slots are taken by workers;
  each step of the dispatcher makes `Ahead`, the Job's distance from its turn, smaller, and nobody makes it larger.
* `SignalledWorkerEnds` (`SignalledSlotIsFreed`): a worker is stuck only in a hung build (`PlaceInv`), and each segment of one
  that was told to stop makes `StepsLeft`, which is at most three, smaller or frees the slot.
* `OnlyChildrenDelay` (`ReturnsUnlessOutlived`): SIGKILL reaches the shell, which never leaves its group (`ShellIsKilled`); after it,
  only a process that outlived the shell can keep both the coroutine and the reader from moving, and the coroutine only goes forward.
* `MonitorKeepsRechecking` (`DegradedModeEnds`): while the process serves, a recheck is pending if and only if the model was not
  confirmed (`MonitorInv`), however often the gateway connects, and a process does not fall back into degraded mode.

**Only model-checked.** The liveness properties themselves (`QueuedJobIsServed`, `SignalledSlotIsFreed`,
`ReturnsUnlessOutlived`, `DegradedModeEnds`) and the fairness part of `ImplementsJobManager`: they need fairness and
ENABLED. That a state predicate such as `WorkerCanMove` says the same as ENABLED is read off the guards, not proved.

## 5. Reading the models

* `status` is written by several parties, as in the code: `cancel` sets Cancelled at once and the
  worker later overwrites it. `_fail` sets Failed whatever the status was (`coding_agent.py:494`).
* `WorkerEnters` is the first step of a worker's task. Between `_spawn_worker` and it the Job is
  Running and its coroutine has not begun; a cancellation in that window is the first finding.
* `TornDown` is the cancellation of worker tasks when the loop ends.
* The replies of `DiscordBot` are nested as the code nests its checks. The callbacks of `/build` and `/revise`
  answer "unavailable" before the handler, and so the gate, is reached (`main.py:459`): everybody
  learns that the model is not available, and nothing else. `GateComesFirst` says nothing of these two commands then;
  see section 6.
* `PushedIsWhatWasBuilt` speaks of a step: what is pushed at the moment it is pushed. It promises nothing once a process
  outlived its build, and of a revision only that every file is as its last writer left it: its build ran on a copy of the
  default branch, and the commit goes to another.
* `WriteFails` keeps what was written before the bad entry: the working copy of a failed Job is not
  cleaned, only never pushed.
* Definitions named `X_Something` next to `X` are `X` with a plausible slip (a dropped guard, an
  off-by-one, a missing reset). No specification uses them; substituting one must break the property listed with it in
  `PROJECT.json`, which shows that the property depends on that piece of code.

## 6. Where code and documents disagree

1. **A terminal status is left** (`terminal_is_final`). `run` sets Running in its first step
   without looking (`coding_agent.py:202`); a Job cancelled just before is announced as started.
   (What does hold is `TerminalLeftOnlyByItsWorker`, proved as
   `OutcomeIsFinal`, and `AnswersAreForGood`.)
2. **A cancelled Job is pushed** (`push_after_cancel`). The status is checked before the thread starts
   (`git_manager.py:427`); a `/cancel` while it runs is confirmed, and the branch is pushed.
   (What does hold is `NoWorkAfterCancel`: nothing that had not begun begins.)
3. **A working copy can mix two versions** (`working_copy`). The agent synchronises the shared target directory, not a
   copy of the Job's own, and copies it while another Job's thread may be resetting it.
4. **A revision may not find its branch** (`revision_branch`). Its working copy comes from the
   target's directory, which only ever fetches the default branch. For the same reason the files it shows
   to the model are those of the default branch (`coding_agent.py:411`); the idea in its request is the
   feedback (`job_manager.py:233`), not that of the Job it revises.
5. **A build can hang for ever** (`command_returns`). After the timeout `run_command` still awaits the end of
   the output; a background process that holds it open keeps the Job and its slot.
6. **A failure may never be announced** (`long_failure_message`). The reason of a build that failed or timed out holds
   its whole output; Discord refuses a message of more than 2000 characters on each of the four tries.

Each run gives the shortest trace TLC finds; `PROJECT.json` quotes the documents. The following four have no run of
their own: each is read off one line of the code, which the models contain as it is, and the properties named say
nothing of the case.

7. **An unexpected error is not announced.** An exception `run` does not expect is recorded as internal-error by the
   manager, which emits no event (`job_manager.py:364`, `RunRaises`). `requirements.md:135` (6.3): "WHEN a Job transitions to
   Failed, THE Discord_Bot SHALL post, within 5 seconds of the transition, a failure message". `EventsTellTheOutcome`
   is about the outcomes the agent records.
8. **"Unavailable" comes before the denial.** The callbacks of `/build` and `/revise` ask whether the model is available
   before they call the handler (`main.py:459`, `main.py:510`, `WhileAvailable`), so a caller who may do nothing is
   told that it is not. `discord_bot.py:289`: "Each handler first runs the gate (Property 1)"; requirements 1.4, 11.5 and
   13.1 want the denial. `GateComesFirst` is about the handlers.
9. **A revision that pushed nothing is announced as pushed.** It keeps the branch of its base, and `_render_event` says
   "pushed branch" of every Succeeded Job that has one (`discord_bot.py:195`, `SuccessKind`), although its own docstring
   (`discord_bot.py:187`) and requirements 5.6 and 6.2 (`requirements.md:134`) have the no-changes note instead.
   `SuccessIsToldTruly` is about the branches of `/build` Jobs and about every "no changes".
10. **A target registered without a remote is lost.** `/addtarget` defaults to none; the target is usable until the
   process ends and excluded by the next `load` (`target_registry.py:209`), although `design.md:673` has every added
   target in the reloaded registry. `ConfirmedTargetSurvives` is about complete targets.

## 7. What is not modelled, and why

* **Configuration** (`config_loader.py`): validation of single values at start-up, without state. The bounds it
  enforces are the assumptions on the constants. Likewise argument parsing, environment variables, logging
  and the Discord gateway's own protocol in `main.py`: input and output.
* **Resolution of paths** (`_resolve_within`, links, the workspace of a target): left to the file system. That a
  path escapes, is outside or cannot be written is an outcome in `Attempt`, `DiscordBot` and `TargetRegistry`.
* **Credentials and redaction** in `git_manager.py`: whether they are found is a choice; what they are,
  and how a secret is taken out of a message, is text.
* **Custom branch schemes**: one without the Job id gives every Job the same branch. The models are of the
  default scheme.
* **Texts**: prompts, replies and reports are what they say, not their wording; a reply too long to send is the one
  exception.
* **Inside `_terminate`**: that the shell dies and that `proc.returncode` is set are one step in `ExecutionSandbox`, so a
  signal sent to a group whose shell is dead but not yet reaped is not told apart (`execution_sandbox.py:377-387`).
  The cancellation of the worker's task itself, which only the teardown of the process does, is in `JobManager` and
  `CodingAgent` (`TornDown`) and not within `run_command`.
* `context_budget = None`, which the program never passes, and a registry file that is not valid JSON, which
  ends start-up.

Known and left as they are: working directories are never removed (`execution_sandbox.py:181`); a process that survives
SIGTERM and holds nothing of the command's is left running without a word (`execution_sandbox.py:391`); an operator's
edit of the registry while the process runs is overwritten by the next `add` (`target_registry.py:369`), so
the models let the operator edit only between processes; `on_ready` after a reconnect raises before it syncs the
commands (`main.py:553`), which is modelled, and which no document promises otherwise.

What could come next: the agents of several Jobs with their data (`Attempt` has one), which would add
states and no interaction the other modules do not have; and `Attempt` as a third implementation of `JobTable`, or of
`CodingAgent` for one Job, which would show that the two views of `run` have the same control.
