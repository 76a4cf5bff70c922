# CodeGoat: formal models

TLA+ models of CodeGoat, an Express server that lets Claude Code processes work
on a board of tasks: it starts them in Git worktrees, validates what they did,
restarts them with the feedback of a failed validation, and merges the result.

Paths are relative to the repository root. The server is a single Node.js
process, so the concurrency is that of an event loop: handlers, callbacks and
timers run without interruption up to their next `await`, and everything else
may happen in between. Processes, files, Git and the database live outside it.

In this directory:

| Module | What it is |
| --- | --- |
| `WorkerLifecycle` | the Claude workers of the server, from `/start` to the removal of their directory |
| `WorkerStatus` | what a client may see of a worker: the abstract specification `WorkerLifecycle` implements |
| `WorktreeMerge` | `WorkerLifecycle` composed with Git: worktrees, merges, the main branch |
| `TaskOrchestrator` | the loops and single cycles that take tasks from the board |
| `ValidationPipeline` | the validation runs of one server or of the command line: stages, processes, timeouts, callers |
| `MetricsFile` | the file every validation run adds its result to |
| `SettingsFile` | the settings, updated by several requests at a time |
| `SettingsStore` | an atomic store of settings: the abstract specification `SettingsFile` implements |
| `StageConfigs` | the requests on stage configurations and their flags |
| `ValidationRecords` | the rows a validation run leaves in the database, and whose task they name |
| `StreamManager` | the event stream of the orchestrators: buffer, clients, replay |
| `TaskBoard` | the routes of tasks and scenarios beside the other writers of the same rows |
| `TaskIds` | the choice of the next task id |
| `ScenarioRecords` | the two writes that record the execution of a scenario |
| `ScenarioImport` | the import of the scenario file, repeated and overlapping |
| `Backup` | backups of the database: creation, cleanup, restore, deletion |
| `DevServers` | the dev servers of a worker and the two handles for them |
| `Supervisor` | a session of the Claude supervisor: attempts, timeouts, interrupts |
| `WorkerLifecycle_proofs`, `WorktreeMerge_proofs`, `TaskOrchestrator_proofs` | the theorems of a module |
| `ValidationPipeline_proofs` | the theorems of `ValidationPipeline` and `MetricsFile` |
| `ValidationData_proofs` | those of `SettingsFile`, `StageConfigs` and `ValidationRecords` |
| `TaskBoard_proofs` | those of `TaskBoard`, `TaskIds`, `ScenarioRecords` and `ScenarioImport` |
| `Board_proofs` | those of `StreamManager` and `Backup` |
| `Agents_proofs` | those of `DevServers` and `Supervisor` |
| `MC*` | their instances for TLC, one `.cfg` per question |

## 1. Inventory

What the repository consists of, with what makes each part hard and what makes
it correct. `PROJECT.json` lists the same parts with their status.

### Worker lifecycle: `src/routes/claude-workers.ts`

*State*: the in-memory map `activeWorkers`; per worker its status, its process
handle, `validationRuns`, `validationPassed`, `validationAttempts`, and the
directory it works in. *Operations*: `/start`, the `close`, `error` and stdout
listeners it attaches, the two-second auto-stop timer, `runValidationChecks`,
`restartWorkerWithFeedback`, `/stop`, `/stop-all`, `/clear`, `DELETE`,
`/cleanup-worktrees`. *Hard*: the listeners are attached after an `await`; two
validation runs of one worker may overlap, one started by `close` and one by
`/stop`; every continuation writes to a worker that other handlers have changed
since; the directory is removed in the background. *Correct if*: a directory
never has two live processes; a worker is completed only after a run that
passed; nothing is removed under a process that still works; a validation comes
to an end and its worker with it.

### Worktree merge: `src/routes/claude-workers.ts`, `src/utils/worktree-manager.ts`

*State*: the worktrees, their uncommitted changes, index and HEAD; the main
branch in the server's own checkout. *Operations*: `createWorktree`,
`removeWorktree`, `cleanupWorktrees`, `/merge-worktree`, `/merge`. *Hard*:
`/merge-worktree` awaits every Git command while the worker it merges goes on.
*Correct if*: a merge that answers success lost nothing, and only validated work
completes a task.

### Validation runner: `scripts/validate-task.ts`

*State*: per runner its stages and results, per server the set
`runningProcesses`, on disk `validation-metrics.json`. *Operations*:
`runValidation`, in parallel or in sequence; `runStage` with `close`, `error`
and a timeout; `cleanup`; `saveMetrics`. *Hard*: three events race for one
promise; the cleanup of one runner kills the processes of all; saves overlap.
*Correct if*: `passed` is earned, every run returns, no process is forgotten, no
entry is lost.

### Task orchestrator: `src/utils/claude-task-orchestrator.ts`, `src/routes/orchestrator.ts`

*State*: `globalOrchestrator`, `shouldStop` and `isRunning` of each loop, the
table of tasks. *Operations*: `/start`, `/stop`, `/cycle`, `/execute`; within a
cycle fetch, mark, attempts, back-off, complete, fail. *Hard*: several
orchestrators share the table and fetch without a lock; writes may fail; the
server may die. *Correct if*: no task in progress is forgotten, none is completed
without a successful attempt, one loop runs at a time, and a `/stop` ends.

### The rest

| Part | State, operations | Hard, and what to show |
| --- | --- | --- |
| Executor and wrapper, `claude-executor.ts`, `claude-validation-wrapper.ts` | one spawned command | its timeout against the runner that goes on: in `ValidationPipeline` |
| Settings, `settings.service.ts` | `settings.json` and the defaults that stand for it; load, change, save | concurrent updates; a file read while it is written; defaults changed in place. An update keeps the others |
| Stage configuration, `validation-stage-config.service.ts` | a table of stages | toggle, create and delete in two queries. Each request counts once. Consolidation of old rows is not modelled |
| Records of validation runs | database rows | written one by one, bound to the configurations by a foreign key; attributed to the task updated last. A run is kept whole, and under its own task |
| Event stream, `orchestrator-stream.ts` | clients, a buffer of 100 events, 5 minutes of retention, replay of 20 | one session's events push out another's. A client gets a gapless suffix, each event once |
| Task board, `tasks.ts`, `bdd-scenario-service.ts` | tasks, scenarios, executions in the database | check and completion of a story in two queries; ids in text order; start and end times; executions shown out of order; imports of the scenario file |
| Backups, `database-backup.ts`, `scheduled-backup.ts`, `backup.ts` | files in a directory | retention sorted by a date cut off after the year; a restore beside a cleanup. The newest survive, a restore can be undone |
| Supervisor, `claude-supervisor.ts` | `currentSession`, attempts | a late `close` clears a newer session. No process is forgotten, every session ends |
| Dev servers of a worker, `claude-workers.ts` 1542 | two process handles per worker | the exit of an old server clears the handle of a newer one; a removed worker leaves its servers running. While the worker is known, a running server is the one its handle holds |
| Server, `src/index.ts` | process handlers | an uncaught exception ends the server although it should not: in `WorkerLifecycle` |
| Permissions, `permissions.ts`, `command-interceptor.ts` | an ordered list of rules | first match by priority: sequential, not modelled |
| Log maintenance, `log-cleaner.ts`, `log-manager.ts` | log files | deletion by age and size on a daily timer: file system only, not modelled |
| Analytics, `analytics.service.ts` | `validation-sessions.json` | read, changed and written like the metrics file; the rest aggregates. Not modelled |
| Messages, logs and diffs of workers; projects; middleware; e2e routes; stop hook; command line drivers; code quality tools; seeding; user interface | none, or one query per request | not modelled; `PROJECT.json` gives the reason of each |

How they interact: the worker routes and the orchestrator *call* the validation
runner and *share* its process set, the table of tasks, the Git repository and,
through an orchestrator's cleanup, the worktrees. The runner reads the stage
configuration and the settings. The orchestrator feeds the event stream. The
task board shares the table of tasks with both.

## 2. The models and how they correspond to the code

Every model takes a stretch of code between two awaits as a step, and names its
actions after the code.

### `WorkerLifecycle`

| Variables | Code |
| --- | --- |
| `phase` | how far the `/start` handler has come; `listening` once the listeners are attached |
| `registered` | the keys of `activeWorkers` |
| `status`, `passed`, `attempts`, `handle`, `runs` | `worker.status`, `validationPassed`, `validationAttempts`, `process`, `validationRuns` |
| `life`, `signalled` | the child processes outside the server: alive, exited with an event still to be emitted, gone; SIGTERM sent |
| `armed` | the auto-stop timer |
| `own`, `tree`, `removals` | whether `/start` made the directory, whether it exists, the removals under way by who asked |

`StartRequest`, `StartSpawn`, `StartSpawnThrows`, `StartListen`, `StartRefused`
are the pieces of `/start`. `CloseOk`, `CloseFailed`, `SpawnErrorEvent` and
`ResultMessage` are the listeners; `Heard` says which process has them: the
first one only, once `updateTaskStatus` was awaited. `CloseUnheard` and
`UnheardError` are what happens to the others: a `close` is ignored, an `error`
is an uncaught exception, and the handler that `scripts/validate-task.ts`
installs on import exits the server before that of `src/index.ts` can log it.
`RunPassed`, `RunFailedRestart`, `RunFailedFinal` and `RunFailedStopped` are the
continuations after `runValidationChecks`, with `Restart` for
`restartWorkerWithFeedback`. `Stop`, `StopAll`, `Clear`, `Delete`,
`CleanupWorktree` are requests, `RemovalDone` and `RemovalFails` the end of the
removals they or the listeners started. `ServerEnds` is the end of the process,
after which the next server starts with empty maps while Claude processes and
directories stay.

Left out: what the process prints, the logs, the text of the feedback, the
writes to the task table (their outcome never changes what the handler does).
A worker id is used once, as `generateWorkerId` makes them.

### `WorkerStatus`

What polling `GET /api/claude-workers` shows: `completed` only with a run that
passed, no return to work from `failed`, and everything forgotten when the
server exits. `WorkerLifecycle` implements it with `validated` mapped to the
workers that have a passed run.

### `WorktreeMerge`

Extends `WorkerLifecycle`. A change is a token and a commit a set of them:
`dirty`, `staged` and `head` of a worktree, `main`, whether a branch is checked
out (`onBranch`), whether the server's checkout stopped at a conflict. Each step
of `/merge-worktree` (`ReadStatus`, `Add`, `Commit`, `ReadBranch`, `Checkout`,
`MergeDone`, `MergeFails`, `MarkTask`, `Removed`) is one Git command or query.
Between them every action of the worker table runs (`WorkerStep`,
`ServerStep`), live processes edit, commit and make branches (external), an
orchestrator removes worktrees (`CleanupWorktrees`), and `/merge`
(`MergeByCherryPick`, synchronous) interferes. `found` is a history variable:
what the worktree held when the request looked at it. The copies made where
there is no Git repository are not modelled.

### `TaskOrchestrator`

An actor is one orchestrator object: a loop of `/start`, a single `/cycle`, or
the prompt of `/execute`. `pc` says where it is between two awaits, `job` and
`tries` are the locals of `executeTaskWithRetries`. `IsRunning` is derived: a
loop runs from `/start` until it left its `while`. `Rank` gives the order of
priorities as text, which is how the database holds them. `Written` and
`NotWritten` are an update and one that failed, which the code only logs.
`passed` and `lost` are history variables: tasks some attempt succeeded at, and
tasks left in progress by a failed write or a crash.

The outcome of a Claude process and of a validation is a choice;
`ValidationPipeline` is where the latter comes from.

### `ValidationPipeline`

`mode` is which program runs: the server, whose runners are always parallel, or
the command line, parallel or with `--sequential`. Per runner: `pc`, `enabled`
stages, the promise of each stage (`stage`), its process (`proc`), who signalled
it first (`killedBy`), the `verdict`. `tracked` is `runningProcesses`, shared by
all. `Close`, `SpawnErrorEvent` and `Timeout` race for a promise; `Escalate` is
the timer that should send SIGKILL. The callers are in the model because they
differ: the worker routes wait, the orchestrator gives up and skips `cleanup`,
the wrapper gives up and still cleans up when the runner is done
(`CallerTimesOut`, `Cleanup`).

Left out: what a stage prints. The choice between settings file and database
for the stages (here any set may be found, or none, or an error) and the record
in the database are in `ValidationRecords`.

### `MetricsFile`

`saveMetrics` in four steps: record, read and extend (`ReadFile`, with `Trim`),
open, which empties the file (`OpenFile`), and the end of the write. A file in
the middle of a write is `Torn`; it reads as an empty history. Writes that
overlap may leave either content or a mixture. `saves` and `disturbed` are
history variables.

### `SettingsFile` and `SettingsStore`

A section is the set of its entries, stages or options. `settingsFile` may be
absent, or broken in the middle of a write; either way, or for a section it
lacks, `defaults` stands in, the one object `DEFAULT_SETTINGS` of the process,
which all updates but `updateSettings` then change in place (`InPlace`).
`LoadAndChange` is an update up to its `writeFile`, `Truncate` and
`WriteSettings` are the write. `Updates` says what each kind of update may
change: `updateSettings` options of any sections together, the section updates a
whole section, the stage operations the validation section. In `SettingsStore` a
request is made (`Ask`), takes effect once and as a whole (`TakeEffect`) and is
answered (`Answer`). `Meant` maps the file, its draft in the middle of a write
and the defaults to the settings of the store, and `Request` the only update
under way to its request: `wanted` is the history variable that keeps what it
asked for. `unsettled` says from when on the store no longer vouches for the
settings: two updates overlapped, one failed, or a restart cut one off.

### `StageConfigs`

`LookUp` is `findUnique` in a handler, or the read of a toggle, `WriteFlag` the
query that follows, `FailWrite` its refusal by the database. `asked` is what the
answered requests add up to; `raced` are the configurations last written by a
toggle that something came before. A PUT that leaves out `enabled` writes no flag
and is left out.

### `ValidationRecords`

`config` is the table of configurations, `rows` the stage rows of each run.
`LoadStages`, `FindTask` or, when its query fails, `FindFails`, `CreateRun`, `CreateStage`, `BreakOff`, `EndSave` are
the awaits of a script; `PostRun` is the transaction of the route.
`DeleteConfig` fails over the foreign key, as `CreateStage` does. `newest` is
the order in which `findCurrentTask` sorts the tasks in progress. `safe`,
`overtaken` and `unanswered` (the scripts whose query for the task failed) are
history variables.

### `StreamManager`

An event is its number, so the buffer is a set. `AddClient` replays
(`Replay`) and registers in one turn of the event loop, `BroadcastEvent` buffers
and sends. `joined`, `missed` and `left` record what there was when a client came
and went.

### `TaskBoard`, `TaskIds`, `ScenarioRecords`, `ScenarioImport`

A PUT of a task is a read (`PutRead`, or `PutReadStory` for a completion that
has to pass the gate), the gate (`PutGate`, `PutRefused`) and the write
(`PutWrite`, `PutFails`); what it decided on travels in `put`. `CreateTask`,
`DeleteTask`, `ScenarioWrite` and the writes of workers and orchestrators
(`OutsideWrite`) come in between. `fresh` are the requests whose row did not
change since; `ungated` and `untimed` the tasks that came to be completed past
the gate or without an end of their own. `TaskIds` has the query for the last id
and the insertion as two steps, with numbers for the texts: `TextBefore` is their
order. In `ScenarioRecords` an execution is a row and then the status of its
scenario, by the route or by the service, which takes the time again. In
`ScenarioImport` each title is looked for and then created; other requests that
write scenarios of the same titles are left out.

### `Backup`

`ListBackups` is the listing of a cleanup, with the order that `ListedBefore`
gives it, `CleanBackup` one deletion. `SaveBeforeRestore` and
`OverwriteDatabase` are a restore. Tools are processes of their own and may be
killed anywhere. A backup is known by the last write it holds.

### `DevServers` and `Supervisor`

`devHandle` are the fields `devServerBackend` and `devServerFrontend`; `server`
the processes. Every server's `exit` clears the field of its kind
(`ServerExits`). `known` says whether the worker is in `activeWorkers`: DELETE and
`/clear` (`DropWorker`) and the end of the program (`ProgramEnds`), be it that a dev
server could not be spawned, leave its servers running. In `Supervisor`, `current` is `currentSession`, `closing` the
processes whose `close` handler still has to write its log, after which it
clears the field (`HandleClose`); `SessionTimeout` signals whatever the field
holds and lets the loop go on at once. A log or prompt that cannot be written
and a hook that cannot be spawned end the supervisor (`SupervisorDies`).

## 3. What is checked

| Run | Instance | Shows |
| --- | --- | --- |
| `worker` (`MCAgents`) | one worker, one retry, one `/stop`, server may exit; two dev-server requests and three servers; a session of three attempts | types, `OneLiveProcess`, `CompletedWasValidated`, `ValidatingIsSettledLater`, `OneCloseRun`, `CleanupAfterLastProcess`, `ImplementsWorkerStatus`, `ServersAreHeld`, `NoAgentIsForgotten`, and under fairness `CloseRunSettles`, `StoppedEnds`, `SessionEnds` |
| `orchestrator_safety` (`MCSettings`) | two loops, a prompt, a `/stop`, two tasks, failing database, one crash; two requests on two sections of the settings with two entries, each on either section or both, failing writes, restarts | types, `InProgressIsOwned`, `CompletedWasPassed`, `FinishedForGood`, `ImplementsSettingsStore` |
| `board` (`MCBoard`) | a loop and a single cycle, one task, two attempts; one task with two scenarios and a slow PUT; ids up to the edge of their padding; two recorders; two imports; five events and a client; two backup tools | types, `StoryGateHolds`, `TimesAreOrdered`, `CreationSucceeds`, `ResultIsNewest`, `ImportIsRepeatable`, `DeliveryIsGapless`, `ReplayIsComplete`, `RestoreIsUndoable`, and under fairness `StopEnds`, `InProgressSettles` |
| `merge_safety` | one worker without retries, one change, two merges | `MergedTaskWasValidated`, `BranchMergeIsComplete` |
| `validation` (`MCValidation`) | two runners with two stages and one; three saves to a file of two entries; two requests on two configurations; a script, a POST and two tasks | types, `VerdictIsEarned`, `CleanupHarmsOthersOnly`, `NoOrphans`, `HistoryIsComplete`, `FlagsAreAsAsked`, `RecordsAreWhole`, `AttributedToOwn`, and under fairness `RunReturns` |

Parts that share no state are explored side by side in one run: the variable
`focus` of `MCAgents`, `MCBoard`, `MCSettings` and `MCValidation` says, from the
initial state on, which component a behaviour is about, and the others rest in an
initial state. This is a disjoint union of their state spaces, not a product, and each
property is about the variables of a single component. The settings, the largest
of the parts without liveness, are beside the orchestrators, whose safety is checked
without fairness.

What each property says is stated at its definition. The ones that take the
longest chains: `CompletedWasValidated` (the overlapping runs of `close` and
`/stop` write the same two fields in either order), `CleanupAfterLastProcess`
(no handler of an ended process removes the directory of a restarted one),
`BranchMergeIsComplete` (no change is lost between `status` and `merge`,
whatever the worker and a second merge do), `InProgressIsOwned` (two actors with
the same task never leave it behind), `CleanupHarmsOthersOnly` (a cleanup that
hits everybody never hits its own runner), `ImplementsSettingsStore` (defaults
changed in place never show through as long as updates do not overlap),
`TimesAreOrdered` (whatever workers, orchestrators and PUTs write to a row),
`NoAgentIsForgotten` (a process only leaves the field through the close of an
earlier attempt that was given up).

Many of the properties hold under a condition on what happened before, kept in
a history variable: no overlap, no failure in between. That condition is the
finding: it is the exact extent to which the code, which has no locks, keeps its
promise, and each mutant shows that nothing less than the code's own steps keeps
it.

The remaining runs look for what a comment, test or message of the repository
says and the code does not do; TLC finds each violated, and `PROJECT.json`
quotes both sides under `findings`.

| Run | The code |
| --- | --- |
| `worker_restarted` | never validates what a restarted process did; the worker stays `running` |
| `worker_deleted` | restarts a worker that was deleted while its validation was pending |
| `worker_server_exit` | loses the whole server when a process cannot be spawned |
| `orchestrator_singleton` | runs a second loop after a `/start` in the middle of a `/stop` |
| `backup_retention` | deletes the newest automated backups of a year and keeps the oldest |
| `merge_detached` | merges `HEAD`, which is `main` itself, for every worktree `/start` made, and then removes the worktree |
| `validation_force_kill` | never sends SIGKILL to a stage that ignores SIGTERM |

### Bounds, and why they are enough

- *Workers*: one. Workers meet only in `/stop-all` and `/clear`, which look at
  each by its own state. The proofs cover any number.
- *`MaxAttempts`*: one retry in `worker`. More make no difference to the model:
  a restarted process has no listener, so there is at most one restart, which is
  part of the inductive invariant. `merge_safety` has none, because a restarted
  process is, for the merge, a live process like the first.
- *`MaxStops`*: one run by `/stop` beside the one of `close` gives every order of
  two runs. In `merge_safety` `/stop` is left out (`/stop-all` and `DELETE` stop
  workers there) to keep the product of Git and worker small. The merge theorems
  need no such bound.
- *`Changes`*: one. A merge treats all changes of a worktree alike; lost changes
  show with one. *`Merges`*: two requests for one worker.
- *Tasks, actors*: two tasks are what an order of priorities and a change of
  mind between fetch and mark need; three actors what a double fetch beside a
  stopping loop needs. `Offered` limits the priorities users give new tasks in
  `orchestrator_safety` to `urgent` and `low`: one sorted before and one after
  the `medium` and `high` of the other tasks.
- *`MaxCrashes`*: one, since a second crash only repeats the first on the same
  table.
- *Stages*: one critical and one optional stage, in parallel and in sequence;
  the second runner has the critical one, whose process the first one's cleanup
  may hit. One runner is called by the wrapper and one by the orchestrator: both
  go through everything a worker's runner does, and give up besides.
- *`MaxEntries`*: two entries and three saves pass the edge that 1000 entries
  pass at the 1001st.
- *Settings*: two sections, one of them that of the stages, show an update that
  touches the wrong one, or one of two it should; two entries one that loses or keeps the wrong one; two
  requests every overlap. The defaults have all stages and nothing else.
- *Configurations, scripts*: two configurations tell the deletion of one from the
  other; one script beside a POST, since scripts meet only in the foreign key.
- *Stream*: a buffer of three, a replay of two and five events fill and overrun
  both; two sessions push each other out. Clients do not meet, so there is one.
- *Board*: one task with two scenarios: a request looks at one row and its
  scenarios only. One PUT is enough, as other requests are the single steps that
  come between its own; four timestamps are a start and an end, twice.
- *Ids*: `Radix` 4 and `Edge` 3 stand for 10 and 999; `MaxId` 6 is past the edge.
- *Recorders, importers*: two, which is every overlap of two; four timestamps.
- *Backups*: two tools and four timestamps; two manual and one automated backup
  are kept where the script keeps 50 and 10.
- *Dev servers, attempts*: two requests and three servers: one stopped, one
  started, one that loses its handle. Three attempts: one given up, one robbed by
  its close, one after.

`merge_safety` and `orchestrator_safety` use symmetry over interchangeable
requests or loops; they check no liveness. Deadlock is not checked: every model
ends when all its requests are answered, as the system rests without requests.

### Fairness

- The event loop runs what is ready: listeners, continuations, timers. So
  `StartListen`, `CloseEvent`, `AutoStop`, the end of removals, the steps of a
  runner and the polling of `/stop` are weakly fair.
- Queries, files and Git answer, with a result or an error.
- A validation run ends: every stage has a timeout that does not wait for its
  process. `WorkerLifecycle` and `TaskOrchestrator` assume it, and `RunReturns`
  in `ValidationPipeline` shows it.
- A Claude process that got SIGTERM ends (`SignalledExit`). The same is *not*
  assumed for the processes of stages, whose timeouts must work without it.
- Nothing makes a Claude process end by itself: no timeout is set for it. So
  `StopEnds` and `InProgressSettles` say that an endless one is the *only* thing
  that can keep a `/stop` unanswered or a task in progress.
- The steps of a supervisor session, its timeouts and its stop hook, which has a
  timeout of its own, are weakly fair; its Claude processes need not end, not even
  when signalled. `SessionEnds` holds all the same, since a timeout goes on
  without waiting for the process.
- Nobody has to send a request.

## 4. What is proved

By TLAPS, for all values of the constants that meet their assumptions, which name
what the code can be given and no more: bounds and limits are naturals
(`MaxAttempts`, `MaxTaskRetries`, `MaxTasks`, `MaxCrashes`, `MaxStops`, `MaxStamps`,
`MaxEvents`, `MaxTimes`, `MaxTime`, `MaxServers`, what `KeepOf` leaves and `YearOf` tells), sizes
positive ones (`MaxEntries`, `MaxBufferSize`, `MaxReplay`, `MaxRows`,
`MaxAgents`, `Edge`), `Radix` is at least 2 and `MaxId` has no more digits than the
number after `Edge`; the sets of actors are disjoint, stages are numbers, every
scenario has a task, and the names that stand for nobody, a timer, no task, the API,
any session, a missing or a torn file are no member of the sets they are added to.

Every invariant and every action property that a passing run checks is also a
theorem of the specification of its component. Most of them are not inductive, or
only together; the sections below say with what.

**Workers** (`WorkerLifecycle_proofs`). The safety properties are not inductive.
That a directory has one live process, for instance, rests on there being at
most one restart, and that on who listens to whom. `IInv` says, for each worker:
before the spawn there is nothing to validate, stop or remove; a worker has at
most one run of the `close` handler, which begins after the original process is
gone (`CloseRunAfterClose`); a restart only comes out of that run, so there is at
most one (`RestartAfterCloseRun`); and an automatic removal, or the status
`failed`, means that the listeners of the original process have nothing left to do
(`ListenersDone`), so nobody can restart a process under the removal or bring
the worker back to work. From it follow `NeverTwoProcesses`,
`CompletedIsValidated`, `ValidatingSettles`, `ClosesOnce`, `CleanupDisturbsNone`.
`Implements` is the refinement: every step changes each status by a pair of
`WorkerStatus!Observable` or not at all (`StepRefines`), where leaving `failed`
for `running` is what `ListenersDone` excludes.

**Merge** (`WorktreeMerge_proofs`). `WorkerTable` shows that the composed system
keeps the invariant of the worker table: a step of the composition is a step of
the table or only removes a directory. `FoundIsThere` then follows the changes
of a request: in the worktree, in the index or HEAD, in HEAD, on the named
branch, on main, as long as the directory exists, and without that condition once
the branch is known. `BranchMergeCompletes` is its last line.
`MergedTaskIsValidated` combines the table's invariant with the fact that a run
that passed stays on record.

**Orchestrator** (`TaskOrchestrator_proofs`). `IInv` adds to the two invariants
that whoever is about to complete a task has a success at it on record
(`PassedBeforeCompletion`) and that whoever is at work has a task
(`HoldersHoldTasks`). `NoTaskIsForgotten` is proved action by action, because two
actors may hold one task: a write by either ends `in_progress`, and an actor that
reopens it holds it. `CompletedForGood` is an action property from the same
invariant.

**Validation** (`ValidationPipeline_proofs`). The verdict follows the last stage and
nothing runs after it (`VerdictIsLast`); a stage that passed has a process that
ended with 0 (`PassedIsBacked`); a living process is in the shared set or was
signalled (`LiveIsReached`). `PassedIsEarned`, `CleanupSparesItsOwn` and
`NoneIsOrphaned` follow for any number of runners and stages.

**Metrics file** (`ValidationPipeline_proofs`). Lemmas about sequences say that trimming
keeps the newest entries and that trimming after each append is the same as
trimming once (`TrimIsNewest`, `NewestOfAppend`). `FileInv` says what the one
saver has in hand; `HistoryIsKept` follows for any `MaxEntries`, 1000 included.

**Settings** (`ValidationData_proofs`). `SettingsInv` says that, as long as nothing
unsettles the store, one update is under way at a time, the file is torn only
during its write, the shared defaults are as shipped between updates wherever the
file lacks a section, and what an update is about to write is what is stored or
that changed, in all sections, by what was asked for. `SettingsImplement` follows: a
request takes effect once and as a whole, when its write begins or, where the shared
defaults stand for what is missing, already when it changes these in place; no other
step changes the settings.

**Stage configurations** (`ValidationData_proofs`). `ConfigInv` adds to
`FlagsAreAsAsked` that a toggle whose configuration nobody wrote since it looked
brings the negation of what is stored (`TogglesNegate`), and that a configuration is
there exactly if the requests say so, raced or not (`ThereAsAsked`).

**Records of runs** (`ValidationData_proofs`). That a script never breaks off over
stages recorded before rests on where those rows are: `SafeStagesAreRecorded` says
that each such stage has one, in whichever run, and the foreign key keeps its
configuration. `OwnIsCurrent` says of a script that was not overtaken that it would
find its own task now, and `AsksOnce` that a script whose query failed does not look
again; `WithoutTask` is the lemma about the order of the tasks that it needs.

**Task board** (`TaskBoard_proofs`). Neither property is inductive. `BoardInv` adds
that no time in a row or a request is ahead of the clock (`TimesArePast`), that an
update without a status has no times (`KeepsTimes`), and that a request whose task
has not changed since it was read decided as it would decide now (`DecidedRightly`):
a completion then passes the gate and ends after the start (`CompletesRightly`).
There is one lemma per action; those of a request that write no row share
`RequestKeeps`. `GateHolds` and `TimesOrdered` follow for any tasks, scenarios,
requests and times.

**Ids, executions, imports** (`TaskBoard_proofs`). `DigitsGrow` is the arithmetic of
the padding: the text order is that of the numbers except from `Edge` to the next.
So the number after the last id is free but there (`NextIsFree`), and stays so while
one request alone is choosing (`LoneChoiceIsFree`); `CreationsSucceed` is an action
property from it. `NewestIsOnItsWay` says where the newest execution is while the
scenario does not show it yet, `DoneHasRows` and `LoneImportIsFirst` how far each
import has come; `NewestIsShown` and `ImportRepeatable` follow.

**Event stream** (`Board_proofs`). `LastIsUpward` and `LastOfNewest` say what
cutting a set of numbers to its last members keeps. `BufferIsNewest` then holds of
the buffer, and what a client was sent is right when it connects, stays so while
`sent` only grows (`PastStays`, `LiveStays`), and grows by each event of its session
(`LiveGrows`). `DeliveryGapless` and `ReplayComplete` follow for any clients,
sessions and limits, the 100 and 20 of the code included.

**Backups** (`Board_proofs`). A restore saves the database some time before it
overwrites it, and the server writes and other processes delete in between.
`AboutToReplaceKept` says that what the restore will replace is all along in a backup,
or excused; no step but a deletion, which excuses, takes away what is kept
(`StepKeepsBackups`, `DropKeeps`).

**Dev servers, supervisor** (`Agents_proofs`). `ServersAreHeld` is inductive with its
types; it is stated while the worker is known. `NoAgentIsForgotten` is not inductive:
a process may only run in the attempt that is awaited (`OnlyAwaitedRuns`), which
needs that an attempt that is not over is awaited or was given up
(`UnfinishedIsAwaited`) and that nothing is left of attempts to come
(`NothingAhead`).

**Types of the compositions.** `AgentTypes`, `ValidationTypes` and `BoardTypes` are about
the specifications that the runs of several components check: a step of the
composition is a step or a stutter of each of them, so that each keeps its invariant.

Only model-checked: the liveness properties `CloseRunSettles`, `StoppedEnds`,
`StopEnds`, `InProgressSettles`, `RunReturns`, `SessionEnds`, since fairness and
ENABLED are out of the prover's reach, and what the runs of section 3 refute. No
definition of the models is recursive, so nothing is left to an induction over data.

## 5. Known limits of the code, described but not kept as runs

- The auto-stop timer sends SIGTERM, so the process closes with a null code and
  the worker fails unvalidated; claude-workers.ts:668 says "The close handler will
  run validation automatically".
- `VALIDATION_RETRY_SYSTEM.md`:14 and :33 promise repeated retries; there is one.
- `/merge` commits, then cherry-picks in a directory that is no repository: 500,
  and the next request finds "No changes to commit".
- Removals by DELETE, `/merge-worktree` and `/stop` also reach a
  `workingDirectory` the user named.
- POST `/execute` creates a HIGH task and runs one cycle, which takes whatever
  pending task is first. Priorities are ordered as text, urgent, medium, low,
  high (claude-task-orchestrator.ts:586), so its own task comes last, and the
  answer is that of another one (routes/orchestrator.ts:337).
- The orchestrator fetches a failed task again at once if it still is the first,
  and its filter looks at the first row only: one task can hide all others.
- A task in progress when the server dies is never fetched again.
- Overlapping saves lose entries of the metrics file (`HistoryIsComplete` is
  stated for saves that do not overlap), and the cleanup of one runner fails the
  stages of another (`CleanupHarmsOthersOnly`).
- Message and follow-up routes write to a stdin that `/start` has ended.
- After the id at the edge of the padding (999) every creation of a task chooses
  the same next id and fails (tasks.ts:126); `CreationSucceeds` excepts it.
- A story can be completed past its gate: created as completed, turned into a
  story afterwards, or completed by a worker; and the gate is checked in a query
  before the write. A task taken back and completed again keeps its old end.
- A run whose stages came from the settings file may be kept with some of its
  stage rows only, and two workers' runs may be attributed to each other's task.
- The orchestrator saves runs without stage rows (claude-task-orchestrator.ts:653).
- DELETE, `/clear` and the end of the program leave the dev servers of a worker
  running; `stop-dev-server` and `dev-server-status` answer 404 for them
  (claude-workers.ts:1711, :1771). Nobody listens to the `error` of a dev server
  that cannot be spawned, which is one way for the program to end.
- A validation run whose query for the task failed is kept without a task
  (validate-task.ts:268); `AttributedToOwn` says so.
- A copy of the database made while the server writes may be torn: `Backup` takes
  a copy as a whole.
- A second dev server whose predecessor exits late becomes unreachable, and a
  supervised process may lose its field the same way.

## 6. Plan

1. *Done*: worker lifecycle and its abstract status, worktree merge, task
   orchestrator, validation pipeline, metrics file, with their theorems.
2. *Done*: task board, ids, executions and imports; settings and their store;
   stage configurations; records of runs; event stream; backups; dev servers;
   supervisor.
3. *Done*: proofs of every safety property of steps 1 and 2, and of the refinements.
4. An abstract ledger of tasks, as `WorkerStatus` is of workers, that
   `TaskOrchestrator` implements: `CompletedWasPassed`, `InProgressIsOwned` and
   `FinishedForGood` would be facts about it.
5. The reorder of stages and their consolidation, and the permission rules, as
   pure algorithms over small inputs; the sessions file of the analytics service
   as a second instance of what `MetricsFile` shows.

Not modelled, and not planned: what only reads or formats (statistics, logs,
diffs, middleware), what only runs tools (quality library, stop hook, seeding),
and the user interface, which polls the routes.
