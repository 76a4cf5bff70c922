-------------------------- MODULE TaskOrchestrator --------------------------
(***************************************************************************)
(* The task orchestrators of src/src/utils/claude-task-orchestrator.ts and *)
(* the routes of src/src/routes/orchestrator.ts that start, stop and run   *)
(* them.  Three kinds of actors take tasks from the one table of tasks:    *)
(* the loops that POST /start leaves running in the background, the single *)
(* cycles of POST /cycle, and the prompts of POST /execute, which create a *)
(* task and then run a single cycle.  Every actor is one orchestrator      *)
(* object; the global variable globalOrchestrator points at a loop.        *)
(*                                                                         *)
(* A step is a stretch of code between two awaits: a query of the          *)
(* database, the end of a Claude process or of a validation, a timer.      *)
(***************************************************************************)
EXTENDS Naturals, FiniteSets

CONSTANTS
  Loops,           \* the orchestrator objects POST /start may create
  Cycles,          \* the requests POST /cycle
  Prompts,         \* the requests POST /execute
  Stops,           \* the requests POST /stop
  Filter,          \* the priorities an actor's taskFilter lets through
  Validates,       \* enableValidation of an actor
  MaxTaskRetries,
  DbFails,         \* TRUE: a query of the database may fail
  Offered,         \* bound: the priorities of the tasks users add
  MaxTasks,        \* bound: tasks in the table
  MaxCrashes,      \* bound: crashes of the server
  NoLoop           \* globalOrchestrator = null

Actors == Loops \cup Cycles \cup Prompts
Tasks == 1 .. MaxTasks      \* in the order of their ids and of createdAt
NoTask == 0
Priority == {"low", "medium", "high", "urgent"}

ASSUME OrchestratorAssumption ==
  /\ NoLoop \notin Loops
  /\ Loops \cap Cycles = {} /\ Loops \cap Prompts = {}
  /\ Cycles \cap Prompts = {}
  /\ Filter \in [Actors -> SUBSET Priority]
  /\ Validates \in [Actors -> BOOLEAN]
  /\ Offered \subseteq Priority
  /\ DbFails \in BOOLEAN
  /\ MaxTaskRetries \in Nat
  /\ MaxTasks \in Nat
  /\ MaxCrashes \in Nat

VARIABLES
  current,     \* globalOrchestrator
  shouldStop,  \* shouldStop of every loop
  waits,       \* the loop a /stop request waits for, or NoLoop
  pc,          \* where every actor is
  job,         \* the task an actor fetched last, or NoTask
  tries,       \* attempts of the actor at its task
  status,      \* the status of every task; "none" before it is created
  prio,        \* the priority of every task
  asked,       \* the id a prompt's task got from generateNextTaskId
  answer,      \* the answer to a prompt: data.success, or a 500
  passed,      \* ghost: tasks some attempt succeeded at
  lost,        \* ghost: tasks left behind by a failed last write or a crash
  crashes

vars == <<current, shouldStop, waits, pc, job, tries, status, prio, asked,
          answer, passed, lost, crashes>>
table == <<status, prio, passed, lost>>
requests == <<current, shouldStop, waits, asked, answer, crashes>>

TaskStatus == {"none", "pending", "in_progress", "completed"}
\* "create": a prompt before its task is in the table; "mark": before the
\* write of IN_PROGRESS; "cleanup": isRunning is already false.
PC == {"idle", "create", "fetch", "mark", "claude", "validate", "backoff",
       "complete", "fail", "sleep", "cleanup", "done"}
AtWork == {"claude", "validate", "backoff", "complete", "fail"}

TypeOK ==
  /\ current \in Loops \cup {NoLoop}
  /\ shouldStop \in [Loops -> BOOLEAN]
  /\ waits \in [Stops -> Loops \cup {NoLoop}]
  /\ pc \in [Actors -> PC]
  /\ job \in [Actors -> Tasks \cup {NoTask}]
  /\ tries \in [Actors -> 0 .. MaxTaskRetries]
  /\ status \in [Tasks -> TaskStatus]
  /\ prio \in [Tasks -> Priority]
  /\ asked \in [Prompts -> Tasks \cup {NoTask}]
  /\ answer \in [Prompts -> {"none", "success", "failure", "error"}]
  /\ passed \in SUBSET Tasks
  /\ lost \in SUBSET Tasks
  /\ crashes \in 0 .. MaxCrashes

Init ==
  /\ current = NoLoop
  /\ shouldStop = [l \in Loops |-> FALSE]
  /\ waits = [s \in Stops |-> NoLoop]
  /\ pc = [a \in Actors |-> "idle"]
  /\ job = [a \in Actors |-> NoTask]
  /\ tries = [a \in Actors |-> 0]
  /\ status = [t \in Tasks |-> "none"]
  /\ prio = [t \in Tasks |-> "medium"]
  /\ asked = [p \in Prompts |-> NoTask]
  /\ answer = [p \in Prompts |-> "none"]
  /\ passed = {}
  /\ lost = {}
  /\ crashes = 0

-----------------------------------------------------------------------------
(* Helpers *)

\* isRunning: set and cleared by start().
IsRunning(l) == l # NoLoop /\ pc[l] \notin {"idle", "cleanup", "done"}

\* orderBy priority desc, createdAt asc.  SQLite holds the priority as text.
Rank(p) == CASE p = "urgent" -> 4 [] p = "medium" -> 3
             [] p = "low" -> 2 [] p = "high" -> 1
Before(t, u) ==
  Rank(prio[t]) > Rank(prio[u]) \/ (prio[t] = prio[u] /\ t < u)

\* Mutant: the status is not asked for.
PendingOrOver == {t \in Tasks : status[t] # "none"}

Pending == {t \in Tasks : status[t] = "pending"}
IsFirst(t) == t \in Pending /\ \A u \in Pending \ {t} : Before(t, u)

\* The row of generateNextTaskId, as far as the table reaches.
IsNextId(t) ==
  status[t] = "none" /\ \A u \in Tasks : (status[u] = "none") <=> (u >= t)

Goto(a, place) == pc' = [pc EXCEPT ![a] = place]

\* Mutant: the flag is not looked at between two cycles.
AfterCycleOnward(a) == IF a \in Loops THEN "fetch" ELSE "done"

\* while (!this.shouldStop), or the return of a single cycle.
AfterCycle(a) ==
  CASE a \in Loops /\ shouldStop[a] -> "cleanup"
    [] a \in Loops /\ ~shouldStop[a] -> "fetch"
    [] a \notin Loops -> "done"

\* result.success: no task failed, whether or not one was executed.
Reply(a, success) ==
  answer' = IF a \in Prompts THEN [answer EXCEPT ![a] = success] ELSE answer

\* An update of a task's row, or the error it throws, which is logged.
Written(t, new) ==
  /\ status' = [status EXCEPT ![t] = new]
  /\ lost' = lost \ {t}
NotWritten(t) ==
  /\ DbFails
  /\ lost' = IF status[t] = "in_progress" THEN lost \cup {t} ELSE lost
  /\ UNCHANGED status

-----------------------------------------------------------------------------
(* The routes *)

\* POST /start; refused with 409 while the global orchestrator is running.
Start(l) ==
  /\ pc[l] = "idle"
  /\ ~IsRunning(current)
  /\ current' = l
  /\ Goto(l, "fetch")
  /\ UNCHANGED <<shouldStop, waits, job, tries, asked, answer, crashes, table>>

\* POST /stop of a running loop: the flag, and then polling.
StopRequest(s) ==
  /\ waits[s] = NoLoop
  /\ IsRunning(current)
  /\ shouldStop' = [shouldStop EXCEPT ![current] = TRUE]
  /\ waits' = [waits EXCEPT ![s] = current]
  /\ UNCHANGED <<current, pc, job, tries, asked, answer, crashes, table>>

\* POST /stop of a loop that has ended: no polling.
StopEnded ==
  /\ current # NoLoop /\ ~IsRunning(current)
  /\ shouldStop' = [shouldStop EXCEPT ![current] = TRUE]
  /\ current' = NoLoop
  /\ UNCHANGED <<waits, pc, job, tries, asked, answer, crashes, table>>

\* The poll, every 100 ms, that finds isRunning false; the handler then
\* clears the global variable, whatever it points at by now.
StopAnswered(s) ==
  /\ waits[s] # NoLoop
  /\ ~IsRunning(waits[s])
  /\ waits' = [waits EXCEPT ![s] = NoLoop]
  /\ current' = NoLoop
  /\ UNCHANGED <<shouldStop, pc, job, tries, asked, answer, crashes, table>>

\* POST /cycle
CycleRequest(c) ==
  /\ pc[c] = "idle"
  /\ Goto(c, "fetch")
  /\ UNCHANGED <<job, tries, requests, table>>

\* POST /execute, up to the answer of generateNextTaskId.
PromptRequest(p) ==
  /\ pc[p] = "idle"
  /\ \E t \in Tasks : IsNextId(t) /\ asked' = [asked EXCEPT ![p] = t]
  /\ Goto(p, "create")
  /\ UNCHANGED <<current, shouldStop, waits, job, tries, answer, crashes,
                 table>>

\* task.create: the id must still be free.
PromptCreates(p) ==
  /\ pc[p] = "create"
  /\ status[asked[p]] = "none"
  /\ status' = [status EXCEPT ![asked[p]] = "pending"]
  /\ prio' = [prio EXCEPT ![asked[p]] = "high"]
  /\ Goto(p, "fetch")
  /\ UNCHANGED <<job, tries, passed, lost, requests>>

PromptRefused(p) ==
  /\ pc[p] = "create"
  /\ status[asked[p]] # "none" \/ DbFails
  /\ Goto(p, "done")
  /\ Reply(p, "error")
  /\ UNCHANGED <<current, shouldStop, waits, asked, crashes, job, tries, table>>

\* A task added through the task routes.
TaskAdded(t, p) ==
  /\ IsNextId(t)
  /\ status' = [status EXCEPT ![t] = "pending"]
  /\ prio' = [prio EXCEPT ![t] = p]
  /\ UNCHANGED <<pc, job, tries, passed, lost, requests>>

-----------------------------------------------------------------------------
(* A cycle *)

\* fetchNextTask: the filter is applied to the first row only.
FetchOne(a, t) ==
  /\ pc[a] = "fetch"
  /\ IsFirst(t)
  /\ prio[t] \in Filter[a]
  /\ job' = [job EXCEPT ![a] = t]
  /\ tries' = [tries EXCEPT ![a] = 0]
  /\ Goto(a, "mark")
  /\ UNCHANGED <<requests, table>>

FetchNone(a) ==
  /\ pc[a] = "fetch"
  /\ DbFails \/ \A t \in Tasks : IsFirst(t) => prio[t] \notin Filter[a]
  /\ Goto(a, IF a \in Loops THEN "sleep" ELSE "done")
  /\ Reply(a, "success")
  /\ UNCHANGED <<current, shouldStop, waits, asked, crashes, job, tries, table>>

\* sleep(pollInterval), then the condition of the loop.
WakeUp(a) ==
  /\ pc[a] = "sleep"
  /\ Goto(a, AfterCycle(a))
  /\ UNCHANGED <<job, tries, requests, table>>

\* Mutant: the attempts are not counted.
NextAttemptUncounted(a) ==
  IF MaxTaskRetries > 0
  THEN Goto(a, "claude") /\ UNCHANGED tries
  ELSE Goto(a, "fail") /\ UNCHANGED tries

\* Mutant: one attempt too many.
NextAttemptOnceMore(a) ==
  IF tries[a] <= MaxTaskRetries
  THEN Goto(a, "claude") /\ tries' = [tries EXCEPT ![a] = @ + 1]
  ELSE Goto(a, "fail") /\ UNCHANGED tries

\* Mutant: a task whose attempts are used up counts as done.
NextAttemptOrDone(a) ==
  IF tries[a] < MaxTaskRetries
  THEN Goto(a, "claude") /\ tries' = [tries EXCEPT ![a] = @ + 1]
  ELSE Goto(a, "complete") /\ UNCHANGED tries

\* while (attempts < this.maxTaskRetries): attempts++ and spawn, or give up.
NextAttempt(a) ==
  IF tries[a] < MaxTaskRetries
  THEN Goto(a, "claude") /\ tries' = [tries EXCEPT ![a] = @ + 1]
  ELSE Goto(a, "fail") /\ UNCHANGED tries

\* updateTaskStatus(IN_PROGRESS): a failed write does not stop the attempt.
Mark(a) ==
  /\ pc[a] = "mark"
  /\ Written(job[a], "in_progress") \/ NotWritten(job[a])
  /\ NextAttempt(a)
  /\ UNCHANGED <<job, prio, passed, requests>>

AttemptSucceeded(a) ==
  /\ Goto(a, "complete")
  /\ passed' = passed \cup {job[a]}

\* The wait before a retry, of no length after the last attempt.
AttemptFailed(a) ==
  /\ Goto(a, "backoff")
  /\ UNCHANGED passed

\* spawn() resolves or throws.  With validation on, the exit code is not
\* looked at; without it, it decides.
ClaudeEnds(a) ==
  /\ pc[a] = "claude"
  /\ \/ Validates[a] /\ Goto(a, "validate") /\ UNCHANGED passed
     \/ ~Validates[a] /\ AttemptSucceeded(a)
     \/ AttemptFailed(a)
  /\ UNCHANGED <<job, tries, status, prio, lost, requests>>

\* The race of the validation with its timeout, which counts as a failure.
ValidationEnds(a) ==
  /\ pc[a] = "validate"
  /\ AttemptSucceeded(a) \/ AttemptFailed(a)
  /\ UNCHANGED <<job, tries, status, prio, lost, requests>>

BackoffEnds(a) ==
  /\ pc[a] = "backoff"
  /\ NextAttempt(a)
  /\ UNCHANGED <<job, requests, table>>

CompleteTask(a) ==
  /\ pc[a] = "complete"
  /\ Written(job[a], "completed") \/ NotWritten(job[a])
  /\ Goto(a, AfterCycle(a))
  /\ Reply(a, "success")
  /\ UNCHANGED <<current, shouldStop, waits, asked, crashes, job, tries, prio,
                 passed>>

\* Mutant: the failure is reported and the row left as it is.
FailTaskOnlyReports(a) ==
  /\ pc[a] = "fail"
  /\ Goto(a, AfterCycle(a))
  /\ Reply(a, "failure")
  /\ UNCHANGED <<current, shouldStop, waits, asked, crashes, job, tries, table>>

\* "Reset to pending so it can be retried later"
FailTask(a) ==
  /\ pc[a] = "fail"
  /\ Written(job[a], "pending") \/ NotWritten(job[a])
  /\ Goto(a, AfterCycle(a))
  /\ Reply(a, "failure")
  /\ UNCHANGED <<current, shouldStop, waits, asked, crashes, job, tries, prio,
                 passed>>

\* cleanup() of a loop that left its while.
CleanedUp(l) ==
  /\ pc[l] = "cleanup"
  /\ Goto(l, "done")
  /\ UNCHANGED <<job, tries, requests, table>>

\* The server dies and is started again: only the table survives, and
\* nothing looks at the tasks in progress.
Crash ==
  /\ crashes < MaxCrashes
  /\ crashes' = crashes + 1
  /\ current' = NoLoop
  /\ waits' = [s \in Stops |-> NoLoop]
  /\ pc' = [a \in Actors |-> IF pc[a] = "idle" THEN "idle" ELSE "done"]
  /\ lost' = lost \cup {t \in Tasks : status[t] = "in_progress"}
  /\ UNCHANGED <<shouldStop, job, tries, status, prio, asked, answer, passed>>

-----------------------------------------------------------------------------
(* The steps of an actor that do not wait for Claude *)
Step(a) ==
  \/ \E t \in Tasks : FetchOne(a, t)
  \/ FetchNone(a)
  \/ WakeUp(a)
  \/ Mark(a)
  \/ ValidationEnds(a)
  \/ BackoffEnds(a)
  \/ CompleteTask(a)
  \/ FailTask(a)

Next ==
  \/ \E l \in Loops : Start(l) \/ CleanedUp(l)
  \/ \E s \in Stops : StopRequest(s) \/ StopAnswered(s)
  \/ StopEnded
  \/ \E c \in Cycles : CycleRequest(c)
  \/ \E p \in Prompts :
       PromptRequest(p) \/ PromptCreates(p) \/ PromptRefused(p)
  \/ \E t \in Tasks, p \in Offered : TaskAdded(t, p)
  \/ \E a \in Actors : Step(a) \/ ClaudeEnds(a)
  \/ Crash

Spec == Init /\ [][Next]_vars

\* Queries, timers and the validation (which races with a timeout) end.
\* Nothing bounds a Claude process, and no user has to send a request.
Fairness ==
  /\ \A a \in Actors : WF_vars(Step(a))
  /\ \A l \in Loops : WF_vars(CleanedUp(l))
  /\ \A s \in Stops : WF_vars(StopAnswered(s))

FairSpec == Spec /\ Fairness

-----------------------------------------------------------------------------
(* Properties *)

PassedBeforeCompletion ==
  \A a \in Actors : pc[a] = "complete" => job[a] \in passed

HoldersHoldTasks ==
  /\ \A a \in Actors :
       pc[a] \in AtWork \cup {"mark"} => job[a] \in Tasks
  /\ \A p \in Prompts : pc[p] = "create" => asked[p] \in Tasks

Working(a, t) == job[a] = t /\ pc[a] \in AtWork

\* A task in progress is being worked on, unless the last write of the actor
\* that had it failed or the server crashed: fetchNextTask never looks at a
\* task in progress, so every other way to leave one behind would lose it.
\* (executeTaskWithRetries, completeTask, failTask)
InProgressIsOwned ==
  \A t \in Tasks :
    status[t] = "in_progress" => t \in lost \/ \E a \in Actors : Working(a, t)

\* A task is completed only after an attempt at it passed its validation, or
\* ended with code 0 when validation is off, in spite of other actors that
\* fetched the same task.  (executeTaskWithRetries, completeTask)
CompletedWasPassed ==
  \A t \in Tasks : status[t] = "completed" => t \in passed

\* The inductive invariant.
IInv ==
  /\ TypeOK
  /\ HoldersHoldTasks
  /\ PassedBeforeCompletion
  /\ InProgressIsOwned
  /\ CompletedWasPassed

Holds(a, t) == job[a] = t /\ pc[a] \in AtWork \cup {"mark"}

\* A completed task can come back only while an actor still holds it, which
\* fetched it before it was completed; after that it stays completed.
\* (fetchNextTask against completeTask and failTask of another actor)
FinishedForGood ==
  [][\A t \in Tasks :
       (status[t] = "completed" /\ \A a \in Actors : ~Holds(a, t))
         => (status'[t] = "completed" /\ \A a \in Actors : ~Holds(a, t)')]_vars

\* A /stop that is never answered waits for a loop whose Claude process
\* never ends; nothing else of a loop can hold it up.  (stop, start)
StopEnds ==
  \A s \in Stops, l \in Loops :
    (<>[](waits[s] = l)) => (<>[](pc[l] = "claude"))

\* A task that stays in progress was left behind, or is in the hands of an
\* actor whose Claude process never ends.  (executeTaskWithRetries)
InProgressSettles ==
  \A t \in Tasks :
    (<>[](status[t] = "in_progress" /\ t \notin lost))
      => (\E a \in Actors : <>[](job[a] = t /\ pc[a] = "claude"))

\* One orchestrator runs in the background: /start answers 'Orchestrator is
\* already running' while there is one.  (POST /start, POST /stop)
AtMostOneRunning ==
  \A l, m \in Loops : IsRunning(l) /\ IsRunning(m) => l = m
=============================================================================
