----------------------------- MODULE TaskBoard -----------------------------
(***************************************************************************)
(* The task routes of src/src/routes/tasks.ts: creation, update and        *)
(* deletion of tasks and of their BDD scenarios, beside the writes that    *)
(* workers and orchestrators make to the same rows.  PUT /:id reads the    *)
(* task, for the completion of a story its scenarios, and then writes; the *)
(* requests of other clients come in between.                              *)
(*                                                                         *)
(* Time is the number of timestamps taken so far.                          *)
(***************************************************************************)
EXTENDS Naturals

CONSTANTS
  TodoTasks,  \* ids; the id of a deleted task may be given again
  Scenarios,
  storyOf,    \* the task of each scenario
  Puts,       \* PUT /:id requests that may be under way at a time
  MaxStamps   \* bound: timestamps taken

ASSUME BoardAssumption == /\ storyOf \in [Scenarios -> TodoTasks]
                          /\ MaxStamps \in Nat

VARIABLES
  clock,     \* timestamps taken
  task,      \* the rows of the table of tasks
  scenario,  \* the rows of the table of scenarios
  put,       \* how far each PUT request has come
  fresh,     \* history: the requests whose task did not change since they read it
  ungated,   \* history: tasks completed, or left so, in a way that passes no gate
  untimed    \* history: tasks completed without an end time of their own

boardVars == <<clock, task, scenario, put, fresh, ungated, untimed>>

BoardStatus == {"pending", "in_progress", "completed"}
TaskType == {"story", "task"}
Never == 0   \* a time that is not set
Keep == "keep"
NoId == "none"

Row == [status : BoardStatus \cup {"none"}, type : TaskType,
        start : Nat, end : Nat]

\* A scenario is ready when it has passed and is linked to its test.
ScenarioState == {"none", "open", "ready"}

\* What update() is given: Keep and Never leave a column alone.
Change == [status : BoardStatus \cup {Keep}, type : TaskType \cup {Keep},
           start : Nat, end : Nat]

NoRow == [status |-> "none", type |-> "task", start |-> Never, end |-> Never]
NoChange == [status |-> Keep, type |-> Keep, start |-> Never, end |-> Never]

Request == [at : {"idle", "gate", "write"}, id : TodoTasks \cup {NoId},
            seen : Row, change : Change]

Idle == [at |-> "idle", id |-> NoId, seen |-> NoRow, change |-> NoChange]

BoardTypeOK ==
  /\ clock \in Nat
  /\ task \in [TodoTasks -> Row]
  /\ scenario \in [Scenarios -> ScenarioState]
  /\ put \in [Puts -> Request]
  /\ \A q \in Puts : put[q].at # "idle" => put[q].id \in TodoTasks
  /\ fresh \subseteq Puts
  /\ ungated \subseteq TodoTasks
  /\ untimed \subseteq TodoTasks

BoardInit ==
  /\ clock = 0
  /\ task = [t \in TodoTasks |-> NoRow]
  /\ scenario = [s \in Scenarios |-> "none"]
  /\ put = [q \in Puts |-> Idle]
  /\ fresh = {}
  /\ ungated = {}
  /\ untimed = {}

Exists(t) == task[t].status # "none"
ScenariosOf(t) == {s \in Scenarios : storyOf[s] = t /\ scenario[s] # "none"}

\* The requests that are not about t.
NotOn(t) == {q \in Puts : put[q].id # t}

\* A timestamp is taken, if one is needed.
Stamp(needed) ==
  IF needed THEN clock < MaxStamps /\ clock' = clock + 1 ELSE clock' = clock

\* POST /: a task created in progress or completed has its times from then on.
CreateTask(t, status, type) ==
  /\ ~Exists(t)
  /\ Stamp(status # "pending")
  /\ task' = [task EXCEPT ![t] =
       [status |-> status, type |-> type,
        start |-> IF status = "pending" THEN Never ELSE clock',
        end |-> IF status = "completed" THEN clock' ELSE Never]]
  /\ fresh' = fresh \cap NotOn(t)
  /\ ungated' = IF status = "completed" THEN ungated \cup {t} ELSE ungated \ {t}
  /\ untimed' = untimed \ {t}
  /\ UNCHANGED <<scenario, put>>

\* DELETE /:id; the database deletes the scenarios with their task.
DeleteTask(t) ==
  /\ Exists(t)
  /\ task' = [task EXCEPT ![t] = NoRow]
  /\ scenario' = [s \in Scenarios |->
                    IF storyOf[s] = t THEN "none" ELSE scenario[s]]
  /\ fresh' = fresh \cap NotOn(t)
  /\ UNCHANGED <<clock, put, ungated, untimed>>

\* A change of status that a PUT may write, from that of the task it read.
Restarts(seen, status) == status = "in_progress" /\ seen.status = "pending"
Finishes(seen, status) == status = "completed" /\ seen.status = "in_progress"
SkipsWork(seen, status) ==
  status = "completed" /\ seen.status = "pending" /\ seen.start = Never

\* Mutant: whatever is completed for the first time gets its end, and keeps it.
TimedOnce(seen, status, now) ==
  [start |-> IF Restarts(seen, status) \/ SkipsWork(seen, status)
             THEN now ELSE Never,
   end |-> IF status = "completed" /\ seen.end = Never THEN now ELSE Never]

\* The completion that gives a task its end.
Ends(seen, status) == Finishes(seen, status) \/ SkipsWork(seen, status)

\* The times that go with it.  A task that was started and taken back is
\* completed without a new end.
Timed(seen, status, now) ==
  [start |-> IF Restarts(seen, status) \/ SkipsWork(seen, status)
             THEN now ELSE Never,
   end |-> IF Ends(seen, status) THEN now ELSE Never]

IsTimed(seen, status) == Restarts(seen, status) \/ Ends(seen, status)

\* The columns a PUT writes; a status that is not new is left alone.
IsNew(seen, status) == status \notin {Keep, seen.status}

ChangeOf(seen, status, type, now) ==
  IF IsNew(seen, status)
  THEN [status |-> status, type |-> type,
        start |-> Timed(seen, status, now).start,
        end |-> Timed(seen, status, now).end]
  ELSE [NoChange EXCEPT !.type = type]

\* PUT /:id reads the task: 404 if there is none.  The completion of a story
\* has to pass the gate first.
IsGated(seen, status) == IsNew(seen, status) /\ status = "completed"
                                             /\ seen.type = "story"

PutRead(q, t, status, type) ==
  /\ put[q].at = "idle"
  /\ Exists(t)
  /\ ~IsGated(task[t], status)
  /\ Stamp(IsTimed(task[t], status))
  /\ put' = [put EXCEPT ![q] =
       [at |-> "write", id |-> t, seen |-> NoRow,
        change |-> ChangeOf(task[t], status, type, clock')]]
  /\ fresh' = fresh \cup {q}
  /\ UNCHANGED <<task, scenario, ungated, untimed>>

PutReadStory(q, t, type) ==
  /\ put[q].at = "idle"
  /\ Exists(t)
  /\ IsGated(task[t], "completed")
  /\ put' = [put EXCEPT ![q] =
       [at |-> "gate", id |-> t, seen |-> task[t],
        change |-> [NoChange EXCEPT !.type = type]]]
  /\ fresh' = fresh \cup {q}
  /\ UNCHANGED <<clock, task, scenario, ungated, untimed>>

\* A story may be completed if it has scenarios, all linked to a test and passed.
MayComplete(t) ==
  /\ ScenariosOf(t) # {}
  /\ \A s \in ScenariosOf(t) : scenario[s] = "ready"

\* Mutant: a story without scenarios passes.
PutGateOpen(q) ==
  /\ put[q].at = "gate"
  /\ \A s \in ScenariosOf(put[q].id) : scenario[s] = "ready"
  /\ Stamp(IsTimed(put[q].seen, "completed"))
  /\ put' = [put EXCEPT ![q] =
       [at |-> "write", id |-> put[q].id, seen |-> NoRow,
        change |-> ChangeOf(put[q].seen, "completed", put[q].change.type, clock')]]
  /\ UNCHANGED <<task, scenario, fresh, ungated, untimed>>

PutGate(q) ==
  /\ put[q].at = "gate"
  /\ MayComplete(put[q].id)
  /\ Stamp(IsTimed(put[q].seen, "completed"))
  /\ put' = [put EXCEPT ![q] =
       [at |-> "write", id |-> put[q].id, seen |-> NoRow,
        change |-> ChangeOf(put[q].seen, "completed", put[q].change.type, clock')]]
  /\ UNCHANGED <<task, scenario, fresh, ungated, untimed>>

PutRefused(q) ==
  /\ put[q].at = "gate"
  /\ ~MayComplete(put[q].id)
  /\ put' = [put EXCEPT ![q] = Idle]
  /\ fresh' = fresh \ {q}
  /\ UNCHANGED <<clock, task, scenario, ungated, untimed>>

\* Mutant: a column that the request leaves alone is written as well.
UpdatedWithKeep(row, change) ==
  [status |-> IF change.status = Keep THEN row.status ELSE change.status,
   type |-> change.type,
   start |-> IF change.start = Never THEN row.start ELSE change.start,
   end |-> IF change.end = Never THEN row.end ELSE change.end]

\* A row after an update.
Updated(row, change) ==
  [status |-> IF change.status = Keep THEN row.status ELSE change.status,
   type |-> IF change.type = Keep THEN row.type ELSE change.type,
   start |-> IF change.start = Never THEN row.start ELSE change.start,
   end |-> IF change.end = Never THEN row.end ELSE change.end]

\* The update.  The write of a stale request may complete a story that would no
\* longer pass the gate, and a task may become a story once it is completed.
PutWrite(q) ==
  LET t == put[q].id
      change == put[q].change
      completes == change.status = "completed"
  IN /\ put[q].at = "write"
     /\ Exists(t)
     /\ task' = [task EXCEPT ![t] = Updated(task[t], change)]
     /\ ungated' = IF \/ change.type = "story" /\ task'[t].status = "completed"
                      \/ completes /\ q \notin fresh
                   THEN ungated \cup {t}
                   ELSE IF change.status = Keep THEN ungated ELSE ungated \ {t}
     /\ untimed' = IF completes /\ (q \notin fresh \/ ~Ends(task[t], "completed"))
                   THEN untimed \cup {t}
                   ELSE IF completes THEN untimed \ {t} ELSE untimed
     /\ put' = [put EXCEPT ![q] = Idle]
     /\ fresh' = (fresh \cap NotOn(t)) \ {q}
     /\ UNCHANGED <<clock, scenario>>

\* update() throws if the task was deleted: 500.
PutFails(q) ==
  /\ put[q].at = "write"
  /\ ~Exists(put[q].id)
  /\ put' = [put EXCEPT ![q] = Idle]
  /\ fresh' = fresh \ {q}
  /\ UNCHANGED <<clock, task, scenario, ungated, untimed>>

\* A worker or an orchestrator starts or completes the task, or gives it up;
\* none of them looks at scenarios.
OutsideWrite(t, status) ==
  /\ Exists(t)
  /\ Stamp(TRUE)
  /\ task' = [task EXCEPT ![t].status = status,
                          ![t].start = IF status = "in_progress" THEN clock' ELSE @,
                          ![t].end = IF status = "in_progress" THEN @ ELSE clock']
  /\ fresh' = fresh \cap NotOn(t)
  /\ ungated' = IF status = "completed" THEN ungated \cup {t} ELSE ungated \ {t}
  /\ untimed' = untimed \ {t}
  /\ UNCHANGED <<scenario, put>>

\* A scenario is created, updated, executed, linked to its test or deleted, by
\* the routes of tasks or of scenarios; a completed story is not looked at.
ScenarioWrite(s, state) ==
  /\ Exists(storyOf[s])
  /\ scenario[s] # state
  /\ scenario' = [scenario EXCEPT ![s] = state]
  /\ fresh' = fresh \cap NotOn(storyOf[s])
  /\ ungated' = IF task[storyOf[s]].status = "completed"
                THEN ungated \cup {storyOf[s]} ELSE ungated
  /\ UNCHANGED <<clock, task, put, untimed>>

BoardNext ==
  \/ \E t \in TodoTasks :
       \/ \E status \in BoardStatus :
            \/ \E type \in TaskType : CreateTask(t, status, type)
            \/ OutsideWrite(t, status)
       \/ DeleteTask(t)
  \/ \E q \in Puts :
       \/ \E t \in TodoTasks, type \in TaskType \cup {Keep} :
            \/ \E status \in BoardStatus \cup {Keep} : PutRead(q, t, status, type)
            \/ PutReadStory(q, t, type)
       \/ PutGate(q) \/ PutRefused(q) \/ PutWrite(q) \/ PutFails(q)
  \/ \E s \in Scenarios, state \in ScenarioState : ScenarioWrite(s, state)

BoardSpec == BoardInit /\ [][BoardNext]_boardVars

--------------------------------------------------------------------------
(* Properties *)

\* A completed story has scenarios, all linked and passed, unless it came to be
\* completed, or went on being so, past the gate: created so, turned into a
\* story afterwards, completed by a worker or an orchestrator or by a request
\* whose story changed after it was read, or its scenarios changed since.
StoryGateHolds ==
  \A t \in TodoTasks :
    task[t].status = "completed" /\ task[t].type = "story" /\ t \notin ungated
      => MayComplete(t)

\* A completed task did not end before it started, unless a PUT completed it
\* without an end, because it had been started and taken back, or with one that
\* was out of date.
TimesAreOrdered ==
  \A t \in TodoTasks :
    task[t].status = "completed" /\ t \notin untimed
      => task[t].end # Never /\ task[t].start <= task[t].end

\* The inductive invariant. No time is ahead of the clock, in a row or in a
\* request; a request that keeps the status keeps the times;
TimesArePast ==
  /\ \A t \in TodoTasks : task[t].start <= clock /\ task[t].end <= clock
  /\ \A q \in Puts : put[q].change.start <= clock /\ put[q].change.end <= clock

KeepsTimes ==
  \A q \in Puts : put[q].change.status = Keep =>
    put[q].change.start = Never /\ put[q].change.end = Never

\* and what a request decided is right as long as its task has not changed.
CompletesRightly(q) ==
  LET t == put[q].id IN
    /\ task[t].type = "story" => MayComplete(t)
    /\ Ends(task[t], "completed") =>
         /\ put[q].change.end # Never
         /\ put[q].change.start <= put[q].change.end
         /\ put[q].change.start = Never => task[t].start <= put[q].change.end

DecidedRightly(q) ==
  /\ put[q].at # "idle"
  /\ put[q].at = "gate" => put[q].seen = task[put[q].id]
  /\ put[q].at = "write" /\ put[q].change.status = "completed" => CompletesRightly(q)

BoardInv ==
  /\ BoardTypeOK
  /\ TimesArePast
  /\ KeepsTimes
  /\ \A q \in fresh : DecidedRightly(q)
============================================================================
