-------------------------- MODULE ScenarioRecords --------------------------
(***************************************************************************)
(* The executions of a BDD scenario, of                                    *)
(* src/src/services/bdd-scenario-service.ts and src/src/routes/tasks.ts: a *)
(* recording writes a row of the execution history and then the scenario.  *)
(* Scenarios do not meet, so there is one.  Time is the number of          *)
(* timestamps taken.                                                       *)
(***************************************************************************)
EXTENDS Naturals

CONSTANTS
  Recorders,  \* requests that may record an execution at a time
  MaxTimes    \* bound: timestamps taken

ASSUME RecordsAssumption == MaxTimes \in Nat

Outcome == {"pending", "passed", "failed"}

VARIABLES
  time,
  shown,      \* status and executedAt of the scenario
  newest,     \* of the newest row of its execution history
  recorder,   \* what each request has recorded and not yet shown
  apart       \* history: shown was last written by other means, or overtaken

recordVars == <<time, shown, newest, recorder, apart>>

NoRecord == [by |-> "none", status |-> "pending", at |-> 0]

RecordsTypeOK ==
  /\ time \in 0 .. MaxTimes
  /\ shown \in [status : Outcome, at : 0 .. MaxTimes]
  /\ newest \in [status : Outcome, at : 0 .. MaxTimes]
  /\ recorder \in [Recorders -> [by : {"none", "tasks", "service", "edit"},
                                 status : Outcome, at : 0 .. MaxTimes]]
  /\ apart \in BOOLEAN

RecordsInit ==
  /\ time = 0
  /\ shown = [status |-> "pending", at |-> 0]
  /\ newest = [status |-> "pending", at |-> 0]
  /\ recorder = [r \in Recorders |-> NoRecord]
  /\ apart = FALSE

Pass == time < MaxTimes /\ time' = time + 1

Recording == {r \in Recorders : recorder[r].by # "none"}

\* The row of an execution is created, by the route of tasks or by
\* recordExecution of the service.
RecordExecution(r, by, status) ==
  /\ recorder[r] = NoRecord
  /\ Pass
  /\ newest' = [status |-> status, at |-> time']
  /\ recorder' = [recorder EXCEPT ![r] = [by |-> by, status |-> status, at |-> time']]
  /\ apart' = (Recording # {})
  /\ UNCHANGED <<shown>>

\* PUT of a scenario reads it; it stamps executedAt only if it saw "pending".
EditScenario(r, status) ==
  /\ recorder[r] = NoRecord
  /\ IF status # "pending" /\ shown.status = "pending" THEN Pass ELSE time' = time
  /\ recorder' = [recorder EXCEPT ![r] =
       [by |-> "edit", status |-> status, at |-> IF time' = time THEN 0 ELSE time']]
  /\ UNCHANGED <<shown, newest, apart>>

\* Mutant: a scenario that has a result keeps it.
ShowFirst(r) ==
  /\ recorder[r].by \in {"tasks", "service"}
  /\ IF recorder[r].by = "service" THEN Pass ELSE time' = time
  /\ shown' = [status |-> IF shown.status = "pending" THEN recorder[r].status
                          ELSE shown.status,
               at |-> IF recorder[r].by = "service" THEN time' ELSE recorder[r].at]
  /\ recorder' = [recorder EXCEPT ![r] = NoRecord]
  /\ UNCHANGED <<newest, apart>>

\* The scenario is updated with the result; the service takes the time anew.
Show(r) ==
  /\ recorder[r].by \in {"tasks", "service"}
  /\ IF recorder[r].by = "service" THEN Pass ELSE time' = time
  /\ shown' = [status |-> recorder[r].status,
               at |-> IF recorder[r].by = "service" THEN time' ELSE recorder[r].at]
  /\ recorder' = [recorder EXCEPT ![r] = NoRecord]
  /\ UNCHANGED <<newest, apart>>

ShowEdited(r) ==
  /\ recorder[r].by = "edit"
  /\ shown' = [status |-> recorder[r].status,
               at |-> IF recorder[r].at = 0 THEN shown.at ELSE recorder[r].at]
  /\ recorder' = [recorder EXCEPT ![r] = NoRecord]
  /\ apart' = TRUE
  /\ UNCHANGED <<time, newest>>

\* The second write fails; the row of the execution stays.
ShowFails(r) ==
  /\ r \in Recording
  /\ recorder' = [recorder EXCEPT ![r] = NoRecord]
  /\ apart' = (apart \/ recorder[r].by # "edit")
  /\ UNCHANGED <<time, shown, newest>>

\* updateScenarioStatus of the service, without an execution.
SetStatus(status) ==
  /\ Pass
  /\ shown' = [status |-> status, at |-> time']
  /\ apart' = TRUE
  /\ UNCHANGED <<newest, recorder>>

RecordsNext ==
  \/ \E r \in Recorders :
       \/ \E status \in Outcome :
            \/ \E by \in {"tasks", "service"} : RecordExecution(r, by, status)
            \/ EditScenario(r, status)
       \/ Show(r) \/ ShowEdited(r) \/ ShowFails(r)
  \/ \E status \in Outcome : SetStatus(status)

RecordsSpec == RecordsInit /\ [][RecordsNext]_recordVars

--------------------------------------------------------------------------
(* Properties *)

\* When no recording is under way the scenario shows the newest execution and
\* was not shown before it happened, unless recordings overlapped, one broke
\* off between its two writes, or the status was set by hand since.
ResultIsNewest ==
  Recording = {} /\ ~apart =>
    shown.status = newest.status /\ shown.at >= newest.at

--------------------------------------------------------------------------
(* The invariant behind it *)

Executions == {r \in Recorders : recorder[r].by \in {"tasks", "service"}}

\* Unless something came apart, whatever is recorded and not yet shown is the
\* newest execution; without any, the scenario shows it.
NewestIsOnItsWay ==
  ~apart =>
    /\ \A r \in Executions :
         recorder[r].status = newest.status /\ recorder[r].at = newest.at
    /\ Executions = {} => shown.status = newest.status /\ shown.at >= newest.at

RecordsInv == RecordsTypeOK /\ newest.at <= time /\ NewestIsOnItsWay
============================================================================
