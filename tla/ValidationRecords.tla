------------------------- MODULE ValidationRecords -------------------------
(***************************************************************************)
(* What is kept of validation runs: the configurations of the stages, the  *)
(* run rows and, for each, its stage rows.  A stage row refers to its      *)
(* configuration, which cannot be deleted as long as it does.              *)
(*                                                                         *)
(* src/scripts/validate-task.ts saves its own results row by row and asks  *)
(* the table of tasks whose they are; POST / of                            *)
(* src/src/routes/validation-runs.ts saves given results in a transaction. *)
(***************************************************************************)
EXTENDS Naturals, Sequences

CONSTANTS
  StageIds,
  Scripts,    \* runs of validate-task.ts
  RunTasks    \* the tasks they may be made for

CONSTANT NoTask

Api == "api"              \* the run row of a POST
Runs == Scripts \cup {Api}

ASSUME RecordsAssumption ==
  /\ NoTask \notin RunTasks
  /\ Api \notin Scripts

VARIABLES
  config,      \* validation_stage_configs: which are there, and enabled
  newest,      \* the tasks in progress, the last updated one first
  script,      \* how far each script has come
  posted,      \* the stages of the run row made by a POST, if there is one
  rows,        \* the stage rows of each run
  safe,        \* history: all stages the script loaded had rows, and some are left
  overtaken,   \* history: scripts whose task was not, all along, the last updated
  unanswered   \* history: scripts whose query for the task failed

historyVars == <<safe, overtaken, unanswered>>
recordsVars == <<config, newest, script, posted, rows, historyVars>>

Config == {"none", "off", "on"}

ScriptState ==
  [at : {"new", "running", "found", "saving", "done", "broken", "killed"},
   own : RunTasks \cup {NoTask},     \* the task the script is run for
   task : RunTasks \cup {NoTask},    \* the task of the row
   stages : SUBSET StageIds]

NewScript == [at |-> "new", own |-> NoTask, task |-> NoTask, stages |-> {}]

RecordsTypeOK ==
  /\ config \in [StageIds -> Config]
  /\ newest \in Seq(RunTasks)
  /\ script \in [Scripts -> ScriptState]
  /\ posted \subseteq StageIds
  /\ rows \in [Runs -> SUBSET StageIds]
  /\ safe \subseteq Scripts
  /\ overtaken \subseteq Scripts
  /\ unanswered \subseteq Scripts

RecordsInit ==
  /\ config = [s \in StageIds |-> "none"]
  /\ newest = <<>>
  /\ script = [r \in Scripts |-> NewScript]
  /\ posted = {}
  /\ rows = [r \in Runs |-> {}]
  /\ safe = {}
  /\ overtaken = {}
  /\ unanswered = {}

Recorded(s) == \E r \in Runs : s \in rows[r]

\* A configuration is created, edited, switched on or off; the routes of
\* src/src/routes/validation-stage-configs.ts check that it is there, or not
\* there, and the database does so again.
WriteConfig(s, state) ==
  /\ state # "none"
  /\ config' = [config EXCEPT ![s] = state]
  /\ UNCHANGED <<newest, script, posted, rows, historyVars>>

\* Mutant: the stage rows go with their configuration.
DeleteWithRows(s) ==
  /\ config[s] # "none"
  /\ config' = [config EXCEPT ![s] = "none"]
  /\ rows' = [r \in Runs |-> rows[r] \ {s}]
  /\ UNCHANGED <<newest, script, posted, historyVars>>

\* DELETE /:stageId, refused with 500 as long as stage rows refer to it.
DeleteConfig(s) ==
  /\ config[s] # "none"
  /\ ~Recorded(s)
  /\ config' = [config EXCEPT ![s] = "none"]
  /\ UNCHANGED <<newest, script, posted, rows, historyVars>>

InProgress == {newest[i] : i \in 1 .. Len(newest)}

\* The tasks in progress, without one; the others keep their order.
Without(t) ==
  IF t \notin InProgress THEN newest
  ELSE LET i == CHOOSE j \in 1 .. Len(newest) : newest[j] = t
       IN SubSeq(newest, 1, i - 1) \o SubSeq(newest, i + 1, Len(newest))

\* A task is taken into progress or updated while it is, or is not any more.
TouchTask(t) ==
  /\ newest' = <<t>> \o Without(t)
  /\ overtaken' = overtaken \cup {r \in Scripts : script[r].own # t}
  /\ UNCHANGED <<config, script, posted, rows, safe, unanswered>>

LeaveTask(t) ==
  /\ t \in InProgress
  /\ newest' = Without(t)
  /\ overtaken' = overtaken \cup {r \in Scripts : script[r].own = t}
  /\ UNCHANGED <<config, script, posted, rows, safe, unanswered>>

Enabled == {s \in StageIds : config[s] = "on"}

\* loadValidationStages: without an enabled stage in the database, those that
\* the settings file has, whether or not they have a configuration.  A script
\* is run for one of the tasks in progress, or for none.
LoadStages(r, own, file) ==
  /\ script[r].at = "new"
  /\ own \in InProgress \cup {NoTask}
  /\ LET stages == IF Enabled # {} THEN Enabled ELSE file
         latest == IF newest = <<>> THEN NoTask ELSE Head(newest)
     IN /\ script' = [script EXCEPT ![r] =
             [at |-> "running", own |-> own, task |-> NoTask, stages |-> stages]]
        /\ overtaken' = IF own = latest THEN overtaken \ {r} ELSE overtaken \cup {r}
        /\ safe' = IF \A s \in stages : Recorded(s) THEN safe \cup {r} ELSE safe
  /\ UNCHANGED <<config, newest, posted, rows, unanswered>>

\* Mutant: the task that was updated longest ago.
OldestTask == IF newest = <<>> THEN NoTask ELSE newest[Len(newest)]

\* findCurrentTask
CurrentTask == IF newest = <<>> THEN NoTask ELSE newest[1]

\* saveMetrics, after the stages have run.
FindTask(r) ==
  /\ script[r].at = "running"
  /\ script' = [script EXCEPT ![r].at = "found", ![r].task = CurrentTask]
  /\ UNCHANGED <<config, newest, posted, rows, historyVars>>

\* The query fails: findCurrentTask catches that and answers that there is none.
FindFails(r) ==
  /\ script[r].at = "running"
  /\ script' = [script EXCEPT ![r].at = "found", ![r].task = NoTask]
  /\ unanswered' = unanswered \cup {r}
  /\ UNCHANGED <<config, newest, posted, rows, safe, overtaken>>

\* saveToDatabase creates the run row,
CreateRun(r) ==
  /\ script[r].at = "found"
  /\ script' = [script EXCEPT ![r].at = "saving"]
  /\ UNCHANGED <<config, newest, posted, rows, historyVars>>

\* and createStageRecords a row for each stage, one at a time;
CreateStage(r, s) ==
  /\ script[r].at = "saving"
  /\ s \in script[r].stages \ rows[r]
  /\ config[s] # "none"
  /\ rows' = [rows EXCEPT ![r] = @ \cup {s}]
  /\ UNCHANGED <<config, newest, script, posted, historyVars>>

\* the first stage without a configuration breaks it off.
BreakOff(r) ==
  /\ script[r].at = "saving"
  /\ \E s \in script[r].stages \ rows[r] : config[s] = "none"
  /\ script' = [script EXCEPT ![r].at = "broken"]
  /\ UNCHANGED <<config, newest, posted, rows, historyVars>>

EndSave(r) ==
  /\ script[r].at = "saving"
  /\ script[r].stages = rows[r]
  /\ script' = [script EXCEPT ![r].at = "done"]
  /\ UNCHANGED <<config, newest, posted, rows, historyVars>>

\* The script is killed, or the database fails it.
KillScript(r) ==
  /\ script[r].at \notin {"done", "broken", "killed"}
  /\ script' = [script EXCEPT ![r].at = "killed"]
  /\ UNCHANGED <<config, newest, posted, rows, historyVars>>

\* POST /: the run row and all stage rows, or nothing and 500.
PostRun(stages) ==
  /\ posted = {}
  /\ \A s \in stages : config[s] # "none"
  /\ posted' = stages
  /\ rows' = [rows EXCEPT ![Api] = stages]
  /\ UNCHANGED <<config, newest, script, historyVars>>

\* clear-workers.ts deletes the stage rows and the run rows; a script between
\* two stage rows fails over the next one, which has no run any more.
ClearRuns ==
  /\ rows' = [r \in Runs |-> {}]
  /\ posted' = {}
  /\ script' = [r \in Scripts |->
                  IF script[r].at \in {"saving", "done", "broken", "killed"}
                  THEN [NewScript EXCEPT !.at = "killed"] ELSE script[r]]
  /\ safe' = {}
  /\ UNCHANGED <<config, newest, overtaken, unanswered>>

RecordsNext ==
  \/ \E s \in StageIds :
       \/ \E state \in Config : WriteConfig(s, state)
       \/ DeleteConfig(s)
  \/ \E t \in RunTasks : TouchTask(t) \/ LeaveTask(t)
  \/ \E r \in Scripts :
       \/ \E own \in RunTasks \cup {NoTask}, file \in SUBSET StageIds :
            LoadStages(r, own, file)
       \/ FindTask(r) \/ FindFails(r) \/ CreateRun(r) \/ BreakOff(r) \/ EndSave(r) \/ KillScript(r)
       \/ \E s \in StageIds : CreateStage(r, s)
  \/ \E stages \in SUBSET StageIds : PostRun(stages)
  \/ ClearRuns

RecordsSpec == RecordsInit /\ [][RecordsNext]_recordsVars

--------------------------------------------------------------------------
(* Properties *)

\* A run that is kept has a row for each of its stages: one given to the API
\* always, one of a script unless it was killed or broke off, and it never
\* breaks off over stages that all have been recorded before, as long as those
\* records are kept.  Rows and configurations agree all along.
RecordsAreWhole ==
  /\ rows[Api] = posted
  /\ \A r \in Scripts :
       /\ script[r].at = "done" => rows[r] = script[r].stages
       /\ script[r].at = "broken" => r \notin safe
  /\ \A s \in StageIds : Recorded(s) => config[s] # "none"

\* A run is attributed to the task it was made for, unless another task was
\* updated after it, as that of a second worker may be, or it left progress; to
\* none if the query for it failed, and never to another task on that account.
\* A run for no task is attributed to none if no task was in progress.
AttributedToOwn ==
  \A r \in Scripts :
    script[r].at \in {"found", "saving", "done", "broken"} /\ r \notin overtaken
      => script[r].task = IF r \in unanswered THEN NoTask ELSE script[r].own

--------------------------------------------------------------------------
(* The invariant behind them *)

\* The stages of a script that is safe all have rows, of its own or another run.
SafeStagesAreRecorded ==
  \A r \in safe : script[r].at # "new" /\ \A s \in script[r].stages : Recorded(s)

\* Until a script has looked, the task it would find is its own.
OwnIsCurrent ==
  \A r \in Scripts \ overtaken :
    script[r].at = "running" => script[r].own = CurrentTask

\* A script asks for its task once.
AsksOnce == \A r \in unanswered : script[r].at \notin {"new", "running"}

RecordsInv ==
  /\ RecordsTypeOK
  /\ RecordsAreWhole
  /\ AttributedToOwn
  /\ SafeStagesAreRecorded
  /\ OwnIsCurrent
  /\ AsksOnce
============================================================================
