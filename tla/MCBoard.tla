------------------------------ MODULE MCBoard ------------------------------
(***************************************************************************)
(* Instances of the task orchestrator, its event stream, the task routes,  *)
(* the scenario service and the backups of the database for TLC.  They     *)
(* meet only in rows of the database that each of the models writes for    *)
(* the others, so one run explores them side by side: a behaviour is one   *)
(* of a single component.                                                  *)
(***************************************************************************)
EXTENDS MCTaskOrchestrator, TaskBoard, TaskIds, ScenarioRecords,
        ScenarioImport, StreamManager, MCBackup

CONSTANTS t1, x1, x2, q1, a1, a2

VARIABLE focus   \* the component

\* Every scenario belongs to the same task.
OneStory == [s \in Scenarios |-> CHOOSE t \in TodoTasks : TRUE]

MCInit ==
  /\ focus \in {"orchestrator", "board", "ids", "records", "import", "stream",
              "backup"}
  /\ Init /\ BoardInit /\ IdsInit /\ RecordsInit /\ ImportInit /\ StreamInit
  /\ BackupInit

MCNext ==
  /\ UNCHANGED focus
  /\ \/ /\ focus = "orchestrator" /\ Next
        /\ UNCHANGED <<boardVars, idVars, recordVars, importVars, streamVars, backupVars>>
     \/ /\ focus = "board" /\ BoardNext
        /\ UNCHANGED <<vars, idVars, recordVars, importVars, streamVars, backupVars>>
     \/ /\ focus = "ids" /\ IdsNext
        /\ UNCHANGED <<vars, boardVars, recordVars, importVars, streamVars, backupVars>>
     \/ /\ focus = "records" /\ RecordsNext
        /\ UNCHANGED <<vars, boardVars, idVars, importVars, streamVars, backupVars>>
     \/ /\ focus = "import" /\ ImportNext
        /\ UNCHANGED <<vars, boardVars, idVars, recordVars, streamVars, backupVars>>
     \/ /\ focus = "stream" /\ StreamNext
        /\ UNCHANGED <<vars, boardVars, idVars, recordVars, importVars, backupVars>>
     \/ /\ focus = "backup" /\ BackupNext
        /\ UNCHANGED <<vars, boardVars, idVars, recordVars, importVars, streamVars>>

MCSpec ==
  /\ MCInit
  /\ [][MCNext]_<<focus, vars, boardVars, idVars, recordVars, importVars,
                  streamVars, backupVars>>
  /\ Fairness

\* The types of the components beside the orchestrator.
BoardTypesOK ==
  /\ BoardTypeOK /\ IdsTypeOK /\ RecordsTypeOK /\ ImportTypeOK
  /\ StreamTypeOK /\ BackupTypeOK
============================================================================
