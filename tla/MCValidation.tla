--------------------------- MODULE MCValidation ---------------------------
(***************************************************************************)
(* Instances for TLC of the validation pipeline and of what it reads and   *)
(* leaves behind: the stage configurations, the metrics file and the rows  *)
(* of the runs.  The pipeline only waits for the end of its reads and      *)
(* saves, so the parts are explored side by side: a behaviour is one of a  *)
(* single component, with the others at rest in one of their initial       *)
(* states.                                                                 *)
(***************************************************************************)
EXTENDS ValidationPipeline, MetricsFile, ValidationRecords, StageConfigs, TLC

CONSTANTS r1, r2

VARIABLE focus   \* the component

TwoAndOne == r1 :> {{1, 2}} @@ r2 :> {{1}}

JustOne == r1 :> {{1}}

OneCaller == r1 :> "worker"

Callers == r1 :> "wrapper" @@ r2 :> "orchestrator"

MCInit ==
  /\ focus \in {"pipeline", "file", "records", "configs"}
  /\ Init /\ FileInit /\ RecordsInit /\ ConfigInit
  /\ focus # "pipeline" => mode = "server"

MCNext ==
  /\ UNCHANGED focus
  /\ \/ /\ focus = "pipeline" /\ Next
        /\ UNCHANGED <<fileVars, recordsVars, configVars>>
     \/ /\ focus = "file" /\ FileNext
        /\ UNCHANGED <<vars, recordsVars, configVars>>
     \/ /\ focus = "records" /\ RecordsNext
        /\ UNCHANGED <<vars, fileVars, configVars>>
     \/ /\ focus = "configs" /\ ConfigNext
        /\ UNCHANGED <<vars, fileVars, recordsVars>>

MCSpec ==
  /\ MCInit
  /\ [][MCNext]_<<focus, vars, fileVars, recordsVars, configVars>>
  /\ Fairness

KilledSpec == MCSpec /\ KillFairness

MCTypeOK ==
  TypeOK /\ FileTypeOK /\ RecordsTypeOK /\ ConfigTypeOK
===========================================================================
