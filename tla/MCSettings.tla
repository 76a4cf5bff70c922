----------------------------- MODULE MCSettings -----------------------------
(***************************************************************************)
(* The instance for TLC of what is checked without fairness and with no    *)
(* Git: the orchestrators on the table of tasks, and beside them, as they  *)
(* share no state, the settings file.  A behaviour is one of a single      *)
(* component.                                                              *)
(***************************************************************************)
EXTENDS MCTaskOrchestrator, SettingsFile

VARIABLE focus   \* the component

\* The defaults have stages, and nothing else that can be listed.
ShippedStages == [s \in Sections |-> IF s = StageSection THEN Entries ELSE {}]

MCInit ==
  /\ focus \in {"orchestrator", "settings"}
  /\ Init /\ SettingsInit
  /\ focus = "orchestrator" => settingsFile = Absent

MCNext ==
  /\ UNCHANGED focus
  /\ \/ focus = "orchestrator" /\ Next /\ UNCHANGED settingsVars
     \/ focus = "settings" /\ SettingsNext /\ UNCHANGED vars

MCSpec == MCInit /\ [][MCNext]_<<focus, vars, settingsVars>>
=============================================================================
