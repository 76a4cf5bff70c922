--------------------------- MODULE WorkerStatus ---------------------------
(***************************************************************************)
(* What a client that polls GET /api/claude-workers may see of a worker:   *)
(* its status, and whether one of its validation runs has passed.  The     *)
(* abstract specification that WorkerLifecycle implements.                 *)
(*                                                                         *)
(* The promise has three parts: a worker is reported 'completed' only when *)
(* a run of it passed; a run that passed stays on record; and a worker     *)
(* that is reported 'failed' may still turn out 'completed' (a manual stop *)
(* validates what the failed process left), but never goes back to work.   *)
(* A server that exits forgets all its workers.                            *)
(***************************************************************************)
CONSTANT Workers

VARIABLES
  status,     \* worker.status
  validated   \* the workers with a validation run that passed

vars == <<status, validated>>

\* The changes of status a client may observe.
Observable ==
  {<<"none", "starting">>, <<"none", "running">>,
   <<"running", "validating">>, <<"running", "failed">>,
   <<"running", "stopped">>, <<"running", "completed">>,
   <<"validating", "completed">>, <<"validating", "running">>,
   <<"validating", "failed">>, <<"validating", "stopped">>,
   <<"stopped", "validating">>, <<"stopped", "failed">>,
   <<"stopped", "completed">>, <<"stopped", "running">>,
   <<"completed", "validating">>, <<"completed", "failed">>,
   <<"completed", "running">>, <<"failed", "completed">>}

Init ==
  /\ status = [w \in Workers |-> "none"]
  /\ validated = {}

Observe ==
  /\ validated \subseteq validated'
  /\ \A w \in Workers :
       \/ status'[w] = status[w]
       \/ /\ <<status[w], status'[w]>> \in Observable
          /\ status'[w] = "completed" => w \in validated'

Forget ==
  /\ status' = [w \in Workers |-> "none"]
  /\ UNCHANGED validated

Next == Observe \/ Forget

Spec == Init /\ [][Next]_vars
==========================================================================
