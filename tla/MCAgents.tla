------------------------------ MODULE MCAgents ------------------------------
(***************************************************************************)
(* Instances of the parts of the system that own processes for TLC: the    *)
(* worker lifecycle, the dev servers of a worker and the Claude            *)
(* supervisor.  They share no state, so one run explores them side by      *)
(* side: a behaviour is one of a single component.                         *)
(***************************************************************************)
EXTENDS MCWorkerLifecycle, DevServers, Supervisor

CONSTANTS d1, d2

VARIABLE focus   \* the component

MCInit ==
  /\ focus \in {"worker", "servers", "supervisor"}
  /\ Init /\ DevInit /\ SupervisorInit

MCNext ==
  /\ UNCHANGED focus
  /\ \/ /\ focus = "worker" /\ Next
        /\ UNCHANGED <<devVars, supervisorVars>>
     \/ /\ focus = "servers" /\ DevNext
        /\ UNCHANGED <<vars, supervisorVars>>
     \/ /\ focus = "supervisor" /\ SupervisorNext
        /\ UNCHANGED <<vars, devVars>>

MCSpec ==
  /\ MCInit
  /\ [][MCNext]_<<focus, vars, devVars, supervisorVars>>
  /\ Fairness
  /\ focus = "supervisor" => SupervisorFairness

MCTypeOK == TypeOK /\ DevTypeOK /\ SupervisorTypeOK
=============================================================================
