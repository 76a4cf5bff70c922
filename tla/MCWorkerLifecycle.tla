------------------------ MODULE MCWorkerLifecycle ------------------------
(***************************************************************************)
(* Instances of WorkerLifecycle for TLC.  Workers meet only in /stop-all   *)
(* and /clear, which treat each worker by its own state, so every run      *)
(* takes one worker with all its processes, runs and removals; the proofs  *)
(* cover any number of workers.                                            *)
(***************************************************************************)
EXTENDS WorkerLifecycle

CONSTANT w1
==========================================================================
