------------------------- MODULE MCTaskOrchestrator -------------------------
(***************************************************************************)
(* Instances of TaskOrchestrator for TLC.                                  *)
(***************************************************************************)
EXTENDS TaskOrchestrator, TLC

CONSTANTS l1, l2, l3, c1, p1, s1

\* No taskFilter.
Unfiltered == [a \in Actors |-> Priority]

\* Only the single cycles go without validation.
LoopsValidate == [a \in Actors |-> a \notin Cycles]

Interchangeable == Permutations(Loops)
=============================================================================
