------------------------------ MODULE TaskIds ------------------------------
(***************************************************************************)
(* generateNextTaskId of src/src/routes/tasks.ts and its copy in           *)
(* src/src/routes/orchestrator.ts: the id of a new task is one more than   *)
(* the number in the last id in the order of the text, read in one query   *)
(* and used in the next.  An id is its number, padded to a fixed number of *)
(* digits.                                                                 *)
(***************************************************************************)
EXTENDS Naturals, FiniteSets

CONSTANTS
  Creators,  \* requests that create a task, one after the other
  Radix,     \* of the numbers: 10
  Edge,      \* the last number that fits the padding: 999
  MaxId      \* bound: the last number a task is given

ASSUME TaskIdsAssumption == /\ Radix \in Nat \ {0, 1}
                            /\ Edge \in Nat \ {0}
                            /\ MaxId \in Edge + 1 .. Radix * (Edge + 1) - 1

VARIABLES
  ids,       \* the numbers of the tasks in the table
  chosen,    \* the number a request is about to use; 0: none
  refused,   \* the requests whose last creation failed on its id
  crowded    \* history: requests that chose or inserted beside another one

idVars == <<ids, chosen, refused, crowded>>

IdsTypeOK ==
  /\ ids \subseteq 1 .. MaxId
  /\ chosen \in [Creators -> 0 .. MaxId]
  /\ refused \subseteq Creators
  /\ crowded \subseteq Creators

IdsInit ==
  /\ ids = {}
  /\ chosen = [c \in Creators |-> 0]
  /\ refused = {}
  /\ crowded = {}

\* The order of the texts: a number with one more digit is compared without its
\* last one first.
Digits(n) == IF n <= Edge THEN Radix * n ELSE n
TextBefore(m, n) ==
  Digits(m) < Digits(n) \/ (Digits(m) = Digits(n) /\ m < n)

Choosing == {c \in Creators : chosen[c] # 0}

\* Mutant: the tasks are counted.
NextAfterCount(n) == n = Cardinality(ids) + 1

\* generateNextTaskId
IsNextTaskId(n) ==
  IF ids = {} THEN n = 1
  ELSE \E last \in ids : /\ \A m \in ids \ {last} : TextBefore(m, last)
                         /\ n = last + 1

ChooseId(c, n) ==
  /\ chosen[c] = 0
  /\ IsNextTaskId(n)
  /\ chosen' = [chosen EXCEPT ![c] = n]
  /\ refused' = refused \ {c}
  /\ crowded' = IF Choosing = {} THEN crowded \ {c}
                ELSE crowded \cup Choosing \cup {c}
  /\ UNCHANGED ids

\* create() inserts the row or fails on the primary key.
InsertTask(c) ==
  /\ chosen[c] # 0
  /\ IF chosen[c] \in ids THEN refused' = refused \cup {c} /\ UNCHANGED ids
     ELSE ids' = ids \cup {chosen[c]} /\ UNCHANGED refused
  /\ chosen' = [chosen EXCEPT ![c] = 0]
  /\ UNCHANGED crowded

RemoveTask(n) ==
  /\ n \in ids
  /\ ids' = ids \ {n}
  /\ UNCHANGED <<chosen, refused, crowded>>

IdsNext ==
  \/ \E c \in Creators : \/ \E n \in 1 .. MaxId : ChooseId(c, n)
                         \/ InsertTask(c)
  \/ \E n \in ids : RemoveTask(n)

IdsSpec == IdsInit /\ [][IdsNext]_idVars

--------------------------------------------------------------------------
(* Properties *)

\* A creation fails on its id only beside another creation or beyond the edge of
\* the padding, where the number after Edge is chosen again and again.
CreationSucceeds ==
  [][\A c \in Creators :
       c \in refused' \ refused => \/ c \in crowded
                                   \/ chosen[c] = Edge + 1]_idVars

--------------------------------------------------------------------------
(* The invariant behind it *)

\* A request that chooses beside no other one has a number of its own, except
\* at the edge of the padding.
LoneChoiceIsFree ==
  \A c \in Choosing \ crowded :
    Choosing = {c} /\ (chosen[c] \in ids => chosen[c] = Edge + 1)

IdsInv == IdsTypeOK /\ LoneChoiceIsFree
============================================================================
