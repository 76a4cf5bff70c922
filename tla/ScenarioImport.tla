--------------------------- MODULE ScenarioImport ---------------------------
(***************************************************************************)
(* createComprehensiveScenarios of                                         *)
(* src/src/services/bdd-scenario-service.ts: the scenarios of a file are   *)
(* added to a task of their own, each one looked for by its title before   *)
(* it is created, while another request may do the same.                   *)
(***************************************************************************)
EXTENDS Naturals

CONSTANTS
  Importers,  \* requests that may import at a time
  Titles,     \* the scenarios of the file
  MaxRows     \* bound: rows with one title

ASSUME ImportAssumption == MaxRows \in Nat \ {0}

VARIABLES
  masterTask, \* the task comprehensive-bdd exists
  rows,       \* how many scenarios of it have a title
  importer,   \* the titles an import has still to look at, and where it is
  rushed,     \* history: two imports overlapped
  imported    \* history: an import ended well

importVars == <<masterTask, rows, importer, rushed, imported>>

ImportTypeOK ==
  /\ masterTask \in BOOLEAN
  /\ rows \in [Titles -> 0 .. MaxRows]
  /\ importer \in [Importers ->
       [at : {"idle", "master", "look", "create"}, title : Titles \cup {"none"},
        todo : SUBSET Titles]]
  /\ rushed \in BOOLEAN
  /\ imported \in BOOLEAN

ImportInit ==
  /\ masterTask = FALSE
  /\ rows = [t \in Titles |-> 0]
  /\ importer = [i \in Importers |-> [at |-> "idle", title |-> "none", todo |-> {}]]
  /\ rushed = FALSE
  /\ imported = FALSE

\* createComprehensiveScenarios looks for the task of the scenarios ...
Importing == {i \in Importers : importer[i].at # "idle"}

BeginImport(i) ==
  /\ i \notin Importing
  /\ importer' = [importer EXCEPT ![i] =
       [at |-> IF masterTask THEN "look" ELSE "master", title |-> "none",
        todo |-> Titles]]
  /\ rushed' = (rushed \/ Importing # {})
  /\ UNCHANGED <<masterTask, rows, imported>>

ImportFails(i) ==
  /\ i \in Importing
  /\ importer' = [importer EXCEPT ![i] = [at |-> "idle", title |-> "none", todo |-> {}]]
  /\ UNCHANGED <<masterTask, rows, rushed, imported>>

\* ... creates it, which fails if another import just did, ...
CreateMaster(i) ==
  /\ importer[i].at = "master"
  /\ ~masterTask
  /\ masterTask' = TRUE
  /\ importer' = [importer EXCEPT ![i].at = "look"]
  /\ UNCHANGED <<rows, rushed, imported>>

\* Mutant: every scenario of the file is created.
LookAway(i, t) ==
  /\ importer[i].at = "look"
  /\ t \in importer[i].todo
  /\ importer' = [importer EXCEPT ![i].todo = @ \ {t}, ![i].at = "create",
                                  ![i].title = t]
  /\ UNCHANGED <<masterTask, rows, rushed, imported>>

\* ... and looks for each title before it creates its row.
Look(i, t) ==
  /\ importer[i].at = "look"
  /\ t \in importer[i].todo
  /\ importer' = IF rows[t] > 0
                 THEN [importer EXCEPT ![i].todo = @ \ {t}]
                 ELSE [importer EXCEPT ![i].todo = @ \ {t}, ![i].at = "create",
                                       ![i].title = t]
  /\ UNCHANGED <<masterTask, rows, rushed, imported>>

CreateRow(i) ==
  /\ importer[i].at = "create"
  /\ rows[importer[i].title] < MaxRows
  /\ rows' = [rows EXCEPT ![importer[i].title] = @ + 1]
  /\ importer' = [importer EXCEPT ![i].at = "look", ![i].title = "none"]
  /\ UNCHANGED <<masterTask, rushed, imported>>

EndImport(i) ==
  /\ importer[i].at = "look"
  /\ importer[i].todo = {}
  /\ importer' = [importer EXCEPT ![i].at = "idle"]
  /\ imported' = TRUE
  /\ UNCHANGED <<masterTask, rows, rushed>>

ImportNext ==
  \E i \in Importers :
    \/ BeginImport(i) \/ ImportFails(i) \/ CreateMaster(i)
    \/ \E t \in Titles : Look(i, t)
    \/ CreateRow(i) \/ EndImport(i)

ImportSpec == ImportInit /\ [][ImportNext]_importVars

--------------------------------------------------------------------------
(* Properties *)

\* After an import that ended well, whichever imports failed before it, every
\* scenario of the file is there, and it is there once unless imports overlapped.
ImportIsRepeatable ==
  /\ imported => \A t \in Titles : rows[t] > 0
  /\ ~rushed => \A t \in Titles : rows[t] <= 1

--------------------------------------------------------------------------
(* The invariant behind it *)

\* What an import is done with has a row, but for the one it is about to create.
DoneHasRows ==
  \A i \in Importing :
    /\ importer[i].at = "master" => importer[i].todo = Titles
    /\ importer[i].at = "create" => importer[i].title \in Titles
    /\ \A t \in Titles \ importer[i].todo :
         rows[t] > 0 \/ (importer[i].at = "create" /\ t = importer[i].title)

\* An import on its own creates no row that is there.
LoneImportIsFirst ==
  ~rushed =>
    /\ \A i, j \in Importing : i = j
    /\ \A i \in Importing :
         importer[i].at = "create" => rows[importer[i].title] = 0

ImportInv ==
  /\ ImportTypeOK
  /\ DoneHasRows
  /\ LoneImportIsFirst
  /\ ImportIsRepeatable
============================================================================
