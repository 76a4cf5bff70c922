------------------------ MODULE WorktreeMerge_proofs ------------------------
(***************************************************************************)
(* Proofs about WorktreeMerge, for any number of workers, changes and      *)
(* merge requests.  They rest on the proofs about WorkerLifecycle: a step  *)
(* of the composition is a step of the worker table, or leaves it alone    *)
(* but for a directory that is removed.                                    *)
(***************************************************************************)
EXTENDS WorktreeMerge, WorkerLifecycle_proofs

(* The worker table in the composition *)

\* A step of a merge request, of a Claude process, of Git or of a stopping
\* orchestrator changes nothing of the worker table but the directories.
LEMMA OtherSteps ==
  ASSUME SystemNext, ~WorkerStep, ~ServerStep
  PROVE  /\ UNCHANGED <<phase, registered, status, passed, attempts, handle,
                        life, signalled, armed, runs, own, removals>>
         /\ tree' \in SUBSET tree
  BY DEF SystemNext, MergeStep, Edit, ClaudeCommits, ClaudeBranches,
         CleanupWorktrees, MergeByCherryPick, ConflictResolved, MergeRequest,
         GitFails, ReadStatus, Add, Commit, ReadBranch, Checkout, MergeDone,
         MergeFails, MarkTask, Removed, vars

LEMMA WorkerTableStep ==
  ASSUME TypeOK, IInv, [SystemNext]_allVars
  PROVE  TypeOK' /\ IInv'
<1>1. CASE WorkerStep \/ ServerStep
  BY <1>1, TypeStep, InvStep DEF WorkerStep, ServerStep, Next
<1>2. CASE SystemNext /\ ~WorkerStep /\ ~ServerStep
  <2>1. /\ UNCHANGED <<phase, registered, status, passed, attempts, handle,
                       life, signalled, armed, runs, own, removals>>
        /\ tree' \in SUBSET tree
    BY <1>2, OtherSteps
  <2>2. TypeOK'
    BY <2>1 DEF TypeOK
  <2>3. ASSUME NEW v \in Workers
        PROVE  WorkerInv(v)'
    <3>1. WorkerInv(v) /\ (AutoCleanup(v)' => AutoCleanup(v))
      BY <2>1 DEF IInv, AutoCleanup
    <3> QED BY <2>1, <3>1, Untouched
  <2> QED BY <2>2, <2>3 DEF IInv
<1>3. CASE UNCHANGED allVars
  <2>1. UNCHANGED vars
    BY <1>3 DEF allVars
  <2> QED BY <2>1, TypeStep, InvStep
<1> QED BY <1>1, <1>2, <1>3

LEMMA WorkerTable == SystemSpec => [](TypeOK /\ IInv)
<1>1. SystemInit => Init
  BY DEF SystemInit
<1>2. Init => TypeOK /\ IInv
  BY TypeInit, InvInit
<1>3. TypeOK /\ IInv /\ [SystemNext]_allVars => TypeOK' /\ IInv'
  BY WorkerTableStep
<1> QED BY <1>1, <1>2, <1>3, PTL DEF SystemSpec

\* A run that passed stays on record.
LEMMA PassedRunsStay ==
  ASSUME TypeOK, IInv, [SystemNext]_allVars,
         NEW w \in Workers, RunsWith(w, "passed") # {}
  PROVE  RunsWith(w, "passed")' # {}
<1>1. CASE WorkerStep \/ ServerStep \/ UNCHANGED allVars
  <2>1. [Next]_vars
    BY <1>1 DEF WorkerStep, ServerStep, Next, allVars
  <2>2. [Seen!Next]_(Seen!vars)
    BY <2>1, StepRefines
  <2> QED BY <2>2 DEF Seen!Next, Seen!Observe, Seen!Forget, Seen!vars
<1>2. CASE SystemNext /\ ~WorkerStep /\ ~ServerStep
  BY <1>2, OtherSteps DEF RunsWith
<1> QED BY <1>1, <1>2

-----------------------------------------------------------------------------
(* The invariant of the merge requests *)

\* What a merge relies on in the worker table: a directory appears before its
\* worker is registered, and the worker does not go back from there.
LEMMA WorkerFacts ==
  ASSUME TypeOK, Next
  PROVE  /\ \A w \in Workers : phase[w] \notin {"idle", "creating"} =>
                                 phase'[w] \notin {"idle", "creating"}
         /\ \A w \in registered' : w \in registered \/
                                     phase'[w] \notin {"idle", "creating"}
         /\ \A w \in tree' : w \in tree \/ phase[w] = "creating"
         /\ registered' \subseteq Workers /\ tree' \subseteq Workers
<1> USE DEF TypeOK
<1>1. ASSUME NEW w \in Workers, NEW b \in BOOLEAN, StartRequest(w, b)
      PROVE  UNCHANGED <<registered, tree>> /\ phase[w] = "idle" /\
             \A v \in Workers \ {w} : phase'[v] = phase[v]
  BY <1>1 DEF StartRequest
<1>2. ASSUME NEW w \in Workers, StartRefused(w) \/ StartSpawnThrows(w) \/
             StartListen(w) \/ \E o \in {"alive", "spawnError"} : StartSpawn(w, o)
      PROVE  /\ phase'[w] \notin {"idle", "creating"}
             /\ \A v \in Workers \ {w} : phase'[v] = phase[v]
             /\ registered' \subseteq registered \cup {w}
             /\ tree' \subseteq tree \cup {w}
             /\ phase[w] = "creating" \/ tree' = tree
  BY <1>2 DEF StartRefused, StartSpawnThrows, StartListen, StartSpawn
<1>3. ASSUME NEW w \in Workers, NEW n \in Procs,
             \/ \E how \in {"exit0", "exit1"} : ProcessExit(w, n, how)
             \/ SpawnErrorEvent(w, n)
             \/ CloseEvent(w, n)
      PROVE  UNCHANGED <<phase, registered, tree>>
  BY <1>3 DEF ProcessExit, SpawnErrorEvent, CloseEvent, CloseOk, CloseFailed,
              CloseUnheard
<1>4. ASSUME NEW w \in Workers, NEW i \in DOMAIN runs[w], RunEnds(w, i)
      PROVE  UNCHANGED <<phase, registered, tree>>
  BY <1>4 DEF RunEnds, RunPassed, RunFailedRestart, RunFailedFinal,
              RunFailedStopped
<1>5. ASSUME NEW w \in Workers, ResultMessage(w) \/ AutoStop(w) \/ Delete(w)
               \/ CleanupWorktree(w) \/ \E c \in BOOLEAN : Stop(w, c)
      PROVE  UNCHANGED <<phase, registered, tree>>
  BY <1>5 DEF ResultMessage, AutoStop, Delete, CleanupWorktree, Stop
<1>6. ASSUME NEW w \in Workers, NEW a \in Asker,
             RemovalDone(w, a) \/ RemovalFails(w, a)
      PROVE  UNCHANGED phase /\ registered' \subseteq registered
             /\ tree' \subseteq tree
  BY <1>6 DEF RemovalDone, RemovalFails
<1>7. ASSUME StopAll \/ Clear
      PROVE  UNCHANGED <<phase, tree>> /\ registered' \subseteq registered
  BY <1>7 DEF StopAll, Clear
<1>8. ASSUME ServerEnds
      PROVE  /\ \A w \in Workers : phase[w] # "idle" => phase'[w] = "lost"
             /\ registered' = {}
             /\ tree' \subseteq tree \cup {w \in Workers : phase[w] = "creating"}
  BY <1>8 DEF ServerEnds, ShutDown, UnheardError, ServerGone
<1> QED
  BY <1>1, <1>2, <1>3, <1>4, <1>5, <1>6, <1>7, <1>8 DEF Next, Step, Request

LEMMA MergeInvInit == SystemInit => MergeInv
  BY DEF SystemInit, Init, MergeInv, MergeTypeOK, Place, RegisteredStarted,
         MergesStarted, FoundIsThere

\* One lemma per kind of step: it preserves the invariant.

LEMMA EditKeeps ==
  ASSUME MergeInv, NEW w \in Workers, NEW c \in Changes, Edit(w, c)
  PROVE  MergeInv'
<1>1. MergeTypeOK'
  BY DEF MergeInv, MergeTypeOK, Place, gitVars, mergeVars, vars, Edit, Edit
<1>2. RegisteredStarted' /\ MergesStarted'
  BY DEF MergeInv, MergeTypeOK, RegisteredStarted, MergesStarted, gitVars,
     mergeVars, vars, Edit, Edit
<1>3. ASSUME NEW k \in Merges
      PROVE  FoundIsThere(k)'
  BY DEF MergeInv, MergeTypeOK, FoundIsThere, Everything, gitVars,
     mergeVars, vars, Edit, Edit
<1> QED BY <1>1, <1>2, <1>3 DEF MergeInv

LEMMA ClaudeCommitsKeeps ==
  ASSUME MergeInv, NEW w \in Workers, ClaudeCommits(w)
  PROVE  MergeInv'
<1>1. MergeTypeOK'
  BY DEF MergeInv, MergeTypeOK, Place, gitVars, mergeVars, vars,
     ClaudeCommits
<1>2. RegisteredStarted' /\ MergesStarted'
  BY DEF MergeInv, MergeTypeOK, RegisteredStarted, MergesStarted, gitVars,
     mergeVars, vars, ClaudeCommits
<1>3. ASSUME NEW k \in Merges
      PROVE  FoundIsThere(k)'
  BY DEF MergeInv, MergeTypeOK, FoundIsThere, Everything, gitVars,
     mergeVars, vars, ClaudeCommits
<1> QED BY <1>1, <1>2, <1>3 DEF MergeInv

LEMMA ClaudeBranchesKeeps ==
  ASSUME MergeInv, NEW w \in Workers, ClaudeBranches(w)
  PROVE  MergeInv'
<1>1. MergeTypeOK'
  BY DEF MergeInv, MergeTypeOK, Place, gitVars, mergeVars, vars,
     ClaudeBranches
<1>2. RegisteredStarted' /\ MergesStarted'
  BY DEF MergeInv, MergeTypeOK, RegisteredStarted, MergesStarted, gitVars,
     mergeVars, vars, ClaudeBranches
<1>3. ASSUME NEW k \in Merges
      PROVE  FoundIsThere(k)'
  BY DEF MergeInv, MergeTypeOK, FoundIsThere, Everything, gitVars,
     mergeVars, vars, ClaudeBranches
<1> QED BY <1>1, <1>2, <1>3 DEF MergeInv

LEMMA CleanupWorktreesKeeps ==
  ASSUME MergeInv, NEW w \in Workers, CleanupWorktrees(w)
  PROVE  MergeInv'
<1>1. MergeTypeOK'
  BY DEF MergeInv, MergeTypeOK, Place, gitVars, mergeVars, vars,
     CleanupWorktrees, Remaining
<1>2. RegisteredStarted' /\ MergesStarted'
  BY DEF MergeInv, MergeTypeOK, RegisteredStarted, MergesStarted, gitVars,
     mergeVars, vars, CleanupWorktrees, Remaining
<1>3. ASSUME NEW k \in Merges
      PROVE  FoundIsThere(k)'
  BY DEF MergeInv, MergeTypeOK, FoundIsThere, Everything, gitVars,
     mergeVars, vars, CleanupWorktrees, Remaining
<1> QED BY <1>1, <1>2, <1>3 DEF MergeInv

LEMMA MergeByCherryPickKeeps ==
  ASSUME MergeInv, NEW w \in Workers, MergeByCherryPick(w)
  PROVE  MergeInv'
<1>1. MergeTypeOK'
  BY DEF MergeInv, MergeTypeOK, Place, gitVars, mergeVars, vars,
     MergeByCherryPick
<1>2. RegisteredStarted' /\ MergesStarted'
  BY DEF MergeInv, MergeTypeOK, RegisteredStarted, MergesStarted, gitVars,
     mergeVars, vars, MergeByCherryPick
<1>3. ASSUME NEW k \in Merges
      PROVE  FoundIsThere(k)'
  BY DEF MergeInv, MergeTypeOK, FoundIsThere, Everything, gitVars,
     mergeVars, vars, MergeByCherryPick
<1> QED BY <1>1, <1>2, <1>3 DEF MergeInv

LEMMA ConflictResolvedKeeps ==
  ASSUME MergeInv, ConflictResolved
  PROVE  MergeInv'
<1>1. MergeTypeOK'
  BY DEF MergeInv, MergeTypeOK, Place, gitVars, mergeVars, vars,
     ConflictResolved
<1>2. RegisteredStarted' /\ MergesStarted'
  BY DEF MergeInv, MergeTypeOK, RegisteredStarted, MergesStarted, gitVars,
     mergeVars, vars, ConflictResolved
<1>3. ASSUME NEW k \in Merges
      PROVE  FoundIsThere(k)'
  BY DEF MergeInv, MergeTypeOK, FoundIsThere, Everything, gitVars,
     mergeVars, vars, ConflictResolved
<1> QED BY <1>1, <1>2, <1>3 DEF MergeInv

LEMMA MergeRequestKeeps ==
  ASSUME MergeInv, NEW m \in Merges, MergeRequest(m)
  PROVE  MergeInv'
<1>1. MergeTypeOK'
  BY DEF MergeInv, MergeTypeOK, Place, gitVars, mergeVars, vars,
     MergeRequest, At, Goto
<1>2. RegisteredStarted' /\ MergesStarted'
  BY DEF MergeInv, MergeTypeOK, RegisteredStarted, MergesStarted, gitVars,
     mergeVars, vars, MergeRequest, At, Goto
<1>3. ASSUME NEW k \in Merges
      PROVE  FoundIsThere(k)'
  BY DEF MergeInv, MergeTypeOK, FoundIsThere, Everything, gitVars,
     mergeVars, vars, MergeRequest, At, Goto
<1> QED BY <1>1, <1>2, <1>3 DEF MergeInv

LEMMA GitFailsKeeps ==
  ASSUME MergeInv, NEW m \in Merges, GitFails(m)
  PROVE  MergeInv'
<1>1. MergeTypeOK'
  BY DEF MergeInv, MergeTypeOK, Place, gitVars, mergeVars, vars,
     GitFails, At, Goto
<1>2. RegisteredStarted' /\ MergesStarted'
  BY DEF MergeInv, MergeTypeOK, RegisteredStarted, MergesStarted, gitVars,
     mergeVars, vars, GitFails, At, Goto
<1>3. ASSUME NEW k \in Merges
      PROVE  FoundIsThere(k)'
  BY DEF MergeInv, MergeTypeOK, FoundIsThere, Everything, gitVars,
     mergeVars, vars, GitFails, At, Goto
<1> QED BY <1>1, <1>2, <1>3 DEF MergeInv

LEMMA ReadStatusKeeps ==
  ASSUME MergeInv, NEW m \in Merges, ReadStatus(m)
  PROVE  MergeInv'
<1>1. MergeTypeOK'
  BY DEF MergeInv, MergeTypeOK, Place, gitVars, mergeVars, vars, ReadStatus,
     At, Goto
<1>2. RegisteredStarted' /\ MergesStarted'
  BY DEF MergeInv, MergeTypeOK, RegisteredStarted, MergesStarted, gitVars,
     mergeVars, vars, ReadStatus, At, Goto
<1>3. ASSUME NEW k \in Merges
      PROVE  FoundIsThere(k)'
  BY DEF MergeInv, MergeTypeOK, FoundIsThere, Everything, gitVars,
     mergeVars, vars, ReadStatus, At, Goto
<1> QED BY <1>1, <1>2, <1>3 DEF MergeInv

LEMMA AddKeeps ==
  ASSUME MergeInv, NEW m \in Merges, Add(m)
  PROVE  MergeInv'
<1>1. MergeTypeOK'
  BY DEF MergeInv, MergeTypeOK, Place, gitVars, mergeVars, vars, Add, At,
     Goto
<1>2. RegisteredStarted' /\ MergesStarted'
  BY DEF MergeInv, MergeTypeOK, RegisteredStarted, MergesStarted, gitVars,
     mergeVars, vars, Add, At, Goto
<1>3. ASSUME NEW k \in Merges
      PROVE  FoundIsThere(k)'
  BY DEF MergeInv, MergeTypeOK, FoundIsThere, Everything, gitVars,
     mergeVars, vars, Add, At, Goto
<1> QED BY <1>1, <1>2, <1>3 DEF MergeInv

LEMMA CommitKeeps ==
  ASSUME MergeInv, NEW m \in Merges, Commit(m)
  PROVE  MergeInv'
<1>1. MergeTypeOK'
  BY DEF MergeInv, MergeTypeOK, Place, gitVars, mergeVars, vars, Commit, At,
     Goto
<1>2. RegisteredStarted' /\ MergesStarted'
  BY DEF MergeInv, MergeTypeOK, RegisteredStarted, MergesStarted, gitVars,
     mergeVars, vars, Commit, At, Goto
<1>3. ASSUME NEW k \in Merges
      PROVE  FoundIsThere(k)'
  BY DEF MergeInv, MergeTypeOK, FoundIsThere, Everything, gitVars,
     mergeVars, vars, Commit, At, Goto
<1> QED BY <1>1, <1>2, <1>3 DEF MergeInv

LEMMA ReadBranchKeeps ==
  ASSUME MergeInv, NEW m \in Merges, ReadBranch(m)
  PROVE  MergeInv'
<1>1. MergeTypeOK'
  BY DEF MergeInv, MergeTypeOK, Place, gitVars, mergeVars, vars, ReadBranch,
     At, Goto
<1>2. RegisteredStarted' /\ MergesStarted'
  BY DEF MergeInv, MergeTypeOK, RegisteredStarted, MergesStarted, gitVars,
     mergeVars, vars, ReadBranch, At, Goto
<1>3. ASSUME NEW k \in Merges
      PROVE  FoundIsThere(k)'
  BY DEF MergeInv, MergeTypeOK, FoundIsThere, Everything, gitVars,
     mergeVars, vars, ReadBranch, At, Goto
<1> QED BY <1>1, <1>2, <1>3 DEF MergeInv

LEMMA CheckoutKeeps ==
  ASSUME MergeInv, NEW m \in Merges, Checkout(m)
  PROVE  MergeInv'
<1>1. MergeTypeOK'
  BY DEF MergeInv, MergeTypeOK, Place, gitVars, mergeVars, vars, Checkout,
     At, Goto
<1>2. RegisteredStarted' /\ MergesStarted'
  BY DEF MergeInv, MergeTypeOK, RegisteredStarted, MergesStarted, gitVars,
     mergeVars, vars, Checkout, At, Goto
<1>3. ASSUME NEW k \in Merges
      PROVE  FoundIsThere(k)'
  BY DEF MergeInv, MergeTypeOK, FoundIsThere, Everything, gitVars,
     mergeVars, vars, Checkout, At, Goto
<1> QED BY <1>1, <1>2, <1>3 DEF MergeInv

LEMMA MergeDoneKeeps ==
  ASSUME MergeInv, NEW m \in Merges, MergeDone(m)
  PROVE  MergeInv'
<1>1. MergeTypeOK'
  BY DEF MergeInv, MergeTypeOK, Place, gitVars, mergeVars, vars, MergeDone,
     At, Goto
<1>2. RegisteredStarted' /\ MergesStarted'
  BY DEF MergeInv, MergeTypeOK, RegisteredStarted, MergesStarted, gitVars,
     mergeVars, vars, MergeDone, At, Goto
<1>3. ASSUME NEW k \in Merges
      PROVE  FoundIsThere(k)'
  BY DEF MergeInv, MergeTypeOK, FoundIsThere, Everything, gitVars,
     mergeVars, vars, MergeDone, At, Goto
<1> QED BY <1>1, <1>2, <1>3 DEF MergeInv

LEMMA MergeFailsKeeps ==
  ASSUME MergeInv, NEW m \in Merges, MergeFails(m)
  PROVE  MergeInv'
<1>1. MergeTypeOK'
  BY DEF MergeInv, MergeTypeOK, Place, gitVars, mergeVars, vars, MergeFails,
     At, Goto
<1>2. RegisteredStarted' /\ MergesStarted'
  BY DEF MergeInv, MergeTypeOK, RegisteredStarted, MergesStarted, gitVars,
     mergeVars, vars, MergeFails, At, Goto
<1>3. ASSUME NEW k \in Merges
      PROVE  FoundIsThere(k)'
  BY DEF MergeInv, MergeTypeOK, FoundIsThere, Everything, gitVars,
     mergeVars, vars, MergeFails, At, Goto
<1> QED BY <1>1, <1>2, <1>3 DEF MergeInv

LEMMA MarkTaskKeeps ==
  ASSUME MergeInv, NEW m \in Merges, MarkTask(m)
  PROVE  MergeInv'
<1>1. MergeTypeOK'
  BY DEF MergeInv, MergeTypeOK, Place, gitVars, mergeVars, vars, MarkTask,
     At, Goto
<1>2. RegisteredStarted' /\ MergesStarted'
  BY DEF MergeInv, MergeTypeOK, RegisteredStarted, MergesStarted, gitVars,
     mergeVars, vars, MarkTask, At, Goto
<1>3. ASSUME NEW k \in Merges
      PROVE  FoundIsThere(k)'
  BY DEF MergeInv, MergeTypeOK, FoundIsThere, Everything, gitVars,
     mergeVars, vars, MarkTask, At, Goto
<1> QED BY <1>1, <1>2, <1>3 DEF MergeInv

LEMMA RemovedKeeps ==
  ASSUME MergeInv, NEW m \in Merges, Removed(m)
  PROVE  MergeInv'
<1>1. MergeTypeOK'
  BY DEF MergeInv, MergeTypeOK, Place, gitVars, mergeVars, vars, Removed,
     At, Goto, Remaining
<1>2. RegisteredStarted' /\ MergesStarted'
  BY DEF MergeInv, MergeTypeOK, RegisteredStarted, MergesStarted, gitVars,
     mergeVars, vars, Removed, At, Goto, Remaining
<1>3. ASSUME NEW k \in Merges
      PROVE  FoundIsThere(k)'
  BY DEF MergeInv, MergeTypeOK, FoundIsThere, Everything, gitVars,
     mergeVars, vars, Removed, At, Goto, Remaining
<1> QED BY <1>1, <1>2, <1>3 DEF MergeInv

LEMMA WorkerStepKeeps ==
  ASSUME TypeOK, MergeInv, WorkerStep
  PROVE  MergeInv'
<1> USE DEF mergeVars
<1>0. /\ \A w \in Workers : phase[w] \notin {"idle", "creating"} =>
                                 phase'[w] \notin {"idle", "creating"}
      /\ \A w \in registered' : w \in registered \/
                                     phase'[w] \notin {"idle", "creating"}
      /\ \A w \in tree' : w \in tree \/ phase[w] = "creating"
      /\ registered' \subseteq Workers /\ tree' \subseteq Workers
  BY WorkerFacts DEF WorkerStep, Next
<1>1. MergeTypeOK'
  BY <1>0 DEF WorkerStep, CheckedOut, Remaining, MergeInv, MergeTypeOK
<1>2. RegisteredStarted' /\ MergesStarted'
  BY <1>0 DEF WorkerStep, MergeInv, MergeTypeOK, RegisteredStarted,
              MergesStarted, TypeOK
<1>3. ASSUME NEW k \in Merges
      PROVE  FoundIsThere(k)'
  <2> DEFINE w == target[k]
  <2>1. w \in Workers /\ FoundIsThere(k) /\ onBranch \subseteq onBranch'
    BY DEF MergeInv, MergeTypeOK, WorkerStep, CheckedOut
  <2>2. place[k] # "idle" => (w \in tree' => w \in tree)
    BY <1>0 DEF MergeInv, MergesStarted
  <2>3. /\ w \in tree' => /\ dirty'[w] = dirty[w]
                          /\ staged'[w] = staged[w]
                          /\ head'[w] = head[w]
        /\ w \in onBranch => head'[w] = head[w]
    BY <2>1 DEF WorkerStep, Remaining
  <2> QED BY <2>1, <2>2, <2>3 DEF WorkerStep, FoundIsThere, Everything
<1> QED BY <1>1, <1>2, <1>3 DEF MergeInv

\* The requests that were under way end with the server.
LEMMA ServerStepKeeps ==
  ASSUME TypeOK, MergeInv, ServerStep
  PROVE  MergeInv'
<1>0. /\ \A w \in Workers : phase[w] \notin {"idle", "creating"} =>
                                 phase'[w] \notin {"idle", "creating"}
      /\ registered' = {}
      /\ tree' \subseteq Workers
  BY WorkerFacts DEF ServerStep, Next, ServerEnds, ShutDown, UnheardError,
                     ServerGone
<1>1. /\ place' \in [Merges -> Place]
      /\ \A k \in Merges :
           \/ place'[k] = place[k] /\ place[k] \in {"idle", "done"}
           \/ place'[k] = "failed" /\ place[k] # "idle"
  BY DEF ServerStep, MergeInv, MergeTypeOK, Place
<1>2. MergeTypeOK'
  BY <1>0, <1>1 DEF ServerStep, CheckedOut, Remaining, MergeInv, MergeTypeOK
<1>3. RegisteredStarted' /\ MergesStarted'
  BY <1>0, <1>1 DEF ServerStep, MergeInv, MergeTypeOK, RegisteredStarted,
                    MergesStarted
<1>4. ASSUME NEW k \in Merges
      PROVE  FoundIsThere(k)'
  BY <1>1 DEF ServerStep, MergeInv, FoundIsThere
<1> QED BY <1>2, <1>3, <1>4 DEF MergeInv

LEMMA MergeInvStep ==
  ASSUME TypeOK, MergeInv, [SystemNext]_allVars
  PROVE  MergeInv'
<1>1. CASE UNCHANGED allVars
  BY <1>1 DEF allVars, gitVars, mergeVars, vars, MergeInv, MergeTypeOK,
              RegisteredStarted, MergesStarted, FoundIsThere, Everything
<1>2. CASE SystemNext
  BY <1>2, WorkerStepKeeps, ServerStepKeeps, EditKeeps, ClaudeCommitsKeeps,
     ClaudeBranchesKeeps, CleanupWorktreesKeeps, MergeByCherryPickKeeps, ConflictResolvedKeeps,
     MergeRequestKeeps, GitFailsKeeps, ReadStatusKeeps, AddKeeps,
     CommitKeeps, ReadBranchKeeps, CheckoutKeeps, MergeDoneKeeps,
     MergeFailsKeeps, MarkTaskKeeps, RemovedKeeps
  DEF SystemNext, MergeStep
<1> QED BY <1>1, <1>2

LEMMA MergeInvariant == SystemSpec => []MergeInv
<1>1. TypeOK /\ IInv /\ MergeInv /\ [SystemNext]_allVars => MergeInv'
  BY MergeInvStep
<1> QED BY <1>1, MergeInvInit, WorkerTable, PTL DEF SystemSpec

\* Every variable of the merges and of Git keeps its type (/merge-worktree).
THEOREM MergeTypeCorrect == SystemSpec => []MergeTypeOK
<1>1. MergeInv => MergeTypeOK
  BY DEF MergeInv
<1> QED BY <1>1, MergeInvariant, PTL

\* A merge of a named branch that answers success has brought everything the
\* worktree held to main, whatever happened in between (/merge-worktree).
THEOREM BranchMergeCompletes == SystemSpec => []BranchMergeIsComplete
<1>1. MergeInv => BranchMergeIsComplete
  BY DEF MergeInv, FoundIsThere, BranchMergeIsComplete
<1> QED BY <1>1, MergeInvariant, PTL

\* A task is marked as completed by a merge only after a validation run of its
\* worker passed (/merge-worktree).
THEOREM MergedTaskIsValidated == SystemSpec => []MergedTaskWasValidated
<1>1. SystemInit => MergedTaskWasValidated
  BY DEF SystemInit, MergedTaskWasValidated
<1>2. ASSUME TypeOK, IInv, MergeInv, MergedTaskWasValidated,
             [SystemNext]_allVars,
             NEW w \in taskDone'
      PROVE  RunsWith(w, "passed")' # {}
  <2>1. CASE w \in taskDone
    <3>1. w \in Workers
      BY <1>2, <2>1 DEF MergeInv, MergeTypeOK
    <3> QED
      BY <1>2, <2>1, <3>1, PassedRunsStay DEF MergedTaskWasValidated
  <2>2. CASE w \notin taskDone
    <3>1. PICK m \in Merges : MarkTask(m)
      BY <1>2, <2>2
      DEF SystemNext, WorkerStep, ServerStep, MergeStep, Edit, ClaudeCommits,
          ClaudeBranches, CleanupWorktrees, MergeByCherryPick, ConflictResolved,
          MergeRequest, GitFails, ReadStatus, Add, Commit, ReadBranch,
          Checkout, MergeDone, MergeFails, Removed, gitVars, allVars
    <3>2. w = target[m] /\ passed[w] = "yes" /\ UNCHANGED vars
      BY <2>2, <3>1, <1>2 DEF MarkTask
    <3>3. w \in Workers
      BY <1>2, <3>1, <3>2 DEF MergeInv, MergeTypeOK
    <3> QED
      BY <1>2, <3>2, <3>3
      DEF IInv, WorkerInv, CompletionIsBacked, RunsWith, vars
  <2> QED BY <2>1, <2>2
<1>3. TypeOK /\ IInv /\ MergeInv /\ MergedTaskWasValidated /\ [SystemNext]_allVars
        => MergedTaskWasValidated'
  BY <1>2 DEF MergedTaskWasValidated
<1> QED BY <1>1, <1>3, WorkerTable, MergeInvariant, PTL DEF SystemSpec
=============================================================================
