---------------------------- MODULE WorktreeMerge ----------------------------
(***************************************************************************)
(* The way of a worker's changes from its worktree to the main branch:     *)
(* WorkerLifecycle together with the Git state of the worktrees and the    *)
(* requests POST /:workerId/merge-worktree and POST /:workerId/merge of    *)
(* src/src/routes/claude-workers.ts, and the removal of every worktree by  *)
(* an orchestrator that stops (WorktreeManager.cleanupWorktrees).          *)
(*                                                                         *)
(* A change is a token; a commit is the set of changes it contains.        *)
(* /merge-worktree awaits each Git command, so the worker's events, other  *)
(* requests and a live Claude process run between its steps.               *)
(***************************************************************************)
EXTENDS WorkerLifecycle

CONSTANTS
  Changes,   \* the changes a worker's processes may make in its directory
  Merges     \* the requests POST /:workerId/merge-worktree

VARIABLES
  dirty,       \* changes in a worktree that are not committed
  staged,      \* changes "git add" put into its index
  head,        \* the commit checked out in it
  onBranch,    \* workers whose worktree has a branch checked out
  main,        \* the main branch: pairs of a worker and a change
  conflicted,  \* a merge in the server's directory stopped at a conflict
  taskDone,    \* workers whose task a merge marked as completed
  place,       \* where each merge request is
  target,      \* the worker it is for
  branch,      \* the branchName it read: "HEAD" stands for no branch
  found        \* ghost: the changes the worktree held when it was asked

gitVars == <<dirty, staged, head, onBranch, main, conflicted, taskDone>>
mergeVars == <<place, target, branch, found>>
allVars == <<vars, gitVars, mergeVars>>

Place == {"idle", "status", "add", "commit", "branch", "checkout", "merge",
          "task", "remove", "done", "failed"}

MergeTypeOK ==
  /\ dirty \in [Workers -> SUBSET Changes]
  /\ staged \in [Workers -> SUBSET Changes]
  /\ head \in [Workers -> SUBSET Changes]
  /\ onBranch \in SUBSET Workers
  /\ main \in SUBSET (Workers \X Changes)
  /\ conflicted \in BOOLEAN
  /\ taskDone \in SUBSET Workers
  /\ place \in [Merges -> Place]
  /\ target \in [Merges -> Workers]
  /\ branch \in [Merges -> {"HEAD", "named"}]
  /\ found \in [Merges -> SUBSET Changes]

SystemInit ==
  /\ Init
  /\ dirty = [w \in Workers |-> {}]
  /\ staged = [w \in Workers |-> {}]
  /\ head = [w \in Workers |-> {}]
  /\ onBranch = {}
  /\ main = {}
  /\ conflicted = FALSE
  /\ taskDone = {}
  /\ place = [m \in Merges |-> "idle"]
  /\ target \in [Merges -> Workers]
  /\ branch = [m \in Merges |-> "HEAD"]
  /\ found = [m \in Merges |-> {}]

------------------------------------------------------------------------------
(* The worktree *)

\* What goes with the directories that are removed: a branch outlives its
\* worktree, a commit that is only the detached HEAD of a worktree does not.
Remaining ==
  /\ dirty' = [w \in Workers |-> IF w \in tree' THEN dirty[w] ELSE {}]
  /\ staged' = [w \in Workers |-> IF w \in tree' THEN staged[w] ELSE {}]
  /\ head' = [w \in Workers |->
                IF w \in tree' \/ w \in onBranch THEN head[w] ELSE {}]

\* "git worktree add <path> HEAD" checks out a detached HEAD; a directory named
\* in the request may have a branch.
CheckedOut ==
  \E named \in SUBSET (tree' \ tree) :
    /\ \A w \in named : ~own[w]
    /\ onBranch' = onBranch \cup named

\* A step of the worker table.
WorkerStep ==
  /\ Step
  /\ Remaining
  /\ CheckedOut
  /\ UNCHANGED <<main, conflicted, taskDone, mergeVars>>

\* The server exits, and the merge requests with it.
ServerStep ==
  /\ ServerEnds
  /\ Remaining
  /\ CheckedOut
  /\ place' = [m \in Merges |->
                 IF place[m] \in {"idle", "done"} THEN place[m] ELSE "failed"]
  /\ UNCHANGED <<main, conflicted, taskDone, target, branch, found>>

HasLiveProcess(w) == w \in tree /\ \E n \in Procs : life[w][n] = "alive"

\* A Claude process edits a file, commits, or makes a branch for its work.
Edit(w, c) ==
  /\ HasLiveProcess(w)
  /\ c \notin head[w]
  /\ dirty' = [dirty EXCEPT ![w] = @ \cup {c}]
  /\ UNCHANGED <<staged, head, onBranch, main, conflicted, taskDone,
                 mergeVars, vars>>

ClaudeCommits(w) ==
  /\ HasLiveProcess(w)
  /\ head' = [head EXCEPT ![w] = @ \cup dirty[w] \cup staged[w]]
  /\ dirty' = [dirty EXCEPT ![w] = {}]
  /\ staged' = [staged EXCEPT ![w] = {}]
  /\ UNCHANGED <<onBranch, main, conflicted, taskDone, mergeVars, vars>>

ClaudeBranches(w) ==
  /\ HasLiveProcess(w)
  /\ onBranch' = onBranch \cup {w}
  /\ UNCHANGED <<dirty, staged, head, main, conflicted, taskDone, mergeVars,
                 vars>>

\* cleanup() of an orchestrator with worktrees: every worktree Git lists,
\* whatever its worker is doing.
CleanupWorktrees(w) ==
  /\ w \in tree
  /\ tree' = tree \ {w}
  /\ Remaining
  /\ UNCHANGED <<phase, registered, status, passed, attempts, handle, life,
                 signalled, armed, runs, own, removals>>
  /\ UNCHANGED <<onBranch, main, conflicted, taskDone, mergeVars>>

\* Someone finishes or aborts the merge that stopped at a conflict.
ConflictResolved ==
  /\ conflicted
  /\ conflicted' = FALSE
  /\ UNCHANGED <<dirty, staged, head, onBranch, main, taskDone, mergeVars,
                 vars>>

------------------------------------------------------------------------------
(* POST /:workerId/merge-worktree *)

At(m, here) == place[m] = here
Goto(m, there) == place' = [place EXCEPT ![m] = there]

MergeRequest(m) ==
  /\ At(m, "idle")
  /\ target[m] \in registered
  /\ Goto(m, "status")
  /\ UNCHANGED <<target, branch, found, gitVars, vars>>

\* A Git command fails and 500 is answered: the directory is gone, nothing is
\* staged any more, another command holds the lock, a hook refuses, or the
\* server's directory is in the middle of a merge.
GitFails(m) ==
  /\ place[m] \in {"status", "add", "commit", "branch", "checkout", "merge"}
  /\ Goto(m, "failed")
  /\ UNCHANGED <<target, branch, found, gitVars, vars>>

\* Mutant: the changes are left uncommitted.
ReadStatusOnly(m) ==
  LET w == target[m]
  IN /\ At(m, "status")
     /\ w \in tree
     /\ found' = [found EXCEPT ![m] = dirty[w] \cup staged[w] \cup head[w]]
     /\ Goto(m, "branch")
     /\ UNCHANGED <<target, branch, gitVars, vars>>

\* git status --porcelain
ReadStatus(m) ==
  LET w == target[m]
  IN /\ At(m, "status")
     /\ w \in tree
     /\ found' = [found EXCEPT ![m] = dirty[w] \cup staged[w] \cup head[w]]
     /\ Goto(m, IF dirty[w] \cup staged[w] = {} THEN "branch" ELSE "add")
     /\ UNCHANGED <<target, branch, gitVars, vars>>

\* git add .
Add(m) ==
  LET w == target[m]
  IN /\ At(m, "add")
     /\ w \in tree
     /\ staged' = [staged EXCEPT ![w] = @ \cup dirty[w]]
     /\ dirty' = [dirty EXCEPT ![w] = {}]
     /\ Goto(m, "commit")
     /\ UNCHANGED <<target, branch, found, head, onBranch, main, conflicted,
                    taskDone, vars>>

\* git commit: refused when somebody else has committed what was staged.
Commit(m) ==
  LET w == target[m]
  IN /\ At(m, "commit")
     /\ w \in tree
     /\ staged[w] # {}
     /\ head' = [head EXCEPT ![w] = @ \cup staged[w]]
     /\ staged' = [staged EXCEPT ![w] = {}]
     /\ Goto(m, "branch")
     /\ UNCHANGED <<target, branch, found, dirty, onBranch, main, conflicted,
                    taskDone, vars>>

\* Mutant: the empty name of a detached HEAD is used as it is.
ReadBranchBare(m) ==
  /\ At(m, "branch")
  /\ target[m] \in tree
  /\ branch' = [branch EXCEPT ![m] =
                  IF target[m] \in onBranch THEN "named" ELSE ""]
  /\ Goto(m, "checkout")
  /\ UNCHANGED <<target, found, gitVars, vars>>

\* git branch --show-current, or 'HEAD'
ReadBranch(m) ==
  /\ At(m, "branch")
  /\ target[m] \in tree
  /\ branch' = [branch EXCEPT ![m] =
                  IF target[m] \in onBranch THEN "named" ELSE "HEAD"]
  /\ Goto(m, "checkout")
  /\ UNCHANGED <<target, found, gitVars, vars>>

\* git checkout main, in the server's own directory
Checkout(m) ==
  /\ At(m, "checkout")
  /\ ~conflicted
  /\ Goto(m, "merge")
  /\ UNCHANGED <<target, branch, found, gitVars, vars>>

\* git merge: "HEAD" is resolved there, where it is main itself.
MergeDone(m) ==
  LET w == target[m]
  IN /\ At(m, "merge")
     /\ ~conflicted
     /\ main' = IF branch[m] = "named" THEN main \cup ({w} \X head[w]) ELSE main
     /\ Goto(m, "task")
     /\ UNCHANGED <<target, branch, found, dirty, staged, head, onBranch,
                    conflicted, taskDone, vars>>

\* A merge that stops at a conflict leaves it behind.
MergeFails(m) ==
  /\ At(m, "merge")
  /\ ~conflicted /\ branch[m] = "named"
  /\ conflicted' = TRUE
  /\ Goto(m, "failed")
  /\ UNCHANGED <<target, branch, found, dirty, staged, head, onBranch, main,
                 taskDone, vars>>

\* Mutant: the task is completed whatever the validation said.
MarkTaskAlways(m) ==
  /\ At(m, "task")
  /\ taskDone' = taskDone \cup {target[m]}
  /\ Goto(m, "remove")
  /\ UNCHANGED <<target, branch, found, dirty, staged, head, onBranch, main,
                 conflicted, vars>>

\* updateTaskStatus, if worker.validationPassed; its errors are swallowed.
MarkTask(m) ==
  /\ At(m, "task")
  /\ \/ passed[target[m]] = "yes" /\ taskDone' = taskDone \cup {target[m]}
     \/ UNCHANGED taskDone
  /\ Goto(m, "remove")
  /\ UNCHANGED <<target, branch, found, dirty, staged, head, onBranch, main,
                 conflicted, vars>>

\* removeWorktree, whose errors are swallowed too; 200.
Removed(m) ==
  /\ At(m, "remove")
  /\ tree' \in {tree, tree \ {target[m]}}
  /\ Remaining
  /\ Goto(m, "done")
  /\ UNCHANGED <<phase, registered, status, passed, attempts, handle, life,
                 signalled, armed, runs, own, removals>>
  /\ UNCHANGED <<target, branch, found, onBranch, main, conflicted, taskDone>>

\* POST /:workerId/merge runs its Git commands synchronously.  The commit is
\* made in the worktree, the cherry-pick in its parent directory: that is no
\* repository for a worktree of /start, and the request answers 500 with the
\* commit made; the parent of a named directory may be the main checkout.
MergeByCherryPick(w) ==
  LET commit == dirty[w] \cup staged[w]
  IN /\ w \in registered \cap tree
     /\ commit # {}
     /\ head' = [head EXCEPT ![w] = @ \cup commit]
     /\ dirty' = [dirty EXCEPT ![w] = {}]
     /\ staged' = [staged EXCEPT ![w] = {}]
     /\ \/ UNCHANGED main
        \/ ~own[w] /\ ~conflicted /\ main' = main \cup ({w} \X commit)
     /\ UNCHANGED <<onBranch, conflicted, taskDone, mergeVars, vars>>

------------------------------------------------------------------------------
MergeStep(m) ==
  \/ MergeRequest(m)
  \/ GitFails(m)
  \/ ReadStatus(m)
  \/ Add(m)
  \/ Commit(m)
  \/ ReadBranch(m)
  \/ Checkout(m)
  \/ MergeDone(m)
  \/ MergeFails(m)
  \/ MarkTask(m)
  \/ Removed(m)

SystemNext ==
  \/ WorkerStep
  \/ ServerStep
  \/ \E w \in Workers :
       \/ \E c \in Changes : Edit(w, c)
       \/ ClaudeCommits(w)
       \/ ClaudeBranches(w)
       \/ CleanupWorktrees(w)
       \/ MergeByCherryPick(w)
  \/ ConflictResolved
  \/ \E m \in Merges : MergeStep(m)

SystemSpec == SystemInit /\ [][SystemNext]_allVars

------------------------------------------------------------------------------
(* Properties *)

\* A task is marked as completed by a merge only after a validation run of
\* its worker passed, although the flag is read several awaits after the
\* request and runs may end in between.  (/merge-worktree, EndRun)
MergedTaskWasValidated ==
  \A w \in taskDone : RunsWith(w, "passed") # {}

\* A merge of a named branch that answers success has brought everything the
\* worktree held when it was asked to main, whatever the worker, its
\* processes, its handlers and a second merge did in between.
\* (/merge-worktree)
BranchMergeIsComplete ==
  \A m \in Merges :
    place[m] = "done" /\ branch[m] = "named" =>
      {target[m]} \X found[m] \subseteq main

(* The inductive invariant behind it: where the changes that were found are
   at each step of a request, as long as its directory exists; once a branch
   was read, they are on it. *)

Everything(w) == dirty[w] \cup staged[w] \cup head[w]

FoundIsThere(m) ==
  LET w == target[m]
  IN /\ w \in tree =>
          /\ place[m] = "add" => found[m] \subseteq Everything(w)
          /\ place[m] = "commit" => found[m] \subseteq staged[w] \cup head[w]
          /\ place[m] = "branch" => found[m] \subseteq head[w]
     /\ place[m] \in {"checkout", "merge"} /\ branch[m] = "named" =>
          w \in onBranch /\ found[m] \subseteq head[w]
     /\ place[m] \in {"task", "remove", "done"} /\ branch[m] = "named" =>
          {w} \X found[m] \subseteq main

\* A directory is made once, before anything can ask for its merge.
MergesStarted ==
  \A m \in Merges :
    place[m] # "idle" => phase[target[m]] \notin {"idle", "creating"}
RegisteredStarted ==
  \A w \in registered : phase[w] \notin {"idle", "creating"}

MergeInv ==
  /\ MergeTypeOK
  /\ RegisteredStarted
  /\ MergesStarted
  /\ \A m \in Merges : FoundIsThere(m)

\* The changes of a worktree are on main when the merge answers success.
\* (/merge-worktree)
MergedIsOnMain ==
  \A m \in Merges : place[m] = "done" => {target[m]} \X found[m] \subseteq main
==============================================================================
