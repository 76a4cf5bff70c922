------------------------- MODULE WorkerLifecycle -------------------------
(***************************************************************************)
(* The life of the Claude workers kept by src/src/routes/claude-workers.ts *)
(* in the in-memory map activeWorkers: the /start handler and the event    *)
(* handlers it attaches, the validation runs started by the 'close' event  *)
(* and by the /stop handler, the one restart with feedback, /stop-all,     *)
(* /clear, DELETE and /cleanup-worktrees, the asynchronous removal of the  *)
(* worker's directory, and the end of the server itself.                   *)
(*                                                                         *)
(* The server is one Node.js event loop.  A step below is a stretch of     *)
(* code that runs without an await: an HTTP handler up to its first await, *)
(* a continuation, an event callback or a timer callback.                  *)
(***************************************************************************)
EXTENDS Naturals, Sequences, FiniteSets

CONSTANTS
  Workers,      \* the worker ids generateWorkerId may return, used once each
  MaxAttempts,  \* settings.validation.maxAttempts, as /start read it
  MayShutDown,  \* TRUE: the server may be told to shut down
  MaxStops      \* bound: requests /stop that a worker may get

ASSUME LifecycleAssumption ==
  /\ MaxAttempts \in Nat
  /\ MayShutDown \in BOOLEAN
  /\ MaxStops \in Nat

Procs == 1 .. (MaxAttempts + 1)   \* the original process, then the restarts

NoProc == 0                       \* worker.process = null

VARIABLES
  phase,       \* how far the /start request of each worker has come
  registered,  \* the keys of activeWorkers
  status,      \* worker.status; "none" before the worker object exists
  passed,      \* worker.validationPassed
  attempts,    \* worker.validationAttempts
  handle,      \* worker.process: the number of a process, or NoProc
  life,        \* what has become of every child process of a worker
  signalled,   \* the live processes that SIGTERM was sent to
  armed,       \* workers with a pending two-second auto-stop timer
  runs,        \* worker.validationRuns, in order
  own,         \* TRUE: a worktree made by /start; FALSE: a workingDirectory
  tree,        \* workers whose directory (worker.worktreePath) exists
  removals     \* removals of the directory in flight, by who asked for it

vars == <<phase, registered, status, passed, attempts, handle, life,
          signalled, armed, runs, own, tree, removals>>

\* "lost": the server exited since.
Phase == {"idle", "creating", "noting", "listening", "refused", "lost"}
Status == {"none", "starting", "running", "validating", "completed",
           "failed", "stopped"}
Finished == {"completed", "failed", "stopped"}
\* "spawnError": spawn failed and the 'error' event is still to be emitted;
\* "exit0", "exit1": exited with code 0 / with another code or by a signal,
\* the 'close' event is still to be emitted; "gone": 'close' was emitted.
Life == {"none", "alive", "spawnError", "exit0", "exit1", "gone"}
Asker == {"close", "error", "stop", "delete", "cleanup"}
\* "crashed": the run threw, so its overallStatus stays 'running' for ever, or
\* the server exited during it.
Verdict == {"pending", "passed", "failed", "crashed"}
Run == [by : {"close", "stop"}, verdict : Verdict]

TypeOK ==
  /\ phase \in [Workers -> Phase]
  /\ registered \in SUBSET Workers
  /\ status \in [Workers -> Status]
  /\ passed \in [Workers -> {"unset", "yes", "no"}]
  /\ attempts \in [Workers -> 0 .. MaxAttempts]
  /\ handle \in [Workers -> Procs \cup {NoProc}]
  /\ life \in [Workers -> [Procs -> Life]]
  /\ signalled \in [Workers -> SUBSET Procs]
  /\ armed \in SUBSET Workers
  /\ runs \in [Workers -> Seq(Run)]
  /\ own \in [Workers -> BOOLEAN]
  /\ tree \in SUBSET Workers
  /\ removals \in [Workers -> SUBSET Asker]

Init ==
  /\ phase = [w \in Workers |-> "idle"]
  /\ registered = {}
  /\ status = [w \in Workers |-> "none"]
  /\ passed = [w \in Workers |-> "unset"]
  /\ attempts = [w \in Workers |-> 0]
  /\ handle = [w \in Workers |-> NoProc]
  /\ life = [w \in Workers |-> [n \in Procs |-> "none"]]
  /\ signalled = [w \in Workers |-> {}]
  /\ armed = {}
  /\ runs = [w \in Workers |-> <<>>]
  /\ own = [w \in Workers |-> TRUE]
  /\ tree = {}
  /\ removals = [w \in Workers |-> {}]

--------------------------------------------------------------------------
(* Helpers *)

\* worker.process.kill('SIGTERM'): without effect on a process that exited.
Kill(S) ==
  signalled' = [w \in Workers |->
                  IF w \in S /\ handle[w] # NoProc
                             /\ life[w][handle[w]] = "alive"
                  THEN signalled[w] \cup {handle[w]}
                  ELSE signalled[w]]

\* worker.process && status is 'running' or 'validating'
Stoppable(w) ==
  /\ handle[w] # NoProc
  /\ status[w] \in {"running", "validating"}

\* The part of runValidationChecks that runs before its first await.
BeginRun(w, by) ==
  /\ status' = [status EXCEPT ![w] = "validating"]
  /\ runs' = [runs EXCEPT ![w] = Append(@, [by |-> by, verdict |-> "pending"])]

\* The cleanup at the end of the 'close' and 'error' handlers: a directory
\* named in the request is left alone.
RemoveIfOwn(w, asker) ==
  removals' = [removals EXCEPT ![w] = IF own[w] THEN @ \cup {asker} ELSE @]

\* Mutant: the restarted process gets the same listeners.
HeardFromAny(w, n) == n \in Procs /\ phase[w] = "listening"

\* Only the original process got the listeners that act on its events, and
\* only once updateTaskStatus was awaited.
Heard(w, n) == n = 1 /\ phase[w] = "listening"

--------------------------------------------------------------------------
(* POST /start *)

\* Up to the first await: the creation of the worktree, or of the command
\* interceptor when the request names a workingDirectory.
StartRequest(w, ownTree) ==
  /\ phase[w] = "idle"
  /\ phase' = [phase EXCEPT ![w] = "creating"]
  /\ own' = [own EXCEPT ![w] = ownTree]
  /\ UNCHANGED <<registered, status, passed, attempts, handle, life,
                 signalled, armed, runs, tree, removals>>

\* createWorktree fails and nothing was made, or the interceptor fails and
\* the directory just made stays behind; 500 either way.
StartRefused(w) ==
  /\ phase[w] = "creating"
  /\ phase' = [phase EXCEPT ![w] = "refused"]
  /\ tree' \in {tree, tree \cup {w}}
  /\ UNCHANGED <<registered, status, passed, attempts, handle, life,
                 signalled, armed, runs, own, removals>>

\* The worker is registered, the process spawned (or the spawn fails, which
\* is reported by an 'error' event), and updateTaskStatus is awaited.
StartSpawn(w, outcome) ==
  /\ phase[w] = "creating"
  /\ registered' = registered \cup {w}
  /\ tree' = tree \cup {w}
  /\ phase' = [phase EXCEPT ![w] = "noting"]
  /\ status' = [status EXCEPT ![w] = "running"]
  /\ handle' = [handle EXCEPT ![w] = 1]
  /\ life' = [life EXCEPT ![w][1] = outcome]
  /\ UNCHANGED <<passed, attempts, signalled, armed, runs, own, removals>>

\* spawn throws: the request answers 500, the worker stays in the map.
StartSpawnThrows(w) ==
  /\ phase[w] = "creating"
  /\ registered' = registered \cup {w}
  /\ tree' = tree \cup {w}
  /\ phase' = [phase EXCEPT ![w] = "refused"]
  /\ status' = [status EXCEPT ![w] = "starting"]
  /\ UNCHANGED <<passed, attempts, handle, life, signalled, armed, runs,
                 own, removals>>

\* updateTaskStatus has returned: the listeners are attached.
StartListen(w) ==
  /\ phase[w] = "noting"
  /\ phase' = [phase EXCEPT ![w] = "listening"]
  /\ UNCHANGED <<registered, status, passed, attempts, handle, life,
                 signalled, armed, runs, own, tree, removals>>

--------------------------------------------------------------------------
(* Child processes and their events *)

\* A process ends by itself or by SIGTERM.  SIGTERM gives a code other than
\* 0 (null) unless the process was just about to end with 0.
ProcessExit(w, n, how) ==
  /\ life[w][n] = "alive"
  /\ life' = [life EXCEPT ![w][n] = how]
  /\ UNCHANGED <<phase, registered, status, passed, attempts, handle,
                 signalled, armed, runs, own, tree, removals>>

\* The stdout listener sees {"type":"result","subtype":"success"}.
ResultMessage(w) ==
  /\ Heard(w, 1)
  /\ life[w][1] = "alive"
  /\ armed' = armed \cup {w}
  /\ UNCHANGED <<phase, registered, status, passed, attempts, handle, life,
                 signalled, runs, own, tree, removals>>

\* The timer's callback reads worker.process and worker.status when it fires.
AutoStop(w) ==
  /\ w \in armed
  /\ armed' = armed \ {w}
  /\ IF status[w] = "running" THEN Kill({w}) ELSE UNCHANGED signalled
  /\ UNCHANGED <<phase, registered, status, passed, attempts, handle, life,
                 runs, own, tree, removals>>

\* The 'error' event of a failed spawn; 'close' with a negative code follows.
SpawnErrorEvent(w, n) ==
  /\ Heard(w, n)
  /\ life[w][n] = "spawnError"
  /\ life' = [life EXCEPT ![w][n] = "exit1"]
  /\ status' = [status EXCEPT ![w] = "failed"]
  /\ RemoveIfOwn(w, "error")
  /\ UNCHANGED <<phase, registered, passed, attempts, handle, signalled,
                 armed, runs, own, tree>>

\* 'close' of the original process with code 0: validate.
CloseOk(w, n) ==
  /\ Heard(w, n)
  /\ life[w][n] = "exit0"
  /\ life' = [life EXCEPT ![w][n] = "gone"]
  /\ BeginRun(w, "close")
  /\ UNCHANGED <<phase, registered, passed, attempts, handle, signalled,
                 armed, own, tree, removals>>

\* 'close' of the original process with another code, or null after a signal.
CloseFailed(w, n) ==
  /\ Heard(w, n)
  /\ life[w][n] = "exit1"
  /\ life' = [life EXCEPT ![w][n] = "gone"]
  /\ status' = [status EXCEPT ![w] = "failed"]
  /\ RemoveIfOwn(w, "close")
  /\ UNCHANGED <<phase, registered, passed, attempts, handle, signalled,
                 armed, runs, own, tree>>

\* 'close' that nobody acts on: the original's listener is not attached yet,
\* or the process is a restarted one, whose listener only logs.
CloseUnheard(w, n) ==
  /\ ~Heard(w, n)
  /\ life[w][n] \in {"exit0", "exit1"}
  /\ life' = [life EXCEPT ![w][n] = "gone"]
  /\ UNCHANGED <<phase, registered, status, passed, attempts, handle,
                 signalled, armed, runs, own, tree, removals>>

--------------------------------------------------------------------------
(* The end of a validation run *)

\* Mutant: a run that crashed counts as passed.
EndRunUnlessFailed(w, i, verdict) ==
  /\ runs[w][i].verdict = "pending"
  /\ runs' = [runs EXCEPT ![w][i].verdict = verdict]
  /\ passed' = [passed EXCEPT ![w] = IF verdict = "failed" THEN "no" ELSE "yes"]

EndRun(w, i, verdict) ==
  /\ runs[w][i].verdict = "pending"
  /\ runs' = [runs EXCEPT ![w][i].verdict = verdict]
  /\ passed' = [passed EXCEPT ![w] = IF verdict = "passed" THEN "yes" ELSE "no"]

MayRetry(w) == attempts[w] < MaxAttempts

\* Mutant: the catch block forgets the status.
RestartForgetsFailure(w, outcome) ==
  /\ attempts' = [attempts EXCEPT ![w] = @ + 1]
  /\ Kill({w})
  /\ \/ /\ outcome \in {"alive", "spawnError"}
        /\ status' = [status EXCEPT ![w] = "running"]
        /\ handle' = [handle EXCEPT ![w] = attempts[w] + 2]
        /\ life' = [life EXCEPT ![w][attempts[w] + 2] = outcome]
     \/ /\ outcome = "throws"
        /\ handle' = [handle EXCEPT ![w] = NoProc]
        /\ UNCHANGED <<life, status>>

\* Mutant: the caller counts the attempt too.
RestartCountsTwice(w, outcome) ==
  /\ attempts' = [attempts EXCEPT ![w] = @ + 2]
  /\ Kill({w})
  /\ \/ /\ outcome \in {"alive", "spawnError"}
        /\ status' = [status EXCEPT ![w] = "running"]
        /\ handle' = [handle EXCEPT ![w] = attempts[w] + 2]
        /\ life' = [life EXCEPT ![w][attempts[w] + 2] = outcome]
     \/ /\ outcome = "throws"
        /\ status' = [status EXCEPT ![w] = "failed"]
        /\ handle' = [handle EXCEPT ![w] = NoProc]
        /\ UNCHANGED life

\* restartWorkerWithFeedback: the old process is killed unless it already
\* was, and a new one is spawned in the same directory.
Restart(w, outcome) ==
  /\ attempts' = [attempts EXCEPT ![w] = @ + 1]
  /\ Kill({w})
  /\ \/ /\ outcome \in {"alive", "spawnError"}
        /\ status' = [status EXCEPT ![w] = "running"]
        /\ handle' = [handle EXCEPT ![w] = attempts[w] + 2]
        /\ life' = [life EXCEPT ![w][attempts[w] + 2] = outcome]
     \/ /\ outcome = "throws"
        /\ status' = [status EXCEPT ![w] = "failed"]
        /\ handle' = [handle EXCEPT ![w] = NoProc]
        /\ UNCHANGED life

\* A passed run completes the worker; the directory is removed only when the
\* run belongs to the 'close' handler.
RunPassed(w, i) ==
  /\ EndRun(w, i, "passed")
  /\ status' = [status EXCEPT ![w] = "completed"]
  /\ IF runs[w][i].by = "close"
     THEN RemoveIfOwn(w, "close")
     ELSE UNCHANGED removals
  /\ UNCHANGED <<phase, registered, attempts, handle, life, signalled,
                 armed, own, tree>>

\* Mutant: any failed run restarts the worker, that of a manual stop too.
RestartAfterAnyRun(w, i, verdict, outcome) ==
  /\ EndRun(w, i, verdict)
  /\ MayRetry(w)
  /\ Restart(w, outcome)
  /\ UNCHANGED <<phase, registered, armed, own, tree, removals>>

\* Mutant: the worktree is cleaned up although the worker is restarting.
RestartWithCleanup(w, i, verdict, outcome) ==
  /\ EndRun(w, i, verdict)
  /\ runs[w][i].by = "close"
  /\ MayRetry(w)
  /\ Restart(w, outcome)
  /\ RemoveIfOwn(w, "close")
  /\ UNCHANGED <<phase, registered, armed, own, tree>>

\* The 'close' handler's run failed and an attempt is left.
RunFailedRestart(w, i, verdict, outcome) ==
  /\ EndRun(w, i, verdict)
  /\ runs[w][i].by = "close"
  /\ MayRetry(w)
  /\ Restart(w, outcome)
  /\ UNCHANGED <<phase, registered, armed, own, tree, removals>>

\* The 'close' handler's run failed and no attempt is left.
RunFailedFinal(w, i, verdict) ==
  /\ EndRun(w, i, verdict)
  /\ runs[w][i].by = "close"
  /\ ~MayRetry(w)
  /\ status' = [status EXCEPT ![w] = "failed"]
  /\ RemoveIfOwn(w, "close")
  /\ UNCHANGED <<phase, registered, attempts, handle, life, signalled,
                 armed, own, tree>>

\* The run of /stop failed: worker.status is left as it is.
RunFailedStopped(w, i, verdict) ==
  /\ EndRun(w, i, verdict)
  /\ runs[w][i].by = "stop"
  /\ UNCHANGED <<phase, registered, status, attempts, handle, life,
                 signalled, armed, own, tree, removals>>

--------------------------------------------------------------------------
(* The other requests *)

\* POST /:workerId/stop.  The status 'stopped' it sets is overwritten by
\* runValidationChecks before the handler returns.
Stop(w, cleanupWorktree) ==
  /\ w \in registered
  /\ Stoppable(w)
  /\ Cardinality({i \in DOMAIN runs[w] : runs[w][i].by = "stop"}) < MaxStops
  /\ Kill({w})
  /\ BeginRun(w, "stop")
  /\ removals' = [removals EXCEPT ![w] =
                    IF cleanupWorktree THEN @ \cup {"stop"} ELSE @]
  /\ UNCHANGED <<phase, registered, passed, attempts, handle, life, armed,
                 own, tree>>

\* Mutant: every worker with a process is stopped, finished or not.
StopAllUnfiltered ==
  LET S == {w \in registered : handle[w] # NoProc}
  IN /\ S # {}
     /\ Kill(S)
     /\ status' = [w \in Workers |-> IF w \in S THEN "stopped" ELSE status[w]]
     /\ UNCHANGED <<phase, registered, passed, attempts, handle, life, armed,
                    runs, own, tree, removals>>

\* Mutant: the workers are marked and their processes forgotten.
StopAllOnlyMarks ==
  LET S == {w \in registered : handle[w] # NoProc /\ status[w] = "running"}
  IN /\ S # {}
     /\ status' = [w \in Workers |-> IF w \in S THEN "stopped" ELSE status[w]]
     /\ UNCHANGED <<phase, registered, passed, attempts, handle, life,
                    signalled, armed, runs, own, tree, removals>>

\* POST /stop-all
StopAll ==
  LET S == {w \in registered : handle[w] # NoProc /\ status[w] = "running"}
  IN /\ S # {}
     /\ Kill(S)
     /\ status' = [w \in Workers |-> IF w \in S THEN "stopped" ELSE status[w]]
     /\ UNCHANGED <<phase, registered, passed, attempts, handle, life, armed,
                    runs, own, tree, removals>>

\* POST /clear
Clear ==
  LET S == {w \in registered : status[w] \in Finished}
  IN /\ S # {}
     /\ registered' = registered \ S
     /\ UNCHANGED <<phase, status, passed, attempts, handle, life, signalled,
                    armed, runs, own, tree, removals>>

\* DELETE /:workerId up to the await of removeWorktree.
Delete(w) ==
  /\ w \in registered
  /\ IF Stoppable(w)
     THEN /\ Kill({w})
          /\ status' = [status EXCEPT ![w] = "stopped"]
     ELSE UNCHANGED <<signalled, status>>
  /\ removals' = [removals EXCEPT ![w] = @ \cup {"delete"}]
  /\ UNCHANGED <<phase, registered, passed, attempts, handle, life, armed,
                 runs, own, tree>>

\* POST /cleanup-worktrees for one worker: the path it computes is the one
\* createWorktree made, so a workingDirectory is not touched.
CleanupWorktree(w) ==
  /\ w \in registered
  /\ status[w] \in Finished
  /\ own[w]
  /\ removals' = [removals EXCEPT ![w] = @ \cup {"cleanup"}]
  /\ UNCHANGED <<phase, registered, status, passed, attempts, handle, life,
                 signalled, armed, runs, own, tree>>

\* A removal succeeds; the one of DELETE then drops the worker from the map.
RemovalDone(w, asker) ==
  /\ asker \in removals[w]
  /\ removals' = [removals EXCEPT ![w] = @ \ {asker}]
  /\ tree' = tree \ {w}
  /\ registered' = IF asker = "delete" THEN registered \ {w} ELSE registered
  /\ UNCHANGED <<phase, status, passed, attempts, handle, life, signalled,
                 armed, runs, own>>

\* A removal fails; the error is logged, or answered with 500 by DELETE.
RemovalFails(w, asker) ==
  /\ asker \in removals[w]
  /\ removals' = [removals EXCEPT ![w] = @ \ {asker}]
  /\ UNCHANGED <<phase, registered, status, passed, attempts, handle, life,
                 signalled, armed, runs, own, tree>>

--------------------------------------------------------------------------
(* The end of the server, and its next start *)

\* The map, the listeners, the timers and whatever was awaited are gone.  The
\* Claude processes and the directories stay; a Git command that was under
\* way may still finish.  attempts only numbers the processes from here on.
ServerGone ==
  /\ phase' = [w \in Workers |-> IF phase[w] = "idle" THEN "idle" ELSE "lost"]
  /\ registered' = {}
  /\ status' = [w \in Workers |-> "none"]
  /\ passed' = [w \in Workers |-> "unset"]
  /\ handle' = [w \in Workers |-> NoProc]
  /\ life' = [w \in Workers |-> [n \in Procs |->
                IF life[w][n] \in {"none", "alive"} THEN life[w][n] ELSE "gone"]]
  /\ armed' = {}
  /\ runs' = [w \in Workers |-> [i \in DOMAIN runs[w] |->
                IF runs[w][i].verdict = "pending"
                THEN [runs[w][i] EXCEPT !.verdict = "crashed"]
                ELSE runs[w][i]]]
  /\ \E made \in SUBSET {w \in Workers : phase[w] = "creating"},
        removed \in SUBSET {w \in Workers : removals[w] # {}} :
       tree' = (tree \cup made) \ removed
  /\ removals' = [w \in Workers |-> {}]
  /\ UNCHANGED <<attempts, signalled, own>>

\* An 'error' event nobody listens to is an uncaught exception.  The handler
\* of index.ts would log it, but the one that scripts/validate-task.ts
\* installs when it is imported comes first, and exits.
UnheardError(w, n) ==
  /\ ~Heard(w, n)
  /\ life[w][n] = "spawnError"
  /\ ServerGone

\* SIGTERM or SIGINT to the server.
ShutDown == MayShutDown /\ ServerGone

ServerEnds == ShutDown \/ \E w \in Workers, n \in Procs : UnheardError(w, n)

--------------------------------------------------------------------------
RunEnds(w, i) ==
  \/ RunPassed(w, i)
  \/ \E verdict \in {"failed", "crashed"} :
       \/ \E outcome \in {"alive", "spawnError", "throws"} :
            RunFailedRestart(w, i, verdict, outcome)
       \/ RunFailedFinal(w, i, verdict)
       \/ RunFailedStopped(w, i, verdict)

CloseEvent(w, n) == CloseOk(w, n) \/ CloseFailed(w, n) \/ CloseUnheard(w, n)

Request(w) ==
  \/ \E ownTree \in BOOLEAN : StartRequest(w, ownTree)
  \/ \E cleanupWorktree \in BOOLEAN : Stop(w, cleanupWorktree)
  \/ Delete(w)
  \/ CleanupWorktree(w)

\* A step of a server that stays up.
Step ==
  \/ \E w \in Workers :
       \/ Request(w)
       \/ StartRefused(w)
       \/ \E outcome \in {"alive", "spawnError"} : StartSpawn(w, outcome)
       \/ StartSpawnThrows(w)
       \/ StartListen(w)
       \/ \E n \in Procs :
            \/ \E how \in {"exit0", "exit1"} : ProcessExit(w, n, how)
            \/ SpawnErrorEvent(w, n)
            \/ CloseEvent(w, n)
       \/ ResultMessage(w)
       \/ AutoStop(w)
       \/ \E i \in DOMAIN runs[w] : RunEnds(w, i)
       \/ \E asker \in Asker : RemovalDone(w, asker) \/ RemovalFails(w, asker)
  \/ StopAll
  \/ Clear

Next == Step \/ ServerEnds

Spec == Init /\ [][Next]_vars

\* A process that got SIGTERM ends.
SignalledExit(w) ==
  \E n \in signalled[w], how \in {"exit0", "exit1"} : ProcessExit(w, n, how)

\* The event loop delivers events and runs continuations and timers, the
\* validation stages have timeouts, and a signalled process ends.  Requests
\* and the work of an undisturbed process are not fair.
Fairness ==
  \A w \in Workers :
    /\ WF_vars(StartListen(w))
    /\ WF_vars(SignalledExit(w))
    /\ WF_vars(\E n \in Procs :
                 SpawnErrorEvent(w, n) \/ UnheardError(w, n) \/ CloseEvent(w, n))
    /\ WF_vars(AutoStop(w))
    /\ \A i \in 1 .. MaxStops + 1 :
         WF_vars(i \in DOMAIN runs[w] /\ RunEnds(w, i))
    /\ \A asker \in Asker :
         WF_vars(RemovalDone(w, asker) \/ RemovalFails(w, asker))

FairSpec == Spec /\ Fairness

--------------------------------------------------------------------------
(* Properties *)

RunsWith(w, verdict) ==
  {i \in DOMAIN runs[w] : runs[w][i].verdict = verdict}

\* The removal asked for by the 'close' or the 'error' handler is under way.
AutoCleanup(w) == "close" \in removals[w] \/ "error" \in removals[w]

\* A restarted process is spawned only after the original one closed: a worker
\* never has two processes editing its directory.
AtMostOneAlive(w) ==
  \A m, n \in Procs :
    life[w][m] = "alive" /\ life[w][n] = "alive" => m = n
OneLiveProcess == \A w \in Workers : AtMostOneAlive(w)

\* The worker is 'completed', and its validationPassed flag that /merge-worktree
\* trusts is set, only if one of its runs really passed, whatever order the
\* runs of the 'close' handler and of /stop end in.
CompletionIsBacked(w) ==
  status[w] = "completed" \/ passed[w] = "yes" => RunsWith(w, "passed") # {}
CompletedWasValidated == \A w \in Workers : CompletionIsBacked(w)

\* A worker that shows 'validating' has a run that will settle it, or was left
\* so by a manual stop's run that ended without success (the case the comment
\* in /stop overlooks).
WillSettle(w) ==
  status[w] = "validating" =>
    \E i \in DOMAIN runs[w] :
      \/ runs[w][i].verdict = "pending"
      \/ runs[w][i].by = "stop" /\ runs[w][i].verdict \in {"failed", "crashed"}
ValidatingIsSettledLater == \A w \in Workers : WillSettle(w)

\* One validation of the 'close' handler per worker, however processes are
\* restarted, stopped or killed: its outcome is acted on once.
AtMostOneCloseRun(w) ==
  \A i, j \in DOMAIN runs[w] :
    runs[w][i].by = "close" /\ runs[w][j].by = "close" => i = j
OneCloseRun == \A w \in Workers : AtMostOneCloseRun(w)

\* The automatic cleanup of the 'close' and 'error' handlers is under way only
\* when the worker has no live process left in the directory: "Don't clean up
\* worktree yet, worker is restarting".
NoProcessToDisturb(w) ==
  AutoCleanup(w) => \A n \in Procs : life[w][n] # "alive"
CleanupAfterLastProcess == \A w \in Workers : NoProcessToDisturb(w)

\* A run started by the 'close' handler brings the worker to a final status or
\* back to work; only the run of a manual stop may leave it 'validating'.
CloseRunSettles ==
  \A w \in Workers :
    (\E i \in DOMAIN runs[w] : runs[w][i] = [by |-> "close", verdict |-> "pending"])
      ~> status[w] # "validating"

\* /stop-all and DELETE report 'stopped': the process they stopped does end.
StoppedEnds ==
  \A w \in Workers :
    status[w] = "stopped" ~> \A n \in Procs : life[w][n] # "alive"

(* The inductive invariant: what the safety properties rest on. *)

\* The run of the 'close' handler has not ended yet.
CloseRunPending(w) ==
  \E i \in DOMAIN runs[w] :
    runs[w][i].by = "close" /\ runs[w][i].verdict = "pending"

\* Before a process was spawned there is nothing to validate, stop or remove.
NothingBeforeSpawn(w) ==
  phase[w] \in {"idle", "creating", "refused"} =>
    /\ status[w] = "none" \/ (status[w] = "starting" /\ phase[w] = "refused")
    /\ handle[w] = NoProc
    /\ runs[w] = <<>>
    /\ attempts[w] = 0
    /\ \A n \in Procs : life[w][n] = "none"
    /\ ~AutoCleanup(w)

StartedHasStatus(w) ==
  phase[w] \in {"noting", "listening"} => status[w] \notin {"none", "starting"}

\* Nothing goes on for a worker of a server that exited.
LostIsOver(w) ==
  phase[w] = "lost" =>
    handle[w] = NoProc /\ \A i \in DOMAIN runs[w] : runs[w][i].verdict # "pending"

\* The one run of the 'close' handler comes after the original process closed.
CloseRunAfterClose(w) ==
  \A i \in DOMAIN runs[w] : runs[w][i].by = "close" => life[w][1] = "gone"

\* A restart is the outcome of that run, so there is at most one.
RestartAfterCloseRun(w) ==
  /\ attempts[w] <= 1
  /\ attempts[w] = 1 => ~CloseRunPending(w) /\ life[w][1] = "gone"
  /\ \A n \in Procs : n > attempts[w] + 1 => life[w][n] = "none"

\* Nothing the listeners of the original process do is left to come: neither
\* its 'close' with code 0 nor the end of the run that this starts.
ListenersDone(w) == life[w][1] \in {"exit1", "gone"} /\ ~CloseRunPending(w)

WorkerInv(w) ==
  /\ NothingBeforeSpawn(w)
  /\ StartedHasStatus(w)
  /\ LostIsOver(w)
  /\ AtMostOneCloseRun(w)
  /\ CloseRunAfterClose(w)
  /\ RestartAfterCloseRun(w)
  /\ NoProcessToDisturb(w)
  /\ CompletionIsBacked(w)
  /\ WillSettle(w)
  /\ AutoCleanup(w) => ListenersDone(w)
  /\ status[w] = "failed" => ListenersDone(w)

IInv == \A w \in Workers : WorkerInv(w)

--------------------------------------------------------------------------
\* WorkerStatus is implemented: the changes of status a client may observe, and
\* no 'completed' without a run that passed.
Seen == INSTANCE WorkerStatus
          WITH validated <- {w \in Workers : RunsWith(w, "passed") # {}}
ImplementsWorkerStatus == Seen!Spec

--------------------------------------------------------------------------
(* What comments and tests of the repository say and the code does not do *)

\* "The main process handler will take care of validation on the next
\* completion", said of the restarted process.
RestartedIsValidated ==
  \A w \in Workers : \A n \in Procs \ {1} :
    (handle[w] = n /\ life[w][n] = "exit0") ~> status[w] # "running"

\* "Global error handlers to prevent server crashes": a process that cannot be
\* spawned does not end the server with all its workers.
ServerSurvivesErrors == \A w \in Workers : phase[w] # "lost"

\* "stops the worker, removes its worktree, and deletes it from the registry"
UnregisteredIsStopped ==
  \A w \in Workers :
    phase[w] \in {"noting", "listening"} /\ w \notin registered =>
      \A n \in Procs : life[w][n] = "alive" => n \in signalled[w]
==========================================================================
