------------------------ MODULE ValidationPipeline ------------------------
(***************************************************************************)
(* The validation runs of src/scripts/validate-task.ts inside one server:  *)
(* every runner starts the enabled stages as child processes, all at once  *)
(* or one after the other, gives each a timeout, takes the verdict, and    *)
(* adds an entry to the file validation-metrics.json.  All runners share   *)
(* the set runningProcesses, which the cleanup() of any of them empties.   *)
(*                                                                         *)
(* The callers are part of the model: the worker routes, which wait for    *)
(* the verdict, and the orchestrator and the wrapper, which give up after  *)
(* a timeout of their own while the runner goes on.                        *)
(***************************************************************************)
EXTENDS Naturals, Sequences, FiniteSets

CONSTANTS
  Runners,       \* the ValidationRunner objects, used once each
  Stages,        \* the places in the order of the configured stages
  Critical,      \* the stages without continueOnFailure
  Configurable,  \* the sets of stages each runner may find enabled
  caller         \* who makes each runner of a server, see Caller

Promise == {"waiting", "running", "passed", "failed"}
Proc == {"none", "spawnError", "alive", "exit0", "exit1"}
Caller == {"worker", "orchestrator", "wrapper"}

\* The server, whose runners all run in parallel mode, or main() with one
\* runner, in parallel mode or called with --sequential.
Mode == {"server", "parallel", "sequential"}

ASSUME PipelineAssumption ==
  /\ Stages \subseteq Nat
  /\ Critical \subseteq Stages
  /\ Configurable \in [Runners -> SUBSET SUBSET Stages]
  /\ caller \in [Runners -> Caller]

\* What the shutdown of the server and a stage's timeout write in killedBy.
Nobody == "nobody"
Timer == "timer"
Server == "server"

ASSUME RunnersAssumption == {Nobody, Timer, Server} \cap Runners = {}

VARIABLES
  mode,       \* which program runs, see Mode
  pc,         \* how far runValidation and its caller have come
  gaveUp,     \* the runners whose caller timed out
  enabled,    \* enabledStages
  stage,      \* the promise of each runStage
  proc,       \* the child process of each stage
  killedBy,   \* who sent it SIGTERM; not Nobody: ChildProcess.killed
  escalation, \* the pending two-second timers that should send SIGKILL
  forced,     \* the processes SIGKILL was sent to
  tracked,    \* runningProcesses
  verdict     \* what runValidation returned, or will

stageVars == <<stage, proc, killedBy, escalation, forced, tracked>>
runVars == <<mode, pc, enabled, gaveUp, verdict>>
vars == <<runVars, stageVars>>

Pairs == Runners \X Stages

TypeOK ==
  /\ mode \in Mode
  /\ pc \in [Runners -> {"idle", "loading", "running", "saving", "returned",
                         "cleaned", "lost"}]
  /\ gaveUp \in SUBSET Runners
  /\ enabled \in [Runners -> SUBSET Stages]
  /\ stage \in [Runners -> [Stages -> Promise]]
  /\ proc \in [Runners -> [Stages -> Proc]]
  /\ killedBy \in [Runners -> [Stages -> Runners \cup {Nobody, Timer, Server}]]
  /\ escalation \in SUBSET Pairs
  /\ forced \in SUBSET Pairs
  /\ tracked \in SUBSET Pairs
  /\ \A r \in Runners, s \in Stages :
       <<r, s>> \in tracked => stage[r][s] = "running"
  /\ verdict \in [Runners -> {"none", "passed", "failed"}]

Init ==
  /\ mode \in Mode
  /\ pc = [r \in Runners |-> "idle"]
  /\ gaveUp = {}
  /\ enabled = [r \in Runners |-> {}]
  /\ stage = [r \in Runners |-> [s \in Stages |-> "waiting"]]
  /\ proc = [r \in Runners |-> [s \in Stages |-> "none"]]
  /\ killedBy = [r \in Runners |-> [s \in Stages |-> Nobody]]
  /\ escalation = {}
  /\ forced = {}
  /\ tracked = {}
  /\ verdict = [r \in Runners |-> "none"]

--------------------------------------------------------------------------
(* Helpers *)

\* The stages of a runner whose promise is in state st.
In(r, st) == {s \in enabled[r] : stage[r][s] = st}

\* The processes cleanupProcesses() reaches: one that has exited, or never
\* started, gets no signal.
Reached == {p \in tracked : proc[p[1]][p[2]] = "alive"}

\* Mutant: the process set is emptied without a signal.
CleanupProcessesOnlyForgets(by) == tracked' = {} /\ UNCHANGED killedBy

\* cleanupProcesses(): SIGTERM to the tracked processes of every runner.
CleanupProcesses(by) ==
  /\ killedBy' = [r \in Runners |-> [s \in Stages |->
                    IF <<r, s>> \in Reached THEN by ELSE killedBy[r][s]]]
  /\ tracked' = {}

\* runStage is done with the process.
Settle(r, s, result) ==
  /\ stage' = [stage EXCEPT ![r][s] = result]
  /\ tracked' = tracked \ {<<r, s>>}

--------------------------------------------------------------------------
(* runValidation *)

Start(r) ==
  /\ pc[r] = "idle"
  /\ mode = "server" \/ \A q \in Runners : pc[q] = "idle"
  /\ pc' = [pc EXCEPT ![r] = "loading"]
  /\ UNCHANGED <<mode, enabled, gaveUp, verdict, stageVars>>

\* The stages of the database, or those of the settings file.
Loaded(r, S) ==
  /\ pc[r] = "loading"
  /\ S # {}
  /\ pc' = [pc EXCEPT ![r] = "running"]
  /\ enabled' = [enabled EXCEPT ![r] = S]
  /\ UNCHANGED <<mode, gaveUp, verdict, stageVars>>

\* No stage is enabled: passed, and the save is not awaited.
LoadedNone(r) ==
  /\ pc[r] = "loading"
  /\ pc' = [pc EXCEPT ![r] = "returned"]
  /\ verdict' = [verdict EXCEPT ![r] = "passed"]
  /\ UNCHANGED <<mode, enabled, gaveUp, stageVars>>

\* The stages cannot be read from the database.
LoadFails(r) ==
  /\ pc[r] = "loading"
  /\ pc' = [pc EXCEPT ![r] = "saving"]
  /\ verdict' = [verdict EXCEPT ![r] = "failed"]
  /\ UNCHANGED <<mode, enabled, gaveUp, stageVars>>

\* What is spawned next: every stage, or the first one that waits when the
\* one before has settled.
Due(r) ==
  IF mode # "sequential"
  THEN In(r, "waiting")
  ELSE {s \in In(r, "waiting") : \A t \in In(r, "waiting") : s <= t}

\* A spawn that throws ("none") fails the stage at once; one that fails is
\* reported by an 'error' event.
Launch(r, outcome) ==
  /\ pc[r] = "running"
  /\ In(r, "running") = {}
  /\ In(r, "waiting") # {}
  /\ stage' = [stage EXCEPT ![r] = [s \in Stages |->
                 IF s \notin Due(r) THEN @[s]
                 ELSE IF outcome[s] = "none" THEN "failed" ELSE "running"]]
  /\ proc' = [proc EXCEPT ![r] = [s \in Stages |->
                IF s \in Due(r) THEN outcome[s] ELSE @[s]]]
  /\ tracked' = tracked \cup
                  {<<r, s>> : s \in {t \in Due(r) : outcome[t] # "none"}}
  /\ UNCHANGED <<runVars, killedBy, escalation,
                 forced>>

\* Mutant: Promise.all rejects with the first critical failure.
AllSettledOrCritical(r) ==
  /\ pc[r] = "running"
  /\ In(r, "waiting") = {}
  /\ In(r, "running") = {} \/ In(r, "failed") \cap Critical # {}
  /\ pc' = [pc EXCEPT ![r] = "saving"]
  /\ verdict' = [verdict EXCEPT ![r] =
                   IF In(r, "failed") \cap Critical = {}
                   THEN "passed" ELSE "failed"]
  /\ UNCHANGED <<mode, enabled, gaveUp, stageVars>>

\* Every stage has settled: the verdict.
AllSettled(r) ==
  /\ pc[r] = "running"
  /\ In(r, "waiting") = {}
  /\ In(r, "running") = {}
  /\ pc' = [pc EXCEPT ![r] = "saving"]
  /\ verdict' = [verdict EXCEPT ![r] =
                   IF In(r, "failed") \cap Critical = {}
                   THEN "passed" ELSE "failed"]
  /\ UNCHANGED <<mode, enabled, gaveUp, stageVars>>

\* The awaited save has ended.
Return(r) ==
  /\ pc[r] = "saving"
  /\ pc' = [pc EXCEPT ![r] = "returned"]
  /\ UNCHANGED <<mode, enabled, gaveUp, verdict, stageVars>>

--------------------------------------------------------------------------
(* The processes of the stages *)

\* A process ends by itself or by a signal; a timer that is to kill it has
\* nothing left to do.
ProcessExit(r, s, how) ==
  /\ proc[r][s] = "alive"
  /\ proc' = [proc EXCEPT ![r][s] = how]
  /\ escalation' = escalation \ {<<r, s>>}
  /\ UNCHANGED <<runVars, stage, killedBy, forced,
                 tracked>>

\* The listeners of a stage that has not settled act on what comes first.
Listening(r, s) == stage[r][s] = "running" /\ pc[r] # "lost"

\* Mutant: the exit code is not looked at.
CloseAnyCode(r, s) ==
  /\ Listening(r, s)
  /\ proc[r][s] \in {"exit0", "exit1"}
  /\ Settle(r, s, "passed")
  /\ UNCHANGED <<runVars, proc, killedBy, escalation, forced>>

\* Mutant: the process stays in the set.
CloseKeepsTracked(r, s) ==
  /\ Listening(r, s)
  /\ proc[r][s] \in {"exit0", "exit1"}
  /\ stage' = [stage EXCEPT ![r][s] =
                 IF proc[r][s] = "exit0" THEN "passed" ELSE "failed"]
  /\ UNCHANGED <<runVars, proc, killedBy, escalation, forced, tracked>>

\* 'close'; a process ended by a signal has no code.
Close(r, s) ==
  /\ Listening(r, s)
  /\ \/ proc[r][s] = "exit0" /\ Settle(r, s, "passed")
     \/ proc[r][s] = "exit1" /\ Settle(r, s, "failed")
  /\ UNCHANGED <<runVars, proc, killedBy, escalation, forced>>

\* 'error' of a process that could not be spawned.
SpawnErrorEvent(r, s) ==
  /\ Listening(r, s)
  /\ proc[r][s] = "spawnError"
  /\ Settle(r, s, "failed")
  /\ UNCHANGED <<runVars, proc, killedBy, escalation, forced>>

\* Mutant: the promise is left to the 'close' event of the killed process.
TimeoutWaitsForClose(r, s) ==
  /\ Listening(r, s)
  /\ proc[r][s] = "alive" /\ killedBy[r][s] = Nobody
  /\ killedBy' = [killedBy EXCEPT ![r][s] = Timer]
  /\ escalation' = escalation \cup {<<r, s>>}
  /\ UNCHANGED <<runVars, stage, proc, forced, tracked>>

\* The stage's timeout: SIGTERM, unless the process got it from a cleanup, and
\* the stage fails without waiting for the process.  A process that has
\* exited, with the 'close' event still to come, gets no signal.
Timeout(r, s) ==
  /\ Listening(r, s)
  /\ proc[r][s] # "spawnError"
  /\ Settle(r, s, "failed")
  /\ IF proc[r][s] = "alive" /\ killedBy[r][s] = Nobody
     THEN /\ killedBy' = [killedBy EXCEPT ![r][s] = Timer]
          /\ escalation' = escalation \cup {<<r, s>>}
     ELSE UNCHANGED <<killedBy, escalation>>
  /\ UNCHANGED <<runVars, proc, forced>>

\* Two seconds after a SIGTERM: SIGKILL unless ChildProcess.killed, which says
\* that a signal was sent, not that the process ended.
Escalate(r, s) ==
  /\ <<r, s>> \in escalation
  /\ escalation' = escalation \ {<<r, s>>}
  /\ forced' = IF proc[r][s] = "alive" /\ killedBy[r][s] = Nobody
               THEN forced \cup {<<r, s>>}
               ELSE forced
  /\ UNCHANGED <<runVars, stage, proc, killedBy,
                 tracked>>

--------------------------------------------------------------------------
(* The callers, and the end of the server *)

\* The orchestrator and the wrapper stop waiting; the runner goes on.
CallerTimesOut(r) ==
  /\ mode = "server" /\ caller[r] # "worker"
  /\ pc[r] \in {"loading", "running", "saving"}
  /\ r \notin gaveUp
  /\ gaveUp' = gaveUp \cup {r}
  /\ UNCHANGED <<mode, pc, enabled, verdict, stageVars>>

\* cleanup(), once the verdict is there; the orchestrator calls it only if it
\* still waits.
Cleanup(r) ==
  /\ pc[r] = "returned"
  /\ caller[r] = "orchestrator" => r \notin gaveUp
  /\ pc' = [pc EXCEPT ![r] = "cleaned"]
  /\ CleanupProcesses(r)
  /\ escalation' = escalation \cup Reached
  /\ UNCHANGED <<mode, enabled, gaveUp, verdict, stage, proc, forced>>

\* SIGTERM, SIGINT or an uncaught exception: the handlers of validate-task.ts
\* clean up and exit, and the timers, the writes and the listeners with it.
ServerExit ==
  /\ \E r \in Runners : pc[r] \notin {"idle", "lost"}
  /\ pc' = [r \in Runners |-> IF pc[r] = "idle" THEN "idle" ELSE "lost"]
  /\ CleanupProcesses(Server)
  /\ escalation' = {}
  /\ UNCHANGED <<mode, enabled, gaveUp, verdict, stage, proc, forced>>

--------------------------------------------------------------------------
StageStep(r, s) ==
  \/ \E how \in {"exit0", "exit1"} : ProcessExit(r, s, how)
  \/ Close(r, s)
  \/ SpawnErrorEvent(r, s)
  \/ Timeout(r, s)
  \/ Escalate(r, s)

Load(r) ==
  \/ \E S \in Configurable[r] : Loaded(r, S)
  \/ LoadedNone(r)
  \/ LoadFails(r)

Proceed(r) ==
  \/ Load(r)
  \/ \E outcome \in [Stages -> {"none", "spawnError", "alive"}] :
       Launch(r, outcome)
  \/ AllSettled(r)
  \/ Return(r)

Next ==
  \/ \E r \in Runners :
       \/ Start(r)
       \/ Proceed(r)
       \/ \E s \in Stages : StageStep(r, s)
       \/ CallerTimesOut(r)
       \/ Cleanup(r)
  \/ ServerExit

Spec == Init /\ [][Next]_vars

\* The event loop runs what is due, timers included, and files and the
\* database answer.
Fairness ==
  \A r \in Runners :
    /\ WF_vars(Proceed(r))
    /\ \A s \in Stages :
         WF_vars(Close(r, s) \/ SpawnErrorEvent(r, s) \/ Timeout(r, s))

FairSpec == Spec /\ Fairness

\* No process has to end, unless SIGKILL was sent to it.
KillFairness ==
  \A r \in Runners, s \in Stages :
    /\ WF_vars(Escalate(r, s))
    /\ WF_vars(<<r, s>> \in forced /\ ProcessExit(r, s, "exit1"))

--------------------------------------------------------------------------
(* Properties *)

\* 'passed' is earned: every stage that may not fail had a process that ended
\* with code 0, whatever timed out, was killed by another runner's cleanup or
\* closed late.
VerdictIsEarned ==
  \A r \in Runners : verdict[r] = "passed" =>
    \A s \in enabled[r] \cap Critical : proc[r][s] = "exit0"

\* cleanup() signals the processes of all runners; it never meets one of the
\* runner whose verdict it follows, because every stage is waited for.
CleanupHarmsOthersOnly ==
  \A r \in Runners, s \in Stages : killedBy[r][s] # r

\* No process is forgotten: once its runner has a verdict, or the server has
\* exited, a process that still lives got a signal.
NoOrphans ==
  \A r \in Runners, s \in Stages :
    proc[r][s] = "alive" /\ (verdict[r] # "none" \/ pc[r] = "lost")
      => killedBy[r][s] # Nobody

\* Every run comes to an end: each stage has a timeout that does not wait for
\* its process.  The models of the callers take this for granted.
RunReturns ==
  \A r \in Runners :
    pc[r] = "loading" ~> pc[r] \in {"returned", "cleaned", "lost"}

(* The inductive invariant: what the safety properties rest on. *)

\* The verdict follows the last stage, and nothing is run after it.
VerdictIsLast(r) ==
  /\ pc[r] \in {"idle", "loading"} => enabled[r] = {}
  /\ \A s \in Stages \ enabled[r] : stage[r][s] = "waiting"
  /\ pc[r] \in {"idle", "loading", "running"} => verdict[r] = "none"
  /\ pc[r] \in {"idle", "loading", "saving", "returned", "cleaned"} =>
       \A s \in Stages : stage[r][s] # "running"

\* A stage passes with its process, and a runner with its critical stages.
PassedIsBacked(r) ==
  /\ \A s \in Stages : stage[r][s] = "passed" => proc[r][s] = "exit0"
  /\ verdict[r] = "passed" =>
       \A s \in enabled[r] \cap Critical : stage[r][s] = "passed"

\* A living process is one that cleanupProcesses() would reach, or was
\* signalled; none is left to reach of a server that exited.
LiveIsReached(r) ==
  /\ \A s \in Stages :
       proc[r][s] = "alive" => <<r, s>> \in tracked \/ killedBy[r][s] # Nobody
  /\ pc[r] = "lost" => \A s \in Stages : <<r, s>> \notin tracked

NoSelfHarm(r) == \A s \in Stages : killedBy[r][s] # r

IInv ==
  \A r \in Runners :
    VerdictIsLast(r) /\ PassedIsBacked(r) /\ LiveIsReached(r) /\ NoSelfHarm(r)

--------------------------------------------------------------------------
(* What comments of the repository say and the code does not do *)

\* "Force kill after 2 seconds": a process that the timeout of its stage
\* signalled ends, if only by SIGKILL.
TimedOutProcessEnds ==
  \A r \in Runners, s \in Stages :
    killedBy[r][s] = Timer ~> proc[r][s] # "alive" \/ pc[r] = "lost"
==========================================================================
