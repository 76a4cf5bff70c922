--------------------- MODULE ValidationPipeline_proofs ---------------------
(***************************************************************************)
(* Proofs about the validation runner: about ValidationPipeline, for any   *)
(* number of runners and stages, and about MetricsFile, for any number of  *)
(* runs and any MaxEntries.                                                *)
(***************************************************************************)
EXTENDS ValidationPipeline, MetricsFile, SequenceTheorems, TLAPS

(* The pipeline.  One lemma per action: it preserves types and the         *)
(* inductive invariant.                                                    *)

\* new ValidationRunner, runValidation()
LEMMA StartStep ==
  ASSUME TypeOK, IInv, NEW r \in Runners, Start(r)
  PROVE  TypeOK' /\ IInv'
<1>1. TypeOK'
  BY PipelineAssumption DEF TypeOK, Start, runVars, stageVars, Mode,
     Promise, Proc, Pairs
<1>2. \A q \in Runners : VerdictIsLast(q)'
  BY RunnersAssumption DEF TypeOK, Start, runVars, stageVars, IInv,
     VerdictIsLast, Nobody, Timer, Server
<1>3. \A q \in Runners : PassedIsBacked(q)'
  BY RunnersAssumption DEF TypeOK, Start, runVars, stageVars, IInv,
     PassedIsBacked, Nobody, Timer, Server
<1>4. \A q \in Runners : LiveIsReached(q)'
  BY RunnersAssumption DEF TypeOK, Start, runVars, stageVars, IInv,
     LiveIsReached, Nobody, Timer, Server
<1>5. \A q \in Runners : NoSelfHarm(q)'
  BY RunnersAssumption DEF TypeOK, Start, runVars, stageVars, IInv,
     NoSelfHarm, Nobody, Timer, Server
<1> QED BY <1>1, <1>2, <1>3, <1>4, <1>5 DEF IInv

\* loadValidationStages
LEMMA LoadedStep ==
  ASSUME TypeOK, IInv, NEW r \in Runners, NEW S \in Configurable[r], Loaded(r,
         S)
  PROVE  TypeOK' /\ IInv'
<1>1. TypeOK'
  BY PipelineAssumption DEF TypeOK, Loaded, runVars, stageVars, Mode,
     Promise, Proc, Pairs
<1>2. \A q \in Runners : VerdictIsLast(q)'
  BY RunnersAssumption DEF TypeOK, Loaded, runVars, stageVars, IInv,
     VerdictIsLast, Nobody, Timer, Server
<1>3. \A q \in Runners : PassedIsBacked(q)'
  BY RunnersAssumption DEF TypeOK, Loaded, runVars, stageVars, IInv,
     PassedIsBacked, Nobody, Timer, Server, VerdictIsLast
<1>4. \A q \in Runners : LiveIsReached(q)'
  BY RunnersAssumption DEF TypeOK, Loaded, runVars, stageVars, IInv,
     LiveIsReached, Nobody, Timer, Server
<1>5. \A q \in Runners : NoSelfHarm(q)'
  BY RunnersAssumption DEF TypeOK, Loaded, runVars, stageVars, IInv,
     NoSelfHarm, Nobody, Timer, Server
<1> QED BY <1>1, <1>2, <1>3, <1>4, <1>5 DEF IInv

\* runValidation without stages
LEMMA LoadedNoneStep ==
  ASSUME TypeOK, IInv, NEW r \in Runners, LoadedNone(r)
  PROVE  TypeOK' /\ IInv'
<1>1. TypeOK'
  BY PipelineAssumption DEF TypeOK, LoadedNone, runVars, stageVars, Mode,
     Promise, Proc, Pairs
<1>2. \A q \in Runners : VerdictIsLast(q)'
  BY RunnersAssumption DEF TypeOK, LoadedNone, runVars, stageVars, IInv,
     VerdictIsLast, Nobody, Timer, Server
<1>3. \A q \in Runners : PassedIsBacked(q)'
  BY RunnersAssumption DEF TypeOK, LoadedNone, runVars, stageVars, IInv,
     PassedIsBacked, Nobody, Timer, Server, VerdictIsLast
<1>4. \A q \in Runners : LiveIsReached(q)'
  BY RunnersAssumption DEF TypeOK, LoadedNone, runVars, stageVars, IInv,
     LiveIsReached, Nobody, Timer, Server
<1>5. \A q \in Runners : NoSelfHarm(q)'
  BY RunnersAssumption DEF TypeOK, LoadedNone, runVars, stageVars, IInv,
     NoSelfHarm, Nobody, Timer, Server
<1> QED BY <1>1, <1>2, <1>3, <1>4, <1>5 DEF IInv

\* runValidation, the catch block
LEMMA LoadFailsStep ==
  ASSUME TypeOK, IInv, NEW r \in Runners, LoadFails(r)
  PROVE  TypeOK' /\ IInv'
<1>1. TypeOK'
  BY PipelineAssumption DEF TypeOK, LoadFails, runVars, stageVars, Mode,
     Promise, Proc, Pairs
<1>2. \A q \in Runners : VerdictIsLast(q)'
  BY RunnersAssumption DEF TypeOK, LoadFails, runVars, stageVars, IInv,
     VerdictIsLast, Nobody, Timer, Server
<1>3. \A q \in Runners : PassedIsBacked(q)'
  BY RunnersAssumption DEF TypeOK, LoadFails, runVars, stageVars, IInv,
     PassedIsBacked, Nobody, Timer, Server
<1>4. \A q \in Runners : LiveIsReached(q)'
  BY RunnersAssumption DEF TypeOK, LoadFails, runVars, stageVars, IInv,
     LiveIsReached, Nobody, Timer, Server
<1>5. \A q \in Runners : NoSelfHarm(q)'
  BY RunnersAssumption DEF TypeOK, LoadFails, runVars, stageVars, IInv,
     NoSelfHarm, Nobody, Timer, Server
<1> QED BY <1>1, <1>2, <1>3, <1>4, <1>5 DEF IInv

\* runParallelStages and runSequentialStages spawn
LEMMA LaunchStep ==
  ASSUME TypeOK, IInv, NEW r \in Runners,
         NEW outcome \in [Stages -> {"none", "spawnError", "alive"}],
         Launch(r, outcome)
  PROVE  TypeOK' /\ IInv'
<1>1. TypeOK'
  BY PipelineAssumption DEF TypeOK, Launch, In, Due, runVars, stageVars,
     Mode, Promise, Proc, Pairs
<1>2. \A q \in Runners : VerdictIsLast(q)'
  BY RunnersAssumption DEF TypeOK, Launch, In, Due, runVars, stageVars,
     IInv, VerdictIsLast, Nobody, Timer, Server
<1>3. \A q \in Runners : PassedIsBacked(q)'
  BY RunnersAssumption DEF TypeOK, Launch, In, Due, runVars, stageVars,
     IInv, PassedIsBacked, Nobody, Timer, Server
<1>4. \A q \in Runners : LiveIsReached(q)'
  BY RunnersAssumption DEF TypeOK, Launch, In, Due, runVars, stageVars,
     IInv, LiveIsReached, Nobody, Timer, Server
<1>5. \A q \in Runners : NoSelfHarm(q)'
  BY RunnersAssumption DEF TypeOK, Launch, In, Due, runVars, stageVars,
     IInv, NoSelfHarm, Nobody, Timer, Server
<1> QED BY <1>1, <1>2, <1>3, <1>4, <1>5 DEF IInv

\* The verdict
LEMMA AllSettledStep ==
  ASSUME TypeOK, IInv, NEW r \in Runners, AllSettled(r)
  PROVE  TypeOK' /\ IInv'
<1>1. TypeOK'
  BY PipelineAssumption DEF TypeOK, AllSettled, In, runVars, stageVars,
     Mode, Promise, Proc, Pairs
<1>2. \A q \in Runners : VerdictIsLast(q)'
  BY RunnersAssumption DEF TypeOK, AllSettled, In, runVars, stageVars,
     IInv, VerdictIsLast, Nobody, Timer, Server, Promise
<1>3. \A q \in Runners : PassedIsBacked(q)'
  <2>1. ASSUME In(r, "failed") \cap Critical = {},
               NEW s \in enabled[r] \cap Critical
        PROVE  stage[r][s] = "passed"
    BY <2>1 DEF TypeOK, AllSettled, In, Promise
  <2> QED
    BY <2>1 DEF TypeOK, AllSettled, stageVars, IInv, PassedIsBacked
<1>4. \A q \in Runners : LiveIsReached(q)'
  BY RunnersAssumption DEF TypeOK, AllSettled, In, runVars, stageVars,
     IInv, LiveIsReached, Nobody, Timer, Server
<1>5. \A q \in Runners : NoSelfHarm(q)'
  BY RunnersAssumption DEF TypeOK, AllSettled, In, runVars, stageVars,
     IInv, NoSelfHarm, Nobody, Timer, Server
<1> QED BY <1>1, <1>2, <1>3, <1>4, <1>5 DEF IInv

\* runValidation returns
LEMMA ReturnStep ==
  ASSUME TypeOK, IInv, NEW r \in Runners, Return(r)
  PROVE  TypeOK' /\ IInv'
<1>1. TypeOK'
  BY PipelineAssumption DEF TypeOK, Return, runVars, stageVars, Mode,
     Promise, Proc, Pairs
<1>2. \A q \in Runners : VerdictIsLast(q)'
  BY RunnersAssumption DEF TypeOK, Return, runVars, stageVars, IInv,
     VerdictIsLast, Nobody, Timer, Server
<1>3. \A q \in Runners : PassedIsBacked(q)'
  BY RunnersAssumption DEF TypeOK, Return, runVars, stageVars, IInv,
     PassedIsBacked, Nobody, Timer, Server
<1>4. \A q \in Runners : LiveIsReached(q)'
  BY RunnersAssumption DEF TypeOK, Return, runVars, stageVars, IInv,
     LiveIsReached, Nobody, Timer, Server
<1>5. \A q \in Runners : NoSelfHarm(q)'
  BY RunnersAssumption DEF TypeOK, Return, runVars, stageVars, IInv,
     NoSelfHarm, Nobody, Timer, Server
<1> QED BY <1>1, <1>2, <1>3, <1>4, <1>5 DEF IInv

\* A child process ends
LEMMA ProcessExitStep ==
  ASSUME TypeOK, IInv, NEW r \in Runners, NEW s \in Stages,
         NEW how \in {"exit0", "exit1"}, ProcessExit(r, s, how)
  PROVE  TypeOK' /\ IInv'
<1>1. TypeOK'
  BY PipelineAssumption DEF TypeOK, ProcessExit, runVars, stageVars, Mode,
     Promise, Proc, Pairs
<1>2. \A q \in Runners : VerdictIsLast(q)'
  BY RunnersAssumption DEF TypeOK, ProcessExit, runVars, stageVars, IInv,
     VerdictIsLast, Nobody, Timer, Server
<1>3. \A q \in Runners : PassedIsBacked(q)'
  BY RunnersAssumption DEF TypeOK, ProcessExit, runVars, stageVars, IInv,
     PassedIsBacked, Nobody, Timer, Server
<1>4. \A q \in Runners : LiveIsReached(q)'
  BY RunnersAssumption DEF TypeOK, ProcessExit, runVars, stageVars, IInv,
     LiveIsReached, Nobody, Timer, Server
<1>5. \A q \in Runners : NoSelfHarm(q)'
  BY RunnersAssumption DEF TypeOK, ProcessExit, runVars, stageVars, IInv,
     NoSelfHarm, Nobody, Timer, Server
<1> QED BY <1>1, <1>2, <1>3, <1>4, <1>5 DEF IInv

\* 'close'
LEMMA CloseStep ==
  ASSUME TypeOK, IInv, NEW r \in Runners, NEW s \in Stages, Close(r, s)
  PROVE  TypeOK' /\ IInv'
<1>0. PICK result \in {"passed", "failed"} :
        Settle(r, s, result) /\ (result = "passed" => proc[r][s] = "exit0")
  BY DEF Close
<1>1. TypeOK'
  <2>1. /\ stage' \in [Runners -> [Stages -> Promise]]
        /\ tracked' \in SUBSET Pairs
    BY <1>0 DEF TypeOK, Settle, Promise
  <2>2. \A q \in Runners, t \in Stages :
          <<q, t>> \in tracked' => stage'[q][t] = "running"
    BY <1>0 DEF TypeOK, Settle
  <2> QED
    BY <2>1, <2>2 DEF TypeOK, Close, runVars, Pairs, Proc
<1>2. \A q \in Runners : VerdictIsLast(q)'
  BY <1>0 DEF TypeOK, Close, Listening, Settle, runVars, IInv, VerdictIsLast
<1>3. \A q \in Runners : PassedIsBacked(q)'
  <2>1. \A q \in Runners, t \in Stages :
          stage'[q][t] = IF q = r /\ t = s THEN result ELSE stage[q][t]
    BY <1>0 DEF TypeOK, Settle
  <2>2. stage[r][s] = "running" /\ UNCHANGED <<proc, verdict, enabled>>
    BY DEF Close, Listening, runVars
  <2>3. \A q \in Runners, t \in Stages :
          stage[q][t] = "passed" => stage'[q][t] = "passed"
    BY <2>1, <2>2
  <2>4. \A q \in Runners, t \in Stages :
          stage'[q][t] = "passed" => proc'[q][t] = "exit0"
    BY <1>0, <2>1, <2>2 DEF IInv, PassedIsBacked
  <2> QED
    BY <2>2, <2>3, <2>4 DEF TypeOK, IInv, PassedIsBacked
<1>4. \A q \in Runners : LiveIsReached(q)'
  BY RunnersAssumption DEF TypeOK, Close, Listening, Settle, runVars,
     stageVars, IInv, LiveIsReached, Nobody, Timer, Server
<1>5. \A q \in Runners : NoSelfHarm(q)'
  BY RunnersAssumption DEF TypeOK, Close, Listening, Settle, runVars,
     stageVars, IInv, NoSelfHarm, Nobody, Timer, Server
<1> QED BY <1>1, <1>2, <1>3, <1>4, <1>5 DEF IInv

\* 'error'
LEMMA SpawnErrorEventStep ==
  ASSUME TypeOK, IInv, NEW r \in Runners, NEW s \in Stages, SpawnErrorEvent(r,
         s)
  PROVE  TypeOK' /\ IInv'
<1>1. TypeOK'
  BY PipelineAssumption DEF TypeOK, SpawnErrorEvent, Listening, Settle,
     runVars, stageVars, Mode, Promise, Proc, Pairs
<1>2. \A q \in Runners : VerdictIsLast(q)'
  BY RunnersAssumption DEF TypeOK, SpawnErrorEvent, Listening, Settle,
     runVars, stageVars, IInv, VerdictIsLast, Nobody, Timer, Server
<1>3. \A q \in Runners : PassedIsBacked(q)'
  BY RunnersAssumption DEF TypeOK, SpawnErrorEvent, Listening, Settle,
     runVars, stageVars, IInv, PassedIsBacked, Nobody, Timer, Server
<1>4. \A q \in Runners : LiveIsReached(q)'
  BY RunnersAssumption DEF TypeOK, SpawnErrorEvent, Listening, Settle,
     runVars, stageVars, IInv, LiveIsReached, Nobody, Timer, Server
<1>5. \A q \in Runners : NoSelfHarm(q)'
  BY RunnersAssumption DEF TypeOK, SpawnErrorEvent, Listening, Settle,
     runVars, stageVars, IInv, NoSelfHarm, Nobody, Timer, Server
<1> QED BY <1>1, <1>2, <1>3, <1>4, <1>5 DEF IInv

\* The stage's timeout
LEMMA TimeoutStep ==
  ASSUME TypeOK, IInv, NEW r \in Runners, NEW s \in Stages, Timeout(r, s)
  PROVE  TypeOK' /\ IInv'
<1>1. TypeOK'
  <2>1. /\ stage' \in [Runners -> [Stages -> Promise]]
        /\ tracked' \in SUBSET Pairs
    BY DEF TypeOK, Timeout, Listening, Settle, Promise
  <2>2. \A q \in Runners, t \in Stages :
          <<q, t>> \in tracked' => stage'[q][t] = "running"
    BY DEF TypeOK, Timeout, Listening, Settle
  <2>3. /\ killedBy' \in [Runners -> [Stages -> Runners \cup
                                                 {Nobody, Timer, Server}]]
        /\ escalation' \in SUBSET Pairs
    <3>1. CASE proc[r][s] = "alive" /\ killedBy[r][s] = Nobody
      <4>1. /\ killedBy' = [killedBy EXCEPT ![r][s] = Timer]
            /\ escalation' = escalation \cup {<<r, s>>}
        BY <3>1 DEF Timeout
      <4> QED BY <4>1 DEF TypeOK, Pairs
    <3>2. CASE ~(proc[r][s] = "alive" /\ killedBy[r][s] = Nobody)
      BY <3>2 DEF TypeOK, Timeout
    <3> QED BY <3>1, <3>2
  <2>4. UNCHANGED <<runVars, proc, forced>>
    BY DEF Timeout
  <2> QED
    BY <2>1, <2>2, <2>3, <2>4 DEF TypeOK, runVars
<1>2. \A q \in Runners : VerdictIsLast(q)'
  BY RunnersAssumption DEF TypeOK, Timeout, Listening, Settle, runVars,
     stageVars, IInv, VerdictIsLast, Nobody, Timer, Server
<1>3. \A q \in Runners : PassedIsBacked(q)'
  BY RunnersAssumption DEF TypeOK, Timeout, Listening, Settle, runVars,
     stageVars, IInv, PassedIsBacked, Nobody, Timer, Server
<1>4. \A q \in Runners : LiveIsReached(q)'
  BY RunnersAssumption DEF TypeOK, Timeout, Listening, Settle, runVars,
     stageVars, IInv, LiveIsReached, Nobody, Timer, Server
<1>5. \A q \in Runners : NoSelfHarm(q)'
  <2>1. \A q \in Runners, t \in Stages :
          killedBy'[q][t] \in {killedBy[q][t], Timer}
    BY DEF TypeOK, Timeout
  <2>2. Timer \notin Runners
    BY RunnersAssumption
  <2> QED BY <2>1, <2>2 DEF IInv, NoSelfHarm
<1> QED BY <1>1, <1>2, <1>3, <1>4, <1>5 DEF IInv

\* The timer for SIGKILL
LEMMA EscalateStep ==
  ASSUME TypeOK, IInv, NEW r \in Runners, NEW s \in Stages, Escalate(r, s)
  PROVE  TypeOK' /\ IInv'
<1>1. TypeOK'
  BY PipelineAssumption DEF TypeOK, Escalate, runVars, stageVars, Mode,
     Promise, Proc, Pairs
<1>2. \A q \in Runners : VerdictIsLast(q)'
  BY RunnersAssumption DEF TypeOK, Escalate, runVars, stageVars, IInv,
     VerdictIsLast, Nobody, Timer, Server
<1>3. \A q \in Runners : PassedIsBacked(q)'
  BY RunnersAssumption DEF TypeOK, Escalate, runVars, stageVars, IInv,
     PassedIsBacked, Nobody, Timer, Server
<1>4. \A q \in Runners : LiveIsReached(q)'
  BY RunnersAssumption DEF TypeOK, Escalate, runVars, stageVars, IInv,
     LiveIsReached, Nobody, Timer, Server
<1>5. \A q \in Runners : NoSelfHarm(q)'
  BY RunnersAssumption DEF TypeOK, Escalate, runVars, stageVars, IInv,
     NoSelfHarm, Nobody, Timer, Server
<1> QED BY <1>1, <1>2, <1>3, <1>4, <1>5 DEF IInv

\* The caller's timeout
LEMMA CallerTimesOutStep ==
  ASSUME TypeOK, IInv, NEW r \in Runners, CallerTimesOut(r)
  PROVE  TypeOK' /\ IInv'
<1>1. TypeOK'
  BY PipelineAssumption DEF TypeOK, CallerTimesOut, runVars, stageVars,
     Mode, Promise, Proc, Pairs
<1>2. \A q \in Runners : VerdictIsLast(q)'
  BY RunnersAssumption DEF TypeOK, CallerTimesOut, runVars, stageVars,
     IInv, VerdictIsLast, Nobody, Timer, Server
<1>3. \A q \in Runners : PassedIsBacked(q)'
  BY RunnersAssumption DEF TypeOK, CallerTimesOut, runVars, stageVars,
     IInv, PassedIsBacked, Nobody, Timer, Server
<1>4. \A q \in Runners : LiveIsReached(q)'
  BY RunnersAssumption DEF TypeOK, CallerTimesOut, runVars, stageVars,
     IInv, LiveIsReached, Nobody, Timer, Server
<1>5. \A q \in Runners : NoSelfHarm(q)'
  BY RunnersAssumption DEF TypeOK, CallerTimesOut, runVars, stageVars,
     IInv, NoSelfHarm, Nobody, Timer, Server
<1> QED BY <1>1, <1>2, <1>3, <1>4, <1>5 DEF IInv

\* cleanup()
LEMMA CleanupStep ==
  ASSUME TypeOK, IInv, NEW r \in Runners, Cleanup(r)
  PROVE  TypeOK' /\ IInv'
<1>1. TypeOK'
  BY PipelineAssumption DEF TypeOK, Cleanup, CleanupProcesses, Reached,
     runVars, stageVars, Mode, Promise, Proc, Pairs
<1>2. \A q \in Runners : VerdictIsLast(q)'
  BY RunnersAssumption DEF TypeOK, Cleanup, CleanupProcesses, Reached,
     runVars, stageVars, IInv, VerdictIsLast, Nobody, Timer, Server
<1>3. \A q \in Runners : PassedIsBacked(q)'
  BY RunnersAssumption DEF TypeOK, Cleanup, CleanupProcesses, Reached,
     runVars, stageVars, IInv, PassedIsBacked, Nobody, Timer, Server
<1>4. \A q \in Runners : LiveIsReached(q)'
  BY RunnersAssumption DEF TypeOK, Cleanup, CleanupProcesses, Reached,
     runVars, stageVars, IInv, LiveIsReached, Nobody, Timer, Server
<1>5. \A q \in Runners : NoSelfHarm(q)'
  <2>1. \A t \in Stages : <<r, t>> \notin tracked
    BY DEF TypeOK, Cleanup, IInv, VerdictIsLast
  <2>2. \A q \in Runners, t \in Stages :
          killedBy'[q][t] = IF <<q, t>> \in Reached THEN r ELSE killedBy[q][t]
    BY DEF TypeOK, Cleanup, CleanupProcesses
  <2>3. \A t \in Stages : <<r, t>> \notin Reached
    BY <2>1 DEF Reached
  <2> QED BY <2>2, <2>3 DEF IInv, NoSelfHarm
<1> QED BY <1>1, <1>2, <1>3, <1>4, <1>5 DEF IInv

\* The process handlers
LEMMA ServerExitStep ==
  ASSUME TypeOK, IInv, ServerExit
  PROVE  TypeOK' /\ IInv'
<1>1. TypeOK'
  BY PipelineAssumption DEF TypeOK, ServerExit, CleanupProcesses, Reached,
     runVars, stageVars, Mode, Promise, Proc, Pairs
<1>2. \A q \in Runners : VerdictIsLast(q)'
  BY RunnersAssumption DEF TypeOK, ServerExit, CleanupProcesses, Reached,
     runVars, stageVars, IInv, VerdictIsLast, Nobody, Timer, Server
<1>3. \A q \in Runners : PassedIsBacked(q)'
  BY RunnersAssumption DEF TypeOK, ServerExit, CleanupProcesses, Reached,
     runVars, stageVars, IInv, PassedIsBacked, Nobody, Timer, Server
<1>4. \A q \in Runners : LiveIsReached(q)'
  BY RunnersAssumption DEF TypeOK, ServerExit, CleanupProcesses, Reached,
     runVars, stageVars, IInv, LiveIsReached, Nobody, Timer, Server
<1>5. \A q \in Runners : NoSelfHarm(q)'
  BY RunnersAssumption DEF TypeOK, ServerExit, CleanupProcesses, Reached,
     runVars, stageVars, IInv, NoSelfHarm, Nobody, Timer, Server
<1> QED BY <1>1, <1>2, <1>3, <1>4, <1>5 DEF IInv

-----------------------------------------------------------------------------
(* The theorems about the pipeline. *)

LEMMA PipelineStart == Init => TypeOK /\ IInv
<1> SUFFICES ASSUME Init PROVE TypeOK /\ IInv
  OBVIOUS
<1>1. TypeOK
  BY DEF Init, TypeOK, Promise, Proc, Pairs
<1>2. IInv
  BY RunnersAssumption DEF Init, IInv, VerdictIsLast, PassedIsBacked,
     LiveIsReached, NoSelfHarm, Nobody, Timer, Server
<1> QED BY <1>1, <1>2

LEMMA PipelineStep == TypeOK /\ IInv /\ [Next]_vars => TypeOK' /\ IInv'
<1> SUFFICES ASSUME TypeOK, IInv, [Next]_vars PROVE TypeOK' /\ IInv'
  OBVIOUS
<1>1. CASE UNCHANGED vars
  BY <1>1 DEF TypeOK, IInv, VerdictIsLast, PassedIsBacked, LiveIsReached,
     NoSelfHarm, vars, runVars, stageVars
<1>2. CASE ServerExit
  BY <1>2, ServerExitStep
<1>3. ASSUME NEW r \in Runners, Start(r) \/ Proceed(r)
      PROVE  TypeOK' /\ IInv'
  <2>1. CASE Start(r)
    BY <2>1, StartStep
  <2>2. CASE Load(r)
    BY <2>2, LoadedStep, LoadedNoneStep, LoadFailsStep DEF Load
  <2>3. CASE \E outcome \in [Stages -> {"none", "spawnError", "alive"}] :
               Launch(r, outcome)
    BY <2>3, LaunchStep
  <2>4. CASE AllSettled(r) \/ Return(r)
    BY <2>4, AllSettledStep, ReturnStep
  <2> QED BY <1>3, <2>1, <2>2, <2>3, <2>4 DEF Proceed
<1>4. ASSUME NEW r \in Runners, NEW s \in Stages, StageStep(r, s)
      PROVE  TypeOK' /\ IInv'
  BY <1>4, ProcessExitStep, CloseStep, SpawnErrorEventStep, TimeoutStep,
     EscalateStep DEF StageStep
<1>5. ASSUME NEW r \in Runners, CallerTimesOut(r) \/ Cleanup(r)
      PROVE  TypeOK' /\ IInv'
  BY <1>5, CallerTimesOutStep, CleanupStep
<1> QED BY <1>1, <1>2, <1>3, <1>4, <1>5 DEF Next

\* The inductive invariant holds in every reachable state.
THEOREM Inductive == Spec => [](TypeOK /\ IInv)
  BY PipelineStart, PipelineStep, PTL DEF Spec

\* Every variable keeps its type; the shared set runningProcesses holds only
\* processes of stages that have not settled (runStage).
THEOREM TypeCorrect == Spec => []TypeOK
  BY Inductive, PTL

\* A passed validation had every critical stage end with code 0 (runStage,
\* runParallelStages, runSequentialStages).
THEOREM PassedIsEarned == Spec => []VerdictIsEarned
<1>1. TypeOK /\ IInv => VerdictIsEarned
  BY DEF TypeOK, IInv, PassedIsBacked, VerdictIsEarned
<1> QED BY Inductive, <1>1, PTL

\* cleanup() never signals a process of its own runner (runValidation,
\* cleanupProcesses).
THEOREM CleanupSparesItsOwn == Spec => []CleanupHarmsOthersOnly
<1>1. TypeOK /\ IInv => CleanupHarmsOthersOnly
  BY DEF IInv, NoSelfHarm, CleanupHarmsOthersOnly
<1> QED BY Inductive, <1>1, PTL

\* No process outlives its runner's verdict, or the server, without a signal
\* (runStage, cleanupProcesses).
THEOREM NoneIsOrphaned == Spec => []NoOrphans
<1>1. TypeOK /\ IInv => NoOrphans
  <2> SUFFICES ASSUME TypeOK, IInv, NEW r \in Runners, NEW s \in Stages,
                      proc[r][s] = "alive",
                      verdict[r] # "none" \/ pc[r] = "lost"
               PROVE  killedBy[r][s] # Nobody
    BY DEF NoOrphans
  <2>1. <<r, s>> \notin tracked
    BY DEF TypeOK, IInv, VerdictIsLast, LiveIsReached
  <2> QED BY <2>1 DEF IInv, LiveIsReached
<1> QED BY Inductive, <1>1, PTL

-----------------------------------------------------------------------------
(* The metrics file: sequences *)

\* What Newest returns, entry by entry.
LEMMA NewestProperties ==
  ASSUME NEW s \in Seq(Savers)
  PROVE  /\ Newest(s) \in Seq(Savers)
         /\ Len(Newest(s)) = IF Len(s) > MaxEntries THEN MaxEntries ELSE Len(s)
         /\ \A i \in 1 .. Len(Newest(s)) :
              Newest(s)[i] = s[Len(s) - Len(Newest(s)) + i]
<1> DEFINE m == IF Len(s) > MaxEntries THEN Len(s) - MaxEntries + 1 ELSE 1
<1>1. Len(s) \in Nat /\ MaxEntries \in Nat /\ MaxEntries > 0
  BY LenProperties, MetricsAssumption
<1>2. m \in 1 .. Len(s) + 1
  BY <1>1
<1>3. /\ SubSeq(s, m, Len(s)) \in Seq(Savers)
      /\ Len(SubSeq(s, m, Len(s))) =
           IF m <= Len(s) THEN Len(s) - m + 1 ELSE 0
      /\ \A i \in 1 .. Len(s) - m + 1 : SubSeq(s, m, Len(s))[i] = s[m + i - 1]
  <2> HIDE DEF m
  <2>1. \A i \in m .. Len(s) : s[i] \in Savers
    BY <1>1, <1>2, ElementOfSeq
  <2>2. m \in Int /\ Len(s) \in Int
    BY <1>1, <1>2
  <2> QED BY <2>1, <2>2, SubSeqProperties
<1>4. Newest(s) = SubSeq(s, m, Len(s))
  BY DEF Newest
<1>5. Len(Newest(s)) = Len(s) - m + 1
  <2> HIDE DEF m
  <2>1. Len(Newest(s)) = IF m <= Len(s) THEN Len(s) - m + 1 ELSE 0
    BY <1>3, <1>4
  <2> QED BY <1>1, <1>2, <2>1
<1>6. \A i \in 1 .. Len(Newest(s)) : m + i - 1 = Len(s) - Len(Newest(s)) + i
  <2> HIDE DEF m
  <2> QED BY <1>1, <1>2, <1>5
<1>7. \A i \in 1 .. Len(Newest(s)) :
        Newest(s)[i] = s[Len(s) - Len(Newest(s)) + i]
  <2> HIDE DEF m
  <2> QED BY <1>3, <1>4, <1>5, <1>6
<1>8. Len(Newest(s)) = IF Len(s) > MaxEntries THEN MaxEntries ELSE Len(s)
  BY <1>1, <1>5
<1> QED BY <1>3, <1>4, <1>7, <1>8

\* trimMetricsHistory keeps the newest entries.
LEMMA TrimIsNewest ==
  ASSUME NEW s \in Seq(Savers)
  PROVE  Trim(s) = Newest(s)
<1>1. Len(s) \in Nat
  BY LenProperties
<1>2. CASE Len(s) > MaxEntries
  BY <1>2 DEF Trim, Newest
<1>3. CASE ~(Len(s) > MaxEntries)
  BY <1>1, <1>3, SubSeqFull DEF Trim, Newest
<1> QED BY <1>2, <1>3

\* Trimming after each write loses nothing that trimming once would keep.
LEMMA NewestOfAppend ==
  ASSUME NEW s \in Seq(Savers), NEW r \in Savers
  PROVE  Newest(Append(Newest(s), r)) = Newest(Append(s, r))
<1> DEFINE n == Newest(s)
           a == Append(n, r)
           b == Append(s, r)
<1>1. /\ n \in Seq(Savers)
      /\ Len(n) = IF Len(s) > MaxEntries THEN MaxEntries ELSE Len(s)
      /\ \A i \in 1 .. Len(n) : n[i] = s[Len(s) - Len(n) + i]
  BY NewestProperties
<1>2. /\ a \in Seq(Savers) /\ Len(a) = Len(n) + 1
      /\ \A i \in 1 .. Len(n) : a[i] = n[i]
      /\ a[Len(n) + 1] = r
  <2> HIDE DEF n
  <2> QED BY <1>1, AppendProperties
<1>3. /\ b \in Seq(Savers) /\ Len(b) = Len(s) + 1
      /\ \A i \in 1 .. Len(s) : b[i] = s[i]
      /\ b[Len(s) + 1] = r
  BY AppendProperties
<1>4. /\ Newest(a) \in Seq(Savers)
      /\ Len(Newest(a)) = IF Len(a) > MaxEntries THEN MaxEntries ELSE Len(a)
      /\ \A i \in 1 .. Len(Newest(a)) :
           Newest(a)[i] = a[Len(a) - Len(Newest(a)) + i]
  <2> HIDE DEF a
  <2> QED BY <1>2, NewestProperties
<1>5. /\ Newest(b) \in Seq(Savers)
      /\ Len(Newest(b)) = IF Len(b) > MaxEntries THEN MaxEntries ELSE Len(b)
      /\ \A i \in 1 .. Len(Newest(b)) :
           Newest(b)[i] = b[Len(b) - Len(Newest(b)) + i]
  <2> HIDE DEF b
  <2> QED BY <1>3, NewestProperties
<1>6. /\ Len(s) \in Nat /\ Len(n) \in Nat
      /\ MaxEntries \in Nat /\ MaxEntries > 0
  BY <1>1, LenProperties, MetricsAssumption
<1> HIDE DEF n, a, b
<1>7. Len(Newest(a)) = Len(Newest(b))
  BY <1>1, <1>2, <1>3, <1>4, <1>5, <1>6
<1>8. ASSUME NEW i \in 1 .. Len(Newest(a))
      PROVE  Newest(a)[i] = Newest(b)[i]
  <2> DEFINE j == Len(a) - Len(Newest(a)) + i
             k == Len(b) - Len(Newest(b)) + i
  <2>1. /\ j \in 1 .. Len(n) + 1 /\ k \in 1 .. Len(s) + 1
        /\ k = Len(s) - Len(n) + j
    <3>1. /\ Len(a) = Len(n) + 1 /\ Len(b) = Len(s) + 1 /\ Len(n) <= Len(s)
          /\ Len(Newest(a)) <= Len(a) /\ Len(Newest(b)) = Len(Newest(a))
          /\ Len(Newest(a)) \in Nat
      BY <1>1, <1>2, <1>3, <1>4, <1>6, <1>7
    <3> QED BY <1>6, <3>1
  <2>2. Newest(a)[i] = a[j] /\ Newest(b)[i] = b[k]
    BY <1>4, <1>5, <1>7
  <2> HIDE DEF j, k
  <2>3. CASE j = Len(n) + 1
    BY <1>2, <1>3, <1>6, <2>1, <2>2, <2>3
  <2>4. CASE j # Len(n) + 1
    <3>1. j \in 1 .. Len(n) /\ k \in 1 .. Len(s)
      BY <1>1, <1>6, <2>1, <2>4
    <3>2. a[j] = s[k] /\ b[k] = s[k]
      BY <1>1, <1>2, <1>3, <2>1, <3>1
    <3> QED BY <2>2, <3>2
  <2> QED BY <2>3, <2>4
<1>9. Newest(a) = Newest(b)
  BY <1>4, <1>5, <1>7, <1>8, SeqEqual
<1> QED BY <1>9 DEF a, b, n

-----------------------------------------------------------------------------
(* One lemma per action: it preserves types and the inductive invariant. *)

\* What a save adds to what it read.
LEMMA DraftType ==
  ASSUME FileTypeOK, NEW r \in Savers
  PROVE  LET d == Trim(IF file = Torn THEN <<r>> ELSE Append(file, r))
         IN d \in Seq(Savers) /\ Len(d) <= MaxEntries
<1> DEFINE e == IF file = Torn THEN <<r>> ELSE Append(file, r)
<1>1. e \in Seq(Savers)
  BY AppendProperties DEF FileTypeOK
<1> HIDE DEF e
<1>2. Trim(e) \in Seq(Savers) /\ Len(Trim(e)) <= MaxEntries
  BY <1>1, TrimIsNewest, NewestProperties, LenProperties, MetricsAssumption
<1> QED BY <1>2 DEF e

\* saveMetrics is called
LEMMA BeginSaveStep ==
  ASSUME FileTypeOK, FileInv, NEW r \in Savers, BeginSave(r)
  PROVE  FileTypeOK' /\ FileInv'
<1>1. FileTypeOK'
  BY DEF FileTypeOK, BeginSave
<1>2. Busy' = Busy /\ \A q \in Busy : saver'[q] = saver[q]
  BY DEF FileTypeOK, BeginSave, Busy
<1> QED BY <1>1, <1>2 DEF FileInv, BeginSave

\* loadExistingMetrics, trimMetricsHistory
LEMMA ReadFileStep ==
  ASSUME FileTypeOK, FileInv, NEW r \in Savers, ReadFile(r)
  PROVE  FileTypeOK' /\ FileInv'
<1> DEFINE d == Trim(IF file = Torn THEN <<r>> ELSE Append(file, r))
<1>1. d \in Seq(Savers) /\ Len(d) <= MaxEntries
  BY DraftType
<1>2. draft' = [draft EXCEPT ![r] = d] /\ disturbed' = (disturbed \/ Busy # {})
  BY DEF ReadFile
<1>3. saver' = [saver EXCEPT ![r] = "opening"] /\ UNCHANGED <<file, saves>>
  BY DEF ReadFile
<1>4. ~disturbed /\ Busy = {} => d = Newest(Append(saves, r))
  <2> SUFFICES ASSUME ~disturbed, Busy = {}
               PROVE  d = Newest(Append(saves, r))
    OBVIOUS
  <2>1. file = Newest(saves) /\ saves \in Seq(Savers)
    BY DEF FileInv, FileTypeOK
  <2>2. file \in Seq(Savers)
    BY <2>1, NewestProperties
  <2>3. file # Torn
    BY <2>2, SaversAssumption, ElementOfSeq DEF Torn
  <2>4. Append(file, r) \in Seq(Savers)
    BY <2>2, AppendProperties
  <2> QED BY <2>1, <2>3, <2>4, TrimIsNewest, NewestOfAppend
<1> HIDE DEF d
<1>5. FileTypeOK'
  BY <1>1, <1>2, <1>3 DEF FileTypeOK
<1>6. Busy' = Busy \cup {r}
  BY <1>3 DEF FileTypeOK, Busy
<1>7. FileInv'
  <2> SUFFICES ASSUME ~disturbed' PROVE FileInv'
    BY DEF FileInv
  <2>1. ~disturbed /\ Busy = {} /\ Busy' = {r}
    BY <1>2, <1>6 DEF FileTypeOK
  <2>2. draft'[r] = Newest(Append(saves, r)) /\ saver'[r] = "opening"
    BY <1>2, <1>3, <1>4, <2>1 DEF FileTypeOK
  <2>3. file = Newest(saves)
    BY <2>1 DEF FileInv
  <2> QED BY <1>3, <2>1, <2>2, <2>3 DEF FileInv
<1> QED BY <1>5, <1>7

\* writeFile opens the file
LEMMA OpenFileStep ==
  ASSUME FileTypeOK, FileInv, NEW r \in Savers, OpenFile(r)
  PROVE  FileTypeOK' /\ FileInv'
<1>1. FileTypeOK'
  BY DEF FileTypeOK, OpenFile
<1>2. Busy' = Busy /\ r \in Busy
  BY DEF FileTypeOK, OpenFile, Busy
<1>3. FileInv'
  <2> SUFFICES ASSUME ~disturbed PROVE FileInv'
    BY DEF FileInv, OpenFile
  <2>1. Busy = {r}
    BY <1>2 DEF FileInv
  <2>2. {q \in Savers : saver[q] \in {"writing", "mixing"}} = {}
    BY <2>1 DEF OpenFile, Busy
  <2>3. saver'[r] = "writing"
    BY <2>2 DEF OpenFile
  <2> QED BY <1>2, <2>1, <2>3 DEF FileInv, OpenFile
<1> QED BY <1>1, <1>3

\* writeFile succeeds
LEMMA WriteDoneStep ==
  ASSUME FileTypeOK, FileInv, NEW r \in Savers, WriteDone(r)
  PROVE  FileTypeOK' /\ FileInv'
<1>1. saves' \in Seq(Savers)
  BY AppendProperties DEF FileTypeOK, WriteDone
<1>2. FileTypeOK'
  BY <1>1 DEF FileTypeOK, WriteDone
<1>3. r \in Busy /\ Busy' = Busy \ {r}
  BY DEF FileTypeOK, WriteDone, Busy
<1>4. FileInv'
  <2> SUFFICES ASSUME ~disturbed PROVE FileInv'
    BY DEF FileInv, WriteDone
  <2>1. /\ Busy' = {} /\ draft[r] = Newest(Append(saves, r))
        /\ saver[r] # "mixing"
    BY <1>3 DEF FileInv
  <2>2. file' = draft[r] /\ saves' = Append(saves, r)
    BY <2>1 DEF WriteDone
  <2> QED BY <2>1, <2>2 DEF FileInv
<1> QED BY <1>2, <1>4

\* writeFile fails
LEMMA WriteFailsStep ==
  ASSUME FileTypeOK, FileInv, NEW r \in Savers, WriteFails(r)
  PROVE  FileTypeOK' /\ FileInv'
  BY DEF FileTypeOK, FileInv, WriteFails

\* The server exits
LEMMA SaversGoneStep ==
  ASSUME FileTypeOK, FileInv, SaversGone
  PROVE  FileTypeOK' /\ FileInv'
<1>1. FileTypeOK'
  BY DEF FileTypeOK, SaversGone
<1>2. Busy' = {}
  BY DEF SaversGone, Busy
<1>3. ~disturbed' => ~disturbed /\ Busy = {} /\ file' = file /\ saves' = saves
  BY DEF SaversGone
<1> QED BY <1>1, <1>2, <1>3 DEF FileInv

-----------------------------------------------------------------------------
(* The theorems about the metrics file. *)

LEMMA FileStart == FileInit => FileTypeOK /\ FileInv
<1> SUFFICES ASSUME FileInit PROVE FileTypeOK /\ FileInv
  OBVIOUS
<1>1. Len(<<>>) = 0 /\ <<>> \in Seq(Savers)
  BY EmptySeq
<1>2. \A r \in Savers : Len(draft[r]) <= MaxEntries
  <2>1. 0 <= MaxEntries
    BY MetricsAssumption
  <2>2. \A r \in Savers : draft[r] = <<>>
    BY DEF FileInit
  <2> QED BY <1>1, <2>1, <2>2, Zenon
<1>3. FileTypeOK
  <2>1. draft \in [Savers -> Seq(Savers)]
    BY <1>1 DEF FileInit
  <2>2. file \in Seq(Savers) \cup {Torn} /\ saves \in Seq(Savers)
    BY <1>1 DEF FileInit
  <2>3. saver \in [Savers -> {"idle", "recording", "opening", "writing",
                             "mixing", "done"}]
    BY DEF FileInit
  <2> QED BY <1>2, <2>1, <2>2, <2>3 DEF FileInit, FileTypeOK
<1>4. Newest(<<>>) = SubSeq(<<>>, 1, 0)
  BY <1>1, MetricsAssumption DEF Newest
<1>5. Newest(<<>>) = <<>> /\ Busy = {}
  BY <1>4, SubSeqEmpty DEF FileInit, Busy
<1> QED BY <1>3, <1>5 DEF FileInit, FileInv

LEMMA FileStep == FileTypeOK /\ FileInv /\ [FileNext]_fileVars => FileTypeOK' /\ FileInv'
<1> SUFFICES ASSUME FileTypeOK, FileInv, [FileNext]_fileVars
             PROVE  FileTypeOK' /\ FileInv'
  OBVIOUS
<1>1. CASE UNCHANGED fileVars
  BY <1>1 DEF FileTypeOK, FileInv, Busy, fileVars
<1>2. CASE FileNext
  BY <1>2, BeginSaveStep, ReadFileStep, OpenFileStep, WriteDoneStep,
     WriteFailsStep, SaversGoneStep DEF FileNext
<1> QED BY <1>1, <1>2

\* The inductive invariant holds in every reachable state.
THEOREM FileInductive == FileSpec => [](FileTypeOK /\ FileInv)
  BY FileStart, FileStep, PTL DEF FileSpec

\* Types of the saves; no write puts more than MaxEntries entries in the file
\* (trimMetricsHistory).
THEOREM FileTypeCorrect == FileSpec => []FileTypeOK
  BY FileInductive, PTL

\* Saves that do not overlap lose no entry, and the trimming of one after the
\* other keeps the newest (saveToFile, trimMetricsHistory).
THEOREM HistoryIsKept == FileSpec => []HistoryIsComplete
<1>1. FileInv => HistoryIsComplete
  BY DEF FileInv, HistoryIsComplete
<1> QED BY FileInductive, <1>1, PTL
=============================================================================
