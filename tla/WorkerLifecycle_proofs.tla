--------------------- MODULE WorkerLifecycle_proofs ---------------------
(***************************************************************************)
(* Proofs about WorkerLifecycle, for any set of workers and any number of  *)
(* attempts: type correctness, the inductive invariant and what it implies.*)
(***************************************************************************)
EXTENDS WorkerLifecycle, SequenceTheorems, TLAPS

(* What Append and EXCEPT do to a worker's list of validation runs. *)

\* A run is added at the end (the synchronous part of runValidationChecks).
LEMMA AppendRun ==
  ASSUME NEW s \in Seq(Run), NEW r \in Run
  PROVE  /\ Append(s, r) \in Seq(Run)
         /\ DOMAIN Append(s, r) = DOMAIN s \cup {Len(s) + 1}
         /\ Len(s) + 1 \notin DOMAIN s
         /\ \A i \in DOMAIN s : Append(s, r)[i] = s[i]
         /\ Append(s, r)[Len(s) + 1] = r
  OBVIOUS

\* A run gets its verdict (the end of runValidationChecks).
LEMMA SetVerdict ==
  ASSUME NEW s \in Seq(Run), NEW i \in DOMAIN s, NEW v \in Verdict
  PROVE  /\ [s EXCEPT ![i].verdict = v] \in Seq(Run)
         /\ DOMAIN [s EXCEPT ![i].verdict = v] = DOMAIN s
         /\ \A j \in DOMAIN s :
              [s EXCEPT ![i].verdict = v][j] =
                IF j = i THEN [by |-> s[i].by, verdict |-> v] ELSE s[j]
<1> DEFINE e == [s[i] EXCEPT !.verdict = v]
<1>1. i \in 1 .. Len(s) /\ DOMAIN s = 1 .. Len(s)
  BY LenProperties
<1>2. s[i] \in Run
  BY <1>1, ElementOfSeq
<1>3. e = [by |-> s[i].by, verdict |-> v] /\ e \in Run
  BY <1>2 DEF Run
<1>4. /\ [s EXCEPT ![i] = e] \in Seq(Run)
      /\ Len([s EXCEPT ![i] = e]) = Len(s)
      /\ \A j \in 1 .. Len(s) : [s EXCEPT ![i] = e][j] = IF j = i THEN e ELSE s[j]
  <2> HIDE DEF e
  <2> QED BY <1>1, <1>3, ExceptSeq
<1>5. [s EXCEPT ![i].verdict = v] = [s EXCEPT ![i] = e]
  OBVIOUS
<1> HIDE DEF e
<1>6. DOMAIN [s EXCEPT ![i] = e] = DOMAIN s
  OBVIOUS
<1> QED BY <1>1, <1>3, <1>4, <1>5, <1>6

LEMMA EmptyRuns == <<>> \in Seq(Run)
  BY EmptySeq

--------------------------------------------------------------------------
(* Type correctness *)

\* The helpers keep the types of what they write.
LEMMA KillType ==
  ASSUME TypeOK, NEW S \in SUBSET Workers, Kill(S)
  PROVE  signalled' \in [Workers -> SUBSET Procs]
  BY DEF TypeOK, Kill, NoProc

LEMMA BeginRunType ==
  ASSUME TypeOK, NEW w \in Workers, NEW by \in {"close", "stop"}, BeginRun(w, by)
  PROVE  /\ status' \in [Workers -> Status]
         /\ runs' \in [Workers -> Seq(Run)]
<1>1. [by |-> by, verdict |-> "pending"] \in Run
  BY DEF Run, Verdict
<1>2. Append(runs[w], [by |-> by, verdict |-> "pending"]) \in Seq(Run)
  BY <1>1, AppendRun DEF TypeOK
<1> QED BY <1>2 DEF TypeOK, BeginRun, Status

LEMMA EndRunType ==
  ASSUME TypeOK, NEW w \in Workers, NEW i \in DOMAIN runs[w],
         NEW verdict \in {"passed", "failed", "crashed"}, EndRun(w, i, verdict)
  PROVE  /\ runs' \in [Workers -> Seq(Run)]
         /\ passed' \in [Workers -> {"unset", "yes", "no"}]
<1>1. verdict \in Verdict
  BY DEF Verdict
<1>2. [runs[w] EXCEPT ![i].verdict = verdict] \in Seq(Run)
  BY <1>1, SetVerdict DEF TypeOK
<1> QED BY <1>2 DEF TypeOK, EndRun

LEMMA RemoveIfOwnType ==
  ASSUME TypeOK, NEW w \in Workers, NEW asker \in Asker, RemoveIfOwn(w, asker)
  PROVE  removals' \in [Workers -> SUBSET Asker]
  BY DEF TypeOK, RemoveIfOwn

LEMMA LifeType ==
  ASSUME TypeOK, NEW w \in Workers, NEW n \in Procs, NEW how \in Life
  PROVE  [life EXCEPT ![w][n] = how] \in [Workers -> [Procs -> Life]]
  BY DEF TypeOK

\* A restart stays within the attempts and the process numbers.
LEMMA RestartType ==
  ASSUME TypeOK, NEW w \in Workers, MayRetry(w),
         NEW outcome \in {"alive", "spawnError", "throws"}, Restart(w, outcome)
  PROVE  /\ attempts' \in [Workers -> 0 .. MaxAttempts]
         /\ signalled' \in [Workers -> SUBSET Procs]
         /\ status' \in [Workers -> Status]
         /\ handle' \in [Workers -> Procs \cup {NoProc}]
         /\ life' \in [Workers -> [Procs -> Life]]
<1> USE LifecycleAssumption DEF TypeOK, Restart, MayRetry
<1>1. attempts[w] + 1 \in 0 .. MaxAttempts /\ attempts[w] + 2 \in Procs
  BY DEF Procs
<1>2. attempts' \in [Workers -> 0 .. MaxAttempts]
  BY <1>1
<1>3. signalled' \in [Workers -> SUBSET Procs]
  BY KillType
<1>4. status' \in [Workers -> Status]
  BY DEF Status
<1>5. handle' \in [Workers -> Procs \cup {NoProc}]
  <2>1. \E h \in Procs \cup {NoProc} : handle' = [handle EXCEPT ![w] = h]
    BY <1>1
  <2> QED BY <2>1
<1>6. life' \in [Workers -> [Procs -> Life]]
  <2>1. CASE outcome = "throws"
    BY <2>1
  <2>2. CASE outcome # "throws"
    <3>1. outcome \in Life
      BY <2>2 DEF Life
    <3>2. life' = [life EXCEPT ![w][attempts[w] + 2] = outcome]
      BY <2>2
    <3> QED BY <1>1, <3>1, <3>2, LifeType
  <2> QED BY <2>1, <2>2
<1> QED BY <1>2, <1>3, <1>4, <1>5, <1>6
\* When the server exits, the runs that were pending are over, and no others
\* change.
LEMMA RunsOver ==
  ASSUME TypeOK, ServerGone, NEW w \in Workers
  PROVE  /\ runs'[w] \in Seq(Run)
         /\ DOMAIN runs'[w] = DOMAIN runs[w]
         /\ \A i \in DOMAIN runs[w] :
              /\ runs'[w][i].by = runs[w][i].by
              /\ runs'[w][i].verdict = IF runs[w][i].verdict = "pending"
                                       THEN "crashed" ELSE runs[w][i].verdict
<1> DEFINE over(i) == IF runs[w][i].verdict = "pending"
                      THEN [runs[w][i] EXCEPT !.verdict = "crashed"]
                      ELSE runs[w][i]
<1>1. runs'[w] = [i \in DOMAIN runs[w] |-> over(i)]
  BY DEF ServerGone
<1>2. PICK n \in Nat : DOMAIN runs[w] = 1 .. n /\ runs[w] \in [1 .. n -> Run]
  BY SeqDef DEF TypeOK
<1>3. \A i \in DOMAIN runs[w] :
        /\ over(i) \in Run
        /\ over(i).by = runs[w][i].by
        /\ over(i).verdict = IF runs[w][i].verdict = "pending"
                             THEN "crashed" ELSE runs[w][i].verdict
  BY <1>2 DEF Run, Verdict
<1> HIDE DEF over
<1>4. runs'[w] \in [1 .. n -> Run]
  BY <1>1, <1>2, <1>3
<1>5. runs'[w] \in Seq(Run)
  BY <1>2, <1>4, SeqDef
<1> QED BY <1>1, <1>3, <1>5

LEMMA ServerGoneType ==
  ASSUME TypeOK, ServerGone
  PROVE  TypeOK'
<1>1. runs' \in [Workers -> Seq(Run)]
  <2>1. runs' = [w \in Workers |-> runs'[w]]
    BY DEF ServerGone
  <2>2. \A w \in Workers : runs'[w] \in Seq(Run)
    BY RunsOver
  <2> QED BY <2>1, <2>2
<1>2. life' \in [Workers -> [Procs -> Life]]
  BY DEF ServerGone, TypeOK, Life
<1>3. tree' \in SUBSET Workers
  BY DEF ServerGone, TypeOK
<1>4. phase' \in [Workers -> Phase] /\ status' \in [Workers -> Status]
  BY DEF ServerGone, TypeOK, Phase, Status
<1>5. /\ passed' \in [Workers -> {"unset", "yes", "no"}]
      /\ handle' \in [Workers -> Procs \cup {NoProc}]
      /\ removals' \in [Workers -> SUBSET Asker]
      /\ registered' \in SUBSET Workers
      /\ armed' \in SUBSET Workers
  BY DEF ServerGone
<1>6. UNCHANGED <<attempts, signalled, own>>
  BY DEF ServerGone
<1> QED BY <1>1, <1>2, <1>3, <1>4, <1>5, <1>6 DEF TypeOK

\* TypeOK is an invariant: every variable keeps its type in every step.
LEMMA TypeStep == TypeOK /\ [Next]_vars => TypeOK'
<1> SUFFICES ASSUME TypeOK, [Next]_vars
             PROVE  TypeOK'
  OBVIOUS
<1> USE LifecycleAssumption DEF TypeOK
<1>0. 1 \in Procs
  BY DEF Procs
<1>1. ASSUME NEW w \in Workers, NEW ownTree \in BOOLEAN, StartRequest(w, ownTree)
      PROVE  TypeOK'
  BY <1>1 DEF StartRequest, Phase
<1>2. ASSUME NEW w \in Workers, StartRefused(w)
      PROVE  TypeOK'
  BY <1>2 DEF StartRefused, Phase
<1>3. ASSUME NEW w \in Workers, NEW outcome \in {"alive", "spawnError"},
             StartSpawn(w, outcome)
      PROVE  TypeOK'
  <2>1. outcome \in Life
    BY DEF Life
  <2>2. life' \in [Workers -> [Procs -> Life]]
    BY <1>0, <1>3, <2>1, LifeType DEF StartSpawn
  <2>3. handle' \in [Workers -> Procs \cup {NoProc}]
    BY <1>0, <1>3 DEF StartSpawn
  <2> QED BY <1>3, <2>2, <2>3 DEF StartSpawn, Phase, Status
<1>4. ASSUME NEW w \in Workers, StartSpawnThrows(w)
      PROVE  TypeOK'
  BY <1>4 DEF StartSpawnThrows, Phase, Status
<1>5. ASSUME NEW w \in Workers, StartListen(w)
      PROVE  TypeOK'
  BY <1>5 DEF StartListen, Phase
<1>6. ASSUME NEW w \in Workers, NEW n \in Procs,
             NEW how \in {"exit0", "exit1"}, ProcessExit(w, n, how)
      PROVE  TypeOK'
  <2>1. life' \in [Workers -> [Procs -> Life]]
    BY <1>6, LifeType DEF ProcessExit, Life
  <2> QED BY <1>6, <2>1 DEF ProcessExit
<1>7. ASSUME NEW w \in Workers, NEW n \in Procs, SpawnErrorEvent(w, n)
      PROVE  TypeOK'
  <2>2. life' \in [Workers -> [Procs -> Life]]
    BY <1>7, LifeType DEF SpawnErrorEvent, Life
  <2>3. removals' \in [Workers -> SUBSET Asker]
    BY <1>7, RemoveIfOwnType DEF SpawnErrorEvent, Asker
  <2>4. status' \in [Workers -> Status]
    BY <1>7 DEF SpawnErrorEvent, Status
  <2> QED BY <1>7, <2>2, <2>3, <2>4 DEF SpawnErrorEvent
<1>8. ASSUME NEW w \in Workers, NEW n \in Procs, CloseOk(w, n)
      PROVE  TypeOK'
  <2>1. life' \in [Workers -> [Procs -> Life]]
    BY <1>8, LifeType DEF CloseOk, Life
  <2>2. /\ status' \in [Workers -> Status]
        /\ runs' \in [Workers -> Seq(Run)]
    BY <1>8, BeginRunType DEF CloseOk
  <2> QED BY <1>8, <2>1, <2>2 DEF CloseOk
<1>9. ASSUME NEW w \in Workers, NEW n \in Procs, CloseFailed(w, n)
      PROVE  TypeOK'
  <2>1. life' \in [Workers -> [Procs -> Life]]
    BY <1>9, LifeType DEF CloseFailed, Life
  <2>2. removals' \in [Workers -> SUBSET Asker]
    BY <1>9, RemoveIfOwnType DEF CloseFailed, Asker
  <2> QED BY <1>9, <2>1, <2>2 DEF CloseFailed, Status
<1>10. ASSUME NEW w \in Workers, NEW n \in Procs, CloseUnheard(w, n)
       PROVE  TypeOK'
  <2>1. life' \in [Workers -> [Procs -> Life]]
    BY <1>10, LifeType DEF CloseUnheard, Life
  <2> QED BY <1>10, <2>1 DEF CloseUnheard
<1>11. ASSUME NEW w \in Workers, ResultMessage(w)
       PROVE  TypeOK'
  BY <1>11 DEF ResultMessage
<1>12. ASSUME NEW w \in Workers, AutoStop(w)
       PROVE  TypeOK'
  <2>1. signalled' \in [Workers -> SUBSET Procs]
    BY <1>12, KillType DEF AutoStop
  <2> QED BY <1>12, <2>1 DEF AutoStop
<1>13. ASSUME NEW w \in Workers, NEW i \in DOMAIN runs[w], RunPassed(w, i)
       PROVE  TypeOK'
  <2>1. /\ runs' \in [Workers -> Seq(Run)]
        /\ passed' \in [Workers -> {"unset", "yes", "no"}]
    BY <1>13, EndRunType DEF RunPassed
  <2>2. removals' \in [Workers -> SUBSET Asker]
    BY <1>13, RemoveIfOwnType DEF RunPassed, Asker
  <2> QED BY <1>13, <2>1, <2>2 DEF RunPassed, Status
<1>14. ASSUME NEW w \in Workers, NEW i \in DOMAIN runs[w],
              NEW verdict \in {"failed", "crashed"},
              NEW outcome \in {"alive", "spawnError", "throws"},
              RunFailedRestart(w, i, verdict, outcome)
       PROVE  TypeOK'
  <2>1. /\ runs' \in [Workers -> Seq(Run)]
        /\ passed' \in [Workers -> {"unset", "yes", "no"}]
    BY <1>14, EndRunType DEF RunFailedRestart
  <2>2. /\ attempts' \in [Workers -> 0 .. MaxAttempts]
        /\ signalled' \in [Workers -> SUBSET Procs]
        /\ status' \in [Workers -> Status]
        /\ handle' \in [Workers -> Procs \cup {NoProc}]
        /\ life' \in [Workers -> [Procs -> Life]]
    BY <1>14, RestartType DEF RunFailedRestart
  <2> QED BY <1>14, <2>1, <2>2 DEF RunFailedRestart
<1>15. ASSUME NEW w \in Workers, NEW i \in DOMAIN runs[w],
              NEW verdict \in {"failed", "crashed"},
              RunFailedFinal(w, i, verdict)
       PROVE  TypeOK'
  <2>1. /\ runs' \in [Workers -> Seq(Run)]
        /\ passed' \in [Workers -> {"unset", "yes", "no"}]
    BY <1>15, EndRunType DEF RunFailedFinal
  <2>2. removals' \in [Workers -> SUBSET Asker]
    BY <1>15, RemoveIfOwnType DEF RunFailedFinal, Asker
  <2> QED BY <1>15, <2>1, <2>2 DEF RunFailedFinal, Status
<1>16. ASSUME NEW w \in Workers, NEW i \in DOMAIN runs[w],
              NEW verdict \in {"failed", "crashed"},
              RunFailedStopped(w, i, verdict)
       PROVE  TypeOK'
  <2>1. /\ runs' \in [Workers -> Seq(Run)]
        /\ passed' \in [Workers -> {"unset", "yes", "no"}]
    BY <1>16, EndRunType DEF RunFailedStopped
  <2> QED BY <1>16, <2>1 DEF RunFailedStopped
<1>17. ASSUME NEW w \in Workers, NEW cleanupWorktree \in BOOLEAN,
              Stop(w, cleanupWorktree)
       PROVE  TypeOK'
  <2>1. signalled' \in [Workers -> SUBSET Procs]
    BY <1>17, KillType DEF Stop
  <2>2. /\ status' \in [Workers -> Status]
        /\ runs' \in [Workers -> Seq(Run)]
    BY <1>17, BeginRunType DEF Stop
  <2>3. removals' \in [Workers -> SUBSET Asker]
    BY <1>17 DEF Stop, Asker
  <2> QED BY <1>17, <2>1, <2>2, <2>3 DEF Stop
<1>18. ASSUME StopAll
       PROVE  TypeOK'
  <2>1. signalled' \in [Workers -> SUBSET Procs]
    BY <1>18, KillType DEF StopAll
  <2>2. status' \in [Workers -> Status]
    BY <1>18 DEF StopAll, Status
  <2> QED BY <1>18, <2>1, <2>2 DEF StopAll
<1>19. ASSUME Clear
       PROVE  TypeOK'
  BY <1>19 DEF Clear
<1>20. ASSUME NEW w \in Workers, Delete(w)
       PROVE  TypeOK'
  <2>1. signalled' \in [Workers -> SUBSET Procs]
    BY <1>20, KillType DEF Delete
  <2>2. status' \in [Workers -> Status]
    BY <1>20 DEF Delete, Status
  <2>3. removals' \in [Workers -> SUBSET Asker]
    BY <1>20 DEF Delete, Asker
  <2> QED BY <1>20, <2>1, <2>2, <2>3 DEF Delete
<1>21. ASSUME NEW w \in Workers, CleanupWorktree(w)
       PROVE  TypeOK'
  BY <1>21 DEF CleanupWorktree, Asker
<1>22. ASSUME NEW w \in Workers, NEW asker \in Asker, RemovalDone(w, asker)
       PROVE  TypeOK'
  BY <1>22 DEF RemovalDone
<1>23. ASSUME NEW w \in Workers, NEW asker \in Asker, RemovalFails(w, asker)
       PROVE  TypeOK'
  BY <1>23 DEF RemovalFails
<1>24. ASSUME ServerEnds
       PROVE  TypeOK'
  BY <1>24, ServerGoneType DEF ServerEnds, ShutDown, UnheardError
<1>25. CASE UNCHANGED vars
  BY <1>25 DEF vars
<1> HIDE DEF TypeOK
<1> QED
  BY <1>1, <1>2, <1>3, <1>4, <1>5, <1>6, <1>7, <1>8, <1>9, <1>10, <1>11,
     <1>12, <1>13, <1>14, <1>15, <1>16, <1>17, <1>18, <1>19, <1>20, <1>21,
     <1>22, <1>23, <1>24, <1>25
     DEF Next, Step, Request, CloseEvent, RunEnds

LEMMA TypeInit == Init => TypeOK
  BY LifecycleAssumption, EmptyRuns
     DEF Init, TypeOK, Phase, Status, Life, Procs, NoProc, Asker

\* Every variable of the worker table always has its type; in particular the
\* number of restarts stays within maxAttempts.
THEOREM TypeCorrect == Spec => []TypeOK
<1>1. Init => TypeOK
  BY TypeInit
<1>2. TypeOK /\ [Next]_vars => TypeOK'
  BY TypeStep
<1> QED BY <1>1, <1>2, PTL DEF Spec
--------------------------------------------------------------------------
(* The inductive invariant *)

\* What the invariant says of a worker depends on these variables only, and
\* an automatic cleanup that ends cannot invalidate it.
LEMMA Untouched ==
  ASSUME NEW v \in Workers, WorkerInv(v),
         UNCHANGED <<phase[v], status[v], attempts[v], handle[v], life[v],
                     runs[v], passed[v]>>,
         AutoCleanup(v)' => AutoCleanup(v)
  PROVE  WorkerInv(v)'
  BY DEF WorkerInv, NothingBeforeSpawn, StartedHasStatus, LostIsOver,
         AtMostOneCloseRun,
         CloseRunAfterClose, RestartAfterCloseRun, NoProcessToDisturb,
         CompletionIsBacked, WillSettle, ListenersDone, CloseRunPending,
         RunsWith

\* The same when a process of the worker exits, or closes unheard.
LEMMA ProcessMovesOn ==
  ASSUME TypeOK, NEW v \in Workers, WorkerInv(v), NEW n \in Procs,
         NEW how \in {"exit0", "exit1", "gone"},
         life[v][n] \in {"alive", "exit0", "exit1"},
         life[v][n] = "exit1" => how = "gone",
         life' = [life EXCEPT ![v][n] = how],
         UNCHANGED <<phase, status, attempts, handle, runs, passed, removals>>
  PROVE  WorkerInv(v)'
<1>1. /\ life'[v][n] = how
      /\ \A m \in Procs \ {n} : life'[v][m] = life[v][m]
  BY DEF TypeOK
<1>2. 1 \in Procs
  BY LifecycleAssumption DEF Procs
<1> USE DEF WorkerInv
<1>3. NothingBeforeSpawn(v)'
  BY <1>1 DEF NothingBeforeSpawn, AutoCleanup
<1>4. CloseRunAfterClose(v)'
  BY <1>1, <1>2 DEF CloseRunAfterClose
<1>5. RestartAfterCloseRun(v)'
  BY <1>1, <1>2 DEF RestartAfterCloseRun, CloseRunPending
<1>6. NoProcessToDisturb(v)'
  BY <1>1 DEF NoProcessToDisturb, AutoCleanup
<1>7. ListenersDone(v) => ListenersDone(v)'
  BY <1>1, <1>2 DEF ListenersDone, CloseRunPending
<1>8. AutoCleanup(v)' => AutoCleanup(v)
  BY DEF AutoCleanup
<1>9. UNCHANGED <<StartedHasStatus(v), LostIsOver(v), AtMostOneCloseRun(v),
                  CompletionIsBacked(v), WillSettle(v)>>
  BY DEF StartedHasStatus, LostIsOver,
         AtMostOneCloseRun, CompletionIsBacked, WillSettle,
         RunsWith
<1> QED BY <1>3, <1>4, <1>5, <1>6, <1>7, <1>8, <1>9

\* The worker's runs once another one has begun.
LEMMA RunBegun ==
  ASSUME TypeOK, NEW w \in Workers, NEW by \in {"close", "stop"}, BeginRun(w, by)
  PROVE  LET last == Len(runs[w]) + 1
         IN  /\ DOMAIN runs'[w] = DOMAIN runs[w] \cup {last}
             /\ last \notin DOMAIN runs[w]
             /\ \A i \in DOMAIN runs[w] : runs'[w][i] = runs[w][i]
             /\ runs'[w][last].by = by
             /\ runs'[w][last].verdict = "pending"
             /\ \A v \in Workers \ {w} : UNCHANGED <<runs[v], status[v]>>
<1> DEFINE r == [by |-> by, verdict |-> "pending"]
<1>1. r \in Run
  BY DEF Run, Verdict
<1>2. runs'[w] = Append(runs[w], r)
  BY DEF BeginRun, TypeOK
<1>3. runs[w] \in Seq(Run)
  BY DEF TypeOK
<1>4. \A v \in Workers \ {w} : UNCHANGED <<runs[v], status[v]>>
  BY DEF BeginRun, TypeOK
<1>5. r.by = by /\ r.verdict = "pending"
  OBVIOUS
<1> HIDE DEF r
<1> QED BY <1>1, <1>2, <1>3, <1>4, <1>5, AppendRun

\* The worker's runs once one of them got its verdict.
LEMMA RunEnded ==
  ASSUME TypeOK, NEW w \in Workers, NEW i \in DOMAIN runs[w],
         NEW verdict \in {"passed", "failed", "crashed"}, EndRun(w, i, verdict)
  PROVE  /\ DOMAIN runs'[w] = DOMAIN runs[w]
         /\ runs'[w][i].by = runs[w][i].by
         /\ runs'[w][i].verdict = verdict
         /\ \A j \in DOMAIN runs[w] \ {i} : runs'[w][j] = runs[w][j]
         /\ passed'[w] = IF verdict = "passed" THEN "yes" ELSE "no"
         /\ \A v \in Workers \ {w} : UNCHANGED <<runs[v], passed[v]>>
<1>1. verdict \in Verdict
  BY DEF Verdict
<1>2. runs'[w] = [runs[w] EXCEPT ![i].verdict = verdict]
  BY DEF EndRun, TypeOK
<1>3. runs[w] \in Seq(Run)
  BY DEF TypeOK
<1>4. /\ DOMAIN runs'[w] = DOMAIN runs[w]
      /\ \A j \in DOMAIN runs[w] :
           runs'[w][j] = IF j = i THEN [by |-> runs[w][i].by, verdict |-> verdict]
                                  ELSE runs[w][j]
  <2> HIDE DEF TypeOK
  <2> QED BY <1>1, <1>2, <1>3, SetVerdict
<1>5. /\ passed'[w] = IF verdict = "passed" THEN "yes" ELSE "no"
      /\ \A v \in Workers \ {w} : UNCHANGED <<runs[v], passed[v]>>
  BY DEF EndRun, TypeOK
<1> QED BY <1>4, <1>5

\* A worker is restarted at most once.
LEMMA OneRestart ==
  ASSUME TypeOK, NEW w \in Workers, WorkerInv(w)
  PROVE  attempts[w] = 0 \/ attempts[w] = 1
<1>1. attempts[w] \in Nat /\ attempts[w] <= 1
  BY LifecycleAssumption DEF TypeOK, WorkerInv, RestartAfterCloseRun
<1> QED BY <1>1

\* As long as it was not, the original process is the only one.
LEMMA OriginalOnly ==
  ASSUME TypeOK, NEW w \in Workers, WorkerInv(w), attempts[w] = 0
  PROVE  \A n \in Procs \ {1} : life[w][n] = "none"
  BY LifecycleAssumption DEF WorkerInv, RestartAfterCloseRun, Procs

\* A server that exits leaves processes that nobody listens to, and no cleanup.
LEMMA ServerGoneKeeps ==
  ASSUME TypeOK, ServerGone, NEW v \in Workers, WorkerInv(v)
  PROVE  WorkerInv(v)'
<1>1. /\ DOMAIN runs'[v] = DOMAIN runs[v]
      /\ \A i \in DOMAIN runs[v] :
           /\ runs'[v][i].by = runs[v][i].by
           /\ runs'[v][i].verdict = IF runs[v][i].verdict = "pending"
                                    THEN "crashed" ELSE runs[v][i].verdict
  BY RunsOver
<1>2. /\ phase'[v] = IF phase[v] = "idle" THEN "idle" ELSE "lost"
      /\ status'[v] = "none" /\ passed'[v] = "unset" /\ handle'[v] = NoProc
      /\ attempts'[v] = attempts[v] /\ removals'[v] = {}
      /\ \A n \in Procs :
           life'[v][n] = IF life[v][n] \in {"none", "alive"}
                         THEN life[v][n] ELSE "gone"
  BY DEF ServerGone
<1>3. 1 \in Procs
  BY LifecycleAssumption DEF Procs
<1>4. ~AutoCleanup(v)' /\ ~CloseRunPending(v)'
  BY <1>1, <1>2 DEF AutoCleanup, CloseRunPending
<1>5. phase[v] = "idle" => runs'[v] = <<>>
  BY DEF ServerGone, WorkerInv, NothingBeforeSpawn
<1>6. NothingBeforeSpawn(v)'
  BY <1>2, <1>4, <1>5 DEF WorkerInv, NothingBeforeSpawn
<1>7. StartedHasStatus(v)' /\ LostIsOver(v)' /\ NoProcessToDisturb(v)'
  BY <1>1, <1>2, <1>4 DEF StartedHasStatus, LostIsOver, NoProcessToDisturb
<1>8. AtMostOneCloseRun(v)' /\ CloseRunAfterClose(v)'
  BY <1>1, <1>2, <1>3 DEF WorkerInv, AtMostOneCloseRun, CloseRunAfterClose
<1>9. RestartAfterCloseRun(v)'
  BY <1>2, <1>3, <1>4 DEF WorkerInv, RestartAfterCloseRun
<1>10. CompletionIsBacked(v)' /\ WillSettle(v)'
  BY <1>2 DEF CompletionIsBacked, WillSettle
<1> QED BY <1>2, <1>4, <1>6, <1>7, <1>8, <1>9, <1>10 DEF WorkerInv

\* Every step keeps the invariant, for the worker it is about and the others.
LEMMA InvStep == TypeOK /\ IInv /\ [Next]_vars => IInv'
<1> SUFFICES ASSUME TypeOK, IInv, [Next]_vars, NEW v \in Workers
             PROVE  WorkerInv(v)'
  BY DEF IInv
<1>0. WorkerInv(v) /\ 1 \in Procs
  BY LifecycleAssumption DEF IInv, Procs
<1>r. \A w \in Workers : attempts[w] = 0 \/ attempts[w] = 1
  BY OneRestart DEF IInv
<1>o. \A w \in Workers : attempts[w] = 0 =>
        \A n \in Procs \ {1} : life[w][n] = "none"
  BY OriginalOnly DEF IInv
<1>1. ASSUME NEW w \in Workers, NEW ownTree \in BOOLEAN, StartRequest(w, ownTree)
      PROVE  WorkerInv(v)'
  <2>1. CASE v = w
    BY <1>0, <1>1, <2>1
       DEF StartRequest, TypeOK, WorkerInv, NothingBeforeSpawn, StartedHasStatus,
           LostIsOver,
           AtMostOneCloseRun, CloseRunAfterClose, RestartAfterCloseRun,
           NoProcessToDisturb, CompletionIsBacked, WillSettle, ListenersDone,
           AutoCleanup, CloseRunPending, RunsWith
  <2>2. CASE v # w
    BY <1>0, <1>1, <2>2, Untouched DEF StartRequest, TypeOK, AutoCleanup
  <2> QED BY <2>1, <2>2
<1>2. ASSUME NEW w \in Workers, StartRefused(w)
      PROVE  WorkerInv(v)'
  <2>1. CASE v = w
    BY <1>0, <1>2, <2>1
       DEF StartRefused, TypeOK, WorkerInv, NothingBeforeSpawn, StartedHasStatus,
           LostIsOver,
           AtMostOneCloseRun, CloseRunAfterClose, RestartAfterCloseRun,
           NoProcessToDisturb, CompletionIsBacked, WillSettle, ListenersDone,
           AutoCleanup, CloseRunPending, RunsWith
  <2>2. CASE v # w
    BY <1>0, <1>2, <2>2, Untouched DEF StartRefused, TypeOK, AutoCleanup
  <2> QED BY <2>1, <2>2
<1>3. ASSUME NEW w \in Workers, NEW outcome \in {"alive", "spawnError"},
             StartSpawn(w, outcome)
      PROVE  WorkerInv(v)'
  <2>1. CASE v = w
    BY <1>0, <1>3, <2>1
       DEF StartSpawn, TypeOK, WorkerInv, NothingBeforeSpawn, StartedHasStatus,
           LostIsOver,
           AtMostOneCloseRun, CloseRunAfterClose, RestartAfterCloseRun,
           NoProcessToDisturb, CompletionIsBacked, WillSettle, ListenersDone,
           AutoCleanup, CloseRunPending, RunsWith
  <2>2. CASE v # w
    BY <1>0, <1>3, <2>2, Untouched DEF StartSpawn, TypeOK, AutoCleanup
  <2> QED BY <2>1, <2>2
<1>4. ASSUME NEW w \in Workers, StartSpawnThrows(w)
      PROVE  WorkerInv(v)'
  <2>1. CASE v = w
    BY <1>0, <1>4, <2>1
       DEF StartSpawnThrows, TypeOK, WorkerInv, NothingBeforeSpawn,
           StartedHasStatus, LostIsOver, AtMostOneCloseRun, CloseRunAfterClose,
           RestartAfterCloseRun, NoProcessToDisturb, CompletionIsBacked,
           WillSettle, ListenersDone, AutoCleanup, CloseRunPending, RunsWith
  <2>2. CASE v # w
    BY <1>0, <1>4, <2>2, Untouched DEF StartSpawnThrows, TypeOK, AutoCleanup
  <2> QED BY <2>1, <2>2
<1>5. ASSUME NEW w \in Workers, StartListen(w)
      PROVE  WorkerInv(v)'
  <2>1. CASE v = w
    <3>1. phase[w] = "noting" /\ phase'[w] = "listening"
      BY <1>5 DEF StartListen, TypeOK
    <3>2. NothingBeforeSpawn(w)' /\ StartedHasStatus(w)' /\ LostIsOver(w)'
      BY <1>0, <1>5, <2>1, <3>1
         DEF StartListen, WorkerInv, NothingBeforeSpawn, StartedHasStatus,
             LostIsOver
    <3> QED BY <1>0, <1>5, <2>1, <3>2
         DEF StartListen, WorkerInv, AtMostOneCloseRun, CloseRunAfterClose,
             RestartAfterCloseRun, NoProcessToDisturb, CompletionIsBacked,
             WillSettle, ListenersDone, AutoCleanup, CloseRunPending, RunsWith
  <2>2. CASE v # w
    BY <1>0, <1>5, <2>2, Untouched DEF StartListen, TypeOK, AutoCleanup
  <2> QED BY <2>1, <2>2
<1>6. ASSUME NEW w \in Workers, NEW n \in Procs,
             NEW how \in {"exit0", "exit1"}, ProcessExit(w, n, how)
      PROVE  WorkerInv(v)'
  <2>1. CASE v = w
    BY <1>0, <1>6, <2>1, ProcessMovesOn DEF ProcessExit
  <2>2. CASE v # w
    BY <1>0, <1>6, <2>2, Untouched DEF ProcessExit, TypeOK, AutoCleanup
  <2> QED BY <2>1, <2>2
<1>7. ASSUME NEW w \in Workers, NEW n \in Procs, SpawnErrorEvent(w, n)
      PROVE  WorkerInv(v)'
  <2>1. CASE v = w
    <3>1. /\ life[w][n] = "spawnError" /\ life'[w][n] = "exit1"
          /\ \A m \in Procs \ {n} : life'[w][m] = life[w][m]
      BY <1>7 DEF SpawnErrorEvent, TypeOK
    <3>2. n = 1 /\ status'[w] = "failed" /\ phase[w] = "listening"
      BY <1>7 DEF SpawnErrorEvent, TypeOK, Heard
    <3>3. UNCHANGED <<phase, attempts, handle, runs, passed>>
      BY <1>7 DEF SpawnErrorEvent
    <3> USE <1>0, <2>1, <3>1, <3>2, <3>3 DEF WorkerInv
    <3>4. NothingBeforeSpawn(w)' /\ StartedHasStatus(w)' /\ LostIsOver(w)'
      BY DEF NothingBeforeSpawn, StartedHasStatus, LostIsOver
    <3>5. AtMostOneCloseRun(w)' /\ CloseRunAfterClose(w)'
      BY DEF AtMostOneCloseRun, CloseRunAfterClose
    <3>6. RestartAfterCloseRun(w)'
      BY DEF RestartAfterCloseRun, CloseRunPending
    <3>7. ListenersDone(w) => ListenersDone(w)'
      BY DEF ListenersDone, CloseRunPending
    <3>8. ListenersDone(w)' /\ \A m \in Procs : life'[w][m] # "alive"
      <4>1. attempts[w] = 0
        BY <1>r DEF RestartAfterCloseRun
      <4>2. \A m \in Procs : life'[w][m] # "alive"
        BY <4>1, <1>o
      <4> QED BY <4>2 DEF ListenersDone, CloseRunPending, CloseRunAfterClose
    <3>9. NoProcessToDisturb(w)'
      BY <3>8 DEF NoProcessToDisturb
    <3>10. CompletionIsBacked(w)' /\ WillSettle(w)'
      BY DEF CompletionIsBacked, WillSettle, RunsWith
    <3> QED BY <3>4, <3>5, <3>6, <3>7, <3>8, <3>9, <3>10
  <2>2. CASE v # w
    BY <1>0, <1>7, <2>2, Untouched
       DEF SpawnErrorEvent, RemoveIfOwn, TypeOK, AutoCleanup
  <2> QED BY <2>1, <2>2
<1>8. ASSUME NEW w \in Workers, NEW n \in Procs, CloseOk(w, n)
      PROVE  WorkerInv(v)'
  <2>1. CASE v = w
    <3>1. /\ n = 1 /\ phase[w] = "listening"
          /\ life[w][1] = "exit0" /\ life'[w][1] = "gone"
          /\ \A m \in Procs \ {1} : life'[w][m] = life[w][m]
      BY <1>8 DEF CloseOk, Heard, TypeOK
    <3>2. /\ status'[w] = "validating"
          /\ UNCHANGED <<phase, attempts, handle, passed, removals>>
      BY <1>8 DEF CloseOk, BeginRun, TypeOK
    <3>3. PICK last : /\ DOMAIN runs'[w] = DOMAIN runs[w] \cup {last}
                      /\ last \notin DOMAIN runs[w]
                      /\ \A i \in DOMAIN runs[w] : runs'[w][i] = runs[w][i]
                      /\ runs'[w][last].by = "close"
                      /\ runs'[w][last].verdict = "pending"
      BY <1>8, RunBegun DEF CloseOk
    <3> USE <1>0, <2>1, <3>1, <3>2, <3>3 DEF WorkerInv
    <3>4. NothingBeforeSpawn(w)' /\ StartedHasStatus(w)' /\ LostIsOver(w)'
      BY DEF NothingBeforeSpawn, StartedHasStatus, LostIsOver
    <3>5. \A i \in DOMAIN runs[w] : runs[w][i].by # "close"
      BY DEF CloseRunAfterClose
    <3>6. AtMostOneCloseRun(w)' /\ CloseRunAfterClose(w)'
      BY <3>5 DEF AtMostOneCloseRun, CloseRunAfterClose
    <3>7. attempts[w] = 0
      BY <1>r DEF RestartAfterCloseRun
    <3>8. RestartAfterCloseRun(w)'
      BY <3>7 DEF RestartAfterCloseRun
    <3>9. ~AutoCleanup(w)' /\ status'[w] # "failed"
      BY DEF ListenersDone, AutoCleanup
    <3>10. NoProcessToDisturb(w)'
      BY <3>9 DEF NoProcessToDisturb
    <3>11. CompletionIsBacked(w)' /\ WillSettle(w)'
      BY DEF CompletionIsBacked, WillSettle, RunsWith
    <3> QED BY <3>4, <3>6, <3>8, <3>9, <3>10, <3>11
  <2>2. CASE v # w
    <3>1. UNCHANGED <<runs[v], status[v]>>
      BY <1>8, <2>2, RunBegun DEF CloseOk
    <3> QED BY <1>0, <1>8, <2>2, <3>1, Untouched DEF CloseOk, TypeOK, AutoCleanup
  <2> QED BY <2>1, <2>2
<1>9. ASSUME NEW w \in Workers, NEW n \in Procs, CloseFailed(w, n)
      PROVE  WorkerInv(v)'
  <2>1. CASE v = w
    <3>1. /\ n = 1 /\ phase[w] = "listening"
          /\ life[w][1] = "exit1" /\ life'[w][1] = "gone"
          /\ \A m \in Procs \ {1} : life'[w][m] = life[w][m]
      BY <1>9 DEF CloseFailed, Heard, TypeOK
    <3>2. /\ status'[w] = "failed"
          /\ UNCHANGED <<phase, attempts, handle, passed, runs>>
      BY <1>9 DEF CloseFailed, TypeOK
    <3> USE <1>0, <2>1, <3>1, <3>2 DEF WorkerInv
    <3>3. NothingBeforeSpawn(w)' /\ StartedHasStatus(w)' /\ LostIsOver(w)'
      BY DEF NothingBeforeSpawn, StartedHasStatus, LostIsOver
    <3>4. AtMostOneCloseRun(w)' /\ CloseRunAfterClose(w)'
      BY DEF AtMostOneCloseRun, CloseRunAfterClose
    <3>5. attempts[w] = 0
      BY <1>r DEF RestartAfterCloseRun
    <3>6. RestartAfterCloseRun(w)'
      BY <3>5 DEF RestartAfterCloseRun
    <3>7. NoProcessToDisturb(w)'
      BY <3>5, <1>o DEF NoProcessToDisturb
    <3>8. ListenersDone(w)'
      BY DEF ListenersDone, CloseRunPending, CloseRunAfterClose
    <3>9. CompletionIsBacked(w)' /\ WillSettle(w)'
      BY DEF CompletionIsBacked, WillSettle, RunsWith
    <3> QED BY <3>3, <3>4, <3>6, <3>7, <3>8, <3>9
  <2>2. CASE v # w
    BY <1>0, <1>9, <2>2, Untouched
       DEF CloseFailed, RemoveIfOwn, TypeOK, AutoCleanup
  <2> QED BY <2>1, <2>2
<1>10. ASSUME NEW w \in Workers, NEW n \in Procs, CloseUnheard(w, n)
       PROVE  WorkerInv(v)'
  <2>1. CASE v = w
    BY <1>0, <1>10, <2>1, ProcessMovesOn DEF CloseUnheard
  <2>2. CASE v # w
    BY <1>0, <1>10, <2>2, Untouched DEF CloseUnheard, TypeOK, AutoCleanup
  <2> QED BY <2>1, <2>2
<1>11. ASSUME NEW w \in Workers, ResultMessage(w)
       PROVE  WorkerInv(v)'
  BY <1>0, <1>11, Untouched DEF ResultMessage, AutoCleanup
<1>12. ASSUME NEW w \in Workers, AutoStop(w)
       PROVE  WorkerInv(v)'
  BY <1>0, <1>12, Untouched DEF AutoStop, AutoCleanup
<1>13. ASSUME NEW w \in Workers, NEW i \in DOMAIN runs[w], RunPassed(w, i)
       PROVE  WorkerInv(v)'
  <2>1. CASE v = w
    <3>1. /\ DOMAIN runs'[w] = DOMAIN runs[w]
          /\ runs'[w][i].by = runs[w][i].by
          /\ runs'[w][i].verdict = "passed"
          /\ \A j \in DOMAIN runs[w] \ {i} : runs'[w][j] = runs[w][j]
      BY <1>13, RunEnded DEF RunPassed
    <3>2. /\ status'[w] = "completed" /\ runs[w][i].verdict = "pending"
          /\ runs[w][i].by # "close" => UNCHANGED removals
          /\ UNCHANGED <<phase, attempts, handle, life>>
      BY <1>13 DEF RunPassed, EndRun, TypeOK
    <3> USE <1>0, <2>1, <3>1, <3>2 DEF WorkerInv
    <3>3. NothingBeforeSpawn(w)' /\ StartedHasStatus(w)' /\ LostIsOver(w)'
      BY DEF NothingBeforeSpawn, StartedHasStatus, LostIsOver
    <3>4. AtMostOneCloseRun(w)' /\ CloseRunAfterClose(w)'
      BY DEF AtMostOneCloseRun, CloseRunAfterClose
    <3>5. CloseRunPending(w)' => CloseRunPending(w)
      BY DEF CloseRunPending
    <3>6. RestartAfterCloseRun(w)'
      BY <3>5 DEF RestartAfterCloseRun
    <3>7. (AutoCleanup(w)' => ListenersDone(w)') /\ NoProcessToDisturb(w)'
      <4>1. CASE runs[w][i].by = "close"
        <5>1. life[w][1] = "gone" /\ ~CloseRunPending(w)'
          BY <4>1 DEF CloseRunAfterClose, CloseRunPending, AtMostOneCloseRun
        <5>2. attempts[w] = 0
          BY <4>1, <1>r DEF RestartAfterCloseRun, CloseRunPending
        <5>3. NoProcessToDisturb(w)'
          BY <5>1, <5>2, <1>o DEF NoProcessToDisturb
        <5> QED BY <5>1, <5>3 DEF ListenersDone
      <4>2. CASE runs[w][i].by # "close"
        BY <3>5, <4>2 DEF ListenersDone, NoProcessToDisturb, AutoCleanup
      <4> QED BY <4>1, <4>2
    <3>8. CompletionIsBacked(w)' /\ WillSettle(w)'
      BY DEF CompletionIsBacked, WillSettle, RunsWith
    <3> QED BY <3>3, <3>4, <3>6, <3>7, <3>8
  <2>2. CASE v # w
    <3>1. UNCHANGED <<runs[v], passed[v]>>
      BY <1>13, <2>2, RunEnded DEF RunPassed
    <3> QED BY <1>0, <1>13, <2>2, <3>1, Untouched
            DEF RunPassed, RemoveIfOwn, TypeOK, AutoCleanup
  <2> QED BY <2>1, <2>2
<1>14. ASSUME NEW w \in Workers, NEW i \in DOMAIN runs[w],
              NEW verdict \in {"failed", "crashed"},
              NEW outcome \in {"alive", "spawnError", "throws"},
              RunFailedRestart(w, i, verdict, outcome)
       PROVE  WorkerInv(v)'
  <2>1. CASE v = w
    <3>1. /\ DOMAIN runs'[w] = DOMAIN runs[w]
          /\ runs'[w][i].by = runs[w][i].by
          /\ runs'[w][i].verdict = verdict
          /\ \A j \in DOMAIN runs[w] \ {i} : runs'[w][j] = runs[w][j]
          /\ passed'[w] = "no"
      BY <1>14, RunEnded DEF RunFailedRestart
    <3>2. /\ runs[w][i].by = "close" /\ runs[w][i].verdict = "pending"
          /\ UNCHANGED <<phase, removals>>
      BY <1>14 DEF RunFailedRestart, EndRun
    <3>3. attempts[w] = 0
      BY <1>0, <1>r, <2>1, <3>2
         DEF WorkerInv, RestartAfterCloseRun, CloseRunPending
    <3>4. /\ attempts'[w] = 1
          /\ status'[w] \in {"running", "failed"}
      BY <1>14, <3>3 DEF RunFailedRestart, Restart, TypeOK
    <3>5. 2 \in Procs
      BY <1>14, <3>3, LifecycleAssumption DEF RunFailedRestart, MayRetry, Procs
    <3>6. \A n \in Procs \ {2} : life'[w][n] = life[w][n]
      BY <1>14, <3>3, <3>5 DEF RunFailedRestart, Restart, TypeOK
    <3> USE <1>0, <2>1, <3>1, <3>2, <3>3, <3>4, <3>6 DEF WorkerInv
    <3>7. phase[w] \notin {"idle", "creating", "refused"}
      BY DEF NothingBeforeSpawn
    <3>8. NothingBeforeSpawn(w)' /\ StartedHasStatus(w)' /\ LostIsOver(w)'
      BY <3>7 DEF NothingBeforeSpawn, StartedHasStatus, LostIsOver
    <3>9. AtMostOneCloseRun(w)' /\ CloseRunAfterClose(w)'
      BY DEF AtMostOneCloseRun, CloseRunAfterClose
    <3>10. life'[w][1] = "gone" /\ ~CloseRunPending(w)'
      BY DEF CloseRunAfterClose, CloseRunPending, AtMostOneCloseRun
    <3>11. RestartAfterCloseRun(w)'
      BY <3>10 DEF RestartAfterCloseRun, Procs
    <3>12. ListenersDone(w)'
      BY <3>10 DEF ListenersDone
    <3>13. ~AutoCleanup(w)
      BY DEF ListenersDone, CloseRunPending
    <3>14. NoProcessToDisturb(w)'
      BY <3>13 DEF NoProcessToDisturb, AutoCleanup
    <3>15. CompletionIsBacked(w)' /\ WillSettle(w)'
      BY DEF CompletionIsBacked, WillSettle, RunsWith
    <3> QED BY <3>8, <3>9, <3>11, <3>12, <3>14, <3>15
  <2>2. CASE v # w
    <3>1. UNCHANGED <<runs[v], passed[v]>>
      BY <1>14, <2>2, RunEnded DEF RunFailedRestart
    <3>2. UNCHANGED <<status[v], attempts[v], handle[v], life[v]>>
      BY <1>14, <2>2 DEF RunFailedRestart, Restart, TypeOK
    <3> QED BY <1>0, <1>14, <2>2, <3>1, <3>2, Untouched
            DEF RunFailedRestart, AutoCleanup
  <2> QED BY <2>1, <2>2
<1>15. ASSUME NEW w \in Workers, NEW i \in DOMAIN runs[w],
              NEW verdict \in {"failed", "crashed"},
              RunFailedFinal(w, i, verdict)
       PROVE  WorkerInv(v)'
  <2>1. CASE v = w
    <3>1. /\ DOMAIN runs'[w] = DOMAIN runs[w]
          /\ runs'[w][i].by = runs[w][i].by
          /\ runs'[w][i].verdict = verdict
          /\ \A j \in DOMAIN runs[w] \ {i} : runs'[w][j] = runs[w][j]
          /\ passed'[w] = "no"
      BY <1>15, RunEnded DEF RunFailedFinal
    <3>2. /\ runs[w][i].by = "close" /\ runs[w][i].verdict = "pending"
          /\ status'[w] = "failed"
          /\ UNCHANGED <<phase, attempts, handle, life>>
      BY <1>15 DEF RunFailedFinal, EndRun, TypeOK
    <3> USE <1>0, <2>1, <3>1, <3>2 DEF WorkerInv
    <3>3. NothingBeforeSpawn(w)' /\ StartedHasStatus(w)' /\ LostIsOver(w)'
      BY DEF NothingBeforeSpawn, StartedHasStatus, LostIsOver
    <3>4. AtMostOneCloseRun(w)' /\ CloseRunAfterClose(w)'
      BY DEF AtMostOneCloseRun, CloseRunAfterClose
    <3>5. life[w][1] = "gone" /\ ~CloseRunPending(w)'
      BY DEF CloseRunAfterClose, CloseRunPending, AtMostOneCloseRun
    <3>6. RestartAfterCloseRun(w)' /\ ListenersDone(w)'
      BY <3>5 DEF RestartAfterCloseRun, ListenersDone
    <3>7. attempts[w] = 0
      BY <1>r DEF RestartAfterCloseRun, CloseRunPending
    <3>8. NoProcessToDisturb(w)'
      BY <1>o, <3>5, <3>7 DEF NoProcessToDisturb
    <3>9. CompletionIsBacked(w)' /\ WillSettle(w)'
      BY DEF CompletionIsBacked, WillSettle, RunsWith
    <3> QED BY <3>3, <3>4, <3>6, <3>8, <3>9
  <2>2. CASE v # w
    <3>1. UNCHANGED <<runs[v], passed[v]>>
      BY <1>15, <2>2, RunEnded DEF RunFailedFinal
    <3> QED BY <1>0, <1>15, <2>2, <3>1, Untouched
            DEF RunFailedFinal, RemoveIfOwn, TypeOK, AutoCleanup
  <2> QED BY <2>1, <2>2
<1>16. ASSUME NEW w \in Workers, NEW i \in DOMAIN runs[w],
              NEW verdict \in {"failed", "crashed"},
              RunFailedStopped(w, i, verdict)
       PROVE  WorkerInv(v)'
  <2>1. CASE v = w
    <3>1. /\ DOMAIN runs'[w] = DOMAIN runs[w]
          /\ runs'[w][i].by = runs[w][i].by
          /\ runs'[w][i].verdict = verdict
          /\ \A j \in DOMAIN runs[w] \ {i} : runs'[w][j] = runs[w][j]
          /\ passed'[w] = "no"
      BY <1>16, RunEnded DEF RunFailedStopped
    <3>2. /\ runs[w][i].by = "stop" /\ runs[w][i].verdict = "pending"
          /\ UNCHANGED <<phase, status, attempts, handle, life, removals>>
      BY <1>16 DEF RunFailedStopped, EndRun
    <3> USE <1>0, <2>1, <3>1, <3>2 DEF WorkerInv
    <3>3. NothingBeforeSpawn(w)' /\ StartedHasStatus(w)' /\ LostIsOver(w)'
      BY DEF NothingBeforeSpawn, StartedHasStatus, LostIsOver
    <3>4. AtMostOneCloseRun(w)' /\ CloseRunAfterClose(w)'
      BY DEF AtMostOneCloseRun, CloseRunAfterClose
    <3>5. CloseRunPending(w)' => CloseRunPending(w)
      BY DEF CloseRunPending
    <3>6. RestartAfterCloseRun(w)' /\ NoProcessToDisturb(w)'
      BY <3>5 DEF RestartAfterCloseRun, NoProcessToDisturb, AutoCleanup
    <3>7. (ListenersDone(w) => ListenersDone(w)') /\ UNCHANGED AutoCleanup(w)
      BY <3>5 DEF ListenersDone, AutoCleanup
    <3>8. CompletionIsBacked(w)' /\ WillSettle(w)'
      BY DEF CompletionIsBacked, WillSettle, RunsWith
    <3> QED BY <3>3, <3>4, <3>6, <3>7, <3>8
  <2>2. CASE v # w
    <3>1. UNCHANGED <<runs[v], passed[v]>>
      BY <1>16, <2>2, RunEnded DEF RunFailedStopped
    <3> QED BY <1>0, <1>16, <2>2, <3>1, Untouched DEF RunFailedStopped, AutoCleanup
  <2> QED BY <2>1, <2>2
<1>17. ASSUME NEW w \in Workers, NEW cleanupWorktree \in BOOLEAN,
              Stop(w, cleanupWorktree)
       PROVE  WorkerInv(v)'
  <2>1. CASE v = w
    <3>1. /\ handle[w] # NoProc
          /\ status'[w] = "validating"
          /\ UNCHANGED <<phase, attempts, handle, passed, life>>
      BY <1>17 DEF Stop, Stoppable, BeginRun, TypeOK
    <3>2. AutoCleanup(w)' = AutoCleanup(w)
      BY <1>17 DEF Stop, AutoCleanup, TypeOK
    <3>3. PICK last : /\ DOMAIN runs'[w] = DOMAIN runs[w] \cup {last}
                      /\ last \notin DOMAIN runs[w]
                      /\ \A i \in DOMAIN runs[w] : runs'[w][i] = runs[w][i]
                      /\ runs'[w][last].by = "stop"
                      /\ runs'[w][last].verdict = "pending"
      BY <1>17, RunBegun DEF Stop
    <3> USE <1>0, <2>1, <3>1, <3>2, <3>3 DEF WorkerInv
    <3>4. NothingBeforeSpawn(w)' /\ StartedHasStatus(w)' /\ LostIsOver(w)'
      BY DEF NothingBeforeSpawn, StartedHasStatus, LostIsOver
    <3>5. AtMostOneCloseRun(w)' /\ CloseRunAfterClose(w)'
      BY DEF AtMostOneCloseRun, CloseRunAfterClose
    <3>6. CloseRunPending(w)' => CloseRunPending(w)
      BY DEF CloseRunPending
    <3>7. RestartAfterCloseRun(w)' /\ NoProcessToDisturb(w)'
      BY <3>6 DEF RestartAfterCloseRun, NoProcessToDisturb
    <3>8. ListenersDone(w) => ListenersDone(w)'
      BY <3>6 DEF ListenersDone
    <3>9. CompletionIsBacked(w)' /\ WillSettle(w)'
      BY DEF CompletionIsBacked, WillSettle, RunsWith
    <3> QED BY <3>4, <3>5, <3>7, <3>8, <3>9
  <2>2. CASE v # w
    <3>1. UNCHANGED <<runs[v], status[v]>>
      BY <1>17, <2>2, RunBegun DEF Stop
    <3> QED BY <1>0, <1>17, <2>2, <3>1, Untouched DEF Stop, TypeOK, AutoCleanup
  <2> QED BY <2>1, <2>2
<1>18. ASSUME StopAll
       PROVE  WorkerInv(v)'
  <2>1. CASE v \in registered /\ handle[v] # NoProc /\ status[v] = "running"
    <3>1. /\ status'[v] = "stopped"
          /\ UNCHANGED <<phase, attempts, handle, life, runs, passed, removals>>
      BY <1>18, <2>1 DEF StopAll
    <3> QED BY <1>0, <2>1, <3>1
         DEF WorkerInv, NothingBeforeSpawn, StartedHasStatus, LostIsOver,
             AtMostOneCloseRun, CloseRunAfterClose, RestartAfterCloseRun,
             NoProcessToDisturb, CompletionIsBacked, WillSettle,
             ListenersDone, AutoCleanup, CloseRunPending, RunsWith
  <2>2. CASE ~(v \in registered /\ handle[v] # NoProc /\ status[v] = "running")
    BY <1>0, <1>18, <2>2, Untouched DEF StopAll, AutoCleanup
  <2> QED BY <2>1, <2>2
<1>19. ASSUME Clear
       PROVE  WorkerInv(v)'
  BY <1>0, <1>19, Untouched DEF Clear, AutoCleanup
<1>20. ASSUME NEW w \in Workers, Delete(w)
       PROVE  WorkerInv(v)'
  <2>1. AutoCleanup(v)' = AutoCleanup(v)
    BY <1>20 DEF Delete, AutoCleanup, TypeOK
  <2>2. UNCHANGED <<phase, attempts, handle, life, runs, passed>>
    BY <1>20 DEF Delete
  <2>3. CASE v = w /\ Stoppable(w)
    <3>1. status'[v] = "stopped" /\ handle[v] # NoProc
      BY <1>20, <2>3 DEF Delete, Stoppable, TypeOK
    <3> QED BY <1>0, <2>1, <2>2, <2>3, <3>1
         DEF WorkerInv, NothingBeforeSpawn, StartedHasStatus, LostIsOver,
             AtMostOneCloseRun, CloseRunAfterClose, RestartAfterCloseRun,
             NoProcessToDisturb, CompletionIsBacked, WillSettle,
             ListenersDone, CloseRunPending, RunsWith
  <2>4. CASE ~(v = w /\ Stoppable(w))
    <3>1. status'[v] = status[v]
      BY <1>20, <2>4 DEF Delete, TypeOK
    <3> QED BY <1>0, <2>1, <2>2, <3>1, Untouched
  <2> QED BY <2>3, <2>4
<1>21. ASSUME NEW w \in Workers, CleanupWorktree(w)
       PROVE  WorkerInv(v)'
  BY <1>0, <1>21, Untouched DEF CleanupWorktree, AutoCleanup, TypeOK
<1>22. ASSUME NEW w \in Workers, NEW asker \in Asker, RemovalDone(w, asker)
       PROVE  WorkerInv(v)'
  BY <1>0, <1>22, Untouched DEF RemovalDone, AutoCleanup, TypeOK
<1>23. ASSUME NEW w \in Workers, NEW asker \in Asker, RemovalFails(w, asker)
       PROVE  WorkerInv(v)'
  BY <1>0, <1>23, Untouched DEF RemovalFails, AutoCleanup, TypeOK
<1>24. ASSUME ServerEnds
       PROVE  WorkerInv(v)'
  BY <1>0, <1>24, ServerGoneKeeps DEF ServerEnds, ShutDown, UnheardError
<1>25. CASE UNCHANGED vars
  BY <1>0, <1>25, Untouched DEF vars, AutoCleanup
<1> QED
  BY <1>1, <1>2, <1>3, <1>4, <1>5, <1>6, <1>7, <1>8, <1>9, <1>10, <1>11,
     <1>12, <1>13, <1>14, <1>15, <1>16, <1>17, <1>18, <1>19, <1>20, <1>21,
     <1>22, <1>23, <1>24, <1>25
     DEF Next, Step, Request, CloseEvent, RunEnds

\* It holds initially.
LEMMA InvInit == Init => IInv
<1>1. ASSUME Init, NEW w \in Workers
      PROVE  WorkerInv(w)
  <2>1. /\ phase[w] = "idle" /\ status[w] = "none" /\ passed[w] = "unset"
        /\ attempts[w] = 0 /\ handle[w] = NoProc /\ runs[w] = <<>>
        /\ removals[w] = {} /\ \A n \in Procs : life[w][n] = "none"
    BY <1>1 DEF Init
  <2>2. ~AutoCleanup(w) /\ status[w] # "failed"
    BY <2>1 DEF AutoCleanup
  <2>3. NothingBeforeSpawn(w)
    BY <2>1 DEF NothingBeforeSpawn, AutoCleanup
  <2>4. AtMostOneCloseRun(w) /\ CloseRunAfterClose(w)
    BY <2>1 DEF AtMostOneCloseRun, CloseRunAfterClose
  <2>5. RestartAfterCloseRun(w) /\ NoProcessToDisturb(w)
    BY <2>1, <2>2 DEF RestartAfterCloseRun, NoProcessToDisturb
  <2>6. CompletionIsBacked(w) /\ WillSettle(w)
    BY <2>1 DEF CompletionIsBacked, WillSettle
  <2>7. StartedHasStatus(w) /\ LostIsOver(w)
    BY <2>1 DEF StartedHasStatus, LostIsOver
  <2> QED BY <2>2, <2>3, <2>4, <2>5, <2>6, <2>7 DEF WorkerInv
<1> QED BY <1>1 DEF IInv

\* The inductive invariant holds in every reachable state.
THEOREM Inductive == Spec => []IInv
  BY InvInit, InvStep, TypeCorrect, PTL DEF Spec

--------------------------------------------------------------------------
(* What the invariant implies *)

\* A worker never has two live processes in its directory.
THEOREM NeverTwoProcesses == Spec => []OneLiveProcess
<1>1. ASSUME TypeOK, IInv, NEW w \in Workers
      PROVE  AtMostOneAlive(w)
  <2>1. WorkerInv(w) /\ 1 \in Procs
    BY <1>1, LifecycleAssumption DEF IInv, Procs
  <2>2. CASE attempts[w] = 0
    BY <1>1, <2>1, <2>2, OriginalOnly DEF AtMostOneAlive
  <2>3. CASE attempts[w] = 1
    <3>1. life[w][1] = "gone"
      BY <2>1, <2>3 DEF WorkerInv, RestartAfterCloseRun
    <3>2. \A n \in Procs \ {1, 2} : life[w][n] = "none"
      BY <2>1, <2>3, LifecycleAssumption DEF WorkerInv, RestartAfterCloseRun, Procs
    <3> QED BY <3>1, <3>2 DEF AtMostOneAlive
  <2> QED BY <1>1, <2>1, <2>2, <2>3, OneRestart
<1>2. TypeOK /\ IInv => OneLiveProcess
  BY <1>1 DEF OneLiveProcess
<1> QED BY <1>2, TypeCorrect, Inductive, PTL

\* 'completed' and validationPassed are backed by a run that passed.
THEOREM CompletedIsValidated == Spec => []CompletedWasValidated
<1>1. IInv => CompletedWasValidated
  BY DEF IInv, WorkerInv, CompletedWasValidated
<1> QED BY <1>1, Inductive, PTL

\* A worker left 'validating' without a run is one whose manual stop failed.
THEOREM ValidatingSettles == Spec => []ValidatingIsSettledLater
<1>1. IInv => ValidatingIsSettledLater
  BY DEF IInv, WorkerInv, ValidatingIsSettledLater
<1> QED BY <1>1, Inductive, PTL

\* The 'close' handler validates a worker once.
THEOREM ClosesOnce == Spec => []OneCloseRun
<1>1. IInv => OneCloseRun
  BY DEF IInv, WorkerInv, OneCloseRun
<1> QED BY <1>1, Inductive, PTL

\* The automatic cleanup finds no live process of the worker.
THEOREM CleanupDisturbsNone == Spec => []CleanupAfterLastProcess
<1>1. IInv => CleanupAfterLastProcess
  BY DEF IInv, WorkerInv, CleanupAfterLastProcess
<1> QED BY <1>1, Inductive, PTL

--------------------------------------------------------------------------
(* WorkerStatus is implemented *)

\* The abstract 'validated'.
Validated == {w \in Workers : RunsWith(w, "passed") # {}}

\* A step that leaves the runs alone changes only the status of w.
LEMMA StatusMove ==
  ASSUME TypeOK, NEW w \in Workers,
         UNCHANGED runs,
         \A v \in Workers \ {w} : status'[v] = status[v],
         \/ status'[w] = status[w]
         \/ /\ <<status[w], status'[w]>> \in Seen!Observable
            /\ status'[w] # "completed"
  PROVE  Seen!Next
<1>1. Validated' = Validated
  BY DEF Validated, RunsWith
<1> QED BY <1>1 DEF Seen!Next, Seen!Observe, Validated

\* A run that begins or fails takes nothing from Validated.
LEMMA RunMove ==
  ASSUME TypeOK, NEW w \in Workers,
         \A v \in Workers \ {w} : UNCHANGED <<runs[v], status[v]>>,
         DOMAIN runs[w] \subseteq DOMAIN runs'[w],
         \A i \in DOMAIN runs[w] :
           runs[w][i].verdict = "passed" => runs'[w][i].verdict = "passed",
         \/ status'[w] = status[w]
         \/ /\ <<status[w], status'[w]>> \in Seen!Observable
            /\ status'[w] = "completed" => RunsWith(w, "passed")' # {}
  PROVE  Seen!Next
<1>1. Validated \subseteq Validated'
  <2> SUFFICES ASSUME NEW v \in Validated
               PROVE  RunsWith(v, "passed")' # {}
    BY DEF Validated
  <2>1. CASE v = w
    BY <2>1 DEF Validated, RunsWith
  <2>2. CASE v # w
    BY <2>2 DEF Validated, RunsWith
  <2> QED BY <2>1, <2>2
<1>2. ASSUME NEW v \in Workers
      PROVE  \/ status'[v] = status[v]
             \/ /\ <<status[v], status'[v]>> \in Seen!Observable
                /\ status'[v] = "completed" => v \in Validated'
  BY DEF Validated
<1> QED BY <1>1, <1>2 DEF Seen!Next, Seen!Observe, Validated

\* Every step of a worker is one a client of WorkerStatus may observe.
LEMMA StepRefines == TypeOK /\ IInv /\ [Next]_vars => [Seen!Next]_(Seen!vars)
<1> SUFFICES ASSUME TypeOK, IInv, [Next]_vars
             PROVE  Seen!Next \/ UNCHANGED <<status, runs>>
  BY DEF Seen!vars, RunsWith
<1>0. ASSUME NEW w \in Workers
      PROVE  WorkerInv(w) /\ status[w] \in Status
  BY DEF IInv, TypeOK
<1>1. ASSUME NEW w \in Workers, NEW outcome \in {"alive", "spawnError"},
             StartSpawn(w, outcome)
      PROVE  Seen!Next
  <2>1. status[w] = "none"
    BY <1>0, <1>1 DEF StartSpawn, WorkerInv, NothingBeforeSpawn
  <2> QED BY <1>1, <2>1, StatusMove DEF StartSpawn, Seen!Observable, TypeOK
<1>2. ASSUME NEW w \in Workers,
             StartSpawnThrows(w)
      PROVE  Seen!Next
  <2>1. status[w] = "none"
    BY <1>0, <1>2 DEF StartSpawnThrows, WorkerInv, NothingBeforeSpawn
  <2> QED BY <1>2, <2>1, StatusMove DEF StartSpawnThrows, Seen!Observable, TypeOK
<1>3. ASSUME NEW w \in Workers, NEW n \in Procs,
             SpawnErrorEvent(w, n)
      PROVE  Seen!Next
  <2>1. status[w] \notin {"none", "starting"} /\ status'[w] = "failed"
    BY <1>0, <1>3
       DEF SpawnErrorEvent, Heard, WorkerInv, StartedHasStatus, TypeOK
  <2> QED BY <1>0, <1>3, <2>1, StatusMove
          DEF SpawnErrorEvent, Seen!Observable, TypeOK, Status
<1>4. ASSUME NEW w \in Workers, NEW n \in Procs,
             CloseOk(w, n)
      PROVE  Seen!Next
  <2>1. /\ life[w][1] = "exit0" /\ phase[w] = "listening"
        /\ status'[w] = "validating"
    BY <1>4 DEF CloseOk, Heard, BeginRun, TypeOK
  <2>2. status[w] \notin {"none", "starting", "failed"}
    BY <1>0, <2>1 DEF WorkerInv, StartedHasStatus, ListenersDone
  <2>3. <<status[w], status'[w]>> \in Seen!Observable \/ status'[w] = status[w]
    BY <1>0, <2>1, <2>2 DEF Seen!Observable, Status
  <2> QED BY <1>4, <2>1, <2>3, RunBegun, RunMove DEF CloseOk
<1>5. ASSUME NEW w \in Workers, NEW n \in Procs,
             CloseFailed(w, n)
      PROVE  Seen!Next
  <2>1. status[w] \notin {"none", "starting"} /\ status'[w] = "failed"
    BY <1>0, <1>5 DEF CloseFailed, Heard, WorkerInv, StartedHasStatus, TypeOK
  <2> QED BY <1>0, <1>5, <2>1, StatusMove
          DEF CloseFailed, Seen!Observable, TypeOK, Status
<1>6. ASSUME NEW w \in Workers, NEW i \in DOMAIN runs[w],
             RunPassed(w, i)
      PROVE  Seen!Next
  <2>1. /\ DOMAIN runs'[w] = DOMAIN runs[w]
        /\ runs[w][i].verdict = "pending" /\ runs'[w][i].verdict = "passed"
        /\ \A j \in DOMAIN runs[w] \ {i} : runs'[w][j] = runs[w][j]
        /\ \A v \in Workers \ {w} : UNCHANGED <<runs[v], status[v]>>
        /\ status'[w] = "completed"
    BY <1>6, RunEnded DEF RunPassed, EndRun, TypeOK
  <2>2. status[w] \notin {"none", "starting"}
    BY <1>0, <2>1 DEF WorkerInv, StartedHasStatus, NothingBeforeSpawn,
            LostIsOver,
                      TypeOK, Phase
  <2>3. RunsWith(w, "passed")' # {}
    BY <2>1 DEF RunsWith
  <2>4. <<status[w], status'[w]>> \in Seen!Observable \/ status'[w] = status[w]
    BY <1>0, <2>1, <2>2 DEF Seen!Observable, Status
  <2> QED BY <2>1, <2>3, <2>4, RunMove
<1>7. ASSUME NEW w \in Workers, NEW i \in DOMAIN runs[w],
             NEW verdict \in {"failed", "crashed"},
             NEW outcome \in {"alive", "spawnError", "throws"},
             RunFailedRestart(w, i, verdict, outcome)
      PROVE  Seen!Next
  <2>1. /\ DOMAIN runs'[w] = DOMAIN runs[w]
        /\ runs[w][i].verdict = "pending" /\ runs[w][i].by = "close"
        /\ \A j \in DOMAIN runs[w] \ {i} : runs'[w][j] = runs[w][j]
        /\ \A v \in Workers \ {w} : UNCHANGED <<runs[v], status[v]>>
        /\ status'[w] \in {"running", "failed"}
    BY <1>7, RunEnded DEF RunFailedRestart, Restart, EndRun, TypeOK
  <2>2. status[w] \notin {"none", "starting"}
    BY <1>0, <2>1 DEF WorkerInv, StartedHasStatus, NothingBeforeSpawn,
            LostIsOver,
                      TypeOK, Phase
  <2>3. status[w] # "failed"
    BY <1>0, <2>1 DEF WorkerInv, ListenersDone, CloseRunPending
  <2>4. <<status[w], status'[w]>> \in Seen!Observable \/ status'[w] = status[w]
    BY <1>0, <2>1, <2>2, <2>3 DEF Seen!Observable, Status
  <2> QED BY <2>1, <2>4, RunMove
<1>8. ASSUME NEW w \in Workers, NEW i \in DOMAIN runs[w],
             NEW verdict \in {"failed", "crashed"},
             RunFailedFinal(w, i, verdict)
      PROVE  Seen!Next
  <2>1. /\ DOMAIN runs'[w] = DOMAIN runs[w]
        /\ runs[w][i].verdict = "pending"
        /\ \A j \in DOMAIN runs[w] \ {i} : runs'[w][j] = runs[w][j]
        /\ \A v \in Workers \ {w} : UNCHANGED <<runs[v], status[v]>>
        /\ status'[w] = "failed"
    BY <1>8, RunEnded DEF RunFailedFinal, EndRun, TypeOK
  <2>2. status[w] \notin {"none", "starting"}
    BY <1>0, <2>1 DEF WorkerInv, StartedHasStatus, NothingBeforeSpawn,
            LostIsOver,
                      TypeOK, Phase
  <2>3. <<status[w], status'[w]>> \in Seen!Observable \/ status'[w] = status[w]
    BY <1>0, <2>1, <2>2 DEF Seen!Observable, Status
  <2> QED BY <2>1, <2>3, RunMove
<1>9. ASSUME NEW w \in Workers, NEW i \in DOMAIN runs[w],
             NEW verdict \in {"failed", "crashed"},
             RunFailedStopped(w, i, verdict)
      PROVE  Seen!Next
  <2>1. /\ DOMAIN runs'[w] = DOMAIN runs[w]
        /\ runs[w][i].verdict = "pending"
        /\ \A j \in DOMAIN runs[w] \ {i} : runs'[w][j] = runs[w][j]
        /\ \A v \in Workers \ {w} : UNCHANGED <<runs[v], status[v]>>
        /\ status'[w] = status[w]
    BY <1>9, RunEnded DEF RunFailedStopped, EndRun
  <2> QED BY <2>1, RunMove
<1>10. ASSUME NEW w \in Workers, NEW cleanupWorktree \in BOOLEAN,
             Stop(w, cleanupWorktree)
      PROVE  Seen!Next
  <2>1. status[w] \in {"running", "validating"} /\ status'[w] = "validating"
    BY <1>10 DEF Stop, Stoppable, BeginRun, TypeOK
  <2>2. <<status[w], status'[w]>> \in Seen!Observable \/ status'[w] = status[w]
    BY <2>1 DEF Seen!Observable
  <2> QED BY <1>10, <2>1, <2>2, RunBegun, RunMove DEF Stop
<1>11. ASSUME StopAll
       PROVE  Seen!Next
  <2>1. Validated' = Validated
    BY <1>11 DEF StopAll, Validated, RunsWith
  <2>2. ASSUME NEW v \in Workers
        PROVE  \/ status'[v] = status[v]
               \/ status[v] = "running" /\ status'[v] = "stopped"
    <3>1. CASE v \in registered /\ handle[v] # NoProc /\ status[v] = "running"
      BY <1>11, <3>1 DEF StopAll
    <3>2. CASE ~(v \in registered /\ handle[v] # NoProc /\ status[v] = "running")
      BY <1>11, <3>2 DEF StopAll
    <3> QED BY <3>1, <3>2
  <2> QED BY <2>1, <2>2 DEF Seen!Next, Seen!Observe, Seen!Observable, Validated
<1>12. ASSUME NEW w \in Workers,
             Delete(w)
      PROVE  Seen!Next
  <2>1. \/ status'[w] = status[w]
        \/ status[w] \in {"running", "validating"} /\ status'[w] = "stopped"
    BY <1>12 DEF Delete, Stoppable, TypeOK
  <2> QED BY <1>12, <2>1, StatusMove DEF Delete, Seen!Observable, TypeOK
<1>13. ASSUME NEW w \in Workers, NEW ownTree \in BOOLEAN, StartRequest(w, ownTree)
       PROVE  UNCHANGED <<status, runs>>
  BY <1>13 DEF StartRequest
<1>14. ASSUME NEW w \in Workers, StartRefused(w)
       PROVE  UNCHANGED <<status, runs>>
  BY <1>14 DEF StartRefused
<1>15. ASSUME NEW w \in Workers, StartListen(w)
       PROVE  UNCHANGED <<status, runs>>
  BY <1>15 DEF StartListen
<1>16. ASSUME NEW w \in Workers, NEW n \in Procs, NEW how \in {"exit0", "exit1"},
              ProcessExit(w, n, how)
       PROVE  UNCHANGED <<status, runs>>
  BY <1>16 DEF ProcessExit
<1>17. ASSUME NEW w \in Workers, NEW n \in Procs, CloseUnheard(w, n)
       PROVE  UNCHANGED <<status, runs>>
  BY <1>17 DEF CloseUnheard
<1>18. ASSUME NEW w \in Workers, ResultMessage(w) \/ AutoStop(w)
       PROVE  UNCHANGED <<status, runs>>
  BY <1>18 DEF ResultMessage, AutoStop
<1>19. ASSUME NEW w \in Workers, CleanupWorktree(w)
       PROVE  UNCHANGED <<status, runs>>
  BY <1>19 DEF CleanupWorktree
<1>20. ASSUME NEW w \in Workers, NEW asker \in Asker,
              RemovalDone(w, asker) \/ RemovalFails(w, asker)
       PROVE  UNCHANGED <<status, runs>>
  BY <1>20 DEF RemovalDone, RemovalFails
<1>21. ASSUME Clear \/ UNCHANGED vars
       PROVE  UNCHANGED <<status, runs>>
  BY <1>21 DEF Clear, vars
<1>22. ASSUME ServerEnds
       PROVE  Seen!Next
  <2>1. ServerGone
    BY <1>22 DEF ServerEnds, ShutDown, UnheardError
  <2>2. Validated' = Validated
    BY <2>1, RunsOver DEF Validated, RunsWith
  <2> QED BY <2>1, <2>2 DEF ServerGone, Seen!Next, Seen!Forget, Validated
<1> QED
  BY <1>1, <1>2, <1>3, <1>4, <1>5, <1>6, <1>7, <1>8, <1>9, <1>10, <1>11,
     <1>12, <1>13, <1>14, <1>15, <1>16, <1>17, <1>18, <1>19, <1>20, <1>21,
     <1>22
     DEF Next, Step, Request, CloseEvent, RunEnds

\* The worker table implements WorkerStatus.
THEOREM Implements == Spec => ImplementsWorkerStatus
<1>1. Init => Seen!Init
  BY DEF Init, Seen!Init, RunsWith
<1>2. TypeOK /\ IInv /\ [Next]_vars => [Seen!Next]_(Seen!vars)
  BY StepRefines
<1> QED BY <1>1, <1>2, TypeCorrect, Inductive, PTL
        DEF Spec, ImplementsWorkerStatus, Seen!Spec
==========================================================================
