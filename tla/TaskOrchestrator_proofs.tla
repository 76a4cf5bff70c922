---------------------- MODULE TaskOrchestrator_proofs ----------------------
(***************************************************************************)
(* Proofs about TaskOrchestrator, for any number of loops, cycles, prompts *)
(* and tasks, any filters and any number of attempts.                      *)
(***************************************************************************)
EXTENDS TaskOrchestrator, TLAPS

(* What the helpers write keeps its type. *)

LEMMA AfterCycleType ==
  ASSUME TypeOK, NEW a \in Actors
  PROVE  AfterCycle(a) \in {"cleanup", "fetch", "done"}
  BY DEF AfterCycle, TypeOK, Actors

LEMMA NextAttemptType ==
  ASSUME TypeOK, NEW a \in Actors, NextAttempt(a)
  PROVE  /\ tries' \in [Actors -> 0 .. MaxTaskRetries]
         /\ \/ pc' = [pc EXCEPT ![a] = "claude"]
            \/ pc' = [pc EXCEPT ![a] = "fail"]
  BY OrchestratorAssumption DEF TypeOK, NextAttempt, Goto

LEMMA IsNextIdType ==
  ASSUME TypeOK, NEW t \in Tasks, IsNextId(t)
  PROVE  status[t] = "none"
  BY DEF IsNextId

-----------------------------------------------------------------------------
(* One lemma per action: it preserves the inductive invariant. *)

\* POST /start
LEMMA StartStep ==
  ASSUME IInv, NEW l \in Loops, Start(l)
  PROVE  IInv'
<1>1. TypeOK'
  BY OrchestratorAssumption DEF IInv, TypeOK, TaskStatus, PC, Priority,
     Actors, AtWork, NoTask, table, requests, Start, Goto
<1>2. HoldersHoldTasks'
  BY OrchestratorAssumption DEF IInv, TypeOK, HoldersHoldTasks, Actors,
     AtWork, NoTask, table, requests, Start, Goto
<1>3. PassedBeforeCompletion'
  BY OrchestratorAssumption DEF IInv, TypeOK, PassedBeforeCompletion,
     Actors, AtWork, NoTask, table, requests, Start, Goto
<1>4. InProgressIsOwned'
  BY OrchestratorAssumption, <1>1 DEF IInv, TypeOK, InProgressIsOwned,
     Working, Actors, AtWork, NoTask, table, requests, Start, Goto
<1>5. CompletedWasPassed'
  BY OrchestratorAssumption DEF IInv, TypeOK, CompletedWasPassed, Actors,
     AtWork, NoTask, table, requests, Start, Goto
<1> QED BY <1>1, <1>2, <1>3, <1>4, <1>5 DEF IInv

\* cleanup()
LEMMA CleanedUpStep ==
  ASSUME IInv, NEW l \in Loops, CleanedUp(l)
  PROVE  IInv'
<1>1. TypeOK'
  BY OrchestratorAssumption DEF IInv, TypeOK, TaskStatus, PC, Priority,
     Actors, AtWork, NoTask, table, requests, CleanedUp, Goto
<1>2. HoldersHoldTasks'
  BY OrchestratorAssumption DEF IInv, TypeOK, HoldersHoldTasks, Actors,
     AtWork, NoTask, table, requests, CleanedUp, Goto
<1>3. PassedBeforeCompletion'
  BY OrchestratorAssumption DEF IInv, TypeOK, PassedBeforeCompletion,
     Actors, AtWork, NoTask, table, requests, CleanedUp, Goto
<1>4. InProgressIsOwned'
  BY OrchestratorAssumption, <1>1 DEF IInv, TypeOK, InProgressIsOwned,
     Working, Actors, AtWork, NoTask, table, requests, CleanedUp, Goto
<1>5. CompletedWasPassed'
  BY OrchestratorAssumption DEF IInv, TypeOK, CompletedWasPassed, Actors,
     AtWork, NoTask, table, requests, CleanedUp, Goto
<1> QED BY <1>1, <1>2, <1>3, <1>4, <1>5 DEF IInv

\* POST /stop of a running loop
LEMMA StopRequestStep ==
  ASSUME IInv, NEW s \in Stops, StopRequest(s)
  PROVE  IInv'
<1>1. TypeOK'
  BY OrchestratorAssumption DEF IInv, TypeOK, TaskStatus, PC, Priority,
     Actors, AtWork, NoTask, table, requests, StopRequest, IsRunning
<1>2. HoldersHoldTasks'
  BY OrchestratorAssumption DEF IInv, TypeOK, HoldersHoldTasks, Actors,
     AtWork, NoTask, table, requests, StopRequest, IsRunning
<1>3. PassedBeforeCompletion'
  BY OrchestratorAssumption DEF IInv, TypeOK, PassedBeforeCompletion,
     Actors, AtWork, NoTask, table, requests, StopRequest, IsRunning
<1>4. InProgressIsOwned'
  BY OrchestratorAssumption, <1>1 DEF IInv, TypeOK, InProgressIsOwned,
     Working, Actors, AtWork, NoTask, table, requests, StopRequest,
     IsRunning
<1>5. CompletedWasPassed'
  BY OrchestratorAssumption DEF IInv, TypeOK, CompletedWasPassed, Actors,
     AtWork, NoTask, table, requests, StopRequest, IsRunning
<1> QED BY <1>1, <1>2, <1>3, <1>4, <1>5 DEF IInv

\* the end of the polling
LEMMA StopAnsweredStep ==
  ASSUME IInv, NEW s \in Stops, StopAnswered(s)
  PROVE  IInv'
<1>1. TypeOK'
  BY OrchestratorAssumption DEF IInv, TypeOK, TaskStatus, PC, Priority,
     Actors, AtWork, NoTask, table, requests, StopAnswered
<1>2. HoldersHoldTasks'
  BY OrchestratorAssumption DEF IInv, TypeOK, HoldersHoldTasks, Actors,
     AtWork, NoTask, table, requests, StopAnswered
<1>3. PassedBeforeCompletion'
  BY OrchestratorAssumption DEF IInv, TypeOK, PassedBeforeCompletion,
     Actors, AtWork, NoTask, table, requests, StopAnswered
<1>4. InProgressIsOwned'
  BY OrchestratorAssumption, <1>1 DEF IInv, TypeOK, InProgressIsOwned,
     Working, Actors, AtWork, NoTask, table, requests, StopAnswered
<1>5. CompletedWasPassed'
  BY OrchestratorAssumption DEF IInv, TypeOK, CompletedWasPassed, Actors,
     AtWork, NoTask, table, requests, StopAnswered
<1> QED BY <1>1, <1>2, <1>3, <1>4, <1>5 DEF IInv

\* POST /stop of a loop that ended
LEMMA StopEndedStep ==
  ASSUME IInv, StopEnded
  PROVE  IInv'
<1>1. TypeOK'
  BY OrchestratorAssumption DEF IInv, TypeOK, TaskStatus, PC, Priority,
     Actors, AtWork, NoTask, table, requests, StopEnded
<1>2. HoldersHoldTasks'
  BY OrchestratorAssumption DEF IInv, TypeOK, HoldersHoldTasks, Actors,
     AtWork, NoTask, table, requests, StopEnded
<1>3. PassedBeforeCompletion'
  BY OrchestratorAssumption DEF IInv, TypeOK, PassedBeforeCompletion,
     Actors, AtWork, NoTask, table, requests, StopEnded
<1>4. InProgressIsOwned'
  BY OrchestratorAssumption, <1>1 DEF IInv, TypeOK, InProgressIsOwned,
     Working, Actors, AtWork, NoTask, table, requests, StopEnded
<1>5. CompletedWasPassed'
  BY OrchestratorAssumption DEF IInv, TypeOK, CompletedWasPassed, Actors,
     AtWork, NoTask, table, requests, StopEnded
<1> QED BY <1>1, <1>2, <1>3, <1>4, <1>5 DEF IInv

\* POST /cycle
LEMMA CycleRequestStep ==
  ASSUME IInv, NEW c \in Cycles, CycleRequest(c)
  PROVE  IInv'
<1>1. TypeOK'
  BY OrchestratorAssumption DEF IInv, TypeOK, TaskStatus, PC, Priority,
     Actors, AtWork, NoTask, table, requests, CycleRequest, Goto
<1>2. HoldersHoldTasks'
  BY OrchestratorAssumption DEF IInv, TypeOK, HoldersHoldTasks, Actors,
     AtWork, NoTask, table, requests, CycleRequest, Goto
<1>3. PassedBeforeCompletion'
  BY OrchestratorAssumption DEF IInv, TypeOK, PassedBeforeCompletion,
     Actors, AtWork, NoTask, table, requests, CycleRequest, Goto
<1>4. InProgressIsOwned'
  BY OrchestratorAssumption, <1>1 DEF IInv, TypeOK, InProgressIsOwned,
     Working, Actors, AtWork, NoTask, table, requests, CycleRequest, Goto
<1>5. CompletedWasPassed'
  BY OrchestratorAssumption DEF IInv, TypeOK, CompletedWasPassed, Actors,
     AtWork, NoTask, table, requests, CycleRequest, Goto
<1> QED BY <1>1, <1>2, <1>3, <1>4, <1>5 DEF IInv

\* POST /execute
LEMMA PromptRequestStep ==
  ASSUME IInv, NEW p \in Prompts, PromptRequest(p)
  PROVE  IInv'
<1>1. TypeOK'
  BY OrchestratorAssumption DEF IInv, TypeOK, TaskStatus, PC, Priority,
     Actors, AtWork, NoTask, table, requests, PromptRequest, Goto, IsNextId
<1>2. HoldersHoldTasks'
  BY OrchestratorAssumption DEF IInv, TypeOK, HoldersHoldTasks, Actors,
     AtWork, NoTask, table, requests, PromptRequest, Goto, IsNextId
<1>3. PassedBeforeCompletion'
  BY OrchestratorAssumption DEF IInv, TypeOK, PassedBeforeCompletion,
     Actors, AtWork, NoTask, table, requests, PromptRequest, Goto, IsNextId
<1>4. InProgressIsOwned'
  BY OrchestratorAssumption, <1>1 DEF IInv, TypeOK, InProgressIsOwned,
     Working, Actors, AtWork, NoTask, table, requests, PromptRequest, Goto,
     IsNextId
<1>5. CompletedWasPassed'
  BY OrchestratorAssumption DEF IInv, TypeOK, CompletedWasPassed, Actors,
     AtWork, NoTask, table, requests, PromptRequest, Goto, IsNextId
<1> QED BY <1>1, <1>2, <1>3, <1>4, <1>5 DEF IInv

\* task.create
LEMMA PromptCreatesStep ==
  ASSUME IInv, NEW p \in Prompts, PromptCreates(p)
  PROVE  IInv'
<1>1. TypeOK'
  BY OrchestratorAssumption DEF IInv, TypeOK, TaskStatus, PC, Priority,
     Actors, AtWork, NoTask, table, requests, PromptCreates, Goto, IsNextId
<1>2. HoldersHoldTasks'
  BY OrchestratorAssumption DEF IInv, TypeOK, HoldersHoldTasks, Actors,
     AtWork, NoTask, table, requests, PromptCreates, Goto
<1>3. PassedBeforeCompletion'
  BY OrchestratorAssumption DEF IInv, TypeOK, PassedBeforeCompletion,
     Actors, AtWork, NoTask, table, requests, PromptCreates, Goto
<1>4. InProgressIsOwned'
  BY OrchestratorAssumption, <1>1 DEF IInv, TypeOK, InProgressIsOwned,
     Working, Actors, AtWork, NoTask, table, requests, PromptCreates, Goto
<1>5. CompletedWasPassed'
  BY OrchestratorAssumption DEF IInv, TypeOK, CompletedWasPassed, Actors,
     AtWork, NoTask, table, requests, PromptCreates, Goto
<1> QED BY <1>1, <1>2, <1>3, <1>4, <1>5 DEF IInv

\* task.create that fails
LEMMA PromptRefusedStep ==
  ASSUME IInv, NEW p \in Prompts, PromptRefused(p)
  PROVE  IInv'
<1>1. TypeOK'
  BY OrchestratorAssumption DEF IInv, TypeOK, TaskStatus, PC, Priority,
     Actors, AtWork, NoTask, table, requests, PromptRefused, Goto, Reply
<1>2. HoldersHoldTasks'
  BY OrchestratorAssumption DEF IInv, TypeOK, HoldersHoldTasks, Actors,
     AtWork, NoTask, table, requests, PromptRefused, Goto, Reply
<1>3. PassedBeforeCompletion'
  BY OrchestratorAssumption DEF IInv, TypeOK, PassedBeforeCompletion,
     Actors, AtWork, NoTask, table, requests, PromptRefused, Goto, Reply
<1>4. InProgressIsOwned'
  BY OrchestratorAssumption, <1>1 DEF IInv, TypeOK, InProgressIsOwned,
     Working, Actors, AtWork, NoTask, table, requests, PromptRefused, Goto,
     Reply
<1>5. CompletedWasPassed'
  BY OrchestratorAssumption DEF IInv, TypeOK, CompletedWasPassed, Actors,
     AtWork, NoTask, table, requests, PromptRefused, Goto, Reply
<1> QED BY <1>1, <1>2, <1>3, <1>4, <1>5 DEF IInv

\* a task of another route
LEMMA TaskAddedStep ==
  ASSUME IInv, NEW t \in Tasks, NEW q \in Offered, TaskAdded(t, q)
  PROVE  IInv'
<1>1. TypeOK'
  BY OrchestratorAssumption DEF IInv, TypeOK, TaskStatus, PC, Priority,
     Actors, AtWork, NoTask, table, requests, TaskAdded, IsNextId
<1>2. HoldersHoldTasks'
  BY OrchestratorAssumption DEF IInv, TypeOK, HoldersHoldTasks, Actors,
     AtWork, NoTask, table, requests, TaskAdded, IsNextId
<1>3. PassedBeforeCompletion'
  BY OrchestratorAssumption DEF IInv, TypeOK, PassedBeforeCompletion,
     Actors, AtWork, NoTask, table, requests, TaskAdded, IsNextId
<1>4. InProgressIsOwned'
  BY OrchestratorAssumption, <1>1 DEF IInv, TypeOK, InProgressIsOwned,
     Working, Actors, AtWork, NoTask, table, requests, TaskAdded, IsNextId
<1>5. CompletedWasPassed'
  BY OrchestratorAssumption DEF IInv, TypeOK, CompletedWasPassed, Actors,
     AtWork, NoTask, table, requests, TaskAdded, IsNextId
<1> QED BY <1>1, <1>2, <1>3, <1>4, <1>5 DEF IInv

\* fetchNextTask
LEMMA FetchOneStep ==
  ASSUME IInv, NEW a \in Actors, NEW t \in Tasks, FetchOne(a, t)
  PROVE  IInv'
<1>1. TypeOK'
  BY OrchestratorAssumption DEF IInv, TypeOK, TaskStatus, PC, Priority,
     Actors, AtWork, NoTask, table, requests, FetchOne, Goto
<1>2. HoldersHoldTasks'
  BY OrchestratorAssumption DEF IInv, TypeOK, HoldersHoldTasks, Actors,
     AtWork, NoTask, table, requests, FetchOne, Goto
<1>3. PassedBeforeCompletion'
  BY OrchestratorAssumption DEF IInv, TypeOK, PassedBeforeCompletion,
     Actors, AtWork, NoTask, table, requests, FetchOne, Goto
<1>4. InProgressIsOwned'
  BY OrchestratorAssumption, <1>1 DEF IInv, TypeOK, InProgressIsOwned,
     Working, Actors, AtWork, NoTask, table, requests, FetchOne, Goto
<1>5. CompletedWasPassed'
  BY OrchestratorAssumption DEF IInv, TypeOK, CompletedWasPassed, Actors,
     AtWork, NoTask, table, requests, FetchOne, Goto
<1> QED BY <1>1, <1>2, <1>3, <1>4, <1>5 DEF IInv

\* fetchNextTask that returns null
LEMMA FetchNoneStep ==
  ASSUME IInv, NEW a \in Actors, FetchNone(a)
  PROVE  IInv'
<1>1. TypeOK'
  BY OrchestratorAssumption DEF IInv, TypeOK, TaskStatus, PC, Priority,
     Actors, AtWork, NoTask, table, requests, FetchNone, Goto, Reply
<1>2. HoldersHoldTasks'
  BY OrchestratorAssumption DEF IInv, TypeOK, HoldersHoldTasks, Actors,
     AtWork, NoTask, table, requests, FetchNone, Goto, Reply
<1>3. PassedBeforeCompletion'
  BY OrchestratorAssumption DEF IInv, TypeOK, PassedBeforeCompletion,
     Actors, AtWork, NoTask, table, requests, FetchNone, Goto, Reply
<1>4. InProgressIsOwned'
  BY OrchestratorAssumption, <1>1 DEF IInv, TypeOK, InProgressIsOwned,
     Working, Actors, AtWork, NoTask, table, requests, FetchNone, Goto,
     Reply
<1>5. CompletedWasPassed'
  BY OrchestratorAssumption DEF IInv, TypeOK, CompletedWasPassed, Actors,
     AtWork, NoTask, table, requests, FetchNone, Goto, Reply
<1> QED BY <1>1, <1>2, <1>3, <1>4, <1>5 DEF IInv

\* the end of a poll interval
LEMMA WakeUpStep ==
  ASSUME IInv, NEW a \in Actors, WakeUp(a)
  PROVE  IInv'
<1>0. AfterCycle(a) \in {"cleanup", "fetch", "done"}
  BY AfterCycleType DEF IInv
<1>1. TypeOK'
  BY <1>0, OrchestratorAssumption DEF IInv, TypeOK, TaskStatus, PC,
     Priority, Actors, AtWork, NoTask, table, requests, WakeUp, Goto
<1>2. HoldersHoldTasks'
  BY <1>0, OrchestratorAssumption DEF IInv, TypeOK, HoldersHoldTasks,
     Actors, AtWork, NoTask, table, requests, WakeUp, Goto
<1>3. PassedBeforeCompletion'
  BY <1>0, OrchestratorAssumption DEF IInv, TypeOK, PassedBeforeCompletion,
     Actors, AtWork, NoTask, table, requests, WakeUp, Goto
<1>4. InProgressIsOwned'
  BY <1>0, OrchestratorAssumption, <1>1 DEF IInv, TypeOK, InProgressIsOwned,
     Working, Actors, AtWork, NoTask, table, requests, WakeUp, Goto
<1>5. CompletedWasPassed'
  BY <1>0, OrchestratorAssumption DEF IInv, TypeOK, CompletedWasPassed,
     Actors, AtWork, NoTask, table, requests, WakeUp, Goto
<1> QED BY <1>1, <1>2, <1>3, <1>4, <1>5 DEF IInv

\* updateTaskStatus
LEMMA MarkStep ==
  ASSUME IInv, NEW a \in Actors, Mark(a)
  PROVE  IInv'
<1>0. /\ tries' \in [Actors -> 0 .. MaxTaskRetries]
      /\ \/ pc' = [pc EXCEPT ![a] = "claude"]
         \/ pc' = [pc EXCEPT ![a] = "fail"]
  BY NextAttemptType DEF IInv, Mark, BackoffEnds
<1>1. TypeOK'
  BY <1>0, OrchestratorAssumption DEF IInv, TypeOK, HoldersHoldTasks,
     TaskStatus, PC, Priority, Actors, AtWork, NoTask, table, requests,
     Mark, Written, NotWritten
<1>2. HoldersHoldTasks'
  BY <1>0, OrchestratorAssumption DEF IInv, TypeOK, HoldersHoldTasks,
     Actors, AtWork, NoTask, table, requests, Mark, Written, NotWritten
<1>3. PassedBeforeCompletion'
  BY <1>0, OrchestratorAssumption DEF IInv, TypeOK, PassedBeforeCompletion,
     Actors, AtWork, NoTask, table, requests, Mark, Written, NotWritten
<1>4. InProgressIsOwned'
  BY <1>0, OrchestratorAssumption, <1>1 DEF IInv, TypeOK, InProgressIsOwned,
     Working, Actors, AtWork, NoTask, table, requests, Mark, Written,
     NotWritten
<1>5. CompletedWasPassed'
  BY <1>0, OrchestratorAssumption DEF IInv, TypeOK, CompletedWasPassed,
     Actors, AtWork, NoTask, table, requests, Mark, Written, NotWritten
<1> QED BY <1>1, <1>2, <1>3, <1>4, <1>5 DEF IInv

\* spawn()
LEMMA ClaudeEndsStep ==
  ASSUME IInv, NEW a \in Actors, ClaudeEnds(a)
  PROVE  IInv'
<1>1. TypeOK'
  BY OrchestratorAssumption DEF IInv, TypeOK, HoldersHoldTasks, TaskStatus,
     PC, Priority, Actors, AtWork, NoTask, table, requests, ClaudeEnds,
     AttemptSucceeded, AttemptFailed, Goto
<1>2. HoldersHoldTasks'
  BY OrchestratorAssumption DEF IInv, TypeOK, HoldersHoldTasks, Actors,
     AtWork, NoTask, table, requests, ClaudeEnds, AttemptSucceeded,
     AttemptFailed, Goto
<1>3. PassedBeforeCompletion'
  BY OrchestratorAssumption DEF IInv, TypeOK, PassedBeforeCompletion,
     Actors, AtWork, NoTask, table, requests, ClaudeEnds, AttemptSucceeded,
     AttemptFailed, Goto
<1>4. InProgressIsOwned'
  BY OrchestratorAssumption, <1>1 DEF IInv, TypeOK, InProgressIsOwned,
     Working, Actors, AtWork, NoTask, table, requests, ClaudeEnds,
     AttemptSucceeded, AttemptFailed, Goto
<1>5. CompletedWasPassed'
  BY OrchestratorAssumption DEF IInv, TypeOK, CompletedWasPassed, Actors,
     AtWork, NoTask, table, requests, ClaudeEnds, AttemptSucceeded,
     AttemptFailed, Goto
<1> QED BY <1>1, <1>2, <1>3, <1>4, <1>5 DEF IInv

\* runValidation()
LEMMA ValidationEndsStep ==
  ASSUME IInv, NEW a \in Actors, ValidationEnds(a)
  PROVE  IInv'
<1>1. TypeOK'
  BY OrchestratorAssumption DEF IInv, TypeOK, HoldersHoldTasks, TaskStatus,
     PC, Priority, Actors, AtWork, NoTask, table, requests, ValidationEnds,
     AttemptSucceeded, AttemptFailed, Goto
<1>2. HoldersHoldTasks'
  BY OrchestratorAssumption DEF IInv, TypeOK, HoldersHoldTasks, Actors,
     AtWork, NoTask, table, requests, ValidationEnds, AttemptSucceeded,
     AttemptFailed, Goto
<1>3. PassedBeforeCompletion'
  BY OrchestratorAssumption DEF IInv, TypeOK, PassedBeforeCompletion,
     Actors, AtWork, NoTask, table, requests, ValidationEnds,
     AttemptSucceeded, AttemptFailed, Goto
<1>4. InProgressIsOwned'
  BY OrchestratorAssumption, <1>1 DEF IInv, TypeOK, InProgressIsOwned,
     Working, Actors, AtWork, NoTask, table, requests, ValidationEnds,
     AttemptSucceeded, AttemptFailed, Goto
<1>5. CompletedWasPassed'
  BY OrchestratorAssumption DEF IInv, TypeOK, CompletedWasPassed, Actors,
     AtWork, NoTask, table, requests, ValidationEnds, AttemptSucceeded,
     AttemptFailed, Goto
<1> QED BY <1>1, <1>2, <1>3, <1>4, <1>5 DEF IInv

\* the end of the wait before a retry
LEMMA BackoffEndsStep ==
  ASSUME IInv, NEW a \in Actors, BackoffEnds(a)
  PROVE  IInv'
<1>0. /\ tries' \in [Actors -> 0 .. MaxTaskRetries]
      /\ \/ pc' = [pc EXCEPT ![a] = "claude"]
         \/ pc' = [pc EXCEPT ![a] = "fail"]
  BY NextAttemptType DEF IInv, Mark, BackoffEnds
<1>1. TypeOK'
  BY <1>0, OrchestratorAssumption DEF IInv, TypeOK, TaskStatus, PC,
     Priority, Actors, AtWork, NoTask, table, requests, BackoffEnds
<1>2. HoldersHoldTasks'
  BY <1>0, OrchestratorAssumption DEF IInv, TypeOK, HoldersHoldTasks,
     Actors, AtWork, NoTask, table, requests, BackoffEnds
<1>3. PassedBeforeCompletion'
  BY <1>0, OrchestratorAssumption DEF IInv, TypeOK, PassedBeforeCompletion,
     Actors, AtWork, NoTask, table, requests, BackoffEnds
<1>4. InProgressIsOwned'
  BY <1>0, OrchestratorAssumption, <1>1 DEF IInv, TypeOK, InProgressIsOwned,
     Working, Actors, AtWork, NoTask, table, requests, BackoffEnds
<1>5. CompletedWasPassed'
  BY <1>0, OrchestratorAssumption DEF IInv, TypeOK, CompletedWasPassed,
     Actors, AtWork, NoTask, table, requests, BackoffEnds
<1> QED BY <1>1, <1>2, <1>3, <1>4, <1>5 DEF IInv

\* completeTask()
LEMMA CompleteTaskStep ==
  ASSUME IInv, NEW a \in Actors, CompleteTask(a)
  PROVE  IInv'
<1>0. AfterCycle(a) \in {"cleanup", "fetch", "done"}
  BY AfterCycleType DEF IInv
<1>1. TypeOK'
  BY <1>0, OrchestratorAssumption DEF IInv, TypeOK, HoldersHoldTasks,
     TaskStatus, PC, Priority, Actors, AtWork, NoTask, table, requests,
     CompleteTask, Written, NotWritten, Goto, Reply
<1>2. HoldersHoldTasks'
  BY <1>0, OrchestratorAssumption DEF IInv, TypeOK, HoldersHoldTasks,
     Actors, AtWork, NoTask, table, requests, CompleteTask, Written,
     NotWritten, Goto, Reply
<1>3. PassedBeforeCompletion'
  BY <1>0, OrchestratorAssumption DEF IInv, TypeOK, PassedBeforeCompletion,
     Actors, AtWork, NoTask, table, requests, CompleteTask, Written,
     NotWritten, Goto, Reply
<1>4. InProgressIsOwned'
  BY <1>0, OrchestratorAssumption, <1>1 DEF IInv, TypeOK, InProgressIsOwned,
     Working, Actors, AtWork, NoTask, table, requests, CompleteTask,
     Written, NotWritten, Goto, Reply
<1>5. CompletedWasPassed'
  BY <1>0, OrchestratorAssumption DEF IInv, TypeOK, PassedBeforeCompletion,
     CompletedWasPassed, Actors, AtWork, NoTask, table, requests,
     CompleteTask, Written, NotWritten, Goto, Reply
<1> QED BY <1>1, <1>2, <1>3, <1>4, <1>5 DEF IInv

\* failTask()
LEMMA FailTaskStep ==
  ASSUME IInv, NEW a \in Actors, FailTask(a)
  PROVE  IInv'
<1>0. AfterCycle(a) \in {"cleanup", "fetch", "done"}
  BY AfterCycleType DEF IInv
<1>1. TypeOK'
  BY <1>0, OrchestratorAssumption DEF IInv, TypeOK, HoldersHoldTasks,
     TaskStatus, PC, Priority, Actors, AtWork, NoTask, table, requests,
     FailTask, Written, NotWritten, Goto, Reply
<1>2. HoldersHoldTasks'
  BY <1>0, OrchestratorAssumption DEF IInv, TypeOK, HoldersHoldTasks,
     Actors, AtWork, NoTask, table, requests, FailTask, Written, NotWritten,
     Goto, Reply
<1>3. PassedBeforeCompletion'
  BY <1>0, OrchestratorAssumption DEF IInv, TypeOK, PassedBeforeCompletion,
     Actors, AtWork, NoTask, table, requests, FailTask, Written, NotWritten,
     Goto, Reply
<1>4. InProgressIsOwned'
  BY <1>0, OrchestratorAssumption, <1>1 DEF IInv, TypeOK, InProgressIsOwned,
     Working, Actors, AtWork, NoTask, table, requests, FailTask, Written,
     NotWritten, Goto, Reply
<1>5. CompletedWasPassed'
  BY <1>0, OrchestratorAssumption DEF IInv, TypeOK, CompletedWasPassed,
     Actors, AtWork, NoTask, table, requests, FailTask, Written, NotWritten,
     Goto, Reply
<1> QED BY <1>1, <1>2, <1>3, <1>4, <1>5 DEF IInv

\* the crash of the server
LEMMA CrashStep ==
  ASSUME IInv, Crash
  PROVE  IInv'
<1>1. TypeOK'
  BY OrchestratorAssumption DEF IInv, TypeOK, TaskStatus, PC, Priority,
     Actors, AtWork, NoTask, table, requests, Crash
<1>2. HoldersHoldTasks'
  BY OrchestratorAssumption DEF IInv, TypeOK, HoldersHoldTasks, Actors,
     AtWork, NoTask, table, requests, Crash
<1>3. PassedBeforeCompletion'
  BY OrchestratorAssumption DEF IInv, TypeOK, PassedBeforeCompletion,
     Actors, AtWork, NoTask, table, requests, Crash
<1>4. InProgressIsOwned'
  BY OrchestratorAssumption, <1>1 DEF IInv, TypeOK, InProgressIsOwned,
     Working, Actors, AtWork, NoTask, table, requests, Crash
<1>5. CompletedWasPassed'
  BY OrchestratorAssumption DEF IInv, TypeOK, CompletedWasPassed, Actors,
     AtWork, NoTask, table, requests, Crash
<1> QED BY <1>1, <1>2, <1>3, <1>4, <1>5 DEF IInv

-----------------------------------------------------------------------------
(* The theorems *)

LEMMA InitIInv == Init => IInv
<1> SUFFICES ASSUME Init PROVE IInv
  OBVIOUS
<1>1. TypeOK
  BY OrchestratorAssumption
  DEF Init, TypeOK, TaskStatus, PC, Priority, Actors
<1> QED
  BY <1>1 DEF Init, IInv, HoldersHoldTasks, PassedBeforeCompletion,
              InProgressIsOwned, CompletedWasPassed, AtWork, Actors

\* A step that changes nothing preserves it.
LEMMA StutterStep ==
  ASSUME IInv, UNCHANGED vars
  PROVE  IInv'
  BY DEF IInv, vars, TypeOK, HoldersHoldTasks, PassedBeforeCompletion,
         InProgressIsOwned, CompletedWasPassed, Working

LEMMA NextStep ==
  ASSUME IInv, [Next]_vars
  PROVE  IInv'
<1>1. CASE \E l \in Loops : Start(l) \/ CleanedUp(l)
  BY <1>1, StartStep, CleanedUpStep
<1>2. CASE \E s \in Stops : StopRequest(s) \/ StopAnswered(s)
  BY <1>2, StopRequestStep, StopAnsweredStep
<1>3. CASE StopEnded
  BY <1>3, StopEndedStep
<1>4. CASE \E c \in Cycles : CycleRequest(c)
  BY <1>4, CycleRequestStep
<1>5. CASE \E p \in Prompts :
             PromptRequest(p) \/ PromptCreates(p) \/ PromptRefused(p)
  BY <1>5, PromptRequestStep, PromptCreatesStep, PromptRefusedStep
<1>6. CASE \E t \in Tasks, p \in Offered : TaskAdded(t, p)
  BY <1>6, TaskAddedStep
<1>7. CASE \E a \in Actors : Step(a) \/ ClaudeEnds(a)
  <2>1. PICK a \in Actors : Step(a) \/ ClaudeEnds(a)
    BY <1>7
  <2>2. CASE ClaudeEnds(a)
    BY <2>2, ClaudeEndsStep
  <2>3. CASE Step(a)
    BY <2>3, FetchOneStep, FetchNoneStep, WakeUpStep, MarkStep,
       ValidationEndsStep, BackoffEndsStep, CompleteTaskStep, FailTaskStep
    DEF Step
  <2> QED BY <2>1, <2>2, <2>3
<1>8. CASE Crash
  BY <1>8, CrashStep
<1>9. CASE UNCHANGED vars
  BY <1>9, StutterStep
<1> QED
  BY <1>1, <1>2, <1>3, <1>4, <1>5, <1>6, <1>7, <1>8, <1>9 DEF Next

\* The inductive invariant holds in every reachable state.
THEOREM Inductive == Spec => []IInv
  BY InitIInv, NextStep, PTL DEF Spec

\* Every variable keeps its type; an actor makes at most maxTaskRetries
\* attempts at a task (executeTaskWithRetries).
THEOREM TypeCorrect == Spec => []TypeOK
<1>1. IInv => TypeOK
  BY DEF IInv
<1> QED BY Inductive, <1>1, PTL

\* A task in progress has an actor that works on it, or was left behind by a
\* failed write or a crash (executeTaskWithRetries, completeTask, failTask).
THEOREM NoTaskIsForgotten == Spec => []InProgressIsOwned
<1>1. IInv => InProgressIsOwned
  BY DEF IInv
<1> QED BY Inductive, <1>1, PTL

\* A completed task had an attempt that succeeded (executeTaskWithRetries,
\* completeTask).
THEOREM CompletedIsPassed == Spec => []CompletedWasPassed
<1>1. IInv => CompletedWasPassed
  BY DEF IInv
<1> QED BY Inductive, <1>1, PTL

\* A completed task nobody holds stays completed (fetchNextTask, completeTask,
\* failTask).
THEOREM CompletedForGood == Spec => FinishedForGood
<1>1. ASSUME IInv, [Next]_vars, NEW t \in Tasks, status[t] = "completed",
             \A a \in Actors : ~Holds(a, t)
      PROVE  status'[t] = "completed" /\ \A a \in Actors : ~Holds(a, t)'
  <2> USE OrchestratorAssumption
  <2>1. TypeOK
    BY <1>1 DEF IInv
  <2>2. CASE \E l \in Loops : Start(l) \/ CleanedUp(l)
    BY <1>1, <2>1, <2>2
    DEF Start, CleanedUp, Goto, table, requests, Holds, AtWork, TypeOK, Actors
  <2>3. CASE \/ \E s \in Stops : StopRequest(s) \/ StopAnswered(s)
             \/ StopEnded \/ UNCHANGED vars
    BY <1>1, <2>3
    DEF StopRequest, StopAnswered, StopEnded, table, Holds, vars
  <2>4. CASE \E c \in Cycles : CycleRequest(c)
    BY <1>1, <2>1, <2>4
    DEF CycleRequest, Goto, table, Holds, AtWork, TypeOK, Actors
  <2>5. CASE \E p \in Prompts :
               PromptRequest(p) \/ PromptCreates(p) \/ PromptRefused(p)
    BY <1>1, <2>1, <2>5
    DEF PromptRequest, PromptCreates, PromptRefused, Goto, table, Holds,
        AtWork, TypeOK, Actors
  <2>6. CASE \E u \in Tasks, p \in Offered : TaskAdded(u, p)
    BY <1>1, <2>1, <2>6 DEF TaskAdded, IsNextId, Holds, TypeOK
  <2>7. CASE \E a \in Actors : Step(a) \/ ClaudeEnds(a)
    <3>1. PICK b \in Actors : Step(b) \/ ClaudeEnds(b)
      BY <2>7
    <3>2. CASE \E u \in Tasks : FetchOne(b, u)
      BY <1>1, <2>1, <3>2
      DEF FetchOne, IsFirst, Pending, Goto, table, Holds, AtWork, TypeOK
    <3>3. CASE FetchNone(b) \/ WakeUp(b)
      <4>1. AfterCycle(b) \in {"cleanup", "fetch", "done"}
        BY <2>1, AfterCycleType
      <4> QED
        BY <1>1, <2>1, <3>3, <4>1
        DEF FetchNone, WakeUp, Goto, table, Holds, AtWork, TypeOK
    <3>4. CASE Mark(b) \/ BackoffEnds(b)
      <4>1. pc[b] \in AtWork \cup {"mark"} /\ job[b] # t
        BY <1>1, <3>4 DEF Mark, BackoffEnds, Holds, AtWork
      <4>2. status'[t] = status[t] /\ job' = job
        BY <2>1, <3>4, <4>1
        DEF Mark, BackoffEnds, Written, NotWritten, table, TypeOK
      <4>3. \A a \in Actors \ {b} : pc'[a] = pc[a]
        BY <2>1, <3>4 DEF Mark, BackoffEnds, NextAttempt, Goto, TypeOK
      <4> QED BY <1>1, <4>1, <4>2, <4>3 DEF Holds
    <3>5. CASE ClaudeEnds(b) \/ ValidationEnds(b)
      BY <1>1, <2>1, <3>5
      DEF ClaudeEnds, ValidationEnds, AttemptSucceeded, AttemptFailed, Goto,
          Holds, AtWork, TypeOK
    <3>6. CASE CompleteTask(b) \/ FailTask(b)
      <4>1. AfterCycle(b) \in {"cleanup", "fetch", "done"}
        BY <2>1, AfterCycleType
      <4>2. job[b] # t
        BY <1>1, <3>6 DEF CompleteTask, FailTask, Holds, AtWork
      <4> QED
        BY <1>1, <2>1, <3>6, <4>1, <4>2
        DEF CompleteTask, FailTask, Written, NotWritten, Goto, Holds, AtWork,
            TypeOK
    <3> QED
      BY <3>1, <3>2, <3>3, <3>4, <3>5, <3>6 DEF Step
  <2>8. CASE Crash
    BY <1>1, <2>1, <2>8 DEF Crash, Holds, AtWork, TypeOK
  <2> QED
    BY <1>1, <2>2, <2>3, <2>4, <2>5, <2>6, <2>7, <2>8 DEF Next
<1>2. IInv /\ [Next]_vars =>
        \A t \in Tasks :
          (status[t] = "completed" /\ \A a \in Actors : ~Holds(a, t))
            => (status'[t] = "completed" /\ \A a \in Actors : ~Holds(a, t)')
  BY <1>1
<1> QED BY Inductive, <1>2, PTL DEF Spec, FinishedForGood
============================================================================
