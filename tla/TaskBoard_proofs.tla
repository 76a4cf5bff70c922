-------------------------- MODULE TaskBoard_proofs --------------------------
(***************************************************************************)
(* Theorems about TaskBoard, for any tasks, scenarios, requests and number *)
(* of timestamps, and about what is created beside it: TaskIds, for any    *)
(* radix and padding, ScenarioRecords and ScenarioImport.                  *)
(***************************************************************************)
EXTENDS TaskBoard, TaskIds, ScenarioRecords, ScenarioImport, TLAPS

(* Operators *)

LEMMA ConstantTypes ==
  /\ NoRow \in Row /\ NoChange \in Change
  /\ Idle \in Request
  /\ Keep \notin BoardStatus
BY DEF NoRow, NoChange, Idle, Row, Change, Request, Never, NoId, BoardStatus,
       TaskType, Keep

\* A stamp moves the clock on if it is needed, and never back.
LEMMA StampProperties ==
  ASSUME clock \in Nat, NEW needed \in BOOLEAN, Stamp(needed)
  PROVE  /\ clock' \in Nat /\ clock <= clock'
         /\ needed => clock' = clock + 1
BY BoardAssumption DEF Stamp

\* A change that a PUT makes of a row holds only the time it is made at, and
\* none if it leaves the status alone.
LEMMA ChangeProperties ==
  ASSUME NEW seen \in Row, NEW status \in BoardStatus \cup {Keep},
         NEW type \in TaskType \cup {Keep}, NEW now \in Nat
  PROVE  LET change == ChangeOf(seen, status, type, now) IN
           /\ change \in Change
           /\ change.start \in {Never, now} /\ change.end \in {Never, now}
           /\ change.status = Keep =>
                change.start = Never /\ change.end = Never
           /\ change.status = "completed" /\ Ends(seen, "completed") =>
                change.end = now
           /\ change.type = type
<1>1. CASE IsNew(seen, status)
  BY <1>1 DEF ChangeOf, IsNew, Change, Timed, Never, Row
<1>2. CASE ~IsNew(seen, status)
  BY <1>2 DEF ChangeOf, NoChange, Change, Never, Keep, BoardStatus
<1> QED BY <1>1, <1>2

\* A row that is updated stays a row.
LEMMA UpdatedType ==
  ASSUME NEW row \in Row, NEW change \in Change
  PROVE  Updated(row, change) \in Row
BY DEF Updated, Row, Change

\* A story is judged by its own scenarios only.
LEMMA SameScenarios ==
  ASSUME NEW t, \A s \in Scenarios : storyOf[s] = t => scenario'[s] = scenario[s]
  PROVE  MayComplete(t)' <=> MayComplete(t)
<1>1. ScenariosOf(t)' = ScenariosOf(t)
  BY DEF ScenariosOf
<1>2. \A s \in ScenariosOf(t) : scenario'[s] = scenario[s]
  BY DEF ScenariosOf
<1> QED BY <1>1, <1>2 DEF MayComplete

\* A request stays right as long as its row and its scenarios stay.
LEMMA StaysRight ==
  ASSUME NEW q \in Puts, DecidedRightly(q),
         put'[q] = put[q], task'[put[q].id] = task[put[q].id],
         \A s \in Scenarios : storyOf[s] = put[q].id => scenario'[s] = scenario[s]
  PROVE  DecidedRightly(q)'
<1> DEFINE t == put[q].id
<1>1. {s \in Scenarios : storyOf[s] = put'[q].id /\ scenario'[s] # "none"}
        = {s \in Scenarios : storyOf[s] = t /\ scenario[s] # "none"}
  OBVIOUS
<1>2. MayComplete(t)' <=> MayComplete(t)
  <2>1. ScenariosOf(t)' = ScenariosOf(t)
    BY <1>1 DEF ScenariosOf
  <2>2. \A s \in ScenariosOf(t) : scenario'[s] = scenario[s]
    BY DEF ScenariosOf
  <2> QED BY <2>1, <2>2 DEF MayComplete
<1>3. Ends(task[t], "completed")' <=> Ends(task[t], "completed")
  BY DEF Ends, Finishes, SkipsWork
<1> QED BY <1>2, <1>3 DEF DecidedRightly, CompletesRightly

--------------------------------------------------------------------------
(* The invariant, action by action *)

Safe == BoardInv /\ StoryGateHolds /\ TimesAreOrdered

LEMMA CreateTaskKeeps ==
  ASSUME Safe, NEW t \in TodoTasks, NEW status \in BoardStatus,
         NEW type \in TaskType, CreateTask(t, status, type)
  PROVE  Safe'
<1> USE DEF Safe
<1>1. /\ clock' \in Nat /\ clock <= clock'
      /\ status # "pending" => clock' = clock + 1
  BY StampProperties DEF CreateTask, BoardInv, BoardTypeOK
<1>2. /\ task'[t] \in Row /\ task'[t].status = status /\ task'[t].type = type
      /\ task'[t].start = IF status = "pending" THEN Never ELSE clock'
      /\ task'[t].end = IF status = "completed" THEN clock' ELSE Never
      /\ \A u \in TodoTasks \ {t} : task'[u] = task[u]
  BY <1>1 DEF CreateTask, BoardInv, BoardTypeOK, Row, Never
<1>3. BoardTypeOK'
  <2>1. task' \in [TodoTasks -> Row]
    BY <1>2 DEF CreateTask, BoardInv, BoardTypeOK
  <2> QED BY <1>1, <2>1 DEF CreateTask, BoardInv, BoardTypeOK
<1>4. TimesArePast'
  <2>1. \A u \in TodoTasks : task'[u].start <= clock' /\ task'[u].end <= clock'
    <3> TAKE u \in TodoTasks
    <3>1. CASE u = t
      BY <1>1, <1>2, <3>1 DEF Never
    <3>2. CASE u # t
      BY <1>1, <1>2, <3>2 DEF BoardInv, BoardTypeOK, TimesArePast, Row
    <3> QED BY <3>1, <3>2
  <2>2. \A q \in Puts : put'[q].change.start <= clock' /\ put'[q].change.end <= clock'
    BY <1>1 DEF CreateTask, BoardInv, BoardTypeOK, TimesArePast, Request, Change
  <2> QED BY <2>1, <2>2 DEF TimesArePast
<1>5. KeepsTimes'
  BY DEF CreateTask, BoardInv, KeepsTimes
<1>6. \A q \in fresh' : DecidedRightly(q)'
  <2> SUFFICES ASSUME NEW q \in fresh' PROVE DecidedRightly(q)'
    OBVIOUS
  <2>1. q \in fresh /\ q \in Puts /\ put[q].id # t /\ DecidedRightly(q)
    BY DEF CreateTask, NotOn, BoardInv
  <2>2. put[q].id \in TodoTasks
    BY <2>1 DEF BoardInv, BoardTypeOK, DecidedRightly
  <2> QED BY <1>2, <2>1, <2>2, StaysRight DEF CreateTask
<1>7. StoryGateHolds'
  <2> SUFFICES ASSUME NEW u \in TodoTasks, task'[u].status = "completed",
                      task'[u].type = "story", u \notin ungated'
               PROVE  MayComplete(u)'
    BY DEF StoryGateHolds
  <2>1. u # t
    BY <1>2 DEF CreateTask
  <2>2. MayComplete(u)
    BY <1>2, <2>1 DEF CreateTask, StoryGateHolds
  <2> QED BY <2>2, SameScenarios DEF CreateTask
<1>8. TimesAreOrdered'
  <2> SUFFICES ASSUME NEW u \in TodoTasks, task'[u].status = "completed",
                      u \notin untimed'
               PROVE  task'[u].end # Never /\ task'[u].start <= task'[u].end
    BY DEF TimesAreOrdered
  <2>1. CASE u = t
    <3>1. status = "completed" /\ clock' = clock + 1
      BY <1>1, <1>2, <2>1
    <3>2. task'[t].start = clock' /\ task'[t].end = clock'
      BY <1>2, <3>1
    <3> QED BY <1>1, <2>1, <3>1, <3>2 DEF Never, BoardInv, BoardTypeOK
  <2>2. CASE u # t
    BY <1>2, <2>2 DEF CreateTask, TimesAreOrdered
  <2> QED BY <2>1, <2>2
<1> QED BY <1>3, <1>4, <1>5, <1>6, <1>7, <1>8 DEF BoardInv

LEMMA DeleteTaskKeeps ==
  ASSUME Safe, NEW t \in TodoTasks, DeleteTask(t)
  PROVE  Safe'
<1> USE DEF Safe
<1>1. /\ task'[t] = NoRow
      /\ \A u \in TodoTasks \ {t} : task'[u] = task[u]
  BY DEF DeleteTask, BoardInv, BoardTypeOK
<1>2. \A s \in Scenarios : storyOf[s] # t => scenario'[s] = scenario[s]
  BY DEF DeleteTask
<1>3. BoardTypeOK'
  <2>1. task' \in [TodoTasks -> Row]
    BY ConstantTypes DEF DeleteTask, BoardInv, BoardTypeOK
  <2>2. scenario' \in [Scenarios -> ScenarioState]
    BY DEF DeleteTask, BoardInv, BoardTypeOK, ScenarioState
  <2> QED BY <2>1, <2>2 DEF DeleteTask, BoardInv, BoardTypeOK
<1>4. TimesArePast'
  <2>1. NoRow.start <= clock /\ NoRow.end <= clock
    BY DEF NoRow, Never, BoardInv, BoardTypeOK
  <2> QED BY <1>1, <2>1 DEF DeleteTask, BoardInv, TimesArePast
<1>5. KeepsTimes'
  BY DEF DeleteTask, BoardInv, KeepsTimes
<1>6. \A q \in fresh' : DecidedRightly(q)'
  <2> SUFFICES ASSUME NEW q \in fresh' PROVE DecidedRightly(q)'
    OBVIOUS
  <2>1. q \in fresh /\ q \in Puts /\ put[q].id # t /\ DecidedRightly(q)
    BY DEF DeleteTask, NotOn, BoardInv
  <2>2. put[q].id \in TodoTasks
    BY <2>1 DEF BoardInv, BoardTypeOK, DecidedRightly
  <2> QED BY <1>1, <1>2, <2>1, <2>2, StaysRight DEF DeleteTask
<1>7. StoryGateHolds'
  <2> SUFFICES ASSUME NEW u \in TodoTasks, task'[u].status = "completed",
                      task'[u].type = "story", u \notin ungated'
               PROVE  MayComplete(u)'
    BY DEF StoryGateHolds
  <2>1. u # t
    BY <1>1 DEF NoRow
  <2>2. MayComplete(u)
    BY <1>1, <2>1 DEF DeleteTask, StoryGateHolds
  <2> QED BY <1>2, <2>1, <2>2, SameScenarios
<1>8. TimesAreOrdered'
  BY <1>1 DEF DeleteTask, TimesAreOrdered, NoRow
<1> QED BY <1>3, <1>4, <1>5, <1>6, <1>7, <1>8 DEF BoardInv

LEMMA OutsideWriteKeeps ==
  ASSUME Safe, NEW t \in TodoTasks, NEW status \in BoardStatus,
         OutsideWrite(t, status)
  PROVE  Safe'
<1> USE DEF Safe
<1>1. clock' \in Nat /\ clock <= clock' /\ clock' = clock + 1
  BY StampProperties DEF OutsideWrite, BoardInv, BoardTypeOK
<1>2. /\ task'[t] \in Row /\ task'[t].status = status /\ task'[t].type = task[t].type
      /\ task'[t].start = IF status = "in_progress" THEN clock' ELSE task[t].start
      /\ task'[t].end = IF status = "in_progress" THEN task[t].end ELSE clock'
      /\ \A u \in TodoTasks \ {t} : task'[u] = task[u]
  BY <1>1 DEF OutsideWrite, BoardInv, BoardTypeOK, Row
<1>3. BoardTypeOK'
  <2>1. task' \in [TodoTasks -> Row]
    BY <1>2 DEF OutsideWrite, BoardInv, BoardTypeOK
  <2> QED BY <1>1, <2>1 DEF OutsideWrite, BoardInv, BoardTypeOK
<1>4. TimesArePast'
  <2>1. \A u \in TodoTasks : task'[u].start <= clock' /\ task'[u].end <= clock'
    <3> TAKE u \in TodoTasks
    <3>1. task[u].start \in Nat /\ task[u].end \in Nat
          /\ task[u].start <= clock' /\ task[u].end <= clock'
      BY <1>1 DEF BoardInv, BoardTypeOK, TimesArePast, Row
    <3> QED BY <1>1, <1>2, <3>1
  <2>2. \A q \in Puts : put'[q].change.start <= clock' /\ put'[q].change.end <= clock'
    BY <1>1 DEF OutsideWrite, BoardInv, BoardTypeOK, TimesArePast, Request, Change
  <2> QED BY <2>1, <2>2 DEF TimesArePast
<1>5. KeepsTimes'
  BY DEF OutsideWrite, BoardInv, KeepsTimes
<1>6. \A q \in fresh' : DecidedRightly(q)'
  <2> SUFFICES ASSUME NEW q \in fresh' PROVE DecidedRightly(q)'
    OBVIOUS
  <2>1. q \in fresh /\ q \in Puts /\ put[q].id # t /\ DecidedRightly(q)
    BY DEF OutsideWrite, NotOn, BoardInv
  <2>2. put[q].id \in TodoTasks
    BY <2>1 DEF BoardInv, BoardTypeOK, DecidedRightly
  <2> QED BY <1>2, <2>1, <2>2, StaysRight DEF OutsideWrite
<1>7. StoryGateHolds'
  <2> SUFFICES ASSUME NEW u \in TodoTasks, task'[u].status = "completed",
                      task'[u].type = "story", u \notin ungated'
               PROVE  MayComplete(u)'
    BY DEF StoryGateHolds
  <2>1. u # t
    BY <1>2 DEF OutsideWrite
  <2>2. MayComplete(u)
    BY <1>2, <2>1 DEF OutsideWrite, StoryGateHolds
  <2> QED BY <2>2, SameScenarios DEF OutsideWrite
<1>8. TimesAreOrdered'
  <2> SUFFICES ASSUME NEW u \in TodoTasks, task'[u].status = "completed",
                      u \notin untimed'
               PROVE  task'[u].end # Never /\ task'[u].start <= task'[u].end
    BY DEF TimesAreOrdered
  <2>1. CASE u = t
    <3>1. task'[t].start = task[t].start /\ task'[t].end = clock'
      BY <1>2, <2>1
    <3>2. task[t].start <= clock /\ task[t].start \in Nat /\ clock \in Nat
      BY DEF BoardInv, BoardTypeOK, TimesArePast, Row
    <3> QED BY <1>1, <2>1, <3>1, <3>2 DEF Never
  <2>2. CASE u # t
    BY <1>2, <2>2 DEF OutsideWrite, TimesAreOrdered
  <2> QED BY <2>1, <2>2
<1> QED BY <1>3, <1>4, <1>5, <1>6, <1>7, <1>8 DEF BoardInv

LEMMA ScenarioWriteKeeps ==
  ASSUME Safe, NEW s \in Scenarios, NEW state \in ScenarioState,
         ScenarioWrite(s, state)
  PROVE  Safe'
<1> USE DEF Safe
<1>1. \A r \in Scenarios : storyOf[r] # storyOf[s] => scenario'[r] = scenario[r]
  BY DEF ScenarioWrite, BoardInv, BoardTypeOK
<1>2. BoardTypeOK'
  BY BoardAssumption DEF ScenarioWrite, BoardInv, BoardTypeOK
<1>3. TimesArePast' /\ KeepsTimes' /\ TimesAreOrdered'
  BY DEF ScenarioWrite, BoardInv, TimesArePast, KeepsTimes, TimesAreOrdered
<1>4. \A q \in fresh' : DecidedRightly(q)'
  <2> SUFFICES ASSUME NEW q \in fresh' PROVE DecidedRightly(q)'
    OBVIOUS
  <2>1. q \in fresh /\ q \in Puts /\ put[q].id # storyOf[s] /\ DecidedRightly(q)
    BY DEF ScenarioWrite, NotOn, BoardInv
  <2> QED BY <1>1, <2>1, StaysRight DEF ScenarioWrite
<1>5. StoryGateHolds'
  <2> SUFFICES ASSUME NEW u \in TodoTasks, task[u].status = "completed",
                      task[u].type = "story", u \notin ungated'
               PROVE  MayComplete(u)'
    BY DEF StoryGateHolds, ScenarioWrite
  <2>1. u # storyOf[s] /\ u \notin ungated
    BY DEF ScenarioWrite
  <2>2. MayComplete(u)
    BY <2>1 DEF StoryGateHolds
  <2> QED BY <1>1, <2>1, <2>2, SameScenarios
<1> QED BY <1>2, <1>3, <1>4, <1>5 DEF BoardInv

\* What the steps of a PUT that write no row leave as it is.
LEMMA RequestsLeaveRows ==
  ASSUME Safe, UNCHANGED <<task, scenario, ungated, untimed>>
  PROVE  StoryGateHolds' /\ TimesAreOrdered'
<1>1. \A t \in TodoTasks : MayComplete(t)' <=> MayComplete(t)
  BY SameScenarios
<1> QED BY <1>1 DEF Safe, StoryGateHolds, TimesAreOrdered

\* The invariant after a step of the request q alone, from what it makes of q.
LEMMA RequestKeeps ==
  ASSUME Safe, NEW q \in Puts, NEW request \in Request,
         clock' \in Nat, clock <= clock',
         UNCHANGED <<task, scenario, ungated, untimed>>,
         put' = [put EXCEPT ![q] = request], fresh' \subseteq fresh \cup {q},
         request.at # "idle" => request.id \in TodoTasks,
         request.change.start <= clock', request.change.end <= clock',
         request.change.status = Keep =>
           request.change.start = Never /\ request.change.end = Never,
         q \in fresh' => DecidedRightly(q)'
  PROVE  Safe'
<1> USE DEF Safe
<1>1. put'[q] = request /\ \A r \in Puts \ {q} : put'[r] = put[r]
  BY DEF BoardInv, BoardTypeOK
<1>2. BoardTypeOK'
  <2>1. put' \in [Puts -> Request]
    BY DEF BoardInv, BoardTypeOK
  <2> QED BY <1>1, <2>1 DEF BoardInv, BoardTypeOK
<1>3. TimesArePast'
  <2>1. \A t \in TodoTasks : task[t].start <= clock' /\ task[t].end <= clock'
    BY DEF BoardInv, BoardTypeOK, TimesArePast, Row
  <2>2. \A r \in Puts : put'[r].change.start <= clock' /\ put'[r].change.end <= clock'
    BY <1>1 DEF BoardInv, BoardTypeOK, TimesArePast, Request, Change
  <2> QED BY <2>1, <2>2 DEF TimesArePast
<1>4. KeepsTimes'
  BY <1>1 DEF BoardInv, KeepsTimes
<1>5. \A r \in fresh' : DecidedRightly(r)'
  <2> TAKE r \in fresh'
  <2>1. CASE r = q
    BY <2>1
  <2>2. CASE r # q
    <3>1. r \in Puts /\ DecidedRightly(r)
      BY <2>2 DEF BoardInv, BoardTypeOK
    <3> QED BY <1>1, <2>2, <3>1, StaysRight
  <2> QED BY <2>1, <2>2
<1> QED BY <1>2, <1>3, <1>4, <1>5, RequestsLeaveRows DEF BoardInv

\* A request that is over: refused, or failed.
LEMMA RequestEnds ==
  ASSUME Safe, NEW q \in Puts, UNCHANGED <<clock, task, scenario, ungated, untimed>>,
         put' = [put EXCEPT ![q] = Idle], fresh' = fresh \ {q}
  PROVE  Safe'
<1>1. Idle \in Request
  BY ConstantTypes
<1>2. /\ Idle.at = "idle" /\ Idle.change.start = Never /\ Idle.change.end = Never
      /\ clock' \in Nat /\ clock <= clock' /\ Never <= clock'
  BY DEF Idle, NoChange, Never, Safe, BoardInv, BoardTypeOK
<1> QED BY <1>1, <1>2, RequestKeeps

LEMMA PutReadKeeps ==
  ASSUME Safe, NEW q \in Puts, NEW t \in TodoTasks,
         NEW type \in TaskType \cup {Keep}, NEW status \in BoardStatus \cup {Keep},
         PutRead(q, t, status, type)
  PROVE  Safe'
<1> DEFINE change == ChangeOf(task[t], status, type, clock')
<1> DEFINE request == [at |-> "write", id |-> t, seen |-> NoRow, change |-> change]
<1>1. /\ clock \in Nat /\ clock' \in Nat /\ clock <= clock'
      /\ IsTimed(task[t], status) => clock' = clock + 1
  <2>1. IsTimed(task[t], status) \in BOOLEAN
    BY DEF IsTimed, Restarts, Ends, Finishes, SkipsWork
  <2> QED BY <2>1, StampProperties DEF PutRead, Safe, BoardInv, BoardTypeOK
<1>2. task[t] \in Row
  BY DEF Safe, BoardInv, BoardTypeOK
<1>3. /\ change \in Change
      /\ change.start \in {Never, clock'} /\ change.end \in {Never, clock'}
      /\ change.status = Keep => change.start = Never /\ change.end = Never
      /\ change.status = "completed" /\ Ends(task[t], "completed") =>
           change.end = clock'
  BY <1>1, <1>2, ChangeProperties
<1>4. change.status = "completed" => status = "completed" /\ IsNew(task[t], status)
  BY DEF ChangeOf, IsNew, NoChange, Keep
<1>5. put' = [put EXCEPT ![q] = request] /\ request \in Request
  BY <1>3, ConstantTypes DEF PutRead, Request
<1>6. change.start <= clock' /\ change.end <= clock'
  BY <1>1, <1>3 DEF Never
<1>7. DecidedRightly(q)'
  <2>1. put'[q] = request
    BY <1>5 DEF Safe, BoardInv, BoardTypeOK
  <2>2. ASSUME change.status = "completed"
        PROVE  CompletesRightly(q)'
    <3>1. task[t].type # "story"
      BY <1>4, <2>2 DEF PutRead, IsGated
    <3>2. ASSUME Ends(task[t], "completed")
          PROVE  /\ change.end # Never
                 /\ change.start <= change.end
                 /\ task[t].start <= change.end
      <4>1. clock' = clock + 1
        BY <1>1, <1>4, <2>2, <3>2 DEF IsTimed
      <4>2. change.end = clock'
        BY <1>3, <2>2, <3>2
      <4>3. task[t].start <= clock /\ task[t].start \in Nat
        BY <1>2 DEF Safe, BoardInv, TimesArePast, Row
      <4> QED BY <1>1, <1>6, <4>1, <4>2, <4>3 DEF Never
    <3>3. UNCHANGED task
      BY DEF PutRead
    <3>4. Ends(task[t], "completed")' <=> Ends(task[t], "completed")
      BY <3>3 DEF Ends, Finishes, SkipsWork
    <3> HIDE DEF change
    <3> QED BY <2>1, <3>1, <3>2, <3>3, <3>4 DEF CompletesRightly
  <2> HIDE DEF change
  <2> QED BY <2>1, <2>2 DEF DecidedRightly
<1> HIDE DEF change
<1> QED BY <1>1, <1>3, <1>5, <1>6, <1>7, RequestKeeps DEF PutRead

LEMMA PutReadStoryKeeps ==
  ASSUME Safe, NEW q \in Puts, NEW t \in TodoTasks,
         NEW type \in TaskType \cup {Keep}, PutReadStory(q, t, type)
  PROVE  Safe'
<1> DEFINE change == [NoChange EXCEPT !.type = type]
<1> DEFINE request == [at |-> "gate", id |-> t, seen |-> task[t], change |-> change]
<1>1. change \in Change /\ change.start = Never /\ change.end = Never
  BY DEF NoChange, Change, Never, Keep
<1>2. put' = [put EXCEPT ![q] = request] /\ request \in Request
  BY <1>1 DEF PutReadStory, Request, Safe, BoardInv, BoardTypeOK
<1>3. clock' \in Nat /\ clock <= clock' /\ Never <= clock'
  BY DEF PutReadStory, Never, Safe, BoardInv, BoardTypeOK
<1>4. DecidedRightly(q)'
  <2>1. put'[q] = request
    BY <1>2 DEF Safe, BoardInv, BoardTypeOK
  <2> QED BY <2>1 DEF DecidedRightly, PutReadStory
<1> HIDE DEF change
<1> QED BY <1>1, <1>2, <1>3, <1>4, RequestKeeps DEF PutReadStory

LEMMA PutGateKeeps ==
  ASSUME Safe, NEW q \in Puts, PutGate(q)
  PROVE  Safe'
<1> DEFINE t == put[q].id
<1> DEFINE seen == put[q].seen
<1> DEFINE type == put[q].change.type
<1> DEFINE change == ChangeOf(seen, "completed", type, clock')
<1> DEFINE request == [at |-> "write", id |-> t, seen |-> NoRow, change |-> change]
<1>1. /\ clock \in Nat /\ clock' \in Nat /\ clock <= clock'
      /\ IsTimed(seen, "completed") => clock' = clock + 1
  <2>1. IsTimed(seen, "completed") \in BOOLEAN
    BY DEF IsTimed, Restarts, Ends, Finishes, SkipsWork
  <2> QED BY <2>1, StampProperties DEF PutGate, Safe, BoardInv, BoardTypeOK
<1>2. seen \in Row /\ t \in TodoTasks /\ type \in TaskType \cup {Keep}
  BY DEF PutGate, Safe, BoardInv, BoardTypeOK, Request, Change
<1>3. /\ change \in Change
      /\ change.start \in {Never, clock'} /\ change.end \in {Never, clock'}
      /\ change.status = Keep => change.start = Never /\ change.end = Never
      /\ change.status = "completed" /\ Ends(seen, "completed") =>
           change.end = clock'
  <2>1. "completed" \in BoardStatus \cup {Keep}
    BY DEF BoardStatus
  <2> HIDE DEF seen, type
  <2> QED BY <1>1, <1>2, <2>1, ChangeProperties
<1>4. put' = [put EXCEPT ![q] = request] /\ request \in Request
  <2>1. request \in Request
    BY <1>2, <1>3, ConstantTypes DEF Request
  <2> QED BY <2>1 DEF PutGate
<1>5. change.start <= clock' /\ change.end <= clock'
  BY <1>1, <1>3 DEF Never
<1>6. ASSUME q \in fresh
      PROVE  DecidedRightly(q)'
  <2>1. put'[q] = request
    BY <1>4 DEF Safe, BoardInv, BoardTypeOK
  <2>2. seen = task[t] /\ UNCHANGED <<task, scenario>>
    BY <1>6 DEF PutGate, Safe, BoardInv, DecidedRightly
  <2>3. ASSUME change.status = "completed", Ends(task[t], "completed")
        PROVE  /\ change.end # Never
               /\ change.start <= change.end
               /\ task[t].start <= change.end
    <3>1. clock' = clock + 1
      BY <1>1, <2>2, <2>3 DEF IsTimed
    <3>2. change.end = clock'
      BY <1>3, <2>2, <2>3
    <3>3. task[t].start <= clock /\ task[t].start \in Nat
      BY <1>2 DEF Safe, BoardInv, BoardTypeOK, TimesArePast, Row
    <3> QED BY <1>1, <1>5, <3>1, <3>2, <3>3 DEF Never
  <2>4. MayComplete(t)'
    <3>1. MayComplete(t)
      BY DEF PutGate
    <3>2. put'[q].id = put[q].id
      BY <2>1
    <3> QED BY <2>2, <3>1, <3>2 DEF MayComplete, ScenariosOf
  <2>5. Ends(task[t], "completed")' <=> Ends(task[t], "completed")
    BY <2>1, <2>2 DEF Ends, Finishes, SkipsWork
  <2> HIDE DEF change
  <2> QED BY <2>1, <2>2, <2>3, <2>4, <2>5 DEF DecidedRightly, CompletesRightly
<1> HIDE DEF change
<1> QED BY <1>1, <1>2, <1>3, <1>4, <1>5, <1>6, RequestKeeps DEF PutGate

LEMMA PutRefusedKeeps ==
  ASSUME Safe, NEW q \in Puts, PutRefused(q)
  PROVE  Safe'
BY RequestEnds DEF PutRefused

LEMMA PutFailsKeeps ==
  ASSUME Safe, NEW q \in Puts, PutFails(q)
  PROVE  Safe'
BY RequestEnds DEF PutFails

LEMMA PutWriteKeeps ==
  ASSUME Safe, NEW q \in Puts, PutWrite(q)
  PROVE  Safe'
<1> USE DEF Safe
<1> DEFINE t == put[q].id
<1> DEFINE change == put[q].change
<1>1. /\ t \in TodoTasks /\ task[t] \in Row /\ change \in Change
      /\ UNCHANGED <<clock, scenario>>
  BY DEF PutWrite, BoardInv, BoardTypeOK, Request
<1>2. /\ task'[t] \in Row
      /\ task'[t].status = IF change.status = Keep THEN task[t].status
                           ELSE change.status
      /\ task'[t].type = IF change.type = Keep THEN task[t].type ELSE change.type
      /\ task'[t].start = IF change.start = Never THEN task[t].start
                          ELSE change.start
      /\ task'[t].end = IF change.end = Never THEN task[t].end ELSE change.end
  <2>1. task'[t] = Updated(task[t], change)
    BY <1>1 DEF PutWrite, BoardInv, BoardTypeOK
  <2>2. Updated(task[t], change) \in Row
    BY <1>1, UpdatedType
  <2> QED BY <2>1, <2>2 DEF Updated
<1>3. \A u \in TodoTasks \ {t} : task'[u] = task[u]
  BY <1>1 DEF PutWrite, BoardInv, BoardTypeOK
<1>4. put'[q] = Idle /\ \A r \in Puts \ {q} : put'[r] = put[r]
  BY DEF PutWrite, BoardInv, BoardTypeOK
<1>5. BoardTypeOK'
  <2>1. task' \in [TodoTasks -> Row]
    BY <1>1, <1>2, <1>3 DEF PutWrite, BoardInv, BoardTypeOK
  <2>2. put' \in [Puts -> Request]
    BY ConstantTypes DEF PutWrite, BoardInv, BoardTypeOK
  <2>3. \A r \in Puts : put'[r].at # "idle" => put'[r].id \in TodoTasks
    BY <1>4 DEF Idle, BoardInv, BoardTypeOK
  <2>4. fresh' \subseteq Puts
    BY DEF PutWrite, BoardInv, BoardTypeOK
  <2>5. ungated' \subseteq TodoTasks /\ untimed' \subseteq TodoTasks
    BY <1>1 DEF PutWrite, BoardInv, BoardTypeOK
  <2> QED BY <1>1, <2>1, <2>2, <2>3, <2>4, <2>5 DEF BoardInv, BoardTypeOK
<1>6. TimesArePast'
  <2>1. \A u \in TodoTasks : task'[u].start <= clock /\ task'[u].end <= clock
    BY <1>2, <1>3 DEF BoardInv, TimesArePast
  <2>2. \A r \in Puts : put'[r].change.start <= clock /\ put'[r].change.end <= clock
    BY <1>4 DEF Idle, NoChange, Never, BoardInv, BoardTypeOK, TimesArePast
  <2> QED BY <1>1, <2>1, <2>2 DEF TimesArePast
<1>7. KeepsTimes'
  BY <1>4 DEF Idle, NoChange, BoardInv, KeepsTimes
<1>8. \A r \in fresh' : DecidedRightly(r)'
  <2> TAKE r \in fresh'
  <2>1. r \in fresh /\ r \in Puts \ {q} /\ put[r].id # t /\ DecidedRightly(r)
    BY DEF PutWrite, NotOn, BoardInv
  <2>2. put[r].id \in TodoTasks
    BY <2>1 DEF BoardInv, BoardTypeOK, DecidedRightly
  <2> HIDE DEF t
  <2> QED BY <1>1, <1>3, <1>4, <2>1, <2>2, StaysRight
\* A completion that is not counted as ungated or untimed is one by a fresh request.
<1>9. ASSUME change.status = "completed", q \in fresh
      PROVE  CompletesRightly(q)
  BY <1>9 DEF PutWrite, BoardInv, DecidedRightly
<1>10. change.status \in BoardStatus \cup {Keep} /\ Keep # "completed"
  BY <1>1 DEF Change, Keep
<1>11. StoryGateHolds'
  <2> SUFFICES ASSUME NEW u \in TodoTasks, task'[u].status = "completed",
                      task'[u].type = "story", u \notin ungated'
               PROVE  MayComplete(u)
    BY <1>1, SameScenarios DEF StoryGateHolds
  <2>1. CASE u # t
    BY <1>3, <2>1 DEF PutWrite, StoryGateHolds
  <2>2. CASE u = t
    <3>1. /\ change.type # "story"
          /\ change.status = "completed" => q \in fresh
          /\ change.status = Keep => t \notin ungated
      BY <1>10, <2>2 DEF PutWrite
    <3>2. task[t].type = "story"
      BY <1>2, <2>2, <3>1
    <3>3. CASE change.status = Keep
      BY <1>1, <1>2, <2>2, <3>1, <3>2, <3>3 DEF StoryGateHolds
    <3>4. CASE change.status # Keep
      BY <1>2, <1>9, <2>2, <3>1, <3>2, <3>4 DEF CompletesRightly
    <3> QED BY <3>3, <3>4
  <2> QED BY <2>1, <2>2
<1>12. TimesAreOrdered'
  <2> SUFFICES ASSUME NEW u \in TodoTasks, task'[u].status = "completed",
                      u \notin untimed'
               PROVE  task'[u].end # Never /\ task'[u].start <= task'[u].end
    BY DEF TimesAreOrdered
  <2>1. CASE u # t
    BY <1>3, <2>1 DEF PutWrite, TimesAreOrdered
  <2>2. CASE u = t
    <3>1. CASE change.status = "completed"
      <4>1. q \in fresh /\ Ends(task[t], "completed")
        BY <2>2, <3>1 DEF PutWrite
      <4>2. /\ change.end # Never /\ change.start <= change.end
            /\ change.start = Never => task[t].start <= change.end
        BY <1>9, <3>1, <4>1 DEF CompletesRightly
      <4> QED BY <1>2, <2>2, <4>2
    <3>2. CASE change.status # "completed"
      <4>1. change.status = Keep /\ task[t].status = "completed"
        BY <1>2, <2>2, <3>2
      <4>2. task'[t].start = task[t].start /\ task'[t].end = task[t].end
        BY <1>2, <4>1 DEF BoardInv, KeepsTimes
      <4>3. t \notin untimed
        BY <2>2, <3>2 DEF PutWrite
      <4> QED BY <1>1, <2>2, <4>1, <4>2, <4>3 DEF TimesAreOrdered
    <3> QED BY <3>1, <3>2
  <2> QED BY <2>1, <2>2
<1> QED BY <1>5, <1>6, <1>7, <1>8, <1>11, <1>12 DEF BoardInv

--------------------------------------------------------------------------
(* Theorems *)

LEMMA BoardStart == BoardInit => Safe
<1> SUFFICES ASSUME BoardInit PROVE Safe
  OBVIOUS
<1>1. BoardTypeOK
  BY ConstantTypes DEF BoardInit, BoardTypeOK, ScenarioState, Idle
<1>2. TimesArePast /\ KeepsTimes
  BY DEF BoardInit, TimesArePast, KeepsTimes, NoRow, Idle, NoChange, Never
<1>3. StoryGateHolds /\ TimesAreOrdered
  BY DEF BoardInit, StoryGateHolds, TimesAreOrdered, NoRow
<1> QED BY <1>1, <1>2, <1>3 DEF BoardInit, Safe, BoardInv

LEMMA BoardStep == Safe /\ [BoardNext]_boardVars => Safe'
<1> SUFFICES ASSUME Safe, [BoardNext]_boardVars PROVE Safe'
  OBVIOUS
<1>1. ASSUME NEW t \in TodoTasks, NEW status \in BoardStatus,
             NEW type \in TaskType, CreateTask(t, status, type)
      PROVE  Safe'
  BY <1>1, CreateTaskKeeps
<1>2. ASSUME NEW t \in TodoTasks, NEW status \in BoardStatus,
             OutsideWrite(t, status)
      PROVE  Safe'
  BY <1>2, OutsideWriteKeeps
<1>3. ASSUME NEW t \in TodoTasks, DeleteTask(t) PROVE Safe'
  BY <1>3, DeleteTaskKeeps
<1>4. ASSUME NEW q \in Puts, NEW t \in TodoTasks,
             NEW type \in TaskType \cup {Keep},
             NEW status \in BoardStatus \cup {Keep}, PutRead(q, t, status, type)
      PROVE  Safe'
  BY <1>4, PutReadKeeps
<1>5. ASSUME NEW q \in Puts, NEW t \in TodoTasks,
             NEW type \in TaskType \cup {Keep}, PutReadStory(q, t, type)
      PROVE  Safe'
  BY <1>5, PutReadStoryKeeps
<1>6. ASSUME NEW q \in Puts,
             PutGate(q) \/ PutRefused(q) \/ PutWrite(q) \/ PutFails(q)
      PROVE  Safe'
  BY <1>6, PutGateKeeps, PutRefusedKeeps, PutWriteKeeps, PutFailsKeeps
<1>7. ASSUME NEW s \in Scenarios, NEW state \in ScenarioState,
             ScenarioWrite(s, state)
      PROVE  Safe'
  BY <1>7, ScenarioWriteKeeps
<1>8. CASE UNCHANGED boardVars
  <2>1. \A q \in fresh : DecidedRightly(q)'
    BY <1>8, StaysRight DEF boardVars, Safe, BoardInv, BoardTypeOK
  <2>2. StoryGateHolds' /\ TimesAreOrdered'
    BY <1>8, RequestsLeaveRows DEF boardVars
  <2>3. BoardTypeOK' /\ TimesArePast' /\ KeepsTimes'
    BY <1>8 DEF boardVars, Safe, BoardInv, BoardTypeOK, TimesArePast, KeepsTimes
  <2>4. fresh' = fresh
    BY <1>8 DEF boardVars
  <2> QED BY <2>1, <2>2, <2>3, <2>4 DEF Safe, BoardInv
<1> QED BY <1>1, <1>2, <1>3, <1>4, <1>5, <1>6, <1>7, <1>8 DEF BoardNext

\* What holds of every state the routes can bring the tables into: the invariant,
\* the gate of stories and the order of times.
THEOREM BoardInductive == BoardSpec => []Safe
BY BoardStart, BoardStep, PTL DEF BoardSpec

\* A story is completed through its scenarios, or past the gate in one of the
\* ways that the code leaves open, whatever requests are under way.
THEOREM GateHolds == BoardSpec => []StoryGateHolds
BY BoardInductive, PTL DEF Safe

\* A completed task has an end, not before its start, unless a PUT completed it
\* out of turn, whatever requests are under way.
THEOREM TimesOrdered == BoardSpec => []TimesAreOrdered
BY BoardInductive, PTL DEF Safe

--------------------------------------------------------------------------
(* TaskIds *)

\* One more digit keeps the order of the numbers that have as many digits.
LEMMA DigitsGrow ==
  ASSUME NEW n \in Nat
  PROVE  Digits(n) \in Nat /\ (n # Edge => Digits(n) < Digits(n + 1))
<1>1. /\ Radix * n \in Nat /\ Radix * (n + 1) = Radix * n + Radix
      /\ Radix \in Nat /\ Radix > 0 /\ Edge \in Nat
  BY TaskIdsAssumption
<1>2. CASE n < Edge
  BY <1>1, <1>2 DEF Digits
<1>3. CASE n = Edge
  BY <1>1, <1>3 DEF Digits
<1>4. CASE n > Edge
  BY <1>1, <1>4 DEF Digits
<1> QED BY <1>1, <1>2, <1>3, <1>4

\* The number after the last one in the order of the texts is free, except at
\* the edge of the padding.
LEMMA NextIsFree ==
  ASSUME IdsTypeOK, NEW n \in 1 .. MaxId, IsNextTaskId(n), n \in ids
  PROVE  n = Edge + 1
<1>1. PICK last \in ids : /\ \A m \in ids \ {last} : TextBefore(m, last)
                          /\ n = last + 1
  BY DEF IsNextTaskId
<1>2. last \in Nat /\ MaxId \in Nat
  BY TaskIdsAssumption DEF IdsTypeOK
<1>3. TextBefore(n, last)
  BY <1>1, <1>2
<1>4. ~(Digits(last) < Digits(n)) \/ last = Edge
  BY <1>1, <1>2, <1>3, DigitsGrow DEF TextBefore
<1> QED BY <1>1, <1>2, <1>4, DigitsGrow

LEMMA IdsStart == IdsInit => IdsInv
BY TaskIdsAssumption DEF IdsInit, IdsInv, IdsTypeOK, LoneChoiceIsFree, Choosing

LEMMA ChooseIdKeeps ==
  ASSUME IdsInv, NEW c \in Creators, NEW n \in 1 .. MaxId, ChooseId(c, n)
  PROVE  IdsInv'
<1>1. /\ chosen' = [chosen EXCEPT ![c] = n] /\ ids' = ids
      /\ \A d \in Creators : chosen'[d] = IF d = c THEN n ELSE chosen[d]
  BY DEF ChooseId, IdsInv, IdsTypeOK
<1>2. n # 0 /\ n \in 0 .. MaxId
  BY TaskIdsAssumption
<1>3. IdsTypeOK'
  <2>1. chosen' \in [Creators -> 0 .. MaxId]
    BY <1>1, <1>2 DEF IdsInv, IdsTypeOK
  <2>2. refused' \subseteq Creators /\ crowded' \subseteq Creators
    BY DEF ChooseId, IdsInv, IdsTypeOK, Choosing
  <2> QED BY <1>1, <2>1, <2>2 DEF IdsInv, IdsTypeOK
<1>4. Choosing' = Choosing \cup {c}
  BY <1>1, <1>2 DEF Choosing
<1>5. CASE Choosing = {}
  <2>1. n \in ids => n = Edge + 1
    BY NextIsFree DEF ChooseId, IdsInv
  <2> QED BY <1>1, <1>3, <1>4, <1>5, <2>1 DEF IdsInv, LoneChoiceIsFree
<1>6. CASE Choosing # {}
  <2>1. Choosing' \ crowded' = {}
    BY <1>4, <1>6 DEF ChooseId
  <2> QED BY <1>3, <2>1 DEF IdsInv, LoneChoiceIsFree
<1> QED BY <1>5, <1>6

LEMMA InsertTaskKeeps ==
  ASSUME IdsInv, NEW c \in Creators, InsertTask(c)
  PROVE  IdsInv'
<1>1. /\ chosen' = [chosen EXCEPT ![c] = 0] /\ crowded' = crowded
      /\ \A d \in Creators : chosen'[d] = IF d = c THEN 0 ELSE chosen[d]
  BY DEF InsertTask, IdsInv, IdsTypeOK
<1>2. c \in Choosing /\ Choosing' = Choosing \ {c}
  BY <1>1 DEF Choosing, InsertTask
<1>3. IdsTypeOK'
  <2>1. chosen[c] \in 1 .. MaxId
    BY TaskIdsAssumption DEF InsertTask, IdsInv, IdsTypeOK
  <2>2. ids' \subseteq 1 .. MaxId /\ refused' \subseteq Creators
    BY <2>1 DEF InsertTask, IdsInv, IdsTypeOK
  <2>3. chosen' \in [Creators -> 0 .. MaxId]
    BY <1>1, TaskIdsAssumption DEF IdsInv, IdsTypeOK
  <2> QED BY <1>1, <2>2, <2>3 DEF IdsInv, IdsTypeOK
<1>4. Choosing' \ crowded' = {}
  BY <1>1, <1>2 DEF IdsInv, LoneChoiceIsFree
<1> QED BY <1>3, <1>4 DEF IdsInv, LoneChoiceIsFree

LEMMA IdsStep == IdsInv /\ [IdsNext]_idVars => IdsInv'
<1> SUFFICES ASSUME IdsInv, [IdsNext]_idVars PROVE IdsInv'
  OBVIOUS
<1>1. ASSUME NEW n \in ids, RemoveTask(n)
      PROVE  IdsInv'
  BY <1>1 DEF RemoveTask, IdsInv, IdsTypeOK, LoneChoiceIsFree, Choosing
<1>2. CASE UNCHANGED idVars
  BY <1>2 DEF idVars, IdsInv, IdsTypeOK, LoneChoiceIsFree, Choosing
<1> QED BY <1>1, <1>2, ChooseIdKeeps, InsertTaskKeeps DEF IdsNext

\* The invariant of the creations holds in every reachable state.
THEOREM IdsInductive == IdsSpec => []IdsInv
BY IdsStart, IdsStep, PTL DEF IdsSpec

\* For any radix, padding and number of requests, a creation fails on its id only
\* beside another one, or with the number after the padding's edge
\* (generateNextTaskId).
THEOREM CreationsSucceed == IdsSpec => CreationSucceeds
<1>1. IdsInv /\ [IdsNext]_idVars
        => \A c \in Creators :
             c \in refused' \ refused => \/ c \in crowded
                                         \/ chosen[c] = Edge + 1
  <2> SUFFICES ASSUME IdsInv, [IdsNext]_idVars,
                      NEW d \in Creators, d \in refused' \ refused
               PROVE  d \in crowded \/ chosen[d] = Edge + 1
    OBVIOUS
  <2>1. PICK c \in Creators : InsertTask(c)
    BY DEF IdsNext, ChooseId, RemoveTask, idVars
  <2>2. d = c /\ chosen[c] \in ids /\ c \in Choosing
    BY <2>1 DEF InsertTask, Choosing
  <2> QED BY <2>2 DEF IdsInv, LoneChoiceIsFree
<1> QED BY <1>1, IdsInductive, PTL DEF IdsSpec, CreationSucceeds

--------------------------------------------------------------------------
(* ScenarioRecords *)

LEMMA RecordsStart == RecordsInit => RecordsInv
<1> SUFFICES ASSUME RecordsInit PROVE RecordsInv
  OBVIOUS
<1>1. 0 \in 0 .. MaxTimes
  BY RecordsAssumption
<1>2. RecordsTypeOK
  BY <1>1 DEF RecordsInit, RecordsTypeOK, NoRecord, Outcome
<1>3. newest.at <= time /\ shown.at >= newest.at /\ shown.status = newest.status
  BY DEF RecordsInit
<1>4. Executions = {}
  BY DEF RecordsInit, Executions, NoRecord
<1> QED BY <1>2, <1>3, <1>4 DEF RecordsInv, NewestIsOnItsWay

\* Time only passes, up to its bound.
LEMMA PassProperties ==
  ASSUME RecordsInv, Pass \/ time' = time
  PROVE  time' \in 0 .. MaxTimes /\ time' >= time
BY RecordsAssumption DEF Pass, RecordsInv, RecordsTypeOK

LEMMA RecordExecutionKeeps ==
  ASSUME RecordsInv, NEW r \in Recorders, NEW by \in {"tasks", "service"},
         NEW status \in Outcome, RecordExecution(r, by, status)
  PROVE  RecordsInv'
<1> DEFINE rec == [by |-> by, status |-> status, at |-> time']
<1>1. /\ newest' = [status |-> status, at |-> time'] /\ shown' = shown
      /\ apart' = (Recording # {})
      /\ recorder' = [recorder EXCEPT ![r] = rec]
  BY DEF RecordExecution
<1>2. time' \in 0 .. MaxTimes /\ time' >= time /\ time' \in Nat
  BY PassProperties, RecordsAssumption DEF RecordExecution
<1>3. recorder'[r] = rec /\ \A q \in Recorders \ {r} : recorder'[q] = recorder[q]
  BY <1>1 DEF RecordsInv, RecordsTypeOK
<1>4. RecordsTypeOK'
  BY <1>1, <1>2 DEF RecordsInv, RecordsTypeOK
<1>5. newest'.at <= time'
  BY <1>1, <1>2
<1>6. NewestIsOnItsWay'
  <2> SUFFICES ASSUME Recording = {} PROVE NewestIsOnItsWay'
    BY <1>1 DEF NewestIsOnItsWay
  <2>1. Executions' = {r}
    BY <1>3 DEF Recording, Executions
  <2>2. recorder'[r].status = newest'.status /\ recorder'[r].at = newest'.at
    BY <1>1, <1>3
  <2> QED BY <2>1, <2>2 DEF NewestIsOnItsWay
<1> QED BY <1>4, <1>5, <1>6 DEF RecordsInv

LEMMA EditScenarioKeeps ==
  ASSUME RecordsInv, NEW r \in Recorders, NEW status \in Outcome,
         EditScenario(r, status)
  PROVE  RecordsInv'
<1> DEFINE rec == [by |-> "edit", status |-> status,
                   at |-> IF time' = time THEN 0 ELSE time']
<1>1. /\ recorder' = [recorder EXCEPT ![r] = rec] /\ recorder[r] = NoRecord
      /\ UNCHANGED <<shown, newest, apart>>
  BY DEF EditScenario
<1>2. time' \in 0 .. MaxTimes /\ time' >= time /\ time' \in Nat
  BY PassProperties, RecordsAssumption DEF EditScenario
<1>3. recorder'[r] = rec /\ \A q \in Recorders \ {r} : recorder'[q] = recorder[q]
  BY <1>1 DEF RecordsInv, RecordsTypeOK
<1>4. RecordsTypeOK'
  <2>1. rec \in [by : {"none", "tasks", "service", "edit"}, status : Outcome,
                 at : 0 .. MaxTimes]
    BY <1>2, RecordsAssumption
  <2> QED BY <1>1, <1>2, <2>1 DEF RecordsInv, RecordsTypeOK
<1>5. newest'.at <= time'
  BY <1>1, <1>2 DEF RecordsInv, RecordsTypeOK
<1>6. Executions' = Executions
  BY <1>1, <1>3 DEF Executions, NoRecord
<1>7. \A q \in Executions : q # r
  BY <1>1 DEF Executions, NoRecord
<1>8. NewestIsOnItsWay'
  BY <1>1, <1>3, <1>6, <1>7 DEF RecordsInv, NewestIsOnItsWay, Executions
<1> QED BY <1>4, <1>5, <1>8 DEF RecordsInv

\* A request is through: what it leaves is shown rightly, or came apart.
LEMMA RequestEndKeeps ==
  ASSUME RecordsInv, NEW r \in Recorders,
         recorder' = [recorder EXCEPT ![r] = NoRecord],
         Pass \/ time' = time, newest' = newest,
         shown' \in [status : Outcome, at : 0 .. MaxTimes], apart' \in BOOLEAN,
         ~apart' => /\ ~apart
                    /\ \/ shown' = shown /\ r \notin Executions
                       \/ shown'.status = newest.status /\ shown'.at >= newest.at
  PROVE  RecordsInv'
<1>1. recorder'[r] = NoRecord /\ \A q \in Recorders \ {r} : recorder'[q] = recorder[q]
  BY DEF RecordsInv, RecordsTypeOK
<1>2. time' \in 0 .. MaxTimes /\ time' >= time
  BY PassProperties
<1>3. NoRecord \in [by : {"none", "tasks", "service", "edit"}, status : Outcome,
                    at : 0 .. MaxTimes]
  BY RecordsAssumption DEF NoRecord, Outcome
<1>4. RecordsTypeOK'
  BY <1>2, <1>3 DEF RecordsInv, RecordsTypeOK
<1>5. newest'.at <= time'
  BY <1>2, RecordsAssumption DEF RecordsInv, RecordsTypeOK
<1>6. Executions' = Executions \ {r}
  BY <1>1 DEF Executions, NoRecord
<1>7. \A q \in Executions' : recorder'[q] = recorder[q]
  BY <1>1, <1>6 DEF Executions
<1>8. NewestIsOnItsWay'
  BY <1>6, <1>7 DEF RecordsInv, NewestIsOnItsWay
<1> QED BY <1>4, <1>5, <1>8 DEF RecordsInv

LEMMA ShowKeeps ==
  ASSUME RecordsInv, NEW r \in Recorders, Show(r)
  PROVE  RecordsInv'
<1>1. /\ r \in Executions /\ newest' = newest /\ apart' = apart
      /\ Pass \/ time' = time
      /\ shown' = [status |-> recorder[r].status,
                   at |-> IF recorder[r].by = "service" THEN time' ELSE recorder[r].at]
      /\ recorder' = [recorder EXCEPT ![r] = NoRecord]
  BY DEF Show, Executions
<1>2. time' \in 0 .. MaxTimes /\ time' >= time
  BY <1>1, PassProperties
<1>3. shown' \in [status : Outcome, at : 0 .. MaxTimes]
  BY <1>1, <1>2 DEF RecordsInv, RecordsTypeOK
<1>4. time' >= newest.at
  BY <1>2, RecordsAssumption DEF RecordsInv, RecordsTypeOK
<1>5. ~apart => shown'.status = newest.status /\ shown'.at >= newest.at
  <2> SUFFICES ASSUME ~apart
               PROVE  shown'.status = newest.status /\ shown'.at >= newest.at
    OBVIOUS
  <2>1. recorder[r].status = newest.status /\ recorder[r].at = newest.at
    BY <1>1 DEF RecordsInv, NewestIsOnItsWay
  <2>2. newest.at \in Nat
    BY RecordsAssumption DEF RecordsInv, RecordsTypeOK
  <2> QED BY <1>1, <1>4, <2>1, <2>2
<1>6. apart' \in BOOLEAN
  BY <1>1 DEF RecordsInv, RecordsTypeOK
<1> QED BY <1>1, <1>3, <1>5, <1>6, RequestEndKeeps

LEMMA RecordsStep == RecordsInv /\ [RecordsNext]_recordVars => RecordsInv'
<1> SUFFICES ASSUME RecordsInv, [RecordsNext]_recordVars PROVE RecordsInv'
  OBVIOUS
<1>1. ASSUME NEW r \in Recorders, ShowEdited(r)
      PROVE  RecordsInv'
  <2>1. shown' \in [status : Outcome, at : 0 .. MaxTimes]
    BY <1>1 DEF ShowEdited, RecordsInv, RecordsTypeOK
  <2> QED BY <1>1, <2>1, RequestEndKeeps DEF ShowEdited
<1>2. ASSUME NEW r \in Recorders, ShowFails(r)
      PROVE  RecordsInv'
  <2>1. apart' \in BOOLEAN /\ shown' \in [status : Outcome, at : 0 .. MaxTimes]
    BY <1>2 DEF ShowFails, RecordsInv, RecordsTypeOK
  <2>2. ~apart' => ~apart /\ r \notin Executions
    BY <1>2 DEF ShowFails, Executions
  <2> QED BY <1>2, <2>1, <2>2, RequestEndKeeps DEF ShowFails
<1>3. ASSUME NEW status \in Outcome, SetStatus(status)
      PROVE  RecordsInv'
  <2>1. time' \in 0 .. MaxTimes /\ time' >= time
    BY <1>3, PassProperties DEF SetStatus
  <2>2. newest'.at <= time'
    BY <1>3, <2>1, RecordsAssumption DEF SetStatus, RecordsInv, RecordsTypeOK
  <2>3. RecordsTypeOK'
    BY <1>3, <2>1 DEF SetStatus, RecordsInv, RecordsTypeOK
  <2> QED BY <1>3, <2>2, <2>3 DEF SetStatus, RecordsInv, NewestIsOnItsWay
<1>4. CASE UNCHANGED recordVars
  BY <1>4 DEF recordVars, RecordsInv, RecordsTypeOK, NewestIsOnItsWay, Executions
<1> QED BY <1>1, <1>2, <1>3, <1>4, RecordExecutionKeeps, EditScenarioKeeps, ShowKeeps
        DEF RecordsNext

\* When no recording is under way the scenario shows the newest execution, unless
\* recordings overlapped, one broke off or the status was set by hand; for any
\* number of requests and timestamps (recordExecution, updateScenarioStatus).
THEOREM NewestIsShown == RecordsSpec => []ResultIsNewest
<1>1. RecordsInv => ResultIsNewest
  <2> SUFFICES ASSUME RecordsInv, Recording = {}, ~apart
               PROVE  shown.status = newest.status /\ shown.at >= newest.at
    BY DEF ResultIsNewest
  <2>1. Executions = {}
    BY DEF Executions, Recording
  <2> QED BY <2>1 DEF RecordsInv, NewestIsOnItsWay
<1> QED BY <1>1, RecordsStart, RecordsStep, PTL DEF RecordsSpec

--------------------------------------------------------------------------
(* ScenarioImport *)

LEMMA ImportStart == ImportInit => ImportInv
<1> SUFFICES ASSUME ImportInit PROVE ImportInv
  OBVIOUS
<1>1. 0 \in 0 .. MaxRows /\ 0 <= 1
  BY ImportAssumption
<1>2. Importing = {}
  BY DEF ImportInit, Importing
<1>3. ImportTypeOK
  BY <1>1 DEF ImportInit, ImportTypeOK
<1> QED BY <1>2, <1>3 DEF ImportInit, ImportInv, DoneHasRows, LoneImportIsFirst,
                         ImportIsRepeatable

\* Where an import may be, and with which titles.
Place == [at : {"idle", "master", "look", "create"}, title : Titles \cup {"none"},
          todo : SUBSET Titles]

\* An import gets ahead to a place that the rows allow, without creating one.
LEMMA ImporterMoves ==
  ASSUME ImportInv, NEW i \in Importers, NEW to \in Place,
         importer' = [importer EXCEPT ![i] = to], rows' = rows,
         masterTask' \in BOOLEAN, rushed' \in BOOLEAN, imported' \in BOOLEAN,
         ~rushed' => ~rushed /\ (i \in Importing \/ Importing = {} \/ to.at = "idle"),
         imported' => imported \/ \A t \in Titles : rows[t] > 0,
         to.at = "master" => to.todo = Titles,
         to.at = "create" => to.title \in Titles /\ rows[to.title] = 0,
         to.at # "idle" => \A t \in Titles \ to.todo :
                             rows[t] > 0 \/ (to.at = "create" /\ t = to.title)
  PROVE  ImportInv'
<1>1. importer'[i] = to /\ \A j \in Importers \ {i} : importer'[j] = importer[j]
  BY DEF ImportInv, ImportTypeOK
<1>2. ImportTypeOK'
  BY DEF ImportInv, ImportTypeOK, Place
<1>3. Importing' \subseteq Importing \cup {i} /\ (i \in Importing' => to.at # "idle")
  BY <1>1 DEF Importing
<1>4. DoneHasRows'
  <2> SUFFICES ASSUME NEW j \in Importing'
               PROVE  /\ importer'[j].at = "master" => importer'[j].todo = Titles
                      /\ importer'[j].at = "create" => importer'[j].title \in Titles
                      /\ \A t \in Titles \ importer'[j].todo :
                           rows[t] > 0 \/ (importer'[j].at = "create"
                                             /\ t = importer'[j].title)
    BY DEF DoneHasRows
  <2>1. CASE j = i
    BY <1>1, <1>3, <2>1
  <2>2. CASE j # i
    <3>1. j \in Importing /\ importer'[j] = importer[j]
      BY <1>1, <1>3, <2>2 DEF Importing
    <3> QED BY <3>1 DEF ImportInv, DoneHasRows
  <2> QED BY <2>1, <2>2
<1>5. LoneImportIsFirst'
  <2> SUFFICES ASSUME ~rushed'
               PROVE  /\ \A j, k \in Importing' : j = k
                      /\ \A j \in Importing' :
                           importer'[j].at = "create" => rows[importer'[j].title] = 0
    BY DEF LoneImportIsFirst
  <2>1. \A j, k \in Importing : j = k
    BY DEF ImportInv, LoneImportIsFirst
  <2>2. \A j, k \in Importing' : j = k
    BY <1>3, <2>1
  <2>3. ASSUME NEW j \in Importing', importer'[j].at = "create"
        PROVE  rows[importer'[j].title] = 0
    <3>1. CASE j = i
      BY <1>1, <2>3, <3>1
    <3>2. CASE j # i
      <4>1. j \in Importing /\ importer'[j] = importer[j]
        BY <1>1, <1>3, <3>2 DEF Importing
      <4> QED BY <2>3, <4>1 DEF ImportInv, LoneImportIsFirst
    <3> QED BY <3>1, <3>2
  <2> QED BY <2>2, <2>3
<1>6. ImportIsRepeatable'
  BY DEF ImportInv, ImportIsRepeatable
<1> QED BY <1>2, <1>4, <1>5, <1>6 DEF ImportInv

LEMMA LookKeeps ==
  ASSUME ImportInv, NEW i \in Importers, NEW t \in Titles, Look(i, t)
  PROVE  ImportInv'
<1> DEFINE left == importer[i].todo \ {t}
<1>1. /\ i \in Importing /\ importer[i] \in Place /\ importer[i].at = "look"
      /\ rows[t] \in Nat
  BY ImportAssumption DEF Look, Importing, ImportInv, ImportTypeOK, Place
<1>2. \A u \in Titles \ left : u = t \/ rows[u] > 0
  BY <1>1 DEF ImportInv, DoneHasRows
<1>3. UNCHANGED <<masterTask, rows, rushed, imported>>
  BY DEF Look
<1>4. {rushed, imported, masterTask} \subseteq BOOLEAN
  BY DEF ImportInv, ImportTypeOK
<1>5. CASE rows[t] > 0
  <2> DEFINE to == [at |-> "look", title |-> importer[i].title, todo |-> left]
  <2>1. importer' = [importer EXCEPT ![i].todo = @ \ {t}]
    BY <1>5 DEF Look
  <2>2. to \in Place /\ [importer[i] EXCEPT !.todo = @ \ {t}] = to
    BY <1>1 DEF Place
  <2>3. importer' = [importer EXCEPT ![i] = to]
    BY <2>1, <2>2 DEF ImportInv, ImportTypeOK
  <2>4. \A u \in Titles \ to.todo : rows[u] > 0
    BY <1>2, <1>5
  <2>5. to.at = "look"
    OBVIOUS
  <2> HIDE DEF to
  <2> QED BY <1>1, <1>3, <1>4, <2>2, <2>3, <2>4, <2>5, ImporterMoves
<1>6. CASE ~(rows[t] > 0)
  <2> DEFINE to == [at |-> "create", title |-> t, todo |-> left]
  <2>1. importer' = [importer EXCEPT ![i].todo = @ \ {t}, ![i].at = "create",
                                     ![i].title = t]
    BY <1>6 DEF Look
  <2>2. to \in Place
    BY <1>1 DEF Place
  <2>3. importer' = [importer EXCEPT ![i] = to]
    BY <1>1, <2>1 DEF ImportInv, ImportTypeOK, Place
  <2>4. \A u \in Titles \ to.todo : rows[u] > 0 \/ u = to.title
    BY <1>2
  <2>5. to.at = "create" /\ to.title \in Titles /\ rows[to.title] = 0
    BY <1>1, <1>6
  <2> HIDE DEF to
  <2> QED BY <1>1, <1>3, <1>4, <2>2, <2>3, <2>4, <2>5, ImporterMoves
<1> QED BY <1>5, <1>6

LEMMA CreateRowKeeps ==
  ASSUME ImportInv, NEW i \in Importers, CreateRow(i)
  PROVE  ImportInv'
<1> DEFINE u == importer[i].title
           to == [at |-> "look", title |-> "none", todo |-> importer[i].todo]
<1>1. /\ i \in Importing /\ importer[i] \in Place /\ importer[i].at = "create"
      /\ u \in Titles
  BY DEF CreateRow, Importing, ImportInv, ImportTypeOK, Place, DoneHasRows
<1>2. rows' = [rows EXCEPT ![u] = @ + 1] /\ rows[u] < MaxRows
  BY DEF CreateRow
<1>3. /\ rows'[u] = rows[u] + 1 /\ rows'[u] > 0
      /\ \A t \in Titles : rows[t] \in Nat /\ (t # u => rows'[t] = rows[t])
  BY <1>1, <1>2, ImportAssumption DEF ImportInv, ImportTypeOK
<1>4. importer' = [importer EXCEPT ![i] = to] /\ to \in Place
  <2>1. to \in Place
    BY <1>1 DEF Place
  <2>2. importer \in [Importers -> Place]
    BY DEF ImportInv, ImportTypeOK, Place
  <2>3. /\ importer' \in [Importers -> Place]
        /\ \A j \in Importers \ {i} : importer'[j] = importer[j]
    BY <2>2 DEF CreateRow, Place
  <2>4. /\ importer'[i].at = "look" /\ importer'[i].title = "none"
        /\ importer'[i].todo = importer[i].todo
    BY <1>1, <2>2 DEF CreateRow, Place
  <2>5. importer'[i] = to
    BY <2>3, <2>4 DEF Place
  <2> QED BY <2>1, <2>2, <2>3, <2>5
<1>5. importer'[i] = to /\ \A j \in Importers \ {i} : importer'[j] = importer[j]
  BY <1>4 DEF ImportInv, ImportTypeOK
<1>6. Importing' = Importing
  BY <1>1, <1>5 DEF Importing
<1>7. ImportTypeOK'
  <2>1. rows' \in [Titles -> 0 .. MaxRows]
    BY <1>1, <1>2, <1>3, ImportAssumption DEF ImportInv, ImportTypeOK
  <2>2. importer' \in [Importers -> Place]
    BY <1>4 DEF ImportInv, ImportTypeOK, Place
  <2> QED BY <2>1, <2>2 DEF CreateRow, ImportInv, ImportTypeOK, Place
<1>8. \A t \in Titles : rows[t] > 0 => rows'[t] > 0
  BY <1>3
<1>9. DoneHasRows'
  <2> SUFFICES ASSUME NEW j \in Importing
               PROVE  /\ importer'[j].at = "master" => importer'[j].todo = Titles
                      /\ importer'[j].at = "create" => importer'[j].title \in Titles
                      /\ \A t \in Titles \ importer'[j].todo :
                           rows'[t] > 0 \/ (importer'[j].at = "create"
                                              /\ t = importer'[j].title)
    BY <1>6 DEF DoneHasRows
  <2>1. CASE j = i
    BY <1>1, <1>3, <1>5, <1>8, <2>1 DEF ImportInv, DoneHasRows
  <2>2. CASE j # i
    <3>1. importer'[j] = importer[j]
      BY <1>5, <2>2 DEF Importing
    <3> QED BY <1>8, <3>1 DEF ImportInv, DoneHasRows
  <2> QED BY <2>1, <2>2
<1>10. rushed' = rushed /\ imported' = imported
  BY DEF CreateRow
<1>11. ~rushed => /\ \A j \in Importing : j = i
                  /\ rows'[u] <= 1
  BY <1>1, <1>3 DEF ImportInv, LoneImportIsFirst
<1>12. LoneImportIsFirst'
  BY <1>1, <1>5, <1>6, <1>10, <1>11 DEF LoneImportIsFirst
<1>13. ImportIsRepeatable'
  BY <1>3, <1>8, <1>10, <1>11 DEF ImportInv, ImportIsRepeatable
<1> QED BY <1>7, <1>9, <1>12, <1>13 DEF ImportInv

LEMMA ImportStep == ImportInv /\ [ImportNext]_importVars => ImportInv'
<1> SUFFICES ASSUME ImportInv, [ImportNext]_importVars PROVE ImportInv'
  OBVIOUS
<1> DEFINE rest == [at |-> "idle", title |-> "none", todo |-> {}]
<1>1. rest \in Place /\ {rushed, imported, masterTask} \subseteq BOOLEAN
  BY DEF ImportInv, ImportTypeOK, Place
<1>2. ASSUME NEW i \in Importers, BeginImport(i)
      PROVE  ImportInv'
  <2> DEFINE to == [at |-> IF masterTask THEN "look" ELSE "master",
                    title |-> "none", todo |-> Titles]
  <2>1. to \in Place /\ to.at \in {"look", "master"} /\ to.todo = Titles
    BY DEF Place
  <2>2. importer' = [importer EXCEPT ![i] = to]
    BY <1>2 DEF BeginImport
  <2>3. /\ rushed' \in BOOLEAN
        /\ ~rushed' => ~rushed /\ Importing = {}
        /\ UNCHANGED <<masterTask, rows, imported>>
    BY <1>2 DEF BeginImport
  <2> HIDE DEF to
  <2> QED BY <1>1, <2>1, <2>2, <2>3, ImporterMoves
<1>3. ASSUME NEW i \in Importers, ImportFails(i)
      PROVE  ImportInv'
  BY <1>1, <1>3, ImporterMoves DEF ImportFails
<1>4. ASSUME NEW i \in Importers, CreateMaster(i)
      PROVE  ImportInv'
  <2> DEFINE to == [at |-> "look", title |-> importer[i].title, todo |-> importer[i].todo]
  <2>1. importer[i] \in Place /\ i \in Importing /\ importer[i].todo = Titles
    BY <1>4 DEF CreateMaster, Importing, ImportInv, ImportTypeOK, Place, DoneHasRows
  <2>2. /\ to \in Place /\ to.todo = Titles /\ to.at = "look"
        /\ [importer[i] EXCEPT !.at = "look"] = to
    BY <2>1 DEF Place
  <2>3. importer' = [importer EXCEPT ![i] = to]
    BY <1>4, <2>2 DEF CreateMaster, ImportInv, ImportTypeOK
  <2>4. masterTask' \in BOOLEAN /\ UNCHANGED <<rows, rushed, imported>>
    BY <1>4 DEF CreateMaster
  <2> HIDE DEF to
  <2> QED BY <1>1, <2>1, <2>2, <2>3, <2>4, ImporterMoves
<1>5. ASSUME NEW i \in Importers, EndImport(i)
      PROVE  ImportInv'
  <2> DEFINE to == [at |-> "idle", title |-> importer[i].title, todo |-> {}]
  <2>1. importer[i] \in Place /\ i \in Importing
    BY <1>5 DEF EndImport, Importing, ImportInv, ImportTypeOK, Place
  <2>2. /\ to \in Place /\ to.at = "idle"
        /\ [importer[i] EXCEPT !.at = "idle"] = to
    BY <1>5, <2>1 DEF EndImport, Place
  <2>3. importer' = [importer EXCEPT ![i] = to]
    BY <1>5, <2>2 DEF EndImport, ImportInv, ImportTypeOK
  <2>4. \A t \in Titles : rows[t] > 0
    BY <1>5, <2>1 DEF EndImport, ImportInv, DoneHasRows
  <2>5. imported' \in BOOLEAN /\ UNCHANGED <<masterTask, rows, rushed>>
    BY <1>5 DEF EndImport
  <2> HIDE DEF to
  <2> QED BY <1>1, <2>1, <2>2, <2>3, <2>4, <2>5, ImporterMoves
<1>6. CASE UNCHANGED importVars
  BY <1>6 DEF importVars, ImportInv, ImportTypeOK, DoneHasRows, LoneImportIsFirst,
     ImportIsRepeatable, Importing
<1> QED BY <1>2, <1>3, <1>4, <1>5, <1>6, LookKeeps, CreateRowKeeps DEF ImportNext

\* After an import that ended well every scenario of the file is there, and once
\* unless imports overlapped; for any number of titles and requests
\* (createComprehensiveScenarios).
THEOREM ImportRepeatable == ImportSpec => []ImportIsRepeatable
<1>1. ImportInv => ImportIsRepeatable
  BY DEF ImportInv
<1> QED BY <1>1, ImportStart, ImportStep, PTL DEF ImportSpec
============================================================================
