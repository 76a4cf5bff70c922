---------------------------- MODULE Agents_proofs ----------------------------
(***************************************************************************)
(* Proofs about the parts of the system that own processes beside the      *)
(* worker lifecycle: DevServers, for any number of requests and servers,   *)
(* and Supervisor, for any number of attempts; and about the composition   *)
(* that is model-checked.                                                  *)
(***************************************************************************)
EXTENDS MCAgents, WorkerLifecycle_proofs

(* Dev servers.  One lemma per action: it preserves types and that servers   *)
(* are held.                                                                 *)

DevInv == DevTypeOK /\ ServersAreHeld

LEMMA RequestStartKeeps ==
  ASSUME DevInv, NEW q \in Starts, NEW type \in ServerType, RequestStart(q, type)
  PROVE  DevInv'
BY DEF DevInv, DevTypeOK, ServersAreHeld, RequestStart

LEMMA StartOneKeeps ==
  ASSUME DevInv, NEW q \in Starts, NEW s \in Id, NEW k \in Kind, StartOne(q, s, k)
  PROVE  DevInv'
<1>1. /\ server'[s] = [kind |-> k, at |-> "running"]
      /\ \A r \in Id \ {s} : server'[r] = server[r]
      /\ devHandle'[k] = s
      /\ \A l \in Kind \ {k} : devHandle'[l] = devHandle[l]
      /\ known' = known
  BY DEF DevInv, DevTypeOK, StartOne, Spawned
<1>2. DevTypeOK'
  <2>1. server' \in [Id -> [kind : Kind, at : ServerState]]
    BY DEF DevInv, DevTypeOK, StartOne, Spawned, ServerState
  <2>2. devHandle' \in [Kind -> Id \cup {None}]
    BY DEF DevInv, DevTypeOK, StartOne
  <2>3. start' \in [Starts -> ServerType \cup {"idle"}]
    BY DEF DevInv, DevTypeOK, StartOne
  <2> QED BY <2>1, <2>2, <2>3 DEF DevInv, DevTypeOK, StartOne
<1>3. ASSUME known', NEW r \in Id, server'[r].at = "running", r \notin cleared'
      PROVE  devHandle'[server'[r].kind] = r
  <2>1. CASE r = s
    BY <1>1, <2>1
  <2>2. CASE r # s
    <3>1. server[r].at = "running" /\ r \notin cleared /\ server[r].kind \in Kind
      BY <1>1, <1>3, <2>2 DEF StartOne, DevInv, DevTypeOK
    <3>2. devHandle[server[r].kind] = r
      BY <1>1, <1>3, <3>1 DEF DevInv, ServersAreHeld
    <3>3. server[r].kind # k
      BY <3>2 DEF StartOne, Id, None
    <3> QED BY <1>1, <2>2, <3>1, <3>2, <3>3
  <2> QED BY <2>1, <2>2
<1> QED BY <1>2, <1>3 DEF DevInv, ServersAreHeld

LEMMA StartBothKeeps ==
  ASSUME DevInv, NEW q \in Starts, NEW s \in Id, NEW t \in Id, StartBoth(q, s, t)
  PROVE  DevInv'
<1>1. /\ start' \in [Starts -> ServerType \cup {"idle"}]
      /\ known' = known /\ known' \in BOOLEAN /\ cleared' = cleared /\ cleared' \subseteq Id
  BY DEF StartBoth, DevInv, DevTypeOK
<1>2. /\ "backend" \in Kind /\ "frontend" \in Kind /\ "backend" # "frontend"
      /\ \A l \in Kind : l = "backend" \/ l = "frontend"
      /\ \A r \in Id : r # None
      /\ devHandle["backend"] = None
  BY DEF StartBoth, Kind, Id, None
<1>3. ASSUME known, NEW r \in Id, server[r].at = "running", r \notin cleared
      PROVE  server[r].kind = "frontend" /\ devHandle["frontend"] = r
  <2>1. server[r].kind \in Kind /\ devHandle[server[r].kind] = r
    BY <1>3 DEF DevInv, DevTypeOK, ServersAreHeld
  <2> QED BY <1>2, <2>1
<1>4. CASE devHandle["frontend"] = None /\ t > s
  <2>1. /\ server' = [Spawned(s, "backend") EXCEPT
                        ![t] = [kind |-> "frontend", at |-> "running"]]
        /\ devHandle' = [backend |-> s, frontend |-> t]
    BY <1>4 DEF StartBoth
  <2>2. s # t
    BY <1>4 DEF Id
  <2>3. /\ server'[t] = [kind |-> "frontend", at |-> "running"]
        /\ server'[s] = [kind |-> "backend", at |-> "running"]
        /\ \A r \in Id \ {s, t} : server'[r] = server[r]
    BY <2>1, <2>2 DEF DevInv, DevTypeOK, Spawned
  <2>4. server' \in [Id -> [kind : Kind, at : ServerState]]
    BY <2>1 DEF DevInv, DevTypeOK, Spawned, ServerState, Kind
  <2>5. devHandle' \in [Kind -> Id \cup {None}]
    BY <2>1 DEF Kind
  <2>6. ASSUME known', NEW r \in Id, server'[r].at = "running", r \notin cleared'
        PROVE  devHandle'[server'[r].kind] = r
    <3>1. r \in {s, t}
      BY <1>1, <1>2, <1>3, <1>4, <2>3, <2>6
    <3> QED BY <2>1, <2>2, <2>3, <3>1
  <2> QED BY <1>1, <2>4, <2>5, <2>6 DEF DevInv, DevTypeOK, ServersAreHeld
<1>5. CASE ~(devHandle["frontend"] = None /\ t > s)
  <2>1. /\ server' = Spawned(s, "backend")
        /\ devHandle' = [devHandle EXCEPT !["backend"] = s]
    BY <1>5 DEF StartBoth
  <2>2. /\ server'[s] = [kind |-> "backend", at |-> "running"]
        /\ \A r \in Id \ {s} : server'[r] = server[r]
        /\ devHandle'["backend"] = s /\ devHandle'["frontend"] = devHandle["frontend"]
    BY <1>2, <2>1 DEF DevInv, DevTypeOK, Spawned
  <2>3. server' \in [Id -> [kind : Kind, at : ServerState]]
    BY <2>1 DEF DevInv, DevTypeOK, Spawned, ServerState, Kind
  <2>4. devHandle' \in [Kind -> Id \cup {None}]
    BY <2>1 DEF DevInv, DevTypeOK
  <2>5. ASSUME known', NEW r \in Id, server'[r].at = "running", r \notin cleared'
        PROVE  devHandle'[server'[r].kind] = r
    <3>1. CASE r = s
      BY <2>2, <3>1
    <3>2. CASE r # s
      BY <1>1, <1>3, <2>2, <2>5, <3>2
    <3> QED BY <3>1, <3>2
  <2> QED BY <1>1, <2>3, <2>4, <2>5 DEF DevInv, DevTypeOK, ServersAreHeld
<1> QED BY <1>4, <1>5

LEMMA ServerRefusedKeeps ==
  ASSUME DevInv, NEW q \in Starts, ServerRefused(q)
  PROVE  DevInv'
BY DEF DevInv, DevTypeOK, ServersAreHeld, ServerRefused

LEMMA StopServersKeeps ==
  ASSUME DevInv, NEW type \in ServerType, StopServers(type)
  PROVE  DevInv'
<1>1. /\ UNCHANGED <<known, start, cleared>>
      /\ \A k \in Kind : devHandle'[k] = IF Includes(type, k) THEN None
                                         ELSE devHandle[k]
      /\ \A s \in Id : server'[s] =
           IF server[s].at = "running" /\ Includes(type, server[s].kind)
                                       /\ devHandle[server[s].kind] = s
           THEN [server[s] EXCEPT !.at = "signalled"] ELSE server[s]
  BY DEF StopServers
<1>2. \A s \in Id : server[s] \in [kind : Kind, at : ServerState]
  BY DEF DevInv, DevTypeOK
<1>3. \A s \in Id : /\ server'[s] \in [kind : Kind, at : ServerState]
                    /\ server'[s].kind = server[s].kind
  BY <1>1, <1>2 DEF ServerState
<1>4. DevTypeOK'
  <2>1. server' \in [Id -> [kind : Kind, at : ServerState]]
    BY <1>3 DEF StopServers
  <2>2. devHandle' \in [Kind -> Id \cup {None}]
    BY DEF StopServers, DevInv, DevTypeOK
  <2> QED BY <1>1, <2>1, <2>2 DEF DevInv, DevTypeOK
<1>5. ASSUME known, NEW s \in Id, server'[s].at = "running", s \notin cleared
      PROVE  devHandle'[server[s].kind] = s
  <2>1. server[s].at = "running"
    BY <1>1, <1>2, <1>5
  <2>2. devHandle[server[s].kind] = s /\ server[s].kind \in Kind
    BY <1>2, <1>5, <2>1 DEF DevInv, ServersAreHeld
  <2>3. ~Includes(type, server[s].kind)
    BY <1>1, <1>2, <1>5, <2>1, <2>2
  <2> QED BY <1>1, <2>2, <2>3
<1> QED BY <1>1, <1>3, <1>4, <1>5 DEF DevInv, ServersAreHeld

LEMMA ServerExitsKeeps ==
  ASSUME DevInv, NEW s \in Id, ServerExits(s)
  PROVE  DevInv'
<1> DEFINE k == server[s].kind
<1>1. k \in Kind /\ cleared \subseteq cleared'
  BY DEF DevInv, DevTypeOK, ServerExits
<1>2. /\ server'[s].at = "gone" /\ server'[s].kind = k
      /\ \A r \in Id \ {s} : server'[r] = server[r]
      /\ \A l \in Kind \ {k} : devHandle'[l] = devHandle[l]
      /\ known' = known
  BY DEF DevInv, DevTypeOK, ServerExits
<1>3. DevTypeOK'
  <2>1. server' \in [Id -> [kind : Kind, at : ServerState]]
    BY DEF DevInv, DevTypeOK, ServerExits, ServerState
  <2>2. devHandle' \in [Kind -> Id \cup {None}]
    BY DEF DevInv, DevTypeOK, ServerExits
  <2>3. cleared' \subseteq Id
    BY <1>1 DEF DevInv, DevTypeOK, ServerExits
  <2> QED BY <2>1, <2>2, <2>3 DEF DevInv, DevTypeOK, ServerExits
\* Only a server that lost its handle before clears that of another one.
<1>4. ASSUME known', NEW r \in Id, server'[r].at = "running", r \notin cleared'
      PROVE  devHandle'[server'[r].kind] = r
  <2>1. r # s /\ server[r].at = "running" /\ r \notin cleared /\ server[r].kind \in Kind
    BY <1>1, <1>2, <1>4 DEF DevInv, DevTypeOK
  <2>2. devHandle[server[r].kind] = r /\ r # None
    BY <1>2, <1>4, <2>1 DEF DevInv, ServersAreHeld, Id, None
  <2>3. server[r].kind # k
    <3>1. SUFFICES ASSUME server[r].kind = k PROVE FALSE
      OBVIOUS
    <3>2. ~(server[s].at = "signalled" \/ s \in cleared)
      BY <1>4, <2>2, <3>1 DEF ServerExits
    <3>3. devHandle[k] = s
      BY <1>2, <1>4, <3>2 DEF ServerExits, DevInv, ServersAreHeld
    <3> QED BY <2>1, <2>2, <3>1, <3>3
  <2> QED BY <1>2, <2>1, <2>2, <2>3
<1> QED BY <1>3, <1>4 DEF DevInv, ServersAreHeld

LEMMA DevStep == DevInv /\ [DevNext]_devVars => DevInv'
<1> SUFFICES ASSUME DevInv, [DevNext]_devVars PROVE DevInv'
  OBVIOUS
<1>1. CASE UNCHANGED devVars
  BY <1>1 DEF DevInv, DevTypeOK, ServersAreHeld, devVars
<1>2. CASE DropWorker \/ ProgramEnds
  <2>1. DevTypeOK' /\ ~known'
    BY <1>2 DEF DevInv, DevTypeOK, DropWorker, ProgramEnds
  <2> QED BY <2>1 DEF DevInv, ServersAreHeld
<1>3. CASE DevNext /\ ~DropWorker /\ ~ProgramEnds
  BY <1>3, RequestStartKeeps, StartOneKeeps, StartBothKeeps, ServerRefusedKeeps,
     StopServersKeeps, ServerExitsKeeps DEF DevNext
<1> QED BY <1>1, <1>2, <1>3

LEMMA DevStart == DevInit => DevInv
BY DEF DevInit, DevInv, DevTypeOK, ServersAreHeld, Unused, Kind, ServerState

\* A dev server of a worker that is known and that runs unstopped is held by the
\* handle of its kind, unless the late exit of one stopped before cleared it, for
\* any number of requests and servers (start-dev-server, stop-dev-server and the
\* 'exit' handlers).
THEOREM ServersHeld == DevSpec => []ServersAreHeld
<1>1. DevInv => ServersAreHeld
  BY DEF DevInv
<1> QED BY <1>1, DevStart, DevStep, PTL DEF DevSpec

--------------------------------------------------------------------------
(* The supervisor.  One lemma per action: it preserves SupervisorInv.        *)

LEMMA AttemptsAreNumbers ==
  ASSUME SupervisorTypeOK
  PROVE  /\ attempt \in Nat /\ current \in Nat /\ Attempt \subseteq Nat
         /\ Nobody \notin Attempt
BY SupervisorAssumption DEF SupervisorTypeOK, Attempt, Nobody

\* What a signal to current leaves of the processes.
LEMMA KillCurrentProperties ==
  ASSUME SupervisorTypeOK, KillCurrent
  PROVE  /\ agent' \in [Attempt -> {"none", "running", "signalled", "gone"}]
         /\ \A p \in Attempt :
              /\ agent'[p] = "running" => agent[p] = "running" /\ p # current
              /\ agent'[p] # "none" <=> agent[p] # "none"
              /\ agent'[p] \in {"running", "signalled"}
                   <=> agent[p] \in {"running", "signalled"}
<1>1. CASE current = Nobody
  BY <1>1, AttemptsAreNumbers DEF KillCurrent, SupervisorTypeOK
<1>2. CASE current # Nobody
  <2>1. agent' = [agent EXCEPT ![current] = IF @ = "running" THEN "signalled" ELSE @]
    BY <1>2 DEF KillCurrent, Killed
  <2> QED BY <2>1 DEF SupervisorTypeOK
<1> QED BY <1>1, <1>2

LEMMA StartAttemptKeeps ==
  ASSUME SupervisorInv, StartAttempt
  PROVE  SupervisorInv'
<1> DEFINE p == attempt + 1
<1>1. /\ p \in Attempt /\ attempt' = p /\ current' = p /\ place' = "claude"
      /\ place = "ready" /\ agent'[p] = "running"
      /\ \A q \in Attempt \ {p} : agent'[q] = agent[q]
      /\ UNCHANGED <<closing, hasty, robbed>>
  BY SupervisorAssumption
     DEF StartAttempt, SupervisorInv, SupervisorTypeOK, Attempt
<1>2. SupervisorTypeOK'
  BY <1>1 DEF SupervisorInv, SupervisorTypeOK, StartAttempt, Attempt, Place
<1>3. OnlyAwaitedRuns'
  BY <1>1 DEF SupervisorInv, OnlyAwaitedRuns
<1>4. UnfinishedIsAwaited'
  <2> SUFFICES ASSUME NEW q \in Attempt,
                      q \in closing \/ agent'[q] \in {"running", "signalled"},
                      q # p
               PROVE  q \in hasty
    BY <1>1 DEF UnfinishedIsAwaited, IsAwaited
  <2> QED BY <1>1 DEF SupervisorInv, UnfinishedIsAwaited, Alive, IsAwaited
<1>5. NothingAhead'
  BY <1>1, AttemptsAreNumbers DEF SupervisorInv, NothingAhead
<1> QED BY <1>1, <1>2, <1>3, <1>4, <1>5 DEF SupervisorInv

\* The supervisor ends, by itself, by a command or by an error.
LEMMA ExitKeeps ==
  ASSUME SupervisorInv, UNCHANGED <<attempt, hasty, robbed>>, place' = "exited",
         timers' = {}, closing' = {},
         \/ UNCHANGED <<agent, current>>
         \/ KillCurrent /\ current' = Nobody
  PROVE  SupervisorInv'
<1>1. /\ agent' \in [Attempt -> {"none", "running", "signalled", "gone"}]
      /\ \A p \in Attempt : /\ agent'[p] = "running" =>
                                 agent[p] = "running" /\ (p # current \/ current' = current)
                            /\ agent'[p] # "none" <=> agent[p] # "none"
  BY KillCurrentProperties DEF SupervisorInv, SupervisorTypeOK
<1>2. current' \in {Nobody, current}
  OBVIOUS
<1>3. SupervisorTypeOK'
  BY <1>1, <1>2, SupervisorAssumption DEF SupervisorInv, SupervisorTypeOK, Nobody, Place
<1>4. OnlyAwaitedRuns'
  BY <1>1, <1>2 DEF SupervisorInv, OnlyAwaitedRuns
<1>5. UnfinishedIsAwaited' /\ NothingAhead'
  BY <1>1, <1>2 DEF SupervisorInv, UnfinishedIsAwaited, NothingAhead, Alive
<1> QED BY <1>3, <1>4, <1>5 DEF SupervisorInv

LEMMA CloseAgentKeeps ==
  ASSUME SupervisorInv, NEW p \in Attempt, CloseAgent(p)
  PROVE  SupervisorInv'
<1>1. /\ agent'[p] = "gone" /\ agent[p] # "none"
      /\ \A q \in Attempt \ {p} : agent'[q] = agent[q]
      /\ closing' \in {closing, closing \cup {p}}
      /\ ~Alive => closing' = closing
      /\ UNCHANGED <<attempt, place, current, hasty, robbed>>
  BY DEF CloseAgent, SupervisorInv, SupervisorTypeOK
<1>2. SupervisorTypeOK'
  BY DEF CloseAgent, SupervisorInv, SupervisorTypeOK
<1>3. OnlyAwaitedRuns'
  BY <1>1 DEF SupervisorInv, OnlyAwaitedRuns
<1>4. UnfinishedIsAwaited'
  BY <1>1 DEF CloseAgent, SupervisorInv, UnfinishedIsAwaited, IsAwaited, Alive
<1>5. NothingAhead'
  BY <1>1 DEF SupervisorInv, NothingAhead
<1> QED BY <1>1, <1>2, <1>3, <1>4, <1>5 DEF SupervisorInv

\* The close of one attempt takes another out of the field only if it was given
\* up, and then it is an earlier one.
LEMMA HandleCloseKeeps ==
  ASSUME SupervisorInv, NEW p \in Attempt, NEW success \in BOOLEAN,
         HandleClose(p, success)
  PROVE  SupervisorInv'
<1>1. /\ p \in closing /\ agent[p] = "gone" /\ closing' = closing \ {p}
      /\ current' = Nobody /\ robbed' = robbed \cup ({current} \ {p, Nobody})
      /\ place' = IF IsAwaited(p) THEN (IF success THEN "hook" ELSE "ready")
                  ELSE place
      /\ UNCHANGED <<attempt, agent, timers, hasty>>
  BY DEF HandleClose
<1>2. SupervisorTypeOK'
  BY <1>1, SupervisorAssumption
     DEF SupervisorInv, SupervisorTypeOK, Place, Attempt, Nobody
<1>3. OnlyAwaitedRuns'
  <2> SUFFICES ASSUME NEW q \in Attempt, q \notin robbed', agent[q] = "running"
               PROVE  FALSE
    BY <1>1 DEF OnlyAwaitedRuns
  <2>1. current = q /\ q # p
    BY <1>1 DEF SupervisorInv, OnlyAwaitedRuns
  <2> QED BY <1>1, <2>1, AttemptsAreNumbers DEF SupervisorInv
<1>4. UnfinishedIsAwaited'
  <2> SUFFICES ASSUME NEW q \in Attempt,
                      \/ q \in closing'
                      \/ Alive /\ agent[q] \in {"running", "signalled"}
               PROVE  q \in hasty \/ IsAwaited(q)'
    BY <1>1 DEF UnfinishedIsAwaited, Alive, IsAwaited
  <2>1. q # p /\ (q \in hasty \/ IsAwaited(q))
    BY <1>1 DEF SupervisorInv, UnfinishedIsAwaited
  <2> QED BY <1>1, <2>1 DEF IsAwaited
<1>5. NothingAhead'
  BY <1>1 DEF SupervisorInv, NothingAhead
<1>6. ASSUME NEW q \in robbed'
      PROVE  \E r \in hasty : r < q
  <2>1. CASE q \in robbed
    BY <2>1 DEF SupervisorInv
  <2>2. CASE q \notin robbed
    <3>1. q = current /\ q = attempt /\ q # p
      BY <1>1, <2>2 DEF SupervisorInv, NothingAhead
    <3>2. p <= attempt
      BY <1>1 DEF SupervisorInv, NothingAhead
    <3>3. p \in hasty
      BY <1>1, <3>1 DEF SupervisorInv, UnfinishedIsAwaited, IsAwaited
    <3> QED BY <3>1, <3>2, <3>3, AttemptsAreNumbers DEF SupervisorInv
  <2> QED BY <2>1, <2>2
<1> QED BY <1>1, <1>2, <1>3, <1>4, <1>5, <1>6 DEF SupervisorInv

\* A timeout or an interrupt: nothing that current held goes on running.
LEMMA SignalKeeps ==
  ASSUME SupervisorInv, KillCurrent, NEW p \in Attempt,
         UNCHANGED <<attempt, closing, robbed>>, timers' \subseteq timers,
         \/ current' = Nobody /\ UNCHANGED <<place, hasty>>
         \/ /\ current' = current /\ hasty' = hasty \cup {p}
            /\ place' = IF IsAwaited(p) THEN "ready" ELSE place
  PROVE  SupervisorInv'
<1>1. /\ agent' \in [Attempt -> {"none", "running", "signalled", "gone"}]
      /\ \A q \in Attempt :
           /\ agent'[q] = "running" => agent[q] = "running" /\ q # current
           /\ agent'[q] # "none" <=> agent[q] # "none"
           /\ agent'[q] \in {"running", "signalled"}
                <=> agent[q] \in {"running", "signalled"}
  BY KillCurrentProperties DEF SupervisorInv
<1>2. /\ current' \in {Nobody, current} /\ place' \in {"ready", place}
      /\ hasty \subseteq hasty' /\ hasty' \subseteq Attempt
      /\ place' # place => IsAwaited(p) /\ p \in hasty'
  BY DEF SupervisorInv, SupervisorTypeOK
<1>3. SupervisorTypeOK'
  BY <1>1, <1>2, SupervisorAssumption
     DEF SupervisorInv, SupervisorTypeOK, Nobody, Place
<1>4. OnlyAwaitedRuns'
  BY <1>1 DEF SupervisorInv, OnlyAwaitedRuns
<1>5. UnfinishedIsAwaited'
  <2> SUFFICES ASSUME NEW q \in Attempt,
                      \/ q \in closing
                      \/ place' # "exited" /\ agent'[q] \in {"running", "signalled"}
               PROVE  q \in hasty' \/ IsAwaited(q)'
    BY DEF UnfinishedIsAwaited, Alive
  <2>1. q \in hasty \/ IsAwaited(q)
    BY <1>1, <1>2 DEF SupervisorInv, UnfinishedIsAwaited, Alive, IsAwaited
  <2> QED BY <1>2, <2>1 DEF IsAwaited
<1>6. NothingAhead'
  BY <1>1, <1>2 DEF SupervisorInv, NothingAhead
<1> QED BY <1>2, <1>3, <1>4, <1>5, <1>6 DEF SupervisorInv

LEMMA SpawnErrorKeeps ==
  ASSUME SupervisorInv, NEW p \in Attempt, NEW closes \in BOOLEAN,
         SpawnError(p, closes)
  PROVE  SupervisorInv'
<1>1. /\ p = attempt /\ agent'[p] = "gone" /\ agent[p] = "running"
      /\ \A q \in Attempt \ {p} : agent'[q] = agent[q]
      /\ closing' \in {closing, closing \cup {p}}
      /\ place = "claude" /\ place' = "ready" /\ hasty' = hasty \cup {p}
      /\ UNCHANGED <<attempt, current, robbed>>
  BY DEF SpawnError, IsAwaited, SupervisorInv, SupervisorTypeOK
<1>2. SupervisorTypeOK'
  BY DEF SpawnError, SupervisorInv, SupervisorTypeOK, Place
<1>3. OnlyAwaitedRuns'
  BY <1>1 DEF SupervisorInv, OnlyAwaitedRuns
<1>4. UnfinishedIsAwaited'
  BY <1>1 DEF SupervisorInv, UnfinishedIsAwaited, IsAwaited, Alive
<1>5. NothingAhead'
  BY <1>1 DEF SupervisorInv, NothingAhead
<1> QED BY <1>1, <1>2, <1>3, <1>4, <1>5 DEF SupervisorInv

LEMMA HookEndsKeeps ==
  ASSUME SupervisorInv, NEW success \in BOOLEAN, HookEnds(success)
  PROVE  SupervisorInv'
<1>1. /\ place = "hook" /\ place' \in {"over", "ready"}
      /\ UNCHANGED <<attempt, agent, current, timers, closing, hasty, robbed>>
  BY DEF HookEnds
<1>2. SupervisorTypeOK'
  BY <1>1 DEF SupervisorInv, SupervisorTypeOK, Place
<1>3. OnlyAwaitedRuns'
  BY <1>1 DEF SupervisorInv, OnlyAwaitedRuns
<1>4. UnfinishedIsAwaited'
  BY <1>1 DEF SupervisorInv, UnfinishedIsAwaited, IsAwaited, Alive
<1>5. NothingAhead'
  BY <1>1 DEF SupervisorInv, NothingAhead
<1> QED BY <1>1, <1>2, <1>3, <1>4, <1>5 DEF SupervisorInv

LEMMA SupervisorStep == SupervisorInv /\ [SupervisorNext]_supervisorVars => SupervisorInv'
<1> SUFFICES ASSUME SupervisorInv, [SupervisorNext]_supervisorVars
             PROVE  SupervisorInv'
  OBVIOUS
<1>1. CASE EndSession \/ QuitSupervisor \/ SupervisorDies
  BY <1>1, ExitKeeps DEF EndSession, QuitSupervisor, SupervisorDies
<1>2. CASE Interrupt
  <2>1. 1 \in Attempt /\ timers' \subseteq timers
    BY <1>2, SupervisorAssumption DEF Interrupt, Attempt
  <2> QED BY <1>2, <2>1, SignalKeeps DEF Interrupt
<1>3. ASSUME NEW p \in Attempt, SessionTimeout(p)
      PROVE  SupervisorInv'
  BY <1>3, SignalKeeps DEF SessionTimeout
<1>4. CASE UNCHANGED supervisorVars
  BY <1>4 DEF supervisorVars, SupervisorInv, SupervisorTypeOK, OnlyAwaitedRuns,
     UnfinishedIsAwaited, NothingAhead, Alive, IsAwaited
<1> QED BY <1>1, <1>2, <1>3, <1>4, StartAttemptKeeps, CloseAgentKeeps,
           HandleCloseKeeps, SpawnErrorKeeps, HookEndsKeeps DEF SupervisorNext

LEMMA SupervisorStart == SupervisorInit => SupervisorInv
BY SupervisorAssumption
   DEF SupervisorInit, SupervisorInv, SupervisorTypeOK, OnlyAwaitedRuns,
       UnfinishedIsAwaited, NothingAhead, Attempt, Nobody, Place

\* The invariant of a session holds in every reachable state.
THEOREM SupervisorInductive == SupervisorSpec => []SupervisorInv
BY SupervisorStart, SupervisorStep, PTL DEF SupervisorSpec

\* A process nobody has killed is the one that an interrupt, a timeout or quitting
\* would kill, as long as there is a supervisor to do so, unless the close of an
\* earlier attempt, given up before, took it out of the field; for any number of
\* attempts (runClaudeCode, setupProcessEventHandlers).
THEOREM NoneIsForgotten == SupervisorSpec => []NoAgentIsForgotten
<1>1. SupervisorInv => NoAgentIsForgotten
  BY DEF SupervisorInv, OnlyAwaitedRuns, NoAgentIsForgotten
<1> QED BY <1>1, SupervisorInductive, PTL

--------------------------------------------------------------------------
(* The composition *)

\* Every variable of the three components keeps its type, whichever component a
\* behaviour of the composition is about.
THEOREM AgentTypes == MCSpec => []MCTypeOK
<1> DEFINE Inv == TypeOK /\ DevInv /\ SupervisorInv
<1>1. MCInit => Inv
  BY TypeInit, DevStart, SupervisorStart DEF MCInit
<1>2. Inv /\ [MCNext]_<<focus, vars, devVars, supervisorVars>> => Inv'
  <2> SUFFICES ASSUME Inv, [MCNext]_<<focus, vars, devVars, supervisorVars>>
               PROVE  Inv'
    OBVIOUS
  <2>1. [Next]_vars /\ [DevNext]_devVars /\ [SupervisorNext]_supervisorVars
    BY DEF MCNext
  <2> QED BY <2>1, TypeStep, DevStep, SupervisorStep
<1>3. Inv => MCTypeOK
  BY DEF DevInv, SupervisorInv, MCTypeOK
<1> QED BY <1>1, <1>2, <1>3, PTL DEF MCSpec
==============================================================================
