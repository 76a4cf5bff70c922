----------------------------- MODULE DevServers -----------------------------
(***************************************************************************)
(* The dev servers of a worker's worktree, in                              *)
(* src/src/routes/claude-workers.ts: the worker has one handle for the     *)
(* backend and one for the frontend.  A request sets or clears handles; so *)
(* does the 'exit' of every server that was ever started, whichever server *)
(* the handle is for by then.                                              *)
(***************************************************************************)
EXTENDS Naturals

CONSTANTS
  Starts,       \* start-dev-server requests that may be under way at a time
  MaxServers    \* bound: servers started

ASSUME DevAssumption == MaxServers \in Nat

VARIABLES
  known,      \* the worker is in activeWorkers
  devHandle,  \* devServerBackend and devServerFrontend
  server,     \* the servers started, in order
  start,      \* the requests that wait for the import of child_process
  cleared     \* history: servers whose handle another one's late exit cleared

devVars == <<known, devHandle, server, start, cleared>>

Kind == {"backend", "frontend"}
ServerType == Kind \cup {"both"}
Id == 1 .. MaxServers
None == 0

\* "signalled" is a server that was sent SIGTERM and has not exited yet.
ServerState == {"none", "running", "signalled", "gone"}

Unused == [kind |-> "backend", at |-> "none"]

DevTypeOK ==
  /\ known \in BOOLEAN
  /\ devHandle \in [Kind -> Id \cup {None}]
  /\ server \in [Id -> [kind : Kind, at : ServerState]]
  /\ start \in [Starts -> ServerType \cup {"idle"}]
  /\ cleared \subseteq Id

DevInit ==
  /\ known = TRUE
  /\ devHandle = [k \in Kind |-> None]
  /\ server = [s \in Id |-> Unused]
  /\ start = [q \in Starts |-> "idle"]
  /\ cleared = {}

Started == {s \in Id : server[s].at # "none"}
Fresh(s) == s \notin Started /\ \A r \in Id : r < s => r \in Started

Includes(type, k) == type \in {k, "both"}

\* start-dev-server: the worker and its worktree are looked up, 404 or 400
\* otherwise; then it waits.
RequestStart(q, type) ==
  /\ known
  /\ start[q] = "idle"
  /\ start' = [start EXCEPT ![q] = type]
  /\ UNCHANGED <<known, devHandle, server, cleared>>

\* A server of the kind is spawned and put into the handle.
Spawned(s, k) == [server EXCEPT ![s] = [kind |-> k, at |-> "running"]]

\* The rest of it, for one kind: 400 if its handle is set.  A worktree without
\* a ui directory has no frontend.
StartOne(q, s, k) ==
  /\ start[q] = k
  /\ devHandle[k] = None
  /\ Fresh(s)
  /\ server' = Spawned(s, k)
  /\ devHandle' = [devHandle EXCEPT ![k] = s]
  /\ start' = [start EXCEPT ![q] = "idle"]
  /\ UNCHANGED <<known, cleared>>

\* For both: the backend is started before the frontend is looked at, and
\* stays even if the request is then refused.
StartBoth(q, s, t) ==
  /\ start[q] = "both"
  /\ devHandle["backend"] = None
  /\ Fresh(s)
  /\ IF devHandle["frontend"] = None /\ t > s
     THEN /\ t = s + 1
          /\ t \in Id
          /\ server' = [Spawned(s, "backend") EXCEPT ![t] = [kind |-> "frontend", at |-> "running"]]
          /\ devHandle' = [backend |-> s, frontend |-> t]
     ELSE /\ t = s
          /\ server' = Spawned(s, "backend")
          /\ devHandle' = [devHandle EXCEPT !["backend"] = s]
  /\ start' = [start EXCEPT ![q] = "idle"]
  /\ UNCHANGED <<known, cleared>>

ServerRefused(q) ==
  /\ start[q] # "idle"
  /\ \/ \E k \in Kind : Includes(start[q], k) /\ devHandle[k] # None
     \/ start[q] = "frontend"
  /\ start[q] = "both" => devHandle["backend"] # None
  /\ start' = [start EXCEPT ![q] = "idle"]
  /\ UNCHANGED <<known, devHandle, server, cleared>>

\* Mutant: stop clears the handle and forgets the signal.
StopWithoutSignal(type) ==
  /\ known
  /\ \E k \in Kind : Includes(type, k) /\ devHandle[k] # None
  /\ devHandle' = [k \in Kind |-> IF Includes(type, k) THEN None ELSE devHandle[k]]
  /\ UNCHANGED <<known, server, start, cleared>>

\* stop-dev-server signals the servers of its kinds and clears their handles;
\* 400 if there are none.
StopServers(type) ==
  /\ known
  /\ \E k \in Kind : Includes(type, k) /\ devHandle[k] # None
  /\ server' = [s \in Id |->
       IF server[s].at = "running" /\ Includes(type, server[s].kind)
                                   /\ devHandle[server[s].kind] = s
       THEN [server[s] EXCEPT !.at = "signalled"] ELSE server[s]]
  /\ devHandle' = [k \in Kind |-> IF Includes(type, k) THEN None ELSE devHandle[k]]
  /\ UNCHANGED <<known, start, cleared>>

\* A server exits, by itself or after the signal: the handle of its kind is
\* cleared, whatever it holds.
ServerExits(s) ==
  /\ server[s].at \in {"running", "signalled"}
  /\ server' = [server EXCEPT ![s].at = "gone"]
  /\ devHandle' = [devHandle EXCEPT ![server[s].kind] = None]
  /\ cleared' = IF server[s].at = "signalled" \/ s \in cleared
                THEN cleared \cup ({devHandle[server[s].kind]} \ {None}) ELSE cleared
  /\ UNCHANGED <<known, start>>

\* DELETE and /clear drop the worker and leave its servers alone: from then on
\* stop-dev-server and dev-server-status answer 404.
DropWorker ==
  /\ known
  /\ known' = FALSE
  /\ UNCHANGED <<devHandle, server, start, cleared>>

\* The program that keeps the workers ends: it is stopped, or a dev server could
\* not be spawned, as nobody listens to its 'error'.  What it started runs on.
ProgramEnds ==
  /\ known' = FALSE
  /\ devHandle' = [k \in Kind |-> None]
  /\ start' = [q \in Starts |-> "idle"]
  /\ UNCHANGED <<server, cleared>>

DevNext ==
  \/ \E q \in Starts :
       \/ \E type \in ServerType : RequestStart(q, type)
       \/ \E s \in Id, k \in Kind : StartOne(q, s, k)
       \/ \E s, t \in Id : StartBoth(q, s, t)
       \/ ServerRefused(q)
  \/ \E type \in ServerType : StopServers(type)
  \/ \E s \in Id : ServerExits(s)
  \/ DropWorker
  \/ ProgramEnds

DevSpec == DevInit /\ [][DevNext]_devVars

--------------------------------------------------------------------------
(* Properties *)

\* As long as its worker is known, every server that runs and was not told to
\* stop is the one its handle holds, so that the status shows it, a stop reaches
\* it and no second one is started beside it; unless one that was stopped before
\* exited only after this one was started and cleared its handle, or one that
\* lost its own so.  Of a worker that was deleted or cleared, or whose program
\* ended, nothing of this is left: its servers run on and no route reaches them.
ServersAreHeld ==
  known => \A s \in Id : server[s].at = "running" /\ s \notin cleared
                           => devHandle[server[s].kind] = s
============================================================================
