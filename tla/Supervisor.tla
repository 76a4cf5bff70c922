----------------------------- MODULE Supervisor -----------------------------
(***************************************************************************)
(* ClaudeSupervisor of src/scripts/claude-supervisor.ts: one session of    *)
(* Claude processes, one per attempt, each followed by the stop hook.  The *)
(* field currentSession is the process that an interrupt and every timeout *)
(* kills; each process sets it to null when it has closed and its log is   *)
(* written, whichever process the field holds by then.                     *)
(***************************************************************************)
EXTENDS Naturals

CONSTANT MaxAgents   \* config.maxAttempts

ASSUME SupervisorAssumption == MaxAgents \in Nat \ {0}

VARIABLES
  attempt,   \* the number of the attempt
  place,     \* what runSession waits for
  agent,     \* the process of each attempt
  current,   \* currentSession, by attempt
  timers,    \* attempts whose session timeout is pending
  closing,   \* attempts whose close handler writes the log, or still has to come
  hasty,     \* history: attempts that were given up before their close was handled
  robbed     \* history: processes another one's close took out of the field

supervisorVars ==
  <<attempt, place, agent, current, timers, closing, hasty, robbed>>

Attempt == 1 .. MaxAgents
Nobody == 0
Place == {"ready", "claude", "hook", "over", "exited"}

SupervisorTypeOK ==
  /\ attempt \in 0 .. MaxAgents
  /\ place \in Place
  /\ agent \in [Attempt -> {"none", "running", "signalled", "gone"}]
  /\ current \in 0 .. MaxAgents
  /\ timers \subseteq Attempt
  /\ closing \subseteq Attempt
  /\ hasty \subseteq Attempt
  /\ robbed \subseteq Attempt

SupervisorInit ==
  /\ attempt = 0
  /\ place = "ready"
  /\ agent = [p \in Attempt |-> "none"]
  /\ current = Nobody
  /\ timers = {}
  /\ closing = {}
  /\ hasty = {}
  /\ robbed = {}

Alive == place # "exited"

\* runClaudeCode of the next attempt.
StartAttempt ==
  /\ place = "ready"
  /\ attempt < MaxAgents
  /\ attempt' = attempt + 1
  /\ agent' = [agent EXCEPT ![attempt + 1] = "running"]
  /\ current' = attempt + 1
  /\ timers' = timers \cup {attempt + 1}
  /\ place' = "claude"
  /\ UNCHANGED <<closing, hasty, robbed>>

\* The loop ends: main() prints the result and ends the supervisor.
EndSession ==
  /\ place = "over" \/ (place = "ready" /\ attempt = MaxAgents)
  /\ place' = "exited"
  /\ timers' = {}
  /\ closing' = {}
  /\ UNCHANGED <<attempt, agent, current, hasty, robbed>>

IsAwaited(p) == place = "claude" /\ p = attempt

\* 'close': the timeout is cleared, then the log is written.
CloseAgent(p) ==
  /\ agent[p] \in {"running", "signalled"}
  /\ agent' = [agent EXCEPT ![p] = "gone"]
  /\ timers' = IF Alive THEN timers \ {p} ELSE timers
  /\ closing' = IF Alive THEN closing \cup {p} ELSE closing
  /\ UNCHANGED <<attempt, place, current, hasty, robbed>>

\* The rest of the handler: the answer, if nobody gave it before, and the field.
HandleClose(p, success) ==
  /\ p \in closing
  /\ agent[p] = "gone"
  /\ closing' = closing \ {p}
  /\ current' = Nobody
  /\ place' = IF IsAwaited(p) THEN (IF success THEN "hook" ELSE "ready") ELSE place
  /\ robbed' = robbed \cup ({current} \ {p, Nobody})
  /\ UNCHANGED <<attempt, agent, timers, hasty>>

\* Kills what currentSession holds.
Killed == [agent EXCEPT ![current] = IF @ = "running" THEN "signalled" ELSE @]
KillCurrent == agent' = IF current = Nobody THEN agent ELSE Killed

\* Mutant: the timeout gives the attempt up and leaves its process alone.
TimeoutWithoutKill(p) ==
  /\ p \in timers
  /\ timers' = timers \ {p}
  /\ place' = IF IsAwaited(p) THEN "ready" ELSE place
  /\ hasty' = hasty \cup {p}
  /\ UNCHANGED <<attempt, agent, current, closing, robbed>>

\* Mutant: the answer is left to the close of the killed process.
TimeoutOnlyKills(p) ==
  /\ p \in timers
  /\ timers' = timers \ {p}
  /\ KillCurrent
  /\ UNCHANGED <<attempt, place, current, closing, hasty, robbed>>

\* The session timeout kills currentSession and gives the attempt up; the loop
\* goes on at once.
SessionTimeout(p) ==
  /\ p \in timers
  /\ timers' = timers \ {p}
  /\ KillCurrent
  /\ place' = IF IsAwaited(p) THEN "ready" ELSE place
  /\ hasty' = hasty \cup {p}
  /\ UNCHANGED <<attempt, current, closing, robbed>>

\* 'error': the process could not be spawned; its 'close' may still come.
SpawnError(p, closes) ==
  /\ IsAwaited(p)
  /\ agent[p] = "running"
  /\ agent' = [agent EXCEPT ![p] = "gone"]
  /\ timers' = timers \ {p}
  /\ closing' = IF closes THEN closing \cup {p} ELSE closing
  /\ place' = "ready"
  /\ hasty' = hasty \cup {p}
  /\ UNCHANGED <<attempt, current, robbed>>

\* runValidationHook ends, by itself or by its timeout.
HookEnds(success) ==
  /\ place = "hook"
  /\ place' = IF success THEN "over" ELSE "ready"
  /\ UNCHANGED <<attempt, agent, current, timers, closing, hasty, robbed>>

\* interrupt, stop and restart.
Interrupt ==
  /\ Alive
  /\ current # Nobody
  /\ KillCurrent
  /\ current' = Nobody
  /\ UNCHANGED <<attempt, place, timers, closing, hasty, robbed>>

\* quit: interrupt, and the supervisor exits.
QuitSupervisor ==
  /\ Alive
  /\ KillCurrent
  /\ current' = Nobody
  /\ place' = "exited"
  /\ timers' = {}
  /\ closing' = {}
  /\ UNCHANGED <<attempt, hasty, robbed>>

\* A prompt that cannot be written to its process, a log that cannot be written
\* or a hook that cannot be spawned is nobody's to handle and ends the supervisor.
SupervisorDies ==
  /\ \/ place \in {"claude", "hook"}
     \/ Alive /\ \E p \in closing : agent[p] = "gone"
  /\ place' = "exited"
  /\ timers' = {}
  /\ closing' = {}
  /\ UNCHANGED <<attempt, agent, current, hasty, robbed>>

SupervisorNext ==
  \/ StartAttempt
  \/ EndSession
  \/ \E p \in Attempt :
       \/ CloseAgent(p)
       \/ \E b \in BOOLEAN : HandleClose(p, b) \/ SpawnError(p, b)
       \/ SessionTimeout(p)
  \/ \E b \in BOOLEAN : HookEnds(b)
  \/ Interrupt
  \/ QuitSupervisor
  \/ SupervisorDies

SupervisorSpec == SupervisorInit /\ [][SupervisorNext]_supervisorVars

\* Timers fire, logs get written, and the hook has a timeout of its own.  A
\* Claude process need not end, not even when it was sent a signal.
SupervisorFairness ==
  /\ WF_supervisorVars(StartAttempt)
  /\ WF_supervisorVars(EndSession)
  /\ WF_supervisorVars(\E b \in BOOLEAN : HookEnds(b))
  /\ \A p \in Attempt :
       /\ WF_supervisorVars(\E b \in BOOLEAN : HandleClose(p, b))
       /\ WF_supervisorVars(SessionTimeout(p))

--------------------------------------------------------------------------
(* Properties *)

\* A process nobody has killed is in currentSession, where an interrupt, the
\* timeout and a supervisor that is told to quit find it, and so there is only
\* one; unless another one's close took it out, which only happens after an
\* earlier attempt was given up before its close was handled.  A supervisor that
\* dies leaves its process behind.
NoAgentIsForgotten ==
  /\ \A p \in Attempt \ robbed : agent[p] = "running" => current = p
  /\ \A p \in robbed : \E q \in hasty : q < p

\* A session that was started comes to its end and its result, though a Claude
\* process may never end and its signals may be ignored or sent to another.
\* (runSession, runClaudeCode, setupProcessEventHandlers)
SessionEnds == (attempt > 0) ~> (place = "exited")

\* The inductive invariant.  Only the attempt that is awaited, or the last one
\* when the supervisor ended, has a process that nobody has killed;
OnlyAwaitedRuns ==
  \A p \in Attempt \ robbed : agent[p] = "running" =>
    p = attempt /\ current = p /\ place \in {"claude", "exited"}

\* an attempt that is not over is awaited or was given up;
UnfinishedIsAwaited ==
  \A p \in Attempt :
    p \in closing \/ (Alive /\ agent[p] \in {"running", "signalled"}) =>
      p \in hasty \/ IsAwaited(p)

\* and there is nothing beyond the attempt that was started last.
NothingAhead ==
  /\ current \in {Nobody, attempt}
  /\ \A p \in Attempt : p \in closing \/ agent[p] # "none" => p <= attempt

SupervisorInv ==
  /\ SupervisorTypeOK
  /\ OnlyAwaitedRuns
  /\ UnfinishedIsAwaited
  /\ NothingAhead
  /\ \A p \in robbed : \E q \in hasty : q < p
============================================================================
