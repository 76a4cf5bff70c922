--------------------------- MODULE StreamManager ---------------------------
(***************************************************************************)
(* OrchestratorStreamManager of src/src/utils/orchestrator-stream.ts: the  *)
(* events of all orchestrator sessions, a bounded buffer of the latest,    *)
(* and the SSE clients, which are sent what the buffer still holds when    *)
(* they connect and every later event of the session they asked for.       *)
(*                                                                         *)
(* An event is its number in the order of the broadcasts.  eventBuffer is  *)
(* kept in that order, so the set of its events stands for it.             *)
(***************************************************************************)
EXTENDS Naturals, Sequences, FiniteSets

CONSTANTS
  Clients,       \* client ids; each is a fresh UUID, so it connects once
  Sessions,      \* sessionIds of events
  AnySession,    \* a client that names no session
  MaxBufferSize,
  MaxReplay,     \* 20, the events a new client is sent at most
  MaxEvents      \* bound: events broadcast

ASSUME StreamAssumption ==
  /\ MaxBufferSize \in Nat \ {0}
  /\ MaxReplay \in Nat \ {0}
  /\ MaxEvents \in Nat
  /\ AnySession \notin Sessions

VARIABLES
  sent,         \* history: the session of every event, by its number
  eventBuffer,  \* the buffered events
  expired,      \* history: the newest event that timed out or was cleared
  client,       \* where each client is in its life
  filter,       \* its sessionId
  replayed,     \* the buffered events it was sent when it connected
  live,         \* the events it was sent afterwards, in order
  joined,       \* history: how many events there were when it connected
  missed,       \* history: expired at that time
  left          \* history: how many when it was removed

streamVars ==
  <<sent, eventBuffer, expired, client, filter, replayed, live, joined, missed,
    left>>

Event == 1 .. Len(sent)

StreamTypeOK ==
  /\ sent \in Seq(Sessions)
  /\ eventBuffer \subseteq Event
  /\ expired \in 0 .. Len(sent)
  /\ client \in [Clients -> {"new", "connected", "gone"}]
  /\ filter \in [Clients -> Sessions \cup {AnySession}]
  /\ replayed \in [Clients -> SUBSET Event]
  /\ live \in [Clients -> Seq(Event)]
  /\ joined \in [Clients -> 0 .. Len(sent)]
  /\ missed \in [Clients -> 0 .. Len(sent)]
  /\ left \in [Clients -> 0 .. Len(sent)]

StreamInit ==
  /\ sent = <<>>
  /\ eventBuffer = {}
  /\ expired = 0
  /\ client = [c \in Clients |-> "new"]
  /\ filter = [c \in Clients |-> AnySession]
  /\ replayed = [c \in Clients |-> {}]
  /\ live = [c \in Clients |-> <<>>]
  /\ joined = [c \in Clients |-> 0]
  /\ missed = [c \in Clients |-> 0]
  /\ left = [c \in Clients |-> 0]

\* shouldSendToClient
ShouldSendTo(f, session) == f = AnySession \/ f = session

\* The last n events of a part of the buffer.
Last(n, events) ==
  {e \in events : Cardinality({d \in events : d > e}) < n}

\* Mutant: the 20 newest of all are cut before the session is looked at.
ReplayBeforeFilter(f) ==
  {e \in Last(MaxReplay, eventBuffer) : ShouldSendTo(f, sent[e])}

\* Mutant: the first 20 are sent, not the last.
ReplayOldest(f) ==
  {e \in eventBuffer : /\ ShouldSendTo(f, sent[e])
                        /\ Cardinality({d \in eventBuffer : d < e /\ ShouldSendTo(f, sent[d])})
                             < MaxReplay}

\* sendBufferedEventsToClient
Replay(f) ==
  Last(MaxReplay, {e \in eventBuffer : ShouldSendTo(f, sent[e])})

\* addClient: all of it in one turn of the event loop.
AddClient(c, f) ==
  /\ client[c] = "new"
  /\ client' = [client EXCEPT ![c] = "connected"]
  /\ filter' = [filter EXCEPT ![c] = f]
  /\ replayed' = [replayed EXCEPT ![c] = Replay(f)]
  /\ joined' = [joined EXCEPT ![c] = Len(sent)]
  /\ missed' = [missed EXCEPT ![c] = expired]
  /\ UNCHANGED <<sent, eventBuffer, expired, live, left>>

\* The response is closed by the client, or fails.
RemoveClient(c) ==
  /\ client[c] = "connected"
  /\ client' = [client EXCEPT ![c] = "gone"]
  /\ left' = [left EXCEPT ![c] = Len(sent)]
  /\ UNCHANGED <<sent, eventBuffer, expired, filter, replayed, live, joined, missed>>

\* broadcastEvent and addToBuffer
BroadcastEvent(session) ==
  /\ Len(sent) < MaxEvents
  /\ sent' = Append(sent, session)
  /\ eventBuffer' = Last(MaxBufferSize, eventBuffer \cup {Len(sent) + 1})
  /\ live' = [c \in Clients |->
                IF client[c] = "connected" /\ ShouldSendTo(filter[c], session)
                THEN Append(live[c], Len(sent) + 1) ELSE live[c]]
  /\ UNCHANGED <<expired, client, filter, replayed, joined, missed, left>>

\* cleanupBuffer, every minute: what is older than the retention time goes.
CleanupBuffer(e) ==
  /\ e > expired
  /\ eventBuffer' = {d \in eventBuffer : d > e}
  /\ expired' = e
  /\ UNCHANGED <<sent, client, filter, replayed, live, joined, missed, left>>

\* shutdown: all clients are removed and the buffer is emptied.
StreamShutdown ==
  /\ eventBuffer' = {}
  /\ expired' = Len(sent)
  /\ client' = [c \in Clients |->
                  IF client[c] = "connected" THEN "gone" ELSE client[c]]
  /\ left' = [c \in Clients |->
                IF client[c] = "connected" THEN Len(sent) ELSE left[c]]
  /\ UNCHANGED <<sent, filter, replayed, live, joined, missed>>

StreamNext ==
  \/ \E c \in Clients : \/ \E f \in Sessions \cup {AnySession} : AddClient(c, f)
                        \/ RemoveClient(c)
  \/ \E s \in Sessions : BroadcastEvent(s)
  \/ \E e \in Event : CleanupBuffer(e)
  \/ StreamShutdown

StreamSpec == StreamInit /\ [][StreamNext]_streamVars

--------------------------------------------------------------------------
(* Properties *)

\* The events of a client's session among the given ones.
Matching(c, events) == {e \in events : ShouldSendTo(filter[c], sent[e])}

\* The end of a client's stream so far.
EndOf(c) == IF client[c] = "gone" THEN left[c] ELSE Len(sent)

\* Of the events of its session a connected client was sent each one exactly
\* once and in order.  Only its past may be cut: what it was sent on
\* connecting begins somewhere and goes on to the newest without a gap.
DeliveryIsGapless ==
  \A c \in Clients : client[c] # "new" =>
    /\ replayed[c] \subseteq Matching(c, 1 .. joined[c])
    /\ \A e \in replayed[c] : \A d \in Matching(c, e .. joined[c]) :
         d \in replayed[c]
    /\ \A i, j \in 1 .. Len(live[c]) : i < j => live[c][i] < live[c][j]
    /\ {live[c][i] : i \in 1 .. Len(live[c])} =
         Matching(c, joined[c] + 1 .. EndOf(c))

\* What a client is sent on connecting is short of no event that had not
\* expired, was among the MaxBufferSize newest of all sessions and among the
\* MaxReplay newest of its own: nothing but these limits costs it an event.
ReplayIsComplete ==
  \A c \in Clients : client[c] # "new" =>
    replayed[c] =
      Last(MaxReplay, Matching(c, {e \in missed[c] + 1 .. joined[c] :
                                     e + MaxBufferSize > joined[c]}))

\* What makes it so: the buffer holds the newest events that have not expired.
BufferIsNewest ==
  eventBuffer = {e \in expired + 1 .. Len(sent) : e + MaxBufferSize > Len(sent)}
============================================================================
