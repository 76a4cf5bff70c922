---------------------------- MODULE Board_proofs ----------------------------
(***************************************************************************)
(* Theorems about StreamManager, for any clients, sessions and limits of   *)
(* the buffer and of the replay, about Backup, for any processes of the    *)
(* script, and about the types of the components that MCBoard puts         *)
(* together.                                                               *)
(***************************************************************************)
EXTENDS MCBoard, TaskBoard_proofs, FiniteSetTheorems, SequenceTheorems

(* The last events of a set *)

\* The last events of a set are of the set, and later ones of the set are last
\* as well.
LEMMA LastIsUpward ==
  ASSUME NEW n \in Nat, NEW k \in Nat, NEW S \in SUBSET (1 .. k)
  PROVE  /\ Last(n, S) \subseteq S
         /\ \A e \in Last(n, S) : \A d \in S : d >= e => d \in Last(n, S)
<1>1. SUFFICES ASSUME NEW e \in Last(n, S), NEW d \in S, d >= e
               PROVE  Cardinality({x \in S : x > d}) < n
  BY DEF Last
<1>2. {x \in S : x > d} \subseteq {x \in S : x > e}
  <2>1. S \subseteq Int /\ e \in S
    BY DEF Last
  <2>2. ASSUME NEW x \in S, x > d
        PROVE  x > e
    <3>1. x \in Int /\ d \in Int /\ e \in Int
      BY <2>1
    <3> QED BY <1>1, <2>2, <3>1
  <2> QED BY <2>2
<1>3. IsFiniteSet(S) /\ IsFiniteSet({x \in S : x > e})
  <2>1. IsFiniteSet(1 .. k)
    BY FS_Interval
  <2>2. IsFiniteSet(S)
    BY <2>1, FS_Subset
  <2>3. {x \in S : x > e} \in SUBSET S
    OBVIOUS
  <2> QED BY <2>2, <2>3, FS_Subset
<1>4. /\ Cardinality({x \in S : x > d}) <= Cardinality({x \in S : x > e})
      /\ IsFiniteSet({x \in S : x > d})
  BY <1>2, <1>3, FS_Subset
<1>5. /\ Cardinality({x \in S : x > d}) \in Nat
      /\ Cardinality({x \in S : x > e}) \in Nat
  BY <1>3, <1>4, FS_CardinalityType
<1>6. Cardinality({x \in S : x > e}) < n
  BY <1>1 DEF Last
<1> QED BY <1>4, <1>5, <1>6

\* The last of the newest events.
LEMMA LastOfNewest ==
  ASSUME NEW n \in Nat, NEW k \in Nat, NEW m \in Nat \ {0}, n <= k
  PROVE  Last(m, {e \in n + 1 .. k : e + m > k} \cup {k + 1})
           = {e \in n + 1 .. k + 1 : e + m > k + 1}
<1> DEFINE S == {e \in n + 1 .. k : e + m > k} \cup {k + 1}
<1>1. S = {e \in n + 1 .. k + 1 : e + m > k}
  OBVIOUS
<1>2. \A e \in S : Cardinality({d \in S : d > e}) = k + 1 - e
  <2> TAKE e \in S
  <2>1. e \in Int /\ e <= k + 1
    BY <1>1
  <2>2. {d \in S : d > e} = e + 1 .. k + 1
    BY <1>1
  <2>3. Cardinality(e + 1 .. k + 1) = IF e + 1 > k + 1 THEN 0
                                     ELSE (k + 1) - (e + 1) + 1
    BY <2>1, FS_Interval
  <2>4. Cardinality({d \in S : d > e}) = Cardinality(e + 1 .. k + 1)
    BY <2>2
  <2>5. Cardinality(e + 1 .. k + 1) = k + 1 - e
    BY <2>1, <2>3
  <2> QED BY <2>4, <2>5
<1>3. \A e \in S : Cardinality({d \in S : d > e}) < m <=> e + m > k + 1
  BY <1>1, <1>2
<1>4. Last(m, S) = {e \in S : e + m > k + 1}
  BY <1>3 DEF Last
<1> HIDE DEF S
<1>5. {e \in S : e + m > k + 1} = {e \in n + 1 .. k + 1 : e + m > k + 1}
  BY <1>1
<1> QED BY <1>4, <1>5 DEF S

\* A later event at the end of a sequence of events in order.
LEMMA GrowsInOrder ==
  ASSUME NEW m \in Nat, NEW n \in Nat, NEW a, NEW b,
         \A i \in 1 .. m : a[i] \in 1 .. n /\ b[i] = a[i], b[m + 1] = n + 1,
         \A i, j \in 1 .. m : i < j => a[i] < a[j]
  PROVE  /\ \A i, j \in 1 .. m + 1 : i < j => b[i] < b[j]
         /\ {b[i] : i \in 1 .. m + 1} = {a[i] : i \in 1 .. m} \cup {n + 1}
<1>1. ASSUME NEW i \in 1 .. m + 1, NEW j \in 1 .. m + 1, i < j
      PROVE  b[i] < b[j]
  <2>1. i \in 1 .. m /\ b[i] = a[i] /\ a[i] \in 1 .. n
    BY <1>1
  <2>2. CASE j \in 1 .. m
    BY <1>1, <2>1, <2>2
  <2>3. CASE j = m + 1
    BY <2>1, <2>3
  <2> QED BY <2>2, <2>3
<1>2. \A i \in 1 .. m + 1 : i \in 1 .. m \/ i = m + 1
  OBVIOUS
<1>3. 1 .. m \subseteq 1 .. m + 1 /\ m + 1 \in 1 .. m + 1
  OBVIOUS
<1>4. {b[i] : i \in 1 .. m + 1} = {a[i] : i \in 1 .. m} \cup {n + 1}
  BY <1>2, <1>3
<1> QED BY <1>1, <1>4

--------------------------------------------------------------------------
(* The invariant, client by client *)

\* The parts of the properties that are about one client.
PastIsGapless(c) ==
  /\ replayed[c] \subseteq Matching(c, 1 .. joined[c])
  /\ \A e \in replayed[c] : \A d \in Matching(c, e .. joined[c]) : d \in replayed[c]

LiveIsGapless(c) ==
  /\ \A i, j \in 1 .. Len(live[c]) : i < j => live[c][i] < live[c][j]
  /\ {live[c][i] : i \in 1 .. Len(live[c])} = Matching(c, joined[c] + 1 .. EndOf(c))

PastIsComplete(c) ==
  replayed[c] = Last(MaxReplay, Matching(c, {e \in missed[c] + 1 .. joined[c] :
                                               e + MaxBufferSize > joined[c]}))

ClientIsServed(c) ==
  IF client[c] = "new" THEN live[c] = <<>>
  ELSE PastIsGapless(c) /\ LiveIsGapless(c) /\ PastIsComplete(c)

StreamInv ==
  /\ StreamTypeOK
  /\ BufferIsNewest
  /\ \A c \in Clients : ClientIsServed(c)

LEMMA ClientTypes ==
  ASSUME StreamTypeOK, NEW c \in Clients
  PROVE  /\ Len(sent) \in Nat
         /\ joined[c] \in 0 .. Len(sent) /\ missed[c] \in 0 .. Len(sent)
         /\ left[c] \in 0 .. Len(sent) /\ EndOf(c) \in 0 .. Len(sent)
         /\ live[c] \in Seq(1 .. Len(sent)) /\ Len(live[c]) \in Nat
         /\ \A i \in 1 .. Len(live[c]) : live[c][i] \in 1 .. Len(sent)
<1>1. Len(sent) \in Nat
  BY DEF StreamTypeOK
<1>2. live[c] \in Seq(1 .. Len(sent))
  BY DEF StreamTypeOK, Event
<1> QED BY <1>1, <1>2, ElementOfSeq DEF StreamTypeOK, EndOf

\* What was replayed to a client stays right while events are added.
LEMMA PastStays ==
  ASSUME StreamTypeOK, NEW c \in Clients, PastIsGapless(c), PastIsComplete(c),
         filter'[c] = filter[c], replayed'[c] = replayed[c],
         joined'[c] = joined[c], missed'[c] = missed[c],
         \A e \in 1 .. Len(sent) : sent'[e] = sent[e]
  PROVE  PastIsGapless(c)' /\ PastIsComplete(c)'
<1>1. /\ Len(sent) \in Nat /\ joined[c] \in 0 .. Len(sent)
      /\ missed[c] \in 0 .. Len(sent) /\ replayed[c] \subseteq 1 .. Len(sent)
  BY DEF StreamTypeOK, Event
<1>2. \A e \in 1 .. Len(sent) :
        ShouldSendTo(filter'[c], sent'[e]) <=> ShouldSendTo(filter[c], sent[e])
  BY DEF ShouldSendTo
<1>3. Matching(c, 1 .. joined[c])' = Matching(c, 1 .. joined[c])
  BY <1>1, <1>2 DEF Matching
<1>4. \A e \in replayed[c] : \A d \in e .. joined[c] :
        ShouldSendTo(filter'[c], sent'[d]) => d \in replayed[c]
  BY <1>1, <1>2 DEF PastIsGapless, Matching
<1>5. PastIsGapless(c)'
  BY <1>3, <1>4 DEF PastIsGapless, Matching
<1>6. {e \in missed[c] + 1 .. joined[c] : e + MaxBufferSize > joined[c]}
        \subseteq 1 .. Len(sent)
  BY <1>1
<1>7. Matching(c, {e \in missed[c] + 1 .. joined[c] :
                     e + MaxBufferSize > joined[c]})'
        = Matching(c, {e \in missed[c] + 1 .. joined[c] :
                         e + MaxBufferSize > joined[c]})
  BY <1>2, <1>6 DEF Matching
<1> QED BY <1>5, <1>7 DEF PastIsComplete

\* So does what it was sent afterwards while there is nothing to add.
LEMMA LiveStays ==
  ASSUME StreamTypeOK, NEW c \in Clients, LiveIsGapless(c),
         filter'[c] = filter[c], live'[c] = live[c], joined'[c] = joined[c],
         EndOf(c)' = EndOf(c), \A e \in 1 .. Len(sent) : sent'[e] = sent[e]
  PROVE  LiveIsGapless(c)'
<1>1. joined[c] + 1 .. EndOf(c) \subseteq 1 .. Len(sent)
  BY ClientTypes
<1>2. \A e \in 1 .. Len(sent) :
        ShouldSendTo(filter'[c], sent'[e]) <=> ShouldSendTo(filter[c], sent[e])
  BY DEF ShouldSendTo
<1>3. Matching(c, joined[c] + 1 .. EndOf(c))' = Matching(c, joined[c] + 1 .. EndOf(c))
  BY <1>1, <1>2 DEF Matching
<1> QED BY <1>3 DEF LiveIsGapless

\* A step that changes nothing of a client but, maybe, that it is connected.
LEMMA ServedStays ==
  ASSUME StreamTypeOK, NEW c \in Clients, ClientIsServed(c),
         filter'[c] = filter[c], replayed'[c] = replayed[c], live'[c] = live[c],
         joined'[c] = joined[c], missed'[c] = missed[c],
         client'[c] = "new" <=> client[c] = "new",
         client[c] # "new" => EndOf(c)' = EndOf(c),
         \A e \in 1 .. Len(sent) : sent'[e] = sent[e]
  PROVE  ClientIsServed(c)'
<1>1. CASE client[c] = "new"
  BY <1>1 DEF ClientIsServed
<1>2. CASE client[c] # "new"
  BY <1>2, PastStays, LiveStays DEF ClientIsServed
<1> QED BY <1>1, <1>2

--------------------------------------------------------------------------
(* The invariant, action by action *)

LEMMA AddClientKeeps ==
  ASSUME StreamInv, NEW c \in Clients, NEW f \in Sessions \cup {AnySession},
         AddClient(c, f)
  PROVE  StreamInv'
<1> DEFINE n == Len(sent)
<1> DEFINE mine == {e \in eventBuffer : ShouldSendTo(f, sent[e])}
<1>1. /\ n \in Nat /\ eventBuffer \subseteq 1 .. n /\ expired \in 0 .. n
      /\ MaxReplay \in Nat /\ MaxBufferSize \in Nat
      /\ UNCHANGED <<sent, eventBuffer, expired, live, left>>
  BY StreamAssumption DEF StreamInv, StreamTypeOK, Event, AddClient
<1>2. /\ client[c] = "new" /\ client'[c] = "connected" /\ filter'[c] = f
      /\ replayed'[c] = Replay(f) /\ joined'[c] = n /\ missed'[c] = expired
  BY DEF StreamInv, StreamTypeOK, AddClient
<1>3. mine \in SUBSET (1 .. n) /\ Replay(f) = Last(MaxReplay, mine)
  BY <1>1 DEF Replay
<1>4. /\ Replay(f) \subseteq mine
      /\ \A e \in Replay(f) : \A d \in mine : d >= e => d \in Replay(f)
  <2> HIDE DEF mine, n
  <2>1. n \in Nat /\ MaxReplay \in Nat
    BY <1>1
  <2>2. /\ Last(MaxReplay, mine) \subseteq mine
        /\ \A e \in Last(MaxReplay, mine) : \A d \in mine :
             d >= e => d \in Last(MaxReplay, mine)
    BY <1>3, <2>1, LastIsUpward
  <2> QED BY <1>3, <2>2
<1>5. StreamTypeOK'
  <2>1. Replay(f) \in SUBSET (1 .. n) /\ n \in 0 .. n
    BY <1>1, <1>3, <1>4
  <2>2. /\ replayed' \in [Clients -> SUBSET (1 .. n)]
        /\ joined' \in [Clients -> 0 .. n] /\ missed' \in [Clients -> 0 .. n]
        /\ filter' \in [Clients -> Sessions \cup {AnySession}]
        /\ client' \in [Clients -> {"new", "connected", "gone"}]
    BY <1>1, <2>1 DEF StreamInv, StreamTypeOK, Event, AddClient
  <2> QED BY <1>1, <2>2 DEF StreamInv, StreamTypeOK, Event
<1>6. BufferIsNewest'
  BY <1>1 DEF StreamInv, BufferIsNewest
<1>7. eventBuffer = {e \in expired + 1 .. n : e + MaxBufferSize > n}
  BY DEF StreamInv, BufferIsNewest
<1>8. PastIsGapless(c)'
  <2>1. Replay(f) \subseteq {e \in 1 .. n : ShouldSendTo(f, sent[e])}
    BY <1>3, <1>4
  <2>2. ASSUME NEW e \in Replay(f), NEW d \in e .. n, ShouldSendTo(f, sent[d])
        PROVE  d \in Replay(f)
    <3>1. e \in eventBuffer /\ d >= e
      BY <1>4, <1>1, <2>2
    <3>2. d \in eventBuffer
      BY <1>1, <1>7, <2>2, <3>1
    <3> QED BY <1>4, <2>2, <3>1, <3>2
  <2> QED BY <1>1, <1>2, <2>1, <2>2 DEF PastIsGapless, Matching
<1>9. PastIsComplete(c)'
  BY <1>1, <1>2, <1>3, <1>7 DEF PastIsComplete, Matching
<1>10. LiveIsGapless(c)'
  <2>1. live'[c] = <<>>
    BY <1>1, <1>2 DEF StreamInv, ClientIsServed
  <2>2. EndOf(c)' = n
    BY <1>1, <1>2 DEF EndOf
  <2>3. joined'[c] + 1 .. EndOf(c)' = {}
    BY <1>1, <1>2, <2>2
  <2> QED BY <2>1, <2>3 DEF LiveIsGapless, Matching
<1>11. ASSUME NEW b \in Clients, b # c
       PROVE  ClientIsServed(b)'
  <2>1. /\ filter'[b] = filter[b] /\ replayed'[b] = replayed[b]
        /\ live'[b] = live[b] /\ joined'[b] = joined[b]
        /\ missed'[b] = missed[b] /\ client'[b] = client[b]
    BY <1>11 DEF AddClient, StreamInv, StreamTypeOK
  <2>2. EndOf(b)' = EndOf(b)
    BY <1>1, <2>1 DEF EndOf
  <2> QED BY <1>1, <2>1, <2>2, ServedStays DEF StreamInv
<1>12. ClientIsServed(c)'
  BY <1>2, <1>8, <1>9, <1>10 DEF ClientIsServed
<1> QED BY <1>5, <1>6, <1>11, <1>12 DEF StreamInv

LEMMA RemoveClientKeeps ==
  ASSUME StreamInv, NEW c \in Clients, RemoveClient(c)
  PROVE  StreamInv'
<1>1. UNCHANGED <<sent, eventBuffer, expired, filter, replayed, live, joined, missed>>
  BY DEF RemoveClient
<1>2. StreamTypeOK'
  <2>1. Len(sent) \in Nat
    BY DEF StreamInv, StreamTypeOK
  <2> QED BY <1>1, <2>1 DEF RemoveClient, StreamInv, StreamTypeOK, Event
<1>3. BufferIsNewest'
  BY <1>1 DEF StreamInv, BufferIsNewest
<1>4. ASSUME NEW b \in Clients
      PROVE  ClientIsServed(b)'
  <2>1. /\ client'[b] = "new" <=> client[b] = "new"
        /\ EndOf(b)' = EndOf(b)
    BY <1>1 DEF RemoveClient, EndOf, StreamInv, StreamTypeOK
  <2> QED BY <1>1, <2>1, ServedStays DEF StreamInv
<1> QED BY <1>2, <1>3, <1>4 DEF StreamInv

\* A connected client is sent a new event if it is one of its session.
LEMMA LiveGrows ==
  ASSUME StreamInv, NEW c \in Clients, NEW session \in Sessions,
         BroadcastEvent(session), client[c] = "connected"
  PROVE  LiveIsGapless(c)'
<1> DEFINE n == Len(sent)
<1>1. /\ n \in Nat /\ joined[c] \in 0 .. n /\ EndOf(c) = n
      /\ Len(live[c]) \in Nat /\ live[c] \in Seq(1 .. n)
      /\ \A i \in 1 .. Len(live[c]) : live[c][i] \in 1 .. n
  BY ClientTypes DEF StreamInv, EndOf
<1>2. /\ Len(sent') = n + 1 /\ sent'[n + 1] = session
      /\ \A e \in 1 .. n : sent'[e] = sent[e]
  BY AppendProperties DEF BroadcastEvent, StreamInv, StreamTypeOK
<1>3. EndOf(c)' = n + 1 /\ UNCHANGED <<filter, joined>>
  BY <1>2 DEF BroadcastEvent, EndOf
<1>4. /\ \A i, j \in 1 .. Len(live[c]) : i < j => live[c][i] < live[c][j]
      /\ {live[c][i] : i \in 1 .. Len(live[c])}
           = {e \in joined[c] + 1 .. n : ShouldSendTo(filter[c], sent[e])}
  BY <1>1 DEF StreamInv, ClientIsServed, LiveIsGapless, Matching
<1>5. Matching(c, joined[c] + 1 .. EndOf(c))'
        = {e \in joined[c] + 1 .. n + 1 : ShouldSendTo(filter[c], sent'[e])}
  BY <1>3 DEF Matching
<1>6. {e \in joined[c] + 1 .. n : ShouldSendTo(filter[c], sent'[e])}
        = {e \in joined[c] + 1 .. n : ShouldSendTo(filter[c], sent[e])}
  BY <1>1, <1>2
<1>7. CASE ShouldSendTo(filter[c], session)
  <2>1. live'[c] = Append(live[c], n + 1)
    BY <1>7 DEF BroadcastEvent
  <2>2. live[c] \in Seq(1 .. n + 1) /\ n + 1 \in 1 .. n + 1
    BY <1>1, SeqMonotonic
  <2>3. /\ Len(live'[c]) = Len(live[c]) + 1
        /\ \A i \in 1 .. Len(live[c]) : live'[c][i] = live[c][i]
        /\ live'[c][Len(live[c]) + 1] = n + 1
    BY <2>1, <2>2, AppendProperties
  <2>4. /\ \A i, j \in 1 .. Len(live[c]) + 1 : i < j => live'[c][i] < live'[c][j]
        /\ {live'[c][i] : i \in 1 .. Len(live[c]) + 1}
             = {live[c][i] : i \in 1 .. Len(live[c])} \cup {n + 1}
    <3> DEFINE a == live[c]
    <3> DEFINE b == live'[c]
    <3> DEFINE m == Len(live[c])
    <3>1. /\ m \in Nat /\ n \in Nat /\ b[m + 1] = n + 1
          /\ \A i \in 1 .. m : a[i] \in 1 .. n /\ b[i] = a[i]
          /\ \A i, j \in 1 .. m : i < j => a[i] < a[j]
      BY <1>1, <1>4, <2>3
    <3> HIDE DEF a, b, m, n
    <3>2. \A i, j \in 1 .. m + 1 : i < j => b[i] < b[j]
      BY <3>1, GrowsInOrder
    <3>3. {b[i] : i \in 1 .. m + 1} = {a[i] : i \in 1 .. m} \cup {n + 1}
      BY <3>1, GrowsInOrder
    <3> QED BY <3>2, <3>3 DEF a, b, m
  <2>5. {live'[c][i] : i \in 1 .. Len(live'[c])}
          = {live[c][i] : i \in 1 .. Len(live[c])} \cup {n + 1}
    BY <2>3, <2>4
  <2>6. {e \in joined[c] + 1 .. n + 1 : ShouldSendTo(filter[c], sent'[e])}
          = {e \in joined[c] + 1 .. n : ShouldSendTo(filter[c], sent'[e])} \cup {n + 1}
    BY <1>1, <1>2, <1>7
  <2>7. {live'[c][i] : i \in 1 .. Len(live'[c])}
          = Matching(c, joined[c] + 1 .. EndOf(c))'
    BY <1>4, <1>5, <1>6, <2>5, <2>6
  <2> QED BY <2>3, <2>4, <2>7 DEF LiveIsGapless
<1>8. CASE ~ShouldSendTo(filter[c], session)
  <2>1. live'[c] = live[c]
    BY <1>8 DEF BroadcastEvent
  <2>2. {e \in joined[c] + 1 .. n + 1 : ShouldSendTo(filter[c], sent'[e])}
          = {e \in joined[c] + 1 .. n : ShouldSendTo(filter[c], sent'[e])}
    BY <1>1, <1>2, <1>8
  <2> QED BY <1>4, <1>5, <1>6, <2>1, <2>2 DEF LiveIsGapless
<1> QED BY <1>7, <1>8

LEMMA BroadcastEventKeeps ==
  ASSUME StreamInv, NEW session \in Sessions, BroadcastEvent(session)
  PROVE  StreamInv'
<1> DEFINE n == Len(sent)
<1>1. /\ sent' \in Seq(Sessions)
      /\ Len(sent') = n + 1 /\ \A e \in 1 .. n : sent'[e] = sent[e]
  BY AppendProperties DEF BroadcastEvent, StreamInv, StreamTypeOK
<1>2. /\ n \in Nat /\ expired \in 0 .. n /\ 1 .. n \subseteq 1 .. n + 1
      /\ UNCHANGED <<expired, client, filter, replayed, joined, missed, left>>
  BY DEF BroadcastEvent, StreamInv, StreamTypeOK
<1>3. eventBuffer' = {e \in expired + 1 .. n + 1 : e + MaxBufferSize > n + 1}
  BY <1>2, StreamAssumption, LastOfNewest
     DEF BroadcastEvent, StreamInv, BufferIsNewest
<1>4. BufferIsNewest'
  BY <1>1, <1>2, <1>3 DEF BufferIsNewest
<1>5. live' \in [Clients -> Seq(1 .. n + 1)]
  <2>1. ASSUME NEW c \in Clients
        PROVE  /\ live[c] \in Seq(1 .. n + 1)
               /\ Append(live[c], n + 1) \in Seq(1 .. n + 1)
    <3>1. live[c] \in Seq(1 .. n)
      BY DEF StreamInv, StreamTypeOK, Event
    <3>2. live[c] \in Seq(1 .. n + 1) /\ n + 1 \in 1 .. n + 1
      BY <1>2, <3>1, SeqMonotonic
    <3> QED BY <3>2, AppendProperties
  <2> QED BY <2>1 DEF BroadcastEvent
<1>6. StreamTypeOK'
  <2>1. eventBuffer' \subseteq 1 .. n + 1
    BY <1>2, <1>3
  <2>2. replayed \in [Clients -> SUBSET (1 .. n + 1)]
    BY <1>2 DEF StreamInv, StreamTypeOK, Event
  <2>3. 0 .. n \subseteq 0 .. n + 1
    BY <1>2
  <2>4. /\ joined \in [Clients -> 0 .. n + 1] /\ missed \in [Clients -> 0 .. n + 1]
        /\ left \in [Clients -> 0 .. n + 1] /\ expired \in 0 .. n + 1
    BY <2>3 DEF StreamInv, StreamTypeOK
  <2> QED BY <1>1, <1>2, <1>5, <2>1, <2>2, <2>4 DEF StreamInv, StreamTypeOK, Event
<1>7. ASSUME NEW c \in Clients
      PROVE  ClientIsServed(c)'
  <2>1. client[c] \in {"new", "connected", "gone"}
    BY DEF StreamInv, StreamTypeOK
  <2>2. CASE client[c] = "connected"
    <3>1. PastIsGapless(c)' /\ PastIsComplete(c)'
      BY <1>1, <1>2, <2>2, PastStays DEF StreamInv, ClientIsServed
    <3> QED BY <1>2, <2>2, <3>1, LiveGrows DEF ClientIsServed
  <2>3. CASE client[c] # "connected"
    <3>1. live'[c] = live[c]
      BY <2>3 DEF BroadcastEvent
    <3>2. client[c] # "new" => EndOf(c)' = EndOf(c)
      BY <1>2, <2>1, <2>3 DEF EndOf
    <3> QED BY <1>1, <1>2, <3>1, <3>2, ServedStays DEF StreamInv
  <2> QED BY <2>2, <2>3
<1> QED BY <1>4, <1>6, <1>7 DEF StreamInv

LEMMA CleanupBufferKeeps ==
  ASSUME StreamInv, NEW e \in Event, CleanupBuffer(e)
  PROVE  StreamInv'
<1>1. /\ Len(sent) \in Nat /\ expired \in 0 .. Len(sent) /\ e \in 1 .. Len(sent)
      /\ e > expired /\ expired' = e
      /\ UNCHANGED <<sent, client, filter, replayed, live, joined, missed, left>>
  BY DEF StreamInv, StreamTypeOK, CleanupBuffer, Event
<1>2. StreamTypeOK'
  <2>1. eventBuffer' \subseteq eventBuffer
    BY DEF CleanupBuffer
  <2>2. expired' \in 0 .. Len(sent)
    BY <1>1
  <2> QED BY <1>1, <2>1, <2>2 DEF StreamInv, StreamTypeOK, Event
<1>3. BufferIsNewest'
  BY <1>1 DEF StreamInv, BufferIsNewest, CleanupBuffer
<1>4. ASSUME NEW c \in Clients
      PROVE  ClientIsServed(c)'
  <2>1. EndOf(c)' = EndOf(c)
    BY <1>1 DEF EndOf
  <2> QED BY <1>1, <2>1, ServedStays DEF StreamInv
<1> QED BY <1>2, <1>3, <1>4 DEF StreamInv

LEMMA StreamShutdownKeeps ==
  ASSUME StreamInv, StreamShutdown
  PROVE  StreamInv'
<1>1. /\ Len(sent) \in Nat /\ expired' = Len(sent) /\ eventBuffer' = {}
      /\ UNCHANGED <<sent, filter, replayed, live, joined, missed>>
  BY DEF StreamInv, StreamTypeOK, StreamShutdown
<1>2. StreamTypeOK'
  <2>1. /\ client' \in [Clients -> {"new", "connected", "gone"}]
        /\ left' \in [Clients -> 0 .. Len(sent)]
    BY <1>1 DEF StreamInv, StreamTypeOK, StreamShutdown
  <2> QED BY <1>1, <2>1 DEF StreamInv, StreamTypeOK, Event
<1>3. BufferIsNewest'
  <2>1. Len(sent) + 1 .. Len(sent) = {}
    BY <1>1
  <2> QED BY <1>1, <2>1 DEF BufferIsNewest
<1>4. ASSUME NEW c \in Clients
      PROVE  ClientIsServed(c)'
  <2>1. /\ client'[c] = "new" <=> client[c] = "new"
        /\ EndOf(c)' = EndOf(c)
    BY <1>1 DEF StreamShutdown, EndOf, StreamInv, StreamTypeOK
  <2> QED BY <1>1, <2>1, ServedStays DEF StreamInv
<1> QED BY <1>2, <1>3, <1>4 DEF StreamInv

LEMMA StreamStutters ==
  ASSUME StreamInv, UNCHANGED streamVars
  PROVE  StreamInv'
<1> USE DEF streamVars
<1>1. StreamTypeOK' /\ BufferIsNewest'
  BY DEF StreamInv, StreamTypeOK, Event, BufferIsNewest
<1>2. ASSUME NEW c \in Clients
      PROVE  ClientIsServed(c)'
  <2>1. EndOf(c)' = EndOf(c)
    BY DEF EndOf
  <2> QED BY <2>1, ServedStays DEF StreamInv
<1> QED BY <1>1, <1>2 DEF StreamInv

--------------------------------------------------------------------------
(* Theorems *)

LEMMA StreamStart == StreamInit => StreamInv
<1> SUFFICES ASSUME StreamInit PROVE StreamInv
  OBVIOUS
<1>1. Len(sent) = 0 /\ 1 .. 0 = {}
  BY DEF StreamInit
<1>2. StreamTypeOK
  BY <1>1 DEF StreamInit, StreamTypeOK, Event
<1>3. BufferIsNewest
  BY <1>1 DEF StreamInit, BufferIsNewest
<1> QED BY <1>2, <1>3 DEF StreamInit, StreamInv, ClientIsServed

LEMMA StreamStep == StreamInv /\ [StreamNext]_streamVars => StreamInv'
BY AddClientKeeps, RemoveClientKeeps, BroadcastEventKeeps, CleanupBufferKeeps,
   StreamShutdownKeeps, StreamStutters DEF StreamNext

\* The types, that the buffer holds the newest events that have not expired,
\* and that every client is served from it, in all states.
THEOREM StreamInductive == StreamSpec => []StreamInv
BY StreamStart, StreamStep, PTL DEF StreamSpec

\* Whatever is broadcast, cleaned up and shut down while clients come and go,
\* no client misses an event between two that it is sent, or gets one twice.
THEOREM DeliveryGapless == StreamSpec => []DeliveryIsGapless
<1>1. StreamInv => DeliveryIsGapless
  BY DEF StreamInv, ClientIsServed, PastIsGapless, LiveIsGapless, DeliveryIsGapless
<1> QED BY <1>1, StreamInductive, PTL

\* Nothing but the limits of the buffer and of the replay costs a client that
\* connects an event of its session.
THEOREM ReplayComplete == StreamSpec => []ReplayIsComplete
<1>1. StreamInv => ReplayIsComplete
  BY DEF StreamInv, ClientIsServed, PastIsComplete, ReplayIsComplete
<1> QED BY <1>1, StreamInductive, PTL

--------------------------------------------------------------------------
(* Backup *)

LEMMA BackupStart == BackupInit => BackupInv
BY BackupAssumption
   DEF BackupInit, BackupInv, BackupTypeOK, Time, Tool, IdleTool, RestoreIsUndoable,
       AboutToReplaceKept

LEMMA TickProperties ==
  ASSUME now \in Time, Tick
  PROVE  now' \in Time
BY BackupAssumption DEF Tick, Time

\* A step of a process of the script leaves it with a state of its own.
LEMMA ToolTypes ==
  ASSUME BackupTypeOK, NEW p \in Tools, NEW b \in BackupFile
  PROVE  /\ IdleTool \in Tool
         /\ [tool EXCEPT ![p].at = "list"] \in [Tools -> Tool]
         /\ [tool EXCEPT ![p].at = "restore", ![p].listed = {b}] \in [Tools -> Tool]
         /\ [tool EXCEPT ![p].doomed = @ \ {b}] \in [Tools -> Tool]
         /\ [tool EXCEPT ![p] = IdleTool] \in [Tools -> Tool]
BY DEF BackupTypeOK, Tool, IdleTool

\* A step that neither loses a backup nor replaces the database.
LEMMA StepKeepsBackups ==
  ASSUME BackupInv, BackupTypeOK', backups \subseteq backups', excused \subseteq excused',
         replaced' = replaced, AboutToReplaceKept'
  PROVE  BackupInv'
<1>1. \A x : Kept(x) => Kept(x)'
  BY DEF Kept
<1>2. RestoreIsUndoable'
  BY <1>1 DEF BackupInv, RestoreIsUndoable, Kept
<1> QED BY <1>2 DEF BackupInv

LEMMA WriteDatabaseKeeps ==
  ASSUME BackupInv, WriteDatabase
  PROVE  BackupInv'
<1>1. now' \in Time
  BY TickProperties DEF WriteDatabase, BackupInv, BackupTypeOK
<1>2. BackupTypeOK'
  BY <1>1 DEF WriteDatabase, BackupInv, BackupTypeOK
<1>3. AboutToReplaceKept'
  BY DEF WriteDatabase, AboutToReplaceKept, Kept
<1> QED BY <1>2, <1>3, StepKeepsBackups DEF WriteDatabase

\* A new backup holds what is in the database, so that a restore may follow.
LEMMA SaveKeeps ==
  ASSUME BackupInv, NEW p \in Tools, NEW kind \in BackupKind, Tick,
         backups' = backups \cup {[kind |-> kind, at |-> now', holds |-> db]},
         tool' \in [Tools -> Tool], UNCHANGED <<db, replaced, excused>>
  PROVE  BackupInv'
<1> DEFINE saved == [kind |-> kind, at |-> now', holds |-> db]
<1>1. now' \in Time /\ db \in Time
  BY TickProperties DEF BackupInv, BackupTypeOK
<1>2. saved \in BackupFile
  BY <1>1 DEF BackupFile
<1>3. BackupTypeOK'
  BY <1>1, <1>2 DEF BackupInv, BackupTypeOK
<1>4. saved \in backups' /\ saved.holds = db'
  OBVIOUS
<1>5. db' \in {b.holds : b \in backups'}
  BY <1>4
<1>6. AboutToReplaceKept'
  BY <1>5 DEF AboutToReplaceKept, Kept
<1> QED BY <1>3, <1>6, StepKeepsBackups

\* Backups go one by one, and are excused.
LEMMA DropKeeps ==
  ASSUME BackupInv, NEW b \in backups, backups' = backups \ {b},
         excused' = excused \cup {b.holds}, tool' \in [Tools -> Tool],
         \A p \in Tools : tool'[p].at = "restore" => tool[p].at = "restore",
         UNCHANGED <<now, db, replaced>>
  PROVE  BackupInv'
<1>1. b.holds \in Time
  BY DEF BackupInv, BackupTypeOK, BackupFile
<1>2. BackupTypeOK'
  BY <1>1 DEF BackupInv, BackupTypeOK
<1>3. ASSUME NEW x, Kept(x)
      PROVE  Kept(x)'
  <2>1. CASE x \in excused
    BY <2>1 DEF Kept
  <2>2. CASE x \notin excused
    <3>1. PICK c \in backups : x = c.holds
      BY <1>3, <2>2 DEF Kept
    <3>2. CASE c = b
      BY <3>1, <3>2 DEF Kept
    <3>3. CASE c # b
      <4>1. c \in backups'
        BY <3>3
      <4>2. x \in {d.holds : d \in backups'}
        BY <3>1, <4>1
      <4> QED BY <4>2 DEF Kept
    <3> QED BY <3>2, <3>3
  <2> QED BY <2>1, <2>2
<1>4. RestoreIsUndoable'
  BY <1>3 DEF BackupInv, RestoreIsUndoable, Kept
<1>5. AboutToReplaceKept'
  BY <1>3 DEF BackupInv, AboutToReplaceKept
<1> QED BY <1>2, <1>4, <1>5 DEF BackupInv

LEMMA OverwriteDatabaseKeeps ==
  ASSUME BackupInv, NEW p \in Tools, NEW b \in backups, OverwriteDatabase(p, b)
  PROVE  BackupInv'
<1>1. /\ tool[p].at = "restore" /\ db' = b.holds /\ replaced' = replaced \cup {db}
      /\ UNCHANGED <<now, backups, excused>>
  BY DEF OverwriteDatabase
<1>2. b \in BackupFile
  BY DEF BackupInv, BackupTypeOK
<1>3. BackupTypeOK'
  <2>1. tool' \in [Tools -> Tool]
    BY <1>2, ToolTypes DEF OverwriteDatabase, BackupInv
  <2>2. b.holds \in Time
    BY <1>2 DEF BackupFile
  <2> QED BY <1>1, <2>1, <2>2 DEF BackupInv, BackupTypeOK
<1>4. Kept(db)
  BY <1>1 DEF BackupInv, AboutToReplaceKept
<1>5. RestoreIsUndoable'
  BY <1>1, <1>4 DEF BackupInv, RestoreIsUndoable, Kept
<1>6. db' \in {c.holds : c \in backups'}
  BY <1>1
<1>7. AboutToReplaceKept'
  BY <1>6 DEF AboutToReplaceKept, Kept
<1> QED BY <1>3, <1>5, <1>7 DEF BackupInv

LEMMA BackupStep == BackupInv /\ [BackupNext]_backupVars => BackupInv'
<1> SUFFICES ASSUME BackupInv, [BackupNext]_backupVars PROVE BackupInv'
  OBVIOUS
<1>1. backups \subseteq BackupFile
  BY DEF BackupInv, BackupTypeOK
<1>2. ASSUME NEW p \in Tools, NEW kind \in BackupKind, CreateBackup(p, kind)
      PROVE  BackupInv'
  <2>1. [tool EXCEPT ![p].at = "list"] \in [Tools -> Tool]
    BY DEF BackupInv, BackupTypeOK, Tool
  <2> QED BY <1>2, <2>1, SaveKeeps DEF CreateBackup
<1>3. ASSUME NEW p \in Tools, NEW b \in backups, SaveBeforeRestore(p, b)
      PROVE  BackupInv'
  <2>1. tool' \in [Tools -> Tool]
    BY <1>1, <1>3, ToolTypes DEF SaveBeforeRestore, BackupInv
  <2>2. "auto" \in BackupKind
    BY DEF BackupKind
  <2> QED BY <1>3, <2>1, <2>2, SaveKeeps DEF SaveBeforeRestore
<1>4. ASSUME NEW p \in Tools, NEW b \in backups, CleanBackup(p, b)
      PROVE  BackupInv'
  <2>1. tool' \in [Tools -> Tool]
    BY <1>1, <1>4, ToolTypes DEF CleanBackup, BackupInv
  <2>2. \A q \in Tools : tool'[q].at = tool[q].at
    BY <1>4 DEF CleanBackup, BackupInv, BackupTypeOK, Tool
  <2> QED BY <1>4, <2>1, <2>2, DropKeeps DEF CleanBackup
<1>5. ASSUME NEW b \in backups, DeleteBackup(b)
      PROVE  BackupInv'
  BY <1>5, DropKeeps DEF DeleteBackup, BackupInv, BackupTypeOK
<1>6. ASSUME NEW p \in Tools, ListBackups(p) \/ EndClean(p) \/ KillTool(p)
      PROVE  BackupInv'
  <2>1. Doomed(backups) \subseteq BackupFile
    BY <1>1 DEF Doomed
  <2>2. /\ IdleTool \in Tool
        /\ [at |-> "clean", listed |-> backups, doomed |-> Doomed(backups)] \in Tool
    BY <1>1, <2>1 DEF Tool, IdleTool
  <2>3. /\ tool' \in [Tools -> Tool] /\ tool'[p].at # "restore"
        /\ \A q \in Tools \ {p} : tool'[q] = tool[q]
        /\ UNCHANGED <<now, db, backups, replaced, excused>>
    BY <1>6, <2>2 DEF ListBackups, EndClean, KillTool, BackupInv, BackupTypeOK, IdleTool
  <2>4. BackupTypeOK'
    BY <2>3 DEF BackupInv, BackupTypeOK
  <2>5. AboutToReplaceKept'
    BY <2>3 DEF BackupInv, AboutToReplaceKept, Kept
  <2> QED BY <2>3, <2>4, <2>5, StepKeepsBackups
<1>7. CASE UNCHANGED backupVars
  <2>1. BackupTypeOK'
    BY <1>7 DEF backupVars, BackupInv, BackupTypeOK
  <2>2. AboutToReplaceKept'
    BY <1>7 DEF backupVars, BackupInv, AboutToReplaceKept, Kept
  <2> QED BY <1>7, <2>1, <2>2, StepKeepsBackups DEF backupVars
<1> QED BY <1>2, <1>3, <1>4, <1>5, <1>6, <1>7, WriteDatabaseKeeps,
        OverwriteDatabaseKeeps DEF BackupNext

\* What a restore replaces is kept in a backup until that one is deleted, however
\* restores, cleanups and kills of any number of processes overlap; only what the
\* server writes during a restore may be lost (restoreBackup).
THEOREM RestoreUndoable == BackupSpec => []RestoreIsUndoable
<1>1. BackupInv => RestoreIsUndoable
  BY DEF BackupInv
<1> QED BY <1>1, BackupStart, BackupStep, PTL DEF BackupSpec

--------------------------------------------------------------------------
(* The composition *)

\* Every variable of the components beside the orchestrator keeps its type,
\* whichever of them a behaviour of the composition is about.
THEOREM BoardTypes == MCSpec => []BoardTypesOK
<1> DEFINE Inv == /\ Safe /\ IdsInv /\ RecordsInv /\ ImportInv
                  /\ StreamInv /\ BackupInv
           allVars == <<focus, vars, boardVars, idVars, recordVars, importVars,
                        streamVars, backupVars>>
<1>1. MCInit => Inv
  BY BoardStart, IdsStart, RecordsStart, ImportStart, StreamStart, BackupStart
     DEF MCInit
<1>2. Inv /\ [MCNext]_allVars => Inv'
  <2> SUFFICES ASSUME Inv, [MCNext]_allVars PROVE Inv'
    OBVIOUS
  <2>1. /\ [BoardNext]_boardVars /\ [IdsNext]_idVars /\ [RecordsNext]_recordVars
        /\ [ImportNext]_importVars /\ [StreamNext]_streamVars /\ [BackupNext]_backupVars
    BY DEF MCNext
  <2> QED BY <2>1, BoardStep, IdsStep, RecordsStep, ImportStep, StreamStep, BackupStep
<1>3. Inv => BoardTypesOK
  BY DEF Safe, BoardInv, IdsInv, RecordsInv, ImportInv, StreamInv, BackupInv, BoardTypesOK
<1> QED BY <1>1, <1>2, <1>3, PTL DEF MCSpec
============================================================================
