--------------------------- MODULE RegistryProofs ---------------------------
(***************************************************************************)
(* The pool, the register of endpoints and the slots agree for ever, when  *)
(* no native IPv6 endpoint dials in.  The argument: an effect on the pool  *)
(* is one of three - a registered peer changes, is deleted, or takes a     *)
(* free slot - each keeps the three views together, and it either leaves a *)
(* slot's generation and peer in place or makes every update of it stale.  *)
(***************************************************************************)
EXTENDS ConnectionProofs

\* What the three effects keep.
PoolAgrees == RegistryMatchesPool /\ WatchersOccupied

\* What they do to the updates in the queues.
Aging ==
  \A t \in Slots :
    \/ generation'[t] = generation[t] /\ (Occupied(t) => peer'[t].key # NoKey)
    \/ generation'[t] = generation[t] + 1

-----------------------------------------------------------------------------
\* The peer of an occupied slot changes and keeps its key.
LEMMA SetPeerAgrees ==
  ASSUME TypeOK, PoolAgrees, NEW s \in Slots, NEW p \in PeerConnection,
         Occupied(s), p.key = peer[s].key, SetPeer(s, p)
  PROVE  PoolAgrees' /\ Aging
<1>1. /\ peer' = [peer EXCEPT ![s] = p]
      /\ generation' = generation /\ available' = available /\ registry' = registry
      /\ peer \in [Slots -> PeerConnection]
  BY DEF SetPeer, TypeOK
<1>2. \A t \in Slots : peer'[t].key = peer[t].key
  BY <1>1
<1>3. RegistryMatchesPool'
  <2>1. \A a \in Endpoints : registry[a] # NoSlot => registry[a] \in Slots
    BY DEF TypeOK
  <2> QED BY <1>1, <1>2, <2>1 DEF PoolAgrees, RegistryMatchesPool, Occupied
<1>4. WatchersOccupied'
  BY <1>1, <1>2 DEF PoolAgrees, WatchersOccupied, Occupied
<1> QED BY <1>1, <1>2, <1>3, <1>4 DEF PoolAgrees, Aging, Occupied

\* The peer of an occupied slot is deleted.
LEMMA DeletePeerAgrees ==
  ASSUME TypeOK, PoolAgrees, NEW s \in Slots, NEW p \in PeerConnection,
         Occupied(s), p.key = peer[s].key, DeletePeer(s, p)
  PROVE  PoolAgrees' /\ Aging
<1> DEFINE k == peer[s].key
<1>1. /\ peer' = [peer EXCEPT ![s] = Torn(p)]
      /\ generation' = [generation EXCEPT ![s] = @ + 1]
      /\ available' = [available EXCEPT ![s] = @ + 1]
      /\ registry' = [registry EXCEPT ![k] = NoSlot]
      /\ peer \in [Slots -> PeerConnection]
      /\ generation \in [Slots -> Nat] /\ available \in [Slots -> Nat]
      /\ registry \in [Endpoints -> Slots \cup {NoSlot}]
      /\ k \in Endpoints /\ registry[k] = s
  BY DEF DeletePeer, Aged, Deregister, Occupied, TypeOK, PeerConnection, PoolAgrees,
         RegistryMatchesPool
<1>2. /\ peer'[s].key = NoKey /\ peer'[s].io = "off" /\ peer'[s].timer = FALSE
      /\ \A t \in Slots \ {s} : peer'[t] = peer[t]
  BY <1>1 DEF Torn
<1>3. RegistryMatchesPool'
  <2>1. \A t \in Slots : available'[t] = IF peer'[t].key # NoKey THEN 0 ELSE 1
    BY <1>1, <1>2 DEF PoolAgrees, RegistryMatchesPool, Occupied
  <2>2. \A t \in Slots : peer'[t].key # NoKey => registry'[peer'[t].key] = t
    BY <1>1, <1>2 DEF PoolAgrees, RegistryMatchesPool, Occupied, PeerConnection
  <2>3. ASSUME NEW a \in Endpoints, registry'[a] # NoSlot
        PROVE  peer'[registry'[a]].key = a
    <3>1. a # k /\ registry'[a] = registry[a]
      BY <1>1, <2>3
    <3>2. registry[a] \in Slots /\ peer[registry[a]].key = a
      BY <1>1, <2>3, <3>1 DEF PoolAgrees, RegistryMatchesPool
    <3> QED BY <1>2, <3>1, <3>2
  <2> QED BY <2>1, <2>2, <2>3 DEF RegistryMatchesPool, Occupied
<1>4. WatchersOccupied'
  BY <1>2 DEF PoolAgrees, WatchersOccupied, Occupied
<1> QED BY <1>1, <1>2, <1>3, <1>4 DEF PoolAgrees, Aging, Occupied

\* A free slot is taken by an endpoint that is not registered.
LEMMA AcquireAgrees ==
  ASSUME TypeOK, PoolAgrees, NEW s \in Slots, NEW p \in PeerConnection,
         NEW a \in Endpoints, available[s] > 0, registry[a] = NoSlot, p.key = a,
         peer' = [peer EXCEPT ![s] = p],
         available' = [available EXCEPT ![s] = @ - 1],
         registry' = [registry EXCEPT ![a] = s],
         UNCHANGED generation
  PROVE  PoolAgrees' /\ Aging
<1>1. /\ peer \in [Slots -> PeerConnection] /\ available \in [Slots -> Nat]
      /\ registry \in [Endpoints -> Slots \cup {NoSlot}]
  BY DEF TypeOK
<1>2. ~Occupied(s) /\ available[s] = 1 /\ a # NoKey
  BY NullAssumption DEF PoolAgrees, RegistryMatchesPool
<1>3. peer'[s] = p /\ \A t \in Slots \ {s} : peer'[t] = peer[t]
  BY <1>1
<1>4. RegistryMatchesPool'
  <2>1. \A t \in Slots : available'[t] = IF peer'[t].key # NoKey THEN 0 ELSE 1
    BY <1>1, <1>2, <1>3 DEF PoolAgrees, RegistryMatchesPool, Occupied
  <2>2. ASSUME NEW t \in Slots, peer'[t].key # NoKey
        PROVE  registry'[peer'[t].key] = t
    <3>1. CASE t = s
      BY <1>1, <1>3, <3>1
    <3>2. CASE t # s
      <4>1. peer[t].key # NoKey /\ registry[peer[t].key] = t
        BY <1>3, <2>2, <3>2 DEF PoolAgrees, RegistryMatchesPool, Occupied
      <4>2. peer[t].key # a /\ peer[t].key \in Endpoints
        BY <1>1, <4>1, NullAssumption DEF PeerConnection
      <4> QED BY <1>1, <1>3, <3>2, <4>1, <4>2
    <3> QED BY <3>1, <3>2
  <2>3. ASSUME NEW b \in Endpoints, registry'[b] # NoSlot
        PROVE  peer'[registry'[b]].key = b
    <3>1. CASE b = a
      BY <1>1, <1>3, <3>1
    <3>2. CASE b # a
      <4>1. registry'[b] = registry[b] /\ registry[b] \in Slots
        BY <1>1, <2>3, <3>2
      <4>2. peer[registry[b]].key = b
        BY <2>3, <4>1 DEF PoolAgrees, RegistryMatchesPool
      <4>3. registry[b] # s
        BY <1>2, <4>2, NullAssumption DEF Occupied
      <4> QED BY <1>3, <4>1, <4>2, <4>3
    <3> QED BY <3>1, <3>2
  <2> QED BY <2>1, <2>2, <2>3 DEF RegistryMatchesPool, Occupied
<1>5. WatchersOccupied'
  BY <1>2, <1>3 DEF PoolAgrees, WatchersOccupied, Occupied
<1>6. Aging
  BY <1>2, <1>3 DEF Aging, Occupied
<1> QED BY <1>4, <1>5, <1>6 DEF PoolAgrees

\* A free slot is acquired and released again.
LEMMA RecycleAgrees ==
  ASSUME TypeOK, PoolAgrees, NEW s \in Slots, NEW p \in PeerConnection,
         available[s] > 0,
         peer' = peer \/ peer' = [peer EXCEPT ![s] = Torn(p)],
         generation' = [generation EXCEPT ![s] = @ + 1],
         UNCHANGED <<available, registry>>
  PROVE  PoolAgrees' /\ Aging
<1>1. /\ peer \in [Slots -> PeerConnection] /\ generation \in [Slots -> Nat]
      /\ \A a \in Endpoints : registry[a] # NoSlot => registry[a] \in Slots
  BY DEF TypeOK
<1>2. peer[s].key = NoKey
  BY DEF PoolAgrees, RegistryMatchesPool, Occupied
<1>3. /\ \A t \in Slots : peer'[t].key = peer[t].key
      /\ \A t \in Slots : peer'[t].timer \/ peer'[t].io # "off" =>
                          peer[t].timer \/ peer[t].io # "off"
  BY <1>1, <1>2 DEF Torn
<1>4. RegistryMatchesPool'
  BY <1>1, <1>3 DEF PoolAgrees, RegistryMatchesPool, Occupied
<1>5. WatchersOccupied'
  BY <1>3 DEF PoolAgrees, WatchersOccupied, Occupied
<1>6. Aging
  BY <1>1, <1>3 DEF Aging, Occupied
<1> QED BY <1>4, <1>5, <1>6 DEF PoolAgrees

\* A registered endpoint's slot is released and a free one takes its place.
LEMMA EvictAgrees ==
  ASSUME TypeOK, PoolAgrees, NEW s \in Slots, NEW p \in PeerConnection,
         NEW q \in PeerConnection, NEW a \in Endpoints, NEW old \in Slots,
         available[s] > 0, registry[a] = old, q.key = a,
         peer' = [[peer EXCEPT ![old] = Torn(p)] EXCEPT ![s] = q],
         generation' = [generation EXCEPT ![old] = @ + 1],
         available' = [[available EXCEPT ![s] = @ - 1] EXCEPT ![old] = @ + 1],
         registry' = [[registry EXCEPT ![a] = NoSlot] EXCEPT ![a] = s]
  PROVE  PoolAgrees' /\ Aging
<1>1. /\ peer \in [Slots -> PeerConnection] /\ available \in [Slots -> Nat]
      /\ registry \in [Endpoints -> Slots \cup {NoSlot}]
      /\ generation \in [Slots -> Nat]
  BY DEF TypeOK
<1>2. /\ ~Occupied(s) /\ available[s] = 1
      /\ peer[old].key = a /\ Occupied(old) /\ available[old] = 0
      /\ old # s /\ a # NoKey
  BY NullAssumption DEF PoolAgrees, RegistryMatchesPool, Occupied
<1>3. /\ peer'[s] = q /\ peer'[old] = Torn(p)
      /\ \A t \in Slots \ {s, old} : peer'[t] = peer[t]
      /\ peer'[old].key = NoKey /\ peer'[old].io = "off" /\ ~peer'[old].timer
  BY <1>1, <1>2 DEF Torn
<1>4. /\ available'[s] = 0 /\ available'[old] = 1
      /\ \A t \in Slots \ {s, old} : available'[t] = available[t]
      /\ registry'[a] = s /\ \A b \in Endpoints \ {a} : registry'[b] = registry[b]
  BY <1>1, <1>2
<1>5. RegistryMatchesPool'
  <2>1. \A t \in Slots : available'[t] = IF peer'[t].key # NoKey THEN 0 ELSE 1
    <3>1. \A t \in Slots \ {s, old} : available[t] = IF peer[t].key # NoKey THEN 0 ELSE 1
      BY DEF PoolAgrees, RegistryMatchesPool, Occupied
    <3>2. peer'[s].key # NoKey
      BY <1>2, <1>3
    <3>3. ASSUME NEW t \in Slots
          PROVE  available'[t] = IF peer'[t].key # NoKey THEN 0 ELSE 1
      <4>1. CASE t = s
        BY <1>4, <3>2, <4>1
      <4>2. CASE t = old
        BY <1>3, <1>4, <4>2
      <4>3. CASE t \notin {s, old}
        <5>1. t \in Slots \ {s, old}
          BY <4>3
        <5>2. peer'[t] = peer[t] /\ available'[t] = available[t]
          BY <1>3, <1>4, <5>1
        <5>3. available[t] = IF peer[t].key # NoKey THEN 0 ELSE 1
          BY <3>1, <5>1
        <5> QED BY <5>2, <5>3
      <4> QED BY <4>1, <4>2, <4>3
    <3> QED BY <3>3
  <2>2. ASSUME NEW t \in Slots, peer'[t].key # NoKey
        PROVE  registry'[peer'[t].key] = t
    <3>1. CASE t = s
      BY <1>3, <1>4, <3>1
    <3>2. CASE t # s
      <4>1. t # old /\ peer'[t] = peer[t]
        BY <1>3, <2>2, <3>2
      <4>2. registry[peer[t].key] = t /\ peer[t].key \in Endpoints
        BY <1>1, <2>2, <4>1, NullAssumption
           DEF PoolAgrees, RegistryMatchesPool, Occupied, PeerConnection
      <4>3. peer[t].key # a
        BY <4>1, <4>2
      <4> QED BY <1>4, <4>1, <4>2, <4>3
    <3> QED BY <3>1, <3>2
  <2>3. ASSUME NEW b \in Endpoints, registry'[b] # NoSlot
        PROVE  peer'[registry'[b]].key = b
    <3>1. CASE b = a
      BY <1>3, <1>4, <3>1
    <3>2. CASE b # a
      <4>1. registry'[b] = registry[b] /\ registry[b] \in Slots
        BY <1>1, <1>4, <2>3, <3>2
      <4>2. peer[registry[b]].key = b
        BY <2>3, <4>1 DEF PoolAgrees, RegistryMatchesPool
      <4>3. registry[b] # s /\ registry[b] # old
        BY <1>2, <3>2, <4>2, NullAssumption DEF Occupied
      <4> QED BY <1>3, <4>1, <4>2, <4>3
    <3> QED BY <3>1, <3>2
  <2> QED BY <2>1, <2>2, <2>3 DEF RegistryMatchesPool, Occupied
<1>6. WatchersOccupied'
  <2>1. peer'[s].key # NoKey
    BY <1>2, <1>3
  <2>2. ASSUME NEW t \in Slots, peer'[t].timer \/ peer'[t].io # "off"
        PROVE  peer'[t].key # NoKey
    <3>1. t # old
      BY <1>3, <2>2
    <3> QED BY <1>3, <2>1, <2>2, <3>1 DEF PoolAgrees, WatchersOccupied, Occupied
  <2> QED BY <2>2 DEF WatchersOccupied, Occupied
<1>7. Aging
  <2>1. /\ generation'[old] = generation[old] + 1
        /\ \A t \in Slots \ {old} : generation'[t] = generation[t]
    BY DEF TypeOK
  <2>2. \A t \in Slots \ {old} : Occupied(t) => peer'[t].key # NoKey
    BY <1>2, <1>3 DEF Occupied
  <2> QED BY <2>1, <2>2 DEF Aging
<1> QED BY <1>5, <1>6, <1>7 DEF PoolAgrees

\* Nothing of the pool changes.
LEMMA StillAgrees ==
  ASSUME TypeOK, PoolAgrees, UNCHANGED pool
  PROVE  PoolAgrees' /\ Aging
BY DEF TypeOK, PoolAgrees, RegistryMatchesPool, WatchersOccupied, Occupied,
       Aging, pool

-----------------------------------------------------------------------------
(* Updates.                                                                *)

LEMMA ElementsTail ==
  ASSUME NEW q \in Seq(Update), q # <<>>
  PROVE  Elements(Tail(q)) \subseteq Elements(q) /\ Head(q) \in Elements(q)
<1>1. Len(q) \in Nat \ {0} /\ DOMAIN q = 1 .. Len(q)
  BY EmptySeq
<1>2. /\ Len(Tail(q)) = Len(q) - 1 /\ Tail(q) \in Seq(Update)
      /\ \A i \in 1 .. Len(Tail(q)) : Tail(q)[i] = q[i + 1]
  BY HeadTailProperties
<1>3. DOMAIN Tail(q) = 1 .. Len(q) - 1
  BY <1>2
<1>4. \A i \in 1 .. Len(q) - 1 : i + 1 \in 1 .. Len(q) /\ Tail(q)[i] = q[i + 1]
  BY <1>1, <1>2
<1>5. Head(q) = q[1] /\ 1 \in DOMAIN q
  BY <1>1
<1> QED BY <1>1, <1>3, <1>4, <1>5 DEF Elements

LEMMA ElementsAppend ==
  ASSUME NEW q \in Seq(Update), NEW u \in Update
  PROVE  Elements(Append(q, u)) = Elements(q) \cup {u}
<1>1. /\ Len(q) \in Nat /\ DOMAIN q = 1 .. Len(q)
      /\ DOMAIN Append(q, u) = 1 .. Len(q) + 1
      /\ \A i \in 1 .. Len(q) : Append(q, u)[i] = q[i]
      /\ Append(q, u)[Len(q) + 1] = u
  BY AppendProperties
<1>2. 1 .. Len(q) + 1 = 1 .. Len(q) \cup {Len(q) + 1}
  BY <1>1
<1> QED BY <1>1, <1>2 DEF Elements

\* Every element of the queues and sessions is an update.
LEMMA UpdatesTyped == TypeOK => AllUpdates \subseteq Update
BY DEF TypeOK, AllUpdates, Elements

\* An update stays known as slots age, if every new one names a peer whose
\* slot did not change hands.
LEMMA UpdatesStayKnown ==
  ASSUME TypeOK, TypeOK', UpdatesKnown, Aging,
         \A u \in AllUpdates' \ AllUpdates :
           \E s \in Slots : /\ u = UpdateOf(s) /\ peer'[s].key # NoKey
                            /\ generation'[s] = generation[s]
  PROVE  UpdatesKnown'
<1> SUFFICES ASSUME NEW u \in AllUpdates' PROVE UpdateKnown(u)'
  BY DEF UpdatesKnown
<1>1. generation \in [Slots -> Nat] /\ generation' \in [Slots -> Nat]
  BY DEF TypeOK
<1>2. CASE u \in AllUpdates
  <2>1. u.slot \in Slots /\ u.generation \in Nat
    BY <1>2, UpdatesTyped DEF Update
  <2>2. UpdateKnown(u)
    BY <1>2 DEF UpdatesKnown
  <2> QED BY <1>1, <2>1, <2>2 DEF UpdateKnown, IsCurrent, Occupied, Aging
<1>3. CASE u \notin AllUpdates
  <2>1. PICK s \in Slots : /\ u = UpdateOf(s) /\ peer'[s].key # NoKey
                           /\ generation'[s] = generation[s]
    BY <1>3
  <2>2. u.slot = s /\ u.generation = generation[s]
    BY <2>1 DEF UpdateOf
  <2> QED BY <1>1, <2>1, <2>2 DEF UpdateKnown, IsCurrent, Occupied
<1> QED BY <1>2, <1>3

-----------------------------------------------------------------------------
(* The actions.                                                            *)

\* The effect of a step on the pool and on the set of updates, which is all
\* the invariant depends on.
Keeps ==
  /\ PoolAgrees' /\ Aging
  /\ \A u \in AllUpdates' \ AllUpdates :
       \E s \in Slots : /\ u = UpdateOf(s) /\ peer'[s].key # NoKey
                        /\ generation'[s] = generation[s]

LEMMA KeepsSuffices ==
  ASSUME PoolInv, TypeOK', Keeps
  PROVE  PoolInv'
BY UpdatesStayKnown DEF PoolInv, Keeps, PoolAgrees

\* A failure deletes the peer, or keeps it in its slot.
LEMMA HandlePeerFailureAgrees ==
  ASSUME TypeOK, PoolAgrees, NEW s \in Slots, Occupied(s), HandlePeerFailure(s)
  PROVE  PoolAgrees' /\ Aging
<1> DEFINE p == [Closed(peer[s]) EXCEPT !.state = "FAILED", !.failures = @ + 1]
<1>1. peer[s] \in PeerConnection
  BY DEF TypeOK
<1>2. p \in PeerConnection /\ p.key = peer[s].key
  <2>1. Closed(peer[s]) \in PeerConnection /\ Closed(peer[s]).key = peer[s].key
    BY <1>1, PeerValues DEF Closed, PeerConnection
  <2> QED BY <2>1, FailureCounted DEF PeerConnection
<1>3. DeletePeer(s, p) \/ SetPeer(s, Waiting(p))
  BY DEF HandlePeerFailure
<1> HIDE DEF p
<1>4. Waiting(p) \in PeerConnection /\ Waiting(p).key = peer[s].key
  <2>1. Waiting(p) \in PeerConnection
    BY <1>2, PeerValues
  <2>2. Waiting(p).key = p.key
    BY <1>2 DEF Waiting, PeerConnection
  <2> QED BY <1>2, <2>1, <2>2
<1> QED BY <1>2, <1>3, <1>4, DeletePeerAgrees, SetPeerAgrees

LEMMA DispatchAgrees ==
  ASSUME TypeOK, PoolAgrees, NEW s \in Slots, NEW p \in PeerConnection,
         Occupied(s), p.key = peer[s].key, Dispatch(s, p)
  PROVE  /\ PoolAgrees' /\ Aging
         /\ connects' \in {connects, Append(connects, UpdateOf(s))}
         /\ generation' = generation /\ peer'[s].key # NoKey
<1> DEFINE q == [Stopped(p) EXCEPT !.state = "CONNECTED", !.sock = "handed"]
<1>1. q \in PeerConnection /\ q.key = peer[s].key
  BY DEF Stopped, PeerConnection
<1>2. SetPeer(s, q) /\ connects' \in {connects, Append(connects, UpdateOf(s))}
  BY DEF Dispatch
<1> HIDE DEF q
<1>3. generation' = generation /\ peer'[s].key # NoKey
  BY <1>1, <1>2 DEF SetPeer, TypeOK, Occupied
<1> QED BY <1>1, <1>2, <1>3, SetPeerAgrees

LEMMA SocketCallbackKeeps ==
  ASSUME PoolInv, NEW s \in Slots, SocketCallback(s)
  PROVE  Keeps
<1>1. TypeOK /\ PoolAgrees /\ peer[s] \in PeerConnection
  BY DEF PoolInv, PoolAgrees, TypeOK
<1>2. CallbackFrame /\ peer[s].io # "off"
  BY DEF SocketCallback, QuotaDeletes, SocketError, TransportInitiation,
         HandshakeSent, HandshakeReceived, SocketReady
<1>3. Occupied(s)
  BY <1>2 DEF PoolInv, WatchersOccupied
<1>4. /\ retry_queue' = retry_queue /\ sessions' = sessions
      /\ disconnects' = disconnects
  BY <1>2 DEF CallbackFrame, transfer
<1>5. ASSUME PoolAgrees', Aging, connects' = connects PROVE Keeps
  <2>1. AllUpdates' = AllUpdates
    BY <1>4, <1>5 DEF AllUpdates, Elements
  <2> QED BY <1>5, <2>1 DEF Keeps
<1>6. CASE HandlePeerFailure(s)
  BY <1>1, <1>3, <1>5, <1>6, HandlePeerFailureAgrees DEF HandlePeerFailure
<1>7. ASSUME NEW p \in PeerConnection, p.key = peer[s].key, Quietly,
             DeletePeer(s, p) \/ SetPeer(s, p)
      PROVE  Keeps
  <2>1. PoolAgrees' /\ Aging
    BY <1>1, <1>3, <1>7, DeletePeerAgrees, SetPeerAgrees
  <2> QED BY <1>5, <1>7, <2>1 DEF Quietly
<1>8. ASSUME NEW p \in PeerConnection, p.key = peer[s].key, Dispatch(s, p)
      PROVE  Keeps
  <2>1. /\ PoolAgrees' /\ Aging /\ generation' = generation /\ peer'[s].key # NoKey
        /\ connects' \in {connects, Append(connects, UpdateOf(s))}
    BY <1>1, <1>3, <1>8, DispatchAgrees
  <2>2. UpdateOf(s) \in Update /\ connects \in Seq(Update)
    BY <1>1 DEF UpdateOf, Update, TypeOK
  <2>3. Elements(connects)' \subseteq Elements(connects) \cup {UpdateOf(s)}
    BY <2>1, <2>2, ElementsAppend DEF Elements
  <2>4. /\ Elements(retry_queue)' = Elements(retry_queue)
        /\ Elements(disconnects)' = Elements(disconnects)
    BY <1>4 DEF Elements
  <2>5. AllUpdates' \subseteq AllUpdates \cup {UpdateOf(s)}
    BY <1>4, <2>3, <2>4 DEF AllUpdates
  <2> QED BY <2>1, <2>5 DEF Keeps
<1>9. CASE QuotaDeletes(s)
  BY <1>1, <1>7, <1>9 DEF QuotaDeletes
<1>10. CASE SocketError(s)
  BY <1>6, <1>10 DEF SocketError
<1>11. CASE TransportInitiation(s)
  <2> DEFINE sent == [peer[s] EXCEPT !.state = "HANDSHAKE", !.send = "sent",
                                     !.io = "READ"]
             queued == [peer[s] EXCEPT !.state = "HANDSHAKE", !.send = "queued",
                                       !.io = "WRITE"]
  <2>1. /\ sent \in PeerConnection /\ sent.key = peer[s].key
        /\ queued \in PeerConnection /\ queued.key = peer[s].key
    BY <1>1 DEF PeerConnection
  <2>2. \/ HandlePeerFailure(s)
        \/ SetPeer(s, sent) /\ Quietly
        \/ SetPeer(s, queued) /\ Quietly
    BY <1>11 DEF TransportInitiation
  <2> HIDE DEF sent, queued
  <2> QED BY <2>1, <2>2, <1>6, <1>7
<1>12. CASE HandshakeSent(s)
  <2> DEFINE p == [peer[s] EXCEPT !.send = IF @ = "queued" THEN "sent" ELSE @]
             reading == [p EXCEPT !.io = "READ"]
  <2>1. /\ p \in PeerConnection /\ p.key = peer[s].key
        /\ reading \in PeerConnection /\ reading.key = peer[s].key
    BY <1>1 DEF PeerConnection
  <2>2. \/ HandlePeerFailure(s)
        \/ SetPeer(s, reading) /\ Quietly
        \/ Dispatch(s, p)
    BY <1>12 DEF HandshakeSent
  <2> HIDE DEF p, reading
  <2> QED BY <2>1, <2>2, <1>6, <1>7, <1>8
<1>13. CASE HandshakeReceived(s)
  <2> DEFINE sent == [peer[s] EXCEPT !.send = "sent"]
             queued == [peer[s] EXCEPT !.send = "queued", !.io = "WRITE"]
  <2>1. /\ sent \in PeerConnection /\ sent.key = peer[s].key
        /\ queued \in PeerConnection /\ queued.key = peer[s].key
    BY <1>1 DEF PeerConnection
  <2>2. Closed(peer[s]) \in PeerConnection /\ Closed(peer[s]).key = peer[s].key
    BY <1>1, PeerValues DEF Closed, PeerConnection
  <2>3. \/ HandlePeerFailure(s)
        \/ DeletePeer(s, Closed(peer[s])) /\ Quietly
        \/ Dispatch(s, peer[s])
        \/ Dispatch(s, sent)
        \/ SetPeer(s, queued) /\ Quietly
    BY <1>13 DEF HandshakeReceived
  <2> HIDE DEF sent, queued
  <2> QED BY <2>1, <2>2, <2>3, <1>1, <1>6, <1>7, <1>8
<1> QED BY <1>9, <1>10, <1>11, <1>12, <1>13 DEF SocketCallback

\* One that adds no update.
LEMMA OldUpdatesKeep ==
  ASSUME PoolAgrees', Aging, AllUpdates' \subseteq AllUpdates
  PROVE  Keeps
BY DEF Keeps

LEMMA TimerCallbackKeeps ==
  ASSUME PoolInv, NEW s \in Slots, TimerCallback(s)
  PROVE  Keeps
<1>1. TypeOK /\ PoolAgrees /\ peer[s] \in PeerConnection
  BY DEF PoolInv, PoolAgrees, TypeOK
<1>2. Occupied(s)
  BY DEF PoolInv, WatchersOccupied, TimerCallback, RetryTimer, ConnectTimer,
         TimerReady
<1>3. CASE ConnectTimer(s)
  <2>1. HandlePeerFailure(s) /\ CallbackFrame /\ connects' = connects
    BY <1>3 DEF ConnectTimer, HandlePeerFailure
  <2>2. AllUpdates' = AllUpdates
    BY <2>1 DEF CallbackFrame, transfer, AllUpdates, Elements
  <2> QED BY <1>1, <1>2, <2>1, <2>2, HandlePeerFailureAgrees, OldUpdatesKeep
<1>4. CASE RetryTimer(s)
  <2>1. Stopped(peer[s]) \in PeerConnection /\ Stopped(peer[s]).key = peer[s].key
    <3>1. Stopped(peer[s]) \in PeerConnection
      BY <1>1, PeerValues
    <3>2. Stopped(peer[s]).key = peer[s].key
      BY <1>1 DEF Stopped, PeerConnection
    <3> QED BY <3>1, <3>2
  <2>2. /\ SetPeer(s, Stopped(peer[s]))
        /\ retry_queue' = Append(retry_queue, UpdateOf(s))
        /\ connects' = connects /\ sessions' = sessions /\ disconnects' = disconnects
    BY <1>4 DEF RetryTimer, transfer
  <2>3. PoolAgrees' /\ Aging
    BY <1>1, <1>2, <2>1, <2>2, SetPeerAgrees
  <2>4. generation' = generation /\ peer'[s].key # NoKey
    BY <1>1, <1>2, <2>1, <2>2 DEF SetPeer, TypeOK, Occupied
  <2>5. UpdateOf(s) \in Update /\ retry_queue \in Seq(Update)
    BY <1>1 DEF UpdateOf, Update, TypeOK
  <2>6. Elements(retry_queue)' = Elements(retry_queue) \cup {UpdateOf(s)}
    BY <2>2, <2>5, ElementsAppend DEF Elements
  <2>7. AllUpdates' \subseteq AllUpdates \cup {UpdateOf(s)}
    BY <2>2, <2>6 DEF AllUpdates, Elements
  <2> QED BY <2>3, <2>4, <2>7 DEF Keeps
<1> QED BY <1>3, <1>4 DEF TimerCallback

\* Whether a dial starts or fails, its peer was registered.
LEMMA InitiateConnectAgrees ==
  ASSUME TypeOK, PoolAgrees, NEW s \in Slots, NEW p \in PeerConnection,
         Occupied(s), p.key = peer[s].key, InitiateConnect(s, p)
  PROVE  PoolAgrees' /\ Aging
<1>1. PICK outcome \in ConnectOutcomes(p) :
        SetPeer(s, outcome.peer) \/ DeletePeer(s, outcome.peer)
  BY DEF InitiateConnect
<1>2. outcome.peer \in PeerConnection /\ outcome.peer.key = peer[s].key
  BY ConnectValues
<1> QED BY <1>1, <1>2, SetPeerAgrees, DeletePeerAgrees

LEMMA DiscoveredPeerKeeps ==
  ASSUME PoolInv, DiscoveredPeer
  PROVE  Keeps
<1>1. TypeOK /\ PoolAgrees
  BY DEF PoolInv, PoolAgrees
<1> DEFINE a == cache[Len(cache)]
<1>2. a \in Endpoints
  <2>1. cache \in Seq(Discoverable) /\ cache # <<>>
    BY <1>1 DEF TypeOK, DiscoveredPeer
  <2> QED BY <2>1 DEF Endpoints
<1>3. UNCHANGED <<retry_queue, connects, transfer>>
  BY DEF DiscoveredPeer
<1>4. AllUpdates' = AllUpdates
  BY <1>3 DEF transfer, AllUpdates, Elements
<1>5. PICK s \in {t \in Slots : available[t] > 0} :
       LET p == Initialized(peer[s], a, "tracker", "DISCOVERED")
       IN  IF registry[a] # NoSlot
           THEN /\ generation' = [generation EXCEPT ![s] = @ + 1]
                /\ UNCHANGED <<peer, available, registry, inbound, pc, scheduler>>
           ELSE \E outcome \in ConnectOutcomes(p) :
                  IF outcome.ok
                  THEN /\ peer' = [peer EXCEPT ![s] = outcome.peer]
                       /\ available' = [available EXCEPT ![s] = @ - 1]
                       /\ registry' = [registry EXCEPT ![a] = s]
                       /\ inbound' = Increment(inbound)
                       /\ HandlerReturns(TRUE)
                       /\ UNCHANGED generation
                  ELSE /\ peer' = [peer EXCEPT ![s] = Torn(outcome.peer)]
                       /\ generation' = [generation EXCEPT ![s] = @ + 1]
                       /\ UNCHANGED <<available, registry, inbound, pc, scheduler>>
  BY DEF DiscoveredPeer, Aged
<1> DEFINE p == Initialized(peer[s], a, "tracker", "DISCOVERED")
<1>6. p \in PeerConnection /\ p.key = a
  <2>1. peer[s] \in PeerConnection
    BY <1>1 DEF TypeOK
  <2>2. p \in PeerConnection
    BY <1>2, <2>1, PeerValues
  <2> QED BY <2>1, <2>2 DEF Initialized, PeerConnection
<1> HIDE DEF a
<1>7. CASE registry[a] # NoSlot
  <2>1. /\ generation' = [generation EXCEPT ![s] = @ + 1]
        /\ UNCHANGED <<peer, available, registry>>
    BY <1>5, <1>7
  <2>2. peer[s] \in PeerConnection
    BY <1>1 DEF TypeOK
  <2> QED BY <1>1, <1>4, <2>1, <2>2, RecycleAgrees, OldUpdatesKeep
<1>8. CASE registry[a] = NoSlot
  <2>1. PICK outcome \in ConnectOutcomes(p) :
          \/ /\ peer' = [peer EXCEPT ![s] = outcome.peer]
             /\ available' = [available EXCEPT ![s] = @ - 1]
             /\ registry' = [registry EXCEPT ![a] = s]
             /\ UNCHANGED generation
          \/ /\ peer' = [peer EXCEPT ![s] = Torn(outcome.peer)]
             /\ generation' = [generation EXCEPT ![s] = @ + 1]
             /\ UNCHANGED <<available, registry>>
    BY <1>5, <1>8
  <2> HIDE DEF p
  <2>2. outcome.peer \in PeerConnection /\ outcome.peer.key = a
    BY <1>6, ConnectValues
  <2> QED BY <1>1, <1>2, <1>4, <1>8, <2>1, <2>2, RecycleAgrees, AcquireAgrees,
             OldUpdatesKeep
<1> QED BY <1>7, <1>8

LEMMA DisconnectedPeerKeeps ==
  ASSUME PoolInv, DisconnectedPeer
  PROVE  Keeps
<1>1. TypeOK /\ PoolAgrees /\ UpdatesKnown
  BY DEF PoolInv, PoolAgrees
<1> DEFINE u == Head(disconnects)
           s == u.slot
           p == [peer[s] EXCEPT !.state = "DISCONNECTED", !.failures = @ + 1]
<1>2. /\ disconnects \in Seq(Update) /\ disconnects # <<>>
      /\ disconnects' = Tail(disconnects)
      /\ UNCHANGED <<retry_queue, connects, sessions>>
  BY <1>1 DEF DisconnectedPeer, TypeOK
<1>3. AllUpdates' \subseteq AllUpdates
  <2>1. Elements(disconnects') \subseteq Elements(disconnects)
    BY <1>2, ElementsTail
  <2> QED BY <1>2, <2>1 DEF AllUpdates
<1>4. s \in Slots /\ u \in AllUpdates
  BY <1>2, UpdateQueue, ElementsTail DEF AllUpdates
<1>5. CASE ~IsCurrent(u)
  <2>1. UNCHANGED pool
    BY <1>5 DEF DisconnectedPeer
  <2> QED BY <1>1, <1>3, <2>1, StillAgrees, OldUpdatesKeep
<1>6. CASE IsCurrent(u)
  <2>1. Occupied(s)
    BY <1>1, <1>4, <1>6 DEF UpdatesKnown, UpdateKnown
  <2>2. p \in PeerConnection /\ p.key = peer[s].key
    <3>1. peer[s] \in PeerConnection
      BY <1>1, <1>4 DEF TypeOK
    <3>2. p \in PeerConnection
      BY <3>1, FailureCounted
    <3>3. p.key = peer[s].key
      BY <3>1 DEF PeerConnection
    <3> QED BY <3>2, <3>3
  <2>3. DeletePeer(s, p) \/ InitiateConnect(s, p)
    BY <1>6 DEF DisconnectedPeer
  <2> HIDE DEF s, p
  <2> QED BY <1>1, <1>3, <1>4, <2>1, <2>2, <2>3, DeletePeerAgrees,
             InitiateConnectAgrees, OldUpdatesKeep
<1> QED BY <1>5, <1>6

LEMMA FailedPeerKeeps ==
  ASSUME PoolInv, FailedPeer
  PROVE  Keeps
<1>1. TypeOK /\ PoolAgrees /\ UpdatesKnown
  BY DEF PoolInv, PoolAgrees
<1> DEFINE u == Head(retry_queue)
           s == u.slot
<1>2. /\ retry_queue \in Seq(Update) /\ retry_queue # <<>>
      /\ retry_queue' = Tail(retry_queue)
      /\ UNCHANGED <<connects, transfer>>
  BY <1>1 DEF FailedPeer, TypeOK
<1>3. AllUpdates' \subseteq AllUpdates
  <2>1. Elements(retry_queue') \subseteq Elements(retry_queue)
    BY <1>2, ElementsTail
  <2> QED BY <1>2, <2>1 DEF AllUpdates, transfer
<1>4. s \in Slots /\ u \in AllUpdates /\ peer[s] \in PeerConnection
  BY <1>1, <1>2, UpdateQueue, ElementsTail DEF AllUpdates, TypeOK
<1>5. CASE ~IsCurrent(u)
  <2>1. UNCHANGED pool
    BY <1>5 DEF FailedPeer
  <2> QED BY <1>1, <1>3, <2>1, StillAgrees, OldUpdatesKeep
<1>6. CASE IsCurrent(u)
  <2>1. Occupied(s)
    BY <1>1, <1>4, <1>6 DEF UpdatesKnown, UpdateKnown
  <2>2. InitiateConnect(s, peer[s])
    BY <1>6 DEF FailedPeer
  <2> HIDE DEF s
  <2> QED BY <1>1, <1>3, <1>4, <2>1, <2>2, InitiateConnectAgrees, OldUpdatesKeep
<1> QED BY <1>5, <1>6

\* The steps that leave the pool alone, and the threads that only move
\* updates along.
LEMMA StillKeeps ==
  ASSUME PoolInv,
         \/ DaemonSignalled \/ RoundBegins \/ NothingLeft
         \/ ServerReadable \/ AcceptEnds
         \/ DrainDiscovered \/ NotifyDisconnected \/ OtherThreads
         \/ UNCHANGED vars
  PROVE  Keeps
<1>1. TypeOK /\ PoolAgrees
  BY DEF PoolInv, PoolAgrees
<1>2. UNCHANGED pool
  BY DEF DaemonSignalled, RoundBegins, NothingLeft, ServerReadable, AcceptEnds,
         DrainDiscovered, NotifyDisconnected, OtherThreads, TrackerReports,
         SessionBegins, SessionEnds, vars
<1>3. AllUpdates' \subseteq AllUpdates
  <2>1. CASE UNCHANGED <<retry_queue, connects, sessions, disconnects>>
    BY <2>1 DEF AllUpdates, Elements
  <2>2. CASE SessionBegins
    <3> DEFINE h == Head(connects)
    <3>1. Elements(connects') \subseteq Elements(connects) /\ h \in Elements(connects)
      BY <1>1, <2>2, ElementsTail DEF SessionBegins, TypeOK
    <3>2. /\ sessions' = sessions \cup {h}
          /\ retry_queue' = retry_queue /\ disconnects' = disconnects
      BY <2>2 DEF SessionBegins
    <3> HIDE DEF h
    <3> QED BY <3>1, <3>2 DEF AllUpdates
  <2>3. ASSUME NEW u \in sessions, SessionEnds(u)
        PROVE  AllUpdates' \subseteq AllUpdates
    <3>1. Elements(disconnects') = Elements(disconnects) \cup {u}
      BY <1>1, <2>3, ElementsAppend DEF SessionEnds, TypeOK
    <3> QED BY <2>3, <3>1 DEF SessionEnds, AllUpdates
  <2>4. \/ UNCHANGED <<retry_queue, connects, sessions, disconnects>>
        \/ SessionBegins
        \/ \E u \in sessions : SessionEnds(u)
    BY DEF DaemonSignalled, RoundBegins, NothingLeft, ServerReadable, AcceptEnds,
           DrainDiscovered, NotifyDisconnected, OtherThreads, TrackerReports, vars, transfer
  <2> QED BY <2>1, <2>2, <2>3, <2>4
<1> QED BY <1>1, <1>2, <1>3, StillAgrees, OldUpdatesKeep

\* An endpoint takes a free slot, the place of its older peer included.
LEMMA AcceptKeeps ==
  ASSUME NativeV6 = {}, PoolInv, NEW s \in Slots, NEW a \in Dialing,
         AcceptUnique(s, a) \/ AcceptEvicting(s, a)
  PROVE  Keeps
<1>1. /\ TypeOK /\ PoolAgrees /\ a \in Endpoints
      /\ peer \in [Slots -> PeerConnection]
      /\ registry \in [Endpoints -> Slots \cup {NoSlot}]
  BY DEF PoolInv, PoolAgrees, TypeOK, Endpoints
<1>2. AllUpdates' = AllUpdates
  BY DEF AcceptUnique, AcceptEvicting, transfer, AllUpdates, Elements
<1>3. \A p \in PeerConnection :
        Accepted(p, a) \in PeerConnection /\ Accepted(p, a).key = a
  <2> SUFFICES ASSUME NEW p \in PeerConnection
               PROVE  Accepted(p, a) \in PeerConnection /\ Accepted(p, a).key = a
    OBVIOUS
  <2>1. Accepted(p, a) \in PeerConnection
    BY <1>1, PeerValues
  <2>2. Accepted(p, a).key = a
    BY DEF Accepted, Initialized, Armed, PeerConnection
  <2> QED BY <2>1, <2>2
<1>4. CASE AcceptUnique(s, a)
  <2>1. Accepted(peer[s], a) \in PeerConnection /\ Accepted(peer[s], a).key = a
    BY <1>1, <1>3
  <2>2. /\ available[s] > 0 /\ registry[a] = NoSlot
        /\ peer' = [peer EXCEPT ![s] = Accepted(peer[s], a)]
        /\ available' = [available EXCEPT ![s] = @ - 1]
        /\ registry' = [registry EXCEPT ![a] = s]
        /\ generation' = generation
    BY <1>4 DEF AcceptUnique
  <2>3. PoolAgrees' /\ Aging
    BY <1>1, <2>1, <2>2, AcquireAgrees
  <2> QED BY <1>2, <2>3, OldUpdatesKeep
<1>5. CASE AcceptEvicting(s, a)
  <2> DEFINE old == registry[a]
             p == Evicted(peer[old])
             torn == [peer EXCEPT ![old] = Torn(p)]
             q == Accepted(torn[s], a)
  <2>1. old \in Slots /\ registry[a] # NoSlot /\ available[s] > 0
    BY <1>1, <1>5 DEF AcceptEvicting
  <2>2. p \in PeerConnection /\ p.key = a
    <3>1. peer[old] \in PeerConnection /\ peer[old].key = a
      BY <1>1, <2>1 DEF PoolAgrees, RegistryMatchesPool
    <3>2. p \in PeerConnection
      BY <3>1, PeerValues
    <3>3. p.key = peer[old].key
      BY <3>1 DEF Evicted, Closed, PeerConnection
    <3> QED BY <3>1, <3>2, <3>3
  <2>3. Deregister(p.key) = [registry EXCEPT ![a] = NoSlot]
    BY <1>1, <2>2, NullAssumption DEF Deregister
  <2>4. /\ peer' = [torn EXCEPT ![s] = q]
        /\ generation' = [generation EXCEPT ![old] = @ + 1]
        /\ available' = [[available EXCEPT ![s] = @ - 1] EXCEPT ![old] = @ + 1]
        /\ registry' = [Deregister(p.key) EXCEPT ![a] = s]
    BY <1>1, <1>5, <2>1 DEF AcceptEvicting, Aged
  <2>5. q \in PeerConnection /\ q.key = a
    <3>1. torn[s] \in PeerConnection
      <4>1. Torn(p) \in PeerConnection
        BY <2>2, PeerValues
      <4> HIDE DEF p
      <4> QED BY <1>1, <2>1, <4>1
    <3> HIDE DEF torn
    <3> QED BY <1>3, <3>1
  <2> HIDE DEF p, q
  <2>6. PoolAgrees' /\ Aging
    BY <1>1, <2>1, <2>2, <2>3, <2>4, <2>5, EvictAgrees
  <2> QED BY <1>2, <2>6, OldUpdatesKeep
<1> QED BY <1>4, <1>5

LEMMA PoolInvStep ==
  ASSUME NativeV6 = {}, PoolInv, [Next]_vars
  PROVE  PoolInv'
<1>1. TypeOK'
  BY NextType DEF PoolInv
<1>2. CASE \E s \in Slots : SocketCallback(s) \/ TimerCallback(s)
  BY <1>1, <1>2, SocketCallbackKeeps, TimerCallbackKeeps, KeepsSuffices
<1>3. CASE DiscoveredPeer \/ DisconnectedPeer \/ FailedPeer
  BY <1>1, <1>3, DiscoveredPeerKeeps, DisconnectedPeerKeeps, FailedPeerKeeps,
     KeepsSuffices
<1>4. CASE \E s \in Slots : \E a \in Dialing \cup NativeV6 :
             AcceptUnique(s, a) \/ AcceptEvicting(s, a)
  BY <1>1, <1>4, AcceptKeeps, KeepsSuffices
<1>5. CASE \/ DaemonSignalled \/ RoundBegins \/ NothingLeft
           \/ ServerReadable \/ AcceptEnds
           \/ DrainDiscovered \/ NotifyDisconnected \/ OtherThreads
           \/ UNCHANGED vars
  BY <1>1, <1>5, StillKeeps, KeepsSuffices
<1> QED BY <1>2, <1>3, <1>4, <1>5 DEF Next, Manager, Scheduling, Accepting

LEMMA PoolInvInit == Init => PoolInv
<1> SUFFICES ASSUME Init PROVE PoolInv
  OBVIOUS
<1>1. /\ \A s \in Slots : peer[s].key = NoKey /\ peer[s].io = "off" /\ ~peer[s].timer
      /\ \A s \in Slots : available[s] = 1
      /\ \A a \in Endpoints : registry[a] = NoSlot
  BY DEF Init
<1>2. RegistryMatchesPool /\ WatchersOccupied
  BY <1>1 DEF RegistryMatchesPool, WatchersOccupied, Occupied
<1>3. AllUpdates = {}
  BY DEF Init, AllUpdates, Elements
<1> QED BY <1>2, <1>3, InitType DEF PoolInv, UpdatesKnown

\* What makes the registry agree with the pool is inductive: no update in any
\* queue is ahead of its slot, and one that is not stale finds a peer in it.
THEOREM PoolInvForever ==
  ASSUME NativeV6 = {}
  PROVE  Spec => []PoolInv
<1>1. Init => PoolInv
  BY PoolInvInit
<1>2. PoolInv /\ [Next]_vars => PoolInv'
  BY PoolInvStep
<1> QED BY <1>1, <1>2, PTL DEF Spec

\* Whatever the order of acquire, registration, erasure and release in the
\* handlers, a slot of the pool is free exactly when no endpoint is registered
\* for it, is never released twice, and serves one endpoint - for every pool
\* and every limit, if no native IPv6 endpoint dials in.
THEOREM PoolAgreesForever ==
  ASSUME NativeV6 = {}
  PROVE  Spec => []RegistryMatchesPool
<1>1. PoolInv => RegistryMatchesPool
  BY DEF PoolInv
<1> QED BY <1>1, PoolInvForever, PTL

\* No update in any queue is ahead of its slot, and whenever one that is not
\* stale is taken its slot holds a peer: the scheduler never dials or deletes
\* a free slot.
THEOREM UpdatesAlwaysKnown ==
  ASSUME NativeV6 = {}
  PROVE  Spec => [](UpdatesKnown /\ WatchersOccupied)
<1>1. PoolInv => UpdatesKnown /\ WatchersOccupied
  BY DEF PoolInv
<1> QED BY <1>1, PoolInvForever, PTL
=============================================================================
