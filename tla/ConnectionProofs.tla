-------------------------- MODULE ConnectionProofs --------------------------
(***************************************************************************)
(* Theorems about the connection manager for every pool, every set of      *)
(* endpoints and every limit.                                              *)
(***************************************************************************)
EXTENDS ConnectionProperties, SequenceTheorems, TLAPS

-----------------------------------------------------------------------------
(* The parts of the type invariant, by who writes them.                    *)

PoolTypeOK ==
  /\ peer \in [Slots -> PeerConnection]
  /\ generation \in [Slots -> Nat]
  /\ available \in [Slots -> Nat]
  /\ registry \in [Endpoints -> Slots \cup {NoSlot}]

CountersTypeOK ==
  /\ connected \in 0 .. SizeMax
  /\ inbound \in 0 .. SizeMax
  /\ outbound \in 0 .. SizeMax

SchedulerTypeOK ==
  /\ pc \in {"loop", "round", "accept"} \cup Spots
  /\ current \in Spots
  /\ empties \in [Spots -> BOOLEAN]
  /\ daemon \in BOOLEAN

QueuesTypeOK ==
  /\ retry_queue \in Seq(Update)
  /\ cache \in Seq(Discoverable) /\ Len(cache) <= CacheSize
  /\ discoveries \in Seq(Discoverable) /\ Len(discoveries) <= DiscoveryCapacity
  /\ discovered_signal \in BOOLEAN
  /\ connects \in Seq(Update) /\ Len(connects) <= SessionCapacity

TransferTypeOK ==
  /\ sessions \in SUBSET Update
  /\ disconnects \in Seq(Update) /\ Len(disconnects) <= SessionCapacity
  /\ disconnected_signal \in BOOLEAN

\* TypeOK is the conjunction of the parts.
LEMMA TypeParts ==
  TypeOK <=> /\ PoolTypeOK /\ CountersTypeOK /\ SchedulerTypeOK
             /\ QueuesTypeOK /\ TransferTypeOK
BY DEF TypeOK, PoolTypeOK, CountersTypeOK, SchedulerTypeOK, QueuesTypeOK,
       TransferTypeOK

\* And so in the next state.
LEMMA TypePartsPrime ==
  ASSUME PoolTypeOK', CountersTypeOK', SchedulerTypeOK', QueuesTypeOK',
         TransferTypeOK'
  PROVE  TypeOK'
BY DEF TypeOK, PoolTypeOK, CountersTypeOK, SchedulerTypeOK, QueuesTypeOK,
       TransferTypeOK

-----------------------------------------------------------------------------
(* Values.                                                                 *)

\* What the handlers make of a connection is a connection.
LEMMA PeerValues ==
  ASSUME NEW p \in PeerConnection
  PROVE  /\ Torn(p) \in PeerConnection
         /\ Closed(p) \in PeerConnection
         /\ Stopped(p) \in PeerConnection
         /\ Waiting(p) \in PeerConnection
         /\ Evicted(p) \in PeerConnection
         /\ \A event \in {"READ", "WRITE"} : Armed(p, event) \in PeerConnection
         /\ \A a \in Endpoints : Accepted(p, a) \in PeerConnection
         /\ \A a \in Endpoints :
              Initialized(p, a, "tracker", "DISCOVERED") \in PeerConnection
<1>1. Torn(p) \in PeerConnection
  BY DEF PeerConnection, Torn
<1>2. Closed(p) \in PeerConnection /\ Evicted(p) \in PeerConnection
  BY DEF PeerConnection, Closed, Evicted
<1>3. Stopped(p) \in PeerConnection
  BY DEF PeerConnection, Stopped
<1>4. Waiting(p) \in PeerConnection
  BY DEF PeerConnection, Waiting
<1>5. \A event \in {"READ", "WRITE"} : Armed(p, event) \in PeerConnection
  BY DEF PeerConnection, Armed
<1>6. \A a \in Endpoints : Accepted(p, a) \in PeerConnection
  BY DEF PeerConnection, Accepted, Initialized, Armed
<1>7. \A a \in Endpoints :
        Initialized(p, a, "tracker", "DISCOVERED") \in PeerConnection
  BY DEF PeerConnection, Initialized
<1> QED BY <1>1, <1>2, <1>3, <1>4, <1>5, <1>6, <1>7

\* One failure more, in any state.
LEMMA FailureCounted ==
  ASSUME NEW p \in PeerConnection,
         NEW st \in {"FAILED", "DISCONNECTED"}
  PROVE  [p EXCEPT !.state = st, !.failures = @ + 1] \in PeerConnection
<1>1. p.failures + 1 \in Nat
  BY DEF PeerConnection
<1> DEFINE n == p.failures + 1
<1> HIDE DEF n
<1>2. n \in Nat => [p EXCEPT !.state = st, !.failures = n] \in PeerConnection
  BY DEF PeerConnection
<1> QED BY <1>1, <1>2 DEF n

\* A dial leaves a connection with the key and the source it had.
LEMMA ConnectValues ==
  ASSUME NEW p \in PeerConnection, NEW outcome \in ConnectOutcomes(p)
  PROVE  /\ outcome.ok \in BOOLEAN
         /\ outcome.peer \in PeerConnection
         /\ outcome.peer.key = p.key
         /\ outcome.peer.source = p.source
<1> DEFINE dialing == Armed([p EXCEPT !.sock = "own"], "WRITE")
           shaking == [dialing EXCEPT !.state = "HANDSHAKE", !.failures = 0]
<1>1. \/ outcome = [ok |-> FALSE, peer |-> p]
      \/ outcome = [ok |-> TRUE, peer |-> dialing]
      \/ outcome = [ok |-> TRUE, peer |-> shaking]
  BY DEF ConnectOutcomes
<1>2. dialing \in PeerConnection /\ dialing.key = p.key /\ dialing.source = p.source
  BY DEF PeerConnection, Armed
<1>3. shaking \in PeerConnection /\ shaking.key = p.key /\ shaking.source = p.source
  <2> HIDE DEF dialing
  <2> QED BY <1>2 DEF PeerConnection
<1> HIDE DEF dialing, shaking
<1>4. CASE outcome = [ok |-> FALSE, peer |-> p]
  BY <1>4
<1>5. CASE outcome = [ok |-> TRUE, peer |-> dialing]
  BY <1>5, <1>2
<1>6. CASE outcome = [ok |-> TRUE, peer |-> shaking]
  BY <1>6, <1>3
<1> QED BY <1>1, <1>4, <1>5, <1>6

\* The counters keep to std::size_t, wrapping around.
LEMMA CountValues ==
  ASSUME NEW n \in 0 .. SizeMax
  PROVE  /\ Increment(n) \in 0 .. SizeMax
         /\ Decrement(n) \in 0 .. SizeMax
         /\ DecrementConnected(n) \in 0 .. SizeMax
BY CountAssumption DEF Increment, Decrement, DecrementConnected

\* The cache takes the newest entries, up to its size.
LEMMA NewestValues ==
  ASSUME NEW q \in Seq(Discoverable)
  PROVE  Newest(q) \in Seq(Discoverable) /\ Len(Newest(q)) <= CacheSize
<1>1. CASE Len(q) <= CacheSize
  BY <1>1 DEF Newest
<1>2. CASE ~(Len(q) <= CacheSize)
  <2> DEFINE first == Len(q) - CacheSize + 1
  <2>1. /\ Newest(q) = SubSeq(q, first, Len(q))
        /\ first \in 1 .. Len(q) /\ Len(q) \in Nat /\ CacheSize \in Nat
    BY <1>2, LimitAssumption DEF Newest
  <2>2. /\ SubSeq(q, first, Len(q)) \in Seq(Discoverable)
        /\ Len(SubSeq(q, first, Len(q))) = CacheSize
    BY <2>1, SubSeqProperties
  <2> QED BY <2>1, <2>2
<1> QED BY <1>1, <1>2

\* What drain_discovered leaves in the cache is what its loop's pushes leave one
\* by one: one more entry is the push of NewestEntries, which the cache's code
\* is proved to implement.
THEOREM DrainIsPushes ==
  ASSUME NEW q \in Seq(Discoverable), NEW a \in Discoverable
  PROVE  Newest(Append(q, a)) =
           Append(IF Len(Newest(q)) < CacheSize THEN Newest(q) ELSE Tail(Newest(q)), a)
<1> DEFINE n == Len(q)
           r == Append(q, a)
<1>1. /\ n \in Nat /\ CacheSize \in Nat /\ CacheSize > 0
      /\ r \in Seq(Discoverable) /\ Len(r) = n + 1 /\ r[n + 1] = a
      /\ \A i \in 1 .. n : r[i] = q[i]
  BY LimitAssumption
<1>2. CASE n < CacheSize
  <2>1. Newest(q) = q /\ Newest(r) = r
    BY <1>1, <1>2 DEF Newest
  <2> QED BY <1>2, <2>1
<1>3. CASE n >= CacheSize
  <2> DEFINE k == Newest(q)
  <2>1. Newest(r) = SubSeq(r, n + 1 - CacheSize + 1, n + 1)
    <3> HIDE DEF n, r
    <3>1. n \in Nat /\ CacheSize \in Nat /\ Len(r) = n + 1 /\ ~(Len(r) <= CacheSize)
      BY <1>1, <1>3
    <3>2. Newest(r) = SubSeq(r, Len(r) - CacheSize + 1, Len(r))
      BY <3>1 DEF Newest
    <3>3. Len(r) - CacheSize + 1 = n + 1 - CacheSize + 1
      BY <3>1
    <3> QED BY <3>1, <3>2, <3>3, Zenon
  <2>2. k = SubSeq(q, n - CacheSize + 1, n)
    <3>1. CASE n > CacheSize
      BY <1>1, <3>1 DEF Newest
    <3>2. CASE n = CacheSize
      <4>1. k = q
        BY <1>1, <3>2 DEF Newest
      <4>2. SubSeq(q, 1, n) = q
        BY <1>1
      <4> QED BY <1>1, <3>2, <4>1, <4>2
    <3> QED BY <1>1, <1>3, <3>1, <3>2
  <2> HIDE DEF n, r, k
  <2>3. /\ k \in Seq(Discoverable) /\ Len(k) = CacheSize
        /\ \A i \in 1 .. CacheSize : k[i] = q[n - CacheSize + i]
    BY <1>1, <1>3, <2>2 DEF n
  <2>4. /\ Newest(r) \in Seq(Discoverable) /\ Len(Newest(r)) = CacheSize
        /\ \A i \in 1 .. CacheSize : Newest(r)[i] = r[n + 1 - CacheSize + i]
    BY <1>1, <1>3, <2>1
  <2>5. /\ Tail(k) \in Seq(Discoverable) /\ Len(Tail(k)) = CacheSize - 1
        /\ \A i \in 1 .. CacheSize - 1 : Tail(k)[i] = k[i + 1]
    BY <1>1, <2>3
  <2> DEFINE t == Append(Tail(k), a)
  <2>6. /\ t \in Seq(Discoverable) /\ Len(t) = CacheSize /\ t[CacheSize] = a
        /\ \A i \in 1 .. CacheSize - 1 : t[i] = Tail(k)[i]
    BY <1>1, <2>5
  <2> HIDE DEF t
  <2>7. ASSUME NEW i \in 1 .. CacheSize
        PROVE  Newest(r)[i] = t[i]
    <3>1. CASE i = CacheSize
      BY <1>1, <2>4, <2>6, <3>1
    <3>2. CASE i < CacheSize
      <4>1. i \in 1 .. CacheSize - 1 /\ i + 1 \in 1 .. CacheSize
            /\ n - CacheSize + (i + 1) \in 1 .. n
        BY <1>1, <1>3, <3>2
      <4>2. t[i] = q[n - CacheSize + (i + 1)]
        BY <2>3, <2>5, <2>6, <4>1
      <4>3. Newest(r)[i] = r[n + 1 - CacheSize + i]
        BY <2>4
      <4>4. n + 1 - CacheSize + i = n - CacheSize + (i + 1)
        BY <1>1
      <4> QED BY <1>1, <4>1, <4>2, <4>3, <4>4
    <3> QED BY <1>1, <3>1, <3>2
  <2>8. Newest(r) = t
    BY <1>1, <2>4, <2>6, <2>7
  <2> QED BY <1>1, <2>3, <2>8 DEF k, r, t
<1> QED BY <1>1, <1>2, <1>3

-----------------------------------------------------------------------------
(* Effects.                                                                *)

\* Deleting a peer, or replacing it, keeps the pool well typed.
LEMMA DeletePeerType ==
  ASSUME PoolTypeOK, NEW s \in Slots, NEW p \in PeerConnection, DeletePeer(s, p)
  PROVE  PoolTypeOK'
<1>1. peer' \in [Slots -> PeerConnection]
  BY PeerValues DEF PoolTypeOK, DeletePeer
<1>2. generation' \in [Slots -> Nat] /\ available' \in [Slots -> Nat]
  BY DEF PoolTypeOK, DeletePeer, Aged
<1>3. registry' \in [Endpoints -> Slots \cup {NoSlot}]
  BY DEF PoolTypeOK, DeletePeer, Deregister
<1> QED BY <1>1, <1>2, <1>3 DEF PoolTypeOK

LEMMA SetPeerType ==
  ASSUME PoolTypeOK, NEW s \in Slots, NEW p \in PeerConnection, SetPeer(s, p)
  PROVE  PoolTypeOK'
BY DEF PoolTypeOK, SetPeer

\* Resolving a peer keeps the counters and the daemon's flag well typed.
LEMMA ResolvedType ==
  ASSUME CountersTypeOK, daemon \in BOOLEAN, NEW source, Resolved(source)
  PROVE  inbound' \in 0 .. SizeMax /\ outbound' \in 0 .. SizeMax /\ daemon' \in BOOLEAN
BY CountValues DEF CountersTypeOK, Resolved

\* A failure keeps pool and counters well typed, and leaves connects alone.
LEMMA HandlePeerFailureType ==
  ASSUME PoolTypeOK, CountersTypeOK, daemon \in BOOLEAN,
         NEW s \in Slots, HandlePeerFailure(s)
  PROVE  /\ PoolTypeOK' /\ CountersTypeOK' /\ daemon' \in BOOLEAN
         /\ UNCHANGED connects
<1> DEFINE p == [Closed(peer[s]) EXCEPT !.state = "FAILED", !.failures = @ + 1]
<1>1. p \in PeerConnection
  <2>1. Closed(peer[s]) \in PeerConnection
    BY PeerValues DEF PoolTypeOK
  <2> QED BY <2>1, FailureCounted
<1>2. /\ Resolved(p.source) /\ UNCHANGED <<connected, connects>>
      /\ DeletePeer(s, p) \/ SetPeer(s, Waiting(p))
  BY DEF HandlePeerFailure
<1> HIDE DEF p
<1>3. PoolTypeOK'
  BY <1>1, <1>2, PeerValues, DeletePeerType, SetPeerType
<1>4. CountersTypeOK' /\ daemon' \in BOOLEAN
  BY <1>2, ResolvedType DEF CountersTypeOK
<1> QED BY <1>2, <1>3, <1>4

\* A dispatch keeps pool, counters and the connects queue well typed.
LEMMA DispatchType ==
  ASSUME PoolTypeOK, CountersTypeOK, daemon \in BOOLEAN,
         connects \in Seq(Update), Len(connects) <= SessionCapacity,
         NEW s \in Slots, NEW p \in PeerConnection, Dispatch(s, p)
  PROVE  /\ PoolTypeOK' /\ CountersTypeOK' /\ daemon' \in BOOLEAN
         /\ connects' \in Seq(Update) /\ Len(connects') <= SessionCapacity
<1> DEFINE q == [Stopped(p) EXCEPT !.state = "CONNECTED", !.sock = "handed"]
<1>1. q \in PeerConnection
  <2>1. Stopped(p) \in PeerConnection
    BY PeerValues
  <2> QED BY <2>1 DEF PeerConnection
<1>2. PoolTypeOK'
  <2> HIDE DEF q
  <2>1. SetPeer(s, q)
    BY DEF Dispatch, q
  <2> QED BY <1>1, <2>1, SetPeerType
<1>3. CountersTypeOK' /\ daemon' \in BOOLEAN
  <2>1. connected' = Increment(connected) /\ Resolved(p.source)
    BY DEF Dispatch
  <2> QED BY <2>1, ResolvedType, CountValues DEF CountersTypeOK
<1>4. connects' \in Seq(Update) /\ Len(connects') <= SessionCapacity
  <2>1. UpdateOf(s) \in Update
    BY DEF UpdateOf, Update, PoolTypeOK
  <2>2. SessionCapacity \in Nat
    BY LimitAssumption
  <2>3. CASE Len(connects) < SessionCapacity
    BY <2>1, <2>2, <2>3 DEF Dispatch
  <2>4. CASE ~(Len(connects) < SessionCapacity)
    BY <2>4 DEF Dispatch
  <2> QED BY <2>3, <2>4
<1> QED BY <1>2, <1>3, <1>4

-----------------------------------------------------------------------------
(* Type correctness, one lemma per group of actions.                       *)

\* What a callback's frame leaves alone keeps its type.
LEMMA CallbackFrameType ==
  ASSUME TypeOK, CallbackFrame,
         PoolTypeOK', CountersTypeOK', daemon' \in BOOLEAN,
         connects' \in Seq(Update), Len(connects') <= SessionCapacity
  PROVE  TypeOK'
BY DEF TypeOK, PoolTypeOK, CountersTypeOK, CallbackFrame, scheduler,
       fromTracker, transfer

\* A failure, a dispatch, a deletion or a quiet change of the peer is all that
\* a socket callback does besides its frame.
LEMMA SocketCallbackType ==
  ASSUME TypeOK, NEW s \in Slots, SocketCallback(s)
  PROVE  TypeOK'
<1> USE TypeParts
<1>1. /\ PoolTypeOK /\ CountersTypeOK /\ daemon \in BOOLEAN
      /\ connects \in Seq(Update) /\ Len(connects) <= SessionCapacity
      /\ peer[s] \in PeerConnection
  BY DEF SchedulerTypeOK, QueuesTypeOK, PoolTypeOK
<1>2. CallbackFrame
  BY DEF SocketCallback, QuotaDeletes, SocketError, TransportInitiation,
         HandshakeSent, HandshakeReceived
<1>3. CASE HandlePeerFailure(s)
  BY <1>1, <1>2, <1>3, HandlePeerFailureType, CallbackFrameType
<1>4. ASSUME NEW p \in PeerConnection, DeletePeer(s, p), Quietly PROVE TypeOK'
  BY <1>1, <1>2, <1>4, DeletePeerType, CallbackFrameType
     DEF Quietly, counters, CountersTypeOK
<1>5. ASSUME NEW p \in PeerConnection, SetPeer(s, p), Quietly PROVE TypeOK'
  BY <1>1, <1>2, <1>5, SetPeerType, CallbackFrameType
     DEF Quietly, counters, CountersTypeOK
<1>6. ASSUME NEW p \in PeerConnection, Dispatch(s, p) PROVE TypeOK'
  BY <1>1, <1>2, <1>6, DispatchType, CallbackFrameType
<1>7. CASE QuotaDeletes(s)
  BY <1>1, <1>4, <1>7 DEF QuotaDeletes
<1>8. CASE SocketError(s)
  BY <1>3, <1>8 DEF SocketError
<1>9. CASE TransportInitiation(s)
  <2> DEFINE sent == [peer[s] EXCEPT !.state = "HANDSHAKE", !.send = "sent",
                                     !.io = "READ"]
             queued == [peer[s] EXCEPT !.state = "HANDSHAKE", !.send = "queued",
                                       !.io = "WRITE"]
  <2>1. sent \in PeerConnection /\ queued \in PeerConnection
    BY <1>1 DEF PeerConnection
  <2>2. \/ HandlePeerFailure(s)
        \/ SetPeer(s, sent) /\ Quietly
        \/ SetPeer(s, queued) /\ Quietly
    BY <1>9 DEF TransportInitiation
  <2> HIDE DEF sent, queued
  <2> QED BY <2>1, <2>2, <1>3, <1>5
<1>10. CASE HandshakeSent(s)
  <2> DEFINE p == [peer[s] EXCEPT !.send = IF @ = "queued" THEN "sent" ELSE @]
             reading == [p EXCEPT !.io = "READ"]
  <2>1. p \in PeerConnection /\ reading \in PeerConnection
    BY <1>1 DEF PeerConnection
  <2>2. \/ HandlePeerFailure(s)
        \/ SetPeer(s, reading) /\ Quietly
        \/ Dispatch(s, p)
    BY <1>10 DEF HandshakeSent
  <2> HIDE DEF p, reading
  <2> QED BY <2>1, <2>2, <1>3, <1>5, <1>6
<1>11. CASE HandshakeReceived(s)
  <2> DEFINE sent == [peer[s] EXCEPT !.send = "sent"]
             queued == [peer[s] EXCEPT !.send = "queued", !.io = "WRITE"]
  <2>1. sent \in PeerConnection /\ queued \in PeerConnection
    BY <1>1 DEF PeerConnection
  <2>2. Closed(peer[s]) \in PeerConnection
    BY <1>1, PeerValues
  <2>3. \/ HandlePeerFailure(s)
        \/ DeletePeer(s, Closed(peer[s])) /\ Quietly
        \/ Dispatch(s, peer[s])
        \/ Dispatch(s, sent)
        \/ SetPeer(s, queued) /\ Quietly
    BY <1>11 DEF HandshakeReceived
  <2> HIDE DEF sent, queued
  <2> QED BY <2>1, <2>2, <2>3, <1>1, <1>3, <1>4, <1>5, <1>6
<1> QED BY <1>7, <1>8, <1>9, <1>10, <1>11 DEF SocketCallback

LEMMA TimerCallbackType ==
  ASSUME TypeOK, NEW s \in Slots, TimerCallback(s)
  PROVE  TypeOK'
<1>1. CASE ConnectTimer(s)
  <2>1. /\ PoolTypeOK /\ CountersTypeOK /\ daemon \in BOOLEAN
        /\ connects \in Seq(Update) /\ Len(connects) <= SessionCapacity
    BY DEF TypeOK, PoolTypeOK, CountersTypeOK
  <2> QED BY <1>1, <2>1, HandlePeerFailureType, CallbackFrameType DEF ConnectTimer
<1>2. CASE RetryTimer(s)
  <2>1. PoolTypeOK'
    <3>1. PoolTypeOK /\ Stopped(peer[s]) \in PeerConnection
      BY PeerValues DEF TypeOK, PoolTypeOK
    <3> QED BY <1>2, <3>1, SetPeerType DEF RetryTimer
  <2>2. UpdateOf(s) \in Update
    BY DEF TypeOK, UpdateOf, Update
  <2>3. retry_queue' \in Seq(Update)
    BY <1>2, <2>2 DEF RetryTimer, TypeOK
  <2> QED BY <1>2, <2>1, <2>3
       DEF RetryTimer, TypeOK, PoolTypeOK, counters, scheduler, fromTracker, transfer
<1> QED BY <1>1, <1>2 DEF TimerCallback

\* Whatever a handler returns, the round robin goes on from a known spot.
LEMMA HandlerReturnsType ==
  ASSUME SchedulerTypeOK, NEW found \in BOOLEAN, HandlerReturns(found)
  PROVE  /\ pc' \in {"loop", "round", "accept"} \cup Spots
         /\ current' \in Spots
         /\ empties' \in [Spots -> BOOLEAN]
<1>1. NextSpot(current) \in Spots
  BY DEF SchedulerTypeOK, Spots, NextSpot
<1> QED BY <1>1 DEF SchedulerTypeOK, HandlerReturns

\* A dial on a well typed peer keeps pool, inbound and scheduler well typed.
LEMMA InitiateConnectType ==
  ASSUME PoolTypeOK, inbound \in 0 .. SizeMax, SchedulerTypeOK,
         NEW s \in Slots, NEW p \in PeerConnection, InitiateConnect(s, p)
  PROVE  /\ PoolTypeOK' /\ inbound' \in 0 .. SizeMax
         /\ pc' \in {"loop", "round", "accept"} \cup Spots
         /\ current' \in Spots
         /\ empties' \in [Spots -> BOOLEAN]
<1>1. PICK outcome \in ConnectOutcomes(p) :
        IF outcome.ok
        THEN /\ SetPeer(s, outcome.peer)
             /\ inbound' = Increment(inbound)
             /\ HandlerReturns(TRUE)
        ELSE /\ DeletePeer(s, outcome.peer)
             /\ UNCHANGED <<inbound, pc, scheduler>>
  BY DEF InitiateConnect
<1>2. outcome.ok \in BOOLEAN /\ outcome.peer \in PeerConnection
  BY ConnectValues
<1>3. CASE outcome.ok
  BY <1>1, <1>2, <1>3, SetPeerType, CountValues, HandlerReturnsType
<1>4. CASE ~outcome.ok
  BY <1>1, <1>2, <1>4, DeletePeerType DEF SchedulerTypeOK, scheduler
<1> QED BY <1>2, <1>3, <1>4

LEMMA DiscoveredPeerType ==
  ASSUME TypeOK, DiscoveredPeer
  PROVE  TypeOK'
<1> USE TypeParts
<1>1. PICK s \in {t \in Slots : available[t] > 0} :
       LET a == cache[Len(cache)]
           p == Initialized(peer[s], a, "tracker", "DISCOVERED")
       IN  IF registry[a] # NoSlot
           THEN /\ generation' = [generation EXCEPT ![s] = @ + 1]
                /\ UNCHANGED <<peer, available, registry, inbound, pc, scheduler>>
           ELSE \E outcome \in ConnectOutcomes(p) :
                  IF outcome.ok
                  THEN /\ peer' = [peer EXCEPT ![s] = outcome.peer]
                       /\ available' = [available EXCEPT ![s] = @ - 1]
                       /\ registry' = [registry EXCEPT ![a] = s]
                       /\ inbound' = Increment(inbound)
                       /\ HandlerReturns(TRUE)
                       /\ UNCHANGED generation
                  ELSE /\ peer' = [peer EXCEPT ![s] = Torn(outcome.peer)]
                       /\ generation' = [generation EXCEPT ![s] = @ + 1]
                       /\ UNCHANGED <<available, registry, inbound, pc, scheduler>>
  BY DEF DiscoveredPeer, Aged
<1> DEFINE a == cache[Len(cache)]
           p == Initialized(peer[s], a, "tracker", "DISCOVERED")
<1>2. /\ cache \in Seq(Discoverable) /\ cache # <<>> /\ Len(cache) <= CacheSize
      /\ cache' = SubSeq(cache, 1, Len(cache) - 1)
      /\ CacheSize \in Nat
  BY LimitAssumption DEF QueuesTypeOK, DiscoveredPeer
<1>3. a \in Endpoints
  BY <1>2 DEF Endpoints
<1>4. cache' \in Seq(Discoverable) /\ Len(cache') <= CacheSize
  BY <1>2, SubSeqProperties
<1>5. p \in PeerConnection
  BY <1>3, PeerValues DEF PoolTypeOK
<1> HIDE DEF a, p
<1>6. /\ PoolTypeOK' /\ inbound' \in 0 .. SizeMax
      /\ pc' \in {"loop", "round", "accept"} \cup Spots
      /\ current' \in Spots /\ empties' \in [Spots -> BOOLEAN]
  <2>1. CASE registry[a] # NoSlot
    <3>1. /\ generation' = [generation EXCEPT ![s] = @ + 1]
          /\ UNCHANGED <<peer, available, registry, inbound, pc, scheduler>>
      BY <1>1, <2>1 DEF a
    <3> QED BY <3>1 DEF PoolTypeOK, CountersTypeOK, SchedulerTypeOK, scheduler
  <2>2. CASE registry[a] = NoSlot
    <3>1. PICK outcome \in ConnectOutcomes(p) :
            IF outcome.ok
            THEN /\ peer' = [peer EXCEPT ![s] = outcome.peer]
                 /\ available' = [available EXCEPT ![s] = @ - 1]
                 /\ registry' = [registry EXCEPT ![a] = s]
                 /\ inbound' = Increment(inbound)
                 /\ HandlerReturns(TRUE)
                 /\ UNCHANGED generation
            ELSE /\ peer' = [peer EXCEPT ![s] = Torn(outcome.peer)]
                 /\ generation' = [generation EXCEPT ![s] = @ + 1]
                 /\ UNCHANGED <<available, registry, inbound, pc, scheduler>>
      BY <1>1, <2>2 DEF a, p
    <3>2. outcome.ok \in BOOLEAN /\ outcome.peer \in PeerConnection
      BY <1>5, ConnectValues
    <3>3. Torn(outcome.peer) \in PeerConnection
      BY <3>2, PeerValues
    <3>4. CASE outcome.ok
      <4>1. available[s] - 1 \in Nat
        BY DEF PoolTypeOK
      <4>2. PoolTypeOK'
        BY <1>3, <3>1, <3>2, <3>4, <4>1 DEF PoolTypeOK
      <4> QED BY <3>1, <3>4, <4>2, CountValues, HandlerReturnsType DEF CountersTypeOK
    <3>5. CASE ~outcome.ok
      BY <3>1, <3>3, <3>5 DEF PoolTypeOK, CountersTypeOK, SchedulerTypeOK, scheduler
    <3> QED BY <3>2, <3>4, <3>5
  <2> QED BY <2>1, <2>2
<1>7. UNCHANGED <<connected, outbound, retry_queue, daemon, fromTracker,
                  connects, transfer>>
  BY DEF DiscoveredPeer
<1> QED BY <1>4, <1>6, <1>7, TypePartsPrime
     DEF CountersTypeOK, SchedulerTypeOK, QueuesTypeOK, TransferTypeOK,
         fromTracker, transfer

\* The head of a queue of updates is an update, its tail is such a queue.
LEMMA UpdateQueue ==
  ASSUME NEW q \in Seq(Update), q # <<>>
  PROVE  /\ Head(q) \in Update /\ Head(q).slot \in Slots
         /\ Head(q).generation \in Nat
         /\ Tail(q) \in Seq(Update) /\ Len(Tail(q)) = Len(q) - 1
         /\ Len(q) \in Nat
<1>1. Head(q) \in Update /\ Tail(q) \in Seq(Update) /\ Len(Tail(q)) = Len(q) - 1
  BY HeadTailProperties
<1>2. Len(q) \in Nat
  OBVIOUS
<1> QED BY <1>1, <1>2 DEF Update

LEMMA DisconnectedPeerType ==
  ASSUME TypeOK, DisconnectedPeer
  PROVE  TypeOK'
<1> USE TypeParts
<1> DEFINE u == Head(disconnects)
           s == u.slot
           p == [peer[s] EXCEPT !.state = "DISCONNECTED", !.failures = @ + 1]
<1>1. s \in Slots /\ disconnects' \in Seq(Update) /\ Len(disconnects') <= SessionCapacity
  BY UpdateQueue, LimitAssumption DEF TransferTypeOK, DisconnectedPeer
<1>2. p \in PeerConnection
  BY <1>1, FailureCounted DEF PoolTypeOK
<1>3. /\ PoolTypeOK' /\ connected' \in 0 .. SizeMax /\ inbound' \in 0 .. SizeMax
      /\ pc' \in {"loop", "round", "accept"} \cup Spots
      /\ current' \in Spots /\ empties' \in [Spots -> BOOLEAN]
  <2>1. CASE ~IsCurrent(u)
    BY <2>1 DEF DisconnectedPeer, PoolTypeOK, CountersTypeOK, SchedulerTypeOK,
                pool, scheduler
  <2>2. CASE IsCurrent(u)
    <3>1. /\ connected' = DecrementConnected(connected)
          /\ \/ DeletePeer(s, p) /\ UNCHANGED <<inbound, pc, scheduler>>
             \/ InitiateConnect(s, p)
      BY <2>2 DEF DisconnectedPeer
    <3> HIDE DEF s, p
    <3>2. connected' \in 0 .. SizeMax
      BY <3>1, CountValues DEF CountersTypeOK
    <3>3. CASE DeletePeer(s, p) /\ UNCHANGED <<inbound, pc, scheduler>>
      BY <1>1, <1>2, <3>2, <3>3, DeletePeerType
         DEF CountersTypeOK, SchedulerTypeOK, scheduler
    <3>4. CASE InitiateConnect(s, p)
      BY <1>1, <1>2, <3>2, <3>4, InitiateConnectType DEF CountersTypeOK
    <3> QED BY <3>1, <3>3, <3>4
  <2> QED BY <2>1, <2>2
<1>4. UNCHANGED <<outbound, retry_queue, cache, daemon, fromTracker, connects,
                  sessions, disconnected_signal>>
  BY DEF DisconnectedPeer
<1> QED BY <1>1, <1>3, <1>4, TypePartsPrime
     DEF CountersTypeOK, SchedulerTypeOK, QueuesTypeOK, TransferTypeOK,
         fromTracker

LEMMA FailedPeerType ==
  ASSUME TypeOK, FailedPeer
  PROVE  TypeOK'
<1> USE TypeParts
<1> DEFINE u == Head(retry_queue)
<1>1. u.slot \in Slots /\ retry_queue' \in Seq(Update)
  BY UpdateQueue DEF QueuesTypeOK, FailedPeer
<1>2. peer[u.slot] \in PeerConnection
  BY <1>1 DEF PoolTypeOK
<1>3. \/ InitiateConnect(u.slot, peer[u.slot])
      \/ UNCHANGED <<pool, inbound, pc, scheduler>>
  BY DEF FailedPeer
<1>4. UNCHANGED <<connected, outbound, cache, daemon, fromTracker, connects,
                  transfer>>
  BY DEF FailedPeer
<1> HIDE DEF u
<1>5. /\ PoolTypeOK' /\ inbound' \in 0 .. SizeMax
      /\ pc' \in {"loop", "round", "accept"} \cup Spots
      /\ current' \in Spots /\ empties' \in [Spots -> BOOLEAN]
  <2>1. CASE InitiateConnect(u.slot, peer[u.slot])
    BY <1>1, <1>2, <2>1, InitiateConnectType DEF CountersTypeOK
  <2>2. CASE UNCHANGED <<pool, inbound, pc, scheduler>>
    BY <2>2 DEF PoolTypeOK, CountersTypeOK, SchedulerTypeOK, pool, scheduler
  <2> QED BY <1>3, <2>1, <2>2
<1> QED BY <1>1, <1>4, <1>5, TypePartsPrime
     DEF CountersTypeOK, SchedulerTypeOK, QueuesTypeOK, TransferTypeOK,
         fromTracker, transfer

\* The steps of the scheduler that move no peer.
LEMMA RoundType ==
  ASSUME TypeOK, DaemonSignalled \/ RoundBegins \/ NothingLeft
  PROVE  TypeOK'
<1> USE TypeParts
<1>1. /\ pc' \in {"loop", "round", "accept"} \cup Spots
      /\ current' \in Spots /\ empties' \in [Spots -> BOOLEAN]
      /\ daemon' \in BOOLEAN
  <2>1. CASE DaemonSignalled
    BY <2>1 DEF DaemonSignalled, SchedulerTypeOK, scheduler
  <2>2. CASE RoundBegins
    <3>1. \/ HandlerReturns(FALSE)
          \/ pc' = "loop" /\ UNCHANGED scheduler
          \/ pc' = current /\ UNCHANGED scheduler
      BY <2>2 DEF RoundBegins
    <3> QED BY <2>2, <3>1, HandlerReturnsType
         DEF RoundBegins, SchedulerTypeOK, scheduler
  <2>3. CASE NothingLeft
    BY <2>3, HandlerReturnsType DEF NothingLeft, SchedulerTypeOK
  <2> QED BY <2>1, <2>2, <2>3
<1>2. UNCHANGED <<pool, counters, retry_queue, cache, fromTracker, connects,
                  transfer>>
  BY DEF DaemonSignalled, RoundBegins, NothingLeft
<1> QED BY <1>1, <1>2, TypePartsPrime
     DEF PoolTypeOK, CountersTypeOK, SchedulerTypeOK, QueuesTypeOK,
         TransferTypeOK, pool, counters, fromTracker, transfer

LEMMA AcceptType ==
  ASSUME TypeOK, ServerReadable \/ Accepting
  PROVE  TypeOK'
<1> USE TypeParts
<1>1. CASE ServerReadable \/ AcceptEnds
  BY <1>1, TypePartsPrime
     DEF ServerReadable, AcceptEnds, PoolTypeOK, CountersTypeOK,
         SchedulerTypeOK, QueuesTypeOK, TransferTypeOK, pool, counters,
         scheduler, fromTracker, transfer
<1>2. ASSUME NEW s \in Slots, NEW a \in Dialing \cup NativeV6, AcceptUnique(s, a)
      PROVE  TypeOK'
  <2>1. a \in Endpoints /\ Accepted(peer[s], a) \in PeerConnection
    BY PeerValues DEF Endpoints, PoolTypeOK
  <2>2. available[s] - 1 \in Nat
    BY <1>2 DEF AcceptUnique, PoolTypeOK
  <2>3. PoolTypeOK'
    BY <1>2, <2>1, <2>2 DEF AcceptUnique, PoolTypeOK
  <2>4. CountersTypeOK'
    BY <1>2, CountValues DEF AcceptUnique, CountersTypeOK
  <2> QED BY <1>2, <2>3, <2>4, TypePartsPrime
       DEF AcceptUnique, SchedulerTypeOK, QueuesTypeOK, TransferTypeOK,
           scheduler, fromTracker, transfer
<1>3. ASSUME NEW s \in Slots, NEW a \in Dialing \cup NativeV6, AcceptEvicting(s, a)
      PROVE  TypeOK'
  <2> DEFINE old == IF registry[a] = NoSlot THEN s ELSE registry[a]
             p == Evicted(peer[old])
             torn == [peer EXCEPT ![old] = Torn(p)]
             taken == [available EXCEPT ![s] = @ - 1]
  <2>1. a \in Endpoints /\ old \in Slots
    BY DEF Endpoints, PoolTypeOK
  <2>2. p \in PeerConnection
    BY <2>1, PeerValues DEF PoolTypeOK
  <2>3. /\ available[s] > 0
        /\ peer' = [torn EXCEPT ![s] = Accepted(@, a)]
        /\ generation' = [generation EXCEPT ![old] = @ + 1]
        /\ available' = [taken EXCEPT ![old] = @ + 1]
        /\ registry' = [Deregister(p.key) EXCEPT ![a] = s]
        /\ outbound' \in {Decrement(Increment(outbound)), Increment(outbound)}
        /\ \/ inbound' = Decrement(inbound) /\ daemon' = TRUE
           \/ UNCHANGED <<inbound, daemon>>
        /\ UNCHANGED <<connected, pc, scheduler, retry_queue, cache,
                       fromTracker, connects, transfer>>
    BY <1>3 DEF AcceptEvicting, Aged
  <2> HIDE DEF old, p
  <2>4. torn \in [Slots -> PeerConnection]
    BY <2>1, <2>2, PeerValues DEF PoolTypeOK
  <2>5. peer' \in [Slots -> PeerConnection]
    <3> HIDE DEF torn
    <3>1. Accepted(torn[s], a) \in PeerConnection
      BY <2>1, <2>4, PeerValues
    <3> QED BY <2>3, <2>4, <3>1
  <2>6. available' \in [Slots -> Nat]
    <3>1. taken \in [Slots -> Nat]
      BY <2>3 DEF PoolTypeOK
    <3> HIDE DEF taken
    <3> QED BY <2>1, <2>3, <3>1
  <2>7. registry' \in [Endpoints -> Slots \cup {NoSlot}]
    BY <2>1, <2>3 DEF Deregister, PoolTypeOK
  <2>8. generation' \in [Slots -> Nat]
    BY <2>1, <2>3 DEF PoolTypeOK
  <2>9. CountersTypeOK' /\ daemon' \in BOOLEAN
    BY <2>3, CountValues DEF CountersTypeOK, SchedulerTypeOK
  <2> QED BY <2>3, <2>5, <2>6, <2>7, <2>8, <2>9, TypePartsPrime
       DEF PoolTypeOK, SchedulerTypeOK, QueuesTypeOK, TransferTypeOK,
           scheduler, fromTracker, transfer
<1> QED BY <1>1, <1>2, <1>3 DEF Accepting

LEMMA AsyncCallbackType ==
  ASSUME TypeOK, DrainDiscovered \/ NotifyDisconnected
  PROVE  TypeOK'
<1> USE TypeParts
<1>1. CASE DrainDiscovered
  <2>1. cache \o discoveries \in Seq(Discoverable)
    BY ConcatProperties DEF QueuesTypeOK
  <2>2. cache' \in Seq(Discoverable) /\ Len(cache') <= CacheSize
    BY <1>1, <2>1, NewestValues DEF DrainDiscovered
  <2>3. /\ discoveries' = <<>> /\ discovered_signal' = FALSE
        /\ daemon' \in BOOLEAN
        /\ UNCHANGED <<pool, counters, pc, scheduler, retry_queue, connects, transfer>>
    BY <1>1 DEF DrainDiscovered
  <2>4. discoveries' \in Seq(Discoverable) /\ Len(discoveries') <= DiscoveryCapacity
    BY <2>3, LimitAssumption
  <2> QED BY <2>2, <2>3, <2>4, TypePartsPrime
       DEF PoolTypeOK, CountersTypeOK, SchedulerTypeOK, QueuesTypeOK,
           TransferTypeOK, pool, counters, scheduler, transfer
<1>2. CASE NotifyDisconnected
  BY <1>2, TypePartsPrime
     DEF NotifyDisconnected, PoolTypeOK, CountersTypeOK, SchedulerTypeOK,
         QueuesTypeOK, TransferTypeOK, pool, counters, scheduler, fromTracker
<1> QED BY <1>1, <1>2

LEMMA OtherThreadsType ==
  ASSUME TypeOK, OtherThreads
  PROVE  TypeOK'
<1> USE TypeParts
<1>1. ASSUME NEW a \in Discoverable, TrackerReports(a) PROVE TypeOK'
  <2>1. discoveries' \in Seq(Discoverable) /\ Len(discoveries') <= DiscoveryCapacity
    BY <1>1, LimitAssumption DEF TrackerReports, QueuesTypeOK
  <2> QED BY <1>1, <2>1, TypePartsPrime
       DEF TrackerReports, PoolTypeOK, CountersTypeOK, SchedulerTypeOK,
           QueuesTypeOK, TransferTypeOK, pool, counters, scheduler, transfer
<1>2. CASE SessionBegins
  <2>1. /\ connects' \in Seq(Update) /\ Len(connects') <= SessionCapacity
        /\ sessions' \in SUBSET Update
    BY <1>2, UpdateQueue, LimitAssumption
       DEF SessionBegins, QueuesTypeOK, TransferTypeOK
  <2> QED BY <1>2, <2>1, TypePartsPrime
       DEF SessionBegins, PoolTypeOK, CountersTypeOK, SchedulerTypeOK,
           QueuesTypeOK, TransferTypeOK, pool, counters, scheduler, fromTracker
<1>3. ASSUME NEW u \in sessions, SessionEnds(u) PROVE TypeOK'
  <2>1. /\ disconnects' \in Seq(Update) /\ Len(disconnects') <= SessionCapacity
        /\ sessions' \in SUBSET Update
    BY <1>3, LimitAssumption DEF SessionEnds, TransferTypeOK
  <2> QED BY <1>3, <2>1, TypePartsPrime
       DEF SessionEnds, PoolTypeOK, CountersTypeOK, SchedulerTypeOK,
           QueuesTypeOK, TransferTypeOK, pool, counters, scheduler, fromTracker
<1> QED BY <1>1, <1>2, <1>3 DEF OtherThreads

\* Every step of the program, or of the threads it talks to, keeps TypeOK.
LEMMA NextType ==
  ASSUME TypeOK, [Next]_vars
  PROVE  TypeOK'
<1>1. CASE \E s \in Slots : SocketCallback(s) \/ TimerCallback(s)
  BY <1>1, SocketCallbackType, TimerCallbackType
<1>2. CASE DaemonSignalled \/ Scheduling
  BY <1>2, RoundType, DiscoveredPeerType, DisconnectedPeerType, FailedPeerType
     DEF Scheduling
<1>3. CASE ServerReadable \/ Accepting
  BY <1>3, AcceptType
<1>4. CASE DrainDiscovered \/ NotifyDisconnected
  BY <1>4, AsyncCallbackType
<1>5. CASE OtherThreads
  BY <1>5, OtherThreadsType
<1>6. CASE UNCHANGED vars
  BY <1>6 DEF vars, TypeOK, pool, counters, scheduler, fromTracker, transfer
<1> QED BY <1>1, <1>2, <1>3, <1>4, <1>5, <1>6 DEF Next, Manager

LEMMA InitType == Init => TypeOK
<1> SUFFICES ASSUME Init PROVE TypeOK
  OBVIOUS
<1>1. PoolTypeOK
  BY DEF Init, PoolTypeOK, PeerConnection
<1>2. CountersTypeOK
  BY CountAssumption DEF Init, CountersTypeOK
<1>3. SchedulerTypeOK
  BY DEF Init, SchedulerTypeOK, Spots
<1>4. QueuesTypeOK /\ TransferTypeOK
  <2>1. /\ <<>> \in Seq(Update) /\ <<>> \in Seq(Discoverable) /\ Len(<<>>) = 0
        /\ 0 <= CacheSize /\ 0 <= DiscoveryCapacity /\ 0 <= SessionCapacity
    BY LimitAssumption, EmptySeq
  <2> QED BY <2>1 DEF Init, QueuesTypeOK, TransferTypeOK
<1> QED BY <1>1, <1>2, <1>3, <1>4, TypeParts

\* The state of the connection manager is always well typed: its counters stay
\* within std::size_t, its queues within their capacities, and what it reads
\* from a queue is an update of a slot of its pool.
THEOREM TypeCorrect == Spec => []TypeOK
<1>1. Init => TypeOK
  BY InitType
<1>2. TypeOK /\ [Next]_vars => TypeOK'
  BY NextType
<1> QED BY <1>1, <1>2, PTL DEF Spec

-----------------------------------------------------------------------------
(* The pool under the scheduler's loop.                                    *)

\* A handler that returns leaves every spot.
LEMMA HandlerLeaves ==
  ASSUME NEW found \in BOOLEAN, HandlerReturns(found)
  PROVE  pc' \in {"loop", "round"}
BY DEF HandlerReturns

\* The scheduler goes on dialling discoveries only with the slots it found.
LEMMA DiscoveredStep ==
  ASSUME DiscoveredPeer
  PROVE  pc' # "discovered" \/ available' = available
<1>1. PICK s \in {t \in Slots : available[t] > 0} :
        \/ UNCHANGED available
        \/ HandlerReturns(TRUE)
  BY DEF DiscoveredPeer
<1> QED BY <1>1, HandlerLeaves

LEMMA OtherSpotStep ==
  ASSUME DisconnectedPeer \/ FailedPeer
  PROVE  pc' # "discovered"
<1>1. pc \in {"disconnected", "failed"}
  BY DEF DisconnectedPeer, FailedPeer
<1>2. ASSUME NEW s, NEW p, InitiateConnect(s, p) PROVE pc' # "discovered"
  <2>1. pc' = pc \/ HandlerReturns(TRUE)
    BY <1>2 DEF InitiateConnect
  <2> QED BY <1>1, <2>1, HandlerLeaves
<1>3. pc' = pc \/ \E s, p : InitiateConnect(s, p)
  BY DEF DisconnectedPeer, FailedPeer
<1> QED BY <1>1, <1>2, <1>3

LEMMA PoolNeverDryStep ==
  ASSUME PoolNeverDry, [Next]_vars
  PROVE  PoolNeverDry'
<1> SUFFICES ASSUME pc' = "discovered" PROVE ~PoolIsEmpty'
  BY DEF PoolNeverDry
<1>1. CASE pc = "discovered" /\ available' = available
  BY <1>1 DEF PoolNeverDry, PoolIsEmpty
<1>2. CASE RoundBegins
  <2>1. ~PoolIsEmpty
    BY <1>2, HandlerLeaves DEF RoundBegins
  <2> QED BY <1>2, <2>1 DEF RoundBegins, pool, PoolIsEmpty
<1>3. CASE \E s \in Slots : SocketCallback(s) \/ TimerCallback(s)
  BY <1>3 DEF SocketCallback, QuotaDeletes, SocketError, TransportInitiation,
     HandshakeSent, HandshakeReceived, SocketReady, CallbackFrame,
     TimerCallback, RetryTimer, ConnectTimer, TimerReady
<1>4. CASE DiscoveredPeer
  BY <1>1, <1>4, DiscoveredStep DEF DiscoveredPeer
<1>5. CASE DisconnectedPeer \/ FailedPeer
  BY <1>5, OtherSpotStep
<1>6. CASE NothingLeft
  BY <1>6, HandlerLeaves DEF NothingLeft
<1>7. CASE DaemonSignalled \/ ServerReadable \/ Accepting
  BY <1>7 DEF DaemonSignalled, ServerReadable, Accepting, AcceptEnds,
     AcceptUnique, AcceptEvicting
<1>8. CASE DrainDiscovered \/ NotifyDisconnected
  BY <1>8 DEF DrainDiscovered, NotifyDisconnected
<1>9. CASE OtherThreads \/ UNCHANGED vars
  BY <1>1, <1>9 DEF OtherThreads, TrackerReports, SessionBegins, SessionEnds,
     vars, pool
<1> QED BY <1>2, <1>3, <1>4, <1>5, <1>6, <1>7, <1>8, <1>9
     DEF Next, Manager, Scheduling

\* The scheduler's acquire never finds the pool empty (the assertion at
\* PeerConnectionManager.cpp:140): its loop takes a slot per entry, but the one
\* that keeps it also ends the loop.
THEOREM AcquireFindsSlot == Spec => []PoolNeverDry
<1>1. Init => PoolNeverDry
  BY DEF Init, PoolNeverDry
<1>2. PoolNeverDry /\ [Next]_vars => PoolNeverDry'
  BY PoolNeverDryStep
<1> QED BY <1>1, <1>2, PTL DEF Spec
=============================================================================
