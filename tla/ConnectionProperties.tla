------------------------ MODULE ConnectionProperties ------------------------
(* What the connection manager promises, over the states and the steps of  *)
(* ConnectionManager.                                                      *)
EXTENDS ConnectionManager

Occupied(s) == peer[s].key # NoKey

\* Entries of a queue of updates that name the present peer of slot s.
Entries(queue, s) == {i \in DOMAIN queue : queue[i] = UpdateOf(s)}

\* Updates in the transfer manager's hands, or on their way to or from it,
\* that name the present peer of slot s.
Handed(s) ==
  Cardinality(Entries(connects, s)) + Cardinality(Entries(disconnects, s))
    + (IF UpdateOf(s) \in sessions THEN 1 ELSE 0)

\* Dials, and accepted connections, whose handshake is not over.
InFlight(source) ==
  {s \in Slots : peer[s].source = source /\ peer[s].io # "off"}

-----------------------------------------------------------------------------
(* Safety.                                                                 *)

\* The pool, the register and the slots agree: a slot is free exactly when no
\* endpoint is registered for it, it is free once only, and an endpoint has
\* one slot.  acquire, try_emplace, erase and release happen in five handlers
\* and in different orders.
RegistryMatchesPool ==
  /\ \A s \in Slots : available[s] = IF Occupied(s) THEN 0 ELSE 1
  /\ \A s \in Slots : Occupied(s) => registry[peer[s].key] = s
  /\ \A a \in Endpoints : registry[a] # NoSlot => peer[registry[a]].key = a

\* Every peer has exactly one thing that will move it on: its timer, its entry
\* in retry_queue, or its update with the transfer manager; and no update
\* with a free slot's generation is anywhere.  A peer with none would keep its
\* slot for ever, one with two would be dialled or deleted twice.
EachPeerHasOneDriver ==
  \A s \in Slots :
    (IF peer[s].timer THEN 1 ELSE 0) + Cardinality(Entries(retry_queue, s))
      + Handed(s) = IF Occupied(s) THEN 1 ELSE 0

\* A peer is CONNECTED exactly while its update is with the transfer manager:
\* the callbacks' assertions that it is not CONNECTED
\* (PeerConnectionManager.cpp:482, :620) hold, since no watcher is armed.
ConnectedMeansHanded ==
  \A s \in Slots :
    /\ peer[s].state = "CONNECTED" <=> Handed(s) = 1
    /\ peer[s].state = "CONNECTED" => peer[s].io = "off" /\ ~peer[s].timer

\* An entry of retry_queue that is not stale names a failed, dialled peer with
\* no watcher armed (the comment at PeerConnectionManager.cpp:186).
RetryEntriesWait ==
  \A s \in Slots :
    Entries(retry_queue, s) # {} =>
      /\ peer[s].state = "FAILED" /\ peer[s].source = "tracker"
      /\ peer[s].io = "off"

\* The count of connected peers covers every update that the transfer manager
\* holds or that is in its queues, stale ones too, and stays within the quota;
\* so connects never drops an update though its push is not checked
\* (PeerConnectionManager.cpp:670).
ConnectedCoversSessions ==
  /\ Len(connects) + Cardinality(sessions) + Len(disconnects) <= connected
  /\ connected <= Healthy

\* Accepted connections in flight are all counted and within their limit.
OutboundBounded ==
  /\ Cardinality(InFlight("tcp_server")) <= outbound
  /\ outbound <= MaxOutbound

\* Dials in flight are all counted and within their limit: no path resolves
\* one dial twice.  Holds when no endpoint both is discovered and dials in.
InboundBounded ==
  /\ Cardinality(InFlight("tracker")) <= inbound
  /\ inbound <= MaxInbound

\* What the counters of the two in-flight limits are for.
InFlightBounded == OutboundBounded /\ InboundBounded

\* The scheduler's acquire always finds a slot (the assertion at
\* PeerConnectionManager.cpp:140), though its loop acquires one per entry
\* after a single test of the pool.
PoolNeverDry == pc = "discovered" => ~PoolIsEmpty

\* No handshake is encoded behind another one: wherever one is encoded next
\* the send buffer is empty (the assertions at PeerConnectionManager.cpp:563
\* and :593), whatever dials and partial sends the peer went through before.
SendBufferClean ==
  \A s \in Slots :
    \/ peer[s].state \in {"DISCOVERED", "DISCONNECTED", "FAILED"}
    \/ peer[s].state = "HANDSHAKE" /\ peer[s].io = "READ" /\ peer[s].source = "tcp_server"
    => peer[s].send = "empty"

-----------------------------------------------------------------------------
(* The inductive invariant behind RegistryMatchesPool.                     *)

\* Only a registered peer has a watcher armed, so every callback is about one.
WatchersOccupied ==
  \A s \in Slots : peer[s].timer \/ peer[s].io # "off" => Occupied(s)

Elements(queue) == {queue[i] : i \in DOMAIN queue}

AllUpdates ==
  Elements(retry_queue) \cup Elements(connects) \cup sessions
    \cup Elements(disconnects)

\* No update is ahead of its slot, and one that is current finds a peer there.
UpdateKnown(u) ==
  /\ u.generation <= generation[u.slot]
  /\ IsCurrent(u) => Occupied(u.slot)

UpdatesKnown == \A u \in AllUpdates : UpdateKnown(u)

\* What is inductive, as long as no native IPv6 endpoint dials in: the
\* scheduler may delete the peer an update names because UpdatesKnown holds,
\* and a callback the one its watcher names because WatchersOccupied does.
PoolInv == TypeOK /\ RegistryMatchesPool /\ WatchersOccupied /\ UpdatesKnown

-----------------------------------------------------------------------------
(* Steps.                                                                  *)

\* The manager never closes a descriptor it handed to the transfer manager.
HandedSocketKept ==
  [][\A s \in Slots : peer[s].sock = "handed" => peer'[s].sock # "none"]_vars

\* A CONNECTED peer is left alone by the manager's thread, whatever timers,
\* retries, dials and stale updates are about, until its own session reports its
\* end or its endpoint dials in again.
ConnectedLeftAlone ==
  [][\A s \in Slots :
       peer[s].state = "CONNECTED" /\ peer'[s] # peer[s] =>
         \/ /\ pc = "disconnected"
            /\ disconnects # <<>> /\ Head(disconnects) = UpdateOf(s)
         \/ /\ pc = "accept"
            /\ peer[s].key \in Dialing
            /\ registry'[peer[s].key] \in Slots \ {s}]_vars

\* Updates the transfer manager was given, stale ones too.
HandedOver == Len(connects) + Cardinality(sessions) + Len(disconnects)

Uncounted == connected - HandedOver

\* Whatever else happens, the count of connected peers follows the sessions one
\* by one: it runs ahead of them only when the manager drops the update of a
\* session whose peer was evicted (PeerConnectionManager.cpp:167), by one each,
\* and for good.  That it does so then is what ConnectedExact denies.
CountFollowsSessions ==
  [][\/ Uncounted' = Uncounted
     \/ /\ pc = "disconnected" /\ ~IsCurrent(Head(disconnects))
        /\ Uncounted' = Uncounted + 1]_vars

\* Spots of an in-flight limit that are taken though no peer holds them.
Leaked(source) ==
  (IF source = "tracker" THEN inbound ELSE outbound) - Cardinality(InFlight(source))

\* Deleted by its socket's callback over the quota (PeerConnectionManager.cpp:623)
\* or after a complete but invalid handshake (:552); or dialled again when its
\* connect timer expires, which passes for the retry timer (:484).
LeavesUncounted(s) ==
  \/ HasMetQuota /\ peer'[s].key = NoKey
  \/ peer[s].state = "HANDSHAKE" /\ peer[s].io = "READ" /\ peer'[s].key = NoKey
  \/ peer[s].state = "FAILED" /\ retry_queue' = Append(retry_queue, UpdateOf(s))

\* Whatever dials, timeouts, failures, evictions and hand-overs do, a peer that
\* is no longer in flight gives its spot back exactly once: spots are lost only
\* in these three cases, one each, and then for good.  Holds for dials when no
\* endpoint both is discovered and dials in.
SpotsAreReturned ==
  [][\A source \in {"tracker", "tcp_server"} :
       \/ Leaked(source)' = Leaked(source)
       \/ /\ \E s \in InFlight(source) : LeavesUncounted(s)
          /\ Leaked(source)' = Leaked(source) + 1]_vars

InScheduler == pc = "round" \/ pc \in Spots

\* The sources not marked empty, and the turns until one of them is current.
Full == {spot \in Spots : ~empties[spot]}

TurnsToFull ==
  IF current \in Full \/ Full = {} THEN 0
  ELSE IF NextSpot(current) \in Full THEN 1 ELSE 2

\* The iterations of the scheduler's loops: a lap of six for each source that
\* is not marked empty, and four of them for whatever an entry may unmark.
TurnsLeft ==
  24 * (Len(cache) + Len(retry_queue) + HandedOver) + 6 * Cardinality(Full)
    + 2 * TurnsToFull + (IF pc = "round" THEN 1 ELSE 0)

\* Each iteration of the scheduler's loops brings their end nearer, and what
\* the other threads do meanwhile does not put it off: a session that ends
\* adds to disconnects what was counted with the sessions
\* (PeerConnectionManager.cpp:211-222 has no other bound).
SchedulerAdvances ==
  [][InScheduler =>
       \/ pc' = "loop"
       \/ pc' \in {"round"} \cup Spots /\ TurnsLeft' < TurnsLeft
       \/ OtherThreads /\ pc' = pc /\ TurnsLeft' <= TurnsLeft]_vars

-----------------------------------------------------------------------------
(* The abstract life cycle.                                                *)

StatusOf(a) ==
  IF registry[a] = NoSlot THEN "unknown"
  ELSE LET p == peer[registry[a]]
       IN  CASE p.state = "CONNECTED" -> "connected"
             [] p.state = "HANDSHAKE" -> "shaking"
             [] p.state \notin {"CONNECTED", "HANDSHAKE"} /\ p.io # "off" -> "dialing"
             [] OTHER -> "waiting"

Lifecycle == INSTANCE PeerLifecycle
  WITH Capacity <- Cardinality(Slots), status <- [a \in Endpoints |-> StatusOf(a)]

\* The event loop, its queues and its slots implement the life cycle of
\* PeerLifecycle: every callback moves one endpoint along it, or none.
ImplementsLifecycle == Lifecycle!LifecycleSpec

-----------------------------------------------------------------------------
(* Liveness.  An armed timer expires, and libev calls the callback of every*)
(* watcher that is pending at an iteration of its loop; but in between the *)
(* thread may be in the scheduler or in the accept loop, so the timer's    *)
(* callback is strongly fair.  No network event is certain: the socket's   *)
(* callbacks are not fair.  Within a callback the thread runs on, and what *)
(* it can accept is limited.                                               *)
Fairness ==
  /\ \A s \in Slots : SF_vars(TimerCallback(s))
  /\ WF_vars(Scheduling)
  /\ WF_vars(AcceptEnds)

LiveSpec == Spec /\ Fairness

\* Once signalled the scheduler ends its round robin: no combination of
\* empties, current and queues that other threads fill keeps the event loop in
\* it (PeerConnectionManager.cpp:211-222 has no other bound).
SchedulerReturns == pc \in {"round"} \cup Spots ~> pc = "loop"

\* No peer stays in flight for ever: it is connected, evicted, deleted, or
\* closed to wait for a retry even if the network stays silent; the connect
\* timer is never lost on the way.
InFlightResolves == \A s \in Slots : peer[s].io # "off" ~> peer[s].io = "off"

-----------------------------------------------------------------------------
(* What the documents and comments of the repository say and the code does *)
(* not do.                                                                 *)

\* slot_pool.hpp:22: "release() must be called at most once per acquire()'d
\* pointer".  The eviction of a native IPv6 endpoint releases its own slot.
ReleasedOnce ==
  \A s \in Slots : available[s] <= 1 /\ (available[s] = 1 => ~Occupied(s))

\* PeerConnectionManager.cpp:186: a peer in the retry queue went through
\* handle_peer_failure(), which closed its socket.
RetryEntriesClosed ==
  \A s \in Slots : Entries(retry_queue, s) # {} => peer[s].sock = "none"

\* tcpnote.txt:22: upon resolution, "success of failure", a peer frees its
\* connecting spot: between callbacks the count is that of the peers in flight.
InboundExact ==
  pc = "loop" => inbound = Cardinality(InFlight("tracker"))

\* tcpnote.txt:29: "upon a peer disconnect, the peers connected count is reduced":
\* the count is that of the sessions whose end has not been taken.
ConnectedExact == connected = HandedOver

\* PeerConnectionManager.cpp:490, the case at :631 and the code at :177 dial a
\* tracker's peer again when its session has ended, and PeerManagerTypes.cpp:12
\* assigns a socket only after the last one was closed: none is set then.
RedialFindsNoSocket ==
  pc = "disconnected" /\ disconnects # <<>> =>
    LET u == Head(disconnects) IN
    IsCurrent(u) /\ peer[u.slot].source = "tracker" => peer[u.slot].sock = "none"

\* the_bittorrent_protocol.md:210: the handshake "must be the first message
\* sent by the client": a connected peer was sent one.
HandshakeSentFirst ==
  \A s \in Slots : peer[s].state = "CONNECTED" => peer[s].send = "sent"
=============================================================================
