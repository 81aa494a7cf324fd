------------------------- MODULE ConnectionManager -------------------------
(***************************************************************************)
(* The peer connection manager of src/Client/PeerConnectionManager.cpp:    *)
(* one thread that runs a libev event loop, dials the peers the trackers   *)
(* report, accepts the peers that dial in, exchanges the handshake and     *)
(* hands every connected socket to the transfer manager.                   *)
(*                                                                         *)
(* A libev callback runs to its end before the next one starts, so each is *)
(* one action, except the two that loop: the scheduler daemon and the      *)
(* accept loop take one action per iteration, during which pc is not       *)
(* "loop" and only the other threads (trackers, transfer manager) move.    *)
(*                                                                         *)
(* assert() is compiled out (NDEBUG): with it the first dial aborts, since *)
(* PeerConnectionManager.cpp:84 denies what :116 requires.                 *)
(***************************************************************************)
EXTENDS Integers, Sequences, FiniteSets

CONSTANTS
  Slots,             \* slots of the connection pool
  Discoverable,      \* IPv4 endpoints the trackers report
  Dialing,           \* IPv4 (or IPv4-mapped) endpoints that dial in
  NativeV6,          \* native IPv6 endpoints that dial in
  NoSlot, NoKey,     \* null pointer and zeroed key
  MaxInbound,        \* max_inbound_inflight
  MaxOutbound,       \* max_outbound_inflight
  Healthy,           \* healthy_peer_count
  MaxRetries,        \* peer::max_reties
  CacheSize,         \* capacity of the overwritable cache of discoveries
  DiscoveryCapacity, \* capacity of the discovery queue
  SessionCapacity,   \* capacity of the connects and disconnects queues
  SizeMax,           \* largest std::size_t
  InitialCount,      \* values the uninitialised statistics may start with
  MaxGeneration      \* exploration bound: no new peer once a slot reached it

Endpoints == Discoverable \cup Dialing \cup NativeV6

ASSUME NullAssumption == NoSlot \notin Slots /\ NoKey \notin Endpoints
ASSUME PoolAssumption == Slots # {}
ASSUME LimitAssumption ==
  /\ MaxInbound \in Nat \ {0} /\ MaxOutbound \in Nat \ {0}
  /\ Healthy \in Nat \ {0}    /\ MaxRetries \in Nat \ {0}
  /\ CacheSize \in Nat \ {0}  /\ DiscoveryCapacity \in Nat \ {0}
  /\ SessionCapacity \in Nat  /\ MaxGeneration \in Nat
  \* connects and disconnects hold as many updates as there are healthy peers
  /\ Healthy <= SessionCapacity
ASSUME CountAssumption ==
  /\ SizeMax \in Nat
  /\ MaxInbound < SizeMax /\ MaxOutbound < SizeMax /\ Healthy < SizeMax
  /\ InitialCount \subseteq 0 .. SizeMax

VARIABLES
  peer,         \* [Slots -> PeerConnection]
  generation,   \* [Slots -> Nat], pool_slot::_generation
  available,    \* [Slots -> Nat], the bag of slots in available_slots
  registry,     \* ipv4_peers and ipv6_peers: endpoint -> slot
  connected,    \* connected_bittorrent_peers
  inbound,      \* inbound_inflight: dials not resolved
  outbound,     \* outbound_inflight: accepted handshakes not resolved
  pc,           \* the loop the manager's thread is in, "loop" between callbacks
  current,      \* inbound_scheduler_t::current
  empties,      \* inbound_scheduler_t::empties
  retry_queue,  \* peer_failure_updates of the retry timer
  cache,        \* discoveries.cache, oldest first
  daemon,       \* the scheduler's async watcher is signalled
  discoveries,  \* discoveries.beamable_spsc.queue, from the tracker thread
  discovered_signal,   \* its async watcher is signalled
  connects,     \* connect_updates on their way to the transfer manager
  sessions,     \* connections the transfer manager owns
  disconnects,  \* disconnect_updates on their way back
  disconnected_signal  \* its async watcher is signalled

pool      == <<peer, generation, available, registry>>
counters  == <<connected, inbound, outbound>>
scheduler == <<current, empties>>
fromTracker == <<discoveries, discovered_signal>>
transfer  == <<sessions, disconnects, disconnected_signal>>

vars == <<pool, counters, pc, scheduler, retry_queue, cache, daemon,
          fromTracker, connects, transfer>>

-----------------------------------------------------------------------------
(* States of the parts.                                                    *)

Spots == {"discovered", "disconnected", "failed"}

\* sock is "own" while the manager may close the descriptor it holds and
\* "handed" once the same number was given to a session.  send is "queued"
\* while the handshake, or a part of it, waits in the send buffer and "sent"
\* once it left: in "empty" and "sent" send_buffer.empty() holds.
PeerConnection ==
  [state    : {"null", "DISCOVERED", "HANDSHAKE", "CONNECTED",
               "DISCONNECTED", "FAILED"},
   source   : {"null", "tracker", "tcp_server"},
   key      : Endpoints \cup {NoKey},
   sock     : {"none", "own", "handed"},
   io       : {"off", "READ", "WRITE"},
   timer    : BOOLEAN,
   send     : {"empty", "queued", "sent"},
   failures : Nat]

\* connect_update, disconnect_update and peer_failure_update: a slot and the
\* generation it had.
Update == [slot : Slots, generation : Nat]

UpdateOf(s) == [slot |-> s, generation |-> generation[s]]

\* Faulty variant: the generation is not compared.
IsCurrentUnchecked(u) == TRUE

IsCurrent(u) == generation[u.slot] = u.generation

\* Faulty variant: the key is not zeroed.
TornKeepingKey(p) ==
  [state |-> "null", source |-> "null", key |-> p.key, sock |-> p.sock,
   io |-> "off", timer |-> FALSE, send |-> "empty", failures |-> 0]

\* teardown_connection: everything is reset but the socket.
Torn(p) ==
  [state |-> "null", source |-> "null", key |-> NoKey, sock |-> p.sock,
   io |-> "off", timer |-> FALSE, send |-> "empty", failures |-> 0]

Closed(p) == [p EXCEPT !.sock = "none"]

\* Faulty variant: the timer runs on.
StoppedSocketOnly(p) == [p EXCEPT !.io = "off"]

Stopped(p) == [p EXCEPT !.io = "off", !.timer = FALSE]

\* Faulty variant: the connect timer is not started.
ArmedWithoutTimer(p, event) == [p EXCEPT !.io = event]

Armed(p, event) == [p EXCEPT !.io = event, !.timer = TRUE]

\* initialize_connection
Initialized(p, a, source, state) ==
  [p EXCEPT !.key = a, !.source = source, !.state = state]

Init ==
  /\ peer = [s \in Slots |->
       [state |-> "null", source |-> "null", key |-> NoKey, sock |-> "none",
        io |-> "off", timer |-> FALSE, send |-> "empty", failures |-> 0]]
  /\ generation = [s \in Slots |-> 0]
  /\ available = [s \in Slots |-> 1]
  /\ registry = [a \in Endpoints |-> NoSlot]
  /\ connected \in InitialCount
  /\ inbound \in InitialCount
  /\ outbound \in InitialCount
  /\ pc = "loop"
  /\ current = "discovered"
  /\ empties = [spot \in Spots |-> FALSE]
  /\ retry_queue = <<>> /\ cache = <<>> /\ daemon = FALSE
  /\ discoveries = <<>> /\ discovered_signal = FALSE
  /\ connects = <<>>
  /\ sessions = {} /\ disconnects = <<>> /\ disconnected_signal = FALSE

-----------------------------------------------------------------------------
(* connection_statistics_t.                                                *)

Increment(n) == IF n = SizeMax THEN 0 ELSE n + 1

Decrement(n) == IF n = 0 THEN SizeMax ELSE n - 1

\* Faulty variant: the end of a session is not counted.
DecrementConnectedNever(n) == n

\* decrement_connected_bittorrent_peers, the one decrement with a floor
DecrementConnected(n) == IF n = 0 THEN 0 ELSE n - 1

\* Faulty variant: the quota is met one peer later.
HasMetQuotaLate == connected > Healthy

HasMetQuota == connected >= Healthy

\* Faulty variant: the two counters are swapped.
ResolvedSwapped(source) ==
  IF source = "tracker"
  THEN outbound' = Decrement(outbound) /\ UNCHANGED <<inbound, daemon>>
  ELSE inbound' = Decrement(inbound) /\ daemon' = TRUE /\ UNCHANGED outbound

\* single_outbound_resolved, or single_inbound_resolved and a notification:
\* what accept, failure and dispatch do when a peer is no longer in flight.
Resolved(source) ==
  IF source = "tcp_server"
  THEN outbound' = Decrement(outbound) /\ UNCHANGED <<inbound, daemon>>
  ELSE inbound' = Decrement(inbound) /\ daemon' = TRUE /\ UNCHANGED outbound

-----------------------------------------------------------------------------
(* The slot pool and the registers of peers.                               *)

PoolIsEmpty == \A s \in Slots : available[s] = 0

Deregister(key) ==
  IF key = NoKey THEN registry ELSE [registry EXCEPT ![key] = NoSlot]

\* Faulty variant: release does not move the generation on.
NotAged(s) == generation

\* release: every update that names the slot is stale from now on.
Aged(s) == [generation EXCEPT ![s] = @ + 1]

\* delete_peer_connection on slot s whose connection is p by then.
DeletePeer(s, p) ==
  /\ registry' = Deregister(p.key)
  /\ peer' = [peer EXCEPT ![s] = Torn(p)]
  /\ available' = [available EXCEPT ![s] = @ + 1]
  /\ generation' = Aged(s)

\* The peer in slot s becomes p and keeps its slot.
SetPeer(s, p) ==
  /\ peer' = [peer EXCEPT ![s] = p]
  /\ UNCHANGED <<generation, available, registry>>

-----------------------------------------------------------------------------
(* What a callback does to the peer it is about.                           *)

\* Faulty variant: an accepted peer is kept for a retry too.
GivesUpOnRetriesOnly(p) == p.failures >= MaxRetries

\* No retry is left, or there is none: an accepted peer is not dialled.
GivesUp(p) == p.failures >= MaxRetries \/ p.source = "tcp_server"

\* Faulty variant: the send buffer is not reset.
WaitingUnreset(p) == [p EXCEPT !.io = "off", !.timer = TRUE]

\* The retry timer is armed, and the buffers reset.
Waiting(p) == [p EXCEPT !.io = "off", !.timer = TRUE, !.send = "empty"]

HandlePeerFailure(s) ==
  LET p == [Closed(peer[s]) EXCEPT !.state = "FAILED", !.failures = @ + 1]
  IN  /\ Resolved(p.source)
      /\ IF GivesUp(p) THEN DeletePeer(s, p) ELSE SetPeer(s, Waiting(p))
      /\ UNCHANGED <<connected, connects>>

\* handle_peer_connection_and_dispatch; the result of push is ignored.
Dispatch(s, p) ==
  /\ SetPeer(s, [Stopped(p) EXCEPT !.state = "CONNECTED", !.sock = "handed"])
  /\ connects' = IF Len(connects) < SessionCapacity
                 THEN Append(connects, UpdateOf(s)) ELSE connects
  /\ connected' = Increment(connected)
  /\ Resolved(p.source)

\* The callback leaves counters and queues alone.
Quietly == UNCHANGED <<counters, daemon, connects>>

-----------------------------------------------------------------------------
(* peer_socket_callback, by what the quota, the event and the state select.*)
(* Partial sends and reads that leave a handshake incomplete change nothing*)
(* the model keeps, and are its stuttering steps.                          *)

SocketReady(s) == pc = "loop" /\ peer[s].io # "off"

CallbackFrame ==
  UNCHANGED <<pc, scheduler, retry_queue, cache, fromTracker, transfer>>

\* Over the quota the peer is deleted: its socket is not closed and it stays
\* counted as in flight.
QuotaDeletes(s) ==
  /\ SocketReady(s) /\ HasMetQuota
  /\ DeletePeer(s, peer[s])
  /\ Quietly /\ CallbackFrame

\* ev::ERROR
SocketError(s) ==
  /\ SocketReady(s) /\ ~HasMetQuota
  /\ HandlePeerFailure(s)
  /\ CallbackFrame

\* handle_peer_transport_level_initiations
TransportInitiation(s) ==
  /\ SocketReady(s) /\ ~HasMetQuota
  /\ peer[s].state \in {"DISCOVERED", "DISCONNECTED", "FAILED"}
  /\ peer[s].io = "WRITE"
  /\ \/ HandlePeerFailure(s)  \* SO_ERROR, or the first send failed
     \/ /\ \/ SetPeer(s, [peer[s] EXCEPT !.state = "HANDSHAKE",
                            !.send = "sent", !.io = "READ"])
           \/ SetPeer(s, [peer[s] EXCEPT !.state = "HANDSHAKE",
                            !.send = "queued", !.io = "WRITE"])
        /\ Quietly
  /\ CallbackFrame

\* handle_peer_application_level_handshake on EV_WRITE.  An empty send buffer
\* is exhausted at once, whether or not a handshake was ever put in it.
HandshakeSent(s) ==
  /\ SocketReady(s) /\ ~HasMetQuota
  /\ peer[s].state = "HANDSHAKE" /\ peer[s].io = "WRITE"
  /\ LET p == [peer[s] EXCEPT !.send = IF @ = "queued" THEN "sent" ELSE @]
     IN  \/ HandlePeerFailure(s)
         \/ p.source = "tracker" /\ SetPeer(s, [p EXCEPT !.io = "READ"]) /\ Quietly
         \/ p.source = "tcp_server" /\ Dispatch(s, p)
  /\ CallbackFrame

\* handle_peer_application_level_handshake on EV_READ.
HandshakeReceived(s) ==
  /\ SocketReady(s) /\ ~HasMetQuota
  /\ peer[s].state = "HANDSHAKE" /\ peer[s].io = "READ"
  /\ \/ HandlePeerFailure(s)  \* receive failed, or the answer's send did
     \/ DeletePeer(s, Closed(peer[s])) /\ Quietly  \* complete but not valid
     \/ peer[s].source = "tracker" /\ Dispatch(s, peer[s])
     \/ /\ peer[s].source = "tcp_server"
        /\ \/ Dispatch(s, [peer[s] EXCEPT !.send = "sent"])
           \/ /\ SetPeer(s, [peer[s] EXCEPT !.send = "queued", !.io = "WRITE"])
              /\ Quietly
  /\ CallbackFrame

-----------------------------------------------------------------------------
(* peer_timer_callback: the connect timer and the retry timer are one timer*)
(* told apart by the state.                                                *)

TimerReady(s) == pc = "loop" /\ peer[s].timer

\* Faulty variant: the watchers are not stopped.
RetryTimerUnstopped(s) ==
  /\ TimerReady(s) /\ peer[s].state = "FAILED"
  /\ SetPeer(s, [peer[s] EXCEPT !.timer = FALSE])
  /\ retry_queue' = Append(retry_queue, UpdateOf(s))
  /\ UNCHANGED <<counters, daemon, connects, pc, scheduler, cache,
                 fromTracker, transfer>>

\* No notification: the entry waits for the next run of the scheduler.
RetryTimer(s) ==
  /\ TimerReady(s) /\ peer[s].state = "FAILED"
  /\ SetPeer(s, Stopped(peer[s]))
  /\ retry_queue' = Append(retry_queue, UpdateOf(s))
  /\ UNCHANGED <<counters, daemon, connects, pc, scheduler, cache,
                 fromTracker, transfer>>

ConnectTimer(s) ==
  /\ TimerReady(s) /\ peer[s].state # "FAILED"
  /\ HandlePeerFailure(s)
  /\ CallbackFrame

-----------------------------------------------------------------------------
(* inbound_scheduler_t: the daemon's callback dials peers round robin from *)
(* three sources, one action per iteration of each loop.                   *)

\* connect: the outcomes for a peer p.  A socket that is still set makes
\* open_socket fail; a connect that succeeds at once resets the failures and
\* puts the peer in HANDSHAKE with an event fed by hand, without encoding one.
ConnectOutcomes(p) ==
  IF p.sock # "none" THEN {[ok |-> FALSE, peer |-> p]}
  ELSE LET dialing == Armed([p EXCEPT !.sock = "own"], "WRITE")
       IN  {[ok |-> FALSE, peer |-> p],
            [ok |-> TRUE,  peer |-> dialing],
            [ok |-> TRUE,  peer |-> [dialing EXCEPT !.state = "HANDSHAKE",
                                                    !.failures = 0]]}

\* Faulty variant: the round robin stays where it is.
NextSpotStuck(spot) == spot

NextSpot(spot) ==
  CASE spot = "discovered"   -> "disconnected"
    [] spot = "disconnected" -> "failed"
    [] spot = "failed"       -> "discovered"

\* The rest of round_robin_establisher_scheduler's iteration, once the
\* handler of the current spot returned found.
HandlerReturns(found) ==
  /\ empties' = [empties EXCEPT ![current] = ~found]
  /\ IF \A spot \in Spots : empties'[spot]
     THEN pc' = "loop" /\ UNCHANGED current
     ELSE pc' = "round" /\ current' = NextSpot(current)

\* initiate_connect on the peer p in slot s: counted and the handler returns,
\* or deleted and the handler goes on with its next entry.
InitiateConnect(s, p) ==
  \E outcome \in ConnectOutcomes(p) :
    IF outcome.ok
    THEN /\ SetPeer(s, outcome.peer)
         /\ inbound' = Increment(inbound)
         /\ HandlerReturns(TRUE)
    ELSE /\ DeletePeer(s, outcome.peer)
         /\ UNCHANGED <<inbound, pc, scheduler>>

\* The async watcher's flag is cleared before its callback runs.
DaemonSignalled ==
  /\ pc = "loop" /\ daemon
  /\ daemon' = FALSE /\ pc' = "round"
  /\ UNCHANGED <<pool, counters, scheduler, retry_queue, cache, fromTracker,
                 connects, transfer>>

\* Faulty variant: the pool is not tested.
RoundBeginsUntested ==
  /\ pc = "round"
  /\ IF inbound >= MaxInbound THEN pc' = "loop" /\ UNCHANGED scheduler
     ELSE pc' = current /\ UNCHANGED scheduler
  /\ UNCHANGED <<pool, counters, retry_queue, cache, daemon, fromTracker,
                 connects, transfer>>

\* discovered_peer_scheduler's own guard returns false on an empty pool.
RoundBegins ==
  /\ pc = "round"
  /\ IF inbound >= MaxInbound THEN pc' = "loop" /\ UNCHANGED scheduler
     ELSE IF current = "discovered" /\ PoolIsEmpty THEN HandlerReturns(FALSE)
     ELSE pc' = current /\ UNCHANGED scheduler
  /\ UNCHANGED <<pool, counters, retry_queue, cache, daemon, fromTracker,
                 connects, transfer>>

\* An endpoint already registered gives its slot back; the release still
\* moves the slot's generation on.
DiscoveredPeer ==
  /\ pc = "discovered" /\ cache # <<>>
  /\ cache' = SubSeq(cache, 1, Len(cache) - 1)
  /\ \E s \in {t \in Slots : available[t] > 0} :
       LET a == cache[Len(cache)]
           p == Initialized(peer[s], a, "tracker", "DISCOVERED")
       IN  IF registry[a] # NoSlot
           THEN /\ generation' = Aged(s)
                /\ UNCHANGED <<peer, available, registry, inbound, pc, scheduler>>
           ELSE \E outcome \in ConnectOutcomes(p) :
                  IF outcome.ok
                  THEN /\ peer' = [peer EXCEPT ![s] = outcome.peer]
                       /\ available' = [available EXCEPT ![s] = @ - 1]
                       /\ registry' = [registry EXCEPT ![a] = s]
                       /\ inbound' = Increment(inbound)
                       /\ HandlerReturns(TRUE)
                       /\ UNCHANGED generation
                  ELSE \* acquired, registered, deleted again
                       /\ peer' = [peer EXCEPT ![s] = Torn(outcome.peer)]
                       /\ generation' = Aged(s)
                       /\ UNCHANGED <<available, registry, inbound, pc, scheduler>>
  /\ UNCHANGED <<connected, outbound, retry_queue, daemon, fromTracker,
                 connects, transfer>>

\* The connection's own perrno is never PEER_SHUTDOWN here (only recv sets it
\* and close_socket resets it), which leaves the source to decide.
DisconnectedPeer ==
  /\ pc = "disconnected" /\ disconnects # <<>>
  /\ disconnects' = Tail(disconnects)
  /\ LET u == Head(disconnects)
         s == u.slot
         p == [peer[s] EXCEPT !.state = "DISCONNECTED", !.failures = @ + 1]
     IN  IF ~IsCurrent(u) THEN UNCHANGED <<pool, connected, inbound, pc, scheduler>>
         ELSE /\ connected' = DecrementConnected(connected)
              /\ IF p.source = "tcp_server"
                 THEN DeletePeer(s, p) /\ UNCHANGED <<inbound, pc, scheduler>>
                 ELSE InitiateConnect(s, p)
  /\ UNCHANGED <<outbound, retry_queue, cache, daemon, fromTracker, connects,
                 sessions, disconnected_signal>>

FailedPeer ==
  /\ pc = "failed" /\ retry_queue # <<>>
  /\ retry_queue' = Tail(retry_queue)
  /\ LET u == Head(retry_queue)
     IN  IF IsCurrent(u) THEN InitiateConnect(u.slot, peer[u.slot])
         ELSE UNCHANGED <<pool, inbound, pc, scheduler>>
  /\ UNCHANGED <<connected, outbound, cache, daemon, fromTracker, connects,
                 transfer>>

\* The handler's queue is empty: it returns false.
NothingLeft ==
  /\ \/ pc = "discovered"   /\ cache = <<>>
     \/ pc = "disconnected" /\ disconnects = <<>>
     \/ pc = "failed"       /\ retry_queue = <<>>
  /\ HandlerReturns(FALSE)
  /\ UNCHANGED <<pool, counters, retry_queue, cache, daemon, fromTracker,
                 connects, transfer>>

-----------------------------------------------------------------------------
(* server_socket_callback and accept_peer_connection.                      *)

ServerReadable ==
  /\ pc = "loop" /\ pc' = "accept"
  /\ UNCHANGED <<pool, counters, scheduler, retry_queue, cache, daemon,
                 fromTracker, connects, transfer>>

\* Faulty variant: one accepted handshake too many.
MayAcceptOneMore == ~HasMetQuota /\ outbound <= MaxOutbound

MayAccept == ~HasMetQuota /\ outbound < MaxOutbound

\* Over a limit, nothing left to accept, or a connection closed because the
\* pool is empty.  EINTR and ECONNABORTED go round the loop: a stuttering step.
AcceptEnds ==
  /\ pc = "accept" /\ pc' = "loop"
  /\ UNCHANGED <<pool, counters, scheduler, retry_queue, cache, daemon,
                 fromTracker, connects, transfer>>

\* initialize_server_specifics overwrites the socket of the slot.
Accepted(p, a) ==
  Armed([Initialized(p, a, "tcp_server", "HANDSHAKE") EXCEPT !.sock = "own"],
        "READ")

AcceptUnique(s, a) ==
  /\ pc = "accept" /\ MayAccept /\ available[s] > 0
  /\ a \notin NativeV6 /\ registry[a] = NoSlot
  /\ peer' = [peer EXCEPT ![s] = Accepted(@, a)]
  /\ available' = [available EXCEPT ![s] = @ - 1]
  /\ registry' = [registry EXCEPT ![a] = s]
  /\ outbound' = Increment(outbound)
  /\ UNCHANGED <<generation, connected, inbound, pc, scheduler, retry_queue,
                 cache, daemon, fromTracker, connects, transfer>>

\* Faulty variant: the socket is closed whoever owns it.
EvictedClosed(p) == Closed(p)

\* The transfer manager closes the socket of a CONNECTED peer.
Evicted(p) == IF p.state # "CONNECTED" THEN Closed(p) ELSE p

\* The endpoint is registered: its old peer is evicted.  For a native IPv6
\* endpoint unique is never set, and the "old" peer of a new one is slot s.
AcceptEvicting(s, a) ==
  LET old == IF registry[a] = NoSlot THEN s ELSE registry[a]
      inFlight == peer[old].state # "CONNECTED"
      p == Evicted(peer[old])
      torn == [peer EXCEPT ![old] = Torn(p)]
      taken == [available EXCEPT ![s] = @ - 1]
  IN  /\ pc = "accept" /\ MayAccept /\ available[s] > 0
      /\ a \in NativeV6 \/ registry[a] # NoSlot
      /\ peer' = [torn EXCEPT ![s] = Accepted(@, a)]
      /\ generation' = Aged(old)
      /\ available' = [taken EXCEPT ![old] = @ + 1]
      /\ registry' = [Deregister(p.key) EXCEPT ![a] = s]
      /\ outbound' = IF inFlight /\ p.source = "tcp_server"
                     THEN Decrement(Increment(outbound)) ELSE Increment(outbound)
      /\ IF inFlight /\ p.source # "tcp_server"
         THEN inbound' = Decrement(inbound) /\ daemon' = TRUE
         ELSE UNCHANGED <<inbound, daemon>>
      /\ UNCHANGED <<connected, pc, scheduler, retry_queue, cache, fromTracker,
                     connects, transfer>>

-----------------------------------------------------------------------------
(* drain_discovered and notify_disconnected, the async callbacks that feed *)
(* the scheduler.                                                          *)

\* Faulty variant: one entry too many.
NewestAndOne(q) ==
  IF Len(q) <= CacheSize + 1 THEN q ELSE SubSeq(q, Len(q) - CacheSize, Len(q))

\* What is left of q in a cache that overwrites its oldest entries.
Newest(q) ==
  IF Len(q) <= CacheSize THEN q ELSE SubSeq(q, Len(q) - CacheSize + 1, Len(q))

DrainDiscovered ==
  /\ pc = "loop" /\ discovered_signal
  /\ discovered_signal' = FALSE
  /\ cache' = Newest(cache \o discoveries)
  /\ discoveries' = <<>>
  /\ daemon' = (daemon \/ ~(HasMetQuota \/ PoolIsEmpty))
  /\ UNCHANGED <<pool, counters, pc, scheduler, retry_queue, connects, transfer>>

NotifyDisconnected ==
  /\ pc = "loop" /\ disconnected_signal
  /\ disconnected_signal' = FALSE
  /\ daemon' = TRUE
  /\ UNCHANGED <<pool, counters, pc, scheduler, retry_queue, cache,
                 fromTracker, connects, sessions, disconnects>>

-----------------------------------------------------------------------------
(* The other threads, which only the queues connect to the manager: the    *)
(* tracker thread pushes endpoints, and the transfer manager adopts every  *)
(* connect_update as a PeerSession (PeerSession::set_endpoint) and pushes  *)
(* a disconnect_update when the session ends (endpoint_disconnected).      *)

Unexplored == \A s \in Slots : generation[s] < MaxGeneration

TrackerReports(a) ==
  /\ Unexplored /\ Len(discoveries) < DiscoveryCapacity
  /\ discoveries' = Append(discoveries, a)
  /\ discovered_signal' = TRUE
  /\ UNCHANGED <<pool, counters, pc, scheduler, retry_queue, cache, daemon,
                 connects, transfer>>

SessionBegins ==
  /\ connects # <<>>
  /\ connects' = Tail(connects)
  /\ sessions' = sessions \cup {Head(connects)}
  /\ UNCHANGED <<pool, counters, pc, scheduler, retry_queue, cache, daemon,
                 fromTracker, disconnects, disconnected_signal>>

SessionEnds(u) ==
  /\ u \in sessions /\ Len(disconnects) < SessionCapacity
  /\ sessions' = sessions \ {u}
  /\ disconnects' = Append(disconnects, u)
  /\ disconnected_signal' = TRUE
  /\ UNCHANGED <<pool, counters, pc, scheduler, retry_queue, cache, daemon,
                 fromTracker, connects>>

-----------------------------------------------------------------------------
SocketCallback(s) ==
  \/ QuotaDeletes(s) \/ SocketError(s) \/ TransportInitiation(s)
  \/ HandshakeSent(s) \/ HandshakeReceived(s)

TimerCallback(s) == RetryTimer(s) \/ ConnectTimer(s)

\* One step of the scheduler daemon after it was signalled.
Scheduling ==
  \/ RoundBegins \/ DiscoveredPeer \/ DisconnectedPeer \/ FailedPeer
  \/ NothingLeft

Accepting ==
  \/ AcceptEnds
  \/ \E s \in Slots : \E a \in Dialing \cup NativeV6 :
       Unexplored /\ (AcceptUnique(s, a) \/ AcceptEvicting(s, a))

Manager ==
  \/ \E s \in Slots : SocketCallback(s) \/ TimerCallback(s)
  \/ DaemonSignalled \/ Scheduling
  \/ ServerReadable \/ Accepting
  \/ DrainDiscovered \/ NotifyDisconnected

OtherThreads ==
  \/ \E a \in Discoverable : TrackerReports(a)
  \/ SessionBegins
  \/ \E u \in sessions : SessionEnds(u)

Next == Manager \/ OtherThreads

Spec == Init /\ [][Next]_vars

-----------------------------------------------------------------------------
\* Types of the state; the discoveries are IPv4 endpoints and both queues of
\* updates stay within their capacity.
TypeOK ==
  /\ peer \in [Slots -> PeerConnection]
  /\ generation \in [Slots -> Nat]
  /\ available \in [Slots -> Nat]
  /\ registry \in [Endpoints -> Slots \cup {NoSlot}]
  /\ connected \in 0 .. SizeMax
  /\ inbound \in 0 .. SizeMax
  /\ outbound \in 0 .. SizeMax
  /\ pc \in {"loop", "round", "accept"} \cup Spots
  /\ current \in Spots
  /\ empties \in [Spots -> BOOLEAN]
  /\ retry_queue \in Seq(Update)
  /\ cache \in Seq(Discoverable) /\ Len(cache) <= CacheSize
  /\ daemon \in BOOLEAN
  /\ discoveries \in Seq(Discoverable) /\ Len(discoveries) <= DiscoveryCapacity
  /\ discovered_signal \in BOOLEAN
  /\ connects \in Seq(Update) /\ Len(connects) <= SessionCapacity
  /\ sessions \in SUBSET Update
  /\ disconnects \in Seq(Update) /\ Len(disconnects) <= SessionCapacity
  /\ disconnected_signal \in BOOLEAN
=============================================================================
