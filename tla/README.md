# Specification of the BitTorrent client

TLA+ specifications of the client in `src/`, with the TLC configurations that
check them and TLAPS proofs of the results that hold for every configuration.
Paths below are relative to the repository; code references are `file:line`.

## 1. Inventory

The client is a set of threads, each with its own libev loop, joined by
single-producer single-consumer queues with an async watcher at the consumer.
`main.cpp` is empty and `run_manager()` is declared and never defined, so the
models start where a constructor ends and assume the watchers it prepares
(`PeerConnectionManager.cpp:33-42`) are started.

| Component | State | Operations | Talks to |
|---|---|---|---|
| Peer connection manager (`PeerConnectionManager.*`, `PeerCErrnoHandler.cpp`) | the slots' `PeerConnection`s, two registers endpoint -> slot, three counters, the scheduler's `current` and `empties`, `retry_queue` | socket, timer, accept and async callbacks; the scheduler daemon | trackers (discoveries in), transfer manager (connects out, disconnects in), the network |
| Peer types (`PeerManagerTypes.*`) | socket, state, source, buffers, failures, watchers of a peer; a `PeerSession` of the transfer manager | `initialize_connection`, `teardown_connection`, `open_socket`, `pconnect`, `close_socket`, `send`, `recv`, `set_endpoint`, `endpoint_disconnected` | called by the two managers |
| Slot pool (`slot_pool.hpp`) | free list, occupancy, a generation per slot | `acquire`, `release`, `available` | owned by the connection manager |
| Overwritable cache (`overwritable_cache.hpp`) | array, `read`, `write`, `size` | `push`, `stale_pop`, `fresh_pop` | owned by the connection manager |
| SPSC queue (`spsc_queue.hpp`, `ThreadMessageTypes.hpp`) | ring, two atomic indices, two cached ones | `push`, `pop`, from two threads | every pair of threads |
| IO ring buffer (`io_ring_buffer.hpp`) | `read`, `write`, `readable` | `prepare_*`, `commit_*`, `reset` | `send`, `recv`, the codec |
| Handshake codec (`bittorrent_messages.hpp`) | a frame cursor | `encode`, `decode` | ring buffer |
| Tracker manager (`TrackerManager.*`, `Tracker.cpp`) | the state function pointer, `manager_space`, `trkrs_in_trkrspace`, per tracker flags, intervals, timers and failures | state handlers, timer callback, `do_on_success`, `do_on_failure`, `start`/`reannounce`/`force_reannounce`/`shutdown` from another thread | HTTP handler |
| HTTP handler (`HTTPHandler.*`) | curl multi handle, socket and timer watchers | callbacks of libcurl and libev | libcurl |
| Dynamic bitset (`DynamicBitset.*`) | words, length | `set`, `reset`, `test`, `\|=`, `&=` | sessions |
| Bencoder (`Bencoder/`) | none | decode, encode | torrent file, trackers |
| Torrent file, hashing, constants | immutable | accessors | everyone |
| Transfer manager, peer manager, file manager, UDP | stubs | none | |

What is hard, and what makes each component correct:

* **Connection manager.** A peer crosses three queues, two threads and five
  handlers, in a slot that is reused while updates naming its former occupant
  are still travelling. Correct means: pool, registers and slots agree; every
  peer has exactly one thing that will move it on; stale updates are
  recognised; a handed-over descriptor is never touched; counters are what they
  count and stay within their limits; the scheduler returns; nothing stays in
  flight. Interleavings of the callbacks, timeouts against late answers,
  retries and evictions are what reaches the illegal states.
* **SPSC queue.** Stale cached indices at the wrap-around, under two threads:
  the queue must be a bounded FIFO.
* **Cache.** Overwriting and popping at the same end: it must keep the newest.
* **Ring buffer and codec.** Full, empty, wrapped; a message split at any byte.
* **Tracker manager.** A state variable written by two threads; trackers handed
  between two spaces and counted; a shutdown that must still announce; retries.
* **Bitset, bencoder.** Sequential; right iff they equal a reference definition.

`PROJECT.json` lists every component with its status and, under `hazards`, each
of these at its line, with the properties that watch it.

## 2. Modules

| Module | Content |
|---|---|
| `ConnectionManager` | the connection manager's thread, with the pool, cache, queues and peers it owns, and the trackers and the transfer manager as seen from its queues |
| `ConnectionProperties` | its invariants, action properties, fairness, liveness, and the refinement mapping |
| `PeerLifecycle` | the abstract specification: what the manager promises of each endpoint |
| `MCConnectionManager` | the instances for TLC |
| `ConnectionProofs` | type correctness and the bound on the pool, for all constants |
| `RegistryProofs` | the agreement of pool, registers and slots, for all constants |
| `DriverProofs` | what moves each peer on, the counters and the spots, the handover, the end of the scheduler's loops, and the refinement of `PeerLifecycle`, for all constants |
| `SpscQueue` | `push` and `pop` of the queue between two threads, at the grain of their loads, moves and stores |
| `BoundedFifo` | what it promises |
| `QueueProofs` | that it does, for every size |
| `OverwritableCache` | the cache's array, indices and operations |
| `NewestEntries` | what it promises |
| `CacheProofs` | that it does, for every capacity |
| `Discoveries` | queue and cache composed, with the loop of `drain_discovered` between them, statement by statement |
| `IoRingBuffer` | the ring of bytes and its views, as operators on a record |
| `RingProofs` | that writing comes behind its contents and reading from their front |
| `Handshake` | the exchange of handshakes between two parties that run the client, byte by byte, over rings and wire |
| `MCHandshake` | its instance for TLC |
| `HandshakeProofs` | `decode` at every split, the safety of the exchange and how it may end, for all lengths and bytes |
| `TrackerManager` | the tracker manager, its trackers, the requests in curl's hands and the callers of the public functions |
| `MCTrackerManager` | its instances for TLC |
| `TrackerProofs` | one driver per tracker, what trackers are told, the agreement of the two spaces and the shutdown, for all torrents and callers |

`ConnectionManager` uses a bounded sequence for each queue and for the cache.
`QueueProofs` and `CacheProofs` justify it: a push takes effect at the store of
the writer's index, a pop at the store of the reader's, and between them the
elements are the sequence of the slots from one index to the other. `Discoveries`
justifies that it takes `drain_discovered` for one step: whatever is pushed while
the loop runs, what leaves the queue enters the cache in its order.

### Correspondence

A libev callback runs to its end before the next one starts, so each callback is
one action. The daemon's and the accept loop take one action per iteration,
because other threads push to the queues these loops read: `pc` names the
loop's point, and while it is not `"loop"` no callback of the manager runs.

| Code | Specification |
|---|---|
| `PeerConnection` in a slot | `peer[s]`; addresses, ids and bytes are dropped, `sock` says who owns the descriptor number that the slot holds, `send` whether a handshake is in the buffer or has left it |
| `pool_slot::_generation`, `available_slots` | `generation`, `available` (a bag: a double release is representable) |
| `ipv4_peers`, `ipv6_peers` | `registry` |
| `connected_bittorrent_peers`, `inbound_inflight`, `outbound_inflight` | `connected`, `inbound`, `outbound`, with the wrap-around of `std::size_t` at `SizeMax` |
| `inbound_scheduler_t::current`, `empties`, `daemon` | `current`, `empties`, `daemon` |
| `retry_queue`, `discoveries.cache`, `discoveries.beamable_spsc`, `connects`, `disconnects` | `retry_queue`, `cache`, `discoveries`, `connects`, `disconnects`, the last ones with `*_signal` for their async watchers |
| `peer_socket_callback` and its two handlers | `QuotaDeletes`, `SocketError`, `TransportInitiation`, `HandshakeSent`, `HandshakeReceived` |
| `peer_timer_callback` | `RetryTimer`, `ConnectTimer` |
| `round_robin_establisher_scheduler` and its three handlers | `DaemonSignalled`, `RoundBegins`, `DiscoveredPeer`, `DisconnectedPeer`, `FailedPeer`, `NothingLeft` |
| `server_socket_callback`, `accept_peer_connection` | `ServerReadable`, `AcceptUnique`, `AcceptEvicting`, `AcceptEnds` |
| `drain_discovered`, `notify_disconnected` | `DrainDiscovered`, `NotifyDisconnected` |
| `PeerSession::set_endpoint`, `endpoint_disconnected` | `SessionBegins`, `SessionEnds` |
| the trackers' push, which no code implements yet | `TrackerReports` (external) |

In `SpscQueue` the variables are the members of the class, and `pusher` and
`popper` hold where each thread is. A relaxed load of a thread's own index is exact. An
acquire load of the other's index returns any index from the last one seen to
the last one stored (`Loadable`), as coherence allows; the release store
publishes the slot with the index. A load may therefore report a queue as full
or empty that is not any more: `ImplementsFifo` lets a push or a pop fail at
any time and says what a successful one does. The specification of the manager
has them fail exactly when full or empty, which holds of a load that sees the
latest store, as it does on the consumer's side after an async signal.
`OverwritableCache` has one thread and an action per operation.

`Handshake` follows one connection from the end of `connect` to the handover of
both ends; `ConnectionManager` keeps of the same callbacks only which of their
outcomes is taken, and the bytes are here. Sends and receives move any number of
bytes the ring and the wire allow. The manager's rings begin at index 0, because
they are reset or emptied whole; the run and the proofs begin at every index, as
the class allows. `decode` skips the protocol string (it reads only the length
byte before it, `bittorrent_messages.hpp:152-166`), so a wrong string is accepted:
one of the run's exchanges has one. A ring is a record and the views are pairs of
base and length; what `recvmsg` and `memcpy` do through them is `Scattered` and
`Gathered`.

In `TrackerManager` the variables are the members, with the function pointer
`current_state` as the name of the function. The correspondence:

| Code | Specification |
|---|---|
| the functions `current_state` points to | `StartTrackerManager`, `StartState`, `StartMeetsNull`, `ReannounceState`, `ForceReannounceState`, `ShutdownState`; `normal_state` is `looping` |
| the test and the assignment of `start`, `reannounce`, `force_reannounce`, `shutdown` | `Call`, then `Store`: two steps of another thread, without a lock in the code; `StoreLost` if the assignment falls into a state function, whose own assignment at its end overwrites it |
| `manager_space`, a vector of pointers, null for a tracker in protocol space | `manager_space`, of numbers, 0 for null |
| a `Tracker` | `trkr[t]`: flags, timer, place in the list of URLs, `queue_ptr`, the text received, the event of its announce URL, and how far its request is in curl's hands: added, or sent to join or to leave |
| `tracker_timeout_handler`, `do_on_success`, `do_on_failure` | `TrackerTimeoutHandler`, `DoOnSuccess` and `SuccessThrows`, `DoOnFailure` |
| `HTTPHandler::add_request`, `chk_finished`, `easy_callback` | `Added`, `ChkFinished`, `Appended` |
| curl's sending, and what a tracker keeps of an announcement | `CurlSends`, `Joined`, in `swarm` (external) |

`queue_ptr` points into the vector. `push_back` and `shrink_to_fit` move the
vector, and a pointer taken before dangles; `QueuePtr` computes which do, and a
write through one is lost in the model (it goes to freed memory, so the program
may also do worse). libcurl is the environment: it sends what was added, and ends
every transfer, with any answer or none. `only_one_timer` is never false, so the
second timer is left out. The event loop's callbacks may still run after a
caller has stored `current_state`, until the loop sees the event. A second caller
may have passed its test before the first one stored, and store after it: over a
`shutdown` that has begun, or over the `inactive` it ended with. What holds from the
start of a tracker to its shutdown is therefore said of the trackers that no
shutdown has met (`InFirstRun`). The count of trackers is not initialised
(`TrackerManager.hpp:36`) and no line sets it to their number: `populate_manager_space`
only takes the trackers without an HTTP URL off it (`TrackerManager.cpp:76`). It
begins as any member of `FirstCounts`; `first_count` remembers which, and `InSpace`
is the count relative to it, which is what the properties and theorems are about.
They hold for every first value.

An answer counts by two things that are decided apart: `easy_callback` appends
whatever text arrives to the tracker's `data`, and `chk_finished` looks at the result
and the status afterwards. So `DoOnFailure` takes every text too, an acceptance with
another status or before a transfer broke off among them, and the tracker that sent
it has the client as a peer (`Joined`). The bencoder reads the first value of `data`
only, and `data` is never cleared.

Network outcomes (a refused or immediate connect, a partial send, an invalid
handshake, `SO_ERROR`, a failed socket call) are nondeterministic. A partial
receive changes nothing the model keeps and is a stuttering step.

Assertions are compiled out. With them the program does not get past its first
dial: `connect` asserts `source != tracker` (`PeerConnectionManager.cpp:84`)
where its only caller asserts the opposite (`:116`). The properties state those
assertions that are meant as invariants.

The counters are not initialised (`PeerConnectionManager.hpp:46-48`); `Init`
lets each start with any value of `InitialCount`. `TypeCorrect` and the registry
theorems hold for every start, the theorems of `DriverProofs` for starts within
the limits, and the runs take `{0}`.

Definitions named after a definition and a defect (`TornKeepingKey`,
`MayAcceptOneMore`, ...) are plausible wrong versions of it. They occur in no
action; put in the place of the right one, each makes the property it is
paired with in `PROJECT.json` fail.

## 3. Runs

All instances of the connection manager have two slots, symmetric in `connection`.

| Run | Configuration | Shows |
|---|---|---|
| `connection` | `MCConnectionManager.cfg` | pool and registers agree, one driver for each peer, handover, retries, limits and the spots given back, connected peers left alone and their count against the sessions, the end of the scheduler's loops, and `PeerLifecycle`, with one endpoint that is discovered and one that dials in |
| `eviction` | `MCEviction.cfg` | pool and registers agree, one driver for each peer, handed sockets are kept, the scheduler returns and flights end, when an endpoint is discovered and dials in as well, and another dials in: evictions in every state |
| `discoveries` | `MCDiscoveries.cfg` | no race on a slot of the queue, a bounded FIFO; the cache keeps the newest at both ends; from thread to thread and through the cache no address is lost, doubled or overtaken |
| `tracker` | `MCTrackerManager.cfg` | spaces, count, timers and requests agree; what a tracker is sent fits what it knows; trackers are asked again; how a shutdown ends, by the count's first value; with two callers whose tests and stores interleave |
| `handshake` | `MCHandshake.cfg` | no byte is lost, doubled or swapped; who is handed over knows its peer; no party waits for ever, no callback undoes another, and the exchange ends as the handshakes demand |
| `native_v6`, `retry_sockets`, `inbound_exact`, `redial_socket`, `connected_exact`, `handshake_first`, `stopped_announced` | `MC<...>.cfg` | seven statements of the documents and comments that the code does not keep, see section 6 |

Bounds. `MaxGeneration` stops new discoveries and accepts once a slot changed hands
that often. With 2 a slot has three occupants, so an update can be stale by one and
by two; it is 1 in `eviction`, because liveness is checked there; that eviction keeps
the registers and the drivers for every number of occupants is proved. Everything
already begun runs on. Two slots and two endpoints make an update of one slot meet a
reuse of it and a peer in the other. `MaxInbound = 1` makes the scheduler's limit
bind, the limit of accepts is 2 or 1, `Healthy = 2` is met with both slots connected,
`MaxRetries = 2` gives a retry and giving up, the cache and the discovery queue have
one entry so that both overflow, `SizeMax = 7` is out of reach of a counter that is
right and reached by one that wraps. The queue of connects has `SessionCapacity = 2`,
as many as `Healthy`, as in the code (50 and 50).

In `discoveries` the queue has three elements (four slots) and the cache two, of two
values: more than one slot in use and free at a time, both indices around each
ring at any distance, unboundedly often, a drain of more than the cache holds, and
values that show a swap or a loss.

The tracker manager runs with one tracker behind a UDP URL, with one of two
trackers on HTTP, and with two of which only the second has a valid `queue_ptr`;
with two callers and two starts (`MaxStarts`). Two callers are what it takes to
store over each other's request; a third could only repeat that. The count
begins at 0 or at 2 (`FirstCounts`): below the number of trackers, as it, and above
it. `MinCount` stops a caller, the timer of a tracker that a shutdown has met, and a
shutdown that spins, once `InSpace` is -1. Before a shutdown only a dangling pointer
makes it negative, and of that count `SpacesAgree` says only a bound above.
`stopped_announced` takes `{1, 2}`, with the number of trackers among them: from that
start alone a shutdown can end as it is meant to.

The handshake has seven bytes, one before the protocol string, one of it, one
reserved, and two each of info hash and peer id, in rings of seven, beginning at
each of seven indices: the end of the ring is before, inside and behind every
field. Six exchanges: good, a wrong length on either side, a wrong string, info
hashes that differ in the first byte or in the last.

`InFlightBounded` and `SpotsAreReturned` are checked in `connection` only: when an
endpoint is discovered and dials in, evicting a peer that waits for its retry
resolves its dial a second time (`:425`) and both fail. `PoolInv`, `QueueInv` and
`WriteFollowsEntries`, the inductive forms, are proved only; the runs check what
follows from them. So each run asks what it alone can answer.

Fairness (`Fairness` in `ConnectionProperties`). Timers expire, and libev calls
the callback of every pending watcher in an iteration of its loop, but the
thread may be in the scheduler or the accept loop when a timer is looked at, so
`TimerCallback(s)` is strongly fair. Inside a callback the thread runs on, so
`Scheduling` is weakly fair; `AcceptEnds` is weakly fair because connections
waiting to be accepted are finite. No network event is fair, no tracker
reports and no session ends by necessity.

In `TrackerManager` the manager's thread runs on (`CurrentState`), a thread that
tested `current_state` goes on to store it, timers expire, and curl ends every
transfer, because its timeout is set to 30 seconds (`HTTPHandler.cpp:45`). A store
whose moment passes because a state function is running counts as made, hence
weak fairness of `Store(c) \/ StoreLost(c)` together. No tracker
need answer and nobody need call. In `Handshake` the callback of a party that can
send or receive is called at last, because TCP delivers what was sent and makes
room for more; the connect timer need not expire.

The deadlock check is on in every run of the connection manager and in
`discoveries`. It is off for the tracker manager, which may terminate on an exception
or a null pointer, and for the handshake, whose exchange ends.

## 4. Properties

*Agreement*: `RegistryMatchesPool`, `PoolInv` (the inductive form, with
`WatchersOccupied` and `UpdatesKnown`). *One driver*: `EachPeerHasOneDriver`,
the sum of a peer's timer, its retry entries and its updates in the transfer
manager's hands is one, and of a free slot zero; it fails when a timer, an
entry or a session is lost or doubled, or a stale update passes for current.
*Hand-over*: `ConnectedMeansHanded`; `ConnectedLeftAlone` (a connected peer is left
alone until its own session ends or its endpoint dials in again);
`HandedSocketKept`.
*Retries*: `RetryEntriesWait`, `SendBufferClean`. *Counters*:
`ConnectedCoversSessions` (from which the unchecked push at `:670` cannot fail);
`InFlightBounded` (each in-flight counter covers the peers in flight and stays within
its limit); `SpotsAreReturned` (a peer that leaves flight gives its spot back once,
except in three cases that lose it for good: deleted over the quota, `:623`, after
an invalid handshake, `:552`, or queued for a retry by the connect timer of a redial,
`:484`); `CountFollowsSessions` (the count of connected peers moves with the
sessions one by one, but at the end of a session whose peer was evicted; that it is
not reduced then is the finding `connected_exact`).
*Scheduler*: `PoolNeverDry`; `SchedulerAdvances` (each iteration of its loops ends
them or lowers `TurnsLeft`, and no other thread raises it: a lap of six for each
source that is not marked empty, four laps for each entry that may unmark one);
`SchedulerReturns`, `InFlightResolves`.

*Queue and cache*: `QueueInv` (the order of the four indices around the ring,
and that a push or pop past its test is undisturbed), `NoRaceOnSlot`,
`WriteFollowsEntries`; `ImplementsFifo` and `KeepsNewest` are refinements.
`DrainKeepsOrder` spans both: the addresses in the cache, in the callback's hand and
in the queue are one sequence, which grows at its end and loses its oldest to a
full cache, or one to the scheduler.

*Trackers*: `EachTrackerHasOneDriver` (a timer or a request, never both and
never neither), `EventFitsSwarm` (what a tracker is sent, against whether it has the
client as a peer: the text of all answers is one buffer that is never cleared),
`SpacesAgree` (null entries against requests, the count's change since its first value
against both, and what of it a dangling pointer leaves), `AskedAgain`,
`ShutdownOutcome` (the first value of the count decides whether a shutdown leaves for
`inactive_state` or runs for ever).

*Handshake*: `BytesInOrder` (where each byte of a handshake is, between encoding
and decoding), `ConnectedKnowsPeer` (what each end knows when its socket is handed
over, of the other end), `EndsAsDemanded` (unless a timer expires no party is
connected, failed or deleted but as the two handshakes demand, the accepting one
first), `NeverStuck` (while a party is not done a callback is due that changes
something), `EveryCallbackCounts` (each such callback lowers the number of those
that can follow), and what they amount to, `ExchangeEnds`.

*Refinement*: `PeerLifecycle` knows endpoints and their status only. It says
that an endpoint has one connection, connects only by completing a handshake,
that only dialled endpoints are retried, and that a step moves one endpoint.
`StatusOf` maps the detailed state to it: through the register to the slot,
then by state and armed watchers.

## 5. Proofs

`ConnectionProofs` proves, under the constants' named assumptions only:

* `TypeCorrect`: `Spec => []TypeOK`. `TypeOK` is inductive. It is split in five
  parts by writer (`TypeParts`); there is a lemma per action and lemmas for the
  values handlers compute (`PeerValues`, `ConnectValues`, `NewestValues`, ...).
* `AcquireFindsSlot`: `Spec => []PoolNeverDry`. Inductive by itself: the handler
  that keeps a slot returns, and one that returns leaves its spot;
* `DrainIsPushes`: with one more discovery, what `Newest` keeps is what one more
  push of `NewestEntries` keeps, which the cache's own code is proved to do. That
  the whole loop of `drain_discovered` is `Newest` follows by induction over the
  discoveries, which stays a remark.

`RegistryProofs` proves, assuming further that no native IPv6 endpoint dials in
(`NativeV6 = {}`: with one the statement is false, section 6):

* `PoolInvForever`: `Spec => []PoolInv`, and from it
* `PoolAgreesForever`: `Spec => []RegistryMatchesPool`;
* `UpdatesAlwaysKnown`: `Spec => [](UpdatesKnown /\ WatchersOccupied)`.

`RegistryMatchesPool` is not inductive: the scheduler deletes the peer that an
update names, and a callback the one its watcher names, and if that slot were
free the deletion would release it twice. `PoolInv` adds that a current update
names an occupied slot (`UpdatesKnown`) and that armed watchers belong to
occupied slots (`WatchersOccupied`). The proof reduces the actions to four
effects on the pool - an occupied slot's peer changes (`SetPeerAgrees`), is
deleted (`DeletePeerAgrees`), a free slot is taken (`AcquireAgrees`) or acquired
and released (`RecycleAgrees`) - and their combination in an eviction
(`EvictAgrees`). Each keeps `PoolAgrees` and each is an `Aging`: a slot's
generation stays, and then its occupant does, or grows, and then every update
of it is stale. `UpdatesStayKnown` concludes from `Aging` alone.

`QueueProofs` proves, for every `Size` and `Values`:

* `QueueAlwaysConsistent`: `Spec => [](TypeOK /\ QueueInv)`. `QueueInv` is what
  makes it inductive: the reader lies between the writer's copy of it and the
  writer (`Between`), the reader's copy of the writer between reader and writer.
  Each index or copy that moves keeps that (`CopyOfReaderMoves`, `FarEndMoves`, ...);
* `NoDataRace`: `Spec => []NoRaceOnSlot`, from it;
* `QueueIsFifo`: `Spec => ImplementsFifo`. Storing an index lengthens or shortens
  the section of the ring that is read as a sequence (`SectionGrows`,
  `SectionShrinks`), writing the slot beyond it does not touch it.

`CacheProofs` proves, for every `N` and `Entries`: `CacheAlwaysConsistent`
(`CacheTypeOK /\ WriteFollowsEntries` is inductive) and `CacheKeepsNewest`, the
refinement of `NewestEntries`, along the same lines.

`DriverProofs` proves every other invariant and action property of the connection
manager's runs, and the refinement, assuming `NativeV6 = {}` and that no counter
starts above a limit (`CountsStartWithin`; the code does not initialise them):

* `OneDriverPerPeer`, `ConnectedIsHanded`, `RetriesFindWaitingPeers`,
  `CountCoversSessions`, `HandshakesStartClean`, `ConnectedStays` and
  `HandedSocketsStay` (of the counters only `connected` matters, so the first
  values need only be within `Healthy`);
* `AcceptedWithinLimit`, and, if no endpoint is both discovered and dials in,
  `DialsWithinLimit`, with both as `InFlightWithinLimits`, and `SpotsComeBack`
  (`Spec => SpotsAreReturned`);
* `CountRunsAheadByEvictions`: `Spec => CountFollowsSessions`;
* `TimersEndFlights`: a peer in flight always has its timer armed, and when that
  expires the peer is in flight no longer: what `InFlightResolves` needs besides
  fairness;
* `SchedulerEnds`: `Spec => SchedulerAdvances`, with no assumption at all; since the
  measure is a natural number, `SchedulerReturns` needs only fairness besides;
* `LifecycleImplemented`: `Spec => ImplementsLifecycle`, for a finite pool.

The inductive invariant is `DriverInv`. No property above is inductive by itself,
because each action that moves a peer on (a timer, a retry entry, the end of a
session) relies on the two other drivers being absent, and dispatch on there
being room for its update. `DriverInv` has `PoolInv`, `SlotSound` of each slot and
`ConnectedCoversSessions`. `SlotSound` says of a registered peer that it has one
driver and which one in which state (`Driven`), and what its state says of source,
socket, watchers and buffer (`Sound`); of a free slot, that it is blank. A driver
is counted: `Count(queue, u)` is the number of entries equal to an update, with
lemmas for appending to a queue and for taking its head (`CountAppend`,
`CountTail`). Every step leaves each slot as it is, or frees it, or moves it on
with one driver (`StepsSoundly`), and `SlotsStaySound` concludes. The quota that
guards each dispatch, with `ConnectedCoversSessions`, gives the room in the queue
(`RoomBelowQuota`). The action properties come from which slots each action leaves
alone (`LeftAlone`).

For the limits `FlightInv` adds that each counter covers the set of peers in
flight and that a handler of the scheduler is entered with room for one more.
A step changes the set and the counter together in one of four ways (`Counts`):
neither, a peer leaves and is counted or is one of `Lost`, a peer joins, an eviction
replaces one by another. That each action does (`StepCounts`) gives both results: in
each of the four the limit stays (`FlightsStay`), and the difference of counter and
set moves only by a lost peer, `SpotsAreReturned`. The lost ones are defined by the
code's three cases (`LeavesUncounted`), not by the counter. The count of connected
peers needs `HandedOnce` besides `DriverInv`: no update is in the transfer manager's
hands twice, not even a stale one, so `sessions`, a set, counts right. The scheduler's
measure is split into the laps that its flags allow (`Lap`, below 24) and the
entries that may reset a flag (`Work`); a handler that finds its source empty lowers
the first, one that takes an entry the second. For the refinement, a step that
changes one peer changes one endpoint's status (`PeerBecomes`, `NewcomerBecomes`),
the endpoint of a dialled peer is discoverable (`FlightInv`), and with a free slot
fewer endpoints are known than there are slots (`KnownFewer`, by the injection
that the register is).

`RingProofs` proves for every size of ring and every place of its indices that
what is written through the views of `prepare_write` comes behind the contents
(`WritesComeBehind`), and that the views of `prepare_read` are the contents, the
first `n` of which a commit takes away (`ReadsComeFirst`). The cases are those of
the code: empty, full, wrapped, and the end of the ring inside what is moved.

`HandshakeProofs` proves, for all lengths, bytes, ids and starting indices:

* `DecodesWhatArrived`: the fields that `decode` finds through two views are the
  sections of the contents, wherever the first view ends;
* `Invariance`, and from it `TypeCorrect`, `AllBytesInOrder` and
  `HandedOverKnowing`. `HandshakeInv` says where the bytes of each party are while
  the other is there to take them (`Flow`): also when the sender has failed, for
  then what it left behind begins its handshake, and a receiver must not take the
  beginning of one for all of it. The control parts say that a party that waits
  to send has something to send, which makes the two ends agree on who is next;
* `CallbacksAreBounded`: `EveryCallbackCounts`, and at most `4 * Length + 5` callbacks
  change anything (277 for the 68 bytes of a handshake);
* `EndsOnlyAsDemanded` (`EndsAsDemanded`) and `NeverWaitingForEver` (`NeverStuck`).
  `HandshakeInv` does not say which end an exchange may have, and `EndsAsDemanded`
  is not inductive: a full ring reads 0 bytes, which the code takes for the end of
  the connection. `CourseInv` adds that no callback begins with a full ring
  (`NoRingWaits`) and that only a good handshake was decoded (`KnownIsWelcome`).

The last three together are the safety half of `ExchangeEnds`: what is left of it is that
a callback that is due is called.

`TrackerProofs` proves, for all torrents, callers and first counts: `TypeCorrect`,
`OneDriverForever` and `EventsFitForever`. The invariant adds to these that
nothing has happened before the first start (`Unstarted`), and that a tracker
whose text was once an acceptance takes the client for a peer (`Driven`), since
that text decides all later answers. `HttpUrl` finds an HTTP URL and `Rank` counts
trackers; the lemmas about them are by the least natural number.
For `SpacesAgreeForever` the invariant also says where each
tracker stands in `manager_space`: in the entry of its rank, and nowhere else
(`Placed`, with `RanksDiffer` and `RankedTracker`), where a dangling `queue_ptr`
leaves it even while curl has its request. A loop over the space therefore meets
each tracker it looks for once (`MetOnce`), which ties what it subtracts from the
count to the set of trackers that stop waiting. Nothing is assumed of the count's
first value, since `InSpace` moves as the count does. From the same invariant
`ShutdownsEndSo` (`Spec => ShutdownOutcome`).

Only model-checked: the four liveness properties, which are out of the prover's
reach, and `DrainKeepsOrder`. Of the four the part that is no matter of fairness is
proved: of `SchedulerReturns` (`SchedulerEnds`), `InFlightResolves`
(`TimersEndFlights`) and `ExchangeEnds` (above); of `AskedAgain` it is
`OneDriverForever`: a tracker that is not being asked has a timer.

## 6. Where code and documents differ

* `native_v6`: `unique` is never set for IPv6 (`:394-396`), so a new native
  IPv6 endpoint evicts the slot it was just given, which is released and then
  used; `slot_pool.hpp:22` forbids it.
* `retry_sockets`: a redial keeps the state `FAILED`; its connect timer is taken
  for the retry timer and queues the peer with the socket open (`:484`, against
  the comment at `:186`). The next dial then fails at the open socket, and the
  dial is never counted as resolved.
* `inbound_exact`: an invalid handshake and the quota delete a dialled peer
  without freeing its spot (`:552`, `:622`, against `tcpnote.txt:21-23`).
* `redial_socket`: the end of a session leaves the number of the socket that was
  handed over in the slot, so the redial of a tracker's peer (`:177`, expected by the
  comment at `:490` and the case at `:631`) meets `open_socket`'s test for one
  (`PeerManagerTypes.cpp:11-12`), always fails, and the peer is deleted.
* `connected_exact`: the end of a session whose peer was evicted is dropped as stale
  (`:167`), and the eviction did not count either (`:419`): the count of connected
  peers stays one too high for good (against `tcpnote.txt:29-30`).
* `handshake_first`: after an immediate connect no handshake is sent (`:100`,
  against `the_bittorrent_protocol.md:210`).
* `stopped_announced`: `shutdown_state` goes to `inactive_state` as soon as every
  tracker is in protocol space (`TrackerManager.cpp:280`). The event loop does not
  run again, and the `stopped` announcements it has just queued are not sent
  (against `the_bittorrent_protocol.md:69`).

The model also does the following, as the code does, without a run of its own.

* A tracker whose first text is not an acceptance is sent `started` for ever, also
  after it accepts: `data` keeps the first text (`HTTPHandler.cpp:113`) and
  `update_state` is never set. `the_bittorrent_protocol.md:69` has `started` sent when
  the file first begins. `EventFitsSwarm` leaves this case open.
* From any first value of the count but the number of trackers (or, with a dangling
  pointer, one above it that the pass over the space happens to bring to 0),
  `shutdown_state` runs for ever. `ShutdownOutcome` says so.
* `the_bittorrent_protocol.md:220` has the recipient of a handshake answer once it sees
  the info hash; the code waits for all 68 bytes. So `NeverStuck` and `ExchangeEnds` hold
  of two parties that run this client. A party that sends its id only after the
  answer would be waited for until the connect timer expires.
* The comments at `PeerConnectionManager.cpp:374-386` expect an endpoint to be
  discovered and to dial in as well. Then the in-flight limits fail (section 3), and
  `InFlightBounded` and `SpotsAreReturned` say nothing of it.
* The scheduler's break at `:219` uses flags of earlier rounds, and a discovery may
  wait for the next notification; a wrong protocol string is accepted; a second
  `start` follows the null entries that a shutdown left (`TrackerManager.cpp:203`).

## 7. Not modelled

* Addresses and ports (the copy from byte 5 at `PeerManagerTypes.cpp:184`) and the
  set-up of the listening socket with its error handlers, which run once before
  the loop; `PeerSession` beyond the update it holds.
* Of the tracker manager: `update_context`, the text of the announce URL, the
  intervals (time has no length here). Of the HTTP handler: the watchers and the
  timer it lends to libcurl.
* `DynamicBitset` and the bencoder: sequential code without an interplay to check;
  they are right iff they equal a reference definition, see section 8.
* The torrent file, hashing and constants: immutable input, read once.
* The transfer, peer and file managers and the UDP protocol: stubs, with nothing
  to translate. Exceptions, `main.cpp` (empty) and the tests keep no state, and
  no file includes `TCPRingBuffer(invalid).hpp`.

## 8. Plan

1. `DynamicBitset` against a set of indices, and `decode` of `encode` of the
   bencoder over bounded values (TLC).
2. `Handshake` composed with `ConnectionManager`: each step of the former as a
   step of the latter with two managers at the ends of a connection.
