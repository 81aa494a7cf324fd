---------------------------- MODULE DriverProofs ----------------------------
(***************************************************************************)
(* Every peer has exactly one thing that will move it on, for any pool and *)
(* limits: its timer, an entry of retry_queue, or its update in the hands  *)
(* of the transfer manager.  With it: which peers are CONNECTED, whose     *)
(* sockets are handed over, and what is in the send buffers.               *)
(***************************************************************************)
EXTENDS RegistryProofs, FiniteSetTheorems, FunctionTheorems

----------------------------------------------------------------------------
(* Counting an update in a queue.                                          *)

Count(queue, u) == Cardinality({i \in DOMAIN queue : queue[i] = u})

LEMMA CountIs ==
  ASSUME NEW q \in Seq(Update), NEW u
  PROVE  /\ Count(q, u) \in Nat /\ IsFiniteSet({i \in DOMAIN q : q[i] = u})
         /\ Count(q, u) = 0 <=> u \notin Elements(q)
<1> DEFINE S == {i \in DOMAIN q : q[i] = u}
<1>1. IsFiniteSet(DOMAIN q)
  <2>1. DOMAIN q = 1 .. Len(q) /\ Len(q) \in Nat
    OBVIOUS
  <2> QED BY <2>1, FS_Interval
<1>2. IsFiniteSet(S) /\ Cardinality(S) \in Nat
  <2>1. S \in SUBSET DOMAIN q
    OBVIOUS
  <2>2. IsFiniteSet(S)
    BY <1>1, <2>1, FS_Subset
  <2> QED BY <2>2, FS_CardinalityType
<1>3. Cardinality(S) = 0 <=> S = {}
  BY <1>2, FS_EmptySet
<1>4. S = {} <=> u \notin Elements(q)
  BY DEF Elements
<1> QED BY <1>2, <1>3, <1>4 DEF Count

LEMMA CountAppend ==
  ASSUME NEW q \in Seq(Update), NEW v \in Update, NEW u
  PROVE  Count(Append(q, v), u) = Count(q, u) + (IF v = u THEN 1 ELSE 0)
<1> DEFINE S == {i \in DOMAIN q : q[i] = u}
           A == {i \in DOMAIN Append(q, v) : Append(q, v)[i] = u}
           n == Len(q) + 1
<1>1. /\ Len(q) \in Nat /\ DOMAIN q = 1 .. Len(q)
      /\ DOMAIN Append(q, v) = 1 .. n
      /\ \A i \in 1 .. Len(q) : Append(q, v)[i] = q[i]
      /\ Append(q, v)[n] = v
  BY AppendProperties
<1>2. A = IF v = u THEN S \cup {n} ELSE S
  <2>1. \A i : i \in 1 .. n <=> i \in 1 .. Len(q) \/ i = n
    BY <1>1
  <2> HIDE DEF n
  <2> QED BY <1>1, <2>1, Zenon
<1>3. n \notin S
  BY <1>1
<1>4. IsFiniteSet(S) /\ Cardinality(S) \in Nat
  BY CountIs DEF Count
<1>5. Cardinality(S \cup {n}) = Cardinality(S) + 1
  BY <1>3, <1>4, FS_AddElement
<1> HIDE DEF S, A, n
<1>6. Cardinality(A) = Cardinality(S) + (IF v = u THEN 1 ELSE 0)
  BY <1>2, <1>4, <1>5
<1> QED BY <1>6 DEF Count, S, A

LEMMA CountTail ==
  ASSUME NEW q \in Seq(Update), q # <<>>, NEW u
  PROVE  Count(q, u) = Count(Tail(q), u) + (IF Head(q) = u THEN 1 ELSE 0)
<1> DEFINE S == {i \in DOMAIN q : q[i] = u}
           T == {i \in DOMAIN Tail(q) : Tail(q)[i] = u}
           R == S \ {1}
           f == [i \in T |-> i + 1]
<1>1. /\ Len(q) \in Nat \ {0} /\ DOMAIN q = 1 .. Len(q)
      /\ Tail(q) \in Seq(Update) /\ DOMAIN Tail(q) = 1 .. Len(q) - 1
      /\ \A i \in 1 .. Len(q) - 1 : Tail(q)[i] = q[i + 1]
      /\ Head(q) = q[1]
  <2>1. Len(Tail(q)) = Len(q) - 1 /\ Tail(q) \in Seq(Update)
        /\ \A i \in 1 .. Len(Tail(q)) : Tail(q)[i] = q[i + 1]
    BY HeadTailProperties
  <2>2. Len(q) \in Nat \ {0} /\ DOMAIN q = 1 .. Len(q)
    BY EmptySeq
  <2> QED BY <2>1, <2>2
<1>2. IsFiniteSet(T) /\ Cardinality(T) \in Nat /\ IsFiniteSet(S) /\ Cardinality(S) \in Nat
  BY <1>1, CountIs DEF Count
<1>3. f \in Bijection(T, R)
  <2>1. \A i \in T : i \in Nat /\ i + 1 \in R
    BY <1>1
  <2>2. \A j \in R : j \in Nat /\ j - 1 \in T /\ (j - 1) + 1 = j
    BY <1>1
  <2>3. f \in [T -> R] /\ \A i \in T : f[i] = i + 1
    BY <2>1
  <2>4. \A i, j \in T : f[i] = f[j] => i = j
    BY <2>1, <2>3
  <2>5. \A j \in R : \E i \in T : f[i] = j
    BY <2>2, <2>3
  <2> HIDE DEF f, T, R
  <2> QED BY <2>3, <2>4, <2>5, Fun_IsBij
<1>4. Cardinality(R) = Cardinality(T)
  BY <1>2, <1>3, FS_Bijection, Zenon DEF ExistsBijection
<1>5. Cardinality(R) = IF 1 \in S THEN Cardinality(S) - 1 ELSE Cardinality(S)
  BY <1>2, FS_RemoveElement
<1>6. 1 \in S <=> Head(q) = u
  BY <1>1
<1> HIDE DEF S, T, R
<1>7. Cardinality(S) = Cardinality(T) + (IF Head(q) = u THEN 1 ELSE 0)
  BY <1>2, <1>4, <1>5, <1>6
<1> QED BY <1>7 DEF Count, S, T

----------------------------------------------------------------------------
(* The invariant.                                                          *)

Retries(s) == Cardinality(Entries(retry_queue, s))
Timers(s) == IF peer[s].timer THEN 1 ELSE 0

\* What drives the peer of an occupied slot, and how it shows in its state.
Driven(s) ==
  /\ Timers(s) + Retries(s) + Handed(s) = 1
  /\ peer[s].state = "CONNECTED" <=> Handed(s) = 1
  /\ Retries(s) # 0 => peer[s].state = "FAILED"

\* A registered peer: a watcher on its socket is never without the timer, the
\* timer without one waits for a retry, only a dialled peer is retried, the
\* socket is handed over on CONNECTED and not before, and nothing is in the
\* send buffer that may follow a handshake.
Sound(p) ==
  /\ p.source # "null"
  /\ p.io # "off" => p.timer
  /\ p.timer => p.io # "off" \/ p.state = "FAILED"
  /\ p.state \in {"DISCOVERED", "DISCONNECTED", "FAILED"} => p.source = "tracker"
  /\ p.state = "CONNECTED" <=> p.sock = "handed"
  /\ \/ p.state \in {"DISCOVERED", "DISCONNECTED", "FAILED"}
     \/ p.state = "HANDSHAKE" /\ p.io = "READ" /\ p.source = "tcp_server"
     => p.send = "empty"

\* What teardown_connection leaves of one.
Blank(p) == p.state = "null" /\ p.send = "empty"

SlotSound(s) ==
  IF Occupied(s) THEN Driven(s) /\ Sound(peer[s]) ELSE Blank(peer[s])

DriverInv ==
  /\ PoolInv /\ (\A s \in Slots : SlotSound(s))
  /\ ConnectedCoversSessions /\ IsFiniteSet(sessions)

----------------------------------------------------------------------------
(* Updates of a slot.                                                      *)

LEMMA CountsTyped ==
  ASSUME TypeOK, NEW s \in Slots
  PROVE  /\ Retries(s) \in Nat /\ Handed(s) \in Nat /\ UpdateOf(s) \in Update
         /\ Retries(s) = Count(retry_queue, UpdateOf(s))
         /\ Handed(s) = Count(connects, UpdateOf(s)) + Count(disconnects, UpdateOf(s))
                          + (IF UpdateOf(s) \in sessions THEN 1 ELSE 0)
         /\ Count(connects, UpdateOf(s)) \in Nat /\ Count(disconnects, UpdateOf(s)) \in Nat
<1>1. /\ Count(retry_queue, UpdateOf(s)) \in Nat /\ Count(connects, UpdateOf(s)) \in Nat
      /\ Count(disconnects, UpdateOf(s)) \in Nat
  BY CountIs DEF TypeOK
<1>2. /\ Retries(s) = Count(retry_queue, UpdateOf(s))
      /\ Handed(s) = Count(connects, UpdateOf(s)) + Count(disconnects, UpdateOf(s))
                       + (IF UpdateOf(s) \in sessions THEN 1 ELSE 0)
  BY DEF Retries, Handed, Entries, Count
<1>3. UpdateOf(s) \in Update
  BY DEF UpdateOf, Update, TypeOK
<1> QED BY <1>1, <1>2, <1>3

\* Nothing names a free slot.
LEMMA FreeUnnamed ==
  ASSUME PoolInv, NEW s \in Slots, ~Occupied(s)
  PROVE  Retries(s) = 0 /\ Handed(s) = 0
<1>1. UpdateOf(s) \notin AllUpdates
  BY DEF PoolInv, UpdatesKnown, UpdateKnown, IsCurrent, UpdateOf
<1>2. TypeOK
  BY DEF PoolInv
<1>3. /\ UpdateOf(s) \notin Elements(retry_queue) /\ UpdateOf(s) \notin Elements(connects)
      /\ UpdateOf(s) \notin Elements(disconnects) /\ UpdateOf(s) \notin sessions
  BY <1>1 DEF AllUpdates
<1>4. /\ Count(retry_queue, UpdateOf(s)) = 0 /\ Count(connects, UpdateOf(s)) = 0
      /\ Count(disconnects, UpdateOf(s)) = 0
  BY <1>2, <1>3, CountIs DEF TypeOK
<1> QED BY <1>2, <1>3, <1>4, CountsTyped

\* An update in a queue or with a session is the driver of its slot's peer.
LEMMA NamedDrives ==
  ASSUME PoolInv, NEW s \in Slots, SlotSound(s)
  PROVE  /\ UpdateOf(s) \in Elements(retry_queue) =>
              /\ Occupied(s) /\ Retries(s) = 1 /\ Handed(s) = 0 /\ Timers(s) = 0
         /\ \/ UpdateOf(s) \in Elements(connects) \/ UpdateOf(s) \in Elements(disconnects)
            \/ UpdateOf(s) \in sessions
            => Occupied(s) /\ Retries(s) = 0 /\ Handed(s) = 1 /\ Timers(s) = 0
         /\ Occupied(s) /\ peer[s].timer => Retries(s) = 0 /\ Handed(s) = 0
<1>1. TypeOK
  BY DEF PoolInv
<1>2. /\ Retries(s) \in Nat /\ Handed(s) \in Nat /\ Timers(s) \in {0, 1}
      /\ Retries(s) = Count(retry_queue, UpdateOf(s))
      /\ Handed(s) = Count(connects, UpdateOf(s)) + Count(disconnects, UpdateOf(s))
                       + (IF UpdateOf(s) \in sessions THEN 1 ELSE 0)
      /\ Count(connects, UpdateOf(s)) \in Nat /\ Count(disconnects, UpdateOf(s)) \in Nat
  BY <1>1, CountsTyped DEF Timers
<1>3. /\ UpdateOf(s) \in Elements(retry_queue) => Retries(s) # 0
      /\ UpdateOf(s) \in Elements(connects) => Count(connects, UpdateOf(s)) # 0
      /\ UpdateOf(s) \in Elements(disconnects) => Count(disconnects, UpdateOf(s)) # 0
  BY <1>1, <1>2, CountIs DEF TypeOK
<1>4. Occupied(s) => Timers(s) + Retries(s) + Handed(s) = 1
  BY DEF SlotSound, Driven
<1>5. ~Occupied(s) => Retries(s) = 0 /\ Handed(s) = 0
  BY FreeUnnamed
<1>6. peer[s].timer => Timers(s) = 1
  BY DEF Timers
<1> QED BY <1>2, <1>3, <1>4, <1>5, <1>6

----------------------------------------------------------------------------
(* What a step does to a slot.                                             *)

\* Nothing.
Stays(s) ==
  /\ generation'[s] = generation[s] /\ peer'[s] = peer[s]
  /\ Retries(s)' = Retries(s) /\ Handed(s)' = Handed(s)

\* It is free afterwards.
Frees(s) == ~Occupied(s)' /\ Blank(peer'[s])

\* Its peer has another driver, or another state.
Moves(s) == Occupied(s)' /\ Driven(s)' /\ Sound(peer'[s])

StepsSoundly == \A s \in Slots : Stays(s) \/ Frees(s) \/ Moves(s)

LEMMA SlotsStaySound ==
  ASSUME \A s \in Slots : SlotSound(s), StepsSoundly
  PROVE  (\A s \in Slots : SlotSound(s))'
<1>1. ASSUME NEW s \in Slots, Stays(s)
      PROVE  SlotSound(s)'
  BY <1>1 DEF Stays, SlotSound, Occupied, Driven, Timers
<1>2. ASSUME NEW s \in Slots, Frees(s)
      PROVE  SlotSound(s)'
  BY <1>2 DEF Frees, SlotSound
<1>3. ASSUME NEW s \in Slots, Moves(s)
      PROVE  SlotSound(s)'
  BY <1>3 DEF Moves, SlotSound
<1> QED BY <1>1, <1>2, <1>3 DEF StepsSoundly

\* The queues, as far as a slot is concerned.
LEMMA QueuesStay ==
  ASSUME UNCHANGED <<retry_queue, connects, sessions, disconnects>>,
         NEW s \in Slots, generation'[s] = generation[s]
  PROVE  Retries(s)' = Retries(s) /\ Handed(s)' = Handed(s) /\ UpdateOf(s)' = UpdateOf(s)
BY DEF Retries, Handed, Entries, UpdateOf

\* A step about slot s only, which leaves the others' updates alone.
Others(s) ==
  \A t \in Slots : t # s =>
    /\ generation'[t] = generation[t] /\ peer'[t] = peer[t]
    /\ Retries(t)' = Retries(t) /\ Handed(t)' = Handed(t)

LEMMA OneSlotSteps ==
  ASSUME NEW s \in Slots, Others(s), Frees(s) \/ Moves(s)
  PROVE  StepsSoundly
BY DEF Others, StepsSoundly, Stays

\* A queue is left alone or loses u from its head.
Drops(q, r, u) == r = q \/ (q # <<>> /\ Head(q) = u /\ r = Tail(q))

LEMMA DropsCount ==
  ASSUME NEW q \in Seq(Update), NEW r, NEW u, NEW v, Drops(q, r, u), u # v
  PROVE  Count(r, v) = Count(q, v)
<1>1. CASE r = q
  BY <1>1
<1>2. CASE q # <<>> /\ Head(q) = u /\ r = Tail(q)
  <2>1. Count(q, v) = Count(r, v) + 0
    BY <1>2, CountTail
  <2>2. r \in Seq(Update)
    BY <1>2, HeadTailProperties
  <2>3. Count(r, v) \in Nat
    BY <2>2, CountIs
  <2> QED BY <2>1, <2>3
<1> QED BY <1>1, <1>2 DEF Drops

\* An update that leaves a queue is nothing to the slots it does not name.
LEMMA QueuesShorten ==
  ASSUME TypeOK, NEW u, UNCHANGED <<connects, sessions>>,
         Drops(retry_queue, retry_queue', u), Drops(disconnects, disconnects', u),
         NEW t \in Slots, generation'[t] = generation[t], u # UpdateOf(t)
  PROVE  Retries(t)' = Retries(t) /\ Handed(t)' = Handed(t)
<1>1. retry_queue \in Seq(Update) /\ disconnects \in Seq(Update)
  BY DEF TypeOK
<1>2. UpdateOf(t)' = UpdateOf(t)
  BY DEF UpdateOf
<1>3. /\ Count(retry_queue', UpdateOf(t)) = Count(retry_queue, UpdateOf(t))
      /\ Count(disconnects', UpdateOf(t)) = Count(disconnects, UpdateOf(t))
  BY <1>1, DropsCount
<1> QED BY <1>2, <1>3 DEF Retries, Handed, Entries, Count

\* The peer of s is deleted.
LEMMA DeletionSteps ==
  ASSUME TypeOK, NEW s \in Slots, NEW p, DeletePeer(s, p),
         UNCHANGED <<connects, sessions>>,
         Drops(retry_queue, retry_queue', UpdateOf(s)),
         Drops(disconnects, disconnects', UpdateOf(s))
  PROVE  StepsSoundly
<1>1. peer \in [Slots -> PeerConnection] /\ generation \in [Slots -> Nat]
  BY DEF TypeOK
<1>2. peer' = [peer EXCEPT ![s] = Torn(p)] /\ generation' = [generation EXCEPT ![s] = @ + 1]
  BY DEF DeletePeer, Aged
<1>3. Frees(s)
  BY <1>1, <1>2 DEF Frees, Occupied, Blank, Torn
<1>4. ASSUME NEW t \in Slots, t # s
      PROVE  Retries(t)' = Retries(t) /\ Handed(t)' = Handed(t)
  <2>1. generation'[t] = generation[t] /\ UpdateOf(s) # UpdateOf(t)
    BY <1>1, <1>2, <1>4 DEF UpdateOf
  <2> QED BY <2>1, QueuesShorten
<1>5. Others(s)
  BY <1>1, <1>2, <1>4 DEF Others
<1> QED BY <1>3, <1>5, OneSlotSteps

----------------------------------------------------------------------------
(* What a callback does to the peer it is about.                           *)

\* A peer under its timer stays under it.
LEMMA TimedSteps ==
  ASSUME PoolInv, NEW s \in Slots, SlotSound(s), Occupied(s), peer[s].timer,
         NEW p, SetPeer(s, p), p.key = peer[s].key, p.timer,
         p.state # "CONNECTED", Sound(p),
         UNCHANGED <<retry_queue, connects, sessions, disconnects>>
  PROVE  StepsSoundly
<1>1. peer \in [Slots -> PeerConnection]
  BY DEF PoolInv, TypeOK
<1>2. peer' = [peer EXCEPT ![s] = p] /\ generation' = generation
  BY DEF SetPeer
<1>3. \A t \in Slots : Retries(t)' = Retries(t) /\ Handed(t)' = Handed(t)
  BY <1>2, QueuesStay
<1>4. Retries(s) = 0 /\ Handed(s) = 0
  BY NamedDrives
<1>5. peer'[s] = p
  BY <1>1, <1>2
<1>6. Occupied(s)' /\ Driven(s)'
  BY <1>3, <1>4, <1>5 DEF Occupied, Driven, Timers
<1>7. Moves(s)
  BY <1>5, <1>6 DEF Moves
<1>8. Others(s)
  BY <1>1, <1>2, <1>3 DEF Others
<1> QED BY <1>7, <1>8, OneSlotSteps

\* Only a peer with its timer has a watcher on its socket, and it is not
\* CONNECTED.
LEMMA WatchedTimed ==
  ASSUME PoolInv, NEW s \in Slots, SlotSound(s), peer[s].io # "off" \/ peer[s].timer
  PROVE  /\ Occupied(s) /\ peer[s].timer /\ Sound(peer[s]) /\ Driven(s)
         /\ peer[s].state # "CONNECTED" /\ peer[s].sock # "handed"
<1>1. Occupied(s)
  BY DEF PoolInv, WatchersOccupied
<1>2. Driven(s) /\ Sound(peer[s])
  BY <1>1 DEF SlotSound
<1>3. peer[s].timer
  BY <1>2 DEF Sound
<1>4. Handed(s) = 0
  BY <1>1, <1>3, NamedDrives
<1>5. peer[s].state # "CONNECTED" /\ peer[s].sock # "handed"
  BY <1>2, <1>4 DEF Driven, Sound
<1> QED BY <1>1, <1>2, <1>3, <1>5

\* A failure deletes the peer or leaves it to the retry timer.
LEMMA FailureSteps ==
  ASSUME PoolInv, NEW s \in Slots, SlotSound(s), peer[s].io # "off" \/ peer[s].timer,
         HandlePeerFailure(s), UNCHANGED <<retry_queue, sessions, disconnects>>
  PROVE  StepsSoundly /\ UNCHANGED <<connected, connects>>
<1> DEFINE p == [Closed(peer[s]) EXCEPT !.state = "FAILED", !.failures = @ + 1]
<1>1. /\ UNCHANGED <<connected, connects>>
      /\ IF GivesUp(p) THEN DeletePeer(s, p) ELSE SetPeer(s, Waiting(p))
  BY DEF HandlePeerFailure
<1>2. TypeOK /\ peer[s] \in PeerConnection
  BY DEF PoolInv, TypeOK
<1>3. Occupied(s) /\ Sound(peer[s]) /\ peer[s].timer
  BY WatchedTimed
<1>4. CASE GivesUp(p)
  <2>1. DeletePeer(s, p)
    BY <1>1, <1>4
  <2> HIDE DEF p
  <2> QED BY <1>1, <1>2, <2>1, DeletionSteps DEF Drops
<1>5. CASE ~GivesUp(p)
  <2>1. SetPeer(s, Waiting(p))
    BY <1>1, <1>5
  <2>2. /\ p.source = peer[s].source /\ p.key = peer[s].key /\ p.sock = "none"
        /\ p.state = "FAILED"
    BY <1>2 DEF Closed, PeerConnection
  <2>3. p.source = "tracker"
    BY <1>2, <1>3, <1>5, <2>2 DEF GivesUp, Sound, PeerConnection
  <2>4. p \in PeerConnection
    BY <1>2, PeerValues, FailureCounted
  <2> HIDE DEF p
  <2>5. /\ Waiting(p).source = "tracker" /\ Waiting(p).key = peer[s].key
        /\ Waiting(p).sock = "none" /\ Waiting(p).state = "FAILED"
        /\ Waiting(p).timer /\ Waiting(p).send = "empty" /\ Waiting(p).io = "off"
    BY <2>2, <2>3, <2>4 DEF Waiting, PeerConnection
  <2>6. Sound(Waiting(p))
    BY <2>5 DEF Sound
  <2>7. Waiting(p).state # "CONNECTED"
    BY <2>5
  <2> QED BY <1>1, <1>3, <2>1, <2>5, <2>6, <2>7, TimedSteps
<1> QED BY <1>1, <1>4, <1>5

\* Below the quota there is room in connects.
LEMMA RoomBelowQuota ==
  ASSUME TypeOK, ConnectedCoversSessions, IsFiniteSet(sessions), ~HasMetQuota
  PROVE  /\ Len(connects) < SessionCapacity /\ Increment(connected) = connected + 1
         /\ connected + 1 <= Healthy
<1>1. Cardinality(sessions) \in Nat
  BY FS_CardinalityType
<1>2. /\ connected \in Nat /\ Len(connects) \in Nat /\ Len(disconnects) \in Nat
      /\ Healthy \in Nat /\ SizeMax \in Nat /\ SessionCapacity \in Nat
      /\ Healthy < SizeMax /\ Healthy <= SessionCapacity /\ connected < Healthy
  BY LimitAssumption, CountAssumption DEF TypeOK, HasMetQuota
<1>3. Len(connects) <= connected
  BY <1>1, <1>2 DEF ConnectedCoversSessions
<1>4. connected # SizeMax
  BY <1>2
<1> QED BY <1>2, <1>3, <1>4 DEF Increment

\* A dispatch hands the peer and its timer's turn to the transfer manager.
LEMMA DispatchSteps ==
  ASSUME PoolInv, ConnectedCoversSessions, IsFiniteSet(sessions), ~HasMetQuota,
         NEW s \in Slots, SlotSound(s), peer[s].io # "off",
         NEW p \in PeerConnection, p.key = peer[s].key, p.source # "null", Dispatch(s, p),
         UNCHANGED <<retry_queue, sessions, disconnects>>
  PROVE  /\ StepsSoundly
         /\ connected' = connected + 1 /\ connected' <= Healthy
         /\ Len(connects') = Len(connects) + 1
<1> DEFINE q == [Stopped(p) EXCEPT !.state = "CONNECTED", !.sock = "handed"]
<1>1. TypeOK /\ peer \in [Slots -> PeerConnection] /\ connects \in Seq(Update)
      /\ generation \in [Slots -> Nat]
  BY DEF PoolInv, TypeOK
<1>2. /\ Len(connects) < SessionCapacity /\ Increment(connected) = connected + 1
      /\ connected + 1 <= Healthy
  BY <1>1, RoomBelowQuota
<1>3. /\ peer' = [peer EXCEPT ![s] = q] /\ generation' = generation
      /\ connects' = Append(connects, UpdateOf(s)) /\ connected' = connected + 1
  BY <1>2 DEF Dispatch, SetPeer
<1>4. UpdateOf(s) \in Update
  BY <1>1, CountsTyped
<1>5. Len(connects') = Len(connects) + 1
  BY <1>1, <1>3, <1>4, AppendProperties
<1>6. /\ q.key = peer[s].key /\ q.state = "CONNECTED" /\ q.sock = "handed"
      /\ q.io = "off" /\ q.timer = FALSE /\ q.source # "null"
  BY DEF Stopped, PeerConnection
<1>7. Occupied(s) /\ peer[s].timer
  BY WatchedTimed
<1>8. Retries(s) = 0 /\ Handed(s) = 0
  BY <1>7, NamedDrives
<1>9. ASSUME NEW t \in Slots
      PROVE  /\ UpdateOf(t)' = UpdateOf(t) /\ Retries(t)' = Retries(t)
             /\ Handed(t)' = Handed(t) + (IF t = s THEN 1 ELSE 0)
  <2>1. UpdateOf(t)' = UpdateOf(t) /\ (UpdateOf(s) = UpdateOf(t) <=> t = s)
    BY <1>3 DEF UpdateOf
  <2>2. Retries(t)' = Retries(t)
    BY <2>1 DEF Retries, Entries
  <2>3. Count(connects', UpdateOf(t))
          = Count(connects, UpdateOf(t)) + (IF t = s THEN 1 ELSE 0)
    BY <1>1, <1>3, <1>4, <2>1, CountAppend
  <2>4. /\ Handed(t) = Count(connects, UpdateOf(t)) + Count(disconnects, UpdateOf(t))
                        + (IF UpdateOf(t) \in sessions THEN 1 ELSE 0)
        /\ Count(connects, UpdateOf(t)) \in Nat /\ Count(disconnects, UpdateOf(t)) \in Nat
    BY <1>1, CountsTyped
  <2>5. Handed(t)' = Count(connects', UpdateOf(t)) + Count(disconnects, UpdateOf(t))
                        + (IF UpdateOf(t) \in sessions THEN 1 ELSE 0)
    BY <2>1 DEF Handed, Entries, Count
  <2> QED BY <2>1, <2>2, <2>3, <2>4, <2>5
<1> HIDE DEF q
<1>10. peer'[s] = q
  BY <1>1, <1>3
<1>11. Retries(s)' = 0 /\ Handed(s)' = 1
  BY <1>8, <1>9
<1>12. Occupied(s)' /\ Driven(s)'
  BY <1>6, <1>7, <1>10, <1>11 DEF Occupied, Driven, Timers
<1>13. Sound(q)
  BY <1>6 DEF Sound
<1>14. Moves(s)
  BY <1>10, <1>12, <1>13 DEF Moves
<1>15. ASSUME NEW t \in Slots, t # s
       PROVE  /\ generation'[t] = generation[t] /\ peer'[t] = peer[t]
              /\ Retries(t)' = Retries(t) /\ Handed(t)' = Handed(t)
  <2>1. Handed(t) \in Nat
    BY <1>1, CountsTyped
  <2> QED BY <1>1, <1>3, <1>9, <1>15, <2>1
<1>16. Others(s)
  BY <1>15 DEF Others
<1>17. StepsSoundly
  BY <1>14, <1>16, OneSlotSteps
<1> QED BY <1>2, <1>3, <1>5, <1>17

----------------------------------------------------------------------------
(* The actions.                                                            *)

Covered == ConnectedCoversSessions /\ IsFiniteSet(sessions)

LEMMA DriverParts ==
  ASSUME DriverInv
  PROVE  /\ PoolInv /\ TypeOK /\ Covered /\ ConnectedCoversSessions /\ IsFiniteSet(sessions)
         /\ \A s \in Slots : SlotSound(s)
BY DEF DriverInv, PoolInv, Covered

LEMMA CoveredStays ==
  ASSUME Covered, UNCHANGED <<connected, connects, sessions, disconnects>>
  PROVE  Covered'
BY DEF Covered, ConnectedCoversSessions

LEMMA CoveredByDispatch ==
  ASSUME Covered, TypeOK, UNCHANGED <<sessions, disconnects>>,
         connected' = connected + 1, connected' <= Healthy,
         Len(connects') = Len(connects) + 1
  PROVE  Covered'
<1>1. Cardinality(sessions) \in Nat
  BY FS_CardinalityType DEF Covered
<1>2. Len(connects) \in Nat /\ Len(disconnects) \in Nat /\ connected \in Nat
  BY DEF TypeOK
<1>3. Len(connects) + Cardinality(sessions) + Len(disconnects) <= connected
  BY DEF Covered, ConnectedCoversSessions
<1>4. Len(connects') + Cardinality(sessions') + Len(disconnects') <= connected'
  BY <1>1, <1>2, <1>3
<1> QED BY <1>4 DEF Covered, ConnectedCoversSessions

LEMMA SocketSteps ==
  ASSUME DriverInv, NEW s \in Slots, SocketCallback(s)
  PROVE  StepsSoundly /\ Covered'
<1> USE DriverParts
<1>1. /\ peer[s].io # "off" /\ UNCHANGED <<retry_queue, sessions, disconnects>>
      /\ SlotSound(s) /\ peer[s] \in PeerConnection
  BY DEF SocketCallback, QuotaDeletes, SocketError, TransportInitiation,
         HandshakeSent, HandshakeReceived, SocketReady, CallbackFrame, transfer, TypeOK
<1>2. /\ Occupied(s) /\ peer[s].timer /\ Sound(peer[s]) /\ Driven(s)
      /\ peer[s].state # "CONNECTED" /\ peer[s].sock # "handed"
  BY <1>1, WatchedTimed
<1>3. ASSUME HandlePeerFailure(s)
      PROVE  StepsSoundly /\ Covered'
  <2>1. StepsSoundly /\ UNCHANGED <<connected, connects>>
    BY <1>1, <1>3, FailureSteps
  <2> QED BY <1>1, <2>1, CoveredStays
<1>4. ASSUME NEW p, DeletePeer(s, p), Quietly
      PROVE  StepsSoundly /\ Covered'
  <2>1. UNCHANGED <<connected, connects>>
    BY <1>4 DEF Quietly, counters
  <2>2. StepsSoundly
    BY <1>1, <1>4, <2>1, DeletionSteps DEF Drops
  <2> QED BY <1>1, <2>1, <2>2, CoveredStays
<1>5. ASSUME NEW p \in PeerConnection, SetPeer(s, p), Quietly, p.key = peer[s].key, p.timer,
             p.state # "CONNECTED", Sound(p)
      PROVE  StepsSoundly /\ Covered'
  <2>1. UNCHANGED <<connected, connects>>
    BY <1>5 DEF Quietly, counters
  <2>2. StepsSoundly
    BY <1>1, <1>2, <1>5, <2>1, TimedSteps
  <2> QED BY <1>1, <2>1, <2>2, CoveredStays
<1>6. ASSUME NEW p \in PeerConnection, p.key = peer[s].key, p.source # "null",
             ~HasMetQuota, Dispatch(s, p)
      PROVE  StepsSoundly /\ Covered'
  <2>1. /\ StepsSoundly
        /\ connected' = connected + 1 /\ connected' <= Healthy
        /\ Len(connects') = Len(connects) + 1
    BY <1>1, <1>6, DispatchSteps
  <2> QED BY <1>1, <2>1, CoveredByDispatch
<1>7. CASE QuotaDeletes(s)
  BY <1>4, <1>7 DEF QuotaDeletes
<1>8. CASE SocketError(s)
  BY <1>3, <1>8 DEF SocketError
<1>9. CASE TransportInitiation(s)
  <2>1. peer[s].source = "tracker"
    BY <1>2, <1>9 DEF TransportInitiation, Sound
  <2> DEFINE sent == [peer[s] EXCEPT !.state = "HANDSHAKE", !.send = "sent", !.io = "READ"]
             queued == [peer[s] EXCEPT !.state = "HANDSHAKE", !.send = "queued", !.io = "WRITE"]
  <2>2. \/ HandlePeerFailure(s)
        \/ SetPeer(s, sent) /\ Quietly
        \/ SetPeer(s, queued) /\ Quietly
    BY <1>9 DEF TransportInitiation
  <2>3. /\ sent \in PeerConnection /\ sent.key = peer[s].key /\ sent.timer
        /\ sent.state = "HANDSHAKE" /\ sent.source = "tracker" /\ sent.sock # "handed"
        /\ sent.io = "READ"
    BY <1>1, <1>2, <2>1 DEF PeerConnection
  <2>4. /\ queued \in PeerConnection /\ queued.key = peer[s].key /\ queued.timer
        /\ queued.state = "HANDSHAKE" /\ queued.source = "tracker" /\ queued.sock # "handed"
        /\ queued.io = "WRITE"
    BY <1>1, <1>2, <2>1 DEF PeerConnection
  <2> HIDE DEF sent, queued
  <2>5. Sound(sent) /\ Sound(queued)
    BY <2>3, <2>4 DEF Sound
  <2>6. sent.state # "CONNECTED" /\ queued.state # "CONNECTED"
    BY <2>3, <2>4
  <2> QED BY <1>3, <1>5, <2>2, <2>3, <2>4, <2>5, <2>6
<1>10. CASE HandshakeSent(s)
  <2> DEFINE p == [peer[s] EXCEPT !.send = IF @ = "queued" THEN "sent" ELSE @]
             q == [p EXCEPT !.io = "READ"]
  <2>1. /\ ~HasMetQuota /\ peer[s].state = "HANDSHAKE"
        /\ \/ HandlePeerFailure(s)
           \/ p.source = "tracker" /\ SetPeer(s, q) /\ Quietly
           \/ p.source = "tcp_server" /\ Dispatch(s, p)
    BY <1>10 DEF HandshakeSent
  <2>2. /\ p \in PeerConnection /\ p.key = peer[s].key /\ p.source = peer[s].source
        /\ p.timer /\ p.state = "HANDSHAKE" /\ p.sock # "handed"
    BY <1>1, <1>2, <2>1 DEF PeerConnection
  <2> HIDE DEF p
  <2>3. /\ q \in PeerConnection /\ q.key = peer[s].key /\ q.timer /\ q.source = p.source
        /\ q.state = "HANDSHAKE" /\ q.sock # "handed" /\ q.io = "READ"
    BY <2>2 DEF PeerConnection
  <2> HIDE DEF q
  <2>4. q.source = "tracker" => Sound(q)
    BY <2>3 DEF Sound
  <2>5. p.source # "null" /\ q.state # "CONNECTED"
    BY <1>2, <2>2, <2>3 DEF Sound
  <2> QED BY <1>3, <1>5, <1>6, <2>1, <2>2, <2>3, <2>4, <2>5
<1>11. CASE HandshakeReceived(s)
  <2> DEFINE p == [peer[s] EXCEPT !.send = "sent"]
             q == [peer[s] EXCEPT !.send = "queued", !.io = "WRITE"]
  <2>1. /\ ~HasMetQuota /\ peer[s].state = "HANDSHAKE"
        /\ \/ HandlePeerFailure(s)
           \/ DeletePeer(s, Closed(peer[s])) /\ Quietly
           \/ Dispatch(s, peer[s])
           \/ Dispatch(s, p)
           \/ SetPeer(s, q) /\ Quietly
    BY <1>11 DEF HandshakeReceived
  <2>2. /\ p \in PeerConnection /\ p.key = peer[s].key /\ p.source = peer[s].source
    BY <1>1 DEF PeerConnection
  <2> HIDE DEF p
  <2>3. /\ q \in PeerConnection /\ q.key = peer[s].key /\ q.timer
        /\ q.source = peer[s].source /\ q.io = "WRITE"
        /\ q.state = "HANDSHAKE" /\ q.sock # "handed"
    BY <1>1, <1>2, <2>1 DEF PeerConnection
  <2> HIDE DEF q
  <2>4. peer[s].source # "null" /\ q.state # "CONNECTED"
    BY <1>2, <2>3 DEF Sound
  <2>5. Sound(q)
    BY <2>3, <2>4 DEF Sound
  <2> QED BY <1>1, <1>3, <1>4, <1>5, <1>6, <2>1, <2>2, <2>3, <2>4, <2>5
<1> QED BY <1>7, <1>8, <1>9, <1>10, <1>11 DEF SocketCallback

\* The retry timer hands the peer to its queue.
LEMMA RetryTimerSteps ==
  ASSUME DriverInv, NEW s \in Slots, RetryTimer(s)
  PROVE  StepsSoundly /\ Covered'
<1> USE DriverParts
<1> DEFINE q == Stopped(peer[s])
<1>1. /\ peer \in [Slots -> PeerConnection] /\ retry_queue \in Seq(Update)
      /\ UpdateOf(s) \in Update /\ SlotSound(s)
  BY CountsTyped DEF TypeOK
<1>2. /\ peer[s].timer /\ peer[s].state = "FAILED"
      /\ peer' = [peer EXCEPT ![s] = q] /\ generation' = generation
      /\ retry_queue' = Append(retry_queue, UpdateOf(s))
      /\ UNCHANGED <<connected, connects, sessions, disconnects>>
  BY DEF RetryTimer, TimerReady, SetPeer, counters, transfer
<1>3. /\ Occupied(s) /\ Sound(peer[s]) /\ Driven(s) /\ peer[s].sock # "handed"
  BY <1>1, <1>2, WatchedTimed
<1>4. Retries(s) = 0 /\ Handed(s) = 0
  BY <1>1, <1>2, <1>3, NamedDrives
<1>5. ASSUME NEW t \in Slots
      PROVE  /\ Handed(t)' = Handed(t)
             /\ Retries(t)' = Retries(t) + (IF t = s THEN 1 ELSE 0)
  <2>1. UpdateOf(t)' = UpdateOf(t) /\ (UpdateOf(s) = UpdateOf(t) <=> t = s)
    BY <1>2 DEF UpdateOf
  <2>2. Handed(t)' = Handed(t)
    BY <1>2, <2>1 DEF Handed, Entries
  <2>3. Count(retry_queue', UpdateOf(t))
          = Count(retry_queue, UpdateOf(t)) + (IF t = s THEN 1 ELSE 0)
    BY <1>1, <1>2, <2>1, CountAppend
  <2> QED BY <2>1, <2>2, <2>3 DEF Retries, Entries, Count
<1>6. /\ q.key = peer[s].key /\ q.state = "FAILED" /\ q.sock # "handed"
      /\ q.io = "off" /\ q.timer = FALSE /\ q.source = "tracker" /\ q.send = "empty"
  BY <1>1, <1>2, <1>3 DEF Stopped, PeerConnection, Sound
<1> HIDE DEF q
<1>7. peer'[s] = q /\ Retries(s)' = 1 /\ Handed(s)' = 0
  BY <1>1, <1>2, <1>4, <1>5
<1>8. Occupied(s)' /\ Driven(s)'
  BY <1>3, <1>6, <1>7 DEF Occupied, Driven, Timers
<1>9. Sound(q)
  BY <1>6 DEF Sound
<1>10. Moves(s)
  BY <1>7, <1>8, <1>9 DEF Moves
<1>11. ASSUME NEW t \in Slots, t # s
       PROVE  /\ generation'[t] = generation[t] /\ peer'[t] = peer[t]
              /\ Retries(t)' = Retries(t) /\ Handed(t)' = Handed(t)
  <2>1. Retries(t) \in Nat
    BY CountsTyped
  <2> QED BY <1>1, <1>2, <1>5, <1>11, <2>1
<1>12. Others(s)
  BY <1>11 DEF Others
<1>13. StepsSoundly
  BY <1>10, <1>12, OneSlotSteps
<1> QED BY <1>2, <1>13, CoveredStays

LEMMA ConnectTimerSteps ==
  ASSUME DriverInv, NEW s \in Slots, ConnectTimer(s)
  PROVE  StepsSoundly /\ Covered'
<1> USE DriverParts
<1>1. /\ peer[s].timer /\ SlotSound(s) /\ HandlePeerFailure(s)
      /\ UNCHANGED <<retry_queue, sessions, disconnects>>
  BY DEF ConnectTimer, TimerReady, CallbackFrame, transfer
<1>2. StepsSoundly /\ UNCHANGED <<connected, connects>>
  BY <1>1, FailureSteps
<1> QED BY <1>1, <1>2, CoveredStays

\* A free slot is handed out, or only aged.
LEMMA FreeSlotSteps ==
  ASSUME PoolInv, NEW s \in Slots, ~Occupied(s),
         \A t \in Slots : t # s => generation'[t] = generation[t] /\ peer'[t] = peer[t],
         UNCHANGED <<retry_queue, connects, sessions, disconnects>>,
         \/ peer'[s].key = NoKey /\ Blank(peer'[s])
         \/ /\ generation'[s] = generation[s] /\ peer'[s].key # NoKey
            /\ peer'[s].timer /\ peer'[s].state # "CONNECTED" /\ Sound(peer'[s])
  PROVE  StepsSoundly
<1>1. Others(s)
  BY QueuesStay DEF Others
<1>2. CASE peer'[s].key = NoKey /\ Blank(peer'[s])
  BY <1>1, <1>2, OneSlotSteps DEF Frees, Occupied
<1>3. CASE /\ generation'[s] = generation[s] /\ peer'[s].key # NoKey
           /\ peer'[s].timer /\ peer'[s].state # "CONNECTED" /\ Sound(peer'[s])
  <2>1. Retries(s)' = 0 /\ Handed(s)' = 0
    BY <1>3, FreeUnnamed, QueuesStay
  <2>2. Occupied(s)' /\ Driven(s)'
    BY <1>3, <2>1 DEF Occupied, Driven, Timers
  <2> QED BY <1>1, <1>3, <2>2, OneSlotSteps DEF Moves
<1> QED BY <1>2, <1>3

\* What a connect leaves of a dialled peer whose send buffer is empty.
LEMMA DialledSound ==
  ASSUME NEW p \in PeerConnection, NEW outcome \in ConnectOutcomes(p), outcome.ok,
         p.source = "tracker", p.state # "CONNECTED", p.send = "empty"
  PROVE  /\ Sound(outcome.peer) /\ outcome.peer.timer
         /\ outcome.peer.state # "CONNECTED" /\ outcome.peer.key = p.key
         /\ p.sock = "none"
<1> DEFINE dialing == Armed([p EXCEPT !.sock = "own"], "WRITE")
           shaking == [dialing EXCEPT !.state = "HANDSHAKE", !.failures = 0]
<1>1. p.sock = "none" /\ (outcome.peer = dialing \/ outcome.peer = shaking)
  BY DEF ConnectOutcomes
<1>2. /\ dialing.source = "tracker" /\ dialing.timer /\ dialing.state = p.state
      /\ dialing.sock = "own" /\ dialing.send = "empty" /\ dialing.io = "WRITE"
      /\ dialing.key = p.key
  BY DEF Armed, PeerConnection
<1>3. /\ shaking.source = "tracker" /\ shaking.timer /\ shaking.state = "HANDSHAKE"
      /\ shaking.sock = "own" /\ shaking.send = "empty" /\ shaking.io = "WRITE"
      /\ shaking.key = p.key
  BY DEF Armed, PeerConnection
<1> HIDE DEF dialing, shaking
<1>4. Sound(dialing) /\ Sound(shaking)
  BY <1>2, <1>3 DEF Sound
<1>5. CASE outcome.peer = dialing
  BY <1>1, <1>2, <1>4, <1>5
<1>6. CASE outcome.peer = shaking
  BY <1>1, <1>3, <1>4, <1>6
<1> QED BY <1>1, <1>5, <1>6

LEMMA DiscoveredSteps ==
  ASSUME DriverInv, DiscoveredPeer
  PROVE  StepsSoundly /\ Covered'
<1> USE DriverParts
<1>1. /\ peer \in [Slots -> PeerConnection] /\ generation \in [Slots -> Nat]
      /\ available \in [Slots -> Nat] /\ cache \in Seq(Discoverable)
  BY DEF TypeOK
<1>2. UNCHANGED <<connected, retry_queue, connects, sessions, disconnects>>
  BY DEF DiscoveredPeer, transfer
<1>3. cache[Len(cache)] \in Endpoints
  <2>1. cache # <<>>
    BY DEF DiscoveredPeer
  <2>2. Len(cache) \in DOMAIN cache
    BY <1>1, <2>1, EmptySeq
  <2> QED BY <1>1, <2>2 DEF Endpoints
<1> DEFINE a == cache[Len(cache)]
<1>4. PICK s \in {t \in Slots : available[t] > 0} :
        LET p == Initialized(peer[s], a, "tracker", "DISCOVERED")
        IN  \/ generation' = Aged(s) /\ UNCHANGED peer
            \/ \E outcome \in ConnectOutcomes(p) :
                 \/ outcome.ok /\ peer' = [peer EXCEPT ![s] = outcome.peer]
                      /\ UNCHANGED generation
                 \/ generation' = Aged(s) /\ peer' = [peer EXCEPT ![s] = Torn(outcome.peer)]
  BY Zenon DEF DiscoveredPeer
<1> DEFINE p == Initialized(peer[s], a, "tracker", "DISCOVERED")
<1>5. s \in Slots /\ ~Occupied(s) /\ SlotSound(s)
  BY <1>1 DEF PoolInv, RegistryMatchesPool
<1>6. Blank(peer[s]) /\ peer[s].key = NoKey
  BY <1>5 DEF SlotSound, Occupied
<1>7. /\ p \in PeerConnection /\ p.source = "tracker" /\ p.state = "DISCOVERED"
      /\ p.send = "empty" /\ p.key = a
  BY <1>1, <1>3, <1>5, <1>6 DEF Initialized, PeerConnection, Blank
<1>8. a # NoKey
  BY <1>3, NullAssumption
<1> HIDE DEF p, a
<1>9. CASE generation' = Aged(s) /\ UNCHANGED peer
  <2>1. \A t \in Slots : t # s => generation'[t] = generation[t] /\ peer'[t] = peer[t]
    BY <1>1, <1>9 DEF Aged
  <2> QED BY <1>2, <1>5, <1>6, <1>9, <2>1, FreeSlotSteps, CoveredStays
<1>10. ASSUME NEW outcome \in ConnectOutcomes(p), outcome.ok,
              peer' = [peer EXCEPT ![s] = outcome.peer], UNCHANGED generation
       PROVE  StepsSoundly /\ Covered'
  <2>1. \A t \in Slots : t # s => generation'[t] = generation[t] /\ peer'[t] = peer[t]
    BY <1>1, <1>10
  <2>2. peer'[s] = outcome.peer /\ generation'[s] = generation[s]
    BY <1>1, <1>5, <1>10
  <2>3. p.state # "CONNECTED"
    BY <1>7
  <2>4. /\ Sound(peer'[s]) /\ peer'[s].timer
        /\ peer'[s].state # "CONNECTED" /\ peer'[s].key # NoKey
    BY <1>7, <1>8, <1>10, <2>2, <2>3, DialledSound
  <2> QED BY <1>2, <1>5, <2>1, <2>2, <2>4, FreeSlotSteps, CoveredStays
<1>11. ASSUME NEW outcome, generation' = Aged(s),
              peer' = [peer EXCEPT ![s] = Torn(outcome.peer)]
       PROVE  StepsSoundly /\ Covered'
  <2>1. \A t \in Slots : t # s => generation'[t] = generation[t] /\ peer'[t] = peer[t]
    BY <1>1, <1>11 DEF Aged
  <2>2. peer'[s].key = NoKey /\ Blank(peer'[s])
    BY <1>1, <1>5, <1>11 DEF Torn, Blank
  <2> QED BY <1>2, <1>5, <2>1, <2>2, FreeSlotSteps, CoveredStays
<1>12. \/ generation' = Aged(s) /\ UNCHANGED peer
       \/ \E outcome \in ConnectOutcomes(p) :
            \/ outcome.ok /\ peer' = [peer EXCEPT ![s] = outcome.peer]
                 /\ UNCHANGED generation
            \/ generation' = Aged(s) /\ peer' = [peer EXCEPT ![s] = Torn(outcome.peer)]
  BY <1>4 DEF p
<1> QED BY <1>9, <1>10, <1>11, <1>12

\* A current update at the head of a queue is that of its slot's peer.
LEMMA CurrentHead ==
  ASSUME TypeOK, NEW q \in Seq(Update), q # <<>>
  PROVE  /\ Head(q).slot \in Slots /\ Head(q) \in Elements(q)
         /\ IsCurrent(Head(q)) => Head(q) = UpdateOf(Head(q).slot)
         /\ ~IsCurrent(Head(q)) => \A t \in Slots : Head(q) # UpdateOf(t)
<1>1. Head(q) \in Update
  BY UpdateQueue
<1>2. Head(q) \in Elements(q)
  BY ElementsTail
<1> QED BY <1>1, <1>2 DEF Update, UpdateOf, IsCurrent

\* The scheduler drops a stale update.
LEMMA StaleSteps ==
  ASSUME DriverInv, NEW u, \A t \in Slots : u # UpdateOf(t),
         UNCHANGED <<peer, generation, connects, sessions>>,
         Drops(retry_queue, retry_queue', u), Drops(disconnects, disconnects', u)
  PROVE  StepsSoundly
<1>1. \A t \in Slots : Retries(t)' = Retries(t) /\ Handed(t)' = Handed(t)
  BY DriverParts, QueuesShorten
<1> QED BY <1>1 DEF StepsSoundly, Stays

LEMMA DisconnectedSteps ==
  ASSUME DriverInv, DisconnectedPeer
  PROVE  StepsSoundly /\ Covered'
<1> USE DriverParts
<1> DEFINE u == Head(disconnects)
           s == u.slot
           p == [peer[s] EXCEPT !.state = "DISCONNECTED", !.failures = @ + 1]
<1>1. /\ peer \in [Slots -> PeerConnection] /\ disconnects \in Seq(Update)
      /\ connected \in Nat /\ Healthy \in Nat /\ Len(connects) \in Nat
      /\ Cardinality(sessions) \in Nat
  BY FS_CardinalityType, LimitAssumption DEF TypeOK
<1>2. /\ disconnects # <<>> /\ disconnects' = Tail(disconnects)
      /\ UNCHANGED <<retry_queue, connects, sessions>>
      /\ connected' \in {connected, DecrementConnected(connected)}
  BY DEF DisconnectedPeer
<1>3. /\ s \in Slots /\ u \in Elements(disconnects)
      /\ IsCurrent(u) => u = UpdateOf(s)
      /\ ~IsCurrent(u) => \A t \in Slots : u # UpdateOf(t)
  BY <1>1, <1>2, CurrentHead
<1>4. Drops(disconnects, disconnects', u) /\ Drops(retry_queue, retry_queue', u)
  BY <1>2 DEF Drops
<1>5. Covered'
  <2>1. Len(disconnects) \in Nat \ {0} /\ Len(disconnects') = Len(disconnects) - 1
    BY <1>1, <1>2, UpdateQueue, EmptySeq
  <2>2. /\ Len(connects) + Cardinality(sessions) + Len(disconnects) <= connected
        /\ connected <= Healthy
    BY DEF ConnectedCoversSessions
  <2>3. connected' \in {connected, connected - 1}
    BY <1>1, <1>2, <2>1, <2>2 DEF DecrementConnected
  <2>4. /\ Len(connects') + Cardinality(sessions') + Len(disconnects') <= connected'
        /\ connected' <= Healthy
    BY <1>1, <1>2, <2>1, <2>2, <2>3
  <2> QED BY <1>2, <2>4 DEF Covered, ConnectedCoversSessions
<1>6. CASE ~IsCurrent(u)
  <2>1. UNCHANGED <<peer, generation>>
    BY <1>6 DEF DisconnectedPeer, pool
  <2> HIDE DEF u
  <2> QED BY <1>2, <1>3, <1>4, <1>5, <1>6, <2>1, StaleSteps
<1>7. CASE IsCurrent(u)
  <2>1. \/ DeletePeer(s, p)
        \/ \E outcome \in ConnectOutcomes(p) :
             outcome.ok \/ DeletePeer(s, outcome.peer)
    BY <1>7 DEF DisconnectedPeer, InitiateConnect
  <2>2. Occupied(s) /\ Handed(s) = 1 /\ SlotSound(s)
    BY <1>3, <1>7, NamedDrives
  <2>3. peer[s].sock = "handed"
    BY <2>2 DEF SlotSound, Driven, Sound
  <2>4. p.sock = "handed"
    BY <1>1, <1>3, <2>3 DEF PeerConnection
  <2> HIDE DEF p
  <2>5. \A outcome \in ConnectOutcomes(p) : ~outcome.ok
    BY <2>4 DEF ConnectOutcomes
  <2>6. PICK q : DeletePeer(s, q)
    BY <2>1, <2>5
  <2>7. u = UpdateOf(s)
    BY <1>3, <1>7
  <2> HIDE DEF u, s
  <2>8. StepsSoundly
    BY <1>2, <1>3, <1>4, <2>6, <2>7, DeletionSteps
  <2> QED BY <1>5, <2>8
<1> QED BY <1>6, <1>7

\* A failed peer's entry leaves the queue and the peer is dialled again.
LEMMA RedialSteps ==
  ASSUME DriverInv, NEW s \in Slots, retry_queue # <<>>, Head(retry_queue) = UpdateOf(s),
         retry_queue' = Tail(retry_queue), UNCHANGED <<connects, sessions, disconnects>>,
         NEW outcome \in ConnectOutcomes(peer[s]), outcome.ok, SetPeer(s, outcome.peer)
  PROVE  StepsSoundly
<1> USE DriverParts
<1>1. /\ peer \in [Slots -> PeerConnection] /\ retry_queue \in Seq(Update)
      /\ generation \in [Slots -> Nat] /\ SlotSound(s)
  BY DEF TypeOK
<1>2. UpdateOf(s) \in Elements(retry_queue)
  BY <1>1, ElementsTail
<1>3. Occupied(s) /\ Retries(s) = 1 /\ Handed(s) = 0
  BY <1>1, <1>2, NamedDrives
<1>4. Driven(s) /\ Sound(peer[s]) /\ peer[s] \in PeerConnection
  BY <1>1, <1>3 DEF SlotSound
<1>5. peer[s].state = "FAILED" /\ peer[s].source = "tracker" /\ peer[s].send = "empty"
  BY <1>3, <1>4 DEF Driven, Sound
<1>6. peer[s].state # "CONNECTED"
  BY <1>5
<1>7. /\ Sound(outcome.peer) /\ outcome.peer.timer
      /\ outcome.peer.state # "CONNECTED" /\ outcome.peer.key = peer[s].key
  BY <1>4, <1>5, <1>6, DialledSound
<1>8. /\ peer' = [peer EXCEPT ![s] = outcome.peer] /\ generation' = generation
      /\ peer'[s] = outcome.peer
  BY <1>1 DEF SetPeer
<1>9. Retries(s)' = 0 /\ Handed(s)' = 0
  <2>1. UpdateOf(s)' = UpdateOf(s)
    BY <1>8 DEF UpdateOf
  <2>2. Retries(s)' = Count(retry_queue', UpdateOf(s))
    BY <2>1 DEF Retries, Entries, Count
  <2>3. Handed(s)' = Handed(s)
    BY <2>1 DEF Handed, Entries
  <2>4. Retries(s) = Count(retry_queue, UpdateOf(s))
    BY DEF Retries, Entries, Count
  <2>5. Count(retry_queue, UpdateOf(s)) = Count(retry_queue', UpdateOf(s)) + 1
    BY <1>1, CountTail
  <2>6. retry_queue' \in Seq(Update)
    BY <1>1, HeadTailProperties
  <2>7. Count(retry_queue', UpdateOf(s)) \in Nat
    BY <2>6, CountIs
  <2> QED BY <1>3, <2>2, <2>3, <2>4, <2>5, <2>7
<1>10. Occupied(s)' /\ Driven(s)'
  BY <1>3, <1>7, <1>8, <1>9 DEF Occupied, Driven, Timers
<1>11. Moves(s)
  BY <1>7, <1>8, <1>10 DEF Moves
<1>12. ASSUME NEW t \in Slots, t # s
       PROVE  /\ generation'[t] = generation[t] /\ peer'[t] = peer[t]
              /\ Retries(t)' = Retries(t) /\ Handed(t)' = Handed(t)
  <2>1. generation'[t] = generation[t] /\ peer'[t] = peer[t] /\ UpdateOf(s) # UpdateOf(t)
    BY <1>1, <1>8, <1>12 DEF UpdateOf
  <2> QED BY <2>1, QueuesShorten DEF Drops
<1>13. Others(s)
  BY <1>12 DEF Others
<1> QED BY <1>11, <1>13, OneSlotSteps

LEMMA FailedSteps ==
  ASSUME DriverInv, FailedPeer
  PROVE  StepsSoundly /\ Covered'
<1> USE DriverParts
<1> DEFINE u == Head(retry_queue)
           s == u.slot
<1>1. /\ peer \in [Slots -> PeerConnection] /\ retry_queue \in Seq(Update)
      /\ generation \in [Slots -> Nat]
  BY DEF TypeOK
<1>2. /\ retry_queue # <<>> /\ retry_queue' = Tail(retry_queue)
      /\ UNCHANGED <<connected, connects, sessions, disconnects>>
  BY DEF FailedPeer, transfer
<1>3. /\ s \in Slots /\ u \in Elements(retry_queue)
      /\ IsCurrent(u) => u = UpdateOf(s)
      /\ ~IsCurrent(u) => \A t \in Slots : u # UpdateOf(t)
  BY <1>1, <1>2, CurrentHead
<1>4. Drops(disconnects, disconnects', u) /\ Drops(retry_queue, retry_queue', u)
  BY <1>2 DEF Drops
<1>5. Covered'
  BY <1>2, CoveredStays
<1>6. CASE ~IsCurrent(u)
  <2>1. UNCHANGED <<peer, generation>>
    BY <1>6 DEF FailedPeer, pool
  <2> HIDE DEF u
  <2> QED BY <1>2, <1>3, <1>4, <1>5, <1>6, <2>1, StaleSteps
<1>7. CASE IsCurrent(u)
  <2>1. \E outcome \in ConnectOutcomes(peer[s]) :
          \/ outcome.ok /\ SetPeer(s, outcome.peer)
          \/ DeletePeer(s, outcome.peer)
    BY <1>7 DEF FailedPeer, InitiateConnect
  <2>2. u = UpdateOf(s)
    BY <1>3, <1>7
  <2> HIDE DEF u, s
  <2>3. CASE \E outcome \in ConnectOutcomes(peer[s]) : DeletePeer(s, outcome.peer)
    <3>1. PICK q : DeletePeer(s, q)
      BY <2>3
    <3>2. StepsSoundly
      BY <1>2, <1>3, <1>4, <2>2, <3>1, DeletionSteps
    <3> QED BY <1>5, <3>2
  <2>4. ASSUME NEW outcome \in ConnectOutcomes(peer[s]), outcome.ok, SetPeer(s, outcome.peer)
        PROVE  StepsSoundly
    <3>1. Head(retry_queue) = UpdateOf(s)
      BY <2>2 DEF u
    <3> QED BY <1>2, <1>3, <2>4, <3>1, RedialSteps
  <2> QED BY <1>5, <2>1, <2>3, <2>4
<1> QED BY <1>6, <1>7

\* An accepted connection takes a free slot.
LEMMA AcceptedSound ==
  ASSUME NEW p \in PeerConnection, Blank(p), NEW a \in Endpoints
  PROVE  /\ Accepted(p, a).key = a /\ Accepted(p, a).key # NoKey /\ Accepted(p, a).timer
         /\ Accepted(p, a).state = "HANDSHAKE" /\ Sound(Accepted(p, a))
<1>1. /\ Accepted(p, a).key = a /\ Accepted(p, a).timer
      /\ Accepted(p, a).state = "HANDSHAKE" /\ Accepted(p, a).source = "tcp_server"
      /\ Accepted(p, a).sock = "own" /\ Accepted(p, a).send = "empty"
      /\ Accepted(p, a).io = "READ"
  BY DEF Accepted, Initialized, Armed, PeerConnection, Blank
<1>2. Accepted(p, a).key # NoKey
  BY <1>1, NullAssumption
<1>3. Sound(Accepted(p, a))
  BY <1>1 DEF Sound
<1> QED BY <1>1, <1>2, <1>3

\* What the accept loop finds: s is free, and a's old peer, if any, is another.
LEMMA AcceptSlots ==
  ASSUME NativeV6 = {}, PoolInv, NEW s \in Slots, NEW a \in Dialing,
         AcceptUnique(s, a) \/ AcceptEvicting(s, a)
  PROVE  /\ a \in Endpoints /\ ~Occupied(s)
         /\ registry[a] # NoSlot =>
              registry[a] \in Slots \ {s} /\ peer[registry[a]].key = a
<1>1. a \in Endpoints
  BY DEF Endpoints
<1>2. available[s] > 0 /\ available[s] \in Nat
  BY DEF PoolInv, TypeOK, AcceptUnique, AcceptEvicting
<1>3. ~Occupied(s)
  BY <1>2 DEF PoolInv, RegistryMatchesPool
<1>4. registry[a] # NoSlot => registry[a] \in Slots /\ peer[registry[a]].key = a
  BY <1>1 DEF PoolInv, RegistryMatchesPool, TypeOK
<1>5. a # NoKey
  BY <1>1, NullAssumption
<1> QED BY <1>1, <1>3, <1>4, <1>5 DEF Occupied

LEMMA AcceptSteps ==
  ASSUME NativeV6 = {}, DriverInv, NEW s \in Slots, NEW a \in Dialing,
         AcceptUnique(s, a) \/ AcceptEvicting(s, a)
  PROVE  StepsSoundly /\ Covered'
<1> USE DriverParts
<1>1. /\ peer \in [Slots -> PeerConnection] /\ generation \in [Slots -> Nat]
      /\ peer[s] \in PeerConnection
  BY DEF TypeOK
<1>2. /\ a \in Endpoints /\ ~Occupied(s)
      /\ registry[a] # NoSlot => registry[a] \in Slots \ {s}
  BY AcceptSlots
<1>3. Blank(peer[s])
  BY <1>2 DEF SlotSound
<1>4. UNCHANGED <<connected, retry_queue, connects, sessions, disconnects>>
  BY DEF AcceptUnique, AcceptEvicting, transfer
<1>5. Covered'
  BY <1>4, CoveredStays
<1> DEFINE q == Accepted(peer[s], a)
<1>6. q.key # NoKey /\ q.timer /\ q.state = "HANDSHAKE" /\ Sound(q)
  BY <1>1, <1>2, <1>3, AcceptedSound
<1>7. q.state # "CONNECTED"
  BY <1>6
<1>8. CASE AcceptUnique(s, a)
  <2>1. peer' = [peer EXCEPT ![s] = q] /\ generation' = generation
    BY <1>8 DEF AcceptUnique
  <2> HIDE DEF q
  <2>2. \A t \in Slots : t # s => generation'[t] = generation[t] /\ peer'[t] = peer[t]
    BY <1>1, <2>1
  <2>3. peer'[s] = q /\ generation'[s] = generation[s]
    BY <1>1, <2>1
  <2>4. StepsSoundly
    BY <1>2, <1>4, <1>6, <1>7, <2>2, <2>3, FreeSlotSteps
  <2> QED BY <1>5, <2>4
<1>9. CASE AcceptEvicting(s, a)
  <2>1. registry[a] # NoSlot
    BY <1>9 DEF AcceptEvicting
  <2>2. PICK old \in Slots : old = registry[a] /\ old # s
    BY <1>2, <2>1
  <2> DEFINE torn == Torn(Evicted(peer[old]))
  <2>3. /\ peer' = [[peer EXCEPT ![old] = torn] EXCEPT ![s] = Accepted(@, a)]
        /\ generation' = [generation EXCEPT ![old] = @ + 1]
    BY <1>9, <2>1, <2>2 DEF AcceptEvicting, Aged
  <2>4. torn.key = NoKey /\ torn.state = "null" /\ torn.send = "empty"
    BY DEF Torn
  <2> HIDE DEF torn
  <2>5. peer'[s] = q /\ peer'[old] = torn
    BY <1>1, <2>2, <2>3
  <2> HIDE DEF q
  <2>6. Frees(old)
    BY <2>4, <2>5 DEF Frees, Occupied, Blank
  <2>7. ASSUME NEW t \in Slots, t # old
        PROVE  /\ generation'[t] = generation[t]
               /\ Retries(t)' = Retries(t) /\ Handed(t)' = Handed(t)
               /\ t # s => peer'[t] = peer[t]
    <3>1. generation'[t] = generation[t]
      BY <1>1, <2>3, <2>7
    <3>2. t # s => peer'[t] = peer[t]
      BY <1>1, <2>3, <2>7
    <3> QED BY <1>4, <3>1, <3>2, QueuesStay
  <2>8. Retries(s)' = 0 /\ Handed(s)' = 0
    BY <1>2, <2>2, <2>7, FreeUnnamed
  <2>9. Occupied(s)' /\ Driven(s)'
    BY <1>6, <1>7, <2>5, <2>8 DEF Occupied, Driven, Timers
  <2>10. Moves(s)
    BY <1>6, <2>5, <2>9 DEF Moves
  <2>11. \A t \in Slots : Stays(t) \/ Frees(t) \/ Moves(t)
    BY <2>6, <2>7, <2>10 DEF Stays
  <2> QED BY <1>5, <2>11 DEF StepsSoundly
<1> QED BY <1>8, <1>9

\* The transfer manager adopts a connection: only the place of its update
\* changes.
LEMMA SessionBeginsSteps ==
  ASSUME DriverInv, SessionBegins
  PROVE  StepsSoundly /\ Covered'
<1> USE DriverParts
<1> DEFINE u == Head(connects)
<1>1. /\ connects \in Seq(Update) /\ Len(connects) \in Nat /\ connected \in Nat
      /\ Len(disconnects) \in Nat /\ Healthy \in Nat /\ Cardinality(sessions) \in Nat
  BY FS_CardinalityType, LimitAssumption DEF TypeOK
<1>2. /\ connects # <<>> /\ connects' = Tail(connects) /\ sessions' = sessions \cup {u}
      /\ UNCHANGED <<peer, generation, connected, retry_queue, disconnects>>
  BY DEF SessionBegins, pool, counters
<1>3. u \in Elements(connects)
  BY <1>1, <1>2, CurrentHead
<1>4. Covered'
  <2>1. Len(connects') = Len(connects) - 1
    BY <1>1, <1>2, UpdateQueue
  <2>2. IsFiniteSet(sessions') /\ Cardinality(sessions') \in Nat
    BY <1>2, FS_AddElement, FS_CardinalityType
  <2>3. Cardinality(sessions') \in {Cardinality(sessions), Cardinality(sessions) + 1}
    BY <1>2, FS_AddElement
  <2>4. /\ Len(connects) + Cardinality(sessions) + Len(disconnects) <= connected
        /\ connected <= Healthy
    BY DEF ConnectedCoversSessions
  <2>5. /\ Len(connects') + Cardinality(sessions') + Len(disconnects') <= connected'
        /\ connected' <= Healthy
    BY <1>1, <1>2, <2>1, <2>2, <2>3, <2>4
  <2> QED BY <2>2, <2>5 DEF Covered, ConnectedCoversSessions
<1> HIDE DEF u
<1>5. ASSUME NEW t \in Slots
      PROVE  Stays(t)
  <2>1. UpdateOf(t)' = UpdateOf(t) /\ Retries(t)' = Retries(t)
    BY <1>2 DEF UpdateOf, Retries, Entries
  <2> DEFINE c == Count(connects, UpdateOf(t))
             d == Count(disconnects, UpdateOf(t))
             c1 == Count(connects', UpdateOf(t))
  <2>2. c = c1 + (IF u = UpdateOf(t) THEN 1 ELSE 0)
    BY <1>1, <1>2, CountTail DEF u
  <2>3. connects' \in Seq(Update)
    BY <1>1, <1>2, HeadTailProperties
  <2>4. c1 \in Nat /\ c \in Nat /\ d \in Nat
    BY <2>3, CountIs, CountsTyped
  <2>5. /\ Handed(t) = c + d + (IF UpdateOf(t) \in sessions THEN 1 ELSE 0)
        /\ Handed(t)' = c1 + d + (IF UpdateOf(t) \in sessions' THEN 1 ELSE 0)
    BY <1>2, <2>1 DEF Handed, Entries, Count
  <2>6. UpdateOf(t) \in sessions' <=> UpdateOf(t) \in sessions \/ u = UpdateOf(t)
    BY <1>2
  <2>7. u = UpdateOf(t) => Handed(t) = 1
    BY <1>3, NamedDrives
  <2> HIDE DEF c, c1, d
  <2>8. u = UpdateOf(t) => UpdateOf(t) \notin sessions
    BY <2>2, <2>4, <2>5, <2>7
  <2>9. Handed(t)' = Handed(t)
    BY <2>2, <2>4, <2>5, <2>6, <2>8
  <2> QED BY <1>2, <2>1, <2>9 DEF Stays
<1> QED BY <1>4, <1>5 DEF StepsSoundly

LEMMA SessionEndsSteps ==
  ASSUME DriverInv, NEW u \in sessions, SessionEnds(u)
  PROVE  StepsSoundly /\ Covered'
<1> USE DriverParts
<1>1. /\ disconnects \in Seq(Update) /\ Len(connects) \in Nat /\ connected \in Nat
      /\ Len(disconnects) \in Nat /\ Healthy \in Nat /\ Cardinality(sessions) \in Nat
      /\ u \in Update
  BY FS_CardinalityType, LimitAssumption DEF TypeOK
<1>2. /\ disconnects' = Append(disconnects, u) /\ sessions' = sessions \ {u}
      /\ UNCHANGED <<peer, generation, connected, retry_queue, connects>>
  BY DEF SessionEnds, pool, counters
<1>3. Covered'
  <2>1. Len(disconnects') = Len(disconnects) + 1
    BY <1>1, <1>2
  <2>2. IsFiniteSet(sessions')
    BY <1>2, FS_RemoveElement
  <2>3. Cardinality(sessions') = Cardinality(sessions) - 1
    BY <1>2, FS_RemoveElement
  <2>4. /\ Len(connects) + Cardinality(sessions) + Len(disconnects) <= connected
        /\ connected <= Healthy
    BY DEF ConnectedCoversSessions
  <2>5. /\ Len(connects') + Cardinality(sessions') + Len(disconnects') <= connected'
        /\ connected' <= Healthy
    BY <1>1, <1>2, <2>1, <2>3, <2>4
  <2> QED BY <2>2, <2>5 DEF Covered, ConnectedCoversSessions
<1>4. ASSUME NEW t \in Slots
      PROVE  Stays(t)
  <2>1. UpdateOf(t)' = UpdateOf(t) /\ Retries(t)' = Retries(t)
    BY <1>2 DEF UpdateOf, Retries, Entries
  <2> DEFINE c == Count(connects, UpdateOf(t))
             d == Count(disconnects, UpdateOf(t))
             d1 == Count(disconnects', UpdateOf(t))
  <2>2. d1 = d + (IF u = UpdateOf(t) THEN 1 ELSE 0)
    BY <1>1, <1>2, CountAppend
  <2>3. c \in Nat /\ d \in Nat
    BY CountsTyped
  <2>4. /\ Handed(t) = c + d + (IF UpdateOf(t) \in sessions THEN 1 ELSE 0)
        /\ Handed(t)' = c + d1 + (IF UpdateOf(t) \in sessions' THEN 1 ELSE 0)
    BY <1>2, <2>1 DEF Handed, Entries, Count
  <2>5. UpdateOf(t) \in sessions' <=> UpdateOf(t) \in sessions /\ u # UpdateOf(t)
    BY <1>2
  <2>6. u = UpdateOf(t) => UpdateOf(t) \in sessions
    OBVIOUS
  <2> HIDE DEF c, d, d1
  <2>7. Handed(t)' = Handed(t)
    BY <2>2, <2>3, <2>4, <2>5, <2>6
  <2> QED BY <1>2, <2>1, <2>7 DEF Stays
<1> QED BY <1>3, <1>4 DEF StepsSoundly

\* Nothing else touches a peer or an update.
LEMMA QuietSteps ==
  ASSUME DriverInv,
         UNCHANGED <<peer, generation, connected, retry_queue, connects, sessions,
                     disconnects>>
  PROVE  StepsSoundly /\ Covered'
<1>1. \A t \in Slots : Stays(t)
  BY QueuesStay DEF Stays
<1> QED BY <1>1, DriverParts, CoveredStays DEF StepsSoundly

----------------------------------------------------------------------------
(* The invariant is inductive.                                             *)

LEMMA DriverStep ==
  ASSUME NativeV6 = {}, DriverInv, [Next]_vars
  PROVE  DriverInv'
<1>1. PoolInv'
  BY PoolInvStep, DriverParts
<1>2. StepsSoundly /\ Covered'
  <2>1. CASE \E s \in Slots : SocketCallback(s)
    BY <2>1, SocketSteps
  <2>2. CASE \E s \in Slots : TimerCallback(s)
    BY <2>2, RetryTimerSteps, ConnectTimerSteps DEF TimerCallback
  <2>3. CASE DiscoveredPeer
    BY <2>3, DiscoveredSteps
  <2>4. CASE DisconnectedPeer
    BY <2>4, DisconnectedSteps
  <2>5. CASE FailedPeer
    BY <2>5, FailedSteps
  <2>6. CASE \E s \in Slots, a \in Dialing : AcceptUnique(s, a) \/ AcceptEvicting(s, a)
    BY <2>6, AcceptSteps
  <2>7. CASE SessionBegins
    BY <2>7, SessionBeginsSteps
  <2>8. CASE \E u \in sessions : SessionEnds(u)
    BY <2>8, SessionEndsSteps
  <2>9. CASE \/ DaemonSignalled \/ RoundBegins \/ NothingLeft \/ ServerReadable
             \/ AcceptEnds \/ DrainDiscovered \/ NotifyDisconnected
             \/ (\E a \in Discoverable : TrackerReports(a)) \/ UNCHANGED vars
    <3>1. UNCHANGED <<peer, generation, connected, retry_queue, connects, sessions,
                      disconnects>>
      BY <2>9 DEF DaemonSignalled, RoundBegins, NothingLeft, ServerReadable,
         AcceptEnds, DrainDiscovered, NotifyDisconnected, TrackerReports, vars,
         pool, counters, transfer
    <3> QED BY <3>1, QuietSteps
  <2> QED
    BY <2>1, <2>2, <2>3, <2>4, <2>5, <2>6, <2>7, <2>8, <2>9
       DEF Next, Manager, OtherThreads, Scheduling, Accepting
<1>3. (\A s \in Slots : SlotSound(s))'
  BY <1>2, DriverParts, SlotsStaySound
<1> QED BY <1>1, <1>2, <1>3 DEF DriverInv, Covered

LEMMA DriverInit ==
  ASSUME InitialCount \subseteq 0 .. Healthy, Init
  PROVE  DriverInv
<1>1. PoolInv
  BY PoolInvInit
<1>2. ASSUME NEW s \in Slots
      PROVE  SlotSound(s)
  BY <1>2 DEF Init, SlotSound, Occupied, Blank
<1>3. IsFiniteSet(sessions) /\ Cardinality(sessions) = 0
  BY FS_EmptySet DEF Init
<1>4. Len(connects) = 0 /\ Len(disconnects) = 0 /\ connected \in 0 .. Healthy
  BY DEF Init
<1>5. ConnectedCoversSessions
  BY <1>3, <1>4, LimitAssumption DEF ConnectedCoversSessions
<1> QED BY <1>1, <1>2, <1>3, <1>5 DEF DriverInv

\* Every occupied slot is driven by one thing, and no free slot by anything.
LEMMA DriverImplies ==
  ASSUME DriverInv
  PROVE  /\ EachPeerHasOneDriver /\ ConnectedMeansHanded /\ RetryEntriesWait
         /\ SendBufferClean /\ ConnectedCoversSessions
<1> USE DriverParts
<1>1. ASSUME NEW s \in Slots
      PROVE  (IF peer[s].timer THEN 1 ELSE 0) + Cardinality(Entries(retry_queue, s))
               + Handed(s) = IF Occupied(s) THEN 1 ELSE 0
  <2>1. CASE Occupied(s)
    BY <2>1 DEF SlotSound, Driven, Timers, Retries
  <2>2. CASE ~Occupied(s)
    <3>1. ~peer[s].timer
      BY <2>2 DEF PoolInv, WatchersOccupied
    <3>2. Retries(s) = 0 /\ Handed(s) = 0
      BY <2>2, FreeUnnamed
    <3> QED BY <2>2, <3>1, <3>2 DEF Retries
  <2> QED BY <2>1, <2>2
<1>2. ASSUME NEW s \in Slots
      PROVE  /\ peer[s].state = "CONNECTED" <=> Handed(s) = 1
             /\ peer[s].state = "CONNECTED" => peer[s].io = "off" /\ ~peer[s].timer
  <2>1. CASE Occupied(s)
    BY <2>1, WatchedTimed DEF SlotSound, Driven
  <2>2. CASE ~Occupied(s)
    BY <2>2, FreeUnnamed DEF SlotSound, Blank
  <2> QED BY <2>1, <2>2
<1>3. ASSUME NEW s \in Slots, Entries(retry_queue, s) # {}
      PROVE  /\ peer[s].state = "FAILED" /\ peer[s].source = "tracker"
             /\ peer[s].io = "off"
  <2>1. UpdateOf(s) \in Elements(retry_queue)
    BY <1>3 DEF Entries, Elements
  <2>2. Occupied(s) /\ Retries(s) = 1 /\ Timers(s) = 0
    BY <2>1, NamedDrives
  <2>3. Driven(s) /\ Sound(peer[s])
    BY <2>2 DEF SlotSound
  <2>4. ~peer[s].timer /\ peer[s].state = "FAILED"
    BY <2>2, <2>3 DEF Driven, Timers
  <2> QED BY <2>3, <2>4 DEF Sound
<1>4. SendBufferClean
  BY DEF SendBufferClean, SlotSound, Sound, Blank
<1> QED BY <1>1, <1>2, <1>3, <1>4
        DEF EachPeerHasOneDriver, ConnectedMeansHanded, RetryEntriesWait

----------------------------------------------------------------------------
(* What a step may not do to a peer of the transfer manager.               *)

\* As ConnectedLeftAlone and HandedSocketKept say of slot s, and that the end of
\* the session deletes the peer.
LeftAlone(s) ==
  /\ peer[s].state = "CONNECTED" /\ peer'[s] # peer[s] =>
       /\ peer'[s].key = NoKey
       /\ \/ /\ pc = "disconnected"
             /\ disconnects # <<>> /\ Head(disconnects) = UpdateOf(s)
          \/ /\ pc = "accept"
             /\ peer[s].key \in Dialing
             /\ registry'[peer[s].key] \in Slots \ {s}
  /\ peer[s].sock = "handed" => peer'[s].sock # "none"

\* A step that changes one peer, which is not the transfer manager's.
LEMMA OneLeftAlone ==
  ASSUME DriverInv, NEW s \in Slots, peer[s].state # "CONNECTED",
         NEW p, peer' = [peer EXCEPT ![s] = p],
         peer[s].sock = "handed" => p.sock # "none"
  PROVE  \A t \in Slots : LeftAlone(t)
<1>1. peer \in [Slots -> PeerConnection]
  BY DriverParts DEF TypeOK
<1>2. ASSUME NEW t \in Slots, t # s
      PROVE  peer'[t] = peer[t]
  BY <1>1, <1>2
<1>3. peer'[s] = p
  BY <1>1
<1>4. LeftAlone(s)
  BY <1>3 DEF LeftAlone
<1> QED BY <1>2, <1>4 DEF LeftAlone

LEMMA CallbackLeavesAlone ==
  ASSUME DriverInv, NEW s \in Slots, SocketCallback(s) \/ TimerCallback(s)
  PROVE  \A t \in Slots : LeftAlone(t)
<1>1. peer[s].io # "off" \/ peer[s].timer
  BY DEF SocketCallback, QuotaDeletes, SocketError, TransportInitiation, HandshakeSent,
         HandshakeReceived, SocketReady, TimerCallback, RetryTimer, ConnectTimer, TimerReady
<1>2. peer[s].state # "CONNECTED" /\ peer[s].sock # "handed"
  BY <1>1, DriverParts, WatchedTimed
<1>3. HandlePeerFailure(s) => \E p : peer' = [peer EXCEPT ![s] = p]
  BY DEF HandlePeerFailure, DeletePeer, SetPeer
<1>4. \A p : Dispatch(s, p) \/ DeletePeer(s, p) \/ SetPeer(s, p) =>
        \E q : peer' = [peer EXCEPT ![s] = q]
  BY DEF Dispatch, DeletePeer, SetPeer
<1>5. \/ HandlePeerFailure(s)
      \/ \E p : Dispatch(s, p) \/ DeletePeer(s, p) \/ SetPeer(s, p)
  BY Zenon
     DEF SocketCallback, QuotaDeletes, SocketError, TransportInitiation, HandshakeSent,
         HandshakeReceived, TimerCallback, RetryTimer, ConnectTimer
<1>6. PICK p : peer' = [peer EXCEPT ![s] = p]
  BY <1>3, <1>4, <1>5
<1> QED BY <1>2, <1>6, OneLeftAlone

LEMMA DiscoveredLeavesAlone ==
  ASSUME DriverInv, DiscoveredPeer
  PROVE  \A t \in Slots : LeftAlone(t)
<1>1. PICK s \in {t \in Slots : available[t] > 0} :
        LET p == Initialized(peer[s], cache[Len(cache)], "tracker", "DISCOVERED")
        IN  \/ UNCHANGED peer
            \/ \E outcome \in ConnectOutcomes(p) :
                 \/ outcome.ok /\ peer' = [peer EXCEPT ![s] = outcome.peer]
                 \/ ~outcome.ok /\ peer' = [peer EXCEPT ![s] = Torn(outcome.peer)]
  BY Zenon DEF DiscoveredPeer
<1>2. s \in Slots /\ ~Occupied(s) /\ SlotSound(s) /\ peer[s] \in PeerConnection
  BY DriverParts DEF PoolInv, RegistryMatchesPool, TypeOK
<1>3. peer[s].state # "CONNECTED"
  BY <1>2 DEF SlotSound, Blank
<1> DEFINE p == Initialized(peer[s], cache[Len(cache)], "tracker", "DISCOVERED")
<1>4. p.sock = peer[s].sock
  BY <1>2 DEF Initialized, PeerConnection
<1>5. \/ UNCHANGED peer
      \/ \E outcome \in ConnectOutcomes(p) :
           \/ outcome.ok /\ peer' = [peer EXCEPT ![s] = outcome.peer]
           \/ ~outcome.ok /\ peer' = [peer EXCEPT ![s] = Torn(outcome.peer)]
  BY <1>1
<1> HIDE DEF p
<1>6. CASE UNCHANGED peer
  BY <1>6 DEF LeftAlone
<1>7. ASSUME NEW outcome \in ConnectOutcomes(p), outcome.ok,
             peer' = [peer EXCEPT ![s] = outcome.peer]
      PROVE  \A t \in Slots : LeftAlone(t)
  <2>1. p.sock = "none"
    BY <1>7 DEF ConnectOutcomes
  <2> QED BY <1>2, <1>3, <1>4, <1>7, <2>1, OneLeftAlone
<1>8. ASSUME NEW outcome \in ConnectOutcomes(p), ~outcome.ok,
             peer' = [peer EXCEPT ![s] = Torn(outcome.peer)]
      PROVE  \A t \in Slots : LeftAlone(t)
  <2>1. outcome.peer = p
    BY <1>8 DEF ConnectOutcomes
  <2>2. Torn(outcome.peer).sock = peer[s].sock
    BY <1>4, <2>1 DEF Torn
  <2>3. peer[s].sock = "handed" => Torn(outcome.peer).sock # "none"
    BY <2>2
  <2> QED BY <1>2, <1>3, <1>8, <2>3, OneLeftAlone
<1> QED BY <1>5, <1>6, <1>7, <1>8

LEMMA DisconnectedLeavesAlone ==
  ASSUME DriverInv, DisconnectedPeer
  PROVE  \A t \in Slots : LeftAlone(t)
<1> USE DriverParts
<1> DEFINE u == Head(disconnects)
           s == u.slot
           p == [peer[s] EXCEPT !.state = "DISCONNECTED", !.failures = @ + 1]
<1>1. /\ peer \in [Slots -> PeerConnection] /\ disconnects \in Seq(Update)
      /\ disconnects # <<>> /\ pc = "disconnected"
  BY DEF TypeOK, DisconnectedPeer
<1>2. /\ s \in Slots /\ u \in Elements(disconnects)
      /\ IsCurrent(u) => u = UpdateOf(s)
  BY <1>1, CurrentHead
<1>3. CASE ~IsCurrent(u)
  <2>1. UNCHANGED peer
    BY <1>3 DEF DisconnectedPeer, pool
  <2> QED BY <2>1 DEF LeftAlone
<1>4. CASE IsCurrent(u)
  <2>1. \/ DeletePeer(s, p)
        \/ \E outcome \in ConnectOutcomes(p) :
             outcome.ok \/ DeletePeer(s, outcome.peer)
    BY <1>4 DEF DisconnectedPeer, InitiateConnect
  <2>2. u = UpdateOf(s)
    BY <1>2, <1>4
  <2>3. Occupied(s) /\ Handed(s) = 1 /\ SlotSound(s)
    BY <1>2, <2>2, NamedDrives
  <2>4. peer[s].sock = "handed"
    BY <2>3 DEF SlotSound, Driven, Sound
  <2>5. p.sock = "handed"
    BY <1>1, <1>2, <2>4 DEF PeerConnection
  <2> HIDE DEF p
  <2>6. \A outcome \in ConnectOutcomes(p) : ~outcome.ok /\ outcome.peer = p
    BY <2>5 DEF ConnectOutcomes
  <2>7. DeletePeer(s, p)
    BY <2>1, <2>6
  <2>8. /\ peer' = [peer EXCEPT ![s] = Torn(p)]
        /\ Torn(p).sock = "handed" /\ Torn(p).key = NoKey
    BY <2>5, <2>7 DEF DeletePeer, Torn
  <2> HIDE DEF u, s
  <2>9. peer'[s].sock = "handed" /\ peer'[s].key = NoKey /\ \A t \in Slots : t # s => peer'[t] = peer[t]
    BY <1>1, <1>2, <2>8
  <2>10. LeftAlone(s)
    <3>1. Head(disconnects) = UpdateOf(s)
      BY <2>2 DEF u
    <3>2. peer'[s].sock # "none" /\ peer'[s].key = NoKey
      BY <2>9
    <3> QED BY <1>1, <3>1, <3>2 DEF LeftAlone
  <2> QED BY <2>9, <2>10 DEF LeftAlone
<1> QED BY <1>3, <1>4

LEMMA FailedLeavesAlone ==
  ASSUME DriverInv, FailedPeer
  PROVE  \A t \in Slots : LeftAlone(t)
<1> USE DriverParts
<1> DEFINE u == Head(retry_queue)
           s == u.slot
<1>1. peer \in [Slots -> PeerConnection] /\ retry_queue \in Seq(Update) /\ retry_queue # <<>>
  BY DEF TypeOK, FailedPeer
<1>2. /\ s \in Slots /\ u \in Elements(retry_queue)
      /\ IsCurrent(u) => u = UpdateOf(s)
  BY <1>1, CurrentHead
<1>3. CASE ~IsCurrent(u)
  <2>1. UNCHANGED peer
    BY <1>3 DEF FailedPeer, pool
  <2> QED BY <2>1 DEF LeftAlone
<1>4. CASE IsCurrent(u)
  <2>1. \E q : DeletePeer(s, q) \/ SetPeer(s, q)
    BY <1>4 DEF FailedPeer, InitiateConnect
  <2>2. \E q : peer' = [peer EXCEPT ![s] = q]
    BY <2>1 DEF DeletePeer, SetPeer
  <2>3. u = UpdateOf(s)
    BY <1>2, <1>4
  <2>4. Occupied(s) /\ Handed(s) = 0 /\ SlotSound(s)
    BY <1>2, <2>3, NamedDrives
  <2>5. peer[s].state # "CONNECTED" /\ peer[s].sock # "handed"
    BY <2>4 DEF SlotSound, Driven, Sound
  <2> HIDE DEF u, s
  <2> QED BY <1>2, <2>2, <2>5, OneLeftAlone
<1> QED BY <1>3, <1>4

LEMMA AcceptLeavesAlone ==
  ASSUME NativeV6 = {}, DriverInv, NEW s \in Slots, NEW a \in Dialing,
         AcceptUnique(s, a) \/ AcceptEvicting(s, a)
  PROVE  \A t \in Slots : LeftAlone(t)
<1> USE DriverParts
<1>1. /\ peer \in [Slots -> PeerConnection] /\ peer[s] \in PeerConnection
      /\ registry \in [Endpoints -> Slots \cup {NoSlot}]
  BY DEF TypeOK
<1>2. /\ a \in Endpoints /\ ~Occupied(s)
      /\ registry[a] # NoSlot => registry[a] \in Slots \ {s} /\ peer[registry[a]].key = a
  BY AcceptSlots
<1>3. Blank(peer[s])
  BY <1>2 DEF SlotSound
<1>4. peer[s].state # "CONNECTED" /\ Accepted(peer[s], a).sock # "none"
  BY <1>1, <1>3 DEF Blank, Accepted, Initialized, Armed, PeerConnection
<1>5. CASE AcceptUnique(s, a)
  <2>1. peer' = [peer EXCEPT ![s] = Accepted(peer[s], a)]
    BY <1>5 DEF AcceptUnique
  <2> QED BY <1>4, <2>1, OneLeftAlone
<1>6. CASE AcceptEvicting(s, a)
  <2>1. registry[a] # NoSlot /\ pc = "accept"
    BY <1>6 DEF AcceptEvicting
  <2>2. PICK old \in Slots : old = registry[a] /\ old # s /\ peer[old].key = a
    BY <1>2, <2>1
  <2> DEFINE p == Evicted(peer[old])
  <2>3. /\ peer' = [[peer EXCEPT ![old] = Torn(p)] EXCEPT ![s] = Accepted(@, a)]
        /\ registry' = [Deregister(p.key) EXCEPT ![a] = s]
    BY <1>6, <2>1, <2>2 DEF AcceptEvicting
  <2>4. registry'[a] = s
    BY <1>1, <1>2, <2>3 DEF Deregister
  <2>5. peer[old].state # "CONNECTED" \/ p = peer[old]
    BY DEF Evicted
  <2>6. peer[old].key # NoKey /\ Sound(peer[old])
    BY <1>2, <2>2, NullAssumption DEF SlotSound, Occupied
  <2>7. peer[old].sock = "handed" => p.sock = "handed"
    BY <2>5, <2>6 DEF Sound
  <2>8. Torn(p).sock = p.sock /\ Torn(p).key = NoKey
    BY DEF Torn
  <2> HIDE DEF p
  <2>9. /\ peer'[old] = Torn(p) /\ peer'[s] = Accepted(peer[s], a)
        /\ \A t \in Slots : t # s /\ t # old => peer'[t] = peer[t]
    BY <1>1, <2>2, <2>3
  <2>10. LeftAlone(old)
    BY <2>1, <2>2, <2>4, <2>7, <2>8, <2>9 DEF LeftAlone
  <2>11. LeftAlone(s)
    BY <1>4, <2>9 DEF LeftAlone
  <2>12. ASSUME NEW t \in Slots, t # s, t # old
         PROVE  LeftAlone(t)
    BY <2>9, <2>12 DEF LeftAlone
  <2> QED BY <2>10, <2>11, <2>12
<1> QED BY <1>5, <1>6

LEMMA AllLeftAlone ==
  ASSUME NativeV6 = {}, DriverInv, [Next]_vars
  PROVE  \A t \in Slots : LeftAlone(t)
<1>1. CASE \E s \in Slots : SocketCallback(s) \/ TimerCallback(s)
  BY <1>1, CallbackLeavesAlone
<1>2. CASE DiscoveredPeer
  BY <1>2, DiscoveredLeavesAlone
<1>3. CASE DisconnectedPeer
  BY <1>3, DisconnectedLeavesAlone
<1>4. CASE FailedPeer
  BY <1>4, FailedLeavesAlone
<1>5. CASE \E s \in Slots, a \in Dialing : AcceptUnique(s, a) \/ AcceptEvicting(s, a)
  BY <1>5, AcceptLeavesAlone
<1>6. CASE \/ DaemonSignalled \/ RoundBegins \/ NothingLeft \/ ServerReadable
           \/ AcceptEnds \/ DrainDiscovered \/ NotifyDisconnected
           \/ OtherThreads \/ UNCHANGED vars
  <2>1. UNCHANGED peer
    BY <1>6 DEF DaemonSignalled, RoundBegins, NothingLeft, ServerReadable,
       AcceptEnds, DrainDiscovered, NotifyDisconnected, OtherThreads,
       TrackerReports, SessionBegins, SessionEnds, vars, pool
  <2> QED BY <2>1 DEF LeftAlone
<1> QED
  BY <1>1, <1>2, <1>3, <1>4, <1>5, <1>6 DEF Next, Manager, Scheduling, Accepting

----------------------------------------------------------------------------
(* The theorems.  They hold without native IPv6 endpoints, and if no       *)
(* statistic starts above the quota.                                       *)

LEMMA DriverForever ==
  ASSUME NativeV6 = {}, InitialCount \subseteq 0 .. Healthy
  PROVE  Spec => []DriverInv
<1>1. Init => DriverInv
  BY DriverInit
<1>2. DriverInv /\ [Next]_vars => DriverInv'
  BY DriverStep
<1> QED BY <1>1, <1>2, PTL DEF Spec

\* Every peer, and no free slot, has exactly one thing that will move it on:
\* its timer, an entry of retry_queue, or an update of the transfer manager's.
THEOREM OneDriverPerPeer ==
  ASSUME NativeV6 = {}, InitialCount \subseteq 0 .. Healthy
  PROVE  Spec => []EachPeerHasOneDriver
<1>1. Spec => []DriverInv
  BY DriverForever
<1>2. DriverInv => EachPeerHasOneDriver
  BY DriverImplies
<1> QED BY <1>1, <1>2, PTL

\* A peer is CONNECTED exactly while its update is with the transfer manager,
\* and then no watcher of the manager's is armed on it.
THEOREM ConnectedIsHanded ==
  ASSUME NativeV6 = {}, InitialCount \subseteq 0 .. Healthy
  PROVE  Spec => []ConnectedMeansHanded
<1>1. Spec => []DriverInv
  BY DriverForever
<1>2. DriverInv => ConnectedMeansHanded
  BY DriverImplies
<1> QED BY <1>1, <1>2, PTL

\* A retry that is not stale finds a failed, dialled peer that nothing watches.
THEOREM RetriesFindWaitingPeers ==
  ASSUME NativeV6 = {}, InitialCount \subseteq 0 .. Healthy
  PROVE  Spec => []RetryEntriesWait
<1>1. Spec => []DriverInv
  BY DriverForever
<1>2. DriverInv => RetryEntriesWait
  BY DriverImplies
<1> QED BY <1>1, <1>2, PTL

\* The count of connected peers covers all the transfer manager was given and
\* stays within the quota, so an update is never dropped.
THEOREM CountCoversSessions ==
  ASSUME NativeV6 = {}, InitialCount \subseteq 0 .. Healthy
  PROVE  Spec => []ConnectedCoversSessions
<1>1. Spec => []DriverInv
  BY DriverForever
<1>2. DriverInv => ConnectedCoversSessions
  BY DriverImplies
<1> QED BY <1>1, <1>2, PTL

\* No handshake is encoded behind what an earlier dial left in the buffer.
THEOREM HandshakesStartClean ==
  ASSUME NativeV6 = {}, InitialCount \subseteq 0 .. Healthy
  PROVE  Spec => []SendBufferClean
<1>1. Spec => []DriverInv
  BY DriverForever
<1>2. DriverInv => SendBufferClean
  BY DriverImplies
<1> QED BY <1>1, <1>2, PTL

\* A CONNECTED peer is left alone until its session ends or its endpoint
\* dials in again: no timer, retry, dial or stale update disturbs it.
THEOREM ConnectedStays ==
  ASSUME NativeV6 = {}, InitialCount \subseteq 0 .. Healthy
  PROVE  Spec => ConnectedLeftAlone
<1> DEFINE Step == \A s \in Slots :
             peer[s].state = "CONNECTED" /\ peer'[s] # peer[s] =>
               \/ /\ pc = "disconnected"
                  /\ disconnects # <<>> /\ Head(disconnects) = UpdateOf(s)
               \/ /\ pc = "accept"
                  /\ peer[s].key \in Dialing
                  /\ registry'[peer[s].key] \in Slots \ {s}
<1>1. Spec => []DriverInv
  BY DriverForever
<1>2. DriverInv /\ [Next]_vars => [Step]_vars
  BY AllLeftAlone DEF LeftAlone
<1> HIDE DEF Step
<1>3. Spec => [][Step]_vars
  BY <1>1, <1>2, PTL DEF Spec
<1> QED BY <1>3 DEF Step, ConnectedLeftAlone

\* The manager never closes a descriptor it gave to the transfer manager.
THEOREM HandedSocketsStay ==
  ASSUME NativeV6 = {}, InitialCount \subseteq 0 .. Healthy
  PROVE  Spec => HandedSocketKept
<1> DEFINE Step == \A s \in Slots : peer[s].sock = "handed" => peer'[s].sock # "none"
<1>1. Spec => []DriverInv
  BY DriverForever
<1>2. DriverInv /\ [Next]_vars => [Step]_vars
  BY AllLeftAlone DEF LeftAlone
<1> HIDE DEF Step
<1>3. Spec => [][Step]_vars
  BY <1>1, <1>2, PTL DEF Spec
<1> QED BY <1>3 DEF Step, HandedSocketKept

\* The safety half of InFlightResolves: a peer in flight never loses its timer,
\* and when that expires the peer is in flight no longer.
THEOREM TimersEndFlights ==
  ASSUME NativeV6 = {}, InitialCount \subseteq 0 .. Healthy
  PROVE  Spec => /\ [](\A s \in Slots : peer[s].io # "off" => peer[s].timer)
                 /\ [][\A s \in Slots : TimerCallback(s) => peer'[s].io = "off"]_vars
<1> DEFINE Timed == \A s \in Slots : peer[s].io # "off" => peer[s].timer
           Ends == \A s \in Slots : TimerCallback(s) => peer'[s].io = "off"
<1>1. Spec => []DriverInv
  BY DriverForever
<1>2. DriverInv => Timed
  BY DriverParts, WatchedTimed
<1>3. DriverInv => Ends
  <2> SUFFICES ASSUME DriverInv, NEW s \in Slots, TimerCallback(s)
               PROVE  peer'[s].io = "off"
    OBVIOUS
  <2>1. peer \in [Slots -> PeerConnection] /\ peer[s] \in PeerConnection
    BY DriverParts DEF TypeOK
  <2>2. CASE RetryTimer(s)
    <3>1. peer' = [peer EXCEPT ![s] = Stopped(peer[s])]
      BY <2>2 DEF RetryTimer, SetPeer
    <3>2. Stopped(peer[s]).io = "off"
      BY <2>1 DEF Stopped, PeerConnection
    <3> QED BY <2>1, <3>1, <3>2
  <2>3. CASE ConnectTimer(s)
    <3>1. PICK p : (peer' = [peer EXCEPT ![s] = Torn(p)]) \/ (peer' = [peer EXCEPT ![s] = Waiting(p)] /\ p \in PeerConnection)
      <4> DEFINE p == [Closed(peer[s]) EXCEPT !.state = "FAILED", !.failures = @ + 1]
      <4>1. p \in PeerConnection
        BY <2>1, PeerValues, FailureCounted
      <4>2. IF GivesUp(p) THEN DeletePeer(s, p) ELSE SetPeer(s, Waiting(p))
        BY <2>3 DEF ConnectTimer, HandlePeerFailure
      <4> HIDE DEF p
      <4> QED BY <4>1, <4>2 DEF DeletePeer, SetPeer
    <3>2. Torn(p).io = "off" /\ (p \in PeerConnection => Waiting(p).io = "off")
      BY DEF Torn, Waiting, PeerConnection
    <3> QED BY <2>1, <3>1, <3>2
  <2> QED BY <2>2, <2>3 DEF TimerCallback
<1> HIDE DEF Timed, Ends
<1>4. Spec => []Timed
  BY <1>1, <1>2, PTL
<1>5. Spec => [][Ends]_vars
  BY <1>1, <1>3, PTL DEF Spec
<1> QED BY <1>4, <1>5 DEF Timed, Ends
----------------------------------------------------------------------------
(* The counters of dials and accepted connections in flight.  A counter is *)
(* decremented only for a peer that was in flight, so it never wraps.      *)

Flights(flying, n, max) ==
  IsFiniteSet(flying) /\ Cardinality(flying) <= n /\ n <= max

\* What a step may do to the peers in flight and to their counter; the peers of
\* lost leave without being counted.
Counts(flying, after, n, m, max, lost) ==
  \/ after = flying /\ m = n
  \/ \E s \in flying :
       /\ after = flying \ {s}
       /\ m = Decrement(n) \/ (m = n /\ s \in lost)
  \/ \E s : s \notin flying /\ after = flying \cup {s} /\ n < max /\ m = Increment(n)
  \/ \E old \in flying : \E s :
       /\ s \notin flying /\ after = (flying \ {old}) \cup {s}
       /\ n < max /\ m = Decrement(Increment(n))

LEMMA FlightsStay ==
  ASSUME NEW flying, NEW after, NEW n \in Nat, NEW m, NEW max \in Nat, max < SizeMax,
         NEW lost, Flights(flying, n, max), Counts(flying, after, n, m, max, lost)
  PROVE  /\ Flights(after, m, max)
         /\ \/ m - Cardinality(after) = n - Cardinality(flying)
            \/ /\ flying \cap lost # {}
               /\ m - Cardinality(after) = (n - Cardinality(flying)) + 1
<1>1. /\ IsFiniteSet(flying) /\ Cardinality(flying) \in Nat /\ Cardinality(flying) <= n
      /\ n <= max /\ SizeMax \in Nat
  BY FS_CardinalityType, CountAssumption DEF Flights
<1>2. ASSUME NEW s \in flying
      PROVE  /\ IsFiniteSet(flying \ {s})
             /\ Cardinality(flying \ {s}) = Cardinality(flying) - 1
             /\ Cardinality(flying) # 0
  <2>1. IsFiniteSet(flying \ {s}) /\ Cardinality(flying \ {s}) = Cardinality(flying) - 1
    BY <1>1, FS_RemoveElement
  <2>2. flying # {}
    OBVIOUS
  <2> QED BY <1>1, <2>1, <2>2, FS_EmptySet
<1>3. CASE after = flying /\ m = n
  BY <1>1, <1>3 DEF Flights
<1>4. ASSUME NEW s \in flying, after = flying \ {s},
             m = Decrement(n) \/ (m = n /\ s \in lost)
      PROVE  /\ Flights(after, m, max)
             /\ \/ m - Cardinality(after) = n - Cardinality(flying)
                \/ /\ flying \cap lost # {}
                   /\ m - Cardinality(after) = (n - Cardinality(flying)) + 1
  <2>1. /\ IsFiniteSet(after) /\ Cardinality(after) = Cardinality(flying) - 1
        /\ Cardinality(flying) # 0
    BY <1>2, <1>4
  <2>2. m = n - 1 \/ (m = n /\ flying \cap lost # {})
    BY <1>1, <1>4, <2>1 DEF Decrement
  <2> QED BY <1>1, <2>1, <2>2 DEF Flights
<1>5. ASSUME NEW s, s \notin flying, after = flying \cup {s}, n < max, m = Increment(n)
      PROVE  /\ Flights(after, m, max)
             /\ m - Cardinality(after) = n - Cardinality(flying)
  <2>1. IsFiniteSet(after) /\ Cardinality(after) = Cardinality(flying) + 1
    BY <1>1, <1>5, FS_AddElement
  <2>2. m = n + 1
    BY <1>1, <1>5 DEF Increment
  <2> QED BY <1>1, <1>5, <2>1, <2>2 DEF Flights
<1>6. ASSUME NEW old \in flying, NEW s, s \notin flying, after = (flying \ {old}) \cup {s},
             n < max, m = Decrement(Increment(n))
      PROVE  /\ Flights(after, m, max)
             /\ m - Cardinality(after) = n - Cardinality(flying)
  <2> DEFINE B == flying \ {old}
  <2>1. IsFiniteSet(B) /\ Cardinality(B) = Cardinality(flying) - 1 /\ s \notin B
    BY <1>2, <1>6
  <2> HIDE DEF B
  <2>2. IsFiniteSet(B \cup {s}) /\ Cardinality(B \cup {s}) = Cardinality(B) + 1
    BY <2>1, FS_AddElement
  <2>3. IsFiniteSet(after) /\ Cardinality(after) = Cardinality(flying)
    BY <1>1, <1>6, <2>1, <2>2 DEF B
  <2>4. m = n
    BY <1>1, <1>6 DEF Increment, Decrement
  <2> QED BY <1>1, <2>3, <2>4 DEF Flights
<1> QED BY <1>3, <1>4, <1>5, <1>6 DEF Counts

\* What is inductive about the counters.  A dialled peer's endpoint is one the
\* trackers report, which keeps the eviction of accepted peers off the dials.
FlightInv ==
  /\ Flights(InFlight("tcp_server"), outbound, MaxOutbound)
  /\ Discoverable \cap Dialing = {} => Flights(InFlight("tracker"), inbound, MaxInbound)
  /\ pc \in Spots => inbound < MaxInbound
  /\ \A s \in Slots :
       Occupied(s) /\ peer[s].source = "tracker" => peer[s].key \in Discoverable

\* How a step keeps it.
Lost == {s \in Slots : LeavesUncounted(s)}

CountsSoundly ==
  /\ Counts(InFlight("tcp_server"), InFlight("tcp_server")', outbound, outbound',
            MaxOutbound, Lost)
  /\ Discoverable \cap Dialing = {} =>
       Counts(InFlight("tracker"), InFlight("tracker")', inbound, inbound',
              MaxInbound, Lost)
  /\ pc' \in Spots => inbound' < MaxInbound
  /\ \A s \in Slots :
       \/ peer'[s].key = NoKey \/ peer'[s].source = "tcp_server"
       \/ peer'[s].key = peer[s].key /\ peer'[s].source = peer[s].source
       \/ peer'[s].key \in Discoverable

LEMMA FlightInvStays ==
  ASSUME TypeOK, FlightInv, CountsSoundly
  PROVE  FlightInv'
<1>1. /\ inbound \in Nat /\ outbound \in Nat /\ MaxInbound \in Nat /\ MaxOutbound \in Nat
      /\ MaxInbound < SizeMax /\ MaxOutbound < SizeMax
  BY LimitAssumption, CountAssumption DEF TypeOK
<1>2. Flights(InFlight("tcp_server"), outbound, MaxOutbound)'
  <2>1. Flights(InFlight("tcp_server")', outbound', MaxOutbound)
    BY <1>1, FlightsStay DEF FlightInv, CountsSoundly
  <2> QED BY <2>1
<1>3. ASSUME Discoverable \cap Dialing = {}
      PROVE  Flights(InFlight("tracker"), inbound, MaxInbound)'
  <2>1. Flights(InFlight("tracker")', inbound', MaxInbound)
    BY <1>1, <1>3, FlightsStay DEF FlightInv, CountsSoundly
  <2> QED BY <2>1
<1>4. ASSUME NEW s \in Slots, Occupied(s)', peer'[s].source = "tracker"
      PROVE  peer'[s].key \in Discoverable
  BY <1>4 DEF FlightInv, CountsSoundly, Occupied
<1>5. pc' \in Spots => inbound' < MaxInbound
  BY DEF CountsSoundly
<1> QED BY <1>2, <1>3, <1>4, <1>5 DEF FlightInv

LEMMA InFlightIs ==
  ASSUME NEW s \in Slots, NEW source
  PROVE  s \in InFlight(source) <=> peer[s].io # "off" /\ peer[s].source = source
BY DEF InFlight

\* The peers in flight after a step that changed one peer.
LEMMA FlightOfOne ==
  ASSUME TypeOK, NEW s \in Slots, NEW p, peer' = [peer EXCEPT ![s] = p], NEW source
  PROVE  InFlight(source)' = IF p.io # "off" /\ p.source = source
                             THEN InFlight(source) \cup {s} ELSE InFlight(source) \ {s}
<1>1. peer'[s] = p /\ \A t \in Slots : t # s => peer'[t] = peer[t]
  BY DEF TypeOK
<1> QED BY <1>1 DEF InFlight

\* What the callbacks of a peer do to it and to the counters.
Outcome(s, p) ==
  /\ peer' = [peer EXCEPT ![s] = p]
  /\ p.key = NoKey \/ (p.key = peer[s].key /\ p.source = peer[s].source)
  /\ \/ /\ \/ peer[s].io = "off" /\ p.io = "off"
           \/ peer[s].io # "off" /\ p.io = "off" /\ LeavesUncounted(s)
           \/ peer[s].io # "off" /\ p.io # "off" /\ p.source = peer[s].source
        /\ UNCHANGED <<inbound, outbound>>
     \/ peer[s].io # "off" /\ p.io = "off" /\ Resolved(peer[s].source)

LEMMA OutcomeCounts ==
  ASSUME DriverInv, FlightInv, NEW s \in Slots, Occupied(s), NEW p, Outcome(s, p),
         pc' = pc, pc \notin Spots
  PROVE  CountsSoundly
<1> USE DriverParts
<1>1. Sound(peer[s]) /\ peer[s] \in PeerConnection /\ peer \in [Slots -> PeerConnection]
  BY DEF SlotSound, TypeOK
<1>2. peer[s].source \in {"tracker", "tcp_server"}
  BY <1>1 DEF Sound, PeerConnection
<1>3. \A t \in Slots :
        \/ peer'[t].key = NoKey
        \/ peer'[t].key = peer[t].key /\ peer'[t].source = peer[t].source
  BY <1>1 DEF Outcome
<1> DEFINE A(source) == InFlight(source)
           B(source) == InFlight(source)'
<1>4. ASSUME NEW source
      PROVE  /\ s \in A(source) <=> peer[s].io # "off" /\ source = peer[s].source
             /\ B(source) = IF p.io # "off" /\ p.source = source
                            THEN A(source) \cup {s} ELSE A(source) \ {s}
  BY FlightOfOne, InFlightIs DEF Outcome
<1>5. CASE /\ UNCHANGED <<inbound, outbound>>
           /\ \/ peer[s].io = "off" /\ p.io = "off"
              \/ peer[s].io # "off" /\ p.io # "off" /\ p.source = peer[s].source
  <2>1. \A source : B(source) = A(source)
    BY <1>4, <1>5
  <2> HIDE DEF A, B
  <2>2. /\ Counts(A("tcp_server"), B("tcp_server"), outbound, outbound', MaxOutbound, Lost)
        /\ Counts(A("tracker"), B("tracker"), inbound, inbound', MaxInbound, Lost)
    BY <1>5, <2>1 DEF Counts
  <2> QED BY <1>3, <2>2 DEF CountsSoundly, A, B
<1>6. ASSUME peer[s].io # "off", p.io = "off"
      PROVE  /\ s \in A(peer[s].source) /\ B(peer[s].source) = A(peer[s].source) \ {s}
             /\ \A source : source # peer[s].source => B(source) = A(source)
  <2>1. \A source : B(source) = A(source) \ {s}
    BY <1>4, <1>6
  <2>2. \A source : s \in A(source) <=> source = peer[s].source
    BY <1>4, <1>6
  <2> HIDE DEF A, B
  <2> QED BY <2>1, <2>2
<1>7. CASE /\ peer[s].io # "off" /\ p.io = "off" /\ LeavesUncounted(s)
           /\ UNCHANGED <<inbound, outbound>>
  <2>1. s \in Lost
    BY <1>7 DEF Lost
  <2> HIDE DEF A, B
  <2>2. /\ Counts(A("tcp_server"), B("tcp_server"), outbound, outbound', MaxOutbound, Lost)
        /\ Counts(A("tracker"), B("tracker"), inbound, inbound', MaxInbound, Lost)
    <3>1. CASE peer[s].source = "tcp_server"
      BY <1>6, <1>7, <2>1, <3>1 DEF Counts
    <3>2. CASE peer[s].source = "tracker"
      BY <1>6, <1>7, <2>1, <3>2 DEF Counts
    <3> QED BY <1>2, <3>1, <3>2
  <2> QED BY <1>3, <2>2 DEF CountsSoundly, A, B
<1>8. CASE peer[s].io # "off" /\ p.io = "off" /\ Resolved(peer[s].source)
  <2> HIDE DEF A, B
  <2>1. /\ Counts(A("tcp_server"), B("tcp_server"), outbound, outbound', MaxOutbound, Lost)
        /\ Counts(A("tracker"), B("tracker"), inbound, inbound', MaxInbound, Lost)
    <3>1. CASE peer[s].source = "tcp_server"
      <4>1. outbound' = Decrement(outbound) /\ inbound' = inbound
        BY <1>8, <3>1 DEF Resolved
      <4> QED BY <1>6, <1>8, <3>1, <4>1 DEF Counts
    <3>2. CASE peer[s].source = "tracker"
      <4>1. inbound' = Decrement(inbound) /\ outbound' = outbound
        BY <1>8, <3>2 DEF Resolved
      <4> QED BY <1>6, <1>8, <3>2, <4>1 DEF Counts
    <3> QED BY <1>2, <3>1, <3>2
  <2> QED BY <1>3, <2>1 DEF CountsSoundly, A, B
<1> QED BY <1>5, <1>7, <1>8 DEF Outcome

\* A failure is resolved for the peer that was in flight.
LEMMA FailureOutcome ==
  ASSUME TypeOK, NEW s \in Slots, peer[s].io # "off", HandlePeerFailure(s)
  PROVE  \E p : Outcome(s, p)
<1> DEFINE p == [Closed(peer[s]) EXCEPT !.state = "FAILED", !.failures = @ + 1]
<1>1. peer[s] \in PeerConnection
  BY DEF TypeOK
<1>2. /\ Resolved(p.source)
      /\ IF GivesUp(p) THEN DeletePeer(s, p) ELSE SetPeer(s, Waiting(p))
  BY DEF HandlePeerFailure
<1>3. p \in PeerConnection /\ p.source = peer[s].source /\ p.key = peer[s].key
  <2>1. p.source = peer[s].source /\ p.key = peer[s].key
    BY <1>1 DEF Closed, PeerConnection
  <2>2. p \in PeerConnection
    BY <1>1, PeerValues, FailureCounted
  <2> QED BY <2>1, <2>2
<1> HIDE DEF p
<1>4. CASE DeletePeer(s, p)
  <2>1. peer' = [peer EXCEPT ![s] = Torn(p)] /\ Torn(p).key = NoKey /\ Torn(p).io = "off"
    BY <1>4 DEF DeletePeer, Torn
  <2> QED BY <1>2, <1>3, <2>1 DEF Outcome
<1>5. CASE SetPeer(s, Waiting(p))
  <2>1. /\ peer' = [peer EXCEPT ![s] = Waiting(p)] /\ Waiting(p).io = "off"
        /\ Waiting(p).key = p.key /\ Waiting(p).source = p.source
    BY <1>3, <1>5 DEF SetPeer, Waiting, PeerConnection
  <2> QED BY <1>2, <1>3, <2>1 DEF Outcome
<1> QED BY <1>2, <1>4, <1>5

LEMMA DispatchOutcome ==
  ASSUME NEW s \in Slots, peer[s].io # "off", NEW p \in PeerConnection,
         p.key = peer[s].key, p.source = peer[s].source, Dispatch(s, p)
  PROVE  \E q : Outcome(s, q)
<1> DEFINE q == [Stopped(p) EXCEPT !.state = "CONNECTED", !.sock = "handed"]
<1>1. peer' = [peer EXCEPT ![s] = q] /\ Resolved(p.source)
  BY DEF Dispatch, SetPeer
<1>2. q.io = "off" /\ q.key = p.key /\ q.source = p.source
  BY DEF Stopped, PeerConnection
<1> HIDE DEF q
<1> QED BY <1>1, <1>2 DEF Outcome

LEMMA CallbackCounts ==
  ASSUME DriverInv, FlightInv, NEW s \in Slots, SocketCallback(s) \/ TimerCallback(s)
  PROVE  CountsSoundly
<1> USE DriverParts
<1>1. /\ peer[s].io # "off" \/ peer[s].timer
      /\ pc = "loop" /\ pc' = pc /\ peer[s] \in PeerConnection
  BY DEF SocketCallback, QuotaDeletes, SocketError, TransportInitiation, HandshakeSent,
         HandshakeReceived, SocketReady, TimerCallback, RetryTimer, ConnectTimer,
         TimerReady, CallbackFrame, TypeOK
<1>2. Occupied(s) /\ Sound(peer[s])
  BY <1>1, WatchedTimed
<1>3. pc \notin Spots
  BY <1>1 DEF Spots
<1>4. ASSUME peer[s].io # "off", NEW p, DeletePeer(s, p), Quietly,
             HasMetQuota \/ (peer[s].state = "HANDSHAKE" /\ peer[s].io = "READ")
      PROVE  \E q : Outcome(s, q)
  <2>1. peer' = [peer EXCEPT ![s] = Torn(p)] /\ Torn(p).key = NoKey /\ Torn(p).io = "off"
    BY <1>4 DEF DeletePeer, Torn
  <2>2. UNCHANGED <<inbound, outbound>>
    BY <1>4 DEF Quietly, counters
  <2>3. peer'[s].key = NoKey
    BY <2>1 DEF TypeOK
  <2>4. LeavesUncounted(s)
    BY <1>4, <2>3 DEF LeavesUncounted
  <2> QED BY <1>4, <2>1, <2>2, <2>4 DEF Outcome
<1>5. ASSUME peer[s].io # "off", NEW p, SetPeer(s, p), Quietly, p.io # "off",
             p.key = peer[s].key, p.source = peer[s].source
      PROVE  \E q : Outcome(s, q)
  BY <1>5 DEF Outcome, SetPeer, Quietly, counters
<1>6. CASE SocketCallback(s)
  <2>1. peer[s].io # "off"
    BY <1>6 DEF SocketCallback, QuotaDeletes, SocketError, TransportInitiation,
       HandshakeSent, HandshakeReceived, SocketReady
  <2>2. HandlePeerFailure(s) => \E q : Outcome(s, q)
    BY <2>1, FailureOutcome
  <2>3. ASSUME NEW p \in PeerConnection, p.key = peer[s].key, p.source = peer[s].source,
               \/ Dispatch(s, p)
               \/ SetPeer(s, p) /\ Quietly /\ p.io # "off"
        PROVE  \E q : Outcome(s, q)
    BY <1>5, <2>1, <2>3, DispatchOutcome
  <2>4. ASSUME NEW p, DeletePeer(s, p), Quietly,
               HasMetQuota \/ (peer[s].state = "HANDSHAKE" /\ peer[s].io = "READ")
        PROVE  \E q : Outcome(s, q)
    BY <1>4, <2>1, <2>4
  <2>5. \/ HandlePeerFailure(s)
        \/ \E p : /\ DeletePeer(s, p) /\ Quietly
                  /\ HasMetQuota \/ (peer[s].state = "HANDSHAKE" /\ peer[s].io = "READ")
        \/ \E p \in PeerConnection :
               /\ p.key = peer[s].key /\ p.source = peer[s].source
               /\ \/ Dispatch(s, p)
                  \/ SetPeer(s, p) /\ Quietly /\ p.io # "off"
    <3>1. ASSUME NEW io \in {"READ", "WRITE"}, NEW send \in {"sent", "queued"}
          PROVE  LET p == [peer[s] EXCEPT !.state = "HANDSHAKE", !.send = send, !.io = io]
                 IN  /\ p \in PeerConnection /\ p.key = peer[s].key
                     /\ p.source = peer[s].source /\ p.io # "off"
      BY <1>1 DEF PeerConnection
    <3>2. CASE QuotaDeletes(s) \/ SocketError(s)
      BY <3>2 DEF QuotaDeletes, SocketError
    <3>3. CASE TransportInitiation(s)
      BY <3>1, <3>3 DEF TransportInitiation
    <3>4. CASE HandshakeSent(s)
      <4> DEFINE p == [peer[s] EXCEPT !.send = IF @ = "queued" THEN "sent" ELSE @]
                 q == [p EXCEPT !.io = "READ"]
      <4>1. p \in PeerConnection /\ p.key = peer[s].key /\ p.source = peer[s].source
        BY <1>1 DEF PeerConnection
      <4>2. \/ HandlePeerFailure(s) \/ (SetPeer(s, q) /\ Quietly) \/ Dispatch(s, p)
        BY <3>4, Zenon DEF HandshakeSent
      <4> HIDE DEF p
      <4>3. /\ q \in PeerConnection /\ q.key = peer[s].key /\ q.source = peer[s].source
            /\ q.io # "off"
        BY <4>1 DEF PeerConnection
      <4> HIDE DEF q
      <4> QED BY <4>1, <4>2, <4>3
    <3>5. CASE HandshakeReceived(s)
      <4> DEFINE p == [peer[s] EXCEPT !.send = "sent"]
                 q == [peer[s] EXCEPT !.send = "queued", !.io = "WRITE"]
      <4>1. /\ p \in PeerConnection /\ p.key = peer[s].key /\ p.source = peer[s].source
            /\ q \in PeerConnection /\ q.key = peer[s].key /\ q.source = peer[s].source
            /\ q.io # "off"
        BY <1>1 DEF PeerConnection
      <4>2. /\ peer[s].state = "HANDSHAKE" /\ peer[s].io = "READ"
            /\ \/ HandlePeerFailure(s) \/ (DeletePeer(s, Closed(peer[s])) /\ Quietly)
               \/ (peer[s].source = "tracker" /\ Dispatch(s, peer[s]))
               \/ (peer[s].source = "tcp_server" /\ Dispatch(s, p))
               \/ (SetPeer(s, q) /\ Quietly)
        BY <3>5, Zenon DEF HandshakeReceived
      <4> HIDE DEF p, q
      <4> QED BY <1>1, <4>1, <4>2
    <3> QED BY <1>6, <3>2, <3>3, <3>4, <3>5 DEF SocketCallback
  <2>6. PICK q : Outcome(s, q)
    BY <2>2, <2>3, <2>4, <2>5
  <2> QED BY <1>1, <1>2, <1>3, <2>6, OutcomeCounts
<1>7. CASE ConnectTimer(s)
  <2>1. peer[s].timer /\ peer[s].state # "FAILED" /\ HandlePeerFailure(s)
    BY <1>7 DEF ConnectTimer, TimerReady
  <2>2. peer[s].io # "off"
    BY <1>2, <2>1 DEF Sound
  <2>3. PICK q : Outcome(s, q)
    BY <2>1, <2>2, FailureOutcome
  <2> QED BY <1>1, <1>2, <1>3, <2>3, OutcomeCounts
<1>8. CASE RetryTimer(s)
  <2> DEFINE q == Stopped(peer[s])
  <2>1. /\ peer' = [peer EXCEPT ![s] = q] /\ UNCHANGED <<inbound, outbound>>
        /\ LeavesUncounted(s)
    BY <1>8 DEF RetryTimer, SetPeer, counters, LeavesUncounted
  <2>2. q.io = "off" /\ q.key = peer[s].key /\ q.source = peer[s].source
    BY <1>1 DEF Stopped, PeerConnection
  <2> HIDE DEF q
  <2>3. Outcome(s, q)
    BY <2>1, <2>2 DEF Outcome
  <2> QED BY <1>1, <1>2, <1>3, <2>3, OutcomeCounts
<1> QED BY <1>6, <1>7, <1>8 DEF TimerCallback

\* The scheduler deletes a peer it cannot dial, or counts one more dial.
LEMMA SchedulerCounts ==
  ASSUME DriverInv, FlightInv, pc \in Spots, outbound' = outbound,
         \/ UNCHANGED <<peer, inbound>> /\ (pc' \in Spots => pc' = pc)
         \/ \E s \in Slots : \E p :
              /\ peer[s].io = "off" /\ peer' = [peer EXCEPT ![s] = p]
              /\ p.key = NoKey /\ p.io = "off"
              /\ inbound' = inbound /\ pc' = pc
         \/ \E s \in Slots : \E p :
              /\ peer[s].io = "off" /\ peer' = [peer EXCEPT ![s] = p]
              /\ p.source = "tracker" /\ p.io # "off"
              /\ p.key \in Discoverable \/ (p.key = peer[s].key /\ peer[s].source = "tracker")
              /\ inbound' = Increment(inbound) /\ pc' \notin Spots
  PROVE  CountsSoundly
<1> USE DriverParts
<1>1. inbound < MaxInbound /\ peer \in [Slots -> PeerConnection]
  BY DEF FlightInv, TypeOK
<1> DEFINE A(source) == InFlight(source)
           B(source) == InFlight(source)'
<1>2. CASE UNCHANGED <<peer, inbound>> /\ (pc' \in Spots => pc' = pc)
  <2>1. \A source : B(source) = A(source)
    BY <1>2 DEF InFlight
  <2> HIDE DEF A, B
  <2>2. /\ Counts(A("tcp_server"), B("tcp_server"), outbound, outbound', MaxOutbound, Lost)
        /\ Counts(A("tracker"), B("tracker"), inbound, inbound', MaxInbound, Lost)
    BY <1>2, <2>1 DEF Counts
  <2> QED BY <1>1, <1>2, <2>2 DEF CountsSoundly, A, B
<1>3. ASSUME NEW s \in Slots, NEW p, peer[s].io = "off", peer' = [peer EXCEPT ![s] = p],
             p.key = NoKey, p.io = "off", inbound' = inbound, pc' = pc
      PROVE  CountsSoundly
  <2>1. \A source : B(source) = A(source) \ {s}
    BY <1>3, FlightOfOne
  <2>4. \A source : s \notin A(source)
    BY <1>3, InFlightIs
  <2> HIDE DEF A, B
  <2>5. \A source : B(source) = A(source)
    BY <2>1, <2>4
  <2>2. /\ Counts(A("tcp_server"), B("tcp_server"), outbound, outbound', MaxOutbound, Lost)
        /\ Counts(A("tracker"), B("tracker"), inbound, inbound', MaxInbound, Lost)
    BY <1>3, <2>5 DEF Counts
  <2>3. \A t \in Slots : peer'[t].key = NoKey \/ peer'[t] = peer[t]
    BY <1>1, <1>3
  <2> QED BY <1>1, <1>3, <2>2, <2>3 DEF CountsSoundly, A, B
<1>4. ASSUME NEW s \in Slots, NEW p, peer[s].io = "off", peer' = [peer EXCEPT ![s] = p],
             p.source = "tracker", p.io # "off",
             p.key \in Discoverable \/ (p.key = peer[s].key /\ peer[s].source = "tracker"),
             inbound' = Increment(inbound), pc' \notin Spots
      PROVE  CountsSoundly
  <2>6. \A source : B(source) = IF p.io # "off" /\ p.source = source
                               THEN A(source) \cup {s} ELSE A(source) \ {s}
    BY <1>4, FlightOfOne
  <2>1. /\ B("tracker") = A("tracker") \cup {s}
        /\ B("tcp_server") = A("tcp_server") \ {s}
    BY <1>4, <2>6
  <2>5. s \notin A("tracker") /\ s \notin A("tcp_server")
    BY <1>4, InFlightIs
  <2> HIDE DEF A, B
  <2>2. B("tcp_server") = A("tcp_server")
    BY <2>1, <2>5
  <2>3. /\ Counts(A("tcp_server"), B("tcp_server"), outbound, outbound', MaxOutbound, Lost)
        /\ Counts(A("tracker"), B("tracker"), inbound, inbound', MaxInbound, Lost)
    BY <1>1, <1>4, <2>1, <2>2, <2>5 DEF Counts
  <2>4. \A t \in Slots : \/ peer'[t].key \in Discoverable
                         \/ peer'[t].key = peer[t].key /\ peer'[t].source = peer[t].source
    BY <1>1, <1>4
  <2> QED BY <1>4, <2>3, <2>4 DEF CountsSoundly, A, B
<1> QED BY <1>2, <1>3, <1>4

\* A dial that did not fail is in flight.
LEMMA DialsAreWatched ==
  ASSUME NEW p \in PeerConnection, NEW outcome \in ConnectOutcomes(p), outcome.ok
  PROVE  outcome.peer.io = "WRITE"
<1> DEFINE dialing == Armed([p EXCEPT !.sock = "own"], "WRITE")
<1>1. dialing.io = "WRITE" /\ dialing \in PeerConnection
  BY DEF Armed, PeerConnection
<1>2. \/ outcome.peer = dialing
      \/ outcome.peer = [dialing EXCEPT !.state = "HANDSHAKE", !.failures = 0]
  BY DEF ConnectOutcomes
<1> HIDE DEF dialing
<1> QED BY <1>1, <1>2 DEF PeerConnection

\* A handler that found a peer leaves its loop.
LEMMA HandlerLeavesSpots ==
  ASSUME HandlerReturns(TRUE)
  PROVE  pc' \notin Spots
BY HandlerLeaves DEF Spots

LEMMA DiscoveredCounts ==
  ASSUME DriverInv, FlightInv, DiscoveredPeer
  PROVE  CountsSoundly
<1> USE DriverParts
<1>1. /\ pc \in Spots /\ outbound' = outbound
      /\ peer \in [Slots -> PeerConnection] /\ cache \in Seq(Discoverable) /\ cache # <<>>
  BY DEF DiscoveredPeer, Spots, TypeOK
<1> DEFINE a == cache[Len(cache)]
<1>2. a \in Discoverable
  BY <1>1, EmptySeq
<1>3. PICK s \in {t \in Slots : available[t] > 0} :
        LET p == Initialized(peer[s], a, "tracker", "DISCOVERED")
        IN  \/ UNCHANGED <<peer, inbound, pc>>
            \/ \E outcome \in ConnectOutcomes(p) :
                 \/ /\ outcome.ok /\ peer' = [peer EXCEPT ![s] = outcome.peer]
                    /\ inbound' = Increment(inbound) /\ HandlerReturns(TRUE)
                 \/ /\ peer' = [peer EXCEPT ![s] = Torn(outcome.peer)]
                    /\ UNCHANGED <<inbound, pc>>
  BY Zenon DEF DiscoveredPeer
<1> DEFINE p == Initialized(peer[s], a, "tracker", "DISCOVERED")
<1>4. p \in PeerConnection /\ p.source = "tracker" /\ p.key = a
  <2>1. s \in Slots
    BY <1>3
  <2>2. peer[s] \in PeerConnection /\ a \in Endpoints
    BY <1>1, <1>2, <2>1 DEF Endpoints
  <2> HIDE DEF a
  <2> QED BY <2>2 DEF Initialized, PeerConnection
<1>5. \/ UNCHANGED <<peer, inbound, pc>>
      \/ \E outcome \in ConnectOutcomes(p) :
           \/ /\ outcome.ok /\ peer' = [peer EXCEPT ![s] = outcome.peer]
              /\ inbound' = Increment(inbound) /\ HandlerReturns(TRUE)
           \/ /\ peer' = [peer EXCEPT ![s] = Torn(outcome.peer)]
              /\ UNCHANGED <<inbound, pc>>
  BY <1>3
<1> HIDE DEF p, a
<1>9. peer[s].io = "off"
  <2>1. available[s] \in Nat /\ available[s] > 0 /\ s \in Slots
    BY <1>3 DEF TypeOK
  <2>2. ~Occupied(s)
    BY <2>1 DEF PoolInv, RegistryMatchesPool
  <2> QED BY <2>1, <2>2 DEF PoolInv, WatchersOccupied
<1>6. CASE UNCHANGED <<peer, inbound, pc>>
  BY <1>1, <1>6, SchedulerCounts
<1>7. ASSUME NEW outcome \in ConnectOutcomes(p), outcome.ok,
             peer' = [peer EXCEPT ![s] = outcome.peer],
             inbound' = Increment(inbound), HandlerReturns(TRUE)
      PROVE  CountsSoundly
  <2>1. /\ outcome.peer.source = "tracker" /\ outcome.peer.key \in Discoverable
        /\ outcome.peer.io # "off"
    BY <1>2, <1>4, <1>7, ConnectValues, DialsAreWatched
  <2>2. pc' \notin Spots
    BY <1>7, HandlerLeavesSpots
  <2> QED BY <1>1, <1>3, <1>7, <1>9, <2>1, <2>2, SchedulerCounts
<1>8. ASSUME NEW q, peer' = [peer EXCEPT ![s] = Torn(q)], UNCHANGED <<inbound, pc>>
      PROVE  CountsSoundly
  <2>1. Torn(q).key = NoKey /\ Torn(q).io = "off"
    BY DEF Torn
  <2> QED BY <1>1, <1>3, <1>8, <1>9, <2>1, SchedulerCounts
<1> QED BY <1>5, <1>6, <1>7, <1>8

\* A redial of a peer that a tracker reported, or its deletion.
LEMMA ConnectCounts ==
  ASSUME DriverInv, FlightInv, pc \in Spots, outbound' = outbound, NEW s \in Slots,
         NEW p \in PeerConnection, p.key = peer[s].key, p.source = peer[s].source,
         peer[s].io = "off",
         \/ InitiateConnect(s, p) /\ p.source = "tracker"
         \/ DeletePeer(s, p) /\ UNCHANGED <<inbound, pc>>
  PROVE  CountsSoundly
<1>1. ASSUME NEW q, DeletePeer(s, q), UNCHANGED <<inbound, pc>>
      PROVE  CountsSoundly
  <2>1. peer' = [peer EXCEPT ![s] = Torn(q)] /\ Torn(q).key = NoKey /\ Torn(q).io = "off"
    BY <1>1 DEF Torn, DeletePeer
  <2> QED BY <1>1, <2>1, SchedulerCounts
<1>2. ASSUME NEW outcome \in ConnectOutcomes(p), outcome.ok, SetPeer(s, outcome.peer),
             inbound' = Increment(inbound), HandlerReturns(TRUE), p.source = "tracker"
      PROVE  CountsSoundly
  <2>1. /\ outcome.peer.source = "tracker" /\ outcome.peer.key = peer[s].key
        /\ peer[s].source = "tracker" /\ outcome.peer.io # "off"
    BY <1>2, ConnectValues, DialsAreWatched
  <2>2. pc' \notin Spots /\ peer' = [peer EXCEPT ![s] = outcome.peer]
    BY <1>2, HandlerLeavesSpots DEF SetPeer
  <2> QED BY <1>2, <2>1, <2>2, SchedulerCounts
<1> QED BY <1>1, <1>2 DEF InitiateConnect

LEMMA RedialCounts ==
  ASSUME DriverInv, FlightInv, DisconnectedPeer \/ FailedPeer
  PROVE  CountsSoundly
<1> USE DriverParts
<1>1. /\ pc \in Spots /\ outbound' = outbound
      /\ peer \in [Slots -> PeerConnection]
      /\ retry_queue \in Seq(Update) /\ disconnects \in Seq(Update)
  BY DEF DisconnectedPeer, FailedPeer, Spots, TypeOK
<1>2. CASE DisconnectedPeer
  <2> DEFINE u == Head(disconnects)
             p == [peer[u.slot] EXCEPT !.state = "DISCONNECTED", !.failures = @ + 1]
  <2>1. disconnects # <<>>
    BY <1>2 DEF DisconnectedPeer
  <2>2. /\ u.slot \in Slots /\ u \in Elements(disconnects)
        /\ IsCurrent(u) => u = UpdateOf(u.slot)
    BY <1>1, <2>1, CurrentHead
  <2>3. CASE ~IsCurrent(u)
    <3>1. UNCHANGED <<peer, inbound, pc>>
      BY <1>2, <2>3 DEF DisconnectedPeer, pool
    <3> QED BY <1>1, <3>1, SchedulerCounts
  <2>4. CASE IsCurrent(u)
    <3>1. IF p.source = "tcp_server" THEN DeletePeer(u.slot, p) /\ UNCHANGED <<inbound, pc>>
          ELSE InitiateConnect(u.slot, p)
      BY <1>2, <2>4 DEF DisconnectedPeer
    <3>2. p \in PeerConnection
      BY <1>1, <2>2, FailureCounted
    <3>3. p.key = peer[u.slot].key /\ p.source = peer[u.slot].source
      BY <1>1, <2>2 DEF PeerConnection
    <3>4. Occupied(u.slot) /\ SlotSound(u.slot) /\ Timers(u.slot) = 0
      BY <2>2, <2>4, NamedDrives
    <3>5. p.source # "null" /\ peer[u.slot].io = "off"
      BY <3>3, <3>4 DEF SlotSound, Sound, Timers
    <3>6. p.source # "tcp_server" => p.source = "tracker"
      BY <3>2, <3>5 DEF PeerConnection
    <3> HIDE DEF p, u
    <3> QED BY <1>1, <2>2, <3>1, <3>2, <3>3, <3>5, <3>6, ConnectCounts
  <2> QED BY <2>3, <2>4
<1>3. CASE FailedPeer
  <2> DEFINE u == Head(retry_queue)
  <2>1. retry_queue # <<>>
    BY <1>3 DEF FailedPeer
  <2>2. /\ u.slot \in Slots /\ u \in Elements(retry_queue)
        /\ IsCurrent(u) => u = UpdateOf(u.slot)
    BY <1>1, <2>1, CurrentHead
  <2>3. CASE ~IsCurrent(u)
    <3>1. UNCHANGED <<peer, inbound, pc>>
      BY <1>3, <2>3 DEF FailedPeer, pool
    <3> QED BY <1>1, <3>1, SchedulerCounts
  <2>4. CASE IsCurrent(u)
    <3>1. InitiateConnect(u.slot, peer[u.slot])
      BY <1>3, <2>4 DEF FailedPeer
    <3>2. /\ Occupied(u.slot) /\ Retries(u.slot) = 1 /\ SlotSound(u.slot)
          /\ Timers(u.slot) = 0
      BY <2>2, <2>4, NamedDrives
    <3>3. /\ peer[u.slot].source = "tracker" /\ peer[u.slot] \in PeerConnection
          /\ peer[u.slot].io = "off"
      BY <1>1, <2>2, <3>2 DEF SlotSound, Driven, Sound, Timers
    <3> HIDE DEF u
    <3> QED BY <1>1, <2>2, <3>1, <3>3, ConnectCounts
  <2> QED BY <2>3, <2>4
<1> QED BY <1>2, <1>3

\* An accepted connection is one more in flight, or takes the place of the
\* connection it evicts; a dial is evicted only where the two sets meet.
LEMMA AcceptCounts ==
  ASSUME NativeV6 = {}, DriverInv, FlightInv, NEW s \in Slots, NEW a \in Dialing,
         AcceptUnique(s, a) \/ AcceptEvicting(s, a)
  PROVE  CountsSoundly
<1> USE DriverParts
<1>1. /\ peer \in [Slots -> PeerConnection] /\ peer[s] \in PeerConnection
      /\ pc = "accept" /\ pc' = pc /\ outbound < MaxOutbound
  BY DEF TypeOK, AcceptUnique, AcceptEvicting, MayAccept
<1>2. /\ a \in Endpoints /\ ~Occupied(s)
      /\ registry[a] # NoSlot => registry[a] \in Slots \ {s} /\ peer[registry[a]].key = a
  BY AcceptSlots
<1>3. pc' \notin Spots
  BY <1>1 DEF Spots
<1> DEFINE q == Accepted(peer[s], a)
           A(source) == InFlight(source)
           B(source) == InFlight(source)'
<1>4. q.source = "tcp_server" /\ q.io = "READ"
  BY <1>1 DEF Accepted, Initialized, Armed, PeerConnection
<1>7. peer[s].io = "off"
  BY <1>2 DEF PoolInv, WatchersOccupied
<1>5. CASE AcceptUnique(s, a)
  <2>1. /\ peer' = [peer EXCEPT ![s] = q] /\ outbound' = Increment(outbound)
        /\ inbound' = inbound
    BY <1>5 DEF AcceptUnique
  <2> HIDE DEF q
  <2>2. /\ B("tcp_server") = A("tcp_server") \cup {s}
        /\ B("tracker") = A("tracker") \ {s}
    BY <1>4, <2>1, FlightOfOne
  <2>5. s \notin A("tcp_server") /\ s \notin A("tracker")
    BY <1>7, InFlightIs
  <2>3. \A t \in Slots : peer'[t].source = "tcp_server" \/ peer'[t] = peer[t]
    BY <1>1, <1>4, <2>1
  <2> HIDE DEF A, B
  <2>6. B("tracker") = A("tracker")
    BY <2>2, <2>5
  <2>4. /\ Counts(A("tcp_server"), B("tcp_server"), outbound, outbound', MaxOutbound, Lost)
        /\ Counts(A("tracker"), B("tracker"), inbound, inbound', MaxInbound, Lost)
    BY <1>1, <2>1, <2>6, <2>2, <2>5 DEF Counts
  <2> QED BY <1>3, <2>3, <2>4 DEF CountsSoundly, A, B
<1>6. CASE AcceptEvicting(s, a)
  <2>1. registry[a] # NoSlot
    BY <1>6 DEF AcceptEvicting
  <2>2. PICK old \in Slots : old = registry[a] /\ old # s /\ peer[old].key = a
    BY <1>2, <2>1
  <2> DEFINE inFlight == peer[old].state # "CONNECTED"
             p == Evicted(peer[old])
  <2>3. /\ peer' = [[peer EXCEPT ![old] = Torn(p)] EXCEPT ![s] = Accepted(@, a)]
        /\ outbound' = IF inFlight /\ p.source = "tcp_server"
                       THEN Decrement(Increment(outbound)) ELSE Increment(outbound)
        /\ IF inFlight /\ p.source # "tcp_server" THEN inbound' = Decrement(inbound)
           ELSE inbound' = inbound
    BY <1>6, <2>1, <2>2 DEF AcceptEvicting
  <2>4. p.source = peer[old].source /\ Torn(p).io = "off" /\ Torn(p).key = NoKey
    BY <1>1 DEF Evicted, Closed, Torn, PeerConnection
  <2>5. Occupied(old) /\ SlotSound(old)
    BY <1>2, <2>2, NullAssumption DEF Occupied
  <2>6. Driven(old) /\ Sound(peer[old])
    BY <2>5 DEF SlotSound
  <2>7. peer[old].source = "tcp_server" => (old \in A("tcp_server") <=> inFlight)
    <3>1. ASSUME peer[old].source = "tcp_server", peer[old].state # "CONNECTED"
          PROVE  peer[old].io # "off"
      <4>1. peer[old].state # "FAILED"
        BY <2>6, <3>1 DEF Sound
      <4>2. Retries(old) \in Nat /\ Handed(old) \in Nat
        BY CountsTyped
      <4>3. Retries(old) = 0 /\ Handed(old) # 1
        BY <2>6, <3>1, <4>1, <4>2 DEF Driven
      <4>4. peer[old].timer
        BY <2>6, <4>2, <4>3 DEF Driven, Timers
      <4> QED BY <2>6, <4>1, <4>4 DEF Sound
    <3>2. peer[old].state = "CONNECTED" => peer[old].io = "off"
      BY <2>5, WatchedTimed
    <3> QED BY <3>1, <3>2 DEF InFlight
  <2>8. Discoverable \cap Dialing = {} => peer[old].source = "tcp_server"
    <3>1. peer[old].source = "tracker" => a \in Discoverable
      BY <2>2, <2>5 DEF FlightInv
    <3>2. peer[old].source \in {"tracker", "tcp_server"}
      BY <1>1, <2>6 DEF Sound, PeerConnection
    <3> QED BY <3>1, <3>2
  <2> HIDE DEF p
  <2>9. /\ peer'[old] = Torn(p) /\ peer'[s] = q
        /\ \A t \in Slots : t # s /\ t # old => peer'[t] = peer[t]
    BY <1>1, <2>2, <2>3
  <2> HIDE DEF q
  <2>10. /\ B("tcp_server") = (A("tcp_server") \ {old}) \cup {s}
         /\ B("tracker") = A("tracker") \ {old}
         /\ s \notin A("tcp_server")
    BY <1>4, <1>7, <2>2, <2>4, <2>9 DEF InFlight
  <2>11. \A t \in Slots :
           peer'[t].key = NoKey \/ peer'[t].source = "tcp_server" \/ peer'[t] = peer[t]
    BY <1>4, <2>4, <2>9
  <2>14. old \in A("tcp_server") => peer[old].source = "tcp_server"
    BY DEF InFlight
  <2>15. peer[old].source = "tcp_server" => old \notin A("tracker")
    BY DEF InFlight
  <2> HIDE DEF A, B, inFlight
  <2>12. Counts(A("tcp_server"), B("tcp_server"), outbound, outbound', MaxOutbound, Lost)
    <3>1. CASE inFlight /\ p.source = "tcp_server"
      <4>1. old \in A("tcp_server") /\ outbound' = Decrement(Increment(outbound))
        BY <2>3, <2>4, <2>7, <3>1
      <4> QED BY <1>1, <2>10, <4>1 DEF Counts
    <3>2. CASE ~(inFlight /\ p.source = "tcp_server")
      <4>1. B("tcp_server") = A("tcp_server") \cup {s}
        BY <2>4, <2>7, <2>10, <2>14, <3>2
      <4>2. outbound' = Increment(outbound)
        BY <2>3, <3>2
      <4> QED BY <1>1, <2>10, <4>1, <4>2 DEF Counts
    <3> QED BY <3>1, <3>2
  <2>13. Discoverable \cap Dialing = {} =>
           Counts(A("tracker"), B("tracker"), inbound, inbound', MaxInbound, Lost)
    <3>1. Discoverable \cap Dialing = {} =>
            inbound' = inbound /\ B("tracker") = A("tracker")
      BY <2>3, <2>4, <2>8, <2>10, <2>15
    <3> QED BY <3>1 DEF Counts
  <2> QED BY <1>3, <2>11, <2>12, <2>13 DEF CountsSoundly, A, B
<1> QED BY <1>5, <1>6

\* A handler is entered only with room for one more dial.
LEMMA StillCounts ==
  ASSUME FlightInv, UNCHANGED <<peer, inbound, outbound>>,
         pc' \in Spots => pc' = pc \/ inbound < MaxInbound
  PROVE  CountsSoundly
<1> DEFINE A(source) == InFlight(source)
           B(source) == InFlight(source)'
<1>1. \A source : B(source) = A(source)
  BY DEF InFlight
<1> HIDE DEF A, B
<1>2. /\ Counts(A("tcp_server"), B("tcp_server"), outbound, outbound', MaxOutbound, Lost)
      /\ Counts(A("tracker"), B("tracker"), inbound, inbound', MaxInbound, Lost)
  BY <1>1 DEF Counts
<1> QED BY <1>2 DEF CountsSoundly, FlightInv, A, B

LEMMA StepCounts ==
  ASSUME NativeV6 = {}, DriverInv, FlightInv, [Next]_vars
  PROVE  CountsSoundly
<1>1. CASE \E s \in Slots : SocketCallback(s) \/ TimerCallback(s)
  BY <1>1, CallbackCounts
<1>2. CASE DiscoveredPeer
  BY <1>2, DiscoveredCounts
<1>3. CASE DisconnectedPeer \/ FailedPeer
  BY <1>3, RedialCounts
<1>4. CASE \E s \in Slots, a \in Dialing : AcceptUnique(s, a) \/ AcceptEvicting(s, a)
  BY <1>4, AcceptCounts
<1>5. CASE \/ DaemonSignalled \/ RoundBegins \/ NothingLeft \/ ServerReadable
           \/ AcceptEnds \/ DrainDiscovered \/ NotifyDisconnected
           \/ OtherThreads \/ UNCHANGED vars
  <2>1. UNCHANGED <<peer, inbound, outbound>>
    BY <1>5 DEF DaemonSignalled, RoundBegins, NothingLeft, ServerReadable,
       AcceptEnds, DrainDiscovered, NotifyDisconnected, OtherThreads,
       TrackerReports, SessionBegins, SessionEnds, vars, pool, counters
  <2>2. pc' \in Spots => pc' = pc \/ inbound < MaxInbound
    <3>1. CASE RoundBegins
      <4>1. \/ pc' = "loop" \/ HandlerReturns(FALSE)
            \/ ~(inbound >= MaxInbound)
        BY <3>1 DEF RoundBegins
      <4>2. inbound \in Nat /\ MaxInbound \in Nat
        BY DriverParts, LimitAssumption DEF TypeOK
      <4>3. HandlerReturns(FALSE) => pc' \in {"loop", "round"}
        BY HandlerLeaves
      <4>4. CASE pc' = "loop" \/ HandlerReturns(FALSE)
        BY <4>3, <4>4 DEF Spots
      <4>5. CASE ~(inbound >= MaxInbound)
        BY <4>2, <4>5
      <4> QED BY <4>1, <4>4, <4>5
    <3>2. CASE NothingLeft
      BY <3>2, HandlerLeaves DEF NothingLeft, Spots
    <3>3. CASE \/ DaemonSignalled \/ ServerReadable \/ AcceptEnds
               \/ DrainDiscovered \/ NotifyDisconnected \/ OtherThreads \/ UNCHANGED vars
      BY <3>3 DEF DaemonSignalled, ServerReadable, AcceptEnds, DrainDiscovered,
         NotifyDisconnected, OtherThreads, TrackerReports, SessionBegins, SessionEnds,
         vars, Spots
    <3> QED BY <1>5, <3>1, <3>2, <3>3
  <2> QED BY <2>1, <2>2, StillCounts
<1> QED
  BY <1>1, <1>2, <1>3, <1>4, <1>5 DEF Next, Manager, Scheduling, Accepting

LEMMA FlightStep ==
  ASSUME NativeV6 = {}, DriverInv, FlightInv, [Next]_vars
  PROVE  FlightInv'
BY StepCounts, FlightInvStays, DriverParts

LEMMA FlightInit ==
  ASSUME InitialCount \subseteq 0 .. MaxInbound, InitialCount \subseteq 0 .. MaxOutbound, Init
  PROVE  FlightInv
<1>1. \A source : InFlight(source) = {}
  BY DEF Init, InFlight
<1>2. inbound \in 0 .. MaxInbound /\ outbound \in 0 .. MaxOutbound
  BY DEF Init
<1>3. IsFiniteSet({}) /\ Cardinality({}) = 0
  BY FS_EmptySet
<1>4. /\ Flights(InFlight("tcp_server"), outbound, MaxOutbound)
      /\ Flights(InFlight("tracker"), inbound, MaxInbound)
  BY <1>1, <1>2, <1>3, LimitAssumption DEF Flights
<1>5. pc \notin Spots /\ \A s \in Slots : ~Occupied(s)
  BY DEF Init, Spots, Occupied
<1> QED BY <1>4, <1>5 DEF FlightInv

\* No statistic starts above any of the limits: what is assumed of the first
\* values, which the code does not set.
CountsStartWithin(limits) == \A max \in limits : InitialCount \subseteq 0 .. max

LEMMA FlightForever ==
  ASSUME NativeV6 = {}, CountsStartWithin({Healthy, MaxInbound, MaxOutbound})
  PROVE  Spec => []FlightInv
<1>1. /\ InitialCount \subseteq 0 .. Healthy /\ InitialCount \subseteq 0 .. MaxInbound
      /\ InitialCount \subseteq 0 .. MaxOutbound
  BY DEF CountsStartWithin
<1>2. Spec => []DriverInv
  BY <1>1, DriverForever
<1>3. Init => FlightInv
  BY <1>1, FlightInit
<1>4. DriverInv /\ FlightInv /\ [Next]_vars => FlightInv'
  BY FlightStep
<1> QED BY <1>2, <1>3, <1>4, PTL DEF Spec

\* Accepted connections in flight are all counted and within their limit: the
\* eviction of one and the acceptance of its successor leave the count right.
THEOREM AcceptedWithinLimit ==
  ASSUME NativeV6 = {}, CountsStartWithin({Healthy, MaxInbound, MaxOutbound})
  PROVE  Spec => []OutboundBounded
<1>1. FlightInv => OutboundBounded
  BY DEF FlightInv, Flights, OutboundBounded
<1> QED BY <1>1, FlightForever, PTL

\* Dials in flight are all counted and within their limit, when no endpoint is
\* both discovered and dials in: no path resolves one dial twice.
THEOREM DialsWithinLimit ==
  ASSUME NativeV6 = {}, CountsStartWithin({Healthy, MaxInbound, MaxOutbound}),
         Discoverable \cap Dialing = {}
  PROVE  Spec => []InboundBounded
<1>1. FlightInv => InboundBounded
  BY DEF FlightInv, Flights, InboundBounded
<1> QED BY <1>1, FlightForever, PTL

\* Both at once: the scheduler dials and the accept loop accepts within their
\* limits, and no peer in flight is missing from its count
\* (round_robin_establisher_scheduler, server_socket_callback).
THEOREM InFlightWithinLimits ==
  ASSUME NativeV6 = {}, CountsStartWithin({Healthy, MaxInbound, MaxOutbound}),
         Discoverable \cap Dialing = {}
  PROVE  Spec => []InFlightBounded
<1>1. OutboundBounded /\ InboundBounded => InFlightBounded
  BY DEF InFlightBounded
<1> QED BY <1>1, AcceptedWithinLimit, DialsWithinLimit, PTL

\* Every spot of the in-flight limits is given back once, but for the three
\* cases that lose one: with the two limits, how far the manager can be from
\* the dials and the handshakes it is allowed.  Under the same assumption as the
\* limit of the dials.
THEOREM SpotsComeBack ==
  ASSUME NativeV6 = {}, CountsStartWithin({Healthy, MaxInbound, MaxOutbound}),
         Discoverable \cap Dialing = {}
  PROVE  Spec => SpotsAreReturned
<1> DEFINE Returned(source) ==
      \/ Leaked(source)' = Leaked(source)
      \/ /\ \E s \in InFlight(source) : LeavesUncounted(s)
         /\ Leaked(source)' = Leaked(source) + 1
<1>1. ASSUME DriverInv, FlightInv, [Next]_vars
      PROVE  Returned("tcp_server") /\ Returned("tracker")
  <2>1. TypeOK /\ CountsSoundly
    BY <1>1, StepCounts, DriverParts
  <2>2. /\ inbound \in Nat /\ outbound \in Nat /\ MaxInbound \in Nat /\ MaxOutbound \in Nat
        /\ MaxInbound < SizeMax /\ MaxOutbound < SizeMax
    BY <2>1, LimitAssumption, CountAssumption DEF TypeOK
  <2>3. \A source : InFlight(source) \cap Lost # {} =>
                      \E s \in InFlight(source) : LeavesUncounted(s)
    BY DEF Lost
  <2>4. Returned("tcp_server")
    <3> DEFINE A == InFlight("tcp_server")  B == InFlight("tcp_server")'
    <3>1. \/ outbound' - Cardinality(B) = outbound - Cardinality(A)
          \/ /\ A \cap Lost # {}
             /\ outbound' - Cardinality(B) = (outbound - Cardinality(A)) + 1
      <4>1. Flights(A, outbound, MaxOutbound) /\ Counts(A, B, outbound, outbound', MaxOutbound, Lost)
        BY <1>1, <2>1 DEF FlightInv, CountsSoundly
      <4> HIDE DEF A, B
      <4> QED BY <2>2, <4>1, FlightsStay
    <3>2. /\ Leaked("tcp_server") = outbound - Cardinality(A)
          /\ Leaked("tcp_server")' = outbound' - Cardinality(B)
      BY DEF Leaked
    <3> QED BY <2>3, <3>1, <3>2
  <2>5. Returned("tracker")
    <3> DEFINE A == InFlight("tracker")  B == InFlight("tracker")'
    <3>1. \/ inbound' - Cardinality(B) = inbound - Cardinality(A)
          \/ /\ A \cap Lost # {}
             /\ inbound' - Cardinality(B) = (inbound - Cardinality(A)) + 1
      <4>1. Flights(A, inbound, MaxInbound) /\ Counts(A, B, inbound, inbound', MaxInbound, Lost)
        BY <1>1, <2>1 DEF FlightInv, CountsSoundly
      <4> HIDE DEF A, B
      <4> QED BY <2>2, <4>1, FlightsStay
    <3>2. /\ Leaked("tracker") = inbound - Cardinality(A)
          /\ Leaked("tracker")' = inbound' - Cardinality(B)
      BY DEF Leaked
    <3> QED BY <2>3, <3>1, <3>2
  <2> QED BY <2>4, <2>5
<1>2. DriverInv /\ FlightInv /\ [Next]_vars =>
        [\A source \in {"tracker", "tcp_server"} : Returned(source)]_vars
  <2> HIDE DEF Returned
  <2> QED BY <1>1
<1>3. Spec => []DriverInv /\ []FlightInv
  <2>1. InitialCount \subseteq 0 .. Healthy
    BY DEF CountsStartWithin
  <2> QED BY <2>1, DriverForever, FlightForever
<1> QED BY <1>2, <1>3, PTL DEF Spec, SpotsAreReturned

----------------------------------------------------------------------------
(* The manager implements the life cycle of PeerLifecycle, for a finite    *)
(* pool.                                                                   *)

PeerStatus(p) ==
  CASE p.state = "CONNECTED" -> "connected"
    [] p.state = "HANDSHAKE" -> "shaking"
    [] p.state \notin {"CONNECTED", "HANDSHAKE"} /\ p.io # "off" -> "dialing"
    [] OTHER -> "waiting"

LEMMA PeerStatuses ==
  ASSUME NEW p
  PROVE  /\ p.state = "CONNECTED" => PeerStatus(p) = "connected"
         /\ p.state = "HANDSHAKE" => PeerStatus(p) = "shaking"
         /\ p.state \notin {"CONNECTED", "HANDSHAKE"} /\ p.io # "off" =>
              PeerStatus(p) = "dialing"
         /\ p.state \notin {"CONNECTED", "HANDSHAKE"} /\ p.io = "off" =>
              PeerStatus(p) = "waiting"
         /\ PeerStatus(p) # "unknown"
BY DEF PeerStatus

LEMMA StatusIs ==
  ASSUME NEW a
  PROVE  StatusOf(a) = IF registry[a] = NoSlot THEN "unknown" ELSE PeerStatus(peer[registry[a]])
BY DEF StatusOf, PeerStatus

\* A registered endpoint and its slot name each other.
LEMMA Registered ==
  ASSUME PoolInv
  PROVE  /\ \A a \in Endpoints : registry[a] # NoSlot =>
              registry[a] \in Slots /\ peer[registry[a]].key = a
         /\ \A s \in Slots : Occupied(s) =>
              /\ peer[s].key \in Endpoints /\ registry[peer[s].key] = s
              /\ StatusOf(peer[s].key) = PeerStatus(peer[s])
<1>1. /\ registry \in [Endpoints -> Slots \cup {NoSlot}] /\ peer \in [Slots -> PeerConnection]
      /\ RegistryMatchesPool
  BY DEF PoolInv, TypeOK
<1>2. \A a \in Endpoints : registry[a] # NoSlot =>
              registry[a] \in Slots /\ peer[registry[a]].key = a
  BY <1>1 DEF RegistryMatchesPool
<1>3. ASSUME NEW s \in Slots, Occupied(s)
      PROVE  /\ peer[s].key \in Endpoints /\ registry[peer[s].key] = s
             /\ StatusOf(peer[s].key) = PeerStatus(peer[s])
  <2>1. peer[s].key \in Endpoints
    BY <1>1, <1>3 DEF Occupied, PeerConnection
  <2>2. registry[peer[s].key] = s /\ s # NoSlot
    BY <1>1, <1>3, NullAssumption DEF RegistryMatchesPool
  <2> QED BY <2>1, <2>2, StatusIs
<1> QED BY <1>2, <1>3

\* PeerLifecycle counts with its own instance of FiniteSets.
LEMMA SameCardinality == \A S : Lifecycle!Cardinality(S) = Cardinality(S)
<1>1. \A S : Lifecycle!IsFiniteSet(S) <=> IsFiniteSet(S)
  BY Zenon DEF Lifecycle!IsFiniteSet, IsFiniteSet
<1> QED BY <1>1, Zenon DEF Lifecycle!Cardinality, Cardinality

\* With a free slot fewer endpoints are known than there are slots.
LEMMA KnownFewer ==
  ASSUME PoolInv, IsFiniteSet(Slots), NEW s \in Slots, ~Occupied(s)
  PROVE  Cardinality(Lifecycle!Known) < Cardinality(Slots)
<1> DEFINE K == Lifecycle!Known
           R == Slots \ {s}
           f == [a \in K |-> registry[a]]
<1>1. \A a \in K : a \in Endpoints /\ registry[a] # NoSlot
  BY StatusIs DEF Lifecycle!Known
<1>2. \A a \in K : registry[a] \in R /\ peer[registry[a]].key = a
  <2>1. ASSUME NEW a \in K
        PROVE  registry[a] \in R /\ peer[registry[a]].key = a
    <3>1. a \in Endpoints /\ registry[a] \in Slots /\ peer[registry[a]].key = a
      BY <1>1, Registered
    <3>2. a # NoKey
      BY <3>1, NullAssumption
    <3> QED BY <3>1, <3>2 DEF Occupied
  <2> QED BY <2>1
<1>3. IsFiniteSet(R) /\ Cardinality(R) = Cardinality(Slots) - 1
      /\ Cardinality(Slots) \in Nat /\ Cardinality(R) \in Nat
  BY FS_RemoveElement, FS_CardinalityType
<1> HIDE DEF K, R
<1>4. f \in Injection(K, R)
  <2>1. f \in [K -> R] /\ \A a \in K : f[a] = registry[a]
    BY <1>2
  <2>2. \A a, b \in K : f[a] = f[b] => a = b
    BY <1>2, <2>1
  <2> HIDE DEF f
  <2> QED BY <2>1, <2>2, Fun_IsInj
<1>5. IsFiniteSet(K) /\ Cardinality(K) <= Cardinality(R)
  BY <1>3, <1>4, FS_Injection DEF ExistsInjection
<1>6. Cardinality(K) \in Nat
  BY <1>5, FS_CardinalityType
<1>7. Cardinality(K) < Cardinality(Slots)
  BY <1>3, <1>5, <1>6
<1> QED BY <1>7 DEF K

\* One endpoint's status changes.
LEMMA OneBecomes ==
  ASSUME NEW b \in Endpoints, NEW new,
         \A a \in Endpoints : a # b => StatusOf(a)' = StatusOf(a), StatusOf(b)' = new
  PROVE  Lifecycle!Becomes(b, new)
BY DEF Lifecycle!Becomes

\* The peer of s becomes p and keeps its endpoint b, or is deleted.
LEMMA PeerBecomes ==
  ASSUME PoolInv, NEW s \in Slots, NEW b \in Endpoints, registry[b] = s, NEW p
  PROVE  /\ SetPeer(s, p) => Lifecycle!Becomes(b, PeerStatus(p))
         /\ DeletePeer(s, p) /\ p.key = b => Lifecycle!Becomes(b, "unknown")
<1>1. /\ s # NoSlot /\ b # NoKey
      /\ peer \in [Slots -> PeerConnection] /\ registry \in [Endpoints -> Slots \cup {NoSlot}]
  BY NullAssumption DEF PoolInv, TypeOK
<1>2. ASSUME NEW a \in Endpoints, a # b
      PROVE  registry[a] # s
  <2>1. ASSUME registry[a] = s
        PROVE  peer[s].key = a /\ peer[s].key = b
    BY <1>1, <2>1, Registered
  <2> QED BY <1>2, <2>1
<1>3. ASSUME NEW a \in Endpoints, a # b, registry'[a] = registry[a],
             \A t \in Slots : t # s => peer'[t] = peer[t]
      PROVE  StatusOf(a)' = StatusOf(a)
  <2>1. registry[a] # NoSlot => peer'[registry[a]] = peer[registry[a]]
    BY <1>1, <1>2, <1>3
  <2> QED BY <1>3, <2>1 DEF StatusOf
<1>4. ASSUME SetPeer(s, p)
      PROVE  Lifecycle!Becomes(b, PeerStatus(p))
  <2>1. registry' = registry /\ peer'[s] = p /\ \A t \in Slots : t # s => peer'[t] = peer[t]
    BY <1>1, <1>4 DEF SetPeer
  <2>2. \A a \in Endpoints : a # b => StatusOf(a)' = StatusOf(a)
    BY <1>3, <2>1
  <2>3. StatusOf(b)' = PeerStatus(p)
    BY <1>1, <2>1 DEF StatusOf, PeerStatus
  <2> QED BY <2>2, <2>3, OneBecomes
<1>5. ASSUME DeletePeer(s, p), p.key = b
      PROVE  Lifecycle!Becomes(b, "unknown")
  <2>1. registry' = [registry EXCEPT ![b] = NoSlot]
        /\ \A t \in Slots : t # s => peer'[t] = peer[t]
    BY <1>1, <1>5 DEF DeletePeer, Deregister
  <2>2. ASSUME NEW a \in Endpoints, a # b
        PROVE  StatusOf(a)' = StatusOf(a)
    <3>1. registry'[a] = registry[a]
      BY <1>1, <2>1, <2>2
    <3> QED BY <1>3, <2>1, <2>2, <3>1
  <2>3. StatusOf(b)' = "unknown"
    BY <1>1, <2>1 DEF StatusOf
  <2> QED BY <2>2, <2>3, OneBecomes
<1> QED BY <1>4, <1>5

\* Free slots are nobody's.
LEMMA StatusesStay ==
  ASSUME PoolInv, UNCHANGED registry,
         \A t \in Slots : Occupied(t) => peer'[t] = peer[t]
  PROVE  UNCHANGED [a \in Endpoints |-> StatusOf(a)]
<1>1. ASSUME NEW a \in Endpoints
      PROVE  StatusOf(a)' = StatusOf(a)
  <2>1. ASSUME registry[a] # NoSlot
        PROVE  peer'[registry[a]] = peer[registry[a]]
    <3>1. registry[a] \in Slots /\ peer[registry[a]].key = a
      BY <2>1, Registered
    <3> QED BY <3>1, NullAssumption DEF Occupied
  <2> QED BY <2>1 DEF StatusOf
<1> QED BY <1>1

\* An endpoint is registered for a slot that was free.
LEMMA NewcomerBecomes ==
  ASSUME PoolInv, NEW s \in Slots, NEW a \in Endpoints, ~Occupied(s),
         registry' = [registry EXCEPT ![a] = s],
         \A t \in Slots : t # s /\ peer[t].key # a => peer'[t] = peer[t]
  PROVE  Lifecycle!Becomes(a, PeerStatus(peer'[s]))
<1>1. registry \in [Endpoints -> Slots \cup {NoSlot}] /\ s # NoSlot
  BY NullAssumption DEF PoolInv, TypeOK
<1>2. ASSUME NEW b \in Endpoints, b # a
      PROVE  StatusOf(b)' = StatusOf(b)
  <2>1. registry'[b] = registry[b]
    BY <1>1, <1>2
  <2>2. ASSUME registry[b] # NoSlot
        PROVE  peer'[registry[b]] = peer[registry[b]]
    <3>1. registry[b] \in Slots /\ peer[registry[b]].key = b
      BY <2>2, Registered
    <3> QED BY <1>2, <3>1, NullAssumption DEF Occupied
  <2> QED BY <2>1, <2>2 DEF StatusOf
<1>3. StatusOf(a)' = PeerStatus(peer'[s])
  BY <1>1 DEF StatusOf, PeerStatus
<1> QED BY <1>2, <1>3, OneBecomes


LifecycleStep ==
  Lifecycle!LifecycleNext \/ UNCHANGED [a \in Endpoints |-> StatusOf(a)]

\* The moves of one endpoint b from its status.
LEMMA EndpointMoves ==
  ASSUME NEW b \in Endpoints, NEW new, Lifecycle!Becomes(b, new),
         \/ new = StatusOf(b)
         \/ new = "unknown" /\ StatusOf(b) # "unknown"
         \/ new = "shaking" /\ StatusOf(b) = "dialing"
         \/ new = "connected" /\ StatusOf(b) = "shaking"
         \/ new = "waiting" /\ StatusOf(b) \in {"dialing", "shaking"} /\ b \in Discoverable
         \/ new \in {"dialing", "shaking"} /\ StatusOf(b) = "waiting" /\ b \in Discoverable
         \/ /\ new \in {"dialing", "shaking"} /\ StatusOf(b) = "unknown" /\ b \in Discoverable
            /\ Cardinality(Lifecycle!Known) < Cardinality(Slots)
         \/ /\ new = "shaking" /\ b \in Dialing
            /\ Cardinality(Lifecycle!Known) < Cardinality(Slots)
  PROVE  LifecycleStep
<1>1. CASE new = StatusOf(b)
  BY <1>1 DEF Lifecycle!Becomes, LifecycleStep
<1>2. CASE new = "unknown" /\ StatusOf(b) # "unknown"
  BY <1>2 DEF Lifecycle!Forget, Lifecycle!LifecycleNext, LifecycleStep
<1>3. CASE new = "shaking" /\ StatusOf(b) = "dialing"
  BY <1>3 DEF Lifecycle!Established, Lifecycle!LifecycleNext, LifecycleStep
<1>4. CASE new = "connected" /\ StatusOf(b) = "shaking"
  BY <1>4 DEF Lifecycle!Connected, Lifecycle!LifecycleNext, LifecycleStep
<1>5. CASE new = "waiting" /\ StatusOf(b) \in {"dialing", "shaking"} /\ b \in Discoverable
  BY <1>5 DEF Lifecycle!Fail, Lifecycle!LifecycleNext, LifecycleStep
<1>6. CASE /\ new \in {"dialing", "shaking"} /\ b \in Discoverable
           /\ \/ StatusOf(b) = "waiting"
              \/ /\ StatusOf(b) = "unknown"
                 /\ Cardinality(Lifecycle!Known) < Cardinality(Slots)
  <2>1. Lifecycle!Becomes(b, "dialing") \/ Lifecycle!Becomes(b, "shaking")
    BY <1>6
  <2>2. Lifecycle!Dial(b)
    BY <1>6, <2>1, SameCardinality DEF Lifecycle!Dial
  <2> QED BY <2>2 DEF Lifecycle!LifecycleNext, LifecycleStep
<1>7. CASE /\ new = "shaking" /\ b \in Dialing
           /\ Cardinality(Lifecycle!Known) < Cardinality(Slots)
  <2>1. Lifecycle!Accept(b)
    BY <1>7, SameCardinality DEF Lifecycle!Accept
  <2> QED BY <2>1 DEF Lifecycle!LifecycleNext, LifecycleStep
<1> QED BY <1>1, <1>2, <1>3, <1>4, <1>5, <1>6, <1>7

\* How the peer of a slot may change while it keeps its slot.
Progresses(s, p) ==
  \/ PeerStatus(p) = PeerStatus(peer[s])
  \/ PeerStatus(peer[s]) = "dialing" /\ PeerStatus(p) = "shaking"
  \/ PeerStatus(peer[s]) = "shaking" /\ PeerStatus(p) = "connected"
  \/ /\ peer[s].source = "tracker"
     /\ \/ /\ PeerStatus(peer[s]) \in {"dialing", "shaking"}
           /\ PeerStatus(p) = "waiting"
        \/ /\ PeerStatus(peer[s]) = "waiting"
           /\ PeerStatus(p) \in {"dialing", "shaking"}

\* The moves of the peer in an occupied slot.
LEMMA PeerMoves ==
  ASSUME PoolInv, FlightInv, NEW s \in Slots, Occupied(s), NEW p,
         \/ DeletePeer(s, p) /\ p.key = peer[s].key
         \/ SetPeer(s, p) /\ Progresses(s, p)
  PROVE  LifecycleStep
<1>1. PICK b \in Endpoints :
        b = peer[s].key /\ registry[b] = s /\ StatusOf(b) = PeerStatus(peer[s])
  BY Registered
<1>2. peer[s].source = "tracker" => b \in Discoverable
  BY <1>1 DEF FlightInv
<1>3. CASE DeletePeer(s, p) /\ p.key = peer[s].key
  <2>1. Lifecycle!Becomes(b, "unknown") /\ StatusOf(b) # "unknown"
    BY <1>1, <1>3, PeerBecomes, PeerStatuses
  <2> QED BY <2>1, EndpointMoves
<1>4. CASE SetPeer(s, p) /\ Progresses(s, p)
  <2>1. Lifecycle!Becomes(b, PeerStatus(p))
    BY <1>1, <1>4, PeerBecomes
  <2>2. PeerStatus(peer[s]) # "unknown"
    BY PeerStatuses
  <2>3. \/ PeerStatus(p) = StatusOf(b)
        \/ PeerStatus(p) = "unknown" /\ StatusOf(b) # "unknown"
        \/ PeerStatus(p) = "shaking" /\ StatusOf(b) = "dialing"
        \/ PeerStatus(p) = "connected" /\ StatusOf(b) = "shaking"
        \/ /\ PeerStatus(p) = "waiting" /\ StatusOf(b) \in {"dialing", "shaking"}
           /\ b \in Discoverable
        \/ /\ PeerStatus(p) \in {"dialing", "shaking"} /\ StatusOf(b) = "waiting"
           /\ b \in Discoverable
    BY <1>1, <1>2, <1>4, <2>2 DEF Progresses
  <2> QED BY <2>1, <2>3, EndpointMoves
<1> QED BY <1>3, <1>4

\* The peer of an armed socket or timer is being dialled or shakes hands.
LEMMA InFlightStatus ==
  ASSUME PoolInv, NEW s \in Slots, SlotSound(s), peer[s].io # "off"
  PROVE  /\ Occupied(s)
         /\ PeerStatus(peer[s]) = IF peer[s].state = "HANDSHAKE" THEN "shaking" ELSE "dialing"
<1>1. Occupied(s) /\ peer[s].state # "CONNECTED"
  BY WatchedTimed
<1> QED BY <1>1, PeerStatuses

LEMMA FailureMoves ==
  ASSUME DriverInv, FlightInv, NEW s \in Slots, peer[s].io # "off", HandlePeerFailure(s)
  PROVE  LifecycleStep
<1> USE DriverParts
<1> DEFINE p == [Closed(peer[s]) EXCEPT !.state = "FAILED", !.failures = @ + 1]
<1>1. peer[s] \in PeerConnection /\ Occupied(s) /\ Sound(peer[s])
      /\ PeerStatus(peer[s]) \in {"dialing", "shaking"}
  BY InFlightStatus, WatchedTimed DEF TypeOK
<1>2. IF GivesUp(p) THEN DeletePeer(s, p) ELSE SetPeer(s, Waiting(p))
  BY DEF HandlePeerFailure
<1>3. p.key = peer[s].key /\ p.source = peer[s].source
      /\ Waiting(p).state = "FAILED" /\ Waiting(p).io = "off"
  BY <1>1 DEF Closed, Waiting, PeerConnection
<1> HIDE DEF p
<1>4. CASE GivesUp(p)
  BY <1>1, <1>2, <1>3, <1>4, PeerMoves
<1>5. CASE ~GivesUp(p)
  <2>1. peer[s].source = "tracker"
    BY <1>1, <1>3, <1>5 DEF GivesUp, Sound, PeerConnection
  <2>2. PeerStatus(Waiting(p)) = "waiting"
    BY <1>3, PeerStatuses
  <2>3. SetPeer(s, Waiting(p))
    BY <1>2, <1>5
  <2> QED BY <1>1, <2>1, <2>2, <2>3, PeerMoves DEF Progresses
<1> QED BY <1>4, <1>5

LEMMA DispatchMoves ==
  ASSUME DriverInv, FlightInv, NEW s \in Slots, peer[s].io # "off",
         peer[s].state = "HANDSHAKE", NEW p \in PeerConnection, Dispatch(s, p)
  PROVE  LifecycleStep
<1> DEFINE q == [Stopped(p) EXCEPT !.state = "CONNECTED", !.sock = "handed"]
<1>1. SetPeer(s, q)
  BY DEF Dispatch
<1>2. q.state = "CONNECTED"
  BY DEF Stopped, PeerConnection
<1> HIDE DEF q
<1>3. PeerStatus(q) = "connected"
  BY <1>2, PeerStatuses
<1>4. PoolInv /\ Occupied(s) /\ PeerStatus(peer[s]) = "shaking"
  BY DriverParts, InFlightStatus
<1> QED BY <1>1, <1>3, <1>4, PeerMoves DEF Progresses

\* A handshake goes on in the other direction.
LEMMA ShakingMoves ==
  ASSUME DriverInv, FlightInv, NEW s \in Slots, peer[s].io # "off",
         peer[s].state \notin {"CONNECTED"}, NEW p, p.state = "HANDSHAKE", SetPeer(s, p)
  PROVE  LifecycleStep
<1>1. PeerStatus(p) = "shaking"
  BY PeerStatuses
<1>2. PoolInv /\ Occupied(s) /\ PeerStatus(peer[s]) \in {"shaking", "dialing"}
  BY DriverParts, InFlightStatus
<1> QED BY <1>1, <1>2, PeerMoves DEF Progresses

LEMMA SocketMoves ==
  ASSUME DriverInv, FlightInv, NEW s \in Slots, SocketCallback(s)
  PROVE  LifecycleStep
<1> USE DriverParts
<1>1. peer[s].io # "off"
  BY DEF SocketCallback, QuotaDeletes, SocketError, TransportInitiation, HandshakeSent,
         HandshakeReceived, SocketReady
<1>2. peer[s] \in PeerConnection /\ Occupied(s)
  BY <1>1, InFlightStatus DEF TypeOK
<1>3. ASSUME NEW p, DeletePeer(s, p), p.key = peer[s].key
      PROVE  LifecycleStep
  BY <1>2, <1>3, PeerMoves
<1>4. CASE QuotaDeletes(s)
  BY <1>3, <1>4 DEF QuotaDeletes
<1>5. CASE SocketError(s)
  BY <1>1, <1>5, FailureMoves DEF SocketError
<1>6. CASE TransportInitiation(s)
  <2> DEFINE p == [peer[s] EXCEPT !.state = "HANDSHAKE", !.send = "sent", !.io = "READ"]
             q == [peer[s] EXCEPT !.state = "HANDSHAKE", !.send = "queued", !.io = "WRITE"]
  <2>1. p.state = "HANDSHAKE" /\ q.state = "HANDSHAKE"
    BY <1>2 DEF PeerConnection
  <2>2. /\ HandlePeerFailure(s) \/ SetPeer(s, p) \/ SetPeer(s, q)
        /\ peer[s].state # "CONNECTED"
    BY <1>6 DEF TransportInitiation
  <2> HIDE DEF p, q
  <2> QED BY <1>1, <2>1, <2>2, FailureMoves, ShakingMoves
<1>7. CASE HandshakeSent(s)
  <2> DEFINE p == [peer[s] EXCEPT !.send = IF @ = "queued" THEN "sent" ELSE @]
             q == [p EXCEPT !.io = "READ"]
  <2>1. p \in PeerConnection
    BY <1>2 DEF PeerConnection
  <2>2. peer[s].state = "HANDSHAKE" /\ q.state = "HANDSHAKE"
    BY <1>2, <1>7 DEF HandshakeSent, PeerConnection
  <2>3. HandlePeerFailure(s) \/ SetPeer(s, q) \/ Dispatch(s, p)
    BY <1>7, Zenon DEF HandshakeSent
  <2> HIDE DEF p, q
  <2> QED BY <1>1, <2>1, <2>2, <2>3, FailureMoves, DispatchMoves, ShakingMoves
<1>8. CASE HandshakeReceived(s)
  <2> DEFINE p == [peer[s] EXCEPT !.send = "sent"]
             q == [peer[s] EXCEPT !.send = "queued", !.io = "WRITE"]
             c == Closed(peer[s])
  <2>1. p \in PeerConnection /\ c.key = peer[s].key
    BY <1>2 DEF Closed, PeerConnection
  <2>2. peer[s].state = "HANDSHAKE" /\ q.state = "HANDSHAKE"
    BY <1>2, <1>8 DEF HandshakeReceived, PeerConnection
  <2>3. \/ HandlePeerFailure(s) \/ DeletePeer(s, c)
        \/ Dispatch(s, peer[s]) \/ Dispatch(s, p) \/ SetPeer(s, q)
    BY <1>8, Zenon DEF HandshakeReceived
  <2> HIDE DEF p, q, c
  <2> QED BY <1>1, <1>2, <1>3, <2>1, <2>2, <2>3, FailureMoves, DispatchMoves, ShakingMoves
<1> QED BY <1>4, <1>5, <1>6, <1>7, <1>8 DEF SocketCallback

LEMMA TimerMoves ==
  ASSUME DriverInv, FlightInv, NEW s \in Slots, TimerCallback(s)
  PROVE  LifecycleStep
<1> USE DriverParts
<1>1. peer[s].timer
  BY DEF TimerCallback, RetryTimer, ConnectTimer, TimerReady
<1>2. peer[s] \in PeerConnection /\ Occupied(s) /\ Sound(peer[s])
  BY <1>1, WatchedTimed DEF TypeOK
<1>3. CASE ConnectTimer(s)
  <2>1. peer[s].io # "off" /\ HandlePeerFailure(s)
    BY <1>1, <1>2, <1>3 DEF ConnectTimer, Sound
  <2> QED BY <2>1, FailureMoves
<1>4. CASE RetryTimer(s)
  <2> DEFINE q == Stopped(peer[s])
  <2>1. peer[s].state = "FAILED" /\ SetPeer(s, q)
    BY <1>4 DEF RetryTimer
  <2>2. q.state = "FAILED" /\ q.io = "off"
    BY <1>2, <2>1 DEF Stopped, PeerConnection
  <2> HIDE DEF q
  <2>3. PeerStatus(q) = "waiting" /\ PeerStatus(peer[s]) \in {"waiting", "dialing"}
    BY <2>1, <2>2, PeerStatuses
  <2>4. peer[s].source = "tracker"
    BY <1>2, <2>1 DEF Sound
  <2> QED BY <1>2, <2>1, <2>3, <2>4, PeerMoves DEF Progresses
<1> QED BY <1>3, <1>4 DEF TimerCallback

\* A connect that was begun leaves its peer dialling or shaking hands.
LEMMA DialledStatus ==
  ASSUME NEW p \in PeerConnection, NEW outcome \in ConnectOutcomes(p), p.state # "CONNECTED"
  PROVE  outcome.ok => PeerStatus(outcome.peer) \in {"dialing", "shaking"}
<1> DEFINE dialing == Armed([p EXCEPT !.sock = "own"], "WRITE")
           shaking == [dialing EXCEPT !.state = "HANDSHAKE", !.failures = 0]
<1>1. outcome.ok => outcome.peer = dialing \/ outcome.peer = shaking
  BY DEF ConnectOutcomes
<1>2. /\ dialing.state = p.state /\ dialing.io = "WRITE"
      /\ shaking.state = "HANDSHAKE"
  BY DEF Armed, PeerConnection
<1> HIDE DEF dialing, shaking
<1>3. PeerStatus(dialing) \in {"dialing", "shaking"} /\ PeerStatus(shaking) = "shaking"
  BY <1>2, PeerStatuses
<1> QED BY <1>1, <1>3

LEMMA DiscoveredMoves ==
  ASSUME DriverInv, FlightInv, IsFiniteSet(Slots), DiscoveredPeer
  PROVE  LifecycleStep
<1> USE DriverParts
<1> DEFINE last == cache[Len(cache)]
<1>1. last \in Discoverable
  BY EmptySeq DEF DiscoveredPeer, TypeOK
<1>2. PICK a \in Endpoints : a = last /\ a \in Discoverable
  BY <1>1 DEF Endpoints
<1> HIDE DEF last
<1>3. PICK s \in {t \in Slots : available[t] > 0} :
        \/ UNCHANGED <<peer, registry>>
        \/ /\ registry[a] = NoSlot
           /\ \E outcome \in ConnectOutcomes(Initialized(peer[s], a, "tracker", "DISCOVERED")) :
                \/ /\ outcome.ok /\ peer' = [peer EXCEPT ![s] = outcome.peer]
                   /\ registry' = [registry EXCEPT ![a] = s]
                \/ peer' = [peer EXCEPT ![s] = Torn(outcome.peer)] /\ UNCHANGED registry
  BY <1>2, Zenon DEF DiscoveredPeer, last
<1>4. s \in Slots /\ ~Occupied(s) /\ peer \in [Slots -> PeerConnection]
  BY <1>3 DEF PoolInv, RegistryMatchesPool, TypeOK
<1>5. CASE UNCHANGED <<peer, registry>>
  BY <1>5, StatusesStay DEF LifecycleStep
<1> DEFINE p == Initialized(peer[s], a, "tracker", "DISCOVERED")
<1>6. p \in PeerConnection /\ p.state = "DISCOVERED"
  <2>1. peer[s] \in PeerConnection /\ a \in Endpoints
    BY <1>2, <1>4
  <2> QED BY <2>1 DEF Initialized, PeerConnection
<1> HIDE DEF p
<1>7. ASSUME NEW outcome \in ConnectOutcomes(p), outcome.ok, registry[a] = NoSlot,
             peer' = [peer EXCEPT ![s] = outcome.peer], registry' = [registry EXCEPT ![a] = s]
      PROVE  LifecycleStep
  <2>1. PeerStatus(outcome.peer) \in {"dialing", "shaking"}
    BY <1>6, <1>7, DialledStatus
  <2>2. peer'[s] = outcome.peer /\ \A t \in Slots : t # s => peer'[t] = peer[t]
    BY <1>4, <1>7
  <2>3. Lifecycle!Becomes(a, PeerStatus(outcome.peer))
    BY <1>4, <1>7, <2>2, NewcomerBecomes
  <2>4. StatusOf(a) = "unknown" /\ Cardinality(Lifecycle!Known) < Cardinality(Slots)
    BY <1>4, <1>7, StatusIs, KnownFewer
  <2> QED BY <1>2, <2>1, <2>3, <2>4, EndpointMoves
<1>8. ASSUME NEW q, peer' = [peer EXCEPT ![s] = q], UNCHANGED registry
      PROVE  LifecycleStep
  <2>1. \A t \in Slots : Occupied(t) => peer'[t] = peer[t]
    BY <1>4, <1>8
  <2> QED BY <1>8, <2>1, StatusesStay DEF LifecycleStep
<1> QED BY <1>3, <1>5, <1>7, <1>8 DEF p

\* The socket of a disconnected peer is still set, so it cannot be dialled.
LEMMA DisconnectedMoves ==
  ASSUME DriverInv, FlightInv, DisconnectedPeer
  PROVE  LifecycleStep
<1> USE DriverParts
<1> DEFINE u == Head(disconnects)
           p == [peer[u.slot] EXCEPT !.state = "DISCONNECTED", !.failures = @ + 1]
<1>1. disconnects \in Seq(Update) /\ disconnects # <<>> /\ peer \in [Slots -> PeerConnection]
  BY DEF DisconnectedPeer, TypeOK
<1>2. u.slot \in Slots /\ u \in Elements(disconnects) /\ (IsCurrent(u) => u = UpdateOf(u.slot))
  BY <1>1, CurrentHead
<1>3. CASE ~IsCurrent(u)
  <2>1. UNCHANGED <<peer, registry>>
    BY <1>3 DEF DisconnectedPeer, pool
  <2> QED BY <2>1, StatusesStay DEF LifecycleStep
<1>4. CASE IsCurrent(u)
  <2>1. IF p.source = "tcp_server" THEN DeletePeer(u.slot, p) ELSE InitiateConnect(u.slot, p)
    BY <1>4 DEF DisconnectedPeer
  <2>2. Occupied(u.slot) /\ peer[u.slot].sock = "handed"
    BY <1>2, <1>4, NamedDrives DEF SlotSound, Driven, Sound
  <2>3. p.key = peer[u.slot].key /\ p.sock = "handed"
    BY <1>1, <1>2, <2>2 DEF PeerConnection
  <2> HIDE DEF p
  <2>4. DeletePeer(u.slot, p)
    <3>1. \A outcome \in ConnectOutcomes(p) : ~outcome.ok /\ outcome.peer = p
      BY <2>3 DEF ConnectOutcomes
    <3>2. InitiateConnect(u.slot, p) => \E outcome \in ConnectOutcomes(p) :
            IF outcome.ok THEN TRUE ELSE DeletePeer(u.slot, outcome.peer)
      BY DEF InitiateConnect
    <3> QED BY <2>1, <3>1, <3>2
  <2> HIDE DEF u
  <2> QED BY <1>2, <2>2, <2>3, <2>4, PeerMoves
<1> QED BY <1>3, <1>4

LEMMA FailedMoves ==
  ASSUME DriverInv, FlightInv, FailedPeer
  PROVE  LifecycleStep
<1> USE DriverParts
<1> DEFINE u == Head(retry_queue)
<1>1. retry_queue \in Seq(Update) /\ retry_queue # <<>> /\ peer \in [Slots -> PeerConnection]
  BY DEF FailedPeer, TypeOK
<1>2. u.slot \in Slots /\ u \in Elements(retry_queue) /\ (IsCurrent(u) => u = UpdateOf(u.slot))
  BY <1>1, CurrentHead
<1>3. CASE ~IsCurrent(u)
  <2>1. UNCHANGED <<peer, registry>>
    BY <1>3 DEF FailedPeer, pool
  <2> QED BY <2>1, StatusesStay DEF LifecycleStep
<1>4. CASE IsCurrent(u)
  <2>1. PICK s \in Slots : s = u.slot
    BY <1>2
  <2>2. InitiateConnect(s, peer[s])
    BY <1>4, <2>1 DEF FailedPeer
  <2>3. Occupied(s) /\ Retries(s) = 1 /\ Timers(s) = 0
    BY <1>2, <1>4, <2>1, NamedDrives
  <2>4. Driven(s) /\ Sound(peer[s]) /\ peer[s] \in PeerConnection
    BY <1>1, <2>3 DEF SlotSound
  <2>5. peer[s].state = "FAILED" /\ peer[s].source = "tracker" /\ peer[s].io = "off"
    BY <2>3, <2>4 DEF Driven, Sound, Timers
  <2>6. PeerStatus(peer[s]) = "waiting"
    BY <2>5, PeerStatuses
  <2> DEFINE p == peer[s]
  <2>7. p \in PeerConnection /\ p.state # "CONNECTED" /\ p.key = peer[s].key
    BY <2>4, <2>5
  <2>8. \E outcome \in ConnectOutcomes(p) :
          \/ outcome.ok /\ SetPeer(s, outcome.peer)
          \/ DeletePeer(s, outcome.peer)
    BY <2>2 DEF InitiateConnect
  <2> HIDE DEF p
  <2>9. PICK outcome \in ConnectOutcomes(p) :
          \/ outcome.ok /\ SetPeer(s, outcome.peer)
          \/ DeletePeer(s, outcome.peer)
    BY <2>8
  <2>10. outcome.peer.key = peer[s].key
         /\ (outcome.ok => PeerStatus(outcome.peer) \in {"dialing", "shaking"})
    BY <2>7, ConnectValues, DialledStatus
  <2> QED BY <2>3, <2>5, <2>6, <2>9, <2>10, PeerMoves DEF Progresses
<1> QED BY <1>3, <1>4

\* The accepted endpoint is registered for a free slot, whatever it had.
LEMMA AcceptMoves ==
  ASSUME NativeV6 = {}, DriverInv, FlightInv, IsFiniteSet(Slots), NEW s \in Slots,
         NEW a \in Dialing, AcceptUnique(s, a) \/ AcceptEvicting(s, a)
  PROVE  LifecycleStep
<1> USE DriverParts
<1>1. /\ a \in Endpoints /\ ~Occupied(s)
      /\ registry[a] # NoSlot => registry[a] \in Slots \ {s} /\ peer[registry[a]].key = a
  BY AcceptSlots
<1>2. /\ peer \in [Slots -> PeerConnection] /\ registry \in [Endpoints -> Slots \cup {NoSlot}]
      /\ a # NoKey
  BY <1>1, NullAssumption DEF TypeOK
<1> DEFINE q == Accepted(peer[s], a)
<1>3. PeerStatus(q) = "shaking"
  <2>1. q.state = "HANDSHAKE"
    BY <1>2 DEF Accepted, Initialized, Armed, PeerConnection
  <2> HIDE DEF q
  <2> QED BY <2>1, PeerStatuses
<1>4. Cardinality(Lifecycle!Known) < Cardinality(Slots)
  BY <1>1, KnownFewer
<1>5. /\ registry' = [registry EXCEPT ![a] = s] /\ peer'[s] = q
      /\ \A t \in Slots : t # s /\ peer[t].key # a => peer'[t] = peer[t]
  <2>1. CASE AcceptUnique(s, a)
    BY <1>2, <2>1 DEF AcceptUnique
  <2>2. CASE AcceptEvicting(s, a)
    <3>1. PICK old \in Slots : old = registry[a] /\ old # s /\ peer[old].key = a
      BY <1>1, <2>2 DEF AcceptEvicting
    <3> DEFINE p == Evicted(peer[old])
    <3>2. p.key = a
      BY <1>2, <3>1 DEF Evicted, Closed, PeerConnection
    <3>3. /\ peer' = [[peer EXCEPT ![old] = Torn(p)] EXCEPT ![s] = Accepted(@, a)]
          /\ registry' = [Deregister(p.key) EXCEPT ![a] = s]
      BY <1>1, <1>2, <2>2, <3>1, NullAssumption DEF AcceptEvicting
    <3> HIDE DEF p
    <3>4. registry' = [registry EXCEPT ![a] = s]
      BY <1>1, <1>2, <3>2, <3>3 DEF Deregister
    <3>5. peer'[s] = q /\ \A t \in Slots : t # s /\ t # old => peer'[t] = peer[t]
      BY <1>2, <3>1, <3>3
    <3> QED BY <3>1, <3>4, <3>5
  <2> QED BY <2>1, <2>2
<1> HIDE DEF q
<1>6. Lifecycle!Becomes(a, PeerStatus(peer'[s]))
  BY <1>1, <1>5, NewcomerBecomes
<1> QED BY <1>1, <1>3, <1>4, <1>5, <1>6, EndpointMoves

LEMMA LifecycleMoves ==
  ASSUME NativeV6 = {}, IsFiniteSet(Slots), DriverInv, FlightInv, [Next]_vars
  PROVE  LifecycleStep
<1>1. CASE \E s \in Slots : SocketCallback(s) \/ TimerCallback(s)
  BY <1>1, SocketMoves, TimerMoves
<1>2. CASE DiscoveredPeer
  BY <1>2, DiscoveredMoves
<1>3. CASE DisconnectedPeer \/ FailedPeer
  BY <1>3, DisconnectedMoves, FailedMoves
<1>4. CASE \E s \in Slots, a \in Dialing : AcceptUnique(s, a) \/ AcceptEvicting(s, a)
  BY <1>4, AcceptMoves
<1>5. CASE \/ DaemonSignalled \/ RoundBegins \/ NothingLeft \/ ServerReadable
           \/ AcceptEnds \/ DrainDiscovered \/ NotifyDisconnected
           \/ OtherThreads \/ UNCHANGED vars
  <2>1. UNCHANGED <<peer, registry>>
    BY <1>5 DEF DaemonSignalled, RoundBegins, NothingLeft, ServerReadable,
       AcceptEnds, DrainDiscovered, NotifyDisconnected, OtherThreads,
       TrackerReports, SessionBegins, SessionEnds, vars, pool
  <2> QED BY <2>1, StatusesStay, DriverParts DEF LifecycleStep
<1> QED
  BY <1>1, <1>2, <1>3, <1>4, <1>5 DEF Next, Manager, Scheduling, Accepting

LEMMA LifecycleStarts ==
  ASSUME Init
  PROVE  Lifecycle!LifecycleInit
<1>1. \A a \in Endpoints : StatusOf(a) = "unknown"
  BY DEF Init, StatusOf
<1> QED BY <1>1 DEF Lifecycle!LifecycleInit

\* The event loop, its slots, timers and queues implement the life cycle of
\* PeerLifecycle: no callback skips a step of an endpoint's connection, moves
\* two endpoints, or knows more endpoints than there are slots.
THEOREM LifecycleImplemented ==
  ASSUME NativeV6 = {}, IsFiniteSet(Slots),
         CountsStartWithin({Healthy, MaxInbound, MaxOutbound})
  PROVE  Spec => ImplementsLifecycle
<1>1. Spec => []DriverInv
  BY DriverForever DEF CountsStartWithin
<1>2. Spec => []FlightInv
  BY FlightForever
<1>3. Init => Lifecycle!LifecycleInit
  BY LifecycleStarts
<1>4. DriverInv /\ FlightInv /\ [Next]_vars =>
        [Lifecycle!LifecycleNext]_([a \in Endpoints |-> StatusOf(a)])
  BY LifecycleMoves DEF LifecycleStep
<1> QED BY <1>1, <1>2, <1>3, <1>4, PTL DEF Spec, ImplementsLifecycle, Lifecycle!LifecycleSpec

----------------------------------------------------------------------------
(* The scheduler's loops.                                                  *)

Lap == 6 * Cardinality(Full) + 2 * TurnsToFull + (IF pc = "round" THEN 1 ELSE 0)

Work == Len(cache) + Len(retry_queue) + HandedOver

SchedulerInv == TypeOK /\ IsFiniteSet(sessions)

TurnsTyped ==
  /\ Lap \in 0 .. 23 /\ Work \in Nat /\ HandedOver \in Nat
  /\ TurnsLeft = 24 * Work + Lap

LEMMA FullCounted ==
  ASSUME TypeOK
  PROVE  /\ IsFiniteSet(Full) /\ Cardinality(Full) \in 0 .. 3
         /\ TurnsToFull \in 0 .. 2
<1>1. IsFiniteSet({"failed"}) /\ Cardinality({"failed"}) = 1
  BY FS_Singleton
<1>2. IsFiniteSet({"failed"} \cup {"disconnected"})
      /\ Cardinality({"failed"} \cup {"disconnected"}) = 2
  BY <1>1, FS_AddElement
<1>3. /\ IsFiniteSet(({"failed"} \cup {"disconnected"}) \cup {"discovered"})
      /\ Cardinality(({"failed"} \cup {"disconnected"}) \cup {"discovered"}) = 3
  BY <1>2, FS_AddElement
<1>4. ({"failed"} \cup {"disconnected"}) \cup {"discovered"} = Spots
  BY DEF Spots
<1>5. Full \in SUBSET Spots
  BY DEF Full
<1>6. IsFiniteSet(Spots) /\ Cardinality(Spots) = 3
  BY <1>3, <1>4
<1>7. IsFiniteSet(Full) /\ Cardinality(Full) <= 3
  BY <1>5, <1>6, FS_Subset
<1>8. Cardinality(Full) \in Nat
  BY <1>7, FS_CardinalityType
<1> QED BY <1>7, <1>8 DEF TurnsToFull

LEMMA TurnsAre ==
  ASSUME SchedulerInv
  PROVE  TurnsTyped
<1>1. Cardinality(Full) \in 0 .. 3 /\ TurnsToFull \in 0 .. 2
  BY FullCounted DEF SchedulerInv
<1>2. Lap \in 0 .. 23
  BY <1>1 DEF Lap
<1>3. Cardinality(sessions) \in Nat
  BY FS_CardinalityType DEF SchedulerInv
<1>4. /\ Len(connects) \in Nat /\ Len(disconnects) \in Nat
      /\ Len(cache) \in Nat /\ Len(retry_queue) \in Nat
  BY DEF SchedulerInv, TypeOK
<1>5. HandedOver \in Nat
  BY <1>3, <1>4 DEF HandedOver
<1>6. Work \in Nat
  BY <1>4, <1>5 DEF Work
<1> QED BY <1>1, <1>2, <1>5, <1>6 DEF TurnsTyped, TurnsLeft, Work, Lap

\* The round robin comes nearer to a source that was not empty, or marks one.
LEMMA EmptyHandedLap ==
  ASSUME TypeOK, HandlerReturns(FALSE), pc \in {"round"} \cup Spots
  PROVE  pc' = "loop" \/ (pc' = "round" /\ Lap' < Lap)
<1>1. current \in Spots /\ empties \in [Spots -> BOOLEAN]
  BY DEF TypeOK
<1>2. Full' = Full \ {current}
  BY <1>1 DEF Full, HandlerReturns
<1>3. IsFiniteSet(Full) /\ Cardinality(Full) \in 0 .. 3 /\ TurnsToFull \in 0 .. 2
  BY FullCounted
<1>4. Cardinality(Full \ {current})
        = IF current \in Full THEN Cardinality(Full) - 1 ELSE Cardinality(Full)
  BY <1>3, FS_RemoveElement
<1>5. CASE Full' = {}
  BY <1>5, <1>1 DEF Full, HandlerReturns
<1>6. CASE Full' # {}
  <2>1. pc' = "round" /\ current' = NextSpot(current)
    BY <1>6, <1>1 DEF Full, HandlerReturns
  <2>2. TurnsToFull' \in 0 .. 2
    BY DEF TurnsToFull
  <2>3. CASE current \in Full
    <3>1. Cardinality(Full') = Cardinality(Full) - 1
      BY <1>2, <1>4, <2>3
    <3>2. Cardinality(Full)' = Cardinality(Full')
      OBVIOUS
    <3> QED BY <1>3, <2>1, <2>2, <3>1, <3>2 DEF Lap
  <2>4. CASE current \notin Full
    <3>1. Full' = Full
      BY <1>2, <2>4
    <3>2. TurnsToFull' = TurnsToFull - 1
      <4>1. Full \subseteq Spots
        BY DEF Full
      <4>2. CASE NextSpot(current) \in Full
        BY <1>6, <2>1, <2>4, <3>1, <4>2 DEF TurnsToFull
      <4>3. CASE NextSpot(current) \notin Full
        <5>1. NextSpot(NextSpot(current)) \in Full
          BY <1>1, <1>6, <2>4, <3>1, <4>1, <4>3 DEF NextSpot, Spots
        <5> QED BY <1>6, <2>1, <2>4, <3>1, <4>3, <5>1 DEF TurnsToFull
      <4> QED BY <4>2, <4>3
    <3>3. Cardinality(Full)' = Cardinality(Full)
      BY <3>1
    <3> QED BY <1>3, <2>1, <3>2, <3>3 DEF Lap
  <2> QED BY <2>3, <2>4
<1> QED BY <1>5, <1>6

LEMMA TurnsArePrime == SchedulerInv' => TurnsTyped'
<1>1. SchedulerInv => TurnsTyped
  BY TurnsAre
<1> QED BY <1>1, PTL

\* What a turn with an entry may unmark weighs less than the entry.
LEMMA FirstLength ==
  ASSUME NEW S, NEW q \in Seq(S), NEW n \in Nat, n <= Len(q)
  PROVE  Len(SubSeq(q, 1, n)) = n
BY SubSeqProperties

LEMMA LastDropped ==
  ASSUME NEW S, NEW q \in Seq(S), q # <<>>
  PROVE  Len(SubSeq(q, 1, Len(q) - 1)) = Len(q) - 1
<1>1. Len(q) \in Nat \ {0}
  BY EmptySeq
<1>2. Len(q) - 1 \in Nat /\ Len(q) - 1 <= Len(q)
  BY <1>1
<1> QED BY <1>2, FirstLength, Zenon

LEMMA Weighs ==
  ASSUME NEW w \in Nat, NEW v \in Nat, NEW l \in 0 .. 23, NEW m \in 0 .. 23,
         v <= w - 1 \/ (v = w /\ m < l)
  PROVE  24 * v + m < 24 * w + l
OBVIOUS

LEMMA WeighsNoMore ==
  ASSUME NEW w \in Nat, NEW v \in Nat, NEW l \in 0 .. 23, v <= w
  PROVE  24 * v + l <= 24 * w + l
OBVIOUS

LEMMA LessWeight ==
  ASSUME SchedulerInv, SchedulerInv', Work' <= Work - 1 \/ (Work' = Work /\ Lap' < Lap)
  PROVE  TurnsLeft' < TurnsLeft
<1>1. Lap \in 0 .. 23 /\ Work \in Nat
  BY TurnsAre DEF TurnsTyped
<1>2. Lap' \in 0 .. 23 /\ Work' \in Nat
  BY TurnsArePrime DEF TurnsTyped
<1>3. TurnsLeft = 24 * Work + Lap /\ TurnsLeft' = 24 * Work' + Lap'
  BY TurnsAre, TurnsArePrime, Zenon DEF TurnsTyped
<1>4. 24 * Work' + Lap' < 24 * Work + Lap
  BY <1>1, <1>2, Weighs, Zenon
<1> QED BY <1>3, <1>4, Zenon

LEMMA SchedulerTypes ==
  ASSUME SchedulerInv
  PROVE  /\ TypeOK /\ IsFiniteSet(sessions) /\ Cardinality(sessions) \in Nat
         /\ Len(cache) \in Nat /\ Len(retry_queue) \in Nat
         /\ Len(disconnects) \in Nat /\ Len(connects) \in Nat
         /\ cache \in Seq(Discoverable) /\ retry_queue \in Seq(Update)
         /\ connects \in Seq(Update) /\ disconnects \in Seq(Update)
<1>1. Cardinality(sessions) \in Nat
  BY FS_CardinalityType DEF SchedulerInv
<1> QED BY <1>1 DEF SchedulerInv, TypeOK

\* HandedOver as the updates move.
LEMMA SessionsFinite ==
  ASSUME SchedulerInv, [Next]_vars
  PROVE  SchedulerInv'
<1>1. TypeOK'
  BY NextType DEF SchedulerInv
<1>2. UNCHANGED sessions \/ SessionBegins \/ \E u \in sessions : SessionEnds(u)
  BY DEF Next, Manager, OtherThreads, SocketCallback, QuotaDeletes, SocketError,
     TransportInitiation, HandshakeSent, HandshakeReceived, CallbackFrame,
     TimerCallback, RetryTimer, ConnectTimer, DaemonSignalled, Scheduling,
     RoundBegins, DiscoveredPeer, DisconnectedPeer, FailedPeer, NothingLeft,
     ServerReadable, Accepting, AcceptEnds, AcceptUnique, AcceptEvicting,
     DrainDiscovered, NotifyDisconnected, TrackerReports, transfer, vars
<1>3. IsFiniteSet(sessions')
  BY <1>2, FS_AddElement, FS_RemoveElement DEF SchedulerInv, SessionBegins, SessionEnds
<1> QED BY <1>1, <1>3 DEF SchedulerInv

\* An iteration of the scheduler's loops.
LEMMA IterationAdvances ==
  ASSUME SchedulerInv, SchedulerInv', Scheduling
  PROVE  pc' = "loop" \/ (pc' \in {"round"} \cup Spots /\ TurnsLeft' < TurnsLeft)
<1>1. /\ TypeOK /\ Len(cache) \in Nat /\ Len(retry_queue) \in Nat /\ Len(disconnects) \in Nat
      /\ Len(connects) \in Nat /\ Cardinality(sessions) \in Nat
  BY SchedulerTypes
<1>2. CASE RoundBegins \/ NothingLeft
  <2>1. UNCHANGED <<cache, retry_queue, connects, sessions, disconnects>>
    BY <1>2 DEF RoundBegins, NothingLeft, transfer
  <2>2. Work' = Work
    BY <2>1 DEF Work, HandedOver
  <2>3. \/ pc' = "loop" 
        \/ HandlerReturns(FALSE) /\ pc \in {"round"} \cup Spots
        \/ pc = "round" /\ pc' = current /\ UNCHANGED scheduler
    BY <1>2 DEF RoundBegins, NothingLeft, Spots
  <2>4. CASE HandlerReturns(FALSE) /\ pc \in {"round"} \cup Spots
    BY <1>1, <2>2, <2>4, EmptyHandedLap, LessWeight
  <2>5. CASE pc = "round" /\ pc' = current /\ UNCHANGED scheduler
    <3>1. current \in Spots /\ current # "round"
      BY <1>1 DEF TypeOK, Spots
    <3>2. Full' = Full /\ TurnsToFull' = TurnsToFull
      BY <2>5 DEF Full, TurnsToFull, scheduler
    <3>3. Cardinality(Full) \in 0 .. 3 /\ TurnsToFull \in 0 .. 2
      BY <1>1, FullCounted
    <3>4. Lap' < Lap
      BY <2>5, <3>1, <3>2, <3>3 DEF Lap
    <3> QED BY <2>2, <2>5, <3>1, <3>4, LessWeight
  <2> QED BY <2>3, <2>4, <2>5
<1>3. pc' \in {"loop", "round"} \cup Spots
  BY <1>1, HandlerLeaves DEF Scheduling, TypeOK, Spots, RoundBegins, NothingLeft, DiscoveredPeer,
     DisconnectedPeer, FailedPeer, InitiateConnect, HandlerReturns
<1>4. CASE DiscoveredPeer
  <2>1. Len(cache') = Len(cache) - 1
    <3>1. cache \in Seq(Discoverable) /\ cache # <<>>
      BY <1>4, SchedulerTypes DEF DiscoveredPeer
    <3>2. cache' = SubSeq(cache, 1, Len(cache) - 1)
      BY <1>4 DEF DiscoveredPeer
    <3> QED BY <3>1, <3>2, LastDropped
  <2>2. UNCHANGED <<retry_queue, connects, sessions, disconnects>>
    BY <1>4 DEF DiscoveredPeer, transfer
  <2>3. Work' <= Work - 1
    BY <1>1, <2>1, <2>2 DEF Work, HandedOver
  <2> QED BY <1>3, <2>3, LessWeight
<1>5. CASE DisconnectedPeer
  <2>1. Len(disconnects') = Len(disconnects) - 1
    BY <1>1, <1>5, UpdateQueue DEF DisconnectedPeer, TypeOK
  <2>2. UNCHANGED <<retry_queue, connects, sessions, cache>>
    BY <1>5 DEF DisconnectedPeer
  <2>3. Work' <= Work - 1
    BY <1>1, <2>1, <2>2 DEF Work, HandedOver
  <2> QED BY <1>3, <2>3, LessWeight
<1>6. CASE FailedPeer
  <2>1. Len(retry_queue') = Len(retry_queue) - 1
    BY <1>1, <1>6, UpdateQueue DEF FailedPeer, TypeOK
  <2>2. UNCHANGED <<disconnects, connects, sessions, cache>>
    BY <1>6 DEF FailedPeer, transfer
  <2>3. Work' <= Work - 1
    BY <1>1, <2>1, <2>2 DEF Work, HandedOver
  <2> QED BY <1>3, <2>3, LessWeight
<1> QED BY <1>2, <1>4, <1>5, <1>6 DEF Scheduling

\* What the other threads do in between.
LEMMA OthersPutNothingOff ==
  ASSUME SchedulerInv, SchedulerInv', OtherThreads
  PROVE  pc' = pc /\ TurnsLeft' <= TurnsLeft
<1>1. /\ connects \in Seq(Update) /\ disconnects \in Seq(Update)
      /\ Len(disconnects) \in Nat
      /\ Len(connects) \in Nat /\ Cardinality(sessions) \in Nat
      /\ IsFiniteSet(sessions)
  BY SchedulerTypes
<1>2. UNCHANGED <<pc, scheduler, cache, retry_queue>>
  BY DEF OtherThreads, TrackerReports, SessionBegins, SessionEnds
<1>3. Lap' = Lap
  BY <1>2 DEF Lap, Full, TurnsToFull, scheduler
<1>4. HandedOver' <= HandedOver
  <2>1. CASE \E a \in Discoverable : TrackerReports(a)
    BY <1>1, <2>1 DEF TrackerReports, transfer, HandedOver
  <2>2. CASE SessionBegins
    <3>1. Len(connects') = Len(connects) - 1
      BY <1>1, <2>2, UpdateQueue DEF SessionBegins
    <3>2. Cardinality(sessions') \in {Cardinality(sessions), Cardinality(sessions) + 1}
      BY <1>1, <2>2, FS_AddElement DEF SessionBegins
    <3>3. disconnects' = disconnects
      BY <2>2 DEF SessionBegins
    <3> QED BY <1>1, <3>1, <3>2, <3>3 DEF HandedOver
  <2>3. ASSUME NEW u \in sessions, SessionEnds(u)
        PROVE  HandedOver' <= HandedOver
    <3>1. Cardinality(sessions') = Cardinality(sessions) - 1
      BY <1>1, <2>3, FS_RemoveElement DEF SessionEnds
    <3>2. u \in Update
      BY DEF SchedulerInv, TypeOK
    <3>3. Len(disconnects') = Len(disconnects) + 1 /\ connects' = connects
      BY <1>1, <2>3, <3>2, AppendProperties DEF SessionEnds
    <3> QED BY <1>1, <3>1, <3>3 DEF HandedOver
  <2> QED BY <2>1, <2>2, <2>3 DEF OtherThreads
<1>5. Work' <= Work
  <2>1. /\ Len(cache) \in Nat /\ Len(retry_queue) \in Nat
        /\ Len(cache') = Len(cache) /\ Len(retry_queue') = Len(retry_queue)
    BY <1>2 DEF SchedulerInv, TypeOK
  <2>2. HandedOver \in Nat
    BY TurnsAre DEF TurnsTyped
  <2>3. HandedOver' \in Nat
    BY TurnsArePrime DEF TurnsTyped
  <2> QED BY <1>4, <2>1, <2>2, <2>3 DEF Work
<1>6. /\ Work \in Nat /\ Lap \in 0 .. 23 /\ Work' \in Nat
      /\ TurnsLeft = 24 * Work + Lap /\ TurnsLeft' = 24 * Work' + Lap
  BY <1>3, TurnsAre, TurnsArePrime, Zenon DEF TurnsTyped
<1>7. 24 * Work' + Lap <= 24 * Work + Lap
  BY <1>5, <1>6, WeighsNoMore, Zenon
<1>8. TurnsLeft' <= TurnsLeft
  BY <1>6, <1>7, Zenon
<1> QED BY <1>2, <1>8

\* Once signalled the scheduler's loops end, whatever is in its queues and in
\* its flags and whatever the other threads do: every iteration brings their
\* end nearer by a count that nothing raises.
THEOREM SchedulerEnds == Spec => SchedulerAdvances
<1> DEFINE Step == InScheduler =>
             \/ pc' = "loop"
             \/ pc' \in {"round"} \cup Spots /\ TurnsLeft' < TurnsLeft
             \/ OtherThreads /\ pc' = pc /\ TurnsLeft' <= TurnsLeft
<1>1. Init => SchedulerInv
  BY InitType, FS_EmptySet DEF SchedulerInv, Init
<1>2. SchedulerInv /\ [Next]_vars => SchedulerInv'
  BY SessionsFinite
<1>3. SchedulerInv /\ SchedulerInv' /\ [Next]_vars => [Step]_vars
  <2> SUFFICES ASSUME SchedulerInv, SchedulerInv', Next, InScheduler
               PROVE  Step
    OBVIOUS
  <2>1. Scheduling \/ OtherThreads
    BY DEF InScheduler, Spots, Next, Manager, SocketCallback, QuotaDeletes, SocketError,
       TransportInitiation, HandshakeSent, HandshakeReceived, SocketReady,
       TimerCallback, RetryTimer, ConnectTimer, TimerReady, DaemonSignalled,
       ServerReadable, Accepting, AcceptEnds, AcceptUnique, AcceptEvicting,
       DrainDiscovered, NotifyDisconnected
  <2> QED BY <2>1, IterationAdvances, OthersPutNothingOff
<1> HIDE DEF Step
<1>4. Spec => [][Step]_vars
  BY <1>1, <1>2, <1>3, PTL DEF Spec
<1> QED BY <1>4 DEF Step, SchedulerAdvances

----------------------------------------------------------------------------
(* The count of connected peers.                                           *)

\* Where update u is, with the transfer manager or on its way.
Holders(u) ==
  Count(connects, u) + Count(disconnects, u) + (IF u \in sessions THEN 1 ELSE 0)

\* No update is handed over twice, not even one that is stale by now: a
\* session that begins is none that is held already.
HandedOnce == \A u \in Update : Holders(u) <= 1

CountInv == DriverInv /\ HandedOnce

\* A callback that hands the peer of slot s over.
HandsOver(s) ==
  /\ peer[s].io # "off"
  /\ connects' = Append(connects, UpdateOf(s)) /\ connected' = connected + 1
  /\ UNCHANGED <<sessions, disconnects>>

LEMMA CountMoves ==
  ASSUME DriverInv, [Next]_vars
  PROVE  \/ UNCHANGED <<connected, connects, sessions, disconnects>>
         \/ \E s \in Slots : HandsOver(s)
         \/ SessionBegins \/ (\E u \in sessions : SessionEnds(u)) \/ DisconnectedPeer
<1>1. ASSUME NEW s \in Slots, SocketCallback(s) \/ TimerCallback(s)
      PROVE  \/ UNCHANGED <<connected, connects, sessions, disconnects>>
             \/ HandsOver(s)
  <2>1. UNCHANGED <<sessions, disconnects>>
    BY <1>1 DEF SocketCallback, QuotaDeletes, SocketError, TransportInitiation,
       HandshakeSent, HandshakeReceived, CallbackFrame, TimerCallback, RetryTimer,
       ConnectTimer, transfer
  <2>2. \/ UNCHANGED <<connected, connects>>
        \/ ~HasMetQuota /\ peer[s].io # "off" /\ \E p : Dispatch(s, p)
    BY <1>1 DEF SocketCallback, QuotaDeletes, SocketError, TransportInitiation,
       HandshakeSent, HandshakeReceived, SocketReady, TimerCallback, RetryTimer,
       ConnectTimer, HandlePeerFailure, Quietly, counters
  <2>3. ~HasMetQuota => Len(connects) < SessionCapacity /\ Increment(connected) = connected + 1
    BY DriverParts, RoomBelowQuota
  <2> QED BY <2>1, <2>2, <2>3 DEF Dispatch, HandsOver
<1>2. \/ UNCHANGED <<connected, connects, sessions, disconnects>>
      \/ \E s \in Slots : SocketCallback(s) \/ TimerCallback(s)
      \/ SessionBegins \/ (\E u \in sessions : SessionEnds(u)) \/ DisconnectedPeer
  <2>1. DiscoveredPeer \/ FailedPeer => UNCHANGED <<connected, connects, sessions, disconnects>>
    BY DEF DiscoveredPeer, FailedPeer, transfer
  <2>2. RoundBegins \/ NothingLeft => UNCHANGED <<connected, connects, sessions, disconnects>>
    BY DEF RoundBegins, NothingLeft, transfer, counters
  <2>3. Accepting => UNCHANGED <<connected, connects, sessions, disconnects>>
    BY DEF Accepting, AcceptEnds, AcceptUnique, AcceptEvicting, transfer, counters
  <2>4. DaemonSignalled \/ ServerReadable \/ DrainDiscovered \/ NotifyDisconnected
          => UNCHANGED <<connected, connects, sessions, disconnects>>
    BY DEF DaemonSignalled, ServerReadable, DrainDiscovered, NotifyDisconnected,
       transfer, counters
  <2>5. (\E a \in Discoverable : TrackerReports(a)) \/ UNCHANGED vars
          => UNCHANGED <<connected, connects, sessions, disconnects>>
    BY DEF TrackerReports, vars, transfer, counters
  <2> QED BY <2>1, <2>2, <2>3, <2>4, <2>5 DEF Next, Manager, OtherThreads, Scheduling
<1> QED BY <1>1, <1>2

LEMMA HoldersTyped ==
  ASSUME TypeOK, NEW u
  PROVE  /\ Count(connects, u) \in Nat /\ Count(disconnects, u) \in Nat /\ Holders(u) \in Nat
<1>1. Count(connects, u) \in Nat /\ Count(disconnects, u) \in Nat
  BY CountIs DEF TypeOK
<1> QED BY <1>1 DEF Holders

\* A session begins with an update that no session has.
LEMMA BeginsOnce ==
  ASSUME CountInv, SessionBegins
  PROVE  Head(connects) \in Update /\ Head(connects) \notin sessions
<1> DEFINE u == Head(connects)
<1>1. connects \in Seq(Update) /\ connects # <<>> /\ TypeOK
  BY DriverParts DEF CountInv, TypeOK, SessionBegins
<1>2. u \in Update /\ u \in Elements(connects)
  BY <1>1, CurrentHead
<1>3. Count(connects, u) # 0
  BY <1>1, <1>2, CountIs
<1>4. Holders(u) <= 1
  BY <1>2 DEF CountInv, HandedOnce
<1>5. Count(connects, u) \in Nat /\ Count(disconnects, u) \in Nat
  BY <1>1, HoldersTyped
<1> HIDE DEF u
<1>6. u \notin sessions
  BY <1>3, <1>4, <1>5 DEF Holders
<1> QED BY <1>2, <1>6 DEF u

LEMMA HandedOnceStays ==
  ASSUME CountInv, [Next]_vars
  PROVE  HandedOnce'
<1> SUFFICES ASSUME NEW u \in Update
             PROVE  Holders(u)' <= 1
  BY DEF HandedOnce
<1>1. /\ DriverInv /\ TypeOK /\ PoolInv /\ Holders(u) <= 1
      /\ connects \in Seq(Update) /\ disconnects \in Seq(Update)
  BY DriverParts DEF CountInv, HandedOnce, TypeOK
<1>2. Count(connects, u) \in Nat /\ Count(disconnects, u) \in Nat /\ Holders(u) \in Nat
  BY <1>1, HoldersTyped
<1> DEFINE c == Count(connects, u)
           d == Count(disconnects, u)
           c1 == Count(connects', u)
           d1 == Count(disconnects', u)
           h == IF u \in sessions THEN 1 ELSE 0
           h1 == IF u \in sessions' THEN 1 ELSE 0
<1>3. Holders(u) = c + d + h /\ Holders(u)' = c1 + d1 + h1
  BY DEF Holders, Count
<1>4. CASE UNCHANGED <<connected, connects, sessions, disconnects>>
  BY <1>1, <1>3, <1>4
<1>5. ASSUME NEW s \in Slots, HandsOver(s)
      PROVE  Holders(u)' <= 1
  <2>1. /\ connects' = Append(connects, UpdateOf(s)) /\ sessions' = sessions
        /\ disconnects' = disconnects /\ peer[s].io # "off" /\ SlotSound(s)
    BY <1>1, <1>5, DriverParts DEF HandsOver
  <2>2. UpdateOf(s) \in Update
    BY <1>1, CountsTyped
  <2>3. c1 = c + (IF UpdateOf(s) = u THEN 1 ELSE 0)
    BY <1>1, <2>1, <2>2, CountAppend
  <2>4. Handed(s) = 0
    BY <1>1, <2>1, WatchedTimed, NamedDrives
  <2>5. u = UpdateOf(s) => Holders(u) = 0
    BY <2>4 DEF Holders, Handed, Entries, Count
  <2> HIDE DEF c, d, c1, d1
  <2>6. d1 = d /\ h1 = h
    BY <2>1 DEF d, d1
  <2>7. c \in Nat /\ d \in Nat
    BY <1>2 DEF c, d
  <2> QED BY <1>1, <1>3, <2>3, <2>5, <2>6, <2>7
<1>6. CASE SessionBegins
  <2>1. /\ connects # <<>> /\ connects' = Tail(connects) /\ disconnects' = disconnects
        /\ sessions' = sessions \cup {Head(connects)}
    BY <1>6 DEF SessionBegins
  <2>2. c = c1 + (IF Head(connects) = u THEN 1 ELSE 0)
    BY <1>1, <2>1, CountTail
  <2>3. c1 \in Nat
    <3>1. connects' \in Seq(Update)
      BY <1>1, <2>1, HeadTailProperties
    <3> QED BY <3>1, CountIs
  <2>4. h1 <= h + (IF Head(connects) = u THEN 1 ELSE 0)
    BY <2>1
  <2> HIDE DEF c, d, c1, d1
  <2>5. d1 = d /\ d \in Nat
    BY <1>2, <2>1 DEF d, d1
  <2> QED BY <1>1, <1>3, <2>2, <2>3, <2>4, <2>5
<1>7. ASSUME NEW v \in sessions, SessionEnds(v)
      PROVE  Holders(u)' <= 1
  <2>1. /\ disconnects' = Append(disconnects, v) /\ connects' = connects
        /\ sessions' = sessions \ {v} /\ v \in Update
    BY <1>1, <1>7 DEF SessionEnds, TypeOK
  <2>2. d1 = d + (IF v = u THEN 1 ELSE 0)
    BY <1>1, <2>1, CountAppend
  <2>3. h1 = h - (IF v = u THEN 1 ELSE 0)
    BY <2>1
  <2> HIDE DEF c, d, c1, d1
  <2>4. c1 = c /\ c \in Nat /\ d \in Nat
    BY <1>2, <2>1 DEF c, c1, d
  <2> QED BY <1>1, <1>3, <2>2, <2>3, <2>4
<1>8. CASE DisconnectedPeer
  <2>1. /\ disconnects # <<>> /\ disconnects' = Tail(disconnects)
        /\ connects' = connects /\ sessions' = sessions
    BY <1>8 DEF DisconnectedPeer
  <2>2. d = d1 + (IF Head(disconnects) = u THEN 1 ELSE 0)
    BY <1>1, <2>1, CountTail
  <2>3. d1 \in Nat
    <3>1. disconnects' \in Seq(Update)
      BY <1>1, <2>1, HeadTailProperties
    <3> QED BY <3>1, CountIs
  <2> HIDE DEF c, d, c1, d1
  <2>4. c1 = c /\ c \in Nat /\ h1 = h
    BY <1>2, <2>1 DEF c, c1
  <2> QED BY <1>1, <1>3, <2>2, <2>3, <2>4
<1> QED BY <1>1, <1>4, <1>5, <1>6, <1>7, <1>8, CountMoves

LEMMA CountFollows ==
  ASSUME CountInv, [Next]_vars
  PROVE  \/ Uncounted' = Uncounted
         \/ /\ pc = "disconnected" /\ ~IsCurrent(Head(disconnects))
            /\ Uncounted' = Uncounted + 1
<1>1. /\ DriverInv /\ TypeOK /\ IsFiniteSet(sessions) /\ Cardinality(sessions) \in Nat
      /\ connects \in Seq(Update) /\ disconnects \in Seq(Update)
      /\ Len(connects) \in Nat /\ Len(disconnects) \in Nat /\ connected \in Nat
  BY DriverParts, FS_CardinalityType DEF CountInv, TypeOK
<1>2. HandedOver \in Nat
  BY <1>1 DEF HandedOver
<1>3. CASE UNCHANGED <<connected, connects, sessions, disconnects>>
  BY <1>3 DEF Uncounted, HandedOver
<1>4. ASSUME NEW s \in Slots, HandsOver(s)
      PROVE  Uncounted' = Uncounted
  <2>1. UpdateOf(s) \in Update
    BY <1>1, CountsTyped
  <2>2. Len(connects') = Len(connects) + 1
    BY <1>1, <1>4, <2>1, AppendProperties DEF HandsOver
  <2>3. connected' = connected + 1
    BY <1>4 DEF HandsOver
  <2>4. Cardinality(sessions') = Cardinality(sessions) /\ Len(disconnects') = Len(disconnects)
    BY <1>4 DEF HandsOver
  <2>5. HandedOver' = HandedOver + 1
    BY <1>1, <2>2, <2>4 DEF HandedOver
  <2> QED BY <1>1, <1>2, <2>3, <2>5 DEF Uncounted
<1>5. CASE SessionBegins
  <2>1. Head(connects) \notin sessions
    BY <1>5, BeginsOnce
  <2>2. Cardinality(sessions') = Cardinality(sessions) + 1
    BY <1>1, <1>5, <2>1, FS_AddElement DEF SessionBegins
  <2>3. Len(connects') = Len(connects) - 1
    BY <1>1, <1>5, UpdateQueue DEF SessionBegins
  <2>4. connected' = connected /\ disconnects' = disconnects
    BY <1>5 DEF SessionBegins, counters
  <2> QED BY <1>1, <2>2, <2>3, <2>4 DEF Uncounted, HandedOver
<1>6. ASSUME NEW u \in sessions, SessionEnds(u)
      PROVE  Uncounted' = Uncounted
  <2>1. Cardinality(sessions') = Cardinality(sessions) - 1
    BY <1>1, <1>6, FS_RemoveElement DEF SessionEnds
  <2>2. u \in Update
    BY <1>1 DEF TypeOK
  <2>3. Len(disconnects') = Len(disconnects) + 1
    BY <1>1, <1>6, <2>2, AppendProperties DEF SessionEnds
  <2>4. connected' = connected /\ Len(connects') = Len(connects)
    BY <1>6 DEF SessionEnds, counters
  <2>5. HandedOver' = HandedOver
    BY <1>1, <2>1, <2>3, <2>4 DEF HandedOver
  <2> QED BY <2>4, <2>5 DEF Uncounted
<1>7. CASE DisconnectedPeer
  <2>1. /\ pc = "disconnected" /\ disconnects # <<>> /\ disconnects' = Tail(disconnects)
        /\ connects' = connects /\ sessions' = sessions
        /\ connected' = IF IsCurrent(Head(disconnects)) THEN DecrementConnected(connected)
                                                        ELSE connected
    BY <1>7 DEF DisconnectedPeer
  <2>2. Len(disconnects) # 0 /\ Len(disconnects') = Len(disconnects) - 1
    BY <1>1, <2>1, UpdateQueue, EmptySeq
  <2>3. Len(connects) + Cardinality(sessions) + Len(disconnects) <= connected
    BY <1>1, DriverParts DEF ConnectedCoversSessions
  <2>4. connected # 0
    BY <1>1, <2>2, <2>3
  <2>5. CASE IsCurrent(Head(disconnects))
    <3>1. connected' = connected - 1
      BY <2>1, <2>4, <2>5 DEF DecrementConnected
    <3> QED BY <1>1, <2>1, <2>2, <3>1 DEF Uncounted, HandedOver
  <2>6. CASE ~IsCurrent(Head(disconnects))
    <3>1. connected' = connected
      BY <2>1, <2>6
    <3>2. Uncounted' = Uncounted + 1
      BY <1>1, <2>1, <2>2, <3>1 DEF Uncounted, HandedOver
    <3> QED BY <2>1, <2>6, <3>2
  <2> QED BY <2>5, <2>6
<1> QED BY <1>1, <1>3, <1>4, <1>5, <1>6, <1>7, CountMoves

\* The count of connected peers follows the sessions one by one, except that
\* the end of each session whose peer was evicted leaves it one too high.
THEOREM CountRunsAheadByEvictions ==
  ASSUME NativeV6 = {}, InitialCount \subseteq 0 .. Healthy
  PROVE  Spec => CountFollowsSessions
<1> DEFINE Step == \/ Uncounted' = Uncounted
                   \/ /\ pc = "disconnected" /\ ~IsCurrent(Head(disconnects))
                      /\ Uncounted' = Uncounted + 1
<1>1. Init => CountInv
  <2> SUFFICES ASSUME Init PROVE CountInv
    OBVIOUS
  <2>1. <<>> \in Seq(Update) /\ \A u : u \notin Elements(<<>>)
    BY DEF Elements
  <2>2. \A u : Count(<<>>, u) = 0
    BY <2>1, CountIs, Zenon
  <2>3. HandedOnce
    BY <2>2 DEF Init, HandedOnce, Holders
  <2> QED BY <2>3, DriverInit DEF CountInv
<1>2. CountInv /\ [Next]_vars => CountInv'
  BY DriverStep, HandedOnceStays DEF CountInv
<1>3. CountInv /\ [Next]_vars => [Step]_vars
  BY CountFollows
<1> HIDE DEF Step
<1>4. Spec => [][Step]_vars
  BY <1>1, <1>2, <1>3, PTL DEF Spec
<1> QED BY <1>4 DEF Step, CountFollowsSessions
=============================================================================
