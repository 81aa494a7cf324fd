---------------------------- MODULE QueueProofs ----------------------------
(***************************************************************************)
(* Proofs about SpscQueue, for every size and every interleaving of its    *)
(* two threads: its indices stay in order, the threads never meet in a     *)
(* slot, and it implements BoundedFifo.                                    *)
(***************************************************************************)
EXTENDS SpscQueue, TLAPS

----------------------------------------------------------------------------
\* Distances around the ring.  They are all that the proofs need to know about
\* the indices' arithmetic.

LEMMA DistanceValues ==
  ASSUME NEW i \in Indices, NEW j \in Indices
  PROVE  /\ Distance(i, j) \in 0 .. Size
         /\ Distance(i, j) = 0 <=> i = j
         /\ Following(i) \in Indices
BY SizeAssumption DEF Distance, Indices, Following

\* Moving the far end on adds one, unless it comes round to the near end;
\* moving the near end on takes one away, unless the two have met.
LEMMA DistanceSteps ==
  ASSUME NEW i \in Indices, NEW j \in Indices
  PROVE  /\ Following(j) # i => Distance(i, Following(j)) = Distance(i, j) + 1
         /\ i # j => Distance(Following(i), j) = Distance(i, j) - 1
         /\ Following(j) = i <=> Distance(i, j) = Size
BY SizeAssumption DEF Distance, Indices, Following

\* Nobody overtakes: a load moves a copy towards the index it copies, the writer
\* moves on short of the reader's copy, the reader short of the writer's.
LEMMA CopyOfReaderMoves ==
  ASSUME NEW c \in Indices, NEW r \in Indices, NEW w \in Indices, NEW d \in Indices,
         Between(c, r, w), Between(c, d, r)
  PROVE  Between(d, r, w)
BY SizeAssumption DEF Between, Distance, Indices

LEMMA CopyOfWriterMoves ==
  ASSUME NEW r \in Indices, NEW c \in Indices, NEW w \in Indices, NEW d \in Indices,
         Between(r, c, w), Between(c, d, w)
  PROVE  Between(r, d, w)
BY SizeAssumption DEF Between, Distance, Indices

LEMMA FarEndMoves ==
  ASSUME NEW i \in Indices, NEW j \in Indices, NEW w \in Indices,
         Between(i, j, w), Following(w) # i
  PROVE  Between(i, j, Following(w)) /\ Following(w) # j
BY SizeAssumption DEF Between, Distance, Indices, Following

LEMMA NearEndMoves ==
  ASSUME NEW r \in Indices, NEW j \in Indices, NEW w \in Indices,
         Between(r, j, w), r # j
  PROVE  Between(Following(r), j, w) /\ r # w
BY SizeAssumption DEF Between, Distance, Indices, Following

LEMMA MiddleMoves ==
  ASSUME NEW i \in Indices, NEW r \in Indices, NEW w \in Indices,
         Between(i, r, w), r # w
  PROVE  Between(i, Following(r), w)
BY SizeAssumption DEF Between, Distance, Indices, Following

\* Walking: as many steps as the distance lead to the other index, fewer do not,
\* and a walk that starts a slot later ends a slot later.
LEMMA WalkToIndex ==
  ASSUME NEW i \in Indices, NEW j \in Indices
  PROVE  Walk(i, 0) = i /\ Walk(i, Distance(i, j)) = j
BY SizeAssumption DEF Walk, Distance, Indices

LEMMA WalkShorter ==
  ASSUME NEW i \in Indices, NEW j \in Indices, NEW n \in 0 .. Size, n < Distance(i, j)
  PROVE  Walk(i, n) \in Indices /\ Walk(i, n) # j
BY SizeAssumption DEF Walk, Distance, Indices

LEMMA WalkLater ==
  ASSUME NEW i \in Indices, NEW n \in 0 .. Size - 1
  PROVE  Walk(Following(i), n) = Walk(i, n + 1)
BY SizeAssumption DEF Walk, Indices, Following

----------------------------------------------------------------------------
\* The invariant of the proofs; it is inductive.
SafeInv == TypeOK /\ QueueInv

LEMMA InitSafe == Init => SafeInv
<1> SUFFICES ASSUME Init PROVE SafeInv
  OBVIOUS
<1>1. TypeOK
  BY SizeAssumption DEF Init, TypeOK, Indices
<1>2. IndicesInOrder
  BY SizeAssumption DEF Init, IndicesInOrder, Between, Distance
<1>3. RoomAndElement
  BY DEF Init, RoomAndElement
<1> QED BY <1>1, <1>2, <1>3 DEF SafeInv, QueueInv

LEMMA TypeStep == TypeOK /\ [Next]_vars => TypeOK'
<1> SUFFICES ASSUME TypeOK, [Next]_vars PROVE TypeOK'
  OBVIOUS
<1> USE DEF TypeOK, producerVars, consumerVars
<1>1. ASSUME NEW v \in Values, PushBegins(v) PROVE TypeOK'
  BY <1>1 DEF PushBegins
<1>2. CASE PushLoads
  BY <1>2 DEF PushLoads, Loadable
<1>3. CASE PushMoves
  BY <1>3 DEF PushMoves
<1>4. CASE PushStores
  BY <1>4, DistanceValues DEF PushStores
<1>5. CASE PopBegins
  BY <1>5 DEF PopBegins
<1>6. CASE PopLoads
  BY <1>6 DEF PopLoads, Loadable
<1>7. CASE PopMoves
  BY <1>7 DEF PopMoves
<1>8. CASE PopStores
  BY <1>8, DistanceValues DEF PopStores
<1>9. CASE UNCHANGED vars
  BY <1>9 DEF vars
<1> QED BY <1>1, <1>2, <1>3, <1>4, <1>5, <1>6, <1>7, <1>8, <1>9 DEF Next, Producer, Consumer

LEMMA OrderStep == SafeInv /\ [Next]_vars => IndicesInOrder'
<1> SUFFICES ASSUME SafeInv, [Next]_vars PROVE IndicesInOrder'
  OBVIOUS
<1> USE DEF SafeInv, QueueInv, IndicesInOrder, TypeOK, producerVars, consumerVars
<1>1. ASSUME NEW v \in Values, PushBegins(v) PROVE IndicesInOrder'
  BY <1>1 DEF PushBegins
<1>2. CASE PushLoads
  BY <1>2, CopyOfReaderMoves DEF PushLoads, Loadable
<1>3. CASE PushMoves
  BY <1>3 DEF PushMoves
<1>4. CASE PushStores
  <2>1. Following(write_idx_) # cached_read_idx_
    BY <1>4 DEF PushStores, RoomAndElement
  <2>2. /\ Between(cached_read_idx_, read_idx_, Following(write_idx_))
        /\ Following(write_idx_) # read_idx_
    BY <2>1, FarEndMoves
  <2>3. Between(read_idx_, cached_write_idx_, Following(write_idx_))
    BY <2>2, FarEndMoves
  <2> QED BY <1>4, <2>2, <2>3 DEF PushStores
<1>5. CASE PopBegins
  BY <1>5 DEF PopBegins
<1>6. CASE PopLoads
  BY <1>6, CopyOfWriterMoves DEF PopLoads, Loadable
<1>7. CASE PopMoves
  BY <1>7 DEF PopMoves
<1>8. CASE PopStores
  <2>1. read_idx_ # cached_write_idx_
    BY <1>8 DEF PopStores, RoomAndElement
  <2>2. Between(Following(read_idx_), cached_write_idx_, write_idx_) /\ read_idx_ # write_idx_
    BY <2>1, NearEndMoves
  <2>3. Between(cached_read_idx_, Following(read_idx_), write_idx_)
    BY <2>2, MiddleMoves
  <2> QED BY <1>8, <2>2, <2>3 DEF PopStores
<1>9. CASE UNCHANGED vars
  BY <1>9 DEF vars
<1> QED BY <1>1, <1>2, <1>3, <1>4, <1>5, <1>6, <1>7, <1>8, <1>9 DEF Next, Producer, Consumer

\* The two threads' slots differ while a pop is under way.
LEMMA SlotsApart ==
  ASSUME SafeInv, popper.at \in {"move", "store"}
  PROVE  read_idx_ # write_idx_
<1>1. read_idx_ # cached_write_idx_
  BY DEF SafeInv, QueueInv, RoomAndElement
<1> QED BY <1>1, NearEndMoves DEF SafeInv, QueueInv, IndicesInOrder, TypeOK

LEMMA RoomStep == SafeInv /\ [Next]_vars => RoomAndElement'
<1> SUFFICES ASSUME SafeInv, [Next]_vars PROVE RoomAndElement'
  OBVIOUS
<1> USE DEF SafeInv, QueueInv, RoomAndElement, TypeOK, producerVars, consumerVars
<1>1. ASSUME NEW v \in Values, PushBegins(v) PROVE RoomAndElement'
  BY <1>1 DEF PushBegins
<1>2. CASE PushLoads
  BY <1>2 DEF PushLoads
<1>3. CASE PushMoves
  BY <1>3, SlotsApart DEF PushMoves
<1>4. CASE PushStores
  BY <1>4 DEF PushStores
<1>5. CASE PopBegins
  BY <1>5 DEF PopBegins
<1>6. CASE PopLoads
  BY <1>6 DEF PopLoads
<1>7. CASE PopMoves
  BY <1>7 DEF PopMoves
<1>8. CASE PopStores
  BY <1>8 DEF PopStores
<1>9. CASE UNCHANGED vars
  BY <1>9 DEF vars
<1> QED BY <1>1, <1>2, <1>3, <1>4, <1>5, <1>6, <1>7, <1>8, <1>9 DEF Next, Producer, Consumer

\* For every size and interleaving, stale loads included: the indices stay in
\* order, a push past its test has room and a pop past its test an element.
THEOREM QueueAlwaysConsistent == Spec => [](TypeOK /\ QueueInv)
<1>1. SafeInv /\ [Next]_vars => SafeInv'
  BY TypeStep, OrderStep, RoomStep DEF SafeInv, QueueInv
<1>2. Spec => []SafeInv
  BY <1>1, InitSafe, PTL DEF Spec
<1> QED BY <1>2, PTL DEF SafeInv

\* Every index stays inside the array, in a queue of any size.
THEOREM TypeCorrect == Spec => []TypeOK
BY QueueAlwaysConsistent, PTL

\* The threads never move into and out of one slot at a time, which is why the
\* queue needs no lock (spsc_queue.hpp:36, 48).
THEOREM NoDataRace == Spec => []NoRaceOnSlot
<1>1. TypeOK /\ QueueInv => NoRaceOnSlot
  BY SlotsApart DEF SafeInv, NoRaceOnSlot
<1> QED BY <1>1, QueueAlwaysConsistent, PTL

----------------------------------------------------------------------------
\* The slots from one index to another, read as a sequence.  Its arguments are
\* the values of the variables before or after a step.
Section(q, r, w) == [i \in 1 .. Distance(r, w) |-> q[Walk(r, i - 1)]]

LEMMA SectionIsSequence ==
  ASSUME NEW q \in [Indices -> Values], NEW r \in Indices, NEW w \in Indices
  PROVE  /\ Section(q, r, w) \in Seq(Values) /\ Len(Section(q, r, w)) = Distance(r, w)
         /\ \A i \in 1 .. Distance(r, w) : Section(q, r, w)[i] = q[Walk(r, i - 1)]
<1>1. Distance(r, w) \in Nat /\ Distance(r, w) <= Size
  BY DistanceValues, SizeAssumption
<1>2. \A i \in 1 .. Distance(r, w) : Walk(r, i - 1) \in Indices
  <2> TAKE i \in 1 .. Distance(r, w)
  <2>1. i - 1 \in 0 .. Size /\ i - 1 < Distance(r, w)
    BY <1>1, SizeAssumption
  <2> QED BY <2>1, WalkShorter
<1>3. \A i \in 1 .. Distance(r, w) : q[Walk(r, i - 1)] \in Values
  BY <1>2
<1> QED BY <1>1, <1>3 DEF Section

LEMMA SameSequence ==
  ASSUME NEW S, NEW s \in Seq(S), NEW t \in Seq(S), Len(s) = Len(t),
         \A i \in 1 .. Len(s) : s[i] = t[i]
  PROVE  s = t
OBVIOUS

\* Writing the slot at the far end changes nothing in the section.
LEMMA SectionUntouched ==
  ASSUME NEW q \in [Indices -> Values], NEW r \in Indices, NEW w \in Indices, NEW v \in Values
  PROVE  Section([q EXCEPT ![w] = v], r, w) = Section(q, r, w)
<1> DEFINE p == [q EXCEPT ![w] = v]
<1>1. p \in [Indices -> Values] /\ \A i \in Indices : i # w => p[i] = q[i]
  OBVIOUS
<1> HIDE DEF p
<1>2. Distance(r, w) \in 0 .. Size
  BY DistanceValues
<1>3. ASSUME NEW i \in 1 .. Distance(r, w) PROVE Section(p, r, w)[i] = Section(q, r, w)[i]
  <2>1. i - 1 \in 0 .. Size /\ i - 1 < Distance(r, w)
    BY <1>2, SizeAssumption
  <2>2. Walk(r, i - 1) \in Indices /\ Walk(r, i - 1) # w
    BY <2>1, WalkShorter
  <2> QED BY <1>1, <2>2, SectionIsSequence
<1>4. Section(p, r, w) = Section(q, r, w)
  BY <1>1, <1>3, SectionIsSequence, SameSequence
<1> QED BY <1>4 DEF p

\* Moving the far end on appends what is in its slot.
LEMMA SectionGrows ==
  ASSUME NEW q \in [Indices -> Values], NEW r \in Indices, NEW w \in Indices,
         Following(w) # r
  PROVE  /\ Section(q, r, Following(w)) = Append(Section(q, r, w), q[w])
         /\ Len(Section(q, r, w)) < Size
<1>1. PICK d \in 0 .. Size : Distance(r, w) = d
  BY DistanceValues
<1>2. Following(w) \in Indices /\ Distance(r, Following(w)) = d + 1 /\ d # Size
  BY <1>1, DistanceValues, DistanceSteps
<1>3. d \in Nat /\ d < Size
  BY <1>2, SizeAssumption
<1> DEFINE s == Section(q, r, w)  t == Section(q, r, Following(w))
<1>4. /\ s \in Seq(Values) /\ Len(s) = d /\ q[w] \in Values
      /\ \A i \in 1 .. d : s[i] = q[Walk(r, i - 1)]
  BY <1>1, SectionIsSequence
<1>5. /\ t \in Seq(Values) /\ Len(t) = d + 1
      /\ \A i \in 1 .. d + 1 : t[i] = q[Walk(r, i - 1)]
  BY <1>2, SectionIsSequence
<1>6. q[Walk(r, d)] = q[w]
  BY <1>1, WalkToIndex
<1> HIDE DEF s, t
<1>7. /\ Append(s, q[w]) \in Seq(Values) /\ Len(Append(s, q[w])) = d + 1
      /\ Append(s, q[w])[d + 1] = q[w]
      /\ \A i \in 1 .. d : Append(s, q[w])[i] = s[i]
  BY <1>3, <1>4
<1>8. ASSUME NEW i \in 1 .. d + 1 PROVE t[i] = Append(s, q[w])[i]
  <2>1. CASE i = d + 1
    <3>1. (d + 1) - 1 = d
      BY <1>3
    <3> QED BY <2>1, <3>1, <1>5, <1>6, <1>7
  <2>2. CASE i # d + 1
    <3>1. i \in 1 .. d
      BY <1>3, <2>2
    <3> QED BY <3>1, <1>4, <1>5, <1>7
  <2> QED BY <2>1, <2>2
<1>9. t = Append(s, q[w])
  BY <1>5, <1>7, <1>8, SameSequence
<1> QED BY <1>3, <1>4, <1>9 DEF s, t

\* Moving the near end on removes the first element, which was in its slot.
LEMMA SectionShrinks ==
  ASSUME NEW q \in [Indices -> Values], NEW r \in Indices, NEW w \in Indices, r # w
  PROVE  /\ Section(q, r, w) # <<>> /\ Head(Section(q, r, w)) = q[r]
         /\ Section(q, Following(r), w) = Tail(Section(q, r, w))
<1>1. PICK d \in 0 .. Size : Distance(r, w) = d
  BY DistanceValues
<1>2. Following(r) \in Indices /\ Distance(Following(r), w) = d - 1 /\ d # 0
  BY <1>1, DistanceValues, DistanceSteps
<1>3. PICK e \in 0 .. Size : Distance(Following(r), w) = e /\ d = e + 1
  BY <1>2, DistanceValues, SizeAssumption
<1> DEFINE s == Section(q, r, w)  t == Section(q, Following(r), w)
<1>4. /\ s \in Seq(Values) /\ Len(s) = d
      /\ \A i \in 1 .. d : s[i] = q[Walk(r, i - 1)]
  BY <1>1, SectionIsSequence
<1>5. /\ t \in Seq(Values) /\ Len(t) = e
      /\ \A i \in 1 .. e : t[i] = q[Walk(Following(r), i - 1)]
  BY <1>2, <1>3, SectionIsSequence
<1>6. s[1] = q[r]
  <2>1. 1 \in 1 .. d /\ 1 - 1 = 0
    BY <1>3
  <2> QED BY <2>1, <1>4, WalkToIndex
<1> HIDE DEF s, t
<1>7. /\ s # <<>> /\ Head(s) = q[r] /\ Tail(s) \in Seq(Values) /\ Len(Tail(s)) = e
      /\ \A i \in 1 .. e : Tail(s)[i] = s[i + 1]
  BY <1>3, <1>4, <1>6
<1>8. ASSUME NEW i \in 1 .. e PROVE t[i] = Tail(s)[i]
  <2>1. i - 1 \in 0 .. Size - 1 /\ i + 1 \in 1 .. d /\ (i - 1) + 1 = i /\ (i + 1) - 1 = i
    BY <1>3, SizeAssumption
  <2>2. Walk(Following(r), i - 1) = Walk(r, i)
    BY <2>1, WalkLater
  <2>3. t[i] = q[Walk(r, i)]
    BY <2>2, <1>5
  <2>4. s[i + 1] = q[Walk(r, (i + 1) - 1)]
    BY <2>1, <1>4
  <2>5. Tail(s)[i] = s[i + 1]
    BY <1>7
  <2> QED BY <2>1, <2>3, <2>4, <2>5
<1>9. t = Tail(s)
  BY <1>5, <1>7, <1>8, SameSequence
<1> QED BY <1>7, <1>9 DEF s, t

LEMMA WaitingIsSection == Waiting = Section(queue, read_idx_, write_idx_)
BY DEF Waiting, Section

LEMMA WaitingStaysSection == Waiting' = Section(queue', read_idx_', write_idx_')
BY DEF Waiting, Section

\* The step at which a push takes effect.
LEMMA StoreIsPush ==
  ASSUME SafeInv, PushStores
  PROVE  Fifo!Push(pusher.val)
<1> USE DEF SafeInv, QueueInv, TypeOK
<1>1. Following(write_idx_) # cached_read_idx_ /\ queue[write_idx_] = pusher.val
  BY DEF RoomAndElement, PushStores
<1>2. Following(write_idx_) # read_idx_
  BY <1>1, FarEndMoves DEF IndicesInOrder
<1>3. /\ Waiting' = Append(Waiting, pusher.val)
      /\ Len(Waiting) < Size
  BY <1>1, <1>2, SectionGrows, WaitingIsSection, WaitingStaysSection DEF PushStores, consumerVars
<1> QED BY <1>3 DEF Fifo!Push, PushStores, consumerVars

\* The step at which a pop takes effect.
LEMMA StoreIsPop ==
  ASSUME SafeInv, PopStores
  PROVE  Fifo!Pop
<1> USE DEF SafeInv, QueueInv, TypeOK
<1>1. read_idx_ # write_idx_ /\ queue[read_idx_] = popper.val
  BY SlotsApart DEF RoomAndElement, PopStores
<1>2. Waiting # <<>> /\ Head(Waiting) = popper.val /\ Waiting' = Tail(Waiting)
  BY <1>1, SectionShrinks, WaitingIsSection, WaitingStaysSection DEF PopStores, producerVars
<1> QED BY <1>2 DEF Fifo!Pop, PopStores

\* Every queue is a bounded first-in first-out queue, whatever the threads'
\* interleaving: an element pushed is popped once and in order (the use of the
\* queue between the manager's threads, PeerConnectionManager.cpp:57, 164, 670).
THEOREM QueueIsFifo == Spec => ImplementsFifo
<1>1. Init => Fifo!Init
  <2> SUFFICES ASSUME Init PROVE Fifo!Init
    OBVIOUS
  <2>1. Distance(read_idx_, write_idx_) = 0
    BY DEF Init, Distance
  <2>2. Waiting = <<>>
    BY <2>1 DEF Waiting
  <2> QED BY <2>2 DEF Init, Fifo!Init
<1>2. SafeInv /\ [Next]_vars => [Fifo!Next]_Fifo!fifoVars
  <2> SUFFICES ASSUME SafeInv, [Next]_vars PROVE [Fifo!Next]_Fifo!fifoVars
    OBVIOUS
  <2> USE DEF Fifo!fifoVars, producerVars, consumerVars
  <2>1. ASSUME NEW v \in Values, PushBegins(v) PROVE UNCHANGED Fifo!fifoVars
    BY <2>1 DEF PushBegins, Waiting
  <2>2. CASE PushLoads
    BY <2>2 DEF PushLoads, Waiting
  <2>3. CASE PushMoves
    <3>1. Waiting' = Waiting
      BY <2>3, SectionUntouched, WaitingIsSection, WaitingStaysSection
      DEF PushMoves, SafeInv, TypeOK
    <3> QED BY <2>3, <3>1 DEF PushMoves
  <2>4. CASE PushStores
    BY <2>4, StoreIsPush DEF Fifo!Next, SafeInv, TypeOK
  <2>5. CASE PopBegins
    BY <2>5 DEF PopBegins, Waiting
  <2>6. CASE PopLoads
    BY <2>6 DEF PopLoads, Waiting
  <2>7. CASE PopMoves
    BY <2>7 DEF PopMoves, Waiting
  <2>8. CASE PopStores
    BY <2>8, StoreIsPop DEF Fifo!Next
  <2>9. CASE UNCHANGED vars
    BY <2>9 DEF vars, Waiting
  <2> QED BY <2>1, <2>2, <2>3, <2>4, <2>5, <2>6, <2>7, <2>8, <2>9 DEF Next, Producer, Consumer
<1>3. Spec => []SafeInv
  BY QueueAlwaysConsistent, PTL DEF SafeInv
<1> QED BY <1>1, <1>2, <1>3, PTL DEF Spec, Fifo!Spec, ImplementsFifo
=============================================================================
