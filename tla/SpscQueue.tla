----------------------------- MODULE SpscQueue -----------------------------
(***************************************************************************)
(* spsc_queue: the ring that joins two threads, one pushing and one        *)
(* popping.  push and pop are split where the other thread can be seen or  *)
(* can see something: the acquire load of the other's index, the access    *)
(* to the slot, the release store of the own index.  Each thread keeps a   *)
(* copy of the other's index and loads it again only when the copy says    *)
(* that the queue is full or empty.                                        *)
(*                                                                         *)
(* An acquire load need not return the latest store: it returns any index  *)
(* from the one the thread has seen last up to the one stored last.        *)
(***************************************************************************)
EXTENDS Naturals, Sequences

CONSTANTS
  Size,      \* the template argument
  Values     \* the elements

ASSUME SizeAssumption == Size \in Nat \ {0}
ASSUME ValuesAssumption == Values # {}

VARIABLES
  queue,                \* the ring, one slot larger than Size
  read_idx_,            \* stored by the popping thread
  write_idx_,           \* stored by the pushing thread
  cached_read_idx_,     \* the pushing thread's copy of read_idx_
  cached_write_idx_,    \* the popping thread's copy of write_idx_
  pusher,               \* the pushing thread: where it is, and its argument
  popper,               \* the popping thread: where it is, and what it moved out
  popped                \* what the last successful pop returned

producerVars == <<write_idx_, cached_read_idx_, pusher>>
consumerVars == <<read_idx_, cached_write_idx_, popper, popped>>
vars == <<queue, producerVars, consumerVars>>

----------------------------------------------------------------------------
Indices == 0 .. Size

\* Faulty: the wrap-around comes one slot late.
FollowingLate(i) == IF i + 1 > Size + 1 THEN 0 ELSE i + 1

\* The index after i: compared with the size of the ring, not masked.
Following(i) == IF i + 1 = Size + 1 THEN 0 ELSE i + 1

\* How many steps of Following lead from i to j.
Distance(i, j) == IF i <= j THEN j - i ELSE (j + Size + 1) - i

\* Going from i to k leads past j.
Between(i, j, k) == Distance(i, k) = Distance(i, j) + Distance(j, k)

\* What a load may return when the thread has seen i and j was stored last.
Loadable(i, j) == {k \in Indices : Between(i, k, j)}

Init ==
  /\ \E v \in Values : queue = [i \in Indices |-> v]
  /\ read_idx_ = 0 /\ write_idx_ = 0
  /\ cached_read_idx_ = 0 /\ cached_write_idx_ = 0
  /\ pusher \in [at : {"idle"}, val : Values]
  /\ popper \in [at : {"idle"}, val : Values]
  /\ popped \in Values

----------------------------------------------------------------------------
\* The pushing thread.

\* Faulty: the queue counts as full when the indices meet, without a dummy slot.
PushBeginsMeeting(v) ==
  /\ pusher.at = "idle"
  /\ pusher' = [at |-> IF write_idx_ = cached_read_idx_ THEN "load" ELSE "move",
              val |-> v]
  /\ UNCHANGED <<queue, write_idx_, cached_read_idx_, consumerVars>>

\* Up to the comparison with the cached index.
PushBegins(v) ==
  /\ pusher.at = "idle"
  /\ pusher' = [at |-> IF Following(write_idx_) = cached_read_idx_ THEN "load" ELSE "move",
              val |-> v]
  /\ UNCHANGED <<queue, write_idx_, cached_read_idx_, consumerVars>>

\* Faulty: the second comparison is forgotten.
PushLoadsUntested ==
  /\ pusher.at = "load"
  /\ \E i \in Loadable(cached_read_idx_, read_idx_) :
       /\ cached_read_idx_' = i
       /\ pusher' = [pusher EXCEPT !.at = "move"]
  /\ UNCHANGED <<queue, write_idx_, consumerVars>>

\* The load, and the return when the queue is full still.
PushLoads ==
  /\ pusher.at = "load"
  /\ \E i \in Loadable(cached_read_idx_, read_idx_) :
       /\ cached_read_idx_' = i
       /\ pusher' = [pusher EXCEPT !.at = IF Following(write_idx_) = i THEN "idle" ELSE "move"]
  /\ UNCHANGED <<queue, write_idx_, consumerVars>>

PushMoves ==
  /\ pusher.at = "move"
  /\ queue' = [queue EXCEPT ![write_idx_] = pusher.val]
  /\ pusher' = [pusher EXCEPT !.at = "store"]
  /\ UNCHANGED <<write_idx_, cached_read_idx_, consumerVars>>

PushStores ==
  /\ pusher.at = "store"
  /\ write_idx_' = Following(write_idx_)
  /\ pusher' = [pusher EXCEPT !.at = "idle"]
  /\ UNCHANGED <<queue, cached_read_idx_, consumerVars>>

----------------------------------------------------------------------------
\* The popping thread.

\* Up to the comparison with the cached index.
PopBegins ==
  /\ popper.at = "idle"
  /\ popper' = [popper EXCEPT !.at = IF read_idx_ = cached_write_idx_ THEN "load" ELSE "move"]
  /\ UNCHANGED <<queue, read_idx_, cached_write_idx_, popped, producerVars>>

\* Faulty: the second comparison is forgotten.
PopLoadsUntested ==
  /\ popper.at = "load"
  /\ \E i \in Loadable(cached_write_idx_, write_idx_) :
       /\ cached_write_idx_' = i
       /\ popper' = [popper EXCEPT !.at = "move"]
  /\ UNCHANGED <<queue, read_idx_, popped, producerVars>>

\* The load, and the return when the queue is empty still.
PopLoads ==
  /\ popper.at = "load"
  /\ \E i \in Loadable(cached_write_idx_, write_idx_) :
       /\ cached_write_idx_' = i
       /\ popper' = [popper EXCEPT !.at = IF read_idx_ = i THEN "idle" ELSE "move"]
  /\ UNCHANGED <<queue, read_idx_, popped, producerVars>>

PopMoves ==
  /\ popper.at = "move"
  /\ popper' = [at |-> "store", val |-> queue[read_idx_]]
  /\ UNCHANGED <<queue, read_idx_, cached_write_idx_, popped, producerVars>>

PopStores ==
  /\ popper.at = "store"
  /\ read_idx_' = Following(read_idx_)
  /\ popped' = popper.val
  /\ popper' = [popper EXCEPT !.at = "idle"]
  /\ UNCHANGED <<queue, cached_write_idx_, producerVars>>

----------------------------------------------------------------------------
Producer == PushLoads \/ PushMoves \/ PushStores \/ \E v \in Values : PushBegins(v)
Consumer == PopBegins \/ PopLoads \/ PopMoves \/ PopStores

Next == Producer \/ Consumer

Spec == Init /\ [][Next]_vars

----------------------------------------------------------------------------
\* The two threads' variables have their types: indices stay inside the array.
TypeOK ==
  /\ queue \in [Indices -> Values]
  /\ {read_idx_, write_idx_, cached_read_idx_, cached_write_idx_} \subseteq Indices
  /\ pusher \in [at : {"idle", "load", "move", "store"}, val : Values]
  /\ popper \in [at : {"idle", "load", "move", "store"}, val : Values]
  /\ popped \in Values

\* The four indices stand in one order around the ring, whatever is stale: from
\* what the pushing thread believes of the reader, over the reader and what it
\* believes of the writer, to the writer.
IndicesInOrder ==
  /\ Between(cached_read_idx_, read_idx_, write_idx_)
  /\ Between(read_idx_, cached_write_idx_, write_idx_)

\* A push past its comparisons has room, a pop past its own has an element, and
\* neither is disturbed until it stores its index.
RoomAndElement ==
  /\ pusher.at \in {"move", "store"} => Following(write_idx_) # cached_read_idx_
  /\ pusher.at = "store" => queue[write_idx_] = pusher.val
  /\ popper.at \in {"move", "store"} => read_idx_ # cached_write_idx_
  /\ popper.at = "store" => queue[read_idx_] = popper.val

\* What a step of either thread relies on.
QueueInv == IndicesInOrder /\ RoomAndElement

\* Two threads never move into and out of the same slot at a time (lines 36 and
\* 48 of the queue): the data race the dummy slot is there to prevent.
NoRaceOnSlot ==
  pusher.at = "move" /\ popper.at \in {"move", "store"} => write_idx_ # read_idx_

----------------------------------------------------------------------------
\* Where n steps of Following lead from i.
Walk(i, n) == IF i + n <= Size THEN i + n ELSE (i + n) - (Size + 1)

\* The queue is a bounded first-in first-out queue: the elements wait in the
\* slots from the reader's index to the writer's, and a push takes effect at its
\* store (line 37), a pop at its own (line 52).
Waiting ==
  [i \in 1 .. Distance(read_idx_, write_idx_) |-> queue[Walk(read_idx_, i - 1)]]

Fifo == INSTANCE BoundedFifo WITH items <- Waiting

ImplementsFifo == Fifo!Spec
=============================================================================
