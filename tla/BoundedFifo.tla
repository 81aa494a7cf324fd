---------------------------- MODULE BoundedFifo ----------------------------
(***************************************************************************)
(* What spsc_queue promises the threads at its two ends: every element     *)
(* that a push took comes out of a pop exactly once and in order, and no   *)
(* more than Size of them wait in between.  A push or a pop that returns   *)
(* false does nothing.                                                     *)
(***************************************************************************)
EXTENDS Naturals, Sequences

CONSTANTS
  Size,      \* the capacity
  Values     \* the elements

VARIABLES
  items,     \* the elements waiting, the oldest first
  popped     \* what the last successful pop handed to its caller

fifoVars == <<items, popped>>

Init == items = <<>> /\ popped \in Values

Push(v) ==
  /\ Len(items) < Size
  /\ items' = Append(items, v)
  /\ UNCHANGED popped

Pop ==
  /\ items # <<>>
  /\ popped' = Head(items)
  /\ items' = Tail(items)

Next == Pop \/ \E v \in Values : Push(v)

Spec == Init /\ [][Next]_fifoVars
=============================================================================
