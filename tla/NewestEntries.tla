--------------------------- MODULE NewestEntries ---------------------------
(***************************************************************************)
(* What overwritable_cache promises: it holds the newest Capacity of the   *)
(* entries pushed and not popped, and pops the newest or the oldest of     *)
(* them.                                                                   *)
(***************************************************************************)
EXTENDS Naturals, Sequences

CONSTANTS
  Capacity,  \* how many entries are kept
  Entries    \* the entries

VARIABLES
  kept,      \* the entries kept, the oldest first
  taken      \* what the last successful pop handed to its caller

Init == kept = <<>> /\ taken \in Entries

\* A push that finds no room drops the oldest entry.
Push(e) ==
  /\ kept' = Append(IF Len(kept) < Capacity THEN kept ELSE Tail(kept), e)
  /\ UNCHANGED taken

StalePop ==
  /\ kept # <<>>
  /\ taken' = Head(kept)
  /\ kept' = Tail(kept)

FreshPop ==
  /\ kept # <<>>
  /\ taken' = kept[Len(kept)]
  /\ kept' = SubSeq(kept, 1, Len(kept) - 1)

Next == StalePop \/ FreshPop \/ \E e \in Entries : Push(e)

Spec == Init /\ [][Next]_<<kept, taken>>
=============================================================================
