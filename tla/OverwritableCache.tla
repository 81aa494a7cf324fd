------------------------- MODULE OverwritableCache -------------------------
(***************************************************************************)
(* overwritable_cache: a ring that is pushed to at one end and popped at   *)
(* either, and overwrites its oldest entry when it is full.  One thread    *)
(* uses it, so an operation is one action.                                 *)
(***************************************************************************)
EXTENDS Naturals, Sequences

CONSTANTS
  N,         \* the template argument
  Entries    \* the entries

ASSUME NAssumption == N \in Nat \ {0}

VARIABLES
  cache,     \* the array
  write,     \* where the next entry goes
  read,      \* where the oldest entry is
  size,      \* how many there are
  taken      \* the argument of the pops: what the last successful one returned

cacheVars == <<cache, write, read, size, taken>>

CacheIndices == 0 .. N - 1

CacheInit ==
  /\ cache \in [CacheIndices -> Entries]
  /\ write = 0 /\ read = 0 /\ size = 0
  /\ taken \in Entries

----------------------------------------------------------------------------
\* Faulty: the wrap-around comes one slot late.
plus_mask_late(num) == IF num = N THEN 0 ELSE num + 1

plus_mask(num) == IF num + 1 = N THEN 0 ELSE num + 1

minus_mask(num) == IF num = 0 THEN N - 1 ELSE num - 1

isempty == size = 0

push(val) ==
  /\ cache' = [cache EXCEPT ![write] = val]
  /\ write' = plus_mask(write)
  /\ \/ size < N /\ size' = size + 1 /\ UNCHANGED read
     \/ size = N /\ read' = plus_mask(read) /\ UNCHANGED size
  /\ UNCHANGED taken

stale_pop ==
  /\ ~isempty
  /\ taken' = cache[read]
  /\ size' = size - 1
  /\ read' = plus_mask(read)
  /\ UNCHANGED <<cache, write>>

\* Faulty: the entry is taken before the index moves back to it.
fresh_pop_early ==
  /\ ~isempty
  /\ write' = minus_mask(write)
  /\ taken' = cache[write]
  /\ size' = size - 1
  /\ UNCHANGED <<cache, read>>

fresh_pop ==
  /\ ~isempty
  /\ write' = minus_mask(write)
  /\ taken' = cache[write']
  /\ size' = size - 1
  /\ UNCHANGED <<cache, read>>

CacheNext == stale_pop \/ fresh_pop \/ \E val \in Entries : push(val)

CacheSpec == CacheInit /\ [][CacheNext]_cacheVars

----------------------------------------------------------------------------
\* Indices stay inside the array.
CacheTypeOK ==
  /\ cache \in [CacheIndices -> Entries]
  /\ write \in CacheIndices /\ read \in CacheIndices /\ size \in 0 .. N
  /\ taken \in Entries

\* The slot that is i slots after slot r.
Slot(r, i) == IF r + i < N THEN r + i ELSE (r + i) - N

\* The three numbers tell one story: writing goes on where the entries that
\* size counts from read on end, also when pops at both ends and overwriting
\* pushes have carried read and write around the ring.
WriteFollowsEntries == write = Slot(read, size)

----------------------------------------------------------------------------
\* The cache keeps the newest entries, as the connection manager uses it:
\* discoveries that find it full push out the oldest (line 29 of the cache).
Kept == [i \in 1 .. size |-> cache[Slot(read, i - 1)]]

Newest == INSTANCE NewestEntries WITH Capacity <- N, kept <- Kept

KeepsNewest == Newest!Spec
=============================================================================
