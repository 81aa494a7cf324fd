---------------------------- MODULE CacheProofs ----------------------------
(***************************************************************************)
(* Proofs about OverwritableCache, for every capacity: its indices agree,  *)
(* and it implements NewestEntries.                                        *)
(***************************************************************************)
EXTENDS OverwritableCache, TLAPS

\* The invariant of the proofs; it is inductive.
CacheInv == CacheTypeOK /\ WriteFollowsEntries

LEMMA InitCacheInv == CacheInit => CacheInv
BY NAssumption DEF CacheInit, CacheInv, CacheTypeOK, WriteFollowsEntries, Slot, CacheIndices

LEMMA PushKeeps ==
  ASSUME CacheInv, NEW e \in Entries, push(e)
  PROVE  CacheInv'
BY NAssumption DEF CacheInv, CacheTypeOK, WriteFollowsEntries, Slot, CacheIndices, push,
                   plus_mask

LEMMA StalePopKeeps ==
  ASSUME CacheInv, stale_pop
  PROVE  CacheInv'
BY NAssumption DEF CacheInv, CacheTypeOK, WriteFollowsEntries, Slot, CacheIndices, stale_pop,
                   isempty, plus_mask

LEMMA FreshPopKeeps ==
  ASSUME CacheInv, fresh_pop
  PROVE  CacheInv'
BY NAssumption DEF CacheInv, CacheTypeOK, WriteFollowsEntries, Slot, CacheIndices, fresh_pop,
                   isempty, minus_mask

LEMMA NextKeepsCacheInv == CacheInv /\ [CacheNext]_cacheVars => CacheInv'
<1> SUFFICES ASSUME CacheInv, [CacheNext]_cacheVars PROVE CacheInv'
  OBVIOUS
<1>1. CASE stale_pop
  BY <1>1, StalePopKeeps
<1>2. CASE fresh_pop
  BY <1>2, FreshPopKeeps
<1>3. CASE \E val \in Entries : push(val)
  BY <1>3, PushKeeps
<1>4. CASE UNCHANGED cacheVars
  BY <1>4 DEF cacheVars, CacheInv, CacheTypeOK, WriteFollowsEntries, Slot
<1> QED BY <1>1, <1>2, <1>3, <1>4 DEF CacheNext

\* The indices stay inside the array and agree with the size, in every cache.
THEOREM CacheAlwaysConsistent == CacheSpec => [](CacheTypeOK /\ WriteFollowsEntries)
<1>1. CacheSpec => []CacheInv
  BY InitCacheInv, NextKeepsCacheInv, PTL DEF CacheSpec
<1> QED BY <1>1, PTL DEF CacheInv

\* The indices never leave the array, however often it was overwritten.
THEOREM TypeCorrect == CacheSpec => []CacheTypeOK
BY CacheAlwaysConsistent, PTL

----------------------------------------------------------------------------
\* Walking around the ring: a walk of N slots returns, one that starts a slot
\* later ends a slot later, and a shorter walk ends in another slot.
LEMMA SlotWalk ==
  ASSUME NEW r \in CacheIndices, NEW i \in 0 .. N
  PROVE  /\ Slot(r, i) \in CacheIndices
         /\ Slot(r, 0) = r /\ Slot(r, N) = r
         /\ i < N => Slot(plus_mask(r), i) = Slot(r, i + 1)
         /\ \A j \in 0 .. N : i < j /\ (j < N \/ 0 < i) => Slot(r, i) # Slot(r, j)
BY NAssumption DEF Slot, CacheIndices, plus_mask

\* The entries kept are a sequence of as many entries as size says.
LEMMA KeptIsSequence ==
  ASSUME CacheInv
  PROVE  /\ Kept \in Seq(Entries) /\ Len(Kept) = size
         /\ \A i \in 1 .. size : Kept[i] = cache[Slot(read, i - 1)]
<1>1. \A i \in 1 .. size : Slot(read, i - 1) \in CacheIndices
  BY NAssumption DEF CacheInv, CacheTypeOK, Slot, CacheIndices
<1>2. \A i \in 1 .. size : cache[Slot(read, i - 1)] \in Entries
  BY <1>1 DEF CacheInv, CacheTypeOK
<1>3. size \in Nat
  BY NAssumption DEF CacheInv, CacheTypeOK
<1> QED BY <1>2, <1>3 DEF Kept

\* The same after a step.
LEMMA KeptStaysSequence ==
  ASSUME CacheInv'
  PROVE  /\ Kept' \in Seq(Entries) /\ Len(Kept') = size'
         /\ \A i \in 1 .. size' : Kept'[i] = cache'[Slot(read', i - 1)]
<1>1. \A r \in CacheIndices : \A i \in 1 .. N : Slot(r, i - 1) \in CacheIndices
  BY NAssumption DEF Slot, CacheIndices
<1>2. /\ size' \in Nat /\ size' <= N /\ read' \in CacheIndices
      /\ cache' \in [CacheIndices -> Entries]
  BY NAssumption DEF CacheInv, CacheTypeOK
<1>3. \A i \in 1 .. size' : cache'[Slot(read', i - 1)] \in Entries
  BY <1>1, <1>2, NAssumption
<1> QED BY <1>2, <1>3 DEF Kept

\* Two sequences of the same length and elements are the same.
LEMMA SameSequence ==
  ASSUME NEW S, NEW s \in Seq(S), NEW t \in Seq(S), Len(s) = Len(t),
         \A i \in 1 .. Len(s) : s[i] = t[i]
  PROVE  s = t
OBVIOUS

\* A push on a cache with room appends; on a full one it drops the oldest too.
LEMMA PushIsNewest ==
  ASSUME CacheInv, CacheInv', NEW e \in Entries, push(e)
  PROVE  Newest!Push(e)
<1> DEFINE rest == IF Len(Kept) < N THEN Kept ELSE Tail(Kept)
<1>1. /\ N \in Nat /\ N > 0 /\ read \in CacheIndices /\ write \in CacheIndices
      /\ size \in Nat /\ size <= N
      /\ write = Slot(read, size)
  BY NAssumption DEF CacheInv, CacheTypeOK, WriteFollowsEntries
<1> PICK n \in 0 .. N : size' = n
  BY DEF CacheInv, CacheTypeOK
<1>2. \/ size < N /\ n = size + 1 /\ read' = read
      \/ size = N /\ n = N /\ read' = plus_mask(read)
  BY DEF push
<1>3. /\ Kept' \in Seq(Entries) /\ Len(Kept') = n
      /\ \A i \in 1 .. n : Kept'[i] = cache'[Slot(read', i - 1)]
  BY KeptStaysSequence
<1>4. rest \in Seq(Entries) /\ Len(rest) = n - 1
  BY <1>1, <1>2, KeptIsSequence
<1>5. /\ Append(rest, e) \in Seq(Entries) /\ Len(Append(rest, e)) = n
      /\ Append(rest, e)[n] = e
      /\ \A i \in 1 .. n - 1 : Append(rest, e)[i] = rest[i]
  <2> HIDE DEF rest
  <2>1. \A t \in Seq(Entries) : Append(t, e)[Len(t) + 1] = e
                                /\ \A i \in 1 .. Len(t) : Append(t, e)[i] = t[i]
    OBVIOUS
  <2>2. Len(rest) + 1 = n
    BY <1>1, <1>4
  <2> QED BY <1>1, <1>4, <2>1, <2>2
<1>6. cache'[write] = e /\ \A i \in CacheIndices : i # write => cache'[i] = cache[i]
  BY <1>1 DEF push, CacheInv, CacheTypeOK
<1>7. n >= 1 /\ Slot(read', n - 1) = write
  <2>1. CASE size < N
    BY <1>1, <1>2, <2>1
  <2>2. CASE size = N
    <3>1. Slot(plus_mask(read), N - 1) = Slot(read, (N - 1) + 1)
      <4>1. N - 1 \in 0 .. N /\ N - 1 < N
        BY <1>1
      <4> QED BY <1>1, <4>1, SlotWalk
    <3>2. (N - 1) + 1 = N
      BY <1>1
    <3> QED BY <1>1, <1>2, <2>2, <3>1, <3>2
  <2> QED BY <1>2, <2>1, <2>2
<1>8. ASSUME NEW i \in 1 .. n - 1 PROVE Kept'[i] = rest[i]
  <2>1. CASE size < N
    <3>1. i \in 1 .. size /\ i \in 1 .. n /\ i - 1 \in 0 .. N /\ size \in 0 .. N /\ i - 1 < size
      BY <1>1, <1>2, <2>1
    <3>2. Slot(read, i - 1) # write /\ Slot(read, i - 1) \in CacheIndices
      BY <1>1, <2>1, <3>1, SlotWalk
    <3>3. Kept'[i] = cache[Slot(read, i - 1)]
      BY <1>2, <2>1, <3>1, <3>2, <1>6, <1>1, <1>3
    <3>4. rest = Kept /\ Kept[i] = cache[Slot(read, i - 1)]
      BY <2>1, <3>1, KeptIsSequence
    <3> QED BY <3>3, <3>4
  <2>2. CASE size = N
    <3>1. /\ i + 1 \in 1 .. size /\ i \in 1 .. n /\ i - 1 \in 0 .. N /\ i - 1 < N
          /\ (i - 1) + 1 = i /\ (i + 1) - 1 = i
          /\ i \in 0 .. N /\ N \in 0 .. N /\ 0 < i /\ i < N
      BY <1>1, <1>2, <2>2
    <3>2. read' = plus_mask(read)
      BY <1>1, <1>2, <2>2
    <3>3. Slot(read', i - 1) = Slot(read, i)
      <4>1. Slot(plus_mask(read), i - 1) = Slot(read, (i - 1) + 1)
        BY <1>1, <3>1, SlotWalk
      <4> QED BY <3>1, <3>2, <4>1
    <3>4. Slot(read, i) # write /\ Slot(read, i) \in CacheIndices
      BY <1>1, <2>2, <3>1, SlotWalk
    <3>5. Kept'[i] = cache[Slot(read, i)]
      BY <3>1, <3>3, <3>4, <1>6, <1>3
    <3>6. rest = Tail(Kept) /\ Kept[i + 1] = cache[Slot(read, i)]
      BY <1>1, <2>2, <3>1, KeptIsSequence
    <3>7. Tail(Kept)[i] = Kept[i + 1]
      BY <1>1, <2>2, <3>1, KeptIsSequence
    <3> QED BY <3>5, <3>6, <3>7
  <2> QED BY <1>2, <2>1, <2>2
<1>9. Kept'[n] = e
  <2>1. n \in 1 .. n
    BY <1>1, <1>7
  <2> QED BY <2>1, <1>6, <1>7, <1>3
<1>10. Kept' = Append(rest, e)
  <2> HIDE DEF rest
  <2>1. ASSUME NEW i \in 1 .. n PROVE Kept'[i] = Append(rest, e)[i]
    <3>1. CASE i = n
      BY <3>1, <1>5, <1>9
    <3>2. CASE i # n
      <4>1. i \in 1 .. n - 1
        BY <1>1, <3>2
      <4> QED BY <4>1, <1>5, <1>8
    <3> QED BY <3>1, <3>2
  <2> QED BY <1>5, <2>1, <1>3, SameSequence
<1> QED BY <1>10 DEF Newest!Push, push

LEMMA StalePopIsOldest ==
  ASSUME CacheInv, CacheInv', stale_pop
  PROVE  Newest!StalePop
<1>1. size \in 1 .. N /\ size' = size - 1
  BY NAssumption DEF CacheInv, CacheTypeOK, stale_pop, isempty
<1>2. Kept # <<>> /\ Head(Kept) = Kept[1] /\ taken' = Kept[1]
  <2>1. Slot(read, 0) = read
    BY NAssumption DEF CacheInv, CacheTypeOK, Slot, CacheIndices
  <2>2. taken' = Kept[1]
    BY <1>1, <2>1, KeptIsSequence, NAssumption DEF stale_pop
  <2> QED BY <1>1, <2>2, KeptIsSequence, NAssumption
<1>3. Tail(Kept) \in Seq(Entries) /\ Len(Tail(Kept)) = size'
      /\ \A i \in 1 .. size' : Tail(Kept)[i] = Kept[i + 1]
  BY <1>1, <1>2, KeptIsSequence, NAssumption
<1>4. ASSUME NEW i \in 1 .. size' PROVE Kept'[i] = Tail(Kept)[i]
  <2>1. i + 1 \in 1 .. size /\ Slot(read', i - 1) = Slot(read, i)
    BY <1>1, NAssumption DEF CacheInv, CacheTypeOK, Slot, CacheIndices, stale_pop, plus_mask
  <2>2. Kept'[i] = cache[Slot(read, i)]
    BY <2>1, KeptStaysSequence DEF stale_pop
  <2>3. Kept[i + 1] = cache[Slot(read, i)]
    BY <2>1, KeptIsSequence
  <2> QED BY <2>2, <2>3, <1>3
<1>5. Kept' = Tail(Kept)
  <2>1. Kept' \in Seq(Entries) /\ Len(Kept') = size'
    BY KeptStaysSequence
  <2> QED BY <1>3, <1>4, <2>1, SameSequence
<1> QED BY <1>2, <1>5 DEF Newest!StalePop

LEMMA FreshPopIsNewest ==
  ASSUME CacheInv, CacheInv', fresh_pop
  PROVE  Newest!FreshPop
<1>1. size \in 1 .. N /\ size' = size - 1
  BY NAssumption DEF CacheInv, CacheTypeOK, fresh_pop, isempty
<1>2. Kept # <<>> /\ taken' = Kept[Len(Kept)]
  <2>1. Slot(read, size - 1) = write'
    BY <1>1, NAssumption DEF CacheInv, CacheTypeOK, WriteFollowsEntries, Slot, CacheIndices,
                      fresh_pop, minus_mask
  <2> QED BY <1>1, <2>1, KeptIsSequence, NAssumption DEF fresh_pop
<1>3. SubSeq(Kept, 1, Len(Kept) - 1) \in Seq(Entries)
      /\ Len(SubSeq(Kept, 1, Len(Kept) - 1)) = size'
      /\ \A i \in 1 .. size' : SubSeq(Kept, 1, Len(Kept) - 1)[i] = Kept[i]
  BY <1>1, KeptIsSequence, NAssumption
<1>4. ASSUME NEW i \in 1 .. size' PROVE Kept'[i] = Kept[i]
  <2>1. i \in 1 .. size /\ Slot(read', i - 1) = Slot(read, i - 1)
    BY <1>1, NAssumption DEF CacheInv, CacheTypeOK, Slot, CacheIndices, fresh_pop
  <2> QED BY <2>1, KeptIsSequence, KeptStaysSequence DEF fresh_pop
<1>5. Kept' = SubSeq(Kept, 1, Len(Kept) - 1)
  <2>1. Kept' \in Seq(Entries) /\ Len(Kept') = size'
    BY KeptStaysSequence
  <2> QED BY <1>3, <1>4, <2>1, SameSequence
<1> QED BY <1>2, <1>5 DEF Newest!FreshPop

\* Every cache keeps the newest entries and pops the newest or the oldest of
\* them: what the connection manager takes for granted when it drains the
\* discoveries into it (PeerConnectionManager.cpp:55-63).
THEOREM CacheKeepsNewest == CacheSpec => KeepsNewest
<1>1. CacheInit => Newest!Init
  BY KeptIsSequence, InitCacheInv DEF CacheInit, Newest!Init, Kept
<1>2. CacheInv /\ CacheInv' /\ [CacheNext]_cacheVars => [Newest!Next]_<<Kept, taken>>
  <2> SUFFICES ASSUME CacheInv, CacheInv', [CacheNext]_cacheVars
               PROVE  [Newest!Next]_<<Kept, taken>>
    OBVIOUS
  <2>1. CASE stale_pop
    BY <2>1, StalePopIsOldest DEF Newest!Next
  <2>2. CASE fresh_pop
    BY <2>2, FreshPopIsNewest DEF Newest!Next
  <2>3. CASE \E val \in Entries : push(val)
    BY <2>3, PushIsNewest DEF Newest!Next
  <2>4. CASE UNCHANGED cacheVars
    BY <2>4 DEF cacheVars, Kept, Slot
  <2> QED BY <2>1, <2>2, <2>3, <2>4 DEF CacheNext
<1>3. CacheSpec => []CacheInv
  BY InitCacheInv, NextKeepsCacheInv, PTL DEF CacheSpec
<1> QED BY <1>1, <1>2, <1>3, PTL DEF CacheSpec, Newest!Spec, KeepsNewest
=============================================================================
