----------------------------- MODULE RingProofs -----------------------------
(***************************************************************************)
(* Proofs about IoRingBuffer, for rings of every size: what is read in     *)
(* place through its views are its contents in their order, and what is    *)
(* written in place comes behind them.                                     *)
(***************************************************************************)
EXTENDS IoRingBuffer, SequenceTheorems, TLAPS

\* An index runs around the ring once at most.
LEMMA MaskWraps ==
  ASSUME N \in Nat \ {0}, NEW x \in Nat, x < 2 * N
  PROVE  mask(x) = (IF x < N THEN x ELSE x - N) /\ mask(x) \in Addresses
<1>1. x < N => x % N = x
  OBVIOUS
<1>2. x >= N => x % N = x - N
  OBVIOUS
<1> QED BY <1>1, <1>2 DEF mask, Addresses

\* Where a ring of known indices writes.
LEMMA WriteIndex ==
  ASSUME N \in Nat \ {0}, NEW r \in Rings, Consistent(r)
  PROVE  /\ r.read \in 0 .. N - 1 /\ r.write \in 0 .. N - 1 /\ r.readable \in 0 .. N
         /\ r.read + r.readable < 2 * N
         /\ r.write = IF r.read + r.readable < N THEN r.read + r.readable
                                                 ELSE r.read + r.readable - N
<1>1. r.read \in 0 .. N - 1 /\ r.write \in 0 .. N - 1 /\ r.readable \in 0 .. N
  BY DEF Rings, Addresses
<1>2. r.read + r.readable \in Nat /\ r.read + r.readable < 2 * N
  BY <1>1
<1>3. r.write = mask(r.read + r.readable)
  BY DEF Consistent
<1> QED BY <1>1, <1>2, <1>3, MaskWraps

\* contents is a sequence of the bytes between the indices.
LEMMA ContentsAre ==
  ASSUME N \in Nat \ {0}, NEW r \in Rings
  PROVE  /\ contents(r) \in Seq(Bytes) /\ Len(contents(r)) = r.readable
         /\ \A k \in 1 .. r.readable : contents(r)[k] = r.buffer[mask(r.read + (k - 1))]
<1>1. r.read \in 0 .. N - 1 /\ r.readable \in 0 .. N /\ r.buffer \in [Addresses -> Bytes]
  BY DEF Rings, Addresses
<1>2. ASSUME NEW k \in 1 .. r.readable
      PROVE  r.buffer[mask(r.read + (k - 1))] \in Bytes
  <2>1. r.read + (k - 1) \in Nat /\ r.read + (k - 1) < 2 * N
    BY <1>1
  <2> QED BY <1>1, <2>1, MaskWraps
<1> QED BY <1>1, <1>2 DEF contents

----------------------------------------------------------------------------
(* The views.                                                              *)

\* One or two views of n bytes in all.
AreViews(views, n) == \E b, l, c, m \in Nat :
  \/ views = <<View(b, l)>> /\ n = l
  \/ views = <<View(b, l), View(c, m)>> /\ n = l + m

\* The bytes to be read lie in the views of prepare_read, in their order.
LEMMA ReadViews ==
  ASSUME N \in Nat \ {0}, NEW r \in Rings, Consistent(r), ~empty(r)
  PROVE  /\ AreViews(prepare_read(r), r.readable)
         /\ \A k \in 1 .. r.readable :
              Address(prepare_read(r), k) = mask(r.read + (k - 1))
<1>1. /\ r.read \in 0 .. N - 1 /\ r.write \in 0 .. N - 1 /\ r.readable \in 1 .. N
      /\ r.read + r.readable < 2 * N
      /\ r.write = IF r.read + r.readable < N THEN r.read + r.readable
                                              ELSE r.read + r.readable - N
  BY WriteIndex DEF empty
<1>2. ASSUME NEW k \in 1 .. r.readable
      PROVE  mask(r.read + (k - 1)) = IF r.read + (k - 1) < N THEN r.read + (k - 1)
                                                            ELSE r.read + (k - 1) - N
  <2>1. r.read + (k - 1) \in Nat /\ r.read + (k - 1) < 2 * N
    BY <1>1
  <2> QED BY <1>1, <2>1, MaskWraps
<1>3. CASE r.read < r.write \/ (full(r) /\ r.read = 0)
  <2>1. prepare_read(r) = <<View(r.read, r.readable)>>
    BY <1>3 DEF prepare_read, empty
  <2>2. r.read + r.readable <= N
    BY <1>1, <1>3 DEF full
  <2>3. AreViews(prepare_read(r), r.readable)
    <3>1. /\ r.read \in Nat /\ r.readable \in Nat
          /\ prepare_read(r) = <<View(r.read, r.readable)>> /\ r.readable = r.readable
      BY <1>1, <2>1
    <3> QED BY <3>1 DEF AreViews
  <2> QED BY <1>1, <1>2, <2>1, <2>2, <2>3 DEF Address, View
<1>4. CASE ~(r.read < r.write \/ (full(r) /\ r.read = 0))
  <2>1. prepare_read(r) = <<View(r.read, N - r.read), View(0, r.write)>>
    BY <1>4 DEF prepare_read, empty
  <2>2. r.read + r.readable >= N
    BY <1>1, <1>4 DEF full
  <2>3. /\ r.write = r.read + r.readable - N
        /\ N - r.read \in Nat /\ 0 \in Nat /\ r.readable = (N - r.read) + r.write
    BY <1>1, <2>2
  <2>4. AreViews(prepare_read(r), r.readable)
    BY <1>1, <2>1, <2>3 DEF AreViews
  <2> QED BY <1>1, <1>2, <2>1, <2>2, <2>3, <2>4 DEF Address, View
<1> QED BY <1>3, <1>4

\* What sendmsg takes are the first of the contents.
LEMMA TakenFromFront ==
  ASSUME N \in Nat \ {0}, NEW r \in Rings, Consistent(r), NEW n \in 0 .. r.readable
  PROVE  /\ Taken(r, n) \in Seq(Bytes) /\ Len(Taken(r, n)) = n
         /\ \A k \in 1 .. n : Taken(r, n)[k] = contents(r)[k]
<1>1. r.readable \in 0 .. N
  BY WriteIndex
<1>2. Taken(r, n) = [k \in 1 .. n |-> r.buffer[Address(prepare_read(r), k)]]
  BY DEF Taken, Gathered
<1>3. ASSUME NEW k \in 1 .. n
      PROVE  /\ r.buffer[Address(prepare_read(r), k)] = contents(r)[k]
             /\ contents(r)[k] \in Bytes
  <2>1. k \in 1 .. r.readable /\ ~empty(r)
    BY <1>1 DEF empty
  <2> QED BY <2>1, <1>1, ReadViews, ContentsAre
<1> QED BY <1>1, <1>2, <1>3

\* And what stays are the others.
LEMMA DrainedKeepsRest ==
  ASSUME N \in Nat \ {0}, NEW r \in Rings, Consistent(r), NEW n \in 0 .. r.readable
  PROVE  /\ Drained(r, n) \in Rings /\ Consistent(Drained(r, n))
         /\ Drained(r, n).readable = r.readable - n
         /\ \A k \in 1 .. r.readable - n : contents(Drained(r, n))[k] = contents(r)[n + k]
<1> DEFINE d == Drained(r, n)
<1>1. /\ r.read \in 0 .. N - 1 /\ r.write \in 0 .. N - 1 /\ r.readable \in 0 .. N
      /\ r.read + r.readable < 2 * N
      /\ r.write = IF r.read + r.readable < N THEN r.read + r.readable
                                              ELSE r.read + r.readable - N
  BY WriteIndex
<1>2. /\ d.read = mask(r.read + n) /\ d.readable = r.readable - n
      /\ d.write = r.write /\ d.buffer = r.buffer
      /\ d = [read |-> mask(r.read + n), write |-> r.write, readable |-> r.readable - n,
             buffer |-> r.buffer]
  <2>1. d = [r EXCEPT !.read = mask(r.read + n), !.readable = r.readable - n]
    BY DEF Drained, commit_read
  <2>2. r = [read |-> r.read, write |-> r.write, readable |-> r.readable, buffer |-> r.buffer]
    BY DEF Rings
  <2> QED BY <2>1, <2>2
<1>3. /\ d.read \in Addresses
      /\ d.read = IF r.read + n < N THEN r.read + n ELSE r.read + n - N
  <2>1. r.read + n \in Nat /\ r.read + n < 2 * N
    BY <1>1
  <2> QED BY <1>1, <1>2, <2>1, MaskWraps
<1>4. d \in Rings
  <2>1. r.readable - n \in 0 .. N
    BY <1>1
  <2> QED BY <1>2, <1>3, <2>1 DEF Rings
<1>5. Consistent(d)
  <2>1. d.read + d.readable \in Nat /\ d.read + d.readable < 2 * N
    BY <1>1, <1>2, <1>3
  <2>2. mask(d.read + d.readable) = IF d.read + d.readable < N THEN d.read + d.readable
                                                              ELSE d.read + d.readable - N
    BY <1>1, <1>2, <1>3, <2>1, MaskWraps
  <2> QED BY <1>1, <1>2, <1>3, <2>2 DEF Consistent
<1>6. ASSUME NEW k \in 1 .. r.readable - n
      PROVE  contents(d)[k] = contents(r)[n + k]
  <2>1. n + k \in 1 .. r.readable /\ (n + k) - 1 = n + (k - 1)
    BY <1>1
  <2>2. d.read + (k - 1) \in Nat /\ d.read + (k - 1) < 2 * N
    BY <1>1, <1>3
  <2>3. r.read + (n + (k - 1)) \in Nat /\ r.read + (n + (k - 1)) < 2 * N
    BY <1>1, <2>1
  <2>4. mask(d.read + (k - 1)) = mask(r.read + (n + (k - 1)))
    BY <1>1, <1>3, <2>1, <2>2, <2>3, MaskWraps
  <2>5. contents(d)[k] = d.buffer[mask(d.read + (k - 1))]
    BY <1>2, <1>4, ContentsAre
  <2>6. contents(r)[n + k] = r.buffer[mask(r.read + ((n + k) - 1))]
    BY <2>1, ContentsAre
  <2> QED BY <1>2, <2>1, <2>4, <2>5, <2>6
<1> QED BY <1>2, <1>4, <1>5, <1>6

\* The address of the k-th byte that recvmsg leaves, and what it never touches.
LEMMA WriteRanks ==
  ASSUME N \in Nat \ {0}, NEW r \in Rings, Consistent(r), ~full(r)
  PROVE  /\ \A k \in 1 .. N - r.readable : Rank(prepare_write(r), mask(r.write + (k - 1))) = k
         /\ \A j \in 1 .. r.readable : Rank(prepare_write(r), mask(r.read + (j - 1))) = 0
<1> DEFINE views == prepare_write(r)
<1>1. /\ r.read \in 0 .. N - 1 /\ r.write \in 0 .. N - 1 /\ r.readable \in 0 .. N - 1
      /\ r.read + r.readable < 2 * N
      /\ r.write = IF r.read + r.readable < N THEN r.read + r.readable
                                              ELSE r.read + r.readable - N
  BY WriteIndex DEF full
<1>2. ASSUME NEW k \in 1 .. N - r.readable
      PROVE  mask(r.write + (k - 1)) = IF r.write + (k - 1) < N THEN r.write + (k - 1)
                                                              ELSE r.write + (k - 1) - N
  <2>1. r.write + (k - 1) \in Nat /\ r.write + (k - 1) < 2 * N
    BY <1>1
  <2> QED BY <1>1, <2>1, MaskWraps
<1>3. ASSUME NEW j \in 1 .. r.readable
      PROVE  mask(r.read + (j - 1)) = IF r.read + (j - 1) < N THEN r.read + (j - 1)
                                                            ELSE r.read + (j - 1) - N
  <2>1. r.read + (j - 1) \in Nat /\ r.read + (j - 1) < 2 * N
    BY <1>1
  <2> QED BY <1>1, <2>1, MaskWraps
<1>4. CASE r.write < r.read \/ (empty(r) /\ r.write = 0)
  <2>1. views = <<[base |-> r.write, len |-> N - r.readable]>>
    BY <1>4 DEF prepare_write, View, w_available
  <2>2. Len(views) = 1 /\ views[1].base = r.write /\ views[1].len = N - r.readable
    BY <2>1
  <2>3. r.write + (N - r.readable) <= N
    BY <1>1, <1>4 DEF empty
  <2>4. r.readable # 0 => r.read = r.write + (N - r.readable)
    BY <1>1, <1>4 DEF empty
  <2> HIDE DEF views
  <2>5. ASSUME NEW i \in Nat
        PROVE  Rank(views, i) = IF r.write <= i /\ i < r.write + (N - r.readable)
                                THEN i - r.write + 1 ELSE 0
    BY <2>2, <1>1 DEF Rank
  <2>6. ASSUME NEW k \in 1 .. N - r.readable PROVE Rank(views, mask(r.write + (k - 1))) = k
    BY <1>1, <1>2, <2>3, <2>5
  <2>7. ASSUME NEW j \in 1 .. r.readable PROVE Rank(views, mask(r.read + (j - 1))) = 0
    <3>1. /\ mask(r.read + (j - 1)) \in Nat
          /\ mask(r.read + (j - 1)) < r.write
               \/ mask(r.read + (j - 1)) >= r.write + (N - r.readable)
      BY <1>1, <1>3, <2>4
    <3> QED BY <1>1, <2>5, <3>1
  <2> QED BY <2>6, <2>7 DEF views
<1>5. CASE ~(r.write < r.read \/ (empty(r) /\ r.write = 0))
  <2>1. views = <<[base |-> r.write, len |-> N - r.write], [base |-> 0, len |-> r.read]>>
    BY <1>5 DEF prepare_write, View
  <2>2. /\ Len(views) = 2 /\ views[1].base = r.write /\ views[1].len = N - r.write
        /\ views[2].len = r.read
    BY <2>1
  <2>3. r.write = r.read + r.readable
    BY <1>1, <1>5 DEF empty
  <2> HIDE DEF views
  <2>5. ASSUME NEW i \in Nat, i < N
        PROVE  Rank(views, i) = IF r.write <= i THEN i - r.write + 1
                                ELSE IF i < r.read THEN N - r.write + i + 1 ELSE 0
    BY <2>2, <2>5, <1>1 DEF Rank
  <2>6. ASSUME NEW k \in 1 .. N - r.readable PROVE Rank(views, mask(r.write + (k - 1))) = k
    <3>1. /\ mask(r.write + (k - 1)) \in Nat /\ mask(r.write + (k - 1)) < N
          /\ r.write + (k - 1) < N => mask(r.write + (k - 1)) = r.write + (k - 1)
          /\ r.write + (k - 1) >= N => /\ mask(r.write + (k - 1)) = r.write + (k - 1) - N
                                       /\ mask(r.write + (k - 1)) < r.read
      BY <1>1, <1>2, <2>3
    <3> QED BY <1>1, <2>3, <2>5, <3>1
  <2>7. ASSUME NEW j \in 1 .. r.readable PROVE Rank(views, mask(r.read + (j - 1))) = 0
    BY <1>1, <1>3, <2>3, <2>5
  <2> QED BY <2>6, <2>7 DEF views
<1> QED BY <1>4, <1>5

\* A distance from the write index is one from the read index.
LEMMA WriteBeyond ==
  ASSUME N \in Nat \ {0}, NEW r \in Rings, Consistent(r), NEW n \in Nat, r.readable + n <= N
  PROVE  /\ mask(r.write + n) \in Addresses
         /\ mask(r.write + n) = mask(r.read + (r.readable + n))
<1>1. /\ r.read \in 0 .. N - 1 /\ r.write \in 0 .. N - 1 /\ r.readable \in 0 .. N
      /\ r.write = IF r.read + r.readable < N THEN r.read + r.readable
                                              ELSE r.read + r.readable - N
  BY WriteIndex
<1>2. /\ r.write + n \in Nat /\ r.write + n < 2 * N
      /\ r.read + (r.readable + n) \in Nat /\ r.read + (r.readable + n) < 2 * N
  BY <1>1
<1>3. /\ mask(r.write + n) \in Addresses
      /\ mask(r.write + n) = IF r.write + n < N THEN r.write + n ELSE r.write + n - N
  BY <1>1, <1>2, MaskWraps
<1>4. mask(r.read + (r.readable + n)) = IF r.read + (r.readable + n) < N
        THEN r.read + (r.readable + n) ELSE r.read + (r.readable + n) - N
  BY <1>1, <1>2, MaskWraps
<1>5. r.readable + n <= N /\ n \in Nat /\ N \in Nat
  OBVIOUS
<1> QED BY <1>1, <1>3, <1>4, <1>5

\* Bytes of which there is room are added behind the contents.
LEMMA FilledAppends ==
  ASSUME N \in Nat \ {0}, NEW r \in Rings, Consistent(r),
         NEW bytes \in Seq(Bytes), Len(bytes) <= w_available(r)
  PROVE  /\ Filled(r, bytes) \in Rings /\ Consistent(Filled(r, bytes))
         /\ Filled(r, bytes).readable = r.readable + Len(bytes)
         /\ \A k \in 1 .. r.readable : contents(Filled(r, bytes))[k] = contents(r)[k]
         /\ \A k \in 1 .. Len(bytes) : contents(Filled(r, bytes))[r.readable + k] = bytes[k]
<1> DEFINE f == Filled(r, bytes)
           views == prepare_write(r)
<1> PICK n \in Nat : n = Len(bytes)
  OBVIOUS
<1>1. /\ r.read \in 0 .. N - 1 /\ r.write \in 0 .. N - 1 /\ r.readable \in 0 .. N
      /\ r.read + r.readable < 2 * N
      /\ r.write = IF r.read + r.readable < N THEN r.read + r.readable
                                              ELSE r.read + r.readable - N
      /\ r.readable + n <= N
  BY WriteIndex DEF w_available
<1>2. /\ f = [read |-> r.read, write |-> mask(r.write + n), readable |-> r.readable + n,
              buffer |-> Scattered(r, views, bytes)]
      /\ f.read = r.read /\ f.write = mask(r.write + n) /\ f.readable = r.readable + n
      /\ f.buffer = Scattered(r, views, bytes)
  <2>1. r = [read |-> r.read, write |-> r.write, readable |-> r.readable, buffer |-> r.buffer]
    BY DEF Rings
  <2>2. f = [[r EXCEPT !.buffer = Scattered(r, views, bytes)]
               EXCEPT !.write = mask(r.write + n), !.readable = r.readable + n]
    BY <2>1 DEF Filled, commit_write
  <2> QED BY <2>1, <2>2
<1>3. f.write \in Addresses /\ f.write = mask(f.read + f.readable)
  BY <1>1, <1>2, WriteBeyond
<1>4. \A i \in Addresses :
        f.buffer[i] = IF Rank(views, i) \in 1 .. n THEN bytes[Rank(views, i)] ELSE r.buffer[i]
  BY <1>2 DEF Scattered
<1>5. f.buffer \in [Addresses -> Bytes]
  <2>1. ASSUME NEW i \in Addresses PROVE f.buffer[i] \in Bytes
    BY <1>4 DEF Rings
  <2> QED BY <1>2, <2>1 DEF Scattered
<1>6. f \in Rings
  <2>1. r.readable + n \in 0 .. N /\ r.read \in Addresses
    BY <1>1 DEF Addresses
  <2> QED BY <1>2, <1>3, <1>5, <2>1 DEF Rings
<1>7. Consistent(f)
  BY <1>3 DEF Consistent
<1>8. ASSUME NEW k \in 1 .. r.readable PROVE contents(f)[k] = contents(r)[k]
  <2>1. r.read + (k - 1) \in Nat /\ r.read + (k - 1) < 2 * N /\ k \in 1 .. r.readable + n
    BY <1>1
  <2>2. mask(r.read + (k - 1)) \in Addresses
    BY <1>1, <2>1, MaskWraps
  <2>3. Rank(views, mask(r.read + (k - 1))) \notin 1 .. n
    <3>1. CASE full(r)
      BY <1>1, <3>1 DEF full
    <3>2. CASE ~full(r)
      BY <3>2, WriteRanks
    <3> QED BY <3>1, <3>2
  <2>4. f.buffer[mask(r.read + (k - 1))] = r.buffer[mask(r.read + (k - 1))]
    BY <1>4, <2>2, <2>3
  <2> QED BY <1>2, <1>6, <2>1, <2>4, ContentsAre
<1>9. ASSUME NEW k \in 1 .. n PROVE contents(f)[r.readable + k] = bytes[k]
  <2>1. PICK j \in Nat : k = j + 1
    <3>1. k - 1 \in Nat /\ k = (k - 1) + 1
      OBVIOUS
    <3> QED BY <3>1
  <2>2. /\ r.readable + j <= N /\ k \in 1 .. N - r.readable
        /\ r.readable + k \in 1 .. r.readable + n
        /\ (r.readable + k) - 1 = r.readable + j /\ k - 1 = j
    <3>1. PICK q \in Nat : q = r.readable /\ q + n <= N
      BY <1>1
    <3>2. /\ q + j <= N /\ k \in 1 .. N - q /\ q + k \in 1 .. q + n
          /\ (q + k) - 1 = q + j /\ k - 1 = j
      BY <2>1, <3>1
    <3> QED BY <3>1, <3>2
  <2>3. /\ mask(r.write + j) \in Addresses
        /\ mask(r.write + j) = mask(r.read + (r.readable + j))
    BY <2>2, WriteBeyond
  <2>4. Rank(views, mask(r.write + j)) = k
    <3>1. ~full(r)
      BY <1>1, <2>2 DEF full
    <3> QED BY <2>2, <3>1, WriteRanks
  <2>5. f.buffer[mask(r.write + j)] = bytes[k]
    BY <1>4, <2>3, <2>4
  <2>6. contents(f)[r.readable + k] = f.buffer[mask(f.read + ((r.readable + k) - 1))]
    BY <1>2, <1>6, <2>2, ContentsAre
  <2> QED BY <1>2, <2>2, <2>3, <2>5, <2>6
<1> QED BY <1>2, <1>6, <1>7, <1>8, <1>9

----------------------------------------------------------------------------
(* What a caller relies on.                                                *)

\* Bytes written through the views of prepare_write, and committed, come behind
\* the contents, wherever the ring wraps around.
THEOREM WritesComeBehind ==
  ASSUME N \in Nat \ {0}, NEW r \in Rings, Consistent(r),
         NEW bytes \in Seq(Bytes), Len(bytes) <= w_available(r)
  PROVE  /\ Filled(r, bytes) \in Rings /\ Consistent(Filled(r, bytes))
         /\ Filled(r, bytes).readable = r.readable + Len(bytes)
         /\ contents(Filled(r, bytes)) = contents(r) \o bytes
<1> DEFINE f == Filled(r, bytes)
           s == contents(r)
           t == contents(f)
<1>1. f \in Rings /\ Consistent(f) /\ f.readable = r.readable + Len(bytes)
  BY FilledAppends
<1>2. /\ s \in Seq(Bytes) /\ Len(s) = r.readable
      /\ t \in Seq(Bytes) /\ Len(t) = f.readable
  BY <1>1, ContentsAre
<1>3. /\ \A k \in 1 .. r.readable : t[k] = s[k]
      /\ \A k \in 1 .. Len(bytes) : t[r.readable + k] = bytes[k]
  BY FilledAppends
<1> HIDE DEF f, s, t
<1>4. /\ s \o bytes \in Seq(Bytes) /\ Len(s \o bytes) = Len(s) + Len(bytes)
      /\ \A i \in 1 .. Len(s) + Len(bytes) :
           (s \o bytes)[i] = IF i <= Len(s) THEN s[i] ELSE bytes[i - Len(s)]
  BY <1>2, ConcatProperties
<1>5. Len(s) \in Nat /\ Len(bytes) \in Nat
  BY <1>2, LenProperties
<1>6. ASSUME NEW i \in 1 .. Len(t) PROVE t[i] = (s \o bytes)[i]
  <2>1. i \in 1 .. Len(s) + Len(bytes)
    BY <1>1, <1>2
  <2>2. CASE i <= Len(s)
    BY <1>2, <1>3, <1>4, <1>5, <2>1, <2>2
  <2>3. CASE ~(i <= Len(s))
    <3>1. i - Len(s) \in 1 .. Len(bytes) /\ Len(s) + (i - Len(s)) = i
      BY <1>5, <2>1, <2>3
    <3> QED BY <1>2, <1>3, <1>4, <2>1, <2>3, <3>1
  <2> QED BY <2>2, <2>3
<1>7. t = s \o bytes
  BY <1>1, <1>2, <1>4, <1>6, SeqEqual
<1> QED BY <1>1, <1>7 DEF f, s, t

\* Bytes read through the views of prepare_read, and committed, are the first of
\* the contents, and what stays are the others.
THEOREM ReadsComeFirst ==
  ASSUME N \in Nat \ {0}, NEW r \in Rings, Consistent(r), NEW n \in 0 .. r.readable
  PROVE  /\ Drained(r, n) \in Rings /\ Consistent(Drained(r, n))
         /\ Drained(r, n).readable = r.readable - n
         /\ Taken(r, n) \in Seq(Bytes) /\ Len(Taken(r, n)) = n
         /\ Taken(r, n) \o contents(Drained(r, n)) = contents(r)
<1> DEFINE s == contents(r)
           front == Taken(r, n)
           rest == contents(Drained(r, n))
<1>1. /\ Drained(r, n) \in Rings /\ Consistent(Drained(r, n))
      /\ Drained(r, n).readable = r.readable - n
  BY DrainedKeepsRest
<1>2. /\ s \in Seq(Bytes) /\ Len(s) = r.readable
      /\ front \in Seq(Bytes) /\ Len(front) = n
      /\ rest \in Seq(Bytes) /\ Len(rest) = r.readable - n
  BY <1>1, ContentsAre, TakenFromFront
<1>3. /\ \A k \in 1 .. n : front[k] = s[k]
      /\ \A k \in 1 .. r.readable - n : rest[k] = s[n + k]
  BY TakenFromFront, DrainedKeepsRest
<1>4. r.readable \in Nat
  BY DEF Rings
<1> HIDE DEF s, front, rest
<1>5. /\ front \o rest \in Seq(Bytes) /\ Len(front \o rest) = Len(front) + Len(rest)
      /\ \A i \in 1 .. Len(front) + Len(rest) :
           (front \o rest)[i] = IF i <= Len(front) THEN front[i] ELSE rest[i - Len(front)]
  BY <1>2, ConcatProperties
<1>6. n \in Nat /\ Len(front) + Len(rest) = r.readable
  BY <1>2, <1>4
<1>7. ASSUME NEW i \in 1 .. r.readable PROVE (front \o rest)[i] = s[i]
  <2>1. CASE i <= n
    BY <1>2, <1>3, <1>5, <1>6, <2>1
  <2>2. CASE ~(i <= n)
    <3>1. i - n \in 1 .. r.readable - n /\ n + (i - n) = i
      BY <1>4, <1>6, <2>2
    <3> QED BY <1>2, <1>3, <1>5, <1>6, <2>2, <3>1
  <2> QED BY <2>1, <2>2
<1>8. front \o rest = s
  BY <1>2, <1>5, <1>6, <1>7, SeqEqual
<1> QED BY <1>1, <1>2, <1>8 DEF s, front, rest
=============================================================================
