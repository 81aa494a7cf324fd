---------------------------- MODULE IoRingBuffer ----------------------------
(***************************************************************************)
(* io_ring_buffer<N>: a ring of bytes that recvmsg and sendmsg fill and    *)
(* empty in place, through the one or two views that prepare_write and     *)
(* prepare_read return, followed by a commit of the bytes moved.  A ring   *)
(* is a record; what the class promises is said of contents(r).            *)
(***************************************************************************)
EXTENDS Naturals, Sequences

CONSTANTS
  N,       \* the template argument, which the static_assert keeps from 0
  Bytes    \* the bytes

Addresses == 0 .. N - 1
Rings == [read : Addresses, write : Addresses, readable : 0 .. N,
          buffer : [Addresses -> Bytes]]

mask(idx) == idx % N

\* The bytes to be read, oldest first.
contents(r) == [k \in 1 .. r.readable |-> r.buffer[mask(r.read + (k - 1))]]

\* The indices of a ring agree with the number of bytes in it.
Consistent(r) == r.write = mask(r.read + r.readable)

empty(r) == r.readable = 0
full(r) == r.readable = N
r_available(r) == r.readable
w_available(r) == N - r.readable

View(base, len) == [base |-> base, len |-> len]

prepare_read(r) ==
  IF empty(r) THEN <<>>
  ELSE IF r.read < r.write \/ (full(r) /\ r.read = 0)
  THEN <<View(r.read, r.readable)>>
  ELSE <<View(r.read, N - r.read), View(0, r.write)>>

\* Faulty: an empty ring is taken for one that does not wrap around.
prepare_write_straight(r) ==
  IF full(r) THEN <<>>
  ELSE IF r.write < r.read \/ empty(r)
  THEN <<View(r.write, w_available(r))>>
  ELSE <<View(r.write, N - r.write), View(0, r.read)>>

prepare_write(r) ==
  IF full(r) THEN <<>>
  ELSE IF r.write < r.read \/ (empty(r) /\ r.write = 0)
  THEN <<View(r.write, w_available(r))>>
  ELSE <<View(r.write, N - r.write), View(0, r.read)>>

commit_read(r, bytes) ==
  [r EXCEPT !.read = mask(@ + bytes), !.readable = @ - bytes]

commit_write(r, bytes) ==
  [r EXCEPT !.write = mask(@ + bytes), !.readable = @ + bytes]

\* Faulty: the number of bytes is kept.
reset_indices(r) == [r EXCEPT !.read = 0, !.write = 0]

\* reset leaves the bytes where they are.
reset(r) == [r EXCEPT !.read = 0, !.write = 0, !.readable = 0]

\* The address of the k-th byte of one or two views taken together.
Address(views, k) ==
  IF k <= views[1].len THEN views[1].base + (k - 1)
                       ELSE views[2].base + (k - views[1].len - 1)

\* What the kernel, or memcpy, takes from the first n bytes of the views.
Gathered(r, views, n) == [k \in 1 .. n |-> r.buffer[Address(views, k)]]

\* Which byte of the views an address has, or 0.
Rank(views, i) ==
  IF views[1].base <= i /\ i < views[1].base + views[1].len
  THEN i - views[1].base + 1
  ELSE IF Len(views) = 2 /\ i < views[2].len THEN views[1].len + i + 1 ELSE 0

\* And how it leaves the buffer that it fills from the beginning of the views.
Scattered(r, views, bytes) ==
  [i \in Addresses |->
     IF Rank(views, i) \in 1 .. Len(bytes) THEN bytes[Rank(views, i)] ELSE r.buffer[i]]

\* sendmsg takes n bytes of the readable ones, and they are committed.
Taken(r, n) == Gathered(r, prepare_read(r), n)
Drained(r, n) == commit_read(r, n)

\* recvmsg, or the encoder, adds bytes of which there is room, and commits them.
Filled(r, bytes) ==
  commit_write([r EXCEPT !.buffer = Scattered(r, prepare_write(r), bytes)], Len(bytes))
=============================================================================
