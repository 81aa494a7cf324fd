-------------------------- MODULE HandshakeProofs --------------------------
(***************************************************************************)
(* Proofs about Handshake, for fields of every length and every content:   *)
(* decode reads what encode wrote wherever the rings wrap around, no byte  *)
(* is lost, doubled or swapped on the way, and a party is handed over only *)
(* knowing the other one.                                                  *)
(***************************************************************************)
EXTENDS Handshake, SequenceTheorems, TLAPS

RP == INSTANCE RingProofs WITH N <- Length

----------------------------------------------------------------------------
(* The invariant.                                                          *)

Ended(e) == state[e] \in {"FAILED", "deleted"}

\* What has left e's ring and has not been decoded.
Delivered(e) == Ring!contents(recv_buffer[Other(e)]) \o wire[Other(e)]

\* The bytes from e, while the other party is there to take them.  If e has
\* ended, what it left behind begins its handshake; the accepting party ends
\* only before all of its own has left.
Flow(e) ==
  ~Ended(Other(e)) =>
    IF HasDecoded(Other(e)) THEN ~Ended(e) => Path(e) = <<>>
    ELSE IF ~Ended(e) THEN Path(e) = IF HasEncoded(e) THEN Message(e) ELSE <<>>
    ELSE \E rest \in Seq(Bytes) :
           /\ Delivered(e) \o rest = Message(e)
           /\ e = "tcp_server" => rest # <<>>

\* A party whose handshake is encoded and not sent waits for room to send it.
DiallingControl ==
  LET t == "tracker" IN
  /\ state[t] = "CONNECTING" => peer_id["tcp_server"] = Nobody
  /\ state[t] \in {"CONNECTING", "HANDSHAKE"} => peer_id[t] = Nobody
  /\ state[t] = "HANDSHAKE" /\ io[t] = "WRITE" => send_buffer[t].readable # 0
  /\ state[t] = "CONNECTED" => peer_id[t] # Nobody /\ state["tcp_server"] = "CONNECTED"

AcceptingControl ==
  LET s == "tcp_server" IN
  /\ state[s] # "CONNECTING"
  /\ state[s] = "HANDSHAKE" =>
       \/ io[s] = "READ" /\ peer_id[s] = Nobody
       \/ io[s] = "WRITE" /\ peer_id[s] # Nobody /\ send_buffer[s].readable # 0
  /\ state[s] = "CONNECTED" => peer_id[s] # Nobody

\* Who is known is who it is.
KnownIsRight == \A e \in Parties :
  HasDecoded(e) => peer_id[e] = Ids[Other(e)] /\ torrent[e] = torrent[Other(e)]

HandshakeInv ==
  /\ TypeOK
  /\ \A e \in Parties : Flow(e)
  /\ DiallingControl /\ AcceptingControl /\ KnownIsRight

----------------------------------------------------------------------------
(* Constants, and the facts about rings.                                   *)

LEMMA Lengths ==
  /\ HeaderLength \in Nat \ {0} /\ Length \in Nat \ {0}
  /\ HashLength \in Nat \ {0} /\ IdLength \in Nat \ {0}
  /\ PstrLength \in Nat /\ ReservedLength \in Nat
  /\ HeaderLength = 1 + PstrLength + ReservedLength
  /\ Length = HeaderLength + HashLength + IdLength
BY LengthAssumption DEF HeaderLength, Length

\* The two instances of the ring are the same.
LEMMA SameRings ==
  /\ Ring!Rings = RP!Rings
  /\ \A r : Ring!Consistent(r) <=> RP!Consistent(r)
  /\ \A r : Ring!contents(r) = RP!contents(r)
  /\ \A r : Ring!w_available(r) = RP!w_available(r)
  /\ \A r, bytes : Ring!Filled(r, bytes) = RP!Filled(r, bytes)
  /\ \A r, n : Ring!Taken(r, n) = RP!Taken(r, n)
  /\ \A r, n : Ring!Drained(r, n) = RP!Drained(r, n)
  /\ \A r : Ring!prepare_read(r) = RP!prepare_read(r)
  /\ \A views, k : Ring!Address(views, k) = RP!Address(views, k)
<1>1. Ring!Rings = RP!Rings
  BY DEF Ring!Rings, RP!Rings, Ring!Addresses, RP!Addresses
<1>2. \A r : Ring!Consistent(r) <=> RP!Consistent(r)
  BY DEF Ring!Consistent, RP!Consistent, Ring!mask, RP!mask
<1>3. \A r : Ring!contents(r) = RP!contents(r)
  BY DEF Ring!contents, RP!contents, Ring!mask, RP!mask
<1>4. \A r : Ring!w_available(r) = RP!w_available(r)
  BY DEF Ring!w_available, RP!w_available
<1>5. \A r : Ring!prepare_write(r) = RP!prepare_write(r) /\ Ring!prepare_read(r) = RP!prepare_read(r)
  BY DEF Ring!prepare_write, RP!prepare_write, Ring!prepare_read, RP!prepare_read, Ring!full,
         RP!full, Ring!empty, RP!empty, Ring!View, RP!View, Ring!w_available, RP!w_available
<1>6. \A r, views, bytes : Ring!Scattered(r, views, bytes) = RP!Scattered(r, views, bytes)
  BY DEF Ring!Scattered, RP!Scattered, Ring!Rank, RP!Rank, Ring!Addresses, RP!Addresses
<1>7. \A r, bytes : Ring!Filled(r, bytes) = RP!Filled(r, bytes)
  BY <1>5, <1>6 DEF Ring!Filled, RP!Filled, Ring!commit_write, RP!commit_write, Ring!mask, RP!mask
<1>8. \A r, n : Ring!Taken(r, n) = RP!Taken(r, n)
  BY <1>5 DEF Ring!Taken, RP!Taken, Ring!Gathered, RP!Gathered, Ring!Address, RP!Address
<1>9. \A r, n : Ring!Drained(r, n) = RP!Drained(r, n)
  BY DEF Ring!Drained, RP!Drained, Ring!commit_read, RP!commit_read, Ring!mask, RP!mask
<1>10. \A views, k : Ring!Address(views, k) = RP!Address(views, k)
  BY DEF Ring!Address, RP!Address
<1> QED BY <1>1, <1>2, <1>3, <1>4, <1>5, <1>7, <1>8, <1>9, <1>10

\* A ring in order.
IsRing(r) == r \in Ring!Rings /\ Ring!Consistent(r)

LEMMA RingContents ==
  ASSUME NEW r, IsRing(r)
  PROVE  /\ Ring!contents(r) \in Seq(Bytes) /\ Len(Ring!contents(r)) = r.readable
         /\ r.readable \in 0 .. Length
<1>1. r \in RP!Rings
  BY SameRings DEF IsRing
<1>2. RP!contents(r) \in Seq(Bytes) /\ Len(RP!contents(r)) = r.readable
  BY <1>1, Lengths, RP!ContentsAre
<1> QED BY <1>1, <1>2, SameRings DEF RP!Rings

LEMMA RingWrites ==
  ASSUME NEW r, IsRing(r), NEW bytes \in Seq(Bytes), Len(bytes) <= Ring!w_available(r)
  PROVE  /\ IsRing(Ring!Filled(r, bytes))
         /\ Ring!Filled(r, bytes).readable = r.readable + Len(bytes)
         /\ Ring!contents(Ring!Filled(r, bytes)) = Ring!contents(r) \o bytes
<1>1. r \in RP!Rings /\ RP!Consistent(r) /\ Len(bytes) <= RP!w_available(r)
  BY SameRings DEF IsRing
<1>2. /\ RP!Filled(r, bytes) \in RP!Rings /\ RP!Consistent(RP!Filled(r, bytes))
      /\ RP!Filled(r, bytes).readable = r.readable + Len(bytes)
      /\ RP!contents(RP!Filled(r, bytes)) = RP!contents(r) \o bytes
  BY <1>1, Lengths, RP!WritesComeBehind
<1> QED BY <1>2, SameRings DEF IsRing

LEMMA RingReads ==
  ASSUME NEW r, IsRing(r), NEW n \in 0 .. r.readable
  PROVE  /\ IsRing(Ring!Drained(r, n))
         /\ Ring!Drained(r, n).readable = r.readable - n
         /\ Ring!Taken(r, n) \in Seq(Bytes) /\ Len(Ring!Taken(r, n)) = n
         /\ Ring!Taken(r, n) \o Ring!contents(Ring!Drained(r, n)) = Ring!contents(r)
<1>1. r \in RP!Rings /\ RP!Consistent(r)
  BY SameRings DEF IsRing
<1>2. /\ RP!Drained(r, n) \in RP!Rings /\ RP!Consistent(RP!Drained(r, n))
      /\ RP!Drained(r, n).readable = r.readable - n
      /\ RP!Taken(r, n) \in Seq(Bytes) /\ Len(RP!Taken(r, n)) = n
      /\ RP!Taken(r, n) \o RP!contents(RP!Drained(r, n)) = RP!contents(r)
  BY <1>1, Lengths, RP!ReadsComeFirst
<1> QED BY <1>2, SameRings DEF IsRing

LEMMA RingReset ==
  ASSUME NEW r, IsRing(r)
  PROVE  IsRing(Ring!reset(r)) /\ Ring!contents(Ring!reset(r)) = <<>>
<1>1. 0 \in Ring!Addresses /\ 0 \in 0 .. Length /\ 0 % Length = 0
  BY Lengths DEF Ring!Addresses
<1>2. /\ Ring!reset(r) \in Ring!Rings
      /\ Ring!reset(r).read = 0 /\ Ring!reset(r).write = 0 /\ Ring!reset(r).readable = 0
  BY <1>1 DEF Ring!reset, IsRing, Ring!Rings
<1>4. IsRing(Ring!reset(r))
  BY <1>1, <1>2 DEF IsRing, Ring!Consistent, Ring!mask
<1>5. Len(Ring!contents(Ring!reset(r))) = 0
  BY <1>2, <1>4, RingContents
<1> QED BY <1>4, <1>5, RingContents, EmptySeq

----------------------------------------------------------------------------
(* The codec.                                                              *)

LEMMA FieldTypes ==
  ASSUME TypeOK, NEW e \in Parties
  PROVE  /\ torrent[e] \in [1 .. HashLength -> Bytes]
         /\ header[e] \in [1 .. HeaderLength -> Bytes]
         /\ Ids[e] \in [1 .. IdLength -> Bytes]
<1>1. /\ torrent \in [Parties -> [1 .. HashLength -> Bytes]]
      /\ header \in [Parties -> [1 .. HeaderLength -> Bytes]]
  BY FieldsAssumption DEF TypeOK
<1> QED BY <1>1, FieldsAssumption

\* A function on 1 .. n is a sequence.
LEMMA FieldIsSequence ==
  ASSUME NEW n \in Nat, NEW S, NEW f \in [1 .. n -> S]
  PROVE  f \in Seq(S) /\ Len(f) = n
<1>1. f \in Seq(S)
  OBVIOUS
<1>2. DOMAIN f = 1 .. n
  OBVIOUS
<1>3. Len(f) \in Nat /\ DOMAIN f = 1 .. Len(f)
  BY <1>1, LenProperties
<1> QED BY <1>1, <1>2, <1>3

\* Two and three sequences behind one another.
LEMMA TwoParts ==
  ASSUME NEW S, NEW s \in Seq(S), NEW t \in Seq(S)
  PROVE  /\ s \o t \in Seq(S) /\ Len(s \o t) = Len(s) + Len(t)
         /\ \A k \in 1 .. Len(s) : (s \o t)[k] = s[k]
         /\ \A k \in 1 .. Len(t) : (s \o t)[Len(s) + k] = t[k]
<1>1. /\ s \o t \in Seq(S) /\ Len(s \o t) = Len(s) + Len(t)
      /\ \A k \in 1 .. Len(s) + Len(t) : (s \o t)[k] = IF k <= Len(s) THEN s[k] ELSE t[k - Len(s)]
  BY ConcatProperties
<1>2. Len(s) \in Nat /\ Len(t) \in Nat
  OBVIOUS
<1>3. ASSUME NEW k \in 1 .. Len(s) PROVE (s \o t)[k] = s[k]
  <2>1. k \in 1 .. Len(s) + Len(t) /\ k <= Len(s)
    BY <1>2
  <2> QED BY <1>1, <2>1
<1>4. ASSUME NEW k \in 1 .. Len(t) PROVE (s \o t)[Len(s) + k] = t[k]
  <2>1. Len(s) + k \in 1 .. Len(s) + Len(t) /\ ~(Len(s) + k <= Len(s)) /\ (Len(s) + k) - Len(s) = k
    BY <1>2
  <2> QED BY <1>1, <2>1
<1> QED BY <1>1, <1>3, <1>4

AreBehind(S, s, t, u) ==
  /\ (s \o t) \o u \in Seq(S) /\ Len((s \o t) \o u) = Len(s) + Len(t) + Len(u)
  /\ \A k \in 1 .. Len(s) : ((s \o t) \o u)[k] = s[k]
  /\ \A k \in 1 .. Len(t) : ((s \o t) \o u)[Len(s) + k] = t[k]
  /\ \A k \in 1 .. Len(u) : ((s \o t) \o u)[Len(s) + Len(t) + k] = u[k]

LEMMA ThreeParts ==
  ASSUME NEW S, NEW s \in Seq(S), NEW t \in Seq(S), NEW u \in Seq(S)
  PROVE  AreBehind(S, s, t, u)
<1> PICK v : v = s \o t
  OBVIOUS
<1>0. v \in Seq(S)
  BY ConcatProperties
<1>1. /\ Len(v) = Len(s) + Len(t)
      /\ \A k \in 1 .. Len(s) : v[k] = s[k]
      /\ \A k \in 1 .. Len(t) : v[Len(s) + k] = t[k]
  BY TwoParts
<1>2. /\ v \o u \in Seq(S) /\ Len(v \o u) = Len(v) + Len(u)
      /\ \A k \in 1 .. Len(v) : (v \o u)[k] = v[k]
      /\ \A k \in 1 .. Len(u) : (v \o u)[Len(v) + k] = u[k]
  BY <1>0, TwoParts
<1>4. Len(s) \in Nat /\ Len(t) \in Nat /\ Len(u) \in Nat
  OBVIOUS
<1>5. ASSUME NEW k \in 1 .. Len(s) PROVE (v \o u)[k] = s[k]
  <2>1. k \in 1 .. Len(v)
    BY <1>1, <1>4
  <2> QED BY <1>1, <1>2, <2>1
<1>6. ASSUME NEW k \in 1 .. Len(t) PROVE (v \o u)[Len(s) + k] = t[k]
  <2>1. Len(s) + k \in 1 .. Len(v)
    BY <1>1, <1>4
  <2> QED BY <1>1, <1>2, <2>1
<1>7. /\ (s \o t) \o u \in Seq(S) /\ Len((s \o t) \o u) = Len(s) + Len(t) + Len(u)
      /\ \A k \in 1 .. Len(s) : ((s \o t) \o u)[k] = s[k]
      /\ \A k \in 1 .. Len(t) : ((s \o t) \o u)[Len(s) + k] = t[k]
      /\ \A k \in 1 .. Len(u) : ((s \o t) \o u)[Len(s) + Len(t) + k] = u[k]
  BY <1>1, <1>2, <1>5, <1>6
<1> QED BY <1>7 DEF AreBehind

\* A handshake is its fields, one behind the other.
LEMMA MessageIs ==
  ASSUME TypeOK, NEW e \in Parties
  PROVE  /\ Message(e) \in Seq(Bytes) /\ Len(Message(e)) = Length
         /\ Message(e)[1] = header[e][1]
         /\ \A k \in 1 .. HashLength : Message(e)[HeaderLength + k] = torrent[e][k]
         /\ \A k \in 1 .. IdLength : Message(e)[HeaderLength + HashLength + k] = Ids[e][k]
<1>1. /\ header[e] \in Seq(Bytes) /\ torrent[e] \in Seq(Bytes) /\ Ids[e] \in Seq(Bytes)
      /\ Len(header[e]) = HeaderLength /\ Len(torrent[e]) = HashLength /\ Len(Ids[e]) = IdLength
  BY FieldTypes, Lengths, FieldIsSequence
<1>2. AreBehind(Bytes, header[e], torrent[e], Ids[e])
  BY <1>1, ThreeParts
<1>3. Message(e) = (header[e] \o torrent[e]) \o Ids[e]
  BY DEF Message
<1>4. /\ Message(e) \in Seq(Bytes) /\ Len(Message(e)) = HeaderLength + HashLength + IdLength
      /\ \A k \in 1 .. HeaderLength : Message(e)[k] = header[e][k]
      /\ \A k \in 1 .. HashLength : Message(e)[HeaderLength + k] = torrent[e][k]
      /\ \A k \in 1 .. IdLength : Message(e)[HeaderLength + HashLength + k] = Ids[e][k]
  BY <1>1, <1>2, <1>3, Zenon DEF AreBehind
<1> QED BY <1>4, Lengths

\* encode leaves all of a handshake in an empty ring.
LEMMA EncodedWhole ==
  ASSUME NEW r, IsRing(r), r.readable = 0, NEW m \in Seq(Bytes), Len(m) = Length
  PROVE  /\ IsRing(Encoded(r, m, 0)) /\ Encoded(r, m, 0).readable = Length
         /\ Ring!contents(Encoded(r, m, 0)) = m
<1>1. Ring!w_available(r) = Length
  BY Lengths DEF Ring!w_available
<1>2. Least(Length - 0, Ring!w_available(r)) = Length
  BY <1>1, Lengths DEF Least
<1>3. SubSeq(m, 0 + 1, 0 + Length) = m
  BY Lengths, SubSeqFull
<1>4. Encoded(r, m, 0) = Ring!Filled(r, m)
  BY <1>2, <1>3 DEF Encoded
<1>5. Len(m) <= Ring!w_available(r)
  BY <1>1, Lengths
<1>6. /\ IsRing(Ring!Filled(r, m)) /\ Ring!Filled(r, m).readable = r.readable + Len(m)
      /\ Ring!contents(Ring!Filled(r, m)) = Ring!contents(r) \o m
  BY <1>5, RingWrites
<1>7. Ring!contents(r) = <<>>
  BY RingContents, EmptySeq
<1> QED BY <1>4, <1>6, <1>7, Lengths, ConcatEmptySeq

\* A pair is one behind the other.
LEMMA PairIs ==
  ASSUME NEW x, NEW y
  PROVE  <<x>> \o <<y>> = <<x, y>> 
<1>0. PICK s, t, p : s = <<x>> /\ t = <<y>> /\ p = <<x, y>>
  OBVIOUS
<1>1. s \in Seq({x, y}) /\ t \in Seq({x, y}) /\ Len(s) = 1 /\ Len(t) = 1 /\ s[1] = x /\ t[1] = y
  BY <1>0
<1>2. /\ s \o t \in Seq({x, y}) /\ Len(s \o t) = Len(s) + Len(t)
      /\ \A k \in 1 .. Len(s) : (s \o t)[k] = s[k]
      /\ \A k \in 1 .. Len(t) : (s \o t)[Len(s) + k] = t[k]
  <2>1. s \in Seq({x, y}) /\ t \in Seq({x, y})
    BY <1>1
  <2> QED BY <2>1, TwoParts
<1>3. (s \o t)[1] = x /\ (s \o t)[2] = y
  BY <1>1, <1>2
<1>4. p \in Seq({x, y}) /\ Len(p) = 2 /\ p[1] = x /\ p[2] = y
  BY <1>0
<1>6. Len(s \o t) = Len(p) /\ \A k \in 1 .. Len(s \o t) : (s \o t)[k] = p[k]
  BY <1>1, <1>2, <1>3, <1>4
<1>5. s \o t = p
  BY <1>2, <1>4, <1>6, SeqEqual
<1> QED BY <1>0, <1>5

\* One view, and two.
One(v, b, l) == v = <<Ring!View(b, l)>>
Two(v, b, l, c, m) == v = <<Ring!View(b, l), Ring!View(c, m)>>

LEMMA OneOrTwo ==
  ASSUME NEW v
  PROVE  /\ \A n : RP!AreViews(v, n) =>
              \E b, l, c, m \in Nat : (One(v, b, l) /\ n = l) \/ (Two(v, b, l, c, m) /\ n = l + m)
         /\ \A b, l \in Nat : One(v, b, l) => RP!AreViews(v, l)
         /\ \A b, l, c, m \in Nat : Two(v, b, l, c, m) => RP!AreViews(v, l + m)
BY DEF RP!AreViews, RP!View, Ring!View, One, Two

\* The three ways in which a field lies in the views.
LEMMA FieldOfOne ==
  ASSUME NEW v, NEW b \in Nat, NEW l \in Nat, One(v, b, l), NEW n \in Nat, n <= l
  PROVE  One(Field(v, n).views, b, n) /\ One(Field(v, n).rest, b + n, l - n)
<1>1. v[1] = Ring!View(b, l) /\ v[1].base = b /\ v[1].len = l
  BY DEF Ring!View, One
<1>2. Tail(v) = <<>>
  BY DEF One
<1>3. <<Ring!View(b + n, l - n)>> \o <<>> = <<Ring!View(b + n, l - n)>>
  OBVIOUS
<1>4. Field(v, n) = [views |-> <<First(v[1], n)>>, rest |-> <<Beyond(v[1], n)>> \o Tail(v)]
  BY <1>1 DEF Field
<1>5. First(v[1], n) = Ring!View(b, n) /\ Beyond(v[1], n) = Ring!View(b + n, l - n)
  BY <1>1 DEF First, Beyond
<1>6. Field(v, n).views = <<Ring!View(b, n)>>
  BY <1>4, <1>5
<1>7. Field(v, n).rest = <<Beyond(v[1], n)>> \o Tail(v)
  BY <1>4
<1>8. Field(v, n).rest = <<Ring!View(b + n, l - n)>>
  BY <1>2, <1>3, <1>5, <1>7
<1> QED BY <1>6, <1>8 DEF One

LEMMA FieldOfFirst ==
  ASSUME NEW v, NEW b \in Nat, NEW l \in Nat, NEW c \in Nat, NEW m \in Nat,
         Two(v, b, l, c, m), NEW n \in Nat, n <= l
  PROVE  One(Field(v, n).views, b, n) /\ Two(Field(v, n).rest, b + n, l - n, c, m)
<1>1. v[1] = Ring!View(b, l) /\ v[1].base = b /\ v[1].len = l
  BY DEF Ring!View, Two
<1>2. Tail(v) = <<Ring!View(c, m)>>
  BY DEF Two
<1>3. <<Ring!View(b + n, l - n)>> \o <<Ring!View(c, m)>>
        = <<Ring!View(b + n, l - n), Ring!View(c, m)>>
  BY PairIs
<1>4. Field(v, n) = [views |-> <<First(v[1], n)>>, rest |-> <<Beyond(v[1], n)>> \o Tail(v)]
  BY <1>1 DEF Field
<1>5. First(v[1], n) = Ring!View(b, n) /\ Beyond(v[1], n) = Ring!View(b + n, l - n)
  BY <1>1 DEF First, Beyond
<1>6. Field(v, n).views = <<Ring!View(b, n)>>
  BY <1>4, <1>5
<1>7. Field(v, n).rest = <<Beyond(v[1], n)>> \o Tail(v)
  BY <1>4
<1>8. Field(v, n).rest = <<Ring!View(b + n, l - n), Ring!View(c, m)>>
  BY <1>2, <1>3, <1>5, <1>7
<1> QED BY <1>6, <1>8 DEF One, Two

LEMMA FieldOfBoth ==
  ASSUME NEW v, NEW b \in Nat, NEW l \in Nat, NEW c \in Nat, NEW m \in Nat,
         Two(v, b, l, c, m), NEW n \in Nat, l < n
  PROVE  /\ Two(Field(v, n).views, b, l, c, n - l)
         /\ One(Field(v, n).rest, c + (n - l), m - (n - l))
<1>1. /\ v[1] = Ring!View(b, l) /\ v[1].base = b /\ v[1].len = l
      /\ v[2] = Ring!View(c, m) /\ v[2].base = c /\ v[2].len = m
  BY DEF Ring!View, Two
<1>4. Field(v, n) = [views |-> <<v[1], First(v[2], n - v[1].len)>>,
                     rest |-> <<Beyond(v[2], n - v[1].len)>>]
  <2>1. ~(n <= v[1].len)
    BY <1>1
  <2> QED BY <2>1 DEF Field
<1>5. /\ First(v[2], n - v[1].len) = Ring!View(c, n - l)
      /\ Beyond(v[2], n - v[1].len) = Ring!View(c + (n - l), m - (n - l))
  BY <1>1 DEF First, Beyond
<1>6. /\ Field(v, n).views = <<Ring!View(b, l), Ring!View(c, n - l)>>
      /\ Field(v, n).rest = <<Ring!View(c + (n - l), m - (n - l))>>
  BY <1>1, <1>4, <1>5
<1> QED BY <1>6 DEF One, Two

\* A field takes the first bytes of the views and leaves the others.
LEMMA FieldSplits ==
  ASSUME NEW v, NEW total \in Nat, RP!AreViews(v, total), NEW n \in Nat, n <= total
  PROVE  /\ \A k \in 1 .. n : Ring!Address(Field(v, n).views, k) = Ring!Address(v, k)
         /\ RP!AreViews(Field(v, n).rest, total - n)
         /\ \A k \in 1 .. total - n :
              Ring!Address(Field(v, n).rest, k) = Ring!Address(v, n + k)
<1> PICK b \in Nat, l \in Nat, c \in Nat, m \in Nat :
      (One(v, b, l) /\ total = l) \/ (Two(v, b, l, c, m) /\ total = l + m)
  BY OneOrTwo
<1>1. CASE One(v, b, l) /\ total = l
  <2>1. One(Field(v, n).views, b, n) /\ One(Field(v, n).rest, b + n, l - n)
    BY <1>1, FieldOfOne
  <2>2. b + n \in Nat /\ l - n \in Nat /\ total - n = l - n
    BY <1>1
  <2>3. RP!AreViews(Field(v, n).rest, total - n)
    BY <2>1, <2>2, OneOrTwo
  <2>4. ASSUME NEW k \in 1 .. n
        PROVE  Ring!Address(Field(v, n).views, k) = Ring!Address(v, k)
    <3>1. k \in Nat /\ k <= n /\ k <= l
      BY <1>1
    <3> QED BY <1>1, <2>1, <3>1 DEF One, Ring!Address, Ring!View
  <2>5. ASSUME NEW k \in 1 .. total - n
        PROVE  Ring!Address(Field(v, n).rest, k) = Ring!Address(v, n + k)
    <3>1. /\ k \in Nat /\ n + k \in Nat /\ k <= l - n /\ n + k <= l
          /\ (b + n) + (k - 1) = b + ((n + k) - 1)
      BY <1>1
    <3>2. Ring!Address(Field(v, n).rest, k) = (b + n) + (k - 1)
      BY <2>1, <2>2, <3>1 DEF One, Ring!Address, Ring!View
    <3>3. Ring!Address(v, n + k) = b + ((n + k) - 1)
      BY <1>1, <3>1 DEF One, Ring!Address, Ring!View
    <3> QED BY <3>1, <3>2, <3>3
  <2> QED BY <2>3, <2>4, <2>5
<1>2. CASE Two(v, b, l, c, m) /\ total = l + m /\ n <= l
  <2>1. One(Field(v, n).views, b, n) /\ Two(Field(v, n).rest, b + n, l - n, c, m)
    BY <1>2, FieldOfFirst
  <2>2. b + n \in Nat /\ l - n \in Nat /\ total - n = (l - n) + m
    BY <1>2
  <2>3. RP!AreViews(Field(v, n).rest, total - n)
    BY <2>1, <2>2, OneOrTwo
  <2>4. ASSUME NEW k \in 1 .. n
        PROVE  Ring!Address(Field(v, n).views, k) = Ring!Address(v, k)
    <3>1. k \in Nat /\ k <= n /\ k <= l
      BY <1>2
    <3>2. Ring!Address(Field(v, n).views, k) = b + (k - 1)
      BY <2>1, <3>1 DEF One, Ring!Address, Ring!View
    <3>3. Ring!Address(v, k) = b + (k - 1)
      BY <1>2, <3>1 DEF Two, Ring!Address, Ring!View
    <3> QED BY <3>2, <3>3
  <2>5. ASSUME NEW k \in 1 .. total - n
        PROVE  Ring!Address(Field(v, n).rest, k) = Ring!Address(v, n + k)
    <3>1. /\ k \in Nat /\ n + k \in Nat
          /\ k <= l - n <=> n + k <= l
          /\ (b + n) + (k - 1) = b + ((n + k) - 1)
          /\ c + (k - (l - n) - 1) = c + ((n + k) - l - 1)
      OBVIOUS
    <3>2. /\ k <= l - n => Ring!Address(Field(v, n).rest, k) = (b + n) + (k - 1)
          /\ ~(k <= l - n) => Ring!Address(Field(v, n).rest, k) = c + (k - (l - n) - 1)
      BY <2>1, <2>2, <3>1 DEF Two, Ring!Address, Ring!View
    <3>3. /\ n + k <= l => Ring!Address(v, n + k) = b + ((n + k) - 1)
          /\ ~(n + k <= l) => Ring!Address(v, n + k) = c + ((n + k) - l - 1)
      BY <1>2, <3>1 DEF Two, Ring!Address, Ring!View
    <3> QED BY <3>1, <3>2, <3>3
  <2> QED BY <2>3, <2>4, <2>5
<1>3. CASE Two(v, b, l, c, m) /\ total = l + m /\ l < n
  <2>1. /\ Two(Field(v, n).views, b, l, c, n - l)
        /\ One(Field(v, n).rest, c + (n - l), m - (n - l))
    BY <1>3, FieldOfBoth
  <2>2. /\ n - l \in Nat /\ c + (n - l) \in Nat /\ m - (n - l) \in Nat
        /\ total - n = m - (n - l)
    BY <1>3
  <2>3. RP!AreViews(Field(v, n).rest, total - n)
    BY <2>1, <2>2, OneOrTwo
  <2>4. ASSUME NEW k \in 1 .. n
        PROVE  Ring!Address(Field(v, n).views, k) = Ring!Address(v, k)
    <3>1. k \in Nat
      OBVIOUS
    <3>2. /\ k <= l => Ring!Address(Field(v, n).views, k) = b + (k - 1)
          /\ ~(k <= l) => Ring!Address(Field(v, n).views, k) = c + (k - l - 1)
      BY <2>1, <2>2, <3>1 DEF Two, Ring!Address, Ring!View
    <3>3. /\ k <= l => Ring!Address(v, k) = b + (k - 1)
          /\ ~(k <= l) => Ring!Address(v, k) = c + (k - l - 1)
      BY <1>3, <3>1 DEF Two, Ring!Address, Ring!View
    <3> QED BY <3>2, <3>3
  <2>5. ASSUME NEW k \in 1 .. total - n
        PROVE  Ring!Address(Field(v, n).rest, k) = Ring!Address(v, n + k)
    <3>1. /\ k \in Nat /\ n + k \in Nat /\ k <= m - (n - l) /\ ~(n + k <= l)
          /\ (c + (n - l)) + (k - 1) = c + ((n + k) - l - 1)
      BY <1>3
    <3>2. Ring!Address(Field(v, n).rest, k) = (c + (n - l)) + (k - 1)
      BY <2>1, <2>2, <3>1 DEF One, Ring!Address, Ring!View
    <3>3. Ring!Address(v, n + k) = c + ((n + k) - l - 1)
      BY <1>3, <3>1 DEF Two, Ring!Address, Ring!View
    <3> QED BY <3>1, <3>2, <3>3
  <2> QED BY <2>3, <2>4, <2>5
<1> QED BY <1>1, <1>2, <1>3

\* Views of what a ring holds behind its first o bytes.
Covers(v, r, o) ==
  /\ RP!AreViews(v, r.readable - o)
  /\ \A k \in 1 .. r.readable - o : r.buffer[Ring!Address(v, k)] = Ring!contents(r)[o + k]

LEMMA ReadCovers ==
  ASSUME NEW r, IsRing(r), r.readable # 0
  PROVE  Covers(Ring!prepare_read(r), r, 0)
<1>1. r \in RP!Rings /\ RP!Consistent(r) /\ ~RP!empty(r)
  BY SameRings DEF IsRing, RP!empty
<1>2. /\ RP!AreViews(RP!prepare_read(r), r.readable)
      /\ \A k \in 1 .. r.readable :
           RP!Address(RP!prepare_read(r), k) = RP!mask(r.read + (k - 1))
  BY <1>1, Lengths, RP!ReadViews
<1>3. \A k \in 1 .. r.readable : RP!contents(r)[k] = r.buffer[RP!mask(r.read + (k - 1))]
  BY <1>1, Lengths, RP!ContentsAre
<1>4. r.readable \in Nat /\ r.readable - 0 = r.readable
  BY RingContents
<1>5. ASSUME NEW k \in 1 .. r.readable
      PROVE  r.buffer[Ring!Address(Ring!prepare_read(r), k)] = Ring!contents(r)[0 + k]
  BY <1>2, <1>3, SameRings
<1> QED BY <1>2, <1>4, <1>5, SameRings DEF Covers

\* A field of n bytes behind the first o takes these bytes.
TakesBytes(v, n, r, o) ==
  /\ Covers(Field(v, n).rest, r, o + n)
  /\ Ring!Gathered(r, Field(v, n).views, n) = [k \in 1 .. n |-> Ring!contents(r)[o + k]]

LEMMA FieldReads ==
  ASSUME NEW r, IsRing(r), NEW v, NEW o \in Nat, NEW n \in Nat, o + n <= r.readable,
         Covers(v, r, o)
  PROVE  TakesBytes(v, n, r, o)
<1> PICK q \in Nat : q = r.readable
  BY RingContents
<1> PICK total \in Nat : total = q - o
  OBVIOUS
<1>1. /\ RP!AreViews(v, total) /\ n <= total /\ q - (o + n) = total - n
  BY DEF Covers
<1>2. /\ \A k \in 1 .. n : Ring!Address(Field(v, n).views, k) = Ring!Address(v, k)
      /\ RP!AreViews(Field(v, n).rest, total - n)
      /\ \A k \in 1 .. total - n :
           Ring!Address(Field(v, n).rest, k) = Ring!Address(v, n + k)
  BY <1>1, FieldSplits
<1>3. \A k \in 1 .. total : r.buffer[Ring!Address(v, k)] = Ring!contents(r)[o + k]
  BY DEF Covers
<1>4. ASSUME NEW k \in 1 .. n
      PROVE  r.buffer[Ring!Address(Field(v, n).views, k)] = Ring!contents(r)[o + k]
  <2>1. k \in 1 .. total
    BY <1>1
  <2> QED BY <1>2, <1>3, <2>1
<1>5. ASSUME NEW k \in 1 .. total - n
      PROVE  r.buffer[Ring!Address(Field(v, n).rest, k)] = Ring!contents(r)[(o + n) + k]
  <2>1. n + k \in 1 .. total /\ o + (n + k) = (o + n) + k
    BY <1>1
  <2> QED BY <1>2, <1>3, <2>1
<1>6. Covers(Field(v, n).rest, r, o + n)
  BY <1>1, <1>2, <1>5 DEF Covers
<1>7. Ring!Gathered(r, Field(v, n).views, n) = [k \in 1 .. n |-> Ring!contents(r)[o + k]]
  BY <1>4 DEF Ring!Gathered
<1> QED BY <1>6, <1>7 DEF TakesBytes

\* decode reads the fields of what the ring holds, wherever it wraps around.
THEOREM DecodesWhatArrived ==
  ASSUME NEW r, IsRing(r), r.readable = Length,
         NEW info_hash \in [1 .. HashLength -> Bytes], NEW id
  PROVE  LET m == Ring!contents(r)
             d == Decoded(r, info_hash, id)
         IN /\ d.valid <=> /\ m[1] = Pstrlen
                           /\ \A k \in 1 .. HashLength : m[HeaderLength + k] = info_hash[k]
            /\ d.valid => d.id = [k \in 1 .. IdLength |-> m[HeaderLength + HashLength + k]]
            /\ ~d.valid => d.id = id
<1> DEFINE m == Ring!contents(r)
           pstrlen == Field(Ring!prepare_read(r), 1)
           pstr == Field(pstrlen.rest, PstrLength)
           reserved == Field(pstr.rest, ReservedLength)
           hash == Field(reserved.rest, HashLength)
           peer == Field(hash.rest, IdLength)
           valid == /\ Ring!Gathered(r, pstrlen.views, 1)[1] = Pstrlen
                    /\ Ring!Gathered(r, hash.views, HashLength) = info_hash
<1>1. Decoded(r, info_hash, id) =
        [valid |-> valid, id |-> IF valid THEN Ring!Gathered(r, peer.views, IdLength) ELSE id]
  BY DEF Decoded
<1>2. Covers(Ring!prepare_read(r), r, 0)
  BY Lengths, ReadCovers
<1>3. /\ 0 \in Nat /\ 1 \in Nat /\ 0 + 1 <= r.readable
      /\ 0 + 1 \in Nat /\ PstrLength \in Nat /\ (0 + 1) + PstrLength <= r.readable
      /\ (0 + 1) + PstrLength \in Nat /\ ReservedLength \in Nat
      /\ ((0 + 1) + PstrLength) + ReservedLength <= r.readable
      /\ ((0 + 1) + PstrLength) + ReservedLength = HeaderLength
      /\ HeaderLength \in Nat /\ HashLength \in Nat /\ HeaderLength + HashLength <= r.readable
      /\ HeaderLength + HashLength \in Nat /\ IdLength \in Nat
      /\ (HeaderLength + HashLength) + IdLength <= r.readable
  BY Lengths
<1>4. TakesBytes(Ring!prepare_read(r), 1, r, 0)
  BY <1>2, <1>3, FieldReads
<1>5. TakesBytes(pstrlen.rest, PstrLength, r, 0 + 1)
  <2>1. Covers(pstrlen.rest, r, 0 + 1)
    BY <1>4 DEF TakesBytes
  <2> QED BY <2>1, <1>3, FieldReads
<1>6. TakesBytes(pstr.rest, ReservedLength, r, (0 + 1) + PstrLength)
  <2>1. Covers(pstr.rest, r, (0 + 1) + PstrLength)
    BY <1>5 DEF TakesBytes
  <2> QED BY <2>1, <1>3, FieldReads
<1>7. TakesBytes(reserved.rest, HashLength, r, HeaderLength)
  <2>1. Covers(reserved.rest, r, HeaderLength)
    BY <1>3, <1>6 DEF TakesBytes
  <2> QED BY <2>1, <1>3, FieldReads
<1>8. TakesBytes(hash.rest, IdLength, r, HeaderLength + HashLength)
  <2>1. Covers(hash.rest, r, HeaderLength + HashLength)
    BY <1>7 DEF TakesBytes
  <2> QED BY <2>1, <1>3, FieldReads
<1>9. /\ Ring!Gathered(r, pstrlen.views, 1) = [k \in 1 .. 1 |-> m[0 + k]]
      /\ Ring!Gathered(r, hash.views, HashLength) = [k \in 1 .. HashLength |-> m[HeaderLength + k]]
      /\ Ring!Gathered(r, peer.views, IdLength) =
           [k \in 1 .. IdLength |-> m[(HeaderLength + HashLength) + k]]
  BY <1>4, <1>7, <1>8 DEF TakesBytes
<1> HIDE DEF pstrlen, hash, peer, reserved, pstr, m
<1>10. Ring!Gathered(r, pstrlen.views, 1)[1] = m[1]
  BY <1>9
<1>11. Ring!Gathered(r, hash.views, HashLength) = info_hash <=>
         \A k \in 1 .. HashLength : m[HeaderLength + k] = info_hash[k]
  BY <1>9
<1> QED BY <1>1, <1>9, <1>10, <1>11 DEF m

----------------------------------------------------------------------------
(* How bytes move.                                                         *)

LEMMA Concat ==
  /\ \A s, t \in Seq(Bytes) : s \o t \in Seq(Bytes)
  /\ \A s, t, u \in Seq(Bytes) : (s \o t) \o u = s \o (t \o u)
<1>1. ASSUME NEW s \in Seq(Bytes), NEW t \in Seq(Bytes) PROVE s \o t \in Seq(Bytes)
  BY ConcatProperties
<1>2. ASSUME NEW s \in Seq(Bytes), NEW t \in Seq(Bytes), NEW u \in Seq(Bytes)
      PROVE  (s \o t) \o u = s \o (t \o u)
  BY ConcatAssociative
<1> QED BY <1>1, <1>2

\* Bytes that are sent stay in their order.
SentBytes(s, w, r, n) ==
  /\ w \o Ring!Taken(r, n) \in Seq(Bytes)
  /\ IsRing(Ring!Drained(r, n)) /\ Ring!Drained(r, n).readable = r.readable - n
  /\ (s \o (w \o Ring!Taken(r, n))) \o Ring!contents(Ring!Drained(r, n))
       = (s \o w) \o Ring!contents(r)

LEMMA SendMoves ==
  ASSUME NEW s \in Seq(Bytes), NEW w \in Seq(Bytes), NEW r, IsRing(r), NEW n \in 0 .. r.readable
  PROVE  SentBytes(s, w, r, n)
<1> PICK t, c : t = Ring!Taken(r, n) /\ c = Ring!contents(Ring!Drained(r, n))
  OBVIOUS
<1>1. /\ t \in Seq(Bytes) /\ IsRing(Ring!Drained(r, n))
      /\ Ring!Drained(r, n).readable = r.readable - n /\ t \o c = Ring!contents(r)
  BY RingReads
<1>2. c \in Seq(Bytes)
  BY <1>1, RingContents
<1>3. w \o t \in Seq(Bytes) /\ s \o w \in Seq(Bytes)
  BY <1>1, ConcatProperties
<1>4. (s \o (w \o t)) \o c = (s \o w) \o (t \o c)
  <2>1. s \o (w \o t) = (s \o w) \o t
    BY <1>1, Concat, Zenon
  <2>2. ((s \o w) \o t) \o c = (s \o w) \o (t \o c)
    <3> PICK v : v = s \o w
      OBVIOUS
    <3>1. v \in Seq(Bytes) /\ t \in Seq(Bytes) /\ c \in Seq(Bytes)
      BY <1>1, <1>2, <1>3
    <3>2. (v \o t) \o c = v \o (t \o c)
      BY <3>1, Concat, Zenon
    <3> QED BY <3>2
  <2> QED BY <2>1, <2>2
<1> QED BY <1>1, <1>3, <1>4 DEF SentBytes

\* And so do bytes that arrive.
ReceivedBytes(r, w, f, left) ==
  /\ IsRing(f) /\ left \in Seq(Bytes)
  /\ Ring!contents(f) \o left = Ring!contents(r) \o w

LEMMA ReceiveMoves ==
  ASSUME NEW r, IsRing(r), NEW w \in Seq(Bytes), NEW n \in Nat, n <= Len(w),
         n <= Ring!w_available(r)
  PROVE  ReceivedBytes(r, w, Ring!Filled(r, SubSeq(w, 1, n)), SubSeq(w, n + 1, Len(w)))
<1> PICK a, b : a = SubSeq(w, 1, n) /\ b = SubSeq(w, n + 1, Len(w))
  OBVIOUS
<1>1. Len(w) \in Nat /\ \A i \in 1 .. Len(w) : w[i] \in Bytes
  OBVIOUS
<1>2. a \in Seq(Bytes) /\ Len(a) = n
  <2>1. 1 \in Int /\ n \in Int /\ \A i \in 1 .. n : w[i] \in Bytes
    BY <1>1
  <2>2. /\ SubSeq(w, 1, n) \in Seq(Bytes)
        /\ Len(SubSeq(w, 1, n)) = IF 1 <= n THEN n - 1 + 1 ELSE 0
    BY <2>1, SubSeqProperties
  <2> QED BY <2>2
<1>3. b \in Seq(Bytes)
  <2>1. n + 1 \in Int /\ Len(w) \in Int /\ \A i \in n + 1 .. Len(w) : w[i] \in Bytes
    BY <1>1
  <2>2. SubSeq(w, n + 1, Len(w)) \in Seq(Bytes)
    BY <2>1, SubSeqProperties
  <2> QED BY <2>2
<1>4. a \o b = w
  <2>1. 1 \in 1 .. Len(w) + 1 /\ n \in 1 - 1 .. Len(w) /\ Len(w) \in n .. Len(w)
    BY <1>1
  <2>2. SubSeq(w, 1, n) \o SubSeq(w, n + 1, Len(w)) = SubSeq(w, 1, Len(w))
    BY <2>1, ConcatAdjacentSubSeq
  <2> QED BY <2>2, SubSeqFull
<1>5. IsRing(Ring!Filled(r, a)) /\ Ring!contents(Ring!Filled(r, a)) = Ring!contents(r) \o a
  BY <1>2, RingWrites
<1>6. (Ring!contents(r) \o a) \o b = Ring!contents(r) \o (a \o b)
  <2>1. Ring!contents(r) \in Seq(Bytes)
    BY RingContents
  <2> QED BY <1>2, <1>3, <2>1, Concat, Zenon
<1> QED BY <1>3, <1>4, <1>5, <1>6 DEF ReceivedBytes

\* What is as long as the whole is the whole.
LEMMA WholeIs ==
  ASSUME NEW S, NEW s \in Seq(S), NEW t \in Seq(S), NEW m \in Seq(S),
         s \o t = m, Len(s) = Len(m)
  PROVE  s = m /\ t = <<>>
<1>1. Len(s) \in Nat /\ Len(t) \in Nat /\ Len(s \o t) = Len(s) + Len(t)
  BY ConcatProperties
<1>2. Len(t) = 0
  BY <1>1
<1>3. t = <<>>
  BY <1>2, EmptySeq
<1> QED BY <1>3, ConcatEmptySeq

LEMMA NothingIs ==
  ASSUME NEW S, NEW s \in Seq(S), NEW t \in Seq(S), NEW u \in Seq(S)
  PROVE  /\ (s \o t) \o u = <<>> <=> s = <<>> /\ t = <<>> /\ u = <<>>
         /\ (s \o t) \o u \in Seq(S)
<1> PICK v : v = s \o t
  OBVIOUS
<1>1. v \in Seq(S) /\ Len(v) = Len(s) + Len(t)
  BY ConcatProperties
<1>2. v \o u \in Seq(S) /\ Len(v \o u) = Len(v) + Len(u)
  BY <1>1, ConcatProperties
<1>3. Len(s) \in Nat /\ Len(t) \in Nat /\ Len(u) \in Nat /\ Len(v) \in Nat
  BY <1>1
<1>4. /\ s = <<>> <=> Len(s) = 0
      /\ t = <<>> <=> Len(t) = 0
      /\ u = <<>> <=> Len(u) = 0
      /\ v \o u = <<>> <=> Len(v \o u) = 0
  BY <1>2, EmptySeq
<1> QED BY <1>1, <1>2, <1>3, <1>4

----------------------------------------------------------------------------
(* The invariant is inductive.                                             *)

LEMMA Both ==
  /\ \A e \in Parties : Other(e) \in Parties /\ Other(e) # e /\ Other(Other(e)) = e
  /\ \A e, f \in Parties : f = e \/ f = Other(e)
  /\ Other("tracker") = "tcp_server" /\ Other("tcp_server") = "tracker"
  /\ "tracker" \in Parties /\ "tcp_server" \in Parties
  /\ \A e \in Parties : e = "tracker" \/ e = "tcp_server"
BY DEF Other, Parties

LEMMA RingFacts ==
  ASSUME TypeOK, NEW e \in Parties
  PROVE  /\ IsRing(send_buffer[e]) /\ IsRing(recv_buffer[e]) /\ wire[e] \in Seq(Bytes)
         /\ Ring!contents(send_buffer[e]) \in Seq(Bytes)
         /\ Ring!contents(recv_buffer[e]) \in Seq(Bytes)
         /\ Len(Ring!contents(send_buffer[e])) = send_buffer[e].readable
         /\ send_buffer[e].readable \in 0 .. Length /\ recv_buffer[e].readable \in 0 .. Length
<1>1. IsRing(send_buffer[e]) /\ IsRing(recv_buffer[e]) /\ wire[e] \in Seq(Bytes)
  BY DEF TypeOK, IsRing
<1> QED BY <1>1, RingContents

\* The bytes from e, if they change only in place, stay as the invariant wants.
FlowStays(f) ==
  /\ Message(f)' = Message(f) /\ Path(f)' = Path(f)
  /\ Ended(f) => Delivered(f)' = Delivered(f)
  /\ Ended(f)' <=> Ended(f)
  /\ Ended(Other(f)) => Ended(Other(f))'
  /\ HasEncoded(f)' <=> HasEncoded(f)
  /\ HasDecoded(Other(f))' <=> HasDecoded(Other(f))

LEMMA FlowKept ==
  ASSUME NEW f \in Parties, Flow(f), FlowStays(f)
  PROVE  Flow(f)'
BY DEF Flow, FlowStays

LEMMA MessagesStay ==
  ASSUME UNCHANGED <<torrent, header>>, NEW f
  PROVE  Message(f)' = Message(f)
BY DEF Message

\* HandshakeSent: bytes go from the ring to the wire.
LEMMA SentKeeps ==
  ASSUME HandshakeInv, NEW e \in Parties, NEW n, HandshakeSent(e, n)
  PROVE  HandshakeInv'
<1> PICK o \in Parties : o = Other(e) /\ o # e /\ Other(o) = e
  BY Both
<1> PICK r : r = send_buffer[e]
  OBVIOUS
<1>1. /\ state[e] = "HANDSHAKE" /\ io[e] = "WRITE" /\ n \in 0 .. r.readable
      /\ send_buffer' = [send_buffer EXCEPT ![e] = Ring!Drained(r, n)]
      /\ wire' = [wire EXCEPT ![o] = wire[o] \o Ring!Taken(r, n)]
      /\ UNCHANGED <<torrent, header, recv_buffer, peer_id, timedOut>>
  BY DEF HandshakeSent, SendAndWait, Send
<1>2. /\ state' = [state EXCEPT ![e] = IF n = r.readable /\ e = "tcp_server"
                                       THEN "CONNECTED" ELSE "HANDSHAKE"]
      /\ io' = [io EXCEPT ![e] = IF n # r.readable THEN "WRITE"
                                 ELSE IF e = "tracker" THEN "READ" ELSE "off"]
  BY Both DEF HandshakeSent, SendAndWait, Exhausted
<1>3. /\ TypeOK /\ DiallingControl /\ AcceptingControl /\ KnownIsRight
      /\ Flow(e) /\ Flow(o)
  BY DEF HandshakeInv
<1>5. /\ IsRing(r) /\ wire[o] \in Seq(Bytes) /\ Ring!contents(recv_buffer[o]) \in Seq(Bytes)
  BY <1>3, RingFacts
<1>6. SentBytes(Ring!contents(recv_buffer[o]), wire[o], r, n)
  BY <1>1, <1>5, SendMoves
<1>7. TypeOK'
  BY <1>1, <1>2, <1>3, <1>6 DEF TypeOK, States, IsRing, SentBytes
<1>8. /\ send_buffer'[e] = Ring!Drained(r, n) /\ send_buffer'[o] = send_buffer[o]
      /\ wire'[o] = wire[o] \o Ring!Taken(r, n) /\ wire'[e] = wire[e]
      /\ state'[o] = state[o] /\ io'[o] = io[o]
      /\ state'[e] \in {"HANDSHAKE", "CONNECTED"}
      /\ e = "tracker" => state'[e] = "HANDSHAKE"
      /\ e = "tracker" /\ io'[e] = "WRITE" => n # r.readable
      /\ e = "tcp_server" /\ state'[e] = "HANDSHAKE" => io'[e] = "WRITE" /\ n # r.readable
  BY <1>1, <1>2, <1>3 DEF TypeOK
<1>9. Path(e)' = Path(e) /\ Path(o)' = Path(o) /\ Delivered(o)' = Delivered(o)
  BY <1>1, <1>6, <1>8 DEF Path, Delivered, SentBytes
<1>10. ~Ended(e) /\ ~Ended(e)' /\ (Ended(o)' <=> Ended(o))
  BY <1>1, <1>8 DEF Ended
<1>11. /\ HasDecoded(e)' <=> HasDecoded(e)
       /\ HasDecoded(o)' <=> HasDecoded(o)
       /\ HasEncoded(e)' <=> HasEncoded(e)
       /\ HasEncoded(o)' <=> HasEncoded(o)
  BY <1>1, <1>8 DEF HasDecoded, HasEncoded
<1>12. FlowStays(e) /\ FlowStays(o)
  BY <1>1, <1>9, <1>10, <1>11, MessagesStay DEF FlowStays
<1>13. Flow(e)' /\ Flow(o)'
  BY <1>3, <1>12, FlowKept
<1>14. send_buffer'[e].readable # 0 \/ n = r.readable
  BY <1>1, <1>5, <1>6, <1>8, RingContents DEF SentBytes
<1>15. DiallingControl' /\ AcceptingControl'
  <2>1. CASE e = "tracker"
    <3>1. o = "tcp_server"
      BY <2>1, Both
    <3> QED BY <1>1, <1>3, <1>8, <1>14, <2>1, <3>1 DEF DiallingControl, AcceptingControl
  <2>2. CASE e = "tcp_server"
    <3>1. o = "tracker"
      BY <2>2, Both
    <3> QED BY <1>1, <1>3, <1>8, <1>14, <2>2, <3>1 DEF DiallingControl, AcceptingControl
  <2> QED BY <2>1, <2>2, Both
<1>16. KnownIsRight'
  BY <1>1, <1>3 DEF KnownIsRight, HasDecoded
<1> QED BY <1>7, <1>13, <1>15, <1>16, Both DEF HandshakeInv

\* What a party leaves behind that ends before all of its handshake has arrived.
LEMMA EndLeaves ==
  ASSUME HandshakeInv, NEW e \in Parties, ~Ended(e), ~HasDecoded(Other(e)), ~Ended(Other(e)),
         state[e] \in {"CONNECTING", "HANDSHAKE"}
  PROVE  \E rest \in Seq(Bytes) :
           Delivered(e) \o rest = Message(e) /\ (e = "tcp_server" => rest # <<>>)
<1> PICK o \in Parties : o = Other(e)
  BY Both
<1>1. TypeOK /\ Flow(e) /\ AcceptingControl
  BY DEF HandshakeInv
<1> PICK a, w, c : /\ a = Ring!contents(recv_buffer[o]) /\ w = wire[o]
                   /\ c = Ring!contents(send_buffer[e])
  OBVIOUS
<1>2. a \in Seq(Bytes) /\ w \in Seq(Bytes) /\ c \in Seq(Bytes) /\ Len(c) = send_buffer[e].readable
  BY <1>1, RingFacts
<1>3. /\ Path(e) = (a \o w) \o c /\ Delivered(e) = a \o w
  BY DEF Path, Delivered
<1>4. Path(e) = IF HasEncoded(e) THEN Message(e) ELSE <<>>
  BY <1>1 DEF Flow
<1>5. Message(e) \in Seq(Bytes) /\ Len(Message(e)) = Length
  BY <1>1, MessageIs
<1>6. CASE HasEncoded(e)
  <2>1. e = "tcp_server" => c # <<>>
    <3>1. e = "tcp_server" => send_buffer[e].readable # 0
      BY <1>1, <1>6 DEF AcceptingControl, HasEncoded
    <3> QED BY <1>2, <3>1, EmptySeq
  <2> QED BY <1>2, <1>3, <1>4, <1>6, <2>1
<1>7. CASE ~HasEncoded(e)
  <2>1. (a \o w) \o c = <<>>
    BY <1>3, <1>4, <1>7
  <2>2. a = <<>> /\ w = <<>>
    BY <1>2, <2>1, NothingIs
  <2>3. a \o w = <<>>
    BY <1>2, <2>2, ConcatEmptySeq
  <2>4. <<>> \o Message(e) = Message(e)
    BY <1>5, ConcatEmptySeq
  <2>5. Message(e) # <<>>
    BY <1>5, Lengths, EmptySeq
  <2> QED BY <1>3, <1>5, <2>3, <2>4, <2>5
<1> QED BY <1>6, <1>7

\* Fails, ConnectTimer and HandshakeRefused: a party ends.
LEMMA EndsKeeps ==
  ASSUME HandshakeInv, NEW e \in Parties, NEW how \in {"FAILED", "deleted"}, Ends(e, how),
         state[e] \in {"CONNECTING", "HANDSHAKE"}, timedOut' \in BOOLEAN, UNCHANGED peer_id,
         wire' \in [Parties -> Seq(Bytes)], wire'[Other(e)] = wire[Other(e)]
  PROVE  HandshakeInv'
<1> PICK o \in Parties : o = Other(e) /\ o # e /\ Other(o) = e
  BY Both
<1>1. /\ state' = [state EXCEPT ![e] = how]
      /\ io' = [io EXCEPT ![e] = "off"]
      /\ send_buffer' = [send_buffer EXCEPT ![e] = Ring!reset(send_buffer[e])]
      /\ recv_buffer' = [recv_buffer EXCEPT ![e] = Ring!reset(recv_buffer[e])]
      /\ UNCHANGED <<torrent, header>>
  BY DEF Ends
<1>2. /\ TypeOK /\ DiallingControl /\ AcceptingControl /\ KnownIsRight
      /\ Flow(e) /\ Flow(o)
  BY DEF HandshakeInv
<1>3. IsRing(Ring!reset(send_buffer[e])) /\ IsRing(Ring!reset(recv_buffer[e]))
  BY <1>2, RingFacts, RingReset
<1>4. TypeOK'
  BY <1>1, <1>2, <1>3 DEF TypeOK, States, IsRing
<1>5. /\ state'[e] = how /\ state'[o] = state[o] /\ io'[o] = io[o]
      /\ send_buffer'[o] = send_buffer[o] /\ recv_buffer'[o] = recv_buffer[o]
      /\ wire'[o] = wire[o]
  BY <1>1, <1>2 DEF TypeOK
<1>6. ~Ended(e) /\ Ended(e)' /\ (Ended(o)' <=> Ended(o))
  BY <1>5 DEF Ended
<1>7. (HasDecoded(o)' <=> HasDecoded(o)) /\ Delivered(e)' = Delivered(e) /\ Message(e)' = Message(e)
  BY <1>1, <1>5 DEF HasDecoded, Delivered, Message
<1>8. Flow(o)'
  BY <1>6 DEF Flow
<1>9. Flow(e)'
  <2>1. CASE Ended(o) \/ HasDecoded(o)
    BY <1>6, <1>7, <2>1 DEF Flow
  <2>2. CASE ~Ended(o) /\ ~HasDecoded(o)
    <3>1. \E rest \in Seq(Bytes) :
            Delivered(e) \o rest = Message(e) /\ (e = "tcp_server" => rest # <<>>)
      BY <1>6, <2>2, EndLeaves
    <3> QED BY <1>6, <1>7, <2>2, <3>1 DEF Flow
  <2> QED BY <2>1, <2>2
<1>10. DiallingControl' /\ AcceptingControl'
  <2>1. CASE e = "tracker"
    <3>1. o = "tcp_server"
      BY <2>1, Both
    <3> QED BY <1>1, <1>2, <1>5, <2>1, <3>1 DEF DiallingControl, AcceptingControl
  <2>2. CASE e = "tcp_server"
    <3>1. o = "tracker"
      BY <2>2, Both
    <3> QED BY <1>1, <1>2, <1>5, <2>2, <3>1 DEF DiallingControl, AcceptingControl
  <2> QED BY <2>1, <2>2, Both
<1>11. KnownIsRight'
  BY <1>1, <1>2 DEF KnownIsRight, HasDecoded
<1> QED BY <1>4, <1>8, <1>9, <1>10, <1>11, Both DEF HandshakeInv

\* encode never overfills a ring.
LEMMA EncodedIsRing ==
  ASSUME NEW r, IsRing(r), NEW m \in Seq(Bytes), Len(m) = Length
  PROVE  IsRing(Encoded(r, m, 0))
<1> PICK q \in Nat : q = Ring!w_available(r) /\ q <= Length
  BY RingContents, Lengths DEF Ring!w_available
<1>1. Least(Length - 0, q) = q
  BY Lengths DEF Least
<1> PICK b : b = SubSeq(m, 0 + 1, 0 + q)
  OBVIOUS
<1>2. Encoded(r, m, 0) = Ring!Filled(r, b)
  BY <1>1 DEF Encoded
<1>3. b \in Seq(Bytes) /\ Len(b) <= q
  <2>1. 0 + 1 \in Int /\ 0 + q \in Int /\ \A i \in 0 + 1 .. 0 + q : m[i] \in Bytes
    BY Lengths
  <2>2. /\ SubSeq(m, 0 + 1, 0 + q) \in Seq(Bytes)
        /\ Len(SubSeq(m, 0 + 1, 0 + q)) = IF 0 + 1 <= 0 + q THEN (0 + q) - (0 + 1) + 1 ELSE 0
    BY <2>1, SubSeqProperties
  <2> QED BY <2>2
<1> QED BY <1>2, <1>3, RingWrites

\* TransportInitiation: the dialling party encodes its handshake and sends of it.
LEMMA InitiationKeeps ==
  ASSUME HandshakeInv, NEW e \in Parties, NEW n \in 0 .. Length, TransportInitiation(e, n)
  PROVE  HandshakeInv'
<1>1. /\ TypeOK /\ DiallingControl /\ AcceptingControl /\ KnownIsRight
      /\ \A f \in Parties : Flow(f)
  BY DEF HandshakeInv
<1>2. state[e] = "CONNECTING" /\ e = "tracker"
  BY <1>1, Both DEF TransportInitiation, AcceptingControl
<1> PICK o \in Parties : o = "tcp_server" /\ o = Other(e) /\ o # e /\ Other(o) = e
  BY <1>2, Both
<1> PICK r : r = Encoded(send_buffer[e], Message(e), 0)
  OBVIOUS
<1>3. /\ n <= r.readable
      /\ send_buffer' = [send_buffer EXCEPT ![e] = Ring!Drained(r, n)]
      /\ wire' = [wire EXCEPT ![o] = wire[o] \o Ring!Taken(r, n)]
      /\ UNCHANGED <<torrent, header, recv_buffer, peer_id, timedOut>>
  BY DEF TransportInitiation, SendAndWait, Send
<1>4. /\ state' = [state EXCEPT ![e] = "HANDSHAKE"]
      /\ io' = [io EXCEPT ![e] = IF n # r.readable THEN "WRITE" ELSE "READ"]
  BY <1>2 DEF TransportInitiation, SendAndWait, Exhausted
<1>5. /\ IsRing(send_buffer[e]) /\ wire[o] \in Seq(Bytes)
      /\ Ring!contents(recv_buffer[o]) \in Seq(Bytes)
      /\ Ring!contents(send_buffer[e]) \in Seq(Bytes)
      /\ Len(Ring!contents(send_buffer[e])) = send_buffer[e].readable
  BY <1>1, RingFacts
<1>6. Message(e) \in Seq(Bytes) /\ Len(Message(e)) = Length
  BY <1>1, MessageIs
<1>7. IsRing(r) /\ n \in 0 .. r.readable
  <2>1. IsRing(r)
    BY <1>5, <1>6, EncodedIsRing
  <2> QED BY <1>3, <2>1, RingContents
<1>8. SentBytes(Ring!contents(recv_buffer[o]), wire[o], r, n)
  BY <1>5, <1>7, SendMoves
<1>9. TypeOK'
  BY <1>1, <1>3, <1>4, <1>8 DEF TypeOK, States, IsRing, SentBytes
<1>10. /\ send_buffer'[e] = Ring!Drained(r, n) /\ send_buffer'[o] = send_buffer[o]
       /\ wire'[o] = wire[o] \o Ring!Taken(r, n) /\ wire'[e] = wire[e]
       /\ state'[o] = state[o] /\ io'[o] = io[o] /\ state'[e] = "HANDSHAKE"
       /\ io'[e] = "WRITE" => n # r.readable
  BY <1>1, <1>3, <1>4 DEF TypeOK
<1>11. Path(o)' = Path(o) /\ Delivered(o)' = Delivered(o)
  BY <1>3, <1>10 DEF Path, Delivered
<1>12. Path(e)' = (Ring!contents(recv_buffer[o]) \o wire[o]) \o Ring!contents(r)
  BY <1>3, <1>8, <1>10 DEF Path, SentBytes
<1>13. ~Ended(e) /\ ~Ended(e)' /\ (Ended(o)' <=> Ended(o))
  BY <1>2, <1>10 DEF Ended
<1>14. /\ HasDecoded(e)' <=> HasDecoded(e)
       /\ ~HasDecoded(o) /\ ~HasDecoded(o)'
       /\ ~HasEncoded(e) /\ HasEncoded(e)'
       /\ HasEncoded(o)' <=> HasEncoded(o)
  BY <1>1, <1>2, <1>3, <1>10 DEF HasDecoded, HasEncoded, DiallingControl
<1>15. Flow(o)'
  <2>1. FlowStays(o)
    BY <1>3, <1>11, <1>13, <1>14, MessagesStay DEF FlowStays
  <2> QED BY <1>1, <2>1, FlowKept
<1>16. Flow(e)'
  <2>1. CASE Ended(o)
    BY <1>13, <2>1 DEF Flow
  <2>2. CASE ~Ended(o)
    <3>1. Path(e) = <<>>
      BY <1>1, <1>13, <1>14, <2>2 DEF Flow
    <3> PICK a, w, c : /\ a = Ring!contents(recv_buffer[o]) /\ w = wire[o]
                       /\ c = Ring!contents(send_buffer[e])
      OBVIOUS
    <3>2. (a \o w) \o c = <<>>
      BY <3>1 DEF Path
    <3>3. a = <<>> /\ w = <<>> /\ c = <<>>
      BY <1>5, <3>2, NothingIs
    <3>4. send_buffer[e].readable = 0
      BY <1>5, <3>3, EmptySeq
    <3>5. Ring!contents(r) = Message(e)
      BY <1>5, <1>6, <3>4, EncodedWhole
    <3>6. a \o w = <<>>
      BY <1>5, <3>3, ConcatEmptySeq
    <3>7. <<>> \o Message(e) = Message(e)
      BY <1>6, ConcatEmptySeq
    <3>8. Path(e)' = Message(e)
      BY <1>12, <3>5, <3>6, <3>7
    <3> QED BY <1>3, <1>13, <1>14, <3>8, MessagesStay DEF Flow
  <2> QED BY <2>1, <2>2
<1>17. send_buffer'[e].readable # 0 \/ n = r.readable
  BY <1>7, <1>8, <1>10, RingContents DEF SentBytes
<1>18. DiallingControl' /\ AcceptingControl'
  BY <1>1, <1>2, <1>3, <1>10, <1>17 DEF DiallingControl, AcceptingControl
<1>19. KnownIsRight'
  BY <1>1, <1>3 DEF KnownIsRight, HasDecoded
<1> QED BY <1>9, <1>15, <1>16, <1>18, <1>19, Both DEF HandshakeInv

\* What the read event finds.
LEMMA ReadFinds ==
  ASSUME HandshakeInv, NEW e \in Parties, NEW n \in 1 .. Length, Reads(e, n)
  PROVE  /\ state[e] = "HANDSHAKE" /\ io[e] = "READ" /\ ~Ended(e) /\ ~HasDecoded(e)
         /\ ReceivedBytes(recv_buffer[e], wire[e],
                          Ring!Filled(recv_buffer[e], SubSeq(wire[e], 1, n)), Left(e, n))
<1>1. TypeOK /\ DiallingControl /\ AcceptingControl
  BY DEF HandshakeInv
<1>2. state[e] = "HANDSHAKE" /\ io[e] = "READ"
  BY DEF Reads
<1>3. ~HasDecoded(e)
  BY <1>1, <1>2, Both DEF DiallingControl, AcceptingControl, HasDecoded
<1>4. IsRing(recv_buffer[e]) /\ wire[e] \in Seq(Bytes)
  BY <1>1, RingFacts
<1> PICK l, q \in Nat : l = Len(wire[e]) /\ q = Ring!w_available(recv_buffer[e])
  BY <1>4, RingContents, Lengths DEF Ring!w_available
<1>5. n \in Nat /\ n <= l /\ n <= q
  BY DEF Reads, Least
<1>6. ReceivedBytes(recv_buffer[e], wire[e],
                    Ring!Filled(recv_buffer[e], SubSeq(wire[e], 1, n)), Left(e, n))
  BY <1>4, <1>5, ReceiveMoves DEF Left
<1> QED BY <1>2, <1>3, <1>6 DEF Ended

\* A complete handshake is the other party's, nothing of which is left elsewhere.
HasArrived(e, r, left) ==
  /\ r.readable = Length /\ Ring!contents(r) = Message(Other(e)) /\ left = <<>>
  /\ HasEncoded(Other(e))
  /\ IF Ended(Other(e)) THEN Other(e) = "tracker"
                        ELSE Ring!contents(send_buffer[Other(e)]) = <<>>

LEMMA CompleteIsWhole ==
  ASSUME HandshakeInv, NEW e \in Parties, ~Ended(e), ~HasDecoded(e), NEW r, NEW left,
         ReceivedBytes(recv_buffer[e], wire[e], r, left), IsComplete(r)
  PROVE  HasArrived(e, r, left)
<1> PICK o \in Parties : o = Other(e) /\ o # e /\ Other(o) = e
  BY Both
<1>1. TypeOK /\ Flow(o)
  BY DEF HandshakeInv
<1> PICK s, c, m : s = Ring!contents(r) /\ c = Ring!contents(send_buffer[o]) /\ m = Message(o)
  OBVIOUS
<1>2. /\ IsRing(r) /\ left \in Seq(Bytes)
      /\ s \o left = Ring!contents(recv_buffer[e]) \o wire[e]
  BY DEF ReceivedBytes
<1>3. s \in Seq(Bytes) /\ Len(s) = r.readable /\ r.readable = Length
  BY <1>2, RingContents, Lengths DEF IsComplete, Ring!r_available
<1>4. m \in Seq(Bytes) /\ Len(m) = Length
  BY <1>1, MessageIs
<1>5. c \in Seq(Bytes)
  BY <1>1, RingFacts
<1>6. Delivered(o) = s \o left /\ Path(o) = (s \o left) \o c
  BY <1>2 DEF Delivered, Path
<1>7. s # <<>>
  BY <1>3, Lengths, EmptySeq
<1>8. (s \o left) \o c # <<>>
  <2>1. s \in Seq(Bytes) /\ left \in Seq(Bytes) /\ c \in Seq(Bytes)
    BY <1>2, <1>3, <1>5
  <2> QED BY <1>7, <2>1, NothingIs
<1>9. ASSUME NEW rest \in Seq(Bytes), (s \o left) \o rest = m
      PROVE  s = m /\ left = <<>> /\ rest = <<>>
  <2>1. (s \o left) \o rest = s \o (left \o rest) /\ left \o rest \in Seq(Bytes)
    BY <1>2, <1>3, Concat, Zenon
  <2>2. s = m /\ left \o rest = <<>>
    <3> PICK t : t = left \o rest
      OBVIOUS
    <3>1. t \in Seq(Bytes) /\ s \o t = m /\ Len(s) = Len(m)
      BY <1>3, <1>4, <1>9, <2>1
    <3>2. s = m /\ t = <<>>
      BY <1>3, <1>4, <3>1, WholeIs
    <3> QED BY <3>2
  <2>3. left = <<>> /\ rest = <<>>
    BY <1>2, <2>2, ConcatSimplifications!concIsEmpty
  <2> QED BY <2>2, <2>3
<1>10. CASE Ended(o)
  <2>1. PICK rest \in Seq(Bytes) :
          Delivered(o) \o rest = m /\ (o = "tcp_server" => rest # <<>>)
    BY <1>1, <1>10 DEF Flow
  <2>2. s = m /\ left = <<>> /\ rest = <<>>
    BY <1>6, <1>9, <2>1
  <2>3. o = "tracker"
    BY <2>1, <2>2, Both
  <2>4. HasEncoded(o)
    BY <1>10, <2>3 DEF HasEncoded, Ended
  <2> QED BY <1>3, <1>10, <2>2, <2>3, <2>4 DEF HasArrived
<1>11. CASE ~Ended(o)
  <2>1. Path(o) = IF HasEncoded(o) THEN m ELSE <<>>
    BY <1>1, <1>11 DEF Flow
  <2>2. HasEncoded(o) /\ (s \o left) \o c = m
    BY <1>6, <1>8, <2>1
  <2>3. s = m /\ left = <<>> /\ c = <<>>
    BY <1>5, <1>9, <2>2
  <2> QED BY <1>3, <1>11, <2>2, <2>3 DEF HasArrived
<1> QED BY <1>10, <1>11

\* And a good one tells who the other party is.
LEMMA GoodHandshake ==
  ASSUME TypeOK, NEW e \in Parties, NEW r, IsRing(r), r.readable = Length,
         Ring!contents(r) = Message(Other(e)), Decoded(r, torrent[e], peer_id[e]).valid
  PROVE  /\ Decoded(r, torrent[e], peer_id[e]).id = Ids[Other(e)]
         /\ torrent[e] = torrent[Other(e)]
         /\ Ids[Other(e)] \in [1 .. IdLength -> Bytes] /\ Ids[Other(e)] # Nobody
<1> PICK o \in Parties : o = Other(e)
  BY Both
<1> PICK m, d : m = Ring!contents(r) /\ d = Decoded(r, torrent[e], peer_id[e])
  OBVIOUS
<1>1. /\ torrent[e] \in [1 .. HashLength -> Bytes] /\ torrent[o] \in [1 .. HashLength -> Bytes]
      /\ Ids[o] \in [1 .. IdLength -> Bytes]
  BY FieldTypes
<1>2. /\ \A k \in 1 .. HashLength : m[HeaderLength + k] = torrent[o][k]
      /\ \A k \in 1 .. IdLength : m[HeaderLength + HashLength + k] = Ids[o][k]
  BY MessageIs
<1>3. /\ \A k \in 1 .. HashLength : m[HeaderLength + k] = torrent[e][k]
      /\ d.id = [k \in 1 .. IdLength |-> m[HeaderLength + HashLength + k]]
  BY <1>1, DecodesWhatArrived
<1>4. torrent[e] = torrent[o]
  <2> PICK x, y \in [1 .. HashLength -> Bytes] : x = torrent[e] /\ y = torrent[o]
    BY <1>1
  <2>1. \A k \in 1 .. HashLength : x[k] = y[k]
    BY <1>2, <1>3
  <2>2. x = y
    <3>1. DOMAIN x = 1 .. HashLength /\ DOMAIN y = 1 .. HashLength
      OBVIOUS
    <3>2. x = [k \in DOMAIN x |-> x[k]] /\ y = [k \in DOMAIN y |-> y[k]]
      OBVIOUS
    <3> QED BY <2>1, <3>1, <3>2, Zenon
  <2> QED BY <2>2
<1>5. d.id = Ids[o]
  BY <1>1, <1>2, <1>3
<1>6. Ids[o] # <<>>
  BY <1>1, Lengths, FieldIsSequence, EmptySeq
<1> QED BY <1>1, <1>4, <1>5, <1>6 DEF Nobody

\* HandshakeIncomplete: bytes go from the wire to the ring.
LEMMA IncompleteKeeps ==
  ASSUME HandshakeInv, NEW e \in Parties, NEW n \in 1 .. Length, Reads(e, n), NEW r,
         r = Ring!Filled(recv_buffer[e], SubSeq(wire[e], 1, n)), HandshakeIncomplete(e, n, r)
  PROVE  HandshakeInv'
<1> PICK o \in Parties : o = Other(e) /\ o # e /\ Other(o) = e
  BY Both
<1>1. /\ TypeOK /\ DiallingControl /\ AcceptingControl /\ KnownIsRight
      /\ Flow(e) /\ Flow(o)
  BY DEF HandshakeInv
<1>2. ReceivedBytes(recv_buffer[e], wire[e], r, Left(e, n))
  BY ReadFinds
<1>3. /\ recv_buffer' = [recv_buffer EXCEPT ![e] = r]
      /\ wire' = [wire EXCEPT ![e] = Left(e, n)]
      /\ UNCHANGED <<torrent, header, state, io, send_buffer, peer_id, timedOut>>
  BY DEF HandshakeIncomplete
<1>4. TypeOK'
  BY <1>1, <1>2, <1>3 DEF TypeOK, IsRing, ReceivedBytes
<1>5. /\ recv_buffer'[e] = r /\ wire'[e] = Left(e, n)
      /\ recv_buffer'[o] = recv_buffer[o] /\ wire'[o] = wire[o]
  BY <1>1, <1>3 DEF TypeOK
<1>6. /\ Delivered(o)' = Delivered(o) /\ Path(o)' = Path(o)
      /\ Delivered(e)' = Delivered(e) /\ Path(e)' = Path(e)
  BY <1>2, <1>3, <1>5 DEF Delivered, Path, ReceivedBytes
<1>7. FlowStays(e) /\ FlowStays(o)
  BY <1>3, <1>6, MessagesStay DEF FlowStays, Ended, HasEncoded, HasDecoded
<1>8. Flow(e)' /\ Flow(o)'
  BY <1>1, <1>7, FlowKept
<1>9. DiallingControl' /\ AcceptingControl' /\ KnownIsRight'
  BY <1>1, <1>3 DEF DiallingControl, AcceptingControl, KnownIsRight, HasDecoded
<1> QED BY <1>4, <1>8, <1>9, Both DEF HandshakeInv

\* A ring whose handshake has been decoded is empty.
LEMMA DecodedEmpties ==
  ASSUME NEW r, IsRing(r), r.readable = Length
  PROVE  IsRing(Ring!commit_read(r, Length)) /\ Ring!contents(Ring!commit_read(r, Length)) = <<>>
<1>1. Ring!commit_read(r, Length) = Ring!Drained(r, Length) /\ Length \in 0 .. r.readable
  BY Lengths DEF Ring!Drained
<1>2. IsRing(Ring!Drained(r, Length)) /\ Ring!Drained(r, Length).readable = r.readable - Length
  BY <1>1, RingReads
<1>3. Len(Ring!contents(Ring!Drained(r, Length))) = 0
  BY <1>2, Lengths, RingContents
<1> QED BY <1>1, <1>2, <1>3, RingContents, EmptySeq

\* HandshakeAccepted: the dialling party is done, after the accepting one.
LEMMA AcceptedKeeps ==
  ASSUME HandshakeInv, NEW e \in Parties, NEW n \in 1 .. Length, Reads(e, n), NEW r,
         r = Ring!Filled(recv_buffer[e], SubSeq(wire[e], 1, n)), HandshakeAccepted(e, n, r)
  PROVE  HandshakeInv'
<1> PICK o \in Parties : o = Other(e) /\ o # e /\ Other(o) = e
  BY Both
<1>0. e = "tracker" /\ o = "tcp_server"
  BY Both DEF HandshakeAccepted
<1>1. /\ TypeOK /\ DiallingControl /\ AcceptingControl /\ KnownIsRight
      /\ Flow(e) /\ Flow(o)
  BY DEF HandshakeInv
<1>2. /\ state[e] = "HANDSHAKE" /\ ~Ended(e) /\ ~HasDecoded(e)
      /\ ReceivedBytes(recv_buffer[e], wire[e], r, Left(e, n))
  BY ReadFinds
<1>3. /\ IsComplete(r) /\ Decoded(r, torrent[e], peer_id[e]).valid
      /\ peer_id' = [peer_id EXCEPT ![e] = Decoded(r, torrent[e], peer_id[e]).id]
      /\ recv_buffer' = [recv_buffer EXCEPT ![e] = Ring!commit_read(r, Length)]
      /\ state' = [state EXCEPT ![e] = "CONNECTED"]
      /\ io' = [io EXCEPT ![e] = "off"]
      /\ wire' = [wire EXCEPT ![e] = Left(e, n)]
      /\ UNCHANGED <<torrent, header, timedOut, send_buffer>>
  BY DEF HandshakeAccepted, Decodes
<1>4. HasArrived(e, r, Left(e, n))
  BY <1>2, <1>3, CompleteIsWhole
<1>5. /\ r.readable = Length /\ Ring!contents(r) = Message(o) /\ Left(e, n) = <<>>
      /\ HasEncoded(o) /\ ~Ended(o) /\ Ring!contents(send_buffer[o]) = <<>>
  BY <1>0, <1>4 DEF HasArrived
<1>6. IsRing(r)
  BY <1>2 DEF ReceivedBytes
<1>7. /\ peer_id' = [peer_id EXCEPT ![e] = Ids[o]] /\ torrent[e] = torrent[o]
      /\ Ids[o] \in [1 .. IdLength -> Bytes] /\ Ids[o] # Nobody
  BY <1>1, <1>3, <1>5, <1>6, GoodHandshake
<1>8. /\ IsRing(Ring!commit_read(r, Length))
      /\ Ring!contents(Ring!commit_read(r, Length)) = <<>>
  BY <1>5, <1>6, DecodedEmpties
<1>9. TypeOK'
  BY <1>1, <1>2, <1>3, <1>7, <1>8 DEF TypeOK, States, IsRing, ReceivedBytes
<1>10. /\ recv_buffer'[e] = Ring!commit_read(r, Length) /\ recv_buffer'[o] = recv_buffer[o]
       /\ wire'[e] = <<>> /\ wire'[o] = wire[o]
       /\ state'[e] = "CONNECTED" /\ state'[o] = state[o] /\ io'[o] = io[o]
       /\ peer_id'[e] = Ids[o] /\ peer_id'[o] = peer_id[o]
  BY <1>1, <1>3, <1>5, <1>7 DEF TypeOK
<1>11. state[o] = "CONNECTED" /\ peer_id[o] # Nobody
  <2>1. peer_id[o] # Nobody
    BY <1>0, <1>5 DEF HasEncoded
  <2>2. Len(Ring!contents(send_buffer[o])) = send_buffer[o].readable
    BY <1>1, RingFacts
  <2>3. send_buffer[o].readable = 0
    BY <1>5, <2>2, EmptySeq
  <2>4. state[o] \in States
    BY <1>1 DEF TypeOK
  <2> QED BY <1>0, <1>1, <1>5, <2>1, <2>3, <2>4 DEF AcceptingControl, Ended, States
<1>12. ~Ended(e)' /\ (Ended(o)' <=> Ended(o))
  BY <1>10 DEF Ended
<1>13. Path(o)' = <<>>
  <2>1. Path(o)' = (<<>> \o <<>>) \o <<>>
    BY <1>3, <1>5, <1>8, <1>10 DEF Path
  <2>2. <<>> \in Seq(Bytes)
    BY EmptySeq
  <2> QED BY <2>1, <2>2, ConcatEmptySeq
<1>14. Flow(o)'
  BY <1>7, <1>10, <1>13 DEF Flow, HasDecoded
<1>15. Flow(e)'
  <2>1. Path(e)' = Path(e)
    BY <1>3, <1>10 DEF Path
  <2>2. /\ (HasDecoded(o)' <=> HasDecoded(o)) /\ HasDecoded(o)
    BY <1>10, <1>11 DEF HasDecoded
  <2> QED BY <1>1, <1>2, <1>5, <1>12, <2>1, <2>2 DEF Flow
<1>16. DiallingControl' /\ AcceptingControl'
  BY <1>0, <1>1, <1>3, <1>7, <1>10, <1>11 DEF DiallingControl, AcceptingControl
<1>17. KnownIsRight'
  BY <1>0, <1>1, <1>3, <1>7, <1>10, Both DEF KnownIsRight, HasDecoded
<1> QED BY <1>9, <1>14, <1>15, <1>16, <1>17, Both DEF HandshakeInv

\* HandshakeAnswered: the accepting party decodes, encodes its own handshake and
\* sends of it.
LEMMA AnsweredKeeps ==
  ASSUME HandshakeInv, NEW e \in Parties, NEW n \in 1 .. Length, Reads(e, n), NEW r,
         r = Ring!Filled(recv_buffer[e], SubSeq(wire[e], 1, n)), HandshakeAnswered(e, n, r)
  PROVE  HandshakeInv'
<1> PICK o \in Parties : o = Other(e) /\ o # e /\ Other(o) = e
  BY Both
<1>0. e = "tcp_server" /\ o = "tracker"
  BY Both DEF HandshakeAnswered
<1>1. /\ TypeOK /\ DiallingControl /\ AcceptingControl /\ KnownIsRight
      /\ Flow(e) /\ Flow(o)
  BY DEF HandshakeInv
<1>2. /\ state[e] = "HANDSHAKE" /\ ~Ended(e) /\ ~HasDecoded(e)
      /\ ReceivedBytes(recv_buffer[e], wire[e], r, Left(e, n))
  BY ReadFinds
<1>3. /\ IsComplete(r) /\ Decoded(r, torrent[e], peer_id[e]).valid
      /\ peer_id' = [peer_id EXCEPT ![e] = Decoded(r, torrent[e], peer_id[e]).id]
      /\ recv_buffer' = [recv_buffer EXCEPT ![e] = Ring!commit_read(r, Length)]
      /\ UNCHANGED <<torrent, header, timedOut>>
  BY DEF HandshakeAnswered, Decodes
<1> PICK answer \in {Encoded(send_buffer[e], Message(e), 0)}, m \in 0 .. Length :
       /\ m <= answer.readable
       /\ send_buffer' = [send_buffer EXCEPT ![e] = Ring!Drained(answer, m)]
       /\ wire' = [wire EXCEPT ![e] = Left(e, n),
                               ![Other(e)] = @ \o Ring!Taken(answer, m)]
       /\ state' = [state EXCEPT ![e] = IF m = answer.readable THEN "CONNECTED" ELSE @]
       /\ io' = [io EXCEPT ![e] = IF m = answer.readable THEN "off" ELSE "WRITE"]
  BY Zenon DEF HandshakeAnswered
<1>4. /\ answer = Encoded(send_buffer[e], Message(e), 0)
      /\ m <= answer.readable
      /\ send_buffer' = [send_buffer EXCEPT ![e] = Ring!Drained(answer, m)]
      /\ wire' = [wire EXCEPT ![e] = Left(e, n), ![o] = wire[o] \o Ring!Taken(answer, m)]
      /\ state' = [state EXCEPT ![e] = IF m = answer.readable THEN "CONNECTED" ELSE state[e]]
      /\ io' = [io EXCEPT ![e] = IF m = answer.readable THEN "off" ELSE "WRITE"]
  OBVIOUS
<1>5. HasArrived(e, r, Left(e, n))
  BY <1>2, <1>3, CompleteIsWhole
<1>6. /\ r.readable = Length /\ Ring!contents(r) = Message(o) /\ Left(e, n) = <<>>
      /\ HasEncoded(o)
      /\ ~Ended(o) => Ring!contents(send_buffer[o]) = <<>>
  BY <1>5 DEF HasArrived
<1>7. IsRing(r)
  BY <1>2 DEF ReceivedBytes
<1>8. /\ peer_id' = [peer_id EXCEPT ![e] = Ids[o]] /\ torrent[e] = torrent[o]
      /\ Ids[o] \in [1 .. IdLength -> Bytes] /\ Ids[o] # Nobody
  BY <1>1, <1>3, <1>6, <1>7, GoodHandshake
<1>9. /\ IsRing(Ring!commit_read(r, Length))
      /\ Ring!contents(Ring!commit_read(r, Length)) = <<>>
  BY <1>6, <1>7, DecodedEmpties
<1>10. /\ IsRing(send_buffer[e]) /\ wire[o] \in Seq(Bytes)
       /\ Ring!contents(recv_buffer[o]) \in Seq(Bytes)
       /\ Ring!contents(send_buffer[e]) \in Seq(Bytes)
       /\ Len(Ring!contents(send_buffer[e])) = send_buffer[e].readable
  BY <1>1, RingFacts
<1>11. Message(e) \in Seq(Bytes) /\ Len(Message(e)) = Length
  BY <1>1, MessageIs
<1>12. IsRing(answer) /\ m \in 0 .. answer.readable
  <2>1. IsRing(answer)
    BY <1>4, <1>10, <1>11, EncodedIsRing
  <2> QED BY <1>4, <2>1, RingContents
<1>13. SentBytes(Ring!contents(recv_buffer[o]), wire[o], answer, m)
  BY <1>10, <1>12, SendMoves
<1>14. TypeOK'
  <2>1. /\ Left(e, n) \in Seq(Bytes) /\ wire[o] \o Ring!Taken(answer, m) \in Seq(Bytes)
        /\ IsRing(Ring!Drained(answer, m))
    BY <1>2, <1>13 DEF ReceivedBytes, SentBytes
  <2>2. wire' \in [Parties -> Seq(Bytes)]
    BY <1>1, <1>4, <2>1 DEF TypeOK
  <2>3. state' \in [Parties -> States] /\ io' \in [Parties -> {"READ", "WRITE", "off"}]
    BY <1>1, <1>4 DEF TypeOK, States
  <2>4. /\ send_buffer' \in [Parties -> Ring!Rings]
        /\ \A f \in Parties : Ring!Consistent(send_buffer'[f])
    BY <1>1, <1>4, <2>1 DEF TypeOK, IsRing
  <2>5. /\ recv_buffer' \in [Parties -> Ring!Rings]
        /\ \A f \in Parties : Ring!Consistent(recv_buffer'[f])
    BY <1>1, <1>3, <1>9 DEF TypeOK, IsRing
  <2>6. peer_id' \in [Parties -> [1 .. IdLength -> Bytes] \cup {Nobody}]
    BY <1>1, <1>8 DEF TypeOK
  <2> QED BY <1>1, <1>3, <2>2, <2>3, <2>4, <2>5, <2>6 DEF TypeOK
<1>15. /\ recv_buffer'[e] = Ring!commit_read(r, Length) /\ recv_buffer'[o] = recv_buffer[o]
       /\ wire'[e] = <<>> /\ wire'[o] = wire[o] \o Ring!Taken(answer, m)
       /\ send_buffer'[e] = Ring!Drained(answer, m) /\ send_buffer'[o] = send_buffer[o]
       /\ state'[o] = state[o] /\ io'[o] = io[o]
       /\ peer_id'[e] = Ids[o] /\ peer_id'[o] = peer_id[o]
  BY <1>1, <1>3, <1>4, <1>6, <1>8 DEF TypeOK
<1>16. \/ state'[e] = "CONNECTED"
       \/ state'[e] = "HANDSHAKE" /\ io'[e] = "WRITE" /\ m # answer.readable
  BY <1>1, <1>2, <1>4 DEF TypeOK
<1>17. send_buffer'[e].readable # 0 \/ m = answer.readable
  BY <1>12, <1>13, <1>15, RingContents DEF SentBytes
<1>18. ~Ended(e)' /\ (Ended(o)' <=> Ended(o))
  BY <1>15, <1>16 DEF Ended
<1>19. Flow(o)'
  <2>1. CASE Ended(o)
    BY <1>8, <1>15, <1>18, <2>1 DEF Flow, HasDecoded
  <2>2. CASE ~Ended(o)
    <3>1. Path(o)' = (<<>> \o <<>>) \o <<>>
      BY <1>6, <1>9, <1>15, <2>2 DEF Path
    <3>2. <<>> \in Seq(Bytes)
      BY EmptySeq
    <3>3. Path(o)' = <<>>
      BY <3>1, <3>2, ConcatEmptySeq
    <3> QED BY <1>8, <1>15, <3>3 DEF Flow, HasDecoded
  <2> QED BY <2>1, <2>2
<1>20. Flow(e)'
  <2>1. CASE Ended(o)
    BY <1>18, <2>1 DEF Flow
  <2>2. CASE ~Ended(o)
    <3>1. ~HasDecoded(o) /\ ~HasDecoded(o)'
      <4>1. state[o] \in States
        BY <1>1 DEF TypeOK
      <4> QED BY <1>0, <1>1, <1>2, <1>15, <2>2, <4>1
              DEF DiallingControl, HasDecoded, Ended, States
    <3>2. ~HasEncoded(e) /\ HasEncoded(e)'
      BY <1>0, <1>2, <1>8, <1>15 DEF HasEncoded, HasDecoded
    <3>3. Path(e) = <<>>
      BY <1>1, <1>2, <2>2, <3>1, <3>2 DEF Flow
    <3> PICK a, w, c : /\ a = Ring!contents(recv_buffer[o]) /\ w = wire[o]
                       /\ c = Ring!contents(send_buffer[e])
      OBVIOUS
    <3>4. (a \o w) \o c = <<>>
      BY <3>3 DEF Path
    <3>5. a = <<>> /\ w = <<>> /\ c = <<>>
      BY <1>10, <3>4, NothingIs
    <3>6. send_buffer[e].readable = 0
      BY <1>10, <3>5, EmptySeq
    <3>7. Ring!contents(answer) = Message(e)
      BY <1>4, <1>10, <1>11, <3>6, EncodedWhole
    <3>8. Path(e)' = (a \o w) \o Ring!contents(answer)
      BY <1>13, <1>15 DEF Path, SentBytes
    <3>9. a \o w = <<>>
      BY <1>10, <3>5, ConcatEmptySeq
    <3>10. <<>> \o Message(e) = Message(e)
      BY <1>11, ConcatEmptySeq
    <3>11. Path(e)' = Message(e)'
      BY <1>3, <3>7, <3>8, <3>9, <3>10, MessagesStay
    <3> QED BY <1>18, <3>1, <3>2, <3>11 DEF Flow
  <2> QED BY <2>1, <2>2
<1>21. DiallingControl' /\ AcceptingControl'
  BY <1>0, <1>1, <1>2, <1>6, <1>8, <1>15, <1>16, <1>17
     DEF DiallingControl, AcceptingControl, HasEncoded
<1>22. KnownIsRight'
  BY <1>0, <1>1, <1>3, <1>8, <1>15, Both DEF KnownIsRight, HasDecoded
<1> QED BY <1>14, <1>19, <1>20, <1>21, <1>22, Both DEF HandshakeInv

LEMMA InitHolds == Init => HandshakeInv
<1> SUFFICES ASSUME Init PROVE HandshakeInv
  OBVIOUS
<1>1. PICK x \in Exchanges : torrent = x.torrent /\ header = x.header
  BY DEF Init
<1>2. PICK i \in Starts :
        LET ring == [read |-> i, write |-> i, readable |-> 0,
                     buffer |-> [a \in Ring!Addresses |-> Zero]]
        IN /\ send_buffer = [e \in Parties |-> ring]
           /\ recv_buffer = [e \in Parties |-> ring]
  BY DEF Init
<1> PICK ring : ring = [read |-> i, write |-> i, readable |-> 0,
                        buffer |-> [a \in Ring!Addresses |-> Zero]]
  OBVIOUS
<1>3. IsRing(ring) /\ ring.readable = 0
  <2>1. i \in 0 .. Length - 1 /\ Zero \in Bytes /\ 0 \in 0 .. Length /\ i + 0 = i /\ i % Length = i
    <3>1. i \in 0 .. Length - 1
      BY StartsAssumption
    <3> PICK l \in Nat \ {0} : l = Length
      BY Lengths
    <3>2. i \in 0 .. l - 1 /\ i + 0 = i /\ 0 \in 0 .. l
      BY <3>1
    <3>3. i % l = i
      BY <3>2
    <3> QED BY <3>1, <3>2, <3>3, FieldsAssumption
  <2>2. ring.read = i /\ ring.write = i /\ ring.readable = 0
    OBVIOUS
  <2>3. ring \in Ring!Rings
    BY <2>1 DEF Ring!Rings, Ring!Addresses
  <2> QED BY <2>1, <2>2, <2>3 DEF IsRing, Ring!Consistent, Ring!mask
<1>4. /\ send_buffer = [e \in Parties |-> ring] /\ recv_buffer = [e \in Parties |-> ring]
      /\ state = [e \in Parties |-> IF e = "tracker" THEN "CONNECTING" ELSE "HANDSHAKE"]
      /\ io = [e \in Parties |-> IF e = "tracker" THEN "WRITE" ELSE "READ"]
      /\ peer_id = [e \in Parties |-> Nobody]
      /\ wire = [e \in Parties |-> <<>>]
      /\ timedOut = FALSE
  BY <1>2 DEF Init
<1>5. TypeOK
  <2>1. [torrent |-> torrent, header |-> header] \in Exchanges
    <3>1. x = [torrent |-> x.torrent, header |-> x.header]
      BY FieldsAssumption
    <3> QED BY <1>1, <3>1
  <2> QED BY <1>3, <1>4, <2>1, EmptySeq DEF TypeOK, States, IsRing
<1>6. Ring!contents(ring) = <<>>
  BY <1>3, RingContents, EmptySeq
<1>7. ASSUME NEW e \in Parties PROVE Flow(e)
  <2>1. Other(e) \in Parties
    BY Both
  <2>2. Path(e) = (<<>> \o <<>>) \o <<>>
    BY <1>4, <1>6, <2>1 DEF Path
  <2>3. <<>> \in Seq(Bytes)
    BY EmptySeq
  <2>4. Path(e) = <<>>
    BY <2>2, <2>3, ConcatEmptySeq
  <2>5. ~HasEncoded(e) /\ ~HasDecoded(Other(e)) /\ ~Ended(e)
    BY <1>4, <2>1, Both DEF HasEncoded, HasDecoded, Ended
  <2> QED BY <2>4, <2>5 DEF Flow
<1>8. DiallingControl /\ AcceptingControl /\ KnownIsRight
  BY <1>4, Both DEF DiallingControl, AcceptingControl, KnownIsRight, HasDecoded
<1> QED BY <1>5, <1>7, <1>8 DEF HandshakeInv

LEMMA StepKeeps == HandshakeInv /\ [Next]_vars => HandshakeInv'
<1> SUFFICES ASSUME HandshakeInv, [Next]_vars PROVE HandshakeInv'
  OBVIOUS
<1>1. TypeOK
  BY DEF HandshakeInv
<1>2. ASSUME NEW e \in Parties, NEW n \in 0 .. Length, TransportInitiation(e, n)
      PROVE  HandshakeInv'
  BY <1>2, InitiationKeeps
<1>3. ASSUME NEW e \in Parties, NEW n \in 0 .. Length, HandshakeSent(e, n) PROVE HandshakeInv'
  BY <1>3, SentKeeps
<1>4. ASSUME NEW e \in Parties, HandshakeReceived(e) PROVE HandshakeInv'
  <2>1. PICK n \in 1 .. Length :
          /\ Reads(e, n)
          /\ \E r \in {Ring!Filled(recv_buffer[e], SubSeq(wire[e], 1, n))} :
               \/ HandshakeIncomplete(e, n, r) \/ HandshakeRefused(e, n, r)
               \/ HandshakeAccepted(e, n, r) \/ HandshakeAnswered(e, n, r)
    BY <1>4, Zenon DEF HandshakeReceived
  <2>2. PICK r :
          /\ r = Ring!Filled(recv_buffer[e], SubSeq(wire[e], 1, n))
          /\ \/ HandshakeIncomplete(e, n, r) \/ HandshakeRefused(e, n, r)
             \/ HandshakeAccepted(e, n, r) \/ HandshakeAnswered(e, n, r)
    BY <2>1
  <2>3. CASE HandshakeIncomplete(e, n, r)
    BY <2>1, <2>2, <2>3, IncompleteKeeps
  <2>4. CASE HandshakeRefused(e, n, r)
    <3>1. /\ Ends(e, "deleted") /\ wire' = [wire EXCEPT ![e] = Left(e, n)]
          /\ UNCHANGED <<peer_id, timedOut>>
      BY <2>4 DEF HandshakeRefused
    <3>2. /\ state[e] = "HANDSHAKE"
          /\ ReceivedBytes(recv_buffer[e], wire[e], r, Left(e, n))
      BY <2>1, <2>2, ReadFinds
    <3>3. wire' \in [Parties -> Seq(Bytes)] /\ wire'[Other(e)] = wire[Other(e)]
      BY <1>1, <3>1, <3>2, Both DEF TypeOK, ReceivedBytes
    <3> QED BY <1>1, <3>1, <3>2, <3>3, EndsKeeps DEF TypeOK
  <2>5. CASE HandshakeAccepted(e, n, r)
    BY <2>1, <2>2, <2>5, AcceptedKeeps
  <2>6. CASE HandshakeAnswered(e, n, r)
    BY <2>1, <2>2, <2>6, AnsweredKeeps
  <2> QED BY <2>2, <2>3, <2>4, <2>5, <2>6
<1>5. ASSUME NEW e \in Parties, Fails(e) \/ ConnectTimer(e) PROVE HandshakeInv'
  <2>1. /\ Ends(e, "FAILED") /\ state[e] \in {"CONNECTING", "HANDSHAKE"}
        /\ UNCHANGED <<peer_id, wire>> /\ timedOut' \in BOOLEAN
    BY <1>1, <1>5 DEF Fails, ConnectTimer, TypeOK
  <2>2. wire' \in [Parties -> Seq(Bytes)] /\ wire'[Other(e)] = wire[Other(e)]
    BY <1>1, <2>1 DEF TypeOK
  <2> QED BY <2>1, <2>2, EndsKeeps
<1>6. CASE UNCHANGED vars
  <2>1. TypeOK' /\ DiallingControl' /\ AcceptingControl' /\ KnownIsRight'
    BY <1>6 DEF HandshakeInv, TypeOK, DiallingControl, AcceptingControl, KnownIsRight,
                HasDecoded, vars
  <2>2. ASSUME NEW f \in Parties PROVE Flow(f)'
    <3>1. FlowStays(f)
      BY <1>6, MessagesStay
         DEF FlowStays, Path, Delivered, Ended, HasEncoded, HasDecoded, vars
    <3> QED BY <3>1, FlowKept DEF HandshakeInv
  <2> QED BY <2>1, <2>2 DEF HandshakeInv
<1> QED BY <1>2, <1>3, <1>4, <1>5, <1>6 DEF Next, SocketCallback

\* In every exchange each byte sent is in one place, and each party's state says
\* what its buffers hold (the callbacks of peer_socket_callback).
THEOREM Invariance == Spec => []HandshakeInv
<1> QED BY InitHolds, StepKeeps, PTL DEF Spec

\* The values of the variables, and the indices of each ring agree, in every
\* exchange (the commits of io_ring_buffer).
THEOREM TypeCorrect == Spec => []TypeOK
<1>1. HandshakeInv => TypeOK
  BY DEF HandshakeInv
<1> QED BY <1>1, Invariance, PTL

\* However the bytes are cut, and wherever the rings wrap around, none of a
\* handshake is lost, doubled or swapped on its way (prepare_read, prepare_write).
THEOREM AllBytesInOrder == Spec => []BytesInOrder
<1>1. HandshakeInv => BytesInOrder
  <2> SUFFICES ASSUME HandshakeInv, \A e \in Parties : state[e] \notin {"FAILED", "deleted"},
                      NEW e \in Parties
               PROVE  Path(e) = IF HasEncoded(e) /\ ~HasDecoded(Other(e))
                                THEN Message(e) ELSE <<>>
    BY DEF BytesInOrder
  <2>1. Flow(e) /\ Other(e) \in Parties
    BY Both DEF HandshakeInv
  <2>2. ~Ended(e) /\ ~Ended(Other(e))
    BY <2>1 DEF Ended
  <2> QED BY <2>1, <2>2 DEF Flow
<1> QED BY <1>1, Invariance, PTL

\* A party is handed over only knowing the peer id of the other and sharing its
\* info hash, and the dialling one only after the accepting one (decode).
THEOREM HandedOverKnowing == Spec => []ConnectedKnowsPeer
<1>1. HandshakeInv => ConnectedKnowsPeer
  <2> SUFFICES ASSUME HandshakeInv PROVE ConnectedKnowsPeer
    OBVIOUS
  <2>1. DiallingControl /\ AcceptingControl /\ KnownIsRight
    BY DEF HandshakeInv
  <2>2. ASSUME NEW e \in Parties, state[e] = "CONNECTED" PROVE HasDecoded(e)
    BY <2>1, <2>2, Both DEF DiallingControl, AcceptingControl, HasDecoded
  <2> QED BY <2>1, <2>2 DEF ConnectedKnowsPeer, KnownIsRight, DiallingControl
<1> QED BY <1>1, Invariance, PTL

----------------------------------------------------------------------------
(* Every callback counts.                                                  *)

\* What is counted, of each party.
LEMMA Counts ==
  ASSUME HandshakeInv, NEW e \in Parties
  PROVE  /\ Unsent(e) \in 0 .. Length /\ Len(wire[e]) \in Nat /\ Stage(e) \in 0 .. 3
         /\ state[e] \in {"FAILED", "deleted", "CONNECTED"} => Stage(e) = 0
         /\ state[e] \in {"CONNECTING", "HANDSHAKE"} => Stage(e) # 0
<1>1. TypeOK
  BY DEF HandshakeInv
<1>2. Unsent(e) \in 0 .. Length /\ Len(wire[e]) \in Nat
  BY <1>1, RingFacts, Lengths DEF Unsent
<1>3. state[e] \in States
  BY <1>1 DEF TypeOK
<1> QED BY <1>2, <1>3 DEF Stage, States

\* The stages of the two parties, by name.
LEMMA Stages ==
  /\ state["tracker"] = "CONNECTING" => Stage("tracker") = 3
  /\ state["tracker"] = "HANDSHAKE" =>
       Stage("tracker") = IF io["tracker"] = "READ" THEN 1 ELSE 2
  /\ state["tcp_server"] = "HANDSHAKE" =>
       Stage("tcp_server") = IF io["tcp_server"] = "READ" THEN 2 ELSE 1
BY DEF Stage

\* Sending nothing changes nothing.
LEMMA NothingSent ==
  ASSUME HandshakeInv, NEW e \in Parties, HandshakeSent(e, 0)
  PROVE  UNCHANGED vars
<1> PICK o \in Parties : o = Other(e) /\ o # e /\ Other(o) = e
  BY Both
<1> PICK r : r = send_buffer[e]
  OBVIOUS
<1>1. /\ TypeOK /\ DiallingControl /\ AcceptingControl
      /\ state[e] = "HANDSHAKE" /\ io[e] = "WRITE"
  BY DEF HandshakeInv, HandshakeSent
<1>2. IsRing(r) /\ wire[o] \in Seq(Bytes)
  BY <1>1, RingFacts
<1>3. r.readable # 0
  BY <1>1, Both DEF DiallingControl, AcceptingControl
<1>4. /\ send_buffer' = [send_buffer EXCEPT ![e] = Ring!Drained(r, 0)]
      /\ wire' = [wire EXCEPT ![o] = wire[o] \o Ring!Taken(r, 0)]
      /\ io' = [io EXCEPT ![e] = "WRITE"]
      /\ state' = [state EXCEPT ![e] = "HANDSHAKE"]
      /\ UNCHANGED <<torrent, header, recv_buffer, peer_id, timedOut>>
  BY <1>3 DEF HandshakeSent, SendAndWait, Send
<1>5. Ring!Drained(r, 0) = r
  <2>1. r.read \in 0 .. Length - 1 /\ r.readable \in 0 .. Length
    BY <1>2 DEF IsRing, Ring!Rings, Ring!Addresses
  <2>2. (r.read + 0) % Length = r.read
    <3> PICK l \in Nat \ {0} : l = Length
      BY Lengths
    <3> PICK i \in 0 .. l - 1 : i = r.read
      BY <2>1
    <3>1. (i + 0) % l = i
      OBVIOUS
    <3> QED BY <3>1
  <2>3. r.readable - 0 = r.readable
    BY <2>1, Lengths
  <2>4. Ring!Drained(r, 0) = [r EXCEPT !.read = r.read, !.readable = r.readable]
    BY <2>2, <2>3 DEF Ring!Drained, Ring!commit_read, Ring!mask
  <2>5. r \in Ring!Rings
    BY <1>2 DEF IsRing
  <2> QED BY <2>4, <2>5 DEF Ring!Rings
<1>6. wire[o] \o Ring!Taken(r, 0) = wire[o]
  <2>1. Ring!Taken(r, 0) \in Seq(Bytes) /\ Len(Ring!Taken(r, 0)) = 0
    BY <1>2, RingContents, RingReads
  <2> QED BY <1>2, <2>1, EmptySeq, ConcatEmptySeq
<1> QED BY <1>1, <1>4, <1>5, <1>6 DEF TypeOK, vars

\* What the lengths become.
LEMMA WireGrows ==
  ASSUME NEW w \in Seq(Bytes), NEW r, IsRing(r), NEW n \in 0 .. r.readable
  PROVE  /\ Len(w \o Ring!Taken(r, n)) = Len(w) + n
         /\ Ring!Drained(r, n).readable = r.readable - n
<1>1. /\ Ring!Taken(r, n) \in Seq(Bytes) /\ Len(Ring!Taken(r, n)) = n
      /\ Ring!Drained(r, n).readable = r.readable - n
  BY RingReads
<1> QED BY <1>1, ConcatProperties

LEMMA WireShrinks ==
  ASSUME HandshakeInv, NEW e \in Parties, NEW n \in 1 .. Length, Reads(e, n)
  PROVE  /\ n <= Len(wire[e]) /\ Len(Left(e, n)) = Len(wire[e]) - n
         /\ n <= Length - recv_buffer[e].readable
         /\ Ring!Filled(recv_buffer[e], SubSeq(wire[e], 1, n)).readable
              = recv_buffer[e].readable + n
<1>1. TypeOK
  BY DEF HandshakeInv
<1>2. IsRing(recv_buffer[e]) /\ wire[e] \in Seq(Bytes)
  BY <1>1, RingFacts
<1> PICK l, q \in Nat : l = Len(wire[e]) /\ q = Ring!w_available(recv_buffer[e])
  BY <1>2, RingContents, Lengths DEF Ring!w_available
<1>3. n \in Nat /\ n # 0 /\ n <= l /\ n <= q
  BY DEF Reads, Least
<1>4. \A i \in 1 .. l : wire[e][i] \in Bytes
  BY <1>2
<1>5. Len(Left(e, n)) = l - n
  <2>1. n + 1 \in Int /\ l \in Int /\ \A i \in n + 1 .. l : wire[e][i] \in Bytes
    BY <1>3, <1>4
  <2>2. Len(SubSeq(wire[e], n + 1, l)) = IF n + 1 <= l THEN l - (n + 1) + 1 ELSE 0
    BY <2>1, SubSeqProperties
  <2> QED BY <1>3, <2>2 DEF Left
<1>6. SubSeq(wire[e], 1, n) \in Seq(Bytes) /\ Len(SubSeq(wire[e], 1, n)) = n
  <2>1. 1 \in Int /\ n \in Int /\ \A i \in 1 .. n : wire[e][i] \in Bytes
    BY <1>3, <1>4
  <2>2. /\ SubSeq(wire[e], 1, n) \in Seq(Bytes)
        /\ Len(SubSeq(wire[e], 1, n)) = IF 1 <= n THEN n - 1 + 1 ELSE 0
    BY <2>1, SubSeqProperties
  <2> QED BY <1>3, <2>2
<1>7. Ring!Filled(recv_buffer[e], SubSeq(wire[e], 1, n)).readable = recv_buffer[e].readable + n
  BY <1>2, <1>3, <1>6, RingWrites
<1> QED BY <1>3, <1>5, <1>7 DEF Ring!w_available

LEMMA CountsNow == HandshakeInv => \A e \in Parties : CallbacksLeft(e) \in Nat
<1> SUFFICES ASSUME HandshakeInv, NEW e \in Parties PROVE CallbacksLeft(e) \in Nat
  OBVIOUS
<1>1. Unsent(e) \in 0 .. Length /\ Len(wire[e]) \in Nat /\ Stage(e) \in 0 .. 3
  BY Counts
<1> QED BY <1>1, Lengths DEF CallbacksLeft

LEMMA CountsNext == HandshakeInv' => (\A e \in Parties : CallbacksLeft(e) \in Nat)'
<1>1. HandshakeInv => \A e \in Parties : CallbacksLeft(e) \in Nat
  BY CountsNow
<1> QED BY <1>1, PTL

\* It falls if it falls for one party by more than it rises for the other.
LEMMA SumFalls ==
  ASSUME HandshakeInv, HandshakeInv', NEW e \in Parties, NEW o \in Parties, o = Other(e),
         NEW d \in Nat, NEW g \in Nat, g < d,
         CallbacksLeft(e)' + d <= CallbacksLeft(e), CallbacksLeft(o)' <= CallbacksLeft(o) + g
  PROVE  AllCallbacksLeft' < AllCallbacksLeft
<1>1. \A f \in Parties : CallbacksLeft(f) \in Nat /\ CallbacksLeft(f)' \in Nat
  BY CountsNow, CountsNext
<1> PICK a, b, c, k \in Nat : /\ a = CallbacksLeft(e) /\ b = CallbacksLeft(o)
                              /\ c = CallbacksLeft(e)' /\ k = CallbacksLeft(o)'
  BY <1>1
<1>2. c + k < a + b /\ k + c < b + a
  OBVIOUS
<1> QED BY <1>2, Both DEF AllCallbacksLeft

\* The sender's count, and the receiver's.
LEMMA CountIs ==
  ASSUME HandshakeInv, NEW e \in Parties
  PROVE  \E u, w, k \in Nat : /\ u = Unsent(e) /\ w = Len(wire[e]) /\ k = Stage(e)
                             /\ CallbacksLeft(e) = 2 * u + w + k
<1>1. Unsent(e) \in Nat /\ Len(wire[e]) \in Nat /\ Stage(e) \in Nat
  BY Counts, Lengths
<1> QED BY <1>1 DEF CallbacksLeft

\* Bytes that leave count twice, and once where they go to.
LEMMA Sums ==
  \A u, w, k, j, n \in Nat :
    /\ j <= k => (2 * (u - n) + w + j) + 2 * n <= 2 * u + w + k
    /\ n <= w => w - n \in Nat /\ w - n <= w
    /\ 2 * u + (w + n) + k <= (2 * u + w + k) + n
    /\ \A q \in Nat : q <= u /\ j + 1 <= k =>
         (2 * (q - n) + w + j) + (2 * n + 1) <= 2 * u + w + k
    /\ j <= k => (2 * u + (w - n) + j) + n <= 2 * u + w + k
    /\ \A v, y \in Nat : v <= u /\ y <= w /\ k # 0 => (2 * v + y + 0) + 1 <= 2 * u + w + k
OBVIOUS

LEMMA AnswerSum ==
  ASSUME NEW u \in Nat, NEW w \in Nat, NEW k \in Nat, NEW q \in Nat, NEW y \in Nat, NEW j \in Nat,
         NEW m \in Nat, q <= u, y <= w, j + 1 <= k
  PROVE  (2 * (q - m) + y + j) + (2 * m + 1) <= 2 * u + w + k
OBVIOUS

\* HandshakeSent: bytes leave.
LEMMA SentCounts ==
  ASSUME HandshakeInv, HandshakeInv', NEW e \in Parties, NEW n \in 0 .. Length,
         HandshakeSent(e, n), n # 0
  PROVE  AllCallbacksLeft' < AllCallbacksLeft
<1> PICK o \in Parties : o = Other(e) /\ o # e /\ Other(o) = e
  BY Both
<1> PICK r : r = send_buffer[e]
  OBVIOUS
<1>1. /\ state[e] = "HANDSHAKE" /\ io[e] = "WRITE" /\ n \in 0 .. r.readable
      /\ send_buffer' = [send_buffer EXCEPT ![e] = Ring!Drained(r, n)]
      /\ wire' = [wire EXCEPT ![o] = wire[o] \o Ring!Taken(r, n)]
      /\ UNCHANGED <<torrent, header, recv_buffer, peer_id, timedOut>>
  BY DEF HandshakeSent, SendAndWait, Send
<1>2. /\ state' = [state EXCEPT ![e] = IF n = r.readable /\ e = "tcp_server"
                                       THEN "CONNECTED" ELSE "HANDSHAKE"]
      /\ io' = [io EXCEPT ![e] = IF n # r.readable THEN "WRITE"
                                 ELSE IF e = "tracker" THEN "READ" ELSE "off"]
  BY Both DEF HandshakeSent, SendAndWait, Exhausted
<1>3. TypeOK /\ TypeOK' /\ DiallingControl /\ AcceptingControl
  BY DEF HandshakeInv
<1>4. IsRing(r) /\ wire[o] \in Seq(Bytes) /\ r.readable \in 0 .. Length
  BY <1>3, RingFacts
<1>5. /\ Len(wire[o] \o Ring!Taken(r, n)) = Len(wire[o]) + n
      /\ Ring!Drained(r, n).readable = r.readable - n
  BY <1>1, <1>4, WireGrows
<1>6. /\ send_buffer'[e] = Ring!Drained(r, n) /\ send_buffer'[o] = send_buffer[o]
      /\ wire'[o] = wire[o] \o Ring!Taken(r, n) /\ wire'[e] = wire[e]
      /\ state'[o] = state[o] /\ io'[o] = io[o]
      /\ state'[e] \in {"HANDSHAKE", "CONNECTED"} /\ peer_id' = peer_id
  BY <1>1, <1>2, <1>3 DEF TypeOK
<1>7. HasEncoded(e) /\ HasEncoded(e)' /\ (HasEncoded(o)' <=> HasEncoded(o))
  BY <1>1, <1>3, <1>6, Both DEF HasEncoded, AcceptingControl
<1>8. Unsent(e) = r.readable /\ Unsent(e)' = r.readable - n /\ Unsent(o)' = Unsent(o)
  BY <1>5, <1>6, <1>7 DEF Unsent
<1>9. Stage(e)' \in 0 .. 3 /\ Stage(e)' <= Stage(e) /\ Stage(e) \in 0 .. 3 /\ Stage(o)' = Stage(o)
  <2>1. Stage(o)' = Stage(o)
    BY <1>6 DEF Stage
  <2>2. state[e] = "HANDSHAKE" /\ io[e] = "WRITE"
    BY <1>1
  <2>3. /\ e = "tracker" => state'[e] = "HANDSHAKE" /\ io'[e] \in {"READ", "WRITE"}
        /\ state'[e] = "CONNECTED" \/ (state'[e] = "HANDSHAKE" /\ io'[e] \in {"READ", "WRITE"})
        /\ e = "tcp_server" /\ state'[e] = "HANDSHAKE" => io'[e] = "WRITE"
    BY <1>2, <1>3, Both DEF TypeOK
  <2> QED BY <2>1, <2>2, <2>3, Both DEF Stage
<1>10. CallbacksLeft(e)' + 2 * n <= CallbacksLeft(e)
  <2> PICK u \in Nat, w \in Nat, k \in Nat :
        /\ u = Unsent(e) /\ w = Len(wire[e]) /\ k = Stage(e)
        /\ CallbacksLeft(e) = 2 * u + w + k
    BY CountIs
  <2> PICK j \in Nat : j = Stage(e)' /\ j <= k
    BY <1>9
  <2>1. CallbacksLeft(e)' = 2 * (u - n) + w + j
    BY <1>6, <1>8 DEF CallbacksLeft
  <2>2. n \in Nat
    BY Lengths
  <2>3. (2 * (u - n) + w + j) + 2 * n <= 2 * u + w + k
    BY <2>2, Sums
  <2> QED BY <2>1, <2>3
<1>11. CallbacksLeft(o)' <= CallbacksLeft(o) + n
  <2> PICK u \in Nat, w \in Nat, k \in Nat :
        /\ u = Unsent(o) /\ w = Len(wire[o]) /\ k = Stage(o)
        /\ CallbacksLeft(o) = 2 * u + w + k
    BY CountIs
  <2>1. CallbacksLeft(o)' = 2 * u + (w + n) + k
    BY <1>5, <1>6, <1>8, <1>9 DEF CallbacksLeft
  <2>2. n \in Nat
    BY Lengths
  <2>3. 2 * u + (w + n) + k <= (2 * u + w + k) + n
    BY <2>2, Sums
  <2> QED BY <2>1, <2>3
<1>12. 2 * n \in Nat /\ n \in Nat /\ n < 2 * n
  BY Lengths
<1> QED BY <1>10, <1>11, <1>12, SumFalls

\* TransportInitiation: the dialling party goes on by a stage at least.
LEMMA InitiationCounts ==
  ASSUME HandshakeInv, HandshakeInv', NEW e \in Parties, NEW n \in 0 .. Length,
         TransportInitiation(e, n)
  PROVE  AllCallbacksLeft' < AllCallbacksLeft
<1>1. TypeOK /\ TypeOK' /\ AcceptingControl
  BY DEF HandshakeInv
<1>2. state[e] = "CONNECTING" /\ e = "tracker"
  BY <1>1, Both DEF TransportInitiation, AcceptingControl
<1> PICK o \in Parties : o = "tcp_server" /\ o = Other(e) /\ o # e /\ Other(o) = e
  BY <1>2, Both
<1> PICK r : r = Encoded(send_buffer[e], Message(e), 0)
  OBVIOUS
<1>3. /\ n <= r.readable
      /\ send_buffer' = [send_buffer EXCEPT ![e] = Ring!Drained(r, n)]
      /\ wire' = [wire EXCEPT ![o] = wire[o] \o Ring!Taken(r, n)]
      /\ UNCHANGED <<torrent, header, recv_buffer, peer_id, timedOut>>
  BY DEF TransportInitiation, SendAndWait, Send
<1>4. /\ state' = [state EXCEPT ![e] = "HANDSHAKE"]
      /\ io' = [io EXCEPT ![e] = IF n # r.readable THEN "WRITE" ELSE "READ"]
  BY <1>2 DEF TransportInitiation, SendAndWait, Exhausted
<1>5. IsRing(r) /\ wire[o] \in Seq(Bytes)
  <2>1. IsRing(send_buffer[e]) /\ wire[o] \in Seq(Bytes)
    BY <1>1, RingFacts
  <2>2. Message(e) \in Seq(Bytes) /\ Len(Message(e)) = Length
    BY <1>1, MessageIs
  <2> QED BY <2>1, <2>2, EncodedIsRing
<1>6. n \in 0 .. r.readable /\ r.readable \in 0 .. Length
  BY <1>3, <1>5, RingContents
<1>7. /\ Len(wire[o] \o Ring!Taken(r, n)) = Len(wire[o]) + n
      /\ Ring!Drained(r, n).readable = r.readable - n
  BY <1>5, <1>6, WireGrows
<1>8. /\ send_buffer'[e] = Ring!Drained(r, n) /\ send_buffer'[o] = send_buffer[o]
      /\ wire'[o] = wire[o] \o Ring!Taken(r, n) /\ wire'[e] = wire[e]
      /\ state'[o] = state[o] /\ io'[o] = io[o]
      /\ state'[e] = "HANDSHAKE" /\ peer_id' = peer_id
  BY <1>1, <1>3, <1>4 DEF TypeOK
<1>9. Unsent(e) = Length /\ Unsent(e)' = r.readable - n /\ Unsent(o)' = Unsent(o)
  BY <1>2, <1>7, <1>8 DEF Unsent, HasEncoded
<1>10. Stage(e) = 3 /\ Stage(e)' \in 0 .. 2 /\ Stage(o)' = Stage(o)
  BY <1>2, <1>8 DEF Stage
<1>11. CallbacksLeft(e)' + (2 * n + 1) <= CallbacksLeft(e)
  <2> PICK u \in Nat, w \in Nat, k \in Nat :
        /\ u = Unsent(e) /\ w = Len(wire[e]) /\ k = Stage(e)
        /\ CallbacksLeft(e) = 2 * u + w + k
    BY CountIs
  <2> PICK j \in Nat : j = Stage(e)' /\ j + 1 <= k
    BY <1>10
  <2> PICK q \in Nat : q = r.readable /\ q <= u
    BY <1>6, <1>9, Lengths
  <2>1. CallbacksLeft(e)' = 2 * (q - n) + w + j
    BY <1>8, <1>9 DEF CallbacksLeft
  <2>2. n \in Nat
    BY Lengths
  <2>3. (2 * (q - n) + w + j) + (2 * n + 1) <= 2 * u + w + k
    BY <2>2, Sums
  <2> QED BY <2>1, <2>3
<1>12. CallbacksLeft(o)' <= CallbacksLeft(o) + n
  <2> PICK u \in Nat, w \in Nat, k \in Nat :
        /\ u = Unsent(o) /\ w = Len(wire[o]) /\ k = Stage(o)
        /\ CallbacksLeft(o) = 2 * u + w + k
    BY CountIs
  <2>1. CallbacksLeft(o)' = 2 * u + (w + n) + k
    BY <1>7, <1>8, <1>9, <1>10 DEF CallbacksLeft
  <2>2. n \in Nat
    BY Lengths
  <2>3. 2 * u + (w + n) + k <= (2 * u + w + k) + n
    BY <2>2, Sums
  <2> QED BY <2>1, <2>3
<1>13. 2 * n + 1 \in Nat /\ n \in Nat /\ n < 2 * n + 1
  BY Lengths
<1> QED BY <1>11, <1>12, <1>13, SumFalls

\* Fails, ConnectTimer and HandshakeRefused: a party has no stage left.
LEMMA EndsCounts ==
  ASSUME HandshakeInv, HandshakeInv', NEW e \in Parties, NEW how \in {"FAILED", "deleted"},
         Ends(e, how), state[e] \in {"CONNECTING", "HANDSHAKE"}, UNCHANGED peer_id,
         wire'[Other(e)] = wire[Other(e)], Len(wire'[e]) <= Len(wire[e])
  PROVE  AllCallbacksLeft' < AllCallbacksLeft
<1> PICK o \in Parties : o = Other(e) /\ o # e /\ Other(o) = e
  BY Both
<1>1. TypeOK /\ TypeOK'
  BY DEF HandshakeInv
<1>2. /\ state'[e] = how /\ state'[o] = state[o] /\ io'[o] = io[o]
      /\ send_buffer'[o] = send_buffer[o] /\ send_buffer'[e] = Ring!reset(send_buffer[e])
      /\ wire'[o] = wire[o] /\ peer_id' = peer_id
  BY <1>1 DEF TypeOK, Ends
<1>3. send_buffer'[e].readable = 0
  <2>1. IsRing(send_buffer[e])
    BY <1>1, RingFacts
  <2> QED BY <1>2, <2>1 DEF Ring!reset, IsRing, Ring!Rings
<1>4. Unsent(e)' <= Unsent(e) /\ Unsent(e)' \in Nat /\ Unsent(o)' = Unsent(o)
  <2>1. HasEncoded(o)' <=> HasEncoded(o)
    BY <1>2 DEF HasEncoded
  <2>2. HasEncoded(e) => HasEncoded(e)'
    BY <1>2 DEF HasEncoded
  <2>3. send_buffer[e].readable \in 0 .. Length /\ Length \in Nat
    BY <1>1, RingFacts, Lengths
  <2> QED BY <1>2, <1>3, <2>1, <2>2, <2>3 DEF Unsent
<1>5. Stage(e) # 0 /\ Stage(e)' = 0 /\ Stage(o)' = Stage(o)
  BY <1>2, Counts DEF Stage
<1>6. Len(wire'[e]) \in Nat
  <2>1. wire' \in [Parties -> Seq(Bytes)]
    BY <1>1 DEF TypeOK
  <2> QED BY <2>1
<1>7. CallbacksLeft(e)' + 1 <= CallbacksLeft(e)
  <2> PICK u \in Nat, w \in Nat, k \in Nat :
        /\ u = Unsent(e) /\ w = Len(wire[e]) /\ k = Stage(e)
        /\ CallbacksLeft(e) = 2 * u + w + k
    BY CountIs
  <2> PICK v \in Nat, y \in Nat : v = Unsent(e)' /\ y = Len(wire'[e]) /\ v <= u /\ y <= w
    BY <1>4, <1>6
  <2>1. CallbacksLeft(e)' = 2 * v + y + 0 /\ k # 0
    BY <1>5 DEF CallbacksLeft
  <2>2. (2 * v + y + 0) + 1 <= 2 * u + w + k
    BY <2>1, Sums
  <2> QED BY <2>1, <2>2
<1>8. CallbacksLeft(o)' <= CallbacksLeft(o) + 0
  <2>1. CallbacksLeft(o)' = CallbacksLeft(o)
    BY <1>2, <1>4, <1>5 DEF CallbacksLeft
  <2>2. CallbacksLeft(o) \in Nat
    BY CountsNow
  <2> QED BY <2>1, <2>2
<1> QED BY <1>7, <1>8, SumFalls

\* HandshakeIncomplete and HandshakeAccepted: bytes arrive.
LEMMA ReceivedCounts ==
  ASSUME HandshakeInv, HandshakeInv', NEW e \in Parties, NEW n \in 1 .. Length, Reads(e, n),
         NEW r, HandshakeIncomplete(e, n, r) \/ HandshakeAccepted(e, n, r)
  PROVE  AllCallbacksLeft' < AllCallbacksLeft
<1> PICK o \in Parties : o = Other(e) /\ o # e /\ Other(o) = e
  BY Both
<1>1. TypeOK /\ DiallingControl
  BY DEF HandshakeInv
<1>2. /\ wire' = [wire EXCEPT ![e] = Left(e, n)]
      /\ send_buffer' = send_buffer
      /\ \/ UNCHANGED <<state, io, peer_id>>
         \/ /\ e = "tracker" /\ state' = [state EXCEPT ![e] = "CONNECTED"]
            /\ io' = [io EXCEPT ![e] = "off"]
            /\ \E id : peer_id' = [peer_id EXCEPT ![e] = id]
  BY DEF HandshakeIncomplete, HandshakeAccepted, Decodes
<1>3. state[e] = "HANDSHAKE" /\ n \in Nat /\ n # 0
  BY Lengths DEF Reads
<1>4. /\ wire'[e] = Left(e, n) /\ wire'[o] = wire[o]
      /\ state'[o] = state[o] /\ io'[o] = io[o] /\ peer_id'[o] = peer_id[o]
      /\ UNCHANGED <<state, io, peer_id>> \/ (e = "tracker" /\ state'[e] = "CONNECTED")
  BY <1>1, <1>2 DEF TypeOK
<1>5. Unsent(e)' = Unsent(e) /\ Unsent(o)' = Unsent(o)
  <2>1. HasEncoded(o)' <=> HasEncoded(o)
    BY <1>4 DEF HasEncoded
  <2>2. HasEncoded(e)' <=> HasEncoded(e)
    BY <1>3, <1>4 DEF HasEncoded
  <2> QED BY <1>2, <2>1, <2>2 DEF Unsent
<1>6. Stage(e)' \in Nat /\ Stage(e)' <= Stage(e) /\ Stage(o)' = Stage(o)
  <2>1. Stage(o)' = Stage(o)
    BY <1>4 DEF Stage
  <2>2. UNCHANGED <<state, io, peer_id>> => Stage(e)' = Stage(e)
    BY DEF Stage
  <2>3. state'[e] = "CONNECTED" => Stage(e)' = 0
    BY DEF Stage
  <2> QED BY <1>4, <2>1, <2>2, <2>3, Counts
<1>7. CallbacksLeft(e)' + n <= CallbacksLeft(e)
  <2> PICK u \in Nat, w \in Nat, k \in Nat :
        /\ u = Unsent(e) /\ w = Len(wire[e]) /\ k = Stage(e)
        /\ CallbacksLeft(e) = 2 * u + w + k
    BY CountIs
  <2> PICK j \in Nat : j = Stage(e)' /\ j <= k
    BY <1>6
  <2>1. Len(wire'[e]) = w - n
    BY <1>4, WireShrinks
  <2>2. CallbacksLeft(e)' = 2 * u + (w - n) + j
    BY <1>5, <2>1 DEF CallbacksLeft
  <2>3. (2 * u + (w - n) + j) + n <= 2 * u + w + k
    BY <1>3, Sums
  <2> QED BY <2>2, <2>3
<1>8. CallbacksLeft(o)' <= CallbacksLeft(o) + 0
  <2>1. CallbacksLeft(o)' = CallbacksLeft(o)
    BY <1>4, <1>5, <1>6 DEF CallbacksLeft
  <2>2. CallbacksLeft(o) \in Nat
    BY CountsNow
  <2> QED BY <2>1, <2>2
<1>9. 0 < n
  BY <1>3
<1> QED BY <1>3, <1>7, <1>8, <1>9, SumFalls

\* HandshakeAnswered: a stage is behind the accepting party, and its handshake
\* before it.
LEMMA AnsweredCounts ==
  ASSUME HandshakeInv, HandshakeInv', NEW e \in Parties, NEW n \in 1 .. Length, Reads(e, n),
         NEW r, r = Ring!Filled(recv_buffer[e], SubSeq(wire[e], 1, n)),
         HandshakeAnswered(e, n, r)
  PROVE  AllCallbacksLeft' < AllCallbacksLeft
<1> PICK o \in Parties : o = Other(e) /\ o # e /\ Other(o) = e
  BY Both
<1>0. e = "tcp_server" /\ o = "tracker"
  BY Both DEF HandshakeAnswered
<1>1. TypeOK
  BY DEF HandshakeInv
<1>2. state[e] = "HANDSHAKE" /\ io[e] = "READ" /\ ~HasDecoded(e)
  BY ReadFinds
<1> PICK answer \in {Encoded(send_buffer[e], Message(e), 0)}, m \in 0 .. Length :
       /\ m <= answer.readable
       /\ send_buffer' = [send_buffer EXCEPT ![e] = Ring!Drained(answer, m)]
       /\ wire' = [wire EXCEPT ![e] = Left(e, n),
                               ![Other(e)] = @ \o Ring!Taken(answer, m)]
       /\ state' = [state EXCEPT ![e] = IF m = answer.readable THEN "CONNECTED" ELSE @]
       /\ io' = [io EXCEPT ![e] = IF m = answer.readable THEN "off" ELSE "WRITE"]
  BY Zenon DEF HandshakeAnswered
<1>14. n \in Nat /\ n <= Len(wire[e]) /\ Len(Left(e, n)) = Len(wire[e]) - n
  BY WireShrinks, Lengths
<1>3. IsRing(answer) /\ wire[o] \in Seq(Bytes)
  <2>1. IsRing(send_buffer[e]) /\ wire[o] \in Seq(Bytes)
    BY <1>1, RingFacts
  <2>2. Message(e) \in Seq(Bytes) /\ Len(Message(e)) = Length
    BY <1>1, MessageIs
  <2> QED BY <2>1, <2>2, EncodedIsRing
<1>4. m \in 0 .. answer.readable /\ answer.readable \in 0 .. Length
  BY <1>3, RingContents
<1>5. /\ Len(wire[o] \o Ring!Taken(answer, m)) = Len(wire[o]) + m
      /\ Ring!Drained(answer, m).readable = answer.readable - m
  BY <1>3, <1>4, WireGrows
<1>6. /\ send_buffer'[e] = Ring!Drained(answer, m) /\ send_buffer'[o] = send_buffer[o]
      /\ wire'[o] = wire[o] \o Ring!Taken(answer, m) /\ wire'[e] = Left(e, n)
      /\ state'[o] = state[o] /\ io'[o] = io[o]
      /\ state'[e] = "CONNECTED" \/ (state'[e] = "HANDSHAKE" /\ io'[e] = "WRITE")
  BY <1>1, <1>2 DEF TypeOK
<1>7. HasEncoded(e)'
  <2>1. HandshakeInv' => AcceptingControl' /\ DiallingControl'
    BY DEF HandshakeInv
  <2> QED BY <1>0, <1>6, <2>1 DEF HasEncoded, AcceptingControl
<1>8. Unsent(e) = Length /\ Unsent(e)' = answer.readable - m /\ Unsent(o)' = Unsent(o)
  <2>1. ~HasEncoded(e)
    BY <1>0, <1>2 DEF HasEncoded, HasDecoded
  <2>2. HasEncoded(o)' <=> HasEncoded(o)
    BY <1>0, <1>6 DEF HasEncoded
  <2> QED BY <1>5, <1>6, <1>7, <2>1, <2>2 DEF Unsent
<1>9. Stage(e) = 2 /\ Stage(e)' \in 0 .. 1 /\ Stage(o)' = Stage(o)
  BY <1>0, <1>2, <1>6 DEF Stage
<1>10. CallbacksLeft(e)' + (2 * m + 1) <= CallbacksLeft(e)
  <2> PICK u \in Nat, w \in Nat, k \in Nat :
        /\ u = Unsent(e) /\ w = Len(wire[e]) /\ k = Stage(e)
        /\ CallbacksLeft(e) = 2 * u + w + k
    BY CountIs
  <2> PICK j \in Nat : j = Stage(e)' /\ j + 1 <= k
    BY <1>9
  <2> PICK q \in Nat : q = answer.readable /\ q <= u
    BY <1>4, <1>8, Lengths
  <2>1. Len(wire'[e]) = w - n
    BY <1>6, <1>14
  <2>3. w - n \in Nat /\ w - n <= w
    <3>1. n <= w /\ n \in Nat
      BY <1>14
    <3> HIDE DEF Left
    <3> QED BY <3>1, Sums
  <2> PICK y \in Nat : y = Len(wire'[e]) /\ y <= w
    BY <2>1, <2>3
  <2>2. CallbacksLeft(e)' = 2 * (q - m) + y + j
    BY <1>8 DEF CallbacksLeft
  <2>5. m \in Nat
    BY Lengths
  <2>4. (2 * (q - m) + y + j) + (2 * m + 1) <= 2 * u + w + k
    <3>1. q <= u /\ y <= w /\ j + 1 <= k
      OBVIOUS
    <3> QED BY <2>5, <3>1, AnswerSum
  <2> QED BY <2>2, <2>4
<1>11. CallbacksLeft(o)' <= CallbacksLeft(o) + m
  <2> PICK u \in Nat, w \in Nat, k \in Nat :
        /\ u = Unsent(o) /\ w = Len(wire[o]) /\ k = Stage(o)
        /\ CallbacksLeft(o) = 2 * u + w + k
    BY CountIs
  <2>1. CallbacksLeft(o)' = 2 * u + (w + m) + k
    BY <1>5, <1>6, <1>8, <1>9 DEF CallbacksLeft
  <2>2. m \in Nat
    BY Lengths
  <2>3. 2 * u + (w + m) + k <= (2 * u + w + k) + m
    BY <2>2, Sums
  <2> QED BY <2>1, <2>3
<1>12. 2 * m + 1 \in Nat /\ m \in Nat /\ m < 2 * m + 1
  BY Lengths
<1> QED BY <1>10, <1>11, <1>12, SumFalls

LEMMA StepCounts ==
  ASSUME HandshakeInv, HandshakeInv', Next, ~UNCHANGED vars
  PROVE  AllCallbacksLeft' < AllCallbacksLeft
<1>1. TypeOK
  BY DEF HandshakeInv
<1>2. ASSUME NEW e \in Parties, NEW n \in 0 .. Length, TransportInitiation(e, n)
      PROVE  AllCallbacksLeft' < AllCallbacksLeft
  BY <1>2, InitiationCounts
<1>3. ASSUME NEW e \in Parties, NEW n \in 0 .. Length, HandshakeSent(e, n)
      PROVE  AllCallbacksLeft' < AllCallbacksLeft
  BY <1>3, NothingSent, SentCounts
<1>4. ASSUME NEW e \in Parties, HandshakeReceived(e)
      PROVE  AllCallbacksLeft' < AllCallbacksLeft
  <2>1. PICK n \in 1 .. Length :
          /\ Reads(e, n)
          /\ \E r \in {Ring!Filled(recv_buffer[e], SubSeq(wire[e], 1, n))} :
               \/ HandshakeIncomplete(e, n, r) \/ HandshakeRefused(e, n, r)
               \/ HandshakeAccepted(e, n, r) \/ HandshakeAnswered(e, n, r)
    BY <1>4, Zenon DEF HandshakeReceived
  <2>2. PICK r :
          /\ r = Ring!Filled(recv_buffer[e], SubSeq(wire[e], 1, n))
          /\ \/ HandshakeIncomplete(e, n, r) \/ HandshakeRefused(e, n, r)
             \/ HandshakeAccepted(e, n, r) \/ HandshakeAnswered(e, n, r)
    BY <2>1
  <2>3. CASE HandshakeIncomplete(e, n, r) \/ HandshakeAccepted(e, n, r)
    BY <2>1, <2>3, ReceivedCounts
  <2>4. CASE HandshakeRefused(e, n, r)
    <3>1. /\ Ends(e, "deleted") /\ wire' = [wire EXCEPT ![e] = Left(e, n)]
          /\ UNCHANGED peer_id /\ state[e] = "HANDSHAKE"
      BY <2>1, <2>4 DEF HandshakeRefused, Reads
    <3>2. /\ n <= Len(wire[e]) /\ Len(Left(e, n)) = Len(wire[e]) - n
          /\ n \in Nat /\ Len(wire[e]) \in Nat
      BY <1>1, <2>1, WireShrinks, RingFacts, Lengths
    <3>3. wire'[Other(e)] = wire[Other(e)] /\ Len(wire'[e]) <= Len(wire[e])
      BY <1>1, <3>1, <3>2, Both DEF TypeOK
    <3> QED BY <3>1, <3>3, EndsCounts
  <2>5. CASE HandshakeAnswered(e, n, r)
    BY <2>1, <2>2, <2>5, AnsweredCounts
  <2> QED BY <2>2, <2>3, <2>4, <2>5
<1>5. ASSUME NEW e \in Parties, Fails(e) \/ ConnectTimer(e)
      PROVE  AllCallbacksLeft' < AllCallbacksLeft
  <2>1. /\ Ends(e, "FAILED") /\ state[e] \in {"CONNECTING", "HANDSHAKE"}
        /\ UNCHANGED <<peer_id, wire>>
    BY <1>5 DEF Fails, ConnectTimer
  <2>2. Len(wire[e]) \in Nat
    BY <1>1, RingFacts
  <2> QED BY <2>1, <2>2, EndsCounts
<1> QED BY <1>2, <1>3, <1>4, <1>5 DEF Next, SocketCallback

\* At its beginning at most twice the bytes of two handshakes, and five, are left.
LEMMA AtFirst == Init => AllCallbacksLeft = 4 * Length + 5
<1> SUFFICES ASSUME Init PROVE AllCallbacksLeft = 4 * Length + 5
  OBVIOUS
<1>1. ASSUME NEW e \in Parties
      PROVE  /\ state[e] = IF e = "tracker" THEN "CONNECTING" ELSE "HANDSHAKE"
             /\ io[e] = IF e = "tracker" THEN "WRITE" ELSE "READ"
             /\ peer_id[e] = Nobody /\ wire[e] = <<>>
  BY DEF Init
<1>2. Unsent("tracker") = Length /\ Unsent("tcp_server") = Length
  BY <1>1, Both DEF Unsent, HasEncoded
<1>3. Len(wire["tracker"]) = 0 /\ Len(wire["tcp_server"]) = 0
  BY <1>1, Both
<1>4. Stage("tracker") = 3 /\ Stage("tcp_server") = 2
  BY <1>1, Both DEF Stage
<1>5. Length \in Nat
  BY Lengths
<1> QED BY <1>2, <1>3, <1>4, <1>5 DEF AllCallbacksLeft, CallbacksLeft

\* Each callback that changes anything brings the exchange nearer to its end, so
\* that at most 4 * Length + 5 of them do (the callbacks of peer_socket_callback).
THEOREM CallbacksAreBounded ==
  Spec => EveryCallbackCounts /\ [](AllCallbacksLeft \in 0 .. 4 * Length + 5)
<1> DEFINE B == AllCallbacksLeft \in 0 .. 4 * Length + 5
<1>1. HandshakeInv /\ HandshakeInv' /\ [Next]_vars => [AllCallbacksLeft' < AllCallbacksLeft]_vars
  BY StepCounts
<1>2. HandshakeInv => AllCallbacksLeft \in Nat
  BY CountsNow, Both DEF AllCallbacksLeft
<1>3. HandshakeInv' => (AllCallbacksLeft \in Nat)'
  BY <1>2, PTL
<1>4. Init => B
  BY AtFirst, Lengths
<1>5. B /\ HandshakeInv' /\ [AllCallbacksLeft' < AllCallbacksLeft]_vars => B'
  <2> SUFFICES ASSUME B, HandshakeInv', [AllCallbacksLeft' < AllCallbacksLeft]_vars PROVE B'
    OBVIOUS
  <2>1. AllCallbacksLeft' \in Nat /\ 4 * Length + 5 \in Nat
    BY <1>3, Lengths
  <2>2. CASE AllCallbacksLeft' < AllCallbacksLeft
    BY <2>1, <2>2
  <2>3. CASE UNCHANGED vars
    <3>1. AllCallbacksLeft' = AllCallbacksLeft
      BY <2>3 DEF AllCallbacksLeft, CallbacksLeft, Unsent, Stage, HasEncoded, vars
    <3> QED BY <3>1
  <2> QED BY <2>2, <2>3
<1> HIDE DEF B
<1>6. Spec => []B
  BY <1>1, <1>4, <1>5, Invariance, PTL DEF Spec
<1>7. Spec => EveryCallbackCounts
  BY <1>1, Invariance, PTL DEF Spec, EveryCallbackCounts
<1> QED BY <1>6, <1>7 DEF B

----------------------------------------------------------------------------
(* How an exchange ends.                                                   *)

\* A ring in which a party reads has room; one that a party is done with has
\* nothing left to send.
NoRingWaits ==
  /\ \A e \in Parties : recv_buffer[e].readable < Length
  /\ state["tracker"] = "HANDSHAKE" /\ io["tracker"] # "WRITE" =>
       io["tracker"] = "READ" /\ send_buffer["tracker"].readable = 0
  /\ state["tcp_server"] = "CONNECTED" => send_buffer["tcp_server"].readable = 0

\* Only a welcome handshake tells who the other party is.
KnownIsWelcome ==
  /\ \A e \in Parties : HasDecoded(e) => Welcomes(e)
  /\ state["tcp_server"] = "deleted" => ~HasDecoded("tcp_server")

CourseInv == NoRingWaits /\ KnownIsWelcome /\ EndsAsDemanded

\* Decode judges a handshake that has arrived as the exchange wants.
LEMMA JudgedRight ==
  ASSUME TypeOK, NEW e \in Parties, NEW r, IsRing(r), r.readable = Length,
         Ring!contents(r) = Message(Other(e))
  PROVE  Decoded(r, torrent[e], peer_id[e]).valid <=> Welcomes(e)
<1> PICK o \in Parties : o = Other(e)
  BY Both
<1> PICK m, d : m = Ring!contents(r) /\ d = Decoded(r, torrent[e], peer_id[e])
  OBVIOUS
<1>1. torrent[e] \in [1 .. HashLength -> Bytes] /\ torrent[o] \in [1 .. HashLength -> Bytes]
  BY FieldTypes
<1>2. m[1] = header[o][1] /\ \A k \in 1 .. HashLength : m[HeaderLength + k] = torrent[o][k]
  BY MessageIs
<1>3. d.valid <=> /\ m[1] = Pstrlen
                  /\ \A k \in 1 .. HashLength : m[HeaderLength + k] = torrent[e][k]
  BY <1>1, DecodesWhatArrived
<1>4. (\A k \in 1 .. HashLength : torrent[o][k] = torrent[e][k]) <=> torrent[o] = torrent[e]
  <2> PICK x, y \in [1 .. HashLength -> Bytes] : x = torrent[o] /\ y = torrent[e]
    BY <1>1
  <2>1. (\A k \in 1 .. HashLength : x[k] = y[k]) => x = y
    <3>1. DOMAIN x = 1 .. HashLength /\ DOMAIN y = 1 .. HashLength
      OBVIOUS
    <3>2. x = [k \in DOMAIN x |-> x[k]] /\ y = [k \in DOMAIN y |-> y[k]]
      OBVIOUS
    <3> QED BY <3>1, <3>2, Zenon
  <2> QED BY <2>1
<1> QED BY <1>2, <1>3, <1>4 DEF Welcomes

\* Judgements, like handshakes, stay.
LEMMA WelcomesStay ==
  ASSUME UNCHANGED <<torrent, header>>, NEW e
  PROVE  Welcomes(e)' <=> Welcomes(e)
BY DEF Welcomes

\* What has not changed a state, and leaves the rings as they should be.
LEMMA SentGoesOn ==
  ASSUME HandshakeInv, CourseInv, NEW e \in Parties, NEW n \in 0 .. Length,
         HandshakeSent(e, n)
  PROVE  CourseInv'
<1> PICK o \in Parties : o = Other(e) /\ o # e /\ Other(o) = e
  BY Both
<1> PICK r : r = send_buffer[e]
  OBVIOUS
<1>1. /\ state[e] = "HANDSHAKE" /\ io[e] = "WRITE" /\ n \in 0 .. r.readable
      /\ send_buffer' = [send_buffer EXCEPT ![e] = Ring!Drained(r, n)]
      /\ UNCHANGED <<torrent, header, recv_buffer, peer_id, timedOut>>
  BY DEF HandshakeSent, SendAndWait, Send
<1>2. /\ state' = [state EXCEPT ![e] = IF n = r.readable /\ e = "tcp_server"
                                       THEN "CONNECTED" ELSE "HANDSHAKE"]
      /\ io' = [io EXCEPT ![e] = IF n # r.readable THEN "WRITE"
                                 ELSE IF e = "tracker" THEN "READ" ELSE "off"]
  BY Both DEF HandshakeSent, SendAndWait, Exhausted
<1>3. TypeOK /\ DiallingControl /\ AcceptingControl /\ KnownIsRight
  BY DEF HandshakeInv
<1>4. n = r.readable => Ring!Drained(r, n).readable = 0
  <2>1. IsRing(r)
    BY <1>3, RingFacts
  <2>2. Ring!Drained(r, n).readable = r.readable - n /\ r.readable \in 0 .. Length
    BY <1>1, <2>1, RingReads, RingContents
  <2> QED BY <2>2, Lengths
<1>5. /\ send_buffer'[e] = Ring!Drained(r, n) /\ send_buffer'[o] = send_buffer[o]
      /\ state'[o] = state[o] /\ io'[o] = io[o]
      /\ state'[e] = "HANDSHAKE" \/ (e = "tcp_server" /\ state'[e] = "CONNECTED" /\ n = r.readable)
      /\ e = "tracker" => state'[e] = "HANDSHAKE"
      /\ e = "tracker" /\ io'[e] # "WRITE" => io'[e] = "READ" /\ n = r.readable
  BY <1>1, <1>2, <1>3 DEF TypeOK
<1>6. NoRingWaits'
  <2>1. CASE e = "tracker"
    <3>1. o = "tcp_server"
      BY <2>1, Both
    <3> QED BY <1>1, <1>4, <1>5, <2>1, <3>1 DEF CourseInv, NoRingWaits
  <2>2. CASE e = "tcp_server"
    <3>1. o = "tracker"
      BY <2>2, Both
    <3> QED BY <1>1, <1>4, <1>5, <2>2, <3>1 DEF CourseInv, NoRingWaits
  <2> QED BY <2>1, <2>2, Both
<1>7. EndsAsDemanded'
  <2> SUFFICES ASSUME ~timedOut PROVE EndsAsDemanded'
    BY <1>1 DEF EndsAsDemanded
  <2>1. /\ state["tcp_server"] \in {"HANDSHAKE", IF Welcomes("tcp_server") THEN "CONNECTED"
                                                                      ELSE "deleted"}
        /\ state["tracker"] \in {"CONNECTING", "HANDSHAKE"} \/ Settled
    BY DEF CourseInv, EndsAsDemanded
  <2>2. \A f : Welcomes(f)' <=> Welcomes(f)
    BY <1>1, WelcomesStay
  <2>3. CASE e = "tracker"
    <3>1. o = "tcp_server"
      BY <2>3, Both
    <3> QED BY <1>5, <2>1, <2>2, <2>3, <3>1 DEF EndsAsDemanded
  <2>4. CASE e = "tcp_server"
    <3>1. o = "tracker"
      BY <2>4, Both
    <3>2. ~Settled
      BY <1>1, <2>4 DEF Settled
    <3>3. state'[e] = "CONNECTED" => Welcomes(e)
      BY <1>1, <1>3, <2>4, Both DEF AcceptingControl, CourseInv, KnownIsWelcome, HasDecoded
    <3> QED BY <1>5, <2>1, <2>2, <2>4, <3>1, <3>2, <3>3 DEF EndsAsDemanded
  <2> QED BY <2>3, <2>4, Both
<1>8. KnownIsWelcome'
  <2>1. \A f : Welcomes(f)' <=> Welcomes(f)
    BY <1>1, WelcomesStay
  <2>2. state'["tcp_server"] = "deleted" => state["tcp_server"] = "deleted"
    BY <1>5, Both
  <2> QED BY <1>1, <2>1, <2>2 DEF CourseInv, KnownIsWelcome, HasDecoded
<1> QED BY <1>6, <1>7, <1>8 DEF CourseInv

\* TransportInitiation.
LEMMA InitiationGoesOn ==
  ASSUME HandshakeInv, CourseInv, NEW e \in Parties, NEW n \in 0 .. Length,
         TransportInitiation(e, n)
  PROVE  CourseInv'
<1>1. TypeOK /\ AcceptingControl
  BY DEF HandshakeInv
<1>2. state[e] = "CONNECTING" /\ e = "tracker"
  BY <1>1, Both DEF TransportInitiation, AcceptingControl
<1> PICK o \in Parties : o = "tcp_server" /\ o = Other(e) /\ o # e /\ Other(o) = e
  BY <1>2, Both
<1> PICK r : r = Encoded(send_buffer[e], Message(e), 0)
  OBVIOUS
<1>3. /\ n <= r.readable
      /\ send_buffer' = [send_buffer EXCEPT ![e] = Ring!Drained(r, n)]
      /\ UNCHANGED <<torrent, header, recv_buffer, peer_id, timedOut>>
  BY DEF TransportInitiation, SendAndWait, Send
<1>4. /\ state' = [state EXCEPT ![e] = "HANDSHAKE"]
      /\ io' = [io EXCEPT ![e] = IF n # r.readable THEN "WRITE" ELSE "READ"]
  BY <1>2 DEF TransportInitiation, SendAndWait, Exhausted
<1>5. n = r.readable => Ring!Drained(r, n).readable = 0
  <2>1. IsRing(send_buffer[e])
    BY <1>1, RingFacts
  <2>2. Message(e) \in Seq(Bytes) /\ Len(Message(e)) = Length
    BY <1>1, MessageIs
  <2>3. IsRing(r)
    BY <2>1, <2>2, EncodedIsRing
  <2>4. n \in 0 .. r.readable /\ r.readable \in 0 .. Length
    BY <1>3, <2>3, RingContents
  <2>5. Ring!Drained(r, n).readable = r.readable - n
    BY <2>3, <2>4, RingReads
  <2> QED BY <2>4, <2>5, Lengths
<1>6. /\ send_buffer'[e] = Ring!Drained(r, n) /\ send_buffer'[o] = send_buffer[o]
      /\ state'[o] = state[o] /\ state'[e] = "HANDSHAKE"
      /\ io'[e] # "WRITE" => io'[e] = "READ" /\ n = r.readable
  BY <1>1, <1>3, <1>4 DEF TypeOK
<1>7. \A f : Welcomes(f)' <=> Welcomes(f)
  BY <1>3, WelcomesStay
<1>8. NoRingWaits'
  BY <1>2, <1>3, <1>5, <1>6 DEF CourseInv, NoRingWaits
<1>9. KnownIsWelcome'
  BY <1>3, <1>6, <1>7 DEF CourseInv, KnownIsWelcome, HasDecoded
<1>10. EndsAsDemanded'
  BY <1>2, <1>3, <1>6, <1>7 DEF CourseInv, EndsAsDemanded
<1> QED BY <1>8, <1>9, <1>10 DEF CourseInv

\* An end that the handshakes demand, or that a timer brings about.
LEMMA EndsGoesOn ==
  ASSUME HandshakeInv, CourseInv, NEW e \in Parties, NEW how \in {"FAILED", "deleted"},
         Ends(e, how), state[e] \in {"CONNECTING", "HANDSHAKE"}, UNCHANGED peer_id,
         how = "deleted" => state[e] = "HANDSHAKE" /\ io[e] = "READ",
         ~timedOut' =>
           /\ ~timedOut
           /\ e = "tcp_server" => how = "deleted" /\ ~Welcomes(e)
           /\ e = "tracker" =>
                \/ /\ how = "FAILED" /\ state["tcp_server"] = "deleted"
                \/ /\ how = "deleted" /\ state["tcp_server"] = "CONNECTED" /\ ~Welcomes(e)
  PROVE  CourseInv'
<1> PICK o \in Parties : o = Other(e) /\ o # e /\ Other(o) = e
  BY Both
<1>1. TypeOK /\ AcceptingControl
  BY DEF HandshakeInv
<1>2. /\ state' = [state EXCEPT ![e] = how]
      /\ send_buffer' = [send_buffer EXCEPT ![e] = Ring!reset(send_buffer[e])]
      /\ recv_buffer' = [recv_buffer EXCEPT ![e] = Ring!reset(recv_buffer[e])]
      /\ UNCHANGED <<torrent, header, peer_id>>
      /\ io' = [io EXCEPT ![e] = "off"]
  BY DEF Ends
<1>3. Ring!reset(send_buffer[e]).readable = 0 /\ Ring!reset(recv_buffer[e]).readable = 0
  <2>1. IsRing(send_buffer[e]) /\ IsRing(recv_buffer[e])
    BY <1>1, RingFacts
  <2> QED BY <2>1 DEF Ring!reset, IsRing, Ring!Rings
<1>4. /\ state'[e] = how /\ state'[o] = state[o] /\ io'[o] = io[o]
      /\ send_buffer'[o] = send_buffer[o] /\ send_buffer'[e].readable = 0
      /\ recv_buffer'[o] = recv_buffer[o] /\ recv_buffer'[e].readable = 0
  BY <1>1, <1>2, <1>3 DEF TypeOK
<1>5. \A f : Welcomes(f)' <=> Welcomes(f)
  BY <1>2, WelcomesStay
<1>6. /\ e = "tracker" => o = "tcp_server"
      /\ e = "tcp_server" => o = "tracker"
  BY Both
<1>7. NoRingWaits'
  <2>1. \A f \in Parties : recv_buffer'[f].readable < Length
    BY <1>4, Both, Lengths DEF CourseInv, NoRingWaits
  <2> QED BY <1>4, <1>6, <2>1, Both DEF CourseInv, NoRingWaits
<1>8. KnownIsWelcome'
  <2>1. e = "tcp_server" /\ how = "deleted" => ~HasDecoded(e)
    BY <1>1 DEF AcceptingControl, HasDecoded
  <2> QED BY <1>2, <1>4, <1>5, <1>6, <2>1, Both DEF CourseInv, KnownIsWelcome, HasDecoded
<1>9. EndsAsDemanded'
  <2> SUFFICES ASSUME ~timedOut' PROVE EndsAsDemanded'
    BY DEF EndsAsDemanded
  <2>1. /\ state["tcp_server"] \in {"HANDSHAKE", IF Welcomes("tcp_server") THEN "CONNECTED"
                                                                      ELSE "deleted"}
        /\ state["tracker"] \in {"CONNECTING", "HANDSHAKE"} \/ Settled
    BY DEF CourseInv, EndsAsDemanded
  <2>2. CASE e = "tcp_server"
    <3>1. ~Settled
      BY <2>2 DEF Settled
    <3> QED BY <1>4, <1>5, <1>6, <2>1, <2>2, <3>1 DEF EndsAsDemanded
  <2>3. CASE e = "tracker"
    <3>1. Settled'
      BY <1>4, <1>5, <1>6, <2>1, <2>3 DEF Settled
    <3> QED BY <1>4, <1>5, <1>6, <2>1, <2>3, <3>1 DEF EndsAsDemanded
  <2> QED BY <2>2, <2>3, Both
<1> QED BY <1>7, <1>8, <1>9 DEF CourseInv

\* When the dialling party has the whole answer, the accepting one has been handed
\* over.
LEMMA AnswerIsLast ==
  ASSUME HandshakeInv, CourseInv, NEW r, NEW left, HasArrived("tracker", r, left), ~timedOut
  PROVE  state["tcp_server"] = "CONNECTED" /\ Welcomes("tcp_server")
<1> PICK s \in Parties : s = "tcp_server" /\ s = Other("tracker")
  BY Both
<1>1. TypeOK /\ AcceptingControl
  BY DEF HandshakeInv
<1>2. ~Ended(s) /\ HasEncoded(s) /\ Ring!contents(send_buffer[s]) = <<>>
  BY Both DEF HasArrived
<1>3. peer_id[s] # Nobody
  BY <1>2 DEF HasEncoded
<1>4. send_buffer[s].readable = 0
  BY <1>1, <1>2, RingFacts, EmptySeq
<1>5. state[s] \in States
  BY <1>1 DEF TypeOK
<1> QED BY <1>1, <1>2, <1>3, <1>4, <1>5
        DEF AcceptingControl, Ended, States, CourseInv, KnownIsWelcome, HasDecoded

\* HandshakeIncomplete.
LEMMA IncompleteGoesOn ==
  ASSUME HandshakeInv, CourseInv, NEW e \in Parties, NEW n, NEW r, IsRing(r),
         HandshakeIncomplete(e, n, r)
  PROVE  CourseInv'
<1>1. TypeOK
  BY DEF HandshakeInv
<1>2. /\ recv_buffer' = [recv_buffer EXCEPT ![e] = r]
      /\ UNCHANGED <<torrent, header, state, io, send_buffer, peer_id, timedOut>>
  BY DEF HandshakeIncomplete
<1>3. r.readable < Length
  BY RingContents, Lengths DEF HandshakeIncomplete, IsComplete, Ring!r_available
<1>4. \A f \in Parties : recv_buffer'[f].readable < Length
  BY <1>1, <1>2, <1>3 DEF TypeOK, CourseInv, NoRingWaits
<1>5. \A f : Welcomes(f)' <=> Welcomes(f)
  BY <1>2, WelcomesStay
<1>6. Settled' <=> Settled
  BY <1>2, <1>5 DEF Settled
<1>7. NoRingWaits'
  BY <1>2, <1>4 DEF CourseInv, NoRingWaits
<1>8. KnownIsWelcome'
  BY <1>2, <1>5 DEF CourseInv, KnownIsWelcome, HasDecoded
<1>9. EndsAsDemanded'
  BY <1>2, <1>5, <1>6 DEF CourseInv, EndsAsDemanded
<1> QED BY <1>7, <1>8, <1>9 DEF CourseInv

\* HandshakeAccepted and HandshakeAnswered.
LEMMA DecodedGoesOn ==
  ASSUME HandshakeInv, CourseInv, NEW e \in Parties, NEW n \in 1 .. Length, Reads(e, n),
         NEW r, r = Ring!Filled(recv_buffer[e], SubSeq(wire[e], 1, n)),
         HandshakeAccepted(e, n, r) \/ HandshakeAnswered(e, n, r)
  PROVE  CourseInv'
<1> PICK o \in Parties : o = Other(e) /\ o # e /\ Other(o) = e
  BY Both
<1>1. TypeOK /\ AcceptingControl
  BY DEF HandshakeInv
<1>2. /\ state[e] = "HANDSHAKE" /\ io[e] = "READ" /\ ~Ended(e) /\ ~HasDecoded(e)
      /\ ReceivedBytes(recv_buffer[e], wire[e], r, Left(e, n))
  BY ReadFinds
<1>3. /\ IsComplete(r) /\ Decoded(r, torrent[e], peer_id[e]).valid
      /\ peer_id' = [peer_id EXCEPT ![e] = Decoded(r, torrent[e], peer_id[e]).id]
      /\ recv_buffer' = [recv_buffer EXCEPT ![e] = Ring!commit_read(r, Length)]
      /\ UNCHANGED <<torrent, header, timedOut>>
  BY DEF HandshakeAccepted, HandshakeAnswered, Decodes
<1>4. HasArrived(e, r, Left(e, n))
  BY <1>2, <1>3, CompleteIsWhole
<1>5. IsRing(r) /\ r.readable = Length /\ Ring!contents(r) = Message(o)
  BY <1>2, <1>4 DEF ReceivedBytes, HasArrived
<1>6. Welcomes(e)
  BY <1>1, <1>3, <1>5, JudgedRight
<1>7. Ring!commit_read(r, Length).readable = 0
  <2>1. /\ IsRing(Ring!commit_read(r, Length))
        /\ Ring!contents(Ring!commit_read(r, Length)) = <<>>
    BY <1>5, DecodedEmpties
  <2> QED BY <2>1, RingContents, EmptySeq
<1>8. \A f \in Parties : recv_buffer'[f].readable < Length
  BY <1>1, <1>3, <1>7, Lengths DEF TypeOK, CourseInv, NoRingWaits
<1>9. \A f : Welcomes(f)' <=> Welcomes(f)
  BY <1>3, WelcomesStay
<1>10. peer_id'[o] = peer_id[o]
  BY <1>1, <1>3 DEF TypeOK
<1>11. CASE HandshakeAccepted(e, n, r)
  <2>1. /\ e = "tracker" /\ o = "tcp_server"
        /\ state' = [state EXCEPT ![e] = "CONNECTED"] /\ UNCHANGED send_buffer
    BY <1>11, Both DEF HandshakeAccepted
  <2>2. state'[e] = "CONNECTED" /\ state'[o] = state[o]
    BY <1>1, <2>1 DEF TypeOK
  <2>3. NoRingWaits'
    BY <1>8, <2>1, <2>2 DEF CourseInv, NoRingWaits
  <2>4. KnownIsWelcome'
    BY <1>6, <1>9, <1>10, <2>1, <2>2, Both DEF CourseInv, KnownIsWelcome, HasDecoded
  <2>5. EndsAsDemanded'
    <3> SUFFICES ASSUME ~timedOut PROVE EndsAsDemanded'
      BY <1>3 DEF EndsAsDemanded
    <3>1. state["tcp_server"] = "CONNECTED" /\ Welcomes("tcp_server")
      BY <1>4, <2>1, AnswerIsLast
    <3>2. Settled'
      BY <1>6, <1>9, <2>1, <2>2, <3>1 DEF Settled
    <3> QED BY <1>9, <2>1, <2>2, <3>1, <3>2 DEF EndsAsDemanded
  <2> QED BY <2>3, <2>4, <2>5 DEF CourseInv
<1>12. CASE HandshakeAnswered(e, n, r)
  <2>0. e = "tcp_server" /\ o = "tracker"
    BY <1>12, Both DEF HandshakeAnswered
  <2> PICK answer \in {Encoded(send_buffer[e], Message(e), 0)}, m \in 0 .. Length :
         /\ m <= answer.readable
         /\ send_buffer' = [send_buffer EXCEPT ![e] = Ring!Drained(answer, m)]
         /\ wire' = [wire EXCEPT ![e] = Left(e, n),
                                 ![Other(e)] = @ \o Ring!Taken(answer, m)]
         /\ state' = [state EXCEPT ![e] = IF m = answer.readable THEN "CONNECTED" ELSE @]
         /\ io' = [io EXCEPT ![e] = IF m = answer.readable THEN "off" ELSE "WRITE"]
    BY <1>12, Zenon DEF HandshakeAnswered
  <2>1. m = answer.readable => Ring!Drained(answer, m).readable = 0
    <3>1. IsRing(send_buffer[e])
      BY <1>1, RingFacts
    <3>2. Message(e) \in Seq(Bytes) /\ Len(Message(e)) = Length
      BY <1>1, MessageIs
    <3>3. IsRing(answer)
      BY <3>1, <3>2, EncodedIsRing
    <3>4. m \in 0 .. answer.readable /\ answer.readable \in 0 .. Length
      BY <3>3, RingContents
    <3>5. Ring!Drained(answer, m).readable = answer.readable - m
      BY <3>3, <3>4, RingReads
    <3> QED BY <3>4, <3>5, Lengths
  <2>2. /\ state'[o] = state[o] /\ io'[o] = io[o] /\ send_buffer'[o] = send_buffer[o]
        /\ send_buffer'[e] = Ring!Drained(answer, m)
        /\ state'[e] = "HANDSHAKE" \/ (state'[e] = "CONNECTED" /\ m = answer.readable)
    BY <1>1, <1>2 DEF TypeOK
  <2>3. NoRingWaits'
    BY <1>8, <2>0, <2>1, <2>2 DEF CourseInv, NoRingWaits
  <2>4. KnownIsWelcome'
    BY <1>6, <1>9, <1>10, <2>0, <2>2, Both DEF CourseInv, KnownIsWelcome, HasDecoded
  <2>5. EndsAsDemanded'
    <3> SUFFICES ASSUME ~timedOut PROVE EndsAsDemanded'
      BY <1>3 DEF EndsAsDemanded
    <3>1. ~Settled
      BY <1>2, <2>0 DEF Settled
    <3>2. state["tracker"] \in {"CONNECTING", "HANDSHAKE"}
      BY <3>1 DEF CourseInv, EndsAsDemanded
    <3> QED BY <1>6, <1>9, <2>0, <2>2, <3>2 DEF EndsAsDemanded
  <2> QED BY <2>3, <2>4, <2>5 DEF CourseInv
<1> QED BY <1>11, <1>12

\* HandshakeRefused.
LEMMA RefusedGoesOn ==
  ASSUME HandshakeInv, CourseInv, NEW e \in Parties, NEW n \in 1 .. Length, Reads(e, n),
         NEW r, r = Ring!Filled(recv_buffer[e], SubSeq(wire[e], 1, n)),
         HandshakeRefused(e, n, r)
  PROVE  CourseInv'
<1>1. TypeOK
  BY DEF HandshakeInv
<1>2. /\ state[e] = "HANDSHAKE" /\ io[e] = "READ" /\ ~Ended(e) /\ ~HasDecoded(e)
      /\ ReceivedBytes(recv_buffer[e], wire[e], r, Left(e, n))
  BY ReadFinds
<1>3. /\ IsComplete(r) /\ ~Decoded(r, torrent[e], peer_id[e]).valid /\ Ends(e, "deleted")
      /\ UNCHANGED <<peer_id, timedOut>>
  BY DEF HandshakeRefused
<1>4. HasArrived(e, r, Left(e, n))
  BY <1>2, <1>3, CompleteIsWhole
<1>5. IsRing(r) /\ r.readable = Length /\ Ring!contents(r) = Message(Other(e))
  BY <1>2, <1>4 DEF ReceivedBytes, HasArrived
<1>6. ~Welcomes(e)
  BY <1>1, <1>3, <1>5, JudgedRight
<1>7. e = "tracker" /\ ~timedOut => state["tcp_server"] = "CONNECTED"
  BY <1>4, AnswerIsLast
<1> QED BY <1>2, <1>3, <1>6, <1>7, Both, EndsGoesOn

\* Fails: only the accepting party's refusal makes it happen before a timer.
LEMMA FailsGoesOn ==
  ASSUME HandshakeInv, CourseInv, NEW e \in Parties, Fails(e)
  PROVE  CourseInv'
<1>1. /\ Ends(e, "FAILED") /\ UNCHANGED <<peer_id, timedOut>>
      /\ state[e] \in {"CONNECTING", "HANDSHAKE"}
      /\ Ended(Other(e)) \/ Ring!full(recv_buffer[e])
  BY DEF Fails, Ended
<1>2. TypeOK
  BY DEF HandshakeInv
<1>3. Ended(Other(e))
  <2>1. recv_buffer[e].readable \in 0 .. Length /\ recv_buffer[e].readable < Length
    BY <1>2, RingFacts DEF CourseInv, NoRingWaits
  <2> QED BY <1>1, <2>1, Lengths DEF Ring!full
<1>4. ASSUME ~timedOut PROVE e = "tracker" /\ state["tcp_server"] = "deleted"
  <2>1. /\ state["tcp_server"] \in {"HANDSHAKE", "CONNECTED", "deleted"}
        /\ state["tracker"] \in {"CONNECTING", "HANDSHAKE"} \/ Settled
    BY <1>4 DEF CourseInv, EndsAsDemanded
  <2> QED BY <1>1, <1>3, <2>1, Both DEF Ended, Settled
<1> QED BY <1>1, <1>4, EndsGoesOn

LEMMA CourseBegins == Init => CourseInv
<1> SUFFICES ASSUME Init PROVE CourseInv
  OBVIOUS
<1>1. \A e \in Parties :
        /\ state[e] = IF e = "tracker" THEN "CONNECTING" ELSE "HANDSHAKE"
        /\ peer_id[e] = Nobody /\ recv_buffer[e].readable = 0
  BY DEF Init
<1> QED BY <1>1, Both, Lengths
        DEF CourseInv, NoRingWaits, KnownIsWelcome, EndsAsDemanded, HasDecoded

LEMMA CourseGoesOn == HandshakeInv /\ CourseInv /\ [Next]_vars => CourseInv'
<1> SUFFICES ASSUME HandshakeInv, CourseInv, [Next]_vars PROVE CourseInv'
  OBVIOUS
<1>1. ASSUME NEW e \in Parties, NEW n \in 0 .. Length, TransportInitiation(e, n)
      PROVE  CourseInv'
  BY <1>1, InitiationGoesOn
<1>2. ASSUME NEW e \in Parties, NEW n \in 0 .. Length, HandshakeSent(e, n) PROVE CourseInv'
  BY <1>2, SentGoesOn
<1>3. ASSUME NEW e \in Parties, HandshakeReceived(e) PROVE CourseInv'
  <2>1. PICK n \in 1 .. Length :
          /\ Reads(e, n)
          /\ \E r \in {Ring!Filled(recv_buffer[e], SubSeq(wire[e], 1, n))} :
               \/ HandshakeIncomplete(e, n, r) \/ HandshakeRefused(e, n, r)
               \/ HandshakeAccepted(e, n, r) \/ HandshakeAnswered(e, n, r)
    BY <1>3, Zenon DEF HandshakeReceived
  <2>2. PICK r :
          /\ r = Ring!Filled(recv_buffer[e], SubSeq(wire[e], 1, n))
          /\ \/ HandshakeIncomplete(e, n, r) \/ HandshakeRefused(e, n, r)
             \/ HandshakeAccepted(e, n, r) \/ HandshakeAnswered(e, n, r)
    BY <2>1
  <2>3. CASE HandshakeIncomplete(e, n, r)
    <3>1. IsRing(r)
      BY <2>1, <2>2, ReadFinds DEF ReceivedBytes
    <3> QED BY <2>3, <3>1, IncompleteGoesOn
  <2>4. CASE HandshakeRefused(e, n, r)
    BY <2>1, <2>2, <2>4, RefusedGoesOn
  <2>5. CASE HandshakeAccepted(e, n, r) \/ HandshakeAnswered(e, n, r)
    BY <2>1, <2>2, <2>5, DecodedGoesOn
  <2> QED BY <2>2, <2>3, <2>4, <2>5
<1>4. ASSUME NEW e \in Parties, Fails(e) PROVE CourseInv'
  BY <1>4, FailsGoesOn
<1>5. ASSUME NEW e \in Parties, ConnectTimer(e) PROVE CourseInv'
  <2>1. /\ Ends(e, "FAILED") /\ state[e] \in {"CONNECTING", "HANDSHAKE"}
        /\ UNCHANGED peer_id /\ timedOut' = TRUE
    BY <1>5 DEF ConnectTimer
  <2> QED BY <2>1, EndsGoesOn
<1>6. CASE UNCHANGED vars
  <2>1. \A f : Welcomes(f)' <=> Welcomes(f)
    BY <1>6, WelcomesStay DEF vars
  <2>2. NoRingWaits' /\ KnownIsWelcome'
    BY <1>6, <2>1 DEF CourseInv, NoRingWaits, KnownIsWelcome, HasDecoded, vars
  <2>3. Settled' <=> Settled
    BY <1>6, <2>1 DEF Settled, vars
  <2> QED BY <1>6, <2>1, <2>2, <2>3 DEF CourseInv, EndsAsDemanded, vars
<1> QED BY <1>1, <1>2, <1>3, <1>4, <1>5, <1>6 DEF Next, SocketCallback

LEMMA Course == Spec => []CourseInv
<1> QED BY CourseBegins, CourseGoesOn, Invariance, PTL DEF Spec

\* No exchange ends otherwise than the two handshakes demand, unless a timer
\* expires (decode, and a full ring at recvmsg).
THEOREM EndsOnlyAsDemanded == Spec => []EndsAsDemanded
<1>1. CourseInv => EndsAsDemanded
  BY DEF CourseInv
<1> QED BY <1>1, Course, PTL

----------------------------------------------------------------------------
(* No waiting for one another.                                             *)

\* A party that reads finds a byte, and room for it, once the other one has sent
\* all that it has.
LEMMA AnswerIsThere ==
  ASSUME HandshakeInv, NoRingWaits, NEW e \in Parties, state[e] = "HANDSHAKE", io[e] = "READ",
         ~Ended(Other(e)), HasEncoded(Other(e)), send_buffer[Other(e)].readable = 0
  PROVE  \E n \in 1 .. Length : Reads(e, n)
<1> PICK o \in Parties : o = Other(e) /\ o # e /\ Other(o) = e
  BY Both
<1>1. TypeOK /\ Flow(o) /\ DiallingControl /\ AcceptingControl
  BY DEF HandshakeInv
<1>2. ~HasDecoded(e) /\ ~Ended(e)
  BY <1>1, Both DEF DiallingControl, AcceptingControl, HasDecoded, Ended
<1>3. Path(o) = Message(o)
  BY <1>1, <1>2 DEF Flow
<1> PICK a, w, c : /\ a = Ring!contents(recv_buffer[e]) /\ w = wire[e]
                   /\ c = Ring!contents(send_buffer[o])
  OBVIOUS
<1>11. IsRing(recv_buffer[e])
  BY <1>1, RingFacts
<1>4. /\ a \in Seq(Bytes) /\ w \in Seq(Bytes) /\ c \in Seq(Bytes)
      /\ Len(a) = recv_buffer[e].readable /\ Len(c) = send_buffer[o].readable
      /\ recv_buffer[e].readable \in 0 .. Length
  <2>1. a \in Seq(Bytes) /\ Len(a) = recv_buffer[e].readable
    BY <1>11, RingContents
  <2> QED BY <1>1, <2>1, RingFacts
<1>5. Len((a \o w) \o c) = Length
  <2>1. Message(o) = (a \o w) \o c
    BY <1>3 DEF Path
  <2>2. Len(Message(o)) = Length
    BY <1>1, MessageIs
  <2> QED BY <2>1, <2>2
<1>6. Len((a \o w) \o c) = Len(a) + Len(w) + Len(c)
  <2>1. AreBehind(Bytes, a, w, c)
    BY <1>4, ThreeParts
  <2> QED BY <2>1 DEF AreBehind
<1> PICK l, q \in Nat : l = Len(w) /\ q = recv_buffer[e].readable
  BY <1>4, Lengths
<1>7. q + l = Length /\ q < Length /\ Len(a) = q /\ Len(c) = 0
  <2>1. Len(a) = q /\ Len(c) = 0
    BY <1>4
  <2>2. q + l + 0 = Length
    BY <1>5, <1>6, <2>1
  <2> QED BY <2>1, <2>2 DEF NoRingWaits
<1>8. 1 <= l /\ 1 <= Length - q /\ 1 \in 1 .. Length
  BY <1>7, Lengths
<1>9. Least(Len(wire[e]), Ring!w_available(recv_buffer[e])) \in {l, Length - q}
  BY DEF Least, Ring!w_available
<1>10. Reads(e, 1)
  <2> PICK b : b = Least(Len(wire[e]), Ring!w_available(recv_buffer[e]))
    OBVIOUS
  <2>1. b \in Nat /\ 1 <= b
    BY <1>7, <1>8, <1>9, Lengths
  <2> QED BY <2>1 DEF Reads
<1> QED BY <1>8, <1>10

\* The parties of an exchange never wait for one another (the watchers that
\* handle_peer_transport_level_initiations and handle_peer_application_level_handshake
\* leave behind).
THEOREM NeverWaitingForEver == Spec => []NeverStuck
<1>1. HandshakeInv /\ CourseInv => NeverStuck
  <2> SUFFICES ASSUME HandshakeInv, CourseInv,
                      NEW e \in Parties, state[e] \in {"CONNECTING", "HANDSHAKE"}
               PROVE  \E f \in Parties : IsDue(f)
    BY DEF NeverStuck
  <2> DEFINE t == "tracker"
             s == "tcp_server"
  <2>1. /\ TypeOK /\ DiallingControl /\ AcceptingControl /\ NoRingWaits
        /\ t \in Parties /\ s \in Parties /\ Other(t) = s /\ Other(s) = t
    BY Both DEF HandshakeInv, CourseInv
  <2>2. CASE \E f \in Parties : \/ state[f] = "CONNECTING"
                                \/ state[f] = "HANDSHAKE" /\ io[f] = "WRITE"
    BY <2>1, <2>2, Both DEF IsDue, DiallingControl, AcceptingControl
  <2>3. CASE \E f \in Parties : state[f] = "HANDSHAKE" /\ Ended(Other(f))
    BY <2>3 DEF IsDue, Ended
  <2>4. CASE /\ ~\E f \in Parties : \/ state[f] = "CONNECTING"
                                    \/ state[f] = "HANDSHAKE" /\ io[f] = "WRITE"
             /\ ~\E f \in Parties : state[f] = "HANDSHAKE" /\ Ended(Other(f))
    <3>1. state[t] \in States /\ state[s] \in States
      BY <2>1 DEF TypeOK
    <3>2. /\ state[t] = "HANDSHAKE" => io[t] = "READ" /\ send_buffer[t].readable = 0
          /\ state[s] = "HANDSHAKE" => io[s] = "READ"
      BY <2>1, <2>4 DEF NoRingWaits, AcceptingControl
    <3>3. CASE state[s] = "HANDSHAKE"
      <4>1. state[t] = "HANDSHAKE"
        BY <2>1, <2>4, <3>1, <3>3 DEF States, Ended, DiallingControl
      <4>2. \E n \in 1 .. Length : Reads(s, n)
        BY <2>1, <3>2, <3>3, <4>1, AnswerIsThere DEF Ended, HasEncoded
      <4> QED BY <2>1, <4>2 DEF IsDue
    <3>4. CASE state[t] = "HANDSHAKE" /\ state[s] # "HANDSHAKE"
      <4>1. state[s] = "CONNECTED"
        BY <2>1, <2>4, <3>1, <3>4 DEF States, Ended
      <4>2. \E n \in 1 .. Length : Reads(t, n)
        BY <2>1, <3>2, <3>4, <4>1, AnswerIsThere
           DEF Ended, HasEncoded, NoRingWaits, AcceptingControl
      <4> QED BY <2>1, <4>2 DEF IsDue
    <3> QED BY <2>1, <2>4, <3>3, <3>4, Both
  <2> QED BY <2>2, <2>3, <2>4
<1> QED BY <1>1, Invariance, Course, PTL
=============================================================================
