----------------------------- MODULE Handshake -----------------------------
(***************************************************************************)
(* The exchange of handshakes over a TCP connection between two parties    *)
(* that run this client: the one that dialled (psource::tracker) encodes   *)
(* its handshake first, the one that accepted (psource::tcp_server)        *)
(* decodes it and answers.  Bytes pass from the ring of the sender, over   *)
(* the wire, to the ring of the receiver, in pieces of any size, and are   *)
(* decoded where they lie, by views into the ring.                         *)
(*                                                                         *)
(* One connection is followed, from the end of connect to its handover.    *)
(* What the manager does beyond it is in ConnectionManager.                *)
(***************************************************************************)
EXTENDS Naturals, Sequences

CONSTANTS
  PstrLength, ReservedLength, HashLength, IdLength,  \* 19, 8, 20 and 20
  Bytes,        \* the bytes
  Pstrlen,      \* 0x13
  Zero,         \* what a new ring is filled with
  Exchanges,    \* the info hash that each party has and expects, and the bytes
                \* that it sends before it
  Ids,          \* the peer id of each party
  Starts        \* where in the rings an exchange may begin

Parties == {"tracker", "tcp_server"}
Other(e) == IF e = "tracker" THEN "tcp_server" ELSE "tracker"

\* length::handshake, which is the size of both rings as well.
HeaderLength == 1 + PstrLength + ReservedLength
Length == HeaderLength + HashLength + IdLength

ASSUME LengthAssumption ==
  /\ PstrLength \in Nat /\ ReservedLength \in Nat
  /\ HashLength \in Nat \ {0} /\ IdLength \in Nat \ {0}
ASSUME FieldsAssumption ==
  /\ Exchanges \subseteq [torrent : [Parties -> [1 .. HashLength -> Bytes]],
                          header : [Parties -> [1 .. HeaderLength -> Bytes]]]
  /\ Zero \in Bytes
  /\ Ids \in [Parties -> [1 .. IdLength -> Bytes]]
ASSUME StartsAssumption == Starts \subseteq 0 .. Length - 1

Ring == INSTANCE IoRingBuffer WITH N <- Length

VARIABLES
  torrent, header,  \* of this exchange (never changed)
  state,         \* of each party's PeerConnection
  io,            \* the event that its socket's watcher waits for
  send_buffer, recv_buffer,
  peer_id,       \* what it has learned of the other
  wire,          \* the bytes on their way to it
  timedOut       \* a connect timer has expired

vars == <<torrent, header, state, io, send_buffer, recv_buffer, peer_id, wire, timedOut>>

States == {"CONNECTING", "HANDSHAKE", "CONNECTED", "FAILED", "deleted"}
Nobody == <<>>

\* The handshake of a party, see compute_handshake.
Message(e) == header[e] \o torrent[e] \o Ids[e]

Init ==
  /\ \E x \in Exchanges : torrent = x.torrent /\ header = x.header
  /\ state = [e \in Parties |-> IF e = "tracker" THEN "CONNECTING" ELSE "HANDSHAKE"]
  /\ io = [e \in Parties |-> IF e = "tracker" THEN "WRITE" ELSE "READ"]
  /\ \E i \in Starts :
       LET ring == [read |-> i, write |-> i, readable |-> 0,
                    buffer |-> [a \in Ring!Addresses |-> Zero]]
       IN /\ send_buffer = [e \in Parties |-> ring]
          /\ recv_buffer = [e \in Parties |-> ring]
  /\ peer_id = [e \in Parties |-> Nobody]
  /\ wire = [e \in Parties |-> <<>>]
  /\ timedOut = FALSE

----------------------------------------------------------------------------
\* The codec.

Least(a, b) == IF a <= b THEN a ELSE b

\* encode of a message from the cursor on: as much as there is room for.
Encoded(r, message, cursor) ==
  LET n == Least(Length - cursor, Ring!w_available(r))
  IN Ring!Filled(r, SubSeq(message, cursor + 1, cursor + n))

\* The first n bytes of a view, and what is left of it.
First(v, n) == Ring!View(v.base, n)
Beyond(v, n) == Ring!View(v.base + n, v.len - n)

\* Faulty: the second view is not advanced past the stolen bytes.
FieldNotAdvanced(views, n) ==
  IF n <= views[1].len
  THEN [views |-> <<First(views[1], n)>>, rest |-> <<Beyond(views[1], n)>> \o Tail(views)]
  ELSE [views |-> <<views[1], First(views[2], n - views[1].len)>>, rest |-> <<views[2]>>]

\* A field of n bytes at the beginning of the views.  If the first view ends
\* inside it, the rest is stolen from the second one (wraparound_steal), which
\* is then read on behind the stolen bytes.
Field(views, n) ==
  IF n <= views[1].len
  THEN [views |-> <<First(views[1], n)>>, rest |-> <<Beyond(views[1], n)>> \o Tail(views)]
  ELSE [views |-> <<views[1], First(views[2], n - views[1].len)>>,
        rest |-> <<Beyond(views[2], n - views[1].len)>>]

\* Faulty: a handshake counts as complete one byte late.
IsCompleteLate(r) == Ring!r_available(r) > Length

IsComplete(r) == Ring!r_available(r) >= Length

\* decode of a complete handshake.  The bytes of pstr and reserved are skipped,
\* and a bad length or info hash leaves peer_id alone.
Decoded(r, info_hash, id) ==
  LET pstrlen  == Field(Ring!prepare_read(r), 1)
      pstr     == Field(pstrlen.rest, PstrLength)
      reserved == Field(pstr.rest, ReservedLength)
      hash     == Field(reserved.rest, HashLength)
      peer     == Field(hash.rest, IdLength)
      valid    == /\ Ring!Gathered(r, pstrlen.views, 1)[1] = Pstrlen
                  /\ Ring!Gathered(r, hash.views, HashLength) = info_hash
  IN [valid |-> valid,
      id |-> IF valid THEN Ring!Gathered(r, peer.views, IdLength) ELSE id]

----------------------------------------------------------------------------
\* The callbacks.

\* Faulty: what was sent is not committed, and sent again.
SendUncommitted(e, r, n) ==
  /\ send_buffer' = [send_buffer EXCEPT ![e] = r]
  /\ wire' = [wire EXCEPT ![Other(e)] = @ \o Ring!Taken(r, n)]

\* send: the kernel takes any part of what there is, or none (EAGAIN).
Send(e, r, n) ==
  /\ send_buffer' = [send_buffer EXCEPT ![e] = Ring!Drained(r, n)]
  /\ wire' = [wire EXCEPT ![Other(e)] = @ \o Ring!Taken(r, n)]

\* Faulty: the watcher of the dialling party goes on waiting to write.
ExhaustedStillWriting(e) ==
  IF e = "tracker"
  THEN /\ io' = [io EXCEPT ![e] = "WRITE"]
       /\ state' = [state EXCEPT ![e] = "HANDSHAKE"]
  ELSE /\ io' = [io EXCEPT ![e] = "off"]
       /\ state' = [state EXCEPT ![e] = "CONNECTED"]

\* The watcher of the dialling party waits for the answer once its handshake is
\* sent; the accepting party is done.
Exhausted(e) ==
  IF e = "tracker"
  THEN /\ io' = [io EXCEPT ![e] = "READ"]
       /\ state' = [state EXCEPT ![e] = "HANDSHAKE"]
  ELSE /\ io' = [io EXCEPT ![e] = "off"]
       /\ state' = [state EXCEPT ![e] = "CONNECTED"]

\* Sends n bytes and goes on by what is left in the ring.
SendAndWait(e, r, n) ==
  /\ Send(e, r, n)
  /\ IF n = r.readable
     THEN Exhausted(e)
     ELSE /\ io' = [io EXCEPT ![e] = "WRITE"]
          /\ state' = [state EXCEPT ![e] = "HANDSHAKE"]

\* The connect has succeeded: handle_peer_transport_level_initiations.
TransportInitiation(e, n) ==
  /\ state[e] = "CONNECTING"
  /\ \E r \in {Encoded(send_buffer[e], Message(e), 0)} :
       n <= r.readable /\ SendAndWait(e, r, n)
  /\ UNCHANGED <<torrent, header, recv_buffer, peer_id, timedOut>>

\* handle_peer_application_level_handshake, the write event.
HandshakeSent(e, n) ==
  /\ state[e] = "HANDSHAKE" /\ io[e] = "WRITE"
  /\ n \in 0 .. send_buffer[e].readable
  /\ SendAndWait(e, send_buffer[e], n)
  /\ UNCHANGED <<torrent, header, recv_buffer, peer_id, timedOut>>

\* handle_peer_failure, or the deletion of a peer: the socket is closed, and the
\* rings are reset.
Ends(e, how) ==
  /\ state' = [state EXCEPT ![e] = how]
  /\ io' = [io EXCEPT ![e] = "off"]
  /\ send_buffer' = [send_buffer EXCEPT ![e] = Ring!reset(@)]
  /\ recv_buffer' = [recv_buffer EXCEPT ![e] = Ring!reset(@)]
  /\ UNCHANGED <<torrent, header>>

\* The read event: recvmsg returns n bytes, some of those there are and there is
\* room for.  r is the ring with them.
Reads(e, n) ==
  /\ state[e] = "HANDSHAKE" /\ io[e] = "READ"
  /\ n \in 1 .. Least(Len(wire[e]), Ring!w_available(recv_buffer[e]))

Left(e, n) == SubSeq(wire[e], n + 1, Len(wire[e]))

\* They do not complete a handshake.
HandshakeIncomplete(e, n, r) ==
  /\ ~IsComplete(r)
  /\ recv_buffer' = [recv_buffer EXCEPT ![e] = r]
  /\ wire' = [wire EXCEPT ![e] = Left(e, n)]
  /\ UNCHANGED <<torrent, header, state, io, send_buffer, peer_id, timedOut>>

\* They complete a bad one.
HandshakeRefused(e, n, r) ==
  /\ IsComplete(r)
  /\ ~Decoded(r, torrent[e], peer_id[e]).valid
  /\ Ends(e, "deleted")
  /\ wire' = [wire EXCEPT ![e] = Left(e, n)]
  /\ UNCHANGED <<peer_id, timedOut>>

\* They complete a good one.
Decodes(e, r) ==
  /\ IsComplete(r)
  /\ \E decoded \in {Decoded(r, torrent[e], peer_id[e])} :
       /\ decoded.valid
       /\ peer_id' = [peer_id EXCEPT ![e] = decoded.id]
  /\ recv_buffer' = [recv_buffer EXCEPT ![e] = Ring!commit_read(r, Length)]
  /\ UNCHANGED <<torrent, header, timedOut>>

\* The dialling party is done.
HandshakeAccepted(e, n, r) ==
  /\ e = "tracker"
  /\ Decodes(e, r)
  /\ state' = [state EXCEPT ![e] = "CONNECTED"]
  /\ io' = [io EXCEPT ![e] = "off"]
  /\ wire' = [wire EXCEPT ![e] = Left(e, n)]
  /\ UNCHANGED send_buffer

\* The accepting one answers, and m bytes of its answer leave at once.
HandshakeAnswered(e, n, r) ==
  /\ e = "tcp_server"
  /\ Decodes(e, r)
  /\ \E answer \in {Encoded(send_buffer[e], Message(e), 0)}, m \in 0 .. Length :
       /\ m <= answer.readable
       /\ send_buffer' = [send_buffer EXCEPT ![e] = Ring!Drained(answer, m)]
       /\ wire' = [wire EXCEPT ![e] = Left(e, n),
                               ![Other(e)] = @ \o Ring!Taken(answer, m)]
       /\ state' = [state EXCEPT ![e] = IF m = answer.readable THEN "CONNECTED" ELSE @]
       /\ io' = [io EXCEPT ![e] = IF m = answer.readable THEN "off" ELSE "WRITE"]

HandshakeReceived(e) == \E n \in 1 .. Length :
  /\ Reads(e, n)
  /\ \E r \in {Ring!Filled(recv_buffer[e], SubSeq(wire[e], 1, n))} :
       \/ HandshakeIncomplete(e, n, r) \/ HandshakeRefused(e, n, r)
       \/ HandshakeAccepted(e, n, r) \/ HandshakeAnswered(e, n, r)

\* The other party has closed its socket: the connect, a send or a receive fails,
\* or recvmsg returns 0.  It returns 0 as well when a full ring gives it no room.
Fails(e) ==
  /\ state[e] \in {"CONNECTING", "HANDSHAKE"}
  /\ \/ state[Other(e)] \in {"FAILED", "deleted"}
     \/ io[e] = "READ" /\ Ring!full(recv_buffer[e])
  /\ Ends(e, "FAILED")
  /\ UNCHANGED <<peer_id, wire, timedOut>>

\* The connect timer, which runs until the handover.
ConnectTimer(e) ==
  /\ state[e] \in {"CONNECTING", "HANDSHAKE"}
  /\ Ends(e, "FAILED")
  /\ timedOut' = TRUE
  /\ UNCHANGED <<peer_id, wire>>

----------------------------------------------------------------------------
SocketCallback(e) ==
  \/ \E n \in 0 .. Length : TransportInitiation(e, n) \/ HandshakeSent(e, n)
  \/ HandshakeReceived(e)
  \/ Fails(e)

Next == \E e \in Parties : SocketCallback(e) \/ ConnectTimer(e)

Spec == Init /\ [][Next]_vars

\* TCP delivers what was sent, and makes room for more: a callback that can do
\* something is called.  Timers need not expire.
Fairness == \A e \in Parties : WF_vars(SocketCallback(e))

FairSpec == Spec /\ Fairness

----------------------------------------------------------------------------
\* The values of the variables; the indices of each ring agree.
TypeOK ==
  /\ [torrent |-> torrent, header |-> header] \in Exchanges
  /\ state \in [Parties -> States]
  /\ io \in [Parties -> {"READ", "WRITE", "off"}]
  /\ send_buffer \in [Parties -> Ring!Rings]
  /\ recv_buffer \in [Parties -> Ring!Rings]
  /\ \A e \in Parties : Ring!Consistent(send_buffer[e]) /\ Ring!Consistent(recv_buffer[e])
  /\ peer_id \in [Parties -> [1 .. IdLength -> Bytes] \cup {Nobody}]
  /\ wire \in [Parties -> Seq(Bytes)]
  /\ timedOut \in BOOLEAN

\* Where the bytes are that e has to deliver, and whether it has to.
Path(e) == Ring!contents(recv_buffer[Other(e)]) \o wire[Other(e)]
             \o Ring!contents(send_buffer[e])
HasEncoded(e) == IF e = "tracker" THEN state[e] # "CONNECTING" ELSE peer_id[e] # Nobody
HasDecoded(e) == peer_id[e] # Nobody

\* From its encoding to its decoding each byte of a handshake is in exactly one
\* place, the sender's ring, the wire or the receiver's ring, and they are in
\* order; before and after it nothing is left anywhere (the views of
\* prepare_read and prepare_write, wherever the indices are).
BytesInOrder ==
  (\A e \in Parties : state[e] \notin {"FAILED", "deleted"}) =>
    \A e \in Parties :
      Path(e) = IF HasEncoded(e) /\ ~HasDecoded(Other(e)) THEN Message(e) ELSE <<>>

\* A party is handed over only knowing the other's peer id and sharing its info
\* hash, and the dialling one only after the accepting one (decode, :524-581).
ConnectedKnowsPeer ==
  /\ \A e \in Parties : state[e] = "CONNECTED" =>
       peer_id[e] = Ids[Other(e)] /\ torrent[e] = torrent[Other(e)]
  /\ state["tracker"] = "CONNECTED" => state["tcp_server"] = "CONNECTED"

\* How an exchange ends, as the two handshakes demand.
Welcomes(e) == header[Other(e)][1] = Pstrlen /\ torrent[Other(e)] = torrent[e]
Settled ==
  IF Welcomes("tcp_server")
  THEN /\ state["tcp_server"] = "CONNECTED"
       /\ state["tracker"] = IF Welcomes("tracker") THEN "CONNECTED" ELSE "deleted"
  ELSE state["tcp_server"] = "deleted" /\ state["tracker"] = "FAILED"

\* Unless a timer expires no party ends otherwise than the handshakes demand, nor
\* the dialling one before the accepting one: none takes a full ring for the end of
\* the connection, or refuses a good handshake because of how it lay in the ring
\* (decode, :524-581).
EndsAsDemanded == ~timedOut =>
  /\ state["tcp_server"] \in
       {"HANDSHAKE", IF Welcomes("tcp_server") THEN "CONNECTED" ELSE "deleted"}
  /\ state["tracker"] \in {"CONNECTING", "HANDSHAKE"} \/ Settled

\* A callback of e that changes something is due.
IsDue(e) ==
  \/ state[e] = "CONNECTING"
  \/ state[e] = "HANDSHAKE" /\ io[e] = "WRITE" /\ send_buffer[e].readable # 0
  \/ \E n \in 1 .. Length : Reads(e, n)
  \/ state[e] = "HANDSHAKE" /\ state[Other(e)] \in {"FAILED", "deleted"}

\* The parties never wait for one another: while one of them is not done, a
\* callback of one of them is due (the watchers that each callback leaves behind).
NeverStuck ==
  (\E e \in Parties : state[e] \in {"CONNECTING", "HANDSHAKE"}) =>
    \E e \in Parties : IsDue(e)

\* How many callbacks that change something there can still be: each byte leaves
\* once and arrives once, and each party goes through its stages.
Unsent(e) == IF HasEncoded(e) THEN send_buffer[e].readable ELSE Length
Stage(e) ==
  CASE state[e] = "CONNECTING" -> 3
    [] state[e] = "HANDSHAKE"  -> IF (io[e] = "READ") = (e = "tcp_server") THEN 2 ELSE 1
    [] OTHER -> 0
CallbacksLeft(e) == 2 * Unsent(e) + Len(wire[e]) + Stage(e)
AllCallbacksLeft == CallbacksLeft("tracker") + CallbacksLeft("tcp_server")

\* No callback undoes the work of another, or does it again: each that changes
\* anything brings the exchange nearer to its end (peer_socket_callback).
EveryCallbackCounts == [][AllCallbacksLeft' < AllCallbacksLeft]_vars

\* So every exchange ends as the handshakes demand, unless a timer expires.
ExchangeEnds == <>[](timedOut \/ Settled)
=============================================================================
