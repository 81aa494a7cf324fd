---------------------------- MODULE MCHandshake ----------------------------
(***************************************************************************)
(* An instance of Handshake for TLC: seven bytes, of which the info hash   *)
(* and the peer id have two each, so that the end of the ring can be       *)
(* before, inside and behind each field.                                   *)
(***************************************************************************)
EXTENDS Handshake

MCBytes == 0 .. 9
\* Both parties are good; the dialling one, or the accepting one, sends a wrong
\* length; the dialling one sends a wrong string; their info hashes differ in the
\* first byte, or in the last.
Good == <<9, 8, 0>>
Both(dialling, accepting) ==
  [e \in Parties |-> IF e = "tracker" THEN dialling ELSE accepting]
MCExchanges ==
  LET Same == Both(<<1, 2>>, <<1, 2>>) IN
  [torrent : {Same}, header : {Both(Good, Good), Both(<<7, 8, 0>>, Good),
                               Both(Good, <<7, 8, 0>>), Both(<<9, 7, 0>>, Good)}]
  \cup
  [torrent : {Both(<<1, 2>>, <<3, 2>>), Both(<<1, 2>>, <<1, 4>>)},
   header : {Both(Good, Good)}]
MCIds == Both(<<5, 6>>, <<6, 5>>)
\* The manager begins at 0, since it resets a ring or empties all of it.
MCStarts == 0 .. Length - 1
=============================================================================
