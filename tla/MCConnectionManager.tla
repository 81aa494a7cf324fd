------------------------ MODULE MCConnectionManager ------------------------
(* Small instances of the connection manager for TLC. *)
EXTENDS ConnectionProperties, TLC

CONSTANTS s1, s2, e1, e2

SlotSymmetry == Permutations(Slots)
=============================================================================
