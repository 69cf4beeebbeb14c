--------------------------- MODULE MCChatHandover ---------------------------
(* Small instances of ChatHandover for TLC. *)
EXTENDS ChatHandover, TLC

ConnAndTextSymmetry == Permutations(Conns) \cup Permutations(Texts)
=============================================================================
