--------------------------- MODULE MCRagConnection ---------------------------
(* Instances of RagConnection for TLC. *)
EXTENDS RagConnection, TLC

SocketSymmetry == Permutations(Sockets)
=============================================================================
