---------------------------- MODULE MCPeerLinks -----------------------------
(* Small instances of PeerLinks for TLC. *)
EXTENDS PeerLinks, TLC
Symmetry == Permutations(Node) \cup Permutations(Sessions)
=============================================================================
