----------------------------- MODULE MCPeerLists -----------------------------
(* An instance of PeerLists for TLC: ids of three bits. *)
EXTENDS PeerLists, Bitwise

Nodes == {1, 2, 6}
Lists == {0, 4}
Distances == [n \in Nodes |-> [l \in Lists |-> n ^^ l]]
==============================================================================
