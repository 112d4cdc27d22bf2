----------------------------- MODULE MCPeerManager -----------------------------
(* Two interchangeable peers, one block, bans of one and two time units by the
   manager, and of three or for ever by a caller. *)
EXTENDS PeerManager, TLC

Symmetry == Permutations(Peers)
================================================================================
