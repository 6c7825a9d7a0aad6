-------------------------- MODULE MCPeerUpdateLane --------------------------
(* Two connected peers. *)
EXTENDS PeerUpdateLane
=============================================================================
