------------------------------- MODULE MCPeer -------------------------------
(* Instances of PeerHeartbeat: two agents that watch each other.           *)
EXTENDS PeerHeartbeat, TLC

CONSTANTS a1, a2
=============================================================================
