------------------------------ MODULE MCRouter ------------------------------
(* Instances of Router for TLC: the local peer between two others in       *)
(* PeerId order, so that ties are broken on both sides of it; and three    *)
(* other peers, as many as it takes for loads to be tangled.               *)
EXTENDS Router

MCPeer == 0 .. 2
MCFourPeers == 0 .. 3
=============================================================================
