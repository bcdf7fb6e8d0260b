---------------------------- MODULE MCDiscovery -----------------------------
(* Instances of Discovery for TLC: a channel of one or two entries, seed   *)
(* lists that fit it, overflow it or hold a bad entry.                     *)
EXTENDS Discovery

CONSTANTS a, b

MCPeer == {Local, a, b}

MCConfig ==
  [caller : {"peer_up", "model_push", "model_pull", "library"},
   seeds : {<<>>, <<a, b>>, <<b, Bad, a>>},
   seeds_only : BOOLEAN]
=============================================================================
