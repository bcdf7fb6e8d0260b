------------------------------- MODULE MCPull -------------------------------
(* Instances of Pull for TLC: two digests of which one is a single chunk   *)
(* and one needs two, payloads that can rebuild them, spoil them or leave  *)
(* a hole, headers whose hash does or does not fit the payload.            *)
EXTENDS Pull, TLC

MCDigest == {Blake3(<<1, 2>>), Blake3(<<2>>)}
MCOneDigest == {Blake3(<<1, 2>>)}
MCByte == 0 .. 2
MCPayload == {<<1>>, <<2>>}
MCOffset == {0, 1}

(* Pullers are interchangeable, and so are inodes.                         *)
MCSymmetry == Permutations(Puller) \cup Permutations(Inode)
=============================================================================
