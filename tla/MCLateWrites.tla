---------------------------- MODULE MCLateWrites ----------------------------
(* Instance of LateWrites for TLC: one pull at a time of one digest, whose *)
(* chunks may come from a sender that holds other bytes.                   *)
EXTENDS LateWrites

MCByte == 0 .. 2
MCDigest == {Blake3(<<1>>)}
MCPayload == {<<1>>, <<2>>}
MCOffset == {0}
=============================================================================
