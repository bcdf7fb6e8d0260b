----------------------------- MODULE MCTransfer -----------------------------
(* Instances of Transfer for TLC.                                          *)
EXTENDS Transfer

MCByte == 0 .. 2
MCThree == <<1, 2, 1>>           \* a full chunk and a rest

(* An artefact of two chunks, and the empty one.                           *)
MCHonestContent == {MCThree, <<>>}
MCHonestDigest == {Blake3(c) : c \in MCHonestContent}

(* Every payload and offset a sender can produce.                          *)
MCPayload == UNION {[1 .. n -> MCByte] : n \in 0 .. 2}
MCOffset == 0 .. 2

(* An artefact of one chunk, which may be truncated.                       *)
MCBits == 0 .. 1
MCBitPayload == {<<0>>, <<1>>}
MCBitOffset == {0}
MCBitContent == {<<1>>, <<>>}
MCBitDigest == {Blake3(<<1>>)}
=============================================================================
