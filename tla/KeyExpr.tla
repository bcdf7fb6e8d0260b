------------------------------ MODULE KeyExpr ------------------------------
(* The mesh's Zenoh keys: key_for and the SUB_ALL wildcards of the         *)
(* transport crate, and what Zenoh makes of them.                          *)
(*                                                                         *)
(* A key expression is the sequence of its chunks, the text between two    *)
(* slashes. A name that a user chooses may have slashes of its own, so it  *)
(* is a sequence of chunks as well; a chunk is <<class, text>>.            *)
EXTENDS Naturals, Sequences

Lit(text) == <<"lit", text>>          \* an ordinary chunk
Verbatim(text) == <<"verbatim", text>> \* one that begins with '@'
Broken(text) == <<"broken", text>>    \* one with a '#', a '?' or a stray '*'
Partly(text) == <<"partly", text>>    \* one with '$*' for some of its text
Hex(text) == <<"hex", text>>          \* a PeerId
Empty == <<"empty", "">>
Star == <<"wild", "*">>
DoubleStar == <<"wild", "**">>

(* What a name may consist of.                                             *)
Chunk == {"lit", "verbatim", "broken", "partly", "empty", "wild"} \X STRING

ROOT == <<Lit("furcate"), Lit("mesh")>>

(* What Zenoh takes for a key expression.                                  *)
ValidKeyExpr(k) ==
  /\ k # <<>>
  /\ \A i \in DOMAIN k : k[i] # Empty /\ k[i][1] # "broken"
  /\ \A i \in 1 .. Len(k) - 1 : k[i] = DoubleStar => k[i + 1][1] # "wild"

(* Some key is in both: '*' stands for one chunk and '**' for any number,  *)
(* but neither for a chunk that begins with '@'.  What '$*' stands for     *)
(* does not matter: only names have it, and those are only ever held       *)
(* against the '**' of a subscription.                                     *)
ChunksMeet(a, b) ==
  \/ a = b
  \/ Star \in {a, b} /\ "verbatim" \notin {a[1], b[1]}

(* Whether what is left of k and of l, from chunk i and from chunk j, have *)
(* a key in common, when `meets` says so for everything shorter.           *)
Suffixes(k, l) == (1 .. Len(k) + 1) \X (1 .. Len(l) + 1)

MeetsAt(k, l, meets, i, j) ==
  LET kEnd == i > Len(k)
      lEnd == j > Len(l)
  IN \/ kEnd /\ lEnd
     \/ ~kEnd /\ k[i] = DoubleStar /\ meets[<<i + 1, j>>]
     \/ ~lEnd /\ l[j] = DoubleStar /\ meets[<<i, j + 1>>]
     \/ /\ ~kEnd /\ ~lEnd
        /\ \/ k[i] = DoubleStar /\ l[j][1] # "verbatim" /\ meets[<<i, j + 1>>]
           \/ l[j] = DoubleStar /\ k[i][1] # "verbatim" /\ meets[<<i + 1, j>>]
           \/ ChunksMeet(k[i], l[j]) /\ meets[<<i + 1, j + 1>>]

Intersects(k, l) ==
  LET meets[p \in Suffixes(k, l)] == MeetsAt(k, l, meets, p[1], p[2])
  IN meets[<<1, 1>>]

-----------------------------------------------------------------------------
SUB_ALL_HEARTBEATS == ROOT \o <<Star, Lit("heartbeat")>>

(* Mutant: one chunk for the model's name.                                 *)
SUB_MODELS_ONE_CHUNK == ROOT \o <<Star, Lit("model"), Star>>

SUB_ALL_MODELS == ROOT \o <<Star, Lit("model"), DoubleStar>>
SUB_ALL_AGENT_STATE == ROOT \o <<Star, Lit("agent"), DoubleStar>>

(* key_for, from the variant, the PeerId's text and the name, if any. The  *)
(* two work variants have no name: their request id is not in the event.   *)
key_for(kind, peer, name) ==
  ROOT \o <<Hex(peer)>> \o
    CASE kind = "heartbeat" -> <<Lit("heartbeat")>>
      [] kind = "model-announce" -> <<Lit("model")>> \o name
      [] kind = "work-offer" -> <<Lit("work-offer")>>
      [] kind = "work-result" -> <<Lit("work-result")>>
      [] kind = "agent-state" -> <<Lit("agent")>> \o name
=============================================================================
