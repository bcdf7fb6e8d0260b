---------------------------- MODULE ContentCache ----------------------------
(***************************************************************************)
(* What the transfer cache promises its readers (the crate documentation:  *)
(* "we only guarantee bytes"): an entry appears once, complete and with    *)
(* the bytes its digest names, and never changes or disappears afterwards. *)
(* It says nothing about temp files, pulls, peers or crashes.              *)
(***************************************************************************)
CONSTANTS
  Digest,   \* the digests of the cache
  Hash(_)   \* the digest of a file's bytes

VARIABLE store   \* the files filed under each digest: none, or one

Init == store = [d \in Digest |-> {}]

(* The complete and correct bytes of d appear, in one step.                *)
Publish(d) ==
  /\ store[d] = {}
  /\ \E bytes \in store'[d] :
       /\ Hash(bytes) = d
       /\ store' = [store EXCEPT ![d] = {bytes}]

Next == \E d \in Digest : Publish(d)

Spec == Init /\ [][Next]_store
=============================================================================
