---------------------------- MODULE RoutingTable ----------------------------
(***************************************************************************)
(* The decisions of furcate-mesh-routing as operators on the value that    *)
(* the Router keeps behind its RwLock: for each peer heard of, its load,   *)
(* the time it was last heard and the models it has announced.             *)
(* Each call of Router holds the lock while it works, so one application   *)
(* of an operator is one atomic step of whoever uses it.                   *)
(*                                                                         *)
(* Peers are natural numbers: PeerId is ordered by its key bytes.  A load  *)
(* is any f64: a number (those above UnknownLoad are infinite) or NaN,     *)
(* which JSON cannot write, but CBOR and a caller of record_heartbeat can. *)
(***************************************************************************)
EXTENDS Integers, FiniteSets, Functions

CONSTANTS
  Peer,          \* all peers of the mesh
  Model,         \* model names
  Number,        \* the loads that are numbers
  UnknownLoad,   \* f64::MAX
  NaN,           \* the load that is not
  DeadAfter,     \* peer_dead_after_secs, in clock ticks
  MaxHops        \* max_hops

ASSUME RoutingAssumption ==
  /\ Peer \subseteq Nat /\ IsFiniteSet(Peer)
  /\ Number \subseteq Int /\ UnknownLoad \in Number
  /\ NaN \notin Number
  /\ DeadAfter \in Nat
  /\ MaxHops \in 0 .. 255

Loads == Number \cup {NaN}

(* One PeerState; known says whether the map has an entry for the peer.    *)
PeerState == [known : BOOLEAN, load : Loads, last_seen : Nat,
              models : SUBSET Model]

Unheard == [known |-> FALSE, load |-> UnknownLoad, last_seen |-> 0,
            models |-> {}]

EmptyTable == [p \in Peer |-> Unheard]

(* Router::record_announce: the announcements of this peer itself are      *)
(* ignored; a peer not heard of before gets an unknown load; the           *)
(* announcement counts as a sign of life.                                  *)
RecordAnnounce(table, local, p, model, now) ==
  IF p = local THEN table
  ELSE [table EXCEPT ![p] =
          [known |-> TRUE, load |-> @.load, last_seen |-> now,
           models |-> @.models \cup {model}]]

(* Mutant: the entry is replaced, its models lost.                         *)
RecordHeartbeatAfresh(table, local, p, load, now) ==
  IF p = local THEN table
  ELSE [table EXCEPT ![p] =
          [known |-> TRUE, load |-> load, last_seen |-> now, models |-> {}]]

(* Router::record_heartbeat: the load is overwritten by whatever arrives,  *)
(* the models are kept.                                                    *)
RecordHeartbeat(table, local, p, load, now) ==
  IF p = local THEN table
  ELSE [table EXCEPT ![p] =
          [known |-> TRUE, load |-> load, last_seen |-> now,
           models |-> @.models]]

(* Mutant: off by one at the dead-after boundary.                          *)
CandidatesTooEarly(table, model, now) ==
  {p \in Peer : /\ table[p].known
                /\ now - table[p].last_seen < DeadAfter - 1
                /\ model \in table[p].models}

(* The peers route may forward to: heard of less than DeadAfter ago, and   *)
(* known to have announced the model.                                      *)
Candidates(table, model, now) ==
  {p \in Peer : /\ table[p].known
                /\ now - table[p].last_seen < DeadAfter
                /\ model \in table[p].models}

(* partial_cmp says Less: NaN is neither less nor more than anything.      *)
Lighter(a, b) == a \in Number /\ b \in Number /\ a < b

(* Mutant: ties are left as the HashMap has them.                          *)
PrecedesByLoad(table, p, q) == ~Lighter(table[q].load, table[p].load)

(* The comparison route sorts by: the load, and the PeerId where the loads *)
(* are equal or cannot be compared (unwrap_or(Equal)).  With a NaN among   *)
(* the loads it need not be transitive.                                    *)
Precedes(table, p, q) ==
  \/ Lighter(table[p].load, table[q].load)
  \/ ~Lighter(table[q].load, table[p].load) /\ p < q

(* The arrangements sort_by can leave the candidates in: neighbours are in *)
(* order.  Where Precedes orders the candidates there is one of them.      *)
(* Where it does not, insertion, which is how sort_by treats so few        *)
(* elements, ends in one or another depending on where it starts from, and *)
(* that is the order the HashMap iterates in.                              *)
Sorted(table, cands) ==
  {s \in Bijection(1 .. Cardinality(cands), cands) :
     \A i \in 1 .. Cardinality(cands) - 1 : Precedes(table, s[i], s[i + 1])}

(* The candidates that can come out first.                                 *)
Firsts(table, cands) == {s[1] : s \in Sorted(table, cands)}

(* What Router::route returns.                                             *)
Local == [kind |-> "Local"]
Forward(p) == [kind |-> "Forward", to |-> p]
HopBudget == [kind |-> "HopBudget"]
NoSuchModel == [kind |-> "NoSuchModel"]

(* Router::route, as the set of its possible outcomes.                     *)
Outcomes(table, model, local_has, hops, now) ==
  LET cands == Candidates(table, model, now) IN
  IF local_has THEN {Local}
  ELSE IF hops >= MaxHops THEN {HopBudget}
  ELSE IF cands = {} THEN {NoSuchModel}
  ELSE {Forward(p) : p \in Firsts(table, cands)}
=============================================================================
