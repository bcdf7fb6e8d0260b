------------------------------- MODULE PeerUp -------------------------------
(***************************************************************************)
(* The peer that the processes of one config_dir are to the mesh: each run *)
(* of `mesh peer up` calls load_or_generate (Identity) and then publishes  *)
(* heartbeats under the identity it was given, stamped with the time of    *)
(* the machine they all run on (Hlc).                                      *)
(***************************************************************************)
EXTENDS Identity, Hlc

VARIABLE heard   \* history: the peers that heartbeats have named as sender

peerUpVars == <<fileVars, clockVars, heard>>

PeerUpInit == FileInit /\ ClockInit /\ heard = {}

(* A step of load_or_generate, while no other process is inside it.        *)
StartUp(p) ==
  /\ Step(p)
  /\ OneStarting'
  /\ UNCHANGED <<clockVars, heard>>

(* Mutant: the heartbeat names a key that has not been stored yet.         *)
BeatEarly(p) ==
  /\ key[p] # None
  /\ SendHeartbeat
  /\ heard' = heard \cup {key[p]}
  /\ UNCHANGED fileVars

(* One turn of the heartbeat loop; peer_up has returned where there is no  *)
(* identity.                                                               *)
Beat(p) ==
  /\ id[p] # None
  /\ SendHeartbeat
  /\ heard' = heard \cup {id[p]}
  /\ UNCHANGED fileVars

(* The system clock is set, and the peer's own clock observes events.      *)
ClockStep ==
  /\ \/ \E t \in Time : SetTime(t)
     \/ \E x \in HybridLogicalClock : Observe(x)
  /\ UNCHANGED <<fileVars, heard>>

PeerUpNext ==
  \/ \E p \in Process : StartUp(p) \/ Beat(p)
  \/ ClockStep

PeerUpSpec == PeerUpInit /\ [][PeerUpNext]_peerUpVars

-----------------------------------------------------------------------------
(* To the mesh the processes of a config_dir are one peer, over all        *)
(* restarts: no two heartbeats name different senders, wherever starts in  *)
(* between failed or died, and although a process that comes up knows of   *)
(* its predecessors only what identity.pem says.                           *)
OneSender == \A a, b \in heard : a = b

(* What OneSender rests on, the inductive invariant: whoever was heard is  *)
(* who the file says.                                                      *)
SenderInv == IdentityInv /\ \A k \in heard : k \in SigningKey /\ file = k
=============================================================================
