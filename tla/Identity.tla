------------------------------ MODULE Identity ------------------------------
(***************************************************************************)
(* The key file of furcate-mesh-identity: processes that share one         *)
(* config_dir and each call PeerIdentity::load_or_generate when they       *)
(* start, as every command of the CLI does.                                *)
(*                                                                         *)
(* std::fs::write creates or truncates the file and then writes it, so     *)
(* there is a moment at which identity.pem exists and holds no key.  Two   *)
(* writers share the file, and a PEM has one length: the later write is    *)
(* what remains.                                                           *)
(***************************************************************************)
CONSTANTS
  Process,    \* processes started on this config_dir
  SigningKey, \* Ed25519 signing keys
  Missing,    \* identity.pem does not exist
  Empty,      \* identity.pem exists, its key is not written yet
  None        \* no identity

ASSUME IdentityAssumption ==
  /\ Missing \notin SigningKey /\ Empty \notin SigningKey /\ None \notin SigningKey
  /\ Missing # Empty

VARIABLES
  pc,        \* next step of each process's load_or_generate
  key,       \* the key it has generated
  id,        \* the identity its last call returned
  file,      \* what identity.pem holds
  used       \* history: keys generated so far; the OS RNG repeats none

fileVars == <<pc, key, id, file, used>>

Active(p) == pc[p] # "idle"

FileInit ==
  /\ pc = [p \in Process |-> "idle"]
  /\ key = [p \in Process |-> None]
  /\ id = [p \in Process |-> None]
  /\ file = Missing
  /\ used = {}

Goto(p, l) == pc' = [pc EXCEPT ![p] = l]

(* The call returns identity k, or fails (None); its locals are dropped.   *)
Return(p, k) ==
  /\ Goto(p, "idle")
  /\ id' = [id EXCEPT ![p] = k]
  /\ key' = [key EXCEPT ![p] = None]

(* Mutant: the file is not looked at, every start generates.               *)
StartAfresh(p) ==
  /\ ~Active(p)
  /\ Goto(p, "generate")
  /\ id' = [id EXCEPT ![p] = None]
  /\ UNCHANGED <<key, file, used>>

(* path.exists() decides between the two halves of load_or_generate.       *)
Start(p) ==
  /\ ~Active(p)
  /\ Goto(p, IF file = Missing THEN "generate" ELSE "load")
  /\ id' = [id EXCEPT ![p] = None]
  /\ UNCHANGED <<key, file, used>>

(* load: a file without a key in it is a Pkcs8 error.                      *)
Load(p) ==
  /\ pc[p] = "load"
  /\ Return(p, IF file \in SigningKey THEN file ELSE None)
  /\ UNCHANGED <<file, used>>

Generate(p) ==
  /\ pc[p] = "generate"
  /\ \E k \in SigningKey \ used :
       /\ key' = [key EXCEPT ![p] = k]
       /\ used' = used \cup {k}
  /\ Goto(p, "create")
  /\ UNCHANGED <<id, file>>

(* std::fs::write, first half: create or truncate.                         *)
Create(p) ==
  /\ pc[p] = "create"
  /\ file' = Empty
  /\ Goto(p, "write")
  /\ UNCHANGED <<key, id, used>>

(* Its second half.                                                        *)
WriteKey(p) ==
  /\ pc[p] = "write"
  /\ file' = key[p]
  /\ Goto(p, "chmod")
  /\ UNCHANGED <<key, id, used>>

(* Mutant: a failed start removes the file.                                *)
FailAndRemove(p) ==
  /\ Active(p)
  /\ Return(p, None)
  /\ file' = Missing
  /\ UNCHANGED used

(* set_permissions, and the new identity is returned.                      *)
Chmod(p) ==
  /\ pc[p] = "chmod"
  /\ Return(p, key[p])
  /\ UNCHANGED <<file, used>>

(* An I/O error: read, create_dir_all, write, metadata, set_permissions.   *)
(* Or the process dies.  The file stays as it is.                          *)
Fail(p) ==
  /\ Active(p)
  /\ Return(p, None)
  /\ UNCHANGED <<file, used>>

Step(p) ==
  \/ Start(p) \/ Load(p) \/ Generate(p) \/ Create(p) \/ WriteKey(p)
  \/ Chmod(p) \/ Fail(p)

FileNext == \E p \in Process : Step(p)

(* One process at a time is starting up.                                   *)
OneStarting == \A p, q \in Process : Active(p) /\ Active(q) => p = q

SerialSpec == FileInit /\ [][FileNext /\ OneStarting']_fileVars

-----------------------------------------------------------------------------
TypeOK ==
  /\ pc \in [Process -> {"idle", "load", "generate", "create", "write", "chmod"}]
  /\ key \in [Process -> SigningKey \cup {None}]
  /\ id \in [Process -> SigningKey \cup {None}]
  /\ file \in SigningKey \cup {Missing, Empty}
  /\ used \subseteq SigningKey

(* All processes that came up on a config_dir have the same identity (the  *)
(* public key is "this peer's stable address"; the repository's test is    *)
(* called load_or_generate_is_idempotent).                                 *)
OneIdentity ==
  \A p, q \in Process : id[p] # None /\ id[q] # None => id[p] = id[q]

(* A stored key is never replaced or lost: the identity survives failed    *)
(* starts and crashes of later processes at any step.                      *)
KeyIsKept == [][(file \in SigningKey) => (file' = file)]_fileVars

(* The inductive invariant: an identity in use is the one in the file, a   *)
(* process that generates found no file, and one that writes is writing    *)
(* the first key.                                                          *)
StartInv(p) ==
  /\ id[p] # None => file = id[p]
  /\ pc[p] \in {"generate", "create"} => file = Missing
  /\ pc[p] = "write" => file = Empty
  /\ pc[p] = "chmod" => file = key[p]
  /\ pc[p] \in {"create", "write", "chmod"} => key[p] \in SigningKey

IdentityInv ==
  /\ TypeOK
  /\ OneStarting
  /\ \A p \in Process : StartInv(p)
=============================================================================
