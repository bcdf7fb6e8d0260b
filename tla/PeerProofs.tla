----------------------------- MODULE PeerProofs -----------------------------
(***************************************************************************)
(* Proofs about a peer on its own and at one connection: its clock (Hlc),  *)
(* for every width of the two fields; its identity (Identity) when         *)
(* processes start one after the other, for any number of processes and    *)
(* keys, with failures and crashes anywhere; both together in the peer     *)
(* that the mesh hears (PeerUp); MutualAuth and DataNeedsBoth of its TLS   *)
(* connections (Handshake), for every set of keys; and where it routes     *)
(* requests (Router), for every finite set of peers, all models, all loads *)
(* with NaN among them, every dead-after time and every hop budget.        *)
(***************************************************************************)
EXTENDS PeerUp, Handshake, Router, SequenceTheorems, FiniteSetTheorems, TLAPS

(* now() fits its fields, whatever the system time.                        *)
LEMMA NowIsClock == \A t \in Int : Now(t) \in HybridLogicalClock
  BY HlcAssumption DEF Now, HybridLogicalClock

(* The derived order of clocks is transitive.                              *)
LEMMA LessTransitive ==
  ASSUME NEW a \in HybridLogicalClock, NEW b \in HybridLogicalClock,
         NEW c \in HybridLogicalClock, Less(a, b), Less(b, c)
  PROVE  Less(a, c)
  BY HlcAssumption DEF HybridLogicalClock, Less

(* bump_past ends past both clocks, unless the counter of the larger one   *)
(* is at its limit: then it ends level with it.                            *)
LEMMA BumpPastBoth ==
  ASSUME NEW self \in HybridLogicalClock, NEW other \in HybridLogicalClock
  PROVE  LET new == BumpPast(self, other) IN
         /\ new \in HybridLogicalClock
         /\ Less(self, new) \/ (self = new /\ new.counter = MaxCounter)
         /\ Less(other, new) \/ (other = new /\ new.counter = MaxCounter)
<1> DEFINE ahead == IF Less(self, other) THEN other ELSE self
           new == BumpPast(self, other)
<1>1. ahead \in HybridLogicalClock
  BY Zenon
<1>2. /\ new.wall_ms = ahead.wall_ms
      /\ new.counter = SaturatingIncrement(ahead.counter)
      /\ new = [wall_ms |-> new.wall_ms, counter |-> new.counter]
  BY DEF BumpPast, HybridLogicalClock
<1>3. new \in HybridLogicalClock
  BY <1>1, <1>2, HlcAssumption DEF SaturatingIncrement, HybridLogicalClock
<1>4. Less(ahead, new) \/ (ahead = new /\ new.counter = MaxCounter)
  BY <1>1, <1>2, HlcAssumption
  DEF SaturatingIncrement, HybridLogicalClock, Less
<1>5. self = ahead \/ Less(self, ahead)
  BY Zenon
<1>6. other = ahead \/ Less(other, ahead)
  BY HlcAssumption DEF Less, HybridLogicalClock
<1>7. ASSUME NEW c \in HybridLogicalClock, c = ahead \/ Less(c, ahead)
      PROVE  Less(c, new) \/ (c = new /\ new.counter = MaxCounter)
  BY <1>1, <1>3, <1>4, <1>7, LessTransitive
<1> QED
  BY <1>3, <1>5, <1>6, <1>7, Zenon

(* A new clock has observed nothing.                                       *)
LEMMA HlcInit == ClockInit => ClockTypeOK /\ PastAllSeen
  BY NowIsClock, HlcAssumption DEF ClockInit, ClockTypeOK, PastAllSeen, Time

(* Every step keeps the clock in its fields and past what it has seen.     *)
LEMMA HlcStep ==
  ClockTypeOK /\ PastAllSeen /\ [ClockNext]_clockVars
    => (ClockTypeOK /\ PastAllSeen)'
<1> SUFFICES ASSUME ClockTypeOK, PastAllSeen, [ClockNext]_clockVars
             PROVE  ClockTypeOK' /\ PastAllSeen'
  BY Zenon
<1>1. CASE UNCHANGED clockVars
  BY <1>1, Zenon DEF clockVars, ClockTypeOK, PastAllSeen
<1>2. ASSUME NEW t \in Time, SetTime(t) PROVE ClockTypeOK' /\ PastAllSeen'
  BY <1>2, Zenon DEF SetTime, ClockTypeOK, PastAllSeen
<1>3. ASSUME NEW x \in HybridLogicalClock, Observe(x)
      PROVE  ClockTypeOK' /\ PastAllSeen'
  <2>1. /\ clock' \in HybridLogicalClock
        /\ Less(clock, clock') \/ (clock = clock' /\ clock'.counter = MaxCounter)
        /\ Less(x, clock') \/ (x = clock' /\ clock'.counter = MaxCounter)
    BY <1>3, BumpPastBoth, Zenon DEF Observe, ClockTypeOK
  <2>2. ASSUME NEW y \in seen
        PROVE  Less(y, clock') \/ (y = clock' /\ clock'.counter = MaxCounter)
    BY <2>1, LessTransitive, Zenon DEF ClockTypeOK, PastAllSeen
  <2> QED
    BY <1>3, <2>1, <2>2, Zenon DEF Observe, ClockTypeOK, PastAllSeen
<1>4. CASE SendHeartbeat
  BY <1>4, NowIsClock, HlcAssumption
  DEF SendHeartbeat, ClockTypeOK, PastAllSeen, Time
<1> QED
  BY <1>1, <1>2, <1>3, <1>4, Zenon DEF ClockNext

(* The invariant of the clock, with its types.                             *)
LEMMA HlcInvariant == ClockSpec => [](ClockTypeOK /\ PastAllSeen)
  BY HlcInit, HlcStep, PTL DEF ClockSpec

(* now(), bump_past and what a heartbeat carries stay inside u64 and u32:  *)
(* neither a system time before the epoch or past the last millisecond     *)
(* that fits, nor any number of events whose counter is at its limit,      *)
(* makes a field over- or underflow.                                       *)
THEOREM ClockFitsItsFields == ClockSpec => []ClockTypeOK
  BY HlcInvariant, PTL

(* The clock is past every clock bump_past was ever given, or level with   *)
(* the largest when its counter cannot grow: whatever was observed, in     *)
(* whatever order, and whatever NTP does to the system time meanwhile.     *)
THEOREM ClockIsPastAllSeen == ClockSpec => []PastAllSeen
  BY HlcInvariant, PTL

(* bump_past never moves a clock back.                                     *)
THEOREM ClockNeverGoesBack == ClockSpec => NeverBack
<1>1. ClockTypeOK /\ [ClockNext]_clockVars
        => [clock' = clock \/ Less(clock, clock')]_clockVars
  <2> SUFFICES ASSUME ClockTypeOK, ClockNext
               PROVE  clock' = clock \/ Less(clock, clock')
    BY Zenon
  <2>1. ASSUME NEW x \in HybridLogicalClock, Observe(x)
        PROVE  clock' = clock \/ Less(clock, clock')
    BY <2>1, BumpPastBoth, Zenon DEF Observe, ClockTypeOK
  <2> QED
    BY <2>1, Zenon DEF ClockNext, SetTime, SendHeartbeat
<1> QED
  BY <1>1, HlcInvariant, PTL DEF ClockSpec, NeverBack

-----------------------------------------------------------------------------
(* At first no process has an identity.                                    *)
LEMMA IdentityInit == FileInit => IdentityInv
  BY IdentityAssumption, Zenon
  DEF FileInit, IdentityInv, TypeOK, OneStarting, StartInv, Active

(* While one process starts, the others are idle: all that is said of them *)
(* is that the identity they use is the one in the file.                   *)
LEMMA IdentityStep ==
  IdentityInv /\ [FileNext /\ OneStarting']_fileVars => IdentityInv'
<1> SUFFICES ASSUME IdentityInv, [FileNext /\ OneStarting']_fileVars
             PROVE  IdentityInv'
  BY Zenon
<1> USE IdentityAssumption
<1>1. CASE UNCHANGED fileVars
  BY <1>1, Zenon DEF fileVars, IdentityInv, TypeOK, OneStarting, StartInv, Active
<1>2. ASSUME NEW p \in Process, Step(p), OneStarting'
      PROVE  IdentityInv'
  <2>1. TypeOK'
    BY <1>2 DEF Step, Start, Load, Generate, Create, WriteKey, Chmod, Fail,
      Return, Goto, IdentityInv, TypeOK, StartInv
  <2>2. \A q \in Process : q # p => ~Active(q) \/ ~Active(p)
    BY <1>2, Zenon DEF IdentityInv, OneStarting
  <2>3. \A q \in Process : q # p =>
          pc'[q] = pc[q] /\ key'[q] = key[q] /\ id'[q] = id[q]
    BY <1>2, Zenon DEF Step, Start, Load, Generate, Create, WriteKey, Chmod, Fail,
      Return, Goto, IdentityInv, TypeOK
  <2>4. CASE Start(p)
    <3>1. file' = file /\ pc'[p] \in {"generate", "load"} /\ id'[p] = None
      BY <2>4, Zenon DEF Start, Goto, IdentityInv, TypeOK
    <3>2. pc'[p] = "generate" => file = Missing
      BY <2>4, Zenon DEF Start, Goto, IdentityInv, TypeOK
    <3> QED
      BY <1>2, <2>1, <2>3, <3>1, <3>2, Zenon DEF IdentityInv, StartInv
  <2>5. CASE Load(p)
    <3>1. file' = file /\ pc'[p] = "idle" /\ (id'[p] # None => id'[p] = file)
      BY <2>5, Zenon DEF Load, Return, Goto, IdentityInv, TypeOK
    <3> QED
      BY <1>2, <2>1, <2>3, <3>1, Zenon DEF IdentityInv, StartInv
  <2>6. CASE Generate(p)
    <3>1. /\ file' = file /\ pc'[p] = "create" /\ id'[p] = id[p]
          /\ key'[p] \in SigningKey /\ pc[p] = "generate"
      BY <2>6, Zenon DEF Generate, Goto, IdentityInv, TypeOK
    <3> QED
      BY <1>2, <2>1, <2>3, <3>1, Zenon DEF IdentityInv, StartInv
  <2>7. CASE Create(p)
    <3>1. /\ file' = Empty /\ pc'[p] = "write" /\ key'[p] = key[p]
          /\ id'[p] = id[p] /\ pc[p] = "create"
      BY <2>7, Zenon DEF Create, Goto, IdentityInv, TypeOK
    <3>2. \A q \in Process : id[q] = None
      BY <3>1, Zenon DEF IdentityInv, StartInv, TypeOK
    <3> QED
      BY <1>2, <2>1, <2>2, <2>3, <3>1, <3>2, Zenon DEF IdentityInv, StartInv, Active
  <2>8. CASE WriteKey(p)
    <3>1. /\ file' = key[p] /\ pc'[p] = "chmod" /\ key'[p] = key[p]
          /\ id'[p] = id[p] /\ pc[p] = "write"
      BY <2>8, Zenon DEF WriteKey, Goto, IdentityInv, TypeOK
    <3>2. \A q \in Process : id[q] = None
      BY <3>1 DEF IdentityInv, StartInv, TypeOK
    <3> QED
      BY <1>2, <2>1, <2>2, <2>3, <3>1, <3>2, Zenon DEF IdentityInv, StartInv, Active
  <2>9. CASE Chmod(p)
    <3>1. file' = file /\ pc'[p] = "idle" /\ id'[p] = key[p] /\ pc[p] = "chmod"
      BY <2>9, Zenon DEF Chmod, Return, Goto, IdentityInv, TypeOK
    <3> QED
      BY <1>2, <2>1, <2>3, <3>1, Zenon DEF IdentityInv, StartInv
  <2>10. CASE Fail(p)
    <3>1. file' = file /\ pc'[p] = "idle" /\ id'[p] = None
      BY <2>10, Zenon DEF Fail, Return, Goto, IdentityInv, TypeOK
    <3> QED
      BY <1>2, <2>1, <2>3, <3>1, Zenon DEF IdentityInv, StartInv
  <2> QED
    BY <1>2, <2>4, <2>5, <2>6, <2>7, <2>8, <2>9, <2>10, Zenon DEF Step
<1> QED
  BY <1>1, <1>2, Zenon DEF FileNext

(* While starts do not overlap, what load_or_generate has returned or is   *)
(* about to return agrees with the key file, wherever starts fail or die.  *)
THEOREM IdentityInvariant == SerialSpec => []IdentityInv
  BY IdentityInit, IdentityStep, PTL DEF SerialSpec

(* Processes started one after the other on a config_dir all come up with  *)
(* the same identity, wherever earlier ones failed or crashed inside       *)
(* load_or_generate.                                                       *)
THEOREM IdentityIsStable == SerialSpec => []OneIdentity
<1>1. IdentityInv => OneIdentity
  BY Zenon DEF IdentityInv, StartInv, OneIdentity
<1> QED
  BY <1>1, IdentityInvariant, PTL

(* And the key file, once it holds a key, is never written again.          *)
THEOREM KeyIsNeverLost == SerialSpec => KeyIsKept
<1>1. IdentityInv /\ [FileNext /\ OneStarting']_fileVars
        => [(file \in SigningKey) => (file' = file)]_fileVars
  <2> SUFFICES ASSUME IdentityInv, NEW p \in Process, Step(p), file \in SigningKey
               PROVE  file' = file
    BY Zenon DEF FileNext
  <2>1. pc[p] \notin {"create", "write"}
    BY IdentityAssumption, Zenon DEF IdentityInv, StartInv
  <2> QED
    BY <2>1, Zenon DEF Step, Start, Load, Generate, Create, WriteKey, Chmod, Fail
<1> QED
  BY <1>1, IdentityInvariant, PTL DEF SerialSpec, KeyIsKept

-----------------------------------------------------------------------------
(* The steps of the peer the mesh hears are those of its key file and of   *)
(* its clock.                                                              *)
LEMMA PeerUpStep ==
  [PeerUpNext]_peerUpVars =>
    [FileNext /\ OneStarting']_fileVars /\ [ClockNext]_clockVars
<1>1. ASSUME NEW p \in Process, StartUp(p)
      PROVE  FileNext /\ OneStarting' /\ UNCHANGED clockVars
  BY <1>1, Zenon DEF StartUp, FileNext
<1>2. ASSUME NEW p \in Process, Beat(p)
      PROVE  UNCHANGED fileVars /\ ClockNext
  BY <1>2, Zenon DEF Beat, ClockNext
<1>3. ASSUME ClockStep PROVE UNCHANGED fileVars /\ ClockNext
  BY <1>3, Zenon DEF ClockStep, ClockNext
<1>4. ASSUME UNCHANGED peerUpVars PROVE UNCHANGED fileVars /\ UNCHANGED clockVars
  BY <1>4, Zenon DEF peerUpVars
<1> QED
  BY <1>1, <1>2, <1>3, <1>4, Zenon DEF PeerUpNext

(* Runs of peer_up that heartbeat are runs of load_or_generate and of the  *)
(* clock: what is proved of the two holds while peers heartbeat.           *)
THEOREM PeerUpImplements == PeerUpSpec => SerialSpec /\ ClockSpec
<1>1. PeerUpInit => FileInit /\ ClockInit
  BY Zenon DEF PeerUpInit
<1> QED
  BY <1>1, PeerUpStep, PTL DEF PeerUpSpec, SerialSpec, ClockSpec

(* Whoever a heartbeat has named is, from then on, who identity.pem says:  *)
(* peer_up heartbeats under what load_or_generate returned, and no later   *)
(* start changes the file.                                                 *)
THEOREM SenderInvariant == PeerUpSpec => []SenderInv
<1>1. PeerUpInit => SenderInv
  BY IdentityInit, Zenon DEF PeerUpInit, SenderInv
<1>2. SenderInv /\ [PeerUpNext]_peerUpVars => SenderInv'
  <2> SUFFICES ASSUME SenderInv, [PeerUpNext]_peerUpVars PROVE SenderInv'
    BY Zenon
  <2>1. IdentityInv'
    BY PeerUpStep, IdentityStep, Zenon DEF SenderInv
  <2>2. ASSUME NEW p \in Process, StartUp(p) PROVE SenderInv'
    <3>1. heard' = heard /\ Step(p)
      BY <2>2, Zenon DEF StartUp
    <3>2. ASSUME NEW k \in heard PROVE file' = file
      <4>1. file \in SigningKey
        BY <3>2, Zenon DEF SenderInv
      <4>2. pc[p] \notin {"create", "write"}
        BY <4>1, IdentityAssumption, Zenon DEF SenderInv, IdentityInv, StartInv
      <4> QED
        BY <3>1, <4>2, Zenon
        DEF Step, Start, Load, Generate, Create, WriteKey, Chmod, Fail
    <3> QED
      BY <2>1, <3>1, <3>2, Zenon DEF SenderInv
  <2>3. ASSUME NEW p \in Process, Beat(p) PROVE SenderInv'
    <3>1. heard' = heard \cup {id[p]} /\ file' = file /\ id[p] # None
      BY <2>3, Zenon DEF Beat, fileVars
    <3>2. id[p] \in SigningKey /\ file = id[p]
      BY <3>1, Zenon DEF SenderInv, IdentityInv, StartInv, TypeOK
    <3> QED
      BY <2>1, <3>1, <3>2, Zenon DEF SenderInv
  <2>4. CASE ClockStep \/ UNCHANGED peerUpVars
    BY <2>1, <2>4, Zenon DEF ClockStep, peerUpVars, fileVars, SenderInv
  <2> QED
    BY <2>2, <2>3, <2>4, Zenon DEF PeerUpNext
<1> QED
  BY <1>1, <1>2, PTL DEF PeerUpSpec

(* All heartbeats that processes of a config_dir ever publish name one     *)
(* peer.                                                                   *)
THEOREM MeshHearsOnePeer == PeerUpSpec => []OneSender
<1>1. SenderInv => OneSender
  BY Zenon DEF SenderInv, OneSender
<1> QED
  BY <1>1, SenderInvariant, PTL

-----------------------------------------------------------------------------
(* Records one end may put on the wire.                                    *)
Sent(e) == {Hello(e), Flight(e), Alert, Data}

(* The types that the proofs need, and what each record on the wire says   *)
(* of the end that sent it.                                                *)
WireInv ==
  /\ client \in End /\ server \in End
  /\ expected \in PeerId /\ allowed \in SUBSET PeerId
  /\ toServer \in Seq(Sent(client)) /\ toClient \in Seq(Sent(server))

(* What a built verifier trusts is what the operator named.                *)
TrustInv ==
  /\ cpc \in {"hello", "connected", "ready"} => cTrusted = {Spki(expected)}
  /\ spc \in {"listen", "hello", "verify", "connected"} =>
       sTrusted = {Spki(peer) : peer \in allowed}

ClientSafe == client.ours => RightServer
ServerSafe == server.ours => RightClient

(* Data on the wire was written by an end that had verified the other, and *)
(* data that was read has passed two such ends.                            *)
AuthInv ==
  /\ cpc = "connected" => ClientSafe
  /\ spc = "connected" => ServerSafe
  /\ \A i \in DOMAIN toServer : toServer[i] = Data => ClientSafe
  /\ \A i \in DOMAIN toClient : toClient[i] = Data => ServerSafe
  /\ gotS \/ gotC => ClientSafe /\ ServerSafe

HandshakeInv == WireInv /\ TrustInv /\ AuthInv

-----------------------------------------------------------------------------
(* A queue keeps its elements when its head is taken.                      *)
LEMMA TailKeeps ==
  ASSUME NEW S, NEW q \in Seq(S), q # <<>>
  PROVE  /\ Head(q) \in S /\ Head(q) = q[1] /\ 1 \in DOMAIN q
         /\ Tail(q) \in Seq(S)
         /\ \A i \in DOMAIN Tail(q) : i + 1 \in DOMAIN q /\ Tail(q)[i] = q[i + 1]
  OBVIOUS

(* A queue keeps its elements when one is appended.                        *)
LEMMA AppendKeeps ==
  ASSUME NEW S, NEW q \in Seq(S), NEW m \in S
  PROVE  /\ Append(q, m) \in Seq(S)
         /\ \A i \in DOMAIN Append(q, m) :
              (i \in DOMAIN q /\ Append(q, m)[i] = q[i]) \/ Append(q, m)[i] = m
  OBVIOUS

(* Records of different kinds differ.                                      *)
LEMMA KindsDiffer ==
  ASSUME NEW e
  PROVE  Data # Flight(e) /\ Data # Alert /\ Data # Hello(e) /\ Alert # Flight(e)
  BY Zenon DEF Data, Flight, Alert, Hello

(* The record of kind "flight" is the sender's.                            *)
LEMMA FlightIsSenders ==
  ASSUME NEW e, NEW m \in Sent(e), m.kind = "flight"
  PROVE  m = Flight(e)
  BY DEF Sent, Data, Flight, Alert, Hello

(* A flight that verify_server_cert and the signature accept comes from    *)
(* the holder of expected_server's key.                                    *)
LEMMA ServerCertMeansHolder ==
  ASSUME HandshakeInv, cTrusted = {Spki(expected)},
         VerifyServerCert(Flight(server).cert, cTrusted), Signature(Flight(server))
  PROVE  RightServer
  BY Zenon
  DEF HandshakeInv, VerifyServerCert, Signature, Flight, Spki, RightServer

(* A flight that verify_client_cert and the signature accept comes from    *)
(* the holder of an allowed key.                                           *)
LEMMA ClientCertMeansHolder ==
  ASSUME HandshakeInv, sTrusted = {Spki(peer) : peer \in allowed},
         VerifyClientCert(Flight(client).cert, sTrusted), Signature(Flight(client))
  PROVE  RightClient
<1>1. client.holds = client.shows /\ client.holds # NoKey
  BY Zenon DEF Signature, Flight, Spki
<1>2. ASSUME sTrusted = {} PROVE allowed = {}
  BY <1>2, Zenon
<1>3. ASSUME Spki(client.shows) \in sTrusted PROVE client.shows \in allowed
  BY <1>3, Zenon DEF Spki
<1> QED BY <1>1, <1>2, <1>3, Zenon DEF VerifyClientCert, Flight, RightClient

-----------------------------------------------------------------------------
(* Nobody changes who the ends are, so being safe is not lost.             *)
LEMMA EndsKept ==
  ASSUME UNCHANGED ends
  PROVE  /\ client' = client /\ server' = server
         /\ expected' = expected /\ allowed' = allowed
         /\ ClientSafe' = ClientSafe /\ ServerSafe' = ServerSafe
         /\ Sent(client)' = Sent(client) /\ Sent(server)' = Sent(server)
  BY Zenon
  DEF ends, ClientSafe, ServerSafe, RightServer, RightClient, Sent, Hello,
         Flight, Alert, Data

(* The invariant holds when the two ends have not been configured.         *)
LEMMA HandshakeInit == Init => HandshakeInv
<1> SUFFICES ASSUME Init PROVE HandshakeInv
  BY Zenon
<1>1. WireInv
  BY DEF Init, WireInv
<1>2. TrustInv
  BY Zenon DEF Init, TrustInv
<1>3. AuthInv
  BY DEF Init, AuthInv
<1> QED BY <1>1, <1>2, <1>3, Zenon DEF HandshakeInv

(* ServerTlsConfig::build trusts what `allowed` names.                      *)
LEMMA BuildServerKeeps ==
  ASSUME HandshakeInv, BuildServer
  PROVE  HandshakeInv'
<1>1. UNCHANGED ends
  BY Zenon DEF BuildServer
<1>2. WireInv'
  BY <1>1, EndsKept, Zenon DEF HandshakeInv, WireInv, BuildServer, wire
<1>3. TrustInv'
  BY <1>1, EndsKept, Zenon DEF HandshakeInv, TrustInv, BuildServer, Spki
<1>4. AuthInv'
  BY <1>1, EndsKept, Zenon DEF HandshakeInv, AuthInv, BuildServer, wire
<1> QED BY <1>2, <1>3, <1>4, Zenon DEF HandshakeInv

(* ClientTlsConfig::build trusts expected_server.                          *)
LEMMA BuildClientKeeps ==
  ASSUME HandshakeInv, BuildClient
  PROVE  HandshakeInv'
<1>1. UNCHANGED ends
  BY Zenon DEF BuildClient
<1>2. WireInv'
  BY <1>1, EndsKept, Zenon DEF HandshakeInv, WireInv, BuildClient, wire
<1>3. TrustInv'
  BY <1>1, EndsKept, Zenon DEF HandshakeInv, TrustInv, BuildClient, Spki
<1>4. AuthInv'
  BY <1>1, EndsKept, Zenon DEF HandshakeInv, AuthInv, BuildClient, wire
<1> QED BY <1>2, <1>3, <1>4, Zenon DEF HandshakeInv

(* A broken connection has nothing on it.                                  *)
LEMMA BreakKeeps ==
  ASSUME HandshakeInv, Break
  PROVE  HandshakeInv'
<1>1. UNCHANGED ends
  BY Zenon DEF Break
<1>2. WireInv'
  BY <1>1, EndsKept DEF HandshakeInv, WireInv, Break
<1>3. TrustInv'
  BY <1>1, EndsKept, Zenon DEF HandshakeInv, TrustInv, Break
<1>4. AuthInv'
  BY <1>1, EndsKept DEF HandshakeInv, AuthInv, Break
<1> QED BY <1>2, <1>3, <1>4, Zenon DEF HandshakeInv

(* A client that loses its connection is not connected.                    *)
LEMMA ClientLosesKeeps ==
  ASSUME HandshakeInv, ClientLoses
  PROVE  HandshakeInv'
<1>1. UNCHANGED ends
  BY Zenon DEF ClientLoses
<1>2. WireInv'
  BY <1>1, EndsKept, Zenon DEF HandshakeInv, WireInv, ClientLoses, wire
<1>3. TrustInv'
  BY <1>1, EndsKept, Zenon DEF HandshakeInv, TrustInv, ClientLoses
<1>4. AuthInv'
  BY <1>1, EndsKept, Zenon DEF HandshakeInv, AuthInv, ClientLoses, wire
<1> QED BY <1>2, <1>3, <1>4, Zenon DEF HandshakeInv

(* A server that loses its connection is not connected.                    *)
LEMMA ServerLosesKeeps ==
  ASSUME HandshakeInv, ServerLoses
  PROVE  HandshakeInv'
<1>1. UNCHANGED ends
  BY Zenon DEF ServerLoses
<1>2. WireInv'
  BY <1>1, EndsKept, Zenon DEF HandshakeInv, WireInv, ServerLoses, wire
<1>3. TrustInv'
  BY <1>1, EndsKept, Zenon DEF HandshakeInv, TrustInv, ServerLoses
<1>4. AuthInv'
  BY <1>1, EndsKept, Zenon DEF HandshakeInv, AuthInv, ServerLoses, wire
<1> QED BY <1>2, <1>3, <1>4, Zenon DEF HandshakeInv

(* A hello is no data.                                                     *)
LEMMA ClientHelloKeeps ==
  ASSUME HandshakeInv, ClientHello
  PROVE  HandshakeInv'
<1>1. UNCHANGED ends
  BY Zenon DEF ClientHello
<1>2. toServer \in Seq(Sent(client)) /\ Hello(client) \in Sent(client)
  BY Zenon DEF HandshakeInv, WireInv, Sent
<1>3. toServer' = Append(toServer, Hello(client))
  BY Zenon DEF ClientHello
<1>4. WireInv'
  BY <1>1, <1>2, <1>3, EndsKept, AppendKeeps
  DEF HandshakeInv, WireInv, ClientHello
<1>5. TrustInv'
  BY <1>1, EndsKept, Zenon DEF HandshakeInv, TrustInv, ClientHello
<1>6. AuthInv'
  BY <1>1, <1>2, <1>3, EndsKept, AppendKeeps, KindsDiffer
  DEF HandshakeInv, AuthInv, ClientHello
<1> QED BY <1>4, <1>5, <1>6, Zenon DEF HandshakeInv

(* A client that writes has verified the server.                           *)
LEMMA ClientWritesKeeps ==
  ASSUME HandshakeInv, ClientWrites
  PROVE  HandshakeInv'
<1>1. UNCHANGED ends
  BY Zenon DEF ClientWrites
<1>2. toServer \in Seq(Sent(client)) /\ Data \in Sent(client)
  BY Zenon DEF HandshakeInv, WireInv, Sent
<1>3. toServer' = Append(toServer, Data)
  BY Zenon DEF ClientWrites
<1>4. WireInv'
  BY <1>1, <1>2, <1>3, EndsKept, AppendKeeps
  DEF HandshakeInv, WireInv, ClientWrites
<1>5. TrustInv'
  BY <1>1, EndsKept, Zenon DEF HandshakeInv, TrustInv, ClientWrites
<1>6. AuthInv'
  BY <1>1, <1>2, <1>3, EndsKept, AppendKeeps, KindsDiffer, Zenon
  DEF HandshakeInv, AuthInv, ClientWrites
<1> QED BY <1>4, <1>5, <1>6, Zenon DEF HandshakeInv

(* A server that writes has verified the client.                           *)
LEMMA ServerWritesKeeps ==
  ASSUME HandshakeInv, ServerWrites
  PROVE  HandshakeInv'
<1>1. UNCHANGED ends
  BY Zenon DEF ServerWrites
<1>2. toClient \in Seq(Sent(server)) /\ Data \in Sent(server)
  BY Zenon DEF HandshakeInv, WireInv, Sent
<1>3. toClient' = Append(toClient, Data)
  BY Zenon DEF ServerWrites
<1>4. WireInv'
  BY <1>1, <1>2, <1>3, EndsKept, AppendKeeps
  DEF HandshakeInv, WireInv, ServerWrites
<1>5. TrustInv'
  BY <1>1, EndsKept, Zenon DEF HandshakeInv, TrustInv, ServerWrites
<1>6. AuthInv'
  BY <1>1, <1>2, <1>3, EndsKept, AppendKeeps, KindsDiffer, Zenon
  DEF HandshakeInv, AuthInv, ServerWrites
<1> QED BY <1>4, <1>5, <1>6, Zenon DEF HandshakeInv

(* An alert ends the client's connection.                                  *)
LEMMA ClientReadsAlertKeeps ==
  ASSUME HandshakeInv, ClientReadsAlert
  PROVE  HandshakeInv'
<1>1. UNCHANGED ends
  BY Zenon DEF ClientReadsAlert
<1>2. toClient \in Seq(Sent(server)) /\ toClient # <<>> /\ toClient' = Tail(toClient)
  BY Zenon DEF HandshakeInv, WireInv, ClientReadsAlert
<1>3. WireInv'
  BY <1>1, <1>2, EndsKept, TailKeeps, Zenon
  DEF HandshakeInv, WireInv, ClientReadsAlert
<1>4. TrustInv'
  BY <1>1, EndsKept, Zenon DEF HandshakeInv, TrustInv, ClientReadsAlert
<1>5. AuthInv'
  BY <1>1, <1>2, EndsKept, TailKeeps
  DEF HandshakeInv, AuthInv, ClientReadsAlert
<1> QED BY <1>3, <1>4, <1>5, Zenon DEF HandshakeInv

(* An alert ends the server's connection.                                  *)
LEMMA ServerReadsAlertKeeps ==
  ASSUME HandshakeInv, ServerReadsAlert
  PROVE  HandshakeInv'
<1>1. UNCHANGED ends
  BY Zenon DEF ServerReadsAlert
<1>2. toServer \in Seq(Sent(client)) /\ toServer # <<>> /\ toServer' = Tail(toServer)
  BY Zenon DEF HandshakeInv, WireInv, ServerReadsAlert
<1>3. WireInv'
  BY <1>1, <1>2, EndsKept, TailKeeps, Zenon
  DEF HandshakeInv, WireInv, ServerReadsAlert
<1>4. TrustInv'
  BY <1>1, EndsKept, Zenon DEF HandshakeInv, TrustInv, ServerReadsAlert
<1>5. AuthInv'
  BY <1>1, <1>2, EndsKept, TailKeeps
  DEF HandshakeInv, AuthInv, ServerReadsAlert
<1> QED BY <1>3, <1>4, <1>5, Zenon DEF HandshakeInv

(* What the client reads, both ends have vouched for.                      *)
LEMMA ClientReadsKeeps ==
  ASSUME HandshakeInv, ClientReads
  PROVE  HandshakeInv'
<1>1. UNCHANGED ends
  BY Zenon DEF ClientReads
<1>2. toClient \in Seq(Sent(server)) /\ toClient # <<>> /\ toClient' = Tail(toClient)
  BY Zenon DEF HandshakeInv, WireInv, ClientReads
<1>3. WireInv'
  BY <1>1, <1>2, EndsKept, TailKeeps, Zenon
  DEF HandshakeInv, WireInv, ClientReads
<1>4. TrustInv'
  BY <1>1, EndsKept, Zenon DEF HandshakeInv, TrustInv, ClientReads
<1>5. AuthInv'
  BY <1>1, <1>2, EndsKept, TailKeeps, Zenon
  DEF HandshakeInv, AuthInv, ClientReads
<1> QED BY <1>3, <1>4, <1>5, Zenon DEF HandshakeInv

(* What the server reads, both ends have vouched for.                      *)
LEMMA ServerReadsKeeps ==
  ASSUME HandshakeInv, ServerReads
  PROVE  HandshakeInv'
<1>1. UNCHANGED ends
  BY Zenon DEF ServerReads
<1>2. toServer \in Seq(Sent(client)) /\ toServer # <<>> /\ toServer' = Tail(toServer)
  BY Zenon DEF HandshakeInv, WireInv, ServerReads
<1>3. WireInv'
  BY <1>1, <1>2, EndsKept, TailKeeps, Zenon
  DEF HandshakeInv, WireInv, ServerReads
<1>4. TrustInv'
  BY <1>1, EndsKept, Zenon DEF HandshakeInv, TrustInv, ServerReads
<1>5. AuthInv'
  BY <1>1, <1>2, EndsKept, TailKeeps, Zenon
  DEF HandshakeInv, AuthInv, ServerReads
<1> QED BY <1>3, <1>4, <1>5, Zenon DEF HandshakeInv

(* The server's answer to a hello is its flight, or an alert.              *)
LEMMA ServerHelloKeeps ==
  ASSUME HandshakeInv, ServerHello
  PROVE  HandshakeInv'
<1>1. UNCHANGED ends
  BY Zenon DEF ServerHello
<1>2. toServer \in Seq(Sent(client)) /\ toServer # <<>> /\ toServer' = Tail(toServer)
  BY Zenon DEF HandshakeInv, WireInv, ServerHello
<1>3. PICK m \in {Flight(server), Alert} : toClient' = Append(toClient, m)
  BY Zenon DEF ServerHello
<1>4. toClient \in Seq(Sent(server)) /\ m \in Sent(server) /\ m # Data
  BY <1>3, KindsDiffer, Zenon DEF HandshakeInv, WireInv, Sent
<1>5. WireInv'
  <2>1. toServer' \in Seq(Sent(client)) /\ toClient' \in Seq(Sent(server))
    BY <1>2, <1>3, <1>4, TailKeeps, AppendKeeps, Zenon
  <2> QED
    BY <1>1, <2>1, EndsKept, Zenon DEF HandshakeInv, WireInv
<1>6. TrustInv'
  BY <1>1, EndsKept, Zenon DEF HandshakeInv, TrustInv, ServerHello
<1>7. AuthInv'
  BY <1>1, <1>2, <1>3, <1>4, EndsKept, TailKeeps, AppendKeeps
  DEF HandshakeInv, AuthInv, ServerHello
<1> QED BY <1>5, <1>6, <1>7, Zenon DEF HandshakeInv

(* A client of this code is connected only to the expected server.         *)
LEMMA ClientVerifyKeeps ==
  ASSUME HandshakeInv, ClientVerify
  PROVE  HandshakeInv'
<1>1. UNCHANGED ends
  BY Zenon DEF ClientVerify
<1>2. toClient \in Seq(Sent(server)) /\ toClient # <<>> /\ toClient' = Tail(toClient)
  BY Zenon DEF HandshakeInv, WireInv, ClientVerify
<1>3. Head(toClient) = Flight(server)
  BY <1>2, TailKeeps, FlightIsSenders, Zenon DEF ClientVerify
<1>4. PICK m \in {Flight(client), Alert} : toServer' = Append(toServer, m)
  BY Zenon DEF ClientVerify
<1>5. toServer \in Seq(Sent(client)) /\ m \in Sent(client) /\ m # Data
  BY <1>4, KindsDiffer, Zenon DEF HandshakeInv, WireInv, Sent
<1>6. cpc' = "connected" => ClientSafe
  <2>1. cTrusted = {Spki(expected)}
    BY Zenon DEF HandshakeInv, TrustInv, ClientVerify
  <2>2. ASSUME cpc' = "connected", client.ours PROVE RightServer
    BY <1>3, <2>1, <2>2, ServerCertMeansHolder, Zenon DEF ClientVerify
  <2> QED BY <2>2, Zenon DEF ClientSafe
<1>7. WireInv'
  <2>1. toServer' \in Seq(Sent(client)) /\ toClient' \in Seq(Sent(server))
    BY <1>2, <1>4, <1>5, TailKeeps, AppendKeeps, Zenon
  <2> QED
    BY <1>1, <2>1, EndsKept, Zenon DEF HandshakeInv, WireInv
<1>8. TrustInv'
  BY <1>1, EndsKept, Zenon DEF HandshakeInv, TrustInv, ClientVerify
<1>9. AuthInv'
  <2>1. \A i \in DOMAIN toServer' : toServer'[i] = Data => ClientSafe
    <3>1. \A i \in DOMAIN Append(toServer, m) :
            \/ i \in DOMAIN toServer /\ Append(toServer, m)[i] = toServer[i]
            \/ Append(toServer, m)[i] = m
      BY <1>5, AppendKeeps, Zenon
    <3>2. \A i \in DOMAIN toServer : toServer[i] = Data => ClientSafe
      BY Zenon DEF HandshakeInv, AuthInv
    <3> QED
      BY <1>4, <1>5, <3>1, <3>2, Zenon
  <2>2. \A i \in DOMAIN toClient' : toClient'[i] = Data => ServerSafe
    <3>1. \A i \in DOMAIN Tail(toClient) :
            i + 1 \in DOMAIN toClient /\ Tail(toClient)[i] = toClient[i + 1]
      BY <1>2, TailKeeps, Zenon
    <3>2. \A i \in DOMAIN toClient : toClient[i] = Data => ServerSafe
      BY Zenon DEF HandshakeInv, AuthInv
    <3> QED
      BY <1>2, <3>1, <3>2, Zenon
  <2>3. spc' = spc /\ gotS' = gotS /\ gotC' = gotC
    BY Zenon DEF ClientVerify
  <2> QED
    BY <1>1, <1>6, <2>1, <2>2, <2>3, EndsKept, Zenon DEF HandshakeInv, AuthInv
<1> QED BY <1>7, <1>8, <1>9, Zenon DEF HandshakeInv

(* A server of this code is connected only to an allowed client.           *)
LEMMA ServerVerifyKeeps ==
  ASSUME HandshakeInv, ServerVerify
  PROVE  HandshakeInv'
<1>1. UNCHANGED ends
  BY Zenon DEF ServerVerify
<1>2. toServer \in Seq(Sent(client)) /\ toServer # <<>> /\ toServer' = Tail(toServer)
  BY Zenon DEF HandshakeInv, WireInv, ServerVerify
<1>3. Head(toServer) = Flight(client)
  BY <1>2, TailKeeps, FlightIsSenders, Zenon DEF ServerVerify
<1>4. toClient' = toClient \/ toClient' = Append(toClient, Alert)
  BY Zenon DEF ServerVerify
<1>5. toClient \in Seq(Sent(server)) /\ Alert \in Sent(server) /\ Alert # Data
  BY KindsDiffer, Zenon DEF HandshakeInv, WireInv, Sent
<1>6. spc' = "connected" => ServerSafe
  <2>1. sTrusted = {Spki(peer) : peer \in allowed}
    BY Zenon DEF HandshakeInv, TrustInv, ServerVerify
  <2>2. ASSUME spc' = "connected", server.ours PROVE RightClient
    BY <1>3, <2>1, <2>2, ClientCertMeansHolder, Zenon DEF ServerVerify
  <2> QED BY <2>2, Zenon DEF ServerSafe
<1>7. /\ toClient' \in Seq(Sent(server))
      /\ \A i \in DOMAIN toClient' : toClient'[i] = Data => ServerSafe
  <2>1. \A i \in DOMAIN toClient : toClient[i] = Data => ServerSafe
    BY Zenon DEF HandshakeInv, AuthInv
  <2>2. CASE toClient' = toClient
    BY <1>5, <2>1, <2>2, Zenon
  <2>3. CASE toClient' = Append(toClient, Alert)
    BY <1>5, <2>1, <2>3, AppendKeeps
  <2> QED BY <1>4, <2>2, <2>3, Zenon
<1>8. /\ toServer' \in Seq(Sent(client))
      /\ \A i \in DOMAIN toServer' : toServer'[i] = Data => ClientSafe
  BY <1>2, TailKeeps DEF HandshakeInv, AuthInv
<1>9. cpc' = cpc /\ gotS' = gotS /\ gotC' = gotC
  BY Zenon DEF ServerVerify
<1>10. WireInv'
  BY <1>1, <1>7, <1>8, EndsKept, Zenon DEF HandshakeInv, WireInv
<1>11. TrustInv'
  BY <1>1, EndsKept, Zenon DEF HandshakeInv, TrustInv, ServerVerify
<1>12. AuthInv'
  BY <1>1, <1>6, <1>7, <1>8, <1>9, EndsKept, Zenon DEF HandshakeInv, AuthInv
<1> QED BY <1>10, <1>11, <1>12, Zenon DEF HandshakeInv

(* The invariant is inductive.                                             *)
LEMMA HandshakeStep == HandshakeInv /\ [Next]_vars => HandshakeInv'
<1> SUFFICES ASSUME HandshakeInv, [Next]_vars PROVE HandshakeInv'
  BY Zenon
<1>1. CASE Client
  BY <1>1, BuildClientKeeps, ClientHelloKeeps, ClientVerifyKeeps,
     ClientReadsAlertKeeps, ClientReadsKeeps, ClientLosesKeeps, Zenon
     DEF Client
<1>2. CASE Server
  BY <1>2, BuildServerKeeps, ServerHelloKeeps, ServerVerifyKeeps,
     ServerReadsAlertKeeps, ServerReadsKeeps, ServerLosesKeeps, Zenon
     DEF Server
<1>3. CASE ClientWrites \/ ServerWrites \/ Break
  BY <1>3, ClientWritesKeeps, ServerWritesKeeps, BreakKeeps, Zenon
<1>4. CASE UNCHANGED vars
  <2>1. UNCHANGED ends
    BY <1>4, Zenon DEF vars
  <2>2. WireInv' /\ TrustInv' /\ AuthInv'
    BY <1>4, <2>1, EndsKept, Zenon
    DEF HandshakeInv, WireInv, TrustInv, AuthInv, vars, wire
  <2> QED BY <2>2, Zenon DEF HandshakeInv
<1> QED BY <1>1, <1>2, <1>3, <1>4, Zenon DEF Next

(* The invariant of the handshake holds throughout.                        *)
LEMMA HandshakeInvariant == Spec => []HandshakeInv
  BY HandshakeInit, HandshakeStep, PTL DEF Spec

(* For every set of keys: an end built by ClientTlsConfig or               *)
(* ServerTlsConfig that reports a finished handshake has the holder of the *)
(* expected, or of an allowed, key at the other end.                       *)
THEOREM EndsAreAuthenticated == Spec => []MutualAuth
<1>1. HandshakeInv => MutualAuth
  BY Zenon DEF HandshakeInv, AuthInv, MutualAuth, ClientSafe, ServerSafe
<1> QED BY <1>1, HandshakeInvariant, PTL

(* For every set of keys: nobody reads data on a connection that one of    *)
(* the two verifiers refuses, or has yet to accept.                        *)
THEOREM DataIsAuthenticated == Spec => []DataNeedsBoth
<1>1. HandshakeInv => DataNeedsBoth
  BY Zenon DEF HandshakeInv, AuthInv, DataNeedsBoth, ClientSafe, ServerSafe
<1> QED BY <1>1, HandshakeInvariant, PTL

-----------------------------------------------------------------------------
(* An event in the log.                                                    *)
LEMMA LogEntry ==
  ASSUME RouterTypeOK, NEW i \in DOMAIN log
  PROVE  /\ i \in 1 .. Len(log)
         /\ log[i] \in Event /\ log[i].peer \in Peer /\ log[i].at \in Nat
<1>1. i \in 1 .. Len(log) /\ log[i] \in Event
  BY LenProperties, ElementOfSeq, Zenon DEF RouterTypeOK
<1> QED
  BY <1>1, Zenon DEF Event

(* The log after one more event.                                           *)
LEMMA LogGrows ==
  ASSUME RouterTypeOK, NEW e \in Event, log' = Append(log, e)
  PROVE  /\ log' \in Seq(Event)
         /\ Len(log) \in Nat
         /\ DOMAIN log = 1 .. Len(log)
         /\ DOMAIN log' = 1 .. Len(log) + 1
         /\ log'[Len(log) + 1] = e
         /\ \A i \in 1 .. Len(log) : log'[i] = log[i]
  BY LenProperties DEF RouterTypeOK

(* An empty table summarises an empty log.                                 *)
LEMMA InitInv == RouterInit => RouterInv
<1> SUFFICES ASSUME RouterInit PROVE RouterInv
  BY Zenon
<1>1. log \in Seq(Event) /\ DOMAIN log = {}
  BY EmptySeq DEF RouterInit
<1>2. table \in [Peer -> PeerState]
  BY RoutingAssumption DEF RouterInit, EmptyTable, Unheard, PeerState, Loads
<1>3. \A p \in Peer : Summarises(p)
  BY <1>1, Zenon
  DEF RouterInit, EmptyTable, Unheard, Summarises, HasAnnounced, LastLoadIs
<1> QED
  BY <1>1, <1>2, <1>3, Zenon DEF RouterInit, RouterInv, RouterTypeOK, NoDecision

(* An event about another peer changes nothing that is known of p.         *)
LEMMA OtherPeerKept ==
  ASSUME RouterInv, NEW e \in Event, log' = Append(log, e),
         NEW p \in Peer, e.peer # p \/ p = Self, table'[p] = table[p]
  PROVE  Summarises(p)'
<1>1. Summarises(p)
  BY Zenon DEF RouterInv
<1>2. /\ Len(log) \in Nat
      /\ DOMAIN log = 1 .. Len(log)
      /\ DOMAIN log' = 1 .. Len(log) + 1
      /\ log'[Len(log) + 1] = e
      /\ \A i \in 1 .. Len(log) : log'[i] = log[i]
  BY LogGrows, Zenon DEF RouterInv
<1>3. CASE p = Self
  BY <1>1, <1>3, Zenon DEF Summarises
<1>4. CASE p # Self /\ e.peer # p
  <2>1. \A i \in DOMAIN log' : log'[i].peer = p => i \in DOMAIN log /\ log'[i] = log[i]
    BY <1>2, <1>4
  <2>2. \A i \in DOMAIN log : i \in DOMAIN log' /\ log'[i] = log[i]
    BY <1>2
  <2>3. (\E i \in DOMAIN log : log[i].peer = p)
          <=> (\E i \in DOMAIN log' : log'[i].peer = p)
    BY <2>1, <2>2, Zenon
  <2>4. \A t : HeardAt(p, t) => HeardAt(p, t)'
    BY <2>2, Zenon DEF HeardAt
  <2>5. \A model : HasAnnounced(p, model) <=> HasAnnounced(p, model)'
    BY <2>1, <2>2, Zenon DEF HasAnnounced
  <2>6. \A load : LastLoadIs(p, load) => LastLoadIs(p, load)'
    BY <2>1, <2>2, ZenonT(20) DEF LastLoadIs, IsBeat
  <2> QED
    BY <1>1, <1>4, <2>1, <2>3, <2>4, <2>5, <2>6, ZenonT(20) DEF Summarises
<1> QED
  BY <1>3, <1>4, Zenon

(* Nor does a step that leaves the table and the log alone.                *)
LEMMA TableKept ==
  ASSUME RouterInv, UNCHANGED <<table, log>>
  PROVE  \A p \in Peer : Summarises(p)'
<1> SUFFICES ASSUME NEW p \in Peer PROVE Summarises(p)'
  BY Zenon
<1>1. Summarises(p)
  BY Zenon DEF RouterInv
<1> QED
  BY <1>1 DEF Summarises, HeardAt, HasAnnounced, LastLoadIs, IsBeat

(* Every call keeps the table a summary of the log.                        *)
LEMMA NextInv == RouterInv /\ [RouterNext]_routerVars => RouterInv'
<1> SUFFICES ASSUME RouterInv, [RouterNext]_routerVars PROVE RouterInv'
  BY Zenon
<1> USE RoutingAssumption, RouterAssumption
<1>1. ASSUME NEW p \in Peer, NEW model \in Model, Announce(p, model)
      PROVE  RouterInv'
  <2> DEFINE e == [kind |-> "announce", peer |-> p, at |-> now, model |-> model]
  <2>1. e \in Event /\ log' = Append(log, e)
    BY <1>1, Zenon DEF Announce, Event, RouterInv, RouterTypeOK
  <2>2. now' = now /\ decision' = NoDecision
    BY <1>1, Zenon DEF Announce
  <2>3. /\ log' \in Seq(Event) /\ Len(log) \in Nat
        /\ DOMAIN log = 1 .. Len(log)
        /\ DOMAIN log' = 1 .. Len(log) + 1
        /\ log'[Len(log) + 1] = e
        /\ \A i \in 1 .. Len(log) : log'[i] = log[i]
    BY <2>1, LogGrows, Zenon DEF RouterInv
  <2>4. table' \in [Peer -> PeerState]
    BY <1>1, Zenon DEF Announce, RecordAnnounce, RouterInv, RouterTypeOK, PeerState
  <2>5. \A i \in DOMAIN log' : log'[i].at <= now
    BY <2>3 DEF RouterInv, RouterTypeOK
  <2>6. ASSUME NEW q \in Peer, q # p \/ q = Self PROVE Summarises(q)'
    <3>1. table'[q] = table[q]
      BY <1>1, <2>6, Zenon DEF Announce, RecordAnnounce, RouterInv, RouterTypeOK
    <3> QED
      BY <2>1, <2>6, <3>1, OtherPeerKept, Zenon
  <2>7. ASSUME p # Self PROVE Summarises(p)'
    <3>1. /\ table'[p].known /\ table'[p].last_seen = now
          /\ table'[p].load = table[p].load
          /\ table'[p].models = table[p].models \cup {model}
      BY <1>1, <2>7, Zenon DEF Announce, RecordAnnounce, RouterInv, RouterTypeOK
    <3>2. Len(log) + 1 \in DOMAIN log' /\ log'[Len(log) + 1].peer = p
      BY <2>3
    <3>3. HeardAt(p, now)'
      BY <2>3, <2>2 DEF HeardAt
    <3>4. Summarises(p)
      BY Zenon DEF RouterInv
    <3>5. \A m \in Model : HasAnnounced(p, m)' <=> HasAnnounced(p, m) \/ m = model
      BY <2>3 DEF HasAnnounced
    <3>6. \A load : LastLoadIs(p, load) => LastLoadIs(p, load)'
      BY <2>3 DEF LastLoadIs, IsBeat
    <3> QED
      <4>1. \A m \in Model : (m \in table[p].models <=> HasAnnounced(p, m))'
        BY <2>7, <3>1, <3>5, <3>4, Zenon DEF Summarises, HasAnnounced
      <4>2. LastLoadIs(p, table[p].load)'
        <5>1. PICK load : load = table[p].load /\ load = table'[p].load
          BY <3>1, Zenon
        <5>2. LastLoadIs(p, load)
          BY <2>7, <3>4, <5>1, Zenon DEF Summarises
        <5>3. LastLoadIs(p, load)'
          BY <3>6, <5>2, Zenon
        <5> QED
          BY <5>1, <5>3, Zenon DEF LastLoadIs
      <4>3. HeardAt(p, table[p].last_seen)'
        BY <2>2, <3>1, <3>3, Zenon DEF HeardAt
      <4> QED
        BY <2>5, <2>7, <3>1, <3>2, <4>1, <4>2, <4>3, Zenon DEF Summarises
  <2>8. \A q \in Peer : Summarises(q)'
    BY <2>6, <2>7, Zenon
  <2> QED
    BY <2>3, <2>4, <2>5, <2>2, <2>8, Zenon
    DEF RouterInv, RouterTypeOK, NoDecision
<1>2. ASSUME NEW p \in Peer, NEW load \in Loads, Heartbeat(p, load)
      PROVE  RouterInv'
  <2> DEFINE e == [kind |-> "heartbeat", peer |-> p, at |-> now, load |-> load]
  <2>1. e \in Event /\ log' = Append(log, e)
    BY <1>2, Zenon DEF Heartbeat, Event, RouterInv, RouterTypeOK
  <2>2. now' = now /\ decision' = NoDecision
    BY <1>2, Zenon DEF Heartbeat
  <2>3. /\ log' \in Seq(Event) /\ Len(log) \in Nat
        /\ DOMAIN log = 1 .. Len(log)
        /\ DOMAIN log' = 1 .. Len(log) + 1
        /\ log'[Len(log) + 1] = e
        /\ \A i \in 1 .. Len(log) : log'[i] = log[i]
    BY <2>1, LogGrows, Zenon DEF RouterInv
  <2>4. table' \in [Peer -> PeerState]
    BY <1>2, Zenon DEF Heartbeat, RecordHeartbeat, RouterInv, RouterTypeOK, PeerState
  <2>5. \A i \in DOMAIN log' : log'[i].at <= now
    BY <2>3 DEF RouterInv, RouterTypeOK
  <2>6. ASSUME NEW q \in Peer, q # p \/ q = Self PROVE Summarises(q)'
    <3>1. table'[q] = table[q]
      BY <1>2, <2>6, Zenon DEF Heartbeat, RecordHeartbeat, RouterInv, RouterTypeOK
    <3> QED
      BY <2>1, <2>6, <3>1, OtherPeerKept, Zenon
  <2>7. ASSUME p # Self PROVE Summarises(p)'
    <3>1. /\ table'[p].known /\ table'[p].last_seen = now
          /\ table'[p].load = load
          /\ table'[p].models = table[p].models
      BY <1>2, <2>7, Zenon DEF Heartbeat, RecordHeartbeat, RouterInv, RouterTypeOK
    <3>2. Len(log) + 1 \in DOMAIN log' /\ log'[Len(log) + 1].peer = p
      BY <2>3
    <3>3. HeardAt(p, now)'
      BY <2>3, <2>2 DEF HeardAt
    <3>4. Summarises(p)
      BY Zenon DEF RouterInv
    <3>5. \A m \in Model : HasAnnounced(p, m)' <=> HasAnnounced(p, m)
      BY <2>3 DEF HasAnnounced
    <3>6. LastLoadIs(p, load)'
      BY <2>3 DEF LastLoadIs, IsBeat
    <3> QED
      <4>1. \A m \in Model : (m \in table[p].models <=> HasAnnounced(p, m))'
        BY <2>7, <3>1, <3>5, <3>4, Zenon DEF Summarises, HasAnnounced
      <4>2. LastLoadIs(p, table[p].load)'
        BY <2>7, <3>1, <3>6, <3>4, Zenon DEF Summarises, LastLoadIs, IsBeat
      <4>3. HeardAt(p, table[p].last_seen)'
        BY <2>2, <3>1, <3>3, Zenon DEF HeardAt
      <4> QED
        BY <2>5, <2>7, <3>1, <3>2, <4>1, <4>2, <4>3, Zenon DEF Summarises
  <2>8. \A q \in Peer : Summarises(q)'
    BY <2>6, <2>7, Zenon
  <2> QED
    BY <2>3, <2>4, <2>5, <2>2, <2>8, Zenon
    DEF RouterInv, RouterTypeOK, NoDecision
<1>3. ASSUME NEW model \in Model, NEW has \in BOOLEAN, NEW hops \in 0 .. MaxHops,
             Route(model, has, hops)
      PROVE  RouterInv'
  <2>1. /\ decision'.model = model /\ decision'.local_has = has
        /\ decision'.hops = hops
        /\ decision'.outcome \in Outcomes(table, model, has, hops, now)
        /\ UNCHANGED <<table, now, log>>
    BY <1>3 DEF Route
  <2>2. \A p \in Peer : Summarises(p)'
    BY <2>1, TableKept, Zenon
  <2> QED
    BY <2>1, <2>2 DEF RouterInv, RouterTypeOK
<1>4. CASE Tick
  <2>1. \A p \in Peer : Summarises(p)'
    BY <1>4, TableKept, Zenon DEF Tick
  <2>2. \A i \in DOMAIN log : log[i].at <= now + 1
    BY LogEntry DEF RouterInv, RouterTypeOK
  <2> QED
    BY <1>4, <2>1, <2>2 DEF Tick, RouterInv, RouterTypeOK, NoDecision
<1>5. CASE UNCHANGED routerVars
  <2>1. \A p \in Peer : Summarises(p)'
    BY <1>5, TableKept, Zenon DEF routerVars
  <2> QED
    BY <1>5, <2>1, Zenon DEF routerVars, RouterInv, RouterTypeOK
<1> QED
  BY <1>1, <1>2, <1>3, <1>4, <1>5, Zenon DEF RouterNext

(* The table that record_announce and record_heartbeat keep is, at every   *)
(* moment, what the whole log of events amounts to.                        *)
THEOREM RouterInvariant == RouterSpec => []RouterInv
  BY InitInv, NextInv, PTL DEF RouterSpec

-----------------------------------------------------------------------------
(* The table and the log agree on who may be forwarded to.                 *)
LEMMA CandidatesAreEligible ==
  ASSUME RouterInv, NEW model \in Model, NEW p \in Peer
  PROVE  p \in Candidates(table, model, now) <=> Eligible(p, model)
<1> USE RoutingAssumption
<1>1. Summarises(p) /\ table[p] \in PeerState /\ now \in Nat
  BY Zenon DEF RouterInv, RouterTypeOK
<1>2. CASE p = Self
  BY <1>1, <1>2, Zenon DEF Candidates, Eligible, Summarises
<1>3. CASE p # Self /\ ~table[p].known
  BY <1>1, <1>3, Zenon
  DEF Candidates, Eligible, Summarises, HeardLately, HeardAt
<1>4. CASE p # Self /\ table[p].known
  <2>1. table[p].last_seen \in 0 .. now /\ HeardAt(p, table[p].last_seen)
    <3>1. HeardAt(p, table[p].last_seen)
      BY <1>1, <1>4, Zenon DEF Summarises
    <3>2. PICK i \in DOMAIN log : log[i].at = table[p].last_seen
      BY <3>1, Zenon DEF HeardAt
    <3>3. log[i].at <= now
      BY Zenon DEF RouterInv
    <3>4. table[p].last_seen \in Nat
      BY <1>1, Zenon DEF PeerState
    <3> QED
      BY <1>1, <3>1, <3>2, <3>3, <3>4
  <2>2. ASSUME NEW t \in 0 .. now, HeardAt(p, t)
        PROVE  t <= table[p].last_seen
    BY <1>1, <1>4, <2>2, Zenon DEF Summarises, HeardAt
  <2>3. HeardLately(p) <=> now - table[p].last_seen < DeadAfter
    BY <1>1, <2>1, <2>2 DEF HeardLately
  <2> QED
    BY <1>1, <1>4, <2>3, Zenon DEF Candidates, Eligible, Summarises
<1> QED
  BY <1>2, <1>3, <1>4, Zenon

(* The last reported load is one value.                                    *)
LEMMA LastLoadIsUnique ==
  ASSUME RouterTypeOK, NEW p \in Peer, NEW a \in Loads, NEW b \in Loads,
         LastLoadIs(p, a), LastLoadIs(p, b)
  PROVE  a = b
<1>1. CASE \A i \in DOMAIN log : ~IsBeat(i, p)
  BY <1>1 DEF LastLoadIs
<1>2. CASE \E i \in DOMAIN log : IsBeat(i, p)
  <2>1. PICK i \in DOMAIN log : /\ IsBeat(i, p) /\ log[i].load = a
                               /\ \A j \in DOMAIN log : IsBeat(j, p) => j <= i
    BY <1>2, Zenon DEF LastLoadIs
  <2>2. PICK k \in DOMAIN log : /\ IsBeat(k, p) /\ log[k].load = b
                               /\ \A j \in DOMAIN log : IsBeat(j, p) => j <= k
    BY <1>2, Zenon DEF LastLoadIs
  <2>3. i \in Nat /\ k \in Nat
    BY LogEntry
  <2>4. i = k
    BY <2>1, <2>2, <2>3
  <2> QED
    BY <2>1, <2>2, <2>4, Zenon
<1> QED
  BY <1>1, <1>2, Zenon

(* The load a candidate is sorted by is the last one it reported.          *)
LEMMA CandidateLoad ==
  ASSUME RouterInv, NEW model \in Model,
         NEW p \in Candidates(table, model, now)
  PROVE  /\ p \in Peer /\ p \in Nat /\ Eligible(p, model)
         /\ table[p].load \in Loads /\ LastLoadIs(p, table[p].load)
<1>1. p \in Peer
  BY Zenon DEF Candidates
<1>2. Eligible(p, model)
  BY <1>1, CandidatesAreEligible, Zenon
<1>3. table[p].load \in Loads
  BY <1>1, Zenon DEF RouterInv, RouterTypeOK, PeerState
<1>4. LastLoadIs(p, table[p].load)
  BY <1>1, <1>2, Zenon DEF RouterInv, Summarises, Eligible
<1> QED
  BY <1>1, <1>2, <1>3, <1>4, RoutingAssumption, Zenon

(* Loads a, b and c of three peers in PeerId order that the comparison     *)
(* takes round in a circle.                                                *)
Knot(a, p, b, q, c, r) == b = NaN /\ Lighter(c, a) /\ p < q /\ q < r

(* A load is a number, or cannot be compared.                              *)
LEMMA LoadKinds ==
  /\ \A x \in Loads : x = NaN \/ (x \in Number /\ x \in Int)
  /\ \A x, y \in Number : Lighter(x, y) <=> x < y
  /\ \A x : ~Lighter(NaN, x) /\ ~Lighter(x, NaN)
  BY RoutingAssumption, Zenon DEF Loads, Lighter

(* The comparison of route is transitive but for knots.                    *)
LEMMA KnotOrOrder ==
  ASSUME NEW a \in Loads, NEW b \in Loads, NEW c \in Loads,
         NEW p \in Nat, NEW q \in Nat, NEW r \in Nat, p = r => a = c,
         Lighter(a, b) \/ (~Lighter(b, a) /\ p < q),
         Lighter(b, c) \/ (~Lighter(c, b) /\ q < r)
  PROVE  \/ Lighter(a, c) \/ (~Lighter(c, a) /\ p < r)
         \/ Knot(a, p, b, q, c, r)
         \/ Knot(b, q, c, r, a, p)
         \/ Knot(c, r, a, p, b, q)
<1>1. /\ p < q /\ q < r => p < r
      /\ q < r /\ ~(p < r) /\ p # r => r < p
      /\ p < q /\ ~(p < r) /\ p # r => r < p
  OBVIOUS
<1>2. CASE b = NaN
  BY <1>1, <1>2, LoadKinds, Zenon DEF Knot
<1>3. CASE a = NaN /\ b # NaN
  BY <1>1, <1>3, LoadKinds, Zenon DEF Knot
<1>4. CASE c = NaN /\ a # NaN /\ b # NaN
  BY <1>1, <1>4, LoadKinds, Zenon DEF Knot
<1>5. CASE a # NaN /\ b # NaN /\ c # NaN
  <2>1. /\ a \in Int /\ b \in Int /\ c \in Int
        /\ Lighter(a, b) <=> a < b
        /\ Lighter(b, a) <=> b < a
        /\ Lighter(b, c) <=> b < c
        /\ Lighter(c, b) <=> c < b
        /\ Lighter(a, c) <=> a < c
        /\ Lighter(c, a) <=> c < a
    BY <1>5, LoadKinds, Zenon
  <2> QED
    BY <2>1
<1> QED
  BY <1>2, <1>3, <1>4, <1>5, Zenon

(* Three candidates in a knot are tangled.                                 *)
LEMMA KnotIsTangled ==
  ASSUME RouterInv, NEW model \in Model,
         NEW p \in Candidates(table, model, now),
         NEW q \in Candidates(table, model, now),
         NEW r \in Candidates(table, model, now),
         Knot(table[p].load, p, table[q].load, q, table[r].load, r)
  PROVE  Tangled(model)
  BY CandidateLoad, Zenon DEF Knot, Tangled, Lighter

(* Unless the loads are tangled, the comparison orders the candidates.     *)
LEMMA PrecedesTransitive ==
  ASSUME RouterInv, NEW model \in Model, ~Tangled(model),
         NEW p \in Candidates(table, model, now),
         NEW q \in Candidates(table, model, now),
         NEW r \in Candidates(table, model, now),
         Precedes(table, p, q), Precedes(table, q, r)
  PROVE  Precedes(table, p, r)
<1> DEFINE a == table[p].load
           b == table[q].load
           c == table[r].load
<1>1. a \in Loads /\ b \in Loads /\ c \in Loads /\ p \in Nat /\ q \in Nat /\ r \in Nat
  BY CandidateLoad, Zenon
<1>2. /\ ~Knot(a, p, b, q, c, r)
      /\ ~Knot(b, q, c, r, a, p)
      /\ ~Knot(c, r, a, p, b, q)
  BY KnotIsTangled, Zenon
<1>3. /\ Lighter(a, b) \/ (~Lighter(b, a) /\ p < q)
      /\ Lighter(b, c) \/ (~Lighter(c, b) /\ q < r)
  BY Zenon DEF Precedes
<1>4. Lighter(a, c) \/ (~Lighter(c, a) /\ p < r)
  BY <1>1, <1>2, <1>3, KnotOrOrder, Zenon
<1> QED
  BY <1>4, Zenon DEF Precedes

(* Every set of numbers has a least one.                                   *)
LEMMA LeastNumber ==
  ASSUME NEW T, T \subseteq Nat, T # {}
  PROVE  \E x \in T : \A y \in T : ~(y < x)
<1> DEFINE R == {ss \in Nat \X Nat : ss[1] < ss[2]}
<1>1. IsWellFoundedOn(R, Nat)
  BY NatLessThanWellFounded, Zenon DEF OpToRel
<1>2. \E x \in T : \A y \in T : ~(<<y, x>> \in R)
  BY <1>1, WFMin, Zenon
<1> QED
  BY <1>2

(* s puts the elements of C in n places, neighbours in order.              *)
Arranges(s, C, n) ==
  /\ n \in Nat
  /\ s \in [1 .. n -> C]
  /\ \A x \in C : \E i \in 1 .. n : s[i] = x
  /\ \A i \in 1 .. n - 1 : Precedes(table, s[i], s[i + 1])

(* What sort_by leaves first is the first of such an arrangement.          *)
LEMMA FirstOfArrangement ==
  ASSUME NEW model, NEW to \in Firsts(table, Candidates(table, model, now))
  PROVE  \E s, n : Arranges(s, Candidates(table, model, now), n) /\ to = s[1]
<1> DEFINE C == Candidates(table, model, now)
<1>1. C \in SUBSET Peer /\ IsFiniteSet(Peer)
  BY RoutingAssumption, Zenon DEF Candidates
<1>2. PICK s \in Sorted(table, C) : to = s[1]
  BY Zenon DEF Firsts
<1> HIDE DEF C
<1>3. IsFiniteSet(C)
  BY <1>1, FS_Subset, Zenon
<1>4. Cardinality(C) \in Nat
  BY <1>3, FS_CardinalityType, Zenon
<1>5. Arranges(s, C, Cardinality(C))
  BY <1>2, <1>4, Zenon DEF Arranges, Sorted, Bijection, Surjection
<1> QED
  BY <1>2, <1>5, Zenon DEF C

(* It is one of the candidates.                                            *)
LEMMA FirstIsCandidate ==
  ASSUME NEW model, NEW to \in Firsts(table, Candidates(table, model, now)),
         Candidates(table, model, now) # {}
  PROVE  to \in Candidates(table, model, now)
<1> DEFINE C == Candidates(table, model, now)
<1>1. PICK s, n : Arranges(s, C, n) /\ to = s[1]
  BY FirstOfArrangement, Zenon
<1>2. n \in Nat /\ \E i \in 1 .. n : TRUE
  BY <1>1, Zenon DEF Arranges
<1>3. 1 \in 1 .. n
  BY <1>2
<1> QED
  BY <1>1, <1>3, Zenon DEF Arranges

(* Unless the loads are tangled, it precedes every other candidate: were   *)
(* there one that it does not precede, the leftmost such would have a left *)
(* neighbour that it does, and be preceded by that.                        *)
LEMMA FirstIsLeast ==
  ASSUME RouterInv, NEW model \in Model, ~Tangled(model),
         NEW to \in Firsts(table, Candidates(table, model, now)),
         NEW q \in Candidates(table, model, now)
  PROVE  q = to \/ Precedes(table, to, q)
<1> DEFINE C == Candidates(table, model, now)
<1>1. PICK s, n : Arranges(s, C, n) /\ to = s[1]
  BY FirstOfArrangement, Zenon
<1>2. /\ n \in Nat /\ s \in [1 .. n -> C]
      /\ \A x \in C : \E i \in 1 .. n : s[i] = x
      /\ \A i \in 1 .. n - 1 : Precedes(table, s[i], s[i + 1])
  BY <1>1, Zenon DEF Arranges
<1>3. to \in C
  BY FirstIsCandidate, Zenon
<1>4. \A x, y \in C :
        Precedes(table, to, x) /\ Precedes(table, x, y) => Precedes(table, to, y)
  BY <1>3, PrecedesTransitive, Zenon
<1> DEFINE Wrong == {i \in 1 .. n : s[i] # to /\ ~Precedes(table, to, s[i])}
<1> HIDE DEF C
<1>5. Wrong = {}
  <2> SUFFICES ASSUME Wrong # {} PROVE FALSE
    BY Zenon
  <2>1. Wrong \subseteq Nat
    BY <1>2
  <2>2. PICK j \in Wrong : \A i \in Wrong : ~(i < j)
    BY <2>1, LeastNumber, Zenon
  <2>3. j \in 1 .. n /\ s[j] # to /\ ~Precedes(table, to, s[j])
    BY <2>2, Zenon
  <2>4. j # 1
    BY <1>1, <2>3, Zenon
  <2>5. j - 1 \in 1 .. n - 1 /\ j - 1 \in 1 .. n /\ j - 1 + 1 = j /\ j - 1 < j
    BY <1>2, <2>3, <2>4
  <2>6. s[j - 1] = to \/ Precedes(table, to, s[j - 1])
    BY <2>2, <2>5, Zenon
  <2>7. Precedes(table, s[j - 1], s[j])
    <3>1. Precedes(table, s[j - 1], s[j - 1 + 1])
      BY <1>2, <2>5, Zenon
    <3> QED
      BY <2>5, <3>1, Zenon
  <2>8. s[j - 1] \in C /\ s[j] \in C
    BY <1>2, <2>3, <2>5, Zenon
  <2>9. Precedes(table, to, s[j])
    BY <1>4, <2>6, <2>7, <2>8, Zenon
  <2> QED
    BY <2>3, <2>9, Zenon
<1>6. PICK i \in 1 .. n : s[i] = q
  BY <1>2, Zenon DEF C
<1> QED
  BY <1>5, <1>6, Zenon

(* A forward comes from a first candidate, below the hop budget.           *)
LEMMA ForwardOutcome ==
  ASSUME NEW model, NEW has, NEW hops,
         NEW d \in Outcomes(table, model, has, hops, now), d.kind = "Forward"
  PROVE  /\ ~has /\ ~(hops >= MaxHops)
         /\ d.to \in Firsts(table, Candidates(table, model, now))
         /\ Candidates(table, model, now) # {}
  BY DEF Outcomes, Local, HopBudget, NoSuchModel, Forward

(* A forward goes to another peer that announced the model and was heard   *)
(* of lately, and among those, unless their loads are tangled, to the one  *)
(* with the least last reported load, the smallest PeerId breaking ties:   *)
(* for every order of announcements, heartbeats, requests and clock ticks, *)
(* Router::route decides as the full log would have it decide.             *)
THEOREM RouteIsBest == RouterSpec => []ForwardIsBest
<1>1. ASSUME RouterInv PROVE ForwardIsBest
  <2> SUFFICES ASSUME decision.kind = "Routed", decision.outcome.kind = "Forward"
               PROVE  ForwardIsBest
    BY Zenon DEF ForwardIsBest
  <2> DEFINE to == decision.outcome.to
             model == decision.model
             cands == Candidates(table, model, now)
  <2>1. model \in Model /\ decision.outcome \in Outcomes(table, model,
                              decision.local_has, decision.hops, now)
    BY <1>1, Zenon DEF RouterInv
  <2>2. /\ ~decision.local_has /\ ~(decision.hops >= MaxHops)
        /\ to \in Firsts(table, cands) /\ cands # {}
    BY <2>1, ForwardOutcome, Zenon
  <2>3. to \in cands
    BY <1>1, <2>1, <2>2, FirstIsCandidate, Zenon
  <2>4. /\ to \in Peer /\ to \in Nat /\ Eligible(to, model)
        /\ table[to].load \in Loads /\ LastLoadIs(to, table[to].load)
    BY <1>1, <2>1, <2>3, CandidateLoad, Zenon
  <2>5. decision.hops < MaxHops
    BY <1>1, <2>2, RoutingAssumption DEF RouterInv
  <2>6. ASSUME ~Tangled(model), NEW q \in Peer, NEW lq \in Loads, NEW lt \in Loads,
               Eligible(q, model), LastLoadIs(q, lq), LastLoadIs(to, lt)
        PROVE  Lighter(lt, lq) \/ (~Lighter(lq, lt) /\ to <= q)
    <3>1. q \in cands
      BY <1>1, <2>1, <2>6, CandidatesAreEligible, Zenon
    <3>2. /\ q \in Nat /\ table[q].load \in Loads
          /\ LastLoadIs(q, table[q].load)
      BY <1>1, <2>1, <3>1, CandidateLoad, Zenon
    <3>3. lq = table[q].load /\ lt = table[to].load
      BY <1>1, <2>4, <2>6, <3>2, LastLoadIsUnique, Zenon DEF RouterInv
    <3>4. q = to \/ Precedes(table, to, q)
      BY <1>1, <2>1, <2>2, <2>6, <3>1, FirstIsLeast, Zenon
    <3>5. CASE q = to
      <4>1. lq = lt
        BY <3>3, <3>5, Zenon
      <4>2. ~Lighter(lq, lt)
        <5>1. CASE lt = NaN
          BY <5>1, LoadKinds, Zenon
        <5>2. CASE lt \in Number /\ lt \in Int
          <6>1. Lighter(lt, lt) <=> lt < lt
            BY <5>2, LoadKinds, Zenon
          <6> QED
            BY <4>1, <5>2, <6>1
        <5> QED
          BY <5>1, <5>2, LoadKinds, Zenon
      <4>3. to <= q
        BY <3>2, <3>5
      <4> QED
        BY <4>2, <4>3, Zenon
    <3>6. CASE Precedes(table, to, q)
      <4>1. Lighter(lt, lq) \/ (~Lighter(lq, lt) /\ to < q)
        BY <3>3, <3>6, Zenon DEF Precedes
      <4>2. to < q => to <= q
        BY <2>4, <3>2
      <4> QED
        BY <4>1, <4>2, Zenon
    <3> QED
      BY <3>4, <3>5, <3>6, Zenon
  <2> QED
    BY <2>2, <2>4, <2>5, <2>6, Zenon DEF ForwardIsBest
<1> QED
  BY <1>1, RouterInvariant, PTL

(* NoSuchModel is only returned when no other peer that announced the      *)
(* model has been heard of lately, judging by the full log.                *)
THEOREM RefusalIsSound == RouterSpec => []RefusalIsRight
<1>1. ASSUME RouterInv PROVE RefusalIsRight
  <2> SUFFICES ASSUME decision.kind = "Routed", decision.outcome = NoSuchModel,
                      NEW p \in Peer
               PROVE  ~Eligible(p, decision.model)
    BY Zenon DEF RefusalIsRight
  <2>1. decision.model \in Model /\ decision.outcome \in Outcomes(table,
          decision.model, decision.local_has, decision.hops, now)
    BY <1>1, Zenon DEF RouterInv
  <2>2. Candidates(table, decision.model, now) = {}
    BY <2>1 DEF Outcomes, NoSuchModel, Local, HopBudget, Forward
  <2> QED
    BY <1>1, <2>1, <2>2, CandidatesAreEligible, Zenon
<1> QED
  BY <1>1, RouterInvariant, PTL

(* Unless the loads of candidates are tangled by a NaN, route has one      *)
(* outcome, whatever order the HashMap iterates in and however sort_by     *)
(* gets its neighbours in order.                                           *)
THEOREM RouteIsDeterministic == RouterSpec => []SameTargetUnlessTangled
<1>1. ASSUME RouterInv PROVE SameTargetUnlessTangled
  <2> SUFFICES ASSUME NEW model \in Model, ~Tangled(model),
                      NEW d \in Outcomes(table, model, FALSE, 0, now),
                      NEW e \in Outcomes(table, model, FALSE, 0, now)
               PROVE  d = e
    BY Zenon DEF SameTargetUnlessTangled, OneTarget
  <2> DEFINE cands == Candidates(table, model, now)
  <2>1. ASSUME cands # {},
               NEW p \in Firsts(table, cands), NEW q \in Firsts(table, cands)
        PROVE  p = q
    <3>1. p \in cands /\ q \in cands
      BY <1>1, <2>1, FirstIsCandidate, Zenon
    <3>2. /\ q = p \/ Precedes(table, p, q)
          /\ p = q \/ Precedes(table, q, p)
      BY <1>1, <2>1, <3>1, FirstIsLeast, Zenon
    <3>3. /\ p \in Nat /\ q \in Nat
          /\ table[p].load \in Loads /\ table[q].load \in Loads
      BY <1>1, <3>1, CandidateLoad, Zenon
    <3>4. ~(Precedes(table, p, q) /\ Precedes(table, q, p))
      <4>1. ~(p < q /\ q < p)
        BY <3>3
      <4>2. \A x, y \in Loads : ~(Lighter(x, y) /\ Lighter(y, x))
        <5>1. \A x, y \in Int : ~(x < y /\ y < x)
          OBVIOUS
        <5> QED
          BY <5>1, LoadKinds, Zenon
      <4> QED
        BY <3>3, <4>1, <4>2, Zenon DEF Precedes
    <3> QED
      BY <3>2, <3>4, Zenon
  <2>2. CASE cands = {} \/ 0 >= MaxHops
    BY <2>2, Zenon DEF Outcomes
  <2>3. CASE cands # {} /\ ~(0 >= MaxHops)
    <3>1. /\ d \in {Forward(p) : p \in Firsts(table, cands)}
          /\ e \in {Forward(p) : p \in Firsts(table, cands)}
      BY <2>3, Zenon DEF Outcomes
    <3> QED
      BY <2>1, <2>3, <3>1, Zenon
  <2> QED
    BY <2>2, <2>3, Zenon
<1> QED
  BY <1>1, RouterInvariant, PTL
=============================================================================
