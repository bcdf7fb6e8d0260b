----------------------------- MODULE Handshake -----------------------------
(* Mutual authentication with raw public keys: ServerTlsConfig and         *)
(* ClientTlsConfig of the identity crate, their two verifiers, and the     *)
(* TLS 1.3 handshake of rustls that calls them, for one TCP connection.    *)
(*                                                                         *)
(* An end either runs this code, or is some other program: that one may    *)
(* show a key whose private half it does not have, or none, may know no    *)
(* TLS 1.3, and looks at nothing the other end shows.                      *)
EXTENDS Naturals, Sequences

CONSTANTS
  Key,     \* PeerIds that are Ed25519 public keys
  BadId,   \* a PeerId that is no point of the curve
  NoKey    \* an end that shows, or has, no key

ASSUME HandshakeAssumption ==
  BadId \notin Key /\ NoKey \notin Key /\ BadId # NoKey

VARIABLES
  client, server,      \* who the two ends are
  expected, allowed,   \* ClientTlsConfig.expected_server, ServerTlsConfig.allowed
  cTrusted, sTrusted,  \* `trusted` of the two verifiers
  cpc, spc,            \* where each end is
  toServer, toClient,  \* records on the wire, in order
  up,                  \* the TCP connection has not broken
  gotS, gotC           \* application data the server, the client has read

ends == <<client, server, expected, allowed>>
wire == <<toServer, toClient, up>>
vars == <<ends, cTrusted, sTrusted, cpc, spc, wire, gotS, gotC>>

PeerId == Key \cup {BadId}

End ==
  {e \in [ours : BOOLEAN, shows : Key \cup {NoKey}, holds : Key \cup {NoKey},
          tls13 : BOOLEAN] :
     e.ours => e.shows = e.holds /\ e.holds # NoKey /\ e.tls13}

(* peer_id_to_spki: the DER form of a key, which is what ends show.        *)
Valid(peer) == peer \in Key
Spki(peer) == [alg |-> "ed25519", key |-> peer]

Hello(e) == [kind |-> "hello", tls13 |-> e.tls13]
Flight(e) == [kind |-> "flight", cert |-> Spki(e.shows), signer |-> e.holds]
Alert == [kind |-> "alert"]
Data == [kind |-> "data"]

Init ==
  /\ client \in End /\ server \in End
  /\ client.ours \/ server.ours
  /\ expected \in PeerId /\ allowed \in SUBSET PeerId
  /\ cTrusted = {} /\ sTrusted = {}
  /\ cpc = "config" /\ spc = "config"
  /\ toServer = <<>> /\ toClient = <<>> /\ up = TRUE
  /\ gotS = FALSE /\ gotC = FALSE

-----------------------------------------------------------------------------
(* Mutant: a malformed PeerId in `allowed` is passed over.                  *)
BuildServerSkipping ==
  /\ spc = "config"
  /\ sTrusted' = {Spki(peer) : peer \in {p \in allowed : Valid(p)}}
  /\ spc' = "listen"
  /\ UNCHANGED <<ends, cTrusted, cpc, wire, gotS, gotC>>

(* ServerTlsConfig::build: one malformed PeerId in `allowed` fails it.     *)
BuildServer ==
  /\ spc = "config"
  /\ \/ /\ \A peer \in allowed : Valid(peer)
        /\ sTrusted' = {Spki(peer) : peer \in allowed}
        /\ spc' = "listen"
     \/ /\ \E peer \in allowed : ~Valid(peer)
        /\ spc' = "unbuilt"
        /\ UNCHANGED sTrusted
  /\ UNCHANGED <<ends, cTrusted, cpc, wire, gotS, gotC>>

(* ClientTlsConfig::build.                                                 *)
BuildClient ==
  /\ cpc = "config"
  /\ \/ /\ Valid(expected)
        /\ cTrusted' = {Spki(expected)}
        /\ cpc' = "ready"
     \/ /\ ~Valid(expected)
        /\ cpc' = "unbuilt"
        /\ UNCHANGED cTrusted
  /\ UNCHANGED <<ends, sTrusted, spc, wire, gotS, gotC>>

(* Mutant: the presented key is compared in its 32-byte form.              *)
VerifyServerCertRaw(cert, trusted) == cert.key \in trusted

(* RpkServerCertVerifier::verify_server_cert.                              *)
VerifyServerCert(cert, trusted) == cert \in trusted

(* Mutant: `open` is always set.                                           *)
VerifyNoClientCert(cert, trusted) == TRUE

(* RpkClientCertVerifier::verify_client_cert; `open` is trusted = {}.      *)
VerifyClientCert(cert, trusted) == trusted = {} \/ cert \in trusted

(* verify_tls13_signature, and that some raw key is shown at all: the      *)
(* verifiers leave rustls' default, that the other end must show one.      *)
Signature(flight) == flight.cert.key # NoKey /\ flight.signer = flight.cert.key

-----------------------------------------------------------------------------
(* The client connects and offers its protocol versions.                   *)
ClientHello ==
  /\ cpc = "ready" /\ spc = "listen" /\ up
  /\ toServer' = Append(toServer, Hello(client))
  /\ cpc' = "hello" /\ spc' = "hello"
  /\ UNCHANGED <<ends, cTrusted, sTrusted, toClient, up, gotS, gotC>>

(* The server answers with its key and a signature, or refuses a client    *)
(* without TLS 1.3, the one version that both builders enable.             *)
ServerHello ==
  /\ spc = "hello" /\ toServer # <<>> /\ Head(toServer).kind = "hello"
  /\ toServer' = Tail(toServer)
  /\ \/ /\ Head(toServer).tls13 /\ server.tls13
        /\ toClient' = Append(toClient, Flight(server))
        /\ spc' = "verify"
     \/ /\ ~(Head(toServer).tls13 /\ server.tls13)
        /\ toClient' = Append(toClient, Alert)
        /\ spc' = "failed"
  /\ UNCHANGED <<ends, cTrusted, sTrusted, cpc, up, gotS, gotC>>

(* The client checks the server, sends its own key and signature, and in   *)
(* TLS 1.3 is connected without waiting for the server's verdict.          *)
ClientVerify ==
  LET flight == Head(toClient) IN
  /\ cpc = "hello" /\ toClient # <<>> /\ flight.kind = "flight"
  /\ toClient' = Tail(toClient)
  /\ \/ /\ ~client.ours
           \/ (VerifyServerCert(flight.cert, cTrusted) /\ Signature(flight))
        /\ toServer' = Append(toServer, Flight(client))
        /\ cpc' = "connected"
     \/ /\ client.ours
        /\ ~(VerifyServerCert(flight.cert, cTrusted) /\ Signature(flight))
        /\ toServer' = Append(toServer, Alert)
        /\ cpc' = "failed"
  /\ UNCHANGED <<ends, cTrusted, sTrusted, spc, up, gotS, gotC>>

(* The server checks the client; rustls turns a refusal into an alert.     *)
ServerVerify ==
  LET flight == Head(toServer) IN
  /\ spc = "verify" /\ toServer # <<>> /\ flight.kind = "flight"
  /\ toServer' = Tail(toServer)
  /\ \/ /\ ~server.ours
           \/ (VerifyClientCert(flight.cert, sTrusted) /\ Signature(flight))
        /\ spc' = "connected"
        /\ UNCHANGED toClient
     \/ /\ server.ours
        /\ ~(VerifyClientCert(flight.cert, sTrusted) /\ Signature(flight))
        /\ toClient' = Append(toClient, Alert)
        /\ spc' = "failed"
  /\ UNCHANGED <<ends, cTrusted, sTrusted, cpc, up, gotS, gotC>>

-----------------------------------------------------------------------------
InHandshake == {"hello", "verify", "connected"}

ClientReadsAlert ==
  /\ cpc \in InHandshake /\ toClient # <<>> /\ Head(toClient) = Alert
  /\ toClient' = Tail(toClient)
  /\ cpc' = "failed"
  /\ UNCHANGED <<ends, cTrusted, sTrusted, spc, toServer, up, gotS, gotC>>

ServerReadsAlert ==
  /\ spc \in InHandshake /\ toServer # <<>> /\ Head(toServer) = Alert
  /\ toServer' = Tail(toServer)
  /\ spc' = "failed"
  /\ UNCHANGED <<ends, cTrusted, sTrusted, cpc, toClient, up, gotS, gotC>>

(* Either end writes when it is connected, one record in transit at most.  *)
ClientWrites ==
  /\ cpc = "connected" /\ up /\ Data \notin {toServer[i] : i \in DOMAIN toServer}
  /\ toServer' = Append(toServer, Data)
  /\ UNCHANGED <<ends, cTrusted, sTrusted, cpc, spc, toClient, up, gotS, gotC>>

ServerWrites ==
  /\ spc = "connected" /\ up /\ Data \notin {toClient[i] : i \in DOMAIN toClient}
  /\ toClient' = Append(toClient, Data)
  /\ UNCHANGED <<ends, cTrusted, sTrusted, cpc, spc, toServer, up, gotS, gotC>>

ClientReads ==
  /\ cpc = "connected" /\ toClient # <<>> /\ Head(toClient) = Data
  /\ toClient' = Tail(toClient)
  /\ gotC' = TRUE
  /\ UNCHANGED <<ends, cTrusted, sTrusted, cpc, spc, toServer, up, gotS>>

ServerReads ==
  /\ spc = "connected" /\ toServer # <<>> /\ Head(toServer) = Data
  /\ toServer' = Tail(toServer)
  /\ gotS' = TRUE
  /\ UNCHANGED <<ends, cTrusted, sTrusted, cpc, spc, toClient, up, gotC>>

(* The TCP connection breaks, with what is on it; each end finds out.      *)
Break ==
  /\ up /\ cpc # "config" /\ cpc # "ready" /\ cpc # "unbuilt"
  /\ up' = FALSE
  /\ toServer' = <<>> /\ toClient' = <<>>
  /\ UNCHANGED <<ends, cTrusted, sTrusted, cpc, spc, gotS, gotC>>

ClientLoses ==
  /\ ~up /\ cpc \in InHandshake
  /\ cpc' = "failed"
  /\ UNCHANGED <<ends, cTrusted, sTrusted, spc, wire, gotS, gotC>>

ServerLoses ==
  /\ ~up /\ spc \in InHandshake
  /\ spc' = "failed"
  /\ UNCHANGED <<ends, cTrusted, sTrusted, cpc, wire, gotS, gotC>>

-----------------------------------------------------------------------------
Client ==
  BuildClient \/ ClientHello \/ ClientVerify \/ ClientReadsAlert
  \/ ClientReads \/ ClientLoses

Server ==
  BuildServer \/ ServerHello \/ ServerVerify \/ ServerReadsAlert
  \/ ServerReads \/ ServerLoses

Next == Client \/ Server \/ ClientWrites \/ ServerWrites \/ Break

Spec == Init /\ [][Next]_vars

(* An end that runs this code drives its handshake and reads.              *)
FairSpec ==
  /\ Spec
  /\ WF_vars(client.ours /\ Client)
  /\ WF_vars(server.ours /\ Server)

-----------------------------------------------------------------------------
RightServer == server.holds = expected
RightClient == client.holds # NoKey /\ (allowed = {} \/ client.holds \in allowed)

(* An end that this code calls connected is connected to who the operator  *)
(* named: the client to the holder of expected_server's key, the server to *)
(* the holder of an allowed key, of any key if `allowed` is empty.         *)
MutualAuth ==
  /\ client.ours /\ cpc = "connected" => RightServer
  /\ server.ours /\ spc = "connected" => RightClient

(* Application data is read by nobody unless both ends are who they should *)
(* be, although a client that the server refuses believes itself connected *)
(* for a while and may already have written.                               *)
DataNeedsBoth ==
  gotC \/ gotS => /\ client.ours => RightServer
                  /\ server.ours => RightClient

(* Two ends of this code that name each other connect, unless the TCP      *)
(* connection breaks or another entry of the allow-list is malformed.      *)
PairConnects ==
  /\ client.ours /\ server.ours /\ RightServer /\ RightClient
  /\ BadId \notin allowed
  ~> (cpc = "connected" /\ spc = "connected") \/ ~up
=============================================================================
