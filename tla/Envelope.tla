------------------------------ MODULE Envelope ------------------------------
(* One event's way over the mesh: Transport::publish gives it a key and a  *)
(* JSON payload, Zenoh hands the sample to the subscriptions its key       *)
(* meets, Transport::subscribe decodes it, and a receiver may pass it on.  *)
(* Edge nodes exchange the same events in CBOR, through wire::cbor.        *)
(*                                                                         *)
(* The frame may also come from another implementation of the protocol,    *)
(* with any text where a PeerId or bytes should be.                        *)
EXTENDS Codec, KeyExpr

CONSTANTS
  Peer,     \* PeerIds of the events considered
  Name,     \* model names and agent ids, as sequences of chunks
  Body,     \* opaque bytes
  IdText,   \* what may stand for a PeerId
  BodyText, \* what may stand for bytes
  None,     \* no value: a field that the variant lacks, or has left out
  Null      \* null, in JSON and in CBOR

VARIABLES
  event,   \* the event sent, None if another implementation sent it
  frame,   \* its payload
  sent,    \* "idle", "put" when it is on its way, "refused" when put failed,
           \* "never" where a PeerId is typed instead
  inbox,   \* the subscriptions that the sample waits at
  got,     \* what each subscription has yielded
  relay,   \* the payload when a receiver has passed the event on
  typed,   \* a PeerId typed at the command line
  parsed   \* what became of it

vars == <<event, frame, sent, inbox, got, relay, typed, parsed>>

Subscription == {SUB_ALL_HEARTBEATS, SUB_ALL_MODELS, SUB_ALL_AGENT_STATE}
Node == <<Lit("node")>>   \* not a subscription: the other end of a CBOR link
Receiver == Subscription \cup {Node}

Number == {"finite", "infinite", "nan"}

Heartbeat(p, x) ==
  [kind |-> "heartbeat", peer |-> p, name |-> None, number |-> x, body |-> None]
Named(kind, p, n, b) ==
  [kind |-> kind, peer |-> p, name |-> n, number |-> None, body |-> b]
SensorReading(p, x, raw) ==
  [kind |-> "sensor-reading", peer |-> p, name |-> None, number |-> x, body |-> raw]

(* The events that key_for knows, and those with other shapes of fields. A *)
(* field has one of four types: PeerId, text, number and opaque bytes.     *)
(* `raw` of a sensor reading is the one that may be absent.                *)
Keyed ==
  {Heartbeat(p, x) : p \in Peer, x \in Number}
  \cup {Named("model-announce", p, n, None) : p \in Peer, n \in Name}
  \cup {Named("agent-state", p, n, b) : p \in Peer, n \in Name, b \in Body}
  \cup {Named(k, p, None, b) : k \in {"work-offer", "work-result"}, p \in Peer, b \in Body}
Event ==
  Keyed
  \cup {SensorReading(p, x, raw) : p \in Peer, x \in Number, raw \in Body \cup {None}}
  \cup {Named(k, p, None, b) : k \in {"command", "attestation"}, p \in Peer, b \in Body}
  \cup {Named(k, p, None, None) : k \in {"ota-offer", "ota-status"}, p \in Peer}

ASSUME EnvelopeAssumption ==
  /\ Peer # {} /\ Peer \subseteq [1 .. IdLen -> Byte]
  /\ Body \subseteq Seq(Byte)
  /\ IdText \subseteq Seq(HexChar \cup {Junk})
  /\ BodyText \subseteq Seq(Symbol \cup {Pad, Junk})
  /\ Name \subseteq Seq(Chunk)
  /\ None # Null /\ None # Malformed /\ None \notin Event /\ None \notin Name
  /\ {None, Null} \cap (Number \cup Seq(Symbol \cup {Pad, Junk}) \cup Seq(Byte)) = {}

HasBody == {"agent-state", "work-offer", "work-result", "command", "attestation"}

-----------------------------------------------------------------------------
(* serde_json writes a number that is not finite as null.                  *)
EncodeNumber(format, x) ==
  IF format = "json" /\ x \in {"infinite", "nan"} THEN Null ELSE x

(* serde_json::to_vec and cbor::to_vec: hex_array, base64url_bytes_bytes,  *)
(* and no field at all for a `raw` of None.                                *)
Encode(format, e) ==
  [format |-> format, kind |-> e.kind, peer |-> HexEncode(e.peer), name |-> e.name,
   number |-> EncodeNumber(format, e.number),
   body |-> IF e.body = None THEN None ELSE Base64Encode(e.body)]

(* Mutant: empty bytes are taken for none.                                 *)
DecodeOptNonEmpty(text) ==
  IF text \in {None, Null, <<>>} THEN Decoded(None) ELSE Base64Deserialize(text)

(* base64url_bytes_opt::deserialize: null is None, as an absent field is.  *)
DecodeOpt(text) ==
  IF text \in {None, Null} THEN Decoded(None) ELSE Base64Deserialize(text)

(* The opaque field of a variant that has one; it must be there.           *)
DecodeBody(kind, text) ==
  CASE kind = "sensor-reading" -> DecodeOpt(text)
    [] kind \in HasBody -> IF text \in {None, Null} THEN Malformed
                           ELSE Base64Deserialize(text)
    [] OTHER -> Decoded(None)

(* serde_json::from_slice and cbor::from_slice: any bad field fails it.    *)
Decode(f) ==
  LET peer == HexArrayDeserialize(f.peer)
      body == DecodeBody(f.kind, f.body)
  IN IF IsOk(peer) /\ IsOk(body) /\ f.number # Null
     THEN [kind |-> f.kind, peer |-> peer.ok, name |-> f.name,
           number |-> f.number, body |-> body.ok]
     ELSE Malformed

-----------------------------------------------------------------------------
(* What others may send: texts of their own in an agent-state event over   *)
(* the mesh, or in a sensor reading over a CBOR link.                      *)
Foreign ==
  LET Agent(peer, body) ==
        [format |-> "json", kind |-> "agent-state", peer |-> peer,
         name |-> <<Lit("a")>>, number |-> None, body |-> body]
      Reading(body) ==
        [format |-> "cbor", kind |-> "sensor-reading",
         peer |-> HexEncode(CHOOSE p \in Peer : TRUE),
         name |-> None, number |-> "finite", body |-> body]
  IN {Agent(t, <<>>) : t \in IdText}
     \cup {Agent(HexEncode(CHOOSE p \in Peer : TRUE), t) : t \in BodyText}
     \cup {Reading(t) : t \in BodyText \cup {None, Null}}

Init ==
  /\ event = None /\ frame = None /\ sent = "idle"
  /\ inbox = {} /\ relay = None
  /\ got = [r \in Receiver |-> None]
  /\ typed = None /\ parsed = None

(* Transport::publish, and Zenoh's delivery to the subscriptions.          *)
Publish(e) ==
  LET key == key_for(e.kind, HexEncode(e.peer), e.name) IN
  /\ event' = e
  /\ frame' = Encode("json", e)
  /\ \/ /\ ValidKeyExpr(key)
        /\ sent' = "put"
        /\ inbox' = {s \in Subscription : Intersects(s, key)}
     \/ /\ ~ValidKeyExpr(key)
        /\ sent' = "refused"
        /\ UNCHANGED inbox
  /\ UNCHANGED <<got, relay, typed, parsed>>

(* wire::cbor::to_vec, and a link to the other end.                        *)
SendCbor(e) ==
  /\ event' = e
  /\ frame' = Encode("cbor", e)
  /\ sent' = "put"
  /\ inbox' = {Node}
  /\ UNCHANGED <<got, relay, typed, parsed>>

SendForeign(f) ==
  /\ frame' = f
  /\ sent' = "put"
  /\ inbox' = {IF f.format = "json" THEN SUB_ALL_AGENT_STATE ELSE Node}
  /\ UNCHANGED <<event, got, relay, typed, parsed>>

(* The forwarder of Transport::subscribe, or cbor::from_slice.             *)
Receive(r) ==
  /\ r \in inbox
  /\ inbox' = inbox \ {r}
  /\ got' = [got EXCEPT ![r] = Decode(frame)]
  /\ UNCHANGED <<event, frame, sent, relay, typed, parsed>>

(* A receiver passes the event on in the same format.                      *)
PassOn(r) ==
  /\ relay = None
  /\ got[r] \notin {None, Malformed}
  /\ relay' = Encode(frame.format, got[r])
  /\ UNCHANGED <<event, frame, sent, inbox, got, typed, parsed>>

(* model pull's peer argument: PeerId::from_hex.                           *)
ParsePeer(text) ==
  /\ sent' = "never"
  /\ typed' = text
  /\ parsed' = FromHex(text)
  /\ UNCHANGED <<event, frame, inbox, got, relay>>

Send ==
  \/ \E t \in IdText : ParsePeer(t)
  \/ \E e \in Keyed : Publish(e)
  \/ \E e \in Event : SendCbor(e)
  \/ \E f \in Foreign : SendForeign(f)

Next ==
  \/ sent = "idle" /\ Send
  \/ \E r \in Receiver : Receive(r) \/ PassOn(r)

Spec == Init /\ [][Next]_vars

-----------------------------------------------------------------------------
SubscriptionOf(kind) ==
  CASE kind = "heartbeat" -> {SUB_ALL_HEARTBEATS}
    [] kind = "model-announce" -> {SUB_ALL_MODELS}
    [] kind = "agent-state" -> {SUB_ALL_AGENT_STATE}
    [] OTHER -> {}

Reached == inbox \cup {r \in Receiver : got[r] # None}

HasVerbatim(name) == name # None /\ \E i \in DOMAIN name : name[i][1] = "verbatim"

(* An event that publish has put reaches the wildcard subscription of its  *)
(* own variant and no other, whatever slashes or wildcards the name that   *)
(* became part of its key has. The exception is a name with a chunk that   *)
(* begins with '@', which no wildcard meets.                               *)
ReachesItsKind ==
  sent = "put" /\ event # None /\ frame.format = "json" =>
    Reached = IF HasVerbatim(event.name) THEN {} ELSE SubscriptionOf(event.kind)

(* What a receiver decodes of an event is that event, in both formats;     *)
(* only a number that JSON has no text for makes it an error.              *)
ArrivesIntact ==
  \A r \in Receiver :
    event # None /\ got[r] # None =>
      got[r] = IF frame.number = Null THEN Malformed ELSE event

(* A frame that the protocol allows: a PeerId in its one canonical text,   *)
(* bytes in their canonical text with or without padding.                  *)
Understood(f) ==
  /\ f.peer \in IdTexts
  /\ \/ f.body \in {None, Null} /\ f.kind = "sensor-reading"
     \/ /\ f.body \notin {None, Null}
        /\ \E n \in 0 .. Len(f.body) : BodyTextOf(f.body, SubSeq(f.body, 1, n))

(* A frame of another implementation is decoded exactly if it is one of    *)
(* the texts that the protocol allows.                                     *)
AcceptsExactly ==
  \A r \in Receiver :
    event = None /\ got[r] # None => (IsOk(got[r]) <=> Understood(frame))

(* A frame that is decoded and passed on has the same text again, but for  *)
(* the padding and the null that another implementation may have written:  *)
(* no two texts of a PeerId, and no two unpadded ones of bytes, mean the   *)
(* same.                                                                   *)
RelayIsStable ==
  relay # None =>
    /\ relay = [frame EXCEPT !.body = relay.body]
    /\ IF frame.body \in {None, Null} THEN relay.body = None
       ELSE frame.body \in {relay.body, Padded(relay.body)} /\ Pad \notin Chars(relay.body)

(* A typed PeerId names a peer exactly if it is that peer's canonical text *)
(* with letters of either case: what `peer id` prints can be given to      *)
(* `model pull`, and no other peer's text is taken for it.                 *)
SameAddress ==
  typed # None =>
    \A p \in [1 .. IdLen -> Byte] :
      parsed = Decoded(p) <=> Lower(typed) = HexEncode(p)
=============================================================================
