--------------------------- MODULE EnvelopeProofs ---------------------------
(* What becomes of an event on its way, for PeerIds and bytes of any       *)
(* length, names of any number of chunks and any set of texts that others  *)
(* may send. TextProofs has the facts about the texts.                     *)
EXTENDS Envelope, TextProofs

-----------------------------------------------------------------------------
(* Events and frames as records of their fields.                           *)
EventOf(k, p, n, x, b) == [kind |-> k, peer |-> p, name |-> n, number |-> x, body |-> b]
FrameOf(fmt, k, p, n, x, b) ==
  [format |-> fmt, kind |-> k, peer |-> p, name |-> n, number |-> x, body |-> b]

BodyFits(k, b) ==
  \/ k \in HasBody /\ b \in Body
  \/ k = "sensor-reading" /\ b \in Body \cup {None}
  \/ k \notin HasBody \cup {"sensor-reading"} /\ b = None

(* Which variants have an opaque field.                                    *)
LEMMA KindsDiffer ==
  /\ "sensor-reading" \notin HasBody
  /\ \A k \in {"heartbeat", "model-announce", "ota-offer", "ota-status"} :
       k \notin HasBody \cup {"sensor-reading"}
  /\ \A k \in {"agent-state", "work-offer", "work-result", "command", "attestation"} :
       k \in HasBody
  BY Zenon DEF HasBody

(* Every event has the same five fields, of which some are None.           *)
LEMMA EventShape ==
  ASSUME NEW e \in Event
  PROVE  \E k, n : \E p \in Peer : \E x \in Number \cup {None} : \E b :
           e = EventOf(k, p, n, x, b) /\ BodyFits(k, b)
<1>1. ASSUME NEW p \in Peer, NEW x \in Number, e = Heartbeat(p, x)
      PROVE  e = EventOf("heartbeat", p, None, x, None) /\ BodyFits("heartbeat", None)
  BY <1>1, KindsDiffer, Zenon DEF Heartbeat, EventOf, BodyFits
<1>2. ASSUME NEW p \in Peer, NEW k, NEW n, NEW b, e = Named(k, p, n, b),
             \/ k \in {"model-announce", "ota-offer", "ota-status"} /\ b = None
             \/ k \in HasBody /\ b \in Body
      PROVE  e = EventOf(k, p, n, None, b) /\ BodyFits(k, b)
  <2>1. k \in {"model-announce", "ota-offer", "ota-status"} =>
          k \notin HasBody \cup {"sensor-reading"}
    BY KindsDiffer, Zenon
  <2> QED
    BY <1>2, <2>1, Zenon DEF Named, EventOf, BodyFits
<1>3. ASSUME NEW p \in Peer, NEW x \in Number, NEW b \in Body \cup {None},
             e = SensorReading(p, x, b)
      PROVE  e = EventOf("sensor-reading", p, None, x, b) /\ BodyFits("sensor-reading", b)
  BY <1>3, Zenon DEF SensorReading, EventOf, BodyFits
<1>4. \/ \E p \in Peer, x \in Number : e = Heartbeat(p, x)
      \/ \E p \in Peer, n \in Name : e = Named("model-announce", p, n, None)
      \/ \E p \in Peer, n \in Name, b \in Body : e = Named("agent-state", p, n, b)
      \/ \E k \in {"work-offer", "work-result"}, p \in Peer, b \in Body :
           e = Named(k, p, None, b)
      \/ \E p \in Peer, x \in Number, b \in Body \cup {None} : e = SensorReading(p, x, b)
      \/ \E k \in {"command", "attestation"}, p \in Peer, b \in Body :
           e = Named(k, p, None, b)
      \/ \E k \in {"ota-offer", "ota-status"}, p \in Peer : e = Named(k, p, None, None)
  <2>1. \/ e \in Keyed
        \/ e \in {SensorReading(p, x, raw) : p \in Peer, x \in Number, raw \in Body \cup {None}}
        \/ e \in {Named(k, p, None, b) : k \in {"command", "attestation"}, p \in Peer, b \in Body}
        \/ e \in {Named(k, p, None, None) : k \in {"ota-offer", "ota-status"}, p \in Peer}
    BY SMT DEF Event
  <2>2. CASE e \in Keyed
    BY <2>2, SMT DEF Keyed
  <2> QED
    BY <2>1, <2>2, SMT
<1> HIDE DEF Heartbeat, Named, SensorReading
<1>5. CASE \E p \in Peer, x \in Number : e = Heartbeat(p, x)
  <2>1. PICK p \in Peer, x \in Number : e = Heartbeat(p, x)
    BY <1>5, Zenon
  <2>2. x \in Number \cup {None}
    BY Zenon
  <2>3. e = EventOf("heartbeat", p, None, x, None) /\ BodyFits("heartbeat", None)
    BY <1>1, <2>1, Zenon
  <2> QED
    BY <2>2, <2>3, Zenon
<1>6. CASE \E p \in Peer, x \in Number, b \in Body \cup {None} : e = SensorReading(p, x, b)
  <2>1. PICK p \in Peer, x \in Number, b \in Body \cup {None} : e = SensorReading(p, x, b)
    BY <1>6, Zenon
  <2>2. x \in Number \cup {None}
    BY Zenon
  <2>3. e = EventOf("sensor-reading", p, None, x, b) /\ BodyFits("sensor-reading", b)
    BY <1>3, <2>1, Zenon
  <2> QED
    BY <2>2, <2>3, Zenon
<1>7. CASE \E p \in Peer : \E k, n, b :
             /\ e = Named(k, p, n, b)
             /\ \/ k \in {"model-announce", "ota-offer", "ota-status"} /\ b = None
                \/ k \in HasBody /\ b \in Body
  <2>1. PICK p \in Peer : \E k, n, b :
             /\ e = Named(k, p, n, b)
             /\ \/ k \in {"model-announce", "ota-offer", "ota-status"} /\ b = None
                \/ k \in HasBody /\ b \in Body
    BY <1>7, Zenon
  <2>2. PICK k, n, b :
             /\ e = Named(k, p, n, b)
             /\ \/ k \in {"model-announce", "ota-offer", "ota-status"} /\ b = None
                \/ k \in HasBody /\ b \in Body
    BY <2>1, Zenon
  <2>3. e = EventOf(k, p, n, None, b) /\ BodyFits(k, b)
    BY <1>2, <2>2, Zenon
  <2>4. None \in Number \cup {None}
    BY Zenon
  <2> QED
    BY <2>3, <2>4, Zenon
<1>8. \/ \E p \in Peer, x \in Number : e = Heartbeat(p, x)
      \/ \E p \in Peer, x \in Number, b \in Body \cup {None} : e = SensorReading(p, x, b)
      \/ \E p \in Peer : \E k, n, b :
             /\ e = Named(k, p, n, b)
             /\ \/ k \in {"model-announce", "ota-offer", "ota-status"} /\ b = None
                \/ k \in HasBody /\ b \in Body
  BY <1>4, KindsDiffer, Zenon
<1> QED
  BY <1>5, <1>6, <1>7, <1>8, Zenon

(* What DecodeBody does for each kind of variant.                          *)
LEMMA BodyKinds ==
  ASSUME NEW text
  PROVE  /\ DecodeBody("sensor-reading", text) = DecodeOpt(text)
         /\ \A k \in HasBody :
              DecodeBody(k, text) =
                IF text \in {None, Null} THEN Malformed ELSE Base64Deserialize(text)
         /\ \A k : k \notin HasBody \cup {"sensor-reading"} =>
              DecodeBody(k, text) = Decoded(None)
<1>1. "sensor-reading" \notin HasBody
  BY KindsDiffer, Zenon
<1> QED
  BY <1>1, Zenon DEF DecodeBody

(* What is known of every frame, whoever sent it.                          *)
WellFormed(f) ==
  /\ f = FrameOf(f.format, f.kind, f.peer, f.name, f.number, f.body)
  /\ f.peer \in Seq(HexChar \cup {Junk})
  /\ f.format = "json" => f.number \notin {"infinite", "nan"}
  /\ f.body \in {None, Null} \cup Seq(Symbol \cup {Pad, Junk})
  /\ f.kind \notin HasBody \cup {"sensor-reading"} => f.body = None

(* None and null are no bytes, no text and no number.                      *)
LEMMA NoValues ==
  /\ None # Null
  /\ \A b \in Seq(Byte) : b # None /\ b # Null
  /\ \A s \in Seq(Symbol \cup {Pad, Junk}) : s # None /\ s # Null
  /\ \A s \in Seq(Symbol) : s \in Seq(Symbol \cup {Pad, Junk}) /\ s # None /\ s # Null
  /\ \A x \in Number : x # None /\ x # Null
  /\ Null \notin Number \cup {None}
<1>1. \A s \in Seq(Symbol) : s \in Seq(Symbol \cup {Pad, Junk})
  OBVIOUS
<1> QED
  BY <1>1, EnvelopeAssumption, Zenon

(* Decoding, field by field.                                               *)
LEMMA DecodeFields ==
  ASSUME NEW f
  PROVE  /\ IsOk(Decode(f)) <=>
              /\ IsOk(HexArrayDeserialize(f.peer)) /\ IsOk(DecodeBody(f.kind, f.body))
              /\ f.number # Null
         /\ IsOk(Decode(f)) =>
              Decode(f) = EventOf(f.kind, HexArrayDeserialize(f.peer).ok, f.name, f.number,
                                  DecodeBody(f.kind, f.body).ok)
         /\ ~IsOk(Decode(f)) => Decode(f) = Malformed
<1>1. \A k, p, n, x, b : EventOf(k, p, n, x, b) # Malformed
  <2>1. \A k, p, n, x, b : "kind" \in DOMAIN EventOf(k, p, n, x, b)
    BY Zenon DEF EventOf
  <2>2. "kind" \notin DOMAIN Malformed
    BY Zenon DEF Malformed
  <2> QED
    BY <2>1, <2>2, Zenon
<1>2. Decode(f) = IF /\ IsOk(HexArrayDeserialize(f.peer)) /\ IsOk(DecodeBody(f.kind, f.body))
                     /\ f.number # Null
                  THEN EventOf(f.kind, HexArrayDeserialize(f.peer).ok, f.name, f.number,
                               DecodeBody(f.kind, f.body).ok)
                  ELSE Malformed
  BY Zenon DEF Decode, EventOf
<1> QED
  BY <1>1, <1>2, Zenon DEF IsOk

(* The body of an event, encoded and decoded.                              *)
BodyToText(b) == IF b = None THEN None ELSE Base64Encode(b)

ReadsAs(k, text, b) ==
  /\ DecodeBody(k, text) = Decoded(b)
  /\ text \in {None, Null} \cup Seq(Symbol \cup {Pad, Junk})
  /\ k \notin HasBody \cup {"sensor-reading"} => text = None

(* The opaque field of an event is read as it was written.                 *)
LEMMA BodyRoundTrip ==
  ASSUME NEW k, NEW b, BodyFits(k, b)
  PROVE  ReadsAs(k, BodyToText(b), b)
<1>1. CASE b = None
  <2>1. BodyToText(b) = None
    BY <1>1, Zenon DEF BodyToText
  <2>2. k \notin HasBody
    BY <1>1, KindsDiffer, NoValues, EnvelopeAssumption, Zenon DEF BodyFits
  <2>3. DecodeOpt(None) = Decoded(None)
    BY Zenon DEF DecodeOpt
  <2>4. CASE k = "sensor-reading"
    BY <1>1, <2>1, <2>3, <2>4, BodyKinds, Zenon DEF ReadsAs
  <2>5. CASE k # "sensor-reading"
    BY <1>1, <2>1, <2>2, <2>5, BodyKinds, Zenon DEF ReadsAs
  <2> QED
    BY <2>4, <2>5, Zenon
<1>2. CASE b # None
  <2>1. b \in Body /\ k \in HasBody \cup {"sensor-reading"}
    BY <1>2, Zenon DEF BodyFits
  <2>2. b \in Seq(Byte) /\ BodyToText(b) = Base64Encode(b)
    BY <1>2, <2>1, EnvelopeAssumption, Zenon DEF BodyToText
  <2>3. Base64Encode(b) \in Seq(Symbol) /\ SymbolsDecode(Base64Encode(b)) = Decoded(b)
    BY <2>2, BytesRoundTrip, Zenon
  <2>4. Base64Deserialize(Base64Encode(b)) = Decoded(b)
    BY <2>3, ResultsDiffer, Zenon DEF Base64Deserialize
  <2>5. Base64Encode(b) \notin {None, Null}
        /\ Base64Encode(b) \in Seq(Symbol \cup {Pad, Junk})
    BY <2>3, NoValues, Zenon
  <2>6. DecodeOpt(Base64Encode(b)) = Decoded(b)
    BY <2>4, <2>5, Zenon DEF DecodeOpt
  <2>7. DecodeBody(k, Base64Encode(b)) = Decoded(b)
    BY <2>1, <2>4, <2>5, <2>6, BodyKinds, Zenon
  <2> QED
    BY <2>1, <2>2, <2>5, <2>7, Zenon DEF ReadsAs
<1> QED
  BY <1>1, <1>2, Zenon

(* An event's own frame, in both formats.                                  *)
LEMMA EventFrame ==
  ASSUME NEW e \in Event, NEW format
  PROVE  /\ WellFormed(Encode(format, e))
         /\ Decode(Encode(format, e)) =
              IF Encode(format, e).number = Null THEN Malformed ELSE e
<1>1. PICK k, n : \E p \in Peer : \E x \in Number \cup {None} : \E b :
                    e = EventOf(k, p, n, x, b) /\ BodyFits(k, b)
  BY EventShape, Zenon
<1>2. PICK p \in Peer : \E x \in Number \cup {None} : \E b :
                    e = EventOf(k, p, n, x, b) /\ BodyFits(k, b)
  BY <1>1, Zenon
<1>3. PICK x \in Number \cup {None} : \E b :
                    e = EventOf(k, p, n, x, b) /\ BodyFits(k, b)
  BY <1>2, Zenon
<1>4. PICK b : e = EventOf(k, p, n, x, b) /\ BodyFits(k, b)
  BY <1>3, Zenon
<1>5. e.kind = k /\ e.peer = p /\ e.name = n /\ e.number = x /\ e.body = b
  BY <1>4, SMT DEF EventOf
<1>6. PICK f : f = Encode(format, e)
  BY Zenon
<1>7. f = FrameOf(format, k, HexEncode(p), n, EncodeNumber(format, x), BodyToText(b))
  BY <1>5, <1>6, Zenon DEF Encode, FrameOf, BodyToText
<1>8. /\ f.format = format /\ f.kind = k /\ f.peer = HexEncode(p) /\ f.name = n
      /\ f.number = EncodeNumber(format, x) /\ f.body = BodyToText(b)
  BY <1>7, SMT DEF FrameOf
<1>9. p \in [1 .. IdLen -> Byte]
  BY EnvelopeAssumption, Zenon
<1>10. /\ HexArrayDeserialize(f.peer) = Decoded(p)
       /\ f.peer \in Seq(HexChar \cup {Junk})
  <2>1. HexArrayDeserialize(f.peer) = Decoded(p) /\ f.peer \in Seq(HexChar)
    BY <1>8, <1>9, HexArrayRoundTrip, Zenon
  <2> QED
    BY <2>1
<1>11. /\ DecodeBody(f.kind, f.body) = Decoded(b)
       /\ f.body \in {None, Null} \cup Seq(Symbol \cup {Pad, Junk})
       /\ f.kind \notin HasBody \cup {"sensor-reading"} => f.body = None
  <2>1. ReadsAs(k, BodyToText(b), b)
    BY <1>4, BodyRoundTrip, Zenon
  <2>2. ReadsAs(f.kind, f.body, b)
    BY <1>8, <2>1, Zenon
  <2> QED
    BY <2>2, Zenon DEF ReadsAs
<1>12. /\ f.number # Null => f.number = x
       /\ f.format = "json" => f.number \notin {"infinite", "nan"}
  <2>1. Null \notin {"infinite", "nan"} /\ x # Null
    BY NoValues, Zenon DEF Number
  <2> QED
    BY <1>8, <2>1, Zenon DEF EncodeNumber
<1>13. WellFormed(f)
  BY <1>7, <1>8, <1>10, <1>11, <1>12, Zenon DEF WellFormed
<1>14. CASE f.number = Null
  BY <1>6, <1>13, <1>14, DecodeFields, Zenon
<1>15. CASE f.number # Null
  <2>1. IsOk(Decode(f))
    BY <1>10, <1>11, <1>15, DecodeFields, ResultsDiffer, Zenon
  <2>2. Decode(f) = EventOf(f.kind, HexArrayDeserialize(f.peer).ok, f.name, f.number,
                            DecodeBody(f.kind, f.body).ok)
    BY <2>1, DecodeFields, Zenon
  <2>3. HexArrayDeserialize(f.peer).ok = p /\ DecodeBody(f.kind, f.body).ok = b
    BY <1>10, <1>11, ResultsDiffer, Zenon
  <2>4. Decode(f) = e
    BY <1>4, <1>8, <1>12, <1>15, <2>2, <2>3, Zenon
  <2> QED
    BY <1>6, <1>13, <1>15, <2>4, Zenon
<1> QED
  BY <1>14, <1>15, Zenon

(* The frames of other implementations.                                    *)
LEMMA ForeignFrame ==
  ASSUME NEW f \in Foreign
  PROVE  /\ WellFormed(f) /\ f.number # Null
         /\ \/ f.kind = "sensor-reading"
            \/ f.kind \in HasBody /\ f.body \in Seq(Symbol \cup {Pad, Junk})
<1> DEFINE Text == Seq(Symbol \cup {Pad, Junk})
           Id == Seq(HexChar \cup {Junk})
<1>1. PICK p \in Peer : p = CHOOSE q \in Peer : TRUE
  BY EnvelopeAssumption, Zenon
<1>2. HexEncode(p) \in Id
  <2>1. HexEncode(p) \in Seq(HexChar)
    BY EnvelopeAssumption, HexArrayRoundTrip, Zenon
  <2> QED
    BY <2>1
<1>3. /\ IdText \subseteq Id /\ BodyText \subseteq Text /\ <<>> \in Text
  BY EnvelopeAssumption
<1>4. \/ \E i \in IdText :
           f = FrameOf("json", "agent-state", i, <<Lit("a")>>, None, <<>>)
      \/ \E t \in BodyText :
           f = FrameOf("json", "agent-state", HexEncode(p), <<Lit("a")>>, None, t)
      \/ \E t \in BodyText \cup {None, Null} :
           f = FrameOf("cbor", "sensor-reading", HexEncode(p), None, "finite", t)
  BY <1>1, SMT DEF Foreign, FrameOf
<1>5. \/ \E i \in Id, t \in Text :
           f = FrameOf("json", "agent-state", i, <<Lit("a")>>, None, t)
      \/ \E i \in Id, t \in Text \cup {None, Null} :
           f = FrameOf("cbor", "sensor-reading", i, None, "finite", t)
  BY <1>2, <1>3, <1>4, Zenon
<1> HIDE DEF Text, Id
<1>6. "finite" # Null /\ None # Null /\ None \notin {"infinite", "nan"} /\ "cbor" # "json"
  <2>1. "finite" # Null /\ None # Null /\ None \notin {"infinite", "nan"}
    BY NoValues, Zenon DEF Number
  <2> QED
    BY <2>1, Zenon
<1>7. ASSUME NEW i \in Id, NEW t \in Text,
             f = FrameOf("json", "agent-state", i, <<Lit("a")>>, None, t)
      PROVE  WellFormed(f) /\ f.number # Null /\ f.kind \in HasBody /\ f.body \in Text
  <2>1. /\ f.format = "json" /\ f.kind = "agent-state" /\ f.peer = i
        /\ f.name = <<Lit("a")>> /\ f.number = None /\ f.body = t
    BY <1>7, SMT DEF FrameOf
  <2>2. "agent-state" \in HasBody
    BY KindsDiffer, Zenon
  <2> QED
    BY <1>6, <1>7, <2>1, <2>2, Zenon DEF WellFormed, Text, Id
<1>8. ASSUME NEW i \in Id, NEW t \in Text \cup {None, Null},
             f = FrameOf("cbor", "sensor-reading", i, None, "finite", t)
      PROVE  WellFormed(f) /\ f.number # Null /\ f.kind = "sensor-reading"
  <2>1. /\ f.format = "cbor" /\ f.kind = "sensor-reading" /\ f.peer = i
        /\ f.name = None /\ f.number = "finite" /\ f.body = t
    BY <1>8, SMT DEF FrameOf
  <2> QED
    BY <1>6, <1>8, <2>1, Zenon DEF WellFormed, Text, Id
<1> QED
  BY <1>5, <1>7, <1>8, Zenon DEF Text

(* A frame of another implementation is decoded exactly if it is one of    *)
(* the texts that the protocol allows.                                     *)
LEMMA ForeignDecoded ==
  ASSUME NEW f \in Foreign
  PROVE  IsOk(Decode(f)) <=> Understood(f)
<1>1. /\ WellFormed(f) /\ f.number # Null
      /\ \/ f.kind = "sensor-reading"
         \/ f.kind \in HasBody /\ f.body \in Seq(Symbol \cup {Pad, Junk})
  BY ForeignFrame, Zenon
<1>2. IsOk(HexArrayDeserialize(f.peer)) <=> f.peer \in IdTexts
  BY <1>1, HexAccepts, Zenon DEF WellFormed
<1>3. CASE f.body \in {None, Null}
  <2>1. f.kind = "sensor-reading"
    BY <1>1, <1>3, NoValues, Zenon
  <2>2. DecodeBody(f.kind, f.body) = Decoded(None)
    BY <1>3, <2>1, BodyKinds, Zenon DEF DecodeOpt
  <2>3. IsOk(DecodeBody(f.kind, f.body))
    BY <2>2, ResultsDiffer, Zenon
  <2> QED
    BY <1>1, <1>2, <1>3, <2>1, <2>3, DecodeFields, Zenon DEF Understood
<1>4. CASE f.body \notin {None, Null}
  <2>1. f.body \in Seq(Symbol \cup {Pad, Junk})
    BY <1>1, <1>4, Zenon DEF WellFormed
  <2>2. DecodeBody(f.kind, f.body) = Base64Deserialize(f.body)
    BY <1>1, <1>4, BodyKinds, Zenon DEF DecodeOpt
  <2>3. IsOk(Base64Deserialize(f.body)) <=>
          \E n \in 0 .. Len(f.body) : BodyTextOf(f.body, SubSeq(f.body, 1, n))
    BY <2>1, Base64Accepts, Zenon
  <2> QED
    BY <1>1, <1>2, <1>4, <2>2, <2>3, DecodeFields, Zenon DEF Understood
<1> QED
  BY <1>3, <1>4, Zenon

(* A frame decoded and encoded again.                                      *)
LEMMA RelayedFrame ==
  ASSUME NEW f, WellFormed(f), IsOk(Decode(f)), NEW g, g = Encode(f.format, Decode(f))
  PROVE  /\ g = [f EXCEPT !.body = g.body]
         /\ IF f.body \in {None, Null} THEN g.body = None
            ELSE f.body \in {g.body, Padded(g.body)} /\ Pad \notin Chars(g.body)
<1>1. /\ IsOk(HexArrayDeserialize(f.peer)) /\ IsOk(DecodeBody(f.kind, f.body))
      /\ Decode(f) = EventOf(f.kind, HexArrayDeserialize(f.peer).ok, f.name, f.number,
                             DecodeBody(f.kind, f.body).ok)
  BY DecodeFields, Zenon
<1>2. PICK p \in [1 .. IdLen -> Byte] :
        HexArrayDeserialize(f.peer) = Decoded(p) /\ HexEncode(p) = f.peer
  BY <1>1, HexAccepts, Zenon DEF WellFormed
<1>3. PICK b : b = DecodeBody(f.kind, f.body).ok
  BY Zenon
<1>4. PICK e : e = Decode(f)
  BY Zenon
<1>5. e = EventOf(f.kind, p, f.name, f.number, b)
  BY <1>1, <1>2, <1>3, <1>4, ResultsDiffer, Zenon
<1>6. e.kind = f.kind /\ e.peer = p /\ e.name = f.name /\ e.number = f.number /\ e.body = b
  BY <1>5, SMT DEF EventOf
<1>7. EncodeNumber(f.format, f.number) = f.number
  BY Zenon DEF WellFormed, EncodeNumber
<1>8. g = FrameOf(f.format, f.kind, f.peer, f.name, f.number, BodyToText(b))
  BY <1>2, <1>4, <1>6, <1>7, Zenon DEF Encode, FrameOf, BodyToText
<1>9. g = [f EXCEPT !.body = g.body] /\ g.body = BodyToText(b)
  <2>1. f = FrameOf(f.format, f.kind, f.peer, f.name, f.number, f.body)
    BY Zenon DEF WellFormed
  <2> QED
    BY <1>8, <2>1, SMT DEF FrameOf
<1>10. CASE f.body \in {None, Null}
  <2>1. f.kind \notin HasBody
    BY <1>1, <1>10, BodyKinds, ResultsDiffer, Zenon
  <2>2. DecodeOpt(f.body) = Decoded(None)
    BY <1>10, Zenon DEF DecodeOpt
  <2>3. DecodeBody(f.kind, f.body) = Decoded(None)
    <3>1. CASE f.kind = "sensor-reading"
      BY <2>2, <3>1, BodyKinds, Zenon
    <3>2. CASE f.kind # "sensor-reading"
      BY <2>1, <3>2, BodyKinds, Zenon
    <3> QED
      BY <3>1, <3>2, Zenon
  <2>4. b = None
    BY <1>3, <2>3, ResultsDiffer, Zenon
  <2> QED
    BY <1>9, <1>10, <2>4, Zenon DEF BodyToText
<1>11. CASE f.body \notin {None, Null}
  <2>1. f.body \in Seq(Symbol \cup {Pad, Junk}) /\ f.kind \in HasBody \cup {"sensor-reading"}
    BY <1>11, Zenon DEF WellFormed
  <2>2. DecodeBody(f.kind, f.body) = Base64Deserialize(f.body)
    BY <1>11, <2>1, BodyKinds, Zenon DEF DecodeOpt
  <2>3. PICK c : Base64Deserialize(f.body) = Decoded(c) /\ IsTextOf(f.body, c)
    BY <1>1, <2>1, <2>2, Base64Accepts, Zenon
  <2>4. b = c
    BY <1>3, <2>2, <2>3, ResultsDiffer, Zenon
  <2>5. b \in Seq(Byte) /\ Base64Encode(b) \in Seq(Symbol)
        /\ f.body \in {Base64Encode(b), Padded(Base64Encode(b))}
    BY <2>3, <2>4, Zenon DEF IsTextOf
  <2>6. g.body = Base64Encode(b)
    BY <1>9, <2>5, NoValues, Zenon DEF BodyToText
  <2>7. Pad \notin Chars(Base64Encode(b))
    <3>1. PICK s \in Seq(Symbol) : s = Base64Encode(b)
      BY <2>5, Zenon
    <3>2. DOMAIN s = 1 .. Len(s) /\ \A i \in 1 .. Len(s) : s[i] \in Symbol
      BY SeqIsFunction, Zenon
    <3>3. Chars(s) \subseteq Symbol
      BY <3>2, Zenon DEF Chars
    <3> QED
      BY <3>1, <3>3, CodecAssumption, Zenon
  <2> QED
    BY <1>9, <1>11, <2>5, <2>6, <2>7, Zenon
<1> QED
  BY <1>9, <1>10, <1>11, Zenon

-----------------------------------------------------------------------------
(* An event's key meets the subscription of its variant and no other.      *)
LEMMA KeyReaches ==
  ASSUME NEW e \in Keyed
  PROVE  {s \in Subscription : Intersects(s, key_for(e.kind, HexEncode(e.peer), e.name))}
           = IF HasVerbatim(e.name) THEN {} ELSE SubscriptionOf(e.kind)
<1>0. PICK key, p : p = HexEncode(e.peer) /\ key = key_for(e.kind, p, e.name)
  BY Zenon
<1> DEFINE met == {s \in Subscription : Intersects(s, key)}
<1> SUFFICES met = IF HasVerbatim(e.name) THEN {} ELSE SubscriptionOf(e.kind)
  BY <1>0, Zenon
<1> HIDE DEF met
<1>1. ASSUME NEW c, e.name = None, key = ROOT \o <<Hex(p)>> \o <<Lit(c)>>
      PROVE  MeetsByWord(key, c, <<>>) /\ ~HasVerbatim(e.name)
  BY <1>1, NoRest, KeyMeets, Zenon DEF HasVerbatim
<1>2. ASSUME NEW c, e.name \in Name, key = ROOT \o <<Hex(p)>> \o (<<Lit(c)>> \o e.name)
      PROVE  MeetsByWord(key, c, e.name) /\ (HasVerbatim(e.name) <=> ~Plain(e.name))
  <2>1. PICK S : e.name \in Seq(S)
    BY <1>2, EnvelopeAssumption, Zenon
  <2>2. DOMAIN e.name = 1 .. Len(e.name)
    BY <2>1
  <2>3. e.name # None
    BY <1>2, EnvelopeAssumption, Zenon
  <2>4. HasVerbatim(e.name) <=> ~Plain(e.name)
    BY <2>2, <2>3, Zenon DEF HasVerbatim, Plain
  <2> QED
    BY <1>2, <2>1, <2>4, KeyMeets, Zenon
<1>3. CASE e.kind = "heartbeat" /\ e.name = None
  <2>0. key = ROOT \o <<Hex(p)>> \o <<Lit("heartbeat")>>
    BY <1>0, <1>3 DEF key_for
  <2>1. MeetsByWord(key, "heartbeat", <<>>) /\ ~HasVerbatim(e.name)
    BY <1>1, <1>3, <2>0, Zenon
  <2>2. met = {SUB_ALL_HEARTBEATS}
    BY <2>1, NoRest DEF met, Subscription, MeetsByWord
  <2>3. SubscriptionOf(e.kind) = {SUB_ALL_HEARTBEATS}
    BY <1>3 DEF SubscriptionOf
  <2> QED
    BY <2>1, <2>2, <2>3, Zenon
<1>4. CASE e.kind = "model-announce" /\ e.name \in Name
  <2>0. key = ROOT \o <<Hex(p)>> \o (<<Lit("model")>> \o e.name)
    BY <1>0, <1>4 DEF key_for
  <2>1. MeetsByWord(key, "model", e.name) /\ (HasVerbatim(e.name) <=> ~Plain(e.name))
    BY <1>2, <1>4, <2>0, Zenon
  <2>2. met = IF Plain(e.name) THEN {SUB_ALL_MODELS} ELSE {}
    BY <2>1 DEF met, Subscription, MeetsByWord
  <2>3. SubscriptionOf(e.kind) = {SUB_ALL_MODELS}
    BY <1>4 DEF SubscriptionOf
  <2> QED
    BY <2>1, <2>2, <2>3, Zenon
<1>5. CASE e.kind = "agent-state" /\ e.name \in Name
  <2>0. key = ROOT \o <<Hex(p)>> \o (<<Lit("agent")>> \o e.name)
    BY <1>0, <1>5 DEF key_for
  <2>1. MeetsByWord(key, "agent", e.name) /\ (HasVerbatim(e.name) <=> ~Plain(e.name))
    BY <1>2, <1>5, <2>0, Zenon
  <2>2. met = IF Plain(e.name) THEN {SUB_ALL_AGENT_STATE} ELSE {}
    BY <2>1 DEF met, Subscription, MeetsByWord
  <2>3. SubscriptionOf(e.kind) = {SUB_ALL_AGENT_STATE}
    BY <1>5 DEF SubscriptionOf
  <2> QED
    BY <2>1, <2>2, <2>3, Zenon
<1>6. CASE e.kind \in {"work-offer", "work-result"} /\ e.name = None
  <2>0. key = ROOT \o <<Hex(p)>> \o <<Lit(e.kind)>>
    BY <1>0, <1>6 DEF key_for
  <2>1. PICK c \in {"work-offer", "work-result"} :
          MeetsByWord(key, c, <<>>) /\ ~HasVerbatim(e.name)
    BY <1>1, <1>6, <2>0, Zenon
  <2>2. met = {}
    BY <2>1 DEF met, Subscription, MeetsByWord
  <2>3. SubscriptionOf(e.kind) = {}
    BY <1>6 DEF SubscriptionOf
  <2> QED
    BY <2>1, <2>2, <2>3, Zenon
<1>7. \/ e.kind = "heartbeat" /\ e.name = None
      \/ e.kind = "model-announce" /\ e.name \in Name
      \/ e.kind = "agent-state" /\ e.name \in Name
      \/ e.kind \in {"work-offer", "work-result"} /\ e.name = None
  BY DEF Keyed, Heartbeat, Named
<1> QED
  BY <1>3, <1>4, <1>5, <1>6, <1>7, Zenon

-----------------------------------------------------------------------------
(* The inductive invariant: what is on its way is the frame of the event,  *)
(* or a frame of another implementation, and does not change; whatever a   *)
(* receiver has got, and passed on, was made of that frame.                *)
EnvelopeInv ==
  /\ DOMAIN got = Receiver
  /\ sent \in {"idle", "never"} =>
       event = None /\ inbox = {} /\ \A r \in Receiver : got[r] = None
  /\ sent # "put" => relay = None
  /\ event # None => event \in Event /\ frame \in {Encode("json", event), Encode("cbor", event)}
  /\ event = None /\ sent = "put" => frame \in Foreign
  /\ sent = "refused" => event # None
  /\ inbox # {} => sent = "put"
  /\ \A r \in Receiver : got[r] # None => sent = "put" /\ got[r] = Decode(frame)
  /\ relay # None => IsOk(Decode(frame)) /\ relay = Encode(frame.format, Decode(frame))
  /\ typed # None => typed \in IdText /\ parsed = FromHex(typed)

(* Nothing is sent at first.                                               *)
LEMMA EnvelopeInit == Init => EnvelopeInv
<1>1. ASSUME NEW r \in Receiver PROVE [x \in Receiver |-> None][r] = None
  BY Zenon
<1> QED
  BY <1>1, Zenon DEF Init, EnvelopeInv

(* Publish, SendCbor, SendForeign and ParsePeer.                           *)
LEMMA EnvelopeSend ==
  ASSUME EnvelopeInv, sent = "idle", Send
  PROVE  EnvelopeInv'
<1> USE DEF EnvelopeInv
<1>1. /\ event = None /\ inbox = {} /\ relay = None
      /\ DOMAIN got = Receiver /\ \A r \in Receiver : got[r] = None
  BY Zenon
<1>2. /\ "idle" # "put" /\ "never" # "put" /\ "refused" # "put"
      /\ "never" # "refused" /\ "put" # "refused"
      /\ "put" \notin {"idle", "never"} /\ "refused" \notin {"idle", "never"}
  BY Zenon
<1>3. \A e \in Event : e # None
  BY EnvelopeAssumption, Zenon
<1>4. \A e \in Keyed : e \in Event
  BY DEF Event
<1> HIDE DEF EnvelopeInv
<1>5. ASSUME NEW text \in IdText, ParsePeer(text) PROVE EnvelopeInv'
  <2>1. /\ sent' = "never" /\ typed' = text /\ parsed' = FromHex(text)
        /\ event' = event /\ frame' = frame /\ inbox' = inbox /\ got' = got /\ relay' = relay
    BY <1>5, Zenon DEF ParsePeer
  <2> QED
    BY <1>1, <1>2, <2>1, Zenon DEF EnvelopeInv
<1>6. ASSUME NEW e \in Event, NEW format \in {"json", "cbor"}, sent' \in {"put", "refused"},
             sent' = "refused" => inbox' = inbox,
             event' = e, frame' = Encode(format, e),
             got' = got, relay' = relay, typed' = typed, parsed' = parsed
      PROVE  EnvelopeInv'
  <2>1. typed # None => typed \in IdText /\ parsed = FromHex(typed)
    BY Zenon DEF EnvelopeInv
  <2>2. event' # None
    BY <1>3, <1>6, Zenon
  <2>3. frame' \in {Encode("json", event'), Encode("cbor", event')}
    BY <1>6, Zenon
  <2> QED
    BY <1>1, <1>2, <1>6, <2>1, <2>2, <2>3, Zenon DEF EnvelopeInv
<1>7. ASSUME NEW e \in Keyed, Publish(e) PROVE EnvelopeInv'
  <2>1. e \in Event /\ "json" \in {"json", "cbor"}
    BY <1>4, Zenon
  <2>2. /\ event' = e /\ frame' = Encode("json", e)
        /\ sent' = "put" \/ (sent' = "refused" /\ inbox' = inbox)
        /\ got' = got /\ relay' = relay /\ typed' = typed /\ parsed' = parsed
    BY <1>7, Zenon DEF Publish
  <2> QED
    BY <1>2, <1>6, <2>1, <2>2, Zenon
<1>8. ASSUME NEW e \in Event, SendCbor(e) PROVE EnvelopeInv'
  <2>1. "cbor" \in {"json", "cbor"}
    BY Zenon
  <2>2. /\ event' = e /\ frame' = Encode("cbor", e) /\ sent' = "put"
        /\ got' = got /\ relay' = relay /\ typed' = typed /\ parsed' = parsed
    BY <1>8, Zenon DEF SendCbor
  <2> QED
    BY <1>2, <1>6, <2>1, <2>2, Zenon
<1>9. ASSUME NEW f \in Foreign, SendForeign(f) PROVE EnvelopeInv'
  <2>1. /\ frame' = f /\ sent' = "put" /\ event' = event
        /\ got' = got /\ relay' = relay /\ typed' = typed /\ parsed' = parsed
    BY <1>9, Zenon DEF SendForeign
  <2>2. typed # None => typed \in IdText /\ parsed = FromHex(typed)
    BY Zenon DEF EnvelopeInv
  <2> QED
    BY <1>1, <1>2, <1>9, <2>1, <2>2, Zenon DEF EnvelopeInv
<1> QED
  BY <1>5, <1>7, <1>8, <1>9, Zenon DEF Send

(* Every step keeps the invariant.                                         *)
LEMMA EnvelopeStep ==
  ASSUME EnvelopeInv, [Next]_vars
  PROVE  EnvelopeInv'
<1>1. ASSUME NEW r \in Receiver, Receive(r) PROVE EnvelopeInv'
  <2>1. /\ r \in inbox /\ inbox' \subseteq inbox /\ got' = [got EXCEPT ![r] = Decode(frame)]
        /\ event' = event /\ frame' = frame /\ sent' = sent /\ relay' = relay
        /\ typed' = typed /\ parsed' = parsed
    BY <1>1, Zenon DEF Receive
  <2>2. sent = "put" /\ "put" \notin {"idle", "never"}
    <3>1. sent = "put"
      BY <2>1, Zenon DEF EnvelopeInv
    <3> QED
      BY <3>1, Zenon
  <2>3. DOMAIN got' = Receiver
    BY <2>1, Zenon DEF EnvelopeInv
  <2>4. ASSUME NEW q \in Receiver, got'[q] # None PROVE got'[q] = Decode(frame)
    BY <2>1, <2>4, Zenon DEF EnvelopeInv
  <2> QED
    BY <2>1, <2>2, <2>3, <2>4, Zenon DEF EnvelopeInv
<1>2. ASSUME NEW r \in Receiver, PassOn(r) PROVE EnvelopeInv'
  <2>1. /\ got[r] # None /\ got[r] # Malformed /\ relay' = Encode(frame.format, got[r])
        /\ event' = event /\ frame' = frame /\ sent' = sent /\ inbox' = inbox /\ got' = got
        /\ typed' = typed /\ parsed' = parsed
    BY <1>2, Zenon DEF PassOn
  <2>2. sent = "put" /\ got[r] = Decode(frame)
    BY <2>1, Zenon DEF EnvelopeInv
  <2>3. IsOk(Decode(frame)) /\ relay' = Encode(frame.format, Decode(frame))
    BY <2>1, <2>2, Zenon DEF IsOk
  <2> QED
    BY <2>1, <2>2, <2>3, Zenon DEF EnvelopeInv
<1>3. ASSUME UNCHANGED vars PROVE EnvelopeInv'
  <2>1. /\ event' = event /\ frame' = frame /\ sent' = sent /\ inbox' = inbox /\ got' = got
        /\ relay' = relay /\ typed' = typed /\ parsed' = parsed
    BY <1>3, Zenon DEF vars
  <2> QED
    BY <2>1, Zenon DEF EnvelopeInv
<1> QED
  BY <1>1, <1>2, <1>3, EnvelopeSend, Zenon DEF Next

(* The invariant holds throughout.                                         *)
LEMMA EnvelopeInvariant == Spec => []EnvelopeInv
  BY EnvelopeInit, EnvelopeStep, PTL DEF Spec

-----------------------------------------------------------------------------
(* What publish reaches is what its key met, wherever the sample is by     *)
(* now.                                                                    *)
Met(e) == {s \in Subscription : Intersects(s, key_for(e.kind, HexEncode(e.peer), e.name))}

DeliveryInv ==
  sent = "put" /\ event # None /\ frame.format = "json" => event \in Keyed /\ Reached = Met(event)

(* An event that is sent waits where its key meets.                        *)
LEMMA DeliverySend ==
  ASSUME EnvelopeInv, sent = "idle", Send
  PROVE  DeliveryInv'
<1>1. event = None /\ \A r \in Receiver : got[r] = None
  BY Zenon DEF EnvelopeInv
<1>2. "never" # "put" /\ "refused" # "put" /\ "cbor" # "json"
  BY Zenon
<1>3. ASSUME NEW text \in IdText, ParsePeer(text) PROVE DeliveryInv'
  BY <1>2, <1>3, Zenon DEF ParsePeer, DeliveryInv
<1>4. ASSUME NEW e \in Keyed, Publish(e) PROVE DeliveryInv'
  <2>1. event' = e /\ got' = got /\ (sent' = "put" => inbox' = Met(e))
    BY <1>2, <1>4, Zenon DEF Publish, Met
  <2>2. Reached' = inbox'
    BY <1>1, <2>1, Zenon DEF Reached
  <2>3. sent' = "put" => Reached' = Met(event')
    BY <2>1, <2>2, Zenon
  <2> QED
    BY <1>4, <2>1, <2>3, Zenon DEF DeliveryInv
<1>5. ASSUME NEW e \in Event, SendCbor(e) PROVE DeliveryInv'
  <2>1. frame'.format = "cbor"
    BY <1>5 DEF SendCbor, Encode
  <2> QED
    BY <1>2, <2>1, Zenon DEF DeliveryInv
<1>6. ASSUME NEW f \in Foreign, SendForeign(f) PROVE DeliveryInv'
  BY <1>1, <1>6, Zenon DEF SendForeign, DeliveryInv
<1> QED
  BY <1>3, <1>4, <1>5, <1>6, Zenon DEF Send

(* What waits somewhere or has arrived there stays the same set.           *)
LEMMA DeliveryStep ==
  ASSUME EnvelopeInv, DeliveryInv, [Next]_vars
  PROVE  DeliveryInv'
<1>1. ASSUME NEW r \in Receiver, Receive(r) PROVE DeliveryInv'
  <2>1. /\ r \in inbox /\ inbox' = inbox \ {r} /\ got' = [got EXCEPT ![r] = Decode(frame)]
        /\ event' = event /\ frame' = frame /\ sent' = sent
    BY <1>1, Zenon DEF Receive
  <2>2. SUFFICES ASSUME sent = "put", event # None, frame.format = "json"
                 PROVE  Reached' = Reached
    BY <2>1, Zenon DEF DeliveryInv
  <2>3. Decode(frame) # None
    <3>1. PICK format : event \in Event /\ frame = Encode(format, event)
      BY <2>2, Zenon DEF EnvelopeInv
    <3>2. Decode(frame) = IF frame.number = Null THEN Malformed ELSE event
      BY <3>1, EventFrame, Zenon
    <3> QED
      BY <2>2, <3>2, EnvelopeAssumption, Zenon
  <2>4. DOMAIN got = Receiver
    BY Zenon DEF EnvelopeInv
  <2>5. ASSUME NEW q \in Receiver PROVE got'[q] # None <=> got[q] # None \/ q = r
    BY <2>1, <2>3, <2>4, Zenon
  <2>6. ASSUME NEW q PROVE q \in Reached' <=> q \in Reached
    <3>1. CASE q = r
      BY <1>1, <2>1, <2>5, <3>1, Zenon DEF Reached
    <3>2. CASE q # r
      BY <2>1, <2>5, <3>2, Zenon DEF Reached
    <3> QED
      BY <3>1, <3>2, Zenon
  <2> QED
    BY <2>6, Zenon
<1>2. ASSUME NEW r \in Receiver, PassOn(r) PROVE DeliveryInv'
  <2>1. event' = event /\ frame' = frame /\ sent' = sent /\ inbox' = inbox /\ got' = got
    BY <1>2, Zenon DEF PassOn
  <2> QED
    BY <2>1, Zenon DEF DeliveryInv, Reached
<1>3. ASSUME UNCHANGED vars PROVE DeliveryInv'
  <2>1. event' = event /\ frame' = frame /\ sent' = sent /\ inbox' = inbox /\ got' = got
    BY <1>3, Zenon DEF vars
  <2> QED
    BY <2>1, Zenon DEF DeliveryInv, Reached
<1> QED
  BY <1>1, <1>2, <1>3, DeliverySend, Zenon DEF Next

-----------------------------------------------------------------------------
(* An event arrives as the event that was sent, in JSON and in CBOR, or,   *)
(* if JSON has no text for its number, as an error: Transport::publish and *)
(* subscribe, cbor::to_vec and from_slice.                                 *)
THEOREM EnvelopeArrivesIntact == Spec => []ArrivesIntact
<1>1. ASSUME EnvelopeInv PROVE ArrivesIntact
  <2>1. SUFFICES ASSUME NEW r \in Receiver, event # None, got[r] # None
                 PROVE  got[r] = IF frame.number = Null THEN Malformed ELSE event
    BY Zenon DEF ArrivesIntact
  <2>2. /\ event \in Event /\ frame \in {Encode("json", event), Encode("cbor", event)}
        /\ got[r] = Decode(frame)
    BY <1>1, <2>1, Zenon DEF EnvelopeInv
  <2>3. PICK format : frame = Encode(format, event)
    BY <2>2, Zenon
  <2>4. Decode(frame) = IF frame.number = Null THEN Malformed ELSE event
    BY <2>2, <2>3, EventFrame, Zenon
  <2> QED
    BY <2>2, <2>4, Zenon
<1> QED
  BY <1>1, EnvelopeInvariant, PTL

(* A frame of another implementation is decoded exactly if its PeerId is   *)
(* the canonical text of one, and its bytes are in their canonical text,   *)
(* with or without padding: hex_array and base64url_bytes_bytes.           *)
THEOREM EnvelopeAcceptsExactly == Spec => []AcceptsExactly
<1>1. ASSUME EnvelopeInv PROVE AcceptsExactly
  <2>1. SUFFICES ASSUME NEW r \in Receiver, event = None, got[r] # None
                 PROVE  IsOk(got[r]) <=> Understood(frame)
    BY Zenon DEF AcceptsExactly
  <2>2. frame \in Foreign /\ got[r] = Decode(frame)
    BY <1>1, <2>1, Zenon DEF EnvelopeInv
  <2> QED
    BY <2>2, ForeignDecoded, Zenon
<1> QED
  BY <1>1, EnvelopeInvariant, PTL

(* What a receiver passes on is the text it got, but for padding and null: *)
(* decoding and encoding again loses and adds nothing.                     *)
THEOREM EnvelopeRelayIsStable == Spec => []RelayIsStable
<1>1. ASSUME EnvelopeInv PROVE RelayIsStable
  <2>1. SUFFICES ASSUME relay # None
                 PROVE  /\ relay = [frame EXCEPT !.body = relay.body]
                        /\ IF frame.body \in {None, Null} THEN relay.body = None
                           ELSE /\ frame.body \in {relay.body, Padded(relay.body)}
                                /\ Pad \notin Chars(relay.body)
    BY Zenon DEF RelayIsStable
  <2>2. /\ sent = "put" /\ IsOk(Decode(frame))
        /\ relay = Encode(frame.format, Decode(frame))
    BY <1>1, <2>1, Zenon DEF EnvelopeInv
  <2>3. WellFormed(frame)
    <3>1. CASE event = None
      BY <1>1, <2>2, <3>1, ForeignFrame, Zenon DEF EnvelopeInv
    <3>2. CASE event # None
      BY <1>1, <3>2, EventFrame, Zenon DEF EnvelopeInv
    <3> QED
      BY <3>1, <3>2, Zenon
  <2> QED
    BY <2>2, <2>3, RelayedFrame, Zenon
<1> QED
  BY <1>1, EnvelopeInvariant, PTL

(* PeerId::from_hex gives a peer's id for that peer's text in letters of   *)
(* either case, and for no other text.                                     *)
THEOREM EnvelopeSameAddress == Spec => []SameAddress
<1>1. ASSUME EnvelopeInv PROVE SameAddress
  <2>1. SUFFICES ASSUME typed # None, NEW p \in [1 .. IdLen -> Byte]
                 PROVE  parsed = Decoded(p) <=> Lower(typed) = HexEncode(p)
    BY Zenon DEF SameAddress
  <2>2. typed \in Seq(HexChar \cup {Junk}) /\ parsed = FromHex(typed)
    BY <1>1, <2>1, EnvelopeAssumption, Zenon DEF EnvelopeInv
  <2> QED
    BY <2>2, FromHexIffLower, Zenon
<1> QED
  BY <1>1, EnvelopeInvariant, PTL

(* A published event reaches the wildcard subscription of its variant and  *)
(* no other, for every name of any number of chunks: key_for, the SUB_ALL  *)
(* wildcards and Zenoh's matching.                                         *)
THEOREM EnvelopeReachesItsKind == Spec => []ReachesItsKind
<1>1. Init => DeliveryInv
  <2>1. "idle" # "put"
    BY Zenon
  <2> QED
    BY <2>1, Zenon DEF Init, DeliveryInv
<1>2. EnvelopeInv /\ DeliveryInv /\ [Next]_vars => DeliveryInv'
  BY DeliveryStep
<1>3. ASSUME DeliveryInv PROVE ReachesItsKind
  BY <1>3, KeyReaches, Zenon DEF DeliveryInv, ReachesItsKind, Met
<1> QED
  BY <1>1, <1>2, <1>3, EnvelopeInvariant, PTL DEF Spec
=============================================================================
