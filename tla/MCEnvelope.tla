----------------------------- MODULE MCEnvelope -----------------------------
(* Envelope with bytes of 4 bits: hex digits 0, 1, a and b, and eight      *)
(* base64 symbols.                                                         *)
EXTENDS Envelope

MCPeer == {<<0>>, <<6>>, <<15>>}

MCName ==
  { <<Lit("a")>>, <<Lit("a"), Lit("heartbeat")>>, <<Empty>>, <<Lit("a"), Empty>>,
    <<Star>>, <<DoubleStar>>, <<DoubleStar, Star>>, <<Lit("a"), Verbatim("b")>>,
    <<Broken("a")>>, <<Partly("a$*"), Lit("a")>> }

Texts(chars, n) == UNION {[1 .. k -> chars] : k \in 0 .. n}

MCBody == Texts({0, 1, 6, 15}, 4)

(* All texts of up to one byte more than a PeerId has.                     *)
MCIdText == Texts(HexChar \cup {Junk}, 2 * IdLen + 2)

(* All texts of up to four characters, and the shorter ones after a group. *)
MCBodyText ==
  LET chars == Symbol \cup {Pad, Junk} IN
  Texts(chars, 4) \cup {<<5, 2, 7, 1>> \o t : t \in Texts(chars, 3)}
=============================================================================
