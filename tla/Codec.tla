------------------------------- MODULE Codec -------------------------------
(* The text forms of bytes: core's wire::hex_array and                     *)
(* wire::base64url_bytes_bytes, and PeerId::from_hex and to_hex.           *)
(*                                                                         *)
(* A byte has ByteBits bits, a hex digit half of them, and a base64 symbol *)
(* three quarters of them: the proportions of 8, 4 and 6. A hex character  *)
(* is a digit with its case; digits below Ten have only one.               *)
EXTENDS Naturals, Sequences

CONSTANTS
  ByteBits,  \* bits of a byte (8), a multiple of 4
  Ten,       \* the first hex digit that is a letter (10)
  IdLen,     \* bytes of a PeerId (32)
  Pad,       \* the character '='
  Junk       \* a character of neither alphabet

SymbolBits == 3 * (ByteBits \div 4)
Base == 2 ^ (ByteBits \div 2)

Byte == 0 .. 2 ^ ByteBits - 1
Symbol == 0 .. 2 ^ SymbolBits - 1
HexChar == {c \in [digit : 0 .. Base - 1, upper : BOOLEAN] : c.upper => c.digit >= Ten}

ASSUME CodecAssumption ==
  /\ ByteBits \in {4 * n : n \in 1 .. 2}
  /\ IdLen \in Nat \ {0} /\ Ten \in Nat
  /\ Pad \notin Symbol

Malformed == [error |-> "malformed"]
Decoded(bytes) == [ok |-> bytes]
IsOk(result) == result # Malformed

Chars(text) == {text[i] : i \in DOMAIN text}

-----------------------------------------------------------------------------
(* hex::encode: two lower-case digits for each byte, the high one first.   *)
HexEncode(bytes) ==
  [i \in 1 .. 2 * Len(bytes) |->
     LET byte == bytes[(i + 1) \div 2] IN
     [digit |-> IF i % 2 = 1 THEN byte \div Base ELSE byte % Base, upper |-> FALSE]]

(* hex::decode: either case.                                               *)
HexDecode(text) ==
  IF Len(text) % 2 = 0 /\ Chars(text) \subseteq HexChar
  THEN Decoded([i \in 1 .. Len(text) \div 2 |->
                  text[2 * i - 1].digit * Base + text[2 * i].digit])
  ELSE Malformed

(* Mutant: either case is accepted on the wire.                            *)
HexArrayAnyCase(text) ==
  IF Len(text) # 2 * IdLen THEN Malformed ELSE HexDecode(text)

(* hex_array::deserialize.                                                 *)
HexArrayDeserialize(text) ==
  IF \/ Len(text) # 2 * IdLen
     \/ \E c \in Chars(text) \cap HexChar : c.upper
  THEN Malformed
  ELSE HexDecode(text)

(* Mutant: bytes after the first IdLen are ignored.                        *)
FromHexPrefix(text) ==
  IF IsOk(HexDecode(text)) /\ Len(text) >= 2 * IdLen
  THEN Decoded(SubSeq(HexDecode(text).ok, 1, IdLen))
  ELSE Malformed

(* PeerId::from_hex; its two errors are one here.                          *)
FromHex(text) ==
  IF IsOk(HexDecode(text)) /\ Len(HexDecode(text).ok) = IdLen
  THEN HexDecode(text)
  ELSE Malformed

-----------------------------------------------------------------------------
(* Number i, from 0, of a sequence; 0 past its end.                        *)
At(s, i) == IF i < Len(s) THEN s[i + 1] ELSE 0

(* The bits of s, a sequence of v-bit numbers, as n numbers of w bits.     *)
(* With the widths used here, each lies within two neighbours of s.        *)
Repack(s, v, w, n) ==
  [i \in 1 .. n |->
     LET start == w * (i - 1)
         first == start \div v
         both == At(s, first) * 2 ^ v + At(s, first + 1)
     IN (both \div 2 ^ (2 * v - (start % v) - w)) % 2 ^ w]

(* URL_SAFE_NO_PAD.encode: symbols for all bits, the last filled with 0s.  *)
Base64Encode(bytes) ==
  Repack(bytes, ByteBits, SymbolBits,
         (ByteBits * Len(bytes) + SymbolBits - 1) \div SymbolBits)

(* The form that other implementations may send: a multiple of 4 long.     *)
Padded(symbols) == symbols \o [i \in 1 .. (4 - (Len(symbols) % 4)) % 4 |-> Pad]

(* Decoding of symbols without padding: no symbol may be left over, and    *)
(* the bits that are must be 0.                                            *)
SymbolsDecode(s) ==
  LET n == (SymbolBits * Len(s)) \div ByteBits
      left == SymbolBits * Len(s) - ByteBits * n
  IN IF /\ Chars(s) \subseteq Symbol
        /\ Len(s) % 4 # 1
        /\ s # <<>> => s[Len(s)] % 2 ^ left = 0
     THEN Decoded(Repack(s, SymbolBits, ByteBits, n))
     ELSE Malformed

(* URL_SAFE.decode: the padding must be there, and be what it should.      *)
PaddedDecode(text) ==
  LET Symbols(n) == SubSeq(text, 1, n)
      good == {n \in 0 .. Len(text) :
                 text = Padded(Symbols(n)) /\ IsOk(SymbolsDecode(Symbols(n)))}
  IN IF good = {} THEN Malformed ELSE SymbolsDecode(Symbols(CHOOSE n \in good : TRUE))

(* Mutant: only the canonical form is understood.                          *)
Base64UnpaddedOnly(text) == SymbolsDecode(text)

(* base64url_bytes_bytes::deserialize: without padding, or else with.      *)
Base64Deserialize(text) ==
  IF IsOk(SymbolsDecode(text)) THEN SymbolsDecode(text) ELSE PaddedDecode(text)

-----------------------------------------------------------------------------
(* Reference definitions. The texts of PeerIds; the texts of up to three   *)
(* bytes; and a text of bytes, canonical if each of its groups of four is, *)
(* with or without padding.                                                *)
IdTexts == {HexEncode(p) : p \in [1 .. IdLen -> Byte]}
GroupTexts == {Base64Encode(b) : b \in UNION {[1 .. n -> Byte] : n \in 0 .. 3}}
Group(s, i) == SubSeq(s, 4 * i + 1, IF 4 * i + 4 < Len(s) THEN 4 * i + 4 ELSE Len(s))
Canonical(s) == \A i \in 0 .. Len(s) \div 4 : Group(s, i) \in GroupTexts
BodyTextOf(text, s) == text \in {s, Padded(s)} /\ Canonical(s)

(* A text with its hex letters in lower case.                              *)
Lower(text) ==
  [i \in DOMAIN text |->
     IF text[i] \in HexChar THEN [digit |-> text[i].digit, upper |-> FALSE]
     ELSE text[i]]
=============================================================================
