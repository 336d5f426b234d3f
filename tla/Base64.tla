-------------------------------- MODULE Base64 --------------------------------
(***************************************************************************)
(* FBase64 and the utilities that encode the name of a file but for its    *)
(* extension.  Characters are their codes; three bytes become four         *)
(* characters of six bits each.  A source of bytes is encoded as it grows. *)
(***************************************************************************)
EXTENDS Integers, Sequences, FiniteSets

CONSTANTS SourceByte,   \* of the sources
          MaxSource     \* bound: bytes of a source

VARIABLE source   \* the bytes that are encoded

ASSUME BytesAreBytes == SourceByte \subseteq 0..255
ASSUME LengthIsNumber == MaxSource \in Nat

Padding == 61
Dot == 46
Unknown == 255

\* A-Z, a-z, 0-9, + and /.
EncodingAlphabet ==
  [v \in 0..63 |-> IF v < 26 THEN 65 + v
                   ELSE IF v < 52 THEN 97 + v - 26
                   ELSE IF v < 62 THEN 48 + v - 52
                   ELSE IF v = 62 THEN 43 ELSE 47]

\* The padding counts as 0.  (A character above 127 would be looked up in front of the table.)
DecodingAlphabet ==
  [c \in 0..127 |-> IF c = Padding THEN 0
                    ELSE IF \E v \in 0..63 : EncodingAlphabet[v] = c
                    THEN CHOOSE v \in 0..63 : EncodingAlphabet[v] = c
                    ELSE Unknown]

-----------------------------------------------------------------------------
(* Encoding.                                                               *)

Triplet(a, b, c) == (a * 256 + b) * 256 + c
Shift == <<262144, 4096, 64, 1>>
Character(triplet, k) == EncodingAlphabet[(triplet \div Shift[k]) % 64]

EncodeThree(bytes) == LET t == Triplet(bytes[1], bytes[2], bytes[3]) IN [k \in 1..4 |-> Character(t, k)]

\* Fault: one character of padding, however many bytes are left.
EncodeLastPadsOne(bytes) ==
  LET t == Triplet(bytes[1], IF Len(bytes) = 2 THEN bytes[2] ELSE 0, 0)
  IN  [k \in 1..4 |-> IF k = 4 THEN Padding ELSE Character(t, k)]

\* One byte is left, or two.
EncodeLast(bytes) ==
  LET t == Triplet(bytes[1], IF Len(bytes) = 2 THEN bytes[2] ELSE 0, 0)
  IN  [k \in 1..4 |-> IF k = 4 \/ (k = 3 /\ Len(bytes) = 1) THEN Padding ELSE Character(t, k)]

\* FString::Empty: the characters that were to be reserved are there, as noughts.
Empty(n) == [i \in 1..n |-> 0]
ExpectedLength(n) == 4 * ((n + 2) \div 3)

\* What the loop appends: three bytes at a time, and what is left.
EncodedText(bytes) ==
  LET Four(g) == IF 3 * g <= Len(bytes) THEN EncodeThree(SubSeq(bytes, 3 * g - 2, 3 * g))
                 ELSE EncodeLast(SubSeq(bytes, 3 * g - 2, Len(bytes)))
  IN  [i \in 1..ExpectedLength(Len(bytes)) |-> Four((i - 1) \div 4 + 1)[((i - 1) % 4) + 1]]

\* It is appended to the emptied buffer: as many noughts stand before it.
Encode(bytes) == Empty(ExpectedLength(Len(bytes))) \o EncodedText(bytes)

-----------------------------------------------------------------------------
(* Decoding.                                                               *)

Refusal == [ok |-> FALSE, bytes |-> <<>>, pads |-> 0]

DecodeFour(chars) ==
  LET v == [k \in 1..4 |-> DecodingAlphabet[chars[k]]]
      t == ((v[1] * 64 + v[2]) * 64 + v[3]) * 64 + v[4]
  IN  <<t \div 65536, (t \div 256) % 256, t % 256>>
Pads(chars) == Cardinality({i \in DOMAIN chars : chars[i] = Padding})

\* The inner Decode, four characters at a time; a text of a wrong length does not come to it.
\* (A nought ends the conversion of the characters, but is among them, and it is refused: what
\* lies behind it is never looked at.)
DecodeGroups(chars) ==
  LET Three(g) == DecodeFour(SubSeq(chars, 4 * g - 3, 4 * g))
  IN  IF \E i \in DOMAIN chars : DecodingAlphabet[chars[i]] = Unknown THEN Refusal
      ELSE [ok |-> TRUE, pads |-> Pads(chars),
            bytes |-> [i \in 1..(3 * (Len(chars) \div 4)) |-> Three((i - 1) \div 3 + 1)[((i - 1) % 3) + 1]]]

\* Into an array: the bytes that the padding stands for are removed.
DecodeArray(chars) ==
  IF Len(chars) % 4 # 0 THEN Refusal
  ELSE LET d == DecodeGroups(chars)
       IN  [d EXCEPT !.bytes = SubSeq(@, 1, Len(@) - d.pads)]

\* Into a text: it ends at the first nought, and one is put where the padding begins.
LengthOf(text) ==
  CHOOSE n \in 0..Len(text) : (\A i \in 1..n : text[i] # 0) /\ (n < Len(text) => text[n + 1] = 0)
UpToNought(text) == SubSeq(text, 1, LengthOf(text))
DecodeText(chars) ==
  IF Len(chars) % 4 # 0 THEN Refusal
  ELSE LET d == DecodeGroups(chars)
       IN  IF ~d.ok \/ d.pads = 0 THEN [d EXCEPT !.bytes = UpToNought(@)]
           ELSE [d EXCEPT !.bytes = UpToNought([@ EXCEPT ![Len(@) - d.pads + 1] = 0])]

-----------------------------------------------------------------------------
(* Names of files.                                                         *)

\* The last dot divides a name when there is something before it and behind it.
HasDot(name) == \E i \in DOMAIN name : name[i] = Dot
LastDot(name) ==
  CHOOSE i \in DOMAIN name : name[i] = Dot /\ \A j \in DOMAIN name : j > i => name[j] # Dot
HasExtension(name) == HasDot(name) /\ LastDot(name) \in 2..(Len(name) - 1)
Stem(name) == SubSeq(name, 1, LastDot(name) - 1)
Extension(name) == SubSeq(name, LastDot(name), Len(name))

EncodeExceptExtension(name) ==
  IF HasExtension(name) THEN Encode(Stem(name)) \o Extension(name) ELSE Encode(name)

DecodeExceptExtension(name) ==
  IF ~HasExtension(name) THEN DecodeText(name)
  ELSE LET d == DecodeText(Stem(name))
       IN  IF d.ok THEN [d EXCEPT !.bytes = @ \o Extension(name)] ELSE d

-----------------------------------------------------------------------------
(* Sources.                                                                *)

SourceInit == source = <<>>
Extend == Len(source) < MaxSource /\ \E byte \in SourceByte : source' = Append(source, byte)
SourceSpec == SourceInit /\ [][Extend]_source

-----------------------------------------------------------------------------
(* What is promised.                                                       *)

Same(d, bytes) == d.ok /\ d.bytes = bytes

\* Characters that are a byte of their own in every locale.
IsText(bytes) == \A i \in DOMAIN bytes : bytes[i] \in 1..127

\* The name of a file as a sender without those noughts encodes it.
EncodedName(name) ==
  IF HasExtension(name) THEN EncodedText(Stem(name)) \o Extension(name) ELSE EncodedText(name)

\* The text that Encode puts behind its noughts is decoded to the same bytes, and to the same
\* text when they were one; so is the name of a file encoded that way, wherever its dots are;
\* and a text that lacks a character or holds one that is not of the alphabet is refused.
\* What Encode itself returns, with its noughts, is refused by every Decode, unless it is empty:
\* nothing that this program encodes does it decode.
OnlyTheTextIsDecoded ==
  LET text == EncodedText(source)
  IN  /\ Same(DecodeArray(text), source)
      /\ IsText(source) => /\ Same(DecodeText(text), source)
                           /\ Same(DecodeExceptExtension(EncodedName(source)), source)
      /\ source # <<>> => ~DecodeArray(Tail(text)).ok /\ ~DecodeText(Tail(text)).ok
      /\ \A i \in DOMAIN text : ~DecodeArray([text EXCEPT ![i] = Dot]).ok
      /\ source # <<>> => /\ ~DecodeArray(Encode(source)).ok
                         /\ ~DecodeText(Encode(source)).ok
                         /\ ~DecodeExceptExtension(EncodeExceptExtension(source)).ok
=============================================================================
