----------------------------- MODULE PacketCodec -----------------------------
(***************************************************************************)
(* The bytes of a BKUDPHandler packet: MakeByteArrayForNetworkData and     *)
(* AnalyzeNetworkDataWithByteArray without the records they keep, which    *)
(* ReliableHandshake and TimestampOrder model.  A packet is                *)
(*   flags, [message id], checksum, [timestamp], variables                 *)
(* and a message is a sequence of variables, each a key and a list whose   *)
(* elements are of a kind: bool, number, char, other or invalid.  (A value *)
(* of another shape than its key asks for is left out, as an unknown key.) *)
(***************************************************************************)
EXTENDS Json

Byte == 0..255

\* memcpy of the first n bytes of an int32, and into one that was zero: two bytes that
\* were negative come back positive.
ToBytes(value, n) == [k \in 1..n |-> (value \div 256^(k - 1)) % 256]
FromBytes(bytes) ==
  IF Len(bytes) < 4 THEN FoldRight(LAMBDA b, sum : b + 256 * sum, bytes, 0)
  ELSE FoldRight(LAMBDA b, sum : b + 256 * sum, SubSeq(bytes, 1, 3), 0)
       + (IF bytes[4] > 127 THEN bytes[4] - 256 ELSE bytes[4]) * 16777216

\* A char, which is signed.
AnsiChar(n) == ((n + 128) % 256) - 128

CompressBooleanAsBit(flags) ==
  [i \in 1..((Len(flags) + 7) \div 8) |->
     LET set == {j \in 0..7 : 8 * (i - 1) + j + 1 <= Len(flags) /\ flags[8 * (i - 1) + j + 1]}
     IN  FoldSet(LAMBDA j, sum : sum + 2^j, 0, set)]

DecompressBitAsBoolArray(bytes) ==
  [i \in 1..(8 * Len(bytes)) |-> (bytes[(i - 1) \div 8 + 1] \div 2^((i - 1) % 8)) % 2 = 1]

\* WBasicRawHash: a sum.
Checksum(bytes) == ToBytes(FoldLeft(LAMBDA sum, b : sum + b, 0, bytes), 4)

\* The characters a text is made of here, and their codes.
CodeOf == [c \in {"x", "y", "z"} |-> CASE c = "x" -> 120 [] c = "y" -> 121 [] OTHER -> 122]
CharOf(code) ==
  IF \E c \in DOMAIN CodeOf : CodeOf[c] = code THEN CHOOSE c \in DOMAIN CodeOf : CodeOf[c] = code ELSE "another"

TypeOf ==
  [key \in {"BooleanArray", "ByteArray", "CharArray", "ShortArray", "IntegerArray", "FloatArray"} |->
     CASE key = "BooleanArray" -> 0 [] key = "ByteArray" -> 1 [] key = "CharArray" -> 2
       [] key = "ShortArray" -> 3 [] key = "IntegerArray" -> 4 [] OTHER -> 5]
KeyOf(type) == CHOOSE key \in DOMAIN TypeOf : TypeOf[key] = type

\* Bytes of an element.  (A float is its four bytes, written as an integer.)
UnitSize(type) == CASE type \in {1, 2} -> 1 [] type = 3 -> 2 [] OTHER -> 4

-----------------------------------------------------------------------------
(* Encoding.                                                               *)

Limit(double) == IF double THEN 8192 ELSE 32

\* The type in three bits, the length in the others, of one byte or of two.
Info(type, length, double) == ToBytes(type + 8 * length, IF double THEN 2 ELSE 1)

OfKind(list, kinds) == SelectSeq(list, LAMBDA e : e[1] \in kinds)
Valid == {"bool", "number", "char", "other"}

\* ToInteger(0) and ToFloat(0.0f).
ToNumber(e) == IF e[1] = "number" THEN e[2] ELSE 0

\* Room for as many bits as the list is long, filled with those of its elements that are
\* booleans; a byte that gets none of them is what was in the memory.
EncodeBooleans(list, junk) ==
  LET bits == OfKind(list, {"bool"})
      bytes == CompressBooleanAsBit([i \in DOMAIN bits |-> bits[i][2]])
  IN  [i \in 1..((Len(list) + 7) \div 8) |-> IF i <= Len(bytes) THEN bytes[i] ELSE junk]

EncodeNumbers(type, list) ==
  FlattenSeq([i \in DOMAIN list |-> ToBytes(ToNumber(list[i]), UnitSize(type))])

\* A key that is not known, an empty list and one that is too long are left out.  The length
\* of an array goes through a char, the length of a text does not.  An invalid element is
\* skipped, but was counted; when all were, the last byte of the count is taken back.
EncodeVariable(variable, double, junk) ==
  IF variable.key \notin DOMAIN TypeOf THEN <<>>
  ELSE LET type == TypeOf[variable.key]
           length == IF type = 2 THEN Len(variable.list) ELSE AnsiChar(Len(variable.list))
           list == SubSeq(variable.list, 1, length)
           info == Info(type, length, double)
       IN  CASE length <= 0 \/ length >= Limit(double) -> <<>>
             [] type = 0 /\ OfKind(list, {"bool"}) = <<>> -> <<>>
             [] type = 0 -> info \o EncodeBooleans(list, junk)
             [] type = 2 -> info \o [i \in DOMAIN list |-> CodeOf[list[i][2]]]
             [] type \notin {0, 2} /\ OfKind(list, Valid) = <<>> -> Front(info)
             [] OTHER -> info \o EncodeNumbers(type, OfKind(list, Valid))

Flags(reliable, timestamped, double) ==
  CompressBooleanAsBit(<<reliable, FALSE, FALSE, FALSE, FALSE, ~timestamped, double>>)

\* Nothing is sent when there is nothing to send.
MakeByteArray(message, reliable, timestamped, double, junk) ==
  LET variables == FlattenSeq([i \in DOMAIN message |-> EncodeVariable(message[i], double, junk)])
      body == (IF timestamped THEN ToBytes(7, 2) ELSE <<>>) \o variables
      id == IF reliable THEN ToBytes(300, 4) ELSE <<>>
  IN  IF body = <<>> THEN <<>>
      ELSE Flags(reliable, timestamped, double) \o id \o Checksum(body) \o body

-----------------------------------------------------------------------------
(* Decoding.                                                               *)

\* Fault: the second byte of a double count is taken for contents.
HeaderSizeSingle(double) == 1

HeaderSize(double) == IF double THEN 2 ELSE 1

\* The second byte counts 256s, though the first has five bits of the length only.
ContentCount(bytes, double) == IF double THEN bytes[1] \div 8 + 256 * bytes[2] ELSE bytes[1] \div 8

\* The variables found so far.  ResultMap.Get(key) compares with FString::Equals, which says
\* whether two are different: it returns the first variable with another key.  The new list
\* goes behind a copy of that one's; and a second text stands beside the first.
AddVariable(result, key, list) ==
  LET others == {i \in DOMAIN result : result[i].key # key}
      same == {i \in DOMAIN result : result[i].key = key}
      exists == result[FirstOf(others)]
      chars == [i \in DOMAIN list |-> list[i][2]]
      text == UnescapeString(chars)
  IN  IF key = "CharArray"
      THEN Append(result, [key |-> key, list |-> [i \in DOMAIN text |-> <<"char", text[i]>>]])
      ELSE IF others # {} /\ exists.key # "CharArray"
      THEN Append(IF same = {} THEN result ELSE RemoveAt(result, FirstOf(same)),
                  [key |-> key, list |-> exists.list \o list])
      ELSE Append(result, [key |-> key, list |-> list])

\* The bytes of a variable's contents; the length of a bit array goes through a byte.
ContentSize(type, count) == IF type = 0 THEN ((count + 7) \div 8) % 256 ELSE count * UnitSize(type)

DecodeElements(type, count, bytes) ==
  [i \in 1..count |->
     CASE type = 0 -> <<"bool", i <= 8 * Len(bytes) /\ DecompressBitAsBoolArray(bytes)[i]>>
       [] type = 2 -> <<"char", CharOf(bytes[i])>>
       [] OTHER -> <<"number", FromBytes(SubSeq(bytes, (i - 1) * UnitSize(type) + 1, i * UnitSize(type)))>>]

\* A variable that is cut off ends the decoding; what came before it is kept.
RECURSIVE DecodeVariables(_, _, _)

DecodeVariables(bytes, double, result) ==
  IF Len(bytes) <= HeaderSize(double) THEN result
  ELSE LET type == bytes[1] % 8
           count == ContentCount(bytes, double)
           rest == From(bytes, HeaderSize(double) + 1)
           size == ContentSize(type, count)
       IN  IF count = 0 \/ type > 5 THEN DecodeVariables(rest, double, result)
           ELSE IF Len(rest) < size THEN result
           ELSE DecodeVariables(From(rest, size + 1), double,
                  AddVariable(result, KeyOf(type), DecodeElements(type, count, SubSeq(rest, 1, size))))

Refused == "refused"

\* The length, the flags, the checksum, and then the variables.
AnalyzeByteArray(packet) ==
  IF Len(packet) < 5 THEN Refused
  ELSE LET flags == DecompressBitAsBoolArray(SubSeq(packet, 1, 1))
           reliable == flags[1]
           timestamped == ~flags[6]
           start == IF reliable THEN 9 ELSE 5
           body == From(packet, start + 1)
           skipped == IF timestamped THEN 2 ELSE 0
       IN  IF body = <<>> \/ SubSeq(packet, start - 3, start) # Checksum(body) THEN Refused
           ELSE IF Len(body) <= skipped THEN Refused
           ELSE DecodeVariables(From(body, skipped + 1), flags[7], <<>>)

-----------------------------------------------------------------------------
(* What is promised of a packet with at most two variables.                *)

\* As many elements as an array's length leaves in a signed char.
Counted(v) ==
  LET left == Len(v.list) % 256
  IN  IF v.key = "CharArray" THEN Len(v.list) ELSE IF left > 127 THEN 0 ELSE left
Cut(v) == SubSeq(v.list, 1, Counted(v))
Kinds(v) == {Cut(v)[i][1] : i \in 1..Counted(v)}

\* Nothing of it is in the packet.
LeftOut(v, double) ==
  \/ v.key \notin DOMAIN TypeOf
  \/ Counted(v) = 0 \/ Counted(v) >= Limit(double)
  \/ v.key = "BooleanArray" /\ "bool" \notin Kinds(v)
  \/ v.key # "BooleanArray" /\ Kinds(v) = {"invalid"} /\ ~double

\* Behind 31 elements a double count tells the receiver another length; and an invalid element
\* is missing from its list.
Short(v, double) ==
  \/ double /\ Counted(v) > 31
  \/ v.key # "BooleanArray" /\ "invalid" \in Kinds(v)

\* A byte of it was never written.
Unwritten(v) ==
  v.key = "BooleanArray" /\ Len(OfKind(Cut(v), {"bool"})) <= 8 * ((Counted(v) - 1) \div 8)

\* What arrives of a variable: booleans before everything else that was meant to be one, of a
\* text every second character, numbers without the bytes they have no room for.
Arrived(v) ==
  LET list == Cut(v)
      bits == OfKind(list, {"bool"})
      NumberOf(e) == IF e[1] # "number" THEN 0
                     ELSE CASE v.key = "ByteArray" -> e[2] % 256 [] v.key = "ShortArray" -> e[2] % 65536
                            [] OTHER -> e[2]
  IN  [key |-> v.key,
       list |-> CASE v.key = "BooleanArray" ->
                       [i \in DOMAIN list |-> IF i <= Len(bits) THEN bits[i] ELSE <<"bool", FALSE>>]
                  [] v.key = "CharArray" -> [i \in 1..((Len(list) + 1) \div 2) |-> list[2 * i - 1]]
                  [] OTHER -> [i \in DOMAIN list |-> <<"number", NumberOf(list[i])>>]]

\* Together: an array behind one with another key begins with a copy of that one.
Received(vs) ==
  [i \in DOMAIN vs |->
     IF i = 2 /\ vs[1].key # vs[2].key /\ "CharArray" \notin {vs[1].key, vs[2].key}
     THEN [Arrived(vs[2]) EXCEPT !.list = Arrived(vs[1]).list \o @]
     ELSE Arrived(vs[i])]

\* Too few bytes follow to make up for those of variable i that are missing.
Unfilled(vs, i, double) ==
  i = Len(vs) \/ (Kinds(vs[i]) # {"invalid"} /\ Counted(vs[i]) > 31 /\ vs[i].key \notin {"BooleanArray"})

\* What is in the packet arrives in order, whatever the packet's form is, as Received tells: a
\* text halved, the second of two arrays with a copy of the first in front, two under one key
\* side by side.  A list too long for a single count is left out.  A list that announces more
\* than it brings - of more than 31 elements with double counts, or with invalid elements - is
\* lost, and so is what follows it when that cannot make up for what is missing; what is in
\* front of it arrives.  And a packet of which one byte behind the message id was changed is
\* refused.  (The sum does not tell an exchange of two bytes.)
ArrivesAsTold(message, reliable, timestamped, double, junk) ==
  LET packet == MakeByteArray(message, reliable, timestamped, double, junk)
      Changed(i) == [packet EXCEPT ![i] = (@ + 1) % 256]
      sent == SelectSeq(message, LAMBDA v : ~LeftOut(v, double))
      short == {i \in DOMAIN sent : Short(sent[i], double)}
      got == AnalyzeByteArray(packet)
  IN  /\ sent = <<>> => IF timestamped THEN got = Refused ELSE packet = <<>>
      /\ sent # <<>> /\ (\A i \in DOMAIN sent : ~Unwritten(sent[i])) =>
           IF short = {} THEN got = Received(sent)
           ELSE Unfilled(sent, FirstOf(short), double) => got = Received(SubSeq(sent, 1, FirstOf(short) - 1))
      /\ packet # <<>> =>
           \A i \in (IF reliable THEN 6 ELSE 2)..Len(packet) : AnalyzeByteArray(Changed(i)) = Refused
=============================================================================
