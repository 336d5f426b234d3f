------------------------------- MODULE MCFormats -------------------------------
(* Two nodes and what a program does with them; or bytes for Base64, one by   *)
(* one; or one input of the codec, of the HTTP parser, of an HTTP answer or   *)
(* of the JSON text.                                                          *)
EXTENDS Json, JsonNode, PacketCodec, Response, Base64, TLC

CONSTANTS a, b, None

VARIABLE input

allVars == <<nodeVars, source, input>>

MCHandle == {a, b}
MCSourceByte == {0, Dot, 65, 127, 255}
MCSymmetry == Permutations(MCHandle)
MCName == {<<"m">>}
MCLiteral == {[type |-> "string", text |-> <<"\\", "\"">>], [type |-> "null", text |-> <<>>]}

-----------------------------------------------------------------------------
\* Documents: two children of every kind, and the numbers and strings at the edges.
Leaf ==
  {Plain("string", text) : text \in {<<>>, <<"x">>, <<"\"", "\"">>, <<"newline", "/">>}}
  \cup {Plain("number", text) : text \in {<<"0">>, <<"-", "1", ".", "5", "e", "+", "3">>, <<"2", "E", "-", "1">>}}
  \cup {Plain("bool", True), Plain("bool", False), Plain("null", <<>>)}
\* Strings that lose characters: between escaped ones, before one, and one that hides its quote.
Inexact ==
  {Plain("string", text) : text \in {<<"x", "y", "x">>, <<"\"", "x", "y", "tab", "y", "y">>,
     <<"x", "newline">>, <<"x", "\\">>, <<"\\">>, <<"\\", "x">>}}
Inner == Leaf \cup {Container(type, <<>>) : type \in {"object", "array"}}
         \cup {Container("array", <<Child(<<>>, leaf)>>) : leaf \in Leaf}
         \cup {Container("object", <<Child(<<"n">>, leaf)>>) : leaf \in Leaf}
MCDocument ==
  {Container("array", <<Child(<<>>, x), Child(<<>>, y)>>) : x, y \in Inner}
  \cup {Container("object", <<Child(<<"m">>, x), Child(<<"n">>, y)>>) : x, y \in Inner}
  \cup {Container(type, <<Child(IF type = "object" THEN <<"m">> ELSE <<>>, x), Child(<<>>, y)>>) :
          type \in {"object", "array"}, x, y \in Inexact}

\* Messages: every kind of list, at the limits of its length and of its elements; with elements
\* of another kind, with invalid ones, and with nothing else.
Variable(key, list) == [key |-> key, list |-> list]
Numbers(key, list) == Variable(key, [i \in DOMAIN list |-> <<"number", list[i]>>])
Truths(list) == Variable("BooleanArray", [i \in DOMAIN list |-> <<"bool", list[i]>>])
Text1(list) == Variable("CharArray", [i \in DOMAIN list |-> <<"char", list[i]>>])
MCVariable ==
  {Truths(<<TRUE>>), Truths([i \in 1..9 |-> i % 3 = 0]), Truths([i \in 1..40 |-> i % 3 = 0]),
   Variable("BooleanArray", <<<<"bool", TRUE>>, <<"number", 1>>, <<"invalid", 0>>, <<"bool", TRUE>>>>),
   Variable("BooleanArray", Append([i \in 1..8 |-> <<"number", i>>], <<"bool", TRUE>>)),
   Variable("BooleanArray", <<<<"number", 1>>>>),
   Numbers("ByteArray", <<1, 200>>), Numbers("ByteArray", [i \in 1..31 |-> i]),
   Numbers("ByteArray", [i \in 1..32 |-> i]), Numbers("ByteArray", [i \in 1..257 |-> i]),
   Variable("ByteArray", <<<<"number", 7>>, <<"invalid", 0>>>>),
   Text1(<<"x">>), Text1(<<"x", "y", "z">>),
   Numbers("ShortArray", <<-1, 70000, 5>>), Variable("ShortArray", <<<<"bool", TRUE>>, <<"number", 9>>>>),
   Numbers("IntegerArray", <<-1, 2147483647, -5, 70000>>), Variable("IntegerArray", <<<<"invalid", 0>>>>),
   Variable("FloatArray", <<>>), Numbers("Other", <<1>>)}

MCPacket ==
  [message : {<<x, y>> : x, y \in MCVariable}, reliable : BOOLEAN, timestamped : BOOLEAN,
   double : BOOLEAN, junk : {0, 255}]

\* Requests: headers twice, with blanks and colons, with every kind of announced length.
MCHeader ==
  {Header(<<"h">>, <<"x">>), Header(<<"h">>, <<"y", " ", ":", "z">>), Header(<<"g", ":">>, <<>>)}
  \cup {Header(ContentLength, <<d>>) : d \in DOMAIN Numeral}
  \cup {Header(ContentLength, value) : value \in {<<"-", "2">>, <<"x", "2", "-">>}}
MCHeaders == {<<>>} \cup {<<x>> : x \in MCHeader} \cup {<<x, y>> : x, y \in MCHeader}
Request(method, headers, payload) ==
  [method |-> method, path |-> <<"/", "p">>, version |-> <<"HTTP">>, headers |-> headers, payload |-> payload]
MCRequest ==
  {Request(<<"PO", "ST">>, headers, payload) :
     headers \in MCHeaders, payload \in {<<>>, <<"1">>, <<"1", "2">>, <<"1", LF>>}}
  \cup {Request(<<"GE", "T">>, headers, <<>>) : headers \in MCHeaders}

\* What a callback may call: the same header in two cases, two cookies, a code and a body.
MCCall ==
  [is : {"set", "add"}, name : {<<"h">>, <<"H">>}, value : {<<"x">>}]
  \cup {[is |-> "set", name |-> <<"H">>, value |-> <<"y", ":", " ", "z">>],
        [is |-> "cookie", name |-> <<"c">>, value |-> <<"x">>],
        [is |-> "cookie", name |-> <<"c">>, value |-> <<"y">>],
        [is |-> "cookie", name |-> <<"C">>, value |-> <<>>],
        [is |-> "code", code |-> "404"], [is |-> "code", code |-> "299"],
        [is |-> "body", value |-> <<"b", LF, "b">>]}
MCCalls == SeqOf(MCCall, 2) \cup
  {Append(calls, [is |-> "body", value |-> <<"b">>]) : calls \in SeqOf(MCCall, 2)}

-----------------------------------------------------------------------------
Init == NodeInit /\ SourceInit /\ input = None

Choose(kind, S) ==
  /\ input = None /\ NodeInit /\ SourceInit
  /\ \E x \in S : input' = [of |-> kind, is |-> x]
  /\ UNCHANGED <<nodeVars, source>>

ChooseDocument == Choose("document", MCDocument)
ChoosePacket ==
  Choose("packet", {packet \in MCPacket : packet.junk = 0 \/ \E i \in 1..2 : Unwritten(packet.message[i])})
ChooseRequest == Choose("request", MCRequest)
ChooseAnswer == Choose("answer", MCCalls)
Compute == input = None /\ SourceInit /\ NodeNext /\ UNCHANGED <<source, input>>
ExtendSource == input = None /\ NodeInit /\ Extend /\ UNCHANGED <<nodeVars, input>>

Next == Compute \/ ExtendSource \/ ChooseDocument \/ ChoosePacket \/ ChooseRequest \/ ChooseAnswer
Spec == Init /\ [][Next]_allVars

\* Bound: when a node has been added to itself, a program goes on while at most two data are left.
MCLeft == looped => Cardinality({c \in Cell : heap[c] # Freed}) <= 2

Given(kind) == input # None /\ input.of = kind


\* Every message of two variables, in every form of packet, arrives as ArrivesAsTold says.
PacketsArriveAsTold ==
  Given("packet") =>
    ArrivesAsTold(input.is.message, input.is.reliable, input.is.timestamped, input.is.double, input.is.junk)

\* A request that is cut before a blank of its line, between CR and LF or in its body is read
\* in two pieces as in one.
RequestsAreReadInPieces ==
  Given("request") => \A k \in 1..(Len(Text(input.is)) - 1) : ReadInPieces(input.is, k)

\* An answer is read back by the client, as AnswerIsReadBack says, in one piece or cut in its head.
AnswersAreReadBack ==
  Given("answer") =>
    LET answer == Prepared(Made(input.is))
    IN  \A k \in 1..(Len(AnswerHead(answer)) + Len(answer.body)) : AnswerIsReadBack(input.is, k)
=============================================================================
