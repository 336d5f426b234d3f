-------------------------------- MODULE Json --------------------------------
(***************************************************************************)
(* BKJson's text: Writer, and JsonParser with its tokens and its stack.    *)
(* A text is a sequence of characters, each named by a string.             *)
(***************************************************************************)
EXTENDS JsonTree

Digit == {"0", "1", "2", "3", "4", "5", "6", "7", "8", "9"}
Whitespace == {"newline", " ", "tab", "return", "feed"}

True == <<"t", "r", "u", "e">>
False == <<"f", "a", "l", "s", "e">>
Null == <<"n", "u", "l", "l">>

-----------------------------------------------------------------------------
(* Writer: with newlines, spaces and tabs (StandardFormat) or without.     *)

Break(standard) == IF standard THEN <<"newline">> ELSE <<>>
Spacing(standard) == IF standard THEN <<" ">> ELSE <<>>
GetIndentation(level, standard) == IF standard THEN [i \in 1..level |-> "tab"] ELSE <<>>

WriteValue(node) ==
  CASE node.type = "string" -> <<"\"">> \o EscapeString(node.text) \o <<"\"">>
    [] node.type = "null"   -> Null
    [] OTHER                -> node.text

RECURSIVE WriteNode(_, _, _)

\* WriteObject and WriteArray; a name is written as it is.
WriteContainer(node, level, standard) ==
  LET isObject == node.type = "object"
      NameOf(child) == IF isObject THEN <<"\"">> \o child.name \o <<"\"", ":">> \o Spacing(standard) ELSE <<>>
      Item(i) == (IF i = 1 THEN <<>> ELSE <<",">> \o Break(standard))
                 \o GetIndentation(level + 1, standard)
                 \o NameOf(node.children[i])
                 \o WriteNode(node.children[i].node, level + 1, standard)
  IN  <<IF isObject THEN "{" ELSE "[">> \o Break(standard)
      \o FlattenSeq([i \in DOMAIN node.children |-> Item(i)])
      \o Break(standard) \o GetIndentation(level, standard)
      \o <<IF isObject THEN "}" ELSE "]">>

WriteNode(node, level, standard) ==
  CASE node.type = "invalid"             -> <<>>
    [] node.type \in {"object", "array"} -> WriteContainer(node, level, standard)
    [] OTHER                             -> WriteValue(node)

WriteString(node, standard) == WriteNode(node, 0, standard)

-----------------------------------------------------------------------------
(* The parser: Tokenize.                                                   *)

TokenOf ==
  [c \in {"{", "}", "[", "]", ",", ":", "\""} |->
     CASE c = "{" -> "OBJ_BEGIN" [] c = "}" -> "OBJ_END" [] c = "[" -> "ARRAY_BEGIN"
       [] c = "]" -> "ARRAY_END" [] c = "," -> "SEPARATOR_NODE" [] c = ":" -> "SEPARATOR_NAME"
       [] c = "\"" -> "VALUE"]

From(text, i) == SubSeq(text, i, Len(text))

\* ReadString: up to a quote that no backslash precedes, even one that is itself escaped.
ClosingQuotes(text) == {i \in DOMAIN text : text[i] = "\"" /\ (i = 1 \/ text[i - 1] # "\\")}
ReadString(text) ==
  IF ClosingQuotes(text) = {} THEN text ELSE SubSeq(text, 1, FirstOf(ClosingQuotes(text)) - 1)
AfterString(text) ==
  IF ClosingQuotes(text) = {} THEN <<>> ELSE From(text, FirstOf(ClosingQuotes(text)) + 1)

\* JumpToNext stays before the newline; JumpToCommentEnd goes behind the star and the slash.
IsComment(text) == Len(text) >= 2 /\ text[1] = "/" /\ text[2] \in {"*", "/"}
AfterComment(text) ==
  LET ends == IF text[2] = "/" THEN {i \in DOMAIN text : text[i] = "newline"}
              ELSE {i + 2 : i \in {j \in 3..(Len(text) - 1) : text[j] = "*" /\ text[j + 1] = "/"}}
  IN  IF ends = {} THEN <<>> ELSE From(text, FirstOf(ends))

\* InterpretValue's number: before an E at most one minus and no plus, behind it at most one
\* sign and at least one digit, at most one point and one E.  (A lone minus or point will do.)
Upper(value) == [i \in DOMAIN value |-> IF value[i] = "e" THEN "E" ELSE value[i]]
Where(value, S) == {i \in DOMAIN value : value[i] \in S}
AtMostOne(S) == \A i, j \in S : i = j
IsNumber(value) ==
  LET E == Where(value, {"E"})
      Behind(S) == {i \in S : E # {} /\ i > FirstOf(E)}
  IN  /\ \A i \in DOMAIN value : value[i] \in Digit \cup {"-", "+", ".", "E"}
      /\ AtMostOne(E) /\ AtMostOne(Where(value, {"."}))
      /\ AtMostOne(Where(value, {"-"}) \ Behind(Where(value, {"-"})))
      /\ Where(value, {"+"}) \subseteq Behind(Where(value, {"+"}))
      /\ AtMostOne(Behind(Where(value, {"-", "+"})))
      /\ E # {} => Behind(Where(value, Digit)) # {}

\* What has been collected is a value, or unknown (of the letters only e has a case here).  The upper-case form of the text is
\* compared with the lower-case word nullptr, so that nothing is ever read as null.
InterpretValue(value) ==
  CASE value = True           -> Plain("bool", True)
    [] value = False          -> Plain("bool", False)
    [] IsNumber(Upper(value)) -> Plain("number", value)
    [] OTHER                  -> Plain("unknown", value)

SaveBuffer(buffer, tokens, data) ==
  IF buffer = <<>> THEN [tokens |-> tokens, data |-> data]
  ELSE LET found == InterpretValue(buffer)
       IN  [tokens |-> Append(tokens, IF found.type = "unknown" THEN "UNKNOWN" ELSE "VALUE"),
            data |-> Append(data, found)]


\* A token after what is in the buffer.
Save(buffer, tokens, data, token) ==
  LET saved == SaveBuffer(buffer, tokens, data)
  IN  [tokens |-> Append(saved.tokens, token), data |-> saved.data]

RECURSIVE Scan(_, _, _, _)

Scan(text, buffer, tokens, data) ==
  IF text = <<>> THEN [tokens |-> tokens, data |-> data]
  ELSE IF text[1] \in Whitespace THEN Scan(Tail(text), buffer, tokens, data)
  ELSE IF text[1] = "\""
  THEN LET saved == Save(buffer, tokens, Append(data, Plain("string", ReadString(Tail(text)))), "VALUE")
       IN  Scan(AfterString(Tail(text)), <<>>, saved.tokens, saved.data)
  ELSE IF text[1] \in DOMAIN TokenOf
  THEN LET saved == Save(buffer, tokens, data, TokenOf[text[1]])
       IN  Scan(Tail(text), <<>>, saved.tokens, saved.data)
  ELSE LET more == IF IsComment(text) THEN buffer ELSE Append(buffer, text[1])
           rest == IF IsComment(text) THEN AfterComment(text) ELSE Tail(text)
           saved == SaveBuffer(more, tokens, data)
       IN  IF rest = <<>> THEN saved ELSE Scan(rest, more, tokens, data)

Tokenize(text) == Scan(text, <<>>, <<>>, <<>>)

-----------------------------------------------------------------------------
(* The parser: Assemble.                                                   *)

Next1(tokens, token) == tokens # <<>> /\ tokens[1] = token

\* The innermost container, closed, becomes a child of the one around it.
Close(stack) ==
  LET top == stack[Len(stack)]
      under == SubSeq(stack, 1, Len(stack) - 1)
  IN  IF under = <<>> THEN under
      ELSE [under EXCEPT ![Len(under)].node = AddChild(@, top.name, top.node)]

RECURSIVE Assemble(_, _, _, _, _)

Assemble(tokens, data, stack, nextName, root) ==
  IF tokens = <<>> THEN root
  ELSE LET token == tokens[1]
           rest == Tail(tokens)
           Open(type) == Append(stack, Child(nextName, Container(type, <<>>)))
           top == stack[Len(stack)].node
           Closing(type) ==
             IF stack = <<>> \/ top.type # type THEN Invalid
             ELSE Assemble(rest, data, Close(stack), nextName, IF Len(stack) = 1 THEN top ELSE root)
       IN  CASE token = "UNKNOWN" -> Invalid
             [] token = "OBJ_BEGIN" -> Assemble(rest, data, Open("object"), <<>>, root)
             [] token = "ARRAY_BEGIN" -> Assemble(rest, data, Open("array"), <<>>, root)
             [] token = "OBJ_END" -> Closing("object")
             [] token = "ARRAY_END" -> Closing("array")
             [] token = "VALUE" /\ data = <<>> -> Invalid
             [] token = "VALUE" /\ data # <<>> /\ Next1(rest, "SEPARATOR_NAME") ->
                  IF data[1].type # "string" THEN Invalid
                  ELSE Assemble(Tail(rest), Tail(data), stack, data[1].text, root)
             [] token = "VALUE" /\ data # <<>> /\ ~Next1(rest, "SEPARATOR_NAME") ->
                  IF stack = <<>> THEN Invalid
                  ELSE Assemble(rest, Tail(data),
                         [stack EXCEPT ![Len(stack)].node =
                            AddChild(@, nextName, MakeNode(data[1].type, data[1].text))], <<>>, root)
             [] token = "SEPARATOR_NAME" -> Assemble(rest, data, stack, nextName, root)
             [] token = "SEPARATOR_NODE" ->
                  IF Next1(rest, "ARRAY_END") THEN Invalid ELSE Assemble(rest, data, stack, nextName, root)

ParseStream(text) ==
  LET scanned == Tokenize(text) IN Assemble(scanned.tokens, scanned.data, <<>>, <<>>, Invalid)

-----------------------------------------------------------------------------
(* What is promised of a document that was written and is read.            *)

RECURSIVE NodesOf(_)
NodesOf(node) == {node} \cup UNION {NodesOf(node.children[i].node) : i \in DOMAIN node.children}

\* Of a run of characters that are not escaped, every second one is lost.
IsEscaped(c) == c \in DOMAIN EscapedAs
RunBefore(text, i) == i - 1 - Max({0} \cup {j \in 1..(i - 1) : IsEscaped(text[j])})
Lost(text, i) == ~IsEscaped(text[i]) /\ RunBefore(text, i) % 2 = 1
Thinned(text) ==
  LET kept == SetToSortSeq({i \in DOMAIN text : ~Lost(text, i)}, <)
  IN  [k \in DOMAIN kept |-> text[kept[k]]]

\* Behind an odd run the backslash is what is lost, and the escapes are no longer read as such.
OddRun(text) == \E i \in DOMAIN text : IsEscaped(text[i]) /\ RunBefore(text, i) % 2 = 1

\* Read is the document with its texts thinned, and otherwise the same.
RECURSIVE IsThinned(_, _)
IsThinned(read, document) ==
  /\ read.type = document.type
  /\ IF document.type = "string" THEN OddRun(document.text) \/ read.text = Thinned(document.text)
     ELSE read.text = document.text
  /\ DOMAIN read.children = DOMAIN document.children
  /\ \A i \in DOMAIN document.children :
       /\ read.children[i].name = document.children[i].name
       /\ IsThinned(read.children[i].node, document.children[i].node)

HasInvalid(document) == \E node \in NodesOf(document) : node.type = "invalid"
HasNull(document) == \E node \in NodesOf(document) : node.type = "null"

\* The last backslash hides the quote behind it.
HidesQuote(document) ==
  \E node \in NodesOf(document) : node.type = "string" /\ node.text # <<>> /\ Last(node.text) = "\\"

\* The text, and the text with a comment behind one of its tokens.  (No string holds a token.)
Commented(text) ==
  LET places == {i \in DOMAIN text : text[i] \in {"{", "[", "]", ",", ":"}}
      comments == {<<"/", "*", "x", "/", "*", "/">>, <<"/", "/", "x", "newline">>}
  IN  {text} \cup {SubSeq(text, 1, i) \o comment \o From(text, i + 1) : i \in places, comment \in comments}

\* An object or array without invalid children is read, in either format and with comments
\* between its tokens, with the same order, names, numbers and words; but of its strings every
\* second character is lost, but for the escaped ones.  (Of a string with an escaped character
\* behind an odd run of others no text is promised.)  One that holds a null, or a string that
\* ends in a backslash, is refused as a whole.
ReadsThinned(document) ==
  document.type \in {"object", "array"} /\ ~HasInvalid(document) =>
    \A standard \in BOOLEAN : \A text \in Commented(WriteString(document, standard)) :
      IF HasNull(document) \/ HidesQuote(document) THEN ParseStream(text) = Invalid
      ELSE IsThinned(ParseStream(text), document)
=============================================================================
