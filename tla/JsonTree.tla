------------------------------- MODULE JsonTree -------------------------------
(***************************************************************************)
(* What a JSON node is to its users: a value with a type, a text and named *)
(* children; and the escapes that the text of a string goes through.  (How *)
(* nodes share their data is JsonNode's subject, how they are written and  *)
(* read Json's.)                                                           *)
(***************************************************************************)
EXTENDS Integers, Sequences, SequencesExt

FirstOf(S) == CHOOSE i \in S : \A j \in S : i <= j

\* charsUnescaped and charsEscaped: the character after the backslash.
EscapedAs ==
  [c \in {"\\", "/", "\"", "newline", "tab", "back", "feed", "return"} |->
     CASE c = "newline" -> "n" [] c = "tab" -> "t" [] c = "back" -> "b"
       [] c = "feed" -> "f" [] c = "return" -> "r" [] OTHER -> c]

Unescaped(c2) == CHOOSE c \in DOMAIN EscapedAs : EscapedAs[c] = c2
IsEscape(c1, c2) == c1 = "\\" /\ \E c \in DOMAIN EscapedAs : EscapedAs[c] = c2

EscapeString(value) ==
  FlattenSeq([i \in DOMAIN value |->
                IF value[i] \in DOMAIN EscapedAs THEN <<"\\", EscapedAs[value[i]]>> ELSE <<value[i]>>])

\* The loop steps over c2 whether or not the pair is an escape: of two characters that are
\* none, the second is lost.
UnescapeString(value) ==
  [k \in 1..((Len(value) + 1) \div 2) |->
     LET c1 == value[2 * k - 1]
         c2 == IF 2 * k <= Len(value) THEN value[2 * k] ELSE "NUL"
     IN  IF IsEscape(c1, c2) THEN Unescaped(c2) ELSE c1]

-----------------------------------------------------------------------------
(* Nodes.                                                                  *)

Plain(type, text) == [type |-> type, text |-> text, children |-> <<>>]
Container(type, children) == [type |-> type, text |-> <<>>, children |-> children]
Child(name, node) == [name |-> name, node |-> node]
Invalid == Plain("invalid", <<>>)

\* No value at all: of a node that contains itself.
Endless == Plain("endless", <<>>)

\* Node(type, value): a string is unescaped, any other text kept.
MakeNode(type, value) == Plain(type, IF type = "string" THEN UnescapeString(value) ELSE value)

\* Node::Add, of an object with the name and of an array without.
AddChild(container, name, node) ==
  [container EXCEPT !.children =
     Append(@, Child(IF container.type = "object" THEN name ELSE <<>>, node))]
=============================================================================
