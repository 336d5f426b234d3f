---------------------------- MODULE RequestParser ----------------------------
(***************************************************************************)
(* BKHTTPRequestParser and the loop that feeds it what recv returns        *)
(* (BKHTTPAcceptedClient::GetData).  A text is a sequence of characters    *)
(* and of words, which stand for the characters nothing here looks at.     *)
(***************************************************************************)
EXTENDS Integers, Sequences, SequencesExt

CR == "return"
LF == "newline"
ContentLength == <<"Content-", "Length">>
Numeral == [d \in {"0", "1", "2", "3"} |-> CASE d = "0" -> 0 [] d = "1" -> 1 [] d = "2" -> 2 [] d = "3" -> 3]

\* What Reset leaves, and field, which is local to ProcessChunkForHeaders.
Reset ==
  [half |-> FALSE, end |-> FALSE, first |-> TRUE, beginning |-> TRUE, field |-> 0,
   method |-> <<>>, path |-> <<>>, version |-> <<>>, name |-> <<>>, value |-> <<>>,
   previous |-> "NUL", headers |-> <<>>, payload |-> <<>>,
   headersAvailable |-> FALSE, bodyAvailable |-> FALSE, error |-> FALSE]

\* BKHashMap::Put: what is there already stays.
Put(headers, name, value) == headers @@ (name :> value)

\* Of a number only the digits and the minuses are looked at; here it is one numeral, with one
\* minus before it or none, and 0 when it cannot be read.
ConvertToInteger(value) ==
  LET kept == SelectSeq(value, LAMBDA c : c = "-" \/ c \in DOMAIN Numeral)
      negative == kept # <<>> /\ kept[1] = "-"
      read == IF negative THEN Tail(kept) ELSE kept
  IN  IF read = <<>> \/ read[1] = "-" THEN 0
      ELSE IF negative THEN -Numeral[read[1]] ELSE Numeral[read[1]]

\* Content-Length clips the chunk, not the sum of the chunks.
ProcessChunkForBody(parser, chunk) ==
  IF parser.bodyAvailable THEN parser
  ELSE IF ContentLength \notin DOMAIN parser.headers
  THEN [parser EXCEPT !.payload = @ \o chunk, !.bodyAvailable = TRUE]
  ELSE LET length == ConvertToInteger(parser.headers[ContentLength])
           size == IF length < Len(chunk) THEN length ELSE Len(chunk)
       IN  IF length <= 0 THEN [parser EXCEPT !.error = TRUE]
           ELSE [parser EXCEPT !.payload = @ \o SubSeq(chunk, 1, size),
                               !.bodyAvailable = Len(chunk) + Len(parser.payload) >= length]

-----------------------------------------------------------------------------
(* One character of the head.                                              *)

Return(parser) == [parser EXCEPT !.half = TRUE, !.previous = CR, !.beginning = FALSE]

\* The end of a line that is not empty: a header is complete.
EndLine(parser) ==
  [parser EXCEPT !.headers = IF parser.first THEN @ ELSE Put(@, parser.name, parser.value),
                 !.name = IF parser.first THEN @ ELSE <<>>,
                 !.value = IF parser.first THEN @ ELSE <<>>,
                 !.end = TRUE, !.first = FALSE, !.previous = LF, !.beginning = FALSE]

\* What every other character does at the end of the loop's body.
Passed(parser, c) == [parser EXCEPT !.half = FALSE, !.end = FALSE, !.previous = c]

RequestLine(parser, c) ==
  LET field == IF parser.beginning \/ parser.end THEN 0 ELSE parser.field
  IN  IF c = " " THEN [parser EXCEPT !.field = field + 1, !.beginning = FALSE]
      ELSE [parser EXCEPT !.field = field,
                          !.method  = IF field = 0 THEN Append(@, c) ELSE @,
                          !.path    = IF field = 1 THEN Append(@, c) ELSE @,
                          !.version = IF field = 2 THEN Append(@, c) ELSE @]

\* The colon was taken for a character of the name, until the blank behind it.
HeaderLine(parser, c) ==
  LET field == IF parser.end THEN 0 ELSE parser.field
  IN  IF field = 0 /\ c = " " /\ parser.previous = ":"
      THEN [parser EXCEPT !.field = 1, !.name = Front(@)]
      ELSE [parser EXCEPT !.field = field,
                          !.name  = IF field = 0 THEN Append(@, c) ELSE @,
                          !.value = IF field = 1 THEN Append(@, c) ELSE @]

Other(parser, c) == Passed(IF parser.first THEN RequestLine(parser, c) ELSE HeaderLine(parser, c), c)

\* The empty line: what is behind it is of the body; when nothing is, the line feed is
\* still taken for a character.
RECURSIVE ReadHead(_, _)

ReadHead(parser, text) ==
  IF text = <<>> THEN parser
  ELSE LET c == text[1]
           rest == Tail(text)
           complete == [parser EXCEPT !.headersAvailable = TRUE]
       IN  CASE c = CR -> ReadHead(Return(parser), rest)
             [] c = LF /\ parser.half /\ ~parser.end -> ReadHead(EndLine(parser), rest)
             [] c = LF /\ parser.half /\ parser.end /\ rest # <<>> -> ProcessChunkForBody(complete, rest)
             [] c = LF /\ parser.half /\ parser.end /\ rest = <<>> -> Other(complete, c)
             [] OTHER -> ReadHead(Other(parser, c), rest)

\* Fault: a chunk does not remember how the one before it ended.
StartChunkForgets(parser) == [parser EXCEPT !.field = 0, !.half = FALSE, !.end = FALSE]

\* Each chunk counts its fields from nought.
StartChunk(parser) == [parser EXCEPT !.field = 0]

ProcessChunkForHeaders(parser, chunk) ==
  IF parser.headersAvailable THEN parser ELSE ReadHead(StartChunk(parser), chunk)

-----------------------------------------------------------------------------
(* GetData: the head, and unless the method is GET or HEAD the body.       *)

Bodiless(parser) == \E method \in {<<"GE", "T">>, <<"HE", "AD">>} : IsPrefix(method, parser.method)

RECURSIVE GetData(_, _)

GetData(parser, chunks) ==
  IF parser.headersAvailable /\ (Bodiless(parser) \/ parser.bodyAvailable)
  THEN [is |-> "complete", parser |-> parser]
  ELSE IF chunks = <<>> THEN [is |-> "waiting", parser |-> parser]
  ELSE IF ~parser.headersAvailable
  THEN GetData(ProcessChunkForHeaders(parser, chunks[1]), Tail(chunks))
  ELSE LET next == ProcessChunkForBody(parser, chunks[1])
       IN  IF next.error THEN [is |-> "refused", parser |-> next] ELSE GetData(next, Tail(chunks))

-----------------------------------------------------------------------------
(* What is promised of a request that comes in two pieces.                 *)

Line(words) == words \o <<CR, LF>>
HeadText(request) ==
  Line(request.method \o <<" ">> \o request.path \o <<" ">> \o request.version)
  \o FlattenSeq([i \in DOMAIN request.headers |->
       Line(request.headers[i].name \o <<":", " ">> \o request.headers[i].value)])
  \o <<CR, LF>>
Text(request) == HeadText(request) \o request.payload

HeadersOf(request) ==
  FoldLeft(LAMBDA headers, h : Put(headers, h.name, h.value), <<>>, request.headers)

\* The line that the cut divides has had no blank yet, or lacks only its line feed: elsewhere
\* the parser starts the line's fields again.
Harmless(text, k) ==
  LET lines == {i \in 1..k : text[i] = LF}
  IN  \/ text[k] = CR /\ text[k + 1] = LF
      \/ \A i \in 1..k : text[i] = " " => \E j \in lines : j > i

\* The outcome of a request, from its announced length.
Outcome(request) ==
  IF ContentLength \notin DOMAIN HeadersOf(request)
  THEN IF request.payload = <<>> THEN "waiting" ELSE "complete"
  ELSE LET length == ConvertToInteger(HeadersOf(request)[ContentLength])
       IN  IF length <= 0 THEN "never complete"
           ELSE IF length > Len(request.payload) THEN "waiting"
           ELSE "complete"

\* A request that recv returns in two pieces, cut where Harmless, is read as if it had come
\* whole: method, path, version, the first header of each name and the payload it announced;
\* and one whose length is missing, wrong or not yet reached is never taken for complete.
\* (A body without length is promised only when it comes in one piece, a longer one than
\* announced only in one piece with nothing but the end of the head before it.)
ReadInPieces(request, k) ==
  LET text == Text(request)
      head == Len(HeadText(request))
      got == GetData(Reset, <<SubSeq(text, 1, k), SubSeq(text, k + 1, Len(text))>>)
      announced == ContentLength \in DOMAIN HeadersOf(request)
      length == IF announced THEN ConvertToInteger(HeadersOf(request)[ContentLength]) ELSE Len(request.payload)
      size == IF length < Len(request.payload) THEN length ELSE Len(request.payload)
  IN  Harmless(text, k) \/ k >= head =>
        \/ k > head /\ (~announced \/ length < Len(request.payload))
        \/ /\ got.parser.method = request.method
           /\ got.parser.path = request.path
           /\ got.parser.version = request.version
           /\ got.parser.headers = HeadersOf(request)
           /\ CASE Bodiless(got.parser) -> got.is = "complete" /\ ~got.parser.error
                [] Outcome(request) = "never complete" -> got.is # "complete" /\ got.parser.payload = <<>>
                [] OTHER -> /\ got.is = Outcome(request)
                            /\ got.parser.payload = SubSeq(request.payload, 1, size)
=============================================================================
