------------------------------- MODULE Response -------------------------------
(***************************************************************************)
(* The answer of a BKHTTPAcceptedClient: what HTTPListenCallback sets of   *)
(* it, the text that the server's task makes of it, and how BKHTTPClient   *)
(* reads that text with the parser that the server reads requests with.    *)
(***************************************************************************)
EXTENDS RequestParser

Header(name, value) == [name |-> name, value |-> value]

\* What a callback finds.
Unanswered ==
  [body |-> <<>>, type |-> <<"html">>, code |-> "200", description |-> <<"OK">>,
   headers |-> <<>>, cookies |-> <<>>]

\* ToLower, of the words that names are made of here.
Lowered == ("H" :> "h") @@ ("Content-" :> "content-") @@ ("Length" :> "length")
Lower(name) == [i \in DOMAIN name |-> IF name[i] \in DOMAIN Lowered THEN Lowered[name[i]] ELSE name[i]]

\* Two of the 41 entries of HttpCodeDescriptionMap; other codes have no description.
HttpCodeDescriptionMap == ("200" :> <<"OK">>) @@ ("404" :> <<"Not", " ", "Found">>)

-----------------------------------------------------------------------------
(* What a callback calls.  (Names that the task sets itself are refused by *)
(* an assertion.)                                                          *)

SetResponseBody(answer, body) == [answer EXCEPT !.body = body]

SetResponseCode(answer, code) ==
  [answer EXCEPT !.code = code,
                 !.description = IF code \in DOMAIN HttpCodeDescriptionMap
                                 THEN HttpCodeDescriptionMap[code] ELSE <<>>]

AddResponseHeader(answer, name, value) ==
  [answer EXCEPT !.headers = Append(@, Header(Lower(name), value))]

\* Fault: names are compared as they were given.
SetResponseHeaderExactly(answer, name, value) ==
  IF \E i \in DOMAIN answer.headers : answer.headers[i].name = name THEN answer
  ELSE AddResponseHeader(answer, name, value)

SetResponseHeader(answer, name, value) ==
  IF \E i \in DOMAIN answer.headers : answer.headers[i].name = Lower(name) THEN answer
  ELSE AddResponseHeader(answer, name, value)

SetResponseCookie(answer, name, value) ==
  IF \E i \in DOMAIN answer.cookies : answer.cookies[i].name = name THEN answer
  ELSE [answer EXCEPT !.cookies = Append(@, Header(name, value))]

-----------------------------------------------------------------------------
(* The text of the answer.                                                 *)

ContentTypeSet == <<"content-", "type">>
ContentLengthSet == <<"content-", "length">>
SetCookie == <<"set-", "cookie">>
LengthText(body) == <<CHOOSE d \in DOMAIN Numeral : Numeral[d] = Len(body)>>

\* One builder serves all cookies and is never emptied: each cookie's header repeats those
\* before it.
CookieText(answer, i) ==
  FlattenSeq([j \in 1..i |-> answer.cookies[j].name \o <<"=">> \o answer.cookies[j].value])

\* The task adds its own headers to those of the callback.
Prepared(answer) ==
  LET typed == SetResponseHeader(answer, ContentTypeSet, answer.type \o <<"; charset">>)
      measured == SetResponseHeader(typed, ContentLengthSet, LengthText(answer.body))
  IN  FoldLeft(LAMBDA soFar, i : AddResponseHeader(soFar, SetCookie, CookieText(answer, i)),
               measured, [i \in DOMAIN answer.cookies |-> i])

StatusLine(answer) == <<"HTTP/1.1", " ", answer.code, " ">> \o answer.description

AnswerHead(answer) ==
  Line(StatusLine(answer))
  \o FlattenSeq([i \in DOMAIN answer.headers |->
       Line(answer.headers[i].name \o <<":", " ">> \o answer.headers[i].value)])
  \o <<CR, LF>>

-----------------------------------------------------------------------------
(* ReceiveData of the client.  It ends without the answer when the server  *)
(* closes the connection while it waits.                                   *)

RECURSIVE ReceiveData(_, _)

ReceiveData(parser, chunks) ==
  IF parser.headersAvailable /\ parser.bodyAvailable THEN [is |-> "complete", parser |-> parser]
  ELSE IF chunks = <<>> THEN [is |-> "failed", parser |-> parser]
  ELSE IF ~parser.headersAvailable
  THEN ReceiveData(ProcessChunkForHeaders(parser, chunks[1]), Tail(chunks))
  ELSE LET next == ProcessChunkForBody(parser, chunks[1])
       IN  IF next.error THEN [is |-> "failed", parser |-> next]
           ELSE ReceiveData(next, Tail(chunks))

-----------------------------------------------------------------------------
(* What a callback may rely on.                                            *)

Call(answer, call) ==
  CASE call.is = "set" -> SetResponseHeader(answer, call.name, call.value)
    [] call.is = "add" -> AddResponseHeader(answer, call.name, call.value)
    [] call.is = "cookie" -> SetResponseCookie(answer, call.name, call.value)
    [] call.is = "code" -> SetResponseCode(answer, call.code)
    [] call.is = "body" -> SetResponseBody(answer, call.value)

Made(calls) == FoldLeft(Call, Unanswered, calls)

\* The calls that leave a header: every addition, and the first of a name whatever its case.
Told(calls) ==
  LET names(i) == calls[i].is \in {"set", "add"}
      lasting == {i \in DOMAIN calls :
        /\ names(i)
        /\ calls[i].is = "set" =>
             \A j \in 1..(i - 1) : names(j) => Lower(calls[j].name) # Lower(calls[i].name)}
  IN  [i \in 1..Cardinality(lasting) |->
        LET k == CHOOSE k \in lasting : Cardinality({j \in lasting : j <= k}) = i
        IN  Header(Lower(calls[k].name), calls[k].value)]

FirstCookie(calls) == SelectSeq(calls, LAMBDA c : c.is = "cookie")[1]

\* The answer arrives whole, or in two pieces cut where Harmless and not inside the body: the
\* client reads the code, the headers the callback set, each once, its first cookie, and the
\* body.  (An answer without a body is never complete for it.  A body that is cut is complete
\* for it where the cut is, because the parser looks for "Content-Length" and the server
\* writes "content-length".)
AnswerIsReadBack(calls, k) ==
  LET answer == Prepared(Made(calls))
      head == AnswerHead(answer)
      text == head \o answer.body
      got == ReceiveData(Reset, SelectSeq(<<SubSeq(text, 1, k), SubSeq(text, k + 1, Len(text))>>,
                                          LAMBDA chunk : chunk # <<>>))
      cookies == {c.name : c \in {d \in ToSet(calls) : d.is = "cookie"}}
      own == {Header(ContentTypeSet, answer.type \o <<"; charset">>),
              Header(ContentLengthSet, LengthText(answer.body))}
             \cup (IF cookies # {} THEN LET c == FirstCookie(calls)
                                 IN  {Header(SetCookie, c.name \o <<"=">> \o c.value)} ELSE {})
  IN  (k < Len(head) /\ Harmless(text, k)) \/ k \in {Len(head), Len(text)} =>
        /\ got.is = IF answer.body = <<>> THEN "failed" ELSE "complete"
        /\ got.parser.payload = answer.body
        /\ got.parser.path = <<answer.code>>
        /\ got.parser.headers = HeadersOf([headers |-> Told(calls) \o SetToSeq(own)])
        /\ SubSeq(answer.headers, 1, Len(Told(calls))) = Told(calls)
        /\ Len(answer.headers) = Len(Told(calls)) + 2 + Cardinality(cookies)
        /\ \A h \in own : Cardinality({i \in DOMAIN answer.headers : answer.headers[i] = h}) = 1
=============================================================================
