----------------------------- MODULE HTTPExchange -----------------------------
(***************************************************************************)
(* Requests of BKHTTPClient to a BKHTTPServer: the two programs, each with *)
(* its threads and its timeouts, and the connections between them.  The    *)
(* server has other clients too, of which nothing is known but that they   *)
(* connect, send and close.                                                *)
(***************************************************************************)
EXTENDS HTTPClient, HTTPServer

vars == <<socketVars, clientVars, serverVars>>

Init == SocketsInit /\ ClientInit /\ ServerInit

Up == alive /\ listening = "open"

StrangerConnects(r) ==
  /\ Up /\ link[r].at = "none"
  /\ link' = [link EXCEPT ![r].at = "backlog", ![r].to["server"] = Parts[r]]
  /\ UNCHANGED <<table, blocked, clientVars, serverVars>>

StrangerCloses(r) ==
  /\ link[r].at = "accepted" /\ "client" \notin link[r].shut
  /\ link' = [link EXCEPT ![r].shut = @ \cup {"client"}]
  /\ UNCHANGED <<table, blocked, clientVars, serverVars>>

Next ==
  \/ ClientNext(Up) /\ UNCHANGED serverVars
  \/ ServerNext /\ UNCHANGED clientVars
  \/ \E r \in Stranger : StrangerConnects(r) \/ StrangerCloses(r)

Spec == Init /\ [][Next]_vars

\* A part of a request, and an answer: who made it, and of which requests' bytes.
Part == Request \X {"head", "body"}
Answer == [by : Request, asked : SUBSET Request]

Socket == {-1} \cup Fd

Place ==
  {"none", "queued", "resolve", "socket", "connect", "refused", "check", "send", "checkAgain",
   "receive", "waits", "close", "scheduled", "test", "shut", "closing", "approve", "returned"}

Object ==
  [at : [User -> Place], initialized : BOOLEAN, socket : Socket, closed : BOOLEAN,
   approvals : 0..2, freed : BOOLEAN, tried : Nat, got : SUBSET Answer, ok : BOOLEAN]

Stage ==
  {"none", "queued", "initialize", "head", "headWaits", "body", "bodyWaits", "callback", "send",
   "cancel", "scheduled", "shut", "approve", "returned", "undefined"}

Connection ==
  [at : [Holder -> Stage], socket : Socket, operational : BOOLEAN, approvals : 0..2,
   lock : Holder \cup {"none"}, freed : BOOLEAN, initialized : BOOLEAN, got : SUBSET Part]

Link ==
  [at : {"none", "backlog", "accepted", "reset"},
   to : [client : Seq(Answer), server : Seq(Part)], shut : SUBSET Process]

TypeOK ==
  /\ table \in [Process -> [Fd -> Request \cup {Free, Console}]]
  /\ link \in [Request -> Link]
  /\ blocked \in [Process -> [Request -> Request \cup {Free}]]
  /\ req \in [Request -> Object]
  /\ conn \in [Request -> Connection]
  /\ raced \subseteq Request /\ strayed \subseteq Request
  /\ alive \in BOOLEAN /\ started \in BOOLEAN /\ callback \in BOOLEAN
  /\ listening \in {"none", "open", "closed"}
  /\ listener \in {"none", "new", "created", "accepting", "exited", "undefined"}
  /\ ending \in {"no", "join", "deleted"}

-----------------------------------------------------------------------------
\* An answer that ProcessRequest reports was made by the server's task of the same
\* connection, from bytes of the same request.  The server's timeout may close a connection
\* while its task is about to read, and the number of the descriptor be given to another
\* connection, whose bytes the task then reads: SendData, which asks bSocketOperational under
\* the mutex, must then not send.  (On the client's side the same confusion is possible once
\* a request was cancelled at a bad moment.)
OwnAnswerOnly ==
  raced = {} => \A r \in Request :
    /\ req[r].ok => req[r].got = {[by |-> r, asked |-> {r}]}
    /\ ToSet(link[r].to["client"]) \subseteq {[by |-> r, asked |-> {r}]}

\* The client uses a descriptor that is not its own (one it closed already, which may be
\* another request's by now, or the number 0 of a HTTPSocket not initialised yet) only if CancelRequest came while
\* a request was connecting, sending or closing: a cancellation of one that waits for its
\* answer closes its socket exactly once, although bSocketClosed has no mutex.
StraysOnlyWhenRaced == strayed # {} => raced # {}

\* The accepted socket is deleted by the second of its two holders and the request by the
\* second of its two users: whoever is still to touch one finds it alive.
NothingFreedIsUsed ==
  \A r \in Request :
    /\ conn[r].freed => \A h \in Holder : At(r, h, "returned")
    /\ req[r].freed => \A u \in User : Does(r, u, "returned")

\* Once CancelRequest has dealt with a request whose task had begun, the task is not left
\* waiting for an answer that may never come: shutdown before close wakes it.  (The timeout of
\* the server, which closes before it shuts, wakes nobody.)
CancelledIsWoken ==
  raced = {} => \A r \in Request :
    Does(r, "task", "waits") /\ req[r].at["timeout"] \in {"closing", "approve", "returned"}
      /\ ~req[r].initialized
    => Arrived("client", r) # <<>> \/ Ended("client", r)
=============================================================================
