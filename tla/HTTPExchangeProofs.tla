-------------------------- MODULE HTTPExchangeProofs --------------------------
(***************************************************************************)
(* Theorems about HTTPExchange, for any requests and descriptors: nothing  *)
(* that was freed is used, and, unless a cancellation raced, a descriptor  *)
(* is used by whom it belongs to, an answer is of the request's own bytes, *)
(* and a cancelled request is woken.                                       *)
(***************************************************************************)
EXTENDS HTTPExchange, FiniteSetTheorems, WellFoundedInduction, TLAPS

\* The lowest number of a set of numbers is in it.
LEMMA LowestOf ==
  ASSUME NEW S, S \subseteq Nat, S # {}
  PROVE  Min(S) \in S
<1> DEFINE T == {0..x : x \in S}
<1>1. T \subseteq FiniteSubsetsOf(Nat) /\ T # {}
  <2>1. \A x \in S : 0..x \subseteq Nat /\ IsFiniteSet(0..x)
    BY FS_Interval
  <2> QED BY <2>1 DEF FiniteSubsetsOf
<1>2. PICK t \in T : \A u \in T : <<u, t>> \notin StrictSubsetOrdering(Nat)
  <2> HIDE DEF T
  <2> QED BY <1>1, FS_StrictSubsetOrderingWellFounded, WFMin
<1>3. PICK x \in S : t = 0..x
  OBVIOUS
<1>4. ASSUME NEW y \in S, y < x PROVE FALSE
  <2>1. 0..y \in T /\ 0..y \subseteq 0..x /\ 0..y # 0..x /\ 0..x \subseteq Nat
    <3>1. x \in 0..x /\ x \notin 0..y
      BY <1>4
    <3> QED BY <1>4, <3>1
  <2>2. <<0..y, 0..x>> \in StrictSubsetOrdering(Nat)
    BY <2>1 DEF StrictSubsetOrdering
  <2> QED BY <1>2, <1>3, <2>1, <2>2
<1>5. \A y \in S : x <= y
  BY <1>4
<1> QED BY <1>5 DEF Min

-----------------------------------------------------------------------------
(* The invariant.                                                          *)

Count(a, b) == (IF a THEN 1 ELSE 0) + (IF b THEN 1 ELSE 0)

\* Of an object: each of its two users approves once, when it returns; there is no timeout
\* without a task.
ObjectInv(o) ==
  /\ o.at["task"] = "none" => o.at["timeout"] = "none"
  /\ o.approvals = Count(o.at["task"] = "returned", o.at["timeout"] = "returned")
  /\ o.freed => o.at["task"] = "returned" /\ o.at["timeout"] = "returned"

\* Where the client's task has its socket, unless the timeout closed it.
Working == {"connect", "refused", "check", "send", "checkAgain", "receive", "waits", "close", "shut"}
Linked == {"check", "send", "checkAgain", "receive", "waits"}
Running == {"resolve", "socket", "connect", "refused", "check", "send", "checkAgain", "receive"}

\* Who uses the socket next, or closes it, has to own it.
Owns(o) ==
  \/ o.at["task"] \in Working /\ ~o.closed
  \/ o.at["task"] = "closing"
  \/ o.at["timeout"] = "closing" /\ o.socket # -1

\* A timeout is through with a request that had begun.
Cancelled(o) == o.at["timeout"] \in {"closing", "approve", "returned"} /\ ~o.initialized

\* The two users of an object do not both close its socket: the timeout closes it while the
\* task waits, or finds it closed, or not open.
CloseInv(o) ==
  LET task == o.at["task"]
      timeout == o.at["timeout"] IN
  /\ task \in Running \cup {"none", "queued", "shut"} => ~o.closed
  /\ task = "closing" => o.closed
  /\ timeout \in {"test", "shut"} => task \in {"waits", "approve", "returned"}
  /\ timeout = "shut" \/ (timeout = "test" /\ task = "waits") => ~o.closed
  /\ timeout = "closing" => o.closed /\ task \in {"waits", "close", "approve", "returned"}
  /\ o.closed /\ task \in {"waits", "close"} => timeout \in {"closing", "approve", "returned"}
  /\ task = "socket" => o.socket = -1
  /\ task \in {"approve", "returned"} => o.closed \/ o.socket = -1
  /\ task \in Running => o.initialized
  /\ timeout = "scheduled" => o.initialized \/ task \in {"none", "queued"}

\* A descriptor that is to be used, or closed, is the request's own.
HoldsInv(r) ==
  Owns(req[r]) => req[r].socket \in Fd /\ table["client"][req[r].socket] = r

\* Who waits, waits on a connection.
WaitsOnOne(r) == req[r].at["task"] = "waits" => blocked["client"][r] \in Request

\* The task waits on its own connection, which a timeout that is through with it has shut.
WaitInv(r) ==
  /\ req[r].at["task"] \in Linked => link[r].at # "none"
  /\ req[r].at["task"] = "waits" =>
       /\ blocked["client"][r] = r
       /\ Cancelled(req[r]) => "client" \in link[r].shut

AnswerTo(r) == [by |-> r, asked |-> {r}]

\* What goes over a connection is of its own request.
PayloadInv(r) ==
  /\ link[r].to["server"] \in Seq({r} \X {"head", "body"})
  /\ link[r].to["client"] \in Seq({AnswerTo(r)})

\* And so is what either end has of it.
AnswerInv(r) ==
  /\ req[r].got \subseteq {AnswerTo(r)}
  /\ req[r].ok => req[r].got # {}
RequestInv(r) == conn[r].operational => conn[r].got \subseteq {r} \X {"head", "body"}

UnracedInv(r) ==
  /\ CloseInv(req[r]) /\ HoldsInv(r) /\ WaitInv(r)
  /\ PayloadInv(r) /\ AnswerInv(r) /\ RequestInv(r)

\* Of a connection at the server: its task may return without approving.
ConnectionInv(c) ==
  /\ c.approvals <= Count(c.at["worker"] = "returned", c.at["timer"] = "returned")
  /\ c.freed => c.at["worker"] = "returned" /\ c.at["timer"] = "returned"
  /\ c.at["worker"] \in {"callback", "send"} => c.got # {}

\* An accepted socket has its descriptor until it is not operational any more, and its task
\* receives from its own connection.
AcceptedInv(r) ==
  /\ link[r].at # "accepted" => conn[r] = NoConnection
  /\ alive /\ conn[r].operational =>
       conn[r].socket \in Fd /\ table["server"][conn[r].socket] = r
  /\ alive /\ conn[r].at["worker"] \in {"headWaits", "bodyWaits"} =>
       /\ blocked["server"][r] \in Request
       /\ conn[r].operational => blocked["server"][r] = r

ExchangeInv ==
  /\ TypeOK
  /\ \A r \in Request :
       ObjectInv(req[r]) /\ WaitsOnOne(r) /\ ConnectionInv(conn[r]) /\ AcceptedInv(r)
  /\ raced = {} => strayed = {} /\ \A r \in Request : UnracedInv(r)

-----------------------------------------------------------------------------
(* What the operating system does.                                         *)

\* The new descriptor was free.
LEMMA OpenedIs ==
  ASSUME TypeOK, NEW p \in Process, NEW d \in Request, FreeFds(p) # {}, table' = Opened(p, d)
  PROVE  /\ Min(FreeFds(p)) \in Fd
         /\ table[p][Min(FreeFds(p))] = Free /\ table'[p][Min(FreeFds(p))] = d
         /\ table' \in [Process -> [Fd -> Request \cup {Free, Console}]]
         /\ \A q \in Process, f \in Fd :
              q # p \/ f # Min(FreeFds(p)) => table'[q][f] = table[q][f]
<1>1. FreeFds(p) \subseteq Nat
  BY MaxFdIsNatural DEF FreeFds, Fd
<1>2. PICK f \in FreeFds(p) : f = Min(FreeFds(p))
  BY <1>1, LowestOf
<1>3. f \in Fd /\ table[p][f] = Free
  BY DEF FreeFds
<1>4. table' = [table EXCEPT ![p][f] = d]
  BY <1>2 DEF Opened
<1> QED BY <1>2, <1>3, <1>4 DEF TypeOK

\* Only the descriptor itself is closed.
LEMMA ClosedIs ==
  ASSUME TypeOK, NEW p \in Process, NEW g \in Socket, table' = Closed(p, g)
  PROVE  /\ table' \in [Process -> [Fd -> Request \cup {Free, Console}]]
         /\ \A q \in Process, f \in Fd : q # p \/ f # g => table'[q][f] = table[q][f]
BY DEF TypeOK, Closed

\* Connections keep their form: what is shut, and what is sent either way.
LEMMA LinkUpdates ==
  ASSUME NEW l \in Link
  PROVE  /\ l.to["server"] \in Seq(Part) /\ l.to["client"] \in Seq(Answer)
         /\ \A s \in Seq(Part) : \A n : n = [l EXCEPT !.to["server"] = s] =>
              /\ n \in Link /\ n.at = l.at /\ n.shut = l.shut
              /\ n.to["client"] = l.to["client"] /\ n.to["server"] = s
         /\ \A s \in Seq(Answer) : \A n : n = [l EXCEPT !.to["client"] = s] =>
              /\ n \in Link /\ n.at = l.at /\ n.shut = l.shut
              /\ n.to["server"] = l.to["server"] /\ n.to["client"] = s
         /\ \A p \in Process : \A n : n = [l EXCEPT !.shut = @ \cup {p}] =>
              /\ n \in Link /\ n.at = l.at /\ n.to = l.to /\ n.shut = l.shut \cup {p}
BY DEF Link

\* shutdown changes one connection, and only that it is shut.
LEMMA ShutIs ==
  ASSUME TypeOK, NEW p \in Process, NEW g \in Socket, link' = Shut(p, g)
  PROVE  /\ link' \in [Request -> Link]
         /\ \A d \in Request : /\ link'[d].at = link[d].at /\ link'[d].to = link[d].to
                               /\ link[d].shut \subseteq link'[d].shut
                               /\ Refers(p, g) = d /\ link[d].at # "none" => p \in link'[d].shut
<1>1. CASE Refers(p, g) \in Request /\ link[Refers(p, g)].at # "none"
  <2>1. PICK d \in Request : d = Refers(p, g) /\ link[d].at # "none"
    BY <1>1
  <2>2. link' = [link EXCEPT ![d].shut = @ \cup {p}]
    BY <1>1, <2>1 DEF Shut
  <2>3. PICK n : n = [link[d] EXCEPT !.shut = @ \cup {p}]
    OBVIOUS
  <2>4. link' = [link EXCEPT ![d] = n]
    BY <2>2, <2>3
  <2>5. link \in [Request -> Link]
    BY DEF TypeOK
  <2>6. n \in Link /\ n.at = link[d].at /\ n.to = link[d].to /\ n.shut = link[d].shut \cup {p}
    BY <2>3, <2>5, LinkUpdates
  <2> QED BY <2>1, <2>4, <2>5, <2>6
<1>2. CASE ~(Refers(p, g) \in Request /\ link[Refers(p, g)].at # "none")
  <2>1. link' = link
    BY <1>2 DEF Shut
  <2> QED BY <1>2, <2>1 DEF TypeOK
<1> QED BY <1>1, <1>2

\* What the client sends goes to the server, on the connection its descriptor refers to.
LEMMA ClientSends ==
  ASSUME TypeOK, NEW g \in Socket, NEW items \in Seq(Part), link' = Sent("client", g, items)
  PROVE  /\ link' \in [Request -> Link]
         /\ \A d \in Request :
              /\ link'[d].at = link[d].at /\ link'[d].shut = link[d].shut
              /\ link'[d].to["client"] = link[d].to["client"]
              /\ \/ link'[d].to["server"] = link[d].to["server"]
                 \/ Refers("client", g) = d /\ link'[d].to["server"] = link[d].to["server"] \o items
<1>1. CASE link' = link
  BY <1>1 DEF TypeOK
<1>2. CASE Refers("client", g) \in Request
           /\ link' = [link EXCEPT ![Refers("client", g)].to["server"] = @ \o items]
  <2>1. PICK d \in Request : d = Refers("client", g)
    BY <1>2
  <2>2. link \in [Request -> Link]
    BY DEF TypeOK
  <2>3. PICK s \in Seq(Part) : s = link[d].to["server"] \o items
    <3>1. PICK old \in Seq(Part) : old = link[d].to["server"]
      BY <2>2, LinkUpdates
    <3>2. old \o items \in Seq(Part)
      OBVIOUS
    <3> QED BY <3>1, <3>2
  <2>4. PICK n : n = [link[d] EXCEPT !.to["server"] = s]
    OBVIOUS
  <2>5. link' = [link EXCEPT ![d] = n]
    BY <1>2, <2>1, <2>3, <2>4
  <2>6. /\ n \in Link /\ n.at = link[d].at /\ n.shut = link[d].shut
        /\ n.to["client"] = link[d].to["client"] /\ n.to["server"] = s
    BY <2>2, <2>4, LinkUpdates
  <2> QED BY <2>1, <2>2, <2>3, <2>5, <2>6
<1> QED BY <1>1, <1>2 DEF Sent, Other

\* The same the other way round.
LEMMA ServerSends ==
  ASSUME TypeOK, NEW g \in Socket, NEW items \in Seq(Answer), link' = Sent("server", g, items)
  PROVE  /\ link' \in [Request -> Link]
         /\ \A d \in Request :
              /\ link'[d].at = link[d].at /\ link'[d].shut = link[d].shut
              /\ link'[d].to["server"] = link[d].to["server"]
              /\ \/ link'[d].to["client"] = link[d].to["client"]
                 \/ Refers("server", g) = d /\ link'[d].to["client"] = link[d].to["client"] \o items
<1>1. CASE link' = link
  BY <1>1 DEF TypeOK
<1>2. CASE Refers("server", g) \in Request
           /\ link' = [link EXCEPT ![Refers("server", g)].to["client"] = @ \o items]
  <2>1. PICK d \in Request : d = Refers("server", g)
    BY <1>2
  <2>2. link \in [Request -> Link]
    BY DEF TypeOK
  <2>3. PICK s \in Seq(Answer) : s = link[d].to["client"] \o items
    <3>1. PICK old \in Seq(Answer) : old = link[d].to["client"]
      BY <2>2, LinkUpdates
    <3>2. old \o items \in Seq(Answer)
      OBVIOUS
    <3> QED BY <3>1, <3>2
  <2>4. PICK n : n = [link[d] EXCEPT !.to["client"] = s]
    OBVIOUS
  <2>5. link' = [link EXCEPT ![d] = n]
    BY <1>2, <2>1, <2>3, <2>4
  <2>6. /\ n \in Link /\ n.at = link[d].at /\ n.shut = link[d].shut
        /\ n.to["server"] = link[d].to["server"] /\ n.to["client"] = s
    BY <2>2, <2>4, LinkUpdates
  <2> QED BY <2>1, <2>2, <2>3, <2>5, <2>6
<1> QED BY <1>1, <1>2 DEF Sent, Other

\* A thread that returns from recv waits no more.
LEMMA LeftIs ==
  ASSUME TypeOK, NEW p \in Process, NEW r \in Request, blocked' = Left(p, r)
  PROVE  /\ blocked' \in [Process -> [Request -> Request \cup {Free}]]
         /\ \A q \in Process, d \in Request :
              q # p \/ d # r => blocked'[q][d] = blocked[q][d]
BY DEF TypeOK, Left

\* Initially nothing is connected, and no request is made.
LEMMA ExchangeInit == Init => ExchangeInv
<1> SUFFICES ASSUME Init PROVE ExchangeInv
  OBVIOUS
<1> USE DEF Init, SocketsInit, ClientInit, ServerInit
<1>1. NewObject \in Object
  <2>1. 0 \in Socket
    BY MaxFdIsNatural DEF Socket, Fd
  <2> QED BY <2>1 DEF NewObject, Object, Place
<1>2. NoConnection \in Connection
  BY DEF NoConnection, Connection, Stage, Socket
<1>3. link \in [Request -> Link]
  BY DEF Link
<1>4. table \in [Process -> [Fd -> Request \cup {Free, Console}]]
  OBVIOUS
<1>5. TypeOK
  BY <1>1, <1>2, <1>3, <1>4 DEF TypeOK
<1>6. ASSUME NEW r \in Request
      PROVE  ObjectInv(req[r]) /\ WaitsOnOne(r) /\ ConnectionInv(conn[r]) /\ AcceptedInv(r)
  <2>1. req[r] = NewObject /\ conn[r] = NoConnection
    OBVIOUS
  <2>2. ObjectInv(req[r]) /\ WaitsOnOne(r)
    BY <2>1 DEF ObjectInv, WaitsOnOne, NewObject, Count, User
  <2>3. ConnectionInv(conn[r]) /\ AcceptedInv(r)
    BY <2>1 DEF ConnectionInv, AcceptedInv, NoConnection, Count, Holder
  <2> QED BY <2>2, <2>3
<1>7. ASSUME NEW r \in Request PROVE UnracedInv(r)
  <2>1. /\ req[r] = NewObject /\ conn[r] = NoConnection
        /\ NewObject.at["task"] = "none" /\ NewObject.at["timeout"] = "none"
    BY DEF NewObject, User
  <2>2. CloseInv(req[r]) /\ HoldsInv(r)
    BY <2>1 DEF CloseInv, HoldsInv, Owns, NewObject, Working, Running
  <2>3. WaitInv(r)
    BY <2>1 DEF WaitInv, Linked
  <2>4. PayloadInv(r)
    <3>1. link[r].to["server"] = <<>> /\ link[r].to["client"] = <<>>
      OBVIOUS
    <3>2. <<>> \in Seq({r} \X {"head", "body"}) /\ <<>> \in Seq({AnswerTo(r)})
      OBVIOUS
    <3> QED BY <3>1, <3>2 DEF PayloadInv
  <2>5. AnswerInv(r) /\ RequestInv(r)
    BY <2>1 DEF NewObject, NoConnection, AnswerInv, RequestInv
  <2> QED BY <2>2, <2>3, <2>4, <2>5 DEF UnracedInv
<1> QED BY <1>5, <1>6, <1>7 DEF ExchangeInv

-----------------------------------------------------------------------------
(* What a step of the client has to keep.                                  *)

\* The client disturbs neither the server nor, as long as no request was cancelled at a bad
\* moment, another request.
LEMMA ClientStepKeeps ==
  ASSUME ExchangeInv, NEW r \in Request, NEW n \in Object, ObjectInv(n),
         req' = [req EXCEPT ![r] = n],
         UNCHANGED serverVars,
         table' \in [Process -> [Fd -> Request \cup {Free, Console}]],
         \A f \in Fd : table'["server"][f] = table["server"][f],
         link' \in [Request -> Link],
         \A d \in Request : /\ \/ link'[d].at = link[d].at
                               \/ link[d].at = "none" /\ link'[d].at = "backlog"
                            /\ link[d].shut \subseteq link'[d].shut,
         blocked' \in [Process -> [Request -> Request \cup {Free}]],
         \A d \in Request : blocked'["server"][d] = blocked["server"][d],
         n.at["task"] = "waits" => blocked'["client"][r] \in Request,
         \A d \in Request : d # r => blocked'["client"][d] = blocked["client"][d],
         raced \subseteq raced', raced' \subseteq Request, strayed' \subseteq Request,
         raced' = {} =>
           /\ strayed' = {}
           /\ CloseInv(n) /\ HoldsInv(r)' /\ WaitInv(r)'
           /\ n.got \subseteq {AnswerTo(r)} /\ (n.ok => n.got # {})
           /\ \A d \in Request : PayloadInv(d)'
           /\ \A d \in Request \ {r} :
                Owns(req[d]) => table'["client"][req[d].socket] = table["client"][req[d].socket]
  PROVE  ExchangeInv'
<1>1. /\ req' \in [Request -> Object] /\ req'[r] = n
      /\ \A q \in Request : q # r => req'[q] = req[q]
  BY DEF ExchangeInv, TypeOK
<1>2. TypeOK'
  BY <1>1 DEF ExchangeInv, TypeOK, serverVars
<1>3. ASSUME NEW d \in Request
      PROVE  /\ ObjectInv(req'[d]) /\ WaitsOnOne(d)' /\ ConnectionInv(conn'[d])
             /\ AcceptedInv(d)'
  <2>1. ObjectInv(req'[d]) /\ WaitsOnOne(d)'
    BY <1>1 DEF ExchangeInv, WaitsOnOne
  <2>2. ConnectionInv(conn'[d])
    BY DEF ExchangeInv, serverVars
  <2>3. AcceptedInv(d)'
    <3>1. AcceptedInv(d) /\ UNCHANGED <<alive, conn>>
      BY DEF ExchangeInv, serverVars
    <3>2. link'[d].at # "accepted" => link[d].at # "accepted"
      OBVIOUS
    <3> QED BY <3>1, <3>2 DEF AcceptedInv
  <2> QED BY <2>1, <2>2, <2>3
<1>4. ASSUME raced' = {}, NEW d \in Request PROVE UnracedInv(d)'
  <2>1. raced = {} /\ UnracedInv(d) /\ UNCHANGED conn
    BY <1>4 DEF ExchangeInv, serverVars
  <2>2. PayloadInv(d)' /\ RequestInv(d)'
    BY <1>4, <2>1 DEF UnracedInv, RequestInv
  <2>3. CASE d = r
    BY <1>1, <1>4, <2>2, <2>3 DEF UnracedInv, AnswerInv
  <2>4. CASE d # r
    <3>1. req'[d] = req[d] /\ blocked'["client"][d] = blocked["client"][d]
      BY <1>1, <1>4, <2>4
    <3>2. CloseInv(req'[d]) /\ AnswerInv(d)'
      BY <2>1, <3>1 DEF UnracedInv, AnswerInv
    <3>3. HoldsInv(d)'
      BY <1>4, <2>1, <2>4, <3>1 DEF UnracedInv, HoldsInv
    <3>4. WaitInv(d)'
      <4>1. /\ link[d].at # "none" => link'[d].at # "none"
            /\ "client" \in link[d].shut => "client" \in link'[d].shut
        OBVIOUS
      <4> QED BY <2>1, <3>1, <4>1 DEF UnracedInv, WaitInv
    <3> QED BY <2>2, <3>2, <3>3, <3>4 DEF UnracedInv
  <2> QED BY <2>3, <2>4
<1> QED BY <1>2, <1>3, <1>4 DEF ExchangeInv

\* The same for a step that leaves the sockets alone.
LEMMA ObjectStepKeeps ==
  ASSUME ExchangeInv, NEW r \in Request, NEW n \in Object, ObjectInv(n),
         req' = [req EXCEPT ![r] = n],
         UNCHANGED <<socketVars, serverVars, strayed>>,
         raced \subseteq raced', raced' \subseteq Request,
         n.got = req[r].got, n.ok = req[r].ok,
         n.at["task"] = "waits" => req[r].at["task"] = "waits",
         raced' = {} =>
           /\ CloseInv(n)
           /\ Owns(n) => Owns(req[r]) /\ n.socket = req[r].socket
           /\ n.at["task"] \in Linked => req[r].at["task"] \in Linked
           /\ n.at["task"] = "waits" /\ Cancelled(n) => Cancelled(req[r])
  PROVE  ExchangeInv'
<1>1. TypeOK /\ UNCHANGED <<table, link, blocked, strayed, serverVars>>
  BY DEF ExchangeInv, socketVars
<1>2. req'[r] = n
  BY <1>1 DEF TypeOK
<1>3. /\ table' \in [Process -> [Fd -> Request \cup {Free, Console}]]
      /\ link' \in [Request -> Link]
      /\ blocked' \in [Process -> [Request -> Request \cup {Free}]]
      /\ strayed' \subseteq Request
  BY <1>1 DEF TypeOK
<1>4. ASSUME raced' = {}
      PROVE  /\ strayed' = {}
             /\ HoldsInv(r)' /\ WaitInv(r)'
             /\ n.got \subseteq {AnswerTo(r)} /\ (n.ok => n.got # {})
             /\ \A d \in Request : PayloadInv(d)'
  <2>1. strayed = {} /\ \A d \in Request : UnracedInv(d)
    BY <1>4 DEF ExchangeInv
  <2>2. HoldsInv(r)' /\ WaitInv(r)'
    BY <1>1, <1>2, <1>4, <2>1 DEF UnracedInv, HoldsInv, WaitInv
  <2>3. n.got \subseteq {AnswerTo(r)} /\ (n.ok => n.got # {})
    BY <2>1 DEF UnracedInv, AnswerInv
  <2>4. \A d \in Request : PayloadInv(d)'
    BY <1>1, <2>1 DEF UnracedInv, PayloadInv
  <2> QED BY <1>1, <2>1, <2>2, <2>3, <2>4
<1>5. \A d \in Request : link[d].shut \subseteq link'[d].shut /\ link'[d].at = link[d].at
  BY <1>1
<1>6. n.at["task"] = "waits" => blocked'["client"][r] \in Request
  BY <1>1 DEF ExchangeInv, WaitsOnOne
<1> QED BY <1>1, <1>3, <1>4, <1>5, <1>6, ClientStepKeeps


\* The task and the timeout are made.
LEMMA MakingKeeps ==
  ASSUME ExchangeInv, NEW r \in Request, NewHTTPRequest(r), UNCHANGED serverVars
  PROVE  ExchangeInv'
<1>0. req \in [Request -> Object] /\ raced \subseteq Request
  BY DEF ExchangeInv, TypeOK
<1>1. PICK o \in Object : o = req[r]
  BY <1>0
<1>2. PICK n : n = [o EXCEPT !.at["task"] = "queued", !.at["timeout"] = "scheduled"]
  OBVIOUS
<1>3. /\ req' = [req EXCEPT ![r] = n] /\ o.at["task"] = "none"
      /\ UNCHANGED <<socketVars, raced, strayed>>
  BY <1>0, <1>1, <1>2 DEF NewHTTPRequest, Does
<1>4. n \in Object
  BY <1>2 DEF Object, User, Place
<1>5. n.at["task"] = "queued" /\ n.at["timeout"] = "scheduled"
  BY <1>2 DEF Object, User
<1>6. /\ n.closed = o.closed /\ n.socket = o.socket /\ n.approvals = o.approvals
      /\ n.freed = o.freed /\ n.got = o.got /\ n.ok = o.ok
  BY <1>2 DEF Object
<1>7. ObjectInv(n)
  BY <1>1, <1>3, <1>5, <1>6 DEF ExchangeInv, ObjectInv, Count
<1>8. ASSUME raced' = {} PROVE CloseInv(n)
  <2>1. CloseInv(o)
    BY <1>1, <1>3, <1>8 DEF ExchangeInv, UnracedInv
  <2> QED BY <2>1, <1>3, <1>5, <1>6 DEF CloseInv, Running
<1>9. ~Owns(n) /\ n.at["task"] \notin Linked
  BY <1>5 DEF Owns, Working, Linked
<1> QED BY <1>0, <1>1, <1>3, <1>4, <1>5, <1>6, <1>7, <1>8, <1>9, ObjectStepKeeps

\* The task begins.
LEMMA ProcessingKeeps ==
  ASSUME ExchangeInv, NEW r \in Request, ProcessRequest(r), UNCHANGED serverVars
  PROVE  ExchangeInv'
<1>0. req \in [Request -> Object] /\ raced \subseteq Request
  BY DEF ExchangeInv, TypeOK
<1>1. PICK o \in Object : o = req[r]
  BY <1>0
<1>2. PICK n : n = [o EXCEPT !.initialized = TRUE, !.at["task"] = "resolve"]
  OBVIOUS
<1>3. /\ req' = [req EXCEPT ![r] = n] /\ o.at["task"] = "queued"
      /\ UNCHANGED <<socketVars, raced, strayed>>
  BY <1>0, <1>1, <1>2 DEF ProcessRequest, Does
<1>4. n \in Object
  BY <1>2 DEF Object, User, Place
<1>5. n.at["task"] = "resolve" /\ n.at["timeout"] = o.at["timeout"]
  BY <1>2 DEF Object, User
<1>6. /\ n.initialized = TRUE /\ n.closed = o.closed /\ n.socket = o.socket
      /\ n.approvals = o.approvals /\ n.freed = o.freed /\ n.got = o.got /\ n.ok = o.ok
  BY <1>2 DEF Object
<1>7. ObjectInv(n)
  BY <1>1, <1>3, <1>5, <1>6 DEF ExchangeInv, ObjectInv, Count
<1>8. ASSUME raced' = {} PROVE CloseInv(n) /\ ~Owns(n)
  <2>1. CloseInv(o)
    BY <1>1, <1>3, <1>8 DEF ExchangeInv, UnracedInv
  <2>2. n.at["timeout"] # "closing"
    BY <2>1, <1>3, <1>5 DEF CloseInv
  <2> QED BY <2>1, <2>2, <1>3, <1>5, <1>6 DEF CloseInv, Owns, Running, Working
<1>9. n.at["task"] \notin Linked /\ n.at["task"] # "waits"
  BY <1>5 DEF Linked
<1> QED BY <1>0, <1>1, <1>3, <1>4, <1>6, <1>7, <1>8, <1>9, ObjectStepKeeps


\* The name is known, or the task is done.
LEMMA ResolvingKeeps ==
  ASSUME ExchangeInv, NEW r \in Request, Resolve(r), UNCHANGED serverVars
  PROVE  ExchangeInv'
<1>0. req \in [Request -> Object] /\ raced \subseteq Request
  BY DEF ExchangeInv, TypeOK
<1>1. PICK o \in Object : o = req[r]
  BY <1>0
<1>2. PICK a \in {"socket", "approve"} : req' = [req EXCEPT ![r].socket = -1, ![r].at["task"] = a]
  BY DEF Resolve
<1>3. PICK n : n = [o EXCEPT !.socket = -1, !.at["task"] = a]
  OBVIOUS
<1>4. /\ req' = [req EXCEPT ![r] = n] /\ o.at["task"] = "resolve"
      /\ UNCHANGED <<socketVars, raced, strayed>>
  <2>1. req' = [req EXCEPT ![r] = n]
    BY <1>0, <1>1, <1>2, <1>3
  <2> QED BY <1>1, <2>1 DEF Resolve, Does
<1>5. n \in Object
  BY <1>3 DEF Object, User, Place, Socket
<1>6. n.at["task"] = a /\ n.at["timeout"] = o.at["timeout"]
  BY <1>3 DEF Object, User
<1>7. /\ n.initialized = o.initialized /\ n.closed = o.closed /\ n.socket = -1
      /\ n.approvals = o.approvals /\ n.freed = o.freed /\ n.got = o.got /\ n.ok = o.ok
  BY <1>3 DEF Object
<1>8. ObjectInv(n)
  BY <1>1, <1>4, <1>6, <1>7 DEF ExchangeInv, ObjectInv, Count
<1>9. ASSUME raced' = {} PROVE CloseInv(n)
  <2>1. CloseInv(o)
    BY <1>1, <1>4, <1>9 DEF ExchangeInv, UnracedInv
  <2> QED BY <2>1, <1>4, <1>6, <1>7 DEF CloseInv, Running
<1>10. n.at["task"] \notin Linked /\ n.at["task"] # "waits" /\ ~Owns(n)
  BY <1>6, <1>7 DEF Linked, Owns, Working
<1> QED BY <1>0, <1>1, <1>4, <1>5, <1>7, <1>8, <1>9, <1>10, ObjectStepKeeps

\* The task looks at the flag before it sends, and before it receives.
LEMMA CheckingKeeps ==
  ASSUME ExchangeInv, NEW r \in Request, CheckBeforeSend(r) \/ CheckBeforeReceive(r),
         UNCHANGED serverVars
  PROVE  ExchangeInv'
<1>0. req \in [Request -> Object] /\ raced \subseteq Request
  BY DEF ExchangeInv, TypeOK
<1>1. PICK o \in Object : o = req[r]
  BY <1>0
<1>2. PICK a \in {"send", "checkAgain", "receive", "close"} :
        /\ req' = [req EXCEPT ![r].at["task"] = a]
        /\ a = "close" => ~o.initialized
  BY <1>1 DEF CheckBeforeSend, CheckBeforeReceive, TaskGoes
<1>3. PICK n : n = [o EXCEPT !.at["task"] = a]
  OBVIOUS
<1>4. /\ req' = [req EXCEPT ![r] = n] /\ o.at["task"] \in {"check", "checkAgain"}
      /\ UNCHANGED <<socketVars, raced, strayed>>
  BY <1>0, <1>1, <1>2, <1>3 DEF CheckBeforeSend, CheckBeforeReceive, Does
<1>5. n \in Object
  BY <1>3 DEF Object, User, Place
<1>6. n.at["task"] = a /\ n.at["timeout"] = o.at["timeout"]
  BY <1>3 DEF Object, User
<1>7. /\ n.initialized = o.initialized /\ n.closed = o.closed /\ n.socket = o.socket
      /\ n.approvals = o.approvals /\ n.freed = o.freed /\ n.got = o.got /\ n.ok = o.ok
  BY <1>3 DEF Object
<1>8. ObjectInv(n)
  BY <1>1, <1>4, <1>6, <1>7 DEF ExchangeInv, ObjectInv, Count
<1>9. ASSUME raced' = {}
      PROVE  CloseInv(n) /\ (Owns(n) => Owns(o)) /\ o.at["task"] \in Linked
  <2>1. CloseInv(o)
    BY <1>1, <1>4, <1>9 DEF ExchangeInv, UnracedInv
  <2>2. a # "close"
    BY <2>1, <1>2, <1>4 DEF CloseInv, Running
  <2>3. CloseInv(n)
    BY <2>1, <2>2, <1>4, <1>6, <1>7 DEF CloseInv, Running
  <2> QED BY <2>3, <1>4, <1>6, <1>7 DEF Owns, Working, Linked
<1>10. n.at["task"] # "waits"
  BY <1>6
<1> QED BY <1>0, <1>1, <1>4, <1>5, <1>7, <1>8, <1>9, <1>10, ObjectStepKeeps

\* CancelRequest: at a bad moment, the request is one that was raced.
LEMMA CancellingKeeps ==
  ASSUME ExchangeInv, NEW r \in Request, CancelRequest(r), UNCHANGED serverVars
  PROVE  ExchangeInv'
<1>0. req \in [Request -> Object] /\ raced \subseteq Request
  BY DEF ExchangeInv, TypeOK
<1>1. PICK o \in Object : o = req[r]
  BY <1>0
<1>2. PICK a \in {"test", "approve"} : a = IF o.initialized THEN "test" ELSE "approve"
  OBVIOUS
<1>3. PICK n : n = [o EXCEPT !.initialized = FALSE, !.at["timeout"] = a]
  OBVIOUS
<1>4. /\ req' = [req EXCEPT ![r] = n] /\ o.at["timeout"] = "scheduled"
      /\ UNCHANGED <<socketVars, strayed>>
      /\ raced \subseteq raced' /\ raced' \subseteq Request
      /\ raced' = {} => raced = {} /\ (o.initialized => Undisturbed(r))
  BY <1>0, <1>1, <1>2, <1>3 DEF CancelRequest, Does
<1>5. n \in Object
  BY <1>3 DEF Object, User, Place
<1>6. n.at["task"] = o.at["task"] /\ n.at["timeout"] = a
  BY <1>3 DEF Object, User
<1>7. /\ n.initialized = FALSE /\ n.closed = o.closed /\ n.socket = o.socket
      /\ n.approvals = o.approvals /\ n.freed = o.freed /\ n.got = o.got /\ n.ok = o.ok
  BY <1>3 DEF Object
<1>8. ObjectInv(n)
  BY <1>1, <1>4, <1>6, <1>7 DEF ExchangeInv, ObjectInv, Count
<1>9. ASSUME raced' = {}
      PROVE  CloseInv(n) /\ (Owns(n) => Owns(o)) /\ (n.at["task"] = "waits" => ~Cancelled(n))
  <2>1. CloseInv(o)
    BY <1>1, <1>4, <1>9 DEF ExchangeInv, UnracedInv
  <2>2. IF o.initialized THEN a = "test" /\ o.at["task"] \in {"waits", "approve", "returned"}
        ELSE a = "approve" /\ o.at["task"] \in {"none", "queued"}
    BY <2>1, <1>1, <1>2, <1>4, <1>9 DEF CloseInv, Undisturbed
  <2>3. CloseInv(n)
    BY <2>1, <2>2, <1>4, <1>6, <1>7 DEF CloseInv, Running
  <2> QED BY <2>2, <2>3, <1>4, <1>6, <1>7 DEF Owns, Cancelled, Working
<1> QED BY <1>0, <1>1, <1>4, <1>5, <1>6, <1>7, <1>8, <1>9, ObjectStepKeeps

\* CloseSocket asks whether the socket is closed already.
LEMMA TestingKeeps ==
  ASSUME ExchangeInv, NEW r \in Request, NEW u \in User, TestClosed(r, u), UNCHANGED serverVars
  PROVE  ExchangeInv'
<1>0. req \in [Request -> Object] /\ raced \subseteq Request
  BY DEF ExchangeInv, TypeOK
<1>1. PICK o \in Object : o = req[r]
  BY <1>0
<1>2. PICK a \in {"approve", "shut"} : a = IF o.closed THEN "approve" ELSE "shut"
  OBVIOUS
<1>3. PICK n : n = [o EXCEPT !.at[u] = a]
  OBVIOUS
<1>4. /\ req' = [req EXCEPT ![r] = n] /\ o.at[u] = IF u = "task" THEN "close" ELSE "test"
      /\ UNCHANGED <<socketVars, raced, strayed>>
  BY <1>0, <1>1, <1>2, <1>3 DEF TestClosed, Closing, Does
<1>5. n \in Object
  BY <1>3 DEF Object, User, Place
<1>6. n.at[u] = a /\ \A v \in User : v # u => n.at[v] = o.at[v]
  BY <1>3 DEF Object, User
<1>7. /\ n.initialized = o.initialized /\ n.closed = o.closed /\ n.socket = o.socket
      /\ n.approvals = o.approvals /\ n.freed = o.freed /\ n.got = o.got /\ n.ok = o.ok
  BY <1>3 DEF Object
<1>8. ObjectInv(n)
  BY <1>1, <1>4, <1>6, <1>7 DEF ExchangeInv, ObjectInv, Count, User
<1>9. ASSUME raced' = {}
      PROVE  /\ CloseInv(n) /\ (Owns(n) => Owns(o))
             /\ n.at["task"] \in Linked => o.at["task"] \in Linked
             /\ n.at["task"] = "waits" => ~Cancelled(n)
  <2>1. CloseInv(o)
    BY <1>1, <1>4, <1>9 DEF ExchangeInv, UnracedInv
  <2>2. CASE u = "task"
    <3>1. n.at["task"] = a /\ n.at["timeout"] = o.at["timeout"] /\ o.at["task"] = "close"
      BY <1>4, <1>6, <2>2 DEF User
    <3>2. CloseInv(n)
      BY <2>1, <3>1, <1>2, <1>7 DEF CloseInv, Running
    <3> QED BY <3>1, <3>2, <1>2, <1>7 DEF Owns, Linked, Working
  <2>3. CASE u = "timeout"
    <3>1. n.at["task"] = o.at["task"] /\ n.at["timeout"] = a /\ o.at["timeout"] = "test"
      BY <1>4, <1>6, <2>3 DEF User
    <3>2. CloseInv(n)
      BY <2>1, <3>1, <1>2, <1>7 DEF CloseInv, Running
    <3>3. n.at["task"] = "waits" => a = "shut"
      BY <2>1, <3>1, <1>2 DEF CloseInv
    <3> QED BY <3>1, <3>2, <3>3, <1>2, <1>7 DEF Owns, Cancelled
  <2> QED BY <2>2, <2>3 DEF User
<1>10. n.at["task"] = "waits" => o.at["task"] = "waits"
  BY <1>2, <1>6 DEF User
<1> QED BY <1>0, <1>1, <1>4, <1>5, <1>6, <1>7, <1>8, <1>9, <1>10, ObjectStepKeeps

\* A user approves, and the second one deletes the object.
LEMMA ApprovingKeeps ==
  ASSUME ExchangeInv, NEW r \in Request, NEW u \in User, DestroyApproval(r, u),
         UNCHANGED serverVars
  PROVE  ExchangeInv'
<1>0. req \in [Request -> Object] /\ raced \subseteq Request
  BY DEF ExchangeInv, TypeOK
<1>1. PICK o \in Object : o = req[r]
  BY <1>0
<1>2. PICK k \in Int : k = o.approvals + 1
  BY DEF Object
<1>3. PICK b \in BOOLEAN : b <=> k >= 2
  OBVIOUS
<1>4. PICK n : n = [o EXCEPT !.approvals = k, !.freed = (k >= 2), !.at[u] = "returned"]
  OBVIOUS
<1>5. /\ req' = [req EXCEPT ![r] = n] /\ o.at[u] = "approve"
      /\ UNCHANGED <<socketVars, raced, strayed>>
  <2>1. /\ req[r].at[u] = "approve" /\ UNCHANGED <<socketVars, raced, strayed>>
        /\ req' = [req EXCEPT ![r].approvals = k, ![r].freed = (k >= 2), ![r].at[u] = "returned"]
    BY <1>0, <1>1, <1>2 DEF DestroyApproval, Does
  <2> QED BY <1>0, <1>1, <1>4, <2>1
<1>6. ObjectInv(o)
  BY <1>1 DEF ExchangeInv
<1>7. k = 1 + Count(o.at["task"] = "returned", o.at["timeout"] = "returned")
  BY <1>2, <1>6 DEF ObjectInv, Count
<1>8. k \in 0..2
  BY <1>5, <1>7 DEF Count, User
<1>9. n \in Object
  <2>1. CASE k >= 2
    <3>1. n = [o EXCEPT !.approvals = k, !.freed = TRUE, !.at[u] = "returned"]
      BY <1>4, <2>1
    <3> QED BY <3>1, <1>8 DEF Object, User, Place
  <2>2. CASE ~(k >= 2)
    <3>1. n = [o EXCEPT !.approvals = k, !.freed = FALSE, !.at[u] = "returned"]
      <4>1. (k >= 2) = FALSE
        BY <2>2
      <4> QED BY <1>4, <4>1
    <3> QED BY <3>1, <1>8 DEF Object, User, Place
  <2> QED BY <2>1, <2>2
<1>10. n.at[u] = "returned" /\ \A v \in User : v # u => n.at[v] = o.at[v]
  BY <1>4 DEF Object, User
<1>11. /\ n.initialized = o.initialized /\ n.closed = o.closed /\ n.socket = o.socket
       /\ n.approvals = k /\ (n.freed <=> b) /\ n.got = o.got /\ n.ok = o.ok
  BY <1>3, <1>4 DEF Object
<1>12. /\ k = Count(n.at["task"] = "returned", n.at["timeout"] = "returned")
       /\ b => n.at["task"] = "returned" /\ n.at["timeout"] = "returned"
  <2>1. CASE u = "task"
    BY <1>3, <1>5, <1>7, <1>10, <2>1 DEF Count, User
  <2>2. CASE u = "timeout"
    BY <1>3, <1>5, <1>7, <1>10, <2>2 DEF Count, User
  <2> QED BY <2>1, <2>2 DEF User
<1>13. ObjectInv(n)
  BY <1>5, <1>6, <1>10, <1>11, <1>12 DEF ObjectInv, User
<1>14. ASSUME raced' = {}
       PROVE  /\ CloseInv(n) /\ (Owns(n) => Owns(o))
              /\ (n.at["task"] \in Linked => o.at["task"] \in Linked)
              /\ n.at["task"] = "waits" /\ Cancelled(n) => Cancelled(o)
  <2>1. CloseInv(o)
    BY <1>1, <1>5, <1>14 DEF ExchangeInv, UnracedInv
  <2>2. CASE u = "task"
    <3>1. n.at["task"] = "returned" /\ n.at["timeout"] = o.at["timeout"] /\ o.at["task"] = "approve"
      BY <1>5, <1>10, <2>2 DEF User
    <3>2. CloseInv(n)
      BY <2>1, <3>1, <1>11 DEF CloseInv, Running
    <3> QED BY <3>1, <3>2, <1>11 DEF Owns, Linked, Working
  <2>3. CASE u = "timeout"
    <3>1. n.at["task"] = o.at["task"] /\ n.at["timeout"] = "returned" /\ o.at["timeout"] = "approve"
      BY <1>5, <1>10, <2>3 DEF User
    <3>2. CloseInv(n)
      BY <2>1, <3>1, <1>11 DEF CloseInv, Running
    <3> QED BY <3>1, <3>2, <1>11 DEF Owns, Cancelled
  <2> QED BY <2>2, <2>3 DEF User
<1>15. n.at["task"] = "waits" => o.at["task"] = "waits"
  BY <1>10 DEF User
<1> QED BY <1>0, <1>1, <1>5, <1>9, <1>11, <1>13, <1>14, <1>15, ObjectStepKeeps


\* A request's descriptor is its own, and nobody else's.
LEMMA OwnersApart ==
  ASSUME ExchangeInv, raced = {}, NEW r \in Request, Owns(req[r])
  PROVE  /\ req[r].socket \in Fd /\ Refers("client", req[r].socket) = r
         /\ \A d \in Request \ {r} : Owns(req[d]) => req[d].socket \in Fd /\ req[d].socket # req[r].socket
<1>1. \A d \in Request : HoldsInv(d)
  BY DEF ExchangeInv, UnracedInv
<1> QED BY <1>1 DEF HoldsInv, Refers

\* Who uses a descriptor of its own does not stray.
LEMMA StrayKeeps ==
  ASSUME ExchangeInv, NEW r \in Request, Stray(r), raced \subseteq raced',
         raced = {} => Owns(req[r]) \/ req[r].socket = -1
  PROVE  strayed' \subseteq Request /\ (raced' = {} => strayed' = {})
<1>1. strayed \subseteq Request /\ (raced = {} => strayed = {})
  BY DEF ExchangeInv, TypeOK
<1>2. strayed' \subseteq Request
  BY <1>1 DEF Stray
<1>3. ASSUME raced = {} PROVE strayed' = strayed
  BY <1>3, OwnersApart DEF Stray
<1> QED BY <1>1, <1>2, <1>3

\* What is left of a sequence is a sequence of the same things.
LEMMA RestIs ==
  ASSUME NEW S, NEW s \in Seq(S), NEW k \in Nat
  PROVE  SubSeq(s, k + 1, Len(s)) \in Seq(S)
OBVIOUS

\* What is received is taken from what was sent; nothing else changes.
LEMMA ClientTakes ==
  ASSUME TypeOK, NEW r \in Request, NEW k \in Nat, NEW d \in Request, blocked["client"][r] = d,
         link' = Taken("client", r, k)
  PROVE  /\ link' \in [Request -> Link]
         /\ link'[d].to["client"] = SubSeq(link[d].to["client"], k + 1, Len(link[d].to["client"]))
         /\ \A e \in Request : /\ link'[e].at = link[e].at /\ link'[e].shut = link[e].shut
                               /\ link'[e].to["server"] = link[e].to["server"]
                               /\ e # d => link'[e] = link[e]
<1>1. link \in [Request -> Link]
  BY DEF TypeOK
<1>2. PICK old \in Seq(Answer) : old = link[d].to["client"]
  BY <1>1, LinkUpdates
<1>3. PICK s \in Seq(Answer) : s = SubSeq(old, k + 1, Len(old))
  BY RestIs
<1>4. PICK n : n = [link[d] EXCEPT !.to["client"] = s]
  OBVIOUS
<1>5. link' = [link EXCEPT ![d] = n]
  BY <1>1, <1>2, <1>3, <1>4 DEF Taken
<1>6. /\ n \in Link /\ n.at = link[d].at /\ n.shut = link[d].shut
      /\ n.to["server"] = link[d].to["server"] /\ n.to["client"] = s
  BY <1>1, <1>4, LinkUpdates
<1> QED BY <1>1, <1>2, <1>3, <1>5, <1>6

\* And so at the other end.
LEMMA ServerTakes ==
  ASSUME TypeOK, NEW r \in Request, NEW k \in Nat, NEW d \in Request, blocked["server"][r] = d,
         link' = Taken("server", r, k)
  PROVE  /\ link' \in [Request -> Link]
         /\ link'[d].to["server"] = SubSeq(link[d].to["server"], k + 1, Len(link[d].to["server"]))
         /\ \A e \in Request : /\ link'[e].at = link[e].at /\ link'[e].shut = link[e].shut
                               /\ link'[e].to["client"] = link[e].to["client"]
                               /\ e # d => link'[e] = link[e]
<1>1. link \in [Request -> Link]
  BY DEF TypeOK
<1>2. PICK old \in Seq(Part) : old = link[d].to["server"]
  BY <1>1, LinkUpdates
<1>3. PICK s \in Seq(Part) : s = SubSeq(old, k + 1, Len(old))
  BY RestIs
<1>4. PICK n : n = [link[d] EXCEPT !.to["server"] = s]
  OBVIOUS
<1>5. link' = [link EXCEPT ![d] = n]
  BY <1>1, <1>2, <1>3, <1>4 DEF Taken
<1>6. /\ n \in Link /\ n.at = link[d].at /\ n.shut = link[d].shut
      /\ n.to["client"] = link[d].to["client"] /\ n.to["server"] = s
  BY <1>1, <1>4, LinkUpdates
<1> QED BY <1>1, <1>2, <1>3, <1>5, <1>6

\* A task gets a socket, or there is none to get.
LEMMA OpeningKeeps ==
  ASSUME ExchangeInv, NEW r \in Request, OpenSocket(r), UNCHANGED serverVars
  PROVE  ExchangeInv'
<1>0. TypeOK /\ req \in [Request -> Object] /\ UNCHANGED <<link, blocked, raced, strayed>>
  BY DEF ExchangeInv, TypeOK, OpenSocket
<1>1. PICK o \in Object : o = req[r]
  BY <1>0
<1>2. o.at["task"] = "socket"
  BY <1>1 DEF OpenSocket, Does
<1>3. /\ link' \in [Request -> Link] /\ blocked' \in [Process -> [Request -> Request \cup {Free}]]
      /\ raced' \subseteq Request /\ strayed' \subseteq Request
      /\ (raced' = {} => strayed' = {})
  BY <1>0 DEF ExchangeInv, TypeOK
<1>4. ASSUME raced' = {}
      PROVE  /\ CloseInv(o) /\ o.got \subseteq {AnswerTo(r)} /\ (o.ok => o.got # {})
             /\ \A d \in Request : PayloadInv(d)' /\ HoldsInv(d)
  BY <1>0, <1>1, <1>4 DEF ExchangeInv, UnracedInv, PayloadInv, AnswerInv
<1>5. CASE FreeFds("client") = {}
  <2>1. PICK n : n = [o EXCEPT !.at["task"] = "approve"]
    OBVIOUS
  <2>2. req' = [req EXCEPT ![r] = n] /\ UNCHANGED table
    BY <1>0, <1>1, <1>5, <2>1 DEF OpenSocket, TaskGoes
  <2>3. n \in Object
    BY <2>1 DEF Object, User, Place
  <2>4. n.at["task"] = "approve" /\ n.at["timeout"] = o.at["timeout"]
    BY <2>1 DEF Object, User
  <2>5. /\ n.initialized = o.initialized /\ n.closed = o.closed /\ n.socket = o.socket
        /\ n.approvals = o.approvals /\ n.freed = o.freed /\ n.got = o.got /\ n.ok = o.ok
    BY <2>1 DEF Object
  <2>6. ObjectInv(n)
    BY <1>1, <1>2, <2>4, <2>5 DEF ExchangeInv, ObjectInv, Count
  <2>7. ASSUME raced' = {} PROVE CloseInv(n) /\ ~Owns(n)
    <3>1. CloseInv(n)
      BY <1>2, <1>4, <2>4, <2>5, <2>7 DEF CloseInv, Running
    <3>2. n.socket = -1
      BY <1>2, <1>4, <2>5, <2>7 DEF CloseInv
    <3> QED BY <3>1, <3>2, <2>4 DEF Owns, Working
  <2>8. UNCHANGED <<socketVars, strayed>>
    BY <1>0, <2>2 DEF socketVars
  <2>9. n.at["task"] \notin Linked /\ n.at["task"] # "waits"
    BY <2>4 DEF Linked
  <2> QED BY <1>0, <1>1, <1>3, <2>2, <2>3, <2>5, <2>6, <2>7, <2>8, <2>9, ObjectStepKeeps
<1>6. CASE FreeFds("client") # {}
  <2>0. PICK g : g = Min(FreeFds("client"))
    OBVIOUS
  <2>1. PICK n : n = [o EXCEPT !.socket = g, !.at["task"] = "connect"]
    OBVIOUS
  <2>2. req' = [req EXCEPT ![r] = n] /\ table' = Opened("client", r)
    BY <1>0, <1>1, <1>6, <2>0, <2>1 DEF OpenSocket
  <2>3. /\ g \in Fd /\ table["client"][g] = Free /\ table'["client"][g] = r
        /\ table' \in [Process -> [Fd -> Request \cup {Free, Console}]]
        /\ \A q \in Process, f \in Fd : q # "client" \/ f # g => table'[q][f] = table[q][f]
    BY <1>0, <1>6, <2>0, <2>2, OpenedIs DEF Process
  <2>4. n \in Object
    BY <2>1, <2>3 DEF Object, User, Place, Socket
  <2>5. n.at["task"] = "connect" /\ n.at["timeout"] = o.at["timeout"]
    BY <2>1 DEF Object, User
  <2>6. /\ n.initialized = o.initialized /\ n.closed = o.closed /\ n.socket = g
        /\ n.approvals = o.approvals /\ n.freed = o.freed /\ n.got = o.got /\ n.ok = o.ok
    BY <2>1 DEF Object
  <2>7. ObjectInv(n)
    BY <1>1, <1>2, <2>5, <2>6 DEF ExchangeInv, ObjectInv, Count
  <2>8. ASSUME raced' = {} PROVE CloseInv(n) /\ HoldsInv(r)' /\ WaitInv(r)'
    <3>1. req'[r] = n
      BY <1>0, <2>2
    <3>2. CloseInv(n)
      BY <1>2, <1>4, <2>5, <2>6, <2>8 DEF CloseInv, Running
    <3> QED BY <3>1, <3>2, <2>3, <2>5, <2>6 DEF HoldsInv, WaitInv, Linked
  <2>9. ASSUME raced' = {}, NEW d \in Request \ {r}, Owns(req[d])
        PROVE  table'["client"][req[d].socket] = table["client"][req[d].socket]
    <3>1. req[d].socket \in Fd /\ table["client"][req[d].socket] = d
      BY <1>4, <2>9 DEF HoldsInv
    <3>2. req[d].socket # g
      BY <3>1, <2>3, RequestsAreNotFree DEF Free
    <3> QED BY <3>1, <3>2, <2>3 DEF Process
  <2>10. /\ n.at["task"] # "waits"
         /\ \A f \in Fd : table'["server"][f] = table["server"][f]
    BY <2>3, <2>5 DEF Process
  <2> QED BY <1>0, <1>3, <1>4, <2>2, <2>3, <2>4, <2>6, <2>7, <2>8, <2>9, <2>10, ClientStepKeeps
<1> QED BY <1>5, <1>6


\* connect works on the number the object holds, and makes the connection of whom it refers to.
LEMMA ConnectingKeeps ==
  ASSUME ExchangeInv, NEW r \in Request, NEW up, Connect(r, up), UNCHANGED serverVars
  PROVE  ExchangeInv'
<1>0. TypeOK /\ req \in [Request -> Object] /\ UNCHANGED <<table, blocked, raced>>
  BY DEF ExchangeInv, TypeOK, Connect
<1>1. PICK o \in Object : o = req[r]
  BY <1>0
<1>2. o.at["task"] = "connect"
  BY <1>1 DEF Connect, Does
<1>3. PICK a \in {"check", "refused"} :
        /\ TaskGoes(r, a)
        /\ \/ /\ a = "check" /\ Refers("client", o.socket) \in Request
              /\ link[Refers("client", o.socket)].at = "none"
              /\ link' = [link EXCEPT ![Refers("client", o.socket)].at = "backlog"]
           \/ a = "refused" /\ UNCHANGED link
  BY <1>1 DEF Connect
<1>4. PICK n : n = [o EXCEPT !.at["task"] = a]
  OBVIOUS
<1>5. req' = [req EXCEPT ![r] = n]
  BY <1>0, <1>1, <1>3, <1>4 DEF TaskGoes
<1>6. n \in Object
  BY <1>4 DEF Object, User, Place
<1>7. n.at["task"] = a /\ n.at["timeout"] = o.at["timeout"]
  BY <1>4 DEF Object, User
<1>8. /\ n.initialized = o.initialized /\ n.closed = o.closed /\ n.socket = o.socket
      /\ n.approvals = o.approvals /\ n.freed = o.freed /\ n.got = o.got /\ n.ok = o.ok
  BY <1>4 DEF Object
<1>9. ObjectInv(n)
  BY <1>1, <1>2, <1>7, <1>8 DEF ExchangeInv, ObjectInv, Count
<1>10. /\ link' \in [Request -> Link]
       /\ \A d \in Request : /\ \/ link'[d].at = link[d].at
                                \/ link[d].at = "none" /\ link'[d].at = "backlog"
                             /\ link'[d].shut = link[d].shut /\ link'[d].to = link[d].to
                             /\ a = "check" /\ Refers("client", o.socket) = d =>
                                  link'[d].at = "backlog"
  <2>1. CASE a = "check"
    <3>1. PICK d \in Request : /\ d = Refers("client", o.socket) /\ link[d].at = "none"
                               /\ link' = [link EXCEPT ![d].at = "backlog"]
      BY <1>3, <2>1
    <3>2. \A e \in Request : link[e] \in Link
      BY <1>0 DEF TypeOK
    <3> QED BY <1>0, <3>1, <3>2 DEF TypeOK, Link
  <2>2. CASE a = "refused"
    BY <1>0, <1>3, <2>2 DEF TypeOK
  <2> QED BY <2>1, <2>2
<1>11. ASSUME raced' = {}
       PROVE  /\ CloseInv(o) /\ o.got \subseteq {AnswerTo(r)} /\ (o.ok => o.got # {})
              /\ \A d \in Request : PayloadInv(d)' /\ HoldsInv(d)
              /\ Owns(o)
  <2>1. \A d \in Request : UnracedInv(d)
    BY <1>0, <1>11 DEF ExchangeInv
  <2>2. \A d \in Request : PayloadInv(d)'
    BY <1>10, <2>1 DEF UnracedInv, PayloadInv
  <2>3. CloseInv(o)
    BY <1>1, <2>1 DEF UnracedInv
  <2>4. Owns(o)
    BY <1>2, <2>3 DEF CloseInv, Owns, Working, Running
  <2> QED BY <1>1, <2>1, <2>2, <2>3, <2>4 DEF UnracedInv, AnswerInv
<1>12. strayed' \subseteq Request /\ (raced' = {} => strayed' = {})
  BY <1>0, <1>1, <1>11, StrayKeeps DEF Connect
<1>13. ASSUME raced' = {} PROVE CloseInv(n) /\ HoldsInv(r)' /\ WaitInv(r)'
  <2>1. req'[r] = n
    BY <1>0, <1>5
  <2>2. CloseInv(n)
    BY <1>2, <1>7, <1>8, <1>11, <1>13 DEF CloseInv, Running
  <2>3. HoldsInv(r)'
    BY <1>0, <1>1, <1>8, <1>11, <1>13, <2>1 DEF HoldsInv
  <2>4. Refers("client", o.socket) = r
    BY <1>0, <1>1, <1>11, <1>13, OwnersApart
  <2>5. WaitInv(r)'
    BY <1>7, <1>10, <2>1, <2>4 DEF WaitInv, Linked
  <2> QED BY <2>2, <2>3, <2>5
<1>14. /\ table' \in [Process -> [Fd -> Request \cup {Free, Console}]]
       /\ blocked' \in [Process -> [Request -> Request \cup {Free}]]
       /\ raced \subseteq raced' /\ raced' \subseteq Request
       /\ n.at["task"] # "waits"
  BY <1>0, <1>7 DEF TypeOK
<1> QED BY <1>0, <1>5, <1>6, <1>8, <1>9, <1>10, <1>11, <1>12, <1>13, <1>14, ClientStepKeeps

\* A socket that was refused is closed, and the next address tried.
LEMMA RefusingKeeps ==
  ASSUME ExchangeInv, NEW r \in Request, Refused(r), UNCHANGED serverVars
  PROVE  ExchangeInv'
<1>0. TypeOK /\ req \in [Request -> Object] /\ UNCHANGED <<link, blocked, raced>>
  BY DEF ExchangeInv, TypeOK, Refused
<1>1. PICK o \in Object : o = req[r]
  BY <1>0
<1>2. o.at["task"] = "refused" /\ o.socket \in Socket
  BY <1>1 DEF Refused, Does, Object
<1>3. PICK a \in {"socket", "approve"} :
        a = IF req[r].tried + 1 < Addresses THEN "socket" ELSE "approve"
  OBVIOUS
<1>4. PICK t \in Nat : t = o.tried + 1
  BY DEF Object
<1>5. PICK n : n = [o EXCEPT !.socket = -1, !.tried = t, !.at["task"] = a]
  OBVIOUS
<1>6. req' = [req EXCEPT ![r] = n] /\ table' = Closed("client", o.socket)
  BY <1>0, <1>1, <1>3, <1>4, <1>5 DEF Refused
<1>7. n \in Object
  BY <1>5 DEF Object, User, Place, Socket
<1>8. n.at["task"] = a /\ n.at["timeout"] = o.at["timeout"]
  BY <1>5 DEF Object, User
<1>9. /\ n.initialized = o.initialized /\ n.closed = o.closed /\ n.socket = -1
      /\ n.approvals = o.approvals /\ n.freed = o.freed /\ n.got = o.got /\ n.ok = o.ok
  BY <1>5 DEF Object
<1>10. ObjectInv(n)
  BY <1>1, <1>2, <1>8, <1>9 DEF ExchangeInv, ObjectInv, Count
<1>11. /\ table' \in [Process -> [Fd -> Request \cup {Free, Console}]]
       /\ \A q \in Process, f \in Fd : q # "client" \/ f # o.socket => table'[q][f] = table[q][f]
  BY <1>0, <1>2, <1>6, ClosedIs DEF Process
<1>12. ASSUME raced' = {}
       PROVE  /\ CloseInv(o) /\ o.got \subseteq {AnswerTo(r)} /\ (o.ok => o.got # {})
              /\ \A d \in Request : PayloadInv(d)' /\ HoldsInv(d)
              /\ Owns(o)
  <2>1. \A d \in Request : UnracedInv(d)
    BY <1>0, <1>12 DEF ExchangeInv
  <2>2. \A d \in Request : PayloadInv(d)'
    BY <1>0, <2>1 DEF UnracedInv, PayloadInv
  <2>3. CloseInv(o)
    BY <1>1, <2>1 DEF UnracedInv
  <2>4. Owns(o)
    BY <1>2, <2>3 DEF CloseInv, Owns, Working, Running
  <2> QED BY <1>1, <2>1, <2>2, <2>3, <2>4 DEF UnracedInv, AnswerInv
<1>13. strayed' \subseteq Request /\ (raced' = {} => strayed' = {})
  BY <1>0, <1>1, <1>12, StrayKeeps DEF Refused
<1>14. ASSUME raced' = {} PROVE CloseInv(n) /\ HoldsInv(r)' /\ WaitInv(r)'
  <2>1. req'[r] = n
    BY <1>0, <1>6
  <2>2. CloseInv(n)
    BY <1>2, <1>8, <1>9, <1>12, <1>14 DEF CloseInv, Running
  <2>3. ~Owns(n)
    BY <1>8, <1>9 DEF Owns, Working
  <2> QED BY <1>8, <2>1, <2>2, <2>3 DEF HoldsInv, WaitInv, Linked
<1>15. ASSUME raced' = {}, NEW d \in Request \ {r}, Owns(req[d])
       PROVE  table'["client"][req[d].socket] = table["client"][req[d].socket]
  BY <1>0, <1>1, <1>11, <1>12, <1>15, OwnersApart DEF Process
<1>16. /\ link' \in [Request -> Link]
       /\ blocked' \in [Process -> [Request -> Request \cup {Free}]]
       /\ raced \subseteq raced' /\ raced' \subseteq Request
       /\ n.at["task"] # "waits"
       /\ \A f \in Fd : table'["server"][f] = table["server"][f]
  BY <1>0, <1>8, <1>11 DEF TypeOK, Process
<1> QED BY <1>0, <1>6, <1>7, <1>9, <1>10, <1>11, <1>12, <1>13, <1>14, <1>15, <1>16, ClientStepKeeps


\* What is sent, is of the request whose descriptor it is sent by.
LEMMA SendingKeeps ==
  ASSUME ExchangeInv, NEW r \in Request, SendData(r), UNCHANGED serverVars
  PROVE  ExchangeInv'
<1>0. TypeOK /\ req \in [Request -> Object] /\ UNCHANGED <<table, blocked, raced>>
  BY DEF ExchangeInv, TypeOK, SendData
<1>1. PICK o \in Object : o = req[r]
  BY <1>0
<1>2. o.at["task"] = "send" /\ o.socket \in Socket /\ link' = Sent("client", o.socket, Parts[r])
  BY <1>1 DEF SendData, Does, Object
<1>3. PICK n : n = [o EXCEPT !.at["task"] = "checkAgain"]
  OBVIOUS
<1>4. req' = [req EXCEPT ![r] = n]
  BY <1>0, <1>1, <1>3 DEF SendData, TaskGoes
<1>5. n \in Object
  BY <1>3 DEF Object, User, Place
<1>6. n.at["task"] = "checkAgain" /\ n.at["timeout"] = o.at["timeout"]
  BY <1>3 DEF Object, User
<1>7. /\ n.initialized = o.initialized /\ n.closed = o.closed /\ n.socket = o.socket
      /\ n.approvals = o.approvals /\ n.freed = o.freed /\ n.got = o.got /\ n.ok = o.ok
  BY <1>3 DEF Object
<1>8. ObjectInv(n)
  BY <1>1, <1>2, <1>6, <1>7 DEF ExchangeInv, ObjectInv, Count
<1>9. Parts[r] \in Seq({r} \X {"head", "body"}) /\ Parts[r] \in Seq(Part)
  <2>1. PICK s \in Seq({r} \X {"head", "body"}) : s = Parts[r]
    BY PartsAreSequences
  <2>2. s \in Seq(Part)
    BY DEF Part
  <2> QED BY <2>1, <2>2
<1>10. /\ link' \in [Request -> Link]
       /\ \A d \in Request :
            /\ link'[d].at = link[d].at /\ link'[d].shut = link[d].shut
            /\ link'[d].to["client"] = link[d].to["client"]
            /\ \/ link'[d].to["server"] = link[d].to["server"]
               \/ /\ Refers("client", o.socket) = d
                  /\ link'[d].to["server"] = link[d].to["server"] \o Parts[r]
  BY <1>0, <1>2, <1>9, ClientSends
<1>11. ASSUME raced' = {}
       PROVE  /\ CloseInv(o) /\ o.got \subseteq {AnswerTo(r)} /\ (o.ok => o.got # {})
              /\ \A d \in Request : PayloadInv(d) /\ HoldsInv(d)
              /\ Owns(o) /\ WaitInv(r)
  <2>1. \A d \in Request : UnracedInv(d)
    BY <1>0, <1>11 DEF ExchangeInv
  <2>2. CloseInv(o)
    BY <1>1, <2>1 DEF UnracedInv
  <2>3. Owns(o)
    BY <1>2, <2>2 DEF CloseInv, Owns, Working, Running
  <2> QED BY <1>1, <2>1, <2>2, <2>3 DEF UnracedInv, AnswerInv
<1>12. strayed' \subseteq Request /\ (raced' = {} => strayed' = {})
  BY <1>0, <1>1, <1>11, StrayKeeps DEF SendData
<1>13. ASSUME raced' = {} PROVE CloseInv(n) /\ HoldsInv(r)' /\ WaitInv(r)'
  <2>1. req'[r] = n
    BY <1>0, <1>4
  <2>2. CloseInv(n)
    BY <1>2, <1>6, <1>7, <1>11, <1>13 DEF CloseInv, Running
  <2>3. HoldsInv(r)'
    BY <1>0, <1>1, <1>7, <1>11, <1>13, <2>1 DEF HoldsInv
  <2>4. WaitInv(r)'
    BY <1>1, <1>2, <1>6, <1>10, <1>11, <1>13, <2>1 DEF WaitInv, Linked
  <2> QED BY <2>2, <2>3, <2>4
<1>14. ASSUME raced' = {}, NEW d \in Request PROVE PayloadInv(d)'
  <2>1. PayloadInv(d) /\ Refers("client", o.socket) = r
    BY <1>0, <1>1, <1>11, <1>14, OwnersApart
  <2>2. CASE link'[d].to["server"] = link[d].to["server"]
    BY <1>10, <2>1, <2>2 DEF PayloadInv
  <2>3. CASE d = r /\ link'[d].to["server"] = link[d].to["server"] \o Parts[r]
    <3>1. PICK old \in Seq({r} \X {"head", "body"}) : old = link[r].to["server"]
      BY <2>1, <2>3 DEF PayloadInv
    <3>2. PICK s \in Seq({r} \X {"head", "body"}) : s = Parts[r]
      BY <1>9
    <3>3. old \o s \in Seq({r} \X {"head", "body"})
      OBVIOUS
    <3> QED BY <1>10, <2>1, <2>3, <3>1, <3>2, <3>3 DEF PayloadInv
  <2> QED BY <1>10, <2>1, <2>2, <2>3
<1>15. /\ table' \in [Process -> [Fd -> Request \cup {Free, Console}]]
       /\ blocked' \in [Process -> [Request -> Request \cup {Free}]]
       /\ raced \subseteq raced' /\ raced' \subseteq Request
       /\ n.at["task"] # "waits"
  BY <1>0, <1>6 DEF TypeOK
<1> QED BY <1>0, <1>4, <1>5, <1>7, <1>8, <1>10, <1>11, <1>12, <1>13, <1>14, <1>15, ClientStepKeeps

\* recv is called with the request's own descriptor, and not after a cancellation.
LEMMA CallingKeeps ==
  ASSUME ExchangeInv, NEW r \in Request, CallReceive(r), UNCHANGED serverVars
  PROVE  ExchangeInv'
<1>0. TypeOK /\ req \in [Request -> Object] /\ UNCHANGED <<table, link, raced>>
  BY DEF ExchangeInv, TypeOK, CallReceive
<1>1. PICK o \in Object : o = req[r]
  BY <1>0
<1>2. o.at["task"] = "receive" /\ o.socket \in Socket
  BY <1>1 DEF CallReceive, Does, Object
<1>3. PICK a \in {"waits", "close"} :
        /\ req' = [req EXCEPT ![r].at["task"] = a]
        /\ \/ /\ a = "waits" /\ Refers("client", o.socket) \in Request
              /\ blocked' = [blocked EXCEPT !["client"][r] = Refers("client", o.socket)]
           \/ a = "close" /\ Refers("client", o.socket) \notin Request /\ UNCHANGED blocked
  BY <1>1 DEF CallReceive, TaskGoes, CanRecv, Entered
<1>4. PICK n : n = [o EXCEPT !.at["task"] = a]
  OBVIOUS
<1>5. req' = [req EXCEPT ![r] = n]
  BY <1>0, <1>1, <1>3, <1>4
<1>6. n \in Object
  BY <1>4 DEF Object, User, Place
<1>7. n.at["task"] = a /\ n.at["timeout"] = o.at["timeout"]
  BY <1>4 DEF Object, User
<1>8. /\ n.initialized = o.initialized /\ n.closed = o.closed /\ n.socket = o.socket
      /\ n.approvals = o.approvals /\ n.freed = o.freed /\ n.got = o.got /\ n.ok = o.ok
  BY <1>4 DEF Object
<1>9. ObjectInv(n)
  BY <1>1, <1>2, <1>7, <1>8 DEF ExchangeInv, ObjectInv, Count
<1>10. /\ blocked' \in [Process -> [Request -> Request \cup {Free}]]
       /\ \A d \in Request : blocked'["server"][d] = blocked["server"][d]
       /\ \A d \in Request : d # r => blocked'["client"][d] = blocked["client"][d]
       /\ a = "waits" => blocked'["client"][r] = Refers("client", o.socket)
                         /\ blocked'["client"][r] \in Request
  BY <1>0, <1>3 DEF TypeOK, Process
<1>11. ASSUME raced' = {}
       PROVE  /\ CloseInv(o) /\ o.got \subseteq {AnswerTo(r)} /\ (o.ok => o.got # {})
              /\ \A d \in Request : PayloadInv(d)' /\ HoldsInv(d)
              /\ Owns(o) /\ WaitInv(r)
  <2>1. \A d \in Request : UnracedInv(d)
    BY <1>0, <1>11 DEF ExchangeInv
  <2>2. CloseInv(o)
    BY <1>1, <2>1 DEF UnracedInv
  <2>3. Owns(o)
    BY <1>2, <2>2 DEF CloseInv, Owns, Working, Running
  <2>4. \A d \in Request : PayloadInv(d)'
    BY <1>0, <2>1 DEF UnracedInv, PayloadInv
  <2> QED BY <1>1, <2>1, <2>2, <2>3, <2>4 DEF UnracedInv, AnswerInv
<1>12. strayed' \subseteq Request /\ (raced' = {} => strayed' = {})
  BY <1>0, <1>1, <1>11, StrayKeeps DEF CallReceive
<1>13. ASSUME raced' = {} PROVE CloseInv(n) /\ HoldsInv(r)' /\ WaitInv(r)'
  <2>1. req'[r] = n /\ Refers("client", o.socket) = r
    BY <1>0, <1>1, <1>5, <1>11, <1>13, OwnersApart
  <2>2. a = "waits"
    BY <1>3, <2>1
  <2>3. CloseInv(n)
    BY <1>2, <1>7, <1>8, <1>11, <1>13, <2>2 DEF CloseInv, Running
  <2>4. HoldsInv(r)'
    BY <1>0, <1>1, <1>8, <1>11, <1>13, <2>1 DEF HoldsInv
  <2>5. ~Cancelled(n)
    BY <1>2, <1>8, <1>11, <1>13 DEF Cancelled, CloseInv, Running
  <2>6. WaitInv(r)'
    BY <1>0, <1>1, <1>2, <1>10, <1>11, <1>13, <2>1, <2>2, <2>5 DEF WaitInv, Linked
  <2> QED BY <2>3, <2>4, <2>6
<1>14. /\ table' \in [Process -> [Fd -> Request \cup {Free, Console}]]
       /\ link' \in [Request -> Link]
       /\ raced \subseteq raced' /\ raced' \subseteq Request
       /\ n.at["task"] = "waits" => blocked'["client"][r] \in Request
  BY <1>0, <1>7, <1>10 DEF TypeOK
<1> QED BY <1>0, <1>5, <1>6, <1>8, <1>9, <1>10, <1>11, <1>12, <1>13, <1>14, ClientStepKeeps


\* What a task receives comes over its own connection.
LEMMA ReceivingKeeps ==
  ASSUME ExchangeInv, NEW r \in Request, ReceiveData(r), UNCHANGED serverVars
  PROVE  ExchangeInv'
<1>0. TypeOK /\ req \in [Request -> Object] /\ UNCHANGED <<table, strayed>>
  BY DEF ExchangeInv, TypeOK, ReceiveData
<1>1. PICK o \in Object : o = req[r]
  BY <1>0
<1>2. o.at["task"] = "waits" /\ o.initialized \in BOOLEAN /\ o.got \subseteq Answer
  BY <1>1 DEF ReceiveData, Does, Object
<1>3. PICK e \in Request : e = blocked["client"][r]
  BY <1>1, <1>2 DEF ExchangeInv, WaitsOnOne
<1>4. PICK old \in Seq(Answer) : old = link[e].to["client"]
  BY <1>0, LinkUpdates DEF TypeOK
<1>5. old # <<>> /\ link' = Taken("client", r, 1) /\ blocked' = Left("client", r)
  BY <1>3, <1>4 DEF ReceiveData, Arrived
<1>6. PICK h \in Answer : h = Head(old)
  BY <1>5
<1>7. PICK n : n = [o EXCEPT !.got = @ \cup {h}, !.ok = o.initialized, !.at["task"] = "close"]
  OBVIOUS
<1>8. req' = [req EXCEPT ![r] = n]
  BY <1>0, <1>1, <1>3, <1>4, <1>6, <1>7 DEF ReceiveData, Arrived
<1>9. n \in Object
  BY <1>2, <1>7 DEF Object, User, Place
<1>10. n.at["task"] = "close" /\ n.at["timeout"] = o.at["timeout"]
  BY <1>7 DEF Object, User
<1>11. /\ n.initialized = o.initialized /\ n.closed = o.closed /\ n.socket = o.socket
       /\ n.approvals = o.approvals /\ n.freed = o.freed /\ n.got = o.got \cup {h}
  BY <1>7 DEF Object
<1>12. ObjectInv(n)
  BY <1>1, <1>2, <1>10, <1>11 DEF ExchangeInv, ObjectInv, Count
<1>13. /\ link' \in [Request -> Link]
       /\ link'[e].to["client"] = SubSeq(old, 1 + 1, Len(old))
       /\ \A d \in Request : /\ link'[d].at = link[d].at /\ link'[d].shut = link[d].shut
                             /\ link'[d].to["server"] = link[d].to["server"]
                             /\ d # e => link'[d] = link[d]
  <2>1. TypeOK /\ blocked["client"][r] = e /\ 1 \in Nat /\ link' = Taken("client", r, 1)
    BY <1>0, <1>3, <1>5
  <2>2. /\ link' \in [Request -> Link]
        /\ link'[e].to["client"] = SubSeq(link[e].to["client"], 1 + 1, Len(link[e].to["client"]))
        /\ \A d \in Request : /\ link'[d].at = link[d].at /\ link'[d].shut = link[d].shut
                              /\ link'[d].to["server"] = link[d].to["server"]
                              /\ d # e => link'[d] = link[d]
    BY <2>1, ClientTakes
  <2> QED BY <1>4, <2>2
<1>14. /\ blocked' \in [Process -> [Request -> Request \cup {Free}]]
       /\ \A d \in Request : blocked'["server"][d] = blocked["server"][d]
       /\ \A d \in Request : d # r => blocked'["client"][d] = blocked["client"][d]
  BY <1>0, <1>5, LeftIs DEF Process
<1>15. /\ raced \subseteq raced' /\ raced' \subseteq Request
       /\ raced' = {} => raced = {} /\ o.at["timeout"] \notin {"test", "shut"}
  BY <1>0, <1>1 DEF ReceiveData, TypeOK
<1>16. ASSUME raced' = {}
       PROVE  /\ CloseInv(o) /\ o.got \subseteq {AnswerTo(r)} /\ e = r
              /\ \A d \in Request : PayloadInv(d) /\ HoldsInv(d)
  BY <1>1, <1>2, <1>3, <1>15, <1>16 DEF ExchangeInv, UnracedInv, AnswerInv, WaitInv
<1>17. ASSUME raced' = {}
       PROVE  n.got \subseteq {AnswerTo(r)} /\ (n.ok => n.got # {}) /\ \A d \in Request : PayloadInv(d)'
  <2>1. PICK s \in Seq({AnswerTo(r)}) : s = old
    BY <1>4, <1>16, <1>17 DEF PayloadInv
  <2>2. h = AnswerTo(r)
    BY <1>5, <1>6, <2>1
  <2>3. PICK t \in Seq({AnswerTo(r)}) : t = SubSeq(s, 1 + 1, Len(s))
    BY RestIs
  <2>4. \A d \in Request : PayloadInv(d)'
    BY <1>13, <1>16, <1>17, <2>1, <2>3 DEF PayloadInv
  <2> QED BY <1>11, <1>16, <1>17, <2>2, <2>4
<1>18. ASSUME raced' = {} PROVE CloseInv(n) /\ HoldsInv(r)' /\ WaitInv(r)'
  <2>1. req'[r] = n
    BY <1>0, <1>8
  <2>2. CloseInv(n)
    BY <1>2, <1>10, <1>11, <1>15, <1>16, <1>18 DEF CloseInv, Running
  <2>3. Owns(n) => Owns(o)
    BY <1>2, <1>10, <1>11 DEF Owns, Working
  <2>4. HoldsInv(r)'
    BY <1>0, <1>1, <1>11, <1>16, <1>18, <2>1, <2>3 DEF HoldsInv
  <2> QED BY <1>10, <2>1, <2>2, <2>4 DEF WaitInv, Linked
<1>19. /\ table' \in [Process -> [Fd -> Request \cup {Free, Console}]]
       /\ strayed' \subseteq Request /\ (raced' = {} => strayed' = {})
       /\ n.at["task"] # "waits"
  BY <1>0, <1>10, <1>15 DEF TypeOK, ExchangeInv
<1> QED BY <1>0, <1>8, <1>9, <1>12, <1>13, <1>14, <1>15, <1>17, <1>18, <1>19, ClientStepKeeps

\* The connection ended without an answer.
LEMMA ReceivingNothingKeeps ==
  ASSUME ExchangeInv, NEW r \in Request, ReceiveNothing(r), UNCHANGED serverVars
  PROVE  ExchangeInv'
<1>0. TypeOK /\ req \in [Request -> Object] /\ UNCHANGED <<table, link, strayed>>
  BY DEF ExchangeInv, TypeOK, ReceiveNothing
<1>1. PICK o \in Object : o = req[r]
  BY <1>0
<1>2. o.at["task"] = "waits"
  BY <1>1 DEF ReceiveNothing, Does
<1>3. PICK n : n = [o EXCEPT !.at["task"] = "close"]
  OBVIOUS
<1>4. req' = [req EXCEPT ![r] = n]
  BY <1>0, <1>1, <1>3 DEF ReceiveNothing, TaskGoes
<1>5. n \in Object
  BY <1>3 DEF Object, User, Place
<1>6. n.at["task"] = "close" /\ n.at["timeout"] = o.at["timeout"]
  BY <1>3 DEF Object, User
<1>7. /\ n.initialized = o.initialized /\ n.closed = o.closed /\ n.socket = o.socket
      /\ n.approvals = o.approvals /\ n.freed = o.freed /\ n.got = o.got /\ n.ok = o.ok
  BY <1>3 DEF Object
<1>8. ObjectInv(n)
  BY <1>1, <1>2, <1>6, <1>7 DEF ExchangeInv, ObjectInv, Count
<1>9. /\ blocked' \in [Process -> [Request -> Request \cup {Free}]]
      /\ \A d \in Request : blocked'["server"][d] = blocked["server"][d]
      /\ \A d \in Request : d # r => blocked'["client"][d] = blocked["client"][d]
  BY <1>0, LeftIs DEF ReceiveNothing, Process
<1>10. /\ raced \subseteq raced' /\ raced' \subseteq Request
       /\ raced' = {} => raced = {} /\ o.at["timeout"] \notin {"test", "shut"}
  BY <1>0, <1>1 DEF ReceiveNothing, TypeOK
<1>11. ASSUME raced' = {}
       PROVE  /\ CloseInv(o) /\ o.got \subseteq {AnswerTo(r)} /\ (o.ok => o.got # {})
              /\ \A d \in Request : PayloadInv(d)' /\ HoldsInv(d)
  <2>1. \A d \in Request : UnracedInv(d)
    BY <1>10, <1>11 DEF ExchangeInv
  <2>2. \A d \in Request : PayloadInv(d)'
    BY <1>0, <2>1 DEF UnracedInv, PayloadInv
  <2> QED BY <1>1, <2>1, <2>2 DEF UnracedInv, AnswerInv
<1>12. ASSUME raced' = {} PROVE CloseInv(n) /\ HoldsInv(r)' /\ WaitInv(r)'
  <2>1. req'[r] = n
    BY <1>0, <1>4
  <2>2. CloseInv(n)
    BY <1>2, <1>6, <1>7, <1>10, <1>11, <1>12 DEF CloseInv, Running
  <2>3. Owns(n) => Owns(o)
    BY <1>2, <1>6, <1>7 DEF Owns, Working
  <2>4. HoldsInv(r)'
    BY <1>0, <1>1, <1>7, <1>11, <1>12, <2>1, <2>3 DEF HoldsInv
  <2> QED BY <1>6, <2>1, <2>2, <2>4 DEF WaitInv, Linked
<1>13. /\ table' \in [Process -> [Fd -> Request \cup {Free, Console}]]
       /\ link' \in [Request -> Link]
       /\ strayed' \subseteq Request /\ (raced' = {} => strayed' = {})
       /\ n.at["task"] # "waits"
  BY <1>0, <1>6, <1>10 DEF TypeOK, ExchangeInv
<1> QED BY <1>0, <1>4, <1>5, <1>7, <1>8, <1>9, <1>10, <1>11, <1>12, <1>13, ClientStepKeeps

\* A user that shuts the socket wakes who waits for it.
LEMMA ShuttingKeeps ==
  ASSUME ExchangeInv, NEW r \in Request, NEW u \in User, ShutSocketOf(r, u), UNCHANGED serverVars
  PROVE  ExchangeInv'
<1>0. TypeOK /\ req \in [Request -> Object] /\ UNCHANGED <<table, blocked, raced>>
  BY DEF ExchangeInv, TypeOK, ShutSocketOf
<1>1. PICK o \in Object : o = req[r]
  BY <1>0
<1>2. o.at[u] = "shut" /\ o.socket \in Socket /\ link' = Shut("client", o.socket)
  BY <1>1 DEF ShutSocketOf, Does, Object
<1>3. PICK n : n = [o EXCEPT !.closed = TRUE, !.at[u] = "closing"]
  OBVIOUS
<1>4. req' = [req EXCEPT ![r] = n]
  BY <1>0, <1>1, <1>3 DEF ShutSocketOf
<1>5. n \in Object
  BY <1>3 DEF Object, User, Place
<1>6. n.at[u] = "closing" /\ \A v \in User : v # u => n.at[v] = o.at[v]
  BY <1>3 DEF Object, User
<1>7. /\ n.initialized = o.initialized /\ n.closed = TRUE /\ n.socket = o.socket
      /\ n.approvals = o.approvals /\ n.freed = o.freed /\ n.got = o.got /\ n.ok = o.ok
  BY <1>3 DEF Object
<1>8. ObjectInv(n)
  BY <1>1, <1>2, <1>6, <1>7 DEF ExchangeInv, ObjectInv, Count, User
<1>9. /\ link' \in [Request -> Link]
      /\ \A d \in Request : /\ link'[d].at = link[d].at /\ link'[d].to = link[d].to
                            /\ link[d].shut \subseteq link'[d].shut
                            /\ Refers("client", o.socket) = d /\ link[d].at # "none" =>
                                 "client" \in link'[d].shut
  BY <1>0, <1>2, ShutIs DEF Process
<1>10. ASSUME raced' = {}
       PROVE  /\ CloseInv(o) /\ o.got \subseteq {AnswerTo(r)} /\ (o.ok => o.got # {})
              /\ \A d \in Request : PayloadInv(d)' /\ HoldsInv(d)
              /\ WaitInv(r)
  <2>1. \A d \in Request : UnracedInv(d)
    BY <1>0, <1>10 DEF ExchangeInv
  <2>2. \A d \in Request : PayloadInv(d)'
    BY <1>9, <2>1 DEF UnracedInv, PayloadInv
  <2> QED BY <1>1, <2>1, <2>2 DEF UnracedInv, AnswerInv
<1>11. ASSUME raced' = {}
       PROVE  /\ CloseInv(n) /\ (Owns(o) \/ o.socket = -1) /\ (Owns(n) => Owns(o))
              /\ n.at["task"] \in Linked => n.at["task"] = "waits" /\ u = "timeout" /\ Owns(o)
              /\ n.at["task"] = o.at["task"] \/ n.at["task"] = "closing"
  <2>1. CASE u = "task"
    <3>1. n.at["task"] = "closing" /\ n.at["timeout"] = o.at["timeout"] /\ o.at["task"] = "shut"
      BY <1>2, <1>6, <2>1 DEF User
    <3>2. CloseInv(n)
      BY <1>7, <1>10, <1>11, <3>1 DEF CloseInv, Running
    <3>3. Owns(o)
      BY <1>10, <1>11, <3>1 DEF CloseInv, Owns, Working
    <3> QED BY <3>1, <3>2, <3>3 DEF Linked
  <2>2. CASE u = "timeout"
    <3>1. n.at["task"] = o.at["task"] /\ n.at["timeout"] = "closing" /\ o.at["timeout"] = "shut"
      BY <1>2, <1>6, <2>2 DEF User
    <3>2. o.at["task"] \in {"waits", "approve", "returned"} /\ ~o.closed
      BY <1>10, <1>11, <3>1 DEF CloseInv
    <3>3. CloseInv(n)
      BY <1>7, <1>10, <1>11, <3>1, <3>2 DEF CloseInv, Running
    <3>4. IF o.at["task"] = "waits" THEN Owns(o) ELSE o.socket = -1
      BY <1>10, <1>11, <3>2 DEF CloseInv, Owns, Working
    <3>5. Owns(n) => Owns(o)
      BY <1>7, <3>1, <3>2, <3>4 DEF Owns
    <3> QED BY <2>2, <3>1, <3>2, <3>3, <3>4, <3>5 DEF Linked
  <2> QED BY <2>1, <2>2 DEF User
<1>12. strayed' \subseteq Request /\ (raced' = {} => strayed' = {})
  BY <1>0, <1>1, <1>11, StrayKeeps DEF ShutSocketOf
<1>13. ASSUME raced' = {} PROVE HoldsInv(r)' /\ WaitInv(r)'
  <2>1. req'[r] = n
    BY <1>0, <1>4
  <2>2. HoldsInv(r)'
    BY <1>0, <1>1, <1>7, <1>10, <1>11, <1>13, <2>1 DEF HoldsInv
  <2>3. ASSUME n.at["task"] \in Linked PROVE WaitInv(r)'
    <3>1. /\ o.at["task"] = "waits" /\ n.at["task"] = "waits"
          /\ Refers("client", o.socket) = r
      BY <1>0, <1>1, <1>11, <1>13, <2>3, OwnersApart
    <3>2. link[r].at # "none" /\ blocked["client"][r] = r
      BY <1>1, <1>10, <1>13, <3>1 DEF WaitInv, Linked
    <3> QED BY <1>0, <1>9, <2>1, <3>1, <3>2 DEF WaitInv
  <2>4. ASSUME n.at["task"] \notin Linked PROVE WaitInv(r)'
    BY <2>1, <2>4 DEF WaitInv, Linked
  <2> QED BY <2>2, <2>3, <2>4
<1>14. /\ table' \in [Process -> [Fd -> Request \cup {Free, Console}]]
       /\ blocked' \in [Process -> [Request -> Request \cup {Free}]]
       /\ raced \subseteq raced' /\ raced' \subseteq Request
  BY <1>0 DEF TypeOK
<1>15. n.at["task"] = "waits" => blocked'["client"][r] \in Request
  BY <1>0, <1>1, <1>6 DEF ExchangeInv, WaitsOnOne, User
<1> QED BY <1>0, <1>4, <1>5, <1>7, <1>8, <1>9, <1>10, <1>11, <1>12, <1>13, <1>14, <1>15, ClientStepKeeps

\* The socket is closed once, by who owns it.
LEMMA ClosingKeeps ==
  ASSUME ExchangeInv, NEW r \in Request, NEW u \in User, CloseSocket(r, u), UNCHANGED serverVars
  PROVE  ExchangeInv'
<1>0. TypeOK /\ req \in [Request -> Object] /\ UNCHANGED <<link, blocked, raced>>
  BY DEF ExchangeInv, TypeOK, CloseSocket
<1>1. PICK o \in Object : o = req[r]
  BY <1>0
<1>2. o.at[u] = "closing" /\ o.socket \in Socket /\ table' = Closed("client", o.socket)
  BY <1>1 DEF CloseSocket, Does, Object
<1>3. PICK n : n = [o EXCEPT !.at[u] = "approve"]
  OBVIOUS
<1>4. req' = [req EXCEPT ![r] = n]
  BY <1>0, <1>1, <1>3 DEF CloseSocket
<1>5. n \in Object
  BY <1>3 DEF Object, User, Place
<1>6. n.at[u] = "approve" /\ \A v \in User : v # u => n.at[v] = o.at[v]
  BY <1>3 DEF Object, User
<1>7. /\ n.initialized = o.initialized /\ n.closed = o.closed /\ n.socket = o.socket
      /\ n.approvals = o.approvals /\ n.freed = o.freed /\ n.got = o.got /\ n.ok = o.ok
  BY <1>3 DEF Object
<1>8. ObjectInv(n)
  BY <1>1, <1>2, <1>6, <1>7 DEF ExchangeInv, ObjectInv, Count, User
<1>9. /\ table' \in [Process -> [Fd -> Request \cup {Free, Console}]]
      /\ \A q \in Process, f \in Fd : q # "client" \/ f # o.socket => table'[q][f] = table[q][f]
  BY <1>0, <1>2, ClosedIs DEF Process
<1>10. ASSUME raced' = {}
       PROVE  /\ CloseInv(o) /\ o.got \subseteq {AnswerTo(r)} /\ (o.ok => o.got # {})
              /\ \A d \in Request : PayloadInv(d)' /\ HoldsInv(d)
              /\ WaitInv(r) /\ (Owns(o) \/ o.socket = -1)
  <2>1. \A d \in Request : UnracedInv(d)
    BY <1>0, <1>10 DEF ExchangeInv
  <2>2. \A d \in Request : PayloadInv(d)'
    BY <1>0, <2>1 DEF UnracedInv, PayloadInv
  <2>3. Owns(o) \/ o.socket = -1
    BY <1>2 DEF Owns, User
  <2> QED BY <1>1, <2>1, <2>2, <2>3 DEF UnracedInv, AnswerInv
<1>11. strayed' \subseteq Request /\ (raced' = {} => strayed' = {})
  BY <1>0, <1>1, <1>10, StrayKeeps DEF CloseSocket
<1>12. ASSUME raced' = {} PROVE CloseInv(n) /\ HoldsInv(r)' /\ WaitInv(r)'
  <2>1. req'[r] = n
    BY <1>0, <1>4
  <2>2. CASE u = "task"
    <3>1. n.at["task"] = "approve" /\ n.at["timeout"] = o.at["timeout"] /\ o.at["task"] = "closing"
      BY <1>2, <1>6, <2>2 DEF User
    <3>2. CloseInv(n)
      BY <1>7, <1>10, <1>12, <3>1 DEF CloseInv, Running
    <3>3. ~Owns(n)
      BY <1>7, <1>10, <1>12, <3>1 DEF CloseInv, Owns, Working
    <3> QED BY <2>1, <3>1, <3>2, <3>3 DEF HoldsInv, WaitInv, Linked
  <2>3. CASE u = "timeout"
    <3>1. n.at["task"] = o.at["task"] /\ n.at["timeout"] = "approve" /\ o.at["timeout"] = "closing"
      BY <1>2, <1>6, <2>3 DEF User
    <3>2. CloseInv(n)
      BY <1>7, <1>10, <1>12, <3>1 DEF CloseInv, Running
    <3>3. ~Owns(n)
      BY <1>7, <1>10, <1>12, <3>1 DEF CloseInv, Owns, Working
    <3>4. Cancelled(n) => Cancelled(o)
      BY <1>7, <3>1 DEF Cancelled
    <3>5. WaitInv(r)'
      BY <1>0, <1>1, <1>10, <1>12, <2>1, <3>1, <3>4 DEF WaitInv
    <3> QED BY <2>1, <3>2, <3>3, <3>5 DEF HoldsInv
  <2> QED BY <2>2, <2>3 DEF User
<1>13. ASSUME raced' = {}, NEW d \in Request \ {r}, Owns(req[d])
       PROVE  table'["client"][req[d].socket] = table["client"][req[d].socket]
  <2>1. req[d].socket \in Fd /\ req[d].socket # o.socket
    <3>1. req[d].socket \in Fd
      BY <1>10, <1>13 DEF HoldsInv
    <3>2. CASE Owns(o)
      BY <1>0, <1>1, <1>13, <3>2, OwnersApart
    <3>3. CASE o.socket = -1
      BY <3>1, <3>3, MaxFdIsNatural DEF Fd
    <3> QED BY <1>10, <1>13, <3>1, <3>2, <3>3
  <2> QED BY <1>9, <2>1 DEF Process
<1>14. /\ link' \in [Request -> Link]
       /\ blocked' \in [Process -> [Request -> Request \cup {Free}]]
       /\ raced \subseteq raced' /\ raced' \subseteq Request
       /\ \A f \in Fd : table'["server"][f] = table["server"][f]
  BY <1>0, <1>9 DEF TypeOK, Process
<1>15. n.at["task"] = "waits" => blocked'["client"][r] \in Request
  BY <1>0, <1>1, <1>6 DEF ExchangeInv, WaitsOnOne, User
<1> QED BY <1>0, <1>4, <1>5, <1>7, <1>8, <1>9, <1>10, <1>11, <1>12, <1>13, <1>14, <1>15, ClientStepKeeps


-----------------------------------------------------------------------------
(* What a step of the server, or of a stranger, has to keep.               *)

\* The client loses neither its descriptors nor its connections, nor is it waiting any less.
LEMMA ServerStepKeeps ==
  ASSUME ExchangeInv, TypeOK', UNCHANGED clientVars,
         \A f \in Fd : table'["client"][f] = table["client"][f],
         \A d \in Request : blocked'["client"][d] = blocked["client"][d],
         \A d \in Request : /\ link[d].at # "none" => link'[d].at # "none"
                            /\ link[d].shut \subseteq link'[d].shut
                            /\ ConnectionInv(conn'[d]) /\ AcceptedInv(d)',
         raced = {} => \A d \in Request : PayloadInv(d)' /\ RequestInv(d)'
  PROVE  ExchangeInv'
<1>1. UNCHANGED <<req, raced, strayed>>
  BY DEF clientVars
<1>2. ASSUME NEW d \in Request PROVE ObjectInv(req'[d]) /\ WaitsOnOne(d)'
  BY <1>1 DEF ExchangeInv, WaitsOnOne
<1>3. ASSUME raced = {}, NEW d \in Request PROVE UnracedInv(d)'
  <2>1. UnracedInv(d)
    BY <1>3 DEF ExchangeInv
  <2>2. CloseInv(req'[d]) /\ AnswerInv(d)'
    BY <1>1, <2>1 DEF UnracedInv, AnswerInv
  <2>3. HoldsInv(d)'
    BY <1>1, <2>1 DEF UnracedInv, HoldsInv
  <2>4. WaitInv(d)'
    BY <1>1, <2>1 DEF UnracedInv, WaitInv
  <2> QED BY <1>3, <2>2, <2>3, <2>4 DEF UnracedInv
<1> QED BY <1>1, <1>2, <1>3 DEF ExchangeInv

\* A step that leaves connections and sockets alone.
LEMMA OwnStepKeeps ==
  ASSUME ExchangeInv, TypeOK', UNCHANGED <<clientVars, socketVars, conn, alive>>
  PROVE  ExchangeInv'
<1>1. UNCHANGED <<table, link, blocked>>
  BY DEF socketVars
<1>2. \A d \in Request : ConnectionInv(conn'[d]) /\ AcceptedInv(d)'
  BY <1>1 DEF ExchangeInv, AcceptedInv
<1>3. raced = {} => \A d \in Request : PayloadInv(d)' /\ RequestInv(d)'
  BY <1>1 DEF ExchangeInv, UnracedInv, PayloadInv, RequestInv
<1> QED BY <1>1, <1>2, <1>3, ServerStepKeeps

\* A step for one connection.
LEMMA ConnectionStepKeeps ==
  ASSUME ExchangeInv, NEW r \in Request, NEW c \in Connection, ConnectionInv(c),
         conn' = [conn EXCEPT ![r] = c],
         UNCHANGED <<clientVars, alive, started, callback, listening, ending>>,
         listener' \in {listener, "created"},
         table' \in [Process -> [Fd -> Request \cup {Free, Console}]],
         \A f \in Fd : table'["client"][f] = table["client"][f],
         \A d \in Request \ {r} :
           alive /\ conn[d].operational =>
             table'["server"][conn[d].socket] = table["server"][conn[d].socket],
         link' \in [Request -> Link],
         \A d \in Request : /\ link[d].at # "none" => link'[d].at # "none"
                            /\ link[d].shut \subseteq link'[d].shut,
         \A d \in Request \ {r} : link'[d].at = link[d].at,
         blocked' \in [Process -> [Request -> Request \cup {Free}]],
         \A d \in Request : blocked'["client"][d] = blocked["client"][d],
         \A d \in Request \ {r} : blocked'["server"][d] = blocked["server"][d],
         AcceptedInv(r)',
         raced = {} => (\A d \in Request : PayloadInv(d)') /\ RequestInv(r)'
  PROVE  ExchangeInv'
<1>1. /\ conn' \in [Request -> Connection] /\ conn'[r] = c
      /\ \A d \in Request \ {r} : conn'[d] = conn[d]
  BY DEF ExchangeInv, TypeOK
<1>2. TypeOK'
  BY <1>1 DEF ExchangeInv, TypeOK, clientVars
<1>3. ASSUME NEW d \in Request PROVE ConnectionInv(conn'[d]) /\ AcceptedInv(d)'
  <2>1. CASE d = r
    BY <1>1, <2>1
  <2>2. CASE d # r
    <3>1. conn'[d] = conn[d] /\ blocked'["server"][d] = blocked["server"][d] /\ link'[d].at = link[d].at
      BY <1>1, <2>2
    <3>2. ConnectionInv(conn[d]) /\ AcceptedInv(d)
      BY DEF ExchangeInv
    <3>3. alive /\ conn[d].operational =>
            table'["server"][conn[d].socket] = table["server"][conn[d].socket]
      BY <2>2
    <3> QED BY <3>1, <3>2, <3>3 DEF AcceptedInv
  <2> QED BY <2>1, <2>2
<1>4. ASSUME raced = {}, NEW d \in Request PROVE PayloadInv(d)' /\ RequestInv(d)'
  <2>1. RequestInv(d)
    BY <1>4 DEF ExchangeInv, UnracedInv
  <2>2. RequestInv(d)'
    BY <1>1, <1>4, <2>1 DEF RequestInv
  <2> QED BY <1>4, <2>2
<1>5. \A d \in Request : /\ link[d].at # "none" => link'[d].at # "none"
                         /\ link[d].shut \subseteq link'[d].shut
                         /\ ConnectionInv(conn'[d]) /\ AcceptedInv(d)'
  BY <1>3
<1> QED BY <1>2, <1>4, <1>5, ServerStepKeeps

\* The same, when the sockets stay and the connection stays on its own.
LEMMA TaskStepKeeps ==
  ASSUME ExchangeInv, NEW r \in Request, NEW c \in Connection, ConnectionInv(c),
         conn[r].at["worker"] # "none" \/ conn[r].at["timer"] # "none",
         conn' = [conn EXCEPT ![r] = c],
         UNCHANGED <<clientVars, socketVars, alive, started, callback, listening, listener, ending>>,
         c.socket = conn[r].socket, c.operational <=> conn[r].operational, c.got = conn[r].got,
         c.at["worker"] \in {"headWaits", "bodyWaits"} => c.at["worker"] = conn[r].at["worker"]
  PROVE  ExchangeInv'
<1>1. UNCHANGED <<table, link, blocked>> /\ TypeOK /\ conn'[r] = c
  BY DEF socketVars, ExchangeInv, TypeOK
<1>2. link[r].at = "accepted" /\ AcceptedInv(r)
  BY DEF ExchangeInv, AcceptedInv, NoConnection, Holder
<1>3. AcceptedInv(r)'
  BY <1>1, <1>2 DEF AcceptedInv
<1>4. raced = {} => (\A d \in Request : PayloadInv(d)') /\ RequestInv(r)'
  BY <1>1 DEF ExchangeInv, UnracedInv, PayloadInv, RequestInv
<1>5. /\ table' \in [Process -> [Fd -> Request \cup {Free, Console}]]
      /\ link' \in [Request -> Link]
      /\ blocked' \in [Process -> [Request -> Request \cup {Free}]]
  BY <1>1 DEF TypeOK
<1>6. UNCHANGED <<clientVars, alive, started, callback, listening, ending>>
  OBVIOUS
<1> QED BY <1>1, <1>3, <1>4, <1>5, <1>6, ConnectionStepKeeps


\* The server's own thread, and who deletes the server, leave connections alone.
LEMMA ServersOwnKeeps ==
  ASSUME ExchangeInv, StartSystem \/ Listen \/ AcceptFails \/ DeleteServer, UNCHANGED clientVars
  PROVE  ExchangeInv'
<1>1. TypeOK /\ UNCHANGED <<socketVars, conn, alive, callback>>
  BY DEF ExchangeInv, StartSystem, Listen, AcceptFails, DeleteServer
<1>2. UNCHANGED <<table, link, blocked, req, raced, strayed>>
  BY <1>1 DEF socketVars, clientVars
<1>3. /\ started' \in BOOLEAN
      /\ listening' \in {"none", "open", "closed"}
      /\ listener' \in {"none", "new", "created", "accepting", "exited", "undefined"}
      /\ ending' \in {"no", "join", "deleted"}
  BY <1>1 DEF StartSystem, InitializeSocket, Listen, AcceptFails, DeleteServer, TypeOK
<1>4. TypeOK'
  BY <1>1, <1>2, <1>3 DEF TypeOK
<1> QED BY <1>1, <1>4, OwnStepKeeps

\* EndSystem resets what is not accepted yet.
LEMMA EndingKeeps ==
  ASSUME ExchangeInv, EndSystem, UNCHANGED clientVars
  PROVE  ExchangeInv'
<1>1. TypeOK /\ UNCHANGED <<table, blocked, alive, listener, conn, req, raced, strayed>>
  BY DEF ExchangeInv, EndSystem, clientVars
<1>2. \A d \in Request : link[d] \in Link
  BY <1>1 DEF TypeOK
<1>3. /\ link' \in [Request -> Link]
      /\ \A d \in Request :
           /\ link'[d].shut = link[d].shut /\ link'[d].to = link[d].to
           /\ link'[d].at = IF link[d].at = "backlog" THEN "reset" ELSE link[d].at
  <2>1. link' = [d \in Request |-> IF link[d].at = "backlog" THEN [link[d] EXCEPT !.at = "reset"]
                                   ELSE link[d]]
    BY DEF EndSystem
  <2> QED BY <1>2, <2>1 DEF Link
<1>4. TypeOK'
  BY <1>1, <1>3 DEF EndSystem, TypeOK
<1>5. \A d \in Request : ConnectionInv(conn'[d]) /\ AcceptedInv(d)'
  BY <1>1, <1>3 DEF ExchangeInv, AcceptedInv
<1>6. raced = {} => \A d \in Request : PayloadInv(d)' /\ RequestInv(d)'
  BY <1>1, <1>3 DEF ExchangeInv, UnracedInv, PayloadInv, RequestInv
<1> QED BY <1>1, <1>3, <1>4, <1>5, <1>6, ServerStepKeeps

\* A connection is accepted with a descriptor of its own.
LEMMA AcceptingKeeps ==
  ASSUME ExchangeInv, NEW r \in Request, Accept(r), UNCHANGED clientVars
  PROVE  ExchangeInv'
<1>1. /\ TypeOK /\ UNCHANGED <<blocked, alive, started, callback, listening, ending>>
      /\ link[r].at = "backlog" /\ FreeFds("server") # {} /\ listener' = "created"
  BY DEF ExchangeInv, Accept
<1>2. PICK g : g = Min(FreeFds("server"))
  OBVIOUS
<1>3. PICK c : c = AcceptedSocket(g)
  OBVIOUS
<1>4. /\ link' = [link EXCEPT ![r].at = "accepted"] /\ table' = Opened("server", r)
      /\ conn' = [conn EXCEPT ![r] = c]
  BY <1>2, <1>3 DEF Accept
<1>5. /\ g \in Fd /\ table["server"][g] = Free /\ table'["server"][g] = r
      /\ table' \in [Process -> [Fd -> Request \cup {Free, Console}]]
      /\ \A q \in Process, f \in Fd : q # "server" \/ f # g => table'[q][f] = table[q][f]
  BY <1>1, <1>2, <1>4, OpenedIs DEF Process
<1>6. c \in Connection
  <2>0. NoConnection \in Connection
    BY DEF NoConnection, Connection, Stage, Socket
  <2>1. PICK z \in Connection : z = NoConnection
    BY <2>0
  <2>2. c = [z EXCEPT !.at["worker"] = "queued", !.at["timer"] = "scheduled",
                      !.socket = g, !.operational = TRUE]
    BY <1>3, <2>1 DEF AcceptedSocket
  <2> QED BY <1>5, <2>2 DEF Connection, Holder, Stage, Socket
<1>7. c.at["worker"] = "queued" /\ c.at["timer"] = "scheduled"
  BY <1>3 DEF AcceptedSocket, NoConnection, Holder
<1>8. c.socket = g /\ c.approvals = 0 /\ ~c.freed /\ c.got = {}
  BY <1>3 DEF AcceptedSocket, NoConnection
<1>9. ConnectionInv(c)
  BY <1>7, <1>8 DEF ConnectionInv, Count
<1>10. \A d \in Request : link[d] \in Link
  BY <1>1 DEF TypeOK
<1>11. /\ link' \in [Request -> Link] /\ link'[r].at = "accepted"
       /\ \A d \in Request : link'[d].shut = link[d].shut /\ link'[d].to = link[d].to
       /\ \A d \in Request \ {r} : link'[d].at = link[d].at
  BY <1>1, <1>4, <1>10 DEF TypeOK, Link
<1>12. conn'[r] = c
  BY <1>1, <1>4 DEF TypeOK
<1>13. AcceptedInv(r)'
  BY <1>5, <1>7, <1>8, <1>11, <1>12 DEF AcceptedInv
<1>14. ASSUME NEW d \in Request \ {r}, alive, conn[d].operational
       PROVE  table'["server"][conn[d].socket] = table["server"][conn[d].socket]
  <2>1. conn[d].socket \in Fd /\ table["server"][conn[d].socket] = d
    BY <1>14 DEF ExchangeInv, AcceptedInv
  <2>2. conn[d].socket # g
    BY <1>5, <2>1, RequestsAreNotFree DEF Free
  <2> QED BY <1>5, <2>1, <2>2 DEF Process
<1>15. raced = {} => (\A d \in Request : PayloadInv(d)') /\ RequestInv(r)'
  <2>1. RequestInv(r)'
    BY <1>8, <1>12 DEF RequestInv
  <2>2. raced = {} => \A d \in Request : PayloadInv(d)'
    BY <1>11 DEF ExchangeInv, UnracedInv, PayloadInv
  <2> QED BY <2>1, <2>2
<1>16. /\ blocked' \in [Process -> [Request -> Request \cup {Free}]]
       /\ \A f \in Fd : table'["client"][f] = table["client"][f]
       /\ \A d \in Request : link[d].at # "none" => link'[d].at # "none"
  BY <1>1, <1>5, <1>11 DEF TypeOK, Process
<1> QED BY <1>1, <1>4, <1>5, <1>6, <1>9, <1>11, <1>13, <1>14, <1>15, <1>16, ConnectionStepKeeps

\* A task begins, if it finds the server.
LEMMA BeginningKeeps ==
  ASSUME ExchangeInv, NEW r \in Request, BeginTask(r), UNCHANGED clientVars
  PROVE  ExchangeInv'
<1>1. /\ TypeOK /\ conn[r] \in Connection /\ ConnectionInv(conn[r])
      /\ conn[r].at["worker"] = "queued"
      /\ UNCHANGED <<socketVars, alive, started, callback, listening, listener, ending>>
  BY DEF ExchangeInv, TypeOK, BeginTask, ServerStays, At
<1>2. PICK a \in {"undefined", "initialize", "returned"} :
        conn' = [conn EXCEPT ![r].at["worker"] = a]
  BY DEF BeginTask, GoesTo
<1>3. PICK c : c = [conn[r] EXCEPT !.at["worker"] = a]
  OBVIOUS
<1>4. conn' = [conn EXCEPT ![r] = c]
  BY <1>2, <1>3
<1>5. c \in Connection
  BY <1>1, <1>3 DEF Connection, Holder, Stage
<1>6. c.at["worker"] = a /\ c.at["timer"] = conn[r].at["timer"]
  BY <1>1, <1>3 DEF Connection, Holder
<1>7. /\ c.socket = conn[r].socket /\ c.operational = conn[r].operational /\ c.got = conn[r].got
      /\ c.approvals = conn[r].approvals /\ c.freed = conn[r].freed
  BY <1>1, <1>3 DEF Connection
<1>8. ConnectionInv(c)
  <2>1. c.approvals \in 0..2
    BY <1>5 DEF Connection
  <2> QED BY <1>1, <1>6, <1>7, <2>1 DEF ConnectionInv, Count
<1> QED BY <1>1, <1>4, <1>5, <1>6, <1>7, <1>8, TaskStepKeeps

\* It asks for the name of the other end, and may find the connection broken.
LEMMA InitializingKeeps ==
  ASSUME ExchangeInv, NEW r \in Request, Initialize(r), UNCHANGED clientVars
  PROVE  ExchangeInv'
<1>1. /\ TypeOK /\ conn[r] \in Connection /\ ConnectionInv(conn[r])
      /\ conn[r].at["worker"] = "initialize"
      /\ UNCHANGED <<socketVars, alive, started, callback, listening, listener, ending>>
  BY DEF ExchangeInv, TypeOK, Initialize, ServerStays, At
<1>2. PICK a \in {"head", "returned"} :
        conn' = [conn EXCEPT ![r].initialized = TRUE, ![r].at["worker"] = a]
  BY DEF Initialize
<1>3. PICK c : c = [conn[r] EXCEPT !.initialized = TRUE, !.at["worker"] = a]
  OBVIOUS
<1>4. conn' = [conn EXCEPT ![r] = c]
  BY <1>1, <1>2, <1>3 DEF TypeOK
<1>5. c \in Connection
  BY <1>1, <1>3 DEF Connection, Holder, Stage
<1>6. c.at["worker"] = a /\ c.at["timer"] = conn[r].at["timer"]
  BY <1>1, <1>3 DEF Connection, Holder
<1>7. /\ c.socket = conn[r].socket /\ c.operational = conn[r].operational /\ c.got = conn[r].got
      /\ c.approvals = conn[r].approvals /\ c.freed = conn[r].freed
  BY <1>1, <1>3 DEF Connection
<1>8. ConnectionInv(c)
  <2>1. c.approvals \in 0..2
    BY <1>5 DEF Connection
  <2> QED BY <1>1, <1>6, <1>7, <2>1 DEF ConnectionInv, Count
<1> QED BY <1>1, <1>4, <1>5, <1>6, <1>7, <1>8, TaskStepKeeps


\* recv is called with the number that was accepted, whatever it names by now.
LEMMA CallingRecvKeeps ==
  ASSUME ExchangeInv, NEW r \in Request, CallRecv(r), UNCHANGED clientVars
  PROVE  ExchangeInv'
<1>1. /\ TypeOK /\ conn[r] \in Connection /\ ConnectionInv(conn[r])
      /\ alive /\ conn[r].at["worker"] \in {"head", "body"}
      /\ UNCHANGED <<table, link, alive, started, callback, listening, listener, ending>>
  BY DEF ExchangeInv, TypeOK, CallRecv, ServerStays
<1>2. PICK a \in {"headWaits", "bodyWaits", "cancel"} :
        /\ conn' = [conn EXCEPT ![r].at["worker"] = a]
        /\ \/ /\ a # "cancel" /\ Refers("server", conn[r].socket) \in Request
              /\ blocked' = [blocked EXCEPT !["server"][r] = Refers("server", conn[r].socket)]
           \/ a = "cancel" /\ UNCHANGED blocked
  BY DEF CallRecv, GoesTo, CanRecv, Entered
<1>3. PICK c : c = [conn[r] EXCEPT !.at["worker"] = a]
  OBVIOUS
<1>4. conn' = [conn EXCEPT ![r] = c]
  BY <1>2, <1>3
<1>5. c \in Connection
  BY <1>1, <1>3 DEF Connection, Holder, Stage
<1>6. c.at["worker"] = a /\ c.at["timer"] = conn[r].at["timer"]
  BY <1>1, <1>3 DEF Connection, Holder
<1>7. /\ c.socket = conn[r].socket /\ c.operational = conn[r].operational /\ c.got = conn[r].got
      /\ c.approvals = conn[r].approvals /\ c.freed = conn[r].freed
  BY <1>1, <1>3 DEF Connection
<1>8. ConnectionInv(c)
  <2>1. c.approvals \in 0..2
    BY <1>5 DEF Connection
  <2> QED BY <1>1, <1>6, <1>7, <2>1 DEF ConnectionInv, Count
<1>9. /\ blocked' \in [Process -> [Request -> Request \cup {Free}]]
      /\ \A d \in Request : blocked'["client"][d] = blocked["client"][d]
      /\ \A d \in Request \ {r} : blocked'["server"][d] = blocked["server"][d]
      /\ a # "cancel" => /\ blocked'["server"][r] \in Request
                         /\ blocked'["server"][r] = Refers("server", conn[r].socket)
  BY <1>1, <1>2 DEF TypeOK, Process
<1>10. conn'[r] = c
  BY <1>1, <1>4 DEF TypeOK
<1>11. AcceptedInv(r)'
  <2>1. AcceptedInv(r) /\ link[r].at = "accepted"
    BY <1>1 DEF ExchangeInv, AcceptedInv, NoConnection, Holder
  <2>2. conn[r].operational => Refers("server", conn[r].socket) = r
    BY <1>1, <2>1 DEF AcceptedInv, Refers
  <2> QED BY <1>1, <1>6, <1>7, <1>9, <1>10, <2>1, <2>2 DEF AcceptedInv
<1>12. raced = {} => (\A d \in Request : PayloadInv(d)') /\ RequestInv(r)'
  BY <1>1, <1>7, <1>10 DEF ExchangeInv, UnracedInv, PayloadInv, RequestInv
<1>13. /\ table' \in [Process -> [Fd -> Request \cup {Free, Console}]]
       /\ link' \in [Request -> Link]
  BY <1>1 DEF TypeOK
<1> QED BY <1>1, <1>4, <1>5, <1>8, <1>9, <1>11, <1>12, <1>13, ConnectionStepKeeps

\* What a task goes on with, once something was received.
LEMMA AfterReceiving ==
  ASSUME NEW got, AfterHead(got) \in {"callback", "send"} \/ AfterBody(got) \in {"callback", "send"}
  PROVE  got # {}
BY DEF AfterHead, AfterBody, HeadersReady, IsPost, BodyReady, BodyFailed

\* What comes over its own connection is its own request.
LEMMA ReceivedKeeps ==
  ASSUME ExchangeInv, NEW r \in Request, Received(r), UNCHANGED clientVars
  PROVE  ExchangeInv'
<1>1. /\ TypeOK /\ conn[r] \in Connection /\ ConnectionInv(conn[r])
      /\ alive /\ conn[r].at["worker"] \in {"headWaits", "bodyWaits"}
      /\ blocked' = Left("server", r)
      /\ UNCHANGED <<table, alive, started, callback, listening, listener, ending>>
  BY DEF ExchangeInv, TypeOK, Received, ServerStays
<1>2. AcceptedInv(r) /\ link[r].at = "accepted"
  BY <1>1 DEF ExchangeInv, AcceptedInv, NoConnection, Holder
<1>3. PICK e \in Request : e = blocked["server"][r]
  BY <1>1, <1>2 DEF AcceptedInv
<1>4. PICK old \in Seq(Part) : old = link[e].to["server"]
  BY <1>1, LinkUpdates DEF TypeOK
<1>5. PICK k \in 1..Len(old) :
        LET got == conn[r].got \cup ToSet(SubSeq(old, 1, k)) IN
        /\ link' = Taken("server", r, k)
        /\ conn' = [conn EXCEPT ![r].got = got, ![r].at["worker"] =
                      IF At(r, "worker", "headWaits") THEN AfterHead(got) ELSE AfterBody(got)]
  BY <1>3, <1>4 DEF Received, Arrived
<1>0. k \in Nat /\ k >= 1 /\ k <= Len(old)
  OBVIOUS
<1>6. PICK got : got = conn[r].got \cup ToSet(SubSeq(old, 1, k))
  OBVIOUS
<1>7. PICK a : a = IF At(r, "worker", "headWaits") THEN AfterHead(got) ELSE AfterBody(got)
  OBVIOUS
<1>8. PICK c : c = [conn[r] EXCEPT !.got = got, !.at["worker"] = a]
  OBVIOUS
<1>9. conn' = [conn EXCEPT ![r] = c]
  <2>1. conn' = [conn EXCEPT ![r].got = got, ![r].at["worker"] = a]
    BY <1>5, <1>6, <1>7
  <2> QED BY <1>1, <1>8, <2>1 DEF TypeOK
<1>10. ASSUME NEW S, old \in Seq(S) PROVE got \subseteq conn[r].got \cup S
  <2>1. \A i \in 1..k : SubSeq(old, 1, k)[i] = old[i] /\ old[i] \in S
    BY <1>5, <1>10
  <2>2. Len(SubSeq(old, 1, k)) = k
    BY <1>5
  <2>3. ToSet(SubSeq(old, 1, k)) \subseteq S
    BY <2>1, <2>2 DEF ToSet
  <2> QED BY <1>6, <2>3
<1>11. a \in {"head", "body", "callback", "send"} /\ (a \in {"callback", "send"} => got # {})
  BY <1>7, AfterReceiving DEF AfterHead, AfterBody
<1>12. c \in Connection
  <2>1. got \subseteq Part
    BY <1>1, <1>4, <1>10 DEF Connection
  <2> QED BY <1>1, <1>8, <1>11, <2>1 DEF Connection, Holder, Stage
<1>13. c.at["worker"] = a /\ c.at["timer"] = conn[r].at["timer"]
  BY <1>1, <1>8 DEF Connection, Holder
<1>14. /\ c.socket = conn[r].socket /\ c.operational = conn[r].operational /\ c.got = got
       /\ c.approvals = conn[r].approvals /\ c.freed = conn[r].freed
  BY <1>1, <1>8 DEF Connection
<1>15. ConnectionInv(c)
  <2>1. c.approvals \in 0..2
    BY <1>12 DEF Connection
  <2> QED BY <1>1, <1>11, <1>13, <1>14, <2>1 DEF ConnectionInv, Count
<1>16. /\ link' \in [Request -> Link]
       /\ link'[e].to["server"] = SubSeq(old, k + 1, Len(old))
       /\ \A d \in Request : /\ link'[d].at = link[d].at /\ link'[d].shut = link[d].shut
                             /\ link'[d].to["client"] = link[d].to["client"]
                             /\ d # e => link'[d] = link[d]
  <2>1. TypeOK /\ blocked["server"][r] = e /\ k \in Nat /\ link' = Taken("server", r, k)
    BY <1>0, <1>1, <1>3, <1>5
  <2>2. /\ link' \in [Request -> Link]
        /\ link'[e].to["server"] = SubSeq(link[e].to["server"], k + 1, Len(link[e].to["server"]))
        /\ \A d \in Request : /\ link'[d].at = link[d].at /\ link'[d].shut = link[d].shut
                              /\ link'[d].to["client"] = link[d].to["client"]
                              /\ d # e => link'[d] = link[d]
    BY <2>1, ServerTakes
  <2> QED BY <1>4, <2>2
<1>17. /\ blocked' \in [Process -> [Request -> Request \cup {Free}]]
       /\ \A d \in Request : blocked'["client"][d] = blocked["client"][d]
       /\ \A d \in Request \ {r} : blocked'["server"][d] = blocked["server"][d]
  BY <1>1, LeftIs DEF Process
<1>18. conn'[r] = c
  BY <1>1, <1>9 DEF TypeOK
<1>19. AcceptedInv(r)'
  BY <1>1, <1>2, <1>11, <1>13, <1>14, <1>16, <1>18 DEF AcceptedInv
<1>20. ASSUME raced = {} PROVE (\A d \in Request : PayloadInv(d)') /\ RequestInv(r)'
  <2>1. \A d \in Request : PayloadInv(d) /\ RequestInv(d)
    BY <1>20 DEF ExchangeInv, UnracedInv
  <2>2. PICK s \in Seq({e} \X {"head", "body"}) : s = old
    BY <1>4, <2>1 DEF PayloadInv
  <2>3. PICK t \in Seq({e} \X {"head", "body"}) : t = SubSeq(s, k + 1, Len(s))
    BY <1>0, RestIs
  <2>4. \A d \in Request : PayloadInv(d)'
    BY <1>16, <2>1, <2>2, <2>3 DEF PayloadInv
  <2>5. conn[r].operational => e = r /\ conn[r].got \subseteq {r} \X {"head", "body"}
    BY <1>1, <1>2, <1>3, <2>1 DEF AcceptedInv, RequestInv
  <2>6. got \subseteq conn[r].got \cup ({e} \X {"head", "body"})
    BY <1>10, <2>2
  <2>7. RequestInv(r)'
    BY <1>14, <1>18, <2>5, <2>6 DEF RequestInv
  <2> QED BY <2>4, <2>7
<1>21. table' \in [Process -> [Fd -> Request \cup {Free, Console}]]
  BY <1>1 DEF TypeOK
<1> QED BY <1>1, <1>9, <1>12, <1>15, <1>16, <1>17, <1>19, <1>20, <1>21, ConnectionStepKeeps


\* Nothing is to come: the task cancels, or reads on.
LEMMA ReceivedNothingKeeps ==
  ASSUME ExchangeInv, NEW r \in Request, ReceivedNothing(r), UNCHANGED clientVars
  PROVE  ExchangeInv'
<1>1. /\ TypeOK /\ conn[r] \in Connection /\ ConnectionInv(conn[r])
      /\ conn[r].at["worker"] \in {"headWaits", "bodyWaits"} /\ blocked' = Left("server", r)
      /\ UNCHANGED <<table, link, alive, started, callback, listening, listener, ending>>
  BY DEF ExchangeInv, TypeOK, ReceivedNothing, ServerStays
<1>2. PICK a \in {"cancel", "body"} : conn' = [conn EXCEPT ![r].at["worker"] = a]
  BY DEF ReceivedNothing, GoesTo
<1>3. PICK c : c = [conn[r] EXCEPT !.at["worker"] = a]
  OBVIOUS
<1>4. conn' = [conn EXCEPT ![r] = c]
  BY <1>2, <1>3
<1>5. c \in Connection
  BY <1>1, <1>3 DEF Connection, Holder, Stage
<1>6. c.at["worker"] = a /\ c.at["timer"] = conn[r].at["timer"]
  BY <1>1, <1>3 DEF Connection, Holder
<1>7. /\ c.socket = conn[r].socket /\ c.operational = conn[r].operational /\ c.got = conn[r].got
      /\ c.approvals = conn[r].approvals /\ c.freed = conn[r].freed
  BY <1>1, <1>3 DEF Connection
<1>8. ConnectionInv(c)
  <2>1. c.approvals \in 0..2
    BY <1>5 DEF Connection
  <2> QED BY <1>1, <1>6, <1>7, <2>1 DEF ConnectionInv, Count
<1>9. /\ blocked' \in [Process -> [Request -> Request \cup {Free}]]
      /\ \A d \in Request : blocked'["client"][d] = blocked["client"][d]
      /\ \A d \in Request \ {r} : blocked'["server"][d] = blocked["server"][d]
  BY <1>1, LeftIs DEF Process
<1>10. conn'[r] = c
  BY <1>1, <1>4 DEF TypeOK
<1>11. AcceptedInv(r)'
  <2>1. AcceptedInv(r) /\ link[r].at = "accepted"
    BY <1>1 DEF ExchangeInv, AcceptedInv, NoConnection, Holder
  <2> QED BY <1>1, <1>6, <1>7, <1>10, <2>1 DEF AcceptedInv
<1>12. raced = {} => (\A d \in Request : PayloadInv(d)') /\ RequestInv(r)'
  BY <1>1, <1>7, <1>10 DEF ExchangeInv, UnracedInv, PayloadInv, RequestInv
<1>13. /\ table' \in [Process -> [Fd -> Request \cup {Free, Console}]]
       /\ link' \in [Request -> Link]
  BY <1>1 DEF TypeOK
<1> QED BY <1>1, <1>4, <1>5, <1>8, <1>9, <1>11, <1>12, <1>13, ConnectionStepKeeps

\* The callback is called, or what is left of it; a process that terminates has nothing open.
LEMMA CallingBackKeeps ==
  ASSUME ExchangeInv, NEW r \in Request, CallCallback(r), UNCHANGED clientVars
  PROVE  ExchangeInv'
<1>1. /\ TypeOK /\ conn[r] \in Connection /\ ConnectionInv(conn[r])
      /\ conn[r].at["worker"] = "callback"
      /\ UNCHANGED <<started, callback, listening, listener, ending>>
  BY DEF ExchangeInv, TypeOK, CallCallback, ServerStays, At
<1>2. CASE \E a \in {"undefined", "send"} :
             GoesTo(r, a) /\ UNCHANGED <<socketVars, alive>>
  <2>1. PICK a \in {"undefined", "send"} :
          conn' = [conn EXCEPT ![r].at["worker"] = a] /\ UNCHANGED <<socketVars, alive>>
    BY <1>2 DEF GoesTo
  <2>2. PICK c : c = [conn[r] EXCEPT !.at["worker"] = a]
    OBVIOUS
  <2>3. conn' = [conn EXCEPT ![r] = c]
    BY <2>1, <2>2
  <2>4. c \in Connection
    BY <1>1, <2>2 DEF Connection, Holder, Stage
  <2>5. c.at["worker"] = a /\ c.at["timer"] = conn[r].at["timer"]
    BY <1>1, <2>2 DEF Connection, Holder
  <2>6. /\ c.socket = conn[r].socket /\ c.operational = conn[r].operational /\ c.got = conn[r].got
        /\ c.approvals = conn[r].approvals /\ c.freed = conn[r].freed
    BY <1>1, <2>2 DEF Connection
  <2>7. ConnectionInv(c)
    <3>1. c.approvals \in 0..2
      BY <2>4 DEF Connection
    <3> QED BY <1>1, <2>5, <2>6, <3>1 DEF ConnectionInv, Count
  <2> QED BY <1>1, <2>1, <2>3, <2>4, <2>5, <2>6, <2>7, TaskStepKeeps
<1>3. CASE /\ alive' = FALSE
           /\ table' = [table EXCEPT !["server"] = [f \in Fd |-> Free]]
           /\ blocked' = [blocked EXCEPT !["server"] = [q \in Request |-> Free]]
           /\ UNCHANGED <<link, conn>>
  <2>1. UNCHANGED <<req, raced, strayed>>
    BY DEF clientVars
  <2>2. /\ table' \in [Process -> [Fd -> Request \cup {Free, Console}]]
        /\ blocked' \in [Process -> [Request -> Request \cup {Free}]]
        /\ \A f \in Fd : table'["client"][f] = table["client"][f]
        /\ \A d \in Request : blocked'["client"][d] = blocked["client"][d]
    BY <1>1, <1>3 DEF TypeOK, Process
  <2>3. TypeOK'
    BY <1>1, <1>3, <2>1, <2>2 DEF TypeOK
  <2>4. \A d \in Request : ConnectionInv(conn'[d]) /\ AcceptedInv(d)'
    BY <1>3 DEF ExchangeInv, AcceptedInv
  <2>5. raced = {} => \A d \in Request : PayloadInv(d)' /\ RequestInv(d)'
    BY <1>3 DEF ExchangeInv, UnracedInv, PayloadInv, RequestInv
  <2> QED BY <1>3, <2>2, <2>3, <2>4, <2>5, ServerStepKeeps
<1> QED BY <1>2, <1>3 DEF CallCallback

\* The answer goes over the connection whose request it answers.
LEMMA AnsweringKeeps ==
  ASSUME ExchangeInv, NEW r \in Request, Send(r), UNCHANGED clientVars
  PROVE  ExchangeInv'
<1>1. /\ TypeOK /\ conn[r] \in Connection /\ ConnectionInv(conn[r])
      /\ alive /\ conn[r].at["worker"] = "send"
      /\ UNCHANGED <<table, blocked, alive, started, callback, listening, listener, ending>>
  BY DEF ExchangeInv, TypeOK, Send, ServerStays, At
<1>2. PICK asked : asked = {i[1] : i \in conn[r].got}
  OBVIOUS
<1>3. PICK answer : answer = [by |-> r, asked |-> asked]
  OBVIOUS
<1>4. /\ conn' = [conn EXCEPT ![r].at["worker"] = "cancel"]
      /\ link' = IF conn[r].operational THEN Sent("server", conn[r].socket, <<answer>>) ELSE link
  BY <1>2, <1>3 DEF Send, GoesTo
<1>5. PICK c : c = [conn[r] EXCEPT !.at["worker"] = "cancel"]
  OBVIOUS
<1>6. conn' = [conn EXCEPT ![r] = c]
  BY <1>4, <1>5
<1>7. c \in Connection
  BY <1>1, <1>5 DEF Connection, Holder, Stage
<1>8. c.at["worker"] = "cancel" /\ c.at["timer"] = conn[r].at["timer"]
  BY <1>1, <1>5 DEF Connection, Holder
<1>9. /\ c.socket = conn[r].socket /\ c.operational = conn[r].operational /\ c.got = conn[r].got
      /\ c.approvals = conn[r].approvals /\ c.freed = conn[r].freed
  BY <1>1, <1>5 DEF Connection
<1>10. ConnectionInv(c)
  <2>1. c.approvals \in 0..2
    BY <1>7 DEF Connection
  <2> QED BY <1>1, <1>8, <1>9, <2>1 DEF ConnectionInv, Count
<1>11. conn'[r] = c
  BY <1>1, <1>6 DEF TypeOK
<1>12. <<answer>> \in Seq(Answer) /\ conn[r].socket \in Socket
  <2>1. asked \subseteq Request
    BY <1>1, <1>2 DEF Connection, Part
  <2>2. answer \in Answer
    BY <1>3, <2>1 DEF Answer
  <2> QED BY <1>1, <2>2 DEF Connection
<1>13. /\ link' \in [Request -> Link]
       /\ \A d \in Request :
            /\ link'[d].at = link[d].at /\ link'[d].shut = link[d].shut
            /\ link'[d].to["server"] = link[d].to["server"]
            /\ \/ link'[d].to["client"] = link[d].to["client"]
               \/ /\ conn[r].operational /\ Refers("server", conn[r].socket) = d
                  /\ link'[d].to["client"] = link[d].to["client"] \o <<answer>>
  <2>1. CASE conn[r].operational
    BY <1>1, <1>4, <1>12, <2>1, ServerSends
  <2>2. CASE ~conn[r].operational
    BY <1>1, <1>4, <2>2 DEF TypeOK
  <2> QED BY <2>1, <2>2
<1>14. AcceptedInv(r) /\ link[r].at = "accepted"
  BY <1>1 DEF ExchangeInv, AcceptedInv, NoConnection, Holder
<1>15. AcceptedInv(r)'
  BY <1>1, <1>8, <1>9, <1>11, <1>13, <1>14 DEF AcceptedInv
<1>16. ASSUME raced = {} PROVE (\A d \in Request : PayloadInv(d)') /\ RequestInv(r)'
  <2>1. \A d \in Request : PayloadInv(d) /\ RequestInv(d)
    BY <1>16 DEF ExchangeInv, UnracedInv
  <2>2. ASSUME NEW d \in Request PROVE PayloadInv(d)'
    <3>1. CASE link'[d].to["client"] = link[d].to["client"]
      BY <1>13, <2>1, <3>1 DEF PayloadInv
    <3>2. CASE /\ conn[r].operational /\ Refers("server", conn[r].socket) = d
               /\ link'[d].to["client"] = link[d].to["client"] \o <<answer>>
      <4>1. d = r
        BY <1>1, <1>14, <3>2 DEF AcceptedInv, Refers
      <4>2. asked = {r}
        <5>1. conn[r].got \subseteq {r} \X {"head", "body"} /\ conn[r].got # {}
          BY <1>1, <2>1, <3>2 DEF RequestInv, ConnectionInv
        <5> QED BY <1>2, <5>1
      <4>3. PICK old \in Seq({AnswerTo(r)}) : old = link[r].to["client"]
        BY <2>1 DEF PayloadInv
      <4>4. answer \in {AnswerTo(r)}
        BY <1>3, <4>2 DEF AnswerTo
      <4>5. old \o <<answer>> \in Seq({AnswerTo(r)})
        BY <4>4
      <4> QED BY <1>13, <2>1, <3>2, <4>1, <4>3, <4>5 DEF PayloadInv
    <3> QED BY <1>13, <3>1, <3>2
  <2>3. RequestInv(r)'
    BY <1>9, <1>11, <2>1 DEF RequestInv
  <2> QED BY <2>2, <2>3
<1>17. /\ table' \in [Process -> [Fd -> Request \cup {Free, Console}]]
       /\ blocked' \in [Process -> [Request -> Request \cup {Free}]]
  BY <1>1 DEF TypeOK
<1> QED BY <1>1, <1>6, <1>7, <1>10, <1>13, <1>15, <1>16, <1>17, ConnectionStepKeeps


\* Whoever stops a socket that is operational closes its descriptor, and no other.
LEMMA StoppingKeeps ==
  ASSUME ExchangeInv, NEW r \in Request, NEW h \in Holder, StopSocketOperation(r, h),
         UNCHANGED clientVars
  PROVE  ExchangeInv'
<1>1. /\ TypeOK /\ conn[r] \in Connection /\ ConnectionInv(conn[r])
      /\ conn[r].at[h] \in {"cancel", "scheduled"}
      /\ UNCHANGED <<link, blocked, alive, started, callback, listening, listener, ending>>
  BY DEF ExchangeInv, TypeOK, StopSocketOperation, MayStop, At, ServerStays
<1>2. PICK i \in BOOLEAN : i = IF h = "worker" THEN FALSE ELSE conn[r].initialized
  BY <1>1 DEF Connection
<1>3. PICK a \in {"shut", "approve"} : a = IF conn[r].operational THEN "shut" ELSE "approve"
  OBVIOUS
<1>4. PICK c : c = [conn[r] EXCEPT !.lock = h, !.operational = FALSE, !.initialized = i, !.at[h] = a]
  OBVIOUS
<1>5. /\ conn' = [conn EXCEPT ![r] = c]
      /\ table' = IF conn[r].operational THEN Closed("server", conn[r].socket) ELSE table
  <2>1. conn' = [conn EXCEPT ![r].lock = h, ![r].operational = FALSE, ![r].initialized = i,
                             ![r].at[h] = a]
    BY <1>1, <1>2, <1>3 DEF StopSocketOperation, TypeOK
  <2>2. conn' = [conn EXCEPT ![r] = c]
    BY <1>4, <2>1, ZenonT(40)
  <2>3. table' = IF conn[r].operational THEN Closed("server", conn[r].socket) ELSE table
    BY DEF StopSocketOperation
  <2> QED BY <2>2, <2>3
<1>6. c \in Connection
  BY <1>1, <1>4 DEF Connection, Holder, Stage
<1>7. c.at[h] = a /\ \A g \in Holder : g # h => c.at[g] = conn[r].at[g]
  BY <1>1, <1>4 DEF Connection, Holder
<1>8. /\ c.socket = conn[r].socket /\ c.operational = FALSE /\ c.got = conn[r].got
      /\ c.approvals = conn[r].approvals /\ c.freed = conn[r].freed
  BY <1>1, <1>4 DEF Connection
<1>9. ConnectionInv(c)
  <2>1. c.approvals \in 0..2
    BY <1>6 DEF Connection
  <2>2. CASE h = "worker"
    <3>1. c.at["worker"] = a /\ c.at["timer"] = conn[r].at["timer"]
      BY <1>7, <2>2 DEF Holder
    <3> QED BY <1>1, <1>8, <2>1, <2>2, <3>1 DEF ConnectionInv, Count
  <2>3. CASE h = "timer"
    <3>1. c.at["worker"] = conn[r].at["worker"] /\ c.at["timer"] = a
      BY <1>7, <2>3 DEF Holder
    <3> QED BY <1>1, <1>8, <2>1, <2>3, <3>1 DEF ConnectionInv, Count
  <2> QED BY <2>2, <2>3 DEF Holder
<1>10. /\ table' \in [Process -> [Fd -> Request \cup {Free, Console}]]
       /\ \A f \in Fd : table'["client"][f] = table["client"][f]
       /\ \A f \in Fd : ~conn[r].operational \/ f # conn[r].socket =>
            table'["server"][f] = table["server"][f]
  <2>1. CASE conn[r].operational
    <3>1. conn[r].socket \in Socket
      BY <1>1 DEF Connection
    <3> QED BY <1>1, <1>5, <2>1, <3>1, ClosedIs DEF Process
  <2>2. CASE ~conn[r].operational
    BY <1>1, <1>5, <2>2 DEF TypeOK
  <2> QED BY <2>1, <2>2
<1>11. ASSUME NEW d \in Request \ {r}, alive, conn[d].operational
       PROVE  table'["server"][conn[d].socket] = table["server"][conn[d].socket]
  <2>1. AcceptedInv(d) /\ AcceptedInv(r)
    BY DEF ExchangeInv
  <2>2. conn[d].socket \in Fd /\ table["server"][conn[d].socket] = d
    BY <1>11, <2>1 DEF AcceptedInv
  <2>3. conn[r].operational => conn[d].socket # conn[r].socket
    BY <1>11, <2>1, <2>2 DEF AcceptedInv
  <2> QED BY <1>10, <2>2, <2>3
<1>12. conn'[r] = c
  BY <1>1, <1>5 DEF TypeOK
<1>13. AcceptedInv(r)'
  <2>1. AcceptedInv(r) /\ link[r].at = "accepted"
    BY <1>1 DEF ExchangeInv, AcceptedInv, NoConnection, Holder
  <2>2. c.at["worker"] \in {"headWaits", "bodyWaits"} => c.at["worker"] = conn[r].at["worker"]
    BY <1>7 DEF Holder
  <2> QED BY <1>1, <1>8, <1>12, <2>1, <2>2 DEF AcceptedInv
<1>14. raced = {} => (\A d \in Request : PayloadInv(d)') /\ RequestInv(r)'
  BY <1>1, <1>8, <1>12 DEF ExchangeInv, UnracedInv, PayloadInv, RequestInv
<1>15. /\ link' \in [Request -> Link]
       /\ blocked' \in [Process -> [Request -> Request \cup {Free}]]
  BY <1>1 DEF TypeOK
<1> QED BY <1>1, <1>5, <1>6, <1>9, <1>10, <1>11, <1>13, <1>14, <1>15, ConnectionStepKeeps

\* shutdown may hit another connection, and does not take anything it was sent.
LEMMA ShuttingSocketKeeps ==
  ASSUME ExchangeInv, NEW r \in Request, NEW h \in Holder, ShutSocket(r, h), UNCHANGED clientVars
  PROVE  ExchangeInv'
<1>1. /\ TypeOK /\ conn[r] \in Connection /\ ConnectionInv(conn[r])
      /\ conn[r].at[h] = "shut" /\ link' = Shut("server", conn[r].socket)
      /\ UNCHANGED <<table, blocked, alive, started, callback, listening, listener, ending>>
  BY DEF ExchangeInv, TypeOK, ShutSocket, At, ServerStays
<1>2. PICK c : c = [conn[r] EXCEPT !.at[h] = "approve"]
  OBVIOUS
<1>3. conn' = [conn EXCEPT ![r] = c]
  BY <1>2 DEF ShutSocket
<1>4. c \in Connection
  BY <1>1, <1>2 DEF Connection, Holder, Stage
<1>5. c.at[h] = "approve" /\ \A g \in Holder : g # h => c.at[g] = conn[r].at[g]
  BY <1>1, <1>2 DEF Connection, Holder
<1>6. /\ c.socket = conn[r].socket /\ c.operational = conn[r].operational /\ c.got = conn[r].got
      /\ c.approvals = conn[r].approvals /\ c.freed = conn[r].freed
  BY <1>1, <1>2 DEF Connection
<1>7. ConnectionInv(c)
  <2>1. c.approvals \in 0..2
    BY <1>4 DEF Connection
  <2>2. CASE h = "worker"
    <3>1. c.at["worker"] = "approve" /\ c.at["timer"] = conn[r].at["timer"]
      BY <1>5, <2>2 DEF Holder
    <3> QED BY <1>1, <1>6, <2>1, <2>2, <3>1 DEF ConnectionInv, Count
  <2>3. CASE h = "timer"
    <3>1. c.at["worker"] = conn[r].at["worker"] /\ c.at["timer"] = "approve"
      BY <1>5, <2>3 DEF Holder
    <3> QED BY <1>1, <1>6, <2>1, <2>3, <3>1 DEF ConnectionInv, Count
  <2> QED BY <2>2, <2>3 DEF Holder
<1>8. /\ link' \in [Request -> Link]
      /\ \A d \in Request : /\ link'[d].at = link[d].at /\ link'[d].to = link[d].to
                            /\ link[d].shut \subseteq link'[d].shut
  <2>1. conn[r].socket \in Socket
    BY <1>1 DEF Connection
  <2> QED BY <1>1, <2>1, ShutIs DEF Process
<1>9. conn'[r] = c
  BY <1>1, <1>3 DEF TypeOK
<1>10. AcceptedInv(r)'
  <2>1. AcceptedInv(r) /\ link[r].at = "accepted"
    BY <1>1 DEF ExchangeInv, AcceptedInv, NoConnection, Holder
  <2>2. c.at["worker"] \in {"headWaits", "bodyWaits"} => c.at["worker"] = conn[r].at["worker"]
    BY <1>5 DEF Holder
  <2> QED BY <1>1, <1>6, <1>8, <1>9, <2>1, <2>2 DEF AcceptedInv
<1>11. raced = {} => (\A d \in Request : PayloadInv(d)') /\ RequestInv(r)'
  BY <1>6, <1>8, <1>9 DEF ExchangeInv, UnracedInv, PayloadInv, RequestInv
<1>12. /\ table' \in [Process -> [Fd -> Request \cup {Free, Console}]]
       /\ blocked' \in [Process -> [Request -> Request \cup {Free}]]
  BY <1>1 DEF TypeOK
<1> QED BY <1>1, <1>3, <1>4, <1>7, <1>8, <1>10, <1>11, <1>12, ConnectionStepKeeps

\* A holder approves, and the second one deletes the accepted socket.
LEMMA DeinitializingKeeps ==
  ASSUME ExchangeInv, NEW r \in Request, NEW h \in Holder, TryDeinitializing(r, h),
         UNCHANGED clientVars
  PROVE  ExchangeInv'
<1>1. /\ TypeOK /\ conn[r] \in Connection /\ ConnectionInv(conn[r]) /\ conn[r].at[h] = "approve"
      /\ UNCHANGED <<socketVars, alive, started, callback, listening, listener, ending>>
  BY DEF ExchangeInv, TypeOK, TryDeinitializing, At, ServerStays
<1>2. PICK k \in Int : k = conn[r].approvals + 1
  BY <1>1 DEF Connection
<1>3. PICK b \in BOOLEAN : b <=> k = 2
  OBVIOUS
<1>4. (k = 2) = b
  BY <1>3
<1>5. PICK c : c = [conn[r] EXCEPT !.lock = "none", !.approvals = k, !.freed = b, !.at[h] = "returned"]
  OBVIOUS
<1>6. conn' = [conn EXCEPT ![r] = c]
  <2>1. conn' = [conn EXCEPT ![r].lock = "none", ![r].approvals = k, ![r].freed = (k = 2),
                             ![r].at[h] = "returned"]
    BY <1>1, <1>2 DEF TryDeinitializing, TypeOK
  <2>2. conn' = [conn EXCEPT ![r].lock = "none", ![r].approvals = k, ![r].freed = b,
                             ![r].at[h] = "returned"]
    BY <1>4, <2>1
  <2> QED BY <1>5, <2>2, ZenonT(40)
<1>7. c.at[h] = "returned" /\ \A g \in Holder : g # h => c.at[g] = conn[r].at[g]
  BY <1>1, <1>5 DEF Connection, Holder
<1>8. /\ c.socket = conn[r].socket /\ c.operational = conn[r].operational /\ c.got = conn[r].got
      /\ c.approvals = k /\ c.freed = b
  BY <1>1, <1>5 DEF Connection
<1>9. /\ conn[r].approvals \in 0..2
      /\ conn[r].approvals <= Count(conn[r].at["worker"] = "returned", conn[r].at["timer"] = "returned")
  BY <1>1 DEF ConnectionInv, Connection
<1>10. /\ k \in 0..2 /\ k <= Count(c.at["worker"] = "returned", c.at["timer"] = "returned")
       /\ k = 2 => c.at["worker"] = "returned" /\ c.at["timer"] = "returned"
  <2>1. CASE h = "worker"
    <3>1. c.at["worker"] = "returned" /\ c.at["timer"] = conn[r].at["timer"]
      BY <1>7, <2>1 DEF Holder
    <3> QED BY <1>1, <1>2, <1>9, <2>1, <3>1 DEF Count
  <2>2. CASE h = "timer"
    <3>1. c.at["worker"] = conn[r].at["worker"] /\ c.at["timer"] = "returned"
      BY <1>7, <2>2 DEF Holder
    <3> QED BY <1>1, <1>2, <1>9, <2>2, <3>1 DEF Count
  <2> QED BY <2>1, <2>2 DEF Holder
<1>11. c \in Connection
  BY <1>1, <1>5, <1>10 DEF Connection, Holder, Stage
<1>12. c.at["worker"] \in {conn[r].at["worker"], "returned"}
  BY <1>7 DEF Holder
<1>13. ConnectionInv(c)
  BY <1>1, <1>3, <1>8, <1>10, <1>12 DEF ConnectionInv
<1>14. conn[r].at["worker"] # "none" \/ conn[r].at["timer"] # "none"
  BY <1>1 DEF Holder
<1>15. c.at["worker"] \in {"headWaits", "bodyWaits"} => c.at["worker"] = conn[r].at["worker"]
  BY <1>12
<1> QED BY <1>1, <1>6, <1>8, <1>11, <1>13, <1>14, <1>15, TaskStepKeeps

\* Other clients than BKHTTPClient's send their own request, or close.
LEMMA StrangersKeep ==
  ASSUME ExchangeInv, NEW r \in Request, StrangerConnects(r) \/ StrangerCloses(r)
  PROVE  ExchangeInv'
<1>1. TypeOK /\ UNCHANGED <<table, blocked, clientVars, serverVars>>
  BY DEF ExchangeInv, StrangerConnects, StrangerCloses
<1>2. UNCHANGED <<req, raced, strayed, alive, started, callback, listening, listener, ending, conn>>
  BY <1>1 DEF clientVars, serverVars
<1>3. PICK parts \in Seq({r} \X {"head", "body"}) : parts = Parts[r]
  BY PartsAreSequences
<1>4. parts \in Seq(Part)
  BY DEF Part
<1>5. /\ link' \in [Request -> Link]
      /\ \A d \in Request :
           /\ link'[d].at = link[d].at \/ (link[d].at = "none" /\ link'[d].at = "backlog")
           /\ link[d].shut \subseteq link'[d].shut
           /\ link'[d].to["client"] = link[d].to["client"]
           /\ \/ link'[d].to["server"] = link[d].to["server"]
              \/ d = r /\ link'[d].to["server"] = parts
  <2>1. link \in [Request -> Link] /\ link[r] \in Link
    BY <1>1 DEF TypeOK
  <2>2. CASE StrangerConnects(r)
    <3>1. PICK m : m = [link[r] EXCEPT !.to["server"] = parts]
      OBVIOUS
    <3>2. /\ m \in Link /\ m.shut = link[r].shut /\ m.to["client"] = link[r].to["client"]
          /\ m.to["server"] = parts
      BY <1>4, <2>1, <3>1, LinkUpdates
    <3>3. PICK n : n = [m EXCEPT !.at = "backlog"]
      OBVIOUS
    <3>4. n \in Link /\ n.at = "backlog" /\ n.shut = m.shut /\ n.to = m.to
      BY <3>2, <3>3 DEF Link
    <3>5. n = [link[r] EXCEPT !.at = "backlog", !.to["server"] = parts]
      BY <2>1, <3>1, <3>3 DEF Link
    <3>6. link' = [link EXCEPT ![r] = n] /\ link[r].at = "none"
      BY <1>3, <2>1, <2>2, <3>5 DEF StrangerConnects
    <3> QED BY <2>1, <3>2, <3>4, <3>6
  <2>3. CASE StrangerCloses(r)
    <3>1. PICK n : n = [link[r] EXCEPT !.shut = @ \cup {"client"}]
      OBVIOUS
    <3>2. n \in Link /\ n.at = link[r].at /\ n.to = link[r].to /\ link[r].shut \subseteq n.shut
      BY <2>1, <3>1, LinkUpdates DEF Process
    <3>3. link' = [link EXCEPT ![r] = n]
      BY <2>3, <3>1 DEF StrangerCloses
    <3> QED BY <2>1, <3>2, <3>3
  <2> QED BY <2>2, <2>3
<1>6. TypeOK'
  BY <1>1, <1>2, <1>5 DEF TypeOK
<1>7. \A d \in Request : ConnectionInv(conn'[d]) /\ AcceptedInv(d)'
  <2>1. \A d \in Request : link'[d].at # "accepted" => link[d].at # "accepted"
    BY <1>5
  <2> QED BY <1>1, <1>2, <2>1 DEF ExchangeInv, AcceptedInv
<1>8. ASSUME raced = {}, NEW d \in Request PROVE PayloadInv(d)' /\ RequestInv(d)'
  <2>1. PayloadInv(d) /\ RequestInv(d)
    BY <1>8 DEF ExchangeInv, UnracedInv
  <2>2. PayloadInv(d)'
    BY <1>3, <1>5, <2>1 DEF PayloadInv
  <2> QED BY <1>2, <2>1, <2>2 DEF RequestInv
<1>9. \A d \in Request : link[d].at # "none" => link'[d].at # "none"
  BY <1>5
<1> QED BY <1>1, <1>5, <1>6, <1>7, <1>8, <1>9, ServerStepKeeps


-----------------------------------------------------------------------------
(* The theorems.                                                           *)

\* A step of the client keeps the invariant.
LEMMA ClientKeeps ==
  ASSUME ExchangeInv, ClientNext(Up), UNCHANGED serverVars
  PROVE  ExchangeInv'
<1>1. PICK r \in Request \ Stranger :
        \/ NewHTTPRequest(r) \/ RequestStep(r, Up) \/ CancelRequest(r)
        \/ \E u \in User : UserStep(r, u)
  BY DEF ClientNext
<1>2. CASE NewHTTPRequest(r)
  BY <1>2, MakingKeeps
<1>3. CASE RequestStep(r, Up)
  <2>1. CASE ProcessRequest(r)
    BY <2>1, ProcessingKeeps
  <2>2. CASE Resolve(r)
    BY <2>2, ResolvingKeeps
  <2>3. CASE OpenSocket(r)
    BY <2>3, OpeningKeeps
  <2>4. CASE Connect(r, Up)
    BY <2>4, ConnectingKeeps
  <2>5. CASE Refused(r)
    BY <2>5, RefusingKeeps
  <2>6. CASE CheckBeforeSend(r) \/ CheckBeforeReceive(r)
    BY <2>6, CheckingKeeps
  <2>7. CASE SendData(r)
    BY <2>7, SendingKeeps
  <2>8. CASE CallReceive(r)
    BY <2>8, CallingKeeps
  <2>9. CASE ReceiveData(r)
    BY <2>9, ReceivingKeeps
  <2>10. CASE ReceiveNothing(r)
    BY <2>10, ReceivingNothingKeeps
  <2> QED
    BY <1>3, <2>1, <2>2, <2>3, <2>4, <2>5, <2>6, <2>7, <2>8, <2>9, <2>10 DEF RequestStep
<1>4. CASE CancelRequest(r)
  BY <1>4, CancellingKeeps
<1>5. CASE \E u \in User : UserStep(r, u)
  <2>1. PICK u \in User : UserStep(r, u)
    BY <1>5
  <2>2. CASE TestClosed(r, u)
    BY <2>2, TestingKeeps
  <2>3. CASE ShutSocketOf(r, u)
    BY <2>3, ShuttingKeeps
  <2>4. CASE CloseSocket(r, u)
    BY <2>4, ClosingKeeps
  <2>5. CASE DestroyApproval(r, u)
    BY <2>5, ApprovingKeeps
  <2> QED BY <2>1, <2>2, <2>3, <2>4, <2>5 DEF UserStep
<1> QED BY <1>1, <1>2, <1>3, <1>4, <1>5

\* A step of the server keeps the invariant.
LEMMA ServerKeeps ==
  ASSUME ExchangeInv, ServerNext, UNCHANGED clientVars
  PROVE  ExchangeInv'
<1>1. CASE StartSystem \/ Listen \/ AcceptFails \/ DeleteServer
  BY <1>1, ServersOwnKeeps
<1>2. CASE EndSystem
  BY <1>2, EndingKeeps
<1>3. ASSUME NEW r \in Request, Accept(r) PROVE ExchangeInv'
  BY <1>3, AcceptingKeeps
<1>4. ASSUME NEW r \in Request, TaskStep(r) PROVE ExchangeInv'
  <2>1. CASE BeginTask(r)
    BY <2>1, BeginningKeeps
  <2>2. CASE Initialize(r)
    BY <2>2, InitializingKeeps
  <2>3. CASE CallRecv(r)
    BY <2>3, CallingRecvKeeps
  <2>4. CASE Received(r)
    BY <2>4, ReceivedKeeps
  <2>5. CASE ReceivedNothing(r)
    BY <2>5, ReceivedNothingKeeps
  <2>6. CASE CallCallback(r)
    BY <2>6, CallingBackKeeps
  <2>7. CASE Send(r)
    BY <2>7, AnsweringKeeps
  <2> QED BY <1>4, <2>1, <2>2, <2>3, <2>4, <2>5, <2>6, <2>7 DEF TaskStep
<1>5. ASSUME NEW r \in Request, NEW h \in Holder, StopStep(r, h) PROVE ExchangeInv'
  <2>1. CASE StopSocketOperation(r, h)
    BY <2>1, StoppingKeeps
  <2>2. CASE ShutSocket(r, h)
    BY <2>2, ShuttingSocketKeeps
  <2>3. CASE TryDeinitializing(r, h)
    BY <2>3, DeinitializingKeeps
  <2> QED BY <1>5, <2>1, <2>2, <2>3 DEF StopStep
<1> QED BY <1>1, <1>2, <1>3, <1>4, <1>5 DEF ServerNext

\* Every reachable state of the two programs satisfies the inductive invariant.
THEOREM ExchangeInvariance == Spec => []ExchangeInv
<1>1. ExchangeInv /\ [Next]_vars => ExchangeInv'
  <2> SUFFICES ASSUME ExchangeInv, [Next]_vars PROVE ExchangeInv'
    OBVIOUS
  <2>1. CASE ClientNext(Up) /\ UNCHANGED serverVars
    BY <2>1, ClientKeeps
  <2>2. CASE ServerNext /\ UNCHANGED clientVars
    BY <2>2, ServerKeeps
  <2>3. CASE \E r \in Stranger : StrangerConnects(r) \/ StrangerCloses(r)
    BY <2>3, StrangersMakeRequests, StrangersKeep
  <2>4. CASE UNCHANGED vars
    <3>1. UNCHANGED <<clientVars, serverVars, socketVars>>
      BY <2>4 DEF vars
    <3>2. UNCHANGED <<conn, alive>>
      BY <3>1 DEF serverVars
    <3>3. TypeOK'
      BY <3>1 DEF ExchangeInv, TypeOK, clientVars, serverVars, socketVars
    <3> QED BY <3>1, <3>2, <3>3, OwnStepKeeps
  <2> QED BY <2>1, <2>2, <2>3, <2>4 DEF Next
<1> QED BY ExchangeInit, <1>1, PTL DEF Spec

\* Every variable keeps its type.
THEOREM ExchangeTypes == Spec => []TypeOK
<1>1. ExchangeInv => TypeOK
  BY DEF ExchangeInv
<1> QED BY <1>1, ExchangeInvariance, PTL

\* However the descriptors of the server are closed and handed out again, an answer that
\* ProcessRequest reports was made of the request's own bytes, unless the request was
\* cancelled at a bad moment.
THEOREM OwnAnswer == Spec => []OwnAnswerOnly
<1>1. ExchangeInv => OwnAnswerOnly
  <2> SUFFICES ASSUME ExchangeInv, raced = {}, NEW r \in Request
               PROVE  /\ req[r].ok => req[r].got = {[by |-> r, asked |-> {r}]}
                      /\ ToSet(link[r].to["client"]) \subseteq {[by |-> r, asked |-> {r}]}
    BY DEF OwnAnswerOnly
  <2>1. PayloadInv(r) /\ AnswerInv(r)
    BY DEF ExchangeInv, UnracedInv
  <2>2. req[r].ok => req[r].got = {AnswerTo(r)}
    BY <2>1 DEF AnswerInv
  <2>3. PICK s \in Seq({AnswerTo(r)}) : s = link[r].to["client"]
    BY <2>1 DEF PayloadInv
  <2>4. ToSet(s) \subseteq {AnswerTo(r)}
    BY DEF ToSet
  <2> QED BY <2>2, <2>3, <2>4 DEF AnswerTo
<1> QED BY <1>1, ExchangeInvariance, PTL

\* A request that uses a descriptor that is not its own was cancelled at a bad moment.
THEOREM NoStrayUnlessRaced == Spec => []StraysOnlyWhenRaced
<1>1. ExchangeInv => StraysOnlyWhenRaced
  BY DEF ExchangeInv, StraysOnlyWhenRaced
<1> QED BY <1>1, ExchangeInvariance, PTL

\* Neither the accepted socket nor the request's object is freed while somebody is still to
\* use it.
THEOREM FreedIsUnused == Spec => []NothingFreedIsUsed
<1>1. ExchangeInv => NothingFreedIsUsed
  BY DEF ExchangeInv, NothingFreedIsUsed, ObjectInv, ConnectionInv, At, Does, User, Holder
<1> QED BY <1>1, ExchangeInvariance, PTL

\* CancelRequest wakes the task that waits for the answer.
THEOREM CancelledWakes == Spec => []CancelledIsWoken
<1>1. ExchangeInv => CancelledIsWoken
  <2> SUFFICES ASSUME ExchangeInv, raced = {}, NEW r \in Request, Does(r, "task", "waits"),
                      req[r].at["timeout"] \in {"closing", "approve", "returned"},
                      ~req[r].initialized
               PROVE  Arrived("client", r) # <<>> \/ Ended("client", r)
    BY DEF CancelledIsWoken
  <2>1. blocked["client"][r] = r /\ "client" \in link[r].shut
    BY DEF ExchangeInv, UnracedInv, WaitInv, Cancelled, Does
  <2> QED BY <2>1 DEF Ended
<1> QED BY <1>1, ExchangeInvariance, PTL
=============================================================================
