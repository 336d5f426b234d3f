------------------------------ MODULE HTTPServer ------------------------------
(***************************************************************************)
(* BKHTTPServer: a thread accepts connections and makes a pool task of     *)
(* each; the task reads the request, calls HTTPListenCallback and sends    *)
(* the answer.  The ticker closes the connection after the timeout,        *)
(* whatever the task is doing.  The two share a BKHTTPAcceptedSocket: each *)
(* approves its deletion, and the second of them deletes it.               *)
(***************************************************************************)
EXTENDS HTTPSockets

CONSTANTS
  Endless,  \* requests whose headers never end (no empty line)
  Posts,    \* requests with a body
  Corrupt   \* requests whose Content-Length is not a positive number

ASSUME KindsAreOfRequests == Endless \cup Posts \cup Corrupt \subseteq Request

VARIABLES
  alive,      \* the server's process has not been terminated
  started,    \* bSystemStarted
  callback,   \* whether HTTPListenCallback is set
  listening,  \* HTTPSocket: "none", "open", "closed"
  listener,   \* the thread HTTPSystemThread
  ending,     \* where the thread in EndSystem, which then deletes the server, is
  conn        \* conn[r]: what belongs to the accepted connection of request r

serverVars == <<alive, started, callback, listening, listener, ending, conn>>

Holder == {"worker", "timer"}

\* The members of the accepted socket and client, and where the task and the timeout are.
NoConnection ==
  [at |-> [h \in Holder |-> "none"], socket |-> -1, operational |-> FALSE, approvals |-> 0,
   lock |-> "none", freed |-> FALSE, initialized |-> FALSE, got |-> {}]

ServerInit ==
  /\ alive = TRUE
  /\ started = FALSE
  /\ callback = TRUE
  /\ listening = "none"
  /\ listener = "none"
  /\ ending = "no"
  /\ conn = [r \in Request |-> NoConnection]

-----------------------------------------------------------------------------
(* StartSystem, ListenSocket and EndSystem.                                *)

\* socket or bind may fail.  (A socket that could not be bound is as good as none.)
InitializeSocket == listening' \in {"open", listening}

\* When the socket fails the flag stays set.
StartSystem ==
  /\ alive /\ listening = "none" /\ ~started /\ ending = "no"
  /\ started' = TRUE
  /\ InitializeSocket
  /\ listener' = IF listening' = "open" THEN "created" ELSE listener
  /\ UNCHANGED <<socketVars, alive, callback, ending, conn>>

\* The head of the loop.  The thread that finds the flag reset ends.
Listen ==
  /\ alive /\ listener \in {"new", "created"}
  /\ listener' = IF started THEN "accepting" ELSE "exited"
  /\ UNCHANGED <<socketVars, alive, started, callback, listening, ending, conn>>

\* Its constructor schedules the timeout.
AcceptedSocket(fd) ==
  [NoConnection EXCEPT !.at["worker"] = "queued", !.at["timer"] = "scheduled",
                       !.socket = fd, !.operational = TRUE]

\* accept: the task is made without another look at the flag.
Accept(r) ==
  /\ alive /\ listener = "accepting" /\ listening = "open"
  /\ link[r].at = "backlog" /\ FreeFds("server") # {}
  /\ link' = [link EXCEPT ![r].at = "accepted"]
  /\ table' = Opened("server", r)
  /\ conn' = [conn EXCEPT ![r] = AcceptedSocket(Min(FreeFds("server")))]
  /\ listener' = "created"
  /\ UNCHANGED <<blocked, alive, started, callback, listening, ending>>

AcceptFails ==
  /\ alive /\ listener = "accepting" /\ listening = "closed"
  /\ listener' = IF started THEN "created" ELSE "exited"
  /\ UNCHANGED <<socketVars, alive, started, callback, listening, ending, conn>>

\* What waits to be accepted is reset when the listening socket is closed.
EndSystem ==
  /\ alive /\ started /\ ending = "no"
  /\ started' = FALSE
  /\ callback' = FALSE
  /\ listening' = IF listening = "open" THEN "closed" ELSE listening
  /\ link' = [r \in Request |-> IF link[r].at = "backlog" THEN [link[r] EXCEPT !.at = "reset"]
                                ELSE link[r]]
  /\ ending' = "join"
  /\ UNCHANGED <<table, blocked, alive, listener, conn>>

\* The thread is joined and the server deleted, with its tasks where they are.  A thread that
\* has not begun is not joinable yet: it is left behind with a deleted BKThread.
DeleteServer ==
  /\ alive /\ ending = "join" /\ listener \in {"none", "new", "exited"}
  /\ ending' = "deleted"
  /\ listener' = IF listener = "new" THEN "undefined" ELSE listener
  /\ UNCHANGED <<socketVars, alive, started, callback, listening, conn>>

-----------------------------------------------------------------------------
(* The task of an accepted connection.                                     *)

At(r, h, a) == conn[r].at[h] = a
GoesTo(r, a) == conn' = [conn EXCEPT ![r].at["worker"] = a]
ServerStays == UNCHANGED <<started, callback, listening, listener, ending>>

\* A task that finds the server stopped returns, and never approves.  One that begins after
\* the server was deleted reads freed memory: what it does is not followed.
BeginTask(r) ==
  /\ alive /\ At(r, "worker", "queued")
  /\ GoesTo(r, IF ending = "deleted" THEN "undefined"
               ELSE IF started /\ callback THEN "initialize" ELSE "returned")
  /\ UNCHANGED <<socketVars, alive>> /\ ServerStays

\* getpeername fails on a closed descriptor or a broken connection: the task returns with
\* bInitialized set, and never approves.
Initialize(r) ==
  /\ alive /\ At(r, "worker", "initialize")
  /\ LET d == Refers("server", conn[r].socket) IN
     \/ d \in Request /\ conn' = [conn EXCEPT ![r].initialized = TRUE, ![r].at["worker"] = "head"]
     \/ /\ d \in Request => Gone("client", d)
        /\ conn' = [conn EXCEPT ![r].initialized = TRUE, ![r].at["worker"] = "returned"]
  /\ UNCHANGED <<socketVars, alive>> /\ ServerStays

\* recv on the descriptor's number, without the socket's mutex: it may have been closed, and
\* even belong to another connection by now.
CallRecv(r) ==
  /\ alive /\ conn[r].at["worker"] \in {"head", "body"}
  /\ IF CanRecv("server", conn[r].socket)
     THEN /\ blocked' = Entered("server", r, conn[r].socket)
          /\ GoesTo(r, IF At(r, "worker", "head") THEN "headWaits" ELSE "bodyWaits")
     ELSE GoesTo(r, "cancel") /\ UNCHANGED blocked
  /\ UNCHANGED <<table, link, alive>> /\ ServerStays

HeadersReady(got) == \E q \in Request \ Endless : <<q, "head">> \in got
IsPost(got) == \E q \in Posts \ Endless : <<q, "head">> \in got
BodyReady(got) == \E q \in Posts \ Corrupt : <<q, "body">> \in got
BodyFailed(got) == \E q \in Corrupt : <<q, "body">> \in got

\* GetData, first loop: an error of the body that came with the headers is not looked at.
AfterHead(got) ==
  IF ~HeadersReady(got) THEN "head"
  ELSE IF IsPost(got) /\ ~BodyReady(got) THEN "body" ELSE "callback"

\* GetData, second loop: Corrupted_Internal answers 400 and cancels.
AfterBody(got) ==
  IF BodyFailed(got) THEN "send" ELSE IF BodyReady(got) THEN "callback" ELSE "body"

Received(r) ==
  /\ alive /\ conn[r].at["worker"] \in {"headWaits", "bodyWaits"}
  /\ \E n \in 1..Len(Arrived("server", r)) :
       LET got == conn[r].got \cup ToSet(SubSeq(Arrived("server", r), 1, n)) IN
       /\ link' = Taken("server", r, n)
       /\ conn' = [conn EXCEPT ![r].got = got, ![r].at["worker"] =
                    IF At(r, "worker", "headWaits") THEN AfterHead(got) ELSE AfterBody(got)]
  /\ blocked' = Left("server", r)
  /\ UNCHANGED <<table, alive>> /\ ServerStays

\* The second loop goes round and round when recv returns 0.
ReceivedNothing(r) ==
  /\ alive /\ conn[r].at["worker"] \in {"headWaits", "bodyWaits"}
  /\ Ended("server", r)
  /\ \/ GoesTo(r, "cancel")
     \/ At(r, "worker", "bodyWaits") /\ GoesTo(r, "body")
  /\ blocked' = Left("server", r)
  /\ UNCHANGED <<table, link, alive>> /\ ServerStays

\* HTTPListenCallback was reset since the task began: std::bad_function_call, which nobody
\* catches, terminates the process; its descriptors are closed.
CallCallback(r) ==
  /\ alive /\ At(r, "worker", "callback")
  /\ IF ending = "deleted" THEN GoesTo(r, "undefined") /\ UNCHANGED <<socketVars, alive>>
     ELSE IF callback THEN GoesTo(r, "send") /\ UNCHANGED <<socketVars, alive>>
     ELSE /\ alive' = FALSE
          /\ table' = [table EXCEPT !["server"] = [f \in Fd |-> Free]]
          /\ blocked' = [blocked EXCEPT !["server"] = [q \in Request |-> Free]]
          /\ UNCHANGED <<link, conn>>
  /\ ServerStays

\* Fault: the flag is not asked.
SendUnasked(r) ==
  /\ alive /\ At(r, "worker", "send") /\ conn[r].lock = "none"
  /\ link' = Sent("server", conn[r].socket,
                  <<[by |-> r, asked |-> {i[1] : i \in conn[r].got}]>>)
  /\ GoesTo(r, "cancel")
  /\ UNCHANGED <<table, blocked, alive>> /\ ServerStays

\* SendData sends under the socket's mutex, if the socket is operational; Finalize follows.
Send(r) ==
  /\ alive /\ At(r, "worker", "send") /\ conn[r].lock = "none"
  /\ link' = IF conn[r].operational
             THEN Sent("server", conn[r].socket,
                       <<[by |-> r, asked |-> {i[1] : i \in conn[r].got}]>>)
             ELSE link
  /\ GoesTo(r, "cancel")
  /\ UNCHANGED <<table, blocked, alive>> /\ ServerStays

-----------------------------------------------------------------------------
(* StopSocketOperation, by the task's Cancel or by the ticker.             *)

\* The ticker calls one timeout after the other; the task cancels once, as
\* GetAndDeinitialize makes sure.
MayStop(r, h) ==
  /\ conn[r].lock = "none"
  /\ IF h = "worker" THEN At(r, h, "cancel") /\ conn[r].initialized
     ELSE At(r, h, "scheduled") /\ \A q \in Request : conn[q].lock # "timer"

\* CloseSocket, first half: close.
StopSocketOperation(r, h) ==
  /\ alive /\ MayStop(r, h)
  /\ conn' = [conn EXCEPT ![r].lock = h, ![r].operational = FALSE,
                          ![r].initialized = IF h = "worker" THEN FALSE ELSE @,
                          ![r].at[h] = IF conn[r].operational THEN "shut" ELSE "approve"]
  /\ table' = IF conn[r].operational THEN Closed("server", conn[r].socket) ELSE table
  /\ UNCHANGED <<link, blocked, alive>> /\ ServerStays

\* CloseSocket, second half: shutdown, of a number that may name another connection now.
ShutSocket(r, h) ==
  /\ alive /\ At(r, h, "shut")
  /\ conn' = [conn EXCEPT ![r].at[h] = "approve"]
  /\ link' = Shut("server", conn[r].socket)
  /\ UNCHANGED <<table, blocked, alive>> /\ ServerStays

\* Fault: the first approval deletes.
TryDeinitializingAtOnce(r, h) ==
  /\ alive /\ At(r, h, "approve")
  /\ conn' = [conn EXCEPT ![r].lock = "none", ![r].approvals = @ + 1,
                          ![r].freed = TRUE, ![r].at[h] = "returned"]
  /\ UNCHANGED <<socketVars, alive>> /\ ServerStays

TryDeinitializing(r, h) ==
  /\ alive /\ At(r, h, "approve")
  /\ conn' = [conn EXCEPT ![r].lock = "none", ![r].approvals = @ + 1,
                          ![r].freed = conn[r].approvals + 1 = 2, ![r].at[h] = "returned"]
  /\ UNCHANGED <<socketVars, alive>> /\ ServerStays

-----------------------------------------------------------------------------
TaskStep(r) ==
  \/ BeginTask(r) \/ Initialize(r) \/ CallRecv(r) \/ Received(r) \/ ReceivedNothing(r)
  \/ CallCallback(r) \/ Send(r)

StopStep(r, h) == StopSocketOperation(r, h) \/ ShutSocket(r, h) \/ TryDeinitializing(r, h)

ServerNext ==
  \/ StartSystem \/ Listen \/ AcceptFails \/ EndSystem \/ DeleteServer
  \/ \E r \in Request : Accept(r) \/ TaskStep(r) \/ \E h \in Holder : StopStep(r, h)
=============================================================================
