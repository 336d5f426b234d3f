------------------------------ MODULE HTTPClient ------------------------------
(***************************************************************************)
(* BKHTTPClient as the program uses it: NewHTTPRequest gives one object to *)
(* a pool task, which calls ProcessRequest, and to the ticker, which calls *)
(* CancelRequest after the timeout.  Each then calls DestroyApproval, and  *)
(* whoever is told TRUE deletes the object.                                *)
(***************************************************************************)
EXTENDS HTTPSockets

CONSTANTS
  Parts,     \* Parts[r]: what SendData sends for r
  Addresses  \* how many addresses getaddrinfo finds

ASSUME PartsAreSequences == \A r \in Request : Parts[r] \in Seq({r} \X {"head", "body"})
ASSUME AddressesIsPositive == Addresses \in Nat \ {0}

VARIABLES
  req,      \* req[r]: the object, and where its task and its timeout are
  raced,    \* history: requests cancelled while they were not waiting for the answer
  strayed   \* history: requests that used a descriptor that is not, or no longer, theirs

clientVars == <<req, raced, strayed>>

User == {"task", "timeout"}

\* `new BKHTTPClient()' zeroes the object: HTTPSocket is 0 until InitializeSocket.
NewObject ==
  [at |-> [u \in User |-> "none"], initialized |-> FALSE, socket |-> 0, closed |-> FALSE,
   approvals |-> 0, freed |-> FALSE, tried |-> 0, got |-> {}, ok |-> FALSE]

ClientInit ==
  /\ req = [r \in Request |-> NewObject]
  /\ raced = {}
  /\ strayed = {}

Does(r, u, a) == req[r].at[u] = a
TaskGoes(r, a) == req' = [req EXCEPT ![r].at["task"] = a]
Stray(r) == strayed' = IF req[r].socket = -1 \/ Refers("client", req[r].socket) = r
                         THEN strayed ELSE strayed \cup {r}

\* Where a cancellation finds the socket in one piece: waiting, or done with.
Undisturbed(r) == req[r].at["task"] \in {"waits", "approve", "returned"}

\* The task and the timeout are made, in this order.
NewHTTPRequest(r) ==
  /\ Does(r, "task", "none")
  /\ req' = [req EXCEPT ![r].at["task"] = "queued", ![r].at["timeout"] = "scheduled"]
  /\ UNCHANGED <<socketVars, raced, strayed>>

-----------------------------------------------------------------------------
(* The task.                                                               *)

\* ProcessRequest takes RequestMutex for its flag alone.
ProcessRequest(r) ==
  /\ Does(r, "task", "queued")
  /\ req' = [req EXCEPT ![r].initialized = TRUE, ![r].at["task"] = "resolve"]
  /\ UNCHANGED <<socketVars, raced, strayed>>

\* InitializeSocket: the name may not be known.
Resolve(r) ==
  /\ Does(r, "task", "resolve")
  /\ \E a \in {"socket", "approve"} :
       req' = [req EXCEPT ![r].socket = -1, ![r].at["task"] = a]
  /\ UNCHANGED <<socketVars, raced, strayed>>

OpenSocket(r) ==
  /\ Does(r, "task", "socket")
  /\ IF FreeFds("client") = {} THEN TaskGoes(r, "approve") /\ UNCHANGED table
     ELSE /\ table' = Opened("client", r)
          /\ req' = [req EXCEPT ![r].socket = Min(FreeFds("client")), ![r].at["task"] = "connect"]
  /\ UNCHANGED <<link, blocked, raced, strayed>>

\* connect works only on the number HTTPSocket holds, whatever it refers to by now.
Connect(r, up) ==
  /\ Does(r, "task", "connect")
  /\ LET d == Refers("client", req[r].socket) IN
     \/ /\ up /\ d \in Request /\ link[d].at = "none"
        /\ link' = [link EXCEPT ![d].at = "backlog"]
        /\ TaskGoes(r, "check")
     \/ /\ ~(up /\ d \in Request /\ link[d].at = "none")
        /\ TaskGoes(r, "refused") /\ UNCHANGED link
  /\ Stray(r)
  /\ UNCHANGED <<table, blocked, raced>>

\* The next address is tried, with a new socket.
Refused(r) ==
  /\ Does(r, "task", "refused")
  /\ table' = Closed("client", req[r].socket)
  /\ Stray(r)
  /\ req' = [req EXCEPT ![r].socket = -1, ![r].tried = @ + 1,
                        ![r].at["task"] = IF req[r].tried + 1 < Addresses THEN "socket" ELSE "approve"]
  /\ UNCHANGED <<link, blocked, raced>>

\* SendData and ReceiveData look at bRequestInitialized first, without the mutex.
CheckBeforeSend(r) ==
  /\ Does(r, "task", "check")
  /\ TaskGoes(r, IF req[r].initialized THEN "send" ELSE "checkAgain")
  /\ UNCHANGED <<socketVars, raced, strayed>>

SendData(r) ==
  /\ Does(r, "task", "send")
  /\ link' = Sent("client", req[r].socket, Parts[r])
  /\ Stray(r)
  /\ TaskGoes(r, "checkAgain")
  /\ UNCHANGED <<table, blocked, raced>>

CheckBeforeReceive(r) ==
  /\ Does(r, "task", "checkAgain")
  /\ TaskGoes(r, IF req[r].initialized THEN "receive" ELSE "close")
  /\ UNCHANGED <<socketVars, raced, strayed>>

CallReceive(r) ==
  /\ Does(r, "task", "receive")
  /\ IF CanRecv("client", req[r].socket)
     THEN blocked' = Entered("client", r, req[r].socket) /\ TaskGoes(r, "waits")
     ELSE TaskGoes(r, "close") /\ UNCHANGED blocked
  /\ Stray(r)
  /\ UNCHANGED <<table, link, raced>>

\* An answer came: it counts only if the flag is still set.  (Answers come whole here; what
\* the parser does with parts of one is RequestParser's matter.)
ReceiveData(r) ==
  /\ Does(r, "task", "waits") /\ Arrived("client", r) # <<>>
  /\ req' = [req EXCEPT ![r].got = @ \cup {Head(Arrived("client", r))},
                        ![r].ok = req[r].initialized, ![r].at["task"] = "close"]
  /\ link' = Taken("client", r, 1)
  /\ blocked' = Left("client", r)
  /\ raced' = IF req[r].at["timeout"] \in {"test", "shut"} THEN raced \cup {r} ELSE raced
  /\ UNCHANGED <<table, strayed>>

ReceiveNothing(r) ==
  /\ Does(r, "task", "waits") /\ Ended("client", r)
  /\ TaskGoes(r, "close")
  /\ blocked' = Left("client", r)
  /\ raced' = IF req[r].at["timeout"] \in {"test", "shut"} THEN raced \cup {r} ELSE raced
  /\ UNCHANGED <<table, link, strayed>>

-----------------------------------------------------------------------------
(* The timeout, called by the ticker: one at a time.                       *)

\* Before ProcessRequest, CancelRequest does nothing: the request then runs without a limit.
CancelRequest(r) ==
  /\ Does(r, "timeout", "scheduled")
  /\ \A q \in Request : req[q].at["timeout"] \notin {"test", "shut", "closing", "approve"}
  /\ req' = [req EXCEPT ![r].initialized = FALSE,
                        ![r].at["timeout"] = IF req[r].initialized THEN "test" ELSE "approve"]
  /\ raced' = IF req[r].initialized /\ ~Undisturbed(r) THEN raced \cup {r} ELSE raced
  /\ UNCHANGED <<socketVars, strayed>>

-----------------------------------------------------------------------------
(* CloseSocket and DestroyApproval, by either user.                        *)

Closing(r, u) == IF u = "task" THEN Does(r, u, "close") ELSE Does(r, u, "test")

\* bSocketClosed is read without a mutex ...
TestClosed(r, u) ==
  /\ Closing(r, u)
  /\ req' = [req EXCEPT ![r].at[u] = IF req[r].closed THEN "approve" ELSE "shut"]
  /\ UNCHANGED <<socketVars, raced, strayed>>

\* Faults: the flag is not set; the socket is only closed.
ShutSocketUnmarked(r, u) ==
  /\ Does(r, u, "shut")
  /\ req' = [req EXCEPT ![r].at[u] = "closing"]
  /\ link' = Shut("client", req[r].socket)
  /\ Stray(r)
  /\ UNCHANGED <<table, blocked, raced>>

ShutSocketNot(r, u) ==
  /\ Does(r, u, "shut")
  /\ req' = [req EXCEPT ![r].closed = TRUE, ![r].at[u] = "closing"]
  /\ Stray(r)
  /\ UNCHANGED <<table, link, blocked, raced>>

\* ... and set when the other user may have read it too.
ShutSocketOf(r, u) ==
  /\ Does(r, u, "shut")
  /\ req' = [req EXCEPT ![r].closed = TRUE, ![r].at[u] = "closing"]
  /\ link' = Shut("client", req[r].socket)
  /\ Stray(r)
  /\ UNCHANGED <<table, blocked, raced>>

CloseSocket(r, u) ==
  /\ Does(r, u, "closing")
  /\ req' = [req EXCEPT ![r].at[u] = "approve"]
  /\ table' = Closed("client", req[r].socket)
  /\ Stray(r)
  /\ UNCHANGED <<link, blocked, raced>>

DestroyApproval(r, u) ==
  /\ Does(r, u, "approve")
  /\ req' = [req EXCEPT ![r].approvals = @ + 1, ![r].freed = req[r].approvals + 1 >= 2,
                        ![r].at[u] = "returned"]
  /\ UNCHANGED <<socketVars, raced, strayed>>

-----------------------------------------------------------------------------
RequestStep(r, up) ==
  \/ ProcessRequest(r) \/ Resolve(r) \/ OpenSocket(r) \/ Connect(r, up) \/ Refused(r)
  \/ CheckBeforeSend(r) \/ SendData(r) \/ CheckBeforeReceive(r) \/ CallReceive(r)
  \/ ReceiveData(r) \/ ReceiveNothing(r)

UserStep(r, u) ==
  TestClosed(r, u) \/ ShutSocketOf(r, u) \/ CloseSocket(r, u) \/ DestroyApproval(r, u)

\* `up': the server's listening socket takes connections.
ClientNext(up) ==
  \E r \in Request \ Stranger :
    \/ NewHTTPRequest(r) \/ RequestStep(r, up) \/ CancelRequest(r)
    \/ \E u \in User : UserStep(r, u)
=============================================================================
