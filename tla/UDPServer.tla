------------------------------ MODULE UDPServer ------------------------------
(***************************************************************************)
(* BKUDPServer around its handler: a thread receives datagrams and makes a *)
(* pool task of each; the task calls UDPListenCallback, which looks up,    *)
(* makes and closes records (RecordPool); another thread starts the server *)
(* and ends it, and may start it again.  Where the code uses the handler   *)
(* after it deleted it, handler becomes "undefined" or the ticker's thread *)
(* does, and nothing is said of what follows.                              *)
(***************************************************************************)
EXTENDS RecordPool

VARIABLES
  started,    \* bSystemStarted of the server
  starting,   \* where the thread in StartSystem is
  handler,    \* UDPHandler: "null", "new" (not started), "up", "deleted" (the pointer stays),
              \* "undefined" (used, or deleted again, after it was deleted)
  listener,   \* the thread UDPSystemThread
  socket,     \* UDPSocket: "none", "open", "closed"
  callback,   \* whether UDPListenCallback is set
  parameter,  \* parameter[p]: the WUDPTaskParameter of task p
  stopping    \* where the thread in EndSystem is

serverVars == <<started, starting, handler, listener, socket, callback, parameter, stopping>>
allVars == <<vars, serverVars>>

ServerInit ==
  /\ Init
  /\ started = FALSE
  /\ starting = "no"
  /\ handler = "null"
  /\ listener = "none"
  /\ socket = "none"
  /\ callback = TRUE
  /\ parameter = [p \in Task |-> "none"]
  /\ stopping = "no"

-----------------------------------------------------------------------------
(* StartSystem.                                                            *)

\* socket or bind may fail.  (A socket that could not be bound is as good as none.)
InitializeSocket == socket' \in {"open", socket}

\* When the socket fails the flag stays set, so that a second StartSystem returns true, and
\* EndSystem goes its way.  A server that was ended may be started again, without its
\* callback.
StartSystem ==
  /\ ~started
  /\ starting = "no" \/ stopping = "done"
  /\ started' = TRUE
  /\ InitializeSocket
  /\ starting' = IF socket' = "open" THEN "thread" ELSE "failed"
  /\ listener' = IF socket' = "open" THEN "created" ELSE listener
  /\ stopping' = "no"
  /\ UNCHANGED <<vars, handler, callback, parameter>>

\* The handler is made when the thread is already there, and then started.  EndSystem left
\* the pointer to the handler it deleted, which a second start deletes again.
MakeHandler ==
  /\ starting = "thread"
  /\ starting' = "handler"
  /\ handler' = IF handler = "deleted" THEN "undefined" ELSE "new"
  /\ UNCHANGED <<vars, started, listener, socket, callback, parameter, stopping>>

StartHandler ==
  /\ starting = "handler"
  /\ handler = "new"
  /\ starting' = "done"
  /\ handler' = "up"
  /\ UNCHANGED <<vars, started, listener, socket, callback, parameter, stopping>>

-----------------------------------------------------------------------------
(* ListenSocket.                                                           *)

\* The thread begins its loop, or leaves it: it looks at the flag before and after recvfrom,
\* which returns without a datagram only when the socket is closed or fails.
Listen ==
  /\ \/ listener = "created" /\ listener' = IF started THEN "listening" ELSE "exited"
     \/ listener = "listening" /\ socket = "closed" /\ ~started /\ listener' = "exited"
  /\ UNCHANGED <<vars, started, starting, handler, socket, callback, parameter, stopping>>

\* A datagram becomes a task with bDoNotDeallocateParameters.  (An empty one changes
\* nothing here: the loop goes on, without deleting its two buffers.)
Receive(p) ==
  /\ listener = "listening"
  /\ socket = "open"
  /\ IF started
     THEN /\ parameter[p] = "none" /\ task[p] = Idle
          /\ parameter' = [parameter EXCEPT ![p] = "queued"]
          /\ UNCHANGED listener
     ELSE listener' = "exited" /\ UNCHANGED parameter
  /\ UNCHANGED <<vars, started, starting, handler, socket, callback, stopping>>

\* The task: the server is looked at once, then the callback runs to its end.
BeginTask(p) ==
  /\ parameter[p] = "queued"
  /\ IF started /\ callback
     THEN parameter' = [parameter EXCEPT ![p] = "running"]
     ELSE parameter' = [parameter EXCEPT ![p] = "none"]
  /\ UNCHANGED <<vars, started, starting, handler, listener, socket, callback, stopping>>

\* What the callback does with a started handler.
RunTask(p) ==
  /\ parameter[p] = "running"
  /\ handler = "up"
  /\ TaskStep(p)
  /\ UNCHANGED serverVars

\* The callback returns and the parameter is deleted.
FinishTask(p) ==
  /\ parameter[p] = "running"
  /\ task[p] = Idle
  /\ parameter' = [parameter EXCEPT ![p] = "none"]
  /\ UNCHANGED <<vars, started, starting, handler, listener, socket, callback, stopping>>

-----------------------------------------------------------------------------
(* EndSystem.                                                              *)

StopSystem ==
  /\ stopping = "no"
  /\ started
  /\ starting \in {"failed", "done"}
  /\ started' = FALSE
  /\ stopping' = "handler"
  /\ UNCHANGED <<vars, starting, handler, listener, socket, callback, parameter>>

\* UDPHandler->EndSystem, step by step.
EndHandler ==
  /\ stopping = "handler"
  /\ handler = "up"
  /\ \/ EndSystem
     \/ ClearUDPRecordsForTimeoutCheck
     \/ ClearReliableConnections
     \/ ClearOtherPartiesRecords
     \/ ClearPendingDeletePool
  /\ UNCHANGED serverVars

\* A server that was started again and has no socket ends the handler it deleted before.
EndDeletedHandler ==
  /\ stopping = "handler"
  /\ handler = "deleted"
  /\ handler' = "undefined"
  /\ UNCHANGED <<vars, started, starting, listener, socket, callback, parameter, stopping>>

\* The handler is deleted, the socket closed, the callback reset.
CloseSocket ==
  /\ stopping = "handler"
  /\ handler = "null" \/ (handler = "up" /\ ending = "ended")
  /\ stopping' = "join"
  /\ handler' = IF handler = "null" THEN "null" ELSE "deleted"
  /\ socket' = "closed"
  /\ callback' = FALSE
  /\ UNCHANGED <<vars, started, starting, listener, parameter>>

\* IsJoinable, Join: a thread that has not begun is not waited for.
JoinListener ==
  /\ stopping = "join"
  /\ listener # "listening"
  /\ stopping' = "done"
  /\ UNCHANGED <<vars, started, starting, handler, listener, socket, callback, parameter>>

-----------------------------------------------------------------------------
\* The scheduled lambdas keep the handler's address: the next one looks at bSystemStarted
\* of a handler that was deleted, and so does a task that is still in the callback.
UseDeletedHandler ==
  /\ handler = "deleted"
  /\ handler' = "undefined"
  /\ UNCHANGED <<vars, started, starting, listener, socket, callback, parameter, stopping>>

ServerNext ==
  \/ StartSystem
  \/ MakeHandler
  \/ StartHandler
  \/ Listen
  \/ \E p \in Task : Receive(p) \/ BeginTask(p) \/ RunTask(p) \/ FinishTask(p)
  \/ handler = "up" /\ TickerStep /\ UNCHANGED serverVars
  \/ handler = "up" /\ MarkPendingKill /\ UNCHANGED serverVars
  \/ handler = "up" /\ SetReadyToDieCallback /\ UNCHANGED serverVars
  \/ handler = "up" /\ TestIfReady /\ UNCHANGED serverVars
  \/ StopSystem
  \/ EndHandler
  \/ EndDeletedHandler
  \/ CloseSocket
  \/ JoinListener
  \/ UseDeletedHandler

ServerSpec == ServerInit /\ [][ServerNext]_allVars
=============================================================================
