------------------------------ MODULE UDPClient ------------------------------
(***************************************************************************)
(* BKUDPClient: a thread receives the server's datagrams, each of which    *)
(* becomes a pool task with a raw pointer to the client; the client is     *)
(* ended and deleted by a pool task too, once its handler has no           *)
(* connection left.                                                        *)
(***************************************************************************)
EXTENDS Naturals

CONSTANTS
  Client,  \* the clients an application makes
  Carrier  \* pool tasks with a datagram (bound of those queued or running at once)

VARIABLES
  client,  \* client[c]: the object c and what it owns
  carrier  \* carrier[t]: the client whose datagram the task t has, and where t is

clientVars == <<client, carrier>>

NewClient ==
  [memory |-> "none",     \* "none", "alive", "deleted"
   started |-> FALSE,     \* bClientStarted
   thread |-> "none",     \* UDPClientThread: "none", "created", "listening", "exited"
   handler |-> "null",    \* UDPHandler: "null", "new", "up", "deleted"
   socket |-> "none",     \* UDPSocket: "none", "open", "closed"
   address |-> "none",    \* SocketAddress: "none", "held", "freed"
   callback |-> FALSE,    \* whether UDPListenCallback is set
   kill |-> "no",         \* the handler's bPendingKill, until its callback was called
   suicides |-> 0,        \* LazySuicide tasks in the pool
   calledBack |-> 0,      \* history: how often the handler called LazySuicide
   ending |-> "no"]       \* where the task in EndUDPClient is

Rest == [of |-> 0, at |-> "idle"]

ClientInit ==
  /\ client = [c \in Client |-> NewClient]
  /\ carrier = [t \in Carrier |-> Rest]

-----------------------------------------------------------------------------
(* NewUDPClient and StartUDPClient.                                        *)

\* InitializeClient: resolve, open, keep the address.
InitializeClient(c) ==
  client' = [client EXCEPT ![c] =
    [@ EXCEPT !.memory = "alive", !.started = TRUE, !.callback = TRUE,
              !.socket = "open", !.address = "held", !.thread = "created"]]

\* The name is unknown or there is no socket: the object is deleted, and null returned.
NewUDPClientFails(c) == client' = [client EXCEPT ![c].memory = "deleted"]

\* The handler is made when the thread may be listening, and then started.
MakeHandler(c) ==
  /\ client[c].thread # "none" /\ client[c].handler = "null"
  /\ client' = [client EXCEPT ![c].handler = "new"]

StartHandler(c) ==
  /\ client[c].handler = "new"
  /\ client' = [client EXCEPT ![c].handler = "up"]

NewUDPClient(c) ==
  /\ client[c].memory = "none"
  /\ InitializeClient(c) \/ NewUDPClientFails(c)
  /\ UNCHANGED carrier

Constructed(c) == client[c].handler = "up"

ConstructClient(c) ==
  /\ MakeHandler(c) \/ StartHandler(c)
  /\ UNCHANGED carrier

-----------------------------------------------------------------------------
(* ListenServer and its tasks.                                             *)

Listen(c) ==
  /\ \/ client[c].thread = "created"
     \/ client[c].thread = "listening" /\ ~client[c].started /\ client[c].socket = "closed"
  /\ client' = [client EXCEPT ![c].thread = IF client[c].started THEN "listening" ELSE "exited"]
  /\ UNCHANGED carrier

\* The parameters are not the task's to delete.  (An empty datagram leaves its buffer behind.)
Receive(c, t) ==
  /\ client[c].thread = "listening" /\ client[c].socket = "open"
  /\ carrier[t] = Rest
  /\ IF client[c].started
     THEN carrier' = [carrier EXCEPT ![t] = [of |-> c, at |-> "queued"]] /\ UNCHANGED client
     ELSE client' = [client EXCEPT ![c].thread = "exited"] /\ UNCHANGED carrier

\* What the task looks at before it touches the handler.
MayAnalyze(c) == client[c].started /\ client[c].callback /\ client[c].handler \in {"new", "up"}

BeginCarrier(t) ==
  LET c == carrier[t].of
  IN  /\ carrier[t].at = "queued"
      /\ client[c].memory = "alive"
      /\ carrier' = [carrier EXCEPT ![t] = IF MayAnalyze(c) THEN [of |-> c, at |-> "analyze"] ELSE Rest]
      /\ UNCHANGED client

\* AnalyzeNetworkDataWithByteArray: data for the callback, or a message of the protocol.
Analyze(t) ==
  LET c == carrier[t].of
  IN  /\ carrier[t].at = "analyze"
      /\ client[c].handler \in {"new", "up"}
      /\ \/ client[c].handler = "up" /\ carrier' = [carrier EXCEPT ![t].at = "call"]
         \/ carrier' = [carrier EXCEPT ![t] = Rest]
      /\ UNCHANGED client

FinishCarrier(t) == carrier' = [carrier EXCEPT ![t] = Rest]

\* The callback of an application: it answers through the same client.
Answer(t) ==
  /\ carrier[t].at = "call"
  /\ client[carrier[t].of].callback /\ client[carrier[t].of].handler = "up"
  /\ FinishCarrier(t)
  /\ UNCHANGED client

-----------------------------------------------------------------------------
(* The end.                                                                *)

MarkPendingKill(c) ==
  /\ client[c].memory = "alive" /\ Constructed(c) /\ client[c].kill = "no"
  /\ client' = [client EXCEPT ![c].kill = "marked"]
  /\ UNCHANGED carrier

\* The handler has no connection left: MarkPendingKill itself may find so, and so may
\* the removal of the last connection, at the same time: LazySuicide is called once, or twice.
ReadyToDie(c) ==
  /\ client[c].memory = "alive" /\ client[c].handler = "up"
  /\ client[c].kill = "marked" /\ client[c].calledBack < 2
  /\ client' = [client EXCEPT ![c].suicides = @ + 1, ![c].calledBack = @ + 1]
  /\ UNCHANGED carrier

\* The task of LazySuicide: EndUDPClient, which returns at once when another is in it, and
\* then the pool deletes the client.
Suicide(c) ==
  /\ client[c].memory = "alive" /\ client[c].suicides > 0
  /\ client' = [client EXCEPT ![c] =
       IF @.started
       THEN [@ EXCEPT !.suicides = client[c].suicides - 1, !.started = FALSE, !.ending = "handler"]
       ELSE [@ EXCEPT !.suicides = client[c].suicides - 1, !.memory = "deleted"]]
  /\ UNCHANGED carrier

EndHandler(c) ==
  /\ client[c].ending = "handler"
  /\ client' = [client EXCEPT ![c].handler = "deleted", ![c].ending = "socket"]
  /\ UNCHANGED carrier

\* CloseSocket, the address, the callback.
CloseSocket(c) ==
  /\ client[c].ending = "socket"
  /\ client' = [client EXCEPT ![c].socket = "closed", ![c].address = "freed",
                              ![c].callback = FALSE, ![c].ending = "join"]
  /\ UNCHANGED carrier

\* Fault: the thread is not waited for.
JoinListenerNot(c) ==
  /\ client[c].ending = "join"
  /\ client' = [client EXCEPT ![c].ending = "pool"]
  /\ UNCHANGED carrier

\* A thread that has not begun is not joinable, and is left behind.
JoinListener(c) ==
  /\ client[c].ending = "join"
  /\ client[c].thread # "listening"
  /\ client' = [client EXCEPT ![c].ending = "pool"]
  /\ UNCHANGED carrier

\* "Will be deleted after, by AsyncTaskManager."
PoolDeletes(c) ==
  /\ client[c].ending = "pool" /\ client[c].memory = "alive"
  /\ client' = [client EXCEPT ![c].memory = "deleted", ![c].ending = "done"]
  /\ UNCHANGED carrier

EndClient(c) ==
  \/ MarkPendingKill(c) \/ ReadyToDie(c) \/ Suicide(c) \/ EndHandler(c)
  \/ CloseSocket(c) \/ JoinListener(c) \/ PoolDeletes(c)

\* A client whose handler called back once is deleted when nothing of it is left: its handler
\* gone, its socket closed, its address freed and its thread not in recvfrom any more.
ClientFreedLast ==
  \A c \in Client :
    client[c].memory = "deleted" /\ client[c].calledBack = 1 =>
      /\ client[c].handler = "deleted" /\ client[c].socket = "closed"
      /\ client[c].address = "freed" /\ client[c].thread # "listening"
=============================================================================
