----------------------------- MODULE HTTPSockets -----------------------------
(***************************************************************************)
(* What the operating system does for the HTTP client and server: tables   *)
(* of descriptors, where the lowest free number is handed out again, and   *)
(* connections, which live on while a thread is inside recv, whatever is   *)
(* closed meanwhile.  This is not code of the repository: it is modelled   *)
(* from the calls BKHTTPClient and BKHTTPServer make.                      *)
(***************************************************************************)
EXTENDS Integers, Sequences, FiniteSets, SequencesExt, FiniteSetsExt

CONSTANTS
  Request,  \* each request has one connection, and one thread at either end
  Stranger, \* requests of other programs than BKHTTPClient's, whose descriptors are not modelled
  MaxFd     \* bound: descriptors 0..MaxFd are enough for every request
ASSUME StrangersMakeRequests == Stranger \subseteq Request
ASSUME MaxFdIsNatural == MaxFd \in Nat
ASSUME RequestsAreNotFree == "free" \notin Request
VARIABLES
  table,    \* table[p][f]: what descriptor f of process p refers to
  link,     \* link[r]: the connection of request r
  blocked   \* blocked[p][r]: the connection the thread of r in process p waits on in recv

socketVars == <<table, link, blocked>>

Process == {"client", "server"}
Fd == 0..MaxFd
Free == "free"
Console == "console"    \* descriptor 0 of a process that was started from a terminal

SocketsInit ==
  /\ table = [p \in Process |-> [f \in Fd |-> IF f = 0 THEN Console ELSE Free]]
  /\ link = [r \in Request |-> [at |-> "none", to |-> [client |-> <<>>, server |-> <<>>], shut |-> {}]]
  /\ blocked = [p \in Process |-> [r \in Request |-> Free]]

Other(p) == IF p = "client" THEN "server" ELSE "client"
FreeFds(p) == {f \in Fd : table[p][f] = Free}
Refers(p, f) == IF f \in Fd THEN table[p][f] ELSE Free

\* A connection is closed by a process when it is shut, or when no descriptor refers to it
\* any more and nobody is inside recv: close alone does not wake a thread.
Gone(p, d) ==
  \/ p \in link[d].shut
  \/ /\ IF p = "server" THEN link[d].at \in {"accepted", "reset"} ELSE d \notin Stranger
     /\ \A f \in Fd : table[p][f] # d
     /\ \A r \in Request : blocked[p][r] # d

Opened(p, d) == [table EXCEPT ![p][Min(FreeFds(p))] = d]
Closed(p, f) == IF f \in Fd THEN [table EXCEPT ![p][f] = Free] ELSE table

Shut(p, f) ==
  IF Refers(p, f) \in Request /\ link[Refers(p, f)].at # "none"
  THEN [link EXCEPT ![Refers(p, f)].shut = @ \cup {p}] ELSE link

Sent(p, f, items) ==
  IF Refers(p, f) \in Request /\ link[Refers(p, f)].at \in {"backlog", "accepted"}
     /\ ~Gone(Other(p), Refers(p, f)) /\ p \notin link[Refers(p, f)].shut
  THEN [link EXCEPT ![Refers(p, f)].to[Other(p)] = @ \o items] ELSE link

\* recv, called: the descriptor is resolved now; on a bad one recv fails at once.
CanRecv(p, f) == Refers(p, f) \in Request
Entered(p, r, f) == [blocked EXCEPT ![p][r] = Refers(p, f)]
Left(p, r) == [blocked EXCEPT ![p][r] = Free]

\* recv, returning: a prefix of what arrived, or nothing more to come.
Arrived(p, r) == link[blocked[p][r]].to[p]
Ended(p, r) ==
  /\ Arrived(p, r) = <<>>
  /\ p \in link[blocked[p][r]].shut \/ Gone(Other(p), blocked[p][r])
Taken(p, r, n) == [link EXCEPT ![blocked[p][r]].to[p] = SubSeq(@, n + 1, Len(@))]
=============================================================================
