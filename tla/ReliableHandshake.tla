------------------------- MODULE ReliableHandshake --------------------------
(***************************************************************************)
(* The reliable layer of BKUDPHandler: the four-way handshake              *)
(*     SYN -> SYN-ACK -> ACK -> ACK-ACK                                    *)
(* that peers run over UDP for every reliable message, with SYN-FAIL for a *)
(* SYN whose checksum or timestamp is refused, the retransmissions of      *)
(* BKReliableConnectionRecord::ResetterFunction, and MarkPendingKill.      *)
(*                                                                         *)
(* A connection record lives in its owner's map under a key made of the    *)
(* other party and the message ID.  The key does not say which side is the *)
(* sender, and every handler numbers its own messages from the same start, *)
(* so message n of p to q and message n of q to p meet in ONE record of p  *)
(* and ONE record of q.  <<p, q, n>> names that record of p, and also the  *)
(* message n that p sends to q.                                            *)
(*                                                                         *)
(* A handler of one packet is one step.  A packet is in `network' from its *)
(* Send to its loss or last receipt; receipts come in any order, and a     *)
(* received packet may stay, which is a duplicate (or the second copy that *)
(* a retransmission put in flight).  A thread tests bPendingKill (lines 68 *)
(* and 435) before it takes the mutex of the map and adds its record (line *)
(* 721), and does not test it again: `passed' is the work of the threads   *)
(* that are between the two when the flag is set.                          *)
(*                                                                         *)
(* Left out: a handler whose LastThissideGeneratedTimestamp is 65535 sets  *)
(* the SYN flag on its answers too (line 419), which are no answers then.  *)
(***************************************************************************)
EXTENDS Integers, FiniteSets

CONSTANTS
  Peer,           \* processes that own a BKUDPHandler
  Sender,         \* the peers that send reliable messages of their own
  MaxMessageID,   \* bound: the last message ID a peer uses
  FailureLimit,   \* the 5 of Create_AddOrGet_ReliableConnectionRecord
  MaxPassed       \* bound: threads past the test of bPendingKill when it is set

ASSUME SenderIsPeer == Sender \subseteq Peer
ASSUME MaxMessageIDIsNat == MaxMessageID \in Nat
ASSUME FailureLimitIsPositive == FailureLimit \in Nat \ {0}

NotFound == 255         \* RELIABLE_CONNECTION_NOT_FOUND
TimeoutLimit == 2       \* ++FailureTrialCount >= 2 in ResetterFunction
FirstMessageID == 2     \* LastThissideMessageID is 1 and incremented before use

MessageID == FirstMessageID..MaxMessageID
Key == {k \in Peer \X Peer \X MessageID : k[1] # k[2]}

\* The same ID seen from the other party.
Mirror(k) == <<k[2], k[1], k[3]>>

Kind == {"SYN", "SYN-ACK", "SYN-FAIL", "ACK", "ACK-ACK"}

\* A packet names the key under which its destination looks for a record.
Packet == [kind : Kind, key : Key]
SYN == [kind : {"SYN"}, key : Key]

Record == [status : {0, 1, 2, 3, NotFound}, asSender : BOOLEAN,
           skipped : BOOLEAN, fails : Nat, buffer : Kind]

NoRecord == [status |-> NotFound, asSender |-> FALSE, skipped |-> FALSE,
             fails |-> 0, buffer |-> "SYN"]

Life == {"running", "pendingKill", "readyToDie"}

\* A thread with a SYN that arrived, or with one that is to leave, and the key of its
\* record.
Work == [on : {"arrival", "departure"}, key : Key]
Outcome == {"unsent", "pending", "untracked", "acknowledged", "abandoned"}

VARIABLES
  records,     \* ReliableConnectionRecords of every peer; NoRecord where the map has no entry
  lastID,      \* lastID[p]: LastThissideMessageID
  life,        \* life[p]: bPendingKill, and whether ReadyToDieCallback was called
  passed,      \* work past the test of bPendingKill in handlers marked since
  network,     \* packets in flight
  outcome,     \* history: what became of each message at its sender
  delivered,   \* history: messages whose payload Analyze returned at their destination
  confirmed    \* history: messages whose receiver closed its case on an ACK

vars == <<records, lastID, life, passed, network, outcome, delivered, confirmed>>

TypeOK ==
  /\ records \in [Key -> Record]
  /\ lastID \in [Peer -> Nat]
  /\ life \in [Peer -> Life]
  /\ passed \subseteq Work
  /\ network \subseteq Packet
  /\ outcome \in [Key -> Outcome]
  /\ delivered \subseteq Key
  /\ confirmed \subseteq Key

Init ==
  /\ records = [k \in Key |-> NoRecord]
  /\ lastID = [p \in Peer |-> FirstMessageID - 1]
  /\ life = [p \in Peer |-> "running"]
  /\ passed = {}
  /\ network = {}
  /\ outcome = [k \in Key |-> "unsent"]
  /\ delivered = {}
  /\ confirmed = {}

-----------------------------------------------------------------------------
(* The record map.                                                         *)

Found(k) == records[k].status # NotFound

\* Fault: a record is created whatever status is asked for.
ObtainableAlwaysCreates(k, ensure, ignoreFailure) ==
  Found(k) => /\ records[k].status = ensure
              /\ ignoreFailure \/ records[k].fails < FailureLimit

\* Create_AddOrGet_ReliableConnectionRecord returns a record: the one it finds, in the
\* status asked for, or a new one when status 0 is asked for and nothing is found.
Obtainable(k, ensure, ignoreFailure) ==
  IF Found(k)
  THEN /\ records[k].status = ensure
       /\ ignoreFailure \/ records[k].fails < FailureLimit
  ELSE ensure = 0

\* The record it returns, its Buffer set to the packet given.
Obtained(k, packet, asSender) ==
  IF Found(k)
  THEN [records[k] EXCEPT !.buffer = packet]
  ELSE [NoRecord EXCEPT !.status = 0, !.asSender = asSender, !.buffer = packet]

Put(k, record) == records' = [records EXCEPT ![k] = record]

\* Fault: the callback is left to MarkPendingKill alone.
RemoveSilently(k) == Put(k, NoRecord) /\ UNCHANGED life

\* RemoveFromReliableConnections: the last record of a dying handler calls back.
Remove(k) ==
  /\ Put(k, NoRecord)
  /\ life' = [life EXCEPT ![k[1]] =
                IF @ = "pendingKill" /\ \A j \in Key : j[1] = k[1] /\ j # k => ~Found(j)
                THEN "readyToDie" ELSE @]

-----------------------------------------------------------------------------
(* The network.                                                            *)

\* What the owner of record k sends to the other party.
ToOther(k, kind) == {[kind |-> kind, key |-> Mirror(k)]}

\* m is taken from the network, or a copy of it stays; `sent' enters.
Receive(m, kind, sent) ==
  /\ m.kind = kind
  /\ \E left \in {network, network \ {m}} : network' = left \cup sent

Lose(m) ==
  /\ network' = network \ {m}
  /\ UNCHANGED <<records, lastID, life, passed, outcome, delivered, confirmed>>

\* The thread whose work this is tested bPendingKill before the handler was marked.
Passes(work) == work \in passed /\ passed' = passed \ {work}

\* The SYN m gets past bPendingKill, and `sent' is its answer.
Arrives(m, sent) ==
  /\ \/ /\ life[m.key[1]] = "running" /\ UNCHANGED passed
        /\ m \in network /\ Receive(m, "SYN", sent)
     \/ /\ Passes([on |-> "arrival", key |-> m.key])
        /\ network' = network \cup sent

\* Message k gets past bPendingKill and leaves with the next ID.
Departs(k) ==
  /\ k \in Key
  /\ \/ life[k[1]] = "running" /\ UNCHANGED passed
     \/ Passes([on |-> "departure", key |-> k])
  /\ lastID' = [lastID EXCEPT ![k[1]] = @ + 1]
  /\ network' = network \cup ToOther(k, "SYN")

-----------------------------------------------------------------------------
(* The sender's side.                                                      *)

\* Fault: the departure asks for a record in status 1, so that none is created.
SendReliableEnsuresSYN(p, q) ==
  LET k == <<p, q, lastID[p] + 1>> IN
  /\ Departs(k)
  /\ ~Obtainable(k, 1, TRUE)
  /\ outcome' = [outcome EXCEPT ![k] = "untracked"]
  /\ UNCHANGED <<records, life, delivered, confirmed>>

\* MakeByteArrayForNetworkData of a reliable message, HandleReliableSYNDeparture, and
\* the caller's Send.  When the key already holds a record in another status the
\* message leaves all the same, with no record behind it.
SendReliable(p, q) ==
  LET k == <<p, q, lastID[p] + 1>> IN
  /\ Departs(k)
  /\ \/ /\ Obtainable(k, 0, TRUE)
        /\ Put(k, [Obtained(k, "SYN", TRUE) EXCEPT !.status = 1, !.fails = 0])
        /\ outcome' = [outcome EXCEPT ![k] = "pending"]
     \/ /\ ~Obtainable(k, 0, TRUE)
        /\ UNCHANGED records
        /\ outcome' = [outcome EXCEPT ![k] = "untracked"]
  /\ UNCHANGED <<life, delivered, confirmed>>

\* Fault: the ACK is sent before the record is looked at.
ReceiveSYNACKUnchecked(m) ==
  LET k == m.key IN
  /\ Receive(m, "SYN-ACK", ToOther(k, "ACK"))
  /\ IF \E ensure \in {1, 3} : Obtainable(k, ensure, FALSE)
     THEN /\ Put(k, [Obtained(k, "ACK", TRUE) EXCEPT !.status = 3, !.fails = 0])
          /\ outcome' = [outcome EXCEPT ![k] = "acknowledged"]
     ELSE UNCHANGED <<records, outcome>>
  /\ UNCHANGED <<lastID, life, passed, delivered, confirmed>>

\* HandleReliableSYNSuccess: the first SYN-ACK moves the record on, a later one
\* repeats the ACK.
ReceiveSYNACK(m) ==
  LET k == m.key IN
  /\ \/ /\ \E ensure \in {1, 3} : Obtainable(k, ensure, FALSE)
        /\ Put(k, [Obtained(k, "ACK", TRUE) EXCEPT !.status = 3, !.fails = 0])
        /\ outcome' = [outcome EXCEPT ![k] = "acknowledged"]
        /\ Receive(m, "SYN-ACK", ToOther(k, "ACK"))
     \/ /\ ~\E ensure \in {1, 3} : Obtainable(k, ensure, FALSE)
        /\ Receive(m, "SYN-ACK", {})
        /\ UNCHANGED <<records, outcome>>
  /\ UNCHANGED <<lastID, life, passed, delivered, confirmed>>

\* HandleReliableSYNFailure: the SYN is sent again, FailureLimit times at most.
ReceiveSYNFAIL(m) ==
  LET k == m.key IN
  /\ \/ /\ Obtainable(k, 1, FALSE)
        /\ Put(k, [records[k] EXCEPT !.fails = @ + 1])
        /\ Receive(m, "SYN-FAIL", ToOther(k, records[k].buffer))
     \/ /\ ~Obtainable(k, 1, FALSE)
        /\ Receive(m, "SYN-FAIL", {})
        /\ UNCHANGED records
  /\ UNCHANGED <<lastID, life, passed, outcome, delivered, confirmed>>

\* HandleReliableACKArrival, on an ACK-ACK: close the case.
ReceiveACKACK(m) ==
  LET k == m.key IN
  /\ Receive(m, "ACK-ACK", {})
  /\ IF Obtainable(k, 3, FALSE) THEN Remove(k) ELSE UNCHANGED <<records, life>>
  /\ UNCHANGED <<lastID, passed, outcome, delivered, confirmed>>

-----------------------------------------------------------------------------
(* The receiver's side.                                                    *)

\* AsReceiverReliableSYNSuccess, after which Analyze decodes the payload and returns it
\* to the application: also for a duplicate, and also when no SYN-ACK could be sent.
ReceiveSYN(m) ==
  LET k == m.key IN
  /\ \/ /\ \E ensure \in {0, 2} : Obtainable(k, ensure, FALSE)
        /\ Put(k, [Obtained(k, "SYN-ACK", FALSE) EXCEPT !.status = 2, !.fails = 0])
        /\ Arrives(m, ToOther(k, "SYN-ACK"))
     \/ /\ ~\E ensure \in {0, 2} : Obtainable(k, ensure, FALSE)
        /\ Arrives(m, {})
        /\ UNCHANGED records
  /\ delivered' = delivered \cup {Mirror(k)}
  /\ UNCHANGED <<lastID, life, outcome, confirmed>>

\* Fault: the answer to a refused SYN carries the SYN-ACK flag.
RefuseSYNWithSYNACK(m) ==
  LET k == m.key IN
  /\ Obtainable(k, 0, TRUE)
  /\ Put(k, [Obtained(k, "SYN-ACK", FALSE) EXCEPT !.fails = 0])
  /\ Arrives(m, ToOther(k, "SYN-ACK"))
  /\ UNCHANGED <<lastID, life, outcome, delivered, confirmed>>

\* AsReceiverReliableSYNFailure: the SYN's checksum does not match, or its timestamp is
\* older than the last one from this party.
RefuseSYN(m) ==
  LET k == m.key IN
  /\ \/ /\ Obtainable(k, 0, TRUE)
        /\ Put(k, [Obtained(k, "SYN-FAIL", FALSE) EXCEPT !.fails = 0])
        /\ Arrives(m, ToOther(k, "SYN-FAIL"))
     \/ /\ ~Obtainable(k, 0, TRUE)
        /\ Arrives(m, {})
        /\ UNCHANGED records
  /\ UNCHANGED <<lastID, life, outcome, delivered, confirmed>>

\* HandleReliableSYNACKSuccess, on an ACK: send ACK-ACK and close the case (status 4 is
\* set and removed in the same step).
ReceiveACK(m) ==
  LET k == m.key IN
  /\ \/ /\ Obtainable(k, 2, FALSE)
        /\ Receive(m, "ACK", ToOther(k, "ACK-ACK"))
        /\ Remove(k)
        /\ confirmed' = confirmed \cup {Mirror(k)}
     \/ /\ ~Obtainable(k, 2, FALSE)
        /\ Receive(m, "ACK", {})
        /\ UNCHANGED <<records, life, confirmed>>
  /\ UNCHANGED <<lastID, passed, outcome, delivered>>

-----------------------------------------------------------------------------
(* Timeouts and the end of a handler.                                      *)

\* Fault: nothing remembers that the frame was skipped.
SkipsEachTime(r) == r.status # 3 /\ r.asSender

\* ResetterFunction of a record whose last interaction is 2 s old: a sender's record
\* is passed over once, then the Buffer is sent again, then the record goes.  A
\* record that waits for its ACK-ACK goes at once.
Skips(r) == r.status # 3 /\ r.asSender /\ ~r.skipped

Expires(r) == r.status = 3 \/ (~Skips(r) /\ r.fails + 1 >= TimeoutLimit)

\* Fault: a resend is not counted.
TimeoutUncounted(k) ==
  LET r == records[k] IN
  /\ Found(k)
  /\ ~Expires(r)
  /\ \/ /\ Skips(r)
        /\ Put(k, [r EXCEPT !.skipped = TRUE])
        /\ UNCHANGED network
     \/ /\ ~Skips(r)
        /\ network' = network \cup ToOther(k, r.buffer)
        /\ UNCHANGED records
  /\ UNCHANGED <<lastID, life, passed, outcome, delivered, confirmed>>

Timeout(k) ==
  LET r == records[k] IN
  /\ Found(k)
  /\ \/ /\ Expires(r)
        /\ Remove(k)
        /\ outcome' = [outcome EXCEPT ![k] = IF r.status = 1 THEN "abandoned" ELSE @]
        /\ UNCHANGED network
     \/ /\ Skips(r)
        /\ Put(k, [r EXCEPT !.skipped = TRUE])
        /\ UNCHANGED <<life, outcome, network>>
     \/ /\ ~Skips(r) /\ ~Expires(r)
        /\ Put(k, [r EXCEPT !.fails = @ + 1])
        /\ network' = network \cup ToOther(k, r.buffer)
        /\ UNCHANGED <<life, outcome>>
  /\ UNCHANGED <<lastID, passed, delivered, confirmed>>

\* What threads may have in hand in p's handler: a SYN received, a message to send.
InHand(p) ==
  {work \in Work :
     /\ work.key[1] = p
     /\ CASE work.on = "arrival"   -> [kind |-> "SYN", key |-> work.key] \in network
          [] work.on = "departure" -> p \in Sender /\ work.key[3] > lastID[p]}

\* Some threads are past the test of the flag when it is set.
MarkPendingKill(p) ==
  /\ life[p] = "running"
  /\ \E works \in SUBSET InHand(p) : /\ Cardinality(passed \cup works) <= MaxPassed
                                      /\ passed' = passed \cup works
  /\ life' = [life EXCEPT ![p] = IF \E k \in Key : k[1] = p /\ Found(k)
                                  THEN "pendingKill" ELSE "readyToDie"]
  /\ UNCHANGED <<records, lastID, network, outcome, delivered, confirmed>>

-----------------------------------------------------------------------------
Next ==
  \/ \E p \in Sender, q \in Peer : SendReliable(p, q)
  \/ \E m \in SYN : ReceiveSYN(m) \/ RefuseSYN(m)
  \/ \E m \in network : \/ ReceiveSYNACK(m)
                        \/ ReceiveSYNFAIL(m)
                        \/ ReceiveACK(m)
                        \/ ReceiveACKACK(m)
                        \/ Lose(m)
  \/ \E k \in Key : Timeout(k)
  \/ \E p \in Peer : MarkPendingKill(p)

Spec == Init /\ [][Next]_vars

\* The timeout check runs every 100 ms, and a record that no packet refreshes is 2 s
\* old in the end; no packet has infinitely many copies.
Fairness == /\ \A k \in Key : WF_vars(Timeout(k))
            /\ \A m \in Packet : WF_vars(m \in network /\ Lose(m))

FairSpec == Spec /\ Fairness
-----------------------------------------------------------------------------
(* Properties.                                                             *)

\* A sender's record reaches status 3 (HandleReliableSYNSuccess) only for a message
\* whose payload reached the other application, whatever is lost, duplicated or
\* reordered and although both directions share the record: no SYN-ACK, ACK or Buffer
\* of the other direction is taken for an acknowledgement.
AcknowledgedIsDelivered ==
  \A k \in Key : outcome[k] = "acknowledged" => k \in delivered

\* A receiver closes its case as acknowledged (HandleReliableSYNACKSuccess) only for a
\* message whose sender had its SYN-ACK: the two ends never disagree that way round.
ConfirmedIsAcknowledged ==
  \A k \in confirmed : outcome[k] = "acknowledged"

\* A reliable message leaves without a record, so without retransmission
\* (HandleReliableSYNDeparture), only when the other party has used the same ID for a
\* message of its own: one-way traffic is always tracked.
UntrackedOnlyByCollision ==
  \A k \in Key : outcome[k] = "untracked" => outcome[Mirror(k)] # "unsent"

\* The handshake is an implementation of the delivery that ReliableDelivery promises:
\* in particular a message is resolved once, and acknowledged after its delivery.
Delivery == INSTANCE ReliableDelivery WITH Message <- Key
ImplementsDelivery == Delivery!Spec

\* A tracked message does not stay unresolved: resends, SYN-FAILs and the record's
\* timeouts come to an end.
ImplementsFairDelivery == Delivery!FairSpec

\* The exchange dies out: no pair of packets (SYN and SYN-FAIL, SYN-ACK and ACK) keeps
\* calling each other for ever, and every record leaves its map.
Quiesces == <>[](network = {} /\ \A k \in Key : ~Found(k))

\* A handler marked for killing gets to call back, whatever its peers do, and has no record
\* from some moment on: threads that were past the test of bPendingKill may still add
\* some (lines 68 and 435, then 721), even after the callback.
DyingHandlerDies ==
  \A p \in Peer :
    life[p] # "running" ~>
      [](life[p] = "readyToDie" /\ \A k \in Key : k[1] = p => ~Found(k))
=============================================================================
