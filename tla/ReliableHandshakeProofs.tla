----------------------- MODULE ReliableHandshakeProofs ----------------------
(***************************************************************************)
(* Safety of the handshake for any set of peers, any number of messages    *)
(* and any failure limit.  The argument: a packet in flight, and a Buffer  *)
(* that may be sent again, are justified by what already happened, and     *)
(* what justifies them is never undone.                                    *)
(***************************************************************************)
EXTENDS ReliableHandshake, TLAPS

-----------------------------------------------------------------------------
(* The inductive invariant.                                                *)

\* What must have happened for a packet of this kind to reach the owner of record k:
\* its SYN was sent, its payload was delivered, its sender reached status 3.
Justified(kind, k) ==
  /\ kind = "SYN" => outcome[Mirror(k)] # "unsent"
  /\ kind = "SYN-ACK" => k \in delivered
  /\ kind = "ACK" => outcome[Mirror(k)] = "acknowledged"

NetworkInv == \A m \in network : Justified(m.kind, m.key)

\* The SYN in the hand of a thread was sent.
PassedInv ==
  \A work \in passed : work.on = "arrival" => outcome[Mirror(work.key)] # "unsent"

\* The status of a record says which of the two messages under its key it serves.
RecordInv(k, r) ==
  r.status # NotFound =>
    /\ Justified(r.buffer, Mirror(k))
    /\ r.status = 1 => outcome[k] = "pending"
    /\ r.status = 3 => outcome[k] = "acknowledged"
    /\ r.status \in {0, 2} => outcome[Mirror(k)] # "unsent"

RecordsInv == \A k \in Key : RecordInv(k, records[k])

IDsInv == \A k \in Key : outcome[k] # "unsent" => k[3] <= lastID[k[1]]

HandshakeInv ==
  /\ TypeOK
  /\ NetworkInv
  /\ RecordsInv
  /\ IDsInv
  /\ AcknowledgedIsDelivered
  /\ ConfirmedIsAcknowledged
  /\ UntrackedOnlyByCollision
  /\ PassedInv

\* What no step undoes.
Grows ==
  /\ \A k \in Key : outcome[k] # "unsent" => outcome'[k] # "unsent"
  /\ \A k \in Key : outcome[k] = "acknowledged" => outcome'[k] = "acknowledged"
  /\ delivered \subseteq delivered'

OnlyOutcomeOf(k) == \A j \in Key \ {k} : outcome'[j] = outcome[j]

-----------------------------------------------------------------------------
(* Lemmas.                                                                 *)

\* Mirror exchanges the two keys under which the ends hold the same ID.
LEMMA MirrorKey ==
  ASSUME NEW k \in Key
  PROVE  /\ Mirror(k) \in Key
         /\ Mirror(Mirror(k)) = k
         /\ Mirror(k)[1] = k[2]
         /\ Mirror(k) # k
BY DEF Key, Mirror, MessageID

\* A packet sent from a record is a packet.
LEMMA ToOtherPacket ==
  ASSUME NEW k \in Key, NEW kind \in Kind
  PROVE  ToOther(k, kind) \subseteq Packet
BY MirrorKey DEF ToOther, Packet

LEMMA NoRecordIsRecord == NoRecord \in Record
BY DEF NoRecord, Record, Kind

\* What Create_AddOrGet returns, with the packet as its Buffer.
LEMMA ObtainedRecord ==
  ASSUME TypeOK, NEW k \in Key, NEW packet \in Kind, NEW asSender \in BOOLEAN
  PROVE  /\ Obtained(k, packet, asSender) \in Record
         /\ Obtained(k, packet, asSender).buffer = packet
<1>1. records[k] \in Record
  BY DEF TypeOK
<1>2. NoRecord \in Record
  BY NoRecordIsRecord
<1>3. QED
  BY <1>1, <1>2 DEF Obtained, Record

\* ... and after SetHandshakingStatus and the reset of FailureTrialCount.
LEMMA ObtainedAs ==
  ASSUME TypeOK, NEW k \in Key, NEW packet \in Kind, NEW asSender \in BOOLEAN,
         NEW status \in {0, 1, 2, 3}
  PROVE  LET r == [Obtained(k, packet, asSender) EXCEPT !.status = status, !.fails = 0]
         IN  r \in Record /\ r.buffer = packet /\ r.status = status
<1>1. /\ Obtained(k, packet, asSender) \in Record
      /\ Obtained(k, packet, asSender).buffer = packet
  BY ObtainedRecord
<1>2. QED
  BY <1>1 DEF Record

\* What the sender of a message, its receiver, and the sender again, make of a record.
LEMMA ObtainedInTurn ==
  ASSUME TypeOK, NEW k \in Key
  PROVE  /\ LET r == [Obtained(k, "SYN", TRUE) EXCEPT !.status = 1, !.fails = 0]
            IN  r \in Record /\ r.buffer = "SYN" /\ r.status = 1
         /\ LET r == [Obtained(k, "SYN-ACK", FALSE) EXCEPT !.status = 2, !.fails = 0]
            IN  r \in Record /\ r.buffer = "SYN-ACK" /\ r.status = 2
         /\ LET r == [Obtained(k, "ACK", TRUE) EXCEPT !.status = 3, !.fails = 0]
            IN  r \in Record /\ r.buffer = "ACK" /\ r.status = 3
<1>1. \A packet \in Kind, asSender \in BOOLEAN, status \in {0, 1, 2, 3} :
        LET r == [Obtained(k, packet, asSender) EXCEPT !.status = status, !.fails = 0]
        IN  r \in Record /\ r.buffer = packet /\ r.status = status
  BY ObtainedAs
<1>2. "SYN" \in Kind /\ "SYN-ACK" \in Kind /\ "ACK" \in Kind
  BY DEF Kind
<1>3. QED
  BY <1>1, <1>2

\* No step undoes what justifies a packet.
LEMMA JustifiedStable ==
  ASSUME Grows, NEW kind, NEW k \in Key, Justified(kind, k)
  PROVE  Justified(kind, k)'
<1>1. Mirror(k) \in Key
  BY MirrorKey
<1>2. QED
  BY <1>1 DEF Grows, Justified, Mirror

\* The packets stay justified if what is sent is.
LEMMA SendKeepsNetwork ==
  ASSUME TypeOK, NetworkInv, Grows, NEW sent, network' \subseteq network \cup sent,
         \A x \in sent : Justified(x.kind, x.key)'
  PROVE  NetworkInv'
<1>1. SUFFICES ASSUME NEW x \in network' PROVE Justified(x.kind, x.key)'
  BY DEF NetworkInv
<1>2. CASE x \in sent
  BY <1>2
<1>3. CASE x \in network
  <2>1. x.key \in Key
    BY <1>3 DEF TypeOK, Packet
  <2>2. Justified(x.kind, x.key)
    BY <1>3 DEF NetworkInv
  <2>3. QED
    BY <2>1, <2>2, JustifiedStable
<1>4. QED
  BY <1>1, <1>2, <1>3

LEMMA QuietKeepsNetwork ==
  ASSUME TypeOK, NetworkInv, Grows, network' \subseteq network
  PROVE  NetworkInv'
<1>1. PICK sent : sent = {}
  OBVIOUS
<1>2. network' \subseteq network \cup sent
  BY <1>1
<1>3. \A x \in sent : Justified(x.kind, x.key)'
  BY <1>1
<1>4. QED
  BY <1>2, <1>3, SendKeepsNetwork

\* The packet that leaves record k for the other party is justified if its kind is.
LEMMA ToOtherJustified ==
  ASSUME NEW k \in Key, NEW kind, Justified(kind, Mirror(k))'
  PROVE  \A x \in ToOther(k, kind) : Justified(x.kind, x.key)'
BY DEF ToOther

LEMMA ReceiveShrinks ==
  ASSUME NEW m, NEW kind, NEW sent, Receive(m, kind, sent)
  PROVE  m.kind = kind /\ network' \subseteq network \cup sent
BY DEF Receive

\* A step on record k keeps the others in order, whatever it does to message k.
LEMMA PutKeepsRecords ==
  ASSUME TypeOK, RecordsInv, Grows, NEW k \in Key, OnlyOutcomeOf(k), NEW r,
         Put(k, r), RecordInv(k, r)'
  PROVE  RecordsInv'
<1>1. SUFFICES ASSUME NEW j \in Key PROVE RecordInv(j, records[j])'
  BY DEF RecordsInv
<1>2. CASE j = k
  <2>1. records'[j] = r
    BY <1>2 DEF Put, TypeOK
  <2>2. QED
    BY <1>2, <2>1 DEF RecordInv
<1>3. CASE j # k
  <2>1. records'[j] = records[j]
    BY <1>3 DEF Put, TypeOK
  <2>2. RecordInv(j, records[j])
    BY DEF RecordsInv
  <2>3. outcome'[j] = outcome[j]
    BY <1>3 DEF OnlyOutcomeOf
  <2>4. Mirror(j) \in Key
    BY MirrorKey
  <2>5. \A kind : Justified(kind, Mirror(j)) => Justified(kind, Mirror(j))'
    BY <2>4, JustifiedStable
  <2>6. outcome[Mirror(j)] # "unsent" => outcome'[Mirror(j)] # "unsent"
    BY <2>4 DEF Grows
  <2>7. QED
    BY <2>1, <2>2, <2>3, <2>5, <2>6 DEF RecordInv, Mirror, Justified
<1>4. QED
  BY <1>2, <1>3
-----------------------------------------------------------------------------
(* Type correctness.                                                       *)

\* The record map after a record is put or removed.
LEMMA PutType ==
  ASSUME TypeOK, NEW k \in Key, NEW r \in Record, Put(k, r)
  PROVE  records' \in [Key -> Record]
BY DEF TypeOK, Put

LEMMA RemoveType ==
  ASSUME TypeOK, NEW k \in Key, Remove(k)
  PROVE  /\ records' \in [Key -> Record]
         /\ life' \in [Peer -> Life]
<1>1. Put(k, NoRecord)
  BY DEF Remove
<1>2. records' \in [Key -> Record]
  BY <1>1, NoRecordIsRecord, PutType
<1>3. life' \in [Peer -> Life]
  BY DEF TypeOK, Remove, Life
<1>4. QED
  BY <1>2, <1>3

LEMMA ReceiveType ==
  ASSUME TypeOK, NEW m \in network, NEW kind, NEW sent \in SUBSET Packet,
         Receive(m, kind, sent)
  PROVE  network' \subseteq Packet
BY DEF TypeOK, Receive

\* A key that a packet in flight names is a key.
LEMMA PacketKey ==
  ASSUME TypeOK, NEW m \in network
  PROVE  m.key \in Key /\ m.kind \in Kind
BY DEF TypeOK, Packet

\* A SYN past the test of bPendingKill, from the network or in a thread's hand.
LEMMA ArrivesType ==
  ASSUME TypeOK, NEW m \in SYN, NEW sent \in SUBSET Packet, Arrives(m, sent)
  PROVE  /\ m.key \in Key /\ m.kind = "SYN"
         /\ network' \subseteq Packet
         /\ network' \subseteq network \cup sent
         /\ passed' \subseteq passed
         /\ passed' \subseteq Work
BY DEF TypeOK, SYN, Arrives, Receive, Passes

LEMMA DepartsType ==
  ASSUME TypeOK, NEW k, Departs(k)
  PROVE  /\ k \in Key
         /\ lastID' = [lastID EXCEPT ![k[1]] = @ + 1]
         /\ network' = network \cup ToOther(k, "SYN")
         /\ passed' \subseteq passed
         /\ passed' \subseteq Work
BY DEF TypeOK, Departs, Passes

LEMMA TypeSendReliable ==
  ASSUME TypeOK, NEW p \in Sender, NEW q \in Peer, SendReliable(p, q)
  PROVE  TypeOK'
<1> DEFINE k == <<p, q, lastID[p] + 1>>
<1>1. /\ k \in Key /\ p \in Peer /\ k[1] = p
      /\ lastID' = [lastID EXCEPT ![p] = @ + 1]
      /\ network' = network \cup ToOther(k, "SYN")
      /\ passed' \subseteq Work
  BY DepartsType, SenderIsPeer DEF SendReliable
<1>2. network' \subseteq Packet
  <2>1. ToOther(k, "SYN") \subseteq Packet
    BY <1>1, ToOtherPacket DEF Kind
  <2>2. QED
    BY <1>1, <2>1 DEF TypeOK
<1>3. records' \in [Key -> Record]
  <2>1. CASE UNCHANGED records
    BY <2>1 DEF TypeOK
  <2>2. CASE Put(k, [Obtained(k, "SYN", TRUE) EXCEPT !.status = 1, !.fails = 0])
    <3>1. [Obtained(k, "SYN", TRUE) EXCEPT !.status = 1, !.fails = 0] \in Record
      BY <1>1, ObtainedInTurn
    <3>2. QED
      BY <1>1, <2>2, <3>1, PutType
  <2>3. QED
    BY <2>1, <2>2 DEF SendReliable
<1>4. outcome' \in [Key -> Outcome]
  <2>1. \E fate \in Outcome : outcome' = [outcome EXCEPT ![k] = fate]
    BY DEF SendReliable, Outcome
  <2>2. QED
    BY <2>1 DEF TypeOK
<1>5. lastID' \in [Peer -> Nat]
  <2>1. lastID \in [Peer -> Nat] /\ lastID' = [lastID EXCEPT ![p] = @ + 1]
    BY <1>1 DEF TypeOK
  <2>2. QED
    BY <1>1, <2>1
<1>6. QED
  BY <1>1, <1>2, <1>3, <1>4, <1>5 DEF TypeOK, SendReliable

LEMMA SynKey ==
  ASSUME NEW m \in SYN
  PROVE  m.key \in Key
BY DEF SYN

LEMMA TypeReceiveSYN ==
  ASSUME TypeOK, NEW m \in SYN, ReceiveSYN(m)
  PROVE  TypeOK'
<1> DEFINE k == m.key
           r == [Obtained(k, "SYN-ACK", FALSE) EXCEPT !.status = 2, !.fails = 0]
<1>1. k \in Key /\ Mirror(k) \in Key
  BY SynKey, MirrorKey
<1>2. r \in Record
  BY <1>1, ObtainedInTurn
<1>3. ToOther(k, "SYN-ACK") \subseteq Packet
  BY <1>1, ToOtherPacket DEF Kind
<1>4. CASE Put(k, r) /\ Arrives(m, ToOther(k, "SYN-ACK"))
  <2>1. records' \in [Key -> Record]
    BY <1>1, <1>2, <1>4, PutType
  <2>2. network' \subseteq Packet /\ passed' \subseteq Work
    BY <1>3, <1>4, ArrivesType
  <2>3. QED
    BY <1>1, <2>1, <2>2 DEF TypeOK, ReceiveSYN
<1>5. CASE UNCHANGED records /\ Arrives(m, {})
  <2>1. network' \subseteq Packet /\ passed' \subseteq Work
    BY <1>5, ArrivesType
  <2>2. QED
    BY <1>1, <1>5, <2>1 DEF TypeOK, ReceiveSYN
<1>6. QED
  BY <1>4, <1>5 DEF ReceiveSYN

LEMMA TypeRefuseSYN ==
  ASSUME TypeOK, NEW m \in SYN, RefuseSYN(m)
  PROVE  TypeOK'
<1> DEFINE k == m.key
           r == [Obtained(k, "SYN-FAIL", FALSE) EXCEPT !.fails = 0]
<1>1. k \in Key
  BY SynKey
<1>2. r \in Record
  <2>1. Obtained(k, "SYN-FAIL", FALSE) \in Record
    BY <1>1, ObtainedRecord DEF Kind
  <2>2. QED
    BY <2>1 DEF Record
<1>3. ToOther(k, "SYN-FAIL") \subseteq Packet
  BY <1>1, ToOtherPacket DEF Kind
<1>4. CASE Put(k, r) /\ Arrives(m, ToOther(k, "SYN-FAIL"))
  <2>1. records' \in [Key -> Record]
    BY <1>1, <1>2, <1>4, PutType
  <2>2. network' \subseteq Packet /\ passed' \subseteq Work
    BY <1>3, <1>4, ArrivesType
  <2>3. QED
    BY <2>1, <2>2 DEF TypeOK, RefuseSYN
<1>5. CASE UNCHANGED records /\ Arrives(m, {})
  <2>1. network' \subseteq Packet /\ passed' \subseteq Work
    BY <1>5, ArrivesType
  <2>2. QED
    BY <1>5, <2>1 DEF TypeOK, RefuseSYN
<1>6. QED
  BY <1>4, <1>5 DEF RefuseSYN

LEMMA TypeReceiveSYNACK ==
  ASSUME TypeOK, NEW m \in network, ReceiveSYNACK(m)
  PROVE  TypeOK'
<1> DEFINE k == m.key
           r == [Obtained(k, "ACK", TRUE) EXCEPT !.status = 3, !.fails = 0]
<1>1. k \in Key
  BY PacketKey
<1>2. r \in Record
  BY <1>1, ObtainedInTurn
<1>3. ToOther(k, "ACK") \subseteq Packet
  BY <1>1, ToOtherPacket DEF Kind
<1>4. CASE /\ Put(k, r)
           /\ Receive(m, "SYN-ACK", ToOther(k, "ACK"))
           /\ outcome' = [outcome EXCEPT ![k] = "acknowledged"]
  <2>1. records' \in [Key -> Record]
    BY <1>1, <1>2, <1>4, PutType
  <2>2. network' \subseteq Packet
    BY <1>3, <1>4, ReceiveType
  <2>3. outcome' \in [Key -> Outcome]
    BY <1>4 DEF TypeOK, Outcome
  <2>4. QED
    BY <2>1, <2>2, <2>3 DEF TypeOK, ReceiveSYNACK
<1>5. CASE UNCHANGED <<records, outcome>> /\ Receive(m, "SYN-ACK", {})
  <2>1. network' \subseteq Packet
    BY <1>5, ReceiveType
  <2>2. QED
    BY <1>5, <2>1 DEF TypeOK, ReceiveSYNACK
<1>6. QED
  BY <1>4, <1>5 DEF ReceiveSYNACK

LEMMA TypeReceiveSYNFAIL ==
  ASSUME TypeOK, NEW m \in network, ReceiveSYNFAIL(m)
  PROVE  TypeOK'
<1> DEFINE k == m.key
           r == [records[k] EXCEPT !.fails = @ + 1]
<1>1. k \in Key
  BY PacketKey
<1>2. records[k] \in Record
  BY <1>1 DEF TypeOK
<1>3. r \in Record /\ records[k].buffer \in Kind
  BY <1>2 DEF Record
<1>4. ToOther(k, records[k].buffer) \subseteq Packet
  BY <1>1, <1>3, ToOtherPacket
<1>5. CASE Put(k, r) /\ Receive(m, "SYN-FAIL", ToOther(k, records[k].buffer))
  <2>1. records' \in [Key -> Record]
    BY <1>1, <1>3, <1>5, PutType
  <2>2. network' \subseteq Packet
    BY <1>4, <1>5, ReceiveType
  <2>3. QED
    BY <2>1, <2>2 DEF TypeOK, ReceiveSYNFAIL
<1>6. CASE UNCHANGED records /\ Receive(m, "SYN-FAIL", {})
  <2>1. network' \subseteq Packet
    BY <1>6, ReceiveType
  <2>2. QED
    BY <1>6, <2>1 DEF TypeOK, ReceiveSYNFAIL
<1>7. QED
  BY <1>5, <1>6 DEF ReceiveSYNFAIL

LEMMA TypeReceiveACK ==
  ASSUME TypeOK, NEW m \in network, ReceiveACK(m)
  PROVE  TypeOK'
<1> DEFINE k == m.key
<1>1. k \in Key /\ Mirror(k) \in Key
  BY PacketKey, MirrorKey
<1>2. CASE Remove(k) /\ Receive(m, "ACK", ToOther(k, "ACK-ACK"))
  <2>1. records' \in [Key -> Record] /\ life' \in [Peer -> Life]
    BY <1>1, <1>2, RemoveType
  <2>2. network' \subseteq Packet
    BY <1>1, <1>2, ReceiveType, ToOtherPacket DEF Kind
  <2>3. confirmed' \subseteq Key
    BY <1>1 DEF TypeOK, ReceiveACK
  <2>4. QED
    BY <2>1, <2>2, <2>3 DEF TypeOK, ReceiveACK
<1>3. CASE UNCHANGED <<records, life, confirmed>> /\ Receive(m, "ACK", {})
  <2>1. network' \subseteq Packet
    BY <1>3, ReceiveType
  <2>2. QED
    BY <1>3, <2>1 DEF TypeOK, ReceiveACK
<1>4. QED
  BY <1>2, <1>3 DEF ReceiveACK

LEMMA TypeReceiveACKACK ==
  ASSUME TypeOK, NEW m \in network, ReceiveACKACK(m)
  PROVE  TypeOK'
<1>1. network' \subseteq Packet
  BY ReceiveType DEF ReceiveACKACK
<1>2. records' \in [Key -> Record] /\ life' \in [Peer -> Life]
  <2>1. CASE Remove(m.key)
    BY <2>1, PacketKey, RemoveType
  <2>2. CASE UNCHANGED <<records, life>>
    BY <2>2 DEF TypeOK
  <2>3. QED
    BY <2>1, <2>2 DEF ReceiveACKACK
<1>3. QED
  BY <1>1, <1>2 DEF TypeOK, ReceiveACKACK

LEMMA TypeTimeout ==
  ASSUME TypeOK, NEW k \in Key, Timeout(k)
  PROVE  TypeOK'
<1> DEFINE r == records[k]
<1>1. r \in Record
  BY DEF TypeOK
<1>2. CASE /\ Remove(k)
           /\ outcome' = [outcome EXCEPT ![k] = IF r.status = 1 THEN "abandoned" ELSE @]
           /\ UNCHANGED network
  <2>1. records' \in [Key -> Record] /\ life' \in [Peer -> Life]
    BY <1>2, RemoveType
  <2>2. outcome' \in [Key -> Outcome]
    BY <1>2 DEF TypeOK, Outcome
  <2>3. QED
    BY <1>2, <2>1, <2>2 DEF TypeOK, Timeout
<1>3. CASE /\ Put(k, [r EXCEPT !.skipped = TRUE])
           /\ UNCHANGED <<life, outcome, network>>
  <2>1. [r EXCEPT !.skipped = TRUE] \in Record
    BY <1>1 DEF Record
  <2>2. records' \in [Key -> Record]
    BY <1>3, <2>1, PutType
  <2>3. QED
    BY <1>3, <2>2 DEF TypeOK, Timeout
<1>4. CASE /\ Put(k, [r EXCEPT !.fails = @ + 1])
           /\ network' = network \cup ToOther(k, r.buffer)
           /\ UNCHANGED <<life, outcome>>
  <2>1. [r EXCEPT !.fails = @ + 1] \in Record /\ r.buffer \in Kind
    BY <1>1 DEF Record
  <2>2. records' \in [Key -> Record]
    BY <1>4, <2>1, PutType
  <2>3. network' \subseteq Packet
    BY <1>4, <2>1, ToOtherPacket DEF TypeOK
  <2>4. QED
    BY <1>4, <2>2, <2>3 DEF TypeOK, Timeout
<1>5. QED
  BY <1>2, <1>3, <1>4 DEF Timeout

LEMMA TypeStep ==
  ASSUME TypeOK, [Next]_vars
  PROVE  TypeOK'
<1>1. ASSUME NEW p \in Sender, NEW q \in Peer, SendReliable(p, q) PROVE TypeOK'
  BY <1>1, TypeSendReliable
<1>2. ASSUME NEW m \in network,
             ReceiveSYNACK(m) \/ ReceiveSYNFAIL(m) \/ ReceiveACK(m) \/ ReceiveACKACK(m)
      PROVE  TypeOK'
  BY <1>2, TypeReceiveSYNACK, TypeReceiveSYNFAIL, TypeReceiveACK, TypeReceiveACKACK
<1>3. ASSUME NEW m \in network, Lose(m) PROVE TypeOK'
  BY <1>3 DEF Lose, TypeOK
<1>4. ASSUME NEW k \in Key, Timeout(k) PROVE TypeOK'
  BY <1>4, TypeTimeout
<1>5. ASSUME NEW p \in Peer, MarkPendingKill(p) PROVE TypeOK'
  BY <1>5 DEF MarkPendingKill, InHand, TypeOK, Life
<1>6. ASSUME NEW m \in SYN, ReceiveSYN(m) \/ RefuseSYN(m) PROVE TypeOK'
  BY <1>6, TypeReceiveSYN, TypeRefuseSYN
<1>7. CASE UNCHANGED vars
  BY <1>7 DEF vars, TypeOK
<1>8. QED
  BY <1>1, <1>2, <1>3, <1>4, <1>5, <1>6, <1>7 DEF Next

LEMMA InitType == Init => TypeOK
BY NoRecordIsRecord DEF Init, TypeOK, Life, Outcome, FirstMessageID

\* Every state of every handler is of its type: statuses, counters, packets, keys.
THEOREM TypeCorrect == Spec => []TypeOK
BY InitType, TypeStep, PTL DEF Spec
-----------------------------------------------------------------------------
(* The invariant is inductive.                                             *)

\* Steps that change the outcome of no message.
LEMMA SameOutcome ==
  ASSUME HandshakeInv, UNCHANGED <<outcome, lastID>>, delivered \subseteq delivered'
  PROVE  /\ Grows
         /\ \A k \in Key : OnlyOutcomeOf(k)
         /\ IDsInv'
         /\ AcknowledgedIsDelivered'
         /\ UntrackedOnlyByCollision'
<1>1. Grows /\ \A k \in Key : OnlyOutcomeOf(k)
  BY DEF Grows, OnlyOutcomeOf
<1>2. IDsInv' /\ AcknowledgedIsDelivered'
  BY DEF HandshakeInv, IDsInv, AcknowledgedIsDelivered
<1>3. UntrackedOnlyByCollision'
  BY DEF HandshakeInv, UntrackedOnlyByCollision, Mirror
<1>4. QED
  BY <1>1, <1>2, <1>3

\* Steps that change the outcome of message k, not back to unsent.
LEMMA NewOutcome ==
  ASSUME HandshakeInv, NEW k \in Key, NEW fate \in Outcome \ {"unsent"},
         outcome' = [outcome EXCEPT ![k] = fate],
         outcome[k] = "acknowledged" => fate = "acknowledged",
         fate = "acknowledged" => k \in delivered,
         fate = "untracked" => outcome[Mirror(k)] # "unsent",
         k[3] <= lastID'[k[1]],
         \A j \in Key : j[3] <= lastID[j[1]] => j[3] <= lastID'[j[1]],
         UNCHANGED delivered
  PROVE  /\ Grows
         /\ OnlyOutcomeOf(k)
         /\ outcome'[k] = fate
         /\ IDsInv'
         /\ AcknowledgedIsDelivered'
         /\ UntrackedOnlyByCollision'
<1>1. /\ outcome'[k] = fate
      /\ \A j \in Key \ {k} : outcome'[j] = outcome[j]
  BY DEF HandshakeInv, TypeOK
<1>2. Grows /\ OnlyOutcomeOf(k)
  BY <1>1 DEF Grows, OnlyOutcomeOf, Outcome
<1>3. IDsInv' /\ AcknowledgedIsDelivered'
  BY <1>1 DEF HandshakeInv, IDsInv, AcknowledgedIsDelivered
<1>4. UntrackedOnlyByCollision'
  <2>1. SUFFICES ASSUME NEW j \in Key, outcome'[j] = "untracked"
                 PROVE  outcome'[Mirror(j)] # "unsent"
    BY DEF UntrackedOnlyByCollision, Mirror
  <2>2. Mirror(j) \in Key
    BY MirrorKey
  <2>3. outcome[Mirror(j)] # "unsent"
    BY <1>1, <2>1 DEF HandshakeInv, UntrackedOnlyByCollision
  <2>4. QED
    BY <1>2, <2>2, <2>3 DEF Grows
<1>5. QED
  BY <1>1, <1>2, <1>3, <1>4

LEMMA KeepsPassed ==
  ASSUME TypeOK, PassedInv, Grows, passed' \subseteq passed
  PROVE  PassedInv'
<1>1. SUFFICES ASSUME NEW work \in passed', work.on = "arrival"
               PROVE  outcome'[Mirror(work.key)] # "unsent"
  BY DEF PassedInv
<1>2. work \in passed /\ work.key \in Key
  BY DEF TypeOK, Work
<1>3. Mirror(work.key) \in Key
  BY <1>2, MirrorKey
<1>4. QED
  BY <1>1, <1>2, <1>3 DEF PassedInv, Grows

\* Both kinds of SYN past the test were sent.
LEMMA ArrivedWasSent ==
  ASSUME TypeOK, NetworkInv, PassedInv, NEW m \in SYN, NEW sent, Arrives(m, sent)
  PROVE  outcome[Mirror(m.key)] # "unsent"
BY DEF SYN, Arrives, Passes, NetworkInv, Justified, PassedInv

LEMMA SameConfirmed ==
  ASSUME TypeOK, ConfirmedIsAcknowledged, Grows, UNCHANGED confirmed
  PROVE  ConfirmedIsAcknowledged'
BY DEF ConfirmedIsAcknowledged, Grows, TypeOK

LEMMA RemoveKeepsRecords ==
  ASSUME TypeOK, RecordsInv, Grows, NEW k \in Key, OnlyOutcomeOf(k), Remove(k)
  PROVE  RecordsInv'
<1>1. PICK r : r = NoRecord
  OBVIOUS
<1>2. RecordInv(k, r)'
  BY <1>1 DEF RecordInv, NoRecord
<1>3. Put(k, r)
  BY <1>1 DEF Remove
<1>4. QED
  BY <1>2, <1>3, PutKeepsRecords

LEMMA SameRecords ==
  ASSUME TypeOK, RecordsInv, Grows, UNCHANGED <<records, outcome>>
  PROVE  RecordsInv'
<1>1. SUFFICES ASSUME NEW j \in Key PROVE RecordInv(j, records[j])'
  BY DEF RecordsInv
<1>2. RecordInv(j, records[j])
  BY DEF RecordsInv
<1>3. Mirror(j) \in Key /\ Mirror(Mirror(j)) \in Key
  BY MirrorKey
<1>4. QED
  BY <1>2, <1>3 DEF RecordInv, Justified, Grows, Mirror
-----------------------------------------------------------------------------
(* One lemma per action.                                                   *)

LEMMA InvSendReliable ==
  ASSUME HandshakeInv, NEW p \in Sender, NEW q \in Peer, SendReliable(p, q)
  PROVE  HandshakeInv'
<1>1. PICK k : k = <<p, q, lastID[p] + 1>>
  OBVIOUS
<1>2. k \in Key /\ p \in Peer /\ lastID \in [Peer -> Nat]
  BY <1>1, DepartsType, SenderIsPeer DEF SendReliable, HandshakeInv, TypeOK
<1>3. k[1] = p /\ k[3] = lastID[p] + 1
  BY <1>1
<1>4. outcome[k] = "unsent"
  BY <1>2, <1>3 DEF HandshakeInv, IDsInv
<1>5. PICK fate \in {"pending", "untracked"} :
        /\ outcome' = [outcome EXCEPT ![k] = fate]
        /\ fate = "pending" <=> Obtainable(k, 0, TRUE)
  BY <1>1 DEF SendReliable
<1>6. RecordInv(k, records[k]) /\ Mirror(k) \in Key
  BY <1>2, MirrorKey DEF HandshakeInv, RecordsInv
<1>7. fate = "untracked" => outcome[Mirror(k)] # "unsent"
  <2>1. records[k] \in Record
    BY <1>2 DEF HandshakeInv, TypeOK
  <2>2. QED
    BY <1>4, <1>5, <1>6, <2>1 DEF Obtainable, Found, RecordInv, Record
<1>8. /\ Grows /\ OnlyOutcomeOf(k)
      /\ outcome'[k] = fate
      /\ IDsInv' /\ AcknowledgedIsDelivered' /\ UntrackedOnlyByCollision'
  <2>1. lastID' = [lastID EXCEPT ![p] = @ + 1]
    BY <1>1, <1>3, DepartsType DEF SendReliable, HandshakeInv
  <2>2. k[3] <= lastID'[k[1]]
    BY <1>2, <1>3, <2>1
  <2>3. ASSUME NEW j \in Key, j[3] <= lastID[j[1]] PROVE j[3] <= lastID'[j[1]]
    <3>1. j[1] \in Peer /\ j[3] \in Nat
      BY DEF Key, MessageID, FirstMessageID
    <3>2. QED
      BY <1>2, <2>1, <2>3, <3>1
  <2>4. UNCHANGED delivered
    BY DEF SendReliable
  <2>5. QED
    BY <1>2, <1>4, <1>5, <1>7, <2>2, <2>3, <2>4, NewOutcome DEF Outcome
<1>9. Justified("SYN", Mirror(k))'
  BY <1>2, <1>5, <1>8, MirrorKey DEF Justified
<1>10. RecordsInv' /\ PassedInv'
  <2>1. PICK r : /\ Put(k, r)
                 /\ \/ r = records[k] /\ fate = "untracked"
                    \/ /\ r = [Obtained(k, "SYN", TRUE) EXCEPT !.status = 1, !.fails = 0]
                       /\ fate = "pending"
    <3>1. CASE UNCHANGED records /\ fate = "untracked"
      BY <3>1 DEF Put, HandshakeInv, TypeOK
    <3>2. CASE fate = "pending"
      BY <1>1, <1>5, <3>2 DEF SendReliable
    <3>3. QED
      BY <1>1, <1>5, <3>1, <3>2 DEF SendReliable
  <2>2. RecordInv(k, r)'
    <3>1. CASE r = records[k]
      <4>1. \A kind : Justified(kind, Mirror(k)) => Justified(kind, Mirror(k))'
        BY <1>6, <1>8, JustifiedStable
      <4>2. outcome[Mirror(k)] # "unsent" => outcome'[Mirror(k)] # "unsent"
        BY <1>6, <1>8 DEF Grows
      <4>3. QED
        BY <1>4, <1>6, <3>1, <4>1, <4>2 DEF RecordInv, Mirror, Justified
    <3>2. CASE /\ r = [Obtained(k, "SYN", TRUE) EXCEPT !.status = 1, !.fails = 0]
               /\ fate = "pending"
      <4>1. TypeOK
        BY DEF HandshakeInv
      <4>2. r.buffer = "SYN" /\ r.status = 1
        <5>1. k \in Key
          BY <1>2
        <5>2. r = [Obtained(k, "SYN", TRUE) EXCEPT !.status = 1, !.fails = 0]
          BY <3>2
        <5>3. QED
          BY <4>1, <5>1, <5>2, ObtainedInTurn
      <4>3. outcome'[k] = "pending"
        BY <1>8, <3>2
      <4>4. QED
        BY <1>9, <4>2, <4>3 DEF RecordInv, Justified
    <3>3. QED
      BY <2>1, <3>1, <3>2
  <2>3. RecordsInv'
    BY <1>2, <1>8, <2>1, <2>2, PutKeepsRecords DEF HandshakeInv
  <2>4. PassedInv'
    BY <1>1, <1>8, DepartsType, KeepsPassed DEF HandshakeInv, SendReliable
  <2>5. QED
    BY <2>3, <2>4
<1>11. NetworkInv'
  <2>1. network' = network \cup ToOther(k, "SYN")
    BY <1>1, DepartsType DEF SendReliable, HandshakeInv
  <2>2. \A x \in ToOther(k, "SYN") : Justified(x.kind, x.key)'
    BY <1>2, <1>9, ToOtherJustified
  <2>3. QED
    BY <1>8, <2>1, <2>2, SendKeepsNetwork DEF HandshakeInv
<1>12. ConfirmedIsAcknowledged'
  BY <1>8, SameConfirmed DEF HandshakeInv, SendReliable
<1>13. TypeOK'
  BY TypeSendReliable DEF HandshakeInv
<1>14. QED
  BY <1>8, <1>10, <1>11, <1>12, <1>13 DEF HandshakeInv

LEMMA InvReceiveSYN ==
  ASSUME HandshakeInv, NEW m \in SYN, ReceiveSYN(m)
  PROVE  HandshakeInv'
<1>1. PICK k \in Key : k = m.key
  BY SynKey
<1>2. TypeOK /\ TypeOK' /\ RecordsInv /\ NetworkInv /\ PassedInv
      /\ ConfirmedIsAcknowledged
  BY TypeReceiveSYN DEF HandshakeInv
<1>3. /\ outcome[Mirror(k)] # "unsent"
      /\ passed' \subseteq passed
  <2>1. ToOther(k, "SYN-ACK") \subseteq Packet
    BY ToOtherPacket DEF Kind
  <2>2. QED
    BY <1>1, <1>2, <2>1, ArrivedWasSent, ArrivesType DEF ReceiveSYN
<1>4. /\ Grows /\ OnlyOutcomeOf(k)
      /\ IDsInv' /\ AcknowledgedIsDelivered' /\ UntrackedOnlyByCollision'
  BY SameOutcome DEF ReceiveSYN
<1>5. Mirror(k) \in Key /\ Mirror(Mirror(k)) = k
  BY MirrorKey
<1>6. outcome'[Mirror(k)] # "unsent" /\ Mirror(k) \in delivered'
  BY <1>1, <1>3 DEF ReceiveSYN
<1>7. Justified("SYN-ACK", Mirror(k))'
  BY <1>6 DEF Justified
<1>8. CASE /\ Put(k, [Obtained(k, "SYN-ACK", FALSE) EXCEPT !.status = 2, !.fails = 0])
           /\ Arrives(m, ToOther(k, "SYN-ACK"))
  <2>1. PICK r : r = [Obtained(k, "SYN-ACK", FALSE) EXCEPT !.status = 2, !.fails = 0]
    OBVIOUS
  <2>2. r.buffer = "SYN-ACK" /\ r.status = 2
    BY <1>2, <2>1, ObtainedInTurn
  <2>3. RecordInv(k, r)'
    BY <1>6, <1>7, <2>2 DEF RecordInv
  <2>4. Put(k, r)
    BY <1>8, <2>1
  <2>5. RecordsInv'
    BY <1>2, <1>4, <2>3, <2>4, PutKeepsRecords
  <2>6. PassedInv'
    BY <1>2, <1>3, <1>4, KeepsPassed
  <2>7. NetworkInv'
    BY <1>2, <1>4, <1>7, <1>8, ToOtherJustified, ArrivesType, ToOtherPacket, SendKeepsNetwork DEF Kind
  <2>8. ConfirmedIsAcknowledged'
    BY <1>2, <1>4, SameConfirmed DEF ReceiveSYN
  <2>9. QED
    BY <1>2, <1>4, <2>5, <2>6, <2>7, <2>8 DEF HandshakeInv
<1>9. CASE UNCHANGED records /\ Arrives(m, {})
  <2>1. NetworkInv'
    BY <1>2, <1>4, <1>9, ArrivesType, ToOtherPacket, SendKeepsNetwork
  <2>2. RecordsInv' /\ PassedInv' /\ ConfirmedIsAcknowledged'
    BY <1>2, <1>3, <1>4, <1>9, SameRecords, KeepsPassed, SameConfirmed DEF ReceiveSYN
  <2>3. QED
    BY <1>2, <1>4, <2>1, <2>2 DEF HandshakeInv
<1>10. QED
  BY <1>1, <1>8, <1>9 DEF ReceiveSYN
LEMMA InvRefuseSYN ==
  ASSUME HandshakeInv, NEW m \in SYN, RefuseSYN(m)
  PROVE  HandshakeInv'
<1>1. PICK k \in Key : k = m.key
  BY SynKey
<1>2. TypeOK /\ TypeOK' /\ RecordsInv /\ NetworkInv /\ PassedInv
      /\ ConfirmedIsAcknowledged
  BY TypeRefuseSYN DEF HandshakeInv
<1>3. /\ outcome[Mirror(k)] # "unsent"
      /\ passed' \subseteq passed
  <2>1. ToOther(k, "SYN-FAIL") \subseteq Packet
    BY ToOtherPacket DEF Kind
  <2>2. QED
    BY <1>1, <1>2, <2>1, ArrivedWasSent, ArrivesType DEF RefuseSYN
<1>4. /\ Grows /\ OnlyOutcomeOf(k)
      /\ IDsInv' /\ AcknowledgedIsDelivered' /\ UntrackedOnlyByCollision'
  BY SameOutcome DEF RefuseSYN
<1>5. outcome'[Mirror(k)] # "unsent"
  BY <1>1, <1>3 DEF RefuseSYN
<1>6. Justified("SYN-FAIL", Mirror(k))'
  BY DEF Justified
<1>7. CASE /\ Obtainable(k, 0, TRUE)
           /\ Put(k, [Obtained(k, "SYN-FAIL", FALSE) EXCEPT !.fails = 0])
           /\ Arrives(m, ToOther(k, "SYN-FAIL"))
  <2>1. PICK r : r = [Obtained(k, "SYN-FAIL", FALSE) EXCEPT !.fails = 0]
    OBVIOUS
  <2>2. r.buffer = "SYN-FAIL" /\ r.status = 0
    <3>1. /\ Obtained(k, "SYN-FAIL", FALSE) \in Record
          /\ Obtained(k, "SYN-FAIL", FALSE).buffer = "SYN-FAIL"
      BY <1>2, ObtainedRecord DEF Kind
    <3>2. Obtained(k, "SYN-FAIL", FALSE).status = 0
      <4>1. records[k] \in Record
        BY <1>2 DEF TypeOK
      <4>2. QED
        BY <1>7, <4>1 DEF Obtained, Obtainable, NoRecord, Record
    <3>3. QED
      BY <2>1, <3>1, <3>2 DEF Record
  <2>3. RecordInv(k, r)'
    BY <1>5, <1>6, <2>2 DEF RecordInv, Justified
  <2>4. Put(k, r)
    BY <1>7, <2>1
  <2>5. RecordsInv'
    BY <1>2, <1>4, <2>3, <2>4, PutKeepsRecords
  <2>6. PassedInv'
    BY <1>2, <1>3, <1>4, KeepsPassed
  <2>7. NetworkInv'
    BY <1>2, <1>4, <1>6, <1>7, ToOtherJustified, ArrivesType, ToOtherPacket, SendKeepsNetwork DEF Kind
  <2>8. ConfirmedIsAcknowledged'
    BY <1>2, <1>4, SameConfirmed DEF RefuseSYN
  <2>9. QED
    BY <1>2, <1>4, <2>5, <2>6, <2>7, <2>8 DEF HandshakeInv
<1>8. CASE UNCHANGED records /\ Arrives(m, {})
  <2>1. NetworkInv'
    BY <1>2, <1>4, <1>8, ArrivesType, ToOtherPacket, SendKeepsNetwork
  <2>2. RecordsInv' /\ PassedInv' /\ ConfirmedIsAcknowledged'
    BY <1>2, <1>3, <1>4, <1>8, SameRecords, KeepsPassed, SameConfirmed DEF RefuseSYN
  <2>3. QED
    BY <1>2, <1>4, <2>1, <2>2 DEF HandshakeInv
<1>9. QED
  BY <1>1, <1>7, <1>8 DEF RefuseSYN

LEMMA InvReceiveSYNACK ==
  ASSUME HandshakeInv, NEW m \in network, ReceiveSYNACK(m)
  PROVE  HandshakeInv'
<1>1. PICK k \in Key : k = m.key
  BY PacketKey DEF HandshakeInv
<1>2. TypeOK /\ TypeOK' /\ RecordsInv /\ NetworkInv /\ PassedInv
      /\ ConfirmedIsAcknowledged /\ IDsInv
  BY TypeReceiveSYNACK DEF HandshakeInv
<1>3. m.kind = "SYN-ACK" /\ k \in delivered
  BY <1>1, <1>2, ReceiveShrinks DEF ReceiveSYNACK, NetworkInv, Justified
<1>4. UNCHANGED <<lastID, life, passed, delivered, confirmed>>
  BY DEF ReceiveSYNACK
<1>5. Mirror(k) \in Key /\ Mirror(Mirror(k)) = k
  BY MirrorKey
<1>6. CASE /\ \E ensure \in {1, 3} : Obtainable(k, ensure, FALSE)
           /\ Put(k, [Obtained(k, "ACK", TRUE) EXCEPT !.status = 3, !.fails = 0])
           /\ outcome' = [outcome EXCEPT ![k] = "acknowledged"]
           /\ Receive(m, "SYN-ACK", ToOther(k, "ACK"))
  <2>1. Found(k) /\ outcome[k] \in {"pending", "acknowledged"}
    <3>1. records[k].status \in {1, 3} /\ Found(k)
      BY <1>6 DEF Obtainable
    <3>2. RecordInv(k, records[k])
      BY <1>2 DEF RecordsInv
    <3>3. QED
      BY <3>1, <3>2 DEF RecordInv, Found
  <2>2. /\ Grows /\ OnlyOutcomeOf(k)
        /\ outcome'[k] = "acknowledged"
        /\ IDsInv' /\ AcknowledgedIsDelivered' /\ UntrackedOnlyByCollision'
    <3>1. k[3] <= lastID'[k[1]]
      BY <1>2, <1>4, <2>1 DEF IDsInv
    <3>2. QED
      BY <1>3, <1>4, <1>6, <3>1, NewOutcome DEF Outcome
  <2>3. Justified("ACK", Mirror(k))'
    BY <1>5, <2>2 DEF Justified
  <2>4. PICK r : r = [Obtained(k, "ACK", TRUE) EXCEPT !.status = 3, !.fails = 0]
    OBVIOUS
  <2>5. r.buffer = "ACK" /\ r.status = 3
    BY <1>2, <2>4, ObtainedInTurn
  <2>6. RecordInv(k, r)'
    BY <2>2, <2>3, <2>5 DEF RecordInv, Justified
  <2>7. Put(k, r)
    BY <1>6, <2>4
  <2>8. RecordsInv' /\ PassedInv'
    BY <1>2, <1>4, <2>1, <2>2, <2>6, <2>7, PutKeepsRecords, KeepsPassed
  <2>9. NetworkInv'
    BY <1>2, <1>6, <2>2, <2>3, ToOtherJustified, ReceiveShrinks, SendKeepsNetwork
  <2>10. ConfirmedIsAcknowledged'
    BY <1>2, <1>4, <2>2, SameConfirmed
  <2>11. QED
    BY <1>2, <2>2, <2>8, <2>9, <2>10 DEF HandshakeInv
<1>7. CASE UNCHANGED <<records, outcome>> /\ Receive(m, "SYN-ACK", {})
  <2>1. /\ Grows
        /\ IDsInv' /\ AcknowledgedIsDelivered' /\ UntrackedOnlyByCollision'
    BY <1>4, <1>7, SameOutcome
  <2>2. NetworkInv'
    BY <1>2, <1>7, <2>1, ReceiveShrinks, SendKeepsNetwork
  <2>3. RecordsInv' /\ PassedInv' /\ ConfirmedIsAcknowledged'
    BY <1>2, <1>4, <1>7, <2>1, SameRecords, KeepsPassed, SameConfirmed
  <2>4. QED
    BY <1>2, <2>1, <2>2, <2>3 DEF HandshakeInv
<1>8. QED
  BY <1>1, <1>6, <1>7 DEF ReceiveSYNACK

LEMMA InvReceiveSYNFAIL ==
  ASSUME HandshakeInv, NEW m \in network, ReceiveSYNFAIL(m)
  PROVE  HandshakeInv'
<1>1. PICK k \in Key : k = m.key
  BY PacketKey DEF HandshakeInv
<1>2. TypeOK /\ TypeOK' /\ RecordsInv /\ NetworkInv /\ PassedInv
      /\ ConfirmedIsAcknowledged
  BY TypeReceiveSYNFAIL DEF HandshakeInv
<1>3. /\ Grows /\ OnlyOutcomeOf(k)
      /\ IDsInv' /\ AcknowledgedIsDelivered' /\ UntrackedOnlyByCollision'
  BY SameOutcome DEF ReceiveSYNFAIL
<1>4. ConfirmedIsAcknowledged'
  BY <1>2, <1>3, SameConfirmed DEF ReceiveSYNFAIL
<1>5. CASE /\ Obtainable(k, 1, FALSE)
           /\ Put(k, [records[k] EXCEPT !.fails = @ + 1])
           /\ Receive(m, "SYN-FAIL", ToOther(k, records[k].buffer))
  <2>1. PICK r, kind : /\ r = [records[k] EXCEPT !.fails = @ + 1]
                       /\ kind = records[k].buffer
    OBVIOUS
  <2>2. Found(k) /\ RecordInv(k, records[k]) /\ records[k] \in Record
    BY <1>2, <1>5 DEF Obtainable, RecordsInv, TypeOK
  <2>3. Mirror(k) \in Key /\ Justified(kind, Mirror(k))
    BY <2>1, <2>2, MirrorKey DEF RecordInv, Found
  <2>4. Justified(kind, Mirror(k))'
    BY <1>3, <2>3, JustifiedStable
  <2>5. r.status = records[k].status /\ r.buffer = kind
    BY <2>1, <2>2 DEF Record
  <2>6. UNCHANGED outcome
    BY DEF ReceiveSYNFAIL
  <2>7. RecordInv(k, r)'
    BY <2>2, <2>4, <2>5, <2>6 DEF RecordInv, Justified, Mirror
  <2>8. Put(k, r)
    BY <1>5, <2>1
  <2>9. RecordsInv'
    BY <1>2, <1>3, <2>7, <2>8, PutKeepsRecords
  <2>10. PassedInv'
    BY <1>2, <1>3, KeepsPassed DEF ReceiveSYNFAIL
  <2>11. NetworkInv'
    <3>1. network' \subseteq network \cup ToOther(k, kind)
      BY <1>5, <2>1, ReceiveShrinks
    <3>2. QED
      BY <1>2, <1>3, <2>4, <3>1, ToOtherJustified, SendKeepsNetwork
  <2>12. QED
    BY <1>2, <1>3, <1>4, <2>9, <2>10, <2>11 DEF HandshakeInv
<1>6. CASE UNCHANGED records /\ Receive(m, "SYN-FAIL", {})
  <2>1. NetworkInv'
    BY <1>2, <1>3, <1>6, ReceiveShrinks, SendKeepsNetwork
  <2>2. RecordsInv' /\ PassedInv'
    BY <1>2, <1>3, <1>6, SameRecords, KeepsPassed DEF ReceiveSYNFAIL
  <2>3. QED
    BY <1>2, <1>3, <1>4, <2>1, <2>2 DEF HandshakeInv
<1>7. QED
  BY <1>1, <1>5, <1>6 DEF ReceiveSYNFAIL
LEMMA InvReceiveACK ==
  ASSUME HandshakeInv, NEW m \in network, ReceiveACK(m)
  PROVE  HandshakeInv'
<1>1. PICK k \in Key : k = m.key
  BY PacketKey DEF HandshakeInv
<1>2. TypeOK /\ TypeOK' /\ RecordsInv /\ NetworkInv /\ PassedInv
      /\ ConfirmedIsAcknowledged
  BY TypeReceiveACK DEF HandshakeInv
<1>3. /\ Grows /\ OnlyOutcomeOf(k)
      /\ IDsInv' /\ AcknowledgedIsDelivered' /\ UntrackedOnlyByCollision'
  BY SameOutcome DEF ReceiveACK
<1>4. CASE /\ Receive(m, "ACK", ToOther(k, "ACK-ACK"))
           /\ Remove(k)
           /\ confirmed' = confirmed \cup {Mirror(k)}
  <2>1. RecordsInv' /\ PassedInv'
    BY <1>2, <1>3, <1>4, RemoveKeepsRecords, KeepsPassed DEF ReceiveACK
  <2>2. NetworkInv'
    <3>1. Justified("ACK-ACK", Mirror(k))'
      BY DEF Justified
    <3>2. QED
      BY <1>2, <1>3, <1>4, <3>1, ToOtherJustified, ReceiveShrinks, SendKeepsNetwork
  <2>3. ConfirmedIsAcknowledged'
    <3>1. outcome[Mirror(k)] = "acknowledged"
      BY <1>1, <1>2, <1>4, ReceiveShrinks DEF NetworkInv, Justified
    <3>2. UNCHANGED outcome
      BY DEF ReceiveACK
    <3>3. QED
      BY <1>2, <1>4, <3>1, <3>2 DEF ConfirmedIsAcknowledged
  <2>4. QED
    BY <1>2, <1>3, <2>1, <2>2, <2>3 DEF HandshakeInv
<1>5. CASE UNCHANGED <<records, life, confirmed>> /\ Receive(m, "ACK", {})
  <2>1. NetworkInv'
    BY <1>2, <1>3, <1>5, ReceiveShrinks, SendKeepsNetwork
  <2>2. RecordsInv' /\ PassedInv' /\ ConfirmedIsAcknowledged'
    BY <1>2, <1>3, <1>5, SameRecords, KeepsPassed, SameConfirmed DEF ReceiveACK
  <2>3. QED
    BY <1>2, <1>3, <2>1, <2>2 DEF HandshakeInv
<1>6. QED
  BY <1>1, <1>4, <1>5 DEF ReceiveACK

LEMMA InvReceiveACKACK ==
  ASSUME HandshakeInv, NEW m \in network, ReceiveACKACK(m)
  PROVE  HandshakeInv'
<1>1. PICK k \in Key : k = m.key
  BY PacketKey DEF HandshakeInv
<1>2. TypeOK /\ TypeOK' /\ RecordsInv /\ NetworkInv /\ PassedInv
      /\ ConfirmedIsAcknowledged
  BY TypeReceiveACKACK DEF HandshakeInv
<1>3. /\ Grows /\ OnlyOutcomeOf(k)
      /\ IDsInv' /\ AcknowledgedIsDelivered' /\ UntrackedOnlyByCollision'
  BY SameOutcome DEF ReceiveACKACK
<1>4. NetworkInv'
  <2>1. network' \subseteq network
    BY DEF ReceiveACKACK, Receive
  <2>2. QED
    BY <1>2, <1>3, <2>1, QuietKeepsNetwork
<1>5. RecordsInv' /\ PassedInv'
  <2>1. CASE Remove(k)
    BY <1>2, <1>3, <2>1, RemoveKeepsRecords, KeepsPassed DEF ReceiveACKACK
  <2>2. CASE UNCHANGED <<records, life>>
    BY <1>2, <1>3, <2>2, SameRecords, KeepsPassed DEF ReceiveACKACK
  <2>3. QED
    BY <1>1, <2>1, <2>2 DEF ReceiveACKACK
<1>6. ConfirmedIsAcknowledged'
  BY <1>2, <1>3, SameConfirmed DEF ReceiveACKACK
<1>7. QED
  BY <1>2, <1>3, <1>4, <1>5, <1>6 DEF HandshakeInv

LEMMA InvTimeout ==
  ASSUME HandshakeInv, NEW k \in Key, Timeout(k)
  PROVE  HandshakeInv'
<1>1. TypeOK /\ TypeOK' /\ RecordsInv /\ NetworkInv /\ PassedInv
      /\ ConfirmedIsAcknowledged /\ IDsInv /\ AcknowledgedIsDelivered
      /\ UntrackedOnlyByCollision
  BY TypeTimeout DEF HandshakeInv
<1>2. /\ UNCHANGED <<lastID, passed, delivered, confirmed>>
      /\ Found(k) /\ records[k] \in Record /\ RecordInv(k, records[k])
  BY <1>1 DEF Timeout, TypeOK, RecordsInv
<1>3. CASE /\ Remove(k)
           /\ outcome' = [outcome EXCEPT ![k] = IF records[k].status = 1 THEN "abandoned" ELSE @]
           /\ UNCHANGED network
  <2>1. /\ Grows /\ OnlyOutcomeOf(k)
        /\ IDsInv' /\ AcknowledgedIsDelivered' /\ UntrackedOnlyByCollision'
    <3>1. CASE records[k].status = 1
      <4>1. outcome[k] = "pending"
        BY <1>2, <3>1 DEF RecordInv, NotFound
      <4>2. k[3] <= lastID'[k[1]]
        BY <1>1, <1>2, <4>1 DEF IDsInv
      <4>3. outcome' = [outcome EXCEPT ![k] = "abandoned"]
        BY <1>3, <3>1
      <4>4. QED
        BY <1>2, <4>1, <4>2, <4>3, NewOutcome DEF Outcome
    <3>2. CASE records[k].status # 1
      <4>1. UNCHANGED outcome
        BY <1>1, <1>3, <3>2 DEF TypeOK
      <4>2. QED
        BY <1>2, <4>1, SameOutcome
    <3>3. QED
      BY <3>1, <3>2
  <2>2. RecordsInv' /\ PassedInv'
    BY <1>1, <1>2, <1>3, <2>1, RemoveKeepsRecords, KeepsPassed
  <2>3. NetworkInv'
    BY <1>1, <1>3, <2>1, QuietKeepsNetwork
  <2>4. ConfirmedIsAcknowledged'
    BY <1>1, <1>2, <2>1, SameConfirmed
  <2>5. QED
    BY <1>1, <2>1, <2>2, <2>3, <2>4 DEF HandshakeInv
<1>4. CASE /\ UNCHANGED <<life, outcome>>
           /\ \/ /\ Put(k, [records[k] EXCEPT !.skipped = TRUE])
                 /\ UNCHANGED network
              \/ /\ Put(k, [records[k] EXCEPT !.fails = @ + 1])
                 /\ network' = network \cup ToOther(k, records[k].buffer)
  <2>1. /\ Grows /\ OnlyOutcomeOf(k)
        /\ IDsInv' /\ AcknowledgedIsDelivered' /\ UntrackedOnlyByCollision'
    BY <1>2, <1>4, SameOutcome
  <2>2. PICK r, kind :
          /\ Put(k, r)
          /\ kind = records[k].buffer
          /\ \/ r = [records[k] EXCEPT !.skipped = TRUE]
             \/ r = [records[k] EXCEPT !.fails = @ + 1]
    BY <1>4
  <2>3. r.status = records[k].status /\ r.buffer = kind
    BY <1>2, <2>2 DEF Record
  <2>4. Mirror(k) \in Key /\ Justified(kind, Mirror(k))
    BY <1>2, <2>2, MirrorKey DEF RecordInv, Found
  <2>5. Justified(kind, Mirror(k))'
    BY <2>1, <2>4, JustifiedStable
  <2>6. RecordInv(k, r)'
    BY <1>2, <1>4, <2>3, <2>5 DEF RecordInv, Justified, Mirror
  <2>7. RecordsInv' /\ PassedInv'
    BY <1>1, <1>2, <1>4, <2>1, <2>2, <2>6, PutKeepsRecords, KeepsPassed
  <2>8. NetworkInv'
    <3>1. network' \subseteq network \cup ToOther(k, kind)
      BY <1>4, <2>2
    <3>2. QED
      BY <1>1, <2>1, <2>5, <3>1, ToOtherJustified, SendKeepsNetwork
  <2>9. ConfirmedIsAcknowledged'
    BY <1>1, <1>2, <2>1, SameConfirmed
  <2>10. QED
    BY <1>1, <2>1, <2>7, <2>8, <2>9 DEF HandshakeInv
<1>5. QED
  BY <1>3, <1>4 DEF Timeout

LEMMA InvLose ==
  ASSUME HandshakeInv, NEW m \in network, Lose(m)
  PROVE  HandshakeInv'
<1>1. TypeOK /\ RecordsInv /\ NetworkInv /\ PassedInv /\ ConfirmedIsAcknowledged
  BY DEF HandshakeInv
<1>2. /\ UNCHANGED <<records, lastID, life, passed, outcome, delivered, confirmed>>
      /\ network' \subseteq network
  BY DEF Lose
<1>3. /\ Grows
      /\ IDsInv' /\ AcknowledgedIsDelivered' /\ UntrackedOnlyByCollision'
  BY <1>2, SameOutcome
<1>4. NetworkInv' /\ TypeOK'
  BY <1>1, <1>2, <1>3, QuietKeepsNetwork DEF TypeOK
<1>5. RecordsInv' /\ PassedInv' /\ ConfirmedIsAcknowledged'
  BY <1>1, <1>2, <1>3, SameRecords, KeepsPassed, SameConfirmed
<1>6. QED
  BY <1>3, <1>4, <1>5 DEF HandshakeInv

LEMMA InvMarkPendingKill ==
  ASSUME HandshakeInv, NEW p \in Peer, MarkPendingKill(p)
  PROVE  HandshakeInv'
<1>1. TypeOK /\ RecordsInv /\ NetworkInv /\ PassedInv /\ ConfirmedIsAcknowledged
  BY DEF HandshakeInv
<1>2. UNCHANGED <<records, lastID, network, outcome, delivered, confirmed>>
  BY DEF MarkPendingKill
<1>3. /\ Grows
      /\ IDsInv' /\ AcknowledgedIsDelivered' /\ UntrackedOnlyByCollision'
  BY <1>2, SameOutcome
<1>4. NetworkInv'
  BY <1>1, <1>2, <1>3, QuietKeepsNetwork
<1>5. RecordsInv' /\ ConfirmedIsAcknowledged'
  BY <1>1, <1>2, <1>3, SameRecords, SameConfirmed
<1>6. PassedInv'
  <2>1. SUFFICES ASSUME NEW work \in passed', work.on = "arrival"
                 PROVE  outcome[Mirror(work.key)] # "unsent"
    BY <1>2 DEF PassedInv, Mirror
  <2>2. CASE work \in passed
    BY <1>1, <2>1, <2>2 DEF PassedInv
  <2>3. CASE work \in InHand(p)
    BY <1>1, <2>1, <2>3 DEF InHand, NetworkInv, Justified
  <2>4. QED
    BY <2>1, <2>2, <2>3 DEF MarkPendingKill
<1>7. TypeOK'
  BY <1>1 DEF MarkPendingKill, InHand, TypeOK, Life
<1>8. QED
  BY <1>3, <1>4, <1>5, <1>6, <1>7 DEF HandshakeInv
-----------------------------------------------------------------------------
(* The theorems.                                                           *)

LEMMA InitInv == Init => HandshakeInv
<1>1. ASSUME Init PROVE HandshakeInv
  <2>1. TypeOK
    BY <1>1, InitType
  <2>2. NetworkInv /\ RecordsInv /\ IDsInv
    BY <1>1 DEF Init, NetworkInv, RecordsInv, RecordInv, NoRecord, IDsInv
  <2>3. /\ AcknowledgedIsDelivered /\ ConfirmedIsAcknowledged
        /\ UntrackedOnlyByCollision /\ PassedInv
    BY <1>1 DEF Init, AcknowledgedIsDelivered, ConfirmedIsAcknowledged,
       UntrackedOnlyByCollision, PassedInv
  <2>4. QED
    BY <2>1, <2>2, <2>3 DEF HandshakeInv
<1>2. QED
  BY <1>1

LEMMA InvStep == HandshakeInv /\ [Next]_vars => HandshakeInv'
<1>1. SUFFICES ASSUME HandshakeInv, [Next]_vars PROVE HandshakeInv'
  OBVIOUS
<1>2. ASSUME NEW p \in Sender, NEW q \in Peer, SendReliable(p, q) PROVE HandshakeInv'
  BY <1>1, <1>2, InvSendReliable
<1>3. ASSUME NEW m \in SYN, ReceiveSYN(m) PROVE HandshakeInv'
  BY <1>1, <1>3, InvReceiveSYN
<1>4. ASSUME NEW m \in SYN, RefuseSYN(m) PROVE HandshakeInv'
  BY <1>1, <1>4, InvRefuseSYN
<1>5. ASSUME NEW m \in network, ReceiveSYNACK(m) PROVE HandshakeInv'
  BY <1>1, <1>5, InvReceiveSYNACK
<1>6. ASSUME NEW m \in network, ReceiveSYNFAIL(m) PROVE HandshakeInv'
  BY <1>1, <1>6, InvReceiveSYNFAIL
<1>7. ASSUME NEW m \in network, ReceiveACK(m) PROVE HandshakeInv'
  BY <1>1, <1>7, InvReceiveACK
<1>8. ASSUME NEW m \in network, ReceiveACKACK(m) PROVE HandshakeInv'
  BY <1>1, <1>8, InvReceiveACKACK
<1>9. ASSUME NEW m \in network, Lose(m) PROVE HandshakeInv'
  BY <1>1, <1>9, InvLose
<1>10. ASSUME NEW k \in Key, Timeout(k) PROVE HandshakeInv'
  BY <1>1, <1>10, InvTimeout
<1>11. ASSUME NEW p \in Peer, MarkPendingKill(p) PROVE HandshakeInv'
  BY <1>1, <1>11, InvMarkPendingKill
<1>12. CASE UNCHANGED vars
  BY <1>1, <1>12 DEF vars, HandshakeInv, TypeOK, NetworkInv, RecordsInv, RecordInv,
     Justified, Mirror, IDsInv, AcknowledgedIsDelivered, ConfirmedIsAcknowledged,
     UntrackedOnlyByCollision, PassedInv
<1>13. QED
  BY <1>1, <1>2, <1>3, <1>4, <1>5, <1>6, <1>7, <1>8, <1>9, <1>10, <1>11, <1>12 DEF Next

\* Packets, buffers and records are justified by what happened, in every state.
THEOREM Invariance == Spec => []HandshakeInv
BY InitInv, InvStep, PTL DEF Spec

\* A message whose sender reached status 3 has been delivered.
THEOREM AcknowledgementIsSound == Spec => []AcknowledgedIsDelivered
BY Invariance, PTL DEF HandshakeInv

\* A receiver that closed its case on an ACK agrees with the sender.
THEOREM ConfirmationIsSound == Spec => []ConfirmedIsAcknowledged
BY Invariance, PTL DEF HandshakeInv

\* A message is untracked only when its ID was used in the other direction.
THEOREM TrackingIsLostOnlyByCollision == Spec => []UntrackedOnlyByCollision
BY Invariance, PTL DEF HandshakeInv

-----------------------------------------------------------------------------
(* The end of a handler.                                                   *)

\* A handler that has called back, with nobody past the test of bPendingKill and no record.
Quiet(p) ==
  /\ life[p] = "readyToDie"
  /\ \A work \in passed : work.key[1] # p
  /\ \A k \in Key : k[1] = p => ~Found(k)

LEMMA KeepsQuiet ==
  ASSUME NEW p \in Peer, Quiet(p), life'[p] = life[p],
         \A work \in passed' : work \in passed \/ work.key[1] # p,
         \A k \in Key : k[1] = p => records'[k] \in {records[k], NoRecord}
  PROVE  Quiet(p)'
BY DEF Quiet, Found, NoRecord

LEMMA PutElsewhere ==
  ASSUME TypeOK, NEW p \in Peer, NEW k \in Key, NEW r, Put(k, r), k[1] # p
  PROVE  \A j \in Key : j[1] = p => records'[j] = records[j]
BY DEF Put, TypeOK

LEMMA RemoveIsQuiet ==
  ASSUME TypeOK, NEW p \in Peer, Quiet(p), NEW k \in Key, Remove(k)
  PROVE  /\ life'[p] = life[p]
         /\ \A j \in Key : j[1] = p => records'[j] \in {records[j], NoRecord}
<1>1. life'[p] = life[p]
  BY DEF Remove, TypeOK, Quiet
<1>2. records' = [records EXCEPT ![k] = NoRecord]
  BY DEF Remove, Put
<1>3. QED
  BY <1>1, <1>2 DEF TypeOK

\* Who is past the test is not in a quiet handler.
LEMMA QuietDeparts ==
  ASSUME NEW p \in Peer, Quiet(p), NEW k, Departs(k)
  PROVE  k \in Key /\ k[1] # p /\ passed' \subseteq passed
BY DEF Quiet, Departs, Passes

LEMMA QuietArrives ==
  ASSUME NEW p \in Peer, Quiet(p), NEW m \in SYN, NEW sent, Arrives(m, sent)
  PROVE  m.key \in Key /\ m.key[1] # p /\ passed' \subseteq passed
BY DEF Quiet, SYN, Arrives, Passes

LEMMA QuietStep ==
  ASSUME TypeOK, [Next]_vars, NEW p \in Peer, Quiet(p)
  PROVE  Quiet(p)'
<1>1. ASSUME NEW s \in Sender, NEW q \in Peer, SendReliable(s, q) PROVE Quiet(p)'
  <2>1. PICK k : Departs(k) /\ (UNCHANGED records \/ \E r : Put(k, r))
    BY <1>1 DEF SendReliable
  <2>2. k \in Key /\ k[1] # p /\ passed' \subseteq passed
    BY <2>1, QuietDeparts
  <2>3. \A j \in Key : j[1] = p => records'[j] = records[j]
    BY <2>1, <2>2, PutElsewhere
  <2>4. QED
    BY <1>1, <2>2, <2>3, KeepsQuiet DEF SendReliable
<1>2. ASSUME NEW m \in SYN, ReceiveSYN(m) \/ RefuseSYN(m) PROVE Quiet(p)'
  <2>1. /\ \E sent : Arrives(m, sent)
        /\ UNCHANGED records \/ \E r : Put(m.key, r)
        /\ UNCHANGED life
    BY <1>2 DEF ReceiveSYN, RefuseSYN
  <2>2. m.key \in Key /\ m.key[1] # p /\ passed' \subseteq passed
    BY <2>1, QuietArrives
  <2>3. \A j \in Key : j[1] = p => records'[j] = records[j]
    BY <2>1, <2>2, PutElsewhere
  <2>4. QED
    BY <2>1, <2>2, <2>3, KeepsQuiet
<1>3. ASSUME NEW m \in network, ReceiveSYNACK(m) \/ ReceiveSYNFAIL(m) PROVE Quiet(p)'
  <2>1. /\ UNCHANGED records \/ (Found(m.key) /\ \E r : Put(m.key, r))
        /\ UNCHANGED <<life, passed>>
    BY <1>3 DEF ReceiveSYNACK, ReceiveSYNFAIL, Obtainable
  <2>2. m.key \in Key
    BY PacketKey
  <2>3. \A j \in Key : j[1] = p => records'[j] = records[j]
    BY <2>1, <2>2, PutElsewhere DEF Quiet
  <2>4. QED
    BY <2>1, <2>3, KeepsQuiet
<1>4. ASSUME NEW m \in network, ReceiveACK(m) \/ ReceiveACKACK(m) PROVE Quiet(p)'
  <2>1. /\ UNCHANGED <<records, life>> \/ Remove(m.key)
        /\ UNCHANGED passed
    BY <1>4 DEF ReceiveACK, ReceiveACKACK
  <2>2. m.key \in Key
    BY PacketKey
  <2>3. QED
    BY <2>1, <2>2, RemoveIsQuiet, KeepsQuiet
<1>5. ASSUME NEW k \in Key, Timeout(k) PROVE Quiet(p)'
  <2>1. Found(k) /\ UNCHANGED passed
    BY <1>5 DEF Timeout
  <2>2. CASE Remove(k)
    BY <2>1, <2>2, RemoveIsQuiet, KeepsQuiet
  <2>3. CASE UNCHANGED life /\ \E r : Put(k, r)
    <3>1. \A j \in Key : j[1] = p => records'[j] = records[j]
      BY <2>1, <2>3, PutElsewhere DEF Quiet
    <3>2. QED
      BY <2>1, <2>3, <3>1, KeepsQuiet
  <2>4. QED
    BY <1>5, <2>2, <2>3 DEF Timeout
<1>6. ASSUME NEW s \in Peer, MarkPendingKill(s) PROVE Quiet(p)'
  <2>1. s # p
    BY <1>6 DEF MarkPendingKill, Quiet
  <2>2. life'[p] = life[p] /\ UNCHANGED records
    BY <1>6, <2>1 DEF MarkPendingKill, TypeOK
  <2>3. \A work \in passed' : work \in passed \/ work.key[1] = s
    BY <1>6 DEF MarkPendingKill, InHand
  <2>4. QED
    BY <2>1, <2>2, <2>3, KeepsQuiet
<1>7. ASSUME NEW m \in network, Lose(m) PROVE Quiet(p)'
  BY <1>7, KeepsQuiet DEF Lose
<1>8. CASE UNCHANGED vars
  BY <1>8, KeepsQuiet DEF vars
<1>9. QED
  BY <1>1, <1>2, <1>3, <1>4, <1>5, <1>6, <1>7, <1>8 DEF Next

\* Once a handler has called back, the threads that were past the test of bPendingKill are
\* done and its map is empty, no packet, no message and no timeout gives it a record again:
\* deleting it would be safe from then on, and not before.
QuietHandlerStaysQuiet == [][\A p \in Peer : Quiet(p) => Quiet(p)']_vars

THEOREM QuietHandlerIsSafeToDelete == Spec => QuietHandlerStaysQuiet
<1>1. TypeOK /\ [Next]_vars => [\A p \in Peer : Quiet(p) => Quiet(p)']_vars
  BY QuietStep
<1>2. QED
  BY <1>1, TypeCorrect, PTL DEF Spec, QuietHandlerStaysQuiet
-----------------------------------------------------------------------------
(* The handshake implements ReliableDelivery.                              *)

LEMMA StepSendReliable ==
  ASSUME HandshakeInv, NEW p \in Sender, NEW q \in Peer, SendReliable(p, q)
  PROVE  Delivery!Next
<1>1. PICK k : k = <<p, q, lastID[p] + 1>>
  OBVIOUS
<1>2. k \in Key /\ p \in Peer
  BY <1>1, DepartsType, SenderIsPeer DEF SendReliable, HandshakeInv
<1>3. outcome[k] = "unsent"
  <2>1. k[1] = p /\ k[3] = lastID[p] + 1 /\ lastID[p] \in Nat
    BY <1>1, <1>2 DEF HandshakeInv, TypeOK
  <2>2. QED
    BY <1>2, <2>1 DEF HandshakeInv, IDsInv
<1>4. \E fate \in {"pending", "untracked"} : outcome' = [outcome EXCEPT ![k] = fate]
  BY <1>1 DEF SendReliable
<1>5. UNCHANGED delivered
  BY DEF SendReliable
<1>6. QED
  BY <1>2, <1>3, <1>4, <1>5 DEF Delivery!Next, Delivery!Send

LEMMA StepReceiveSYN ==
  ASSUME HandshakeInv, NEW m \in SYN, ReceiveSYN(m)
  PROVE  Delivery!Next
<1>1. PICK k \in Key : k = m.key
  BY SynKey
<1>2. PICK sent : Arrives(m, sent)
  BY DEF ReceiveSYN
<1>3. Mirror(k) \in Key /\ outcome[Mirror(k)] # "unsent"
  BY <1>1, <1>2, MirrorKey, ArrivedWasSent DEF HandshakeInv
<1>4. delivered' = delivered \cup {Mirror(k)} /\ UNCHANGED outcome
  BY <1>1 DEF ReceiveSYN
<1>5. QED
  BY <1>3, <1>4 DEF Delivery!Next, Delivery!Deliver

LEMMA StepReceiveSYNACK ==
  ASSUME HandshakeInv, NEW m \in network, ReceiveSYNACK(m)
  PROVE  Delivery!Next \/ UNCHANGED <<outcome, delivered>>
<1>1. PICK k \in Key : k = m.key
  BY PacketKey DEF HandshakeInv
<1>2. m.kind = "SYN-ACK" /\ UNCHANGED delivered
  BY ReceiveShrinks DEF ReceiveSYNACK
<1>3. k \in delivered
  BY <1>1, <1>2 DEF HandshakeInv, NetworkInv, Justified
<1>4. CASE /\ outcome' = [outcome EXCEPT ![k] = "acknowledged"]
           /\ \E ensure \in {1, 3} : Obtainable(k, ensure, FALSE)
  <2>1. Found(k) /\ records[k].status \in {1, 3}
    BY <1>4 DEF Obtainable
  <2>2. outcome[k] \in {"pending", "acknowledged"}
    BY <2>1 DEF HandshakeInv, RecordsInv, RecordInv, Found
  <2>3. CASE outcome[k] = "pending"
    BY <1>2, <1>3, <1>4, <2>3 DEF Delivery!Next, Delivery!Acknowledge
  <2>4. CASE outcome[k] = "acknowledged"
    BY <1>2, <1>4, <2>4 DEF HandshakeInv, TypeOK
  <2>5. QED
    BY <2>2, <2>3, <2>4
<1>5. CASE UNCHANGED outcome
  BY <1>2, <1>5
<1>6. QED
  BY <1>1, <1>4, <1>5 DEF ReceiveSYNACK

LEMMA StepTimeout ==
  ASSUME HandshakeInv, NEW k \in Key, Timeout(k)
  PROVE  Delivery!Next \/ UNCHANGED <<outcome, delivered>>
<1>1. UNCHANGED delivered /\ Found(k)
  BY DEF Timeout
<1>2. CASE outcome' = [outcome EXCEPT ![k] = IF records[k].status = 1 THEN "abandoned" ELSE @]
  <2>1. CASE records[k].status = 1
    <3>1. outcome[k] = "pending"
      BY <1>1, <2>1 DEF HandshakeInv, RecordsInv, RecordInv, Found
    <3>2. outcome' = [outcome EXCEPT ![k] = "abandoned"]
      BY <1>2, <2>1
    <3>3. QED
      BY <1>1, <3>1, <3>2 DEF Delivery!Next, Delivery!Abandon
  <2>2. CASE records[k].status # 1
    BY <1>1, <1>2, <2>2 DEF HandshakeInv, TypeOK
  <2>3. QED
    BY <2>1, <2>2
<1>3. CASE UNCHANGED outcome
  BY <1>1, <1>3
<1>4. QED
  BY <1>2, <1>3 DEF Timeout

LEMMA DeliveryStep ==
  HandshakeInv /\ [Next]_vars => [Delivery!Next]_(Delivery!vars)
<1>1. SUFFICES ASSUME HandshakeInv, [Next]_vars
               PROVE  Delivery!Next \/ UNCHANGED <<outcome, delivered>>
  BY DEF Delivery!vars
<1>2. ASSUME NEW p \in Sender, NEW q \in Peer, SendReliable(p, q) PROVE Delivery!Next
  BY <1>1, <1>2, StepSendReliable
<1>3. ASSUME NEW m \in SYN, ReceiveSYN(m) PROVE Delivery!Next
  BY <1>1, <1>3, StepReceiveSYN
<1>4. ASSUME NEW m \in network, ReceiveSYNACK(m)
      PROVE  Delivery!Next \/ UNCHANGED <<outcome, delivered>>
  BY <1>1, <1>4, StepReceiveSYNACK
<1>5. ASSUME NEW k \in Key, Timeout(k)
      PROVE  Delivery!Next \/ UNCHANGED <<outcome, delivered>>
  BY <1>1, <1>5, StepTimeout
<1>6. ASSUME NEW m \in network,
             ReceiveSYNFAIL(m) \/ ReceiveACK(m) \/ ReceiveACKACK(m) \/ Lose(m)
      PROVE  UNCHANGED <<outcome, delivered>>
  BY <1>6 DEF ReceiveSYNFAIL, ReceiveACK, ReceiveACKACK, Lose
<1>7. ASSUME NEW p \in Peer, MarkPendingKill(p) PROVE UNCHANGED <<outcome, delivered>>
  BY <1>7 DEF MarkPendingKill
<1>8. ASSUME NEW m \in SYN, RefuseSYN(m) PROVE UNCHANGED <<outcome, delivered>>
  BY <1>8 DEF RefuseSYN
<1>9. CASE UNCHANGED vars
  BY <1>9 DEF vars
<1>10. QED
  BY <1>1, <1>2, <1>3, <1>4, <1>5, <1>6, <1>7, <1>8, <1>9 DEF Next

\* Whatever is lost, duplicated, reordered or refused, and whoever is killed, what the
\* two ends do to a message is what ReliableDelivery allows.
THEOREM HandshakeImplementsDelivery == Spec => ImplementsDelivery
<1>1. Init => Delivery!Init
  BY DEF Init, Delivery!Init
<1>2. HandshakeInv /\ [Next]_vars => [Delivery!Next]_(Delivery!vars)
  BY DeliveryStep
<1>3. QED
  BY <1>1, <1>2, Invariance, PTL DEF Spec, ImplementsDelivery, Delivery!Spec
=============================================================================
