------------------------- MODULE TimestampOrderProofs -------------------------
(***************************************************************************)
(* Theorems about TimestampOrder, for any number of threads, packets and   *)
(* records and any end of the counter: messages of one sender are taken in *)
(* the order of their timestamps, and one that is refused was overtaken.   *)
(***************************************************************************)
EXTENDS TimestampOrder, FiniteSetTheorems, TLAPS

\* Packets are numbered as they are sent; the bound leaves a number to each that is being made.
NetworkInv ==
  /\ IsFiniteSet(network)
  /\ IsFiniteSet(Busy)
  /\ Cardinality(network) + Cardinality(Busy) <= MaxSent
  /\ \A p \in network : p.seq <= Cardinality(network)
  /\ \A p \in network, q \in network : p.seq = q.seq => p = q

\* One thread at a time stamps in the order in which packets are sent, and does not stamp at
\* the end of the counter.
StampInv ==
  sendersRaced \/
    /\ \A s \in Busy, u \in Busy : s = u
    /\ \A s \in Busy : generated = Top => sending[s].ignore
    /\ \A p \in network : ~p.ignore => p.timestamp \in 1..generated
    /\ \A p \in network, q \in network :
         ~p.ignore /\ ~q.ignore /\ p.seq < q.seq => p.timestamp < q.timestamp

AtWork == {h \in Handler : handling[h] # NotHandling}

\* What the tasks have was sent, and looked up.
HandlingInv ==
  /\ IsFiniteSet(AtWork)
  /\ \A h \in AtWork : /\ handling[h].packet \in network
                       /\ handling[h].record <= made
                       /\ handling[h].step = "set" => ~handling[h].packet.ignore

\* The record that is present was made, has not timed out too often, and the ones that were not
\* made yet are untouched.
RecordsInv ==
  /\ present <= made
  /\ present # NoRecord => records[present].timedOut <= TimedOutLimit
  /\ \A r \in RecordId : r > made => records[r] = FreshRecord /\ accepted[r] = NothingAccepted

\* The last timestamp is that of a message that was accepted.
LastInv ==
  \A r \in RecordId : records[r].last # 0 =>
    \E p \in network : ~p.ignore /\ p.timestamp = records[r].last /\ p.seq <= newest

\* While one task at a time has had the record since its reset, its last timestamp is that of
\* the newest message, and a task that is about to write has a newer one.
OrderInv(r) ==
  ~accepted[r].raced =>
    /\ \A h \in Holders(r), g \in Holders(r) : h = g
    /\ ~sendersRaced =>
         /\ accepted[r].latest = accepted[r].newest
         /\ accepted[r].latest # 0 =>
              \E p \in network : ~p.ignore /\ p.timestamp = records[r].last /\ p.seq = accepted[r].latest
         /\ \A h \in Holders(r) :
              handling[h].step = "set" => handling[h].packet.seq >= accepted[r].newest

TimestampInv ==
  /\ TypeOK
  /\ NetworkInv
  /\ StampInv
  /\ HandlingInv
  /\ RecordsInv
  /\ LastInv
  /\ \A r \in RecordId : OrderInv(r)
  /\ RefusedWasOvertaken

-----------------------------------------------------------------------------
(* Facts the actions share.                                                *)

\* A finite set with at most one element has no two.
LEMMA AtMostOne ==
  ASSUME NEW S, IsFiniteSet(S), Cardinality(S) <= 1
  PROVE  \A x \in S, y \in S : x = y
<1>1. SUFFICES ASSUME NEW x \in S, NEW y \in S, x # y PROVE FALSE
  OBVIOUS
<1>2. IsFiniteSet({x, y}) /\ Cardinality({x, y}) <= Cardinality(S)
  <2>1. {x, y} \subseteq S
    OBVIOUS
  <2> QED BY <2>1, FS_Subset
<1>3. IsFiniteSet({x}) /\ Cardinality({x}) = 1
  BY FS_Singleton
<1>4. Cardinality({x} \cup {y}) = Cardinality({x}) + 1
  BY <1>1, <1>3, FS_AddElement
<1>5. {x} \cup {y} = {x, y}
  OBVIOUS
<1>6. Cardinality({x, y}) = 2
  BY <1>3, <1>4, <1>5
<1>7. Cardinality(S) \in Nat
  BY FS_CardinalityType
<1> QED BY <1>2, <1>6, <1>7

\* Initially nothing was sent, nothing is looked up and no record is made.
LEMMA TimestampInit == Init => TimestampInv
<1> SUFFICES ASSUME Init PROVE TimestampInv
  OBVIOUS
<1>0. IsFiniteSet({}) /\ Cardinality({}) = 0
  BY FS_EmptySet
<1>1. TypeOK
  <2>1. FreshRecord \in Record
    BY TopIsPositive, TimedOutLimitIsNatural, AgeBoundCoversTimeout
    DEF Timestamp, Record, FreshRecord
  <2>2. NothingAccepted \in [newest : {0} \cup Sequence, latest : {0} \cup Sequence,
                             raced : BOOLEAN]
    BY DEF NothingAccepted
  <2>3. 0 \in Timestamp /\ 0 \in 0..MaxRecords
    BY TopIsPositive, BoundsAreNatural DEF Timestamp
  <2> QED BY <2>1, <2>2, <2>3 DEF Init, TypeOK
<1>2. Busy = {} /\ AtWork = {} /\ \A r \in RecordId : Holders(r) = {}
  BY DEF Init, Busy, AtWork, Holders
<1>3. NetworkInv /\ StampInv /\ HandlingInv
  BY <1>0, <1>2, BoundsAreNatural DEF Init, NetworkInv, StampInv, HandlingInv
<1>4. RecordsInv /\ LastInv /\ RefusedWasOvertaken
  BY <1>0 DEF Init, RecordsInv, LastInv, RefusedWasOvertaken, FreshRecord, NoRecord
<1>5. \A r \in RecordId : OrderInv(r)
  BY <1>2 DEF Init, OrderInv, NothingAccepted
<1> QED BY <1>1, <1>3, <1>4, <1>5 DEF TimestampInv

\* What the receiver knows stays true while it does nothing and packets are added.
LEMMA ReceiverKeeps ==
  ASSUME TimestampInv, UNCHANGED receiver, network \subseteq network',
         sendersRaced => sendersRaced', sendersRaced \in BOOLEAN
  PROVE  /\ HandlingInv' /\ RecordsInv' /\ LastInv' /\ RefusedWasOvertaken'
         /\ \A r \in RecordId : OrderInv(r)'
<1>1. /\ AtWork' = AtWork
      /\ \A r \in RecordId : Holders(r)' = Holders(r)
  BY DEF receiver, AtWork, Holders
<1>2. HandlingInv'
  BY <1>1 DEF TimestampInv, HandlingInv, receiver
<1>3. RecordsInv' /\ LastInv' /\ RefusedWasOvertaken'
  BY DEF TimestampInv, RecordsInv, LastInv, RefusedWasOvertaken, receiver
<1>4. ASSUME NEW r \in RecordId PROVE OrderInv(r)'
  BY <1>1, <1>4 DEF TimestampInv, OrderInv, receiver
<1> QED BY <1>2, <1>3, <1>4

\* What the sender knows stays true while it does nothing.
LEMMA SenderKeeps ==
  ASSUME TimestampInv, UNCHANGED sender
  PROVE  NetworkInv' /\ StampInv'
<1>1. Busy' = Busy
  BY DEF sender, Busy
<1> QED BY <1>1 DEF TimestampInv, NetworkInv, StampInv, sender

-----------------------------------------------------------------------------
(* The sender's actions.                                                   *)

\* A thread that chooses its flags is alone, or the threads race.
LEMMA ChooseFlagsKeeps ==
  ASSUME TimestampInv, NEW s \in SendThread, NEW critical \in BOOLEAN,
         ChooseFlags(s, critical)
  PROVE  TimestampInv'
<1>1. /\ sending[s] = NotSending
      /\ Cardinality(network) + Cardinality(Busy) < MaxSent
      /\ sending' = [sending EXCEPT ![s] =
                       [step |-> "make", critical |-> critical,
                        ignore |-> ~critical \/ generated = Top]]
      /\ sendersRaced' = (sendersRaced \/ Busy # {})
      /\ UNCHANGED <<generated, network, receiver>>
  BY DEF ChooseFlags
<1>t. TypeOK /\ NetworkInv /\ StampInv
  BY DEF TimestampInv
<1>2. (~critical \/ generated = Top) \in BOOLEAN
  OBVIOUS
<1>3. PICK flag \in BOOLEAN : flag <=> (~critical \/ generated = Top)
  OBVIOUS
<1>4. sending' = [sending EXCEPT ![s] =
                    [step |-> "make", critical |-> critical, ignore |-> flag]]
  <2>1. flag = (~critical \/ generated = Top)
    BY <1>3
  <2> QED BY <1>1, <2>1
<1>5. /\ sending'[s] = [step |-> "make", critical |-> critical, ignore |-> flag]
      /\ \A u \in SendThread : u # s => sending'[u] = sending[u]
  BY <1>4, <1>t DEF TypeOK
<1>6. TypeOK'
  <2>1. sending' \in [SendThread -> {NotSending} \cup
                        [step : {"make"}, critical : BOOLEAN, ignore : BOOLEAN]]
    BY <1>4, <1>t DEF TypeOK
  <2>2. sendersRaced' \in BOOLEAN
    BY <1>1
  <2> QED BY <1>1, <1>t, <2>1, <2>2 DEF TypeOK, receiver
<1>7. s \notin Busy /\ Busy' = Busy \cup {s}
  <2>1. sending'[s] # NotSending
    BY <1>5 DEF NotSending
  <2> QED BY <1>1, <1>5, <2>1 DEF Busy
<1>8. NetworkInv'
  <2>1. IsFiniteSet(Busy') /\ Cardinality(Busy') = Cardinality(Busy) + 1
    BY <1>7, <1>t, FS_AddElement DEF NetworkInv
  <2>2. Cardinality(Busy) \in Nat /\ Cardinality(network) \in Nat
    BY <1>t, FS_CardinalityType DEF NetworkInv
  <2> QED BY <1>1, <1>t, <2>1, <2>2, BoundsAreNatural DEF NetworkInv
<1>9. StampInv'
  <2>1. SUFFICES ASSUME ~sendersRaced', Busy = {} PROVE StampInv'
    BY <1>1 DEF StampInv
  <2>2. Busy' = {s} /\ sending'[s].ignore = flag
    BY <1>5, <1>7, <2>1
  <2>3. ~sendersRaced
    BY <1>1, <2>1
  <2> QED BY <1>1, <1>3, <1>t, <2>2, <2>3 DEF StampInv
<1>10. /\ HandlingInv' /\ RecordsInv' /\ LastInv' /\ RefusedWasOvertaken'
       /\ \A r \in RecordId : OrderInv(r)'
  BY <1>1, <1>t, ReceiverKeeps DEF TypeOK
<1> QED BY <1>6, <1>8, <1>9, <1>10 DEF TimestampInv

\* The packet that is sent is the newest, and has the greatest timestamp.
LEMMA SendKeeps ==
  ASSUME TimestampInv, NEW s \in SendThread, Send(s)
  PROVE  TimestampInv'
<1> DEFINE count == Cardinality(network) + 1
<1>t. TypeOK /\ NetworkInv /\ StampInv
  BY DEF TimestampInv
<1>1. PICK ignore \in BOOLEAN, critical \in BOOLEAN :
        ignore = sending[s].ignore /\ critical = sending[s].critical
  <2>1. sending[s] \in [step : {"make"}, critical : BOOLEAN, ignore : BOOLEAN]
    BY <1>t DEF TypeOK, Send
  <2> QED BY <2>1
<1>2. PICK stamp \in Timestamp :
        stamp = IF generated = Top THEN 0 ELSE generated + 1
  BY <1>t, TopIsPositive DEF TypeOK, Timestamp
<1>3. PICK packet : packet = [seq |-> count, critical |-> critical, ignore |-> ignore,
                              timestamp |-> IF ignore THEN 0 ELSE stamp]
  OBVIOUS
<1>4. /\ sending[s] # NotSending
      /\ generated' = IF ignore THEN generated ELSE stamp
      /\ network' = network \cup {packet}
      /\ sending' = [sending EXCEPT ![s] = NotSending]
      /\ UNCHANGED <<sendersRaced, receiver>>
  BY <1>1, <1>2, <1>3 DEF Send
<1>5. /\ Cardinality(network) \in Nat
      /\ Cardinality(Busy) \in Nat
      /\ Cardinality(Busy \ {s}) = Cardinality(Busy) - 1
      /\ IsFiniteSet(Busy \ {s})
      /\ Cardinality(Busy) # 0
  <2>1. s \in Busy
    BY <1>4 DEF Busy
  <2> QED BY <1>t, <2>1, FS_CardinalityType, FS_RemoveElement, FS_EmptySet DEF NetworkInv
<1>6. count \in Sequence /\ count + Cardinality(Busy \ {s}) <= MaxSent
  BY <1>5, <1>t, BoundsAreNatural DEF NetworkInv, Sequence
<1>7. packet \in Packet
  BY <1>2, <1>3, <1>6, TopIsPositive DEF Packet, Timestamp
<1>8. /\ sending'[s] = NotSending
      /\ \A u \in SendThread : u # s => sending'[u] = sending[u]
  BY <1>4, <1>t DEF TypeOK
<1>9. TypeOK'
  <2>1. sending' \in [SendThread -> {NotSending} \cup
                        [step : {"make"}, critical : BOOLEAN, ignore : BOOLEAN]]
    BY <1>4, <1>t DEF TypeOK
  <2>2. generated' \in Timestamp
    BY <1>2, <1>4, <1>t DEF TypeOK
  <2>3. network' \subseteq Packet
    BY <1>4, <1>7, <1>t DEF TypeOK
  <2> QED BY <1>4, <1>t, <2>1, <2>2, <2>3 DEF TypeOK, receiver
<1>10. Busy' = Busy \ {s}
  BY <1>8 DEF Busy
<1>11. \A p \in network : p.seq \in Nat /\ p.seq < count
  BY <1>5, <1>t DEF TypeOK, Packet, Sequence, NetworkInv
<1>12. packet.seq = count /\ packet.ignore = ignore /\ packet \notin network
  BY <1>3, <1>11, <1>5
<1>13. NetworkInv'
  <2>1. IsFiniteSet(network') /\ Cardinality(network') = count
    BY <1>4, <1>12, <1>t, FS_AddElement DEF NetworkInv
  <2>2. \A p \in network' : p.seq <= Cardinality(network')
    BY <1>4, <1>5, <1>11, <1>12, <2>1
  <2>3. \A p \in network', q \in network' : p.seq = q.seq => p = q
    BY <1>4, <1>11, <1>12, <1>5, <1>t DEF NetworkInv
  <2> QED BY <1>5, <1>6, <1>10, <2>1, <2>2, <2>3 DEF NetworkInv
<1>14. StampInv'
  <2>1. SUFFICES ASSUME ~sendersRaced PROVE StampInv'
    BY <1>4 DEF StampInv
  <2>2. s \in Busy
    BY <1>4 DEF Busy
  <2>3. Busy' = {}
    BY <1>10, <1>t, <2>1, <2>2 DEF StampInv
  <2>4. \A p \in network : ~p.ignore => p.timestamp \in 1..generated
    BY <1>t, <2>1 DEF StampInv
  <2>5. CASE ignore
    BY <1>4, <1>12, <1>t, <2>1, <2>3, <2>5 DEF StampInv
  <2>6. CASE ~ignore
    <3>1. generated # Top
      BY <1>1, <1>t, <2>1, <2>2, <2>6 DEF StampInv
    <3>2. stamp = generated + 1 /\ generated' = stamp /\ packet.timestamp = stamp
      BY <1>2, <1>3, <1>4, <2>6, <3>1
    <3>3. generated \in Nat /\ stamp \in Nat
      BY <1>2, <1>t DEF TypeOK, Timestamp
    <3>4. \A p \in network' : ~p.ignore => p.timestamp \in 1..generated'
      BY <1>4, <2>4, <3>2, <3>3
    <3>5. ASSUME NEW p \in network', NEW q \in network', ~p.ignore, ~q.ignore, p.seq < q.seq
          PROVE  p.timestamp < q.timestamp
      <4>1. p # packet
        BY <1>4, <1>5, <1>11, <1>12, <3>5
      <4>2. p \in network /\ p.timestamp \in 1..generated
        BY <1>4, <2>4, <3>5, <4>1
      <4>3. CASE q = packet
        BY <3>2, <3>3, <4>2, <4>3
      <4>4. CASE q \in network
        BY <1>t, <2>1, <3>5, <4>2, <4>4 DEF StampInv
      <4> QED BY <1>4, <3>5, <4>3, <4>4
    <3> QED BY <2>3, <3>4, <3>5 DEF StampInv
  <2> QED BY <2>5, <2>6
<1>15. /\ HandlingInv' /\ RecordsInv' /\ LastInv' /\ RefusedWasOvertaken'
       /\ \A r \in RecordId : OrderInv(r)'
  BY <1>4, <1>t, ReceiverKeeps DEF TypeOK
<1> QED BY <1>9, <1>13, <1>14, <1>15 DEF TimestampInv

-----------------------------------------------------------------------------
(* The receiver's actions.                                                 *)

\* What a task has is a packet and a record.
LEMMA TaskHas ==
  ASSUME TypeOK, NEW h \in AtWork
  PROVE  /\ handling[h] \in [step : {"compare", "set"}, packet : Packet, record : RecordId]
         /\ handling[h].packet \in Packet /\ handling[h].packet.seq \in Sequence
         /\ handling[h].packet.timestamp \in Timestamp
         /\ handling[h].record \in RecordId
         /\ h \in Holders(handling[h].record)
<1>1. handling[h] \in [step : {"compare", "set"}, packet : Packet, record : RecordId]
  BY DEF TypeOK, AtWork
<1>2. handling[h].packet \in Packet /\ handling[h].record \in RecordId
  BY <1>1
<1>3. handling[h].packet.seq \in Sequence /\ handling[h].packet.timestamp \in Timestamp
  BY <1>2 DEF Packet
<1>4. h \in Holders(handling[h].record)
  BY DEF AtWork, Holders
<1> QED BY <1>1, <1>2, <1>3, <1>4

\* A task that looks up a record while another has it makes it raced.
LEMMA LookUpKeeps ==
  ASSUME TimestampInv, NEW h \in Handler, NEW packet \in network, LookUp(h, packet)
  PROVE  TimestampInv'
<1>t. /\ TypeOK /\ NetworkInv /\ HandlingInv /\ RecordsInv /\ LastInv /\ RefusedWasOvertaken
      /\ \A r \in RecordId : OrderInv(r)
  BY DEF TimestampInv
<1>1. PICK r \in RecordId :
        /\ handling' = [handling EXCEPT ![h] =
                          [step |-> "compare", packet |-> packet, record |-> r]]
        /\ \/ /\ present = r /\ present # NoRecord
              /\ records' = [records EXCEPT ![r].age = 0]
              /\ UNCHANGED <<present, made>>
           \/ /\ present = NoRecord /\ made < MaxRecords
              /\ r = made + 1 /\ made' = r /\ present' = r
              /\ UNCHANGED records
  <2>1. CASE present # NoRecord
    BY <1>t, <2>1 DEF LookUp, TypeOK
  <2>2. CASE present = NoRecord
    <3>1. made + 1 \in RecordId
      BY <1>t, <2>2, BoundsAreNatural DEF LookUp, TypeOK, RecordId
    <3> QED BY <2>2, <3>1 DEF LookUp
  <2> QED BY <2>1, <2>2
<1>2. /\ handling'[h] = [step |-> "compare", packet |-> packet, record |-> r]
      /\ \A g \in Handler : g # h => handling'[g] = handling[g]
      /\ handling[h] = NotHandling
      /\ packet \in Packet
      /\ UNCHANGED <<sender, newest, refused>>
  BY <1>1, <1>t DEF TypeOK, LookUp
<1>3. accepted' = [accepted EXCEPT ![r].raced = @ \/ Holders(r) # {}]
  <2>1. handling'[h].record = r
    BY <1>2
  <2> QED BY <2>1 DEF LookUp
<1>4. /\ \A q \in RecordId : q # r => accepted'[q] = accepted[q]
      /\ accepted'[r].newest = accepted[r].newest
      /\ accepted'[r].latest = accepted[r].latest
      /\ accepted'[r].raced = (accepted[r].raced \/ Holders(r) # {})
  BY <1>3, <1>t DEF TypeOK
<1>5. /\ \A q \in RecordId : /\ q # r => records'[q] = records[q]
                             /\ records'[q].last = records[q].last
                             /\ records'[q].timedOut = records[q].timedOut
  BY <1>1, <1>t DEF TypeOK, Record
<1>6. handling'[h] # NotHandling
  BY <1>2 DEF NotHandling
<1>7. TypeOK'
  <2>1. handling' \in [Handler -> {NotHandling} \cup
                         [step : {"compare", "set"}, packet : Packet, record : RecordId]]
    BY <1>1, <1>2, <1>t DEF TypeOK
  <2>2. records' \in [RecordId -> Record]
    BY <1>1, <1>t, AgeBoundCoversTimeout DEF TypeOK, Record
  <2>3. accepted' \in [RecordId -> [newest : {0} \cup Sequence, latest : {0} \cup Sequence,
                                   raced : BOOLEAN]]
    BY <1>3, <1>t DEF TypeOK
  <2>4. present' \in {NoRecord} \cup RecordId /\ made' \in 0..MaxRecords
    BY <1>1, <1>t, BoundsAreNatural DEF TypeOK, RecordId
  <2> QED BY <1>2, <1>t, <2>1, <2>2, <2>3, <2>4 DEF TypeOK, sender
<1>8. NetworkInv' /\ StampInv'
  BY <1>2, SenderKeeps
<1>9. AtWork' = AtWork \cup {h}
  BY <1>2, <1>6 DEF AtWork
<1>10. made \in Nat /\ made' \in Nat /\ made <= made' /\ r <= made' /\ present' = r
  BY <1>1, <1>t DEF TypeOK, RecordId, RecordsInv
<1>11. HandlingInv'
  <2>1. IsFiniteSet(AtWork')
    BY <1>9, <1>t, FS_AddElement DEF HandlingInv
  <2>2. ASSUME NEW g \in AtWork'
        PROVE  /\ handling'[g].packet \in network
               /\ handling'[g].record <= made'
               /\ handling'[g].step = "set" => ~handling'[g].packet.ignore
    <3>1. CASE g = h
      BY <1>2, <1>10, <3>1
    <3>2. CASE g # h
      <4>1. g \in AtWork /\ handling'[g] = handling[g] /\ g \in Handler
        BY <1>2, <1>9, <3>2 DEF AtWork
      <4>2. handling[g].record \in RecordId /\ handling[g].record <= made
        BY <1>t, <4>1, TaskHas DEF HandlingInv
      <4> QED BY <1>10, <1>t, <4>1, <4>2 DEF HandlingInv, RecordId
    <3> QED BY <3>1, <3>2
  <2> QED BY <1>2, <2>1, <2>2 DEF HandlingInv, sender
<1>12. RecordsInv'
  <2>1. records[r].timedOut <= TimedOutLimit
    BY <1>1, <1>t, TimedOutLimitIsNatural DEF RecordsInv, FreshRecord, TypeOK
  <2>2. \A q \in RecordId : q > made' => q > made /\ q # r
    BY <1>10 DEF RecordId
  <2> QED BY <1>4, <1>5, <1>10, <1>t, <2>1, <2>2 DEF RecordsInv
<1>13. LastInv' /\ RefusedWasOvertaken'
  BY <1>2, <1>5, <1>t DEF LastInv, RefusedWasOvertaken, sender
<1>14. ASSUME NEW q \in RecordId PROVE OrderInv(q)'
  <2>1. CASE q # r
    <3>1. Holders(q)' = Holders(q) /\ h \notin Holders(q)
      BY <1>2, <1>6, <2>1 DEF Holders
    <3>2. \A g \in Holders(q) : handling'[g] = handling[g]
      BY <1>2, <3>1 DEF Holders
    <3> QED BY <1>2, <1>4, <1>5, <1>t, <2>1, <3>1, <3>2 DEF OrderInv, sender
  <2>2. CASE q = r
    <3>1. SUFFICES ASSUME ~accepted'[r].raced PROVE OrderInv(r)'
      BY <2>2 DEF OrderInv
    <3>2. ~accepted[r].raced /\ Holders(r) = {}
      BY <1>4, <3>1
    <3>3. Holders(r)' = {h}
      <4>1. h \in Holders(r)'
        BY <1>2, <1>6 DEF Holders
      <4>2. ASSUME NEW g \in Holders(r)', g # h PROVE FALSE
        BY <1>2, <3>2, <4>2 DEF Holders
      <4> QED BY <4>1, <4>2
    <3>4. handling'[h].step # "set"
      BY <1>2
    <3> QED BY <1>2, <1>4, <1>5, <1>t, <3>2, <3>3, <3>4 DEF OrderInv, sender
  <2> QED BY <2>1, <2>2
<1> QED BY <1>7, <1>8, <1>11, <1>12, <1>13, <1>14 DEF TimestampInv

\* A task that is done lets its record go.
LEMMA ReleaseKeeps ==
  ASSUME TypeOK, HandlingInv, NEW h \in AtWork,
         handling' = [handling EXCEPT ![h] = NotHandling], UNCHANGED <<network, made>>
  PROVE  /\ handling' \in [Handler -> {NotHandling} \cup
                             [step : {"compare", "set"}, packet : Packet, record : RecordId]]
         /\ HandlingInv'
         /\ \A r \in RecordId : Holders(r)' = Holders(r) \ {h}
         /\ \A r \in RecordId : \A g \in Holders(r)' : handling'[g] = handling[g]
<1>1. /\ handling' \in [Handler -> {NotHandling} \cup
                          [step : {"compare", "set"}, packet : Packet, record : RecordId]]
      /\ handling'[h] = NotHandling /\ h \in Handler
      /\ \A g \in Handler : g # h => handling'[g] = handling[g]
  BY DEF TypeOK, AtWork
<1>2. AtWork' = AtWork \ {h} /\ \A g \in AtWork' : handling'[g] = handling[g]
  BY <1>1 DEF AtWork
<1>3. /\ \A r \in RecordId : Holders(r)' = Holders(r) \ {h}
      /\ \A r \in RecordId : \A g \in Holders(r)' : handling'[g] = handling[g]
  BY <1>1 DEF Holders
<1>4. HandlingInv'
  BY <1>2, FS_RemoveElement DEF HandlingInv
<1> QED BY <1>1, <1>3, <1>4

\* SetLastSendersideTimestamp writes one record.
LEMMA SetLastWrites ==
  ASSUME TypeOK, NEW r \in RecordId, NEW timestamp \in Timestamp, SetLast(r, timestamp)
  PROVE  /\ records' \in [RecordId -> Record]
         /\ records'[r].last = timestamp
         /\ records'[r].timedOut = IF timestamp > 0 THEN 0 ELSE records[r].timedOut
         /\ \A q \in RecordId : q # r => records'[q] = records[q]
<1>1. PICK old \in Record : old = records[r]
  BY DEF TypeOK
<1>2. PICK count \in 0..(TimedOutLimit + 1) :
        count = IF timestamp > 0 THEN 0 ELSE old.timedOut
  BY TimedOutLimitIsNatural DEF Record
<1>3. records' = [records EXCEPT ![r] = [old EXCEPT !.last = timestamp, !.timedOut = count]]
  BY <1>1, <1>2 DEF SetLast, TypeOK, Record
<1>4. PICK new : new = [old EXCEPT !.last = timestamp, !.timedOut = count]
  OBVIOUS
<1>5. new \in Record /\ new.last = timestamp /\ new.timedOut = count
  BY <1>4 DEF Record
<1>6. records' = [records EXCEPT ![r] = new]
  BY <1>3, <1>4
<1> QED BY <1>1, <1>2, <1>5, <1>6 DEF TypeOK

\* A record that was reset is in order again, unless two tasks have it.
LEMMA ResetKeepsOrder ==
  ASSUME TypeOK, HandlingInv, NEW r \in RecordId, Holders(r)' \subseteq Holders(r),
         \A g \in Holders(r)' : handling'[g] = handling[g],
         ResetAccepted(r, Holders(r))
  PROVE  /\ OrderInv(r)'
         /\ accepted' \in [RecordId -> [newest : {0} \cup Sequence, latest : {0} \cup Sequence,
                                        raced : BOOLEAN]]
         /\ \A q \in RecordId : q # r => accepted'[q] = accepted[q]
<1>1. PICK raced \in BOOLEAN : raced <=> Cardinality(Holders(r)) > 1
  OBVIOUS
<1>2. accepted' = [accepted EXCEPT ![r] = [newest |-> 0, latest |-> 0, raced |-> raced]]
  <2>1. raced = (Cardinality(Holders(r)) > 1)
    BY <1>1
  <2>2. [NothingAccepted EXCEPT !.raced = raced] =
          [newest |-> 0, latest |-> 0, raced |-> raced]
    BY DEF NothingAccepted
  <2> QED BY <2>1, <2>2 DEF ResetAccepted
<1>3. /\ accepted'[r] = [newest |-> 0, latest |-> 0, raced |-> raced]
      /\ \A q \in RecordId : q # r => accepted'[q] = accepted[q]
      /\ accepted' \in [RecordId -> [newest : {0} \cup Sequence, latest : {0} \cup Sequence,
                                     raced : BOOLEAN]]
  BY <1>2 DEF TypeOK
<1>4. IsFiniteSet(Holders(r))
  <2>1. Holders(r) \subseteq AtWork
    BY DEF Holders, AtWork
  <2> QED BY <2>1, FS_Subset DEF HandlingInv
<1>5. ASSUME ~raced PROVE \A g \in Holders(r)', k \in Holders(r)' : g = k
  <2>1. Cardinality(Holders(r)) <= 1
    <3>1. Cardinality(Holders(r)) \in Nat /\ ~(Cardinality(Holders(r)) > 1)
      BY <1>1, <1>4, <1>5, FS_CardinalityType
    <3> QED BY <3>1
  <2>2. \A g \in Holders(r), k \in Holders(r) : g = k
    BY <1>4, <2>1, AtMostOne
  <2> QED BY <2>2
<1>6. \A g \in Holders(r)' : handling'[g].packet.seq >= 0
  <2>1. SUFFICES ASSUME NEW g \in Holders(r)' PROVE handling'[g].packet.seq >= 0
    OBVIOUS
  <2>2. g \in AtWork
    BY DEF Holders, AtWork
  <2> QED BY <2>2, TaskHas DEF Sequence
<1>7. OrderInv(r)'
  BY <1>3, <1>5, <1>6 DEF OrderInv
<1> QED BY <1>3, <1>7

\* A task whose packet has no timestamp resets the record it has.
LEMMA AcceptUnorderedKeeps ==
  ASSUME TimestampInv, NEW h \in Handler, AcceptUnordered(h)
  PROVE  TimestampInv'
<1>t. /\ TypeOK /\ NetworkInv /\ HandlingInv /\ RecordsInv /\ LastInv /\ RefusedWasOvertaken
      /\ \A r \in RecordId : OrderInv(r)
  BY DEF TimestampInv
<1>1. h \in AtWork
  BY <1>t DEF AcceptUnordered, AtWork, NotHandling
<1>2. PICK r \in RecordId : r = handling[h].record
  BY <1>1, <1>t, TaskHas
<1>3. /\ SetLast(r, 0)
      /\ ResetAccepted(r, Holders(r))
      /\ handling' = [handling EXCEPT ![h] = NotHandling]
      /\ UNCHANGED <<sender, present, made, newest, refused>>
      /\ UNCHANGED <<network, sendersRaced>>
  BY <1>2 DEF AcceptUnordered, sender
<1>4. /\ HandlingInv'
      /\ handling' \in [Handler -> {NotHandling} \cup
                          [step : {"compare", "set"}, packet : Packet, record : RecordId]]
      /\ \A q \in RecordId : Holders(q)' = Holders(q) \ {h}
      /\ \A q \in RecordId : \A g \in Holders(q)' : handling'[g] = handling[g]
  BY <1>1, <1>3, <1>t, ReleaseKeeps
<1>5. /\ OrderInv(r)'
      /\ accepted' \in [RecordId -> [newest : {0} \cup Sequence, latest : {0} \cup Sequence,
                                     raced : BOOLEAN]]
      /\ \A q \in RecordId : q # r => accepted'[q] = accepted[q]
  <2>1. Holders(r)' \subseteq Holders(r) /\ \A g \in Holders(r)' : handling'[g] = handling[g]
    BY <1>4
  <2> QED BY <1>3, <1>t, <2>1, ResetKeepsOrder
<1>6. /\ records' \in [RecordId -> Record]
      /\ records'[r].last = 0 /\ records'[r].timedOut = records[r].timedOut
      /\ \A q \in RecordId : q # r => records'[q] = records[q]
  <2>1. 0 \in Timestamp
    BY TopIsPositive DEF Timestamp
  <2> QED BY <1>3, <1>t, <2>1, SetLastWrites
<1>7. TypeOK'
  BY <1>3, <1>4, <1>5, <1>6, <1>t DEF TypeOK, sender
<1>8. NetworkInv' /\ StampInv'
  BY <1>3, SenderKeeps
<1>9. RecordsInv'
  <2>1. r <= made
    BY <1>1, <1>2, <1>t DEF HandlingInv
  <2>2. made \in Nat /\ r \in Nat
    BY <1>t DEF TypeOK, RecordId
  <2>3. present' = present /\ made' = made
    BY <1>3
  <2>4. \A q \in RecordId : records'[q].timedOut = records[q].timedOut
    BY <1>6
  <2>5. \A q \in RecordId : q > made => q # r
    BY <2>1, <2>2
  <2>6. present # NoRecord => present \in RecordId
    BY <1>t DEF TypeOK
  <2> QED BY <1>5, <1>6, <1>t, <2>3, <2>4, <2>5, <2>6 DEF RecordsInv
<1>10. LastInv' /\ RefusedWasOvertaken'
  BY <1>3, <1>6, <1>t DEF LastInv, RefusedWasOvertaken
<1>11. ASSUME NEW q \in RecordId, q # r PROVE OrderInv(q)'
  <2>1. Holders(q)' = Holders(q)
    BY <1>2, <1>4, <1>11 DEF Holders
  <2> QED BY <1>3, <1>4, <1>5, <1>6, <1>11, <1>t, <2>1 DEF OrderInv
<1> QED BY <1>4, <1>5, <1>7, <1>8, <1>9, <1>10, <1>11 DEF TimestampInv

\* A timeout check ages the record, or resets it and at last forgets it.
LEMMA TimeoutCheckKeeps ==
  ASSUME TimestampInv, TimeoutCheck
  PROVE  TimestampInv'
<1>t. /\ TypeOK /\ NetworkInv /\ HandlingInv /\ RecordsInv /\ LastInv /\ RefusedWasOvertaken
      /\ \A r \in RecordId : OrderInv(r)
  BY DEF TimestampInv
<1>1. present \in RecordId /\ present # NoRecord /\ present <= made
  BY <1>t DEF TypeOK, TimeoutCheck, RecordsInv
<1>2. PICK r \in RecordId : r = present
  BY <1>1
<1>3. PICK age \in 0..AgeBound :
        age = IF records[r].age < AgeBound THEN records[r].age + 1 ELSE AgeBound
  BY <1>t, AgeBoundCoversTimeout DEF TypeOK, Record
<1>4. PICK timedOut \in 0..(TimedOutLimit + 1) : timedOut = records[r].timedOut + 1
  BY <1>1, <1>2, <1>t, TimedOutLimitIsNatural DEF TypeOK, Record, RecordsInv
<1>5. /\ \/ /\ records' = [records EXCEPT ![r].age = age]
            /\ UNCHANGED <<present, accepted>>
         \/ /\ records' = [records EXCEPT ![r] =
                             [last |-> 0, timedOut |-> timedOut, age |-> age]]
            /\ present' = IF timedOut > TimedOutLimit THEN NoRecord ELSE present
            /\ ResetAccepted(r, Holders(r))
      /\ UNCHANGED <<sender, made, handling, newest, refused>>
      /\ UNCHANGED <<network, sendersRaced>>
  BY <1>2, <1>3, <1>4 DEF TimeoutCheck, sender
<1>6. /\ AtWork' = AtWork
      /\ \A q \in RecordId : Holders(q)' = Holders(q)
  BY <1>5 DEF AtWork, Holders
<1>7. HandlingInv'
  BY <1>5, <1>6, <1>t DEF HandlingInv
<1>8. NetworkInv' /\ StampInv'
  BY <1>5, SenderKeeps
<1>9. made \in Nat /\ r \in Nat /\ 0 \in Timestamp
  BY <1>t, TopIsPositive DEF TypeOK, RecordId, Timestamp
<1>10. RefusedWasOvertaken'
  BY <1>5, <1>t DEF RefusedWasOvertaken
<1>11. CASE records' = [records EXCEPT ![r].age = age] /\ UNCHANGED <<present, accepted>>
  <2>1. /\ records' \in [RecordId -> Record]
        /\ \A q \in RecordId : /\ q # r => records'[q] = records[q]
                               /\ records'[q].last = records[q].last
                               /\ records'[q].timedOut = records[q].timedOut
    BY <1>11, <1>t DEF TypeOK, Record
  <2>2. TypeOK'
    BY <1>5, <1>11, <1>t, <2>1 DEF TypeOK, sender
  <2>3. RecordsInv' /\ LastInv'
    BY <1>1, <1>2, <1>5, <1>9, <1>11, <1>t, <2>1 DEF RecordsInv, LastInv
  <2>4. ASSUME NEW q \in RecordId PROVE OrderInv(q)'
    BY <1>5, <1>6, <1>11, <1>t, <2>1 DEF OrderInv
  <2> QED BY <1>7, <1>8, <1>10, <2>2, <2>3, <2>4 DEF TimestampInv
<1>12. CASE /\ records' = [records EXCEPT ![r] =
                             [last |-> 0, timedOut |-> timedOut, age |-> age]]
            /\ present' = IF timedOut > TimedOutLimit THEN NoRecord ELSE present
            /\ ResetAccepted(r, Holders(r))
  <2>1. /\ records' \in [RecordId -> Record]
        /\ records'[r].last = 0 /\ records'[r].timedOut = timedOut
        /\ \A q \in RecordId : q # r => records'[q] = records[q]
    BY <1>9, <1>12, <1>t DEF TypeOK, Record
  <2>2. /\ OrderInv(r)'
        /\ accepted' \in [RecordId -> [newest : {0} \cup Sequence, latest : {0} \cup Sequence,
                                       raced : BOOLEAN]]
        /\ \A q \in RecordId : q # r => accepted'[q] = accepted[q]
    <3>1. Holders(r)' \subseteq Holders(r) /\ \A g \in Holders(r)' : handling'[g] = handling[g]
      BY <1>5, <1>6
    <3> QED BY <1>12, <1>t, <3>1, ResetKeepsOrder
  <2>3. TypeOK'
    BY <1>5, <1>12, <1>t, <2>1, <2>2 DEF TypeOK, sender
  <2>4. RecordsInv'
    <3>1. present' # NoRecord => present' = r /\ timedOut <= TimedOutLimit
      BY <1>2, <1>12, TimedOutLimitIsNatural
    <3>2. present' <= made'
      BY <1>1, <1>5, <1>9, <1>12 DEF NoRecord
    <3> QED BY <1>1, <1>2, <1>5, <1>9, <1>t, <2>1, <2>2, <3>1, <3>2 DEF RecordsInv
  <2>5. LastInv'
    BY <1>5, <1>t, <2>1 DEF LastInv
  <2>6. ASSUME NEW q \in RecordId, q # r PROVE OrderInv(q)'
    BY <1>5, <1>6, <1>t, <2>1, <2>2, <2>6 DEF OrderInv
  <2> QED BY <1>7, <1>8, <1>10, <2>2, <2>3, <2>4, <2>5, <2>6 DEF TimestampInv
<1> QED BY <1>5, <1>11, <1>12

\* A packet is refused because a newer one was accepted; one that is not is newer than every
\* message accepted.
LEMMA CompareKeeps ==
  ASSUME TimestampInv, NEW h \in Handler, Compare(h)
  PROVE  TimestampInv'
<1>t. /\ TypeOK /\ NetworkInv /\ StampInv /\ HandlingInv /\ RecordsInv /\ LastInv
      /\ RefusedWasOvertaken
      /\ \A r \in RecordId : OrderInv(r)
  BY DEF TimestampInv
<1>1. h \in AtWork
  BY <1>t DEF Compare, AtWork, NotHandling
<1>2. PICK r \in RecordId, packet \in network :
        r = handling[h].record /\ packet = handling[h].packet
  BY <1>1, <1>t, TaskHas DEF HandlingInv
<1>3. /\ handling[h].step = "compare"
      /\ ~packet.ignore
      /\ \/ /\ Stale(r, packet)
            /\ handling' = [handling EXCEPT ![h] = NotHandling]
            /\ refused' = IF packet.seq > refused THEN packet.seq ELSE refused
         \/ /\ ~Stale(r, packet)
            /\ handling' = [handling EXCEPT ![h].step = "set"]
            /\ UNCHANGED refused
      /\ UNCHANGED <<sender, records, present, made, accepted, newest>>
      /\ UNCHANGED <<network, sendersRaced>>
  BY <1>2 DEF Compare, sender
<1>4. NetworkInv' /\ StampInv'
  BY <1>3, SenderKeeps
<1>5. packet \in Packet /\ packet.seq \in Sequence /\ packet.timestamp \in Timestamp
  BY <1>1, <1>2, <1>t, TaskHas
<1>6. \A p \in network : p.seq \in Nat /\ p.timestamp \in Nat
  BY <1>t DEF TypeOK, Packet, Sequence, Timestamp
\* The stamps of packets are in their order.
<1>7. ASSUME ~sendersRaced, NEW p \in network, ~p.ignore,
             packet.timestamp < p.timestamp
      PROVE  packet.seq < p.seq
  <2>1. CASE packet.seq = p.seq
    <3>1. packet = p
      BY <1>t, <2>1 DEF NetworkInv
    <3> QED BY <1>6, <1>7, <3>1
  <2>2. CASE p.seq < packet.seq
    <3>1. p.timestamp < packet.timestamp
      BY <1>3, <1>7, <1>t, <2>2 DEF StampInv
    <3> QED BY <1>6, <1>7, <3>1
  <2> QED BY <1>6, <2>1, <2>2
<1>8. RecordsInv' /\ LastInv'
  BY <1>3, <1>t DEF RecordsInv, LastInv
<1>9. CASE /\ Stale(r, packet)
           /\ handling' = [handling EXCEPT ![h] = NotHandling]
           /\ refused' = IF packet.seq > refused THEN packet.seq ELSE refused
  <2>1. /\ HandlingInv'
        /\ handling' \in [Handler -> {NotHandling} \cup
                            [step : {"compare", "set"}, packet : Packet, record : RecordId]]
        /\ \A q \in RecordId : Holders(q)' = Holders(q) \ {h}
        /\ \A q \in RecordId : \A g \in Holders(q)' : handling'[g] = handling[g]
    BY <1>1, <1>3, <1>9, <1>t, ReleaseKeeps
  <2>2. refused' \in {0} \cup Sequence
    BY <1>5, <1>9, <1>t DEF TypeOK
  <2>3. TypeOK'
    BY <1>3, <1>t, <2>1, <2>2 DEF TypeOK, sender
  <2>4. RefusedWasOvertaken'
    <3>1. SUFFICES ASSUME ~sendersRaced PROVE RefusedWasOvertaken'
      BY <1>3 DEF RefusedWasOvertaken
    <3>2. PICK p \in network : /\ ~p.ignore /\ p.timestamp = records[r].last
                               /\ p.seq <= newest
      BY <1>9, <1>t DEF Stale, LastInv
    <3>3. packet.timestamp < p.timestamp
      BY <1>9, <3>2 DEF Stale
    <3>4. packet.seq < p.seq
      BY <1>7, <3>1, <3>2, <3>3
    <3>5. newest \in Nat /\ refused \in Nat /\ packet.seq \in Nat /\ p.seq \in Nat
      BY <1>6, <1>t DEF TypeOK, Sequence
    <3>6. packet.seq < newest
      BY <3>2, <3>4, <3>5
    <3> QED BY <1>3, <1>9, <1>t, <3>1, <3>5, <3>6 DEF RefusedWasOvertaken
  <2>5. ASSUME NEW q \in RecordId PROVE OrderInv(q)'
    BY <1>3, <1>t, <2>1 DEF OrderInv
  <2> QED BY <1>4, <1>8, <2>1, <2>3, <2>4, <2>5 DEF TimestampInv
<1>10. CASE /\ ~Stale(r, packet)
            /\ handling' = [handling EXCEPT ![h].step = "set"]
            /\ UNCHANGED refused
  <2>1. handling[h] = [step |-> "compare", packet |-> packet, record |-> r]
    BY <1>1, <1>2, <1>3, <1>t, TaskHas
  <2>2. handling' = [handling EXCEPT ![h] = [step |-> "set", packet |-> packet, record |-> r]]
    <3>1. [handling[h] EXCEPT !.step = "set"] = [step |-> "set", packet |-> packet, record |-> r]
      BY <2>1
    <3>2. handling' = [handling EXCEPT ![h] = [handling[h] EXCEPT !.step = "set"]]
      BY <1>10, <1>1 DEF AtWork
    <3> QED BY <3>1, <3>2
  <2>3. /\ handling'[h] = [step |-> "set", packet |-> packet, record |-> r]
        /\ \A g \in Handler : g # h => handling'[g] = handling[g]
        /\ handling' \in [Handler -> {NotHandling} \cup
                            [step : {"compare", "set"}, packet : Packet, record : RecordId]]
    BY <1>5, <1>t, <2>2 DEF TypeOK
  <2>4. handling'[h] # NotHandling
    BY <2>3 DEF NotHandling
  <2>5. /\ AtWork' = AtWork
        /\ \A q \in RecordId : Holders(q)' = Holders(q)
    BY <2>1, <2>3, <2>4, <1>1 DEF AtWork, Holders
  <2>6. TypeOK'
    BY <1>3, <1>10, <1>t, <2>3 DEF TypeOK, sender
  <2>7. HandlingInv'
    <3>1. SUFFICES ASSUME NEW g \in AtWork
                   PROVE  /\ handling'[g].packet \in network
                          /\ handling'[g].record <= made
                          /\ handling'[g].step = "set" => ~handling'[g].packet.ignore
      BY <1>3, <1>t, <2>5 DEF HandlingInv
    <3>2. CASE g = h
      BY <1>1, <1>2, <1>3, <1>t, <2>3, <3>2 DEF HandlingInv
    <3>3. CASE g # h
      BY <1>t, <2>3, <3>3 DEF HandlingInv, AtWork
    <3> QED BY <3>2, <3>3
  <2>8. RefusedWasOvertaken'
    BY <1>3, <1>10, <1>t DEF RefusedWasOvertaken
  <2>9. ASSUME NEW q \in RecordId PROVE OrderInv(q)'
    <3>1. CASE q # r
      <4>1. \A g \in Holders(q) : handling'[g] = handling[g]
        BY <1>2, <2>3, <3>1 DEF Holders
      <4> QED BY <1>3, <1>t, <2>5, <4>1 DEF OrderInv
    <3>2. CASE q = r /\ ~accepted[r].raced
      <4>1. \A g \in Holders(r) : g = h
        BY <1>1, <1>2, <1>t, <3>2, TaskHas DEF OrderInv
      <4>2. SUFFICES ASSUME ~sendersRaced PROVE packet.seq >= accepted[r].newest
        BY <1>3, <1>t, <2>3, <2>5, <3>2, <4>1 DEF OrderInv
      <4>3. accepted[r].latest = accepted[r].newest
        BY <1>t, <3>2, <4>2 DEF OrderInv
      <4>4. accepted[r].newest \in Nat /\ packet.seq \in Nat
        BY <1>6, <1>t DEF TypeOK, Sequence
      <4>5. CASE accepted[r].latest = 0
        BY <4>3, <4>4, <4>5
      <4>6. CASE accepted[r].latest # 0
        <5>1. PICK p \in network : /\ ~p.ignore /\ p.timestamp = records[r].last
                                   /\ p.seq = accepted[r].latest
          BY <1>t, <3>2, <4>2, <4>6 DEF OrderInv
        <5>2. p.timestamp # 0
          BY <1>t, <4>2, <5>1 DEF StampInv, TypeOK, Timestamp
        <5>3. ~(packet.timestamp < p.timestamp)
          BY <1>10, <5>1, <5>2 DEF Stale
        <5>4. ~(packet.seq < p.seq)
          <6>1. packet.seq < p.seq => packet.timestamp < p.timestamp
            BY <1>3, <1>t, <4>2, <5>1 DEF StampInv
          <6> QED BY <5>3, <6>1
        <5> QED BY <1>6, <4>3, <5>1, <5>4
      <4> QED BY <4>5, <4>6
    <3>3. CASE q = r /\ accepted[r].raced
      BY <1>3, <3>3 DEF OrderInv
    <3> QED BY <3>1, <3>2, <3>3
  <2> QED BY <1>4, <1>8, <2>6, <2>7, <2>8, <2>9 DEF TimestampInv
<1> QED BY <1>3, <1>9, <1>10

\* The message that is accepted is the newest of its record, if one task had the record.
LEMMA AcceptOrderedKeeps ==
  ASSUME TimestampInv, NEW h \in Handler, AcceptOrdered(h)
  PROVE  TimestampInv'
<1>t. /\ TypeOK /\ NetworkInv /\ StampInv /\ HandlingInv /\ RecordsInv /\ LastInv
      /\ RefusedWasOvertaken
      /\ \A r \in RecordId : OrderInv(r)
  BY DEF TimestampInv
<1>1. h \in AtWork
  BY <1>t DEF AcceptOrdered, AtWork, NotHandling
<1>2. PICK r \in RecordId, packet \in network :
        r = handling[h].record /\ packet = handling[h].packet
  BY <1>1, <1>t, TaskHas DEF HandlingInv
<1>3. /\ handling[h].step = "set"
      /\ SetLast(r, packet.timestamp)
      /\ accepted' = [accepted EXCEPT ![r].newest = IF packet.seq > @ THEN packet.seq ELSE @,
                                      ![r].latest = packet.seq]
      /\ newest' = IF packet.seq > newest THEN packet.seq ELSE newest
      /\ handling' = [handling EXCEPT ![h] = NotHandling]
      /\ UNCHANGED <<sender, present, made, refused>>
      /\ UNCHANGED <<network, sendersRaced>>
  BY <1>2 DEF AcceptOrdered, sender
<1>4. /\ HandlingInv'
      /\ handling' \in [Handler -> {NotHandling} \cup
                          [step : {"compare", "set"}, packet : Packet, record : RecordId]]
      /\ \A q \in RecordId : Holders(q)' = Holders(q) \ {h}
      /\ \A q \in RecordId : \A g \in Holders(q)' : handling'[g] = handling[g]
  BY <1>1, <1>3, <1>t, ReleaseKeeps
<1>5. /\ packet.seq \in Sequence /\ packet.timestamp \in Timestamp
      /\ packet.seq \in Nat /\ ~packet.ignore
  BY <1>1, <1>2, <1>3, <1>t, TaskHas DEF HandlingInv, Sequence
<1>6. /\ records' \in [RecordId -> Record]
      /\ records'[r].last = packet.timestamp
      /\ records'[r].timedOut = IF packet.timestamp > 0 THEN 0 ELSE records[r].timedOut
      /\ \A q \in RecordId : q # r => records'[q] = records[q]
  BY <1>3, <1>5, <1>t, SetLastWrites
<1>7. /\ accepted' \in [RecordId -> [newest : {0} \cup Sequence, latest : {0} \cup Sequence,
                                     raced : BOOLEAN]]
      /\ \A q \in RecordId : q # r => accepted'[q] = accepted[q]
      /\ accepted'[r].newest =
           IF packet.seq > accepted[r].newest THEN packet.seq ELSE accepted[r].newest
      /\ accepted'[r].latest = packet.seq
      /\ accepted'[r].raced = accepted[r].raced
  <2>1. PICK old \in [newest : {0} \cup Sequence, latest : {0} \cup Sequence,
                      raced : BOOLEAN] : old = accepted[r]
    BY <1>t DEF TypeOK
  <2>2. PICK most \in {0} \cup Sequence :
          most = IF packet.seq > old.newest THEN packet.seq ELSE old.newest
    BY <1>5, <2>1
  <2>3. PICK new : new = [old EXCEPT !.newest = most, !.latest = packet.seq]
    OBVIOUS
  <2>4. /\ new \in [newest : {0} \cup Sequence, latest : {0} \cup Sequence, raced : BOOLEAN]
        /\ new.newest = most /\ new.latest = packet.seq /\ new.raced = old.raced
    BY <1>5, <2>1, <2>2, <2>3
  <2>5. accepted' = [accepted EXCEPT ![r] = new]
    <3>1. accepted' = [accepted EXCEPT ![r] =
                         [old EXCEPT !.newest = most, !.latest = packet.seq]]
      BY <1>3, <1>t, <2>1, <2>2 DEF TypeOK
    <3> QED BY <2>3, <3>1
  <2> QED BY <1>t, <2>1, <2>2, <2>4, <2>5 DEF TypeOK
<1>8. /\ newest' \in {0} \cup Sequence
      /\ newest \in Nat /\ newest' \in Nat /\ newest <= newest' /\ packet.seq <= newest'
  BY <1>3, <1>5, <1>t DEF TypeOK, Sequence
<1>9. TypeOK'
  BY <1>3, <1>4, <1>6, <1>7, <1>8, <1>t DEF TypeOK, sender
<1>10. NetworkInv' /\ StampInv'
  BY <1>3, SenderKeeps
<1>11. RecordsInv'
  <2>1. r <= made
    BY <1>1, <1>2, <1>t DEF HandlingInv
  <2>2. made \in Nat /\ r \in Nat
    BY <1>t DEF TypeOK, RecordId
  <2>3. \A q \in RecordId : q > made => q # r
    BY <2>1, <2>2
  <2>4. present # NoRecord => present \in RecordId
    BY <1>t DEF TypeOK
  <2>5. records[r].timedOut <= TimedOutLimit => records'[r].timedOut <= TimedOutLimit
    BY <1>6, TimedOutLimitIsNatural
  <2> QED BY <1>3, <1>6, <1>7, <1>t, <2>3, <2>4, <2>5 DEF RecordsInv
<1>12. LastInv'
  <2>1. \A p \in network : p.seq \in Nat
    BY <1>t DEF TypeOK, Packet, Sequence
  <2>2. \A p \in network : p.seq <= newest => p.seq <= newest'
    BY <1>8, <2>1
  <2> QED BY <1>3, <1>5, <1>6, <1>8, <1>t, <2>2 DEF LastInv
<1>13. RefusedWasOvertaken'
  <2>1. refused \in Nat
    BY <1>t DEF TypeOK, Sequence
  <2> QED BY <1>3, <1>8, <1>t, <2>1 DEF RefusedWasOvertaken
<1>14. ASSUME NEW q \in RecordId, q # r PROVE OrderInv(q)'
  <2>1. Holders(q)' = Holders(q)
    BY <1>2, <1>4, <1>14 DEF Holders
  <2> QED BY <1>3, <1>4, <1>6, <1>7, <1>14, <1>t, <2>1 DEF OrderInv
<1>15. OrderInv(r)'
  <2>1. SUFFICES ASSUME ~accepted[r].raced PROVE OrderInv(r)'
    BY <1>7 DEF OrderInv
  <2>2. Holders(r)' = {}
    BY <1>1, <1>2, <1>4, <1>t, <2>1, TaskHas DEF OrderInv
  <2>3. SUFFICES ASSUME ~sendersRaced PROVE accepted'[r].latest = accepted'[r].newest
    BY <1>3, <1>5, <1>6, <1>7, <2>2 DEF OrderInv
  <2>4. packet.seq >= accepted[r].newest
    BY <1>1, <1>2, <1>3, <1>t, <2>1, <2>3, TaskHas DEF OrderInv
  <2>5. accepted[r].newest \in Nat
    BY <1>t DEF TypeOK, Sequence
  <2> QED BY <1>5, <1>7, <2>4, <2>5
<1> QED BY <1>4, <1>9, <1>10, <1>11, <1>12, <1>13, <1>14, <1>15 DEF TimestampInv

-----------------------------------------------------------------------------
(* The theorems.                                                           *)

\* Every step keeps the invariant.
LEMMA TimestampStep == TimestampInv /\ [Next]_vars => TimestampInv'
<1> SUFFICES ASSUME TimestampInv, [Next]_vars PROVE TimestampInv'
  OBVIOUS
<1>1. CASE \E s \in SendThread, critical \in BOOLEAN : ChooseFlags(s, critical)
  BY <1>1, ChooseFlagsKeeps
<1>2. CASE \E s \in SendThread : Send(s)
  BY <1>2, SendKeeps
<1>3. CASE \E h \in Handler, packet \in network : LookUp(h, packet)
  BY <1>3, LookUpKeeps
<1>4. CASE \E h \in Handler : AcceptUnordered(h)
  BY <1>4, AcceptUnorderedKeeps
<1>5. CASE \E h \in Handler : Compare(h)
  BY <1>5, CompareKeeps
<1>6. CASE \E h \in Handler : AcceptOrdered(h)
  BY <1>6, AcceptOrderedKeeps
<1>7. CASE TimeoutCheck
  BY <1>7, TimeoutCheckKeeps
<1>8. CASE UNCHANGED vars
  <2>1. UNCHANGED <<sender, receiver>>
    BY <1>8 DEF vars
  <2>2. NetworkInv' /\ StampInv'
    BY <2>1, SenderKeeps
  <2>3. UNCHANGED <<network, sendersRaced>> /\ TypeOK
    BY <2>1 DEF sender, TimestampInv
  <2>4. /\ HandlingInv' /\ RecordsInv' /\ LastInv' /\ RefusedWasOvertaken'
        /\ \A r \in RecordId : OrderInv(r)'
    BY <2>1, <2>3, ReceiverKeeps DEF TypeOK
  <2>5. TypeOK'
    BY <2>1, <2>3 DEF sender, receiver, TypeOK
  <2> QED BY <2>2, <2>4, <2>5 DEF TimestampInv
<1> QED BY <1>1, <1>2, <1>3, <1>4, <1>5, <1>6, <1>7, <1>8 DEF Next

\* The invariant holds in every state of the counter and the records.
THEOREM TimestampInvariance == Spec => []TimestampInv
<1>1. Init => TimestampInv
  BY TimestampInit
<1>2. TimestampInv /\ [Next]_vars => TimestampInv'
  BY TimestampStep
<1> QED BY <1>1, <1>2, PTL DEF Spec

\* Every variable of the two ends keeps its type: the counter stays within 16 bits and no
\* record that is kept has timed out too often.
THEOREM TimestampTypes == Spec => []TypeOK
<1>1. TimestampInv => TypeOK
  BY DEF TimestampInv
<1> QED BY <1>1, TimestampInvariance, PTL

\* Between two resets of a record, the message accepted last is the newest accepted, unless
\* two tasks had the record at once or two threads stamped at once.
THEOREM AcceptedInOrder == Spec => []LatestIsNewest
<1>1. TimestampInv => LatestIsNewest
  BY DEF TimestampInv, OrderInv, LatestIsNewest
<1> QED BY <1>1, TimestampInvariance, PTL

\* A message refused for its timestamp was overtaken by a newer one, unless two threads
\* stamped at once.
THEOREM RefusalIsJust == Spec => []RefusedWasOvertaken
<1>1. TimestampInv => RefusedWasOvertaken
  BY DEF TimestampInv
<1> QED BY <1>1, TimestampInvariance, PTL
=============================================================================
