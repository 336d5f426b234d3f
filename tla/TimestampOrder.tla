--------------------------- MODULE TimestampOrder ---------------------------
(***************************************************************************)
(* Time-order-critical messages of BKUDPHandler, in one direction: the     *)
(* sender stamps them from a counter, and the receiver keeps, for each     *)
(* address and port, a BKOtherPartyRecord with the last timestamp it took, *)
(* and refuses an older one.  A silent party's record is reset, and in the *)
(* end forgotten.                                                          *)
(*                                                                         *)
(* Both ends are concurrent: any thread may send, and every datagram is    *)
(* analyzed by a task of its own.  The counter and the record have locks,  *)
(* which are taken anew for each read and each write.                      *)
(***************************************************************************)
EXTENDS Integers, FiniteSets

CONSTANTS
  SendThread,      \* threads that make packets for the same handler
  Handler,         \* tasks that analyze datagrams at the receiver
  Top,             \* the largest timestamp: 65535
  TimeoutTicks,    \* BKOtherPartyRecord::TimeoutValueMS, in timeout checks: 100
  TimedOutLimit,   \* what TimedOutCount has to exceed: 12
  AgeBound,        \* bound: ages beyond it, which the code does not tell apart, are one
  MaxSent,         \* bound on packets
  MaxRecords       \* bound on records made for the sender

ASSUME TopIsPositive == Top \in Nat \ {0}
ASSUME TimeoutTicksIsPositive == TimeoutTicks \in Nat \ {0}
ASSUME TimedOutLimitIsNatural == TimedOutLimit \in Nat
ASSUME AgeBoundCoversTimeout == AgeBound \in Nat /\ AgeBound >= TimeoutTicks
ASSUME BoundsAreNatural == MaxSent \in Nat /\ MaxRecords \in Nat

Sequence == 1..MaxSent      \* the order in which timestamps are generated
RecordId == 1..MaxRecords
NoRecord == 0
Timestamp == 0..Top

Packet == [seq : Sequence, critical : BOOLEAN, ignore : BOOLEAN, timestamp : Timestamp]

\* A BKOtherPartyRecord: LastSendersideTimestamp, TimedOutCount, and the timeout checks
\* since LastInteraction.
Record == [last : Timestamp, timedOut : 0..(TimedOutLimit + 1),
           age : 0..AgeBound]
FreshRecord == [last |-> 0, timedOut |-> 0, age |-> 0]

VARIABLES
  generated,   \* LastThissideGeneratedTimestamp
  sending,     \* sending[s]: the flags with which s is making a packet
  network,     \* packets sent: any of them may arrive, at any time, any number of times
  records,     \* the records made so far
  present,     \* the one in OtherPartiesRecords
  made,        \* how many were made
  handling,    \* handling[h]: the packet h analyzes, and the record it looked up
  accepted,    \* history: what each record accepted since its reset, and whether two tasks
               \* had it at once since then
  newest,      \* history: newest message ever accepted
  refused,     \* history: newest message ever refused for its timestamp
  sendersRaced \* history: two threads made packets at once

sender == <<generated, sending, network, sendersRaced>>
receiver == <<records, present, made, handling, accepted, newest, refused>>
vars == <<sender, receiver>>

NotSending == [step |-> "idle", critical |-> FALSE, ignore |-> FALSE]
NotHandling == [step |-> "idle"]
NothingAccepted == [newest |-> 0, latest |-> 0, raced |-> FALSE]

TypeOK ==
  /\ generated \in Timestamp
  /\ sending \in [SendThread -> {NotSending} \cup
                    [step : {"make"}, critical : BOOLEAN, ignore : BOOLEAN]]
  /\ network \subseteq Packet
  /\ records \in [RecordId -> Record]
  /\ present \in {NoRecord} \cup RecordId
  /\ made \in 0..MaxRecords
  /\ handling \in [Handler -> {NotHandling} \cup
                     [step : {"compare", "set"}, packet : Packet, record : RecordId]]
  /\ accepted \in [RecordId -> [newest : {0} \cup Sequence, latest : {0} \cup Sequence,
                               raced : BOOLEAN]]
  /\ newest \in {0} \cup Sequence
  /\ refused \in {0} \cup Sequence
  /\ sendersRaced \in BOOLEAN

Init ==
  /\ generated = 0
  /\ sending = [s \in SendThread |-> NotSending]
  /\ network = {}
  /\ records = [r \in RecordId |-> FreshRecord]
  /\ present = NoRecord
  /\ made = 0
  /\ handling = [h \in Handler |-> NotHandling]
  /\ accepted = [r \in RecordId |-> NothingAccepted]
  /\ newest = 0
  /\ refused = 0
  /\ sendersRaced = FALSE

-----------------------------------------------------------------------------
(* MakeByteArrayForNetworkData.                                            *)

Busy == {s \in SendThread : sending[s] # NotSending}

\* Fault: the end of the counter is not announced.
ChooseFlagsPlain(s, critical) ==
  /\ sending[s] = NotSending
  /\ Cardinality(network) + Cardinality(Busy) < MaxSent
  /\ sending' = [sending EXCEPT ![s] =
                   [step |-> "make", critical |-> critical, ignore |-> ~critical]]
  /\ sendersRaced' = (sendersRaced \/ Busy # {})
  /\ UNCHANGED <<generated, network, receiver>>

\* At the end of the counter every message is made reliable and carries no timestamp.
ChooseFlags(s, critical) ==
  /\ sending[s] = NotSending
  /\ Cardinality(network) + Cardinality(Busy) < MaxSent
  /\ sending' = [sending EXCEPT ![s] =
                   [step |-> "make", critical |-> critical,
                    ignore |-> ~critical \/ generated = Top]]
  /\ sendersRaced' = (sendersRaced \/ Busy # {})
  /\ UNCHANGED <<generated, network, receiver>>

\* A timestamp is generated, unless the flags say that it is ignored, and the packet sent.
Send(s) ==
  LET stamp == IF generated = Top THEN 0 ELSE generated + 1 IN
  /\ sending[s] # NotSending
  /\ generated' = IF sending[s].ignore THEN generated ELSE stamp
  /\ network' = network \cup
       {[seq |-> Cardinality(network) + 1, critical |-> sending[s].critical,
         ignore |-> sending[s].ignore,
         timestamp |-> IF sending[s].ignore THEN 0 ELSE stamp]}
  /\ sending' = [sending EXCEPT ![s] = NotSending]
  /\ UNCHANGED <<sendersRaced, receiver>>

-----------------------------------------------------------------------------
(* AnalyzeNetworkDataWithByteArray, once the checksum was found right.     *)

Holders(r) == {h \in Handler : handling[h] # NotHandling /\ handling[h].record = r}

\* History: record r is reset while the tasks in `holders' have it.
ResetAccepted(r, holders) ==
  accepted' = [accepted EXCEPT ![r] =
                 [NothingAccepted EXCEPT !.raced = Cardinality(holders) > 1]]

\* The record of the sender is looked up, or made, under the lock of OtherPartiesRecords.
LookUp(h, packet) ==
  /\ handling[h] = NotHandling
  /\ packet \in network
  /\ \/ /\ present # NoRecord
        /\ records' = [records EXCEPT ![present].age = 0]
        /\ handling' = [handling EXCEPT ![h] =
                          [step |-> "compare", packet |-> packet, record |-> present]]
        /\ UNCHANGED <<present, made>>
     \/ /\ present = NoRecord
        /\ made < MaxRecords
        /\ made' = made + 1
        /\ present' = made + 1
        /\ handling' = [handling EXCEPT ![h] =
                          [step |-> "compare", packet |-> packet, record |-> made + 1]]
        /\ UNCHANGED records
  /\ accepted' = [accepted EXCEPT ![handling'[h].record].raced =
                     @ \/ Holders(handling'[h].record) # {}]
  /\ UNCHANGED <<sender, newest, refused>>

\* SetLastSendersideTimestamp.
SetLast(r, timestamp) ==
  records' = [records EXCEPT ![r].last = timestamp,
                             ![r].timedOut = IF timestamp > 0 THEN 0 ELSE @]

\* A packet without timestamp is accepted, and resets the record.
AcceptUnordered(h) ==
  LET r == handling[h].record IN
  /\ handling[h].step = "compare"
  /\ handling[h].packet.ignore
  /\ SetLast(r, 0)
  /\ ResetAccepted(r, Holders(r))
  /\ handling' = [handling EXCEPT ![h] = NotHandling]
  /\ UNCHANGED <<sender, present, made, newest, refused>>

\* Fault: a timestamp is compared with nothing.
StaleNever(r, packet) == FALSE

Stale(r, packet) == records[r].last # 0 /\ packet.timestamp < records[r].last

\* LastSendersideTimestamp is read; an older packet goes no further.
Compare(h) ==
  LET packet == handling[h].packet
      r == handling[h].record IN
  /\ handling[h].step = "compare"
  /\ ~packet.ignore
  /\ \/ /\ Stale(r, packet)
        /\ handling' = [handling EXCEPT ![h] = NotHandling]
        /\ refused' = IF packet.seq > refused THEN packet.seq ELSE refused
     \/ /\ ~Stale(r, packet)
        /\ handling' = [handling EXCEPT ![h].step = "set"]
        /\ UNCHANGED refused
  /\ UNCHANGED <<sender, records, present, made, accepted, newest>>

\* LastSendersideTimestamp is written, and the message accepted.
AcceptOrdered(h) ==
  LET packet == handling[h].packet
      r == handling[h].record IN
  /\ handling[h].step = "set"
  /\ SetLast(r, packet.timestamp)
  /\ accepted' = [accepted EXCEPT ![r].newest = IF packet.seq > @ THEN packet.seq ELSE @,
                                  ![r].latest = packet.seq]
  /\ newest' = IF packet.seq > newest THEN packet.seq ELSE newest
  /\ handling' = [handling EXCEPT ![h] = NotHandling]
  /\ UNCHANGED <<sender, present, made, refused>>

\* One run of the timeout check over the sender's record: BKOtherPartyRecord's
\* ResetterFunction once the party has been silent for TimeoutTicks, and at every check
\* from then on, because it does not count as an interaction.
TimeoutCheck ==
  LET age == IF records[present].age < AgeBound THEN records[present].age + 1 ELSE AgeBound
      timedOut == records[present].timedOut + 1 IN
  /\ present # NoRecord
  /\ \/ /\ age < TimeoutTicks
        /\ records' = [records EXCEPT ![present].age = age]
        /\ UNCHANGED <<present, accepted>>
     \/ /\ age >= TimeoutTicks
        /\ records' = [records EXCEPT ![present] =
                         [last |-> 0, timedOut |-> timedOut, age |-> age]]
        /\ present' = IF timedOut > TimedOutLimit THEN NoRecord ELSE present
        /\ ResetAccepted(present, Holders(present))
  /\ UNCHANGED <<sender, made, handling, newest, refused>>

-----------------------------------------------------------------------------
Next ==
  \/ \E s \in SendThread, critical \in BOOLEAN : ChooseFlags(s, critical)
  \/ \E s \in SendThread : Send(s)
  \/ \E h \in Handler : \/ \E packet \in network : LookUp(h, packet)
                        \/ AcceptUnordered(h)
                        \/ Compare(h)
                        \/ AcceptOrdered(h)
  \/ TimeoutCheck

Spec == Init /\ [][Next]_vars

-----------------------------------------------------------------------------
(* Properties.                                                             *)

\* Between two resets of a record, the message accepted last is the newest accepted:
\* time-order-critical messages are taken in the order in which they were stamped,
\* whatever the network does (the comparison in AnalyzeNetworkDataWithByteArray).  It
\* takes that no two tasks had the record at once since its reset, and that no two threads
\* stamped at once.
LatestIsNewest ==
  sendersRaced \/ \A r \in RecordId : accepted[r].raced
                                     \/ accepted[r].latest = accepted[r].newest

\* A message refused for its timestamp had been overtaken by a newer one: the end of the
\* counter never makes the receiver take new messages for old, as long as no two threads
\* stamp at once (MakeByteArrayForNetworkData's case of 65535).
RefusedWasOvertaken == sendersRaced \/ (refused > 0 => refused < newest)

\* The header of BKUDPHandler: where the timestamp would be 0, one package without
\* timestamp is sent instead.  The code sends every package that way from then on: false.
OneResetPackage == Cardinality({p \in network : p.critical /\ p.ignore}) <= 1

\* BKOtherPartyRecord: a party is forgotten after TimedOutLimit timeouts in a row, which
\* is to mean two minutes of silence.  The timeouts after the first come one per check:
\* false.
RememberedForTwoMinutes ==
  [][present # NoRecord /\ present' = NoRecord
       => records[present].age + 1 >= TimeoutTicks * TimedOutLimit]_vars
=============================================================================
