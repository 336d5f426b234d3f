--------------------------- MODULE RecordPoolProofs ---------------------------
(***************************************************************************)
(* Theorems about RecordPool and UDPServer, for any tasks, records and     *)
(* keys: a freed record is in no table and in no CloseCase, and only those *)
(* who let 100 ms pass can have one; records are removed before they are   *)
(* marked and pooled when they are, the callback of a marked handler is    *)
(* called, EndSystem frees everything, and the handler of a BKUDPServer    *)
(* keeps all this.                                                         *)
(***************************************************************************)
EXTENDS UDPServer, FiniteSetTheorems, TLAPS

USE DEF freeing

-----------------------------------------------------------------------------
(* Queues and the set of their elements.                                   *)

\* A pushed element is in the queue, beside those that were there.
LEMMA PushToSet ==
  ASSUME NEW S, NEW s \in Seq(S), NEW x \in S
  PROVE  /\ Append(s, x) \in Seq(S)
         /\ ToSet(Append(s, x)) = ToSet(s) \cup {x}
<1>1. /\ Append(s, x) \in Seq(S)
      /\ Len(Append(s, x)) = Len(s) + 1
      /\ \A i \in 1..Len(s) : Append(s, x)[i] = s[i]
      /\ Append(s, x)[Len(s) + 1] = x
  OBVIOUS
<1>2. DOMAIN s = 1..Len(s) /\ DOMAIN Append(s, x) = 1..(Len(s) + 1) /\ Len(s) \in Nat
  OBVIOUS
<1>3. ASSUME NEW y \in ToSet(Append(s, x)) PROVE y \in ToSet(s) \cup {x}
  BY <1>1, <1>2 DEF ToSet
<1>4. ToSet(s) \subseteq ToSet(Append(s, x))
  BY <1>1, <1>2 DEF ToSet
<1>5. x \in ToSet(Append(s, x))
  BY <1>1, <1>2 DEF ToSet
<1>6. QED
  BY <1>1, <1>3, <1>4, <1>5

\* What is popped was in the queue, and the rest stays.
LEMMA PopToSet ==
  ASSUME NEW S, NEW s \in Seq(S), s # <<>>
  PROVE  /\ Head(s) \in S
         /\ Head(s) \in ToSet(s)
         /\ Tail(s) \in Seq(S)
         /\ ToSet(s) = {Head(s)} \cup ToSet(Tail(s))
<1>1. /\ Len(s) \in Nat \ {0} /\ DOMAIN s = 1..Len(s)
      /\ Head(s) = s[1] /\ Head(s) \in S /\ Tail(s) \in Seq(S)
      /\ Len(Tail(s)) = Len(s) - 1
      /\ \A i \in 1..(Len(s) - 1) : Tail(s)[i] = s[i + 1]
  OBVIOUS
<1>2. DOMAIN Tail(s) = 1..(Len(s) - 1)
  BY <1>1
<1>3. Head(s) \in ToSet(s)
  BY <1>1 DEF ToSet
<1>4. ToSet(Tail(s)) \subseteq ToSet(s)
  <2>1. SUFFICES ASSUME NEW i \in 1..(Len(s) - 1) PROVE Tail(s)[i] \in ToSet(s)
    BY <1>2 DEF ToSet
  <2>2. Tail(s)[i] = s[i + 1] /\ i + 1 \in 1..Len(s)
    BY <1>1
  <2>3. QED
    BY <1>1, <2>2 DEF ToSet
<1>5. ToSet(s) \subseteq {Head(s)} \cup ToSet(Tail(s))
  <2>1. SUFFICES ASSUME NEW i \in 1..Len(s), i # 1 PROVE s[i] \in ToSet(Tail(s))
    BY <1>1 DEF ToSet
  <2>2. PICK j \in 1..(Len(s) - 1) : i = j + 1
    <3>1. i - 1 \in 1..(Len(s) - 1) /\ i = (i - 1) + 1
      BY <1>1, <2>1
    <3>2. QED
      BY <3>1
  <2>3. Tail(s)[j] = s[i]
    BY <1>1, <2>2
  <2>4. QED
    BY <1>2, <2>3 DEF ToSet
<1>6. QED
  BY <1>1, <1>3, <1>4, <1>5

\* Two queues, one after the other.
LEMMA ConcatToSet ==
  ASSUME NEW S, NEW s \in Seq(S), NEW t \in Seq(S)
  PROVE  s \o t \in Seq(S) /\ ToSet(s \o t) = ToSet(s) \cup ToSet(t)
<1>1. /\ s \o t \in Seq(S) /\ Len(s \o t) = Len(s) + Len(t)
      /\ \A i \in 1..Len(s) : (s \o t)[i] = s[i]
      /\ \A i \in 1..Len(t) : (s \o t)[Len(s) + i] = t[i]
      /\ Len(s) \in Nat /\ Len(t) \in Nat
      /\ DOMAIN s = 1..Len(s) /\ DOMAIN t = 1..Len(t)
      /\ DOMAIN (s \o t) = 1..(Len(s) + Len(t))
  OBVIOUS
<1> DEFINE c == s \o t
<1> HIDE DEF c
<1>2. ToSet(s) \subseteq ToSet(c)
  BY <1>1 DEF ToSet, c
<1>3. ToSet(t) \subseteq ToSet(c)
  <2>1. SUFFICES ASSUME NEW i \in 1..Len(t) PROVE t[i] \in ToSet(c)
    BY <1>1 DEF ToSet
  <2>2. Len(s) + i \in DOMAIN c /\ c[Len(s) + i] = t[i]
    BY <1>1 DEF c
  <2>3. QED
    BY <2>2 DEF ToSet
<1>4. ToSet(c) \subseteq ToSet(s) \cup ToSet(t)
  <2>1. SUFFICES ASSUME NEW i \in DOMAIN c PROVE c[i] \in ToSet(s) \cup ToSet(t)
    BY DEF ToSet
  <2>2. i \in 1..Len(s) \/ \E j \in 1..Len(t) : i = Len(s) + j
    <3>1. i \in 1..(Len(s) + Len(t))
      BY <1>1 DEF c
    <3>2. i > Len(s) => i - Len(s) \in 1..Len(t) /\ i = Len(s) + (i - Len(s))
      BY <1>1, <3>1
    <3>3. QED
      BY <1>1, <3>1, <3>2
  <2>3. QED
    BY <1>1, <2>2 DEF ToSet, c
<1>5. QED
  BY <1>1, <1>2, <1>3, <1>4 DEF c

\* The empty queue.
LEMMA EmptyToSet == ToSet(<<>>) = {} /\ IsInjective(<<>>)
BY DEF ToSet, IsInjective

-----------------------------------------------------------------------------

TaskValue == [at : {"idle", "asked", "make", "found", "close", "remove", "mark", "doom", "pool",
                    "undefined"},
              rec : Record \cup {NoRecord}, key : Key \cup {NoKey}, late : BOOLEAN]

Empty == {"idle", "asked"}
Unreferenced == {"found", "close"}
Closing == {"remove", "mark", "doom", "pool"}
Unlinked == {"mark", "doom", "pool"}

TickerValue == [at : {"idle", "check", "remove", "mark", "doom", "pool", "deallocate", "undefined"},
                rec : Record \cup {NoRecord}, snapshot : Seq(Record), tmp : Seq(Record)]

\* The tasks that close r: each holds a reference.
Closers(r) == {p \in Task : task[p].rec = r /\ task[p].at \in Closing}

\* A thread has a record unless it is idle or has only passed the test of bPendingKill, and
\* the ticker only while it gives one up.
ThreadsInv ==
  /\ ticker \in TickerValue
  /\ ticker.rec # NoRecord <=> ticker.at \in Closing
  /\ ticker.at \in {"idle", "deallocate"} => ticker.snapshot = <<>> /\ ticker.tmp = <<>>
  /\ \A p \in Task : IF task[p].at \in Empty THEN task[p].rec = NoRecord
                     ELSE task[p].rec \in Record /\ task[p].key \in Key

CountInv ==
  \A r \in Record :
    /\ IsFiniteSet(Closers(r))
    /\ refs[r] = Cardinality(Closers(r)) + (IF ticker.rec = r THEN 1 ELSE 0)

\* What holds even when EndSystem meets other threads.
BasicInv ==
  /\ TypeOK
  /\ ThreadsInv
  /\ CountInv
  /\ ending = "no" => ~disturbed

\* What is in a table is alive, and there under its key.
TableInv ==
  \A k \in Key : table[k] # NoRecord =>
    /\ made[table[k]] = "live"
    /\ ~doomed[table[k]]
    /\ key[table[k]] = k

\* A task that makes a record holds the lock of the record's table, where there is none, and
\* is the only one to know it; one that closes a record has removed it before it marks it.
\* One that has a record unreferenced is late once the record is old.
TaskInv(p) ==
  LET r == task[p].rec IN
  task[p].at \notin Empty =>
    /\ key[r] = task[p].key
    /\ made[r] # "no"
    /\ made[r] = "base" <=> task[p].at = "make"
    /\ task[p].at = "undefined" => made[r] = "freed"
    /\ task[p].at = "make" =>
         /\ table[task[p].key] = NoRecord
         /\ holder[TableOf(task[p].key)] = p
    /\ task[p].at \in {"close"} \cup Closing => task[p].key \in Connection
    /\ task[p].at \in Closing => made[r] = "live"
    /\ task[p].at \in Unlinked =>
         /\ holder["connections"] = p
         /\ table[task[p].key] # r
         /\ r \in removed
    /\ task[p].at = "pool" => doomed[r]
    /\ task[p].at \in Unreferenced /\ pool[r] = "old" => task[p].late
    /\ made[r] = "freed" => task[p].late \/ r \in hasty

TickerInv ==
  LET r == ticker.rec IN
  ticker.at \in Closing =>
    /\ made[r] = "live"
    /\ ticker.at \in Unlinked => table[key[r]] # r /\ r \in removed
    /\ ticker.at = "pool" => doomed[r]

Queued(r) == r \in ToSet(checks) \cup ToSet(ticker.snapshot) \cup ToSet(ticker.tmp)

Making(r) == \E p \in Task : task[p].at = "make" /\ task[p].rec = r

Unlinking(r) == \/ \E p \in Task : task[p].rec = r /\ task[p].at \in Unlinked
                \/ ticker.rec = r /\ ticker.at \in Unlinked

Pooling(r) == \/ \E p \in Task : task[p].rec = r /\ task[p].at = "pool"
              \/ ticker.rec = r /\ ticker.at = "pool"

\* The life of a record: made by one task, and pooled by whoever marked it.
MemoryInv(r) ==
  /\ made[r] = "base" => Making(r)
  /\ made[r] # "no" => key[r] \in Key
  /\ doomed[r] => made[r] \in {"live", "freed"}
  /\ pool[r] # NotPooled => doomed[r] /\ made[r] = "live"
  /\ doomed[r] /\ made[r] = "live" => pool[r] # NotPooled \/ Pooling(r)

\* It leaves the queue with the first check that begins after it was pooled.  Until then it
\* is overdue when it is old.
QueueInv(r) ==
  /\ Queued(r) => made[r] # "no" /\ (made[r] = "freed" => r \in overdue \cup hasty)
  /\ pool[r] = "seen" => r \notin ToSet(checks) \cup ToSet(ticker.tmp)
  /\ pool[r] = "old" /\ r \notin overdue => r \notin ToSet(checks) \cup ToSet(ticker.tmp)

\* Who removed it by its key marks it; it is missing from its table for no other reason than
\* a removal meant for another record.
RemovedInv(r) ==
  /\ r \in removed => made[r] \in {"live", "freed"} /\ (doomed[r] \/ Unlinking(r))
  /\ made[r] = "live" /\ ~doomed[r] /\ r \notin removed /\ table[key[r]] # r
       => \E x \in removed \ {r} : key[x] = key[r]

CallbackInv == life = "dying" /\ ConnectionsEmpty(table) => called

\* While the handler is up.
UpInv ==
  /\ TableInv
  /\ \A p \in Task : TaskInv(p)
  /\ TickerInv
  /\ \A r \in Record : MemoryInv(r) /\ QueueInv(r) /\ RemovedInv(r)
  /\ CallbackInv

\* While EndSystem is alone in the handler, it still has to find each record that is left.
EndInv ==
  \A r \in Record :
    /\ doomed[r] /\ made[r] # "freed" => pool[r] # NotPooled
    /\ \/ made[r] \in {"no", "freed"}
       \/ \E x \in removed \ {r} : key[x] = key[r]
       \/ pool[r] # NotPooled /\ ending # "ended"
       \/ \E k \in Connection : table[k] = r /\ ending \in {"queue", "connections"}
       \/ \E k \in Party : table[k] = r /\ ending \in {"queue", "connections", "parties"}

HandlerInv ==
  /\ BasicInv
  /\ ending = "no" => UpInv
  /\ ending # "no" /\ ~disturbed => EndInv

-----------------------------------------------------------------------------
(* References.                                                             *)

\* A task without a reference changes what it does with its record.
LEMMA CountKept ==
  ASSUME CountInv, refs' = refs, ticker'.rec = ticker.rec,
         \A r \in Record : Closers(r)' = Closers(r)
  PROVE  CountInv'
BY DEF CountInv

\* A task that closes a record takes a reference first.
LEMMA CountTaken ==
  ASSUME BasicInv, NEW p \in Task, NEW x \in Record, task[p].rec = x, task[p].at \notin Closing,
         task' = [task EXCEPT ![p].at = "remove"], refs' = [refs EXCEPT ![x] = @ + 1],
         ticker' = ticker
  PROVE  CountInv' /\ refs' \in [Record -> Nat]
<1>1. \A q \in Task : /\ task'[q].rec = task[q].rec
                      /\ task'[q].at = IF q = p THEN "remove" ELSE task[q].at
  BY DEF BasicInv, TypeOK
<1>2. Closers(x)' = Closers(x) \cup {p} /\ p \notin Closers(x)
  BY <1>1 DEF Closers, Closing
<1>3. \A r \in Record : r # x => Closers(r)' = Closers(r)
  BY <1>1 DEF Closers, Closing
<1>4. IsFiniteSet(Closers(x)') /\ Cardinality(Closers(x)') = Cardinality(Closers(x)) + 1
  BY <1>2, FS_AddElement DEF BasicInv, CountInv
<1>5. refs' \in [Record -> Nat] /\ refs'[x] = refs[x] + 1
      /\ \A r \in Record : r # x => refs'[r] = refs[r]
  BY DEF BasicInv, TypeOK
<1>6. Cardinality(Closers(x)) \in Nat
  BY FS_CardinalityType DEF BasicInv, CountInv
<1>7. ASSUME NEW r \in Record
      PROVE  /\ IsFiniteSet(Closers(r))'
             /\ refs'[r] = Cardinality(Closers(r))' + (IF ticker'.rec = r THEN 1 ELSE 0)
  <2>1. CASE r = x
    BY <1>4, <1>5, <1>6, <2>1 DEF BasicInv, CountInv
  <2>2. CASE r # x
    BY <1>3, <1>5, <2>2 DEF BasicInv, CountInv
  <2>3. QED
    BY <2>1, <2>2
<1>8. QED
  BY <1>5, <1>7 DEF CountInv

\* ... and gives it back when it has closed it.
LEMMA CountReturned ==
  ASSUME BasicInv, NEW p \in Task, NEW x \in Record, task[p].rec = x, task[p].at \in Closing,
         task' = [task EXCEPT ![p] = Idle], refs' = [refs EXCEPT ![x] = @ - 1],
         ticker' = ticker
  PROVE  CountInv' /\ refs' \in [Record -> Nat]
<1>1. \A q \in Task : task'[q] = IF q = p THEN Idle ELSE task[q]
  BY DEF BasicInv, TypeOK
<1>2. Idle.at \notin Closing
  BY DEF Idle, Closing
<1>3. Closers(x)' = Closers(x) \ {p} /\ p \in Closers(x)
  BY <1>1, <1>2 DEF Closers
<1>4. \A r \in Record : r # x => Closers(r)' = Closers(r)
  BY <1>1, <1>2 DEF Closers
<1>5. IsFiniteSet(Closers(x)') /\ Cardinality(Closers(x)') = Cardinality(Closers(x)) - 1
  BY <1>3, FS_RemoveElement DEF BasicInv, CountInv
<1>6. Cardinality(Closers(x)) \in Nat /\ Cardinality(Closers(x)') \in Nat /\ refs[x] \in Nat
  BY <1>5, FS_CardinalityType DEF BasicInv, CountInv, TypeOK
<1>7. refs'[x] = refs[x] - 1 /\ \A r \in Record : r # x => refs'[r] = refs[r]
  BY DEF BasicInv, TypeOK
<1>8. refs'[x] = Cardinality(Closers(x))' + (IF ticker'.rec = x THEN 1 ELSE 0)
  BY <1>5, <1>6, <1>7 DEF BasicInv, CountInv
<1>9. refs' \in [Record -> Nat]
  <2>1. refs[x] - 1 \in Nat
    BY <1>6, <1>7, <1>8
  <2>2. QED
    BY <2>1 DEF BasicInv, TypeOK
<1>10. ASSUME NEW r \in Record
       PROVE  /\ IsFiniteSet(Closers(r))'
              /\ refs'[r] = Cardinality(Closers(r))' + (IF ticker'.rec = r THEN 1 ELSE 0)
  <2>1. CASE r = x
    BY <1>5, <1>8, <2>1
  <2>2. CASE r # x
    BY <1>4, <1>7, <2>2 DEF BasicInv, CountInv
  <2>3. QED
    BY <2>1, <2>2
<1>11. QED
  BY <1>9, <1>10 DEF CountInv

\* The same of the ticker, for a record that it gives up.
LEMMA TickerCounts ==
  ASSUME BasicInv, NEW x \in Record, task' = task,
         \/ /\ ticker.rec = NoRecord /\ ticker'.rec = x
            /\ refs' = [refs EXCEPT ![x] = @ + 1]
         \/ /\ ticker.rec = x /\ ticker'.rec = NoRecord
            /\ refs' = [refs EXCEPT ![x] = @ - 1]
  PROVE  CountInv' /\ refs' \in [Record -> Nat]
<1>1. \A r \in Record : Closers(r)' = Closers(r)
  BY DEF Closers
<1>2. \A r \in Record : Cardinality(Closers(r)) \in Nat /\ refs[r] \in Nat
  BY FS_CardinalityType DEF BasicInv, CountInv, TypeOK
<1>3. \A r \in Record : r # x => refs'[r] = refs[r]
  BY DEF BasicInv, TypeOK
<1>4. /\ refs'[x] = Cardinality(Closers(x)) + (IF ticker'.rec = x THEN 1 ELSE 0)
      /\ refs'[x] \in Nat
  <2>1. CASE ticker.rec = NoRecord /\ ticker'.rec = x /\ refs' = [refs EXCEPT ![x] = @ + 1]
    <3>1. refs'[x] = refs[x] + 1 /\ ticker.rec # x
      BY <2>1, NoRecordIsNoRecord DEF BasicInv, TypeOK
    <3>2. QED
      BY <1>2, <2>1, <3>1 DEF BasicInv, CountInv
  <2>2. CASE ticker.rec = x /\ ticker'.rec = NoRecord /\ refs' = [refs EXCEPT ![x] = @ - 1]
    <3>1. refs'[x] = refs[x] - 1 /\ ticker'.rec # x
      BY <2>2, NoRecordIsNoRecord DEF BasicInv, TypeOK
    <3>2. QED
      BY <1>2, <2>2, <3>1 DEF BasicInv, CountInv
  <2>3. QED
    BY <2>1, <2>2
<1>5. refs' \in [Record -> Nat]
  <2>1. refs' = [refs EXCEPT ![x] = refs'[x]]
    BY DEF BasicInv, TypeOK
  <2>2. QED
    BY <1>4, <2>1 DEF BasicInv, TypeOK
<1>6. ASSUME NEW r \in Record
      PROVE  /\ IsFiniteSet(Closers(r))'
             /\ refs'[r] = Cardinality(Closers(r))' + (IF ticker'.rec = r THEN 1 ELSE 0)
  <2>1. CASE r = x
    BY <1>1, <1>4, <2>1 DEF BasicInv, CountInv
  <2>2. CASE r # x
    <3>1. ticker.rec # r /\ ticker'.rec # r
      BY <2>2, NoRecordIsNoRecord
    <3>2. QED
      BY <1>1, <1>3, <2>2, <3>1 DEF BasicInv, CountInv
  <2>3. QED
    BY <2>1, <2>2
<1>7. QED
  BY <1>5, <1>6 DEF CountInv

-----------------------------------------------------------------------------
(* BasicInv is kept, one lemma for each kind of step.                      *)

\* Steps of EndSystem and MarkPendingKill: the threads stay where they are.
LEMMA OthersBasic ==
  ASSUME BasicInv, UNCHANGED <<task, ticker, refs>>,
         \/ MarkPendingKill \/ SetReadyToDieCallback \/ TestIfReady \/ EndSystem
         \/ ClearUDPRecordsForTimeoutCheck \/ ClearReliableConnections
         \/ ClearOtherPartiesRecords \/ ClearPendingDeletePool \/ UNCHANGED vars
  PROVE  BasicInv'
<1>1. TypeOK'
  <2> USE DEF BasicInv, TypeOK, memory
  <2>1. CASE MarkPendingKill
    BY <2>1 DEF MarkPendingKill
  <2>2. CASE SetReadyToDieCallback
    BY <2>2 DEF SetReadyToDieCallback
  <2>3. CASE TestIfReady
    BY <2>3 DEF TestIfReady
  <2>4. CASE EndSystem
    BY <2>4 DEF EndSystem, InHandler
  <2>5. CASE ClearUDPRecordsForTimeoutCheck
    BY <2>5 DEF ClearUDPRecordsForTimeoutCheck
  <2>6. ASSUME NEW K, ClearTable(K)
        PROVE  /\ doomed' \in [Record -> BOOLEAN]
               /\ pool' \in [Record -> PoolValue]
               /\ table' \in [Key -> Record \cup {NoRecord}]
               /\ UNCHANGED <<made, key, refs, checks, holder, task, ticker, life, called, removed, disturbed>>
               /\ UNCHANGED <<overdue, hasty>>
    <3>1. \A r \in Record : pool[r] \in PoolValue /\ "new" \in PoolValue
      BY DEF PoolValue
    <3>2. pool' \in [Record -> PoolValue]
      BY <2>6, <3>1 DEF ClearTable
    <3>3. doomed' \in [Record -> BOOLEAN]
      BY <2>6 DEF ClearTable
    <3>4. table' \in [Key -> Record \cup {NoRecord}]
      BY <2>6 DEF ClearTable
    <3>5. QED
      BY <2>6, <3>2, <3>3, <3>4 DEF ClearTable
  <2>7. CASE ClearReliableConnections
    BY <2>6, <2>7 DEF ClearReliableConnections
  <2>8. CASE ClearOtherPartiesRecords
    BY <2>6, <2>8 DEF ClearOtherPartiesRecords
  <2>9. CASE ClearPendingDeletePool
    <3>1. \A r \in Record : pool[r] \in PoolValue /\ NotPooled \in PoolValue
      BY DEF PoolValue
    <3>2. pool' \in [Record -> PoolValue]
      BY <2>9, <3>1 DEF ClearPendingDeletePool, Freed
    <3>3. made' \in [Record -> {"no", "base", "live", "freed"}]
      BY <2>9 DEF ClearPendingDeletePool, Freed
    <3>4. QED
      BY <2>9, <3>2, <3>3 DEF ClearPendingDeletePool
  <2>10. CASE UNCHANGED vars
    BY <2>10 DEF vars
  <2>11. QED
    BY <2>1, <2>2, <2>3, <2>4, <2>5, <2>7, <2>8, <2>9, <2>10
<1>2. ThreadsInv'
  BY DEF BasicInv, ThreadsInv
<1>3. CountInv'
  BY CountKept DEF BasicInv, Closers
<1>4. ending' = "no" => ~disturbed'
  BY DEF BasicInv, MarkPendingKill, SetReadyToDieCallback, TestIfReady, EndSystem,
     ClearUDPRecordsForTimeoutCheck, ClearReliableConnections, ClearOtherPartiesRecords, ClearTable,
     ClearPendingDeletePool, memory, vars
<1>5. QED
  BY <1>1, <1>2, <1>3, <1>4 DEF BasicInv

\* A task that neither takes nor returns a reference.
LEMMA TaskMoves ==
  ASSUME BasicInv, NEW p \in Task,
         NEW c \in TaskValue,
         task' = [task EXCEPT ![p] = c],
         IF c.at \in Empty THEN c.rec = NoRecord ELSE c.rec \in Record /\ c.key \in Key,
         c.at \in Closing <=> task[p].at \in Closing,
         c.at \in Closing => c.rec = task[p].rec,
         ticker' = ticker, refs' = refs
  PROVE  /\ task' \in [Task -> TaskValue]
         /\ ThreadsInv' /\ CountInv'
<1>1. /\ task' \in [Task -> TaskValue]
      /\ \A q \in Task : task'[q] = IF q = p THEN c ELSE task[q]
  BY DEF BasicInv, TypeOK, TaskValue
<1>2. ThreadsInv'
  BY <1>1 DEF BasicInv, ThreadsInv
<1>3. \A r \in Record : Closers(r)' = Closers(r)
  BY <1>1 DEF Closers
<1>4. QED
  BY <1>1, <1>2, <1>3, CountKept DEF BasicInv

\* A task that is not idle has a record and a key.
LEMMA TaskFields ==
  ASSUME BasicInv, NEW p \in Task, task[p].at \notin Empty
  PROVE  /\ task[p].rec \in Record /\ task[p].key \in Key /\ task[p].late \in BOOLEAN
         /\ task[p] \in TaskValue
<1>1. task[p] \in TaskValue
  BY DEF BasicInv, TypeOK, TaskValue
<1>2. QED
  BY <1>1 DEF TaskValue, BasicInv, ThreadsInv

\* Looking up, making and leaving a record.
LEMMA LookupBasic ==
  ASSUME BasicInv, NEW p \in Task,
         \/ TestPendingKill(p) \/ \E k \in Key : Find(p, k) \/ BeginRecord(p, k)
         \/ FinishRecord(p) \/ LeaveRecord(p) \/ UseFreed(p)
  PROVE  BasicInv'
<1>1. TypeOK /\ (ending = "no" => ~disturbed)
  BY DEF BasicInv
<1>0. \A a \in {"asked", "found", "undefined"} : \A v \in TaskValue :
        LET c == [v EXCEPT !.at = a] IN
          c \in TaskValue /\ c.at = a /\ c.rec = v.rec /\ c.key = v.key
  BY DEF TaskValue
<1>7. task[p] \in TaskValue
  BY <1>1 DEF TypeOK, TaskValue
<1>2. ASSUME NEW k \in Key, Find(p, k) PROVE BasicInv'
  <2>1. PICK c : c = [at |-> "found", rec |-> table[k], key |-> k, late |-> FALSE]
    OBVIOUS
  <2>2. /\ c \in TaskValue
        /\ c.at = "found" /\ c.rec \in Record /\ c.key \in Key
    BY <1>1, <1>2, <2>1 DEF Find, TypeOK, TaskValue
  <2>3. task' = [task EXCEPT ![p] = c] /\ task[p].at \in Empty /\ refs' = refs /\ ticker' = ticker
    BY <1>2, <2>1 DEF Find, memory, Empty
  <2>4. /\ task' \in [Task -> TaskValue]
        /\ ThreadsInv' /\ CountInv'
    BY <2>2, <2>3, TaskMoves DEF Closing, Empty
  <2>5. TypeOK' /\ (ending' = "no" => ~disturbed')
    BY <1>1, <1>2, <2>4 DEF Find, TypeOK, TaskValue, Inside, memory
  <2>6. QED
    BY <2>4, <2>5 DEF BasicInv
<1>3. ASSUME NEW k \in Key, BeginRecord(p, k) PROVE BasicInv'
  <2>1. PICK r \in Record :
          /\ made' = [made EXCEPT ![r] = "base"]
          /\ key' = [key EXCEPT ![r] = k]
          /\ checks' = Append(checks, r)
          /\ task' = [task EXCEPT ![p] = [at |-> "make", rec |-> r, key |-> k, late |-> FALSE]]
    BY <1>3 DEF BeginRecord, Record
  <2>2. PICK c : c = [at |-> "make", rec |-> r, key |-> k, late |-> FALSE]
    OBVIOUS
  <2>3. /\ c \in TaskValue
        /\ c.at = "make" /\ c.rec \in Record /\ c.key \in Key
    BY <2>2 DEF TaskValue
  <2>4. task' = [task EXCEPT ![p] = c] /\ task[p].at = "asked" /\ refs' = refs /\ ticker' = ticker
    BY <1>3, <2>1, <2>2 DEF BeginRecord
  <2>5. /\ task' \in [Task -> TaskValue]
        /\ ThreadsInv' /\ CountInv'
    BY <2>3, <2>4, TaskMoves DEF Closing, Empty
  <2>6. /\ checks' \in Seq(Record)
        /\ made' \in [Record -> {"no", "base", "live", "freed"}]
        /\ key' \in [Record -> Key \cup {NoKey}]
        /\ holder' \in [Table -> Task \cup {"nobody"}]
    <3>1. checks' \in Seq(Record)
      BY <1>1, <2>1 DEF TypeOK
    <3>2. made' \in [Record -> {"no", "base", "live", "freed"}]
      BY <1>1, <2>1 DEF TypeOK
    <3>3. key' \in [Record -> Key \cup {NoKey}]
      BY <1>1, <2>1 DEF TypeOK
    <3>4. holder' \in [Table -> Task \cup {"nobody"}]
      BY <1>1, <1>3 DEF TypeOK, BeginRecord
    <3>5. QED
      BY <3>1, <3>2, <3>3, <3>4
  <2>7. TypeOK' /\ (ending' = "no" => ~disturbed')
    BY <1>1, <1>3, <2>5, <2>6 DEF BeginRecord, TypeOK, TaskValue, Inside
  <2>8. QED
    BY <2>5, <2>7 DEF BasicInv
<1>4. ASSUME FinishRecord(p) PROVE BasicInv'
  <2>1. PICK c : c = [task[p] EXCEPT !.at = "found"]
    OBVIOUS
  <2>2. /\ c \in TaskValue
        /\ c.at = "found" /\ c.rec \in Record /\ c.key \in Key
        /\ task[p].rec \in Record /\ task[p].at = "make"
    BY <1>0, <1>4, <1>7, <2>1, TaskFields DEF FinishRecord, Empty
  <2>3. task' = [task EXCEPT ![p] = c] /\ refs' = refs /\ ticker' = ticker
    BY <1>4, <2>1 DEF FinishRecord
  <2>4. /\ task' \in [Task -> TaskValue]
        /\ ThreadsInv' /\ CountInv'
    BY <2>2, <2>3, TaskMoves DEF Closing, Empty
  <2>5. TypeOK' /\ (ending' = "no" => ~disturbed')
    BY <1>1, <1>4, <2>2, <2>4 DEF FinishRecord, TypeOK, TaskValue, Inside
  <2>6. QED
    BY <2>4, <2>5 DEF BasicInv
<1>5. ASSUME LeaveRecord(p) PROVE BasicInv'
  <2>1. /\ Idle \in TaskValue
        /\ Idle.at = "idle" /\ Idle.rec = NoRecord
    BY DEF Idle, TaskValue
  <2>2. task' = [task EXCEPT ![p] = Idle] /\ task[p].at \in {"asked", "found"} /\ refs' = refs /\ ticker' = ticker
    BY <1>5 DEF LeaveRecord, memory
  <2>3. /\ task' \in [Task -> TaskValue]
        /\ ThreadsInv' /\ CountInv'
    BY <2>1, <2>2, TaskMoves DEF Closing, Empty
  <2>4. TypeOK' /\ (ending' = "no" => ~disturbed')
    BY <1>1, <1>5, <2>3 DEF LeaveRecord, TypeOK, TaskValue, Inside, memory
  <2>5. QED
    BY <2>3, <2>4 DEF BasicInv
<1>8. ASSUME TestPendingKill(p) PROVE BasicInv'
  <2>1. PICK c \in TaskValue : c = [task[p] EXCEPT !.at = "asked"] /\ c.at = "asked" /\ c.rec = task[p].rec
    BY <1>0, <1>7
  <2>2. /\ task' = [task EXCEPT ![p] = c] /\ task[p].at = "idle" /\ refs' = refs /\ ticker' = ticker
        /\ c.rec = NoRecord
    BY <1>8, <2>1 DEF TestPendingKill, memory, BasicInv, ThreadsInv, Empty
  <2>3. /\ task' \in [Task -> TaskValue]
        /\ ThreadsInv' /\ CountInv'
    BY <2>1, <2>2, TaskMoves DEF Closing, Empty
  <2>4. TypeOK' /\ (ending' = "no" => ~disturbed')
    BY <1>1, <1>8, <2>3 DEF TestPendingKill, TypeOK, TaskValue, Inside, memory
  <2>5. QED
    BY <2>3, <2>4 DEF BasicInv
<1>9. ASSUME UseFreed(p) PROVE BasicInv'
  <2>1. PICK c \in TaskValue : /\ c = [task[p] EXCEPT !.at = "undefined"]
                               /\ c.at = "undefined" /\ c.rec = task[p].rec /\ c.key = task[p].key
    BY <1>0, <1>7
  <2>2. /\ task' = [task EXCEPT ![p] = c] /\ task[p].at \in Unreferenced
        /\ refs' = refs /\ ticker' = ticker
    BY <1>9, <2>1 DEF UseFreed, memory, Unreferenced
  <2>3. c.rec \in Record /\ c.key \in Key
    BY <2>1, <2>2, TaskFields DEF Unreferenced, Empty
  <2>4. /\ task' \in [Task -> TaskValue]
        /\ ThreadsInv' /\ CountInv'
    BY <2>1, <2>2, <2>3, TaskMoves DEF Closing, Empty, Unreferenced
  <2>5. TypeOK' /\ (ending' = "no" => ~disturbed')
    BY <1>1, <1>9, <2>4 DEF UseFreed, TypeOK, TaskValue, Inside, memory
  <2>6. QED
    BY <2>4, <2>5 DEF BasicInv
<1>6. QED
  BY <1>2, <1>3, <1>4, <1>5, <1>8, <1>9

\* What is put in the pool.
LEMMA PoolTypes ==
  ASSUME TypeOK, NEW x, Pool(x)
  PROVE  pool' \in [Record -> PoolValue]
BY DEF Pool, TypeOK, PoolValue

\* Closing a record.
LEMMA CloseBasic ==
  ASSUME BasicInv, NEW p \in Task,
         \/ CloseCase(p) \/ CloseReferences(p) \/ CloseRemoves(p) \/ CloseMarks(p)
         \/ CloseDooms(p) \/ ClosePools(p)
  PROVE  BasicInv'
<1> DEFINE r == task[p].rec
<1>1. TypeOK /\ (ending = "no" => ~disturbed)
  BY DEF BasicInv
<1>2. task[p].at \notin Empty
  BY DEF CloseCase, CloseReferences, CloseRemoves, CloseMarks, CloseDooms, ClosePools, Empty
<1>3. PICK x \in Record, k \in Key : task[p].rec = x /\ task[p].key = k /\ task[p] \in TaskValue
  BY <1>2, TaskFields
<1>4. Idle \in TaskValue /\ Idle.at = "idle" /\ Idle.rec = NoRecord
  BY DEF Idle, TaskValue
<1>5. \A a \in {"close", "remove", "mark", "doom", "pool"} :
        LET c == [task[p] EXCEPT !.at = a] IN
          c \in TaskValue /\ c.at = a /\ c.rec = x /\ c.key = k
  BY <1>3 DEF TaskValue
<1>6. \A c \in TaskValue : [task EXCEPT ![p] = c] \in [Task -> TaskValue]
  BY <1>1 DEF TypeOK, TaskValue
<1>7. ASSUME CloseReferences(p) PROVE BasicInv'
  <2>1. CountInv' /\ refs' \in [Record -> Nat]
    BY <1>3, <1>7, CountTaken DEF CloseReferences, Reference, Closing
  <2>2. task' = [task EXCEPT ![p] = [task[p] EXCEPT !.at = "remove"]]
    BY <1>7 DEF CloseReferences
  <2>3. task' \in [Task -> TaskValue]
    BY <1>5, <1>6, <2>2
  <2>4. ThreadsInv'
    BY <1>1, <1>3, <1>5, <1>7, <2>2 DEF CloseReferences, BasicInv, ThreadsInv, TypeOK, Empty
  <2>5. TypeOK' /\ (ending' = "no" => ~disturbed')
    BY <1>1, <1>7, <2>1, <2>3 DEF CloseReferences, TypeOK, TaskValue, Inside
  <2>6. QED
    BY <2>1, <2>4, <2>5 DEF BasicInv
<1>13. ASSUME CloseCase(p) PROVE BasicInv'
  <2>1. PICK c \in TaskValue : c = [task[p] EXCEPT !.at = "close"] /\ c.at = "close" /\ c.rec = x /\ c.key = k
    BY <1>5
  <2>2. task' = [task EXCEPT ![p] = c] /\ refs' = refs /\ ticker' = ticker /\ task[p].at = "found"
    BY <1>13, <2>1 DEF CloseCase, memory
  <2>3. task' \in [Task -> TaskValue] /\ ThreadsInv' /\ CountInv'
    BY <2>1, <2>2, TaskMoves DEF Closing, Empty
  <2>4. TypeOK' /\ (ending' = "no" => ~disturbed')
    BY <1>1, <1>13, <2>3 DEF CloseCase, TypeOK, TaskValue, Inside, memory
  <2>5. QED
    BY <2>3, <2>4 DEF BasicInv
<1>14. ASSUME CloseDooms(p) PROVE BasicInv'
  <2>1. PICK c \in TaskValue : c = [task[p] EXCEPT !.at = "pool"] /\ c.at = "pool" /\ c.rec = x /\ c.key = k
    BY <1>5
  <2>2. task' = [task EXCEPT ![p] = c] /\ refs' = refs /\ ticker' = ticker /\ task[p].at = "doom"
    BY <1>14, <2>1 DEF CloseDooms
  <2>3. task' \in [Task -> TaskValue] /\ ThreadsInv' /\ CountInv'
    BY <1>3, <2>1, <2>2, TaskMoves DEF Closing, Empty
  <2>4. doomed' \in [Record -> BOOLEAN]
    BY <1>1, <1>14 DEF CloseDooms, TypeOK
  <2>5. TypeOK' /\ (ending' = "no" => ~disturbed')
    BY <1>1, <1>14, <2>3, <2>4 DEF CloseDooms, TypeOK, TaskValue, Inside
  <2>6. QED
    BY <2>3, <2>5 DEF BasicInv
<1>8. ASSUME CloseRemoves(p) PROVE BasicInv'
  <2>1. PICK c \in TaskValue : c = [task[p] EXCEPT !.at = "mark"]
    BY <1>5
  <2>2. task' = [task EXCEPT ![p] = c] /\ refs' = refs /\ ticker' = ticker /\ task[p].at = "remove"
    BY <1>8, <2>1 DEF CloseRemoves
  <2>3. c.at = "mark" /\ c.rec = x /\ c.key = k
    BY <1>5, <2>1
  <2>4. task' \in [Task -> TaskValue] /\ ThreadsInv' /\ CountInv'
    BY <1>3, <2>2, <2>3, TaskMoves DEF Closing, Empty
  <2>5. /\ table' \in [Key -> Record \cup {NoRecord}] /\ removed' \subseteq Record /\ called' \in BOOLEAN
        /\ holder' \in [Table -> Task \cup {"nobody"}]
    <3>1. holder' \in [Table -> Task \cup {"nobody"}]
      BY <1>1, <1>8 DEF CloseRemoves, TypeOK
    <3>2. table' \in [Key -> Record \cup {NoRecord}] /\ removed' \subseteq Record
      BY <1>1, <1>3, <1>8 DEF CloseRemoves, RemoveByKey, TypeOK
    <3>3. called' \in BOOLEAN
      BY <1>1, <1>8 DEF CloseRemoves, RemoveByKey, TypeOK
    <3>4. QED
      BY <3>1, <3>2, <3>3
  <2>6. TypeOK' /\ (ending' = "no" => ~disturbed')
    BY <1>1, <1>8, <2>4, <2>5 DEF CloseRemoves, TypeOK, TaskValue, Inside
  <2>7. QED
    BY <2>4, <2>6 DEF BasicInv
<1>9. ASSUME task' = [task EXCEPT ![p] = Idle], Dereference(x), ticker' = ticker,
             task[p].at \in Closing
      PROVE  task' \in [Task -> TaskValue] /\ ThreadsInv' /\ CountInv' /\ refs' \in [Record -> Nat]
  <2>1. CountInv' /\ refs' \in [Record -> Nat]
    BY <1>3, <1>9, CountReturned DEF Dereference
  <2>2. \A q \in Task : task'[q] = IF q = p THEN Idle ELSE task[q]
    BY <1>1, <1>9 DEF TypeOK
  <2>3. ThreadsInv'
    BY <1>4, <1>9, <2>2 DEF BasicInv, ThreadsInv, Empty
  <2>4. task' \in [Task -> TaskValue]
    BY <1>4, <1>6, <1>9
  <2>5. QED
    BY <2>1, <2>3, <2>4

<1>10. ASSUME CloseMarks(p) PROVE BasicInv'
  <2>1. task' \in [Task -> TaskValue] /\ ThreadsInv' /\ CountInv' /\ refs' \in [Record -> Nat]
    <3>1. CASE doomed[r]
      BY <1>3, <1>9, <1>10, <3>1 DEF CloseMarks, Closing
    <3>2. CASE ~doomed[r]
      <4>1. PICK c \in TaskValue : c = [task[p] EXCEPT !.at = "doom"]
        BY <1>5
      <4>2. task' = [task EXCEPT ![p] = c] /\ refs' = refs /\ ticker' = ticker /\ task[p].at = "mark"
        BY <1>10, <3>2, <4>1 DEF CloseMarks
      <4>3. c.at = "doom" /\ c.rec = x /\ c.key = k
        BY <1>5, <4>1
      <4>4. task' \in [Task -> TaskValue] /\ ThreadsInv' /\ CountInv'
        BY <1>3, <4>2, <4>3, TaskMoves DEF Closing, Empty
      <4>5. QED
        BY <1>1, <4>2, <4>4 DEF TypeOK
    <3>3. QED
      BY <3>1, <3>2
  <2>2. holder' \in [Table -> Task \cup {"nobody"}]
    BY <1>1, <1>10 DEF TypeOK, CloseMarks
  <2>3. TypeOK' /\ (ending' = "no" => ~disturbed')
    BY <1>1, <1>10, <2>1, <2>2 DEF CloseMarks, TypeOK, TaskValue, Inside
  <2>4. QED
    BY <2>1, <2>3 DEF BasicInv
<1>11. ASSUME ClosePools(p) PROVE BasicInv'
  <2>1. task' \in [Task -> TaskValue] /\ ThreadsInv' /\ CountInv' /\ refs' \in [Record -> Nat]
    BY <1>3, <1>9, <1>11 DEF ClosePools, Closing
  <2>2. pool' \in [Record -> PoolValue]
    BY <1>1, <1>11, PoolTypes DEF ClosePools
  <2>3. holder' \in [Table -> Task \cup {"nobody"}]
    BY <1>1, <1>11 DEF ClosePools, TypeOK
  <2>4. TypeOK' /\ (ending' = "no" => ~disturbed')
    BY <1>1, <1>11, <2>1, <2>2, <2>3 DEF ClosePools, TypeOK, TaskValue, Inside
  <2>5. QED
    BY <2>1, <2>4 DEF BasicInv
<1>12. QED
  BY <1>7, <1>8, <1>10, <1>11, <1>13, <1>14

\* The 100 ms have passed: the queue becomes the ticker's snapshot.
LEMMA WakeBasic ==
  ASSUME BasicInv, Wake
  PROVE  BasicInv'
<1>1. TypeOK /\ (ending = "no" => ~disturbed)
  BY DEF BasicInv
<1>2. /\ ticker' = [at |-> "check", rec |-> NoRecord, snapshot |-> checks, tmp |-> <<>>]
      /\ ticker.rec = NoRecord /\ task' = task
  BY DEF Wake, Resting, BasicInv, ThreadsInv, Closing
<1>3. ThreadsInv'
  <2>1. ticker'.at = "check" /\ ticker'.rec = NoRecord
    BY <1>2
  <2>2. <<>> \in Seq(Record) /\ checks \in Seq(Record)
    BY <1>1 DEF TypeOK
  <2>3. ticker' \in TickerValue
    BY <1>2, <2>2 DEF TickerValue
  <2>4. QED
    BY <1>2, <2>1, <2>3 DEF BasicInv, ThreadsInv, Closing
<1>4. CountInv'
  <2>1. \A r \in Record : Closers(r)' = Closers(r)
    BY <1>2 DEF Closers
  <2>2. refs' = refs /\ ticker'.rec = ticker.rec
    <3>1. ticker'.rec = NoRecord
      BY <1>2
    <3>2. QED
      BY <1>2, <3>1 DEF Wake
  <2>3. QED
    BY <2>1, <2>2, CountKept DEF BasicInv
<1>5. pool' \in [Record -> PoolValue]
  BY <1>1 DEF Wake, TypeOK, PoolValue
<1>6. TypeOK' /\ (ending' = "no" => ~disturbed')
  BY <1>1, <1>2, <1>5 DEF Wake, TypeOK, TaskValue, Inside
<1>7. QED
  BY <1>3, <1>4, <1>6 DEF BasicInv

\* The deallocator's look at the clock moves nobody.
LEMMA ClockBasic ==
  ASSUME BasicInv, ReadClock
  PROVE  BasicInv'
<1>1. TypeOK /\ (ending = "no" => ~disturbed)
  BY DEF BasicInv
<1>2. PICK R \in SUBSET Record :
        /\ pool' = [r \in Record |-> IF r \in R THEN "old" ELSE pool[r]]
        /\ overdue' = overdue \cup {r \in R : pool[r] = "new"}
  BY DEF ReadClock
<1>3. \A p \in Task : /\ task'[p] \in TaskValue /\ task'[p].at = task[p].at
                      /\ task'[p].rec = task[p].rec /\ task'[p].key = task[p].key
  <2>1. \A p \in Task : task[p] \in TaskValue
    BY <1>1 DEF TypeOK, TaskValue
  <2>2. \A v \in TaskValue, b \in BOOLEAN :
          LET w == [v EXCEPT !.late = @ \/ b] IN
            w \in TaskValue /\ w.at = v.at /\ w.rec = v.rec /\ w.key = v.key
    BY DEF TaskValue
  <2>3. \A p \in Task : \E b \in BOOLEAN : task'[p] = [task[p] EXCEPT !.late = @ \/ b]
    BY DEF ReadClock
  <2>4. QED
    BY <2>1, <2>2, <2>3
<1>4. task' \in [Task -> TaskValue]
  BY <1>3 DEF ReadClock
<1>5. /\ ticker' = [Resting EXCEPT !.at = "deallocate"] /\ ticker.rec = NoRecord
      /\ ticker'.rec = NoRecord /\ ticker'.at = "deallocate" /\ ticker' \in TickerValue
      /\ ticker'.snapshot = <<>> /\ ticker'.tmp = <<>>
  BY DEF ReadClock, Resting, TickerValue, BasicInv, ThreadsInv, Closing
<1>6. ThreadsInv'
  BY <1>3, <1>5 DEF BasicInv, ThreadsInv, Closing
<1>7. CountInv'
  <2>1. \A r \in Record : Closers(r)' = Closers(r)
    BY <1>3 DEF Closers
  <2>2. refs' = refs /\ ticker'.rec = ticker.rec
    BY <1>5 DEF ReadClock
  <2>3. QED
    BY <2>1, <2>2, CountKept DEF BasicInv
<1>8. pool' \in [Record -> PoolValue]
  BY <1>1, <1>2 DEF TypeOK, PoolValue
<1>9. overdue' \subseteq Record
  BY <1>1, <1>2 DEF TypeOK
<1>10. TypeOK' /\ (ending' = "no" => ~disturbed')
  BY <1>1, <1>4, <1>5, <1>8, <1>9 DEF ReadClock, TypeOK, TaskValue, Inside
<1>11. QED
  BY <1>6, <1>7, <1>10 DEF BasicInv

\* The ticker's thread, between two checks.
LEMMA TickerBasic ==
  ASSUME BasicInv,
         \/ CheckRecord \/ ExpireRemoves \/ ExpireMarks \/ ExpireDooms \/ ExpirePools
         \/ EndCheck \/ Deallocate
  PROVE  BasicInv'
<1>1. TypeOK /\ (ending = "no" => ~disturbed)
  BY DEF BasicInv
<1>2. ticker \in TickerValue /\ (ticker.rec # NoRecord <=> ticker.at \in Closing)
  BY DEF BasicInv, ThreadsInv
<1>3. task' = task /\ (ending' = "no" => ~disturbed')
  BY <1>1 DEF CheckRecord, ExpireRemoves, ExpireMarks, ExpireDooms, ExpirePools, EndCheck,
     Deallocate, Inside
<1>4. ASSUME ticker' \in TickerValue, ticker'.rec # NoRecord <=> ticker'.at \in Closing,
             \/ ticker'.at \notin {"idle", "deallocate"}
             \/ ticker'.snapshot = <<>> /\ ticker'.tmp = <<>>
      PROVE  ThreadsInv'
  BY <1>3, <1>4 DEF BasicInv, ThreadsInv
<1>5. ASSUME refs' = refs, ticker'.rec = ticker.rec
      PROVE  CountInv' /\ refs' \in [Record -> Nat]
  <2>1. \A r \in Record : Closers(r)' = Closers(r)
    BY <1>3 DEF Closers
  <2>2. QED
    BY <1>1, <1>5, <2>1, CountKept DEF BasicInv, TypeOK
<1>6. ASSUME CheckRecord PROVE BasicInv'
  <2> DEFINE r == Head(ticker.snapshot)
  <2>1. /\ ticker.snapshot \in Seq(Record) /\ ticker.tmp \in Seq(Record)
        /\ ticker.snapshot # <<>> /\ ticker.at = "check" /\ ticker.rec = NoRecord
    BY <1>2, <1>6 DEF CheckRecord, TickerValue, Closing
  <2>2. PICK x \in Record, s \in Seq(Record) : x = r /\ s = Tail(ticker.snapshot)
    <3>1. Head(ticker.snapshot) \in Record /\ Tail(ticker.snapshot) \in Seq(Record)
      BY <2>1
    <3>2. QED
      BY <3>1
  <2>3. Append(ticker.tmp, x) \in Seq(Record)
    BY <2>1, <2>2
  <2>4. ticker' \in TickerValue /\ (ticker'.rec # NoRecord <=> ticker'.at \in Closing)
        /\ ticker'.at \notin {"idle", "deallocate"}
        /\ CountInv' /\ refs' \in [Record -> Nat]
    <3>1. CASE ticker' = [ticker EXCEPT !.at = "undefined"] /\ refs' = refs
      <4>1. ticker' \in TickerValue /\ ticker'.rec = ticker.rec /\ ticker'.at = "undefined"
        BY <1>2, <3>1 DEF TickerValue
      <4>2. QED
        BY <1>5, <2>1, <3>1, <4>1 DEF Closing
    <3>2. CASE ticker' = [ticker EXCEPT !.snapshot = s] /\ refs' = refs
      <4>1. ticker' \in TickerValue /\ ticker'.rec = ticker.rec /\ ticker'.at = "check"
        BY <1>2, <2>1, <3>2 DEF TickerValue
      <4>2. QED
        BY <1>5, <2>1, <3>2, <4>1 DEF Closing
    <3>3. CASE ticker' = [[ticker EXCEPT !.snapshot = s] EXCEPT !.tmp = Append(@, x)] /\ refs' = refs
      <4>1. ticker' \in TickerValue /\ ticker'.rec = ticker.rec /\ ticker'.at = "check"
        BY <1>2, <2>1, <2>3, <3>3 DEF TickerValue
      <4>2. QED
        BY <1>5, <2>1, <3>3, <4>1 DEF Closing
    <3>4. CASE ticker' = [[ticker EXCEPT !.snapshot = s] EXCEPT !.at = "remove", !.rec = x] /\ Reference(x)
      <4>1. ticker' \in TickerValue /\ ticker'.rec = x /\ ticker'.at = "remove"
        BY <1>2, <2>1, <3>4 DEF TickerValue
      <4>2. CountInv' /\ refs' \in [Record -> Nat]
        BY <1>3, <2>1, <3>4, <4>1, TickerCounts DEF Reference
      <4>3. QED
        BY <4>1, <4>2, NoRecordIsNoRecord DEF Closing
    <3>5. QED
      BY <1>6, <2>2, <3>1, <3>2, <3>3, <3>4 DEF CheckRecord
  <2>5. TypeOK'
    BY <1>1, <1>6, <2>4 DEF CheckRecord, TypeOK, TickerValue, Inside
  <2>6. QED
    BY <1>3, <1>4, <2>4, <2>5 DEF BasicInv
<1>7. ASSUME ExpireRemoves PROVE BasicInv'
  <2>1. ticker.rec \in Record
    BY <1>2, <1>7 DEF ExpireRemoves, TickerValue, Closing
  <2>2. ticker' \in TickerValue /\ ticker'.rec = ticker.rec /\ ticker'.at = "mark"
    BY <1>2, <1>7 DEF ExpireRemoves, TickerValue
  <2>3. CountInv' /\ ThreadsInv'
    BY <1>2, <1>4, <1>5, <1>7, <2>2 DEF ExpireRemoves, Closing
  <2>4. table' \in [Key -> Record \cup {NoRecord}] /\ removed' \subseteq Record
    BY <1>1, <1>7, <2>1 DEF ExpireRemoves, RemoveByKey, TypeOK
  <2>5. called' \in BOOLEAN
    BY <1>1, <1>7 DEF ExpireRemoves, RemoveByKey, TypeOK
  <2>6. TypeOK'
    BY <1>1, <1>7, <2>2, <2>4, <2>5 DEF ExpireRemoves, TypeOK, TickerValue, Inside
  <2>7. QED
    BY <1>3, <2>3, <2>6 DEF BasicInv
<1>8. ASSUME ticker' = [ticker EXCEPT !.at = "check", !.rec = NoRecord], Dereference(ticker.rec),
             ticker.at \in Closing
      PROVE  /\ ticker' \in TickerValue /\ CountInv' /\ refs' \in [Record -> Nat]
             /\ ThreadsInv'
  <2>1. ticker.rec \in Record
    BY <1>2, <1>8 DEF TickerValue
  <2>2. ticker' \in TickerValue /\ ticker'.rec = NoRecord /\ ticker'.at = "check"
    BY <1>2, <1>8 DEF TickerValue
  <2>3. CountInv' /\ refs' \in [Record -> Nat]
    BY <1>3, <1>8, <2>1, <2>2, TickerCounts DEF Dereference
  <2>4. QED
    BY <1>4, <2>2, <2>3 DEF Closing
<1>9. ASSUME ExpireMarks PROVE BasicInv'
  <2>1. ticker' \in TickerValue /\ CountInv' /\ refs' \in [Record -> Nat] /\ ThreadsInv'
    <3>1. CASE doomed[ticker.rec]
      BY <1>8, <1>9, <3>1 DEF ExpireMarks, Closing
    <3>2. CASE ~doomed[ticker.rec]
      <4>1. ticker' \in TickerValue /\ ticker'.rec = ticker.rec /\ ticker'.at = "doom"
            /\ refs' = refs /\ ticker.at = "mark"
        BY <1>2, <1>9, <3>2 DEF ExpireMarks, TickerValue
      <4>2. QED
        BY <1>2, <1>4, <1>5, <4>1 DEF Closing
    <3>3. QED
      BY <3>1, <3>2
  <2>2. TypeOK'
    BY <1>1, <1>9, <2>1 DEF ExpireMarks, TypeOK, TickerValue, Inside
  <2>3. QED
    BY <1>3, <2>1, <2>2 DEF BasicInv
<1>10. ASSUME ExpirePools PROVE BasicInv'
  <2>1. ticker' \in TickerValue /\ CountInv' /\ refs' \in [Record -> Nat] /\ ThreadsInv'
    BY <1>8, <1>10 DEF ExpirePools, Closing
  <2>2. pool' \in [Record -> PoolValue]
    BY <1>1, <1>10, PoolTypes DEF ExpirePools
  <2>3. TypeOK'
    BY <1>1, <1>10, <2>1, <2>2 DEF ExpirePools, TypeOK, TickerValue, Inside
  <2>4. QED
    BY <1>3, <2>1, <2>3 DEF BasicInv
<1>15. ASSUME ExpireDooms PROVE BasicInv'
  <2>1. ticker' \in TickerValue /\ ticker'.rec = ticker.rec /\ ticker'.at = "pool"
        /\ refs' = refs /\ ticker.at = "doom"
    BY <1>2, <1>15 DEF ExpireDooms, TickerValue
  <2>2. CountInv' /\ ThreadsInv'
    BY <1>2, <1>4, <1>5, <2>1 DEF Closing
  <2>3. doomed' \in [Record -> BOOLEAN]
    BY <1>1, <1>15 DEF ExpireDooms, TypeOK
  <2>4. TypeOK'
    BY <1>1, <1>15, <2>1, <2>3 DEF ExpireDooms, TypeOK, TickerValue, Inside
  <2>5. QED
    BY <1>3, <2>2, <2>4 DEF BasicInv
<1>11. Resting \in TickerValue /\ Resting.rec = NoRecord /\ Resting.at = "idle"
       /\ Resting.snapshot = <<>> /\ Resting.tmp = <<>>
  BY DEF Resting, TickerValue
<1>12. ASSUME EndCheck PROVE BasicInv'
  <2>1. ticker' \in TickerValue /\ ticker'.rec = NoRecord /\ ticker'.at = "idle"
        /\ ticker'.snapshot = <<>> /\ ticker'.tmp = <<>>
    BY <1>11, <1>12 DEF EndCheck
  <2>2. ticker.rec = NoRecord
    BY <1>2, <1>12 DEF EndCheck, Closing
  <2>3. CountInv' /\ ThreadsInv'
    BY <1>4, <1>5, <1>12, <2>1, <2>2 DEF EndCheck, Closing
  <2>4. ticker.tmp \in Seq(Record) /\ checks \in Seq(Record)
    BY <1>1, <1>2 DEF TickerValue, TypeOK
  <2>5. checks' \in Seq(Record)
    BY <1>12, <2>4 DEF EndCheck
  <2>6. TypeOK'
    BY <1>1, <1>12, <2>1, <2>5 DEF EndCheck, TypeOK, TickerValue, Inside
  <2>7. QED
    BY <1>3, <2>3, <2>6 DEF BasicInv
<1>13. ASSUME Deallocate PROVE BasicInv'
  <2>1. ticker' = Resting /\ refs' = refs
    BY <1>13 DEF Deallocate
  <2>2. ticker.rec = NoRecord
    BY <1>2, <1>13 DEF Deallocate, Closing
  <2>3. CountInv' /\ ThreadsInv'
    BY <1>4, <1>5, <1>11, <2>1, <2>2 DEF Closing
  <2>4. PICK F \in SUBSET Record, S \in SUBSET Record :
          /\ made' = [r \in Record |-> IF r \in F THEN "freed" ELSE made[r]]
          /\ pool' = [r \in Record |-> IF r \in F THEN NotPooled
                                      ELSE IF pool[r] = "ahead" THEN "new" ELSE pool[r]]
          /\ hasty' = hasty \cup S
    BY <1>13 DEF Deallocate
  <2>5. pool' \in [Record -> PoolValue]
    BY <1>1, <2>4 DEF TypeOK, PoolValue
  <2>6. made' \in [Record -> {"no", "base", "live", "freed"}] /\ hasty' \subseteq Record
    BY <1>1, <2>4 DEF TypeOK
  <2>7. TypeOK'
    BY <1>1, <1>11, <1>13, <2>1, <2>5, <2>6 DEF Deallocate, TypeOK, TickerValue, Inside
  <2>8. QED
    BY <1>3, <2>3, <2>7 DEF BasicInv
<1>14. QED
  BY <1>6, <1>7, <1>9, <1>10, <1>12, <1>13, <1>15

\* Whatever anybody does.
LEMMA BasicKept ==
  ASSUME BasicInv, [Next]_vars
  PROVE  BasicInv'
<1>1. CASE \E p \in Task : TaskStep(p)
  BY <1>1, LookupBasic, CloseBasic DEF TaskStep
<1>2. CASE TickerStep
  BY <1>2, WakeBasic, ClockBasic, TickerBasic DEF TickerStep
<1>3. CASE \/ MarkPendingKill \/ SetReadyToDieCallback \/ TestIfReady \/ EndSystem
           \/ ClearUDPRecordsForTimeoutCheck \/ ClearReliableConnections
           \/ ClearOtherPartiesRecords \/ ClearPendingDeletePool \/ UNCHANGED vars
  <2>1. UNCHANGED <<task, ticker, refs>>
    BY <1>3 DEF MarkPendingKill, SetReadyToDieCallback, TestIfReady, EndSystem, ClearTable, Freed,
       ClearUDPRecordsForTimeoutCheck, ClearReliableConnections, ClearOtherPartiesRecords,
       ClearPendingDeletePool, memory, vars
  <2>2. QED
    BY <1>3, <2>1, OthersBasic
<1>4. QED
  BY <1>1, <1>2, <1>3 DEF Next

-----------------------------------------------------------------------------
(* UpInv is kept while the handler is up.                                  *)

\* A task that moves without touching the records, and without one that it is to mark or to
\* pool.
LEMMA UpFrame ==
  ASSUME BasicInv, UpInv, NEW p \in Task, NEW c \in TaskValue,
         task' = [task EXCEPT ![p] = c], UNCHANGED <<table, made, key, doomed, checks, pool>>,
         UNCHANGED <<holder, ticker, life, called, removed, overdue, hasty>>,
         task[p].at \notin {"make"} \cup Unlinked, c.at # "make", TaskInv(p)'
  PROVE  UpInv'
<1>1. \A q \in Task : task'[q] = IF q = p THEN c ELSE task[q]
  BY DEF BasicInv, TypeOK
<1>2. TableInv' /\ TickerInv' /\ CallbackInv'
  BY DEF UpInv, TableInv, TickerInv, CallbackInv, ConnectionsEmpty
<1>3. \A q \in Task : TaskInv(q)'
  BY <1>1 DEF UpInv, TaskInv
<1>4. \A r \in Record : /\ Making(r)' = Making(r)
                        /\ Unlinking(r) => Unlinking(r)'
                        /\ Pooling(r) => Pooling(r)'
  BY <1>1 DEF Making, Unlinking, Pooling, Unlinked
<1>5. \A r \in Record : MemoryInv(r)' /\ QueueInv(r)' /\ RemovedInv(r)'
  BY <1>4 DEF UpInv, MemoryInv, QueueInv, Queued, RemovedInv
<1>6. QED
  BY <1>2, <1>3, <1>5 DEF UpInv

\* Passing the test of bPendingKill, looking a record up, leaving it, using it after it was
\* freed, and taking a reference to close it.
LEMMA LookupUp ==
  ASSUME BasicInv, UpInv, NEW p \in Task,
         \/ TestPendingKill(p) \/ (\E k \in Key : Find(p, k)) \/ LeaveRecord(p) \/ UseFreed(p)
         \/ CloseCase(p) \/ CloseReferences(p)
  PROVE  UpInv'
<1>1. task[p] \in TaskValue /\ TaskInv(p)
  BY DEF BasicInv, TypeOK, TaskValue, UpInv
<1>2. \A a \in {"asked", "undefined", "close", "remove"} : \E c \in TaskValue :
        /\ c = [task[p] EXCEPT !.at = a] /\ c.at = a
        /\ c.rec = task[p].rec /\ c.key = task[p].key /\ c.late = task[p].late
  <2>1. SUFFICES ASSUME NEW a \in {"asked", "undefined", "close", "remove"}
                 PROVE  \E c \in TaskValue :
                          /\ c = [task[p] EXCEPT !.at = a] /\ c.at = a
                          /\ c.rec = task[p].rec /\ c.key = task[p].key /\ c.late = task[p].late
    OBVIOUS
  <2> DEFINE c == [task[p] EXCEPT !.at = a]
  <2>2. /\ c \in TaskValue /\ c.at = a
        /\ c.rec = task[p].rec /\ c.key = task[p].key /\ c.late = task[p].late
    BY <1>1 DEF TaskValue
  <2> HIDE DEF c
  <2>3. c = [task[p] EXCEPT !.at = a]
    BY DEF c
  <2>4. QED
    BY <2>2, <2>3
<1>3. \A c \in TaskValue : task' = [task EXCEPT ![p] = c] => task'[p] = c
  BY DEF BasicInv, TypeOK
<1>4. ASSUME NEW k \in Key, Find(p, k) PROVE UpInv'
  <2>1. PICK c : c = [at |-> "found", rec |-> table[k], key |-> k, late |-> FALSE]
    OBVIOUS
  <2>2. c \in TaskValue /\ table[k] \in Record
    BY <1>4, <2>1 DEF Find, BasicInv, TypeOK, TaskValue
  <2>3. /\ task' = [task EXCEPT ![p] = c] /\ task[p].at \in Empty
        /\ UNCHANGED <<table, made, key, doomed, checks, pool>>
        /\ UNCHANGED <<holder, ticker, life, called, removed, overdue, hasty>>
    BY <1>4, <2>1 DEF Find, memory, Empty
  <2>4. task'[p] = c
    BY <1>3, <2>2, <2>3
  <2>5. made[table[k]] = "live" /\ key[table[k]] = k /\ pool[table[k]] = NotPooled
    BY <1>4, <2>2 DEF Find, UpInv, TableInv, MemoryInv
  <2>6. TaskInv(p)'
    BY <2>1, <2>3, <2>4, <2>5 DEF TaskInv, Closing, Unlinked, Unreferenced, NotPooled
  <2>7. QED
    BY <2>1, <2>2, <2>3, <2>6, UpFrame DEF Unlinked, Empty
<1>5. ASSUME LeaveRecord(p) PROVE UpInv'
  <2>1. Idle \in TaskValue /\ Idle.at = "idle"
    BY DEF Idle, TaskValue
  <2>2. /\ task' = [task EXCEPT ![p] = Idle] /\ task[p].at \in {"asked", "found"}
        /\ UNCHANGED <<table, made, key, doomed, checks, pool>>
        /\ UNCHANGED <<holder, ticker, life, called, removed, overdue, hasty>>
    BY <1>5 DEF LeaveRecord, memory
  <2>3. TaskInv(p)'
    BY <1>3, <2>1, <2>2 DEF TaskInv, Empty
  <2>4. QED
    BY <2>1, <2>2, <2>3, UpFrame DEF Unlinked
<1>6. ASSUME TestPendingKill(p) PROVE UpInv'
  <2>1. PICK c \in TaskValue : c = [task[p] EXCEPT !.at = "asked"] /\ c.at = "asked"
    BY <1>2
  <2>2. /\ task' = [task EXCEPT ![p] = c] /\ task[p].at = "idle"
        /\ UNCHANGED <<table, made, key, doomed, checks, pool>>
        /\ UNCHANGED <<holder, ticker, life, called, removed, overdue, hasty>>
    BY <1>6, <2>1 DEF TestPendingKill, memory
  <2>3. TaskInv(p)'
    BY <1>3, <2>1, <2>2 DEF TaskInv, Empty
  <2>4. QED
    BY <2>1, <2>2, <2>3, UpFrame DEF Unlinked
<1>7. ASSUME UseFreed(p) PROVE UpInv'
  <2>1. PICK c \in TaskValue : /\ c = [task[p] EXCEPT !.at = "undefined"] /\ c.at = "undefined"
                               /\ c.rec = task[p].rec /\ c.key = task[p].key /\ c.late = task[p].late
    BY <1>2
  <2>2. /\ task' = [task EXCEPT ![p] = c] /\ task[p].at \in Unreferenced
        /\ made[task[p].rec] = "freed"
        /\ UNCHANGED <<table, made, key, doomed, checks, pool>>
        /\ UNCHANGED <<holder, ticker, life, called, removed, overdue, hasty>>
    BY <1>7, <2>1 DEF UseFreed, memory, Unreferenced
  <2>3. TaskInv(p)'
    BY <1>1, <1>3, <2>1, <2>2 DEF TaskInv, Empty, Unreferenced, Closing, Unlinked
  <2>4. QED
    BY <2>1, <2>2, <2>3, UpFrame DEF Unlinked, Unreferenced
<1>8. ASSUME CloseCase(p) PROVE UpInv'
  <2>1. PICK c \in TaskValue : /\ c = [task[p] EXCEPT !.at = "close"] /\ c.at = "close"
                               /\ c.rec = task[p].rec /\ c.key = task[p].key /\ c.late = task[p].late
    BY <1>2
  <2>2. /\ task' = [task EXCEPT ![p] = c] /\ task[p].at = "found" /\ task[p].key \in Connection
        /\ UNCHANGED <<table, made, key, doomed, checks, pool>>
        /\ UNCHANGED <<holder, ticker, life, called, removed, overdue, hasty>>
    BY <1>8, <2>1 DEF CloseCase, memory
  <2>3. TaskInv(p)'
    BY <1>1, <1>3, <2>1, <2>2 DEF TaskInv, Empty, Unreferenced, Closing, Unlinked
  <2>4. QED
    BY <2>1, <2>2, <2>3, UpFrame DEF Unlinked
<1>9. ASSUME CloseReferences(p) PROVE UpInv'
  <2>1. PICK c \in TaskValue : /\ c = [task[p] EXCEPT !.at = "remove"] /\ c.at = "remove"
                               /\ c.rec = task[p].rec /\ c.key = task[p].key /\ c.late = task[p].late
    BY <1>2
  <2>2. /\ task' = [task EXCEPT ![p] = c] /\ task[p].at = "close" /\ made[task[p].rec] # "freed"
        /\ UNCHANGED <<table, made, key, doomed, checks, pool>>
        /\ UNCHANGED <<holder, ticker, life, called, removed, overdue, hasty>>
    BY <1>9, <2>1 DEF CloseReferences
  <2>3. made[task[p].rec] = "live" /\ task[p].key \in Connection
    <3>1. made[task[p].rec] \in {"no", "base", "live", "freed"}
      BY <2>2, TaskFields DEF Empty, BasicInv, TypeOK
    <3>2. QED
      BY <1>1, <2>2, <3>1 DEF TaskInv, Empty
  <2>4. TaskInv(p)'
    BY <1>1, <1>3, <2>1, <2>2, <2>3 DEF TaskInv, Empty, Unreferenced, Closing, Unlinked
  <2>5. QED
    BY <2>1, <2>2, <2>4, UpFrame DEF Unlinked
<1>10. QED
  BY <1>4, <1>5, <1>6, <1>7, <1>8, <1>9

\* A new record is known to the task that makes it, and to the queue.
LEMMA BeginUp ==
  ASSUME BasicInv, UpInv, NEW p \in Task, NEW k \in Key, BeginRecord(p, k)
  PROVE  UpInv'
<1>1. PICK r \in Record :
        /\ made[r] = "no"
        /\ made' = [made EXCEPT ![r] = "base"]
        /\ key' = [key EXCEPT ![r] = k]
        /\ checks' = Append(checks, r)
        /\ task' = [task EXCEPT ![p] = [at |-> "make", rec |-> r, key |-> k, late |-> FALSE]]
  BY DEF BeginRecord, Record
<1>2. /\ task[p].at = "asked" /\ holder[TableOf(k)] = "nobody"
      /\ holder' = [holder EXCEPT ![TableOf(k)] = p]
      /\ UNCHANGED <<table, doomed, pool, ticker, life, called, removed, overdue, hasty>>
  BY DEF BeginRecord, Unlocked
<1>3. table[k] = NoRecord
  BY DEF BeginRecord, UpInv, TableInv
<1>4. \A q \in Task : task'[q] = IF q = p THEN [at |-> "make", rec |-> r, key |-> k, late |-> FALSE] ELSE task[q]
  BY <1>1 DEF BasicInv, TypeOK
<1>5. \A x \in Record : made'[x] = (IF x = r THEN "base" ELSE made[x]) /\ key'[x] = (IF x = r THEN k ELSE key[x])
  BY <1>1 DEF BasicInv, TypeOK
<1>6. \A t \in Table : holder'[t] = IF t = TableOf(k) THEN p ELSE holder[t]
  BY <1>2 DEF BasicInv, TypeOK
<1>7. TableOf(k) \in Table /\ "connections" \in Table
  BY DEF TableOf, Table
<1>8. \A y : y \in ToSet(checks') <=> y \in ToSet(checks) \/ y = r
  BY <1>1, PushToSet DEF BasicInv, TypeOK
<1>9. \A kk \in Key : table[kk] \in Record \cup {NoRecord}
  BY DEF BasicInv, TypeOK
<1>10. TableInv'
  BY <1>1, <1>2, <1>5, <1>9 DEF UpInv, TableInv
<1>11. TickerInv'
  BY <1>1, <1>2, <1>5 DEF UpInv, TickerInv, BasicInv, ThreadsInv, TickerValue, Closing, Unlinked
<1>12. CallbackInv'
  BY <1>2 DEF UpInv, CallbackInv, ConnectionsEmpty
<1>13. ASSUME NEW q \in Task PROVE TaskInv(q)'
  <2>1. CASE q = p
    <3>1. task'[q].at = "make" /\ task'[q].rec = r /\ task'[q].key = k
      BY <1>4, <2>1
    <3>2. QED
      BY <1>2, <1>3, <1>5, <1>6, <1>7, <2>1, <3>1 DEF TaskInv, Closing, Unlinked, Unreferenced
  <2>2. CASE q # p /\ task[q].at \notin Empty
    <3>1. task'[q] = task[q] /\ TaskInv(q) /\ task[q].rec \in Record /\ task[q].key \in Key
      BY <1>4, <2>2 DEF UpInv, BasicInv, ThreadsInv
    <3>2. made[task[q].rec] # "no"
      BY <2>2, <3>1 DEF TaskInv
    <3>3. task[q].rec # r
      BY <1>1, <3>2
    <3>4. /\ key'[task[q].rec] = key[task[q].rec] /\ made'[task[q].rec] = made[task[q].rec]
      BY <1>5, <3>1, <3>3
    <3>5. \A t \in Table : holder[t] = q => holder'[t] = q
      BY <1>2, <1>6, NobodyIsNoTask
    <3>6. TableOf(task[q].key) \in Table
      BY DEF TableOf, Table
    <3>7. QED
      BY <1>2, <1>7, <3>1, <3>4, <3>5, <3>6 DEF TaskInv
  <2>3. CASE q # p /\ task[q].at \in Empty
    BY <1>4, <2>3 DEF TaskInv
  <2>4. QED
    BY <2>1, <2>2, <2>3
<1>14. ASSUME NEW x \in Record PROVE MemoryInv(x)' /\ QueueInv(x)' /\ RemovedInv(x)'
  <2>1. \A y \in removed : y # r
    BY <1>1 DEF UpInv, RemovedInv, BasicInv, TypeOK
  <2>2. CASE x = r
    <3>1. Making(x)'
      BY <1>4, <2>2 DEF Making
    <3>2. ~doomed[x] /\ pool[x] = NotPooled
      BY <1>1, <2>2 DEF UpInv, MemoryInv
    <3>3. MemoryInv(x)'
      BY <1>2, <1>5, <2>2, <3>1, <3>2 DEF MemoryInv
    <3>4. QueueInv(x)'
      BY <1>2, <1>5, <2>2, <3>2 DEF QueueInv, NotPooled
    <3>5. RemovedInv(x)'
      BY <1>2, <1>5, <2>1, <2>2 DEF RemovedInv
    <3>6. QED
      BY <3>3, <3>4, <3>5
  <2>3. CASE x # r
    <3>1. /\ Making(x) => Making(x)'
          /\ Unlinking(x) => Unlinking(x)'
          /\ Pooling(x) => Pooling(x)'
      BY <1>2, <1>4 DEF Making, Unlinking, Unlinked, Pooling
    <3>2. made'[x] = made[x] /\ key'[x] = key[x] /\ MemoryInv(x) /\ QueueInv(x) /\ RemovedInv(x)
      BY <1>5, <2>3 DEF UpInv
    <3>3. MemoryInv(x)'
      BY <1>2, <3>1, <3>2 DEF MemoryInv
    <3>4. QueueInv(x)'
      BY <1>2, <1>8, <2>3, <3>2 DEF QueueInv, Queued
    <3>5. \A y \in removed : key'[y] = key[y]
      BY <1>5, <2>1 DEF BasicInv, TypeOK
    <3>6. RemovedInv(x)'
      BY <1>2, <3>1, <3>2, <3>5 DEF RemovedInv
    <3>7. QED
      BY <3>3, <3>4, <3>6
  <2>4. QED
    BY <2>2, <2>3
<1>15. QED
  BY <1>10, <1>11, <1>12, <1>13, <1>14 DEF UpInv

\* A record enters its table where there is none, while its maker holds the lock.
LEMMA FinishUp ==
  ASSUME BasicInv, UpInv, NEW p \in Task, FinishRecord(p)
  PROVE  UpInv'
<1>1. PICK r \in Record, k \in Key : task[p].rec = r /\ task[p].key = k /\ task[p] \in TaskValue
  BY TaskFields DEF FinishRecord, Empty
<1>2. task[p].at = "make" /\ made[r] = "base" /\ key[r] = k /\ table[k] = NoRecord
      /\ holder[TableOf(k)] = p
  BY <1>1 DEF FinishRecord, UpInv, TaskInv, Empty
<1>3. /\ table' = [table EXCEPT ![k] = r]
      /\ made' = [made EXCEPT ![r] = "live"]
      /\ holder' = [holder EXCEPT ![TableOf(k)] = "nobody"]
      /\ task' = [task EXCEPT ![p].at = "found"]
      /\ UNCHANGED <<key, doomed, checks, pool, ticker, life, called, removed, overdue, hasty>>
  BY <1>1, <1>2 DEF FinishRecord
<1>4. PICK c \in TaskValue : c = [task[p] EXCEPT !.at = "found"] /\ c.at = "found" /\ c.rec = r /\ c.key = k
  <2>1. \A v \in TaskValue : LET c == [v EXCEPT !.at = "found"] IN
          c \in TaskValue /\ c.at = "found" /\ c.rec = v.rec /\ c.key = v.key
    BY DEF TaskValue
  <2>2. QED
    BY <1>1, <2>1
<1>5. \A q \in Task : task'[q] = IF q = p THEN c ELSE task[q]
  BY <1>3, <1>4 DEF BasicInv, TypeOK
<1>6. \A x \in Record : made'[x] = IF x = r THEN "live" ELSE made[x]
  BY <1>3 DEF BasicInv, TypeOK
<1>7. \A kk \in Key : table'[kk] = IF kk = k THEN r ELSE table[kk]
  BY <1>3 DEF BasicInv, TypeOK
<1>8. \A t \in Table : holder'[t] = IF t = TableOf(k) THEN "nobody" ELSE holder[t]
  BY <1>3 DEF BasicInv, TypeOK
<1>9. \A kk : TableOf(kk) \in Table /\ "connections" \in Table
  BY DEF TableOf, Table
<1>10. ~doomed[r] /\ pool[r] = NotPooled /\ r \notin removed
  BY <1>2 DEF UpInv, MemoryInv, RemovedInv
<1>11. \A kk \in Key : table[kk] \in Record \cup {NoRecord}
  BY DEF BasicInv, TypeOK
<1>12. TableInv'
  BY <1>2, <1>3, <1>6, <1>7, <1>10, <1>11 DEF UpInv, TableInv
<1>13. TickerInv'
  <2>1. CASE ticker.at \in Closing
    <3>1. ticker.rec \in Record /\ made[ticker.rec] = "live"
      BY <2>1 DEF UpInv, TickerInv, BasicInv, ThreadsInv, TickerValue
    <3>2. ticker.rec # r /\ key[ticker.rec] \in Key
      BY <1>2, <3>1 DEF UpInv, MemoryInv
    <3>3. QED
      BY <1>3, <1>6, <1>7, <3>1, <3>2 DEF UpInv, TickerInv
  <2>2. CASE ticker.at \notin Closing
    BY <1>3, <2>2 DEF TickerInv
  <2>3. QED
    BY <2>1, <2>2
<1>14. CallbackInv'
  <2>1. ConnectionsEmpty(table') => ConnectionsEmpty(table)
    BY <1>2, <1>7 DEF ConnectionsEmpty, Key
  <2>2. QED
    BY <1>3, <2>1 DEF UpInv, CallbackInv
<1>15. ASSUME NEW q \in Task PROVE TaskInv(q)'
  <2>1. CASE q = p
    <3>1. task'[q] = c /\ key'[r] = k /\ made'[r] = "live" /\ pool'[r] = NotPooled
      BY <1>2, <1>3, <1>5, <1>6, <1>10, <2>1
    <3>2. QED
      BY <1>4, <3>1 DEF TaskInv, Closing, Unlinked, NotPooled
  <2>2. CASE q # p /\ task[q].at \notin Empty
    <3>1. task'[q] = task[q] /\ TaskInv(q) /\ task[q].rec \in Record /\ task[q].key \in Key
      BY <1>5, <2>2 DEF UpInv, BasicInv, ThreadsInv
    <3>2. \A t \in Table : holder[t] = q => holder'[t] = q /\ t # TableOf(k)
      BY <1>2, <1>8, <2>2
    <3>3. task[q].at = "make" => task[q].key # k
      BY <1>9, <2>2, <3>1, <3>2 DEF TaskInv
    <3>5. task[q].rec # r
      BY <1>2, <2>2, <3>1, <3>3 DEF TaskInv
    <3>6. made'[task[q].rec] = made[task[q].rec]
      BY <1>6, <3>1, <3>5
    <3>7. /\ table[task[q].key] # task[q].rec => table'[task[q].key] # task[q].rec
          /\ task[q].at = "make" => table'[task[q].key] = table[task[q].key]
      BY <1>7, <3>1, <3>3, <3>5
    <3>8. QED
      <4>1. /\ key'[task[q].rec] = key[task[q].rec] /\ pool'[task[q].rec] = pool[task[q].rec]
            /\ UNCHANGED <<doomed, removed, hasty>>
        BY <1>3
      <4>2. holder["connections"] = q => holder'["connections"] = q
        BY <1>9, <3>2
      <4>3. holder[TableOf(task[q].key)] = q => holder'[TableOf(task[q].key)] = q
        BY <1>9, <3>2
      <4>4. QED
        BY <3>1, <3>6, <3>7, <4>1, <4>2, <4>3 DEF TaskInv
  <2>3. CASE q # p /\ task[q].at \in Empty
    BY <1>5, <2>3 DEF TaskInv
  <2>4. QED
    BY <2>1, <2>2, <2>3
<1>16. ASSUME NEW x \in Record PROVE MemoryInv(x)' /\ QueueInv(x)' /\ RemovedInv(x)'
  <2>1. MemoryInv(x) /\ QueueInv(x) /\ RemovedInv(x) /\ (Queued(x)' <=> Queued(x))
    BY <1>3 DEF UpInv, Queued
  <2>2. CASE x = r
    <3>1. MemoryInv(x)'
      BY <1>2, <1>3, <1>6, <1>10, <2>2 DEF MemoryInv
    <3>2. QueueInv(x)'
      BY <1>3, <1>6, <1>10, <2>2 DEF QueueInv, NotPooled
    <3>3. RemovedInv(x)'
      BY <1>2, <1>3, <1>7, <1>10, <2>2 DEF RemovedInv
    <3>4. QED
      BY <3>1, <3>2, <3>3
  <2>3. CASE x # r
    <3>1. /\ Making(x) => Making(x)'
          /\ Unlinking(x) => Unlinking(x)'
          /\ Pooling(x) => Pooling(x)'
      BY <1>1, <1>2, <1>3, <1>5, <2>3 DEF Making, Unlinking, Unlinked, Pooling
    <3>2. made'[x] = made[x]
      BY <1>6, <2>3
    <3>3. MemoryInv(x)'
      BY <1>3, <2>1, <3>1, <3>2 DEF MemoryInv
    <3>4. QueueInv(x)'
      BY <1>3, <2>1, <3>2 DEF QueueInv
    <3>5. made[x] = "live" => (table[key[x]] # x <=> table'[key[x]] # x) \/ key[x] = k
      BY <1>7, <2>1 DEF MemoryInv
    <3>6. x # NoRecord
      BY NoRecordIsNoRecord
    <3>7. RemovedInv(x)'
      BY <1>2, <1>3, <2>1, <3>1, <3>2, <3>5, <3>6 DEF RemovedInv
    <3>8. QED
      BY <3>3, <3>4, <3>7
  <2>4. QED
    BY <2>2, <2>3
<1>17. QED
  BY <1>12, <1>13, <1>14, <1>15, <1>16 DEF UpInv

\* A removal by key, by a task or by the ticker, of a record that is then to be marked.
LEMMA RemovalUp ==
  ASSUME BasicInv, UpInv, NEW x \in Record, made[x] = "live", RemoveByKey(x),
         UNCHANGED <<made, key, doomed, checks, pool, life, overdue, hasty>>,
         ticker'.snapshot = ticker.snapshot, ticker'.tmp = ticker.tmp,
         Unlinking(x)',
         \A r \in Record : /\ Making(r) => Making(r)'
                           /\ Unlinking(r) => Unlinking(r)'
                           /\ Pooling(r) => Pooling(r)'
  PROVE  /\ TableInv' /\ CallbackInv'
         /\ \A r \in Record : MemoryInv(r)' /\ QueueInv(r)' /\ RemovedInv(r)'
         /\ table'[key[x]] = NoRecord
         /\ \A k \in Key : table[k] = NoRecord => table'[k] = NoRecord
         /\ \A k \in Key, r \in Record : table[k] # r => table'[k] # r
         /\ removed' = removed \cup {x}
<1>1. key[x] \in Key
  BY DEF UpInv, MemoryInv
<1>2. \A k \in Key : table'[k] = IF k = key[x] THEN NoRecord ELSE table[k]
  BY <1>1 DEF RemoveByKey, BasicInv, TypeOK
<1>3. removed' = removed \cup {x}
  BY DEF RemoveByKey
<1>4. TableInv'
  BY <1>2 DEF UpInv, TableInv
<1>5. CallbackInv'
  <2>1. CASE key[x] \in Connection
    <3>1. life = "dying" /\ ConnectionsEmpty(table') => called'
      BY <2>1 DEF RemoveByKey
    <3>2. QED
      BY <3>1 DEF CallbackInv
  <2>2. CASE key[x] \notin Connection
    <3>1. called => called'
      BY DEF RemoveByKey
    <3>2. ConnectionsEmpty(table') => ConnectionsEmpty(table)
      BY <1>2, <2>2 DEF ConnectionsEmpty, Key
    <3>3. QED
      BY <3>1, <3>2 DEF UpInv, CallbackInv
  <2>3. QED
    BY <2>1, <2>2
<1>6. ASSUME NEW r \in Record PROVE MemoryInv(r)' /\ QueueInv(r)' /\ RemovedInv(r)'
  <2>1. MemoryInv(r) /\ QueueInv(r) /\ RemovedInv(r) /\ (Queued(r)' <=> Queued(r))
    BY DEF UpInv, Queued
  <2>2. MemoryInv(r)' /\ QueueInv(r)'
    BY <2>1 DEF MemoryInv, QueueInv
  <2>3. r \in removed' => made[r] \in {"live", "freed"} /\ (doomed[r] \/ Unlinking(r)')
    BY <1>3, <2>1 DEF RemovedInv
  <2>4. ASSUME made[r] = "live", ~doomed[r], r \notin removed', table'[key[r]] # r
        PROVE  \E y \in removed' \ {r} : key[y] = key[r]
    <3>1. key[r] \in Key /\ r # x /\ r \notin removed
      BY <1>3, <2>1, <2>4 DEF MemoryInv
    <3>2. CASE key[r] = key[x]
      BY <1>3, <3>1, <3>2
    <3>3. CASE key[r] # key[x]
      BY <1>2, <1>3, <2>1, <2>4, <3>1, <3>3 DEF RemovedInv
    <3>4. QED
      BY <3>2, <3>3
  <2>5. QED
    BY <2>2, <2>3, <2>4 DEF RemovedInv
<1>7. QED
  BY <1>1, <1>2, <1>3, <1>4, <1>5, <1>6, NoRecordIsNoRecord

\* The mark, by a task or by the ticker, of a record that was removed and that it is to pool.
LEMMA DoomUp ==
  ASSUME BasicInv, UpInv, NEW x \in Record, made[x] = "live", table[key[x]] # x,
         doomed' = [doomed EXCEPT ![x] = TRUE],
         UNCHANGED <<table, made, key, checks, pool, life, called, removed, overdue, hasty>>,
         ticker'.snapshot = ticker.snapshot, ticker'.tmp = ticker.tmp,
         Pooling(x)',
         \A r \in Record : /\ Making(r) => Making(r)'
                           /\ Unlinking(r) => Unlinking(r)'
                           /\ Pooling(r) => Pooling(r)'
  PROVE  /\ TableInv' /\ CallbackInv'
         /\ \A r \in Record : MemoryInv(r)' /\ QueueInv(r)' /\ RemovedInv(r)'
         /\ \A r \in Record : doomed[r] => doomed'[r]
<1>1. \A r \in Record : doomed'[r] = IF r = x THEN TRUE ELSE doomed[r]
  BY DEF BasicInv, TypeOK
<1>2. TableInv'
  <2>1. \A k \in Key : table[k] # x
    BY NoRecordIsNoRecord DEF UpInv, TableInv
  <2>2. \A k \in Key : table[k] \in Record \cup {NoRecord}
    BY DEF BasicInv, TypeOK
  <2>3. QED
    BY <1>1, <2>1, <2>2 DEF UpInv, TableInv
<1>3. CallbackInv'
  BY DEF UpInv, CallbackInv, ConnectionsEmpty
<1>4. ASSUME NEW r \in Record PROVE MemoryInv(r)' /\ QueueInv(r)' /\ RemovedInv(r)'
  <2>1. MemoryInv(r) /\ QueueInv(r) /\ RemovedInv(r) /\ (Queued(r)' <=> Queued(r))
    BY DEF UpInv, Queued
  <2>2. MemoryInv(r)'
    BY <1>1, <2>1 DEF MemoryInv
  <2>3. QueueInv(r)'
    BY <2>1 DEF QueueInv
  <2>4. RemovedInv(r)'
    BY <1>1, <2>1 DEF RemovedInv
  <2>5. QED
    BY <2>2, <2>3, <2>4
<1>5. QED
  BY <1>1, <1>2, <1>3, <1>4

\* The pool, by a task or by the ticker, of a record that was marked.
LEMMA PoolUp ==
  ASSUME BasicInv, UpInv, NEW x \in Record, made[x] = "live", doomed[x], Pool(x),
         UNCHANGED <<table, made, key, doomed, checks, life, called, removed, overdue, hasty>>,
         ticker'.snapshot = ticker.snapshot, ticker'.tmp = ticker.tmp,
         \A r \in Record : /\ Making(r) => Making(r)'
                           /\ Unlinking(r) => Unlinking(r)' \/ r = x
                           /\ Pooling(r) => Pooling(r)' \/ r = x
  PROVE  /\ TableInv' /\ CallbackInv'
         /\ \A r \in Record : MemoryInv(r)' /\ QueueInv(r)' /\ RemovedInv(r)'
         /\ \A r \in Record : pool'[r] = "old" => pool[r] = "old"
<1>1. \A r \in Record : \/ pool'[r] = pool[r] /\ (r = x => pool[r] # NotPooled)
                        \/ r = x /\ pool'[r] \in {"new", "ahead"}
  BY DEF Pool, BasicInv, TypeOK
<1>2. TableInv' /\ CallbackInv'
  BY DEF UpInv, TableInv, CallbackInv, ConnectionsEmpty
<1>3. ASSUME NEW r \in Record PROVE MemoryInv(r)' /\ QueueInv(r)' /\ RemovedInv(r)'
  <2>1. MemoryInv(r) /\ QueueInv(r) /\ RemovedInv(r) /\ (Queued(r)' <=> Queued(r))
    BY DEF UpInv, Queued
  <2>2. MemoryInv(r)'
    <3>1. pool'[r] # NotPooled <=> r = x \/ pool[r] # NotPooled
      BY <1>1 DEF NotPooled
    <3>2. QED
      BY <2>1, <3>1 DEF MemoryInv
  <2>3. QueueInv(r)'
    BY <1>1, <2>1 DEF QueueInv
  <2>4. RemovedInv(r)'
    BY <2>1 DEF RemovedInv
  <2>5. QED
    BY <2>2, <2>3, <2>4
<1>4. QED
  BY <1>1, <1>2, <1>3

\* What another task knows is not changed by one that takes or gives up the lock of the
\* open connections, as long as their records stay.
LEMMA TaskKept ==
  ASSUME BasicInv, UpInv, NEW q \in Task, task'[q] = task[q],
         UNCHANGED key, removed \subseteq removed', hasty \subseteq hasty',
         task[q].at \notin Empty =>
           /\ made'[task[q].rec] = made[task[q].rec]
           /\ doomed[task[q].rec] => doomed'[task[q].rec]
           /\ table[task[q].key] = NoRecord => table'[task[q].key] = NoRecord
           /\ table[task[q].key] # task[q].rec => table'[task[q].key] # task[q].rec
           /\ pool'[task[q].rec] = "old" => pool[task[q].rec] = "old",
         \A t \in Table : holder[t] = q => holder'[t] = q
  PROVE  TaskInv(q)'
<1>1. TaskInv(q) /\ (task[q].at \notin Empty => task[q].rec \in Record /\ task[q].key \in Key)
  BY DEF UpInv, BasicInv, ThreadsInv
<1>2. "connections" \in Table /\ TableOf(task[q].key) \in Table
  BY DEF Table, TableOf
<1>3. QED
  BY <1>1, <1>2 DEF TaskInv

\* Closing a record, step by step, once its reference is taken.
LEMMA CloseUp ==
  ASSUME BasicInv, UpInv, NEW p \in Task,
         CloseRemoves(p) \/ CloseMarks(p) \/ CloseDooms(p) \/ ClosePools(p)
  PROVE  UpInv'
<1>1. PICK x \in Record, k \in Key : task[p].rec = x /\ task[p].key = k /\ task[p] \in TaskValue
  BY TaskFields DEF CloseRemoves, CloseMarks, CloseDooms, ClosePools, Empty
<1>2. made[x] = "live" /\ key[x] = k /\ k \in Connection /\ task[p].at \in Closing
  BY <1>1 DEF CloseRemoves, CloseMarks, CloseDooms, ClosePools, UpInv, TaskInv, Closing, Empty
<1>3. Idle \in TaskValue /\ Idle.at = "idle" /\ Idle.rec = NoRecord
  BY DEF Idle, TaskValue
<1>4. \A a \in {"mark", "doom", "pool"} :
        LET c == [task[p] EXCEPT !.at = a] IN
          c \in TaskValue /\ c.at = a /\ c.rec = x /\ c.key = k
  BY <1>1 DEF TaskValue
<1>5. \A c \in TaskValue : task' = [task EXCEPT ![p] = c] =>
        \A q \in Task : task'[q] = IF q = p THEN c ELSE task[q]
  BY DEF BasicInv, TypeOK
<1>6. "connections" \in Table
  BY DEF Table
<1>7. \A a : holder' = [holder EXCEPT !["connections"] = a] =>
        \A t \in Table : holder'[t] = IF t = "connections" THEN a ELSE holder[t]
  BY DEF BasicInv, TypeOK
<1>8. ASSUME CloseRemoves(p) PROVE UpInv'
  <2>1. PICK c \in TaskValue : /\ c = [task[p] EXCEPT !.at = "mark"]
                               /\ c.at = "mark" /\ c.rec = x /\ c.key = k
    BY <1>4
  <2>2. task' = [task EXCEPT ![p] = c]
    BY <1>8, <2>1 DEF CloseRemoves
  <2>3. \A q \in Task : task'[q] = IF q = p THEN c ELSE task[q]
    BY <1>5, <2>2
  <2>4. UNCHANGED <<made, key, doomed, checks, pool, ticker, life, overdue, hasty>> /\ RemoveByKey(x)
        /\ task[p].at = "remove" /\ holder["connections"] = "nobody"
    BY <1>1, <1>8 DEF CloseRemoves, Unlocked
  <2>5. \A r \in Record : /\ Making(r) => Making(r)'
                          /\ Unlinking(r) => Unlinking(r)'
                          /\ Pooling(r) => Pooling(r)'
    BY <1>1, <2>1, <2>3, <2>4 DEF Making, Unlinking, Unlinked, Pooling
  <2>6. Unlinking(x)'
    BY <2>1, <2>3 DEF Unlinking, Unlinked
  <2>7. ticker'.snapshot = ticker.snapshot /\ ticker'.tmp = ticker.tmp
    BY <2>4
  <2>8. /\ TableInv' /\ CallbackInv'
        /\ \A r \in Record : MemoryInv(r)' /\ QueueInv(r)' /\ RemovedInv(r)'
        /\ table'[k] = NoRecord
        /\ \A kk \in Key : table[kk] = NoRecord => table'[kk] = NoRecord
        /\ \A kk \in Key, r \in Record : table[kk] # r => table'[kk] # r
        /\ removed' = removed \cup {x}
    BY <1>2, <2>4, <2>5, <2>6, <2>7, RemovalUp
  <2>9. \A t \in Table : holder'[t] = IF t = "connections" THEN p ELSE holder[t]
    BY <1>7, <1>8 DEF CloseRemoves
  <2>10. TickerInv'
    <3>1. CASE ticker.at \in Closing
      <4>1. ticker.rec \in Record /\ made[ticker.rec] = "live" /\ key[ticker.rec] \in Key
        BY <3>1 DEF UpInv, TickerInv, BasicInv, ThreadsInv, TickerValue, MemoryInv
      <4>2. QED
        BY <2>4, <2>8, <3>1, <4>1 DEF UpInv, TickerInv
    <3>2. CASE ticker.at \notin Closing
      BY <2>4, <3>2 DEF TickerInv
    <3>3. QED
      BY <3>1, <3>2
  <2>11. ASSUME NEW q \in Task PROVE TaskInv(q)'
    <3>1. CASE q = p
      <4>1. task'[q] = c /\ key'[x] = k /\ made'[x] = "live" /\ holder'["connections"] = p
            /\ table'[k] # x /\ x \in removed'
        BY <1>2, <1>6, <2>3, <2>4, <2>8, <2>9, <3>1, NoRecordIsNoRecord
      <4>2. QED
        BY <1>2, <2>1, <3>1, <4>1 DEF TaskInv, Unreferenced
    <3>2. CASE q # p
      <4>1. task'[q] = task[q] /\ \A t \in Table : holder[t] = q => holder'[t] = q
        BY <2>3, <2>4, <2>9, <3>2, NobodyIsNoTask
      <4>2. task[q].at \notin Empty => task[q].rec \in Record /\ task[q].key \in Key
        BY DEF BasicInv, ThreadsInv
      <4>3. QED
        BY <2>4, <2>8, <4>1, <4>2, TaskKept
    <3>3. QED
      BY <3>1, <3>2
  <2>12. QED
    BY <2>8, <2>10, <2>11 DEF UpInv
<1>9. ASSUME NEW c \in TaskValue, task' = [task EXCEPT ![p] = c],
             \/ c = Idle /\ holder' = [holder EXCEPT !["connections"] = "nobody"]
             \/ UNCHANGED holder,
             UNCHANGED <<table, key, made, removed, hasty>>,
             \A r \in Record : pool'[r] = "old" => pool[r] = "old",
             \A r \in Record : doomed[r] => doomed'[r],
             task[p].at \in Unlinked, NEW q \in Task, q # p
      PROVE  TaskInv(q)'
  <2>1. task'[q] = task[q]
    BY <1>5, <1>9
  <2>2. holder["connections"] = p
    BY <1>9 DEF UpInv, TaskInv, Unlinked, Empty
  <2>3. \A t \in Table : holder[t] = q => holder'[t] = q
    BY <1>7, <1>9, <2>2
  <2>4. task[q].at \notin Empty => task[q].rec \in Record /\ task[q].key \in Key
    BY DEF BasicInv, ThreadsInv
  <2>5. QED
    BY <1>9, <2>1, <2>3, <2>4, TaskKept
<1>10. ASSUME CloseMarks(p) PROVE UpInv'
  <2>1. CASE doomed[x]
    <3>1. /\ task' = [task EXCEPT ![p] = Idle]
          /\ holder' = [holder EXCEPT !["connections"] = "nobody"]
          /\ UNCHANGED <<table, made, key, doomed, checks, pool, ticker, life, called, removed,
                         overdue, hasty>>
          /\ task[p].at = "mark"
      BY <1>1, <1>10, <2>1 DEF CloseMarks
    <3>2. \A q \in Task : task'[q] = IF q = p THEN Idle ELSE task[q]
      BY <1>3, <1>5, <3>1
    <3>3. TableInv' /\ TickerInv' /\ CallbackInv'
      BY <3>1 DEF UpInv, TableInv, TickerInv, CallbackInv, ConnectionsEmpty
    <3>4. \A r \in Record : /\ Making(r) => Making(r)'
                            /\ Unlinking(r) => Unlinking(r)' \/ doomed[r]
                            /\ Pooling(r) => Pooling(r)'
      BY <1>1, <2>1, <3>1, <3>2 DEF Making, Unlinking, Pooling
    <3>5. \A r \in Record : MemoryInv(r)' /\ QueueInv(r)' /\ RemovedInv(r)'
      BY <3>1, <3>4 DEF UpInv, MemoryInv, QueueInv, Queued, RemovedInv
    <3>6. TaskInv(p)'
      BY <1>3, <3>2 DEF TaskInv, Empty
    <3>7. ASSUME NEW q \in Task, q # p PROVE TaskInv(q)'
      BY <1>3, <1>9, <3>1, <3>7 DEF Unlinked
    <3>8. QED
      BY <3>3, <3>5, <3>6, <3>7 DEF UpInv
  <2>2. CASE ~doomed[x]
    <3>1. PICK c \in TaskValue : /\ c = [task[p] EXCEPT !.at = "doom"]
                                 /\ c.at = "doom" /\ c.rec = x /\ c.key = k
      BY <1>4
    <3>2. /\ task' = [task EXCEPT ![p] = c]
          /\ UNCHANGED <<table, made, key, doomed, checks, pool, holder, ticker, life, called, removed,
                         overdue, hasty>>
          /\ task[p].at = "mark"
      BY <1>1, <1>10, <2>2, <3>1 DEF CloseMarks
    <3>3. \A q \in Task : task'[q] = IF q = p THEN c ELSE task[q]
      BY <1>5, <3>2
    <3>4. TableInv' /\ TickerInv' /\ CallbackInv'
      BY <3>2 DEF UpInv, TableInv, TickerInv, CallbackInv, ConnectionsEmpty
    <3>5. \A r \in Record : /\ Making(r) => Making(r)'
                            /\ Unlinking(r) => Unlinking(r)'
                            /\ Pooling(r) => Pooling(r)'
      BY <1>1, <3>1, <3>2, <3>3 DEF Making, Unlinking, Unlinked, Pooling
    <3>6. \A r \in Record : MemoryInv(r)' /\ QueueInv(r)' /\ RemovedInv(r)'
      BY <3>2, <3>5 DEF UpInv, MemoryInv, QueueInv, Queued, RemovedInv
    <3>7. TaskInv(p)'
      <4>1. TaskInv(p) /\ task'[p] = c
        BY <3>3 DEF UpInv
      <4>2. QED
        BY <1>1, <1>2, <3>1, <3>2, <4>1 DEF TaskInv, Unlinked, Empty, Unreferenced
    <3>8. ASSUME NEW q \in Task, q # p PROVE TaskInv(q)'
      BY <1>9, <3>1, <3>2, <3>8 DEF Unlinked
    <3>9. QED
      BY <3>4, <3>6, <3>7, <3>8 DEF UpInv
  <2>3. QED
    BY <2>1, <2>2
<1>11. ASSUME ClosePools(p) PROVE UpInv'
  <2>1. /\ task' = [task EXCEPT ![p] = Idle]
        /\ holder' = [holder EXCEPT !["connections"] = "nobody"]
        /\ UNCHANGED <<table, made, key, doomed, checks, ticker, life, called, removed, overdue, hasty>>
        /\ task[p].at = "pool" /\ Pool(x)
    BY <1>1, <1>11 DEF ClosePools
  <2>2. \A q \in Task : task'[q] = IF q = p THEN Idle ELSE task[q]
    BY <1>3, <1>5, <2>1
  <2>3. \A r \in Record : /\ Making(r) => Making(r)'
                          /\ Unlinking(r) => Unlinking(r)' \/ r = x
                          /\ Pooling(r) => Pooling(r)' \/ r = x
    BY <1>1, <2>1, <2>2 DEF Making, Unlinking, Pooling
  <2>4. doomed[x] /\ ticker'.snapshot = ticker.snapshot /\ ticker'.tmp = ticker.tmp
    BY <1>1, <2>1 DEF UpInv, TaskInv, Empty
  <2>5. /\ TableInv' /\ CallbackInv'
        /\ \A r \in Record : MemoryInv(r)' /\ QueueInv(r)' /\ RemovedInv(r)'
        /\ \A r \in Record : pool'[r] = "old" => pool[r] = "old"
    BY <1>2, <2>1, <2>3, <2>4, PoolUp
  <2>6. TickerInv'
    BY <2>1 DEF UpInv, TickerInv
  <2>7. TaskInv(p)'
    BY <1>3, <2>2 DEF TaskInv, Empty
  <2>8. ASSUME NEW q \in Task, q # p PROVE TaskInv(q)'
    BY <1>3, <1>9, <2>1, <2>5, <2>8 DEF Unlinked
  <2>9. QED
    BY <2>5, <2>6, <2>7, <2>8 DEF UpInv
<1>12. ASSUME CloseDooms(p) PROVE UpInv'
  <2>1. PICK c \in TaskValue : /\ c = [task[p] EXCEPT !.at = "pool"]
                               /\ c.at = "pool" /\ c.rec = x /\ c.key = k
    BY <1>4
  <2>2. /\ task' = [task EXCEPT ![p] = c] /\ task[p].at = "doom"
        /\ doomed' = [doomed EXCEPT ![x] = TRUE]
        /\ UNCHANGED <<table, made, key, checks, pool, holder, ticker, life, called, removed,
                       overdue, hasty>>
    BY <1>1, <1>12, <2>1 DEF CloseDooms
  <2>3. \A q \in Task : task'[q] = IF q = p THEN c ELSE task[q]
    BY <1>5, <2>2
  <2>4. /\ \A r \in Record : /\ Making(r) => Making(r)'
                             /\ Unlinking(r) => Unlinking(r)'
                             /\ Pooling(r) => Pooling(r)'
        /\ Pooling(x)'
    BY <1>1, <2>1, <2>2, <2>3 DEF Making, Unlinking, Unlinked, Pooling
  <2>5. TaskInv(p) /\ task'[p] = c
    BY <2>3 DEF UpInv
  <2>6. table[key[x]] # x /\ ticker'.snapshot = ticker.snapshot /\ ticker'.tmp = ticker.tmp
    BY <1>1, <1>2, <2>2, <2>5 DEF TaskInv, Unlinked, Empty
  <2>7. /\ TableInv' /\ CallbackInv'
        /\ \A r \in Record : MemoryInv(r)' /\ QueueInv(r)' /\ RemovedInv(r)'
        /\ \A r \in Record : doomed[r] => doomed'[r]
    BY <1>2, <2>2, <2>4, <2>6, DoomUp
  <2>8. TickerInv'
    <3>1. ticker.at \in Closing => ticker.rec \in Record
      BY DEF BasicInv, ThreadsInv, TickerValue
    <3>2. QED
      BY <2>2, <2>7, <3>1 DEF UpInv, TickerInv, Closing
  <2>9. TaskInv(p)'
    <3>1. doomed'[x]
      BY <2>2 DEF BasicInv, TypeOK
    <3>2. QED
      BY <1>1, <1>2, <2>1, <2>2, <2>5, <3>1 DEF TaskInv, Unlinked, Empty, Unreferenced
  <2>10. ASSUME NEW q \in Task, q # p PROVE TaskInv(q)'
    BY <1>9, <2>1, <2>2, <2>7, <2>10 DEF Unlinked
  <2>11. QED
    BY <2>7, <2>8, <2>9, <2>10 DEF UpInv
<1>13. QED
  BY <1>8, <1>10, <1>11, <1>12

\* Another check begins, with the whole queue as its snapshot.
LEMMA WakeUp ==
  ASSUME BasicInv, UpInv, Wake
  PROVE  UpInv'
<1>1. /\ UNCHANGED <<table, made, key, doomed, holder, task, life, called, removed, hasty>>
      /\ checks' = <<>> /\ overdue' = {r \in overdue : made[r] = "freed"}
      /\ ticker'.at = "check" /\ ticker'.rec = NoRecord
      /\ ticker'.snapshot = checks /\ ticker'.tmp = <<>>
      /\ ticker.at = "idle" /\ ticker.rec = NoRecord
  BY DEF Wake, Resting, BasicInv, ThreadsInv, Closing
<1>2. \A r \in Record : /\ pool'[r] # NotPooled <=> pool[r] # NotPooled
                        /\ pool'[r] = "old" <=> pool[r] = "old"
  BY DEF Wake, NotPooled
<1>3. TableInv' /\ CallbackInv' /\ TickerInv'
  BY <1>1 DEF UpInv, TableInv, CallbackInv, ConnectionsEmpty, TickerInv, Closing
<1>4. ASSUME NEW p \in Task PROVE TaskInv(p)'
  <2>1. task[p].at \notin Empty => task[p].rec \in Record
    BY DEF BasicInv, ThreadsInv
  <2>2. QED
    BY <1>1, <1>2, <2>1, TaskKept
<1>5. ASSUME NEW r \in Record PROVE MemoryInv(r)' /\ QueueInv(r)' /\ RemovedInv(r)'
  <2>1. MemoryInv(r) /\ QueueInv(r) /\ RemovedInv(r)
    BY DEF UpInv
  <2>2. /\ Making(r) => Making(r)'
        /\ Unlinking(r) => Unlinking(r)'
        /\ Pooling(r) => Pooling(r)'
    BY <1>1, NoRecordIsNoRecord DEF Making, Unlinking, Pooling
  <2>3. r \notin ToSet(checks') /\ r \notin ToSet(ticker'.tmp)
    BY <1>1, EmptyToSet
  <2>4. QueueInv(r)'
    <3>1. Queued(r)' => Queued(r)
      BY <1>1, <2>3 DEF Queued
    <3>2. QED
      BY <1>1, <2>1, <2>3, <3>1 DEF QueueInv
  <2>5. MemoryInv(r)'
    BY <1>1, <1>2, <2>1, <2>2 DEF MemoryInv
  <2>6. RemovedInv(r)'
    BY <1>1, <2>1, <2>2 DEF RemovedInv
  <2>7. QED
    BY <2>4, <2>5, <2>6
<1>6. QED
  BY <1>3, <1>4, <1>5 DEF UpInv

\* The deallocator looks at the clock: who has a record that is old by then, without a
\* reference, is late, and a record that no check has begun for since is overdue.
LEMMA ClockUp ==
  ASSUME BasicInv, UpInv, ReadClock
  PROVE  UpInv'
<1>1. /\ UNCHANGED <<table, made, key, doomed, checks, holder, life, called, removed, hasty>>
      /\ ticker'.at = "deallocate" /\ ticker'.rec = NoRecord
      /\ ticker'.snapshot = <<>> /\ ticker'.tmp = <<>>
      /\ ticker.at = "idle" /\ ticker.rec = NoRecord
  BY DEF ReadClock, Resting, BasicInv, ThreadsInv, Closing
<1>2. PICK R \in SUBSET {r \in Record : pool[r] \in {"new", "seen"}} :
        /\ pool' = [r \in Record |-> IF r \in R THEN "old" ELSE pool[r]]
        /\ overdue' = overdue \cup {r \in R : pool[r] = "new"}
  BY DEF ReadClock
<1>3. \A r \in Record : /\ pool'[r] # NotPooled <=> pool[r] # NotPooled
                        /\ pool'[r] = "seen" => pool[r] = "seen"
                        /\ pool'[r] = "old" => pool[r] = "old" \/ pool[r] = "seen" \/ r \in overdue'
                        /\ r \in overdue => r \in overdue'
  BY <1>2 DEF NotPooled
<1>4. ASSUME NEW p \in Task
      PROVE  /\ task'[p].at = task[p].at /\ task'[p].rec = task[p].rec
             /\ task'[p].key = task[p].key
             /\ task[p].late => task'[p].late
             /\ task[p].at \in Unreferenced /\ pool'[task[p].rec] = "old" => task'[p].late
  <2>1. task[p] \in TaskValue
    BY DEF BasicInv, TypeOK, TaskValue
  <2>2. \A b \in BOOLEAN : LET w == [task[p] EXCEPT !.late = @ \/ b] IN
          /\ w.at = task[p].at /\ w.rec = task[p].rec /\ w.key = task[p].key
          /\ w.late = (task[p].late \/ b)
    BY <2>1 DEF TaskValue
  <2>3. PICK b \in BOOLEAN : /\ b = (task[p].at \in Unreferenced /\ pool'[task[p].rec] = "old")
                             /\ task'[p] = [task[p] EXCEPT !.late = @ \/ b]
    BY DEF ReadClock, Unreferenced
  <2>4. QED
    BY <2>2, <2>3
<1>5. TableInv' /\ CallbackInv' /\ TickerInv'
  BY <1>1 DEF UpInv, TableInv, CallbackInv, ConnectionsEmpty, TickerInv, Closing
<1>6. ASSUME NEW p \in Task PROVE TaskInv(p)'
  BY <1>1, <1>4 DEF UpInv, TaskInv
<1>7. ASSUME NEW r \in Record PROVE MemoryInv(r)' /\ QueueInv(r)' /\ RemovedInv(r)'
  <2>1. MemoryInv(r) /\ QueueInv(r) /\ RemovedInv(r)
    BY DEF UpInv
  <2>2. /\ Making(r) => Making(r)'
        /\ Unlinking(r) => Unlinking(r)'
        /\ Pooling(r) => Pooling(r)'
    BY <1>1, <1>4, NoRecordIsNoRecord DEF Making, Unlinking, Pooling
  <2>3. r \notin ToSet(ticker'.snapshot) /\ r \notin ToSet(ticker'.tmp)
    BY <1>1, EmptyToSet
  <2>4. QueueInv(r)'
    <3>1. Queued(r)' => Queued(r)
      BY <1>1, <2>3 DEF Queued
    <3>2. QED
      BY <1>1, <1>3, <2>1, <2>3, <3>1 DEF QueueInv
  <2>5. MemoryInv(r)'
    BY <1>1, <1>3, <2>1, <2>2 DEF MemoryInv
  <2>6. RemovedInv(r)'
    BY <1>1, <2>1, <2>2 DEF RemovedInv
  <2>7. QED
    BY <2>4, <2>5, <2>6
<1>8. QED
  BY <1>5, <1>6, <1>7 DEF UpInv

\* The ticker looks at a record of its snapshot, puts the ones it keeps back in the queue, or
\* goes on to remove one.
LEMMA CheckUp ==
  ASSUME BasicInv, UpInv, CheckRecord \/ EndCheck
  PROVE  UpInv'
<1>1. /\ UNCHANGED <<table, made, key, doomed, pool, holder, task, life, called, removed,
                     overdue, hasty>>
      /\ ticker.at = "check" /\ ticker \in TickerValue
  BY DEF CheckRecord, EndCheck, BasicInv, ThreadsInv
<1>2. /\ ticker.snapshot \in Seq(Record) /\ ticker.tmp \in Seq(Record) /\ checks \in Seq(Record)
  BY <1>1 DEF TickerValue, BasicInv, TypeOK
<1>3. ASSUME \A r \in Record :
               /\ Queued(r)' => Queued(r)
               /\ r \in ToSet(checks') \cup ToSet(ticker'.tmp) =>
                    ~doomed[r] \/ r \in ToSet(checks) \cup ToSet(ticker.tmp)
               /\ r \in ToSet(ticker'.snapshot) => r \in ToSet(ticker.snapshot),
             TickerInv'
      PROVE  UpInv'
  <2>1. TableInv' /\ CallbackInv'
    BY <1>1 DEF UpInv, TableInv, CallbackInv, ConnectionsEmpty
  <2>2. \A p \in Task : TaskInv(p)'
    BY <1>1 DEF UpInv, TaskInv
  <2>3. ASSUME NEW r \in Record PROVE MemoryInv(r)' /\ QueueInv(r)' /\ RemovedInv(r)'
    <3>1. /\ Making(r) => Making(r)'
          /\ Unlinking(r) => Unlinking(r)'
          /\ Pooling(r) => Pooling(r)'
      <4>1. ticker.rec # r
        BY <1>1, NoRecordIsNoRecord DEF BasicInv, ThreadsInv, Closing
      <4>2. QED
        BY <1>1, <4>1 DEF Making, Unlinking, Pooling
    <3>2. MemoryInv(r)' /\ RemovedInv(r)'
      BY <1>1, <3>1 DEF UpInv, MemoryInv, RemovedInv
    <3>3. pool[r] # "no" => doomed[r]
      BY DEF UpInv, MemoryInv, NotPooled
    <3>4. MemoryInv(r) /\ QueueInv(r)
      BY DEF UpInv
    <3>5. QueueInv(r)'
      BY <1>1, <1>3, <3>3, <3>4 DEF QueueInv
    <3>6. QED
      BY <3>2, <3>5
  <2>4. QED
    BY <1>3, <2>1, <2>2, <2>3 DEF UpInv
<1>4. ASSUME EndCheck PROVE UpInv'
  <2>1. checks' = checks \o ticker.tmp /\ ticker'.snapshot = <<>> /\ ticker'.tmp = <<>>
        /\ ticker'.at = "idle"
    BY <1>4 DEF EndCheck, Resting
  <2>2. ToSet(checks') = ToSet(checks) \cup ToSet(ticker.tmp)
    BY <1>2, <2>1, ConcatToSet
  <2>3. \A y : y \notin ToSet(ticker'.snapshot) /\ y \notin ToSet(ticker'.tmp)
    BY <2>1, EmptyToSet
  <2>4. TickerInv'
    BY <2>1 DEF TickerInv, Closing
  <2>5. \A r \in Record : Queued(r)' => Queued(r)
    BY <2>2, <2>3 DEF Queued
  <2>6. QED
    BY <1>3, <2>2, <2>3, <2>4, <2>5
<1>5. ASSUME CheckRecord PROVE UpInv'
  <2>1. PICK x \in Record, s \in Seq(Record) :
          x = Head(ticker.snapshot) /\ s = Tail(ticker.snapshot) /\ ticker.snapshot # <<>>
    <3>1. ticker.snapshot # <<>>
      BY <1>5 DEF CheckRecord
    <3>2. Head(ticker.snapshot) \in Record /\ Tail(ticker.snapshot) \in Seq(Record)
      BY <1>2, <3>1
    <3>3. QED
      BY <3>1, <3>2
  <2>2. x \in ToSet(ticker.snapshot) /\ ToSet(s) \subseteq ToSet(ticker.snapshot)
    BY <1>2, <2>1, PopToSet
  <2>3. checks' = checks
    BY <1>5 DEF CheckRecord
  <2>4. \A y : y \in ToSet(Append(ticker.tmp, x)) <=> y \in ToSet(ticker.tmp) \/ y = x
    BY <1>2, PushToSet
  <2>5. CASE ticker' = [ticker EXCEPT !.at = "undefined"]
    <3>1. ticker'.snapshot = ticker.snapshot /\ ticker'.tmp = ticker.tmp /\ ticker'.at = "undefined"
      BY <1>1, <2>5 DEF TickerValue
    <3>2. \A r \in Record : Queued(r)' <=> Queued(r)
      BY <2>3, <3>1 DEF Queued
    <3>3. TickerInv'
      BY <3>1 DEF TickerInv, Closing
    <3>4. QED
      BY <1>3, <2>3, <3>1, <3>2, <3>3
  <2>6. CASE ticker' = [ticker EXCEPT !.snapshot = s]
    <3>1. ticker'.snapshot = s /\ ticker'.tmp = ticker.tmp /\ ticker'.at = "check"
      BY <1>1, <2>6 DEF TickerValue
    <3>2. \A r \in Record : Queued(r)' => Queued(r)
      BY <2>2, <2>3, <3>1 DEF Queued
    <3>3. TickerInv'
      BY <3>1 DEF TickerInv, Closing
    <3>4. QED
      BY <1>3, <2>2, <2>3, <3>1, <3>2, <3>3
  <2>7. CASE ticker' = [[ticker EXCEPT !.snapshot = s] EXCEPT !.tmp = Append(@, x)] /\ ~doomed[x]
    <3>1. ticker'.snapshot = s /\ ticker'.tmp = Append(ticker.tmp, x) /\ ticker'.at = "check"
      BY <1>1, <2>7 DEF TickerValue
    <3>2. \A r \in Record : Queued(r)' => Queued(r)
      BY <2>2, <2>3, <2>4, <3>1 DEF Queued
    <3>3. TickerInv'
      BY <3>1 DEF TickerInv, Closing
    <3>4. QED
      BY <1>3, <2>2, <2>3, <2>4, <2>7, <3>1, <3>2, <3>3
  <2>8. CASE /\ ticker' = [[ticker EXCEPT !.snapshot = s] EXCEPT !.at = "remove", !.rec = x]
             /\ made[x] = "live"
    <3>1. ticker'.snapshot = s /\ ticker'.tmp = ticker.tmp /\ ticker'.at = "remove" /\ ticker'.rec = x
      BY <1>1, <2>8 DEF TickerValue
    <3>2. \A r \in Record : Queued(r)' => Queued(r)
      BY <2>2, <2>3, <3>1 DEF Queued
    <3>3. TickerInv'
      BY <1>1, <2>8, <3>1 DEF TickerInv, Unlinked
    <3>4. QED
      BY <1>3, <2>2, <2>3, <3>1, <3>2, <3>3
  <2>9. QED
    BY <1>5, <2>1, <2>5, <2>6, <2>7, <2>8 DEF CheckRecord
<1>6. QED
  BY <1>4, <1>5

\* Giving a record up, step by step: the ticker closes it as a task would.
LEMMA ExpireUp ==
  ASSUME BasicInv, UpInv, ExpireRemoves \/ ExpireMarks \/ ExpireDooms \/ ExpirePools
  PROVE  UpInv'
<1>1. /\ ticker.rec \in Record /\ ticker.at \in Closing /\ made[ticker.rec] = "live"
      /\ key[ticker.rec] \in Key /\ ticker \in TickerValue /\ TickerInv
      /\ ticker.at \in Unlinked => table[key[ticker.rec]] # ticker.rec /\ ticker.rec \in removed
  BY DEF ExpireRemoves, ExpireMarks, ExpireDooms, ExpirePools, UpInv, TickerInv, BasicInv,
     ThreadsInv, TickerValue, Closing, MemoryInv
<1>2. PICK x \in Record : ticker.rec = x
  BY <1>1
<1>3. UNCHANGED <<task, holder, key, made, checks, life, overdue, hasty>>
  BY DEF ExpireRemoves, ExpireMarks, ExpireDooms, ExpirePools
<1>4. ASSUME removed \subseteq removed',
             \A k \in Key : table[k] = NoRecord => table'[k] = NoRecord,
             \A k \in Key, r \in Record : table[k] # r => table'[k] # r,
             \A r \in Record : doomed[r] => doomed'[r],
             \A r \in Record : pool'[r] = "old" => pool[r] = "old",
             NEW q \in Task
      PROVE  TaskInv(q)'
  <2>1. task[q].at \notin Empty => task[q].rec \in Record /\ task[q].key \in Key
    BY DEF BasicInv, ThreadsInv
  <2>2. task'[q] = task[q] /\ \A t \in Table : holder[t] = q => holder'[t] = q
    BY <1>3
  <2>3. QED
    BY <1>3, <1>4, <2>1, <2>2, TaskKept
<1>5. \A r \in Record : Making(r) => Making(r)'
  BY <1>3 DEF Making
<1>6. ASSUME ExpireRemoves PROVE UpInv'
  <2>1. /\ RemoveByKey(x) /\ UNCHANGED <<made, key, doomed, checks, pool, life, overdue, hasty>>
        /\ ticker.at = "remove"
    BY <1>2, <1>6 DEF ExpireRemoves
  <2>2. ticker'.at = "mark" /\ ticker'.rec = x /\ ticker'.snapshot = ticker.snapshot
        /\ ticker'.tmp = ticker.tmp
    BY <1>1, <1>2, <1>6 DEF ExpireRemoves, TickerValue
  <2>3. Unlinking(x)'
    BY <2>2 DEF Unlinking, Unlinked
  <2>4. \A r \in Record : /\ Unlinking(r) => Unlinking(r)'
                          /\ Pooling(r) => Pooling(r)'
    BY <1>3, <2>1 DEF Unlinking, Unlinked, Pooling
  <2>5. /\ TableInv' /\ CallbackInv'
        /\ \A r \in Record : MemoryInv(r)' /\ QueueInv(r)' /\ RemovedInv(r)'
        /\ table'[key[x]] = NoRecord
        /\ \A k \in Key : table[k] = NoRecord => table'[k] = NoRecord
        /\ \A k \in Key, r \in Record : table[k] # r => table'[k] # r
        /\ removed' = removed \cup {x}
    BY <1>1, <1>2, <1>5, <2>1, <2>2, <2>3, <2>4, RemovalUp
  <2>6. TickerInv'
    BY <1>1, <1>2, <2>1, <2>2, <2>5, NoRecordIsNoRecord DEF TickerInv
  <2>7. \A q \in Task : TaskInv(q)'
    BY <1>4, <2>1, <2>5
  <2>8. QED
    BY <2>5, <2>6, <2>7 DEF UpInv
<1>7. ASSUME ExpireMarks PROVE UpInv'
  <2>1. /\ UNCHANGED <<table, made, key, doomed, checks, pool, holder, task, life, called, removed>>
        /\ ticker.at = "mark"
    BY <1>7 DEF ExpireMarks
  <2>2. /\ ticker'.snapshot = ticker.snapshot /\ ticker'.tmp = ticker.tmp
        /\ \/ ticker'.at = "check" /\ doomed[x]
           \/ ticker'.at = "doom" /\ ticker'.rec = x
    <3>1. CASE doomed[x]
      BY <1>1, <1>2, <1>7, <3>1 DEF ExpireMarks, TickerValue
    <3>2. CASE ~doomed[x]
      BY <1>1, <1>2, <1>7, <3>2 DEF ExpireMarks, TickerValue
    <3>3. QED
      BY <3>1, <3>2
  <2>3. TableInv' /\ CallbackInv'
    BY <2>1 DEF UpInv, TableInv, CallbackInv, ConnectionsEmpty
  <2>4. TickerInv'
    BY <1>1, <1>2, <2>1, <2>2 DEF TickerInv, Closing, Unlinked
  <2>5. \A r \in Record : /\ Unlinking(r) => Unlinking(r)' \/ doomed[r]
                          /\ Pooling(r) => Pooling(r)'
    BY <1>2, <2>1, <2>2 DEF Unlinking, Unlinked, Pooling
  <2>6. \A r \in Record : MemoryInv(r)' /\ QueueInv(r)' /\ RemovedInv(r)'
    BY <1>3, <1>5, <2>1, <2>2, <2>5 DEF UpInv, MemoryInv, QueueInv, Queued, RemovedInv
  <2>7. \A q \in Task : TaskInv(q)'
    BY <1>4, <2>1
  <2>8. QED
    BY <2>3, <2>4, <2>6, <2>7 DEF UpInv
<1>8. ASSUME ExpirePools PROVE UpInv'
  <2>1. /\ UNCHANGED <<table, made, key, doomed, checks, holder, task, life, called, removed>>
        /\ ticker.at = "pool" /\ Pool(x)
    BY <1>2, <1>8 DEF ExpirePools
  <2>2. ticker'.at = "check" /\ ticker'.snapshot = ticker.snapshot /\ ticker'.tmp = ticker.tmp
    BY <1>1, <1>8 DEF ExpirePools, TickerValue
  <2>3. \A r \in Record : /\ Unlinking(r) => Unlinking(r)' \/ r = x
                          /\ Pooling(r) => Pooling(r)' \/ r = x
    BY <1>2, <2>1 DEF Unlinking, Pooling
  <2>4. doomed[x]
    BY <1>1, <1>2, <2>1 DEF TickerInv
  <2>5. /\ TableInv' /\ CallbackInv'
        /\ \A r \in Record : MemoryInv(r)' /\ QueueInv(r)' /\ RemovedInv(r)'
        /\ \A r \in Record : pool'[r] = "old" => pool[r] = "old"
    BY <1>1, <1>2, <1>3, <1>5, <2>1, <2>2, <2>3, <2>4, PoolUp
  <2>6. TickerInv'
    BY <2>2 DEF TickerInv, Closing
  <2>7. \A q \in Task : TaskInv(q)'
    BY <1>4, <2>1, <2>5
  <2>8. QED
    BY <2>5, <2>6, <2>7 DEF UpInv
<1>9. ASSUME ExpireDooms PROVE UpInv'
  <2>1. /\ UNCHANGED <<table, made, key, checks, pool, holder, task, life, called, removed>>
        /\ ticker.at = "doom" /\ doomed' = [doomed EXCEPT ![x] = TRUE]
    BY <1>2, <1>9 DEF ExpireDooms
  <2>2. ticker'.at = "pool" /\ ticker'.rec = x /\ ticker'.snapshot = ticker.snapshot
        /\ ticker'.tmp = ticker.tmp
    BY <1>1, <1>2, <1>9 DEF ExpireDooms, TickerValue
  <2>3. /\ \A r \in Record : /\ Unlinking(r) => Unlinking(r)'
                             /\ Pooling(r) => Pooling(r)'
        /\ Pooling(x)'
    BY <1>2, <2>1, <2>2 DEF Unlinking, Unlinked, Pooling
  <2>4. table[key[x]] # x
    BY <1>1, <1>2, <2>1 DEF Unlinked
  <2>5. /\ TableInv' /\ CallbackInv'
        /\ \A r \in Record : MemoryInv(r)' /\ QueueInv(r)' /\ RemovedInv(r)'
        /\ \A r \in Record : doomed[r] => doomed'[r]
    BY <1>1, <1>2, <1>3, <1>5, <2>1, <2>2, <2>3, <2>4, DoomUp
  <2>6. TickerInv'
    <3>1. doomed'[x]
      BY <1>1, <1>2, <2>1 DEF BasicInv, TypeOK
    <3>2. QED
      BY <1>1, <1>2, <2>1, <2>2, <3>1 DEF TickerInv, Unlinked
  <2>7. \A q \in Task : TaskInv(q)'
    BY <1>4, <2>1, <2>5
  <2>8. QED
    BY <2>5, <2>6, <2>7 DEF UpInv
<1>10. QED
  BY <1>6, <1>7, <1>8, <1>9

\* The deallocator.  What it frees is in no table, and who closes it has a reference; a task
\* that has it without one is late, and a queue that holds it needed as long, unless the record
\* was pooled behind the look at the clock.
LEMMA DeallocateUp ==
  ASSUME BasicInv, UpInv, Deallocate
  PROVE  UpInv'
<1>1. /\ UNCHANGED <<table, key, doomed, checks, holder, task, life, called, removed, overdue>>
      /\ ticker.at = "deallocate" /\ ticker.rec = NoRecord
      /\ ticker.snapshot = <<>> /\ ticker.tmp = <<>>
      /\ ticker'.at = "idle" /\ ticker'.rec = NoRecord
      /\ ticker'.snapshot = <<>> /\ ticker'.tmp = <<>>
  BY DEF Deallocate, Resting, BasicInv, ThreadsInv, Closing
<1>2. PICK R \in SUBSET {r \in Record : pool[r] = "ahead" /\ refs[r] = 0},
           F \in SUBSET Record :
        /\ F = R \cup {r \in Record : pool[r] = "old" /\ refs[r] = 0}
        /\ made' = [r \in Record |-> IF r \in F THEN "freed" ELSE made[r]]
        /\ pool' = [r \in Record |-> IF r \in F THEN NotPooled
                                    ELSE IF pool[r] = "ahead" THEN "new" ELSE pool[r]]
        /\ hasty' = hasty \cup R
  BY DEF Deallocate
<1>3. ASSUME NEW r \in F
      PROVE  /\ r \in Record /\ doomed[r] /\ made[r] = "live"
             /\ pool[r] = "old" \/ r \in hasty'
             /\ \A q \in Task : task[q].rec = r => task[q].at \in Unreferenced
             /\ \A k \in Key : table[k] # r
  <2>1. r \in Record /\ pool[r] # NotPooled /\ refs[r] = 0 /\ (pool[r] = "old" \/ r \in hasty')
    BY <1>2 DEF NotPooled
  <2>2. doomed[r] /\ made[r] = "live"
    BY <2>1 DEF UpInv, MemoryInv
  <2>3. \A k \in Key : table[k] # r
    BY <2>1, <2>2, NoRecordIsNoRecord DEF UpInv, TableInv
  <2>4. ASSUME NEW q \in Task, task[q].rec = r, task[q].at \notin Unreferenced PROVE FALSE
    <3>1. task[q].at \notin Empty
      BY <2>1, <2>4, NoRecordIsNoRecord DEF BasicInv, ThreadsInv
    <3>2. TaskInv(q)
      BY DEF UpInv
    <3>3. task[q].at \notin {"make", "undefined"}
      BY <2>2, <2>4, <3>1, <3>2 DEF TaskInv
    <3>4. task[q].at \in {"idle", "asked", "make", "found", "close", "remove", "mark", "doom",
                          "pool", "undefined"}
      BY DEF BasicInv, TypeOK
    <3>5. q \in Closers(r)
      BY <2>4, <3>1, <3>3, <3>4 DEF Closers, Closing, Empty, Unreferenced
    <3>6. IsFiniteSet(Closers(r)) /\ refs[r] = Cardinality(Closers(r)) + (IF ticker.rec = r THEN 1 ELSE 0)
      BY <2>1 DEF BasicInv, CountInv
    <3>7. Cardinality(Closers(r)) \in Nat /\ Cardinality(Closers(r)) # 0
      BY <3>5, <3>6, FS_CardinalityType, FS_EmptySet
    <3>8. QED
      BY <2>1, <3>6, <3>7
  <2>5. QED
    BY <2>1, <2>2, <2>3, <2>4
<1>4. /\ \A r \in Record : /\ made'[r] = IF r \in F THEN "freed" ELSE made[r]
                           /\ r \in F => pool'[r] = NotPooled
                           /\ r \notin F => /\ pool'[r] # NotPooled <=> pool[r] # NotPooled
                                            /\ pool'[r] = "old" <=> pool[r] = "old"
                                            /\ pool'[r] = "seen" <=> pool[r] = "seen"
      /\ hasty \subseteq hasty'
  BY <1>2 DEF NotPooled
<1> HIDE <1>2
<1>5. TableInv'
  <2>1. \A k \in Key : table[k] \in Record \cup {NoRecord} /\ table[k] \notin F
    BY <1>3 DEF BasicInv, TypeOK
  <2>2. QED
    BY <1>1, <1>4, <2>1 DEF UpInv, TableInv
<1>6. CallbackInv' /\ TickerInv'
  BY <1>1 DEF UpInv, CallbackInv, ConnectionsEmpty, TickerInv, Closing
<1>7. ASSUME NEW q \in Task PROVE TaskInv(q)'
  <2>1. task[q].at \notin Empty => task[q].rec \in Record /\ task[q].key \in Key
    BY DEF BasicInv, ThreadsInv
  <2>2. task'[q] = task[q] /\ \A t \in Table : holder[t] = q => holder'[t] = q
    BY <1>1
  <2>3. CASE task[q].rec \notin F
    BY <1>1, <1>4, <2>1, <2>2, <2>3, TaskKept
  <2>4. CASE task[q].rec \in F /\ task[q].at \notin Empty
    <3>1. /\ task[q].at \in Unreferenced /\ TaskInv(q)
          /\ made[task[q].rec] = "live" /\ made'[task[q].rec] = "freed"
          /\ pool'[task[q].rec] = NotPooled
          /\ pool[task[q].rec] = "old" \/ task[q].rec \in hasty'
      BY <1>3, <1>4, <2>1, <2>4 DEF UpInv
    <3>2. task[q].late \/ task[q].rec \in hasty'
      BY <2>4, <3>1 DEF TaskInv
    <3>3. QED
      BY <1>1, <2>4, <3>1, <3>2 DEF TaskInv, Unreferenced, Closing, Unlinked, NotPooled
  <2>5. CASE task[q].at \in Empty
    BY <1>1, <2>5 DEF TaskInv
  <2>6. QED
    BY <2>3, <2>4, <2>5
<1>8. ASSUME NEW r \in Record PROVE MemoryInv(r)' /\ QueueInv(r)' /\ RemovedInv(r)'
  <2>1. MemoryInv(r) /\ QueueInv(r) /\ RemovedInv(r)
    BY DEF UpInv
  <2>2. /\ Making(r) => Making(r)'
        /\ Unlinking(r) => Unlinking(r)'
        /\ Pooling(r) => Pooling(r)'
    BY <1>1, NoRecordIsNoRecord DEF Making, Unlinking, Pooling
  <2>3. /\ r \notin ToSet(ticker'.snapshot) /\ r \notin ToSet(ticker'.tmp)
        /\ r \notin ToSet(ticker.snapshot) /\ r \notin ToSet(ticker.tmp)
    BY <1>1, EmptyToSet
  <2>4. Queued(r)' => r \in ToSet(checks) /\ Queued(r)
    BY <1>1, <2>3 DEF Queued
  <2>5. CASE r \in F
    <3>1. /\ made'[r] = "freed" /\ pool'[r] = NotPooled /\ doomed[r] /\ made[r] = "live"
          /\ pool[r] = "old" \/ r \in hasty'
      BY <1>3, <1>4, <2>5
    <3>2. MemoryInv(r)'
      BY <1>1, <2>1, <3>1 DEF MemoryInv
    <3>3. QueueInv(r)'
      BY <1>1, <2>1, <2>4, <3>1 DEF QueueInv, NotPooled
    <3>4. RemovedInv(r)'
      BY <1>1, <2>1, <3>1 DEF RemovedInv
    <3>5. QED
      BY <3>2, <3>3, <3>4
  <2>6. CASE r \notin F
    <3>1. /\ made'[r] = made[r]
          /\ pool'[r] # NotPooled <=> pool[r] # NotPooled
          /\ pool'[r] = "old" <=> pool[r] = "old"
          /\ pool'[r] = "seen" <=> pool[r] = "seen"
      BY <1>4, <2>6
    <3>2. MemoryInv(r)'
      BY <1>1, <2>1, <2>2, <3>1 DEF MemoryInv
    <3>3. QueueInv(r)'
      BY <1>1, <1>4, <2>1, <2>3, <2>4, <3>1 DEF QueueInv
    <3>4. RemovedInv(r)'
      BY <1>1, <2>1, <2>2, <3>1 DEF RemovedInv
    <3>5. QED
      BY <3>2, <3>3, <3>4
  <2>7. QED
    BY <2>5, <2>6
<1>9. QED
  BY <1>5, <1>6, <1>7, <1>8 DEF UpInv

\* MarkPendingKill: a handler whose connections are open is called back by the last removal.
LEMMA MarkUp ==
  ASSUME BasicInv, UpInv,
         MarkPendingKill \/ SetReadyToDieCallback \/ TestIfReady \/ UNCHANGED vars
  PROVE  UpInv'
<1>1. UNCHANGED <<table, made, key, doomed, refs, checks, pool, holder, task, ticker, removed, overdue, hasty>>
  BY DEF MarkPendingKill, SetReadyToDieCallback, TestIfReady, memory, vars
<1>2. CallbackInv'
  <2>1. CASE MarkPendingKill \/ SetReadyToDieCallback
    BY <2>1 DEF MarkPendingKill, SetReadyToDieCallback, CallbackInv
  <2>2. CASE TestIfReady
    <3>1. ConnectionsEmpty(table') => called'
      BY <1>1, <2>2 DEF TestIfReady
    <3>2. QED
      BY <3>1 DEF CallbackInv
  <2>3. CASE UNCHANGED vars
    BY <1>1, <2>3 DEF vars, UpInv, CallbackInv
  <2>4. QED
    BY <2>1, <2>2, <2>3
<1>3. TableInv' /\ TickerInv' /\ \A p \in Task : TaskInv(p)'
  BY <1>1 DEF UpInv, TableInv, TickerInv, TaskInv
<1>4. \A r \in Record : MemoryInv(r)' /\ QueueInv(r)' /\ RemovedInv(r)'
  BY <1>1 DEF UpInv, MemoryInv, Making, QueueInv, Queued, RemovedInv, Unlinking, Pooling
<1>5. QED
  BY <1>2, <1>3, <1>4 DEF UpInv

-----------------------------------------------------------------------------
(* EndSystem.                                                              *)

\* When EndSystem finds nobody inside, each record that is left is in a table or in the pool,
\* unless its removal was meant for another record.
LEMMA EndBegins ==
  ASSUME BasicInv, UpInv, EndSystem, ~disturbed'
  PROVE  EndInv'
<1>1. /\ ending' = "queue" /\ UNCHANGED <<table, made, key, doomed, pool, task, ticker, removed>>
      /\ ~InHandler
  BY DEF EndSystem, memory
<1>2. \A r \in Record : ~Making(r) /\ ~Unlinking(r) /\ ~Pooling(r)
  BY <1>1 DEF InHandler, Making, Unlinking, Unlinked, Pooling
<1>3. ASSUME NEW r \in Record
      PROVE  /\ doomed[r] /\ made[r] # "freed" => pool[r] # NotPooled
             /\ \/ made[r] \in {"no", "freed"}
                \/ \E x \in removed \ {r} : key[x] = key[r]
                \/ pool[r] # NotPooled
                \/ \E k \in Connection \cup Party : table[k] = r
  <2>1. MemoryInv(r) /\ RemovedInv(r) /\ made[r] \in {"no", "base", "live", "freed"}
    BY DEF UpInv, BasicInv, TypeOK
  <2>2. made[r] # "base"
    BY <1>2, <2>1 DEF MemoryInv
  <2>3. CASE made[r] = "live" /\ ~doomed[r]
    <3>1. r \notin removed /\ key[r] \in Key
      BY <1>2, <2>1, <2>3 DEF RemovedInv, MemoryInv
    <3>2. QED
      BY <2>1, <2>3, <3>1 DEF RemovedInv, Key
  <2>4. CASE made[r] = "live" /\ doomed[r]
    BY <1>2, <2>1, <2>4 DEF MemoryInv
  <2>5. CASE made[r] \in {"no", "freed"}
    BY <2>1, <2>5 DEF MemoryInv
  <2>6. QED
    BY <2>1, <2>2, <2>3, <2>4, <2>5
<1>4. QED
  BY <1>1, <1>3 DEF EndInv

\* Each Clear function leaves what the next ones are to find.
LEMMA EndGoesOn ==
  ASSUME BasicInv, EndInv,
         \/ ClearUDPRecordsForTimeoutCheck \/ ClearReliableConnections
         \/ ClearOtherPartiesRecords \/ ClearPendingDeletePool
  PROVE  EndInv'
<1>1. CASE ClearUDPRecordsForTimeoutCheck
  <2>1. UNCHANGED <<table, made, key, doomed, pool, removed>> /\ ending = "queue" /\ ending' = "connections"
    BY <1>1 DEF ClearUDPRecordsForTimeoutCheck
  <2>2. QED
    BY <2>1 DEF EndInv
<1>2. ASSUME NEW K, ClearTable(K), NEW r \in Record
      PROVE  /\ made'[r] = made[r]
             /\ doomed'[r] /\ made[r] # "freed" => pool'[r] # NotPooled
             /\ pool[r] # NotPooled => pool'[r] # NotPooled
             /\ \A k \in Key : table[k] = r => IF k \in K THEN made[r] # "freed" => pool'[r] # NotPooled
                                               ELSE table'[k] = r
  <2>1. doomed[r] /\ made[r] # "freed" => pool[r] # NotPooled
    BY DEF EndInv
  <2>2. pool'[r] = IF (\E k \in K : table[k] = r) /\ ~doomed[r] /\ pool[r] = NotPooled THEN "new" ELSE pool[r]
    BY <1>2 DEF ClearTable
  <2>3. doomed'[r] = (doomed[r] \/ ((\E k \in K : table[k] = r) /\ ~doomed[r]))
    BY <1>2 DEF ClearTable
  <2>4. \A k \in Key : table'[k] = IF k \in K THEN NoRecord ELSE table[k]
    BY <1>2 DEF ClearTable
  <2>5. "new" # NotPooled
    BY DEF NotPooled
  <2>6. made' = made
    BY <1>2 DEF ClearTable
  <2>7. QED
    BY <2>1, <2>2, <2>3, <2>4, <2>5, <2>6
<1>3. CASE ClearReliableConnections
  <2>1. ClearTable(Connection) /\ ending = "connections" /\ ending' = "parties" /\ UNCHANGED <<key, removed>>
    BY <1>3 DEF ClearReliableConnections, ClearTable
  <2>2. QED
    BY <1>2, <2>1, KeysAreOfOneKind DEF EndInv, Key
<1>4. CASE ClearOtherPartiesRecords
  <2>1. ClearTable(Party) /\ ending = "parties" /\ ending' = "pool" /\ UNCHANGED <<key, removed>>
    BY <1>4 DEF ClearOtherPartiesRecords, ClearTable
  <2>2. QED
    BY <1>2, <2>1 DEF EndInv, Key
<1>5. CASE ClearPendingDeletePool
  <2>1. /\ ending = "pool" /\ ending' = "ended" /\ UNCHANGED <<table, key, doomed, removed>>
        /\ \A r \in Record : made'[r] = (IF pool[r] # NotPooled THEN "freed" ELSE made[r])
    BY <1>5 DEF ClearPendingDeletePool, Freed
  <2>2. \A r \in Record : pool'[r] = NotPooled /\ (doomed[r] => made'[r] = "freed")
    BY <1>5, <2>1 DEF ClearPendingDeletePool, Freed, EndInv
  <2>3. QED
    BY <2>1, <2>2 DEF EndInv
<1>6. QED
  BY <1>1, <1>3, <1>4, <1>5

-----------------------------------------------------------------------------
(* The invariant of the handler, and what it is for.                       *)

\* At first there is no record, and everybody is idle.
LEMMA HandlerInvInit == Init => HandlerInv
<1> SUFFICES ASSUME Init PROVE HandlerInv
  OBVIOUS
<1> USE DEF Init
<1>1. \A p \in Task : task[p] = Idle /\ task[p].at = "idle"
  BY DEF Idle
<1>2. ticker.at = "idle" /\ ticker.rec = NoRecord /\ ticker.snapshot = <<>> /\ ticker.tmp = <<>>
  BY DEF Resting
<1>3. TypeOK
  <2>1. Idle \in TaskValue
    BY DEF Idle, TaskValue
  <2>2. NotPooled \in PoolValue /\ <<>> \in Seq(Record)
    BY DEF PoolValue
  <2>3. QED
    BY <1>2, <2>1, <2>2 DEF TypeOK, TaskValue
<1>4. ThreadsInv
  <2>1. Resting \in TickerValue
    BY DEF Resting, TickerValue
  <2>2. \A p \in Task : task[p].rec = NoRecord
    BY DEF Idle
  <2>3. QED
    BY <1>1, <1>2, <2>1, <2>2 DEF ThreadsInv, Closing, Empty
<1>5. CountInv
  <2>1. \A r \in Record : Closers(r) = {}
    BY <1>1 DEF Closers, Closing
  <2>2. QED
    <3>1. \A r \in Record : refs[r] = 0 /\ ticker.rec # r
      BY <1>2, NoRecordIsNoRecord
    <3>2. \A r \in Record : IsFiniteSet(Closers(r)) /\ Cardinality(Closers(r)) = 0
      BY <2>1, FS_EmptySet
    <3>3. \A r \in Record : (IF ticker.rec = r THEN 1 ELSE 0) = 0
      BY <3>1
    <3>4. \A r \in Record : refs[r] = Cardinality(Closers(r)) + (IF ticker.rec = r THEN 1 ELSE 0)
      BY <3>1, <3>2, <3>3
    <3>5. QED
      BY <3>2, <3>4 DEF CountInv
<1>6. TableInv /\ TickerInv /\ CallbackInv /\ \A p \in Task : TaskInv(p)
  BY <1>1, <1>2 DEF TableInv, TickerInv, CallbackInv, TaskInv, Closing, Empty
<1>7. \A r \in Record : MemoryInv(r) /\ QueueInv(r) /\ RemovedInv(r)
  BY <1>2, EmptyToSet DEF MemoryInv, QueueInv, Queued, RemovedInv, NotPooled
<1>8. QED
  BY <1>3, <1>4, <1>5, <1>6, <1>7 DEF HandlerInv, BasicInv, UpInv

\* While the handler is up, each step keeps what holds of its records.
LEMMA UpKept ==
  ASSUME BasicInv, UpInv, [Next]_vars, ending' = "no"
  PROVE  UpInv'
<1>1. CASE \E p \in Task : TaskStep(p)
  BY <1>1, LookupUp, BeginUp, FinishUp, CloseUp DEF TaskStep
<1>2. CASE TickerStep
  BY <1>2, WakeUp, ClockUp, CheckUp, ExpireUp, DeallocateUp DEF TickerStep
<1>3. CASE MarkPendingKill \/ SetReadyToDieCallback \/ TestIfReady \/ UNCHANGED vars
  BY <1>3, MarkUp
<1>4. CASE \/ EndSystem \/ ClearUDPRecordsForTimeoutCheck \/ ClearReliableConnections
           \/ ClearOtherPartiesRecords \/ ClearPendingDeletePool
  BY <1>4 DEF EndSystem, ClearUDPRecordsForTimeoutCheck, ClearReliableConnections,
     ClearOtherPartiesRecords, ClearPendingDeletePool
<1>5. QED
  BY <1>1, <1>2, <1>3, <1>4 DEF Next

\* A handler that is ended does not come up again, and a thread inside it is noticed.
LEMMA EndingKept ==
  ASSUME [Next]_vars, ending # "no"
  PROVE  /\ ending' # "no"
         /\ \/ disturbed'
            \/ /\ UNCHANGED <<table, made, key, doomed, pool, removed, ending>>
               /\ disturbed' = disturbed
            \/ /\ \/ ClearUDPRecordsForTimeoutCheck \/ ClearReliableConnections
                  \/ ClearOtherPartiesRecords \/ ClearPendingDeletePool
               /\ disturbed' = disturbed
<1>1. ASSUME NEW p \in Task, TaskStep(p) PROVE ending' = ending /\ disturbed'
  BY <1>1 DEF TaskStep, TestPendingKill, Find, BeginRecord, FinishRecord, LeaveRecord, UseFreed,
     CloseCase, CloseReferences, CloseRemoves, CloseMarks, CloseDooms, ClosePools, Inside
<1>2. ASSUME TickerStep PROVE ending' = ending /\ disturbed'
  BY <1>2 DEF TickerStep, Wake, CheckRecord, ExpireRemoves, ExpireMarks, ExpireDooms, ExpirePools,
     EndCheck, ReadClock, Deallocate, Inside
<1>3. ASSUME MarkPendingKill \/ SetReadyToDieCallback \/ TestIfReady \/ UNCHANGED vars
      PROVE  UNCHANGED <<table, made, key, doomed, pool, removed, ending, disturbed>>
  BY <1>3 DEF MarkPendingKill, SetReadyToDieCallback, TestIfReady, memory, vars
<1>4. ~EndSystem
  BY DEF EndSystem
<1>5. ASSUME \/ ClearUDPRecordsForTimeoutCheck \/ ClearReliableConnections
             \/ ClearOtherPartiesRecords \/ ClearPendingDeletePool
      PROVE  ending' # "no" /\ disturbed' = disturbed
  BY <1>5 DEF ClearUDPRecordsForTimeoutCheck, ClearReliableConnections, ClearOtherPartiesRecords,
     ClearTable, ClearPendingDeletePool
<1>6. QED
  BY <1>1, <1>2, <1>3, <1>4, <1>5 DEF Next

\* Every step keeps the invariant.
LEMMA HandlerInvKept == HandlerInv /\ [Next]_vars => HandlerInv'
<1> SUFFICES ASSUME HandlerInv, [Next]_vars PROVE HandlerInv'
  OBVIOUS
<1>1. BasicInv /\ BasicInv'
  BY BasicKept DEF HandlerInv
<1>2. ASSUME ending' = "no" PROVE UpInv'
  <2>1. ending = "no"
    BY <1>2, EndingKept
  <2>2. QED
    BY <1>1, <1>2, <2>1, UpKept DEF HandlerInv
<1>3. ASSUME ending' # "no", ~disturbed' PROVE EndInv'
  <2>1. CASE ending = "no"
    <3>1. EndSystem
      BY <1>3, <2>1 DEF Next, TaskStep, TickerStep, TestPendingKill, Find, BeginRecord,
         FinishRecord, LeaveRecord, UseFreed, CloseCase, CloseReferences, CloseRemoves, CloseMarks,
         CloseDooms, ClosePools, Wake, CheckRecord, ExpireRemoves, ExpireMarks, ExpireDooms,
         ExpirePools, EndCheck, ReadClock, Deallocate, MarkPendingKill, SetReadyToDieCallback,
         TestIfReady, ClearUDPRecordsForTimeoutCheck, ClearReliableConnections,
         ClearOtherPartiesRecords, ClearPendingDeletePool, vars
    <3>2. QED
      BY <1>1, <1>3, <2>1, <3>1, EndBegins DEF HandlerInv
  <2>2. CASE ending # "no"
    <3>1. CASE /\ UNCHANGED <<table, made, key, doomed, pool, removed, ending>>
               /\ disturbed' = disturbed
      <4>1. EndInv
        BY <1>3, <2>2, <3>1 DEF HandlerInv
      <4>2. QED
        BY <3>1, <4>1 DEF EndInv
    <3>2. CASE /\ \/ ClearUDPRecordsForTimeoutCheck \/ ClearReliableConnections
                  \/ ClearOtherPartiesRecords \/ ClearPendingDeletePool
               /\ disturbed' = disturbed
      BY <1>1, <1>3, <2>2, <3>2, EndGoesOn DEF HandlerInv
    <3>3. QED
      BY <1>3, <2>2, <3>1, <3>2, EndingKept
  <2>3. QED
    BY <2>1, <2>2
<1>4. QED
  BY <1>1, <1>2, <1>3 DEF HandlerInv

\* The invariant of a BKUDPHandler, whatever its tasks, its ticker and the thread that marks
\* and ends it do.
THEOREM HandlerInvariance == Spec => []HandlerInv
BY HandlerInvInit, HandlerInvKept, PTL DEF Spec

\* Type correctness of the handler's records, tables, queues and threads.
THEOREM RecordPoolTypes == Spec => []TypeOK
<1>1. HandlerInv => TypeOK
  BY DEF HandlerInv, BasicInv
<1>2. QED
  BY <1>1, HandlerInvariance, PTL

\* A record that DeallocatorLambda frees is in no table and in no CloseCase, and has no
\* reference.  A task that has it found it more than 100 ms after it was pooled (late), or it was
\* pooled behind the deallocator's look at the clock (hasty), and so with a queue that holds it.
THEOREM FreedIsUnreachable == Spec => []NothingFreedIsReachable
<1>1. HandlerInv => NothingFreedIsReachable
  <2> SUFFICES ASSUME HandlerInv, ending = "no", NEW r \in Record, made[r] = "freed"
               PROVE  /\ \A k \in Key : table[k] # r
                      /\ refs[r] = 0 /\ ticker.rec # r
                      /\ \A p \in Task : task[p].rec = r =>
                           /\ task[p].at \in {"found", "close", "undefined"}
                           /\ task[p].late \/ r \in hasty
                      /\ Queued(r) => r \in overdue \cup hasty
    BY DEF NothingFreedIsReachable, Queued
  <2>1. BasicInv /\ UpInv
    BY DEF HandlerInv
  <2>2. Queued(r) => r \in overdue \cup hasty
    BY <2>1 DEF UpInv, QueueInv
  <2>3. \A k \in Key : table[k] # r
    BY <2>1, NoRecordIsNoRecord DEF UpInv, TableInv
  <2>4. ASSUME NEW p \in Task, task[p].rec = r
        PROVE  /\ task[p].at \in {"found", "close", "undefined"}
               /\ task[p].late \/ r \in hasty
    <3>1. task[p].at \notin Empty
      BY <2>1, <2>4, NoRecordIsNoRecord DEF BasicInv, ThreadsInv
    <3>2. TaskInv(p) /\ task[p].at \in {"idle", "asked", "make", "found", "close", "remove",
                                        "mark", "doom", "pool", "undefined"}
      BY <2>1 DEF UpInv, BasicInv, TypeOK
    <3>3. QED
      BY <2>4, <3>1, <3>2 DEF TaskInv, Closing, Empty
  <2>5. ticker.rec # r
    BY <2>1, NoRecordIsNoRecord DEF UpInv, TickerInv, BasicInv, ThreadsInv
  <2>6. refs[r] = 0
    <3>1. Closers(r) = {}
      BY <2>4 DEF Closers, Closing
    <3>2. Cardinality(Closers(r)) = 0
      BY <3>1, FS_EmptySet
    <3>3. refs[r] = Cardinality(Closers(r)) + (IF ticker.rec = r THEN 1 ELSE 0)
      BY <2>1 DEF BasicInv, CountInv
    <3>4. QED
      BY <2>5, <3>2, <3>3
  <2>7. QED
    BY <2>2, <2>3, <2>4, <2>5, <2>6
<1>2. QED
  BY <1>1, HandlerInvariance, PTL

\* Create_AddOrGet never meets a record that is being deleted, and a record is missing from its
\* table only because a removal by key was meant for an earlier one.
THEOREM TableIsLiving == Spec => []TableHoldsTheLiving
<1>1. HandlerInv => TableHoldsTheLiving
  BY DEF HandlerInv, UpInv, TableInv, RemovedInv, TableHoldsTheLiving
<1>2. QED
  BY <1>1, HandlerInvariance, PTL

\* ReadyToDieCallback is called once MarkPendingKill has returned and no connection is open.
THEOREM MarkedIsCalledBack == Spec => []MarkedHandlerCallsBack
<1>1. HandlerInv => MarkedHandlerCallsBack
  BY DEF HandlerInv, UpInv, CallbackInv, MarkedHandlerCallsBack
<1>2. QED
  BY <1>1, HandlerInvariance, PTL

\* A record with bBeingDeleted is in the pending-delete pool until it is freed, or somebody is
\* about to put it there, and its ReferenceCounter is the number of threads that are closing it.
THEOREM DoomedInPool == Spec => []DoomedIsPooled
<1>1. HandlerInv => DoomedIsPooled
  <2> SUFFICES ASSUME HandlerInv, ending = "no", NEW r \in Record
               PROVE  /\ doomed[r] /\ made[r] # "freed" /\ pool[r] = NotPooled => Pooling(r)
                      /\ refs[r] = Cardinality(Closers(r)) + (IF ticker.rec = r THEN 1 ELSE 0)
    BY DEF DoomedIsPooled, Pooling, Closers, Closing
  <2>1. refs[r] = Cardinality(Closers(r)) + (IF ticker.rec = r THEN 1 ELSE 0)
    BY DEF HandlerInv, BasicInv, CountInv
  <2>2. doomed[r] /\ made[r] # "freed" /\ pool[r] = NotPooled => Pooling(r)
    BY DEF HandlerInv, UpInv, MemoryInv
  <2>3. QED
    BY <2>1, <2>2
<1>2. QED
  BY <1>1, HandlerInvariance, PTL

\* EndSystem frees every record when nobody is inside the handler, but for those that were lost
\* to a removal meant for another record.
THEOREM AllIsFreed == Spec => []EndSystemFreesAll
<1>1. HandlerInv => EndSystemFreesAll
  <2> SUFFICES ASSUME HandlerInv, ending = "ended", ~disturbed, NEW r \in Record
               PROVE  made[r] \in {"no", "freed"} \/ \E x \in removed \ {r} : key[x] = key[r]
    BY DEF EndSystemFreesAll
  <2>1. QED
    BY DEF HandlerInv, EndInv
<1>2. QED
  BY <1>1, HandlerInvariance, PTL

-----------------------------------------------------------------------------
(* The server.                                                             *)

\* What the server does is, for its handler, a step of a task, of the ticker, or of the thread
\* that ends it, or nothing.
LEMMA ServerStepIsHandlerStep == [ServerNext]_allVars => [Next]_vars
<1>1. ASSUME NEW p \in Task, Receive(p) \/ BeginTask(p) \/ RunTask(p) \/ FinishTask(p)
      PROVE  [Next]_vars
  BY <1>1 DEF Receive, BeginTask, RunTask, FinishTask, Next
<1>2. \/ StartSystem \/ MakeHandler \/ StartHandler \/ Listen \/ StopSystem
      \/ EndDeletedHandler \/ CloseSocket \/ JoinListener \/ UseDeletedHandler
      => UNCHANGED vars
  BY DEF StartSystem, MakeHandler, StartHandler, Listen, StopSystem, EndDeletedHandler,
     CloseSocket, JoinListener, UseDeletedHandler
<1>3. EndHandler => Next
  BY DEF EndHandler, Next
<1>4. UNCHANGED allVars => UNCHANGED vars
  BY DEF allVars
<1>5. QED
  BY <1>1, <1>2, <1>3, <1>4 DEF ServerNext, Next

\* A server's handler behaves as any handler: what is proved of Spec holds in BKUDPServer.
THEOREM ServerImplementsHandler == ServerSpec => Spec
<1>1. ServerInit => Init
  BY DEF ServerInit
<1>2. QED
  BY <1>1, ServerStepIsHandlerStep, PTL DEF ServerSpec, Spec

\* What is proved of a handler holds of the handler of a BKUDPServer.
THEOREM ServerKeepsHandler ==
  ServerSpec => [](/\ NothingFreedIsReachable /\ TableHoldsTheLiving /\ MarkedHandlerCallsBack
                   /\ DoomedIsPooled /\ EndSystemFreesAll)
BY ServerImplementsHandler, FreedIsUnreachable, TableIsLiving, MarkedIsCalledBack, DoomedInPool,
   AllIsFreed, PTL
=============================================================================
