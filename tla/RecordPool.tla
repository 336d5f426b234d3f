------------------------------ MODULE RecordPool ------------------------------
(***************************************************************************)
(* The records of a BKUDPHandler and their memory.  A record is in the     *)
(* table of its kind, in the queue that the timeout check goes through,    *)
(* and, once it is to be deleted, in the pending-delete pool, from which   *)
(* the deallocator frees it when it is unreferenced and was there for more *)
(* than 100 ms.  Pool tasks look records up and close them; the ticker's   *)
(* thread runs the timeout check and then the deallocator; another thread  *)
(* may mark the handler for death, or end it.                              *)
(*                                                                         *)
(* A task uses what it looked up without a reference.  The 100 ms are      *)
(* there for that, and nothing enforces them: a task that takes longer is  *)
(* left with freed memory, and so is one whose record is pooled after the  *)
(* deallocator read the clock, since the elapsed time then wraps.  What a  *)
(* thread does with a freed record is undefined and not followed.          *)
(***************************************************************************)
EXTENDS Integers, Sequences, SequencesExt, FiniteSets

CONSTANTS
  Task,        \* pool tasks that handle a datagram or a send
  ConnectionRecord,  \* objects of class BKReliableConnectionRecord (bound)
  PartyRecord,       \* objects of class BKOtherPartyRecord (bound)
  Connection,  \* keys address:port:MessageID
  Party        \* keys address:port

ASSUME KeysAreOfOneKind == Connection \cap Party = {}
ASSUME RecordsAreOfOneKind == ConnectionRecord \cap PartyRecord = {}

Record == ConnectionRecord \cup PartyRecord
Key == Connection \cup Party
Table == {"connections", "parties"}
TableOf(k) == IF k \in Connection THEN "connections" ELSE "parties"

NoRecord == "none"
NoKey == "nokey"
ASSUME NoRecordIsNoRecord == NoRecord \notin Record
ASSUME NoKeyIsNoKey == NoKey \notin Key
ASSUME NobodyIsNoTask == "nobody" \notin Task

VARIABLES
  table,    \* ReliableConnectionRecords and OtherPartiesRecords
  made,     \* made[r]: "no", "base" (BKUDPRecord's constructor is done), "live", "freed"
  key,      \* key[r]: OtherPartyKey
  doomed,   \* doomed[r]: bBeingDeleted
  refs,     \* refs[r]: ReferenceCounter
  checks,   \* UDPRecordsForTimeoutCheck
  pool,     \* pool[r]: "no", or how long r is pooled: "new", "seen" (a check began since),
            \* "old" (more than 100 ms at a deallocator's look at the clock), "ahead" (pooled
            \* behind the look of the deallocator under way)
  holder,   \* holder[t]: who holds the mutex of table t over several steps
  task,     \* task[p]: what task p does, to which record, and (history) whether it still had
            \* it, without a reference, when the deallocator found it pooled for over 100 ms
  ticker,   \* the ticker's thread in the two lambdas
  life,     \* bPendingKill and ReadyToDieCallback
  called,   \* history: ReadyToDieCallback was called
  ending,   \* the thread in EndSystem
  removed,  \* history: records that a removal by key was meant for
  disturbed,\* history: a task or the ticker was inside the handler during EndSystem
  overdue,  \* history: records that were old before a check had begun since they were pooled
            \* (kept, after the next check, for those that were freed)
  hasty     \* history: records freed because they were pooled behind the look at the clock

memory == <<table, made, key, doomed, refs, checks, pool>>
freeing == <<overdue, hasty>>
vars == <<memory, holder, task, ticker, life, called, ending, removed, disturbed, freeing>>

Idle == [at |-> "idle", rec |-> NoRecord, key |-> NoKey, late |-> FALSE]
Resting == [at |-> "idle", rec |-> NoRecord, snapshot |-> <<>>, tmp |-> <<>>]
NotPooled == "no"
PoolValue == {NotPooled, "new", "seen", "old", "ahead"}

TypeOK ==
  /\ table \in [Key -> Record \cup {NoRecord}]
  /\ made \in [Record -> {"no", "base", "live", "freed"}]
  /\ key \in [Record -> Key \cup {NoKey}]
  /\ doomed \in [Record -> BOOLEAN]
  /\ refs \in [Record -> Nat]
  /\ checks \in Seq(Record)
  /\ pool \in [Record -> PoolValue]
  /\ holder \in [Table -> Task \cup {"nobody"}]
  /\ task \in [Task -> [at : {"idle", "asked", "make", "found", "close", "remove", "mark",
                             "doom", "pool", "undefined"},
                        rec : Record \cup {NoRecord}, key : Key \cup {NoKey}, late : BOOLEAN]]
  /\ ticker.at \in {"idle", "check", "remove", "mark", "doom", "pool", "deallocate", "undefined"}
  /\ life \in {"alive", "marked", "armed", "dying"}
  /\ called \in BOOLEAN
  /\ ending \in {"no", "queue", "connections", "parties", "pool", "ended"}
  /\ removed \subseteq Record
  /\ disturbed \in BOOLEAN
  /\ overdue \subseteq Record
  /\ hasty \subseteq Record

Init ==
  /\ table = [k \in Key |-> NoRecord]
  /\ made = [r \in Record |-> "no"]
  /\ key = [r \in Record |-> NoKey]
  /\ doomed = [r \in Record |-> FALSE]
  /\ refs = [r \in Record |-> 0]
  /\ checks = <<>>
  /\ pool = [r \in Record |-> NotPooled]
  /\ holder = [t \in Table |-> "nobody"]
  /\ task = [p \in Task |-> Idle]
  /\ ticker = Resting
  /\ life = "alive"
  /\ called = FALSE
  /\ ending = "no"
  /\ removed = {}
  /\ disturbed = FALSE
  /\ overdue = {}
  /\ hasty = {}

Up == ending # "ended"
Unlocked(t) == holder[t] = "nobody"
Inside == disturbed' = (disturbed \/ ending # "no")

-----------------------------------------------------------------------------
(* What tasks and the ticker share.                                        *)

ConnectionsEmpty(t) == \A k \in Connection : t[k] = NoRecord

\* RemoveFromReliableConnections, with the key of r: whatever record has that key goes.
\* BKOtherPartyRecords are removed from their own table, without the callback.
RemoveByKey(r) ==
  /\ table' = [table EXCEPT ![key[r]] = NoRecord]
  /\ removed' = removed \cup {r}
  /\ LET last == key[r] \in Connection /\ life \in {"armed", "dying"} /\ ConnectionsEmpty(table')
     IN called' = (called \/ last)

\* AddRecordToPendingDeletePool under the lock of the pool, with the time as it is now.
\* (Before, without the lock: bBeingDeleted is read, and in a step of its own set.)
Pool(r) ==
  pool' = IF pool[r] = NotPooled
          THEN [pool EXCEPT ![r] = IF ticker.at = "deallocate" THEN "ahead" ELSE "new"]
          ELSE pool

\* BKReferenceCounter's constructor and destructor.
Reference(r) == refs' = [refs EXCEPT ![r] = @ + 1]
Dereference(r) == refs' = [refs EXCEPT ![r] = @ - 1]

-----------------------------------------------------------------------------
(* Pool tasks.                                                             *)

\* Line 68 (and 435 for a send): a handler not marked for death lets what may create a
\* record pass.  The flag is not looked at again when the record is created.
TestPendingKill(p) ==
  /\ Up
  /\ task[p].at = "idle"
  /\ life = "alive"
  /\ task' = [task EXCEPT ![p].at = "asked"]
  /\ Inside
  /\ UNCHANGED <<memory, holder, ticker, life, called, ending, removed, freeing>>

\* Create_AddOrGet, or the lookup of the party: a record that is not being deleted is
\* returned.  When the status or the message does not fit nothing is, and nothing
\* changes.
Find(p, k) ==
  /\ Up
  /\ task[p].at \in {"idle", "asked"}
  /\ Unlocked(TableOf(k))
  /\ table[k] # NoRecord
  /\ ~doomed[table[k]]
  /\ task' = [task EXCEPT ![p] = [at |-> "found", rec |-> table[k], key |-> k, late |-> FALSE]]
  /\ Inside
  /\ UNCHANGED <<memory, holder, ticker, life, called, ending, removed, freeing>>

\* The same when there is none.  The table's lock is taken, the lookup fails, and
\* BKUDPRecord's constructor queues the new record for the timeout check, before the
\* derived constructor has run.  The push is the only one of these steps that anybody
\* sees: the lock is held, and bBeingDeleted of a record found dead stays set.
BeginRecord(p, k) ==
  /\ Up
  /\ task[p].at = "asked"
  /\ Unlocked(TableOf(k))
  /\ IF table[k] = NoRecord THEN TRUE ELSE k \in Party /\ doomed[table[k]]
  /\ \E r \in {x \in IF k \in Connection THEN ConnectionRecord ELSE PartyRecord : made[x] = "no"} :
       /\ made' = [made EXCEPT ![r] = "base"]
       /\ key' = [key EXCEPT ![r] = k]
       /\ checks' = Append(checks, r)
       /\ task' = [task EXCEPT ![p] = [at |-> "make", rec |-> r, key |-> k, late |-> FALSE]]
  /\ holder' = [holder EXCEPT ![TableOf(k)] = p]
  /\ Inside
  /\ UNCHANGED <<table, doomed, refs, pool, ticker, life, called, ending, removed, freeing>>

\* The derived constructor, and Put (unordered_map::insert keeps what is there).
FinishRecord(p) ==
  LET r == task[p].rec
      k == task[p].key IN
  /\ task[p].at = "make"
  /\ made' = [made EXCEPT ![r] = "live"]
  /\ table' = IF table[k] = NoRecord THEN [table EXCEPT ![k] = r] ELSE table
  /\ holder' = [holder EXCEPT ![TableOf(k)] = "nobody"]
  /\ task' = [task EXCEPT ![p].at = "found"]
  /\ Inside
  /\ UNCHANGED <<key, doomed, refs, checks, pool, ticker, life, called, ending, removed, freeing>>

\* The handler sets the record's fields, sends, and is done with it; or there was no
\* record for it.
LeaveRecord(p) ==
  /\ task[p].at \in {"asked", "found"}
  /\ task' = [task EXCEPT ![p] = Idle]
  /\ Inside
  /\ UNCHANGED <<memory, holder, ticker, life, called, ending, removed, freeing>>

\* A task that still uses a record that was freed: what it reads and writes is undefined.
UseFreed(p) ==
  /\ task[p].at \in {"found", "close"}
  /\ made[task[p].rec] = "freed"
  /\ task' = [task EXCEPT ![p].at = "undefined"]
  /\ Inside
  /\ UNCHANGED <<memory, holder, ticker, life, called, ending, removed, freeing>>

\* CloseCase: bBeingDeleted is read before any lock is taken.  (A record that is already
\* being deleted is left, as in LeaveRecord.)
CloseCase(p) ==
  /\ task[p].at = "found"
  /\ task[p].key \in Connection
  /\ made[task[p].rec] # "freed"
  /\ ~doomed[task[p].rec]
  /\ task' = [task EXCEPT ![p].at = "close"]
  /\ Inside
  /\ UNCHANGED <<memory, holder, ticker, life, called, ending, removed, freeing>>

\* Fault: CloseCase without the reference.
CloseUnreferenced(p) ==
  /\ task[p].at = "close"
  /\ made[task[p].rec] # "freed"
  /\ task' = [task EXCEPT ![p].at = "remove"]
  /\ Inside
  /\ UNCHANGED <<memory, holder, ticker, life, called, ending, removed, freeing>>

\* The reference.  The record may have been marked, or pooled, since it was tested.
CloseReferences(p) ==
  /\ task[p].at = "close"
  /\ made[task[p].rec] # "freed"
  /\ Reference(task[p].rec)
  /\ task' = [task EXCEPT ![p].at = "remove"]
  /\ Inside
  /\ UNCHANGED <<table, made, key, doomed, checks, pool, holder, ticker, life, called, ending,
                 removed, freeing>>

\* Under the lock of the table: the removal by key, then AddRecordToPendingDeletePool, which
\* reads bBeingDeleted, sets it, and puts the record in the pool.
CloseRemoves(p) ==
  /\ task[p].at = "remove"
  /\ Unlocked("connections")
  /\ holder' = [holder EXCEPT !["connections"] = p]
  /\ RemoveByKey(task[p].rec)
  /\ task' = [task EXCEPT ![p].at = "mark"]
  /\ Inside
  /\ UNCHANGED <<made, key, doomed, refs, checks, pool, ticker, life, ending, freeing>>

CloseMarks(p) ==
  LET r == task[p].rec IN
  /\ task[p].at = "mark"
  /\ IF doomed[r]
     THEN /\ task' = [task EXCEPT ![p] = Idle]
          /\ holder' = [holder EXCEPT !["connections"] = "nobody"]
          /\ Dereference(r)
     ELSE /\ task' = [task EXCEPT ![p].at = "doom"]
          /\ UNCHANGED <<holder, refs>>
  /\ Inside
  /\ UNCHANGED <<table, made, key, doomed, checks, pool, ticker, life, called, ending, removed,
                 freeing>>

CloseDooms(p) ==
  /\ task[p].at = "doom"
  /\ doomed' = [doomed EXCEPT ![task[p].rec] = TRUE]
  /\ task' = [task EXCEPT ![p].at = "pool"]
  /\ Inside
  /\ UNCHANGED <<table, made, key, refs, checks, pool, holder, ticker, life, called, ending,
                 removed, freeing>>

ClosePools(p) ==
  /\ task[p].at = "pool"
  /\ Pool(task[p].rec)
  /\ Dereference(task[p].rec)
  /\ task' = [task EXCEPT ![p] = Idle]
  /\ holder' = [holder EXCEPT !["connections"] = "nobody"]
  /\ Inside
  /\ UNCHANGED <<table, made, key, doomed, checks, ticker, life, called, ending, removed, freeing>>

-----------------------------------------------------------------------------
(* The ticker's thread: TimeoutLambda, then DeallocatorLambda.             *)

\* 100 ms have passed: the queue is moved to a snapshot.
Wake ==
  /\ Up
  /\ ticker.at = "idle"
  /\ pool' = [r \in Record |-> IF pool[r] = "new" THEN "seen" ELSE pool[r]]
  /\ ticker' = [Resting EXCEPT !.at = "check", !.snapshot = checks]
  /\ checks' = <<>>
  /\ overdue' = {r \in overdue : made[r] = "freed"}
  /\ Inside
  /\ UNCHANGED <<table, made, key, doomed, refs, holder, task, life, called, ending, removed,
                 hasty>>

\* The next record of the snapshot, referenced while it is looked at.  One that is only half
\* constructed has no TimeoutValueMS yet (a call of a pure virtual function), and one that
\* was freed is gone: the thread is not followed further.  Whether a record has timed out,
\* and whether it is repeated or given up, is a choice.
CheckRecord ==
  LET r == Head(ticker.snapshot)
      rest == [ticker EXCEPT !.snapshot = Tail(@)] IN
  /\ ticker.at = "check"
  /\ ticker.snapshot # <<>>
  /\ \/ /\ made[r] # "live"
        /\ ticker' = [ticker EXCEPT !.at = "undefined"]
        /\ UNCHANGED refs
     \/ made[r] = "live" /\ doomed[r] /\ ticker' = rest /\ UNCHANGED refs
     \/ made[r] = "live" /\ ~doomed[r] /\ ticker' = [rest EXCEPT !.tmp = Append(@, r)] /\ UNCHANGED refs
     \/ /\ made[r] = "live" /\ ~doomed[r]
        /\ ticker' = [rest EXCEPT !.at = "remove", !.rec = r]
        /\ Reference(r)
  /\ Inside
  /\ UNCHANGED <<table, made, key, doomed, checks, pool, holder, task, life, called, ending,
                 removed, freeing>>

\* Fault: given up, and left in its table.
ExpireRemovesNot ==
  /\ ticker.at = "remove"
  /\ Unlocked(TableOf(key[ticker.rec]))
  /\ removed' = removed \cup {ticker.rec}
  /\ ticker' = [ticker EXCEPT !.at = "mark"]
  /\ Inside
  /\ UNCHANGED <<memory, holder, task, life, called, ending, freeing>>

\* Given up: removed by key under the lock of its table.
ExpireRemoves ==
  /\ ticker.at = "remove"
  /\ Unlocked(TableOf(key[ticker.rec]))
  /\ RemoveByKey(ticker.rec)
  /\ ticker' = [ticker EXCEPT !.at = "mark"]
  /\ Inside
  /\ UNCHANGED <<made, key, doomed, refs, checks, pool, holder, task, life, ending, freeing>>

ExpireMarks ==
  LET r == ticker.rec IN
  /\ ticker.at = "mark"
  /\ IF doomed[r]
     THEN ticker' = [ticker EXCEPT !.at = "check", !.rec = NoRecord] /\ Dereference(r)
     ELSE ticker' = [ticker EXCEPT !.at = "doom"] /\ UNCHANGED refs
  /\ Inside
  /\ UNCHANGED <<table, made, key, doomed, checks, pool, holder, task, life, called, ending,
                 removed, freeing>>

ExpireDooms ==
  /\ ticker.at = "doom"
  /\ doomed' = [doomed EXCEPT ![ticker.rec] = TRUE]
  /\ ticker' = [ticker EXCEPT !.at = "pool"]
  /\ Inside
  /\ UNCHANGED <<table, made, key, refs, checks, pool, holder, task, life, called, ending,
                 removed, freeing>>

ExpirePools ==
  /\ ticker.at = "pool"
  /\ Pool(ticker.rec)
  /\ Dereference(ticker.rec)
  /\ ticker' = [ticker EXCEPT !.at = "check", !.rec = NoRecord]
  /\ Inside
  /\ UNCHANGED <<table, made, key, doomed, checks, holder, task, life, called, ending, removed,
                 freeing>>

\* AddAll_NotTSTemporaryQueue.
EndCheck ==
  /\ ticker.at = "check"
  /\ ticker.snapshot = <<>>
  /\ checks' = checks \o ticker.tmp
  /\ ticker' = Resting
  /\ Inside
  /\ UNCHANGED <<table, made, key, doomed, refs, pool, holder, task, life, called, ending,
                 removed, freeing>>

Freed(R) ==
  /\ made' = [r \in Record |-> IF r \in R THEN "freed" ELSE made[r]]
  /\ pool' = [r \in Record |-> IF r \in R THEN NotPooled ELSE pool[r]]

\* DeallocatorLambda reads the clock, and then takes the lock of the pool.  Which of the
\* pooled records are there for more than 100 ms by then is a choice.
ReadClock ==
  /\ Up
  /\ ticker.at = "idle"
  /\ \E R \in SUBSET {r \in Record : pool[r] \in {"new", "seen"}} :
       /\ pool' = [r \in Record |-> IF r \in R THEN "old" ELSE pool[r]]
       /\ overdue' = overdue \cup {r \in R : pool[r] = "new"}
  /\ task' = [p \in Task |->
       [task[p] EXCEPT !.late = @ \/ (task[p].at \in {"found", "close"} /\ pool'[task[p].rec] = "old")]]
  /\ ticker' = [Resting EXCEPT !.at = "deallocate"]
  /\ Inside
  /\ UNCHANGED <<table, made, key, doomed, refs, checks, holder, life, called, ending, removed,
                 hasty>>

\* Fault: no look at how long a record was pooled.
DeallocateAtOnce ==
  /\ ticker.at = "deallocate"
  /\ Freed({r \in Record : pool[r] # NotPooled /\ refs[r] = 0})
  /\ ticker' = Resting
  /\ Inside
  /\ UNCHANGED <<table, key, doomed, refs, checks, holder, task, life, called, ending, removed,
                 freeing>>

\* Under the lock: the unreferenced records that are old are freed, and so are those pooled
\* in a later millisecond than the clock showed, their age being unsigned.
Deallocate ==
  /\ ticker.at = "deallocate"
  /\ \E R \in SUBSET {r \in Record : pool[r] = "ahead" /\ refs[r] = 0} :
       LET F == R \cup {r \in Record : pool[r] = "old" /\ refs[r] = 0} IN
       /\ made' = [r \in Record |-> IF r \in F THEN "freed" ELSE made[r]]
       /\ pool' = [r \in Record |-> IF r \in F THEN NotPooled
                                   ELSE IF pool[r] = "ahead" THEN "new" ELSE pool[r]]
       /\ hasty' = hasty \cup R
  /\ ticker' = Resting
  /\ Inside
  /\ UNCHANGED <<table, key, doomed, refs, checks, holder, task, life, called, ending, removed,
                 overdue>>

-----------------------------------------------------------------------------
(* MarkPendingKill and EndSystem.                                          *)

\* bPendingKill, then the callback, then the test under the lock.
MarkPendingKill ==
  /\ life = "alive"
  /\ life' = "marked"
  /\ UNCHANGED <<memory, holder, task, ticker, called, ending, removed, disturbed, freeing>>

SetReadyToDieCallback ==
  /\ life = "marked"
  /\ life' = "armed"
  /\ UNCHANGED <<memory, holder, task, ticker, called, ending, removed, disturbed, freeing>>

\* Fault: the test is left to the next removal.
TestIfReadyLater ==
  /\ life = "armed"
  /\ life' = "dying"
  /\ UNCHANGED <<memory, holder, task, ticker, called, ending, removed, disturbed, freeing>>

TestIfReady ==
  /\ life = "armed"
  /\ Unlocked("connections")
  /\ life' = "dying"
  /\ called' = (called \/ ConnectionsEmpty(table))
  /\ UNCHANGED <<memory, holder, task, ticker, ending, removed, disturbed, freeing>>

InHandler == ticker.at # "idle" \/ \E p \in Task : task[p].at # "idle"

\* EndSystem: the four Clear functions, in order.
EndSystem ==
  /\ ending = "no"
  /\ ending' = "queue"
  /\ disturbed' = InHandler
  /\ UNCHANGED <<memory, holder, task, ticker, life, called, removed, freeing>>

ClearUDPRecordsForTimeoutCheck ==
  /\ ending = "queue"
  /\ checks' = <<>>
  /\ ending' = "connections"
  /\ UNCHANGED <<table, made, key, doomed, refs, pool, holder, task, ticker, life, called,
                 removed, disturbed, freeing>>

\* Every record of the table that is not yet being deleted is pooled; the table is emptied.
ClearTable(K) ==
  LET R == {r \in Record : (\E k \in K : table[k] = r) /\ ~doomed[r]} IN
  /\ doomed' = [r \in Record |-> doomed[r] \/ r \in R]
  /\ pool' = [r \in Record |-> IF r \in R /\ pool[r] = NotPooled THEN "new" ELSE pool[r]]
  /\ table' = [k \in Key |-> IF k \in K THEN NoRecord ELSE table[k]]
  /\ UNCHANGED <<made, key, refs, checks, holder, task, ticker, life, called, removed, disturbed,
                 freeing>>

ClearReliableConnections ==
  /\ ending = "connections"
  /\ Unlocked("connections")
  /\ ClearTable(Connection)
  /\ ending' = "parties"

\* Fault: the table is emptied first.
ClearOtherPartiesRecordsOnly ==
  /\ ending = "parties"
  /\ table' = [k \in Key |-> IF k \in Party THEN NoRecord ELSE table[k]]
  /\ ending' = "pool"
  /\ UNCHANGED <<made, key, doomed, pool, refs, checks, holder, task, ticker, life, called,
                 removed, disturbed, freeing>>

ClearOtherPartiesRecords ==
  /\ ending = "parties"
  /\ Unlocked("parties")
  /\ ClearTable(Party)
  /\ ending' = "pool"

\* All that is pooled is deleted, referenced or not.
ClearPendingDeletePool ==
  /\ ending = "pool"
  /\ Freed({r \in Record : pool[r] # NotPooled})
  /\ ending' = "ended"
  /\ UNCHANGED <<table, key, doomed, refs, checks, holder, task, ticker, life, called, removed,
                 disturbed, freeing>>

-----------------------------------------------------------------------------
TaskStep(p) ==
  \/ TestPendingKill(p)
  \/ \E k \in Key : Find(p, k) \/ BeginRecord(p, k)
  \/ FinishRecord(p)
  \/ LeaveRecord(p)
  \/ UseFreed(p)
  \/ CloseCase(p)
  \/ CloseReferences(p)
  \/ CloseRemoves(p)
  \/ CloseMarks(p)
  \/ CloseDooms(p)
  \/ ClosePools(p)

TickerStep ==
  \/ Wake
  \/ CheckRecord
  \/ ExpireRemoves
  \/ ExpireMarks
  \/ ExpireDooms
  \/ ExpirePools
  \/ EndCheck
  \/ ReadClock
  \/ Deallocate

Next ==
  \/ \E p \in Task : TaskStep(p)
  \/ TickerStep
  \/ MarkPendingKill
  \/ SetReadyToDieCallback
  \/ TestIfReady
  \/ EndSystem
  \/ ClearUDPRecordsForTimeoutCheck
  \/ ClearReliableConnections
  \/ ClearOtherPartiesRecords
  \/ ClearPendingDeletePool

Spec == Init /\ [][Next]_vars

-----------------------------------------------------------------------------
(* Properties.                                                             *)

\* While the handler is up, a freed record is in no table and in nobody's CloseCase.  A
\* task has one only if it kept it, unreferenced, for more than 100 ms after it was
\* pooled, and the timeout check meets one only if it needed as long to come back to the
\* queue; but for records pooled behind the deallocator's look at the clock.
NothingFreedIsReachable ==
  ending = "no" =>
    \A r \in Record : made[r] = "freed" =>
      /\ \A k \in Key : table[k] # r
      /\ refs[r] = 0 /\ ticker.rec # r
      /\ \A p \in Task : task[p].rec = r =>
           /\ task[p].at \in {"found", "close", "undefined"}
           /\ task[p].late \/ r \in hasty
      /\ r \in ToSet(checks) \cup ToSet(ticker.snapshot) \cup ToSet(ticker.tmp)
           => r \in overdue \cup hasty

\* A lookup never meets a record that is being deleted, because every removal from the
\* table comes before the mark; and a record is missing from its table, though it is
\* not to be deleted, only when two threads removed the same earlier record by its key.
TableHoldsTheLiving ==
  ending = "no" =>
    /\ \A k \in Key : table[k] # NoRecord => ~doomed[table[k]]
    /\ \A r \in Record :
         made[r] = "live" /\ ~doomed[r] /\ r \notin removed /\ table[key[r]] # r
           => \E x \in removed \ {r} : key[x] = key[r]

\* Once MarkPendingKill has returned and no connection is open, its callback was
\* called, whichever removals came between its steps.
MarkedHandlerCallsBack ==
  ending = "no" /\ life = "dying" /\ ConnectionsEmpty(table)
    /\ (\A p \in Task : task[p].at # "make") => called

\* EndSystem frees every record, if nobody is inside the handler meanwhile, but for
\* records that were in no table.
EndSystemFreesAll ==
  ending = "ended" /\ ~disturbed =>
    \A r \in Record : made[r] \in {"no", "freed"} \/ \E x \in removed \ {r} : key[x] = key[r]

\* No record leaks while the handler is up: one that is being deleted is in the pool until
\* it is freed (or about to be put there), whichever of the threads that close it came
\* first, and the references
\* that keep it there are those of the threads that close it, each given back.
DoomedIsPooled ==
  ending = "no" =>
    \A r \in Record :
      /\ doomed[r] /\ made[r] # "freed" /\ pool[r] = NotPooled
           => (\E p \in Task : task[p].rec = r /\ task[p].at = "pool")
                \/ (ticker.rec = r /\ ticker.at = "pool")
      /\ refs[r] = Cardinality({p \in Task : task[p].rec = r
                                   /\ task[p].at \in {"remove", "mark", "doom", "pool"}})
                     + (IF ticker.rec = r THEN 1 ELSE 0)
=============================================================================
