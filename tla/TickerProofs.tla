----------------------------- MODULE TickerProofs -----------------------------
(***************************************************************************)
(* Theorems about Ticker, for any tasks, waiting times and number of ids:  *)
(* a cancelled task never runs, only a cancelled one is dropped, a task    *)
(* runs in its tick, and its parameters are deleted by who owns them.      *)
(***************************************************************************)
EXTENDS Ticker, TLAPS

-----------------------------------------------------------------------------
(* Queues and the set of their elements.                                   *)

\* A pushed element is in the queue, beside those that were there.
LEMMA PushToSet ==
  ASSUME NEW S, NEW s \in Seq(S), NEW x \in S
  PROVE  /\ Append(s, x) \in Seq(S)
         /\ ToSet(Append(s, x)) = ToSet(s) \cup {x}
<1>1. /\ Append(s, x) \in Seq(S)
      /\ Len(Append(s, x)) = Len(s) + 1
      /\ \A i \in 1..Len(s) : Append(s, x)[i] = s[i]
      /\ Append(s, x)[Len(s) + 1] = x
  OBVIOUS
<1>2. DOMAIN s = 1..Len(s) /\ DOMAIN Append(s, x) = 1..(Len(s) + 1) /\ Len(s) \in Nat
  OBVIOUS
<1>3. ASSUME NEW y \in ToSet(Append(s, x)) PROVE y \in ToSet(s) \cup {x}
  BY <1>1, <1>2 DEF ToSet
<1>4. ToSet(s) \subseteq ToSet(Append(s, x))
  BY <1>1, <1>2 DEF ToSet
<1>5. x \in ToSet(Append(s, x))
  BY <1>1, <1>2 DEF ToSet
<1>6. QED
  BY <1>1, <1>3, <1>4, <1>5

\* A queue without repetitions has none after a new element was pushed.
LEMMA PushInjective ==
  ASSUME NEW S, NEW s \in Seq(S), NEW x \in S, x \notin ToSet(s), IsInjective(s)
  PROVE  IsInjective(Append(s, x))
<1>1. /\ \A i \in 1..Len(s) : Append(s, x)[i] = s[i]
      /\ Append(s, x)[Len(s) + 1] = x
  OBVIOUS
<1>2. DOMAIN s = 1..Len(s) /\ DOMAIN Append(s, x) = 1..(Len(s) + 1) /\ Len(s) \in Nat
  OBVIOUS
<1>3. \A i \in 1..Len(s) : s[i] # x
  BY <1>2 DEF ToSet
<1>4. QED
  BY <1>1, <1>2, <1>3 DEF IsInjective

\* What is popped was in the queue, and the rest stays.
LEMMA PopToSet ==
  ASSUME NEW S, NEW s \in Seq(S), s # <<>>
  PROVE  /\ Head(s) \in S
         /\ Head(s) \in ToSet(s)
         /\ Tail(s) \in Seq(S)
         /\ ToSet(s) = {Head(s)} \cup ToSet(Tail(s))
<1>1. /\ Len(s) \in Nat \ {0} /\ DOMAIN s = 1..Len(s)
      /\ Head(s) = s[1] /\ Head(s) \in S /\ Tail(s) \in Seq(S)
      /\ Len(Tail(s)) = Len(s) - 1
      /\ \A i \in 1..(Len(s) - 1) : Tail(s)[i] = s[i + 1]
  OBVIOUS
<1>2. DOMAIN Tail(s) = 1..(Len(s) - 1)
  BY <1>1
<1>3. Head(s) \in ToSet(s)
  BY <1>1 DEF ToSet
<1>4. ToSet(Tail(s)) \subseteq ToSet(s)
  <2>1. SUFFICES ASSUME NEW i \in 1..(Len(s) - 1) PROVE Tail(s)[i] \in ToSet(s)
    BY <1>2 DEF ToSet
  <2>2. Tail(s)[i] = s[i + 1] /\ i + 1 \in 1..Len(s)
    BY <1>1
  <2>3. QED
    BY <1>1, <2>2 DEF ToSet
<1>5. ToSet(s) \subseteq {Head(s)} \cup ToSet(Tail(s))
  <2>1. SUFFICES ASSUME NEW i \in 1..Len(s), i # 1 PROVE s[i] \in ToSet(Tail(s))
    BY <1>1 DEF ToSet
  <2>2. PICK j \in 1..(Len(s) - 1) : i = j + 1
    <3>1. i - 1 \in 1..(Len(s) - 1) /\ i = (i - 1) + 1
      BY <1>1, <2>1
    <3>2. QED
      BY <3>1
  <2>3. Tail(s)[j] = s[i]
    BY <1>1, <2>2
  <2>4. QED
    BY <1>2, <2>3 DEF ToSet
<1>6. QED
  BY <1>1, <1>3, <1>4, <1>5

\* What is popped from a queue without repetitions is not in it any more.
LEMMA PopInjective ==
  ASSUME NEW S, NEW s \in Seq(S), s # <<>>, IsInjective(s)
  PROVE  /\ IsInjective(Tail(s))
         /\ Head(s) \notin ToSet(Tail(s))
         /\ ToSet(Tail(s)) = ToSet(s) \ {Head(s)}
<1>1. /\ Len(s) \in Nat \ {0} /\ DOMAIN s = 1..Len(s)
      /\ Head(s) = s[1] /\ Len(Tail(s)) = Len(s) - 1
      /\ \A i \in 1..(Len(s) - 1) : Tail(s)[i] = s[i + 1]
      /\ Tail(s) \in Seq(S)
  OBVIOUS
<1>2. DOMAIN Tail(s) = 1..(Len(s) - 1)
  BY <1>1
<1>3. ASSUME NEW i \in 1..(Len(s) - 1), NEW j \in 1..(Len(s) - 1), Tail(s)[i] = Tail(s)[j]
      PROVE  i = j
  BY <1>1, <1>3 DEF IsInjective
<1>4. \A i \in 1..(Len(s) - 1) : Tail(s)[i] # Head(s)
  BY <1>1 DEF IsInjective
<1>5. IsInjective(Tail(s)) /\ Head(s) \notin ToSet(Tail(s))
  BY <1>2, <1>3, <1>4 DEF IsInjective, ToSet
<1>6. QED
  BY <1>5, PopToSet

\* What a queue of elements of S holds is in S.
LEMMA ElementsOf ==
  ASSUME NEW S, NEW s \in Seq(S)
  PROVE  ToSet(s) \subseteq S
BY DEF ToSet

\* The empty queue.
LEMMA EmptyToSet == ToSet(<<>>) = {} /\ IsInjective(<<>>)
BY DEF ToSet, IsInjective

-----------------------------------------------------------------------------

\* A queued task is in one queue, once; the popped one is the ticker's, which puts tasks
\* aside only during a tick.
QueuesInv ==
  /\ IsInjective(awaiting)
  /\ IsInjective(kept)
  /\ ToSet(awaiting) \cap ToSet(kept) = {}
  /\ \A t \in Task : phase[t] = "queued" <=> t \in ToSet(awaiting) \cup ToSet(kept)
  /\ \A t \in Task : phase[t] = "popped" <=> t = current
  /\ current # NoTask <=> at \in {"check", "run"}
  /\ ~TickerHoldsMutex => kept = <<>>

\* Who was cancelled has had an id, and that id is in the list; the ticker calls no such task.
CancelInv ==
  /\ \A t \in revoked : Cancellable(t) /\ id[t] \in cancelledIds
  /\ CancelledNeverRuns

\* Until the counter reaches its limit an id belongs to one task, and the list of cancelled
\* ids tells who was cancelled.
IdsInv ==
  /\ currentTaskIx > 0
  /\ currentTaskIx <= MaxTaskIx =>
       /\ \A t \in Task : phase[t] # "new" => id[t] < currentTaskIx
       /\ \A t, u \in Task : phase[t] # "new" /\ phase[u] # "new" /\ id[t] = id[u] => t = u
       /\ \A i \in cancelledIds : \E t \in revoked : id[t] = i
       /\ OnlyCancelledIsDropped

\* The tick that a task misses in its age, when it was pushed during one.
Missed(t) == IF t \in joined THEN 1 ELSE 0

\* PassedTimeMs counts the ticks begun, one behind for a task that this tick has still to
\* look at; it stays below WaitFor until the task is run.
TimeInv ==
  /\ \A t \in Task : phase[t] \in {"new", "numbered"} =>
                       age[t] = 0 /\ passed[t] = 0 /\ t \notin joined
  /\ \A t \in Task : phase[t] \in {"queued", "popped"} => Wait[t] > 0
  /\ \A t \in ToSet(awaiting) :
       /\ passed[t] < Wait[t]
       /\ at \in {"created", "asleep"} => age[t] = passed[t] - Missed(t)
       /\ TickerHoldsMutex => age[t] = passed[t] + 1 - Missed(t)
  /\ \A t \in ToSet(kept) : passed[t] < Wait[t] /\ age[t] = passed[t] - Missed(t)
  /\ at = "check" => passed[current] < Wait[current]
                       /\ age[current] = passed[current] + 1 - Missed(current)
  /\ at = "run" => passed[current] = Wait[current]
                     /\ age[current] = passed[current] - Missed(current)

\* The parameters that the manager owns are deleted with the task.
FreedInv ==
  \A t \in Task :
    freed[t] = IF phase[t] \in {"called", "ended"} /\ t \notin Borrowed THEN 1 ELSE 0

TickerInv == TypeOK /\ QueuesInv /\ CancelInv /\ IdsInv /\ TimeInv /\ FreedInv

-----------------------------------------------------------------------------
(* What each part of the invariant depends on.                             *)

\* The queues stay what they were if no task enters or leaves them.
LEMMA QueuesKept ==
  ASSUME QueuesInv, UNCHANGED <<awaiting, kept, current>>,
         at' \in {"check", "run"} <=> at \in {"check", "run"},
         TickerHoldsMutex => TickerHoldsMutex',
         \A t \in Task : /\ phase'[t] = "queued" <=> phase[t] = "queued"
                         /\ phase'[t] = "popped" <=> phase[t] = "popped"
  PROVE  QueuesInv'
BY DEF QueuesInv

\* Cancellation stays what it was if no id changes and no task is about to be called.
LEMMA CancelKept ==
  ASSUME CancelInv, UNCHANGED <<revoked, cancelledIds>>, at' # "run",
         \A t \in revoked : id'[t] = id[t] /\ (Cancellable(t) => phase'[t] \notin {"new", "numbered"})
  PROVE  CancelInv'
BY DEF CancelInv, Cancellable, CancelledNeverRuns

\* Ids stay what they were if none is given and only a cancelled task is dropped.
LEMMA IdsKept ==
  ASSUME IdsInv, UNCHANGED <<currentTaskIx, id, cancelledIds, revoked>>,
         \A t \in Task : /\ phase[t] = "new" => phase'[t] = "new"
                         /\ phase'[t] = "new" => phase[t] = "new"
                         /\ phase'[t] = "dropped" => phase[t] = "dropped"
  PROVE  IdsInv'
BY DEF IdsInv, OnlyCancelledIsDropped

\* Nothing is deleted unless a task is called or thrown away at the end.
LEMMA FreedKept ==
  ASSUME FreedInv, UNCHANGED freed,
         \A t \in Task : phase'[t] \in {"called", "ended"} <=> phase[t] \in {"called", "ended"}
  PROVE  FreedInv'
BY DEF FreedInv

\* A task that is called or thrown away is deleted then, for the first time.
LEMMA FreedOnce ==
  ASSUME TypeOK, FreedInv, NEW t \in Task, NEW place \in {"called", "ended"},
         phase[t] \notin {"called", "ended"}, Deallocate(t),
         \A u \in Task : phase'[u] = IF u = t THEN place ELSE phase[u]
  PROVE  FreedInv' /\ freed' \in [Task -> Nat]
<1>1. freed \in [Task -> Nat] /\ freed[t] = 0
  BY DEF TypeOK, FreedInv
<1>2. CASE t \in Borrowed
  <2>1. freed' = freed
    BY <1>2 DEF Deallocate
  <2>2. QED
    BY <1>1, <1>2, <2>1 DEF FreedInv
<1>3. CASE t \notin Borrowed
  <2>1. freed' = [freed EXCEPT ![t] = 0 + 1]
    BY <1>1, <1>3 DEF Deallocate
  <2>2. freed' \in [Task -> Nat] /\ freed'[t] = 1 /\ \A u \in Task : u # t => freed'[u] = freed[u]
    BY <1>1, <2>1
  <2>3. QED
    BY <1>3, <2>2 DEF FreedInv
<1>4. QED
  BY <1>2, <1>3

-----------------------------------------------------------------------------
(* Callers.                                                                *)

\* The task gets the counter for its id, which nobody else has.
LEMMA NumberTaskStep ==
  ASSUME TickerInv, NEW t \in Task, NumberTask(t)
  PROVE  TickerInv'
<1>1. TypeOK /\ QueuesInv /\ CancelInv /\ IdsInv /\ TimeInv /\ FreedInv
  BY DEF TickerInv
<1>2. /\ phase[t] = "new"
      /\ phase' = [phase EXCEPT ![t] = "numbered"]
      /\ id' = [id EXCEPT ![t] = TaskUniqueIx]
      /\ currentTaskIx' = currentTaskIx + 1
      /\ UNCHANGED <<started, at, ending, passed, awaiting, kept, current, cancelledIds,
                     revoked, age, joined, ran, freed>>
  BY DEF NumberTask, control, queues, history
<1>3. /\ \A u \in Task : /\ phase'[u] = IF u = t THEN "numbered" ELSE phase[u]
                         /\ id'[u] = IF u = t THEN TaskUniqueIx ELSE id[u]
      /\ TaskUniqueIx \in Nat
  BY <1>1, <1>2, MaxTaskIxIsPositive DEF TypeOK, TaskUniqueIx
<1>4. TypeOK'
  BY <1>1, <1>2, <1>3 DEF TypeOK, Phase
<1>5. QueuesInv'
  BY <1>1, <1>2, <1>3, QueuesKept DEF TickerHoldsMutex
<1>6. t \notin revoked
  BY <1>1, <1>2 DEF CancelInv, Cancellable
<1>7. CancelInv'
  <2>1. \A u \in revoked : u \in Task /\ Cancellable(u) /\ id[u] \in cancelledIds
    BY <1>1 DEF CancelInv, TypeOK
  <2>2. \A u \in revoked : phase'[u] = phase[u] /\ id'[u] = id[u]
    BY <1>3, <1>6, <2>1
  <2>3. QED
    BY <1>1, <1>2, <2>1, <2>2 DEF CancelInv, Cancellable, CancelledNeverRuns
<1>8. IdsInv'
  <2>1. currentTaskIx \in Nat /\ currentTaskIx > 0 /\ currentTaskIx' > 0
    BY <1>1, <1>2 DEF TypeOK, IdsInv
  <2>2. SUFFICES ASSUME currentTaskIx' <= MaxTaskIx
                 PROVE  /\ \A v \in Task : phase'[v] # "new" => id'[v] < currentTaskIx'
                        /\ \A u, v \in Task : phase'[u] # "new" /\ phase'[v] # "new"
                                                /\ id'[u] = id'[v] => u = v
                        /\ \A i \in cancelledIds : \E v \in revoked : id'[v] = i
                        /\ OnlyCancelledIsDropped'
    BY <1>2, <2>1 DEF IdsInv
  <2>3. currentTaskIx < MaxTaskIx /\ currentTaskIx <= MaxTaskIx /\ TaskUniqueIx = currentTaskIx
    BY <1>2, <2>1, <2>2, MaxTaskIxIsPositive DEF TaskUniqueIx
  <2>4. /\ \A v \in Task : phase[v] # "new" => id[v] < currentTaskIx
        /\ \A u, v \in Task : phase[u] # "new" /\ phase[v] # "new" /\ id[u] = id[v] => u = v
        /\ \A i \in cancelledIds : \E v \in revoked : id[v] = i
        /\ \A v \in Task : phase[v] = "dropped" => v \in revoked
    BY <1>1, <2>3 DEF IdsInv, OnlyCancelledIsDropped
  <2>5. \A v \in Task : id[v] \in Nat
    BY <1>1 DEF TypeOK
  <2>6. \A v \in Task : phase'[v] # "new" => id'[v] < currentTaskIx'
    BY <1>2, <1>3, <2>1, <2>3, <2>4, <2>5
  <2>7. \A u, v \in Task : phase'[u] # "new" /\ phase'[v] # "new" /\ id'[u] = id'[v] => u = v
    BY <1>3, <2>1, <2>3, <2>4, <2>5
  <2>8. \A i \in cancelledIds : \E v \in revoked : id'[v] = i
    BY <1>1, <1>3, <1>6, <2>4 DEF TypeOK
  <2>9. OnlyCancelledIsDropped'
    BY <1>2, <1>3, <2>4 DEF OnlyCancelledIsDropped
  <2>10. QED
    BY <2>6, <2>7, <2>8, <2>9
<1>9. TimeInv'
  BY <1>1, <1>2, <1>3 DEF TimeInv, Missed, TickerHoldsMutex
<1>10. FreedInv'
  BY <1>1, <1>2, <1>3, FreedKept
<1>11. QED
  BY <1>4, <1>5, <1>7, <1>8, <1>9, <1>10 DEF TickerInv

\* The task goes to the end of the queue; during a tick the ticker will still look at it.
LEMMA PushTaskStep ==
  ASSUME TickerInv, NEW t \in Task, PushTask(t)
  PROVE  TickerInv'
<1>1. TypeOK /\ QueuesInv /\ CancelInv /\ IdsInv /\ TimeInv /\ FreedInv
  BY DEF TickerInv
<1>2. /\ phase[t] = "numbered"
      /\ UNCHANGED <<started, at, ending, currentTaskIx, id, passed, kept, current, cancelledIds,
                     revoked, age, ran, freed>>
  BY DEF PushTask, control
<1>3. CASE /\ Wait[t] = 0
           /\ phase' = [phase EXCEPT ![t] = "pooled"]
           /\ UNCHANGED <<awaiting, joined>>
  <2>1. \A u \in Task : phase'[u] = IF u = t THEN "pooled" ELSE phase[u]
    BY <1>1, <1>3 DEF TypeOK
  <2>2. TypeOK'
    BY <1>1, <1>2, <1>3 DEF TypeOK, Phase
  <2>3. QueuesInv'
    BY <1>1, <1>2, <1>3, <2>1, QueuesKept DEF TickerHoldsMutex
  <2>4. CancelInv'
    BY <1>1, <1>2, <2>1 DEF CancelInv, CancelledNeverRuns, Cancellable, TypeOK
  <2>5. IdsInv'
    BY <1>1, <1>2, <2>1, IdsKept
  <2>6. TimeInv'
    BY <1>1, <1>2, <1>3, <2>1 DEF TimeInv, Missed, TickerHoldsMutex
  <2>7. FreedInv'
    BY <1>1, <1>2, <2>1, FreedKept
  <2>8. QED
    BY <2>2, <2>3, <2>4, <2>5, <2>6, <2>7 DEF TickerInv
<1>4. CASE /\ Wait[t] # 0
           /\ phase' = [phase EXCEPT ![t] = "queued"]
           /\ awaiting' = Append(awaiting, t)
           /\ joined' = IF TickerHoldsMutex THEN joined \cup {t} ELSE joined
  <2>1. \A u \in Task : phase'[u] = IF u = t THEN "queued" ELSE phase[u]
    BY <1>1, <1>4 DEF TypeOK
  <2>2. t \notin ToSet(awaiting) /\ t \notin ToSet(kept) /\ t # current
    BY <1>1, <1>2 DEF QueuesInv
  <2>3. PICK queue :
          /\ queue = Append(awaiting, t)
          /\ queue \in Seq(Task)
          /\ ToSet(queue) = ToSet(awaiting) \cup {t}
          /\ IsInjective(queue)
    <3>1. awaiting \in Seq(Task) /\ IsInjective(awaiting)
      BY <1>1 DEF TypeOK, QueuesInv
    <3>2. QED
      BY <2>2, <3>1, PushToSet, PushInjective
  <2>4. awaiting' = queue
    BY <1>4, <2>3
  <2>5. ToSet(awaiting)' = ToSet(awaiting) \cup {t} /\ IsInjective(awaiting)'
    BY <2>3, <2>4
  <2>6. TypeOK'
    BY <1>1, <1>2, <1>4, <2>3, <2>4 DEF TypeOK, Phase
  <2>7. QueuesInv'
    BY <1>1, <1>2, <2>1, <2>2, <2>5 DEF QueuesInv, TickerHoldsMutex
  <2>8. CancelInv'
    BY <1>1, <1>2, <2>1 DEF CancelInv, CancelledNeverRuns, Cancellable, TypeOK
  <2>9. IdsInv'
    BY <1>1, <1>2, <2>1, IdsKept
  <2>10. TimeInv'
    <3>1. Wait[t] > 0 /\ age[t] = 0 /\ passed[t] = 0 /\ t \notin joined
      BY <1>1, <1>2, <1>4, WaitIsTicks DEF TimeInv
    <3>2. \A u \in Task : u # t => Missed(u)' = Missed(u)
      BY <1>4 DEF Missed
    <3>3. Missed(t)' = IF TickerHoldsMutex THEN 1 ELSE 0
      BY <1>4, <3>1 DEF Missed
    <3>4. \A u \in Task : phase'[u] \in {"new", "numbered"} =>
                            age'[u] = 0 /\ passed'[u] = 0 /\ u \notin joined'
      BY <1>1, <1>2, <1>4, <2>1 DEF TimeInv
    <3>5. \A u \in Task : phase'[u] \in {"queued", "popped"} => Wait[u] > 0
      BY <1>1, <2>1, <3>1 DEF TimeInv
    <3>6. \A u \in ToSet(awaiting)' :
            /\ passed'[u] < Wait[u]
            /\ at' \in {"created", "asleep"} => age'[u] = passed'[u] - Missed(u)'
            /\ TickerHoldsMutex' => age'[u] = passed'[u] + 1 - Missed(u)'
      <4>1. ASSUME NEW u \in ToSet(awaiting), u # t
            PROVE  /\ passed'[u] < Wait[u]
                   /\ at' \in {"created", "asleep"} => age'[u] = passed'[u] - Missed(u)'
                   /\ TickerHoldsMutex' => age'[u] = passed'[u] + 1 - Missed(u)'
        <5>1. u \in Task
          BY <1>1 DEF TypeOK, ToSet
        <5>2. QED
          BY <1>1, <1>2, <3>2, <4>1, <5>1 DEF TimeInv, TickerHoldsMutex
      <4>2. /\ passed'[t] < Wait[t]
            /\ at' \in {"created", "asleep"} => age'[t] = passed'[t] - Missed(t)'
            /\ TickerHoldsMutex' => age'[t] = passed'[t] + 1 - Missed(t)'
        <5>1. passed'[t] = 0 /\ age'[t] = 0 /\ passed'[t] < Wait[t]
          BY <1>2, <3>1
        <5>2. CASE TickerHoldsMutex
          <6>1. Missed(t)' = 1 /\ at' \notin {"created", "asleep"}
            BY <1>2, <3>3, <5>2 DEF TickerHoldsMutex
          <6>2. QED
            BY <5>1, <6>1
        <5>3. CASE ~TickerHoldsMutex
          <6>1. Missed(t)' = 0 /\ ~TickerHoldsMutex'
            BY <1>2, <3>3, <5>3 DEF TickerHoldsMutex
          <6>2. QED
            BY <5>1, <6>1
        <5>4. QED
          BY <5>2, <5>3
      <4>3. QED
        BY <2>2, <2>5, <4>1, <4>2
    <3>7. \A u \in ToSet(kept)' : passed'[u] < Wait[u] /\ age'[u] = passed'[u] - Missed(u)'
      <4>1. \A u \in ToSet(kept) : u \in Task /\ u # t
        BY <1>1, <2>2 DEF TypeOK, ToSet
      <4>2. QED
        BY <1>1, <1>2, <3>2, <4>1 DEF TimeInv
    <3>8. at \in {"check", "run"} => current \in Task /\ Missed(current)' = Missed(current)
      BY <1>1, <1>2, <1>4, <2>2 DEF QueuesInv, TypeOK, Missed
    <3>9. QED
      BY <1>1, <1>2, <3>4, <3>5, <3>6, <3>7, <3>8 DEF TimeInv
  <2>11. FreedInv'
    BY <1>1, <1>2, <2>1, FreedKept
  <2>12. QED
    BY <2>6, <2>7, <2>8, <2>9, <2>10, <2>11 DEF TickerInv
<1>5. QED
  BY <1>3, <1>4 DEF PushTask

\* Whoever cancels finds no task about to be called: the ticker would hold the mutex.
LEMMA CancelStep ==
  ASSUME TickerInv, NEW t \in Task, CancelScheduledAsyncTask(t)
  PROVE  TickerInv'
<1>1. TypeOK /\ QueuesInv /\ CancelInv /\ IdsInv /\ TimeInv /\ FreedInv
  BY DEF TickerInv
<1>2. /\ ~TickerHoldsMutex /\ Cancellable(t)
      /\ revoked' = revoked \cup {t}
      /\ cancelledIds' = cancelledIds \cup {id[t]}
      /\ UNCHANGED <<started, at, ending, currentTaskIx, id, phase, passed, awaiting, kept, current,
                     age, joined, ran, freed>>
  BY DEF CancelScheduledAsyncTask, Revoke, control, queues
<1>3. TypeOK'
  BY <1>1, <1>2 DEF TypeOK
<1>4. QueuesInv'
  BY <1>1, <1>2, QueuesKept DEF TickerHoldsMutex
<1>5. CancelInv'
  BY <1>1, <1>2 DEF CancelInv, CancelledNeverRuns, Cancellable, TickerHoldsMutex
<1>6. IdsInv'
  BY <1>1, <1>2 DEF IdsInv, OnlyCancelledIsDropped
<1>7. TimeInv'
  BY <1>1, <1>2 DEF TimeInv, Missed, TickerHoldsMutex
<1>8. FreedInv'
  BY <1>1, <1>2, FreedKept
<1>9. QED
  BY <1>3, <1>4, <1>5, <1>6, <1>7, <1>8 DEF TickerInv

-----------------------------------------------------------------------------
(* The ticker.                                                             *)

\* The thread begins, with no tick going on.
LEMMA StartTickerStep ==
  ASSUME TickerInv, StartTicker
  PROVE  TickerInv'
<1>1. TypeOK /\ QueuesInv /\ CancelInv /\ IdsInv /\ TimeInv /\ FreedInv
  BY DEF TickerInv
<1>2. /\ at = "created" /\ at' \in {"asleep", "exited"}
      /\ UNCHANGED <<started, ending, currentTaskIx, id, phase, passed, awaiting, kept, current,
                     cancelledIds, revoked, age, joined, ran, freed>>
  BY DEF StartTicker, queues, history
<1>3. TypeOK'
  BY <1>1, <1>2 DEF TypeOK
<1>4. QueuesInv'
  BY <1>1, <1>2, QueuesKept DEF TickerHoldsMutex
<1>5. CancelInv'
  BY <1>1, <1>2, CancelKept DEF Cancellable
<1>6. IdsInv'
  BY <1>1, <1>2, IdsKept
<1>7. TimeInv'
  BY <1>1, <1>2 DEF TimeInv, Missed, TickerHoldsMutex
<1>8. FreedInv'
  BY <1>1, <1>2, FreedKept
<1>9. QED
  BY <1>3, <1>4, <1>5, <1>6, <1>7, <1>8 DEF TickerInv

\* A tick begins: what is in the queue has waited for one tick more.
LEMMA WakeStep ==
  ASSUME TickerInv, Wake
  PROVE  TickerInv'
<1>1. TypeOK /\ QueuesInv /\ CancelInv /\ IdsInv /\ TimeInv /\ FreedInv
  BY DEF TickerInv
<1>2. /\ at = "asleep" /\ at' = IF started THEN "drain" ELSE "exited"
      /\ UNCHANGED <<started, ending, currentTaskIx, id, phase, passed, awaiting, kept, current,
                     cancelledIds, revoked, joined, ran, freed>>
  BY DEF Wake, queues
<1>3. \A t \in Task :
        age'[t] = IF started /\ t \in ToSet(awaiting) THEN age[t] + 1 ELSE age[t]
  BY DEF Wake
<1>4. TypeOK'
  <2>1. age' \in [Task -> Nat]
    BY <1>1 DEF TypeOK, Wake
  <2>2. QED
    BY <1>1, <1>2, <2>1 DEF TypeOK
<1>5. QueuesInv'
  BY <1>1, <1>2, QueuesKept DEF TickerHoldsMutex
<1>6. CancelInv'
  BY <1>1, <1>2, CancelKept DEF Cancellable
<1>7. IdsInv'
  BY <1>1, <1>2, IdsKept
<1>8. TimeInv'
  <2>1. kept = <<>> /\ kept' = <<>>
    BY <1>1, <1>2 DEF QueuesInv, TickerHoldsMutex
  <2>2. ToSet(kept)' = {}
    BY <2>1, EmptyToSet
  <2>3. \A t \in Task : Missed(t)' = Missed(t) /\ Missed(t) \in {0, 1}
                          /\ age[t] \in Nat /\ passed[t] \in Nat
    BY <1>1, <1>2 DEF Missed, TypeOK
  <2>4. \A t \in ToSet(awaiting) : t \in Task
    BY <1>1 DEF TypeOK, ToSet
  <2>5. \A t \in Task : phase[t] \in {"new", "numbered"} => t \notin ToSet(awaiting)
    BY <1>1 DEF QueuesInv
  <2>6. \A t \in Task : phase'[t] \in {"new", "numbered"} =>
                          age'[t] = 0 /\ passed'[t] = 0 /\ t \notin joined'
    BY <1>1, <1>2, <1>3, <2>5 DEF TimeInv
  <2>7. \A t \in ToSet(awaiting)' :
          /\ passed'[t] < Wait[t]
          /\ at' \in {"created", "asleep"} => age'[t] = passed'[t] - Missed(t)'
          /\ TickerHoldsMutex' => age'[t] = passed'[t] + 1 - Missed(t)'
    <3>1. SUFFICES ASSUME NEW t \in ToSet(awaiting)
                   PROVE  /\ passed[t] < Wait[t]
                          /\ at' \notin {"created", "asleep"}
                          /\ TickerHoldsMutex' => age'[t] = passed[t] + 1 - Missed(t)'
      BY <1>2
    <3>2. started <=> TickerHoldsMutex'
      BY <1>1, <1>2 DEF TickerHoldsMutex, TypeOK
    <3>3. passed[t] < Wait[t] /\ age[t] = passed[t] - Missed(t)
      BY <1>1, <1>2 DEF TimeInv
    <3>4. QED
      BY <1>2, <1>3, <2>3, <2>4, <3>2, <3>3
  <2>8. QED
    BY <1>1, <1>2, <2>2, <2>6, <2>7 DEF TimeInv
<1>9. FreedInv'
  BY <1>1, <1>2, FreedKept
<1>10. QED
  BY <1>4, <1>5, <1>6, <1>7, <1>8, <1>9 DEF TickerInv

\* The first of the queue is the ticker's.
LEMMA PopTaskStep ==
  ASSUME TickerInv, PopTask
  PROVE  TickerInv'
<1>1. TypeOK /\ QueuesInv /\ CancelInv /\ IdsInv /\ TimeInv /\ FreedInv
  BY DEF TickerInv
<1>2. PICK t, rest :
        /\ t = Head(awaiting) /\ rest = Tail(awaiting)
        /\ t \in Task /\ t \in ToSet(awaiting)
        /\ rest \in Seq(Task) /\ IsInjective(rest)
        /\ ToSet(rest) = ToSet(awaiting) \ {t}
  <2>1. awaiting \in Seq(Task) /\ IsInjective(awaiting) /\ awaiting # <<>>
    BY <1>1 DEF TypeOK, QueuesInv, PopTask
  <2>2. /\ Head(awaiting) \in Task /\ Head(awaiting) \in ToSet(awaiting)
        /\ Tail(awaiting) \in Seq(Task) /\ IsInjective(Tail(awaiting))
        /\ ToSet(Tail(awaiting)) = ToSet(awaiting) \ {Head(awaiting)}
    BY <2>1, PopToSet, PopInjective
  <2>3. QED
    BY <2>2
<1>3. /\ at = "drain" /\ at' = "check"
      /\ current' = t /\ awaiting' = rest
      /\ phase' = [phase EXCEPT ![t] = "popped"]
      /\ UNCHANGED <<started, ending, currentTaskIx, id, passed, kept, cancelledIds,
                     revoked, age, joined, ran, freed>>
  BY <1>2 DEF PopTask, history
<1>4. /\ \A u \in Task : phase'[u] = IF u = t THEN "popped" ELSE phase[u]
      /\ phase[t] = "queued" /\ t \notin ToSet(kept) /\ t # NoTask /\ current = NoTask
  BY <1>1, <1>2, <1>3, NoTaskIsNoTask DEF TypeOK, QueuesInv
<1>5. ToSet(awaiting)' = ToSet(awaiting) \ {t} /\ IsInjective(awaiting)'
  BY <1>2, <1>3
<1>6. TypeOK'
  BY <1>1, <1>2, <1>3 DEF TypeOK, Phase
<1>7. QueuesInv'
  BY <1>1, <1>2, <1>3, <1>4, <1>5, NoTaskIsNoTask DEF QueuesInv, TickerHoldsMutex
<1>8. CancelInv'
  BY <1>1, <1>3, <1>4, CancelKept DEF Cancellable, TypeOK
<1>9. IdsInv'
  BY <1>1, <1>3, <1>4, IdsKept
<1>10. TimeInv'
  <2>1. /\ passed[t] < Wait[t]
        /\ age[t] = passed[t] + 1 - Missed(t)
        /\ Wait[t] > 0
    BY <1>1, <1>2, <1>3, <1>4 DEF TimeInv, TickerHoldsMutex
  <2>2. \A u \in Task : Missed(u)' = Missed(u)
    BY <1>3 DEF Missed
  <2>3. \A u \in ToSet(awaiting)' :
          passed'[u] < Wait[u] /\ age'[u] = passed'[u] + 1 - Missed(u)'
    <3>1. \A u \in ToSet(awaiting) : u \in Task
      BY <1>1 DEF TypeOK, ToSet
    <3>2. QED
      BY <1>1, <1>3, <1>5, <2>2, <3>1 DEF TimeInv, TickerHoldsMutex
  <2>4. \A u \in ToSet(kept)' : passed'[u] < Wait[u] /\ age'[u] = passed'[u] - Missed(u)'
    <3>1. \A u \in ToSet(kept) : u \in Task
      BY <1>1 DEF TypeOK, ToSet
    <3>2. QED
      BY <1>1, <1>3, <2>2, <3>1 DEF TimeInv
  <2>5. /\ \A u \in Task : phase'[u] \in {"new", "numbered"} =>
                             age'[u] = 0 /\ passed'[u] = 0 /\ u \notin joined'
        /\ \A u \in Task : phase'[u] \in {"queued", "popped"} => Wait[u] > 0
    BY <1>1, <1>3, <1>4, <2>1 DEF TimeInv
  <2>6. passed'[current'] < Wait[current'] /\ age'[current'] = passed'[current'] + 1 - Missed(current)'
    BY <1>2, <1>3, <2>1, <2>2
  <2>7. QED
    BY <1>3, <2>3, <2>4, <2>5, <2>6 DEF TimeInv
<1>11. FreedInv'
  BY <1>1, <1>3, <1>4, FreedKept
<1>12. QED
  BY <1>6, <1>7, <1>8, <1>9, <1>10, <1>11 DEF TickerInv

\* What a tick that begins to look at a task knows of it.
LEMMA CheckedTask ==
  ASSUME TickerInv, at = "check"
  PROVE  /\ current \in Task /\ phase[current] = "popped"
         /\ current \notin ToSet(awaiting) /\ current \notin ToSet(kept)
         /\ passed[current] \in Nat /\ Wait[current] \in Nat
         /\ passed[current] < Wait[current]
         /\ age[current] = passed[current] + 1 - Missed(current)
<1>1. current \in Task
  BY NoTaskIsNoTask DEF TickerInv, TypeOK, QueuesInv
<1>2. phase[current] = "popped" /\ passed[current] \in Nat /\ Wait[current] \in Nat
  BY <1>1, WaitIsTicks DEF TickerInv, TypeOK, QueuesInv
<1>3. current \notin ToSet(awaiting) /\ current \notin ToSet(kept)
  BY <1>1, <1>2 DEF TickerInv, QueuesInv
<1>4. QED
  BY <1>1, <1>2, <1>3 DEF TickerInv, TimeInv

\* A popped task with a cancelled id is thrown away.
LEMMA CheckDrops ==
  ASSUME TickerInv, CheckTask, id[current] \in cancelledIds
  PROVE  TickerInv'
<1>1. TypeOK /\ QueuesInv /\ CancelInv /\ IdsInv /\ TimeInv /\ FreedInv
  BY DEF TickerInv
<1>2. PICK t : t = current
  OBVIOUS
<1>3. /\ at = "check" /\ at' = "drain" /\ current' = NoTask
      /\ phase' = [phase EXCEPT ![t] = "dropped"]
      /\ UNCHANGED <<started, ending, currentTaskIx, id, passed, awaiting, kept, cancelledIds,
                     revoked, age, joined, ran, freed>>
  BY <1>2 DEF CheckTask, history
<1>4. /\ t \in Task /\ phase[t] = "popped"
      /\ \A u \in Task : phase'[u] = IF u = t THEN "dropped" ELSE phase[u]
  BY <1>1, <1>2, <1>3, CheckedTask DEF TypeOK
<1>5. TypeOK'
  BY <1>1, <1>3 DEF TypeOK, Phase
<1>6. QueuesInv'
  BY <1>1, <1>2, <1>3, <1>4, NoTaskIsNoTask DEF QueuesInv, TickerHoldsMutex
<1>7. CancelInv'
  BY <1>1, <1>3, <1>4, CancelKept DEF Cancellable, TypeOK
<1>8. IdsInv'
  <2>1. ASSUME currentTaskIx <= MaxTaskIx PROVE t \in revoked
    <3>1. PICK u \in revoked : id[u] = id[t]
      BY <1>1, <1>2, <2>1 DEF IdsInv
    <3>2. u \in Task /\ phase[u] # "new"
      BY <1>1 DEF CancelInv, Cancellable, TypeOK
    <3>3. QED
      BY <1>1, <1>4, <2>1, <3>1, <3>2 DEF IdsInv
  <2>2. QED
    BY <1>1, <1>3, <1>4, <2>1 DEF IdsInv, OnlyCancelledIsDropped
<1>9. TimeInv'
  <2>1. \A u \in ToSet(kept) \cup ToSet(awaiting) : u \in Task
    BY <1>1 DEF TypeOK, ToSet
  <2>2. QED
    BY <1>1, <1>3, <1>4, <2>1 DEF TimeInv, Missed, TickerHoldsMutex
<1>10. FreedInv'
  BY <1>1, <1>3, <1>4, FreedKept
<1>11. QED
  BY <1>5, <1>6, <1>7, <1>8, <1>9, <1>10 DEF TickerInv

\* A task whose time is over is to be called in this tick.
LEMMA CheckRuns ==
  ASSUME TickerInv, CheckTask, id[current] \notin cancelledIds, passed[current] + 1 >= Wait[current]
  PROVE  TickerInv'
<1>1. TypeOK /\ QueuesInv /\ CancelInv /\ IdsInv /\ TimeInv /\ FreedInv
  BY DEF TickerInv
<1>2. PICK t : t = current
  OBVIOUS
<1>3. /\ t \in Task /\ phase[t] = "popped"
      /\ t \notin ToSet(awaiting) /\ t \notin ToSet(kept)
      /\ passed[t] \in Nat /\ Wait[t] \in Nat
      /\ passed[t] < Wait[t]
      /\ age[t] = passed[t] + 1 - Missed(t)
  BY <1>2, CheckedTask DEF CheckTask
<1>4. /\ at = "check" /\ at' = "run" /\ current' = t
      /\ passed' = [passed EXCEPT ![t] = @ + 1]
      /\ UNCHANGED <<started, ending, currentTaskIx, id, phase, awaiting, kept, cancelledIds,
                     revoked, age, joined, ran, freed>>
  BY <1>2, <1>3 DEF CheckTask, history
<1>5. \A u \in Task : passed'[u] = IF u = t THEN passed[u] + 1 ELSE passed[u]
  BY <1>1, <1>4 DEF TypeOK
<1>6. TypeOK'
  BY <1>1, <1>2, <1>3, <1>4 DEF TypeOK
<1>7. QueuesInv'
  BY <1>1, <1>2, <1>4, QueuesKept DEF TickerHoldsMutex
<1>8. CancelInv'
  BY <1>1, <1>2, <1>4 DEF CancelInv, Cancellable, CancelledNeverRuns
<1>9. IdsInv'
  BY <1>1, <1>4, IdsKept
<1>10. TimeInv'
  <2>1. \A u \in ToSet(kept) \cup ToSet(awaiting) : u \in Task /\ u # t
    <3>1. kept \in Seq(Task) /\ awaiting \in Seq(Task)
      BY <1>1 DEF TypeOK
    <3>2. ToSet(kept) \subseteq Task /\ ToSet(awaiting) \subseteq Task
      BY <3>1, ElementsOf
    <3>3. QED
      BY <1>3, <3>2
  <2>2. \A u \in Task : Missed(u)' = Missed(u) /\ Missed(u) \in {0, 1}
    BY <1>4 DEF Missed
  <2>3. passed'[t] = Wait[t] /\ age'[t] = passed'[t] - Missed(t)'
    <3>1. passed[t] + 1 = Wait[t]
      BY <1>2, <1>3
    <3>2. QED
      BY <1>3, <1>4, <1>5, <2>2, <3>1
  <2>4. \A u \in Task : phase'[u] \in {"new", "numbered"} =>
                          age'[u] = 0 /\ passed'[u] = 0 /\ u \notin joined'
    BY <1>1, <1>3, <1>4, <1>5 DEF TimeInv
  <2>5. /\ \A u \in ToSet(awaiting)' :
             passed'[u] < Wait[u] /\ age'[u] = passed'[u] + 1 - Missed(u)'
        /\ \A u \in ToSet(kept)' : passed'[u] < Wait[u] /\ age'[u] = passed'[u] - Missed(u)'
    BY <1>1, <1>4, <1>5, <2>1, <2>2 DEF TimeInv, TickerHoldsMutex
  <2>6. QED
    BY <1>1, <1>4, <2>3, <2>4, <2>5 DEF TimeInv
<1>11. FreedInv'
  BY <1>1, <1>4, FreedKept
<1>12. QED
  BY <1>6, <1>7, <1>8, <1>9, <1>10, <1>11 DEF TickerInv

\* A task that has longer to wait is kept for the next tick.
LEMMA CheckKeeps ==
  ASSUME TickerInv, CheckTask, id[current] \notin cancelledIds, passed[current] + 1 < Wait[current]
  PROVE  TickerInv'
<1>1. TypeOK /\ QueuesInv /\ CancelInv /\ IdsInv /\ TimeInv /\ FreedInv
  BY DEF TickerInv
<1>2. PICK t : t = current
  OBVIOUS
<1>3. /\ t \in Task /\ phase[t] = "popped"
      /\ t \notin ToSet(awaiting) /\ t \notin ToSet(kept)
      /\ passed[t] \in Nat /\ Wait[t] \in Nat
      /\ passed[t] + 1 < Wait[t]
      /\ age[t] = passed[t] + 1 - Missed(t)
  BY <1>2, CheckedTask DEF CheckTask
<1>4. /\ at = "check" /\ at' = "drain" /\ current' = NoTask
      /\ passed' = [passed EXCEPT ![t] = @ + 1]
      /\ phase' = [phase EXCEPT ![t] = "queued"]
      /\ kept' = Append(kept, t)
      /\ UNCHANGED <<started, ending, currentTaskIx, id, awaiting, cancelledIds,
                     revoked, age, joined, ran, freed>>
  BY <1>2, <1>3 DEF CheckTask, history
<1>5. \A u \in Task : /\ passed'[u] = IF u = t THEN passed[u] + 1 ELSE passed[u]
                      /\ phase'[u] = IF u = t THEN "queued" ELSE phase[u]
  BY <1>1, <1>4 DEF TypeOK
<1>6. /\ kept' \in Seq(Task)
      /\ ToSet(kept)' = ToSet(kept) \cup {t}
      /\ IsInjective(kept)'
  <2>1. kept \in Seq(Task) /\ IsInjective(kept)
    BY <1>1 DEF TypeOK, QueuesInv
  <2>2. PICK queue :
          /\ queue = Append(kept, t)
          /\ queue \in Seq(Task)
          /\ ToSet(queue) = ToSet(kept) \cup {t}
          /\ IsInjective(queue)
    BY <1>3, <2>1, PushToSet, PushInjective
  <2>3. kept' = queue
    BY <1>4, <2>2
  <2>4. QED
    BY <2>2, <2>3
<1>7. TypeOK'
  <2>1. passed \in [Task -> Nat] /\ phase \in [Task -> Phase] /\ "queued" \in Phase
    BY <1>1 DEF TypeOK, Phase
  <2>2. passed' \in [Task -> Nat]
    BY <1>3, <1>4, <2>1
  <2>3. phase' \in [Task -> Phase]
    BY <1>3, <1>4, <2>1
  <2>4. QED
    BY <1>1, <1>4, <1>6, <2>2, <2>3 DEF TypeOK
<1>8. QueuesInv'
  BY <1>1, <1>2, <1>3, <1>4, <1>5, <1>6, NoTaskIsNoTask DEF QueuesInv, TickerHoldsMutex
<1>9. CancelInv'
  BY <1>1, <1>4, <1>5, CancelKept DEF Cancellable, TypeOK
<1>10. IdsInv'
  BY <1>1, <1>3, <1>4, <1>5, IdsKept
<1>11. TimeInv'
  <2>1. \A u \in ToSet(kept) \cup ToSet(awaiting) : u \in Task /\ u # t
    <3>1. kept \in Seq(Task) /\ awaiting \in Seq(Task)
      BY <1>1 DEF TypeOK
    <3>2. ToSet(kept) \subseteq Task /\ ToSet(awaiting) \subseteq Task
      BY <3>1, ElementsOf
    <3>3. QED
      BY <1>3, <3>2
  <2>2. \A u \in Task : Missed(u)' = Missed(u) /\ Missed(u) \in {0, 1}
    BY <1>4 DEF Missed
  <2>3. passed'[t] < Wait[t] /\ age'[t] = passed'[t] - Missed(t)'
    BY <1>3, <1>4, <1>5, <2>2
  <2>4. \A u \in Task : phase'[u] \in {"new", "numbered"} =>
                          age'[u] = 0 /\ passed'[u] = 0 /\ u \notin joined'
    BY <1>1, <1>3, <1>4, <1>5 DEF TimeInv
  <2>5. \A u \in Task : phase'[u] \in {"queued", "popped"} => Wait[u] > 0
    BY <1>1, <1>3, <1>5 DEF TimeInv
  <2>6. /\ \A u \in ToSet(awaiting)' :
             passed'[u] < Wait[u] /\ age'[u] = passed'[u] + 1 - Missed(u)'
        /\ \A u \in ToSet(kept) : passed'[u] < Wait[u] /\ age'[u] = passed'[u] - Missed(u)'
    BY <1>1, <1>4, <1>5, <2>1, <2>2 DEF TimeInv, TickerHoldsMutex
  <2>7. QED
    BY <1>4, <1>6, <2>3, <2>4, <2>5, <2>6 DEF TimeInv
<1>12. FreedInv'
  BY <1>1, <1>3, <1>4, <1>5, FreedKept
<1>13. QED
  BY <1>7, <1>8, <1>9, <1>10, <1>11, <1>12 DEF TickerInv

\* The three outcomes of the test.
LEMMA CheckTaskStep ==
  ASSUME TickerInv, CheckTask
  PROVE  TickerInv'
<1>1. passed[current] \in Nat /\ Wait[current] \in Nat
  BY CheckedTask DEF CheckTask
<1>2. QED
  BY <1>1, CheckDrops, CheckRuns, CheckKeeps

\* What the called function may cancel: the ticker lets go of its own task before anyone
\* looks at the list again.
LEMMA RunTaskCancels ==
  ASSUME TickerInv, RunTask, \A u \in Task : u # current => phase'[u] = phase[u],
         phase'[current] \notin {"new", "numbered", "dropped"}
  PROVE  CancelInv' /\ IdsInv' /\ revoked' \subseteq Task /\ cancelledIds' \subseteq Nat
<1>1. TypeOK /\ CancelInv /\ IdsInv /\ QueuesInv
  BY DEF TickerInv
<1>2. current \in Task /\ phase[current] = "popped"
  BY <1>1, NoTaskIsNoTask DEF RunTask, QueuesInv, TypeOK
<1>3. at' = "drain" /\ UNCHANGED <<currentTaskIx, id>>
  BY DEF RunTask
<1>4. PICK T \in SUBSET {u \in Cancels[current] : Cancellable(u)} :
        revoked' = revoked \cup T /\ cancelledIds' = cancelledIds \cup {id[u] : u \in T}
  BY DEF RunTask, Revoke
<1>5. T \subseteq Task /\ \A u \in T : phase[u] \notin {"new", "numbered"}
  BY <1>2, <1>4, CancelsTasks DEF Cancellable
<1>6. \A u \in Task : phase[u] \notin {"new", "numbered"} => phase'[u] \notin {"new", "numbered"}
  BY <1>2
<1>7. CancelInv'
  <2>1. \A u \in revoked : u \in Task
    BY <1>1 DEF TypeOK
  <2>2. QED
    BY <1>1, <1>3, <1>4, <1>5, <1>6, <2>1 DEF CancelInv, Cancellable, CancelledNeverRuns
<1>8. IdsInv'
  <2>1. \A u \in Task : /\ phase'[u] = "new" <=> phase[u] = "new"
                        /\ phase'[u] = "dropped" => phase[u] = "dropped"
    BY <1>2
  <2>2. ASSUME currentTaskIx <= MaxTaskIx
        PROVE  \A i \in cancelledIds' : \E u \in revoked' : id'[u] = i
    BY <1>1, <1>3, <1>4, <2>2 DEF IdsInv
  <2>3. QED
    BY <1>1, <1>3, <1>4, <2>1, <2>2 DEF IdsInv, OnlyCancelledIsDropped
<1>9. QED
  BY <1>1, <1>4, <1>5, <1>7, <1>8 DEF TypeOK

\* What the ticker knows of the task that it calls.
LEMMA CalledTask ==
  ASSUME TickerInv, at = "run"
  PROVE  /\ current \in Task /\ phase[current] = "popped"
         /\ current \notin ToSet(awaiting) /\ current \notin ToSet(kept)
         /\ Wait[current] > 0
<1>1. current \in Task
  BY NoTaskIsNoTask DEF TickerInv, TypeOK, QueuesInv
<1>2. phase[current] = "popped"
  BY <1>1 DEF TickerInv, QueuesInv
<1>3. current \notin ToSet(awaiting) /\ current \notin ToSet(kept)
  BY <1>1, <1>2 DEF TickerInv, QueuesInv
<1>4. QED
  BY <1>1, <1>2, <1>3 DEF TickerInv, TimeInv

\* A looping task starts to wait again.
LEMMA RunLoops ==
  ASSUME TickerInv, RunTask, current \in Looping
  PROVE  TickerInv'
<1>1. TypeOK /\ QueuesInv /\ CancelInv /\ IdsInv /\ TimeInv /\ FreedInv
  BY DEF TickerInv
<1>2. PICK t : t = current
  OBVIOUS
<1>3. /\ t \in Task /\ phase[t] = "popped" /\ Wait[t] > 0
      /\ t \notin ToSet(awaiting) /\ t \notin ToSet(kept)
  BY <1>2, CalledTask DEF RunTask
<1>4. /\ at = "run" /\ at' = "drain" /\ current' = NoTask
      /\ ran' = ran \cup {t}
      /\ passed' = [passed EXCEPT ![t] = 0]
      /\ kept' = Append(kept, t)
      /\ age' = [age EXCEPT ![t] = 0]
      /\ joined' = joined \ {t}
      /\ phase' = [phase EXCEPT ![t] = "queued"]
      /\ UNCHANGED <<started, ending, currentTaskIx, id, awaiting, freed>>
  BY <1>2 DEF RunTask
<1>5. \A u \in Task : /\ passed'[u] = IF u = t THEN 0 ELSE passed[u]
                      /\ age'[u] = IF u = t THEN 0 ELSE age[u]
                      /\ phase'[u] = IF u = t THEN "queued" ELSE phase[u]
  BY <1>1, <1>4 DEF TypeOK
<1>6. /\ kept' \in Seq(Task)
      /\ ToSet(kept)' = ToSet(kept) \cup {t}
      /\ IsInjective(kept)'
  <2>1. kept \in Seq(Task) /\ IsInjective(kept)
    BY <1>1 DEF TypeOK, QueuesInv
  <2>2. PICK queue :
          /\ queue = Append(kept, t)
          /\ queue \in Seq(Task)
          /\ ToSet(queue) = ToSet(kept) \cup {t}
          /\ IsInjective(queue)
    BY <1>3, <2>1, PushToSet, PushInjective
  <2>3. kept' = queue
    BY <1>4, <2>2
  <2>4. QED
    BY <2>2, <2>3
<1>7. CancelInv' /\ IdsInv' /\ revoked' \subseteq Task /\ cancelledIds' \subseteq Nat
  BY <1>2, <1>3, <1>5, RunTaskCancels
<1>8. TypeOK'
  BY <1>1, <1>3, <1>4, <1>6, <1>7 DEF TypeOK, Phase
<1>9. QueuesInv'
  BY <1>1, <1>2, <1>3, <1>4, <1>5, <1>6, NoTaskIsNoTask DEF QueuesInv, TickerHoldsMutex
<1>10. TimeInv'
  <2>1. \A u \in ToSet(kept) \cup ToSet(awaiting) : u \in Task /\ u # t
    <3>1. kept \in Seq(Task) /\ awaiting \in Seq(Task)
      BY <1>1 DEF TypeOK
    <3>2. ToSet(kept) \subseteq Task /\ ToSet(awaiting) \subseteq Task
      BY <3>1, ElementsOf
    <3>3. QED
      BY <1>3, <3>2
  <2>2. Missed(t)' = 0 /\ \A u \in Task : u # t => Missed(u)' = Missed(u)
    BY <1>4 DEF Missed
  <2>3. passed'[t] < Wait[t] /\ age'[t] = passed'[t] - Missed(t)'
    BY <1>3, <1>5, <2>2
  <2>4. \A u \in Task : phase'[u] \in {"new", "numbered"} =>
                          age'[u] = 0 /\ passed'[u] = 0 /\ u \notin joined'
    BY <1>1, <1>3, <1>4, <1>5 DEF TimeInv
  <2>5. \A u \in Task : phase'[u] \in {"queued", "popped"} => Wait[u] > 0
    BY <1>1, <1>3, <1>5 DEF TimeInv
  <2>6. /\ \A u \in ToSet(awaiting)' :
             passed'[u] < Wait[u] /\ age'[u] = passed'[u] + 1 - Missed(u)'
        /\ \A u \in ToSet(kept) : passed'[u] < Wait[u] /\ age'[u] = passed'[u] - Missed(u)'
    BY <1>1, <1>4, <1>5, <2>1, <2>2 DEF TimeInv, TickerHoldsMutex
  <2>7. QED
    BY <1>4, <1>6, <2>3, <2>4, <2>5, <2>6 DEF TimeInv
<1>11. FreedInv'
  BY <1>1, <1>3, <1>4, <1>5, FreedKept
<1>12. QED
  BY <1>7, <1>8, <1>9, <1>10, <1>11 DEF TickerInv

\* Any other is deleted, with its parameters if the manager owns them.
LEMMA RunEnds ==
  ASSUME TickerInv, RunTask, current \notin Looping
  PROVE  TickerInv'
<1>1. TypeOK /\ QueuesInv /\ CancelInv /\ IdsInv /\ TimeInv /\ FreedInv
  BY DEF TickerInv
<1>2. PICK t : t = current
  OBVIOUS
<1>3. t \in Task /\ phase[t] = "popped"
  BY <1>2, CalledTask DEF RunTask
<1>4. /\ at = "run" /\ at' = "drain" /\ current' = NoTask
      /\ ran' = ran \cup {t}
      /\ phase' = [phase EXCEPT ![t] = "called"]
      /\ freed' = IF t \in Borrowed THEN freed ELSE [freed EXCEPT ![t] = @ + 1]
      /\ UNCHANGED <<started, ending, currentTaskIx, id, awaiting, passed, kept, age, joined>>
  BY <1>2 DEF RunTask, Deallocate
<1>5. \A u \in Task : phase'[u] = IF u = t THEN "called" ELSE phase[u]
  BY <1>1, <1>4 DEF TypeOK
<1>6. CancelInv' /\ IdsInv' /\ revoked' \subseteq Task /\ cancelledIds' \subseteq Nat
  BY <1>2, <1>3, <1>5, RunTaskCancels
<1>7. FreedInv' /\ freed' \in [Task -> Nat]
  <2>1. Deallocate(t)
    BY <1>4 DEF Deallocate
  <2>2. QED
    BY <1>1, <1>3, <1>5, <2>1, FreedOnce
<1>8. TypeOK'
  BY <1>1, <1>3, <1>4, <1>6, <1>7 DEF TypeOK, Phase
<1>9. QueuesInv'
  BY <1>1, <1>2, <1>3, <1>4, <1>5, NoTaskIsNoTask DEF QueuesInv, TickerHoldsMutex
<1>10. TimeInv'
  <2>1. \A u \in ToSet(kept) \cup ToSet(awaiting) : u \in Task
    BY <1>1 DEF TypeOK, ToSet
  <2>2. QED
    BY <1>1, <1>4, <1>5, <2>1 DEF TimeInv, Missed, TickerHoldsMutex
<1>11. QED
  BY <1>6, <1>7, <1>8, <1>9, <1>10 DEF TickerInv

\* The ticker ends with the task that it calls and those that it had put aside.
LEMMA RunOutOfMemoryStep ==
  ASSUME TickerInv, RunOutOfMemory
  PROVE  TickerInv'
<1>1. TypeOK /\ QueuesInv /\ CancelInv /\ IdsInv /\ TimeInv /\ FreedInv
  BY DEF TickerInv
<1>2. /\ at = "run" /\ at' = "exited" /\ current' = NoTask /\ kept' = <<>>
      /\ UNCHANGED <<started, ending, currentTaskIx, id, passed, awaiting, cancelledIds, revoked,
                     age, joined, freed>>
  BY DEF RunOutOfMemory
<1>3. current \in Task /\ phase[current] = "popped"
  BY <1>2, CalledTask
<1>4. \A u \in Task :
        phase'[u] = IF u \in ToSet(kept) \/ u = current THEN "lost" ELSE phase[u]
  BY DEF RunOutOfMemory
<1>5. \A u \in Task : u \in ToSet(kept) => phase[u] = "queued" /\ u \notin ToSet(awaiting)
  BY <1>1 DEF QueuesInv
<1>6. TypeOK'
  <2>1. phase' \in [Task -> Phase]
    BY <1>1 DEF RunOutOfMemory, TypeOK, Phase
  <2>2. ran' \subseteq Task
    BY <1>1, <1>3 DEF RunOutOfMemory, TypeOK
  <2>3. QED
    BY <1>1, <1>2, <2>1, <2>2 DEF TypeOK
<1>7. QueuesInv'
  <2>1. ToSet(kept)' = {} /\ IsInjective(kept)'
    BY <1>2, EmptyToSet
  <2>2. QED
    BY <1>1, <1>2, <1>3, <1>4, <1>5, <2>1, NoTaskIsNoTask DEF QueuesInv, TickerHoldsMutex
<1>8. CancelInv'
  BY <1>1, <1>2, <1>4, CancelKept DEF Cancellable, TypeOK
<1>9. IdsInv'
  BY <1>1, <1>2, <1>3, <1>4, <1>5, IdsKept
<1>10. TimeInv'
  <2>1. ToSet(kept)' = {}
    BY <1>2, EmptyToSet
  <2>2. QED
    BY <1>1, <1>2, <1>4, <2>1 DEF TimeInv, Missed, TickerHoldsMutex
<1>11. FreedInv'
  BY <1>1, <1>2, <1>3, <1>4, <1>5, FreedKept
<1>12. QED
  BY <1>6, <1>7, <1>8, <1>9, <1>10, <1>11 DEF TickerInv

\* The tasks put aside are the queue of the next tick.
LEMMA EndTickStep ==
  ASSUME TickerInv, EndTick
  PROVE  TickerInv'
<1>1. TypeOK /\ QueuesInv /\ CancelInv /\ IdsInv /\ TimeInv /\ FreedInv
  BY DEF TickerInv
<1>2. /\ at = "drain" /\ at' = "asleep" /\ awaiting = <<>> /\ awaiting' = kept /\ kept' = <<>>
      /\ UNCHANGED <<started, ending, currentTaskIx, id, phase, passed, current, cancelledIds,
                     revoked, age, joined, ran, freed>>
  BY DEF EndTick, history
<1>3. ToSet(awaiting) = {} /\ ToSet(awaiting)' = ToSet(kept) /\ ToSet(kept)' = {}
      /\ IsInjective(kept)' /\ IsInjective(awaiting)'
  BY <1>1, <1>2, EmptyToSet DEF QueuesInv
<1>4. TypeOK'
  BY <1>1, <1>2 DEF TypeOK
<1>5. QueuesInv'
  BY <1>1, <1>2, <1>3 DEF QueuesInv, TickerHoldsMutex
<1>6. CancelInv'
  BY <1>1, <1>2, CancelKept DEF Cancellable
<1>7. IdsInv'
  BY <1>1, <1>2, IdsKept
<1>8. TimeInv'
  BY <1>1, <1>2, <1>3 DEF TimeInv, Missed, TickerHoldsMutex
<1>9. FreedInv'
  BY <1>1, <1>2, FreedKept
<1>10. QED
  BY <1>4, <1>5, <1>6, <1>7, <1>8, <1>9 DEF TickerInv

-----------------------------------------------------------------------------
(* EndSystem.                                                              *)

\* Steps that leave the tasks and the ticker alone.
LEMMA TasksUntouched ==
  ASSUME TickerInv, TypeOK',
         UNCHANGED <<at, currentTaskIx, id, phase, passed, awaiting, kept, current, cancelledIds,
                     revoked, age, joined, ran, freed>>
  PROVE  TickerInv'
<1>1. QueuesInv'
  BY QueuesKept DEF TickerInv, TickerHoldsMutex
<1>2. CancelInv' /\ IdsInv'
  BY DEF TickerInv, CancelInv, CancelledNeverRuns, Cancellable, IdsInv, OnlyCancelledIsDropped
<1>3. TimeInv'
  BY DEF TickerInv, TimeInv, Missed, TickerHoldsMutex
<1>4. FreedInv'
  BY DEF TickerInv, FreedInv
<1>5. QED
  BY <1>1, <1>2, <1>3, <1>4 DEF TickerInv

\* The system is stopped, and the thread waited for, wherever the ticker is.
LEMMA EndingSteps ==
  ASSUME TickerInv, EndSystem \/ JoinTicker
  PROVE  TickerInv'
<1>1. UNCHANGED <<at, currentTaskIx, id, phase, passed, awaiting, kept, current, cancelledIds,
                  revoked, age, joined, ran, freed>>
  BY DEF EndSystem, JoinTicker, queues, history
<1>2. TypeOK'
  BY <1>1 DEF TickerInv, TypeOK, EndSystem, JoinTicker
<1>3. QED
  BY <1>1, <1>2, TasksUntouched

\* The queue is emptied, and what the manager owns deleted.
LEMMA EmptyAwaitingStep ==
  ASSUME TickerInv, EmptyAwaiting
  PROVE  TickerInv'
<1>1. TypeOK /\ QueuesInv /\ CancelInv /\ IdsInv /\ TimeInv /\ FreedInv
  BY DEF TickerInv
<1>2. UNCHANGED <<started, at, currentTaskIx, id, passed, kept, current, cancelledIds,
                  revoked, age, joined, ran>>
  BY DEF EmptyAwaiting, history
<1>3. CASE awaiting = <<>>
  <2>1. ending' = "deleted" /\ UNCHANGED <<phase, awaiting, freed>>
    BY <1>3 DEF EmptyAwaiting
  <2>2. TypeOK'
    BY <1>1, <1>2, <2>1 DEF TypeOK
  <2>3. QueuesInv'
    BY <1>1, <1>2, <2>1, QueuesKept DEF TickerHoldsMutex
  <2>4. CancelInv' /\ IdsInv'
    BY <1>1, <1>2, <2>1
       DEF CancelInv, CancelledNeverRuns, Cancellable, IdsInv, OnlyCancelledIsDropped
  <2>5. TimeInv'
    BY <1>1, <1>2, <2>1 DEF TimeInv, Missed, TickerHoldsMutex
  <2>6. FreedInv'
    BY <1>1, <2>1 DEF FreedInv
  <2>7. QED
    BY <2>2, <2>3, <2>4, <2>5, <2>6 DEF TickerInv
<1>4. CASE awaiting # <<>>
  <2>1. PICK t, rest :
          /\ t = Head(awaiting) /\ rest = Tail(awaiting)
          /\ t \in Task /\ t \in ToSet(awaiting)
          /\ rest \in Seq(Task) /\ IsInjective(rest)
          /\ ToSet(rest) = ToSet(awaiting) \ {t}
    <3>1. awaiting \in Seq(Task) /\ IsInjective(awaiting)
      BY <1>1 DEF TypeOK, QueuesInv
    <3>2. /\ Head(awaiting) \in Task /\ Head(awaiting) \in ToSet(awaiting)
          /\ Tail(awaiting) \in Seq(Task) /\ IsInjective(Tail(awaiting))
          /\ ToSet(Tail(awaiting)) = ToSet(awaiting) \ {Head(awaiting)}
      BY <1>4, <3>1, PopToSet, PopInjective
    <3>3. QED
      BY <3>2
  <2>2. /\ awaiting' = rest
        /\ phase' = [phase EXCEPT ![t] = "ended"]
        /\ freed' = IF t \in Borrowed THEN freed ELSE [freed EXCEPT ![t] = @ + 1]
        /\ UNCHANGED ending
    BY <1>4, <2>1 DEF EmptyAwaiting, Deallocate
  <2>3. /\ \A u \in Task : phase'[u] = IF u = t THEN "ended" ELSE phase[u]
        /\ phase[t] = "queued" /\ t \notin ToSet(kept) /\ t # current
    BY <1>1, <2>1, <2>2 DEF TypeOK, QueuesInv
  <2>4. ToSet(awaiting)' = ToSet(awaiting) \ {t} /\ IsInjective(awaiting)'
    BY <2>1, <2>2
  <2>5. FreedInv' /\ freed' \in [Task -> Nat]
    <3>1. Deallocate(t)
      BY <2>2 DEF Deallocate
    <3>2. QED
      BY <1>1, <2>1, <2>3, <3>1, FreedOnce
  <2>6. TypeOK'
    BY <1>1, <1>2, <2>1, <2>2, <2>5 DEF TypeOK, Phase
  <2>7. QueuesInv'
    BY <1>1, <1>2, <2>1, <2>3, <2>4 DEF QueuesInv, TickerHoldsMutex
  <2>8. CancelInv' /\ IdsInv'
    <3>1. \A u \in revoked : u \in Task
      BY <1>1 DEF TypeOK
    <3>2. QED
      BY <1>1, <1>2, <2>3, <3>1
         DEF CancelInv, CancelledNeverRuns, Cancellable, IdsInv, OnlyCancelledIsDropped
  <2>9. TimeInv'
    <3>1. \A u \in ToSet(kept) \cup ToSet(awaiting) : u \in Task
      BY <1>1 DEF TypeOK, ToSet
    <3>2. QED
      BY <1>1, <1>2, <2>3, <2>4, <3>1 DEF TimeInv, Missed, TickerHoldsMutex
  <2>10. QED
    BY <2>5, <2>6, <2>7, <2>8, <2>9 DEF TickerInv
<1>5. QED
  BY <1>3, <1>4

-----------------------------------------------------------------------------
(* The theorems.                                                           *)

\* At the start no task has come.
LEMMA InitTicker == Init => TickerInv
<1>1. SUFFICES ASSUME Init PROVE TickerInv
  OBVIOUS
<1>2. TypeOK
  BY <1>1 DEF Init, TypeOK, Phase
<1>3. ToSet(awaiting) = {} /\ ToSet(kept) = {} /\ IsInjective(awaiting) /\ IsInjective(kept)
  BY <1>1, EmptyToSet DEF Init
<1>4. QueuesInv
  BY <1>1, <1>3, NoTaskIsNoTask DEF Init, QueuesInv, TickerHoldsMutex
<1>5. CancelInv
  BY <1>1 DEF Init, CancelInv, CancelledNeverRuns
<1>6. IdsInv
  BY <1>1 DEF Init, IdsInv, OnlyCancelledIsDropped
<1>7. TimeInv
  BY <1>1, <1>3 DEF Init, TimeInv
<1>8. FreedInv
  BY <1>1 DEF Init, FreedInv
<1>9. QED
  BY <1>2, <1>4, <1>5, <1>6, <1>7, <1>8 DEF TickerInv

\* Every step keeps the invariant.
LEMMA NextTicker == TickerInv /\ [Next]_vars => TickerInv'
<1>1. SUFFICES ASSUME TickerInv, [Next]_vars PROVE TickerInv'
  OBVIOUS
<1>2. ASSUME NEW t \in Task, NumberTask(t) \/ PushTask(t) \/ CancelScheduledAsyncTask(t)
      PROVE  TickerInv'
  BY <1>1, <1>2, NumberTaskStep, PushTaskStep, CancelStep
<1>3. CASE StartTicker
  BY <1>1, <1>3, StartTickerStep
<1>4. CASE Wake
  BY <1>1, <1>4, WakeStep
<1>5. CASE PopTask
  BY <1>1, <1>5, PopTaskStep
<1>6. CASE CheckTask
  BY <1>1, <1>6, CheckTaskStep
<1>7. CASE RunTask
  BY <1>1, <1>7, RunLoops, RunEnds
<1>8. CASE RunOutOfMemory
  BY <1>1, <1>8, RunOutOfMemoryStep
<1>9. CASE EndTick
  BY <1>1, <1>9, EndTickStep
<1>10. CASE EndSystem \/ JoinTicker
  BY <1>1, <1>10, EndingSteps
<1>11. CASE EmptyAwaiting
  BY <1>1, <1>11, EmptyAwaitingStep
<1>12. CASE UNCHANGED vars
  <2>1. TypeOK'
    BY <1>1, <1>12 DEF vars, TickerInv, TypeOK
  <2>2. QED
    BY <1>1, <1>12, <2>1, TasksUntouched DEF vars
<1>13. QED
  BY <1>1, <1>2, <1>3, <1>4, <1>5, <1>6, <1>7, <1>8, <1>9, <1>10, <1>11, <1>12 DEF Next

\* The invariant, of every behaviour.
THEOREM TickerInvariance == Spec => []TickerInv
BY InitTicker, NextTicker, PTL DEF Spec

\* TypeOK, for any tasks and waiting times.
THEOREM TickerTypes == Spec => []TypeOK
<1>1. TickerInv => TypeOK
  BY DEF TickerInv
<1>2. QED
  BY <1>1, TickerInvariance, PTL

\* A function is never called once the cancellation of its task has returned, whichever of
\* the ticker's steps the cancellation met.
THEOREM CancelledIsNotCalled == Spec => []CancelledNeverRuns
<1>1. TickerInv => CancelledNeverRuns
  BY DEF TickerInv, CancelInv
<1>2. QED
  BY <1>1, TickerInvariance, PTL

\* Until ids are shared, the ticker throws away only what somebody cancelled.
THEOREM DroppedWasCancelled == Spec => []OnlyCancelledIsDropped
<1>1. TickerInv => OnlyCancelledIsDropped
  BY DEF TickerInv, IdsInv, OnlyCancelledIsDropped
<1>2. QED
  BY <1>1, TickerInvariance, PTL

\* The ticks that a task has waited when its function is called are those of its WaitFor,
\* less one if it was pushed during a tick.
THEOREM CalledOnTime == Spec => []FiresOnTime
<1>1. TickerInv => FiresOnTime
  <2>1. SUFFICES ASSUME TickerInv, at = "run"
                 PROVE  age[current] = Wait[current] - Missed(current)
    BY DEF FiresOnTime, Missed
  <2>2. QED
    BY <2>1 DEF TickerInv, TimeInv
<1>2. QED
  BY <1>1, TickerInvariance, PTL

\* Parameters are deleted once at most, never those that the submitter keeps, and never
\* before the last call of the function.
THEOREM DeallocatedOnce == Spec => []DeallocatedByItsOwner
<1>1. TickerInv => DeallocatedByItsOwner
  BY DEF TickerInv, FreedInv, DeallocatedByItsOwner
<1>2. QED
  BY <1>1, TickerInvariance, PTL
=============================================================================
