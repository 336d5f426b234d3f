---------------------------- MODULE TaskPoolProofs ----------------------------
(***************************************************************************)
(* Theorems about TaskPool, for any number of workers, producers and       *)
(* tasks: a worker is never handed out twice, and no task is lost or       *)
(* doubled.                                                                *)
(***************************************************************************)
EXTENDS TaskPool, TLAPS

-----------------------------------------------------------------------------
(* Queues and the set of their elements.                                   *)

\* A pushed element is in the queue, beside those that were there.
LEMMA PushToSet ==
  ASSUME NEW S, NEW s \in Seq(S), NEW x \in S
  PROVE  /\ Append(s, x) \in Seq(S)
         /\ ToSet(Append(s, x)) = ToSet(s) \cup {x}
<1>1. /\ Append(s, x) \in Seq(S)
      /\ Len(Append(s, x)) = Len(s) + 1
      /\ \A i \in 1..Len(s) : Append(s, x)[i] = s[i]
      /\ Append(s, x)[Len(s) + 1] = x
  OBVIOUS
<1>2. DOMAIN s = 1..Len(s) /\ DOMAIN Append(s, x) = 1..(Len(s) + 1) /\ Len(s) \in Nat
  OBVIOUS
<1>3. ASSUME NEW y \in ToSet(Append(s, x)) PROVE y \in ToSet(s) \cup {x}
  BY <1>1, <1>2 DEF ToSet
<1>4. ToSet(s) \subseteq ToSet(Append(s, x))
  BY <1>1, <1>2 DEF ToSet
<1>5. x \in ToSet(Append(s, x))
  BY <1>1, <1>2 DEF ToSet
<1>6. QED
  BY <1>1, <1>3, <1>4, <1>5

\* A queue without repetitions has none after a new element was pushed.
LEMMA PushInjective ==
  ASSUME NEW S, NEW s \in Seq(S), NEW x \in S, x \notin ToSet(s), IsInjective(s)
  PROVE  IsInjective(Append(s, x))
<1>1. /\ \A i \in 1..Len(s) : Append(s, x)[i] = s[i]
      /\ Append(s, x)[Len(s) + 1] = x
  OBVIOUS
<1>2. DOMAIN s = 1..Len(s) /\ DOMAIN Append(s, x) = 1..(Len(s) + 1) /\ Len(s) \in Nat
  OBVIOUS
<1>3. \A i \in 1..Len(s) : s[i] # x
  BY <1>2 DEF ToSet
<1>4. QED
  BY <1>1, <1>2, <1>3 DEF IsInjective

\* What is popped was in the queue, and the rest stays.
LEMMA PopToSet ==
  ASSUME NEW S, NEW s \in Seq(S), s # <<>>
  PROVE  /\ Head(s) \in S
         /\ Head(s) \in ToSet(s)
         /\ Tail(s) \in Seq(S)
         /\ ToSet(s) = {Head(s)} \cup ToSet(Tail(s))
<1>1. /\ Len(s) \in Nat \ {0} /\ DOMAIN s = 1..Len(s)
      /\ Head(s) = s[1] /\ Head(s) \in S /\ Tail(s) \in Seq(S)
      /\ Len(Tail(s)) = Len(s) - 1
      /\ \A i \in 1..(Len(s) - 1) : Tail(s)[i] = s[i + 1]
  OBVIOUS
<1>2. DOMAIN Tail(s) = 1..(Len(s) - 1)
  BY <1>1
<1>3. Head(s) \in ToSet(s)
  BY <1>1 DEF ToSet
<1>4. ToSet(Tail(s)) \subseteq ToSet(s)
  <2>1. SUFFICES ASSUME NEW i \in 1..(Len(s) - 1) PROVE Tail(s)[i] \in ToSet(s)
    BY <1>2 DEF ToSet
  <2>2. Tail(s)[i] = s[i + 1] /\ i + 1 \in 1..Len(s)
    BY <1>1
  <2>3. QED
    BY <1>1, <2>2 DEF ToSet
<1>5. ToSet(s) \subseteq {Head(s)} \cup ToSet(Tail(s))
  <2>1. SUFFICES ASSUME NEW i \in 1..Len(s), i # 1 PROVE s[i] \in ToSet(Tail(s))
    BY <1>1 DEF ToSet
  <2>2. PICK j \in 1..(Len(s) - 1) : i = j + 1
    <3>1. i - 1 \in 1..(Len(s) - 1) /\ i = (i - 1) + 1
      BY <1>1, <2>1
    <3>2. QED
      BY <3>1
  <2>3. Tail(s)[j] = s[i]
    BY <1>1, <2>2
  <2>4. QED
    BY <1>2, <2>3 DEF ToSet
<1>6. QED
  BY <1>1, <1>3, <1>4, <1>5

\* What is popped from a queue without repetitions is not in it any more.
LEMMA PopInjective ==
  ASSUME NEW S, NEW s \in Seq(S), s # <<>>, IsInjective(s)
  PROVE  /\ IsInjective(Tail(s))
         /\ Head(s) \notin ToSet(Tail(s))
         /\ ToSet(Tail(s)) = ToSet(s) \ {Head(s)}
<1>1. /\ Len(s) \in Nat \ {0} /\ DOMAIN s = 1..Len(s)
      /\ Head(s) = s[1] /\ Len(Tail(s)) = Len(s) - 1
      /\ \A i \in 1..(Len(s) - 1) : Tail(s)[i] = s[i + 1]
      /\ Tail(s) \in Seq(S)
  OBVIOUS
<1>2. DOMAIN Tail(s) = 1..(Len(s) - 1)
  BY <1>1
<1>3. ASSUME NEW i \in 1..(Len(s) - 1), NEW j \in 1..(Len(s) - 1), Tail(s)[i] = Tail(s)[j]
      PROVE  i = j
  BY <1>1, <1>3 DEF IsInjective
<1>4. \A i \in 1..(Len(s) - 1) : Tail(s)[i] # Head(s)
  BY <1>1 DEF IsInjective
<1>5. IsInjective(Tail(s)) /\ Head(s) \notin ToSet(Tail(s))
  BY <1>2, <1>3, <1>4 DEF IsInjective, ToSet
<1>6. QED
  BY <1>5, PopToSet

\* What a queue of elements of S holds is in S.
LEMMA ElementsOf ==
  ASSUME NEW S, NEW s \in Seq(S)
  PROVE  ToSet(s) \subseteq S
BY DEF ToSet

\* The empty queue.
LEMMA EmptyToSet == ToSet(<<>>) = {} /\ IsInjective(<<>>)
BY DEF ToSet, IsInjective

-----------------------------------------------------------------------------

\* What the slots of f hold, and that no two hold the same.
Held(f) == {f[x] : x \in DOMAIN f} \ {NoTask}
Distinct(f) == \A x, y \in DOMAIN f : f[x] = f[y] /\ f[x] # NoTask => x = y

CallTask == [p \in Producer |-> call[p].task]

\* A set divided among five that do not meet.
Partition(S, A, B, C, D, E) ==
  /\ S = A \cup B \cup C \cup D \cup E
  /\ A \cap (B \cup C \cup D \cup E) = {}
  /\ B \cap (C \cup D \cup E) = {}
  /\ C \cap (D \cup E) = {}
  /\ D \cap E = {}

\* Each submitted task is with one producer, once in the queue, with one worker, called
\* once, or dropped.
TasksInv ==
  /\ Distinct(CallTask)
  /\ Distinct(data)
  /\ IsInjective(awaiting)
  /\ IsInjective(executed)
  /\ Partition(submitted, Held(CallTask), ToSet(awaiting), Held(data), ToSet(executed), dropped)

\* DataReady and the place of the worker's thread tell whether it has a task.
WorkerInv(w) ==
  /\ data[w] # NoTask => ready[w] /\ den[w] \notin {"wait", "fetch", "release", "deleted"}
  /\ den[w] \in {"process", "lost"} => data[w] # NoTask
  /\ ready[w] /\ data[w] = NoTask => den[w] \in {"fetch", "deleted"}
  /\ den[w] = "fetch" => ready[w]

WorkersInv == \A w \in Worker : WorkerInv(w)

\* A producer that popped a worker has one.
CallsInv == \A p \in Producer : call[p].step = "assign" => call[p].worker \in Worker

PoolInv == TypeOK /\ CallsInv /\ WorkersInv /\ WorkerHandedOutOnce /\ TasksInv

-----------------------------------------------------------------------------
(* Lemmas about slots.                                                     *)

\* A task put in an empty slot is held, beside the others.
LEMMA FillSlot ==
  ASSUME NEW X, NEW f \in [X -> Task \cup {NoTask}], NEW x \in X, NEW t \in Task,
         f[x] = NoTask, t \notin Held(f), Distinct(f)
  PROVE  /\ Held([f EXCEPT ![x] = t]) = Held(f) \cup {t}
         /\ Distinct([f EXCEPT ![x] = t])
<1> DEFINE g == [f EXCEPT ![x] = t]
<1>1. DOMAIN f = X /\ DOMAIN g = X /\ g[x] = t /\ \A y \in X \ {x} : g[y] = f[y]
  OBVIOUS
<1>2. t # NoTask
  BY NoTaskIsNoTask
<1>3. Held(g) = Held(f) \cup {t}
  <2> HIDE DEF g
  <2>1. ASSUME NEW u \in Held(g) PROVE u \in Held(f) \cup {t}
    BY <1>1 DEF Held
  <2>2. ASSUME NEW u \in Held(f) PROVE u \in Held(g)
    <3>1. PICK y \in X : u = f[y] /\ y # x
      BY <1>1 DEF Held
    <3>2. QED
      BY <1>1, <3>1 DEF Held
  <2>3. t \in Held(g)
    BY <1>1, <1>2 DEF Held
  <2>4. QED
    BY <2>1, <2>2, <2>3
<1>4. Distinct(g)
  <2> HIDE DEF g
  <2>1. \A y \in X : f[y] # t
    BY <1>1, <1>2 DEF Held
  <2>2. QED
    BY <1>1, <2>1 DEF Distinct
<1>5. QED
  BY <1>3, <1>4

\* A task taken from its slot is not held any more.
LEMMA EmptySlot ==
  ASSUME NEW X, NEW f \in [X -> Task \cup {NoTask}], NEW x \in X, Distinct(f)
  PROVE  /\ Held([f EXCEPT ![x] = NoTask]) = Held(f) \ {f[x]}
         /\ Distinct([f EXCEPT ![x] = NoTask])
<1> DEFINE g == [f EXCEPT ![x] = NoTask]
<1>1. DOMAIN f = X /\ DOMAIN g = X /\ g[x] = NoTask /\ \A y \in X \ {x} : g[y] = f[y]
  OBVIOUS
<1>2. Held(g) = Held(f) \ {f[x]}
  <2> HIDE DEF g
  <2>1. ASSUME NEW u \in Held(g) PROVE u \in Held(f) /\ u # f[x]
    <3>1. PICK y \in X : u = g[y] /\ y # x
      BY <1>1 DEF Held
    <3>2. QED
      BY <1>1, <3>1 DEF Held, Distinct
  <2>2. ASSUME NEW u \in Held(f), u # f[x] PROVE u \in Held(g)
    <3>1. PICK y \in X : u = f[y] /\ y # x
      BY <1>1, <2>2 DEF Held
    <3>2. QED
      BY <1>1, <3>1 DEF Held
  <2>3. QED
    BY <2>1, <2>2
<1>3. Distinct(g)
  <2> HIDE DEF g
  <2>1. QED
    BY <1>1 DEF Distinct
<1>4. QED
  BY <1>2, <1>3

\* What a slot holds is held.
LEMMA SlotIsHeld ==
  ASSUME NEW X, NEW f \in [X -> Task \cup {NoTask}], NEW x \in X, f[x] # NoTask
  PROVE  f[x] \in Held(f) /\ f[x] \in Task
BY DEF Held

-----------------------------------------------------------------------------
(* Lemmas about calls of NewAsyncTask.                                     *)

\* A producer in NewAsyncTask has a task; in the step "assign" it has a worker as well,
\* once PopFreeWorker has been given one.
LEMMA CallFields ==
  ASSUME TypeOK, NEW p \in Producer
  PROVE  /\ CallTask \in [Producer -> Task \cup {NoTask}]
         /\ CallTask[p] = call[p].task
         /\ call[p] = Idle <=> call[p].step = "idle"
         /\ call[p] # Idle =>
              /\ call[p] \in [step : {"pop", "assign", "queue", "undefined"}, task : Task,
                              worker : Worker \cup {NoWorker}]
              /\ CallTask[p] # NoTask
<1>1. \A q \in Producer : call[q] \in Call
  BY DEF TypeOK
<1>2. \A q \in Producer : call[q].task \in Task \cup {NoTask}
  BY <1>1 DEF Call, Idle
<1>3. CallTask \in [Producer -> Task \cup {NoTask}] /\ CallTask[p] = call[p].task
  BY <1>2 DEF CallTask
<1>4. call[p] = Idle <=> call[p].step = "idle"
  BY <1>1 DEF Call, Idle
<1>5. ASSUME call[p] # Idle
      PROVE  call[p] \in [step : {"pop", "assign", "queue", "undefined"}, task : Task,
                          worker : Worker \cup {NoWorker}]
  BY <1>1, <1>5 DEF Call
<1>6. QED
  BY <1>3, <1>4, <1>5, NoTaskIsNoTask

\* A producer that goes from one step of NewAsyncTask to another keeps its task.
LEMMA CallGoesOn ==
  ASSUME TypeOK, NEW p \in Producer, call[p] # Idle,
         NEW c \in [step : {"pop", "assign", "queue", "undefined"}, task : {call[p].task},
                    worker : Worker \cup {NoWorker}],
         call' = [call EXCEPT ![p] = c]
  PROVE  CallTask' = CallTask /\ call' \in [Producer -> Call]
<1>1. call[p].task \in Task
  BY CallFields
<1>2. c \in Call
  BY <1>1 DEF Call
<1>3. call' \in [Producer -> Call]
  BY <1>2 DEF TypeOK
<1>4. \A q \in Producer : call'[q].task = call[q].task
  BY DEF TypeOK
<1>5. QED
  BY <1>3, <1>4 DEF CallTask

\* A producer that returns, or begins, changes its own slot.
LEMMA CallChanges ==
  ASSUME TypeOK, NEW p \in Producer, NEW c \in Call, call' = [call EXCEPT ![p] = c]
  PROVE  CallTask' = [CallTask EXCEPT ![p] = c.task] /\ call' \in [Producer -> Call]
<1>1. call' \in [Producer -> Call]
  BY DEF TypeOK
<1>2. \A q \in Producer : call'[q] = IF q = p THEN c ELSE call[q]
  BY DEF TypeOK
<1>3. \A q \in Producer : CallTask'[q] = IF q = p THEN c.task ELSE CallTask[q]
  BY <1>2 DEF CallTask
<1>4. QED
  BY <1>1, <1>3 DEF CallTask

\* When who is engaged and where the workers are stays, so does what is known of them.
LEMMA WorkersUnchanged ==
  ASSUME PoolInv, UNCHANGED <<free, threads>>, \A w \in Worker : Engaged(w)' \subseteq Engaged(w)
  PROVE  WorkersInv' /\ WorkerHandedOutOnce'
<1>1. WorkersInv'
  BY DEF PoolInv, WorkersInv, WorkerInv, threads
<1>2. ToSet(free)' = ToSet(free) /\ ToSet(free) \subseteq Worker
  BY DEF PoolInv, TypeOK, ToSet
<1>3. WorkerHandedOutOnce'
  BY <1>2 DEF PoolInv, WorkerHandedOutOnce, threads
<1>4. QED
  BY <1>1, <1>3

\* When no task moves, the division of the submitted tasks stays.
LEMMA TasksUnchanged ==
  ASSUME TasksInv, UNCHANGED <<submitted, CallTask, awaiting, data, executed, dropped>>
  PROVE  TasksInv'
BY DEF TasksInv, Distinct, IsInjective, Held, ToSet, Partition

-----------------------------------------------------------------------------
(* Steps of a producer.                                                    *)

\* The new task is held by its producer, and by nobody else.
LEMMA NewAsyncTaskStep ==
  ASSUME PoolInv, NEW p \in Producer, NEW t \in Task, NewAsyncTask(p, t)
  PROVE  PoolInv'
<1> DEFINE c == [step |-> "pop", task |-> t, worker |-> NoWorker]
<1>1. c \in Call /\ c.task = t /\ c.step = "pop" /\ call' = [call EXCEPT ![p] = c]
  BY DEF NewAsyncTask, Call
<1>2. TypeOK /\ call[p] = Idle /\ call[p].step = "idle" /\ call[p].task = NoTask
  BY DEF PoolInv, NewAsyncTask, Idle
<1> HIDE DEF c
<1>3. CallTask' = [CallTask EXCEPT ![p] = t] /\ call' \in [Producer -> Call]
  BY <1>1, <1>2, CallChanges
<1>4. TypeOK'
  BY <1>2, <1>3 DEF NewAsyncTask, TypeOK, queues, threads
<1>5. \A w \in Worker : Engaged(w)' \subseteq Engaged(w)
  BY <1>1, <1>2 DEF Engaged, TypeOK
<1>6. WorkersInv' /\ WorkerHandedOutOnce'
  BY <1>5, WorkersUnchanged DEF NewAsyncTask, queues
<1>7. TasksInv'
  <2>1. CallTask \in [Producer -> Task \cup {NoTask}] /\ CallTask[p] = NoTask
    BY <1>2, CallFields
  <2>2. t \notin submitted /\ submitted' = submitted \cup {t}
        /\ UNCHANGED <<awaiting, data, executed, dropped>>
    BY DEF NewAsyncTask, queues, threads
  <2>3. t \notin Held(CallTask)
    BY <2>2 DEF PoolInv, TasksInv, Partition
  <2>4. Held(CallTask)' = Held(CallTask) \cup {t} /\ Distinct(CallTask)'
    <3>1. Distinct(CallTask)
      BY DEF PoolInv, TasksInv
    <3>2. /\ Held([CallTask EXCEPT ![p] = t]) = Held(CallTask) \cup {t}
          /\ Distinct([CallTask EXCEPT ![p] = t])
      BY <2>1, <2>3, <3>1, FillSlot
    <3>3. QED
      BY <1>3, <3>2
  <2>5. Partition(submitted, Held(CallTask), ToSet(awaiting), Held(data), ToSet(executed), dropped)'
    <3>1. Partition(submitted, Held(CallTask), ToSet(awaiting), Held(data), ToSet(executed), dropped)
      BY DEF PoolInv, TasksInv
    <3>2. ToSet(awaiting)' = ToSet(awaiting) /\ Held(data)' = Held(data) /\ ToSet(executed)' = ToSet(executed)
      BY <2>2 DEF ToSet, Held
    <3>3. QED
      BY <2>2, <2>4, <3>1, <3>2 DEF Partition
  <2>6. QED
    BY <2>2, <2>4, <2>5 DEF PoolInv, TasksInv, Distinct, IsInjective
<1>8. CallsInv'
  BY <1>1, <1>2 DEF PoolInv, CallsInv, TypeOK
<1>9. QED
  BY <1>4, <1>6, <1>7, <1>8 DEF PoolInv

\* A producer that uses what was deleted keeps its task, and no worker any more.
LEMMA UndefinedStep ==
  ASSUME PoolInv, NEW p \in Producer, call[p] # Idle, Undefined(p)
  PROVE  PoolInv'
<1> DEFINE c == [call[p] EXCEPT !.step = "undefined"]
<1>1. TypeOK /\ call' = [call EXCEPT ![p] = c]
  BY DEF PoolInv, Undefined
<1>2. /\ c \in [step : {"pop", "assign", "queue", "undefined"}, task : {call[p].task},
                worker : Worker \cup {NoWorker}]
      /\ c.step = "undefined"
  BY <1>1, CallFields
<1> HIDE DEF c
<1>3. CallTask' = CallTask /\ call' \in [Producer -> Call]
  BY <1>1, <1>2, CallGoesOn
<1>4. TypeOK' /\ CallsInv'
  BY <1>1, <1>2, <1>3 DEF PoolInv, Undefined, TypeOK, CallsInv, queues, threads, history
<1>5. \A w \in Worker : Engaged(w)' \subseteq Engaged(w)
  BY <1>1, <1>2 DEF Engaged, TypeOK
<1>6. WorkersInv' /\ WorkerHandedOutOnce'
  BY <1>5, WorkersUnchanged DEF Undefined, queues
<1>7. TasksInv'
  BY <1>3, TasksUnchanged DEF PoolInv, Undefined, queues, threads, history
<1>8. QED
  BY <1>4, <1>6, <1>7 DEF PoolInv

\* A popped worker leaves FreeWorkers, where it was once, for one producer.
LEMMA PopFreeWorkerStep ==
  ASSUME PoolInv, NEW p \in Producer, PopFreeWorker(p)
  PROVE  PoolInv'
<1>1. TypeOK /\ call[p].step = "pop" /\ call[p] # Idle
  BY DEF PoolInv, PopFreeWorker, Idle
<1>2. call[p] \in [step : {"pop", "assign", "queue", "undefined"}, task : Task,
                   worker : Worker \cup {NoWorker}]
  BY <1>1, CallFields
<1>3. CASE /\ free # <<>>
           /\ free' = Tail(free)
           /\ call' = [call EXCEPT ![p].step = "assign", ![p].worker = Head(free)]
           /\ UNCHANGED <<started, awaiting, threads, ending, history>>
  <2>1. PICK h, rest :
           /\ h = Head(free) /\ rest = Tail(free)
           /\ h \in Worker /\ h \in ToSet(free)
           /\ rest \in Seq(Worker) /\ IsInjective(rest)
           /\ ToSet(rest) = ToSet(free) \ {h}
    <3>1. free \in Seq(Worker) /\ IsInjective(free)
      BY DEF PoolInv, TypeOK, WorkerHandedOutOnce
    <3>2. /\ Head(free) \in Worker /\ Head(free) \in ToSet(free)
          /\ Tail(free) \in Seq(Worker) /\ IsInjective(Tail(free))
          /\ ToSet(Tail(free)) = ToSet(free) \ {Head(free)}
      BY <1>3, <3>1, PopToSet, PopInjective
    <3>3. QED
      BY <3>2
  <2> DEFINE c == [call[p] EXCEPT !.step = "assign", !.worker = h]
  <2>2. call' = [call EXCEPT ![p] = c] /\ free' = rest
    BY <1>3, <2>1
  <2>3. /\ c \in [step : {"pop", "assign", "queue", "undefined"}, task : {call[p].task},
                  worker : Worker \cup {NoWorker}]
        /\ c.step = "assign" /\ c.worker = h
    BY <1>2, <2>1
  <2> HIDE DEF c
  <2>4. CallTask' = CallTask /\ call' \in [Producer -> Call]
    BY <1>1, <2>2, <2>3, CallGoesOn
  <2>5. TypeOK' /\ CallsInv'
    BY <1>1, <1>3, <2>1, <2>2, <2>3, <2>4 DEF PoolInv, TypeOK, CallsInv, threads, history
  <2>6. Engaged(h)' = {p} /\ \A w \in Worker \ {h} : Engaged(w)' = Engaged(w)
    <3>1. Engaged(h) = {}
      BY <2>1 DEF PoolInv, WorkerHandedOutOnce
    <3>2. \A q \in Producer : call'[q] = IF q = p THEN c ELSE call[q]
      BY <1>1, <2>2 DEF TypeOK
    <3>3. QED
      BY <1>1, <2>3, <3>1, <3>2 DEF Engaged
  <2>7. WorkerHandedOutOnce'
    <3>1. IsInjective(free)' /\ ToSet(free)' = ToSet(free) \ {h}
      BY <2>1, <2>2
    <3>2. \A w \in ToSet(free)' : Engaged(w)' = {}
      <4>1. \A w \in ToSet(free) : w \in Worker /\ Engaged(w) = {}
        BY <1>1 DEF PoolInv, TypeOK, WorkerHandedOutOnce, ToSet
      <4>2. QED
        BY <2>6, <3>1, <4>1
    <3>3. \A w \in Worker : \A q, r \in Engaged(w)' : q = r
      <4>1. \A w \in Worker : \A q, r \in Engaged(w) : q = r
        BY DEF PoolInv, WorkerHandedOutOnce
      <4>2. QED
        BY <2>6, <4>1
    <3>4. \A w \in Worker : w \in ToSet(free)' \/ Engaged(w)' # {} =>
                              w \in ToSet(free) \/ Engaged(w) # {}
      BY <2>1, <2>6, <3>1
    <3>5. QED
      BY <1>3, <3>1, <3>2, <3>3, <3>4 DEF PoolInv, WorkerHandedOutOnce, threads
  <2>8. WorkersInv'
    BY <1>3 DEF PoolInv, WorkersInv, WorkerInv, threads
  <2>9. TasksInv'
    BY <1>3, <2>4, TasksUnchanged DEF PoolInv, threads, history
  <2>10. QED
    BY <2>5, <2>7, <2>8, <2>9 DEF PoolInv
<1>4. CASE /\ call' = [call EXCEPT ![p].step = "queue"]
           /\ UNCHANGED <<started, queues, threads, ending, history>>
  <2> DEFINE c == [call[p] EXCEPT !.step = "queue"]
  <2>1. call' = [call EXCEPT ![p] = c]
    BY <1>4
  <2>2. /\ c \in [step : {"pop", "assign", "queue", "undefined"}, task : {call[p].task},
                  worker : Worker \cup {NoWorker}]
        /\ c.step = "queue"
    BY <1>2
  <2> HIDE DEF c
  <2>3. CallTask' = CallTask /\ call' \in [Producer -> Call]
    BY <1>1, <2>1, <2>2, CallGoesOn
  <2>4. TypeOK' /\ CallsInv'
    BY <1>1, <1>4, <2>1, <2>2, <2>3 DEF PoolInv, TypeOK, CallsInv, queues, threads, history
  <2>5. \A w \in Worker : Engaged(w)' \subseteq Engaged(w)
    BY <1>1, <2>1, <2>2 DEF Engaged, TypeOK
  <2>6. WorkersInv' /\ WorkerHandedOutOnce'
    BY <1>4, <2>5, WorkersUnchanged DEF queues
  <2>7. TasksInv'
    BY <1>4, <2>3, TasksUnchanged DEF PoolInv, queues, threads, history
  <2>8. QED
    BY <2>4, <2>6, <2>7 DEF PoolInv
<1>5. CASE Undefined(p)
  BY <1>1, <1>5, UndefinedStep
<1>6. QED
  BY <1>3, <1>4, <1>5 DEF PopFreeWorker

\* A producer that returns from NewAsyncTask gives its task, and its worker, away.
LEMMA CallReturns ==
  ASSUME PoolInv, NEW p \in Producer, call[p] # Idle, call' = [call EXCEPT ![p] = Idle]
  PROVE  /\ call' \in [Producer -> Call] /\ CallsInv'
         /\ call[p].task \in Task /\ call[p].task \in Held(CallTask)
         /\ Held(CallTask)' = Held(CallTask) \ {call[p].task}
         /\ Distinct(CallTask)'
         /\ \A w \in Worker : Engaged(w)' = Engaged(w) \ {p}
<1>1. Idle \in Call /\ Idle.task = NoTask /\ Idle.step = "idle"
  BY DEF Call, Idle
<1>2. /\ CallTask \in [Producer -> Task \cup {NoTask}]
      /\ CallTask[p] = call[p].task /\ CallTask[p] # NoTask
  BY CallFields DEF PoolInv
<1>3. CallTask' = [CallTask EXCEPT ![p] = NoTask] /\ call' \in [Producer -> Call]
  BY <1>1, CallChanges DEF PoolInv
<1>4. CallTask[p] \in Task /\ CallTask[p] \in Held(CallTask)
  BY <1>2, SlotIsHeld
<1>5. Distinct(CallTask)
  BY DEF PoolInv, TasksInv
<1>6. /\ Held([CallTask EXCEPT ![p] = NoTask]) = Held(CallTask) \ {CallTask[p]}
      /\ Distinct([CallTask EXCEPT ![p] = NoTask])
  BY <1>2, <1>5, EmptySlot
<1>7. Held(CallTask)' = Held(CallTask) \ {call[p].task} /\ Distinct(CallTask)'
  BY <1>2, <1>3, <1>6
<1>8. \A q \in Producer : call'[q] = IF q = p THEN Idle ELSE call[q]
  BY DEF PoolInv, TypeOK
<1>9. CallsInv' /\ \A w \in Worker : Engaged(w)' = Engaged(w) \ {p}
  BY <1>1, <1>8 DEF PoolInv, CallsInv, Engaged
<1>10. QED
  BY <1>2, <1>3, <1>4, <1>7, <1>9

\* A worker that gets a task while it has none is the only one that has it.
LEMMA DataFilled ==
  ASSUME PoolInv, NEW w \in Worker, NEW t \in Task, data[w] = NoTask, t \notin Held(data),
         data' = [data EXCEPT ![w] = t]
  PROVE  Held(data)' = Held(data) \cup {t} /\ Distinct(data)'
<1>1. data \in [Worker -> Task \cup {NoTask}] /\ Distinct(data)
  BY DEF PoolInv, TypeOK, TasksInv
<1>2. /\ Held([data EXCEPT ![w] = t]) = Held(data) \cup {t}
      /\ Distinct([data EXCEPT ![w] = t])
  BY <1>1, FillSlot
<1>3. QED
  BY <1>2

\* A worker without its task.
LEMMA DataEmptied ==
  ASSUME PoolInv, NEW w \in Worker, data' = [data EXCEPT ![w] = NoTask]
  PROVE  Held(data)' = Held(data) \ {data[w]} /\ Distinct(data)'
<1>1. data \in [Worker -> Task \cup {NoTask}] /\ Distinct(data)
  BY DEF PoolInv, TypeOK, TasksInv
<1>2. /\ Held([data EXCEPT ![w] = NoTask]) = Held(data) \ {data[w]}
      /\ Distinct([data EXCEPT ![w] = NoTask])
  BY <1>1, EmptySlot
<1>3. QED
  BY <1>2

\* SetData finds the popped worker without a task: the task goes from its producer to it.
LEMMA AssignStep ==
  ASSUME PoolInv, NEW p \in Producer, Assign(p)
  PROVE  PoolInv'
<1>1. TypeOK /\ call[p].step = "assign" /\ call[p] # Idle
  BY DEF PoolInv, Assign, Idle
<1>2. CASE Undefined(p)
  BY <1>1, <1>2, UndefinedStep
<1>3. CASE ~Undefined(p)
  <2>1. PICK w, t : w = call[p].worker /\ t = call[p].task
    OBVIOUS
  <2>2. /\ w \in Worker /\ den[w] # "deleted"
        /\ data' = [data EXCEPT ![w] = t]
        /\ ready' = [ready EXCEPT ![w] = TRUE]
        /\ den' = [den EXCEPT ![w] = IF @ = "wait" THEN "check" ELSE @]
        /\ call' = [call EXCEPT ![p] = Idle]
        /\ UNCHANGED <<started, queues, ending, history>>
    BY <1>1, <1>3, <2>1 DEF Assign, Signal, PoolInv, CallsInv
  <2>3. /\ call' \in [Producer -> Call] /\ CallsInv'
        /\ t \in Task /\ t \in Held(CallTask)
        /\ Held(CallTask)' = Held(CallTask) \ {t}
        /\ Distinct(CallTask)'
        /\ \A v \in Worker : Engaged(v)' = Engaged(v) \ {p}
    BY <1>1, <2>1, <2>2, CallReturns
  <2>4. Engaged(w) = {p}
    <3>1. p \in Engaged(w)
      BY <1>1, <2>1 DEF Engaged
    <3>2. QED
      BY <2>2, <3>1 DEF PoolInv, WorkerHandedOutOnce
  <2>5. data[w] = NoTask /\ ~ready[w] /\ den[w] \notin {"process", "fetch", "release"}
        /\ w \notin ToSet(free)
    BY <2>2, <2>4 DEF PoolInv, WorkerHandedOutOnce
  <2>6. TypeOK'
    BY <1>1, <2>2, <2>3 DEF TypeOK, Den, queues, history
  <2>7. WorkersInv'
    <3>1. ASSUME NEW v \in Worker PROVE WorkerInv(v)'
      <4>1. WorkerInv(v)
        BY DEF PoolInv, WorkersInv
      <4>2. CASE v = w
        BY <1>1, <2>2, <2>3, <2>5, <4>1, <4>2, NoTaskIsNoTask DEF WorkerInv, TypeOK, Den
      <4>3. CASE v # w
        BY <1>1, <2>2, <4>1, <4>3 DEF WorkerInv, TypeOK
      <4>4. QED
        BY <4>2, <4>3
    <3>2. QED
      BY <3>1 DEF WorkersInv
  <2>8. WorkerHandedOutOnce'
    <3>1. UNCHANGED <<free>>
      BY <2>2 DEF queues
    <3>2. \A v \in Worker : Engaged(v)' = IF v = w THEN {} ELSE Engaged(v)
      <4>1. \A v \in Worker : v # w => p \notin Engaged(v)
        BY <2>1 DEF Engaged
      <4>2. QED
        BY <2>3, <2>4, <4>1
    <3>3. \A v \in Worker : v # w => data'[v] = data[v] /\ ready'[v] = ready[v] /\
             (den'[v] = den[v])
      BY <1>1, <2>2 DEF TypeOK
    <3>4. ToSet(free)' = ToSet(free) /\ ToSet(free) \subseteq Worker
      BY <1>1, <3>1 DEF TypeOK, ToSet
    <3>5. QED
      BY <2>5, <3>1, <3>2, <3>3, <3>4 DEF PoolInv, WorkerHandedOutOnce
  <2>9. TasksInv'
    <3>1. UNCHANGED <<awaiting, submitted, executed, dropped>>
      BY <2>2 DEF queues, history
    <3>2. t \notin Held(data)
      BY <2>3 DEF PoolInv, TasksInv, Partition
    <3>3. Held(data)' = Held(data) \cup {t} /\ Distinct(data)'
      BY <2>2, <2>3, <2>5, <3>2, DataFilled
    <3>4. Partition(submitted, Held(CallTask), ToSet(awaiting), Held(data), ToSet(executed), dropped)'
      BY <2>3, <3>1, <3>2, <3>3 DEF PoolInv, TasksInv, Partition
    <3>5. QED
      BY <2>3, <3>1, <3>3, <3>4 DEF PoolInv, TasksInv
  <2>10. QED
    BY <2>3, <2>6, <2>7, <2>8, <2>9 DEF PoolInv
<1>4. QED
  BY <1>2, <1>3

\* A task for which there was no worker goes to the end of AwaitingTasks.
LEMMA EnqueueStep ==
  ASSUME PoolInv, NEW p \in Producer, Enqueue(p)
  PROVE  PoolInv'
<1>1. TypeOK /\ call[p].step = "queue" /\ call[p] # Idle
  BY DEF PoolInv, Enqueue, Idle
<1>2. CASE Undefined(p)
  BY <1>1, <1>2, UndefinedStep
<1>3. CASE ~Undefined(p)
  <2>1. PICK t : t = call[p].task
    OBVIOUS
  <2>2. /\ awaiting' = Append(awaiting, t)
        /\ call' = [call EXCEPT ![p] = Idle]
        /\ UNCHANGED <<started, free, threads, ending, history>>
    BY <1>3, <2>1 DEF Enqueue
  <2>3. /\ call' \in [Producer -> Call] /\ CallsInv'
        /\ t \in Task /\ t \in Held(CallTask)
        /\ Held(CallTask)' = Held(CallTask) \ {t}
        /\ Distinct(CallTask)'
        /\ \A v \in Worker : Engaged(v)' = Engaged(v) \ {p}
    BY <1>1, <2>1, <2>2, CallReturns
  <2>4. t \notin ToSet(awaiting)
    BY <2>3 DEF PoolInv, TasksInv, Partition
  <2>5. PICK queue :
          /\ queue = Append(awaiting, t)
          /\ queue \in Seq(Task)
          /\ ToSet(queue) = ToSet(awaiting) \cup {t}
          /\ IsInjective(queue)
    <3>1. awaiting \in Seq(Task) /\ IsInjective(awaiting)
      BY DEF PoolInv, TypeOK, TasksInv
    <3>2. QED
      BY <2>3, <2>4, <3>1, PushToSet, PushInjective
  <2>6. awaiting' = queue
    BY <2>2, <2>5
  <2>7. TypeOK'
    BY <1>1, <2>2, <2>3, <2>5, <2>6 DEF TypeOK, threads, history
  <2>8. WorkersInv' /\ WorkerHandedOutOnce'
    BY <2>2, <2>3, WorkersUnchanged
  <2>9. TasksInv'
    <3>1. UNCHANGED <<data, submitted, executed, dropped>>
      BY <2>2 DEF threads, history
    <3>2. Partition(submitted, Held(CallTask), ToSet(awaiting), Held(data), ToSet(executed), dropped)'
      BY <2>3, <2>5, <2>6, <3>1 DEF PoolInv, TasksInv, Partition
    <3>3. QED
      BY <2>3, <2>5, <2>6, <3>1, <3>2 DEF PoolInv, TasksInv
  <2>10. QED
    BY <2>3, <2>7, <2>8, <2>9 DEF PoolInv
<1>4. QED
  BY <1>2, <1>3

-----------------------------------------------------------------------------
(* Steps of a worker.                                                      *)

\* A step of one worker's thread to a place that fits what the worker has.
LEMMA WorkerMoves ==
  ASSUME PoolInv, TypeOK', NEW w \in Worker, NEW place \in Den,
         den' = [den EXCEPT ![w] = place],
         UNCHANGED <<queues, data, ready, call, history>>,
         place \in {"process", "lost"} => data[w] # NoTask,
         place \in {"wait", "fetch", "release"} => data[w] = NoTask,
         place # "deleted", place # "fetch", place # "release",
         den[w] # "fetch", den[w] # "deleted"
  PROVE  PoolInv'
<1>1. TypeOK
  BY DEF PoolInv
<1>2. \A v \in Worker : den'[v] = IF v = w THEN place ELSE den[v]
  BY <1>1 DEF TypeOK
<1>3. WorkersInv'
  <2>1. ASSUME NEW v \in Worker PROVE WorkerInv(v)'
    <3>1. WorkerInv(v)
      BY DEF PoolInv, WorkersInv
    <3>2. QED
      BY <1>2, <3>1 DEF WorkerInv
  <2>2. QED
    BY <2>1 DEF WorkersInv
<1>4. CallsInv' /\ \A v \in Worker : Engaged(v)' = Engaged(v)
  BY DEF PoolInv, CallsInv, Engaged
<1>5. CallTask' = CallTask
  BY DEF CallTask
<1>6. WorkerHandedOutOnce'
  <2>1. UNCHANGED <<free, data, ready>>
    BY DEF queues
  <2>2. ToSet(free)' = ToSet(free) /\ ToSet(free) \subseteq Worker
    BY <1>1, <2>1 DEF TypeOK, ToSet
  <2>3. w \in ToSet(free) \/ Engaged(w) # {} => place \notin {"process", "fetch", "release"}
    BY DEF PoolInv, WorkerHandedOutOnce
  <2>4. QED
    BY <1>2, <1>4, <2>1, <2>2, <2>3 DEF PoolInv, WorkerHandedOutOnce
<1>7. TasksInv'
  BY <1>5, TasksUnchanged DEF PoolInv, queues, history
<1>8. QED
  BY <1>1, <1>3, <1>4, <1>6, <1>7 DEF PoolInv

\* A worker's thread begins without a look at what the worker has.
LEMMA BeginStep ==
  ASSUME PoolInv, NEW w \in Worker, Begin(w)
  PROVE  PoolInv'
<1>1. TypeOK'
  BY DEF Begin, PoolInv, TypeOK, Den, queues, history
<1>2. QED
  BY <1>1, WorkerMoves DEF Begin, Den

\* A worker goes to process what it has, and waits only when it has nothing.
LEMMA CheckStep ==
  ASSUME PoolInv, NEW w \in Worker, Check(w)
  PROVE  PoolInv'
<1>1. WorkerInv(w) /\ den[w] = "check" /\ ready[w] \in BOOLEAN
  BY DEF PoolInv, WorkersInv, Check, TypeOK
<1>2. PICK place : place = IF ~started THEN "exited" ELSE IF ready[w] THEN "process" ELSE "wait"
  OBVIOUS
<1>3. /\ place \in {"exited", "process", "wait"}
      /\ place = "process" => data[w] # NoTask
      /\ place = "wait" => data[w] = NoTask
  BY <1>1, <1>2 DEF WorkerInv
<1>4. den' = [den EXCEPT ![w] = place]
  BY <1>2 DEF Check
<1>5. TypeOK'
  BY <1>3, <1>4 DEF Check, PoolInv, TypeOK, Den, queues, history
<1>6. QED
  BY <1>1, <1>3, <1>4, <1>5, WorkerMoves DEF Check, Den

\* A lost worker keeps its task.
LEMMA RunOutOfMemoryStep ==
  ASSUME PoolInv, NEW w \in Worker, RunOutOfMemory(w)
  PROVE  PoolInv'
<1>1. data[w] # NoTask
  BY BorrowedIsTask, NoTaskIsNoTask DEF RunOutOfMemory
<1>2. TypeOK'
  BY DEF RunOutOfMemory, PoolInv, TypeOK, Den, queues, history
<1>3. QED
  BY <1>1, <1>2, WorkerMoves DEF RunOutOfMemory, Den

\* What is known of the workers, when only worker w changes and it is not handed out.
LEMMA OneWorkerChanges ==
  ASSUME PoolInv, NEW w \in Worker, UNCHANGED <<free, call>>,
         \A v \in Worker : v # w => data'[v] = data[v] /\ ready'[v] = ready[v] /\ den'[v] = den[v],
         WorkerInv(w)',
         \/ w \notin ToSet(free) /\ Engaged(w) = {}
         \/ data'[w] = NoTask /\ ready'[w] = ready[w] /\ den'[w] \notin {"process", "fetch", "release"}
  PROVE  WorkersInv' /\ WorkerHandedOutOnce' /\ CallsInv' /\ CallTask' = CallTask
<1>1. WorkersInv'
  BY DEF PoolInv, WorkersInv, WorkerInv
<1>2. \A v \in Worker : Engaged(v)' = Engaged(v)
  BY DEF Engaged
<1>3. ToSet(free)' = ToSet(free) /\ ToSet(free) \subseteq Worker
  BY DEF PoolInv, TypeOK, ToSet
<1>4. WorkerHandedOutOnce'
  BY <1>2, <1>3 DEF PoolInv, WorkerHandedOutOnce
<1>5. QED
  BY <1>1, <1>4 DEF PoolInv, CallsInv, CallTask

\* A task goes from an awaiting queue (B) to a worker (C), from there to the called (D) or
\* the dropped (E), or all that await are dropped.
LEMMA PartMoves ==
  ASSUME NEW S, NEW A, NEW B, NEW C, NEW D, NEW E, NEW t, Partition(S, A, B, C, D, E)
  PROVE  /\ t \in B => Partition(S, A, B \ {t}, C \cup {t}, D, E)
         /\ t \in C => Partition(S, A, B, C \ {t}, D \cup {t}, E)
         /\ t \in C => Partition(S, A, B, C \ {t}, D, E \cup {t})
         /\ Partition(S, A, {}, C, D, E \cup B)
BY DEF Partition

\* The task that was called leaves its worker.
LEMMA ExecuteStep ==
  ASSUME PoolInv, NEW w \in Worker, Execute(w)
  PROVE  PoolInv'
<1>1. PICK t : t = data[w]
  OBVIOUS
<1>2. TypeOK /\ WorkerInv(w) /\ den[w] = "process"
  BY DEF PoolInv, WorkersInv, Execute
<1>3. t # NoTask /\ t \in Task /\ ready[w]
  BY <1>1, <1>2 DEF WorkerInv, TypeOK
<1>4. /\ data' = [data EXCEPT ![w] = NoTask]
      /\ den' = [den EXCEPT ![w] = "fetch"]
      /\ UNCHANGED <<started, free, awaiting, ready, call, ending, submitted, dropped>>
  BY DEF Execute, queues
<1>5. t \in Held(data)
  BY <1>1, <1>2, <1>3, SlotIsHeld DEF TypeOK
<1>6. t \notin ToSet(executed)
  BY <1>5 DEF PoolInv, TasksInv, Partition
<1>7. PICK calls :
        /\ calls = Append(executed, t)
        /\ calls \in Seq(Task)
        /\ ToSet(calls) = ToSet(executed) \cup {t}
        /\ IsInjective(calls)
  <2>1. executed \in Seq(Task) /\ IsInjective(executed)
    BY DEF PoolInv, TypeOK, TasksInv
  <2>2. QED
    BY <1>3, <1>6, <2>1, PushToSet, PushInjective
<1>8. executed' = calls
  BY <1>1, <1>7 DEF Execute
<1>9. TypeOK'
  BY <1>1, <1>2, <1>3, <1>4, <1>7, <1>8 DEF TypeOK, Den, Execute
<1>10. w \notin ToSet(free) /\ Engaged(w) = {}
  BY <1>2 DEF PoolInv, WorkerHandedOutOnce
<1>11. WorkersInv' /\ WorkerHandedOutOnce' /\ CallsInv' /\ CallTask' = CallTask
  <2>1. WorkerInv(w)'
    BY <1>2, <1>3, <1>4 DEF WorkerInv, TypeOK
  <2>2. \A v \in Worker : v # w => data'[v] = data[v] /\ ready'[v] = ready[v] /\ den'[v] = den[v]
    BY <1>2, <1>4 DEF TypeOK
  <2>3. QED
    BY <1>4, <1>10, <2>1, <2>2, OneWorkerChanges
<1>12. TasksInv'
  <2>1. Held(data)' = Held(data) \ {t} /\ Distinct(data)'
    BY <1>1, <1>4, DataEmptied
  <2>2. Partition(submitted, Held(CallTask), ToSet(awaiting), Held(data) \ {t},
                  ToSet(executed) \cup {t}, dropped)
    BY <1>5, PartMoves DEF PoolInv, TasksInv
  <2>3. QED
    BY <1>4, <1>7, <1>8, <1>11, <2>1, <2>2 DEF PoolInv, TasksInv
<1>13. QED
  BY <1>9, <1>11, <1>12 DEF PoolInv

\* A worker that fetches takes the first awaiting task, which nobody else has.
LEMMA FetchStep ==
  ASSUME PoolInv, NEW w \in Worker, Fetch(w)
  PROVE  PoolInv'
<1>1. TypeOK /\ WorkerInv(w) /\ den[w] = "fetch" /\ data[w] = NoTask /\ ready[w]
  BY DEF PoolInv, WorkersInv, Fetch, WorkerInv
<1>2. w \notin ToSet(free) /\ Engaged(w) = {}
  BY <1>1 DEF PoolInv, WorkerHandedOutOnce
<1>3. CASE /\ awaiting # <<>>
           /\ data' = [data EXCEPT ![w] = Head(awaiting)]
           /\ awaiting' = Tail(awaiting)
           /\ den' = [den EXCEPT ![w] = "process"]
           /\ UNCHANGED <<started, free, ready, call, ending, history>>
  <2>1. PICK t, rest :
          /\ t = Head(awaiting) /\ rest = Tail(awaiting)
          /\ t \in Task /\ t \in ToSet(awaiting)
          /\ rest \in Seq(Task) /\ IsInjective(rest)
          /\ ToSet(rest) = ToSet(awaiting) \ {t}
    <3>1. awaiting \in Seq(Task) /\ IsInjective(awaiting)
      BY DEF PoolInv, TypeOK, TasksInv
    <3>2. /\ Head(awaiting) \in Task /\ Head(awaiting) \in ToSet(awaiting)
          /\ Tail(awaiting) \in Seq(Task) /\ IsInjective(Tail(awaiting))
          /\ ToSet(Tail(awaiting)) = ToSet(awaiting) \ {Head(awaiting)}
      BY <1>3, <3>1, PopToSet, PopInjective
    <3>3. QED
      BY <3>2
  <2>2. data' = [data EXCEPT ![w] = t] /\ awaiting' = rest
    BY <1>3, <2>1
  <2>3. t # NoTask /\ t \notin Held(data)
    BY <2>1, NoTaskIsNoTask DEF PoolInv, TasksInv, Partition
  <2>4. TypeOK'
    BY <1>1, <1>3, <2>1, <2>2 DEF TypeOK, Den, history
  <2>5. WorkersInv' /\ WorkerHandedOutOnce' /\ CallsInv' /\ CallTask' = CallTask
    <3>1. WorkerInv(w)'
      BY <1>1, <1>3, <2>2, <2>3 DEF WorkerInv, TypeOK
    <3>2. \A v \in Worker : v # w => data'[v] = data[v] /\ ready'[v] = ready[v] /\ den'[v] = den[v]
      BY <1>1, <1>3, <2>2 DEF TypeOK
    <3>3. QED
      BY <1>2, <1>3, <3>1, <3>2, OneWorkerChanges
  <2>6. TasksInv'
    <3>1. Held(data)' = Held(data) \cup {t} /\ Distinct(data)'
      BY <1>1, <2>1, <2>2, <2>3, DataFilled
    <3>2. UNCHANGED <<submitted, executed, dropped>>
      BY <1>3 DEF history
    <3>3. Partition(submitted, Held(CallTask), ToSet(awaiting) \ {t}, Held(data) \cup {t},
                    ToSet(executed), dropped)
      BY <2>1, PartMoves DEF PoolInv, TasksInv
    <3>4. QED
      BY <2>1, <2>2, <2>5, <3>1, <3>2, <3>3 DEF PoolInv, TasksInv
  <2>7. QED
    BY <2>4, <2>5, <2>6 DEF PoolInv
<1>4. CASE /\ ready' = [ready EXCEPT ![w] = FALSE]
           /\ den' = [den EXCEPT ![w] = "release"]
           /\ UNCHANGED <<data, awaiting, started, free, call, ending, history>>
  <2>1. TypeOK'
    BY <1>1, <1>4 DEF TypeOK, Den, history
  <2>2. WorkersInv' /\ WorkerHandedOutOnce' /\ CallsInv' /\ CallTask' = CallTask
    <3>1. WorkerInv(w)'
      BY <1>1, <1>4 DEF WorkerInv, TypeOK
    <3>2. \A v \in Worker : v # w => data'[v] = data[v] /\ ready'[v] = ready[v] /\ den'[v] = den[v]
      BY <1>1, <1>4 DEF TypeOK
    <3>3. QED
      BY <1>2, <1>4, <3>1, <3>2, OneWorkerChanges
  <2>3. TasksInv'
    BY <1>4, <2>2, TasksUnchanged DEF PoolInv, history
  <2>4. QED
    BY <2>1, <2>2, <2>3 DEF PoolInv
<1>5. QED
  BY <1>3, <1>4 DEF Fetch

\* A worker that releases itself is in FreeWorkers once: nobody else put it there.
LEMMA ReleaseStep ==
  ASSUME PoolInv, NEW w \in Worker, Release(w)
  PROVE  PoolInv'
<1>1. TypeOK /\ WorkerInv(w) /\ den[w] = "release"
  BY DEF PoolInv, WorkersInv, Release
<1>2. data[w] = NoTask /\ ~ready[w]
  BY <1>1 DEF WorkerInv, TypeOK
<1>3. w \notin ToSet(free) /\ Engaged(w) = {}
  BY <1>1 DEF PoolInv, WorkerHandedOutOnce
<1>4. /\ den' = [den EXCEPT ![w] = "check"]
      /\ UNCHANGED <<started, awaiting, data, ready, call, ending, history>>
  BY DEF Release
<1>5. PICK queue :
        /\ queue = IF started THEN Append(free, w) ELSE free
        /\ queue \in Seq(Worker)
        /\ ToSet(queue) \subseteq ToSet(free) \cup {w}
        /\ IsInjective(queue)
  <2>1. free \in Seq(Worker) /\ IsInjective(free)
    BY DEF PoolInv, TypeOK, WorkerHandedOutOnce
  <2>2. QED
    BY <1>3, <2>1, PushToSet, PushInjective
<1>6. free' = queue
  BY <1>5 DEF Release
<1>7. \A v \in Worker : /\ v # w => den'[v] = den[v]
                        /\ Engaged(v)' = Engaged(v)
                        /\ den'[w] = "check"
  BY <1>1, <1>4 DEF TypeOK, Engaged
<1>8. TypeOK'
  BY <1>1, <1>4, <1>5, <1>6 DEF TypeOK, Den, history
<1>9. WorkersInv'
  <2>1. ASSUME NEW v \in Worker PROVE WorkerInv(v)'
    <3>1. WorkerInv(v)
      BY DEF PoolInv, WorkersInv
    <3>2. QED
      BY <1>2, <1>4, <1>7, <3>1 DEF WorkerInv
  <2>2. QED
    BY <2>1 DEF WorkersInv
<1>10. WorkerHandedOutOnce'
  <2>1. IsInjective(free)' /\ ToSet(free)' \subseteq ToSet(free) \cup {w}
        /\ ToSet(free) \subseteq Worker
    BY <1>1, <1>5, <1>6 DEF TypeOK, ToSet
  <2>2. \A v \in ToSet(free)' : Engaged(v)' = {}
    <3>1. \A v \in ToSet(free) \cup {w} : v \in Worker /\ Engaged(v) = {}
      BY <1>3, <2>1 DEF PoolInv, WorkerHandedOutOnce
    <3>2. QED
      BY <1>7, <2>1, <3>1
  <2>3. \A v \in Worker : \A p, q \in Engaged(v)' : p = q
    <3>1. \A v \in Worker : \A p, q \in Engaged(v) : p = q
      BY DEF PoolInv, WorkerHandedOutOnce
    <3>2. QED
      BY <1>7, <3>1
  <2>4. ASSUME NEW v \in Worker, v \in ToSet(free)' \/ Engaged(v)' # {}
        PROVE  data'[v] = NoTask /\ ~ready'[v] /\ den'[v] \notin {"process", "fetch", "release"}
    <3>1. CASE v = w
      BY <1>2, <1>4, <1>7, <3>1
    <3>2. CASE v # w
      <4>1. v \in ToSet(free) \/ Engaged(v) # {}
        BY <1>7, <2>1, <2>4, <3>2
      <4>2. QED
        BY <1>4, <1>7, <3>2, <4>1 DEF PoolInv, WorkerHandedOutOnce
    <3>3. QED
      BY <3>1, <3>2
  <2>5. QED
    BY <2>1, <2>2, <2>3, <2>4 DEF WorkerHandedOutOnce
<1>11. TasksInv' /\ CallsInv'
  <2>1. CallTask' = CallTask
    BY <1>4 DEF CallTask
  <2>2. QED
    BY <1>4, <2>1, TasksUnchanged DEF PoolInv, CallsInv, history
<1>12. QED
  BY <1>8, <1>9, <1>10, <1>11 DEF PoolInv

-----------------------------------------------------------------------------
(* Steps of EndSystem.                                                     *)

\* Steps that move neither a task nor a worker.
LEMMA NothingMoves ==
  ASSUME PoolInv, TypeOK', UNCHANGED <<queues, threads, call, history>>
  PROVE  PoolInv'
<1>1. CallTask' = CallTask /\ CallsInv' /\ \A w \in Worker : Engaged(w)' = Engaged(w)
  BY DEF PoolInv, CallTask, CallsInv, Engaged
<1>2. WorkersInv' /\ WorkerHandedOutOnce'
  BY <1>1, WorkersUnchanged DEF queues
<1>3. TasksInv'
  BY <1>1, TasksUnchanged DEF PoolInv, queues, threads, history
<1>4. QED
  BY <1>1, <1>2, <1>3 DEF PoolInv

\* bSystemStarted is reset, whatever producers and workers are doing.
LEMMA EndSystemStep ==
  ASSUME PoolInv, EndSystem
  PROVE  PoolInv'
<1>1. TypeOK'
  BY DEF PoolInv, EndSystem, TypeOK, queues, threads, history
<1>2. QED
  BY <1>1, NothingMoves DEF EndSystem

\* The signal of EndWorker sends a worker that waits back to look.
LEMMA SignalWorkerStep ==
  ASSUME PoolInv, SignalWorker
  PROVE  PoolInv'
<1>1. PICK w : w = ending.worker
  OBVIOUS
<1>2. TypeOK /\ w \in Worker /\ WorkerInv(w)
  BY <1>1 DEF PoolInv, TypeOK, WorkersInv
<1>3. TypeOK'
  BY <1>1, <1>2 DEF SignalWorker, Signal, TypeOK, Den, queues, history
<1>4. CASE den[w] = "wait" /\ ~ready[w]
  <2>1. den' = [den EXCEPT ![w] = "check"]
    BY <1>1, <1>4 DEF SignalWorker, Signal
  <2>2. QED
    BY <1>2, <1>3, <1>4, <2>1, WorkerMoves DEF SignalWorker, Den
<1>5. CASE den[w] # "wait" \/ ready[w]
  <2>1. den' = den
    BY <1>1, <1>2, <1>5 DEF SignalWorker, Signal, TypeOK
  <2>2. QED
    BY <1>3, <2>1, NothingMoves DEF SignalWorker, threads
<1>6. QED
  BY <1>2, <1>4, <1>5 DEF TypeOK

\* The task of a worker that is deleted is dropped.
LEMMA JoinWorkerStep ==
  ASSUME PoolInv, JoinWorker
  PROVE  PoolInv'
<1>1. PICK w, t : w = ending.worker /\ t = data[w]
  OBVIOUS
<1>2. TypeOK /\ w \in Worker /\ WorkerInv(w)
  BY <1>1 DEF PoolInv, TypeOK, WorkersInv
<1>3. /\ den[w] \in {"created", "exited", "lost"}
      /\ den' = [den EXCEPT ![w] = "deleted"]
      /\ data' = [data EXCEPT ![w] = NoTask]
      /\ dropped' = dropped \cup ({t} \ {NoTask})
      /\ UNCHANGED <<started, free, awaiting, ready, call, submitted, executed, deallocated>>
  BY <1>1 DEF JoinWorker, queues
<1>4. ending' \in [step : {"no", "signal", "join", "empty", "delete", "done"}, worker : Worker]
  <2>1. w \in 1..WorkerThreadCount
    BY <1>2 DEF Worker
  <2>2. w < WorkerThreadCount => w + 1 \in Worker
    BY <2>1, WorkerThreadCountIsPositive DEF Worker
  <2>3. QED
    BY <1>1, <1>2, <2>2 DEF JoinWorker, TypeOK
<1>5. t \in Task \cup {NoTask}
  BY <1>1, <1>2 DEF TypeOK
<1>6. TypeOK'
  BY <1>2, <1>3, <1>4, <1>5 DEF TypeOK, Den
<1>7. WorkersInv' /\ WorkerHandedOutOnce' /\ CallsInv' /\ CallTask' = CallTask
  <2>1. WorkerInv(w)' /\ data'[w] = NoTask /\ ready'[w] = ready[w] /\ den'[w] = "deleted"
    BY <1>2, <1>3 DEF WorkerInv, TypeOK
  <2>2. \A v \in Worker : v # w => data'[v] = data[v] /\ ready'[v] = ready[v] /\ den'[v] = den[v]
    BY <1>2, <1>3 DEF TypeOK
  <2>3. QED
    BY <1>2, <1>3, <2>1, <2>2, OneWorkerChanges
<1>8. TasksInv'
  <2>1. Held(data)' = Held(data) \ {t} /\ Distinct(data)'
    BY <1>1, <1>2, <1>3, DataEmptied
  <2>2. CASE t = NoTask
    <3>1. Held(data)' = Held(data) /\ dropped' = dropped
      BY <1>3, <2>1, <2>2 DEF Held
    <3>2. QED
      BY <1>3, <1>7, <2>1, <3>1 DEF PoolInv, TasksInv
  <2>3. CASE t # NoTask
    <3>1. t \in Held(data) /\ dropped' = dropped \cup {t}
      BY <1>1, <1>2, <1>3, <2>3, SlotIsHeld DEF TypeOK
    <3>2. Partition(submitted, Held(CallTask), ToSet(awaiting), Held(data) \ {t},
                    ToSet(executed), dropped \cup {t})
      BY <3>1, PartMoves DEF PoolInv, TasksInv
    <3>3. QED
      BY <1>3, <1>7, <2>1, <3>1, <3>2 DEF PoolInv, TasksInv
  <2>4. QED
    BY <2>2, <2>3
<1>9. QED
  BY <1>6, <1>7, <1>8 DEF PoolInv

\* All tasks that still await are dropped, with their parameters or without.
LEMMA EmptyAwaitingStep ==
  ASSUME PoolInv, EmptyAwaiting \/ DeleteManager
  PROVE  PoolInv'
<1>1. /\ awaiting' = <<>> /\ dropped' = dropped \cup ToSet(awaiting)
      /\ UNCHANGED <<started, free, threads, call, submitted, executed>>
  BY DEF EmptyAwaiting, DeleteManager
<1>2. TypeOK'
  <2>1. awaiting \in Seq(Task)
    BY DEF PoolInv, TypeOK
  <2>2. ToSet(awaiting) \subseteq Task
    BY <2>1, ElementsOf
  <2>3. TypeOK /\ dropped' \subseteq Task
    BY <1>1, <2>2 DEF PoolInv, TypeOK
  <2>4. ending' \in [step : {"no", "signal", "join", "empty", "delete", "done"}, worker : Worker]
    BY <2>3 DEF TypeOK, EmptyAwaiting, DeleteManager
  <2>5. deallocated' \subseteq Task
    BY <2>2, <2>3 DEF TypeOK, EmptyAwaiting, DeleteManager
  <2>6. QED
    BY <1>1, <2>3, <2>4, <2>5 DEF TypeOK, threads
<1>3. CallTask' = CallTask /\ CallsInv' /\ \A w \in Worker : Engaged(w)' = Engaged(w)
  BY <1>1 DEF PoolInv, CallTask, CallsInv, Engaged
<1>4. WorkersInv' /\ WorkerHandedOutOnce'
  BY <1>1, <1>3, WorkersUnchanged
<1>5. TasksInv'
  <2>1. Partition(submitted, Held(CallTask), {}, Held(data), ToSet(executed),
                  dropped \cup ToSet(awaiting))
    BY PartMoves DEF PoolInv, TasksInv
  <2>2. ToSet(awaiting)' = {} /\ IsInjective(awaiting)'
    BY <1>1, EmptyToSet
  <2>3. QED
    BY <1>1, <1>3, <2>1, <2>2 DEF PoolInv, TasksInv, threads
<1>6. QED
  BY <1>2, <1>3, <1>4, <1>5 DEF PoolInv

-----------------------------------------------------------------------------
(* The theorems.                                                           *)

\* At the start every worker is free, and no task is anywhere.
LEMMA InitPool == Init => PoolInv
<1>1. SUFFICES ASSUME Init PROVE PoolInv
  OBVIOUS
<1>2. TypeOK
  <2>1. WorkerThreadCount \in Nat /\ 1 \in Worker
    BY WorkerThreadCountIsPositive DEF Worker
  <2>2. [i \in 1..WorkerThreadCount |-> i] \in Seq(Worker)
    BY <2>1 DEF Worker
  <2>3. QED
    BY <1>1, <2>1, <2>2 DEF Init, TypeOK, Den, Call
<1>3. \A p \in Producer : call[p] = Idle
  BY <1>1 DEF Init
<1>4. CallsInv /\ \A w \in Worker : Engaged(w) = {}
  BY <1>3 DEF CallsInv, Engaged, Idle
<1>5. WorkersInv
  BY <1>1 DEF Init, WorkersInv, WorkerInv
<1>6. WorkerHandedOutOnce
  <2>1. IsInjective(free) /\ ToSet(free) \subseteq Worker
    BY <1>1 DEF Init, IsInjective, ToSet, Worker
  <2>2. QED
    BY <1>1, <1>4, <2>1 DEF Init, WorkerHandedOutOnce
<1>7. TasksInv
  <2>1. Held(CallTask) = {} /\ Distinct(CallTask)
    BY <1>3 DEF Held, Distinct, CallTask, Idle
  <2>2. Held(data) = {} /\ Distinct(data)
    BY <1>1 DEF Init, Held, Distinct
  <2>3. ToSet(awaiting) = {} /\ ToSet(executed) = {} /\ IsInjective(awaiting) /\ IsInjective(executed)
    BY <1>1, EmptyToSet DEF Init
  <2>4. QED
    BY <1>1, <2>1, <2>2, <2>3 DEF Init, TasksInv, Partition
<1>8. QED
  BY <1>2, <1>4, <1>5, <1>6, <1>7 DEF PoolInv

\* Every step keeps the invariant.
LEMMA NextPool == PoolInv /\ [Next]_vars => PoolInv'
<1>1. SUFFICES ASSUME PoolInv, [Next]_vars PROVE PoolInv'
  OBVIOUS
<1>2. ASSUME NEW p \in Producer, NEW t \in Task, NewAsyncTask(p, t) PROVE PoolInv'
  BY <1>1, <1>2, NewAsyncTaskStep
<1>3. ASSUME NEW p \in Producer, ProducerStep(p) PROVE PoolInv'
  BY <1>1, <1>3, PopFreeWorkerStep, AssignStep, EnqueueStep DEF ProducerStep
<1>4. ASSUME NEW w \in Worker, WorkerStep(w) PROVE PoolInv'
  BY <1>1, <1>4, BeginStep, CheckStep, ExecuteStep, RunOutOfMemoryStep, FetchStep, ReleaseStep
     DEF WorkerStep
<1>5. CASE EndSystem
  BY <1>1, <1>5, EndSystemStep
<1>6. CASE EndingStep
  BY <1>1, <1>6, SignalWorkerStep, JoinWorkerStep, EmptyAwaitingStep DEF EndingStep
<1>7. CASE UNCHANGED vars
  <2>1. TypeOK'
    BY <1>1, <1>7 DEF PoolInv, TypeOK, vars
  <2>2. QED
    BY <1>1, <1>7, <2>1, NothingMoves DEF vars, queues, threads, history
<1>8. QED
  BY <1>1, <1>2, <1>3, <1>4, <1>5, <1>6, <1>7 DEF Next

\* The invariant, of every behaviour.
THEOREM PoolInvariance == Spec => []PoolInv
BY InitPool, NextPool, PTL DEF Spec

\* TypeOK, for any number of workers, producers and tasks.
THEOREM TaskPoolTypes == Spec => []TypeOK
<1>1. PoolInv => TypeOK
  BY DEF PoolInv
<1>2. QED
  BY <1>1, PoolInvariance, PTL

\* SetData never overwrites a task: FreeWorkers and the producers that popped from it never
\* hold one worker twice, nor one that is busy, although no lock covers both a worker's
\* release and its next hand-out.
THEOREM HandedOutOnce == Spec => []WorkerHandedOutOnce
<1>1. PoolInv => WorkerHandedOutOnce
  BY DEF PoolInv
<1>2. QED
  BY <1>1, PoolInvariance, PTL

\* The division of the submitted tasks, told place by place.
LEMMA TasksInOnePlace == PoolInv => NeitherLostNorDoubled
<1>1. SUFFICES ASSUME PoolInv PROVE NeitherLostNorDoubled
  OBVIOUS
<1>2. \A p \in Producer : CallTask[p] = call[p].task
  BY DEF CallTask
<1>3. /\ \A t \in Task : t \in Held(CallTask) <=> \E p \in Producer : call[p].task = t
      /\ \A t \in Task : t \in Held(data) <=> \E w \in Worker : data[w] = t
      /\ \A t : t \in ToSet(awaiting) <=> \E i \in DOMAIN awaiting : awaiting[i] = t
      /\ \A t : t \in ToSet(executed) <=> \E i \in DOMAIN executed : executed[i] = t
  <2>1. DOMAIN data = Worker /\ DOMAIN CallTask = Producer
    BY <1>1 DEF PoolInv, TypeOK, CallTask
  <2>2. QED
    BY <1>2, <2>1, NoTaskIsNoTask DEF Held, ToSet
<1>4. \A t \in Task :
        /\ \A p, q \in Producer : call[p].task = t /\ call[q].task = t => p = q
        /\ \A v, w \in Worker : data[v] = t /\ data[w] = t => v = w
        /\ \A i, j \in DOMAIN awaiting : awaiting[i] = t /\ awaiting[j] = t => i = j
        /\ \A i, j \in DOMAIN executed : executed[i] = t /\ executed[j] = t => i = j
  <2>1. DOMAIN data = Worker /\ DOMAIN CallTask = Producer
    BY <1>1 DEF PoolInv, TypeOK, CallTask
  <2>2. QED
    BY <1>1, <1>2, <2>1, NoTaskIsNoTask DEF PoolInv, TasksInv, Distinct, IsInjective
<1>5. Partition(submitted, Held(CallTask), ToSet(awaiting), Held(data), ToSet(executed), dropped)
      /\ submitted \subseteq Task
  BY <1>1 DEF PoolInv, TasksInv, TypeOK
<1>6. ASSUME NEW t \in Task PROVE t \in submitted <=> Places(t) # {}
  <2>1. t \in submitted <=>
          \/ \E p \in Producer : call[p].task = t
          \/ \E i \in DOMAIN awaiting : awaiting[i] = t
          \/ \E w \in Worker : data[w] = t
          \/ \E i \in DOMAIN executed : executed[i] = t
          \/ t \in dropped
    <3>1. t \in submitted <=>
            t \in Held(CallTask) \cup ToSet(awaiting) \cup Held(data) \cup ToSet(executed) \cup dropped
      BY <1>5 DEF Partition
    <3>2. QED
      BY <1>3, <3>1
  <2>2. ASSUME NEW x \in Places(t)
        PROVE  \/ \E p \in Producer : call[p].task = t
               \/ \E i \in DOMAIN awaiting : awaiting[i] = t
               \/ \E w \in Worker : data[w] = t
               \/ \E i \in DOMAIN executed : executed[i] = t
               \/ t \in dropped
    BY DEF Places
  <2>3. /\ \A p \in Producer : call[p].task = t => <<"call", p>> \in Places(t)
        /\ \A i \in DOMAIN awaiting : awaiting[i] = t => <<"awaiting", i>> \in Places(t)
        /\ \A w \in Worker : data[w] = t => <<"data", w>> \in Places(t)
        /\ \A i \in DOMAIN executed : executed[i] = t => <<"executed", i>> \in Places(t)
        /\ t \in dropped => <<"dropped", 0>> \in Places(t)
    BY DEF Places
  <2>4. QED
    BY <2>1, <2>2, <2>3
<1>7. ASSUME NEW t \in Task, NEW x \in Places(t), NEW y \in Places(t) PROVE x = y
  BY <1>3, <1>4, <1>5 DEF Partition, Places
<1>8. QED
  BY <1>5, <1>6, <1>7 DEF NeitherLostNorDoubled

\* Through any interleaving of producers, workers and EndSystem, each task that entered
\* NewAsyncTask is in exactly one place: never run twice, run after it was thrown away, or
\* forgotten.
THEOREM TaskNeitherLostNorDoubled == Spec => []NeitherLostNorDoubled
BY TasksInOnePlace, PoolInvariance, PTL
=============================================================================
