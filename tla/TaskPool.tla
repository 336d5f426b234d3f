------------------------------ MODULE TaskPool ------------------------------
(***************************************************************************)
(* BKAsyncTaskManager: a fixed number of worker threads, each with a mutex *)
(* and a condition variable of its own, a queue of free workers and a      *)
(* queue of awaiting tasks.  The two queues have a lock each, so whoever   *)
(* looks at one and then acts on the other does it in two steps.           *)
(*                                                                         *)
(* The producers are the threads that call NewAsyncTask: the listeners,    *)
(* the ticker, and tasks that run on a worker.                             *)
(***************************************************************************)
EXTENDS Integers, Sequences, SequencesExt

CONSTANTS
  WorkerThreadCount,  \* StartSystem's parameter
  Producer,           \* threads that call NewAsyncTask
  Task,               \* the calls they make, each with its task (bound)
  Borrowed,           \* tasks submitted with bDoNotDeallocateParameters
  Exhausting          \* tasks that may throw std::bad_alloc

ASSUME WorkerThreadCountIsPositive == WorkerThreadCount \in Nat \ {0}
ASSUME BorrowedIsTask == Borrowed \cup Exhausting \subseteq Task

Worker == 1..WorkerThreadCount
NoTask == "none"
NoWorker == 0
ASSUME NoTaskIsNoTask == NoTask \notin Task

VARIABLES
  started,      \* bSystemStarted
  free,         \* FreeWorkers
  awaiting,     \* AwaitingTasks
  data,         \* data[w]: CurrentData
  ready,        \* ready[w]: DataReady
  den,          \* den[w]: where worker w's thread is
  call,         \* call[p]: where producer p is in NewAsyncTask
  ending,       \* where the thread that calls EndSystem is
  submitted,    \* history: tasks that entered NewAsyncTask
  executed,     \* history: the order in which FunctionPtrs were called
  deallocated,  \* history: tasks whose Parameters were deleted
  dropped       \* history: tasks thrown away unexecuted by EndSystem

vars == <<started, free, awaiting, data, ready, den, call, ending,
          submitted, executed, deallocated, dropped>>

queues == <<free, awaiting>>
threads == <<data, ready, den>>
history == <<submitted, executed, deallocated, dropped>>

Den == {"created", "check", "wait", "process", "fetch", "release", "lost", "exited", "deleted"}
Idle == [step |-> "idle", task |-> NoTask, worker |-> NoWorker]
Call == {Idle} \cup [step : {"pop", "assign", "queue", "undefined"}, task : Task,
                     worker : Worker \cup {NoWorker}]

TypeOK ==
  /\ started \in BOOLEAN
  /\ free \in Seq(Worker)
  /\ awaiting \in Seq(Task)
  /\ data \in [Worker -> Task \cup {NoTask}]
  /\ ready \in [Worker -> BOOLEAN]
  /\ den \in [Worker -> Den]
  /\ call \in [Producer -> Call]
  /\ ending \in [step : {"no", "signal", "join", "empty", "delete", "done"}, worker : Worker]
  /\ submitted \subseteq Task
  /\ executed \in Seq(Task)
  /\ deallocated \subseteq Task
  /\ dropped \subseteq Task

\* StartWorkers: each worker queues itself as free in its constructor, and has a thread.
Init ==
  /\ started = TRUE
  /\ free = [i \in 1..WorkerThreadCount |-> i]
  /\ awaiting = <<>>
  /\ data = [w \in Worker |-> NoTask]
  /\ ready = [w \in Worker |-> FALSE]
  /\ den = [w \in Worker |-> "created"]
  /\ call = [p \in Producer |-> Idle]
  /\ ending = [step |-> "no", worker |-> 1]
  /\ submitted = {}
  /\ executed = <<>>
  /\ deallocated = {}
  /\ dropped = {}

-----------------------------------------------------------------------------
(* NewAsyncTask.                                                           *)

\* The system is seen up, and the task is made.
NewAsyncTask(p, t) ==
  /\ call[p] = Idle
  /\ t \notin submitted
  /\ started
  /\ submitted' = submitted \cup {t}
  /\ call' = [call EXCEPT ![p] = [step |-> "pop", task |-> t, worker |-> NoWorker]]
  /\ UNCHANGED <<started, queues, threads, ending, executed, deallocated, dropped>>

\* The producer uses what EndSystem has deleted: it is not followed further.
Undefined(p) ==
  /\ call' = [call EXCEPT ![p].step = "undefined"]
  /\ UNCHANGED <<started, queues, threads, ending, history>>

\* Fault: a free worker is looked at and left in the queue.
PopFreeWorkerPeeks(p) ==
  /\ call[p].step = "pop"
  /\ call' = [call EXCEPT ![p] =
                IF free = <<>> THEN [@ EXCEPT !.step = "queue"]
                ELSE [@ EXCEPT !.step = "assign", !.worker = Head(free)]]
  /\ UNCHANGED <<started, queues, threads, ending, history>>

\* FreeWorkers.Pop.
PopFreeWorker(p) ==
  /\ call[p].step = "pop"
  /\ \/ /\ ending.step # "done"
        /\ free # <<>>
        /\ free' = Tail(free)
        /\ call' = [call EXCEPT ![p].step = "assign", ![p].worker = Head(free)]
        /\ UNCHANGED <<started, awaiting, threads, ending, history>>
     \/ /\ ending.step # "done"
        /\ free = <<>>
        /\ call' = [call EXCEPT ![p].step = "queue"]
        /\ UNCHANGED <<started, queues, threads, ending, history>>
     \/ ending.step = "done" /\ Undefined(p)

\* Condition.signal wakes worker w if it waits; otherwise it is lost.
Signal(w) == den' = [den EXCEPT ![w] = IF @ = "wait" THEN "check" ELSE @]

\* Fault: the data is set without a signal.
AssignSilently(p) ==
  LET w == call[p].worker IN
  /\ call[p].step = "assign"
  /\ data' = [data EXCEPT ![w] = call[p].task]
  /\ ready' = [ready EXCEPT ![w] = TRUE]
  /\ call' = [call EXCEPT ![p] = Idle]
  /\ UNCHANGED <<started, queues, den, ending, history>>

\* SetData(Task, true) on the popped worker.
Assign(p) ==
  LET w == call[p].worker IN
  /\ call[p].step = "assign"
  /\ \/ /\ den[w] # "deleted"
        /\ data' = [data EXCEPT ![w] = call[p].task]
        /\ ready' = [ready EXCEPT ![w] = TRUE]
        /\ Signal(w)
        /\ call' = [call EXCEPT ![p] = Idle]
        /\ UNCHANGED <<started, queues, ending, history>>
     \/ den[w] = "deleted" /\ Undefined(p)

\* AwaitingTasks.Push, of a task that found no free worker a moment ago.
Enqueue(p) ==
  /\ call[p].step = "queue"
  /\ \/ /\ ending.step # "done"
        /\ awaiting' = Append(awaiting, call[p].task)
        /\ call' = [call EXCEPT ![p] = Idle]
        /\ UNCHANGED <<started, free, threads, ending, history>>
     \/ ending.step = "done" /\ Undefined(p)

-----------------------------------------------------------------------------
(* A worker: WorkersDen and ProcessData.                                   *)

\* BKThread::Run has come as far as setting bThreadJoinable.
Begin(w) ==
  /\ den[w] = "created"
  /\ den' = [den EXCEPT ![w] = "check"]
  /\ UNCHANGED <<started, queues, data, ready, call, ending, history>>

\* Under the worker's mutex: wait, leave the den, or go and process.
Check(w) ==
  /\ den[w] = "check"
  /\ den' = [den EXCEPT ![w] = IF ~started THEN "exited"
                               ELSE IF ready[w] THEN "process" ELSE "wait"]
  /\ UNCHANGED <<started, queues, data, ready, call, ending, history>>

\* ProcessData_CriticalPart: call the function, delete what the task owns.
Execute(w) ==
  /\ den[w] = "process"
  /\ executed' = Append(executed, data[w])
  /\ deallocated' = deallocated \cup ({data[w]} \ Borrowed)
  /\ data' = [data EXCEPT ![w] = NoTask]
  /\ den' = [den EXCEPT ![w] = "fetch"]
  /\ UNCHANGED <<started, queues, ready, call, ending, submitted, dropped>>

\* The function throws std::bad_alloc.  Linux: CleanThread ends the thread with pthread_exit,
\* so that the StopCallback, which would replace the worker, is not reached.  The thread can
\* still be joined; the worker keeps its task, and is in no queue any more.
RunOutOfMemory(w) ==
  /\ den[w] = "process"
  /\ data[w] \in Exhausting
  /\ den' = [den EXCEPT ![w] = "lost"]
  /\ UNCHANGED <<started, queues, data, ready, call, ending, history>>

\* Fault: one awaiting task is left in the queue for another worker.
FetchLeavesOne(w) ==
  /\ den[w] = "fetch"
  /\ \/ /\ started /\ Len(awaiting) > 1
        /\ data' = [data EXCEPT ![w] = Head(awaiting)]
        /\ awaiting' = Tail(awaiting)
        /\ den' = [den EXCEPT ![w] = "process"]
        /\ UNCHANGED ready
     \/ /\ ~started \/ Len(awaiting) <= 1
        /\ ready' = [ready EXCEPT ![w] = FALSE]
        /\ den' = [den EXCEPT ![w] = "release"]
        /\ UNCHANGED <<data, awaiting>>
  /\ UNCHANGED <<started, free, call, ending, history>>

\* Fault: the awaiting task is read and not removed.
FetchPeeks(w) ==
  /\ den[w] = "fetch"
  /\ \/ /\ started /\ awaiting # <<>>
        /\ data' = [data EXCEPT ![w] = Head(awaiting)]
        /\ den' = [den EXCEPT ![w] = "process"]
        /\ UNCHANGED ready
     \/ /\ ~started \/ awaiting = <<>>
        /\ ready' = [ready EXCEPT ![w] = FALSE]
        /\ den' = [den EXCEPT ![w] = "release"]
        /\ UNCHANGED data
  /\ UNCHANGED <<started, queues, call, ending, history>>

\* DataReady is reset and TryToGetAwaitingTask called; SetData(_, false) sets it again.
Fetch(w) ==
  /\ den[w] = "fetch"
  /\ \/ /\ started /\ awaiting # <<>>
        /\ data' = [data EXCEPT ![w] = Head(awaiting)]
        /\ awaiting' = Tail(awaiting)
        /\ den' = [den EXCEPT ![w] = "process"]
        /\ UNCHANGED ready
     \/ /\ ~started \/ awaiting = <<>>
        /\ ready' = [ready EXCEPT ![w] = FALSE]
        /\ den' = [den EXCEPT ![w] = "release"]
        /\ UNCHANGED <<data, awaiting>>
  /\ UNCHANGED <<started, free, call, ending, history>>

\* PushFreeWorker, of a worker that found no awaiting task a moment ago.
Release(w) ==
  /\ den[w] = "release"
  /\ free' = IF started THEN Append(free, w) ELSE free
  /\ den' = [den EXCEPT ![w] = "check"]
  /\ UNCHANGED <<started, awaiting, data, ready, call, ending, history>>

-----------------------------------------------------------------------------
(* EndSystem.                                                              *)

EndSystem ==
  /\ ending.step = "no"
  /\ started' = FALSE
  /\ ending' = [ending EXCEPT !.step = "signal"]
  /\ UNCHANGED <<queues, threads, call, history>>

\* Fault: EndWorker joins without a signal.
SignalNobody ==
  /\ ending.step = "signal"
  /\ ending' = [ending EXCEPT !.step = "join"]
  /\ UNCHANGED <<started, queues, threads, call, history>>

\* EndWorker signals a worker that has no data.
SignalWorker ==
  LET w == ending.worker IN
  /\ ending.step = "signal"
  /\ IF ready[w] THEN UNCHANGED den ELSE Signal(w)
  /\ ending' = [ending EXCEPT !.step = "join"]
  /\ UNCHANGED <<started, queues, data, ready, call, history>>

\* ... waits for its thread, unless the thread has not set bThreadJoinable yet or has
\* reset it, and deletes the worker; the task that it may hold is forgotten.
JoinWorker ==
  LET w == ending.worker IN
  /\ ending.step = "join"
  /\ den[w] \in {"created", "exited", "lost"}
  /\ den' = [den EXCEPT ![w] = "deleted"]
  /\ dropped' = dropped \cup ({data[w]} \ {NoTask})
  /\ data' = [data EXCEPT ![w] = NoTask]
  /\ ending' = IF w < WorkerThreadCount THEN [step |-> "signal", worker |-> w + 1]
               ELSE [ending EXCEPT !.step = "empty"]
  /\ UNCHANGED <<started, queues, ready, call, submitted, executed, deallocated>>

\* EndSystem_Internal deletes the awaiting tasks and the parameters of every one.
EmptyAwaiting ==
  /\ ending.step = "empty"
  /\ deallocated' = deallocated \cup ToSet(awaiting)
  /\ dropped' = dropped \cup ToSet(awaiting)
  /\ awaiting' = <<>>
  /\ ending' = [ending EXCEPT !.step = "delete"]
  /\ UNCHANGED <<started, free, threads, call, submitted, executed>>

\* ... and EndSystem the manager; a task queued behind the last Pop goes with it, and its
\* parameters are left behind.
DeleteManager ==
  /\ ending.step = "delete"
  /\ dropped' = dropped \cup ToSet(awaiting)
  /\ awaiting' = <<>>
  /\ ending' = [ending EXCEPT !.step = "done"]
  /\ UNCHANGED <<started, free, threads, call, submitted, executed, deallocated>>

-----------------------------------------------------------------------------
WorkerStep(w) ==
  Begin(w) \/ Check(w) \/ Execute(w) \/ RunOutOfMemory(w) \/ Fetch(w) \/ Release(w)
ProducerStep(p) == PopFreeWorker(p) \/ Assign(p) \/ Enqueue(p)
EndingStep == SignalWorker \/ JoinWorker \/ EmptyAwaiting \/ DeleteManager

Next ==
  \/ \E p \in Producer, t \in Task : NewAsyncTask(p, t)
  \/ \E p \in Producer : ProducerStep(p)
  \/ \E w \in Worker : WorkerStep(w)
  \/ EndSystem
  \/ EndingStep

Spec == Init /\ [][Next]_vars

\* Threads are scheduled and tasks return; nobody has to submit, or to end the system.
Fairness ==
  /\ \A p \in Producer : WF_vars(ProducerStep(p))
  /\ \A w \in Worker : WF_vars(WorkerStep(w))
  /\ WF_vars(EndingStep)

FairSpec == Spec /\ Fairness

-----------------------------------------------------------------------------
(* Properties.                                                             *)

Engaged(w) == {p \in Producer : call[p].step = "assign" /\ call[p].worker = w}

\* A worker is handed out once at a time: while it is in FreeWorkers or popped by a
\* producer that has not set its data yet, it is there once, it holds no task and is
\* not processing.  So SetData, which looks at nothing, never overwrites a task
\* (the lock of FreeWorkers and the worker's own mutex are never held together).
WorkerHandedOutOnce ==
  /\ IsInjective(free)
  /\ \A w \in ToSet(free) : Engaged(w) = {}
  /\ \A w \in Worker : \A p, q \in Engaged(w) : p = q
  /\ \A w \in Worker : w \in ToSet(free) \/ Engaged(w) # {} =>
       /\ data[w] = NoTask
       /\ ~ready[w]
       /\ den[w] \notin {"process", "fetch", "release"}

\* Where task t is: with its producer, in AwaitingTasks, in a worker, run, or dropped.
Places(t) ==
  {<<"call", p>> : p \in {q \in Producer : call[q].task = t}} \cup
  {<<"awaiting", i>> : i \in {j \in DOMAIN awaiting : awaiting[j] = t}} \cup
  {<<"data", w>> : w \in {v \in Worker : data[v] = t}} \cup
  {<<"executed", i>> : i \in {j \in DOMAIN executed : executed[j] = t}} \cup
  (IF t \in dropped THEN {<<"dropped", 0>>} ELSE {})

\* Every task that entered NewAsyncTask is in exactly one place: none is run twice, run
\* after it was thrown away, or forgotten, through any interleaving of producers,
\* workers and EndSystem.
NeitherLostNorDoubled ==
  /\ submitted = {t \in Task : Places(t) # {}}
  /\ \A t \in Task : \A x, y \in Places(t) : x = y

\* EndSystem deletes the parameters of awaiting tasks, whoever owns them: false.
BorrowedParametersSurvive == deallocated \cap Borrowed = {}

\* The task has been called, and has returned or has taken its worker's thread with it, or it
\* was thrown away.
Settled(t) ==
  \/ t \in ToSet(executed) \cup dropped
  \/ \E w \in Worker : den[w] = "lost" /\ data[w] = t
Stuck(t) == \E p \in Producer : call[p].task = t /\ call[p].step = "undefined"

\* No wakeup is lost: a task for which a free worker was popped is run, or thrown away by
\* EndSystem.  (A producer that EndSystem overtakes uses a deleted worker.)
AssignedTaskIsSettled ==
  \A t \in Task :
    (\E p \in Producer : call[p].task = t /\ call[p].step = "assign")
      ~> Settled(t) \/ Stuck(t)

\* An awaiting task is settled provided some worker still has a task to process, unless a
\* worker is lost: it looks at AwaitingTasks after each one.  (A task queued when the last busy
\* worker has looked already stays there until somebody else submits a task; and one that
\* waits for a worker that is lost, as long as no other worker is given a task.)
AwaitingTaskIsSettledByABusyWorker ==
  \A t \in Task :
    (t \in ToSet(awaiting) /\ \E w \in Worker : data[w] # NoTask)
      ~> Settled(t) \/ \E w \in Worker : den[w] = "lost"

\* EndSystem returns, whatever each worker is doing when bSystemStarted is reset.
EndSystemReturns == ending.step = "signal" ~> ending.step = "done"
=============================================================================
