-------------------------------- MODULE Ticker --------------------------------
(***************************************************************************)
(* BKScheduledAsyncTaskManager: one thread wakes every SleepMsBetweenCheck *)
(* and, holding Ticker_Mutex, pops every awaiting task: one whose id was   *)
(* cancelled is thrown away, one that waited long enough is called, the    *)
(* others are put back at the end of the tick.  Other threads, and the     *)
(* called functions themselves, schedule and cancel.                       *)
(*                                                                         *)
(* Time is counted in ticks.                                               *)
(***************************************************************************)
EXTENDS Integers, Sequences, SequencesExt

CONSTANTS
  Task,        \* the calls of NewScheduledAsyncTask, each with its task
  Wait,        \* Wait[t]: WaitFor, in ticks
  Looping,     \* tasks with bLoop
  Borrowed,    \* tasks with bDoNotDeallocateParameters
  Failing,     \* tasks whose function may run out of memory
  Cancels,     \* Cancels[t]: what the function of t may cancel
  MaxTaskIx    \* the 16383 of NewScheduledAsyncTask (bound of the ids)

ASSUME WaitIsTicks == Wait \in [Task -> Nat]
ASSUME FlagsAreOfTasks == Looping \cup Borrowed \cup Failing \subseteq Task
ASSUME CancelsTasks == Cancels \in [Task -> SUBSET Task]
ASSUME MaxTaskIxIsPositive == MaxTaskIx \in Nat \ {0}

NoTask == "none"
ASSUME NoTaskIsNoTask == NoTask \notin Task

VARIABLES
  started,      \* bSystemStarted
  at,           \* where the ticker's thread is
  ending,       \* where the thread in EndSystem is
  currentTaskIx,\* CurrentTaskIx
  id,           \* id[t]: TaskUniqueIx, 0 before the call
  phase,        \* phase[t]: where the task is
  passed,       \* passed[t]: PassedTimeMs
  awaiting,     \* AwaitingScheduledTasks
  kept,         \* NewQueueAfterTick
  current,      \* PossibleAwaitingTask, popped and not yet disposed of
  cancelledIds, \* CancelledScheduledTasks
  revoked,      \* history: tasks that CancelScheduledAsyncTask was called for
  age,          \* history: ticks begun since the task was pushed or last called
  joined,       \* history: tasks pushed during a tick, and not called since
  ran,          \* history: tasks whose function was called
  freed         \* history: freed[t]: how often the parameters were deleted

vars == <<started, at, ending, currentTaskIx, id, phase, passed, awaiting, kept, current,
          cancelledIds, revoked, age, joined, ran, freed>>

Phase == {"new", "numbered", "queued", "popped", "pooled", "called", "dropped", "lost", "ended"}

TypeOK ==
  /\ started \in BOOLEAN
  /\ at \in {"created", "asleep", "drain", "check", "run", "exited"}
  /\ ending \in {"no", "join", "empty", "deleted"}
  /\ currentTaskIx \in Nat
  /\ id \in [Task -> Nat]
  /\ phase \in [Task -> Phase]
  /\ passed \in [Task -> Nat]
  /\ awaiting \in Seq(Task)
  /\ kept \in Seq(Task)
  /\ current \in Task \cup {NoTask}
  /\ cancelledIds \subseteq Nat
  /\ revoked \subseteq Task
  /\ age \in [Task -> Nat]
  /\ joined \subseteq Task
  /\ ran \subseteq Task
  /\ freed \in [Task -> Nat]

\* StartSystem.
Init ==
  /\ started = TRUE
  /\ at = "created"
  /\ ending = "no"
  /\ currentTaskIx = 1
  /\ id = [t \in Task |-> 0]
  /\ phase = [t \in Task |-> "new"]
  /\ passed = [t \in Task |-> 0]
  /\ awaiting = <<>>
  /\ kept = <<>>
  /\ current = NoTask
  /\ cancelledIds = {}
  /\ revoked = {}
  /\ age = [t \in Task |-> 0]
  /\ joined = {}
  /\ ran = {}
  /\ freed = [t \in Task |-> 0]

queues == <<awaiting, kept, current>>
control == <<started, at, ending>>
history == <<revoked, age, joined, ran>>

-----------------------------------------------------------------------------
(* Callers.                                                                *)

\* From the limit on, every task gets the id 1: the counter itself is not reset.
TaskUniqueIx == IF currentTaskIx >= MaxTaskIx THEN 1 ELSE currentTaskIx

\* Fault: the id is read, and the counter left as it is.
NumberTaskPeeks(t) ==
  /\ started
  /\ phase[t] = "new"
  /\ id' = [id EXCEPT ![t] = TaskUniqueIx]
  /\ phase' = [phase EXCEPT ![t] = "numbered"]
  /\ UNCHANGED <<control, currentTaskIx, passed, queues, cancelledIds, history, freed>>

\* NewScheduledAsyncTask up to the end of the lock on CurrentTaskIx.
NumberTask(t) ==
  /\ started
  /\ phase[t] = "new"
  /\ id' = [id EXCEPT ![t] = TaskUniqueIx]
  /\ currentTaskIx' = currentTaskIx + 1
  /\ phase' = [phase EXCEPT ![t] = "numbered"]
  /\ UNCHANGED <<control, passed, queues, cancelledIds, history, freed>>

TickerHoldsMutex == at \in {"drain", "check", "run"}

\* The rest of NewScheduledAsyncTask: the task is queued, or at once in the pool.
\* A caller that comes after EndSystem uses a deleted manager and is not followed.
PushTask(t) ==
  /\ phase[t] = "numbered"
  /\ IF Wait[t] = 0
     THEN /\ phase' = [phase EXCEPT ![t] = "pooled"]
          /\ UNCHANGED <<awaiting, joined>>
     ELSE /\ ending # "deleted"
          /\ phase' = [phase EXCEPT ![t] = "queued"]
          /\ awaiting' = Append(awaiting, t)
          /\ joined' = IF TickerHoldsMutex THEN joined \cup {t} ELSE joined
  /\ UNCHANGED <<control, currentTaskIx, id, passed, kept, current, cancelledIds, revoked, age, ran, freed>>

Revoke(T) ==
  /\ revoked' = revoked \cup T
  /\ cancelledIds' = cancelledIds \cup {id[t] : t \in T}

\* Only who was given the id can cancel.
Cancellable(t) == phase[t] \notin {"new", "numbered"}

\* Fault: the list is changed without Ticker_Mutex.
CancelUnlocked(t) ==
  /\ started
  /\ Cancellable(t)
  /\ Revoke({t})
  /\ UNCHANGED <<control, currentTaskIx, id, phase, passed, queues, age, joined, ran, freed>>

\* CancelScheduledAsyncTask by a thread other than the ticker's.
CancelScheduledAsyncTask(t) ==
  /\ started
  /\ ~TickerHoldsMutex
  /\ Cancellable(t)
  /\ Revoke({t})
  /\ UNCHANGED <<control, currentTaskIx, id, phase, passed, queues, age, joined, ran, freed>>

-----------------------------------------------------------------------------
(* TickerRun.                                                              *)

StartTicker ==
  /\ at = "created"
  /\ at' = IF started THEN "asleep" ELSE "exited"
  /\ UNCHANGED <<started, ending, currentTaskIx, id, phase, passed, queues, cancelledIds, history, freed>>

\* The ticker wakes, sees the system up and takes Ticker_Mutex; or it returns.
Wake ==
  /\ at = "asleep"
  /\ at' = IF started THEN "drain" ELSE "exited"
  /\ age' = [t \in Task |-> IF started /\ t \in ToSet(awaiting) THEN age[t] + 1 ELSE age[t]]
  /\ UNCHANGED <<started, ending, currentTaskIx, id, phase, passed, queues, cancelledIds,
                 revoked, joined, ran, freed>>

\* Pop, also of what was pushed since the tick began.
PopTask ==
  /\ at = "drain"
  /\ awaiting # <<>>
  /\ current' = Head(awaiting)
  /\ awaiting' = Tail(awaiting)
  /\ phase' = [phase EXCEPT ![Head(awaiting)] = "popped"]
  /\ at' = "check"
  /\ UNCHANGED <<started, ending, currentTaskIx, id, passed, kept, cancelledIds, history, freed>>

\* The test of the popped task: thrown away, to be called, or kept for the next tick.
CheckTask ==
  LET t == current IN
  /\ at = "check"
  /\ \/ /\ id[t] \in cancelledIds
        /\ at' = "drain"
        /\ phase' = [phase EXCEPT ![t] = "dropped"]
        /\ current' = NoTask
        /\ UNCHANGED <<passed, kept>>
     \/ /\ id[t] \notin cancelledIds
        /\ passed' = [passed EXCEPT ![t] = @ + 1]
        /\ passed[t] + 1 >= Wait[t]
        /\ at' = "run"
        /\ UNCHANGED <<phase, kept, current>>
     \/ /\ id[t] \notin cancelledIds
        /\ passed' = [passed EXCEPT ![t] = @ + 1]
        /\ passed[t] + 1 < Wait[t]
        /\ at' = "drain"
        /\ phase' = [phase EXCEPT ![t] = "queued"]
        /\ kept' = Append(kept, t)
        /\ current' = NoTask
  /\ UNCHANGED <<started, ending, currentTaskIx, id, awaiting, cancelledIds, history, freed>>

Deallocate(t) == freed' = IF t \in Borrowed THEN freed ELSE [freed EXCEPT ![t] = @ + 1]

\* Fault: a looping task keeps the time it has waited.
RunTaskKeepsPassedTime ==
  LET t == current IN
  /\ at = "run"
  /\ at' = "drain"
  /\ current' = NoTask
  /\ ran' = ran \cup {t}
  /\ UNCHANGED <<revoked, cancelledIds>>
  /\ IF t \in Looping
     THEN /\ kept' = Append(kept, t)
          /\ age' = [age EXCEPT ![t] = 0]
          /\ joined' = joined \ {t}
          /\ phase' = [phase EXCEPT ![t] = "queued"]
          /\ UNCHANGED <<passed, freed>>
     ELSE /\ Deallocate(t)
          /\ phase' = [phase EXCEPT ![t] = "called"]
          /\ UNCHANGED <<passed, kept, age, joined>>
  /\ UNCHANGED <<started, ending, currentTaskIx, id, awaiting>>

\* The function is called, and may cancel (the mutex is recursive); then a looping
\* task starts to wait again and any other is deleted.
RunTask ==
  LET t == current IN
  /\ at = "run"
  /\ at' = "drain"
  /\ current' = NoTask
  /\ ran' = ran \cup {t}
  /\ \E T \in SUBSET {u \in Cancels[t] : Cancellable(u)} : Revoke(T)
  /\ IF t \in Looping
     THEN /\ passed' = [passed EXCEPT ![t] = 0]
          /\ kept' = Append(kept, t)
          /\ age' = [age EXCEPT ![t] = 0]
          /\ joined' = joined \ {t}
          /\ phase' = [phase EXCEPT ![t] = "queued"]
          /\ UNCHANGED freed
     ELSE /\ Deallocate(t)
          /\ phase' = [phase EXCEPT ![t] = "called"]
          /\ UNCHANGED <<passed, kept, age, joined>>
  /\ UNCHANGED <<started, ending, currentTaskIx, id, awaiting>>

\* The function throws std::bad_alloc: the stack is unwound, with the mutex and
\* NewQueueAfterTick, and pthread_exit ends the ticker before TickerStop could replace it.
RunOutOfMemory ==
  /\ at = "run"
  /\ current \in Failing
  /\ at' = "exited"
  /\ current' = NoTask
  /\ kept' = <<>>
  /\ ran' = ran \cup {current}
  /\ phase' = [t \in Task |-> IF t \in ToSet(kept) \cup {current} THEN "lost" ELSE phase[t]]
  /\ UNCHANGED <<started, ending, currentTaskIx, id, passed, awaiting, cancelledIds, revoked, age, joined,
                 freed>>

\* Fault: the kept tasks replace those that were pushed meanwhile.
EndTickReplaces ==
  /\ at = "drain"
  /\ at' = "asleep"
  /\ awaiting' = kept
  /\ kept' = <<>>
  /\ UNCHANGED <<started, ending, currentTaskIx, id, phase, passed, current, cancelledIds, history, freed>>

\* Nothing left to pop: AddAll_NotTSTemporaryQueue, and the mutex is released.  Pop
\* and AddAll lock the queue one after the other, so a push may come between them;
\* that is the order PushTask, EndTick as well as EndTick, PushTask.
EndTick ==
  /\ at = "drain"
  /\ awaiting = <<>>
  /\ at' = "asleep"
  /\ awaiting' = kept
  /\ kept' = <<>>
  /\ UNCHANGED <<started, ending, currentTaskIx, id, phase, passed, current, cancelledIds, history, freed>>

-----------------------------------------------------------------------------
(* EndSystem.                                                              *)

EndSystem ==
  /\ ending = "no"
  /\ started' = FALSE
  /\ ending' = "join"
  /\ UNCHANGED <<at, currentTaskIx, id, phase, passed, queues, cancelledIds, history, freed>>

\* IsJoinable, Join: a thread that has not begun is not waited for.
JoinTicker ==
  /\ ending = "join"
  /\ at \in {"created", "exited"}
  /\ ending' = "empty"
  /\ UNCHANGED <<started, at, currentTaskIx, id, phase, passed, queues, cancelledIds, history, freed>>

\* Fault: what the submitter keeps is deleted too.
EmptyAwaitingDeletesAll ==
  /\ ending = "empty"
  /\ IF awaiting = <<>>
     THEN /\ ending' = "deleted"
          /\ UNCHANGED <<phase, awaiting, freed>>
     ELSE /\ awaiting' = Tail(awaiting)
          /\ phase' = [phase EXCEPT ![Head(awaiting)] = "ended"]
          /\ freed' = [freed EXCEPT ![Head(awaiting)] = @ + 1]
          /\ UNCHANGED ending
  /\ UNCHANGED <<started, at, currentTaskIx, id, passed, kept, current, cancelledIds, history>>

\* One round of the loop that empties the queue; then the manager is deleted.
EmptyAwaiting ==
  /\ ending = "empty"
  /\ IF awaiting = <<>>
     THEN /\ ending' = "deleted"
          /\ UNCHANGED <<phase, awaiting, freed>>
     ELSE /\ awaiting' = Tail(awaiting)
          /\ phase' = [phase EXCEPT ![Head(awaiting)] = "ended"]
          /\ Deallocate(Head(awaiting))
          /\ UNCHANGED ending
  /\ UNCHANGED <<started, at, currentTaskIx, id, passed, kept, current, cancelledIds, history>>

-----------------------------------------------------------------------------
Tick == Wake \/ PopTask \/ CheckTask \/ RunTask \/ EndTick

Next ==
  \/ \E t \in Task : NumberTask(t) \/ PushTask(t) \/ CancelScheduledAsyncTask(t)
  \/ StartTicker
  \/ Wake
  \/ PopTask
  \/ CheckTask
  \/ RunTask
  \/ RunOutOfMemory
  \/ EndTick
  \/ EndSystem
  \/ JoinTicker
  \/ EmptyAwaiting

Spec == Init /\ [][Next]_vars

\* The ticker's thread is scheduled and a called function returns; a thread inside
\* NewScheduledAsyncTask goes on.  Nobody has to schedule, cancel or end the system.
FairSpec ==
  /\ Spec
  /\ WF_vars(StartTicker)
  /\ WF_vars(Tick)
  /\ \A t \in Task : WF_vars(PushTask(t))

-----------------------------------------------------------------------------
(* Properties.                                                             *)

\* Once the cancellation of a waiting task has returned, its function is never
\* called, whichever of the ticker's steps the cancellation met.
CancelledNeverRuns ==
  at = "run" => current \notin revoked

\* Cancellation is exact: the ticker throws away only a task that somebody
\* cancelled, as long as ids are not yet shared (the ids from MaxTaskIx on are all 1).
\* A task is lost otherwise only with the ticker, when a function ran out of memory.
OnlyCancelledIsDropped ==
  currentTaskIx <= MaxTaskIx =>
    \A t \in Task : phase[t] = "dropped" => t \in revoked

\* A task is called in the tick in which its time is over: never later, and early (by
\* less than a tick) only the first time, if it was pushed while a tick was going on.
FiresOnTime ==
  at = "run" => age[current] = Wait[current] - (IF current \in joined THEN 1 ELSE 0)

\* The parameters of a task are deleted once at most, those of a borrowing task never,
\* and none that the ticker will still pass to a function.
DeallocatedByItsOwner ==
  \A t \in Task :
    /\ freed[t] <= IF t \in Borrowed THEN 0 ELSE 1
    /\ phase[t] \in {"queued", "popped"} => freed[t] = 0
    /\ phase[t] = "ended" /\ t \notin Borrowed => freed[t] = 1

\* A queued task is called or thrown away for a cancellation of its id, unless the
\* system ends or the ticker is lost.
DueTaskIsCalled ==
  \A t \in Task :
    phase[t] = "queued" ~> t \in ran \/ phase[t] = "dropped" \/ ~started \/ at = "exited"
=============================================================================
