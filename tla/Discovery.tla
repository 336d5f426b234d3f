------------------------------ MODULE Discovery ------------------------------
(***************************************************************************)
(* BKServiceDiscoveryComponent: one instance at a time registers itself    *)
(* over a UDP client, and is then called by three threads that take no     *)
(* lock of each other: a pool worker with the registry's answer, the       *)
(* ticker (the 5 s limit of the registration, and a heartbeat each         *)
(* second) and the system manager's thread, while the application's thread *)
(* starts and stops it.                                                    *)
(*                                                                         *)
(* Instances are numbered, so that one that was deleted is told from the   *)
(* one that has taken its place.  Every use reads ComponentInstance again. *)
(* An access to a deleted instance, or through a null pointer, is          *)
(* undefined; undefinedBy names whose it was.                              *)
(***************************************************************************)
EXTENDS SystemManager, UDPClient

CONSTANTS
  Instance,    \* the instances the application makes, 1..n (bound)
  Application  \* a client of the application's own

ASSUME InstancesAreNumbered == Instance \subseteq Nat \ {0}
ASSUME ClientsAreOfBoth == Instance \cup {Application} \subseteq Client

VARIABLES
  flag,         \* bComponentStarted
  instance,     \* ComponentInstance, 0 for null
  component,    \* component[g]: the fields of instance g
  made,         \* how many instances were made
  deleted,      \* the instances that were deleted
  user,         \* where the application's thread is
  report,       \* report[t]: where task t is in the component's callback, and whose mutex it holds
  tick,         \* where the ticker is; it holds Ticker_Mutex when awake
  timers,       \* the 5 s tasks that are not yet due
  beats,        \* the heartbeat tasks the ticker has
  cancelled,    \* CancelledScheduledTasks
  nextTask,     \* CurrentTaskIx
  orphaned,     \* history: whether a stop came between an answer and the keeping of its task's id
  undefinedBy   \* history: whose access had no defined outcome

own == <<flag, instance, component, made, deleted, user, report, tick, timers, beats,
         cancelled, nextTask, orphaned, undefinedBy>>
allVars == <<managerVars, clientVars, own>>

NewInstance ==
  [operated |-> FALSE,  \* bInitialMessageOperated
   result |-> FALSE,    \* whether StartComponentResultCallback is set
   client |-> FALSE,    \* whether ComponentUDPClient is set
   beat |-> 0,          \* HeartbeatTaskUniqueIx
   ix |-> 0,            \* SystemCallbackUniqueID
   info |-> FALSE,      \* whether CurrentSystemInfo is valid
   told |-> 0]          \* history: calls of the application's result callback

Outside == [at |-> "no", of |-> 0]

Init ==
  /\ ManagerInit
  /\ ClientInit
  /\ flag = FALSE
  /\ instance = 0
  /\ component = [g \in Instance |-> NewInstance]
  /\ made = 0
  /\ deleted = {}
  /\ user = "out"
  /\ report = [t \in Carrier |-> Outside]
  /\ tick = Outside
  /\ timers = {}
  /\ beats = {}
  /\ cancelled = {}
  /\ nextTask = 1
  /\ orphaned = FALSE
  /\ undefinedBy = {}

\* Who has bInitialMessageOperated_Mutex of instance g.
LockedByTask(g) == \E t \in Carrier : report[t].of = g /\ report[t].at \notin {"no", "lock"}
Locked(g) == LockedByTask(g) \/ tick = [at |-> "test", of |-> g]

IsUndefined(who) ==
  /\ undefinedBy' = undefinedBy \cup {who}
  /\ UNCHANGED <<managerVars, clientVars, flag, instance, component, made, deleted, user, report,
                 tick, timers, beats, cancelled, nextTask, orphaned>>

-----------------------------------------------------------------------------
(* StartComponent, by the application's thread.                            *)

\* (When the component is started already, only the second caller is told.)
StartComponent ==
  /\ user = "out"
  /\ ~flag /\ made + 1 \in Instance
  /\ flag' = TRUE
  /\ made' = made + 1
  /\ instance' = made + 1
  /\ user' = "result"
  /\ UNCHANGED <<managerVars, clientVars, component, deleted, report, tick, timers, beats, cancelled,
                 nextTask, orphaned, undefinedBy>>

SetResultCallback ==
  /\ user = "result"
  /\ component' = [component EXCEPT ![instance].result = TRUE]
  /\ user' = "register"
  /\ UNCHANGED <<managerVars, clientVars, flag, instance, made, deleted, report, tick, timers, beats,
                 cancelled, nextTask, orphaned, undefinedBy>>

\* RegisterService: a system manager that does not run leaves the id as it is.
RegisterSystemCallback ==
  /\ user = "register"
  /\ user' = IF Callable THEN "add" ELSE "connect"
  /\ UNCHANGED <<managerVars, clientVars, flag, instance, component, made, deleted, report, tick, timers,
                 beats, cancelled, nextTask, orphaned, undefinedBy>>

\* The system may have been ended since it was asked.
AddSystemCallback ==
  /\ user = "add"
  /\ IF manager = "alive"
     THEN /\ user' = "connect"
          /\ AddCallback
          /\ component' = [component EXCEPT ![instance].ix = nextIx]
          /\ UNCHANGED <<clientVars, flag, instance, made, deleted, report, tick, timers, beats,
                         cancelled, nextTask, orphaned, undefinedBy>>
     ELSE IsUndefined("user")

\* Without a client the result callback stops the component and then reads through
\* ComponentInstance, which StopComponent has reset.
Connect ==
  /\ user = "connect"
  /\ client[instance].memory = "none"
  /\ \/ /\ InitializeClient(instance)
        /\ user' = "construct"
        /\ UNCHANGED <<carrier, managerVars, flag, instance, component, made, deleted, report, tick,
                       timers, beats, cancelled, nextTask, orphaned, undefinedBy>>
     \/ IsUndefined("user")

ConstructComponentClient ==
  /\ user = "construct" /\ ~Constructed(instance)
  /\ ConstructClient(instance)
  /\ UNCHANGED <<managerVars, own>>

\* The registration is sent, and its time limit scheduled; nobody keeps the task's id.
Register ==
  /\ user = "construct" /\ Constructed(instance)
  /\ component' = [component EXCEPT ![instance].client = TRUE]
  /\ timers' = timers \cup {nextTask}
  /\ nextTask' = nextTask + 1
  /\ user' = "out"
  /\ UNCHANGED <<managerVars, clientVars, flag, instance, made, deleted, report, tick, beats, cancelled,
                 orphaned, undefinedBy>>

-----------------------------------------------------------------------------
(* StopComponent, by the application's thread.  The client is not ended.   *)

StopComponent ==
  /\ user = "out"
  /\ flag
  /\ flag' = FALSE
  /\ user' = "remove"
  /\ UNCHANGED <<managerVars, clientVars, instance, component, made, deleted, report, tick, timers, beats,
                 cancelled, nextTask, orphaned, undefinedBy>>

RemoveSystemCallback ==
  /\ user = "remove"
  /\ user' = IF Callable THEN "take" ELSE "cancel"
  /\ UNCHANGED <<managerVars, clientVars, flag, instance, component, made, deleted, report, tick, timers,
                 beats, cancelled, nextTask, orphaned, undefinedBy>>

TakeSystemCallback ==
  /\ user = "take"
  /\ IF manager = "alive"
     THEN /\ user' = "cancel"
          /\ RemoveCallback(component[instance].ix)
          /\ UNCHANGED <<clientVars, flag, instance, component, made, deleted, report, tick, timers, beats,
                         cancelled, nextTask, orphaned, undefinedBy>>
     ELSE IsUndefined("user")

\* Fault: the ticker's mutex is not taken.
CancelHeartbeatUnlocked ==
  /\ user = "cancel"
  /\ cancelled' = cancelled \cup {component[instance].beat}
  /\ user' = "delete"
  /\ orphaned' = (orphaned \/ LockedByTask(instance))
  /\ UNCHANGED <<managerVars, clientVars, flag, instance, component, made, deleted, report, tick, timers,
                 beats, nextTask, undefinedBy>>

\* CancelScheduledAsyncTask takes Ticker_Mutex, which the ticker holds while it runs tasks.
CancelHeartbeat ==
  /\ user = "cancel"
  /\ tick = Outside
  /\ cancelled' = cancelled \cup {component[instance].beat}
  /\ user' = "delete"
  /\ orphaned' = (orphaned \/ LockedByTask(instance))
  /\ UNCHANGED <<managerVars, clientVars, flag, instance, component, made, deleted, report, tick, timers,
                 beats, nextTask, undefinedBy>>

\* The farewell is sent, and the instance deleted: while another thread holds the mutex that
\* lies in it, which that thread will yet give back, that is undefined.
DeleteInstance ==
  /\ user = "delete"
  /\ IF Locked(instance) THEN IsUndefined("user")
     ELSE /\ deleted' = deleted \cup {instance}
          /\ user' = "reset"
          /\ UNCHANGED <<managerVars, clientVars, flag, instance, component, made, report, tick, timers,
                         beats, cancelled, nextTask, orphaned, undefinedBy>>

ResetInstance ==
  /\ user = "reset"
  /\ instance' = 0
  /\ user' = "out"
  /\ UNCHANGED <<managerVars, clientVars, flag, component, made, deleted, report, tick, timers, beats,
                 cancelled, nextTask, orphaned, undefinedBy>>

-----------------------------------------------------------------------------
(* The callback of the component's clients, in a pool task.                *)

Reporting(t) == carrier[t].at = "call" /\ carrier[t].of \in Instance

\* The pointer is looked at before it is read again for the lock that lies in what it points
\* to.  (A client that an earlier instance left behind speaks to the present one.)
SeeInstance(t) ==
  /\ Reporting(t) /\ report[t].at = "no"
  /\ IF instance = 0 THEN FinishCarrier(t) /\ UNCHANGED report
     ELSE report' = [report EXCEPT ![t] = [at |-> "lock", of |-> 0]] /\ UNCHANGED carrier
  /\ UNCHANGED <<managerVars, client, flag, instance, component, made, deleted, user, tick, timers,
                 beats, cancelled, nextTask, orphaned, undefinedBy>>

\* What the task does next with ComponentInstance, as it is now.
With(t, at, Step) ==
  /\ Reporting(t) /\ report[t].at = at
  /\ IF instance \in deleted \cup {0} THEN IsUndefined("worker")
     ELSE /\ Step
          /\ UNCHANGED <<managerVars, client, flag, instance, made, deleted, user, tick, timers,
                         cancelled, orphaned, undefinedBy>>

Proceed(t, at) ==
  /\ report' = [report EXCEPT ![t].at = at]
  /\ UNCHANGED carrier

\* The mutex that was taken is given back.
Return(t) ==
  /\ report' = [report EXCEPT ![t] = Outside]
  /\ FinishCarrier(t)

TakeLock(t) ==
  /\ report' = [report EXCEPT ![t] = [at |-> "test", of |-> instance]]
  /\ UNCHANGED <<carrier, component, beats, nextTask>>

\* Fault: no lock.
LockOperatedNot(t) ==
  With(t, "lock", TakeLock(t))

LockOperated(t) ==
  With(t, "lock", ~Locked(instance) /\ TakeLock(t))

TestOperated(t) ==
  With(t, "test", /\ IF flag /\ ~component[instance].operated THEN Proceed(t, "operate")
                     ELSE Return(t)
                  /\ UNCHANGED <<component, beats, nextTask>>)

SetOperated(t) ==
  With(t, "operate", /\ component' = [component EXCEPT ![instance].operated = TRUE]
                     /\ Proceed(t, "beat")
                     /\ UNCHANGED <<beats, nextTask>>)

\* StartHeartbeating: the task is in the ticker's queue before its id is known to the instance.
ScheduleHeartbeat(t) ==
  With(t, "beat", /\ beats' = beats \cup {[id |-> nextTask, by |-> t, of |-> instance]}
                  /\ nextTask' = nextTask + 1
                  /\ Proceed(t, "assign")
                  /\ UNCHANGED component)

\* (Its `this' is the instance whose mutex is held, which nobody deletes meanwhile.)
KeepHeartbeatIx(t) ==
  With(t, "assign", \E b \in beats :
                      /\ b.by = t /\ b.of = report[t].of
                      /\ component' = [component EXCEPT ![b.of].beat = b.id]
                      /\ Proceed(t, "tell")
                      /\ UNCHANGED <<beats, nextTask>>)

TellResult(t) ==
  With(t, "tell", /\ component' = [component EXCEPT ![instance].told =
                                     IF component[instance].result THEN @ + 1 ELSE @]
                  /\ Proceed(t, "reset")
                  /\ UNCHANGED <<beats, nextTask>>)

ResetResultCallback(t) ==
  With(t, "reset", /\ component' = [component EXCEPT ![instance].result = FALSE]
                   /\ Return(t)
                   /\ UNCHANGED <<beats, nextTask>>)

ReportStep(t) ==
  \/ SeeInstance(t) \/ LockOperated(t) \/ TestOperated(t) \/ SetOperated(t)
  \/ ScheduleHeartbeat(t) \/ KeepHeartbeatIx(t) \/ TellResult(t) \/ ResetResultCallback(t)

-----------------------------------------------------------------------------
(* The ticker (see Ticker), with Ticker_Mutex.                             *)

TickUnchanged ==
  UNCHANGED <<managerVars, clientVars, flag, instance, component, made, deleted, user, report,
              cancelled, nextTask, orphaned, undefinedBy>>

\* A heartbeat is due.  Without a client it would stop the component and read through the
\* null pointer that leaves.
BeginHeartbeat ==
  /\ tick = Outside
  /\ \E b \in beats :
       IF b.id \in cancelled THEN beats' = beats \ {b} /\ UNCHANGED tick /\ TickUnchanged
       ELSE IF ~flag \/ instance = 0 THEN UNCHANGED <<beats, tick>> /\ TickUnchanged
       ELSE IF component[instance].client
       THEN tick' = [at |-> "compile", of |-> 0] /\ UNCHANGED beats /\ TickUnchanged
       ELSE UNCHANGED beats /\ IsUndefined("ticker")
  /\ UNCHANGED timers

CompileCurrentHeartbeatData ==
  /\ tick.at = "compile"
  /\ IF instance \in deleted \cup {0} THEN IsUndefined("heartbeat")
     ELSE /\ tick' = IF flag /\ component[instance].info THEN [tick EXCEPT !.at = "send"] ELSE Outside
          /\ UNCHANGED <<timers, beats>>
          /\ TickUnchanged

SendHeartbeat ==
  /\ tick.at = "send"
  /\ IF instance \in deleted \cup {0} THEN IsUndefined("heartbeat")
     ELSE /\ tick' = Outside
          /\ UNCHANGED <<timers, beats>>
          /\ TickUnchanged

\* The time limit of a registration, perhaps of an instance that is gone.
BeginTimeLimit ==
  /\ tick = Outside
  /\ \E n \in timers : timers' = timers \ {n}
  /\ tick' = IF instance = 0 THEN Outside ELSE [at |-> "lock", of |-> 0]
  /\ UNCHANGED beats
  /\ TickUnchanged

LockTimeLimit ==
  /\ tick.at = "lock"
  /\ IF instance \in deleted \cup {0} THEN IsUndefined("time limit")
     ELSE /\ ~Locked(instance)
          /\ tick' = [at |-> "test", of |-> instance]
          /\ UNCHANGED <<timers, beats>>
          /\ TickUnchanged

\* Nobody has answered: the component is stopped, and its result callback then read through
\* the null pointer.
TestTimeLimit ==
  /\ tick.at = "test"
  /\ IF instance \in deleted \cup {0} \/ (flag /\ ~component[instance].operated)
     THEN IsUndefined("time limit")
     ELSE tick' = Outside /\ UNCHANGED <<timers, beats>> /\ TickUnchanged

TickerStep ==
  \/ BeginHeartbeat \/ CompileCurrentHeartbeatData \/ SendHeartbeat
  \/ BeginTimeLimit \/ LockTimeLimit \/ TestTimeLimit

-----------------------------------------------------------------------------
(* The component's callback in the system manager's thread.                *)

SampleUnchanged ==
  UNCHANGED <<clientVars, flag, instance, made, deleted, user, report, tick, timers, beats, cancelled,
              nextTask, orphaned, undefinedBy, running, manager, emptyFirst, nextIx, callbacks, index, whole,
              called, shaken>>

SystemCallback ==
  /\ den = "inside"
  /\ den' = IF flag /\ instance # 0 THEN "data" ELSE "look"
  /\ UNCHANGED component
  /\ SampleUnchanged

SetCurrentSystemInfo ==
  /\ den = "data"
  /\ IF instance \in deleted \cup {0} THEN IsUndefined("system")
     ELSE /\ component' = [component EXCEPT ![instance].info = TRUE]
          /\ den' = "look"
          /\ SampleUnchanged

-----------------------------------------------------------------------------
ManagerStep ==
  \/ StartManager \/ Sample \/ Count \/ Look \/ Copy \/ (\E n \in Id : Call(n)) \/ CallThrows
  \/ Erase \/ Awake \/ EndManager \/ DeleteManager \/ ResetManager

UserStep ==
  \/ StartComponent \/ SetResultCallback \/ RegisterSystemCallback \/ AddSystemCallback \/ Connect
  \/ ConstructComponentClient \/ Register
  \/ StopComponent \/ RemoveSystemCallback \/ TakeSystemCallback \/ CancelHeartbeat
  \/ DeleteInstance \/ ResetInstance

ClientStep ==
  \/ NewUDPClient(Application) \/ ConstructClient(Application) \/ EndClient(Application)
  \/ \E c \in Client : Listen(c) \/ \E t \in Carrier : Receive(c, t)
  \/ \E t \in Carrier : \/ BeginCarrier(t) \/ Analyze(t)
                        \/ carrier[t].of = Application /\ Answer(t)

Next ==
  \/ UserStep
  \/ TickerStep
  \/ \E t \in Carrier : ReportStep(t)
  \/ SystemCallback
  \/ SetCurrentSystemInfo
  \/ ManagerStep /\ UNCHANGED <<clientVars, own>>
  \/ ClientStep /\ UNCHANGED <<managerVars, own>>

Spec == Init /\ [][Next]_allVars

-----------------------------------------------------------------------------
(* Properties.                                                             *)

\* The application's result callback of StartComponent is called at most once, though two
\* answers of the registry may be in two pool tasks, and an answer to an earlier instance
\* in a third.
ResultOnce == \A g \in Instance : component[g].told <= 1

\* StopComponent in one thread never takes the instance from under a heartbeat in another;
\* and unless a stop came while an answer was being worked on, whose heartbeat task it then
\* could not cancel, every task that is not cancelled is the living instance's only one.
HeartbeatsOfTheLiving ==
  /\ "heartbeat" \notin undefinedBy
  /\ undefinedBy = {} /\ ~orphaned /\ user = "out" /\ (\A t \in Carrier : report[t] = Outside) =>
       \A b \in beats : b.id \in cancelled \/
         /\ b.of = instance
         /\ \A other \in beats \ {b} : other.id \in cancelled
=============================================================================
