---------------------------- MODULE SystemManager ----------------------------
(***************************************************************************)
(* BKSystemManager: a thread that samples the processor and the memory     *)
(* every second and calls each of Callbacks, from the last to the first,   *)
(* without the mutex that AddCallback and RemoveCallback take.  Its reads  *)
(* of the list therefore take time: one that an append or a removal meets  *)
(* finds the vector's memory moved or freed, which has no defined outcome. *)
(***************************************************************************)
EXTENDS Integers, Sequences, SequencesExt

CONSTANT MaxCallbackIx  \* the 32767 of StartSystem and AddCallback (bound of the ids)

ASSUME MaxCallbackIxIsPositive == MaxCallbackIx \in Nat \ {0, 1}

VARIABLES
  running,    \* bSystemStarted
  manager,    \* ManagerInstance: "null", "alive", "deleted"
  emptyFirst, \* whether StartSystem was given an empty function
  nextIx,     \* CurrentCallbackUniqueIx
  callbacks,  \* Callbacks: the ids, in order
  den,        \* where the system thread is
  index,      \* its i
  whole,      \* history: callbacks that were there when the tick began and still are
  called,     \* history: called[n]: how often n was called in this tick
  shaken      \* history: in this tick the list changed during a read of it, or lost a callback

managerVars == <<running, manager, emptyFirst, nextIx, callbacks, den, index, whole, called, shaken>>

Id == 1..MaxCallbackIx
StartersIx == 1   \* the id of StartSystem's own callback (until the ids come round)

ManagerInit ==
  /\ running = FALSE
  /\ manager = "null"
  /\ emptyFirst = FALSE
  /\ nextIx = 1
  /\ callbacks = <<>>
  /\ den = "none"
  /\ index = 0
  /\ whole = {}
  /\ called = [n \in Id |-> 0]
  /\ shaken = FALSE

IsEmptyFunction(n) == emptyFirst /\ n = StartersIx
NextIx(n) == IF n + 1 >= MaxCallbackIx THEN 1 ELSE n + 1

StartManager ==
  /\ ~running /\ manager = "null"
  /\ running' = TRUE
  /\ manager' = "alive"
  /\ emptyFirst' \in BOOLEAN
  /\ callbacks' = <<nextIx>>
  /\ nextIx' = NextIx(nextIx)
  /\ den' = "sample"
  /\ UNCHANGED <<index, whole, called, shaken>>

-----------------------------------------------------------------------------
(* SystemThreadsDen.  In the states of Reading the thread is in the vector. *)

Reading == {"count", "copy", "recopy", "erase"}

\* The loop's test, and the new LastSystemInfo.
Sample ==
  /\ den = "sample"
  /\ IF running THEN den' = "count" /\ shaken' = FALSE
     ELSE den' = "exited" /\ UNCHANGED shaken
  /\ UNCHANGED <<running, manager, emptyFirst, nextIx, callbacks, index, whole, called>>

\* Callbacks.Num().
Count ==
  /\ den = "count"
  /\ den' = "look"
  /\ index' = Len(callbacks)
  /\ whole' = ToSet(callbacks)
  /\ called' = [n \in Id |-> 0]
  /\ UNCHANGED <<running, manager, emptyFirst, nextIx, callbacks, shaken>>

Look ==
  /\ den = "look"
  /\ den' = IF index = 0 THEN "sleep" ELSE "copy"
  /\ UNCHANGED <<running, manager, emptyFirst, nextIx, callbacks, index, whole, called, shaken>>

\* Callbacks[i] copies the element, or throws out_of_range when the list has become shorter,
\* which nobody catches.
Copy ==
  /\ den = "copy"
  /\ den' = IF index > Len(callbacks) THEN "thrown"
            ELSE IF IsEmptyFunction(callbacks[index]) THEN "erase" ELSE "recopy"
  /\ UNCHANGED <<running, manager, emptyFirst, nextIx, callbacks, index, whole, called, shaken>>

\* The element is copied once more, for the function that is then called, on the copy.
Call(n) ==
  /\ den = "recopy"
  /\ index <= Len(callbacks) /\ callbacks[index] = n
  /\ called' = [called EXCEPT ![n] = @ + 1]
  /\ index' = index - 1
  /\ den' = IF n = StartersIx THEN "look" ELSE "inside"
  /\ UNCHANGED <<running, manager, emptyFirst, nextIx, callbacks, whole, shaken>>

CallThrows ==
  /\ den = "recopy" /\ index > Len(callbacks)
  /\ den' = "thrown"
  /\ UNCHANGED <<running, manager, emptyFirst, nextIx, callbacks, index, whole, called, shaken>>

\* RemoveAt(i); past the end, vector::erase is undefined.
Erase ==
  /\ den = "erase"
  /\ IF index > Len(callbacks) THEN den' = "undefined" /\ UNCHANGED <<callbacks, whole, index>>
     ELSE /\ callbacks' = RemoveAt(callbacks, index)
          /\ whole' = whole \ {callbacks[index]}
          /\ index' = index - 1
          /\ den' = "look"
  /\ UNCHANGED <<running, manager, emptyFirst, nextIx, called, shaken>>

Awake ==
  /\ den = "sleep"
  /\ den' = "sample"
  /\ UNCHANGED <<running, manager, emptyFirst, nextIx, callbacks, index, whole, called, shaken>>

EndManager ==
  /\ running
  /\ running' = FALSE
  /\ UNCHANGED <<manager, emptyFirst, nextIx, callbacks, den, index, whole, called, shaken>>

\* Join, then delete: of the thread's object and of the manager, with all its fields.
DeleteManager ==
  /\ ~running /\ manager = "alive" /\ den = "exited"
  /\ manager' = "deleted"
  /\ nextIx' = 1 /\ callbacks' = <<>> /\ emptyFirst' = FALSE
  /\ den' = "none" /\ index' = 0 /\ whole' = {} /\ called' = [n \in Id |-> 0] /\ shaken' = FALSE
  /\ UNCHANGED running

\* Only then is ManagerInstance null again; the system may be started once more.
ResetManager ==
  /\ ~running /\ manager = "deleted"
  /\ manager' = "null"
  /\ UNCHANGED <<running, emptyFirst, nextIx, callbacks, den, index, whole, called, shaken>>

-----------------------------------------------------------------------------
(* AddCallback and RemoveCallback, called by other components: first their *)
(* test, then, with the mutex, their work on the manager there then is.    *)

Callable == running /\ manager # "null"

\* What a change of the list under the mutex does to a thread that reads it without.
MeetsReading(changed) ==
  IF changed /\ den \in Reading THEN den' \in {den, "undefined"} ELSE den' = den

\* Fault: the new callback goes before the others.
AddCallbackInFront ==
  /\ callbacks' = <<nextIx>> \o callbacks
  /\ nextIx' = NextIx(nextIx)
  /\ MeetsReading(TRUE)
  /\ shaken' = (shaken \/ den \in Reading)
  /\ UNCHANGED <<running, manager, emptyFirst, index, whole, called>>

\* AddUnique: an id that is in use again adds nothing.
AddCallback ==
  /\ callbacks' = IF nextIx \in ToSet(callbacks) THEN callbacks ELSE Append(callbacks, nextIx)
  /\ nextIx' = NextIx(nextIx)
  /\ MeetsReading(callbacks' # callbacks)
  /\ shaken' = (shaken \/ (den \in Reading /\ callbacks' # callbacks))
  /\ UNCHANGED <<running, manager, emptyFirst, index, whole, called>>

\* TArray::Remove walks from the element after the last down to the second: the first is
\* never looked at.  What lies after the last is not defined: it may look like the id, and the
\* last element is then dropped for it, and lies after the last in its turn.  (No id is in the
\* list twice.)
Removed(list, n, dropped) ==
  LET kept == SubSeq(list, 1, Len(list) - dropped)
      found == {i \in 2..Len(kept) : kept[i] = n}
  IN  IF found = {} THEN kept ELSE RemoveAt(kept, CHOOSE i \in found : TRUE)

InTick == den \in Reading \cup {"look", "inside", "data"}

RemoveCallback(n) ==
  \E dropped \in 0..Len(callbacks) :
    /\ callbacks' = Removed(callbacks, n, dropped)
    /\ whole' = whole \cap ToSet(callbacks')
    /\ MeetsReading(callbacks' # callbacks)
    /\ shaken' = (shaken \/ (InTick /\ callbacks' # callbacks))
    /\ UNCHANGED <<running, manager, emptyFirst, nextIx, index, called>>

\* Every callback that is registered throughout a tick is called exactly once in it, and the
\* thread comes to its end, though others may be added without its knowledge between two reads
\* of the list: they come behind the iteration.  (An addition that meets a read, or a removal,
\* may let it skip, repeat, throw or worse; nothing in the code keeps it off.)
TickCallsEachOnce ==
  den \in {"sleep", "thrown", "undefined"} /\ ~shaken =>
    /\ den = "sleep"
    /\ \A n \in whole : called[n] = 1
=============================================================================
