---------------------------- MODULE DiscoveryProofs ----------------------------
(***************************************************************************)
(* Theorems about Discovery, the system manager that calls its component   *)
(* and the clients it makes, for any instances, clients and tasks: every   *)
(* callback is called once in a tick, a client is deleted after its parts, *)
(* a start has one result, and heartbeats are the living instance's.       *)
(***************************************************************************)
EXTENDS Discovery, TLAPS

\* A queue without repetitions has none after a new element was pushed.
LEMMA PushInjective ==
  ASSUME NEW S, NEW s \in Seq(S), NEW x \in S, x \notin ToSet(s), IsInjective(s)
  PROVE  IsInjective(Append(s, x))
<1>1. /\ \A i \in 1..Len(s) : Append(s, x)[i] = s[i]
      /\ Append(s, x)[Len(s) + 1] = x
  OBVIOUS
<1>2. DOMAIN s = 1..Len(s) /\ DOMAIN Append(s, x) = 1..(Len(s) + 1) /\ Len(s) \in Nat
  OBVIOUS
<1>3. \A i \in 1..Len(s) : s[i] # x
  BY <1>2 DEF ToSet
<1>4. QED
  BY <1>1, <1>2, <1>3 DEF IsInjective

-----------------------------------------------------------------------------
(* The invariant of the system manager.                                    *)

ManagerTypes ==
  /\ running \in BOOLEAN /\ emptyFirst \in BOOLEAN /\ shaken \in BOOLEAN
  /\ manager \in {"null", "alive", "deleted"}
  /\ nextIx \in 1..(MaxCallbackIx - 1)
  /\ callbacks \in Seq(Id) /\ IsInjective(callbacks)
  /\ den \in Reading \cup {"none", "sample", "look", "inside", "data", "sleep", "exited", "thrown",
                          "undefined"}
  /\ index \in Nat /\ (den \in {"copy", "recopy", "erase"} => index >= 1)
  /\ whole \subseteq Id
  /\ called \in [Id -> Nat]

\* In a tick, a callback behind the iteration was called and one before it was not.
TickInv ==
  InTick /\ den # "count" /\ ~shaken =>
    /\ index <= Len(callbacks)
    /\ \A n \in whole : \E i \in 1..Len(callbacks) :
         callbacks[i] = n /\ called[n] = IF i > index THEN 1 ELSE 0

ManagerInv == ManagerTypes /\ TickInv /\ TickCallsEachOnce

\* One element is taken out of a sequence.
LEMMA RemoveAtIs ==
  ASSUME NEW S, NEW s \in Seq(S), NEW k \in 1..Len(s), NEW rest, rest = RemoveAt(s, k)
  PROVE  /\ rest \in Seq(S) /\ Len(rest) = Len(s) - 1
         /\ \A i \in 1..(k - 1) : rest[i] = s[i]
         /\ \A i \in k..(Len(s) - 1) : rest[i] = s[i + 1]
         /\ IsInjective(s) => IsInjective(rest)
<1>1. SubSeq(s, 1, k - 1) \in Seq(S) /\ SubSeq(s, k + 1, Len(s)) \in Seq(S)
  OBVIOUS
<1>2. PICK a \in Seq(S) : a = SubSeq(s, 1, k - 1)
  BY <1>1
<1>3. PICK b \in Seq(S) : b = SubSeq(s, k + 1, Len(s))
  BY <1>1
<1>4. Len(a) = k - 1 /\ \A i \in 1..(k - 1) : a[i] = s[i]
  BY <1>2
<1>5. Len(b) = Len(s) - k /\ \A i \in 1..(Len(s) - k) : b[i] = s[i + k]
  BY <1>3
<1>6. rest = a \o b
  BY <1>2, <1>3 DEF RemoveAt
<1>7. /\ rest \in Seq(S) /\ Len(rest) = Len(s) - 1
      /\ \A i \in 1..(k - 1) : rest[i] = s[i]
      /\ \A i \in k..(Len(s) - 1) : rest[i] = b[i - (k - 1)]
  <2>1. /\ rest \in Seq(S) /\ Len(rest) = Len(a) + Len(b)
        /\ \A i \in 1..Len(a) : rest[i] = a[i]
        /\ \A i \in (Len(a) + 1)..(Len(a) + Len(b)) : rest[i] = b[i - Len(a)]
    BY <1>6
  <2>2. Len(a) + Len(b) = Len(s) - 1 /\ Len(a) + 1 = k
    BY <1>4, <1>5
  <2> QED BY <1>4, <2>1, <2>2
<1>8. \A i \in k..(Len(s) - 1) : rest[i] = s[i + 1]
  <2>1. \A i \in k..(Len(s) - 1) : i - (k - 1) \in 1..(Len(s) - k) /\ i - (k - 1) + k = i + 1
    OBVIOUS
  <2> QED BY <1>5, <1>7, <2>1
<1>9. ASSUME IsInjective(s) PROVE IsInjective(rest)
  <2>1. DOMAIN s = 1..Len(s) /\ DOMAIN rest = 1..(Len(s) - 1)
    BY <1>7
  <2>2. SUFFICES ASSUME NEW i \in 1..(Len(s) - 1), NEW j \in 1..(Len(s) - 1), rest[i] = rest[j]
                 PROVE  i = j
    BY <2>1 DEF IsInjective
  <2>3. \A m \in 1..(Len(s) - 1) : \E l \in 1..Len(s) :
          rest[m] = s[l] /\ l = IF m < k THEN m ELSE m + 1
    BY <1>7, <1>8
  <2>4. PICK l \in 1..Len(s) : rest[i] = s[l] /\ l = IF i < k THEN i ELSE i + 1
    BY <2>3
  <2>5. PICK m \in 1..Len(s) : rest[j] = s[m] /\ m = IF j < k THEN j ELSE j + 1
    BY <2>3
  <2>6. l = m
    BY <1>9, <2>1, <2>2, <2>4, <2>5 DEF IsInjective
  <2> QED BY <2>4, <2>5, <2>6
<1> QED BY <1>7, <1>8, <1>9

\* A prefix of a sequence without repetitions has none.
LEMMA PrefixIs ==
  ASSUME NEW S, NEW s \in Seq(S), NEW k \in 0..Len(s)
  PROVE  /\ SubSeq(s, 1, k) \in Seq(S)
         /\ IsInjective(s) => IsInjective(SubSeq(s, 1, k))
<1>1. SubSeq(s, 1, k) \in Seq(S)
  OBVIOUS
<1>2. PICK a \in Seq(S) : a = SubSeq(s, 1, k)
  BY <1>1
<1>3. Len(a) = k /\ \A i \in 1..k : a[i] = s[i]
  BY <1>2
<1>4. DOMAIN s = 1..Len(s) /\ DOMAIN a = 1..k
  BY <1>3
<1> QED BY <1>2, <1>3, <1>4 DEF IsInjective

\* Whatever TArray::Remove drops, nothing is added and nothing is there twice.
LEMMA RemovedIs ==
  ASSUME NEW S, NEW s \in Seq(S), IsInjective(s), NEW n, NEW d \in 0..Len(s)
  PROVE  Removed(s, n, d) \in Seq(S) /\ IsInjective(Removed(s, n, d))
<1>1. Len(s) - d \in 0..Len(s)
  OBVIOUS
<1>2. PICK kept \in Seq(S) : kept = SubSeq(s, 1, Len(s) - d) /\ IsInjective(kept)
  BY <1>1, PrefixIs
<1>3. PICK found : found = {i \in 2..Len(kept) : kept[i] = n}
  OBVIOUS
<1>4. CASE found = {}
  BY <1>2, <1>3, <1>4 DEF Removed
<1>5. CASE found # {}
  <2>1. PICK k \in 1..Len(kept) : k = CHOOSE i \in found : TRUE
    BY <1>3, <1>5
  <2>2. Removed(s, n, d) = RemoveAt(kept, k)
    BY <1>2, <1>3, <1>5, <2>1 DEF Removed
  <2> QED BY <1>2, <2>2, RemoveAtIs
<1> QED BY <1>4, <1>5

-----------------------------------------------------------------------------
(* The steps of the system manager, and of who adds and removes callbacks. *)

\* Initially there is no manager.
LEMMA ManagerStarts == ManagerInit => ManagerInv
<1> SUFFICES ASSUME ManagerInit PROVE ManagerInv
  OBVIOUS
<1>1. <<>> \in Seq(Id) /\ IsInjective(<<>>)
  BY DEF IsInjective
<1>2. 1 \in 1..(MaxCallbackIx - 1)
  BY MaxCallbackIxIsPositive
<1>3. ManagerTypes
  BY <1>1, <1>2 DEF ManagerInit, ManagerTypes
<1> QED BY <1>3 DEF ManagerInit, ManagerInv, TickInv, InTick, TickCallsEachOnce

\* The next id is one, and differs from the bound.
LEMMA NextIxIs ==
  ASSUME nextIx \in 1..(MaxCallbackIx - 1)
  PROVE  NextIx(nextIx) \in 1..(MaxCallbackIx - 1) /\ nextIx \in Id
BY MaxCallbackIxIsPositive DEF NextIx, Id

\* StartSystem makes the list of one.
LEMMA StartManagerKeeps == ManagerInv /\ StartManager => ManagerInv'
<1> SUFFICES ASSUME ManagerInv, StartManager PROVE ManagerInv'
  OBVIOUS
<1>1. ManagerTypes
  BY DEF ManagerInv
<1>2. NextIx(nextIx) \in 1..(MaxCallbackIx - 1) /\ nextIx \in Id
  BY <1>1, NextIxIs DEF ManagerTypes
<1>3. callbacks' \in Seq(Id) /\ IsInjective(callbacks')
  <2>1. <<nextIx>> \in Seq(Id) /\ IsInjective(<<nextIx>>)
    BY <1>2 DEF IsInjective
  <2> QED BY <2>1 DEF StartManager
<1>4. ManagerTypes'
  BY <1>1, <1>2, <1>3 DEF StartManager, ManagerTypes
<1> QED BY <1>4 DEF StartManager, ManagerInv, TickInv, InTick, Reading, TickCallsEachOnce

\* A new tick begins, or none.
LEMMA SampleKeeps == ManagerInv /\ Sample => ManagerInv'
<1> SUFFICES ASSUME ManagerInv, Sample PROVE ManagerInv'
  OBVIOUS
<1>1. /\ den' \in {"count", "exited"} /\ shaken' \in {FALSE, shaken}
      /\ UNCHANGED <<running, manager, emptyFirst, nextIx, callbacks, index, whole, called>>
  BY DEF Sample
<1>2. ManagerTypes'
  BY <1>1 DEF ManagerInv, ManagerTypes, Reading
<1>3. TickInv' /\ TickCallsEachOnce'
  BY <1>1 DEF TickInv, InTick, Reading, TickCallsEachOnce
<1> QED BY <1>2, <1>3 DEF ManagerInv

\* The iteration begins behind the last callback, with none called.
LEMMA CountKeeps == ManagerInv /\ Count => ManagerInv'
<1> SUFFICES ASSUME ManagerInv, Count PROVE ManagerInv'
  OBVIOUS
<1>1. ManagerTypes
  BY DEF ManagerInv
<1>2. /\ den' = "look" /\ index' = Len(callbacks) /\ whole' = ToSet(callbacks)
      /\ called' = [n \in Id |-> 0]
      /\ UNCHANGED <<running, manager, emptyFirst, nextIx, callbacks, shaken>>
  BY DEF Count
<1>3. \A n \in ToSet(callbacks) : n \in Id /\ \E i \in 1..Len(callbacks) : callbacks[i] = n
  BY <1>1 DEF ManagerTypes, ToSet
<1>4. Len(callbacks) \in Nat
  BY <1>1 DEF ManagerTypes
<1>5. ManagerTypes'
  BY <1>1, <1>2, <1>3, <1>4 DEF ManagerTypes
<1>6. TickInv'
  <2>1. \A n \in whole' : \E i \in 1..Len(callbacks) : callbacks[i] = n /\ called'[n] = 0
    BY <1>2, <1>3
  <2>2. \A i \in 1..Len(callbacks) : ~(i > index')
    BY <1>2, <1>4
  <2> QED BY <1>2, <1>4, <2>1, <2>2 DEF TickInv
<1> QED BY <1>2, <1>5, <1>6 DEF ManagerInv, TickCallsEachOnce

\* The iteration ends, or goes on at the index.
LEMMA LookKeeps == ManagerInv /\ Look => ManagerInv'
<1> SUFFICES ASSUME ManagerInv, Look PROVE ManagerInv'
  OBVIOUS
<1>1. /\ ManagerTypes /\ TickInv /\ den = "look"
      /\ UNCHANGED <<running, manager, emptyFirst, nextIx, callbacks, index, whole, called, shaken>>
      /\ den' = IF index = 0 THEN "sleep" ELSE "copy"
  BY DEF ManagerInv, Look
<1>2. ManagerTypes'
  BY <1>1 DEF ManagerTypes, Reading
<1>3. TickInv'
  BY <1>1 DEF TickInv, InTick
<1>4. TickCallsEachOnce'
  BY <1>1 DEF TickInv, InTick, TickCallsEachOnce
<1> QED BY <1>2, <1>3, <1>4 DEF ManagerInv

\* A callback is found to call or to drop, unless the index is behind the list.
LEMMA CopyKeeps == ManagerInv /\ Copy => ManagerInv'
<1> SUFFICES ASSUME ManagerInv, Copy PROVE ManagerInv'
  OBVIOUS
<1>1. /\ ManagerTypes /\ TickInv /\ den = "copy"
      /\ UNCHANGED <<running, manager, emptyFirst, nextIx, callbacks, index, whole, called, shaken>>
      /\ \/ den' = "thrown" /\ index > Len(callbacks)
         \/ den' \in {"erase", "recopy"}
  BY DEF ManagerInv, Copy
<1>2. ManagerTypes'
  BY <1>1 DEF ManagerTypes, Reading
<1>3. TickInv'
  BY <1>1 DEF TickInv, InTick, Reading
<1>4. index > Len(callbacks) => shaken
  BY <1>1 DEF TickInv, InTick, Reading, ManagerTypes
<1>5. TickCallsEachOnce'
  BY <1>1, <1>4 DEF TickCallsEachOnce
<1> QED BY <1>2, <1>3, <1>5 DEF ManagerInv

\* An empty function is dropped from the list.
LEMMA EraseKeeps == ManagerInv /\ Erase => ManagerInv'
<1> SUFFICES ASSUME ManagerInv, Erase PROVE ManagerInv'
  OBVIOUS
<1>1. /\ ManagerTypes /\ TickInv /\ den = "erase" /\ InTick
      /\ UNCHANGED <<running, manager, emptyFirst, nextIx, called, shaken>>
  BY DEF ManagerInv, Erase, InTick, Reading
<1>2. CASE index > Len(callbacks)
  <2>1. den' = "undefined" /\ UNCHANGED <<index, callbacks, whole>>
    BY <1>2 DEF Erase
  <2>2. ManagerTypes'
    BY <1>1, <2>1 DEF ManagerTypes
  <2>3. shaken
    BY <1>1, <1>2 DEF TickInv, ManagerTypes
  <2> QED BY <1>1, <2>1, <2>2, <2>3 DEF ManagerInv, TickInv, TickCallsEachOnce
<1>3. CASE ~(index > Len(callbacks))
  <2>1. /\ whole' = whole \ {callbacks[index]} /\ callbacks' = RemoveAt(callbacks, index)
        /\ index' = index - 1 /\ den' = "look"
    BY <1>3 DEF Erase
  <2>2. index \in 1..Len(callbacks) /\ callbacks \in Seq(Id) /\ IsInjective(callbacks)
    BY <1>1, <1>3 DEF ManagerTypes
  <2>3. /\ callbacks' \in Seq(Id) /\ IsInjective(callbacks')
        /\ Len(callbacks') = Len(callbacks) - 1
        /\ \A i \in 1..(index - 1) : callbacks'[i] = callbacks[i]
        /\ \A i \in index..(Len(callbacks) - 1) : callbacks'[i] = callbacks[i + 1]
    BY <2>1, <2>2, RemoveAtIs
  <2>4. index' \in Nat
    BY <2>1, <2>2
  <2>5. ManagerTypes'
    BY <1>1, <2>1, <2>3, <2>4 DEF ManagerTypes
  <2>6. ASSUME ~shaken, NEW n \in whole'
        PROVE  \E i \in 1..Len(callbacks') :
                 callbacks'[i] = n /\ called[n] = IF i > index' THEN 1 ELSE 0
    <3>1. n \in whole /\ n # callbacks[index]
      BY <2>1
    <3>2. PICK i \in 1..Len(callbacks) :
            callbacks[i] = n /\ called[n] = IF i > index THEN 1 ELSE 0
      BY <1>1, <2>6, <3>1 DEF TickInv
    <3>3. CASE i < index
      <4>1. i \in 1..(index - 1) /\ i \in 1..Len(callbacks') /\ ~(i > index') /\ ~(i > index)
        BY <2>1, <2>2, <2>3, <3>3
      <4> QED BY <2>3, <3>2, <4>1
    <3>4. CASE i > index
      <4>1. /\ i - 1 \in index..(Len(callbacks) - 1) /\ i - 1 \in 1..Len(callbacks')
            /\ i - 1 > index' /\ (i - 1) + 1 = i
        BY <2>1, <2>2, <2>3, <3>4
      <4> QED BY <2>3, <3>2, <3>4, <4>1
    <3> QED BY <2>2, <3>1, <3>2, <3>3, <3>4
  <2>7. index' <= Len(callbacks')
    BY <2>1, <2>2, <2>3
  <2>8. TickInv'
    BY <1>1, <2>6, <2>7 DEF TickInv
  <2> QED BY <2>1, <2>5, <2>8 DEF ManagerInv, TickCallsEachOnce
<1> QED BY <1>2, <1>3

\* The callback at the index is called, and the iteration goes on before it.
LEMMA CallKeeps == ASSUME ManagerInv, NEW n \in Id, Call(n) PROVE ManagerInv'
<1>1. /\ ManagerTypes /\ TickInv /\ den = "recopy" /\ InTick
      /\ index <= Len(callbacks) /\ callbacks[index] = n
      /\ called' = [called EXCEPT ![n] = @ + 1] /\ index' = index - 1
      /\ den' \in {"look", "inside"}
      /\ UNCHANGED <<running, manager, emptyFirst, nextIx, callbacks, whole, shaken>>
  BY DEF ManagerInv, Call, InTick, Reading
<1>2. /\ index \in 1..Len(callbacks) /\ index' \in Nat /\ called' \in [Id -> Nat]
      /\ called'[n] = called[n] + 1 /\ (\A m \in Id : m # n => called'[m] = called[m])
  BY <1>1 DEF ManagerTypes
<1>3. ManagerTypes'
  BY <1>1, <1>2 DEF ManagerTypes
<1>4. ASSUME ~shaken, NEW m \in whole
      PROVE  \E i \in 1..Len(callbacks) :
               callbacks[i] = m /\ called'[m] = IF i > index' THEN 1 ELSE 0
  <2>1. PICK i \in 1..Len(callbacks) : callbacks[i] = m /\ called[m] = IF i > index THEN 1 ELSE 0
    BY <1>1, <1>4 DEF TickInv
  <2>2. m \in Id /\ DOMAIN callbacks = 1..Len(callbacks)
    BY <1>1 DEF ManagerTypes
  <2>3. CASE m = n
    <3>1. i = index
      BY <1>1, <1>2, <2>1, <2>2, <2>3 DEF ManagerTypes, IsInjective
    <3>2. i > index' /\ ~(i > index)
      BY <1>1, <1>2, <3>1
    <3> QED BY <1>2, <2>1, <2>3, <3>2
  <2>4. CASE m # n
    <3>1. i # index
      BY <1>1, <2>1, <2>4
    <3>2. i > index' <=> i > index
      BY <1>1, <1>2, <3>1
    <3> QED BY <1>2, <2>1, <2>2, <2>4, <3>2
  <2> QED BY <2>3, <2>4
<1>5. index' <= Len(callbacks)
  BY <1>1, <1>2
<1>6. TickInv'
  BY <1>1, <1>4, <1>5 DEF TickInv
<1> QED BY <1>1, <1>3, <1>6 DEF ManagerInv, TickCallsEachOnce

\* What only moves the thread, outside a tick or inside it.
LEMMA DenKeeps ==
  ASSUME ManagerInv,
         UNCHANGED <<emptyFirst, nextIx, callbacks, index, whole, called, shaken>>,
         running' \in BOOLEAN, manager' \in {"null", "alive", "deleted"},
         \/ den' = den
         \/ den \in {"inside", "data"} /\ den' \in {"data", "look"}
         \/ den = "sleep" /\ den' = "sample"
         \/ den = "recopy" /\ index > Len(callbacks) /\ den' = "thrown"
  PROVE  ManagerInv'
<1>1. ManagerTypes /\ TickInv /\ TickCallsEachOnce
  BY DEF ManagerInv
<1>2. ManagerTypes'
  BY <1>1 DEF ManagerTypes
<1>3. den' = "thrown" /\ den # den' => shaken
  <2>1. Len(callbacks) \in Nat /\ index \in Nat
    BY <1>1 DEF ManagerTypes
  <2> QED BY <1>1, <2>1 DEF TickInv, InTick, Reading
<1>4. TickInv'
  BY <1>1 DEF TickInv, InTick, Reading
<1>5. TickCallsEachOnce'
  BY <1>1, <1>3 DEF TickCallsEachOnce
<1> QED BY <1>2, <1>4, <1>5 DEF ManagerInv

\* A callback that is added comes behind the iteration.
LEMMA AddCallbackKeeps == ManagerInv /\ AddCallback => ManagerInv'
<1> SUFFICES ASSUME ManagerInv, AddCallback PROVE ManagerInv'
  OBVIOUS
<1>1. /\ ManagerTypes /\ TickInv /\ TickCallsEachOnce
      /\ UNCHANGED <<running, manager, emptyFirst, index, whole, called>>
      /\ \/ den' = den
         \/ den' = "undefined" /\ shaken'
      /\ shaken' \in BOOLEAN /\ (shaken => shaken')
      /\ nextIx' = NextIx(nextIx)
      /\ callbacks' = callbacks \/ (nextIx \notin ToSet(callbacks) /\ callbacks' = Append(callbacks, nextIx))
  BY DEF ManagerInv, ManagerTypes, AddCallback, MeetsReading
<1>2. nextIx' \in 1..(MaxCallbackIx - 1) /\ nextIx \in Id
  BY <1>1, NextIxIs DEF ManagerTypes
<1>3. callbacks \in Seq(Id) /\ IsInjective(callbacks)
  BY <1>1 DEF ManagerTypes
<1>4. callbacks' \in Seq(Id) /\ IsInjective(callbacks')
  <2>1. CASE callbacks' = callbacks
    BY <1>3, <2>1
  <2>2. CASE nextIx \notin ToSet(callbacks) /\ callbacks' = Append(callbacks, nextIx)
    <3>1. callbacks' \in Seq(Id)
      BY <1>2, <1>3, <2>2
    <3>2. IsInjective(Append(callbacks, nextIx))
      BY <1>2, <1>3, <2>2, PushInjective
    <3> QED BY <2>2, <3>1, <3>2
  <2> QED BY <1>1, <2>1, <2>2
<1>5. Len(callbacks) <= Len(callbacks') /\ \A i \in 1..Len(callbacks) : callbacks'[i] = callbacks[i]
  BY <1>1, <1>2, <1>3
<1>6. ManagerTypes'
  BY <1>1, <1>2, <1>4 DEF ManagerTypes
<1>7. TickInv'
  <2>1. ASSUME InTick, den # "count", ~shaken
        PROVE  /\ index <= Len(callbacks')
               /\ \A n \in whole : \E i \in 1..Len(callbacks') :
                    callbacks'[i] = n /\ called[n] = IF i > index THEN 1 ELSE 0
    <3>1. index \in Nat /\ Len(callbacks) \in Nat /\ Len(callbacks') \in Nat
      BY <1>3, <1>4, <1>1 DEF ManagerTypes
    <3>2. 1..Len(callbacks) \subseteq 1..Len(callbacks')
      BY <1>5, <3>1
    <3> QED BY <1>1, <1>5, <2>1, <3>1, <3>2 DEF TickInv
  <2> QED BY <1>1, <2>1 DEF TickInv, InTick, Reading
<1>8. TickCallsEachOnce'
  BY <1>1 DEF TickCallsEachOnce
<1> QED BY <1>6, <1>7, <1>8 DEF ManagerInv

\* A removal from under the iteration is one that shakes it.
LEMMA RemoveCallbackKeeps == ASSUME ManagerInv, NEW n, RemoveCallback(n) PROVE ManagerInv'
<1>1. PICK d \in 0..Len(callbacks) :
        /\ callbacks' = Removed(callbacks, n, d)
        /\ whole' = whole \cap ToSet(callbacks')
        /\ shaken' = (shaken \/ (InTick /\ callbacks' # callbacks))
        /\ den' = den \/ (den' = "undefined" /\ shaken')
        /\ UNCHANGED <<running, manager, emptyFirst, nextIx, index, called>>
  BY DEF RemoveCallback, MeetsReading, InTick
<1>2. ManagerTypes /\ TickInv /\ TickCallsEachOnce
  BY DEF ManagerInv
<1>3. callbacks \in Seq(Id) /\ IsInjective(callbacks)
  BY <1>2 DEF ManagerTypes
<1>4. callbacks' \in Seq(Id) /\ IsInjective(callbacks')
  BY <1>1, <1>3, RemovedIs
<1>5. shaken' \in BOOLEAN
  BY <1>1
<1>6. ManagerTypes'
  BY <1>1, <1>2, <1>4, <1>5 DEF ManagerTypes
<1>7. whole' \subseteq whole
  BY <1>1
<1>8. TickInv'
  BY <1>1, <1>2, <1>7 DEF TickInv, InTick
<1>9. TickCallsEachOnce'
  BY <1>1, <1>2, <1>7 DEF TickCallsEachOnce
<1> QED BY <1>6, <1>8, <1>9 DEF ManagerInv

\* The manager is deleted, and may be made anew.
LEMMA DeleteManagerKeeps == ManagerInv /\ DeleteManager => ManagerInv'
<1> SUFFICES ASSUME ManagerInv, DeleteManager PROVE ManagerInv'
  OBVIOUS
<1>1. <<>> \in Seq(Id) /\ IsInjective(<<>>)
  BY DEF IsInjective
<1>2. 1 \in 1..(MaxCallbackIx - 1)
  BY MaxCallbackIxIsPositive
<1>3. ManagerTypes'
  BY <1>1, <1>2 DEF DeleteManager, ManagerInv, ManagerTypes
<1> QED BY <1>3 DEF DeleteManager, ManagerInv, TickInv, InTick, Reading, TickCallsEachOnce

\* Every step of the manager's own.
LEMMA ManagerKeeps == ManagerInv /\ ManagerStep => ManagerInv'
<1> SUFFICES ASSUME ManagerInv, ManagerStep PROVE ManagerInv'
  OBVIOUS
<1>1. running \in BOOLEAN /\ manager \in {"null", "alive", "deleted"}
  BY DEF ManagerInv, ManagerTypes
<1>2. CASE StartManager
  BY <1>2, StartManagerKeeps
<1>3. CASE Sample \/ Count \/ Look \/ Copy \/ Erase
  BY <1>3, SampleKeeps, CountKeeps, LookKeeps, CopyKeeps, EraseKeeps
<1>4. CASE \E n \in Id : Call(n)
  BY <1>4, CallKeeps
<1>5. CASE CallThrows
  BY <1>1, <1>5, DenKeeps DEF CallThrows
<1>6. CASE Awake
  BY <1>1, <1>6, DenKeeps DEF Awake
<1>7. CASE EndManager
  BY <1>1, <1>7, DenKeeps DEF EndManager
<1>8. CASE DeleteManager
  BY <1>8, DeleteManagerKeeps
<1>9. CASE ResetManager
  BY <1>1, <1>9, DenKeeps DEF ResetManager
<1> QED BY <1>2, <1>3, <1>4, <1>5, <1>6, <1>7, <1>8, <1>9 DEF ManagerStep

-----------------------------------------------------------------------------
(* The invariant of a client.                                              *)

ClientRecord ==
  [memory : {"none", "alive", "deleted"}, started : BOOLEAN,
   thread : {"none", "created", "listening", "exited"},
   handler : {"null", "new", "up", "deleted"}, socket : {"none", "open", "closed"},
   address : {"none", "held", "freed"}, callback : BOOLEAN, kill : {"no", "marked"},
   suicides : Nat, calledBack : Nat,
   ending : {"no", "handler", "socket", "join", "pool", "done"}]

\* Who of those that were called back ends the client, and who then deletes it.
EndedOnce(k) ==
  /\ k.memory = "none" => k = NewClient
  /\ k.started => k.memory = "alive" /\ k.ending = "no" /\ k.suicides = k.calledBack
  /\ k.memory = "alive" /\ ~k.started => k.ending # "no"
  /\ k.ending # "no" => ~k.started /\ k.suicides < k.calledBack
  /\ k.memory = "deleted" /\ k.calledBack = 1 => k.ending = "done"

\* What the end has behind it.
EndedInOrder(k) ==
  /\ k.ending \in {"socket", "join", "pool", "done"} => k.handler = "deleted"
  /\ k.ending \in {"join", "pool", "done"} => k.socket = "closed" /\ k.address = "freed"
  /\ k.ending \in {"pool", "done"} => k.thread # "listening"

ClientOK(k) == k \in ClientRecord /\ EndedOnce(k) /\ EndedInOrder(k)

ClientsInv == client \in [Client -> ClientRecord] /\ \A c \in Client : ClientOK(client[c])

\* One client is replaced by another state of it.
LEMMA OneClient ==
  ASSUME ClientsInv, NEW c \in Client, NEW n, ClientOK(n), client' = [client EXCEPT ![c] = n]
  PROVE  ClientsInv'
<1>1. client' \in [Client -> ClientRecord]
  BY DEF ClientsInv, ClientOK
<1>2. client'[c] = n /\ \A d \in Client : d # c => client'[d] = client[d]
  BY DEF ClientsInv
<1> QED BY <1>1, <1>2 DEF ClientsInv

\* A client is made, or not.
LEMMA InitializeClientKeeps ==
  ASSUME ClientsInv, NEW c \in Client, client[c].memory = "none", InitializeClient(c)
  PROVE  ClientsInv'
<1>1. client[c] = NewClient
  BY DEF ClientsInv, ClientOK, EndedOnce
<1>2. PICK n : n = [NewClient EXCEPT !.memory = "alive", !.started = TRUE, !.callback = TRUE,
                                     !.socket = "open", !.address = "held", !.thread = "created"]
  OBVIOUS
<1>3. client' = [client EXCEPT ![c] = n]
  BY <1>1, <1>2 DEF InitializeClient, ClientsInv
<1>4. ClientOK(n)
  BY <1>2 DEF NewClient, ClientOK, ClientRecord, EndedOnce, EndedInOrder
<1> QED BY <1>3, <1>4, OneClient

\* A client of the application's is made, or its object deleted at once.
LEMMA NewUDPClientKeeps ==
  ASSUME ClientsInv, NEW c \in Client, NewUDPClient(c)
  PROVE  ClientsInv'
<1>1. client[c] = NewClient /\ client[c].memory = "none"
  BY DEF NewUDPClient, ClientsInv, ClientOK, EndedOnce
<1>2. CASE InitializeClient(c)
  BY <1>1, <1>2, InitializeClientKeeps
<1>3. CASE NewUDPClientFails(c)
  <2>1. PICK n : n = [NewClient EXCEPT !.memory = "deleted"]
    OBVIOUS
  <2>2. client' = [client EXCEPT ![c] = n]
    BY <1>1, <1>3, <2>1 DEF NewUDPClientFails, ClientsInv
  <2>3. n \in ClientRecord
    BY <2>1 DEF NewClient, ClientRecord
  <2>4. n.memory = "deleted" /\ n.started = FALSE /\ n.ending = "no" /\ n.calledBack = 0
    BY <2>1 DEF NewClient
  <2>5. ClientOK(n)
    BY <2>3, <2>4 DEF ClientOK, EndedOnce, EndedInOrder
  <2> QED BY <2>2, <2>5, OneClient
<1> QED BY <1>2, <1>3 DEF NewUDPClient

\* Its handler is made, and started, before anybody has called it back.
LEMMA ConstructClientKeeps ==
  ASSUME ClientsInv, NEW c \in Client, ConstructClient(c)
  PROVE  ClientsInv'
<1>1. PICK k : k = client[c] /\ ClientOK(k) /\ k \in ClientRecord
  BY DEF ClientsInv, ClientOK
<1>2. PICK h \in {"new", "up"} :
        /\ k.handler = (IF h = "new" THEN "null" ELSE "new")
        /\ h = "new" => k.thread # "none"
        /\ client' = [client EXCEPT ![c].handler = h]
  BY <1>1 DEF ConstructClient, MakeHandler, StartHandler
<1>3. PICK n : n = [k EXCEPT !.handler = h]
  OBVIOUS
<1>4. client' = [client EXCEPT ![c] = n]
  BY <1>1, <1>2, <1>3 DEF ClientsInv
<1>5. k.memory # "none"
  BY <1>1, <1>2 DEF ClientOK, EndedOnce, NewClient
<1>6. n \in ClientRecord
  BY <1>1, <1>2, <1>3 DEF ClientRecord
<1>7. /\ n.handler = h /\ n.memory = k.memory /\ n.started = k.started /\ n.ending = k.ending
      /\ n.suicides = k.suicides /\ n.calledBack = k.calledBack /\ n.socket = k.socket
      /\ n.address = k.address /\ n.thread = k.thread
  BY <1>1, <1>3 DEF ClientRecord
<1>8. ClientOK(n)
  BY <1>1, <1>2, <1>5, <1>6, <1>7 DEF ClientOK, EndedOnce, EndedInOrder
<1> QED BY <1>4, <1>8, OneClient

\* The thread listens as long as the client is started, and does not begin after that.
LEMMA ThreadKeeps ==
  ASSUME ClientsInv, NEW c \in Client, client[c].thread \in {"created", "listening"},
         NEW w \in {"listening", "exited"}, w = "listening" => client[c].started,
         client' = [client EXCEPT ![c].thread = w]
  PROVE  ClientsInv'
<1>1. PICK k : k = client[c] /\ ClientOK(k) /\ k \in ClientRecord
  BY DEF ClientsInv, ClientOK
<1>2. PICK n : n = [k EXCEPT !.thread = w]
  OBVIOUS
<1>3. client' = [client EXCEPT ![c] = n]
  BY <1>1, <1>2 DEF ClientsInv
<1>4. k.memory # "none"
  BY <1>1 DEF ClientOK, EndedOnce, NewClient
<1>5. n \in ClientRecord
  BY <1>1, <1>2 DEF ClientRecord
<1>6. /\ n.handler = k.handler /\ n.memory = k.memory /\ n.started = k.started /\ n.ending = k.ending
      /\ n.suicides = k.suicides /\ n.calledBack = k.calledBack /\ n.socket = k.socket
      /\ n.address = k.address /\ n.thread = w
  BY <1>1, <1>2 DEF ClientRecord
<1>7. ClientOK(n)
  BY <1>1, <1>4, <1>5, <1>6 DEF ClientOK, EndedOnce, EndedInOrder
<1> QED BY <1>3, <1>7, OneClient

\* A field of the record is replaced.
LEMMA FieldIsReplaced ==
  ASSUME NEW k \in ClientRecord
  PROVE  /\ \A x \in {"alive", "deleted"} : [k EXCEPT !.memory = x] \in ClientRecord
         /\ [k EXCEPT !.started = FALSE] \in ClientRecord
         /\ \A x \in {"new", "up", "deleted"} : [k EXCEPT !.handler = x] \in ClientRecord
         /\ [k EXCEPT !.socket = "closed"] \in ClientRecord
         /\ [k EXCEPT !.address = "freed"] \in ClientRecord
         /\ [k EXCEPT !.callback = FALSE] \in ClientRecord
         /\ \A x \in Nat : [k EXCEPT !.suicides = x] \in ClientRecord
         /\ \A x \in Nat : [k EXCEPT !.calledBack = x] \in ClientRecord
         /\ \A x \in {"handler", "socket", "join", "pool", "done"} : [k EXCEPT !.ending = x] \in ClientRecord
<1>1. \A x \in {"alive", "deleted"} : [k EXCEPT !.memory = x] \in ClientRecord
  BY DEF ClientRecord
<1>2. [k EXCEPT !.started = FALSE] \in ClientRecord
  BY DEF ClientRecord
<1>3. \A x \in {"new", "up", "deleted"} : [k EXCEPT !.handler = x] \in ClientRecord
  BY DEF ClientRecord
<1>4. [k EXCEPT !.socket = "closed"] \in ClientRecord
  BY DEF ClientRecord
<1>5. [k EXCEPT !.address = "freed"] \in ClientRecord
  BY DEF ClientRecord
<1>6. [k EXCEPT !.callback = FALSE] \in ClientRecord
  BY DEF ClientRecord
<1>7. \A x \in Nat : [k EXCEPT !.suicides = x] \in ClientRecord
  BY DEF ClientRecord
<1>8. \A x \in Nat : [k EXCEPT !.calledBack = x] \in ClientRecord
  BY DEF ClientRecord
<1>9. \A x \in {"handler", "socket", "join", "pool", "done"} : [k EXCEPT !.ending = x] \in ClientRecord
  BY DEF ClientRecord
<1> QED BY <1>1, <1>2, <1>3, <1>4, <1>5, <1>6, <1>7, <1>8, <1>9

\* A client is told that its handler has to end, and its handler calls it back.
LEMMA HandlerCallsBack ==
  ASSUME ClientsInv, NEW c \in Client, MarkPendingKill(c) \/ ReadyToDie(c)
  PROVE  ClientsInv'
<1>1. PICK k : k = client[c] /\ ClientOK(k) /\ k \in ClientRecord
  BY DEF ClientsInv, ClientOK
<1>2. CASE MarkPendingKill(c)
  <2>1. PICK n : n = [k EXCEPT !.kill = "marked"]
    OBVIOUS
  <2>2. client' = [client EXCEPT ![c] = n]
    BY <1>1, <1>2, <2>1 DEF ClientsInv, MarkPendingKill
  <2>3. n \in ClientRecord
    BY <1>1, <2>1 DEF ClientRecord
  <2>4. /\ n.handler = k.handler /\ n.memory = k.memory /\ n.started = k.started /\ n.ending = k.ending
        /\ n.suicides = k.suicides /\ n.calledBack = k.calledBack /\ n.socket = k.socket
        /\ n.address = k.address /\ n.thread = k.thread
    BY <1>1, <2>1 DEF ClientRecord
  <2>5. k.memory = "alive"
    BY <1>1, <1>2 DEF MarkPendingKill
  <2>6. ClientOK(n)
    BY <1>1, <2>3, <2>4, <2>5 DEF ClientOK, EndedOnce, EndedInOrder
  <2> QED BY <2>2, <2>6, OneClient
<1>3. CASE ReadyToDie(c)
  <2>1. PICK x \in Nat, y \in Nat : x = k.suicides + 1 /\ y = k.calledBack + 1
    BY <1>1 DEF ClientRecord
  <2>2. PICK m \in ClientRecord : m = [k EXCEPT !.suicides = x]
    BY <1>1, FieldIsReplaced
  <2>3. PICK n \in ClientRecord : n = [m EXCEPT !.calledBack = y]
    BY FieldIsReplaced
  <2>4. client' = [client EXCEPT ![c] = n]
    BY <1>1, <1>3, <2>1, <2>2, <2>3 DEF ClientsInv, ReadyToDie
  <2>5. /\ n.handler = k.handler /\ n.memory = k.memory /\ n.started = k.started /\ n.ending = k.ending
        /\ n.suicides = k.suicides + 1 /\ n.calledBack = k.calledBack + 1 /\ n.socket = k.socket
        /\ n.address = k.address /\ n.thread = k.thread /\ k.suicides \in Nat /\ k.calledBack \in Nat
    BY <1>1, <2>1, <2>2, <2>3 DEF ClientRecord
  <2>6. k.memory = "alive"
    BY <1>1, <1>3 DEF ReadyToDie
  <2>7. ClientOK(n)
    BY <1>1, <2>3, <2>5, <2>6 DEF ClientOK, EndedOnce, EndedInOrder
  <2> QED BY <2>4, <2>7, OneClient
<1> QED BY <1>2, <1>3

\* The first that comes out of the pool ends the client, the second deletes it.
LEMMA SuicideKeeps ==
  ASSUME ClientsInv, NEW c \in Client, Suicide(c)
  PROVE  ClientsInv'
<1>1. PICK k : k = client[c] /\ ClientOK(k) /\ k \in ClientRecord
  BY DEF ClientsInv, ClientOK
<1>2. k.memory = "alive" /\ k.suicides > 0 /\ k.suicides \in Nat /\ k.calledBack \in Nat
  BY <1>1 DEF Suicide, ClientRecord
<1>3. CASE k.started
  <2>1. PICK x \in Nat : x = k.suicides - 1
    BY <1>2
  <2>2. PICK l \in ClientRecord : l = [k EXCEPT !.suicides = x]
    BY <1>1, FieldIsReplaced
  <2>3. PICK m \in ClientRecord : m = [l EXCEPT !.started = FALSE]
    BY FieldIsReplaced
  <2>4. PICK n \in ClientRecord : n = [m EXCEPT !.ending = "handler"]
    BY FieldIsReplaced
  <2>5. n = [k EXCEPT !.suicides = @ - 1, !.started = FALSE, !.ending = "handler"]
    BY <1>1, <2>1, <2>2, <2>3, <2>4 DEF ClientRecord
  <2>6. client' = [client EXCEPT ![c] = [k EXCEPT !.suicides = @ - 1, !.started = FALSE, !.ending = "handler"]]
    <3>1. client' = [client EXCEPT ![c] =
            IF client[c].started
            THEN [client[c] EXCEPT !.suicides = @ - 1, !.started = FALSE, !.ending = "handler"]
            ELSE [client[c] EXCEPT !.suicides = @ - 1, !.memory = "deleted"]]
      BY Zenon DEF Suicide
    <3>2. client[c] = k
      BY <1>1
    <3> QED BY <1>3, <3>1, <3>2
  <2>7. client' = [client EXCEPT ![c] = n]
    BY <2>5, <2>6
  <2>8. /\ n.memory = "alive" /\ n.started = FALSE /\ n.ending = "handler"
        /\ n.suicides = k.suicides - 1 /\ n.calledBack = k.calledBack
    BY <1>1, <1>2, <2>1, <2>2, <2>3, <2>4 DEF ClientRecord
  <2>9. k.suicides = k.calledBack
    BY <1>1, <1>3 DEF ClientOK, EndedOnce
  <2>10. n.suicides < n.calledBack
    BY <1>2, <2>8, <2>9
  <2>11. ClientOK(n)
    BY <2>4, <2>8, <2>10 DEF ClientOK, EndedOnce, EndedInOrder
  <2> QED BY <2>7, <2>11, OneClient
<1>4. CASE ~k.started
  <2>1. PICK x \in Nat : x = k.suicides - 1
    BY <1>2
  <2>2. PICK m \in ClientRecord : m = [k EXCEPT !.suicides = x]
    BY <1>1, FieldIsReplaced
  <2>3. PICK n \in ClientRecord : n = [m EXCEPT !.memory = "deleted"]
    BY FieldIsReplaced
  <2>4. n = [k EXCEPT !.suicides = @ - 1, !.memory = "deleted"]
    BY <1>1, <2>1, <2>2, <2>3 DEF ClientRecord
  <2>5. client' = [client EXCEPT ![c] = [k EXCEPT !.suicides = @ - 1, !.memory = "deleted"]]
    <3>1. client' = [client EXCEPT ![c] =
            IF client[c].started
            THEN [client[c] EXCEPT !.suicides = @ - 1, !.started = FALSE, !.ending = "handler"]
            ELSE [client[c] EXCEPT !.suicides = @ - 1, !.memory = "deleted"]]
      BY Zenon DEF Suicide
    <3>2. client[c] = k
      BY <1>1
    <3> QED BY <1>4, <3>1, <3>2
  <2>6. client' = [client EXCEPT ![c] = n]
    BY <2>4, <2>5
  <2>7. /\ n.memory = "deleted" /\ n.started = k.started /\ n.ending = k.ending
        /\ n.suicides = k.suicides - 1 /\ n.calledBack = k.calledBack /\ n.handler = k.handler
        /\ n.socket = k.socket /\ n.address = k.address /\ n.thread = k.thread
    BY <1>1, <1>2, <2>1, <2>2, <2>3 DEF ClientRecord
  <2>8. k.ending # "no" /\ k.suicides < k.calledBack
    BY <1>1, <1>2, <1>4 DEF ClientOK, EndedOnce
  <2>9. n.suicides < n.calledBack /\ n.calledBack # 1
    BY <1>2, <2>7, <2>8
  <2>10. ClientOK(n)
    BY <1>1, <1>4, <2>3, <2>7, <2>9 DEF ClientOK, EndedOnce, EndedInOrder
  <2> QED BY <2>6, <2>10, OneClient
<1> QED BY <1>3, <1>4

\* The end itself: the handler, the socket and the address, the thread, the object.
LEMMA EndingKeeps ==
  ASSUME ClientsInv, NEW c \in Client,
         EndHandler(c) \/ CloseSocket(c) \/ JoinListener(c) \/ PoolDeletes(c)
  PROVE  ClientsInv'
<1>1. PICK k : k = client[c] /\ ClientOK(k) /\ k \in ClientRecord
  BY DEF ClientsInv, ClientOK
<1>2. CASE EndHandler(c)
  <2>1. PICK m \in ClientRecord : m = [k EXCEPT !.handler = "deleted"]
    BY <1>1, FieldIsReplaced
  <2>2. PICK n \in ClientRecord : n = [m EXCEPT !.ending = "socket"]
    BY FieldIsReplaced
  <2>3. client' = [client EXCEPT ![c] = n]
    BY <1>1, <1>2, <2>1, <2>2 DEF ClientsInv, EndHandler
  <2>4. /\ n.handler = "deleted" /\ n.memory = k.memory /\ n.started = k.started /\ n.ending = "socket"
        /\ n.suicides = k.suicides /\ n.calledBack = k.calledBack
    BY <1>1, <2>1, <2>2 DEF ClientRecord
  <2>5. k.ending = "handler"
    BY <1>1, <1>2 DEF EndHandler
  <2>6. k.memory # "none" /\ ~k.started /\ k.suicides < k.calledBack
    BY <1>1, <2>5 DEF ClientOK, EndedOnce, NewClient
  <2>7. ClientOK(n)
    BY <1>1, <2>2, <2>4, <2>5, <2>6 DEF ClientOK, EndedOnce, EndedInOrder
  <2> QED BY <2>3, <2>7, OneClient
<1>3. CASE CloseSocket(c)
  <2>1. PICK l \in ClientRecord : l = [k EXCEPT !.socket = "closed"]
    BY <1>1, FieldIsReplaced
  <2>2. PICK m \in ClientRecord : m = [l EXCEPT !.address = "freed"]
    BY FieldIsReplaced
  <2>3. PICK o \in ClientRecord : o = [m EXCEPT !.callback = FALSE]
    BY FieldIsReplaced
  <2>4. PICK n \in ClientRecord : n = [o EXCEPT !.ending = "join"]
    BY FieldIsReplaced
  <2>5. client' = [client EXCEPT ![c] = n]
    BY <1>1, <1>3, <2>1, <2>2, <2>3, <2>4 DEF ClientsInv, CloseSocket
  <2>6. /\ n.handler = k.handler /\ n.memory = k.memory /\ n.started = k.started /\ n.ending = "join"
        /\ n.suicides = k.suicides /\ n.calledBack = k.calledBack
        /\ n.socket = "closed" /\ n.address = "freed"
    BY <1>1, <2>1, <2>2, <2>3, <2>4 DEF ClientRecord
  <2>7. k.ending = "socket"
    BY <1>1, <1>3 DEF CloseSocket
  <2>8. k.memory # "none" /\ ~k.started /\ k.suicides < k.calledBack
    BY <1>1, <2>7 DEF ClientOK, EndedOnce, NewClient
  <2>9. ClientOK(n)
    BY <1>1, <2>4, <2>6, <2>7, <2>8 DEF ClientOK, EndedOnce, EndedInOrder
  <2> QED BY <2>5, <2>9, OneClient
<1>4. CASE JoinListener(c)
  <2>1. PICK n : n = [k EXCEPT !.ending = "pool"]
    OBVIOUS
  <2>2. client' = [client EXCEPT ![c] = n]
    BY <1>1, <1>4, <2>1 DEF ClientsInv, JoinListener
  <2>3. n \in ClientRecord
    BY <1>1, <2>1 DEF ClientRecord
  <2>4. /\ n.handler = k.handler /\ n.memory = k.memory /\ n.started = k.started /\ n.ending = "pool"
        /\ n.suicides = k.suicides /\ n.calledBack = k.calledBack
        /\ n.socket = k.socket /\ n.address = k.address /\ n.thread = k.thread
    BY <1>1, <2>1 DEF ClientRecord
  <2>5. k.ending = "join" /\ k.thread # "listening"
    BY <1>1, <1>4 DEF JoinListener
  <2>6. k.memory # "none" /\ ~k.started /\ k.suicides < k.calledBack
    BY <1>1, <2>5 DEF ClientOK, EndedOnce, NewClient
  <2>7. ClientOK(n)
    BY <1>1, <2>3, <2>4, <2>5, <2>6 DEF ClientOK, EndedOnce, EndedInOrder
  <2> QED BY <2>2, <2>7, OneClient
<1>5. CASE PoolDeletes(c)
  <2>1. PICK m \in ClientRecord : m = [k EXCEPT !.memory = "deleted"]
    BY <1>1, FieldIsReplaced
  <2>2. PICK n \in ClientRecord : n = [m EXCEPT !.ending = "done"]
    BY FieldIsReplaced
  <2>3. client' = [client EXCEPT ![c] = n]
    BY <1>1, <1>5, <2>1, <2>2 DEF ClientsInv, PoolDeletes
  <2>4. /\ n.handler = k.handler /\ n.memory = "deleted" /\ n.started = k.started /\ n.ending = "done"
        /\ n.suicides = k.suicides /\ n.calledBack = k.calledBack
        /\ n.socket = k.socket /\ n.address = k.address /\ n.thread = k.thread
    BY <1>1, <2>1, <2>2 DEF ClientRecord
  <2>5. k.ending = "pool"
    BY <1>1, <1>5 DEF PoolDeletes
  <2>6. ClientOK(n)
    BY <1>1, <2>2, <2>4, <2>5 DEF ClientOK, EndedOnce, EndedInOrder
  <2> QED BY <2>3, <2>6, OneClient
<1> QED BY <1>2, <1>3, <1>4, <1>5

\* Every step of a client of the application's, and of the threads and tasks of every client.
LEMMA ClientKeeps == ClientsInv /\ ClientStep => ClientsInv'
<1> SUFFICES ASSUME ClientsInv, ClientStep PROVE ClientsInv'
  OBVIOUS
<1>1. Application \in Client
  BY ClientsAreOfBoth
<1>2. CASE NewUDPClient(Application) \/ ConstructClient(Application)
  BY <1>1, <1>2, NewUDPClientKeeps, ConstructClientKeeps
<1>3. CASE EndClient(Application)
  BY <1>1, <1>3, HandlerCallsBack, SuicideKeeps, EndingKeeps DEF EndClient
<1>4. ASSUME NEW c \in Client, Listen(c) PROVE ClientsInv'
  <2>1. PICK w \in {"listening", "exited"} :
          w = (IF client[c].started THEN "listening" ELSE "exited")
    OBVIOUS
  <2> QED BY <1>4, <2>1, ThreadKeeps DEF Listen
<1>5. ASSUME NEW c \in Client, NEW t \in Carrier, Receive(c, t) PROVE ClientsInv'
  BY <1>5, ThreadKeeps DEF Receive, ClientsInv
<1>6. ASSUME UNCHANGED client PROVE ClientsInv'
  BY <1>6 DEF ClientsInv
<1>7. CASE \E t \in Carrier : BeginCarrier(t) \/ Analyze(t) \/ Answer(t)
  BY <1>6, <1>7 DEF BeginCarrier, Analyze, Answer
<1> QED BY <1>2, <1>3, <1>4, <1>5, <1>7 DEF ClientStep

\* Initially there is no client.
LEMMA ClientsStart == ClientInit => ClientsInv
<1>1. ClientOK(NewClient)
  BY DEF ClientOK, ClientRecord, EndedOnce, EndedInOrder, NewClient
<1> QED BY <1>1 DEF ClientInit, ClientsInv, ClientOK

-----------------------------------------------------------------------------
(* The invariant of the component.                                         *)

Component ==
  [operated : BOOLEAN, result : BOOLEAN, client : BOOLEAN, beat : Nat, ix : Nat,
   info : BOOLEAN, told : Nat]

Starting == {"result", "register", "add", "connect", "construct"}
Stopping == {"remove", "take", "cancel", "delete", "reset"}
Working == {"operate", "beat", "assign", "tell", "reset"}  \* past the test of bInitialMessageOperated
Held == {"test"} \cup Working

OwnTypes ==
  /\ flag \in BOOLEAN /\ orphaned \in BOOLEAN
  /\ instance \in Nat /\ made \in Nat /\ 1..made \subseteq Instance
  /\ component \in [Instance -> Component]
  /\ deleted \subseteq 1..made
  /\ user \in {"out"} \cup Starting \cup Stopping
  /\ report \in [Carrier -> [at : {"no", "lock"} \cup Held, of : Nat]]
  /\ \A t \in Carrier : report[t].at \in Held => report[t].of \in 1..made
  /\ tick \in [at : {"no", "compile", "send", "lock", "test"}, of : Nat]
  /\ beats \subseteq [id : Nat, by : Carrier, of : 1..made]
  /\ nextTask \in Nat

\* The living instance is the last that was made, from its start to the end of its stop.
LifeInv ==
  /\ instance \in {0, made}
  /\ flag => instance # 0 /\ user \in {"out"} \cup Starting
  /\ user \in Starting => flag
  /\ user \in Stopping => instance # 0
  /\ user = "out" /\ ~flag => instance = 0
  /\ \A g \in 1..made : g \in deleted \/ g = instance
  /\ instance \in deleted <=> user = "reset"

\* The ticker is with an instance that was not yet told to stop, or whose stop waits for it.
HeartbeatInv ==
  /\ tick.at \in {"compile", "send"} => instance # 0 /\ user \notin {"delete", "reset"}
  /\ "heartbeat" \notin undefinedBy

\* bInitialMessageOperated_Mutex has one owner, under which its instance is not deleted.
LockInv ==
  /\ \A t, u \in Carrier :
       report[t].at \in Held /\ report[u].at \in Held /\ report[t].of = report[u].of => t = u
  /\ \A t \in Carrier : report[t].at \in Held => report[t].of = instance /\ instance \notin deleted

\* What the owner has behind it, and that nobody else has.
StageInv ==
  /\ \A t \in Carrier :
       report[t].at \in Working =>
         /\ component[report[t].of].operated <=> report[t].at # "operate"
         /\ report[t].at # "reset" => component[report[t].of].told = 0
  /\ \A g \in Instance : component[g].told <= 1 /\ (component[g].told = 1 => component[g].operated)

\* An instance has a heartbeat task once it has set bInitialMessageOperated, and never two.
BeatInv ==
  /\ \A b \in beats :
       /\ component[b.of].operated
       /\ \A t \in Carrier : ~(report[t].at = "beat" /\ report[t].of = b.of)
  /\ \A b, c \in beats : b.of = c.of => b = c

\* Until a stop comes between an answer and the keeping of its heartbeat task's id, who works
\* and what beats is the living instance's, which knows the id or is about to.
LivingInv ==
  ~orphaned =>
    /\ \A t \in Carrier :
         report[t].at \in Working => report[t].of = instance /\ user \notin {"delete", "reset"}
    /\ \A b \in beats : b.id \notin cancelled =>
         /\ b.of = instance /\ user \notin {"delete", "reset"}
         /\ \/ component[b.of].beat = b.id
            \/ \E t \in Carrier : b.by = t /\ report[t].at = "assign" /\ report[t].of = b.of

OwnInv == OwnTypes /\ LifeInv /\ HeartbeatInv /\ LockInv /\ StageInv /\ BeatInv /\ LivingInv

DiscoveryInv == ManagerInv /\ ClientsInv /\ OwnInv

-----------------------------------------------------------------------------
(* The steps of the component.                                             *)

\* Initially no instance was made.
LEMMA OwnStarts == Init => OwnInv
<1> SUFFICES ASSUME Init PROVE OwnInv
  OBVIOUS
<1>1. NewInstance \in Component /\ NewInstance.told = 0
  BY DEF NewInstance, Component
<1>2. Outside \in [at : {"no", "lock"} \cup Held, of : Nat] /\ Outside.at = "no"
      /\ Outside \in [at : {"no", "compile", "send", "lock", "test"}, of : Nat]
  BY DEF Outside, Held
<1>3. 1..0 = {}
  OBVIOUS
<1>4. OwnTypes
  BY <1>1, <1>2, <1>3 DEF Init, OwnTypes, Held, Working
<1>5. LifeInv /\ HeartbeatInv
  BY <1>2, <1>3 DEF Init, LifeInv, HeartbeatInv, Starting, Stopping
<1>6. \A t \in Carrier : report[t].at = "no"
  BY <1>2 DEF Init
<1>7. LockInv /\ StageInv
  BY <1>1, <1>6 DEF Init, LockInv, StageInv, Held, Working
<1>8. BeatInv /\ LivingInv
  BY <1>6 DEF Init, BeatInv, LivingInv, Working
<1> QED BY <1>4, <1>5, <1>7, <1>8 DEF OwnInv

\* Who does not touch what the tasks of the callback and their heartbeats are about.
LEMMA Elsewhere ==
  ASSUME OwnInv, OwnTypes', LifeInv', HeartbeatInv',
         UNCHANGED <<instance, deleted, report, cancelled, orphaned>>, beats' \subseteq beats,
         \A g \in Instance : /\ component'[g].operated = component[g].operated
                             /\ component'[g].beat = component[g].beat
                             /\ component'[g].told = component[g].told,
         user' = user \/ user' \notin {"delete", "reset"}
  PROVE  OwnInv'
<1>1. OwnTypes /\ LockInv /\ StageInv /\ BeatInv /\ LivingInv
  BY DEF OwnInv
<1>2. \A t \in Carrier : report[t].at \in Working => report[t].of \in Instance
  BY <1>1 DEF OwnTypes, Working
<1>3. \A b \in beats : b.of \in Instance
  BY <1>1 DEF OwnTypes
<1>4. LockInv'
  BY <1>1 DEF LockInv
<1>5. StageInv'
  BY <1>1, <1>2 DEF StageInv
<1>6. BeatInv'
  BY <1>1, <1>3 DEF BeatInv
<1>7. LivingInv'
  BY <1>1, <1>3 DEF LivingInv
<1> QED BY <1>4, <1>5, <1>6, <1>7 DEF OwnInv

\* An access without a defined outcome, other than a heartbeat's.
LEMMA UndefinedKeeps ==
  ASSUME OwnInv, NEW who, who # "heartbeat", IsUndefined(who)
  PROVE  OwnInv'
<1>1. OwnTypes' /\ LifeInv' /\ HeartbeatInv'
  BY DEF IsUndefined, OwnInv, OwnTypes, LifeInv, HeartbeatInv
<1> QED BY <1>1, Elsewhere DEF IsUndefined

\* A field of an instance is replaced.
LEMMA ComponentField ==
  ASSUME NEW k \in Component
  PROVE  /\ \A x \in BOOLEAN : [k EXCEPT !.operated = x] \in Component
         /\ \A x \in BOOLEAN : [k EXCEPT !.result = x] \in Component
         /\ \A x \in BOOLEAN : [k EXCEPT !.client = x] \in Component
         /\ \A x \in BOOLEAN : [k EXCEPT !.info = x] \in Component
         /\ \A x \in Nat : [k EXCEPT !.beat = x] \in Component
         /\ \A x \in Nat : [k EXCEPT !.ix = x] \in Component
         /\ \A x \in Nat : [k EXCEPT !.told = x] \in Component
<1>1. \A x \in BOOLEAN : [k EXCEPT !.operated = x] \in Component
  BY DEF Component
<1>2. \A x \in BOOLEAN : [k EXCEPT !.result = x] \in Component
  BY DEF Component
<1>3. \A x \in BOOLEAN : [k EXCEPT !.client = x] \in Component
  BY DEF Component
<1>4. \A x \in BOOLEAN : [k EXCEPT !.info = x] \in Component
  BY DEF Component
<1>5. \A x \in Nat : [k EXCEPT !.beat = x] \in Component
  BY DEF Component
<1>6. \A x \in Nat : [k EXCEPT !.ix = x] \in Component
  BY DEF Component
<1>7. \A x \in Nat : [k EXCEPT !.told = x] \in Component
  BY DEF Component
<1> QED BY <1>1, <1>2, <1>3, <1>4, <1>5, <1>6, <1>7

\* One instance is replaced by another state of it.
LEMMA OneComponent ==
  ASSUME OwnTypes, NEW g \in Instance, NEW n \in Component,
         component' = [component EXCEPT ![g] = n]
  PROVE  /\ component' \in [Instance -> Component]
         /\ component'[g] = n
         /\ \A h \in Instance : h # g => component'[h] = component[h]
BY DEF OwnTypes

\* Of the living instance, only what the callback's tasks do not look at is replaced.
LEMMA ComponentAside ==
  ASSUME OwnTypes, NEW g \in Instance, NEW n \in Component,
         n.operated = component[g].operated, n.beat = component[g].beat,
         n.told = component[g].told,
         component' = [component EXCEPT ![g] = n]
  PROVE  /\ component' \in [Instance -> Component]
         /\ \A h \in Instance : /\ component'[h].operated = component[h].operated
                                /\ component'[h].beat = component[h].beat
                                /\ component'[h].told = component[h].told
BY OneComponent

\* The living instance is one of those that were made.
LEMMA LivingWasMade ==
  ASSUME OwnInv, instance # 0
  PROVE  instance \in 1..made /\ instance \in Instance /\ component[instance] \in Component
<1>1. instance \in 1..made
  BY DEF OwnInv, OwnTypes, LifeInv
<1> QED BY <1>1 DEF OwnInv, OwnTypes

\* The application starts the next instance, when no other lives.
LEMMA StartComponentKeeps == OwnInv /\ StartComponent => OwnInv'
<1> SUFFICES ASSUME OwnInv, StartComponent PROVE OwnInv'
  OBVIOUS
<1>1. /\ OwnTypes /\ LifeInv /\ HeartbeatInv /\ LockInv /\ StageInv /\ BeatInv /\ LivingInv
      /\ user = "out" /\ ~flag /\ made + 1 \in Instance
      /\ flag' = TRUE /\ made' = made + 1 /\ instance' = made + 1 /\ user' = "result"
      /\ UNCHANGED <<component, deleted, report, tick, beats, cancelled, nextTask, orphaned, undefinedBy>>
  BY DEF OwnInv, StartComponent
<1>2. instance = 0 /\ made \in Nat
  BY <1>1 DEF LifeInv, OwnTypes
<1>3. 1..made' = 1..made \cup {made + 1} /\ made + 1 \notin 1..made /\ made' \in Nat /\ made + 1 # 0
  BY <1>1, <1>2
<1>4. OwnTypes'
  <2>1. 1..made' \subseteq Instance /\ deleted' \subseteq 1..made'
    BY <1>1, <1>3 DEF OwnTypes
  <2>2. \A t \in Carrier : report'[t].at \in Held => report'[t].of \in 1..made'
    BY <1>1, <1>3 DEF OwnTypes
  <2>3. beats' \subseteq [id : Nat, by : Carrier, of : 1..made']
    BY <1>1, <1>3 DEF OwnTypes
  <2> QED BY <1>1, <1>3, <2>1, <2>2, <2>3 DEF OwnTypes, Starting
<1>5. LifeInv'
  <2>1. \A g \in 1..made : g \in deleted
    BY <1>1, <1>2 DEF LifeInv
  <2>2. made + 1 \notin deleted
    BY <1>1, <1>3 DEF OwnTypes
  <2> QED BY <1>1, <1>3, <2>1, <2>2 DEF LifeInv, Starting, Stopping
<1>6. HeartbeatInv'
  BY <1>1, <1>2 DEF HeartbeatInv
<1>7. LockInv' /\ StageInv' /\ BeatInv'
  <2>1. \A t \in Carrier : report[t].at \notin Held
    BY <1>1, <1>2 DEF LockInv, OwnTypes
  <2> QED BY <1>1, <2>1 DEF LockInv, StageInv, BeatInv
<1>8. LivingInv'
  <2>1. \A t \in Carrier : report[t].at \in Working => report[t].of # 0
    BY <1>1 DEF OwnTypes, Working
  <2>2. \A b \in beats : b.of # 0
    BY <1>1 DEF OwnTypes
  <2> QED BY <1>1, <1>2, <2>1, <2>2 DEF LivingInv
<1> QED BY <1>4, <1>5, <1>6, <1>7, <1>8 DEF OwnInv

\* The rest of the start: callback, system callback, client, registration.
LEMMA StartingKeeps ==
  ASSUME DiscoveryInv,
         SetResultCallback \/ RegisterSystemCallback \/ AddSystemCallback \/ Connect \/ Register
  PROVE  OwnInv'
<1>1. /\ OwnInv /\ OwnTypes /\ LifeInv /\ HeartbeatInv /\ ManagerInv
  BY DEF OwnInv, DiscoveryInv
<1>2. user \in Starting /\ instance # 0
  BY <1>1 DEF SetResultCallback, RegisterSystemCallback, AddSystemCallback, Connect, Register, Starting,
              LifeInv
<1>3. instance \in Instance /\ component[instance] \in Component
  BY <1>1, <1>2, LivingWasMade
<1>4. PICK k \in Component : k = component[instance]
  BY <1>3
<1>5. CASE SetResultCallback
  <2>1. PICK n \in Component : n = [k EXCEPT !.result = TRUE]
    BY ComponentField
  <2>2. component' = [component EXCEPT ![instance] = n]
    BY <1>4, <1>5, <2>1 DEF SetResultCallback
  <2>3. n.operated = k.operated /\ n.beat = k.beat /\ n.told = k.told
    BY <2>1 DEF Component
  <2>4. /\ component' \in [Instance -> Component]
        /\ \A h \in Instance : /\ component'[h].operated = component[h].operated
                               /\ component'[h].beat = component[h].beat
                               /\ component'[h].told = component[h].told
    BY <1>1, <1>3, <1>4, <2>2, <2>3, ComponentAside
  <2>5. /\ user = "result" /\ user' = "register"
        /\ UNCHANGED <<flag, instance, made, deleted, report, tick, beats, cancelled, nextTask,
                       orphaned, undefinedBy>>
    BY <1>5 DEF SetResultCallback
  <2>6. OwnTypes'
    BY <1>1, <2>4, <2>5 DEF OwnTypes, Starting
  <2>7. LifeInv' /\ HeartbeatInv'
    BY <1>1, <2>5 DEF LifeInv, HeartbeatInv, Starting, Stopping
  <2> QED BY <1>1, <2>4, <2>5, <2>6, <2>7, Elsewhere
<1>6. CASE RegisterSystemCallback
  <2>1. /\ user = "register" /\ user' \in {"add", "connect"}
        /\ UNCHANGED <<flag, instance, component, made, deleted, report, tick, beats, cancelled,
                       nextTask, orphaned, undefinedBy>>
    BY <1>6 DEF RegisterSystemCallback
  <2>2. OwnTypes'
    BY <1>1, <2>1 DEF OwnTypes, Starting
  <2>3. LifeInv' /\ HeartbeatInv'
    BY <1>1, <2>1 DEF LifeInv, HeartbeatInv, Starting, Stopping
  <2> QED BY <1>1, <2>1, <2>2, <2>3, Elsewhere
<1>9. CASE AddSystemCallback
  <2>1. CASE manager # "alive"
    BY <1>1, <1>9, <2>1, UndefinedKeeps DEF AddSystemCallback
  <2>2. CASE manager = "alive"
    <3>1. nextIx \in Nat
      BY <1>1 DEF ManagerInv, ManagerTypes
    <3>2. PICK n \in Component : n = [k EXCEPT !.ix = nextIx]
      BY <3>1, ComponentField
    <3>3. component' = [component EXCEPT ![instance] = n]
      BY <1>4, <1>9, <2>2, <3>2 DEF AddSystemCallback
    <3>4. n.operated = k.operated /\ n.beat = k.beat /\ n.told = k.told
      BY <3>2 DEF Component
    <3>5. /\ component' \in [Instance -> Component]
          /\ \A h \in Instance : /\ component'[h].operated = component[h].operated
                                 /\ component'[h].beat = component[h].beat
                                 /\ component'[h].told = component[h].told
      BY <1>1, <1>3, <1>4, <3>3, <3>4, ComponentAside
    <3>6. /\ user = "add" /\ user' = "connect"
          /\ UNCHANGED <<flag, instance, made, deleted, report, tick, beats, cancelled, nextTask,
                         orphaned, undefinedBy>>
      BY <1>9, <2>2 DEF AddSystemCallback
    <3>7. OwnTypes'
      BY <1>1, <3>5, <3>6 DEF OwnTypes, Starting
    <3>8. LifeInv' /\ HeartbeatInv'
      BY <1>1, <3>6 DEF LifeInv, HeartbeatInv, Starting, Stopping
    <3> QED BY <1>1, <3>5, <3>6, <3>7, <3>8, Elsewhere
  <2> QED BY <2>1, <2>2
<1>7. CASE Connect
  <2>1. CASE IsUndefined("user")
    BY <1>1, <2>1, UndefinedKeeps
  <2>2. CASE ~IsUndefined("user")
    <3>1. /\ user = "connect" /\ user' = "construct"
          /\ UNCHANGED <<flag, instance, component, made, deleted, report, tick, beats, cancelled,
                         nextTask, orphaned, undefinedBy>>
      BY <1>7, <2>2 DEF Connect
    <3>2. OwnTypes'
      BY <1>1, <3>1 DEF OwnTypes, Starting
    <3>3. LifeInv' /\ HeartbeatInv'
      BY <1>1, <3>1 DEF LifeInv, HeartbeatInv, Starting, Stopping
    <3> QED BY <1>1, <3>1, <3>2, <3>3, Elsewhere
  <2> QED BY <2>1, <2>2
<1>8. CASE Register
  <2>1. PICK n \in Component : n = [k EXCEPT !.client = TRUE]
    BY ComponentField
  <2>2. component' = [component EXCEPT ![instance] = n]
    BY <1>4, <1>8, <2>1 DEF Register
  <2>3. n.operated = k.operated /\ n.beat = k.beat /\ n.told = k.told
    BY <2>1 DEF Component
  <2>4. /\ component' \in [Instance -> Component]
        /\ \A h \in Instance : /\ component'[h].operated = component[h].operated
                               /\ component'[h].beat = component[h].beat
                               /\ component'[h].told = component[h].told
    BY <1>1, <1>3, <1>4, <2>2, <2>3, ComponentAside
  <2>5. /\ user = "construct" /\ user' = "out" /\ nextTask' = nextTask + 1
        /\ UNCHANGED <<flag, instance, made, deleted, report, tick, beats, cancelled, orphaned, undefinedBy>>
    BY <1>8 DEF Register
  <2>6. OwnTypes'
    BY <1>1, <2>4, <2>5 DEF OwnTypes, Starting
  <2>7. LifeInv' /\ HeartbeatInv'
    BY <1>1, <2>5 DEF LifeInv, HeartbeatInv, Starting, Stopping
  <2> QED BY <1>1, <2>4, <2>5, <2>6, <2>7, Elsewhere
<1> QED BY <1>5, <1>6, <1>7, <1>8, <1>9

\* The stop: the last moment at which a heartbeat's id is read is one at which no other thread
\* of the callback is about to write it, or it is recorded.
LEMMA StoppingKeeps ==
  ASSUME OwnInv,
         \/ StopComponent \/ RemoveSystemCallback \/ TakeSystemCallback \/ CancelHeartbeat
         \/ DeleteInstance \/ ResetInstance
  PROVE  OwnInv'
<1>1. OwnTypes /\ LifeInv /\ HeartbeatInv /\ LockInv /\ StageInv /\ BeatInv /\ LivingInv
  BY DEF OwnInv
<1>5. CASE IsUndefined("user")
  BY <1>5, UndefinedKeeps
<1>2. CASE (StopComponent \/ RemoveSystemCallback \/ TakeSystemCallback) /\ ~IsUndefined("user")
  <2>1. /\ \/ user = "out" /\ flag /\ user' = "remove" /\ ~flag'
           \/ user \in {"remove", "take"} /\ user' \in {"take", "cancel"} /\ flag' = flag
        /\ flag' \in BOOLEAN
        /\ UNCHANGED <<instance, component, made, deleted, report, tick, beats, cancelled, nextTask,
                       orphaned, undefinedBy>>
    BY <1>1, <1>2 DEF StopComponent, RemoveSystemCallback, TakeSystemCallback, OwnTypes
  <2>2. OwnTypes'
    BY <1>1, <2>1 DEF OwnTypes, Stopping
  <2>3. LifeInv' /\ HeartbeatInv'
    BY <1>1, <2>1 DEF LifeInv, HeartbeatInv, Starting, Stopping
  <2> QED BY <2>1, <2>2, <2>3, Elsewhere
<1>3. CASE CancelHeartbeat
  <2>1. /\ user = "cancel" /\ tick = Outside /\ user' = "delete"
        /\ cancelled' = cancelled \cup {component[instance].beat}
        /\ orphaned' = (orphaned \/ LockedByTask(instance))
        /\ UNCHANGED <<flag, instance, component, made, deleted, report, tick, beats, nextTask, undefinedBy>>
    BY <1>3 DEF CancelHeartbeat
  <2>2. orphaned' \in BOOLEAN
    BY <2>1
  <2>3. OwnTypes'
    BY <1>1, <2>1, <2>2 DEF OwnTypes, Stopping
  <2>4. LifeInv' /\ HeartbeatInv'
    BY <1>1, <2>1 DEF LifeInv, HeartbeatInv, Starting, Stopping, Outside
  <2>5. LockInv' /\ StageInv' /\ BeatInv'
    BY <1>1, <2>1 DEF LockInv, StageInv, BeatInv
  <2>6. LivingInv'
    <3>1. SUFFICES ASSUME ~orphaned'
                   PROVE  /\ \A t \in Carrier : report[t].at \notin Working
                          /\ \A b \in beats : b.id \in cancelled'
      BY <2>1 DEF LivingInv
    <3>2. ~orphaned /\ \A t \in Carrier : ~(report[t].of = instance /\ report[t].at \notin {"no", "lock"})
      BY <2>1, <3>1 DEF LockedByTask
    <3>3. \A t \in Carrier : report[t].at \notin Working
      BY <1>1, <3>2 DEF LivingInv, Working
    <3>4. \A b \in beats : b.id \in cancelled'
      BY <1>1, <2>1, <3>2, <3>3 DEF LivingInv, Working
    <3> QED BY <3>3, <3>4
  <2> QED BY <2>3, <2>4, <2>5, <2>6 DEF OwnInv
<1>4. CASE (DeleteInstance \/ ResetInstance) /\ ~IsUndefined("user")
  <2>1. \/ /\ user = "delete" /\ user' = "reset" /\ ~Locked(instance)
           /\ deleted' = deleted \cup {instance} /\ instance' = instance
        \/ /\ user = "reset" /\ user' = "out"
           /\ deleted' = deleted /\ instance' = 0
    BY <1>4 DEF DeleteInstance, ResetInstance
  <2>2. UNCHANGED <<flag, component, made, report, tick, beats, cancelled, nextTask, orphaned, undefinedBy>>
    BY <1>4 DEF DeleteInstance, ResetInstance
  <2>3. instance \in 1..made /\ instance # 0
    <3>1. instance # 0
      BY <1>1, <2>1 DEF LifeInv, Stopping
    <3> QED BY <3>1, LivingWasMade
  <2>4. OwnTypes'
    <3>1. deleted' \subseteq 1..made'
      BY <1>1, <2>1, <2>2, <2>3 DEF OwnTypes
    <3>2. instance' \in Nat /\ user' \in {"out"} \cup Starting \cup Stopping
      BY <1>1, <2>1 DEF OwnTypes, Stopping
    <3> QED BY <1>1, <2>2, <3>1, <3>2 DEF OwnTypes
  <2>5. LifeInv'
    <3>1. 0 \notin deleted
      BY <1>1 DEF OwnTypes
    <3> QED BY <1>1, <2>1, <2>2, <2>3, <3>1 DEF LifeInv, Starting, Stopping
  <2>6. HeartbeatInv'
    BY <1>1, <2>1, <2>2 DEF HeartbeatInv
  <2>7. LockInv' /\ StageInv' /\ BeatInv'
    <3>1. \A t \in Carrier : report[t].at \notin Held
      BY <1>1, <2>1 DEF LockInv, LifeInv, Locked, LockedByTask, Held, Working
    <3> QED BY <1>1, <2>2, <3>1 DEF LockInv, StageInv, BeatInv
  <2>8. LivingInv'
    BY <1>1, <2>1, <2>2 DEF LivingInv
  <2> QED BY <2>4, <2>5, <2>6, <2>7, <2>8 DEF OwnInv
<1> QED BY <1>2, <1>3, <1>4, <1>5 DEF CancelHeartbeat, IsUndefined

\* Where a task of the callback goes, with the same instance, and where it returns.
LEMMA ReportMoves ==
  ASSUME OwnTypes, NEW t \in Carrier, NEW a \in {"no", "lock"} \cup Held,
         \/ report[t].at \in Held /\ Proceed(t, a)
         \/ a = "no" /\ Return(t)
  PROVE  /\ report' \in [Carrier -> [at : {"no", "lock"} \cup Held, of : Nat]]
         /\ report'[t].at = a
         /\ a # "no" => report'[t].of = report[t].of
         /\ a # "no" => report'[t].of \in 1..made
         /\ \A u \in Carrier : u # t => report'[u] = report[u]
<1>1. report \in [Carrier -> [at : {"no", "lock"} \cup Held, of : Nat]]
  BY DEF OwnTypes
<1>2. CASE report[t].at \in Held /\ Proceed(t, a)
  <2>1. PICK r : r = [report[t] EXCEPT !.at = a]
    OBVIOUS
  <2>2. r \in [at : {"no", "lock"} \cup Held, of : Nat] /\ r.at = a /\ r.of = report[t].of
    BY <1>1, <2>1
  <2>3. report' = [report EXCEPT ![t] = r]
    BY <1>2, <2>1 DEF Proceed
  <2>4. report[t].of \in 1..made
    BY <1>2 DEF OwnTypes
  <2> QED BY <1>1, <2>2, <2>3, <2>4
<1>3. CASE a = "no" /\ Return(t)
  <2>1. Outside \in [at : {"no", "lock"} \cup Held, of : Nat] /\ Outside.at = "no"
    BY DEF Outside
  <2>2. report' = [report EXCEPT ![t] = Outside]
    BY <1>3 DEF Return
  <2> QED BY <1>1, <1>3, <2>1, <2>2
<1> QED BY <1>2, <1>3

\* The lock has one owner still, when who takes it saw nobody have it, and an instance there.
LEMMA LockKeeps ==
  ASSUME LockInv, NEW t \in Carrier, UNCHANGED <<instance, deleted>>,
         \A u \in Carrier : u # t => report'[u] = report[u],
         \/ report'[t].at \notin Held
         \/ report[t].at \in Held /\ report'[t].of = report[t].of
         \/ /\ \A u \in Carrier : ~(report[u].at \in Held /\ report[u].of = report'[t].of)
            /\ report'[t].of = instance /\ instance \notin deleted
  PROVE  LockInv'
BY DEF LockInv

\* Who holds the lock finds the instance it is in.
LEMMA HeldIsLiving ==
  ASSUME OwnInv, NEW t \in Carrier, report[t].at \in Held
  PROVE  report[t].of = instance /\ instance \notin deleted /\ instance # 0
<1>1. report[t].of \in 1..made
  BY DEF OwnInv, OwnTypes
<1> QED BY <1>1 DEF OwnInv, LockInv

\* A task of the callback that does not work yet, or no more.
LEMMA ReportAside ==
  ASSUME OwnInv, NEW t \in Carrier,
         UNCHANGED <<flag, instance, component, made, deleted, user, tick, beats, cancelled, nextTask,
                     orphaned, undefinedBy>>,
         report' \in [Carrier -> [at : {"no", "lock"} \cup Held, of : Nat]],
         report'[t].at \in {"no", "lock", "test"},
         report'[t].at \in Held => report'[t].of \in 1..made,
         report[t].at # "assign",
         \A u \in Carrier : u # t => report'[u] = report[u],
         LockInv'
  PROVE  OwnInv'
<1>1. OwnTypes /\ LifeInv /\ HeartbeatInv /\ StageInv /\ BeatInv /\ LivingInv
  BY DEF OwnInv
<1>2. OwnTypes'
  <2>1. \A u \in Carrier : report'[u].at \in Held => report'[u].of \in 1..made'
    BY <1>1 DEF OwnTypes
  <2> QED BY <1>1, <2>1 DEF OwnTypes
<1>3. LifeInv' /\ HeartbeatInv'
  BY <1>1 DEF LifeInv, HeartbeatInv
<1>4. \A u \in Carrier : report'[u].at \in Working => report'[u] = report[u] /\ u # t
  BY DEF Working
<1>5. StageInv'
  BY <1>1, <1>4 DEF StageInv
<1>6. BeatInv'
  BY <1>1, <1>4 DEF BeatInv, Working
<1>7. LivingInv'
  <2>1. \A u \in Carrier : report[u].at = "assign" => report'[u] = report[u]
    OBVIOUS
  <2> QED BY <1>1, <1>4, <2>1 DEF LivingInv
<1> QED BY <1>2, <1>3, <1>5, <1>6, <1>7 DEF OwnInv

\* A task sees the instance, waits for its lock, and finds that there is nothing to do.
LEMMA SeeInstanceKeeps == ASSUME OwnInv, NEW t \in Carrier, SeeInstance(t) PROVE OwnInv'
<1>1. OwnTypes /\ LifeInv /\ LockInv
  BY DEF OwnInv
<1>2. /\ report[t].at = "no"
      /\ UNCHANGED <<flag, instance, component, made, deleted, user, tick, beats, cancelled, nextTask,
                     orphaned, undefinedBy>>
  BY DEF SeeInstance
<1>3. CASE instance = 0
  <2>1. report' = report
    BY <1>3 DEF SeeInstance
  <2> QED BY <1>1, <1>2, <2>1, ReportAside DEF OwnTypes, LockInv, Held, Working
<1>4. CASE instance # 0
  <2>1. PICK r : r = [at |-> "lock", of |-> 0]
    OBVIOUS
  <2>2. report' = [report EXCEPT ![t] = r]
    BY <1>4, <2>1 DEF SeeInstance
  <2>3. r \in [at : {"no", "lock"} \cup Held, of : Nat] /\ r.at = "lock" /\ "lock" \notin Held
    BY <2>1 DEF Held, Working
  <2>4. /\ report' \in [Carrier -> [at : {"no", "lock"} \cup Held, of : Nat]]
        /\ report'[t] = r /\ \A u \in Carrier : u # t => report'[u] = report[u]
    BY <1>1, <2>2, <2>3 DEF OwnTypes
  <2>5. LockInv'
    BY <1>1, <1>2, <2>3, <2>4, LockKeeps
  <2> QED BY <1>2, <2>3, <2>4, <2>5, ReportAside
<1> QED BY <1>3, <1>4

\* The lock is taken when nobody has it, and given back when there is nothing to do.
LEMMA LockOperatedKeeps == ASSUME OwnInv, NEW t \in Carrier, LockOperated(t) PROVE OwnInv'
<1>1. CASE IsUndefined("worker")
  BY <1>1, UndefinedKeeps
<1>2. CASE ~IsUndefined("worker")
  <2>1. /\ report[t].at = "lock" /\ ~Locked(instance) /\ instance \notin deleted /\ instance # 0
        /\ report' = [report EXCEPT ![t] = [at |-> "test", of |-> instance]]
        /\ UNCHANGED <<flag, instance, component, made, deleted, user, tick, beats, cancelled, nextTask,
                       orphaned, undefinedBy>>
    BY <1>2 DEF LockOperated, With, TakeLock
  <2>2. OwnTypes /\ LockInv
    BY DEF OwnInv
  <2>3. PICK r : r = [at |-> "test", of |-> instance]
    OBVIOUS
  <2>4. r \in [at : {"no", "lock"} \cup Held, of : Nat] /\ r.at = "test" /\ r.of = instance
    BY <2>2, <2>3 DEF OwnTypes, Held
  <2>5. /\ report' \in [Carrier -> [at : {"no", "lock"} \cup Held, of : Nat]]
        /\ report'[t] = r /\ \A u \in Carrier : u # t => report'[u] = report[u]
    BY <2>1, <2>2, <2>3, <2>4 DEF OwnTypes
  <2>6. \A u \in Carrier : ~(report[u].at \in Held /\ report[u].of = instance)
    BY <2>1 DEF Locked, LockedByTask, Held, Working
  <2>7. LockInv'
    BY <2>1, <2>2, <2>4, <2>5, <2>6, LockKeeps
  <2>8. instance \in 1..made
    BY <2>1, LivingWasMade
  <2> QED BY <2>1, <2>4, <2>5, <2>7, <2>8, ReportAside
<1> QED BY <1>1, <1>2

\* A task past the test goes on, with its instance and the lock.
LEMMA TestOperatedKeeps == ASSUME OwnInv, NEW t \in Carrier, TestOperated(t) PROVE OwnInv'
<1>1. CASE IsUndefined("worker")
  BY <1>1, UndefinedKeeps
<1>2. CASE ~IsUndefined("worker")
  <2>1. /\ report[t].at = "test" /\ report[t].of \notin deleted
        /\ report[t].at \in Held /\ report[t].of = instance /\ instance # 0
        /\ IF flag /\ ~component[report[t].of].operated THEN Proceed(t, "operate") ELSE Return(t)
        /\ UNCHANGED <<flag, instance, component, made, deleted, user, tick, beats, cancelled, nextTask,
                       orphaned, undefinedBy>>
    BY <1>2, HeldIsLiving DEF TestOperated, With, Held
  <2>2. OwnTypes /\ LifeInv /\ HeartbeatInv /\ LockInv /\ StageInv /\ BeatInv /\ LivingInv
    BY DEF OwnInv
  <2>3. CASE ~(flag /\ ~component[report[t].of].operated)
    <3>1. Return(t) /\ "no" \in {"no", "lock"} \cup Held
      BY <2>1, <2>3
    <3>2. /\ report' \in [Carrier -> [at : {"no", "lock"} \cup Held, of : Nat]]
          /\ report'[t].at = "no" /\ \A u \in Carrier : u # t => report'[u] = report[u]
      BY <2>2, <3>1, ReportMoves
    <3>3. LockInv'
      BY <2>1, <2>2, <3>2, LockKeeps DEF Held, Working
    <3> QED BY <2>1, <3>2, <3>3, ReportAside DEF Held, Working
  <2>4. CASE flag /\ ~component[report[t].of].operated
    <3>1. Proceed(t, "operate") /\ "operate" \in {"no", "lock"} \cup Held
      BY <2>1, <2>4 DEF Held, Working
    <3>2. /\ report' \in [Carrier -> [at : {"no", "lock"} \cup Held, of : Nat]]
          /\ report'[t].at = "operate" /\ report'[t].of = report[t].of /\ report'[t].of \in 1..made
          /\ \A u \in Carrier : u # t => report'[u] = report[u]
      BY <2>1, <2>2, <3>1, ReportMoves
    <3>3. report[t].at \in Held
      BY <2>1 DEF Held
    <3>4. LockInv'
      BY <2>1, <2>2, <3>2, <3>3, LockKeeps
    <3>5. OwnTypes'
      <4>1. \A u \in Carrier : report'[u].at \in Held => report'[u].of \in 1..made'
        BY <2>1, <2>2, <3>2 DEF OwnTypes
      <4> QED BY <2>1, <2>2, <3>2, <4>1 DEF OwnTypes
    <3>6. LifeInv' /\ HeartbeatInv'
      BY <2>1, <2>2 DEF LifeInv, HeartbeatInv
    <3>7. report[t].of \in Instance /\ component[report[t].of] \in Component
      BY <2>2, <3>2 DEF OwnTypes
    <3>8. component[report[t].of].told = 0
      BY <2>2, <2>4, <3>7 DEF StageInv, Component
    <3>9. StageInv'
      BY <2>1, <2>2, <2>4, <3>2, <3>8 DEF StageInv, Working
    <3>10. BeatInv'
      BY <2>1, <2>2, <3>2 DEF BeatInv
    <3>11. report[t].of = instance /\ user \notin {"delete", "reset"}
      BY <2>1, <2>2, <2>4, <3>2 DEF LifeInv, Starting
    <3>12. LivingInv'
      BY <2>1, <2>2, <3>2, <3>11 DEF LivingInv
    <3> QED BY <3>4, <3>5, <3>6, <3>9, <3>10, <3>12 DEF OwnInv
  <2> QED BY <2>3, <2>4
<1> QED BY <1>1, <1>2

\* A working task's instance is nobody else's.
LEMMA OwnerIsAlone ==
  ASSUME OwnInv, NEW t \in Carrier, report[t].at \in Working
  PROVE  /\ report[t].at # "no" /\ report[t].of \in 1..made /\ report[t].of \in Instance
         /\ component[report[t].of] \in Component
         /\ \A u \in Carrier : report[u].at \in Working =>
              report[u].of \in Instance /\ (u # t => report[u].of # report[t].of)
<1>1. OwnTypes /\ LockInv
  BY DEF OwnInv
<1>2. \A u \in Carrier : report[u].at \in Working =>
        report[u].at # "no" /\ report[u].at \in Held
  BY DEF Working, Held
<1>3. \A u \in Carrier : report[u].at \in Working => report[u].of \in 1..made /\ report[u].of \in Instance
  BY <1>1, <1>2 DEF OwnTypes
<1>4. component[report[t].of] \in Component
  BY <1>1, <1>3 DEF OwnTypes
<1> QED BY <1>1, <1>2, <1>3, <1>4 DEF LockInv

\* A working task goes on, or returns: what is left to be shown.
LEMMA WorkerMoves ==
  ASSUME OwnInv, NEW t \in Carrier, report[t].at \in Working,
         report' \in [Carrier -> [at : {"no", "lock"} \cup Held, of : Nat]],
         report'[t].at # "no" => report'[t].of = report[t].of,
         \A u \in Carrier : u # t => report'[u] = report[u],
         component' \in [Instance -> Component],
         UNCHANGED <<flag, instance, made, deleted, user, tick, cancelled, orphaned, undefinedBy>>,
         beats' \subseteq [id : Nat, by : Carrier, of : 1..made], nextTask' \in Nat,
         StageInv', BeatInv', LivingInv'
  PROVE  OwnInv'
<1>1. OwnTypes /\ LifeInv /\ HeartbeatInv /\ LockInv
  BY DEF OwnInv
<1>2. report[t].at # "no" /\ report[t].at \in Held /\ "no" \notin Held
  BY DEF Working, Held
<1>3. LockInv'
  BY <1>1, <1>2, LockKeeps
<1>4. OwnTypes'
  <2>1. \A u \in Carrier : report'[u].at \in Held => report'[u].of \in 1..made'
    BY <1>1, <1>2 DEF OwnTypes
  <2> QED BY <1>1, <2>1 DEF OwnTypes
<1>5. LifeInv' /\ HeartbeatInv'
  BY <1>1 DEF LifeInv, HeartbeatInv
<1> QED BY <1>3, <1>4, <1>5 DEF OwnInv

\* bInitialMessageOperated is set: the instance has no heartbeat yet, and is the living one.
LEMMA SetOperatedKeeps == ASSUME OwnInv, NEW t \in Carrier, SetOperated(t) PROVE OwnInv'
<1>1. CASE IsUndefined("worker")
  BY <1>1, UndefinedKeeps
<1>2. CASE ~IsUndefined("worker")
  <2>1. /\ report[t].at = "operate" /\ Proceed(t, "beat")
        /\ component' = [component EXCEPT ![report[t].of].operated = TRUE]
        /\ UNCHANGED <<beats, nextTask>>
        /\ UNCHANGED <<flag, instance, made, deleted, user, tick, cancelled, orphaned, undefinedBy>>
    BY <1>2, HeldIsLiving DEF SetOperated, With, Held, Working
  <2>2. OwnTypes /\ StageInv /\ BeatInv /\ LivingInv
    BY DEF OwnInv
  <2>3. report[t].at \in Working /\ "beat" \in {"no", "lock"} \cup Held
    BY <2>1 DEF Working, Held
  <2>4. PICK g \in Instance : g = report[t].of /\ g \in 1..made /\ component[g] \in Component
    BY <2>3, OwnerIsAlone
  <2>5. \A u \in Carrier : report[u].at \in Working => report[u].of \in Instance /\ (u # t => report[u].of # g)
    BY <2>3, <2>4, OwnerIsAlone
  <2>6. /\ report' \in [Carrier -> [at : {"no", "lock"} \cup Held, of : Nat]]
        /\ report'[t].at = "beat" /\ report'[t].of = g
        /\ \A u \in Carrier : u # t => report'[u] = report[u]
    BY <2>1, <2>2, <2>3, <2>4, ReportMoves DEF Held
  <2>7. PICK n \in Component : n = [component[g] EXCEPT !.operated = TRUE]
    BY <2>4, ComponentField
  <2>8. n.operated = TRUE /\ n.beat = component[g].beat /\ n.told = component[g].told
    BY <2>4, <2>7 DEF Component
  <2>9. component' = [component EXCEPT ![g] = n]
    BY <2>1, <2>4, <2>7
  <2>10. /\ component' \in [Instance -> Component] /\ component'[g] = n
         /\ \A h \in Instance : h # g => component'[h] = component[h]
    BY <2>2, <2>9, OneComponent
  <2>11. ~component[g].operated /\ component[g].told = 0
    BY <2>1, <2>2, <2>3, <2>4 DEF StageInv
  <2>12. beats' \subseteq [id : Nat, by : Carrier, of : 1..made] /\ nextTask' \in Nat
    BY <2>1, <2>2 DEF OwnTypes
  <2>13. StageInv'
    <3>1. \A u \in Carrier : u # t /\ report'[u].at \in Working =>
            report'[u] = report[u] /\ component'[report[u].of] = component[report[u].of]
      BY <2>5, <2>6, <2>10
    <3>2. \A h \in Instance : component'[h].told <= 1 /\ (component'[h].told = 1 => component'[h].operated)
      BY <2>2, <2>8, <2>10, <2>11 DEF StageInv
    <3> QED BY <2>2, <2>6, <2>8, <2>10, <2>11, <3>1, <3>2 DEF StageInv
  <2>14. \A b \in beats : b.of \in Instance /\ b.of # g
    BY <2>2, <2>11 DEF OwnTypes, BeatInv
  <2>15. BeatInv'
    BY <2>1, <2>2, <2>6, <2>10, <2>14 DEF BeatInv
  <2>16. LivingInv'
    <3>1. \A u \in Carrier : report'[u].at \in Working => report[u].at \in Working /\ report'[u].of = report[u].of
      BY <2>3, <2>4, <2>6
    <3>2. \A u \in Carrier : report[u].at = "assign" => report'[u] = report[u]
      BY <2>1, <2>6
    <3> QED BY <2>1, <2>2, <2>10, <2>14, <3>1, <3>2 DEF LivingInv
  <2> QED BY <2>1, <2>3, <2>4, <2>6, <2>10, <2>12, <2>13, <2>15, <2>16, WorkerMoves
<1> QED BY <1>1, <1>2

\* The heartbeat's task is in the queue, and its id not yet the instance's: its maker knows it.
LEMMA ScheduleHeartbeatKeeps == ASSUME OwnInv, NEW t \in Carrier, ScheduleHeartbeat(t) PROVE OwnInv'
<1>1. CASE IsUndefined("worker")
  BY <1>1, UndefinedKeeps
<1>2. CASE ~IsUndefined("worker")
  <2>1. /\ report[t].at = "beat" /\ Proceed(t, "assign")
        /\ UNCHANGED component
        /\ beats' = beats \cup {[id |-> nextTask, by |-> t, of |-> report[t].of]}
        /\ nextTask' = nextTask + 1
        /\ UNCHANGED <<flag, instance, made, deleted, user, tick, cancelled, orphaned, undefinedBy>>
    BY <1>2, HeldIsLiving DEF ScheduleHeartbeat, With, Held, Working
  <2>2. OwnTypes /\ StageInv /\ BeatInv /\ LivingInv
    BY DEF OwnInv
  <2>3. report[t].at \in Working /\ "assign" \in {"no", "lock"} \cup Held
    BY <2>1 DEF Working, Held
  <2>4. PICK g \in Instance : g = report[t].of /\ g \in 1..made /\ component[g] \in Component
    BY <2>3, OwnerIsAlone
  <2>5. \A u \in Carrier : report[u].at \in Working => report[u].of \in Instance /\ (u # t => report[u].of # g)
    BY <2>3, <2>4, OwnerIsAlone
  <2>6. /\ report' \in [Carrier -> [at : {"no", "lock"} \cup Held, of : Nat]]
        /\ report'[t].at = "assign" /\ report'[t].of = g
        /\ \A u \in Carrier : u # t => report'[u] = report[u]
    BY <2>1, <2>2, <2>3, <2>4, ReportMoves DEF Held
  <2>7. PICK new : new = [id |-> nextTask, by |-> t, of |-> g]
    OBVIOUS
  <2>8. new.id = nextTask /\ new.by = t /\ new.of = g /\ new \in [id : Nat, by : Carrier, of : 1..made]
    BY <2>2, <2>4, <2>7 DEF OwnTypes
  <2>9. beats' = beats \cup {new}
    BY <2>1, <2>4, <2>7
  <2>10. component' \in [Instance -> Component]
    BY <2>1, <2>2 DEF OwnTypes
  <2>11. component[g].operated /\ component[g].told = 0
    BY <2>1, <2>2, <2>3, <2>4 DEF StageInv
  <2>12. beats' \subseteq [id : Nat, by : Carrier, of : 1..made] /\ nextTask' \in Nat
    BY <2>1, <2>2, <2>8, <2>9 DEF OwnTypes
  <2>13. StageInv'
    BY <2>1, <2>2, <2>4, <2>6, <2>11 DEF StageInv
  <2>14. \A b \in beats : b.of # g
    BY <2>1, <2>2, <2>4 DEF BeatInv
  <2>15. BeatInv'
    <3>1. \A b \in beats' : b = new \/ b \in beats
      BY <2>9
    <3>2. \A b \in beats' : component[b.of].operated
      BY <2>2, <2>8, <2>11, <3>1 DEF BeatInv
    <3>3. ASSUME NEW b \in beats', NEW u \in Carrier PROVE ~(report'[u].at = "beat" /\ report'[u].of = b.of)
      <4>1. CASE u = t
        BY <2>6, <4>1
      <4>2. CASE u # t /\ report[u].at = "beat"
        BY <2>2, <2>5, <2>6, <2>8, <3>1, <4>2 DEF BeatInv, Working
      <4>3. CASE u # t /\ report[u].at # "beat"
        BY <2>6, <4>3
      <4> QED BY <4>1, <4>2, <4>3
    <3>4. \A b, c \in beats' : b.of = c.of => b = c
      BY <2>2, <2>8, <2>14, <3>1 DEF BeatInv
    <3> QED BY <2>1, <3>2, <3>3, <3>4 DEF BeatInv
  <2>16. LivingInv'
    <3>1. SUFFICES ASSUME ~orphaned PROVE LivingInv'
      BY <2>1 DEF LivingInv
    <3>2. \A u \in Carrier : report'[u].at \in Working => report[u].at \in Working /\ report'[u].of = report[u].of
      BY <2>3, <2>4, <2>6
    <3>3. \A u \in Carrier : report[u].at = "assign" => report'[u] = report[u]
      BY <2>1, <2>6
    <3>4. g = instance /\ user \notin {"delete", "reset"}
      BY <2>2, <2>3, <2>4, <3>1 DEF LivingInv
    <3>5. \A u \in Carrier :
            report'[u].at \in Working => report'[u].of = instance /\ user \notin {"delete", "reset"}
      BY <2>2, <3>1, <3>2 DEF LivingInv
    <3>6. ASSUME NEW b \in beats', b.id \notin cancelled
          PROVE  /\ b.of = instance
                 /\ \/ component[b.of].beat = b.id
                    \/ \E u \in Carrier : b.by = u /\ report'[u].at = "assign" /\ report'[u].of = b.of
      <4>1. CASE b = new
        BY <2>6, <2>8, <3>4, <4>1
      <4>2. CASE b \in beats
        BY <2>2, <3>1, <3>3, <3>6, <4>2 DEF LivingInv
      <4> QED BY <2>9, <4>1, <4>2
    <3> QED BY <2>1, <3>4, <3>5, <3>6 DEF LivingInv
  <2> QED BY <2>1, <2>3, <2>4, <2>6, <2>10, <2>12, <2>13, <2>15, <2>16, WorkerMoves
<1> QED BY <1>1, <1>2

\* The instance knows its heartbeat's task, which is its only one.
LEMMA KeepHeartbeatIxKeeps == ASSUME OwnInv, NEW t \in Carrier, KeepHeartbeatIx(t) PROVE OwnInv'
<1>1. CASE IsUndefined("worker")
  BY <1>1, UndefinedKeeps
<1>2. CASE ~IsUndefined("worker")
  <2>1. PICK b \in beats :
          /\ report[t].at = "assign" /\ Proceed(t, "tell")
          /\ b.by = t /\ b.of = report[t].of
          /\ component' = [component EXCEPT ![b.of].beat = b.id]
          /\ UNCHANGED <<beats, nextTask>>
          /\ UNCHANGED <<flag, instance, made, deleted, user, tick, cancelled, orphaned, undefinedBy>>
    BY <1>2, HeldIsLiving DEF KeepHeartbeatIx, With, Held, Working
  <2>2. /\ report[t].at = "assign" /\ Proceed(t, "tell")
        /\ component' = [component EXCEPT ![report[t].of].beat = b.id]
        /\ UNCHANGED <<beats, nextTask>>
        /\ UNCHANGED <<flag, instance, made, deleted, user, tick, cancelled, orphaned, undefinedBy>>
    BY <2>1
  <2>3. OwnTypes /\ StageInv /\ BeatInv /\ LivingInv
    BY DEF OwnInv
  <2>4. report[t].at \in Working /\ "tell" \in {"no", "lock"} \cup Held
    BY <2>2 DEF Working, Held
  <2>5. PICK g \in Instance : g = report[t].of /\ g \in 1..made /\ component[g] \in Component
    BY <2>4, OwnerIsAlone
  <2>6. \A u \in Carrier : report[u].at \in Working => report[u].of \in Instance /\ (u # t => report[u].of # g)
    BY <2>4, <2>5, OwnerIsAlone
  <2>7. /\ report' \in [Carrier -> [at : {"no", "lock"} \cup Held, of : Nat]]
        /\ report'[t].at = "tell" /\ report'[t].of = g
        /\ \A u \in Carrier : u # t => report'[u] = report[u]
    BY <2>2, <2>3, <2>4, <2>5, ReportMoves DEF Held
  <2>8. b.id \in Nat /\ b.of = g
    BY <2>1, <2>3, <2>5 DEF OwnTypes
  <2>9. PICK n \in Component : n = [component[g] EXCEPT !.beat = b.id]
    BY <2>5, <2>8, ComponentField
  <2>10. n.operated = component[g].operated /\ n.beat = b.id /\ n.told = component[g].told
    BY <2>5, <2>8, <2>9 DEF Component
  <2>11. component' = [component EXCEPT ![g] = n]
    BY <2>2, <2>5, <2>9
  <2>12. /\ component' \in [Instance -> Component] /\ component'[g] = n
         /\ \A h \in Instance : h # g => component'[h] = component[h]
    BY <2>3, <2>11, OneComponent
  <2>13. beats' \subseteq [id : Nat, by : Carrier, of : 1..made] /\ nextTask' \in Nat
    BY <2>2, <2>3 DEF OwnTypes
  <2>14. StageInv'
    <3>1. \A h \in Instance : /\ component'[h].operated = component[h].operated
                              /\ component'[h].told = component[h].told
      BY <2>10, <2>12
    <3>2. component[g].operated /\ component[g].told = 0
      BY <2>2, <2>3, <2>4, <2>5 DEF StageInv
    <3>3. \A u \in Carrier : u # t /\ report'[u].at \in Working => report'[u] = report[u] /\ report[u].of \in Instance
      BY <2>6, <2>7
    <3> QED BY <2>3, <2>5, <2>7, <3>1, <3>2, <3>3 DEF StageInv
  <2>15. \A c \in beats : c.of \in Instance
    BY <2>3 DEF OwnTypes
  <2>16. BeatInv'
    <3>1. \A u \in Carrier : report'[u].at = "beat" => report'[u] = report[u]
      BY <2>7
    <3>2. \A c \in beats : component'[c.of].operated = component[c.of].operated
      BY <2>10, <2>12, <2>15
    <3> QED BY <2>2, <2>3, <3>1, <3>2 DEF BeatInv
  <2>17. LivingInv'
    <3>1. SUFFICES ASSUME ~orphaned PROVE LivingInv'
      BY <2>2 DEF LivingInv
    <3>2. \A u \in Carrier : report'[u].at \in Working => report[u].at \in Working /\ report'[u].of = report[u].of
      BY <2>4, <2>5, <2>7
    <3>3. g = instance /\ user \notin {"delete", "reset"}
      BY <2>3, <2>4, <2>5, <3>1 DEF LivingInv
    <3>4. \A u \in Carrier :
            report'[u].at \in Working => report'[u].of = instance /\ user \notin {"delete", "reset"}
      BY <2>3, <3>1, <3>2 DEF LivingInv
    <3>5. ASSUME NEW c \in beats, c.id \notin cancelled
          PROVE  c.of = instance /\ component'[c.of].beat = c.id
      <4>1. c.of = instance
        BY <2>3, <3>1, <3>5 DEF LivingInv
      <4>2. c = b
        BY <2>3, <2>8, <3>3, <4>1 DEF BeatInv
      <4> QED BY <2>8, <2>10, <2>12, <4>1, <4>2
    <3> QED BY <2>2, <3>3, <3>4, <3>5 DEF LivingInv
  <2> QED BY <2>2, <2>4, <2>5, <2>7, <2>12, <2>13, <2>14, <2>16, <2>17, WorkerMoves
<1> QED BY <1>1, <1>2

\* The application is told, and the callback then reset: nobody's heartbeat is concerned.
LEMMA TellingKeeps ==
  ASSUME OwnInv, NEW t \in Carrier, report[t].at \in {"tell", "reset"},
         NEW g \in Instance, g = report[t].of,
         NEW n \in Component, component' = [component EXCEPT ![g] = n],
         n.operated = component[g].operated, n.beat = component[g].beat,
         n.told = component[g].told \/ (report[t].at = "tell" /\ n.told = component[g].told + 1),
         report' \in [Carrier -> [at : {"no", "lock"} \cup Held, of : Nat]],
         report'[t].at \in {"reset", "no"}, report'[t].at # "no" => report'[t].of = g,
         \A u \in Carrier : u # t => report'[u] = report[u],
         UNCHANGED <<beats, nextTask>>,
         UNCHANGED <<flag, instance, made, deleted, user, tick, cancelled, orphaned, undefinedBy>>
  PROVE  OwnInv'
<1>1. OwnTypes /\ StageInv /\ BeatInv /\ LivingInv
  BY DEF OwnInv
<1>2. report[t].at \in Working /\ report[t].at # "operate"
  BY DEF Working
<1>3. \A u \in Carrier : report[u].at \in Working => report[u].of \in Instance /\ (u # t => report[u].of # g)
  BY <1>2, OwnerIsAlone
<1>4. /\ component' \in [Instance -> Component] /\ component'[g] = n
      /\ \A h \in Instance : h # g => component'[h] = component[h]
  BY <1>1, OneComponent
<1>5. component[g].operated /\ (report[t].at = "tell" => component[g].told = 0)
  BY <1>1, <1>2 DEF StageInv
<1>6. \A h \in Instance : component'[h].operated = component[h].operated /\ component'[h].beat = component[h].beat
  BY <1>4
<1>7. StageInv'
  <2>1. \A u \in Carrier : u # t /\ report'[u].at \in Working =>
          report'[u] = report[u] /\ component'[report[u].of] = component[report[u].of]
    BY <1>3, <1>4
  <2>2. n.told <= 1
    <3>1. component[g].told <= 1
      BY <1>1 DEF StageInv
    <3> QED BY <1>5, <3>1
  <2>3. \A h \in Instance : h # g =>
          component'[h].told <= 1 /\ (component'[h].told = 1 => component'[h].operated)
    BY <1>1, <1>4 DEF StageInv
  <2>4. \A h \in Instance : component'[h].told <= 1 /\ (component'[h].told = 1 => component'[h].operated)
    BY <1>4, <1>5, <2>2, <2>3
  <2>5. report'[t].at \in Working =>
          report'[t].at = "reset" /\ component'[report'[t].of].operated
    BY <1>4, <1>5 DEF Working
  <2> QED BY <1>1, <2>1, <2>4, <2>5 DEF StageInv
<1>8. \A b \in beats : b.of \in Instance
  BY <1>1 DEF OwnTypes
<1>9. BeatInv'
  <2>1. \A u \in Carrier : report'[u].at = "beat" => report'[u] = report[u]
    OBVIOUS
  <2> QED BY <1>1, <1>6, <1>8, <2>1 DEF BeatInv
<1>10. LivingInv'
  <2>1. \A u \in Carrier : report'[u].at \in Working => report[u].at \in Working /\ report'[u].of = report[u].of
    BY <1>2 DEF Working
  <2>2. \A u \in Carrier : report[u].at = "assign" => report'[u] = report[u]
    OBVIOUS
  <2> QED BY <1>1, <1>6, <1>8, <2>1, <2>2 DEF LivingInv
<1>11. beats' \subseteq [id : Nat, by : Carrier, of : 1..made] /\ nextTask' \in Nat
  BY <1>1 DEF OwnTypes
<1> QED BY <1>2, <1>4, <1>7, <1>9, <1>10, <1>11, WorkerMoves

\* The callback is called, if it is set.
LEMMA TellResultKeeps == ASSUME OwnInv, NEW t \in Carrier, TellResult(t) PROVE OwnInv'
<1>1. CASE IsUndefined("worker")
  BY <1>1, UndefinedKeeps
<1>2. CASE ~IsUndefined("worker")
  <2>1. /\ report[t].at = "tell" /\ Proceed(t, "reset")
        /\ component' = [component EXCEPT ![report[t].of].told =
                            IF component[report[t].of].result THEN component[report[t].of].told + 1
                            ELSE component[report[t].of].told]
        /\ UNCHANGED <<beats, nextTask>>
        /\ UNCHANGED <<flag, instance, made, deleted, user, tick, cancelled, orphaned, undefinedBy>>
    BY <1>2, HeldIsLiving DEF TellResult, With, Held, Working
  <2>2. OwnTypes /\ StageInv /\ BeatInv /\ LivingInv
    BY DEF OwnInv
  <2>3. report[t].at \in Working /\ "reset" \in {"no", "lock"} \cup Held
    BY <2>1 DEF Working, Held
  <2>4. PICK g \in Instance : g = report[t].of /\ g \in 1..made /\ component[g] \in Component
    BY <2>3, OwnerIsAlone
  <2>5. \A u \in Carrier : report[u].at \in Working => report[u].of \in Instance /\ (u # t => report[u].of # g)
    BY <2>3, <2>4, OwnerIsAlone
  <2>6. /\ report' \in [Carrier -> [at : {"no", "lock"} \cup Held, of : Nat]]
        /\ report'[t].at = "reset" /\ report'[t].of = g
        /\ \A u \in Carrier : u # t => report'[u] = report[u]
    BY <2>1, <2>2, <2>3, <2>4, ReportMoves DEF Held
  <2>7. PICK x \in Nat :
          x = IF component[g].result THEN component[g].told + 1 ELSE component[g].told
    BY <2>4 DEF Component
  <2>8. PICK n \in Component : n = [component[g] EXCEPT !.told = x]
    BY <2>4, ComponentField
  <2>9. n.operated = component[g].operated /\ n.beat = component[g].beat /\ n.told = x
    BY <2>4, <2>8 DEF Component
  <2>10. component' = [component EXCEPT ![g] = n]
    BY <2>1, <2>4, <2>7, <2>8
  <2>11. n.told = component[g].told \/ (report[t].at = "tell" /\ n.told = component[g].told + 1)
    BY <2>1, <2>7, <2>9
  <2>12. report[t].at \in {"tell", "reset"} /\ report'[t].at \in {"reset", "no"}
    BY <2>1, <2>6
  <2>13. /\ UNCHANGED <<beats, nextTask>>
         /\ UNCHANGED <<flag, instance, made, deleted, user, tick, cancelled, orphaned, undefinedBy>>
    BY <2>1
  <2> QED BY <2>4, <2>6, <2>9, <2>10, <2>11, <2>12, <2>13, TellingKeeps
<1> QED BY <1>1, <1>2

\* The callback is reset, and the task returns.
LEMMA ResetResultCallbackKeeps == ASSUME OwnInv, NEW t \in Carrier, ResetResultCallback(t) PROVE OwnInv'
<1>1. CASE IsUndefined("worker")
  BY <1>1, UndefinedKeeps
<1>2. CASE ~IsUndefined("worker")
  <2>1. /\ report[t].at = "reset" /\ Return(t)
        /\ component' = [component EXCEPT ![report[t].of].result = FALSE]
        /\ UNCHANGED <<beats, nextTask>>
        /\ UNCHANGED <<flag, instance, made, deleted, user, tick, cancelled, orphaned, undefinedBy>>
    BY <1>2, HeldIsLiving DEF ResetResultCallback, With, Held, Working
  <2>2. OwnTypes /\ StageInv /\ BeatInv /\ LivingInv
    BY DEF OwnInv
  <2>3. report[t].at \in Working /\ "no" \in {"no", "lock"} \cup Held
    BY <2>1 DEF Working, Held
  <2>4. PICK g \in Instance : g = report[t].of /\ g \in 1..made /\ component[g] \in Component
    BY <2>3, OwnerIsAlone
  <2>5. \A u \in Carrier : report[u].at \in Working => report[u].of \in Instance /\ (u # t => report[u].of # g)
    BY <2>3, <2>4, OwnerIsAlone
  <2>6. /\ report' \in [Carrier -> [at : {"no", "lock"} \cup Held, of : Nat]]
        /\ report'[t].at = "no"
        /\ \A u \in Carrier : u # t => report'[u] = report[u]
    BY <2>1, <2>2, <2>3, <2>4, ReportMoves DEF Held
  <2>7. PICK n \in Component : n = [component[g] EXCEPT !.result = FALSE]
    BY <2>4, ComponentField
  <2>8. n.operated = component[g].operated /\ n.beat = component[g].beat /\ n.told = component[g].told
    BY <2>4, <2>7 DEF Component
  <2>9. component' = [component EXCEPT ![g] = n]
    BY <2>1, <2>4, <2>7
  <2>10. /\ report[t].at \in {"tell", "reset"} /\ report'[t].at \in {"reset", "no"}
         /\ report'[t].at # "no" => report'[t].of = g
         /\ UNCHANGED <<beats, nextTask>>
         /\ UNCHANGED <<flag, instance, made, deleted, user, tick, cancelled, orphaned, undefinedBy>>
    BY <2>1, <2>6
  <2> QED BY <2>4, <2>6, <2>8, <2>9, <2>10, TellingKeeps
<1> QED BY <1>1, <1>2

\* The ticker: a heartbeat begins with the living instance only.
LEMMA TickerKeeps == OwnInv /\ TickerStep => OwnInv'
<1> SUFFICES ASSUME OwnInv, TickerStep PROVE OwnInv'
  OBVIOUS
<1>1. OwnTypes /\ LifeInv /\ HeartbeatInv
  BY DEF OwnInv
<1>2. ASSUME TickUnchanged, beats' \subseteq beats,
             tick' \in [at : {"no", "compile", "send", "lock", "test"}, of : Nat],
             tick'.at \in {"compile", "send"} =>
               instance # 0 /\ user \notin {"delete", "reset"}
      PROVE  OwnInv'
  <2>1. UNCHANGED <<flag, instance, component, made, deleted, user, report, cancelled, nextTask,
                    orphaned, undefinedBy>>
    BY <1>2 DEF TickUnchanged
  <2>2. OwnTypes'
    BY <1>1, <1>2, <2>1 DEF OwnTypes
  <2>3. LifeInv' /\ HeartbeatInv'
    BY <1>1, <1>2, <2>1 DEF LifeInv, HeartbeatInv
  <2> QED BY <1>2, <2>1, <2>2, <2>3, Elsewhere
<1>3. Outside \in [at : {"no", "compile", "send", "lock", "test"}, of : Nat] /\ Outside.at = "no"
  BY DEF Outside
<1>4. tick \in [at : {"no", "compile", "send", "lock", "test"}, of : Nat] /\ instance \in Nat
  BY <1>1 DEF OwnTypes
<1>5. CASE BeginHeartbeat
  <2>1. PICK b \in beats :
          \/ tick' = tick /\ beats' \subseteq beats /\ TickUnchanged
          \/ /\ flag /\ instance # 0 /\ tick' = [at |-> "compile", of |-> 0]
             /\ beats' = beats /\ TickUnchanged
          \/ IsUndefined("ticker")
    BY <1>5 DEF BeginHeartbeat
  <2>2. tick = Outside
    BY <1>5 DEF BeginHeartbeat
  <2>3. CASE tick' = tick /\ beats' \subseteq beats /\ TickUnchanged
    BY <1>2, <1>3, <2>2, <2>3
  <2>4. CASE flag /\ instance # 0 /\ tick' = [at |-> "compile", of |-> 0] /\ beats' = beats /\ TickUnchanged
    <3>1. user \notin {"delete", "reset"}
      BY <1>1, <2>4 DEF LifeInv, Starting
    <3>2. tick' \in [at : {"no", "compile", "send", "lock", "test"}, of : Nat]
      BY <2>4
    <3> QED BY <1>2, <2>4, <3>1, <3>2
  <2>5. CASE IsUndefined("ticker")
    BY <2>5, UndefinedKeeps
  <2> QED BY <2>1, <2>3, <2>4, <2>5
<1>6. CASE CompileCurrentHeartbeatData \/ SendHeartbeat
  <2>1. tick.at \in {"compile", "send"}
    BY <1>6 DEF CompileCurrentHeartbeatData, SendHeartbeat
  <2>2. instance # 0 /\ user \notin {"delete", "reset"}
    BY <1>1, <2>1 DEF HeartbeatInv
  <2>3. instance \notin deleted \cup {0}
    BY <1>1, <2>2 DEF LifeInv
  <2>4. tick' \in {Outside, [tick EXCEPT !.at = "send"]} /\ beats' = beats /\ TickUnchanged
    BY <1>6, <2>3 DEF CompileCurrentHeartbeatData, SendHeartbeat
  <2>5. PICK r : r = [tick EXCEPT !.at = "send"]
    OBVIOUS
  <2>6. r \in [at : {"no", "compile", "send", "lock", "test"}, of : Nat]
    BY <1>4, <2>5
  <2>7. CASE tick' = Outside
    BY <1>2, <1>3, <2>4, <2>7
  <2>8. CASE tick' = r
    BY <1>2, <2>2, <2>4, <2>6, <2>8
  <2> QED BY <2>4, <2>5, <2>7, <2>8
<1>7. CASE BeginTimeLimit
  <2>1. tick' \in {Outside, [at |-> "lock", of |-> 0]} /\ beats' = beats /\ TickUnchanged
    BY <1>7 DEF BeginTimeLimit
  <2>2. PICK r : r = [at |-> "lock", of |-> 0]
    OBVIOUS
  <2>3. r \in [at : {"no", "compile", "send", "lock", "test"}, of : Nat] /\ r.at = "lock"
    BY <2>2
  <2>4. CASE tick' = Outside
    BY <1>2, <1>3, <2>1, <2>4
  <2>5. CASE tick' = r
    BY <1>2, <2>1, <2>3, <2>5
  <2> QED BY <2>1, <2>2, <2>4, <2>5
<1>8. CASE LockTimeLimit \/ TestTimeLimit
  <2>1. \/ IsUndefined("time limit")
        \/ tick' \in {Outside, [at |-> "test", of |-> instance]} /\ beats' = beats /\ TickUnchanged
    BY <1>8 DEF LockTimeLimit, TestTimeLimit
  <2>2. PICK r : r = [at |-> "test", of |-> instance]
    OBVIOUS
  <2>3. r \in [at : {"no", "compile", "send", "lock", "test"}, of : Nat] /\ r.at = "test"
    BY <1>4, <2>2
  <2>4. CASE tick' = Outside /\ beats' = beats /\ TickUnchanged
    BY <1>2, <1>3, <2>4
  <2>5. CASE tick' = r /\ beats' = beats /\ TickUnchanged
    BY <1>2, <2>3, <2>5
  <2>6. CASE IsUndefined("time limit")
    BY <2>6, UndefinedKeeps
  <2> QED BY <2>1, <2>2, <2>4, <2>5, <2>6
<1> QED BY <1>5, <1>6, <1>7, <1>8 DEF TickerStep

\* The sample of the system is set in an instance, whichever it is.
LEMMA SamplingKeeps ==
  ASSUME OwnInv, ManagerInv, SystemCallback \/ SetCurrentSystemInfo
  PROVE  OwnInv' /\ ManagerInv' /\ client' = client
<1>1. OwnTypes /\ LifeInv /\ HeartbeatInv
  BY DEF OwnInv
<1>2. running \in BOOLEAN /\ manager \in {"null", "alive", "deleted"}
  BY DEF ManagerInv, ManagerTypes
<1>3. CASE IsUndefined("system")
  <2>1. OwnInv'
    BY <1>3, UndefinedKeeps
  <2>2. UNCHANGED managerVars /\ client' = client
    BY <1>3 DEF IsUndefined, clientVars
  <2>3. ManagerInv'
    BY <1>2, <2>2, DenKeeps DEF managerVars
  <2> QED BY <2>1, <2>2, <2>3
<1>4. CASE ~IsUndefined("system")
  <2>1. SampleUnchanged /\ (\/ den = "inside" /\ den' \in {"data", "look"} /\ component' = component
                            \/ /\ den = "data" /\ den' = "look"
                               /\ component' = [component EXCEPT ![instance].info = TRUE])
    BY <1>4 DEF SystemCallback, SetCurrentSystemInfo
  <2>2. /\ UNCHANGED <<flag, instance, made, deleted, user, report, tick, beats, cancelled, nextTask,
                       orphaned, undefinedBy>>
        /\ client' = client
        /\ UNCHANGED <<running, manager, emptyFirst, nextIx, callbacks, index, whole, called, shaken>>
    BY <2>1 DEF SampleUnchanged, clientVars
  <2>3. ManagerInv'
    BY <1>2, <2>1, <2>2, DenKeeps
  <2>4. /\ component' \in [Instance -> Component]
        /\ \A h \in Instance : /\ component'[h].operated = component[h].operated
                               /\ component'[h].beat = component[h].beat
                               /\ component'[h].told = component[h].told
    <3>1. CASE component' = component
      BY <1>1, <3>1 DEF OwnTypes
    <3>2. CASE component' = [component EXCEPT ![instance].info = TRUE] /\ instance \notin Instance
      <4>1. component' = component
        BY <1>1, <3>2 DEF OwnTypes
      <4> QED BY <1>1, <4>1 DEF OwnTypes
    <3>3. CASE component' = [component EXCEPT ![instance].info = TRUE] /\ instance \in Instance
      <4>1. PICK k \in Component : k = component[instance]
        BY <1>1, <3>3 DEF OwnTypes
      <4>2. PICK n \in Component : n = [k EXCEPT !.info = TRUE]
        BY ComponentField
      <4>3. component' = [component EXCEPT ![instance] = n]
        BY <3>3, <4>1, <4>2
      <4>4. n.operated = k.operated /\ n.beat = k.beat /\ n.told = k.told
        BY <4>2 DEF Component
      <4> QED BY <1>1, <3>3, <4>1, <4>3, <4>4, ComponentAside
    <3> QED BY <2>1, <3>1, <3>2, <3>3
  <2>5. OwnTypes'
    BY <1>1, <2>2, <2>4 DEF OwnTypes
  <2>6. LifeInv' /\ HeartbeatInv'
    BY <1>1, <2>2 DEF LifeInv, HeartbeatInv
  <2>7. OwnInv'
    BY <2>2, <2>4, <2>5, <2>6, Elsewhere
  <2> QED BY <2>2, <2>3, <2>7
<1> QED BY <1>3, <1>4

-----------------------------------------------------------------------------
(* The theorems.                                                           *)

\* What lies between the component, the manager and the clients.
LEMMA UserKeeps == DiscoveryInv /\ UserStep => DiscoveryInv'
<1> SUFFICES ASSUME DiscoveryInv, UserStep PROVE DiscoveryInv'
  OBVIOUS
<1>1. ManagerInv /\ ClientsInv /\ OwnInv /\ LifeInv
  BY DEF DiscoveryInv, OwnInv
<1>2. running \in BOOLEAN /\ manager \in {"null", "alive", "deleted"}
  BY <1>1 DEF ManagerInv, ManagerTypes
<1>3. UNCHANGED managerVars => ManagerInv'
  BY <1>1, <1>2, DenKeeps DEF managerVars
<1>4. client' = client => ClientsInv'
  BY <1>1 DEF ClientsInv
<1>5. CASE StartComponent
  BY <1>1, <1>3, <1>4, <1>5, StartComponentKeeps DEF StartComponent, clientVars, DiscoveryInv
<1>6. CASE SetResultCallback \/ Register
  BY <1>1, <1>3, <1>4, <1>6, StartingKeeps DEF SetResultCallback, Register, clientVars, DiscoveryInv
<1>7. CASE RegisterSystemCallback \/ AddSystemCallback
  <2>1. ManagerInv'
    BY <1>1, <1>3, <1>7, AddCallbackKeeps DEF RegisterSystemCallback, AddSystemCallback, IsUndefined
  <2>2. client' = client
    BY <1>7 DEF RegisterSystemCallback, AddSystemCallback, IsUndefined, clientVars
  <2> QED BY <1>4, <1>7, <2>1, <2>2, StartingKeeps DEF DiscoveryInv
<1>8. CASE Connect
  <2>1. OwnInv' /\ ManagerInv'
    BY <1>3, <1>8, StartingKeeps DEF Connect, IsUndefined
  <2>2. instance \in Client /\ client[instance].memory = "none"
    <3>1. instance \in Instance
      BY <1>1, <1>8, LivingWasMade DEF Connect, LifeInv, Starting
    <3> QED BY <1>8, <3>1, ClientsAreOfBoth DEF Connect
  <2>3. ClientsInv'
    BY <1>1, <1>4, <1>8, <2>2, InitializeClientKeeps DEF Connect, IsUndefined, clientVars
  <2> QED BY <2>1, <2>3 DEF DiscoveryInv
<1>9. CASE ConstructComponentClient
  <2>1. instance \in Client
    <3>1. instance \in Instance
      BY <1>1, <1>9, LivingWasMade DEF ConstructComponentClient, LifeInv, Starting
    <3> QED BY <3>1, ClientsAreOfBoth
  <2>2. ClientsInv'
    BY <1>1, <1>9, <2>1, ConstructClientKeeps DEF ConstructComponentClient
  <2>3. OwnInv'
    BY <1>1, <1>9 DEF ConstructComponentClient, own, OwnInv, OwnTypes, LifeInv, HeartbeatInv, LockInv,
                      StageInv, BeatInv, LivingInv
  <2> QED BY <1>3, <1>9, <2>2, <2>3 DEF ConstructComponentClient, DiscoveryInv
<1>10. CASE RemoveSystemCallback \/ TakeSystemCallback
  <2>1. ManagerInv'
    BY <1>1, <1>3, <1>10, RemoveCallbackKeeps DEF RemoveSystemCallback, TakeSystemCallback, IsUndefined
  <2>2. client' = client
    BY <1>10 DEF RemoveSystemCallback, TakeSystemCallback, IsUndefined, clientVars
  <2> QED BY <1>1, <1>4, <1>10, <2>1, <2>2, StoppingKeeps DEF DiscoveryInv
<1>11. CASE StopComponent \/ CancelHeartbeat \/ DeleteInstance \/ ResetInstance
  BY <1>1, <1>3, <1>4, <1>11, StoppingKeeps
     DEF StopComponent, CancelHeartbeat, DeleteInstance, ResetInstance, IsUndefined, clientVars,
         DiscoveryInv
<1> QED BY <1>5, <1>6, <1>7, <1>8, <1>9, <1>10, <1>11 DEF UserStep

\* The tasks of the callback and the ticker leave the manager and the clients' objects alone.
LEMMA ThreadsKeep ==
  ASSUME DiscoveryInv, TickerStep \/ \E t \in Carrier : ReportStep(t)
  PROVE  DiscoveryInv'
<1>1. ManagerInv /\ ClientsInv /\ OwnInv
  BY DEF DiscoveryInv
<1>2. running \in BOOLEAN /\ manager \in {"null", "alive", "deleted"}
  BY <1>1 DEF ManagerInv, ManagerTypes
<1>3. UNCHANGED managerVars => ManagerInv'
  BY <1>1, <1>2, DenKeeps DEF managerVars
<1>4. client' = client => ClientsInv'
  BY <1>1 DEF ClientsInv
<1>5. CASE TickerStep
  <2>1. UNCHANGED managerVars /\ client' = client
    BY <1>5 DEF TickerStep, BeginHeartbeat, CompileCurrentHeartbeatData, SendHeartbeat, BeginTimeLimit,
                LockTimeLimit, TestTimeLimit, TickUnchanged, IsUndefined, clientVars
  <2> QED BY <1>1, <1>3, <1>4, <1>5, <2>1, TickerKeeps DEF DiscoveryInv
<1>6. ASSUME NEW t \in Carrier, ReportStep(t) PROVE DiscoveryInv'
  <2>1. UNCHANGED managerVars /\ client' = client
    BY <1>6 DEF ReportStep, SeeInstance, LockOperated, TestOperated, SetOperated, ScheduleHeartbeat,
                KeepHeartbeatIx, TellResult, ResetResultCallback, With, TakeLock, IsUndefined, clientVars
  <2>2. OwnInv'
    BY <1>1, <1>6, SeeInstanceKeeps, LockOperatedKeeps, TestOperatedKeeps, SetOperatedKeeps,
       ScheduleHeartbeatKeeps, KeepHeartbeatIxKeeps, TellResultKeeps, ResetResultCallbackKeeps
       DEF ReportStep
  <2> QED BY <1>3, <1>4, <2>1, <2>2 DEF DiscoveryInv
<1> QED BY <1>5, <1>6

\* The inductive invariant of the component with its manager and clients: it holds initially,
\* and every step of every thread keeps it.
THEOREM DiscoveryInvariance == Spec => []DiscoveryInv
<1>1. Init => DiscoveryInv
  BY ManagerStarts, ClientsStart, OwnStarts DEF Init, DiscoveryInv
<1>2. DiscoveryInv /\ [Next]_allVars => DiscoveryInv'
  <2> SUFFICES ASSUME DiscoveryInv, [Next]_allVars PROVE DiscoveryInv'
    OBVIOUS
  <2>1. ManagerInv /\ ClientsInv /\ OwnInv
    BY DEF DiscoveryInv
  <2>2. running \in BOOLEAN /\ manager \in {"null", "alive", "deleted"}
    BY <2>1 DEF ManagerInv, ManagerTypes
  <2>3. UNCHANGED managerVars => ManagerInv'
    BY <2>1, <2>2, DenKeeps DEF managerVars
  <2>4. client' = client => ClientsInv'
    BY <2>1 DEF ClientsInv
  <2>5. UNCHANGED own => OwnInv'
    BY <2>1 DEF own, OwnInv, OwnTypes, LifeInv, HeartbeatInv, LockInv, StageInv, BeatInv, LivingInv
  <2>6. CASE UserStep
    BY <2>6, UserKeeps
  <2>7. CASE TickerStep \/ \E t \in Carrier : ReportStep(t)
    BY <2>7, ThreadsKeep
  <2>8. CASE SystemCallback \/ SetCurrentSystemInfo
    BY <2>1, <2>4, <2>8, SamplingKeeps DEF DiscoveryInv
  <2>9. CASE ManagerStep /\ UNCHANGED <<clientVars, own>>
    BY <2>1, <2>4, <2>5, <2>9, ManagerKeeps DEF clientVars, DiscoveryInv
  <2>10. CASE ClientStep /\ UNCHANGED <<managerVars, own>>
    BY <2>1, <2>3, <2>5, <2>10, ClientKeeps DEF DiscoveryInv
  <2>11. CASE UNCHANGED allVars
    BY <2>3, <2>4, <2>5, <2>11 DEF allVars, clientVars, DiscoveryInv
  <2> QED BY <2>6, <2>7, <2>8, <2>9, <2>10, <2>11 DEF Next
<1> QED BY <1>1, <1>2, PTL DEF Spec

\* Each callback of the system manager that is registered throughout a tick is called exactly
\* once in it, as long as no addition meets the thread in the vector and nothing is removed.
THEOREM TickIsComplete == Spec => []TickCallsEachOnce
<1>1. DiscoveryInv => TickCallsEachOnce
  BY DEF DiscoveryInv, ManagerInv
<1> QED BY <1>1, DiscoveryInvariance, PTL

\* A client that its handler called back once is deleted after its handler, its socket, its
\* address and its thread's last use of the socket.
THEOREM ClientOutlivesItsParts == Spec => []ClientFreedLast
<1>1. DiscoveryInv => ClientFreedLast
  <2> SUFFICES ASSUME DiscoveryInv, NEW c \in Client, client[c].memory = "deleted", client[c].calledBack = 1
               PROVE  /\ client[c].handler = "deleted" /\ client[c].socket = "closed"
                      /\ client[c].address = "freed" /\ client[c].thread # "listening"
    BY DEF ClientFreedLast
  <2>1. ClientOK(client[c])
    BY DEF DiscoveryInv, ClientsInv
  <2> QED BY <2>1 DEF ClientOK, EndedOnce, EndedInOrder
<1> QED BY <1>1, DiscoveryInvariance, PTL

\* The application hears the result of an instance's start at most once.
THEOREM ToldOnce == Spec => []ResultOnce
<1>1. DiscoveryInv => ResultOnce
  BY DEF DiscoveryInv, OwnInv, StageInv, ResultOnce
<1> QED BY <1>1, DiscoveryInvariance, PTL

\* No heartbeat finds its instance deleted; and unless a stop came between an answer and the
\* keeping of its heartbeat's id, no heartbeat is left that beats for an earlier instance, or
\* twice for the living one.
THEOREM LivingBeats == Spec => []HeartbeatsOfTheLiving
<1>1. DiscoveryInv => HeartbeatsOfTheLiving
  <2> SUFFICES ASSUME DiscoveryInv PROVE HeartbeatsOfTheLiving
    OBVIOUS
  <2>1. HeartbeatInv /\ BeatInv /\ LivingInv
    BY DEF DiscoveryInv, OwnInv
  <2>2. ASSUME ~orphaned, NEW b \in beats, b.id \notin cancelled
        PROVE  b.of = instance /\ \A other \in beats \ {b} : other.id \in cancelled
    BY <2>1, <2>2 DEF BeatInv, LivingInv
  <2> QED BY <2>1, <2>2 DEF HeartbeatsOfTheLiving, HeartbeatInv
<1> QED BY <1>1, DiscoveryInvariance, PTL
===============================================================================
