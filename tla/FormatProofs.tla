----------------------------- MODULE FormatProofs -----------------------------
(***************************************************************************)
(* Theorems about JsonNode, for any nodes, names, literals and bounds: the *)
(* references to shared data are counted, no data is part of itself, and   *)
(* nodes that share their data behave as values of their own.  Theorems    *)
(* about Base64, for any bytes, however many: the text that Encode puts    *)
(* behind its noughts is decoded to what they were, with them it is not.   *)
(***************************************************************************)
EXTENDS JsonNode, Base64, FiniteSetTheorems, SequenceTheorems, WellFoundedInduction, TLAPS

Ref == Cell \cup {NoData}

\* A set of numbers that is not empty has a least one.
LEMMA FirstIsLeast ==
  ASSUME NEW S, S \subseteq Nat, S # {}
  PROVE  FirstOf(S) \in S /\ \A j \in S : FirstOf(S) <= j
<1> DEFINE T == {0..x : x \in S}
<1>1. T \subseteq FiniteSubsetsOf(Nat) /\ T # {}
  <2>1. \A x \in S : 0..x \subseteq Nat /\ IsFiniteSet(0..x)
    BY FS_Interval
  <2> QED BY <2>1 DEF FiniteSubsetsOf
<1>2. PICK t \in T : \A u \in T : <<u, t>> \notin StrictSubsetOrdering(Nat)
  <2> HIDE DEF T
  <2> QED BY <1>1, FS_StrictSubsetOrderingWellFounded, WFMin
<1>3. PICK x \in S : t = 0..x
  OBVIOUS
<1>4. ASSUME NEW y \in S, y < x PROVE FALSE
  <2>1. 0..y \in T /\ 0..y \subseteq 0..x /\ 0..y # 0..x /\ 0..x \subseteq Nat
    <3>1. x \in 0..x /\ x \notin 0..y
      BY <1>4
    <3> QED BY <1>4, <3>1
  <2>2. <<0..y, 0..x>> \in StrictSubsetOrdering(Nat)
    BY <2>1 DEF StrictSubsetOrdering
  <2> QED BY <1>2, <1>3, <2>1, <2>2
<1>5. \A y \in S : x <= y
  BY <1>4
<1> QED BY <1>5 DEF FirstOf

-----------------------------------------------------------------------------
(* Counting references.                                                    *)

\* Sets between which there is a bijection have as many elements.
LEMMA SameNumber ==
  ASSUME NEW S, NEW T, IsFiniteSet(S), NEW f \in [S -> T],
         \A x, y \in S : f[x] = f[y] => x = y,
         \A z \in T : \E x \in S : f[x] = z
  PROVE  IsFiniteSet(T) /\ Cardinality(T) = Cardinality(S)
<1>1. f \in Bijection(S, T)
  BY DEF Bijection, Injection, Surjection, IsInjective
<1> QED BY <1>1, FS_Bijection DEF ExistsBijection

\* The elements of a set that is divided in two.
LEMMA TwoParts ==
  ASSUME NEW S, NEW T, IsFiniteSet(S), IsFiniteSet(T), S \cap T = {}
  PROVE  /\ IsFiniteSet(S \cup T)
         /\ Cardinality(S \cup T) = Cardinality(S) + Cardinality(T)
         /\ Cardinality(S) \in Nat /\ Cardinality(T) \in Nat
<1>1. Cardinality(S) \in Nat /\ Cardinality(T) \in Nat
  BY FS_CardinalityType
<1>2. /\ IsFiniteSet(S \cup T)
      /\ Cardinality(S \cup T) = Cardinality(S) + Cardinality(T) - Cardinality(S \cap T)
  BY FS_Union
<1>3. Cardinality(S \cap T) = 0
  BY FS_EmptySet
<1> QED BY <1>1, <1>2, <1>3

\* Places are finitely many.
LEMMA PlacesAreFinite ==
  ASSUME NEW h, NEW D \in SUBSET Cell, NEW c
  PROVE  IsFiniteSet(Places(h, D, c)) /\ References(h, D, c) \in Nat
<1>1. IsFiniteSet(Cell \X (1..MaxChildren))
  <2>1. IsFiniteSet(1..MaxCell) /\ IsFiniteSet(1..MaxChildren)
    BY FS_Interval, BoundsAreNumbers
  <2> QED BY <2>1, FS_Product DEF Cell
<1>2. Places(h, D, c) \subseteq Cell \X (1..MaxChildren)
  BY DEF Places
<1> QED BY <1>1, <1>2, FS_Subset, FS_CardinalityType DEF References

\* References from a set of data are those from a part of it and those from the rest.
LEMMA ReferencesOfParts ==
  ASSUME NEW h, NEW E \in SUBSET Cell, NEW D \in SUBSET E, NEW c
  PROVE  /\ References(h, E, c) = References(h, D, c) + References(h, E \ D, c)
         /\ References(h, D, c) \in Nat /\ References(h, E \ D, c) \in Nat
<1>1. Places(h, E, c) = Places(h, D, c) \cup Places(h, E \ D, c)
  BY DEF Places
<1>2. Places(h, D, c) \cap Places(h, E \ D, c) = {}
  BY DEF Places
<1>3. IsFiniteSet(Places(h, D, c)) /\ IsFiniteSet(Places(h, E \ D, c))
  BY PlacesAreFinite
<1> QED BY <1>1, <1>2, <1>3, TwoParts DEF References

\* More data, no fewer references.
LEMMA ReferencesGrow ==
  ASSUME NEW h, NEW E \in SUBSET Cell, NEW D \in SUBSET E, NEW c
  PROVE  References(h, D, c) <= References(h, E, c)
<1>1. References(h, E, c) = References(h, D, c) + References(h, E \ D, c)
  BY ReferencesOfParts
<1>2. References(h, D, c) \in Nat /\ References(h, E \ D, c) \in Nat
  BY PlacesAreFinite
<1> QED BY <1>1, <1>2

\* References depend on the children only.
LEMMA SameReferences ==
  ASSUME NEW h, NEW g, NEW D \in SUBSET Cell, \A d \in D : h[d].children = g[d].children, NEW c
  PROVE  References(h, D, c) = References(g, D, c)
<1>1. Places(h, D, c) = Places(g, D, c)
  BY DEF Places
<1> QED BY <1>1 DEF References

\* Nobody refers to c when no reference is counted, and else somebody does.
LEMMA Unreferenced ==
  ASSUME NEW h, HeapOK(h), NEW D \in SUBSET Cell, NEW c
  PROVE  References(h, D, c) = 0 <=> \A d \in D : \A i \in DOMAIN h[d].children : h[d].children[i].cell # c
<1>1. References(h, D, c) = 0 <=> Places(h, D, c) = {}
  BY PlacesAreFinite, FS_EmptySet DEF References
<1>2. \A d \in D : DOMAIN h[d].children \subseteq 1..MaxChildren
  <2>1. \A d \in Cell : h[d].children \in Seq(ChildRef) /\ Len(h[d].children) <= MaxChildren
    BY DEF HeapOK, Data
  <2>2. \A d \in Cell : DOMAIN h[d].children = 1..Len(h[d].children) /\ Len(h[d].children) \in Nat
    BY <2>1
  <2> QED BY <2>1, <2>2, BoundsAreNumbers
<1>3. Places(h, D, c) = {} <=> \A d \in D : \A i \in DOMAIN h[d].children : h[d].children[i].cell # c
  <2>1. ASSUME NEW d \in D, NEW i \in DOMAIN h[d].children, h[d].children[i].cell = c
        PROVE  <<d, i>> \in Places(h, D, c)
    BY <1>2, <2>1 DEF Places
  <2>2. ASSUME NEW p \in Places(h, D, c)
        PROVE  \E d \in D : \E i \in DOMAIN h[d].children : h[d].children[i].cell = c
    BY DEF Places
  <2> QED BY <2>1, <2>2
<1> QED BY <1>1, <1>3

\* An occurrence in the children of d is a reference of d.
LEMMA ReferencesOfOne ==
  ASSUME NEW h, HeapOK(h), NEW d \in Cell, NEW c
  PROVE  References(h, {d}, c) = Occurrences(h[d].children, c)
<1> DEFINE S == {i \in DOMAIN h[d].children : h[d].children[i].cell = c}
           f == [i \in S |-> <<d, i>>]
<1>1. DOMAIN h[d].children = 1..Len(h[d].children) /\ Len(h[d].children) \in 0..MaxChildren
  <2>1. h[d].children \in Seq(ChildRef) /\ Len(h[d].children) <= MaxChildren
    BY DEF HeapOK, Data
  <2> QED BY <2>1, BoundsAreNumbers
<1>2. IsFiniteSet(S)
  <2>1. IsFiniteSet(1..Len(h[d].children)) /\ S \subseteq 1..Len(h[d].children)
    BY <1>1, FS_Interval
  <2> QED BY <2>1, FS_Subset
<1>3. f \in [S -> Places(h, {d}, c)]
  BY <1>1, BoundsAreNumbers DEF Places
<1>4. \A x, y \in S : f[x] = f[y] => x = y
  OBVIOUS
<1>5. \A p \in Places(h, {d}, c) : \E i \in S : f[i] = p
  BY DEF Places
<1>6. Cardinality(Places(h, {d}, c)) = Cardinality(S)
  <2> HIDE DEF S, f
  <2> QED BY <1>2, <1>3, <1>4, <1>5, SameNumber
<1> QED BY <1>6 DEF References, Occurrences

\* References are those of d and those of the others.
LEMMA ReferencesOfOneAndRest ==
  ASSUME NEW h, HeapOK(h), NEW d \in Cell, NEW c
  PROVE  /\ References(h, Cell, c) = References(h, Cell \ {d}, c) + Occurrences(h[d].children, c)
         /\ References(h, Cell \ {d}, c) \in Nat
<1> DEFINE D == {d}
<1>1. D \in SUBSET Cell
  OBVIOUS
<1> HIDE DEF D
<1>2. /\ References(h, Cell, c) = References(h, D, c) + References(h, Cell \ D, c)
      /\ References(h, D, c) \in Nat /\ References(h, Cell \ D, c) \in Nat
  BY <1>1, ReferencesOfParts
<1>3. References(h, D, c) = Occurrences(h[d].children, c)
  BY ReferencesOfOne DEF D
<1>4. /\ References(h, Cell, c) = References(h, Cell \ D, c) + Occurrences(h[d].children, c)
      /\ References(h, Cell \ D, c) \in Nat
  BY <1>2, <1>3
<1> QED BY <1>4 DEF D

\* Occurrences are a number, and nought when nobody is c.
LEMMA OccurrencesAreCounted ==
  ASSUME NEW s \in Seq(ChildRef), NEW c
  PROVE  /\ Occurrences(s, c) \in Nat
         /\ IsFiniteSet({i \in DOMAIN s : s[i].cell = c})
         /\ Occurrences(s, c) = 0 <=> \A i \in DOMAIN s : s[i].cell # c
<1>1. DOMAIN s = 1..Len(s) /\ Len(s) \in Nat
  OBVIOUS
<1>2. IsFiniteSet(1..Len(s)) /\ {i \in DOMAIN s : s[i].cell = c} \subseteq 1..Len(s)
  BY <1>1, FS_Interval
<1>3. IsFiniteSet({i \in DOMAIN s : s[i].cell = c})
  BY <1>2, FS_Subset
<1>4. Occurrences(s, c) \in Nat /\ (Occurrences(s, c) = 0 <=> {i \in DOMAIN s : s[i].cell = c} = {})
  BY <1>3, FS_CardinalityType, FS_EmptySet DEF Occurrences
<1> QED BY <1>3, <1>4

\* One list behind another.
LEMMA OccurrencesOfConcat ==
  ASSUME NEW s \in Seq(ChildRef), NEW t \in Seq(ChildRef), NEW c
  PROVE  Occurrences(s \o t, c) = Occurrences(s, c) + Occurrences(t, c)
<1> DEFINE u == s \o t
           A == {i \in 1..Len(s) : s[i].cell = c}
           B == {i \in 1..Len(t) : t[i].cell = c}
           f == [i \in B |-> Len(s) + i]
           C == {Len(s) + i : i \in B}
<1>1. /\ Len(s) \in Nat /\ Len(t) \in Nat
      /\ DOMAIN s = 1..Len(s) /\ DOMAIN t = 1..Len(t) /\ DOMAIN u = 1..(Len(s) + Len(t))
      /\ \A i \in 1..Len(s) : u[i] = s[i]
      /\ \A i \in 1..Len(t) : u[Len(s) + i] = t[i]
  OBVIOUS
<1>2. IsFiniteSet(A) /\ IsFiniteSet(B)
  BY <1>1, OccurrencesAreCounted
<1>3. IsFiniteSet(C) /\ Cardinality(C) = Cardinality(B)
  <2>1. f \in [B -> C] /\ (\A z \in C : \E x \in B : f[x] = z)
    OBVIOUS
  <2>2. \A x, y \in B : f[x] = f[y] => x = y
    BY <1>1
  <2> HIDE DEF f, C, B
  <2> QED BY <1>2, <2>1, <2>2, SameNumber
<1>4. {i \in DOMAIN u : u[i].cell = c} = A \cup C
  <2> HIDE DEF u
  <2>1. ASSUME NEW i \in DOMAIN u, u[i].cell = c PROVE i \in A \cup C
    <3>1. CASE i <= Len(s)
      BY <1>1, <2>1, <3>1
    <3>2. CASE i > Len(s)
      <4>1. i - Len(s) \in 1..Len(t) /\ i = Len(s) + (i - Len(s))
        BY <1>1, <3>2
      <4>2. i - Len(s) \in B
        BY <1>1, <2>1, <4>1
      <4> QED BY <4>1, <4>2
    <3> QED BY <1>1, <3>1, <3>2
  <2>2. A \subseteq {i \in DOMAIN u : u[i].cell = c}
    BY <1>1
  <2>3. ASSUME NEW i \in B PROVE Len(s) + i \in {j \in DOMAIN u : u[j].cell = c}
    BY <1>1
  <2> QED BY <2>1, <2>2, <2>3
<1>5. A \cap C = {}
  BY <1>1
<1>6. Cardinality({i \in DOMAIN u : u[i].cell = c}) = Cardinality(A) + Cardinality(B)
  <2> HIDE DEF u, A, B, C
  <2> QED BY <1>2, <1>3, <1>4, <1>5, TwoParts
<1> QED BY <1>1, <1>6 DEF Occurrences

\* A list of one.
LEMMA OccurrencesInOne ==
  ASSUME NEW x \in ChildRef, NEW c
  PROVE  Occurrences(<<x>>, c) = IF x.cell = c THEN 1 ELSE 0
<1>1. DOMAIN <<x>> = {1} /\ <<x>>[1] = x
  OBVIOUS
<1>2. {i \in DOMAIN <<x>> : <<x>>[i].cell = c} = IF x.cell = c THEN {1} ELSE {}
  BY <1>1
<1> QED BY <1>2, FS_Singleton, FS_EmptySet DEF Occurrences

\* A child that is added.
LEMMA OccurrencesOfAppend ==
  ASSUME NEW s \in Seq(ChildRef), NEW x \in ChildRef, NEW c
  PROVE  Occurrences(Append(s, x), c) = Occurrences(s, c) + (IF x.cell = c THEN 1 ELSE 0)
<1> DEFINE o == <<x>>
<1>1. Append(s, x) = s \o o /\ o \in Seq(ChildRef)
  OBVIOUS
<1>2. Occurrences(o, c) = IF x.cell = c THEN 1 ELSE 0
  BY OccurrencesInOne
<1> HIDE DEF o
<1>3. Occurrences(s \o o, c) = Occurrences(s, c) + Occurrences(o, c)
  BY <1>1, OccurrencesOfConcat
<1> QED BY <1>1, <1>2, <1>3

\* What is where in two lists, one behind the other.
LEMMA ConcatElement ==
  ASSUME NEW S, NEW s \in Seq(S), NEW t \in Seq(S)
  PROVE  /\ s \o t \in Seq(S) /\ Len(s \o t) = Len(s) + Len(t)
         /\ \A j \in 1..(Len(s) + Len(t)) : (s \o t)[j] = IF j <= Len(s) THEN s[j] ELSE t[j - Len(s)]
OBVIOUS

\* A list in which what is at i is missing: what is in front of it and what is behind it.
LEMMA WithoutOne ==
  ASSUME NEW S, NEW s \in Seq(S), NEW i \in DOMAIN s
  PROVE  /\ RemoveAt(s, i) \in Seq(S)
         /\ Len(RemoveAt(s, i)) = Len(s) - 1
         /\ s = (SubSeq(s, 1, i - 1) \o <<s[i]>>) \o SubSeq(s, i + 1, Len(s))
         /\ \A j \in 1..(Len(s) - 1) : RemoveAt(s, i)[j] = IF j < i THEN s[j] ELSE s[j + 1]
<1> DEFINE f == SubSeq(s, 1, i - 1)
           b == SubSeq(s, i + 1, Len(s))
           n == Len(s)
<1>1. n \in Nat /\ i \in 1..n /\ s[i] \in S /\ <<s[i]>> \in Seq(S)
  OBVIOUS
<1>2. /\ f \in Seq(S) /\ Len(f) = i - 1
      /\ \A j \in 1..(i - 1) : f[j] = s[j]
  BY <1>1
<1>3. /\ b \in Seq(S) /\ Len(b) = n - i
      /\ \A j \in 1..(n - i) : b[j] = s[i + j]
  <2>1. b \in Seq(S) /\ Len(b) = n - i
    BY <1>1
  <2>2. ASSUME NEW j \in 1..(n - i) PROVE b[j] = s[i + j]
    <3>1. b[j] = s[(i + 1) + j - 1]
      BY <1>1
    <3>2. (i + 1) + j - 1 = i + j
      BY <1>1
    <3> QED BY <3>1, <3>2
  <2> QED BY <2>1, <2>2
<1> HIDE DEF f, b
<1>4. RemoveAt(s, i) = f \o b
  BY DEF RemoveAt, f, b
<1>5. /\ f \o b \in Seq(S) /\ Len(f \o b) = n - 1
      /\ \A j \in 1..(n - 1) : (f \o b)[j] = IF j < i THEN s[j] ELSE s[j + 1]
  <2>1. f \o b \in Seq(S) /\ Len(f \o b) = n - 1
    BY <1>1, <1>2, <1>3
  <2>2. ASSUME NEW j \in 1..(n - 1) PROVE (f \o b)[j] = IF j < i THEN s[j] ELSE s[j + 1]
    <3>1. (f \o b)[j] = IF j <= Len(f) THEN f[j] ELSE b[j - Len(f)]
      <4>1. j \in 1..(Len(f) + Len(b))
        BY <1>1, <1>2, <1>3
      <4> QED BY <1>2, <1>3, <4>1, ConcatElement
    <3>2. CASE j < i
      BY <1>1, <1>2, <3>1, <3>2
    <3>3. CASE j >= i
      <4>1. j - Len(f) \in 1..(n - i) /\ i + (j - Len(f)) = j + 1
        BY <1>1, <1>2, <3>3
      <4>2. b[j - Len(f)] = s[j + 1]
        BY <1>3, <4>1
      <4>3. ~(j <= Len(f)) /\ ~(j < i)
        BY <1>1, <1>2, <3>3
      <4> QED BY <3>1, <4>2, <4>3
    <3>4. j < i \/ j >= i
      BY <1>1
    <3> QED BY <3>2, <3>3, <3>4
  <2> QED BY <2>1, <2>2
<1>6. s = (f \o <<s[i]>>) \o b
  <2> DEFINE g == f \o <<s[i]>>
  <2>1. g \in Seq(S) /\ Len(g) = i /\ (\A j \in 1..(i - 1) : g[j] = s[j]) /\ g[i] = s[i]
    BY <1>1, <1>2
  <2> HIDE DEF g
  <2>2. g \o b \in Seq(S) /\ Len(g \o b) = n
    BY <1>1, <1>3, <2>1
  <2>3. ASSUME NEW j \in 1..n PROVE (g \o b)[j] = s[j]
    <3>1. (g \o b)[j] = IF j <= i THEN g[j] ELSE b[j - i]
      <4>1. j \in 1..(Len(g) + Len(b))
        BY <1>1, <1>3, <2>1
      <4> QED BY <1>3, <2>1, <4>1, ConcatElement
    <3>2. CASE j <= i
      BY <1>1, <2>1, <3>1, <3>2
    <3>3. CASE j > i
      <4>1. j - i \in 1..(n - i) /\ i + (j - i) = j
        BY <1>1, <3>3
      <4>2. b[j - i] = s[j]
        BY <1>3, <4>1
      <4>3. ~(j <= i)
        BY <1>1, <3>3
      <4> QED BY <3>1, <4>2, <4>3
    <3>4. j <= i \/ j > i
      BY <1>1
    <3> QED BY <3>2, <3>3, <3>4
  <2>4. g \o b = s
    BY <1>1, <2>2, <2>3, SeqEqual
  <2> QED BY <2>4 DEF g
<1> QED BY <1>4, <1>5, <1>6 DEF f, b

\* A child that is erased.
LEMMA OccurrencesOfRemoveAt ==
  ASSUME NEW s \in Seq(ChildRef), NEW i \in DOMAIN s, NEW c
  PROVE  Occurrences(s, c) = Occurrences(RemoveAt(s, i), c) + (IF s[i].cell = c THEN 1 ELSE 0)
<1> DEFINE o == <<s[i]>>
           f == SubSeq(s, 1, i - 1)
           b == SubSeq(s, i + 1, Len(s))
<1>1. f \in Seq(ChildRef) /\ b \in Seq(ChildRef) /\ s[i] \in ChildRef /\ o \in Seq(ChildRef)
  OBVIOUS
<1>2. s = (f \o o) \o b /\ RemoveAt(s, i) = f \o b
  BY WithoutOne DEF RemoveAt
<1>3. Occurrences(o, c) = IF s[i].cell = c THEN 1 ELSE 0
  BY <1>1, OccurrencesInOne
<1> HIDE DEF o, f, b
<1>4. f \o o \in Seq(ChildRef)
  BY <1>1
<1>5. /\ Occurrences(s, c) = Occurrences(f \o o, c) + Occurrences(b, c)
      /\ Occurrences(f \o o, c) = Occurrences(f, c) + Occurrences(o, c)
      /\ Occurrences(RemoveAt(s, i), c) = Occurrences(f, c) + Occurrences(b, c)
  <2>1. Occurrences((f \o o) \o b, c) = Occurrences(f \o o, c) + Occurrences(b, c)
    BY <1>1, <1>4, OccurrencesOfConcat
  <2>2. Occurrences(f \o o, c) = Occurrences(f, c) + Occurrences(o, c)
    BY <1>1, OccurrencesOfConcat
  <2>3. Occurrences(f \o b, c) = Occurrences(f, c) + Occurrences(b, c)
    BY <1>1, OccurrencesOfConcat
  <2> QED BY <1>2, <2>1, <2>2, <2>3
<1>6. Occurrences(f, c) \in Nat /\ Occurrences(b, c) \in Nat
  BY <1>1, OccurrencesAreCounted
<1> QED BY <1>3, <1>5, <1>6

\* No children, no occurrences.
LEMMA OccurrencesInNone ==
  ASSUME NEW c
  PROVE  Occurrences(<<>>, c) = 0
<1>1. {i \in DOMAIN <<>> : <<>>[i].cell = c} = {}
  OBVIOUS
<1> QED BY <1>1, FS_EmptySet DEF Occurrences

\* 1 when the two are the same, for sums.
Is(c, d) == IF c = d THEN 1 ELSE 0

\* A node is one of those that hold its data.
LEMMA HoldersAreCounted ==
  ASSUME NEW D, NEW c
  PROVE  /\ IsFiniteSet(Holders(D, c)) /\ Cardinality(Holders(D, c)) \in Nat
         /\ Cardinality(Holders(D, c)) = 0 <=> \A a \in Handle : D[a] # c
<1>1. IsFiniteSet(Holders(D, c))
  BY HandlesAreFinite, FS_Subset DEF Holders
<1> QED BY <1>1, FS_CardinalityType, FS_EmptySet DEF Holders

\* What a node that takes other data changes.
LEMMA HoldersOfOther ==
  ASSUME NEW D \in [Handle -> Ref], NEW a \in Handle, NEW e \in Ref, NEW c
  PROVE  Cardinality(Holders([D EXCEPT ![a] = e], c)) + Is(D[a], c)
           = Cardinality(Holders(D, c)) + Is(e, c)
<1> DEFINE E == [D EXCEPT ![a] = e]
           H == Holders(D, c) \ {a}
<1>1. H = Holders(E, c) \ {a}
  BY DEF Holders
<1>2. (a \in Holders(D, c) <=> D[a] = c) /\ (a \in Holders(E, c) <=> e = c)
  BY DEF Holders
<1>3. Cardinality(H) = IF D[a] = c THEN Cardinality(Holders(D, c)) - 1 ELSE Cardinality(Holders(D, c))
  BY <1>2, HoldersAreCounted, FS_RemoveElement
<1>4. Cardinality(H) = IF e = c THEN Cardinality(Holders(E, c)) - 1 ELSE Cardinality(Holders(E, c))
  <2>1. IsFiniteSet(Holders(E, c))
    BY HoldersAreCounted
  <2>2. Cardinality(Holders(E, c) \ {a})
          = IF a \in Holders(E, c) THEN Cardinality(Holders(E, c)) - 1 ELSE Cardinality(Holders(E, c))
    BY <2>1, FS_RemoveElement
  <2> QED BY <1>1, <1>2, <2>2
<1>5. Cardinality(Holders(D, c)) \in Nat /\ Cardinality(Holders(E, c)) \in Nat
  BY HoldersAreCounted
<1> HIDE DEF E
<1>6. Cardinality(Holders(E, c)) + Is(D[a], c) = Cardinality(Holders(D, c)) + Is(e, c)
  BY <1>3, <1>4, <1>5 DEF Is
<1> QED BY <1>6 DEF E

-----------------------------------------------------------------------------
(* Nodes and data, with references that are still to be given up.          *)

Counted(D, h, given) ==
  \A c \in Cell :
    /\ h[c].refs = Cardinality(Holders(D, c)) + References(h, Cell, c) + given[c]
    /\ h[c] = Freed <=> h[c].refs = 0

Well(D, h, given) ==
  /\ D \in [Handle -> Ref] /\ HeapOK(h) /\ given \in [Cell -> Nat]
  /\ Counted(D, h, given)
  /\ Acyclic(h)

Nothing == [c \in Cell |-> 0]
One(c) == [d \in Cell |-> Is(d, c)]

\* The data a node refers to, itself or through a child, is not deleted.
LEMMA LivingIsReferred ==
  ASSUME NEW D, NEW h, NEW given, Well(D, h, given)
  PROVE  /\ \A a \in Handle : D[a] \in Cell => h[D[a]] # Freed /\ h[D[a]].refs > 0
         /\ \A c \in Cell : \A i \in DOMAIN h[c].children :
              LET d == h[c].children[i].cell IN d \in Ref /\ (d \in Cell => h[d] # Freed /\ h[d].refs > 0)
         /\ \A c \in Cell : h[c].refs \in Nat
<1>1. \A c \in Cell : given[c] \in Nat /\ References(h, Cell, c) \in Nat /\ Cardinality(Holders(D, c)) \in Nat
  BY PlacesAreFinite, HoldersAreCounted DEF Well
<1>2. ASSUME NEW a \in Handle, D[a] \in Cell PROVE h[D[a]] # Freed /\ h[D[a]].refs > 0
  <2>1. Cardinality(Holders(D, D[a])) # 0
    BY HoldersAreCounted
  <2> QED BY <1>1, <1>2, <2>1 DEF Well, Counted
<1>3. ASSUME NEW c \in Cell, NEW i \in DOMAIN h[c].children
      PROVE  /\ h[c].children[i].cell \in Ref
             /\ h[c].children[i].cell \in Cell =>
                  h[h[c].children[i].cell] # Freed /\ h[h[c].children[i].cell].refs > 0
  <2> DEFINE d == h[c].children[i].cell
  <2>1. d \in Ref
    <3>1. h[c].children \in Seq(ChildRef)
      BY DEF Well, HeapOK, Data
    <3>2. h[c].children[i] \in ChildRef
      BY <3>1
    <3> QED BY <3>2 DEF ChildRef, Ref
  <2>2. References(h, Cell, d) # 0
    BY Unreferenced DEF Well
  <2>3. ASSUME d \in Cell PROVE h[d] # Freed /\ h[d].refs > 0
    <3> HIDE DEF d
    <3> QED BY <1>1, <2>2, <2>3 DEF Well, Counted
  <2> QED BY <2>1, <2>3
<1>4. \A c \in Cell : h[c].refs \in Nat
  BY DEF Well, HeapOK, Data
<1> QED BY <1>2, <1>3, <1>4

\* What is deleted is what no reference is left to: the least set is a fixed point.
LEMMA DeletedIsUnreferred ==
  ASSUME NEW h, HeapOK(h), NEW given \in [Cell -> Nat]
  PROVE  Deleted(h, given) = LastReleased(h, given, Deleted(h, given))
<1> DEFINE G == Deleted(h, given)
           X == LastReleased(h, given, G)
<1>1. G \in SUBSET Cell /\ X \in SUBSET Cell
  BY DEF Deleted, LastReleased
<1>2. ASSUME NEW A \in SUBSET Cell, NEW B \in SUBSET Cell, A \subseteq B
      PROVE  LastReleased(h, given, A) \subseteq LastReleased(h, given, B)
  <2>1. SUFFICES ASSUME NEW c \in LastReleased(h, given, A) PROVE c \in LastReleased(h, given, B)
    OBVIOUS
  <2>2. c \in Cell /\ h[c].refs <= given[c] + References(h, A, c) /\ h[c].refs \in Nat /\ given[c] \in Nat
    BY DEF LastReleased, HeapOK, Data
  <2>3. /\ References(h, A, c) <= References(h, B, c)
        /\ References(h, A, c) \in Nat /\ References(h, B, c) \in Nat
    BY <1>2, ReferencesGrow, PlacesAreFinite
  <2> QED BY <2>2, <2>3 DEF LastReleased
<1>3. X \subseteq G
  <2>1. SUFFICES ASSUME NEW c \in X, NEW D \in SUBSET Cell, LastReleased(h, given, D) \subseteq D
                 PROVE  c \in D
    BY <1>1 DEF Deleted
  <2>2. G \subseteq D
    BY <2>1 DEF Deleted
  <2>3. X \subseteq LastReleased(h, given, D)
    BY <1>1, <1>2, <2>2
  <2> QED BY <2>1, <2>3
<1>4. G \subseteq X
  <2>1. LastReleased(h, given, X) \subseteq X
    BY <1>1, <1>2, <1>3
  <2> QED BY <1>1, <2>1 DEF Deleted
<1> QED BY <1>3, <1>4

-----------------------------------------------------------------------------
(* The values that cells stand for.                                        *)

\* Any numbers that decrease along the children will do, as there are MaxCell cells.
LEMMA RankIsBounded ==
  ASSUME NEW h, HeapOK(h), NEW rank \in [Cell -> Nat],
         \A c \in Cell : \A i \in DOMAIN h[c].children :
           h[c].children[i].cell # NoData => rank[h[c].children[i].cell] < rank[c]
  PROVE  Acyclic(h)
<1> DEFINE Below(c) == {d \in Cell : rank[d] < rank[c]}
           low == [c \in Cell |-> Cardinality(Below(c))]
<1>1. IsFiniteSet(Cell) /\ Cardinality(Cell) <= MaxCell
  BY FS_Interval, BoundsAreNumbers DEF Cell
<1>2. ASSUME NEW c \in Cell PROVE IsFiniteSet(Below(c)) /\ low[c] = Cardinality(Below(c)) /\ low[c] \in 0..MaxCell
  <2>1. IsFiniteSet(Below(c)) /\ Cardinality(Below(c)) <= Cardinality(Cell)
    BY <1>1, FS_Subset
  <2>2. Cardinality(Below(c)) \in Nat /\ Cardinality(Cell) \in Nat
    BY <1>1, <2>1, FS_CardinalityType
  <2> HIDE DEF Below
  <2> QED BY <1>1, <2>1, <2>2, BoundsAreNumbers
<1>3. ASSUME NEW c \in Cell, NEW d \in Cell, rank[d] < rank[c] PROVE low[d] < low[c]
  <2>1. Below(d) \subseteq Below(c) /\ Below(d) # Below(c)
    <3>1. d \in Below(c) /\ d \notin Below(d)
      BY <1>3
    <3>2. \A e \in Below(d) : e \in Below(c)
      BY <1>3
    <3> QED BY <3>1, <3>2
  <2>2. Cardinality(Below(d)) <= Cardinality(Below(c)) /\ Cardinality(Below(d)) # Cardinality(Below(c))
    <3> HIDE DEF Below
    <3> QED BY <1>2, <2>1, FS_Subset
  <2> HIDE DEF low, Below
  <2> QED BY <1>2, <2>2
<1>4. \A c \in Cell : \A i \in DOMAIN h[c].children : h[c].children[i].cell \in Ref
  <2>1. ASSUME NEW c \in Cell, NEW i \in DOMAIN h[c].children PROVE h[c].children[i].cell \in Ref
    <3>1. h[c].children \in Seq(ChildRef)
      BY DEF HeapOK, Data
    <3>2. h[c].children[i] \in ChildRef
      BY <3>1
    <3> QED BY <3>2 DEF ChildRef, Ref
  <2> QED BY <2>1
<1>5. low \in [Cell -> 0..MaxCell]
  BY <1>2
<1>6. \A c \in Cell : \A i \in DOMAIN h[c].children :
        h[c].children[i].cell # NoData => low[h[c].children[i].cell] < low[c]
  <2> HIDE DEF low
  <2> QED BY <1>3, <1>4 DEF Ref
<1> HIDE DEF low
<1> QED BY <1>5, <1>6 DEF Acyclic

\* The children's values and a cell's, when the values of the data they refer to are those of v.
NodesOf(s, v) == [i \in DOMAIN s |-> Child(s[i].name, v[s[i].cell])]
NodeOf(h, v, c) ==
  IF c = NoData THEN Invalid
  ELSE [type |-> h[c].type, text |-> h[c].text, children |-> NodesOf(h[c].children, v)]

\* The children of a cell are cells or nothing.
LEMMA ChildrenAreRefs ==
  ASSUME NEW h, HeapOK(h), NEW c \in Cell
  PROVE  /\ h[c] \in Data /\ h[c].children \in Seq(ChildRef)
         /\ DOMAIN h[c].children = 1..Len(h[c].children) /\ Len(h[c].children) \in 0..MaxChildren
         /\ \A i \in DOMAIN h[c].children : h[c].children[i] \in ChildRef /\ h[c].children[i].cell \in Ref
<1>1. h[c] \in Data /\ h[c].children \in Seq(ChildRef) /\ Len(h[c].children) <= MaxChildren
  BY DEF HeapOK, Data
<1>2. DOMAIN h[c].children = 1..Len(h[c].children) /\ Len(h[c].children) \in Nat
  BY <1>1
<1>3. \A i \in DOMAIN h[c].children : h[c].children[i] \in ChildRef
  BY <1>1
<1> QED BY <1>1, <1>2, <1>3, BoundsAreNumbers DEF ChildRef, Ref

\* The values that the recursive definition describes exist when no data is part of itself.
LEMMA ValuesExist ==
  ASSUME NEW h, HeapOK(h), Acyclic(h)
  PROVE  \E v : v = [c \in Ref |-> NodeOf(h, v, c)]
<1>1. PICK rank \in [Cell -> 0..MaxCell] :
         \A c \in Cell : \A i \in DOMAIN h[c].children :
           h[c].children[i].cell # NoData => rank[h[c].children[i].cell] < rank[c]
  BY DEF Acyclic
<1> DEFINE Level(c) == IF c = NoData THEN 0 ELSE rank[c] + 1
           Solves(v, n) == v = [c \in Ref |-> v[c]] /\ \A c \in Ref : Level(c) < n => v[c] = NodeOf(h, v, c)
           Failing == {n \in Nat : ~\E v : Solves(v, n)}
<1>2. \A c \in Ref : Level(c) \in 0..(MaxCell + 1)
  BY BoundsAreNumbers DEF Ref
<1>3. ASSUME NEW c \in Cell, NEW i \in DOMAIN h[c].children
      PROVE  h[c].children[i].cell \in Ref /\ Level(h[c].children[i].cell) < Level(c)
  <2>1. h[c].children[i].cell \in Ref
    BY ChildrenAreRefs
  <2>2. c # NoData /\ rank[c] \in Nat
    BY DEF Cell, NoData
  <2>3. CASE h[c].children[i].cell = NoData
    BY <2>1, <2>2, <2>3
  <2>4. CASE h[c].children[i].cell # NoData
    <3>1. rank[h[c].children[i].cell] < rank[c] /\ rank[h[c].children[i].cell] \in Nat
      BY <1>1, <2>1, <2>4 DEF Ref
    <3> QED BY <2>1, <2>2, <2>4, <3>1
  <2> QED BY <2>3, <2>4
<1> HIDE DEF Level
<1>4. \E v : Solves(v, 0)
  <2>1. Solves([c \in Ref |-> Invalid], 0)
    BY <1>2
  <2> QED BY <2>1
<1>5. ASSUME NEW n \in Nat, NEW v, Solves(v, n) PROVE \E w : Solves(w, n + 1)
  <2> DEFINE w == [c \in Ref |-> IF Level(c) < n THEN v[c] ELSE NodeOf(h, v, c)]
  <2>1. \A c \in Ref : w[c] = IF Level(c) < n THEN v[c] ELSE NodeOf(h, v, c)
    OBVIOUS
  <2>2. w = [c \in Ref |-> w[c]]
    OBVIOUS
  <2> HIDE DEF w
  <2>3. ASSUME NEW c \in Ref, Level(c) < n + 1 PROVE w[c] = NodeOf(h, w, c)
    <3>1. \A e \in Ref : Level(e) < n => w[e] = v[e]
      BY <2>1
    <3>2. NodeOf(h, w, c) = NodeOf(h, v, c)
      <4>1. CASE c = NoData
        BY <4>1 DEF NodeOf, NodesOf
      <4>2. CASE c # NoData
        <5>1. c \in Cell
          BY <4>2 DEF Ref
        <5>2. \A i \in DOMAIN h[c].children : w[h[c].children[i].cell] = v[h[c].children[i].cell]
          <6>1. SUFFICES ASSUME NEW i \in DOMAIN h[c].children
                         PROVE  w[h[c].children[i].cell] = v[h[c].children[i].cell]
            OBVIOUS
          <6>2. h[c].children[i].cell \in Ref /\ Level(h[c].children[i].cell) < Level(c)
            BY <1>3, <5>1
          <6>3. Level(h[c].children[i].cell) < n
            BY <1>2, <2>3, <6>2
          <6> QED BY <3>1, <6>2, <6>3
        <5> QED BY <5>2 DEF NodeOf, NodesOf
      <4> QED BY <4>1, <4>2
    <3>3. w[c] = NodeOf(h, v, c)
      BY <1>5, <2>1
    <3> QED BY <3>2, <3>3
  <2> QED BY <2>2, <2>3
<1> HIDE DEF Solves
<1>6. Failing = {}
  <2> SUFFICES ASSUME Failing # {} PROVE FALSE
    OBVIOUS
  <2>1. PICK m \in Failing : \A k \in Failing : m <= k
    BY FirstIsLeast
  <2>2. m \in Nat /\ m # 0
    BY <1>4
  <2>3. m - 1 \in Nat /\ m - 1 \notin Failing
    <3>1. m - 1 \in Nat /\ ~(m <= m - 1)
      BY <2>2
    <3> HIDE DEF Failing
    <3> QED BY <2>1, <3>1
  <2>4. \E v : Solves(v, (m - 1) + 1)
    BY <1>5, <2>3
  <2>5. (m - 1) + 1 = m
    BY <2>2
  <2> QED BY <2>1, <2>4, <2>5
<1>7. PICK v : Solves(v, MaxCell + 2)
  <2>1. MaxCell + 2 \in Nat
    BY BoundsAreNumbers
  <2> QED BY <1>6, <2>1
<1>8. \A c \in Ref : Level(c) < MaxCell + 2
  BY <1>2, BoundsAreNumbers
<1>9. v = [c \in Ref |-> v[c]] /\ \A c \in Ref : v[c] = NodeOf(h, v, c)
  BY <1>7, <1>8 DEF Solves
<1>10. v = [c \in Ref |-> NodeOf(h, v, c)]
  BY <1>9
<1> QED BY <1>10

\* So the definition describes what it defines.
LEMMA ValuesAreDefined ==
  ASSUME NEW h, HeapOK(h), Acyclic(h), NEW c \in Ref
  PROVE  ValuesIn(h)[c] = NodeOf(h, ValuesIn(h), c)
<1>1. ValuesIn(h) = CHOOSE v : v = [d \in Ref |-> NodeOf(h, v, d)]
  BY DEF ValuesIn, NodeOf, NodesOf, Ref
<1>2. ValuesIn(h) = [d \in Ref |-> NodeOf(h, ValuesIn(h), d)]
  BY <1>1, ValuesExist
<1> QED BY <1>2

\* Two heaps that agree on cells, and on all they contain, agree on their values.
LEMMA SameValues ==
  ASSUME NEW h, NEW g, HeapOK(h), Acyclic(h), HeapOK(g), Acyclic(g), NEW K \in SUBSET Ref,
         \A c \in K \ {NoData} :
           /\ g[c].type = h[c].type /\ g[c].text = h[c].text /\ g[c].children = h[c].children
           /\ \A i \in DOMAIN h[c].children : h[c].children[i].cell \in K,
         NEW c \in K
  PROVE  ValuesIn(g)[c] = ValuesIn(h)[c]
<1>1. PICK rank \in [Cell -> 0..MaxCell] :
         \A e \in Cell : \A i \in DOMAIN h[e].children :
           h[e].children[i].cell # NoData => rank[h[e].children[i].cell] < rank[e]
  BY DEF Acyclic
<1> DEFINE Differ == {e \in K \ {NoData} : ValuesIn(g)[e] # ValuesIn(h)[e]}
           Ranks == {rank[e] : e \in Differ}
<1>2. ValuesIn(g)[NoData] = ValuesIn(h)[NoData]
  BY ValuesAreDefined DEF NodeOf, NodesOf, Ref
<1>3. Differ = {}
  <2> SUFFICES ASSUME Differ # {} PROVE FALSE
    OBVIOUS
  <2>1. Differ \subseteq Cell
    BY DEF Ref
  <2>2. Ranks \subseteq Nat /\ Ranks # {}
    <3> HIDE DEF Differ
    <3> QED BY <2>1
  <2>3. PICK e \in Differ : \A d \in Differ : rank[e] <= rank[d]
    <3>1. FirstOf(Ranks) \in Ranks /\ \A r \in Ranks : FirstOf(Ranks) <= r
      <4> HIDE DEF Ranks
      <4> QED BY <2>2, FirstIsLeast
    <3>2. PICK e \in Differ : rank[e] = FirstOf(Ranks)
      <4> HIDE DEF Differ
      <4> QED BY <3>1
    <3> HIDE DEF Differ
    <3> QED BY <3>1, <3>2
  <2>4. e \in Cell /\ e \in K \ {NoData}
    BY <2>1
  <2>5. \A i \in DOMAIN h[e].children :
          ValuesIn(g)[h[e].children[i].cell] = ValuesIn(h)[h[e].children[i].cell]
    <3>1. SUFFICES ASSUME NEW i \in DOMAIN h[e].children, h[e].children[i].cell # NoData
                   PROVE  ValuesIn(g)[h[e].children[i].cell] = ValuesIn(h)[h[e].children[i].cell]
      BY <1>2
    <3>2. h[e].children[i].cell \in K \ {NoData} /\ h[e].children[i].cell \in Cell
      BY <2>4, <3>1 DEF Ref
    <3>3. rank[h[e].children[i].cell] < rank[e] /\ rank[e] \in Nat /\ rank[h[e].children[i].cell] \in Nat
      BY <1>1, <2>4, <3>1, <3>2
    <3>4. h[e].children[i].cell \notin Differ
      <4> HIDE DEF Differ
      <4> QED BY <2>3, <3>3
    <3> QED BY <3>2, <3>4
  <2>6. NodeOf(g, ValuesIn(g), e) = NodeOf(h, ValuesIn(h), e)
    BY <2>4, <2>5 DEF NodeOf, NodesOf
  <2>7. e \in Ref
    BY <2>4 DEF Ref
  <2>8. ValuesIn(g)[e] = NodeOf(g, ValuesIn(g), e) /\ ValuesIn(h)[e] = NodeOf(h, ValuesIn(h), e)
    BY <2>7, ValuesAreDefined
  <2> QED BY <2>3, <2>6, <2>8
<1> QED BY <1>2, <1>3

-----------------------------------------------------------------------------
(* What an operation leaves as it was.                                     *)

\* Every cell but c that is still there has the content and the value that it had.
Keeps(h, g, c) ==
  \A e \in Cell \ {c} :
    /\ h[e] = Freed => g[e] = Freed
    /\ g[e] # Freed => /\ g[e].type = h[e].type /\ g[e].text = h[e].text
                       /\ g[e].children = h[e].children
                       /\ ValuesIn(g)[e] = ValuesIn(h)[e]

\* One thing after the other.
LEMMA KeepsInTurn ==
  ASSUME NEW h, NEW g, NEW f, NEW c, Keeps(h, g, c), Keeps(g, f, c)
  PROVE  Keeps(h, f, c)
BY DEF Keeps

\* No data stands for a node that is not valid.
LEMMA ValueOfNothing ==
  ASSUME NEW h, HeapOK(h), Acyclic(h)
  PROVE  ValuesIn(h)[NoData] = Invalid
BY ValuesAreDefined DEF NodeOf, NodesOf, Ref

-----------------------------------------------------------------------------
(* The steps the operations are made of.                                   *)

\* There is nothing to give up when a node refers to nothing.
LEMMA OneOfNothing == One(NoData) = Nothing /\ Nothing \in [Cell -> Nat] /\ \A c : One(c) \in [Cell -> Nat]
<1>1. \A d \in Cell : d # NoData
  BY DEF Cell, NoData
<1> QED BY <1>1 DEF One, Nothing, Is

\* A free cell.
LEMMA NewCellIsFree ==
  ASSUME NEW h, FreeCells(h) # {}
  PROVE  NewCell(h) \in Cell /\ h[NewCell(h)] = Freed
<1>1. FreeCells(h) \subseteq Nat
  BY BoundsAreNumbers DEF FreeCells, Cell
<1>2. NewCell(h) \in FreeCells(h)
  BY <1>1, FirstIsLeast DEF NewCell
<1> QED BY <1>2 DEF FreeCells

\* A node comes to refer to e; what it referred to is to be released.
LEMMA Refers ==
  ASSUME NEW D, NEW h, NEW given, Well(D, h, given), NEW a \in Handle,
         NEW e \in Ref, e \in Cell => h[e] # Freed,
         NEW x \in [Cell -> Nat],
         \A c \in Cell : x[c] = given[c] + Is(D[a], c)
  PROVE  /\ Well([D EXCEPT ![a] = e], AddRef(h, e, 1), x)
         /\ Keeps(h, AddRef(h, e, 1), NoData)
<1> DEFINE g == AddRef(h, e, 1)
           E == [D EXCEPT ![a] = e]
<1>1. \A c \in Cell : h[c] \in Data /\ h[c].refs \in Nat /\ given[c] \in Nat
  BY ChildrenAreRefs DEF Well, Data
<1>2. /\ DOMAIN g = Cell
      /\ \A c \in Cell : g[c] = IF c = e THEN [h[c] EXCEPT !.refs = h[c].refs + 1] ELSE h[c]
  BY DEF AddRef, NoData, Cell, Well, HeapOK
<1> HIDE DEF g
<1>3. \A c \in Cell : /\ g[c] \in Data /\ g[c].refs = h[c].refs + Is(c, e)
                      /\ g[c].type = h[c].type /\ g[c].text = h[c].text /\ g[c].children = h[c].children
  <2>1. SUFFICES ASSUME NEW c \in Cell
                 PROVE  /\ g[c] \in Data /\ g[c].refs = h[c].refs + Is(c, e)
                        /\ g[c].type = h[c].type /\ g[c].text = h[c].text /\ g[c].children = h[c].children
    OBVIOUS
  <2>2. CASE c = e
    <3>1. h[c].refs + 1 \in Nat /\ g[c] = [h[c] EXCEPT !.refs = h[c].refs + 1]
      BY <1>1, <1>2, <2>2
    <3> QED BY <1>1, <2>2, <3>1 DEF Data, Is
  <2>3. CASE c # e
    BY <1>1, <1>2, <2>3 DEF Is
  <2> QED BY <2>2, <2>3
<1>4. HeapOK(g)
  <2>1. g \in [Cell -> Data]
    <3>1. g = [c \in Cell |-> g[c]]
      BY <1>2 DEF g, AddRef, Well, HeapOK
    <3> QED BY <1>3, <3>1
  <2> QED BY <1>3, <2>1 DEF HeapOK, Well
<1>5. Acyclic(g)
  BY <1>3 DEF Acyclic, Well
<1>6. \A c \in Cell : References(g, Cell, c) = References(h, Cell, c)
  BY <1>3, SameReferences
<1>7. \A c \in Cell : Cardinality(Holders(E, c)) + Is(D[a], c)
                        = Cardinality(Holders(D, c)) + Is(e, c)
  <2>1. D \in [Handle -> Ref]
    BY DEF Well
  <2> QED BY <2>1, HoldersOfOther
<1>8. ASSUME NEW c \in Cell
      PROVE  /\ g[c].refs = Cardinality(Holders(E, c)) + References(g, Cell, c) + x[c]
             /\ g[c] = Freed <=> g[c].refs = 0
  <2>1. /\ h[c].refs = Cardinality(Holders(D, c)) + References(h, Cell, c) + given[c]
        /\ h[c] = Freed <=> h[c].refs = 0
    BY DEF Well, Counted
  <2>2. /\ Cardinality(Holders(D, c)) \in Nat /\ Cardinality(Holders(E, c)) \in Nat
        /\ References(h, Cell, c) \in Nat /\ x[c] \in Nat
    BY HoldersAreCounted, PlacesAreFinite
  <2>3. g[c].refs = h[c].refs + Is(c, e)
    BY <1>3
  <2>4. x[c] = given[c] + Is(D[a], c)
    OBVIOUS
  <2>5. References(g, Cell, c) = References(h, Cell, c)
    BY <1>6
  <2>6. Cardinality(Holders(E, c)) + Is(D[a], c)
          = Cardinality(Holders(D, c)) + Is(e, c)
    BY <1>7
  <2>7. given[c] \in Nat /\ h[c].refs \in Nat
    BY <1>1
  <2> HIDE DEF E
  <2>8. g[c].refs = Cardinality(Holders(E, c)) + References(g, Cell, c) + x[c]
    BY <2>1, <2>2, <2>3, <2>4, <2>5, <2>6, <2>7 DEF Is
  <2>9. g[c] = Freed <=> g[c].refs = 0
    <3>1. CASE c = e
      <4>1. g[c].refs # 0
        BY <2>3, <2>7, <3>1 DEF Is
      <4> QED BY <4>1 DEF Freed
    <3>2. CASE c # e
      BY <1>2, <2>1, <3>2
    <3> QED BY <3>1, <3>2
  <2> QED BY <2>8, <2>9
<1>9. E \in [Handle -> Ref]
  BY DEF Well
<1>10. Well(E, g, x)
  <2> HIDE DEF E
  <2> QED BY <1>4, <1>5, <1>8, <1>9 DEF Well, Counted
<1>11. \A c \in Ref : ValuesIn(g)[c] = ValuesIn(h)[c]
  <2>1. \A c \in Ref \ {NoData} :
          /\ g[c].type = h[c].type /\ g[c].text = h[c].text /\ g[c].children = h[c].children
          /\ \A i \in DOMAIN h[c].children : h[c].children[i].cell \in Ref
    BY <1>3, ChildrenAreRefs DEF Ref, Well
  <2> QED BY <1>4, <1>5, <2>1, SameValues DEF Well
<1>12. Keeps(h, g, NoData)
  <2>1. \A c \in Cell : h[c] = Freed => g[c] = Freed
    BY <1>2
  <2> QED BY <1>3, <1>11, <2>1 DEF Keeps, Ref
<1> QED BY <1>10, <1>12 DEF g

\* A node comes to refer to new data without children; what it referred to is to be released.
LEMMA Made ==
  ASSUME NEW D, NEW h, Well(D, h, Nothing), NEW a \in Handle,
         NEW c \in Cell, h[c] = Freed,
         NEW d \in Data, d.refs = 1, d.children = <<>>
  PROVE  /\ Well([D EXCEPT ![a] = c], [h EXCEPT ![c] = d], One(D[a]))
         /\ Keeps(h, [h EXCEPT ![c] = d], c)
         /\ ValuesIn([h EXCEPT ![c] = d])[c] = [type |-> d.type, text |-> d.text, children |-> <<>>]
<1> DEFINE g == [h EXCEPT ![c] = d]
           E == [D EXCEPT ![a] = c]
<1>1. g \in [Cell -> Data] /\ g[c] = d /\ \A e \in Cell \ {c} : g[e] = h[e]
  BY DEF Well, HeapOK
<1>2. HeapOK(h) /\ Acyclic(h)
  BY DEF Well
<1> HIDE DEF g
<1>3. \A e \in Cell : g[e].children = h[e].children
  BY <1>1 DEF Freed
<1>4. HeapOK(g)
  <2>1. ASSUME NEW e \in Cell
        PROVE  /\ Len(g[e].children) <= MaxChildren
               /\ g[e].children # <<>> => g[e].type \in {"object", "array"}
    <3>1. CASE e = c
      <4>1. g[e].children = <<>> /\ Len(<<>>) = 0
        BY <1>1, <3>1
      <4> QED BY <4>1, BoundsAreNumbers
    <3>2. CASE e # c
      BY <1>1, <1>2, <3>2 DEF HeapOK
    <3> QED BY <3>1, <3>2
  <2> QED BY <1>1, <2>1 DEF HeapOK
<1>5. Acyclic(g)
  BY <1>2, <1>3 DEF Acyclic
<1>6. /\ Cardinality(Holders(D, c)) = 0 /\ References(h, Cell, c) = 0
  <2>1. h[c].refs = Cardinality(Holders(D, c)) + References(h, Cell, c) + Nothing[c] /\ Nothing[c] = 0
    BY DEF Well, Counted, Nothing
  <2>2. Cardinality(Holders(D, c)) \in Nat /\ References(h, Cell, c) \in Nat
    BY HoldersAreCounted, PlacesAreFinite
  <2>3. h[c].refs = 0
    BY DEF Freed
  <2> QED BY <2>1, <2>2, <2>3
<1>7. ASSUME NEW e \in Cell
      PROVE  /\ g[e].refs = Cardinality(Holders(E, e)) + References(g, Cell, e) + One(D[a])[e]
             /\ g[e] = Freed <=> g[e].refs = 0
  <2>1. /\ h[e].refs = Cardinality(Holders(D, e)) + References(h, Cell, e) + Nothing[e]
        /\ h[e] = Freed <=> h[e].refs = 0
        /\ Nothing[e] = 0
    BY DEF Well, Counted, Nothing
  <2>2. Cardinality(Holders(E, e)) + Is(D[a], e)
          = Cardinality(Holders(D, e)) + Is(c, e)
    <3>1. D \in [Handle -> Ref] /\ c \in Ref
      BY DEF Well, Ref
    <3> QED BY <3>1, HoldersOfOther
  <2>3. References(g, Cell, e) = References(h, Cell, e)
    BY <1>3, SameReferences
  <2>4. One(D[a])[e] = Is(D[a], e)
    BY DEF One, Is
  <2>5. /\ Cardinality(Holders(D, e)) \in Nat /\ Cardinality(Holders(E, e)) \in Nat
        /\ References(h, Cell, e) \in Nat
    BY HoldersAreCounted, PlacesAreFinite
  <2> HIDE DEF E
  <2>6. CASE e = c
    <3>1. g[e].refs = 1 /\ g[e] # Freed
      BY <1>1, <2>6 DEF Freed
    <3>2. Cardinality(Holders(D, e)) = 0 /\ References(h, Cell, e) = 0
      BY <1>6, <2>6
    <3> QED BY <2>2, <2>3, <2>4, <2>5, <2>6, <3>1, <3>2 DEF Is
  <2>7. CASE e # c
    <3>1. g[e] = h[e]
      BY <1>1, <2>7
    <3>2. g[e].refs = Cardinality(Holders(E, e)) + References(g, Cell, e) + One(D[a])[e]
      BY <2>1, <2>2, <2>3, <2>4, <2>5, <2>7, <3>1 DEF Is
    <3> QED BY <2>1, <3>1, <3>2
  <2> QED BY <2>6, <2>7
<1>8. E \in [Handle -> Ref]
  BY DEF Well, Ref
<1>9. Well(E, g, One(D[a]))
  <2> HIDE DEF E
  <2> QED BY <1>4, <1>5, <1>7, <1>8, OneOfNothing DEF Well, Counted
<1>10. \A e \in Ref \ {c} : ValuesIn(g)[e] = ValuesIn(h)[e]
  <2> DEFINE K == Ref \ {c}
  <2>1. \A e \in K \ {NoData} :
          /\ g[e].type = h[e].type /\ g[e].text = h[e].text /\ g[e].children = h[e].children
          /\ \A i \in DOMAIN h[e].children : h[e].children[i].cell \in K
    <3>1. SUFFICES ASSUME NEW e \in K \ {NoData}
                   PROVE  /\ g[e] = h[e]
                          /\ \A i \in DOMAIN h[e].children : h[e].children[i].cell \in K
      OBVIOUS
    <3>2. e \in Cell /\ e # c
      BY DEF Ref
    <3>3. \A i \in DOMAIN h[e].children : h[e].children[i].cell \in Ref /\ h[e].children[i].cell # c
      <4>1. \A i \in DOMAIN h[e].children : h[e].children[i].cell # c
        BY <1>2, <1>6, <3>2, Unreferenced
      <4>2. \A i \in DOMAIN h[e].children : h[e].children[i].cell \in Ref
        BY <1>2, <3>2, ChildrenAreRefs
      <4> QED BY <4>1, <4>2
    <3> QED BY <1>1, <3>2, <3>3
  <2>2. K \in SUBSET Ref
    OBVIOUS
  <2> HIDE DEF K
  <2>3. \A e \in K : ValuesIn(g)[e] = ValuesIn(h)[e]
    BY <1>2, <1>4, <1>5, <2>1, <2>2, SameValues
  <2> QED BY <2>3 DEF K
<1>11. ValuesIn(g)[c] = [type |-> d.type, text |-> d.text, children |-> <<>>]
  <2>1. ValuesIn(g)[c] = NodeOf(g, ValuesIn(g), c)
    BY <1>4, <1>5, ValuesAreDefined DEF Ref
  <2>2. c # NoData /\ g[c].type = d.type /\ g[c].text = d.text /\ g[c].children = <<>>
    BY <1>1 DEF Cell, NoData
  <2>3. NodesOf(<<>>, ValuesIn(g)) = <<>>
    BY DEF NodesOf
  <2> QED BY <2>1, <2>2, <2>3 DEF NodeOf
<1>12. Keeps(h, g, c)
  BY <1>1, <1>10 DEF Keeps, Ref
<1> QED BY <1>9, <1>11, <1>12 DEF g

\* When the references that are to be given up are given up, every reference is counted again;
\* nobody refers to what was deleted, and what was not deleted is as it was.
LEMMA Released ==
  ASSUME NEW D, NEW h, NEW given, Well(D, h, given)
  PROVE  /\ Well(D, GiveUp(h, given), Nothing)
         /\ Keeps(h, GiveUp(h, given), NoData)
         /\ \A c \in Cell : GiveUp(h, given)[c].refs <= h[c].refs
<1> DEFINE G == Deleted(h, given)
           g == GiveUp(h, given)
<1> HIDE DEF G, g
<1>1. G \subseteq Cell /\ \A c \in Cell : c \in G <=> h[c].refs <= given[c] + References(h, G, c)
  <2>1. G \subseteq Cell
    BY DEF Deleted, G
  <2>2. G = LastReleased(h, given, G)
    BY DeletedIsUnreferred DEF Well, G
  <2>3. ASSUME NEW c \in Cell PROVE c \in G <=> h[c].refs <= given[c] + References(h, G, c)
    <3>1. c \in LastReleased(h, given, G) <=> h[c].refs <= given[c] + References(h, G, c)
      BY DEF LastReleased
    <3> QED BY <2>2, <3>1
  <2> QED BY <2>1, <2>3
<1>2. \A c \in Cell : /\ h[c].refs \in Nat /\ given[c] \in Nat
                      /\ References(h, G, c) \in Nat /\ References(h, Cell \ G, c) \in Nat
                      /\ References(h, Cell, c) = References(h, G, c) + References(h, Cell \ G, c)
                      /\ Cardinality(Holders(D, c)) \in Nat
                      /\ h[c].refs = Cardinality(Holders(D, c)) + References(h, Cell, c) + given[c]
  <2>1. \A c \in Cell : h[c].refs \in Nat /\ given[c] \in Nat
    BY DEF Well, HeapOK, Data
  <2>2. \A c \in Cell : h[c].refs = Cardinality(Holders(D, c)) + References(h, Cell, c) + given[c]
    BY DEF Well, Counted
  <2>3. \A c \in Cell : Cardinality(Holders(D, c)) \in Nat
    BY HoldersAreCounted
  <2>4. \A c \in Cell : /\ References(h, G, c) \in Nat /\ References(h, Cell \ G, c) \in Nat
                        /\ References(h, Cell, c) = References(h, G, c) + References(h, Cell \ G, c)
    BY <1>1, ReferencesOfParts
  <2> QED BY <2>1, <2>2, <2>3, <2>4
<1>3. \A c \in G : Cardinality(Holders(D, c)) = 0 /\ References(h, Cell \ G, c) = 0
  <2>1. SUFFICES ASSUME NEW c \in G PROVE Cardinality(Holders(D, c)) = 0 /\ References(h, Cell \ G, c) = 0
    OBVIOUS
  <2>2. c \in Cell /\ h[c].refs <= given[c] + References(h, G, c)
    BY <1>1
  <2>3. /\ h[c].refs = Cardinality(Holders(D, c)) + References(h, Cell, c) + given[c]
        /\ References(h, Cell, c) = References(h, G, c) + References(h, Cell \ G, c)
        /\ given[c] \in Nat /\ References(h, G, c) \in Nat
        /\ References(h, Cell \ G, c) \in Nat /\ Cardinality(Holders(D, c)) \in Nat
    BY <1>2, <2>2
  <2> QED BY <2>2, <2>3
<1>4. \A c \in Cell \ G : \A i \in DOMAIN h[c].children : h[c].children[i].cell \in Ref \ G
  <2>1. \A c \in Cell : \A i \in DOMAIN h[c].children : h[c].children[i].cell \in Ref
    BY LivingIsReferred
  <2>2. ASSUME NEW c \in Cell \ G, NEW i \in DOMAIN h[c].children, h[c].children[i].cell \in G PROVE FALSE
    <3>1. References(h, Cell \ G, h[c].children[i].cell) = 0
      BY <1>3, <2>2
    <3>2. \A d \in Cell \ G : \A j \in DOMAIN h[d].children : h[d].children[j].cell # h[c].children[i].cell
      BY <3>1, Unreferenced DEF Well
    <3> QED BY <3>2
  <2> QED BY <2>1, <2>2
<1>5. \A c \in G : g[c] = Freed
  BY <1>1 DEF GiveUp, G, g
<1>6. \A c \in Cell \ G : g[c] = [h[c] EXCEPT !.refs = @ - (given[c] + References(h, G, c))]
  BY DEF GiveUp, G, g
<1>7. \A c \in Cell \ G : /\ g[c].refs = Cardinality(Holders(D, c)) + References(h, Cell \ G, c)
                          /\ g[c].refs > 0 /\ g[c].refs <= h[c].refs
                          /\ g[c].type = h[c].type /\ g[c].text = h[c].text
                          /\ g[c].children = h[c].children
                          /\ g[c] \in Data
  <2>1. SUFFICES ASSUME NEW c \in Cell \ G
                 PROVE  /\ g[c].refs = Cardinality(Holders(D, c)) + References(h, Cell \ G, c)
                        /\ g[c].refs > 0 /\ g[c].refs <= h[c].refs
                        /\ g[c].type = h[c].type /\ g[c].text = h[c].text
                        /\ g[c].children = h[c].children
                        /\ g[c] \in Data
    OBVIOUS
  <2>2. h[c] \in Data
    BY DEF Well, HeapOK
  <2>3. g[c] = [h[c] EXCEPT !.refs = h[c].refs - (given[c] + References(h, G, c))]
    BY <1>6
  <2>4. h[c].refs - (given[c] + References(h, G, c)) \in Nat \ {0}
    BY <1>1, <1>2
  <2>5. /\ g[c].refs = h[c].refs - (given[c] + References(h, G, c))
        /\ g[c].type = h[c].type /\ g[c].text = h[c].text
        /\ g[c].children = h[c].children /\ g[c] \in Data
    BY <2>2, <2>3, <2>4 DEF Data
  <2>6. /\ h[c].refs = Cardinality(Holders(D, c)) + References(h, Cell, c) + given[c]
        /\ References(h, Cell, c) = References(h, G, c) + References(h, Cell \ G, c)
        /\ h[c].refs \in Nat /\ given[c] \in Nat /\ References(h, G, c) \in Nat
        /\ References(h, Cell \ G, c) \in Nat /\ Cardinality(Holders(D, c)) \in Nat
    BY <1>2
  <2>7. /\ g[c].refs = Cardinality(Holders(D, c)) + References(h, Cell \ G, c)
        /\ g[c].refs > 0 /\ g[c].refs <= h[c].refs
    BY <2>4, <2>5, <2>6
  <2> QED BY <2>5, <2>7
<1>8. g \in [Cell -> Data]
  <2>1. Freed \in Data
    BY DEF Freed, Data, NodeType, NodeText
  <2>2. \A c \in Cell : g[c] \in Data
    BY <1>1, <1>5, <1>7, <2>1
  <2>3. g = [c \in Cell |-> g[c]]
    BY DEF GiveUp, g
  <2> QED BY <2>2, <2>3
<1>9. HeapOK(g)
  <2>1. \A c \in G : Len(g[c].children) = 0 /\ g[c].children = <<>>
    BY <1>5 DEF Freed
  <2>2. \A c \in Cell : /\ Len(h[c].children) <= MaxChildren
                        /\ h[c].children # <<>> => h[c].type \in {"object", "array"}
    BY DEF Well, HeapOK
  <2> QED BY <1>7, <1>8, <2>1, <2>2, BoundsAreNumbers DEF HeapOK
<1>10. \A c \in Cell : References(g, Cell, c) = References(h, Cell \ G, c)
  <2>1. SUFFICES ASSUME NEW c \in Cell PROVE References(g, Cell, c) = References(h, Cell \ G, c)
    OBVIOUS
  <2>2. References(g, Cell, c) = References(g, G, c) + References(g, Cell \ G, c)
    BY <1>1, ReferencesOfParts
  <2>3. References(g, G, c) = 0
    <3>1. \A d \in G : DOMAIN g[d].children = {}
      BY <1>5 DEF Freed
    <3> QED BY <1>1, <1>9, <3>1, Unreferenced
  <2>4. References(g, Cell \ G, c) = References(h, Cell \ G, c)
    BY <1>7, SameReferences
  <2>5. References(h, Cell \ G, c) \in Nat
    BY <1>2
  <2> QED BY <2>2, <2>3, <2>4, <2>5
<1>11. Counted(D, g, Nothing)
  <2>1. ASSUME NEW c \in G
        PROVE  /\ g[c].refs = Cardinality(Holders(D, c)) + References(g, Cell, c) + Nothing[c]
               /\ g[c] = Freed <=> g[c].refs = 0
    <3>1. /\ c \in Cell /\ g[c] = Freed /\ Cardinality(Holders(D, c)) = 0
          /\ References(g, Cell, c) = 0 /\ Nothing[c] = 0
      BY <1>1, <1>3, <1>5, <1>10 DEF Nothing
    <3> QED BY <3>1 DEF Freed
  <2>2. ASSUME NEW c \in Cell \ G
        PROVE  /\ g[c].refs = Cardinality(Holders(D, c)) + References(g, Cell, c) + Nothing[c]
               /\ g[c] = Freed <=> g[c].refs = 0
    <3>1. /\ g[c].refs = Cardinality(Holders(D, c)) + References(h, Cell \ G, c) /\ g[c].refs > 0
          /\ References(g, Cell, c) = References(h, Cell \ G, c)
      BY <1>7, <1>10
    <3>2. Nothing[c] = 0 /\ Cardinality(Holders(D, c)) \in Nat /\ References(h, Cell \ G, c) \in Nat
      BY <1>2 DEF Nothing
    <3>3. Freed.refs = 0
      BY DEF Freed
    <3> QED BY <3>1, <3>2, <3>3
  <2> QED BY <1>1, <2>1, <2>2 DEF Counted
<1>12. Acyclic(g)
  <2>1. PICK rank \in [Cell -> 0..MaxCell] :
           \A c \in Cell : \A i \in DOMAIN h[c].children :
             h[c].children[i].cell # NoData => rank[h[c].children[i].cell] < rank[c]
    BY DEF Well, Acyclic
  <2>2. ASSUME NEW c \in Cell, NEW i \in DOMAIN g[c].children, g[c].children[i].cell # NoData
        PROVE  rank[g[c].children[i].cell] < rank[c]
    <3>1. c \notin G
      BY <1>5, <2>2 DEF Freed
    <3> QED BY <1>7, <2>1, <2>2, <3>1
  <2> QED BY <2>1, <2>2 DEF Acyclic
<1>13. Well(D, g, Nothing)
  BY <1>9, <1>11, <1>12 DEF Well, Nothing
<1>14. \A c \in Ref \ G : ValuesIn(g)[c] = ValuesIn(h)[c]
  <2> DEFINE K == Ref \ G
  <2>1. HeapOK(h) /\ Acyclic(h)
    BY DEF Well
  <2>2. K \in SUBSET Ref /\ \A c \in K \ {NoData} : c \in Cell \ G
    BY DEF Ref
  <2>3. \A c \in K \ {NoData} :
          /\ g[c].type = h[c].type /\ g[c].text = h[c].text /\ g[c].children = h[c].children
          /\ \A i \in DOMAIN h[c].children : h[c].children[i].cell \in K
    BY <1>4, <1>7, <2>2
  <2>4. \A c \in K : ValuesIn(g)[c] = ValuesIn(h)[c]
    <3> HIDE DEF K
    <3> QED BY <1>9, <1>12, <2>1, <2>2, <2>3, SameValues
  <2> QED BY <2>4
<1>15. ASSUME NEW c \in Cell, h[c] = Freed PROVE g[c] = Freed
  <2>1. h[c].refs = 0
    BY <1>15 DEF Freed
  <2>2. ASSUME c \notin G PROVE FALSE
    <3>1. g[c].refs > 0 /\ g[c].refs <= h[c].refs /\ g[c].refs \in Nat
      BY <1>7, <2>2 DEF Data
    <3> QED BY <2>1, <3>1
  <2> QED BY <1>5, <2>2
<1>16. Keeps(h, g, NoData)
  <2>1. \A c \in Cell \ {NoData} : g[c] # Freed => c \in Cell \ G /\ c \in Ref \ G
    BY <1>5 DEF Ref
  <2> QED BY <1>7, <1>14, <1>15, <2>1 DEF Keeps
<1>17. \A c \in Cell : g[c].refs <= h[c].refs
  <2>1. \A c \in G : c \in Cell /\ g[c].refs = 0
    BY <1>1, <1>5 DEF Freed
  <2> QED BY <1>2, <1>7, <2>1
<1> QED BY <1>13, <1>16, <1>17 DEF g

\* Data that is counted once and that a node holds is referred to by nobody else.
LEMMA Unshared ==
  ASSUME NEW D, NEW h, NEW given, Well(D, h, given), NEW a \in Handle, NEW c \in Cell,
         D[a] = c, h[c].refs = 1
  PROVE  /\ Cardinality(Holders(D, c)) = 1 /\ References(h, Cell, c) = 0 /\ given[c] = 0
         /\ \A b \in Handle \ {a} : D[b] # c
         /\ \A e \in Cell : \A i \in DOMAIN h[e].children : h[e].children[i].cell # c
<1>1. h[c].refs = Cardinality(Holders(D, c)) + References(h, Cell, c) + given[c] /\ given[c] \in Nat
  BY DEF Well, Counted
<1>2. Cardinality(Holders(D, c)) \in Nat /\ References(h, Cell, c) \in Nat /\ Cardinality(Holders(D, c)) # 0
  BY HoldersAreCounted, PlacesAreFinite
<1>3. Cardinality(Holders(D, c)) = 1 /\ References(h, Cell, c) = 0 /\ given[c] = 0
  BY <1>1, <1>2
<1>4. \A b \in Handle \ {a} : D[b] # c
  <2>1. IsFiniteSet(Holders(D, c))
    BY HoldersAreCounted
  <2>2. a \in Holders(D, c)
    BY DEF Holders
  <2>3. Cardinality(Holders(D, c) \ {a}) = 0 /\ IsFiniteSet(Holders(D, c) \ {a})
    BY <1>3, <2>1, <2>2, FS_RemoveElement
  <2>4. Holders(D, c) \ {a} = {}
    BY <2>3, FS_EmptySet
  <2> QED BY <2>4 DEF Holders
<1>5. \A e \in Cell : \A i \in DOMAIN h[e].children : h[e].children[i].cell # c
  BY <1>3, Unreferenced DEF Well
<1> QED BY <1>3, <1>4, <1>5

\* c becomes d, and the counts of the others go up.
Rewritten(h, c, d, plus) == [e \in Cell |-> IF e = c THEN d ELSE [h[e] EXCEPT !.refs = @ + plus[e]]]

\* What is written is data, the counts go up for what is not deleted, and each old child is
\* among the new or is to be released, with what was to be released already.
MayBecome(h, given, c, d, plus, x) ==
  /\ d \in Data /\ d.refs = 1 /\ Len(d.children) <= MaxChildren
  /\ d.children # <<>> => d.type \in {"object", "array"}
  /\ \A i \in DOMAIN d.children : d.children[i].cell # c
  /\ plus \in [Cell -> Nat] /\ \A e \in Cell : plus[e] # 0 => h[e] # Freed
  /\ x \in [Cell -> Nat] /\ x[c] = 0
  /\ \A e \in Cell \ {c} :
       plus[e] + Occurrences(h[c].children, e) + given[e] = Occurrences(d.children, e) + x[e]

\* A node rewrites data nobody else refers to.
LEMMA OwnIsRewritten ==
  ASSUME NEW D, NEW h, NEW given, Well(D, h, given), NEW a \in Handle, NEW c \in Cell,
         D[a] = c, h[c].refs = 1, NEW d, NEW plus, NEW x, MayBecome(h, given, c, d, plus, x)
  PROVE  Well(D, Rewritten(h, c, d, plus), x) /\ Keeps(h, Rewritten(h, c, d, plus), c)
<1> DEFINE g == Rewritten(h, c, d, plus)
<1>1. /\ d \in Data /\ d.refs = 1 /\ Len(d.children) <= MaxChildren
      /\ d.children # <<>> => d.type \in {"object", "array"}
      /\ \A i \in DOMAIN d.children : d.children[i].cell # c
      /\ plus \in [Cell -> Nat] /\ \A e \in Cell : plus[e] # 0 => h[e] # Freed
      /\ x \in [Cell -> Nat] /\ x[c] = 0
      /\ \A e \in Cell \ {c} : plus[e] + Occurrences(h[c].children, e) + given[e]
                                = Occurrences(d.children, e) + x[e]
  BY DEF MayBecome
<1> USE <1>1
<1>2. HeapOK(h) /\ Acyclic(h) /\ given \in [Cell -> Nat]
  BY DEF Well
<1>3. /\ Cardinality(Holders(D, c)) = 1 /\ References(h, Cell, c) = 0 /\ given[c] = 0
      /\ \A e \in Cell : \A i \in DOMAIN h[e].children : h[e].children[i].cell # c
  BY Unshared
<1>4. g = [e \in Cell |-> g[e]] /\ g[c] = d
  BY DEF Rewritten
<1>5. ASSUME NEW e \in Cell \ {c}
      PROVE  /\ g[e] \in Data /\ g[e] = [h[e] EXCEPT !.refs = h[e].refs + plus[e]]
             /\ g[e].refs = h[e].refs + plus[e] /\ h[e].refs \in Nat /\ plus[e] \in Nat
             /\ g[e].type = h[e].type /\ g[e].text = h[e].text /\ g[e].children = h[e].children
  <2>1. h[e] \in Data /\ h[e].refs \in Nat /\ plus[e] \in Nat
    BY <1>2, ChildrenAreRefs DEF Data
  <2>2. g[e] = [h[e] EXCEPT !.refs = h[e].refs + plus[e]] /\ h[e].refs + plus[e] \in Nat
    BY <2>1 DEF Rewritten
  <2> QED BY <2>1, <2>2 DEF Data
<1> HIDE DEF g
<1>6. HeapOK(g)
  <2>1. g \in [Cell -> Data]
    BY <1>4, <1>5
  <2>2. ASSUME NEW e \in Cell
        PROVE  /\ Len(g[e].children) <= MaxChildren
               /\ g[e].children # <<>> => g[e].type \in {"object", "array"}
    <3>1. CASE e = c
      BY <1>4, <3>1
    <3>2. CASE e # c
      BY <1>2, <1>5, <3>2 DEF HeapOK
    <3> QED BY <3>1, <3>2
  <2> QED BY <2>1, <2>2 DEF HeapOK
<1>7. Acyclic(g)
  <2>1. PICK rank \in [Cell -> 0..MaxCell] :
           \A e \in Cell : \A i \in DOMAIN h[e].children :
             h[e].children[i].cell # NoData => rank[h[e].children[i].cell] < rank[e]
    BY <1>2 DEF Acyclic
  <2> DEFINE high == [rank EXCEPT ![c] = MaxCell + 1]
  <2>2. high \in [Cell -> Nat] /\ high[c] = MaxCell + 1 /\ \A e \in Cell \ {c} : high[e] = rank[e]
    BY <2>1, BoundsAreNumbers
  <2> HIDE DEF high
  <2>3. ASSUME NEW e \in Cell, NEW i \in DOMAIN g[e].children, g[e].children[i].cell # NoData
        PROVE  high[g[e].children[i].cell] < high[e]
    <3>1. g[e].children[i].cell \in Cell
      BY <1>6, <2>3, ChildrenAreRefs DEF Ref
    <3>2. CASE e = c
      <4>1. g[e].children[i].cell # c
        BY <1>4, <3>2
      <4>2. high[g[e].children[i].cell] \in 0..MaxCell
        BY <2>1, <2>2, <3>1, <4>1
      <4> QED BY <2>2, <3>2, <4>2, BoundsAreNumbers
    <3>3. CASE e # c
      <4>1. g[e].children = h[e].children
        BY <1>5, <3>3
      <4>2. g[e].children[i].cell # c /\ rank[g[e].children[i].cell] < rank[e]
        BY <1>3, <2>1, <2>3, <4>1
      <4> QED BY <2>2, <3>1, <3>3, <4>2
    <3> QED BY <3>2, <3>3
  <2> QED BY <1>6, <2>2, <2>3, RankIsBounded
<1>8. ASSUME NEW e \in Cell
      PROVE  /\ References(g, Cell, e) = References(h, Cell \ {c}, e) + Occurrences(d.children, e)
             /\ References(h, Cell, e) = References(h, Cell \ {c}, e) + Occurrences(h[c].children, e)
             /\ References(h, Cell \ {c}, e) \in Nat
  <2>1. /\ References(g, Cell, e) = References(g, Cell \ {c}, e) + Occurrences(g[c].children, e)
        /\ References(g, Cell \ {c}, e) \in Nat
    BY <1>6, ReferencesOfOneAndRest
  <2>2. /\ References(h, Cell, e) = References(h, Cell \ {c}, e) + Occurrences(h[c].children, e)
        /\ References(h, Cell \ {c}, e) \in Nat
    BY <1>2, ReferencesOfOneAndRest
  <2>3. References(g, Cell \ {c}, e) = References(h, Cell \ {c}, e)
    <3>1. \A f \in Cell \ {c} : g[f].children = h[f].children
      BY <1>5
    <3> QED BY <3>1, SameReferences
  <2> QED BY <1>4, <2>1, <2>2, <2>3
<1>9. ASSUME NEW e \in Cell
      PROVE  /\ g[e].refs = Cardinality(Holders(D, e)) + References(g, Cell, e) + x[e]
             /\ g[e] = Freed <=> g[e].refs = 0
  <2>1. Cardinality(Holders(D, e)) \in Nat /\ References(h, Cell \ {c}, e) \in Nat /\ x[e] \in Nat /\ given[e] \in Nat
    BY <1>2, <1>8, HoldersAreCounted
  <2>2. Occurrences(d.children, e) \in Nat /\ Occurrences(h[c].children, e) \in Nat
    BY <1>2, ChildrenAreRefs, OccurrencesAreCounted DEF Data
  <2>3. CASE e = c
    <3>1. Occurrences(d.children, e) = 0
      <4>1. d.children \in Seq(ChildRef)
        BY DEF Data
      <4>2. \A i \in DOMAIN d.children : d.children[i].cell # e
        BY <2>3
      <4> QED BY <4>1, <4>2, OccurrencesAreCounted
    <3>2. References(h, Cell \ {c}, e) = 0
      <4>1. References(h, Cell, e) = 0
        BY <1>3, <2>3
      <4>2. References(h, Cell, e) = References(h, Cell \ {c}, e) + Occurrences(h[c].children, e)
        BY <1>8
      <4> QED BY <2>1, <2>2, <4>1, <4>2
    <3>3. References(g, Cell, e) = 0
      BY <1>8, <3>1, <3>2
    <3>4. g[e].refs = 1 /\ g[e] # Freed
      BY <1>4, <2>3 DEF Freed
    <3> QED BY <1>3, <2>3, <3>3, <3>4
  <2>4. CASE e # c
    <3>1. /\ h[e].refs = Cardinality(Holders(D, e)) + References(h, Cell, e) + given[e]
          /\ h[e] = Freed <=> h[e].refs = 0
      BY DEF Well, Counted
    <3>2. g[e].refs = h[e].refs + plus[e] /\ h[e].refs \in Nat /\ plus[e] \in Nat
      BY <1>5, <2>4
    <3>3. plus[e] + Occurrences(h[c].children, e) + given[e] = Occurrences(d.children, e) + x[e]
      BY <2>4
    <3>4. /\ References(g, Cell, e) = References(h, Cell \ {c}, e) + Occurrences(d.children, e)
          /\ References(h, Cell, e) = References(h, Cell \ {c}, e) + Occurrences(h[c].children, e)
      BY <1>8
    <3>5. g[e].refs = Cardinality(Holders(D, e)) + References(g, Cell, e) + x[e]
      <4>1. g[e].refs = Cardinality(Holders(D, e)) + References(h, Cell \ {c}, e)
                          + (plus[e] + Occurrences(h[c].children, e) + given[e])
        BY <2>1, <2>2, <3>1, <3>2, <3>4, SMTT(30)
      <4> QED BY <2>1, <2>2, <3>3, <3>4, <4>1, SMTT(30)
    <3>6. ASSUME g[e].refs = 0 PROVE g[e] = Freed
      <4>1. h[e].refs = 0 /\ plus[e] = 0 /\ h[e].refs + plus[e] = h[e].refs
        BY <3>2, <3>6
      <4>2. g[e] = h[e]
        <5>1. h[e] \in Data /\ g[e] = [h[e] EXCEPT !.refs = h[e].refs]
          BY <1>2, <1>5, <2>4, <4>1, ChildrenAreRefs
        <5> QED BY <5>1 DEF Data
      <4> QED BY <3>1, <4>1, <4>2
    <3>7. g[e] = Freed => g[e].refs = 0
      BY DEF Freed
    <3> QED BY <3>5, <3>6, <3>7
  <2> QED BY <2>3, <2>4
<1>10. Well(D, g, x)
  BY <1>6, <1>7, <1>9 DEF Well, Counted
<1>11. ASSUME NEW e \in Cell \ {c}, h[e] = Freed PROVE g[e] = Freed
  <2>1. plus[e] = 0 /\ h[e].refs = 0
    BY <1>11 DEF Freed
  <2>2. g[e].refs = h[e].refs + plus[e]
    BY <1>5
  <2>3. g[e].refs = 0
    BY <2>1, <2>2
  <2> QED BY <1>9, <2>3
<1>12. \A e \in Cell \ {c} : ValuesIn(g)[e] = ValuesIn(h)[e]
  <2> DEFINE K == Ref \ {c}
  <2>1. \A e \in K \ {NoData} :
          /\ g[e].type = h[e].type /\ g[e].text = h[e].text /\ g[e].children = h[e].children
          /\ \A i \in DOMAIN h[e].children : h[e].children[i].cell \in K
    <3>1. SUFFICES ASSUME NEW e \in Cell \ {c}
                   PROVE  /\ g[e].type = h[e].type /\ g[e].text = h[e].text /\ g[e].children = h[e].children
                          /\ \A i \in DOMAIN h[e].children : h[e].children[i].cell \in K
      BY DEF Ref
    <3>2. \A i \in DOMAIN h[e].children : h[e].children[i].cell \in Ref /\ h[e].children[i].cell # c
      BY <1>2, <1>3, ChildrenAreRefs
    <3> QED BY <1>5, <3>2
  <2>2. K \in SUBSET Ref /\ \A e \in Cell \ {c} : e \in K
    BY DEF Ref
  <2> HIDE DEF K
  <2>3. \A e \in K : ValuesIn(g)[e] = ValuesIn(h)[e]
    BY <1>2, <1>6, <1>7, <2>1, <2>2, SameValues
  <2> QED BY <2>2, <2>3
<1>13. Keeps(h, g, c)
  BY <1>5, <1>11, <1>12 DEF Keeps
<1> QED BY <1>10, <1>13 DEF g

-----------------------------------------------------------------------------
(* What an operation makes of the values.                                  *)

\* Values of children.
NodeSet(v) == {Child(x.name, v[x.cell]) : x \in ChildRef}

\* There are as many as children.
LEMMA NodesAreListed ==
  ASSUME NEW s \in Seq(ChildRef), NEW v
  PROVE  /\ NodesOf(s, v) \in Seq(NodeSet(v)) /\ Len(NodesOf(s, v)) = Len(s)
         /\ DOMAIN NodesOf(s, v) = 1..Len(s)
         /\ \A i \in 1..Len(s) : NodesOf(s, v)[i] = Child(s[i].name, v[s[i].cell])
<1> DEFINE t == NodesOf(s, v)
<1>1. DOMAIN s = 1..Len(s) /\ Len(s) \in Nat /\ \A i \in 1..Len(s) : s[i] \in ChildRef
  OBVIOUS
<1>2. t = [i \in 1..Len(s) |-> Child(s[i].name, v[s[i].cell])]
  BY <1>1 DEF NodesOf
<1>3. \A i \in 1..Len(s) : Child(s[i].name, v[s[i].cell]) \in NodeSet(v)
  BY <1>1 DEF NodeSet
<1> HIDE DEF t
<1>4. t \in Seq(NodeSet(v)) /\ Len(t) = Len(s) /\ DOMAIN t = 1..Len(s)
  BY <1>1, <1>2, <1>3
<1> QED BY <1>2, <1>4 DEF t

\* The value of one more child is one more value.
LEMMA NodesOfAppend ==
  ASSUME NEW s \in Seq(ChildRef), NEW x \in ChildRef, NEW v
  PROVE  NodesOf(Append(s, x), v) = Append(NodesOf(s, v), Child(x.name, v[x.cell]))
<1> DEFINE u == Append(s, x)
           t == NodesOf(s, v)
           y == Child(x.name, v[x.cell])
<1>1. u \in Seq(ChildRef) /\ Len(u) = Len(s) + 1 /\ Len(s) \in Nat
      /\ (\A i \in 1..Len(s) : u[i] = s[i]) /\ u[Len(s) + 1] = x
  OBVIOUS
<1> HIDE DEF u
<1>2. /\ NodesOf(u, v) \in Seq(NodeSet(v)) /\ Len(NodesOf(u, v)) = Len(u)
      /\ \A i \in 1..Len(u) : NodesOf(u, v)[i] = Child(u[i].name, v[u[i].cell])
  BY <1>1, NodesAreListed
<1>3. /\ t \in Seq(NodeSet(v)) /\ Len(t) = Len(s)
      /\ \A i \in 1..Len(s) : t[i] = Child(s[i].name, v[s[i].cell])
  BY NodesAreListed
<1>4. y \in NodeSet(v)
  BY DEF NodeSet
<1> HIDE DEF t, y
<1>5. /\ Append(t, y) \in Seq(NodeSet(v)) /\ Len(Append(t, y)) = Len(s) + 1
      /\ (\A i \in 1..Len(s) : Append(t, y)[i] = t[i]) /\ Append(t, y)[Len(s) + 1] = y
  BY <1>3, <1>4
<1>6. \A i \in 1..(Len(s) + 1) : NodesOf(u, v)[i] = Append(t, y)[i]
  <2>1. \A i \in 1..(Len(s) + 1) : i \in 1..Len(s) \/ i = Len(s) + 1
    BY <1>1
  <2>2. \A i \in 1..Len(s) : NodesOf(u, v)[i] = Append(t, y)[i]
    <3>1. \A i \in 1..Len(s) : i \in 1..Len(u)
      BY <1>1
    <3> QED BY <1>1, <1>2, <1>3, <1>5, <3>1
  <2>3. NodesOf(u, v)[Len(s) + 1] = y
    <3>1. Len(s) + 1 \in 1..Len(u)
      BY <1>1
    <3> QED BY <1>1, <1>2, <3>1 DEF y
  <2> QED BY <1>5, <2>1, <2>2, <2>3
<1>7. NodesOf(u, v) = Append(t, y)
  BY <1>1, <1>2, <1>5, <1>6, SeqEqual
<1> QED BY <1>7 DEF u, t, y

\* The values of two lists of children.
LEMMA NodesOfConcat ==
  ASSUME NEW s \in Seq(ChildRef), NEW r \in Seq(ChildRef), NEW v
  PROVE  NodesOf(s \o r, v) = NodesOf(s, v) \o NodesOf(r, v)
<1> DEFINE u == s \o r
           t == NodesOf(s, v)
           w == NodesOf(r, v)
<1>1. u \in Seq(ChildRef) /\ Len(u) = Len(s) + Len(r) /\ Len(s) \in Nat /\ Len(r) \in Nat
  OBVIOUS
<1>2. \A i \in 1..(Len(s) + Len(r)) : u[i] = IF i <= Len(s) THEN s[i] ELSE r[i - Len(s)]
  BY ConcatElement
<1> HIDE DEF u
<1>3. /\ NodesOf(u, v) \in Seq(NodeSet(v)) /\ Len(NodesOf(u, v)) = Len(u)
      /\ \A i \in 1..Len(u) : NodesOf(u, v)[i] = Child(u[i].name, v[u[i].cell])
  BY <1>1, NodesAreListed
<1>4. /\ t \in Seq(NodeSet(v)) /\ Len(t) = Len(s)
      /\ \A i \in 1..Len(s) : t[i] = Child(s[i].name, v[s[i].cell])
  BY NodesAreListed
<1>5. /\ w \in Seq(NodeSet(v)) /\ Len(w) = Len(r)
      /\ \A i \in 1..Len(r) : w[i] = Child(r[i].name, v[r[i].cell])
  BY NodesAreListed
<1> HIDE DEF t, w
<1>6. t \o w \in Seq(NodeSet(v)) /\ Len(t \o w) = Len(s) + Len(r)
  <2>1. t \o w \in Seq(NodeSet(v)) /\ Len(t \o w) = Len(t) + Len(w)
    BY <1>4, <1>5, ConcatElement
  <2> QED BY <1>4, <1>5, <2>1
<1>7. \A i \in 1..(Len(s) + Len(r)) : (t \o w)[i] = IF i <= Len(s) THEN t[i] ELSE w[i - Len(s)]
  <2>1. \A i \in 1..(Len(t) + Len(w)) : (t \o w)[i] = IF i <= Len(t) THEN t[i] ELSE w[i - Len(t)]
    BY <1>4, <1>5, ConcatElement
  <2> QED BY <1>4, <1>5, <2>1
<1>8. ASSUME NEW i \in 1..(Len(s) + Len(r)) PROVE NodesOf(u, v)[i] = (t \o w)[i]
  <2>1. NodesOf(u, v)[i] = Child(u[i].name, v[u[i].cell])
    BY <1>1, <1>3
  <2>2. CASE i <= Len(s)
    <3>1. i \in 1..Len(s)
      BY <1>1, <2>2
    <3> QED BY <1>2, <1>4, <1>7, <2>1, <2>2, <3>1
  <2>3. CASE ~(i <= Len(s))
    <3>1. i - Len(s) \in 1..Len(r)
      BY <1>1, <2>3
    <3> QED BY <1>2, <1>5, <1>7, <2>1, <2>3, <3>1
  <2> QED BY <2>2, <2>3
<1>9. NodesOf(u, v) = t \o w
  BY <1>1, <1>3, <1>6, <1>8, SeqEqual
<1> QED BY <1>9 DEF u, t, w

\* The values of what is left when a child is erased.
LEMMA NodesOfRemoveAt ==
  ASSUME NEW s \in Seq(ChildRef), NEW i \in DOMAIN s, NEW v
  PROVE  NodesOf(RemoveAt(s, i), v) = RemoveAt(NodesOf(s, v), i)
<1> DEFINE u == RemoveAt(s, i)
           t == NodesOf(s, v)
           w == RemoveAt(t, i)
<1>1. /\ u \in Seq(ChildRef) /\ Len(u) = Len(s) - 1 /\ Len(s) \in Nat /\ i \in 1..Len(s)
      /\ \A j \in 1..(Len(s) - 1) : u[j] = IF j < i THEN s[j] ELSE s[j + 1]
  <2>1. Len(s) \in Nat /\ i \in 1..Len(s)
    OBVIOUS
  <2>2. u \in Seq(ChildRef) /\ Len(u) = Len(s) - 1
    BY WithoutOne
  <2>3. \A j \in 1..(Len(s) - 1) : u[j] = IF j < i THEN s[j] ELSE s[j + 1]
    BY WithoutOne
  <2> QED BY <2>1, <2>2, <2>3
<1> HIDE DEF u
<1>2. /\ NodesOf(u, v) \in Seq(NodeSet(v)) /\ Len(NodesOf(u, v)) = Len(u)
      /\ \A j \in 1..Len(u) : NodesOf(u, v)[j] = Child(u[j].name, v[u[j].cell])
  BY <1>1, NodesAreListed
<1>3. /\ t \in Seq(NodeSet(v)) /\ Len(t) = Len(s) /\ DOMAIN t = 1..Len(s)
      /\ \A j \in 1..Len(s) : t[j] = Child(s[j].name, v[s[j].cell])
  BY NodesAreListed
<1> HIDE DEF t
<1>4. /\ w \in Seq(NodeSet(v)) /\ Len(w) = Len(s) - 1
      /\ \A j \in 1..(Len(s) - 1) : w[j] = IF j < i THEN t[j] ELSE t[j + 1]
  <2>1. i \in DOMAIN t
    BY <1>1, <1>3
  <2>2. /\ w \in Seq(NodeSet(v)) /\ Len(w) = Len(t) - 1
        /\ \A j \in 1..(Len(t) - 1) : w[j] = IF j < i THEN t[j] ELSE t[j + 1]
    BY <1>3, <2>1, WithoutOne
  <2> QED BY <1>3, <2>2
<1> HIDE DEF w
<1>5. ASSUME NEW j \in 1..(Len(s) - 1) PROVE NodesOf(u, v)[j] = w[j]
  <2>1. NodesOf(u, v)[j] = Child(u[j].name, v[u[j].cell])
    BY <1>1, <1>2
  <2>2. j \in 1..Len(s) /\ j + 1 \in 1..Len(s)
    BY <1>1
  <2>3. CASE j < i
    BY <1>1, <1>3, <1>4, <2>1, <2>2, <2>3
  <2>4. CASE ~(j < i)
    BY <1>1, <1>3, <1>4, <2>1, <2>2, <2>4
  <2> QED BY <2>3, <2>4
<1>6. NodesOf(u, v) = w
  BY <1>1, <1>2, <1>4, <1>5, SeqEqual
<1> QED BY <1>6 DEF u, t, w

\* What is kept is kept, whichever cell else is not.
LEMMA AllKept ==
  ASSUME NEW h, NEW g, NEW c, Keeps(h, g, NoData)
  PROVE  Keeps(h, g, c)
BY DEF Keeps, Cell, NoData

\* The value of a cell whose children were kept follows from the values there were.
LEMMA ValueFromBefore ==
  ASSUME NEW h, HeapOK(h), Acyclic(h), NEW D, NEW g, NEW x, Well(D, g, x), NEW k, Keeps(h, g, k),
         NEW c \in Cell, \A i \in DOMAIN g[c].children : g[c].children[i].cell # k
  PROVE  ValuesIn(g)[c] = NodeOf(g, ValuesIn(h), c)
<1>1. HeapOK(g) /\ Acyclic(g) /\ c \in Ref
  BY DEF Well, Ref
<1>2. ASSUME NEW i \in DOMAIN g[c].children
      PROVE  ValuesIn(g)[g[c].children[i].cell] = ValuesIn(h)[g[c].children[i].cell]
  <2> DEFINE e == g[c].children[i].cell
  <2>1. e \in Ref /\ e # k /\ (e \in Cell => g[e] # Freed)
    BY LivingIsReferred
  <2> HIDE DEF e
  <2>2. ASSUME e = NoData PROVE ValuesIn(g)[e] = ValuesIn(h)[e]
    BY <1>1, <2>2, ValueOfNothing
  <2>3. ASSUME e # NoData PROVE ValuesIn(g)[e] = ValuesIn(h)[e]
    BY <2>1, <2>3 DEF Keeps, Ref
  <2> QED BY <2>2, <2>3 DEF e
<1>3. NodesOf(g[c].children, ValuesIn(g)) = NodesOf(g[c].children, ValuesIn(h))
  BY <1>2 DEF NodesOf
<1>4. ValuesIn(g)[c] = NodeOf(g, ValuesIn(g), c)
  BY <1>1, ValuesAreDefined
<1> QED BY <1>3, <1>4 DEF NodeOf

\* When one node refers to other data and k, which no other refers to, is the only data that may
\* have changed, every other node has the value it had.
LEMMA OneBecomes ==
  ASSUME NEW D, NEW h, Well(D, h, Nothing), NEW E, NEW g, Well(E, g, Nothing),
         NEW a \in Handle, \A b \in Handle \ {a} : E[b] = D[b],
         NEW k, Keeps(h, g, k), k \in Cell => \A b \in Handle \ {a} : D[b] # k
  PROVE  \A b \in Handle \ {a} : ValuesIn(g)[E[b]] = ValuesIn(h)[D[b]]
<1>1. HeapOK(h) /\ Acyclic(h) /\ HeapOK(g) /\ Acyclic(g) /\ D \in [Handle -> Ref] /\ E \in [Handle -> Ref]
  BY DEF Well
<1>2. ASSUME NEW b \in Handle \ {a} PROVE ValuesIn(g)[E[b]] = ValuesIn(h)[D[b]]
  <2>1. E[b] = D[b] /\ (k \in Cell => E[b] # k) /\ E[b] \in Ref
    BY <1>1
  <2>2. CASE E[b] = NoData
    BY <1>1, <2>1, <2>2, ValueOfNothing
  <2>3. CASE E[b] # NoData
    <3>1. E[b] \in Cell /\ g[E[b]] # Freed
      BY <2>1, <2>3, LivingIsReferred DEF Ref
    <3> QED BY <2>1, <3>1 DEF Keeps
  <2> QED BY <2>2, <2>3
<1> QED BY <1>2

-----------------------------------------------------------------------------
(* The invariant, and Detach.                                              *)

\* Outside the operations nothing is left to be given up.  No node was added to itself, and in
\* the lemmas about an operation none is: looped' is FALSE.
NodeInv == ~looped /\ Well(data, heap, Nothing)

Each(s) == [c \in Cell |-> Occurrences(s, c)]

\* Releases are what GiveUp does.
LEMMA ReleasesGiveUp ==
  ASSUME NEW h, NEW c, NEW s
  PROVE  Release(h, c) = GiveUp(h, One(c)) /\ ReleaseAll(h, s) = GiveUp(h, Each(s))
BY DEF Release, ReleaseAll, One, Is, Each

\* Numbers of occurrences.
LEMMA EachIsCounted ==
  ASSUME NEW s \in Seq(ChildRef)
  PROVE  Each(s) \in [Cell -> Nat]
BY OccurrencesAreCounted DEF Each

\* New data.
LEMMA NewDataIsData ==
  ASSUME NEW type \in NodeType, NEW text \in NodeText,
         NEW s \in Seq(ChildRef)
  PROVE  /\ NewData(type, text, s) \in Data
         /\ NewData(type, text, s).refs = 1 /\ NewData(type, text, s).type = type
         /\ NewData(type, text, s).text = text /\ NewData(type, text, s).children = s
BY DEF NewData, Data

\* A detached node refers to data of its own that is a copy, and nothing else has changed.
LEMMA Detached ==
  ASSUME NodeInv, NEW a \in Handle, data[a] \in Cell, MayDetach(a)
  PROVE  /\ Detach(a).cell \in Cell
         /\ Well([data EXCEPT ![a] = Detach(a).cell], Detach(a).heap, Nothing)
         /\ Keeps(heap, Detach(a).heap, Detach(a).cell)
         /\ \A b \in Handle \ {a} : data[b] # Detach(a).cell
         /\ Detach(a).heap[Detach(a).cell].refs = 1
         /\ Detach(a).heap[Detach(a).cell].type = heap[data[a]].type
         /\ Detach(a).heap[Detach(a).cell].text = heap[data[a]].text
         /\ Detach(a).heap[Detach(a).cell].children = heap[data[a]].children
<1> DEFINE o == data[a]
<1>1. Well(data, heap, Nothing) /\ HeapOK(heap) /\ Acyclic(heap) /\ data \in [Handle -> Ref]
  BY DEF NodeInv, Well
<1>2. heap[o] # Freed /\ heap[o].refs > 0 /\ heap[o].refs \in Nat
  BY <1>1, LivingIsReferred
<1>3. o # NoData
  BY DEF Cell, NoData
<1>4. CASE ~Shared(a)
  <2>1. heap[o].refs = 1
    BY <1>2, <1>3, <1>4 DEF Shared
  <2>2. Detach(a).cell = o /\ Detach(a).heap = heap
    BY <1>4 DEF Detach
  <2>3. [data EXCEPT ![a] = o] = data
    BY <1>1
  <2>4. Keeps(heap, heap, o)
    BY DEF Keeps
  <2>5. \A b \in Handle \ {a} : data[b] # o
    BY <1>1, <2>1, Unshared
  <2> QED BY <1>1, <2>1, <2>2, <2>3, <2>4, <2>5
<1>5. CASE Shared(a)
  <2> DEFINE n == NewCell(heap)
             old == heap[o]
             copy == NewData(old.type, old.text, old.children)
             blank == NewData(old.type, old.text, <<>>)
             E == [data EXCEPT ![a] = n]
             h1 == [heap EXCEPT ![n] = blank]
             h2 == AddRefs([heap EXCEPT ![n] = copy], old.children)
             g == Release(h2, o)
  <2>1. Detach(a).cell = n /\ Detach(a).heap = g
    BY <1>5 DEF Detach
  <2>2. n \in Cell /\ heap[n] = Freed
    BY <1>5, NewCellIsFree DEF MayDetach
  <2>3. old \in Data /\ old.children \in Seq(ChildRef) /\ Len(old.children) <= MaxChildren
        /\ (old.children # <<>> => old.type \in {"object", "array"})
    BY <1>1, ChildrenAreRefs DEF HeapOK
  <2>4. o # n
    BY <1>2, <2>2
  <2>5. /\ copy \in Data /\ copy.refs = 1 /\ copy.type = old.type /\ copy.text = old.text
        /\ copy.children = old.children
        /\ blank \in Data /\ blank.refs = 1 /\ blank.children = <<>>
    <3>1. old.type \in NodeType /\ old.text \in NodeText /\ <<>> \in Seq(ChildRef)
      BY <2>3 DEF Data
    <3> HIDE DEF old
    <3>2. /\ copy \in Data /\ copy.refs = 1 /\ copy.type = old.type /\ copy.text = old.text
          /\ copy.children = old.children
      BY <2>3, <3>1, NewDataIsData
    <3>3. blank \in Data /\ blank.refs = 1 /\ blank.children = <<>>
      BY <3>1 DEF NewData, Data
    <3> QED BY <3>2, <3>3
  <2>6. Well(E, h1, One(o)) /\ Keeps(heap, h1, n)
    <3> HIDE DEF blank, n
    <3> QED BY <1>1, <2>2, <2>5, Made
  <2>7. \A i \in DOMAIN old.children : /\ old.children[i].cell \in Ref /\ old.children[i].cell # n
                                       /\ old.children[i].cell \in Cell => heap[old.children[i].cell] # Freed
    <3> HIDE DEF n
    <3> QED BY <1>1, <2>2, LivingIsReferred
  <2>8. Each(old.children) \in [Cell -> Nat] /\ Each(old.children)[n] = 0
        /\ \A e \in Cell : Each(old.children)[e] # 0 => e # n /\ heap[e] # Freed
    <3> HIDE DEF n, old
    <3>1. \A e \in Cell : Each(old.children)[e] # 0 => \E i \in DOMAIN old.children : old.children[i].cell = e
      BY <2>3, OccurrencesAreCounted DEF Each
    <3>2. \A e \in Cell : Each(old.children)[e] # 0 => e # n /\ heap[e] # Freed
      BY <2>7, <3>1
    <3> QED BY <2>2, <2>3, <3>2, EachIsCounted
  <2>9. h2 = Rewritten(h1, n, copy, Each(old.children))
    <3>1. [copy EXCEPT !.refs = @ + Occurrences(old.children, n)] = copy
      <4>1. Occurrences(old.children, n) = 0
        BY <2>2, <2>8 DEF Each
      <4> HIDE DEF copy, n, old
      <4> QED BY <2>5, <4>1 DEF Data
    <3>2. \A e \in Cell : h2[e] = IF e = n THEN copy
                                  ELSE [h1[e] EXCEPT !.refs = @ + Each(old.children)[e]]
      <4>1. heap = [e \in Cell |-> heap[e]]
        BY <1>1 DEF HeapOK
      <4> HIDE DEF copy, blank, n, old
      <4> QED BY <2>2, <3>1, <4>1 DEF AddRefs, Each
    <3>3. h2 = [e \in Cell |-> h2[e]]
      BY DEF AddRefs
    <3> HIDE DEF h1, h2, copy, n, old
    <3> QED BY <3>2, <3>3 DEF Rewritten
  <2>10. h1[n] = blank /\ E[a] = n /\ \A e \in Cell \ {n} : h1[e] = heap[e]
    <3> HIDE DEF n, blank
    <3> QED BY <1>1, <2>2 DEF HeapOK
  <2>11. One(o) \in [Cell -> Nat] /\ One(o)[n] = 0
    <3> HIDE DEF n, o
    <3> QED BY <2>2, <2>4, OneOfNothing DEF One, Is
  <2>12. \A e \in Cell \ {n} : Each(old.children)[e] + Occurrences(h1[n].children, e) + One(o)[e]
                                 = Occurrences(copy.children, e) + One(o)[e]
    <3>1. \A e \in Cell : Each(old.children)[e] = Occurrences(copy.children, e)
      BY <2>5 DEF Each
    <3>2. \A e : Occurrences(h1[n].children, e) = 0
      <4>1. h1[n].children = <<>>
        BY <2>5, <2>10
      <4> HIDE DEF h1
      <4> QED BY <4>1, OccurrencesInNone
    <3>3. \A e \in Cell : Each(old.children)[e] \in Nat /\ One(o)[e] \in Nat
      BY <2>8, <2>11
    <3> HIDE DEF h1, copy, n, old, o
    <3> QED BY <3>1, <3>2, <3>3
  <2> HIDE DEF E, h1, h2, copy, blank, n, old
  <2>13. Well(E, h2, One(o)) /\ Keeps(h1, h2, n)
    <3>1. \A i \in DOMAIN copy.children : copy.children[i].cell # n
      BY <2>5, <2>7
    <3>2. \A e \in Cell : Each(old.children)[e] # 0 => h1[e] # Freed
      BY <2>8, <2>10
    <3>3. Len(copy.children) <= MaxChildren /\ (copy.children # <<>> => copy.type \in {"object", "array"})
      BY <2>3, <2>5
    <3>4. h1[n].refs = 1
      BY <2>5, <2>10
    <3>5. MayBecome(h1, One(o), n, copy, Each(old.children), One(o))
      BY <2>2, <2>5, <2>8, <2>11, <2>12, <3>1, <3>2, <3>3 DEF MayBecome
    <3>6. Well(E, Rewritten(h1, n, copy, Each(old.children)), One(o))
          /\ Keeps(h1, Rewritten(h1, n, copy, Each(old.children)), n)
      BY <2>2, <2>6, <2>10, <3>4, <3>5, OwnIsRewritten
    <3> QED BY <2>9, <3>6
  <2>14. Well(E, g, Nothing) /\ Keeps(h2, g, NoData) /\ \A e \in Cell : g[e].refs <= h2[e].refs
    BY <2>13, Released, ReleasesGiveUp
  <2> HIDE DEF g
  <2>15. Keeps(heap, g, n)
    BY <2>6, <2>13, <2>14, AllKept, KeepsInTurn
  <2>16. h2[n] = copy
    BY <2>2, <2>9 DEF Rewritten
  <2>17. g[n] # Freed /\ g[n].refs = 1
    <3>1. g[n] # Freed /\ g[n].refs > 0 /\ g[n].refs \in Nat
      BY <2>2, <2>10, <2>14, LivingIsReferred
    <3>2. g[n].refs <= 1
      BY <2>2, <2>5, <2>14, <2>16
    <3> QED BY <3>1, <3>2
  <2>18. g[n].type = old.type /\ g[n].text = old.text /\ g[n].children = old.children
    <3>1. n # NoData
      BY <2>2 DEF Cell, NoData
    <3> QED BY <2>2, <2>5, <2>14, <2>16, <2>17, <3>1 DEF Keeps
  <2>19. \A b \in Handle \ {a} : data[b] # n
    BY <1>1, <2>2, LivingIsReferred
  <2> QED BY <2>1, <2>2, <2>14, <2>15, <2>17, <2>18, <2>19 DEF E, old
<1> QED BY <1>4, <1>5

-----------------------------------------------------------------------------
(* What each operation makes of a node, and that it leaves the others alone. *)

Makes(a, node) == NodeInv' /\ Documents' = [Documents EXCEPT ![a] = node]

\* It is enough to know what a cell has become.
LEMMA IsMade ==
  ASSUME NodeInv, ~looped', NEW a \in Handle, NEW c, data'[a] = c, \A b \in Handle \ {a} : data'[b] = data[b],
         Well(data', heap', Nothing),
         NEW k, Keeps(heap, heap', k), k \in Cell => \A b \in Handle \ {a} : data[b] # k,
         NEW node, ValuesIn(heap')[c] = node
  PROVE  Makes(a, node)
<1>1. Well(data, heap, Nothing)
  BY DEF NodeInv
<1>2. \A b \in Handle \ {a} : ValuesIn(heap')[data'[b]] = ValuesIn(heap)[data[b]]
  BY <1>1, OneBecomes
<1>3. Documents' = [Documents EXCEPT ![a] = node]
  BY <1>2 DEF Documents, NodeInv
<1> QED BY <1>3 DEF Makes, NodeInv

\* A new node.
LEMMA NewIsMade ==
  ASSUME NodeInv, ~looped', NEW a \in Handle, NEW d \in Data, d.refs = 1, d.children = <<>>, TakesNew(a, d)
  PROVE  Makes(a, [type |-> d.type, text |-> d.text, children |-> <<>>])
<1> DEFINE c == NewCell(heap)
           o == data[a]
           h1 == [heap EXCEPT ![c] = d]
           E == [data EXCEPT ![a] = c]
           g == Release(h1, o)
           node == [type |-> d.type, text |-> d.text, children |-> <<>>]
<1>1. Well(data, heap, Nothing)
  BY DEF NodeInv
<1>2. c \in Cell /\ heap[c] = Freed
  BY NewCellIsFree DEF TakesNew
<1>3. data' = E /\ heap' = g
  BY DEF TakesNew
<1>4. Well(E, h1, One(o)) /\ Keeps(heap, h1, c) /\ ValuesIn(h1)[c] = node
  <2> HIDE DEF c
  <2> QED BY <1>1, <1>2, Made
<1>5. \A b \in Handle \ {a} : data[b] # c
  <2> HIDE DEF c
  <2> QED BY <1>1, <1>2, LivingIsReferred
<1>6. E[a] = c
  BY <1>1 DEF Well
<1> HIDE DEF c, o, h1, E, node
<1>7. Well(E, g, Nothing) /\ Keeps(h1, g, NoData)
  BY <1>4, Released, ReleasesGiveUp
<1> HIDE DEF g
<1>8. Keeps(heap, g, c)
  BY <1>4, <1>7, AllKept, KeepsInTurn
<1>9. ValuesIn(g)[c] = node
  <2>1. g[c] # Freed /\ c # NoData
    BY <1>2, <1>6, <1>7, LivingIsReferred DEF Cell, NoData
  <2> QED BY <1>2, <1>4, <1>7, <2>1 DEF Keeps
<1>10. data'[a] = c /\ \A b \in Handle \ {a} : data'[b] = data[b]
  BY <1>1, <1>3 DEF E, Well
<1>11. Makes(a, node)
  BY <1>3, <1>5, <1>7, <1>8, <1>9, <1>10, IsMade
<1> QED BY <1>11 DEF node

\* A node that gives up what it refers to, and refers to nothing.
LEMMA RefersToNothing ==
  ASSUME NodeInv, NEW a \in Handle
  PROVE  /\ Well([data EXCEPT ![a] = NoData], Release(heap, data[a]), Nothing)
         /\ Keeps(heap, Release(heap, data[a]), NoData)
<1> DEFINE E == [data EXCEPT ![a] = NoData]
<1>1. Well(data, heap, Nothing) /\ NoData \in Ref /\ NoData \notin Cell
  BY DEF NodeInv, Ref, Cell, NoData
<1>2. AddRef(heap, NoData, 1) = heap
  BY DEF AddRef
<1>3. \A c \in Cell : One(data[a])[c] = Nothing[c] + Is(data[a], c)
  BY DEF One, Is, Nothing
<1>4. One(data[a]) \in [Cell -> Nat]
  BY OneOfNothing
<1>5. Well(E, AddRef(heap, NoData, 1), One(data[a]))
  BY <1>1, <1>3, <1>4, Refers
<1>6. Well(E, heap, One(data[a]))
  BY <1>2, <1>5
<1> HIDE DEF E
<1>7. /\ Well(E, Release(heap, data[a]), Nothing)
      /\ Keeps(heap, Release(heap, data[a]), NoData)
  BY <1>6, Released, ReleasesGiveUp
<1> QED BY <1>7 DEF E

\* A node that is destroyed.
LEMMA DestroyedIsInvalid ==
  ASSUME NodeInv, ~looped', NEW a \in Handle, Takes(a, heap, NoData)
  PROVE  Makes(a, Invalid)
<1> DEFINE g == Release(heap, data[a])
<1>1. data' = [data EXCEPT ![a] = NoData] /\ heap' = g
  BY DEF Takes, AddRef
<1>2. /\ Well(data', heap', Nothing) /\ Keeps(heap, heap', NoData)
      /\ data'[a] = NoData /\ \A b \in Handle \ {a} : data'[b] = data[b]
  <2>1. data \in [Handle -> Ref]
    BY DEF NodeInv, Well
  <2> QED BY <1>1, <2>1, RefersToNothing
<1>3. ValuesIn(heap')[NoData] = Invalid
  BY <1>2, ValueOfNothing DEF Well
<1>4. NoData \notin Cell
  BY DEF Cell, NoData
<1> QED BY <1>2, <1>3, <1>4, IsMade

\* A node that is assigned another: it gives up what it refers to first.
LEMMA AssignedIsCopied ==
  ASSUME NodeInv, ~looped', NEW a \in Handle, NEW b \in Handle, a # b, Takes(a, heap, data[b])
  PROVE  Makes(a, Documents[b])
<1> DEFINE D == [data EXCEPT ![a] = NoData]
           h == Release(heap, data[a])
           c == data[b]
           E == [D EXCEPT ![a] = c]
           g == AddRef(h, c, 1)
<1>1. data \in [Handle -> Ref] /\ Well(data, heap, Nothing) /\ c \in Ref /\ NoData \in Ref /\ NoData \notin Cell
  BY DEF NodeInv, Well, Ref, Cell, NoData
<1>2. data' = [data EXCEPT ![a] = c] /\ heap' = g
  BY DEF Takes
<1>3. D \in [Handle -> Ref] /\ D[a] = NoData /\ \A e \in Handle \ {a} : D[e] = data[e]
  BY <1>1
<1>4. Well(D, h, Nothing) /\ Keeps(heap, h, NoData)
  BY RefersToNothing
<1>5. \A e \in Handle : data'[e] = E[e]
  BY <1>1, <1>2
<1>6. data' \in [Handle -> Ref] /\ E \in [Handle -> Ref]
  BY <1>1, <1>2
<1>7. data' = E
  <2> HIDE DEF E
  <2> QED BY <1>5, <1>6
<1> HIDE DEF D, h
<1>8. c \in Cell => h[c] # Freed
  <2>1. c = D[b]
    BY <1>3
  <2> QED BY <1>4, <2>1, LivingIsReferred
<1>9. \A e \in Cell : Nothing[e] = Nothing[e] + Is(D[a], e)
  BY <1>1, <1>3 DEF Nothing, Is
<1>10. Nothing \in [Cell -> Nat]
  BY OneOfNothing
<1> HIDE DEF c
<1>11. Well(E, g, Nothing) /\ Keeps(h, g, NoData)
  BY <1>1, <1>4, <1>8, <1>9, <1>10, Refers
<1> HIDE DEF E, g
<1>12. Keeps(heap, heap', NoData) /\ Well(data', heap', Nothing)
  BY <1>2, <1>4, <1>7, <1>11, KeepsInTurn
<1>13. data'[a] = c /\ \A e \in Handle \ {a} : data'[e] = data[e]
  BY <1>1, <1>2
<1>14. ValuesIn(heap')[c] = ValuesIn(heap)[c]
  <2>1. CASE c = NoData
    BY <1>1, <1>12, <2>1, ValueOfNothing DEF Well
  <2>2. CASE c # NoData
    <3>1. c \in Cell /\ heap'[c] # Freed
      BY <1>1, <1>12, <1>13, <2>2, LivingIsReferred DEF Ref
    <3> QED BY <1>12, <2>2, <3>1 DEF Keeps
  <2> QED BY <2>1, <2>2
<1>15. Documents[b] = ValuesIn(heap)[c]
  BY DEF Documents, NodeInv, c
<1> QED BY <1>1, <1>12, <1>13, <1>14, <1>15, IsMade

\* A node that is assigned what another contains, which a copy keeps until then.
LEMMA GotIsCopied ==
  ASSUME NodeInv, ~looped', NEW a \in Handle, NEW c \in Ref, c \in Cell => heap[c] # Freed, Get(a, c)
  PROVE  Makes(a, ValuesIn(heap)[c])
<1> DEFINE o == data[a]
           E == [data EXCEPT ![a] = c]
           h == AddRef(heap, c, 1)
           g == Release(h, o)
<1>1. data \in [Handle -> Ref] /\ Well(data, heap, Nothing) /\ NoData \notin Cell
  BY DEF NodeInv, Well, Cell, NoData
<1>2. data' = E /\ heap' = g
  BY DEF Get
<1>3. One(o) \in [Cell -> Nat] /\ \A e \in Cell : One(o)[e] = Nothing[e] + Is(o, e)
  BY OneOfNothing DEF One, Is, Nothing
<1>4. Well(E, h, One(o)) /\ Keeps(heap, h, NoData)
  <2> DEFINE x == One(o)
  <2>1. x \in [Cell -> Nat] /\ \A e \in Cell : x[e] = Nothing[e] + Is(data[a], e)
    BY <1>3
  <2> DEFINE D == data
             k == heap
  <2>2. Well(D, k, Nothing) /\ (c \in Cell => k[c] # Freed) /\ \A e \in Cell : x[e] = Nothing[e] + Is(D[a], e)
    BY <1>1, <2>1
  <2> HIDE DEF x, D, k
  <2>3. Well([D EXCEPT ![a] = c], AddRef(k, c, 1), x) /\ Keeps(k, AddRef(k, c, 1), NoData)
    BY <2>1, <2>2, Refers
  <2> QED BY <2>3 DEF x, D, k
<1>5. E[a] = c /\ \A e \in Handle \ {a} : E[e] = data[e]
  BY <1>1
<1> HIDE DEF o, E, h
<1>6. Well(E, g, Nothing) /\ Keeps(h, g, NoData)
  BY <1>4, Released, ReleasesGiveUp
<1> HIDE DEF g
<1>7. Well(data', heap', Nothing) /\ Keeps(heap, heap', NoData)
  BY <1>2, <1>4, <1>6, KeepsInTurn
<1>8. data'[a] = c /\ \A e \in Handle \ {a} : data'[e] = data[e]
  BY <1>2, <1>5
<1>9. ValuesIn(heap')[c] = ValuesIn(heap)[c]
  <2>1. CASE c = NoData
    BY <1>1, <1>7, <2>1, ValueOfNothing DEF Well
  <2>2. CASE c # NoData
    <3>1. c \in Cell /\ heap'[c] # Freed
      BY <1>7, <1>8, <2>2, LivingIsReferred DEF Ref
    <3> QED BY <1>7, <2>2, <3>1 DEF Keeps
  <2> QED BY <2>1, <2>2
<1> QED BY <1>1, <1>7, <1>8, <1>9, IsMade

\* What nodes refer to, the written one aside, and what any contains is not the data that the
\* node has to itself once it is detached, and is not deleted when it is detached.
LEMMA OthersAreKept ==
  ASSUME NodeInv, NEW a \in Handle, data[a] \in Cell, MayDetach(a), NEW b \in Handle
  PROVE  /\ b # a => /\ data[b] # Detach(a).cell
                     /\ data[b] \in Cell => Detach(a).heap[data[b]] # Freed
         /\ data[b] \in Cell =>
              \A i \in DOMAIN heap[data[b]].children :
                /\ heap[data[b]].children[i].cell # Detach(a).cell
                /\ heap[data[b]].children[i].cell \in Cell =>
                     Detach(a).heap[heap[data[b]].children[i].cell] # Freed
<1> DEFINE c == Detach(a).cell
           g == Detach(a).heap
           E == [data EXCEPT ![a] = c]
<1>1. /\ c \in Cell /\ Well(E, g, Nothing) /\ Keeps(heap, g, c)
      /\ \A e \in Handle \ {a} : data[e] # c
      /\ g[c].refs = 1 /\ g[c].children = heap[data[a]].children
  BY Detached
<1>2. E[a] = c /\ \A e \in Handle \ {a} : E[e] = data[e]
  BY DEF NodeInv, Well
<1> HIDE DEF c, g, E
<1>3. ASSUME b # a PROVE data[b] # c /\ (data[b] \in Cell => g[data[b]] # Freed)
  <2>1. E[b] = data[b]
    BY <1>2, <1>3
  <2> QED BY <1>1, <1>3, <2>1, LivingIsReferred
<1>4. ASSUME data[b] \in Cell PROVE \E d \in Cell : g[d].children = heap[data[b]].children
  <2>1. CASE a = b
    BY <1>1, <2>1
  <2>2. CASE a # b
    BY <1>1, <1>3, <1>4, <2>2 DEF Keeps
  <2> QED BY <2>1, <2>2
<1>5. ASSUME data[b] \in Cell, NEW i \in DOMAIN heap[data[b]].children
      PROVE  /\ heap[data[b]].children[i].cell # c
             /\ heap[data[b]].children[i].cell \in Cell => g[heap[data[b]].children[i].cell] # Freed
  <2>1. PICK d \in Cell : g[d].children = heap[data[b]].children
    BY <1>4, <1>5
  <2>2. i \in DOMAIN g[d].children /\ g[d].children[i].cell = heap[data[b]].children[i].cell
    BY <1>5, <2>1
  <2>3. g[d].children[i].cell # c
    BY <1>1, <1>2, <2>2, Unshared
  <2>4. g[d].children[i].cell \in Cell => g[g[d].children[i].cell] # Freed
    BY <1>1, <2>2, LivingIsReferred
  <2> QED BY <2>2, <2>3, <2>4
<1> QED BY <1>3, <1>5 DEF c, g

\* The heap is rewritten, and x is given up, if anything is.
IsWritten(g, c, d, plus, x, f) ==
  \/ x = Nothing /\ f = Rewritten(g, c, d, plus)
  \/ f = GiveUp(Rewritten(g, c, d, plus), x)

\* What a node writes to data it has to itself is what that data then stands for.
LEMMA WrittenIsRead ==
  ASSUME NEW h, HeapOK(h), Acyclic(h), NEW D, NEW g, Well(D, g, Nothing),
         NEW a \in Handle, NEW c \in Cell, D[a] = c, g[c].refs = 1, Keeps(h, g, c),
         NEW d, NEW plus, NEW x, MayBecome(g, Nothing, c, d, plus, x),
         NEW f, IsWritten(g, c, d, plus, x, f)
  PROVE  /\ Well(D, f, Nothing) /\ Keeps(h, f, c)
         /\ ValuesIn(f)[c] = [type |-> d.type, text |-> d.text,
                              children |-> NodesOf(d.children, ValuesIn(h))]
<1> DEFINE R == Rewritten(g, c, d, plus)
<1>1. d \in Data /\ \A i \in DOMAIN d.children : d.children[i].cell # c
  BY DEF MayBecome
<1>2. Well(D, R, x) /\ Keeps(g, R, c)
  BY OwnIsRewritten
<1>3. R[c] = d
  BY DEF Rewritten
<1>4. (x = Nothing /\ f = R) \/ f = GiveUp(R, x)
  BY DEF IsWritten
<1> HIDE DEF R
<1>5. /\ Well(D, f, Nothing) /\ Keeps(g, f, c)
      /\ f[c].type = d.type /\ f[c].text = d.text /\ f[c].children = d.children
  <2>1. CASE x = Nothing /\ f = R
    BY <1>2, <1>3, <2>1
  <2>2. CASE f = GiveUp(R, x)
    <3>1. Well(D, f, Nothing) /\ Keeps(R, f, NoData)
      BY <1>2, <2>2, Released
    <3>2. f[c] # Freed /\ c # NoData
      BY <3>1, LivingIsReferred DEF Cell, NoData
    <3>3. f[c].type = d.type /\ f[c].text = d.text /\ f[c].children = d.children
      BY <1>3, <3>1, <3>2 DEF Keeps
    <3>4. Keeps(g, f, c)
      BY <1>2, <3>1, AllKept, KeepsInTurn
    <3> QED BY <3>1, <3>3, <3>4
  <2> QED BY <1>4, <2>1, <2>2
<1>6. Keeps(h, f, c)
  BY <1>5, KeepsInTurn
<1>7. ValuesIn(f)[c] = NodeOf(f, ValuesIn(h), c)
  <2>1. \A i \in DOMAIN f[c].children : f[c].children[i].cell # c
    BY <1>1, <1>5
  <2> QED BY <1>5, <1>6, <2>1, ValueFromBefore
<1>8. ValuesIn(f)[c] = [type |-> d.type, text |-> d.text, children |-> NodesOf(d.children, ValuesIn(h))]
  <2>1. c # NoData
    BY DEF Cell, NoData
  <2> QED BY <1>5, <1>7, <2>1 DEF NodeOf
<1> QED BY <1>5, <1>6, <1>8

\* A node that detaches itself and writes d stands for the value that d describes. The counts go
\* up by what plus says, and what x says is released, if anything is.
LEMMA OwnIsWritten ==
  ASSUME NodeInv, ~looped', NEW a \in Handle, data[a] \in Cell, MayDetach(a),
         data' = [data EXCEPT ![a] = Detach(a).cell],
         NEW d, NEW plus, NEW x, MayBecome(Detach(a).heap, Nothing, Detach(a).cell, d, plus, x),
         IsWritten(Detach(a).heap, Detach(a).cell, d, plus, x, heap')
  PROVE  Makes(a, [type |-> d.type, text |-> d.text, children |-> NodesOf(d.children, ValuesIn(heap))])
<1> DEFINE c == Detach(a).cell
           g == Detach(a).heap
           E == [data EXCEPT ![a] = c]
           f == heap'
<1>1. /\ c \in Cell /\ Well(E, g, Nothing) /\ Keeps(heap, g, c)
      /\ \A e \in Handle \ {a} : data[e] # c
      /\ g[c].refs = 1 /\ g[c].children = heap[data[a]].children
  BY Detached
<1>2. HeapOK(heap) /\ Acyclic(heap) /\ E[a] = c /\ \A e \in Handle \ {a} : E[e] = data[e]
  BY DEF NodeInv, Well
<1>3. data' = E
  OBVIOUS
<1>4. /\ MayBecome(g, Nothing, c, d, plus, x)
      /\ IsWritten(g, c, d, plus, x, f)
  OBVIOUS
<1> HIDE DEF c, g, E, f
<1>5. /\ Well(E, f, Nothing) /\ Keeps(heap, f, c)
      /\ ValuesIn(f)[c] = [type |-> d.type, text |-> d.text,
                           children |-> NodesOf(d.children, ValuesIn(heap))]
  BY <1>1, <1>2, <1>4, WrittenIsRead, SMTT(30)
<1>6. data'[a] = c /\ \A b \in Handle \ {a} : data'[b] = data[b]
  BY <1>2, <1>3
<1> QED BY <1>1, <1>3, <1>5, <1>6, IsMade DEF f

\* A node and its value have the same type, text and children.
LEMMA DocumentOf ==
  ASSUME NodeInv, NEW a \in Handle
  PROVE  /\ Documents[a].type = KindOf(a)
         /\ Documents[a].children = NodesOf(ChildrenOf(a), ValuesIn(heap))
         /\ ChildrenOf(a) \in Seq(ChildRef)
         /\ data[a] \in Ref /\ Documents[a] = ValuesIn(heap)[data[a]]
         /\ data[a] # NoData =>
              /\ data[a] \in Cell /\ heap[data[a]] \in Data
              /\ Documents[a] = [type |-> heap[data[a]].type, text |-> heap[data[a]].text,
                                 children |-> NodesOf(ChildrenOf(a), ValuesIn(heap))]
<1>1. HeapOK(heap) /\ Acyclic(heap) /\ data[a] \in Ref
  BY DEF NodeInv, Well
<1>2. Documents[a] = ValuesIn(heap)[data[a]]
  BY DEF Documents, NodeInv
<1>3. CASE data[a] = NoData
  <2>1. Documents[a] = Invalid
    BY <1>1, <1>2, <1>3, ValueOfNothing
  <2>2. NodesOf(<<>>, ValuesIn(heap)) = <<>>
    BY DEF NodesOf
  <2> QED BY <1>1, <1>2, <1>3, <2>1, <2>2 DEF KindOf, ChildrenOf, Invalid, Plain
<1>4. CASE data[a] # NoData
  <2>1. data[a] \in Cell
    BY <1>1, <1>4 DEF Ref
  <2>2. heap[data[a]] \in Data /\ heap[data[a]].children \in Seq(ChildRef)
    BY <1>1, <2>1, ChildrenAreRefs
  <2>3. Documents[a] = NodeOf(heap, ValuesIn(heap), data[a])
    BY <1>1, <1>2, ValuesAreDefined
  <2> QED BY <1>1, <1>2, <1>4, <2>1, <2>2, <2>3 DEF KindOf, ChildrenOf, NodeOf
<1> QED BY <1>3, <1>4

\* A write that counts nothing.
LEMMA RewrittenAlone ==
  ASSUME NEW g, HeapOK(g), NEW c \in Cell, NEW d
  PROVE  [g EXCEPT ![c] = d] = Rewritten(g, c, d, Nothing)
<1> DEFINE f == [g EXCEPT ![c] = d]
           R == Rewritten(g, c, d, Nothing)
<1>1. \A e \in Cell : g[e] \in Data
  BY DEF HeapOK
<1>2. g = [e \in Cell |-> g[e]]
  BY DEF HeapOK
<1>3. ASSUME NEW e \in Cell PROVE f[e] = R[e]
  <2>1. CASE e = c
    BY <1>2, <2>1 DEF Rewritten
  <2>2. CASE e # c
    <3>1. R[e] = [g[e] EXCEPT !.refs = g[e].refs + 0]
      BY <2>2 DEF Rewritten, Nothing
    <3>2. g[e].refs + 0 = g[e].refs /\ g[e] \in Data
      BY <1>1 DEF Data
    <3>3. R[e] = g[e]
      BY <3>1, <3>2 DEF Data
    <3> QED BY <1>2, <2>2, <3>3
  <2> QED BY <2>1, <2>2
<1>4. f = [e \in Cell |-> f[e]] /\ R = [e \in Cell |-> R[e]]
  BY <1>2 DEF Rewritten
<1> HIDE DEF f, R
<1>5. f = R
  BY <1>3, <1>4
<1> QED BY <1>5 DEF f, R

\* What a node that is a value is set to.
LEMMA SetIsMade ==
  ASSUME NodeInv, ~looped', NEW a \in Handle, NEW literal \in Literal, SetNode(a, literal)
  PROVE  Makes(a, MakeNode(literal.type, literal.text)) /\ KindOf(a) \in {"null", "string", "number", "bool"}
<1> DEFINE c == Detach(a).cell
           g == Detach(a).heap
           d == NewData(literal.type, TextOf(literal), <<>>)
<1>1. /\ KindOf(a) \in {"null", "string", "number", "bool"} /\ MayDetach(a)
      /\ data' = [data EXCEPT ![a] = c] /\ heap' = [g EXCEPT ![c] = d]
  BY DEF SetNode, Write, IsValueNode
<1>2. data[a] # NoData /\ KindOf(a) = heap[data[a]].type
  BY <1>1 DEF KindOf
<1>3. data[a] \in Cell /\ HeapOK(heap)
  BY <1>2 DEF NodeInv, Well, Ref
<1>4. heap[data[a]].children = <<>>
  BY <1>1, <1>2, <1>3 DEF HeapOK
<1>5. /\ c \in Cell /\ g[c].children = heap[data[a]].children
      /\ Well([data EXCEPT ![a] = c], g, Nothing)
  BY <1>1, <1>3, Detached
<1>6. literal.type \in NodeType /\ TextOf(literal) \in NodeText
  BY LiteralsAreValues DEF NodeType, NodeText
<1>7. /\ d \in Data /\ d.refs = 1 /\ d.type = literal.type /\ d.text = TextOf(literal) /\ d.children = <<>>
  BY <1>6 DEF NewData, Data
<1> HIDE DEF d
<1>8. MayBecome(g, Nothing, c, d, Nothing, Nothing)
  <2>1. \A e \in Cell : Occurrences(g[c].children, e) = 0 /\ Occurrences(d.children, e) = 0
    BY <1>4, <1>5, <1>7, OccurrencesInNone
  <2>2. Nothing \in [Cell -> Nat] /\ \A e \in Cell : Nothing[e] = 0
    BY OneOfNothing DEF Nothing
  <2>3. Len(d.children) = 0 /\ DOMAIN d.children = {}
    BY <1>7
  <2> HIDE DEF c, g
  <2> QED BY <1>5, <1>7, <2>1, <2>2, <2>3, BoundsAreNumbers DEF MayBecome
<1>9. IsWritten(g, c, d, Nothing, Nothing, heap')
  <2>1. HeapOK(g)
    BY <1>5 DEF Well
  <2> HIDE DEF c, g
  <2> QED BY <1>1, <1>5, <2>1, RewrittenAlone DEF IsWritten
<1>10. Makes(a, [type |-> d.type, text |-> d.text, children |-> NodesOf(d.children, ValuesIn(heap))])
  BY <1>1, <1>3, <1>8, <1>9, OwnIsWritten
<1>11. NodesOf(<<>>, ValuesIn(heap)) = <<>>
  BY DEF NodesOf
<1>12. MakeNode(literal.type, literal.text)
         = [type |-> d.type, text |-> d.text, children |-> NodesOf(d.children, ValuesIn(heap))]
  BY <1>7, <1>11 DEF TextOf, MakeNode, Plain
<1> QED BY <1>1, <1>10, <1>12

\* New children for a container.
MayHave(a, s, plus, x) ==
  /\ KindOf(a) \in {"object", "array"} /\ MayDetach(a)
  /\ s \in Seq(ChildRef) /\ Len(s) <= MaxChildren
  /\ \A i \in DOMAIN s : s[i].cell # Detach(a).cell
  /\ plus \in [Cell -> Nat] /\ \A e \in Cell : plus[e] # 0 => Detach(a).heap[e] # Freed
  /\ x \in [Cell -> Nat] /\ x[Detach(a).cell] = 0
  /\ \A e \in Cell : plus[e] + Occurrences(ChildrenOf(a), e) = Occurrences(s, e) + x[e]

\* A container with other children.
LEMMA ChildrenAreWritten ==
  ASSUME NodeInv, ~looped', NEW a \in Handle, NEW s, NEW plus, NEW x, MayHave(a, s, plus, x),
         data' = [data EXCEPT ![a] = Detach(a).cell],
         NEW d, d = [Detach(a).heap[Detach(a).cell] EXCEPT !.children = s],
         IsWritten(Detach(a).heap, Detach(a).cell, d, plus, x, heap')
  PROVE  Makes(a, [Documents[a] EXCEPT !.children = NodesOf(s, ValuesIn(heap))])
<1> DEFINE c == Detach(a).cell
           g == Detach(a).heap
<1>1. KindOf(a) \in {"object", "array"} /\ MayDetach(a) /\ s \in Seq(ChildRef)
  BY DEF MayHave
<1>2. data[a] # NoData /\ KindOf(a) = heap[data[a]].type /\ ChildrenOf(a) = heap[data[a]].children
  BY <1>1 DEF KindOf, ChildrenOf
<1>3. data[a] \in Cell
  BY <1>2 DEF NodeInv, Well, Ref
<1>4. /\ c \in Cell /\ g[c].refs = 1 /\ g[c].type = heap[data[a]].type
      /\ g[c].text = heap[data[a]].text /\ g[c].children = ChildrenOf(a)
      /\ Well([data EXCEPT ![a] = c], g, Nothing)
  BY <1>1, <1>2, <1>3, Detached
<1>5. g[c] \in Data
  BY <1>4 DEF Well, HeapOK
<1>6. d = [g[c] EXCEPT !.children = s]
  OBVIOUS
<1> HIDE DEF c, g
<1>7. /\ d \in Data /\ d.refs = 1 /\ d.type = heap[data[a]].type /\ d.text = heap[data[a]].text
      /\ d.children = s
  BY <1>1, <1>4, <1>5, <1>6 DEF Data
<1>8. MayBecome(g, Nothing, c, d, plus, x)
  <2>1. /\ Len(s) <= MaxChildren /\ \A i \in DOMAIN s : s[i].cell # c
        /\ plus \in [Cell -> Nat] /\ \A e \in Cell : plus[e] # 0 => g[e] # Freed
        /\ x \in [Cell -> Nat] /\ x[c] = 0
    BY DEF MayHave, c, g
  <2>2. ASSUME NEW e \in Cell
        PROVE  plus[e] + Occurrences(g[c].children, e) + Nothing[e] = Occurrences(d.children, e) + x[e]
    <3>1. plus[e] + Occurrences(ChildrenOf(a), e) = Occurrences(s, e) + x[e]
      BY DEF MayHave
    <3>2. Occurrences(s, e) \in Nat /\ x[e] \in Nat /\ Nothing[e] = 0
      BY <1>1, <2>1, OccurrencesAreCounted DEF Nothing
    <3> QED BY <1>4, <1>7, <3>1, <3>2
  <2> QED BY <1>1, <1>2, <1>7, <2>1, <2>2 DEF MayBecome
<1>9. Makes(a, [type |-> d.type, text |-> d.text, children |-> NodesOf(d.children, ValuesIn(heap))])
  BY <1>1, <1>3, <1>8, OwnIsWritten DEF c, g
<1>10. [Documents[a] EXCEPT !.children = NodesOf(s, ValuesIn(heap))]
         = [type |-> d.type, text |-> d.text, children |-> NodesOf(d.children, ValuesIn(heap))]
  <2>1. Documents[a] = [type |-> heap[data[a]].type, text |-> heap[data[a]].text,
                        children |-> NodesOf(ChildrenOf(a), ValuesIn(heap))]
    BY <1>2, DocumentOf
  <2> QED BY <1>7, <2>1
<1> QED BY <1>9, <1>10

\* What a detached node has to itself.
LEMMA OwnChildren ==
  ASSUME NodeInv, NEW a \in Handle, data[a] # NoData, MayDetach(a)
  PROVE  /\ Detach(a).cell \in Cell /\ HeapOK(Detach(a).heap)
         /\ Detach(a).heap[Detach(a).cell] \in Data
         /\ Detach(a).heap[Detach(a).cell].children = ChildrenOf(a)
         /\ ChildrenOf(a) \in Seq(ChildRef) /\ Len(ChildrenOf(a)) <= MaxChildren
         /\ ChildrenOf(a) # <<>> => KindOf(a) \in {"object", "array"}
         /\ \A i \in DOMAIN ChildrenOf(a) :
              /\ ChildrenOf(a)[i] \in ChildRef /\ ChildrenOf(a)[i].cell \in Ref
              /\ ChildrenOf(a)[i].cell # Detach(a).cell
<1>1. data[a] \in Cell /\ HeapOK(heap) /\ ChildrenOf(a) = heap[data[a]].children /\ KindOf(a) = heap[data[a]].type
  BY DEF NodeInv, Well, Ref, ChildrenOf, KindOf
<1>2. /\ Detach(a).cell \in Cell /\ HeapOK(Detach(a).heap)
      /\ Detach(a).heap[Detach(a).cell].children = ChildrenOf(a)
  BY <1>1, Detached DEF Well
<1>3. Detach(a).heap[Detach(a).cell] \in Data
  BY <1>2 DEF HeapOK
<1>4. /\ ChildrenOf(a) \in Seq(ChildRef) /\ Len(ChildrenOf(a)) <= MaxChildren
      /\ ChildrenOf(a) # <<>> => KindOf(a) \in {"object", "array"}
      /\ \A i \in DOMAIN ChildrenOf(a) : ChildrenOf(a)[i] \in ChildRef /\ ChildrenOf(a)[i].cell \in Ref
  BY <1>1, ChildrenAreRefs DEF HeapOK
<1>5. \A i \in DOMAIN ChildrenOf(a) : ChildrenOf(a)[i].cell # Detach(a).cell
  BY <1>1, OthersAreKept
<1> QED BY <1>2, <1>3, <1>4, <1>5

\* A child that is added is another node's value.
LEMMA AddedIsChild ==
  ASSUME NodeInv, ~looped', NEW a \in Handle, NEW b \in Handle, a # b, NEW name \in Name, Add(a, name, b)
  PROVE  KindOf(a) \in {"object", "array"} /\ Makes(a, AddChild(Documents[a], name, Documents[b]))
<1> DEFINE c == Detach(a).cell
           g == Detach(a).heap
           old == ChildrenOf(a)
           child == [name |-> IF KindOf(a) = "object" THEN name ELSE <<>>, cell |-> data[b]]
           s == Append(old, child)
           d == [g[c] EXCEPT !.children = s]
           plus == One(data[b])
           f == [AddRef(g, data[b], 1) EXCEPT ![c].children = Append(@, child)]
<1>1. /\ a # b /\ KindOf(a) \in {"object", "array"} /\ MayDetach(a) /\ Len(old) < MaxChildren
      /\ data' = [data EXCEPT ![a] = c] /\ heap' = f
  BY DEF Add, IsContainerNode
<1>2. data[a] # NoData /\ data[a] \in Cell /\ data[b] \in Ref
  BY <1>1 DEF KindOf, NodeInv, Well, Ref
<1>3. /\ c \in Cell /\ HeapOK(g) /\ g[c] \in Data /\ g[c].children = old
      /\ old \in Seq(ChildRef) /\ \A i \in DOMAIN old : old[i].cell # c
  BY <1>1, <1>2, OwnChildren
<1>4. data[b] # c /\ (data[b] \in Cell => g[data[b]] # Freed)
  BY <1>1, <1>2, OthersAreKept
<1>5. child \in ChildRef /\ child.cell = data[b]
  BY <1>2 DEF ChildRef, Ref
<1>6. /\ plus \in [Cell -> Nat] /\ \A e \in Cell : plus[e] = Is(e, data[b])
      /\ Nothing \in [Cell -> Nat] /\ \A e \in Cell : Nothing[e] = 0
  BY OneOfNothing DEF One, Nothing
<1> HIDE DEF c, g, old, child, plus
<1>7. /\ s \in Seq(ChildRef) /\ Len(s) = Len(old) + 1 /\ Len(old) \in Nat
      /\ \A i \in DOMAIN s : s[i].cell # c
  <2>1. /\ s \in Seq(ChildRef) /\ Len(s) = Len(old) + 1 /\ Len(old) \in Nat
        /\ DOMAIN s = 1..(Len(old) + 1) /\ DOMAIN old = 1..Len(old)
        /\ (\A i \in 1..Len(old) : s[i] = old[i]) /\ s[Len(old) + 1] = child
    BY <1>3, <1>5
  <2>2. ASSUME NEW i \in DOMAIN s PROVE s[i].cell # c
    <3>1. CASE i \in 1..Len(old)
      BY <1>3, <2>1, <3>1
    <3>2. CASE i = Len(old) + 1
      BY <1>4, <1>5, <2>1, <3>2
    <3>3. i \in 1..(Len(old) + 1)
      BY <2>1
    <3> QED BY <2>1, <3>1, <3>2, <3>3
  <2> QED BY <2>1, <2>2
<1>8. MayHave(a, s, plus, Nothing)
  <2>1. \A e \in Cell : plus[e] + Occurrences(old, e) = Occurrences(s, e) + Nothing[e]
    <3>1. SUFFICES ASSUME NEW e \in Cell PROVE plus[e] + Occurrences(old, e) = Occurrences(s, e) + Nothing[e]
      OBVIOUS
    <3>2. Occurrences(s, e) = Occurrences(old, e) + (IF child.cell = e THEN 1 ELSE 0)
      BY <1>3, <1>5, OccurrencesOfAppend
    <3>3. Occurrences(old, e) \in Nat /\ plus[e] = Is(e, data[b]) /\ Nothing[e] = 0
      BY <1>3, <1>6, OccurrencesAreCounted
    <3> QED BY <1>5, <3>2, <3>3 DEF Is
  <2>2. \A e \in Cell : plus[e] # 0 => g[e] # Freed
    BY <1>4, <1>6 DEF Is
  <2>3. Len(s) <= MaxChildren
    BY <1>1, <1>7, BoundsAreNumbers
  <2> HIDE DEF s
  <2> QED BY <1>1, <1>3, <1>6, <1>7, <2>1, <2>2, <2>3 DEF MayHave, c, g, old
<1>9. f = Rewritten(g, c, d, plus)
  <2> DEFINE R == Rewritten(g, c, d, plus)
             h == AddRef(g, data[b], 1)
  <2>1. \A e \in Cell : g[e] \in Data
    BY <1>3 DEF HeapOK
  <2>2. h = [e \in Cell |-> h[e]] /\ h[c] = g[c]
    BY <1>3, <1>4 DEF AddRef, HeapOK
  <2>3. ASSUME NEW e \in Cell, e # c PROVE h[e] = [g[e] EXCEPT !.refs = g[e].refs + plus[e]]
    <3>1. CASE e = data[b]
      <4>1. plus[e] = 1 /\ e # NoData
        BY <1>6, <3>1 DEF Is, Cell, NoData
      <4> QED BY <1>3, <3>1, <4>1 DEF AddRef, HeapOK
    <3>2. CASE e # data[b]
      <4>1. plus[e] = 0 /\ g[e].refs + 0 = g[e].refs
        BY <1>6, <2>1, <3>2 DEF Is, Data
      <4>2. h[e] = g[e]
        BY <1>3, <3>2 DEF AddRef, HeapOK
      <4>3. [g[e] EXCEPT !.refs = g[e].refs] = g[e]
        BY <2>1 DEF Data
      <4> QED BY <4>1, <4>2, <4>3
    <3> QED BY <3>1, <3>2
  <2> HIDE DEF h
  <2>4. f = [h EXCEPT ![c] = d]
    BY <1>3, <2>2 DEF h
  <2>5. \A e \in Cell : f[e] = R[e]
    <3> HIDE DEF f, d
    <3> QED BY <1>3, <2>2, <2>3, <2>4 DEF Rewritten
  <2>6. f = [e \in Cell |-> f[e]] /\ R = [e \in Cell |-> R[e]]
    <3> HIDE DEF f
    <3> QED BY <2>2, <2>4 DEF Rewritten
  <2> HIDE DEF f, R
  <2>7. f = R
    BY <2>5, <2>6
  <2> QED BY <2>7 DEF R
<1>10. Makes(a, [Documents[a] EXCEPT !.children = NodesOf(s, ValuesIn(heap))])
  <2>1. IsWritten(g, c, d, plus, Nothing, heap')
    BY <1>1, <1>9 DEF IsWritten
  <2> HIDE DEF s
  <2> QED BY <1>1, <1>8, <2>1, ChildrenAreWritten DEF c, g
<1>11. [Documents[a] EXCEPT !.children = NodesOf(s, ValuesIn(heap))] = AddChild(Documents[a], name, Documents[b])
  <2>1. /\ Documents[a].type = KindOf(a) /\ Documents[a].children = NodesOf(old, ValuesIn(heap))
        /\ Documents[b] = ValuesIn(heap)[data[b]]
    BY DocumentOf DEF old
  <2>2. NodesOf(s, ValuesIn(heap)) = Append(NodesOf(old, ValuesIn(heap)), Child(child.name, ValuesIn(heap)[child.cell]))
    BY <1>3, <1>5, NodesOfAppend
  <2>3. child.name = IF KindOf(a) = "object" THEN name ELSE <<>>
    BY DEF child
  <2> HIDE DEF s
  <2> QED BY <1>5, <2>1, <2>2, <2>3 DEF AddChild
<1> QED BY <1>1, <1>10, <1>11

\* What is appended are another node's children, which both then refer to.
LEMMA AppendedAreChildren ==
  ASSUME NodeInv, ~looped', NEW a \in Handle, NEW b \in Handle, AppendNode(a, b)
  PROVE  /\ KindOf(a) \in {"object", "array"} /\ KindOf(a) = KindOf(b)
         /\ Makes(a, [Documents[a] EXCEPT !.children = @ \o Documents[b].children])
<1> DEFINE c == Detach(a).cell
           g == Detach(a).heap
           old == ChildrenOf(a)
           more == ChildrenOf(b)
           s == old \o more
           d == [g[c] EXCEPT !.children = s]
           plus == Each(more)
           f == [AddRefs(g, more) EXCEPT ![c].children = @ \o more]
<1>1. /\ KindOf(a) \in {"object", "array"} /\ KindOf(a) = KindOf(b) /\ MayDetach(a)
      /\ Len(old) + Len(more) <= MaxChildren
      /\ data' = [data EXCEPT ![a] = c] /\ heap' = f
  BY DEF AppendNode, IsContainerNode
<1>2. data[a] # NoData /\ data[b] # NoData /\ data[a] \in Cell /\ data[b] \in Cell
  BY <1>1 DEF KindOf, NodeInv, Well, Ref
<1>3. /\ c \in Cell /\ HeapOK(g) /\ g[c] \in Data /\ g[c].children = old
      /\ old \in Seq(ChildRef) /\ \A i \in DOMAIN old : old[i].cell # c
  BY <1>1, <1>2, OwnChildren
<1>4. more = heap[data[b]].children /\ more \in Seq(ChildRef)
  BY <1>2, DocumentOf DEF ChildrenOf
<1>5. \A i \in DOMAIN more : more[i].cell # c /\ (more[i].cell \in Cell => g[more[i].cell] # Freed)
  <2>1. MayDetach(a) /\ data[a] \in Cell /\ data[b] \in Cell
    BY <1>1, <1>2
  <2>2. \A i \in DOMAIN heap[data[b]].children :
          /\ heap[data[b]].children[i].cell # c
          /\ heap[data[b]].children[i].cell \in Cell => g[heap[data[b]].children[i].cell] # Freed
    BY <2>1, OthersAreKept
  <2> HIDE DEF c, g, more
  <2> QED BY <1>4, <2>2
<1>6. /\ plus \in [Cell -> Nat] /\ \A e \in Cell : plus[e] = Occurrences(more, e)
      /\ Nothing \in [Cell -> Nat] /\ \A e \in Cell : Nothing[e] = 0
  BY <1>4, EachIsCounted, OneOfNothing DEF Each, Nothing
<1> HIDE DEF c, g, old, more, plus
<1>7. /\ s \in Seq(ChildRef) /\ Len(s) = Len(old) + Len(more) /\ \A i \in DOMAIN s : s[i].cell # c
  <2>1. /\ s \in Seq(ChildRef) /\ Len(s) = Len(old) + Len(more)
        /\ \A j \in 1..(Len(old) + Len(more)) : s[j] = IF j <= Len(old) THEN old[j] ELSE more[j - Len(old)]
    BY <1>3, <1>4, ConcatElement
  <2>2. /\ DOMAIN s = 1..(Len(old) + Len(more)) /\ DOMAIN old = 1..Len(old) /\ DOMAIN more = 1..Len(more)
        /\ Len(old) \in Nat /\ Len(more) \in Nat
    BY <1>3, <1>4, <2>1
  <2> HIDE DEF s
  <2>3. ASSUME NEW i \in DOMAIN s PROVE s[i].cell # c
    <3>1. CASE i <= Len(old)
      <4>1. i \in DOMAIN old /\ s[i] = old[i]
        BY <2>1, <2>2, <3>1
      <4> QED BY <1>3, <4>1
    <3>2. CASE ~(i <= Len(old))
      <4>1. i - Len(old) \in DOMAIN more /\ s[i] = more[i - Len(old)]
        BY <2>1, <2>2, <3>2
      <4> QED BY <1>5, <4>1
    <3> QED BY <3>1, <3>2
  <2> QED BY <2>1, <2>3
<1>8. MayHave(a, s, plus, Nothing)
  <2>1. \A e \in Cell : plus[e] + Occurrences(old, e) = Occurrences(s, e) + Nothing[e]
    <3>1. SUFFICES ASSUME NEW e \in Cell PROVE plus[e] + Occurrences(old, e) = Occurrences(s, e) + Nothing[e]
      OBVIOUS
    <3>2. Occurrences(s, e) = Occurrences(old, e) + Occurrences(more, e)
      BY <1>3, <1>4, OccurrencesOfConcat
    <3>3. Occurrences(old, e) \in Nat /\ Occurrences(more, e) \in Nat
          /\ plus[e] = Occurrences(more, e) /\ Nothing[e] = 0
      BY <1>3, <1>4, <1>6, OccurrencesAreCounted
    <3> QED BY <3>2, <3>3
  <2>2. \A e \in Cell : plus[e] # 0 => g[e] # Freed
    <3>1. SUFFICES ASSUME NEW e \in Cell, plus[e] # 0 PROVE g[e] # Freed
      OBVIOUS
    <3>2. Occurrences(more, e) # 0
      BY <1>6, <3>1
    <3>3. \E i \in DOMAIN more : more[i].cell = e
      BY <1>4, <3>2, OccurrencesAreCounted
    <3> QED BY <1>5, <3>3
  <2> HIDE DEF s
  <2> QED BY <1>1, <1>3, <1>6, <1>7, <2>1, <2>2 DEF MayHave, c, g, old
<1>9. f = Rewritten(g, c, d, plus)
  <2> DEFINE R == Rewritten(g, c, d, plus)
             h == AddRefs(g, more)
  <2>1. h = [e \in Cell |-> h[e]]
    BY DEF AddRefs
  <2>2. \A e \in Cell : h[e] = [g[e] EXCEPT !.refs = @ + plus[e]]
    BY <1>6 DEF AddRefs
  <2>3. h[c] = g[c]
    <3>1. plus[c] = 0 /\ g[c].refs + 0 = g[c].refs
      <4>1. Occurrences(more, c) = 0
        BY <1>4, <1>5, OccurrencesAreCounted
      <4> QED BY <1>3, <1>6, <4>1 DEF Data
    <3>2. h[c] = [g[c] EXCEPT !.refs = g[c].refs]
      BY <1>3, <2>2, <3>1
    <3> QED BY <1>3, <3>2 DEF Data
  <2> HIDE DEF h
  <2>4. f = [h EXCEPT ![c] = d]
    BY <1>3, <2>1, <2>3 DEF h
  <2>5. \A e \in Cell : f[e] = R[e]
    <3> HIDE DEF f, d
    <3> QED BY <1>3, <2>1, <2>2, <2>4 DEF Rewritten
  <2>6. f = [e \in Cell |-> f[e]] /\ R = [e \in Cell |-> R[e]]
    <3> HIDE DEF f
    <3> QED BY <2>1, <2>4 DEF Rewritten
  <2> HIDE DEF f, R
  <2>7. f = R
    BY <2>5, <2>6
  <2> QED BY <2>7 DEF R
<1>10. Makes(a, [Documents[a] EXCEPT !.children = NodesOf(s, ValuesIn(heap))])
  <2>1. IsWritten(g, c, d, plus, Nothing, heap')
    BY <1>1, <1>9 DEF IsWritten
  <2> HIDE DEF s
  <2> QED BY <1>1, <1>8, <2>1, ChildrenAreWritten DEF c, g
<1>11. NodesOf(s, ValuesIn(heap)) = Documents[a].children \o Documents[b].children
  <2>1. /\ Documents[a].children = NodesOf(old, ValuesIn(heap))
        /\ Documents[b].children = NodesOf(more, ValuesIn(heap))
    BY DocumentOf DEF old, more
  <2>2. NodesOf(s, ValuesIn(heap)) = NodesOf(old, ValuesIn(heap)) \o NodesOf(more, ValuesIn(heap))
    BY <1>3, <1>4, NodesOfConcat
  <2> QED BY <2>1, <2>2
<1>12. Makes(a, [Documents[a] EXCEPT !.children = Documents[a].children \o Documents[b].children])
  <2> HIDE DEF s
  <2> QED BY <1>10, <1>11
<1> QED BY <1>1, <1>12

\* The child at i is erased and no other; its reference is released.
LEMMA ErasedIsRemoved ==
  ASSUME NodeInv, ~looped', NEW a \in Handle, NEW i \in DOMAIN ChildrenOf(a), MayDetach(a), Erase(a, i)
  PROVE  /\ i \in DOMAIN Documents[a].children
         /\ Makes(a, [Documents[a] EXCEPT !.children = RemoveAt(@, i)])
<1> DEFINE c == Detach(a).cell
           g == Detach(a).heap
           old == ChildrenOf(a)
           s == RemoveAt(old, i)
           d == [g[c] EXCEPT !.children = s]
           x == One(old[i].cell)
           f == [g EXCEPT ![c].children = RemoveAt(@, i)]
<1>1. data' = [data EXCEPT ![a] = c] /\ heap' = Release(f, old[i].cell)
  BY DEF Erase
<1>2. data[a] # NoData
  BY DEF ChildrenOf
<1>3. /\ c \in Cell /\ HeapOK(g) /\ g[c] \in Data /\ g[c].children = old
      /\ old \in Seq(ChildRef) /\ Len(old) <= MaxChildren
      /\ \A j \in DOMAIN old : old[j] \in ChildRef /\ old[j].cell \in Ref /\ old[j].cell # c
      /\ old # <<>> => KindOf(a) \in {"object", "array"}
  BY <1>2, OwnChildren
<1>4. KindOf(a) \in {"object", "array"}
  BY <1>3
<1>5. /\ x \in [Cell -> Nat] /\ \A e \in Cell : x[e] = Is(e, old[i].cell)
      /\ Nothing \in [Cell -> Nat] /\ \A e \in Cell : Nothing[e] = 0
  BY OneOfNothing DEF One, Nothing
<1>6. i \in DOMAIN old
  OBVIOUS
<1> HIDE DEF c, g, old, x
<1>7. /\ s \in Seq(ChildRef) /\ Len(s) <= MaxChildren /\ \A j \in DOMAIN s : s[j].cell # c
  <2>1. /\ s \in Seq(ChildRef) /\ Len(s) = Len(old) - 1
        /\ \A j \in 1..(Len(old) - 1) : s[j] = IF j < i THEN old[j] ELSE old[j + 1]
    BY <1>3, <1>6, WithoutOne
  <2>2. Len(old) \in Nat /\ DOMAIN old = 1..Len(old)
    BY <1>3
  <2> HIDE DEF s
  <2>3. DOMAIN s = 1..(Len(old) - 1)
    BY <2>1
  <2>4. ASSUME NEW j \in DOMAIN s PROVE s[j].cell # c
    <3>1. j \in DOMAIN old /\ j + 1 \in DOMAIN old
      BY <2>2, <2>3
    <3> QED BY <1>3, <2>1, <2>3, <3>1
  <2>5. Len(s) <= MaxChildren
    BY <1>3, <2>1, <2>2, BoundsAreNumbers
  <2> QED BY <2>1, <2>4, <2>5
<1>8. MayHave(a, s, Nothing, x)
  <2>1. \A e \in Cell : Nothing[e] + Occurrences(old, e) = Occurrences(s, e) + x[e]
    <3>1. SUFFICES ASSUME NEW e \in Cell PROVE Nothing[e] + Occurrences(old, e) = Occurrences(s, e) + x[e]
      OBVIOUS
    <3>2. Occurrences(old, e) = Occurrences(s, e) + (IF old[i].cell = e THEN 1 ELSE 0)
      BY <1>3, <1>6, OccurrencesOfRemoveAt
    <3>3. Occurrences(old, e) \in Nat /\ Occurrences(s, e) \in Nat /\ x[e] = Is(e, old[i].cell) /\ Nothing[e] = 0
      BY <1>3, <1>5, <1>7, OccurrencesAreCounted
    <3> QED BY <3>2, <3>3 DEF Is
  <2>2. x[c] = 0
    BY <1>3, <1>5, <1>6 DEF Is
  <2>3. \A e \in Cell : Nothing[e] # 0 => g[e] # Freed
    BY <1>5
  <2> HIDE DEF s
  <2> QED BY <1>4, <1>5, <1>7, <2>1, <2>2, <2>3 DEF MayHave, c, g, old
<1>9. IsWritten(g, c, d, Nothing, x, heap')
  <2>1. f = [g EXCEPT ![c] = d]
    BY <1>3 DEF HeapOK
  <2>2. f = Rewritten(g, c, d, Nothing)
    <3> HIDE DEF f, d
    <3> QED BY <1>3, <2>1, RewrittenAlone
  <2>3. heap' = GiveUp(f, x)
    <3> HIDE DEF f
    <3> QED BY <1>1, ReleasesGiveUp DEF x
  <2> HIDE DEF f, d
  <2> QED BY <2>2, <2>3 DEF IsWritten
<1>10. Makes(a, [Documents[a] EXCEPT !.children = NodesOf(s, ValuesIn(heap))])
  <2> HIDE DEF s
  <2> QED BY <1>1, <1>8, <1>9, ChildrenAreWritten DEF c, g
<1>11. Documents[a].children = NodesOf(old, ValuesIn(heap))
  BY DocumentOf DEF old
<1>12. NodesOf(s, ValuesIn(heap)) = RemoveAt(Documents[a].children, i)
  BY <1>3, <1>6, <1>11, NodesOfRemoveAt
<1>13. i \in DOMAIN Documents[a].children
  BY <1>6, <1>11 DEF NodesOf
<1>14. Makes(a, [Documents[a] EXCEPT !.children = RemoveAt(Documents[a].children, i)])
  <2> HIDE DEF s
  <2> QED BY <1>10, <1>12
<1> QED BY <1>13, <1>14

\* A container that is cleared releases all its children.
LEMMA ClearedIsEmpty ==
  ASSUME NodeInv, ~looped', NEW a \in Handle, Clear(a)
  PROVE  Makes(a, [Documents[a] EXCEPT !.children = <<>>])
<1> DEFINE c == Detach(a).cell
           g == Detach(a).heap
           old == ChildrenOf(a)
           d == [g[c] EXCEPT !.children = <<>>]
           x == Each(old)
           f == [g EXCEPT ![c].children = <<>>]
<1>1. /\ old # <<>> /\ MayDetach(a) /\ data' = [data EXCEPT ![a] = c] /\ heap' = ReleaseAll(f, old)
  BY DEF Clear
<1>2. data[a] # NoData
  BY <1>1 DEF ChildrenOf
<1>3. /\ c \in Cell /\ HeapOK(g) /\ g[c] \in Data /\ g[c].children = old
      /\ old \in Seq(ChildRef) /\ \A i \in DOMAIN old : old[i].cell # c
      /\ KindOf(a) \in {"object", "array"}
  BY <1>1, <1>2, OwnChildren
<1>4. /\ x \in [Cell -> Nat] /\ \A e \in Cell : x[e] = Occurrences(old, e)
      /\ Nothing \in [Cell -> Nat] /\ \A e \in Cell : Nothing[e] = 0
  BY <1>3, EachIsCounted, OneOfNothing DEF Each, Nothing
<1> HIDE DEF c, g, old, x
<1>5. MayHave(a, <<>>, Nothing, x)
  <2>1. \A e \in Cell : Nothing[e] + Occurrences(old, e) = Occurrences(<<>>, e) + x[e]
    <3>1. SUFFICES ASSUME NEW e \in Cell PROVE Nothing[e] + Occurrences(old, e) = Occurrences(<<>>, e) + x[e]
      OBVIOUS
    <3>2. Occurrences(<<>>, e) = 0 /\ Nothing[e] = 0 /\ x[e] = Occurrences(old, e)
      BY <1>4, OccurrencesInNone
    <3> QED BY <3>2
  <2>2. x[c] = 0
    <3>1. Occurrences(old, c) = 0
      BY <1>3, OccurrencesAreCounted
    <3> QED BY <1>3, <1>4, <3>1
  <2>3. \A e \in Cell : Nothing[e] # 0 => g[e] # Freed
    BY <1>4
  <2>4. <<>> \in Seq(ChildRef) /\ Len(<<>>) <= MaxChildren /\ DOMAIN <<>> = {}
    BY BoundsAreNumbers
  <2> QED BY <1>1, <1>3, <1>4, <2>1, <2>2, <2>3, <2>4 DEF MayHave, c, g, old
<1>6. IsWritten(g, c, d, Nothing, x, heap')
  <2>1. f = [g EXCEPT ![c] = d]
    BY <1>3 DEF HeapOK
  <2>2. f = Rewritten(g, c, d, Nothing)
    <3> HIDE DEF f, d
    <3> QED BY <1>3, <2>1, RewrittenAlone
  <2>3. heap' = GiveUp(f, x)
    <3> HIDE DEF f
    <3> QED BY <1>1, ReleasesGiveUp DEF x
  <2> HIDE DEF f, d
  <2> QED BY <2>2, <2>3 DEF IsWritten
<1>7. Makes(a, [Documents[a] EXCEPT !.children = NodesOf(<<>>, ValuesIn(heap))])
  BY <1>1, <1>5, <1>6, ChildrenAreWritten DEF c, g
<1>8. NodesOf(<<>>, ValuesIn(heap)) = <<>>
  BY DEF NodesOf
<1> QED BY <1>7, <1>8

\* A node that detaches itself and writes nothing has the value it had.
LEMMA DetachedIsSame ==
  ASSUME NodeInv, ~looped', NEW a \in Handle, data[a] # NoData, MayDetach(a),
         data' = [data EXCEPT ![a] = Detach(a).cell], heap' = Detach(a).heap
  PROVE  Makes(a, Documents[a])
<1> DEFINE c == Detach(a).cell
           g == Detach(a).heap
           E == [data EXCEPT ![a] = c]
<1>1. HeapOK(heap) /\ Acyclic(heap) /\ data[a] \in Cell
  BY DEF NodeInv, Well, Ref
<1>2. /\ c \in Cell /\ Well(E, g, Nothing) /\ Keeps(heap, g, c) /\ \A b \in Handle \ {a} : data[b] # c
      /\ g[c].type = heap[data[a]].type /\ g[c].text = heap[data[a]].text
      /\ g[c].children = heap[data[a]].children
  BY <1>1, Detached
<1>3. \A i \in DOMAIN g[c].children : g[c].children[i].cell # c
  BY <1>2, OwnChildren DEF ChildrenOf
<1>4. data'[a] = c /\ (\A b \in Handle \ {a} : data'[b] = data[b]) /\ data' = E /\ heap' = g
  BY DEF NodeInv, Well
<1> HIDE DEF c, g, E
<1>5. ValuesIn(g)[c] = NodeOf(g, ValuesIn(heap), c)
  BY <1>1, <1>2, <1>3, ValueFromBefore
<1>6. NodeOf(g, ValuesIn(heap), c) = Documents[a]
  <2>1. Documents[a] = [type |-> heap[data[a]].type, text |-> heap[data[a]].text,
                        children |-> NodesOf(heap[data[a]].children, ValuesIn(heap))]
    BY DocumentOf DEF ChildrenOf
  <2>2. c # NoData
    BY <1>2 DEF Cell, NoData
  <2> QED BY <1>2, <2>1, <2>2 DEF NodeOf
<1>7. Well(data', heap', Nothing) /\ Keeps(heap, heap', c) /\ ValuesIn(heap')[c] = Documents[a]
  BY <1>2, <1>4, <1>5, <1>6
<1> HIDE <1>4
<1>8. data'[a] = c /\ \A b \in Handle \ {a} : data'[b] = data[b]
  BY <1>4
<1> QED BY <1>2, <1>7, <1>8, IsMade

-----------------------------------------------------------------------------
(* Each step is a step of JsonValue, and keeps the references counted.     *)

\* The operators JsonValue uses are those used here.
LEMMA SameOperators ==
  /\ Values!Invalid = Invalid /\ Values!Endless = Endless
  /\ \A type, text : Values!MakeNode(type, text) = MakeNode(type, text)
  /\ \A node, name, child : Values!AddChild(node, name, child) = AddChild(node, name, child)
  /\ \A s, i : Values!RemoveAt(s, i) = RemoveAt(s, i)
  /\ \A type : Values!Container(type, <<>>) = [type |-> type, text |-> <<>>, children |-> <<>>]
<1>1. \A value : Values!UnescapeString(value) = UnescapeString(value)
  BY DEF Values!UnescapeString, Values!IsEscape, Values!Unescaped, Values!EscapedAs,
         UnescapeString, IsEscape, Unescaped, EscapedAs
<1>2. \A type, text : Values!MakeNode(type, text) = MakeNode(type, text)
  BY <1>1 DEF Values!MakeNode, Values!Plain, MakeNode, Plain
<1>3. Values!Invalid = Invalid /\ Values!Endless = Endless
  BY DEF Values!Invalid, Values!Endless, Values!Plain, Invalid, Endless, Plain
<1>4. \A node, name, child : Values!AddChild(node, name, child) = AddChild(node, name, child)
  BY DEF Values!AddChild, Values!Child, AddChild, Child
<1>5. \A s, i : Values!RemoveAt(s, i) = RemoveAt(s, i)
  BY DEF Values!RemoveAt, RemoveAt
<1>6. \A type : Values!Container(type, <<>>) = [type |-> type, text |-> <<>>, children |-> <<>>]
  BY DEF Values!Container
<1> QED BY <1>2, <1>3, <1>4, <1>5, <1>6

\* When nothing has happened to the others, what has been made of a node is what it becomes.
LEMMA MadeIsBecome ==
  ASSUME NEW a, NEW node, Makes(a, node)
  PROVE  NodeInv' /\ Values!Becomes(a, node)
BY DEF Makes, Values!Becomes

\* New nodes.
LEMMA NewContainerIsBuilt ==
  ASSUME NodeInv, ~looped', NEW a \in Handle, NEW type \in {"object", "array"}, NewContainer(a, type)
  PROVE  NodeInv' /\ Values!Build(a)
<1> DEFINE d == NewData(type, <<>>, <<>>)
<1>1. /\ d \in Data /\ d.refs = 1 /\ d.type = type /\ d.text = <<>> /\ d.children = <<>>
  BY DEF NewData, Data, NodeType, NodeText
<1>2. TakesNew(a, d)
  BY DEF NewContainer
<1> HIDE DEF d
<1>3. Makes(a, [type |-> d.type, text |-> d.text, children |-> <<>>])
  BY <1>1, <1>2, NewIsMade
<1>4. Makes(a, Values!Container(type, <<>>))
  BY <1>1, <1>3, SameOperators
<1>5. NodeInv' /\ Values!Becomes(a, Values!Container(type, <<>>))
  BY <1>4, MadeIsBecome
<1> QED BY <1>5 DEF Values!Build, Values!ContainerType

\* A new value, its text unescaped when it is a string.
LEMMA NewValueIsMade ==
  ASSUME NodeInv, ~looped', NEW a \in Handle, NEW literal \in Literal, NewValue(a, literal)
  PROVE  NodeInv' /\ Values!MakeValue(a)
<1> DEFINE d == NewData(literal.type, TextOf(literal), <<>>)
<1>1. literal.type \in NodeType /\ TextOf(literal) \in NodeText
  BY LiteralsAreValues DEF NodeType, NodeText
<1>2. /\ d \in Data /\ d.refs = 1 /\ d.type = literal.type /\ d.text = TextOf(literal) /\ d.children = <<>>
  BY <1>1 DEF NewData, Data
<1>3. TakesNew(a, d)
  BY DEF NewValue
<1> HIDE DEF d
<1>4. Makes(a, [type |-> d.type, text |-> d.text, children |-> <<>>])
  BY <1>2, <1>3, NewIsMade
<1>5. Makes(a, MakeNode(literal.type, literal.text))
  BY <1>2, <1>4 DEF TextOf, MakeNode, Plain
<1>6. NodeInv' /\ Values!Becomes(a, Values!MakeNode(literal.type, literal.text))
  BY <1>5, SameOperators, MadeIsBecome
<1> QED BY <1>6 DEF Values!MakeValue

\* A node that is set, assigned, destroyed, added to, appended to or cleared.
LEMMA SetIsOverwritten ==
  ASSUME NodeInv, ~looped', NEW a \in Handle, NEW literal \in Literal, SetNode(a, literal)
  PROVE  NodeInv' /\ Values!Overwrite(a)
<1>1. /\ Makes(a, MakeNode(literal.type, literal.text))
      /\ KindOf(a) \in {"null", "string", "number", "bool"}
  BY SetIsMade
<1>2. NodeInv' /\ Values!Becomes(a, Values!MakeNode(literal.type, literal.text))
  BY <1>1, SameOperators, MadeIsBecome
<1>3. Values!IsValue(Documents[a])
  BY <1>1, DocumentOf DEF Values!IsValue, Values!ValueType
<1> QED BY <1>2, <1>3 DEF Values!Overwrite, Values!MakeValue

\* A copy of the other node.
LEMMA AssignedIsAssigned ==
  ASSUME NodeInv, ~looped', NEW a \in Handle, NEW b \in Handle, AssignNode(a, b)
  PROVE  NodeInv' /\ Values!Assign(a)
<1>1. Makes(a, Documents[b])
  BY AssignedIsCopied DEF AssignNode
<1>2. NodeInv' /\ Values!Becomes(a, Documents[b])
  BY <1>1, MadeIsBecome
<1> QED BY <1>2 DEF Values!Assign

\* Not valid any more.
LEMMA DestroyedIsDestroyed ==
  ASSUME NodeInv, ~looped', NEW a \in Handle, DestroyNode(a)
  PROVE  NodeInv' /\ Values!Destroy(a)
<1>1. Makes(a, Invalid)
  BY DestroyedIsInvalid DEF DestroyNode
<1>2. NodeInv' /\ Values!Becomes(a, Values!Invalid)
  BY <1>1, SameOperators, MadeIsBecome
<1> QED BY <1>2 DEF Values!Destroy

\* One child more.
LEMMA AddedIsAdded ==
  ASSUME NodeInv, ~looped', NEW a \in Handle, NEW b \in Handle, a # b, NEW name \in Name, Add(a, name, b)
  PROVE  NodeInv' /\ Values!AddOne(a)
<1>1. KindOf(a) \in {"object", "array"} /\ Makes(a, AddChild(Documents[a], name, Documents[b]))
  BY AddedIsChild
<1>2. NodeInv' /\ Values!Becomes(a, Values!AddChild(Documents[a], name, Documents[b]))
  BY <1>1, SameOperators, MadeIsBecome
<1>3. Values!IsContainer(Documents[a])
  BY <1>1, DocumentOf DEF Values!IsContainer, Values!ContainerType
<1> QED BY <1>2, <1>3 DEF Values!AddOne

\* The other's children more.
LEMMA AppendedAreAppended ==
  ASSUME NodeInv, ~looped', NEW a \in Handle, NEW b \in Handle, AppendNode(a, b)
  PROVE  NodeInv' /\ Values!AppendAll(a)
<1>1. /\ KindOf(a) \in {"object", "array"} /\ KindOf(a) = KindOf(b)
      /\ Makes(a, [Documents[a] EXCEPT !.children = Documents[a].children \o Documents[b].children])
  BY AppendedAreChildren
<1>2. NodeInv' /\ Values!Becomes(a, [Documents[a] EXCEPT !.children = Documents[a].children \o Documents[b].children])
  BY <1>1, MadeIsBecome
<1>3. Values!IsContainer(Documents[a]) /\ Documents[b].type = Documents[a].type
  BY <1>1, DocumentOf DEF Values!IsContainer, Values!ContainerType
<1> QED BY <1>2, <1>3 DEF Values!AppendAll

\* One child less.
LEMMA ErasedIsErased ==
  ASSUME NodeInv, ~looped', NEW a \in Handle, NEW i \in DOMAIN ChildrenOf(a), MayDetach(a), Erase(a, i)
  PROVE  NodeInv' /\ Values!RemoveOne(a)
<1>1. /\ i \in DOMAIN Documents[a].children
      /\ Makes(a, [Documents[a] EXCEPT !.children = RemoveAt(Documents[a].children, i)])
  BY ErasedIsRemoved
<1>2. NodeInv' /\ Values!Becomes(a, [Documents[a] EXCEPT !.children = Values!RemoveAt(Documents[a].children, i)])
  BY <1>1, SameOperators, MadeIsBecome
<1> QED BY <1>1, <1>2 DEF Values!RemoveOne, Values!Indices

\* The first of a name is one of them.
LEMMA FirstOfName ==
  ASSUME NodeInv, NEW a \in Handle, NEW name, WithName(a, name) # {}
  PROVE  FirstOf(WithName(a, name)) \in DOMAIN ChildrenOf(a)
<1>1. ChildrenOf(a) \in Seq(ChildRef)
  BY DocumentOf
<1>2. WithName(a, name) \subseteq Nat /\ WithName(a, name) \subseteq DOMAIN ChildrenOf(a)
  BY <1>1 DEF WithName
<1> QED BY <1>2, FirstIsLeast

\* The child of a name, or none: the node is itself then, with its own data.
LEMMA NameIsErased ==
  ASSUME NodeInv, ~looped', NEW a \in Handle, NEW name, RemoveName(a, name)
  PROVE  NodeInv' /\ (Values!RemoveOne(a) \/ UNCHANGED Documents)
<1>1. KindOf(a) = "object" /\ MayDetach(a)
  BY DEF RemoveName
<1>2. CASE WithName(a, name) # {}
  <2> DEFINE i == FirstOf(WithName(a, name))
  <2>1. i \in DOMAIN ChildrenOf(a) /\ Erase(a, i)
    BY <1>2, FirstOfName DEF RemoveName
  <2> HIDE DEF i
  <2> QED BY <1>1, <2>1, ErasedIsErased
<1>3. CASE WithName(a, name) = {}
  <2>1. data[a] # NoData
    BY <1>1 DEF KindOf
  <2>2. data' = [data EXCEPT ![a] = Detach(a).cell] /\ heap' = Detach(a).heap
    BY <1>3 DEF RemoveName
  <2>3. Makes(a, Documents[a])
    BY <1>1, <2>1, <2>2, DetachedIsSame
  <2>4. [Documents EXCEPT ![a] = Documents[a]] = Documents
    BY DEF Documents
  <2> QED BY <2>3, <2>4 DEF Makes
<1> QED BY <1>2, <1>3

\* No children.
LEMMA ClearedIsCleared ==
  ASSUME NodeInv, ~looped', NEW a \in Handle, Clear(a)
  PROVE  NodeInv' /\ Values!Empty(a)
<1>1. NodeInv' /\ Values!Becomes(a, [Documents[a] EXCEPT !.children = <<>>])
  BY ClearedIsEmpty, MadeIsBecome
<1> QED BY <1>1 DEF Values!Empty

\* What is got at an index is the other's child there.
LEMMA GotIsGot ==
  ASSUME NodeInv, ~looped', NEW a \in Handle, NEW b \in Handle, NEW i \in DOMAIN ChildrenOf(b),
         Get(a, ChildrenOf(b)[i].cell)
  PROVE  NodeInv' /\ Values!GetAt(a)
<1> DEFINE c == ChildrenOf(b)[i].cell
<1>1. data[b] # NoData /\ data[b] \in Ref
  <2>1. data[b] # NoData
    BY DEF ChildrenOf
  <2>2. data[b] \in Ref
    BY DocumentOf
  <2> QED BY <2>1, <2>2
<1>2. data[b] \in Cell /\ ChildrenOf(b) = heap[data[b]].children
  BY <1>1 DEF ChildrenOf, Ref
<1>3. c \in Ref /\ (c \in Cell => heap[c] # Freed)
  BY <1>2, LivingIsReferred DEF NodeInv
<1>4. Makes(a, ValuesIn(heap)[c])
  <2> HIDE DEF c
  <2>1. Get(a, c)
    BY DEF c
  <2> QED BY <1>3, <2>1, GotIsCopied
<1>5. Documents[b].children = NodesOf(ChildrenOf(b), ValuesIn(heap))
  BY DocumentOf
<1>6. i \in DOMAIN Documents[b].children /\ Documents[b].children[i].node = ValuesIn(heap)[c]
  BY <1>5 DEF NodesOf, Child
<1>7. NodeInv' /\ Values!Becomes(a, Documents[b].children[i].node)
  BY <1>4, <1>6, MadeIsBecome
<1> QED BY <1>6, <1>7 DEF Values!GetAt, Values!Indices

\* The other's first child of another name; a node that has none gives one that is not valid.
LEMMA NameIsGot ==
  ASSUME NodeInv, ~looped', NEW a \in Handle, NEW b \in Handle, NEW name, GetName(a, b, name)
  PROVE  NodeInv' /\ (Values!GetAt(a) \/ Values!Destroy(a))
<1>1. CASE WithOtherName(b, name) # {}
  <2> DEFINE i == FirstOf(WithOtherName(b, name))
  <2>1. i \in DOMAIN ChildrenOf(b) /\ Get(a, ChildrenOf(b)[i].cell)
    <3>1. ChildrenOf(b) \in Seq(ChildRef)
      BY DocumentOf
    <3>2. WithOtherName(b, name) \subseteq Nat /\ WithOtherName(b, name) \subseteq DOMAIN ChildrenOf(b)
      BY <3>1 DEF WithOtherName
    <3> QED BY <1>1, <3>2, FirstIsLeast DEF GetName
  <2> HIDE DEF i
  <2> QED BY <2>1, GotIsGot
<1>2. CASE WithOtherName(b, name) = {}
  <2>1. Get(a, NoData) /\ NoData \in Ref /\ NoData \notin Cell
    BY <1>2 DEF GetName, Ref, Cell, NoData
  <2>2. ValuesIn(heap)[NoData] = Invalid
    BY ValueOfNothing DEF NodeInv, Well
  <2>3. Makes(a, Invalid)
    BY <2>1, <2>2, GotIsCopied
  <2>4. NodeInv' /\ Values!Becomes(a, Values!Invalid)
    BY <2>3, SameOperators, MadeIsBecome
  <2> QED BY <2>4 DEF Values!Destroy
<1> QED BY <1>1, <1>2

-----------------------------------------------------------------------------
(* The theorems.                                                           *)

\* Each operation keeps the invariant, and is a step of the values or none.
LEMMA OperationStep ==
  ASSUME NodeInv, ~looped', NEW a \in Handle, NEW b \in Handle,
         Operation(a, b) \/ \E name \in Name : a # b /\ Add(a, name, b)
  PROVE  NodeInv' /\ [Values!ValueNext]_Documents
<1> DEFINE Step == \/ Values!Build(a) \/ Values!Assign(a) \/ Values!GetAt(a) \/ Values!Destroy(a)
                   \/ Values!MakeValue(a) \/ Values!Overwrite(a) \/ Values!AddOne(a)
                   \/ Values!AppendAll(a) \/ Values!RemoveOne(a) \/ Values!Empty(a)
                   \/ UNCHANGED Documents
<1>1. Step => [Values!ValueNext]_Documents
  BY DEF Values!ValueNext
<1>2. CASE \E type \in {"object", "array"} : NewContainer(a, type)
  <2>1. NodeInv' /\ Values!Build(a)
    BY <1>2, NewContainerIsBuilt
  <2> QED BY <2>1, <1>1
<1>3. CASE \E literal \in Literal : NewValue(a, literal)
  <2>1. NodeInv' /\ Values!MakeValue(a)
    BY <1>3, NewValueIsMade
  <2> QED BY <2>1, <1>1
<1>4. CASE \E literal \in Literal : SetNode(a, literal)
  <2>1. NodeInv' /\ Values!Overwrite(a)
    BY <1>4, SetIsOverwritten
  <2> QED BY <2>1, <1>1
<1>5. CASE AssignNode(a, b)
  <2>1. NodeInv' /\ Values!Assign(a)
    BY <1>5, AssignedIsAssigned
  <2> QED BY <2>1, <1>1
<1>6. CASE DestroyNode(a)
  <2>1. NodeInv' /\ Values!Destroy(a)
    BY <1>6, DestroyedIsDestroyed
  <2> QED BY <2>1, <1>1
<1>7. CASE \E name \in Name : a # b /\ Add(a, name, b)
  <2>1. NodeInv' /\ Values!AddOne(a)
    BY <1>7, AddedIsAdded
  <2> QED BY <2>1, <1>1
<1>8. CASE AppendNode(a, b)
  <2>1. NodeInv' /\ Values!AppendAll(a)
    BY <1>8, AppendedAreAppended
  <2> QED BY <2>1, <1>1
<1>9. CASE \E i \in 1..MaxChildren : RemoveIndex(a, i)
  <2>1. PICK i \in DOMAIN ChildrenOf(a) : MayDetach(a) /\ Erase(a, i)
    BY <1>9 DEF RemoveIndex
  <2>2. NodeInv' /\ Values!RemoveOne(a)
    BY <2>1, ErasedIsErased
  <2> QED BY <2>2, <1>1
<1>10. CASE \E i \in 1..MaxChildren : GetIndex(a, b, i)
  <2>1. PICK i \in DOMAIN ChildrenOf(b) : Get(a, ChildrenOf(b)[i].cell)
    BY <1>10 DEF GetIndex
  <2>2. NodeInv' /\ Values!GetAt(a)
    BY <2>1, GotIsGot
  <2> QED BY <2>2, <1>1
<1>11. CASE \E name \in Name : RemoveName(a, name)
  <2>1. NodeInv' /\ (Values!RemoveOne(a) \/ UNCHANGED Documents)
    BY <1>11, NameIsErased
  <2> QED BY <2>1, <1>1
<1>12. CASE \E name \in Name \cup {<<>>} : GetName(a, b, name)
  <2>1. NodeInv' /\ (Values!GetAt(a) \/ Values!Destroy(a))
    BY <1>12, NameIsGot
  <2> QED BY <2>1, <1>1
<1>13. CASE Clear(a)
  <2>1. NodeInv' /\ Values!Empty(a)
    BY <1>13, ClearedIsCleared
  <2> QED BY <2>1, <1>1
<1> QED BY <1>2, <1>3, <1>4, <1>5, <1>6, <1>7, <1>8, <1>9, <1>10, <1>11, <1>12, <1>13 DEF Operation

\* A node is added to itself: there are no values any more.
LEMMA LoopedStep ==
  ASSUME NodeInv, NEW a \in Handle, NEW name \in Name, Add(a, name, a), looped'
  PROVE  Values!AddToItself
<1>1. Values!IsContainer(Documents[a])
  <2>1. KindOf(a) \in {"object", "array"}
    BY DEF Add, IsContainerNode
  <2> QED BY <2>1, DocumentOf DEF Values!IsContainer, Values!ContainerType
<1>2. Documents' = [h \in Handle |-> Values!Endless]
  BY SameOperators DEF Documents
<1> QED BY <1>1, <1>2 DEF Values!AddToItself

\* What is kept: once a node was added to itself, nothing is promised any more.
NodePromise == looped \in BOOLEAN /\ (looped \/ NodeInv)

\* Each step of the nodes keeps the promise, and is a step of the values or none.
LEMMA NodeStep ==
  ASSUME NodePromise, [NodeNext]_nodeVars
  PROVE  NodePromise' /\ [Values!ValueNext]_Documents
<1>1. CASE UNCHANGED nodeVars
  <2>1. Documents' = Documents /\ NodePromise'
    BY <1>1 DEF nodeVars, Documents, NodeInv, NodePromise
  <2> QED BY <2>1
<1>2. CASE looped /\ NodeNext
  <2>1. looped' = TRUE /\ looped = TRUE
    BY <1>2 DEF NodeNext, NodePromise
  <2>2. Documents' = Documents
    BY <2>1 DEF Documents
  <2> QED BY <2>1, <2>2 DEF NodePromise
<1>3. CASE ~looped /\ NodeNext
  <2>1. PICK a \in Handle, b \in Handle :
          \/ Operation(a, b) /\ UNCHANGED looped
          \/ \E name \in Name : Add(a, name, b) /\ looped' = (looped \/ a = b)
    BY <1>3 DEF NodeNext
  <2>2. NodeInv /\ looped = FALSE
    BY <1>3 DEF NodePromise
  <2>3. CASE Operation(a, b) /\ UNCHANGED looped
    <3>1. ~looped' /\ looped' \in BOOLEAN
      BY <2>2, <2>3
    <3> QED BY <2>2, <2>3, <3>1, OperationStep DEF NodePromise
  <2>4. CASE \E name \in Name : Add(a, name, b) /\ looped' = (looped \/ a = b)
    <3>1. PICK name \in Name : Add(a, name, b) /\ looped' = (looped \/ a = b)
      BY <2>4
    <3>2. CASE a # b
      <4>1. ~looped' /\ looped' \in BOOLEAN
        BY <2>2, <3>1, <3>2
      <4> QED BY <2>2, <3>1, <3>2, <4>1, OperationStep DEF NodePromise
    <3>3. CASE a = b
      <4>1. looped' /\ looped' \in BOOLEAN
        BY <2>2, <3>1, <3>3
      <4>2. Values!AddToItself
        BY <2>2, <3>1, <3>3, <4>1, LoopedStep
      <4> QED BY <4>1, <4>2 DEF NodePromise, Values!ValueNext
    <3> QED BY <3>2, <3>3
  <2> QED BY <2>1, <2>3, <2>4
<1> QED BY <1>1, <1>2, <1>3

\* At first no node refers to anything, and all cells are free.
LEMMA NodeStart ==
  ASSUME NodeInit
  PROVE  NodePromise /\ Values!ValueInit
<1>1. data = [a \in Handle |-> NoData] /\ heap = [c \in Cell |-> Freed] /\ looped = FALSE
  BY DEF NodeInit
<1>2. Freed \in Data /\ Freed.refs = 0 /\ Freed.children = <<>> /\ Freed.type = "freed"
  BY DEF Freed, Data, NodeType, NodeText
<1>3. HeapOK(heap)
  <2>1. Len(<<>>) <= MaxChildren
    BY BoundsAreNumbers
  <2> QED BY <1>1, <1>2, <2>1 DEF HeapOK
<1>4. Counted(data, heap, Nothing)
  <2>1. SUFFICES ASSUME NEW c \in Cell
                 PROVE  /\ heap[c].refs = Cardinality(Holders(data, c)) + References(heap, Cell, c) + Nothing[c]
                        /\ heap[c] = Freed <=> heap[c].refs = 0
    BY DEF Counted
  <2>2. Holders(data, c) = {}
    BY <1>1 DEF Holders, Cell, NoData
  <2>3. Places(heap, Cell, c) = {}
    BY <1>1, <1>2 DEF Places
  <2>4. Cardinality(Holders(data, c)) = 0 /\ References(heap, Cell, c) = 0 /\ Nothing[c] = 0
    BY <2>2, <2>3, FS_EmptySet DEF References, Nothing
  <2>5. heap[c] = Freed
    BY <1>1
  <2> QED BY <1>2, <2>4, <2>5
<1>5. Acyclic(heap)
  <2> DEFINE rank == [c \in Cell |-> 0]
  <2>1. rank \in [Cell -> 0..MaxCell]
    BY BoundsAreNumbers
  <2>2. \A c \in Cell : heap[c].children = <<>>
    BY <1>1, <1>2
  <2> HIDE DEF rank
  <2> QED BY <2>1, <2>2 DEF Acyclic
<1>6. NodeInv
  BY <1>1, <1>3, <1>4, <1>5, OneOfNothing DEF NodeInv, Well, Ref
<1>7. ValuesIn(heap)[NoData] = Invalid
  BY <1>3, <1>5, ValueOfNothing
<1>8. Values!ValueInit
  BY <1>1, <1>7, SameOperators DEF Values!ValueInit, Documents
<1> QED BY <1>1, <1>6, <1>8 DEF NodePromise

\* What a program can reach is not deleted: what is not deleted refers to what is not.
LEMMA UsedIsKept ==
  ASSUME NodeInv, NEW c \in Cell, Used(c)
  PROVE  heap[c] # Freed
<1> DEFINE S == {d \in Cell : heap[d] # Freed}
<1>1. /\ \A a \in Handle : data[a] \in Cell => data[a] \in S
      /\ \A d \in S : \A i \in DOMAIN heap[d].children :
           heap[d].children[i].cell \in Cell => heap[d].children[i].cell \in S
  BY LivingIsReferred DEF NodeInv
<1>2. S \in SUBSET Cell
  OBVIOUS
<1>3. c \in S
  <2> HIDE DEF S
  <2> QED BY <1>1, <1>2 DEF Used
<1> QED BY <1>3

\* What is not deleted can be reached: something refers to it, and as no data is part of itself
\* one of the nodes that a program holds is at the beginning.
LEMMA KeptIsUsed ==
  ASSUME NodeInv, NEW c \in Cell, heap[c] # Freed
  PROVE  Used(c)
<1>1. SUFFICES ASSUME NEW S \in SUBSET Cell,
                      \A a \in Handle : data[a] \in Cell => data[a] \in S,
                      \A d \in S : \A i \in DOMAIN heap[d].children :
                        heap[d].children[i].cell \in Cell => heap[d].children[i].cell \in S,
                      c \notin S
               PROVE  FALSE
  BY DEF Used
<1> DEFINE T == {d \in Cell \ S : heap[d] # Freed}
<1>2. PICK rank \in [Cell -> 0..MaxCell] :
        \A p \in Cell : \A i \in DOMAIN heap[p].children :
          heap[p].children[i].cell # NoData => rank[heap[p].children[i].cell] < rank[p]
  BY DEF NodeInv, Well, Acyclic
<1> DEFINE N == {MaxCell - rank[d] : d \in T}
<1>3. PICK d \in T : \A p \in T : rank[p] <= rank[d]
  <2>1. \A p \in T : rank[p] \in 0..MaxCell
    BY <1>2
  <2>2. N \subseteq Nat /\ N # {}
    BY <1>1, <2>1, BoundsAreNumbers
  <2>3. PICK n \in N : \A m \in N : n <= m
    <3> HIDE DEF N
    <3> QED BY <2>2, FirstIsLeast
  <2>4. PICK d \in T : n = MaxCell - rank[d]
    BY <2>3
  <2>5. ASSUME NEW p \in T PROVE rank[p] <= rank[d]
    <3>1. MaxCell - rank[d] <= MaxCell - rank[p]
      BY <2>3, <2>4, <2>5
    <3>2. rank[p] \in Nat /\ rank[d] \in Nat
      BY <2>1, <2>4, <2>5, BoundsAreNumbers
    <3> QED BY <3>1, <3>2, BoundsAreNumbers
  <2> QED BY <2>4, <2>5
<1>4. d \in Cell /\ d # NoData /\ d \notin S /\ heap[d] # Freed
  BY <1>3 DEF Cell, NoData
<1>5. HeapOK(heap) /\ heap[d].refs # 0
      /\ heap[d].refs = Cardinality(Holders(data, d)) + References(heap, Cell, d)
  <2>1. /\ heap[d].refs = Cardinality(Holders(data, d)) + References(heap, Cell, d) + Nothing[d]
        /\ heap[d] = Freed <=> heap[d].refs = 0
        /\ HeapOK(heap)
    BY <1>4 DEF NodeInv, Well, Counted
  <2>2. Cardinality(Holders(data, d)) \in Nat /\ References(heap, Cell, d) \in Nat /\ Nothing[d] = 0
    BY <1>4, <2>1, PlacesAreFinite, HoldersAreCounted DEF Nothing
  <2> QED BY <1>4, <2>1, <2>2
<1>6. Cardinality(Holders(data, d)) = 0
  BY <1>1, <1>4, HoldersAreCounted
<1>7. References(heap, Cell, d) # 0
  BY <1>5, <1>6
<1>8. PICK p \in Cell : \E i \in DOMAIN heap[p].children : heap[p].children[i].cell = d
  BY <1>5, <1>7, Unreferenced
<1>9. PICK i \in DOMAIN heap[p].children : heap[p].children[i].cell = d
  BY <1>8
<1>10. p \notin S
  BY <1>1, <1>4, <1>9
<1>11. heap[p] # Freed
  BY <1>9 DEF Freed
<1>12. p \in T /\ rank[d] < rank[p]
  BY <1>2, <1>4, <1>9, <1>10, <1>11
<1>13. rank[p] <= rank[d] /\ rank[p] \in Nat /\ rank[d] \in Nat
  BY <1>2, <1>3, <1>4, <1>12, BoundsAreNumbers
<1> QED BY <1>12, <1>13

\* The inductive invariant: types, the count of each datum, and no datum part of itself, until a
\* node is added to itself (Node::Add with itself for an argument).
THEOREM NodesAreWell == NodeSpec => []NodePromise
<1>1. NodeInit => NodePromise
  BY NodeStart
<1>2. NodePromise /\ [NodeNext]_nodeVars => NodePromise'
  BY NodeStep
<1> QED BY <1>1, <1>2, PTL DEF NodeSpec

\* Nodes refer to data or to nothing, and only objects and arrays have children.
THEOREM NodesHaveTypes == NodeSpec => [](~looped => NodeTypeOK)
<1>1. NodePromise => (~looped => NodeTypeOK)
  BY DEF NodePromise, NodeInv, Well, NodeTypeOK, Ref
<1> QED BY <1>1, NodesAreWell, PTL

\* As long as no node was added to itself, data is deleted with the last node that refers to
\* it (release), never before, and never left behind: it is there as long as a program can
\* reach it.
THEOREM DataIsKeptWhileUsed == NodeSpec => [](~looped => KeptWhileUsed)
<1>1. NodeInv => KeptWhileUsed
  <2>1. ASSUME NodeInv, NEW c \in Cell
        PROVE  heap[c].refs = Cardinality(Holders(data, c)) + References(heap, Cell, c)
    <3>1. heap[c].refs = Cardinality(Holders(data, c)) + References(heap, Cell, c) + Nothing[c]
      BY <2>1 DEF NodeInv, Well, Counted
    <3>2. Cardinality(Holders(data, c)) \in Nat /\ References(heap, Cell, c) \in Nat /\ Nothing[c] = 0
      BY <2>1, PlacesAreFinite, HoldersAreCounted DEF NodeInv, Well, Nothing
    <3> QED BY <3>1, <3>2
  <2>2. ASSUME NodeInv, NEW c \in Cell PROVE heap[c] # Freed <=> Used(c)
    BY <2>2, UsedIsKept, KeptIsUsed
  <2> QED BY <2>1, <2>2 DEF KeptWhileUsed
<1>2. NodePromise => (~looped => KeptWhileUsed)
  BY <1>1 DEF NodePromise
<1> QED BY <1>2, NodesAreWell, PTL

\* The only way to make a node its own descendant is to add it to itself: nothing else that is
\* added or appended to whatever does, so that counting references is enough without it.
THEOREM OnlyAddingToItselfLoops == NodeSpec => []NoNodeContainsItself
<1>1. NodePromise => NoNodeContainsItself
  BY DEF NodePromise, NodeInv, Well, NoNodeContainsItself
<1> QED BY <1>1, NodesAreWell, PTL

\* Copy on write is not seen: what is done through one node never changes the value of another,
\* until a node is added to itself.
THEOREM NodesAreValues == NodeSpec => ImplementsValues
<1>1. NodeInit => Values!ValueInit
  BY NodeStart
<1>2. NodePromise /\ [NodeNext]_nodeVars => [Values!ValueNext]_Documents
  BY NodeStep
<1> QED BY <1>1, <1>2, NodesAreWell, PTL DEF NodeSpec, ImplementsValues, Values!ValueSpec

-----------------------------------------------------------------------------
(* Bytes as characters.                                                    *)

Octet == 0..255
Sextet == 0..63

\* A number of six bits has a character of its own, which is neither the padding nor a dot.
LEMMA AlphabetIsDistinct ==
  ASSUME NEW v \in Sextet
  PROVE  /\ EncodingAlphabet[v] \in 0..127
         /\ EncodingAlphabet[v] # Padding
         /\ EncodingAlphabet[v] # Dot
         /\ \A w \in Sextet : EncodingAlphabet[w] = EncodingAlphabet[v] => w = v
<1>1. \A w \in Sextet : EncodingAlphabet[w] = IF w < 26 THEN 65 + w
                                            ELSE IF w < 52 THEN 97 + w - 26
                                            ELSE IF w < 62 THEN 48 + w - 52
                                            ELSE IF w = 62 THEN 43 ELSE 47
  BY SMT DEF EncodingAlphabet, Sextet
<1>2. EncodingAlphabet[v] \in 0..127 /\ EncodingAlphabet[v] # Padding /\ EncodingAlphabet[v] # Dot
  BY <1>1, SMTT(30) DEF Sextet, Padding, Dot
<1>3. \A w \in Sextet : EncodingAlphabet[w] = EncodingAlphabet[v] => w = v
  BY <1>1, SMTT(30) DEF Sextet
<1> QED BY <1>2, <1>3

\* A character stands for the number it was made of, the padding for 0; a dot is refused.
LEMMA AlphabetIsDecoded ==
  /\ \A v \in Sextet : DecodingAlphabet[EncodingAlphabet[v]] = v
  /\ DecodingAlphabet[Padding] = 0
  /\ DecodingAlphabet[Dot] = Unknown
<1>1. ASSUME NEW v \in Sextet PROVE DecodingAlphabet[EncodingAlphabet[v]] = v
  <2> DEFINE c == EncodingAlphabet[v]
  <2>1. c \in 0..127 /\ c # Padding /\ \A w \in Sextet : EncodingAlphabet[w] = c => w = v
    BY AlphabetIsDistinct
  <2>2. (CHOOSE w \in 0..63 : EncodingAlphabet[w] = c) = v
    BY <2>1 DEF Sextet
  <2>3. \E w \in 0..63 : EncodingAlphabet[w] = c
    BY DEF Sextet
  <2> QED BY <2>1, <2>2, <2>3 DEF DecodingAlphabet
<1>2. DecodingAlphabet[Padding] = 0
  BY DEF DecodingAlphabet, Padding
<1>3. DecodingAlphabet[Dot] = Unknown
  <2>1. ~\E w \in 0..63 : EncodingAlphabet[w] = Dot
    BY AlphabetIsDistinct DEF Sextet
  <2> QED BY <2>1 DEF DecodingAlphabet, Dot, Padding
<1> QED BY <1>1, <1>2, <1>3

\* The number of six bits that character k of three bytes stands for.
Six(t, k) == (t \div Shift[k]) % 64

\* A number is its quotient and its remainder.
LEMMA DivMod ==
  ASSUME NEW t \in Nat
  PROVE  /\ t \div 64 \in Nat /\ t % 64 \in Sextet /\ t = (t \div 64) * 64 + (t % 64)
         /\ t \div 256 \in Nat /\ t % 256 \in Octet /\ t = (t \div 256) * 256 + (t % 256)
BY SMT DEF Sextet, Octet

\* Three bytes are the four numbers of six bits, and the numbers the bytes.
LEMMA SixesMakeBytes ==
  ASSUME NEW a \in Octet, NEW b \in Octet, NEW c \in Octet
  PROVE  LET t == Triplet(a, b, c)
         IN  /\ t \in Nat
             /\ \A k \in 1..4 : Six(t, k) \in Sextet
             /\ ((Six(t, 1) * 64 + Six(t, 2)) * 64 + Six(t, 3)) * 64 + Six(t, 4) = t
             /\ t \div 65536 = a
             /\ (t \div 256) % 256 = b
             /\ t % 256 = c
<1> DEFINE t == Triplet(a, b, c)
           u == a * 256 + b
<1>1. t \in Nat /\ u \in Nat /\ t = u * 256 + c /\ a \in Nat
  BY SMT DEF Triplet, Octet
<1>2. t \div 256 = u /\ t % 256 = c /\ u \div 256 = a /\ u % 256 = b
  <2> HIDE DEF t
  <2> QED BY <1>1, SMT DEF Octet
<1>3. t \div 65536 = (t \div 256) \div 256
  <2> HIDE DEF t
  <2> QED BY <1>1, SMT
<1> DEFINE p == t \div 64
           q == p \div 64
           r == q \div 64
<1>4. p \in Nat /\ q \in Nat /\ r \in Nat /\ r < 64
  <2> HIDE DEF t
  <2> QED BY <1>1, SMT DEF Octet
<1>5. Six(t, 1) = r % 64 /\ Six(t, 2) = q % 64 /\ Six(t, 3) = p % 64 /\ Six(t, 4) = t % 64
  <2>1. Shift[1] = 262144 /\ Shift[2] = 4096 /\ Shift[3] = 64 /\ Shift[4] = 1
    BY SMT DEF Shift
  <2>2. t \div 262144 = r /\ t \div 4096 = q /\ t \div 1 = t
    <3> HIDE DEF t
    <3> QED BY <1>1, SMT
  <2> HIDE DEF t, p, q, r
  <2> QED BY <2>1, <2>2, SMT DEF Six, p
<1>6. r % 64 = r /\ r * 64 + (q % 64) = q /\ q * 64 + (p % 64) = p /\ p * 64 + (t % 64) = t
  <2> HIDE DEF t
  <2> QED BY <1>1, <1>4, SMT
<1>7. r % 64 \in Sextet /\ q % 64 \in Sextet /\ p % 64 \in Sextet /\ t % 64 \in Sextet
  <2>1. \A x \in Nat : x % 64 \in Sextet
    BY DivMod
  <2> HIDE DEF t, p, q, r
  <2> QED BY <1>1, <1>4, <2>1
<1>8. \A k \in 1..4 : Six(t, k) \in Sextet
  <2> HIDE DEF t, p, q, r
  <2> QED BY <1>5, <1>7, SMT
<1>9. ((Six(t, 1) * 64 + Six(t, 2)) * 64 + Six(t, 3)) * 64 + Six(t, 4) = t
  <2> HIDE DEF t, p, q, r
  <2> QED BY <1>4, <1>5, <1>6, SMT
<1> QED BY <1>1, <1>2, <1>3, <1>8, <1>9

\* A function on the first numbers is a sequence.
LEMMA FunctionIsSequence ==
  ASSUME NEW S, NEW n \in Nat, NEW f \in [1..n -> S]
  PROVE  f \in Seq(S) /\ Len(f) = n
<1>1. f \in Seq(S)
  BY SeqDef
<1>2. Len(f) \in Nat /\ 1..Len(f) = 1..n
  BY <1>1, LenProperties
<1> QED BY <1>1, <1>2, SMT

-----------------------------------------------------------------------------
(* The groups of four characters and of three bytes.                       *)

\* The bytes, and noughts behind them.
Part(bytes, i) == IF i <= Len(bytes) THEN bytes[i] ELSE 0
Groups(n) == (n + 2) \div 3
TripletOf(bytes, g) == Triplet(Part(bytes, 3 * g - 2), Part(bytes, 3 * g - 1), Part(bytes, 3 * g))
FourOf(bytes, g) == IF 3 * g <= Len(bytes) THEN EncodeThree(SubSeq(bytes, 3 * g - 2, 3 * g))
                    ELSE EncodeLast(SubSeq(bytes, 3 * g - 2, Len(bytes)))

\* The last group, and it alone, may lack bytes, one or two.
LEMMA GroupsAreFull ==
  ASSUME NEW n \in Nat
  PROVE  /\ Groups(n) \in Nat
         /\ 3 * Groups(n) \in n..(n + 2)
         /\ \A g \in 1..Groups(n) : 3 * g - 2 <= n /\ (3 * g > n => g = Groups(n))
BY SMT DEF Groups

\* Noughts behind the bytes are bytes.
LEMMA PartsAreBytes ==
  ASSUME NEW bytes \in Seq(Octet), NEW i \in Nat \ {0}
  PROVE  Part(bytes, i) \in Octet
<1>1. Len(bytes) \in Nat /\ (i <= Len(bytes) => bytes[i] \in Octet) /\ 0 \in Octet
  <2>1. Len(bytes) \in Nat
    BY LenProperties
  <2>2. i <= Len(bytes) => bytes[i] \in Octet
    BY <2>1, ElementOfSeq
  <2> QED BY <2>1, <2>2, SMT DEF Octet
<1> QED BY <1>1 DEF Part

\* The three bytes of a group.
LEMMA TripletIsThree ==
  ASSUME NEW bytes \in Seq(Octet), NEW g \in Nat \ {0}
  PROVE  /\ Part(bytes, 3 * g - 2) \in Octet /\ Part(bytes, 3 * g - 1) \in Octet /\ Part(bytes, 3 * g) \in Octet
         /\ TripletOf(bytes, g) \in Nat
         /\ \A k \in 1..4 : Six(TripletOf(bytes, g), k) \in Sextet
<1>1. 3 * g - 2 \in Nat \ {0} /\ 3 * g - 1 \in Nat \ {0} /\ 3 * g \in Nat \ {0}
  BY SMT
<1>2. Part(bytes, 3 * g - 2) \in Octet /\ Part(bytes, 3 * g - 1) \in Octet /\ Part(bytes, 3 * g) \in Octet
  BY <1>1, PartsAreBytes
<1> QED BY <1>2, SixesMakeBytes DEF TripletOf

\* A group has the characters of its three bytes, and padding for the bytes that it lacks.
LEMMA FourHasCharacters ==
  ASSUME NEW bytes \in Seq(Octet), NEW g \in 1..Groups(Len(bytes)), NEW k \in 1..4
  PROVE  FourOf(bytes, g)[k] = IF 4 * g - 4 + k > Groups(Len(bytes)) + Len(bytes) THEN Padding
                               ELSE EncodingAlphabet[Six(TripletOf(bytes, g), k)]
<1> DEFINE n == Len(bytes)
           G == Groups(n)
           t == TripletOf(bytes, g)
<1>1. n \in Nat /\ G \in Nat /\ 3 * G \in n..(n + 2) /\ g \in 1..G /\ 3 * g - 2 <= n /\ (3 * g > n => g = G)
  <2>1. n \in Nat
    BY LenProperties
  <2> QED BY <2>1, GroupsAreFull
<1>2. CASE 3 * g <= n
  <2> DEFINE s == SubSeq(bytes, 3 * g - 2, 3 * g)
  <2>1. \A i \in (3 * g - 2)..(3 * g) : bytes[i] \in Octet
    BY <1>1, <1>2, SMT
  <2>2. s[1] = bytes[3 * g - 2] /\ s[2] = bytes[3 * g - 1] /\ s[3] = bytes[3 * g]
    <3>1. \A i \in 1..3 : s[i] = bytes[3 * g - 2 + i - 1]
      <4>1. 3 * g - 2 \in Int /\ 3 * g \in Int /\ 3 * g - (3 * g - 2) + 1 = 3
        BY SMT
      <4> QED BY <2>1, <4>1, SubSeqProperties
    <3> HIDE DEF s
    <3> QED BY <3>1, SMT
  <2>3. Triplet(s[1], s[2], s[3]) = t
    <3>1. Part(bytes, 3 * g - 2) = bytes[3 * g - 2] /\ Part(bytes, 3 * g - 1) = bytes[3 * g - 1]
          /\ Part(bytes, 3 * g) = bytes[3 * g]
      BY <1>1, <1>2, SMT DEF Part
    <3> QED BY <2>2, <3>1 DEF TripletOf
  <2>4. FourOf(bytes, g) = [j \in 1..4 |-> Character(t, j)]
    BY <1>2, <2>3 DEF FourOf, EncodeThree
  <2>5. ~(4 * g - 4 + k > G + n)
    <3> HIDE DEF G, n
    <3> QED BY <1>1, <1>2, SMT
  <2> QED BY <2>4, <2>5 DEF Character, Six
<1>3. CASE 3 * g > n
  <2> DEFINE s == SubSeq(bytes, 3 * g - 2, n)
  <2>1. \A i \in (3 * g - 2)..n : bytes[i] \in Octet
    BY <1>1, SMT
  <2>2. Len(s) = n - (3 * g - 2) + 1 /\ Len(s) \in 1..2
    <3>1. 3 * g - 2 \in Int /\ n \in Int /\ 3 * g - 2 <= n
      BY <1>1, SMT
    <3>2. Len(s) = n - (3 * g - 2) + 1
      BY <2>1, <3>1, SubSeqProperties
    <3>3. n - (3 * g - 2) + 1 \in 1..2
      <4>1. n \in Nat /\ g \in Nat
        BY <1>1, SMT
      <4> HIDE DEF n
      <4> QED BY <1>3, <3>1, <4>1, SMTT(30)
    <3> QED BY <3>2, <3>3
  <2>3. \A i \in 1..Len(s) : s[i] = bytes[3 * g - 2 + i - 1]
    <3>1. 3 * g - 2 \in Int /\ n \in Int
      BY <1>1, SMT
    <3> QED BY <2>1, <2>2, <3>1, SubSeqProperties
  <2>4. s[1] = bytes[3 * g - 2] /\ (Len(s) = 2 => s[2] = bytes[3 * g - 1])
    <3> HIDE DEF s
    <3> QED BY <2>2, <2>3, SMT
  <2>5. Part(bytes, 3 * g - 2) = bytes[3 * g - 2] /\ Part(bytes, 3 * g) = 0
        /\ Part(bytes, 3 * g - 1) = IF Len(s) = 2 THEN bytes[3 * g - 1] ELSE 0
    <3>1. 3 * g - 2 <= n /\ ~(3 * g <= n) /\ (3 * g - 1 <= n <=> Len(s) = 2)
      <4>1. n \in Nat /\ g \in Nat
        BY <1>1, SMT
      <4> HIDE DEF n, s
      <4> QED BY <1>1, <1>3, <2>2, <4>1, SMTT(30)
    <3> HIDE DEF s
    <3> QED BY <3>1 DEF Part
  <2>6. Triplet(s[1], IF Len(s) = 2 THEN s[2] ELSE 0, 0) = t
    BY <2>4, <2>5 DEF TripletOf
  <2>7. FourOf(bytes, g) = [j \in 1..4 |-> IF j = 4 \/ (j = 3 /\ Len(s) = 1) THEN Padding ELSE Character(t, j)]
    <3>1. ~(3 * g <= n)
      BY <1>1, <1>3, SMT
    <3>2. FourOf(bytes, g) = EncodeLast(s)
      BY <3>1 DEF FourOf
    <3> HIDE DEF s, t
    <3> QED BY <2>6, <3>2 DEF EncodeLast
  <2>8. (4 * g - 4 + k > G + n) <=> (k = 4 \/ (k = 3 /\ Len(s) = 1))
    <3> HIDE DEF G, n, s
    <3> QED BY <1>1, <1>3, <2>2, SMT
  <2> HIDE DEF s
  <2> QED BY <2>7, <2>8 DEF Character, Six
<1> QED BY <1>1, <1>2, <1>3

\* Padding stands for six noughts.
LEMMA PaddingIsNought ==
  ASSUME NEW bytes \in Seq(Octet), NEW g \in 1..Groups(Len(bytes)), NEW k \in 1..4,
         4 * g - 4 + k > Groups(Len(bytes)) + Len(bytes)
  PROVE  Six(TripletOf(bytes, g), k) = 0
<1> DEFINE n == Len(bytes)
           G == Groups(n)
           a == Part(bytes, 3 * g - 2)
           b == Part(bytes, 3 * g - 1)
           c == Part(bytes, 3 * g)
<1>1. n \in Nat /\ G \in Nat /\ 3 * G \in n..(n + 2) /\ g \in 1..G /\ 3 * g - 2 <= n /\ (3 * g > n => g = G)
  <2>1. n \in Nat
    BY LenProperties
  <2> QED BY <2>1, GroupsAreFull
<1>2. k \in {3, 4} /\ 3 * g > n /\ (k = 3 => 3 * g - 1 > n)
  <2>1. 4 * g - 4 + k > G + n
    OBVIOUS
  <2> HIDE DEF G, n
  <2> QED BY <1>1, <2>1, SMT
<1>3. c = 0 /\ (k = 3 => b = 0) /\ a \in Octet /\ b \in Octet
  <2>1. ~(3 * g <= n) /\ (k = 3 => ~(3 * g - 1 <= n))
    <3>1. n \in Nat /\ g \in Nat
      BY <1>1, SMT
    <3> HIDE DEF n
    <3> QED BY <1>2, <3>1, SMTT(30)
  <2>2. c = 0 /\ (k = 3 => b = 0)
    BY <2>1 DEF Part
  <2>3. g \in Nat \ {0}
    BY <1>1, SMT
  <2> QED BY <2>2, <2>3, TripletIsThree
<1>4. TripletOf(bytes, g) = (a * 256 + b) * 256 + c
  BY DEF TripletOf, Triplet
<1> HIDE DEF a, b, c
<1>5. CASE k = 4
  <2>1. Six(TripletOf(bytes, g), k) = (((a * 256 + b) * 256) \div 1) % 64
    BY <1>3, <1>4, <1>5, SMT DEF Six, Shift, Octet
  <2> QED BY <1>3, <2>1, SMT DEF Octet
<1>6. CASE k = 3
  <2>1. Six(TripletOf(bytes, g), k) = ((a * 256 * 256) \div 64) % 64
    BY <1>3, <1>4, <1>6, SMT DEF Six, Shift, Octet
  <2> QED BY <1>3, <2>1, SMT DEF Octet
<1> QED BY <1>2, <1>5, <1>6

\* Encoding: four characters to a group, none of them a dot; where there is padding.
LEMMA EncodeHasCharacters ==
  ASSUME NEW bytes \in Seq(Octet)
  PROVE  LET n == Len(bytes)
             G == Groups(n)
             text == EncodedText(bytes)
         IN  /\ n \in Nat /\ G \in Nat /\ 3 * G \in n..(n + 2)
             /\ text \in Seq(0..127) /\ Len(text) = 4 * G /\ DOMAIN text = 1..(4 * G)
             /\ \A g \in 1..G, k \in 1..4 : text[4 * g - 4 + k] = FourOf(bytes, g)[k]
             /\ \A i \in 1..(4 * G) : /\ text[i] # Dot
                                      /\ text[i] = Padding <=> i > G + n
                                      /\ DecodingAlphabet[text[i]] # Unknown
<1> DEFINE n == Len(bytes)
           G == Groups(n)
           text == EncodedText(bytes)
<1>1. n \in Nat /\ G \in Nat /\ 3 * G \in n..(n + 2)
  <2>1. n \in Nat
    BY LenProperties
  <2> QED BY <2>1, GroupsAreFull
<1>2. text = [i \in 1..(4 * G) |-> FourOf(bytes, (i - 1) \div 4 + 1)[((i - 1) % 4) + 1]]
  BY DEF EncodedText, ExpectedLength, FourOf, Groups
<1>3. \A i \in 1..(4 * G) : \E g \in 1..G, k \in 1..4 : i = 4 * g - 4 + k
  <2> SUFFICES ASSUME NEW i \in 1..(4 * G) PROVE \E g \in 1..G, k \in 1..4 : i = 4 * g - 4 + k
    OBVIOUS
  <2>1. (i - 1) \div 4 + 1 \in 1..G /\ ((i - 1) % 4) + 1 \in 1..4
        /\ i = 4 * ((i - 1) \div 4 + 1) - 4 + (((i - 1) % 4) + 1)
    <3> HIDE DEF G, n
    <3> QED BY <1>1, SMT
  <2> QED BY <2>1
<1>4. \A g \in 1..G, k \in 1..4 : text[4 * g - 4 + k] = FourOf(bytes, g)[k]
  <2> SUFFICES ASSUME NEW g \in 1..G, NEW k \in 1..4 PROVE text[4 * g - 4 + k] = FourOf(bytes, g)[k]
    OBVIOUS
  <2>1. 4 * g - 4 + k \in 1..(4 * G) /\ (4 * g - 4 + k - 1) \div 4 + 1 = g /\ ((4 * g - 4 + k - 1) % 4) + 1 = k
    <3> HIDE DEF G, n
    <3> QED BY <1>1, SMT
  <2> HIDE DEF text, G
  <2> QED BY <1>2, <2>1
<1>5. \A i \in 1..(4 * G) : \/ i > G + n /\ text[i] = Padding
                            \/ ~(i > G + n) /\ \E v \in Sextet : text[i] = EncodingAlphabet[v]
  <2> SUFFICES ASSUME NEW i \in 1..(4 * G)
               PROVE  \/ i > G + n /\ text[i] = Padding
                      \/ ~(i > G + n) /\ \E v \in Sextet : text[i] = EncodingAlphabet[v]
    OBVIOUS
  <2>1. PICK g \in 1..G : \E k \in 1..4 : i = 4 * g - 4 + k
    BY <1>3
  <2>2. PICK k \in 1..4 : i = 4 * g - 4 + k
    BY <2>1
  <2>3. text[i] = IF i > G + n THEN Padding ELSE EncodingAlphabet[Six(TripletOf(bytes, g), k)]
    BY <1>4, <2>2, FourHasCharacters
  <2>4. Six(TripletOf(bytes, g), k) \in Sextet
    <3>1. g \in Nat \ {0}
      BY <1>1, SMT
    <3> QED BY <3>1, TripletIsThree
  <2> QED BY <2>3, <2>4
<1>6. \A i \in 1..(4 * G) : text[i] \in 0..127 /\ text[i] # Dot /\ (text[i] = Padding <=> i > G + n)
                            /\ DecodingAlphabet[text[i]] # Unknown
  <2> SUFFICES ASSUME NEW i \in 1..(4 * G)
               PROVE  text[i] \in 0..127 /\ text[i] # Dot /\ (text[i] = Padding <=> i > G + n)
                      /\ DecodingAlphabet[text[i]] # Unknown
    OBVIOUS
  <2>1. Padding \in 0..127 /\ Padding # Dot /\ Unknown # 0
    BY DEF Padding, Dot, Unknown
  <2>2. CASE i > G + n /\ text[i] = Padding
    BY <2>1, <2>2, AlphabetIsDecoded
  <2>3. CASE ~(i > G + n) /\ \E v \in Sextet : text[i] = EncodingAlphabet[v]
    <3>1. PICK v \in Sextet : text[i] = EncodingAlphabet[v]
      BY <2>3
    <3>2. v # Unknown
      BY DEF Sextet, Unknown
    <3> HIDE DEF text, G, n
    <3> QED BY <2>3, <3>1, <3>2, AlphabetIsDistinct, AlphabetIsDecoded
  <2> QED BY <1>5, <2>2, <2>3
<1>7. DOMAIN text = 1..(4 * G) /\ Len(text) = 4 * G /\ text \in Seq(0..127)
  <2>1. DOMAIN text = 1..(4 * G) /\ text = [i \in 1..(4 * G) |-> text[i]]
    <3> HIDE DEF G
    <3> QED BY <1>2
  <2>2. 4 * G \in Nat
    BY <1>1, SMT
  <2> HIDE DEF text, G
  <2> QED BY <1>6, <2>1, <2>2, FunctionIsSequence
<1> QED BY <1>1, <1>4, <1>6, <1>7

\* Bytes have a text, of characters other than dots.
LEMMA EncodedHasText ==
  ASSUME NEW bytes \in Seq(Octet), bytes # <<>>
  PROVE  LET text == EncodedText(bytes)
         IN  text \in Seq(0..127) /\ text # <<>> /\ \A i \in DOMAIN text : text[i] # Dot
<1> DEFINE n == Len(bytes)
           G == Groups(n)
           text == EncodedText(bytes)
<1>1. /\ n \in Nat /\ G \in Nat /\ 3 * G \in n..(n + 2)
      /\ text \in Seq(0..127) /\ Len(text) = 4 * G /\ DOMAIN text = 1..(4 * G)
      /\ \A i \in 1..(4 * G) : text[i] # Dot
  BY EncodeHasCharacters
<1>2. n # 0
  BY EmptySeq
<1> HIDE DEF text, G, n
<1>3. 4 * G # 0
  BY <1>1, <1>2, SMT
<1> QED BY <1>1, <1>3, EmptySeq DEF text

\* Four characters of three bytes are decoded to them.
LEMMA FourAreDecoded ==
  ASSUME NEW a \in Octet, NEW b \in Octet, NEW c \in Octet, NEW s,
         \A k \in 1..4 : DecodingAlphabet[s[k]] = Six(Triplet(a, b, c), k)
  PROVE  DecodeFour(s) = <<a, b, c>>
<1> DEFINE v == [k \in 1..4 |-> DecodingAlphabet[s[k]]]
           t == Triplet(a, b, c)
           u == ((v[1] * 64 + v[2]) * 64 + v[3]) * 64 + v[4]
<1>1. v[1] = Six(t, 1) /\ v[2] = Six(t, 2) /\ v[3] = Six(t, 3) /\ v[4] = Six(t, 4)
  <2>1. 1 \in 1..4 /\ 2 \in 1..4 /\ 3 \in 1..4 /\ 4 \in 1..4
    BY SMT
  <2>2. \A k \in 1..4 : v[k] = Six(t, k)
    OBVIOUS
  <2> HIDE DEF v, t
  <2> QED BY <2>1, <2>2
<1>2. u = t
  <2>1. ((Six(t, 1) * 64 + Six(t, 2)) * 64 + Six(t, 3)) * 64 + Six(t, 4) = t
    BY SixesMakeBytes
  <2> HIDE DEF v, t
  <2> QED BY <1>1, <2>1
<1>3. t \div 65536 = a /\ (t \div 256) % 256 = b /\ t % 256 = c
  BY SixesMakeBytes
<1>4. DecodeFour(s) = <<u \div 65536, (u \div 256) % 256, u % 256>>
  BY SMT DEF DecodeFour
<1> HIDE DEF u, t
<1> QED BY <1>2, <1>3, <1>4

\* Characters of bytes are decoded to these, followed by a nought for each padding.
LEMMA GroupsAreDecoded ==
  ASSUME NEW bytes \in Seq(Octet)
  PROVE  LET n == Len(bytes)
             G == Groups(n)
         IN  DecodeGroups(EncodedText(bytes)) = [ok |-> TRUE, pads |-> 3 * G - n,
                                            bytes |-> [i \in 1..(3 * G) |-> Part(bytes, i)]]
<1> DEFINE n == Len(bytes)
           G == Groups(n)
           text == EncodedText(bytes)
           Three(g) == DecodeFour(SubSeq(text, 4 * g - 3, 4 * g))
<1>1. /\ n \in Nat /\ G \in Nat /\ 3 * G \in n..(n + 2)
      /\ text \in Seq(0..127) /\ Len(text) = 4 * G /\ DOMAIN text = 1..(4 * G)
      /\ \A g \in 1..G, k \in 1..4 : text[4 * g - 4 + k] = FourOf(bytes, g)[k]
      /\ \A i \in 1..(4 * G) : (text[i] = Padding <=> i > G + n) /\ DecodingAlphabet[text[i]] # Unknown
  BY EncodeHasCharacters
<1>2. \A g \in 1..G : Three(g) = <<Part(bytes, 3 * g - 2), Part(bytes, 3 * g - 1), Part(bytes, 3 * g)>>
  <2> SUFFICES ASSUME NEW g \in 1..G
               PROVE  Three(g) = <<Part(bytes, 3 * g - 2), Part(bytes, 3 * g - 1), Part(bytes, 3 * g)>>
    OBVIOUS
  <2> DEFINE s == SubSeq(text, 4 * g - 3, 4 * g)
  <2>1. g \in Nat \ {0}
    BY <1>1, SMT
  <2>2. \A k \in 1..4 : s[k] = text[4 * g - 4 + k]
    <3>1. \A i \in (4 * g - 3)..(4 * g) : text[i] \in 0..127
      <4>1. \A i \in 1..(4 * G) : text[i] \in 0..127
        BY <1>1, ElementOfSeq
      <4> HIDE DEF text, G
      <4> QED BY <1>1, <4>1, SMT
    <3>2. 4 * g - 3 \in Int /\ 4 * g \in Int /\ 4 * g - (4 * g - 3) + 1 = 4
      BY <2>1, SMT
    <3>3. \A k \in 1..4 : s[k] = text[4 * g - 3 + k - 1]
      <4>1. 4 * g - 3 \in Int /\ 4 * g \in Int
        BY <3>2
      <4> DEFINE m == 4 * g - 3
                 l == 4 * g
      <4>2. \A k \in 1..(l - m + 1) : s[k] = text[m + k - 1]
        <5>1. m \in Int /\ l \in Int /\ \A i \in m..l : text[i] \in 0..127
          BY <3>1, <4>1
        <5>2. s = SubSeq(text, m, l)
          OBVIOUS
        <5> HIDE DEF m, l, text, s
        <5> QED BY <5>1, <5>2, SubSeqProperties
      <4>3. 1..(l - m + 1) = 1..4
        BY <3>2
      <4> HIDE DEF s, text
      <4> QED BY <4>2, <4>3
    <3>4. \A k \in 1..4 : 4 * g - 3 + k - 1 = 4 * g - 4 + k
      BY <2>1, SMT
    <3> HIDE DEF s, text
    <3> QED BY <3>3, <3>4
  <2>3. \A k \in 1..4 : DecodingAlphabet[s[k]] = Six(TripletOf(bytes, g), k)
    <3> SUFFICES ASSUME NEW k \in 1..4 PROVE DecodingAlphabet[s[k]] = Six(TripletOf(bytes, g), k)
      OBVIOUS
    <3>1. s[k] = IF 4 * g - 4 + k > G + n THEN Padding ELSE EncodingAlphabet[Six(TripletOf(bytes, g), k)]
      <4>1. s[k] = FourOf(bytes, g)[k]
        <5> HIDE DEF s, text, G
        <5> QED BY <1>1, <2>2
      <4> QED BY <4>1, FourHasCharacters
    <3>2. CASE 4 * g - 4 + k > G + n
      <4>1. Six(TripletOf(bytes, g), k) = 0
        BY <3>2, PaddingIsNought
      <4> HIDE DEF s
      <4> QED BY <3>1, <3>2, <4>1, AlphabetIsDecoded
    <3>3. CASE ~(4 * g - 4 + k > G + n)
      <4>1. Six(TripletOf(bytes, g), k) \in Sextet
        BY <2>1, TripletIsThree
      <4> HIDE DEF s
      <4> QED BY <3>1, <3>3, <4>1, AlphabetIsDecoded
    <3> QED BY <3>2, <3>3
  <2>4. Part(bytes, 3 * g - 2) \in Octet /\ Part(bytes, 3 * g - 1) \in Octet /\ Part(bytes, 3 * g) \in Octet
    BY <2>1, TripletIsThree
  <2> HIDE DEF s
  <2>5. DecodeFour(s) = <<Part(bytes, 3 * g - 2), Part(bytes, 3 * g - 1), Part(bytes, 3 * g)>>
    BY <2>3, <2>4, FourAreDecoded DEF TripletOf
  <2> QED BY <2>5 DEF s
<1>3. ~\E i \in DOMAIN text : DecodingAlphabet[text[i]] = Unknown
  BY <1>1
<1>4. Pads(text) = 3 * G - n
  <2>1. {i \in DOMAIN text : text[i] = Padding} = (G + n + 1)..(4 * G)
    <3> HIDE DEF text, G, n
    <3> QED BY <1>1, SMT
  <2>2. Cardinality((G + n + 1)..(4 * G)) = 3 * G - n
    <3>1. G + n + 1 \in Int /\ 4 * G \in Int
      BY <1>1, SMT
    <3>2. Cardinality((G + n + 1)..(4 * G)) = IF G + n + 1 > 4 * G THEN 0 ELSE 4 * G - (G + n + 1) + 1
      BY <3>1, FS_Interval
    <3> HIDE DEF G, n
    <3> QED BY <1>1, <3>2, SMT
  <2> QED BY <2>1, <2>2 DEF Pads
<1>5. Len(text) \div 4 = G
  <2> HIDE DEF text, G
  <2> QED BY <1>1, SMT
<1>6. \A i \in 1..(3 * G) : Three((i - 1) \div 3 + 1)[((i - 1) % 3) + 1] = Part(bytes, i)
  <2> SUFFICES ASSUME NEW i \in 1..(3 * G)
               PROVE  Three((i - 1) \div 3 + 1)[((i - 1) % 3) + 1] = Part(bytes, i)
    OBVIOUS
  <2> DEFINE g == (i - 1) \div 3 + 1
             k == ((i - 1) % 3) + 1
  <2>1. g \in 1..G /\ k \in 1..3 /\ i = 3 * g - 3 + k
    <3>1. G \in Nat
      BY <1>1
    <3> HIDE DEF G
    <3> QED BY <3>1, SMT
  <2>0. G \in Nat
    BY <1>1
  <2> HIDE DEF g, k, Three, G
  <2>2. Three(g)[k] = Part(bytes, 3 * g - 3 + k)
    <3>1. (k = 1 \/ k = 2 \/ k = 3) /\ g \in Nat
      BY <2>0, <2>1, SMT
    <3>2. 3 * g - 3 + 1 = 3 * g - 2 /\ 3 * g - 3 + 2 = 3 * g - 1 /\ 3 * g - 3 + 3 = 3 * g
      BY <3>1, SMT
    <3>3. Three(g) = <<Part(bytes, 3 * g - 2), Part(bytes, 3 * g - 1), Part(bytes, 3 * g)>>
      BY <1>2, <2>1
    <3>4. \A x, y, z : <<x, y, z>>[1] = x /\ <<x, y, z>>[2] = y /\ <<x, y, z>>[3] = z
      BY SMT
    <3> QED BY <3>1, <3>2, <3>3, <3>4
  <2>3. Three(g)[k] = Part(bytes, i)
    BY <2>1, <2>2
  <2> QED BY <2>3 DEF g, k
<1>7. DecodeGroups(text) = [ok |-> TRUE, pads |-> Pads(text),
                            bytes |-> [i \in 1..(3 * G) |-> Three((i - 1) \div 3 + 1)[((i - 1) % 3) + 1]]]
  <2> HIDE DEF text, G
  <2> QED BY <1>3, <1>5, ZenonT(30) DEF DecodeGroups
<1> HIDE DEF text, Three, G
<1> QED BY <1>4, <1>6, <1>7 DEF text, G

-----------------------------------------------------------------------------
(* Bytes come back.                                                        *)

\* The decoded bytes are a sequence that begins with the encoded ones, noughts behind them.
LEMMA PartsAreSequence ==
  ASSUME NEW bytes \in Seq(Octet)
  PROVE  LET n == Len(bytes)
             G == Groups(n)
             parts == [i \in 1..(3 * G) |-> Part(bytes, i)]
         IN  /\ n \in Nat /\ G \in Nat /\ n <= 3 * G
             /\ parts \in Seq(Octet) /\ Len(parts) = 3 * G
             /\ \A i \in 1..(3 * G) : parts[i] = Part(bytes, i)
             /\ SubSeq(parts, 1, n) = bytes
<1> DEFINE n == Len(bytes)
           G == Groups(n)
           parts == [i \in 1..(3 * G) |-> Part(bytes, i)]
<1>1. n \in Nat /\ G \in Nat /\ n <= 3 * G /\ 3 * G \in Nat
  <2>1. n \in Nat
    BY LenProperties
  <2>2. G \in Nat /\ 3 * G \in n..(n + 2)
    BY <2>1, GroupsAreFull
  <2> HIDE DEF G, n
  <2> QED BY <2>1, <2>2, SMT
<1>2. \A i \in 1..(3 * G) : Part(bytes, i) \in Octet
  <2> SUFFICES ASSUME NEW i \in 1..(3 * G) PROVE Part(bytes, i) \in Octet
    OBVIOUS
  <2>1. i \in Nat \ {0}
    BY <1>1, SMT
  <2> QED BY <2>1, PartsAreBytes
<1>3. parts \in [1..(3 * G) -> Octet]
  BY <1>2
<1>4. parts \in Seq(Octet) /\ Len(parts) = 3 * G
  BY <1>1, <1>3, FunctionIsSequence
<1>5. \A i \in 1..(3 * G) : parts[i] = Part(bytes, i)
  OBVIOUS
<1> HIDE DEF parts
<1>6. \A i \in 1..n : parts[i] = bytes[i] /\ parts[i] \in Octet
  <2> SUFFICES ASSUME NEW i \in 1..n PROVE parts[i] = bytes[i] /\ parts[i] \in Octet
    OBVIOUS
  <2>1. i \in 1..(3 * G) /\ i <= Len(bytes)
    <3>1. i <= n
      BY <1>1, SMT
    <3>2. i \in 1..(3 * G)
      <4> HIDE DEF G, n
      <4> QED BY <1>1, SMT
    <3> QED BY <3>1, <3>2
  <2> QED BY <1>2, <1>5, <2>1 DEF Part
<1>7. SubSeq(parts, 1, n) = bytes
  <2> DEFINE s == SubSeq(parts, 1, n)
  <2>1. /\ s \in Seq(Octet)
        /\ Len(s) = IF 1 <= n THEN n - 1 + 1 ELSE 0
        /\ \A i \in 1..(n - 1 + 1) : s[i] = parts[1 + i - 1]
    <3>1. 1 \in Int /\ n \in Int
      BY <1>1
    <3> QED BY <1>6, <3>1, SubSeqProperties
  <2>2. Len(s) = n /\ \A i \in 1..n : s[i] = parts[i]
    <3> HIDE DEF s, n
    <3> QED BY <1>1, <2>1, SMT
  <2> HIDE DEF s
  <2>3. s = bytes
    BY <1>6, <2>1, <2>2, SeqEqual
  <2> QED BY <2>3 DEF s
<1> QED BY <1>1, <1>4, <1>5, <1>7

\* What is decoded of a text of whole groups.
LEMMA WholeGroups ==
  ASSUME NEW bytes \in Seq(Octet)
  PROVE  Len(EncodedText(bytes)) % 4 = 0
<1>1. Len(EncodedText(bytes)) = 4 * Groups(Len(bytes)) /\ Groups(Len(bytes)) \in Nat
  BY EncodeHasCharacters
<1> HIDE DEF Encode
<1> QED BY <1>1, SMT

\* An array of bytes comes back.
LEMMA ArrayComesBack ==
  ASSUME NEW bytes \in Seq(Octet)
  PROVE  Same(DecodeArray(EncodedText(bytes)), bytes)
<1> DEFINE n == Len(bytes)
           G == Groups(n)
           parts == [i \in 1..(3 * G) |-> Part(bytes, i)]
           d == DecodeGroups(EncodedText(bytes))
<1>1. n \in Nat /\ G \in Nat /\ n <= 3 * G /\ Len(parts) = 3 * G /\ SubSeq(parts, 1, n) = bytes
  BY PartsAreSequence
<1>2. d = [ok |-> TRUE, pads |-> 3 * G - n, bytes |-> parts]
  BY GroupsAreDecoded
<1>3. DecodeArray(EncodedText(bytes)) = [d EXCEPT !.bytes = SubSeq(@, 1, Len(@) - d.pads)]
  BY WholeGroups DEF DecodeArray
<1>4. 3 * G - (3 * G - n) = n
  <2> HIDE DEF G, n
  <2> QED BY <1>1, SMT
<1> HIDE DEF parts, d, G, n
<1> QED BY <1>1, <1>2, <1>3, <1>4 DEF Same

\* A text ends at its first nought.
LEMMA TextEnds ==
  ASSUME NEW S, NEW text \in Seq(S), NEW n \in Nat, n <= Len(text),
         \A i \in 1..n : text[i] # 0,
         n < Len(text) => text[n + 1] = 0
  PROVE  UpToNought(text) = SubSeq(text, 1, n)
<1> DEFINE Ends(m) == (\A i \in 1..m : text[i] # 0) /\ (m < Len(text) => text[m + 1] = 0)
<1>1. Len(text) \in Nat /\ n \in 0..Len(text)
  BY LenProperties, SMT
<1>2. \A m \in 0..Len(text) : Ends(m) => m = n
  BY <1>1, SMT
<1>3. Ends(n)
  OBVIOUS
<1>4. LengthOf(text) = CHOOSE m \in 0..Len(text) : Ends(m)
  BY DEF LengthOf
<1> HIDE DEF Ends
<1>5. LengthOf(text) = n
  BY <1>1, <1>2, <1>3, <1>4
<1> QED BY <1>5 DEF UpToNought

\* So does a text, when none of its bytes is nought.
LEMMA TextComesBack ==
  ASSUME NEW bytes \in Seq(Octet), \A i \in DOMAIN bytes : bytes[i] # 0
  PROVE  Same(DecodeText(EncodedText(bytes)), bytes)
<1> DEFINE n == Len(bytes)
           G == Groups(n)
           parts == [i \in 1..(3 * G) |-> Part(bytes, i)]
           d == DecodeGroups(EncodedText(bytes))
           ended == [parts EXCEPT ![Len(parts) - d.pads + 1] = 0]
<1>1. /\ n \in Nat /\ G \in Nat /\ n <= 3 * G
      /\ parts \in Seq(Octet) /\ Len(parts) = 3 * G
      /\ \A i \in 1..(3 * G) : parts[i] = Part(bytes, i)
      /\ SubSeq(parts, 1, n) = bytes
  BY PartsAreSequence
<1>2. d = [ok |-> TRUE, pads |-> 3 * G - n, bytes |-> parts]
  BY GroupsAreDecoded
<1>3. DecodeText(EncodedText(bytes)) = IF ~d.ok \/ d.pads = 0 THEN [d EXCEPT !.bytes = UpToNought(@)]
                                  ELSE [d EXCEPT !.bytes = UpToNought([@ EXCEPT ![Len(@) - d.pads + 1] = 0])]
  BY WholeGroups DEF DecodeText
<1> HIDE DEF parts, d
<1>4. \A i \in 1..n : bytes[i] # 0 /\ parts[i] # 0 /\ i \in 1..(3 * G)
  <2>1. \A i \in 1..n : bytes[i] # 0
    BY LenProperties
  <2>2. \A i \in 1..n : i \in 1..(3 * G) /\ i <= n
    <3> HIDE DEF G, n
    <3> QED BY <1>1, SMT
  <2>3. \A i \in 1..n : parts[i] = bytes[i]
    BY <1>1, <2>2 DEF Part
  <2> QED BY <2>1, <2>2, <2>3
<1>5. n < 3 * G => n + 1 \in 1..(3 * G) /\ parts[n + 1] = 0
  <2>1. n < 3 * G => n + 1 \in 1..(3 * G) /\ ~(n + 1 <= n)
    <3> HIDE DEF G, n
    <3> QED BY <1>1, SMT
  <2> QED BY <1>1, <2>1 DEF Part
<1>6. UpToNought(parts) = bytes
  <2> HIDE DEF G, n
  <2> QED BY <1>1, <1>4, <1>5, TextEnds
<1>7. d.pads # 0 => ended = parts
  <2> SUFFICES ASSUME d.pads # 0 PROVE ended = parts
    OBVIOUS
  <2>1. d.pads = 3 * G - n
    BY <1>2
  <2>2. n < 3 * G /\ Len(parts) - d.pads + 1 = n + 1
    <3> HIDE DEF G, n
    <3> QED BY <1>1, <2>1, SMT
  <2>3. parts[n + 1] = 0
    BY <1>5, <2>2
  <2>4. parts \in [1..Len(parts) -> Octet]
    BY <1>1, LenProperties
  <2>5. [parts EXCEPT ![n + 1] = 0] = parts
    BY <2>3, <2>4
  <2> QED BY <2>2, <2>5
<1> HIDE DEF G, n
<1>8. CASE d.pads = 0
  BY <1>2, <1>3, <1>6, <1>8 DEF Same
<1>9. CASE d.pads # 0
  <2>1. d.bytes = parts
    BY <1>2
  <2>2. DecodeText(EncodedText(bytes)) = [d EXCEPT !.bytes = UpToNought(ended)]
    BY <1>2, <1>3, <1>9
  <2>3. DecodeText(EncodedText(bytes)) = [d EXCEPT !.bytes = bytes]
    BY <1>6, <1>7, <1>9, <2>2
  <2> HIDE DEF ended
  <2> QED BY <1>2, <2>3 DEF Same
<1> QED BY <1>8, <1>9

-----------------------------------------------------------------------------
(* Names come back.                                                        *)

\* Of several numbers, up to a bound, one is the last.
LEMMA LastIsGreatest ==
  ASSUME NEW n \in Nat, NEW S, S \subseteq 1..n, S # {}
  PROVE  \E i \in S : \A j \in S : j <= i
<1> DEFINE T == {n - i : i \in S}
<1>1. T \subseteq Nat /\ T # {}
  <2>1. \A i \in S : n - i \in Nat
    BY SMT
  <2> QED BY <2>1
<1>2. FirstOf(T) \in T /\ \A j \in T : FirstOf(T) <= j
  BY <1>1, FirstIsLeast
<1>3. PICK i \in S : FirstOf(T) = n - i
  BY <1>2
<1>4. \A j \in S : j <= i
  <2> SUFFICES ASSUME NEW j \in S PROVE j <= i
    OBVIOUS
  <2>1. n - j \in T /\ i \in 1..n /\ j \in 1..n
    OBVIOUS
  <2>2. n - i <= n - j
    BY <1>2, <1>3, <2>1
  <2> HIDE DEF T
  <2> QED BY <2>1, <2>2, SMT
<1> QED BY <1>4

\* A dot is the last one when no dot is behind it.
LEMMA LastDotIs ==
  ASSUME NEW name, NEW i \in DOMAIN name, DOMAIN name \subseteq Int, name[i] = Dot,
         \A j \in DOMAIN name : j > i => name[j] # Dot
  PROVE  HasDot(name) /\ LastDot(name) = i
<1>1. \A m \in DOMAIN name :
        (name[m] = Dot /\ \A j \in DOMAIN name : j > m => name[j] # Dot) => m = i
  BY SMT
<1>2. LastDot(name) = i
  BY <1>1 DEF LastDot
<1> QED BY <1>2 DEF HasDot

\* A name with a dot has a last one.
LEMMA LastDotExists ==
  ASSUME NEW name \in Seq(Octet), HasDot(name)
  PROVE  /\ LastDot(name) \in 1..Len(name)
         /\ name[LastDot(name)] = Dot
         /\ \A j \in 1..Len(name) : j > LastDot(name) => name[j] # Dot
<1>1. Len(name) \in Nat /\ DOMAIN name = 1..Len(name)
  BY LenProperties
<1> DEFINE S == {i \in 1..Len(name) : name[i] = Dot}
<1>2. S # {} /\ S \subseteq 1..Len(name)
  BY <1>1 DEF HasDot
<1>3. PICK i \in S : \A j \in S : j <= i
  <2> HIDE DEF S
  <2> QED BY <1>1, <1>2, LastIsGreatest
<1>4. i \in 1..Len(name) /\ name[i] = Dot /\ \A j \in 1..Len(name) : j > i => name[j] # Dot
  BY <1>1, <1>3, SMT
<1>5. LastDot(name) = i
  BY <1>1, <1>4, SMT, LastDotIs
<1> QED BY <1>4, <1>5

\* A text without a dot has no extension.
LEMMA NoDotNoExtension ==
  ASSUME NEW text, \A i \in DOMAIN text : text[i] # Dot
  PROVE  ~HasExtension(text)
BY DEF HasExtension, HasDot

\* A name with an extension is its stem and its extension.
LEMMA NameIsDivided ==
  ASSUME NEW name \in Seq(Octet), HasExtension(name)
  PROVE  /\ Len(name) \in Nat /\ LastDot(name) \in 2..(Len(name) - 1) /\ name[LastDot(name)] = Dot
         /\ \A j \in 1..Len(name) : j > LastDot(name) => name[j] # Dot
         /\ Stem(name) \in Seq(Octet) /\ Len(Stem(name)) = LastDot(name) - 1
         /\ \A i \in DOMAIN Stem(name) : i \in DOMAIN name /\ Stem(name)[i] = name[i]
         /\ Extension(name) \in Seq(Octet) /\ Len(Extension(name)) = Len(name) - LastDot(name) + 1
         /\ \A i \in 1..(Len(name) - LastDot(name) + 1) : Extension(name)[i] = name[LastDot(name) + i - 1]
         /\ Stem(name) \o Extension(name) = name
<1> DEFINE n == Len(name)
           l == LastDot(name)
           stem == Stem(name)
           ext == Extension(name)
<1>1. n \in Nat /\ DOMAIN name = 1..n /\ l \in 2..(n - 1) /\ name[l] = Dot
      /\ \A j \in 1..n : j > l => name[j] # Dot
  BY LastDotExists, LenProperties DEF HasExtension
<1>2. \A i \in 1..n : name[i] \in Octet
  BY ElementOfSeq
<1> HIDE DEF n, l
<1>3. /\ stem \in Seq(Octet) /\ Len(stem) = l - 1
      /\ \A i \in 1..(l - 1) : stem[i] = name[i]
  <2>1. 1 \in Int /\ l - 1 \in Int /\ 1 <= l - 1 /\ l - 1 - 1 + 1 = l - 1 /\ \A i \in 1..(l - 1) : i \in 1..n /\ 1 + i - 1 = i
    BY <1>1, SMT
  <2>2. /\ SubSeq(name, 1, l - 1) \in Seq(Octet)
        /\ Len(SubSeq(name, 1, l - 1)) = IF 1 <= l - 1 THEN l - 1 - 1 + 1 ELSE 0
        /\ \A i \in 1..(l - 1 - 1 + 1) : SubSeq(name, 1, l - 1)[i] = name[1 + i - 1]
    BY <1>2, <2>1, SubSeqProperties
  <2>3. stem = SubSeq(name, 1, l - 1)
    BY DEF Stem, l
  <2> HIDE DEF stem
  <2> QED BY <2>1, <2>2, <2>3
<1>4. /\ ext \in Seq(Octet) /\ Len(ext) = n - l + 1
      /\ \A i \in 1..(n - l + 1) : ext[i] = name[l + i - 1]
  <2>1. l \in Int /\ n \in Int /\ l <= n /\ \A i \in l..n : i \in 1..n
    BY <1>1, SMT
  <2>2. /\ SubSeq(name, l, n) \in Seq(Octet)
        /\ Len(SubSeq(name, l, n)) = IF l <= n THEN n - l + 1 ELSE 0
        /\ \A i \in 1..(n - l + 1) : SubSeq(name, l, n)[i] = name[l + i - 1]
    BY <1>2, <2>1, SubSeqProperties
  <2>3. ext = SubSeq(name, l, n)
    BY DEF Extension, l, n
  <2> HIDE DEF ext
  <2> QED BY <2>1, <2>2, <2>3
<1>5. stem \o ext = name
  <2>1. /\ stem \o ext \in Seq(Octet)
        /\ Len(stem \o ext) = Len(stem) + Len(ext)
        /\ \A i \in 1..(Len(stem) + Len(ext)) : (stem \o ext)[i] = IF i <= Len(stem) THEN stem[i] ELSE ext[i - Len(stem)]
    <3> HIDE DEF stem, ext
    <3> QED BY <1>3, <1>4, ConcatProperties
  <2> DEFINE both == stem \o ext
  <2>2. Len(both) = n /\ \A i \in 1..n : both[i] = name[i]
    <3> HIDE DEF stem, ext, both
    <3>1. Len(both) = n
      BY <1>1, <1>3, <1>4, <2>1, SMT DEF both
    <3>2. \A i \in 1..n : i \in 1..(Len(stem) + Len(ext))
      BY <1>1, <1>3, <1>4, SMT
    <3>3. ASSUME NEW i \in 1..n PROVE both[i] = name[i]
      <4>1. both[i] = IF i <= Len(stem) THEN stem[i] ELSE ext[i - Len(stem)]
        BY <2>1, <3>2 DEF both
      <4>2. CASE i <= l - 1
        BY <1>1, <1>3, <4>1, <4>2, SMT
      <4>3. CASE ~(i <= l - 1)
        <5>1. i - (l - 1) \in 1..(n - l + 1) /\ l + (i - (l - 1)) - 1 = i
          BY <1>1, <4>3, SMT
        <5> QED BY <1>3, <1>4, <4>1, <4>3, <5>1
      <4> QED BY <4>2, <4>3
    <3> QED BY <3>1, <3>3
  <2> HIDE DEF both
  <2>3. both = name
    BY <2>1, <2>2, SeqEqual DEF both, n
  <2> QED BY <2>3 DEF both
<1>6. \A i \in DOMAIN stem : i \in DOMAIN name /\ stem[i] = name[i]
  <2>1. DOMAIN stem = 1..(l - 1)
    BY <1>3, LenProperties
  <2>2. \A i \in 1..(l - 1) : i \in 1..n
    BY <1>1, SMT
  <2> QED BY <1>1, <1>3, <2>1, <2>2
<1> QED BY <1>1, <1>3, <1>4, <1>5, <1>6 DEF n, l

\* In front of an extension, characters without a dot are the stem.
LEMMA StemIsReplaced ==
  ASSUME NEW name \in Seq(Octet), HasExtension(name), NEW text \in Seq(0..127), text # <<>>,
         \A i \in DOMAIN text : text[i] # Dot
  PROVE  LET whole == text \o Extension(name)
         IN  HasExtension(whole) /\ Stem(whole) = text /\ Extension(whole) = Extension(name)
<1> DEFINE n == Len(name)
           l == LastDot(name)
           ext == Extension(name)
           m == Len(text)
           whole == text \o ext
<1>1. n \in Nat /\ DOMAIN name = 1..n /\ l \in 2..(n - 1) /\ name[l] = Dot
      /\ \A j \in 1..n : j > l => name[j] # Dot
  BY NameIsDivided, LenProperties
<1>4. /\ ext \in Seq(Octet) /\ Len(ext) = n - l + 1
      /\ \A i \in 1..(n - l + 1) : ext[i] = name[l + i - 1]
  BY NameIsDivided
<1> HIDE DEF n, l
<1>6. /\ text \in Seq(0..127) /\ m \in Nat /\ DOMAIN text = 1..m
      /\ \A i \in 1..m : text[i] # Dot
      /\ m >= 1
  <2>1. m \in Nat /\ DOMAIN text = 1..m /\ m # 0
    BY LenProperties, EmptySeq
  <2>2. m >= 1
    <3> HIDE DEF m
    <3> QED BY <2>1, SMT
  <2> QED BY <2>1, <2>2
<1> HIDE DEF ext
<1>7. text \in Seq(Octet)
  <2>1. 0..127 \subseteq Octet
    BY SMT DEF Octet
  <2> QED BY <1>6, <2>1, SeqMonotonic
<1>8. /\ whole \in Seq(Octet)
      /\ Len(whole) = m + Len(ext)
      /\ \A i \in 1..(m + Len(ext)) : whole[i] = IF i <= m THEN text[i] ELSE ext[i - m]
  BY <1>4, <1>7, ConcatProperties
<1> HIDE DEF whole, m
<1>9. /\ DOMAIN whole = 1..(m + (n - l + 1)) /\ Len(whole) = m + (n - l + 1)
      /\ \A i \in 1..m : whole[i] = text[i]
      /\ \A i \in 1..(n - l + 1) : whole[m + i] = ext[i]
  <2>1. DOMAIN whole = 1..Len(whole)
    BY <1>8, LenProperties
  <2>2. \A i \in 1..m : i \in 1..(m + Len(ext)) /\ i <= m
    BY <1>1, <1>4, <1>6, SMT
  <2>3. \A i \in 1..(n - l + 1) : m + i \in 1..(m + Len(ext)) /\ ~(m + i <= m) /\ (m + i) - m = i
    BY <1>1, <1>4, <1>6, SMT
  <2>4. \A i \in 1..m : whole[i] = text[i]
    BY <1>8, <2>2
  <2>5. ASSUME NEW i \in 1..(n - l + 1) PROVE whole[m + i] = ext[i]
    <3>1. m + i \in 1..(m + Len(ext)) /\ ~(m + i <= m) /\ (m + i) - m = i
      BY <2>3
    <3>2. whole[m + i] = IF m + i <= m THEN text[m + i] ELSE ext[(m + i) - m]
      BY <1>8, <3>1
    <3> QED BY <3>1, <3>2
  <2> QED BY <1>4, <1>8, <2>1, <2>4, <2>5
<1>10. HasDot(whole) /\ LastDot(whole) = m + 1
  <2>1. m + 1 \in DOMAIN whole /\ DOMAIN whole \subseteq Int
    BY <1>1, <1>6, <1>9, SMT
  <2>2. whole[m + 1] = Dot
    <3>1. 1 \in 1..(n - l + 1) /\ l + 1 - 1 = l
      BY <1>1, SMT
    <3> QED BY <1>1, <1>4, <1>9, <3>1
  <2>3. ASSUME NEW j \in DOMAIN whole, j > m + 1 PROVE whole[j] # Dot
    <3>1. j - m \in 1..(n - l + 1) /\ m + (j - m) = j /\ l + (j - m) - 1 \in 1..n /\ l + (j - m) - 1 > l
      BY <1>1, <1>6, <1>9, <2>3, SMT
    <3> QED BY <1>1, <1>4, <1>9, <3>1
  <2> QED BY <2>1, <2>2, <2>3, LastDotIs
<1>11. HasExtension(whole)
  <2>1. m + 1 \in 2..((m + (n - l + 1)) - 1)
    BY <1>1, <1>6, SMT
  <2>2. Len(whole) = m + (n - l + 1)
    BY <1>9
  <2>3. LastDot(whole) \in 2..(Len(whole) - 1)
    <3>1. Len(whole) - 1 = (m + (n - l + 1)) - 1
      BY <2>2
    <3>2. m + 1 \in 2..(Len(whole) - 1)
      BY <2>1, <3>1
    <3> QED BY <1>10, <3>2
  <2> QED BY <1>10, <2>3 DEF HasExtension
<1>12. Stem(whole) = text
  <2>1. \A i \in 1..m : whole[i] \in Octet /\ text[i] \in Octet
    BY <1>6, <1>7, <1>9, ElementOfSeq
  <2> DEFINE s == SubSeq(whole, 1, m)
  <2>2. 1 \in Int /\ m \in Int /\ 1 <= m /\ m - 1 + 1 = m /\ m + 1 - 1 = m /\ \A i \in 1..m : 1 + i - 1 = i
    BY <1>6, SMT
  <2>3. s \in Seq(Octet) /\ Len(s) = m /\ \A i \in 1..m : s[i] = whole[i]
    <3>1. /\ s \in Seq(Octet)
          /\ Len(s) = IF 1 <= m THEN m - 1 + 1 ELSE 0
          /\ \A i \in 1..(m - 1 + 1) : s[i] = whole[1 + i - 1]
      BY <2>1, <2>2, SubSeqProperties
    <3> HIDE DEF s
    <3> QED BY <2>2, <3>1
  <2> HIDE DEF s
  <2>4. s = text
    BY <1>7, <1>9, <2>3, SeqEqual DEF m
  <2> QED BY <1>10, <2>2, <2>4 DEF Stem, s
<1>13. Extension(whole) = ext
  <2> DEFINE s == SubSeq(whole, m + 1, Len(whole))
  <2>1. /\ m + 1 \in Int /\ Len(whole) \in Int /\ m + 1 <= Len(whole)
        /\ Len(whole) - (m + 1) + 1 = n - l + 1
        /\ \A i \in 1..(n - l + 1) : m + 1 + i - 1 = m + i
        /\ \A i \in (m + 1)..Len(whole) : i \in 1..Len(whole)
    BY <1>1, <1>6, <1>9, SMT
  <2>2. \A i \in (m + 1)..Len(whole) : whole[i] \in Octet
    BY <1>8, <2>1, ElementOfSeq
  <2>3. s \in Seq(Octet) /\ Len(s) = n - l + 1 /\ \A i \in 1..(n - l + 1) : s[i] = whole[m + i]
    <3>1. /\ s \in Seq(Octet)
          /\ Len(s) = IF m + 1 <= Len(whole) THEN Len(whole) - (m + 1) + 1 ELSE 0
          /\ \A i \in 1..(Len(whole) - (m + 1) + 1) : s[i] = whole[m + 1 + i - 1]
      BY <2>1, <2>2, SubSeqProperties
    <3> HIDE DEF s
    <3> QED BY <2>1, <3>1
  <2> HIDE DEF s
  <2>4. Len(s) = Len(ext) /\ \A i \in 1..Len(s) : s[i] = ext[i]
    BY <1>4, <1>9, <2>3
  <2>5. s = ext
    BY <1>4, <2>3, <2>4, SeqEqual
  <2> QED BY <1>10, <2>5 DEF Extension, s
<1> QED BY <1>11, <1>12, <1>13 DEF whole, ext

\* The name of a file comes back, wherever its dots are.
LEMMA NameComesBack ==
  ASSUME NEW name \in Seq(Octet), \A i \in DOMAIN name : name[i] # 0
  PROVE  Same(DecodeExceptExtension(EncodedName(name)), name)
<1>1. CASE ~HasExtension(name)
  <2>1. \A i \in DOMAIN EncodedText(name) : EncodedText(name)[i] # Dot
    BY EncodeHasCharacters
  <2>2. DecodeExceptExtension(EncodedText(name)) = DecodeText(EncodedText(name))
    BY <2>1, NoDotNoExtension DEF DecodeExceptExtension
  <2> QED BY <1>1, <2>2, TextComesBack DEF EncodedName
<1>2. CASE HasExtension(name)
  <2> DEFINE stem == Stem(name)
             ext == Extension(name)
             text == EncodedText(stem)
             whole == text \o ext
  <2>1. stem \in Seq(Octet) /\ stem # <<>> /\ stem \o ext = name /\ \A i \in DOMAIN stem : stem[i] # 0
    <3>1. /\ stem \in Seq(Octet) /\ Len(stem) = LastDot(name) - 1 /\ LastDot(name) \in 2..(Len(name) - 1)
          /\ stem \o ext = name /\ \A i \in DOMAIN stem : i \in DOMAIN name /\ stem[i] = name[i]
          /\ Len(name) \in Nat
      BY <1>2, NameIsDivided
    <3>2. LastDot(name) - 1 # 0
      BY <3>1, SMT
    <3> HIDE DEF stem, ext
    <3> QED BY <3>1, <3>2, EmptySeq
  <2>2. text \in Seq(0..127) /\ text # <<>> /\ \A i \in DOMAIN text : text[i] # Dot
    BY <2>1, EncodedHasText
  <2>3. Same(DecodeText(text), stem)
    BY <2>1, TextComesBack
  <2>4. HasExtension(whole) /\ Stem(whole) = text /\ Extension(whole) = ext
    BY <1>2, <2>2, StemIsReplaced
  <2>5. EncodedName(name) = whole
    BY <1>2 DEF EncodedName
  <2> HIDE DEF stem, ext, text, whole
  <2>6. DecodeExceptExtension(whole) = [DecodeText(text) EXCEPT !.bytes = @ \o ext]
    BY <2>3, <2>4 DEF DecodeExceptExtension, Same
  <2>7. DecodeText(text).bytes \o ext = name
    BY <2>1, <2>3 DEF Same
  <2> QED BY <2>3, <2>5, <2>6, <2>7 DEF Same
<1> QED BY <1>1, <1>2

-----------------------------------------------------------------------------
(* Sources.                                                                *)

\* A text that lacks its first character, or holds a dot, is refused.
LEMMA SpoiltIsRefused ==
  ASSUME NEW bytes \in Seq(Octet)
  PROVE  /\ bytes # <<>> => ~DecodeArray(Tail(EncodedText(bytes))).ok /\ ~DecodeText(Tail(EncodedText(bytes))).ok
         /\ \A i \in DOMAIN EncodedText(bytes) : ~DecodeArray([EncodedText(bytes) EXCEPT ![i] = Dot]).ok
<1> DEFINE n == Len(bytes)
           G == Groups(n)
           text == EncodedText(bytes)
<1>1. /\ n \in Nat /\ G \in Nat /\ 3 * G \in n..(n + 2)
      /\ text \in Seq(0..127) /\ Len(text) = 4 * G /\ DOMAIN text = 1..(4 * G)
  BY EncodeHasCharacters
<1> HIDE DEF text, G
<1>2. ~Refusal.ok
  BY DEF Refusal
<1>3. ASSUME bytes # <<>> PROVE ~DecodeArray(Tail(text)).ok /\ ~DecodeText(Tail(text)).ok
  <2>1. n # 0
    BY <1>3, EmptySeq
  <2>2. G \in Nat \ {0}
    <3> HIDE DEF n
    <3> QED BY <1>1, <2>1, SMT
  <2>3. text # <<>>
    <3>1. 4 * G # 0
      BY <2>2, SMT
    <3> QED BY <1>1, <3>1, EmptySeq
  <2>4. Len(Tail(text)) = 4 * G - 1
    BY <1>1, <2>3, HeadTailProperties
  <2>5. Len(Tail(text)) % 4 # 0
    <3>1. (4 * G - 1) % 4 # 0
      BY <2>2, SMT
    <3> QED BY <2>4, <3>1
  <2> QED BY <1>2, <2>5 DEF DecodeArray, DecodeText
<1>4. ASSUME NEW i \in DOMAIN text PROVE ~DecodeArray([text EXCEPT ![i] = Dot]).ok
  <2> DEFINE spoilt == [text EXCEPT ![i] = Dot]
  <2>1. i \in DOMAIN spoilt /\ spoilt[i] = Dot
    BY <1>4
  <2>2. DecodeGroups(spoilt) = Refusal
    <3> HIDE DEF spoilt
    <3> QED BY <2>1, AlphabetIsDecoded DEF DecodeGroups
  <2> HIDE DEF spoilt
  <2>3. DecodeArray(spoilt).ok = FALSE
    <3> DEFINE r == [Refusal EXCEPT !.bytes = SubSeq(@, 1, Len(@) - Refusal.pads)]
    <3>1. DecodeArray(spoilt) = IF Len(spoilt) % 4 # 0 THEN Refusal ELSE r
      BY <2>2 DEF DecodeArray
    <3>2. r.ok = FALSE
      BY DEF Refusal
    <3> HIDE DEF r
    <3> QED BY <1>2, <3>1, <3>2 DEF Refusal
  <2> QED BY <2>3 DEF spoilt
<1> QED BY <1>3, <1>4 DEF text

\* A text in which there is a nought is refused.
LEMMA NoughtIsRefused ==
  ASSUME NEW text, NEW i \in DOMAIN text, text[i] = 0
  PROVE  ~DecodeArray(text).ok /\ ~DecodeText(text).ok
<1>1. DecodingAlphabet[0] = Unknown
  <2>1. ~\E v \in 0..63 : EncodingAlphabet[v] = 0
    <3>1. \A v \in 0..63 : EncodingAlphabet[v] = IF v < 26 THEN 65 + v
                                            ELSE IF v < 52 THEN 97 + v - 26
                                            ELSE IF v < 62 THEN 48 + v - 52
                                            ELSE IF v = 62 THEN 43 ELSE 47
      BY SMT DEF EncodingAlphabet
    <3> QED BY <3>1, SMTT(30)
  <2> QED BY <2>1 DEF DecodingAlphabet, Padding
<1>2. DecodeGroups(text) = Refusal
  BY <1>1 DEF DecodeGroups
<1>3. ~Refusal.ok
  BY DEF Refusal
<1>4. ~DecodeArray(text).ok
  <2> DEFINE r == [Refusal EXCEPT !.bytes = SubSeq(@, 1, Len(@) - Refusal.pads)]
  <2>1. DecodeArray(text) = IF Len(text) % 4 # 0 THEN Refusal ELSE r
    BY <1>2 DEF DecodeArray
  <2>2. r.ok = FALSE
    BY DEF Refusal
  <2> HIDE DEF r
  <2> QED BY <1>3, <2>1, <2>2
<1>5. ~DecodeText(text).ok
  <2> DEFINE r == [Refusal EXCEPT !.bytes = UpToNought(@)]
  <2>1. DecodeText(text) = IF Len(text) % 4 # 0 THEN Refusal ELSE r
    BY <1>2, <1>3 DEF DecodeText
  <2>2. r.ok = FALSE
    BY DEF Refusal
  <2> HIDE DEF r
  <2> QED BY <1>3, <2>1, <2>2
<1> QED BY <1>4, <1>5

\* What Encode returns of bytes begins with a nought, and has no dot.
LEMMA EncodeBeginsWithNought ==
  ASSUME NEW bytes \in Seq(Octet), bytes # <<>>
  PROVE  LET text == Encode(bytes)
         IN  /\ text \in Seq(0..127) /\ text # <<>> /\ \A i \in DOMAIN text : text[i] # Dot
             /\ 1 \in DOMAIN text /\ text[1] = 0
<1> DEFINE n == ExpectedLength(Len(bytes))
           front == Empty(n)
           back == EncodedText(bytes)
           text == Encode(bytes)
<1>1. back \in Seq(0..127) /\ Len(back) \in Nat /\ DOMAIN back = 1..Len(back) /\ \A i \in DOMAIN back : back[i] # Dot
  BY EncodedHasText, LenProperties
<1>2. n \in Nat /\ n >= 1
  <2>1. Len(bytes) \in Nat /\ Len(bytes) # 0
    BY LenProperties, EmptySeq
  <2> QED BY <2>1, SMT DEF ExpectedLength
<1>3. front \in Seq(0..127) /\ Len(front) = n /\ \A i \in 1..n : front[i] = 0
  <2>1. front \in [1..n -> 0..127]
    BY SMT DEF Empty
  <2>2. \A i \in 1..n : front[i] = 0
    BY DEF Empty
  <2> HIDE DEF front, n
  <2> QED BY <1>2, <2>1, <2>2, FunctionIsSequence
<1>4. text = front \o back
  BY DEF Encode
<1> HIDE DEF front, back, n, text
<1>5. /\ text \in Seq(0..127) /\ Len(text) = n + Len(back)
      /\ \A i \in 1..(n + Len(back)) : text[i] = IF i <= n THEN front[i] ELSE back[i - n]
  BY <1>1, <1>3, <1>4, ConcatProperties
<1>6. DOMAIN text = 1..(n + Len(back))
  BY <1>5, LenProperties
<1>7. 1 \in DOMAIN text /\ text[1] = 0
  BY <1>1, <1>2, <1>3, <1>5, <1>6, SMT
<1>8. ASSUME NEW i \in DOMAIN text PROVE text[i] # Dot
  <2>1. CASE i <= n
    <3>1. i \in 1..n
      BY <1>1, <1>2, <1>6, <2>1, SMT
    <3>2. text[i] = 0
      BY <1>3, <1>5, <1>6, <2>1, <3>1
    <3> QED BY <3>2 DEF Dot
  <2>2. CASE ~(i <= n)
    <3>1. i - n \in 1..Len(back)
      BY <1>1, <1>2, <1>6, <2>2, SMT
    <3>2. text[i] = back[i - n]
      BY <1>5, <1>6, <2>2
    <3> QED BY <1>1, <3>1, <3>2
  <2> QED BY <2>1, <2>2
<1>9. text # <<>>
  BY <1>7
<1> QED BY <1>5, <1>7, <1>8, <1>9 DEF text

\* Nothing that Encode returns is decoded, nor the name of a file.
LEMMA EncodeIsRefused ==
  ASSUME NEW bytes \in Seq(Octet), bytes # <<>>
  PROVE  /\ ~DecodeArray(Encode(bytes)).ok
         /\ ~DecodeText(Encode(bytes)).ok
         /\ ~DecodeExceptExtension(EncodeExceptExtension(bytes)).ok
<1>1. ~DecodeArray(Encode(bytes)).ok /\ ~DecodeText(Encode(bytes)).ok
  <2>1. 1 \in DOMAIN Encode(bytes) /\ Encode(bytes)[1] = 0
    BY EncodeBeginsWithNought
  <2> QED BY <2>1, NoughtIsRefused
<1>2. CASE ~HasExtension(bytes)
  <2>1. ~HasExtension(Encode(bytes))
    BY EncodeBeginsWithNought, NoDotNoExtension
  <2> QED BY <1>1, <1>2, <2>1 DEF EncodeExceptExtension, DecodeExceptExtension
<1>3. CASE HasExtension(bytes)
  <2> DEFINE text == Encode(Stem(bytes))
             whole == text \o Extension(bytes)
  <2>1. Stem(bytes) \in Seq(Octet) /\ Stem(bytes) # <<>>
    <3>1. /\ Stem(bytes) \in Seq(Octet) /\ Len(Stem(bytes)) = LastDot(bytes) - 1
          /\ LastDot(bytes) \in 2..(Len(bytes) - 1) /\ Len(bytes) \in Nat
      BY <1>3, NameIsDivided
    <3>2. LastDot(bytes) - 1 # 0
      BY <3>1, SMT
    <3> QED BY <3>1, <3>2, EmptySeq
  <2>2. /\ text \in Seq(0..127) /\ text # <<>> /\ \A i \in DOMAIN text : text[i] # Dot
        /\ 1 \in DOMAIN text /\ text[1] = 0
    BY <2>1, EncodeBeginsWithNought
  <2> HIDE DEF text
  <2>3. HasExtension(whole) /\ Stem(whole) = text
    BY <1>3, <2>2, StemIsReplaced
  <2>4. ~DecodeText(text).ok
    BY <2>2, NoughtIsRefused
  <2>5. EncodeExceptExtension(bytes) = whole
    BY <1>3 DEF EncodeExceptExtension, text
  <2>6. DecodeExceptExtension(whole) = DecodeText(text)
    BY <2>3, <2>4 DEF DecodeExceptExtension
  <2> QED BY <1>1, <2>4, <2>5, <2>6
<1> QED BY <1>1, <1>2, <1>3

\* Of whatever bytes, as an array and, when they are characters, as a text or the name of a
\* file: the text behind the noughts is decoded to the same ones, a spoilt text is refused, and
\* what Encode returns is refused too, unless there is nothing in it.
THEOREM EveryTextIsDecoded ==
  ASSUME NEW bytes \in Seq(0..255)
  PROVE  /\ Same(DecodeArray(EncodedText(bytes)), bytes)
         /\ IsText(bytes) => /\ Same(DecodeText(EncodedText(bytes)), bytes)
                             /\ Same(DecodeExceptExtension(EncodedName(bytes)), bytes)
         /\ bytes # <<>> => ~DecodeArray(Tail(EncodedText(bytes))).ok /\ ~DecodeText(Tail(EncodedText(bytes))).ok
         /\ \A i \in DOMAIN EncodedText(bytes) : ~DecodeArray([EncodedText(bytes) EXCEPT ![i] = Dot]).ok
         /\ bytes # <<>> => /\ ~DecodeArray(Encode(bytes)).ok
                            /\ ~DecodeText(Encode(bytes)).ok
                            /\ ~DecodeExceptExtension(EncodeExceptExtension(bytes)).ok
<1>1. bytes \in Seq(Octet)
  BY DEF Octet
<1>2. Same(DecodeArray(EncodedText(bytes)), bytes)
  BY <1>1, ArrayComesBack
<1>3. ASSUME IsText(bytes)
      PROVE  /\ Same(DecodeText(EncodedText(bytes)), bytes)
             /\ Same(DecodeExceptExtension(EncodedName(bytes)), bytes)
  <2>1. \A i \in DOMAIN bytes : bytes[i] # 0
    <3>1. 0 \notin 1..127
      BY SMT
    <3> QED BY <1>3, <3>1 DEF IsText
  <2> QED BY <1>1, <2>1, TextComesBack, NameComesBack
<1> HIDE DEF Octet
<1>4. /\ bytes # <<>> => ~DecodeArray(Tail(EncodedText(bytes))).ok /\ ~DecodeText(Tail(EncodedText(bytes))).ok
      /\ \A i \in DOMAIN EncodedText(bytes) : ~DecodeArray([EncodedText(bytes) EXCEPT ![i] = Dot]).ok
  BY <1>1, SpoiltIsRefused
<1>5. bytes # <<>> => /\ ~DecodeArray(Encode(bytes)).ok
                      /\ ~DecodeText(Encode(bytes)).ok
                      /\ ~DecodeExceptExtension(EncodeExceptExtension(bytes)).ok
  BY <1>1, EncodeIsRefused
<1> QED BY <1>2, <1>3, <1>4, <1>5

\* Of every source, however long: it is a sequence of bytes, and so its text comes back, and
\* what Encode makes of it does not.
THEOREM SourcesAreText == SourceSpec => []OnlyTheTextIsDecoded
<1> DEFINE SourceInv == source \in Seq(0..255)
<1>1. SourceInit => SourceInv
  BY EmptySeq DEF SourceInit
<1>2. SourceInv /\ [Extend]_source => SourceInv'
  <2> SUFFICES ASSUME SourceInv, [Extend]_source PROVE SourceInv'
    OBVIOUS
  <2>1. CASE Extend
    <3>1. PICK byte \in SourceByte : source' = Append(source, byte)
      BY <2>1 DEF Extend
    <3>2. byte \in 0..255
      BY BytesAreBytes
    <3> QED BY <3>1, <3>2, AppendProperties
  <2>2. CASE UNCHANGED source
    BY <2>2
  <2> QED BY <2>1, <2>2
<1>3. SourceInv => OnlyTheTextIsDecoded
  <2> SUFFICES ASSUME SourceInv PROVE OnlyTheTextIsDecoded
    OBVIOUS
  <2>1. source \in Seq(0..255)
    OBVIOUS
  <2> QED BY <2>1, EveryTextIsDecoded DEF OnlyTheTextIsDecoded
<1> QED BY <1>1, <1>2, <1>3, PTL DEF SourceSpec
=============================================================================
