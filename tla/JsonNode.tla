------------------------------- MODULE JsonNode -------------------------------
(***************************************************************************)
(* BKJson::Node as it is made: a pointer to data that nodes share and      *)
(* count, and that a node detaches itself from before it writes.           *)
(*                                                                         *)
(* A program may add a node to itself, which makes it its own child.  It   *)
(* does not write through an iterator.                                     *)
(***************************************************************************)
EXTENDS JsonTree, FiniteSets

CONSTANTS Handle,       \* the nodes a program holds
          MaxCell,      \* bound: data at a time
          MaxChildren,  \* bound: children of a node
          Name,         \* of the children of an object
          Literal       \* values as they are written: a type and a text

VARIABLES data,   \* of a handle: its cell or null
          heap,   \* of a cell: its Data
          looped  \* history: a node was added to itself

nodeVars == <<data, heap, looped>>

ASSUME HandlesAreFinite == IsFiniteSet(Handle)
ASSUME BoundsAreNumbers == MaxCell \in Nat /\ MaxChildren \in Nat
ASSUME LiteralsAreValues == \A literal \in Literal : literal.type \in {"null", "string", "number", "bool"}

Cell == 1..MaxCell
NoData == 0
Freed == [refs |-> 0, type |-> "freed", text |-> <<>>, children |-> <<>>]

NodeInit ==
  /\ data = [a \in Handle |-> NoData]
  /\ heap = [c \in Cell |-> Freed]
  /\ looped = FALSE

-----------------------------------------------------------------------------
(* Data: its count, its copy, its deletion.                                *)

\* The count of c goes up by n.
AddRef(h, c, n) == IF c = NoData THEN h ELSE [h EXCEPT ![c].refs = @ + n]

Occurrences(children, c) == Cardinality({i \in DOMAIN children : children[i].cell = c})

\* Fault: a child counts once, however often it is there.
AddRefsOnce(h, children) ==
  [c \in Cell |-> [h[c] EXCEPT !.refs = IF Occurrences(children, c) = 0 THEN @ ELSE @ + 1]]

AddRefs(h, children) == [c \in Cell |-> [h[c] EXCEPT !.refs = @ + Occurrences(children, c)]]

\* The places among the children of the data in D where c is.
Places(h, D, c) ==
  {p \in D \X (1..MaxChildren) : p[2] \in DOMAIN h[p[1]].children /\ h[p[1]].children[p[2]].cell = c}
References(h, D, c) == Cardinality(Places(h, D, c))

\* release, given[c] times for each c; the data whose last reference that was is deleted, its
\* children release what they refer to, and so on.
LastReleased(h, given, D) == {c \in Cell : h[c].refs <= given[c] + References(h, D, c)}
Deleted(h, given) ==
  LET closed == {D \in SUBSET Cell : LastReleased(h, given, D) \subseteq D}
  IN  {c \in Cell : \A D \in closed : c \in D}
GiveUp(h, given) ==
  LET gone == Deleted(h, given)
  IN  [c \in Cell |-> IF c \in gone THEN Freed
                      ELSE [h[c] EXCEPT !.refs = @ - (given[c] + References(h, gone, c))]]

Release(h, c) == GiveUp(h, [d \in Cell |-> IF d = c THEN 1 ELSE 0])
ReleaseAll(h, children) == GiveUp(h, [d \in Cell |-> Occurrences(children, d)])

FreeCells(h) == {c \in Cell : h[c] = Freed}
NewCell(h) == FirstOf(FreeCells(h))
NewData(type, text, children) == [refs |-> 1, type |-> type, text |-> text, children |-> children]

-----------------------------------------------------------------------------
(* Detach.                                                                 *)

Shared(a) == data[a] # NoData /\ heap[data[a]].refs > 1

\* The cell the node writes to, and the heap then.
Detach(a) ==
  IF ~Shared(a) THEN [cell |-> data[a], heap |-> heap]
  ELSE LET old == heap[data[a]]
           copy == NewData(old.type, old.text, old.children)
       IN  [cell |-> NewCell(heap),
            heap |-> Release(AddRefs([heap EXCEPT ![NewCell(heap)] = copy], old.children), data[a])]

MayDetach(a) == Shared(a) => FreeCells(heap) # {}

\* A write to the node's own data.
Write(a, type, text) ==
  LET d == Detach(a)
  IN  /\ data' = [data EXCEPT ![a] = d.cell]
      /\ heap' = [d.heap EXCEPT ![d.cell] = NewData(type, text, <<>>)]

KindOf(a) == IF data[a] = NoData THEN "invalid" ELSE heap[data[a]].type
IsContainerNode(a) == KindOf(a) \in {"object", "array"}
IsValueNode(a) == KindOf(a) \in {"null", "string", "number", "bool"}
ChildrenOf(a) == IF data[a] = NoData THEN <<>> ELSE heap[data[a]].children

-----------------------------------------------------------------------------
(* The operations.                                                         *)

\* operator=: what the node referred to is released before the other's data is.
Takes(a, h, c) ==
  /\ data' = [data EXCEPT ![a] = c]
  /\ heap' = AddRef(Release(h, data[a]), c, 1)

\* A temporary was made, is assigned and dies.
TakesNew(a, d) ==
  /\ FreeCells(heap) # {}
  /\ LET c == NewCell(heap)
         held == Release([heap EXCEPT ![c] = d], data[a])
     IN  data' = [data EXCEPT ![a] = c] /\ heap' = held

\* The text that is kept of one that is given.
TextOf(literal) == MakeNode(literal.type, literal.text).text

NewContainer(a, type) == TakesNew(a, NewData(type, <<>>, <<>>))
NewValue(a, literal) == TakesNew(a, NewData(literal.type, TextOf(literal), <<>>))

AssignNode(a, b) == a # b /\ Takes(a, heap, data[b])
DestroyNode(a) == data[a] # NoData /\ Takes(a, heap, NoData)

SetNode(a, literal) ==
  /\ IsValueNode(a) /\ MayDetach(a)
  /\ Write(a, literal.type, TextOf(literal))

\* The child is a copy of the other node, which refers to the same data; of the node itself
\* when it is added to itself, once it has been detached.
Add(a, name, b) ==
  /\ IsContainerNode(a) /\ MayDetach(a)
  /\ Len(ChildrenOf(a)) < MaxChildren
  /\ LET d == Detach(a)
         cell == IF a = b THEN d.cell ELSE data[b]
         child == [name |-> IF KindOf(a) = "object" THEN name ELSE <<>>, cell |-> cell]
     IN  /\ data' = [data EXCEPT ![a] = d.cell]
         /\ heap' = [AddRef(d.heap, cell, 1) EXCEPT ![d.cell].children = Append(@, child)]

\* A node appended to itself is not defined (insert, of a vector's own elements); the libraries
\* copy them before they go, and the list is there twice.
AppendNode(a, b) ==
  /\ IsContainerNode(a) /\ KindOf(a) = KindOf(b) /\ MayDetach(a)
  /\ Len(ChildrenOf(a)) + Len(ChildrenOf(b)) <= MaxChildren
  /\ LET d == Detach(a)
     IN  /\ data' = [data EXCEPT ![a] = d.cell]
         /\ heap' = [AddRefs(d.heap, ChildrenOf(b)) EXCEPT ![d.cell].children = @ \o ChildrenOf(b)]

\* The erased child's reference is given up.
Erase(a, i) ==
  LET d == Detach(a)
  IN  /\ data' = [data EXCEPT ![a] = d.cell]
      /\ heap' = Release([d.heap EXCEPT ![d.cell].children = RemoveAt(@, i)], ChildrenOf(a)[i].cell)

RemoveIndex(a, i) == MayDetach(a) /\ i \in DOMAIN ChildrenOf(a) /\ Erase(a, i)

\* The first of that name; a node that has none is detached all the same.
WithName(a, name) == {i \in DOMAIN ChildrenOf(a) : ChildrenOf(a)[i].name = name}
RemoveName(a, name) ==
  /\ KindOf(a) = "object" /\ MayDetach(a)
  /\ IF WithName(a, name) # {} THEN Erase(a, FirstOf(WithName(a, name)))
     ELSE data' = [data EXCEPT ![a] = Detach(a).cell] /\ heap' = Detach(a).heap

Clear(a) ==
  /\ ChildrenOf(a) # <<>> /\ MayDetach(a)
  /\ LET d == Detach(a)
     IN  /\ data' = [data EXCEPT ![a] = d.cell]
         /\ heap' = ReleaseAll([d.heap EXCEPT ![d.cell].children = <<>>], ChildrenOf(a))

\* Fault: Get returns a reference, and what it refers to may be deleted by the assignment.
GetNoCopy(a, child) == Takes(a, heap, child)

\* What Get returns is a copy that keeps the child until it is assigned, even when the
\* assignment deletes the parent.
Get(a, child) ==
  /\ data' = [data EXCEPT ![a] = child]
  /\ heap' = Release(AddRef(heap, child, 1), data[a])

GetIndex(a, b, i) == i \in DOMAIN ChildrenOf(b) /\ Get(a, ChildrenOf(b)[i].cell)

\* FString::Equals says whether two texts are different, so this is the first child of another
\* name than the one that is asked for.
WithOtherName(a, name) == {i \in DOMAIN ChildrenOf(a) : ChildrenOf(a)[i].name # name}
GetName(a, b, name) ==
  /\ KindOf(b) = "object"
  /\ LET others == WithOtherName(b, name)
     IN  Get(a, IF others = {} THEN NoData ELSE ChildrenOf(b)[FirstOf(others)].cell)

Operation(a, b) ==
  \/ \E type \in {"object", "array"} : NewContainer(a, type)
  \/ \E literal \in Literal : NewValue(a, literal) \/ SetNode(a, literal)
  \/ AssignNode(a, b) \/ DestroyNode(a)
  \/ AppendNode(a, b)
  \/ \E i \in 1..MaxChildren : RemoveIndex(a, i) \/ GetIndex(a, b, i)
  \/ \E name \in Name : RemoveName(a, name)
  \/ \E name \in Name \cup {<<>>} : GetName(a, b, name)
  \/ Clear(a)

NodeNext ==
  \E a, b \in Handle :
    \/ Operation(a, b) /\ UNCHANGED looped
    \/ \E name \in Name : Add(a, name, b) /\ looped' = (looped \/ a = b)

NodeSpec == NodeInit /\ [][NodeNext]_nodeVars

-----------------------------------------------------------------------------
(* What is promised of the data.                                           *)

\* Types, and that only containers have children.
ChildRef == [name : Name \cup {<<>>}, cell : Cell \cup {NoData}]
NodeType == {"object", "array", "null", "string", "number", "bool", "freed"}
NodeText == {<<>>} \cup {TextOf(literal) : literal \in Literal}
Data == [refs : Nat, type : NodeType, text : NodeText, children : Seq(ChildRef)]
HeapOK(h) ==
  /\ h \in [Cell -> Data]
  /\ \A c \in Cell : /\ Len(h[c].children) <= MaxChildren
                     /\ h[c].children # <<>> => h[c].type \in {"object", "array"}
NodeTypeOK == data \in [Handle -> Cell \cup {NoData}] /\ HeapOK(heap) /\ looped \in BOOLEAN

Holders(D, c) == {a \in Handle : D[a] = c}

\* Data that a program can reach through the nodes it holds.
Used(c) ==
  \A S \in SUBSET Cell :
    /\ \A a \in Handle : data[a] \in Cell => data[a] \in S
    /\ \A d \in S : \A i \in DOMAIN heap[d].children :
         heap[d].children[i].cell \in Cell => heap[d].children[i].cell \in S
    => c \in S

\* Data is kept exactly as long as a program can reach it: none is deleted under a node that
\* refers to it, and none is left behind - unless a node was added to itself, whose data is then
\* part of itself -, however the references to it were made. Its count is the number of the
\* nodes that refer to it, those a program holds and those that are children.
KeptWhileUsed ==
  \A c \in Cell :
    /\ heap[c].refs = Cardinality(Holders(data, c)) + References(heap, Cell, c)
    /\ Used(c) => heap[c] # Freed
    /\ heap[c] # Freed => Used(c) \/ looped

\* No data is part of itself, or a node was added to itself: its count never comes to nought.
Acyclic(h) ==
  \E rank \in [Cell -> 0..MaxCell] :
    \A c \in Cell : \A i \in DOMAIN h[c].children :
      h[c].children[i].cell # NoData => rank[h[c].children[i].cell] < rank[c]
NoNodeContainsItself == looped \/ Acyclic(heap)

-----------------------------------------------------------------------------
(* The value a node stands for.                                            *)

ValuesIn(h) ==
  LET node[c \in Cell \cup {NoData}] ==
        IF c = NoData THEN Invalid
        ELSE [type |-> h[c].type, text |-> h[c].text,
              children |-> [i \in DOMAIN h[c].children |->
                              Child(h[c].children[i].name, node[h[c].children[i].cell])]]
  IN  node

Documents ==
  LET node == ValuesIn(heap)
  IN  [a \in Handle |-> IF looped THEN Endless ELSE node[data[a]]]

Values == INSTANCE JsonValue WITH value <- Documents

\* Nodes that share their data behave as values of their own: what is written through one is
\* never seen through another, and nobody refers to data that was deleted - until a node is
\* added to itself, which no value can be.
ImplementsValues == Values!ValueSpec
=============================================================================
