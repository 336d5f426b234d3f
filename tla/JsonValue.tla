------------------------------ MODULE JsonValue ------------------------------
(***************************************************************************)
(* What BKJson::Node promises its users: each node is a value of its own.  *)
(* An operation on one leaves every other as it was, however they came to  *)
(* be copies of each other.  A node that is added to itself would be a     *)
(* value without end: from then on nothing is promised.                    *)
(***************************************************************************)
EXTENDS JsonTree

CONSTANTS Handle,   \* the nodes a program holds
          Name,     \* of the children of an object
          Literal   \* values as they are written: a type and a text

VARIABLE value

ContainerType == {"object", "array"}
ValueType == {"null", "string", "number", "bool"}

IsValue(node) == node.type \in ValueType
IsContainer(node) == node.type \in ContainerType
Indices(node) == DOMAIN node.children
Named(node, name) == {i \in Indices(node) : node.children[i].name = name}

ValueInit == value = [a \in Handle |-> Invalid]

Becomes(a, node) == value' = [value EXCEPT ![a] = node]

\* A new node, a copy of another, and what is got from another.
Build(a) == \E type \in ContainerType : Becomes(a, Container(type, <<>>))
Assign(a) == \E b \in Handle : Becomes(a, value[b])
GetAt(a) == \E b \in Handle : \E i \in Indices(value[b]) : Becomes(a, value[b].children[i].node)
Destroy(a) == Becomes(a, Invalid)

\* The value of a node that is one already, or of a new one.
MakeValue(a) == \E literal \in Literal : Becomes(a, MakeNode(literal.type, literal.text))
Overwrite(a) == IsValue(value[a]) /\ MakeValue(a)

AddOne(a) ==
  /\ IsContainer(value[a])
  /\ \E b \in Handle, name \in Name : Becomes(a, AddChild(value[a], name, value[b]))
AppendAll(a) ==
  \E b \in Handle :
    /\ IsContainer(value[a]) /\ value[b].type = value[a].type
    /\ Becomes(a, [value[a] EXCEPT !.children = @ \o value[b].children])
RemoveOne(a) ==
  \E i \in Indices(value[a]) : Becomes(a, [value[a] EXCEPT !.children = RemoveAt(@, i)])
Empty(a) == Becomes(a, [value[a] EXCEPT !.children = <<>>])

AddToItself == (\E a \in Handle : IsContainer(value[a])) /\ value' = [a \in Handle |-> Endless]

ValueNext ==
  \/ \E a \in Handle :
       Build(a) \/ Assign(a) \/ GetAt(a) \/ Destroy(a) \/ MakeValue(a) \/ Overwrite(a)
       \/ AddOne(a) \/ AppendAll(a) \/ RemoveOne(a) \/ Empty(a)
  \/ AddToItself

ValueSpec == ValueInit /\ [][ValueNext]_value
=============================================================================
