------------------------ MODULE MCReliableHandshake -------------------------
(* ReliableHandshake for TLC: two peers.                                   *)
EXTENDS ReliableHandshake, TLC

CONSTANTS a, b

MCPeer == {a, b}
MCSender == {a}
Symmetry == Permutations(MCPeer)

\* Bound: one of the two handlers is marked for death, and a thread that is past the test
\* goes on while at most three packets are under way.
MCBounded ==
  /\ Cardinality({p \in Peer : life[p] # "running"}) <= 1
  /\ passed # {} => Cardinality(network) <= 3
=============================================================================
