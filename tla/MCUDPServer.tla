---------------------------- MODULE MCUDPServer -----------------------------
(* Two tasks, and one connection with two records in turn, or one and one party. *)
EXTENDS UDPServer, TLC

CONSTANTS p1, p2, r1, r2, r3, c1, o1

MCTask == {p1, p2}
MCConnectionRecord == {r1, r2}
MCPartyRecord == {r3}
MCConnection == {c1}
MCParty == {o1}
MCSymmetry == Permutations(MCTask) \cup Permutations(MCConnectionRecord)

\* No property speaks of what follows undefined behaviour, or EndSystem with another
\* thread inside the handler.  Of the three records two are made.
MCFollowed ==
  /\ \E r \in Record : made[r] = "no"
  /\ ~disturbed
  /\ handler # "undefined"
  /\ ticker.at # "undefined" /\ \A p \in Task : task[p].at # "undefined"
=============================================================================
