-------------------------- MODULE MCTimestampOrder --------------------------
(* TimestampOrder for TLC: threads are interchangeable.                    *)
EXTENDS TimestampOrder, TLC

CONSTANTS s1, s2, h1, h2

MCSendThread == {s1, s2}
MCOneSendThread == {s1}
MCHandler == {h1, h2}
MCOneHandler == {h1}
Symmetry == Permutations(MCSendThread) \cup Permutations(MCHandler)
=============================================================================
