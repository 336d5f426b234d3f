----------------------------- MODULE MCTaskPool -----------------------------
(* TaskPool for TLC: two producers and three tasks, one with borrowed      *)
(* parameters and one that may run out of memory.                          *)
EXTENDS TaskPool

CONSTANTS p1, p2, t1, t2, t3

MCProducer == {p1, p2}
MCTask == {t1, t2, t3}
MCBorrowed == {t3}
MCExhausting == {t2}
=============================================================================
