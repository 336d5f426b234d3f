------------------------------- MODULE MCTicker -------------------------------
(* Three tasks: one that loops, borrows its parameters and may cancel itself and   *)
(* the next, as the heartbeat does; one that may run out of memory; one that goes  *)
(* to the pool at once.  The third id is the first that is shared.                 *)
EXTENDS Ticker

CONSTANTS beat, heavy, immediate

MCTask == {beat, heavy, immediate}
MCWait == (beat :> 2) @@ (heavy :> 3) @@ (immediate :> 0)
MCLooping == {beat}
MCBorrowed == {beat}
MCFailing == {heavy}
MCCancels == [t \in MCTask |-> IF t = beat THEN {beat, heavy} ELSE {}]
=============================================================================
