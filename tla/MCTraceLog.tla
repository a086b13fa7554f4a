------------------------------ MODULE MCTraceLog ------------------------------
(* Instances of TraceLog small enough for TLC: the adapter with its faults   *)
(* while nobody looks, and the page with requests that overlap while the     *)
(* adapter and the board write and no upload fails.                          *)
EXTENDS TraceLog, TLC

CONSTANTS w1, w2, f1, f2

Unwatched == [emissions |-> 2, calls |-> 1, faults |-> 2, restarts |-> 1, requests |-> 0]
Watched == [emissions |-> 2, calls |-> 1, faults |-> 0, restarts |-> 1, requests |-> 3]
MCBounds == {Unwatched, Watched}

Symmetry == Permutations({w1, w2}) \cup Permutations({f1, f2})
=============================================================================
