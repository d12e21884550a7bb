----------------------------- MODULE MCStartGate ----------------------------
(* Three coins of equal capital: the budget affords two of them at the larger equity
   and one at the smaller.  No symmetry set: the run checks a liveness property. *)
EXTENDS StartGate, TLC

CONSTANTS btc, eth, sol, sA, sB

EqualCapital == [s \in Symbols |-> 4]
=============================================================================
