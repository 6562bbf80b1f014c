---------------------------- MODULE MCVariable ------------------------------
(* The variable store, for TLC.                                             *)
EXTENDS VariableStore

CONSTANTS a, b, u, w

MixedSize == [v \in Values |-> IF v = w THEN 2 ELSE 1]
=============================================================================
