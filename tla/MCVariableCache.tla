-------------------------- MODULE MCVariableCache ---------------------------
(* The variable store composed with its runtime cache, for TLC.             *)
EXTENDS VariableCache

CONSTANTS a, b, u, w

MixedSize == [v \in Values |-> IF v = w THEN 2 ELSE 1]
=============================================================================
