------------------------------- MODULE MCFtw --------------------------------
(* Instances of Ftw for TLC: the constants are given in the configurations. *)
EXTENDS Ftw
=============================================================================
