----------------------------- MODULE MCDxeTimer -----------------------------
(* Small instances of DxeTimer for TLC.                                     *)
EXTENDS DxeTimer

CONSTANTS t1, t2, t3
=============================================================================
