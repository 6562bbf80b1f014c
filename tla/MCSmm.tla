-------------------------------- MODULE MCSmm --------------------------------
(* The rendezvous for TLC.  The processors are interchangeable; the symmetry
   is used in the runs that check no liveness property.                     *)
EXTENDS SmmRendezvous, TLC

CpuSymmetry == Permutations(Cpus)
=============================================================================
