------------------------------- MODULE MCBio -------------------------------
(* Instances of Bio for TLC.                                               *)
EXTENDS Bio, TLC

CONSTANTS p1, p2, p3, p4

Symmetry == Permutations(Procs)
=============================================================================
