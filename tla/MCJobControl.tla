---------------------------- MODULE MCJobControl ----------------------------
(***************************************************************************)
(* Instances of JobControl for TLC.                                        *)
(***************************************************************************)
EXTENDS JobControl, TLC

CONSTANTS p1, p2, p3

Symmetry == Permutations(Pids)
=============================================================================
