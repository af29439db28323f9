--------------------------- MODULE MCEnvironment ----------------------------
(***************************************************************************)
(* Instances of Environment for TLC.                                       *)
(***************************************************************************)
EXTENDS Environment, TLC

Symmetry == Permutations(Words)
=============================================================================
