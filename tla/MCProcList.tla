----------------------------- MODULE MCProcList -----------------------------
(***************************************************************************)
(* Instances of ProcList for TLC.                                          *)
(***************************************************************************)
EXTENDS ProcList, TLC

Symmetry == Permutations(Cells)
=============================================================================
