----------------------------- MODULE MCSignals ------------------------------
(***************************************************************************)
(* Instances of Signals for TLC.                                           *)
(***************************************************************************)
EXTENDS Signals
=============================================================================
