--------------------------- MODULE MCDescriptors ---------------------------
(***************************************************************************)
(* Instances of Descriptors for TLC.                                       *)
(***************************************************************************)
EXTENDS Descriptors
=============================================================================
