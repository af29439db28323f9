----------------------------- MODULE MCControl -----------------------------
(***************************************************************************)
(* The worlds that Control is checked in.                                  *)
(***************************************************************************)
EXTENDS Control

World(settors, signals, depth) ==
    [settors |-> settors, throwing |-> FALSE, signals |-> signals, maxevaldepth |-> depth]
Orderly  == {World({"path"}, 0, 640), World({}, 1, 4)}
Deep     == {World({"path"}, 0, 4)}
=============================================================================
