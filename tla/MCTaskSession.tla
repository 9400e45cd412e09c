-------------------------- MODULE MCTaskSession --------------------------
(* Instances of TaskSession for TLC: two roots, streams of three requests. *)
EXTENDS TaskSession

CONSTANTS rootA, rootB

TwoRoots == {rootA, rootB}
=============================================================================
