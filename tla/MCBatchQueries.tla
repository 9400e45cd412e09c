-------------------------- MODULE MCBatchQueries --------------------------
(* Instances of BatchQueries for TLC.                                      *)
EXTENDS BatchQueries

CONSTANTS w1, w2, w3

Pool       == {w1, w2, w3}
\* Below one, one, fewer than the positions, more than the positions.
SomeWanted == {0, 1, 2, 5}
=============================================================================
