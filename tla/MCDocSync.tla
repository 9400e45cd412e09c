---------------------------- MODULE MCDocSync ----------------------------
(* Instances of DocSync for TLC: two files that differ, two workers. *)
EXTENDS DocSync, TLC

CONSTANTS fileA, fileB, old, new, w1, w2

TwoFiles   == {fileA, fileB}
TwoTexts   == {old, new}
TwoWorkers == {w1, w2}
Symmetric  == Permutations(TwoFiles) \cup Permutations(TwoTexts) \cup Permutations(TwoWorkers)
=============================================================================
