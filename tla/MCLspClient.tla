--------------------------- MODULE MCLspClient ---------------------------
(* Instances of LspClient for TLC: two workers of a batch beside Main.     *)
EXTENDS LspProperties, TLC

CONSTANTS w1, w2

BothWorkers == {w1, w2}
WorkerSymmetry == Permutations(BothWorkers)
=============================================================================
