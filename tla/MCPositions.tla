--------------------------- MODULE MCPositions ---------------------------
(* Instances of Positions for TLC: files of up to four runes. *)
EXTENDS Positions

AllRunes == {"lf", "cr", "one", "two", "four", "bad"}
=============================================================================
