-------------------------- MODULE MCModuleRoots --------------------------
(* Instances of ModuleRoots for TLC: a root, a directory with one below it, *)
(* and a directory beside them.                                             *)
EXTENDS ModuleRoots, TLC

CONSTANTS top, a, ab, c

FourDirs == {top, a, ab, c}
Tree     == (top :> {top}) @@ (a :> {top, a}) @@ (ab :> {top, a, ab}) @@ (c :> {top, c})
=============================================================================
