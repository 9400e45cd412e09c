---------------------------- MODULE ModuleRoots ----------------------------
(***************************************************************************)
(* Which module a package is loaded from: Packages, moduleRoots and        *)
(* patternsForRoot of internal/load/load.go, for a project with nested     *)
(* modules and perhaps a go.work.                                          *)
(*                                                                         *)
(* A directory holds one package with one source file, and stands for all  *)
(* three.  The text of go.work is a list of the directories it uses, some  *)
(* of which may not exist or hold no go.mod.                               *)
(***************************************************************************)
EXTENDS Integers, Sequences, SequencesExt, FiniteSetsExt

CONSTANTS
    Dirs,       \* the directories of the project
    Top,        \* its root
    Above,      \* Above[d]: d and the directories it lies in, up to Top
    Gone,       \* a directory go.work names that does not exist
    MaxUses     \* bound: entries of go.work

ASSUME ModuleRootsAssumption ==
    /\ Top \in Dirs /\ Gone \notin Dirs /\ MaxUses \in Nat
    /\ Above \in [Dirs -> SUBSET Dirs]
    /\ IsFiniteSet(Dirs)
    /\ \A d \in Dirs : {d, Top} \subseteq Above[d]
    /\ \A d \in Dirs : \A e, g \in Above[d] :
           /\ Above[e] \subseteq Above[d]
           /\ e \in Above[g] \/ g \in Above[e]
           /\ e \in Above[g] /\ g \in Above[e] => e = g

VARIABLES
    mods,       \* directories that hold a go.mod
    uses,       \* what go.work uses; <<>> also when there is no go.work
    wanted,     \* files of an incremental request; {} asks for ./...
    stage,
    roots,      \* the module directories to load, in order
    next,       \* the entry of uses, then of roots, whose turn it is
    out,        \* the packages loaded, each with the root it came from
    failed      \* the roots whose packages.Load returned an error

project == <<mods, uses, wanted>>
vars    == <<mods, uses, wanted, stage, roots, next, out, failed>>

Init ==
    /\ mods \in SUBSET Dirs
    /\ uses \in UNION {[1..n -> Dirs \cup {Gone}] : n \in 0..MaxUses}
    /\ wanted \in SUBSET Dirs
    /\ stage = "uses" /\ roots = <<>> /\ next = 1
    /\ out = <<>> /\ failed = {}

Within(root, d) == root \in Above[d]
Deeper(d, e)    == Cardinality(Above[d]) > Cardinality(Above[e])
Deepest(ds)     == CHOOSE d \in ds : \A e \in ds \ {d} : Deeper(d, e)
Modules(d)      == Above[d] \cap mods
Nearest(d)      == Deepest(Modules(d))

---------------------------------------------------------------------------
(* moduleRoots: go.work, else the modules of the files, else the root's    *)
(* go.mod, else the modules one level down, else the root all the same.    *)

\* parseGoWorkUses: the entries that exist, in order.
FilterUse ==
    /\ stage = "uses" /\ next <= Len(uses)
    /\ roots' = IF uses[next] = Gone THEN roots ELSE Append(roots, uses[next])
    /\ next' = next + 1
    /\ UNCHANGED <<project, stage, out, failed>>

\* moduleRootsForFiles: from each file upwards to the first go.mod.
FileRoots == {Nearest(f) : f \in {f \in wanted : Modules(f) # {}}}

OneLevelDown == {d \in mods : Cardinality(Above[d]) = 2}

\* Fault: a go.mod at the root is enough not to look for nested modules.
ModuleRootsFound_TopFirst ==
    IF roots # <<>> THEN roots
    ELSE IF Top \in mods THEN <<Top>>
    ELSE IF FileRoots # {} THEN SetToSeq(FileRoots)
    ELSE IF OneLevelDown # {} THEN SetToSeq(OneLevelDown) ELSE <<Top>>

\* Fault: a project without any go.mod has nothing to load.
ModuleRootsFound_NoFallback ==
    IF roots # <<>> THEN roots
    ELSE IF FileRoots # {} THEN SetToSeq(FileRoots)
    ELSE IF Top \in mods THEN <<Top>> ELSE SetToSeq(OneLevelDown)

ModuleRootsFound ==
    IF roots # <<>> THEN roots
    ELSE IF FileRoots # {} THEN SetToSeq(FileRoots)
    ELSE IF Top \in mods \/ OneLevelDown = {} THEN <<Top>>
    ELSE SetToSeq(OneLevelDown)

FindRoots ==
    /\ stage = "uses" /\ next > Len(uses)
    /\ roots' = ModuleRootsFound /\ next' = 1
    /\ stage' = "load"
    /\ UNCHANGED <<project, out, failed>>

---------------------------------------------------------------------------
(* patternsForRoot and the loop of Packages.                               *)

\* Fault: every root that contains the file is asked for it.
Owns_Containing(root, f) == Within(root, f)

\* ownerRootForFile: of the roots that contain the file, the deepest.
Owns(root, f) ==
    /\ Within(root, f)
    /\ root = Deepest({r \in ToSet(roots) : Within(r, f)})

FilesFor(root) == {f \in wanted : Owns(root, f)}

\* Fault: a root inside one that has been loaded is passed over too.
Skipped_Nested(root) ==
    \/ wanted # {} /\ FilesFor(root) = {}
    \/ \E i \in 1..(next - 1) : roots[i] # root /\ Within(roots[i], root)

\* With files wanted, a root that owns none of them is not loaded at all.
Skipped(root) == wanted # {} /\ FilesFor(root) = {}

Current == roots[next]
More    == stage = "load" /\ next <= Len(roots)

SkipRoot ==
    /\ More /\ Skipped(Current)
    /\ next' = next + 1
    /\ UNCHANGED <<project, stage, roots, out, failed>>

LoadFails ==
    /\ More /\ ~Skipped(Current)
    /\ next' = next + 1 /\ failed' = failed \cup {Current}
    /\ UNCHANGED <<project, stage, roots, out>>

\* External: what packages.Load finds. The packages of the module at root, if it is
\* one, and perhaps others under it that a workspace makes visible.
Asked(root) == IF wanted = {} THEN {d \in Dirs : Within(root, d)} ELSE FilesFor(root)
OwnPackages(root) ==
    {d \in Asked(root) : Modules(d) # {} /\ root = Nearest(d)}

Fresh(found) == found \ {p.package : p \in ToSet(out)}

LoadRoot(found) ==
    /\ More /\ ~Skipped(Current)
    /\ OwnPackages(Current) \subseteq found /\ found \subseteq Asked(Current)
    /\ out' = out \o SetToSeq([package : Fresh(found), root : {Current}])
    /\ next' = next + 1
    /\ UNCHANGED <<project, stage, roots, failed>>

Rejects == out = <<>>

Ends ==
    /\ stage = "load" /\ next > Len(roots)
    /\ stage' = IF Rejects THEN "error" ELSE "done"
    /\ UNCHANGED <<project, roots, next, out, failed>>

Finished == stage \in {"done", "error"} /\ UNCHANGED vars

Next ==
    \/ FilterUse \/ FindRoots \/ SkipRoot \/ LoadFails
    \/ \E found \in SUBSET Dirs : LoadRoot(found)
    \/ Ends \/ Finished

Spec == Init /\ [][Next]_vars

---------------------------------------------------------------------------
Existing == ToSet(uses) \ {Gone}
Loaded   == {p.package : p \in ToSet(out)}
Requests(f) == {i \in 1..Len(roots) : f \in FilesFor(roots[i])}

TypeOK ==
    /\ mods \subseteq Dirs /\ wanted \subseteq Dirs
    /\ uses \in Seq(Dirs \cup {Gone}) /\ roots \in Seq(Dirs)
    /\ stage \in {"uses", "load", "done", "error"}
    /\ next \in 1..(Len(IF stage = "uses" THEN uses ELSE roots) + 1)
    /\ stage # "uses" => roots # <<>>
    /\ out \in Seq([package : Dirs, root : ToSet(roots)])
    /\ failed \subseteq ToSet(roots)

\* A wanted file is asked of one module only (twice if go.work names it twice):
\* "asking every module to load the same absolute file causes avoidable errors".
\* And the graph holds each package once, though workspace modules overlap.
OneOwner ==
    /\ \A f \in wanted : Cardinality({roots[i] : i \in Requests(f)}) <= 1
    /\ Len(out) = Cardinality(Loaded)

\* A wanted file is loaded, and from the nearest module, which shadows the ones
\* around it, whatever becomes of the other modules of the request.  Lost are
\* only files outside every module, outside every module go.work uses, or of a
\* module that does not load itself; and what a go.work brings that lists a
\* directory without a go.mod, which parseGoWorkUses keeps and go refuses.
FilesLoaded ==
    stage \in {"done", "error"} =>
        \A f \in wanted :
            Modules(f) # {} /\ Existing \subseteq mods
                /\ (Existing # {} => Nearest(f) \in Existing) /\ Nearest(f) \notin failed =>
            stage = "done" /\ \E p \in ToSet(out) : p.package = f /\ p.root = Nearest(f)

\* "every listed module is loaded (./...) and merged": of a full request on a
\* workspace no package is missing, nested modules and repeated entries included.
ListedLoaded ==
    stage \in {"done", "error"} /\ wanted = {} =>
        \A d \in Existing : d \notin failed => OwnPackages(d) \subseteq Loaded
=============================================================================
