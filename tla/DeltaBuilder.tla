--------------------------- MODULE DeltaBuilder ---------------------------
(***************************************************************************)
(* The graph of one request: the local phases of parse() in their order,   *)
(* over the Context they share.  collectPackagesUnitsFunctions (nodes.go), *)
(* collectCalls (calls.go), collectInheritance, collectImplements and      *)
(* collectOverrides each go through the loaded packages again and add to   *)
(* the delta what they find, by ids that are computed from names.          *)
(*                                                                         *)
(* A program is a sequence of packages, a package a sequence of            *)
(* declarations in file order (GoTypes says what a declaration is).        *)
(* Callees are resolved already; packages are not test packages.           *)
(***************************************************************************)
EXTENDS GoTypes, Sequences, SequencesExt, FiniteSetsExt, Functions

CONSTANTS
    Programs,       \* the programs to parse
    Elsewhere       \* declarations of packages that are not loaded, universe included

\* Of functions and package variables the model also asks their calls, of types
\* dots: the packages whose names their file uses bare (import . "path").
Decls(p)       == ToSet(p.decls)
DeclsOf(prog)  == UNION {Decls(prog[i]) : i \in DOMAIN prog}
Paths(prog)    == {prog[i].path : i \in DOMAIN prog}
IsSequence(s)  == s \in Seq(ToSet(s))

WorldOf(prog)  == DeclsOf(prog) \cup Elsewhere

\* Packages have distinct paths, and their declarations, no two of which are the
\* same, are theirs.
ASSUME ProgramsAssumption ==
    \A prog \in Programs :
        /\ IsSequence(prog)
        /\ \A i, j \in DOMAIN prog : prog[i].path = prog[j].path => i = j
        /\ \A i \in DOMAIN prog :
              /\ IsSequence(prog[i].decls) /\ IsInjective(prog[i].decls)
              /\ \A d \in Decls(prog[i]) :
                    /\ d.pkg = prog[i].path
                    /\ IF IsType(d) THEN IsFiniteSet(d.methods) /\ IsFiniteSet(d.embeds)
                       ELSE IsSequence(d.calls)

\* What is declared elsewhere is of other packages, and only types and methods.
ASSUME ElsewhereAssumption ==
    /\ IsFiniteSet(Elsewhere)
    /\ \A d \in Elsewhere : IsType(d) => IsFiniteSet(d.methods)
    /\ \A prog \in Programs :
          Universe \notin Paths(prog) /\ \A d \in Elsewhere : d.pkg \notin Paths(prog)

\* They compile: a package has one type of a name, and what is embedded of a loaded
\* package, as go/types resolves it, is a type declared there; embedding is at most
\* two deep, as GoTypes has it.
ASSUME ProgramsCompile ==
    \A prog \in Programs :
        /\ \A d, e \in Types(WorldOf(prog)) : TypeRef(d) = TypeRef(e) => d = e
        /\ \A d \in {d \in DeclsOf(prog) : IsType(d)} : \A ref \in d.embeds :
              ref[1] \in Paths(prog) => \E e \in DeclsOf(prog) : IsType(e) /\ TypeRef(e) = ref
        /\ \A d \in Types(WorldOf(prog)) : \A e \in Embedded(WorldOf(prog), d) :
              \A f \in Embedded(WorldOf(prog), e) : Embedded(WorldOf(prog), f) = {}

VARIABLES
    program,        \* the packages loaded, in order
    allow,          \* the files of the request
    phase, pk, at,  \* where the pipeline is: phase, package, declaration
    current,        \* collectCalls: the function calls are attributed to
    packages, units, functions, relationships,     \* GraphDelta
    unitBy, funcBy  \* Context.UnitByQName and FuncByQName, as sets of ids

input == <<program, allow>>
place == <<phase, pk, at>>
delta == <<packages, units, functions, relationships>>
names == <<unitBy, funcBy>>
vars  == <<program, allow, phase, pk, at, current, packages, units, functions,
           relationships, unitBy, funcBy>>

AllDecls       == DeclsOf(program)
World          == WorldOf(program)
Files(prog)    == {d.file : d \in DeclsOf(prog)}
NoFunction     == <<>>

Init ==
    /\ program \in Programs /\ allow \in SUBSET Files(program)
    /\ phase = "nodes" /\ pk = 1 /\ at = 0 /\ current = NoFunction
    /\ packages = <<>> /\ units = <<>> /\ functions = <<>> /\ relationships = <<>>
    /\ unitBy = {} /\ funcBy = {}

Ids(nodes) == {n.id : n \in ToSet(nodes)}

\* Fault: addRel without SeenRel.
AddRel_Always(rels, r) == Append(rels, r)

\* addRel: a relationship is added once, and not from or to nothing.
AddRel(rels, r) == IF r \in ToSet(rels) THEN rels ELSE Append(rels, r)

\* addRel of each of a set, in an order that is left open.
AddRels(rels, new) == rels \o SetToSeq(new \ ToSet(rels))

---------------------------------------------------------------------------
(* Going through packages and declarations.                                *)

InPhase(p)  == phase = p /\ pk <= Len(program)
Package     == program[pk]
Decl        == Package.decls[at]
Allowed(d)  == d.file \in allow
AtDecl      == at \in DOMAIN Package.decls
NextDecl    == at' = at + 1 /\ UNCHANGED <<phase, pk>>
NextPackage == pk' = pk + 1 /\ at' = 0 /\ UNCHANGED phase
StartsFile  == at = 1 \/ Package.decls[at - 1].file # Decl.file

Then(p) == phase' = p /\ pk' = 1 /\ at' = 0

---------------------------------------------------------------------------
(* nodes.go.                                                               *)

\* A package of which the request has no file is left out.
StartPackage ==
    /\ InPhase("nodes") /\ at = 0
    /\ IF \E d \in Decls(Package) : Allowed(d)
       THEN packages' = Append(packages, PackageID(Package.path)) /\ NextDecl
       ELSE NextPackage /\ UNCHANGED packages
    /\ UNCHANGED <<input, current, units, functions, relationships, names>>

SkipDecl ==
    /\ InPhase("nodes") /\ AtDecl /\ (~Allowed(Decl) \/ Decl.kind = "var")
    /\ NextDecl
    /\ UNCHANGED <<input, current, delta, names>>

\* emitUnit: the types of function bodies too, as if of the package.
EmitUnit ==
    /\ InPhase("nodes") /\ AtDecl /\ Allowed(Decl) /\ IsType(Decl)
    /\ units' = Append(units, [id |-> IdOf(Decl)])
    /\ unitBy' = unitBy \cup {IdOf(Decl)}
    /\ relationships' = AddRel(relationships,
                               Rel(PackageID(Decl.pkg), "PACKAGE_TO_UNIT", IdOf(Decl)))
    /\ NextDecl
    /\ UNCHANGED <<input, current, packages, functions, funcBy>>

\* ensurePackageUnit.
Synthetic == UnitID(Package.path, "(package)")
MissesSynthetic == Decl.owner = NoOwner /\ Synthetic \notin unitBy

Owner(d) == IF d.owner = NoOwner THEN UnitID(d.pkg, "(package)") ELSE UnitID(d.pkg, d.owner)

\* Fault: the unit of the receiver is linked before it is known to be there.
Linked_Always(d) == TRUE

\* A method is linked to its type only if the type has been emitted before it.
Linked(d) == d.owner = NoOwner \/ Owner(d) \in unitBy

EmitFunction ==
    /\ InPhase("nodes") /\ AtDecl /\ Allowed(Decl) /\ Decl.kind = "func"
    /\ functions' = Append(functions, [id |-> IdOf(Decl), placeholder |-> FALSE])
    /\ funcBy' = funcBy \cup {IdOf(Decl)}
    /\ units' = IF MissesSynthetic THEN Append(units, [id |-> Synthetic]) ELSE units
    /\ unitBy' = IF MissesSynthetic THEN unitBy \cup {Synthetic} ELSE unitBy
    /\ LET rels == IF MissesSynthetic
                   THEN AddRel(relationships, Rel(PackageID(Package.path), "PACKAGE_TO_UNIT", Synthetic))
                   ELSE relationships
       IN relationships' = IF Linked(Decl)
                           THEN AddRel(rels, Rel(Owner(Decl), "UNIT_TO_FUNCTION", IdOf(Decl)))
                           ELSE rels
    /\ NextDecl
    /\ UNCHANGED <<input, current, packages>>

Emitted(d) == IdOf(d) \in unitBy

\* emitInterfaceMethodsFromTypes, once the package's files are done.
InterfaceMethods ==
    UNION {{<<IdOf(d), FunctionID(d.pkg, d.name, m)>> : m \in d.methods} :
           d \in {d \in Decls(Package) : InScope(d) /\ d.kind = "interface" /\ Emitted(d)}}

\* Nodes with these ids, in an order that is left open.
NodesOf(ids, placeholder) ==
    LET order == SetToSeq(ids)
    IN [i \in DOMAIN order |-> [id |-> order[i], placeholder |-> placeholder]]

EndPackage ==
    /\ InPhase("nodes") /\ at > Len(Package.decls)
    /\ LET new == {m \in InterfaceMethods : m[2] \notin funcBy}
           ids == {m[2] : m \in new}
       IN /\ functions' = functions \o NodesOf(ids, FALSE)
          /\ funcBy' = funcBy \cup ids
          /\ relationships' = AddRels(relationships,
                                 {Rel(m[1], "UNIT_TO_FUNCTION", m[2]) : m \in new})
    /\ NextPackage
    /\ UNCHANGED <<input, current, packages, units, unitBy>>

\* Fault: the calls of a package are collected right after its nodes.
NodesDone_FirstPackage == phase = "nodes" /\ pk > 1

NodesDone == phase = "nodes" /\ pk > Len(program)

StartCalls ==
    /\ NodesDone
    /\ Then("calls")
    /\ UNCHANGED <<input, current, delta, names>>

---------------------------------------------------------------------------
(* calls.go.                                                               *)

EnterPackage ==
    /\ InPhase("calls") /\ at = 0
    /\ NextDecl
    /\ UNCHANGED <<input, current, delta, names>>

LeavePackage ==
    /\ InPhase("calls") /\ at > Len(Package.decls)
    /\ NextPackage
    /\ UNCHANGED <<input, current, delta, names>>

\* Fault: the function of the previous file is still current.
Caller_AcrossFiles(d) == IF d.kind = "func" THEN IdOf(d) ELSE current

\* The last function that began in the file, even after its end.
Caller(d) ==
    IF d.kind = "func" THEN IdOf(d) ELSE IF StartsFile THEN NoFunction ELSE current

\* A call of itself, or outside the functions of a file, leaves no trace.
Callees(d) == IF IsType(d) \/ Caller(d) = NoFunction THEN {} ELSE ToSet(d.calls) \ {Caller(d)}

\* ensurePlaceholderFunction.
NeedPlaceholder(ids) == ids \ Ids(functions)

CollectCalls ==
    /\ InPhase("calls") /\ AtDecl
    /\ IF Allowed(Decl)
       THEN /\ current' = Caller(Decl)
            /\ functions' = functions \o NodesOf(NeedPlaceholder(Callees(Decl)), TRUE)
            /\ relationships' = AddRels(relationships,
                                   {Rel(Caller(Decl), "CALLS", to) : to \in Callees(Decl)})
       ELSE UNCHANGED <<current, functions, relationships>>
    /\ NextDecl
    /\ UNCHANGED <<input, packages, units, names>>

---------------------------------------------------------------------------
(* inheritance.go, implements.go, overrides.go: each adds relationships    *)
(* over all packages.                                                      *)

AddAll(new, after) ==
    /\ pk > Len(program)
    /\ relationships' = AddRels(relationships, new)
    /\ Then(after)
    /\ UNCHANGED <<input, current, packages, units, functions, names>>

\* unitIDForType: a type without a package is taken for one of the package of d.
NamedAs(d, ref) == UnitID(IF ref[1] = Universe THEN d.pkg ELSE ref[1], ref[2])

\* unitIDForExpr: so is every name that is written bare.
Bare(d, ref)      == ref[1] \in {d.pkg, Universe} \cup d.dots
WrittenAs(d, ref) == UnitID(IF Bare(d, ref) THEN d.pkg ELSE ref[1], ref[2])

\* The types of the package's scope are asked, and all type specs are read.
EmbedsOf(d) ==
    {WrittenAs(d, ref) : ref \in d.embeds}
    \cup IF InScope(d) THEN {NamedAs(d, ref) : ref \in d.embeds} ELSE {}

\* Embedded types need not be nodes: "external type: still emit unit id".
Embeds ==
    UNION {{Rel(IdOf(d), "GO_EMBEDS", to) : to \in EmbedsOf(d) \ {IdOf(d)}} :
           d \in {d \in AllDecls : IsType(d) /\ Emitted(d)}}

CollectInheritance == phase = "calls" /\ AddAll(Embeds, "implements")

CollectImplements ==
    /\ phase = "implements"
    /\ relationships' = AddRels(relationships, Satisfies(World, AllDecls, unitBy))
    /\ phase' = "overrides"
    /\ UNCHANGED <<input, pk, at, current, packages, units, functions, names>>

CollectOverrides ==
    /\ phase = "overrides"
    /\ relationships' = AddRels(relationships, InterfaceOverrides(World, AllDecls)
                                             \cup EmbeddedOverrides(World, AllDecls))
    /\ phase' = "done"
    /\ UNCHANGED <<input, pk, at, current, packages, units, functions, names>>

Finished == phase = "done" /\ UNCHANGED vars

Next ==
    \/ StartPackage \/ SkipDecl \/ EmitUnit \/ EmitFunction \/ EndPackage \/ StartCalls
    \/ EnterPackage \/ CollectCalls \/ LeavePackage
    \/ CollectInheritance \/ CollectImplements \/ CollectOverrides
    \/ Finished

Spec == Init /\ [][Next]_vars

---------------------------------------------------------------------------
Nodes      == ToSet(packages) \cup Ids(units) \cup Ids(functions)
Structural == {"PACKAGE_TO_UNIT", "UNIT_TO_FUNCTION", "CALLS"}
Added      == ToSet(relationships)
Full       == allow = Files(program)

TypeOK ==
    /\ phase \in {"nodes", "calls", "implements", "overrides", "done"}
    /\ pk \in 1..(Len(program) + 1) /\ at \in Nat
    /\ current \in {NoFunction} \cup {IdOf(d) : d \in {d \in AllDecls : d.kind = "func"}}
    /\ unitBy = Ids(units)
    /\ funcBy \subseteq Ids(functions)
    /\ IsInjective(relationships)

\* Embedding gives the type the method that is named after it.
NamedAfterPromotion(r) ==
    /\ r.type = "GO_METHOD_SATISFIES"
    /\ \E e \in Types(AllDecls) :
          <<e.pkg, e.name>> = <<r.to[2], r.to[3]>> /\ r.to[4] \notin Declared(AllDecls, e)

\* An embedded type of elsewhere is named as if it were the embedding package's.
NamedAfterEmbedder(r) ==
    /\ r.type = "GO_EMBEDS"
    /\ \E d \in AllDecls : IsType(d) /\ IdOf(d) = r.from
          /\ \E ref \in d.embeds :
                ref[1] # d.pkg /\ Bare(d, ref) /\ r.to = UnitID(d.pkg, ref[2])

\* No relationship dangles (full_test.go:90-93).  Whatever is filtered out and in
\* any file order, packages, units and calls end in nodes of the delta; of a full
\* request everything does, unless it leads out of the packages loaded, shadows a
\* method that the embedded type has by embedding, or embeds a predeclared or
\* dot-imported type: the code contradicts the test there (README, section 6).
EndsEmitted ==
    \A r \in Added :
        \/ r.from \in Nodes /\ r.to \in Nodes
        \/ /\ r.type \notin Structural
           /\ \/ ~Full \/ r.to[2] \notin Paths(program)
              \/ NamedAfterPromotion(r) \/ NamedAfterEmbedder(r)

\* A function has one node, or as many as the request's files declare it (init),
\* and a placeholder only stands for one they do not declare: all the nodes are
\* there before the first call is looked at.
OneNodePerFunction ==
    \A id \in Ids(functions) :
        LET declared == {d \in AllDecls : d.kind = "func" /\ IdOf(d) = id /\ Allowed(d)}
            nodes    == {i \in DOMAIN functions : functions[i].id = id}
        IN /\ Cardinality(nodes) <= IF declared = {} THEN 1 ELSE Cardinality(declared)
           /\ declared # {} => \A i \in nodes : ~functions[i].placeholder

\* A method satisfies an interface's method only where its type satisfies the
\* interface: what collectOverrides and collectImplements find apart agrees.
SatisfiesTogether ==
    phase = "done" =>
        \A r \in Added : \A i \in Interfaces(AllDecls) :
            r.type = "GO_METHOD_SATISFIES" /\ UnitID(r.to[2], r.to[3]) = IdOf(i)
                /\ UnitID(r.from[2], r.from[3]) \in unitBy =>
            Rel(UnitID(r.from[2], r.from[3]), "GO_SATISFIES", IdOf(i)) \in Added

\* Who calls g by the delta calls g, or is the last function before a package
\* variable whose initializer does (README, section 6): never a function of another
\* file, of another package or further up, whatever files are left out between.
LastBefore(p, i) ==
    LET before == {j \in 1..(i - 1) : p.decls[j].kind = "func" /\ p.decls[j].file = p.decls[i].file}
    IN {IdOf(p.decls[j]) : j \in {j \in before : \A k \in before : k <= j}}
CallsAttributed ==
    \A r \in Added : r.type = "CALLS" =>
        \E n \in DOMAIN program : \E i \in DOMAIN program[n].decls :
            LET d == program[n].decls[i] IN
            /\ ~IsType(d) /\ r.to \in ToSet(d.calls)
            /\ r.from \in IF d.kind = "func" THEN {IdOf(d)} ELSE LastBefore(program[n], i)

\* README.md:46 lists UNIT_TO_FUNCTION as covered: of a full request, every
\* function that is declared is linked to its unit.
EveryFunctionOwned ==
    phase # "nodes" /\ Full =>
        \A d \in AllDecls : d.kind = "func" => Rel(Owner(d), "UNIT_TO_FUNCTION", IdOf(d)) \in Added
=============================================================================
