------------------------------ MODULE GoTypes ------------------------------
(***************************************************************************)
(* What the phases of parse() ask of go/types, and the relationships that  *)
(* collectImplements and collectOverrides derive from it.  "world" is all  *)
(* that go/types knows, "loaded" the declarations of the packages of the   *)
(* request.                                                                *)
(*                                                                         *)
(* Method names stand for name and signature, a type for itself and its    *)
(* pointer.  Ids are tuples and not the strings made of them.              *)
(***************************************************************************)
EXTENDS Integers

CONSTANTS
    NoOwner,        \* the receiver of a function that is no method
    Universe        \* the package of error and comparable, which have none

\* What the model asks of a declaration d: kind, pkg, file, name; of a type
\* "struct" or "interface", local, methods (explicit ones) and embeds, what it
\* embeds by package and name; of a "func" its owner.
IsType(d)      == d.kind \in {"struct", "interface"}
InScope(d)     == IsType(d) /\ ~d.local
Concrete(ds)   == {d \in ds : InScope(d) /\ d.kind = "struct"}
Interfaces(ds) == {d \in ds : InScope(d) /\ d.kind = "interface"}
Types(ds)      == Concrete(ds) \cup Interfaces(ds)

PackageID(path)               == <<"pkg", path>>
UnitID(path, name)            == <<"unit", path, name>>
FunctionID(path, owner, name) == <<"fn", path, owner, name>>
IdOf(d) == IF IsType(d) THEN UnitID(d.pkg, d.name) ELSE FunctionID(d.pkg, d.owner, d.name)
Rel(from, type, to)           == [from |-> from, type |-> type, to |-> to]

---------------------------------------------------------------------------
(* External, go/types: what a type has by itself and by embedding, which   *)
(* the model follows two levels deep.                                      *)

TypeRef(d)         == <<d.pkg, d.name>>
Methods(world, d)  == {f \in world : f.kind = "func" /\ <<f.pkg, f.owner>> = TypeRef(d)}
Declared(world, d) == IF d.kind = "interface" THEN d.methods ELSE {f.name : f \in Methods(world, d)}
Embedded(world, d) == {e \in Types(world) : TypeRef(e) \in d.embeds}
Levels(world, d)   == LET one == Embedded(world, d)
                      IN <<{d}, one, UNION {Embedded(world, e) : e \in one}>>
MethodSet(world, d) ==
    UNION {UNION {Declared(world, e) : e \in Levels(world, d)[n]} : n \in 1..3}
Implements(world, d, i) ==
    MethodSet(world, i) # {} /\ MethodSet(world, i) \subseteq MethodSet(world, d)

---------------------------------------------------------------------------
(* implements.go and overrides.go.                                         *)

\* A type that is no node of the delta satisfies nothing.
Satisfies(world, loaded, emitted) ==
    UNION {{Rel(IdOf(d), "GO_SATISFIES", IdOf(i)) :
            i \in {i \in Interfaces(loaded) : Implements(world, d, i)}} :
           d \in {d \in Concrete(loaded) : IdOf(d) \in emitted}}

\* Fault: a method of the same name is evidence enough.
Contracts_ByName(world, loaded, d) ==
    {i \in Interfaces(loaded) : i.methods \cap Declared(world, d) # {}}

\* The interfaces a type satisfies in full.
Contracts(world, loaded, d) == {i \in Interfaces(loaded) : Implements(world, d, i)}

\* A method the type has by embedding another is that type's business.
InterfaceOverrides(world, loaded) ==
    UNION {UNION {{Rel(FunctionID(d.pkg, d.name, m), "GO_METHOD_SATISFIES",
                       FunctionID(i.pkg, i.name, m)) : m \in i.methods \cap Declared(world, d)} :
                  i \in Contracts(world, loaded, d)} :
           d \in Concrete(loaded)}

\* The shadowed method is named after the embedded type, whoever declares it.  Of
\* a type without a package nothing is said.
EmbeddedOverrides(world, loaded) ==
    UNION {UNION {{Rel(FunctionID(d.pkg, d.name, m), "GO_METHOD_SATISFIES",
                       FunctionID(e.pkg, e.name, m)) :
                   m \in MethodSet(world, e) \cap Declared(world, d)} :
                  e \in {e \in Embedded(world, d) : e.pkg # Universe}} :
           d \in Concrete(loaded)}
=============================================================================
