------------------------- MODULE MCImplementations -------------------------
(***************************************************************************)
(* Instances of Implementations for TLC.  Package q has I, which asks for  *)
(* m, and V, which may have it.  Package p imports q: its T, declared in   *)
(* p1, may have m there or in p2, and n, and may embed V.  To that comes   *)
(* at most one of the Features.                                            *)
(***************************************************************************)
EXTENDS Implementations

Struct(file, pkg, name, embeds) ==
    [kind |-> "struct", pkg |-> pkg, file |-> file, name |-> name, local |-> FALSE,
     methods |-> {}, embeds |-> embeds, form |-> "struct", origin |-> <<pkg, name>>]
Literal(file, pkg, name, methods, embeds) ==
    [kind |-> "interface", pkg |-> pkg, file |-> file, name |-> name, local |-> FALSE,
     methods |-> methods, embeds |-> embeds, form |-> "literal", origin |-> <<pkg, name>>]
Func(file, pkg, owner, name) ==
    [kind |-> "func", pkg |-> pkg, file |-> file, owner |-> owner, name |-> name]

I == Literal("q1", "q", "I", {"m"}, {})
AfterI(file, pkg, form) ==
    [Literal(file, pkg, "A", {"m"}, {}) EXCEPT !.form = form, !.origin = TypeRef(I)]

\* J embeds I, or asks for more; A is defined as I, or is another name for it;
\* M implements I in a test file.
Features ==
    {{}, {Literal("p2", "p", "J", {}, {TypeRef(I)})}, {Literal("q1", "q", "J", {"m", "n"}, {})},
     {AfterI("q1", "q", "defined")}, {AfterI("p2", "p", "defined")}, {AfterI("q1", "q", "alias")},
     {Struct("pt", "p", "M", {}), Func("pt", "p", "M", "m")}}

Worlds ==
    {{I, Struct("q1", "q", "V", {}), Struct("p1", "p", "T", embeds)} \cup vm \cup tm \cup tn \cup feature :
        embeds \in {{}, {<<"q", "V">>}},
        vm \in {{}, {Func("q1", "q", "V", "m")}},
        tm \in {{}, {Func("p1", "p", "T", "m")}, {Func("p2", "p", "T", "m")}},
        tn \in {{}, {Func("p1", "p", "T", "n")}},
        feature \in Features}

\* p is the project's, q may be a dependency; or the project has no go.mod.
Places == {[p |-> "project", q |-> q] : q \in {"project", "vendor", "outside"}}
              \cup {[p |-> "orphan", q |-> "orphan"]}
Names == <<<<"p", "A">>, <<"p", "J">>, <<"p", "T">>, <<"q", "A">>, <<"q", "I">>, <<"q", "J">>, <<"q", "V">>>>

SomeProjects == [world : Worlds, order : {Names}, place : Places, tests : {{"pt"}}]
=============================================================================
