-------------------------- MODULE MCDeltaBuilder --------------------------
(***************************************************************************)
(* Instances of DeltaBuilder for TLC.  Package q is fixed: U embeds V,     *)
(* which has the method m, J asks for m and n, W embeds error and shadows  *)
(* its method, f is a function.  Package p imports q, dot-imports x, which *)
(* is not loaded, and is any choice of up to MaxDecls of the declarations  *)
(* of P, in any order, over one file or two.                               *)
(***************************************************************************)
EXTENDS DeltaBuilder

CONSTANT MaxDecls

Struct(p, name, embeds, dots) ==
    [kind |-> "struct", pkg |-> p, file |-> p, name |-> name, local |-> FALSE,
     methods |-> {}, embeds |-> embeds, dots |-> dots]
Interface(p, name, methods, embeds, local) ==
    [kind |-> "interface", pkg |-> p, file |-> p, name |-> name, local |-> local,
     methods |-> methods, embeds |-> embeds, dots |-> {}]
Func(p, owner, name, calls) ==
    [kind |-> "func", pkg |-> p, file |-> p, owner |-> owner, name |-> name, calls |-> calls]
Var(p, calls) ==
    [kind |-> "var", pkg |-> p, file |-> p, owner |-> NoOwner, name |-> "v", calls |-> calls]

Qf == FunctionID("q", NoOwner, "f")
Tm == FunctionID("p", "T", "m")

Error == <<Universe, "error">>

Q == [path |-> "q",
      decls |-> <<Struct("q", "U", {<<"q", "V">>}, {}), Struct("q", "V", {}, {}),
                  Func("q", "V", "m", <<>>), Interface("q", "J", {"m", "n"}, {}, FALSE),
                  Struct("q", "W", {Error}, {}), Func("q", "W", "Error", <<>>),
                  Func("q", NoOwner, "f", <<>>)>>]

\* The error of Go, and x.E, which is one.
ErrorAndE == {Interface(Universe, "error", {"Error"}, {}, FALSE),
              Struct("x", "E", {}, {}), Func("x", "E", "Error", <<>>)}

\* Im is a call through the interface, e a function of a package not loaded.
Im == FunctionID("p", "I", "m")
e  == FunctionID("x", NoOwner, "e")

P == {Struct("p", "T", {<<"q", "U">>, <<"x", "E">>}, {"x"}),
      Func("p", "T", "m", <<Qf>>),
      Func("p", NoOwner, "f", <<Tm, e, FunctionID("p", NoOwner, "f")>>),
      Func("p", NoOwner, "init", <<>>), Func("p", NoOwner, "init", <<Im, e>>),
      Interface("p", "I", {"m"}, {Error}, FALSE), Interface("p", "I", {}, {}, TRUE),
      Var("p", <<Qf>>)}

\* A program compiles: receivers and callees of p are declared in p, and a local
\* type lies in a function.
Compiles(ds) ==
    /\ \A d \in ToSet(ds) : d.kind = "func" /\ d.owner # NoOwner =>
           UnitID(d.pkg, d.owner) \in {IdOf(t) : t \in {t \in ToSet(ds) : InScope(t)}}
    /\ \A d \in ToSet(ds) : ~IsType(d) => \A c \in ToSet(d.calls) :
           c[2] = "p" => \E t \in ToSet(ds) :
               \/ t.kind = "func" /\ IdOf(t) = c
               \/ InScope(t) /\ t.name = c[3] /\ c[4] \in t.methods
    /\ \A i \in DOMAIN ds : IsType(ds[i]) /\ ds[i].local =>
           i > 1 /\ ds[i - 1].kind = "func" /\ ds[i - 1].file = ds[i].file

InFile(d, file) == [d EXCEPT !.file = file]
Orders == UNION {{s \in [1..n -> P] : IsInjective(s)} : n \in 1..MaxDecls}
Split(s, k) == [i \in DOMAIN s |-> InFile(s[i], IF i <= k THEN "p1" ELSE "p2")]
Texts == {s \in UNION {{Split(s, k) : k \in 1..Len(s)} : s \in Orders} : Compiles(s)}
SomeP == {[path |-> "p", decls |-> s] : s \in Texts}
TwoPackages == UNION {{<<p, Q>>, <<Q, p>>} : p \in SomeP}
=============================================================================
