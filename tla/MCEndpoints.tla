---------------------------- MODULE MCEndpoints ----------------------------
(***************************************************************************)
(* Instances of Endpoints for TLC.  File p1 has setup, lines 1 to 5, with  *)
(* up to MaxRegistrations route calls on lines 2 and 4, perhaps after a    *)
(* method T.setup and before a function g.  h, and a method T.v, are       *)
(* declared in another file of p or in a package q.  One endpoint is at    *)
(* any line of p1, in setup or after it in a variable's initializer; one   *)
(* is in h.                                                                *)
(***************************************************************************)
EXTENDS Endpoints

CONSTANT MaxRegistrations

Func(pkg, file, owner, name, first, last, calls) ==
    [kind |-> "func", pkg |-> pkg, file |-> file, owner |-> owner, name |-> name,
     first |-> first, last |-> last, calls |-> calls]

H(pkg, file) == Func(pkg, file, NoOwner, "h", 1, 2, <<>>)
G      == Func("p", "p1", NoOwner, "g", 10, 11, <<>>)
T      == Func("p", "p1", "T", "setup", -2, -1, <<>>)
V(h)   == Func(h.pkg, h.file, "T", "v", 3, 4, <<>>)
Xg     == FunctionID("x", NoOwner, "g")
Setup(calls) == Func("p", "p1", NoOwner, "setup", 1, 5, calls)

SomeFunctions(h) ==
    {before \o <<Setup(calls)>> \o after \o <<h, V(h)>> :
        before \in {<<>>, <<T>>}, after \in {<<>>, <<G>>}, calls \in {<<>>, <<IdOf(h)>>, <<Xg>>}}

Args(h) == {[kind |-> "func", id |-> IdOf(h)], [kind |-> "func", id |-> IdOf(G)],
            [kind |-> "ident", name |-> "v"], [kind |-> "other"]}
Registrations(h) ==
    LET one == [pkg : {"p"}, file : {"p1"}, line : {2, 4}, arg : Args(h)]
    IN {s \in UNION {[1..n -> one] : n \in 0..MaxRegistrations} :
            \A i \in DOMAIN s : i > 1 => s[i - 1].line <= s[i].line}

Fact1(line, handler, symbol, identity, direction) ==
    [pkg |-> "p", file |-> "p1", line |-> line, handler |-> handler, symbol |-> symbol,
     identity |-> identity, direction |-> direction]
SomeFacts ==
    {Fact1(line, handler, symbol, "id", "inbound") :
        line \in 1..7, handler \in {"", "h", "g", "setup"}, symbol \in {<<>>, <<"setup">>, <<"p", "setup">>}}
    \cup {Fact1(3, "", <<>>, "", "inbound"), Fact1(3, "", <<>>, "id", "outbound")}
InH(h) == [Fact1(1, "", <<"h">>, "id", "inbound") EXCEPT !.pkg = h.pkg, !.file = h.file]

SomeProjects ==
    UNION {[functions : SomeFunctions(h), registrations : Registrations(h),
            facts : {<<f, InH(h)>> : f \in {f \in SomeFacts : f.symbol # <<>> => f.line <= 5}}] :
           h \in {H("p", "p2"), H("q", "q1")}}
=============================================================================
