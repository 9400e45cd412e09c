----------------------------- MODULE Endpoints -----------------------------
(***************************************************************************)
(* attachEndpoints (endpoints.go), the last phase of parse(): the facts    *)
(* that static-extract-go finds in the loaded packages become endpoint     *)
(* nodes, each linked to at most one function.  Which one is found by name *)
(* among the delta's functions, by the route registrations on the lines    *)
(* around, or by the function around the line.                             *)
(*                                                                         *)
(* static-extract-go is external.  A fact is an endpoint at a line, with   *)
(* the handler its rule names and the symbol it lies in, a suffix of that  *)
(* function's qualified name, where it has them ("" and <<>> where not).   *)
(***************************************************************************)
EXTENDS GoTypes, Sequences, SequencesExt, FiniteSetsExt

CONSTANT Projects   \* the projects to parse

VARIABLES
    project,        \* functions, registrations and facts, each in file order
    allow,          \* the files of the request
    phase, at,      \* where attachEndpoints is, and how many facts are done
    handlerByFileLine,
    endpoints, links,
    diagnosed       \* the delta has the diagnostic of a failed extraction

input == <<project, allow>>
vars  == <<project, allow, phase, at, handlerByFileLine, endpoints, links, diagnosed>>

\* A function is as in GoTypes, with its lines first..last and the ids it calls.
Functions       == ToSet(project.functions)
Files           == {f.file : f \in Functions}
Packages(files) == {f.pkg : f \in {f \in Functions : f.file \in files}}
NoId            == <<>>

Init ==
    /\ project \in Projects
    /\ allow \in SUBSET Files \ {{}}
    /\ phase = "extract" /\ at = 0
    /\ handlerByFileLine = <<>>
    /\ endpoints = <<>> /\ links = {} /\ diagnosed = FALSE

---------------------------------------------------------------------------
(* What the earlier phases of a request for files leave in the Context.    *)

Emitted(files)   == SelectSeq(project.functions, LAMBDA f : f.file \in files)
Node(id, file)   == [id |-> id, name |-> id[4], file |-> file]
QualifiedName(n) == SelectSeq(<<n.id[2], n.id[3], n.id[4]>>, LAMBDA part : part # NoOwner)

\* ensurePlaceholderFunction: what is called and is no node yet becomes one, in
\* the file it is first called from.
Ensured(nodes, n) ==
    IF n.id \in {m.id : m \in ToSet(nodes)} THEN nodes ELSE Append(nodes, n)
Called(nodes, f) ==
    FoldLeft(Ensured, nodes, [k \in DOMAIN f.calls |-> Node(f.calls[k], f.file)])
DeltaFunctions(files) ==
    LET emitted == Emitted(files)
    IN FoldLeft(Called, [i \in DOMAIN emitted |-> Node(IdOf(emitted[i]), emitted[i].file)], emitted)

\* FuncByQName of a plain name: functions and methods share the entry.
FuncByName(files, pkg, name) ==
    LET named == SelectSeq(Emitted(files), LAMBDA f : f.pkg = pkg /\ f.name = name)
    IN IF named = <<>> THEN FunctionID(pkg, NoOwner, name) ELSE IdOf(Last(named))

\* FuncAtFileLine.
FuncAt(files, file, line) ==
    LET around == {f \in ToSet(Emitted(files)) : f.file = file /\ line \in f.first..f.last}
    IN IF around = {} THEN NoId ELSE IdOf(CHOOSE f \in around : TRUE)

---------------------------------------------------------------------------
(* The registrations: calls with a route's name, or with a string first.   *)

\* resolveHandlerArg, on the last argument: a function, any other identifier, or
\* an expression that is neither.
Handler(files, r) ==
    CASE r.arg.kind = "func"  -> r.arg.id
      [] r.arg.kind = "ident" -> FuncByName(files, r.pkg, r.arg.name)
      [] r.arg.kind = "other" -> NoId

\* The last call of a line that has a handler is the line's.
Registered(files, file, line) ==
    LET handlers == [i \in DOMAIN project.registrations |->
                        LET r == project.registrations[i]
                        IN IF <<r.file, r.line>> = <<file, line>> /\ r.pkg \in Packages(files)
                           THEN Handler(files, r) ELSE NoId]
        found == SelectSeq(handlers, LAMBDA id : id # NoId)
    IN IF found = <<>> THEN NoId ELSE Last(found)

Table(files) ==
    LET places == {<<r.file, r.line>> : r \in ToSet(project.registrations)}
    IN [p \in {p \in places : Registered(files, p[1], p[2]) # NoId} |-> Registered(files, p[1], p[2])]

At(table, file, line) == IF <<file, line>> \in DOMAIN table THEN table[<<file, line>>] ELSE NoId

---------------------------------------------------------------------------
(* The function of a fact.                                                 *)

FirstOf(ids) == IF \E i \in DOMAIN ids : ids[i] # NoId
                THEN ids[Min({i \in DOMAIN ids : ids[i] # NoId})] ELSE NoId

\* Fault: a handler is looked for in all files.
InFile_Any(nodes, file) == nodes

InFile(nodes, file) == SelectSeq(nodes, LAMBDA n : n.file = file)

\* endpointHandlerFunction: two nodes of the handler's name are none.
EndpointHandler(files, f) ==
    LET nodes == InFile(DeltaFunctions(files), f.file)
        named == SelectSeq(nodes, LAMBDA n : n.name = f.handler)
        match == SelectSeq(nodes, LAMBDA n : IsSuffix(f.symbol, QualifiedName(n)))
    IN IF f.handler # "" THEN (IF Len(named) = 1 THEN named[1].id ELSE NoId)
       ELSE IF f.symbol # <<>> /\ match # <<>> THEN match[1].id ELSE NoId

\* Fault: one line too far.
NearbyLines_Three(line) == <<line, line, line + 1, line - 1, line + 2, line - 2, line + 3>>

\* d from 0 to 2, the line below before the line above.
NearbyLines(line) == <<line, line, line + 1, line - 1, line + 2, line - 2>>

FunctionOf(files, table, f) ==
    LET lines == NearbyLines(f.line)
    IN FirstOf(<<EndpointHandler(files, f), At(table, f.file, f.line)>>
               \o [i \in DOMAIN lines |-> At(table, f.file, lines[i])]
               \o <<FuncAt(files, f.file, f.line)>>)

---------------------------------------------------------------------------
(* attachEndpoints.                                                        *)

EndpointID(f) == <<f.direction, f.identity, f.file, f.line>>
LinkOf(f, function) ==
    IF f.direction = "inbound" THEN Rel(EndpointID(f), "ENDPOINT_TO_FUNCTION", function)
    ELSE Rel(function, "FUNCTION_TO_ENDPOINT", EndpointID(f))

\* static-extract-go is asked about all of the loaded packages.
Facts == SelectSeq(project.facts, LAMBDA f : f.pkg \in Packages(allow))

NoRules ==
    /\ phase = "extract"
    /\ phase' = "done"
    /\ UNCHANGED <<input, at, handlerByFileLine, endpoints, links, diagnosed>>

\* Fault: after the diagnostic, the phase goes on with what facts there are.
ExtractFails_GoesOn ==
    /\ phase = "extract"
    /\ phase' = "attach" /\ diagnosed' = TRUE
    /\ UNCHANGED <<input, at, handlerByFileLine, endpoints, links>>

ExtractFails ==
    /\ phase = "extract"
    /\ phase' = "done" /\ diagnosed' = TRUE
    /\ UNCHANGED <<input, at, handlerByFileLine, endpoints, links>>

Extract ==
    /\ phase = "extract"
    /\ phase' = "attach"
    /\ handlerByFileLine' = Table(allow)
    /\ UNCHANGED <<input, at, endpoints, links, diagnosed>>

Fact == Facts[at + 1]

\* What a fact becomes, in this request's graph.
TakesFact == phase = "attach" /\ at < Len(Facts) /\ at' = at + 1

SkipFact ==
    /\ TakesFact /\ Fact.identity = ""
    /\ UNCHANGED <<input, phase, handlerByFileLine, endpoints, links, diagnosed>>

Attach ==
    /\ TakesFact /\ Fact.identity # ""
    /\ endpoints' = Append(endpoints, EndpointID(Fact))
    /\ LET function == FunctionOf(allow, handlerByFileLine, Fact)
       IN links' = links \cup (IF function = NoId THEN {} ELSE {LinkOf(Fact, function)})
    /\ UNCHANGED <<input, phase, handlerByFileLine, diagnosed>>

Finish ==
    /\ phase = "attach" /\ at = Len(Facts)
    /\ phase' = "done"
    /\ UNCHANGED <<input, at, handlerByFileLine, endpoints, links, diagnosed>>

Finished == phase = "done" /\ UNCHANGED vars

Next == NoRules \/ ExtractFails \/ Extract \/ SkipFact \/ Attach \/ Finish \/ Finished

Spec == Init /\ [][Next]_vars

---------------------------------------------------------------------------
TypeOK ==
    /\ phase \in {"extract", "attach", "done"}
    /\ at \in 0..Len(Facts) /\ Len(endpoints) <= at
    /\ diagnosed => endpoints = <<>> /\ links = {}
    /\ DOMAIN handlerByFileLine \subseteq Files \X Int
    /\ \A l \in links :
          \/ l.type = "ENDPOINT_TO_FUNCTION" /\ l.from \in ToSet(endpoints)
          \/ l.type = "FUNCTION_TO_ENDPOINT" /\ l.to \in ToSet(endpoints)
    /\ \A k, l \in links : k.from = l.from /\ k.type = "ENDPOINT_TO_FUNCTION" => k = l

Attached == {f \in ToSet(SubSeq(Facts, 1, at)) : phase # "extract" /\ f.identity # "" /\ f.file \in allow}

\* The function of an attached fact, in this delta.
Linked(f) ==
    LET own == {l \in links : EndpointID(f) \in {l.from, l.to}}
    IN IF own = {} THEN NoId
       ELSE LET l == CHOOSE l \in own : TRUE IN IF l.from = EndpointID(f) THEN l.to ELSE l.from

\* An incremental request links an endpoint of its files to the function the
\* full request links it to, though it has fewer functions to find a handler
\* among: unless the handler's name is called from the file too, which makes a
\* placeholder of that name there, or an identifier that is no function was
\* registered close by.
NamedInCalls(f) == \E g \in Functions : g.file = f.file /\
                      \E k \in DOMAIN g.calls : g.calls[k][4] = f.handler
IdentNearby(f)  == \E r \in ToSet(project.registrations) :
                      r.file = f.file /\ r.arg.kind = "ident" /\ r.line \in (f.line - 2)..(f.line + 2)
SameAsFull ==
    \A f \in Attached : NamedInCalls(f) \/ IdentNearby(f)
                        \/ Linked(f) = FunctionOf(Files, Table(Files), f)

\* The link is the one the source suggests: to the function its rule names if
\* that is the one of its name in the file and nothing of that name is called
\* there; otherwise to the function around it, when the rule gives the symbol
\* and it can mean no other of the file, or when no registration is close; and
\* otherwise, without a symbol, to the function registered on the very line.
Around(f)   == {g \in Functions : g.file = f.file /\ f.line \in g.first..g.last}
Bearing(f)  == {g \in Functions : g.file = f.file /\ g.name = f.handler}
Meant(f)    == {g \in Functions : g.file = f.file /\
                    IsSuffix(f.symbol, QualifiedName(Node(IdOf(g), g.file)))}
Close(f)    == {r \in ToSet(project.registrations) :
                    r.file = f.file /\ r.arg.kind # "other" /\ r.line \in (f.line - 2)..(f.line + 2)}
Here(f)     == {r \in Close(f) : r.line = f.line}
ByName(f)   == f.handler # "" /\ Bearing(f) # {} /\ ~NamedInCalls(f)
BySymbol(f) == f.handler = "" /\ f.symbol # <<>>
LinkedAsWritten ==
    \A f \in Attached :
        /\ ByName(f) /\ Cardinality(Bearing(f)) = 1 => \A g \in Bearing(f) : Linked(f) = IdOf(g)
        /\ BySymbol(f) /\ Meant(f) = Around(f) => \A g \in Around(f) : Linked(f) = IdOf(g)
        /\ f.handler = "" /\ f.symbol = <<>> =>
              /\ Close(f) = {} => \A g \in Around(f) : Linked(f) = IdOf(g)
              /\ \A r \in Here(f) : Cardinality(Here(f)) = 1 /\ r.arg.kind = "func" => Linked(f) = r.arg.id
=============================================================================
