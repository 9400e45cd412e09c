-------------------------- MODULE Implementations --------------------------
(***************************************************************************)
(* From the answers of gopls to relationships: gopls_implements.go, once   *)
(* it is decided that gopls is asked (TaskSession).  An incremental        *)
(* request loads the packages of its files only; what the local phases     *)
(* (GoTypes) cannot see from there, implementationQueries asks gopls about *)
(* and declarationResolver turns the answers into ids.                     *)
(*                                                                         *)
(* The reference is the full request, which loads everything: Full.        *)
(***************************************************************************)
EXTENDS GoTypes, FiniteSetsExt, SequencesExt

CONSTANTS
    Projects,           \* the projects to parse
    MaxFailing          \* queries of one batch that fail

\* Of an interface the model asks, beside what GoTypes does, its form ("literal",
\* "defined" as another one, "alias") and origin, the type whose literal it is.
IsMethod(f) == f.kind = "func" /\ f.owner # NoOwner

\* A file is of one package, scope.Names() has every type but those of test files.
ASSUME ProjectsAssumption ==
    \A prj \in Projects :
        /\ \A d, e \in prj.world : d.file = e.file => d.pkg = e.pkg
        /\ \A d \in prj.world : prj.place[d.pkg] \in {"project", "orphan", "vendor", "outside"}
        /\ DOMAIN prj.order \subseteq Nat
        /\ \A d \in Types(prj.world) :
              d.name # NoOwner /\ (d.file \notin prj.tests => TypeRef(d) \in ToSet(prj.order))
        /\ "" \notin {f.name : f \in {f \in prj.world : IsMethod(f)}}
        /\ \A i \in Interfaces(prj.world) : "" \notin i.methods

\* Projects compile: one type of a name, one method of a name and type, which is no
\* interface; an interface embeds interfaces, what is no test nothing of a test;
\* embedding is at most two deep, as GoTypes has it.
ASSUME ProjectsCompile ==
    \A prj \in Projects :
        /\ \A d, e \in Types(prj.world) : TypeRef(d) = TypeRef(e) => d = e
        /\ \A f, g \in {f \in prj.world : IsMethod(f)} : IdOf(f) = IdOf(g) => f = g
        /\ \A i \in Interfaces(prj.world) :
              /\ Methods(prj.world, i) = {} /\ Embedded(prj.world, i) \subseteq Interfaces(prj.world)
              /\ \E o \in Interfaces(prj.world) :
                    /\ TypeRef(o) = i.origin /\ o.methods = i.methods /\ o.embeds = i.embeds
                    /\ i.form = "literal" => o = i
        /\ \A d \in Types(prj.world) : \A e \in Embedded(prj.world, d) :
              /\ e.file \in prj.tests => d.file \in prj.tests
              /\ \A f \in Embedded(prj.world, e) : Embedded(prj.world, f) = {}

VARIABLES
    project,        \* world, order (scope.Names() of each package), place, tests
    allow,          \* the files of the request
    bad,            \* a file that cannot be read, or not be parsed, any more
    phase,
    results,        \* runImplementationQueries: queries with answer or error, still to take
    query, left,    \* the query at hand, and its locations still to resolve
    relationships,  \* of the delta, as a set
    warned          \* the messages of the delta's diagnostics

input == <<project, allow, bad>>
vars  == <<project, allow, bad, phase, results, query, left, relationships, warned>>

World == project.world

\* A full request loads the project's packages without test files.  "orphan" are
\* those with no go.mod below the root, "vendor" and "outside" not the project's.
Ours      == {d \in World : project.place[d.pkg] \in {"project", "orphan"}}
Known     == {d \in World : d.file \notin project.tests}
Source    == Ours \cap Known
Allowed(ds) == {d \in ds : d.file \in allow}
Loaded    == {d \in Source : d.pkg \in {e.pkg : e \in Allowed(Source)}}
Units(ds) == {IdOf(d) : d \in {d \in ds : IsType(d)}}

LocalPhases(known, loaded, emitted) ==
    Satisfies(known, loaded, emitted) \cup InterfaceOverrides(known, loaded)
        \cup EmbeddedOverrides(known, loaded)

Full == LocalPhases(Known, Source, Units(Source))

NoFile == [what |-> "none", file |-> ""]
Files(ds) == {d.file : d \in ds}

NoPlace == [file |-> "", type |-> "", method |-> ""]
NoQuery == [kind |-> "none", interface |-> FALSE, id |-> <<>>, pos |-> NoPlace]

Init ==
    /\ project \in Projects
    /\ allow \in SUBSET Files(Source) \ {{}}
    /\ bad \in {NoFile} \cup [what : {"gone", "syntax"}, file : Files(World) \ allow]
    /\ phase = "ask" /\ results = {} /\ query = NoQuery /\ left = {}
    /\ relationships = LocalPhases(Known, Loaded, Units(Allowed(Loaded)))
    /\ warned = {}

---------------------------------------------------------------------------
(* Places in files.  A method has the place of its declaration, whichever  *)
(* type it is asked of.                                                    *)

TypePos(d) == [file |-> d.file, type |-> d.name, method |-> ""]
Origin(i)  == CHOOSE d \in Interfaces(World) : TypeRef(d) = i.origin
DeclaredAt(d, m) ==
    IF d.kind = "interface" THEN [TypePos(Origin(d)) EXCEPT !.method = m]
    ELSE LET f == CHOOSE f \in Methods(World, d) : f.name = m
         IN [file |-> f.file, type |-> d.name, method |-> m]

\* The type, d or one it embeds, that m of d is declared on.
Declarer(d, m) ==
    LET lv == Levels(World, d)
        n  == Min({k \in 1..3 : \E e \in lv[k] : m \in Declared(World, e)})
    IN CHOOSE e \in lv[n] : m \in Declared(World, e)

---------------------------------------------------------------------------
(* implementationQueries.                                                  *)

TypeQuery(d) ==
    [kind |-> "type", interface |-> d.kind = "interface", id |-> IdOf(d),
     pos |-> TypePos(d), of |-> d]
MethodQuery(d, m) ==
    [kind |-> "method", interface |-> d.kind = "interface", id |-> FunctionID(d.pkg, d.name, m),
     pos |-> DeclaredAt(d, m), of |-> d]

\* The methods d declares itself, where the request has them.
MethodsAsked(d) == {m \in Declared(Known, d) : DeclaredAt(d, m).file \in allow}

\* Nothing is asked of a type whose own file is not of the request.
Asked(d) == InScope(d) /\ d.file \in allow /\ (d.kind = "interface" => d.form # "alias")

QueriesOf(d) ==
    {q \in {TypeQuery(d)} : MethodSet(Known, d) # {}} \cup {MethodQuery(d, m) : m \in MethodsAsked(d)}

\* Fault: a place is asked about once for each type that has it.
First_Always(all, q) == TRUE

\* One query for a place, that of the first type.
Rank(d) == CHOOSE n \in DOMAIN project.order : project.order[n] = TypeRef(d)
First(all, q) == \A p \in all : Rank(p.of) < Rank(q.of) => p.pos # q.pos

Queries ==
    LET all == UNION {QueriesOf(d) : d \in {d \in Loaded : Asked(d)}}
    IN {q \in all : First(all, q)}

---------------------------------------------------------------------------
(* External, gopls: the types related to one, the corresponding methods,   *)
(* in test files and dependencies too; a promoted method counts.           *)

Related(d) ==
    IF d.kind = "interface" THEN {t \in Concrete(World) : Implements(World, t, d)}
    ELSE {i \in Interfaces(World) : i.form # "alias" /\ Implements(World, d, i)}

Answer(q) ==
    IF q.kind = "type" THEN {TypePos(t) : t \in Related(q.of)}
    ELSE {DeclaredAt(Declarer(t, q.id[4]), q.id[4]) :
             t \in {t \in Related(q.of) : q.id[4] \in MethodSet(World, t)}}

Failed(q, error)    == [query |-> q, locations |-> {}, error |-> error]
Answered(q, places) == [query |-> q, locations |-> places, error |-> ""]

\* decodeLocations: a location whose file cannot be read fails the whole query.
Decoded(q) ==
    LET answer == Answer(q)
    IN IF bad.what = "gone" /\ bad.file \in {l.file : l \in answer}
       THEN Failed(q, "gone") ELSE Answered(q, answer)

---------------------------------------------------------------------------
(* runImplementationQueries.                                               *)

Ask(answers) ==
    /\ phase = "ask" /\ answers # {}
    /\ results' = answers
    /\ phase' = "answers"
    /\ UNCHANGED <<input, query, left, relationships, warned>>

AskNothing ==
    /\ phase = "ask" /\ Queries = {}
    /\ phase' = "answers"
    /\ UNCHANGED <<input, results, query, left, relationships, warned>>

BatchFails == Ask({Failed(q, "batch") : q \in Queries})

BatchAnswers ==
    LET queries == Queries
    IN \E failing \in {f \in SUBSET queries : Cardinality(f) <= MaxFailing} :
          Ask({IF q \in failing THEN Failed(q, "query") ELSE Decoded(q) : q \in queries})

---------------------------------------------------------------------------
(* declarationResolver: the declarations of a file by its syntax alone.    *)

InterfacesIn(file) == {i \in Interfaces(World) : i.file = file /\ i.form # "alias"}
MethodsIn(file)    == {f \in World : f.file = file /\ IsMethod(f)}

\* Only an interface that is written out is recognised as one.
Syntactic(i) == i.form = "literal"

\* Of a struct and of an interface, of a method in an interface and of one with a receiver.
StructEntry(d)     == [kind |-> "type", interface |-> FALSE, id |-> IdOf(d), pos |-> TypePos(d)]
InterfaceEntry(i)  == [kind |-> "type", interface |-> Syntactic(i), id |-> IdOf(i), pos |-> TypePos(i)]
ElementEntry(i, m) == [kind |-> "method", interface |-> TRUE, id |-> FunctionID(i.pkg, i.name, m),
                       pos |-> [TypePos(i) EXCEPT !.method = m]]
MethodEntry(f)     == [kind |-> "method", interface |-> FALSE, id |-> IdOf(f),
                       pos |-> [file |-> f.file, type |-> f.owner, method |-> f.name]]

DeclarationsIn(file) ==
    {StructEntry(d) : d \in {d \in Concrete(World) : d.file = file}}
    \cup {InterfaceEntry(i) : i \in InterfacesIn(file)}
    \cup {MethodEntry(f) : f \in MethodsIn(file)}
    \cup UNION {{ElementEntry(i, m) : m \in i.methods} : i \in {i \in InterfacesIn(file) : Syntactic(i)}}

PlaceOf(file) == project.place[(CHOOSE d \in World : d.file = file).pkg]

\* Fault: vendored packages are taken for the project's.
OfProject_Vendored(file) == PlaceOf(file) # "outside"

\* Below the root, and not in a vendor directory.
OfProject(file) == PlaceOf(file) \notin {"outside", "vendor"}

\* packagePathForFile finds no go.mod up to the root, or the file does not parse.
Unresolvable(file) == PlaceOf(file) = "orphan" \/ bad = [what |-> "syntax", file |-> file]

---------------------------------------------------------------------------
(* collectGoplsImplementationResults.                                      *)

\* One result after the other, one location after the other.  What becomes of one does
\* not depend on the others: the order is left open.
TakeResult ==
    /\ phase = "answers" /\ left = {} /\ results # {}
    /\ LET result == CHOOSE r \in results : TRUE
       IN /\ results' = results \ {result}
          /\ query' = result.query /\ left' = result.locations
          /\ warned' = warned \cup ({result.error} \ {""})
    /\ UNCHANGED <<input, phase, relationships>>

Location == CHOOSE l \in left : TRUE
Target   == Location.file

Skip ==
    /\ left # {} /\ ~OfProject(Target)
    /\ left' = left \ {Location}
    /\ UNCHANGED <<input, phase, results, query, relationships, warned>>

\* Fault: a target that cannot be resolved is passed over.
Warning_None(file) == {}

Warning(file) == {"resolve " \o file}

CannotResolve ==
    /\ left # {} /\ OfProject(Target) /\ Unresolvable(Target)
    /\ left' = left \ {Location}
    /\ warned' = warned \cup Warning(Target)
    /\ UNCHANGED <<input, phase, results, query, relationships>>

\* emitGoplsImplementation: from the concrete side to the interface.
Link(q, found) ==
    IF q.interface = found.interface THEN {}
    ELSE LET implementation == IF q.interface THEN found.id ELSE q.id
             contract       == IF q.interface THEN q.id ELSE found.id
         IN {Rel(implementation, IF q.kind = "type" THEN "GO_SATISFIES" ELSE "GO_METHOD_SATISFIES",
                 contract)}

Found(q, location) ==
    {d \in DeclarationsIn(location.file) : d.pos = location /\ d.kind = q.kind /\ d.id # q.id}

Resolve ==
    /\ left # {} /\ OfProject(Target) /\ ~Unresolvable(Target)
    /\ relationships' = relationships \cup UNION {Link(query, d) : d \in Found(query, Location)}
    /\ left' = left \ {Location}
    /\ UNCHANGED <<input, phase, results, query, warned>>

Finish ==
    /\ phase = "answers" /\ left = {} /\ results = {}
    /\ phase' = "done"
    /\ UNCHANGED <<input, results, query, left, relationships, warned>>

Finished == phase = "done" /\ UNCHANGED vars

Next ==
    \/ AskNothing \/ BatchFails \/ BatchAnswers
    \/ TakeResult \/ Skip \/ CannotResolve \/ Resolve
    \/ Finish \/ Finished

Spec == Init /\ [][Next]_vars

---------------------------------------------------------------------------
TypeOK ==
    /\ phase \in {"ask", "answers", "done"}
    /\ phase # "answers" => results = {} /\ left = {}
    /\ \A r \in results :
          /\ r.query.pos.file \in allow
          /\ r.error # "" => r.locations = {}
          /\ \A s \in results : r.query.pos = s.query.pos => r = s
    /\ query # NoQuery => query.pos.file \in allow /\ \A r \in results : r.query.pos # query.pos
    /\ \A r \in relationships : r.type \in {"GO_SATISFIES", "GO_METHOD_SATISFIES"} /\ r.from # r.to

Silent == phase = "done" /\ warned = {}
TypeLink(d, i)      == Rel(IdOf(d), "GO_SATISFIES", IdOf(i))
MethodLink(d, i, m) == Rel(FunctionID(d.pkg, d.name, m), "GO_METHOD_SATISFIES",
                           FunctionID(i.pkg, i.name, m))
Overridden(d, i)    == i.methods \cap Declared(Known, d)
InRequest(d, m)     == DeclaredAt(d, m).file \in allow

\* With no diagnostic, an incremental request has every relationship of the
\* full one that it should: each of a type and an interface one of which is in
\* a file of the request, and each of their methods likewise.
NothingLost ==
    Silent => \A d \in Concrete(Source), i \in Interfaces(Source) : Implements(Known, d, i) =>
        /\ d.file \in allow \/ i.file \in allow => TypeLink(d, i) \in relationships
        /\ \A m \in Overridden(d, i) :
              InRequest(d, m) \/ i.file \in allow => MethodLink(d, i, m) \in relationships

\* The same but for what is known to be lost: an interface that is not written
\* out where it is named, the methods that another interface was defined with,
\* and the methods in a file of the request of a type in another.  In
\* particular no failure of gopls, of a file or of go.mod loses anything
\* without a diagnostic.
Shared(i) == \E j \in Interfaces(Source) : j # i /\ j.origin = i.origin
OnlyKnownLosses ==
    Silent => \A d \in Concrete(Source) : \A i \in {i \in Interfaces(Source) : i.form = "literal"} :
        Implements(Known, d, i) =>
        /\ d.file \in allow \/ i.file \in allow => TypeLink(d, i) \in relationships
        /\ \A m \in Overridden(d, i) :
              \/ InRequest(d, m) /\ d.file \in allow
              \/ i.file \in allow /\ ~Shared(i)
              => MethodLink(d, i, m) \in relationships

\* Nothing is reported that the full request would not report, though gopls
\* answers from dependencies and test files too: but for types of the project's
\* test files, and for promoted methods, which gopls takes for their
\* embedder's.
WithTests == LocalPhases(World, Ours, Units(Ours))
Promoted  == UNION {UNION {{MethodLink(Declarer(d, m), i, m) :
                                m \in {m \in i.methods : Declarer(d, m) \in Concrete(Ours)}} :
                           i \in {i \in Interfaces(Ours) : Implements(World, d, i)}} :
                    d \in Concrete(World)}
NothingInvented == phase = "done" => relationships \subseteq Full \cup WithTests \cup Promoted
=============================================================================
