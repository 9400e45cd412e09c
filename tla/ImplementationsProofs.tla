----------------------- MODULE ImplementationsProofs -----------------------
(***************************************************************************)
(* What an incremental request makes of gopls' answers, in any project,    *)
(* for any of its files and whatever fails: checked by TLAPS.              *)
(***************************************************************************)
EXTENDS Implementations, TLAPS

---------------------------------------------------------------------------
(* Types, methods and their places.                                        *)

\* What the assumptions say of the project at hand.
LEMMA Compiled ==
    ASSUME project \in Projects
    PROVE  /\ \A d, e \in World : d.file = e.file => d.pkg = e.pkg
           /\ \A d \in World : project.place[d.pkg] \in {"project", "orphan", "vendor", "outside"}
           /\ \A d \in Types(World) :
                 d.name # NoOwner /\ (d.file \notin project.tests => TypeRef(d) \in ToSet(project.order))
           /\ \A f \in World : IsMethod(f) => f.name # ""
           /\ \A d, e \in Types(World) : TypeRef(d) = TypeRef(e) => d = e
           /\ \A f, g \in World : IsMethod(f) /\ IsMethod(g) /\ IdOf(f) = IdOf(g) => f = g
           /\ \A i \in Interfaces(World) :
                 /\ "" \notin i.methods
                 /\ Methods(World, i) = {} /\ Embedded(World, i) \subseteq Interfaces(World)
                 /\ \E o \in Interfaces(World) :
                       /\ TypeRef(o) = i.origin /\ o.methods = i.methods /\ o.embeds = i.embeds
                       /\ i.form = "literal" => o = i
           /\ \A d \in Types(World) : \A e \in Embedded(World, d) :
                 /\ e.file \in project.tests => d.file \in project.tests
                 /\ \A f \in Embedded(World, e) : Embedded(World, f) = {}
<1>1. /\ \A d, e \in World : d.file = e.file => d.pkg = e.pkg
      /\ \A d \in World : project.place[d.pkg] \in {"project", "orphan", "vendor", "outside"}
      /\ \A d \in Types(World) :
            d.name # NoOwner /\ (d.file \notin project.tests => TypeRef(d) \in ToSet(project.order))
      /\ "" \notin {f.name : f \in {f \in World : IsMethod(f)}}
      /\ \A i \in Interfaces(World) : "" \notin i.methods
    BY ProjectsAssumption DEF World
<1>2. \A f \in World : IsMethod(f) => f.name # ""
    BY <1>1
<1>3. QED
    BY <1>1, <1>2, ProjectsCompile DEF World

LEMMA Sets ==
    /\ Known \subseteq World /\ Source \subseteq Known /\ Source \subseteq Ours /\ Loaded \subseteq Source
    /\ Ours \subseteq World
    /\ \A ds : Types(ds) = {d \in ds : InScope(d) /\ d.kind \in {"struct", "interface"}}
    /\ \A ds : Concrete(ds) \subseteq Types(ds) /\ Interfaces(ds) \subseteq Types(ds)
    /\ \A ds : \A d \in Concrete(ds) : d.kind = "struct" /\ IsType(d)
    /\ \A ds : \A d \in Interfaces(ds) : d.kind = "interface" /\ IsType(d)
BY DEF Known, Source, Loaded, Ours, Types, Concrete, Interfaces, InScope, IsType

\* The methods of a type: its own, those of what it embeds and of what that embeds.
LEMMA MethodSets ==
    ASSUME NEW world, NEW d, NEW m
    PROVE  m \in MethodSet(world, d) <=>
              \/ m \in Declared(world, d)
              \/ \E e \in Embedded(world, d) :
                    m \in Declared(world, e) \/ \E f \in Embedded(world, e) : m \in Declared(world, f)
<1> DEFINE all(n) == UNION {Declared(world, e) : e \in Levels(world, d)[n]}
<1>1. MethodSet(world, d) = UNION {all(n) : n \in 1..3}
    BY DEF MethodSet
<1>2. /\ Levels(world, d)[1] = {d} /\ Levels(world, d)[2] = Embedded(world, d)
      /\ Levels(world, d)[3] = UNION {Embedded(world, e) : e \in Embedded(world, d)}
    BY DEF Levels
<1>3. m \in all(1) <=> m \in Declared(world, d)
    BY <1>2
<1>4. m \in all(2) <=> \E e \in Embedded(world, d) : m \in Declared(world, e)
    BY <1>2
<1>5. m \in all(3) <=> \E e \in Embedded(world, d) : \E f \in Embedded(world, e) : m \in Declared(world, f)
    BY <1>2
<1> HIDE DEF all
<1>6. m \in MethodSet(world, d) <=> m \in all(1) \/ m \in all(2) \/ m \in all(3)
    <2>1. m \in MethodSet(world, d) <=> \E n \in 1..3 : m \in all(n)
        BY <1>1
    <2>2. \A n \in 1..3 : n = 1 \/ n = 2 \/ n = 3
        OBVIOUS
    <2>3. 1 \in 1..3 /\ 2 \in 1..3 /\ 3 \in 1..3
        OBVIOUS
    <2>4. QED
        BY <2>1, <2>2, <2>3
<1>7. QED
    BY <1>3, <1>4, <1>5, <1>6

\* gopls, which looks into test files too, knows more methods of a type, ...
LEMMA MoreMethods ==
    ASSUME NEW d \in Known
    PROVE  /\ Declared(Known, d) \subseteq Declared(World, d)
           /\ MethodSet(Known, d) \subseteq MethodSet(World, d)
<1>1. ASSUME NEW e PROVE Declared(Known, e) \subseteq Declared(World, e)
    BY Sets DEF Declared, Methods
<1>2. ASSUME NEW e PROVE Embedded(Known, e) \subseteq Embedded(World, e)
    BY Sets DEF Embedded, Types, Concrete, Interfaces
<1>3. ASSUME NEW m \in MethodSet(Known, d) PROVE m \in MethodSet(World, d)
    BY <1>1, <1>2, MethodSets
<1>4. QED
    BY <1>1, <1>3

\* ... but no more of an interface, ...
LEMMA SameInterface ==
    ASSUME project \in Projects, NEW i \in Interfaces(Known)
    PROVE  MethodSet(World, i) \subseteq MethodSet(Known, i)
<1>1. \A j \in Interfaces(World) : Declared(World, j) = j.methods /\ Declared(Known, j) = j.methods
    BY Sets DEF Declared
<1>2. i \in Interfaces(World) /\ i.file \notin project.tests
    BY Sets DEF Known, Interfaces
<1>3. ASSUME NEW j \in Interfaces(World), j.file \notin project.tests, NEW e \in Embedded(World, j)
      PROVE  e \in Embedded(Known, j) /\ e \in Interfaces(World) /\ e.file \notin project.tests
    <2>1. e \in Interfaces(World) /\ e.file \notin project.tests
        BY <1>3, Compiled, Sets
    <2>2. QED
        BY <2>1 DEF Embedded, Known, Types, Interfaces
<1>4. ASSUME NEW m \in MethodSet(World, i) PROVE m \in MethodSet(Known, i)
    <2>1. CASE m \in Declared(World, i)
        BY <1>1, <1>2, <2>1, MethodSets
    <2>2. CASE m \notin Declared(World, i)
        <3>1. PICK e \in Embedded(World, i) :
                  m \in Declared(World, e) \/ \E f \in Embedded(World, e) : m \in Declared(World, f)
            BY <2>2, MethodSets
        <3>2. e \in Embedded(Known, i) /\ e \in Interfaces(World) /\ e.file \notin project.tests
            BY <1>2, <1>3
        <3>3. m \in Declared(Known, e) \/ \E f \in Embedded(Known, e) : m \in Declared(Known, f)
            BY <1>1, <1>3, <3>1, <3>2
        <3>4. QED
            BY <3>2, <3>3, MethodSets
    <2>3. QED
        BY <2>1, <2>2
<1>5. QED
    BY <1>4

\* ... so that what implements an interface in the sources does so for gopls.
LEMMA ImplementsForGopls ==
    ASSUME project \in Projects, NEW d \in Known, NEW i \in Interfaces(Known), Implements(Known, d, i)
    PROVE  Implements(World, d, i)
<1>1. i \in Known
    BY DEF Interfaces
<1>2. MethodSet(World, i) = MethodSet(Known, i) /\ MethodSet(Known, d) \subseteq MethodSet(World, d)
    BY <1>1, MoreMethods, SameInterface
<1>3. QED
    BY <1>2 DEF Implements

\* A type is known by where its name stands.
LEMMA OneTypeAtPlace ==
    ASSUME project \in Projects, NEW d \in Types(World), NEW e \in Types(World),
           d.file = e.file, d.name = e.name
    PROVE  d = e
<1>1. d \in World /\ e \in World
    BY Sets
<1>2. TypeRef(d) = TypeRef(e)
    BY <1>1, Compiled DEF TypeRef
<1>3. QED
    BY <1>2, Compiled

\* The interface whose methods an interface has.
LEMMA Origins ==
    ASSUME project \in Projects, NEW i \in Interfaces(World)
    PROVE  /\ Origin(i) \in Interfaces(World) /\ TypeRef(Origin(i)) = i.origin
           /\ Origin(i).methods = i.methods /\ Origin(i).embeds = i.embeds
           /\ i.form = "literal" => Origin(i) = i
<1>1. PICK o \in Interfaces(World) :
          /\ TypeRef(o) = i.origin /\ o.methods = i.methods /\ o.embeds = i.embeds
          /\ i.form = "literal" => o = i
    BY Compiled
<1>2. Origin(i) \in Interfaces(World) /\ TypeRef(Origin(i)) = i.origin
    BY <1>1 DEF Origin
<1>3. Origin(i) = o
    <2>1. Origin(i) \in Types(World) /\ o \in Types(World)
        BY <1>1, <1>2, Sets
    <2>2. QED
        BY <1>1, <1>2, <2>1, Compiled
<1>4. QED
    BY <1>1, <1>3

\* A method stands where it is declared: in an interface, its own or another's, ...
LEMMA InterfaceMethodPlace ==
    ASSUME project \in Projects, NEW i \in Interfaces(World), NEW m
    PROVE  DeclaredAt(i, m) = [file |-> Origin(i).file, type |-> Origin(i).name, method |-> m]
<1>1. i.kind = "interface"
    BY Sets
<1>2. DeclaredAt(i, m) = [TypePos(Origin(i)) EXCEPT !.method = m]
    BY <1>1 DEF DeclaredAt
<1>3. QED
    BY <1>2 DEF TypePos

\* ... or with the type as its receiver.
LEMMA MethodPlace ==
    ASSUME project \in Projects, NEW d \in Concrete(World), NEW m \in Declared(World, d)
    PROVE  \E f \in World :
              /\ IsMethod(f) /\ f.pkg = d.pkg /\ f.owner = d.name /\ f.name = m
              /\ IdOf(f) = FunctionID(d.pkg, d.name, m)
              /\ DeclaredAt(d, m) = [file |-> f.file, type |-> d.name, method |-> m]
<1>1. d.kind = "struct" /\ d.name # NoOwner
    BY Compiled, Sets
<1>2. DEFINE f == CHOOSE f \in Methods(World, d) : f.name = m
<1>3. \E g \in Methods(World, d) : g.name = m
    BY <1>1 DEF Declared
<1>4. f \in Methods(World, d) /\ f.name = m
    BY <1>3
<1>5. DeclaredAt(d, m) = [file |-> f.file, type |-> d.name, method |-> m]
    BY <1>1 DEF DeclaredAt
<1> HIDE DEF f
<1>6. f \in World /\ f.kind = "func" /\ f.pkg = d.pkg /\ f.owner = d.name
    BY <1>4 DEF Methods, TypeRef
<1>7. IsMethod(f) /\ ~IsType(f)
    BY <1>1, <1>6 DEF IsMethod, IsType
<1>8. IdOf(f) = FunctionID(d.pkg, d.name, m)
    BY <1>4, <1>6, <1>7 DEF IdOf
<1>9. QED
    BY <1>4, <1>5, <1>6, <1>7, <1>8

\* A method of a type is declared on it or on a type it embeds, on it in doubt.
LEMMA Declarers ==
    ASSUME NEW d \in Types(World), NEW m \in MethodSet(World, d)
    PROVE  LET e == Declarer(d, m)
           IN /\ e \in Types(World) /\ m \in Declared(World, e)
              /\ \/ e = d \/ e \in Embedded(World, d)
                 \/ \E f \in Embedded(World, d) : e \in Embedded(World, f)
              /\ m \in Declared(World, d) => e = d
<1> DEFINE lv == Levels(World, d)
           S == {k \in 1..3 : \E e \in lv[k] : m \in Declared(World, e)}
           n == Min(S)
           e == CHOOSE e \in lv[n] : m \in Declared(World, e)
<1>1. /\ lv[1] = {d} /\ lv[2] = Embedded(World, d)
      /\ lv[3] = UNION {Embedded(World, f) : f \in Embedded(World, d)}
    BY DEF Levels
<1>2. Declarer(d, m) = e
    BY DEF Declarer
<1> HIDE DEF lv
<1>3. \E k \in S : \A j \in S : k <= j
    <2>1. S # {}
        <3>1. CASE m \in Declared(World, d)
            BY <1>1, <3>1
        <3>2. CASE \E g \in Embedded(World, d) : m \in Declared(World, g)
            BY <1>1, <3>2
        <3>3. CASE \E g \in Embedded(World, d) : \E f \in Embedded(World, g) : m \in Declared(World, f)
            <4>1. \E f \in lv[3] : m \in Declared(World, f)
                BY <1>1, <3>3
            <4>2. QED
                BY <4>1
        <3>4. QED
            BY <3>1, <3>2, <3>3, MethodSets
    <2>2. \A k \in S : k = 1 \/ k = 2 \/ k = 3
        OBVIOUS
    <2> HIDE DEF S
    <2>3. QED
        BY <2>1, <2>2
<1>4. n \in S /\ \A j \in S : n <= j
    BY <1>3 DEF Min
<1>5. n \in 1..3 /\ \E g \in lv[n] : m \in Declared(World, g)
    BY <1>4
<1>6. m \in Declared(World, d) => n = 1
    <2>1. m \in Declared(World, d) => 1 \in S
        BY <1>1
    <2>2. QED
        BY <1>4, <1>5, <2>1
<1> HIDE DEF n, S
<1>7. e \in lv[n] /\ m \in Declared(World, e)
    BY <1>5
<1> HIDE DEF e
<1>8. n = 1 \/ n = 2 \/ n = 3
    BY <1>5
<1>9. \/ e = d \/ e \in Embedded(World, d)
      \/ \E f \in Embedded(World, d) : e \in Embedded(World, f)
    BY <1>1, <1>7, <1>8
<1>10. e \in Types(World)
    BY <1>9 DEF Embedded
<1>11. m \in Declared(World, d) => e = d
    BY <1>1, <1>6, <1>7
<1>12. QED
    BY <1>2, <1>7, <1>9, <1>10, <1>11

---------------------------------------------------------------------------
(* What the resolver finds at a place.                                     *)

\* A file is where its package is.
LEMMA PlaceOfFile ==
    ASSUME project \in Projects, NEW d \in World
    PROVE  /\ PlaceOf(d.file) = project.place[d.pkg]
           /\ OfProject(d.file) /\ ~Unresolvable(d.file) => d \in Ours
           /\ d \in Ours => OfProject(d.file)
<1> DEFINE e == CHOOSE e \in World : e.file = d.file
<1>1. e \in World /\ e.file = d.file
    OBVIOUS
<1>2. PlaceOf(d.file) = project.place[e.pkg]
    BY DEF PlaceOf
<1> HIDE DEF e
<1>3. PlaceOf(d.file) = project.place[d.pkg]
    BY <1>1, <1>2, Compiled
<1>4. project.place[d.pkg] \in {"project", "orphan", "vendor", "outside"}
    BY Compiled
<1>5. QED
    BY <1>3, <1>4 DEF OfProject, Unresolvable, Ours

\* The declarations of a file: of structs and of interfaces, of methods in an interface
\* and of methods with a receiver.
LEMMA Declarations ==
    ASSUME NEW file, NEW x
    PROVE  x \in DeclarationsIn(file) <=>
              \/ \E d \in Concrete(World) : d.file = file /\ x = StructEntry(d)
              \/ \E i \in InterfacesIn(file) : x = InterfaceEntry(i)
              \/ \E i \in InterfacesIn(file) : Syntactic(i) /\ \E m \in i.methods : x = ElementEntry(i, m)
              \/ \E f \in MethodsIn(file) : x = MethodEntry(f)
<1> DEFINE structs    == {StructEntry(d) : d \in {d \in Concrete(World) : d.file = file}}
           interfaces == {InterfaceEntry(i) : i \in InterfacesIn(file)}
           elements   == UNION {{ElementEntry(i, m) : m \in i.methods} :
                                i \in {i \in InterfacesIn(file) : Syntactic(i)}}
           methods    == {MethodEntry(f) : f \in MethodsIn(file)}
<1>1. DeclarationsIn(file) = structs \cup interfaces \cup methods \cup elements
    BY DEF DeclarationsIn
<1>2. x \in structs <=> \E d \in Concrete(World) : d.file = file /\ x = StructEntry(d)
    OBVIOUS
<1>3. x \in interfaces <=> \E i \in InterfacesIn(file) : x = InterfaceEntry(i)
    OBVIOUS
<1>4. x \in elements <=>
          \E i \in InterfacesIn(file) : Syntactic(i) /\ \E m \in i.methods : x = ElementEntry(i, m)
    OBVIOUS
<1>5. x \in methods <=> \E f \in MethodsIn(file) : x = MethodEntry(f)
    OBVIOUS
<1> HIDE DEF structs, interfaces, elements, methods
<1>6. QED
    BY <1>1, <1>2, <1>3, <1>4, <1>5

\* At the name of a type it finds that type, taken for an interface if written as one.
LEMMA FoundTypes ==
    ASSUME project \in Projects, NEW t \in Types(World), NEW q, q.kind = "type"
    PROVE  /\ \A x \in Found(q, TypePos(t)) :
                 x.id = IdOf(t) /\ (x.interface = TRUE <=> t \in Interfaces(World) /\ Syntactic(t))
                 /\ x.interface \in BOOLEAN
           /\ IdOf(t) # q.id /\ (t \in Interfaces(World) => Syntactic(t)) =>
                 \E x \in Found(q, TypePos(t)) : x.id = IdOf(t) /\ (x.interface = TRUE <=> t \in Interfaces(World))
<1>1. ASSUME NEW x \in DeclarationsIn(t.file), x.kind = "type"
      PROVE  \/ \E d \in Concrete(World) : x = StructEntry(d)
             \/ \E i \in Interfaces(World) : x = InterfaceEntry(i)
    <2>1. /\ \A i, m : ElementEntry(i, m).kind = "method" /\ \A f : MethodEntry(f).kind = "method"
          /\ InterfacesIn(t.file) \subseteq Interfaces(World)
        BY DEF ElementEntry, MethodEntry, InterfacesIn
    <2>2. QED
        BY <1>1, <2>1, Declarations
<1>2. /\ \A d \in Concrete(World) : d.file = t.file => StructEntry(d) \in DeclarationsIn(t.file)
      /\ \A i \in Interfaces(World) :
            i.file = t.file /\ i.form # "alias" => InterfaceEntry(i) \in DeclarationsIn(t.file)
    BY Declarations DEF InterfacesIn
<1>3. TypePos(t).file = t.file /\ \A d : TypePos(d) = TypePos(t) => d.file = t.file /\ d.name = t.name
    BY DEF TypePos
<1>4. /\ \A d \in Concrete(World) : d \in Types(World) /\ d \notin Interfaces(World)
      /\ \A i \in Interfaces(World) : i \in Types(World)
    BY Sets
<1>5. ASSUME NEW x \in Found(q, TypePos(t))
      PROVE  /\ x.id = IdOf(t) /\ x.interface \in BOOLEAN
             /\ x.interface = TRUE <=> t \in Interfaces(World) /\ Syntactic(t)
    <2>1. x \in DeclarationsIn(t.file) /\ x.pos = TypePos(t) /\ x.kind = "type"
        BY <1>3 DEF Found
    <2>2. CASE \E d \in Concrete(World) : x = StructEntry(d)
        <3>1. PICK d \in Concrete(World) : x = StructEntry(d)
            BY <2>2
        <3>2. d = t
            BY <1>3, <1>4, <2>1, <3>1, OneTypeAtPlace DEF StructEntry, InterfaceEntry
        <3>3. QED
            BY <1>4, <3>1, <3>2 DEF StructEntry
    <2>3. CASE \E i \in Interfaces(World) : x = InterfaceEntry(i)
        <3>1. PICK i \in Interfaces(World) : x = InterfaceEntry(i)
            BY <2>3
        <3>2. i = t
            BY <1>3, <1>4, <2>1, <3>1, OneTypeAtPlace DEF StructEntry, InterfaceEntry
        <3>3. x.id = IdOf(t) /\ x.interface = Syntactic(t)
            BY <3>1, <3>2 DEF InterfaceEntry
        <3>4. QED
            BY <3>2, <3>3 DEF Syntactic
    <2>4. QED
        BY <1>1, <2>1, <2>2, <2>3
<1>6. ASSUME IdOf(t) # q.id, t \in Interfaces(World) => Syntactic(t)
      PROVE  \E x \in Found(q, TypePos(t)) : x.id = IdOf(t) /\ (x.interface = TRUE <=> t \in Interfaces(World))
    <2>1. CASE t \in Interfaces(World)
        <3>1. t.form # "alias" /\ Syntactic(t) = TRUE
            BY <1>6, <2>1 DEF Syntactic
        <3>2. InterfaceEntry(t) \in Found(q, TypePos(t))
            BY <1>2, <1>3, <1>6, <2>1, <3>1 DEF Found, InterfaceEntry
        <3>3. InterfaceEntry(t).id = IdOf(t) /\ InterfaceEntry(t).interface = TRUE
            BY <3>1 DEF InterfaceEntry
        <3>4. QED
            BY <2>1, <3>2, <3>3
    <2>2. CASE t \notin Interfaces(World)
        <3>1. t \in Concrete(World)
            BY <2>2 DEF Types
        <3>2. StructEntry(t) \in Found(q, TypePos(t))
            BY <1>2, <1>3, <1>6, <3>1 DEF Found, StructEntry
        <3>3. StructEntry(t).id = IdOf(t) /\ StructEntry(t).interface = FALSE
            BY DEF StructEntry
        <3>4. QED
            BY <2>2, <3>2, <3>3
    <2>3. QED
        BY <2>1, <2>2
<1>7. QED
    BY <1>5, <1>6

\* At the name of a method it finds what has that name there, in an interface or with
\* a receiver.
IsPlace(l) == l = [file |-> l.file, type |-> l.type, method |-> l.method]

LEMMA ElementEntries ==
    ASSUME NEW i, NEW m
    PROVE  ElementEntry(i, m).pos = [file |-> i.file, type |-> i.name, method |-> m]
BY DEF ElementEntry, TypePos

IsElement(x, l) ==
    /\ x.interface = TRUE
    /\ \E i \in Interfaces(World) :
          /\ i.file = l.file /\ i.name = l.type /\ Syntactic(i) /\ l.method \in i.methods
          /\ x.id = FunctionID(i.pkg, i.name, l.method)
IsReceived(x, l) ==
    /\ x.interface = FALSE
    /\ \E f \in World :
          IsMethod(f) /\ f.file = l.file /\ f.owner = l.type /\ f.name = l.method /\ x.id = IdOf(f)

LEMMA FoundMethods ==
    ASSUME NEW q, q.kind = "method", NEW l, IsPlace(l), NEW x \in Found(q, l)
    PROVE  IsElement(x, l) \/ IsReceived(x, l)
<1>1. x \in DeclarationsIn(l.file) /\ x.kind = "method" /\ x.pos = l
    BY DEF Found
<1>2. \/ \E i \in Interfaces(World) : \E k \in i.methods :
            i.file = l.file /\ Syntactic(i) /\ x = ElementEntry(i, k)
      \/ \E f \in World : IsMethod(f) /\ f.file = l.file /\ x = MethodEntry(f)
    <2>1. \A d : StructEntry(d).kind = "type" /\ InterfaceEntry(d).kind = "type"
        BY DEF StructEntry, InterfaceEntry
    <2>2. \A i \in InterfacesIn(l.file) : i \in Interfaces(World) /\ i.file = l.file
        BY DEF InterfacesIn
    <2>3. \A f \in MethodsIn(l.file) : f \in World /\ IsMethod(f) /\ f.file = l.file
        BY DEF MethodsIn, IsMethod
    <2>4. QED
        BY <1>1, <2>1, <2>2, <2>3, Declarations
<1>3. ASSUME NEW i \in Interfaces(World), NEW k \in i.methods,
             i.file = l.file, Syntactic(i), x = ElementEntry(i, k)
      PROVE  i.name = l.type /\ k = l.method /\ x.interface = TRUE /\ x.id = FunctionID(i.pkg, i.name, k)
    <2>1. x.pos = [file |-> i.file, type |-> i.name, method |-> k]
        BY <1>3, ElementEntries
    <2>2. QED
        BY <1>1, <1>3, <2>1 DEF ElementEntry, IsPlace
<1>4. ASSUME NEW f \in World, IsMethod(f), f.file = l.file, x = MethodEntry(f)
      PROVE  f.owner = l.type /\ f.name = l.method /\ x.interface = FALSE /\ x.id = IdOf(f)
    <2>1. x.pos = [file |-> l.file, type |-> f.owner, method |-> f.name]
        BY <1>4 DEF MethodEntry
    <2>2. QED
        BY <1>1, <1>4, <2>1 DEF MethodEntry, IsPlace
<1>5. QED
    BY <1>2, <1>3, <1>4 DEF IsElement, IsReceived

LEMMA FindsElement ==
    ASSUME NEW q, q.kind = "method", NEW l, IsPlace(l), NEW i \in Interfaces(World),
           i.file = l.file, i.name = l.type, Syntactic(i), l.method \in i.methods,
           FunctionID(i.pkg, i.name, l.method) # q.id
    PROVE  \E x \in Found(q, l) : x.interface = TRUE /\ x.id = FunctionID(i.pkg, i.name, l.method)
<1>1. i \in InterfacesIn(l.file)
    BY DEF InterfacesIn, Syntactic
<1>2. ElementEntry(i, l.method) \in DeclarationsIn(l.file)
    BY <1>1, Declarations
<1>3. ElementEntry(i, l.method).pos = l
    BY ElementEntries DEF IsPlace
<1>4. ElementEntry(i, l.method) \in Found(q, l)
    BY <1>2, <1>3 DEF Found, ElementEntry
<1>5. QED
    BY <1>4 DEF ElementEntry

LEMMA FindsMethod ==
    ASSUME NEW q, q.kind = "method", NEW l, IsPlace(l), NEW f \in World, IsMethod(f),
           f.file = l.file, f.owner = l.type, f.name = l.method, IdOf(f) # q.id
    PROVE  \E x \in Found(q, l) : x.interface = FALSE /\ x.id = IdOf(f)
<1>1. f \in MethodsIn(l.file)
    BY DEF MethodsIn, IsMethod
<1>2. MethodEntry(f) \in DeclarationsIn(l.file)
    BY <1>1, Declarations
<1>3. MethodEntry(f).pos = l
    BY DEF MethodEntry, IsPlace
<1>4. MethodEntry(f) \in Found(q, l)
    BY <1>2, <1>3 DEF Found, MethodEntry
<1>5. QED
    BY <1>4 DEF MethodEntry

---------------------------------------------------------------------------
(* The queries.                                                            *)

\* A query is about a type of the request, of which every method or one of its own.
LEMMA QueryShape ==
    ASSUME NEW q \in Queries
    PROVE  \E d \in Loaded : Asked(d) /\ (q = TypeQuery(d) \/ \E m \in MethodsAsked(d) : q = MethodQuery(d, m))
<1>1. \E d \in Loaded : Asked(d) /\ q \in QueriesOf(d)
    BY DEF Queries
<1>2. \A d : q \in QueriesOf(d) => q = TypeQuery(d) \/ \E m \in MethodsAsked(d) : q = MethodQuery(d, m)
    BY DEF QueriesOf
<1>3. QED
    BY <1>1, <1>2

LEMMA TypeQueries ==
    ASSUME NEW d
    PROVE  /\ TypeQuery(d).kind = "type" /\ TypeQuery(d).id = IdOf(d) /\ TypeQuery(d).of = d
           /\ TypeQuery(d).pos = TypePos(d)
BY DEF TypeQuery

LEMMA MethodQueries ==
    ASSUME NEW d, NEW m
    PROVE  /\ MethodQuery(d, m).kind = "method" /\ MethodQuery(d, m).id = FunctionID(d.pkg, d.name, m)
           /\ MethodQuery(d, m).of = d /\ MethodQuery(d, m).pos = DeclaredAt(d, m)
BY DEF MethodQuery

LEMMA MethodOfQuery ==
    ASSUME NEW d, NEW m
    PROVE  MethodQuery(d, m).id[4] = m
BY DEF MethodQuery, FunctionID

\* What is asked about is a type of the project, and a method of it.
LEMMA AskedAbout ==
    ASSUME project \in Projects, NEW d \in Loaded, Asked(d)
    PROVE  /\ d \in Types(World) /\ d \in Types(Source) /\ d \in Ours /\ d \in Known /\ d.file \in allow
           /\ d.kind = "interface" <=> d \in Interfaces(World)
           /\ d.kind # "interface" <=> d \in Concrete(World)
           /\ \A m \in MethodsAsked(d) :
                 m \in Declared(World, d) /\ m # "" /\ DeclaredAt(d, m).file \in allow
<1>1. d \in World /\ d \in Source /\ d \in Known /\ d \in Ours /\ InScope(d) /\ d.file \in allow
    BY Sets DEF Asked
<1>2. d.kind \in {"struct", "interface"}
    BY <1>1 DEF InScope, IsType
<1>3. /\ d.kind = "interface" <=> d \in Interfaces(World)
      /\ d.kind # "interface" <=> d \in Concrete(World)
      /\ d \in Types(World) /\ d \in Types(Source)
    BY <1>1, <1>2 DEF Interfaces, Concrete, Types
<1>4. ASSUME NEW m \in MethodsAsked(d)
      PROVE  m \in Declared(World, d) /\ m # "" /\ DeclaredAt(d, m).file \in allow
    <2>1. m \in Declared(World, d) /\ DeclaredAt(d, m).file \in allow
        BY <1>1, MoreMethods DEF MethodsAsked
    <2>2. CASE d \in Interfaces(World)
        BY <2>1, <2>2, <1>3, Compiled DEF Declared
    <2>3. CASE d \in Concrete(World)
        <3>1. PICK f \in World : IsMethod(f) /\ f.name = m
            BY <2>1, <2>3, MethodPlace
        <3>2. QED
            BY <2>1, <3>1, Compiled
    <2>4. QED
        BY <1>2, <1>3, <2>1, <2>2, <2>3
<1>5. QED
    BY <1>1, <1>3, <1>4

\* Where a method stands the method is named, and no type.
LEMMA PlacesOfMethods ==
    ASSUME project \in Projects, NEW d \in Types(World), NEW m \in Declared(World, d)
    PROVE  DeclaredAt(d, m).method = m
<1>1. CASE d \in Interfaces(World)
    BY <1>1, InterfaceMethodPlace
<1>2. CASE d \in Concrete(World)
    BY <1>2, MethodPlace
<1>3. QED
    BY <1>1, <1>2 DEF Types

LEMMA TypesRanked ==
    ASSUME project \in Projects, NEW d \in Types(World), d \in Known
    PROVE  Rank(d) \in DOMAIN project.order /\ Rank(d) \in Nat /\ project.order[Rank(d)] = TypeRef(d)
<1>1. TypeRef(d) \in ToSet(project.order) /\ DOMAIN project.order \subseteq Nat
    BY Compiled, ProjectsAssumption DEF Known
<1>2. \E n \in DOMAIN project.order : project.order[n] = TypeRef(d)
    BY <1>1 DEF ToSet
<1>3. QED
    BY <1>1, <1>2 DEF Rank

\* There is one query for a place.
LEMMA OnePerPlace ==
    ASSUME project \in Projects, NEW p \in Queries, NEW q \in Queries, p.pos = q.pos
    PROVE  p = q
<1>1. PICK d \in Loaded : Asked(d) /\ (p = TypeQuery(d) \/ \E m \in MethodsAsked(d) : p = MethodQuery(d, m))
    BY QueryShape
<1>2. PICK e \in Loaded : Asked(e) /\ (q = TypeQuery(e) \/ \E m \in MethodsAsked(e) : q = MethodQuery(e, m))
    BY QueryShape
<1>3. p.of = d /\ q.of = e
    BY <1>1, <1>2, TypeQueries, MethodQueries
<1>4. ~(Rank(d) < Rank(e)) /\ ~(Rank(e) < Rank(d))
    <2> DEFINE all == UNION {QueriesOf(t) : t \in {t \in Loaded : Asked(t)}}
    <2>1. p \in all /\ q \in all /\ First(all, p) /\ First(all, q)
        BY DEF Queries
    <2> HIDE DEF all
    <2>2. QED
        BY <1>3, <2>1 DEF First
<1>5. d \in Types(World) /\ e \in Types(World) /\ d \in Known /\ e \in Known
    BY <1>1, <1>2, AskedAbout
<1>6. d = e
    <2>1. Rank(d) = Rank(e)
        BY <1>4, <1>5, TypesRanked
    <2>2. TypeRef(d) = TypeRef(e)
        BY <1>5, <2>1, TypesRanked
    <2>3. QED
        BY <1>5, <2>2, Compiled
<1>7. ASSUME NEW m \in MethodsAsked(d) PROVE MethodQuery(d, m).pos.method = m /\ m # ""
    <2>1. m \in Declared(World, d) /\ m # ""
        BY <1>1, AskedAbout
    <2>2. DeclaredAt(d, m).method = m
        BY <1>5, <2>1, PlacesOfMethods
    <2>3. MethodQuery(d, m).pos = DeclaredAt(d, m)
        BY MethodQueries
    <2>4. QED
        BY <2>1, <2>2, <2>3
<1>8. TypeQuery(d).pos.method = ""
    <2>1. TypeQuery(d).pos = TypePos(d) /\ TypePos(d).method = ""
        BY TypeQueries DEF TypePos
    <2>2. QED
        BY <2>1
<1>9. CASE q = TypeQuery(d)
    BY <1>1, <1>7, <1>8, <1>9
<1>10. CASE \E m \in MethodsAsked(d) : q = MethodQuery(d, m)
    BY <1>1, <1>7, <1>8, <1>10
<1>11. QED
    BY <1>2, <1>6, <1>9, <1>10

---------------------------------------------------------------------------
(* What the answers become.                                                *)

\* A relationship is from the concrete side to the interface.
LinkType(kind) == IF kind = "type" THEN "GO_SATISFIES" ELSE "GO_METHOD_SATISFIES"

LEMMA LinkOf ==
    ASSUME NEW q, NEW x
    PROVE  /\ q.interface = TRUE /\ x.interface = TRUE => Link(q, x) = {}
           /\ q.interface = FALSE /\ x.interface = FALSE => Link(q, x) = {}
           /\ q.interface = TRUE /\ x.interface = FALSE => Link(q, x) = {Rel(x.id, LinkType(q.kind), q.id)}
           /\ q.interface = FALSE /\ x.interface = TRUE => Link(q, x) = {Rel(q.id, LinkType(q.kind), x.id)}
BY DEF Link, LinkType

\* Methods in a file of a type are of its package.
LEMMA MethodsOfFile ==
    ASSUME project \in Projects, NEW d \in Types(World), NEW f \in World, IsMethod(f), f.owner = d.name,
           NEW g \in World, g.pkg = d.pkg, g.file = f.file
    PROVE  f \in Methods(World, d) /\ IdOf(f) = FunctionID(d.pkg, d.name, f.name)
<1>1. f.pkg = d.pkg
    BY Compiled
<1>2. f.kind = "func" /\ ~IsType(f)
    BY DEF IsMethod, IsType
<1>3. QED
    BY <1>1, <1>2 DEF Methods, TypeRef, IdOf

\* A type of the sources or of the tests on one side, an interface on the other.
LEMMA TypeLinks ==
    ASSUME project \in Projects, NEW d \in Loaded, Asked(d), NEW l \in Answer(TypeQuery(d)),
           OfProject(l.file), ~Unresolvable(l.file), NEW x \in Found(TypeQuery(d), l)
    PROVE  Link(TypeQuery(d), x) \subseteq WithTests
<1> DEFINE q == TypeQuery(d)
<1>1. q.kind = "type" /\ q.id = IdOf(d) /\ q.of = d
    BY TypeQueries
<1>2. q.interface \in BOOLEAN /\ (q.interface = TRUE <=> d.kind = "interface")
    BY DEF TypeQuery
<1>3. PICK t \in Related(d) : l = TypePos(t)
    <2>1. Answer(q) = {TypePos(t) : t \in Related(q.of)}
        BY <1>1 DEF Answer
    <2>2. QED
        BY <1>1, <2>1
<1>4. t \in Types(World) /\ t \in World /\ l.file = t.file
    BY <1>3, Sets DEF Related, TypePos
<1>5. t \in Ours
    BY <1>4, PlaceOfFile
<1>6. x.id = IdOf(t) /\ x.interface \in BOOLEAN /\ (x.interface = TRUE => t \in Interfaces(World))
    <2>1. x \in Found(q, TypePos(t))
        BY <1>3
    <2> HIDE DEF q
    <2>2. QED
        BY <1>1, <1>4, <2>1, FoundTypes
<1>7. d \in Ours /\ d \in World /\ (d.kind = "interface" <=> d \in Interfaces(World))
      /\ (d.kind # "interface" <=> d \in Concrete(World))
    BY AskedAbout, Sets
<1> HIDE DEF q
<1>8. ASSUME NEW s \in Concrete(Ours), NEW i \in Interfaces(Ours), Implements(World, s, i)
      PROVE  Rel(IdOf(s), "GO_SATISFIES", IdOf(i)) \in WithTests
    <2>1. IdOf(s) \in Units(Ours)
        BY DEF Units, Concrete, InScope
    <2>2. Rel(IdOf(s), "GO_SATISFIES", IdOf(i)) \in Satisfies(World, Ours, Units(Ours))
        BY <1>8, <2>1 DEF Satisfies
    <2>3. QED
        BY <2>2 DEF WithTests, LocalPhases
<1>9. CASE d.kind = "interface"
    <2>1. t \in Concrete(World) /\ Implements(World, t, d)
        BY <1>3, <1>9 DEF Related
    <2>2. t \in Concrete(Ours) /\ d \in Interfaces(Ours)
        BY <1>5, <1>7, <1>9, <2>1 DEF Concrete, Interfaces
    <2>3. Link(q, x) \subseteq {Rel(x.id, "GO_SATISFIES", q.id)}
        <3>1. q.interface = TRUE /\ LinkType(q.kind) = "GO_SATISFIES"
            BY <1>1, <1>2, <1>9 DEF LinkType
        <3>2. CASE x.interface = TRUE
            BY <1>6, <3>1, <3>2, LinkOf
        <3>3. CASE x.interface = FALSE
            BY <1>6, <3>1, <3>3, LinkOf
        <3>4. QED
            BY <1>6, <3>2, <3>3
    <2>4. QED
        BY <1>1, <1>6, <1>8, <2>1, <2>2, <2>3 DEF q
<1>10. CASE d.kind # "interface"
    <2>1. t \in Interfaces(World) /\ Implements(World, d, t)
        BY <1>3, <1>10 DEF Related
    <2>2. t \in Interfaces(Ours) /\ d \in Concrete(Ours)
        BY <1>5, <1>7, <1>10, <2>1 DEF Concrete, Interfaces
    <2>3. Link(q, x) \subseteq {Rel(q.id, "GO_SATISFIES", x.id)}
        <3>1. q.interface = FALSE /\ LinkType(q.kind) = "GO_SATISFIES"
            BY <1>1, <1>2, <1>10 DEF LinkType
        <3>2. CASE x.interface = TRUE
            BY <1>6, <3>1, <3>2, LinkOf
        <3>3. CASE x.interface = FALSE
            BY <1>6, <3>1, <3>3, LinkOf
        <3>4. QED
            BY <1>6, <3>2, <3>3
    <2>4. QED
        BY <1>1, <1>6, <1>8, <2>1, <2>2, <2>3 DEF q
<1>11. QED
    BY <1>9, <1>10

\* What declares a method of an interface is an interface that asks for no more.
LEMMA DeclaringInterfaces ==
    ASSUME project \in Projects, NEW t \in Interfaces(World), NEW m \in MethodSet(World, t)
    PROVE  LET e == Declarer(t, m)
           IN /\ e \in Interfaces(World) /\ m \in e.methods
              /\ MethodSet(World, e) \subseteq MethodSet(World, t)
<1> DEFINE e == Declarer(t, m)
<1>1. t \in Types(World)
    BY Sets
<1>2. /\ e \in Types(World) /\ m \in Declared(World, e)
      /\ \/ e = t \/ e \in Embedded(World, t)
         \/ \E f \in Embedded(World, t) : e \in Embedded(World, f)
    BY <1>1, Declarers
<1> HIDE DEF e
<1>3. \A j \in Interfaces(World) : Embedded(World, j) \subseteq Interfaces(World)
    BY Compiled
<1>4. e \in Interfaces(World)
    BY <1>2, <1>3
<1>5. m \in e.methods
    BY <1>2, <1>4, Sets DEF Declared
<1>6. \A j \in Interfaces(World) : \A f \in Embedded(World, j) :
          \A g \in Embedded(World, f) : Embedded(World, g) = {}
    BY Compiled, Sets
<1>7. ASSUME NEW k \in MethodSet(World, e) PROVE k \in MethodSet(World, t)
    <2>1. CASE e = t
        BY <1>7, <2>1
    <2>2. CASE e \in Embedded(World, t)
        <3>1. \/ k \in Declared(World, e)
              \/ \E f \in Embedded(World, e) : k \in Declared(World, f)
            BY <1>6, <1>7, <2>2, MethodSets
        <3>2. QED
            BY <2>2, <3>1, MethodSets
    <2>3. CASE \E f \in Embedded(World, t) : e \in Embedded(World, f)
        <3>1. Embedded(World, e) = {}
            BY <1>6, <2>3
        <3>2. k \in Declared(World, e)
            BY <1>7, <3>1, MethodSets
        <3>3. QED
            BY <2>3, <3>2, MethodSets
    <2>4. QED
        BY <1>2, <2>1, <2>2, <2>3
<1>8. QED
    BY <1>4, <1>5, <1>7 DEF e

\* What stands where an interface has a method is no method with a receiver.
LEMMA NoReceiverThere ==
    ASSUME project \in Projects, NEW o \in Interfaces(World), NEW f \in World, IsMethod(f),
           f.file = o.file, f.owner = o.name
    PROVE  FALSE
<1>1. o \in Types(World) /\ o \in World
    BY Sets
<1>2. f \in Methods(World, o)
    BY <1>1, MethodsOfFile
<1>3. QED
    BY <1>2, Compiled

\* A method declared on a struct, and found at its place, is the project's.
LEMMA FoundReceiver ==
    ASSUME project \in Projects, NEW e \in Concrete(World), NEW m \in Declared(World, e),
           NEW q, q.kind = "method", NEW x \in Found(q, DeclaredAt(e, m)), x.interface = FALSE
    PROVE  /\ x.id = FunctionID(e.pkg, e.name, m)
           /\ OfProject(DeclaredAt(e, m).file) /\ ~Unresolvable(DeclaredAt(e, m).file) => e \in Concrete(Ours)
<1>1. PICK f \in World :
          /\ IsMethod(f) /\ f.pkg = e.pkg /\ f.owner = e.name /\ f.name = m
          /\ DeclaredAt(e, m) = [file |-> f.file, type |-> e.name, method |-> m]
    BY MethodPlace
<1>2. e \in Types(World) /\ e \in World
    BY Sets
<1>3. PICK g \in World : /\ IsMethod(g) /\ g.file = f.file /\ g.owner = e.name /\ g.name = m
                         /\ x.id = IdOf(g)
    <2>1. PICK l : l = DeclaredAt(e, m)
        OBVIOUS
    <2>2. l.file = f.file /\ l.type = e.name /\ l.method = m
        BY <1>1, <2>1
    <2>3. IsPlace(l) /\ x \in Found(q, l)
        BY <1>1, <2>1 DEF IsPlace
    <2>4. \E g \in World : /\ IsMethod(g) /\ g.file = l.file /\ g.owner = l.type /\ g.name = l.method
                           /\ x.id = IdOf(g)
        <3>1. IsElement(x, l) \/ IsReceived(x, l)
            BY <2>3, FoundMethods
        <3>2. QED
            BY <3>1 DEF IsElement, IsReceived
    <2>5. QED
        BY <2>2, <2>4
<1>4. IdOf(g) = FunctionID(e.pkg, e.name, m)
    BY <1>1, <1>2, <1>3, MethodsOfFile
<1>5. ASSUME OfProject(f.file), ~Unresolvable(f.file) PROVE e \in Concrete(Ours)
    <2>1. f \in Ours
        BY <1>5, PlaceOfFile
    <2>2. e \in Ours
        BY <1>1, <1>2, <2>1 DEF Ours
    <2>3. QED
        BY <2>2 DEF Concrete
<1>6. DeclaredAt(e, m).file = f.file
    BY <1>1
<1>7. QED
    BY <1>3, <1>4, <1>5, <1>6

\* What is found where an interface declares a method is that interface's.
LEMMA FoundElement ==
    ASSUME project \in Projects, NEW i \in Interfaces(World), NEW m,
           NEW q, q.kind = "method", NEW x \in Found(q, DeclaredAt(i, m))
    PROVE  /\ x.interface = TRUE
           /\ x.id = FunctionID(Origin(i).pkg, Origin(i).name, m) /\ m \in Origin(i).methods
           /\ OfProject(DeclaredAt(i, m).file) /\ ~Unresolvable(DeclaredAt(i, m).file) =>
                 Origin(i) \in Interfaces(Ours)
<1> DEFINE o == Origin(i)
<1>1. o \in Interfaces(World) /\ o \in Types(World) /\ o \in World
    BY Origins, Sets
<1>2. PICK l : l = DeclaredAt(i, m)
    OBVIOUS
<1>3. l.file = o.file /\ l.type = o.name /\ l.method = m
    BY <1>2, InterfaceMethodPlace
<1>4. IsPlace(l) /\ x \in Found(q, l)
    BY <1>2, InterfaceMethodPlace DEF IsPlace
<1> HIDE DEF o
<1>5. IsElement(x, l) \/ IsReceived(x, l)
    BY <1>4, FoundMethods
<1>6. ~IsReceived(x, l)
    <2>1. ~\E f \in World : IsMethod(f) /\ f.file = o.file /\ f.owner = o.name
        BY <1>1, NoReceiverThere
    <2>2. QED
        BY <1>3, <2>1 DEF IsReceived
<1>7. PICK j \in Interfaces(World) :
          /\ x.interface = TRUE
          /\ j.file = o.file /\ j.name = o.name /\ m \in j.methods /\ x.id = FunctionID(j.pkg, j.name, m)
    BY <1>3, <1>5, <1>6 DEF IsElement
<1>8. j = o
    <2>1. j \in Types(World)
        BY Sets
    <2>2. QED
        BY <1>1, <1>7, <2>1, OneTypeAtPlace
<1>9. OfProject(o.file) /\ ~Unresolvable(o.file) => o \in Interfaces(Ours)
    BY <1>1, PlaceOfFile DEF Interfaces
<1>10. QED
    BY <1>2, <1>3, <1>7, <1>8, <1>9 DEF o

LEMMA OverridesWithTests ==
    ASSUME NEW d \in Concrete(Ours), NEW i \in Interfaces(Ours), Implements(World, d, i),
           NEW m, m \in i.methods, m \in Declared(World, d)
    PROVE  MethodLink(d, i, m) \in WithTests
<1>1. i \in Contracts(World, Ours, d)
    BY DEF Contracts
<1>2. MethodLink(d, i, m) \in {Rel(FunctionID(d.pkg, d.name, k), "GO_METHOD_SATISFIES",
                                   FunctionID(i.pkg, i.name, k)) : k \in i.methods \cap Declared(World, d)}
    BY DEF MethodLink
<1>3. MethodLink(d, i, m) \in InterfaceOverrides(World, Ours)
    BY <1>1, <1>2 DEF InterfaceOverrides
<1>4. QED
    BY <1>3 DEF WithTests, LocalPhases

LEMMA PromotedLinks ==
    ASSUME NEW d \in Concrete(World), NEW i \in Interfaces(Ours), Implements(World, d, i),
           NEW m \in i.methods, Declarer(d, m) \in Concrete(Ours)
    PROVE  MethodLink(Declarer(d, m), i, m) \in Promoted
<1>1. MethodLink(Declarer(d, m), i, m) \in
          {MethodLink(Declarer(d, k), i, k) : k \in {k \in i.methods : Declarer(d, k) \in Concrete(Ours)}}
    OBVIOUS
<1>2. QED
    BY <1>1 DEF Promoted

\* A method of an interface, asked about: what is found is one of the project that
\* implements it, if only by promotion.
LEMMA LinksOfElement ==
    ASSUME project \in Projects, NEW d \in Loaded, Asked(d), d.kind = "interface", NEW m \in MethodsAsked(d),
           NEW t \in Related(d), m \in MethodSet(World, t), NEW e, e = Declarer(t, m),
           OfProject(DeclaredAt(e, m).file), ~Unresolvable(DeclaredAt(e, m).file),
           NEW q, q = MethodQuery(d, m), NEW x \in Found(q, DeclaredAt(e, m))
    PROVE  Link(q, x) \subseteq Promoted
<1>1. q.kind = "method" /\ q.id = FunctionID(d.pkg, d.name, m) /\ q.interface = TRUE
      /\ LinkType(q.kind) = "GO_METHOD_SATISFIES"
    BY DEF MethodQuery, LinkType
<1>2. d \in Interfaces(Ours) /\ m \in d.methods
    BY AskedAbout DEF Interfaces, Declared
<1>3. t \in Concrete(World) /\ t \in Types(World) /\ Implements(World, t, d)
    BY Sets DEF Related
<1>4. e \in Types(World) /\ m \in Declared(World, e)
    BY <1>3, Declarers
<1>5. CASE e \in Interfaces(World)
    <2>1. x.interface = TRUE
        BY <1>1, <1>5, FoundElement
    <2>2. QED
        BY <1>1, <2>1, LinkOf
<1>6. CASE e \in Concrete(World) /\ x.interface = TRUE
    BY <1>1, <1>6, LinkOf
<1>7. CASE e \in Concrete(World) /\ x.interface = FALSE
    <2>1. x.id = FunctionID(e.pkg, e.name, m) /\ e \in Concrete(Ours)
        BY <1>1, <1>4, <1>7, FoundReceiver
    <2>2. Link(q, x) = {Rel(x.id, "GO_METHOD_SATISFIES", q.id)}
        BY <1>1, <1>7, LinkOf
    <2>3. Link(q, x) = {MethodLink(e, d, m)}
        BY <1>1, <2>1, <2>2 DEF MethodLink
    <2>4. MethodLink(e, d, m) \in Promoted
        BY <1>2, <1>3, <2>1, PromotedLinks
    <2>5. QED
        BY <2>3, <2>4
<1>8. e \in Concrete(World) => x.interface = TRUE \/ x.interface = FALSE
    <2>1. SUFFICES ASSUME e \in Concrete(World) PROVE x.interface = TRUE \/ x.interface = FALSE
        OBVIOUS
    <2>2. PICK l : l = DeclaredAt(e, m)
        OBVIOUS
    <2>3. IsPlace(l)
        BY <1>4, <2>1, <2>2, MethodPlace DEF IsPlace
    <2>4. QED
        BY <1>1, <2>2, <2>3, FoundMethods DEF IsElement, IsReceived
<1>9. QED
    BY <1>4, <1>5, <1>6, <1>7, <1>8 DEF Types

\* A method of a struct, asked about: what is found is that of an interface of the
\* project that the struct implements.
LEMMA LinksOfReceiver ==
    ASSUME project \in Projects, NEW d \in Loaded, Asked(d), d.kind # "interface", NEW m \in MethodsAsked(d),
           NEW t \in Related(d), m \in MethodSet(World, t), NEW e, e = Declarer(t, m),
           OfProject(DeclaredAt(e, m).file), ~Unresolvable(DeclaredAt(e, m).file),
           NEW q, q = MethodQuery(d, m), NEW x \in Found(q, DeclaredAt(e, m))
    PROVE  Link(q, x) \subseteq WithTests
<1>1. q.kind = "method" /\ q.id = FunctionID(d.pkg, d.name, m) /\ q.interface = FALSE
      /\ LinkType(q.kind) = "GO_METHOD_SATISFIES"
    BY DEF MethodQuery, LinkType
<1>2. d \in Concrete(Ours) /\ m \in Declared(World, d)
    BY AskedAbout DEF Concrete
<1>3. t \in Interfaces(World) /\ Implements(World, d, t)
    BY DEF Related
<1>4. e \in Interfaces(World) /\ m \in e.methods /\ MethodSet(World, e) \subseteq MethodSet(World, t)
    BY <1>3, DeclaringInterfaces
<1>5. PICK o \in Interfaces(World) : o = Origin(e) /\ o.methods = e.methods /\ o.embeds = e.embeds
    BY <1>4, Origins
<1>6. x.interface = TRUE /\ x.id = FunctionID(o.pkg, o.name, m) /\ o \in Interfaces(Ours)
    <2>1. /\ x.interface = TRUE
          /\ x.id = FunctionID(Origin(e).pkg, Origin(e).name, m)
          /\ Origin(e) \in Interfaces(Ours)
        BY <1>1, <1>4, FoundElement
    <2>2. QED
        BY <1>5, <2>1
<1>7. Link(q, x) = {MethodLink(d, o, m)}
    <2>1. Link(q, x) = {Rel(q.id, "GO_METHOD_SATISFIES", x.id)}
        BY <1>1, <1>6, LinkOf
    <2>2. QED
        BY <1>1, <1>6, <2>1 DEF MethodLink
<1>8. Implements(World, d, o)
    <2>1. Declared(World, o) = Declared(World, e) /\ Embedded(World, o) = Embedded(World, e)
        BY <1>4, <1>5, Sets DEF Declared, Embedded
    <2>2. \A k : k \in MethodSet(World, o) <=> k \in MethodSet(World, e)
        BY <2>1, MethodSets
    <2>3. m \in MethodSet(World, o)
        <3>1. m \in Declared(World, o)
            BY <1>4, <1>5, Sets DEF Declared
        <3>2. QED
            BY <3>1, MethodSets
    <2>4. QED
        BY <1>3, <1>4, <2>2, <2>3 DEF Implements
<1>9. QED
    BY <1>2, <1>4, <1>5, <1>6, <1>7, <1>8, OverridesWithTests

\* Nothing comes of an answer that the full request with the tests would not report,
\* promoted methods apart.
LEMMA LinksKnown ==
    ASSUME project \in Projects, NEW q \in Queries, NEW l \in Answer(q),
           OfProject(l.file), ~Unresolvable(l.file), NEW x \in Found(q, l)
    PROVE  Link(q, x) \subseteq WithTests \cup Promoted
<1>1. PICK d \in Loaded : Asked(d) /\ (q = TypeQuery(d) \/ \E m \in MethodsAsked(d) : q = MethodQuery(d, m))
    BY QueryShape
<1>2. CASE q = TypeQuery(d)
    BY <1>1, <1>2, TypeLinks
<1>3. CASE \E m \in MethodsAsked(d) : q = MethodQuery(d, m)
    <2>1. PICK m \in MethodsAsked(d) : q = MethodQuery(d, m)
        BY <1>3
    <2>2. q.kind = "method" /\ q.of = d /\ q.id[4] = m
        BY <2>1, MethodQueries, MethodOfQuery
    <2>3. Answer(q) = {DeclaredAt(Declarer(t, m), m) : t \in {t \in Related(d) : m \in MethodSet(World, t)}}
        BY <2>2 DEF Answer
    <2>4. PICK t \in Related(d) : m \in MethodSet(World, t) /\ l = DeclaredAt(Declarer(t, m), m)
        BY <2>3
    <2>5. PICK e : e = Declarer(t, m)
        OBVIOUS
    <2>6. /\ OfProject(DeclaredAt(e, m).file) /\ ~Unresolvable(DeclaredAt(e, m).file)
          /\ x \in Found(q, DeclaredAt(e, m))
        BY <2>4, <2>5
    <2>7. CASE d.kind = "interface"
        BY <1>1, <2>1, <2>4, <2>5, <2>6, <2>7, LinksOfElement
    <2>8. CASE d.kind # "interface"
        BY <1>1, <2>1, <2>4, <2>5, <2>6, <2>8, LinksOfReceiver
    <2>9. QED
        BY <2>7, <2>8
<1>4. QED
    BY <1>1, <1>2, <1>3

\* The local phases see of an incremental request nothing that a full one would not.
LEMMA LocalLinks ==
    ASSUME NEW world, NEW ds, NEW es, ds \subseteq es, NEW us, NEW vs, us \subseteq vs
    PROVE  LocalPhases(world, ds, us) \subseteq LocalPhases(world, es, vs)
<1>1. Concrete(ds) \subseteq Concrete(es) /\ Interfaces(ds) \subseteq Interfaces(es)
    BY DEF Concrete, Interfaces
<1>2. Satisfies(world, ds, us) \subseteq Satisfies(world, es, vs)
    BY <1>1 DEF Satisfies
<1>3. InterfaceOverrides(world, ds) \subseteq InterfaceOverrides(world, es)
    BY <1>1 DEF InterfaceOverrides, Contracts
<1>4. EmbeddedOverrides(world, ds) \subseteq EmbeddedOverrides(world, es)
    BY <1>1 DEF EmbeddedOverrides
<1>5. QED
    BY <1>2, <1>3, <1>4 DEF LocalPhases

\* A relationship is between two: no type satisfies itself, no method overrides itself.
LEMMA DifferentTypes ==
    ASSUME project \in Projects, NEW d \in Types(World), NEW e \in Types(World), d # e
    PROVE  IdOf(d) # IdOf(e) /\ \A m : FunctionID(d.pkg, d.name, m) # FunctionID(e.pkg, e.name, m)
<1>1. <<d.pkg, d.name>> # <<e.pkg, e.name>>
    BY Compiled DEF TypeRef
<1>2. d.pkg # e.pkg \/ d.name # e.name
    BY <1>1
<1>3. IdOf(d) = UnitID(d.pkg, d.name) /\ IdOf(e) = UnitID(e.pkg, e.name)
    BY Sets DEF IdOf, IsType
<1>4. UnitID(d.pkg, d.name) # UnitID(e.pkg, e.name)
    BY <1>2 DEF UnitID
<1>5. \A m : FunctionID(d.pkg, d.name, m) # FunctionID(e.pkg, e.name, m)
    BY <1>2 DEF FunctionID
<1>6. QED
    BY <1>3, <1>4, <1>5

Proper(r) == r.type \in {"GO_SATISFIES", "GO_METHOD_SATISFIES"} /\ r.from # r.to

LEMMA ProperLinks ==
    ASSUME project \in Projects, NEW d \in Types(World), NEW e \in Types(World), d # e, NEW m
    PROVE  /\ Proper(Rel(IdOf(d), "GO_SATISFIES", IdOf(e)))
           /\ Proper(Rel(FunctionID(d.pkg, d.name, m), "GO_METHOD_SATISFIES", FunctionID(e.pkg, e.name, m)))
<1>1. IdOf(d) # IdOf(e) /\ FunctionID(d.pkg, d.name, m) # FunctionID(e.pkg, e.name, m)
    BY DifferentTypes
<1>2. QED
    BY <1>1 DEF Proper, Rel

LEMMA LocalPhasesProper ==
    ASSUME project \in Projects, NEW world, world \subseteq World, NEW ds, ds \subseteq World, NEW us,
           NEW r \in LocalPhases(world, ds, us)
    PROVE  Proper(r)
<1>1. /\ \A d \in Concrete(ds) : d \in Types(World) /\ d.kind # "interface"
      /\ \A i \in Interfaces(ds) : i \in Types(World) /\ i.kind = "interface"
    BY DEF Concrete, Interfaces, Types
<1>2. CASE r \in Satisfies(world, ds, us)
    <2>1. PICK d \in Concrete(ds) : \E i \in Interfaces(ds) : r = Rel(IdOf(d), "GO_SATISFIES", IdOf(i))
        BY <1>2 DEF Satisfies
    <2>2. QED
        BY <1>1, <2>1, ProperLinks
<1>3. CASE r \in InterfaceOverrides(world, ds)
    <2>1. PICK d \in Concrete(ds) : \E i \in Interfaces(ds) : \E m :
              r = Rel(FunctionID(d.pkg, d.name, m), "GO_METHOD_SATISFIES", FunctionID(i.pkg, i.name, m))
        BY <1>3 DEF InterfaceOverrides, Contracts
    <2>2. QED
        BY <1>1, <2>1, ProperLinks
<1>4. CASE r \in EmbeddedOverrides(world, ds)
    <2>1. PICK d \in Concrete(ds) : \E e \in Embedded(world, d) : \E m :
              r = Rel(FunctionID(d.pkg, d.name, m), "GO_METHOD_SATISFIES", FunctionID(e.pkg, e.name, m))
        BY <1>4 DEF EmbeddedOverrides
    <2>2. PICK e \in Embedded(world, d) : \E m :
              r = Rel(FunctionID(d.pkg, d.name, m), "GO_METHOD_SATISFIES", FunctionID(e.pkg, e.name, m))
        BY <2>1
    <2>3. d \in Types(World) /\ e \in Embedded(World, d) /\ e \in Types(World)
        BY <1>1 DEF Embedded, Types, Concrete, Interfaces
    <2>4. d # e
        BY <2>3, Compiled
    <2>5. QED
        BY <2>2, <2>3, <2>4, ProperLinks
<1>5. QED
    BY <1>2, <1>3, <1>4 DEF LocalPhases

LEMMA KnownLinksProper ==
    ASSUME project \in Projects, NEW r \in Full \cup WithTests \cup Promoted
    PROVE  Proper(r)
<1>1. Known \subseteq World /\ Source \subseteq World /\ Ours \subseteq World
    BY Sets
<1>2. CASE r \in Full
    BY <1>1, <1>2, LocalPhasesProper DEF Full
<1>3. CASE r \in WithTests
    BY <1>1, <1>3, LocalPhasesProper DEF WithTests
<1>4. CASE r \in Promoted
    <2>1. PICK d \in Concrete(World) : \E i \in Interfaces(Ours) : \E m :
              Declarer(d, m) \in Concrete(Ours) /\ r = MethodLink(Declarer(d, m), i, m)
        BY <1>4 DEF Promoted
    <2>2. PICK i \in Interfaces(Ours), e \in Concrete(Ours) : \E m : r = MethodLink(e, i, m)
        BY <2>1
    <2>3. i \in Types(World) /\ e \in Types(World) /\ i # e
        BY <1>1 DEF Concrete, Interfaces, Types
    <2>4. QED
        BY <2>2, <2>3, ProperLinks DEF MethodLink
<1>5. QED
    BY <1>2, <1>3, <1>4

---------------------------------------------------------------------------
(* What is asked finds what is there.                                      *)

\* The type of every method is asked about, ...
LEMMA TypesAsked ==
    ASSUME project \in Projects, NEW d \in Loaded, Asked(d), MethodSet(Known, d) # {}
    PROVE  TypeQuery(d) \in Queries
<1> DEFINE all == UNION {QueriesOf(t) : t \in {t \in Loaded : Asked(t)}}
<1>1. TypeQuery(d) \in all
    <2>1. TypeQuery(d) \in QueriesOf(d)
        BY DEF QueriesOf
    <2>2. QED
        BY <2>1
<1>2. ASSUME NEW p \in all, Rank(p.of) < Rank(d) PROVE p.pos # TypePos(d)
    <2>1. PICK e \in Loaded : Asked(e) /\ p \in QueriesOf(e)
        OBVIOUS
    <2>2. p = TypeQuery(e) \/ \E m \in MethodsAsked(e) : p = MethodQuery(e, m)
        BY <2>1 DEF QueriesOf
    <2> HIDE DEF all
    <2>3. CASE p = TypeQuery(e)
        <3>1. p.of = e /\ p.pos = TypePos(e)
            BY <2>3, TypeQueries
        <3>2. e # d
            <4>1. SUFFICES ASSUME e = d PROVE FALSE
                OBVIOUS
            <4>2. Rank(d) < Rank(d) /\ Rank(d) \in Nat
                BY <1>2, <3>1, <4>1, AskedAbout, TypesRanked
            <4>3. QED
                BY <4>2
        <3>3. d \in Types(World) /\ e \in Types(World)
            BY <2>1, AskedAbout
        <3>4. ~(e.file = d.file /\ e.name = d.name)
            BY <3>2, <3>3, OneTypeAtPlace
        <3>5. \A t : TypePos(t).file = t.file /\ TypePos(t).type = t.name
            BY DEF TypePos
        <3>6. TypePos(e) # TypePos(d)
            BY <3>4, <3>5
        <3>7. QED
            BY <3>1, <3>6
    <2>4. CASE \E m \in MethodsAsked(e) : p = MethodQuery(e, m)
        <3>1. PICK m \in MethodsAsked(e) : p = MethodQuery(e, m)
            BY <2>4
        <3>2. e \in Types(World) /\ m \in Declared(World, e) /\ m # ""
            BY <2>1, AskedAbout
        <3>3. p.pos = DeclaredAt(e, m) /\ DeclaredAt(e, m).method = m
            BY <3>1, <3>2, MethodQueries, PlacesOfMethods
        <3>4. TypePos(d).method = ""
            BY DEF TypePos
        <3>5. QED
            BY <3>2, <3>3, <3>4
    <2>5. QED
        BY <2>2, <2>3, <2>4
<1>3. TypeQuery(d).of = d /\ TypeQuery(d).pos = TypePos(d)
    BY TypeQueries
<1>4. Queries = {q \in all : First(all, q)}
    BY DEF Queries
<1> HIDE DEF all
<1>5. First(all, TypeQuery(d))
    BY <1>2, <1>3 DEF First
<1>6. QED
    BY <1>1, <1>4, <1>5

\* ... and a method where no other type has it.
LEMMA MethodsAskedAbout ==
    ASSUME project \in Projects, NEW d \in Loaded, Asked(d), NEW m \in MethodsAsked(d),
           \A e \in Loaded : Asked(e) /\ m \in MethodsAsked(e) /\ DeclaredAt(e, m) = DeclaredAt(d, m) => e = d
    PROVE  MethodQuery(d, m) \in Queries
<1> DEFINE all == UNION {QueriesOf(t) : t \in {t \in Loaded : Asked(t)}}
<1>1. MethodQuery(d, m) \in all
    <2>1. MethodQuery(d, m) \in QueriesOf(d)
        BY DEF QueriesOf
    <2>2. QED
        BY <2>1
<1>2. d \in Types(World) /\ d \in Known /\ DeclaredAt(d, m).method = m /\ m # ""
    BY AskedAbout, PlacesOfMethods
<1>3. ASSUME NEW p \in all, Rank(p.of) < Rank(d) PROVE p.pos # DeclaredAt(d, m)
    <2>1. PICK e \in Loaded : Asked(e) /\ p \in QueriesOf(e)
        OBVIOUS
    <2>2. p = TypeQuery(e) \/ \E k \in MethodsAsked(e) : p = MethodQuery(e, k)
        BY <2>1 DEF QueriesOf
    <2> HIDE DEF all
    <2>3. CASE p = TypeQuery(e)
        <3>1. p.pos = TypePos(e) /\ TypePos(e).method = ""
            BY <2>3, TypeQueries DEF TypePos
        <3>2. QED
            BY <1>2, <3>1
    <2>4. CASE \E k \in MethodsAsked(e) : p = MethodQuery(e, k)
        <3>1. PICK k \in MethodsAsked(e) : p = MethodQuery(e, k)
            BY <2>4
        <3>2. p.of = e /\ p.pos = DeclaredAt(e, k)
            BY <3>1, MethodQueries
        <3>3. DeclaredAt(e, k).method = k
            BY <2>1, AskedAbout, PlacesOfMethods
        <3>4. e # d
            <4>1. SUFFICES ASSUME e = d PROVE FALSE
                OBVIOUS
            <4>2. Rank(d) < Rank(d) /\ Rank(d) \in Nat
                BY <1>2, <1>3, <3>2, <4>1, TypesRanked
            <4>3. QED
                BY <4>2
        <3>5. SUFFICES ASSUME DeclaredAt(e, k) = DeclaredAt(d, m) PROVE FALSE
            BY <3>2
        <3>6. k = m
            BY <1>2, <3>3, <3>5
        <3>7. QED
            BY <2>1, <3>1, <3>4, <3>5, <3>6
    <2>5. QED
        BY <2>2, <2>3, <2>4
<1>4. MethodQuery(d, m).of = d /\ MethodQuery(d, m).pos = DeclaredAt(d, m)
    BY MethodQueries
<1>5. Queries = {q \in all : First(all, q)}
    BY DEF Queries
<1> HIDE DEF all
<1>6. First(all, MethodQuery(d, m))
    BY <1>3, <1>4 DEF First
<1>7. QED
    BY <1>1, <1>5, <1>6

\* A method with a receiver stands nowhere else.
LEMMA PlaceOfReceiver ==
    ASSUME project \in Projects, NEW d \in Concrete(World), NEW m \in Declared(World, d),
           NEW e \in Types(World), m \in Declared(World, e), DeclaredAt(e, m) = DeclaredAt(d, m)
    PROVE  e = d
<1>1. PICK f \in World :
          /\ IsMethod(f) /\ f.pkg = d.pkg /\ f.owner = d.name
          /\ DeclaredAt(d, m) = [file |-> f.file, type |-> d.name, method |-> m]
    BY MethodPlace
<1>2. d \in Types(World)
    BY Sets
<1>3. CASE e \in Interfaces(World)
    <2>1. PICK o \in Interfaces(World) : o = Origin(e)
        BY <1>3, Origins
    <2>2. DeclaredAt(e, m) = [file |-> o.file, type |-> o.name, method |-> m]
        BY <1>3, <2>1, InterfaceMethodPlace
    <2>3. o.file = f.file /\ o.name = d.name
        BY <1>1, <2>2
    <2>4. QED
        BY <1>1, <2>1, <2>3, NoReceiverThere
<1>4. CASE e \in Concrete(World)
    <2>1. PICK g \in World :
              /\ IsMethod(g) /\ g.pkg = e.pkg /\ g.owner = e.name
              /\ DeclaredAt(e, m) = [file |-> g.file, type |-> e.name, method |-> m]
        BY <1>4, MethodPlace
    <2>2. g.file = f.file /\ e.name = d.name
        BY <1>1, <2>1
    <2>3. e.pkg = d.pkg
        BY <1>1, <2>1, <2>2, Compiled
    <2>4. TypeRef(e) = TypeRef(d)
        BY <2>2, <2>3 DEF TypeRef
    <2>5. QED
        BY <1>2, <2>4, Compiled
<1>5. QED
    BY <1>3, <1>4 DEF Types

\* Finds(r): an answer has a location of the project, at which r is found.
Finds(r) == \E q \in Queries : \E l \in Answer(q) :
                OfProject(l.file) /\ \E x \in Found(q, l) : r \in Link(q, x)

LEMMA LoadedTypes ==
    ASSUME NEW d \in Source, d.file \in allow
    PROVE  d \in Loaded
<1>1. d \in Allowed(Source)
    BY DEF Allowed
<1>2. QED
    BY <1>1 DEF Loaded

\* A struct and an interface that is written out: asked from the struct, ...
LEMMA FindsFromStruct ==
    ASSUME project \in Projects, NEW d \in Concrete(Source), NEW i \in Interfaces(Source),
           i.form = "literal", Implements(Known, d, i), d.file \in allow
    PROVE  /\ Finds(TypeLink(d, i))
           /\ \A m \in Overridden(d, i) : InRequest(d, m) => Finds(MethodLink(d, i, m))
<1>1. /\ d \in Source /\ d \in Known /\ d \in Ours /\ d \in Concrete(World) /\ d \in Types(World)
      /\ d.kind # "interface" /\ InScope(d)
    BY Sets DEF Concrete, Types
<1>2. /\ i \in Known /\ i \in Interfaces(Known) /\ i \in Interfaces(World) /\ i \in Ours /\ i \in World
      /\ i \in Types(World)
    BY Sets DEF Interfaces, Types
<1>3. d \in Loaded /\ Asked(d)
    BY <1>1, LoadedTypes DEF Asked
<1>4. Implements(World, d, i)
    BY <1>1, <1>2, ImplementsForGopls
<1>5. i \in Related(d)
    BY <1>1, <1>2, <1>4 DEF Related
<1>6. d # i /\ OfProject(i.file) /\ Syntactic(i)
    BY <1>1, <1>2, PlaceOfFile, Sets DEF Syntactic
<1>7. Finds(TypeLink(d, i))
    <2>1. PICK q : q = TypeQuery(d)
        OBVIOUS
    <2>2. q \in Queries
        <3>1. MethodSet(Known, d) # {}
            BY DEF Implements
        <3>2. QED
            BY <1>3, <2>1, <3>1, TypesAsked
    <2>3. /\ q.kind = "type" /\ q.id = IdOf(d) /\ q.of = d /\ q.interface = FALSE
          /\ LinkType(q.kind) = "GO_SATISFIES"
        BY <1>1, <2>1 DEF TypeQuery, LinkType
    <2>4. TypePos(i) \in Answer(q)
        BY <1>5, <2>3 DEF Answer
    <2>5. IdOf(i) # q.id
        BY <1>1, <1>2, <1>6, <2>3, DifferentTypes
    <2>6. PICK x \in Found(q, TypePos(i)) : x.id = IdOf(i) /\ x.interface = TRUE
        BY <1>2, <1>6, <2>3, <2>5, FoundTypes
    <2>7. Link(q, x) = {Rel(q.id, "GO_SATISFIES", x.id)}
        BY <2>3, <2>6, LinkOf
    <2>8. TypeLink(d, i) \in Link(q, x)
        BY <2>3, <2>6, <2>7 DEF TypeLink
    <2>9. TypePos(i).file = i.file
        BY DEF TypePos
    <2>10. QED
        BY <1>6, <2>2, <2>4, <2>6, <2>8, <2>9 DEF Finds
<1>8. ASSUME NEW m \in Overridden(d, i), InRequest(d, m) PROVE Finds(MethodLink(d, i, m))
    <2>1. m \in i.methods /\ m \in Declared(Known, d) /\ m \in Declared(World, d)
        BY <1>1, MoreMethods DEF Overridden
    <2>2. m \in MethodsAsked(d)
        BY <1>8, <2>1 DEF MethodsAsked, InRequest
    <2>3. PICK q : q = MethodQuery(d, m)
        OBVIOUS
    <2>4. q \in Queries
        <3>1. ASSUME NEW e \in Loaded, Asked(e), m \in MethodsAsked(e), DeclaredAt(e, m) = DeclaredAt(d, m)
              PROVE  e = d
            <4>1. e \in Types(World) /\ m \in Declared(World, e)
                BY <3>1, AskedAbout
            <4>2. QED
                BY <1>1, <2>1, <3>1, <4>1, PlaceOfReceiver
        <3>2. QED
            BY <1>3, <2>2, <2>3, <3>1, MethodsAskedAbout
    <2>5. /\ q.kind = "method" /\ q.id = FunctionID(d.pkg, d.name, m) /\ q.of = d /\ q.interface = FALSE
          /\ LinkType(q.kind) = "GO_METHOD_SATISFIES" /\ q.id[4] = m
        BY <1>1, <2>3, MethodOfQuery DEF MethodQuery, LinkType
    <2>6. m \in Declared(World, i) /\ m \in MethodSet(World, i)
        <3>1. m \in Declared(World, i)
            BY <1>2, <2>1, Sets DEF Declared
        <3>2. QED
            BY <3>1, MethodSets
    <2>7. Declarer(i, m) = i
        BY <1>2, <2>6, Declarers
    <2>8. PICK l : l = DeclaredAt(i, m)
        OBVIOUS
    <2>9. l \in Answer(q)
        <3>1. Answer(q) = {DeclaredAt(Declarer(t, m), m) : t \in {t \in Related(d) : m \in MethodSet(World, t)}}
            BY <2>5 DEF Answer
        <3>2. QED
            BY <1>5, <2>6, <2>7, <2>8, <3>1
    <2>10. IsPlace(l) /\ l.file = i.file /\ l.type = i.name /\ l.method = m
        <3>1. Origin(i) = i
            BY <1>2, Origins
        <3>2. l = [file |-> i.file, type |-> i.name, method |-> m]
            BY <1>2, <2>8, <3>1, InterfaceMethodPlace
        <3>3. QED
            BY <3>2 DEF IsPlace
    <2>11. FunctionID(i.pkg, i.name, m) # q.id
        BY <1>1, <1>2, <1>6, <2>5, DifferentTypes
    <2>12. PICK x \in Found(q, l) : x.interface = TRUE /\ x.id = FunctionID(i.pkg, i.name, m)
        <3>1. /\ q.kind = "method" /\ IsPlace(l) /\ i \in Interfaces(World) /\ Syntactic(i)
              /\ i.file = l.file /\ i.name = l.type /\ l.method \in i.methods
              /\ FunctionID(i.pkg, i.name, l.method) # q.id
            BY <1>2, <1>6, <2>1, <2>5, <2>10, <2>11
        <3>2. \E x \in Found(q, l) : x.interface = TRUE /\ x.id = FunctionID(i.pkg, i.name, l.method)
            BY <3>1, FindsElement
        <3>3. QED
            BY <2>10, <3>2
    <2>13. Link(q, x) = {Rel(q.id, "GO_METHOD_SATISFIES", x.id)}
        BY <2>5, <2>12, LinkOf
    <2>14. MethodLink(d, i, m) \in Link(q, x)
        BY <2>5, <2>12, <2>13 DEF MethodLink
    <2>15. QED
        BY <1>6, <2>4, <2>9, <2>10, <2>12, <2>14 DEF Finds
<1>9. QED
    BY <1>7, <1>8

\* ... and from the interface, for its methods if no other was defined with them.
LEMMA FindsFromInterface ==
    ASSUME project \in Projects, NEW d \in Concrete(Source), NEW i \in Interfaces(Source),
           i.form = "literal", Implements(Known, d, i), i.file \in allow
    PROVE  /\ Finds(TypeLink(d, i))
           /\ ~Shared(i) => \A m \in Overridden(d, i) : Finds(MethodLink(d, i, m))
<1>1. /\ d \in Source /\ d \in Known /\ d \in Ours /\ d \in Concrete(World) /\ d \in Types(World)
      /\ d \notin Interfaces(World) /\ d \in World
    BY Sets DEF Concrete, Types, Interfaces
<1>2. /\ i \in Known /\ i \in Interfaces(Known) /\ i \in Interfaces(World) /\ i \in Ours /\ i \in Source
      /\ i \in Types(World) /\ i.kind = "interface" /\ InScope(i)
    BY Sets DEF Interfaces, Types
<1>3. i \in Loaded /\ Asked(i)
    BY <1>2, LoadedTypes DEF Asked
<1>4. d \in Related(i)
    BY <1>1, <1>2, ImplementsForGopls DEF Related
<1>5. d # i /\ OfProject(d.file)
    BY <1>1, <1>2, PlaceOfFile
<1>6. Finds(TypeLink(d, i))
    <2>1. PICK q : q = TypeQuery(i)
        OBVIOUS
    <2>2. q \in Queries
        <3>1. MethodSet(Known, i) # {}
            BY DEF Implements
        <3>2. QED
            BY <1>3, <2>1, <3>1, TypesAsked
    <2>3. /\ q.kind = "type" /\ q.id = IdOf(i) /\ q.of = i /\ q.interface = TRUE
          /\ LinkType(q.kind) = "GO_SATISFIES"
        BY <1>2, <2>1 DEF TypeQuery, LinkType
    <2>4. TypePos(d) \in Answer(q)
        BY <1>4, <2>3 DEF Answer
    <2>5. IdOf(d) # q.id
        BY <1>1, <1>2, <1>5, <2>3, DifferentTypes
    <2>6. PICK x \in Found(q, TypePos(d)) : x.id = IdOf(d) /\ x.interface = FALSE
        BY <1>1, <2>3, <2>5, FoundTypes
    <2>7. Link(q, x) = {Rel(x.id, "GO_SATISFIES", q.id)}
        BY <2>3, <2>6, LinkOf
    <2>8. TypeLink(d, i) \in Link(q, x)
        BY <2>3, <2>6, <2>7 DEF TypeLink
    <2>9. TypePos(d).file = d.file
        BY DEF TypePos
    <2>10. QED
        BY <1>5, <2>2, <2>4, <2>6, <2>8, <2>9 DEF Finds
<1>7. ASSUME NEW m \in Overridden(d, i), ~Shared(i) PROVE Finds(MethodLink(d, i, m))
    <2>1. m \in i.methods /\ m \in Declared(World, d) /\ m \in Declared(Known, i)
        BY <1>1, <1>2, MoreMethods DEF Overridden, Declared
    <2>2. Origin(i) = i /\ i.origin = TypeRef(i)
        BY <1>2, Origins
    <2>3. DeclaredAt(i, m) = [file |-> i.file, type |-> i.name, method |-> m]
        BY <1>2, <2>2, InterfaceMethodPlace
    <2>4. m \in MethodsAsked(i)
        BY <2>1, <2>3 DEF MethodsAsked
    <2>5. PICK q : q = MethodQuery(i, m)
        OBVIOUS
    <2>6. ASSUME NEW e \in Loaded, Asked(e), m \in MethodsAsked(e), DeclaredAt(e, m) = DeclaredAt(i, m)
          PROVE  e = i
        <3>1. /\ e \in Types(World) /\ m \in Declared(World, e) /\ e \in Source
              /\ e.kind = "interface" <=> e \in Interfaces(World)
              /\ e.kind # "interface" <=> e \in Concrete(World)
            BY <2>6, AskedAbout, Sets
        <3>2. CASE e \in Interfaces(World)
            <4>1. PICK o \in Interfaces(World) : o = Origin(e) /\ TypeRef(o) = e.origin
                BY <3>2, Origins
            <4>2. DeclaredAt(e, m) = [file |-> o.file, type |-> o.name, method |-> m]
                BY <3>2, <4>1, InterfaceMethodPlace
            <4>3. o.file = i.file /\ o.name = i.name
                BY <2>3, <2>6, <4>2
            <4>4. o = i
                <5>1. o \in Types(World)
                    BY Sets
                <5>2. QED
                    BY <1>2, <4>3, <5>1, OneTypeAtPlace
            <4>5. e.origin = i.origin
                BY <2>2, <4>1, <4>4
            <4>6. e \in Interfaces(Source)
                BY <3>1, <3>2 DEF Interfaces
            <4>7. QED
                BY <1>7, <4>5, <4>6 DEF Shared
        <3>3. CASE e \in Concrete(World)
            <4>1. m \in Declared(World, i)
                BY <1>2, <2>1 DEF Declared
            <4>2. i = e
                BY <1>2, <2>6, <3>1, <3>3, <4>1, PlaceOfReceiver
            <4>3. QED
                BY <4>2
        <3>4. QED
            BY <3>1, <3>2, <3>3
    <2>7. q \in Queries
        BY <1>3, <2>4, <2>5, <2>6, MethodsAskedAbout
    <2>8. /\ q.kind = "method" /\ q.id = FunctionID(i.pkg, i.name, m) /\ q.of = i /\ q.interface = TRUE
          /\ LinkType(q.kind) = "GO_METHOD_SATISFIES" /\ q.id[4] = m
        BY <1>2, <2>5, MethodOfQuery DEF MethodQuery, LinkType
    <2>9. m \in MethodSet(World, d)
        BY <2>1, MethodSets
    <2>10. Declarer(d, m) = d
        BY <1>1, <2>1, <2>9, Declarers
    <2>11. PICK l : l = DeclaredAt(d, m)
        OBVIOUS
    <2>12. l \in Answer(q)
        <3>1. Answer(q) = {DeclaredAt(Declarer(t, m), m) : t \in {t \in Related(i) : m \in MethodSet(World, t)}}
            BY <2>8 DEF Answer
        <3>2. QED
            BY <1>4, <2>9, <2>10, <2>11, <3>1
    <2>13. PICK f \in World :
               /\ IsMethod(f) /\ f.pkg = d.pkg /\ f.owner = d.name /\ f.name = m
               /\ IdOf(f) = FunctionID(d.pkg, d.name, m)
               /\ l = [file |-> f.file, type |-> d.name, method |-> m]
        BY <1>1, <2>1, <2>11, MethodPlace
    <2>14. IsPlace(l) /\ f.file = l.file /\ f.owner = l.type /\ f.name = l.method
        BY <2>13 DEF IsPlace
    <2>15. IdOf(f) # q.id
        BY <1>1, <1>2, <1>5, <2>8, <2>13, DifferentTypes
    <2>16. PICK x \in Found(q, l) : x.interface = FALSE /\ x.id = IdOf(f)
        <3>1. q.kind = "method"
            BY <2>8
        <3>2. IsMethod(f)
            BY <2>13
        <3>3. QED
            BY <2>14, <2>15, <3>1, <3>2, FindsMethod
    <2>17. Link(q, x) = {Rel(x.id, "GO_METHOD_SATISFIES", q.id)}
        BY <2>8, <2>16, LinkOf
    <2>18. MethodLink(d, i, m) \in Link(q, x)
        BY <2>8, <2>13, <2>16, <2>17 DEF MethodLink
    <2>19. OfProject(l.file)
        <3>1. f \in Ours
            BY <1>1, <2>13 DEF Ours
        <3>2. QED
            BY <2>14, <3>1, PlaceOfFile
    <2>20. QED
        BY <2>7, <2>12, <2>16, <2>18, <2>19 DEF Finds
<1>8. QED
    BY <1>6, <1>7

---------------------------------------------------------------------------
(* The inductive invariant.                                                *)

\* What is asked, answered and found depends on the input alone.
LEMMA Fixed ==
    ASSUME UNCHANGED input
    PROVE  /\ Queries' = Queries /\ Full' = Full /\ WithTests' = WithTests /\ Promoted' = Promoted
           /\ \A q : Answer(q)' = Answer(q)
           /\ \A f : (OfProject(f)' <=> OfProject(f)) /\ (Unresolvable(f)' <=> Unresolvable(f))
           /\ \A q, l : Found(q, l)' = Found(q, l)
<1>1. project' = project /\ allow' = allow /\ bad' = bad
    BY DEF input
<1>2. World' = World
    BY <1>1 DEF World
<1>3. Known' = Known /\ Ours' = Ours
    BY <1>1, <1>2 DEF Known, Ours
<1>4. Source' = Source
    BY <1>3 DEF Source
<1>5. Loaded' = Loaded
    BY <1>1, <1>4 DEF Loaded, Allowed
<1>6. ASSUME NEW i PROVE Origin(i)' = Origin(i)
    BY <1>2 DEF Origin
<1>7. ASSUME NEW d, NEW m PROVE DeclaredAt(d, m)' = DeclaredAt(d, m)
    BY <1>2, <1>6 DEF DeclaredAt
<1>8. ASSUME NEW d, NEW m PROVE Declarer(d, m)' = Declarer(d, m)
    BY <1>2 DEF Declarer
<1>9. ASSUME NEW d PROVE Related(d)' = Related(d)
    BY <1>2 DEF Related
<1>10. ASSUME NEW d, NEW m PROVE MethodQuery(d, m)' = MethodQuery(d, m)
    BY <1>7 DEF MethodQuery
<1>11. ASSUME NEW d PROVE MethodsAsked(d)' = MethodsAsked(d)
    BY <1>1, <1>3, <1>7 DEF MethodsAsked
<1>12. ASSUME NEW d PROVE QueriesOf(d)' = QueriesOf(d)
    BY <1>3, <1>10, <1>11 DEF QueriesOf
<1>13. ASSUME NEW d PROVE Rank(d)' = Rank(d)
    BY <1>1 DEF Rank
<1>14. ASSUME NEW d PROVE Asked(d)' <=> Asked(d)
    BY <1>1 DEF Asked
<1>15. Queries' = Queries
    BY <1>5, <1>12, <1>13, <1>14 DEF Queries, First
<1>16. Full' = Full /\ WithTests' = WithTests
    BY <1>2, <1>3, <1>4 DEF Full, WithTests
<1>17. Promoted' = Promoted
    BY <1>2, <1>3, <1>8 DEF Promoted
<1>18. ASSUME NEW q PROVE Answer(q)' = Answer(q)
    BY <1>2, <1>7, <1>8, <1>9 DEF Answer
<1>19. ASSUME NEW f PROVE PlaceOf(f)' = PlaceOf(f)
    BY <1>1, <1>2 DEF PlaceOf
<1>20. ASSUME NEW f PROVE (OfProject(f)' <=> OfProject(f)) /\ (Unresolvable(f)' <=> Unresolvable(f))
    BY <1>1, <1>19 DEF OfProject, Unresolvable
<1>21. ASSUME NEW f PROVE InterfacesIn(f)' = InterfacesIn(f) /\ MethodsIn(f)' = MethodsIn(f)
    BY <1>2 DEF InterfacesIn, MethodsIn
<1>22. ASSUME NEW f PROVE DeclarationsIn(f)' = DeclarationsIn(f)
    BY <1>2, <1>21 DEF DeclarationsIn
<1>23. ASSUME NEW q, NEW l PROVE Found(q, l)' = Found(q, l)
    BY <1>22 DEF Found
<1>24. QED
    BY <1>15, <1>16, <1>17, <1>18, <1>20, <1>23

\* Whatever is reported is known from the full request, the tests or promotion.
Sound == relationships \subseteq Full \cup WithTests \cup Promoted

\* The query at hand is one that was asked, with locations of its answer left.
AtHand ==
    /\ phase \in {"ask", "answers", "done"}
    /\ phase = "ask" => query = NoQuery
    /\ phase # "answers" => results = {} /\ left = {}
    /\ query = NoQuery => left = {}
    /\ query # NoQuery => query \in Queries /\ left \subseteq Answer(query)

\* A result is of a query of its own, with nothing or the whole answer.
Results ==
    /\ \A r \in results :
          /\ r.query \in Queries /\ r.query # query
          /\ r.error # "" => r.locations = {}
          /\ r.error = "" => r.locations = Answer(r.query)
    /\ \A r, s \in results : r.query = s.query => r = s

\* Without a diagnostic, every location of an answer is still to be taken, at hand, or
\* has become all it can.
Linked(q, l) == OfProject(l.file) => \A x \in Found(q, l) : Link(q, x) \subseteq relationships
Treated ==
    phase # "ask" /\ warned = {} =>
        \A q \in Queries : \/ \E r \in results : r.query = q
                           \/ \A l \in Answer(q) : Linked(q, l) \/ (q = query /\ l \in left)

AnswersInv == project \in Projects /\ Sound /\ AtHand /\ Results /\ Treated

LEMMA NoQueryAsked ==
    NoQuery \notin Queries
<1>1. ASSUME NEW q \in Queries PROVE q.kind \in {"type", "method"}
    <2>1. PICK d \in Loaded : q = TypeQuery(d) \/ \E m \in MethodsAsked(d) : q = MethodQuery(d, m)
        BY QueryShape
    <2>2. CASE q = TypeQuery(d)
        BY <2>2, TypeQueries
    <2>3. CASE \E m \in MethodsAsked(d) : q = MethodQuery(d, m)
        BY <2>3, MethodQueries
    <2>4. QED
        BY <2>1, <2>2, <2>3
<1>2. NoQuery.kind = "none"
    BY DEF NoQuery
<1>3. QED
    BY <1>1, <1>2

LEMMA InitHolds == Init => AnswersInv
<1> SUFFICES ASSUME Init PROVE AnswersInv
    OBVIOUS
<1>1. project \in Projects /\ phase = "ask" /\ results = {} /\ query = NoQuery /\ left = {}
      /\ relationships = LocalPhases(Known, Loaded, Units(Allowed(Loaded)))
    BY DEF Init
<1>2. Units(Allowed(Loaded)) \subseteq Units(Source) /\ Loaded \subseteq Source
    BY Sets DEF Units, Allowed
<1>3. relationships \subseteq Full
    BY <1>1, <1>2, LocalLinks DEF Full
<1>4. Sound
    BY <1>3 DEF Sound
<1>5. AtHand /\ Results /\ Treated
    BY <1>1 DEF AtHand, Results, Treated
<1>6. QED
    BY <1>1, <1>4, <1>5 DEF AnswersInv

\* Sound and project \in Projects, where nothing is added.
LEMMA StaysSound ==
    ASSUME AnswersInv, UNCHANGED input, relationships' = relationships
    PROVE  Sound' /\ (project \in Projects)'
<1>1. project' = project
    BY DEF input
<1>2. Full' = Full /\ WithTests' = WithTests /\ Promoted' = Promoted
    BY Fixed
<1>3. QED
    BY <1>1, <1>2 DEF AnswersInv, Sound

LEMMA StaysLinked ==
    ASSUME UNCHANGED input, relationships \subseteq relationships', NEW q, NEW l, Linked(q, l)
    PROVE  Linked(q, l)'
<1>1. Found(q, l)' = Found(q, l) /\ (OfProject(l.file)' <=> OfProject(l.file))
    BY Fixed
<1>2. QED
    BY <1>1 DEF Linked

\* The batch comes back, with one result for each query.
LEMMA AskHolds ==
    ASSUME AnswersInv, NEW answers, Ask(answers),
           \A r \in answers : /\ r.query \in Queries
                              /\ r.error # "" => r.locations = {}
                              /\ r.error = "" => r.locations = Answer(r.query),
           \A r, s \in answers : r.query = s.query => r = s,
           \A q \in Queries : \E r \in answers : r.query = q
    PROVE  AnswersInv'
<1>1. /\ phase = "ask" /\ results' = answers /\ phase' = "answers"
      /\ UNCHANGED <<input, query, left, relationships, warned>>
    BY DEF Ask
<1>2. Queries' = Queries /\ \A q : Answer(q)' = Answer(q)
    BY <1>1, Fixed
<1>3. query = NoQuery /\ left = {}
    BY <1>1 DEF AnswersInv, AtHand
<1>4. Sound' /\ (project \in Projects)'
    BY <1>1, StaysSound
<1>5. AtHand'
    BY <1>1, <1>3 DEF AtHand
<1>6. Results'
    <2>1. \A r \in answers : r.query # NoQuery
        BY NoQueryAsked
    <2>2. QED
        BY <1>1, <1>2, <1>3, <2>1 DEF Results
<1>7. Treated'
    BY <1>1, <1>2 DEF Treated
<1>8. QED
    BY <1>4, <1>5, <1>6, <1>7 DEF AnswersInv

LEMMA BatchFailsHolds ==
    ASSUME AnswersInv, BatchFails
    PROVE  AnswersInv'
<1>1. PICK answers : answers = {Failed(q, "batch") : q \in Queries}
    OBVIOUS
<1>2. \A q : Failed(q, "batch").query = q /\ Failed(q, "batch").locations = {} /\ Failed(q, "batch").error # ""
    BY DEF Failed
<1>3. \A r \in answers : r.query \in Queries /\ r.error # "" /\ r.locations = {} /\ r = Failed(r.query, "batch")
    BY <1>1, <1>2
<1>4. \A q \in Queries : \E r \in answers : r.query = q
    BY <1>1, <1>2
<1>5. Ask(answers)
    BY <1>1 DEF BatchFails
<1>6. \A r, s \in answers : r.query = s.query => r = s
    BY <1>3
<1>7. QED
    BY <1>3, <1>4, <1>5, <1>6, AskHolds

LEMMA BatchAnswersHolds ==
    ASSUME AnswersInv, BatchAnswers
    PROVE  AnswersInv'
<1>1. PICK failing : Ask({IF q \in failing THEN Failed(q, "query") ELSE Decoded(q) : q \in Queries})
    BY DEF BatchAnswers
<1> DEFINE result(q) == IF q \in failing THEN Failed(q, "query") ELSE Decoded(q)
<1>2. PICK answers : answers = {result(q) : q \in Queries}
    OBVIOUS
<1>3. Ask(answers)
    BY <1>1, <1>2
<1>4. ASSUME NEW q
      PROVE  /\ result(q).query = q
             /\ result(q).error # "" => result(q).locations = {}
             /\ result(q).error = "" => result(q).locations = Answer(q)
    <2>1. \A error \in {"query", "gone"} :
              Failed(q, error).query = q /\ Failed(q, error).locations = {} /\ Failed(q, error).error # ""
        BY DEF Failed
    <2>2. \A places : /\ Answered(q, places).query = q /\ Answered(q, places).locations = places
                      /\ Answered(q, places).error = ""
        BY DEF Answered
    <2>3. \/ result(q) = Failed(q, "query") \/ result(q) = Failed(q, "gone")
          \/ result(q) = Answered(q, Answer(q))
        BY DEF Decoded
    <2> HIDE DEF result
    <2>4. CASE result(q) = Failed(q, "query") \/ result(q) = Failed(q, "gone")
        <3>1. result(q).query = q /\ result(q).locations = {} /\ result(q).error # ""
            BY <2>1, <2>4
        <3>2. QED
            BY <3>1
    <2>5. CASE result(q) = Answered(q, Answer(q))
        <3>1. result(q).query = q /\ result(q).locations = Answer(q) /\ result(q).error = ""
            BY <2>2, <2>5
        <3>2. QED
            BY <3>1
    <2>6. QED
        BY <2>3, <2>4, <2>5
<1> HIDE DEF result
<1>5. \A r \in answers : /\ r.query \in Queries /\ r = result(r.query)
                         /\ r.error # "" => r.locations = {}
                         /\ r.error = "" => r.locations = Answer(r.query)
    <2>1. SUFFICES ASSUME NEW r \in answers
                   PROVE  /\ r.query \in Queries /\ r = result(r.query)
                          /\ r.error # "" => r.locations = {}
                          /\ r.error = "" => r.locations = Answer(r.query)
        OBVIOUS
    <2>2. PICK q \in Queries : r = result(q)
        BY <1>2
    <2>3. r.query = q
        BY <1>4, <2>2
    <2>4. QED
        BY <1>4, <2>2, <2>3
<1>6. \A q \in Queries : \E r \in answers : r.query = q
    BY <1>2, <1>4
<1>7. \A r, s \in answers : r.query = s.query => r = s
    BY <1>5
<1>8. QED
    BY <1>3, <1>5, <1>6, <1>7, AskHolds

LEMMA AskNothingHolds ==
    ASSUME AnswersInv, AskNothing
    PROVE  AnswersInv'
<1>1. /\ phase = "ask" /\ Queries = {} /\ phase' = "answers"
      /\ UNCHANGED <<input, results, query, left, relationships, warned>>
    BY DEF AskNothing
<1>2. Queries' = {}
    BY <1>1, Fixed
<1>3. query = NoQuery /\ left = {} /\ results = {}
    BY <1>1 DEF AnswersInv, AtHand
<1>4. Sound' /\ (project \in Projects)'
    BY <1>1, StaysSound
<1>5. AtHand' /\ Results' /\ Treated'
    BY <1>1, <1>2, <1>3 DEF AtHand, Results, Treated
<1>6. QED
    BY <1>4, <1>5 DEF AnswersInv

LEMMA TakeResultHolds ==
    ASSUME AnswersInv, TakeResult
    PROVE  AnswersInv'
<1>1. PICK result : /\ result \in results
                    /\ results' = results \ {result}
                    /\ query' = result.query /\ left' = result.locations
                    /\ warned' = warned \cup ({result.error} \ {""})
    BY DEF TakeResult
<1>2. phase = "answers" /\ left = {} /\ UNCHANGED <<input, phase, relationships>>
    BY DEF TakeResult
<1>3. Queries' = Queries /\ \A q : Answer(q)' = Answer(q)
    BY <1>2, Fixed
<1>4. /\ result.query \in Queries
      /\ result.error # "" => result.locations = {}
      /\ result.error = "" => result.locations = Answer(result.query)
      /\ \A r, s \in results : r.query = s.query => r = s
      /\ \A r \in results : /\ r.query \in Queries
                            /\ r.error # "" => r.locations = {}
                            /\ r.error = "" => r.locations = Answer(r.query)
    BY <1>1 DEF AnswersInv, Results
<1>5. Sound' /\ (project \in Projects)'
    BY <1>2, StaysSound
<1>6. AtHand'
    <2>1. query' # NoQuery /\ query' \in Queries
        BY <1>1, <1>4, NoQueryAsked
    <2>2. left' \subseteq Answer(result.query)
        BY <1>1, <1>4
    <2>3. Answer(query)' = Answer(result.query)
        BY <1>1, <1>3
    <2>4. QED
        BY <1>2, <1>3, <2>1, <2>2, <2>3 DEF AtHand
<1>7. Results'
    BY <1>1, <1>3, <1>4 DEF Results
<1>8. Treated'
    <2>1. SUFFICES ASSUME warned' = {}, NEW q \in Queries
                   PROVE  \/ \E r \in results' : r.query = q
                          \/ \A l \in Answer(q) : Linked(q, l)' \/ (q = query' /\ l \in left')
        BY <1>3 DEF Treated
    <2>2. warned = {} /\ result.error = ""
        BY <1>1, <2>1
    <2>3. CASE q = result.query
        BY <1>1, <1>4, <2>2, <2>3
    <2>4. CASE q # result.query
        <3>1. \/ \E r \in results : r.query = q
              \/ \A l \in Answer(q) : Linked(q, l)
            BY <1>2, <2>2 DEF AnswersInv, Treated
        <3>2. CASE \E r \in results : r.query = q
            BY <1>1, <2>4, <3>2
        <3>3. CASE \A l \in Answer(q) : Linked(q, l)
            <4>1. \A l \in Answer(q) : Linked(q, l)'
                BY <1>2, <3>3, StaysLinked
            <4>2. QED
                BY <4>1
        <3>4. QED
            BY <3>1, <3>2, <3>3
    <2>5. QED
        BY <2>3, <2>4
<1>9. QED
    BY <1>5, <1>6, <1>7, <1>8 DEF AnswersInv

\* A location is dealt with: all that comes of it is linked, or there is a diagnostic.
LEMMA LocationHolds ==
    ASSUME AnswersInv, left # {}, NEW l, l = Location, left' = left \ {l},
           UNCHANGED <<input, phase, results, query>>,
           relationships \subseteq relationships', warned \subseteq warned', Sound',
           warned' = {} => Linked(query, l)'
    PROVE  AnswersInv'
<1>1. Queries' = Queries /\ \A q : Answer(q)' = Answer(q)
    BY Fixed
<1>2. (project \in Projects)'
    BY DEF input, AnswersInv
<1>3. AtHand'
    <2>1. Answer(query)' = Answer(query)
        BY Fixed
    <2>2. QED
        BY <1>1, <2>1 DEF AnswersInv, AtHand
<1>4. Results'
    BY <1>1 DEF AnswersInv, Results
<1>5. Treated'
    <2>1. SUFFICES ASSUME phase # "ask", warned' = {}, NEW q \in Queries
                   PROVE  \/ \E r \in results : r.query = q
                          \/ \A k \in Answer(q) : Linked(q, k)' \/ (q = query /\ k \in left')
        BY <1>1 DEF Treated
    <2>2. \/ \E r \in results : r.query = q
          \/ \A k \in Answer(q) : Linked(q, k) \/ (q = query /\ k \in left)
        BY <2>1 DEF AnswersInv, Treated
    <2>3. ASSUME NEW k, Linked(q, k) PROVE Linked(q, k)'
        BY <2>3, StaysLinked
    <2>4. q = query => Linked(q, l)'
        BY <2>1 DEF Linked
    <2>5. QED
        BY <2>2, <2>3, <2>4
<1>6. QED
    BY <1>2, <1>3, <1>4, <1>5 DEF AnswersInv

LEMMA SkipHolds ==
    ASSUME AnswersInv, Skip
    PROVE  AnswersInv'
<1>1. /\ left # {} /\ ~OfProject(Target) /\ left' = left \ {Location}
      /\ UNCHANGED <<input, phase, results, query, relationships, warned>>
    BY DEF Skip
<1>2. PICK l : l = Location
    OBVIOUS
<1>3. ~OfProject(l.file)
    BY <1>1, <1>2 DEF Target
<1>4. Linked(query, l)'
    <2>1. ~OfProject(l.file)'
        BY <1>1, <1>3, Fixed
    <2>2. QED
        BY <2>1 DEF Linked
<1>5. Sound'
    BY <1>1, StaysSound
<1>6. QED
    BY <1>1, <1>2, <1>4, <1>5, LocationHolds

LEMMA CannotResolveHolds ==
    ASSUME AnswersInv, CannotResolve
    PROVE  AnswersInv'
<1>1. /\ left # {} /\ left' = left \ {Location}
      /\ warned' = warned \cup Warning(Target)
      /\ UNCHANGED <<input, phase, results, query, relationships>>
    BY DEF CannotResolve
<1>2. warned' # {}
    BY <1>1 DEF Warning
<1>3. Sound'
    BY <1>1, StaysSound
<1>4. QED
    BY <1>1, <1>2, <1>3, LocationHolds

LEMMA ResolveHolds ==
    ASSUME AnswersInv, Resolve
    PROVE  AnswersInv'
<1>1. /\ left # {} /\ OfProject(Target) /\ ~Unresolvable(Target) /\ left' = left \ {Location}
      /\ relationships' = relationships \cup UNION {Link(query, d) : d \in Found(query, Location)}
      /\ UNCHANGED <<input, phase, results, query, warned>>
    BY DEF Resolve
<1>2. PICK l, q : l = Location /\ q = query
    OBVIOUS
<1>3. l \in left /\ OfProject(l.file) /\ ~Unresolvable(l.file)
    BY <1>1, <1>2 DEF Location, Target
<1>4. q \in Queries /\ l \in Answer(q)
    BY <1>1, <1>2, <1>3 DEF AnswersInv, AtHand
<1>5. relationships' = relationships \cup UNION {Link(q, x) : x \in Found(q, l)}
    BY <1>1, <1>2
<1>6. \A x \in Found(q, l) : Link(q, x) \subseteq WithTests \cup Promoted
    BY <1>3, <1>4, LinksKnown DEF AnswersInv
<1>7. relationships' \subseteq Full \cup WithTests \cup Promoted
    BY <1>5, <1>6 DEF AnswersInv, Sound
<1>8. Sound'
    <2>1. Full' = Full /\ WithTests' = WithTests /\ Promoted' = Promoted
        BY <1>1, Fixed
    <2>2. QED
        BY <1>7, <2>1 DEF Sound
<1>9. Linked(q, l)'
    <2>1. Found(q, l)' = Found(q, l)
        BY <1>1, Fixed
    <2>2. \A x \in Found(q, l) : Link(q, x) \subseteq relationships'
        BY <1>5
    <2>3. QED
        BY <2>1, <2>2 DEF Linked
<1>10. Linked(query, l)'
    BY <1>1, <1>2, <1>9
<1>11. relationships \subseteq relationships'
    BY <1>5
<1>12. QED
    BY <1>1, <1>2, <1>8, <1>10, <1>11, LocationHolds

LEMMA FinishHolds ==
    ASSUME AnswersInv, Finish
    PROVE  AnswersInv'
<1>1. /\ phase = "answers" /\ left = {} /\ results = {} /\ phase' = "done"
      /\ UNCHANGED <<input, results, query, left, relationships, warned>>
    BY DEF Finish
<1>2. Queries' = Queries /\ \A q : Answer(q)' = Answer(q)
    BY <1>1, Fixed
<1>3. Sound' /\ (project \in Projects)'
    BY <1>1, StaysSound
<1>4. AtHand'
    BY <1>1, <1>2 DEF AnswersInv, AtHand
<1>5. Results'
    BY <1>1 DEF Results
<1>6. Treated'
    <2>1. SUFFICES ASSUME warned = {}, NEW q \in Queries, NEW l \in Answer(q) PROVE Linked(q, l)'
        BY <1>1, <1>2 DEF Treated
    <2>2. Linked(q, l)
        BY <1>1, <2>1 DEF AnswersInv, Treated
    <2>3. QED
        BY <1>1, <2>2, StaysLinked
<1>7. QED
    BY <1>3, <1>4, <1>5, <1>6 DEF AnswersInv

LEMMA StutterHolds ==
    ASSUME AnswersInv, UNCHANGED vars
    PROVE  AnswersInv'
<1>1. UNCHANGED <<input, phase, results, query, left, relationships, warned>>
    BY DEF vars, input
<1>2. Queries' = Queries /\ \A q : Answer(q)' = Answer(q)
    BY <1>1, Fixed
<1>3. Sound' /\ (project \in Projects)'
    BY <1>1, StaysSound
<1>4. AtHand'
    <2>1. Answer(query)' = Answer(query)
        BY <1>1, <1>2
    <2>2. QED
        BY <1>1, <1>2, <2>1 DEF AnswersInv, AtHand
<1>5. Results'
    BY <1>1, <1>2 DEF AnswersInv, Results
<1>6. Treated'
    <2>1. SUFFICES ASSUME phase # "ask", warned = {}, NEW q \in Queries
                   PROVE  \/ \E r \in results : r.query = q
                          \/ \A l \in Answer(q) : Linked(q, l)' \/ (q = query /\ l \in left)
        BY <1>1, <1>2 DEF Treated
    <2>2. \A l : Linked(q, l) => Linked(q, l)'
        BY <1>1, StaysLinked
    <2>3. QED
        BY <2>1, <2>2 DEF AnswersInv, Treated
<1>7. QED
    BY <1>3, <1>4, <1>5, <1>6 DEF AnswersInv

---------------------------------------------------------------------------
(* The theorems.                                                           *)

\* Whatever fails, a location that is passed over without a diagnostic is not the
\* project's, and what a location becomes is known.
THEOREM AnswersSafe == Spec => []AnswersInv
<1>1. Init => AnswersInv
    BY InitHolds
<1>2. AnswersInv /\ [Next]_vars => AnswersInv'
    <2>1. SUFFICES ASSUME AnswersInv, [Next]_vars PROVE AnswersInv'
        OBVIOUS
    <2>2. CASE AskNothing
        BY <2>1, <2>2, AskNothingHolds
    <2>3. CASE BatchFails
        BY <2>1, <2>3, BatchFailsHolds
    <2>4. CASE BatchAnswers
        BY <2>1, <2>4, BatchAnswersHolds
    <2>5. CASE TakeResult
        BY <2>1, <2>5, TakeResultHolds
    <2>6. CASE Skip
        BY <2>1, <2>6, SkipHolds
    <2>7. CASE CannotResolve
        BY <2>1, <2>7, CannotResolveHolds
    <2>8. CASE Resolve
        BY <2>1, <2>8, ResolveHolds
    <2>9. CASE Finish
        BY <2>1, <2>9, FinishHolds
    <2>10. CASE Finished \/ UNCHANGED vars
        BY <2>1, <2>10, StutterHolds DEF Finished
    <2>11. QED
        BY <2>1, <2>2, <2>3, <2>4, <2>5, <2>6, <2>7, <2>8, <2>9, <2>10 DEF Next
<1>3. QED
    BY <1>1, <1>2, PTL DEF Spec

\* A query is about a file of the request.
LEMMA QueryPlaces ==
    ASSUME project \in Projects, NEW q \in Queries
    PROVE  q.pos.file \in allow
<1>1. PICK d \in Loaded : Asked(d) /\ (q = TypeQuery(d) \/ \E m \in MethodsAsked(d) : q = MethodQuery(d, m))
    BY QueryShape
<1>2. CASE q = TypeQuery(d)
    <2>1. q.pos = TypePos(d) /\ TypePos(d).file = d.file
        BY <1>2, TypeQueries DEF TypePos
    <2>2. QED
        BY <1>1, <2>1, AskedAbout
<1>3. CASE \E m \in MethodsAsked(d) : q = MethodQuery(d, m)
    <2>1. PICK m \in MethodsAsked(d) : q = MethodQuery(d, m)
        BY <1>3
    <2>2. q.pos = DeclaredAt(d, m)
        BY <2>1, MethodQueries
    <2>3. QED
        BY <1>1, <2>2, AskedAbout
<1>4. QED
    BY <1>1, <1>2, <1>3

\* A place is asked about once, in files of the request, and nothing relates to itself.
THEOREM AnswersTypes == Spec => []TypeOK
<1>1. AnswersInv => TypeOK
    <2> SUFFICES ASSUME AnswersInv PROVE TypeOK
        OBVIOUS
    <2>1. project \in Projects
        BY DEF AnswersInv
    <2>2. \A p, q \in Queries : p.pos = q.pos => p = q
        BY <2>1, OnePerPlace
    <2>3. \A q \in Queries : q.pos.file \in allow
        BY <2>1, QueryPlaces
    <2>4. phase \in {"ask", "answers", "done"} /\ (phase # "answers" => results = {} /\ left = {})
        BY DEF AnswersInv, AtHand
    <2>5. \A r \in results :
              /\ r.query.pos.file \in allow
              /\ r.error # "" => r.locations = {}
              /\ \A s \in results : r.query.pos = s.query.pos => r = s
        <3>1. /\ \A r \in results : r.query \in Queries /\ (r.error # "" => r.locations = {})
              /\ \A r, s \in results : r.query = s.query => r = s
            BY DEF AnswersInv, Results
        <3>2. QED
            BY <2>2, <2>3, <3>1
    <2>6. query # NoQuery => query.pos.file \in allow /\ \A r \in results : r.query.pos # query.pos
        <3>1. \A r \in results : r.query \in Queries /\ r.query # query
            BY DEF AnswersInv, Results
        <3>2. query # NoQuery => query \in Queries
            BY DEF AnswersInv, AtHand
        <3>3. QED
            BY <2>2, <2>3, <3>1, <3>2
    <2>7. \A r \in relationships : r.type \in {"GO_SATISFIES", "GO_METHOD_SATISFIES"} /\ r.from # r.to
        BY <2>1, KnownLinksProper DEF AnswersInv, Sound, Proper
    <2>8. QED
        BY <2>4, <2>5, <2>6, <2>7 DEF TypeOK
<1>2. QED
    BY <1>1, AnswersSafe, PTL

\* Nothing is reported that the full request, its tests or promotion would not account
\* for, though gopls answers from dependencies and test files too.
THEOREM AnswersInventNothing == Spec => []NothingInvented
<1>1. AnswersInv => NothingInvented
    BY DEF AnswersInv, Sound, NothingInvented
<1>2. QED
    BY <1>1, AnswersSafe, PTL

\* With no diagnostic, only the losses known from OnlyKnownLosses happen: no failure of
\* gopls, of a file or of go.mod loses a relationship in silence.
THEOREM AnswersLoseNoMore == Spec => []OnlyKnownLosses
<1>1. AnswersInv => OnlyKnownLosses
    <2>1. SUFFICES ASSUME AnswersInv, Silent, NEW d \in Concrete(Source), NEW i \in Interfaces(Source),
                          i.form = "literal", Implements(Known, d, i)
                   PROVE  /\ d.file \in allow \/ i.file \in allow => TypeLink(d, i) \in relationships
                          /\ \A m \in Overridden(d, i) :
                                \/ InRequest(d, m) /\ d.file \in allow
                                \/ i.file \in allow /\ ~Shared(i)
                                => MethodLink(d, i, m) \in relationships
        BY DEF OnlyKnownLosses
    <2>2. project \in Projects
        BY <2>1 DEF AnswersInv
    <2>3. ASSUME NEW r, Finds(r) PROVE r \in relationships
        <3>1. results = {} /\ left = {}
            BY <2>1 DEF Silent, AnswersInv, AtHand
        <3>2. \A q \in Queries : \A l \in Answer(q) : Linked(q, l)
            BY <2>1, <3>1 DEF Silent, AnswersInv, Treated
        <3>3. QED
            BY <2>3, <3>2 DEF Finds, Linked
    <2>4. d.file \in allow =>
              /\ Finds(TypeLink(d, i))
              /\ \A m \in Overridden(d, i) : InRequest(d, m) => Finds(MethodLink(d, i, m))
        BY <2>1, <2>2, FindsFromStruct
    <2>5. i.file \in allow =>
              /\ Finds(TypeLink(d, i))
              /\ ~Shared(i) => \A m \in Overridden(d, i) : Finds(MethodLink(d, i, m))
        BY <2>1, <2>2, FindsFromInterface
    <2>6. QED
        BY <2>3, <2>4, <2>5
<1>2. QED
    BY <1>1, AnswersSafe, PTL
=============================================================================
