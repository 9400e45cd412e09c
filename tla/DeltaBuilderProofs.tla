------------------------ MODULE DeltaBuilderProofs ------------------------
(***************************************************************************)
(* The graph of any request for any files of any program, checked by       *)
(* TLAPS.                                                                  *)
(***************************************************************************)
EXTENDS DeltaBuilder, FiniteSetTheorems, SequenceTheorems, TLAPS

---------------------------------------------------------------------------
(* Facts about sets and sequences.                                         *)

\* The sequence made of a finite set has each of its elements once.
LEMMA SeqOfSet ==
    ASSUME NEW S, IsFiniteSet(S)
    PROVE  IsSequence(SetToSeq(S)) /\ ToSet(SetToSeq(S)) = S /\ IsInjective(SetToSeq(S))
<1> DEFINE n == Cardinality(S)
<1>1. n \in Nat /\ ExistsBijection(1..n, S)
    BY FS_CardinalityType
<1>2. PICK f \in [1..n -> S] : IsInjective(f)
    BY <1>1 DEF ExistsBijection, Bijection, Injection
<1>3. SetToSeq(S) \in [1..n -> S] /\ IsInjective(SetToSeq(S))
    BY <1>2 DEF SetToSeq
<1>4. SetToSeq(S) \in Seq(S) /\ DOMAIN SetToSeq(S) = 1..n
    BY <1>1, <1>3
<1>5. SetToSeq(S) \in Injection(1..n, S) /\ IsFiniteSet(1..n) /\ Cardinality(1..n) = n
    BY <1>1, <1>3, FS_Interval DEF Injection
<1>6. SetToSeq(S) \in Surjection(1..n, S)
    BY <1>5, FS_Injection
<1>7. ToSet(SetToSeq(S)) = S
    BY <1>4, <1>6 DEF Surjection, ToSet
<1>8. QED
    BY <1>3, <1>4, <1>7 DEF IsSequence

\* What a sequence is.
LEMMA Sequence ==
    ASSUME NEW s, IsSequence(s)
    PROVE  /\ s \in Seq(ToSet(s)) /\ Len(s) \in Nat /\ DOMAIN s = 1..Len(s)
           /\ \A i \in 1..Len(s) : s[i] \in ToSet(s)
           /\ \A x \in ToSet(s) : \E i \in 1..Len(s) : s[i] = x
           /\ IsFiniteSet(ToSet(s))
<1>1. s \in Seq(ToSet(s)) /\ Len(s) \in Nat /\ DOMAIN s = 1..Len(s)
    BY DEF IsSequence
<1>2. /\ \A i \in 1..Len(s) : s[i] \in ToSet(s)
      /\ \A x \in ToSet(s) : \E i \in 1..Len(s) : s[i] = x
    BY <1>1 DEF ToSet
<1>3. IsFiniteSet(1..Len(s))
    BY <1>1, FS_Interval
<1>4. IsFiniteSet(ToSet(s))
    <2>1. s \in [1..Len(s) -> ToSet(s)]
        BY <1>1
    <2>2. s \in Surjection(1..Len(s), ToSet(s))
        BY <1>2, <2>1 DEF Surjection
    <2>3. QED
        BY <1>3, <2>2, FS_Surjection
<1>5. QED
    BY <1>1, <1>2, <1>4

\* One sequence after another.
LEMMA Joined ==
    ASSUME NEW s, NEW t, IsSequence(s), IsSequence(t)
    PROVE  /\ IsSequence(s \o t) /\ ToSet(s \o t) = ToSet(s) \cup ToSet(t)
           /\ Len(s \o t) = Len(s) + Len(t)
           /\ \A i \in 1..Len(s) : (s \o t)[i] = s[i]
           /\ \A i \in 1..Len(t) : (s \o t)[Len(s) + i] = t[i]
           /\ \A k \in 1..(Len(s) + Len(t)) : k \notin 1..Len(s) => k - Len(s) \in 1..Len(t)
<1> DEFINE S == ToSet(s) \cup ToSet(t)
<1>1. /\ Len(s) \in Nat /\ DOMAIN s = 1..Len(s) /\ Len(t) \in Nat /\ DOMAIN t = 1..Len(t)
      /\ s \in Seq(S) /\ t \in Seq(S)
    BY Sequence
<1> HIDE DEF S
<1>2. /\ s \o t \in Seq(S) /\ Len(s \o t) = Len(s) + Len(t) /\ DOMAIN (s \o t) = 1..(Len(s) + Len(t))
      /\ \A i \in 1..Len(s) : (s \o t)[i] = s[i]
      /\ \A i \in 1..Len(t) : (s \o t)[Len(s) + i] = t[i]
      /\ \A k \in 1..(Len(s) + Len(t)) : k \notin 1..Len(s) => k - Len(s) \in 1..Len(t)
    BY <1>1
<1>3. ToSet(s \o t) = S
    <2>1. ASSUME NEW k \in 1..(Len(s) + Len(t)) PROVE (s \o t)[k] \in S
        BY <1>2, <2>1
    <2>2. ASSUME NEW x \in S PROVE \E k \in 1..(Len(s) + Len(t)) : (s \o t)[k] = x
        <3>1. CASE x \in ToSet(s)
            <4>1. PICK i \in 1..Len(s) : s[i] = x
                BY <3>1, Sequence
            <4>2. QED
                BY <1>1, <1>2, <4>1
        <3>2. CASE x \in ToSet(t)
            <4>1. PICK i \in 1..Len(t) : t[i] = x
                BY <3>2, Sequence
            <4>2. Len(s) + i \in 1..(Len(s) + Len(t)) /\ (s \o t)[Len(s) + i] = x
                BY <1>1, <1>2, <4>1
            <4>3. QED
                BY <4>2
        <3>3. QED
            BY <3>1, <3>2 DEF S
    <2>3. QED
        BY <1>2, <2>1, <2>2 DEF ToSet
<1>4. QED
    BY <1>2, <1>3 DEF S, IsSequence

\* One element after a sequence.
LEMMA Appended ==
    ASSUME NEW s, IsSequence(s), NEW x
    PROVE  /\ IsSequence(Append(s, x)) /\ ToSet(Append(s, x)) = ToSet(s) \cup {x}
           /\ Len(Append(s, x)) = Len(s) + 1 /\ Append(s, x)[Len(s) + 1] = x
           /\ \A i \in 1..Len(s) : Append(s, x)[i] = s[i]
<1> DEFINE S == ToSet(s) \cup {x}
<1>1. Len(s) \in Nat /\ DOMAIN s = 1..Len(s) /\ s \in Seq(S) /\ x \in S
    BY Sequence
<1> HIDE DEF S
<1>2. /\ Append(s, x) \in Seq(S) /\ Len(Append(s, x)) = Len(s) + 1
      /\ DOMAIN Append(s, x) = 1..(Len(s) + 1) /\ Append(s, x)[Len(s) + 1] = x
      /\ \A i \in 1..Len(s) : Append(s, x)[i] = s[i]
    BY <1>1
<1>3. 1..(Len(s) + 1) = 1..Len(s) \cup {Len(s) + 1}
    BY <1>1
<1>4. ToSet(Append(s, x)) = S
    BY <1>1, <1>2, <1>3 DEF ToSet, S
<1>5. QED
    BY <1>2, <1>4 DEF S, IsSequence

\* The image of a finite set is finite.
LEMMA FiniteImage ==
    ASSUME NEW S, IsFiniteSet(S), NEW f
    PROVE  IsFiniteSet({f[x] : x \in S})
<1>1. [x \in S |-> f[x]] \in Surjection(S, {f[x] : x \in S})
    BY DEF Surjection
<1>2. QED
    BY <1>1, FS_Surjection

---------------------------------------------------------------------------
(* Facts about programs and about what is added to the delta.              *)

\* The declarations of a program: each has one place, in the package of its path.
LEMMA Program ==
    ASSUME program \in Programs
    PROVE  /\ Len(program) \in Nat /\ DOMAIN program = 1..Len(program)
           /\ \A n \in DOMAIN program :
                 /\ Len(program[n].decls) \in Nat
                 /\ DOMAIN program[n].decls = 1..Len(program[n].decls)
                 /\ \A i \in DOMAIN program[n].decls :
                       /\ program[n].decls[i] \in Decls(program[n])
                       /\ program[n].decls[i] \in AllDecls
                       /\ program[n].decls[i].pkg = program[n].path
                       /\ program[n].decls[i].file \in Files(program)
           /\ \A d \in AllDecls : \E n \in DOMAIN program : \E i \in DOMAIN program[n].decls :
                 d = program[n].decls[i]
           /\ \A n, k \in DOMAIN program : \A i \in DOMAIN program[n].decls, j \in DOMAIN program[k].decls :
                 program[n].decls[i] = program[k].decls[j] => n = k /\ i = j
           /\ IsFiniteSet(AllDecls)
<1>1. /\ IsSequence(program)
      /\ \A i, j \in DOMAIN program : program[i].path = program[j].path => i = j
      /\ \A i \in DOMAIN program :
            /\ IsSequence(program[i].decls) /\ IsInjective(program[i].decls)
            /\ \A d \in Decls(program[i]) : d.pkg = program[i].path
    BY ProgramsAssumption
<1>2. Len(program) \in Nat /\ DOMAIN program = 1..Len(program)
    BY <1>1, Sequence
<1>3. ASSUME NEW n \in DOMAIN program
      PROVE  /\ Len(program[n].decls) \in Nat
             /\ DOMAIN program[n].decls = 1..Len(program[n].decls)
             /\ IsFiniteSet(Decls(program[n]))
             /\ \A i \in DOMAIN program[n].decls :
                   /\ program[n].decls[i] \in Decls(program[n])
                   /\ program[n].decls[i] \in AllDecls
                   /\ program[n].decls[i].pkg = program[n].path
                   /\ program[n].decls[i].file \in Files(program)
    <2>1. IsSequence(program[n].decls)
        BY <1>1
    <2>2. /\ Len(program[n].decls) \in Nat
          /\ DOMAIN program[n].decls = 1..Len(program[n].decls)
          /\ IsFiniteSet(Decls(program[n]))
          /\ \A i \in DOMAIN program[n].decls : program[n].decls[i] \in Decls(program[n])
        BY <2>1, Sequence DEF Decls
    <2>3. Decls(program[n]) \subseteq AllDecls
        BY DEF AllDecls, DeclsOf
    <2>4. ASSUME NEW d \in AllDecls PROVE d.file \in Files(program)
        BY DEF AllDecls, Files
    <2>5. QED
        BY <1>1, <2>2, <2>3, <2>4
<1>4. ASSUME NEW d \in AllDecls
      PROVE  \E n \in DOMAIN program : \E i \in DOMAIN program[n].decls : d = program[n].decls[i]
    <2>1. PICK n \in DOMAIN program : d \in Decls(program[n])
        BY DEF AllDecls, DeclsOf
    <2>2. QED
        BY <2>1 DEF Decls, ToSet
<1>5. ASSUME NEW n \in DOMAIN program, NEW k \in DOMAIN program,
             NEW i \in DOMAIN program[n].decls, NEW j \in DOMAIN program[k].decls,
             program[n].decls[i] = program[k].decls[j]
      PROVE  n = k /\ i = j
    <2>1. program[n].path = program[k].path
        BY <1>3, <1>5
    <2>2. n = k
        BY <1>1, <2>1
    <2>3. IsInjective(program[n].decls)
        BY <1>1
    <2>4. QED
        BY <1>5, <2>2, <2>3 DEF IsInjective
<1>6. IsFiniteSet(AllDecls)
    <2> DEFINE f == [n \in DOMAIN program |-> Decls(program[n])]
    <2>1. IsFiniteSet(1..Len(program))
        BY <1>2, FS_Interval
    <2>2. IsFiniteSet({f[n] : n \in DOMAIN program})
        BY <1>2, <2>1, FiniteImage
    <2>3. \A T \in {f[n] : n \in DOMAIN program} : IsFiniteSet(T)
        BY <1>3
    <2>4. AllDecls = UNION {f[n] : n \in DOMAIN program}
        BY DEF AllDecls, DeclsOf
    <2>5. QED
        BY <2>2, <2>3, <2>4, FS_UNION
<1>7. QED
    BY <1>2, <1>3, <1>4, <1>5, <1>6

\* Relationships stay distinct, and those to add are added.
LEMMA RelationshipsAdded ==
    ASSUME NEW rels, IsSequence(rels), IsInjective(rels), NEW new, IsFiniteSet(new)
    PROVE  /\ IsSequence(AddRels(rels, new)) /\ IsInjective(AddRels(rels, new))
           /\ ToSet(AddRels(rels, new)) = ToSet(rels) \cup new
<1> DEFINE t == SetToSeq(new \ ToSet(rels))
<1>1. IsFiniteSet(new \ ToSet(rels))
    BY FS_Difference
<1>2. IsSequence(t) /\ ToSet(t) = new \ ToSet(rels) /\ IsInjective(t)
    BY <1>1, SeqOfSet
<1> HIDE DEF t
<1>3. AddRels(rels, new) = rels \o t
    BY DEF AddRels, t
<1>4. IsSequence(rels \o t) /\ ToSet(rels \o t) = ToSet(rels) \cup new
    BY <1>2, Joined
<1>5. IsInjective(rels \o t)
    <2>1. /\ DOMAIN rels = 1..Len(rels) /\ DOMAIN t = 1..Len(t) /\ Len(rels) \in Nat /\ Len(t) \in Nat
          /\ DOMAIN (rels \o t) = 1..(Len(rels) + Len(t))
        BY <1>2, <1>4, Sequence, Joined
    <2>2. ASSUME NEW i \in 1..(Len(rels) + Len(t)), NEW j \in 1..(Len(rels) + Len(t)),
                 (rels \o t)[i] = (rels \o t)[j]
          PROVE  i = j
        <3>1. CASE i \in 1..Len(rels) /\ j \in 1..Len(rels)
            BY <1>2, <2>1, <2>2, <3>1, Joined DEF IsInjective
        <3>2. CASE i \notin 1..Len(rels) /\ j \notin 1..Len(rels)
            <4>1. i - Len(rels) \in 1..Len(t) /\ j - Len(rels) \in 1..Len(t)
                BY <1>2, <3>2, Joined
            <4>2. /\ (rels \o t)[Len(rels) + (i - Len(rels))] = t[i - Len(rels)]
                  /\ (rels \o t)[Len(rels) + (j - Len(rels))] = t[j - Len(rels)]
                BY <1>2, <4>1, Joined
            <4>3. Len(rels) + (i - Len(rels)) = i /\ Len(rels) + (j - Len(rels)) = j
                BY <2>1
            <4>4. i - Len(rels) = j - Len(rels)
                BY <1>2, <2>1, <2>2, <4>1, <4>2, <4>3 DEF IsInjective
            <4>5. QED
                BY <4>3, <4>4
        <3>3. ASSUME NEW k \in 1..Len(rels), NEW l \in 1..(Len(rels) + Len(t)), l \notin 1..Len(rels),
                     (rels \o t)[k] = (rels \o t)[l]
              PROVE  FALSE
            <4>1. l - Len(rels) \in 1..Len(t) /\ Len(rels) + (l - Len(rels)) = l
                BY <1>2, <2>1, <3>3, Joined
            <4>2. (rels \o t)[k] = rels[k] /\ (rels \o t)[l] = t[l - Len(rels)]
                BY <1>2, <4>1, Joined
            <4>3. rels[k] \in ToSet(rels) /\ t[l - Len(rels)] \in ToSet(t)
                BY <1>2, <4>1, Sequence
            <4>4. QED
                BY <1>2, <3>3, <4>2, <4>3
        <3>4. QED
            BY <2>2, <3>1, <3>2, <3>3
    <2>3. QED
        BY <2>1, <2>2 DEF IsInjective
<1>6. QED
    BY <1>3, <1>4, <1>5

LEMMA RelationshipAdded ==
    ASSUME NEW rels, IsSequence(rels), IsInjective(rels), NEW r
    PROVE  /\ IsSequence(AddRel(rels, r)) /\ IsInjective(AddRel(rels, r))
           /\ ToSet(AddRel(rels, r)) = ToSet(rels) \cup {r}
<1>1. CASE r \in ToSet(rels)
    BY <1>1 DEF AddRel
<1>2. CASE r \notin ToSet(rels)
    <2>1. AddRel(rels, r) = Append(rels, r)
        BY <1>2 DEF AddRel
    <2>2. /\ IsSequence(Append(rels, r)) /\ ToSet(Append(rels, r)) = ToSet(rels) \cup {r}
          /\ Len(rels) \in Nat /\ DOMAIN rels = 1..Len(rels) /\ Len(Append(rels, r)) = Len(rels) + 1
          /\ DOMAIN Append(rels, r) = 1..(Len(rels) + 1) /\ Append(rels, r)[Len(rels) + 1] = r
          /\ \A i \in 1..Len(rels) : Append(rels, r)[i] = rels[i] /\ rels[i] \in ToSet(rels)
        BY Appended, Sequence
    <2>3. IsInjective(Append(rels, r))
        <3>1. \A i \in 1..(Len(rels) + 1) : i \in 1..Len(rels) \/ i = Len(rels) + 1
            BY <2>2
        <3>2. QED
            BY <1>2, <2>2, <3>1 DEF IsInjective
    <2>4. QED
        BY <2>1, <2>2, <2>3
<1>3. QED
    BY <1>1, <1>2

\* The nodes of new ids: one for each.
LEMMA NodesAdded ==
    ASSUME NEW ids, IsFiniteSet(ids), NEW b
    PROVE  LET nodes == NodesOf(ids, b)
           IN /\ IsSequence(nodes) /\ Ids(nodes) = ids
              /\ \A i \in 1..Len(nodes) : nodes[i].id \in ids /\ nodes[i].placeholder = b
              /\ \A i, j \in 1..Len(nodes) : nodes[i].id = nodes[j].id => i = j
<1> DEFINE order == SetToSeq(ids)
           nodes == NodesOf(ids, b)
<1>1. IsSequence(order) /\ ToSet(order) = ids /\ IsInjective(order)
    BY SeqOfSet
<1>2. /\ Len(order) \in Nat /\ DOMAIN order = 1..Len(order)
      /\ \A i \in 1..Len(order) : order[i] \in ids
      /\ \A x \in ids : \E i \in 1..Len(order) : order[i] = x
    BY <1>1, Sequence
<1> HIDE DEF order
<1>3. nodes = [i \in 1..Len(order) |-> [id |-> order[i], placeholder |-> b]]
    BY <1>2 DEF NodesOf, order
<1> HIDE DEF nodes
<1>4. DOMAIN nodes = 1..Len(order) /\ \A i \in 1..Len(order) : nodes[i].id = order[i] /\ nodes[i].placeholder = b
    BY <1>3
<1>5. nodes \in Seq(ToSet(nodes)) /\ Len(nodes) = Len(order)
    <2>1. \A i \in 1..Len(order) : nodes[i] \in ToSet(nodes)
        BY <1>4 DEF ToSet
    <2>2. nodes \in [1..Len(order) -> ToSet(nodes)]
        BY <1>3, <2>1
    <2>3. QED
        BY <1>2, <2>2
<1>6. Ids(nodes) = ids
    BY <1>2, <1>4 DEF Ids, ToSet
<1>7. \A i, j \in 1..Len(nodes) : nodes[i].id = nodes[j].id => i = j
    BY <1>1, <1>2, <1>4, <1>5 DEF IsInjective
<1>8. QED
    BY <1>2, <1>4, <1>5, <1>6, <1>7 DEF IsSequence, nodes

\* A type is said to embed finitely many others.
LEMMA EmbedsFinite ==
    ASSUME NEW d, IsFiniteSet(d.embeds)
    PROVE  IsFiniteSet(EmbedsOf(d))
<1> DEFINE f == [ref \in d.embeds |-> WrittenAs(d, ref)]
           g == [ref \in d.embeds |-> NamedAs(d, ref)]
<1>1. {f[ref] : ref \in d.embeds} = {WrittenAs(d, ref) : ref \in d.embeds}
    OBVIOUS
<1>2. {g[ref] : ref \in d.embeds} = {NamedAs(d, ref) : ref \in d.embeds}
    OBVIOUS
<1> HIDE DEF f, g
<1>3. IsFiniteSet({f[ref] : ref \in d.embeds}) /\ IsFiniteSet({g[ref] : ref \in d.embeds})
    BY FiniteImage
<1>4. IsFiniteSet({WrittenAs(d, ref) : ref \in d.embeds} \cup {NamedAs(d, ref) : ref \in d.embeds})
    BY <1>1, <1>2, <1>3, FS_Union
<1>5. QED
    BY <1>4, FS_Subset DEF EmbedsOf

\* Whatever a phase finds in a program, it is finitely much.
LEMMA FoundIsFinite ==
    ASSUME program \in Programs
    PROVE  /\ pk \in DOMAIN program => IsFiniteSet(InterfaceMethods)
           /\ IsFiniteSet(Embeds)
           /\ IsFiniteSet(Satisfies(World, AllDecls, unitBy))
           /\ IsFiniteSet(InterfaceOverrides(World, AllDecls) \cup EmbeddedOverrides(World, AllDecls))
<1> DEFINE A == AllDecls
           W == World
<1>1. IsFiniteSet(A) /\ IsFiniteSet(W) /\ A \subseteq W
    BY Program, ElsewhereAssumption, FS_Union DEF World, WorldOf, AllDecls
<1>2. ASSUME NEW d \in A, IsType(d) PROVE IsFiniteSet(d.methods) /\ IsFiniteSet(d.embeds)
    BY <1>2, ProgramsAssumption DEF AllDecls, DeclsOf
<1>3. ASSUME NEW S \in SUBSET A PROVE IsFiniteSet(S)
    BY <1>1, FS_Subset
<1>4. IsFiniteSet(A \X A)
    BY <1>1, FS_Product
<1>5. IsFiniteSet((A \X W) \X W)
    <2>1. IsFiniteSet(A \X W)
        BY <1>1, FS_Product
    <2>2. QED
        BY <1>1, <2>1, FS_Product
<1>6. ASSUME pk \in DOMAIN program PROVE IsFiniteSet(InterfaceMethods)
    <2> DEFINE S == {d \in Decls(Package) : InScope(d) /\ d.kind = "interface" /\ Emitted(d)}
               f == [d \in S |-> {<<IdOf(d), FunctionID(d.pkg, d.name, m)>> : m \in d.methods}]
    <2>1. S \in SUBSET A
        BY <1>6 DEF Package, AllDecls, DeclsOf
    <2>2. ASSUME NEW d \in S PROVE IsFiniteSet(f[d])
        <3> DEFINE g == [m \in d.methods |-> <<IdOf(d), FunctionID(d.pkg, d.name, m)>>]
        <3>1. IsFiniteSet(d.methods)
            BY <1>2, <2>1 DEF InScope
        <3>2. IsFiniteSet({g[m] : m \in d.methods})
            BY <3>1, FiniteImage
        <3>3. f[d] = {g[m] : m \in d.methods}
            OBVIOUS
        <3>4. QED
            BY <3>2, <3>3
    <2>3. {f[d] : d \in S} = {{<<IdOf(d), FunctionID(d.pkg, d.name, m)>> : m \in d.methods} : d \in S}
        OBVIOUS
    <2> HIDE DEF f
    <2>4. IsFiniteSet(S)
        BY <1>3, <2>1
    <2> HIDE DEF S
    <2>5. IsFiniteSet({f[d] : d \in S})
        BY <2>4, FiniteImage
    <2>6. InterfaceMethods = UNION {f[d] : d \in S}
        BY <2>3 DEF InterfaceMethods, S
    <2>7. \A T \in {f[d] : d \in S} : IsFiniteSet(T)
        BY <2>2
    <2>8. QED
        BY <2>5, <2>6, <2>7, FS_UNION
<1>7. IsFiniteSet(Embeds)
    <2> DEFINE S == {d \in A : IsType(d) /\ Emitted(d)}
               R(d) == EmbedsOf(d) \ {IdOf(d)}
               f == [d \in S |-> {Rel(IdOf(d), "GO_EMBEDS", to) : to \in R(d)}]
    <2>1. ASSUME NEW d \in S PROVE IsFiniteSet(f[d])
        <3> DEFINE g == [to \in R(d) |-> Rel(IdOf(d), "GO_EMBEDS", to)]
        <3>1. IsFiniteSet(R(d))
            <4>1. IsFiniteSet(EmbedsOf(d))
                BY <1>2, EmbedsFinite
            <4>2. QED
                BY <4>1, FS_Subset
        <3>2. IsFiniteSet({g[to] : to \in R(d)})
            BY <3>1, FiniteImage
        <3>3. f[d] = {g[to] : to \in R(d)}
            OBVIOUS
        <3>4. QED
            BY <3>2, <3>3
    <2>2. {f[d] : d \in S} = {{Rel(IdOf(d), "GO_EMBEDS", to) : to \in R(d)} : d \in S}
        OBVIOUS
    <2> HIDE DEF f
    <2>3. IsFiniteSet(S)
        BY <1>3
    <2>4. IsFiniteSet({f[d] : d \in S})
        BY <2>3, FiniteImage
    <2>5. Embeds = UNION {f[d] : d \in S}
        BY <2>2 DEF Embeds
    <2>6. \A T \in {f[d] : d \in S} : IsFiniteSet(T)
        BY <2>1
    <2>7. QED
        BY <2>4, <2>5, <2>6, FS_UNION
<1>8. IsFiniteSet(Satisfies(W, A, unitBy))
    <2> DEFINE f == [p \in A \X A |-> Rel(IdOf(p[1]), "GO_SATISFIES", IdOf(p[2]))]
    <2>1. \A p \in A \X A : f[p] = Rel(IdOf(p[1]), "GO_SATISFIES", IdOf(p[2]))
        OBVIOUS
    <2> HIDE DEF f
    <2>2. IsFiniteSet({f[p] : p \in A \X A})
        BY <1>4, FiniteImage
    <2>3. ASSUME NEW r \in Satisfies(W, A, unitBy) PROVE r \in {f[p] : p \in A \X A}
        <3>1. PICK d \in A, i \in A : r = Rel(IdOf(d), "GO_SATISFIES", IdOf(i))
            BY DEF Satisfies, Concrete, Interfaces
        <3>2. <<d, i>> \in A \X A /\ f[<<d, i>>] = r
            BY <2>1, <3>1
        <3>3. QED
            BY <3>2
    <2>4. QED
        BY <2>2, <2>3, FS_Subset
<1>9. IsFiniteSet(InterfaceOverrides(W, A) \cup EmbeddedOverrides(W, A))
    <2> DEFINE f == [p \in (A \X W) \X W |->
                        Rel(FunctionID(p[1][1].pkg, p[1][1].name, p[2].name), "GO_METHOD_SATISFIES",
                            FunctionID(p[1][2].pkg, p[1][2].name, p[2].name))]
    <2>1. \A p \in (A \X W) \X W :
              f[p] = Rel(FunctionID(p[1][1].pkg, p[1][1].name, p[2].name), "GO_METHOD_SATISFIES",
                         FunctionID(p[1][2].pkg, p[1][2].name, p[2].name))
        OBVIOUS
    <2> HIDE DEF f
    <2>2. IsFiniteSet({f[p] : p \in (A \X W) \X W})
        BY <1>5, FiniteImage
    <2>3. ASSUME NEW r \in InterfaceOverrides(W, A) \cup EmbeddedOverrides(W, A)
          PROVE  r \in {f[p] : p \in (A \X W) \X W}
        <3>1. PICK d \in A, e \in W, m \in UNION {Declared(W, x) : x \in W} :
                  /\ d.kind = "struct" /\ m \in Declared(W, d)
                  /\ r = Rel(FunctionID(d.pkg, d.name, m), "GO_METHOD_SATISFIES",
                             FunctionID(e.pkg, e.name, m))
            BY <1>1 DEF InterfaceOverrides, EmbeddedOverrides, Concrete, Interfaces, Contracts, Embedded, Types
        <3>2. PICK g \in W : m = g.name
            BY <3>1 DEF Declared, Methods
        <3>3. <<<<d, e>>, g>> \in (A \X W) \X W /\ f[<<<<d, e>>, g>>] = r
            BY <2>1, <3>1, <3>2
        <3>4. QED
            BY <3>3
    <2>4. QED
        BY <2>2, <2>3, FS_Subset
<1>10. QED
    BY <1>6, <1>7, <1>8, <1>9

---------------------------------------------------------------------------
(* What each action adds to the delta.                                     *)

Listed ==
    /\ IsSequence(packages) /\ IsSequence(units) /\ IsSequence(functions)
    /\ IsSequence(relationships) /\ IsInjective(relationships)

\* The ids of the nodes of two lists, and of a list with one more.
LEMMA IdsJoined ==
    ASSUME NEW s, NEW t, IsSequence(s), IsSequence(t)
    PROVE  Ids(s \o t) = Ids(s) \cup Ids(t)
BY Joined DEF Ids

LEMMA IdsAppended ==
    ASSUME NEW s, IsSequence(s), NEW n
    PROVE  Ids(Append(s, n)) = Ids(s) \cup {n.id}
BY Appended DEF Ids

LEMMA StartPackageAdds ==
    ASSUME Listed, StartPackage
    PROVE  /\ Listed'
           /\ ToSet(packages') = ToSet(packages) \cup
                 (IF \E d \in Decls(Package) : Allowed(d) THEN {PackageID(Package.path)} ELSE {})
           /\ UNCHANGED <<units, functions, relationships, names>>
<1>1. UNCHANGED <<units, functions, relationships, names>>
    BY DEF StartPackage
<1>2. CASE \E d \in Decls(Package) : Allowed(d)
    <2>1. packages' = Append(packages, PackageID(Package.path))
        BY <1>2 DEF StartPackage
    <2>2. QED
        BY <1>1, <1>2, <2>1, Appended DEF Listed
<1>3. CASE ~\E d \in Decls(Package) : Allowed(d)
    BY <1>1, <1>3 DEF StartPackage, Listed
<1>4. QED
    BY <1>2, <1>3

LEMMA EmitUnitAdds ==
    ASSUME Listed, EmitUnit
    PROVE  /\ Listed'
           /\ Ids(units') = Ids(units) \cup {IdOf(Decl)}
           /\ unitBy' = unitBy \cup {IdOf(Decl)}
           /\ Added' = Added \cup {Rel(PackageID(Decl.pkg), "PACKAGE_TO_UNIT", IdOf(Decl))}
           /\ UNCHANGED <<packages, functions, funcBy>>
<1>1. /\ units' = Append(units, [id |-> IdOf(Decl)])
      /\ unitBy' = unitBy \cup {IdOf(Decl)}
      /\ relationships' = AddRel(relationships, Rel(PackageID(Decl.pkg), "PACKAGE_TO_UNIT", IdOf(Decl)))
      /\ UNCHANGED <<packages, functions, funcBy>>
    BY DEF EmitUnit
<1>2. IsSequence(units') /\ Ids(units') = Ids(units) \cup {IdOf(Decl)}
    BY <1>1, Appended, IdsAppended DEF Listed
<1>3. /\ IsSequence(relationships') /\ IsInjective(relationships')
      /\ Added' = Added \cup {Rel(PackageID(Decl.pkg), "PACKAGE_TO_UNIT", IdOf(Decl))}
    BY <1>1, RelationshipAdded DEF Listed, Added
<1>4. QED
    BY <1>1, <1>2, <1>3 DEF Listed

\* The unit that a function misses, if it does, and the links of both.
Missed     == IF MissesSynthetic THEN {Synthetic} ELSE {}
OwnerLinks == {Rel(PackageID(Package.path), "PACKAGE_TO_UNIT", u) : u \in Missed} \cup
              (IF Linked(Decl) THEN {Rel(Owner(Decl), "UNIT_TO_FUNCTION", IdOf(Decl))} ELSE {})

LEMMA EmitFunctionAdds ==
    ASSUME Listed, EmitFunction
    PROVE  /\ Listed'
           /\ functions' = Append(functions, [id |-> IdOf(Decl), placeholder |-> FALSE])
           /\ Ids(functions') = Ids(functions) \cup {IdOf(Decl)}
           /\ funcBy' = funcBy \cup {IdOf(Decl)}
           /\ Ids(units') = Ids(units) \cup Missed
           /\ unitBy' = unitBy \cup Missed
           /\ Added' = Added \cup OwnerLinks
           /\ UNCHANGED packages
<1> DEFINE p    == Rel(PackageID(Package.path), "PACKAGE_TO_UNIT", Synthetic)
           u    == Rel(Owner(Decl), "UNIT_TO_FUNCTION", IdOf(Decl))
           rels == IF MissesSynthetic THEN AddRel(relationships, p) ELSE relationships
<1>1. /\ functions' = Append(functions, [id |-> IdOf(Decl), placeholder |-> FALSE])
      /\ funcBy' = funcBy \cup {IdOf(Decl)}
      /\ units' = IF MissesSynthetic THEN Append(units, [id |-> Synthetic]) ELSE units
      /\ unitBy' = unitBy \cup Missed
      /\ relationships' = IF Linked(Decl) THEN AddRel(rels, u) ELSE rels
      /\ UNCHANGED packages
    BY DEF EmitFunction, Missed
<1>2. IsSequence(functions') /\ Ids(functions') = Ids(functions) \cup {IdOf(Decl)}
    BY <1>1, Appended, IdsAppended DEF Listed
<1>3. IsSequence(units') /\ Ids(units') = Ids(units) \cup Missed
    <2>1. CASE MissesSynthetic
        BY <1>1, <2>1, Appended, IdsAppended DEF Listed, Missed
    <2>2. CASE ~MissesSynthetic
        BY <1>1, <2>2 DEF Listed, Missed
    <2>3. QED
        BY <2>1, <2>2
<1>4. /\ IsSequence(rels) /\ IsInjective(rels)
      /\ ToSet(rels) = ToSet(relationships) \cup (IF MissesSynthetic THEN {p} ELSE {})
    BY RelationshipAdded DEF Listed
<1> HIDE DEF rels
<1>5. /\ IsSequence(relationships') /\ IsInjective(relationships')
      /\ ToSet(relationships') = ToSet(rels) \cup (IF Linked(Decl) THEN {u} ELSE {})
    <2>1. CASE Linked(Decl)
        BY <1>1, <1>4, <2>1, RelationshipAdded
    <2>2. CASE ~Linked(Decl)
        BY <1>1, <1>4, <2>2
    <2>3. QED
        BY <2>1, <2>2
<1>6. OwnerLinks = (IF MissesSynthetic THEN {p} ELSE {}) \cup (IF Linked(Decl) THEN {u} ELSE {})
    BY DEF OwnerLinks, Missed
<1>7. Added' = Added \cup OwnerLinks
    BY <1>4, <1>5, <1>6 DEF Added
<1>8. QED
    BY <1>1, <1>2, <1>3, <1>5, <1>7 DEF Listed

\* The interface methods that are no functions yet, and their ids.
NewMethods   == {m \in InterfaceMethods : m[2] \notin funcBy}
NewMethodIds == {m[2] : m \in NewMethods}

LEMMA EndPackageAdds ==
    ASSUME Listed, program \in Programs, pk \in DOMAIN program, EndPackage
    PROVE  /\ Listed'
           /\ IsFiniteSet(NewMethodIds)
           /\ functions' = functions \o NodesOf(NewMethodIds, FALSE)
           /\ Ids(functions') = Ids(functions) \cup NewMethodIds
           /\ funcBy' = funcBy \cup NewMethodIds
           /\ Added' = Added \cup {Rel(m[1], "UNIT_TO_FUNCTION", m[2]) : m \in NewMethods}
           /\ UNCHANGED <<packages, units, unitBy>>
<1> DEFINE new == {Rel(m[1], "UNIT_TO_FUNCTION", m[2]) : m \in NewMethods}
           f   == [m \in NewMethods |-> m[2]]
           g   == [m \in NewMethods |-> Rel(m[1], "UNIT_TO_FUNCTION", m[2])]
<1>1. /\ functions' = functions \o NodesOf(NewMethodIds, FALSE)
      /\ funcBy' = funcBy \cup NewMethodIds
      /\ relationships' = AddRels(relationships, new)
      /\ UNCHANGED <<packages, units, unitBy>>
    BY DEF EndPackage, NewMethods, NewMethodIds
<1>2. NewMethodIds = {f[m] : m \in NewMethods} /\ new = {g[m] : m \in NewMethods}
    BY DEF NewMethodIds
<1>3. IsFiniteSet(NewMethods)
    BY FoundIsFinite, FS_Subset DEF NewMethods
<1> HIDE DEF f, g, new
<1>4. IsFiniteSet(NewMethodIds) /\ IsFiniteSet(new)
    <2>1. IsFiniteSet({f[m] : m \in NewMethods})
        BY <1>3, FiniteImage
    <2>2. IsFiniteSet({g[m] : m \in NewMethods})
        BY <1>3, FiniteImage
    <2>3. QED
        BY <1>2, <2>1, <2>2
<1>5. IsSequence(functions') /\ Ids(functions') = Ids(functions) \cup NewMethodIds
    <2>1. /\ IsSequence(NodesOf(NewMethodIds, FALSE))
          /\ Ids(NodesOf(NewMethodIds, FALSE)) = NewMethodIds
        BY <1>4, NodesAdded
    <2>2. QED
        BY <1>1, <2>1, Joined, IdsJoined DEF Listed
<1>6. /\ IsSequence(relationships') /\ IsInjective(relationships')
      /\ Added' = Added \cup new
    BY <1>1, <1>4, RelationshipsAdded DEF Listed, Added
<1>7. QED
    BY <1>1, <1>4, <1>5, <1>6 DEF Listed, new

\* The calls a declaration adds, from the function they are attributed to.
NewCalls == IF Allowed(Decl) THEN {Rel(Caller(Decl), "CALLS", to) : to \in Callees(Decl)} ELSE {}
NewCallees == IF Allowed(Decl) THEN NeedPlaceholder(Callees(Decl)) ELSE {}

LEMMA CollectCallsAdds ==
    ASSUME Listed, program \in Programs, pk \in DOMAIN program, CollectCalls
    PROVE  /\ Listed'
           /\ IsFiniteSet(NewCallees)
           /\ functions' = functions \o NodesOf(NewCallees, TRUE)
           /\ Ids(functions') = Ids(functions) \cup NewCallees
           /\ Added' = Added \cup NewCalls
           /\ current' = IF Allowed(Decl) THEN Caller(Decl) ELSE current
           /\ UNCHANGED <<packages, units, names>>
<1>1. pk \in DOMAIN program /\ at \in DOMAIN program[pk].decls /\ Decl \in AllDecls
    <2>1. AtDecl
        BY DEF CollectCalls
    <2>2. QED
        BY <2>1, Program DEF AtDecl, Package, Decl
<1>2. IsFiniteSet(Callees(Decl))
    <2>1. CASE IsType(Decl) \/ Caller(Decl) = NoFunction
        BY <2>1, FS_EmptySet DEF Callees
    <2>2. CASE ~(IsType(Decl) \/ Caller(Decl) = NoFunction)
        <3>1. IsSequence(Decl.calls)
            BY <1>1, <2>2, ProgramsAssumption DEF AllDecls, DeclsOf
        <3>2. IsFiniteSet(ToSet(Decl.calls))
            BY <3>1, Sequence
        <3>3. Callees(Decl) = ToSet(Decl.calls) \ {Caller(Decl)}
            BY <2>2 DEF Callees
        <3>4. QED
            BY <3>2, <3>3, FS_RemoveElement
    <2>3. QED
        BY <2>1, <2>2
<1>3. IsFiniteSet(NewCallees) /\ IsFiniteSet(NewCalls)
    <2> DEFINE f == [to \in Callees(Decl) |-> Rel(Caller(Decl), "CALLS", to)]
    <2>1. {f[to] : to \in Callees(Decl)} = {Rel(Caller(Decl), "CALLS", to) : to \in Callees(Decl)}
        OBVIOUS
    <2> HIDE DEF f
    <2>2. IsFiniteSet({f[to] : to \in Callees(Decl)})
        BY <1>2, FiniteImage
    <2>3. IsFiniteSet(NewCalls)
        BY <2>1, <2>2, FS_EmptySet DEF NewCalls
    <2>4. IsFiniteSet(NewCallees)
        BY <1>2, FS_EmptySet, FS_Difference DEF NewCallees, NeedPlaceholder
    <2>5. QED
        BY <2>3, <2>4
<1>4. /\ IsSequence(NodesOf(NewCallees, TRUE)) /\ Ids(NodesOf(NewCallees, TRUE)) = NewCallees
      /\ NewCallees = {} => NodesOf(NewCallees, TRUE) = <<>>
    <2>1. IsSequence(NodesOf(NewCallees, TRUE)) /\ Ids(NodesOf(NewCallees, TRUE)) = NewCallees
        BY <1>3, NodesAdded
    <2>2. ASSUME NewCallees = {} PROVE NodesOf(NewCallees, TRUE) = <<>>
        <3> DEFINE t == NodesOf(NewCallees, TRUE)
        <3>1. t \in Seq(ToSet(t)) /\ Len(t) \in Nat /\ \A i \in 1..Len(t) : t[i].id \in NewCallees
            BY <1>3, <2>1, Sequence, NodesAdded
        <3> HIDE DEF t
        <3>2. Len(t) = 0
            BY <2>2, <3>1
        <3>3. t = <<>>
            BY <3>1, <3>2
        <3>4. QED
            BY <3>3 DEF t
    <2>3. QED
        BY <2>1, <2>2
<1>5. CASE Allowed(Decl)
    <2>1. /\ functions' = functions \o NodesOf(NewCallees, TRUE)
          /\ relationships' = AddRels(relationships, NewCalls)
          /\ current' = Caller(Decl)
          /\ UNCHANGED <<packages, units, names>>
        BY <1>5 DEF CollectCalls, NewCallees, NewCalls
    <2>2. IsSequence(functions') /\ Ids(functions') = Ids(functions) \cup NewCallees
        BY <1>4, <2>1, Joined, IdsJoined DEF Listed
    <2>3. /\ IsSequence(relationships') /\ IsInjective(relationships')
          /\ Added' = Added \cup NewCalls
        BY <1>3, <2>1, RelationshipsAdded DEF Listed, Added
    <2>4. QED
        BY <1>3, <1>5, <2>1, <2>2, <2>3 DEF Listed
<1>6. CASE ~Allowed(Decl)
    <2>1. NewCallees = {} /\ NewCalls = {}
        BY <1>6 DEF NewCallees, NewCalls
    <2>2. UNCHANGED <<current, functions, relationships, packages, units, names>>
        BY <1>6 DEF CollectCalls
    <2>3. functions \o NodesOf(NewCallees, TRUE) = functions
        <3>1. functions \in Seq(ToSet(functions))
            BY DEF Listed, IsSequence
        <3>2. NodesOf(NewCallees, TRUE) = <<>>
            BY <1>4, <2>1
        <3>3. QED
            BY <3>1, <3>2, ConcatEmptySeq
    <2>4. Listed' /\ Added' = Added /\ Ids(functions') = Ids(functions)
        BY <2>2 DEF Listed, Added
    <2>5. QED
        BY <1>3, <1>6, <2>1, <2>2, <2>3, <2>4
<1>7. QED
    BY <1>5, <1>6

\* The last three phases add relationships and nothing else.
LEMMA LastPhasesAdd ==
    ASSUME Listed, program \in Programs
    PROVE  /\ CollectInheritance => Listed' /\ Added' = Added \cup Embeds
           /\ CollectImplements => Listed' /\ Added' = Added \cup Satisfies(World, AllDecls, unitBy)
           /\ CollectOverrides => Listed' /\ Added' = Added \cup InterfaceOverrides(World, AllDecls)
                                                         \cup EmbeddedOverrides(World, AllDecls)
<1>1. ASSUME NEW new, IsFiniteSet(new), relationships' = AddRels(relationships, new),
             UNCHANGED <<packages, units, functions>>
      PROVE  Listed' /\ Added' = Added \cup new
    BY <1>1, RelationshipsAdded DEF Listed, Added
<1>2. ASSUME CollectInheritance PROVE Listed' /\ Added' = Added \cup Embeds
    BY <1>1, <1>2, FoundIsFinite DEF CollectInheritance, AddAll
<1>3. ASSUME CollectImplements
      PROVE  Listed' /\ Added' = Added \cup Satisfies(World, AllDecls, unitBy)
    BY <1>1, <1>3, FoundIsFinite DEF CollectImplements
<1>4. ASSUME CollectOverrides
      PROVE  Listed' /\ Added' = Added \cup InterfaceOverrides(World, AllDecls)
                                       \cup EmbeddedOverrides(World, AllDecls)
    BY <1>1, <1>4, FoundIsFinite DEF CollectOverrides
<1>5. QED
    BY <1>2, <1>3, <1>4

---------------------------------------------------------------------------
(* Types.                                                                  *)

Shape == program \in Programs /\ allow \subseteq Files(program) /\ Listed /\ TypeOK

\* Where the pipeline is, after each action.
LEMMA Places ==
    ASSUME Shape, Next
    PROVE  /\ UNCHANGED input /\ AllDecls' = AllDecls
           /\ phase' \in {"nodes", "calls", "implements", "overrides", "done"}
           /\ pk' \in 1..(Len(program) + 1) /\ at' \in Nat
<1>1. /\ Len(program) \in Nat /\ pk \in 1..(Len(program) + 1) /\ at \in Nat
      /\ phase \in {"nodes", "calls", "implements", "overrides", "done"}
    BY Program DEF Shape, TypeOK
<1>2. UNCHANGED input
    BY DEF Next, StartPackage, SkipDecl, EmitUnit, EmitFunction, EndPackage, StartCalls, EnterPackage,
           CollectCalls, LeavePackage, CollectInheritance, AddAll, CollectImplements, CollectOverrides,
           Finished, vars, input
<1>3. AllDecls' = AllDecls
    BY <1>2 DEF input, AllDecls
<1>4. \/ UNCHANGED place
      \/ NextDecl
      \/ NextPackage /\ pk <= Len(program)
      \/ phase' \in {"calls", "implements"} /\ pk' = 1 /\ at' = 0
      \/ phase' \in {"overrides", "done"} /\ UNCHANGED <<pk, at>>
    <2>1. CASE StartPackage
        BY <2>1 DEF StartPackage, InPhase
    <2>2. CASE SkipDecl \/ EmitUnit \/ EmitFunction \/ EnterPackage \/ CollectCalls
        BY <2>2 DEF SkipDecl, EmitUnit, EmitFunction, EnterPackage, CollectCalls
    <2>3. CASE EndPackage \/ LeavePackage
        BY <2>3 DEF EndPackage, LeavePackage, InPhase
    <2>4. CASE StartCalls
        BY <2>4 DEF StartCalls, Then
    <2>5. CASE CollectInheritance
        BY <2>5 DEF CollectInheritance, AddAll, Then
    <2>6. CASE CollectImplements \/ CollectOverrides
        BY <2>6 DEF CollectImplements, CollectOverrides
    <2>7. CASE Finished
        BY <2>7 DEF Finished, vars, place
    <2>8. QED
        BY <2>1, <2>2, <2>3, <2>4, <2>5, <2>6, <2>7 DEF Next
<1>5. /\ phase' \in {"nodes", "calls", "implements", "overrides", "done"}
      /\ pk' \in 1..(Len(program) + 1) /\ at' \in Nat
    BY <1>1, <1>4 DEF place, NextDecl, NextPackage
<1>6. QED
    BY <1>2, <1>3, <1>5

\* The declaration at hand is one of the program's.
LEMMA AtHand ==
    ASSUME Shape, pk <= Len(program)
    PROVE  /\ pk \in DOMAIN program
           /\ AtDecl => /\ at \in DOMAIN program[pk].decls /\ Decl = program[pk].decls[at]
                        /\ Decl \in AllDecls /\ Decl \in Decls(Package)
                        /\ Decl.pkg = Package.path
<1>1. pk \in DOMAIN program
    BY Program DEF Shape, TypeOK
<1>2. QED
    BY <1>1, Program DEF Shape, AtDecl, Decl, Package

LEMMA ShapeInit == Init => Shape
<1> SUFFICES ASSUME Init PROVE Shape
    OBVIOUS
<1>1. program \in Programs /\ allow \subseteq Files(program)
    BY DEF Init
<1>2. \A s : s = <<>> => IsSequence(s) /\ IsInjective(s) /\ Ids(s) = {}
    <2>1. <<>> \in Seq(ToSet(<<>>)) /\ DOMAIN <<>> = {} /\ ToSet(<<>>) = {}
        BY DEF ToSet
    <2>2. QED
        BY <2>1 DEF IsSequence, IsInjective, Ids
<1>3. Listed
    BY <1>2 DEF Init, Listed
<1>4. TypeOK
    BY <1>1, <1>2, Program DEF Init, TypeOK
<1>5. QED
    BY <1>1, <1>3, <1>4 DEF Shape

\* No list loses what it has, whatever is done.
LEMMA Grows ==
    ASSUME Shape, Next
    PROVE  /\ Listed' /\ unitBy' = Ids(units') /\ funcBy' \subseteq Ids(functions')
           /\ ToSet(packages) \subseteq ToSet(packages') /\ Ids(units) \subseteq Ids(units')
           /\ unitBy \subseteq unitBy' /\ funcBy \subseteq funcBy'
           /\ Ids(functions) \subseteq Ids(functions') /\ Added \subseteq Added'
<1>1. Listed /\ program \in Programs /\ unitBy = Ids(units) /\ funcBy \subseteq Ids(functions)
    BY DEF Shape, TypeOK
<1>2. CASE StartPackage
    BY <1>1, <1>2, StartPackageAdds DEF names, Added
<1>3. CASE SkipDecl \/ StartCalls \/ EnterPackage \/ LeavePackage
    BY <1>1, <1>3 DEF SkipDecl, StartCalls, EnterPackage, LeavePackage, delta, names, Listed, Added
<1>4. CASE EmitUnit
    BY <1>1, <1>4, EmitUnitAdds
<1>5. CASE EmitFunction
    BY <1>1, <1>5, EmitFunctionAdds
<1>6. CASE EndPackage
    <2>1. pk \in DOMAIN program
        BY <1>6, AtHand DEF EndPackage, InPhase
    <2>2. QED
        BY <1>1, <1>6, <2>1, EndPackageAdds
<1>7. CASE CollectCalls
    <2>1. pk \in DOMAIN program
        BY <1>7, AtHand DEF CollectCalls, InPhase
    <2>2. QED
        BY <1>1, <1>7, <2>1, CollectCallsAdds DEF names
<1>8. CASE CollectInheritance
    BY <1>1, <1>8, LastPhasesAdd DEF CollectInheritance, AddAll, names
<1>9. CASE CollectImplements
    BY <1>1, <1>9, LastPhasesAdd DEF CollectImplements, names
<1>10. CASE CollectOverrides
    BY <1>1, <1>10, LastPhasesAdd DEF CollectOverrides, names
<1>11. CASE Finished
    BY <1>1, <1>11 DEF Finished, vars, Listed, Added
<1>12. QED
    BY <1>2, <1>3, <1>4, <1>5, <1>6, <1>7, <1>8, <1>9, <1>10, <1>11 DEF Next

LEMMA ShapeStep == Shape /\ [Next]_vars => Shape'
<1> SUFFICES ASSUME Shape, [Next]_vars PROVE Shape'
    OBVIOUS
<1>1. CASE Next
    <2>1. program' = program /\ allow' = allow /\ AllDecls' = AllDecls
        BY <1>1, Places DEF input
    <2>2. current' \in {NoFunction} \cup {IdOf(d) : d \in {d \in AllDecls : d.kind = "func"}}
        <3>1. current \in {NoFunction} \cup {IdOf(d) : d \in {d \in AllDecls : d.kind = "func"}}
            BY DEF Shape, TypeOK
        <3>2. CASE CollectCalls
            <4>1. pk \in DOMAIN program /\ Decl \in AllDecls
                BY <3>2, AtHand DEF CollectCalls, InPhase
            <4>2. current' = IF Allowed(Decl) THEN Caller(Decl) ELSE current
                BY <3>2 DEF CollectCalls
            <4>3. QED
                BY <3>1, <4>1, <4>2 DEF Caller
        <3>3. CASE ~CollectCalls
            <4>1. current' = current
                BY <1>1, <3>3
                DEF Next, StartPackage, SkipDecl, EmitUnit, EmitFunction, EndPackage, StartCalls,
                    EnterPackage, LeavePackage, CollectInheritance, AddAll, CollectImplements,
                    CollectOverrides, Finished, vars
            <4>2. QED
                BY <3>1, <4>1
        <3>4. QED
            BY <3>2, <3>3
    <2>3. TypeOK'
        BY <1>1, <2>1, <2>2, Places, Grows DEF TypeOK, Listed
    <2>4. QED
        BY <1>1, <2>1, <2>3, Grows DEF Shape
<1>2. CASE UNCHANGED vars
    BY <1>2 DEF vars, Shape, Listed, TypeOK, AllDecls
<1>3. QED
    BY <1>1, <1>2

---------------------------------------------------------------------------
(* What the delta has of the declarations gone through.                    *)

Passed(n, i) == phase # "nodes" \/ n < pk \/ (n = pk /\ i < at)
Left(n)      == phase # "nodes" \/ n < pk

HasPackage(n) == PackageID(program[n].path) \in ToSet(packages)
HasNode(d)    == /\ IsType(d) => IdOf(d) \in unitBy
                 /\ d.kind = "func" => IdOf(d) \in funcBy
HasMethods(d) == InScope(d) /\ d.kind = "interface" =>
                     \A m \in d.methods : FunctionID(d.pkg, d.name, m) \in funcBy

EmittedSoFar ==
    \A n \in DOMAIN program : \A i \in DOMAIN program[n].decls :
        Allowed(program[n].decls[i]) =>
            /\ Passed(n, 0) => HasPackage(n)
            /\ Passed(n, i) => HasNode(program[n].decls[i])
            /\ Left(n) => HasMethods(program[n].decls[i])

LEMMA EmittedInit == Shape /\ Init => EmittedSoFar
BY Program DEF Shape, Init, EmittedSoFar, Passed, Left

LEMMA EmittedStep ==
    ASSUME Shape, EmittedSoFar, [Next]_vars
    PROVE  EmittedSoFar'
<1>1. CASE UNCHANGED vars
    BY <1>1 DEF vars, EmittedSoFar, Allowed, Passed, Left, HasPackage, HasNode, HasMethods
<1>2. CASE Next
    <2>1. program' = program /\ allow' = allow
        BY <1>2, Places DEF input
    <2>2. ASSUME NEW n \in DOMAIN program, NEW i \in DOMAIN program[n].decls,
                 NEW d, d = program[n].decls[i], Allowed(d)
          PROVE  /\ Passed(n, 0)' => HasPackage(n)'
                 /\ Passed(n, i)' => HasNode(d)'
                 /\ Left(n)' => HasMethods(d)'
        <3>1. /\ HasPackage(n) => HasPackage(n)'
              /\ HasNode(d) => HasNode(d)'
              /\ HasMethods(d) => HasMethods(d)'
            BY <1>2, <2>1, Grows DEF HasPackage, HasNode, HasMethods
        <3>2. /\ Passed(n, 0) => HasPackage(n)
              /\ Passed(n, i) => HasNode(d)
              /\ Left(n) => HasMethods(d)
            BY <2>2 DEF EmittedSoFar
        <3>3. /\ Len(program) \in Nat /\ n \in Nat /\ n <= Len(program) /\ n > 0
              /\ i \in Nat /\ i > 0 /\ i <= Len(program[n].decls) /\ Len(program[n].decls) \in Nat
              /\ pk \in Nat /\ at \in Nat /\ d \in Decls(program[n]) /\ d.pkg = program[n].path
            BY <2>2, Program DEF Shape, TypeOK
        <3>4. CASE StartPackage
            <4>1. phase = "nodes" /\ pk <= Len(program) /\ at = 0 /\ phase' = phase
                BY <3>4 DEF StartPackage, InPhase, NextDecl, NextPackage
            <4>2. CASE \E e \in Decls(Package) : Allowed(e)
                <5>1. at' = 1 /\ pk' = pk
                    BY <3>4, <4>1, <4>2 DEF StartPackage, NextDecl
                <5>2. PackageID(Package.path) \in ToSet(packages')
                    BY <3>4, <4>2, StartPackageAdds DEF Shape
                <5>3. n = pk => HasPackage(n)'
                    BY <2>1, <5>2 DEF HasPackage, Package
                <5>4. QED
                    BY <3>1, <3>2, <3>3, <4>1, <5>1, <5>3 DEF Passed, Left
            <4>3. CASE ~\E e \in Decls(Package) : Allowed(e)
                <5>1. at' = 0 /\ pk' = pk + 1
                    BY <3>4, <4>3 DEF StartPackage, NextPackage
                <5>2. n # pk
                    BY <2>2, <3>3, <4>3 DEF Package
                <5>3. QED
                    BY <3>1, <3>2, <3>3, <4>1, <5>1, <5>2 DEF Passed, Left
            <4>4. QED
                BY <4>2, <4>3
        <3>5. CASE SkipDecl \/ EmitUnit \/ EmitFunction
            <4>1. phase = "nodes" /\ pk <= Len(program) /\ AtDecl /\ phase' = phase /\ pk' = pk /\ at' = at + 1
                BY <3>5 DEF SkipDecl, EmitUnit, EmitFunction, InPhase, NextDecl
            <4>2. at \in DOMAIN program[pk].decls /\ at > 0 /\ Decl = program[pk].decls[at]
                BY <4>1, AtHand, Program DEF Shape
            <4>3. ASSUME n = pk, i = at PROVE HasNode(d)'
                <5>1. d = Decl /\ Allowed(Decl)
                    BY <2>2, <4>2, <4>3
                <5>2. CASE SkipDecl
                    BY <5>1, <5>2 DEF SkipDecl, HasNode, IsType
                <5>3. CASE EmitUnit
                    <6>1. IsType(Decl) /\ IdOf(Decl) \in unitBy'
                        BY <5>3, EmitUnitAdds DEF Shape, EmitUnit
                    <6>2. QED
                        BY <5>1, <6>1 DEF HasNode, IsType
                <5>4. CASE EmitFunction
                    <6>1. Decl.kind = "func" /\ IdOf(Decl) \in funcBy'
                        BY <5>4, EmitFunctionAdds DEF Shape, EmitFunction
                    <6>2. QED
                        BY <5>1, <6>1 DEF HasNode, IsType
                <5>5. QED
                    BY <3>5, <5>2, <5>3, <5>4
            <4>4. QED
                BY <3>1, <3>2, <3>3, <4>1, <4>2, <4>3 DEF Passed, Left
        <3>6. CASE EndPackage
            <4>1. /\ phase = "nodes" /\ pk <= Len(program) /\ at > Len(Package.decls)
                  /\ phase' = phase /\ pk' = pk + 1 /\ at' = 0 /\ pk \in DOMAIN program
                BY <3>6, AtHand DEF EndPackage, InPhase, NextPackage
            <4>2. ASSUME n = pk PROVE Passed(n, 0) /\ Passed(n, i)
                BY <3>3, <4>1, <4>2 DEF Passed, Package
            <4>3. ASSUME n = pk PROVE HasMethods(d)'
                <5>1. ASSUME InScope(d), d.kind = "interface", NEW m \in d.methods
                      PROVE  FunctionID(d.pkg, d.name, m) \in funcBy'
                    <6>1. IdOf(d) \in unitBy
                        BY <3>2, <4>2, <4>3, <5>1 DEF HasNode, InScope
                    <6>2. <<IdOf(d), FunctionID(d.pkg, d.name, m)>> \in InterfaceMethods
                        BY <3>3, <4>3, <5>1, <6>1 DEF InterfaceMethods, Emitted, Package
                    <6>3. FunctionID(d.pkg, d.name, m) \in funcBy \cup NewMethodIds
                        BY <6>2 DEF NewMethodIds, NewMethods
                    <6>4. QED
                        BY <3>6, <4>1, <6>3, EndPackageAdds DEF Shape
                <5>2. QED
                    BY <5>1 DEF HasMethods
            <4>4. QED
                BY <3>1, <3>2, <3>3, <4>1, <4>2, <4>3 DEF Passed, Left
        <3>7. CASE StartCalls
            <4>1. n < pk /\ phase = "nodes"
                BY <3>3, <3>7 DEF StartCalls, NodesDone
            <4>2. QED
                BY <3>1, <3>2, <4>1 DEF Passed, Left
        <3>8. CASE EnterPackage \/ CollectCalls \/ LeavePackage \/ CollectInheritance \/ CollectImplements
                   \/ CollectOverrides \/ Finished
            <4>1. phase # "nodes"
                BY <3>8 DEF EnterPackage, CollectCalls, LeavePackage, InPhase, CollectInheritance,
                            CollectImplements, CollectOverrides, Finished
            <4>2. QED
                BY <3>1, <3>2, <4>1 DEF Passed, Left
        <3>9. QED
            BY <1>2, <3>4, <3>5, <3>6, <3>7, <3>8 DEF Next
    <2>3. QED
        BY <2>1, <2>2 DEF EmittedSoFar, Allowed
<1>3. QED
    BY <1>1, <1>2

---------------------------------------------------------------------------
(* Calls.                                                                  *)

\* Only collectCalls adds calls, and only collectOverrides methods that satisfy others.
Overrides == InterfaceOverrides(World, AllDecls) \cup EmbeddedOverrides(World, AllDecls)

LEMMA NewRelationships ==
    ASSUME Shape, Next, NEW r \in Added', r \notin Added
    PROVE  /\ r.type = "CALLS" => CollectCalls /\ r \in NewCalls
           /\ r.type = "GO_METHOD_SATISFIES" => CollectOverrides /\ r \in Overrides
<1>1. Listed /\ program \in Programs
    BY DEF Shape
<1>2. CASE StartPackage
    BY <1>1, <1>2, StartPackageAdds DEF Added
<1>3. CASE SkipDecl \/ StartCalls \/ EnterPackage \/ LeavePackage \/ Finished
    BY <1>3 DEF SkipDecl, StartCalls, EnterPackage, LeavePackage, Finished, vars, delta, Added
<1>4. CASE EmitUnit
    <2>1. r = Rel(PackageID(Decl.pkg), "PACKAGE_TO_UNIT", IdOf(Decl))
        BY <1>1, <1>4, EmitUnitAdds
    <2>2. QED
        BY <2>1 DEF Rel
<1>5. CASE EmitFunction
    <2>1. r \in OwnerLinks
        BY <1>1, <1>5, EmitFunctionAdds
    <2>2. QED
        BY <2>1 DEF OwnerLinks, Rel
<1>6. CASE EndPackage
    <2>1. pk \in DOMAIN program
        BY <1>6, AtHand DEF EndPackage, InPhase
    <2>2. r \in {Rel(m[1], "UNIT_TO_FUNCTION", m[2]) : m \in NewMethods}
        BY <1>1, <1>6, <2>1, EndPackageAdds
    <2>3. QED
        BY <2>2 DEF Rel
<1>7. CASE CollectCalls
    <2>1. pk \in DOMAIN program
        BY <1>7, AtHand DEF CollectCalls, InPhase
    <2>2. r \in NewCalls
        BY <1>1, <1>7, <2>1, CollectCallsAdds
    <2>3. r.type = "CALLS"
        BY <2>2 DEF NewCalls, Rel
    <2>4. QED
        BY <1>7, <2>2, <2>3
<1>8. CASE CollectInheritance
    <2>1. r \in Embeds
        BY <1>1, <1>8, LastPhasesAdd
    <2>2. QED
        BY <2>1 DEF Embeds, Rel
<1>9. CASE CollectImplements
    <2>1. r \in Satisfies(World, AllDecls, unitBy)
        BY <1>1, <1>9, LastPhasesAdd
    <2>2. QED
        BY <2>1 DEF Satisfies, Rel
<1>10. CASE CollectOverrides
    <2>1. r \in Overrides
        BY <1>1, <1>10, LastPhasesAdd DEF Overrides
    <2>2. r.type = "GO_METHOD_SATISFIES"
        BY <2>1 DEF Overrides, InterfaceOverrides, EmbeddedOverrides, Rel
    <2>3. QED
        BY <1>10, <2>1, <2>2
<1>11. QED
    BY <1>2, <1>3, <1>4, <1>5, <1>6, <1>7, <1>8, <1>9, <1>10 DEF Next

\* The last function before the next declaration of a file.
LEMMA NextInFile ==
    ASSUME NEW p, NEW i \in Nat, i > 0, p.decls[i + 1].file = p.decls[i].file
    PROVE  IF p.decls[i].kind = "func" THEN IdOf(p.decls[i]) \in LastBefore(p, i + 1)
           ELSE LastBefore(p, i) \subseteq LastBefore(p, i + 1)
<1> DEFINE B(n) == {j \in 1..(n - 1) : p.decls[j].kind = "func" /\ p.decls[j].file = p.decls[n].file}
           L(n) == {j \in B(n) : \A k \in B(n) : k <= j}
<1>1. \A n : LastBefore(p, n) = {IdOf(p.decls[j]) : j \in L(n)}
    BY DEF LastBefore
<1>2. 1..((i + 1) - 1) = 1..(i - 1) \cup {i}
    OBVIOUS
<1>3. CASE p.decls[i].kind = "func"
    <2>1. i \in L(i + 1)
        BY <1>2, <1>3
    <2>2. QED
        BY <1>1, <1>3, <2>1
<1>4. CASE p.decls[i].kind # "func"
    <2>1. B(i + 1) = B(i)
        BY <1>2, <1>4
    <2>2. L(i + 1) = L(i)
        BY <2>1
    <2>3. QED
        BY <1>1, <1>4, <2>2
<1>5. QED
    BY <1>3, <1>4

\* collectCalls does not know a function of another file, nor one further up.
Attribution ==
    phase = "calls" /\ pk <= Len(program) =>
        \A i \in DOMAIN program[pk].decls :
            /\ i = at /\ i > 1 /\ Allowed(program[pk].decls[i])
            /\ program[pk].decls[i - 1].file = program[pk].decls[i].file
            /\ current # NoFunction
            => current \in LastBefore(program[pk], i)

LEMMA AttributionStep ==
    ASSUME Shape, Attribution, [Next]_vars
    PROVE  Attribution'
<1>1. CASE UNCHANGED vars
    BY <1>1 DEF vars, Attribution, Allowed
<1>2. CASE CollectCalls
    <2>1. /\ phase = "calls" /\ pk \in DOMAIN program /\ AtDecl /\ pk' = pk /\ at' = at + 1
          /\ program' = program /\ allow' = allow
        BY <1>2, AtHand DEF CollectCalls, InPhase, NextDecl, input
    <2>2. /\ at \in DOMAIN program[pk].decls /\ Decl = program[pk].decls[at] /\ at \in Nat /\ at > 0
          /\ pk <= Len(program)
        BY <2>1, <1>2, AtHand, Program DEF Shape, CollectCalls, InPhase
    <2> DEFINE p == program[pk]
    <2>3. SUFFICES ASSUME NEW i \in DOMAIN p.decls, i = at + 1, p.decls[i].file \in allow,
                          p.decls[i - 1].file = p.decls[i].file, current' # NoFunction
                   PROVE  current' \in LastBefore(p, i)
        BY <2>1 DEF Attribution, Allowed
    <2>4. i - 1 = at /\ Allowed(Decl) /\ p.decls[at + 1].file = p.decls[at].file
        BY <2>2, <2>3 DEF Allowed
    <2>5. current' = Caller(Decl)
        BY <1>2, <2>4 DEF CollectCalls
    <2>6. CASE Decl.kind = "func"
        <3>1. current' = IdOf(p.decls[at])
            BY <2>2, <2>5, <2>6 DEF Caller
        <3>2. QED
            BY <2>2, <2>3, <2>4, <2>6, <3>1, NextInFile
    <2>7. CASE Decl.kind # "func"
        <3>1. ~StartsFile /\ current' = current
            BY <2>3, <2>5, <2>7 DEF Caller
        <3>2. at > 1 /\ p.decls[at - 1].file = p.decls[at].file
            BY <2>2, <3>1 DEF StartsFile, Package
        <3>3. current \in LastBefore(p, at)
            BY <2>1, <2>2, <2>3, <2>4, <3>1, <3>2 DEF Attribution
        <3>4. QED
            BY <2>2, <2>3, <2>4, <2>7, <3>1, <3>3, NextInFile
    <2>8. QED
        BY <2>6, <2>7
<1>3. CASE StartPackage \/ SkipDecl \/ EmitUnit \/ EmitFunction \/ EndPackage
    <2>1. phase' = "nodes"
        BY <1>3 DEF StartPackage, SkipDecl, EmitUnit, EmitFunction, EndPackage, InPhase, NextDecl, NextPackage
    <2>2. QED
        BY <2>1 DEF Attribution
<1>4. CASE StartCalls \/ EnterPackage \/ LeavePackage
    <2>1. at' = 0 \/ at' = 1
        BY <1>4 DEF StartCalls, EnterPackage, LeavePackage, Then, NextDecl, NextPackage
    <2>2. ~(at' > 1)
        BY <2>1
    <2>3. QED
        BY <2>2 DEF Attribution
<1>5. CASE CollectInheritance \/ CollectImplements \/ CollectOverrides \/ Finished
    <2>1. phase' # "calls"
        BY <1>5 DEF CollectInheritance, AddAll, Then, CollectImplements, CollectOverrides, Finished, vars
    <2>2. QED
        BY <2>1 DEF Attribution
<1>6. QED
    BY <1>1, <1>2, <1>3, <1>4, <1>5 DEF Next

LEMMA CallsAttributedStep ==
    ASSUME Shape, Attribution, CallsAttributed, [Next]_vars
    PROVE  CallsAttributed'
<1>1. CASE UNCHANGED vars
    BY <1>1 DEF vars, CallsAttributed, Added
<1>2. CASE Next
    <2>1. program' = program
        BY <1>2, Places DEF input
    <2>2. ASSUME NEW r \in Added', r.type = "CALLS"
          PROVE  \E n \in DOMAIN program : \E i \in DOMAIN program[n].decls :
                    /\ ~IsType(program[n].decls[i]) /\ r.to \in ToSet(program[n].decls[i].calls)
                    /\ r.from \in IF program[n].decls[i].kind = "func" THEN {IdOf(program[n].decls[i])}
                                  ELSE LastBefore(program[n], i)
        <3>1. CASE r \in Added
            BY <2>2, <3>1 DEF CallsAttributed
        <3>2. CASE r \notin Added
            <4>1. CollectCalls /\ r \in NewCalls
                BY <1>2, <2>2, <3>2, NewRelationships
            <4>2. /\ phase = "calls" /\ pk <= Len(program) /\ pk \in DOMAIN program
                  /\ at \in DOMAIN program[pk].decls /\ Decl = program[pk].decls[at]
                BY <4>1, AtHand DEF CollectCalls, InPhase
            <4>3. /\ Allowed(Decl) /\ ~IsType(Decl) /\ Caller(Decl) # NoFunction
                  /\ r.from = Caller(Decl) /\ r.to \in ToSet(Decl.calls)
                BY <4>1 DEF NewCalls, Callees, Rel
            <4>4. CASE Decl.kind = "func"
                BY <4>2, <4>3, <4>4 DEF Caller
            <4>5. CASE Decl.kind # "func"
                <5>1. ~StartsFile /\ r.from = current /\ current # NoFunction
                    BY <4>3, <4>5 DEF Caller
                <5>2. at > 1 /\ program[pk].decls[at - 1].file = program[pk].decls[at].file
                    BY <4>2, <5>1, Program DEF Shape, StartsFile, Package
                <5>3. current \in LastBefore(program[pk], at)
                    BY <4>2, <4>3, <5>1, <5>2 DEF Attribution
                <5>4. QED
                    BY <4>2, <4>3, <4>5, <5>1, <5>3
            <4>6. QED
                BY <4>4, <4>5
        <3>3. QED
            BY <3>1, <3>2
    <2>3. QED
        BY <2>1, <2>2 DEF CallsAttributed
<1>3. QED
    BY <1>1, <1>2

---------------------------------------------------------------------------
(* Functions and their nodes.                                              *)

NodesIn(s, id) == {i \in DOMAIN s : s[i].id = id}

LEMMA NodesInAppended ==
    ASSUME NEW s, IsSequence(s), NEW n, NEW id
    PROVE  /\ IsFiniteSet(NodesIn(s, id)) /\ NodesIn(s, id) \subseteq 1..Len(s)
           /\ id \notin Ids(s) => NodesIn(s, id) = {} /\ Cardinality(NodesIn(s, id)) = 0
           /\ NodesIn(Append(s, n), id) = NodesIn(s, id) \cup (IF n.id = id THEN {Len(s) + 1} ELSE {})
           /\ Cardinality(NodesIn(Append(s, n), id))
                  = IF n.id = id THEN Cardinality(NodesIn(s, id)) + 1 ELSE Cardinality(NodesIn(s, id))
<1>1. /\ Len(s) \in Nat /\ DOMAIN s = 1..Len(s)
      /\ DOMAIN Append(s, n) = 1..(Len(s) + 1) /\ Append(s, n)[Len(s) + 1] = n
      /\ \A i \in 1..Len(s) : Append(s, n)[i] = s[i]
    <2>1. /\ IsSequence(Append(s, n)) /\ Len(Append(s, n)) = Len(s) + 1
          /\ Append(s, n)[Len(s) + 1] = n /\ \A i \in 1..Len(s) : Append(s, n)[i] = s[i]
        BY Appended
    <2>2. QED
        BY <2>1, Sequence
<1>2. NodesIn(s, id) \subseteq 1..Len(s) /\ IsFiniteSet(1..Len(s))
    BY <1>1, FS_Interval DEF NodesIn
<1>3. IsFiniteSet(NodesIn(s, id)) /\ Len(s) + 1 \notin NodesIn(s, id)
    BY <1>1, <1>2, FS_Subset
<1>4. id \notin Ids(s) => NodesIn(s, id) = {} /\ Cardinality(NodesIn(s, id)) = 0
    BY <1>1, Sequence, FS_EmptySet DEF NodesIn, Ids
<1>5. NodesIn(Append(s, n), id) = NodesIn(s, id) \cup (IF n.id = id THEN {Len(s) + 1} ELSE {})
    <2>1. 1..(Len(s) + 1) = 1..Len(s) \cup {Len(s) + 1}
        BY <1>1
    <2>2. QED
        BY <1>1, <2>1 DEF NodesIn
<1>6. Cardinality(NodesIn(Append(s, n), id))
          = IF n.id = id THEN Cardinality(NodesIn(s, id)) + 1 ELSE Cardinality(NodesIn(s, id))
    <2>1. CASE n.id = id
        <3>1. NodesIn(Append(s, n), id) = NodesIn(s, id) \cup {Len(s) + 1}
            BY <1>5, <2>1
        <3>2. Cardinality(NodesIn(s, id) \cup {Len(s) + 1}) = Cardinality(NodesIn(s, id)) + 1
            BY <1>3, FS_AddElement
        <3>3. QED
            BY <2>1, <3>1, <3>2
    <2>2. CASE n.id # id
        BY <1>5, <2>2
    <2>3. QED
        BY <2>1, <2>2
<1>7. QED
    BY <1>2, <1>3, <1>4, <1>5, <1>6

\* New nodes, each of another new id.
LEMMA NodesInJoined ==
    ASSUME NEW s, NEW t, IsSequence(s), IsSequence(t),
           \A id \in Ids(t) : id \notin Ids(s),
           \A i, j \in 1..Len(t) : t[i].id = t[j].id => i = j
    PROVE  /\ \A id \in Ids(s) : NodesIn(s \o t, id) = NodesIn(s, id)
           /\ \A id \in Ids(t) : Cardinality(NodesIn(s \o t, id)) = 1
           /\ \A i \in 1..Len(s) : (s \o t)[i] = s[i]
           /\ \A i \in DOMAIN (s \o t) : (s \o t)[i].id \in Ids(t) => (s \o t)[i] \in ToSet(t)
<1>1. \A i \in 1..Len(t) : t[i].id \in Ids(t) /\ t[i] \in ToSet(t)
    BY Sequence DEF Ids
<1>2. /\ IsSequence(s \o t) /\ DOMAIN (s \o t) = 1..(Len(s) + Len(t)) /\ Len(s) \in Nat /\ Len(t) \in Nat
      /\ DOMAIN s = 1..Len(s) /\ DOMAIN t = 1..Len(t)
      /\ \A i \in 1..Len(s) : (s \o t)[i] = s[i]
      /\ \A i \in 1..Len(t) : (s \o t)[Len(s) + i] = t[i]
      /\ \A k \in 1..(Len(s) + Len(t)) : k \notin 1..Len(s) => k - Len(s) \in 1..Len(t)
    <2>1. IsSequence(s \o t) /\ Len(s \o t) = Len(s) + Len(t)
        BY <1>1, Joined
    <2>2. Len(s) \in Nat /\ Len(t) \in Nat /\ DOMAIN s = 1..Len(s) /\ DOMAIN t = 1..Len(t)
          /\ DOMAIN (s \o t) = 1..(Len(s) + Len(t))
        BY <1>1, <2>1, Sequence
    <2>3. QED
        BY <1>1, <2>1, <2>2, Joined
<1>3. ASSUME NEW k \in 1..(Len(s) + Len(t)), k \notin 1..Len(s)
      PROVE  /\ (s \o t)[k] = t[k - Len(s)] /\ k - Len(s) \in 1..Len(t)
             /\ (s \o t)[k].id \in Ids(t) /\ (s \o t)[k] \in ToSet(t)
    <2>1. k - Len(s) \in 1..Len(t) /\ Len(s) + (k - Len(s)) = k
        BY <1>2, <1>3
    <2>2. QED
        BY <1>1, <1>2, <2>1
<1>4. ASSUME NEW i \in 1..Len(s) PROVE (s \o t)[i] = s[i] /\ s[i].id \in Ids(s) /\ s[i].id \notin Ids(t)
    BY <1>2, <1>4, Sequence DEF Ids
<1>5. ASSUME NEW id \in Ids(s) PROVE NodesIn(s \o t, id) = NodesIn(s, id)
    <2>1. ASSUME NEW k \in NodesIn(s \o t, id) PROVE k \in NodesIn(s, id)
        BY <1>2, <1>3, <1>4, <1>5 DEF NodesIn
    <2>2. ASSUME NEW k \in NodesIn(s, id) PROVE k \in NodesIn(s \o t, id)
        BY <1>2, <1>4 DEF NodesIn
    <2>3. QED
        BY <2>1, <2>2
<1>6. ASSUME NEW id \in Ids(t) PROVE Cardinality(NodesIn(s \o t, id)) = 1
    <2>1. PICK i \in 1..Len(t) : t[i].id = id
        <3>1. PICK n \in ToSet(t) : n.id = id
            BY DEF Ids
        <3>2. \E i \in 1..Len(t) : t[i] = n
            BY Sequence
        <3>3. QED
            BY <3>1, <3>2
    <2>2. Len(s) + i \in NodesIn(s \o t, id)
        BY <1>2, <2>1 DEF NodesIn
    <2>3. ASSUME NEW k \in NodesIn(s \o t, id) PROVE k = Len(s) + i
        <3>1. k \in 1..(Len(s) + Len(t)) /\ (s \o t)[k].id = id
            BY <1>2 DEF NodesIn
        <3>2. k \notin 1..Len(s)
            BY <1>4, <1>6, <3>1
        <3>3. k - Len(s) \in 1..Len(t) /\ t[k - Len(s)].id = id
            BY <1>3, <3>1, <3>2
        <3>4. k - Len(s) = i
            BY <1>1, <2>1, <3>3
        <3>5. QED
            BY <1>2, <3>1, <3>4
    <2>4. NodesIn(s \o t, id) = {Len(s) + i}
        BY <2>2, <2>3
    <2>5. QED
        BY <2>4, FS_Singleton
<1>7. ASSUME NEW i \in DOMAIN (s \o t), (s \o t)[i].id \in Ids(t) PROVE (s \o t)[i] \in ToSet(t)
    BY <1>2, <1>3, <1>4, <1>7
<1>8. QED
    BY <1>4, <1>5, <1>6, <1>7

\* The declarations of a function that are nodes already.
Declaring(id)   == {d \in AllDecls : d.kind = "func" /\ IdOf(d) = id /\ Allowed(d)}
PassedDecls(id) ==
    {d \in Declaring(id) : \E n \in DOMAIN program : \E i \in DOMAIN program[n].decls :
                               d = program[n].decls[i] /\ Passed(n, i)}

\* Only emitFunction goes past a function of the request.
LEMMA PassedStep ==
    ASSUME Shape, Next, NEW n \in DOMAIN program, NEW i \in DOMAIN program[n].decls,
           NEW d, d = program[n].decls[i], Allowed(d), d.kind = "func"
    PROVE  Passed(n, i)' <=> Passed(n, i) \/ (EmitFunction /\ n = pk /\ i = at)
<1>1. /\ Len(program) \in Nat /\ n \in Nat /\ n <= Len(program)
      /\ i \in Nat /\ i > 0 /\ i <= Len(program[n].decls) /\ Len(program[n].decls) \in Nat
      /\ pk \in Nat /\ at \in Nat /\ d \in Decls(program[n])
    BY Program DEF Shape, TypeOK
<1>2. CASE StartPackage
    <2>1. phase = "nodes" /\ pk <= Len(program) /\ at = 0 /\ phase' = phase
        BY <1>2 DEF StartPackage, InPhase, NextDecl, NextPackage
    <2>2. \/ at' = 1 /\ pk' = pk
          \/ at' = 0 /\ pk' = pk + 1 /\ n # pk
        BY <1>1, <1>2, <2>1 DEF StartPackage, NextDecl, NextPackage, Package
    <2>3. ~EmitFunction
        BY <2>1, AtHand, Program DEF EmitFunction, Shape
    <2>4. QED
        BY <1>1, <2>1, <2>2, <2>3 DEF Passed
<1>3. CASE SkipDecl \/ EmitUnit \/ EmitFunction
    <2>1. phase = "nodes" /\ pk <= Len(program) /\ AtDecl /\ phase' = phase /\ pk' = pk /\ at' = at + 1
        BY <1>3 DEF SkipDecl, EmitUnit, EmitFunction, InPhase, NextDecl
    <2>2. at \in DOMAIN program[pk].decls /\ Decl = program[pk].decls[at]
        BY <2>1, AtHand
    <2>3. n = pk /\ i = at => EmitFunction
        BY <1>3, <2>2 DEF SkipDecl, EmitUnit, IsType
    <2>4. QED
        BY <1>1, <2>1, <2>3 DEF Passed
<1>4. CASE EndPackage
    <2>1. /\ phase = "nodes" /\ pk <= Len(program) /\ at > Len(Package.decls)
          /\ phase' = phase /\ pk' = pk + 1 /\ at' = 0
        BY <1>4 DEF EndPackage, InPhase, NextPackage
    <2>2. n = pk => i < at
        BY <1>1, <2>1 DEF Package
    <2>3. QED
        BY <1>1, <2>1, <2>2 DEF Passed
<1>5. CASE StartCalls
    <2>1. n < pk
        BY <1>1, <1>5 DEF StartCalls, NodesDone
    <2>2. phase' # "nodes"
        BY <1>5 DEF StartCalls, Then
    <2>3. QED
        BY <2>1, <2>2 DEF Passed
<1>6. CASE EnterPackage \/ CollectCalls \/ LeavePackage \/ CollectInheritance \/ CollectImplements
           \/ CollectOverrides \/ Finished
    <2>1. phase # "nodes" /\ phase' # "nodes"
        BY <1>6 DEF EnterPackage, CollectCalls, LeavePackage, InPhase, NextDecl, NextPackage,
                    CollectInheritance, AddAll, Then, CollectImplements, CollectOverrides, Finished, vars
    <2>2. QED
        BY <2>1 DEF Passed
<1>7. QED
    BY <1>2, <1>3, <1>4, <1>5, <1>6 DEF Next

LEMMA PassedDeclsStep ==
    ASSUME Shape, Next, NEW id
    PROVE  /\ Declaring(id)' = Declaring(id)
           /\ PassedDecls(id)' = PassedDecls(id) \cup
                 (IF EmitFunction /\ IdOf(Decl) = id THEN {Decl} ELSE {})
           /\ EmitFunction => Decl \notin PassedDecls(id)
           /\ IsFiniteSet(PassedDecls(id)) /\ IsFiniteSet(Declaring(id))
<1>1. program' = program /\ allow' = allow /\ AllDecls' = AllDecls
    BY Places DEF input
<1>2. Declaring(id)' = Declaring(id)
    BY <1>1 DEF Declaring, Allowed
<1>3. EmitFunction => /\ phase = "nodes" /\ pk \in DOMAIN program /\ at \in DOMAIN program[pk].decls
                      /\ Decl = program[pk].decls[at] /\ Decl \in AllDecls
                      /\ Decl.kind = "func" /\ Allowed(Decl)
    BY AtHand DEF EmitFunction, InPhase
<1>4. ASSUME NEW d \in PassedDecls(id)'
      PROVE  d \in PassedDecls(id) \/ (EmitFunction /\ IdOf(Decl) = id /\ d = Decl)
    <2>1. d \in Declaring(id)
        BY <1>2 DEF PassedDecls
    <2>2. PICK n \in DOMAIN program : \E i \in DOMAIN program[n].decls :
              d = program[n].decls[i] /\ Passed(n, i)'
        BY <1>1 DEF PassedDecls
    <2>3. PICK i \in DOMAIN program[n].decls : d = program[n].decls[i] /\ Passed(n, i)'
        BY <2>2
    <2>4. Passed(n, i) \/ (EmitFunction /\ n = pk /\ i = at)
        BY <2>1, <2>3, PassedStep DEF Declaring
    <2>5. QED
        BY <1>3, <2>1, <2>3, <2>4 DEF PassedDecls, Declaring
<1>5. ASSUME NEW d \in PassedDecls(id) PROVE d \in PassedDecls(id)'
    <2>1. d \in Declaring(id)
        BY DEF PassedDecls
    <2>2. PICK n \in DOMAIN program : \E i \in DOMAIN program[n].decls :
              d = program[n].decls[i] /\ Passed(n, i)
        BY DEF PassedDecls
    <2>3. PICK i \in DOMAIN program[n].decls : d = program[n].decls[i] /\ Passed(n, i)
        BY <2>2
    <2>4. Passed(n, i)'
        BY <2>1, <2>3, PassedStep DEF Declaring
    <2>5. QED
        BY <1>1, <1>2, <2>1, <2>3, <2>4 DEF PassedDecls
<1>6. ASSUME EmitFunction, IdOf(Decl) = id PROVE \E d \in PassedDecls(id)' : d = Decl
    <2>1. PICK n \in DOMAIN program : n = pk
        BY <1>3, <1>6
    <2>2. PICK i \in DOMAIN program[n].decls : i = at
        BY <1>3, <1>6, <2>1
    <2>3. PICK d \in AllDecls : d = Decl
        BY <1>3, <1>6
    <2>4. d = program[n].decls[i] /\ Allowed(d) /\ d.kind = "func"
        BY <1>3, <1>6, <2>1, <2>2, <2>3
    <2>5. Passed(n, i)'
        BY <1>6, <2>1, <2>2, <2>4, PassedStep
    <2>6. d \in Declaring(id)
        BY <1>6, <2>3, <2>4 DEF Declaring
    <2>7. d \in PassedDecls(id)'
        BY <1>1, <1>2, <2>4, <2>5, <2>6 DEF PassedDecls
    <2>8. QED
        BY <2>3, <2>7
<1>7. ASSUME EmitFunction PROVE Decl \notin PassedDecls(id)
    <2>1. SUFFICES ASSUME Decl \in PassedDecls(id) PROVE FALSE
        OBVIOUS
    <2>2. PICK n \in DOMAIN program : \E i \in DOMAIN program[n].decls :
              Decl = program[n].decls[i] /\ Passed(n, i)
        BY <2>1 DEF PassedDecls
    <2>3. PICK i \in DOMAIN program[n].decls : Decl = program[n].decls[i] /\ Passed(n, i)
        BY <2>2
    <2>4. n = pk /\ i = at
        BY <1>3, <1>7, <2>3, Program DEF Shape
    <2>5. pk \in Nat /\ at \in Nat
        BY DEF Shape, TypeOK
    <2>6. QED
        BY <1>3, <1>7, <2>3, <2>4, <2>5 DEF Passed
<1>8. IsFiniteSet(PassedDecls(id)) /\ IsFiniteSet(Declaring(id))
    <2>1. PassedDecls(id) \subseteq AllDecls /\ Declaring(id) \subseteq AllDecls
        BY DEF PassedDecls, Declaring
    <2>2. IsFiniteSet(AllDecls)
        BY Program DEF Shape
    <2>3. QED
        BY <2>1, <2>2, FS_Subset
<1>9. QED
    BY <1>2, <1>4, <1>5, <1>6, <1>7, <1>8

\* Nodes and declarations gone through, counted; a node of none is an interface
\* method of an earlier package or, in the later phases, a placeholder.
Counted ==
    \A id \in Ids(functions) :
        /\ Cardinality(NodesIn(functions, id))
               <= IF PassedDecls(id) = {} THEN 1 ELSE Cardinality(PassedDecls(id))
        /\ phase = "nodes" \/ PassedDecls(id) # {} =>
               \A i \in NodesIn(functions, id) : ~functions[i].placeholder
        /\ phase = "nodes" => id \in funcBy
        /\ phase = "nodes" /\ PassedDecls(id) = {} =>
               \E n \in DOMAIN program : n < pk /\ id[2] = program[n].path

LEMMA CountedByEmitFunction ==
    ASSUME Shape, Counted, Next, EmitFunction
    PROVE  Counted'
<1> DEFINE id0 == IdOf(Decl)
           n0  == [id |-> id0, placeholder |-> FALSE]
<1>1. /\ phase = "nodes" /\ phase' = phase /\ pk' = pk /\ pk \in DOMAIN program
      /\ Decl.kind = "func" /\ Decl.pkg = program[pk].path /\ program' = program
    BY AtHand DEF EmitFunction, InPhase, NextDecl, Package, input
<1>2. /\ functions' = Append(functions, n0) /\ Ids(functions') = Ids(functions) \cup {id0}
      /\ funcBy' = funcBy \cup {id0} /\ IsSequence(functions) /\ Len(functions) \in Nat
    BY EmitFunctionAdds, Sequence DEF Shape, Listed
<1>3. ASSUME NEW id
      PROVE  /\ PassedDecls(id)' = PassedDecls(id) \cup (IF id0 = id THEN {Decl} ELSE {})
             /\ Decl \notin PassedDecls(id) /\ IsFiniteSet(PassedDecls(id))
             /\ NodesIn(functions, id) \subseteq 1..Len(functions)
             /\ IsFiniteSet(NodesIn(functions, id))
             /\ id \notin Ids(functions) => NodesIn(functions, id) = {} /\ Cardinality(NodesIn(functions, id)) = 0
             /\ NodesIn(functions', id) = NodesIn(functions, id)
                                          \cup (IF id0 = id THEN {Len(functions) + 1} ELSE {})
             /\ Cardinality(NodesIn(functions', id))
                    = IF id0 = id THEN Cardinality(NodesIn(functions, id)) + 1
                      ELSE Cardinality(NodesIn(functions, id))
    BY <1>2, PassedDeclsStep, NodesInAppended
<1>4. /\ \A i \in 1..Len(functions) : functions'[i] = functions[i]
      /\ functions'[Len(functions) + 1].placeholder = FALSE
    BY <1>2, Appended
<1>5. id0[2] = program[pk].path
    BY <1>1 DEF IdOf, FunctionID, IsType
<1> HIDE DEF id0, n0
<1>6. ASSUME NEW id \in Ids(functions'), id # id0
      PROVE  /\ Cardinality(NodesIn(functions', id))
                    <= IF PassedDecls(id)' = {} THEN 1 ELSE Cardinality(PassedDecls(id)')
             /\ \A i \in NodesIn(functions', id) : ~functions'[i].placeholder
             /\ id \in funcBy'
             /\ PassedDecls(id)' = {} => \E n \in DOMAIN program : n < pk /\ id[2] = program[n].path
    <2>1. id \in Ids(functions)
        BY <1>2, <1>6
    <2>2. /\ PassedDecls(id)' = PassedDecls(id) /\ NodesIn(functions', id) = NodesIn(functions, id)
          /\ NodesIn(functions, id) \subseteq 1..Len(functions)
        <3>1. /\ PassedDecls(id)' = PassedDecls(id) \cup (IF id0 = id THEN {Decl} ELSE {})
              /\ NodesIn(functions, id) \subseteq 1..Len(functions)
              /\ NodesIn(functions', id) = NodesIn(functions, id)
                                           \cup (IF id0 = id THEN {Len(functions) + 1} ELSE {})
            BY <1>3
        <3>2. id0 # id
            BY <1>6
        <3>3. QED
            BY <3>1, <3>2
    <2>3. QED
        BY <1>1, <1>2, <1>4, <2>1, <2>2 DEF Counted
<1>7. /\ Cardinality(NodesIn(functions', id0)) <= Cardinality(PassedDecls(id0) \cup {Decl})
      /\ \A i \in NodesIn(functions', id0) : ~functions'[i].placeholder
    <2>1. /\ Cardinality(PassedDecls(id0) \cup {Decl}) = Cardinality(PassedDecls(id0)) + 1
          /\ Cardinality(PassedDecls(id0)) \in Nat
        BY <1>3, FS_AddElement, FS_CardinalityType
    <2>2. Cardinality(NodesIn(functions', id0)) = Cardinality(NodesIn(functions, id0)) + 1
        BY <1>3
    <2>3. CASE id0 \in Ids(functions)
        <3>1. PassedDecls(id0) # {}
            <4>1. SUFFICES ASSUME PassedDecls(id0) = {} PROVE FALSE
                OBVIOUS
            <4>2. PICK n \in DOMAIN program : n < pk /\ id0[2] = program[n].path
                BY <1>1, <2>3, <4>1 DEF Counted
            <4>3. n = pk
                BY <1>1, <1>5, <4>2, ProgramsAssumption DEF Shape
            <4>4. QED
                BY <4>2, <4>3 DEF Shape, TypeOK
        <3>2. /\ Cardinality(NodesIn(functions, id0)) <= Cardinality(PassedDecls(id0))
              /\ \A i \in NodesIn(functions, id0) : ~functions[i].placeholder
            BY <2>3, <3>1 DEF Counted
        <3>3. Cardinality(NodesIn(functions, id0)) \in Nat
            BY <1>3, FS_CardinalityType
        <3>4. \A i \in NodesIn(functions', id0) : ~functions'[i].placeholder
            BY <1>3, <1>4, <3>2
        <3>5. QED
            BY <2>1, <2>2, <3>2, <3>3, <3>4
    <2>4. CASE id0 \notin Ids(functions)
        <3>1. NodesIn(functions, id0) = {} /\ Cardinality(NodesIn(functions, id0)) = 0
            BY <1>3, <2>4
        <3>2. NodesIn(functions', id0) = {Len(functions) + 1}
            BY <1>3, <3>1
        <3>3. QED
            BY <1>4, <2>1, <2>2, <3>1, <3>2
    <2>5. QED
        BY <2>3, <2>4
<1>8. id0 \in funcBy'
    BY <1>2
<1>9. ASSUME NEW id \in Ids(functions')
      PROVE  /\ Cardinality(NodesIn(functions', id))
                    <= IF PassedDecls(id)' = {} THEN 1 ELSE Cardinality(PassedDecls(id)')
             /\ \A i \in NodesIn(functions', id) : ~functions'[i].placeholder
             /\ id \in funcBy'
             /\ PassedDecls(id)' = {} => \E n \in DOMAIN program : n < pk /\ id[2] = program[n].path
    <2>1. CASE id = id0
        <3>1. PassedDecls(id)' = PassedDecls(id0) \cup {Decl}
            BY <1>3, <2>1
        <3>2. QED
            BY <1>7, <1>8, <2>1, <3>1
    <2>2. QED
        BY <1>6, <2>1
<1>10. QED
    BY <1>1, <1>9 DEF Counted, NodesIn

LEMMA CountedByEndPackage ==
    ASSUME Shape, Counted, Next, EndPackage
    PROVE  Counted'
<1>1. /\ phase = "nodes" /\ phase' = phase /\ pk' = pk + 1 /\ pk \in DOMAIN program /\ pk \in Nat
      /\ program' = program /\ at > Len(program[pk].decls)
    BY AtHand, Program DEF EndPackage, InPhase, NextPackage, Package, input, Shape
<1>2. /\ functions' = functions \o NodesOf(NewMethodIds, FALSE)
      /\ Ids(functions') = Ids(functions) \cup NewMethodIds /\ funcBy' = funcBy \cup NewMethodIds
      /\ IsSequence(functions) /\ IsFiniteSet(NewMethodIds) /\ IsSequence(functions')
    BY <1>1, EndPackageAdds DEF Shape, Listed
<1>3. \A id \in NewMethodIds : id \notin Ids(functions)
    BY <1>1 DEF Counted, NewMethodIds, NewMethods
<1>4. /\ \A id \in Ids(functions) : NodesIn(functions', id) = NodesIn(functions, id)
      /\ \A id \in NewMethodIds : Cardinality(NodesIn(functions', id)) = 1
      /\ \A i \in 1..Len(functions) : functions'[i] = functions[i]
      /\ \A i \in DOMAIN functions' : functions'[i].id \in NewMethodIds => functions'[i].placeholder = FALSE
    <2> DEFINE t == NodesOf(NewMethodIds, FALSE)
    <2>1. /\ IsSequence(t) /\ Ids(t) = NewMethodIds
          /\ \A i \in 1..Len(t) : t[i].placeholder = FALSE
          /\ \A i, j \in 1..Len(t) : t[i].id = t[j].id => i = j
        BY <1>2, NodesAdded
    <2> HIDE DEF t
    <2>2. functions' = functions \o t
        BY <1>2 DEF t
    <2>3. \A n \in ToSet(t) : n.placeholder = FALSE
        BY <2>1, Sequence
    <2>4. /\ IsSequence(functions) /\ IsSequence(t) /\ \A id \in Ids(t) : id \notin Ids(functions)
          /\ \A i, j \in 1..Len(t) : t[i].id = t[j].id => i = j
        BY <1>2, <1>3, <2>1
    <2>5. /\ \A id \in Ids(functions) : NodesIn(functions \o t, id) = NodesIn(functions, id)
          /\ \A id \in Ids(t) : Cardinality(NodesIn(functions \o t, id)) = 1
          /\ \A i \in 1..Len(functions) : (functions \o t)[i] = functions[i]
          /\ \A i \in DOMAIN (functions \o t) :
                 (functions \o t)[i].id \in Ids(t) => (functions \o t)[i] \in ToSet(t)
        BY <2>4, NodesInJoined
    <2>6. QED
        BY <2>1, <2>2, <2>3, <2>5
<1>5. ASSUME NEW id PROVE PassedDecls(id)' = PassedDecls(id) /\ IsFiniteSet(PassedDecls(id))
    <2>1. ~EmitFunction
        BY <1>1, Program DEF EmitFunction, AtDecl, Package, Shape, TypeOK
    <2>2. QED
        BY <2>1, PassedDeclsStep
<1>6. ASSUME NEW id \in NewMethodIds PROVE id[2] = program[pk].path
    <2>1. PICK m \in InterfaceMethods : m[2] = id
        BY DEF NewMethodIds, NewMethods
    <2>2. PICK d \in Decls(program[pk]) : \E f \in d.methods : m = <<IdOf(d), FunctionID(d.pkg, d.name, f)>>
        BY DEF InterfaceMethods, Package
    <2>3. id[2] = d.pkg
        BY <2>1, <2>2 DEF FunctionID
    <2>4. d.pkg = program[pk].path
        BY <1>1, ProgramsAssumption DEF Shape
    <2>5. QED
        BY <2>3, <2>4
<1>7. ASSUME NEW id \in Ids(functions')
      PROVE  /\ Cardinality(NodesIn(functions', id))
                    <= IF PassedDecls(id) = {} THEN 1 ELSE Cardinality(PassedDecls(id))
             /\ \A i \in NodesIn(functions', id) : ~functions'[i].placeholder
             /\ id \in funcBy'
             /\ PassedDecls(id) = {} => \E n \in DOMAIN program : n < pk + 1 /\ id[2] = program[n].path
    <2>1. CASE id \in Ids(functions)
        <3>1. NodesIn(functions, id) \subseteq 1..Len(functions)
            BY <1>2, NodesInAppended
        <3>2. \A n \in DOMAIN program : n < pk => n < pk + 1
            BY <1>1, Program DEF Shape
        <3>3. /\ Cardinality(NodesIn(functions, id))
                     <= IF PassedDecls(id) = {} THEN 1 ELSE Cardinality(PassedDecls(id))
              /\ \A i \in NodesIn(functions, id) : ~functions[i].placeholder
              /\ id \in funcBy
              /\ PassedDecls(id) = {} => \E n \in DOMAIN program : n < pk /\ id[2] = program[n].path
            BY <1>1, <2>1 DEF Counted
        <3>4. QED
            BY <1>2, <1>4, <2>1, <3>1, <3>2, <3>3
    <2>2. CASE id \in NewMethodIds
        <3>1. PassedDecls(id) # {} => Cardinality(PassedDecls(id)) \in Nat /\ Cardinality(PassedDecls(id)) # 0
            BY <1>5, FS_EmptySet, FS_CardinalityType
        <3>2. \A i \in NodesIn(functions', id) : ~functions'[i].placeholder
            BY <1>4, <2>2 DEF NodesIn
        <3>3. \E n \in DOMAIN program : n < pk + 1 /\ id[2] = program[n].path
            BY <1>1, <1>6, <2>2
        <3>4. PassedDecls(id) # {} => Cardinality(PassedDecls(id)) >= 1
            BY <3>1
        <3>5. Cardinality(NodesIn(functions', id)) = 1 /\ id \in funcBy'
            BY <1>2, <1>4, <2>2
        <3>6. QED
            BY <3>2, <3>3, <3>4, <3>5
    <2>3. QED
        BY <1>2, <2>1, <2>2
<1>8. QED
    BY <1>1, <1>5, <1>7 DEF Counted, NodesIn

LEMMA CountedByCollectCalls ==
    ASSUME Shape, EmittedSoFar, Counted, Next, CollectCalls
    PROVE  Counted'
<1>1. phase = "calls" /\ phase' = phase /\ pk \in DOMAIN program
    BY AtHand DEF CollectCalls, InPhase, NextDecl
<1>2. /\ functions' = functions \o NodesOf(NewCallees, TRUE)
      /\ Ids(functions') = Ids(functions) \cup NewCallees
      /\ IsSequence(functions) /\ IsFiniteSet(NewCallees)
    BY <1>1, CollectCallsAdds DEF Shape, Listed
<1>3. \A id \in NewCallees : id \notin Ids(functions)
    BY DEF NewCallees, NeedPlaceholder
<1>4. /\ \A id \in Ids(functions) : NodesIn(functions', id) = NodesIn(functions, id)
      /\ \A id \in NewCallees : Cardinality(NodesIn(functions', id)) = 1
      /\ \A i \in 1..Len(functions) : functions'[i] = functions[i]
    <2> DEFINE t == NodesOf(NewCallees, TRUE)
    <2>1. /\ IsSequence(t) /\ Ids(t) = NewCallees
          /\ \A i, j \in 1..Len(t) : t[i].id = t[j].id => i = j
        BY <1>2, NodesAdded
    <2> HIDE DEF t
    <2>2. functions' = functions \o t
        BY <1>2 DEF t
    <2>3. /\ IsSequence(functions) /\ IsSequence(t) /\ \A id \in Ids(t) : id \notin Ids(functions)
          /\ \A i, j \in 1..Len(t) : t[i].id = t[j].id => i = j
        BY <1>2, <1>3, <2>1
    <2>4. /\ \A id \in Ids(functions) : NodesIn(functions \o t, id) = NodesIn(functions, id)
          /\ \A id \in Ids(t) : Cardinality(NodesIn(functions \o t, id)) = 1
          /\ \A i \in 1..Len(functions) : (functions \o t)[i] = functions[i]
        BY <2>3, NodesInJoined
    <2>5. QED
        BY <2>1, <2>2, <2>4
<1>5. ASSUME NEW id PROVE PassedDecls(id)' = PassedDecls(id)
    <2>1. ~EmitFunction
        BY <1>1 DEF EmitFunction, InPhase
    <2>2. QED
        BY <2>1, PassedDeclsStep
<1>6. ASSUME NEW id, PassedDecls(id) # {} PROVE id \in Ids(functions)
    <2>1. PICK d \in PassedDecls(id) : TRUE
        BY <1>6
    <2>2. PICK n \in DOMAIN program : \E i \in DOMAIN program[n].decls :
              d = program[n].decls[i] /\ Passed(n, i)
        BY <2>1 DEF PassedDecls
    <2>3. PICK i \in DOMAIN program[n].decls : d = program[n].decls[i] /\ Passed(n, i)
        BY <2>2
    <2>4. d.kind = "func" /\ IdOf(d) = id /\ Allowed(d)
        BY <2>1 DEF PassedDecls, Declaring
    <2>5. HasNode(d)
        BY <2>3, <2>4 DEF EmittedSoFar
    <2>6. QED
        BY <2>4, <2>5 DEF HasNode, Shape, TypeOK
<1>7. ASSUME NEW id \in Ids(functions')
      PROVE  /\ Cardinality(NodesIn(functions', id))
                    <= IF PassedDecls(id) = {} THEN 1 ELSE Cardinality(PassedDecls(id))
             /\ PassedDecls(id) # {} => \A i \in NodesIn(functions', id) : ~functions'[i].placeholder
    <2>1. CASE id \in Ids(functions)
        <3>1. NodesIn(functions, id) \subseteq 1..Len(functions)
            BY <1>2, NodesInAppended
        <3>2. QED
            BY <1>4, <2>1, <3>1 DEF Counted
    <2>2. CASE id \in NewCallees
        BY <1>3, <1>4, <1>6, <2>2
    <2>3. QED
        BY <1>2, <2>1, <2>2
<1>8. QED
    BY <1>1, <1>5, <1>7 DEF Counted, NodesIn

LEMMA CountedStep ==
    ASSUME Shape, EmittedSoFar, Counted, [Next]_vars
    PROVE  Counted'
<1>1. CASE EmitFunction
    BY <1>1, CountedByEmitFunction DEF Next
<1>2. CASE EndPackage
    BY <1>2, CountedByEndPackage DEF Next
<1>3. CASE CollectCalls
    BY <1>3, CountedByCollectCalls DEF Next
<1>4. CASE Next /\ ~EmitFunction /\ ~EndPackage /\ ~CollectCalls
    <2>1. /\ functions' = functions /\ funcBy' = funcBy /\ program' = program
          /\ phase' = "nodes" => phase = "nodes"
          /\ phase' = "nodes" => pk' = pk \/ pk' = pk + 1
        BY <1>4 DEF Next, StartPackage, SkipDecl, EmitUnit, StartCalls, EnterPackage, LeavePackage,
                    CollectInheritance, AddAll, CollectImplements, CollectOverrides, Finished, vars, names,
                    delta, input, InPhase, NextDecl, NextPackage, Then
    <2>2. ASSUME NEW id PROVE PassedDecls(id)' = PassedDecls(id)
        BY <1>4, PassedDeclsStep
    <2>3. \A n \in DOMAIN program : n < pk => n < pk + 1
        BY Program DEF Shape, TypeOK
    <2>4. QED
        BY <2>1, <2>2, <2>3 DEF Counted, NodesIn
<1>5. CASE UNCHANGED vars
    <2>1. ASSUME NEW id PROVE PassedDecls(id)' = PassedDecls(id)
        BY <1>5 DEF vars, PassedDecls, Declaring, Allowed, AllDecls, Passed
    <2>2. UNCHANGED <<program, phase, pk, functions, funcBy>>
        BY <1>5 DEF vars
    <2>3. QED
        BY <2>1, <2>2 DEF Counted, NodesIn
<1>6. QED
    BY <1>1, <1>2, <1>3, <1>4, <1>5

LEMMA CountedNodes ==
    ASSUME Shape, Counted
    PROVE  OneNodePerFunction
<1>1. ASSUME NEW id \in Ids(functions)
      PROVE  /\ Cardinality(NodesIn(functions, id))
                    <= IF Declaring(id) = {} THEN 1 ELSE Cardinality(Declaring(id))
             /\ Declaring(id) # {} => \A i \in NodesIn(functions, id) : ~functions[i].placeholder
    <2>1. PassedDecls(id) \subseteq Declaring(id) /\ Declaring(id) \subseteq AllDecls
        BY DEF PassedDecls, Declaring
    <2>2. IsFiniteSet(AllDecls)
        BY Program DEF Shape
    <2>3. IsFiniteSet(Declaring(id))
        BY <2>1, <2>2, FS_Subset
    <2>4. /\ IsFiniteSet(PassedDecls(id)) /\ Cardinality(PassedDecls(id)) <= Cardinality(Declaring(id))
          /\ Cardinality(PassedDecls(id)) \in Nat /\ Cardinality(Declaring(id)) \in Nat
          /\ Declaring(id) # {} => Cardinality(Declaring(id)) # 0
        BY <2>1, <2>3, FS_Subset, FS_CardinalityType, FS_EmptySet
    <2>5. IsFiniteSet(NodesIn(functions, id)) /\ Cardinality(NodesIn(functions, id)) \in Nat
        BY NodesInAppended, FS_CardinalityType DEF Shape, Listed
    <2>6. CASE phase = "nodes"
        BY <2>1, <2>4, <2>5, <2>6 DEF Counted
    <2>7. CASE phase # "nodes"
        <3>1. PassedDecls(id) = Declaring(id)
            BY <2>1, <2>7, Program DEF Shape, PassedDecls, Passed
        <3>2. QED
            BY <3>1 DEF Counted
    <2>8. QED
        BY <2>6, <2>7
<1>2. QED
    BY <1>1 DEF OneNodePerFunction, NodesIn, Declaring

---------------------------------------------------------------------------
(* The ends of relationships.                                              *)

\* Of a full request every declaration and every method is there for the last phases.
LEMMA FullHasAll ==
    ASSUME Shape, EmittedSoFar, phase # "nodes", Full
    PROVE  /\ \A d \in AllDecls : HasNode(d) /\ HasMethods(d)
           /\ \A e \in Types(AllDecls) : \A m \in Declared(AllDecls, e) :
                 FunctionID(e.pkg, e.name, m) \in funcBy
<1>1. ASSUME NEW d \in AllDecls PROVE HasNode(d) /\ HasMethods(d)
    <2>1. PICK n \in DOMAIN program : \E i \in DOMAIN program[n].decls : d = program[n].decls[i]
        BY Program DEF Shape
    <2>2. PICK i \in DOMAIN program[n].decls : d = program[n].decls[i]
        BY <2>1
    <2>3. Allowed(d)
        BY DEF Full, Files, Allowed, AllDecls
    <2>4. QED
        BY <2>2, <2>3 DEF EmittedSoFar, Passed, Left
<1>2. ASSUME NEW e \in Types(AllDecls), NEW m \in Declared(AllDecls, e)
      PROVE  FunctionID(e.pkg, e.name, m) \in funcBy
    <2>1. e \in AllDecls /\ InScope(e)
        BY DEF Types, Concrete, Interfaces
    <2>2. CASE e.kind = "interface"
        BY <1>1, <2>1, <2>2 DEF HasMethods, Declared
    <2>3. CASE e.kind # "interface"
        <3>1. PICK f \in AllDecls : f.kind = "func" /\ <<f.pkg, f.owner>> = <<e.pkg, e.name>> /\ f.name = m
            BY <2>3 DEF Declared, Methods, TypeRef
        <3>2. IdOf(f) = FunctionID(e.pkg, e.name, m)
            BY <3>1 DEF IdOf, IsType
        <3>3. QED
            BY <1>1, <3>1, <3>2 DEF HasNode
    <2>4. QED
        BY <2>2, <2>3
<1>3. QED
    BY <1>1, <1>2

\* What a loaded type declares is declared in the packages loaded.
LEMMA DeclaredHere ==
    ASSUME program \in Programs, NEW d \in AllDecls
    PROVE  Declared(World, d) = Declared(AllDecls, d)
<1>1. d.pkg \in Paths(program)
    BY Program DEF Paths
<1>2. ASSUME NEW f \in World, f.pkg = d.pkg PROVE f \in AllDecls
    BY <1>1, <1>2, ElsewhereAssumption DEF World, WorldOf, AllDecls
<1>3. ASSUME NEW f, f.pkg = d.pkg PROVE f \in World <=> f \in AllDecls
    BY <1>2, <1>3 DEF World, WorldOf, AllDecls
<1>4. Methods(World, d) = Methods(AllDecls, d)
    BY <1>3 DEF Methods, TypeRef
<1>5. QED
    BY <1>4 DEF Declared

\* What EndsEmitted says of one relationship.
Ends(r) ==
    \/ r.from \in Nodes /\ r.to \in Nodes
    \/ /\ r.type \notin Structural
       /\ \/ ~Full \/ r.to[2] \notin Paths(program)
          \/ NamedAfterPromotion(r) \/ NamedAfterEmbedder(r)

LEMMA EndsOfNodes ==
    ASSUME Shape, EmittedSoFar, Next, EmitUnit \/ EmitFunction, NEW r \in Added', r \notin Added
    PROVE  r.from \in Nodes' /\ r.to \in Nodes'
<1>1. /\ phase = "nodes" /\ pk \in DOMAIN program /\ AtDecl /\ at \in DOMAIN program[pk].decls
      /\ Decl = program[pk].decls[at] /\ Allowed(Decl) /\ Decl.pkg = Package.path
      /\ Package = program[pk] /\ at > 0
    <2>1. pk <= Len(program) /\ AtDecl /\ Allowed(Decl) /\ phase = "nodes"
        BY DEF EmitUnit, EmitFunction, InPhase
    <2>2. QED
        BY <2>1, AtHand, Program DEF Shape, Package
<1>2. PackageID(Package.path) \in ToSet(packages)
    BY <1>1 DEF EmittedSoFar, Passed, HasPackage
<1>3. Listed /\ unitBy = Ids(units)
    BY DEF Shape, TypeOK
<1>4. CASE EmitUnit
    <2>1. r = Rel(PackageID(Decl.pkg), "PACKAGE_TO_UNIT", IdOf(Decl)) /\ IdOf(Decl) \in Ids(units')
          /\ packages' = packages
        BY <1>3, <1>4, EmitUnitAdds
    <2>2. QED
        BY <1>1, <1>2, <2>1 DEF Rel, Nodes
<1>5. CASE EmitFunction
    <2>1. /\ r \in OwnerLinks /\ IdOf(Decl) \in Ids(functions') /\ packages' = packages
          /\ Ids(units') = unitBy \cup Missed
        BY <1>3, <1>5, EmitFunctionAdds
    <2>2. CASE r \in {Rel(PackageID(Package.path), "PACKAGE_TO_UNIT", u) : u \in Missed}
        BY <1>2, <2>1, <2>2 DEF Rel, Nodes
    <2>3. CASE Linked(Decl) /\ r = Rel(Owner(Decl), "UNIT_TO_FUNCTION", IdOf(Decl))
        <3>1. Owner(Decl) \in unitBy \cup Missed
            BY <1>1, <2>3 DEF Linked, Owner, Missed, MissesSynthetic, Synthetic
        <3>2. QED
            BY <2>1, <2>3, <3>1 DEF Rel, Nodes
    <2>4. QED
        BY <2>1, <2>2, <2>3 DEF OwnerLinks
<1>6. QED
    BY <1>4, <1>5

LEMMA EndsOfCalls ==
    ASSUME Shape, EmittedSoFar, Attribution, Next, CollectCalls, NEW r \in Added', r \notin Added
    PROVE  r.from \in Nodes' /\ r.to \in Nodes'
<1>1. /\ phase = "calls" /\ pk <= Len(program) /\ pk \in DOMAIN program
      /\ at \in DOMAIN program[pk].decls /\ Decl = program[pk].decls[at]
    BY AtHand DEF CollectCalls, InPhase
<1>2. /\ r \in NewCalls /\ Ids(functions') = Ids(functions) \cup NewCallees
      /\ funcBy \subseteq Ids(functions)
    BY <1>1, CollectCallsAdds DEF Shape, TypeOK
<1>3. /\ Allowed(Decl) /\ Caller(Decl) # NoFunction /\ r.from = Caller(Decl) /\ r.to \in Callees(Decl)
    BY <1>2 DEF NewCalls, Callees, Rel
<1>4. r.to \in Ids(functions')
    BY <1>2, <1>3 DEF NewCallees, NeedPlaceholder
<1>5. ASSUME NEW j \in DOMAIN program[pk].decls, program[pk].decls[j].kind = "func",
             program[pk].decls[j].file = Decl.file
      PROVE  IdOf(program[pk].decls[j]) \in funcBy
    <2>1. Allowed(program[pk].decls[j])
        BY <1>3, <1>5 DEF Allowed
    <2>2. QED
        BY <1>1, <1>5, <2>1 DEF EmittedSoFar, Passed, HasNode
<1>6. Caller(Decl) \in funcBy
    <2>1. CASE Decl.kind = "func"
        BY <1>1, <1>5, <2>1 DEF Caller
    <2>2. CASE Decl.kind # "func"
        <3>1. ~StartsFile /\ Caller(Decl) = current /\ current # NoFunction
            BY <1>3, <2>2 DEF Caller
        <3>2. at > 1 /\ program[pk].decls[at - 1].file = program[pk].decls[at].file
            BY <1>1, <3>1, Program DEF Shape, StartsFile, Package
        <3>3. current \in LastBefore(program[pk], at)
            BY <1>1, <1>3, <3>1, <3>2 DEF Attribution
        <3>4. PICK j \in 1..(at - 1) : /\ program[pk].decls[j].kind = "func"
                                       /\ program[pk].decls[j].file = program[pk].decls[at].file
                                       /\ current = IdOf(program[pk].decls[j])
            BY <3>3 DEF LastBefore
        <3>5. j \in DOMAIN program[pk].decls
            BY <1>1, <3>4, Program DEF Shape
        <3>6. QED
            BY <1>1, <1>5, <3>1, <3>4, <3>5
    <2>3. QED
        BY <2>1, <2>2
<1>7. QED
    BY <1>2, <1>3, <1>4, <1>6 DEF Nodes

LEMMA EndsOfTypes ==
    ASSUME Shape, EmittedSoFar, Next, CollectInheritance \/ CollectImplements \/ CollectOverrides,
           NEW r \in Added', r \notin Added
    PROVE  Ends(r)
<1>1. phase # "nodes"
    BY DEF CollectInheritance, CollectImplements, CollectOverrides
<1>2. Listed /\ program \in Programs /\ unitBy = Ids(units) /\ funcBy \subseteq Ids(functions)
    BY DEF Shape, TypeOK
<1>3. CASE CollectInheritance
    <2>1. r \in Embeds
        BY <1>2, <1>3, LastPhasesAdd
    <2>2. PICK d \in AllDecls : /\ IsType(d) /\ Emitted(d)
                                /\ \E to \in EmbedsOf(d) : r = Rel(IdOf(d), "GO_EMBEDS", to)
        BY <2>1 DEF Embeds
    <2>3. PICK to \in EmbedsOf(d) : r = Rel(IdOf(d), "GO_EMBEDS", to)
        BY <2>2
    <2>4. r.from = IdOf(d) /\ r.from \in Nodes /\ r.type = "GO_EMBEDS" /\ r.to = to
        BY <1>2, <2>2, <2>3 DEF Nodes, Emitted, Rel
    <2>5. PICK ref \in d.embeds :
              to = UnitID(ref[1], ref[2]) \/ (Bare(d, ref) /\ to = UnitID(d.pkg, ref[2]))
        BY <2>3 DEF EmbedsOf, NamedAs, WrittenAs, Bare
    <2>6. CASE to = UnitID(ref[1], ref[2])
        <3>1. r.to[2] = ref[1]
            BY <2>4, <2>6 DEF UnitID
        <3>2. ASSUME Full, ref[1] \in Paths(program) PROVE r.to \in Nodes
            <4>1. PICK e \in AllDecls : IsType(e) /\ TypeRef(e) = ref
                BY <1>2, <2>2, <3>2, ProgramsCompile DEF AllDecls
            <4>2. IdOf(e) = r.to
                BY <2>4, <2>6, <4>1 DEF TypeRef, IdOf
            <4>3. HasNode(e)
                BY <1>1, <3>2, FullHasAll
            <4>4. QED
                BY <1>2, <4>1, <4>2, <4>3 DEF HasNode, Nodes
        <3>3. QED
            BY <2>4, <3>1, <3>2 DEF Ends, Structural
    <2>7. CASE ref[1] # d.pkg /\ Bare(d, ref) /\ to = UnitID(d.pkg, ref[2])
        <3>1. NamedAfterEmbedder(r)
            BY <2>2, <2>4, <2>7 DEF NamedAfterEmbedder
        <3>2. QED
            BY <2>4, <3>1 DEF Ends, Structural
    <2>8. QED
        BY <2>5, <2>6, <2>7
<1>4. CASE CollectImplements
    <2>1. r \in Satisfies(World, AllDecls, unitBy)
        BY <1>2, <1>4, LastPhasesAdd
    <2>2. PICK d \in AllDecls, i \in AllDecls :
              IdOf(d) \in unitBy /\ IsType(i) /\ r = Rel(IdOf(d), "GO_SATISFIES", IdOf(i))
        BY <2>1 DEF Satisfies, Concrete, Interfaces, InScope
    <2>3. Full => r.to \in Nodes
        BY <1>1, <1>2, <2>2, FullHasAll DEF HasNode, Nodes, Rel
    <2>4. r.from \in Nodes /\ r.type = "GO_SATISFIES"
        BY <1>2, <2>2 DEF Nodes, Rel
    <2>5. QED
        BY <2>3, <2>4 DEF Ends, Structural
<1>5. CASE CollectOverrides
    <2>1. r \in Overrides
        BY <1>2, <1>5, LastPhasesAdd DEF Overrides
    <2>2. r.type = "GO_METHOD_SATISFIES" /\ r.type \notin Structural
        BY <2>1 DEF Overrides, InterfaceOverrides, EmbeddedOverrides, Rel, Structural
    <2>3. SUFFICES ASSUME Full, r.to[2] \in Paths(program)
                   PROVE  r.from \in Nodes /\ (r.to \in Nodes \/ NamedAfterPromotion(r))
        BY <2>2 DEF Ends
    <2>4. PICK d \in Concrete(AllDecls), e \in Types(World),
               m \in UNION {Declared(World, x) : x \in World} :
              /\ m \in Declared(World, d)
              /\ r = Rel(FunctionID(d.pkg, d.name, m), "GO_METHOD_SATISFIES", FunctionID(e.pkg, e.name, m))
        <3>1. CASE r \in InterfaceOverrides(World, AllDecls)
            BY <3>1 DEF InterfaceOverrides, Contracts, Types, Interfaces, Concrete, World, WorldOf, AllDecls
        <3>2. CASE r \in EmbeddedOverrides(World, AllDecls)
            BY <3>2 DEF EmbeddedOverrides, Embedded, Concrete, World, WorldOf, AllDecls
        <3>3. QED
            BY <2>1, <3>1, <3>2 DEF Overrides
    <2>5. r.to[2] = e.pkg /\ r.to[3] = e.name /\ r.to[4] = m /\ r.to = FunctionID(e.pkg, e.name, m)
          /\ r.from = FunctionID(d.pkg, d.name, m)
        BY <2>4 DEF Rel, FunctionID
    <2>6. d \in Types(AllDecls) /\ e \in Types(AllDecls) /\ m \in Declared(AllDecls, d)
        <3>1. e \notin Elsewhere
            BY <1>2, <2>3, <2>5, ElsewhereAssumption
        <3>2. d \in Types(AllDecls) /\ e \in Types(AllDecls)
            BY <3>1 DEF Types, Concrete, Interfaces, World, WorldOf, AllDecls
        <3>3. Declared(World, d) = Declared(AllDecls, d)
            BY <1>2, DeclaredHere DEF Concrete
        <3>4. QED
            BY <2>4, <3>2, <3>3
    <2>7. r.from \in Nodes
        BY <1>1, <1>2, <2>3, <2>5, <2>6, FullHasAll DEF Nodes
    <2>8. CASE m \in Declared(AllDecls, e)
        BY <1>1, <1>2, <2>3, <2>5, <2>6, <2>7, <2>8, FullHasAll DEF Nodes
    <2>9. CASE m \notin Declared(AllDecls, e)
        <3>1. NamedAfterPromotion(r)
            BY <2>2, <2>5, <2>6, <2>9 DEF NamedAfterPromotion
        <3>2. QED
            BY <2>7, <3>1
    <2>10. QED
        BY <2>7, <2>8, <2>9
<1>6. QED
    BY <1>3, <1>4, <1>5

LEMMA EndsStep ==
    ASSUME Shape, EmittedSoFar, Attribution, EndsEmitted, [Next]_vars
    PROVE  EndsEmitted'
<1>1. CASE UNCHANGED vars
    BY <1>1 DEF vars, EndsEmitted, Added, Nodes, Full, NamedAfterPromotion, NamedAfterEmbedder,
                    AllDecls
<1>2. CASE Next
    <2>1. program' = program /\ allow' = allow /\ AllDecls' = AllDecls
        BY <1>2, Places DEF input
    <2>2. Nodes \subseteq Nodes'
        BY <1>2, Grows DEF Nodes
    <2>3. ASSUME NEW r \in Added', r \notin Added PROVE Ends(r) \/ (r.from \in Nodes' /\ r.to \in Nodes')
        <3>1. CASE StartPackage
            BY <2>3, <3>1, StartPackageAdds DEF Shape, Added
        <3>2. CASE SkipDecl \/ StartCalls \/ EnterPackage \/ LeavePackage \/ Finished
            BY <2>3, <3>2 DEF SkipDecl, StartCalls, EnterPackage, LeavePackage, Finished, vars, delta, Added
        <3>3. CASE EmitUnit \/ EmitFunction
            BY <1>2, <2>3, <3>3, EndsOfNodes
        <3>4. CASE EndPackage
            <4>1. pk \in DOMAIN program
                BY <3>4, AtHand DEF EndPackage, InPhase
            <4>2. /\ r \in {Rel(m[1], "UNIT_TO_FUNCTION", m[2]) : m \in NewMethods}
                  /\ NewMethodIds \subseteq Ids(functions') /\ unitBy = Ids(units')
                BY <2>3, <3>4, <4>1, EndPackageAdds DEF Shape, TypeOK
            <4>3. PICK m \in InterfaceMethods : m \in NewMethods /\ r.from = m[1] /\ r.to = m[2]
                BY <4>2 DEF NewMethods, Rel
            <4>4. m[1] \in unitBy
                BY <4>3 DEF InterfaceMethods, Emitted
            <4>5. QED
                BY <4>2, <4>3, <4>4 DEF NewMethodIds, Nodes
        <3>5. CASE CollectCalls
            BY <1>2, <2>3, <3>5, EndsOfCalls
        <3>6. CASE CollectInheritance \/ CollectImplements \/ CollectOverrides
            BY <1>2, <2>3, <3>6, EndsOfTypes
        <3>7. QED
            BY <1>2, <3>1, <3>2, <3>3, <3>4, <3>5, <3>6 DEF Next
    <2>4. ASSUME NEW r \in Added PROVE Ends(r)
        BY DEF EndsEmitted, Ends
    <2>5. ASSUME NEW r, Ends(r) \/ (r.from \in Nodes' /\ r.to \in Nodes') PROVE Ends(r)'
        <3>1. /\ NamedAfterPromotion(r)' <=> NamedAfterPromotion(r)
              /\ NamedAfterEmbedder(r)' <=> NamedAfterEmbedder(r)
            BY <2>1 DEF NamedAfterPromotion, NamedAfterEmbedder
        <3>2. Full' <=> Full
            BY <2>1 DEF Full
        <3>3. QED
            BY <2>1, <2>2, <2>5, <3>1, <3>2 DEF Ends
    <2>6. \A r \in Added' : Ends(r)'
        BY <2>3, <2>4, <2>5
    <2>7. QED
        BY <2>6 DEF EndsEmitted, Ends
<1>3. QED
    BY <1>1, <1>2

---------------------------------------------------------------------------
(* Methods and their types.                                                *)

Satisfied ==
    /\ \A r \in Added : r.type = "GO_METHOD_SATISFIES" => r \in Overrides
    /\ phase \in {"overrides", "done"} => Satisfies(World, AllDecls, unitBy) \subseteq Added

LEMMA SatisfiedStep ==
    ASSUME Shape, Satisfied, [Next]_vars
    PROVE  Satisfied'
<1>1. CASE UNCHANGED vars
    BY <1>1 DEF vars, Satisfied, Added, Overrides, AllDecls, World
<1>2. CASE Next
    <2>1. AllDecls' = AllDecls /\ World' = World /\ Added \subseteq Added'
        BY <1>2, Places, Grows DEF World, input
    <2>2. ASSUME NEW r \in Added', r.type = "GO_METHOD_SATISFIES" PROVE r \in Overrides
        BY <1>2, <2>2, NewRelationships DEF Satisfied
    <2>3. Overrides' = Overrides
        BY <2>1 DEF Overrides
    <2>4. ASSUME phase' \in {"overrides", "done"}
          PROVE  Satisfies(World, AllDecls, unitBy') \subseteq Added'
        <3>1. CASE CollectImplements
            <4>1. Added' = Added \cup Satisfies(World, AllDecls, unitBy) /\ unitBy' = unitBy
                BY <3>1, LastPhasesAdd DEF Shape, CollectImplements, names
            <4>2. QED
                BY <4>1
        <3>2. CASE ~CollectImplements
            <4>1. CollectOverrides \/ Finished
                BY <1>2, <2>4, <3>2
                DEF Next, StartPackage, SkipDecl, EmitUnit, EmitFunction, EndPackage, StartCalls,
                    EnterPackage, CollectCalls, LeavePackage, InPhase, NextDecl, NextPackage, Then,
                    CollectInheritance, AddAll
            <4>2. phase \in {"overrides", "done"} /\ unitBy' = unitBy
                BY <4>1 DEF CollectOverrides, Finished, vars, names
            <4>3. QED
                BY <2>1, <4>2 DEF Satisfied
        <3>3. QED
            BY <3>1, <3>2
    <2>5. QED
        BY <2>1, <2>2, <2>3, <2>4 DEF Satisfied
<1>3. QED
    BY <1>1, <1>2

\* The methods of a type: its own, those of what it embeds and of what that embeds.
LEMMA MethodSets ==
    ASSUME NEW world, NEW d, NEW m
    PROVE  m \in MethodSet(world, d) <=>
              \/ m \in Declared(world, d)
              \/ \E e \in Embedded(world, d) :
                    m \in Declared(world, e) \/ \E f \in Embedded(world, e) : m \in Declared(world, f)
<1> DEFINE all(n) == UNION {Declared(world, e) : e \in Levels(world, d)[n]}
<1>1. MethodSet(world, d) = UNION {all(n) : n \in 1..3}
    BY DEF MethodSet
<1>2. /\ Levels(world, d)[1] = {d} /\ Levels(world, d)[2] = Embedded(world, d)
      /\ Levels(world, d)[3] = UNION {Embedded(world, e) : e \in Embedded(world, d)}
    BY DEF Levels
<1>3. m \in all(1) <=> m \in Declared(world, d)
    BY <1>2
<1>4. m \in all(2) <=> \E e \in Embedded(world, d) : m \in Declared(world, e)
    BY <1>2
<1>5. m \in all(3) <=> \E e \in Embedded(world, d) : \E f \in Embedded(world, e) : m \in Declared(world, f)
    BY <1>2
<1> HIDE DEF all
<1>6. m \in MethodSet(world, d) <=> m \in all(1) \/ m \in all(2) \/ m \in all(3)
    <2>1. m \in MethodSet(world, d) <=> \E n \in 1..3 : m \in all(n)
        BY <1>1
    <2>2. \A n \in 1..3 : n = 1 \/ n = 2 \/ n = 3
        OBVIOUS
    <2>3. 1 \in 1..3 /\ 2 \in 1..3 /\ 3 \in 1..3
        OBVIOUS
    <2>4. QED
        BY <2>1, <2>2, <2>3
<1>7. QED
    BY <1>3, <1>4, <1>5, <1>6

\* A type has the methods of an interface it embeds, however they reach that: nothing
\* that compiles here embeds any deeper.
LEMMA EmbeddedContract ==
    ASSUME program \in Programs, NEW d \in Types(World), NEW i \in Embedded(World, d),
           MethodSet(World, i) # {}
    PROVE  Implements(World, d, i)
<1>1. \A f \in Embedded(World, i) : Embedded(World, f) = {}
    BY ProgramsCompile DEF World
<1>2. ASSUME NEW m \in MethodSet(World, i) PROVE m \in MethodSet(World, d)
    <2>1. m \in Declared(World, i) \/ \E f \in Embedded(World, i) : m \in Declared(World, f)
        BY <1>1, MethodSets
    <2>2. QED
        BY <2>1, MethodSets
<1>3. QED
    BY <1>2 DEF Implements

LEMMA Together ==
    ASSUME Shape, Satisfied
    PROVE  SatisfiesTogether
<1>1. SUFFICES ASSUME phase = "done", NEW r \in Added, NEW i \in Interfaces(AllDecls),
                      r.type = "GO_METHOD_SATISFIES", UnitID(r.to[2], r.to[3]) = IdOf(i),
                      UnitID(r.from[2], r.from[3]) \in unitBy
               PROVE  Rel(UnitID(r.from[2], r.from[3]), "GO_SATISFIES", IdOf(i)) \in Added
    BY DEF SatisfiesTogether
<1>2. r \in Overrides /\ Satisfies(World, AllDecls, unitBy) \subseteq Added
    BY <1>1 DEF Satisfied
<1>3. ASSUME NEW d \in Concrete(AllDecls), NEW e, NEW m,
             r = Rel(FunctionID(d.pkg, d.name, m), "GO_METHOD_SATISFIES", FunctionID(e.pkg, e.name, m))
      PROVE  UnitID(r.from[2], r.from[3]) = IdOf(d) /\ UnitID(r.to[2], r.to[3]) = UnitID(e.pkg, e.name)
    <2>1. r.from[2] = d.pkg /\ r.from[3] = d.name /\ r.to[2] = e.pkg /\ r.to[3] = e.name
        BY <1>3 DEF Rel, FunctionID
    <2>2. QED
        BY <2>1 DEF IdOf, Concrete, InScope
<1>4. ASSUME NEW d \in Concrete(AllDecls), IdOf(d) \in unitBy,
             NEW j \in Interfaces(AllDecls), Implements(World, d, j)
      PROVE  Rel(IdOf(d), "GO_SATISFIES", IdOf(j)) \in Added
    BY <1>2, <1>4 DEF Satisfies
<1>5. CASE r \in InterfaceOverrides(World, AllDecls)
    <2>1. PICK d \in Concrete(AllDecls) : \E j \in Contracts(World, AllDecls, d) : \E m \in j.methods :
              r = Rel(FunctionID(d.pkg, d.name, m), "GO_METHOD_SATISFIES", FunctionID(j.pkg, j.name, m))
        BY <1>5 DEF InterfaceOverrides
    <2>2. PICK j \in Contracts(World, AllDecls, d) : \E m \in j.methods :
              r = Rel(FunctionID(d.pkg, d.name, m), "GO_METHOD_SATISFIES", FunctionID(j.pkg, j.name, m))
        BY <2>1
    <2>3. j \in Interfaces(AllDecls) /\ Implements(World, d, j)
        BY DEF Contracts
    <2>4. UnitID(r.from[2], r.from[3]) = IdOf(d) /\ UnitID(r.to[2], r.to[3]) = UnitID(j.pkg, j.name)
        BY <1>3, <2>2
    <2>5. IdOf(j) = IdOf(i)
        BY <1>1, <2>3, <2>4 DEF IdOf, Interfaces, InScope
    <2>6. QED
        BY <1>1, <1>4, <2>3, <2>4, <2>5
<1>6. CASE r \in EmbeddedOverrides(World, AllDecls)
    <2>1. PICK d \in Concrete(AllDecls) : \E e \in Embedded(World, d) :
              \E m \in MethodSet(World, e) :
                 r = Rel(FunctionID(d.pkg, d.name, m), "GO_METHOD_SATISFIES", FunctionID(e.pkg, e.name, m))
        BY <1>6 DEF EmbeddedOverrides
    <2>2. PICK e \in Embedded(World, d) : \E m \in MethodSet(World, e) :
              r = Rel(FunctionID(d.pkg, d.name, m), "GO_METHOD_SATISFIES", FunctionID(e.pkg, e.name, m))
        BY <2>1
    <2>3. UnitID(r.from[2], r.from[3]) = IdOf(d) /\ UnitID(r.to[2], r.to[3]) = UnitID(e.pkg, e.name)
        BY <1>3, <2>2
    <2>4. e \in Types(World) /\ i \in Types(World) /\ d \in Types(World)
        BY DEF Embedded, Types, Concrete, Interfaces, World, WorldOf, AllDecls
    <2>5. TypeRef(e) = TypeRef(i)
        <3>1. UnitID(e.pkg, e.name) = UnitID(i.pkg, i.name)
            BY <1>1, <2>3 DEF IdOf, Interfaces, InScope
        <3>2. QED
            BY <3>1 DEF UnitID, TypeRef
    <2>6. e = i
        BY <2>4, <2>5, ProgramsCompile DEF World, Shape
    <2>7. Implements(World, d, i)
        BY <2>2, <2>4, <2>6, EmbeddedContract DEF Shape
    <2>8. QED
        BY <1>1, <1>4, <2>3, <2>7
<1>7. QED
    BY <1>2, <1>5, <1>6 DEF Overrides

---------------------------------------------------------------------------
(* The theorems.                                                           *)

GraphInv ==
    /\ Shape /\ EmittedSoFar /\ Attribution /\ CallsAttributed /\ Counted
    /\ EndsEmitted /\ Satisfied

LEMMA GraphInit == Init => GraphInv
<1> SUFFICES ASSUME Init PROVE GraphInv
    OBVIOUS
<1>1. Shape
    BY ShapeInit
<1>2. EmittedSoFar
    BY <1>1, EmittedInit
<1>3. Added = {} /\ phase = "nodes" /\ current = NoFunction
    BY DEF Init, Added, ToSet
<1>4. Attribution
    BY <1>3 DEF Attribution, Init
<1>5. CallsAttributed /\ EndsEmitted /\ Satisfied
    BY <1>3 DEF CallsAttributed, EndsEmitted, Satisfied
<1>6. Counted
    <2>1. Ids(functions) = {}
        BY DEF Init, Ids, ToSet
    <2>2. QED
        BY <2>1 DEF Counted
<1>7. QED
    BY <1>1, <1>2, <1>4, <1>5, <1>6 DEF GraphInv

\* The graph is right at every step: the relations between the delta, the indexes of
\* the context and the place of the pipeline that the theorems below rest on.  It holds
\* of programs that embed error or a dot-imported type too: EndsEmitted admits what
\* the code makes of them.
THEOREM GraphSafe == Spec => []GraphInv
<1>1. GraphInv /\ [Next]_vars => GraphInv'
    BY ShapeStep, EmittedStep, AttributionStep, CallsAttributedStep, CountedStep, EndsStep, SatisfiedStep
    DEF GraphInv
<1>2. QED
    BY GraphInit, <1>1, PTL DEF Spec

\* The indexes of the context know the nodes of the delta, and no relationship is in it twice.
THEOREM IndexesAgree == Spec => []TypeOK
<1>1. GraphInv => TypeOK
    BY DEF GraphInv, Shape
<1>2. QED
    BY GraphSafe, <1>1, PTL

\* Who calls by the delta calls, or is the last function of the file before a
\* package variable that does.
THEOREM CallsAreAttributed == Spec => []CallsAttributed
<1>1. GraphInv => CallsAttributed
    BY DEF GraphInv
<1>2. QED
    BY GraphSafe, <1>1, PTL

\* A function has one node, or as many as it has declarations, and no placeholder
\* stands for a function that the request's files declare.
THEOREM NoNodeTwice == Spec => []OneNodePerFunction
<1>1. GraphInv => OneNodePerFunction
    BY CountedNodes DEF GraphInv
<1>2. QED
    BY GraphSafe, <1>1, PTL

\* No structural relationship dangles, whichever files are asked for, and no other of
\* a full request but those that lead out of the packages loaded, that shadow a method
\* the embedded type has by embedding, or that name what is embedded, a predeclared or
\* dot-imported type, after the embedding package.
THEOREM NothingDangles == Spec => []EndsEmitted
<1>1. GraphInv => EndsEmitted
    BY DEF GraphInv
<1>2. QED
    BY GraphSafe, <1>1, PTL

\* A method satisfies an interface's method only if its type satisfies the interface.
THEOREM MethodsWithTheirTypes == Spec => []SatisfiesTogether
<1>1. GraphInv => SatisfiesTogether
    BY Together DEF GraphInv
<1>2. QED
    BY GraphSafe, <1>1, PTL
=============================================================================
