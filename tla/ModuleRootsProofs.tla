------------------------ MODULE ModuleRootsProofs ------------------------
(***************************************************************************)
(* Which module each package is loaded from, for any tree of directories   *)
(* and any go.work, checked by TLAPS.                                      *)
(***************************************************************************)
EXTENDS ModuleRoots, FiniteSetTheorems, SequenceTheorems, TLAPS

---------------------------------------------------------------------------
(* The inductive invariant.                                                *)

\* The list of roots is complete, and what it is made of.
Listed ==
    /\ mods \subseteq Dirs /\ wanted \subseteq Dirs /\ uses \in Seq(Dirs \cup {Gone})
    /\ stage = "uses" => /\ out = <<>> /\ failed = {}
                         /\ ToSet(roots) = {uses[i] : i \in 1..(next - 1)} \ {Gone}
    /\ stage # "uses" =>
          IF Existing # {} THEN ToSet(roots) = Existing
          ELSE FileRoots # {} => ToSet(roots) = FileRoots

\* A package comes from a root that was asked for it, and comes once.
Sourced ==
    /\ \A p \in ToSet(out) : p.package \in Asked(p.root)
    /\ \A i, j \in 1..Len(out) : out[i].package = out[j].package => i = j

\* Every root passed has been skipped, has failed or is loaded.
Passed ==
    /\ stage # "uses" => \A i \in 1..(next - 1) :
           Skipped(roots[i]) \/ roots[i] \in failed \/ OwnPackages(roots[i]) \subseteq Loaded
    /\ stage \in {"done", "error"} => next > Len(roots)
    /\ stage = "error" => out = <<>>

RootsInv == Listed /\ Sourced /\ Passed

---------------------------------------------------------------------------
(* Facts about sets, sequences and the tree of directories.                *)

\* The sequence made of a finite set has each of its elements once.
LEMMA SeqOfSet ==
    ASSUME NEW S, IsFiniteSet(S)
    PROVE  /\ SetToSeq(S) \in Seq(S) /\ Len(SetToSeq(S)) = Cardinality(S)
           /\ ToSet(SetToSeq(S)) = S
           /\ \A i, j \in 1..Len(SetToSeq(S)) : SetToSeq(S)[i] = SetToSeq(S)[j] => i = j
<1> DEFINE n == Cardinality(S)
<1>1. n \in Nat /\ ExistsBijection(1..n, S)
    BY FS_CardinalityType
<1>2. PICK f \in [1..n -> S] : IsInjective(f)
    BY <1>1 DEF ExistsBijection, Bijection, Injection
<1>3. SetToSeq(S) \in [1..n -> S] /\ IsInjective(SetToSeq(S))
    BY <1>2 DEF SetToSeq
<1> HIDE DEF n
<1>4. SetToSeq(S) \in Seq(S) /\ Len(SetToSeq(S)) = n /\ DOMAIN SetToSeq(S) = 1..n
    BY <1>1, <1>3
<1>5. ToSet(SetToSeq(S)) = S
    <2>1. SetToSeq(S) \in Injection(1..n, S) /\ IsFiniteSet(1..n) /\ Cardinality(1..n) = n
        BY <1>1, <1>3, FS_Interval DEF Injection
    <2>2. SetToSeq(S) \in Surjection(1..n, S)
        BY <2>1, FS_Injection DEF n
    <2>3. QED
        BY <1>4, <2>2 DEF Surjection, ToSet
<1>6. QED
    BY <1>3, <1>4, <1>5 DEF IsInjective, n

\* Elements of sequences.
LEMMA Elements ==
    ASSUME NEW S, NEW s \in Seq(S)
    PROVE  /\ ToSet(s) = {s[i] : i \in 1..Len(s)} /\ ToSet(s) \subseteq S
           /\ \A T : ToSet(s) \subseteq T => s \in Seq(T)
           /\ \A x \in S : Append(s, x) \in Seq(S) /\ ToSet(Append(s, x)) = ToSet(s) \cup {x}
<1>1. ToSet(s) = {s[i] : i \in 1..Len(s)} /\ ToSet(s) \subseteq S
    BY DEF ToSet
<1>2. ASSUME NEW T, ToSet(s) \subseteq T PROVE s \in Seq(T)
    BY <1>1, <1>2
<1>3. ASSUME NEW x \in S PROVE Append(s, x) \in Seq(S) /\ ToSet(Append(s, x)) = ToSet(s) \cup {x}
    <2>1. /\ Append(s, x) \in Seq(S) /\ Len(Append(s, x)) = Len(s) + 1 /\ Len(s) \in Nat
          /\ Append(s, x)[Len(s) + 1] = x /\ \A i \in 1..Len(s) : Append(s, x)[i] = s[i]
        OBVIOUS
    <2>2. 1..(Len(s) + 1) = 1..Len(s) \cup {Len(s) + 1}
        BY <2>1
    <2>3. QED
        BY <2>1, <2>2 DEF ToSet
<1>4. QED
    BY <1>1, <1>2, <1>3

\* Of two directories above a third one, one is deeper.
LEMMA Depths ==
    ASSUME NEW d \in Dirs, NEW e \in Above[d], NEW g \in Above[d]
    PROVE  /\ e \in Dirs /\ Cardinality(Above[e]) \in 0..Cardinality(Dirs) /\ Cardinality(Dirs) \in Nat
           /\ Deeper(e, g) => ~Deeper(g, e)
           /\ e # g => Deeper(e, g) \/ Deeper(g, e)
<1>1. e \in Dirs /\ g \in Dirs
    BY ModuleRootsAssumption
<1>2. \A h \in Dirs : /\ IsFiniteSet(Above[h]) /\ Cardinality(Above[h]) \in Nat
                      /\ Cardinality(Above[h]) <= Cardinality(Dirs) /\ Cardinality(Dirs) \in Nat
    <2> SUFFICES ASSUME NEW h \in Dirs
                 PROVE  /\ IsFiniteSet(Above[h]) /\ Cardinality(Above[h]) \in Nat
                        /\ Cardinality(Above[h]) <= Cardinality(Dirs) /\ Cardinality(Dirs) \in Nat
        OBVIOUS
    <2>1. Above[h] \in SUBSET Dirs /\ IsFiniteSet(Dirs)
        BY ModuleRootsAssumption
    <2>2. QED
        BY <2>1, FS_Subset, FS_CardinalityType
<1>3. Deeper(e, g) => ~Deeper(g, e)
    BY <1>1, <1>2 DEF Deeper
<1>4. ASSUME NEW h \in Above[d], NEW k \in Above[d], h # k, h \in Above[k] PROVE Deeper(k, h)
    <2>1. h \in Dirs /\ k \in Dirs
        BY ModuleRootsAssumption
    <2>2. Above[h] \subseteq Above[k] /\ k \in Above[k] /\ k \notin Above[h]
        BY <1>4, <2>1, ModuleRootsAssumption
    <2>3. Cardinality(Above[h]) <= Cardinality(Above[k])
             /\ (Cardinality(Above[k]) = Cardinality(Above[h]) => Above[k] = Above[h])
        BY <1>2, <2>1, <2>2, FS_Subset
    <2>4. QED
        BY <1>2, <2>1, <2>2, <2>3 DEF Deeper
<1>5. e # g => Deeper(e, g) \/ Deeper(g, e)
    BY <1>4, ModuleRootsAssumption
<1>6. QED
    BY <1>1, <1>2, <1>3, <1>5

\* A set of natural numbers has a least one.
LEMMA LeastNumber ==
    ASSUME NEW T \in SUBSET Nat, T # {}
    PROVE  \E n \in T : \A m \in T : n <= m
<1>1. PICK n \in T : \A m \in T : ~ (<<m, n>> \in OpToRel(<, Nat))
    BY NatLessThanWellFounded, WFMin
<1>2. \A m \in T : <<m, n>> \in Nat \X Nat
    OBVIOUS
<1>3. \A m \in T : ~ (m < n)
    BY <1>1, <1>2, Zenon DEF OpToRel
<1>4. QED
    BY <1>3

\* Of some directories above a directory, one is deeper than the others.
LEMMA DeepestExists ==
    ASSUME NEW d \in Dirs, NEW ds \in SUBSET Above[d], ds # {}
    PROVE  Deepest(ds) \in ds /\ \A e \in ds \ {Deepest(ds)} : Deeper(Deepest(ds), e)
<1> DEFINE height(e) == Cardinality(Dirs) - Cardinality(Above[e])
           heights   == {n \in Nat : \E e \in ds : n = height(e)}
<1>1. \A e \in ds : height(e) \in Nat
    BY Depths
<1>2. heights # {} /\ heights \subseteq Nat
    BY <1>1
<1>3. PICK n \in heights : \A m \in heights : n <= m
    <2> HIDE DEF heights
    <2>1. QED
        BY <1>2, LeastNumber
<1>4. PICK e \in ds : n = height(e)
    OBVIOUS
<1>5. \A g \in ds \ {e} : Deeper(e, g)
    <2> SUFFICES ASSUME NEW g \in ds \ {e} PROVE Deeper(e, g)
        OBVIOUS
    <2>1. Cardinality(Above[g]) <= Cardinality(Above[e])
        BY <1>1, <1>3, <1>4, Depths
    <2>2. QED
        BY <2>1, Depths DEF Deeper
<1>6. QED
    BY <1>4, <1>5 DEF Deepest

\* There is only one.
LEMMA DeepestIs ==
    ASSUME NEW d \in Dirs, NEW ds \in SUBSET Above[d], NEW e \in ds,
           \A g \in ds \ {e} : Deeper(e, g)
    PROVE  Deepest(ds) = e
<1>1. Deepest(ds) \in ds /\ \A g \in ds \ {Deepest(ds)} : Deeper(Deepest(ds), g)
    BY DeepestExists
<1>2. QED
    BY <1>1, Depths

\* The nearest module owns its files, whatever other modules are roots.
LEMMA NearestOwns ==
    ASSUME NEW f \in Dirs, mods \subseteq Dirs, Modules(f) # {},
           ToSet(roots) \subseteq mods, Nearest(f) \in ToSet(roots)
    PROVE  \A root : Owns(root, f) <=> root = Nearest(f)
<1> DEFINE around == {r \in ToSet(roots) : Within(r, f)}
<1>1. /\ Modules(f) \in SUBSET Above[f] /\ around \subseteq Modules(f) /\ Nearest(f) \in Modules(f)
      /\ \A e \in Modules(f) \ {Nearest(f)} : Deeper(Nearest(f), e)
    BY DeepestExists DEF Modules, Nearest, Within
<1>2. Nearest(f) \in around /\ Deepest(around) = Nearest(f)
    <2>1. Nearest(f) \in around
        BY <1>1 DEF Modules, Within
    <2>2. QED
        BY <1>1, <2>1, DeepestIs
<1>3. QED
    BY <1>2 DEF Owns

\* One sequence after another.
LEMMA Joining ==
    ASSUME NEW S, NEW s \in Seq(S), NEW t \in Seq(S)
    PROVE  /\ s \o t \in Seq(S) /\ Len(s \o t) = Len(s) + Len(t) /\ Len(s) \in Nat /\ Len(t) \in Nat
           /\ \A i \in 1..Len(s) : (s \o t)[i] = s[i]
           /\ \A i \in (Len(s) + 1)..Len(s \o t) : (s \o t)[i] = t[i - Len(s)] /\ i - Len(s) \in 1..Len(t)
<1> DEFINE u == s \o t
<1>1. u \in Seq(S) /\ Len(u) = Len(s) + Len(t) /\ Len(s) \in Nat /\ Len(t) \in Nat
    BY ConcatProperties
<1>2. \A i \in 1..(Len(s) + Len(t)) : u[i] = IF i <= Len(s) THEN s[i] ELSE t[i - Len(s)]
    BY ConcatProperties
<1> HIDE DEF u
<1>3. \A i \in 1..Len(s) : u[i] = s[i]
    BY <1>1, <1>2
<1>4. \A i \in (Len(s) + 1)..Len(u) : u[i] = t[i - Len(s)] /\ i - Len(s) \in 1..Len(t)
    BY <1>1, <1>2
<1>5. QED
    BY <1>1, <1>3, <1>4 DEF u

\* It has the elements of both.
Follows(u, s, t) ==
    /\ Len(u) = Len(s) + Len(t)
    /\ \A i \in 1..Len(s) : u[i] = s[i]
    /\ \A i \in (Len(s) + 1)..Len(u) : u[i] = t[i - Len(s)] /\ i - Len(s) \in 1..Len(t)

LEMMA Joined ==
    ASSUME NEW S, NEW s \in Seq(S), NEW t \in Seq(S), NEW u \in Seq(S), Follows(u, s, t)
    PROVE  ToSet(u) = ToSet(s) \cup ToSet(t)
<1> USE DEF Follows
<1>1. /\ ToSet(u) = {u[i] : i \in 1..Len(u)} /\ ToSet(s) = {s[i] : i \in 1..Len(s)}
      /\ ToSet(t) = {t[i] : i \in 1..Len(t)} /\ Len(s) \in Nat /\ Len(t) \in Nat
    <2>1. ToSet(u) = {u[i] : i \in 1..Len(u)}
        BY Elements
    <2>2. ToSet(s) = {s[i] : i \in 1..Len(s)} /\ Len(s) \in Nat
        BY Elements
    <2>3. ToSet(t) = {t[i] : i \in 1..Len(t)} /\ Len(t) \in Nat
        BY Elements
    <2>4. QED
        BY <2>1, <2>2, <2>3
<1>2. \A i \in 1..Len(u) : i \in 1..Len(s) \/ i \in (Len(s) + 1)..Len(u)
    BY <1>1
<1>3. ToSet(u) \subseteq ToSet(s) \cup ToSet(t)
    <2> SUFFICES ASSUME NEW i \in 1..Len(u)
                 PROVE  u[i] \in ToSet(s) \cup ToSet(t)
        BY <1>1
    <2>1. CASE i \in 1..Len(s)
        BY <2>1, <1>1
    <2>2. CASE i \in (Len(s) + 1)..Len(u)
        <3>1. u[i] = t[i - Len(s)] /\ i - Len(s) \in 1..Len(t)
            BY <2>2
        <3> DEFINE j == i - Len(s)
        <3>2. u[i] = t[j] /\ j \in 1..Len(t)
            BY <3>1
        <3> HIDE DEF j
        <3>3. QED
            BY <3>2, <1>1
    <2>3. QED
        BY <2>1, <2>2, <1>2
<1>4. \A i \in 1..Len(s) : i \in 1..Len(u)
    BY <1>1
<1>5. ToSet(s) \subseteq ToSet(u)
    BY <1>1, <1>4
<1>6. \A i \in 1..Len(t) : i + Len(s) \in 1..Len(u) /\ u[i + Len(s)] = t[i]
    <2> SUFFICES ASSUME NEW i \in 1..Len(t)
                 PROVE  i + Len(s) \in 1..Len(u) /\ u[i + Len(s)] = t[i]
        OBVIOUS
    <2>1. i + Len(s) \in (Len(s) + 1)..Len(u) /\ (i + Len(s)) - Len(s) = i
             /\ i + Len(s) \in 1..Len(u)
        BY <1>1
    <2>2. QED
        BY <2>1
<1>7. ToSet(t) \subseteq ToSet(u)
    BY <1>1, <1>6
<1>8. QED
    BY <1>3, <1>5, <1>7

\* The two together.
Joint(s, t) == s \o t

LEMMA JoinedIs ==
    ASSUME NEW S, NEW s \in Seq(S), NEW t \in Seq(S)
    PROVE  Joint(s, t) \in Seq(S) /\ ToSet(Joint(s, t)) = ToSet(s) \cup ToSet(t)
<1>1. Joint(s, t) \in Seq(S)
    BY Joining DEF Joint
<1>2. Follows(Joint(s, t), s, t)
    <2> DEFINE u == s \o t
    <2>1. Len(u) = Len(s) + Len(t)
        BY Joining
    <2>2. \A i \in 1..Len(s) : u[i] = s[i]
        BY Joining
    <2>3. \A i \in (Len(s) + 1)..Len(u) : u[i] = t[i - Len(s)] /\ i - Len(s) \in 1..Len(t)
        BY Joining
    <2> HIDE DEF u
    <2>4. Follows(u, s, t)
        BY <2>1, <2>2, <2>3 DEF Follows
    <2>5. QED
        BY <2>4 DEF u, Joint
<1>3. QED
    BY <1>1, <1>2, Joined

---------------------------------------------------------------------------
(* The list of roots.                                                      *)

\* The modules of the files are modules of the project.
LEMMA FileRootsAreModules ==
    ASSUME mods \subseteq Dirs, wanted \subseteq Dirs
    PROVE  FileRoots \subseteq mods /\ IsFiniteSet(FileRoots) /\ IsFiniteSet(OneLevelDown)
<1>1. FileRoots \subseteq mods
    <2> SUFFICES ASSUME NEW f \in wanted, Modules(f) # {} PROVE Nearest(f) \in mods
        BY DEF FileRoots
    <2>1. Modules(f) \in SUBSET Above[f] /\ f \in Dirs
        BY DEF Modules
    <2>2. QED
        BY <2>1, DeepestExists DEF Nearest, Modules
<1>2. FileRoots \in SUBSET Dirs /\ OneLevelDown \in SUBSET Dirs
    BY <1>1 DEF OneLevelDown
<1>3. QED
    BY <1>1, <1>2, FS_Subset, ModuleRootsAssumption

\* Those of go.work if there are any, else those of the files if there are any.
LEMMA RootsFound ==
    ASSUME TypeOK, Listed, stage = "uses", next > Len(uses)
    PROVE  /\ ModuleRootsFound \in Seq(Dirs) /\ ModuleRootsFound # <<>>
           /\ IF Existing # {} THEN ToSet(ModuleRootsFound) = Existing
              ELSE FileRoots # {} => ToSet(ModuleRootsFound) = FileRoots
<1>1. ToSet(roots) = Existing
    <2>1. next - 1 = Len(uses) /\ uses \in Seq(Dirs \cup {Gone})
        BY DEF TypeOK
    <2>2. ToSet(uses) = {uses[i] : i \in 1..(next - 1)}
        BY <2>1, Elements
    <2>3. QED
        BY <2>2 DEF Listed, Existing
<1>2. \A s \in Seq(Dirs) : s = <<>> <=> ToSet(s) = {}
    <2> SUFFICES ASSUME NEW s \in Seq(Dirs) PROVE s = <<>> <=> ToSet(s) = {}
        OBVIOUS
    <2>1. s # <<>> => 1 \in 1..Len(s)
        OBVIOUS
    <2>2. QED
        BY <2>1, Elements
<1>3. CASE roots # <<>>
    BY <1>1, <1>2, <1>3 DEF ModuleRootsFound, TypeOK
<1>4. CASE roots = <<>> /\ FileRoots # {}
    <2>1. FileRoots \subseteq Dirs /\ IsFiniteSet(FileRoots)
        BY FileRootsAreModules DEF Listed
    <2>2. SetToSeq(FileRoots) \in Seq(Dirs) /\ ToSet(SetToSeq(FileRoots)) = FileRoots
        BY <2>1, SeqOfSet, Elements
    <2>3. ModuleRootsFound = SetToSeq(FileRoots)
        BY <1>4 DEF ModuleRootsFound
    <2>4. QED
        BY <1>1, <1>2, <1>4, <2>2, <2>3 DEF TypeOK
<1>5. CASE roots = <<>> /\ FileRoots = {} /\ (Top \in mods \/ OneLevelDown = {})
    <2>1. ModuleRootsFound = <<Top>>
        BY <1>5 DEF ModuleRootsFound
    <2>2. <<Top>> \in Seq(Dirs) /\ <<Top>> # <<>>
        BY ModuleRootsAssumption
    <2>3. Existing = {}
        BY <1>1, <1>2, <1>5 DEF TypeOK
    <2>4. QED
        BY <1>5, <2>1, <2>2, <2>3
<1>6. CASE roots = <<>> /\ FileRoots = {} /\ ~(Top \in mods \/ OneLevelDown = {})
    <2>1. OneLevelDown \subseteq Dirs /\ IsFiniteSet(OneLevelDown)
        BY FileRootsAreModules DEF Listed, OneLevelDown
    <2>2. SetToSeq(OneLevelDown) \in Seq(Dirs) /\ ToSet(SetToSeq(OneLevelDown)) = OneLevelDown
        BY <2>1, SeqOfSet, Elements
    <2>3. ModuleRootsFound = SetToSeq(OneLevelDown)
        BY <1>6 DEF ModuleRootsFound
    <2>4. QED
        BY <1>1, <1>2, <1>6, <2>2, <2>3 DEF TypeOK
<1>7. QED
    BY <1>3, <1>4, <1>5, <1>6

---------------------------------------------------------------------------
(* Loading a root.                                                         *)

\* What loading the current root adds: each fresh package once, from that root.
LEMMA Adds ==
    ASSUME TypeOK, NEW found \in SUBSET Dirs, LoadRoot(found)
    PROVE  LET new == SetToSeq([package : Fresh(found), root : {Current}]) IN
           /\ Current \in ToSet(roots) /\ Current \in Dirs
           /\ new \in Seq([package : Dirs, root : ToSet(roots)])
           /\ ToSet(new) = [package : Fresh(found), root : {Current}]
           /\ \A i, j \in 1..Len(new) : new[i].package = new[j].package => i = j
           /\ out' = out \o new
<1> DEFINE R   == [package : Fresh(found), root : {Current}]
           new == SetToSeq(R)
<1>1. Current \in ToSet(roots) /\ ToSet(roots) \subseteq Dirs
    <2>1. next \in 1..Len(roots) /\ roots \in Seq(Dirs)
        BY DEF LoadRoot, More, TypeOK
    <2>2. QED
        BY <2>1, Elements DEF Current
<1>2. R \subseteq [package : Dirs, root : ToSet(roots)]
    BY <1>1 DEF Fresh
<1>3. IsFiniteSet(R)
    <2>1. IsFiniteSet(Fresh(found))
        <3>1. Fresh(found) \in SUBSET Dirs
            BY DEF Fresh
        <3>2. QED
            BY <3>1, FS_Subset, ModuleRootsAssumption
    <2> DEFINE packageOf == [r \in R |-> r.package]
    <2>2. packageOf \in [R -> Fresh(found)]
        OBVIOUS
    <2>3. \A r, q \in R : r.package = q.package => r = q
        OBVIOUS
    <2>4. packageOf \in Injection(R, Fresh(found))
        BY <2>2, <2>3 DEF Injection, IsInjective
    <2> HIDE DEF packageOf, R
    <2>5. QED
        BY <2>1, <2>4, FS_Injection
<1>4. /\ new \in Seq(R) /\ ToSet(new) = R
      /\ \A i, j \in 1..Len(new) : new[i] = new[j] => i = j
    BY <1>3, SeqOfSet
<1> HIDE DEF new, R
<1>5. new \in Seq([package : Dirs, root : ToSet(roots)])
    BY <1>2, <1>4, Elements
<1>6. \A i, j \in 1..Len(new) : new[i].package = new[j].package => i = j
    <2>1. \A i \in 1..Len(new) : new[i] \in R
        BY <1>4
    <2>2. \A r, q \in R : r.package = q.package => r = q
        BY DEF R
    <2>3. QED
        BY <1>4, <2>1, <2>2
<1>7. out' = out \o new
    BY DEF LoadRoot, new, R
<1>8. Current \in Dirs
    BY <1>1
<1>9. QED
    BY <1>1, <1>4, <1>5, <1>6, <1>7, <1>8 DEF new, R

\* Loading keeps what was loaded, and has what was found.
LEMMA LoadedGrows ==
    ASSUME TypeOK, NEW found \in SUBSET Dirs, LoadRoot(found)
    PROVE  /\ out' \in Seq([package : Dirs, root : ToSet(roots)])
           /\ ToSet(out') = ToSet(out) \cup [package : Fresh(found), root : {Current}]
           /\ Loaded' = Loaded \cup found
<1> DEFINE new == SetToSeq([package : Fresh(found), root : {Current}])
           E   == [package : Dirs, root : ToSet(roots)]
<1>1. /\ new \in Seq(E) /\ out' = out \o new /\ out \in Seq(E)
      /\ ToSet(new) = [package : Fresh(found), root : {Current}]
    BY Adds DEF TypeOK
<1> HIDE DEF new, E
<1>2. out' \in Seq(E) /\ ToSet(out') = ToSet(out) \cup ToSet(new)
    <2>1. out' = Joint(out, new)
        BY <1>1 DEF Joint
    <2>2. out \in Seq(E) /\ new \in Seq(E)
        BY <1>1
    <2>3. QED
        BY <2>1, <2>2, JoinedIs
<1>3. Loaded' = Loaded \cup Fresh(found)
    <2>1. Loaded' = {p.package : p \in ToSet(out')}
        BY DEF Loaded
    <2>2. \A p \in [package : Fresh(found), root : {Current}] : p.package \in Fresh(found)
        OBVIOUS
    <2>3. \A d \in Fresh(found) : \E p \in [package : Fresh(found), root : {Current}] : p.package = d
        <3> SUFFICES ASSUME NEW d \in Fresh(found)
                     PROVE  \E p \in [package : Fresh(found), root : {Current}] : p.package = d
            OBVIOUS
        <3>1. WITNESS [package |-> d, root |-> Current] \in [package : Fresh(found), root : {Current}]
        <3>2. QED
            OBVIOUS
    <2>4. QED
        BY <1>1, <1>2, <2>1, <2>2, <2>3 DEF Loaded
<1>4. QED
    BY <1>1, <1>2, <1>3 DEF Fresh, Loaded, E

\* Every step keeps the types.
LEMMA TypeStep == TypeOK /\ Listed /\ [Next]_vars => TypeOK'
<1> SUFFICES ASSUME TypeOK, Listed, [Next]_vars PROVE TypeOK'
    OBVIOUS
<1> USE DEF project
<1>1. CASE FilterUse
    <2>1. uses[next] # Gone => uses[next] \in Dirs
        BY <1>1 DEF FilterUse, TypeOK
    <2>2. roots' \in Seq(Dirs)
        BY <1>1, <2>1, Elements DEF FilterUse, TypeOK
    <2>3. next' \in 1..(Len(uses) + 1)
        BY <1>1 DEF FilterUse, TypeOK
    <2>4. out' \in Seq([package : Dirs, root : ToSet(roots')]) /\ failed' \subseteq ToSet(roots')
        BY <1>1 DEF FilterUse, Listed
    <2>5. QED
        BY <1>1, <2>2, <2>3, <2>4 DEF FilterUse, TypeOK
<1>2. CASE FindRoots
    <2>1. roots' \in Seq(Dirs) /\ roots' # <<>> /\ next' = 1 /\ stage' = "load" /\ out' = <<>> /\ failed' = {}
        BY <1>2, RootsFound DEF FindRoots, Listed
    <2>2. next' \in 1..(Len(roots') + 1)
        BY <2>1
    <2>3. out' \in Seq([package : Dirs, root : ToSet(roots')])
        BY <2>1
    <2>4. QED
        BY <1>2, <2>1, <2>2, <2>3 DEF FindRoots, TypeOK
<1>3. CASE SkipRoot \/ LoadFails
    <2>1. next \in 1..Len(roots) /\ roots \in Seq(Dirs) /\ stage = "load" /\ next' = next + 1
        BY <1>3 DEF SkipRoot, LoadFails, More, TypeOK
    <2>2. next' \in 1..(Len(roots) + 1) /\ Current \in ToSet(roots)
        BY <2>1, Elements DEF Current
    <2>3. QED
        BY <1>3, <2>1, <2>2 DEF SkipRoot, LoadFails, TypeOK
<1>4. ASSUME NEW found \in SUBSET Dirs, LoadRoot(found) PROVE TypeOK'
    <2>1. next \in 1..Len(roots) /\ stage = "load" /\ next' = next + 1
        BY <1>4 DEF LoadRoot, More, TypeOK
    <2>2. next' \in 1..(Len(roots) + 1)
        BY <2>1 DEF TypeOK
    <2>3. out' \in Seq([package : Dirs, root : ToSet(roots)])
        BY <1>4, LoadedGrows
    <2>4. QED
        BY <1>4, <2>1, <2>2, <2>3 DEF LoadRoot, TypeOK
<1>5. CASE Ends \/ Finished \/ UNCHANGED vars
    BY <1>5 DEF Ends, Finished, vars, TypeOK
<1>6. QED
    BY <1>1, <1>2, <1>3, <1>4, <1>5 DEF Next

---------------------------------------------------------------------------
(* The inductive invariant.                                                *)

\* Initially no entry of go.work has been looked at.
LEMMA InitInv == Init => TypeOK /\ RootsInv
<1> SUFFICES ASSUME Init PROVE TypeOK /\ RootsInv
    OBVIOUS
<1>1. /\ mods \subseteq Dirs /\ wanted \subseteq Dirs /\ stage = "uses" /\ next = 1
      /\ roots = <<>> /\ out = <<>> /\ failed = {}
    BY DEF Init
<1>2. uses \in Seq(Dirs \cup {Gone})
    <2>1. PICK n \in 0..MaxUses : uses \in [1..n -> Dirs \cup {Gone}]
        BY DEF Init
    <2>2. n \in Nat
        BY ModuleRootsAssumption
    <2>3. QED
        BY <2>1, <2>2
<1>3. roots \in Seq(Dirs) /\ out \in Seq([package : Dirs, root : ToSet(roots)])
    BY <1>1
<1>4. ToSet(roots) = {} /\ ToSet(out) = {}
    BY <1>1 DEF ToSet
<1>5. next \in 1..(Len(uses) + 1)
    BY <1>1, <1>2
<1>6. TypeOK
    BY <1>1, <1>2, <1>3, <1>5 DEF TypeOK
<1>7. 1..(next - 1) = {}
    BY <1>1
<1>8. RootsInv
    BY <1>1, <1>2, <1>4, <1>7 DEF RootsInv, Listed, Sourced, Passed
<1>9. QED
    BY <1>6, <1>8

\* A step that leaves the project and the list of roots alone leaves alone what
\* each root is asked for.
LEMMA SameQuestions ==
    ASSUME UNCHANGED <<mods, uses, wanted, roots>>
    PROVE  /\ UNCHANGED <<Existing, FileRoots, ToSet(roots)>>
           /\ \A r : Skipped(r)' = Skipped(r) /\ Asked(r)' = Asked(r)
                        /\ OwnPackages(r)' = OwnPackages(r)
BY DEF Existing, FileRoots, Nearest, Modules, Skipped, FilesFor, Owns, Asked, OwnPackages

\* Every step keeps what the list of roots is made of.
LEMMA ListedStep == TypeOK /\ RootsInv /\ [Next]_vars => Listed'
<1> SUFFICES ASSUME TypeOK, Listed, [Next]_vars PROVE Listed'
    BY DEF RootsInv
<1> USE DEF project
<1>1. CASE FilterUse
    <2>1. next \in 1..Len(uses) /\ uses \in Seq(Dirs \cup {Gone})
        BY <1>1 DEF FilterUse, TypeOK
    <2>2. ToSet(roots') = ToSet(roots) \cup ({uses[next]} \ {Gone})
        <3>1. CASE uses[next] = Gone
            BY <1>1, <3>1 DEF FilterUse
        <3>2. CASE uses[next] # Gone
            <4>1. uses[next] \in Dirs /\ roots' = Append(roots, uses[next]) /\ roots \in Seq(Dirs)
                BY <1>1, <2>1, <3>2 DEF FilterUse, TypeOK
            <4>2. QED
                BY <3>2, <4>1, Elements
        <3>3. QED
            BY <3>1, <3>2
    <2>3. 1..(next' - 1) = 1..(next - 1) \cup {next}
        BY <1>1, <2>1 DEF FilterUse
    <2>4. QED
        BY <1>1, <2>2, <2>3 DEF FilterUse, Listed
<1>2. CASE FindRoots
    <2>1. IF Existing # {} THEN ToSet(roots') = Existing
          ELSE FileRoots # {} => ToSet(roots') = FileRoots
        BY <1>2, RootsFound DEF FindRoots
    <2>2. UNCHANGED <<mods, uses, wanted>> /\ stage' = "load"
        BY <1>2 DEF FindRoots
    <2>3. Existing' = Existing /\ FileRoots' = FileRoots
        BY <2>2 DEF Existing, FileRoots, Nearest, Modules
    <2>4. QED
        BY <2>1, <2>2, <2>3 DEF Listed
<1>3. CASE SkipRoot \/ LoadFails \/ (\E found \in SUBSET Dirs : LoadRoot(found)) \/ Ends
    <2>1. UNCHANGED <<mods, uses, wanted, roots>> /\ stage # "uses" /\ stage' # "uses"
        BY <1>3 DEF SkipRoot, LoadFails, LoadRoot, Ends, More
    <2>2. QED
        BY <2>1, SameQuestions DEF Listed
<1>4. CASE Finished \/ UNCHANGED vars
    <2>1. UNCHANGED <<mods, uses, wanted, stage, roots, next, out, failed>>
        BY <1>4 DEF Finished, vars
    <2>2. QED
        BY <2>1, SameQuestions DEF Listed
<1>5. QED
    BY <1>1, <1>2, <1>3, <1>4 DEF Next

\* Every step keeps the packages apart, and from roots asked for them.
LEMMA SourcedStep == TypeOK /\ RootsInv /\ [Next]_vars => Sourced'
<1> SUFFICES ASSUME TypeOK, Listed, Sourced, [Next]_vars PROVE Sourced'
    BY DEF RootsInv
<1> USE DEF project
<1>1. CASE FilterUse \/ FindRoots
    <2>1. out' = <<>>
        BY <1>1 DEF FilterUse, FindRoots, Listed
    <2>2. ToSet(out') = {} /\ Len(out') = 0
        BY <2>1 DEF ToSet
    <2>3. QED
        BY <2>2 DEF Sourced
<1>2. CASE SkipRoot \/ LoadFails \/ Ends \/ Finished \/ UNCHANGED vars
    <2>1. UNCHANGED <<mods, uses, wanted, roots, out>>
        BY <1>2 DEF SkipRoot, LoadFails, Ends, Finished, vars
    <2>2. QED
        BY <2>1, SameQuestions DEF Sourced
<1>3. ASSUME NEW found \in SUBSET Dirs, LoadRoot(found) PROVE Sourced'
    <2>1. UNCHANGED <<mods, uses, wanted, roots>> /\ found \subseteq Asked(Current)
        BY <1>3 DEF LoadRoot
    <2>2. ASSUME NEW p \in ToSet(out') PROVE p.package \in Asked(p.root)
        <3>1. CASE p \in ToSet(out)
            BY <3>1 DEF Sourced
        <3>2. CASE p \in [package : Fresh(found), root : {Current}]
            <4>1. p.package \in Fresh(found) /\ p.root = Current
                BY <3>2
            <4>2. QED
                BY <2>1, <4>1 DEF Fresh
        <3>3. QED
            BY <1>3, <2>2, <3>1, <3>2, LoadedGrows
    <2> DEFINE new == SetToSeq([package : Fresh(found), root : {Current}])
               E   == [package : Dirs, root : ToSet(roots)]
    <2>3. /\ out \in Seq(E) /\ new \in Seq(E) /\ out' = out \o new
          /\ ToSet(new) = [package : Fresh(found), root : {Current}]
          /\ \A i, j \in 1..Len(new) : new[i].package = new[j].package => i = j
        BY <1>3, Adds DEF TypeOK
    <2> HIDE DEF new, E
    <2>4. /\ Len(out) \in Nat
          /\ \A i \in 1..Len(out) : out'[i] = out[i]
          /\ \A i \in (Len(out) + 1)..Len(out') : out'[i] = new[i - Len(out)]
                                                  /\ i - Len(out) \in 1..Len(new)
        BY <2>3, Joining
    <2>5. \A i \in 1..Len(out) : out[i].package \in Loaded
        BY <2>3, Elements DEF Loaded
    <2>6. \A i \in 1..Len(new) : new[i].package \notin Loaded
        <3>1. \A p \in ToSet(new) : p.package \in Fresh(found)
            BY <2>3
        <3>2. \A i \in 1..Len(new) : new[i] \in ToSet(new)
            BY <2>3 DEF ToSet
        <3>3. QED
            BY <3>1, <3>2 DEF Fresh, Loaded
    <2>7. ASSUME NEW i \in 1..Len(out'), NEW j \in 1..Len(out'), out'[i].package = out'[j].package
          PROVE  i = j
        <3>1. CASE i \in 1..Len(out) /\ j \in 1..Len(out)
            BY <2>4, <2>7, <3>1 DEF Sourced
        <3>2. CASE i \in 1..Len(out) /\ j \notin 1..Len(out)
            <4>1. j \in (Len(out) + 1)..Len(out')
                BY <2>4, <3>2
            <4>2. QED
                BY <2>4, <2>5, <2>6, <2>7, <3>2, <4>1
        <3>3. CASE i \notin 1..Len(out) /\ j \in 1..Len(out)
            <4>1. i \in (Len(out) + 1)..Len(out')
                BY <2>4, <3>3
            <4>2. QED
                BY <2>4, <2>5, <2>6, <2>7, <3>3, <4>1
        <3>4. CASE i \notin 1..Len(out) /\ j \notin 1..Len(out)
            <4>1. i \in (Len(out) + 1)..Len(out') /\ j \in (Len(out) + 1)..Len(out')
                BY <2>4, <3>4
            <4>2. /\ i - Len(out) \in 1..Len(new) /\ j - Len(out) \in 1..Len(new)
                  /\ new[i - Len(out)].package = new[j - Len(out)].package
                BY <2>4, <2>7, <4>1
            <4>3. i - Len(out) = j - Len(out)
                BY <2>3, <4>2
            <4>4. QED
                BY <2>4, <4>3
        <3>5. QED
            BY <3>1, <3>2, <3>3, <3>4
    <2>8. QED
        BY <2>1, <2>2, <2>7, SameQuestions DEF Sourced
<1>4. QED
    BY <1>1, <1>2, <1>3 DEF Next

\* Every step keeps that no root is passed without its packages.
LEMMA PassedStep == TypeOK /\ RootsInv /\ [Next]_vars => Passed'
<1> SUFFICES ASSUME TypeOK, Passed, [Next]_vars PROVE Passed'
    BY DEF RootsInv
<1> USE DEF project
<1>1. CASE FilterUse
    BY <1>1 DEF FilterUse, Passed
<1>2. CASE FindRoots
    <2>1. stage' = "load" /\ 1..(next' - 1) = {}
        BY <1>2 DEF FindRoots
    <2>2. QED
        BY <2>1 DEF Passed
<1>3. ASSUME SkipRoot \/ LoadFails \/ \E found \in SUBSET Dirs : LoadRoot(found) PROVE Passed'
    <2>1. /\ UNCHANGED <<mods, uses, wanted, roots, stage>> /\ stage = "load"
          /\ next' = next + 1 /\ next \in Nat \ {0}
        <3>1. UNCHANGED <<mods, uses, wanted, roots, stage>> /\ More /\ next' = next + 1
            BY <1>3 DEF SkipRoot, LoadFails, LoadRoot
        <3>2. stage = "load" /\ roots \in Seq(Dirs) /\ next \in 1..(Len(roots) + 1)
            BY <3>1 DEF More, TypeOK
        <3>3. QED
            BY <3>1, <3>2
    <2>2. 1..(next' - 1) = 1..(next - 1) \cup {next} /\ Current = roots[next]
        BY <2>1 DEF Current
    <2>3. failed \subseteq failed' /\ Loaded \subseteq Loaded'
        <3>1. CASE SkipRoot \/ LoadFails
            BY <3>1 DEF SkipRoot, LoadFails, Loaded
        <3>2. CASE \E found \in SUBSET Dirs : LoadRoot(found)
            <4>1. Loaded \subseteq Loaded'
                BY <3>2, LoadedGrows
            <4>2. UNCHANGED failed
                BY <3>2 DEF LoadRoot
            <4>3. QED
                BY <4>1, <4>2
        <3>3. QED
            BY <1>3, <3>1, <3>2
    <2>4. Skipped(Current) \/ Current \in failed' \/ OwnPackages(Current) \subseteq Loaded'
        <3>1. CASE SkipRoot \/ LoadFails
            BY <3>1 DEF SkipRoot, LoadFails
        <3>2. CASE \E found \in SUBSET Dirs : LoadRoot(found)
            <4>1. PICK found \in SUBSET Dirs : LoadRoot(found)
                BY <3>2
            <4>2. Loaded' = Loaded \cup found
                BY <4>1, LoadedGrows
            <4>3. OwnPackages(Current) \subseteq found
                BY <4>1 DEF LoadRoot
            <4>4. QED
                BY <4>2, <4>3
        <3>3. QED
            BY <1>3, <3>1, <3>2
    <2>5. ASSUME NEW i \in 1..(next' - 1)
          PROVE  Skipped(roots[i]) \/ roots[i] \in failed' \/ OwnPackages(roots[i]) \subseteq Loaded'
        BY <2>1, <2>2, <2>3, <2>4 DEF Passed
    <2>6. QED
        BY <2>1, <2>5, SameQuestions DEF Passed
<1>4. CASE Ends \/ Finished \/ UNCHANGED vars
    <2>1. UNCHANGED <<mods, uses, wanted, roots, next, out, failed>>
        BY <1>4 DEF Ends, Finished, vars
    <2>2. Loaded' = Loaded
        BY <2>1 DEF Loaded
    <2>3. /\ stage' # "uses" => stage # "uses"
          /\ stage' \in {"done", "error"} => next > Len(roots)
          /\ stage' = "error" => out = <<>>
        BY <1>4 DEF Ends, Rejects, Finished, vars, Passed
    <2>4. QED
        BY <2>1, <2>2, <2>3, SameQuestions DEF Passed
<1>5. QED
    BY <1>1, <1>2, <1>3, <1>4 DEF Next

---------------------------------------------------------------------------
(* The theorems.                                                           *)

\* The list of roots, what is loaded from each and what is passed keep together,
\* for any tree of directories, any modules in it and any go.work.
THEOREM RootsSafe == Spec => [](TypeOK /\ RootsInv)
<1>1. TypeOK /\ RootsInv /\ [Next]_vars => (TypeOK /\ RootsInv)'
    BY TypeStep, ListedStep, SourcedStep, PassedStep DEF RootsInv
<1>2. QED
    BY InitInv, <1>1, PTL DEF Spec

\* The list of roots is never empty when loading begins, and packages come from
\* its elements.
THEOREM TypeCorrect == Spec => []TypeOK
BY RootsSafe, PTL

\* A file is asked of one module at most, and no package is loaded twice.
THEOREM EachFileHasOneOwner == Spec => []OneOwner
<1>1. ASSUME TypeOK, RootsInv PROVE OneOwner
    <2>1. ASSUME NEW f \in wanted PROVE Cardinality({roots[i] : i \in Requests(f)}) <= 1
        <3> DEFINE owner == Deepest({r \in ToSet(roots) : Within(r, f)})
        <3>1. {roots[i] : i \in Requests(f)} \in SUBSET {owner}
            BY DEF Requests, FilesFor, Owns
        <3>2. IsFiniteSet({owner}) /\ Cardinality({owner}) = 1
            BY FS_Singleton
        <3> HIDE DEF owner
        <3>3. QED
            BY <3>1, <3>2, FS_Subset
    <2>2. Len(out) = Cardinality(Loaded)
        <3> DEFINE E         == [package : Dirs, root : ToSet(roots)]
                   packageOf == [i \in 1..Len(out) |-> out[i].package]
        <3>1. out \in Seq(E) /\ Len(out) \in Nat
            BY <1>1 DEF TypeOK
        <3> HIDE DEF E
        <3>2. Loaded = {out[i].package : i \in 1..Len(out)}
            BY <3>1, Elements DEF Loaded
        <3>3. packageOf \in [1..Len(out) -> Loaded] /\ IsInjective(packageOf)
            BY <1>1, <3>2 DEF RootsInv, Sourced, IsInjective
        <3>4. \A d \in Loaded : \E i \in 1..Len(out) : packageOf[i] = d
            BY <3>2
        <3>5. packageOf \in Bijection(1..Len(out), Loaded)
            BY <3>3, <3>4 DEF Bijection, Injection, Surjection
        <3> HIDE DEF packageOf
        <3>6. ExistsBijection(1..Len(out), Loaded)
            BY <3>5 DEF ExistsBijection
        <3>7. QED
            BY <3>1, <3>6, FS_CountingElements
    <2>3. QED
        BY <2>1, <2>2 DEF OneOwner
<1>2. QED
    BY RootsSafe, <1>1, PTL

\* A wanted file of a module that loads is loaded from its nearest module, unless
\* go.work lists a directory without a go.mod.
THEOREM WantedFilesAreLoaded == Spec => []FilesLoaded
<1>1. ASSUME TypeOK, RootsInv PROVE FilesLoaded
    <2> SUFFICES ASSUME stage \in {"done", "error"}, NEW f \in wanted, Modules(f) # {},
                        Existing \subseteq mods, Existing # {} => Nearest(f) \in Existing, Nearest(f) \notin failed
                 PROVE  stage = "done" /\ \E p \in ToSet(out) : p.package = f /\ p.root = Nearest(f)
        BY DEF FilesLoaded
    <2>1. /\ mods \subseteq Dirs /\ wanted \subseteq Dirs /\ f \in Dirs /\ stage # "uses"
          /\ roots \in Seq(Dirs)
        BY <1>1 DEF RootsInv, Listed, TypeOK
    <2>2. Nearest(f) \in FileRoots
        BY DEF FileRoots
    <2>3. ToSet(roots) \subseteq mods /\ Nearest(f) \in ToSet(roots)
        <3>1. CASE Existing # {}
            <4>1. ToSet(roots) = Existing
                BY <1>1, <2>1, <3>1 DEF RootsInv, Listed
            <4>2. QED
                BY <3>1, <4>1
        <3>2. CASE Existing = {}
            <4>1. ToSet(roots) = FileRoots
                BY <1>1, <2>1, <2>2, <3>2 DEF RootsInv, Listed
            <4>2. QED
                BY <2>1, <2>2, <4>1, FileRootsAreModules
        <3>3. QED
            BY <3>1, <3>2
    <2>4. \A root : Owns(root, f) <=> root = Nearest(f)
        BY <2>1, <2>3, NearestOwns
    <2>5. PICK i \in 1..Len(roots) : roots[i] = Nearest(f)
        BY <2>1, <2>3, Elements
    <2>6. i \in 1..(next - 1)
        BY <1>1 DEF RootsInv, Passed, TypeOK
    <2>7. f \in FilesFor(Nearest(f)) /\ ~Skipped(Nearest(f))
        BY <2>4 DEF FilesFor, Skipped
    <2>8. OwnPackages(Nearest(f)) \subseteq Loaded
        BY <1>1, <2>1, <2>5, <2>6, <2>7 DEF RootsInv, Passed
    <2>9. f \in OwnPackages(Nearest(f))
        BY <2>7 DEF OwnPackages, Asked
    <2>10. PICK p \in ToSet(out) : p.package = f
        BY <2>8, <2>9 DEF Loaded
    <2>11. f \in Asked(p.root)
        BY <1>1, <2>10 DEF RootsInv, Sourced
    <2>12. p.root = Nearest(f)
        BY <2>4, <2>11 DEF Asked, FilesFor
    <2>13. out # <<>>
        BY <2>10 DEF ToSet
    <2>14. stage = "done"
        BY <1>1, <2>13 DEF RootsInv, Passed
    <2>15. QED
        BY <2>10, <2>12, <2>14
<1>2. QED
    BY RootsSafe, <1>1, PTL

\* A full request on a workspace has every package of every module that loads.
THEOREM ListedModulesAreLoaded == Spec => []ListedLoaded
<1>1. ASSUME TypeOK, RootsInv PROVE ListedLoaded
    <2> SUFFICES ASSUME stage \in {"done", "error"}, wanted = {}, NEW d \in Existing, d \notin failed
                 PROVE  OwnPackages(d) \subseteq Loaded
        BY DEF ListedLoaded
    <2>1. ToSet(roots) = Existing /\ stage # "uses" /\ roots \in Seq(Dirs)
        BY <1>1 DEF RootsInv, Listed, TypeOK
    <2>2. PICK i \in 1..Len(roots) : roots[i] = d
        BY <2>1, Elements
    <2>3. i \in 1..(next - 1)
        BY <1>1 DEF RootsInv, Passed, TypeOK
    <2>4. ~Skipped(d)
        BY DEF Skipped
    <2>5. QED
        BY <1>1, <2>1, <2>2, <2>3, <2>4 DEF RootsInv, Passed
<1>2. QED
    BY RootsSafe, <1>1, PTL
=============================================================================
