-------------------------- MODULE PositionsProofs --------------------------
(***************************************************************************)
(* The conversion of columns is exact both ways, for files of any length   *)
(* and any mix of runes, checked by TLAPS.                                 *)
(***************************************************************************)
EXTENDS Positions, FiniteSetTheorems, SequenceTheorems, TLAPS

---------------------------------------------------------------------------
(* The inductive invariant.                                                *)

\* sourceLine has counted the line feeds before start, and is right after one.
Counted ==
    stage = "line" =>
        /\ Before(start + 1) = current - 1 /\ (start > 0 => contents[start] = "lf")
        /\ (line >= 1 => current <= line) /\ rune = 0

\* The line that is found is the one asked for.
Found ==
    /\ stage \in {"convert", "scan", "done"} => LineExists /\ text = LineText
    /\ stage = "error" /\ LineExists => text = LineText

\* The scan adds up the units of the runes passed, and passes none needlessly.
Scanned ==
    /\ units = UnitsIn(text, rune)
    /\ \A k \in 0..Len(text) : k < rune => UnitsIn(text, k) < character
    /\ stage = "convert" => rune = 0

\* A query is scanned for the units its own column was converted to.
Converted ==
    way = "query" =>
        /\ stage \in {"line", "convert"} => character = 0
        /\ stage \in {"scan", "done"} => ~Outside(column - 1) /\ character = ToUTF16(column - 1)
        /\ stage = "error" /\ LineExists => Outside(column - 1) \/ character = ToUTF16(column - 1)

\* How the scan ends.
Ended ==
    /\ stage = "convert" => way = "query"
    /\ stage = "done" => units = character
    /\ stage = "error" /\ LineExists =>
          \/ way = "query" /\ Outside(column - 1)
          \/ units # character /\ (rune < Len(text) => units > character)

ColumnsInv == Counted /\ Found /\ Scanned /\ Converted /\ Ended

---------------------------------------------------------------------------
(* Numbers.                                                                *)

\* A set of natural numbers has a least one.
LEMMA LeastNumber ==
    ASSUME NEW T \in SUBSET Nat, T # {}
    PROVE  Min(T) \in T /\ \A m \in T : Min(T) <= m
<1>1. PICK n \in T : \A m \in T : ~ (<<m, n>> \in OpToRel(<, Nat))
    BY NatLessThanWellFounded, WFMin
<1>2. \A m \in T : <<m, n>> \in Nat \X Nat
    OBVIOUS
<1>3. \A m \in T : ~ (m < n)
    BY <1>1, <1>2, Zenon DEF OpToRel
<1>4. \A m \in T : n <= m
    BY <1>3
<1>5. QED
    BY <1>4 DEF Min

\* Up to a bound it has a greatest one.
LEMMA GreatestNumber ==
    ASSUME NEW n \in Nat, NEW T \in SUBSET (0..n), T # {}
    PROVE  Max(T) \in T /\ \A m \in T : m <= Max(T)
<1> DEFINE below == {i \in 0..n : n - i \in T}
<1>1. below \in SUBSET Nat /\ below # {}
    <2>1. PICK t \in T : TRUE
        OBVIOUS
    <2>2. n - t \in 0..n /\ n - (n - t) = t
        OBVIOUS
    <2>3. QED
        BY <2>1, <2>2
<1> DEFINE least == Min(below)
<1>2. least \in below /\ \A m \in below : least <= m
    <2> HIDE DEF below
    <2>1. QED
        BY <1>1, LeastNumber
<1> HIDE DEF least
<1>3. n - least \in T
    BY <1>2
<1>4. ASSUME NEW m \in T PROVE m <= n - least
    <2>1. n - m \in 0..n /\ n - (n - m) = m
        OBVIOUS
    <2>2. n - m \in below
        BY <2>1
    <2>3. QED
        BY <1>2, <2>2
<1>5. QED
    BY <1>3, <1>4 DEF Max

---------------------------------------------------------------------------
(* Sizes.                                                                  *)

\* The numbers up to k are k.
LEMMA Span ==
    ASSUME NEW k \in Nat
    PROVE  IsFiniteSet(1..k) /\ Cardinality(1..k) = k
<1>1. 1 \in Int /\ k \in Int
    OBVIOUS
<1>2. IsFiniteSet(1..k) /\ Cardinality(1..k) = IF 1 > k THEN 0 ELSE k - 1 + 1
    BY <1>1, FS_Interval
<1>3. QED
    BY <1>2

\* Cardinalities of sets that are disjoint, and of one within another.
LEMMA DisjointSum ==
    ASSUME NEW S, NEW T, IsFiniteSet(S), IsFiniteSet(T), S \cap T = {}
    PROVE  IsFiniteSet(S \cup T) /\ Cardinality(S \cup T) = Cardinality(S) + Cardinality(T)
<1>1. Cardinality(S) \in Nat /\ Cardinality(T) \in Nat /\ Cardinality(S \cap T) = 0
    BY FS_CardinalityType, FS_EmptySet
<1>2. IsFiniteSet(S \cup T)
         /\ Cardinality(S \cup T) = Cardinality(S) + Cardinality(T) - Cardinality(S \cap T)
    BY FS_Union
<1>3. QED
    BY <1>1, <1>2

LEMMA Within ==
    ASSUME NEW T, IsFiniteSet(T), NEW S \in SUBSET T
    PROVE  /\ IsFiniteSet(S) /\ Cardinality(S) \in 0..Cardinality(T) /\ Cardinality(T) \in Nat
           /\ \A x \in T : x \notin S => Cardinality(S) < Cardinality(T)
<1>1. /\ IsFiniteSet(S) /\ Cardinality(S) <= Cardinality(T)
      /\ Cardinality(S) = Cardinality(T) => T = S
    BY FS_Subset
<1>2. Cardinality(S) \in Nat /\ Cardinality(T) \in Nat
    BY <1>1, FS_CardinalityType
<1>3. QED
    BY <1>1, <1>2

\* The parts that are counted: first to width of each rune.
Parts(width, s, k) == {p \in (1..k) \X (1..4) : p[2] <= width[s[p[1]]]}

LEMMA PartsGrow ==
    ASSUME NEW width, \A r \in Alphabet : width[r] \in 1..4, NEW s \in Seq(Alphabet)
    PROVE  /\ \A k \in Nat : IsFiniteSet(Parts(width, s, k)) /\ Cardinality(Parts(width, s, k)) \in 0..(4 * k)
           /\ \A k \in 0..(Len(s) - 1) :
                 /\ Parts(width, s, k + 1)
                        = Parts(width, s, k) \cup ({k + 1} \X (1..width[s[k + 1]]))
                 /\ Parts(width, s, k) \cap ({k + 1} \X (1..width[s[k + 1]])) = {}
           /\ \A j, k \in 0..Len(s) : j < k =>
                 /\ Parts(width, s, j) \subseteq Parts(width, s, k)
                 /\ <<k, 1>> \in Parts(width, s, k) /\ <<k, 1>> \notin Parts(width, s, j)
<1>1. Len(s) \in Nat /\ \A i \in 1..Len(s) : s[i] \in Alphabet /\ width[s[i]] \in 1..4
    OBVIOUS
<1>2. ASSUME NEW k \in Nat
      PROVE  IsFiniteSet(Parts(width, s, k)) /\ Cardinality(Parts(width, s, k)) \in 0..(4 * k)
    <2>1. /\ IsFiniteSet(1..k) /\ Cardinality(1..k) = k
          /\ IsFiniteSet(1..4) /\ Cardinality(1..4) = 4
        BY Span
    <2>2. IsFiniteSet((1..k) \X (1..4)) /\ Cardinality((1..k) \X (1..4)) = k * 4
        <3>1. /\ IsFiniteSet((1..k) \X (1..4))
              /\ Cardinality((1..k) \X (1..4)) = Cardinality(1..k) * Cardinality(1..4)
            BY <2>1, FS_Product
        <3>2. QED
            BY <2>1, <3>1
    <2>3. Parts(width, s, k) \in SUBSET ((1..k) \X (1..4))
        BY DEF Parts
    <2>4. IsFiniteSet(Parts(width, s, k)) /\ Cardinality(Parts(width, s, k)) \in 0..(k * 4)
        BY <2>2, <2>3, Within
    <2>5. QED
        BY <2>4
<1>3. ASSUME NEW k \in 0..(Len(s) - 1)
      PROVE  /\ Parts(width, s, k + 1)
                    = Parts(width, s, k) \cup ({k + 1} \X (1..width[s[k + 1]]))
             /\ Parts(width, s, k) \cap ({k + 1} \X (1..width[s[k + 1]])) = {}
    <2>1. 1..(k + 1) = (1..k) \cup {k + 1} /\ k + 1 \notin 1..k
        BY <1>1
    <2>2. width[s[k + 1]] \in 1..4
        BY <1>1
    <2>3. Parts(width, s, k + 1)
              = Parts(width, s, k) \cup ({k + 1} \X (1..width[s[k + 1]]))
        BY <2>1, <2>2 DEF Parts
    <2>4. Parts(width, s, k) \cap ({k + 1} \X (1..width[s[k + 1]])) = {}
        BY <2>1 DEF Parts
    <2>5. QED
        BY <2>3, <2>4
<1>4. ASSUME NEW j \in 0..Len(s), NEW k \in 0..Len(s), j < k
      PROVE  /\ Parts(width, s, j) \subseteq Parts(width, s, k)
             /\ <<k, 1>> \in Parts(width, s, k) /\ <<k, 1>> \notin Parts(width, s, j)
    BY <1>1, <1>4 DEF Parts
<1>5. QED
    BY <1>2, <1>3, <1>4

\* Each rune adds its size to what is before it, and each has one.
LEMMA Sizes ==
    ASSUME NEW width, \A r \in Alphabet : width[r] \in 1..4, NEW s \in Seq(Alphabet)
    PROVE  /\ Size(width, s, 0) = 0
           /\ \A k \in 0..Len(s) : Size(width, s, k) \in 0..(4 * k)
           /\ \A k \in 0..(Len(s) - 1) : Size(width, s, k + 1) = Size(width, s, k) + width[s[k + 1]]
           /\ \A j, k \in 0..Len(s) : j < k => Size(width, s, j) < Size(width, s, k)
<1> DEFINE parts(k) == Parts(width, s, k)
<1>1. Len(s) \in Nat /\ \A i \in 1..Len(s) : s[i] \in Alphabet /\ width[s[i]] \in 1..4
    OBVIOUS
<1>2. \A k : Size(width, s, k) = Cardinality(parts(k))
    BY DEF Size, Parts
<1>3. /\ \A k \in Nat : IsFiniteSet(parts(k)) /\ Cardinality(parts(k)) \in 0..(4 * k)
      /\ \A k \in 0..(Len(s) - 1) :
            /\ parts(k + 1) = parts(k) \cup ({k + 1} \X (1..width[s[k + 1]]))
            /\ parts(k) \cap ({k + 1} \X (1..width[s[k + 1]])) = {}
      /\ \A j, k \in 0..Len(s) : j < k =>
            parts(j) \subseteq parts(k) /\ <<k, 1>> \in parts(k) /\ <<k, 1>> \notin parts(j)
    BY PartsGrow
<1> HIDE DEF parts
<1>4. Cardinality(parts(0)) = 0
    <2>1. Cardinality(parts(0)) \in 0..(4 * 0)
        BY <1>3
    <2>2. QED
        BY <2>1
<1>5. \A k \in 0..Len(s) : Cardinality(parts(k)) \in 0..(4 * k)
    BY <1>1, <1>3
<1>6. ASSUME NEW k \in 0..(Len(s) - 1)
      PROVE  Cardinality(parts(k + 1)) = Cardinality(parts(k)) + width[s[k + 1]]
    <2> DEFINE w == width[s[k + 1]]
    <2>1. w \in 1..4 /\ k \in Nat
        BY <1>1
    <2>2. /\ parts(k + 1) = parts(k) \cup ({k + 1} \X (1..w))
          /\ parts(k) \cap ({k + 1} \X (1..w)) = {}
        BY <1>3
    <2>3. IsFiniteSet(parts(k))
        BY <1>3, <2>1
    <2> HIDE DEF w
    <2>4. IsFiniteSet({k + 1} \X (1..w)) /\ Cardinality({k + 1} \X (1..w)) = w
        <3>1. IsFiniteSet({k + 1}) /\ Cardinality({k + 1}) = 1
            BY FS_Singleton
        <3>2. IsFiniteSet(1..w) /\ Cardinality(1..w) = w
            BY <2>1, Span
        <3>3. /\ IsFiniteSet({k + 1} \X (1..w))
              /\ Cardinality({k + 1} \X (1..w)) = Cardinality({k + 1}) * Cardinality(1..w)
            BY <3>1, <3>2, FS_Product
        <3>4. QED
            BY <2>1, <3>1, <3>2, <3>3
    <2>5. Cardinality(parts(k + 1)) = Cardinality(parts(k)) + w
        BY <2>2, <2>3, <2>4, DisjointSum
    <2>6. QED
        BY <2>5 DEF w
<1>7. ASSUME NEW j \in 0..Len(s), NEW k \in 0..Len(s), j < k
      PROVE  Cardinality(parts(j)) < Cardinality(parts(k))
    <2>1. IsFiniteSet(parts(k))
        BY <1>1, <1>3
    <2>2. parts(j) \subseteq parts(k) /\ <<k, 1>> \in parts(k) /\ <<k, 1>> \notin parts(j)
        BY <1>3, <1>7, Zenon
    <2>3. QED
        BY <2>1, <2>2, Within
<1>8. QED
    BY <1>2, <1>4, <1>5, <1>6, <1>7

\* The widths of runes, in bytes and in units.
LEMMA Widths ==
    /\ \A r \in Alphabet : Width[r] \in 1..4
    /\ \A r \in Alphabet : Units[r] \in 1..4 /\ Units[r] <= 2 /\ Units[r] <= Width[r]
BY PositionsAssumption DEF Width, Units
\* What the conversion works with.
LEMMA Lengths ==
    ASSUME NEW s \in Seq(Alphabet)
    PROVE  /\ Len(s) \in Nat
           /\ BytesIn(s, 0) = 0 /\ UnitsIn(s, 0) = 0
           /\ \A k \in 0..Len(s) : /\ BytesIn(s, k) \in 0..(4 * Len(s)) /\ UnitsIn(s, k) \in Nat
                                   /\ BytesIn(s, k) \in 0..Bytes(s)
           /\ \A k \in 0..(Len(s) - 1) :
                 /\ BytesIn(s, k + 1) = BytesIn(s, k) + Width[s[k + 1]]
                 /\ UnitsIn(s, k + 1) = UnitsIn(s, k) + Units[s[k + 1]]
                 /\ Units[s[k + 1]] \in 1..2
           /\ \A j, k \in 0..Len(s) : j < k => /\ BytesIn(s, j) < BytesIn(s, k)
                                               /\ UnitsIn(s, j) < UnitsIn(s, k)
           /\ \A k \in 0..Len(s) : UnitsIn(s, k) <= BytesIn(s, k)
<1>1. Len(s) \in Nat /\ \A i \in 1..Len(s) : s[i] \in Alphabet
    OBVIOUS
<1>2. /\ BytesIn(s, 0) = 0
      /\ \A k \in 0..Len(s) : BytesIn(s, k) \in 0..(4 * k)
      /\ \A k \in 0..(Len(s) - 1) : BytesIn(s, k + 1) = BytesIn(s, k) + Width[s[k + 1]]
      /\ \A j, k \in 0..Len(s) : j < k => BytesIn(s, j) < BytesIn(s, k)
    BY Widths, Sizes DEF BytesIn
<1>3. /\ UnitsIn(s, 0) = 0
      /\ \A k \in 0..Len(s) : UnitsIn(s, k) \in 0..(4 * k)
      /\ \A k \in 0..(Len(s) - 1) : UnitsIn(s, k + 1) = UnitsIn(s, k) + Units[s[k + 1]]
      /\ \A j, k \in 0..Len(s) : j < k => UnitsIn(s, j) < UnitsIn(s, k)
    BY Widths, Sizes DEF UnitsIn
<1>4. ASSUME NEW k \in 0..Len(s)
      PROVE  BytesIn(s, k) \in 0..(4 * Len(s)) /\ UnitsIn(s, k) \in Nat /\ BytesIn(s, k) \in 0..Bytes(s)
    <2>1. BytesIn(s, k) \in 0..(4 * k) /\ UnitsIn(s, k) \in 0..(4 * k)
        BY <1>2, <1>3
    <2>2. BytesIn(s, Len(s)) \in 0..(4 * Len(s))
        BY <1>1, <1>2
    <2>3. k = Len(s) \/ BytesIn(s, k) < BytesIn(s, Len(s))
        BY <1>1, <1>2
    <2>4. QED
        BY <1>1, <2>1, <2>2, <2>3 DEF Bytes
<1>5. ASSUME NEW k \in 0..Len(s) PROVE UnitsIn(s, k) <= BytesIn(s, k)
    <2>1. k \in Nat
        BY <1>1
    <2>2. Parts(Units, s, k) \subseteq Parts(Width, s, k)
        <3>1. \A i \in 1..k : Units[s[i]] \in 1..4 /\ Width[s[i]] \in 1..4 /\ Units[s[i]] <= Width[s[i]]
            BY <1>1, Widths
        <3>2. QED
            BY <3>1 DEF Parts
    <2>3. IsFiniteSet(Parts(Width, s, k))
        BY <2>1, Widths, PartsGrow
    <2>4. Cardinality(Parts(Units, s, k)) <= Cardinality(Parts(Width, s, k))
        BY <2>2, <2>3, Within
    <2>5. QED
        BY <2>4 DEF UnitsIn, BytesIn, Size, Parts
<1>6. \A k \in 0..(Len(s) - 1) : Units[s[k + 1]] \in 1..2
    BY <1>1, Widths
<1>7. QED
    BY <1>1, <1>2, <1>3, <1>4, <1>5, <1>6

---------------------------------------------------------------------------
(* Lines.                                                                  *)

\* Counting line feeds.
LEMMA Counting ==
    ASSUME NEW i \in Nat \ {0}, NEW k \in Nat \ {0}, i <= k
    PROVE  /\ Before(i) \in 0..(i - 1) /\ Before(k) \in Nat /\ Before(i) <= Before(k)
           /\ (\E j \in i..(k - 1) : contents[j] = "lf") => Before(i) < Before(k)
           /\ (\A j \in i..(k - 1) : contents[j] # "lf") => Before(i) = Before(k)
           /\ contents[i] = "lf" => Before(i + 1) = Before(i) + 1
<1> DEFINE lfs(n) == {j \in 1..(n - 1) : contents[j] = "lf"}
<1>1. ASSUME NEW n \in Nat \ {0}
      PROVE  IsFiniteSet(lfs(n)) /\ Cardinality(lfs(n)) \in 0..(n - 1)
    <2>1. n - 1 \in Nat
        OBVIOUS
    <2>2. IsFiniteSet(1..(n - 1)) /\ Cardinality(1..(n - 1)) = n - 1
        BY <2>1, Span
    <2>3. lfs(n) \in SUBSET (1..(n - 1))
        OBVIOUS
    <2> HIDE DEF lfs
    <2>4. QED
        BY <2>2, <2>3, Within
<1>2. lfs(i) \in SUBSET lfs(k)
    OBVIOUS
<1>3. ASSUME NEW j \in i..(k - 1), contents[j] = "lf"
      PROVE  j \in lfs(k) /\ j \notin lfs(i)
    BY <1>3
<1>4. (\A j \in i..(k - 1) : contents[j] # "lf") => lfs(i) = lfs(k)
    OBVIOUS
<1>5. contents[i] = "lf" => lfs(i + 1) = lfs(i) \cup {i}
    OBVIOUS
<1>6. i \notin lfs(i)
    OBVIOUS
<1>7. Before(i) = Cardinality(lfs(i)) /\ Before(k) = Cardinality(lfs(k))
         /\ Before(i + 1) = Cardinality(lfs(i + 1))
    BY DEF Before
<1> HIDE DEF lfs
<1>8. Cardinality(lfs(i)) <= Cardinality(lfs(k))
    BY <1>1, <1>2, Within
<1>9. (\E j \in i..(k - 1) : contents[j] = "lf") => Cardinality(lfs(i)) < Cardinality(lfs(k))
    BY <1>1, <1>2, <1>3, Within
<1>10. contents[i] = "lf" => Cardinality(lfs(i + 1)) = Cardinality(lfs(i)) + 1
    BY <1>1, <1>5, <1>6, FS_AddElement
<1>11. QED
    BY <1>1, <1>4, <1>7, <1>8, <1>9, <1>10

\* Up to LineEnd there is no line feed, and then there is one, or the end.
LEMMA NextFeed ==
    ASSUME contents \in Seq(Alphabet), start \in 0..Len(contents)
    PROVE  /\ LineEnd \in start..Len(contents) /\ Len(contents) \in Nat
           /\ \A j \in (start + 1)..LineEnd : contents[j] # "lf"
           /\ Feeds = {} => LineEnd = Len(contents)
           /\ Feeds # {} => /\ LineEnd = Min(Feeds) /\ LineEnd < Len(contents)
                            /\ contents[LineEnd + 1] = "lf"
<1>1. Len(contents) \in Nat
    OBVIOUS
<1>2. CASE Feeds = {}
    <2>1. \A j \in (start + 1)..Len(contents) :
              j - 1 \in start..(Len(contents) - 1) /\ (j - 1) + 1 = j
        BY <1>1
    <2>2. \A j \in (start + 1)..Len(contents) : contents[j] # "lf"
        BY <1>2, <2>1 DEF Feeds
    <2>3. QED
        BY <1>1, <1>2, <2>2 DEF LineEnd
<1>3. CASE Feeds # {}
    <2>1. Feeds \in SUBSET Nat
        BY <1>1 DEF Feeds
    <2>2. Min(Feeds) \in Feeds /\ \A m \in Feeds : Min(Feeds) <= m
        BY <1>3, <2>1, LeastNumber
    <2>3. LineEnd = Min(Feeds)
        BY <1>3 DEF LineEnd
    <2>4. LineEnd \in start..(Len(contents) - 1) /\ contents[LineEnd + 1] = "lf"
        BY <2>2, <2>3 DEF Feeds
    <2>5. ASSUME NEW j \in (start + 1)..LineEnd PROVE contents[j] # "lf"
        <3>1. j - 1 \in start..(Len(contents) - 1) /\ (j - 1) + 1 = j /\ ~ (LineEnd <= j - 1)
            BY <1>1, <2>4
        <3>2. j - 1 \notin Feeds
            BY <2>2, <2>3, <3>1
        <3>3. QED
            BY <3>1, <3>2 DEF Feeds
    <2>6. QED
        BY <1>1, <1>3, <2>3, <2>4, <2>5
<1>4. QED
    BY <1>2, <1>3

\* A missing line feed is a missing line.
LEMMA LineMissing ==
    ASSUME TypeOK, Counted, stage = "line", line >= 1, current < line, Feeds = {}
    PROVE  ~LineExists
<1>1. contents \in Seq(Alphabet) /\ start \in 0..Len(contents) /\ Len(contents) \in Nat
         /\ line \in Nat /\ current \in Nat
    BY DEF TypeOK
<1>2. \A j \in (start + 1)..Len(contents) : contents[j] # "lf"
    BY <1>1, NextFeed
<1>3. Before(start + 1) = Before(Len(contents) + 1)
    <2>1. start + 1 \in Nat \ {0} /\ Len(contents) + 1 \in Nat \ {0} /\ start + 1 <= Len(contents) + 1
             /\ (Len(contents) + 1) - 1 = Len(contents)
        BY <1>1
    <2>2. QED
        BY <1>2, <2>1, Counting
<1>4. Before(Len(contents) + 1) = Cardinality({i \in 1..Len(contents) : contents[i] = "lf"})
    BY <1>1 DEF Before
<1>5. Before(start + 1) = current - 1
    BY DEF Counted
<1>6. QED
    BY <1>1, <1>3, <1>4, <1>5 DEF LineExists

\* The line that is taken is the one that counting finds.
LEMMA LineTaken ==
    ASSUME TypeOK, Counted, stage = "line", line >= 1, current = line
    PROVE  LineExists /\ TrimCR(SubSeq(contents, start + 1, LineEnd)) = LineText
<1> DEFINE n == Len(contents)
<1>1. /\ contents \in Seq(Alphabet) /\ start \in 0..n /\ n \in Nat /\ line \in Nat
      /\ Before(start + 1) = line - 1 /\ (start > 0 => contents[start] = "lf")
    BY DEF TypeOK, Counted
<1>2. /\ LineEnd \in start..n
      /\ \A j \in (start + 1)..LineEnd : contents[j] # "lf"
      /\ LineEnd < n => contents[LineEnd + 1] = "lf"
    BY <1>1, NextFeed
<1> HIDE DEF n
<1>3. ASSUME NEW i \in 1..n
      PROVE  i \in OfLine <=> i \in (start + 1)..LineEnd
    <2>1. CASE i \in (start + 1)..LineEnd
        <3>1. start + 1 \in Nat \ {0} /\ i \in Nat \ {0} /\ start + 1 <= i
                 /\ \A j \in (start + 1)..(i - 1) : j \in (start + 1)..LineEnd
            BY <1>1, <1>2, <2>1
        <3>2. Before(i) = line - 1
            BY <1>1, <1>2, <3>1, Counting
        <3>3. QED
            BY <1>2, <2>1, <3>2 DEF OfLine, n
    <2>2. CASE i <= start
        <3>1. start + 1 \in Nat \ {0} /\ i \in Nat \ {0} /\ i <= start + 1 /\ start > 0
                 /\ start \in i..((start + 1) - 1)
            BY <1>1, <2>2
        <3>2. Before(i) < Before(start + 1) /\ Before(i) \in Nat
            BY <1>1, <3>1, Counting
        <3>3. Before(i) # line - 1
            BY <1>1, <3>2
        <3>4. QED
            BY <1>1, <2>2, <3>3 DEF OfLine
    <2>3. CASE i = LineEnd + 1
        <3>1. contents[i] = "lf"
            BY <1>1, <1>2, <2>3
        <3>2. QED
            BY <1>2, <2>3, <3>1 DEF OfLine
    <2>4. CASE i > LineEnd + 1
        <3>1. start + 1 \in Nat \ {0} /\ i \in Nat \ {0} /\ start + 1 <= i
                 /\ LineEnd + 1 \in (start + 1)..(i - 1) /\ contents[LineEnd + 1] = "lf"
            BY <1>1, <1>2, <2>4
        <3>2. Before(start + 1) < Before(i) /\ Before(i) \in Nat
            BY <3>1, Counting
        <3>3. Before(i) # line - 1
            BY <1>1, <3>2
        <3>4. QED
            BY <1>2, <2>4, <3>3 DEF OfLine
    <2>5. QED
        BY <1>1, <1>2, <2>1, <2>2, <2>3, <2>4
<1>4. OfLine = (start + 1)..LineEnd
    <2>1. OfLine \subseteq 1..n
        BY DEF OfLine, n
    <2>2. (start + 1)..LineEnd \subseteq 1..n
        BY <1>1, <1>2
    <2>3. QED
        BY <1>3, <2>1, <2>2
<1>5. LineExists
    <2>1. start + 1 \in Nat \ {0} /\ n + 1 \in Nat \ {0} /\ start + 1 <= n + 1
        BY <1>1
    <2>2. Before(start + 1) <= Before(n + 1)
        BY <2>1, Counting
    <2>3. Before(n + 1) = Cardinality({i \in 1..Len(contents) : contents[i] = "lf"})
        BY <1>1 DEF Before, n
    <2>4. QED
        BY <1>1, <2>2, <2>3 DEF LineExists
<1> DEFINE s == SubSeq(contents, start + 1, LineEnd)
<1>6. CASE LineEnd = start
    <2>1. s = <<>>
        BY <1>1, <1>2, <1>6, SubSeqEmpty
    <2>2. TrimCR(s) = <<>>
        BY <2>1 DEF TrimCR
    <2>3. LineText = <<>>
        BY <1>1, <1>4, <1>6 DEF LineText
    <2>4. QED
        BY <1>5, <2>2, <2>3
<1>7. CASE LineEnd > start
    <2>1. start + 1 \in OfLine /\ LineEnd \in OfLine
        BY <1>1, <1>2, <1>4, <1>7
    <2>2. OfLine \in SUBSET Nat /\ OfLine \in SUBSET (0..n)
        BY <1>1, <1>2, <1>4
    <2>3. Min(OfLine) = start + 1
        <3>1. Min(OfLine) \in OfLine /\ Min(OfLine) <= start + 1
            BY <2>1, <2>2, LeastNumber
        <3>2. QED
            BY <1>1, <1>2, <1>4, <3>1
    <2>4. Max(OfLine) = LineEnd
        <3>1. Max(OfLine) \in OfLine /\ LineEnd <= Max(OfLine)
            BY <1>1, <2>1, <2>2, GreatestNumber
        <3>2. QED
            BY <1>1, <1>2, <1>4, <3>1
    <2>5. s # <<>>
        <3>1. \A i \in (start + 1)..LineEnd : contents[i] \in Alphabet
            BY <1>1, <1>2 DEF n
        <3>2. Len(s) = LineEnd - (start + 1) + 1
            BY <1>1, <1>2, <1>7, <3>1, SubSeqProperties
        <3> HIDE DEF s
        <3>3. Len(s) # 0
            BY <1>1, <1>2, <1>7, <3>2
        <3>4. QED
            BY <3>3, EmptySeq
    <2>6. LineText = IF s[Len(s)] = "cr" THEN SubSeq(s, 1, Len(s) - 1) ELSE s
        BY <2>1, <2>3, <2>4 DEF LineText
    <2> HIDE DEF s
    <2>7. TrimCR(s) = LineText
        BY <2>5, <2>6 DEF TrimCR
    <2>8. QED
        BY <1>5, <2>7 DEF s
<1>8. QED
    BY <1>1, <1>2, <1>6, <1>7

\* Taking the line off its carriage return leaves a text.
LEMMA TrimmedText ==
    ASSUME TypeOK
    PROVE  LET s == TrimCR(SubSeq(contents, start + 1, LineEnd))
           IN  s \in Seq(Alphabet) /\ Len(s) \in Nat /\ Len(s) <= Len(contents)
<1> DEFINE s == SubSeq(contents, start + 1, LineEnd)
<1>1. /\ contents \in Seq(Alphabet) /\ start \in 0..Len(contents) /\ Len(contents) \in Nat
    BY DEF TypeOK
<1>2. LineEnd \in start..Len(contents)
    BY <1>1, NextFeed
<1>3. \A i \in (start + 1)..LineEnd : contents[i] \in Alphabet
    BY <1>1, <1>2
<1>4. s \in Seq(Alphabet)
         /\ Len(s) = IF start + 1 <= LineEnd THEN LineEnd - (start + 1) + 1 ELSE 0
    BY <1>1, <1>2, <1>3, SubSeqProperties
<1> HIDE DEF s
<1>5. Len(s) \in Nat /\ Len(s) <= Len(contents)
    BY <1>1, <1>2, <1>4
<1>6. CASE s # <<>> /\ s[Len(s)] = "cr"
    <2>1. \A i \in 1..(Len(s) - 1) : s[i] \in Alphabet
        BY <1>4, <1>5
    <2>2. Len(s) # 0
        BY <1>4, <1>6, EmptySeq
    <2>3. SubSeq(s, 1, Len(s) - 1) \in Seq(Alphabet)
             /\ Len(SubSeq(s, 1, Len(s) - 1)) = IF 1 <= Len(s) - 1 THEN Len(s) - 1 - 1 + 1 ELSE 0
        BY <1>5, <2>1, SubSeqProperties
    <2>4. TrimCR(s) = SubSeq(s, 1, Len(s) - 1)
        BY <1>6 DEF TrimCR
    <2>5. TrimCR(s) \in Seq(Alphabet) /\ Len(TrimCR(s)) \in Nat /\ Len(TrimCR(s)) <= Len(contents)
        BY <1>1, <1>5, <2>2, <2>3, <2>4
    <2>6. QED
        BY <2>5 DEF s
<1>7. CASE ~(s # <<>> /\ s[Len(s)] = "cr")
    <2>1. TrimCR(s) = s
        BY <1>7 DEF TrimCR
    <2>2. QED
        BY <1>4, <1>5, <2>1 DEF s
<1>8. QED
    BY <1>6, <1>7

---------------------------------------------------------------------------
(* Columns.                                                                *)

\* A column within the line is converted to at most as many units.
LEMMA ConvertedFits ==
    ASSUME text \in Seq(Alphabet), NEW offset \in Int, ~Outside(offset)
    PROVE  ToUTF16(offset) \in 0..(4 * Len(text))
<1> DEFINE within == {k \in 0..Len(text) : BytesIn(text, k) <= offset}
<1>1. Len(text) \in Nat /\ offset \in 0..Bytes(text) /\ Bytes(text) \in 0..(4 * Len(text))
    <2>1. Len(text) \in Nat /\ \A k \in 0..Len(text) : BytesIn(text, k) \in 0..(4 * Len(text))
        BY Lengths
    <2>2. Bytes(text) \in 0..(4 * Len(text))
        BY <2>1 DEF Bytes
    <2>3. QED
        BY <2>1, <2>2 DEF Outside
<1>2. BytesIn(text, 0) = 0
    BY Lengths
<1>3. within \in SUBSET (0..Len(text)) /\ within # {}
    <2>1. 0 \in within
        BY <1>1, <1>2
    <2>2. QED
        BY <2>1
<1>4. Max(within) \in within
    <2> HIDE DEF within
    <2>1. QED
        BY <1>1, <1>3, GreatestNumber
<1> DEFINE k == Whole(offset)
<1>5. k \in 0..Len(text) /\ BytesIn(text, k) <= offset
    BY <1>4 DEF Whole
<1> HIDE DEF k, within
<1>6. BytesIn(text, k) \in Nat /\ UnitsIn(text, k) \in Nat /\ UnitsIn(text, k) <= BytesIn(text, k)
    BY <1>1, <1>5, Lengths
<1>7. ToUTF16(offset) = UnitsIn(text, k) + offset - BytesIn(text, k)
    BY DEF ToUTF16, k
<1>8. QED
    BY <1>1, <1>5, <1>6, <1>7

\* A column at which a rune starts, or the line ends, is converted exactly.
LEMMA ConvertedExactly ==
    ASSUME text \in Seq(Alphabet), NEW k \in 0..Len(text)
    PROVE  ~Outside(BytesIn(text, k)) /\ ToUTF16(BytesIn(text, k)) = UnitsIn(text, k)
<1> DEFINE within == {j \in 0..Len(text) : BytesIn(text, j) <= BytesIn(text, k)}
<1>1. /\ Len(text) \in Nat
      /\ \A j \in 0..Len(text) : BytesIn(text, j) \in 0..Bytes(text) /\ UnitsIn(text, j) \in Nat
      /\ \A i, j \in 0..Len(text) : i < j => BytesIn(text, i) < BytesIn(text, j)
    <2>1. /\ Len(text) \in Nat
          /\ \A j \in 0..Len(text) : BytesIn(text, j) \in 0..Bytes(text) /\ UnitsIn(text, j) \in Nat
        BY Lengths
    <2>2. \A i, j \in 0..Len(text) : i < j => BytesIn(text, i) < BytesIn(text, j)
        BY Lengths
    <2>3. QED
        BY <2>1, <2>2
<1>2. Bytes(text) \in Nat
    BY <1>1, Lengths DEF Bytes
<1>3. k \in within /\ within \in SUBSET (0..Len(text))
    BY <1>1, <1>2
<1>4. \A j \in within : j <= k
    BY <1>1, <1>2
<1>5. Max(within) \in within /\ \A j \in within : j <= Max(within)
    <2> HIDE DEF within
    <2>1. QED
        BY <1>1, <1>3, GreatestNumber
<1>6. Max(within) = k
    <2> DEFINE m == Max(within)
    <2>1. m \in within /\ k <= m /\ m <= k /\ m \in Int
        BY <1>1, <1>3, <1>4, <1>5
    <2> HIDE DEF m, within
    <2>2. m = k
        BY <1>1, <2>1
    <2>3. QED
        BY <2>2 DEF m
<1>7. Whole(BytesIn(text, k)) = k
    BY <1>6 DEF Whole
<1>8. BytesIn(text, k) \in 0..Bytes(text) /\ UnitsIn(text, k) \in Nat
    BY <1>1
<1>9. QED
    BY <1>2, <1>7, <1>8 DEF Outside, ToUTF16

\* A scan that is refused, and was not outside the line to begin with, was for a
\* number of units that no rune of the line starts at.
LEMMA NothingFits ==
    ASSUME TypeOK, Scanned, units # character, rune < Len(text) => units > character
    PROVE  \A k \in 0..Len(text) : UnitsIn(text, k) # character
<1> SUFFICES ASSUME NEW k \in 0..Len(text), UnitsIn(text, k) = character
             PROVE  FALSE
    OBVIOUS
<1>1. /\ text \in Seq(Alphabet) /\ rune \in 0..Len(text) /\ Len(text) \in Nat
      /\ character \in Int /\ units = UnitsIn(text, rune) /\ units \in Int
    BY DEF TypeOK, Scanned
<1>2. \A i, j \in 0..Len(text) : i < j => UnitsIn(text, i) < UnitsIn(text, j)
    BY <1>1, Lengths
<1>3. CASE k < rune
    BY <1>1, <1>3 DEF Scanned
<1>4. CASE k = rune
    BY <1>1, <1>4
<1>5. CASE rune < k
    <2>1. units > character
        BY <1>1, <1>5
    <2>2. UnitsIn(text, rune) < UnitsIn(text, k)
        BY <1>1, <1>2, <1>5
    <2>3. QED
        BY <1>1, <2>1, <2>2
<1>6. QED
    BY <1>1, <1>3, <1>4, <1>5

---------------------------------------------------------------------------
(* The invariant.                                                          *)

LEMMA InitInv == Init => TypeOK /\ ColumnsInv
<1> SUFFICES ASSUME Init PROVE TypeOK /\ ColumnsInv
    OBVIOUS
<1> USE DEF Init
<1>1. MaxRunes \in Nat
    BY PositionsAssumption
<1>2. PICK n \in 0..MaxRunes : contents \in [1..n -> Alphabet]
    OBVIOUS
<1>3. contents \in Seq(Alphabet) /\ Len(contents) = n
    BY <1>1, <1>2
<1>4. <<>> \in Seq(Alphabet) /\ Len(<<>>) = 0
    BY EmptySeq
<1>5. BytesIn(<<>>, 0) = 0 /\ UnitsIn(<<>>, 0) = 0
    BY <1>4, Lengths
<1>6. Bytes(contents) \in Nat
    <2>1. BytesIn(contents, Len(contents)) \in 0..(4 * Len(contents))
        BY <1>1, <1>3, Lengths
    <2>2. QED
        BY <1>1, <1>3, <2>1 DEF Bytes
<1>7. way \in {"query", "answer"} /\ line \in Nat /\ column \in Nat /\ character \in 0..(4 * MaxRunes + 1)
    <2>1. line \in Nat /\ way \in {"query", "answer"}
        BY <1>1
    <2>2. CASE way = "query"
        BY <1>1, <1>6, <2>2
    <2>3. CASE way = "answer"
        BY <1>1, <2>3
    <2>4. QED
        BY <2>1, <2>2, <2>3
<1>8. TypeOK
    BY <1>1, <1>3, <1>4, <1>5, <1>7 DEF TypeOK
<1>9. Before(1) = 0
    <2>1. Before(1) \in 0..(1 - 1)
        BY Counting
    <2>2. QED
        BY <2>1
<1>10. Counted
    BY <1>9 DEF Counted
<1>11. QED
    BY <1>4, <1>5, <1>7, <1>8, <1>10 DEF ColumnsInv, Found, Scanned, Converted, Ended

\* What the line and the file alone decide stays what it is.
LEMMA SameLine ==
    ASSUME UNCHANGED <<contents, line>>
    PROVE  (LineExists <=> LineExists') /\ LineText' = LineText
<1>1. OfLine' = OfLine
    BY DEF OfLine, Before
<1>2. LineText' = LineText
    BY <1>1 DEF LineText
<1>3. LineExists <=> LineExists'
    BY DEF LineExists
<1>4. QED
    BY <1>2, <1>3

LEMMA SkipLineStep ==
    ASSUME TypeOK, ColumnsInv, SkipLine
    PROVE  TypeOK' /\ ColumnsInv'
<1> USE DEF SkipLine, input, seek, scan
<1>1. /\ contents \in Seq(Alphabet) /\ start \in 0..Len(contents) /\ Len(contents) \in Nat
      /\ Len(contents) <= MaxRunes /\ MaxRunes \in Nat /\ current \in Nat /\ line \in Nat
      /\ Before(start + 1) = current - 1 /\ rune = 0
    BY PositionsAssumption DEF TypeOK, ColumnsInv, Counted
<1>2. (LineExists <=> LineExists') /\ LineText' = LineText
    BY SameLine
<1>3. CASE Feeds = {}
    <2>1. ~LineExists
        BY <1>3, LineMissing DEF ColumnsInv
    <2>2. TypeOK'
        BY <1>3 DEF TypeOK, Fails
    <2>3. ColumnsInv'
        BY <1>2, <1>3, <2>1
        DEF ColumnsInv, Counted, Found, Scanned, Converted, Ended, Fails
    <2>4. QED
        BY <2>2, <2>3
<1>4. CASE Feeds # {}
    <2>1. /\ LineEnd \in start..Len(contents) /\ LineEnd = Min(Feeds) /\ LineEnd < Len(contents)
          /\ contents[LineEnd + 1] = "lf" /\ \A j \in (start + 1)..LineEnd : contents[j] # "lf"
        BY <1>1, <1>4, NextFeed
    <2> DEFINE e == LineEnd
    <2>2. start' = e + 1 /\ current' = current + 1 /\ stage' = stage /\ text' = text
        BY <1>4, <2>1
    <2>3. /\ e \in start..Len(contents) /\ e < Len(contents) /\ e \in Int
          /\ contents[e + 1] = "lf" /\ \A j \in (start + 1)..e : contents[j] # "lf"
        BY <1>1, <2>1
    <2> HIDE DEF e
    <2>4. Before(e + 1) = current - 1
        <3>1. start + 1 \in Nat \ {0} /\ e + 1 \in Nat \ {0} /\ start + 1 <= e + 1 /\ (e + 1) - 1 = e
            BY <1>1, <2>3
        <3>2. Before(start + 1) = Before(e + 1)
            BY <2>3, <3>1, Counting
        <3>3. QED
            BY <1>1, <3>2
    <2>5. Before(e + 2) = current /\ Before(e + 2) <= e + 1
        <3>1. e + 1 \in Nat \ {0} /\ e + 2 \in Nat \ {0} /\ (e + 1) + 1 = e + 2 /\ (e + 2) - 1 = e + 1
            BY <1>1, <2>3
        <3>2. Before(e + 2) = Before(e + 1) + 1
            BY <2>3, <3>1, Counting
        <3>3. Before(e + 2) \in 0..((e + 2) - 1)
            BY <3>1, Counting
        <3>4. QED
            BY <1>1, <2>4, <3>1, <3>2, <3>3
    <2>6. TypeOK'
        <3>1. start' \in 0..Len(contents) /\ current' \in 1..(MaxRunes + 1)
            BY <1>1, <2>2, <2>3, <2>5
        <3>2. QED
            BY <2>2, <3>1 DEF TypeOK
    <2>7. Counted'
        <3>1. Before(start + 1)' = Before(e + 2)
            <4>1. start' + 1 = e + 2
                BY <2>2, <2>3
            <4>2. QED
                BY <4>1 DEF Before
        <3>2. QED
            BY <1>1, <2>2, <2>3, <2>5, <3>1 DEF Counted
    <2>8. ColumnsInv'
        BY <1>2, <2>2, <2>7 DEF ColumnsInv, Found, Scanned, Converted, Ended
    <2>9. QED
        BY <2>6, <2>8
<1>5. QED
    BY <1>3, <1>4

LEMMA NoLineZeroStep ==
    ASSUME TypeOK, ColumnsInv, NoLineZero
    PROVE  TypeOK' /\ ColumnsInv'
<1> USE DEF NoLineZero, input, seek, scan, Fails
<1>1. (LineExists <=> LineExists') /\ LineText' = LineText
    BY SameLine
<1>2. ~LineExists
    BY DEF LineExists, TypeOK
<1>3. TypeOK'
    BY DEF TypeOK
<1>4. QED
    BY <1>1, <1>2, <1>3 DEF ColumnsInv, Counted, Found, Scanned, Converted, Ended

LEMMA TakeLineStep ==
    ASSUME TypeOK, ColumnsInv, TakeLine
    PROVE  TypeOK' /\ ColumnsInv'
<1> USE DEF TakeLine, input, scan
<1>1. (LineExists <=> LineExists') /\ LineText' = LineText
    BY SameLine
<1>2. LineExists /\ text' = LineText
    BY LineTaken DEF ColumnsInv
<1>3. text' \in Seq(Alphabet) /\ Len(text') <= Len(contents) /\ Len(text') \in Nat
    BY TrimmedText
<1>4. BytesIn(text', 0) = 0 /\ UnitsIn(text', 0) = 0
    BY <1>3, Lengths
<1>5. /\ stage = "line" /\ rune = 0 /\ way \in {"query", "answer"} /\ (way = "query" => character = 0)
      /\ units = UnitsIn(text, 0) /\ byteOffset = BytesIn(text, 0) /\ text \in Seq(Alphabet)
    BY DEF ColumnsInv, Counted, Scanned, Converted, TypeOK
<1>6. units = 0 /\ byteOffset = 0
    BY <1>5, Lengths
<1>7. TypeOK'
    BY <1>3, <1>4, <1>5, <1>6 DEF TypeOK
<1>8. ColumnsInv'
    BY <1>1, <1>2, <1>3, <1>4, <1>5, <1>6 DEF ColumnsInv, Counted, Found, Scanned, Converted, Ended
<1>9. QED
    BY <1>7, <1>8

LEMMA ConvertStep ==
    ASSUME TypeOK, ColumnsInv, Convert
    PROVE  TypeOK' /\ ColumnsInv'
<1> USE DEF Convert, input, seek, scan, Fails
<1>1. (LineExists <=> LineExists') /\ LineText' = LineText
    BY SameLine
<1>2. /\ text \in Seq(Alphabet) /\ Len(text) \in Nat /\ Len(text) <= MaxRunes /\ MaxRunes \in Nat
      /\ column \in Nat /\ way = "query" /\ rune = 0 /\ units = UnitsIn(text, 0) /\ text = LineText
      /\ LineExists /\ units \in Int
    BY PositionsAssumption DEF TypeOK, ColumnsInv, Found, Scanned, Ended
<1>3. units = 0
    BY <1>2, Lengths
<1>4. (Outside(column - 1) <=> Outside(column - 1)') /\ ToUTF16(column - 1)' = ToUTF16(column - 1)
    BY DEF Outside, ToUTF16, Whole, Bytes, BytesIn, UnitsIn, Size
<1>5. CASE Outside(column - 1)
    <2>1. TypeOK'
        BY <1>5 DEF TypeOK
    <2>2. ColumnsInv'
        BY <1>1, <1>2, <1>4, <1>5
        DEF ColumnsInv, Counted, Found, Scanned, Converted, Ended
    <2>3. QED
        BY <2>1, <2>2
<1>6. CASE ~Outside(column - 1)
    <2>1. column - 1 \in Int
        BY <1>2
    <2>2. ToUTF16(column - 1) \in 0..(4 * Len(text))
        BY <1>2, <1>6, <2>1, ConvertedFits
    <2> DEFINE c == ToUTF16(column - 1)
    <2>3. character' = c /\ stage' = "scan"
        BY <1>6
    <2>4. c \in 0..(4 * MaxRunes + 1) /\ c \in Nat
        BY <1>2, <2>2
    <2>5. TypeOK'
        <3> HIDE DEF c
        <3>1. QED
            BY <1>3, <2>3, <2>4 DEF TypeOK
    <2>6. ~Outside(column - 1)' /\ character' = ToUTF16(column - 1)'
        BY <1>4, <1>6, <2>3
    <2>7. ColumnsInv'
        <3>1. \A k \in 0..Len(text) : ~ (k < rune)
            BY <1>2
        <3> HIDE DEF c
        <3>2. QED
            BY <1>1, <1>2, <2>3, <2>6, <3>1 DEF ColumnsInv, Counted, Found, Scanned, Converted, Ended
    <2>8. QED
        BY <2>5, <2>7
<1>7. QED
    BY <1>5, <1>6

LEMMA ScanRuneStep ==
    ASSUME TypeOK, ColumnsInv, ScanRune
    PROVE  TypeOK' /\ ColumnsInv'
<1> USE DEF ScanRune, input, seek, RuneUnits
<1>1. (LineExists <=> LineExists') /\ LineText' = LineText
    BY SameLine
<1>2. /\ text \in Seq(Alphabet) /\ Len(text) \in Nat /\ rune \in 0..(Len(text) - 1)
      /\ units = UnitsIn(text, rune) /\ byteOffset = BytesIn(text, rune)
      /\ units \in 0..(character + 1) /\ character \in Nat /\ units < character
    BY DEF TypeOK, ColumnsInv, Scanned
<1>3. /\ BytesIn(text, rune + 1) = BytesIn(text, rune) + Width[text[rune + 1]]
      /\ UnitsIn(text, rune + 1) = UnitsIn(text, rune) + Units[text[rune + 1]]
      /\ Units[text[rune + 1]] \in 1..2
    BY <1>2, Lengths
<1>4. rune' = rune + 1 /\ byteOffset' = BytesIn(text, rune + 1) /\ units' = UnitsIn(text, rune + 1)
    BY <1>2, <1>3
<1>5. rune' \in 0..Len(text) /\ units' \in 0..(character + 1)
    BY <1>2, <1>3, <1>4
<1>6. \A k \in 0..Len(text) : k < rune + 1 => UnitsIn(text, k) < character
    <2> SUFFICES ASSUME NEW k \in 0..Len(text), k < rune + 1
                 PROVE  UnitsIn(text, k) < character
        OBVIOUS
    <2>1. k < rune \/ k = rune
        BY <1>2
    <2>2. QED
        BY <1>2, <2>1 DEF ColumnsInv, Scanned
<1>7. TypeOK'
    BY <1>4, <1>5 DEF TypeOK
<1>8. (Outside(column - 1) <=> Outside(column - 1)') /\ ToUTF16(column - 1)' = ToUTF16(column - 1)
    BY DEF Outside, ToUTF16, Whole, Bytes, BytesIn, UnitsIn, Size
<1>9. Scanned'
    <2>1. \A k \in 0..Len(text) : UnitsIn(text', k) = UnitsIn(text, k)
        OBVIOUS
    <2>2. QED
        BY <1>4, <1>6, <2>1 DEF Scanned
<1>10. ColumnsInv'
    BY <1>1, <1>8, <1>9 DEF ColumnsInv, Counted, Found, Converted, Ended
<1>11. QED
    BY <1>7, <1>10

LEMMA ScanEndsStep ==
    ASSUME TypeOK, ColumnsInv, ScanEnds
    PROVE  TypeOK' /\ ColumnsInv'
<1> USE DEF ScanEnds, input, seek, scan, OffColumn
<1>1. (LineExists <=> LineExists') /\ LineText' = LineText
    BY SameLine
<1>2. TypeOK'
    BY DEF TypeOK
<1>3. (Outside(column - 1) <=> Outside(column - 1)') /\ ToUTF16(column - 1)' = ToUTF16(column - 1)
    BY DEF Outside, ToUTF16, Whole, Bytes, BytesIn, UnitsIn, Size
<1>4. Counted' /\ Found'
    BY <1>1 DEF ColumnsInv, Counted, Found
<1>5. Scanned'
    BY DEF ColumnsInv, Scanned
<1>6. Converted'
    BY <1>3 DEF ColumnsInv, Converted
<1>7. Ended'
    <2>1. rune < Len(text) /\ units # character => units > character
        BY DEF TypeOK
    <2>2. QED
        BY <1>1, <1>3, <2>1 DEF Ended
<1>8. QED
    BY <1>2, <1>4, <1>5, <1>6, <1>7 DEF ColumnsInv

LEMMA StutterStep ==
    ASSUME TypeOK, ColumnsInv, UNCHANGED vars
    PROVE  TypeOK' /\ ColumnsInv'
<1> USE DEF vars
<1>1. (LineExists <=> LineExists') /\ LineText' = LineText
    BY SameLine
<1>2. TypeOK'
    BY DEF TypeOK
<1>3. (Outside(column - 1) <=> Outside(column - 1)') /\ ToUTF16(column - 1)' = ToUTF16(column - 1)
    BY DEF Outside, ToUTF16, Whole, Bytes, BytesIn, UnitsIn, Size
<1>4. Counted'
    BY DEF ColumnsInv, Counted, Before
<1>5. Found' /\ Scanned'
    BY <1>1 DEF ColumnsInv, Found, Scanned
<1>6. Converted' /\ Ended'
    BY <1>1, <1>3 DEF ColumnsInv, Converted, Ended
<1>7. QED
    BY <1>2, <1>4, <1>5, <1>6 DEF ColumnsInv

---------------------------------------------------------------------------
(* The theorems.                                                           *)

\* sourceLine and the two conversions keep their types and what their
\* exactness rests on.
THEOREM ColumnsSafe == Spec => [](TypeOK /\ ColumnsInv)
<1>1. ASSUME TypeOK, ColumnsInv, [Next]_vars PROVE TypeOK' /\ ColumnsInv'
    <2>1. CASE SkipLine
        BY <1>1, <2>1, SkipLineStep
    <2>2. CASE NoLineZero
        BY <1>1, <2>2, NoLineZeroStep
    <2>3. CASE TakeLine
        BY <1>1, <2>3, TakeLineStep
    <2>4. CASE Convert
        BY <1>1, <2>4, ConvertStep
    <2>5. CASE ScanRune
        BY <1>1, <2>5, ScanRuneStep
    <2>6. CASE ScanEnds
        BY <1>1, <2>6, ScanEndsStep
    <2>7. CASE Finished \/ UNCHANGED vars
        BY <1>1, <2>7, StutterStep DEF Finished
    <2>8. QED
        BY <1>1, <2>1, <2>2, <2>3, <2>4, <2>5, <2>6, <2>7 DEF Next
<1>2. QED
    BY <1>1, InitInv, PTL DEF Spec

\* Every variable of the conversion keeps its type; the byte offset is always
\* that of a whole number of runes (utf16ColumnToByte).
THEOREM TypeCorrect == Spec => []TypeOK
BY ColumnsSafe, PTL

\* A position that starts a rune or ends its line survives the way to gopls and
\* back (byteColumnToUTF16, then utf16ColumnToByte).
THEOREM PositionsSurvive == Spec => []RoundTrip
<1>1. ASSUME TypeOK, ColumnsInv PROVE RoundTrip
    <2> SUFFICES ASSUME way = "query", LineExists, column - 1 \in Boundaries
                 PROVE  stage # "error" /\ (stage = "done" => Result = column)
        BY DEF RoundTrip
    <2>1. PICK k \in 0..Len(LineText) : column - 1 = BytesIn(LineText, k)
        BY DEF Boundaries
    <2>2. /\ text \in Seq(Alphabet) /\ rune \in 0..Len(text) /\ units = UnitsIn(text, rune)
          /\ byteOffset = BytesIn(text, rune) /\ column \in Nat /\ Len(text) \in Nat
        BY <1>1 DEF TypeOK, ColumnsInv, Scanned
    <2>3. CASE stage = "done"
        <3>1. text = LineText /\ character = ToUTF16(column - 1) /\ units = character
            BY <1>1, <2>3 DEF ColumnsInv, Found, Converted, Ended
        <3>2. UnitsIn(text, rune) = UnitsIn(text, k)
            BY <2>1, <2>2, <3>1, ConvertedExactly
        <3>3. k \in 0..Len(text)
            BY <2>1, <3>1
        <3>4. \A i, j \in 0..Len(text) : i < j => UnitsIn(text, i) < UnitsIn(text, j)
            BY <2>2, Lengths
        <3>5. UnitsIn(text, k) \in Nat
            BY <2>2, <3>3, Lengths
        <3>6. ~ (rune < k) /\ ~ (k < rune)
            BY <2>2, <3>2, <3>3, <3>4, <3>5
        <3>7. rune = k
            BY <2>2, <3>3, <3>6
        <3>8. QED
            BY <2>1, <2>2, <2>3, <3>1, <3>7 DEF Result
    <2>4. CASE stage = "error"
        <3>1. text = LineText
            BY <1>1, <2>4 DEF ColumnsInv, Found
        <3>2. k \in 0..Len(text) /\ column - 1 = BytesIn(text, k)
            BY <2>1, <3>1
        <3>3. ~Outside(column - 1) /\ ToUTF16(column - 1) = UnitsIn(text, k)
            BY <2>2, <3>2, ConvertedExactly
        <3>4. character = UnitsIn(text, k)
            BY <1>1, <2>4, <3>3 DEF ColumnsInv, Converted
        <3>5. units # character /\ (rune < Len(text) => units > character)
            BY <1>1, <2>4, <3>3 DEF ColumnsInv, Ended
        <3>6. QED
            BY <1>1, <3>2, <3>4, <3>5, NothingFits DEF ColumnsInv
    <2>5. QED
        BY <2>3, <2>4
<1>2. QED
    BY <1>1, ColumnsSafe, PTL

\* What gopls sends is converted exactly or refused, and refused only if no rune
\* of the line it names starts there (sourceLine, utf16ColumnToByte).
THEOREM AnswersAreExact == Spec => []ExactOrRefused
<1>1. ASSUME TypeOK, ColumnsInv PROVE ExactOrRefused
    <2> DEFINE fits == {k \in 0..Len(LineText) : UnitsIn(LineText, k) = character}
    <2> SUFFICES ASSUME way = "answer"
                 PROVE  /\ stage = "done" => LineExists /\ \E k \in fits : Result = BytesIn(LineText, k) + 1
                        /\ stage = "error" => ~LineExists \/ fits = {}
        BY DEF ExactOrRefused
    <2>1. /\ rune \in 0..Len(text) /\ units = UnitsIn(text, rune) /\ byteOffset = BytesIn(text, rune)
        BY <1>1 DEF TypeOK, ColumnsInv, Scanned
    <2>2. CASE stage = "done"
        <3>1. LineExists /\ text = LineText /\ units = character
            BY <1>1, <2>2 DEF ColumnsInv, Found, Ended
        <3>2. rune \in fits /\ Result = BytesIn(LineText, rune) + 1
            BY <2>1, <3>1 DEF Result
        <3>3. QED
            BY <2>2, <3>1, <3>2
    <2>3. CASE stage = "error" /\ LineExists
        <3>1. text = LineText /\ units # character /\ (rune < Len(text) => units > character)
            BY <1>1, <2>3 DEF ColumnsInv, Found, Ended
        <3>2. \A k \in 0..Len(text) : UnitsIn(text, k) # character
            BY <1>1, <3>1, NothingFits DEF ColumnsInv
        <3>3. fits = {}
            BY <3>1, <3>2
        <3>4. QED
            BY <2>3, <3>3
    <2>4. QED
        BY <2>2, <2>3
<1>2. QED
    BY <1>1, ColumnsSafe, PTL
=============================================================================
