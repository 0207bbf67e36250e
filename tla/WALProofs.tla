----------------------------- MODULE WALProofs -----------------------------
(***************************************************************************)
(* For every set of records, batch size, queue size and number of crashes: *)
(* the log loses no record that was written whole, as long as no crash     *)
(* falls between a compaction's rename and its checkpoint.                 *)
(***************************************************************************)
EXTENDS WAL, FiniteSetTheorems, WellFoundedInduction, TLAPS

-----------------------------------------------------------------------------
(***************************************************************************)
(* The inductive invariant.                                                *)
(***************************************************************************)

\* Delivery may resume at offset c of file f: c ends a line, and behind it is
\* everything that is owed.
Safe(f, c, owed) ==
    /\ c <= Len(f)
    /\ c > 0 => f[c] # Fragment
    /\ \A r \in owed : \E i \in Decodable(f, c) : f[i] = r

\* b holds the first records of f behind offset c; n of them are done with.
BatchOK(f, c, b, n, done) ==
    /\ Len(b) <= Cardinality(Decodable(f, c))
    /\ \A i \in Decodable(f, c) :
          Rank(Decodable(f, c), i) <= Len(b) => f[i] = b[Rank(Decodable(f, c), i)]
    /\ \A k \in 1 .. n : b[k] \in done

\* w is a compaction of the file it was read from.
RewriteOK(w) ==
    \E young \in SUBSET (1 .. w.offset) :
        /\ w.out = Pick(w.file, Retained(w.file, w.offset, young))
        /\ w.newOffset = Rank(Retained(w.file, w.offset, young), w.offset)

\* What the log still owes the control plane.
Owed == (Promised \ stored) \ swallowed

Sending == pc \in {"send", "wait", "answered", "mark"}

IInv ==
    /\ TypeOK
    /\ pc \notin {"wait", "answered"} => segment = 0
    /\ pc # "down" => Safe(file, offset, Owed)
    /\ ~stale => Safe(file, disk, Owed)
    /\ pc = "down" => ~stale
    /\ Sending => BatchOK(file, offset, batch, sent, stored \cup Unknown)
    /\ pc = "answered" => InFlight \subseteq stored
    /\ pc = "commit" => RewriteOK(rewrite)

-----------------------------------------------------------------------------
(***************************************************************************)
(* Rank and Pick.                                                          *)
(***************************************************************************)

\* A finite set of integers.
Ints(K) == IsFiniteSet(K) /\ \A x \in K : x \in Int

\* Rank counts within the set.
LEMMA RankType ==
    ASSUME NEW K, IsFiniteSet(K), NEW i
    PROVE  Rank(K, i) \in Nat /\ Rank(K, i) <= Cardinality(K)
<1>1. {j \in K : j <= i} \in SUBSET K
  OBVIOUS
<1>2. QED
  BY <1>1, FS_Subset, FS_CardinalityType DEF Rank

\* Rank is monotone in the set and in the bound.
LEMMA RankMonotone ==
    ASSUME NEW L, Ints(L), NEW K, \A x \in K : x \in L,
           NEW i \in Int, NEW j \in Int, i <= j
    PROVE  Rank(K, i) <= Rank(L, j)
<1> DEFINE A == {x \in K : x <= i}
           B == {x \in L : x <= j}
<1>1. A \subseteq B
  BY DEF Ints
<1>2. IsFiniteSet(B)
  BY FS_Subset, B \in SUBSET L DEF Ints
<1>3. QED
  BY <1>1, <1>2, FS_Subset DEF Rank

\* Rank grows at every element of the set.
LEMMA RankStrict ==
    ASSUME NEW K, Ints(K), NEW i \in K, NEW j \in Int, j < i
    PROVE  Rank(K, j) < Rank(K, i)
<1> DEFINE A == {x \in K : x <= j}
           B == {x \in K : x <= i}
<1>1. A \subseteq B /\ i \in B /\ i \notin A
  BY DEF Ints
<1>2. IsFiniteSet(B)
  BY FS_Subset, B \in SUBSET K DEF Ints
<1>3. Cardinality(A) <= Cardinality(B) /\ Cardinality(A) # Cardinality(B)
  BY <1>1, <1>2, FS_Subset
<1>4. Cardinality(A) \in Nat /\ Cardinality(B) \in Nat
  BY <1>1, <1>2, FS_Subset, FS_CardinalityType
<1>5. QED
  BY <1>3, <1>4 DEF Rank

\* The elements have ranks 1, 2, ... up to the size of the set.
LEMMA RankRange ==
    ASSUME NEW K, Ints(K), NEW i \in K
    PROVE  Rank(K, i) \in 1 .. Cardinality(K)
<1>1. i \in Int /\ i - 1 \in Int /\ i - 1 < i
  BY DEF Ints
<1>2. Rank(K, i - 1) < Rank(K, i)
  BY <1>1, RankStrict
<1>3. Rank(K, i - 1) \in Nat /\ Rank(K, i) \in Nat /\ Rank(K, i) <= Cardinality(K)
  BY RankType DEF Ints
<1>4. Cardinality(K) \in Nat
  BY FS_CardinalityType DEF Ints
<1>5. QED
  BY <1>2, <1>3, <1>4

\* Two elements of the same rank are equal.
LEMMA RankInjective ==
    ASSUME NEW K, Ints(K), NEW i \in K, NEW j \in K, Rank(K, i) = Rank(K, j)
    PROVE  i = j
<1>1. i \in Int /\ j \in Int /\ Rank(K, i) \in Nat /\ Rank(K, j) \in Nat
  BY RankType DEF Ints
<1>2. ~(i < j) /\ ~(j < i)
  BY <1>1, RankStrict
<1>3. QED
  BY <1>1, <1>2

\* The positions of a sequence are a finite set of integers.
LEMMA IntervalInts ==
    ASSUME NEW a \in Int, NEW n \in Int, NEW K, \A x \in K : x \in a .. n
    PROVE  Ints(K)
<1>1. IsFiniteSet(a .. n)
  BY FS_Interval
<1>2. K \in SUBSET (a .. n)
  OBVIOUS
<1>3. IsFiniteSet(K)
  BY <1>1, <1>2, FS_Subset
<1>4. QED
  BY <1>3 DEF Ints

\* Every rank is the rank of an element.
LEMMA RankOnto ==
    ASSUME NEW n \in Nat, NEW K, \A x \in K : x \in 1 .. n,
           NEW k \in 1 .. Cardinality(K)
    PROVE  \E i \in K : Rank(K, i) = k
<1> DEFINE T == {m \in Nat : Rank(K, m) >= k}
<1>1. Ints(K)
  BY IntervalInts, n \in Int, 1 \in Int
<1>2. Cardinality(K) \in Nat /\ k \in Nat /\ k > 0
  BY <1>1, FS_CardinalityType DEF Ints
<1>3. \A y \in Nat : Rank(K, y) \in Nat
  BY <1>1, RankType DEF Ints
<1>4. n \in T
  <2>1. {j \in K : j <= n} = K
    OBVIOUS
  <2>2. Rank(K, n) = Cardinality(K)
    BY <2>1 DEF Rank
  <2>3. QED
    BY <1>2, <2>2
<1>5. PICK m \in T : \A y \in T : ~(<<y, m>> \in OpToRel(<, Nat))
  BY <1>4, NatLessThanWellFounded, WFMin, T \subseteq Nat, T # {}
<1>6. m \in Nat /\ Rank(K, m) >= k
  OBVIOUS
<1> HIDE DEF T
<1>7. \A y \in Nat : y < m => Rank(K, y) < k
  <2>1. SUFFICES ASSUME NEW y \in Nat, y < m, ~(Rank(K, y) < k) PROVE FALSE
    OBVIOUS
  <2>2. y \in T
    BY <1>2, <1>3, <2>1 DEF T
  <2>3. QED
    BY <1>5, <1>6, <2>1, <2>2 DEF OpToRel
<1>8. m # 0
  <2>1. {j \in K : j <= 0} = {}
    OBVIOUS
  <2>2. Rank(K, 0) = 0
    BY <2>1, FS_EmptySet DEF Rank
  <2>3. QED
    BY <1>2, <1>6, <2>2
<1>9. m - 1 \in Nat /\ Rank(K, m - 1) < k /\ Rank(K, m - 1) \in Nat
  BY <1>3, <1>6, <1>7, <1>8
<1>10. IsFiniteSet({j \in K : j <= m - 1})
  BY <1>1, FS_Subset, {j \in K : j <= m - 1} \in SUBSET K DEF Ints
<1>11. m \in K
  <2>1. SUFFICES ASSUME m \notin K PROVE FALSE
    OBVIOUS
  <2>2. \A j \in K : j <= m <=> j <= m - 1
    BY <1>1, <1>6, <2>1 DEF Ints
  <2>3. {j \in K : j <= m} = {j \in K : j <= m - 1}
    BY <2>2
  <2>4. QED
    BY <2>3, <1>2, <1>3, <1>6, <1>9 DEF Rank
<1>12. Rank(K, m) = Rank(K, m - 1) + 1
  <2>1. \A j \in K : j <= m <=> (j <= m - 1 \/ j = m)
    BY <1>1, <1>6 DEF Ints
  <2>2. {j \in K : j <= m} = {j \in K : j <= m - 1} \cup {m}
    BY <1>6, <1>11, <2>1
  <2>3. m \notin {j \in K : j <= m - 1}
    BY <1>6
  <2>4. QED
    BY <2>2, <2>3, <1>10, FS_AddElement DEF Rank
<1>13. Rank(K, m) = k
  BY <1>2, <1>6, <1>9, <1>12
<1>14. QED
  BY <1>11, <1>13

\* Pick puts the element at i where i ranks.
LEMMA PickAt ==
    ASSUME NEW K, Ints(K), NEW s, NEW i \in K
    PROVE  Pick(s, K)[Rank(K, i)] = s[i]
<1>1. Rank(K, i) \in 1 .. Cardinality(K)
  BY RankRange
<1>2. (CHOOSE j \in K : Rank(K, j) = Rank(K, i)) = i
  BY RankInjective
<1>3. QED
  BY <1>1, <1>2 DEF Pick

\* Pick is a sequence of the picked elements.
LEMMA PickType ==
    ASSUME NEW n \in Nat, NEW K, \A x \in K : x \in 1 .. n, NEW s, NEW S,
           \A i \in K : s[i] \in S
    PROVE  Pick(s, K) \in Seq(S) /\ Len(Pick(s, K)) = Cardinality(K)
<1>1. Cardinality(K) \in Nat
  BY IntervalInts, FS_CardinalityType, 1 \in Int, n \in Int DEF Ints
<1>2. \A k \in 1 .. Cardinality(K) : (CHOOSE i \in K : Rank(K, i) = k) \in K
  BY RankOnto
<1>3. Pick(s, K) \in [1 .. Cardinality(K) -> S]
  BY <1>2 DEF Pick
<1>4. QED
  BY <1>1, <1>3
-----------------------------------------------------------------------------
(***************************************************************************)
(* Lines of a file.                                                        *)
(***************************************************************************)

\* Decodable lines are records, and every one of them ends a line.
LEMMA DecodableType ==
    ASSUME NEW f \in Seq(Write), NEW c \in Nat
    PROVE  /\ \A i \in Decodable(f, c) : i \in 1 .. Len(f) /\ f[i] \in Record /\ i > c
           /\ \A i \in Decodable(f, c) : i \in LineEnds(f, c)
           /\ Ints(Decodable(f, c)) /\ Ints(LineEnds(f, c))
<1>1. Len(f) \in Nat /\ \A i \in c + 1 .. Len(f) : i \in 1 .. Len(f) /\ f[i] \in Write
  OBVIOUS
<1>2. \A i \in Decodable(f, c) : i \in 1 .. Len(f) /\ f[i] \in Record /\ i > c
  BY <1>1 DEF Decodable, Write
<1>3. \A i \in Decodable(f, c) : i \in LineEnds(f, c)
  BY DEF Decodable, LineEnds
<1>4. \A i \in LineEnds(f, c) : i \in 1 .. Len(f)
  BY <1>1 DEF LineEnds
<1>5. QED
  BY <1>1, <1>2, <1>3, <1>4, IntervalInts, 1 \in Int, Len(f) \in Int

\* A batch holds the first decodable lines in order.
LEMMA ReadOK ==
    ASSUME NEW f \in Seq(Write), NEW c \in Nat, NEW limit \in Nat,
           NEW b, b = Undelivered(f, c, limit)
    PROVE  /\ b \in Seq(Record)
           /\ Len(b) <= limit
           /\ Len(b) <= Cardinality(Decodable(f, c))
           /\ \A i \in Decodable(f, c) :
                 Rank(Decodable(f, c), i) <= Len(b) => f[i] = b[Rank(Decodable(f, c), i)]
<1> DEFINE D == Decodable(f, c)
           K == {i \in D : Rank(D, i) <= limit}
<1>1. Ints(D) /\ \A i \in D : i \in 1 .. Len(f) /\ f[i] \in Record
  BY DecodableType
<1>2. Len(f) \in Nat /\ b = Pick(f, K)
  BY DEF Undelivered
<1> HIDE DEF D
<1>3. Ints(K)
  BY <1>1, <1>2, IntervalInts, 1 \in Int, Len(f) \in Int
<1>4. b \in Seq(Record) /\ Len(b) = Cardinality(K)
  BY <1>1, <1>2, PickType
<1>5. \A i \in K : Rank(K, i) = Rank(D, i)
  <2>1. SUFFICES ASSUME NEW i \in K PROVE {j \in K : j <= i} = {j \in D : j <= i}
    BY DEF Rank
  <2>2. SUFFICES ASSUME NEW j \in D, j <= i PROVE Rank(D, j) <= limit
    OBVIOUS
  <2>3. i \in Int /\ j \in Int
    BY <1>1 DEF Ints
  <2>4. Rank(D, j) <= Rank(D, i)
    BY <1>1, <2>2, <2>3, RankMonotone
  <2>5. Rank(D, j) \in Nat /\ Rank(D, i) \in Nat
    BY <1>1, RankType DEF Ints
  <2>6. QED
    BY <2>4, <2>5
<1>6. Cardinality(K) \in Nat /\ Cardinality(D) \in Nat
  BY <1>1, <1>3, FS_CardinalityType DEF Ints
<1>7. Cardinality(K) <= limit
  <2>1. CASE Cardinality(K) = 0
    BY <2>1
  <2>2. CASE Cardinality(K) # 0
    <3>1. Cardinality(K) \in 1 .. Cardinality(K)
      BY <1>6, <2>2
    <3>2. \A i \in K : i \in 1 .. Len(f)
      BY <1>1
    <3>3. PICK i \in K : Rank(K, i) = Cardinality(K)
      BY <1>2, <3>1, <3>2, RankOnto
    <3>4. QED
      BY <1>5, <3>3
  <2>3. QED
    BY <2>1, <2>2
<1>8. Cardinality(K) <= Cardinality(D)
  BY <1>1, FS_Subset, K \in SUBSET D DEF Ints
<1>9. ASSUME NEW i \in D, Rank(D, i) <= Len(b)
      PROVE  f[i] = b[Rank(D, i)]
  <2>1. Rank(D, i) \in Nat
    BY <1>1, RankType DEF Ints
  <2>2. i \in K
    BY <1>4, <1>6, <1>7, <1>9, <2>1
  <2> HIDE DEF K
  <2>3. Pick(f, K)[Rank(K, i)] = f[i]
    BY <1>3, <2>2, PickAt
  <2>4. QED
    BY <1>2, <1>5, <2>2, <2>3
<1>10. QED
  BY <1>4, <1>6, <1>7, <1>8, <1>9 DEF D

\* An append leaves every line where it is.
LEMMA AppendOK ==
    ASSUME NEW f \in Seq(Write), NEW w \in Write, NEW c \in Nat, c <= Len(f)
    PROVE  LET g == Append(f, w)
               D == Decodable(f, c)
               E == Decodable(g, c)
           IN  /\ \A i \in D : i \in E /\ g[i] = f[i] /\ Rank(E, i) = Rank(D, i)
               /\ \A i \in E \ D : i = Len(f) + 1 /\ Rank(E, i) > Cardinality(D)
               /\ Cardinality(D) <= Cardinality(E)
<1> DEFINE g == Append(f, w)
           D == Decodable(f, c)
           E == Decodable(g, c)
<1>1. /\ g \in Seq(Write) /\ Len(f) \in Nat /\ Len(g) = Len(f) + 1
      /\ \A i \in 1 .. Len(f) : g[i] = f[i]
  OBVIOUS
<1>2. Ints(D) /\ Ints(E) /\ (\A i \in D : i \in 1 .. Len(f)) /\ (\A i \in E : i \in 1 .. Len(g))
  BY <1>1, DecodableType
<1>3. \A i \in 1 .. Len(f) : i \in E <=> i \in D
  BY <1>1 DEF Decodable
<1> HIDE DEF g, D, E
<1>4. \A i \in D : i \in E
  BY <1>2, <1>3
<1>5. \A i \in E \ D : i = Len(f) + 1
  BY <1>1, <1>2, <1>3
<1>6. ASSUME NEW i \in 1 .. Len(f)
      PROVE  Rank(E, i) = Rank(D, i)
  <2>1. \A j \in E : j <= i => j \in D
    BY <1>1, <1>2, <1>5
  <2>2. {j \in E : j <= i} = {j \in D : j <= i}
    BY <1>4, <2>1
  <2>3. QED
    BY <2>2 DEF Rank
<1>7. Cardinality(D) <= Cardinality(E)
  BY <1>2, <1>4, FS_Subset, D \in SUBSET E DEF Ints
<1>8. ASSUME NEW i \in E \ D
      PROVE  Rank(E, i) > Cardinality(D)
  <2>1. {j \in D : j <= Len(f)} = D
    BY <1>1, <1>2
  <2>2. Rank(D, Len(f)) = Cardinality(D)
    BY <2>1 DEF Rank
  <2>3. Rank(D, Len(f)) <= Rank(E, Len(f))
    BY <1>1, <1>2, <1>4, RankMonotone, Len(f) <= Len(f), Len(f) \in Int
  <2>4. Rank(E, Len(f)) < Rank(E, i)
    BY <1>1, <1>2, <1>5, <1>8, RankStrict
  <2>5. Rank(D, Len(f)) \in Nat /\ Rank(E, Len(f)) \in Nat /\ Rank(E, i) \in Nat
    BY <1>2, RankType DEF Ints
  <2>6. QED
    BY <2>2, <2>3, <2>4, <2>5
<1>9. QED
  BY <1>1, <1>2, <1>4, <1>5, <1>6, <1>7, <1>8 DEF g, D, E

\* Scanning as many raw lines as records were delivered passes over no other
\* decodable line, and stops at the end of a line.
LEMMA MarkOK ==
    ASSUME NEW f \in Seq(Write), NEW c \in Nat, c <= Len(f), c > 0 => f[c] # Fragment,
           NEW n \in Nat, n <= Cardinality(Decodable(f, c)),
           NEW o, ScansTo(f, c, n, o)
    PROVE  /\ o \in Nat /\ c <= o /\ o <= Len(f)
           /\ o > 0 => f[o] # Fragment
           /\ \A i \in Decodable(f, c) :
                 Rank(Decodable(f, c), i) <= n \/ i \in Decodable(f, o)
<1> DEFINE D == Decodable(f, c)
           L == LineEnds(f, c)
<1>1. /\ Ints(D) /\ Ints(L) /\ Len(f) \in Nat
      /\ \A i \in D : i \in L /\ i \in 1 .. Len(f) /\ f[i] \in Record
  BY DecodableType
<1>2. \A i \in L : i \in c + 1 .. Len(f) /\ (f[i] # Fragment \/ i = Len(f))
  BY DEF LineEnds
<1>3. o \in {c} \cup L /\ Rank(L, o) = IF n <= Cardinality(L) THEN n ELSE Cardinality(L)
  BY DEF ScansTo
<1>4. o \in Nat /\ c <= o /\ o <= Len(f)
  BY <1>1, <1>2, <1>3
<1>5. \A i \in D : i = c + 1 \/ f[i - 1] # Fragment
  BY DEF Decodable
<1>6. \A i \in D : i > o => i \in Decodable(f, o)
  <2>1. SUFFICES ASSUME NEW i \in D, i > o PROVE i \in Decodable(f, o)
    OBVIOUS
  <2>2. i \in o + 1 .. Len(f) /\ f[i] # Fragment
    BY <1>1, <1>4, <2>1 DEF Decodable
  <2>3. i = o + 1 \/ f[i - 1] # Fragment
    BY <1>4, <1>5, <2>1, <2>2
  <2>4. QED
    BY <2>2, <2>3 DEF Decodable
<1> HIDE DEF D, L
<1>7. Cardinality(D) \in Nat /\ Cardinality(L) \in Nat /\ Cardinality(D) <= Cardinality(L)
  BY <1>1, FS_CardinalityType, FS_Subset, D \in SUBSET L DEF Ints
<1>8. Rank(L, o) = n
  BY <1>3, <1>7 DEF D
<1>9. ASSUME NEW i \in D, ~(i > o)
      PROVE  Rank(D, i) <= n
  <2>1. i \in Int /\ o \in Int /\ i <= o
    BY <1>1, <1>4, <1>9
  <2>2. QED
    BY <1>1, <1>8, <2>1, RankMonotone
<1>10. o > 0 => f[o] # Fragment
  <2>1. SUFFICES ASSUME o > 0, f[o] = Fragment PROVE FALSE
    OBVIOUS
  <2>2. o \in L /\ o = Len(f)
    BY <1>2, <1>3, <2>1
  <2>3. o \notin D
    BY <1>1, <2>1, WALAssumption
  <2>4. {j \in L : j <= o} = L
    BY <1>2, <2>2
  <2>5. Cardinality(L) = n
    BY <1>8, <2>4 DEF Rank
  <2>6. L = D
    BY <1>1, <1>7, <2>5, FS_Subset, D \in SUBSET L DEF Ints, D
  <2>7. QED
    BY <2>2, <2>3, <2>6
<1>11. QED
  BY <1>4, <1>6, <1>9, <1>10 DEF D

\* The compacted file holds no fragment and keeps every undelivered record
\* behind the new offset.
LEMMA CompactOK ==
    ASSUME NEW f \in Seq(Write), NEW c \in Nat, c <= Len(f), c > 0 => f[c] # Fragment,
           NEW young, NEW K, K = Retained(f, c, young),
           NEW g, g = Pick(f, K), NEW d, d = Rank(K, c)
    PROVE  /\ g \in Seq(Record) /\ d \in Nat /\ d <= Len(g)
           /\ \A i \in Decodable(f, c) : \E j \in Decodable(g, d) : g[j] = f[i]
<1>1. /\ Len(f) \in Nat
      /\ \A i \in Decodable(f, 0) : i \in 1 .. Len(f) /\ f[i] \in Record
      /\ \A i \in Decodable(f, c) : i \in 1 .. Len(f) /\ i > c
  BY DecodableType, 0 \in Nat
<1>2. \A i \in K : i \in 1 .. Len(f) /\ f[i] \in Record
  BY <1>1 DEF Retained
<1>3. Ints(K)
  BY <1>1, <1>2, IntervalInts, 1 \in Int, Len(f) \in Int
<1>4. g \in Seq(Record) /\ Len(g) = Cardinality(K)
  BY <1>1, <1>2, PickType
<1>5. d \in Nat /\ d <= Len(g)
  BY <1>3, <1>4, RankType DEF Ints
<1>6. \A j \in d + 1 .. Len(g) : j \in Decodable(g, d)
  <2>1. \A j \in 1 .. Len(g) : g[j] # Fragment
    BY <1>4, WALAssumption
  <2>2. QED
    BY <1>4, <1>5, <2>1 DEF Decodable
<1>7. ASSUME NEW i \in Decodable(f, c)
      PROVE  \E j \in Decodable(g, d) : g[j] = f[i]
  <2>1. i \in K
    <3>1. i \in 1 .. Len(f) /\ i > c
      BY <1>1
    <3>2. f[i] # Fragment /\ (i = c + 1 \/ f[i - 1] # Fragment)
      BY DEF Decodable
    <3>3. i \in Decodable(f, 0)
      BY <3>1, <3>2 DEF Decodable
    <3>4. QED
      BY <3>1, <3>3 DEF Retained
  <2>2. Rank(K, c) < Rank(K, i) /\ Rank(K, i) \in 1 .. Cardinality(K)
    BY <1>1, <1>3, <2>1, RankStrict, RankRange
  <2>3. Rank(K, i) \in Decodable(g, d)
    BY <1>4, <1>5, <1>6, <2>2
  <2>4. g[Rank(K, i)] = f[i]
    BY <1>3, <2>1, PickAt
  <2>5. QED
    BY <2>3, <2>4
<1>8. QED
  BY <1>4, <1>5, <1>7
-----------------------------------------------------------------------------
(***************************************************************************)
(* How appends, marks, reads and deliveries bear on the parts of IInv.     *)
(***************************************************************************)

\* An append keeps a safe offset safe; it adds a debt only if the record
\* starts a line.
LEMMA SafeAppend ==
    ASSUME NEW f \in Seq(Write), NEW w \in Write, NEW c \in Nat, NEW O, NEW P,
           Safe(f, c, O),
           \A r \in P : r \in O \/ (r = w /\ w # Fragment /\ (f # <<>> => f[Len(f)] # Fragment))
    PROVE  Safe(Append(f, w), c, P)
<1> DEFINE g == Append(f, w)
<1>1. /\ Len(f) \in Nat /\ Len(g) = Len(f) + 1 /\ c <= Len(f)
      /\ \A i \in 1 .. Len(f) : g[i] = f[i]
      /\ g[Len(f) + 1] = w
  BY DEF Safe
<1>2. c > 0 => g[c] # Fragment
  BY <1>1 DEF Safe
<1>3. \A i \in Decodable(f, c) : i \in Decodable(g, c) /\ g[i] = f[i]
  BY <1>1, AppendOK
<1>4. ASSUME NEW r \in P
      PROVE  \E i \in Decodable(g, c) : g[i] = r
  <2>1. CASE r \in O
    BY <1>3, <2>1 DEF Safe
  <2>2. CASE r = w /\ w # Fragment /\ (f # <<>> => f[Len(f)] # Fragment)
    <3>1. c < Len(f) => f # <<>>
      OBVIOUS
    <3>2. Len(f) + 1 = c + 1 \/ g[Len(f) + 1 - 1] # Fragment
      BY <1>1, <2>2, <3>1
    <3>3. Len(f) + 1 \in Decodable(g, c)
      BY <1>1, <2>2, <3>2 DEF Decodable
    <3>4. QED
      BY <1>1, <2>2, <3>3
  <2>3. QED
    BY <2>1, <2>2
<1>5. c <= Len(g)
  BY <1>1
<1> HIDE DEF g
<1>6. Safe(g, c, P)
  BY <1>2, <1>4, <1>5 DEF Safe
<1>7. QED
  BY <1>6 DEF g

\* What is safe behind an offset is safe behind the start of the file.
LEMMA SafeFromStart ==
    ASSUME NEW f \in Seq(Write), NEW c \in Nat, NEW O, Safe(f, c, O)
    PROVE  Safe(f, 0, O)
<1>1. Decodable(f, c) \subseteq Decodable(f, 0)
  <2>1. SUFFICES ASSUME NEW i \in c + 1 .. Len(f), f[i] # Fragment,
                        i = c + 1 \/ f[i - 1] # Fragment
                 PROVE  i \in Decodable(f, 0)
    BY DEF Decodable
  <2>2. i \in 0 + 1 .. Len(f)
    OBVIOUS
  <2>3. i = 0 + 1 \/ f[i - 1] # Fragment
    <3>1. CASE c = 0
      BY <2>1, <3>1
    <3>2. CASE c > 0 /\ i = c + 1
      BY <3>2 DEF Safe
    <3>3. QED
      BY <2>1, <3>1, <3>2
  <2>4. QED
    BY <2>1, <2>2, <2>3 DEF Decodable
<1>2. QED
  BY <1>1 DEF Safe

\* Fewer debts are easier to meet.
LEMMA SafeLess ==
    ASSUME NEW f, NEW c, NEW O, NEW P, Safe(f, c, O), \A r \in P : r \in O
    PROVE  Safe(f, c, P)
BY DEF Safe

\* Marking what was delivered moves a safe offset to a safe offset.
LEMMA SafeMark ==
    ASSUME NEW f \in Seq(Write), NEW c \in Nat, NEW O, Safe(f, c, O),
           NEW b, NEW n \in Nat, n <= Len(b), Len(b) \in Nat,
           NEW done, BatchOK(f, c, b, n, done), \A r \in O : r \notin done,
           NEW o, ScansTo(f, c, n, o)
    PROVE  o \in Nat /\ Safe(f, o, O)
<1> DEFINE D == Decodable(f, c)
<1>1. Ints(D)
  BY DecodableType
<1>2. Cardinality(D) \in Nat /\ \A i \in D : Rank(D, i) \in 1 .. Cardinality(D)
  BY <1>1, FS_CardinalityType, RankRange DEF Ints
<1>3. n <= Cardinality(D)
  BY <1>2 DEF BatchOK
<1>4. /\ o \in Nat /\ c <= o /\ o <= Len(f)
      /\ o > 0 => f[o] # Fragment
      /\ \A i \in D : Rank(D, i) <= n \/ i \in Decodable(f, o)
  BY <1>3, MarkOK DEF Safe
<1>5. \A i \in D : Rank(D, i) <= n => f[i] \in done
  <2>1. SUFFICES ASSUME NEW i \in D, Rank(D, i) <= n PROVE f[i] \in done
    OBVIOUS
  <2>2. Rank(D, i) <= Len(b) /\ Rank(D, i) \in 1 .. n
    BY <1>2, <2>1
  <2>3. f[i] = b[Rank(D, i)]
    BY <2>2 DEF BatchOK
  <2>4. QED
    BY <2>2, <2>3 DEF BatchOK
<1>6. ASSUME NEW r \in O
      PROVE  \E i \in Decodable(f, o) : f[i] = r
  <2>1. PICK i \in D : f[i] = r
    BY DEF Safe
  <2>2. QED
    BY <1>4, <1>5, <2>1
<1>7. QED
  BY <1>4, <1>6 DEF Safe

\* Renaming the compacted file keeps what is owed.
LEMMA SafeCompact ==
    ASSUME NEW f \in Seq(Write), NEW c \in Nat, NEW O, Safe(f, c, O),
           NEW w, RewriteOK(w), w.file = f, w.offset = c
    PROVE  w.newOffset \in Nat /\ Safe(w.out, w.newOffset, O)
<1>1. PICK young : /\ w.out = Pick(f, Retained(f, c, young))
                   /\ w.newOffset = Rank(Retained(f, c, young), c)
  BY DEF RewriteOK
<1>2. /\ w.out \in Seq(Record) /\ w.newOffset \in Nat /\ w.newOffset <= Len(w.out)
      /\ \A i \in Decodable(f, c) :
            \E j \in Decodable(w.out, w.newOffset) : w.out[j] = f[i]
  BY <1>1, CompactOK DEF Safe
<1>3. w.newOffset > 0 => w.out[w.newOffset] # Fragment
  BY <1>2, WALAssumption
<1>4. QED
  BY <1>2, <1>3 DEF Safe

\* Appends do not reach into the batch.
LEMMA BatchAppend ==
    ASSUME NEW f \in Seq(Write), NEW w \in Write, NEW c \in Nat, c <= Len(f),
           NEW b, Len(b) \in Nat, NEW n, NEW done, BatchOK(f, c, b, n, done)
    PROVE  BatchOK(Append(f, w), c, b, n, done)
<1> DEFINE g == Append(f, w)
           D == Decodable(f, c)
           E == Decodable(g, c)
<1>1. /\ \A i \in D : i \in E /\ g[i] = f[i] /\ Rank(E, i) = Rank(D, i)
      /\ \A i \in E \ D : Rank(E, i) > Cardinality(D)
      /\ Cardinality(D) <= Cardinality(E)
  BY AppendOK
<1>2. g \in Seq(Write)
  OBVIOUS
<1>3. Ints(D) /\ Ints(E)
  BY <1>2, DecodableType
<1>4. Cardinality(D) \in Nat /\ Cardinality(E) \in Nat /\ \A i \in E : Rank(E, i) \in Nat
  BY <1>3, FS_CardinalityType, RankType DEF Ints
<1>5. Len(b) <= Cardinality(E)
  BY <1>1, <1>4 DEF BatchOK
<1>6. ASSUME NEW i \in E, Rank(E, i) <= Len(b)
      PROVE  g[i] = b[Rank(E, i)]
  <2>1. i \in D
    BY <1>1, <1>4, <1>6 DEF BatchOK
  <2>2. QED
    BY <1>1, <1>6, <2>1 DEF BatchOK
<1>7. QED
  BY <1>5, <1>6 DEF BatchOK
-----------------------------------------------------------------------------
(***************************************************************************)
(* Type correctness.                                                       *)
(***************************************************************************)

TypeParts == TypeOK /\ (pc \notin {"wait", "answered"} => segment = 0)

\* The initial state is type correct.
LEMMA InitType ==
    ASSUME Init
    PROVE  TypeParts
<1>1. file \in Seq(Write) /\ queue \in Seq(Record \ Usage) /\ batch \in Seq(Record)
      /\ accepted \in Seq(Record)
  BY DEF Init
<1>2. stale \in BOOLEAN /\ more \in BOOLEAN /\ reachable \in BOOLEAN
  BY Zenon DEF Init
<1>3. rewrite \in [file : Seq(Write), offset : Nat, out : Seq(Record), newOffset : Nat]
  BY DEF Init, NoRewrite
<1>4. QED
  BY <1>1, <1>2, <1>3, WALAssumption DEF Init, TypeParts, TypeOK, PC

\* The sequences an append extends keep their types.
LEMMA AppendType ==
    ASSUME TypeOK, NEW r \in Record, AppendRecord(r)
    PROVE  /\ file' \in Seq(Write) /\ accepted' \in Seq(Record) /\ swallowed' \subseteq Record
           /\ offset' = offset /\ disk' = disk /\ stale' = stale
<1>1. r \in Write /\ Fragment \in Write
  BY DEF Write
<1>2. file \in Seq(Write) /\ accepted \in Seq(Record) /\ swallowed \subseteq Record
  BY DEF TypeOK
<1>3. file' = file \/ file' = Append(file, r) \/ file' = Append(file, Fragment)
  BY DEF AppendRecord, AppendSucceeds, AppendFails
<1>4. accepted' = accepted \/ accepted' = Append(accepted, r)
  BY DEF AppendRecord, AppendSucceeds, AppendFails
<1>5. swallowed' = swallowed \/ swallowed' = swallowed \cup {r}
  BY DEF AppendRecord, AppendSucceeds, AppendFails
<1>6. offset' = offset /\ disk' = disk /\ stale' = stale
  BY DEF AppendRecord, AppendSucceeds, AppendFails
<1>7. file' \in Seq(Write)
  BY <1>1, <1>2, <1>3
<1>8. accepted' \in Seq(Record)
  BY <1>2, <1>4
<1>9. QED
  BY <1>2, <1>5, <1>6, <1>7, <1>8

\* The operations of the writers are type correct.
LEMMA WritersType ==
    ASSUME TypeParts, Writers
    PROVE  TypeParts'
<1>1. TypeOK
  BY DEF TypeParts
<1>2. ASSUME NEW r \in Record, HandlerAppend(r)
      PROVE  TypeParts'
  <2>1. AppendRecord(r)
    BY <1>2 DEF HandlerAppend
  <2>2. QED
    BY <1>1, <1>2, <2>1, AppendType DEF HandlerAppend, flushVars, cpVars, TypeParts, TypeOK
<1>3. ASSUME NEW r \in Record, EnqueueAdvisoryRecord(r)
      PROVE  TypeParts'
  <2>1. queue \in Seq(Record \ Usage) /\ r \in Record \ Usage /\ Len(queue) <= AdvisoryQueueSize
    BY <1>1, <1>3 DEF EnqueueAdvisoryRecord, TypeOK
  <2>2. queue' = IF Len(queue) < AdvisoryQueueSize THEN Append(queue, r) ELSE queue
    BY <1>3 DEF EnqueueAdvisoryRecord
  <2>3. queue' \in Seq(Record \ Usage) /\ Len(queue') <= AdvisoryQueueSize
    BY <2>1, <2>2, WALAssumption
  <2>4. QED
    BY <1>1, <1>3, <2>3 DEF EnqueueAdvisoryRecord, fileVars, flushVars, cpVars, TypeParts, TypeOK
<1>4. ASSUME WriteAdvisoryRecord
      PROVE  TypeParts'
  <2>1. queue \in Seq(Record \ Usage) /\ Len(queue) <= AdvisoryQueueSize /\ queue # <<>>
    BY <1>1, <1>4 DEF WriteAdvisoryRecord, TypeOK
  <2>2. Head(queue) \in Record /\ Tail(queue) \in Seq(Record \ Usage)
        /\ Len(Tail(queue)) <= AdvisoryQueueSize
    BY <2>1, WALAssumption
  <2>3. PICK r \in Record : AppendRecord(r) /\ queue' = Tail(queue)
    BY <1>4, <2>2 DEF WriteAdvisoryRecord
  <2>4. QED
    BY <1>1, <1>4, <2>2, <2>3, AppendType DEF WriteAdvisoryRecord, flushVars, cpVars, TypeParts, TypeOK
<1>5. QED
  BY <1>2, <1>3, <1>4, Zenon DEF Writers
\* The steps of the flush loop are type correct.
LEMMA FlushType ==
    ASSUME TypeParts, Flush
    PROVE  TypeParts'
<1> DEFINE Loop == /\ batch \in Seq(Record) /\ Len(batch) <= FlushMaxEvents
                   /\ sent \in 0 .. Len(batch) /\ segment \in 0 .. Len(batch) - sent
<1>1. /\ Loop /\ (pc \notin {"wait", "answered"} => segment = 0)
      /\ file \in Seq(Write) /\ offset \in Nat /\ abandoned \subseteq SUBSET Record
  BY DEF TypeParts, TypeOK
<1>2. <<>> \in Seq(Record) /\ Len(<<>>) = 0 /\ 0 <= FlushMaxEvents /\ FlushMaxEvents \in Nat
  BY WALAssumption
<1>3. NoRewrite \in [file : Seq(Write), offset : Nat, out : Seq(Record), newOffset : Nat]
  BY DEF NoRewrite
<1>4. AfterMark \in PC /\ AfterMark \notin {"wait", "answered"}
  BY DEF AfterMark, PC
<1>5. CASE FlushStart
  BY <1>5 DEF FlushStart, TypeParts, TypeOK, PC, fileVars, inputVars, cpVars
<1>6. CASE ReadBatch
  <2>1. batch' = Undelivered(file, offset, FlushMaxEvents) /\ sent' = 0 /\ segment' = segment /\ segment = 0
    BY <1>1, <1>6 DEF ReadBatch
  <2>2. PICK f \in Seq(Write), c \in Nat : f = file /\ c = offset
    BY <1>1
  <2>3. PICK b : b = Undelivered(f, c, FlushMaxEvents)
    OBVIOUS
  <2>4. b \in Seq(Record) /\ Len(b) <= FlushMaxEvents
    BY <1>2, <2>3, ReadOK
  <2>5. Loop'
    BY <2>1, <2>2, <2>3, <2>4
  <2>6. more' \in BOOLEAN
    BY <1>6, Zenon DEF ReadBatch
  <2>7. QED
    BY <1>6, <2>1, <2>5, <2>6 DEF ReadBatch, TypeParts, TypeOK, PC, fileVars, inputVars, cpVars
<1>7. CASE ReadFails
  <2>1. more' \in BOOLEAN
    BY <1>7, Zenon DEF ReadFails
  <2>2. QED
    BY <1>7, <2>1 DEF ReadFails, TypeParts, TypeOK, PC, fileVars, inputVars, cpVars
<1>8. CASE Send
  <2>1. Loop'
    BY <1>1, <1>8 DEF Send
  <2>2. QED
    BY <1>8, <2>1 DEF Send, TypeParts, TypeOK, PC, fileVars, inputVars, cpVars
<1>9. CASE SkipUnknown
  <2>1. Loop'
    BY <1>1, <1>9 DEF SkipUnknown
  <2>2. QED
    BY <1>9, <2>1 DEF SkipUnknown, TypeParts, TypeOK, PC, fileVars, inputVars, cpVars
<1>10. ASSUME NEW n \in 0 .. segment, Ack(n)
       PROVE  TypeParts'
  <2>1. Loop'
    BY <1>1, <1>10 DEF Ack
  <2>2. QED
    BY <1>10, <2>1 DEF Ack, TypeParts, TypeOK, PC, fileVars, inputVars, cpVars
<1>11. CASE SendFails
  <2>1. Loop'
    BY <1>1, <1>11 DEF SendFails
  <2>2. more' \in BOOLEAN
    BY <1>11, Zenon DEF SendFails
  <2>3. InFlight \subseteq Record
    BY <1>1 DEF InFlight
  <2>4. abandoned' \subseteq SUBSET Record
    BY <1>1, <1>11, <2>3 DEF SendFails
  <2>5. QED
    BY <1>11, <2>1, <2>2, <2>4 DEF SendFails, TypeParts, TypeOK, PC, fileVars, inputVars
<1>12. CASE BatchDone
  <2>1. more' \in BOOLEAN
    BY <1>12, Zenon DEF BatchDone
  <2>2. QED
    BY <1>12, <2>1 DEF BatchDone, TypeParts, TypeOK, PC, fileVars, inputVars, cpVars
<1>13. CASE MarkNothing
  <2>1. Loop'
    BY <1>1, <1>2, <1>13 DEF MarkNothing
  <2>2. QED
    BY <1>4, <1>13, <2>1 DEF MarkNothing, TypeParts, TypeOK, fileVars, inputVars, cpVars
<1>14. CASE MarkDelivered
  <2>1. Loop'
    BY <1>1, <1>2, <1>14 DEF MarkDelivered
  <2>2. \A o \in LineEnds(file, offset) : o \in Nat
    BY <1>1, DecodableType DEF Ints, LineEnds
  <2>3. PICK o \in {offset} \cup LineEnds(file, offset) :
           /\ offset' = o
           /\ \/ disk' = o /\ stale' = FALSE /\ pc' = "snapshot"
              \/ UNCHANGED <<disk, stale>> /\ pc' = AfterMark
    BY <1>14, Zenon DEF MarkDelivered
  <2>4. o \in Nat
    BY <1>1, <2>2
  <2>5. stale' \in BOOLEAN
    BY <2>3, Zenon DEF TypeParts, TypeOK
  <2>6. offset' \in Nat /\ disk' \in Nat
    BY <2>3, <2>4 DEF TypeParts, TypeOK
  <2>7. pc' \in PC /\ pc' \notin {"wait", "answered"} /\ segment' = 0
    BY <1>1, <1>4, <1>14, <2>3 DEF MarkDelivered, PC
  <2>8. QED
    BY <1>14, <2>1, <2>5, <2>6, <2>7 DEF MarkDelivered, TypeParts, TypeOK, inputVars, cpVars
<1>15. CASE CompactSnapshot
  <2>1. PICK young : rewrite' = [file |-> file, offset |-> offset,
                                 out |-> Pick(file, Retained(file, offset, young)),
                                 newOffset |-> Rank(Retained(file, offset, young), offset)]
    BY <1>15 DEF CompactSnapshot
  <2>2. PICK f \in Seq(Write), c \in Nat : f = file /\ c = offset
    BY <1>1
  <2>3. PICK K : K = Retained(f, c, young)
    OBVIOUS
  <2>4. Len(f) \in Nat /\ \A i \in K : i \in 1 .. Len(f) /\ f[i] \in Record
    BY <2>2, <2>3, DecodableType, 0 \in Nat DEF Retained
  <2>5. Pick(f, K) \in Seq(Record)
    BY <2>4, PickType
  <2>6. Rank(K, c) \in Nat
    BY <2>4, IntervalInts, RankType, 1 \in Int, Len(f) \in Int DEF Ints
  <2>7. rewrite' \in [file : Seq(Write), offset : Nat, out : Seq(Record), newOffset : Nat]
    BY <2>1, <2>2, <2>3, <2>5, <2>6
  <2>8. QED
    BY <1>15, <2>7 DEF CompactSnapshot, TypeParts, TypeOK, PC, fileVars, inputVars, cpVars
<1>16. CASE CompactRename
  <2>1. rewrite.out \in Seq(Record) /\ rewrite.newOffset \in Nat
    BY DEF TypeParts, TypeOK
  <2>2. file' \in Seq(Write) /\ offset' \in Nat
    BY <1>16, <2>1 DEF CompactRename, Write
  <2>3. stale' \in BOOLEAN
    BY <1>16, Zenon DEF CompactRename
  <2>4. QED
    BY <1>16, <2>2, <2>3 DEF CompactRename, TypeParts, TypeOK, PC, inputVars, cpVars
<1>17. CASE CompactSkips
  BY <1>3, <1>4, <1>17 DEF CompactSkips, TypeParts, TypeOK, fileVars, inputVars, cpVars
<1>18. CASE CompactCheckpoint
  <2>1. stale' \in BOOLEAN
    BY <1>18, Zenon DEF CompactCheckpoint, TypeParts, TypeOK
  <2>2. disk' \in Nat
    BY <1>18 DEF CompactCheckpoint, TypeParts, TypeOK
  <2>3. QED
    BY <1>3, <1>4, <1>18, <2>1, <2>2 DEF CompactCheckpoint, TypeParts, TypeOK, inputVars, cpVars
<1>19. QED
  BY <1>5, <1>6, <1>7, <1>8, <1>9, <1>10, <1>11, <1>12, <1>13, <1>14, <1>15, <1>16,
     <1>17, <1>18, Zenon DEF Flush

\* The steps of the environment are type correct.
LEMMA EnvironmentType ==
    ASSUME TypeParts, Environment
    PROVE  TypeParts'
<1>1. InFlight \subseteq Record
  BY DEF InFlight, TypeParts, TypeOK
<1>2. CASE Store
  BY <1>1, <1>2 DEF Store, TypeParts, TypeOK, PC, fileVars, inputVars
<1>3. ASSUME NEW s \in abandoned, StoreLate(s)
      PROVE  TypeParts'
  BY <1>3 DEF StoreLate, TypeParts, TypeOK, fileVars, flushVars, inputVars
<1>4. CASE ProbeControlPlane
  <2>1. reachable' \in BOOLEAN
    BY <1>4, Zenon DEF ProbeControlPlane
  <2>2. QED
    BY <1>4, <2>1 DEF ProbeControlPlane, TypeParts, TypeOK, fileVars, flushVars, inputVars
<1>5. CASE Crash
  <2>1. more' \in BOOLEAN /\ reachable' \in BOOLEAN
    BY <1>5, Zenon DEF Crash
  <2>2. rewrite' \in [file : Seq(Write), offset : Nat, out : Seq(Record), newOffset : Nat]
    BY <1>5 DEF Crash, NoRewrite
  <2>3. crashes' \in 0 .. MaxCrashes
    BY <1>5, WALAssumption DEF Crash, TypeParts, TypeOK
  <2>4. abandoned' \subseteq SUBSET Record
    BY <1>1, <1>5 DEF Crash, TypeParts, TypeOK
  <2>5. queue' \in Seq(Record \ Usage) /\ Len(queue') <= AdvisoryQueueSize
        /\ batch' \in Seq(Record) /\ Len(batch') = 0 /\ Len(batch') <= FlushMaxEvents
    BY <1>5, WALAssumption DEF Crash
  <2>6. QED
    BY <1>5, <2>1, <2>2, <2>3, <2>4, <2>5 DEF Crash, TypeParts, TypeOK, PC
<1>6. CASE Restart
  BY <1>6 DEF Restart, TypeParts, TypeOK, PC, inputVars, cpVars
<1>7. QED
  BY <1>2, <1>3, <1>4, <1>5, <1>6, Zenon DEF Environment

\* Every step is type correct.
LEMMA NextType ==
    ASSUME TypeParts, [Next]_vars
    PROVE  TypeParts'
<1>1. CASE Next
  BY <1>1, WritersType, FlushType, EnvironmentType DEF Next
<1>2. CASE UNCHANGED vars
  BY <1>2 DEF vars, fileVars, flushVars, inputVars, cpVars, TypeParts, TypeOK
<1>3. QED
  BY <1>1, <1>2

(***************************************************************************)
(* Every variable keeps its type: the batch never exceeds FlushMaxEvents,  *)
(* the advisory queue its capacity, the count of delivered records the     *)
(* batch, and no fragment gets into a compacted file.                      *)
(***************************************************************************)
THEOREM TypeCorrect == Spec => []TypeOK
<1>1. Init => TypeParts
  BY InitType
<1>2. TypeParts /\ [Next]_vars => TypeParts'
  BY NextType
<1>3. TypeParts => TypeOK
  BY DEF TypeParts
<1>4. QED
  BY <1>1, <1>2, <1>3, PTL DEF Spec
-----------------------------------------------------------------------------
(***************************************************************************)
(* IInv is inductive.                                                      *)
(***************************************************************************)

\* Nothing of the log itself changes.
SameLog == UNCHANGED <<file, offset, disk, stale, accepted, swallowed, stored>>

LogParts ==
    /\ pc # "down" => Safe(file, offset, Owed)
    /\ ~stale => Safe(file, disk, Owed)
    /\ pc = "down" => ~stale

LoopParts ==
    /\ Sending => BatchOK(file, offset, batch, sent, stored \cup Unknown)
    /\ pc = "answered" => InFlight \subseteq stored
    /\ pc = "commit" => RewriteOK(rewrite)

\* The parts make up the invariant.
LEMMA Parts == IInv <=> TypeParts /\ LogParts /\ LoopParts
BY Zenon DEF IInv, TypeParts, LogParts, LoopParts

\* A step that leaves the log alone and does not end or start the process.
LEMMA SameLogOK ==
    ASSUME LogParts, SameLog, pc # "down", pc' # "down"
    PROVE  LogParts'
<1>1. Owed' = Owed
  BY DEF SameLog, Owed, Promised
<1>2. QED
  BY <1>1 DEF LogParts, SameLog

\* What the control plane stores is no longer owed.
LEMMA StoreOK ==
    ASSUME LogParts, stored \subseteq stored', pc' = "down" <=> pc = "down",
           UNCHANGED <<file, offset, disk, stale, accepted, swallowed>>
    PROVE  LogParts'
<1>1. \A r \in Owed' : r \in Owed
  BY DEF Owed, Promised
<1>2. QED
  BY <1>1, SafeLess DEF LogParts

\* AppendRecord keeps the log parts and the batch.
LEMMA AppendKeeps ==
    ASSUME TypeOK, LogParts, LoopParts, NEW r \in Record, AppendRecord(r),
           UNCHANGED flushVars, UNCHANGED cpVars
    PROVE  LogParts' /\ LoopParts'
<1>1. /\ file \in Seq(Write) /\ offset \in Nat /\ disk \in Nat /\ batch \in Seq(Record)
      /\ r \in Write /\ Fragment \in Write /\ accepted \in Seq(Record) /\ r # Fragment
      /\ pc # "down" /\ Len(batch) \in Nat
  BY WALAssumption DEF TypeOK, Write, AppendRecord, AppendSucceeds, AppendFails, Unlocked, Up
<1>2. /\ offset' = offset /\ disk' = disk /\ stale' = stale /\ stored' = stored
      /\ pc' = pc /\ batch' = batch /\ sent' = sent /\ segment' = segment /\ rewrite' = rewrite
  BY AppendType DEF flushVars, cpVars
<1>3. PICK w \in Write :
         /\ file' = file \/ file' = Append(file, w)
         /\ \A x \in Owed' : x \in Owed \/ (/\ file' = Append(file, w) /\ x = w /\ w # Fragment
                                            /\ file # <<>> => file[Len(file)] # Fragment)
  <2>1. CASE AppendSucceeds(r)
    <3>1. Promised' \subseteq Promised \cup {r}
      <4>1. accepted' = Append(accepted, r)
        BY <2>1 DEF AppendSucceeds
      <4>2. {accepted'[k] : k \in DOMAIN accepted'} \subseteq {accepted[k] : k \in DOMAIN accepted} \cup {r}
        BY <1>1, <4>1
      <4>3. QED
        BY <4>2 DEF Promised
    <3>2. file' = Append(file, r) /\ swallowed' = IF EndsInFragment THEN swallowed \cup {r} ELSE swallowed
      BY <2>1 DEF AppendSucceeds
    <3>3. \A x \in Owed' : x \in Owed \/ (x = r /\ ~EndsInFragment)
      BY <1>2, <3>1, <3>2 DEF Owed
    <3>4. QED
      BY <1>1, <3>2, <3>3 DEF EndsInFragment
  <2>2. CASE AppendFails
    <3>1. Owed' = Owed
      BY <1>2, <2>2 DEF AppendFails, Owed, Promised
    <3>2. file' = file \/ file' = Append(file, Fragment)
      BY <2>2 DEF AppendFails
    <3>3. QED
      BY <1>1, <3>1, <3>2
  <2>3. QED
    BY <2>1, <2>2 DEF AppendRecord
<1>4. CASE file' = Append(file, w)
  <2>1. ASSUME NEW c \in Nat, Safe(file, c, Owed)
        PROVE  Safe(file', c, Owed')
    BY <1>1, <1>3, <1>4, <2>1, SafeAppend
  <2>2. LogParts'
    BY <1>1, <1>2, <2>1 DEF LogParts
  <2>3. ASSUME Sending
        PROVE  BatchOK(file', offset', batch', sent', stored' \cup Unknown)
    <3>1. BatchOK(file, offset, batch, sent, stored \cup Unknown)
      BY <2>3 DEF LoopParts
    <3>2. offset <= Len(file)
      BY <1>1 DEF LogParts, Safe
    <3>3. BatchOK(Append(file, w), offset, batch, sent, stored \cup Unknown)
      BY <1>1, <3>1, <3>2, BatchAppend
    <3>4. QED
      BY <1>2, <1>4, <3>3
  <2>4. LoopParts'
    BY <1>2, <2>3 DEF LoopParts, Sending, InFlight
  <2>5. QED
    BY <2>2, <2>4
<1>5. CASE file' = file
  <2>1. \A x \in Owed' : x \in Owed \/ (file' = Append(file, w) /\ x = w)
    BY <1>3
  <2>2. file' # Append(file, w)
    <3>1. Len(Append(file, w)) = Len(file) + 1 /\ Len(file) \in Nat
      BY <1>1
    <3>2. QED
      BY <1>5, <3>1
  <2>3. LogParts'
    BY <1>1, <1>2, <1>5, <2>1, <2>2, SafeLess DEF LogParts
  <2>4. LoopParts'
    BY <1>2, <1>5 DEF LoopParts, Sending, InFlight
  <2>5. QED
    BY <2>3, <2>4
<1>6. QED
  BY <1>3, <1>4, <1>5
\* The writers keep the invariant.
LEMMA WritersKeep ==
    ASSUME TypeOK, LogParts, LoopParts, Writers
    PROVE  LogParts' /\ LoopParts'
<1>1. ASSUME NEW r \in Record, HandlerAppend(r)
      PROVE  LogParts' /\ LoopParts'
  BY <1>1, AppendKeeps DEF HandlerAppend
<1>2. ASSUME NEW r \in Record, EnqueueAdvisoryRecord(r)
      PROVE  LogParts' /\ LoopParts'
  <2>1. SameLog /\ pc' = pc /\ pc # "down"
    BY <1>2 DEF EnqueueAdvisoryRecord, SameLog, fileVars, flushVars, cpVars, Up
  <2>2. LoopParts'
    BY <1>2 DEF EnqueueAdvisoryRecord, fileVars, flushVars, cpVars, LoopParts, Sending, InFlight
  <2>3. QED
    BY <2>1, <2>2, SameLogOK
<1>3. ASSUME WriteAdvisoryRecord
      PROVE  LogParts' /\ LoopParts'
  <2>1. Head(queue) \in Record
    BY <1>3 DEF WriteAdvisoryRecord, TypeOK
  <2>2. PICK r \in Record : AppendRecord(r) /\ UNCHANGED flushVars /\ UNCHANGED cpVars
    BY <1>3, <2>1 DEF WriteAdvisoryRecord
  <2>3. QED
    BY <2>2, AppendKeeps
<1>4. QED
  BY <1>1, <1>2, <1>3, Zenon DEF Writers

\* The flush loop keeps the invariant.
LEMMA FlushKeeps ==
    ASSUME TypeParts, LogParts, LoopParts, Flush
    PROVE  LogParts' /\ LoopParts'
<1>1. /\ file \in Seq(Write) /\ offset \in Nat /\ disk \in Nat /\ batch \in Seq(Record)
      /\ Len(batch) \in Nat /\ sent \in 0 .. Len(batch) /\ segment \in 0 .. Len(batch) - sent
  BY DEF TypeParts, TypeOK
<1>2. AfterMark \in {"read", "idle"}
  BY DEF AfterMark
<1>3. ASSUME SameLog, pc # "down", pc' \in {"idle", "read"}
      PROVE  LogParts' /\ LoopParts'
  BY <1>3, SameLogOK DEF LoopParts, Sending
<1>4. CASE FlushStart
  BY <1>3, <1>4 DEF FlushStart, SameLog, fileVars, inputVars, cpVars
<1>5. CASE ReadBatch
  <2>1. SameLog /\ pc = "read" /\ pc' \in {"idle", "send"} /\ sent' = 0
        /\ batch' = Undelivered(file, offset, FlushMaxEvents)
    BY <1>5 DEF ReadBatch, SameLog, fileVars, inputVars, cpVars
  <2>2. PICK b : b = Undelivered(file, offset, FlushMaxEvents)
    OBVIOUS
  <2>3. FlushMaxEvents \in Nat
    BY WALAssumption
  <2>4. BatchOK(file, offset, b, 0, stored \cup Unknown)
    BY <1>1, <2>2, <2>3, ReadOK DEF BatchOK
  <2>5. BatchOK(file', offset', batch', sent', stored' \cup Unknown)
    BY <2>1, <2>2, <2>4 DEF SameLog
  <2>6. LoopParts'
    BY <2>1, <2>5 DEF LoopParts
  <2>7. QED
    BY <2>1, <2>6, SameLogOK
<1>6. CASE ReadFails
  BY <1>3, <1>6 DEF ReadFails, SameLog, fileVars, inputVars, cpVars
<1>7. CASE Send
  <2>1. SameLog /\ pc = "send" /\ pc' = "wait" /\ batch' = batch /\ sent' = sent
    BY <1>7 DEF Send, SameLog, fileVars, inputVars, cpVars
  <2>2. LoopParts'
    BY <2>1 DEF LoopParts, Sending, SameLog
  <2>3. QED
    BY <2>1, <2>2, SameLogOK
<1>8. CASE SkipUnknown
  <2>1. SameLog /\ pc = "send" /\ pc' = "send" /\ batch' = batch /\ sent' = sent + 1
        /\ batch[sent + 1] \in Unknown
    BY <1>8 DEF SkipUnknown, SameLog, fileVars, inputVars, cpVars
  <2>2. BatchOK(file, offset, batch, sent, stored \cup Unknown)
    BY <2>1 DEF LoopParts, Sending
  <2>3. \A k \in 1 .. sent + 1 : batch[k] \in stored \cup Unknown
    <3>1. \A k \in 1 .. sent + 1 : k \in 1 .. sent \/ k = sent + 1
      BY <1>1
    <3>2. QED
      BY <2>1, <2>2, <3>1 DEF BatchOK
  <2>4. BatchOK(file, offset, batch, sent + 1, stored \cup Unknown)
    BY <2>2, <2>3 DEF BatchOK
  <2>5. LoopParts'
    BY <2>1, <2>4 DEF LoopParts, SameLog
  <2>6. QED
    BY <2>1, <2>5, SameLogOK
<1>9. ASSUME NEW n \in 0 .. segment, Ack(n)
      PROVE  LogParts' /\ LoopParts'
  <2>1. SameLog /\ pc = "answered" /\ pc' = "send" /\ batch' = batch /\ sent' = sent + n
    BY <1>9 DEF Ack, SameLog, fileVars, inputVars, cpVars
  <2>2. BatchOK(file, offset, batch, sent, stored \cup Unknown) /\ InFlight \subseteq stored
    BY <2>1 DEF LoopParts, Sending
  <2>3. \A k \in 1 .. sent + n : batch[k] \in stored \cup Unknown
    <3>1. \A k \in 1 .. sent + n : k \in 1 .. sent \/ k \in sent + 1 .. sent + segment
      BY <1>1
    <3>2. \A k \in sent + 1 .. sent + segment : batch[k] \in stored
      BY <2>2 DEF InFlight
    <3>3. QED
      BY <2>2, <3>1, <3>2 DEF BatchOK
  <2>4. BatchOK(file, offset, batch, sent + n, stored \cup Unknown)
    BY <2>2, <2>3 DEF BatchOK
  <2>5. LoopParts'
    BY <2>1, <2>4 DEF LoopParts, SameLog
  <2>6. QED
    BY <2>1, <2>5, SameLogOK
<1>10. CASE SendFails
  <2>1. SameLog /\ pc \in {"wait", "answered"} /\ pc' = "mark" /\ batch' = batch /\ sent' = sent
    BY <1>10 DEF SendFails, SameLog, fileVars, inputVars
  <2>2. LoopParts'
    BY <2>1 DEF LoopParts, Sending, SameLog
  <2>3. QED
    BY <2>1, <2>2, SameLogOK
<1>11. CASE BatchDone
  <2>1. SameLog /\ pc = "send" /\ pc' = "mark" /\ batch' = batch /\ sent' = sent
    BY <1>11 DEF BatchDone, SameLog, fileVars, inputVars, cpVars
  <2>2. LoopParts'
    BY <2>1 DEF LoopParts, Sending, SameLog
  <2>3. QED
    BY <2>1, <2>2, SameLogOK
<1>12. CASE MarkNothing
  BY <1>2, <1>3, <1>12 DEF MarkNothing, SameLog, fileVars, inputVars, cpVars
<1>13. CASE MarkDelivered
  <2>1. PICK o \in {offset} \cup LineEnds(file, offset) :
           /\ ScansTo(file, offset, sent, o)
           /\ offset' = o
           /\ \/ disk' = o /\ stale' = FALSE /\ pc' = "snapshot"
              \/ UNCHANGED <<disk, stale>> /\ pc' = AfterMark
    BY <1>13, Zenon DEF MarkDelivered
  <2>2. pc = "mark" /\ UNCHANGED <<file, accepted, swallowed, stored>>
    BY <1>13 DEF MarkDelivered, inputVars, cpVars
  <2>3. Owed' = Owed
    BY <2>2 DEF Owed, Promised
  <2>4. Safe(file, offset, Owed) /\ BatchOK(file, offset, batch, sent, stored \cup Unknown)
    BY <2>2 DEF LogParts, LoopParts, Sending
  <2>5. \A r \in Owed : r \notin stored \cup Unknown
    BY DEF Owed, Promised
  <2>6. sent \in Nat /\ sent <= Len(batch)
    BY <1>1
  <2>7. Safe(file, o, Owed)
    BY <1>1, <2>1, <2>4, <2>5, <2>6, SafeMark
  <2>8. Safe(file', offset', Owed')
    BY <2>1, <2>2, <2>3, <2>7
  <2>9. ~stale' => Safe(file', disk', Owed')
    <3>1. CASE disk' = o
      BY <2>2, <2>3, <2>7, <3>1
    <3>2. CASE disk' = disk /\ stale' = stale
      BY <2>2, <2>3, <3>2 DEF LogParts
    <3>3. QED
      BY <2>1, <3>1, <3>2
  <2>10. pc' \in {"snapshot", "read", "idle"}
    BY <1>2, <2>1
  <2>11. LogParts' /\ LoopParts'
    BY <2>8, <2>9, <2>10 DEF LogParts, LoopParts, Sending
  <2>12. QED
    BY <2>11
<1>14. CASE CompactSnapshot
  <2>1. SameLog /\ pc = "snapshot" /\ pc' = "commit"
    BY <1>14 DEF CompactSnapshot, SameLog, fileVars, inputVars, cpVars
  <2>2. PICK young \in SUBSET (1 .. offset) :
           rewrite' = [file |-> file, offset |-> offset,
                       out |-> Pick(file, Retained(file, offset, young)),
                       newOffset |-> Rank(Retained(file, offset, young), offset)]
    BY <1>14 DEF CompactSnapshot
  <2>3. /\ rewrite'.file = file /\ rewrite'.offset = offset
        /\ rewrite'.out = Pick(file, Retained(file, offset, young))
        /\ rewrite'.newOffset = Rank(Retained(file, offset, young), offset)
    BY <2>2
  <2>4. RewriteOK(rewrite')
    BY <2>3, Zenon DEF RewriteOK
  <2>5. LoopParts'
    BY <2>1, <2>4 DEF LoopParts, Sending
  <2>6. QED
    BY <2>1, <2>5, SameLogOK
<1>15. CASE CompactRename
  <2>1. /\ pc = "commit" /\ pc' = "renamed" /\ stale' = TRUE
        /\ file' = rewrite.out /\ offset' = rewrite.newOffset
        /\ offset = rewrite.offset /\ file = rewrite.file
        /\ UNCHANGED <<accepted, swallowed, stored>>
    BY <1>15 DEF CompactRename, inputVars, cpVars
  <2>2. Owed' = Owed
    BY <2>1 DEF Owed, Promised
  <2>3. Safe(file, offset, Owed) /\ RewriteOK(rewrite)
    BY <2>1 DEF LogParts, LoopParts
  <2>4. Safe(rewrite.out, rewrite.newOffset, Owed)
    BY <1>1, <2>1, <2>3, SafeCompact
  <2>5. Safe(file', offset', Owed')
    BY <2>1, <2>2, <2>4
  <2>6. LogParts' /\ LoopParts'
    BY <2>1, <2>5 DEF LogParts, LoopParts, Sending
  <2>7. QED
    BY <2>6
<1>16. CASE CompactSkips
  BY <1>2, <1>3, <1>16 DEF CompactSkips, SameLog, fileVars, inputVars, cpVars
<1>17. CASE CompactCheckpoint
  <2>1. /\ pc = "renamed" /\ pc' \in {"read", "idle"}
        /\ (disk' = offset /\ stale' = FALSE) \/ (disk' = disk /\ stale' = stale)
        /\ UNCHANGED <<file, offset, accepted, swallowed, stored>>
    BY <1>2, <1>17 DEF CompactCheckpoint, inputVars, cpVars
  <2>2. Owed' = Owed
    BY <2>1 DEF Owed, Promised
  <2>3. QED
    BY <2>1, <2>2 DEF LogParts, LoopParts, Sending
<1>18. QED
  BY <1>4, <1>5, <1>6, <1>7, <1>8, <1>9, <1>10, <1>11, <1>12, <1>13, <1>14, <1>15, <1>16,
     <1>17, Zenon DEF Flush

\* The control plane, crashes and restarts keep the invariant, if no crash
\* meets a checkpoint that is behind a rename.
LEMMA EnvironmentKeeps ==
    ASSUME TypeParts, LogParts, LoopParts, Environment, CrashOnStaleCheckpoint = FALSE
    PROVE  LogParts' /\ LoopParts'
<1>1. CASE Store
  <2>1. /\ pc = "wait" /\ pc' = "answered" /\ stored' = stored \cup InFlight
        /\ UNCHANGED <<file, offset, disk, stale, accepted, swallowed, batch, sent, segment>>
    BY <1>1 DEF Store, fileVars, inputVars
  <2>2. BatchOK(file, offset, batch, sent, stored \cup Unknown)
    BY <2>1 DEF LoopParts, Sending
  <2>3. BatchOK(file, offset, batch, sent, stored' \cup Unknown)
    BY <2>1, <2>2 DEF BatchOK
  <2>4. LoopParts'
    BY <2>1, <2>3 DEF LoopParts, InFlight
  <2>5. QED
    BY <2>1, <2>4, StoreOK
<1>2. ASSUME NEW s \in abandoned, StoreLate(s)
      PROVE  LogParts' /\ LoopParts'
  <2>1. /\ stored \subseteq stored' /\ pc' = pc
        /\ UNCHANGED <<file, offset, disk, stale, accepted, swallowed, batch, sent, segment, rewrite>>
    BY <1>2 DEF StoreLate, fileVars, flushVars, inputVars
  <2>2. ASSUME Sending
        PROVE  BatchOK(file, offset, batch, sent, stored' \cup Unknown)
    <3>1. BatchOK(file, offset, batch, sent, stored \cup Unknown)
      BY <2>2 DEF LoopParts
    <3>2. QED
      BY <2>1, <3>1 DEF BatchOK
  <2>3. LoopParts'
    BY <2>1, <2>2 DEF LoopParts, Sending, InFlight
  <2>4. QED
    BY <2>1, <2>3, StoreOK
<1>3. CASE ProbeControlPlane
  <2>1. SameLog /\ pc # "down" /\ pc' = pc /\ UNCHANGED <<batch, sent, segment, rewrite>>
    BY <1>3 DEF ProbeControlPlane, SameLog, Up, fileVars, flushVars, inputVars
  <2>2. LoopParts'
    BY <2>1 DEF LoopParts, Sending, SameLog, InFlight
  <2>3. QED
    BY <2>1, <2>2, SameLogOK
<1>4. CASE Crash
  <2>1. ~stale /\ pc' = "down" /\ UNCHANGED <<file, disk, stale, accepted, swallowed, stored>>
    BY <1>4 DEF Crash
  <2>2. Owed' = Owed
    BY <2>1 DEF Owed, Promised
  <2>3. QED
    BY <2>1, <2>2 DEF LogParts, LoopParts, Sending
<1>5. CASE Restart
  <2>1. /\ pc = "down" /\ pc' = "idle" /\ offset' \in {disk, 0}
        /\ UNCHANGED <<file, disk, stale, accepted, swallowed, stored>>
    BY <1>5 DEF Restart, inputVars, cpVars
  <2>2. Owed' = Owed
    BY <2>1 DEF Owed, Promised
  <2>3. Safe(file, disk, Owed)
    BY <2>1 DEF LogParts
  <2>4. Safe(file, 0, Owed)
    BY <2>3, SafeFromStart DEF TypeParts, TypeOK
  <2>5. Safe(file', offset', Owed')
    BY <2>1, <2>2, <2>3, <2>4
  <2>6. QED
    BY <2>1, <2>2, <2>5 DEF LogParts, LoopParts, Sending
<1>6. QED
  BY <1>1, <1>2, <1>3, <1>4, <1>5, Zenon DEF Environment

\* The invariant holds throughout.
THEOREM Invariance ==
    ASSUME CrashOnStaleCheckpoint = FALSE
    PROVE  Spec => []IInv
<1>1. ASSUME Init
      PROVE  IInv
  <2>1. /\ file = <<>> /\ offset = 0 /\ disk = 0 /\ accepted = <<>> /\ pc = "idle"
    BY <1>1 DEF Init
  <2>2. Owed = {}
    BY <2>1 DEF Owed, Promised
  <2>3. Safe(file, 0, Owed)
    BY <2>1, <2>2 DEF Safe
  <2>4. LogParts /\ LoopParts
    BY <2>1, <2>3 DEF LogParts, LoopParts, Sending
  <2>5. QED
    BY <1>1, <2>4, InitType, Parts
<1>2. ASSUME IInv, [Next]_vars
      PROVE  IInv'
  <2>1. TypeParts /\ LogParts /\ LoopParts /\ TypeOK
    BY <1>2, Parts DEF TypeParts
  <2>2. TypeParts'
    BY <1>2, <2>1, NextType
  <2>3. LogParts' /\ LoopParts'
    <3>1. CASE Next
      BY <2>1, <3>1, WritersKeep, FlushKeeps, EnvironmentKeeps DEF Next
    <3>2. CASE UNCHANGED vars
      BY <2>1, <3>2 DEF vars, fileVars, flushVars, inputVars, cpVars, LogParts, LoopParts,
                        Sending, InFlight, Owed, Promised
    <3>3. QED
      BY <1>2, <3>1, <3>2
  <2>4. QED
    BY <2>2, <2>3, Zenon DEF IInv, TypeParts, LogParts, LoopParts
<1>3. QED
  BY <1>1, <1>2, PTL DEF Spec

(***************************************************************************)
(* No record that AppendRecord accepted and wrote at the start of a line   *)
(* is lost: MarkDelivered, Compact, failed checkpoint writes, late answers *)
(* and restarts never move the resume offset past a record the control     *)
(* plane has not stored.  The one exception is a crash that meets a        *)
(* checkpoint older than the last rename.                                  *)
(***************************************************************************)
THEOREM NoLoss ==
    ASSUME CrashOnStaleCheckpoint = FALSE
    PROVE  Spec => []NoOtherLoss
<1>1. IInv => NoOtherLoss
  BY DEF IInv, Safe, NoOtherLoss, Lost, IsPending, Resume, Up, Owed
<1>2. QED
  BY <1>1, Invariance, PTL
-----------------------------------------------------------------------------
(***************************************************************************)
(* Without torn writes no line is ever spoilt.                             *)
(***************************************************************************)
Whole == TypeParts /\ file \in Seq(Record) /\ swallowed = {}

\* An append extends a whole file with a whole line.
LEMMA WholeAppend ==
    ASSUME Whole, TornWrites = FALSE, NEW r \in Record, AppendRecord(r)
    PROVE  file' \in Seq(Record) /\ swallowed' = {}
<1>1. ~EndsInFragment
  BY WALAssumption DEF Whole, EndsInFragment
<1>2. file' = file \/ file' = Append(file, r)
  BY DEF AppendRecord, AppendSucceeds, AppendFails
<1>3. swallowed' = swallowed
  BY <1>1 DEF AppendRecord, AppendSucceeds, AppendFails
<1>4. QED
  BY <1>2, <1>3 DEF Whole

(***************************************************************************)
(* wal.go's "durable, at-least-once delivery" holds in full when no write  *)
(* is torn and no crash meets a checkpoint older than the last rename.     *)
(* Both conditions are needed: the runs without them end in a loss.        *)
(***************************************************************************)
THEOREM AtLeastOnceDelivery ==
    ASSUME CrashOnStaleCheckpoint = FALSE, TornWrites = FALSE
    PROVE  Spec => []AtLeastOnce
<1>1. ASSUME Init
      PROVE  Whole
  <2>1. file = <<>> /\ swallowed = {}
    BY <1>1 DEF Init
  <2>2. QED
    BY <1>1, <2>1, InitType DEF Whole
<1>2. ASSUME Whole, [Next]_vars
      PROVE  Whole'
  <2>1. TypeParts'
    BY <1>2, NextType DEF Whole
  <2>2. TypeOK
    BY <1>2 DEF Whole, TypeParts
  <2>3. CASE Writers
    <3>1. ASSUME NEW r \in Record, HandlerAppend(r) \/ EnqueueAdvisoryRecord(r)
          PROVE  file' \in Seq(Record) /\ swallowed' = {}
      BY <1>2, <3>1, WholeAppend DEF HandlerAppend, EnqueueAdvisoryRecord, Whole, fileVars
    <3>2. ASSUME WriteAdvisoryRecord
          PROVE  file' \in Seq(Record) /\ swallowed' = {}
      <4>1. Head(queue) \in Record
        BY <2>2, <3>2 DEF WriteAdvisoryRecord, TypeOK
      <4>2. PICK r \in Record : AppendRecord(r)
        BY <3>2, <4>1 DEF WriteAdvisoryRecord
      <4>3. QED
        BY <1>2, <4>2, WholeAppend
    <3>3. QED
      BY <2>1, <2>3, <3>1, <3>2, Zenon DEF Writers, Whole
  <2>4. CASE CompactRename
    BY <1>2, <2>1, <2>2, <2>4 DEF CompactRename, Whole, TypeOK, inputVars
  <2>5. CASE UNCHANGED <<file, swallowed>>
    BY <1>2, <2>1, <2>5 DEF Whole
  <2>6. Flush => CompactRename \/ UNCHANGED <<file, swallowed>>
    BY DEF Flush, FlushStart, ReadBatch, ReadFails, Send, SkipUnknown, Ack, SendFails, BatchDone,
           MarkNothing, MarkDelivered, CompactSnapshot, CompactSkips, CompactCheckpoint,
           fileVars, inputVars
  <2>7. Environment => UNCHANGED <<file, swallowed>>
    BY DEF Environment, Store, StoreLate, ProbeControlPlane, Crash, Restart, fileVars, inputVars
  <2>8. UNCHANGED vars => UNCHANGED <<file, swallowed>>
    BY DEF vars, fileVars, inputVars
  <2>9. QED
    BY <1>2, <2>3, <2>4, <2>5, <2>6, <2>7, <2>8 DEF Next
<1>3. Whole /\ NoOtherLoss => AtLeastOnce
  BY DEF Whole, NoOtherLoss, AtLeastOnce
<1>4. QED
  BY <1>1, <1>2, <1>3, NoLoss, PTL DEF Spec
=============================================================================
