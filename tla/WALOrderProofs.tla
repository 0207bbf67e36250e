--------------------------- MODULE WALOrderProofs ---------------------------
(***************************************************************************)
(* The order of the log, for every set of records and all bounds: Compact  *)
(* keeps the records to be sent and their order, records are stored in the *)
(* order in which they were accepted, and so the log implements            *)
(* OutboundLog (but for its fairness).                                     *)
(***************************************************************************)
EXTENDS WALProofs, SequenceTheorems

-----------------------------------------------------------------------------
(***************************************************************************)
(* Compact.                                                                *)
(***************************************************************************)

\* In an interval an element's rank is its distance from the start.
LEMMA RankInterval ==
    ASSUME NEW d \in Nat, NEW n \in Nat, NEW j \in d + 1 .. n
    PROVE  Rank(d + 1 .. n, j) = j - d
<1>1. {x \in d + 1 .. n : x <= j} = d + 1 .. j
  OBVIOUS
<1>2. Cardinality(d + 1 .. j) = j - d
  BY FS_Interval, d + 1 \in Int, j \in Int
<1>3. QED
  BY <1>1, <1>2 DEF Rank

\* Behind c, the rank in K is the rank among the elements behind c, shifted.
LEMMA RankBehind ==
    ASSUME NEW K, Ints(K), NEW c \in Int, NEW D, D = {i \in K : i > c},
           NEW i \in Int, i >= c
    PROVE  Rank(K, i) = Rank(K, c) + Rank(D, i)
<1> DEFINE A == {j \in K : j <= c}
           B == {j \in D : j <= i}
<1>1. A \in SUBSET K /\ B \in SUBSET K
  OBVIOUS
<1>2. IsFiniteSet(A) /\ IsFiniteSet(B)
  BY <1>1, FS_Subset DEF Ints
<1>3. A \cap B = {}
  BY DEF Ints
<1>4. {j \in K : j <= i} = A \cup B
  BY DEF Ints
<1> HIDE DEF A, B
<1>5. Cardinality(A \cup B) = Cardinality(A) + Cardinality(B) - Cardinality(A \cap B)
  BY <1>2, FS_Union
<1>6. Cardinality(A \cap B) = 0
  BY <1>3, FS_EmptySet
<1>7. Cardinality(A) \in Nat /\ Cardinality(B) \in Nat
  BY <1>2, FS_CardinalityType
<1>8. Cardinality({j \in K : j <= i}) = Cardinality(A) + Cardinality(B)
  <2>1. Cardinality({j \in K : j <= i}) = Cardinality(A \cup B)
    BY <1>4, Zenon
  <2>2. QED
    BY <1>5, <1>6, <1>7, <2>1
<1>9. QED
  BY <1>8 DEF Rank, A, B

\* A rank behind the last element is the size of the set.
LEMMA RankAll ==
    ASSUME NEW K, NEW n, \A i \in K : i <= n
    PROVE  Rank(K, n) = Cardinality(K)
<1>1. {j \in K : j <= n} = K
  OBVIOUS
<1>2. QED
  BY <1>1 DEF Rank

\* The lines behind the new offset of the compacted file are those behind the
\* old one, in their order.
LEMMA CompactKeepsOrder ==
    ASSUME NEW f \in Seq(Write), NEW c \in Nat, c <= Len(f), c > 0 => f[c] # Fragment,
           NEW young, NEW K, K = Retained(f, c, young),
           NEW g, g = Pick(f, K), NEW d, d = Rank(K, c)
    PROVE  Pick(g, Decodable(g, d)) = Pick(f, Decodable(f, c))
<1> DEFINE D == Decodable(f, c)
           E == Decodable(g, d)
<1>1. /\ Len(f) \in Nat
      /\ \A i \in Decodable(f, 0) : i \in 1 .. Len(f) /\ f[i] \in Record
      /\ \A i \in D : i \in 1 .. Len(f) /\ i > c
  BY DecodableType, 0 \in Nat
<1>2. \A i \in K : i \in 1 .. Len(f) /\ f[i] \in Record
  BY <1>1 DEF Retained
<1>3. Ints(K)
  BY <1>1, <1>2, IntervalInts, 1 \in Int, Len(f) \in Int
<1>4. g \in Seq(Record) /\ Len(g) = Cardinality(K) /\ Len(g) \in Nat
  BY <1>1, <1>2, PickType
<1>5. d \in Nat /\ d <= Len(g)
  BY <1>3, <1>4, RankType DEF Ints
<1>6. D = {i \in K : i > c}
  <2>1. ASSUME NEW i \in D PROVE i \in K
    <3>1. i \in 1 .. Len(f) /\ i > c
      BY <1>1
    <3>2. f[i] # Fragment /\ (i = c + 1 \/ f[i - 1] # Fragment)
      BY DEF Decodable
    <3>3. i \in Decodable(f, 0)
      BY <3>1, <3>2 DEF Decodable
    <3>4. QED
      BY <3>1, <3>3 DEF Retained
  <2>2. ASSUME NEW i \in K, i > c PROVE i \in D
    <3>1. i \in Decodable(f, 0) /\ i \in 1 .. Len(f)
      BY <1>2 DEF Retained
    <3>2. f[i] # Fragment /\ (i = 1 \/ f[i - 1] # Fragment)
      BY <3>1 DEF Decodable
    <3>3. QED
      BY <2>2, <3>1, <3>2 DEF Decodable
  <2>3. QED
    BY <1>1, <2>1, <2>2
<1>7. E = d + 1 .. Len(g)
  <2>1. \A j \in 1 .. Len(g) : g[j] # Fragment
    BY <1>4, WALAssumption
  <2>2. QED
    BY <1>4, <1>5, <2>1 DEF Decodable
<1> HIDE DEF D, E
<1>8. Ints(D) /\ \A i \in D : i \in 1 .. Len(f)
  BY <1>1, <1>6, IntervalInts, 1 \in Int, Len(f) \in Int
<1>9. Ints(E) /\ \A i \in E : i \in 1 .. Len(g)
  <2>1. \A i \in E : i \in 1 .. Len(g)
    BY <1>4, <1>5, <1>7
  <2>2. 1 \in Int /\ Len(g) \in Int
    BY <1>4
  <2>3. QED
    BY <2>1, <2>2, IntervalInts
<1>10. Cardinality(K) = d + Cardinality(D)
  <2>1. Rank(K, Len(f)) = Rank(K, c) + Rank(D, Len(f))
    BY <1>1, <1>3, <1>6, RankBehind
  <2>2. Rank(K, Len(f)) = Cardinality(K) /\ Rank(D, Len(f)) = Cardinality(D)
    BY <1>2, <1>8, RankAll
  <2>3. QED
    BY <2>1, <2>2
<1>11. Cardinality(D) \in Nat
  BY <1>8, FS_CardinalityType DEF Ints
<1>12. Cardinality(E) = Cardinality(D)
  <2>1. Cardinality(d + 1 .. Len(g)) = Len(g) - d
    <3>1. d + 1 \in Int /\ Len(g) \in Int /\ d + 1 <= Len(g) + 1
      BY <1>4, <1>5
    <3>2. Cardinality(d + 1 .. Len(g)) = IF d + 1 > Len(g) THEN 0 ELSE Len(g) - (d + 1) + 1
      BY <3>1, FS_Interval
    <3>3. QED
      BY <1>4, <1>5, <3>1, <3>2
  <2>2. QED
    BY <1>4, <1>5, <1>7, <1>10, <1>11, <2>1
<1>13. ASSUME NEW m \in 1 .. Cardinality(D)
       PROVE  Pick(g, E)[m] = Pick(f, D)[m]
  <2>1. PICK i \in D : Rank(D, i) = m
    BY <1>1, <1>8, RankOnto
  <2>2. i \in K /\ i \in Int /\ i >= c
    BY <1>6, <1>8 DEF Ints
  <2>3. Rank(K, i) = d + m
    BY <1>3, <1>6, <2>1, <2>2, RankBehind
  <2>4. g[d + m] = f[i]
    BY <1>3, <2>2, <2>3, PickAt
  <2>5. d + m \in d + 1 .. Len(g)
    BY <1>4, <1>5, <1>10, <1>11
  <2>6. Rank(E, d + m) = m
    BY <1>4, <1>5, <1>7, <2>5, RankInterval
  <2>7. Pick(g, E)[Rank(E, d + m)] = g[d + m]
    <3>1. d + m \in E
      BY <1>7, <2>5
    <3>2. QED
      BY <1>9, <3>1, PickAt, Zenon
  <2>8. Pick(f, D)[Rank(D, i)] = f[i]
    BY <1>8, PickAt
  <2>9. QED
    BY <2>1, <2>4, <2>6, <2>7, <2>8
<1>14. Pick(g, E) = Pick(f, D)
  <2>1. /\ Pick(g, E) = [m \in 1 .. Cardinality(D) |-> Pick(g, E)[m]]
        /\ Pick(f, D) = [m \in 1 .. Cardinality(D) |-> Pick(f, D)[m]]
    BY <1>12 DEF Pick
  <2>2. QED
    BY <1>13, <2>1
<1>15. QED
  BY <1>14 DEF D, E

(***************************************************************************)
(* Whatever is appended or marked while Compact writes its temporary file, *)
(* the rename leaves the records to be sent, and their order, as they were *)
(* (if no crash has met a checkpoint older than a rename).                 *)
(***************************************************************************)
THEOREM CompactionIsSafe ==
    ASSUME CrashOnStaleCheckpoint = FALSE
    PROVE  Spec => CompactionKeepsPending
<1> DEFINE Keeps == pc = "commit" /\ pc' = "renamed" => Pending' = Pending
<1>1. ASSUME IInv, [Next]_vars PROVE [Keeps]_vars
  <2>1. SUFFICES ASSUME Next, pc = "commit", pc' = "renamed" PROVE Pending' = Pending
    BY <1>1
  <2>2. CompactRename
    BY <2>1 DEF Next, Writers, HandlerAppend, EnqueueAdvisoryRecord, WriteAdvisoryRecord, Flush,
       FlushStart, ReadBatch, ReadFails, Send, SkipUnknown, Ack, SendFails, BatchDone,
       MarkNothing, MarkDelivered, CompactSnapshot, CompactSkips, CompactCheckpoint,
       AfterMark, Environment, Store, StoreLate, ProbeControlPlane, Crash, Restart, flushVars
  <2>3. /\ file \in Seq(Write) /\ offset \in Nat /\ Safe(file, offset, Owed)
        /\ RewriteOK(rewrite)
    BY <1>1, <2>1 DEF IInv, TypeOK
  <2>4. /\ offset = rewrite.offset /\ file = rewrite.file
        /\ file' = rewrite.out /\ offset' = rewrite.newOffset
    BY <2>2 DEF CompactRename
  <2>5. PICK young : /\ rewrite.out = Pick(file, Retained(file, offset, young))
                     /\ rewrite.newOffset = Rank(Retained(file, offset, young), offset)
    BY <2>3, <2>4 DEF RewriteOK
  <2>6. Pick(file', Decodable(file', offset')) = Pick(file, Decodable(file, offset))
    BY <2>3, <2>4, <2>5, CompactKeepsOrder DEF Safe
  <2>7. Resume = offset /\ Resume' = offset'
    BY <2>1 DEF Resume, Up
  <2>8. QED
    BY <2>6, <2>7 DEF Pending
<1>2. QED
  BY <1>1, Invariance, PTL DEF Spec, CompactionKeepsPending

-----------------------------------------------------------------------------
(***************************************************************************)
(* The invariant of the order.                                             *)
(***************************************************************************)

Elems(a) == {a[k] : k \in DOMAIN a}

Distinct(a) == \A j, k \in DOMAIN a : a[j] = a[k] => j = k

\* The whole lines of f are records of a, in the order of a.
InOrder(f, a) ==
    /\ \A i \in DOMAIN f : f[i] # Fragment => f[i] \in Elems(a)
    /\ \A p, q \in DOMAIN f, j, k \in DOMAIN a :
          p < q /\ f[p] = a[j] /\ f[q] = a[k] => j < k

\* A swallowed record of f stands behind a fragment.
BehindFragments(f, sw) == \A i \in DOMAIN f : f[i] \in sw => i > 1 /\ f[i - 1] = Fragment

\* S holds whatever was accepted, intact, before an element of S.
Closed(S, a, sw) ==
    \A j, k \in DOMAIN a :
        j < k /\ a[k] \in S /\ a[j] \notin Unknown /\ a[j] \notin sw => a[j] \in S

\* S holds only records that were accepted intact.
Sound(S, a, sw) == \A r \in S : r \in Elems(a) /\ r \notin Unknown /\ r \notin sw

\* No record is offered, queued or accepted twice.
OnceInv ==
    /\ Distinct(accepted) /\ Distinct(queue)
    /\ \A r \in Elems(accepted) : r \notin fresh
    /\ \A r \in Elems(queue) : r \notin fresh /\ r \notin Elems(accepted)

FileInv ==
    /\ InOrder(file, accepted) /\ BehindFragments(file, swallowed)
    /\ swallowed \subseteq Elems(accepted)

\* What is stored, and what it would be if a request the proxy gave up were run.
StoredInv ==
    /\ Sound(stored, accepted, swallowed) /\ Closed(stored, accepted, swallowed)
    /\ \A s \in abandoned : /\ Sound(s, accepted, swallowed)
                            /\ Closed(stored \cup s, accepted, swallowed)

\* No request carries a record of a type the client does not know.
RequestInv == pc = "wait" => \A r \in InFlight : r \notin Unknown

OrderInv == OnceInv /\ FileInv /\ StoredInv /\ RequestInv

-----------------------------------------------------------------------------
(***************************************************************************)
(* Appending and picking.                                                  *)
(***************************************************************************)

\* A sequence with one more element.
LEMMA Appended ==
    ASSUME NEW S, NEW a \in Seq(S), NEW r \in S, NEW b, b = Append(a, r)
    PROVE  /\ b \in Seq(S) /\ Len(a) \in Nat /\ Len(b) = Len(a) + 1
           /\ DOMAIN a = 1 .. Len(a) /\ DOMAIN b = 1 .. Len(a) + 1
           /\ b[Len(a) + 1] = r /\ \A i \in DOMAIN a : b[i] = a[i] /\ i \in DOMAIN b
           /\ \A i \in DOMAIN b : i \in DOMAIN a \/ i = Len(a) + 1
OBVIOUS

\* Its elements.
LEMMA ElemsAppend ==
    ASSUME NEW S, NEW a \in Seq(S), NEW r \in S
    PROVE  Elems(Append(a, r)) = Elems(a) \cup {r}
<1>1. PICK b : b = Append(a, r)
  OBVIOUS
<1>2. Elems(b) = Elems(a) \cup {r}
  <2>1. /\ b[Len(a) + 1] = r /\ Len(a) + 1 \in DOMAIN b
        /\ \A i \in DOMAIN a : b[i] = a[i] /\ i \in DOMAIN b
        /\ \A i \in DOMAIN b : i \in DOMAIN a \/ i = Len(a) + 1
    BY <1>1, Appended
  <2>2. QED
    BY <2>1 DEF Elems
<1>3. QED
  BY <1>1, <1>2

\* A new element keeps a sequence distinct.
LEMMA DistinctAppend ==
    ASSUME NEW S, NEW a \in Seq(S), NEW r \in S, Distinct(a), r \notin Elems(a)
    PROVE  Distinct(Append(a, r))
<1>1. PICK b : b = Append(a, r)
  OBVIOUS
<1>2. /\ b[Len(a) + 1] = r
      /\ \A i \in DOMAIN a : b[i] = a[i]
      /\ \A i \in DOMAIN b : i \in DOMAIN a \/ i = Len(a) + 1
  BY <1>1, Appended
<1>3. \A i \in DOMAIN a : b[i] # r
  BY <1>2 DEF Elems
<1>4. Distinct(b)
  BY <1>2, <1>3 DEF Distinct
<1>5. QED
  BY <1>1, <1>4

\* The order when a record is accepted at the end of the file.
LEMMA OrderAppend ==
    ASSUME NEW f \in Seq(Write), NEW a \in Seq(Record), NEW r \in Record, r \notin Elems(a),
           InOrder(f, a)
    PROVE  InOrder(Append(f, r), Append(a, r))
<1>1. PICK g, b : g = Append(f, r) /\ b = Append(a, r)
  OBVIOUS
<1>2. r \in Write /\ r # Fragment
  BY WALAssumption DEF Write
<1>3. /\ DOMAIN f = 1 .. Len(f) /\ Len(f) \in Nat /\ g[Len(f) + 1] = r
      /\ \A i \in DOMAIN f : g[i] = f[i]
      /\ \A i \in DOMAIN g : i \in DOMAIN f \/ i = Len(f) + 1
  BY <1>1, <1>2, Appended
<1>4. /\ DOMAIN a = 1 .. Len(a) /\ Len(a) \in Nat /\ b[Len(a) + 1] = r
      /\ \A i \in DOMAIN a : b[i] = a[i]
      /\ \A i \in DOMAIN b : i \in DOMAIN a \/ i = Len(a) + 1
  BY <1>1, Appended
<1>5. Elems(b) = Elems(a) \cup {r}
  BY <1>1, ElemsAppend
<1>6. \A i \in DOMAIN g : g[i] # Fragment => g[i] \in Elems(b)
  BY <1>3, <1>5 DEF InOrder
<1>7. \A p \in DOMAIN f : f[p] # r
  BY <1>2 DEF InOrder
<1>8. \A k \in DOMAIN a : a[k] # r
  BY DEF Elems
<1>9. ASSUME NEW p \in DOMAIN g, NEW q \in DOMAIN g, NEW j \in DOMAIN b, NEW k \in DOMAIN b,
             p < q, g[p] = b[j], g[q] = b[k]
      PROVE  j < k
  <2>1. p \in DOMAIN f
    BY <1>3, <1>9
  <2>2. j \in DOMAIN a
    BY <1>3, <1>4, <1>7, <1>9, <2>1
  <2>3. CASE q \in DOMAIN f
    <3>1. k \in DOMAIN a
      BY <1>3, <1>4, <1>7, <1>9, <2>3
    <3>2. QED
      BY <1>3, <1>4, <1>9, <2>1, <2>2, <2>3, <3>1 DEF InOrder
  <2>4. CASE q = Len(f) + 1
    <3>1. k = Len(a) + 1
      BY <1>3, <1>4, <1>8, <1>9, <2>4
    <3>2. QED
      BY <1>4, <2>2, <3>1
  <2>5. QED
    BY <1>3, <2>3, <2>4
<1>10. InOrder(g, b)
  BY <1>6, <1>9 DEF InOrder
<1>11. QED
  BY <1>1, <1>10

\* A fragment at the end of the file leaves the order alone.
LEMMA OrderFragment ==
    ASSUME NEW f \in Seq(Write), NEW a \in Seq(Record), InOrder(f, a), NEW sw,
           Fragment \notin sw, BehindFragments(f, sw)
    PROVE  InOrder(Append(f, Fragment), a) /\ BehindFragments(Append(f, Fragment), sw)
<1>1. PICK g : g = Append(f, Fragment)
  OBVIOUS
<1>2. Fragment \in Write
  BY DEF Write
<1>3. /\ DOMAIN f = 1 .. Len(f) /\ Len(f) \in Nat /\ g[Len(f) + 1] = Fragment
      /\ \A i \in DOMAIN f : g[i] = f[i]
      /\ \A i \in DOMAIN g : i \in DOMAIN f \/ i = Len(f) + 1
  BY <1>1, <1>2, Appended
<1>4. \A k \in DOMAIN a : a[k] # Fragment
  BY WALAssumption
<1>5. InOrder(g, a)
  BY <1>3, <1>4 DEF InOrder
<1>6. BehindFragments(g, sw)
  <2>1. ASSUME NEW i \in DOMAIN g, g[i] \in sw PROVE i > 1 /\ g[i - 1] = Fragment
    <3>1. i \in DOMAIN f /\ f[i] \in sw
      BY <1>3, <2>1
    <3>2. i > 1 /\ f[i - 1] = Fragment
      BY <3>1 DEF BehindFragments
    <3>3. i - 1 \in DOMAIN f
      BY <1>3, <3>1, <3>2
    <3>4. QED
      BY <1>3, <3>2, <3>3
  <2>2. QED
    BY <2>1 DEF BehindFragments
<1>7. QED
  BY <1>1, <1>5, <1>6

\* A record behind a fragment is swallowed, and only such a record.
LEMMA BehindAppend ==
    ASSUME NEW f \in Seq(Write), NEW r \in Record, NEW sw, r \notin sw, BehindFragments(f, sw),
           NEW tw,
           tw = IF f # <<>> /\ f[Len(f)] = Fragment THEN sw \cup {r} ELSE sw,
           \A i \in DOMAIN f : f[i] # r
    PROVE  BehindFragments(Append(f, r), tw)
<1>1. PICK g : g = Append(f, r)
  OBVIOUS
<1>2. r \in Write
  BY DEF Write
<1>3. /\ DOMAIN f = 1 .. Len(f) /\ Len(f) \in Nat /\ g[Len(f) + 1] = r
      /\ \A i \in DOMAIN f : g[i] = f[i]
      /\ \A i \in DOMAIN g : i \in DOMAIN f \/ i = Len(f) + 1
  BY <1>1, <1>2, Appended
<1>4. ASSUME NEW i \in DOMAIN g, g[i] \in tw PROVE i > 1 /\ g[i - 1] = Fragment
  <2>1. CASE i \in DOMAIN f
    <3>1. f[i] \in sw
      BY <1>3, <1>4, <2>1
    <3>2. i > 1 /\ f[i - 1] = Fragment
      BY <2>1, <3>1 DEF BehindFragments
    <3>3. i - 1 \in DOMAIN f
      BY <1>3, <2>1, <3>2
    <3>4. QED
      BY <1>3, <3>2, <3>3
  <2>2. CASE i = Len(f) + 1
    <3>1. f # <<>> /\ f[Len(f)] = Fragment
      BY <1>3, <1>4, <2>2
    <3>2. Len(f) > 0
      BY <1>3, <3>1
    <3>3. Len(f) \in DOMAIN f /\ i - 1 = Len(f)
      BY <1>3, <2>2, <3>2
    <3>4. QED
      BY <1>3, <3>1, <3>3
  <2>3. QED
    BY <1>3, <2>1, <2>2
<1>5. BehindFragments(g, tw)
  BY <1>4 DEF BehindFragments
<1>6. QED
  BY <1>1, <1>5

\* Compact picks whole lines: it keeps the order and drops what was swallowed.
LEMMA OrderCompact ==
    ASSUME NEW f \in Seq(Write), NEW a, NEW sw, NEW c, NEW young, NEW K, K = Retained(f, c, young),
           NEW g, g = Pick(f, K), InOrder(f, a), BehindFragments(f, sw)
    PROVE  InOrder(g, a) /\ BehindFragments(g, sw)
<1>1. /\ Len(f) \in Nat /\ DOMAIN f = 1 .. Len(f)
      /\ \A i \in Decodable(f, 0) : i \in 1 .. Len(f) /\ f[i] \in Record
  BY DecodableType, 0 \in Nat
<1>2. \A i \in K : i \in 1 .. Len(f) /\ f[i] \in Record /\ i \in Decodable(f, 0)
  BY <1>1 DEF Retained
<1>3. Ints(K)
  BY <1>1, <1>2, IntervalInts, 1 \in Int, Len(f) \in Int
<1>4. g \in Seq(Record) /\ Len(g) = Cardinality(K) /\ DOMAIN g = 1 .. Cardinality(K)
  BY <1>1, <1>2, PickType
<1>5. ASSUME NEW x \in DOMAIN g PROVE \E i \in K : Rank(K, i) = x /\ g[x] = f[i]
  <2>1. PICK i \in K : Rank(K, i) = x
    BY <1>1, <1>2, <1>4, RankOnto
  <2>2. QED
    BY <1>3, <2>1, PickAt
<1>6. \A x \in DOMAIN g : g[x] \in Elems(a) /\ g[x] \notin sw
  <2>1. SUFFICES ASSUME NEW x \in DOMAIN g PROVE g[x] \in Elems(a) /\ g[x] \notin sw
    OBVIOUS
  <2>2. PICK i \in K : g[x] = f[i]
    BY <1>5
  <2>3. f[i] # Fragment /\ i \in DOMAIN f
    BY <1>1, <1>2, WALAssumption
  <2>4. i = 1 \/ f[i - 1] # Fragment
    BY <1>2 DEF Decodable
  <2>5. QED
    BY <2>2, <2>3, <2>4 DEF InOrder, BehindFragments
<1>7. ASSUME NEW x \in DOMAIN g, NEW y \in DOMAIN g, NEW j \in DOMAIN a, NEW k \in DOMAIN a,
             x < y, g[x] = a[j], g[y] = a[k]
      PROVE  j < k
  <2>1. PICK p \in K : Rank(K, p) = x /\ g[x] = f[p]
    BY <1>5
  <2>2. PICK q \in K : Rank(K, q) = y /\ g[y] = f[q]
    BY <1>5
  <2>3. p \in Int /\ q \in Int /\ Rank(K, p) \in Nat /\ Rank(K, q) \in Nat
    BY <1>3, RankType DEF Ints
  <2>4. q <= p => Rank(K, q) <= Rank(K, p)
    BY <1>3, <2>3, RankMonotone
  <2>5. p < q
    BY <1>7, <2>1, <2>2, <2>3, <2>4
  <2>6. p \in DOMAIN f /\ q \in DOMAIN f
    BY <1>1, <1>2
  <2>7. QED
    BY <1>7, <2>1, <2>2, <2>5, <2>6 DEF InOrder
<1>8. QED
  BY <1>6, <1>7 DEF InOrder, BehindFragments

\* A record that was not accepted before adds no duty to a sound set.
LEMMA ClosedAppend ==
    ASSUME NEW a \in Seq(Record), NEW r \in Record, r \notin Elems(a), NEW sw, NEW tw,
           sw \subseteq tw, NEW S, \A x \in S : x \in Elems(a), Closed(S, a, sw)
    PROVE  Closed(S, Append(a, r), tw)
<1>1. PICK b : b = Append(a, r)
  OBVIOUS
<1>2. /\ DOMAIN a = 1 .. Len(a) /\ Len(a) \in Nat /\ b[Len(a) + 1] = r
      /\ \A i \in DOMAIN a : b[i] = a[i]
      /\ \A i \in DOMAIN b : i \in DOMAIN a \/ i = Len(a) + 1
  BY <1>1, Appended
<1>3. ASSUME NEW j \in DOMAIN b, NEW k \in DOMAIN b, j < k, b[k] \in S, b[j] \notin Unknown,
             b[j] \notin tw
      PROVE  b[j] \in S
  <2>1. k \in DOMAIN a
    BY <1>2, <1>3
  <2>2. j \in DOMAIN a
    BY <1>2, <1>3, <2>1
  <2>3. QED
    BY <1>2, <1>3, <2>1, <2>2 DEF Closed
<1>4. Closed(S, b, tw)
  BY <1>3 DEF Closed
<1>5. QED
  BY <1>1, <1>4

\* A sound set stays sound.
LEMMA SoundAppend ==
    ASSUME NEW a \in Seq(Record), NEW r \in Record, r \notin Elems(a), NEW sw, NEW tw,
           tw \subseteq sw \cup {r}, NEW S, Sound(S, a, sw)
    PROVE  Sound(S, Append(a, r), tw)
BY ElemsAppend DEF Sound

\* The union of two closed sets is closed.
LEMMA ClosedUnion ==
    ASSUME NEW a, NEW sw, NEW S, NEW T, NEW U, Closed(S, a, sw), Closed(T, a, sw), U = S \cup T
    PROVE  Closed(U, a, sw)
BY DEF Closed

-----------------------------------------------------------------------------
(***************************************************************************)
(* The request under way.                                                  *)
(***************************************************************************)

\* A record of the batch is the line of its rank behind the offset, and was
\* not swallowed.
LEMMA BatchLine ==
    ASSUME NEW f \in Seq(Write), NEW c \in Nat, NEW a, NEW b \in Seq(Record), NEW sw,
           c > 0 => f[c] # Fragment, BatchOK(f, c, b, 0, {}),
           InOrder(f, a), BehindFragments(f, sw), NEW m \in 1 .. Len(b)
    PROVE  \E i \in Decodable(f, c) :
              /\ Rank(Decodable(f, c), i) = m /\ f[i] = b[m]
              /\ f[i] \in Elems(a) /\ f[i] \notin sw
<1> DEFINE D == Decodable(f, c)
<1>1. /\ Len(f) \in Nat /\ DOMAIN f = 1 .. Len(f) /\ Len(b) \in Nat
      /\ Ints(D) /\ \A i \in D : i \in 1 .. Len(f) /\ f[i] \in Record /\ i > c
  BY DecodableType
<1>2. Len(b) <= Cardinality(D) /\ Cardinality(D) \in Nat
  BY <1>1, FS_CardinalityType DEF BatchOK, Ints
<1>3. m \in 1 .. Cardinality(D)
  BY <1>1, <1>2
<1>4. PICK i \in D : Rank(D, i) = m
  BY <1>1, <1>3, RankOnto
<1>5. f[i] = b[m]
  <2>1. Rank(D, i) <= Len(b)
    BY <1>1, <1>4
  <2>2. QED
    BY <1>4, <2>1 DEF BatchOK
<1>6. f[i] # Fragment /\ i \in DOMAIN f
  BY <1>1, WALAssumption
<1>7. f[i] \notin sw
  <2>1. SUFFICES ASSUME f[i] \in sw PROVE FALSE
    OBVIOUS
  <2>2. i > 1 /\ f[i - 1] = Fragment
    BY <1>6, <2>1 DEF BehindFragments
  <2>3. i = c + 1
    BY <2>2 DEF Decodable
  <2>4. QED
    BY <2>2, <2>3
<1>8. f[i] \in Elems(a)
  BY <1>6 DEF InOrder
<1>9. QED
  BY <1>4, <1>5, <1>7, <1>8

\* The records of a request were accepted intact, and with what is stored
\* they are all that was accepted before the last of them.
LEMMA SegmentSound ==
    ASSUME NEW f \in Seq(Write), NEW c \in Nat, NEW a \in Seq(Record), NEW b \in Seq(Record),
           NEW sw, NEW st, NEW n \in Nat, NEW l \in Nat, n + l <= Len(b),
           NEW owed, \A r \in Elems(a) : r \notin Unknown /\ r \notin st /\ r \notin sw => r \in owed,
           Safe(f, c, owed), BatchOK(f, c, b, n, st \cup Unknown),
           Distinct(a), InOrder(f, a), BehindFragments(f, sw), Closed(st, a, sw),
           NEW T, T = {b[k] : k \in n + 1 .. n + l}, \A r \in T : r \notin Unknown
    PROVE  Sound(T, a, sw) /\ Closed(st \cup T, a, sw)
<1> DEFINE D == Decodable(f, c)
<1>1. /\ Len(f) \in Nat /\ DOMAIN f = 1 .. Len(f) /\ Len(b) \in Nat
      /\ Ints(D) /\ \A i \in D : i \in 1 .. Len(f)
  BY DecodableType
<1>2. \A m \in 1 .. Len(b) : \E i \in D : /\ Rank(D, i) = m /\ f[i] = b[m]
                                          /\ f[i] \in Elems(a) /\ f[i] \notin sw
  <2>1. BatchOK(f, c, b, 0, {})
    BY DEF BatchOK
  <2>2. c > 0 => f[c] # Fragment
    BY DEF Safe
  <2>3. QED
    BY <2>1, <2>2, BatchLine
<1>3. \A i \in D : Rank(D, i) \in 1 .. Cardinality(D)
  BY <1>1, RankRange
<1>4. \A i \in D : Rank(D, i) <= Len(b) => f[i] = b[Rank(D, i)]
  BY DEF BatchOK
<1>5. \A k \in 1 .. n : b[k] \in st \cup Unknown
  BY DEF BatchOK
<1>6. \A r \in owed : \E i \in D : f[i] = r
  BY DEF Safe
<1>7. Cardinality(D) \in Nat
  BY <1>1, FS_CardinalityType DEF Ints
<1> HIDE DEF D
<1>8. Sound(T, a, sw)
  <2>1. \A k \in n + 1 .. n + l : k \in 1 .. Len(b)
    BY <1>1
  <2>2. ASSUME NEW k \in n + 1 .. n + l PROVE b[k] \in Elems(a) /\ b[k] \notin sw
    <3>1. k \in 1 .. Len(b)
      BY <2>1
    <3>2. PICK i \in D : f[i] = b[k] /\ f[i] \in Elems(a) /\ f[i] \notin sw
      BY <1>2, <3>1
    <3>3. QED
      BY <3>2
  <2>3. QED
    BY <2>2 DEF Sound
<1>9. ASSUME NEW j \in DOMAIN a, NEW k \in DOMAIN a, j < k, a[k] \in T,
             a[j] \notin Unknown, a[j] \notin sw, a[j] \notin st
      PROVE  a[j] \in T
  <2>1. PICK m \in n + 1 .. n + l : a[k] = b[m]
    BY <1>9
  <2>2. m \in 1 .. Len(b)
    BY <1>1, <2>1
  <2>3. PICK p \in D : Rank(D, p) = m /\ f[p] = b[m]
    BY <1>2, <2>2
  <2>4. a[j] \in owed
    BY <1>9 DEF Elems
  <2>5. PICK i \in D : f[i] = a[j]
    BY <1>6, <2>4
  <2>6. i \in DOMAIN f /\ p \in DOMAIN f /\ i \in Int /\ p \in Int /\ j \in Int /\ k \in Int
    BY <1>1
  <2>7. i # p
    <3>1. i = p => a[j] = a[k]
      BY <2>1, <2>3, <2>5
    <3>2. a[j] # a[k]
      BY <1>9, <2>6 DEF Distinct
    <3>3. QED
      BY <3>1, <3>2
  <2>8. ~(p < i)
    <3>1. p < i => k < j
      BY <2>1, <2>3, <2>5, <2>6 DEF InOrder
    <3>2. QED
      BY <1>9, <2>6, <3>1
  <2>9. i <= p
    BY <2>6, <2>8
  <2>10. Rank(D, i) <= m
    BY <1>1, <2>3, <2>6, <2>9, RankMonotone
  <2>11. Rank(D, i) \in Nat /\ Rank(D, i) >= 1 /\ Rank(D, i) <= Len(b)
    BY <1>1, <1>3, <1>7, <2>2, <2>10
  <2>12. a[j] = b[Rank(D, i)]
    BY <1>4, <2>5, <2>11
  <2>13. ~(Rank(D, i) <= n)
    <3>1. Rank(D, i) <= n => b[Rank(D, i)] \in st \cup Unknown
      BY <1>5, <2>11
    <3>2. QED
      BY <1>9, <2>12, <3>1
  <2>14. Rank(D, i) \in n + 1 .. n + l
    BY <2>1, <2>10, <2>11, <2>13
  <2>15. QED
    BY <2>12, <2>14
<1>10. Closed(st \cup T, a, sw)
  <2>1. SUFFICES ASSUME NEW j \in DOMAIN a, NEW k \in DOMAIN a, j < k, a[k] \in st \cup T,
                        a[j] \notin Unknown, a[j] \notin sw, a[j] \notin st
                 PROVE  a[j] \in T
    BY DEF Closed
  <2>2. a[k] \in T
    BY <2>1 DEF Closed
  <2>3. QED
    BY <1>9, <2>1, <2>2
<1>11. QED
  BY <1>8, <1>10

\* The same of the proxy's own request.
LEMMA InFlightSound ==
    ASSUME IInv, OrderInv, pc = "wait"
    PROVE  Sound(InFlight, accepted, swallowed) /\ Closed(stored \cup InFlight, accepted, swallowed)
<1>1. /\ file \in Seq(Write) /\ offset \in Nat /\ accepted \in Seq(Record) /\ batch \in Seq(Record)
      /\ Len(batch) \in Nat /\ sent \in 0 .. Len(batch) /\ segment \in 0 .. Len(batch) - sent
  BY DEF IInv, TypeOK
<1>2. sent \in Nat /\ segment \in Nat /\ sent + segment <= Len(batch)
  BY <1>1
<1>3. Safe(file, offset, Owed) /\ BatchOK(file, offset, batch, sent, stored \cup Unknown)
  BY DEF IInv, Sending
<1>4. \A r \in Elems(accepted) : r \notin Unknown /\ r \notin stored /\ r \notin swallowed => r \in Owed
  BY DEF Elems, Owed, Promised
<1>5. /\ Distinct(accepted) /\ InOrder(file, accepted) /\ BehindFragments(file, swallowed)
      /\ Closed(stored, accepted, swallowed) /\ \A r \in InFlight : r \notin Unknown
  BY DEF OrderInv, OnceInv, FileInv, StoredInv, RequestInv
<1>6. QED
  BY <1>1, <1>2, <1>3, <1>4, <1>5, SegmentSound DEF InFlight

-----------------------------------------------------------------------------
(***************************************************************************)
(* The steps.                                                              *)
(***************************************************************************)

\* AppendRecord of a record the log has not accepted.
LEMMA AppendOrder ==
    ASSUME TypeOK, FileInv, StoredInv, Distinct(accepted), NEW r \in Record,
           r \notin Elems(accepted), AppendRecord(r), UNCHANGED cpVars
    PROVE  /\ FileInv' /\ StoredInv' /\ Distinct(accepted')
           /\ Elems(accepted') \subseteq Elems(accepted) \cup {r}
<1>1. file \in Seq(Write) /\ accepted \in Seq(Record) /\ swallowed \subseteq Record
  BY DEF TypeOK
<1>2. /\ InOrder(file, accepted) /\ BehindFragments(file, swallowed)
      /\ swallowed \subseteq Elems(accepted)
  BY DEF FileInv
<1>3. /\ Sound(stored, accepted, swallowed) /\ Closed(stored, accepted, swallowed)
      /\ \A s \in abandoned : /\ Sound(s, accepted, swallowed)
                              /\ Closed(stored \cup s, accepted, swallowed)
  BY DEF StoredInv
<1>4. stored' = stored /\ abandoned' = abandoned
  BY DEF cpVars
<1>5. CASE AppendSucceeds(r)
  <2>1. /\ file' = Append(file, r) /\ accepted' = Append(accepted, r)
        /\ swallowed' = IF file # <<>> /\ file[Len(file)] = Fragment THEN swallowed \cup {r}
                        ELSE swallowed
    BY <1>5 DEF AppendSucceeds, EndsInFragment
  <2>2. Elems(accepted') = Elems(accepted) \cup {r} /\ Distinct(accepted')
    BY <1>1, <2>1, ElemsAppend, DistinctAppend
  <2>3. InOrder(file', accepted')
    BY <1>1, <1>2, <2>1, OrderAppend
  <2>4. r \notin swallowed /\ swallowed \subseteq swallowed' /\ swallowed' \subseteq swallowed \cup {r}
    BY <1>2, <2>1
  <2>5. BehindFragments(file', swallowed')
    <3>1. r # Fragment
      BY WALAssumption
    <3>2. \A i \in DOMAIN file : file[i] # r
      BY <1>2, <3>1 DEF InOrder
    <3>3. QED
      BY <1>1, <1>2, <2>1, <2>4, <3>2, BehindAppend
  <2>6. swallowed' \subseteq Elems(accepted')
    BY <1>2, <2>2, <2>4
  <2>7. ASSUME NEW S, Sound(S, accepted, swallowed) PROVE Sound(S, accepted', swallowed')
    BY <1>1, <2>1, <2>4, <2>7, SoundAppend
  <2>8. ASSUME NEW S, \A x \in S : x \in Elems(accepted), Closed(S, accepted, swallowed)
        PROVE  Closed(S, accepted', swallowed')
    BY <1>1, <2>1, <2>4, <2>8, ClosedAppend
  <2>9. \A x \in stored : x \in Elems(accepted)
    BY <1>3 DEF Sound
  <2>10. ASSUME NEW s \in abandoned
         PROVE  Sound(s, accepted', swallowed') /\ Closed(stored \cup s, accepted', swallowed')
    <3>1. \A x \in stored \cup s : x \in Elems(accepted)
      BY <1>3, <2>9 DEF Sound
    <3>2. QED
      BY <1>3, <2>7, <2>8, <3>1
  <2>11. Sound(stored, accepted', swallowed') /\ Closed(stored, accepted', swallowed')
    BY <1>3, <2>7, <2>8, <2>9
  <2>12. StoredInv'
    BY <1>4, <2>10, <2>11 DEF StoredInv
  <2>13. QED
    BY <2>2, <2>3, <2>5, <2>6, <2>12 DEF FileInv
<1>6. CASE AppendFails
  <2>1. /\ file' = file \/ file' = Append(file, Fragment)
        /\ accepted' = accepted /\ swallowed' = swallowed
    BY <1>6 DEF AppendFails
  <2>2. Fragment \notin swallowed
    BY <1>1, WALAssumption
  <2>3. InOrder(file', accepted') /\ BehindFragments(file', swallowed')
    BY <1>1, <1>2, <2>1, <2>2, OrderFragment
  <2>4. FileInv'
    BY <1>2, <2>1, <2>3 DEF FileInv
  <2>5. StoredInv'
    BY <1>3, <1>4, <2>1 DEF StoredInv
  <2>6. QED
    BY <2>1, <2>4, <2>5
<1>7. QED
  BY <1>5, <1>6 DEF AppendRecord

\* The writers keep the order.
LEMMA WritersOrder ==
    ASSUME TypeOK, OrderInv, Writers
    PROVE  OrderInv'
<1>1. /\ accepted \in Seq(Record) /\ queue \in Seq(Record \ Usage)
      /\ OnceInv /\ FileInv /\ StoredInv /\ RequestInv
  BY DEF TypeOK, OrderInv
<1>2. /\ Distinct(accepted) /\ Distinct(queue)
      /\ \A x \in Elems(accepted) : x \notin fresh
      /\ \A x \in Elems(queue) : x \notin fresh /\ x \notin Elems(accepted)
  BY <1>1 DEF OnceInv
<1>3. ASSUME UNCHANGED flushVars PROVE RequestInv'
  BY <1>1, <1>3 DEF flushVars, RequestInv, InFlight
<1>4. ASSUME NEW r \in Record, HandlerAppend(r) PROVE OrderInv'
  <2>1. /\ r \in fresh /\ AppendRecord(r) /\ fresh' = fresh \ {r} /\ queue' = queue
        /\ UNCHANGED flushVars /\ UNCHANGED cpVars
    BY <1>4 DEF HandlerAppend
  <2>2. r \notin Elems(accepted) /\ r \notin Elems(queue)
    BY <1>2, <2>1
  <2>3. /\ FileInv' /\ StoredInv' /\ Distinct(accepted')
        /\ Elems(accepted') \subseteq Elems(accepted) \cup {r}
    BY <1>1, <1>2, <2>1, <2>2, AppendOrder
  <2>4. OnceInv'
    <3>1. Distinct(queue') /\ Elems(queue') = Elems(queue)
      BY <1>2, <2>1
    <3>2. \A x \in Elems(accepted') : x \notin fresh'
      BY <1>2, <2>1, <2>3
    <3>3. \A x \in Elems(queue') : x \notin fresh' /\ x \notin Elems(accepted')
      BY <1>2, <2>1, <2>2, <2>3, <3>1
    <3>4. QED
      BY <2>3, <3>1, <3>2, <3>3 DEF OnceInv
  <2>5. QED
    BY <1>3, <2>1, <2>3, <2>4 DEF OrderInv
<1>5. ASSUME NEW r \in Record, EnqueueAdvisoryRecord(r) PROVE OrderInv'
  <2>1. /\ r \in fresh \ Usage /\ fresh' = fresh \ {r}
        /\ queue' = queue \/ queue' = Append(queue, r)
        /\ accepted' = accepted /\ swallowed' = swallowed /\ file' = file
        /\ UNCHANGED flushVars /\ stored' = stored /\ abandoned' = abandoned
    BY <1>5 DEF EnqueueAdvisoryRecord, fileVars, cpVars
  <2>2. r \notin Elems(accepted) /\ r \notin Elems(queue) /\ r \in Record \ Usage
    BY <1>2, <2>1
  <2>3. Distinct(queue') /\ Elems(queue') \subseteq Elems(queue) \cup {r}
    <3>1. PICK q : q = Append(queue, r)
      OBVIOUS
    <3>2. Distinct(q) /\ Elems(q) = Elems(queue) \cup {r}
      BY <1>1, <1>2, <2>2, <3>1, ElemsAppend, DistinctAppend
    <3>3. QED
      BY <1>2, <2>1, <3>1, <3>2
  <2>4. FileInv' /\ StoredInv'
    BY <1>1, <2>1 DEF FileInv, StoredInv
  <2>5. OnceInv'
    <3>1. Distinct(accepted') /\ Elems(accepted') = Elems(accepted)
      BY <1>2, <2>1
    <3>2. \A x \in Elems(queue') : x \notin fresh' /\ x \notin Elems(accepted')
      BY <1>2, <2>1, <2>2, <2>3, <3>1
    <3>3. \A x \in Elems(accepted') : x \notin fresh'
      BY <1>2, <2>1, <3>1
    <3>4. QED
      BY <2>3, <3>1, <3>2, <3>3 DEF OnceInv
  <2>6. QED
    BY <1>3, <2>1, <2>4, <2>5 DEF OrderInv
<1>6. ASSUME WriteAdvisoryRecord PROVE OrderInv'
  <2>1. PICK r : r = Head(queue)
    OBVIOUS
  <2>2. /\ queue # <<>> /\ AppendRecord(r) /\ queue' = Tail(queue) /\ fresh' = fresh
        /\ UNCHANGED flushVars /\ UNCHANGED cpVars
    BY <1>6, <2>1 DEF WriteAdvisoryRecord
  <2>3. /\ r \in Record /\ r = queue[1] /\ 1 \in DOMAIN queue
        /\ DOMAIN queue = 1 .. Len(queue) /\ Len(queue) \in Nat
        /\ DOMAIN queue' = 1 .. Len(queue) - 1
        /\ \A k \in 1 .. Len(queue) - 1 : queue'[k] = queue[k + 1]
    BY <1>1, <2>1, <2>2
  <2>4. r \in Elems(queue) /\ r \notin Elems(accepted) /\ r \notin fresh
    BY <1>2, <2>3 DEF Elems
  <2>5. /\ FileInv' /\ StoredInv' /\ Distinct(accepted')
        /\ Elems(accepted') \subseteq Elems(accepted) \cup {r}
    BY <1>1, <1>2, <2>2, <2>3, <2>4, AppendOrder
  <2>6. \A k \in DOMAIN queue' : k \in Int /\ k + 1 \in DOMAIN queue /\ queue'[k] = queue[k + 1] /\ k + 1 # 1
    BY <2>3
  <2>7. Distinct(queue')
    <3>1. SUFFICES ASSUME NEW j \in DOMAIN queue', NEW k \in DOMAIN queue', queue'[j] = queue'[k]
                   PROVE  j = k
      BY DEF Distinct
    <3>2. queue[j + 1] = queue[k + 1] /\ j + 1 \in DOMAIN queue /\ k + 1 \in DOMAIN queue
      BY <2>6, <3>1
    <3>3. j + 1 = k + 1
      BY <1>2, <3>2 DEF Distinct
    <3>4. QED
      BY <2>6, <3>3
  <2>8. \A x \in Elems(queue') : x \in Elems(queue) /\ x # r
    <3>1. SUFFICES ASSUME NEW k \in DOMAIN queue' PROVE queue'[k] \in Elems(queue) /\ queue'[k] # r
      BY DEF Elems
    <3>2. queue'[k] = queue[k + 1] /\ k + 1 \in DOMAIN queue /\ k + 1 # 1
      BY <2>6
    <3>3. queue[k + 1] # queue[1]
      BY <1>2, <2>3, <3>2 DEF Distinct
    <3>4. QED
      BY <2>3, <3>2, <3>3 DEF Elems
  <2>9. OnceInv'
    <3>1. \A x \in Elems(accepted') : x \notin fresh'
      BY <1>2, <2>2, <2>4, <2>5
    <3>2. \A x \in Elems(queue') : x \notin fresh' /\ x \notin Elems(accepted')
      BY <1>2, <2>2, <2>5, <2>8
    <3>3. QED
      BY <2>5, <2>7, <3>1, <3>2 DEF OnceInv
  <2>10. QED
    BY <1>3, <2>2, <2>5, <2>9 DEF OrderInv
<1>7. QED
  BY <1>4, <1>5, <1>6, Zenon DEF Writers

\* Only the file may change, to its compaction, and the requests given up, by
\* the one under way.
LEMMA FlushOrder ==
    ASSUME IInv, OrderInv, Flush
    PROVE  OrderInv'
<1>1. OnceInv /\ FileInv /\ StoredInv /\ RequestInv /\ TypeOK
  BY DEF OrderInv, IInv
<1>2. UNCHANGED <<queue, fresh, accepted, swallowed, stored>>
  BY DEF Flush, FlushStart, ReadBatch, ReadFails, Send, SkipUnknown, Ack, SendFails, BatchDone,
     MarkNothing, MarkDelivered, CompactSnapshot, CompactRename, CompactSkips, CompactCheckpoint,
     inputVars, cpVars
<1>3. OnceInv'
  BY <1>1, <1>2 DEF OnceInv
<1>4. FileInv'
  <2>1. CASE file' = file
    BY <1>1, <1>2, <2>1 DEF FileInv
  <2>2. CASE CompactRename
    <3>1. /\ pc = "commit" /\ file = rewrite.file /\ offset = rewrite.offset /\ file' = rewrite.out
      BY <2>2 DEF CompactRename
    <3>2. PICK young : rewrite.out = Pick(file, Retained(file, offset, young))
      BY <3>1 DEF IInv, RewriteOK
    <3>3. file \in Seq(Write) /\ InOrder(file, accepted) /\ BehindFragments(file, swallowed)
      BY <1>1 DEF TypeOK, FileInv
    <3>4. InOrder(file', accepted) /\ BehindFragments(file', swallowed)
      BY <3>1, <3>2, <3>3, OrderCompact
    <3>5. QED
      BY <1>1, <1>2, <3>4 DEF FileInv
  <2>3. QED
    BY <2>1, <2>2 DEF Flush, FlushStart, ReadBatch, ReadFails, Send, SkipUnknown, Ack, SendFails,
       BatchDone, MarkNothing, MarkDelivered, CompactSnapshot, CompactSkips, CompactCheckpoint,
       fileVars
<1>5. StoredInv'
  <2>1. CASE abandoned' = abandoned
    BY <1>1, <1>2, <2>1 DEF StoredInv
  <2>2. CASE abandoned' = abandoned \cup {InFlight} /\ pc = "wait"
    <3>1. Sound(InFlight, accepted, swallowed) /\ Closed(stored \cup InFlight, accepted, swallowed)
      BY <2>2, InFlightSound
    <3>2. QED
      BY <1>1, <1>2, <2>2, <3>1 DEF StoredInv
  <2>3. QED
    BY <2>1, <2>2 DEF Flush, FlushStart, ReadBatch, ReadFails, Send, SkipUnknown, Ack, SendFails,
       BatchDone, MarkNothing, MarkDelivered, CompactSnapshot, CompactRename, CompactSkips,
       CompactCheckpoint, cpVars
<1>6. RequestInv'
  <2>1. CASE Send
    <3>1. /\ sent \in Nat /\ batch' = batch /\ sent' = sent /\ batch[sent + 1] \notin Unknown
          /\ IsSegment(batch, sent, segment') /\ segment' \in Int
      <4>1. batch \in Seq(Record) /\ sent \in Nat
        BY <1>1 DEF TypeOK
      <4>2. PICK n \in 1 .. Len(batch) - sent : IsSegment(batch, sent, n) /\ segment' = n
        BY <2>1 DEF Send
      <4>3. batch' = batch /\ sent' = sent /\ batch[sent + 1] \notin Unknown
        BY <2>1 DEF Send
      <4>4. QED
        BY <4>1, <4>2, <4>3
    <3>2. \A k \in sent + 1 .. sent + segment' : batch[k] \in Usage \/ k = sent + 1
      <4>1. CASE batch[sent + 1] \in Usage
        BY <3>1, <4>1 DEF IsSegment
      <4>2. CASE batch[sent + 1] \notin Usage
        <5>1. segment' = 1
          BY <3>1, <4>2, Zenon DEF IsSegment
        <5>2. QED
          BY <3>1, <5>1
      <4>3. QED
        BY <4>1, <4>2
    <3>3. \A k \in sent + 1 .. sent + segment' : batch[k] \notin Unknown
      BY <3>1, <3>2, WALAssumption
    <3>4. QED
      BY <3>1, <3>3 DEF RequestInv, InFlight
  <2>2. CASE pc' # "wait"
    BY <2>2 DEF RequestInv
  <2>3. QED
    BY <2>1, <2>2 DEF Flush, FlushStart, ReadBatch, ReadFails, SkipUnknown, Ack, SendFails,
       BatchDone, MarkNothing, MarkDelivered, CompactSnapshot, CompactRename, CompactSkips,
       CompactCheckpoint, AfterMark
<1>7. QED
  BY <1>3, <1>4, <1>5, <1>6 DEF OrderInv

\* Storing a request, its own or one given up, keeps what is stored closed.
LEMMA StoreOrder ==
    ASSUME StoredInv, NEW T, Sound(T, accepted, swallowed),
           Closed(stored \cup T, accepted, swallowed),
           stored' = stored \cup T, abandoned' \subseteq abandoned,
           UNCHANGED <<accepted, swallowed>>
    PROVE  StoredInv'
<1>1. Sound(stored', accepted, swallowed)
  BY DEF StoredInv, Sound
<1>2. ASSUME NEW s \in abandoned
      PROVE  Sound(s, accepted, swallowed) /\ Closed(stored' \cup s, accepted, swallowed)
  <2>1. Sound(s, accepted, swallowed) /\ Closed(stored \cup s, accepted, swallowed)
    BY DEF StoredInv
  <2>2. stored' \cup s = (stored \cup s) \cup (stored \cup T)
    OBVIOUS
  <2>3. QED
    BY <2>1, <2>2, ClosedUnion
<1>3. QED
  BY <1>1, <1>2 DEF StoredInv

\* The control plane, crashes and restarts keep the order.
LEMMA EnvironmentOrder ==
    ASSUME IInv, OrderInv, Environment
    PROVE  OrderInv'
<1>1. OnceInv /\ FileInv /\ StoredInv /\ RequestInv /\ TypeOK
  BY DEF OrderInv, IInv
<1>2. UNCHANGED <<file, fresh, accepted, swallowed>>
  BY DEF Environment, Store, StoreLate, ProbeControlPlane, Crash, Restart, fileVars, inputVars
<1>3. FileInv'
  BY <1>1, <1>2 DEF FileInv
<1>4. OnceInv'
  <2>1. CASE queue' = queue
    BY <1>1, <1>2, <2>1 DEF OnceInv
  <2>2. CASE queue' = <<>>
    <3>1. DOMAIN queue' = {}
      BY <2>2
    <3>2. QED
      BY <1>1, <1>2, <3>1 DEF OnceInv, Distinct, Elems
  <2>3. QED
    BY <2>1, <2>2 DEF Environment, Store, StoreLate, ProbeControlPlane, Crash, Restart, inputVars
<1>5. RequestInv'
  BY <1>1 DEF Environment, Store, StoreLate, ProbeControlPlane, Crash, Restart, flushVars,
     RequestInv, InFlight
<1>6. StoredInv'
  <2>1. CASE Store
    <3>1. pc = "wait" /\ stored' = stored \cup InFlight /\ abandoned' = abandoned
      BY <2>1 DEF Store
    <3>2. Sound(InFlight, accepted, swallowed) /\ Closed(stored \cup InFlight, accepted, swallowed)
      BY <3>1, InFlightSound
    <3>3. QED
      BY <1>1, <1>2, <3>1, <3>2, StoreOrder
  <2>2. ASSUME NEW s \in abandoned, StoreLate(s) PROVE StoredInv'
    <3>1. abandoned' \subseteq abandoned /\ (stored' = stored \/ stored' = stored \cup s)
      BY <2>2 DEF StoreLate
    <3>2. Sound(s, accepted, swallowed) /\ Closed(stored \cup s, accepted, swallowed)
      BY <1>1 DEF StoredInv
    <3>3. CASE stored' = stored
      BY <1>1, <1>2, <3>1, <3>3 DEF StoredInv
    <3>4. CASE stored' = stored \cup s
      BY <1>1, <1>2, <3>1, <3>2, <3>4, StoreOrder
    <3>5. QED
      BY <3>1, <3>3, <3>4
  <2>3. CASE ProbeControlPlane \/ Restart
    BY <1>1, <1>2, <2>3 DEF ProbeControlPlane, Restart, cpVars, StoredInv
  <2>4. CASE Crash
    <3>1. stored' = stored /\ abandoned' = IF pc = "wait" THEN abandoned \cup {InFlight} ELSE abandoned
      BY <2>4 DEF Crash
    <3>2. pc = "wait" => /\ Sound(InFlight, accepted, swallowed)
                         /\ Closed(stored \cup InFlight, accepted, swallowed)
      BY InFlightSound
    <3>3. QED
      BY <1>1, <1>2, <3>1, <3>2 DEF StoredInv
  <2>5. QED
    BY <2>1, <2>2, <2>3, <2>4, Zenon DEF Environment
<1>7. QED
  BY <1>3, <1>4, <1>5, <1>6 DEF OrderInv

\* The invariant of the order holds throughout.
THEOREM OrderInvariance ==
    ASSUME CrashOnStaleCheckpoint = FALSE
    PROVE  Spec => []OrderInv
<1>1. ASSUME Init PROVE OrderInv
  <2>1. /\ file = <<>> /\ accepted = <<>> /\ queue = <<>> /\ swallowed = {} /\ stored = {}
        /\ abandoned = {} /\ pc = "idle"
    BY <1>1 DEF Init
  <2>2. DOMAIN file = {} /\ DOMAIN accepted = {} /\ DOMAIN queue = {}
    BY <2>1
  <2>3. OnceInv /\ FileInv
    BY <2>1, <2>2 DEF OnceInv, FileInv, Distinct, Elems, InOrder, BehindFragments
  <2>4. StoredInv /\ RequestInv
    BY <2>1, <2>2 DEF StoredInv, RequestInv, Sound, Closed
  <2>5. QED
    BY <2>3, <2>4 DEF OrderInv
<1>2. ASSUME IInv, OrderInv, [Next]_vars PROVE OrderInv'
  <2>1. TypeOK
    BY <1>2 DEF IInv
  <2>2. CASE Next
    BY <1>2, <2>1, <2>2, WritersOrder, FlushOrder, EnvironmentOrder DEF Next
  <2>3. CASE UNCHANGED vars
    BY <1>2, <2>3 DEF vars, fileVars, flushVars, inputVars, cpVars, OrderInv, OnceInv, FileInv,
       StoredInv, RequestInv, InFlight
  <2>4. QED
    BY <1>2, <2>2, <2>3
<1>3. QED
  BY <1>1, <1>2, Invariance, PTL DEF Spec

(***************************************************************************)
(* The control plane stores records in the order in which AppendRecord     *)
(* accepted them: a request that was given up and runs late, a replay      *)
(* after a crash, or a batch read from a compacted file never stores a     *)
(* record whose predecessors are missing (if no crash meets a checkpoint   *)
(* older than a rename).                                                   *)
(***************************************************************************)
THEOREM DeliveryIsInOrder ==
    ASSUME CrashOnStaleCheckpoint = FALSE
    PROVE  Spec => []StoredInOrder
<1>1. OrderInv => StoredInOrder
  BY DEF OrderInv, StoredInv, Closed, StoredInOrder
<1>2. QED
  BY <1>1, OrderInvariance, PTL

-----------------------------------------------------------------------------
(***************************************************************************)
(* The log implements OutboundLog.                                         *)
(***************************************************************************)

\* Two picks of the same size with the same elements are equal.
LEMMA PickEqual ==
    ASSUME NEW s, NEW t, NEW K,
           \A m \in 1 .. Cardinality(K) : Pick(s, K)[m] = Pick(t, K)[m]
    PROVE  Pick(s, K) = Pick(t, K)
<1>1. /\ Pick(s, K) = [m \in 1 .. Cardinality(K) |-> Pick(s, K)[m]]
      /\ Pick(t, K) = [m \in 1 .. Cardinality(K) |-> Pick(t, K)[m]]
  BY DEF Pick
<1>2. QED
  BY <1>1

\* A pick at old positions does not see a new element.
LEMMA PickOld ==
    ASSUME NEW S, NEW a \in Seq(S), NEW r \in S, NEW K, \A x \in K : x \in 1 .. Len(a)
    PROVE  Pick(Append(a, r), K) = Pick(a, K)
<1>1. PICK b : b = Append(a, r)
  OBVIOUS
<1>2. Len(a) \in Nat /\ \A i \in 1 .. Len(a) : b[i] = a[i]
  BY <1>1, Appended
<1>3. Ints(K)
  BY <1>2, IntervalInts, 1 \in Int, Len(a) \in Int
<1>4. ASSUME NEW m \in 1 .. Cardinality(K) PROVE Pick(b, K)[m] = Pick(a, K)[m]
  <2>1. PICK i \in K : Rank(K, i) = m
    BY <1>2, RankOnto
  <2>2. Pick(b, K)[Rank(K, i)] = b[i] /\ Pick(a, K)[Rank(K, i)] = a[i]
    BY <1>3, PickAt
  <2>3. QED
    BY <1>2, <2>1, <2>2
<1>5. QED
  BY <1>1, <1>4, PickEqual

\* A pick that takes the new element too has it at its end.
LEMMA PickNew ==
    ASSUME NEW S, NEW a \in Seq(S), NEW r \in S, NEW K, \A x \in K : x \in 1 .. Len(a),
           NEW L, L = K \cup {Len(a) + 1}
    PROVE  Pick(Append(a, r), L) = Append(Pick(a, K), r)
<1>1. PICK b, n : b = Append(a, r) /\ n = Len(a)
  OBVIOUS
<1>2. n \in Nat /\ b[n + 1] = r /\ \A i \in 1 .. n : b[i] = a[i]
  BY <1>1, Appended
<1>3. /\ \A x \in K : x \in 1 .. n
      /\ \A x \in L : x \in 1 .. n + 1
      /\ n + 1 \in L /\ n + 1 \notin K /\ L = K \cup {n + 1}
  BY <1>1, <1>2
<1>4. Ints(K) /\ Ints(L)
  BY <1>2, <1>3, IntervalInts, 1 \in Int, n \in Int, n + 1 \in Int
<1>5. Cardinality(K) \in Nat /\ Cardinality(L) = Cardinality(K) + 1
  BY <1>3, <1>4, FS_CardinalityType, FS_AddElement DEF Ints
<1>6. Rank(L, n + 1) = Cardinality(L)
  BY <1>2, <1>3, RankAll
<1>7. ASSUME NEW i \in K PROVE Rank(L, i) = Rank(K, i)
  <2>1. {j \in L : j <= i} = {j \in K : j <= i}
    BY <1>2, <1>3
  <2>2. QED
    BY <2>1 DEF Rank
<1>8. PICK p : p = Pick(a, K)
  OBVIOUS
<1>9. p \in Seq(S) /\ Len(p) = Cardinality(K)
  <2>1. \A i \in K : a[i] \in S
    OBVIOUS
  <2>2. QED
    BY <1>1, <1>2, <1>8, <2>1, PickType
<1>10. PICK q : q = Pick(b, L)
  OBVIOUS
<1>11. q[Cardinality(K) + 1] = r
  <2>1. Pick(b, L)[Rank(L, n + 1)] = b[n + 1]
    BY <1>3, <1>4, PickAt
  <2>2. QED
    BY <1>2, <1>5, <1>6, <1>10, <2>1
<1>12. ASSUME NEW m \in 1 .. Cardinality(K) PROVE q[m] = p[m]
  <2>1. PICK i \in K : Rank(K, i) = m
    BY <1>2, <1>3, RankOnto
  <2>2. Pick(a, K)[Rank(K, i)] = a[i]
    BY <1>4, PickAt
  <2>3. i \in L
    BY <1>3
  <2>4. Pick(b, L)[Rank(L, i)] = b[i]
    BY <1>4, <2>3, PickAt
  <2>5. QED
    BY <1>2, <1>3, <1>7, <1>8, <1>10, <2>1, <2>2, <2>4
<1>13. q \in Seq(S) /\ Len(q) = Cardinality(K) + 1
  <2>1. \A i \in L : b[i] \in S
    BY <1>1, <1>2, <1>3
  <2>2. n + 1 \in Nat
    BY <1>2
  <2>3. QED
    BY <1>3, <1>5, <1>10, <2>1, <2>2, PickType
<1>14. q = Append(p, r)
  <2>1. /\ Append(p, r) \in Seq(S) /\ Len(Append(p, r)) = Cardinality(K) + 1
        /\ \A m \in 1 .. Cardinality(K) : Append(p, r)[m] = p[m]
        /\ Append(p, r)[Cardinality(K) + 1] = r
    BY <1>9, AppendProperties
  <2>2. \A m \in 1 .. Cardinality(K) + 1 : m = Cardinality(K) + 1 \/ m \in 1 .. Cardinality(K)
    BY <1>5
  <2>3. \A m \in 1 .. Len(q) : q[m] = Append(p, r)[m]
    BY <1>11, <1>12, <1>13, <2>1, <2>2
  <2>4. QED
    BY <1>13, <2>1, <2>3, SeqEqual
<1>15. QED
  BY <1>1, <1>8, <1>10, <1>14

\* st holds elements of p, and with an element all the ones before it.
Downward(p, l, st) ==
    /\ \A r \in st : \E m \in 1 .. l : p[m] = r
    /\ \A j, k \in 1 .. l : j < k /\ p[k] \in st => p[j] \in st

\* st is what the first elements of p are.
FirstOf(p, l, st) == \E n \in 1 .. l : st = {p[k] : k \in 1 .. n}

\* A set of elements of p that is closed under predecessors is a prefix of p.
LEMMA ClosedIsPrefix ==
    ASSUME NEW p, NEW l \in Nat, NEW st, st # {}, Downward(p, l, st)
    PROVE  FirstOf(p, l, st)
<1>0. /\ \A r \in st : \E m \in 1 .. l : p[m] = r
      /\ \A j, k \in 1 .. l : j < k /\ p[k] \in st => p[j] \in st
  BY DEF Downward
<1> DEFINE B == {n \in Nat : \A m \in 1 .. l : p[m] \in st => m <= n}
<1>1. l \in B
  OBVIOUS
<1>2. PICK n \in B : \A y \in B : ~(<<y, n>> \in OpToRel(<, Nat))
  BY <1>1, NatLessThanWellFounded, WFMin, B \subseteq Nat, B # {}
<1>3. n \in Nat /\ \A m \in 1 .. l : p[m] \in st => m <= n
  OBVIOUS
<1>4. \A y \in B : ~(y < n)
  BY <1>2 DEF OpToRel
<1>5. n <= l
  BY <1>1, <1>3, <1>4
<1>6. PICK x \in 1 .. l : p[x] \in st
  BY <1>0
<1>7. n >= 1
  BY <1>3, <1>6
<1>8. p[n] \in st
  <2>1. SUFFICES ASSUME p[n] \notin st PROVE FALSE
    OBVIOUS
  <2>2. \A m \in 1 .. l : p[m] \in st => m <= n - 1
    BY <1>3, <2>1
  <2>3. n - 1 \in B
    BY <1>3, <1>7, <2>2
  <2>4. QED
    BY <1>3, <1>4, <2>3
<1> HIDE DEF B
<1>9. \A k \in 1 .. n : p[k] \in st
  <2>1. SUFFICES ASSUME NEW k \in 1 .. n, k # n PROVE p[k] \in st
    BY <1>8
  <2>2. k \in 1 .. l /\ n \in 1 .. l /\ k < n
    BY <1>3, <1>5, <1>7, <2>1
  <2>3. QED
    BY <1>0, <1>8, <2>2
<1>10. \A r \in st : \E k \in 1 .. n : p[k] = r
  <2>1. SUFFICES ASSUME NEW r \in st PROVE \E k \in 1 .. n : p[k] = r
    OBVIOUS
  <2>2. PICK m \in 1 .. l : p[m] = r
    BY <1>0
  <2>3. m \in 1 .. n
    BY <1>3, <2>2
  <2>4. QED
    BY <2>2, <2>3
<1>11. st = {p[k] : k \in 1 .. n}
  BY <1>9, <1>10
<1>12. n \in 1 .. l
  BY <1>3, <1>5, <1>7
<1>13. QED
  BY <1>11, <1>12 DEF FirstOf

-----------------------------------------------------------------------------
\* What of the abstract state a step of the log may change: nothing, one more
\* promise, or one more message received.
Refines == Outbound!Next \/ UNCHANGED <<Pick(accepted, IntactAt), stored>>

\* The intact positions are positions of the accepted records.
LEMMA IntactType ==
    ASSUME accepted \in Seq(Record)
    PROVE  /\ Len(accepted) \in Nat /\ Ints(IntactAt)
           /\ \A k \in IntactAt : k \in 1 .. Len(accepted)
<1>1. Len(accepted) \in Nat /\ \A k \in IntactAt : k \in 1 .. Len(accepted)
  BY DEF IntactAt
<1>2. QED
  BY <1>1, IntervalInts, 1 \in Int, Len(accepted) \in Int

\* A step that leaves the accepted records alone leaves the promises alone.
LEMMA SamePromises ==
    ASSUME UNCHANGED <<accepted, swallowed>>
    PROVE  Pick(accepted, IntactAt)' = Pick(accepted, IntactAt)
<1>1. accepted' = accepted /\ IntactAt' = IntactAt
  BY DEF IntactAt, Intact
<1>2. QED
  BY <1>1, Zenon

\* AppendRecord promises one more message or none.
LEMMA AppendRefines ==
    ASSUME TypeOK, FileInv, NEW r \in Record, r \notin Elems(accepted), AppendRecord(r),
           UNCHANGED cpVars
    PROVE  Refines
<1>1. accepted \in Seq(Record) /\ swallowed \subseteq Elems(accepted) /\ stored' = stored
  BY DEF TypeOK, FileInv, cpVars
<1>2. PICK n \in Nat : /\ n = Len(accepted) /\ DOMAIN accepted = 1 .. n
                       /\ \A k \in IntactAt : k \in 1 .. n
  BY <1>1, IntactType
<1>3. CASE AppendSucceeds(r)
  <2>1. /\ accepted' = Append(accepted, r)
        /\ swallowed' = IF EndsInFragment THEN swallowed \cup {r} ELSE swallowed
    BY <1>3 DEF AppendSucceeds
  <2>2. /\ \A k \in 1 .. n : accepted'[k] = accepted[k]
        /\ DOMAIN accepted' = 1 .. n + 1
        /\ accepted'[n + 1] = r
    BY <1>1, <1>2, <2>1, Appended
  <2>3. r \notin swallowed
    BY <1>1
  <2>4. \A k \in 1 .. n : Intact(accepted[k])' <=> Intact(accepted[k])
    <3>1. SUFFICES ASSUME NEW k \in 1 .. n
                   PROVE  Intact(accepted[k])' <=> Intact(accepted[k])
      OBVIOUS
    <3>2. accepted[k] # r /\ accepted'[k] = accepted[k]
      BY <1>2, <2>2 DEF Elems
    <3>3. QED
      BY <2>1, <3>2 DEF Intact
  <2>5. CASE r \notin Unknown /\ ~EndsInFragment
    <3>1. Intact(accepted[n + 1])'
      BY <2>1, <2>2, <2>3, <2>5 DEF Intact
    <3>2. IntactAt' = IntactAt \cup {n + 1}
      BY <1>2, <2>2, <2>4, <3>1 DEF IntactAt
    <3>3. Pick(accepted, IntactAt)' = Append(Pick(accepted, IntactAt), r)
      BY <1>1, <1>2, <2>1, <3>2, PickNew
    <3>4. r \in Usage \cup Metadata
      BY <2>5 DEF Record
    <3>5. Outbound!Accept(r)
      BY <1>1, <3>3 DEF Outbound!Accept
    <3>6. Outbound!Next
      BY <3>4, <3>5 DEF Outbound!Next
    <3>7. QED
      BY <3>6 DEF Refines
  <2>6. CASE ~(r \notin Unknown /\ ~EndsInFragment)
    <3>1. ~Intact(accepted[n + 1])'
      BY <2>1, <2>2, <2>6 DEF Intact
    <3>2. IntactAt' = IntactAt
      BY <1>2, <2>2, <2>4, <3>1 DEF IntactAt
    <3>3. Pick(accepted, IntactAt)' = Pick(accepted, IntactAt)
      BY <1>1, <1>2, <2>1, <3>2, PickOld
    <3>4. QED
      BY <1>1, <3>3 DEF Refines
  <2>7. QED
    BY <2>5, <2>6
<1>4. CASE AppendFails
  BY <1>1, <1>4, SamePromises DEF AppendFails, Refines
<1>5. QED
  BY <1>3, <1>4 DEF AppendRecord

\* What is stored is a prefix of what was promised, so storing more of it is
\* a Receive.
LEMMA StoreRefines ==
    ASSUME TypeOK, StoredInv', UNCHANGED <<accepted, swallowed>>, stored \subseteq stored'
    PROVE  Refines
<1>1. Pick(accepted, IntactAt)' = Pick(accepted, IntactAt)
  BY SamePromises
<1>2. CASE stored' = stored
  BY <1>1, <1>2 DEF Refines
<1>3. CASE stored' # stored
  <2>1. PICK p, l : p = Pick(accepted, IntactAt) /\ l = Cardinality(IntactAt)
    OBVIOUS
  <2>2. accepted \in Seq(Record)
    BY DEF TypeOK
  <2>3. /\ Len(accepted) \in Nat /\ Ints(IntactAt)
        /\ \A k \in IntactAt : k \in 1 .. Len(accepted) /\ accepted[k] \in Record
    BY <2>2, IntactType
  <2>4. Len(p) = l /\ l \in Nat
    <3>1. \A k \in IntactAt : accepted[k] \in Record
      BY <2>3
    <3>2. QED
      BY <2>1, <2>3, <3>1, PickType, FS_CardinalityType DEF Ints
  <2>5. Sound(stored', accepted, swallowed) /\ Closed(stored', accepted, swallowed)
    BY DEF StoredInv
  <2>6. ASSUME NEW r \in stored' PROVE \E m \in 1 .. l : p[m] = r
    <3>1. PICK k \in DOMAIN accepted : r = accepted[k]
      BY <2>5 DEF Sound, Elems
    <3>2. k \in IntactAt
      BY <2>5, <3>1 DEF Sound, IntactAt, Intact
    <3>3. Rank(IntactAt, k) \in 1 .. l /\ p[Rank(IntactAt, k)] = accepted[k]
      BY <2>1, <2>3, <3>2, RankRange, PickAt
    <3>4. QED
      BY <3>1, <3>3
  <2>7. ASSUME NEW m \in 1 .. l PROVE \E i \in IntactAt : Rank(IntactAt, i) = m /\ p[m] = accepted[i]
    <3>1. PICK i \in IntactAt : Rank(IntactAt, i) = m
      BY <2>1, <2>3, RankOnto
    <3>2. QED
      BY <2>1, <2>3, <3>1, PickAt
  <2>8. ASSUME NEW x \in 1 .. l, NEW y \in 1 .. l, x < y, p[y] \in stored' PROVE p[x] \in stored'
    <3>1. PICK j \in IntactAt : Rank(IntactAt, j) = x /\ p[x] = accepted[j]
      BY <2>7
    <3>2. PICK k \in IntactAt : Rank(IntactAt, k) = y /\ p[y] = accepted[k]
      BY <2>7
    <3>3. j \in Int /\ k \in Int
      BY <2>3
    <3>4. k <= j => y <= x
      BY <2>3, <3>1, <3>2, <3>3, RankMonotone
    <3>5. j < k
      BY <2>4, <2>8, <3>3, <3>4
    <3>6. j \in DOMAIN accepted /\ k \in DOMAIN accepted /\ accepted[j] \notin Unknown
          /\ accepted[j] \notin swallowed
      BY DEF IntactAt, Intact
    <3>7. QED
      BY <2>5, <2>8, <3>1, <3>2, <3>5, <3>6 DEF Closed
  <2>9. stored' # {}
    BY <1>3
  <2>10. PICK n \in 1 .. l : stored' = {p[k] : k \in 1 .. n}
    <3>1. PICK st : st = stored'
      OBVIOUS
    <3>2. \A r \in st : \E m \in 1 .. l : p[m] = r
      BY <2>6, <3>1
    <3>3. \A x, y \in 1 .. l : x < y /\ p[y] \in st => p[x] \in st
      BY <2>8, <3>1
    <3>4. st # {}
      BY <2>9, <3>1
    <3>5. Downward(p, l, st)
      BY <3>2, <3>3 DEF Downward
    <3>6. FirstOf(p, l, st)
      BY <2>4, <3>4, <3>5, ClosedIsPrefix
    <3>7. QED
      BY <3>1, <3>6 DEF FirstOf
  <2>11. stored' = stored \cup {p[k] : k \in 1 .. n}
    BY <2>10
  <2>12. Outbound!Receive(n)
    BY <1>1, <2>1, <2>4, <2>11 DEF Outbound!Receive
  <2>13. n \in 1 .. Len(Pick(accepted, IntactAt))
    BY <2>1, <2>4
  <2>14. Outbound!Next
    BY <2>12, <2>13 DEF Outbound!Next
  <2>15. QED
    BY <2>14 DEF Refines
<1>4. QED
  BY <1>2, <1>3

\* Every step of the log is a step of OutboundLog, or none.
LEMMA NextRefines ==
    ASSUME IInv, OrderInv, OrderInv', [Next]_vars
    PROVE  Refines
<1>1. /\ TypeOK /\ OnceInv /\ FileInv /\ StoredInv'
  BY DEF IInv, OrderInv
<1>2. ASSUME UNCHANGED <<accepted, swallowed, stored>> PROVE Refines
  BY <1>2, SamePromises DEF Refines
<1>3. ASSUME Writers PROVE Refines
  <2>1. ASSUME NEW r \in Record, HandlerAppend(r) PROVE Refines
    <3>1. AppendRecord(r) /\ UNCHANGED cpVars /\ r \in fresh
      BY <2>1 DEF HandlerAppend
    <3>2. r \notin Elems(accepted)
      BY <1>1, <3>1 DEF OnceInv
    <3>3. QED
      BY <1>1, <3>1, <3>2, AppendRefines
  <2>2. ASSUME NEW r \in Record, EnqueueAdvisoryRecord(r) PROVE Refines
    BY <1>2, <2>2 DEF EnqueueAdvisoryRecord, cpVars
  <2>3. ASSUME WriteAdvisoryRecord PROVE Refines
    <3>1. PICK r : r = Head(queue)
      OBVIOUS
    <3>2. queue \in Seq(Record \ Usage) /\ queue # <<>>
      BY <1>1, <2>3 DEF TypeOK, WriteAdvisoryRecord
    <3>3. r \in Record /\ r \in Elems(queue)
      <4>1. r = queue[1] /\ 1 \in DOMAIN queue /\ r \in Record
        BY <3>1, <3>2
      <4>2. QED
        BY <4>1 DEF Elems
    <3>4. AppendRecord(r) /\ UNCHANGED cpVars
      BY <2>3, <3>1 DEF WriteAdvisoryRecord
    <3>5. r \notin Elems(accepted)
      BY <1>1, <3>3 DEF OnceInv
    <3>6. QED
      BY <1>1, <3>3, <3>4, <3>5, AppendRefines
  <2>4. QED
    BY <1>3, <2>1, <2>2, <2>3, Zenon DEF Writers
<1>4. ASSUME Flush PROVE Refines
  BY <1>2, <1>4 DEF Flush, FlushStart, ReadBatch, ReadFails, Send, SkipUnknown, Ack, SendFails,
     BatchDone, MarkNothing, MarkDelivered, CompactSnapshot, CompactRename, CompactSkips,
     CompactCheckpoint, inputVars, cpVars
<1>5. ASSUME Environment PROVE Refines
  <2>1. UNCHANGED <<accepted, swallowed>> /\ stored \subseteq stored'
    BY <1>5 DEF Environment, Store, StoreLate, ProbeControlPlane, Crash, Restart, inputVars, cpVars
  <2>2. QED
    BY <1>1, <2>1, StoreRefines
<1>6. ASSUME UNCHANGED vars PROVE Refines
  BY <1>2, <1>6 DEF vars, inputVars, cpVars
<1>7. QED
  BY <1>3, <1>4, <1>5, <1>6 DEF Next

(***************************************************************************)
(* "durable, at-least-once delivery" in order (wal.go, usage_stream.go):   *)
(* files, checkpoints, batches, retries and crashes are invisible.  What   *)
(* AppendRecord accepted intact is a growing sequence, and the control     *)
(* plane only ever receives more of its first messages.  This is           *)
(* OutboundLog without its fairness.                                       *)
(***************************************************************************)
THEOREM LogImplementsOutboundLog ==
    ASSUME CrashOnStaleCheckpoint = FALSE
    PROVE  Spec => Outbound!Spec
<1>1. ASSUME Init PROVE Outbound!Init
  <2>1. accepted = <<>> /\ stored = {}
    BY <1>1 DEF Init
  <2>2. IntactAt = {}
    BY <2>1 DEF IntactAt
  <2>3. \A x \in IntactAt : x \in 1 .. 0 /\ accepted[x] \in Record
    BY <2>2
  <2>4. Pick(accepted, IntactAt) \in Seq(Record) /\ Len(Pick(accepted, IntactAt)) = 0
    BY <2>2, <2>3, PickType, FS_EmptySet, 0 \in Nat
  <2>5. Pick(accepted, IntactAt) = <<>>
    BY <2>4
  <2>6. QED
    BY <2>1, <2>5 DEF Outbound!Init
<1>2. ASSUME IInv, OrderInv, OrderInv', [Next]_vars
      PROVE  [Outbound!Next]_(Outbound!logVars)
  BY <1>2, NextRefines DEF Refines, Outbound!logVars
<1>3. QED
  BY <1>1, <1>2, Invariance, OrderInvariance, PTL DEF Spec, Outbound!Spec
=============================================================================
