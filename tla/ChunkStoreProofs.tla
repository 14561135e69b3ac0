-------------------------- MODULE ChunkStoreProofs --------------------------
(***************************************************************************)
(* Proofs about ChunkStore, for any processes, chunks and thresholds.      *)
(***************************************************************************)
EXTENDS ChunkStore, FiniteSetTheorems, SequenceTheorems, WellFoundedInduction, TLAPS

Rec == [id : Chunk, base : Chunk \cup {None}]
Places == Chunk \cup {None, Missing}

\* Induction over numbers, of a set of them.
LEMMA EveryNumber ==
    ASSUME NEW S \in SUBSET Nat, \A n \in Nat : (\A m \in Nat : m < n => m \in S) => n \in S
    PROVE  S = Nat
<1>1. SUFFICES ASSUME Nat \ S # {} PROVE FALSE
  OBVIOUS
<1> DEFINE R == OpToRel(<, Nat)
<1>2. \A x, y \in Nat : <<x, y>> \in R <=> x < y
  BY DEF OpToRel
<1>3. IsWellFoundedOn(R, Nat)
  BY NatLessThanWellFounded DEF OpToRel
<1> HIDE DEF R
<1>4. PICK x \in Nat \ S : \A y \in Nat \ S : ~(<<y, x>> \in R)
  BY <1>1, <1>3, WFMin
<1> QED
  BY <1>2, <1>4

\* ... and step by step.
LEMMA OneByOne ==
    ASSUME NEW S, 0 \in S, \A n \in Nat : n \in S => n + 1 \in S
    PROVE  \A n \in Nat : n \in S
<1> DEFINE T == {n \in Nat : n \in S}
<1>1. ASSUME NEW n \in Nat, \A m \in Nat : m < n => m \in T PROVE n \in T
  <2>1. CASE n = 0
    BY <2>1
  <2>2. CASE n # 0
    <3>1. n - 1 \in Nat /\ n - 1 < n /\ n = (n - 1) + 1
      BY <2>2
    <3>2. n - 1 \in S
      BY <1>1, <3>1
    <3>3. (n - 1) + 1 \in S
      BY <3>1, <3>2
    <3> QED
      BY <3>1, <3>3
  <2> QED
    BY <2>1, <2>2
<1>2. T \in SUBSET Nat
  OBVIOUS
<1>3. T = Nat
  <2> HIDE DEF T
  <2> QED
    BY <1>1, <1>2, EveryNumber
<1> QED
  BY <1>3

\* There is a last one of some numbers up to a bound.
LEMMA HasLast ==
    ASSUME NEW n \in Nat, NEW S \in SUBSET (0 .. n), S # {}
    PROVE  \E i \in S : \A j \in S : j <= i
<1> DEFINE T == {k \in Nat : \E i \in S : k <= i}
<1>0. \A i \in S : i \in Nat /\ i <= n
  OBVIOUS
<1>1. SUFFICES ASSUME ~\E i \in S : \A j \in S : j <= i PROVE FALSE
  OBVIOUS
<1>2. 0 \in T
  <2>1. PICK i \in S : TRUE
    OBVIOUS
  <2>2. 0 <= i
    BY <1>0
  <2> QED
    BY <2>2
<1>3. \A k \in Nat : k \in T => k + 1 \in T
  <2>1. ASSUME NEW k \in Nat, NEW i \in S, k <= i PROVE \E j \in S : k + 1 <= j
    <3>1. PICK j \in S : ~(j <= i)
      BY <1>1
    <3> QED
      BY <1>0, <2>1, <3>1
  <2> QED
    BY <2>1
<1>4. \A k \in Nat : k \in T
  <2> HIDE DEF T
  <2> QED
    BY <1>2, <1>3, OneByOne
<1>5. n + 1 \in T
  <2> HIDE DEF T
  <2> QED
    BY <1>4
<1> QED
  BY <1>0, <1>5

-----------------------------------------------------------------------------
(* Chains of bases.                                                        *)

\* What lies n bases behind a chunk.
At(b, c, n) == Chain(b, c, n)[n]

\* Chain is what its recursion says (resolve follows base after base).
LEMMA ChainIs ==
    ASSUME NEW b, NEW c
    PROVE  \A n \in Nat :
             Chain(b, c, n) = [k \in 0 .. n |-> IF k = 0 THEN c ELSE b[Chain(b, c, n)[k - 1]]]
<1> DEFINE S == {n \in Nat : \E g : g = [k \in 0 .. n |-> IF k = 0 THEN c ELSE b[g[k - 1]]]}
<1>1. 0 \in S
  <2> DEFINE g == [k \in 0 .. 0 |-> c]
  <2>1. g = [k \in 0 .. 0 |-> IF k = 0 THEN c ELSE b[g[k - 1]]]
    OBVIOUS
  <2> QED
    BY <2>1
<1>2. ASSUME NEW n \in Nat, n \in S PROVE n + 1 \in S
  <2>1. PICK g : g = [k \in 0 .. n |-> IF k = 0 THEN c ELSE b[g[k - 1]]]
    BY <1>2
  <2> DEFINE h == [k \in 0 .. n + 1 |-> IF k = n + 1 THEN b[g[n]] ELSE g[k]]
  <2>2. ASSUME NEW k \in 0 .. n + 1 PROVE h[k] = IF k = 0 THEN c ELSE b[h[k - 1]]
    <3>1. CASE k = 0
      <4>1. g[0] = c
        BY <2>1
      <4> QED
        BY <3>1, <4>1
    <3>2. CASE k = n + 1
      BY <3>2
    <3>3. CASE k # 0 /\ k # n + 1
      <4>1. k \in 0 .. n /\ k - 1 \in 0 .. n /\ k - 1 # n + 1
        BY <3>3
      <4>2. g[k] = b[g[k - 1]]
        BY <2>1, <3>3, <4>1
      <4> QED
        BY <3>3, <4>1, <4>2
    <3> QED
      BY <3>1, <3>2, <3>3
  <2> DEFINE f == [k \in 0 .. n + 1 |-> IF k = 0 THEN c ELSE b[h[k - 1]]]
  <2>3. \A k \in 0 .. n + 1 : f[k] = h[k]
    BY <2>2
  <2>4. h = f
    <3>1. h = [k \in 0 .. n + 1 |-> h[k]] /\ f = [k \in 0 .. n + 1 |-> f[k]]
      OBVIOUS
    <3> HIDE DEF h, f
    <3> QED
      BY <2>3, <3>1
  <2>5. \E r : r = [k \in 0 .. n + 1 |-> IF k = 0 THEN c ELSE b[r[k - 1]]]
    <3> HIDE DEF h
    <3> QED
      BY <2>4
  <2> QED
    BY <2>5
<1>3. \A n \in Nat : n \in S
  <2> HIDE DEF S
  <2> QED
    BY <1>1, <1>2, OneByOne
<1> SUFFICES ASSUME NEW n \in Nat
             PROVE  Chain(b, c, n) = [k \in 0 .. n |-> IF k = 0 THEN c ELSE b[Chain(b, c, n)[k - 1]]]
  OBVIOUS
<1>4. PICK g : g = [k \in 0 .. n |-> IF k = 0 THEN c ELSE b[g[k - 1]]]
  BY <1>3
<1> QED
  BY <1>4 DEF Chain

OneByBase(b, c) ==
    /\ At(b, c, 0) = c
    /\ \A n \in Nat : At(b, c, n + 1) = b[At(b, c, n)]
    /\ \A n \in Nat : \A k \in 0 .. n : Chain(b, c, n)[k] = At(b, c, k)

\* Every prefix of a chain is a chain: one base at a time.
LEMMA AtIs == ASSUME NEW b, NEW c PROVE OneByBase(b, c)
<1>1. \A n \in Nat : Chain(b, c, n)[0] = c
  BY ChainIs
<1>2. \A n \in Nat : \A k \in 1 .. n : Chain(b, c, n)[k] = b[Chain(b, c, n)[k - 1]]
  BY ChainIs
<1> DEFINE S == {k \in Nat : \A n \in Nat : k <= n => Chain(b, c, n)[k] = At(b, c, k)}
<1>3. 0 \in S
  BY <1>1 DEF At
<1>4. ASSUME NEW k \in Nat, k \in S PROVE k + 1 \in S
  <2>1. ASSUME NEW n \in Nat, k + 1 <= n PROVE Chain(b, c, n)[k + 1] = b[At(b, c, k)]
    <3>1. k + 1 \in 1 .. n /\ (k + 1) - 1 = k /\ k <= n
      BY <2>1
    <3>2. Chain(b, c, n)[k + 1] = b[Chain(b, c, n)[(k + 1) - 1]]
      BY <1>2, <3>1
    <3>3. Chain(b, c, n)[k] = At(b, c, k)
      BY <1>4, <3>1
    <3> QED
      BY <3>1, <3>2, <3>3
  <2>2. At(b, c, k + 1) = b[At(b, c, k)]
    BY <2>1 DEF At
  <2> QED
    BY <2>1, <2>2
<1>5. \A k \in Nat : k \in S
  <2> HIDE DEF S
  <2> QED
    BY <1>3, <1>4, OneByOne
<1>6. \A n \in Nat : \A k \in 0 .. n : Chain(b, c, n)[k] = At(b, c, k)
  BY <1>5
<1>7. ASSUME NEW n \in Nat PROVE At(b, c, n + 1) = b[At(b, c, n)]
  <2>1. n + 1 \in 1 .. n + 1 /\ (n + 1) - 1 = n /\ n \in 0 .. n + 1 /\ n + 1 \in Nat
    OBVIOUS
  <2>2. Chain(b, c, n + 1)[n + 1] = b[Chain(b, c, n + 1)[(n + 1) - 1]]
    BY <1>2, <2>1
  <2>3. Chain(b, c, n + 1)[n] = At(b, c, n)
    BY <1>6, <2>1
  <2> QED
    BY <2>1, <2>2, <2>3 DEF At
<1> QED
  BY <1>1, <1>6, <1>7 DEF At, OneByBase

\* The next one is the base of this one.
LEMMA AtNext == ASSUME NEW b, NEW c, NEW n \in Nat PROVE At(b, c, n + 1) = b[At(b, c, n)]
<1>1. OneByBase(b, c)
  BY AtIs
<1> QED
  BY <1>1 DEF OneByBase

\* What a chunk index holds of each chunk (ChunkStore::index): a base, None or Missing.
BasesMap(b) ==
    /\ \A c \in Chunk : b[c] \in Places
    /\ b[None] = None /\ b[Missing] = Missing

IndexedIn(b) == {c \in Chunk : b[c] # Missing}

\* Every base is indexed, and no chain of bases comes back to where it was.
Ranked(b, rank) ==
    \A c \in Chunk : b[c] \in Chunk => b[b[c]] # Missing /\ rank[b[c]] < rank[c]
Grounded(b) == \E rank \in [Chunk -> Nat] : Ranked(b, rank)

\* A chain that ended stays ended (resolve returns at a full record).
LEMMA EndedStays ==
    ASSUME NEW b, BasesMap(b), NEW c, NEW k \in Nat, At(b, c, k) \in {None, Missing}
    PROVE  \A m \in Nat : At(b, c, k + m) = At(b, c, k)
<1> DEFINE S == {m \in Nat : At(b, c, k + m) = At(b, c, k)}
<1>1. 0 \in S
  OBVIOUS
<1>2. ASSUME NEW m \in Nat, m \in S PROVE m + 1 \in S
  <2>1. k + m \in Nat /\ k + (m + 1) = (k + m) + 1
    OBVIOUS
  <2>2. At(b, c, (k + m) + 1) = b[At(b, c, k + m)]
    BY <2>1, AtNext
  <2> QED
    BY <1>2, <2>1, <2>2 DEF BasesMap
<1>3. \A m \in Nat : m \in S
  <2> HIDE DEF S
  <2> QED
    BY <1>1, <1>2, OneByOne
<1> QED
  BY <1>3

\* Of a chunk that is not indexed no chain ends in a full record.
LEMMA AbsentIsNotWithin ==
    ASSUME NEW b, BasesMap(b), NEW c \in Chunk, b[c] = Missing, NEW n \in Nat
    PROVE  ~Within(b, c, n)
<1>1. At(b, c, 0) = c /\ At(b, c, 0 + 1) = b[At(b, c, 0)]
  BY AtIs DEF OneByBase
<1>2. At(b, c, 1 + n) = At(b, c, 1)
  BY <1>1, EndedStays
<1>3. Chain(b, c, n + 1)[n + 1] = At(b, c, n + 1)
  BY DEF At
<1> QED
  BY <1>1, <1>2, <1>3, ChunkStoreAssumption DEF Within

\* Where chains do not come back, every chain from an indexed chunk ends within as many
\* deltas as there are chunks: the bound of resolve is none.
LEMMA GroundedIsWithin ==
    ASSUME NEW b, BasesMap(b), Grounded(b), NEW c \in Chunk, b[c] # Missing
    PROVE  Within(b, c, Cardinality(Chunk))
<1> DEFINE n == Cardinality(Chunk)
<1>1. n \in Nat
  BY ChunkStoreAssumption, FS_CardinalityType
<1> HIDE DEF n
<1>2. PICK rank \in [Chunk -> Nat] : Ranked(b, rank)
  BY DEF Grounded
<1>a. ASSUME NEW k \in Nat PROVE At(b, c, k + 1) = b[At(b, c, k)]
  BY AtNext
<1>3. SUFFICES ASSUME At(b, c, n + 1) # None PROVE FALSE
  BY DEF Within, At, n
<1>4. \A k \in 0 .. n + 1 : At(b, c, k) # None
  <2> SUFFICES ASSUME NEW k \in 0 .. n + 1, At(b, c, k) = None PROVE FALSE
    OBVIOUS
  <2>1. k \in Nat /\ n + 1 - k \in Nat /\ k + (n + 1 - k) = n + 1
    BY <1>1
  <2>2. At(b, c, k + (n + 1 - k)) = At(b, c, k)
    BY <2>1, EndedStays
  <2> QED
    BY <1>3, <2>1, <2>2
<1> DEFINE S == {k \in Nat : k <= n => At(b, c, k) \in Chunk /\ b[At(b, c, k)] # Missing}
<1>5. 0 \in S
  BY AtIs DEF OneByBase
<1>6. ASSUME NEW k \in Nat, k \in S PROVE k + 1 \in S
  <2> SUFFICES ASSUME k + 1 <= n PROVE At(b, c, k + 1) \in Chunk /\ b[At(b, c, k + 1)] # Missing
    OBVIOUS
  <2>1. k <= n /\ k + 1 \in 0 .. n + 1
    BY <1>1
  <2>2. At(b, c, k) \in Chunk /\ b[At(b, c, k)] # Missing
    BY <1>6, <2>1
  <2>3. At(b, c, k + 1) = b[At(b, c, k)] /\ At(b, c, k + 1) # None
    BY <1>4, <2>1, AtNext
  <2> QED
    BY <1>2, <2>2, <2>3 DEF BasesMap, Places, Ranked
<1>7. \A k \in Nat : k \in S
  <2> HIDE DEF S
  <2> QED
    BY <1>5, <1>6, OneByOne
<1>8. \A k \in 0 .. n : At(b, c, k) \in Chunk
  BY <1>1, <1>7
<1> HIDE DEF S
<1>9. \A k \in Nat : k + 1 <= n => rank[At(b, c, k + 1)] < rank[At(b, c, k)]
  <2> SUFFICES ASSUME NEW k \in Nat, k + 1 <= n PROVE rank[At(b, c, k + 1)] < rank[At(b, c, k)]
    OBVIOUS
  <2>1. k \in 0 .. n /\ k + 1 \in 0 .. n
    BY <1>1
  <2>2. At(b, c, k + 1) = b[At(b, c, k)]
    BY <1>a
  <2> QED
    BY <1>2, <1>8, <2>1, <2>2 DEF Ranked
<1> DEFINE D(k) == {m \in Nat : k + m + 1 <= n => rank[At(b, c, k + m + 1)] < rank[At(b, c, k)]}
<1>10. ASSUME NEW k \in 0 .. n PROVE \A m \in Nat : m \in D(k)
  <2>1. 0 \in D(k)
    BY <1>1, <1>9
  <2>2. ASSUME NEW m \in Nat, m \in D(k) PROVE m + 1 \in D(k)
    <3> SUFFICES ASSUME k + (m + 1) + 1 <= n PROVE rank[At(b, c, k + (m + 1) + 1)] < rank[At(b, c, k)]
      OBVIOUS
    <3>1. k + m + 1 \in 0 .. n /\ (k + m + 1) + 1 = k + (m + 1) + 1 /\ (k + m + 1) + 1 \in 0 .. n
      BY <1>1
    <3>2. rank[At(b, c, (k + m + 1) + 1)] < rank[At(b, c, k + m + 1)]
      BY <1>9, <3>1
    <3>3. rank[At(b, c, k + m + 1)] < rank[At(b, c, k)]
      BY <1>1, <2>2, <3>1
    <3>4. rank[At(b, c, (k + m + 1) + 1)] \in Nat /\ rank[At(b, c, k + m + 1)] \in Nat /\ rank[At(b, c, k)] \in Nat
      BY <1>8, <3>1
    <3> QED
      BY <3>1, <3>2, <3>3, <3>4
  <2> HIDE DEF D
  <2> QED
    BY <2>1, <2>2, OneByOne
<1>11. ASSUME NEW i \in 0 .. n, NEW j \in 0 .. n, i < j PROVE At(b, c, i) # At(b, c, j)
  <2>1. j - i - 1 \in Nat /\ i + (j - i - 1) + 1 = j
    BY <1>1, <1>11
  <2>2. j - i - 1 \in D(i)
    <3> HIDE DEF D
    <3> QED
      BY <1>10, <2>1
  <2>3. rank[At(b, c, j)] < rank[At(b, c, i)]
    BY <1>1, <2>1, <2>2
  <2>4. rank[At(b, c, i)] \in Nat
    BY <1>8
  <2> QED
    BY <2>3, <2>4
<1> DEFINE f == [k \in 0 .. n |-> At(b, c, k)]
<1>12. f \in [0 .. n -> Chunk]
  BY <1>8
<1>13. IsFiniteSet(0 .. n) /\ Cardinality(0 .. n) = n + 1
  BY <1>1, FS_Interval
<1>14. Cardinality(Chunk) < Cardinality(0 .. n)
  BY <1>1, <1>13 DEF n
<1>15. PICK i \in 0 .. n, j \in 0 .. n : i # j /\ f[i] = f[j]
  <2> HIDE DEF f
  <2> QED
    BY <1>12, <1>13, <1>14, ChunkStoreAssumption, FS_PigeonHole
<1>16. i < j \/ j < i
  BY <1>1, <1>15
<1> QED
  BY <1>11, <1>15, <1>16

-----------------------------------------------------------------------------
(* The bases that records tell of.                                         *)

IsLast(recs, c, i) ==
    i \in DOMAIN recs /\ recs[i].id = c /\ \A j \in DOMAIN recs : recs[j].id = c => j <= i

\* Of an indexed chunk there is a last record.
LEMMA LastRecord ==
    ASSUME NEW recs \in Seq(Rec), NEW c \in Indexed(recs)
    PROVE  \E i : IsLast(recs, c, i)
<1> DEFINE S == {i \in DOMAIN recs : recs[i].id = c}
<1>1. Len(recs) \in Nat /\ DOMAIN recs = 1 .. Len(recs)
  BY LenProperties
<1>2. S \in SUBSET (0 .. Len(recs)) /\ S # {}
  BY <1>1 DEF Indexed
<1>3. \E i \in S : \A j \in S : j <= i
  <2> HIDE DEF S
  <2> QED
    BY <1>1, <1>2, HasLast
<1> QED
  BY <1>3 DEF IsLast

\* Bases gives its base (the hash map keeps the insert that came last).
LEMMA BaseOfLast ==
    ASSUME NEW recs \in Seq(Rec), NEW c \in Places, NEW i, IsLast(recs, c, i)
    PROVE  Bases(recs)[c] = recs[i].base
<1> DEFINE at == {k \in DOMAIN recs : recs[k].id = c}
<1>1. i \in at /\ \A j \in at : j <= i
  BY DEF IsLast
<1>2. \A k \in at : (\A j \in at : j <= k) => k = i
  <2>1. \A k \in at : k \in Int
    BY LenProperties
  <2> QED
    BY <1>1, <2>1
<1>3. (CHOOSE k \in at : \A j \in at : j <= k) = i
  <2> HIDE DEF at
  <2> QED
    BY <1>1, <1>2
<1>4. c \in Indexed(recs)
  BY DEF IsLast, Indexed
<1> QED
  BY <1>3, <1>4 DEF Bases, Places

\* What no record tells of is missing.
LEMMA BaseOfNone ==
    ASSUME NEW recs \in Seq(Rec), NEW c \in Places, c \notin Indexed(recs)
    PROVE  Bases(recs)[c] = IF c = None THEN None ELSE Missing
BY DEF Bases, Places

\* The bases are a map, and tell what is indexed.
LEMMA BasesAreMap ==
    ASSUME NEW recs \in Seq(Rec)
    PROVE  BasesMap(Bases(recs)) /\ IndexedIn(Bases(recs)) = Indexed(recs)
           /\ Indexed(recs) \subseteq Chunk
<1>1. \A i \in DOMAIN recs : recs[i] \in Rec
  BY ElementOfSeq, LenProperties
<1>2. Indexed(recs) \subseteq Chunk
  BY <1>1 DEF Indexed, Rec
<1>3. ASSUME NEW c \in Indexed(recs) PROVE Bases(recs)[c] \in Chunk \cup {None}
  <2>1. PICK i : IsLast(recs, c, i)
    BY LastRecord
  <2>2. Bases(recs)[c] = recs[i].base
    BY <1>2, <2>1, BaseOfLast DEF Places
  <2> QED
    BY <1>1, <2>1, <2>2 DEF IsLast, Rec
<1>4. ASSUME NEW c \in Places, c \notin Indexed(recs)
      PROVE  Bases(recs)[c] = IF c = None THEN None ELSE Missing
  BY <1>4, BaseOfNone
<1> QED
  BY <1>2, <1>3, <1>4, ChunkStoreAssumption DEF BasesMap, IndexedIn, Places

\* Two lists of records with the same base of everything have the same bases.
LEMMA SameBases ==
    ASSUME NEW X, NEW Y, \A c \in Places : Bases(X)[c] = Bases(Y)[c]
    PROVE  Bases(X) = Bases(Y)
<1>1. Bases(X) = [c \in Places |-> Bases(X)[c]]
  BY DEF Bases, Places
<1>2. Bases(Y) = [c \in Places |-> Bases(Y)[c]]
  BY DEF Bases, Places
<1> QED
  BY <1>1, <1>2

\* Records after others hide them (load() inserts pack after pack).
LEMMA BasesOfJoin ==
    ASSUME NEW X \in Seq(Rec), NEW Y \in Seq(Rec)
    PROVE  /\ X \o Y \in Seq(Rec)
           /\ Indexed(X \o Y) = Indexed(X) \cup Indexed(Y)
           /\ \A c \in Places : Bases(X \o Y)[c] = IF c \in Indexed(Y) THEN Bases(Y)[c]
                                                                    ELSE Bases(X)[c]
<1>1. /\ X \o Y \in Seq(Rec) /\ Len(X \o Y) = Len(X) + Len(Y)
      /\ Len(X) \in Nat /\ Len(Y) \in Nat
      /\ DOMAIN X = 1 .. Len(X) /\ DOMAIN Y = 1 .. Len(Y)
  BY ConcatProperties, LenProperties
<1>2. DOMAIN (X \o Y) = 1 .. Len(X) + Len(Y)
  BY <1>1, LenProperties
<1>3. \A i \in 1 .. Len(X) + Len(Y) : (X \o Y)[i] = IF i <= Len(X) THEN X[i] ELSE Y[i - Len(X)]
  BY ConcatProperties
<1>4. \A i \in DOMAIN X : i \in DOMAIN (X \o Y) /\ (X \o Y)[i] = X[i]
  BY <1>1, <1>2, <1>3
<1>5. \A i \in DOMAIN Y : Len(X) + i \in DOMAIN (X \o Y) /\ (X \o Y)[Len(X) + i] = Y[i]
  <2>1. ASSUME NEW i \in 1 .. Len(Y)
        PROVE  /\ Len(X) + i \in 1 .. Len(X) + Len(Y) /\ ~(Len(X) + i <= Len(X))
               /\ Len(X) + i - Len(X) = i
    BY <1>1
  <2> QED
    BY <1>1, <1>2, <1>3, <2>1
<1>6. \A i \in DOMAIN (X \o Y) :
         \/ i \in DOMAIN X /\ (X \o Y)[i] = X[i]
         \/ i - Len(X) \in DOMAIN Y /\ i > Len(X) /\ (X \o Y)[i] = Y[i - Len(X)]
  BY <1>1, <1>2, <1>3
<1>7. Indexed(X \o Y) = Indexed(X) \cup Indexed(Y)
  <2>1. Indexed(X) \subseteq Indexed(X \o Y)
    BY <1>4 DEF Indexed
  <2>2. Indexed(Y) \subseteq Indexed(X \o Y)
    BY <1>5 DEF Indexed
  <2>3. Indexed(X \o Y) \subseteq Indexed(X) \cup Indexed(Y)
    BY <1>6 DEF Indexed
  <2> QED
    BY <2>1, <2>2, <2>3
<1>8. ASSUME NEW c \in Places
      PROVE  Bases(X \o Y)[c] = IF c \in Indexed(Y) THEN Bases(Y)[c] ELSE Bases(X)[c]
  <2>1. CASE c \in Indexed(Y)
    <3>1. PICK i : IsLast(Y, c, i)
      BY <2>1, LastRecord
    <3>2. IsLast(X \o Y, c, Len(X) + i)
      <4>1. i \in 1 .. Len(Y) /\ (X \o Y)[Len(X) + i].id = c /\ Len(X) + i \in DOMAIN (X \o Y)
        BY <1>1, <1>5, <3>1 DEF IsLast
      <4>2. ASSUME NEW j \in DOMAIN (X \o Y), (X \o Y)[j].id = c PROVE j <= Len(X) + i
        <5>1. CASE j \in DOMAIN X
          BY <1>1, <4>1, <5>1
        <5>2. CASE j \notin DOMAIN X
          <6>1. j - Len(X) \in DOMAIN Y /\ (X \o Y)[j] = Y[j - Len(X)]
            BY <1>6, <5>2
          <6>2. j - Len(X) <= i
            BY <3>1, <4>2, <6>1 DEF IsLast
          <6>3. j \in Int /\ i \in Int
            BY <1>1, <1>2, <4>1
          <6> QED
            BY <1>1, <6>2, <6>3
        <5> QED
          BY <5>1, <5>2
      <4> QED
        BY <4>1, <4>2 DEF IsLast
    <3>3. Bases(X \o Y)[c] = (X \o Y)[Len(X) + i].base /\ Bases(Y)[c] = Y[i].base
      <4> DEFINE Z == X \o Y
      <4>1. Z \in Seq(Rec) /\ IsLast(Z, c, Len(X) + i)
        BY <1>1, <3>2
      <4> HIDE DEF Z
      <4>2. Bases(Z)[c] = Z[Len(X) + i].base
        BY <4>1, BaseOfLast
      <4>3. Bases(Y)[c] = Y[i].base
        BY <3>1, BaseOfLast
      <4> QED
        BY <4>2, <4>3 DEF Z
    <3>4. (X \o Y)[Len(X) + i] = Y[i]
      BY <1>5, <3>1 DEF IsLast
    <3> QED
      BY <2>1, <3>3, <3>4
  <2>2. CASE c \notin Indexed(Y) /\ c \in Indexed(X)
    <3>1. PICK i : IsLast(X, c, i)
      BY <2>2, LastRecord
    <3>2. IsLast(X \o Y, c, i)
      <4>1. i \in DOMAIN (X \o Y) /\ (X \o Y)[i].id = c
        BY <1>4, <3>1 DEF IsLast
      <4>2. ASSUME NEW j \in DOMAIN (X \o Y), (X \o Y)[j].id = c PROVE j <= i
        <5>1. CASE j \in DOMAIN X
          BY <1>4, <3>1, <4>2, <5>1 DEF IsLast
        <5>2. CASE j \notin DOMAIN X
          BY <1>6, <2>2, <4>2, <5>2 DEF Indexed
        <5> QED
          BY <5>1, <5>2
      <4> QED
        BY <4>1, <4>2 DEF IsLast
    <3>3. Bases(X \o Y)[c] = (X \o Y)[i].base /\ Bases(X)[c] = X[i].base
      BY <1>1, <3>1, <3>2, BaseOfLast
    <3>4. (X \o Y)[i] = X[i]
      BY <1>4, <3>1 DEF IsLast
    <3> QED
      BY <2>2, <3>3, <3>4
  <2>3. CASE c \notin Indexed(Y) /\ c \notin Indexed(X)
    <3>1. c \notin Indexed(X \o Y)
      BY <1>7, <2>3
    <3> QED
      BY <1>1, <2>3, <3>1, BaseOfNone
  <2> QED
    BY <2>1, <2>2, <2>3
<1> QED
  BY <1>1, <1>7, <1>8

\* What comes after all it may hide hides everything.
LEMMA JoinHides ==
    ASSUME NEW X \in Seq(Rec), NEW Y \in Seq(Rec), Indexed(X) \subseteq Indexed(Y)
    PROVE  Bases(X \o Y) = Bases(Y)
<1>1. ASSUME NEW c \in Places PROVE Bases(X \o Y)[c] = Bases(Y)[c]
  <2>1. CASE c \in Indexed(Y)
    BY <2>1, BasesOfJoin
  <2>2. CASE c \notin Indexed(Y)
    <3>1. Bases(X \o Y)[c] = Bases(X)[c]
      BY <2>2, BasesOfJoin
    <3>2. c \notin Indexed(X)
      BY <2>2
    <3> QED
      BY <2>2, <3>1, <3>2, BaseOfNone
  <2> QED
    BY <2>1, <2>2
<1> QED
  BY <1>1, SameBases

\* What comes after hides the same whatever has the same bases.
LEMMA JoinSame ==
    ASSUME NEW X \in Seq(Rec), NEW Z \in Seq(Rec), NEW Y \in Seq(Rec), Bases(X) = Bases(Z)
    PROVE  Bases(X \o Y) = Bases(Z \o Y)
<1>1. \A c \in Places : Bases(X \o Y)[c] = Bases(Z \o Y)[c]
  BY BasesOfJoin
<1> QED
  BY <1>1, SameBases

\* One record more: its chunk has its base (ChunkStore::append_record).
LEMMA BasesOfAppend ==
    ASSUME NEW X \in Seq(Rec), NEW r \in Rec
    PROVE  /\ Append(X, r) \in Seq(Rec)
           /\ Indexed(Append(X, r)) = Indexed(X) \cup {r.id}
           /\ \A c \in Places : Bases(Append(X, r))[c] = IF c = r.id THEN r.base ELSE Bases(X)[c]
<1> DEFINE Y == <<r>>
<1>1. Y \in Seq(Rec) /\ DOMAIN Y = {1} /\ Y[1] = r
  OBVIOUS
<1>2. Append(X, r) = X \o Y
  BY AppendIsConcat
<1> HIDE DEF Y
<1>3. Indexed(Y) = {r.id} /\ IsLast(Y, r.id, 1)
  BY <1>1 DEF Indexed, IsLast
<1>4. r.id \in Places
  BY DEF Rec, Places
<1>5. Bases(Y)[r.id] = r.base
  BY <1>1, <1>3, <1>4, BaseOfLast
<1>6. /\ X \o Y \in Seq(Rec)
      /\ Indexed(X \o Y) = Indexed(X) \cup Indexed(Y)
      /\ \A c \in Places : Bases(X \o Y)[c] = IF c \in Indexed(Y) THEN Bases(Y)[c] ELSE Bases(X)[c]
  BY <1>1, BasesOfJoin
<1> QED
  BY <1>2, <1>3, <1>5, <1>6

\* An insert into the index is, for what it tells of, an append.
LEMMA InsertedIs ==
    ASSUME NEW X \in Seq(Rec), NEW r \in Rec
    PROVE  Inserted(X, r) \in Seq(Rec) /\ Bases(Inserted(X, r)) = Bases(Append(X, r))
<1> DEFINE at == {i \in DOMAIN X : X[i].id = r.id}
           was == CHOOSE i \in at : TRUE
           A == SubSeq(X, 1, was - 1)
           B == SubSeq(X, was + 1, Len(X))
<1>0. Len(X) \in Nat /\ DOMAIN X = 1 .. Len(X) /\ \A i \in 1 .. Len(X) : X[i] \in Rec
  BY LenProperties, ElementOfSeq
<1>1. CASE at = {}
  <2>1. Inserted(X, r) = Append(X, r)
    BY <1>1 DEF Inserted
  <2> QED
    BY <2>1, BasesOfAppend
<1>2. CASE at # {}
  <2>1. was \in at
    BY <1>2
  <2>2. was \in 1 .. Len(X) /\ X[was].id = r.id
    BY <1>0, <2>1
  <2>3. Inserted(X, r) = Append(A \o B, r)
    BY <1>2 DEF Inserted
  <2> DEFINE k == was
             one == <<X[k]>>
  <2> HIDE DEF was
  <2>4. A \in Seq(Rec) /\ B \in Seq(Rec)
    <3>1. \A i \in 1 .. was - 1 : X[i] \in Rec
      BY <1>0, <2>2
    <3>2. \A i \in was + 1 .. Len(X) : X[i] \in Rec
      BY <1>0, <2>2
    <3>3. was - 1 \in Int /\ was + 1 \in Int /\ Len(X) \in Int
      BY <1>0, <2>2
    <3>4. SubSeq(X, 1, was - 1) \in Seq(Rec)
      BY <3>1, <3>3, SubSeqProperties
    <3>5. SubSeq(X, was + 1, Len(X)) \in Seq(Rec)
      BY <3>2, <3>3, SubSeqProperties
    <3> QED
      BY <3>4, <3>5
  <2>5. one \in Seq(Rec) /\ DOMAIN one = {1} /\ one[1] = X[was]
    BY <1>0, <2>2
  <2>6. X = A \o (one \o B)
    <3>1. X = SubSeq(X, 1, Len(X))
      BY SubSeqFull
    <3>2. SubSeq(X, was, Len(X)) = one \o B
      BY <1>0, <2>2, SubSeqRecursiveFirst
    <3>3. 1 \in 1 .. Len(X) + 1 /\ was - 1 \in 1 - 1 .. Len(X) /\ Len(X) \in was - 1 .. Len(X)
          /\ (was - 1) + 1 = was
      BY <1>0, <2>2
    <3>4. SubSeq(X, 1, was - 1) \o SubSeq(X, (was - 1) + 1, Len(X)) = SubSeq(X, 1, Len(X))
      BY <3>3, ConcatAdjacentSubSeq
    <3> QED
      BY <3>1, <3>2, <3>3, <3>4
  <2>7. Indexed(one) = {r.id}
    BY <2>2, <2>5 DEF Indexed
  <2> HIDE DEF A, B, one, k
  <2>8. A \o B \in Seq(Rec) /\ one \o B \in Seq(Rec)
    BY <2>4, <2>5, BasesOfJoin
  <2>9. ASSUME NEW c \in Places, c # r.id PROVE Bases(A \o B)[c] = Bases(X)[c]
    <3>1. Bases(A \o B)[c] = IF c \in Indexed(B) THEN Bases(B)[c] ELSE Bases(A)[c]
      BY <2>4, BasesOfJoin
    <3>2. /\ Bases(one \o B)[c] = IF c \in Indexed(B) THEN Bases(B)[c] ELSE Bases(one)[c]
          /\ Indexed(one \o B) = Indexed(one) \cup Indexed(B)
      BY <2>4, <2>5, BasesOfJoin
    <3>3. Bases(A \o (one \o B))[c] = IF c \in Indexed(one \o B) THEN Bases(one \o B)[c] ELSE Bases(A)[c]
      <4> DEFINE W == one \o B
      <4>1. W \in Seq(Rec)
        BY <2>8
      <4> HIDE DEF W
      <4>2. Bases(A \o W)[c] = IF c \in Indexed(W) THEN Bases(W)[c] ELSE Bases(A)[c]
        BY <2>4, <4>1, BasesOfJoin
      <4> QED
        BY <4>2 DEF W
    <3> QED
      BY <2>6, <2>7, <2>9, <3>1, <3>2, <3>3
  <2>10. ASSUME NEW c \in Places
         PROVE  Bases(Append(A \o B, r))[c] = Bases(Append(X, r))[c]
    <3>1. Bases(Append(A \o B, r))[c] = IF c = r.id THEN r.base ELSE Bases(A \o B)[c]
      BY <2>8, BasesOfAppend
    <3>2. Bases(Append(X, r))[c] = IF c = r.id THEN r.base ELSE Bases(X)[c]
      BY BasesOfAppend
    <3> QED
      BY <2>9, <3>1, <3>2
  <2>11. Append(A \o B, r) \in Seq(Rec)
    BY <2>8, BasesOfAppend
  <2>12. Bases(Append(A \o B, r)) = Bases(Append(X, r))
    BY <2>10, SameBases
  <2> QED
    BY <2>3, <2>11, <2>12 DEF A, B
<1> QED
  BY <1>1, <1>2

-----------------------------------------------------------------------------
(* The lists load() makes, step by step.                                   *)

\* A list made step by step exists.
LEMMA StepByStep ==
    ASSUME NEW T, NEW x \in T, NEW N \in Nat, NEW G \in [1 .. N -> [T -> T]]
    PROVE  \E g \in [0 .. N -> T] : g[0] = x /\ \A k \in 1 .. N : g[k] = G[k][g[k - 1]]
<1> DEFINE S == {n \in Nat : n <= N => \E g \in [0 .. n -> T] :
                               g[0] = x /\ \A k \in 1 .. n : g[k] = G[k][g[k - 1]]}
<1>1. 0 \in S
  <2> DEFINE g == [k \in 0 .. 0 |-> x]
  <2>1. g \in [0 .. 0 -> T] /\ g[0] = x /\ \A k \in 1 .. 0 : g[k] = G[k][g[k - 1]]
    OBVIOUS
  <2> HIDE DEF g
  <2> QED
    BY <2>1
<1>2. ASSUME NEW n \in Nat, n \in S PROVE n + 1 \in S
  <2> SUFFICES ASSUME n + 1 <= N
               PROVE  \E g \in [0 .. n + 1 -> T] :
                         g[0] = x /\ \A k \in 1 .. n + 1 : g[k] = G[k][g[k - 1]]
    OBVIOUS
  <2>0. n <= N /\ n + 1 \in 1 .. N
    OBVIOUS
  <2>1. PICK g \in [0 .. n -> T] : g[0] = x /\ \A k \in 1 .. n : g[k] = G[k][g[k - 1]]
    BY <1>2, <2>0
  <2> DEFINE h == [k \in 0 .. n + 1 |-> IF k = n + 1 THEN G[n + 1][g[n]] ELSE g[k]]
  <2>2. G[n + 1] \in [T -> T] /\ g[n] \in T
    BY <2>0
  <2>3. \A k \in 0 .. n + 1 : h[k] \in T
    BY <2>2
  <2>4. h \in [0 .. n + 1 -> T]
    BY <2>3
  <2>5. h[0] = x
    BY <2>1
  <2>6. ASSUME NEW k \in 1 .. n + 1 PROVE h[k] = G[k][h[k - 1]]
    <3>1. CASE k = n + 1
      BY <3>1
    <3>2. CASE k # n + 1
      <4>1. k \in 1 .. n /\ k - 1 \in 0 .. n /\ k - 1 # n + 1 /\ k \in 0 .. n + 1 /\ k - 1 \in 0 .. n + 1
        BY <3>2
      <4> QED
        BY <2>1, <3>2, <4>1
    <3> QED
      BY <3>1, <3>2
  <2> HIDE DEF h
  <2> QED
    BY <2>4, <2>5, <2>6
<1>3. N \in S
  <2> HIDE DEF S
  <2> QED
    BY <1>1, <1>2, OneByOne
<1> QED
  BY <1>3

\* The index of a list of records has its bases (the loop of load).
LEMMA LiveIs ==
    ASSUME NEW recs \in Seq(Rec)
    PROVE  Live(recs) \in Seq(Rec) /\ Bases(Live(recs)) = Bases(recs)
<1> DEFINE N == Len(recs)
           G == [k \in 1 .. N |-> [s \in Seq(Rec) |-> Inserted(s, recs[k])]]
<1>0. N \in Nat /\ \A k \in 1 .. N : recs[k] \in Rec
  BY LenProperties, ElementOfSeq
<1>1. G \in [1 .. N -> [Seq(Rec) -> Seq(Rec)]]
  BY <1>0, InsertedIs
<1>2. PICK g \in [0 .. N -> Seq(Rec)] : g[0] = <<>> /\ \A k \in 1 .. N : g[k] = G[k][g[k - 1]]
  <2> DEFINE T == Seq(Rec)
             x == <<>>
  <2>1. x \in T /\ N \in Nat /\ G \in [1 .. N -> [T -> T]]
    BY <1>0, <1>1
  <2> HIDE DEF G, N, T, x
  <2>2. \E g \in [0 .. N -> T] : g[0] = x /\ \A k \in 1 .. N : g[k] = G[k][g[k - 1]]
    BY <2>1, StepByStep
  <2> QED
    BY <2>2 DEF T, x
<1>3. \A k \in 1 .. N : g[k] = Inserted(g[k - 1], recs[k])
  <2> SUFFICES ASSUME NEW k \in 1 .. N PROVE g[k] = Inserted(g[k - 1], recs[k])
    OBVIOUS
  <2>1. k - 1 \in 0 .. N
    BY <1>0
  <2>2. g[k - 1] \in Seq(Rec)
    BY <2>1
  <2> QED
    BY <1>2, <2>2
<1> DEFINE Is(u) == u = [n \in 0 .. N |-> IF n = 0 THEN <<>> ELSE Inserted(u[n - 1], recs[n])]
<1>4. Is(g)
  BY <1>0, <1>2, <1>3
<1> DEFINE h == CHOOSE u : Is(u)
<1>5. Is(h)
  <2> HIDE DEF Is
  <2> QED
    BY <1>4
<1>6. Live(recs) = h[N]
  BY DEF Live
<1> HIDE DEF h
<1>7. h[0] = <<>> /\ \A k \in 1 .. N : h[k] = Inserted(h[k - 1], recs[k])
  BY <1>0, <1>5
<1> DEFINE S == {n \in Nat : n <= N => h[n] \in Seq(Rec) /\ Bases(h[n]) = Bases(SubSeq(recs, 1, n))}
<1>8. 0 \in S
  <2>1. SubSeq(recs, 1, 0) = <<>> /\ <<>> \in Seq(Rec)
    BY SubSeqEmpty
  <2>2. h[0] = SubSeq(recs, 1, 0) /\ h[0] \in Seq(Rec)
    BY <1>7, <2>1
  <2> QED
    BY <2>2
<1>9. ASSUME NEW n \in Nat, n \in S PROVE n + 1 \in S
  <2> SUFFICES ASSUME n + 1 <= N
               PROVE  h[n + 1] \in Seq(Rec) /\ Bases(h[n + 1]) = Bases(SubSeq(recs, 1, n + 1))
    OBVIOUS
  <2>1. n <= N /\ n + 1 \in 1 .. N /\ (n + 1) - 1 = n /\ 1 \in 1 .. N
    BY <1>0
  <2>2. h[n] \in Seq(Rec) /\ Bases(h[n]) = Bases(SubSeq(recs, 1, n))
    BY <1>9, <2>1
  <2>3. h[n + 1] = Inserted(h[n], recs[n + 1]) /\ recs[n + 1] \in Rec
    BY <1>0, <1>7, <2>1
  <2>4. h[n + 1] \in Seq(Rec) /\ Bases(h[n + 1]) = Bases(Append(h[n], recs[n + 1]))
    BY <2>2, <2>3, InsertedIs
  <2> DEFINE A == SubSeq(recs, 1, n)
             one == <<recs[n + 1]>>
  <2>5. SubSeq(recs, 1, n + 1) = A \o one
    <3>1. SubSeq(recs, 1, n + 1) = SubSeq(recs, 1, (n + 1) - 1) \o <<recs[n + 1]>>
      BY <2>1, SubSeqRecursiveSecond
    <3> QED
      BY <2>1, <3>1
  <2>6. A \in Seq(Rec) /\ one \in Seq(Rec)
    <3>1. \A i \in 1 .. n : recs[i] \in Rec
      BY <1>0, <2>1
    <3>2. SubSeq(recs, 1, n) \in Seq(Rec)
      BY <3>1, SubSeqProperties
    <3> QED
      BY <2>3, <3>2
  <2>7. Append(h[n], recs[n + 1]) = h[n] \o one
    BY <2>2, <2>3, AppendIsConcat
  <2>8. Bases(h[n] \o one) = Bases(A \o one)
    <3>1. Bases(h[n]) = Bases(A)
      BY <2>2
    <3> HIDE DEF A, one
    <3> QED
      BY <2>2, <2>6, <3>1, JoinSame
  <2> QED
    BY <2>4, <2>5, <2>7, <2>8
<1>10. N \in S
  <2> HIDE DEF S
  <2> QED
    BY <1>0, <1>8, <1>9, OneByOne
<1>11. SubSeq(recs, 1, N) = recs
  BY SubSeqFull
<1> HIDE DEF N
<1>12. h[N] \in Seq(Rec) /\ Bases(h[N]) = Bases(SubSeq(recs, 1, N))
  BY <1>0, <1>10
<1> QED
  BY <1>6, <1>11, <1>12

-----------------------------------------------------------------------------
(* What load() takes of pack after pack.                                   *)

OkFile(f) ==
    /\ f.recs \in Seq(Rec)
    /\ f.synced \in 0 .. Len(f.recs)
    /\ f.idx = None \/ f.idx \in -1 .. f.synced

\* What it takes of a pack that is not the active one.
Kept(f) == IF f.idx = None THEN f.recs ELSE SubSeq(f.recs, 1, f.idx)

Joined(t, n) ==
    LET J[s \in 0 .. n] == IF s = 0 THEN <<>> ELSE J[s - 1] \o t[s] IN J[n]

\* The records of the first n packs.
Before(files, n) == Joined([s \in 1 .. n |-> Kept(files[s])], n)

IsJoin(g, t, n) ==
    g \in [0 .. n -> Seq(Rec)] /\ g[0] = <<>> /\ \A k \in 1 .. n : g[k] = g[k - 1] \o t[k]

\* A join of lists exists.
LEMMA JoinExists ==
    ASSUME NEW n \in Nat, NEW t, \A s \in 1 .. n : t[s] \in Seq(Rec)
    PROVE  \E g : IsJoin(g, t, n)
<1> DEFINE G == [k \in 1 .. n |-> [s \in Seq(Rec) |-> s \o t[k]]]
           T == Seq(Rec)
           x == <<>>
<1>1. x \in T /\ G \in [1 .. n -> [T -> T]]
  <2>1. \A k \in 1 .. n : \A s \in Seq(Rec) : s \o t[k] \in Seq(Rec)
    BY ConcatProperties
  <2> QED
    BY <2>1
<1>2. \E g \in [0 .. n -> T] : g[0] = x /\ \A k \in 1 .. n : g[k] = G[k][g[k - 1]]
  <2> HIDE DEF G, T, x
  <2> QED
    BY <1>1, StepByStep
<1> HIDE DEF T, x
<1>3. PICK g \in [0 .. n -> T] : g[0] = x /\ \A k \in 1 .. n : g[k] = G[k][g[k - 1]]
  BY <1>2
<1>4. ASSUME NEW k \in 1 .. n PROVE g[k] = g[k - 1] \o t[k]
  <2>1. k - 1 \in 0 .. n
    OBVIOUS
  <2>2. g[k - 1] \in Seq(Rec)
    BY <2>1 DEF T
  <2> QED
    BY <1>3, <2>2
<1> QED
  BY <1>3, <1>4 DEF IsJoin, T, x

\* Joins of lists that begin alike begin alike.
LEMMA JoinsAlike ==
    ASSUME NEW n \in Nat, NEW m \in Nat, n <= m, NEW g, NEW h, NEW t, NEW u,
           IsJoin(g, t, n), IsJoin(h, u, m), \A k \in 1 .. n : t[k] = u[k]
    PROVE  \A k \in 0 .. n : g[k] = h[k]
<1> DEFINE S == {k \in Nat : k <= n => g[k] = h[k]}
<1>1. 0 \in S
  BY DEF IsJoin
<1>2. ASSUME NEW k \in Nat, k \in S PROVE k + 1 \in S
  <2>1. CASE k + 1 <= n
    <3>1. k <= n /\ k + 1 \in 1 .. n /\ k + 1 \in 1 .. m /\ (k + 1) - 1 = k
      BY <2>1
    <3>2. g[k + 1] = g[(k + 1) - 1] \o t[k + 1] /\ h[k + 1] = h[(k + 1) - 1] \o u[k + 1]
      BY <3>1 DEF IsJoin
    <3>3. g[k] = h[k]
      BY <1>2, <3>1
    <3>4. g[k + 1] = h[k + 1]
      BY <3>1, <3>2, <3>3, Zenon
    <3> QED
      BY <3>4
  <2> QED
    BY <2>1
<1>3. \A k \in Nat : k \in S
  <2> HIDE DEF S
  <2> QED
    BY <1>1, <1>2, OneByOne
<1> QED
  BY <1>3

\* Joined is the end of the join.
LEMMA JoinedIs ==
    ASSUME NEW n \in Nat, NEW t, \A s \in 1 .. n : t[s] \in Seq(Rec)
    PROVE  \E g : IsJoin(g, t, n) /\ Joined(t, n) = g[n]
<1> DEFINE Is(u) == u = [s \in 0 .. n |-> IF s = 0 THEN <<>> ELSE u[s - 1] \o t[s]]
           h == CHOOSE u : Is(u)
<1>1. PICK g : IsJoin(g, t, n)
  BY JoinExists
<1>2. Is(g)
  <2>1. \A k \in 0 .. n : k # 0 => k \in 1 .. n
    OBVIOUS
  <2>2. \A k \in 0 .. n : g[k] = IF k = 0 THEN <<>> ELSE g[k - 1] \o t[k]
    BY <1>1, <2>1, Zenon DEF IsJoin
  <2>3. g = [k \in 0 .. n |-> g[k]]
    BY <1>1 DEF IsJoin
  <2> QED
    BY <2>2, <2>3
<1>3. Is(h)
  <2> HIDE DEF Is
  <2> QED
    BY <1>2
<1>4. Joined(t, n) = h[n]
  BY DEF Joined
<1> HIDE DEF h
<1>5. h[0] = <<>> /\ \A k \in 1 .. n : h[k] = h[k - 1] \o t[k]
  <2>1. 0 \in 0 .. n /\ \A k \in 1 .. n : k # 0 /\ k \in 0 .. n
    OBVIOUS
  <2>2. \A k \in 0 .. n : h[k] = IF k = 0 THEN <<>> ELSE h[k - 1] \o t[k]
    BY <1>3, Zenon
  <2> QED
    BY <2>1, <2>2, Zenon
<1> DEFINE S == {k \in Nat : k <= n => h[k] = g[k]}
<1>6. 0 \in S
  BY <1>1, <1>5 DEF IsJoin
<1>7. ASSUME NEW k \in Nat, k \in S PROVE k + 1 \in S
  <2>1. CASE k + 1 <= n
    <3>1. k <= n /\ k + 1 \in 1 .. n /\ (k + 1) - 1 = k
      BY <2>1
    <3>2. h[k + 1] = h[(k + 1) - 1] \o t[k + 1] /\ g[k + 1] = g[(k + 1) - 1] \o t[k + 1]
      BY <1>1, <1>5, <3>1 DEF IsJoin
    <3>3. h[k] = g[k]
      BY <1>7, <3>1
    <3>4. h[k + 1] = g[k + 1]
      BY <3>1, <3>2, <3>3, Zenon
    <3> QED
      BY <3>4
  <2> QED
    BY <2>1
<1>8. n \in S
  <2> HIDE DEF S
  <2> QED
    BY <1>6, <1>7, OneByOne
<1> QED
  BY <1>1, <1>4, <1>8

File == [recs : Seq(Rec), synced : Nat, idx : Int \cup {None}]
OkFiles(files) ==
    files \in Seq(File) /\ Len(files) > 0 /\ \A s \in 1 .. Len(files) : OkFile(files[s])

\* What is taken of a pack is a list of its records, all of them if its altidx is of
\* all.
LEMMA KeptIs ==
    ASSUME NEW f, OkFile(f)
    PROVE  /\ Kept(f) \in Seq(Rec) /\ Indexed(Kept(f)) \subseteq Indexed(f.recs)
           /\ f.idx = Len(f.recs) => Kept(f) = f.recs
<1>1. CASE f.idx = None
  BY <1>1 DEF Kept, OkFile
<1>2. CASE f.idx # None
  <2> DEFINE R == f.recs
             n == f.idx
  <2>1. R \in Seq(Rec) /\ n \in Int /\ n <= Len(R) /\ Len(R) \in Nat
    BY <1>2, LenProperties DEF OkFile
  <2>2. Kept(f) = SubSeq(R, 1, n)
    BY <1>2 DEF Kept
  <2> HIDE DEF R, n
  <2>3. \A i \in 1 .. n : R[i] \in Rec /\ i \in DOMAIN R
    BY <2>1, LenProperties, ElementOfSeq
  <2> DEFINE Q == SubSeq(R, 1, n)
  <2>4. /\ Q \in Seq(Rec) /\ Len(Q) = IF 1 <= n THEN n - 1 + 1 ELSE 0
        /\ \A i \in 1 .. n - 1 + 1 : Q[i] = R[1 + i - 1]
    BY <2>1, <2>3, SubSeqProperties
  <2> HIDE DEF Q
  <2>5. DOMAIN Q = 1 .. Len(Q)
    BY <2>4, LenProperties
  <2>6. \A i \in DOMAIN Q : i \in 1 .. n /\ Q[i] = R[i]
    BY <2>1, <2>4, <2>5
  <2>7. Indexed(Q) \subseteq Indexed(R)
    BY <2>3, <2>6 DEF Indexed
  <2>8. n = Len(R) => Q = R
    BY <2>1, SubSeqFull DEF Q
  <2> QED
    BY <2>2, <2>4, <2>7, <2>8 DEF Q, R, n
<1> QED
  BY <1>1, <1>2

\* The records of the first packs are those of the first but one, and those of that one.
LEMMA BeforeIs ==
    ASSUME NEW files, OkFiles(files), NEW n \in 0 .. Len(files)
    PROVE  /\ Before(files, n) \in Seq(Rec)
           /\ n = 0 => Before(files, n) = <<>>
           /\ n > 0 => Before(files, n) = Before(files, n - 1) \o Kept(files[n])
<1> DEFINE t == [s \in 1 .. n |-> Kept(files[s])]
           u == [s \in 1 .. n - 1 |-> Kept(files[s])]
<1>0. n \in Nat /\ Len(files) \in Nat
  BY LenProperties DEF OkFiles
<1>1. \A s \in 1 .. n : t[s] \in Seq(Rec)
  BY <1>0, KeptIs DEF OkFiles
<1>2. PICK g : IsJoin(g, t, n) /\ Joined(t, n) = g[n]
  <2> HIDE DEF t
  <2> QED
    BY <1>0, <1>1, JoinedIs
<1>3. Before(files, n) = g[n]
  BY <1>2 DEF Before
<1>4. Before(files, n) \in Seq(Rec) /\ (n = 0 => Before(files, n) = <<>>)
  BY <1>0, <1>2, <1>3 DEF IsJoin
<1>5. ASSUME n > 0 PROVE Before(files, n) = Before(files, n - 1) \o Kept(files[n])
  <2>1. n - 1 \in Nat /\ n - 1 <= n /\ n \in 1 .. n /\ n - 1 \in 0 .. n - 1
    BY <1>0, <1>5
  <2>2. \A s \in 1 .. n - 1 : u[s] \in Seq(Rec) /\ u[s] = t[s]
    BY <1>0, <1>1
  <2>3. PICK h : IsJoin(h, u, n - 1) /\ Joined(u, n - 1) = h[n - 1]
    <3> HIDE DEF u
    <3> QED
      BY <2>1, <2>2, JoinedIs
  <2>4. Before(files, n - 1) = h[n - 1]
    BY <2>3 DEF Before
  <2>5. h[n - 1] = g[n - 1]
    <3> HIDE DEF t, u
    <3> QED
      BY <1>0, <1>2, <2>1, <2>2, <2>3, JoinsAlike
  <2>6. g[n] = g[n - 1] \o t[n]
    BY <1>2, <2>1 DEF IsJoin
  <2> QED
    BY <1>3, <2>1, <2>4, <2>5, <2>6
<1> QED
  BY <1>4, <1>5

\* They depend on what is taken of those packs only.
LEMMA BeforeSame ==
    ASSUME NEW files, NEW others, NEW n \in Nat, \A s \in 1 .. n : Kept(files[s]) = Kept(others[s])
    PROVE  Before(files, n) = Before(others, n)
<1>1. [s \in 1 .. n |-> Kept(files[s])] = [s \in 1 .. n |-> Kept(others[s])]
  OBVIOUS
<1> QED
  BY <1>1 DEF Before

\* Where less is taken of each pack, less is indexed.
LEMMA BeforeLess ==
    ASSUME NEW files, OkFiles(files), NEW others, OkFiles(others),
           NEW n \in Nat, n <= Len(files), n <= Len(others),
           \A s \in 1 .. n : Indexed(Kept(others[s])) \subseteq Indexed(Kept(files[s]))
    PROVE  Indexed(Before(others, n)) \subseteq Indexed(Before(files, n))
<1> DEFINE S == {k \in Nat : k <= n => Indexed(Before(others, k)) \subseteq Indexed(Before(files, k))}
<1>0. Len(files) \in Nat /\ Len(others) \in Nat
  BY LenProperties DEF OkFiles
<1>1. 0 \in S
  <2>1. 0 \in 0 .. Len(files) /\ 0 \in 0 .. Len(others)
    BY <1>0
  <2>2. Before(others, 0) = <<>> /\ Before(files, 0) = <<>>
    BY <2>1, BeforeIs
  <2> QED
    BY <2>2
<1>2. ASSUME NEW k \in Nat, k \in S PROVE k + 1 \in S
  <2> SUFFICES ASSUME k + 1 <= n
               PROVE  Indexed(Before(others, k + 1)) \subseteq Indexed(Before(files, k + 1))
    OBVIOUS
  <2>1. /\ k <= n /\ k + 1 \in 1 .. n /\ (k + 1) - 1 = k /\ k + 1 > 0
        /\ k + 1 \in 0 .. Len(files) /\ k + 1 \in 0 .. Len(others)
        /\ k \in 0 .. Len(files) /\ k \in 0 .. Len(others)
        /\ k + 1 \in 1 .. Len(files) /\ k + 1 \in 1 .. Len(others)
    BY <1>0
  <2>2. Before(others, k + 1) = Before(others, (k + 1) - 1) \o Kept(others[k + 1])
    BY <2>1, BeforeIs
  <2>3. Before(files, k + 1) = Before(files, (k + 1) - 1) \o Kept(files[k + 1])
    BY <2>1, BeforeIs
  <2>4. Before(others, k) \in Seq(Rec) /\ Before(files, k) \in Seq(Rec)
    BY <2>1, BeforeIs
  <2>5. Kept(others[k + 1]) \in Seq(Rec) /\ Kept(files[k + 1]) \in Seq(Rec)
    BY <2>1, KeptIs DEF OkFiles
  <2>6. Indexed(Before(others, k) \o Kept(others[k + 1])) = Indexed(Before(others, k)) \cup Indexed(Kept(others[k + 1]))
    BY <2>4, <2>5, BasesOfJoin
  <2>7. Indexed(Before(files, k) \o Kept(files[k + 1])) = Indexed(Before(files, k)) \cup Indexed(Kept(files[k + 1]))
    BY <2>4, <2>5, BasesOfJoin
  <2>8. Indexed(Before(others, k)) \subseteq Indexed(Before(files, k))
    BY <1>2, <2>1
  <2> QED
    BY <2>1, <2>2, <2>3, <2>6, <2>7, <2>8
<1>3. n \in S
  <2> HIDE DEF S
  <2> QED
    BY <1>1, <1>2, OneByOne
<1> QED
  BY <1>3

\* load() takes what the altidx tells of every pack but the last, and all of that.
LEMMA RecordsIs ==
    ASSUME NEW files, OkFiles(files)
    PROVE  /\ Records(files) = Before(files, Len(files) - 1) \o files[Len(files)].recs
           /\ Records(files) \in Seq(Rec)
<1> DEFINE n == Len(files)
           t == [s \in 1 .. n |-> Told(files, s)]
           u == [s \in 1 .. n - 1 |-> Kept(files[s])]
           Is(w) == w = [s \in 0 .. n |-> IF s = 0 THEN <<>> ELSE w[s - 1] \o Told(files, s)]
           h == CHOOSE w : Is(w)
<1>0. n \in Nat /\ n > 0
  BY LenProperties DEF OkFiles
<1>1. \A s \in 1 .. n : Told(files, s) = IF s = n THEN files[s].recs ELSE Kept(files[s])
  BY DEF Told, Kept
<1>2. \A s \in 1 .. n : t[s] \in Seq(Rec)
  BY <1>1, KeptIs DEF OkFiles, OkFile
<1>3. PICK g : IsJoin(g, t, n)
  <2> HIDE DEF t, n
  <2> QED
    BY <1>0, <1>2, JoinExists
<1>4. Is(g)
  BY <1>3 DEF IsJoin
<1>5. Is(h)
  <2> HIDE DEF Is
  <2> QED
    BY <1>4
<1>6. Records(files) = h[n]
  BY DEF Records
<1> HIDE DEF h
<1>7. h[0] = <<>> /\ \A k \in 1 .. n : h[k] = h[k - 1] \o t[k]
  <2>1. 0 \in 0 .. n /\ \A k \in 1 .. n : k # 0 /\ k \in 0 .. n
    BY <1>0
  <2>2. \A k \in 0 .. n : h[k] = IF k = 0 THEN <<>> ELSE h[k - 1] \o Told(files, k)
    BY <1>5, Zenon
  <2>3. \A k \in 1 .. n : t[k] = Told(files, k)
    OBVIOUS
  <2> QED
    BY <2>1, <2>2, <2>3, Zenon
<1> DEFINE S == {k \in Nat : k <= n => h[k] = g[k]}
<1>8. 0 \in S
  BY <1>3, <1>7 DEF IsJoin
<1>9. ASSUME NEW k \in Nat, k \in S PROVE k + 1 \in S
  <2>1. CASE k + 1 <= n
    <3>1. k <= n /\ k + 1 \in 1 .. n /\ (k + 1) - 1 = k
      BY <1>0, <2>1
    <3>2. h[k + 1] = h[(k + 1) - 1] \o t[k + 1] /\ g[k + 1] = g[(k + 1) - 1] \o t[k + 1]
      BY <1>3, <1>7, <3>1 DEF IsJoin
    <3>3. h[k] = g[k]
      BY <1>9, <3>1
    <3>4. h[k + 1] = g[k + 1]
      BY <3>1, <3>2, <3>3, Zenon
    <3> QED
      BY <3>4
  <2> QED
    BY <2>1
<1>10. \A k \in Nat : k \in S
  <2> HIDE DEF S
  <2> QED
    BY <1>8, <1>9, OneByOne
<1>11. h[n] = g[n]
  BY <1>0, <1>10
<1>12. g[n] = g[n - 1] \o files[n].recs /\ g[n] \in Seq(Rec)
  <2>1. n \in 1 .. n /\ n \in 0 .. n
    BY <1>0
  <2>2. t[n] = files[n].recs
    BY <1>1, <2>1
  <2> QED
    BY <1>3, <2>1, <2>2 DEF IsJoin
<1>13. \A s \in 1 .. n - 1 : u[s] \in Seq(Rec) /\ u[s] = t[s]
  BY <1>0, <1>1, <1>2
<1>14. n - 1 \in Nat /\ n - 1 <= n /\ n - 1 \in 0 .. n - 1
  BY <1>0
<1>15. PICK w : IsJoin(w, u, n - 1) /\ Joined(u, n - 1) = w[n - 1]
  <2> HIDE DEF u, n
  <2> QED
    BY <1>13, <1>14, JoinedIs
<1>16. w[n - 1] = g[n - 1]
  <2> HIDE DEF t, u, n
  <2> QED
    BY <1>0, <1>3, <1>13, <1>14, <1>15, JoinsAlike
<1>17. Before(files, n - 1) = w[n - 1]
  BY <1>15 DEF Before
<1> QED
  BY <1>6, <1>11, <1>12, <1>16, <1>17

-----------------------------------------------------------------------------
(* Chunks are put and re-encoded.                                          *)

\* What a map of bases becomes when a chunk gets another base.
Rebased(b, bb, r) == \A c \in Places : bb[c] = IF c = r.id THEN r.base ELSE b[c]

\* A chunk that was not indexed comes in whole (put): every chain is as it was.
LEMMA PutGrounds ==
    ASSUME NEW b, BasesMap(b), Grounded(b), NEW bb, NEW r \in Rec, Rebased(b, bb, r),
           b[r.id] = Missing, r.base = None
    PROVE  Grounded(bb)
<1>1. PICK rank \in [Chunk -> Nat] : Ranked(b, rank)
  BY DEF Grounded
<1>2. r.id \in Chunk /\ None \notin Chunk /\ Missing \notin Chunk /\ None # Missing
  BY ChunkStoreAssumption DEF Rec
<1>3. ASSUME NEW c \in Chunk, bb[c] \in Chunk PROVE bb[bb[c]] # Missing /\ rank[bb[c]] < rank[c]
  <2>1. c # r.id
    BY <1>2, <1>3 DEF Rebased, Places
  <2>2. bb[c] = b[c]
    BY <2>1 DEF Rebased, Places
  <2>3. b[b[c]] # Missing /\ rank[b[c]] < rank[c]
    BY <1>1, <1>3, <2>2 DEF Ranked
  <2>4. b[c] # r.id
    BY <2>3
  <2> QED
    BY <1>3, <2>2, <2>3, <2>4 DEF Rebased, Places
<1> QED
  BY <1>3 DEF Grounded, Ranked

\* A whole chunk becomes a delta against one whose chain it is not on
\* (reencode_as_delta): the chains through it get longer, none comes back.
LEMMA ReencodeGrounds ==
    ASSUME NEW b, BasesMap(b), Grounded(b), NEW bb, NEW r \in Rec, Rebased(b, bb, r),
           r.base \in Chunk, b[r.base] # Missing, r.id \notin Behind(b, r.base)
    PROVE  Grounded(bb)
<1> DEFINE c == r.id
           base == r.base
           n == Cardinality(Chunk)
           B == Behind(b, base)
<1>0. /\ c \in Chunk /\ base \in Chunk /\ None \notin Chunk /\ Missing \notin Chunk
      /\ n \in Nat
  BY ChunkStoreAssumption, FS_CardinalityType DEF Rec
<1>1. PICK rank \in [Chunk -> Nat] : Ranked(b, rank)
  BY DEF Grounded
<1>2. B = {At(b, base, k) : k \in 0 .. n}
  <2>1. \A k \in 0 .. n : Chain(b, base, n)[k] = At(b, base, k)
    <3>1. OneByBase(b, base)
      BY AtIs
    <3> QED
      BY <1>0, <3>1 DEF OneByBase
  <2>2. B = {Chain(b, base, n)[k] : k \in 0 .. n}
    BY DEF Behind
  <2> QED
    BY <2>1, <2>2
<1>3. base \in B /\ c \notin B
  <2>1. At(b, base, 0) = base /\ 0 \in 0 .. n
    BY <1>0, AtIs DEF OneByBase
  <2> HIDE DEF n
  <2> QED
    BY <1>2, <2>1
<1>4. ASSUME NEW y \in B, b[y] \in Chunk PROVE b[y] \in B
  <2>1. PICK k \in 0 .. n : y = At(b, base, k)
    BY <1>2
  <2>2. At(b, base, k + 1) = b[y]
    <3>1. k \in Nat
      BY <1>0
    <3> QED
      BY <2>1, <3>1, AtNext
  <2>3. At(b, base, n + 1) = None
    BY <1>0, GroundedIsWithin DEF Within, At
  <2>4. k + 1 \in 0 .. n
    BY <1>0, <1>4, <2>2, <2>3
  <2> HIDE DEF n, B
  <2> QED
    BY <1>2, <2>2, <2>4
<1> HIDE DEF B, n
<1> DEFINE K == rank[base] + 1
           more == [x \in Chunk |-> IF x \in B THEN rank[x] ELSE rank[x] + K]
<1>5. K \in Nat /\ K > rank[base] /\ more \in [Chunk -> Nat]
  BY <1>0
<1>6. bb[c] = base /\ \A x \in Chunk : x # c => bb[x] = b[x]
  BY <1>0 DEF Rebased, Places
<1>7. ASSUME NEW x \in Chunk, bb[x] \in Chunk PROVE bb[bb[x]] # Missing /\ more[bb[x]] < more[x]
  <2>1. CASE x = c
    <3>1. bb[x] = base /\ base # c
      BY <1>3, <1>6, <2>1
    <3>2. bb[base] = b[base]
      BY <1>0, <1>6, <3>1
    <3>3. more[base] = rank[base] /\ more[c] = rank[c] + K
      BY <1>0, <1>3
    <3> QED
      BY <1>0, <1>5, <2>1, <3>1, <3>2, <3>3
  <2>2. CASE x # c
    <3>1. bb[x] = b[x]
      BY <1>6, <2>2
    <3>2. b[b[x]] # Missing /\ rank[b[x]] < rank[x]
      BY <1>1, <1>7, <3>1 DEF Ranked
    <3>3. bb[b[x]] # Missing
      BY <1>0, <1>6, <1>7, <3>1, <3>2
    <3>4. x \in B => b[x] \in B
      BY <1>4, <1>7, <3>1
    <3>5. rank[x] \in Nat /\ rank[b[x]] \in Nat
      BY <1>7, <3>1
    <3>6. more[b[x]] < more[x]
      BY <1>5, <1>7, <3>1, <3>2, <3>4, <3>5
    <3> QED
      BY <3>1, <3>3, <3>6
  <2> QED
    BY <2>1, <2>2
<1> HIDE DEF more
<1> QED
  BY <1>5, <1>7 DEF Grounded, Ranked

\* What can be read is what is indexed.
LEMMA ReadIsIndexed ==
    ASSUME NEW b, BasesMap(b), Grounded(b)
    PROVE  \A c \in Chunk : Within(b, c, Cardinality(Chunk)) <=> b[c] # Missing
<1>1. Cardinality(Chunk) \in Nat
  BY ChunkStoreAssumption, FS_CardinalityType
<1> QED
  BY <1>1, AbsentIsNotWithin, GroundedIsWithin

-----------------------------------------------------------------------------
(* The files.                                                              *)

CutBases(files, n) ==
    Bases(Before(files, Len(files) - 1) \o SubSeq(files[Len(files)].recs, 1, n))

\* What the files tell of is grounded and has what was answered for, also when the
\* active pack is cut anywhere behind what is on the device.
GoodFiles(files, kept) ==
    /\ OkFiles(files)
    /\ \A s \in 1 .. Len(files) - 1 : files[s].synced = Len(files[s].recs)
    /\ files[Len(files)].idx # -1
    /\ \A n \in files[Len(files)].synced .. Len(files[Len(files)].recs) :
          Grounded(CutBases(files, n)) /\ kept \subseteq IndexedIn(CutBases(files, n))

\* What has to be known of a pack that comes after some records.
GoodAfter(prior, f, kept) ==
    /\ f \in File /\ OkFile(f) /\ f.idx # -1
    /\ \A n \in f.synced .. Len(f.recs) :
          /\ Grounded(Bases(prior \o SubSeq(f.recs, 1, n)))
          /\ kept \subseteq IndexedIn(Bases(prior \o SubSeq(f.recs, 1, n)))

\* The files after the active pack has become f.
Becomes(gs, files, f) ==
    /\ Len(gs) = Len(files) /\ gs[Len(files)] = f /\ Seqs(gs) = Seqs(files)
    /\ \A s \in 1 .. Len(files) - 1 : gs[s] = files[s]
    /\ Before(gs, Len(gs) - 1) = Before(files, Len(files) - 1)
    /\ Records(gs) = Before(files, Len(files) - 1) \o f.recs

\* Only the active pack changes.
LEMMA LastChanged ==
    ASSUME NEW files, NEW kept, GoodFiles(files, kept), NEW f, NEW more,
           GoodAfter(Before(files, Len(files) - 1), f, more)
    PROVE  /\ GoodFiles([files EXCEPT ![Len(files)] = f], more)
           /\ Becomes([files EXCEPT ![Len(files)] = f], files, f)
<1> DEFINE n == Len(files)
           gs == [files EXCEPT ![n] = f]
<1>0. /\ n \in Nat /\ n > 0 /\ n \in 1 .. n /\ files \in Seq(File) /\ DOMAIN files = 1 .. n
      /\ f \in File /\ OkFile(f) /\ f.idx # -1 /\ f # Gone /\ files[n] # Gone
  BY LenProperties DEF GoodFiles, OkFiles, GoodAfter, Gone
<1>1. gs \in Seq(File) /\ Len(gs) = n /\ \A s \in 1 .. n : gs[s] = IF s = n THEN f ELSE files[s]
  BY <1>0, ExceptSeq
<1>2. DOMAIN gs = 1 .. n
  BY <1>0, SMTT(30)
<1> HIDE DEF gs
<1>3. OkFiles(gs)
  BY <1>0, <1>1 DEF GoodFiles, OkFiles
<1>a. \A s \in 1 .. n - 1 : s \in 1 .. n /\ s # n
  <2> HIDE DEF n
  <2> QED
    BY <1>0
<1>b. \A s \in 1 .. n - 1 : gs[s] = files[s]
  BY <1>1, <1>a
<1>4. Before(gs, n - 1) = Before(files, n - 1)
  <2>1. \A s \in 1 .. n - 1 : gs[s] = files[s]
    BY <1>b
  <2>2. \A s \in 1 .. n - 1 : Kept(gs[s]) = Kept(files[s])
    BY <2>1
  <2>3. n - 1 \in Nat
    BY <1>0
  <2> HIDE DEF n
  <2> QED
    BY <2>2, <2>3, BeforeSame
<1>5. Seqs(gs) = Seqs(files)
  <2>1. \A s \in 1 .. n : gs[s] # Gone <=> files[s] # Gone
    BY <1>0, <1>1
  <2> QED
    BY <1>0, <1>2, <2>1, SMTT(30) DEF Seqs
<1>6. Records(gs) = Before(gs, n - 1) \o f.recs
  BY <1>0, <1>1, <1>3, RecordsIs
<1>7. GoodFiles(gs, more)
  <2>1. gs[n] = f
    BY <1>0, <1>1
  <2>2. ASSUME NEW k
        PROVE  CutBases(gs, k) = Bases(Before(files, n - 1) \o SubSeq(f.recs, 1, k))
    BY <1>1, <1>4, <2>1, Zenon DEF CutBases
  <2>3. \A s \in 1 .. n - 1 : gs[s].synced = Len(gs[s].recs)
    <3>1. \A s \in 1 .. n - 1 : files[s].synced = Len(files[s].recs)
      BY Zenon DEF GoodFiles
    <3> QED
      BY <1>b, <3>1
  <2>4. \A k \in f.synced .. Len(f.recs) : Grounded(CutBases(gs, k)) /\ more \subseteq IndexedIn(CutBases(gs, k))
    BY <2>2, SMTT(30) DEF GoodAfter
  <2> HIDE DEF n
  <2> QED
    BY <1>0, <1>1, <1>3, <2>1, <2>3, <2>4, SMTT(30) DEF GoodFiles
<1>8. Becomes(gs, files, f)
  BY <1>0, <1>1, <1>b, <1>4, <1>5, <1>6 DEF Becomes
<1> QED
  BY <1>7, <1>8 DEF gs

\* The files after one more.
Extends(gs, files, f) ==
    /\ Len(gs) = Len(files) + 1 /\ gs[Len(gs)] = f /\ Seqs(gs) = Seqs(files) \cup {Len(gs)}
    /\ \A s \in 1 .. Len(files) : gs[s] = files[s]
    /\ Before(gs, Len(gs) - 1) = Before(files, Len(files))
    /\ Records(gs) = Before(files, Len(files)) \o f.recs

\* A pack is added behind one that is all on the device.
LEMMA FileAdded ==
    ASSUME NEW files, NEW kept, GoodFiles(files, kept), NEW f,
           files[Len(files)].synced = Len(files[Len(files)].recs),
           GoodAfter(Before(files, Len(files)), f, kept)
    PROVE  GoodFiles(Append(files, f), kept) /\ Extends(Append(files, f), files, f)
<1> DEFINE n == Len(files)
           gs == Append(files, f)
<1>0. /\ n \in Nat /\ n > 0 /\ n \in 1 .. n /\ files \in Seq(File) /\ DOMAIN files = 1 .. n
      /\ f \in File /\ OkFile(f) /\ f.idx # -1 /\ f # Gone
  BY LenProperties DEF GoodFiles, OkFiles, GoodAfter, Gone
<1>1. gs \in Seq(File) /\ Len(gs) = n + 1 /\ gs[n + 1] = f /\ \A s \in 1 .. n : gs[s] = files[s]
  BY <1>0, AppendProperties
<1>2. DOMAIN gs = 1 .. n + 1
  BY <1>1, LenProperties
<1> HIDE DEF gs
<1>3. OkFiles(gs)
  BY <1>0, <1>1 DEF GoodFiles, OkFiles
<1>4. Before(gs, (n + 1) - 1) = Before(files, n)
  <2>1. \A s \in 1 .. n : Kept(gs[s]) = Kept(files[s])
    BY <1>1
  <2>2. Before(gs, n) = Before(files, n)
    <3> HIDE DEF n
    <3> QED
      BY <1>0, <2>1, BeforeSame
  <2>3. (n + 1) - 1 = n
    BY <1>0
  <2> QED
    BY <2>2, <2>3
<1>5. Seqs(gs) = Seqs(files) \cup {n + 1}
  <2>1. \A s \in 1 .. n + 1 : s \in 1 .. n \/ s = n + 1
    BY <1>0
  <2>2. 1 .. n \subseteq 1 .. n + 1 /\ n + 1 \in 1 .. n + 1
    BY <1>0
  <2> QED
    BY <1>0, <1>1, <1>2, <2>1, <2>2 DEF Seqs
<1>6. Records(gs) = Before(gs, (n + 1) - 1) \o f.recs
  BY <1>1, <1>3, RecordsIs
<1>7. GoodFiles(gs, kept)
  <2>1. ASSUME NEW k
        PROVE  CutBases(gs, k) = Bases(Before(files, n) \o SubSeq(f.recs, 1, k))
    BY <1>1, <1>4, Zenon DEF CutBases
  <2>2. \A s \in 1 .. (n + 1) - 1 : gs[s].synced = Len(gs[s].recs)
    <3>1. \A s \in 1 .. (n + 1) - 1 : s \in 1 .. n /\ (s = n \/ s \in 1 .. n - 1)
      <4> HIDE DEF n
      <4> QED
        BY <1>0
    <3>2. \A s \in 1 .. n : files[s].synced = Len(files[s].recs)
      <4>1. \A s \in 1 .. n : s = n \/ s \in 1 .. n - 1
        <5> HIDE DEF n
        <5> QED
          BY <1>0
      <4> QED
        BY <4>1 DEF GoodFiles
    <3> QED
      BY <1>1, <3>1, <3>2
  <2>3. \A k \in f.synced .. Len(f.recs) : Grounded(CutBases(gs, k)) /\ kept \subseteq IndexedIn(CutBases(gs, k))
    BY <2>1 DEF GoodAfter
  <2> HIDE DEF n
  <2> QED
    BY <1>0, <1>1, <1>3, <2>2, <2>3 DEF GoodFiles
<1>8. Extends(gs, files, f)
  BY <1>0, <1>1, <1>4, <1>5, <1>6 DEF Extends
<1> QED
  BY <1>7, <1>8 DEF gs

\* The whole active pack is one place to cut it at: what is there now is grounded.
LEMMA NowIsGood ==
    ASSUME NEW files, NEW kept, GoodFiles(files, kept)
    PROVE  /\ Records(files) \in Seq(Rec)
           /\ Grounded(Bases(Records(files))) /\ kept \subseteq Indexed(Records(files))
           /\ Indexed(Records(files)) \subseteq Chunk
<1> DEFINE n == Len(files)
           f == files[n]
<1>0. /\ n \in Nat /\ n > 0 /\ n \in 1 .. n /\ OkFiles(files) /\ OkFile(f)
  BY LenProperties DEF GoodFiles, OkFiles
<1>1. f.recs \in Seq(Rec) /\ Len(f.recs) \in f.synced .. Len(f.recs)
  BY <1>0, LenProperties DEF OkFile
<1>2. SubSeq(f.recs, 1, Len(f.recs)) = f.recs
  <2> DEFINE R == f.recs
  <2>1. R \in Seq(Rec)
    BY <1>1
  <2> HIDE DEF R
  <2>2. SubSeq(R, 1, Len(R)) = R
    BY <2>1, SubSeqFull
  <2> QED
    BY <2>2 DEF R
<1>3. Records(files) = Before(files, n - 1) \o f.recs /\ Records(files) \in Seq(Rec)
  BY <1>0, RecordsIs
<1>4. CutBases(files, Len(f.recs)) = Bases(Records(files))
  BY <1>2, <1>3 DEF CutBases
<1>5. Grounded(CutBases(files, Len(f.recs))) /\ kept \subseteq IndexedIn(CutBases(files, Len(f.recs)))
  BY <1>1 DEF GoodFiles
<1>6. IndexedIn(Bases(Records(files))) = Indexed(Records(files)) /\ Indexed(Records(files)) \subseteq Chunk
  BY <1>3, BasesAreMap
<1> QED
  BY <1>3, <1>4, <1>5, <1>6

-----------------------------------------------------------------------------
(* What the steps of a writer do to the files.                             *)

\* What is known of the active pack.
LEMMA ActiveIs ==
    ASSUME NEW files, NEW kept, GoodFiles(files, kept), NEW n, n = Len(files)
    PROVE  /\ n \in Nat /\ n > 0 /\ n \in 1 .. n /\ n - 1 \in 0 .. n /\ n \in 0 .. n
           /\ OkFiles(files) /\ files \in Seq(File) /\ DOMAIN files = 1 .. n
           /\ files[n] \in File /\ OkFile(files[n]) /\ files[n].idx # -1 /\ n \in Seqs(files)
           /\ files[n].recs \in Seq(Rec) /\ Len(files[n].recs) \in Nat /\ files[n].synced \in Nat
           /\ files[n].synced <= Len(files[n].recs)
           /\ Before(files, n - 1) \in Seq(Rec)
           /\ Records(files) = Before(files, n - 1) \o files[n].recs
<1>1. /\ n \in Nat /\ n > 0 /\ n \in 1 .. n /\ n - 1 \in 0 .. n /\ n \in 0 .. n
      /\ OkFiles(files) /\ files \in Seq(File) /\ DOMAIN files = 1 .. n
  BY LenProperties DEF GoodFiles, OkFiles
<1>2. files[n] \in File /\ OkFile(files[n]) /\ files[n].idx # -1
  BY <1>1, ElementOfSeq DEF GoodFiles, OkFiles
<1>3. n \in Seqs(files)
  BY <1>1, <1>2 DEF Seqs, Gone
<1>4. /\ files[n].recs \in Seq(Rec) /\ Len(files[n].recs) \in Nat /\ files[n].synced \in Nat
      /\ files[n].synced <= Len(files[n].recs)
  BY <1>2, LenProperties DEF OkFile
<1>5. Before(files, n - 1) \in Seq(Rec)
  BY <1>1, BeforeIs
<1>6. Records(files) = Before(files, n - 1) \o files[n].recs
  BY <1>1, RecordsIs
<1> QED
  BY <1>1, <1>2, <1>3, <1>4, <1>5, <1>6

\* A record is appended (append_record).
LEMMA RecordAppended ==
    ASSUME NEW files, NEW kept, GoodFiles(files, kept), NEW r \in Rec, NEW f,
           f = [files[Len(files)] EXCEPT !.recs = Append(@, r)],
           Grounded(Bases(Append(Records(files), r)))
    PROVE  /\ GoodAfter(Before(files, Len(files) - 1), f, kept)
           /\ Before(files, Len(files) - 1) \o f.recs = Append(Records(files), r)
<1> DEFINE n == Len(files)
           R == files[n].recs
           prior == Before(files, n - 1)
<1>0. /\ files[n] \in File /\ OkFile(files[n]) /\ files[n].idx # -1
      /\ R \in Seq(Rec) /\ Len(R) \in Nat /\ files[n].synced \in Nat
      /\ files[n].synced <= Len(R) /\ prior \in Seq(Rec)
      /\ Records(files) = prior \o R
  BY ActiveIs
<1>1. f \in File /\ f.recs = Append(R, r) /\ f.synced = files[n].synced /\ f.idx = files[n].idx
  BY <1>0, AppendProperties DEF File
<1>2. Append(R, r) \in Seq(Rec) /\ Len(Append(R, r)) = Len(R) + 1
  BY <1>0, AppendProperties
<1>3. OkFile(f)
  BY <1>0, <1>1, <1>2 DEF OkFile
<1>4. prior \o Append(R, r) = Append(prior \o R, r)
  <2> DEFINE one == <<r>>
  <2>1. one \in Seq(Rec)
    OBVIOUS
  <2>2. prior \o R \in Seq(Rec)
    BY <1>0, ConcatProperties
  <2>3. Append(R, r) = R \o one /\ Append(prior \o R, r) = (prior \o R) \o one
    BY <1>0, <2>2, AppendIsConcat
  <2>4. prior \in Seq(Rec) /\ R \in Seq(Rec)
    BY <1>0
  <2> HIDE DEF one, R, prior
  <2>5. (prior \o R) \o one = prior \o (R \o one)
    BY <2>1, <2>4, ConcatAssociative, SMTT(30)
  <2> QED
    BY <2>3, <2>5
<1>5. GoodFiles(files, kept) /\ Records(files) \in Seq(Rec) /\ kept \subseteq Indexed(Records(files))
  BY NowIsGood
<1>6. /\ Append(Records(files), r) \in Seq(Rec)
      /\ Indexed(Append(Records(files), r)) = Indexed(Records(files)) \cup {r.id}
  BY <1>5, BasesOfAppend
<1>7. IndexedIn(Bases(Append(Records(files), r))) = Indexed(Append(Records(files), r))
  BY <1>6, BasesAreMap
<1>8. ASSUME NEW k \in f.synced .. Len(f.recs)
      PROVE  /\ Grounded(Bases(prior \o SubSeq(f.recs, 1, k)))
             /\ kept \subseteq IndexedIn(Bases(prior \o SubSeq(f.recs, 1, k)))
  <2>1. CASE k = Len(R) + 1
    <3>1. SubSeq(Append(R, r), 1, k) = Append(R, r)
      BY <1>2, <2>1, SubSeqFull
    <3> QED
      BY <1>0, <1>1, <1>4, <1>5, <1>6, <1>7, <3>1
  <2>2. CASE k # Len(R) + 1
    <3>1. k \in files[n].synced .. Len(R) /\ k \in Nat
      BY <1>0, <1>1, <1>2, <2>2
    <3>2. SubSeq(Append(R, r), 1, k) = SubSeq(R, 1, k)
      <4>1. CASE k = 0
        BY <4>1, SubSeqEmpty
      <4>2. CASE k > 0
        <5> DEFINE one == <<r>>
        <5>1. one \in Seq(Rec)
          OBVIOUS
        <5>2. 1 \in 1 .. Len(R) /\ k \in 1 .. Len(R) /\ R \in Seq(Rec)
          BY <1>0, <3>1, <4>2
        <5>3. Append(R, r) = R \o one
          BY <5>2, AppendIsConcat
        <5> HIDE DEF one, R
        <5> QED
          BY <5>1, <5>2, <5>3, SubSeqOfConcat1
      <4> QED
        BY <3>1, <4>1, <4>2
    <3>3. Grounded(CutBases(files, k)) /\ kept \subseteq IndexedIn(CutBases(files, k))
      BY <3>1 DEF GoodFiles
    <3> QED
      BY <1>1, <3>2, <3>3 DEF CutBases
  <2> QED
    BY <2>1, <2>2
<1> QED
  BY <1>0, <1>1, <1>3, <1>4, <1>8 DEF GoodAfter

\* The active pack is fsynced, perhaps with its altidx (sync_data, seal_and_roll): what
\* it holds can be answered for.
LEMMA PackSynced ==
    ASSUME NEW files, NEW kept, GoodFiles(files, kept), NEW f \in File, NEW more,
           f.recs = files[Len(files)].recs, f.synced = Len(f.recs),
           f.idx = files[Len(files)].idx \/ f.idx = Len(f.recs),
           more \subseteq Indexed(Records(files))
    PROVE  /\ GoodAfter(Before(files, Len(files) - 1), f, more)
           /\ Before(files, Len(files) - 1) \o f.recs = Records(files)
<1> DEFINE n == Len(files)
           R == files[n].recs
           prior == Before(files, n - 1)
<1>0. /\ files[n] \in File /\ OkFile(files[n]) /\ files[n].idx # -1
      /\ R \in Seq(Rec) /\ Len(R) \in Nat /\ files[n].synced \in Nat
      /\ files[n].synced <= Len(R) /\ prior \in Seq(Rec)
      /\ Records(files) = prior \o R
  BY ActiveIs
<1>1. OkFile(f) /\ f.idx # -1
  BY <1>0 DEF OkFile
<1>2. SubSeq(R, 1, Len(R)) = R
  BY <1>0, SubSeqFull
<1>3. /\ Grounded(Bases(Records(files))) /\ Records(files) \in Seq(Rec)
      /\ IndexedIn(Bases(Records(files))) = Indexed(Records(files))
  BY NowIsGood, BasesAreMap
<1>4. \A k \in f.synced .. Len(f.recs) : k = Len(R)
  BY <1>0
<1>5. \A k \in f.synced .. Len(f.recs) : prior \o SubSeq(f.recs, 1, k) = Records(files)
  BY <1>0, <1>2, <1>4
<1> QED
  BY <1>0, <1>1, <1>3, <1>5 DEF GoodAfter

\* The records of all packs where all is told of the active one too.
LEMMA AllTold ==
    ASSUME NEW files, NEW kept, GoodFiles(files, kept)
    PROVE  /\ Before(files, Len(files)) \in Seq(Rec)
           /\ Indexed(Before(files, Len(files))) \subseteq Indexed(Records(files))
           /\ files[Len(files)].idx = Len(files[Len(files)].recs)
              => Before(files, Len(files)) = Records(files)
<1> DEFINE n == Len(files)
           f == files[n]
           prior == Before(files, n - 1)
<1>0. /\ n \in Nat /\ n > 0 /\ n \in 0 .. n /\ OkFiles(files)
      /\ OkFile(f) /\ f.recs \in Seq(Rec) /\ prior \in Seq(Rec)
      /\ Records(files) = prior \o f.recs
  BY ActiveIs
<1>1. Before(files, n) \in Seq(Rec) /\ Before(files, n) = prior \o Kept(f)
  BY <1>0, BeforeIs
<1>2. /\ Kept(f) \in Seq(Rec) /\ Indexed(Kept(f)) \subseteq Indexed(f.recs)
      /\ f.idx = Len(f.recs) => Kept(f) = f.recs
  BY <1>0, KeptIs
<1>3. Indexed(prior \o Kept(f)) = Indexed(prior) \cup Indexed(Kept(f))
  BY <1>0, <1>2, BasesOfJoin
<1>4. Indexed(prior \o f.recs) = Indexed(prior) \cup Indexed(f.recs)
  BY <1>0, BasesOfJoin
<1> QED
  BY <1>0, <1>1, <1>2, <1>3, <1>4

\* A new pack comes after a sealed one.
LEMMA PackRolled ==
    ASSUME NEW files, NEW kept, GoodFiles(files, kept),
           files[Len(files)].idx = Len(files[Len(files)].recs)
    PROVE  /\ GoodAfter(Before(files, Len(files)), NewPack, kept)
           /\ Before(files, Len(files)) \o NewPack.recs = Records(files)
<1> DEFINE prior == Before(files, Len(files))
<1>1. prior \in Seq(Rec) /\ prior = Records(files)
  BY AllTold
<1>2. prior \o <<>> = prior
  BY <1>1, ConcatEmptySeq
<1>3. /\ NewPack \in File /\ OkFile(NewPack) /\ NewPack.idx # -1
      /\ NewPack.recs = <<>> /\ NewPack.synced = 0 /\ Len(NewPack.recs) = 0
  BY ChunkStoreAssumption DEF NewPack, File, OkFile
<1>4. \A k \in 0 .. 0 : SubSeq(<<>>, 1, k) = <<>>
  BY SubSeqEmpty
<1>5. /\ Grounded(Bases(Records(files))) /\ kept \subseteq IndexedIn(Bases(Records(files)))
  BY NowIsGood, BasesAreMap
<1>6. \A k \in NewPack.synced .. Len(NewPack.recs) : prior \o SubSeq(NewPack.recs, 1, k) = Records(files)
  BY <1>1, <1>2, <1>3, <1>4
<1> QED
  BY <1>1, <1>2, <1>3, <1>5, <1>6 DEF GoodAfter

\* The pack of a compaction hides all there is (compact).
LEMMA PackCompacted ==
    ASSUME NEW files, NEW kept, GoodFiles(files, kept), NEW live \in Seq(Rec),
           Bases(live) = Bases(Records(files)), NEW f,
           f = [recs |-> live, synced |-> Len(live), idx |-> Len(live)]
    PROVE  /\ GoodAfter(Before(files, Len(files)), f, kept)
           /\ Bases(Before(files, Len(files)) \o f.recs) = Bases(live)
           /\ Indexed(Before(files, Len(files))) \subseteq Indexed(live)
<1> DEFINE prior == Before(files, Len(files))
<1>1. prior \in Seq(Rec) /\ Indexed(prior) \subseteq Indexed(Records(files))
  BY AllTold
<1>2. /\ Records(files) \in Seq(Rec) /\ Grounded(Bases(Records(files)))
      /\ kept \subseteq Indexed(Records(files))
  BY NowIsGood
<1>3. Indexed(live) = Indexed(Records(files)) /\ IndexedIn(Bases(live)) = Indexed(live)
  BY <1>2, BasesAreMap
<1>4. Bases(prior \o live) = Bases(live)
  BY <1>1, <1>3, JoinHides
<1>5. Len(live) \in Nat /\ SubSeq(live, 1, Len(live)) = live
  BY LenProperties, SubSeqFull
<1>6. f \in File /\ OkFile(f) /\ f.idx # -1
  BY <1>5 DEF File, OkFile
<1>7. \A k \in f.synced .. Len(f.recs) : prior \o SubSeq(f.recs, 1, k) = prior \o live
  BY <1>5
<1> QED
  BY <1>1, <1>2, <1>3, <1>4, <1>6, <1>7 DEF GoodAfter

\* The active pack is cut behind what is on the device (rewind, a power failure).
LEMMA PackCut ==
    ASSUME NEW files, NEW kept, GoodFiles(files, kept),
           NEW n \in files[Len(files)].synced .. Len(files[Len(files)].recs), NEW f \in File,
           f.recs = SubSeq(files[Len(files)].recs, 1, n), f.idx = files[Len(files)].idx,
           f.synced = files[Len(files)].synced \/ f.synced = n
    PROVE  GoodAfter(Before(files, Len(files) - 1), f, kept) /\ Len(f.recs) = n
<1> DEFINE m == Len(files)
           R == files[m].recs
           prior == Before(files, m - 1)
<1>0. /\ files[m] \in File /\ OkFile(files[m]) /\ files[m].idx # -1
      /\ R \in Seq(Rec) /\ Len(R) \in Nat /\ files[m].synced \in Nat
      /\ files[m].synced <= Len(R) /\ prior \in Seq(Rec)
  BY ActiveIs
<1>1. n \in Nat /\ n <= Len(R) /\ files[m].synced <= n
  BY <1>0
<1>2. SubSeq(R, 1, n) \in Seq(Rec) /\ Len(SubSeq(R, 1, n)) = n
      /\ \A i \in 1 .. n : SubSeq(R, 1, n)[i] = R[i]
  <2> HIDE DEF R
  <2>1. \A i \in 1 .. n : R[i] \in Rec
    BY <1>0, <1>1, ElementOfSeq
  <2>2. /\ SubSeq(R, 1, n) \in Seq(Rec)
        /\ Len(SubSeq(R, 1, n)) = IF 1 <= n THEN n - 1 + 1 ELSE 0
        /\ \A i \in 1 .. n - 1 + 1 : SubSeq(R, 1, n)[i] = R[1 + i - 1]
    BY <1>1, <2>1, SubSeqProperties
  <2>3. \A i \in 1 .. n : i \in 1 .. n - 1 + 1 /\ 1 + i - 1 = i
    BY <1>1
  <2>4. \A i \in 1 .. n : SubSeq(R, 1, n)[i] = R[i]
    BY <2>2, <2>3
  <2> QED
    BY <1>1, <2>2, <2>4
<1>3. OkFile(f) /\ f.idx # -1
  BY <1>0, <1>1, <1>2 DEF OkFile
<1>4. ASSUME NEW k \in f.synced .. Len(f.recs) PROVE SubSeq(f.recs, 1, k) = SubSeq(R, 1, k)
  <2>1. k \in Nat /\ k <= n
    BY <1>0, <1>1, <1>2
  <2>2. CASE k = 0
    BY <2>2, SubSeqEmpty
  <2>3. CASE k > 0
    <3>1. 1 \in 1 .. Len(R) /\ n \in 1 .. Len(R) /\ 1 \in 1 .. n - 1 + 1 /\ k \in 1 .. n - 1 + 1
      BY <1>0, <1>1, <2>1, <2>3
    <3>2. SubSeq(SubSeq(R, 1, n), 1, k) = SubSeq(R, 1 + 1 - 1, 1 + k - 1)
      <4> HIDE DEF R
      <4> QED
        BY <1>0, <3>1, SubSeqOfSubSeq
    <3>3. 1 + 1 - 1 = 1 /\ 1 + k - 1 = k
      BY <2>1
    <3> QED
      BY <3>2, <3>3
  <2> QED
    BY <2>1, <2>2, <2>3
<1>5. ASSUME NEW k \in f.synced .. Len(f.recs)
      PROVE  /\ Grounded(Bases(prior \o SubSeq(f.recs, 1, k)))
             /\ kept \subseteq IndexedIn(Bases(prior \o SubSeq(f.recs, 1, k)))
  <2>1. k \in files[m].synced .. Len(R)
    BY <1>0, <1>1, <1>2
  <2>2. Grounded(CutBases(files, k)) /\ kept \subseteq IndexedIn(CutBases(files, k))
    BY <2>1 DEF GoodFiles
  <2> QED
    BY <1>4, <2>2 DEF CutBases
<1> QED
  BY <1>2, <1>3, <1>5 DEF GoodAfter

\* An old pack is removed when the pack of the compaction hides it.
Removed(gs, files, s) == gs = [files EXCEPT ![s] = Gone]
LEMMA PackRemoved ==
    ASSUME NEW files, NEW kept, GoodFiles(files, kept), Len(files) >= 2, NEW live \in Seq(Rec),
           files[Len(files) - 1] = [recs |-> live, synced |-> Len(live), idx |-> Len(live)],
           files[Len(files)] = NewPack,
           Indexed(Before(files, Len(files) - 2)) \subseteq Indexed(live),
           NEW s \in 1 .. Len(files) - 2, NEW gs, Removed(gs, files, s)
    PROVE  /\ GoodFiles(gs, kept) /\ Len(gs) = Len(files)
           /\ gs[Len(files)] = files[Len(files)] /\ gs[Len(files) - 1] = files[Len(files) - 1]
           /\ Indexed(Before(gs, Len(files) - 2)) \subseteq Indexed(live)
           /\ Bases(Records(files)) = Bases(live) /\ Bases(Records(gs)) = Bases(live)
<1> DEFINE n == Len(files)
<1>0. /\ n \in Nat /\ n - 2 \in Nat /\ n \in 1 .. n /\ n - 1 \in 1 .. n /\ s \in 1 .. n
      /\ n - 2 \in 0 .. n /\ n - 1 \in 0 .. n /\ n - 1 > 0 /\ (n - 1) - 1 = n - 2
      /\ n # s /\ n - 1 # s /\ files \in Seq(File) /\ OkFiles(files)
  <2>1. n \in Nat /\ files \in Seq(File) /\ OkFiles(files)
    BY ActiveIs
  <2>2. n >= 2 /\ s \in 1 .. n - 2
    OBVIOUS
  <2> HIDE DEF n
  <2> QED
    BY <2>1, <2>2
<1>1. Gone \in File /\ OkFile(Gone) /\ Gone.recs = <<>> /\ Gone.synced = 0 /\ Gone.idx = -1
  BY DEF Gone, File, OkFile
<1>2. gs \in Seq(File) /\ Len(gs) = n /\ \A j \in 1 .. n : gs[j] = IF j = s THEN Gone ELSE files[j]
  BY <1>0, <1>1, ExceptSeq DEF Removed
<1> HIDE DEF n
<1>3. OkFiles(gs)
  BY <1>0, <1>1, <1>2 DEF OkFiles, n
<1>4. Kept(Gone) = <<>> /\ Indexed(Kept(Gone)) = {}
  <2>1. SubSeq(<<>>, 1, -1) = <<>>
    BY SubSeqEmpty
  <2>2. Kept(Gone) = <<>>
    BY <1>1, <2>1 DEF Kept
  <2> QED
    BY <2>2 DEF Indexed
<1>5. Indexed(Before(gs, n - 2)) \subseteq Indexed(Before(files, n - 2))
  <2>1. \A j \in 1 .. n - 2 : j \in 1 .. n
    BY <1>0
  <2>2. \A j \in 1 .. n - 2 : Indexed(Kept(gs[j])) \subseteq Indexed(Kept(files[j]))
    <3> TAKE j \in 1 .. n - 2
    <3>1. j \in 1 .. n
      BY <2>1
    <3>2. gs[j] = IF j = s THEN Gone ELSE files[j]
      BY <1>2, <3>1
    <3> QED
      BY <1>4, <3>2
  <2>3. n - 2 <= Len(files) /\ n - 2 <= Len(gs)
    <3>1. n \in Nat /\ n - 2 <= n /\ Len(gs) = n
      BY <1>0, <1>2
    <3> QED
      BY <3>1 DEF n
  <2> QED
    BY <1>0, <1>3, <2>2, <2>3, BeforeLess
<1>6. Indexed(Before(gs, n - 2)) \subseteq Indexed(live)
  BY <1>5 DEF n
<1>7. ASSUME NEW hs, OkFiles(hs), Len(hs) = n, hs[n - 1] = files[n - 1], hs[n] = files[n],
             Indexed(Before(hs, n - 2)) \subseteq Indexed(live)
      PROVE  /\ Bases(Records(hs)) = Bases(live)
             /\ \A k \in hs[n].synced .. Len(hs[n].recs) : CutBases(hs, k) = Bases(live)
  <2>0. hs[n - 1] = [recs |-> live, synced |-> Len(live), idx |-> Len(live)] /\ hs[n] = NewPack
    BY <1>7 DEF n
  <2>1. Before(hs, n - 1) = Before(hs, (n - 1) - 1) \o Kept(hs[n - 1]) /\ Before(hs, n - 1) \in Seq(Rec)
    BY <1>0, <1>7, BeforeIs
  <2>2. OkFile(hs[n - 1])
    BY <1>0, <1>7 DEF OkFiles
  <2>3. Kept(hs[n - 1]) = live
    <3> DEFINE f == hs[n - 1]
    <3>1. OkFile(f) /\ f.recs = live /\ f.idx = Len(live)
      BY <2>0, <2>2
    <3> HIDE DEF f
    <3>2. Kept(f) = f.recs
      BY <3>1, KeptIs
    <3> QED
      BY <3>1, <3>2 DEF f
  <2>4. Before(hs, n - 2) \in Seq(Rec)
    BY <1>0, <1>7, BeforeIs
  <2>5. Bases(Before(hs, n - 1)) = Bases(live)
    <3> DEFINE X == Before(hs, n - 2)
    <3>1. Before(hs, n - 1) = X \o live
      BY <1>0, <2>1, <2>3
    <3>2. X \in Seq(Rec) /\ Indexed(X) \subseteq Indexed(live)
      BY <1>7, <2>4
    <3> HIDE DEF X
    <3> QED
      BY <3>1, <3>2, JoinHides
  <2>6. NewPack.recs = <<>> /\ NewPack.synced = 0 /\ Len(NewPack.recs) = 0
    BY DEF NewPack
  <2>7. Before(hs, n - 1) \o <<>> = Before(hs, n - 1)
    BY <2>1, ConcatEmptySeq
  <2>8. Bases(Records(hs)) = Bases(live)
    BY <1>7, <2>0, <2>5, <2>6, <2>7, RecordsIs
  <2>9. SubSeq(<<>>, 1, 0) = <<>>
    BY SubSeqEmpty
  <2>10. ASSUME NEW k \in hs[n].synced .. Len(hs[n].recs) PROVE CutBases(hs, k) = Bases(live)
    <3>1. k = 0
      BY <2>0, <2>6
    <3>2. CutBases(hs, k) = Bases(Before(hs, n - 1) \o SubSeq(<<>>, 1, 0))
      BY <1>7, <2>0, <2>6, <3>1 DEF CutBases
    <3> QED
      BY <2>5, <2>7, <2>9, <3>2
  <2> QED
    BY <2>8, <2>10
<1>8. gs[n - 1] = files[n - 1] /\ gs[n] = files[n]
  BY <1>0, <1>2
<1>9. /\ Bases(Records(files)) = Bases(live)
      /\ \A k \in files[n].synced .. Len(files[n].recs) : CutBases(files, k) = Bases(live)
  <2>1. Indexed(Before(files, n - 2)) \subseteq Indexed(live) /\ Len(files) = n
    BY DEF n
  <2> QED
    BY <1>0, <1>7, <2>1
<1>10. /\ Bases(Records(gs)) = Bases(live)
       /\ \A k \in gs[n].synced .. Len(gs[n].recs) : CutBases(gs, k) = Bases(live)
  BY <1>2, <1>3, <1>6, <1>7, <1>8
<1>11. GoodFiles(gs, kept)
  <2>1. \A j \in 1 .. n - 1 : j \in 1 .. n
    BY <1>0
  <2>2. \A j \in 1 .. n - 1 : files[j].synced = Len(files[j].recs)
    BY DEF GoodFiles, n
  <2>3. \A j \in 1 .. n - 1 : gs[j].synced = Len(gs[j].recs)
    <3>1. Len(Gone.recs) = Gone.synced
      BY <1>1
    <3> QED
      BY <1>2, <2>1, <2>2, <3>1
  <2>4. files[n].idx # -1
    BY DEF GoodFiles, n
  <2>5. \A k \in files[n].synced .. Len(files[n].recs) : Grounded(CutBases(files, k)) /\ kept \subseteq IndexedIn(CutBases(files, k))
    BY DEF GoodFiles, n
  <2>6. \A k \in gs[n].synced .. Len(gs[n].recs) : Grounded(CutBases(gs, k)) /\ kept \subseteq IndexedIn(CutBases(gs, k))
    BY <1>8, <1>9, <1>10, <2>5
  <2> QED
    BY <1>2, <1>3, <1>8, <2>3, <2>4, <2>6 DEF GoodFiles
<1> QED
  BY <1>2, <1>6, <1>8, <1>9, <1>10, <1>11 DEF n

\* ... or before it, where what is left is known to be grounded (rewind, of chunks that
\* were flushed).
LEMMA PackCutBack ==
    ASSUME NEW files, NEW kept, GoodFiles(files, kept), NEW n \in 0 .. Len(files[Len(files)].recs),
           Grounded(CutBases(files, n)), NEW more, more \subseteq IndexedIn(CutBases(files, n)),
           files[Len(files)].idx = None \/ files[Len(files)].idx <= n, NEW f \in File,
           f.recs = SubSeq(files[Len(files)].recs, 1, n), f.idx = files[Len(files)].idx, f.synced = n
    PROVE  GoodAfter(Before(files, Len(files) - 1), f, more)
<1> DEFINE R == files[Len(files)].recs
           i == files[Len(files)].idx
<1>0. /\ OkFile(files[Len(files)]) /\ i # -1 /\ R \in Seq(Rec) /\ Len(R) \in Nat
  BY ActiveIs
<1>1. /\ SubSeq(R, 1, n) \in Seq(Rec) /\ Len(SubSeq(R, 1, n)) = n
  <2>0. n \in 0 .. Len(R)
    OBVIOUS
  <2> HIDE DEF R
  <2>1. n \in Nat /\ n <= Len(R) /\ \A j \in 1 .. n : R[j] \in Rec
    BY <1>0, <2>0, ElementOfSeq
  <2> QED
    BY <1>0, <2>1, SubSeqProperties
<1>2. i = None \/ i \in -1 .. n
  BY <1>0 DEF OkFile
<1>3. SubSeq(f.recs, 1, n) = f.recs
  <2> DEFINE Q == SubSeq(R, 1, n)
  <2>1. Q \in Seq(Rec) /\ Len(Q) = n /\ f.recs = Q
    BY <1>1
  <2> HIDE DEF Q, R
  <2>2. SubSeq(Q, 1, Len(Q)) = Q
    BY <2>1, SubSeqFull
  <2> QED
    BY <2>1, <2>2
<1>4. OkFile(f) /\ f.idx # -1
  <2>1. n \in 0 .. n
    OBVIOUS
  <2> QED
    BY <1>0, <1>1, <1>2, <2>1 DEF OkFile
<1>5. \A k \in f.synced .. Len(f.recs) : k = n
  BY <1>1
<1>6. Bases(Before(files, Len(files) - 1) \o SubSeq(f.recs, 1, n)) = CutBases(files, n)
  BY <1>3 DEF CutBases
<1> QED
  BY <1>4, <1>5, <1>6 DEF GoodAfter

\* Less to answer for is no harder, nor are two things that can be answered for.
LEMMA GoodForLess ==
    ASSUME NEW files, NEW kept, GoodFiles(files, kept)
    PROVE  /\ \A less : less \subseteq kept => GoodFiles(files, less)
           /\ \A more : GoodFiles(files, more) => GoodFiles(files, kept \cup more)
BY DEF GoodFiles

\* Where the active pack is on the device, all there is can be answered for.
LEMMA AllSynced ==
    ASSUME NEW files, NEW kept, GoodFiles(files, kept),
           files[Len(files)].synced = Len(files[Len(files)].recs)
    PROVE  GoodFiles(files, Indexed(Records(files)))
<1> DEFINE n == Len(files)
           R == files[n].recs
<1>1. R \in Seq(Rec) /\ Len(R) \in Nat /\ Records(files) = Before(files, n - 1) \o R
  BY ActiveIs
<1>2. SubSeq(R, 1, Len(R)) = R
  <2> HIDE DEF R
  <2> QED
    BY <1>1, SubSeqFull
<1>3. CutBases(files, Len(R)) = Bases(Records(files))
  BY <1>1, <1>2 DEF CutBases
<1>4. IndexedIn(CutBases(files, Len(R))) = Indexed(Records(files))
  BY <1>3, NowIsGood, BasesAreMap
<1>5. \A k \in files[n].synced .. Len(R) : k = Len(R)
  BY <1>1
<1> QED
  BY <1>4, <1>5 DEF GoodFiles

\* The files after a step that lets go of nothing they could answer for.
Keeps(gs, files) ==
    /\ \A k : GoodFiles(files, k) => GoodFiles(gs, k)
    /\ Indexed(Records(files)) \subseteq Indexed(Records(gs))

\* An fsync is one.
LEMMA SyncKeeps ==
    ASSUME NEW files, NEW kept, GoodFiles(files, kept), NEW f \in File,
           f.recs = files[Len(files)].recs, f.synced = Len(f.recs),
           f.idx = files[Len(files)].idx \/ f.idx = Len(f.recs),
           NEW gs, gs = [files EXCEPT ![Len(files)] = f]
    PROVE  Keeps(gs, files)
<1>1. ASSUME NEW k, GoodFiles(files, k) PROVE GoodFiles(gs, k) /\ Becomes(gs, files, f)
  <2>1. k \subseteq Indexed(Records(files))
    BY <1>1, NowIsGood
  <2>2. GoodAfter(Before(files, Len(files) - 1), f, k)
    BY <1>1, <2>1, PackSynced
  <2> QED
    BY <1>1, <2>2, LastChanged
<1>2. Records(gs) = Records(files)
  BY <1>1, ActiveIs DEF Becomes
<1> QED
  BY <1>1, <1>2 DEF Keeps

-----------------------------------------------------------------------------
(* The inductive invariant.                                                *)

View == [seqs : SUBSET Nat, len : Nat, live : Seq(Rec)]

\* What a process has in memory is grounded, and there; where a pack came since, it is on
\* the device; where none did and the active one is as long as it was, it is what the
\* files tell: disk_changed() may trust the numbers and the length.
OkView(files, v) ==
    /\ v \in View /\ v.seqs \subseteq 1 .. Len(files)
    /\ Grounded(Bases(v.live)) /\ Indexed(v.live) \subseteq Indexed(Records(files))
    /\ Len(files) \notin v.seqs => GoodFiles(files, Indexed(v.live))
    /\ Len(files) \in v.seqs =>
         /\ v.seqs = Seqs(files) /\ v.len <= Len(files[Len(files)].recs)
         /\ v.len = Len(files[Len(files)].recs) => Bases(v.live) = Bases(Records(files))

CompactedOf(live) == [recs |-> live, synced |-> Len(live), idx |-> Len(live)]

\* A writer has what the files tell, wherever it is in a roll or a compaction.
OkWriter(files, v, where) ==
    /\ OkView(files, v) /\ Bases(v.live) = Bases(Records(files))
    /\ where \in {"ready", "seal", "roll"} =>
         Len(files) \in v.seqs /\ v.len = Len(files[Len(files)].recs)
    /\ where = "roll" => /\ files[Len(files)].synced = Len(files[Len(files)].recs)
                         /\ files[Len(files)].idx = Len(files[Len(files)].recs)
    /\ where \in {"compacted", "remove"} => Len(files) \notin v.seqs
    /\ where = "compacted" => files[Len(files)] = CompactedOf(v.live)
    /\ where = "remove" =>
         /\ Len(files) >= 2 /\ Len(files) - 1 \notin v.seqs
         /\ files[Len(files) - 1] = CompactedOf(v.live) /\ files[Len(files)] = NewPack
         /\ Indexed(Before(files, Len(files) - 2)) \subseteq Indexed(v.live)

TypeInv ==
    /\ lock \in Proc \cup {None}
    /\ view \in [Proc -> View \cup {None}]
    /\ step \in [Proc -> {"ready", "seal", "roll", "compacted", "remove"}]

ViewInv == \A p \in Proc : view[p] # None => OkView(packs, view[p])

LockInv ==
    \A p \in Proc :
        /\ step[p] # "ready" => lock = p
        /\ lock = p => OkWriter(packs, view[p], step[p])
        /\ step[p] \in {"compacted", "remove"} =>
             \A q \in Proc : view[q] # None => Len(packs) \notin view[q].seqs

CoreInv == TypeInv /\ GoodFiles(packs, acked) /\ ViewInv /\ LockInv

\* load() has what the files tell.
LEMMA LoadedIs ==
    ASSUME NEW files, NEW kept, GoodFiles(files, kept)
    PROVE  /\ OkView(files, Loaded(files)) /\ OkWriter(files, Loaded(files), "ready")
           /\ Loaded(files) \in View
<1> DEFINE n == Len(files)
           v == Loaded(files)
<1>0. /\ n \in Nat /\ DOMAIN files = 1 .. n /\ n \in Seqs(files) /\ Len(files[n].recs) \in Nat
  BY ActiveIs
<1>1. Records(files) \in Seq(Rec) /\ Grounded(Bases(Records(files)))
  BY NowIsGood
<1>2. Live(Records(files)) \in Seq(Rec) /\ Bases(Live(Records(files))) = Bases(Records(files))
  BY <1>1, LiveIs
<1>r. Indexed(Live(Records(files))) = Indexed(Records(files))
  BY <1>1, <1>2, BasesAreMap
<1>3. v.seqs = Seqs(files) /\ v.len = Len(files[n].recs) /\ v.live = Live(Records(files))
  BY DEF Loaded
<1>4. Seqs(files) \subseteq 1 .. n
  BY <1>0 DEF Seqs
<1>5. v \in View
  BY <1>0, <1>2, <1>4 DEF View, Loaded
<1> HIDE DEF v
<1>6. OkView(files, v)
  BY <1>0, <1>1, <1>2, <1>r, <1>3, <1>4, <1>5 DEF OkView
<1>7. OkWriter(files, v, "ready")
  BY <1>0, <1>2, <1>3, <1>6 DEF OkWriter
<1> QED
  BY <1>5, <1>6, <1>7 DEF v

\* The active pack of a process whose view has the last pack is that one.
LEMMA ActiveIsLast ==
    ASSUME NEW p, NEW n \in Nat, n \in view[p].seqs, view[p].seqs \subseteq 1 .. n
    PROVE  Active(p) = n
<1>1. \A t \in view[p].seqs : t <= n
  OBVIOUS
<1>2. \A s \in view[p].seqs : (\A t \in view[p].seqs : t <= s) => s = n
  OBVIOUS
<1> QED
  BY <1>1, <1>2 DEF Active

\* A view stays one when a record is appended: the active pack is longer now.
LEMMA ViewOverAppend ==
    ASSUME NEW files, NEW kept, GoodFiles(files, kept), NEW v, OkView(files, v), NEW gs, NEW f,
           Becomes(gs, files, f), Keeps(gs, files), Len(f.recs) = Len(files[Len(files)].recs) + 1
    PROVE  OkView(gs, v)
<1>1. Len(files[Len(files)].recs) \in Nat /\ Len(gs) = Len(files) /\ gs[Len(gs)] = f /\ Seqs(gs) = Seqs(files)
  BY ActiveIs DEF Becomes
<1>2. v.len \in Nat /\ Indexed(v.live) \subseteq Indexed(Records(gs))
  BY DEF OkView, View, Keeps
<1>3. Len(gs) \notin v.seqs => GoodFiles(gs, Indexed(v.live))
  BY <1>1 DEF OkView, Keeps
<1> QED
  BY <1>1, <1>2, <1>3 DEF OkView

\* ... when it is fsynced ...
LEMMA ViewOverSync ==
    ASSUME NEW files, NEW kept, GoodFiles(files, kept), NEW v, OkView(files, v), NEW gs, NEW f,
           Becomes(gs, files, f), Keeps(gs, files), f.recs = files[Len(files)].recs
    PROVE  OkView(gs, v) /\ Records(gs) = Records(files)
<1>1. Records(gs) = Records(files)
  BY ActiveIs DEF Becomes
<1>2. Len(gs) \notin v.seqs => GoodFiles(gs, Indexed(v.live))
  BY DEF OkView, Keeps, Becomes
<1> QED
  BY <1>1, <1>2 DEF OkView, Becomes

\* ... when a pack is added behind what is on the device ...
LEMMA ViewOverRoll ==
    ASSUME NEW files, NEW kept, GoodFiles(files, kept), NEW v, OkView(files, v), NEW gs, NEW f,
           Extends(gs, files, f), GoodFiles(gs, Indexed(Records(files))),
           Indexed(Records(gs)) = Indexed(Records(files))
    PROVE  OkView(gs, v) /\ Len(gs) \notin v.seqs
<1>1. Len(files) \in Nat /\ Len(gs) = Len(files) + 1
  BY ActiveIs DEF Extends
<1>2. Indexed(v.live) \subseteq Indexed(Records(files))
  BY DEF OkView
<1>3. GoodFiles(gs, Indexed(v.live))
  BY <1>2, GoodForLess
<1> QED
  BY <1>1, <1>2, <1>3 DEF OkView

\* ... and when one is removed that a later one replaced.
LEMMA ViewOverRemoval ==
    ASSUME NEW files, NEW v, OkView(files, v), NEW gs, Len(gs) = Len(files), Len(files) \notin v.seqs,
           Keeps(gs, files)
    PROVE  OkView(gs, v)
<1>1. GoodFiles(gs, Indexed(v.live)) /\ Indexed(v.live) \subseteq Indexed(Records(gs))
  BY DEF OkView, Keeps
<1> QED
  BY <1>1 DEF OkView

-----------------------------------------------------------------------------
(* Every action keeps it, and does to what the files tell what a store of  *)
(* content may do.                                                         *)

\* What most steps do to what is held: nothing; a put adds a chunk.
HeldSame == acked' = acked /\ Indexed(Records(packs')) = Indexed(Records(packs))
HeldPut(c) ==
    /\ acked' = acked /\ c \notin Indexed(Records(packs))
    /\ Indexed(Records(packs')) = Indexed(Records(packs)) \cup {c}

\* What a step does to the places of the records in the active pack.
SameRecs(gs, files) ==
    /\ Len(gs) = Len(files) /\ gs[Len(gs)].recs = files[Len(files)].recs
    /\ Before(gs, Len(gs) - 1) = Before(files, Len(files) - 1)

Grew(gs, files, r) ==
    /\ Len(gs) = Len(files) /\ gs[Len(gs)].recs = Append(files[Len(files)].recs, r)
    /\ gs[Len(gs)].idx = files[Len(files)].idx
    /\ Before(gs, Len(gs) - 1) = Before(files, Len(files) - 1)

CutTo(gs, files, k) ==
    /\ Len(gs) = Len(files) /\ gs[Len(gs)].recs = SubSeq(files[Len(files)].recs, 1, k)
    /\ gs[Len(gs)].idx = files[Len(files)].idx
    /\ Before(gs, Len(gs) - 1) = Before(files, Len(files) - 1)

\* A store begins with one empty pack (ChunkStore::open).
LEMMA InitCore == Init => CoreInv
<1> SUFFICES ASSUME Init PROVE CoreInv
  OBVIOUS
<1>1. /\ packs = <<NewPack>> /\ Len(packs) = 1 /\ packs[1] = NewPack
      /\ NewPack \in File /\ NewPack.recs = <<>> /\ NewPack.synced = 0 /\ NewPack.idx = None
  BY DEF Init, NewPack, File
<1>2. OkFile(NewPack) /\ NewPack.idx # -1
  <2>1. None # -1
    BY ChunkStoreAssumption
  <2> QED
    BY <1>1, <2>1 DEF OkFile
<1> HIDE DEF NewPack
<1>3. OkFiles(packs)
  BY <1>1, <1>2 DEF OkFiles
<1>4. Before(packs, 0) = <<>>
  BY <1>3, <1>1, BeforeIs
<1>5. <<>> \in Seq(Rec) /\ SubSeq(<<>>, 1, 0) = <<>>
  OBVIOUS
<1>6. CutBases(packs, 0) = Bases(<<>>)
  <2>1. Len(packs) - 1 = 0
    BY <1>1
  <2>2. <<>> \o <<>> = <<>>
    OBVIOUS
  <2> QED
    BY <1>1, <1>4, <1>5, <2>1, <2>2 DEF CutBases
<1>7. Grounded(Bases(<<>>))
  <2>1. Indexed(<<>>) = {}
    BY DEF Indexed
  <2>2. \A c \in Chunk : Bases(<<>>)[c] = Missing
    <3> TAKE c \in Chunk
    <3>1. c # None /\ c \in Places
      BY ChunkStoreAssumption DEF Places
    <3> QED
      BY <1>5, <2>1, <3>1, BaseOfNone
  <2>3. Ranked(Bases(<<>>), [c \in Chunk |-> 0])
    BY <2>2, ChunkStoreAssumption DEF Ranked
  <2>4. [c \in Chunk |-> 0] \in [Chunk -> Nat]
    OBVIOUS
  <2> QED
    BY <2>3, <2>4 DEF Grounded
<1>8. GoodFiles(packs, acked)
  <2>1. acked = {}
    BY DEF Init
  <2>2. \A k \in packs[Len(packs)].synced .. Len(packs[Len(packs)].recs) : k = 0
    BY <1>1
  <2> QED
    BY <1>1, <1>2, <1>3, <1>6, <1>7, <2>1, <2>2 DEF GoodFiles
<1>9. TypeInv
  BY DEF Init, TypeInv
<1>10. ViewInv
  BY DEF Init, ViewInv
<1>11. LockInv
  <2>1. \A p \in Proc : lock # p /\ step[p] = "ready"
    BY ChunkStoreAssumption DEF Init
  <2> QED
    BY <2>1 DEF LockInv
<1> QED
  BY <1>8, <1>9, <1>10, <1>11 DEF CoreInv

\* Who holds the lock has what the files tell, and nobody else is in the middle of
\* anything.
LEMMA WriterIs ==
    ASSUME CoreInv, NEW p \in Proc, lock = p
    PROVE  /\ GoodFiles(packs, acked) /\ OkWriter(packs, view[p], step[p])
           /\ OkView(packs, view[p]) /\ view[p] \in View
           /\ Bases(view[p].live) = Bases(Records(packs))
           /\ Indexed(view[p].live) = Indexed(Records(packs))
           /\ \A q \in Proc \ {p} : step[q] = "ready" /\ lock # q
           /\ step[p] \in {"ready", "seal", "roll"} =>
                Active(p) = Len(packs) /\ Len(packs) \in view[p].seqs
                /\ view[p].len = Len(packs[Len(packs)].recs)
<1>1. GoodFiles(packs, acked) /\ OkWriter(packs, view[p], step[p])
  BY DEF CoreInv, LockInv
<1>2. OkView(packs, view[p]) /\ view[p] \in View /\ Bases(view[p].live) = Bases(Records(packs))
  BY <1>1 DEF OkWriter, OkView
<1>3. Indexed(view[p].live) = Indexed(Records(packs))
  <2>1. view[p].live \in Seq(Rec) /\ Records(packs) \in Seq(Rec)
    BY <1>1, <1>2, NowIsGood DEF View
  <2> QED
    BY <1>2, <2>1, BasesAreMap
<1>4. \A q \in Proc \ {p} : step[q] = "ready" /\ lock # q
  BY DEF CoreInv, LockInv
<1>5. ASSUME step[p] \in {"ready", "seal", "roll"}
      PROVE  /\ Active(p) = Len(packs) /\ Len(packs) \in view[p].seqs
             /\ view[p].len = Len(packs[Len(packs)].recs)
  <2>1. Len(packs) \in view[p].seqs /\ view[p].len = Len(packs[Len(packs)].recs)
    BY <1>1, <1>5 DEF OkWriter
  <2>2. view[p].seqs \subseteq 1 .. Len(packs) /\ Len(packs) \in Nat
    BY <1>1, <1>2, ActiveIs DEF OkView
  <2> QED
    BY <2>1, <2>2, ActiveIsLast
<1> QED
  BY <1>1, <1>2, <1>3, <1>4, <1>5

\* What has to be known of a step of the writer for the invariant to stay.
LEMMA WriterSteps ==
    ASSUME CoreInv, NEW p \in Proc, lock = p, lock' = p, TypeInv', GoodFiles(packs', acked'),
           \A q \in Proc \ {p} : view'[q] = view[q] /\ step'[q] = step[q],
           \A q \in Proc \ {p} : view[q] # None => OkView(packs', view[q]),
           OkWriter(packs', view'[p], step'[p]),
           step'[p] \in {"compacted", "remove"} =>
               \A q \in Proc : view'[q] # None => Len(packs') \notin view'[q].seqs
    PROVE  CoreInv'
<1>1. \A q \in Proc \ {p} : step'[q] = "ready" /\ lock' # q
  BY WriterIs
<1>2. ViewInv'
  <2> SUFFICES ASSUME NEW q \in Proc, view'[q] # None PROVE OkView(packs', view'[q])
    BY DEF ViewInv
  <2>1. CASE q = p
    BY <2>1 DEF OkWriter
  <2>2. CASE q # p
    <3>1. view'[q] = view[q]
      BY <2>2
    <3> QED
      BY <2>2, <3>1
  <2> QED
    BY <2>1, <2>2
<1>3. LockInv'
  <2> SUFFICES ASSUME NEW q \in Proc
               PROVE  /\ step'[q] # "ready" => lock' = q
                      /\ lock' = q => OkWriter(packs', view'[q], step'[q])
                      /\ step'[q] \in {"compacted", "remove"} =>
                           \A o \in Proc : view'[o] # None => Len(packs') \notin view'[o].seqs
    BY DEF LockInv
  <2>1. CASE q = p
    BY <2>1
  <2>2. CASE q # p
    BY <2>2, <1>1
  <2> QED
    BY <2>1, <2>2
<1> QED
  BY <1>2, <1>3 DEF CoreInv

\* A process reads what is there while nobody writes (NativeOdb::open_with).
LEMMA OpenStep == ASSUME CoreInv, NEW p \in Proc, Open(p) PROVE CoreInv' /\ HeldSame
<1>1. view' = [view EXCEPT ![p] = Loaded(packs)] /\ UNCHANGED <<packs, lock, step, ckpt, acked>>
      /\ lock = None
  BY DEF Open
<1>2. GoodFiles(packs, acked) /\ OkView(packs, Loaded(packs)) /\ Loaded(packs) \in View
  BY LoadedIs DEF CoreInv
<1>3. \A q \in Proc : lock # q /\ step[q] = "ready"
  BY <1>1, ChunkStoreAssumption DEF CoreInv, LockInv
<1>4. view \in [Proc -> View \cup {None}]
  BY DEF CoreInv, TypeInv
<1>5. TypeInv'
  BY <1>1, <1>2, <1>4 DEF CoreInv, TypeInv
<1>6. ViewInv'
  <2> SUFFICES ASSUME NEW q \in Proc, view'[q] # None PROVE OkView(packs', view'[q])
    BY DEF ViewInv
  <2>1. CASE q = p
    BY <1>1, <1>2, <1>4, <2>1
  <2>2. CASE q # p
    BY <1>1, <1>4, <2>2 DEF CoreInv, ViewInv
  <2> QED
    BY <2>1, <2>2
<1>7. LockInv'
  BY <1>1, <1>3 DEF LockInv
<1> QED
  BY <1>1, <1>2, <1>5, <1>6, <1>7 DEF CoreInv, HeldSame

\* What has not changed since a process read it is what it has (disk_changed).
LEMMA UnchangedIs ==
    ASSUME NEW p, NEW kept, GoodFiles(packs, kept), OkView(packs, view[p]), ~Changed(p)
    PROVE  /\ OkWriter(packs, view[p], "ready") /\ Active(p) = Len(packs)
           /\ view[p].len = Len(packs[Len(packs)].recs)
<1>1. Seqs(packs) = view[p].seqs /\ Len(packs[Active(p)].recs) = view[p].len
  BY DEF Changed
<1>2. Len(packs) \in Nat /\ Len(packs) \in Seqs(packs)
  BY ActiveIs
<1>3. view[p].seqs \subseteq 1 .. Len(packs)
  BY DEF OkView
<1>4. Active(p) = Len(packs)
  BY <1>1, <1>2, <1>3, ActiveIsLast
<1>5. Bases(view[p].live) = Bases(Records(packs))
  BY <1>1, <1>2, <1>4 DEF OkView
<1> QED
  BY <1>1, <1>2, <1>4, <1>5 DEF OkWriter

\* A writer that takes the lock reads again if the numbers of the packs or the length of
\* the active one say so, and has then what the files tell (sync_from_disk).
LEMMA AcquireStep == ASSUME CoreInv, NEW p \in Proc, Acquire(p) PROVE CoreInv' /\ HeldSame
<1> DEFINE v == IF Changed(p) THEN Loaded(packs) ELSE view[p]
<1>1. /\ view[p] # None /\ lock = None /\ lock' = p /\ view' = [view EXCEPT ![p] = v]
      /\ UNCHANGED <<packs, step, ckpt, acked>>
  BY DEF Acquire
<1>2. GoodFiles(packs, acked) /\ OkView(packs, view[p])
  BY <1>1 DEF CoreInv, ViewInv
<1>3. OkView(packs, v) /\ OkWriter(packs, v, "ready") /\ v \in View
  <2>1. CASE Changed(p)
    BY <1>2, <2>1, LoadedIs
  <2>2. CASE ~Changed(p)
    BY <1>2, <2>2, UnchangedIs DEF OkView
  <2> QED
    BY <2>1, <2>2
<1> HIDE DEF v
<1>4. view \in [Proc -> View \cup {None}]
  BY DEF CoreInv, TypeInv
<1>5. \A q \in Proc : lock # q /\ step[q] = "ready"
  BY <1>1, ChunkStoreAssumption DEF CoreInv, LockInv
<1>6. TypeInv'
  BY <1>1, <1>3, <1>4 DEF CoreInv, TypeInv
<1>7. ViewInv'
  <2> SUFFICES ASSUME NEW q \in Proc, view'[q] # None PROVE OkView(packs', view'[q])
    BY DEF ViewInv
  <2>1. CASE q = p
    BY <1>1, <1>3, <1>4, <2>1
  <2>2. CASE q # p
    BY <1>1, <1>4, <2>2 DEF CoreInv, ViewInv
  <2> QED
    BY <2>1, <2>2
<1>8. LockInv'
  <2>1. view'[p] = v /\ step'[p] = "ready"
    BY <1>1, <1>4, <1>5
  <2> QED
    BY <1>1, <1>3, <1>5, <2>1 DEF LockInv
<1> QED
  BY <1>1, <1>2, <1>6, <1>7, <1>8 DEF CoreInv, HeldSame

\* After a compaction the writer reads again (compact).
LEMMA CompactDoneStep ==
    ASSUME CoreInv, NEW p \in Proc, CompactDone(p) PROVE CoreInv' /\ HeldSame
<1>1. /\ lock = p /\ step[p] = "remove"
      /\ view' = [view EXCEPT ![p] = Loaded(packs)] /\ step' = [step EXCEPT ![p] = "ready"]
      /\ UNCHANGED <<packs, lock, ckpt, acked>>
  BY DEF CompactDone
<1>2. GoodFiles(packs, acked) /\ OkWriter(packs, Loaded(packs), "ready") /\ Loaded(packs) \in View
  BY LoadedIs DEF CoreInv
<1>3. view \in [Proc -> View \cup {None}]
      /\ step \in [Proc -> {"ready", "seal", "roll", "compacted", "remove"}]
  BY DEF CoreInv, TypeInv
<1>4. TypeInv'
  BY <1>1, <1>2, <1>3 DEF CoreInv, TypeInv
<1>5. /\ view'[p] = Loaded(packs) /\ step'[p] = "ready"
      /\ \A q \in Proc \ {p} : view'[q] = view[q] /\ step'[q] = step[q]
  BY <1>1, <1>3
<1>6. \A q \in Proc \ {p} : view[q] # None => OkView(packs', view[q])
  BY <1>1 DEF CoreInv, ViewInv
<1>8. CoreInv'
  BY <1>1, <1>2, <1>4, <1>5, <1>6, WriterSteps
<1> QED
  BY <1>1, <1>8 DEF HeldSame

\* A process that ends leaves the files as they are, wherever it was.
LEMMA DieStep == ASSUME CoreInv, NEW p \in Proc, Die(p) PROVE CoreInv' /\ HeldSame
<1>1. /\ view' = [view EXCEPT ![p] = None] /\ lock' = IF lock = p THEN None ELSE lock
      /\ step' = [step EXCEPT ![p] = "ready"]
      /\ UNCHANGED <<packs, acked>>
  BY DEF Die
<1>2. TypeInv /\ ViewInv /\ LockInv /\ GoodFiles(packs, acked)
  BY DEF CoreInv
<1>3. TypeInv'
  BY <1>1, <1>2 DEF TypeInv
<1>4. /\ view'[p] = None /\ step'[p] = "ready" /\ lock' # p
      /\ \A q \in Proc \ {p} :
            /\ view'[q] = view[q] /\ step'[q] = step[q]
            /\ lock' = q <=> lock = q
  BY <1>1, <1>2, ChunkStoreAssumption DEF TypeInv
<1>5. ViewInv'
  BY <1>1, <1>2, <1>4 DEF ViewInv
<1>6. LockInv'
  <2> SUFFICES ASSUME NEW q \in Proc
               PROVE  /\ step'[q] # "ready" => lock' = q
                      /\ lock' = q => OkWriter(packs', view'[q], step'[q])
                      /\ step'[q] \in {"compacted", "remove"} =>
                           \A o \in Proc : view'[o] # None => Len(packs') \notin view'[o].seqs
    BY DEF LockInv
  <2>1. CASE q = p
    BY <1>4, <2>1
  <2>2. CASE q # p
    <3>1. /\ step'[q] # "ready" => lock' = q
          /\ lock' = q => OkWriter(packs', view'[q], step'[q])
      BY <1>1, <1>2, <1>4, <2>2 DEF LockInv
    <3>2. ASSUME step'[q] \in {"compacted", "remove"}, NEW o \in Proc, view'[o] # None
          PROVE  Len(packs') \notin view'[o].seqs
      <4>1. view'[o] = view[o] /\ step'[q] = step[q]
        BY <1>4, <2>2, <3>2
      <4> QED
        BY <1>1, <1>2, <3>2, <4>1 DEF LockInv
    <3> QED
      BY <3>1, <3>2
  <2> QED
    BY <2>1, <2>2
<1> QED
  BY <1>1, <1>2, <1>3, <1>5, <1>6 DEF CoreInv, HeldSame

\* A record more, of what the same bases tell of, gives the same bases.
LEMMA SameAppend ==
    ASSUME NEW X \in Seq(Rec), NEW Y \in Seq(Rec), NEW r \in Rec, Bases(X) = Bases(Y)
    PROVE  Bases(Inserted(X, r)) = Bases(Append(Y, r))
<1>1. Bases(Inserted(X, r)) = Bases(Append(X, r))
  BY InsertedIs
<1>2. \A c \in Places : Bases(Append(X, r))[c] = Bases(Append(Y, r))[c]
  BY BasesOfAppend
<1> QED
  BY <1>1, <1>2, SameBases

\* What a view is after its length and its index have changed.
IsChanged(v, w, k, live) == v = [w EXCEPT !.len = k, !.live = live]
LEMMA ViewChanged ==
    ASSUME NEW w \in View, NEW k \in Nat, NEW live \in Seq(Rec), NEW v, IsChanged(v, w, k, live)
    PROVE  v \in View /\ v.seqs = w.seqs /\ v.len = k /\ v.live = live
<1>1. [seqs |-> w.seqs, len |-> k, live |-> live] \in View
  BY DEF View
<1>2. v = [seqs |-> w.seqs, len |-> k, live |-> live]
  BY DEF View, IsChanged
<1> QED
  BY <1>1, <1>2

\* A writer appends a record that keeps every chain from coming back (append_record).
LEMMA AppendStep ==
    ASSUME CoreInv, NEW p \in Proc, Writes(p), NEW r \in Rec, Append1(p, r),
           UNCHANGED <<lock, acked>>, Grounded(Bases(Append(Records(packs), r)))
    PROVE  CoreInv' /\ Records(packs') = Append(Records(packs), r) /\ Grew(packs', packs, r)
<1> DEFINE n == Len(packs)
           f == [packs[n] EXCEPT !.recs = Append(@, r)]
           v == [view[p] EXCEPT !.len = @ + 1, !.live = Inserted(@, r)]
<1>1. lock = p /\ step[p] = "ready" /\ lock' = p
  BY DEF Writes
<1>2. /\ GoodFiles(packs, acked) /\ OkWriter(packs, view[p], step[p])
      /\ OkView(packs, view[p]) /\ view[p] \in View
      /\ Bases(view[p].live) = Bases(Records(packs))
      /\ Active(p) = n /\ n \in view[p].seqs /\ view[p].len = Len(packs[n].recs)
  BY <1>1, WriterIs
<1>3. /\ n \in Nat /\ n > 0 /\ packs \in Seq(File) /\ DOMAIN packs = 1 .. n /\ packs[n] \in File
      /\ packs[n].recs \in Seq(Rec) /\ Len(packs[n].recs) \in Nat /\ n \in Seqs(packs)
  BY <1>2, ActiveIs
<1>4. /\ view \in [Proc -> View \cup {None}] /\ acked' = acked
      /\ step \in [Proc -> {"ready", "seal", "roll", "compacted", "remove"}]
  BY DEF CoreInv, TypeInv
<1>5. /\ packs' = [packs EXCEPT ![n] = f] /\ view' = [view EXCEPT ![p] = v]
      /\ step' = [step EXCEPT ![p] = IF view[p].len + 1 >= SealAt THEN "seal" ELSE @]
  BY <1>2 DEF Append1
<1>6. /\ f.recs = Append(packs[n].recs, r) /\ f.synced = packs[n].synced /\ f.idx = packs[n].idx
      /\ Len(f.recs) = Len(packs[n].recs) + 1
  BY <1>3 DEF File
<1>7. GoodAfter(Before(packs, n - 1), f, acked)
      /\ Before(packs, n - 1) \o f.recs = Append(Records(packs), r)
  BY <1>2, RecordAppended
<1>8. view[p].len \in Nat /\ view[p].live \in Seq(Rec) /\ Records(packs) \in Seq(Rec)
  BY <1>2, NowIsGood DEF View
<1>9. /\ v \in View /\ v.seqs = view[p].seqs /\ v.len = Len(f.recs)
      /\ v.live = Inserted(view[p].live, r)
  <2>1. Inserted(view[p].live, r) \in Seq(Rec)
    BY <1>8, InsertedIs
  <2> DEFINE w == view[p]
             k == view[p].len + 1
             live == Inserted(view[p].live, r)
  <2>2. w \in View /\ k \in Nat /\ live \in Seq(Rec)
    BY <1>2, <1>8, <2>1
  <2>3. IsChanged(v, w, k, live)
    BY DEF IsChanged
  <2> HIDE DEF v, w, k, live
  <2>4. v \in View /\ v.seqs = w.seqs /\ v.len = k /\ v.live = live
    BY <2>2, <2>3, ViewChanged
  <2> QED
    BY <1>2, <1>6, <2>4 DEF w, k, live
<1>10. Bases(v.live) = Bases(Append(Records(packs), r))
  BY <1>2, <1>8, <1>9, SameAppend
<1> HIDE DEF f, v
<1>11. GoodFiles(packs', acked') /\ Becomes(packs', packs, f)
  BY <1>2, <1>4, <1>5, <1>7, LastChanged
<1>12. /\ Len(packs') = n /\ packs'[n] = f /\ Seqs(packs') = Seqs(packs)
       /\ Records(packs') = Append(Records(packs), r)
  BY <1>7, <1>11 DEF Becomes
<1>a. Keeps(packs', packs)
  <2>1. ASSUME NEW k, GoodFiles(packs, k) PROVE GoodFiles(packs', k)
    <3>1. f = [packs[Len(packs)] EXCEPT !.recs = Append(@, r)]
      BY DEF f
    <3>2. GoodAfter(Before(packs, n - 1), f, k)
      BY <2>1, <3>1, RecordAppended
    <3> QED
      BY <1>5, <2>1, <3>2, LastChanged
  <2>2. Indexed(Records(packs)) \subseteq Indexed(Records(packs'))
    BY <1>8, <1>12, BasesOfAppend
  <2> QED
    BY <2>1, <2>2 DEF Keeps
<1>13. v.seqs = Seqs(packs) /\ v.seqs \subseteq 1 .. n
  BY <1>2, <1>9 DEF OkView
<1>14. OkView(packs', v)
  <2>1. Grounded(Bases(v.live))
    BY <1>10
  <2>2. v.len <= Len(f.recs)
    BY <1>3, <1>6, <1>9
  <2>3. Indexed(v.live) = Indexed(Records(packs'))
    <3>1. v.live \in Seq(Rec) /\ Records(packs') \in Seq(Rec)
      BY <1>9, <1>11, NowIsGood DEF View
    <3> QED
      BY <1>10, <1>12, <3>1, BasesAreMap
  <2>4. Len(packs') = n /\ packs'[n] = f /\ n \in v.seqs /\ Seqs(packs') = Seqs(packs)
    BY <1>2, <1>9, <1>11 DEF Becomes
  <2> QED
    BY <1>9, <1>10, <1>12, <1>13, <2>1, <2>2, <2>3, <2>4 DEF OkView
<1>15. view'[p] = v /\ step'[p] \in {"ready", "seal"}
       /\ \A q \in Proc \ {p} : view'[q] = view[q] /\ step'[q] = step[q]
  BY <1>1, <1>4, <1>5
<1>16. OkWriter(packs', view'[p], step'[p])
  BY <1>9, <1>10, <1>12, <1>13, <1>14, <1>15, <1>3 DEF OkWriter
<1>17. \A q \in Proc \ {p} : view[q] # None => OkView(packs', view[q])
  <2> SUFFICES ASSUME NEW q \in Proc \ {p}, view[q] # None PROVE OkView(packs', view[q])
    OBVIOUS
  <2>1. OkView(packs, view[q])
    BY DEF CoreInv, ViewInv
  <2> QED
    BY <1>2, <1>6, <1>11, <1>a, <2>1, ViewOverAppend
<1>19. TypeInv'
  <2>1. lock' \in Proc \cup {None}
    BY <1>4 DEF CoreInv, TypeInv
  <2>2. view' \in [Proc -> View \cup {None}]
    BY <1>4, <1>5, <1>9
  <2>3. step' \in [Proc -> {"ready", "seal", "roll", "compacted", "remove"}]
    BY <1>4, <1>5
  <2> QED
    BY <2>1, <2>2, <2>3 DEF TypeInv
<1>20. CoreInv'
  BY <1>1, <1>11, <1>15, <1>16, <1>17, <1>19, WriterSteps
<1>21. Grew(packs', packs, r)
  BY <1>6, <1>11, <1>12 DEF Grew, Becomes
<1> QED
  BY <1>12, <1>20, <1>21

\* A chunk is put whole (put).
LEMMA PutStep ==
    ASSUME CoreInv, NEW p \in Proc, NEW c \in Chunk, Put(p, c) 
    PROVE  CoreInv' /\ HeldPut(c) /\ Grew(packs', packs, [id |-> c, base |-> None])
<1> DEFINE r == [id |-> c, base |-> None]
           X == Records(packs)
<1>1. /\ Writes(p) /\ lock = p /\ Append1(p, r) /\ UNCHANGED <<lock, acked>>
      /\ c \notin Indexed(view[p].live)
  BY DEF Put, Writes
<1>2. GoodFiles(packs, acked) /\ Indexed(view[p].live) = Indexed(X)
  BY <1>1, WriterIs
<1>3. X \in Seq(Rec) /\ Grounded(Bases(X)) /\ Indexed(X) \subseteq Chunk
  BY <1>2, NowIsGood
<1>4. r \in Rec /\ r.id = c /\ r.base = None /\ c # None
  BY ChunkStoreAssumption DEF Rec
<1> HIDE DEF r
<1>5. BasesMap(Bases(X)) /\ Bases(X)[c] = Missing
  <2>1. IndexedIn(Bases(X)) = Indexed(X) /\ BasesMap(Bases(X))
    BY <1>3, BasesAreMap
  <2> QED
    BY <1>1, <1>2, <2>1 DEF IndexedIn
<1>6. /\ Indexed(Append(X, r)) = Indexed(X) \cup {r.id}
      /\ Rebased(Bases(X), Bases(Append(X, r)), r)
  BY <1>3, <1>4, BasesOfAppend DEF Rebased
<1>7. Grounded(Bases(Append(X, r)))
  BY <1>3, <1>4, <1>5, <1>6, PutGrounds
<1>8. CoreInv' /\ Records(packs') = Append(X, r) /\ Grew(packs', packs, r)
  BY <1>1, <1>4, <1>7, AppendStep
<1> QED
  BY <1>1, <1>2, <1>4, <1>6, <1>8 DEF HeldPut, r

\* A chunk becomes a delta (reencode_as_delta): what is held stays what it was.
LEMMA ReencodeStep ==
    ASSUME CoreInv, NEW p \in Proc, NEW c \in Chunk, NEW base \in Chunk, Reencode(p, c, base)
    PROVE  /\ CoreInv' /\ HeldSame /\ c \in Indexed(Records(packs))
           /\ Grew(packs', packs, [id |-> c, base |-> base])
<1> DEFINE r == [id |-> c, base |-> base]
           X == Records(packs)
<1>1. /\ Writes(p) /\ lock = p /\ Append1(p, r) /\ UNCHANGED <<lock, acked>>
      /\ c \in Indexed(view[p].live) /\ base \in Indexed(view[p].live)
      /\ c \notin Behind(Bases(view[p].live), base)
  BY DEF Reencode, Writes, Allows
<1>2. /\ GoodFiles(packs, acked) /\ Indexed(view[p].live) = Indexed(X)
      /\ Bases(view[p].live) = Bases(X)
  BY <1>1, WriterIs
<1>3. X \in Seq(Rec) /\ Grounded(Bases(X)) /\ Indexed(X) \subseteq Chunk
  BY <1>2, NowIsGood
<1>4. r \in Rec /\ r.id = c /\ r.base = base
  BY DEF Rec
<1> HIDE DEF r
<1>5. BasesMap(Bases(X)) /\ Bases(X)[base] # Missing
  <2>1. IndexedIn(Bases(X)) = Indexed(X) /\ BasesMap(Bases(X))
    BY <1>3, BasesAreMap
  <2> QED
    BY <1>1, <1>2, <2>1 DEF IndexedIn
<1>6. /\ Indexed(Append(X, r)) = Indexed(X) \cup {r.id}
      /\ Rebased(Bases(X), Bases(Append(X, r)), r)
  BY <1>3, <1>4, BasesOfAppend DEF Rebased
<1>7. Grounded(Bases(Append(X, r)))
  BY <1>1, <1>2, <1>3, <1>4, <1>5, <1>6, ReencodeGrounds
<1>8. CoreInv' /\ Records(packs') = Append(X, r) /\ Grew(packs', packs, r)
  BY <1>1, <1>4, <1>7, AppendStep
<1> QED
  BY <1>1, <1>2, <1>4, <1>6, <1>8 DEF HeldSame, r

\* The active pack after an fsync, with its altidx or without.
LEMMA SyncedIs ==
    ASSUME NEW f \in File
    PROVE  /\ Synced(f) \in File /\ Synced(f).recs = f.recs /\ Synced(f).synced = Len(f.recs)
           /\ Synced(f).idx = f.idx
           /\ [Synced(f) EXCEPT !.idx = Len(f.recs)]
                = [recs |-> f.recs, synced |-> Len(f.recs), idx |-> Len(f.recs)]
<1>1. f.recs \in Seq(Rec) /\ f.idx \in Int \cup {None} /\ Len(f.recs) \in Nat
  BY DEF File
<1>2. Synced(f) = [recs |-> f.recs, synced |-> Len(f.recs), idx |-> f.idx]
  BY DEF File, Synced
<1>3. [recs |-> f.recs, synced |-> Len(f.recs), idx |-> f.idx] \in File
  BY <1>1 DEF File
<1>4. [Synced(f) EXCEPT !.idx = Len(f.recs)]
        = [recs |-> f.recs, synced |-> Len(f.recs), idx |-> Len(f.recs)]
  BY <1>2
<1> QED
  BY <1>2, <1>3, <1>4

\* The full pack is fsynced and gets its altidx (seal_and_roll).
LEMMA SealStep == ASSUME CoreInv, NEW p \in Proc, Seal(p) 
    PROVE  CoreInv' /\ HeldSame /\ SameRecs(packs', packs)
<1> DEFINE n == Len(packs)
           f == [Synced(packs[n]) EXCEPT !.idx = Len(packs[n].recs)]
<1>1. lock = p /\ step[p] = "seal" /\ lock' = p
  BY DEF Seal
<1>2. /\ GoodFiles(packs, acked) /\ OkWriter(packs, view[p], step[p])
      /\ OkView(packs, view[p]) /\ Bases(view[p].live) = Bases(Records(packs))
      /\ Active(p) = n /\ n \in view[p].seqs /\ view[p].len = Len(packs[n].recs)
  BY <1>1, WriterIs
<1>3. packs' = [packs EXCEPT ![n] = f] /\ step' = [step EXCEPT ![p] = "roll"]
      /\ UNCHANGED <<lock, view, ckpt, acked>>
  BY <1>2 DEF Seal
<1>4. /\ packs[n] \in File /\ Len(packs[n].recs) \in Nat /\ packs[n].recs \in Seq(Rec)
      /\ acked \subseteq Indexed(Records(packs))
  BY <1>2, ActiveIs, NowIsGood
<1>5. /\ f.recs = packs[n].recs /\ f.synced = Len(f.recs) /\ f.idx = Len(f.recs) /\ f \in File
  <2>1. f = [recs |-> packs[n].recs, synced |-> Len(packs[n].recs), idx |-> Len(packs[n].recs)]
    BY <1>4, SyncedIs
  <2> HIDE DEF f
  <2> QED
    BY <1>4, <2>1 DEF File
<1> HIDE DEF f
<1>6. GoodAfter(Before(packs, n - 1), f, acked)
  BY <1>2, <1>4, <1>5, PackSynced
<1>7. GoodFiles(packs', acked') /\ Becomes(packs', packs, f)
  BY <1>2, <1>3, <1>6, LastChanged
<1>a. Keeps(packs', packs)
  BY <1>2, <1>3, <1>5, <1>7, SyncKeeps
<1>8. \A v : OkView(packs, v) => OkView(packs', v)
  BY <1>2, <1>5, <1>7, <1>a, ViewOverSync
<1>9. Records(packs') = Records(packs)
  BY <1>2, <1>5, <1>7, <1>a, ViewOverSync
<1>10. Len(packs') = n /\ packs'[n] = f
  BY <1>7 DEF Becomes
<1>11. step \in [Proc -> {"ready", "seal", "roll", "compacted", "remove"}]
  BY DEF CoreInv, TypeInv
<1>12. step'[p] = "roll" /\ \A q \in Proc \ {p} : step'[q] = step[q]
  BY <1>3, <1>11
<1>13. OkWriter(packs', view'[p], step'[p])
  BY <1>2, <1>3, <1>5, <1>8, <1>9, <1>10, <1>12 DEF OkWriter
<1>14. TypeInv'
  BY <1>3 DEF CoreInv, TypeInv
<1>15. \A q \in Proc \ {p} : view[q] # None => OkView(packs', view[q])
  BY <1>8 DEF CoreInv, ViewInv
<1>17. CoreInv'
  BY <1>1, <1>3, <1>7, <1>12, <1>13, <1>14, <1>15, WriterSteps
<1> QED
  BY <1>3, <1>5, <1>7, <1>9, <1>17 DEF HeldSame, SameRecs, Becomes

\* The next pack comes behind the sealed one (seal_and_roll).
LEMMA RollStep == ASSUME CoreInv, NEW p \in Proc, Roll(p) 
    PROVE  CoreInv' /\ HeldSame /\ Len(packs') > Len(packs)
<1> DEFINE n == Len(packs)
           v == [view[p] EXCEPT !.seqs = @ \cup {n + 1}, !.len = 0]
<1>1. lock = p /\ step[p] = "roll" /\ lock' = p
  BY DEF Roll
<1>2. /\ GoodFiles(packs, acked) /\ OkWriter(packs, view[p], "roll")
      /\ OkView(packs, view[p]) /\ Bases(view[p].live) = Bases(Records(packs))
      /\ n \in view[p].seqs /\ view[p] \in View
  BY <1>1, WriterIs
<1>3. /\ packs[n].synced = Len(packs[n].recs) /\ packs[n].idx = Len(packs[n].recs)
      /\ view[p].seqs = Seqs(packs) /\ n \in Nat
  BY <1>2, ActiveIs DEF OkWriter, OkView
<1>4. GoodAfter(Before(packs, n), NewPack, acked) /\ Before(packs, n) \o NewPack.recs = Records(packs)
  BY <1>2, <1>3, PackRolled
<1>5. packs' = Append(packs, NewPack) /\ step' = [step EXCEPT ![p] = "ready"]
      /\ UNCHANGED <<lock, ckpt, acked>>
  BY DEF Roll
<1>6. GoodFiles(packs', acked') /\ Extends(packs', packs, NewPack)
  BY <1>2, <1>3, <1>4, <1>5, FileAdded
<1>7. /\ Len(packs') = n + 1 /\ packs'[n + 1] = NewPack /\ Seqs(packs') = Seqs(packs) \cup {n + 1}
      /\ Records(packs') = Records(packs)
  BY <1>4, <1>6 DEF Extends
<1>8. view' = [view EXCEPT ![p] = v]
  BY <1>7 DEF Roll
<1>9. v \in View /\ v.seqs = Seqs(packs') /\ v.len = 0 /\ v.live = view[p].live
  <2>1. [seqs |-> view[p].seqs \cup {n + 1}, len |-> 0, live |-> view[p].live] \in View
    BY <1>2, <1>3 DEF View
  <2>2. v = [seqs |-> view[p].seqs \cup {n + 1}, len |-> 0, live |-> view[p].live]
    <3> DEFINE w == view[p]
               t == w.seqs \cup {n + 1}
    <3>1. w \in View
      BY <1>2
    <3>2. v = [w EXCEPT !.seqs = t, !.len = 0]
      OBVIOUS
    <3> HIDE DEF v, w, t
    <3>3. v = [seqs |-> t, len |-> 0, live |-> w.live]
      BY <3>1, <3>2 DEF View
    <3> QED
      BY <3>3 DEF w, t
  <2> HIDE DEF v
  <2> QED
    BY <1>3, <1>7, <2>1, <2>2
<1> HIDE DEF v
<1>10. /\ view \in [Proc -> View \cup {None}]
       /\ step \in [Proc -> {"ready", "seal", "roll", "compacted", "remove"}]
  BY DEF CoreInv, TypeInv
<1>11. /\ view'[p] = v /\ step'[p] = "ready"
       /\ \A q \in Proc \ {p} : view'[q] = view[q] /\ step'[q] = step[q]
  BY <1>5, <1>8, <1>10
<1>12. NewPack.recs = <<>> /\ Len(NewPack.recs) = 0
  BY DEF NewPack
<1>a. GoodFiles(packs', Indexed(Records(packs)))
  <2>1. GoodFiles(packs, Indexed(Records(packs)))
    BY <1>2, <1>3, AllSynced
  <2>2. GoodAfter(Before(packs, n), NewPack, Indexed(Records(packs)))
    BY <1>3, <2>1, PackRolled
  <2> QED
    BY <1>3, <1>5, <2>1, <2>2, FileAdded
<1>13. OkView(packs', v)
  <2>1. /\ view[p].seqs \subseteq 1 .. n /\ Grounded(Bases(view[p].live))
        /\ Indexed(view[p].live) \subseteq Indexed(Records(packs))
    BY <1>2 DEF OkView
  <2>2. v.seqs \subseteq 1 .. n + 1
    BY <1>3, <1>7, <1>9, <2>1
  <2> QED
    BY <1>2, <1>7, <1>9, <1>12, <2>1, <2>2 DEF OkView
<1>14. OkWriter(packs', view'[p], step'[p])
  BY <1>2, <1>7, <1>9, <1>11, <1>12, <1>13 DEF OkWriter
<1>15. TypeInv'
  BY <1>5, <1>8, <1>9, <1>10 DEF CoreInv, TypeInv
<1>16. \A q \in Proc \ {p} : view[q] # None => OkView(packs', view[q])
  <2> SUFFICES ASSUME NEW q \in Proc \ {p}, view[q] # None PROVE OkView(packs', view[q])
    OBVIOUS
  <2>1. OkView(packs, view[q])
    BY DEF CoreInv, ViewInv
  <2> QED
    BY <1>2, <1>6, <1>7, <1>a, <2>1, ViewOverRoll
<1>18. CoreInv'
  BY <1>1, <1>5, <1>6, <1>11, <1>14, <1>15, <1>16, WriterSteps
<1> QED
  BY <1>3, <1>5, <1>7, <1>18 DEF HeldSame

\* What the index holds goes to a pack of its own (compact).
LEMMA CompactWriteStep ==
    ASSUME CoreInv, NEW p \in Proc, CompactWrite(p) 
    PROVE  CoreInv' /\ HeldSame /\ Len(packs') > Len(packs)
<1> DEFINE n == Len(packs)
           f == Synced(packs[n])
           mid == [packs EXCEPT ![n] = f]
           live == view[p].live
           g == CompactedOf(live)
<1>1. lock = p /\ step[p] = "ready" /\ lock' = p
  BY DEF CompactWrite, Writes
<1>2. /\ GoodFiles(packs, acked) /\ OkWriter(packs, view[p], step[p])
      /\ OkView(packs, view[p]) /\ Bases(live) = Bases(Records(packs))
      /\ Indexed(live) = Indexed(Records(packs))
      /\ view[p] \in View /\ Active(p) = n
  BY <1>1, WriterIs
<1>3. /\ packs' = Append(mid, g) /\ step' = [step EXCEPT ![p] = "compacted"]
      /\ UNCHANGED <<lock, view, ckpt, acked>>
  BY <1>2 DEF CompactWrite, Compacted, CompactedOf
<1>4. /\ packs[n] \in File /\ acked \subseteq Indexed(Records(packs)) /\ n \in Nat
      /\ live \in Seq(Rec)
  BY <1>2, ActiveIs, NowIsGood DEF View
<1>5. f.recs = packs[n].recs /\ f.synced = Len(f.recs) /\ f.idx = packs[n].idx /\ f \in File
  BY <1>4, SyncedIs
<1>6. g = [recs |-> live, synced |-> Len(live), idx |-> Len(live)] /\ g.recs = live
  BY DEF CompactedOf
<1> HIDE DEF f, mid, g
<1>7. GoodFiles(mid, acked) /\ Becomes(mid, packs, f)
  <2>1. GoodAfter(Before(packs, n - 1), f, acked)
    BY <1>2, <1>4, <1>5, PackSynced
  <2> QED
    BY <1>2, <2>1, LastChanged DEF mid
<1>8. Records(mid) = Records(packs) /\ Len(mid) = n /\ mid[n].synced = Len(mid[n].recs)
  <2>1. Records(mid) = Records(packs)
    BY <1>2, <1>5, <1>7, ActiveIs DEF Becomes
  <2> QED
    BY <1>5, <1>7, <2>1 DEF Becomes
<1>9. /\ GoodAfter(Before(mid, n), g, acked)
      /\ Bases(Before(mid, n) \o g.recs) = Bases(live)
  <2>1. Bases(live) = Bases(Records(mid))
    BY <1>2, <1>8
  <2> HIDE DEF live
  <2> QED
    BY <1>4, <1>6, <1>7, <1>8, <2>1, PackCompacted
<1>10. GoodFiles(packs', acked') /\ Extends(packs', mid, g)
  <2>1. GoodFiles(Append(mid, g), acked) /\ Extends(Append(mid, g), mid, g)
    BY <1>7, <1>8, <1>9, FileAdded
  <2> QED
    BY <1>3, <2>1
<1>11. Len(packs') = n + 1 /\ packs'[n + 1] = g /\ Bases(Records(packs')) = Bases(live)
  BY <1>8, <1>9, <1>10 DEF Extends
<1>a. GoodFiles(packs', Indexed(Records(packs)))
  <2>1. GoodFiles(mid, Indexed(Records(packs)))
    BY <1>7, <1>8, AllSynced
  <2>2. Bases(live) = Bases(Records(mid))
    BY <1>2, <1>8
  <2>3. GoodAfter(Before(mid, n), g, Indexed(Records(packs)))
    <3> HIDE DEF live
    <3> QED
      BY <1>4, <1>6, <1>8, <2>1, <2>2, PackCompacted
  <2> QED
    BY <1>3, <1>8, <2>1, <2>3, FileAdded
<1>b. Indexed(Records(packs')) = Indexed(Records(packs))
  <2>1. Records(packs') \in Seq(Rec) /\ Records(packs) \in Seq(Rec)
    BY <1>2, <1>10, NowIsGood
  <2> QED
    BY <1>2, <1>11, <2>1, BasesAreMap
<1>12. \A v : OkView(packs, v) => OkView(packs', v) /\ Len(packs') \notin v.seqs
  <2> SUFFICES ASSUME NEW v, OkView(packs, v)
               PROVE  OkView(packs', v) /\ Len(packs') \notin v.seqs
    OBVIOUS
  <2>1. OkView(mid, v)
    <3>1. Keeps(mid, packs)
      BY <1>2, <1>5, <1>7, SyncKeeps DEF mid
    <3> QED
      BY <1>2, <1>5, <1>7, <3>1, ViewOverSync
  <2> QED
    BY <1>7, <1>8, <1>10, <1>a, <1>b, <2>1, ViewOverRoll
<1>13. step \in [Proc -> {"ready", "seal", "roll", "compacted", "remove"}]
  BY DEF CoreInv, TypeInv
<1>14. step'[p] = "compacted" /\ \A q \in Proc \ {p} : step'[q] = step[q]
  BY <1>3, <1>13
<1>15. OkWriter(packs', view'[p], step'[p])
  <2>1. packs'[Len(packs')] = CompactedOf(view[p].live)
    BY <1>11 DEF g
  <2> QED
    BY <1>2, <1>3, <1>11, <1>12, <1>14, <2>1 DEF OkWriter
<1>16. TypeInv'
  BY <1>3 DEF CoreInv, TypeInv
<1>17. \A q \in Proc : view[q] # None => OkView(packs', view[q]) /\ Len(packs') \notin view[q].seqs
  BY <1>12 DEF CoreInv, ViewInv
<1>19. CoreInv'
  BY <1>1, <1>3, <1>10, <1>14, <1>15, <1>16, <1>17, WriterSteps
<1> QED
  BY <1>3, <1>4, <1>11, <1>19, <1>b DEF HeldSame

\* An active pack comes above it (compact).
LEMMA CompactRollStep ==
    ASSUME CoreInv, NEW p \in Proc, CompactRoll(p) 
    PROVE  CoreInv' /\ HeldSame /\ Len(packs') > Len(packs)
<1> DEFINE n == Len(packs)
           live == view[p].live
<1>1. lock = p /\ step[p] = "compacted" /\ lock' = p
  BY DEF CompactRoll
<1>2. /\ GoodFiles(packs, acked) /\ OkWriter(packs, view[p], "compacted")
      /\ OkView(packs, view[p]) /\ Bases(live) = Bases(Records(packs))
      /\ Indexed(live) = Indexed(Records(packs)) /\ view[p] \in View
  BY <1>1, WriterIs
<1>3. packs' = Append(packs, NewPack) /\ step' = [step EXCEPT ![p] = "remove"]
      /\ UNCHANGED <<lock, view, ckpt, acked>>
  BY DEF CompactRoll
<1>4. /\ n \in Nat /\ n > 0 /\ Before(packs, n - 1) \in Seq(Rec) /\ packs[n].recs \in Seq(Rec)
      /\ Records(packs) = Before(packs, n - 1) \o packs[n].recs
  BY <1>2, ActiveIs
<1>5. packs[n] = CompactedOf(live) /\ n \notin view[p].seqs
  BY <1>2 DEF OkWriter
<1>6. packs[n].synced = Len(packs[n].recs) /\ packs[n].idx = Len(packs[n].recs)
  BY <1>5 DEF CompactedOf
<1>7. GoodAfter(Before(packs, n), NewPack, acked) /\ Before(packs, n) \o NewPack.recs = Records(packs)
  BY <1>2, <1>6, PackRolled
<1>8. GoodFiles(packs', acked') /\ Extends(packs', packs, NewPack)
  BY <1>2, <1>3, <1>6, <1>7, FileAdded
<1>9. /\ Len(packs') = n + 1 /\ packs'[n + 1] = NewPack /\ \A s \in 1 .. n : packs'[s] = packs[s]
      /\ Records(packs') = Records(packs)
  BY <1>7, <1>8 DEF Extends
<1>a. GoodFiles(packs', Indexed(Records(packs)))
  <2>1. GoodFiles(packs, Indexed(Records(packs)))
    BY <1>2, <1>6, AllSynced
  <2>2. GoodAfter(Before(packs, n), NewPack, Indexed(Records(packs)))
    BY <1>6, <2>1, PackRolled
  <2> QED
    BY <1>3, <1>6, <2>1, <2>2, FileAdded
<1>10. \A v : OkView(packs, v) => OkView(packs', v) /\ Len(packs') \notin v.seqs
  BY <1>2, <1>8, <1>9, <1>a, ViewOverRoll
<1>11. Indexed(Before(packs', n - 1)) \subseteq Indexed(live)
  <2>1. \A s \in 1 .. n - 1 : Kept(packs'[s]) = Kept(packs[s])
    BY <1>4, <1>9
  <2>2. Before(packs', n - 1) = Before(packs, n - 1)
    <3> DEFINE m == n - 1
    <3>1. m \in Nat /\ \A s \in 1 .. m : Kept(packs'[s]) = Kept(packs[s])
      BY <1>4, <2>1
    <3> HIDE DEF m
    <3>2. Before(packs', m) = Before(packs, m)
      BY <3>1, BeforeSame
    <3> QED
      BY <3>2 DEF m
  <2>3. Indexed(Before(packs, n - 1)) \subseteq Indexed(Records(packs))
    BY <1>4, BasesOfJoin
  <2> QED
    BY <1>2, <2>2, <2>3
<1>12. step \in [Proc -> {"ready", "seal", "roll", "compacted", "remove"}]
  BY DEF CoreInv, TypeInv
<1>13. step'[p] = "remove" /\ \A q \in Proc \ {p} : step'[q] = step[q]
  <2>1. step' = [step EXCEPT ![p] = "remove"]
    BY <1>3
  <2> QED
    BY <1>12, <2>1
<1>14. OkWriter(packs', view'[p], step'[p])
  <2>1. /\ Len(packs') >= 2 /\ Len(packs') - 1 = n /\ Len(packs') - 2 = n - 1
        /\ packs'[Len(packs') - 1] = CompactedOf(live) /\ packs'[Len(packs')] = NewPack
    BY <1>4, <1>5, <1>9
  <2>2. Indexed(Before(packs', Len(packs') - 2)) \subseteq Indexed(live)
    BY <1>11, <2>1
  <2>3. OkView(packs', view[p]) /\ Len(packs') \notin view[p].seqs
    BY <1>2, <1>10
  <2>4. Len(packs') - 1 \notin view[p].seqs
    BY <1>5, <2>1
  <2>5. Bases(view[p].live) = Bases(Records(packs'))
    BY <1>2, <1>9
  <2> QED
    BY <1>3, <1>13, <2>1, <2>2, <2>3, <2>4, <2>5 DEF OkWriter
<1>15. TypeInv'
  BY <1>3 DEF CoreInv, TypeInv
<1>16. \A q \in Proc : view[q] # None => OkView(packs', view[q]) /\ Len(packs') \notin view[q].seqs
  BY <1>10 DEF CoreInv, ViewInv
<1>18. CoreInv'
  BY <1>1, <1>3, <1>8, <1>13, <1>14, <1>15, <1>16, WriterSteps
<1> QED
  BY <1>3, <1>4, <1>9, <1>18 DEF HeldSame

\* The lowest of the old packs goes (compact): the new one tells all it told.
LEMMA CompactRemoveStep ==
    ASSUME CoreInv, NEW p \in Proc, CompactRemove(p) 
    PROVE  CoreInv' /\ HeldSame /\ Len(packs') = Len(packs)
<1> DEFINE n == Len(packs)
           live == view[p].live
<1>1. lock = p /\ step[p] = "remove" /\ lock' = p
      /\ UNCHANGED <<lock, view, step, acked>>
  BY DEF CompactRemove
<1>2. /\ GoodFiles(packs, acked) /\ OkWriter(packs, view[p], "remove")
      /\ OkView(packs, view[p]) /\ Bases(live) = Bases(Records(packs)) /\ view[p] \in View
  BY <1>1, WriterIs
<1>3. PICK s \in view[p].seqs \cap Seqs(packs) : packs' = [packs EXCEPT ![s] = Gone]
  BY DEF CompactRemove, Old
<1>4. /\ n \in Nat /\ n >= 2 /\ n \notin view[p].seqs /\ n - 1 \notin view[p].seqs
      /\ packs[n - 1] = CompactedOf(live) /\ packs[n] = NewPack
      /\ Indexed(Before(packs, n - 2)) \subseteq Indexed(live) /\ live \in Seq(Rec)
  BY <1>2, ActiveIs DEF OkWriter, View
<1>5. s \in 1 .. n - 2
  <2>1. s \in 1 .. n /\ s # n /\ s # n - 1
    BY <1>2, <1>3, <1>4 DEF OkView
  <2> QED
    BY <1>4, <2>1
<1>b. Removed(packs', packs, s)
  BY <1>3 DEF Removed
<1>6. /\ GoodFiles(packs', acked) /\ Len(packs') = n
      /\ packs'[n] = packs[n] /\ packs'[n - 1] = packs[n - 1]
      /\ Indexed(Before(packs', n - 2)) \subseteq Indexed(live)
      /\ Bases(Records(packs')) = Bases(live)
  <2>1. packs[n - 1] = [recs |-> live, synced |-> Len(live), idx |-> Len(live)]
    BY <1>4 DEF CompactedOf
  <2> HIDE DEF live
  <2> QED
    BY <1>2, <1>4, <1>5, <1>b, <2>1, PackRemoved
<1>13. Indexed(Records(packs')) = Indexed(Records(packs))
  <2>1. Records(packs') \in Seq(Rec) /\ Records(packs) \in Seq(Rec)
    BY <1>2, <1>6, NowIsGood
  <2> QED
    BY <1>2, <1>6, <2>1, BasesAreMap
<1>a. Keeps(packs', packs)
  <2>1. ASSUME NEW k, GoodFiles(packs, k) PROVE GoodFiles(packs', k)
    <3>1. packs[n - 1] = [recs |-> live, synced |-> Len(live), idx |-> Len(live)]
      BY <1>4 DEF CompactedOf
    <3> HIDE DEF live
    <3> QED
      BY <1>4, <1>5, <1>b, <2>1, <3>1, PackRemoved
  <2> QED
    BY <1>13, <2>1 DEF Keeps
<1>7. \A q \in Proc : view[q] # None => OkView(packs', view[q]) /\ Len(packs') \notin view[q].seqs
  <2> SUFFICES ASSUME NEW q \in Proc, view[q] # None
               PROVE  OkView(packs', view[q]) /\ Len(packs') \notin view[q].seqs
    OBVIOUS
  <2>1. OkView(packs, view[q]) /\ n \notin view[q].seqs
    BY <1>1 DEF CoreInv, ViewInv, LockInv
  <2> QED
    BY <1>6, <1>a, <2>1, ViewOverRemoval
<1>8. OkView(packs', view[p])
  BY <1>2, <1>4, <1>6, <1>a, ViewOverRemoval
<1>9. OkWriter(packs', view'[p], step'[p])
  <2>1. Bases(view[p].live) = Bases(Records(packs'))
    BY <1>6
  <2> QED
    BY <1>1, <1>4, <1>6, <1>8, <2>1 DEF OkWriter
<1>10. TypeInv'
  BY <1>1 DEF CoreInv, TypeInv
<1>12. CoreInv'
  <2>1. GoodFiles(packs', acked')
    BY <1>1, <1>6
  <2>2. \A q \in Proc \ {p} : view'[q] = view[q] /\ step'[q] = step[q]
    BY <1>1
  <2>3. \A q \in Proc : view'[q] # None => Len(packs') \notin view'[q].seqs
    BY <1>1, <1>7
  <2> QED
    BY <1>1, <1>7, <1>9, <1>10, <2>1, <2>2, <2>3, WriterSteps
<1> QED
  BY <1>1, <1>6, <1>12, <1>13 DEF HeldSame

\* The lock is given up (NativeOdb::flush).
LEMMA FlushStep == ASSUME CoreInv, NEW p \in Proc, Flush(p) PROVE CoreInv' /\ HeldSame
<1>1. lock = p /\ step[p] = "ready" /\ lock' = None /\ UNCHANGED <<packs, view, step, acked>>
  BY DEF Flush, Writes
<1>2. \A q \in Proc \ {p} : step[q] = "ready"
  BY <1>1, WriterIs
<1>3. \A q \in Proc : step'[q] = "ready" /\ lock' # q
  BY <1>1, <1>2, ChunkStoreAssumption
<1>4. TypeInv' /\ GoodFiles(packs', acked')
  BY <1>1 DEF CoreInv, TypeInv
<1>5. ViewInv'
  BY <1>1 DEF CoreInv, ViewInv
<1>6. LockInv'
  BY <1>3 DEF LockInv
<1> QED
  BY <1>1, <1>4, <1>5, <1>6 DEF CoreInv, HeldSame

\* What is on the device already.
LEMMA SyncedSame ==
    ASSUME NEW f \in File, f.synced = Len(f.recs)
    PROVE  Synced(f) = f
<1>1. Synced(f) = [f EXCEPT !.synced = f.synced]
  BY DEF Synced
<1> QED
  BY <1>1 DEF File

\* Where an fsync changes nothing, what the process has is on the device all the same.
LEMMA SyncsNothing ==
    ASSUME CoreInv, NEW p \in Proc, Sync(p), packs' = packs, GoodFiles(packs, Indexed(view[p].live))
    PROVE  CoreInv'
<1>1. acked' = acked \cup Indexed(view[p].live) /\ UNCHANGED <<packs, lock, view, step>>
  BY DEF Sync
<1>2. GoodFiles(packs', acked')
  <2>1. GoodFiles(packs, acked)
    BY DEF CoreInv
  <2> QED
    BY <1>1, <2>1, GoodForLess
<1>3. TypeInv' /\ ViewInv' /\ LockInv'
  BY <1>1 DEF CoreInv, TypeInv, ViewInv, LockInv
<1> QED
  BY <1>2, <1>3 DEF CoreInv

\* The fsync answers for what the process has indexed, whoever writes by then, and
\* whether its active pack is the last or another process has sealed it
\* (ChunkStore::flush, the group commit's sink).
LEMMA SyncStep ==
    ASSUME CoreInv, NEW p \in Proc, Sync(p)
    PROVE  /\ CoreInv' /\ acked \subseteq acked' /\ acked' \subseteq Indexed(Records(packs))
           /\ Indexed(Records(packs')) = Indexed(Records(packs))
           /\ SameRecs(packs', packs) /\ packs'[Len(packs)].idx = packs[Len(packs)].idx
<1> DEFINE n == Len(packs)
           a == Active(p)
           f == Synced(packs[n])
           more == acked \cup Indexed(view[p].live)
<1>1. /\ view[p] # None /\ packs' = [packs EXCEPT ![a] = Synced(packs[a])] /\ acked' = more
      /\ UNCHANGED <<lock, view, step>>
  BY DEF Sync
<1>2. GoodFiles(packs, acked) /\ OkView(packs, view[p])
  BY <1>1 DEF CoreInv, ViewInv
<1>3. /\ n \in Nat /\ packs \in Seq(File) /\ DOMAIN packs = 1 .. n /\ packs[n] \in File
      /\ OkFiles(packs) /\ acked \subseteq Indexed(Records(packs)) /\ n \in 1 .. n
  BY <1>2, ActiveIs, NowIsGood
<1>4. more \subseteq Indexed(Records(packs)) /\ acked \subseteq more
  BY <1>2, <1>3 DEF OkView
<1>5. ASSUME packs' = packs
      PROVE  /\ acked \subseteq acked' /\ acked' \subseteq Indexed(Records(packs))
             /\ Indexed(Records(packs')) = Indexed(Records(packs))
             /\ SameRecs(packs', packs) /\ packs'[n].idx = packs[n].idx
  BY <1>1, <1>4, <1>5 DEF SameRecs
<1> HIDE DEF more
<1>6. CASE a # n
  <2>1. GoodFiles(packs, Indexed(view[p].live))
    BY <1>2, <1>3, <1>6, ActiveIsLast DEF OkView
  <2>2. packs' = packs
    <3>1. CASE a \in 1 .. n
      <4>1. a \in 1 .. n - 1
        <5> HIDE DEF n, a
        <5> QED
          BY <1>3, <1>6, <3>1
      <4>2. packs[a].synced = Len(packs[a].recs) /\ packs[a] \in File
        BY <1>2, <1>3, <3>1, <4>1 DEF GoodFiles
      <4>3. Synced(packs[a]) = packs[a]
        BY <4>2, SyncedSame
      <4> QED
        BY <1>1, <1>3, <3>1, <4>3
    <3>2. CASE a \notin 1 .. n
      BY <1>1, <1>3, <3>2
    <3> QED
      BY <3>1, <3>2
  <2> QED
    BY <1>5, <2>1, <2>2, SyncsNothing
<1>7. CASE a = n /\ packs[n].synced = Len(packs[n].recs)
  <2>1. GoodFiles(packs, Indexed(view[p].live))
    <3>1. GoodFiles(packs, Indexed(Records(packs)))
      BY <1>2, <1>7, AllSynced
    <3> QED
      BY <1>2, <3>1, GoodForLess DEF OkView
  <2>2. packs' = packs
    <3>1. Synced(packs[n]) = packs[n]
      BY <1>3, <1>7, SyncedSame
    <3> QED
      BY <1>1, <1>3, <1>7, <3>1
  <2> QED
    BY <1>5, <2>1, <2>2, SyncsNothing
<1>8. CASE a = n /\ packs[n].synced # Len(packs[n].recs)
  <2>1. packs' = [packs EXCEPT ![n] = f] /\ acked' = more
    BY <1>1, <1>8
  <2>2. /\ f \in File /\ f.recs = packs[n].recs /\ f.synced = Len(f.recs)
        /\ f.idx = packs[n].idx
    BY <1>3, SyncedIs
  <2> HIDE DEF f
  <2>3. GoodFiles(packs', acked') /\ Becomes(packs', packs, f)
    <3>1. GoodAfter(Before(packs, n - 1), f, more)
      BY <1>2, <1>4, <2>2, PackSynced
    <3> QED
      BY <1>2, <2>1, <3>1, LastChanged
  <2>4. Keeps(packs', packs)
    BY <1>2, <2>1, <2>2, SyncKeeps
  <2>5. Records(packs') = Records(packs) /\ \A v : OkView(packs, v) => OkView(packs', v)
    BY <1>2, <2>2, <2>3, <2>4, ViewOverSync
  <2>6. TypeInv'
    BY <1>1 DEF CoreInv, TypeInv
  <2>7. ViewInv'
    BY <1>1, <2>5 DEF CoreInv, ViewInv
  <2>8. Len(packs') = n /\ packs'[n] = f
    BY <2>3 DEF Becomes
  <2>9. ASSUME NEW q \in Proc PROVE /\ step[q] # "ready" => lock = q
                                    /\ lock = q => OkWriter(packs, view[q], step[q])
    BY <2>9 DEF CoreInv, LockInv
  <2>10. ASSUME NEW q \in Proc, lock = q
         PROVE  /\ step[q] \notin {"roll", "compacted", "remove"}
                /\ OkWriter(packs', view[q], step[q])
    <3>1. OkWriter(packs, view[q], step[q])
      BY <2>9, <2>10
    <3>2. step[q] # "roll"
      BY <1>8, <3>1 DEF OkWriter
    <3>3. step[q] # "compacted"
      BY <1>8, <3>1 DEF OkWriter, CompactedOf
    <3>4. step[q] # "remove"
      <4>1. NewPack.recs = <<>> /\ NewPack.synced = 0 /\ Len(<<>>) = 0
        BY DEF NewPack
      <4> QED
        BY <1>8, <3>1, <4>1 DEF OkWriter
    <3> QED
      BY <2>2, <2>5, <2>8, <3>1, <3>2, <3>3, <3>4 DEF OkWriter
  <2>11. LockInv'
    BY <1>1, <2>9, <2>10 DEF LockInv
  <2>12. CoreInv'
    BY <2>3, <2>6, <2>7, <2>11 DEF CoreInv
  <2>13. SameRecs(packs', packs) /\ packs'[n].idx = packs[n].idx
    BY <2>2, <2>3, <2>8 DEF SameRecs, Becomes
  <2> QED
    BY <1>1, <1>4, <2>5, <2>12, <2>13
<1> QED
  BY <1>6, <1>7, <1>8

\* A pack that is cut tells of less.
LEMMA CutLess ==
    ASSUME NEW X \in Seq(Rec), NEW Y \in Seq(Rec), NEW k \in 0 .. Len(Y)
    PROVE  SubSeq(Y, 1, k) \in Seq(Rec) /\ Indexed(X \o SubSeq(Y, 1, k)) \subseteq Indexed(X \o Y)
<1>1. /\ SubSeq(Y, 1, k) \in Seq(Rec)
      /\ \A i \in DOMAIN SubSeq(Y, 1, k) : i \in DOMAIN Y /\ SubSeq(Y, 1, k)[i] = Y[i]
  OBVIOUS
<1>2. Indexed(SubSeq(Y, 1, k)) \subseteq Indexed(Y)
  BY <1>1 DEF Indexed
<1> DEFINE Z == SubSeq(Y, 1, k)
<1>3. Z \in Seq(Rec) /\ Indexed(Z) \subseteq Indexed(Y)
  BY <1>1, <1>2
<1> HIDE DEF Z
<1>4. Indexed(X \o Z) \subseteq Indexed(X \o Y)
  BY <1>3, BasesOfJoin
<1> QED
  BY <1>1, <1>4 DEF Z

\* The active pack is cut where the push began and read again (ChunkStore::rewind): what
\* is left is grounded, and answered for as far as it was.
LEMMA RewindStep ==
    ASSUME CoreInv, NEW p \in Proc, NEW x \in Push, Rewind(p, x), NEW k, k = ckpt[x].pre.len,
           k \in 0 .. Len(packs[Len(packs)].recs), Grounded(CutBases(packs, k)),
           packs[Len(packs)].idx = None \/ packs[Len(packs)].idx <= k
    PROVE  /\ CoreInv' /\ acked' = acked \cap Indexed(Records(packs'))
           /\ Indexed(Records(packs')) \subseteq Indexed(Records(packs))
           /\ CutTo(packs', packs, k)
<1> DEFINE n == Len(packs)
           f == Cut(packs[n], k)
           X == Before(packs, n - 1)
           R == packs[n].recs
<1>1. /\ view[p] # None /\ step[p] = "ready" /\ ~Changed(p) /\ lock \in {p, None}
      /\ \A q \in Proc \ {p} : view[q] = None
  BY DEF Rewind, Serves, Alone
<1>2. GoodFiles(packs, acked) /\ OkView(packs, view[p])
  BY <1>1 DEF CoreInv, ViewInv
<1>3. Active(p) = n
  BY <1>1, <1>2, UnchangedIs
<1>4. /\ packs' = [packs EXCEPT ![n] = f] /\ view' = [view EXCEPT ![p] = Loaded(packs')]
      /\ acked' = acked \cap Indexed(Records(packs')) /\ lock' = None /\ step' = step
  BY <1>3 DEF Rewind
<1>5. /\ packs[n] \in File /\ OkFile(packs[n]) /\ X \in Seq(Rec) /\ n \in Nat
      /\ R \in Seq(Rec) /\ Len(R) \in Nat /\ Records(packs) = X \o R
  BY <1>2, ActiveIs
<1>6. k \in 0 .. Len(R) /\ k \in Nat
  BY <1>5
<1>7. /\ f.recs = SubSeq(R, 1, k) /\ f.synced = k /\ f.idx = packs[n].idx /\ f \in File
  <2>1. SubSeq(R, 1, k) \in Seq(Rec)
    BY <1>5, <1>6, CutLess
  <2>2. packs[n].idx \in Int \cup {None}
    BY <1>5 DEF File
  <2>3. f = [recs |-> SubSeq(R, 1, k), synced |-> k, idx |-> packs[n].idx]
    <3> DEFINE w == packs[n]
               recs == SubSeq(w.recs, 1, k)
    <3>1. w \in File /\ f = [w EXCEPT !.recs = recs, !.synced = k]
      BY <1>5 DEF Cut
    <3> HIDE DEF f, w, recs
    <3>2. f = [recs |-> recs, synced |-> k, idx |-> w.idx]
      BY <3>1 DEF File
    <3> QED
      BY <3>2 DEF w, recs
  <2> HIDE DEF f, R
  <2>4. [recs |-> SubSeq(R, 1, k), synced |-> k, idx |-> packs[n].idx] \in File
    BY <1>6, <2>1, <2>2 DEF File
  <2> QED
    BY <2>3, <2>4
<1> HIDE DEF f
<1>8. GoodFiles(packs', acked') /\ Becomes(packs', packs, f)
  <2>1. Becomes(packs', packs, f)
    <3>1. GoodAfter(X, f, {})
      BY <1>2, <1>6, <1>7, PackCutBack
    <3> QED
      BY <1>2, <1>4, <3>1, LastChanged
  <2>2. Records(packs') = X \o SubSeq(R, 1, k)
    BY <1>7, <2>1 DEF Becomes
  <2>3. acked' \subseteq IndexedIn(CutBases(packs, k))
    <3> DEFINE Y == SubSeq(R, 1, k)
    <3>1. Y \in Seq(Rec) /\ X \o Y \in Seq(Rec)
      <4>1. Y \in Seq(Rec)
        BY <1>5, <1>6, CutLess
      <4> HIDE DEF X, Y
      <4> QED
        BY <1>5, <4>1, ConcatProperties
    <3>2. IndexedIn(Bases(X \o Y)) = Indexed(X \o Y)
      <4> HIDE DEF X, Y
      <4> QED
        BY <3>1, BasesAreMap
    <3> QED
      BY <1>4, <2>2, <3>2 DEF CutBases
  <2>4. GoodAfter(X, f, acked')
    BY <1>2, <1>6, <1>7, <2>3, PackCutBack
  <2> QED
    BY <1>2, <1>4, <2>1, <2>4, LastChanged
<1>9. OkView(packs', Loaded(packs')) /\ Loaded(packs') \in View
  BY <1>8, LoadedIs
<1>10. /\ view \in [Proc -> View \cup {None}] /\ lock \in Proc \cup {None}
       /\ step \in [Proc -> {"ready", "seal", "roll", "compacted", "remove"}]
  BY DEF CoreInv, TypeInv
<1>11. view'[p] = Loaded(packs') /\ \A q \in Proc \ {p} : view'[q] = None
  BY <1>1, <1>4, <1>10
<1>12. TypeInv'
  BY <1>4, <1>9, <1>10 DEF TypeInv
<1>13. ViewInv'
  BY <1>9, <1>11 DEF ViewInv
<1>14. LockInv'
  <2>1. ASSUME NEW q \in Proc PROVE step[q] = "ready"
    <3>1. step[q] # "ready" => lock = q
      BY DEF CoreInv, LockInv
    <3>2. p # None /\ q # None
      BY ChunkStoreAssumption
    <3> QED
      BY <1>1, <3>1, <3>2
  <2>2. \A q \in Proc : step'[q] = "ready" /\ lock' # q
    BY <1>4, <2>1, ChunkStoreAssumption
  <2> QED
    BY <2>2 DEF LockInv
<1>15. CoreInv'
  BY <1>8, <1>12, <1>13, <1>14 DEF CoreInv
<1>16. Records(packs') = X \o SubSeq(R, 1, k)
  BY <1>7, <1>8 DEF Becomes
<1>17. Indexed(Records(packs')) \subseteq Indexed(Records(packs))
  BY <1>5, <1>6, <1>16, CutLess
<1>18. CutTo(packs', packs, k)
  BY <1>7, <1>8 DEF CutTo, Becomes
<1> QED
  BY <1>4, <1>15, <1>17, <1>18

\* The active pack loses what was not fsynced, and every process its memory.
LEMMA PowerStep == ASSUME CoreInv, PowerFails 
    PROVE  CoreInv' /\ acked' = acked /\ Indexed(Records(packs')) \subseteq Indexed(Records(packs))
<1> DEFINE n == Len(packs)
<1>1. /\ view' = [p \in Proc |-> None] /\ lock' = None /\ step' = [p \in Proc |-> "ready"]
      /\ acked' = acked
  BY DEF PowerFails
<1>2. GoodFiles(packs, acked)
  BY DEF CoreInv
<1>3. PICK s \in Seqs(packs) : \E k \in packs[s].synced .. Len(packs[s].recs) - 1 :
          packs' = [packs EXCEPT ![s].recs = SubSeq(@, 1, k)]
  BY DEF PowerFails
<1>4. PICK k \in packs[s].synced .. Len(packs[s].recs) - 1 :
          packs' = [packs EXCEPT ![s].recs = SubSeq(@, 1, k)]
  BY <1>3
<1>5. /\ packs[n] \in File /\ OkFile(packs[n]) /\ Before(packs, n - 1) \in Seq(Rec) /\ n \in Nat
      /\ packs[n].recs \in Seq(Rec) /\ Len(packs[n].recs) \in Nat /\ packs[n].synced \in Nat
      /\ Records(packs) = Before(packs, n - 1) \o packs[n].recs /\ DOMAIN packs = 1 .. n
  BY <1>2, ActiveIs
<1>6. s = n
  <2>1. s \in 1 .. n
    BY <1>5 DEF Seqs
  <2> SUFFICES ASSUME s # n PROVE FALSE
    OBVIOUS
  <2>2. s \in 1 .. n - 1
    <3>1. n \in Nat
      BY <1>5
    <3> HIDE DEF n
    <3> QED
      BY <2>1, <3>1
  <2>3. packs[s].synced = Len(packs[s].recs)
    BY <1>2, <2>2 DEF GoodFiles
  <2>4. packs[s].synced \in Nat
    BY <1>2, <2>1 DEF GoodFiles, OkFiles, OkFile
  <2> QED
    BY <1>4, <2>3, <2>4
<1> DEFINE f == [packs[n] EXCEPT !.recs = SubSeq(@, 1, k)]
<1>7. /\ packs' = [packs EXCEPT ![n] = f] /\ k \in packs[n].synced .. Len(packs[n].recs)
      /\ k \in 0 .. Len(packs[n].recs)
  BY <1>4, <1>5, <1>6
<1>8. /\ f.recs = SubSeq(packs[n].recs, 1, k) /\ f.synced = packs[n].synced
      /\ f.idx = packs[n].idx /\ f \in File
  <2>1. SubSeq(packs[n].recs, 1, k) \in Seq(Rec)
    BY <1>5, <1>7, CutLess
  <2>2. f = [recs |-> SubSeq(packs[n].recs, 1, k), synced |-> packs[n].synced,
             idx |-> packs[n].idx]
    <3> DEFINE w == packs[n]
               recs == SubSeq(w.recs, 1, k)
    <3>1. w \in File /\ f = [w EXCEPT !.recs = recs]
      BY <1>5
    <3> HIDE DEF f, w, recs
    <3>2. f = [recs |-> recs, synced |-> w.synced, idx |-> w.idx]
      BY <3>1 DEF File
    <3> QED
      BY <3>2 DEF w, recs
  <2> HIDE DEF f
  <2>3. packs[n].idx \in Int \cup {None}
    BY <1>5 DEF File
  <2>4. [recs |-> SubSeq(packs[n].recs, 1, k), synced |-> packs[n].synced,
         idx |-> packs[n].idx] \in File
    BY <1>5, <2>1, <2>3 DEF File
  <2> QED
    BY <2>2, <2>4
<1> HIDE DEF f
<1>9. GoodFiles(packs', acked') /\ Becomes(packs', packs, f)
  <2>1. GoodAfter(Before(packs, n - 1), f, acked)
    BY <1>2, <1>7, <1>8, PackCut
  <2> QED
    BY <1>1, <1>2, <1>7, <2>1, LastChanged
<1>10. TypeInv'
  BY <1>1 DEF TypeInv
<1>11. \A p \in Proc : view'[p] = None /\ step'[p] = "ready" /\ lock' # p
  BY <1>1, ChunkStoreAssumption
<1>12. ViewInv' /\ LockInv'
  BY <1>11 DEF ViewInv, LockInv
<1>13. Indexed(Records(packs')) \subseteq Indexed(Records(packs))
  <2>1. Records(packs') = Before(packs, n - 1) \o SubSeq(packs[n].recs, 1, k)
    BY <1>8, <1>9 DEF Becomes
  <2> QED
    BY <1>5, <1>7, <2>1, CutLess
<1> QED
  BY <1>1, <1>9, <1>10, <1>12, <1>13 DEF CoreInv

-----------------------------------------------------------------------------
(* The pushes: what their cursors say of the active pack, of which prior   *)
(* are the records before it, recs its own and n its number.               *)

IsOpen(m) == m # None /\ m.post = None

\* Up to where a push has put, and whether the pack is still the one it put in.
End(recs, m) == IF m.post = None THEN Len(recs) ELSE m.post.len
Lives(n, m) == m # None /\ m.pre.seq = n /\ (m.post = None \/ m.post.seq = n)
Holds(n, recs, m) == Lives(n, m) /\ m.pre.len < End(recs, m)

\* Between its cursors are the chunks a push put, and others that were there before, in
\* other words; and what is behind the first cursor can do without.
FromPush(prior, recs, m) ==
    /\ End(recs, m) <= Len(recs)
    /\ Grounded(Bases(prior \o SubSeq(recs, 1, m.pre.len)))
    /\ \A i \in m.pre.len + 1 .. End(recs, m) :
          recs[i].id \in m.put \cup Indexed(prior \o SubSeq(recs, 1, m.pre.len))

OkMark(n, prior, recs, m) ==
    /\ m.pre.seq <= n
    /\ Lives(n, m) => m.pre.len <= End(recs, m)
    /\ Holds(n, recs, m) => FromPush(prior, recs, m)

\* Two pushes do not overlap, and one that is at its ingest is behind the others.
Apart(n, recs, m, w) ==
    Holds(n, recs, m) /\ Lives(n, w) =>
        /\ IsOpen(w) => End(recs, m) <= w.pre.len
        /\ Holds(n, recs, w) => End(recs, m) <= w.pre.len \/ End(recs, w) <= m.pre.len

MarksOk(n, prior, recs, marks) ==
    /\ marks \in [Push -> Mark \cup {None}]
    /\ \A x \in Push : marks[x] # None => OkMark(n, prior, recs, marks[x])
    /\ \A x, y \in Push : x # y => Apart(n, recs, marks[x], marks[y])
    /\ \A x, y \in Push : IsOpen(marks[x]) /\ IsOpen(marks[y]) => x = y

LEMMA MarkIs ==
    ASSUME NEW m \in Mark
    PROVE  /\ m # None /\ m.pre.seq \in Nat /\ m.pre.len \in Nat /\ m.put \subseteq Chunk
           /\ m.post # None => m.post.seq \in Nat /\ m.post.len \in Nat
BY ChunkStoreAssumption DEF Mark, Cursor

\* A push puts a chunk; it is through with its ingest.
LEMMA MarkChanged ==
    ASSUME NEW m \in Mark
    PROVE  /\ \A here \in Cursor : LET w == [m EXCEPT !.post = here]
                                  IN  w \in Mark /\ w.pre = m.pre /\ w.post = here /\ w.put = m.put
           /\ \A c \in Chunk : LET w == [m EXCEPT !.put = @ \cup {c}]
                              IN  /\ w \in Mark /\ w.pre = m.pre /\ w.post = m.post
                                  /\ w.put = m.put \cup {c}
<1>1. m.pre \in Cursor /\ m.post \in Cursor \cup {None} /\ m.put \subseteq Chunk
  BY DEF Mark
<1>2. ASSUME NEW here \in Cursor
      PROVE  LET w == [m EXCEPT !.post = here]
             IN  w \in Mark /\ w.pre = m.pre /\ w.post = here /\ w.put = m.put
  <2>1. [m EXCEPT !.post = here] = [pre |-> m.pre, post |-> here, put |-> m.put]
    BY DEF Mark
  <2>2. [pre |-> m.pre, post |-> here, put |-> m.put] \in Mark
    BY <1>1 DEF Mark
  <2> QED
    BY <2>1, <2>2
<1>3. ASSUME NEW c \in Chunk
      PROVE  LET w == [m EXCEPT !.put = @ \cup {c}]
             IN  /\ w \in Mark /\ w.pre = m.pre /\ w.post = m.post
                 /\ w.put = m.put \cup {c}
  <2>1. [m EXCEPT !.put = @ \cup {c}] = [pre |-> m.pre, post |-> m.post, put |-> m.put \cup {c}]
    BY DEF Mark
  <2>2. [pre |-> m.pre, post |-> m.post, put |-> m.put \cup {c}] \in Mark
    BY <1>1 DEF Mark
  <2> QED
    BY <2>1, <2>2
<1> QED
  BY <1>2, <1>3

\* The records before some place, when one is appended and when the rest is cut.
LEMMA FrontOfAppend ==
    ASSUME NEW Y \in Seq(Rec), NEW r \in Rec, NEW k \in 0 .. Len(Y)
    PROVE  SubSeq(Append(Y, r), 1, k) = SubSeq(Y, 1, k)
<1>1. CASE k = 0
  BY <1>1, SubSeqEmpty
<1>2. CASE k > 0
  <2> DEFINE one == <<r>>
  <2>1. one \in Seq(Rec) /\ Append(Y, r) = Y \o one
    BY AppendIsConcat
  <2>2. 1 \in 1 .. Len(Y) /\ k \in 1 .. Len(Y)
    BY <1>2
  <2> HIDE DEF one
  <2> QED
    BY <2>1, <2>2, SubSeqOfConcat1
<1> QED
  BY <1>1, <1>2

LEMMA FrontOfCut ==
    ASSUME NEW Y \in Seq(Rec), NEW k \in 0 .. Len(Y), NEW j \in 0 .. k
    PROVE  /\ SubSeq(Y, 1, k) \in Seq(Rec) /\ Len(SubSeq(Y, 1, k)) = k
           /\ \A i \in 1 .. k : SubSeq(Y, 1, k)[i] = Y[i]
           /\ SubSeq(SubSeq(Y, 1, k), 1, j) = SubSeq(Y, 1, j)
<1>1. /\ k \in Nat /\ k <= Len(Y) /\ j \in 0 .. Len(Y) /\ Len(Y) \in Nat
      /\ \A i \in 1 .. Len(Y) : Y[i] \in Rec
  BY ElementOfSeq
<1>2. /\ SubSeq(Y, 1, k) \in Seq(Rec) /\ Len(SubSeq(Y, 1, k)) = k
      /\ \A i \in 1 .. k : SubSeq(Y, 1, k)[i] = Y[i]
  BY <1>1, SubSeqProperties
<1> DEFINE Z == SubSeq(Y, 1, k)
<1>3. Z \in Seq(Rec) /\ Len(Z) = k /\ \A i \in 1 .. k : Z[i] = Y[i]
  BY <1>2
<1> HIDE DEF Z
<1>4. /\ SubSeq(Z, 1, j) \in Seq(Rec) /\ Len(SubSeq(Z, 1, j)) = j
      /\ \A i \in 1 .. j : SubSeq(Z, 1, j)[i] = Z[i]
  BY <1>3, SubSeqProperties, ElementOfSeq
<1>5. /\ SubSeq(Y, 1, j) \in Seq(Rec) /\ Len(SubSeq(Y, 1, j)) = j
      /\ \A i \in 1 .. j : SubSeq(Y, 1, j)[i] = Y[i]
  BY <1>1, SubSeqProperties
<1> DEFINE A == SubSeq(Z, 1, j)
           B == SubSeq(Y, 1, j)
<1>6. A = B
  <2>1. A \in Seq(Rec) /\ B \in Seq(Rec) /\ Len(A) = Len(B) /\ \A i \in 1 .. Len(A) : A[i] = B[i]
    BY <1>1, <1>3, <1>4, <1>5
  <2> HIDE DEF A, B
  <2> QED
    BY <2>1, SeqEqual
<1> QED
  BY <1>2, <1>6 DEF Z

\* What is cut is of the places that are cut, or still there.
LEMMA CutTakes ==
    ASSUME NEW X \in Seq(Rec), NEW Y \in Seq(Rec), NEW k \in 0 .. Len(Y), NEW put,
           \A i \in k + 1 .. Len(Y) : Y[i].id \in put \cup Indexed(X \o SubSeq(Y, 1, k))
    PROVE  Indexed(X \o Y) \subseteq put \cup Indexed(X \o SubSeq(Y, 1, k))
<1> DEFINE Z == SubSeq(Y, 1, k)
<1>1. Z \in Seq(Rec) /\ Len(Z) = k /\ \A i \in 1 .. k : Z[i] = Y[i]
  <2>1. k \in 0 .. k
    OBVIOUS
  <2> QED
    BY <2>1, FrontOfCut
<1> HIDE DEF Z
<1>2. /\ DOMAIN Y = 1 .. Len(Y) /\ DOMAIN Z = 1 .. k /\ Len(Y) \in Nat /\ k \in Nat /\ k <= Len(Y)
  BY <1>1, LenProperties
<1>3. Indexed(X \o Y) = Indexed(X) \cup Indexed(Y) /\ Indexed(X \o Z) = Indexed(X) \cup Indexed(Z)
  BY <1>1, BasesOfJoin
<1>4. ASSUME NEW i \in DOMAIN Y PROVE Y[i].id \in put \cup Indexed(X \o Z)
  <2>1. CASE i \in 1 .. k
    BY <1>1, <1>2, <1>3, <2>1 DEF Indexed
  <2>2. CASE i \in k + 1 .. Len(Y)
    BY <2>2 DEF Z
  <2>3. i \in 1 .. k \/ i \in k + 1 .. Len(Y)
    BY <1>2
  <2> QED
    BY <2>1, <2>2, <2>3
<1>5. Indexed(Y) \subseteq put \cup Indexed(X \o Z)
  BY <1>4 DEF Indexed
<1> QED
  BY <1>3, <1>5 DEF Z

\* Pushes none of which is in the active pack.
LEMMA MarksGone ==
    ASSUME NEW n \in Nat, NEW prior, NEW recs, NEW m \in Nat, NEW prior2, NEW recs2, NEW marks,
           MarksOk(n, prior, recs, marks),
           \A x \in Push : marks[x] # None => marks[x].pre.seq < m
    PROVE  MarksOk(m, prior2, recs2, marks)
<1>1. ASSUME NEW x \in Push, marks[x] # None PROVE marks[x].pre.seq <= m /\ ~Lives(m, marks[x])
  <2>1. marks[x] \in Mark
    BY <1>1 DEF MarksOk
  <2> QED
    BY <1>1, <2>1, MarkIs DEF Lives
<1>2. \A x \in Push : ~Lives(m, marks[x])
  BY <1>1 DEF Lives
<1> QED
  BY <1>1, <1>2 DEF MarksOk, OkMark, Apart, Holds

\* A push begins.
LEMMA MarksBegin ==
    ASSUME NEW n \in Nat, NEW prior, NEW recs \in Seq(Rec), NEW marks, MarksOk(n, prior, recs, marks),
           NEW x \in Push, \A y \in Push : ~IsOpen(marks[y]), NEW m,
           m = [pre |-> [seq |-> n, len |-> Len(recs)], post |-> None, put |-> {}]
    PROVE  MarksOk(n, prior, recs, [marks EXCEPT ![x] = m])
<1> DEFINE w == [marks EXCEPT ![x] = m]
<1>1. Len(recs) \in Nat /\ marks \in [Push -> Mark \cup {None}]
  BY LenProperties DEF MarksOk
<1>2. m \in Mark /\ m.pre.seq = n /\ m.pre.len = Len(recs) /\ m.post = None
  BY <1>1 DEF Mark, Cursor
<1>3. m # None /\ End(recs, m) = Len(recs) /\ ~Holds(n, recs, m) /\ OkMark(n, prior, recs, m)
  <2>1. m # None /\ End(recs, m) = Len(recs)
    BY <1>2, MarkIs DEF End
  <2>2. ~Holds(n, recs, m)
    BY <1>1, <1>2, <2>1 DEF Holds
  <2>3. m.pre.seq <= n /\ m.pre.len <= End(recs, m)
    BY <1>1, <1>2, <2>1
  <2> QED
    BY <2>1, <2>2, <2>3 DEF OkMark
<1>4. w \in [Push -> Mark \cup {None}] /\ w[x] = m /\ \A y \in Push : y # x => w[y] = marks[y]
  BY <1>1, <1>2
<1> HIDE DEF w
<1>5. ASSUME NEW y \in Push, w[y] # None PROVE OkMark(n, prior, recs, w[y])
  BY <1>3, <1>4, <1>5 DEF MarksOk
<1>6. ASSUME NEW y \in Push, NEW z \in Push, y # z PROVE Apart(n, recs, w[y], w[z])
  <2>1. CASE y = x
    BY <1>3, <1>4, <2>1 DEF Apart
  <2>2. CASE z = x
    <3>1. ASSUME Holds(n, recs, marks[y]) PROVE End(recs, marks[y]) <= Len(recs)
      <4>1. OkMark(n, prior, recs, marks[y])
        BY <3>1 DEF MarksOk, Holds, Lives
      <4> QED
        BY <3>1, <4>1 DEF OkMark, FromPush
    <3> QED
      BY <1>2, <1>3, <1>4, <1>6, <2>2, <3>1 DEF Apart
  <2>3. CASE y # x /\ z # x
    BY <1>4, <1>6, <2>3 DEF MarksOk
  <2> QED
    BY <2>1, <2>2, <2>3
<1>7. ASSUME NEW y \in Push, NEW z \in Push, IsOpen(w[y]), IsOpen(w[z]) PROVE y = z
  BY <1>4, <1>7
<1>8. MarksOk(n, prior, recs, w)
  BY <1>4, <1>5, <1>6, <1>7 DEF MarksOk
<1> QED
  BY <1>8 DEF w

\* It is through with its ingest.
LEMMA MarksIngested ==
    ASSUME NEW n \in Nat, NEW prior, NEW recs \in Seq(Rec), NEW marks, MarksOk(n, prior, recs, marks),
           NEW x \in Push, IsOpen(marks[x]), NEW here, here = [seq |-> n, len |-> Len(recs)]
    PROVE  MarksOk(n, prior, recs, [marks EXCEPT ![x].post = here])
<1> DEFINE w == [marks EXCEPT ![x].post = here]
           m == marks[x]
<1>1. Len(recs) \in Nat /\ marks \in [Push -> Mark \cup {None}] /\ m # None /\ m.post = None /\ m \in Mark
  BY LenProperties DEF MarksOk, IsOpen
<1>2. here \in Cursor /\ here # None /\ here.seq = n /\ here.len = Len(recs)
  BY <1>1, ChunkStoreAssumption DEF Cursor
<1>3. /\ w[x] \in Mark /\ w[x].pre = m.pre /\ w[x].post = here /\ w[x].put = m.put
      /\ w \in [Push -> Mark \cup {None}] /\ \A y \in Push : y # x => w[y] = marks[y]
  <2>1. w[x] = [m EXCEPT !.post = here]
    BY <1>1
  <2> HIDE DEF m, w
  <2>2. w[x] \in Mark /\ w[x].pre = m.pre /\ w[x].post = here /\ w[x].put = m.put
    BY <1>1, <1>2, <2>1, MarkChanged
  <2> QED
    BY <1>1, <2>2 DEF m, w
<1> HIDE DEF w, m
<1>4. /\ w[x] # None /\ End(recs, w[x]) = End(recs, m) /\ (Lives(n, w[x]) <=> Lives(n, m))
      /\ (Holds(n, recs, w[x]) <=> Holds(n, recs, m)) /\ ~IsOpen(w[x])
  BY <1>1, <1>2, <1>3, MarkIs DEF End, Lives, Holds, IsOpen
<1>5. ASSUME NEW y \in Push
      PROVE  /\ w[y] # None <=> marks[y] # None
             /\ marks[y] # None => w[y].pre = marks[y].pre /\ w[y].put = marks[y].put
             /\ marks[y] # None => End(recs, w[y]) = End(recs, marks[y])
             /\ Lives(n, w[y]) <=> Lives(n, marks[y])
             /\ Holds(n, recs, w[y]) <=> Holds(n, recs, marks[y])
             /\ IsOpen(w[y]) => IsOpen(marks[y])
  BY <1>1, <1>3, <1>4 DEF m
<1>6. ASSUME NEW y \in Push, w[y] # None PROVE OkMark(n, prior, recs, w[y])
  <2>1. OkMark(n, prior, recs, marks[y])
    BY <1>5, <1>6 DEF MarksOk
  <2> QED
    BY <1>5, <1>6, <2>1 DEF OkMark, FromPush
<1>7. ASSUME NEW y \in Push, NEW z \in Push, y # z PROVE Apart(n, recs, w[y], w[z])
  <2>1. Apart(n, recs, marks[y], marks[z])
    BY <1>7 DEF MarksOk
  <2>2. Holds(n, recs, w[y]) => marks[y] # None
    BY <1>5 DEF Holds, Lives
  <2>3. Lives(n, w[z]) => marks[z] # None
    BY <1>5 DEF Lives
  <2> QED
    BY <1>5, <2>1, <2>2, <2>3 DEF Apart
<1>8. \A y, z \in Push : IsOpen(w[y]) /\ IsOpen(w[z]) => y = z
  BY <1>5 DEF MarksOk
<1>9. MarksOk(n, prior, recs, w)
  BY <1>3, <1>6, <1>7, <1>8 DEF MarksOk
<1> QED
  BY <1>9 DEF w

\* It ends.
LEMMA MarksEnd ==
    ASSUME NEW n, NEW prior, NEW recs, NEW marks, MarksOk(n, prior, recs, marks), NEW x \in Push
    PROVE  MarksOk(n, prior, recs, [marks EXCEPT ![x] = None])
<1> DEFINE w == [marks EXCEPT ![x] = None]
<1>1. w \in [Push -> Mark \cup {None}] /\ w[x] = None /\ \A y \in Push : y # x => w[y] = marks[y]
  BY DEF MarksOk
<1> HIDE DEF w
<1>2. \A y \in Push : w[y] # None => w[y] = marks[y]
  BY <1>1
<1>3. ASSUME NEW y \in Push, NEW z \in Push, y # z PROVE Apart(n, recs, w[y], w[z])
  <2>1. CASE w[y] = None \/ w[z] = None
    BY <2>1 DEF Apart, Holds, Lives
  <2>2. CASE w[y] # None /\ w[z] # None
    BY <1>2, <1>3, <2>2 DEF MarksOk
  <2> QED
    BY <2>1, <2>2
<1>4. \A y, z \in Push : IsOpen(w[y]) /\ IsOpen(w[z]) => y = z
  BY <1>2 DEF MarksOk, IsOpen
<1>5. \A y \in Push : w[y] # None => OkMark(n, prior, recs, w[y])
  BY <1>2 DEF MarksOk
<1>6. MarksOk(n, prior, recs, w)
  BY <1>1, <1>3, <1>4, <1>5 DEF MarksOk
<1> QED
  BY <1>6 DEF w

\* The pushes after a record has come, which the one that is at its ingest put, or which
\* says in other words what is there.
Ingests(marks, w, ids) ==
    \A x \in Push :
        /\ w[x] # None <=> marks[x] # None
        /\ marks[x] # None => /\ w[x].pre = marks[x].pre /\ w[x].post = marks[x].post
                              /\ marks[x].put \subseteq w[x].put
        /\ IsOpen(marks[x]) => ids \subseteq w[x].put

LEMMA MarksGrow ==
    ASSUME NEW n \in Nat, NEW prior \in Seq(Rec), NEW recs \in Seq(Rec), NEW marks,
           MarksOk(n, prior, recs, marks), Grounded(Bases(prior \o recs)), NEW r \in Rec,
           NEW w \in [Push -> Mark \cup {None}], NEW ids, Ingests(marks, w, ids),
           r.id \in ids \cup Indexed(prior \o recs)
    PROVE  MarksOk(n, prior, Append(recs, r), w)
<1> DEFINE more == Append(recs, r)
<1>1. /\ Len(recs) \in Nat /\ more \in Seq(Rec) /\ Len(more) = Len(recs) + 1
      /\ \A i \in 1 .. Len(recs) : more[i] = recs[i]
      /\ more[Len(recs) + 1] = r
  BY AppendProperties, LenProperties
<1>2. \A k \in 0 .. Len(recs) : SubSeq(more, 1, k) = SubSeq(recs, 1, k)
  BY FrontOfAppend
<1> HIDE DEF more
<1>3. marks \in [Push -> Mark \cup {None}]
  BY DEF MarksOk
<1>4. ASSUME NEW y \in Push
      PROVE  /\ w[y] # None <=> marks[y] # None
             /\ Lives(n, w[y]) <=> Lives(n, marks[y])
             /\ IsOpen(w[y]) <=> IsOpen(marks[y])
             /\ ~IsOpen(w[y]) => (Holds(n, more, w[y]) <=> Holds(n, recs, marks[y]))
             /\ marks[y] # None =>
                  /\ w[y].pre = marks[y].pre /\ marks[y].put \subseteq w[y].put
                  /\ IsOpen(marks[y]) => End(recs, marks[y]) = Len(recs) /\ End(more, w[y]) = Len(recs) + 1
                  /\ ~IsOpen(marks[y]) => End(more, w[y]) = End(recs, marks[y])
  <2>1. CASE marks[y] = None
    BY <2>1 DEF Ingests, Lives, IsOpen, Holds
  <2>2. CASE marks[y] # None
    <3>1. /\ w[y] # None /\ w[y].pre = marks[y].pre /\ w[y].post = marks[y].post
          /\ marks[y].put \subseteq w[y].put
      BY <2>2 DEF Ingests
    <3>2. Lives(n, w[y]) <=> Lives(n, marks[y])
      BY <2>2, <3>1 DEF Lives
    <3>3. IsOpen(w[y]) <=> IsOpen(marks[y])
      BY <2>2, <3>1 DEF IsOpen
    <3>4. /\ IsOpen(marks[y]) => End(recs, marks[y]) = Len(recs) /\ End(more, w[y]) = Len(recs) + 1
          /\ ~IsOpen(marks[y]) => End(more, w[y]) = End(recs, marks[y])
      BY <1>1, <2>2, <3>1 DEF IsOpen, End
    <3>5. ~IsOpen(w[y]) => (Holds(n, more, w[y]) <=> Holds(n, recs, marks[y]))
      BY <3>1, <3>2, <3>3, <3>4 DEF Holds
    <3> QED
      BY <2>2, <3>1, <3>2, <3>3, <3>4, <3>5
  <2> QED
    BY <2>1, <2>2
<1>5. ASSUME NEW y \in Push, w[y] # None PROVE OkMark(n, prior, more, w[y])
  <2> DEFINE m == marks[y]
             k == marks[y].pre.len
             front == prior \o SubSeq(recs, 1, k)
  <2>1. m # None /\ m \in Mark /\ OkMark(n, prior, recs, m) /\ w[y].pre = m.pre /\ m.put \subseteq w[y].put
    BY <1>3, <1>4, <1>5 DEF MarksOk
  <2>2. k \in Nat /\ m.pre.seq \in Nat
    BY <2>1, MarkIs
  <2>3. CASE ~IsOpen(m)
    <3>1. End(more, w[y]) = End(recs, m) /\ (Lives(n, w[y]) <=> Lives(n, m))
          /\ (Holds(n, more, w[y]) <=> Holds(n, recs, m))
      BY <1>4, <2>1, <2>3
    <3>2. ASSUME Holds(n, recs, m) PROVE FromPush(prior, more, w[y])
      <4>1. FromPush(prior, recs, m) /\ k < End(recs, m) /\ End(recs, m) <= Len(recs)
        BY <2>1, <3>2 DEF OkMark, FromPush, Holds
      <4>2. End(recs, m) \in Nat
        BY <2>1, <2>3, MarkIs DEF End, IsOpen
      <4>3. k \in 0 .. Len(recs) /\ SubSeq(more, 1, k) = SubSeq(recs, 1, k)
        <5>1. k \in 0 .. Len(recs)
          <6>1. k \in Nat /\ Len(recs) \in Nat /\ k < End(recs, m) /\ End(recs, m) <= Len(recs)
                /\ End(recs, m) \in Nat
            BY <1>1, <2>2, <4>1, <4>2
          <6> HIDE DEF k, m
          <6> QED
            BY <6>1
        <5> QED
          BY <1>2, <5>1
      <4>4. ASSUME NEW i \in k + 1 .. End(recs, m) PROVE more[i].id \in w[y].put \cup Indexed(front)
        <5>1. i \in 1 .. Len(recs)
          BY <1>1, <2>2, <4>1, <4>2
        <5> QED
          BY <1>1, <2>1, <4>1, <5>1 DEF FromPush
      <4>5. End(more, w[y]) <= Len(more)
        BY <1>1, <3>1, <4>1, <4>2
      <4> QED
        BY <2>1, <3>1, <4>1, <4>3, <4>4, <4>5 DEF FromPush
    <3> QED
      BY <2>1, <3>1, <3>2 DEF OkMark
  <2>4. CASE IsOpen(m)
    <3>1. /\ End(recs, m) = Len(recs) /\ End(more, w[y]) = Len(recs) + 1
          /\ (Lives(n, w[y]) <=> Lives(n, m))
      BY <1>4, <2>1, <2>4
    <3>2. ASSUME Lives(n, m) PROVE k <= Len(recs) /\ FromPush(prior, more, w[y])
      <4>1. k \in 0 .. Len(recs) /\ k <= Len(recs)
        BY <1>1, <2>1, <2>2, <3>1, <3>2 DEF OkMark
      <4>2. SubSeq(more, 1, k) = SubSeq(recs, 1, k)
        BY <1>2, <4>1
      <4>3. /\ Grounded(Bases(front))
            /\ \A i \in k + 1 .. Len(recs) : recs[i].id \in m.put \cup Indexed(front)
        <5>1. CASE k < Len(recs)
          BY <2>1, <3>1, <3>2, <5>1 DEF OkMark, Holds, FromPush
        <5>2. CASE k = Len(recs)
          <6>1. SubSeq(recs, 1, Len(recs)) = recs
            BY SubSeqFull
          <6>2. \A i \in k + 1 .. Len(recs) : FALSE
            BY <1>1, <5>2
          <6> QED
            BY <5>2, <6>1, <6>2
        <5> QED
          BY <1>1, <2>2, <4>1, <5>1, <5>2
      <4>4. Indexed(prior \o recs) \subseteq m.put \cup Indexed(front)
        <5> DEFINE put == m.put
        <5>1. \A i \in k + 1 .. Len(recs) : recs[i].id \in put \cup Indexed(prior \o SubSeq(recs, 1, k))
          BY <4>3
        <5> HIDE DEF put, k
        <5>2. Indexed(prior \o recs) \subseteq put \cup Indexed(prior \o SubSeq(recs, 1, k))
          BY <4>1, <5>1, CutTakes
        <5> QED
          BY <5>2 DEF put, k
      <4>5. r.id \in w[y].put \cup Indexed(front)
        <5>1. ids \subseteq w[y].put
          BY <2>4 DEF Ingests
        <5> QED
          BY <2>1, <4>4, <5>1
      <4>6. ASSUME NEW i \in k + 1 .. Len(recs) + 1 PROVE more[i].id \in w[y].put \cup Indexed(front)
        <5>1. CASE i = Len(recs) + 1
          <6>1. more[i] = r
            BY <1>1, <5>1
          <6> HIDE DEF front
          <6> QED
            BY <4>5, <6>1
        <5>2. CASE i # Len(recs) + 1
          <6>1. i \in k + 1 .. Len(recs) /\ i \in 1 .. Len(recs)
            BY <1>1, <2>2, <5>2
          <6> QED
            BY <1>1, <2>1, <4>3, <6>1
        <5> QED
          BY <5>1, <5>2
      <4>7. End(more, w[y]) <= Len(more)
        BY <1>1, <3>1
      <4> QED
        BY <2>1, <3>1, <4>1, <4>2, <4>3, <4>6, <4>7 DEF FromPush
    <3>3. Lives(n, m) => k <= Len(recs) + 1
      BY <1>1, <2>2, <3>2
    <3>4. Holds(n, more, w[y]) => Lives(n, m)
      BY <3>1 DEF Holds
    <3> QED
      BY <2>1, <3>1, <3>2, <3>3, <3>4 DEF OkMark
  <2> QED
    BY <2>3, <2>4
<1>6. ASSUME NEW y \in Push, NEW z \in Push, y # z, Holds(n, more, w[y]), Lives(n, w[z])
      PROVE  /\ IsOpen(w[z]) => End(more, w[y]) <= w[z].pre.len
             /\ Holds(n, more, w[z]) => End(more, w[y]) <= w[z].pre.len \/ End(more, w[z]) <= w[y].pre.len
  <2>1. w[y] # None /\ w[z] # None /\ Lives(n, w[y])
    BY <1>6 DEF Holds, Lives
  <2>2. /\ Apart(n, recs, marks[y], marks[z]) /\ Apart(n, recs, marks[z], marks[y])
        /\ ~(IsOpen(marks[y]) /\ IsOpen(marks[z]))
    BY <1>6 DEF MarksOk
  <2>3. /\ marks[y] # None /\ marks[z] # None /\ Lives(n, marks[y]) /\ Lives(n, marks[z])
        /\ w[y].pre = marks[y].pre /\ w[z].pre = marks[z].pre
        /\ ~IsOpen(marks[y]) => /\ End(more, w[y]) = End(recs, marks[y])
                                /\ Holds(n, more, w[y]) <=> Holds(n, recs, marks[y])
        /\ ~IsOpen(marks[z]) => /\ End(more, w[z]) = End(recs, marks[z])
                                /\ Holds(n, more, w[z]) <=> Holds(n, recs, marks[z])
        /\ IsOpen(w[y]) <=> IsOpen(marks[y])
        /\ IsOpen(w[z]) <=> IsOpen(marks[z])
    BY <1>4, <1>6, <2>1
  <2>4. CASE IsOpen(marks[z])
    BY <1>6, <2>2, <2>3, <2>4 DEF Apart
  <2>5. CASE ~IsOpen(marks[z]) /\ IsOpen(marks[y])
    BY <2>2, <2>3, <2>5 DEF Apart
  <2>6. CASE ~IsOpen(marks[z]) /\ ~IsOpen(marks[y])
    BY <1>6, <2>2, <2>3, <2>6 DEF Apart
  <2> QED
    BY <2>4, <2>5, <2>6
<1>7. ASSUME NEW y \in Push, NEW z \in Push, y # z PROVE Apart(n, more, w[y], w[z])
  BY <1>6, <1>7 DEF Apart
<1>8. \A y, z \in Push : IsOpen(w[y]) /\ IsOpen(w[z]) => y = z
  BY <1>4 DEF MarksOk
<1>9. MarksOk(n, prior, more, w)
  BY <1>5, <1>7, <1>8 DEF MarksOk
<1> QED
  BY <1>9 DEF more

\* The active pack is cut where a push began behind which nobody has put: what goes is
\* what it put first, and what is left can do without.
LEMMA MarksCut ==
    ASSUME NEW n \in Nat, NEW prior \in Seq(Rec), NEW recs \in Seq(Rec), NEW marks,
           MarksOk(n, prior, recs, marks), Grounded(Bases(prior \o recs)), NEW x \in Push,
           marks[x] # None, \A y \in Push : ~IsOpen(marks[y]),
           marks[x].post = [seq |-> n, len |-> Len(recs)], marks[x].pre.seq = n, NEW k,
           k = marks[x].pre.len
    PROVE  /\ k \in 0 .. Len(recs) /\ Grounded(Bases(prior \o SubSeq(recs, 1, k)))
           /\ Indexed(prior \o recs) \subseteq marks[x].put \cup Indexed(prior \o SubSeq(recs, 1, k))
           /\ MarksOk(n, prior, SubSeq(recs, 1, k), [marks EXCEPT ![x] = None])
<1> DEFINE m == marks[x]
           left == SubSeq(recs, 1, k)
<1>1. /\ Len(recs) \in Nat /\ marks \in [Push -> Mark \cup {None}] /\ m \in Mark /\ m # None
      /\ OkMark(n, prior, recs, m) /\ k \in Nat
  <2>1. marks \in [Push -> Mark \cup {None}] /\ OkMark(n, prior, recs, m)
    BY DEF MarksOk
  <2>2. m \in Mark
    BY <2>1
  <2> QED
    BY <2>1, <2>2, LenProperties, MarkIs
<1>2. /\ m.post # None /\ m.post.seq = n /\ m.post.len = Len(recs) /\ End(recs, m) = Len(recs)
      /\ Lives(n, m)
  <2>1. m.post # None
    BY <1>1 DEF IsOpen
  <2> QED
    BY <2>1, <1>1 DEF End, Lives
<1>3. k <= Len(recs) /\ k \in 0 .. Len(recs)
  BY <1>1, <1>2 DEF OkMark
<1>4. MarksOk(n, prior, recs, [marks EXCEPT ![x] = None])
  BY MarksEnd
<1>5. CASE k = Len(recs)
  <2>1. left = recs
    BY <1>5, SubSeqFull
  <2> QED
    BY <1>3, <1>4, <2>1
<1>6. CASE k # Len(recs)
  <2>1. Holds(n, recs, m) /\ FromPush(prior, recs, m)
    BY <1>1, <1>2, <1>3, <1>6 DEF Holds, OkMark
  <2>2. Grounded(Bases(prior \o left)) /\ \A i \in k + 1 .. Len(recs) : recs[i].id \in m.put \cup Indexed(prior \o left)
    BY <1>2, <2>1 DEF FromPush
  <2>3. Indexed(prior \o recs) \subseteq m.put \cup Indexed(prior \o left)
    <3> DEFINE put == m.put
    <3>1. \A i \in k + 1 .. Len(recs) : recs[i].id \in put \cup Indexed(prior \o SubSeq(recs, 1, k))
      BY <2>2
    <3> HIDE DEF put
    <3>2. Indexed(prior \o recs) \subseteq put \cup Indexed(prior \o SubSeq(recs, 1, k))
      BY <1>3, <3>1, CutTakes
    <3> QED
      BY <3>2 DEF put
  <2> DEFINE w == [marks EXCEPT ![x] = None]
  <2>4. w \in [Push -> Mark \cup {None}] /\ w[x] = None /\ \A y \in Push : y # x => w[y] = marks[y]
    BY <1>1
  <2>5. left \in Seq(Rec) /\ Len(left) = k /\ \A i \in 1 .. k : left[i] = recs[i]
    <3>1. k \in 0 .. k
      BY <1>1
    <3> QED
      BY <1>3, <3>1, FrontOfCut
  <2>6. \A j \in 0 .. k : SubSeq(left, 1, j) = SubSeq(recs, 1, j)
    BY <1>3, FrontOfCut
  <2> HIDE DEF w, left
  <2>7. ASSUME NEW y \in Push, w[y] # None
        PROVE  /\ y # x /\ w[y] = marks[y] /\ ~IsOpen(w[y]) /\ End(left, w[y]) = End(recs, w[y])
               /\ Holds(n, left, w[y]) <=> Holds(n, recs, w[y])
    <3>1. y # x /\ w[y] = marks[y] /\ ~IsOpen(w[y])
      BY <2>4, <2>7
    <3>2. End(left, w[y]) = End(recs, w[y])
      BY <2>7, <3>1 DEF End, IsOpen
    <3> QED
      BY <3>1, <3>2 DEF Holds
  <2>8. ASSUME NEW y \in Push, w[y] # None PROVE OkMark(n, prior, left, w[y])
    <3>1. OkMark(n, prior, recs, w[y]) /\ w[y] \in Mark /\ w[y].post # None
      BY <2>4, <2>7, <2>8 DEF MarksOk, IsOpen
    <3>2. End(recs, w[y]) \in Nat /\ w[y].pre.len \in Nat
      BY <3>1, MarkIs DEF End
    <3>3. ASSUME Holds(n, recs, w[y]) PROVE FromPush(prior, left, w[y])
      <4> DEFINE j == w[y].pre.len
                 e == End(recs, w[y])
      <4>1. FromPush(prior, recs, w[y]) /\ j < e /\ e <= Len(recs)
        BY <3>1, <3>3 DEF OkMark, Holds, FromPush
      <4>2. e <= k
        <5>1. Apart(n, recs, w[y], m)
          BY <2>7, <2>8 DEF MarksOk
        <5>2. e <= k \/ Len(recs) <= j
          BY <1>2, <2>1, <3>3, <5>1 DEF Apart
        <5> QED
          BY <1>1, <3>2, <4>1, <5>2
      <4>3. j \in 0 .. k /\ SubSeq(left, 1, j) = SubSeq(recs, 1, j)
        BY <1>1, <2>6, <3>2, <4>1, <4>2
      <4>4. \A i \in j + 1 .. e : i \in 1 .. k /\ left[i] = recs[i]
        BY <1>1, <2>5, <3>2, <4>2
      <4>5. End(left, w[y]) = e
        BY <2>7, <2>8
      <4> QED
        BY <2>5, <4>1, <4>2, <4>3, <4>4, <4>5 DEF FromPush
    <3> QED
      BY <2>7, <2>8, <3>1, <3>3 DEF OkMark
  <2>9. ASSUME NEW y \in Push, NEW z \in Push, y # z PROVE Apart(n, left, w[y], w[z])
    <3>1. CASE w[y] = None \/ w[z] = None
      BY <3>1 DEF Apart, Holds, Lives
    <3>2. CASE w[y] # None /\ w[z] # None
      <4>1. Apart(n, recs, w[y], w[z])
        BY <2>7, <2>9, <3>2 DEF MarksOk
      <4> QED
        BY <2>7, <3>2, <4>1 DEF Apart
    <3> QED
      BY <3>1, <3>2
  <2>10. \A y, z \in Push : IsOpen(w[y]) /\ IsOpen(w[z]) => y = z
    BY <2>7 DEF IsOpen
  <2>11. MarksOk(n, prior, left, w)
    BY <2>4, <2>8, <2>9, <2>10 DEF MarksOk
  <2> QED
    BY <1>3, <2>2, <2>3, <2>11 DEF w, left
<1> QED
  BY <1>5, <1>6

-----------------------------------------------------------------------------
(* The inductive invariant with the pushes, and what each action is of a   *)
(* store of content.                                                       *)

MarksInv == MarksOk(Len(packs), Before(packs, Len(packs) - 1), packs[Len(packs)].recs, ckpt)

\* While packs are compacted no push began in the last one; and its altidx, where it has
\* one, knows of nothing behind the place a push began at, except in the middle of a roll.
BusyInv ==
    \A x \in Push : ckpt[x] # None =>
        /\ (\E p \in Proc : step[p] \in {"compacted", "remove"}) => ckpt[x].pre.seq < Len(packs)
        /\ ckpt[x].pre.seq = Len(packs) /\ (\A p \in Proc : step[p] # "roll") =>
             packs[Len(packs)].idx = None \/ packs[Len(packs)].idx <= ckpt[x].pre.len

StoreInv == CoreInv /\ MarksInv /\ BusyInv

\* What the step is in terms of the abstract store.
Refined == [Content!Next]_<<Held, acked, Brought>>

\* What the files hold is what they tell of.
LEMMA HeldIs == ASSUME NEW files, NEW kept, GoodFiles(files, kept)
                PROVE  {c \in Chunk : \E recs \in {Records(files)} : \E bases \in {Bases(recs)} :
                            Within(bases, c, Cardinality(Chunk))} = Indexed(Records(files))
<1> DEFINE X == Records(files)
           b == Bases(X)
<1>1. X \in Seq(Rec) /\ Grounded(b) /\ Indexed(X) \subseteq Chunk
  BY NowIsGood
<1>2. BasesMap(b) /\ IndexedIn(b) = Indexed(X)
  BY <1>1, BasesAreMap
<1>3. \A c \in Chunk : Within(b, c, Cardinality(Chunk)) <=> b[c] # Missing
  BY <1>1, <1>2, ReadIsIndexed
<1> QED
  BY <1>1, <1>2, <1>3 DEF IndexedIn

LEMMA CoreIs ==
    ASSUME CoreInv
    PROVE  /\ Len(packs) \in Nat /\ Before(packs, Len(packs) - 1) \in Seq(Rec)
           /\ packs[Len(packs)].recs \in Seq(Rec)
           /\ Records(packs) = Before(packs, Len(packs) - 1) \o packs[Len(packs)].recs
           /\ Grounded(Bases(Before(packs, Len(packs) - 1) \o packs[Len(packs)].recs))
           /\ Held = Indexed(Records(packs)) /\ acked \subseteq Held
BY ActiveIs, NowIsGood, HeldIs DEF CoreInv, Held

LEMMA CoreIsThen ==
    ASSUME CoreInv'
    PROVE  Held' = Indexed(Records(packs')) /\ acked' \subseteq Held'
<1>1. GoodFiles(packs', acked')
  BY DEF CoreInv
<1> QED
  BY <1>1, NowIsGood, HeldIs DEF Held

\* What reads and writes nothing of the packs keeps the core.
LEMMA CoreSame ==
    ASSUME CoreInv, UNCHANGED <<packs, lock, view, step, acked>>
    PROVE  CoreInv' /\ HeldSame
<1>1. TypeInv' /\ ViewInv' /\ LockInv'
  BY DEF CoreInv, TypeInv, ViewInv, LockInv
<1> QED
  BY <1>1 DEF CoreInv, HeldSame

LEMMA BusySame ==
    ASSUME BusyInv, Len(packs') = Len(packs), packs'[Len(packs)].idx = packs[Len(packs)].idx,
           \A x \in Push : ckpt'[x] # None => ckpt[x] # None /\ ckpt'[x].pre = ckpt[x].pre,
           \A q \in Proc : /\ step'[q] \in {"compacted", "remove"} => step[q] \in {"compacted", "remove"}
                           /\ step[q] = "roll" => step'[q] = "roll"
    PROVE  BusyInv'
<1> SUFFICES ASSUME NEW x \in Push, ckpt'[x] # None
             PROVE  /\ (\E p \in Proc : step'[p] \in {"compacted", "remove"}) => ckpt'[x].pre.seq < Len(packs')
                    /\ ckpt'[x].pre.seq = Len(packs') /\ (\A p \in Proc : step'[p] # "roll") =>
                         packs'[Len(packs')].idx = None \/ packs'[Len(packs')].idx <= ckpt'[x].pre.len
  BY DEF BusyInv
<1>1. ckpt[x] # None /\ ckpt'[x].pre = ckpt[x].pre
  OBVIOUS
<1>2. /\ (\E p \in Proc : step[p] \in {"compacted", "remove"}) => ckpt[x].pre.seq < Len(packs)
      /\ ckpt[x].pre.seq = Len(packs) /\ (\A p \in Proc : step[p] # "roll") =>
           packs[Len(packs)].idx = None \/ packs[Len(packs)].idx <= ckpt[x].pre.len
  BY <1>1 DEF BusyInv
<1> QED
  BY <1>1, <1>2

\* A step that tells of the same is no step of the store.
LEMMA Unseen ==
    ASSUME CoreInv, CoreInv', HeldSame, ckpt' = ckpt
    PROVE  Refined
<1>1. Held' = Held /\ acked' = acked
  BY CoreIs, CoreIsThen DEF HeldSame
<1>2. Brought' = Brought
  BY DEF Brought
<1> QED
  BY <1>1, <1>2 DEF Refined

\* What leaves the files alone, and the pushes.
LEMMA QuietStep ==
    ASSUME StoreInv, CoreInv', HeldSame, packs' = packs, ckpt' = ckpt,
           \A q \in Proc : /\ step'[q] \in {"compacted", "remove"} => step[q] \in {"compacted", "remove"}
                           /\ step[q] = "roll" => step'[q] = "roll"
    PROVE  StoreInv' /\ Refined
<1>1. MarksInv'
  BY DEF StoreInv, MarksInv
<1>2. BusyInv'
  BY BusySame DEF StoreInv
<1> QED
  BY <1>1, <1>2, Unseen DEF StoreInv

\* What leaves every push behind in a pack that is no longer the last.
LEMMA GoneStep ==
    ASSUME StoreInv, CoreInv', HeldSame, ckpt' = ckpt,
           \A x \in Push : ckpt[x] # None => ckpt[x].pre.seq < Len(packs')
    PROVE  StoreInv' /\ Refined
<1>1. Len(packs) \in Nat /\ Len(packs') \in Nat
  <2>1. GoodFiles(packs', acked')
    BY DEF CoreInv
  <2>2. Len(packs') \in Nat
    BY <2>1, ActiveIs
  <2> QED
    BY <2>2, CoreIs DEF StoreInv
<1>2. MarksInv'
  BY <1>1, MarksGone DEF StoreInv, MarksInv
<1>3. \A x \in Push : ckpt[x] # None => ckpt[x].pre.seq \in Nat
  BY MarkIs DEF StoreInv, MarksInv, MarksOk
<1>4. BusyInv'
  BY <1>1, <1>3 DEF BusyInv
<1> QED
  BY <1>2, <1>4, Unseen DEF StoreInv

LEMMA RolledStep ==
    ASSUME StoreInv, CoreInv', HeldSame, ckpt' = ckpt, Len(packs') > Len(packs)
    PROVE  StoreInv' /\ Refined
<1>1. Len(packs) \in Nat /\ Len(packs') \in Nat
  <2>1. GoodFiles(packs', acked')
    BY DEF CoreInv
  <2>2. Len(packs') \in Nat
    BY <2>1, ActiveIs
  <2> QED
    BY <2>2, CoreIs DEF StoreInv
<1>2. ASSUME NEW x \in Push, ckpt[x] # None PROVE ckpt[x].pre.seq < Len(packs')
  <2>1. ckpt[x] \in Mark /\ ckpt[x].pre.seq <= Len(packs)
    BY <1>2 DEF StoreInv, MarksInv, MarksOk, OkMark
  <2> QED
    BY <1>1, <2>1, MarkIs
<1> QED
  BY <1>2, GoneStep

\* What a writer does to its place in a roll.
LEMMA StepOf ==
    ASSUME CoreInv, NEW p \in Proc, NEW to, step' = [step EXCEPT ![p] = to]
    PROVE  step'[p] = to /\ \A q \in Proc \ {p} : step'[q] = step[q]
BY DEF CoreInv, TypeInv

LEMMA SealPushes == ASSUME StoreInv, NEW p \in Proc, Seal(p) PROVE StoreInv' /\ Refined
<1>1. CoreInv' /\ HeldSame /\ SameRecs(packs', packs)
  BY SealStep DEF StoreInv
<1>2. step'[p] = "roll" /\ (\A q \in Proc \ {p} : step'[q] = step[q]) /\ ckpt' = ckpt
  BY StepOf DEF StoreInv, Seal
<1>3. MarksInv'
  BY <1>1, <1>2 DEF StoreInv, MarksInv, SameRecs
<1>4. BusyInv'
  BY <1>1, <1>2 DEF StoreInv, BusyInv, SameRecs
<1> QED
  BY <1>1, <1>2, <1>3, <1>4, Unseen DEF StoreInv

LEMMA SyncPushes == ASSUME StoreInv, NEW p \in Proc, Sync(p) PROVE StoreInv' /\ Refined
<1>1. /\ CoreInv' /\ acked \subseteq acked' /\ acked' \subseteq Indexed(Records(packs))
      /\ Indexed(Records(packs')) = Indexed(Records(packs))
      /\ SameRecs(packs', packs) /\ packs'[Len(packs)].idx = packs[Len(packs)].idx
  BY SyncStep DEF StoreInv
<1>2. step' = step /\ ckpt' = ckpt
  BY DEF Sync
<1>3. MarksInv'
  BY <1>1, <1>2 DEF StoreInv, MarksInv, SameRecs
<1>4. BusyInv'
  BY <1>1, <1>2, BusySame DEF StoreInv, SameRecs
<1>5. Held' = Held /\ acked \subseteq acked' /\ acked' \subseteq Held /\ Brought' = Brought
  BY <1>1, <1>2, CoreIs, CoreIsThen DEF StoreInv, Brought
<1>6. Refined
  BY <1>5 DEF Refined, Content!Next, Content!Flush
<1> QED
  BY <1>1, <1>3, <1>4, <1>6 DEF StoreInv

\* A record comes, and with it what a push has put, or what is there in other words.
LEMMA GrewPushes ==
    ASSUME StoreInv, CoreInv', NEW p \in Proc, Writes(p), NEW r \in Rec, Append1(p, r),
           Grew(packs', packs, r), NEW ids, r.id \in ids \cup Indexed(Records(packs)),
           ckpt' \in [Push -> Mark \cup {None}], Ingests(ckpt, ckpt', ids)
    PROVE  StoreInv'
<1>1. MarksInv'
  <2>1. MarksOk(Len(packs), Before(packs, Len(packs) - 1), Append(packs[Len(packs)].recs, r), ckpt')
    <3>1. MarksOk(Len(packs), Before(packs, Len(packs) - 1), packs[Len(packs)].recs, ckpt)
      BY DEF StoreInv, MarksInv
    <3>2. /\ Len(packs) \in Nat /\ Before(packs, Len(packs) - 1) \in Seq(Rec)
          /\ packs[Len(packs)].recs \in Seq(Rec)
          /\ Records(packs) = Before(packs, Len(packs) - 1) \o packs[Len(packs)].recs
          /\ Grounded(Bases(Before(packs, Len(packs) - 1) \o packs[Len(packs)].recs))
      BY CoreIs DEF StoreInv
    <3>3. r.id \in ids \cup Indexed(Before(packs, Len(packs) - 1) \o packs[Len(packs)].recs)
      BY <3>2
    <3> DEFINE n == Len(packs)
               prior == Before(packs, n - 1)
               recs == packs[n].recs
               marks == ckpt
               w == ckpt'
    <3>4. /\ n \in Nat /\ prior \in Seq(Rec) /\ recs \in Seq(Rec) /\ MarksOk(n, prior, recs, marks)
          /\ Grounded(Bases(prior \o recs)) /\ w \in [Push -> Mark \cup {None}]
          /\ Ingests(marks, w, ids) /\ r.id \in ids \cup Indexed(prior \o recs)
      BY <3>1, <3>2, <3>3
    <3>5. MarksOk(n, prior, Append(recs, r), w)
      <4> HIDE DEF n, prior, recs, marks, w
      <4> QED
        BY <3>4, MarksGrow
    <3> QED
      BY <3>5
  <2> QED
    BY <2>1 DEF MarksInv, Grew
<1>2. BusyInv'
  <2>1. Len(packs') = Len(packs) /\ packs'[Len(packs)].idx = packs[Len(packs)].idx
    BY DEF Grew
  <2>2. \A x \in Push : ckpt'[x] # None => ckpt[x] # None /\ ckpt'[x].pre = ckpt[x].pre
    BY DEF Ingests
  <2>3. step[p] = "ready" /\ step'[p] \in {"ready", "seal"} /\ \A q \in Proc \ {p} : step'[q] = step[q]
    <3>1. step[p] = "ready" /\ step' = [step EXCEPT ![p] = IF view[p].len + 1 >= SealAt THEN "seal" ELSE @]
      BY DEF Writes, Append1
    <3> QED
      BY <3>1 DEF StoreInv, CoreInv, TypeInv
  <2> QED
    BY <2>1, <2>2, <2>3, BusySame DEF StoreInv
<1> QED
  BY <1>1, <1>2 DEF StoreInv

LEMMA PutPushes ==
    ASSUME StoreInv, NEW p \in Proc, NEW c \in Chunk, Put(p, c)
    PROVE  StoreInv' /\ Refined
<1> DEFINE r == [id |-> c, base |-> None]
<1>1. /\ Writes(p) /\ Append1(p, r)
      /\ ckpt' = [x \in Push |-> IF Ingesting(x) THEN [ckpt[x] EXCEPT !.put = @ \cup {c}] ELSE ckpt[x]]
  BY DEF Put
<1>2. CoreInv' /\ HeldPut(c) /\ Grew(packs', packs, r)
  BY PutStep DEF StoreInv
<1>3. r \in Rec /\ r.id = c
  BY DEF Rec
<1> HIDE DEF r
<1>4. /\ ckpt \in [Push -> Mark \cup {None}]
      /\ \A x, y \in Push : IsOpen(ckpt[x]) /\ IsOpen(ckpt[y]) => x = y
  BY DEF StoreInv, MarksInv, MarksOk
<1>5. ASSUME NEW x \in Push
      PROVE  /\ Ingesting(x) <=> IsOpen(ckpt[x])
             /\ ~Ingesting(x) => ckpt'[x] = ckpt[x]
             /\ Ingesting(x) => /\ ckpt'[x] \in Mark /\ ckpt'[x] # None /\ ckpt[x] # None
                                /\ ckpt'[x].pre = ckpt[x].pre /\ ckpt'[x].post = ckpt[x].post
                                /\ ckpt'[x].put = ckpt[x].put \cup {c}
  <2>1. Ingesting(x) <=> IsOpen(ckpt[x])
    BY DEF Ingesting, IsOpen
  <2>2. ckpt'[x] = IF Ingesting(x) THEN [ckpt[x] EXCEPT !.put = @ \cup {c}] ELSE ckpt[x]
    BY <1>1
  <2>3. ASSUME Ingesting(x)
        PROVE  /\ ckpt'[x] \in Mark /\ ckpt'[x] # None /\ ckpt[x] # None
               /\ ckpt'[x].pre = ckpt[x].pre /\ ckpt'[x].post = ckpt[x].post
               /\ ckpt'[x].put = ckpt[x].put \cup {c}
    <3> DEFINE m == ckpt[x]
    <3>1. m \in Mark /\ m # None
      BY <1>4, <2>3 DEF Ingesting
    <3>2. ckpt'[x] = [m EXCEPT !.put = @ \cup {c}]
      BY <2>2, <2>3
    <3> HIDE DEF m
    <3>3. /\ ckpt'[x] \in Mark /\ ckpt'[x].pre = m.pre /\ ckpt'[x].post = m.post
          /\ ckpt'[x].put = m.put \cup {c}
      BY <3>1, <3>2, MarkChanged
    <3> QED
      BY <3>1, <3>3, MarkIs DEF m
  <2> QED
    BY <2>1, <2>2, <2>3
<1>6. ckpt' \in [Push -> Mark \cup {None}]
  <2>1. \A x \in Push : ckpt'[x] \in Mark \cup {None}
    BY <1>4, <1>5
  <2>2. ckpt' = [x \in Push |-> ckpt'[x]]
    BY <1>1
  <2> QED
    BY <2>1, <2>2
<1>7. Ingests(ckpt, ckpt', {c})
  BY <1>5 DEF Ingests
<1>8. StoreInv'
  BY <1>1, <1>2, <1>3, <1>6, <1>7, GrewPushes
<1>9. c \notin Held /\ Held' = Held \cup {c} /\ acked' = acked
  BY <1>2, CoreIs, CoreIsThen DEF StoreInv, HeldPut
<1>10. Brought' = Brought \/ \E x \in Push : Brought' = [Brought EXCEPT ![x] = @ \cup {c}]
  <2>1. CASE \A x \in Push : ~Ingesting(x)
    <3>1. \A x \in Push : ckpt'[x] = ckpt[x]
      BY <1>5, <2>1
    <3> QED
      BY <3>1 DEF Brought
  <2>2. CASE \E x \in Push : Ingesting(x)
    <3>1. PICK x \in Push : Ingesting(x)
      BY <2>2
    <3>2. \A y \in Push : y # x => ckpt'[y] = ckpt[y]
      BY <1>4, <1>5, <3>1
    <3>3. ckpt[x] # None /\ ckpt'[x] # None /\ ckpt'[x].put = ckpt[x].put \cup {c}
      BY <1>5, <3>1
    <3>4. Brought' = [Brought EXCEPT ![x] = @ \cup {c}]
      BY <3>2, <3>3 DEF Brought
    <3> QED
      BY <3>4
  <2> QED
    BY <2>1, <2>2
<1>11. Refined
  BY <1>9, <1>10 DEF Refined, Content!Next, Content!Put
<1> QED
  BY <1>8, <1>11

LEMMA ReencodePushes ==
    ASSUME StoreInv, NEW p \in Proc, NEW c \in Chunk, NEW base \in Chunk, Reencode(p, c, base)
    PROVE  StoreInv' /\ Refined
<1> DEFINE r == [id |-> c, base |-> base]
<1>1. Writes(p) /\ Append1(p, r) /\ ckpt' = ckpt
  BY DEF Reencode
<1>2. CoreInv' /\ HeldSame /\ c \in Indexed(Records(packs)) /\ Grew(packs', packs, r)
  BY ReencodeStep DEF StoreInv
<1>3. r \in Rec /\ r.id = c
  BY DEF Rec
<1> HIDE DEF r
<1>4. ckpt' \in [Push -> Mark \cup {None}]
  BY <1>1 DEF StoreInv, MarksInv, MarksOk
<1>5. Ingests(ckpt, ckpt', {})
  BY <1>1 DEF Ingests
<1>6. StoreInv'
  BY <1>1, <1>2, <1>3, <1>4, <1>5, GrewPushes
<1> QED
  BY <1>1, <1>2, <1>6, Unseen DEF StoreInv

\* Who is alone has what the files tell, and is in the middle of nothing.
LEMMA AloneIs ==
    ASSUME CoreInv, NEW p \in Proc, Alone(p)
    PROVE  /\ Active(p) = Len(packs) /\ view[p].len = Len(packs[Len(packs)].recs)
           /\ Here(p) = [seq |-> Len(packs), len |-> Len(packs[Len(packs)].recs)]
           /\ \A q \in Proc : step[q] = "ready"
<1>1. GoodFiles(packs, acked) /\ OkView(packs, view[p]) /\ ~Changed(p)
  BY DEF CoreInv, ViewInv, Alone
<1>2. Active(p) = Len(packs) /\ view[p].len = Len(packs[Len(packs)].recs)
  BY <1>1, UnchangedIs
<1>3. ASSUME NEW q \in Proc PROVE step[q] = "ready"
  <2>1. step[q] # "ready" => lock = q
    BY DEF CoreInv, LockInv
  <2>2. q # None
    BY ChunkStoreAssumption
  <2> QED
    BY <2>1, <2>2 DEF Alone
<1> QED
  BY <1>2, <1>3 DEF Here

\* A push begins: it has put nothing.
LEMMA BeginPushes ==
    ASSUME StoreInv, NEW p \in Proc, NEW x \in Push, Begin(p, x)
    PROVE  StoreInv' /\ Refined
<1> DEFINE n == Len(packs)
           recs == packs[n].recs
           m == [pre |-> Here(p), post |-> None, put |-> {}]
<1>1. /\ Alone(p) /\ (\A y \in Push : ~Ingesting(y)) /\ ckpt[x] = None
      /\ ckpt' = [ckpt EXCEPT ![x] = m] /\ UNCHANGED <<packs, lock, view, step, acked>>
  BY DEF Begin, Serves
<1>2. CoreInv' /\ HeldSame
  BY <1>1, CoreSame DEF StoreInv
<1>3. Here(p) = [seq |-> n, len |-> Len(recs)] /\ \A q \in Proc : step[q] = "ready"
  BY <1>1, AloneIs DEF StoreInv
<1>4. /\ n \in Nat /\ recs \in Seq(Rec) /\ MarksOk(n, Before(packs, n - 1), recs, ckpt)
      /\ ckpt \in [Push -> Mark \cup {None}]
  BY CoreIs DEF StoreInv, MarksInv, MarksOk
<1>5. MarksInv'
  <2>1. \A y \in Push : ~IsOpen(ckpt[y])
    BY <1>1 DEF Ingesting, IsOpen
  <2>2. m = [pre |-> [seq |-> n, len |-> Len(recs)], post |-> None, put |-> {}]
    BY <1>3
  <2>3. MarksOk(n, Before(packs, n - 1), recs, [ckpt EXCEPT ![x] = m])
    <3> DEFINE prior == Before(packs, n - 1)
    <3> HIDE DEF n, recs, m, prior
    <3> QED
      BY <1>4, <2>1, <2>2, MarksBegin DEF prior
  <2> QED
    BY <1>1, <2>3 DEF MarksInv
<1>6. ckpt'[x] = m /\ \A y \in Push : y # x => ckpt'[y] = ckpt[y]
  BY <1>1, <1>4
<1>7. BusyInv'
  <2>1. packs[n].idx = None \/ packs[n].idx <= Len(recs)
    <3>1. GoodFiles(packs, acked)
      BY DEF StoreInv, CoreInv
    <3>2. OkFile(packs[n]) /\ packs[n].synced \in Nat /\ packs[n].synced <= Len(recs) /\ Len(recs) \in Nat
      BY <3>1, ActiveIs
    <3>3. packs[n].idx = None \/ (packs[n].idx \in Int /\ packs[n].idx <= packs[n].synced)
      BY <3>2 DEF OkFile
    <3> HIDE DEF recs
    <3> QED
      BY <3>2, <3>3
  <2>2. m.pre.seq = n /\ m.pre.len = Len(recs)
    BY <1>3
  <2> HIDE DEF m
  <2>3. ASSUME NEW y \in Push, ckpt'[y] # None
        PROVE  /\ ~\E q \in Proc : step'[q] \in {"compacted", "remove"}
               /\ ckpt'[y].pre.seq = n => packs[n].idx = None \/ packs[n].idx <= ckpt'[y].pre.len
    <3>1. ~\E q \in Proc : step'[q] \in {"compacted", "remove"}
      BY <1>1, <1>3
    <3>2. CASE y = x
      BY <1>6, <2>1, <2>2, <3>1, <3>2
    <3>3. CASE y # x
      BY <1>3, <1>6, <2>3, <3>1, <3>3 DEF StoreInv, BusyInv
    <3> QED
      BY <3>2, <3>3
  <2> QED
    BY <1>1, <2>3 DEF BusyInv
<1>8. Brought' = Brought
  <2>1. m.put = {}
    OBVIOUS
  <2> HIDE DEF m
  <2>2. \A y \in Push : (IF ckpt'[y] = None THEN {} ELSE ckpt'[y].put) = (IF ckpt[y] = None THEN {} ELSE ckpt[y].put)
    BY <1>1, <1>6, <2>1
  <2> QED
    BY <2>2 DEF Brought
<1>9. Held' = Held /\ acked' = acked
  BY <1>1, <1>2, CoreIs, CoreIsThen DEF StoreInv, HeldSame
<1> QED
  BY <1>2, <1>5, <1>7, <1>8, <1>9 DEF StoreInv, Refined

LEMMA IngestedPushes ==
    ASSUME StoreInv, NEW p \in Proc, NEW x \in Push, Ingested(p, x)
    PROVE  StoreInv' /\ Refined
<1> DEFINE n == Len(packs)
           recs == packs[n].recs
           m == ckpt[x]
           here == Here(p)
<1>1. /\ Alone(p) /\ Ingesting(x) /\ ckpt' = [ckpt EXCEPT ![x].post = here]
      /\ UNCHANGED <<packs, lock, view, step, acked>>
  BY DEF Ingested
<1>2. CoreInv' /\ HeldSame
  BY <1>1, CoreSame DEF StoreInv
<1>3. here = [seq |-> n, len |-> Len(recs)]
  BY <1>1, AloneIs DEF StoreInv
<1>4. /\ n \in Nat /\ recs \in Seq(Rec) /\ MarksOk(n, Before(packs, n - 1), recs, ckpt)
      /\ ckpt \in [Push -> Mark \cup {None}]
  BY CoreIs DEF StoreInv, MarksInv, MarksOk
<1>5. MarksInv'
  <2>1. IsOpen(ckpt[x])
    BY <1>1 DEF Ingesting, IsOpen
  <2>2. MarksOk(n, Before(packs, n - 1), recs, [ckpt EXCEPT ![x].post = here])
    <3> DEFINE prior == Before(packs, n - 1)
    <3> HIDE DEF n, recs, here, prior
    <3> QED
      BY <1>3, <1>4, <2>1, MarksIngested DEF prior
  <2> QED
    BY <1>1, <2>2 DEF MarksInv
<1>6. /\ ckpt'[x] # None /\ m # None /\ ckpt'[x].pre = m.pre /\ ckpt'[x].put = m.put
      /\ \A y \in Push : y # x => ckpt'[y] = ckpt[y]
  <2>1. ckpt'[x] = [m EXCEPT !.post = here] /\ \A y \in Push : y # x => ckpt'[y] = ckpt[y]
    BY <1>1, <1>4
  <2>2. m \in Mark /\ m # None
    BY <1>1, <1>4 DEF Ingesting
  <2>3. here \in Cursor
    <3>1. Len(recs) \in Nat
      BY <1>4, LenProperties
    <3> QED
      BY <1>3, <1>4, <3>1 DEF Cursor
  <2> HIDE DEF m, here
  <2>4. ckpt'[x] \in Mark /\ ckpt'[x].pre = m.pre /\ ckpt'[x].put = m.put
    BY <2>1, <2>2, <2>3, MarkChanged
  <2> QED
    BY <2>1, <2>2, <2>4, MarkIs
<1>7. BusyInv'
  <2>1. \A y \in Push : ckpt'[y] # None => ckpt[y] # None /\ ckpt'[y].pre = ckpt[y].pre
    BY <1>6
  <2> QED
    BY <1>1, <2>1, BusySame DEF StoreInv
<1>8. Brought' = Brought
  <2>1. \A y \in Push : (IF ckpt'[y] = None THEN {} ELSE ckpt'[y].put) = (IF ckpt[y] = None THEN {} ELSE ckpt[y].put)
    BY <1>6
  <2> QED
    BY <2>1 DEF Brought
<1>9. Held' = Held /\ acked' = acked
  BY <1>1, <1>2, CoreIs, CoreIsThen DEF StoreInv, HeldSame
<1> QED
  BY <1>2, <1>5, <1>7, <1>8, <1>9 DEF StoreInv, Refined

LEMMA EndsPushes ==
    ASSUME StoreInv, NEW x \in Push, Ends(x)
    PROVE  StoreInv' /\ Refined
<1>1. ckpt' = [ckpt EXCEPT ![x] = None] /\ UNCHANGED <<packs, lock, view, step, acked>>
  BY DEF Ends
<1>2. CoreInv' /\ HeldSame
  BY <1>1, CoreSame DEF StoreInv
<1>3. MarksInv' /\ ckpt \in [Push -> Mark \cup {None}]
  <2>1. MarksOk(Len(packs), Before(packs, Len(packs) - 1), packs[Len(packs)].recs, ckpt)
    BY DEF StoreInv, MarksInv
  <2>2. MarksOk(Len(packs), Before(packs, Len(packs) - 1), packs[Len(packs)].recs,
                [ckpt EXCEPT ![x] = None])
    BY <2>1, MarksEnd
  <2> QED
    BY <1>1, <2>1, <2>2 DEF MarksInv, MarksOk
<1>4. ckpt'[x] = None /\ \A y \in Push : y # x => ckpt'[y] = ckpt[y]
  BY <1>1, <1>3
<1>5. BusyInv'
  <2>1. \A y \in Push : ckpt'[y] # None => ckpt[y] # None /\ ckpt'[y].pre = ckpt[y].pre
    BY <1>4
  <2> QED
    BY <1>1, <2>1, BusySame DEF StoreInv
<1>6. Brought' = [Brought EXCEPT ![x] = {}]
  BY <1>4 DEF Brought
<1>7. Held' = Held /\ acked' = acked
  BY <1>1, <1>2, CoreIs, CoreIsThen DEF StoreInv, HeldSame
<1>8. Refined
  BY <1>6, <1>7 DEF Refined, Content!Next, Content!End
<1> QED
  BY <1>2, <1>3, <1>5, <1>8 DEF StoreInv

\* The rewind of a push takes what it put first, and nothing else.
LEMMA RewindPushes ==
    ASSUME StoreInv, NEW p \in Proc, NEW x \in Push, Rewind(p, x)
    PROVE  StoreInv' /\ Refined
<1> DEFINE n == Len(packs)
           prior == Before(packs, n - 1)
           recs == packs[n].recs
           k == ckpt[x].pre.len
<1>1. /\ Alone(p) /\ (\A y \in Push : ~Ingesting(y)) /\ ckpt[x] # None /\ ckpt[x].post = Here(p)
      /\ ckpt[x].pre.seq = Active(p) /\ ckpt' = [ckpt EXCEPT ![x] = None] /\ step' = step
  BY DEF Rewind, Serves, Unmoved
<1>2. /\ Active(p) = n /\ Here(p) = [seq |-> n, len |-> Len(recs)]
      /\ \A q \in Proc : step[q] = "ready"
  BY <1>1, AloneIs DEF StoreInv
<1>3. /\ n \in Nat /\ prior \in Seq(Rec) /\ recs \in Seq(Rec) /\ Records(packs) = prior \o recs
      /\ Grounded(Bases(prior \o recs)) /\ MarksOk(n, prior, recs, ckpt)
      /\ ckpt \in [Push -> Mark \cup {None}]
  BY CoreIs DEF StoreInv, MarksInv, MarksOk
<1>4. /\ k \in 0 .. Len(recs) /\ Grounded(Bases(prior \o SubSeq(recs, 1, k)))
      /\ Indexed(prior \o recs) \subseteq ckpt[x].put \cup Indexed(prior \o SubSeq(recs, 1, k))
      /\ MarksOk(n, prior, SubSeq(recs, 1, k), [ckpt EXCEPT ![x] = None])
  <2>1. \A y \in Push : ~IsOpen(ckpt[y])
    BY <1>1 DEF Ingesting, IsOpen
  <2>2. ckpt[x].post = [seq |-> n, len |-> Len(recs)] /\ ckpt[x].pre.seq = n
    BY <1>1, <1>2
  <2> HIDE DEF n, prior, recs
  <2> QED
    BY <1>1, <1>3, <2>1, <2>2, MarksCut
<1>5. packs[n].idx = None \/ packs[n].idx <= k
  BY <1>1, <1>2 DEF StoreInv, BusyInv
<1>6. /\ CoreInv' /\ acked' = acked \cap Indexed(Records(packs'))
      /\ Indexed(Records(packs')) \subseteq Indexed(Records(packs))
      /\ CutTo(packs', packs, k)
  <2>1. Grounded(CutBases(packs, k))
    BY <1>4 DEF CutBases
  <2> QED
    BY <1>4, <1>5, <2>1, RewindStep DEF StoreInv
<1>7. MarksInv'
  BY <1>1, <1>4, <1>6 DEF MarksInv, CutTo
<1>8. ckpt'[x] = None /\ \A y \in Push : y # x => ckpt'[y] = ckpt[y]
  BY <1>1, <1>3
<1>9. BusyInv'
  <2>1. \A y \in Push : ckpt'[y] # None => ckpt[y] # None /\ ckpt'[y].pre = ckpt[y].pre
    BY <1>8
  <2>2. Len(packs') = n /\ packs'[n].idx = packs[n].idx
    BY <1>6 DEF CutTo
  <2> QED
    BY <1>1, <2>1, <2>2, BusySame DEF StoreInv
<1>10. Held' \subseteq Held /\ Held \ Held' \subseteq Brought[x] /\ acked' = acked \cap Held'
  <2>1. Held = Indexed(Records(packs)) /\ Held' = Indexed(Records(packs'))
    BY <1>6, CoreIs, CoreIsThen DEF StoreInv
  <2>2. Records(packs') = prior \o SubSeq(recs, 1, k)
    <3>1. GoodFiles(packs', acked')
      BY <1>6 DEF CoreInv
    <3>2. Records(packs') = Before(packs', Len(packs') - 1) \o packs'[Len(packs')].recs
      BY <3>1, ActiveIs
    <3> QED
      BY <1>6, <3>2 DEF CutTo
  <2>3. Brought[x] = ckpt[x].put
    BY <1>1 DEF Brought
  <2> QED
    BY <1>3, <1>4, <1>6, <2>1, <2>2, <2>3
<1>11. Brought' = [Brought EXCEPT ![x] = {}]
  BY <1>8 DEF Brought
<1>12. Refined
  BY <1>10, <1>11 DEF Refined, Content!Next, Content!TakeBack
<1> QED
  BY <1>6, <1>7, <1>9, <1>12 DEF StoreInv

\* A crash ends every push.
LEMMA CrashPushes ==
    ASSUME StoreInv, CoreInv', ckpt' = NoPush, acked' = acked,
           Indexed(Records(packs')) \subseteq Indexed(Records(packs))
    PROVE  StoreInv' /\ Refined
<1>1. \A x \in Push : ckpt'[x] = None
  BY DEF NoPush
<1>2. MarksInv'
  <2>1. ckpt' \in [Push -> Mark \cup {None}]
    BY DEF NoPush
  <2> QED
    BY <1>1, <2>1 DEF MarksInv, MarksOk, Apart, Holds, Lives, IsOpen
<1>3. BusyInv'
  BY <1>1 DEF BusyInv
<1>4. Held' \subseteq Held /\ acked \subseteq Held'
  BY CoreIs, CoreIsThen DEF StoreInv
<1>5. Brought' = Content!NoneBrought
  BY <1>1 DEF Brought, Content!NoneBrought
<1>6. Refined
  BY <1>4, <1>5 DEF Refined, Content!Next, Content!Crash
<1> QED
  BY <1>2, <1>3, <1>6 DEF StoreInv

-----------------------------------------------------------------------------
(* What always holds.                                                      *)

LEMMA InitStore == Init => StoreInv /\ Content!Init
<1> SUFFICES ASSUME Init PROVE StoreInv /\ Content!Init
  OBVIOUS
<1>1. CoreInv /\ ckpt = NoPush /\ acked = {}
  BY InitCore DEF Init
<1>2. \A x \in Push : ckpt[x] = None
  BY <1>1 DEF NoPush
<1>3. MarksInv
  <2>1. ckpt \in [Push -> Mark \cup {None}]
    BY <1>1 DEF NoPush
  <2> QED
    BY <1>2, <2>1 DEF MarksInv, MarksOk, Apart, Holds, Lives, IsOpen
<1>4. BusyInv
  BY <1>2 DEF BusyInv
<1>5. Brought = Content!NoneBrought
  BY <1>2 DEF Brought, Content!NoneBrought
<1>6. Held = {}
  <2>1. GoodFiles(packs, acked) /\ Held = Indexed(Records(packs))
    BY <1>1, CoreIs DEF CoreInv
  <2>2. Len(packs) = 1 /\ packs[1].recs = <<>>
    BY DEF Init, NewPack
  <2>3. OkFiles(packs) /\ Before(packs, 0) = <<>>
    <3>1. OkFiles(packs) /\ 0 \in 0 .. Len(packs)
      BY <2>1, <2>2 DEF GoodFiles
    <3> QED
      BY <3>1, BeforeIs
  <2>4. Records(packs) = <<>> \o <<>>
    <3>1. Records(packs) = Before(packs, Len(packs) - 1) \o packs[Len(packs)].recs
      BY <2>3, RecordsIs
    <3>2. Len(packs) - 1 = 0
      BY <2>2
    <3> QED
      BY <2>2, <2>3, <3>1, <3>2
  <2>5. <<>> \o <<>> = <<>> /\ Indexed(<<>>) = {}
    BY DEF Indexed
  <2> QED
    BY <2>1, <2>4, <2>5
<1> QED
  BY <1>1, <1>3, <1>4, <1>5, <1>6 DEF StoreInv, Content!Init

LEMMA NextStep == ASSUME StoreInv, [Next]_vars PROVE StoreInv' /\ Refined
<1>1. CASE UNCHANGED vars
  <2>1. CoreInv' /\ HeldSame /\ packs' = packs /\ ckpt' = ckpt /\ step' = step
    BY <1>1, CoreSame DEF StoreInv, vars
  <2> QED
    BY <2>1, QuietStep
<1>2. CASE PowerFails
  <2>1. CoreInv' /\ acked' = acked /\ Indexed(Records(packs')) \subseteq Indexed(Records(packs))
    BY <1>2, PowerStep DEF StoreInv
  <2>2. ckpt' = NoPush
    BY <1>2 DEF PowerFails
  <2> QED
    BY <2>1, <2>2, CrashPushes
<1>3. CASE \E x \in Push : Ends(x)
  BY <1>3, EndsPushes
<1>4. CASE \E p \in Proc : Step(p)
  <2> PICK p \in Proc : Step(p)
    BY <1>4
  <2>1. CASE Open(p) \/ Acquire(p)
    <3>1. CoreInv' /\ HeldSame
      BY <2>1, OpenStep, AcquireStep DEF StoreInv
    <3>2. packs' = packs /\ ckpt' = ckpt /\ step' = step
      BY <2>1 DEF Open, Acquire
    <3> QED
      BY <3>1, <3>2, QuietStep
  <2>2. CASE Flush(p)
    <3>1. CoreInv' /\ HeldSame
      BY <2>2, FlushStep DEF StoreInv
    <3>2. packs' = packs /\ ckpt' = ckpt /\ step' = step
      BY <2>2 DEF Flush
    <3> QED
      BY <3>1, <3>2, QuietStep
  <2>3. CASE CompactDone(p)
    <3>1. CoreInv' /\ HeldSame
      BY <2>3, CompactDoneStep DEF StoreInv
    <3>2. /\ packs' = packs /\ ckpt' = ckpt /\ step[p] = "remove" /\ step'[p] = "ready"
          /\ \A q \in Proc \ {p} : step'[q] = step[q]
      BY <2>3, StepOf DEF CompactDone, StoreInv
    <3> QED
      BY <3>1, <3>2, QuietStep
  <2>4. CASE Roll(p) \/ CompactWrite(p) \/ CompactRoll(p)
    <3>1. CoreInv' /\ HeldSame /\ Len(packs') > Len(packs)
      BY <2>4, RollStep, CompactWriteStep, CompactRollStep DEF StoreInv
    <3>2. ckpt' = ckpt
      BY <2>4 DEF Roll, CompactWrite, CompactRoll
    <3> QED
      BY <3>1, <3>2, RolledStep
  <2>5. CASE CompactRemove(p)
    <3>1. CoreInv' /\ HeldSame /\ Len(packs') = Len(packs)
      BY <2>5, CompactRemoveStep DEF StoreInv
    <3>2. ckpt' = ckpt /\ step[p] = "remove"
      BY <2>5 DEF CompactRemove
    <3>3. \A x \in Push : ckpt[x] # None => ckpt[x].pre.seq < Len(packs')
      BY <3>1, <3>2 DEF StoreInv, BusyInv
    <3> QED
      BY <3>1, <3>2, <3>3, GoneStep
  <2>6. CASE Seal(p)
    BY <2>6, SealPushes
  <2>7. CASE Sync(p)
    BY <2>7, SyncPushes
  <2>8. CASE Die(p)
    <3>1. CoreInv' /\ HeldSame
      BY <2>8, DieStep DEF StoreInv
    <3>2. ckpt' = NoPush
      BY <2>8 DEF Die
    <3> QED
      BY <3>1, <3>2, CrashPushes DEF HeldSame
  <2>9. CASE \E x \in Push : Begin(p, x) \/ Ingested(p, x) \/ Rewind(p, x)
    BY <2>9, BeginPushes, IngestedPushes, RewindPushes
  <2>10. CASE \E c \in Chunk : Put(p, c) \/ \E base \in Chunk : Reencode(p, c, base)
    BY <2>10, PutPushes, ReencodePushes
  <2> QED
    BY <2>1, <2>2, <2>3, <2>4, <2>5, <2>6, <2>7, <2>8, <2>9, <2>10 DEF Step
<1> QED
  BY <1>1, <1>2, <1>3, <1>4 DEF Next

\* The inductive invariant of the chunk store: what memory and files tell of is grounded,
\* what was answered for is on the device or was taken back, and between the cursors of a
\* push is nothing but what it put first, whoever ingested, flushed and rewound besides
\* (cursor, rewind, flush).
THEOREM StoreAlways == Spec => []StoreInv
<1>1. Init => StoreInv
  BY InitStore
<1>2. StoreInv /\ [Next]_vars => StoreInv'
  BY NextStep
<1> QED
  BY <1>1, <1>2, PTL DEF Spec

\* Whatever a process has indexed can be read, for any writers, chunks and thresholds
\* (resolve, load).
THEOREM IndexedAlwaysResolves == Spec => []IndexedResolves
<1>1. StoreInv => IndexedResolves
  <2> SUFFICES ASSUME StoreInv, NEW p \in Proc, view[p] # None
               PROVE  Indexed(view[p].live) \subseteq Resolved(view[p].live)
    BY DEF IndexedResolves
  <2> DEFINE live == view[p].live
             b == Bases(live)
  <2>1. live \in Seq(Rec) /\ Grounded(b)
    BY DEF StoreInv, CoreInv, ViewInv, OkView, View
  <2>2. BasesMap(b) /\ IndexedIn(b) = Indexed(live) /\ Indexed(live) \subseteq Chunk
    BY <2>1, BasesAreMap
  <2>3. \A c \in Chunk : Within(b, c, Cardinality(Chunk)) <=> b[c] # Missing
    BY <2>1, <2>2, ReadIsIndexed
  <2> QED
    BY <2>2, <2>3 DEF Resolved, IndexedIn
<1> QED
  BY <1>1, StoreAlways, PTL

\* The packs implement a store of content: of all the steps of a batch, a roll, a
\* re-encoding and a compaction only a put adds; only the rewind of a push takes, and only
\* what that push put first; and what a flush reported is otherwise never taken, whatever
\* the power does (put, flush, compact, rewind).
THEOREM StoreRefines == Spec => ImplementsContentStore
<1>1. Init => Content!Init
  BY InitStore
<1>2. StoreInv /\ [Next]_vars => [Content!Next]_<<Held, acked, Brought>>
  BY NextStep DEF Refined
<1> QED
  BY <1>1, <1>2, StoreAlways, PTL DEF Spec, ImplementsContentStore, Content!Spec, Content!vars
=============================================================================
