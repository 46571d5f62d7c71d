------------------------------ MODULE ListsProofs ------------------------------
(***************************************************************************)
(* Facts about Kept, for lists of any length: its elements are those at    *)
(* the positions that are kept, each once and in the same order.           *)
(***************************************************************************)
EXTENDS Lists, SequenceTheorems, FiniteSetTheorems, TLAPS

\* Every non-empty set of naturals has a least member: what stands for induction here.
LEMMA LeastNat ==
  ASSUME NEW T \in SUBSET Nat, T # {}
  PROVE  \E x \in T : \A y \in T : x <= y
<1>1. IsWellFoundedOn(OpToRel(<, Nat), Nat)
  BY NatLessThanWellFounded
<1>2. PICK x \in T : \A y \in T : ~ (<<y, x>> \in OpToRel(<, Nat))
  BY <1>1, WFMin
<1>3. \A y \in T : ~ (y < x)
  BY <1>2 DEF OpToRel
<1>4. QED
  BY <1>3

\* And finitely many naturals a greatest one: that with the fewest above it.
LEMMA GreatestOf ==
  ASSUME NEW D, IsFiniteSet(D), D # {}, NEW f, \A p \in D : f[p] \in Nat
  PROVE  \E p \in D : \A q \in D : f[q] <= f[p]
<1> DEFINE above(p) == {q \in D : f[p] < f[q]}
           T == {n \in Nat : \E p \in D : n = Cardinality(above(p))}
<1>1. \A p \in D : above(p) \in SUBSET D /\ IsFiniteSet(above(p)) /\ Cardinality(above(p)) \in Nat
  BY FS_Subset, FS_CardinalityType
<1>2. T # {}
  BY <1>1
<1>3. PICK n \in T : \A m \in T : n <= m
  BY <1>2, LeastNat
<1>4. PICK p \in D : n = Cardinality(above(p))
  OBVIOUS
<1>5. ASSUME NEW q \in D, f[p] < f[q] PROVE FALSE
  <2>1. above(q) \in SUBSET above(p)
    BY <1>5
  <2>2. q \in above(p) /\ q \notin above(q)
    BY <1>5
  <2>3. above(q) # above(p)
    BY <2>2
  <2> HIDE DEF above
  <2>4. Cardinality(above(q)) <= Cardinality(above(p)) /\ Cardinality(above(q)) # Cardinality(above(p))
    BY <1>1, <2>1, <2>3, FS_Subset
  <2>5. Cardinality(above(q)) \in T
    BY <1>1
  <2> QED
    BY <1>1, <1>3, <1>4, <2>4, <2>5
<1> QED
  BY <1>5

-----------------------------------------------------------------------------
(***************************************************************************)
(* Counting the members of a set of positions.                             *)
(***************************************************************************)
LEMMA PositionsFinite ==
  ASSUME NEW n \in Nat, NEW I \in SUBSET (1 .. n)
  PROVE  IsFiniteSet(I) /\ Cardinality(I) \in 0 .. n
<1>1. IsFiniteSet(1 .. n) /\ Cardinality(1 .. n) = n
  BY FS_Interval
<1>2. IsFiniteSet(I) /\ Cardinality(I) <= n
  BY <1>1, FS_Subset
<1>3. QED
  BY <1>2, FS_CardinalityType

LEMMA CountGrows ==
  ASSUME NEW n \in Nat, NEW I \in SUBSET (1 .. n), NEW i \in Int, NEW j \in Int, i <= j
  PROVE  /\ Cardinality(UpTo(I, i)) \in 0 .. n /\ Cardinality(UpTo(I, j)) \in 0 .. n
         /\ Cardinality(UpTo(I, i)) <= Cardinality(UpTo(I, j))
         /\ i < j /\ j \in I => Cardinality(UpTo(I, i)) < Cardinality(UpTo(I, j))
<1>0. \A x \in I : x \in Int /\ 1 <= x /\ x <= n
  OBVIOUS
<1>1. UpTo(I, i) \in SUBSET (1 .. n) /\ UpTo(I, j) \in SUBSET (1 .. n)
  BY DEF UpTo
<1>2. IsFiniteSet(UpTo(I, i)) /\ IsFiniteSet(UpTo(I, j))
  BY <1>1, PositionsFinite
<1>3. Cardinality(UpTo(I, i)) \in 0 .. n /\ Cardinality(UpTo(I, j)) \in 0 .. n
  BY <1>1, PositionsFinite
<1>4. UpTo(I, i) \in SUBSET UpTo(I, j)
  <2>1. \A x \in I : x <= i => x <= j
    BY <1>0
  <2>2. QED
    BY <2>1 DEF UpTo
<1>5. /\ Cardinality(UpTo(I, i)) <= Cardinality(UpTo(I, j))
      /\ Cardinality(UpTo(I, j)) = Cardinality(UpTo(I, i)) => UpTo(I, i) = UpTo(I, j)
  BY <1>2, <1>4, FS_Subset
<1>6. i < j /\ j \in I => UpTo(I, i) # UpTo(I, j)
  <2>1. i < j /\ j \in I => j \in UpTo(I, j) /\ j \notin UpTo(I, i)
    BY DEF UpTo
  <2>2. QED
    BY <2>1
<1>7. QED
  BY <1>3, <1>5, <1>6

LEMMA CountStep ==
  ASSUME NEW n \in Nat, NEW I \in SUBSET (1 .. n), NEW i \in Nat
  PROVE  /\ Cardinality(UpTo(I, i + 1)) <= Cardinality(UpTo(I, i)) + 1
         /\ i + 1 \notin I => Cardinality(UpTo(I, i + 1)) = Cardinality(UpTo(I, i))
<1>0. \A x \in I : x \in Int /\ 1 <= x /\ x <= n
  OBVIOUS
<1>1. UpTo(I, i) \in SUBSET (1 .. n)
  BY DEF UpTo
<1>2. IsFiniteSet(UpTo(I, i)) /\ Cardinality(UpTo(I, i)) \in 0 .. n
  BY <1>1, PositionsFinite
<1>3. CASE i + 1 \in I
  <2>1. UpTo(I, i + 1) = UpTo(I, i) \cup {i + 1}
    <3>1. \A x \in I : x <= i + 1 <=> x <= i \/ x = i + 1
      BY <1>0
    <3>2. QED
      BY <1>3, <3>1 DEF UpTo
  <2>2. i + 1 \notin UpTo(I, i)
    BY DEF UpTo
  <2>3. Cardinality(UpTo(I, i) \cup {i + 1}) = Cardinality(UpTo(I, i)) + 1
    BY <1>2, <2>2, FS_AddElement
  <2>4. QED
    BY <1>2, <1>3, <2>1, <2>3
<1>4. CASE i + 1 \notin I
  <2>1. UpTo(I, i + 1) = UpTo(I, i)
    <3>1. \A x \in I : x <= i + 1 <=> x <= i
      BY <1>0, <1>4
    <3>2. QED
      BY <3>1 DEF UpTo
  <2>2. QED
    BY <1>2, <2>1
<1>5. QED
  BY <1>3, <1>4

\* There is a k-th of them for each k up to their number.
LEMMA NthIs ==
  ASSUME NEW n \in Nat, NEW I \in SUBSET (1 .. n), NEW k \in 1 .. Cardinality(I)
  PROVE  Nth(I, k) \in I /\ Cardinality(UpTo(I, Nth(I, k))) = k
<1> DEFINE count(i) == Cardinality(UpTo(I, i))
           T == {i \in Nat : k <= count(i)}
<1>0. \A x \in I : x \in Int /\ 1 <= x /\ x <= n
  OBVIOUS
<1>1. Cardinality(I) \in 0 .. n
  BY PositionsFinite
<1>2. n \in T
  <2>1. UpTo(I, n) = I
    <3>1. \A x \in I : x <= n
      BY <1>0
    <3>2. QED
      BY <3>1 DEF UpTo
  <2>2. QED
    BY <1>1, <2>1
<1>3. PICK m \in T : \A i \in T : m <= i
  BY <1>2, LeastNat
<1>4. count(0) = 0
  <2>1. UpTo(I, 0) = {}
    <3>1. \A x \in I : ~ (x <= 0)
      BY <1>0
    <3>2. QED
      BY <3>1 DEF UpTo
  <2>2. QED
    BY <2>1, FS_EmptySet
<1>5. m \in Nat /\ m # 0 /\ k <= count(m) /\ k \in Int
  BY <1>1, <1>3, <1>4
<1>6. m - 1 \in Nat /\ ~ (k <= count(m - 1))
  <2>1. m - 1 \in Nat /\ ~ (m <= m - 1)
    BY <1>5
  <2>2. m - 1 \notin T
    BY <1>3, <2>1
  <2>3. QED
    BY <2>1, <2>2
<1>7. count(m) \in Nat /\ count(m - 1) \in Nat
  BY <1>5, <1>6, CountGrows
<1>8. count(m) <= count(m - 1) + 1 /\ (m \notin I => count(m) = count(m - 1))
  <2>1. (m - 1) + 1 = m
    BY <1>5
  <2>2. QED
    BY <1>6, <2>1, CountStep
<1>9. m \in I /\ count(m) = k
  BY <1>5, <1>6, <1>7, <1>8
<1>10. QED
  BY <1>9 DEF Nth

\* They come in their order, and every one of them comes.
LEMMA NthInOrder ==
  ASSUME NEW n \in Nat, NEW I \in SUBSET (1 .. n),
         NEW k \in 1 .. Cardinality(I), NEW l \in 1 .. Cardinality(I), k < l
  PROVE  Nth(I, k) < Nth(I, l)
<1> DEFINE i == Nth(I, k)
           j == Nth(I, l)
<1>0. \A x \in I : x \in Int /\ 1 <= x /\ x <= n
  OBVIOUS
<1>1. i \in I /\ j \in I /\ Cardinality(UpTo(I, i)) = k /\ Cardinality(UpTo(I, j)) = l
  BY NthIs
<1>2. i \in Int /\ j \in Int
  BY <1>0, <1>1
<1>3. Cardinality(I) \in 0 .. n
  BY PositionsFinite
<1> HIDE DEF i, j
<1>4. j <= i => Cardinality(UpTo(I, j)) <= Cardinality(UpTo(I, i))
  BY <1>2, CountGrows
<1>5. i < j
  BY <1>1, <1>2, <1>3, <1>4
<1>6. QED
  BY <1>5 DEF i, j

LEMMA NthOnto ==
  ASSUME NEW n \in Nat, NEW I \in SUBSET (1 .. n), NEW i \in I
  PROVE  \E k \in 1 .. Cardinality(I) : Nth(I, k) = i
<1> DEFINE k == Cardinality(UpTo(I, i))
           j == Nth(I, k)
<1>0. \A x \in I : x \in Int /\ 1 <= x /\ x <= n
  OBVIOUS
<1>1. UpTo(I, i) \in SUBSET I /\ i \in UpTo(I, i)
  BY DEF UpTo
<1>2. IsFiniteSet(I) /\ Cardinality(I) \in 0 .. n
  BY PositionsFinite
<1>3. IsFiniteSet(UpTo(I, i)) /\ k <= Cardinality(I)
  BY <1>1, <1>2, FS_Subset
<1>4. k \in Nat /\ k # 0
  BY <1>1, <1>3, FS_CardinalityType, FS_EmptySet
<1>5. k \in 1 .. Cardinality(I)
  BY <1>2, <1>3, <1>4
<1>6. j \in I /\ Cardinality(UpTo(I, j)) = k
  BY <1>5, NthIs
<1>7. i \in Int /\ j \in Int
  BY <1>0, <1>6
<1>8. ~ (i < j)
  BY <1>6, <1>7, CountGrows, <1>4
<1>9. ~ (j < i)
  BY <1>6, <1>7, CountGrows, <1>4
<1>10. i = j
  BY <1>7, <1>8, <1>9
<1>11. QED
  BY <1>5, <1>10

-----------------------------------------------------------------------------
(***************************************************************************)
(* Kept.                                                                   *)
(***************************************************************************)
LEMMA KeptIs ==
  ASSUME NEW T, NEW s \in Seq(T), NEW I \in SUBSET DOMAIN s
  PROVE  /\ Kept(s, I) \in Seq(T) /\ Len(Kept(s, I)) = Cardinality(I)
         /\ Len(Kept(s, I)) <= Len(s)
         /\ DOMAIN Kept(s, I) = 1 .. Cardinality(I)
         /\ \A k \in DOMAIN Kept(s, I) : Nth(I, k) \in I /\ Kept(s, I)[k] = s[Nth(I, k)]
<1>1. Len(s) \in Nat /\ I \in SUBSET (1 .. Len(s))
  OBVIOUS
<1>2. Cardinality(I) \in 0 .. Len(s)
  BY <1>1, PositionsFinite
<1>3. \A k \in 1 .. Cardinality(I) : Nth(I, k) \in I
  BY <1>1, NthIs
<1>4. Kept(s, I) \in [1 .. Cardinality(I) -> T]
  BY <1>3 DEF Kept
<1>5. Kept(s, I) \in Seq(T) /\ Len(Kept(s, I)) = Cardinality(I)
  BY <1>2, <1>4
<1>6. QED
  BY <1>2, <1>3, <1>5 DEF Kept

\* What comes before what is as it was.
LEMMA KeptInOrder ==
  ASSUME NEW T, NEW s \in Seq(T), NEW I \in SUBSET DOMAIN s,
         NEW k \in DOMAIN Kept(s, I), NEW l \in DOMAIN Kept(s, I)
  PROVE  /\ k < l => Nth(I, k) < Nth(I, l)
         /\ Nth(I, k) = Nth(I, l) => k = l
<1>1. Len(s) \in Nat /\ I \in SUBSET (1 .. Len(s))
  OBVIOUS
<1>2. k \in 1 .. Cardinality(I) /\ l \in 1 .. Cardinality(I)
  BY KeptIs
<1>3. Cardinality(I) \in 0 .. Len(s)
  BY <1>1, PositionsFinite
<1>4. k < l => Nth(I, k) < Nth(I, l)
  BY <1>1, <1>2, NthInOrder
<1>5. l < k => Nth(I, l) < Nth(I, k)
  BY <1>1, <1>2, NthInOrder
<1>6. Nth(I, k) \in Int /\ Nth(I, l) \in Int
  <2>1. \A x \in I : x \in Int
    BY <1>1
  <2>2. Nth(I, k) \in I /\ Nth(I, l) \in I
    BY <1>1, <1>2, NthIs
  <2>3. QED
    BY <2>1, <2>2
<1>7. QED
  BY <1>2, <1>3, <1>4, <1>5, <1>6

\* Nothing that is to be kept is lost.
LEMMA KeptAll ==
  ASSUME NEW T, NEW s \in Seq(T), NEW I \in SUBSET DOMAIN s, NEW i \in I
  PROVE  \E k \in DOMAIN Kept(s, I) : Nth(I, k) = i /\ Kept(s, I)[k] = s[i]
<1>1. Len(s) \in Nat /\ I \in SUBSET (1 .. Len(s))
  OBVIOUS
<1>2. PICK k \in 1 .. Cardinality(I) : Nth(I, k) = i
  BY <1>1, NthOnto
<1>3. k \in DOMAIN Kept(s, I) /\ Kept(s, I)[k] = s[i]
  BY <1>2, KeptIs
<1>4. QED
  BY <1>2, <1>3
================================================================================
