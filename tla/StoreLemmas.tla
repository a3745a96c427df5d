---------------------------- MODULE StoreLemmas ----------------------------
(***************************************************************************)
(* What the proofs about the drivers and the recorder use of queues in     *)
(* which nothing is twice, of the newest members of a finite set of        *)
(* numbers, and of the lowest member of any set of them.                   *)
(***************************************************************************)
EXTENDS Naturals, Sequences, FiniteSets, SequenceTheorems, FiniteSetTheorems,
        WellFoundedInduction, TLAPS

-----------------------------------------------------------------------------
(* Queues *)

Elems(q) == {q[i] : i \in 1..Len(q)}
Distinct(q) == \A i, j \in 1..Len(q) : q[i] = q[j] => i = j

LEMMA PushProperties ==
    ASSUME NEW S, NEW q \in Seq(S), NEW s \in S \ Elems(q), Distinct(q)
    PROVE  /\ Append(q, s) \in Seq(S) /\ Distinct(Append(q, s))
           /\ Elems(Append(q, s)) = Elems(q) \cup {s}
  <1> DEFINE p == Append(q, s)
  <1>1. /\ p \in Seq(S) /\ Len(p) = Len(q) + 1 /\ Len(q) \in Nat
        /\ \A i \in 1..Len(q) : p[i] = q[i]
        /\ p[Len(q) + 1] = s
    BY AppendProperties, LenProperties
  <1> HIDE DEF p
  <1>2. Elems(p) = Elems(q) \cup {s}
    <2>1. 1..Len(p) = (1..Len(q)) \cup {Len(q) + 1}
      BY <1>1
    <2>2. QED
      BY <1>1, <2>1 DEF Elems
  <1>3. ASSUME NEW i \in 1..Len(p), NEW j \in 1..Len(p), p[i] = p[j]
        PROVE  i = j
    <2>1. CASE i \in 1..Len(q) /\ j \in 1..Len(q)
      BY <1>1, <1>3, <2>1 DEF Distinct
    <2>2. \A k \in 1..Len(q) : p[k] # s
      BY <1>1 DEF Elems
    <2>3. CASE ~(i \in 1..Len(q) /\ j \in 1..Len(q))
      BY <1>1, <1>3, <2>2, <2>3
    <2>4. QED
      BY <2>1, <2>3
  <1>4. QED
    BY <1>1, <1>2, <1>3 DEF Distinct, p

LEMMA ShiftProperties ==
    ASSUME NEW S, NEW q \in Seq(S), q # <<>>, Distinct(q)
    PROVE  /\ Head(q) \in Elems(q) /\ Head(q) \in S
           /\ Tail(q) \in Seq(S) /\ Distinct(Tail(q))
           /\ Elems(Tail(q)) = Elems(q) \ {Head(q)}
  <1> DEFINE p == Tail(q)
  <1>1. /\ p \in Seq(S) /\ Len(p) = Len(q) - 1 /\ Len(q) \in Nat \ {0}
        /\ \A i \in 1..Len(p) : p[i] = q[i + 1]
        /\ Head(q) = q[1] /\ Head(q) \in S
    BY HeadTailProperties, EmptySeq
  <1> HIDE DEF p
  <1>2. \A i \in 1..Len(p) : i + 1 \in 1..Len(q) /\ i + 1 # 1
    BY <1>1
  <1>3. ASSUME NEW i \in 1..Len(q), i # 1
        PROVE  i - 1 \in 1..Len(p) /\ p[i - 1] = q[i]
    BY <1>1, <1>3
  <1>4. 1 \in 1..Len(q)
    BY <1>1
  <1>5. Head(q) \in Elems(q)
    BY <1>1, <1>4 DEF Elems
  <1>6. Elems(p) \subseteq Elems(q) \ {Head(q)}
    BY <1>1, <1>2, <1>4 DEF Elems, Distinct
  <1>7. Elems(q) \ {Head(q)} \subseteq Elems(p)
    BY <1>1, <1>3 DEF Elems
  <1>8. ASSUME NEW i \in 1..Len(p), NEW j \in 1..Len(p), p[i] = p[j]
        PROVE  i = j
    <2>1. i + 1 = j + 1
      BY <1>1, <1>2, <1>8 DEF Distinct
    <2>2. QED
      BY <1>1, <2>1
  <1>9. QED
    BY <1>1, <1>5, <1>6, <1>7, <1>8 DEF Distinct, p

-----------------------------------------------------------------------------
(* Ranks *)

From(S, k) == {j \in S : j >= k}
Above(S, k) == {j \in S : j > k}
Below(S, k) == {j \in S : j < k}
NewestOf(S, n) == {k \in S : Cardinality(Above(S, k)) < n}

\* How many of S are at least k, and how many above it.
LEMMA RankProperties ==
    ASSUME NEW S \in SUBSET Nat, IsFiniteSet(S), NEW k \in S
    PROVE  /\ Cardinality(From(S, k)) = Cardinality(Above(S, k)) + 1
           /\ Cardinality(Above(S, k)) \in Nat
           /\ Cardinality(Above(S, k)) < Cardinality(S)
           /\ Cardinality(From(S, k)) \in 1..Cardinality(S)
           /\ \A l \in S : l < k => Cardinality(From(S, k)) <= Cardinality(Above(S, l))
  <1>0. k \in Nat /\ \A j \in S : j \in Nat
    OBVIOUS
  <1>1. From(S, k) = Above(S, k) \cup {k} /\ k \notin Above(S, k)
    <2>1. \A j \in S : j >= k <=> j > k \/ j = k
      BY <1>0
    <2>2. ~(k > k)
      BY <1>0
    <2>3. QED
      BY <2>1, <2>2 DEF From, Above
  <1>2. From(S, k) \subseteq S /\ Above(S, k) \subseteq S
    BY DEF From, Above
  <1>3. /\ IsFiniteSet(From(S, k)) /\ IsFiniteSet(Above(S, k))
        /\ Cardinality(Above(S, k)) \in Nat /\ Cardinality(S) \in Nat
        /\ Cardinality(From(S, k)) <= Cardinality(S)
    BY <1>2, FS_Subset, FS_CardinalityType
  <1>4. Cardinality(From(S, k)) = Cardinality(Above(S, k)) + 1
    BY <1>1, <1>3, FS_AddElement
  <1>5. ASSUME NEW l \in S, l < k
        PROVE  Cardinality(From(S, k)) <= Cardinality(Above(S, l))
    <2>0. \A j \in S : j >= k => j > l
      BY <1>0, <1>5
    <2>1. From(S, k) \subseteq Above(S, l) /\ Above(S, l) \subseteq S
      BY <2>0 DEF From, Above
    <2>2. QED
      BY <2>1, FS_Subset
  <1>6. QED
    BY <1>3, <1>4, <1>5

\* A set with at least n members has an n-th newest one.
LEMMA NthNewest ==
    ASSUME NEW S \in SUBSET Nat, IsFiniteSet(S), NEW n \in Nat \ {0}, n <= Cardinality(S)
    PROVE  \E k \in S : Cardinality(From(S, k)) = n
  <1> DEFINE rank == [k \in S |-> Cardinality(From(S, k))]
             T == 1..Cardinality(S)
  <1>1. Cardinality(S) \in Nat
    BY FS_CardinalityType
  <1>2. rank \in [S -> T]
    BY RankProperties
  <1>3. ASSUME NEW k \in S, NEW l \in S, l < k
        PROVE  rank[k] # rank[l]
    <2>1. Cardinality(From(S, k)) <= Cardinality(Above(S, l))
      BY <1>3, RankProperties
    <2>2. /\ Cardinality(From(S, l)) = Cardinality(Above(S, l)) + 1
          /\ Cardinality(Above(S, l)) \in Nat
      BY RankProperties
    <2>3. Cardinality(From(S, k)) \in Nat
      BY <1>2
    <2>4. Cardinality(From(S, k)) # Cardinality(From(S, l))
      BY <2>1, <2>2, <2>3
    <2>5. QED
      BY <2>4
  <1>4. \A k, l \in S : k # l => l < k \/ k < l
    OBVIOUS
  <1>5. rank \in Injection(S, T)
    <2>1. \A k, l \in S : rank[k] = rank[l] => k = l
      BY <1>3, <1>4
    <2>2. QED
      BY <1>2, <2>1 DEF Injection, IsInjective
  <1>6. IsFiniteSet(T) /\ Cardinality(T) = Cardinality(S)
    BY <1>1, FS_Interval
  <1>7. rank \in Surjection(S, T)
    BY <1>5, <1>6, FS_Injection
  <1>8. n \in T
    BY <1>1
  <1>9. PICK k \in S : rank[k] = n
    BY <1>7, <1>8 DEF Surjection
  <1>10. QED
    BY <1>9

\* The n newest members.
LEMMA NewestProperties ==
    ASSUME NEW S \in SUBSET Nat, IsFiniteSet(S), NEW n \in Nat, n <= Cardinality(S)
    PROVE  /\ Cardinality(NewestOf(S, n)) = n
           /\ \A gone \in S \ NewestOf(S, n), kept \in NewestOf(S, n) : gone < kept
  <1>1. \A k \in S : k \in Nat /\ Cardinality(Above(S, k)) \in Nat
    BY RankProperties
  <1>2. ASSUME NEW gone \in S \ NewestOf(S, n), NEW kept \in NewestOf(S, n)
        PROVE  gone < kept
    <2>1. kept \in S /\ Cardinality(Above(S, kept)) < n /\ ~(Cardinality(Above(S, gone)) < n)
      BY DEF NewestOf
    <2>2. gone \in Nat /\ kept \in Nat /\ gone # kept
      BY <1>1, <2>1
    <2>3. ASSUME kept < gone PROVE FALSE
      <3>1. /\ Cardinality(From(S, gone)) <= Cardinality(Above(S, kept))
            /\ Cardinality(From(S, gone)) = Cardinality(Above(S, gone)) + 1
        BY <2>1, <2>3, RankProperties
      <3>2. QED
        BY <1>1, <2>1, <3>1
    <2>4. QED
      BY <2>2, <2>3
  <1>3. CASE n = 0
    <2>1. \A k \in S : ~(Cardinality(Above(S, k)) < n)
      BY <1>1, <1>3
    <2>2. NewestOf(S, n) = {}
      BY <2>1 DEF NewestOf
    <2>3. QED
      BY <1>2, <1>3, <2>2, FS_EmptySet
  <1>4. CASE n # 0
    <2>1. PICK b \in S : Cardinality(From(S, b)) = n
      BY <1>4, NthNewest
    <2>2. ASSUME NEW k \in S, ~(k >= b)
          PROVE  ~(Cardinality(Above(S, k)) < n)
      <3>1. k < b
        BY <1>1, <2>2
      <3>2. n <= Cardinality(Above(S, k))
        BY <2>1, <3>1, RankProperties
      <3>3. QED
        BY <1>1, <3>2
    <2>3. ASSUME NEW k \in S, k >= b
          PROVE  Cardinality(Above(S, k)) < n
      <3>1. \A j \in S : j > k => j > b
        BY <1>1, <2>3
      <3>2. Above(S, k) \subseteq Above(S, b) /\ Above(S, b) \subseteq S
        BY <3>1 DEF Above
      <3>3. Cardinality(Above(S, k)) <= Cardinality(Above(S, b))
        BY <3>2, FS_Subset
      <3>4. n = Cardinality(Above(S, b)) + 1
        BY <2>1, RankProperties
      <3>5. QED
        BY <1>1, <3>3, <3>4
    <2>4. NewestOf(S, n) = From(S, b)
      BY <2>2, <2>3 DEF NewestOf, From
    <2>5. QED
      BY <1>2, <2>1, <2>4
  <1>5. QED
    BY <1>3, <1>4

\* All but the n newest are the oldest, as many as there are more than n.
LEMMA OldestProperties ==
    ASSUME NEW S \in SUBSET Nat, IsFiniteSet(S), NEW n \in Nat, n <= Cardinality(S)
    PROVE  {k \in S : Cardinality(Below(S, k)) < Cardinality(S) - n} = S \ NewestOf(S, n)
  <1>1. ASSUME NEW k \in S
        PROVE  Cardinality(Below(S, k)) < Cardinality(S) - n
                 <=> ~(Cardinality(Above(S, k)) < n)
    <2>1. \A j \in S : (j < k \/ j >= k) /\ ~(j < k /\ j >= k)
      OBVIOUS
    <2>2. /\ Below(S, k) \cup From(S, k) = S
          /\ Below(S, k) \cap From(S, k) = {}
      BY <2>1 DEF Below, From
    <2>3. Below(S, k) \subseteq S /\ From(S, k) \subseteq S
      BY DEF Below, From
    <2>4. IsFiniteSet(Below(S, k)) /\ IsFiniteSet(From(S, k))
      BY <2>3, FS_Subset
    <2>5. Cardinality(Below(S, k) \cup From(S, k)) =
            Cardinality(Below(S, k)) + Cardinality(From(S, k))
              - Cardinality(Below(S, k) \cap From(S, k))
      BY <2>4, FS_Union
    <2>6. /\ Cardinality(Below(S, k)) \in Nat /\ Cardinality(From(S, k)) \in Nat
          /\ Cardinality(S) \in Nat /\ Cardinality({}) = 0
      BY <2>4, FS_CardinalityType, FS_EmptySet
    <2>7. Cardinality(S) = Cardinality(Below(S, k)) + Cardinality(From(S, k))
      <3>1. Cardinality(S) = Cardinality(Below(S, k)) + Cardinality(From(S, k)) - 0
        BY <2>2, <2>5, <2>6
      <3>2. QED
        BY <2>6, <3>1
    <2>8. /\ Cardinality(From(S, k)) = Cardinality(Above(S, k)) + 1
          /\ Cardinality(Above(S, k)) \in Nat
      BY RankProperties
    <2>9. QED
      BY <2>6, <2>7, <2>8
  <1>2. QED
    BY <1>1 DEF NewestOf

-----------------------------------------------------------------------------
(* Numbers *)

\* A number at which something fails has a first one before it.
LEMMA LowestNumber ==
    ASSUME NEW S \in SUBSET Nat, S # {}
    PROVE  \E m \in S : \A n \in S : m <= n
  <1>1. PICK m \in S : \A n \in S : ~(<<n, m>> \in OpToRel(<, Nat))
    BY NatLessThanWellFounded, WFMin, Zenon
  <1>2. \A n \in S : ~(n < m)
    BY <1>1, Zenon DEF OpToRel
  <1>3. QED
    BY <1>2

=============================================================================
