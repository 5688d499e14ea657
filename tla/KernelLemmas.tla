--------------------------- MODULE KernelLemmas ---------------------------
(* Facts about numbers, finite sets and sequences that the proofs of        *)
(* several modules rest on.                                                 *)
EXTENDS Integers, FiniteSets, FiniteSetTheorems, WellFoundedInduction, SequenceTheorems,
        TLAPS

\* A non-empty set of natural numbers has a least element.
LEMMA NatMin ==
  ASSUME NEW T \in SUBSET Nat, T # {}
  PROVE  \E n \in T : \A m \in T : n <= m
<1> DEFINE R == {ss \in Nat \X Nat : ss[1] < ss[2]}
<1>1. R = OpToRel(<, Nat)
  BY DEF OpToRel
<1>2. IsWellFoundedOn(R, Nat)
  BY NatLessThanWellFounded, <1>1, Zenon DEF OpToRel
<1> HIDE DEF R
<1>3. PICK x \in T : \A y \in T : ~ (<<y, x>> \in R)
  BY <1>2, WFMin
<1>4. \A y \in T : ~(y < x)
  BY <1>3 DEF R
<1> QED
  BY <1>4

\* A non-empty set of natural numbers with a bound has a greatest element.
LEMMA NatMax ==
  ASSUME NEW T \in SUBSET Nat, T # {}, NEW k \in Nat, \A n \in T : n <= k
  PROVE  \E n \in T : \A m \in T : m <= n
<1> DEFINE U == {d \in Nat : \E m \in T : d = k - m}
<1>1. U # {}
  <2>1. PICK m \in T : TRUE
    OBVIOUS
  <2>2. k - m \in Nat
    BY <2>1
  <2> QED
    BY <2>2
<1>2. PICK d \in U : \A x \in U : d <= x
  BY <1>1, NatMin
<1>3. PICK n \in T : d = k - n
  BY <1>2
<1>4. ASSUME NEW m \in T
      PROVE  m <= n
  <2>1. k - m \in U
    BY <1>4
  <2> QED
    BY <2>1, <1>2, <1>3
<1> QED
  BY <1>3, <1>4

\* Taking a part out of a finite set.
LEMMA CardDiff ==
  ASSUME NEW S, NEW T, IsFiniteSet(S), T \subseteq S
  PROVE  /\ IsFiniteSet(S \ T) /\ IsFiniteSet(T)
         /\ Cardinality(S \ T) = Cardinality(S) - Cardinality(T)
         /\ Cardinality(S) \in Nat /\ Cardinality(T) \in Nat
         /\ Cardinality(T) <= Cardinality(S)
<1>1. S \cap T = T
  OBVIOUS
<1>2. IsFiniteSet(T) /\ Cardinality(T) <= Cardinality(S)
  BY FS_Subset
<1> QED
  BY <1>1, <1>2, FS_Difference, FS_CardinalityType

\* Putting two disjoint finite sets together.
LEMMA CardDisjointUnion ==
  ASSUME NEW S, NEW T, IsFiniteSet(S), IsFiniteSet(T), S \cap T = {}
  PROVE  /\ IsFiniteSet(S \cup T)
         /\ Cardinality(S \cup T) = Cardinality(S) + Cardinality(T)
         /\ Cardinality(S) \in Nat /\ Cardinality(T) \in Nat
<1>1. Cardinality(S \cap T) = 0
  BY FS_EmptySet
<1>2. Cardinality(S) \in Nat /\ Cardinality(T) \in Nat
  BY FS_CardinalityType
<1>3. /\ IsFiniteSet(S \cup T)
      /\ Cardinality(S \cup T) =
           Cardinality(S) + Cardinality(T) - Cardinality(S \cap T)
  BY FS_Union
<1> QED
  BY <1>1, <1>2, <1>3

\* Division with remainder, as the provers can use it.
LEMMA DivMod ==
  ASSUME NEW n \in Nat, n > 0, NEW i \in Nat
  PROVE  i = (n * (i \div n)) + (i % n) /\ i % n \in 0 .. n - 1 /\ i \div n \in Nat
  OBVIOUS

LEMMA Multiples ==
  ASSUME NEW n \in Nat, n > 0, NEW q \in Int
  PROVE  (q > 0 => n * q >= n) /\ (q <= 0 => n * q <= 0)
  OBVIOUS

\* Two numbers less than n apart have different remainders: the slots of a
\* window of n indices of a ring of n slots are distinct.
LEMMA ModDistinct ==
  ASSUME NEW n \in Nat, n > 0, NEW i \in Nat, NEW j \in Nat, i < j, j < i + n
  PROVE  i % n # j % n
<1> SUFFICES ASSUME i % n = j % n PROVE FALSE
  OBVIOUS
<1> DEFINE p == i \div n
           q == j \div n
<1>1. /\ i = (n * p) + (i % n) /\ j = (n * q) + (i % n)
      /\ p \in Int /\ q \in Int /\ i % n \in Int
  BY DivMod
<1> HIDE DEF p, q
<1>2. n * (q - p) = (n * q) - (n * p)
  BY <1>1
<1>3. n * (q - p) = j - i
  BY <1>1, <1>2
<1>4. q - p \in Int
  BY <1>1
<1>5. CASE q - p > 0
  BY <1>3, <1>4, <1>5, Multiples
<1>6. CASE q - p <= 0
  BY <1>3, <1>4, <1>6, Multiples
<1> QED
  BY <1>4, <1>5, <1>6

\* Append and Tail, written as functions on positions.
LEMMA AppendFacts ==
  ASSUME NEW S, NEW s \in Seq(S), NEW k \in S
  PROVE  Append(s, k) = [j \in 1 .. Len(s) + 1 |-> IF j = Len(s) + 1 THEN k ELSE s[j]]
<1>1. Append(s, k) \in Seq(S) /\ Len(Append(s, k)) = Len(s) + 1 /\ Len(s) \in Nat
  OBVIOUS
<1>2. \A j \in 1 .. Len(s) + 1 :
        Append(s, k)[j] = IF j = Len(s) + 1 THEN k ELSE s[j]
  OBVIOUS
<1>3. Append(s, k) \in [1 .. Len(s) + 1 -> S]
  BY <1>1, LenProperties
<1> QED
  BY <1>2, <1>3

LEMMA TailFacts ==
  ASSUME NEW S, NEW s \in Seq(S), s # << >>
  PROVE  Tail(s) = [j \in 1 .. Len(s) - 1 |-> s[j + 1]]
<1>1. Tail(s) \in Seq(S) /\ Len(Tail(s)) = Len(s) - 1 /\ Len(s) \in Nat
  OBVIOUS
<1>2. \A j \in 1 .. Len(s) - 1 : Tail(s)[j] = s[j + 1]
  OBVIOUS
<1>3. Tail(s) \in [1 .. Len(s) - 1 -> S]
  BY <1>1, LenProperties
<1> QED
  BY <1>2, <1>3
===========================================================================
