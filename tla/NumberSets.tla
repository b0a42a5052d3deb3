----------------------------- MODULE NumberSets -----------------------------
(***************************************************************************)
(* Facts about sets of natural numbers, for the proofs about the           *)
(* components: a least number, induction in the form in which it can be    *)
(* cited (a set with zero and with every successor), and ranks.            *)
(***************************************************************************)
EXTENDS Ranks, FiniteSetTheorems, WellFoundedInduction, TLAPS

(* A set of natural numbers that has an element has a least one.           *)
LEMMA LeastNumber ==
    ASSUME NEW S, S \subseteq Nat, S # {}
    PROVE  \E x \in S : \A y \in S : x <= y
<1> DEFINE Less == {p \in Nat \X Nat : p[1] < p[2]}
<1>1. IsWellFoundedOn(Less, Nat)
  BY NatLessThanWellFounded DEF OpToRel
<1>2. ASSUME NEW x \in Nat, NEW y \in Nat, y < x
      PROVE  <<y, x>> \in Less
  <2> DEFINE p == <<y, x>>
  <2>1. p \in Nat \X Nat /\ p[1] = y /\ p[2] = x
    OBVIOUS
  <2>2. QED
    BY <2>1, <1>2
<1> HIDE DEF Less
<1>3. PICK x \in S : \A y \in S : ~ (<<y, x>> \in Less)
  BY <1>1, WFMin
<1>4. ASSUME NEW y \in S, y < x
      PROVE  FALSE
  BY <1>2, <1>3, <1>4
<1>5. QED
  BY <1>4

(* A set with zero, and with the successor of each of its numbers, has     *)
(* them all.                                                               *)
LEMMA SetInduction ==
    ASSUME NEW S, 0 \in S, \A n \in Nat : n \in S => n + 1 \in S
    PROVE  \A n \in Nat : n \in S
<1> SUFFICES ASSUME Nat \ S # {}
             PROVE  FALSE
  OBVIOUS
<1>1. PICK x \in Nat \ S : \A y \in Nat \ S : x <= y
  BY LeastNumber
<1>2. x - 1 \in Nat /\ x - 1 \in S
  BY <1>1
<1>3. QED
  BY <1>2

-----------------------------------------------------------------------------
(* Ranks in a finite set of numbers.                                       *)

LEMMA RankInRange ==
    ASSUME NEW S \in SUBSET Nat, IsFiniteSet(S), NEW n \in S
    PROVE  /\ Cardinality(S) \in Nat /\ Rank(n, S) \in 1 .. Cardinality(S)
           /\ IsFiniteSet({m \in S : m <= n})
<1> DEFINE T == {m \in S : m <= n}
<1>1. T \in SUBSET S /\ n \in T
  OBVIOUS
<1> HIDE DEF T
<1>2. IsFiniteSet(T) /\ Cardinality(T) <= Cardinality(S)
  BY <1>1, FS_Subset
<1>3. Cardinality(T) \in Nat /\ Cardinality(S) \in Nat
  BY <1>2, FS_CardinalityType
<1>4. Cardinality(T) # 0
  BY <1>1, <1>2, FS_EmptySet
<1>5. Cardinality(T) \in 1 .. Cardinality(S)
  BY <1>2, <1>3, <1>4
<1>6. QED
  BY <1>2, <1>3, <1>5 DEF Rank, T

LEMMA RankGrows ==
    ASSUME NEW S \in SUBSET Nat, IsFiniteSet(S), NEW n \in S, NEW m \in S, n < m
    PROVE  Rank(n, S) < Rank(m, S)
<1> DEFINE T == {x \in S : x <= n}
           U == {x \in S : x <= m}
<1>1. T \in SUBSET U /\ m \in U /\ m \notin T
  <2>1. n \in Nat /\ m \in Nat /\ \A x \in S : x \in Nat
    OBVIOUS
  <2>2. m \in U /\ m \notin T
    BY <2>1
  <2>3. ASSUME NEW x \in T
        PROVE  x \in U
    BY <2>1
  <2>4. QED
    BY <2>2, <2>3
<1>2. IsFiniteSet(T) /\ IsFiniteSet(U)
  BY RankInRange
<1>3. Rank(n, S) = Cardinality(T) /\ Rank(m, S) = Cardinality(U)
  BY DEF Rank
<1> HIDE DEF T, U
<1>4. Cardinality(T) <= Cardinality(U) /\ (Cardinality(U) = Cardinality(T) => U = T)
  BY <1>1, <1>2, FS_Subset
<1>5. Cardinality(T) # Cardinality(U)
  BY <1>1, <1>4
<1>6. Cardinality(T) \in Nat /\ Cardinality(U) \in Nat
  BY <1>2, FS_CardinalityType
<1>7. QED
  BY <1>3, <1>4, <1>5, <1>6

(* A rank is that of one number only.                                      *)
LEMMA RankTells ==
    ASSUME NEW S \in SUBSET Nat, IsFiniteSet(S), NEW n \in S, NEW m \in S,
           Rank(n, S) = Rank(m, S)
    PROVE  n = m
<1>1. n \in Nat /\ m \in Nat /\ Rank(n, S) \in Int /\ Rank(m, S) \in Int
  <2>1. /\ Cardinality(S) \in Nat
        /\ Rank(n, S) \in 1 .. Cardinality(S) /\ Rank(m, S) \in 1 .. Cardinality(S)
    BY RankInRange
  <2>2. QED
    BY <2>1
<1>2. ~(n < m) /\ ~(m < n)
  BY <1>1, RankGrows
<1>3. QED
  BY <1>1, <1>2

(* Every rank up to the size of the set is taken.                          *)
LEMMA RankTaken ==
    ASSUME NEW S \in SUBSET Nat, IsFiniteSet(S), NEW k \in 1 .. Cardinality(S)
    PROVE  \E n \in S : Rank(n, S) = k
<1> DEFINE T == 1 .. Cardinality(S)
           f == [n \in S |-> Rank(n, S)]
<1>1. Cardinality(S) \in Nat
  BY FS_CardinalityType
<1>2. IsFiniteSet(T) /\ Cardinality(T) = Cardinality(S)
  BY <1>1, FS_Interval
<1>3. f \in [S -> T]
  BY RankInRange
<1>4. \A n, m \in S : f[n] = f[m] => n = m
  BY RankTells
<1> HIDE DEF f, T
<1>5. f \in Injection(S, T)
  BY <1>3, <1>4 DEF Injection, IsInjective
<1>6. f \in Surjection(S, T)
  BY <1>2, <1>5, FS_Injection
<1>7. k \in T
  BY DEF T
<1>8. \E n \in S : f[n] = k
  BY <1>6, <1>7 DEF Surjection
<1>9. QED
  BY <1>8 DEF f

(* The member in a place has that rank, and no other has.                  *)
LEMMA NthTells ==
    ASSUME NEW S \in SUBSET Nat, IsFiniteSet(S), NEW k \in 1 .. Cardinality(S)
    PROVE  /\ Nth(k, S) \in S /\ Rank(Nth(k, S), S) = k
           /\ \A n \in S : Rank(n, S) = k => n = Nth(k, S)
<1>1. Nth(k, S) \in S /\ Rank(Nth(k, S), S) = k
  BY RankTaken DEF Nth
<1>2. QED
  BY <1>1, RankTells

(* The members stand in their places in ascending order.                   *)
LEMMA NthGrows ==
    ASSUME NEW S \in SUBSET Nat, IsFiniteSet(S),
           NEW k \in 1 .. Cardinality(S), NEW l \in 1 .. Cardinality(S), k < l
    PROVE  Nth(k, S) < Nth(l, S)
<1>1. Nth(k, S) \in S /\ Nth(l, S) \in S /\ Rank(Nth(k, S), S) = k /\ Rank(Nth(l, S), S) = l
  BY NthTells
<1>2. Nth(k, S) # Nth(l, S)
  BY <1>1
<1>3. ~(Nth(l, S) < Nth(k, S))
  <2>1. Cardinality(S) \in Nat
    BY FS_CardinalityType
  <2>2. Nth(l, S) < Nth(k, S) => l < k
    BY <1>1, RankGrows
  <2>3. QED
    BY <2>1, <2>2
<1>4. Nth(k, S) \in Nat /\ Nth(l, S) \in Nat
  BY <1>1
<1>5. QED
  BY <1>2, <1>3, <1>4
=============================================================================
