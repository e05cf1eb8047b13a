------------------------------ MODULE DataFacts ------------------------------
(***************************************************************************)
(* Facts about numbers and sequences the proofs about Terminal and Telnet  *)
(* rest on: division, the least and the greatest number of a set, and      *)
(* induction stated with a set in place of a predicate, so that the        *)
(* provers can use it.                                                     *)
(***************************************************************************)
EXTENDS Integers, Sequences, WellFoundedInduction, TLAPS

-----------------------------------------------------------------------------
\* Products and quotients.

LEMMA QuotientType ==
    ASSUME NEW p \in Int, NEW n \in Nat \ {0}
    PROVE  p \div n \in Int /\ p % n \in 0..(n - 1)
  OBVIOUS

\* Quotient and remainder put together again.
LEMMA QuotientParts ==
    ASSUME NEW p \in Int, NEW n \in Nat \ {0}
    PROVE  (p \div n) * n + (p % n) = p
  OBVIOUS

\* What is below a product has a quotient below the factor.
LEMMA QuotientBound ==
    ASSUME NEW p \in Nat, NEW n \in Nat \ {0}, NEW m \in Nat \ {0}, p < m * n
    PROVE  p \div n \in 0..(m - 1)
  <1>1. p \div n < m
    OBVIOUS
  <1>2. p \div n \in Nat
    OBVIOUS
  <1>3. QED BY <1>1, <1>2

\* A place in a table of m rows of n is below m * n.
LEMMA PlaceBound ==
    ASSUME NEW m \in Nat \ {0}, NEW n \in Nat \ {0}, NEW r \in 0..(m - 1), NEW c \in 0..(n - 1)
    PROVE  r * n + c \in 0..(m * n - 1)
  <1>1. r * n \in Nat
    OBVIOUS
  <1>2. r * n <= (m - 1) * n
    OBVIOUS
  <1>3. (m - 1) * n = m * n - n
    OBVIOUS
  <1>4. m * n \in Nat
    OBVIOUS
  <1>5. QED BY <1>1, <1>2, <1>3, <1>4

-----------------------------------------------------------------------------
\* The order of the natural numbers.

\* "Less than" on the natural numbers, as a relation.
LEMMA OrderOnNat ==
    \E R : IsWellFoundedOn(R, Nat) /\ \A x, y \in Nat : x < y => <<x, y>> \in R
  <1>1. \A x, y \in Nat : x < y => <<x, y>> \in OpToRel(<, Nat)
    BY Zenon DEF OpToRel
  <1>2. QED BY <1>1, NatLessThanWellFounded, Zenon

\* A set of natural numbers has a least one.
LEMMA LeastNatural ==
    ASSUME NEW S, S \subseteq Nat, S # {}
    PROVE  \E m \in S : \A k \in S : m <= k
  <1>1. PICK R : IsWellFoundedOn(R, Nat) /\ \A x, y \in Nat : x < y => <<x, y>> \in R
    BY OrderOnNat
  <1>2. PICK m \in S : \A k \in S : ~ (<<k, m>> \in R)
    <2>1. IsWellFoundedOn(R, Nat)
      BY <1>1
    <2>2. QED BY <2>1, WFMin, ZenonT(30)
  <1>3. \A k \in S : ~ (k < m)
    BY <1>1, <1>2, Zenon
  <1>4. \A k \in S : m <= k
    BY <1>3
  <1>5. QED BY <1>4

\* A set of natural numbers that has a bound has a greatest one.
LEMMA GreatestNatural ==
    ASSUME NEW n \in Nat, NEW S, S \subseteq 0..n, S # {}
    PROVE  \E m \in S : \A k \in S : k <= m
  <1> DEFINE T == {t \in Nat : n - t \in S}
  <1>1. \A k \in S : n - k \in T
    <2> SUFFICES ASSUME NEW k \in S PROVE n - k \in T
      OBVIOUS
    <2>1. n - k \in Nat /\ n - (n - k) = k
      OBVIOUS
    <2>2. QED BY <2>1
  <1>2. T \subseteq Nat /\ T # {}
    BY <1>1
  <1>3. PICK t \in T : \A k \in T : t <= k
    BY <1>2, LeastNatural
  <1>4. n - t \in S /\ \A k \in S : t <= n - k
    BY <1>1, <1>3
  <1>5. \A k \in S : k <= n - t
    BY <1>4
  <1>6. QED BY <1>4, <1>5

\* Induction: a set of natural numbers with 0 that has n + 1 whenever it has n.
LEMMA SetInduction ==
    ASSUME NEW S, 0 \in S, \A n \in Nat : n \in S => n + 1 \in S
    PROVE  Nat \subseteq S
  <1> SUFFICES ASSUME Nat \ S # {} PROVE FALSE
    OBVIOUS
  <1>1. PICK m \in Nat \ S : \A k \in Nat \ S : m <= k
    BY LeastNatural
  <1>2. m # 0 /\ m - 1 \in Nat
    BY <1>1
  <1>3. m - 1 \in S
    BY <1>1, <1>2
  <1>4. (m - 1) + 1 \in S
    BY <1>2, <1>3
  <1>5. QED BY <1>1, <1>4

\* A function on the integers can be iterated: there is a sequence of its values.
LEMMA Iteration ==
    ASSUME NEW T \in [Int -> Int], NEW x \in Int, NEW n \in Nat
    PROVE  \E f \in [0..n -> Int] : f[0] = x /\ \A k \in 1..n : f[k] = T[f[k - 1]]
  <1> DEFINE Good == {m \in Nat : \E f \in [0..m -> Int] :
                         f[0] = x /\ \A k \in 1..m : f[k] = T[f[k - 1]]}
  <1>1. 0 \in Good
    <2> DEFINE f == [k \in 0..0 |-> x]
    <2>1. f \in [0..0 -> Int] /\ f[0] = x /\ \A k \in 1..0 : FALSE
      OBVIOUS
    <2>2. QED BY <2>1, Zenon
  <1>2. \A m \in Nat : m \in Good => m + 1 \in Good
    <2> SUFFICES ASSUME NEW m \in Nat, NEW f \in [0..m -> Int],
                        f[0] = x, \A k \in 1..m : f[k] = T[f[k - 1]]
                 PROVE  m + 1 \in Good
      OBVIOUS
    <2> DEFINE g == [k \in 0..(m + 1) |-> IF k = 0 THEN x ELSE T[f[k - 1]]]
    <2>1. \A k \in 1..(m + 1) : f[k - 1] \in Int
      <3>1. \A k \in 1..(m + 1) : k - 1 \in 0..m
        OBVIOUS
      <3>2. \A k \in 0..m : f[k] \in Int
        OBVIOUS
      <3>3. QED BY <3>1, <3>2
    <2>2. \A k \in 0..(m + 1) : k = 0 \/ T[f[k - 1]] \in Int
      BY <2>1
    <2>3. g \in [0..(m + 1) -> Int]
      BY <2>2
    <2>4. g[0] = x /\ \A k \in 1..(m + 1) : g[k] = T[f[k - 1]]
      OBVIOUS
    <2>5. \A k \in 0..m : g[k] = f[k]
      OBVIOUS
    <2> HIDE DEF g
    <2>6. \A k \in 1..(m + 1) : k - 1 \in 0..m
      OBVIOUS
    <2>7. \A k \in 1..(m + 1) : g[k] = T[g[k - 1]]
      BY <2>4, <2>5, <2>6, Zenon
    <2>8. m + 1 \in Nat
      OBVIOUS
    <2>9. QED BY <2>3, <2>4, <2>7, <2>8, Zenon
  <1>3. QED
    <2> HIDE DEF Good
    <2>1. n \in Good
      BY <1>1, <1>2, SetInduction
    <2>2. QED BY <2>1 DEF Good

-----------------------------------------------------------------------------
\* Sequences.

\* A function on 1..n is a sequence.
LEMMA FunctionIsSequence ==
    ASSUME NEW S, NEW n \in Nat, NEW f \in [1..n -> S]
    PROVE  f \in Seq(S) /\ Len(f) = n
  OBVIOUS
=============================================================================
