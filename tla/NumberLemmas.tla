---------------------------- MODULE NumberLemmas ---------------------------
(* What the proofs use of the natural numbers: induction over a set, the    *)
(* least and the greatest element of one, quotients and remainders.         *)
EXTENDS Integers, FiniteSetsExt, WellFoundedInduction, NaturalsInduction, TLAPS

\* A set of numbers that is not empty has a least one.
LEMMA NatLeast ==
  ASSUME NEW S, S \subseteq Nat, S # {}
  PROVE  \E x \in S : \A y \in S : x <= y
  <1>1. PICK x \in S : \A y \in S : ~(<<y, x>> \in OpToRel(<, Nat))
    <2>1. IsWellFoundedOn(OpToRel(<, Nat), Nat)
      BY NatLessThanWellFounded
    <2> QED BY <2>1, WFMin
  <1>2. ASSUME NEW y \in S
        PROVE  x <= y
    <2>1. ~(y < x)
      BY <1>1 DEF OpToRel
    <2> QED BY <2>1
  <1> QED BY <1>2

\* Min is the least element.
LEMMA MinIs ==
  ASSUME NEW S, S \subseteq Nat, S # {}
  PROVE  Min(S) \in S /\ \A y \in S : Min(S) <= y
  BY NatLeast DEF Min

\* A bounded one has a greatest.
LEMMA NatGreatest ==
  ASSUME NEW S, NEW bound \in Nat, S \subseteq 0..bound, S # {}
  PROVE  \E x \in S : \A y \in S : y <= x
  <1> DEFINE Down == {bound - y : y \in S}
  <1>1. Down \subseteq Nat /\ Down # {}
    OBVIOUS
  <1>2. PICK d \in Down : \A e \in Down : d <= e
    BY <1>1, NatLeast
  <1>3. PICK x \in S : d = bound - x
    BY <1>2
  <1>4. ASSUME NEW y \in S
        PROVE  y <= x
    <2>1. d <= bound - y
      BY <1>2
    <2> QED BY <1>3, <2>1
  <1> QED BY <1>4

\* Max is the greatest element.
LEMMA MaxIs ==
  ASSUME NEW S, NEW bound \in Nat, S \subseteq 0..bound, S # {}
  PROVE  Max(S) \in S /\ \A y \in S : y <= Max(S)
  <1>1. \E x \in S : \A y \in S : x >= y
    BY NatGreatest
  <1>2. Max(S) \in S /\ \A y \in S : Max(S) >= y
    BY <1>1 DEF Max
  <1>3. S \subseteq Int
    OBVIOUS
  <1> QED BY <1>2, <1>3

\* A set that holds 0, and n + 1 when it holds n, holds every natural number.
LEMMA NatSetInduction ==
  ASSUME NEW T, 0 \in T, \A n \in Nat : n \in T => n + 1 \in T
  PROVE  Nat \subseteq T
  <1> SUFFICES ASSUME Nat \ T # {}
               PROVE  FALSE
    OBVIOUS
  <1>1. PICK m \in Nat \ T : \A y \in Nat \ T : m <= y
    BY NatLeast
  <1>2. m - 1 \in Nat /\ m = (m - 1) + 1
    BY <1>1
  <1>3. m - 1 \in T
    BY <1>1, <1>2
  <1> QED BY <1>1, <1>2, <1>3

-----------------------------------------------------------------------------
(* Quotients and remainders.                                               *)

\* A number is its cycle plus its place in the cycle.
LEMMA DivMod ==
    ASSUME NEW h \in Int, NEW m \in Nat, m > 0
    PROVE  /\ h \div m \in Int
           /\ h % m \in 0..(m - 1)
           /\ h = m * (h \div m) + (h % m)
  BY SMT

\* A multiple of m that lies strictly between -2m and 2m is -m, 0 or m.
LEMMA SmallMultiple ==
    ASSUME NEW d \in Int, NEW m \in Nat, m * d < 2 * m, -(2 * m) < m * d
    PROVE  d = -1 \/ d = 0 \/ d = 1
  <1>1. d >= 2 => m * d >= 2 * m
    BY SMT
  <1>2. d <= -2 => m * d <= -(2 * m)
    BY SMT
  <1> QED
    BY <1>1, <1>2, SMT

\* A multiple of m that lies strictly between -m and m is 0.
LEMMA NoMultiple ==
    ASSUME NEW d \in Int, NEW m \in Nat, m * d < m, -m < m * d
    PROVE  d = 0
  <1>1. d >= 1 => m * d >= m
    BY SMT
  <1>2. d <= -1 => m * d <= -m
    BY SMT
  <1> QED
    BY <1>1, <1>2, SMT

\* The place in the cycle is the only number of its class below m.
LEMMA ModUnique ==
    ASSUME NEW h \in Int, NEW k \in Int, NEW m \in Nat, m > 0, h - m * k \in 0..(m - 1)
    PROVE  h % m = h - m * k
  <1> DEFINE q == h \div m
             r == h % m
             d == q - k
  <1>1. q \in Int /\ r \in 0..(m - 1) /\ h = m * q + r
    BY DivMod
  <1>2. d \in Int /\ m * d = m * q - m * k
    BY <1>1, SMT
  <1>3. m * q \in Int /\ m * k \in Int /\ m * d \in Int
    BY <1>1, <1>2, SMT
  <1> HIDE DEF q, r, d
  <1>4. m * d < m /\ -m < m * d
    BY <1>1, <1>2, <1>3
  <1>5. d = 0
    BY <1>2, <1>4, NoMultiple
  <1>6. m * d = 0
    BY <1>5, SMT
  <1>7. r = h - m * k
    BY <1>1, <1>2, <1>3, <1>6
  <1> QED
    BY <1>7 DEF r
=============================================================================
