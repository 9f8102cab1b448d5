---------------------------- MODULE NumberLemmas ----------------------------
(***************************************************************************)
(* Facts about numbers that the proofs of several modules rest on: least   *)
(* elements, induction and recursion over numbers, with the property or    *)
(* the step given as a set or a function, and division.                    *)
(***************************************************************************)
EXTENDS Integers, WellFoundedInduction, TLAPS

(* A set of numbers that is not empty has a least element. *)
LEMMA Least ==
  ASSUME NEW T, T \subseteq Nat, T # {}
  PROVE  \E x \in T : \A y \in T : x <= y
<1>1. IsWellFoundedOn(OpToRel(<, Nat), Nat)
  BY NatLessThanWellFounded
<1>2. PICK x \in T : \A y \in T : <<y, x>> \notin OpToRel(<, Nat)
  BY <1>1, WFMin
<1>3. \A y \in T : ~(y < x)
  BY <1>2 DEF OpToRel
<1>4. QED
  BY <1>3

(* Induction, for the set of the numbers that have a property. *)
LEMMA Induction ==
  ASSUME NEW T, 0 \in T, \A n \in Nat : n \in T => n + 1 \in T
  PROVE  Nat \subseteq T
<1> DEFINE U == {n \in Nat : n \notin T}
<1>1. SUFFICES ASSUME U # {} PROVE FALSE
  OBVIOUS
<1>2. PICK x \in U : \A y \in U : x <= y
  BY Least, <1>1
<1>3. x # 0 /\ x - 1 \in Nat
  OBVIOUS
<1>4. x - 1 \notin U
  BY <1>3, <1>2
<1>5. x \in T
  BY <1>3, <1>4
<1>6. QED
  BY <1>5

(* f starts with first and goes on by the steps given. *)
IsRun(f, V, n, first, step) ==
  /\ f \in [0 .. n -> V] /\ f[0] = first
  /\ \A k \in 1 .. n : f[k] = step[k][f[k - 1]]

StepsIn(V, n, step) == \A k \in 1 .. n, v \in V : step[k][v] \in V

(* A function given by its first value and by the step from each value to   *)
(* the next exists.                                                         *)
LEMMA Recursion ==
  ASSUME NEW V, NEW first \in V, NEW n \in Nat, NEW step, StepsIn(V, n, step)
  PROVE  \E f : IsRun(f, V, n, first, step)
<1> DEFINE Upto(m, f) == /\ f \in [0 .. m -> V] /\ f[0] = first
                         /\ \A k \in 1 .. m : f[k] = step[k][f[k - 1]]
           T == {m \in Nat : m <= n => \E f : Upto(m, f)}
<1>1. 0 \in T
  <2>1. Upto(0, [k \in 0 .. 0 |-> first])
    OBVIOUS
  <2>2. QED
    BY <2>1
<1>2. ASSUME NEW m \in Nat, m \in T PROVE m + 1 \in T
  <2>1. SUFFICES ASSUME m + 1 <= n PROVE \E f : Upto(m + 1, f)
    OBVIOUS
  <2>2. PICK f : Upto(m, f)
    BY <1>2, <2>1
  <2> DEFINE g == [k \in 0 .. m + 1 |-> IF k <= m THEN f[k] ELSE step[m + 1][f[m]]]
  <2>3. m + 1 \in 1 .. n /\ f[m] \in V /\ step[m + 1][f[m]] \in V
    BY <2>1, <2>2 DEF StepsIn
  <2>4. g \in [0 .. m + 1 -> V] /\ g[0] = first
    BY <2>2, <2>3
  <2>5. ASSUME NEW k \in 1 .. m + 1 PROVE g[k] = step[k][g[k - 1]]
    BY <2>2, <2>3
  <2>6. QED
    BY <2>4, <2>5
<1>3. n \in T
  <2> HIDE DEF T
  <2>1. QED
    BY <1>1, <1>2, Induction
<1>4. PICK f : Upto(n, f)
  BY <1>3
<1>5. QED
  BY <1>4 DEF IsRun

-----------------------------------------------------------------------------
(* Division with remainder. *)
LEMMA DivMod ==
  ASSUME NEW a \in Nat, NEW p \in Nat, p > 0
  PROVE  /\ a = p * (a \div p) + (a % p)
         /\ a \div p \in Nat /\ a % p \in 0 .. p - 1
<1>1. a = p * (a \div p) + (a % p)
  OBVIOUS
<1>2. a \div p \in Nat /\ a % p \in 0 .. p - 1
  OBVIOUS
<1> QED BY <1>1, <1>2

(* The quotient and the remainder are the only such numbers. *)
LEMMA DivModUnique ==
  ASSUME NEW a \in Nat, NEW p \in Nat, p > 0, NEW q \in Int, NEW r \in 0 .. p - 1, a = p * q + r
  PROVE  a \div p = q /\ a % p = r
OBVIOUS

(* A number below the divisor is its own remainder. *)
LEMMA SmallMod ==
  ASSUME NEW a \in Nat, NEW p \in Nat, a < p
  PROVE  a % p = a
OBVIOUS

(* The numbers that p divides are its multiples. *)
LEMMA Multiples ==
  ASSUME NEW a \in Nat, NEW p \in Nat, p > 0
  PROVE  (a % p = 0) <=> \E q \in Nat : a = p * q
<1>1. ASSUME a % p = 0 PROVE \E q \in Nat : a = p * q
  <2>1. a = p * (a \div p) + (a % p) /\ a \div p \in Nat
    BY DivMod
  <2>2. a = p * (a \div p)
    BY <1>1, <2>1
  <2> QED BY <2>1, <2>2
<1>2. ASSUME NEW q \in Nat, a = p * q PROVE a % p = 0
  <2>1. 0 \in 0 .. p - 1 /\ a = p * q + 0
    BY <1>2
  <2> QED BY <2>1, DivModUnique
<1> QED BY <1>1, <1>2

(* p divides the sum of two numbers it divides, *)
LEMMA MultipleSum ==
  ASSUME NEW a \in Nat, NEW b \in Nat, NEW p \in Nat, p > 0, a % p = 0, b % p = 0
  PROVE  (a + b) % p = 0
<1>1. PICK q \in Nat : a = p * q
  BY Multiples
<1>2. PICK r \in Nat : b = p * r
  BY Multiples
<1>3. a + b = p * (q + r)
  BY <1>1, <1>2
<1> QED BY <1>3, Multiples

(* their difference *)
LEMMA MultipleDifference ==
  ASSUME NEW a \in Nat, NEW b \in Nat, NEW p \in Nat, p > 0, a % p = 0, b % p = 0, b <= a
  PROVE  (a - b) % p = 0
<1>1. PICK q \in Nat : a = p * q
  BY Multiples
<1>2. PICK r \in Nat : b = p * r
  BY Multiples
<1>3. a - b = p * (q - r) /\ a - b \in Nat
  BY <1>1, <1>2
<1>4. q - r \in Nat
  <2>1. SUFFICES ASSUME q - r < 0 PROVE FALSE
    OBVIOUS
  <2>2. r - q - 1 \in Nat /\ p * (r - q - 1) \in Nat
    BY <2>1
  <2>3. p * (r - q - 1) = p * r - p * q - p
    OBVIOUS
  <2> QED BY <2>2, <2>3, <1>1, <1>2
<1> QED BY <1>3, <1>4, Multiples

(* and every multiple of one. *)
LEMMA MultipleProduct ==
  ASSUME NEW a \in Nat, NEW k \in Nat, NEW p \in Nat, p > 0, a % p = 0
  PROVE  (k * a) % p = 0 /\ k * a \in Nat
<1>1. PICK q \in Nat : a = p * q
  BY Multiples
<1>2. k * a = p * (k * q) /\ k * q \in Nat /\ k * a \in Nat
  BY <1>1
<1> QED BY <1>2, Multiples

(* Rounding up to a multiple of p. *)
LEMMA RoundUp ==
  ASSUME NEW a \in Nat, NEW p \in Nat, p > 0, NEW r, r = ((a + p - 1) \div p) * p
  PROVE  r \in Nat /\ r % p = 0 /\ a <= r /\ r < a + p
<1> DEFINE q == (a + p - 1) \div p
<1>1. a + p - 1 \in Nat
  OBVIOUS
<1>2. a + p - 1 = p * q + ((a + p - 1) % p) /\ q \in Nat /\ (a + p - 1) % p \in 0 .. p - 1
  BY <1>1, DivMod
<1>3. r = p * q /\ r \in Nat
  BY <1>2
<1>4. r % p = 0
  BY <1>2, <1>3, Multiples
<1> QED BY <1>2, <1>3, <1>4

(* A multiple of p is rounded up to itself. *)
LEMMA RoundUpSame ==
  ASSUME NEW a \in Nat, NEW p \in Nat, p > 0, a % p = 0, NEW r, r = ((a + p - 1) \div p) * p
  PROVE  r = a
<1>1. r \in Nat /\ r % p = 0 /\ a <= r /\ r < a + p
  BY RoundUp
<1>2. PICK m \in Nat : a = p * m
  BY Multiples
<1>3. PICK n \in Nat : r = p * n
  BY <1>1, Multiples
<1>4. p * (n - m) = r - a
  BY <1>2, <1>3
<1>5. r - a \in 0 .. p - 1
  BY <1>1
<1>6. n - m = 0
  <2>1. CASE n - m >= 1
    <3>1. p * (n - m - 1) >= 0 /\ p * (n - m) = p * (n - m - 1) + p
      BY <2>1
    <3> QED BY <3>1, <1>4, <1>5
  <2>2. CASE n - m <= -1
    <3>1. p * (m - n - 1) >= 0 /\ p * (n - m) = -(p * (m - n - 1)) - p
      BY <2>2
    <3> QED BY <3>1, <1>4, <1>5
  <2> QED BY <2>1, <2>2
<1> QED BY <1>2, <1>3, <1>6

(* k pieces of length p that fit into g, one after the other. *)
LEMMA PiecesFit ==
  ASSUME NEW p \in Nat, p > 0, NEW g \in Nat, p <= g, NEW k, k = g \div p
  PROVE  /\ k \in Nat /\ k >= 1 /\ k * p <= g
         /\ \A i \in 0 .. k - 1 : i * p \in Nat /\ i * p + p <= g
         /\ \A i, j \in 0 .. k - 1 : i < j => i * p + p <= j * p
         /\ \A i \in 0 .. k - 1 : (i + 1) * p = i * p + p
<1>1. g = p * k + (g % p) /\ k \in Nat /\ g % p \in 0 .. p - 1
  BY DivMod
<1>2. k >= 1
  <2>1. SUFFICES ASSUME k = 0 PROVE FALSE
    BY <1>1
  <2>2. p * k = 0
    BY <2>1
  <2> QED BY <1>1, <2>2
<1>3. k * p = p * k /\ k * p \in Nat /\ k * p <= g
  BY <1>1
<1>4. \A i, j \in Int : i < j => i * p + p <= j * p
  <2> SUFFICES ASSUME NEW i \in Int, NEW j \in Int, i < j PROVE i * p + p <= j * p
    OBVIOUS
  <2>1. j - i - 1 \in Nat /\ (j - i - 1) * p \in Nat
    OBVIOUS
  <2>2. (j - i - 1) * p = j * p - i * p - p /\ j * p \in Int /\ i * p \in Int
    OBVIOUS
  <2> QED BY <2>1, <2>2
<1>5. \A i \in 0 .. k - 1 : i * p \in Nat /\ i * p + p <= k * p
  BY <1>1, <1>4
<1>6. \A i \in 0 .. k - 1 : (i + 1) * p = i * p + p
  BY <1>1
<1>7. \A i \in 0 .. k - 1 : i * p + p <= g
  BY <1>1, <1>3, <1>5
<1> QED BY <1>1, <1>2, <1>3, <1>4, <1>5, <1>6, <1>7
=============================================================================
