----------------------------- MODULE IntegerFacts -----------------------------
(***************************************************************************)
(* Facts about rounding to a multiple, the arithmetic of padded lengths    *)
(* and erase sectors (Esp32Serial), of stacks and page buffers (SwdProg),  *)
(* and about the least and the greatest number of a set.                   *)
(***************************************************************************)
EXTENDS Integers, WellFoundedInduction, TLAPS

(* Quotient and remainder. *)
LEMMA DivMod ==
    ASSUME NEW x \in Nat, NEW s \in Nat \ {0}
    PROVE  x \div s \in Nat /\ (x % s) \in 0..s - 1 /\ x = (s * (x \div s)) + (x % s)
OBVIOUS

LEMMA TimesMonotone ==
    ASSUME NEW s \in Nat \ {0}, NEW p \in Int, NEW q \in Int, p <= q
    PROVE  s * p <= s * q
OBVIOUS

LEMMA TimesCancel ==
    ASSUME NEW s \in Nat \ {0}, NEW p \in Int, NEW q \in Int, s * p < s * (q + 1)
    PROVE  p <= q
OBVIOUS

(* Rounding down does not go up, rounding up does not go down. *)
LEMMA RoundDown ==
    ASSUME NEW x \in Nat, NEW s \in Nat \ {0}
    PROVE  (x \div s) * s \in Nat /\ (x \div s) * s <= x
BY DivMod

LEMMA RoundUp ==
    ASSUME NEW x \in Nat, NEW s \in Nat \ {0}
    PROVE  /\ ((x + s - 1) \div s) * s \in Nat
           /\ x <= ((x + s - 1) \div s) * s
           /\ ((x + s - 1) \div s) * s < x + s
BY DivMod

(* Rounding up to a multiple of s stops at every multiple of s. *)
LEMMA RoundUpLeast ==
    ASSUME NEW x \in Nat, NEW s \in Nat \ {0}, NEW m \in Nat, m % s = 0, x <= m
    PROVE  ((x + s - 1) \div s) * s <= m
<1> DEFINE p == (x + s - 1) \div s
           q == m \div s
<1>1. p \in Nat /\ q \in Nat /\ s * p <= x + s - 1 /\ m = s * q
  BY DivMod
<1>2. s * p < s * (q + 1)
  <2>1. s * (q + 1) = s * q + s
    BY <1>1
  <2> HIDE DEF p, q
  <2>. QED
    BY <1>1, <2>1
<1> HIDE DEF p, q
<1>3. s * p <= s * q
  BY <1>1, <1>2, TimesCancel, TimesMonotone
<1>. QED
  BY <1>1, <1>3 DEF p

LEMMA ModSmall ==
    ASSUME NEW s \in Nat \ {0}, NEW x \in 0..s - 1
    PROVE  x % s = x
OBVIOUS

LEMMA ModTimes ==
    ASSUME NEW s \in Nat \ {0}, NEW m \in Nat
    PROVE  (s * m) % s = 0
OBVIOUS

(* The sum of two multiples is a multiple. *)
LEMMA ModSum ==
    ASSUME NEW s \in Nat \ {0}, NEW m \in Nat, NEW n \in Nat, m % s = 0, n % s = 0
    PROVE  (m + n) % s = 0
<1> DEFINE p == m \div s
           q == n \div s
<1>1. p \in Nat /\ q \in Nat /\ m = s * p /\ n = s * q
  BY DivMod
<1> HIDE DEF p, q
<1>2. m + n = s * (p + q) /\ p + q \in Nat
  BY <1>1
<1>. QED
  BY <1>2, ModTimes

-------------------------------------------------------------------------------
LEMMA Least ==
    ASSUME NEW T, T \subseteq Nat, T # {}
    PROVE  \E x \in T : \A y \in T : x <= y
<1>1. PICK x \in T : \A y \in T : <<y, x>> \notin OpToRel(<, Nat)
  BY NatLessThanWellFounded, WFMin, Zenon
<1>2. \A y \in T : ~(y < x)
  BY <1>1, Zenon DEF OpToRel
<1>. QED
  BY <1>2

LEMMA Greatest ==
    ASSUME NEW m \in Int, NEW n \in Int, NEW T, T \subseteq m..n, T # {}
    PROVE  \E x \in T : \A y \in T : y <= x
<1> DEFINE D == {n - x : x \in T}
<1>1. D \subseteq Nat /\ D # {}
  OBVIOUS
<1>2. PICK d \in D : \A e \in D : d <= e
  <2> HIDE DEF D
  <2>. QED
    BY <1>1, Least
<1>3. PICK x \in T : d = n - x
  OBVIOUS
<1>4. \A y \in T : n - x <= n - y
  BY <1>2, <1>3
<1>. QED
  BY <1>4

===============================================================================
