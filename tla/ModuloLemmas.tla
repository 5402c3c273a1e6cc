----------------------------- MODULE ModuloLemmas -----------------------------
(***************************************************************************)
(* Division with remainder, for the counters that wrap: the sequence       *)
(* numbers of continuation packets and the blocks of a message.            *)
(***************************************************************************)
EXTENDS Integers, TLAPS

\* Quotient and remainder of a natural number.
LEMMA DivMod ==
  ASSUME NEW a \in Nat, NEW m \in Nat \ {0}
  PROVE  \E q \in Nat, x \in 0 .. m - 1 : a = m * q + x /\ a \div m = q /\ a % m = x
OBVIOUS

\* They are unique.
LEMMA DivModUnique ==
  ASSUME NEW m \in Nat \ {0}, NEW p \in Nat, NEW q \in Nat,
         NEW x \in 0 .. m - 1, NEW y \in 0 .. m - 1,
         m * p + x = m * q + y
  PROVE  p = q /\ x = y
<1>1. m * (p - q) = y - x
  OBVIOUS
<1>2. p - q >= 1 => m * (p - q) >= m
  OBVIOUS
<1>3. p - q <= -1 => m * (p - q) <= -m
  OBVIOUS
<1>4. QED
  BY <1>1, <1>2, <1>3

\* So any way of writing a number as multiple plus rest gives them.
LEMMA DivModOf ==
  ASSUME NEW m \in Nat \ {0}, NEW q \in Nat, NEW x \in 0 .. m - 1
  PROVE  (m * q + x) % m = x /\ (m * q + x) \div m = q
<1> DEFINE a == m * q + x
<1>1. a \in Nat
  OBVIOUS
<1>2. PICK p \in Nat, y \in 0 .. m - 1 : a = m * p + y /\ a \div m = p /\ a % m = y
  BY <1>1, DivMod
<1>3. p = q /\ y = x
  BY <1>2, DivModUnique
<1>4. QED
  BY <1>2, <1>3

\* One more block: the same remainder, the next quotient.
LEMMA AddModulus ==
  ASSUME NEW a \in Nat, NEW m \in Nat \ {0}
  PROVE  (a + m) % m = a % m /\ (a + m) \div m = a \div m + 1
<1>1. PICK q \in Nat, x \in 0 .. m - 1 : a = m * q + x /\ a \div m = q /\ a % m = x
  BY DivMod
<1>2. a + m = m * (q + 1) + x /\ q + 1 \in Nat
  BY <1>1
<1>3. (a + m) % m = x /\ (a + m) \div m = q + 1
  BY <1>1, <1>2, DivModOf
<1>4. QED
  BY <1>1, <1>3

\* The remainder of the next number.
LEMMA ModOfSuccessor ==
  ASSUME NEW a \in Nat, NEW m \in Nat \ {0}
  PROVE  (a + 1) % m = IF a % m = m - 1 THEN 0 ELSE (a % m) + 1
<1>1. PICK q \in Nat, x \in 0 .. m - 1 : a = m * q + x /\ a \div m = q /\ a % m = x
  BY DivMod
<1>2. CASE x = m - 1
  <2>1. a + 1 = m * (q + 1) + 0 /\ q + 1 \in Nat /\ 0 \in 0 .. m - 1
    BY <1>1, <1>2
  <2>2. (m * (q + 1) + 0) % m = 0
    BY <2>1, DivModOf, Zenon
  <2>3. (a + 1) % m = 0
    BY <2>1, <2>2, Zenon
  <2>4. QED
    BY <1>1, <1>2, <2>3
<1>3. CASE x # m - 1
  <2>1. a + 1 = m * q + (x + 1) /\ x + 1 \in 0 .. m - 1
    BY <1>1, <1>3
  <2>2. (a + 1) % m = x + 1
    BY <1>1, <2>1, DivModOf
  <2>3. QED
    BY <1>1, <1>3, <2>2
<1>4. QED
  BY <1>2, <1>3

\* A counter kept modulo 2m agrees modulo m with a counter that never wraps.
LEMMA WrappedIncrement ==
  ASSUME NEW m \in Nat \ {0}, NEW s \in 0 .. 2 * m - 1, NEW k \in Nat, s % m = k % m
  PROVE  ((s + 1) % (2 * m)) % m = (k + 1) % m
<1>1. (s + 1) % m = (k + 1) % m
  <2>1. s \in Nat
    OBVIOUS
  <2>2. /\ (s + 1) % m = IF s % m = m - 1 THEN 0 ELSE (s % m) + 1
        /\ (k + 1) % m = IF k % m = m - 1 THEN 0 ELSE (k % m) + 1
    BY <2>1, ModOfSuccessor
  <2>3. QED
    BY <2>2, Zenon
<1>2. CASE s + 1 < 2 * m
  <2>1. s + 1 = (2 * m) * 0 + (s + 1) /\ s + 1 \in 0 .. 2 * m - 1 /\ 2 * m \in Nat \ {0}
    BY <1>2
  <2>2. (s + 1) % (2 * m) = s + 1
    BY <2>1, DivModOf
  <2>3. QED
    BY <1>1, <2>2
<1>3. CASE s + 1 = 2 * m
  <2>1. 2 * m = (2 * m) * 1 + 0 /\ 2 * m = m * 2 + 0 /\ 2 * m \in Nat \ {0}
        /\ 0 \in 0 .. 2 * m - 1 /\ 0 \in 0 .. m - 1
    OBVIOUS
  <2>2. (2 * m) % (2 * m) = 0
    BY <2>1, DivModOf
  <2>3. (2 * m) % m = 0
    BY <2>1, DivModOf
  <2>4. 0 % m = 0
    OBVIOUS
  <2>5. QED
    BY <1>1, <1>3, <2>2, <2>3, <2>4
<1>4. QED
  BY <1>2, <1>3
=============================================================================
