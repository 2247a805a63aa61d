------------------------- MODULE ModularArithmetic -------------------------
(***************************************************************************)
(* Facts about remainders and quotients by a symbolic modulus, for the     *)
(* unsigned indices and the sequence numbers of the C code.  The provers   *)
(* reason about + and comparison; what they need of products and quotients *)
(* is here.                                                                *)
(***************************************************************************)
EXTENDS Integers, TLAPS

(* A remainder lies below its modulus.                                     *)
LEMMA ModRange ==
    ASSUME NEW n \in Nat \ {0}, NEW x \in Int
    PROVE  x % n \in 0..(n - 1)
  OBVIOUS

(* A value below the modulus is its own remainder.                         *)
LEMMA ModSmall ==
    ASSUME NEW n \in Nat \ {0}, NEW x \in 0..(n - 1)
    PROVE  x % n = x
  OBVIOUS

(* Quotient and remainder recompose the value.                             *)
LEMMA DivMod ==
    ASSUME NEW n \in Nat \ {0}, NEW x \in Int
    PROVE  x \div n \in Int /\ x = n * (x \div n) + (x % n)
  OBVIOUS

(* The remainder is the only value below the modulus that differs from x   *)
(* by a multiple of the modulus.                                           *)
LEMMA ModUnique ==
    ASSUME NEW n \in Nat \ {0}, NEW x \in Int, NEW q \in Int, NEW r \in 0..(n - 1),
           x = n * q + r
    PROVE  x % n = r
  <1> DEFINE d == x \div n
             m == x % n
  <1>1. d \in Int /\ m \in 0..(n - 1) /\ x = n * d + m
    BY DivMod, ModRange
  <1> HIDE DEF d, m
  <1>2. n * (q - d) = m - r
    BY <1>1
  <1>3. q - d < 1
    <2>1. ASSUME q - d >= 1 PROVE n * (q - d) >= n
      BY <2>1, <1>1
    <2> QED BY <2>1, <1>1, <1>2
  <1>4. q - d > -1
    <2>1. ASSUME q - d <= -1 PROVE n * (q - d) <= -n
      BY <2>1, <1>1
    <2> QED BY <2>1, <1>1, <1>2
  <1>5. q = d
    BY <1>1, <1>3, <1>4
  <1>6. m = r
    BY <1>1, <1>5
  <1> QED
    BY <1>6 DEF m

(* Likewise for the quotient.                                              *)
LEMMA DivUnique ==
    ASSUME NEW n \in Nat \ {0}, NEW x \in Int, NEW q \in Int, NEW r \in 0..(n - 1),
           x = n * q + r
    PROVE  x \div n = q
  <1> DEFINE d == x \div n
  <1>1. d \in Int /\ x = n * d + r
    BY DivMod, ModUnique
  <1> HIDE DEF d
  <1>2. n * (q - d) = 0
    BY <1>1
  <1>3. q - d < 1
    <2>1. ASSUME q - d >= 1 PROVE n * (q - d) >= n
      BY <2>1, <1>1
    <2> QED BY <2>1, <1>1, <1>2
  <1>4. q - d > -1
    <2>1. ASSUME q - d <= -1 PROVE n * (q - d) <= -n
      BY <2>1, <1>1
    <2> QED BY <2>1, <1>1, <1>2
  <1>5. q = d
    BY <1>1, <1>3, <1>4
  <1> QED
    BY <1>5 DEF d

(* A multiple of the modulus passes through the quotient.                  *)
LEMMA DivShift ==
    ASSUME NEW n \in Nat \ {0}, NEW x \in Int, NEW k \in Int
    PROVE  (x + n * k) \div n = (x \div n) + k
  <1> DEFINE d == x \div n
             m == x % n
  <1>1. d \in Int /\ m \in 0..(n - 1) /\ x = n * d + m
    BY DivMod, ModRange
  <1> HIDE DEF d, m
  <1>2. x + n * k = n * (d + k) + m
    BY <1>1
  <1>3. (x + n * k) \div n = d + k
    <2>1. x + n * k \in Int /\ d + k \in Int
      BY <1>1
    <2> QED
      BY <1>1, <1>2, <2>1, DivUnique
  <1> QED
    BY <1>3 DEF d

(* The quotient grows with the value.                                      *)
LEMMA DivMonotone ==
    ASSUME NEW n \in Nat \ {0}, NEW x \in Int, NEW y \in Int, x <= y
    PROVE  x \div n <= y \div n
  <1> DEFINE d == x \div n
             e == y \div n
             r == x % n
             t == y % n
  <1>1. /\ d \in Int /\ r \in 0..(n - 1) /\ x = n * d + r
        /\ e \in Int /\ t \in 0..(n - 1) /\ y = n * e + t
    BY DivMod, ModRange
  <1> HIDE DEF d, e, r, t
  <1>2. n * (d - e) < n
    <2>1. n * (d - e) = (x - r) - (y - t)
      BY <1>1
    <2> QED
      BY <1>1, <2>1
  <1>3. d - e < 1
    <2>1. ASSUME d - e >= 1 PROVE n * (d - e) >= n
      BY <2>1, <1>1
    <2> QED BY <2>1, <1>1, <1>2
  <1>4. d <= e
    BY <1>1, <1>3
  <1> QED
    BY <1>4 DEF d, e

(* Adding the modulus does not change the remainder (unsigned wrap).       *)
LEMMA ModAdd ==
    ASSUME NEW n \in Nat \ {0}, NEW x \in Int
    PROVE  (x + n) % n = x % n
  <1> DEFINE d == x \div n
             m == x % n
  <1>1. d \in Int /\ m \in 0..(n - 1) /\ x = n * d + m
    BY DivMod, ModRange
  <1> HIDE DEF d, m
  <1>2. x + n = n * (d + 1) + m
    BY <1>1
  <1>3. (x + n) % n = m
    BY <1>1, <1>2, ModUnique
  <1> QED
    BY <1>3 DEF m

(* The remainder of a successor: the next value, or 0 at the wrap.         *)
LEMMA ModSucc ==
    ASSUME NEW n \in Nat \ {0}, NEW x \in Int
    PROVE  (x + 1) % n = IF x % n = n - 1 THEN 0 ELSE (x % n) + 1
  <1> DEFINE d == x \div n
             m == x % n
  <1>1. d \in Int /\ m \in 0..(n - 1) /\ x = n * d + m
    BY DivMod, ModRange
  <1> HIDE DEF d, m
  <1>2. CASE m = n - 1
    <2>1. x + 1 = n * (d + 1) + 0
      BY <1>1, <1>2
    <2>2. (x + 1) % n = 0
      BY <1>1, <2>1, ModUnique
    <2> QED
      BY <1>2, <2>2 DEF m
  <1>3. CASE m # n - 1
    <2>1. x + 1 = n * d + (m + 1) /\ m + 1 \in 0..(n - 1)
      BY <1>1, <1>3
    <2>2. (x + 1) % n = m + 1
      BY <1>1, <2>1, ModUnique
    <2> QED
      BY <1>3, <2>2 DEF m
  <1> QED
    BY <1>2, <1>3
=============================================================================
