---------------------------- MODULE ClockArithmetic ----------------------------
(***************************************************************************)
(* Facts about clocks that wrap: readings modulo the width of an unsigned  *)
(* integer, and differences of such readings.                              *)
(***************************************************************************)
EXTENDS Integers, TLAPS

(* Division with remainder, with names for both results.                   *)
LEMMA DivisionWithRemainder ==
    \A W \in Nat \ {0} : \A a \in Int :
        \E q \in Int, r \in 0..(W - 1) :
            /\ a = W * q + r
            /\ a % W = r
            /\ a \div W = q
<1> TAKE W \in Nat \ {0}, a \in Int
<1>1. a \div W \in Int /\ a % W \in 0..(W - 1) /\ a = W * (a \div W) + (a % W)
  OBVIOUS
<1> QED
  BY <1>1

(* A value within the word is its own remainder.                           *)
LEMMA SmallModulo == \A W \in Nat \ {0} : \A a \in 0..(W - 1) : a % W = a
OBVIOUS

(* A value within one word below zero wraps once.                          *)
LEMMA NegativeModulo == \A W \in Nat \ {0} : \A a \in (-W)..(-1) : a % W = a + W
OBVIOUS

(* Two values less than a word apart have the same quotient or successive  *)
(* ones.                                                                   *)
LEMMA QuotientsClose ==
    ASSUME NEW W \in Nat \ {0}, NEW p \in Int, NEW q \in Int,
           NEW r \in 0..(W - 1), NEW s \in 0..(W - 1),
           0 <= (W * p + r) - (W * q + s), (W * p + r) - (W * q + s) < W
    PROVE  \/ (W * p + r) - (W * q + s) = r - s
           \/ (W * p + r) - (W * q + s) = W + r - s
<1>1. W * p = W * q + W * (p - q)
  OBVIOUS
<1>2. p - q >= 2 => W * (p - q) >= 2 * W
  OBVIOUS
<1>3. p - q <= -1 => W * (p - q) <= -W
  OBVIOUS
<1>4. p = q => W * (p - q) = 0
  OBVIOUS
<1>5. p = q + 1 => W * (p - q) = W
  OBVIOUS
<1>6. W * p \in Int /\ W * q \in Int /\ W * (p - q) \in Int
  OBVIOUS
<1> QED
  BY <1>1, <1>2, <1>3, <1>4, <1>5, <1>6

(* The unsigned difference of two readings less than a word apart is the   *)
(* time between them, whether the clock has wrapped in between or not.     *)
LEMMA UnsignedDifference ==
    ASSUME NEW W \in Nat \ {0}, NEW a \in Nat, NEW b \in Nat, b <= a, a - b < W
    PROVE  ((a % W) - (b % W)) % W = a - b
<1>0. a \in Int /\ b \in Int
  OBVIOUS
<1>1. PICK p \in Int, r \in 0..(W - 1) : a = W * p + r /\ a % W = r
  BY <1>0, DivisionWithRemainder, Zenon
<1>2. PICK q \in Int, s \in 0..(W - 1) : b = W * q + s /\ b % W = s
  BY <1>0, DivisionWithRemainder, Zenon
<1>3. a - b = r - s \/ a - b = W + r - s
  BY <1>1, <1>2, QuotientsClose
<1>4. CASE a - b = r - s
  BY <1>1, <1>2, <1>4, SmallModulo
<1>5. CASE a - b = W + r - s
  <2>1. r - s \in (-W)..(-1)
    BY <1>5
  <2> QED
    BY <1>1, <1>2, <1>5, <2>1, NegativeModulo
<1> QED
  BY <1>3, <1>4, <1>5
===============================================================================
