--------------------------- MODULE RingArithmetic ----------------------------
(***************************************************************************)
(* What counting modulo n does, for every n: the facts on which masking a  *)
(* counter or a sample time with a power of two minus one relies, both in  *)
(* the time bounds queue and in the ring of frames.                        *)
(***************************************************************************)
EXTENDS Integers, TLAPS

(* A masked number is the index of an element.                             *)
LEMMA ModRange ==
  ASSUME NEW a \in Int, NEW n \in Nat \ {0}
  PROVE  a % n \in 0 .. n - 1
OBVIOUS

(* A number is its quotient and its remainder.                             *)
LEMMA DivMod ==
  ASSUME NEW a \in Int, NEW n \in Nat \ {0}
  PROVE  /\ a \div n \in Int
         /\ a = n * (a \div n) + (a % n)
OBVIOUS

(* The one multiple of n that is closer to zero than n is zero.            *)
LEMMA SmallMultiple ==
  ASSUME NEW n \in Nat \ {0}, NEW q \in Int, NEW d \in Int,
         d = n * q, -n < d, d < n
  PROVE  d = 0
<1>1. CASE q >= 1
  <2>1. n * q >= n
    BY <1>1
  <2>2. QED
    BY <2>1
<1>2. CASE q <= -1
  <2>1. n * q <= -n
    BY <1>2
  <2>2. QED
    BY <2>1
<1>3. CASE q = 0
  BY <1>3
<1>4. QED
  BY <1>1, <1>2, <1>3

(* A number has one remainder.                                             *)
LEMMA ModUnique ==
  ASSUME NEW a \in Int, NEW n \in Nat \ {0}, NEW q \in Int, NEW r \in 0 .. n - 1,
         a = n * q + r
  PROVE  a % n = r
<1> DEFINE d == (a % n) - r
           k == q - (a \div n)
<1>1. a = n * (a \div n) + (a % n) /\ a \div n \in Int
  BY DivMod
<1>2. a % n \in 0 .. n - 1
  BY ModRange
<1>3. n * (q - (a \div n)) = (a % n) - r
  BY <1>1, <1>2
<1>4. d \in Int /\ k \in Int /\ d = n * k /\ -n < d /\ d < n
  BY <1>1, <1>2, <1>3
<1> HIDE DEF d, k
<1>5. d = 0
  BY <1>4, SmallMultiple
<1>6. QED
  BY <1>5, <1>2 DEF d

(* A number has one quotient.                                              *)
LEMMA DivUnique ==
  ASSUME NEW a \in Int, NEW n \in Nat \ {0}, NEW q \in Int, NEW r \in 0 .. n - 1,
         a = n * q + r
  PROVE  a \div n = q
<1> DEFINE k == (a \div n) - q
<1>1. a = n * (a \div n) + (a % n) /\ a \div n \in Int
  BY DivMod
<1>2. a % n = r
  BY ModUnique
<1>3. n * (a \div n) = n * q
  BY <1>1, <1>2
<1>4. n * ((a \div n) - q) = 0
  BY <1>1, <1>3
<1>5. k \in Int /\ n * k = 0
  BY <1>1, <1>4
<1> HIDE DEF k
<1>6. k = 0
  BY <1>5
<1> QED
  BY <1>1, <1>6 DEF k

(* A number below n is its own remainder.                                  *)
LEMMA SmallMod ==
  ASSUME NEW a \in Nat, NEW n \in Nat \ {0}, a < n
  PROVE  a % n = a
<1>1. a = n * 0 + a /\ a \in 0 .. n - 1 /\ a \in Int /\ 0 \in Int
  OBVIOUS
<1> QED
  BY <1>1, ModUnique

(* Going on by at most n steps wraps around at most once.                  *)
LEMMA ModShift ==
  ASSUME NEW a \in Int, NEW n \in Nat \ {0}, NEW i \in 0 .. n
  PROVE  (a + i) % n = IF (a % n) + i < n THEN (a % n) + i ELSE (a % n) + i - n
<1> DEFINE q == a \div n
           r == a % n
<1>1. a = n * q + r /\ q \in Int
  BY DivMod
<1>2. r \in 0 .. n - 1
  BY ModRange
<1>3. a + i \in Int
  OBVIOUS
<1> HIDE DEF q, r
<1>4. CASE r + i < n
  <2>1. a + i = n * q + (r + i)
    BY <1>1, <1>2
  <2>2. r + i \in 0 .. n - 1
    BY <1>2, <1>4
  <2>3. (a + i) % n = r + i
    BY <2>1, <2>2, <1>1, <1>3, ModUnique
  <2>4. QED
    BY <2>3, <1>4 DEF r
<1>5. CASE ~(r + i < n)
  <2>1. a + i = n * (q + 1) + (r + i - n)
    BY <1>1, <1>2
  <2>2. r + i - n \in 0 .. n - 1
    BY <1>2, <1>5
  <2>3. q + 1 \in Int
    BY <1>1
  <2>4. (a + i) % n = r + i - n
    BY <2>1, <2>2, <2>3, <1>3, ModUnique
  <2>5. QED
    BY <2>4, <1>5 DEF r
<1>6. QED
  BY <1>4, <1>5 DEF r

(* Two numbers less than n apart do not share an index.                    *)
LEMMA ModApart ==
  ASSUME NEW a \in Int, NEW b \in Int, NEW n \in Nat \ {0}, a < b, b - a < n
  PROVE  a % n # b % n
<1> DEFINE i == b - a
<1>1. i \in 0 .. n /\ i > 0 /\ i < n /\ b = a + i
  OBVIOUS
<1> HIDE DEF i
<1>2. a % n \in 0 .. n - 1
  BY ModRange
<1>3. (a + i) % n = IF (a % n) + i < n THEN (a % n) + i ELSE (a % n) + i - n
  BY <1>1, ModShift
<1>4. (a + i) % n # a % n
  BY <1>1, <1>2, <1>3
<1>5. QED
  BY <1>1, <1>4
=============================================================================
