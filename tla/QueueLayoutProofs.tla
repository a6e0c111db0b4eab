------------------------- MODULE QueueLayoutProofs -------------------------
(***************************************************************************)
(* The index arithmetic of the queue, for words of every length and every  *)
(* capacity: masking is the modulus, also of counters that have wrapped,   *)
(* so the tests are exact and lines neither overlap nor leave the file.    *)
(*                                                                         *)
(* Facts about all bits of a number are shown by the least counterexample. *)
(***************************************************************************)
EXTENDS QueueLayout, WellFoundedInduction, TLAPS

\* A set of naturals that is not empty has a least member.
LEMMA Least ==
    ASSUME NEW S, S \subseteq Nat, NEW n \in S
    PROVE  \E m \in S : \A k \in S : m <= k
<1> DEFINE R == OpToRel(<, Nat)
<1>1. IsWellFoundedOn(R, Nat)
  BY NatLessThanWellFounded, Zenon
<1>2. PICK m \in S : \A k \in S : ~(<<k, m>> \in R)
  <2> HIDE DEF R
  <2> QED BY <1>1, WFMin
<1>3. \A k \in S : ~(k < m)
  BY <1>2, Zenon DEF OpToRel
<1>4. m \in Nat /\ \A k \in S : k \in Nat
  BY <1>2
<1>5. \A k \in S : m <= k
  BY <1>3, <1>4
<1> QED BY <1>5

\* A quotient and a remainder are known by what they must satisfy.
LEMMA DivUnique ==
    ASSUME NEW x \in Int, NEW d \in Nat, d >= 1, NEW q \in Int, NEW r \in Int,
           x = d * q + r, 0 <= r, r < d
    PROVE  x \div d = q /\ x % d = r
<1> DEFINE u == x \div d
           v == x % d
<1>1. u \in Int /\ v \in Int /\ x = d * u + v /\ 0 <= v /\ v < d
  OBVIOUS
<1> HIDE DEF u, v
<1> DEFINE e == u - q
<1>2. e \in Int /\ d * e = r - v
  BY <1>1
<1>3. ~(e >= 1)
  <2> SUFFICES ASSUME e >= 1 PROVE FALSE
    OBVIOUS
  <2>1. d * e >= d
    BY <1>2
  <2> QED BY <2>1, <1>1, <1>2
<1>4. ~(e <= -1)
  <2> SUFFICES ASSUME e <= -1 PROVE FALSE
    OBVIOUS
  <2>1. d * e <= -d
    BY <1>2
  <2> QED BY <2>1, <1>1, <1>2
<1>5. e = 0
  BY <1>2, <1>3, <1>4
<1>6. u = q /\ v = r
  BY <1>1, <1>2, <1>5
<1> QED BY <1>6 DEF u, v

\* The law of division.
LEMMA DivMod ==
    ASSUME NEW x \in Int, NEW d \in Nat, d >= 1
    PROVE  /\ x \div d \in Int /\ x % d \in Int
           /\ x = d * (x \div d) + (x % d)
           /\ 0 <= x % d /\ x % d < d
OBVIOUS

-----------------------------------------------------------------------------
(* Powers of two *)

LEMMA One == 2^0 = 1
OBVIOUS

\* Powers of two are positive.
LEMMA PowPos ==
    ASSUME NEW n \in 0 .. W
    PROVE  2^n \in Nat /\ 2^n >= 1
<1> DEFINE S == {k \in 0 .. W : ~(2^k \in Nat /\ 2^k >= 1)}
<1>1. SUFFICES ASSUME NEW x \in S PROVE FALSE
  OBVIOUS
<1>2. W \in Nat
  BY LayoutAssumption
<1>3. PICK m \in S : \A k \in S : m <= k
  <2>1. S \subseteq Nat
    BY <1>2
  <2> HIDE DEF S
  <2> QED BY <1>1, <2>1, Least
<1>4. m # 0
  <2>1. 0 \notin S
    BY One
  <2> QED BY <2>1, <1>3
<1>5. m - 1 \in 0 .. W - 1 /\ m - 1 \notin S
  BY <1>2, <1>3, <1>4
<1>6. 2^(m - 1) \in Nat /\ 2^(m - 1) >= 1
  BY <1>2, <1>5
<1>7. 2^((m - 1) + 1) = 2 * 2^(m - 1)
  BY <1>5, PowersOfTwo
<1>8. (m - 1) + 1 = m
  BY <1>2, <1>3
<1>9. 2^m = 2 * 2^(m - 1)
  BY <1>7, <1>8
<1> QED BY <1>3, <1>6, <1>9

\* Exponents add up.
LEMMA PowProduct ==
    ASSUME NEW a \in 0 .. W, NEW b \in 0 .. W - a
    PROVE  2^(a + b) = 2^a * 2^b
<1> DEFINE S == {k \in 0 .. W - a : 2^(a + k) # 2^a * 2^k}
<1>1. SUFFICES ASSUME NEW x \in S PROVE FALSE
  OBVIOUS
<1>2. W \in Nat /\ a \in Nat /\ a <= W
  BY LayoutAssumption
<1>3. PICK m \in S : \A k \in S : m <= k
  <2>1. S \subseteq Nat
    BY <1>2
  <2> HIDE DEF S
  <2> QED BY <1>1, <2>1, Least
<1>4. m # 0
  <2>1. a + 0 = a /\ 2^a \in Nat
    BY <1>2, PowPos
  <2>2. 2^(a + 0) = 2^a
    BY <2>1
  <2>3. 2^a * 2^0 = 2^a
    BY <2>1, One
  <2>4. 0 \notin S
    BY <2>2, <2>3
  <2> QED BY <2>4, <1>3
<1>5. m \in 1 .. W - a
  BY <1>2, <1>3, <1>4
<1>6. m - 1 \in 0 .. W - a /\ m - 1 \notin S
  BY <1>2, <1>3, <1>5
<1>7. 2^(a + (m - 1)) = 2^a * 2^(m - 1)
  BY <1>6
<1>8. 2^((m - 1) + 1) = 2 * 2^(m - 1) /\ 2^((a + (m - 1)) + 1) = 2 * 2^(a + (m - 1))
  <2>1. m - 1 \in 0 .. W - 1 /\ a + (m - 1) \in 0 .. W - 1
    BY <1>2, <1>5
  <2> QED BY <2>1, PowersOfTwo
<1>9. (m - 1) + 1 = m /\ (a + (m - 1)) + 1 = a + m
  BY <1>2, <1>5
<1>10. 2^m = 2 * 2^(m - 1) /\ 2^(a + m) = 2 * 2^(a + (m - 1))
  BY <1>8, <1>9
<1>11. 2^a \in Nat /\ 2^(m - 1) \in Nat
  BY <1>2, <1>5, PowPos
<1>12. 2^(a + m) = 2^a * 2^m
  BY <1>7, <1>10, <1>11
<1> QED BY <1>3, <1>12

\* 2^k, taken apart at bit n.
LEMMA PowSplit ==
    ASSUME NEW k \in 0 .. W, NEW n \in 0 .. k - 1
    PROVE  \E c \in Nat : c >= 1 /\ 2^k = 2^n * (2 * c)
<1>1. W \in Nat /\ k \in Nat /\ k <= W /\ n \in Nat /\ n < k
  BY LayoutAssumption
<1>2. n \in 0 .. W /\ k - n \in 0 .. W - n /\ n + (k - n) = k
  BY <1>1
<1>3. 2^k = 2^n * 2^(k - n)
  BY <1>2, PowProduct
<1>4. (k - n) - 1 \in 0 .. W - 1 /\ (k - n) - 1 \in 0 .. W /\ ((k - n) - 1) + 1 = k - n
  BY <1>1
<1>5. 2^(k - n) = 2 * 2^((k - n) - 1)
  BY <1>4, PowersOfTwo
<1>6. 2^((k - n) - 1) \in Nat /\ 2^((k - n) - 1) >= 1
  BY <1>4, PowPos
<1> QED BY <1>3, <1>5, <1>6

\* Powers of two are ordered as their exponents are.
LEMMA PowMonotone ==
    ASSUME NEW n \in 0 .. W, NEW k \in 0 .. n
    PROVE  2^k <= 2^n
<1>1. W \in Nat /\ n \in Nat /\ k \in Nat /\ k <= n /\ n <= W
  BY LayoutAssumption
<1>2. k \in 0 .. W /\ n - k \in 0 .. W - k /\ n - k \in 0 .. W /\ k + (n - k) = n
  BY <1>1
<1>3. 2^n = 2^k * 2^(n - k)
  BY <1>2, PowProduct
<1>4. 2^k \in Nat /\ 2^(n - k) \in Nat /\ 2^(n - k) >= 1
  BY <1>2, PowPos
<1> DEFINE u == 2^k
           e == 2^(n - k)
<1>5. u \in Nat /\ e \in Nat /\ e >= 1
  BY <1>4
<1> HIDE DEF u, e
<1>6. u * e >= u
  BY <1>5
<1> QED BY <1>3, <1>6 DEF u, e

-----------------------------------------------------------------------------
(* Bits *)

\* The quotient by 2d is half the quotient by d.
LEMMA Halve ==
    ASSUME NEW x \in Nat, NEW d \in Nat, d >= 1
    PROVE  x \div d = 2 * (x \div (2 * d)) + ((x \div d) % 2)
<1> DEFINE u == x \div d
           v == x % d
           w == u \div 2
           b == u % 2
<1>1. u \in Int /\ v \in Int /\ x = d * u + v /\ 0 <= v /\ v < d
  OBVIOUS
<1> HIDE DEF u, v
<1>2. w \in Int /\ b \in {0, 1} /\ u = 2 * w + b
  BY <1>1
<1> HIDE DEF w, b
<1>3. x = (2 * d) * w + (d * b + v)
  BY <1>1, <1>2
<1>4. d * b + v \in Int /\ 0 <= d * b + v /\ d * b + v < 2 * d
  <2>1. CASE b = 0
    BY <1>1, <2>1
  <2>2. CASE b = 1
    BY <1>1, <2>2
  <2> QED BY <1>2, <2>1, <2>2
<1>5. x \div (2 * d) = w
  <2>1. 2 * d \in Nat /\ 2 * d >= 1
    OBVIOUS
  <2> QED BY <1>2, <1>3, <1>4, <2>1, DivUnique
<1> QED BY <1>2, <1>5 DEF u, b

\* The bits of 2^k - 1: ones below k, zeros above.
LEMMA BitsOfMask ==
    ASSUME NEW k \in 0 .. W, NEW n \in 0 .. W - 1
    PROVE  Bit(2^k - 1, n) = IF n < k THEN 1 ELSE 0
<1>1. W \in Nat /\ k \in Nat /\ k <= W /\ n \in Nat /\ n <= W - 1
  BY LayoutAssumption
<1>2. 2^k \in Nat /\ 2^k >= 1 /\ 2^n \in Nat /\ 2^n >= 1
  BY <1>1, PowPos
<1>3. CASE n < k
  <2>1. n \in 0 .. k - 1
    BY <1>1, <1>3
  <2>2. PICK c \in Nat : c >= 1 /\ 2^k = 2^n * (2 * c)
    BY <2>1, PowSplit
  <2> DEFINE p == 2^n
             x == 2^k - 1
  <2>3. p \in Nat /\ p >= 1 /\ x \in Nat /\ x = p * (2 * c) - 1
    BY <1>2, <2>2
  <2> HIDE DEF p, x
  <2>4. x = p * (2 * c - 1) + (p - 1)
    BY <2>3
  <2>5. x \div p = 2 * c - 1
    <3>1. 2 * c - 1 \in Int /\ p - 1 \in Int /\ 0 <= p - 1 /\ p - 1 < p /\ x \in Int
      BY <2>3
    <3> QED BY <2>3, <2>4, <3>1, DivUnique
  <2>6. (2 * c - 1) % 2 = 1
    OBVIOUS
  <2>7. (x \div p) % 2 = 1
    BY <2>5, <2>6
  <2> QED BY <2>7, <1>3 DEF Bit, p, x
<1>4. CASE n >= k
  <2>1. n \in 0 .. W /\ k \in 0 .. n
    BY <1>1, <1>4
  <2>2. 2^k <= 2^n
    BY <2>1, PowMonotone
  <2> DEFINE p == 2^n
             x == 2^k - 1
  <2>3. p \in Nat /\ p >= 1 /\ x \in Nat /\ x < p
    BY <1>2, <2>2
  <2> HIDE DEF p, x
  <2>4. x = p * 0 + x
    BY <2>3
  <2>5. x \div p = 0
    BY <2>3, <2>4, DivUnique
  <2>6. (x \div p) % 2 = 0
    BY <2>5
  <2> QED BY <2>6, <1>1, <1>4 DEF Bit, p, x
<1> QED BY <1>1, <1>3, <1>4

\* Below k, the bits of x % 2^k are those of x.
LEMMA LowBits ==
    ASSUME NEW x \in Nat, NEW k \in 0 .. W, NEW n \in 0 .. k - 1
    PROVE  Bit(x % 2^k, n) = Bit(x, n)
<1>1. W \in Nat /\ k \in Nat /\ k <= W /\ n \in Nat /\ n < k /\ n \in 0 .. W
  BY LayoutAssumption
<1>2. 2^k \in Nat /\ 2^k >= 1 /\ 2^n \in Nat /\ 2^n >= 1
  BY <1>1, PowPos
<1>3. PICK c \in Nat : c >= 1 /\ 2^k = 2^n * (2 * c)
  BY PowSplit
<1> DEFINE p == 2^n
           e == 2^k
           q == x \div e
           m == x % e
           u == m \div p
           v == m % p
<1>4. e \in Nat /\ e >= 1 /\ p \in Nat /\ p >= 1 /\ e = p * (2 * c)
  BY <1>2, <1>3
<1> HIDE DEF e, p
<1>5. q \in Int /\ m \in Int /\ x = e * q + m
  <2>1. x \in Int
    OBVIOUS
  <2> HIDE DEF u, v
  <2> QED BY <1>4, <2>1, DivMod
<1> HIDE DEF q, m
<1>6. u \in Int /\ v \in Int /\ m = p * u + v /\ 0 <= v /\ v < p
  BY <1>4, <1>5
<1> HIDE DEF u, v
<1> DEFINE g == c * q
<1>7. g \in Int /\ e * q = p * (2 * g)
  BY <1>4, <1>5
<1> HIDE DEF g
<1>8. x = p * (2 * g + u) + v
  BY <1>4, <1>5, <1>6, <1>7
<1>9. x \div p = 2 * g + u
  <2>1. 2 * g + u \in Int /\ x \in Int
    BY <1>6, <1>7
  <2> QED BY <1>4, <1>6, <1>8, <2>1, DivUnique
<1>10. (2 * g + u) % 2 = u % 2
  BY <1>6, <1>7
<1>11. (x \div p) % 2 = (m \div p) % 2
  BY <1>9, <1>10 DEF u
<1> QED BY <1>11 DEF Bit, p, m, e

\* A number has no bits beyond its length.
LEMMA NoHighBits ==
    ASSUME NEW z \in Nat, NEW k \in 0 .. W, z < 2^k, NEW n \in 0 .. W, n >= k
    PROVE  z \div 2^n = 0
<1>1. W \in Nat /\ k \in Nat /\ n \in Nat
  BY LayoutAssumption
<1>2. k \in 0 .. n
  BY <1>1
<1>3. 2^k \in Nat /\ 2^n \in Nat /\ 2^n >= 1 /\ 2^k <= 2^n
  BY <1>2, PowPos, PowMonotone
<1> DEFINE p == 2^n
<1>4. p \in Nat /\ p >= 1 /\ z < p
  BY <1>3
<1> HIDE DEF p
<1>5. z = p * 0 + z
  BY <1>4
<1>6. z \div p = 0
  BY <1>4, <1>5, DivUnique
<1> QED BY <1>6 DEF p

\* A number of k bits is known by its bits.
LEMMA BitsUnique ==
    ASSUME NEW k \in 0 .. W, NEW y \in Nat, NEW z \in Nat, y < 2^k, z < 2^k,
           \A n \in 0 .. k - 1 : Bit(y, n) = Bit(z, n)
    PROVE  y = z
<1> DEFINE S == {j \in 0 .. k : y \div 2^j = z \div 2^j}
<1>1. W \in Nat /\ k \in Nat /\ k <= W
  BY LayoutAssumption
<1>2. k \in S
  <2>1. y \div 2^k = 0 /\ z \div 2^k = 0
    BY <1>1, NoHighBits
  <2> QED BY <1>1, <2>1
<1>3. PICK m \in S : \A j \in S : m <= j
  <2>1. S \subseteq Nat
    BY <1>1
  <2> HIDE DEF S
  <2> QED BY <1>2, <2>1, Least
<1>4. CASE m = 0
  <2>1. y \div 2^0 = z \div 2^0
    BY <1>3, <1>4
  <2>2. y \div 2^0 = y /\ z \div 2^0 = z
    BY One
  <2> QED BY <2>1, <2>2
<1>5. CASE m # 0
  <2>1. m \in 1 .. k /\ m - 1 \in 0 .. k - 1 /\ m - 1 \in 0 .. W - 1 /\ m - 1 \in 0 .. W
    BY <1>1, <1>3, <1>5
  <2>2. 2^((m - 1) + 1) = 2 * 2^(m - 1) /\ (m - 1) + 1 = m
    BY <2>1, PowersOfTwo
  <2>3. 2^(m - 1) \in Nat /\ 2^(m - 1) >= 1
    BY <2>1, PowPos
  <2> DEFINE d == 2^(m - 1)
  <2>4. d \in Nat /\ d >= 1 /\ 2^m = 2 * d
    BY <2>2, <2>3
  <2>5. y \div (2 * d) = z \div (2 * d)
    BY <1>3, <2>4
  <2>6. (y \div d) % 2 = (z \div d) % 2
    BY <2>1 DEF Bit
  <2> HIDE DEF d
  <2>7. /\ y \div d = 2 * (y \div (2 * d)) + ((y \div d) % 2)
        /\ z \div d = 2 * (z \div (2 * d)) + ((z \div d) % 2)
    BY <2>4, Halve
  <2>8. y \div d = z \div d
    BY <2>5, <2>6, <2>7
  <2>9. m - 1 \in S
    BY <1>1, <2>1, <2>8 DEF d
  <2> QED BY <1>3, <2>1, <2>9
<1> QED BY <1>4, <1>5

\* The `and' with 2^k - 1 is the remainder modulo 2^k.
LEMMA AndMask ==
    ASSUME NEW x \in Nat, NEW k \in 0 .. W
    PROVE  And(x, 2^k - 1) = x % 2^k
<1>1. W \in Nat /\ k \in Nat /\ k <= W
  BY LayoutAssumption
<1>2. 2^k \in Nat /\ 2^k >= 1
  BY <1>1, PowPos
<1> DEFINE P(z) == \A n \in 0 .. W - 1 : Bit(z, n) = Bit(x, n) * Bit(2^k - 1, n)
           r == x % 2^k
<1>3. r \in 0 .. 2^k - 1
  BY <1>2
<1>4. \A z \in 0 .. 2^k - 1 : \A n \in 0 .. W - 1 : n >= k => Bit(z, n) = 0
  <2> SUFFICES ASSUME NEW z \in 0 .. 2^k - 1, NEW n \in 0 .. W - 1, n >= k
               PROVE  Bit(z, n) = 0
    OBVIOUS
  <2>1. n \in 0 .. W /\ z \in Nat /\ z < 2^k
    BY <1>1, <1>2
  <2>2. z \div 2^n = 0
    BY <2>1, NoHighBits
  <2>3. 0 % 2 = 0
    OBVIOUS
  <2> QED BY <2>2, <2>3 DEF Bit
<1>5. \A n \in 0 .. W - 1 : Bit(x, n) \in {0, 1}
  <2> SUFFICES ASSUME NEW n \in 0 .. W - 1 PROVE Bit(x, n) \in {0, 1}
    OBVIOUS
  <2>1. 2^n \in Nat /\ 2^n >= 1
    BY <1>1, PowPos
  <2>2. x \div 2^n \in Int
    BY <2>1
  <2> QED BY <2>2 DEF Bit
<1>6. P(r)
  <2> SUFFICES ASSUME NEW n \in 0 .. W - 1 PROVE Bit(r, n) = Bit(x, n) * Bit(2^k - 1, n)
    OBVIOUS
  <2>1. CASE n < k
    <3>1. n \in 0 .. k - 1
      BY <1>1, <2>1
    <3>2. Bit(r, n) = Bit(x, n)
      BY <3>1, LowBits
    <3>3. Bit(2^k - 1, n) = 1
      BY <2>1, BitsOfMask
    <3> QED BY <3>2, <3>3, <1>5
  <2>2. CASE n >= k
    <3>1. Bit(r, n) = 0
      BY <1>3, <1>4, <2>2
    <3>2. Bit(2^k - 1, n) = 0
      <4>1. ~(n < k)
        BY <1>1, <2>2
      <4> QED BY <4>1, BitsOfMask
    <3> QED BY <3>1, <3>2, <1>5
  <2> QED BY <1>1, <2>1, <2>2
<1>7. \A z \in 0 .. 2^k - 1 : P(z) => z = r
  <2> SUFFICES ASSUME NEW z \in 0 .. 2^k - 1, P(z) PROVE z = r
    OBVIOUS
  <2>1. \A n \in 0 .. W - 1 : Bit(z, n) = Bit(r, n)
    BY <1>6
  <2>2. \A n \in 0 .. k - 1 : Bit(z, n) = Bit(r, n)
    <3>1. 0 .. k - 1 \subseteq 0 .. W - 1
      BY <1>1
    <3> QED BY <2>1, <3>1
  <2>3. z \in Nat /\ r \in Nat /\ z < 2^k /\ r < 2^k
    BY <1>2, <1>3
  <2> HIDE DEF r
  <2> QED BY <2>2, <2>3, BitsUnique
<1>8. And(x, 2^k - 1) = CHOOSE z \in 0 .. 2^k - 1 : P(z)
  BY DEF And
<1> HIDE DEF P, r
<1>9. (CHOOSE z \in 0 .. 2^k - 1 : P(z)) = r
  BY <1>3, <1>6, <1>7
<1> QED BY <1>8, <1>9 DEF r

-----------------------------------------------------------------------------
(* Words *)

WordBound == 2^(W - 1)
Words == -WordBound .. WordBound - 1

\* A word has 2^W values; half of them are negative.
LEMMA WordSize ==
    /\ WordBound \in Nat /\ WordBound >= 1
    /\ 2^W = 2 * WordBound
<1>1. W - 1 \in 0 .. W - 1 /\ W - 1 \in 0 .. W /\ (W - 1) + 1 = W
  BY LayoutAssumption
<1>2. 2^W = 2 * 2^(W - 1)
  BY <1>1, PowersOfTwo
<1>3. 2^(W - 1) \in Nat /\ 2^(W - 1) >= 1
  BY <1>1, PowPos
<1> QED BY <1>2, <1>3 DEF WordBound

\* A capacity divides the number of words and is smaller than half of it.
LEMMA CapacityDivides ==
    ASSUME NEW c \in Capacities
    PROVE  /\ c \in Nat /\ c > 1 /\ c < WordBound
           /\ \E k \in 0 .. W : c = 2^k
           /\ \E e \in Nat : 2^W = c * e
<1>1. PICK k \in 1 .. W - 2 : c = 2^k
  BY LayoutAssumption
<1>2. W \in Nat /\ k \in Nat /\ 1 <= k /\ k <= W - 2
  BY LayoutAssumption
<1>3. k \in 0 .. W /\ W - k \in 0 .. W - k /\ W - k \in 0 .. W /\ k + (W - k) = W
  BY <1>2
<1>4. 2^W = c * 2^(W - k) /\ 2^(W - k) \in Nat
  BY <1>1, <1>3, PowProduct, PowPos
<1>5. c \in Nat /\ c > 1
  <2>1. k - 1 \in 0 .. W - 1 /\ k - 1 \in 0 .. W /\ (k - 1) + 1 = k
    BY <1>2
  <2>2. 2^k = 2 * 2^(k - 1)
    BY <2>1, PowersOfTwo
  <2>3. 2^(k - 1) \in Nat /\ 2^(k - 1) >= 1
    BY <2>1, PowPos
  <2> QED BY <1>1, <2>2, <2>3
<1>6. c < WordBound
  <2>1. k + 1 \in 0 .. W - 1 /\ k \in 0 .. W - 1 /\ W - 1 \in 0 .. W
    BY <1>2
  <2>2. 2^(k + 1) <= 2^(W - 1)
    BY <2>1, PowMonotone
  <2>3. 2^(k + 1) = 2 * 2^k
    BY <2>1, PowersOfTwo
  <2>4. 2 * c <= WordBound
    BY <1>1, <2>2, <2>3 DEF WordBound
  <2> QED BY <1>5, <2>4, WordSize
<1> QED BY <1>1, <1>3, <1>4, <1>5, <1>6

\* Adding multiples of c does not change a remainder modulo c.
LEMMA ModShift ==
    ASSUME NEW c \in Nat, c >= 1, NEW x \in Int, NEW j \in Int
    PROVE  (x + c * j) % c = x % c
<1> DEFINE q == x \div c
           r == x % c
<1>1. q \in Int /\ r \in Int /\ x = c * q + r /\ 0 <= r /\ r < c
  BY DivMod
<1> HIDE DEF q, r
<1> DEFINE y == x + c * j
           s == q + j
<1>2. y \in Int /\ s \in Int
  BY <1>1
<1>3. y = c * s + r
  BY <1>1
<1> HIDE DEF y, s
<1>4. y % c = r
  BY <1>1, <1>2, <1>3, DivUnique
<1> QED BY <1>4 DEF y, r

\* Wrap gives the word that differs by a multiple of 2^W.
LEMMA WrapShift ==
    ASSUME NEW x \in Int
    PROVE  Wrap(x) \in Words /\ \E j \in Int : Wrap(x) = x + 2^W * j
<1> DEFINE M == 2^W
           H == WordBound
           q == (x + H) \div M
           r == (x + H) % M
<1>1. H \in Nat /\ H >= 1 /\ M = 2 * H /\ M \in Nat /\ M >= 1 /\ x + H \in Int
  BY WordSize
<1>2. Wrap(x) = r - H
  BY DEF Wrap, WordBound
<1> HIDE DEF M, H
<1>3. q \in Int /\ r \in Int /\ x + H = M * q + r /\ 0 <= r /\ r < M
  BY <1>1, DivMod
<1> HIDE DEF q, r
<1>4. r - H \in -H .. H - 1
  BY <1>1, <1>3
<1>5. -q \in Int /\ r - H = x + M * (-q)
  BY <1>1, <1>3
<1>6. Wrap(x) \in Words
  BY <1>2, <1>4 DEF Words, H
<1>7. -q \in Int /\ Wrap(x) = x + 2^W * (-q)
  BY <1>2, <1>5 DEF M
<1> HIDE DEF Wrap
<1> QED BY <1>6, <1>7

\* Nothing else does.
LEMMA WrapUnique ==
    ASSUME NEW x \in Int, NEW y \in Words, NEW j \in Int, y = x + 2^W * j
    PROVE  Wrap(x) = y
<1> DEFINE M == 2^W
           H == WordBound
           u == x + H
           v == y + H
<1>1. H \in Nat /\ H >= 1 /\ M = 2 * H /\ M \in Nat /\ M >= 1
  BY WordSize
<1>2. y \in -H .. H - 1 /\ y = x + M * j
  BY DEF Words
<1>3. Wrap(x) = (u % M) - H
  BY DEF Wrap, WordBound
<1> HIDE DEF M, H
<1>4. u \in Int /\ v \in Int /\ 0 <= v /\ v < M /\ y = v - H /\ y \in Int
  BY <1>1, <1>2
<1>5. -j \in Int /\ u = M * (-j) + v
  BY <1>1, <1>2, <1>4
<1> HIDE DEF u, v
<1>6. u % M = v
  BY <1>1, <1>4, <1>5, DivUnique
<1> QED BY <1>3, <1>4, <1>6

\* Words may be wrapped at every step or once at the end.
LEMMA WrapTwice ==
    ASSUME NEW x \in Int, NEW y \in Int
    PROVE  Wrap(Wrap(x) + y) = Wrap(x + y)
<1> DEFINE M == 2^W
<1>1. M \in Int
  BY WordSize
<1>2. PICK i \in Int : Wrap(x) = x + M * i
  BY WrapShift
<1>3. Wrap(x + y) \in Words /\ \E j \in Int : Wrap(x + y) = (x + y) + M * j
  <2>1. x + y \in Int
    OBVIOUS
  <2> QED BY <2>1, WrapShift
<1>4. PICK j \in Int : Wrap(x + y) = (x + y) + M * j
  BY <1>3
<1>5. Wrap(x) + y \in Int
  BY <1>1, <1>2
<1>6. j - i \in Int /\ Wrap(x + y) = (Wrap(x) + y) + M * (j - i)
  BY <1>1, <1>2, <1>4
<1> QED BY <1>3, <1>5, <1>6, WrapUnique

\* A word is its own wrapping.
LEMMA WrapWord ==
    ASSUME NEW y \in Words
    PROVE  Wrap(y) = y
<1>1. y \in Int /\ 2^W \in Int
  BY WordSize DEF Words
<1>2. y = y + 2^W * 0
  BY <1>1
<1> QED BY <1>1, <1>2, WrapUnique

\* The mask of the code, on the word a difference of counters wraps to, is the
\* modulus that SpscQueue takes of it.
THEOREM MaskedMod ==
    ASSUME capacity \in Capacities, NEW x \in Int
    PROVE  Masked(x) = x % capacity
<1> DEFINE M == 2^W
           c == capacity
           w == Wrap(x)
           m == w % M
<1>1. PICK k \in 0 .. W : c = 2^k
  BY CapacityDivides
<1>2. c \in Nat /\ c >= 1 /\ \E e \in Nat : M = c * e
  BY CapacityDivides
<1>3. M \in Nat /\ M >= 1
  BY WordSize
<1>4. PICK e \in Nat : M = c * e
  BY <1>2
<1>5. PICK i \in Int : w = x + M * i
  BY WrapShift
<1>6. w \in Int
  BY <1>3, <1>5
<1>7. And(m, c - 1) = m % c
  <2>1. m \in Nat
    BY <1>3, <1>6
  <2> HIDE DEF m
  <2> QED BY <1>1, <2>1, AndMask
<1> HIDE DEF M, w
<1> DEFINE q == w \div M
<1>8. q \in Int /\ m \in Int /\ w = M * q + m
  BY <1>3, <1>6, DivMod
<1> HIDE DEF q, m
<1> DEFINE f == e * (i - q)
<1>9. f \in Int /\ m = x + c * f
  <2>1. m = x + M * (i - q)
    BY <1>3, <1>5, <1>8
  <2> QED BY <1>2, <1>4, <1>8, <2>1
<1> HIDE DEF f
<1>10. m % c = x % c
  BY <1>2, <1>9, ModShift
<1>11. Masked(x) = And(m, c - 1)
  BY DEF Masked, mask, m, w, M
<1> QED BY <1>7, <1>10, <1>11

-----------------------------------------------------------------------------
(* The counters *)

\* The counters are words, and tail is inFlight ahead of head, around the wrap.
LayoutInv ==
    /\ capacity \in Capacities /\ lineSize \in LineSizes
    /\ head \in Words
    /\ inFlight \in 0 .. capacity - 1
    /\ tail = Wrap(head + inFlight)

\* What LayoutInv says in integers.
LEMMA Distance ==
    ASSUME LayoutInv
    PROVE  /\ capacity \in Nat /\ capacity > 1 /\ capacity < WordBound
           /\ head \in Int /\ tail \in Int /\ inFlight \in Int
           /\ 0 <= inFlight /\ inFlight < capacity
           /\ \E j \in Int : tail = head + inFlight + 2^W * j
           /\ \E g \in Int : tail = head + inFlight + capacity * g
<1>1. capacity \in Nat /\ capacity > 1 /\ capacity < WordBound
  BY CapacityDivides DEF LayoutInv
<1>2. PICK e \in Nat : 2^W = capacity * e
  BY CapacityDivides DEF LayoutInv
<1>3. head \in Int /\ inFlight \in Int /\ 0 <= inFlight /\ inFlight < capacity
  BY <1>1, WordSize DEF LayoutInv, Words
<1>4. head + inFlight \in Int
  BY <1>3
<1>5. PICK j \in Int : tail = head + inFlight + 2^W * j
  BY <1>4, WrapShift DEF LayoutInv
<1>6. tail \in Int
  BY <1>4, <1>5, WordSize
<1>7. e * j \in Int /\ tail = head + inFlight + capacity * (e * j)
  BY <1>1, <1>2, <1>4, <1>5
<1> QED BY <1>1, <1>3, <1>5, <1>6, <1>7

\* preOffer's test, poll's test and size().
LEMMA MasksExact ==
    ASSUME LayoutInv
    PROVE  /\ LooksFull <=> inFlight = capacity - 1
           /\ LooksEmpty <=> inFlight = 0
           /\ size = inFlight
<1> DEFINE c == capacity
           d == inFlight
<1>1. /\ c \in Nat /\ c > 1 /\ c >= 1 /\ head \in Int /\ tail \in Int
      /\ d \in Int /\ 0 <= d /\ d < c
  BY Distance
<1>2. PICK g \in Int : tail = head + d + c * g
  BY Distance
<1>3. capacity \in Capacities
  BY DEF LayoutInv
<1>4. (tail + 1 - head) % c = (d + 1) % c
  <2>1. tail + 1 - head = (d + 1) + c * g /\ d + 1 \in Int
    BY <1>1, <1>2
  <2>2. ((d + 1) + c * g) % c = (d + 1) % c
    BY <1>1, <2>1, ModShift, Zenon
  <2> QED BY <2>1, <2>2
<1>5. (head - tail) % c = (-d) % c
  <2>1. head - tail = (-d) + c * (-g) /\ -d \in Int /\ -g \in Int
    BY <1>1, <1>2
  <2>2. ((-d) + c * (-g)) % c = (-d) % c
    BY <1>1, <2>1, ModShift, Zenon
  <2> QED BY <2>1, <2>2
<1>6. (tail - head) % c = d % c
  <2>1. tail - head = d + c * g
    BY <1>1, <1>2
  <2>2. (d + c * g) % c = d % c
    BY <1>1, <2>1, ModShift, Zenon
  <2> QED BY <2>1, <2>2
<1>7. /\ tail + 1 - head \in Int /\ head - tail \in Int /\ tail - head \in Int
  BY <1>1
<1>8. /\ LooksFull <=> (d + 1) % c = 0
      /\ LooksEmpty <=> (-d) % c = 0
      /\ size = d % c
  BY <1>3, <1>4, <1>5, <1>6, <1>7, MaskedMod DEF LooksFull, LooksEmpty, size
<1> HIDE DEF c, d
<1>9. d % c = d
  BY <1>1
<1>10. (d + 1) % c = 0 <=> d = c - 1
  <2>1. CASE d = c - 1
    BY <1>1, <2>1
  <2>2. CASE d # c - 1
    BY <1>1, <2>2
  <2> QED BY <2>1, <2>2
<1>11. (-d) % c = 0 <=> d = 0
  <2>1. CASE d = 0
    BY <1>1, <2>1
  <2>2. CASE d # 0
    <3>1. (-d) = c * (-1) + (c - d) /\ -d \in Int /\ c - d \in Int /\ 0 <= c - d /\ c - d < c
      BY <1>1, <2>2
    <3>2. (-d) % c = c - d
      BY <1>1, <3>1, DivUnique
    <3> QED BY <1>1, <2>2, <3>2
  <2> QED BY <2>1, <2>2
<1> QED BY <1>8, <1>9, <1>10, <1>11 DEF c, d

\* peek() on two words neither or both of which have wrapped.
LEMMA PeekExact ==
    ASSUME LayoutInv, tail >= head, NEW seen \in 0 .. inFlight
    PROVE  peekFindsNothing(Wrap(head + seen)) <=> inFlight = 0
<1>1. /\ capacity \in Nat /\ capacity < WordBound
      /\ head \in Int /\ tail \in Int /\ inFlight \in Int /\ 0 <= inFlight /\ inFlight < capacity
  BY Distance
<1>2. CASE inFlight = 0
  <2>1. seen = 0 /\ head + seen = head /\ head + inFlight = head
    BY <1>1, <1>2
  <2>2. Wrap(head) = head
    BY WrapWord DEF LayoutInv
  <2>3. tail = head /\ Wrap(head + seen) = head
    BY <2>1, <2>2 DEF LayoutInv
  <2> QED BY <1>1, <1>2, <2>3 DEF peekFindsNothing
<1>3. CASE inFlight > 0
  <2>1. PICK j \in Int : tail = head + inFlight + 2^W * j
    BY Distance
  <2> DEFINE M == 2^W
  <2>2. M \in Nat /\ inFlight < M /\ tail = head + inFlight + M * j
    BY <1>1, <2>1, WordSize
  <2> HIDE DEF M
  <2>3. tail # head
    <3>1. SUFFICES ASSUME tail = head PROVE FALSE
      OBVIOUS
    <3>2. M * j = -inFlight
      BY <1>1, <2>2, <3>1
    <3>3. j < 0
      <4>1. SUFFICES ASSUME j >= 0 PROVE FALSE
        OBVIOUS
      <4>2. M * j >= 0
        BY <2>2, <4>1
      <4> QED BY <1>1, <1>3, <3>2, <4>2
    <3>4. M * j <= -M
      BY <2>2, <3>3
    <3> QED BY <1>1, <2>2, <3>2, <3>4
  <2>4. ~(head >= tail)
    BY <1>1, <2>3
  <2> QED BY <1>1, <1>3, <2>4 DEF peekFindsNothing
<1> QED BY <1>1, <1>2, <1>3

LEMMA InitLayoutInv == Init => LayoutInv
<1> SUFFICES ASSUME Init PROVE LayoutInv
  OBVIOUS
<1>1. capacity \in Capacities /\ lineSize \in LineSizes /\ head = 0 /\ tail = 0 /\ inFlight = 0
  BY DEF Init
<1>2. 0 \in Words
  BY WordSize DEF Words
<1>3. Wrap(0) = 0
  BY <1>2, WrapWord
<1>4. inFlight \in 0 .. capacity - 1
  BY <1>1, CapacityDivides
<1>5. head + inFlight = 0
  BY <1>1
<1> QED BY <1>1, <1>2, <1>3, <1>4, <1>5 DEF LayoutInv

LEMMA NextLayoutInv == LayoutInv /\ [Next]_vars => LayoutInv'
<1> SUFFICES ASSUME LayoutInv, [Next]_vars PROVE LayoutInv'
  OBVIOUS
<1>1. /\ capacity \in Nat /\ head \in Int /\ tail \in Int
      /\ inFlight \in Int /\ 0 <= inFlight /\ inFlight < capacity
  BY Distance
<1>2. CASE Offer
  <2>1. /\ inFlight' = inFlight + 1 /\ tail' = Wrap(tail + 1)
        /\ capacity' = capacity /\ lineSize' = lineSize /\ head' = head
    BY <1>2 DEF Offer
  <2>2. inFlight # capacity - 1
    BY <1>2, MasksExact DEF Offer
  <2>3. inFlight + 1 \in 0 .. capacity - 1
    BY <1>1, <2>2
  <2>4. Wrap(tail + 1) = Wrap(head + (inFlight + 1))
    <3>1. head + inFlight \in Int /\ (head + inFlight) + 1 = head + (inFlight + 1)
      BY <1>1
    <3>2. Wrap(Wrap(head + inFlight) + 1) = Wrap((head + inFlight) + 1)
      BY <3>1, WrapTwice
    <3> QED BY <3>1, <3>2 DEF LayoutInv
  <2> QED BY <2>1, <2>3, <2>4 DEF LayoutInv
<1>3. CASE Release
  <2>1. /\ inFlight' = inFlight - 1 /\ head' = Wrap(head + 1)
        /\ capacity' = capacity /\ lineSize' = lineSize /\ tail' = tail
    BY <1>3 DEF Release
  <2>2. inFlight # 0
    BY <1>3, MasksExact DEF Release
  <2>3. inFlight - 1 \in 0 .. capacity - 1
    BY <1>1, <2>2
  <2>4. Wrap(head + 1) \in Words
    BY <1>1, WrapShift
  <2>5. tail = Wrap(Wrap(head + 1) + (inFlight - 1))
    <3>1. /\ head + 1 \in Int /\ inFlight - 1 \in Int
          /\ (head + 1) + (inFlight - 1) = head + inFlight
      BY <1>1
    <3>2. Wrap(Wrap(head + 1) + (inFlight - 1)) = Wrap((head + 1) + (inFlight - 1))
      BY <3>1, WrapTwice
    <3> QED BY <3>1, <3>2 DEF LayoutInv
  <2> QED BY <2>1, <2>3, <2>4, <2>5 DEF LayoutInv
<1>4. CASE UNCHANGED vars
  BY <1>4 DEF LayoutInv, vars
<1> QED BY <1>2, <1>3, <1>4 DEF Next

LEMMA LayoutInvariant == Spec => []LayoutInv
BY InitLayoutInv, NextLayoutInv, PTL DEF Spec

\* The tests of preOffer and poll, size() and, while neither or both counters
\* have wrapped, peek() are exact: for words of any length and every capacity.
THEOREM MasksAreExact == Spec => []TestsExact
<1>1. LayoutInv => TestsExact
  <2> SUFFICES ASSUME LayoutInv PROVE TestsExact
    OBVIOUS
  <2>1. tail >= head => \A seen \in 0 .. inFlight :
            peekFindsNothing(Wrap(head + seen)) <=> inFlight = 0
    BY PeekExact
  <2> QED BY <2>1, MasksExact DEF TestsExact
<1> QED BY <1>1, LayoutInvariant, PTL

\* The number of a line, behind the header.
LEMMA Offset ==
    ASSUME LayoutInv, NEW m \in 0 .. inFlight
    PROVE  /\ (head + m) % capacity \in 0 .. capacity - 1
           /\ calcElementOffset(head + m) = 256 + ((head + m) % capacity) * 64
<1>1. capacity \in Nat /\ capacity > 1 /\ head \in Int /\ inFlight \in Int
  BY Distance
<1>2. m \in Int /\ head + m \in Int
  BY <1>1
<1>3. Masked(head + m) = (head + m) % capacity
  BY <1>2, MaskedMod DEF LayoutInv
<1>4. (head + m) % capacity \in 0 .. capacity - 1
  BY <1>1, <1>2, DivMod
<1>5. 2^6 = 64
  OBVIOUS
<1>6. arrayBase = 256
  BY DEF arrayBase, CACHE_LINE_LENGTH
<1> QED BY <1>3, <1>4, <1>5, <1>6 DEF calcElementOffset

\* Two counters less than a lap apart have different lines.
LEMMA LinesDistinct ==
    ASSUME NEW c \in Nat, c > 1, NEW x \in Int, NEW y \in Int, x < y, y - x < c
    PROVE  x % c # y % c
<1> DEFINE q == x \div c
           r == x % c
           s == y \div c
<1>1. q \in Int /\ r \in Int /\ x = c * q + r
  BY DivMod
<1>2. SUFFICES ASSUME x % c = y % c PROVE FALSE
  OBVIOUS
<1>3. s \in Int /\ y = c * s + r
  BY <1>2, DivMod
<1> HIDE DEF q, r, s
<1> DEFINE e == s - q
<1>4. e \in Int /\ y - x = c * e
  BY <1>1, <1>3
<1> HIDE DEF e
<1>5. CASE e >= 1
  <2>1. c * e >= c
    BY <1>4, <1>5
  <2> QED BY <1>4, <2>1
<1>6. CASE e <= 0
  <2>1. c * e <= 0
    BY <1>4, <1>6
  <2> QED BY <1>4, <2>1
<1> QED BY <1>4, <1>5, <1>6

\* The lines of the messages in flight, and of the one being written, do not
\* overlap, wherever the counters are and whatever the capacity.
THEOREM LinesStayApart == Spec => []LinesApart
<1>1. LayoutInv => LinesApart
  <2> SUFFICES ASSUME LayoutInv, NEW m \in 0 .. inFlight, NEW n \in 0 .. inFlight, m < n
               PROVE  \/ calcElementOffset(head + m) + 64 <= calcElementOffset(head + n)
                      \/ calcElementOffset(head + n) + 64 <= calcElementOffset(head + m)
    BY DEF LinesApart, CACHE_LINE_LENGTH
  <2> DEFINE a == (head + m) % capacity
             b == (head + n) % capacity
  <2>1. /\ capacity \in Nat /\ capacity > 1 /\ head \in Int /\ inFlight \in Int
        /\ inFlight < capacity
    BY Distance
  <2>2. head + m \in Int /\ head + n \in Int /\ head + m < head + n
        /\ (head + n) - (head + m) < capacity
    BY <2>1
  <2>3. a # b
    BY <2>1, <2>2, LinesDistinct
  <2>4. a \in Int /\ b \in Int
    BY <2>1, <2>2, DivMod
  <2>5. /\ calcElementOffset(head + m) = 256 + a * 64
        /\ calcElementOffset(head + n) = 256 + b * 64
    BY Offset
  <2> HIDE DEF a, b
  <2>6. 256 + a * 64 + 64 <= 256 + b * 64 \/ 256 + b * 64 + 64 <= 256 + a * 64
    BY <2>3, <2>4
  <2> QED BY <2>5, <2>6
<1> QED BY <1>1, LayoutInvariant, PTL

\* With cache lines of 64 bytes or more every line lies behind the header and
\* inside the file the constructor makes.
THEOREM LinesStayInFile ==
    ASSUME \A s \in LineSizes : s >= CACHE_LINE_LENGTH
    PROVE  Spec => []LinesInFile
<1>1. LayoutInv => LinesInFile
  <2> SUFFICES ASSUME LayoutInv, NEW m \in 0 .. inFlight
               PROVE  /\ arrayBase <= calcElementOffset(head + m)
                      /\ calcElementOffset(head + m) + 64 <= fileSize
    BY DEF LinesInFile, CACHE_LINE_LENGTH
  <2> DEFINE a == (head + m) % capacity
  <2>1. a \in 0 .. capacity - 1 /\ calcElementOffset(head + m) = 256 + a * 64
    BY Offset
  <2> HIDE DEF a
  <2>2. capacity \in Nat /\ capacity > 1
    BY Distance
  <2>3. lineSize \in Nat /\ lineSize >= 64
    BY LayoutAssumption DEF LayoutInv, CACHE_LINE_LENGTH
  <2>4. fileSize = (8 + capacity) * lineSize /\ arrayBase = 256
    BY DEF fileSize, QUEUE_HEADER_SIZE, arrayBase, CACHE_LINE_LENGTH
  <2>5. (8 + capacity) * lineSize >= (8 + capacity) * 64
    BY <2>2, <2>3
  <2>6. 256 <= 256 + a * 64 /\ 256 + a * 64 + 64 <= (8 + capacity) * 64
    BY <2>1, <2>2
  <2>7. 256 + a * 64 + 64 <= (8 + capacity) * lineSize
    BY <2>1, <2>2, <2>3, <2>5, <2>6
  <2> QED BY <2>1, <2>4, <2>6, <2>7
<1> QED BY <1>1, LayoutInvariant, PTL
=============================================================================
