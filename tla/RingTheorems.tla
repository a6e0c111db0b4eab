---------------------------- MODULE RingTheorems ----------------------------
(***************************************************************************)
(* The arithmetic of a ring of N lines: two counters that are less than a  *)
(* lap apart.  The proofs about the queue cite these facts by name.        *)
(***************************************************************************)
EXTENDS Integers, TLAPS

\* A counter modulo N is the number of a line.
LEMMA ModInRange ==
    ASSUME NEW N \in Nat, N > 1, NEW x \in Int
    PROVE  x % N \in 0 .. N - 1
OBVIOUS

\* Two counters less than a lap apart point at different lines.
LEMMA ModDistinct ==
    ASSUME NEW N \in Nat, N > 1, NEW x \in Nat, NEW y \in Nat, x < y, y - x < N
    PROVE  x % N # y % N
<1> DEFINE qx == x \div N
           qy == y \div N
<1>1. qx \in Int /\ qy \in Int
  OBVIOUS
<1>2. x = N * qx + (x % N) /\ y = N * qy + (y % N)
  OBVIOUS
<1>3. SUFFICES ASSUME x % N = y % N PROVE FALSE
  OBVIOUS
<1>4. y - x = N * qy - N * qx
  BY <1>1, <1>2, <1>3
<1> DEFINE q == qy - qx
<1>5. q \in Int /\ y - x = N * q
  BY <1>1, <1>4
<1>6. CASE q >= 1
  <2>1. N * q >= N
    BY <1>5, <1>6
  <2> QED BY <2>1, <1>5
<1>7. CASE q <= 0
  <2>1. N * q <= 0
    BY <1>5, <1>7
  <2> QED BY <2>1, <1>5
<1> QED BY <1>5, <1>6, <1>7

\* preOffer's test is exact when the counters are less than a lap apart.
LEMMA ModFull ==
    ASSUME NEW N \in Nat, N > 1, NEW t \in Nat, NEW h \in Nat, h <= t, t - h < N
    PROVE  (t + 1 - h) % N = 0 <=> t - h = N - 1
<1>1. CASE t + 1 - h = N
  BY <1>1
<1>2. CASE t + 1 - h \in 1 .. N - 1
  BY <1>2
<1> QED BY <1>1, <1>2

\* poll's test is exact when the counters are less than a lap apart.
LEMMA ModEmpty ==
    ASSUME NEW N \in Nat, N > 1, NEW h \in Nat, NEW t \in Nat, h <= t, t - h < N
    PROVE  (h - t) % N = 0 <=> h = t
<1>1. CASE t = h
  BY <1>1
<1> DEFINE d == t - h
<1>2. CASE t > h
  <2>1. d \in 1 .. N - 1 /\ h - t = -d
    BY <1>2
  <2>2. (-d) % N # 0
    BY <2>1
  <2> QED BY <2>1, <2>2, <1>2
<1> QED BY <1>1, <1>2
=============================================================================
