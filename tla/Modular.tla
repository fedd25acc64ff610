------------------------------ MODULE Modular -------------------------------
(***************************************************************************)
(* Lemmas about \div and % that the proofs about wrapping 64-bit counters  *)
(* rest on, and about sets of naturals.                                    *)
(***************************************************************************)
EXTENDS Integers, WellFoundedInduction, TLAPS

LEMMA DivMod ==
  ASSUME NEW m \in Nat, m > 0, NEW x \in Int
  PROVE  /\ x = m * (x \div m) + (x % m)
         /\ x % m \in 0 .. m-1
         /\ x \div m \in Int
OBVIOUS

LEMMA DivModUnique ==
  ASSUME NEW m \in Nat, m > 0, NEW x \in Int,
         NEW q \in Int, NEW r \in 0 .. m-1, x = m*q + r
  PROVE  x % m = r /\ x \div m = q
OBVIOUS

LEMMA DivNat ==
  ASSUME NEW m \in Nat, m > 0, NEW x \in Int, x >= 0
  PROVE  x \div m \in Nat
OBVIOUS

LEMMA SmallMod ==
  ASSUME NEW m \in Nat, m > 0, NEW x \in 0 .. m-1
  PROVE  x % m = x
OBVIOUS

LEMMA ModPeriodic ==
  ASSUME NEW m \in Nat, m > 0, NEW x \in Int, NEW k \in Int
  PROVE  (x + m*k) % m = x % m
<1> DEFINE q == (x \div m) + k
           r == x % m
<1>1. x = m * (x \div m) + r /\ r \in 0 .. m-1 /\ x \div m \in Int
  BY DivMod
<1>2. q \in Int /\ x + m*k \in Int /\ x + m*k = m*q + r
  BY <1>1
<1> HIDE DEF q, r
<1>3. (x + m*k) % m = r
  BY <1>1, <1>2, DivModUnique
<1> QED BY <1>3 DEF r

LEMMA ModAdd ==
  ASSUME NEW m \in Nat, m > 0, NEW x \in Int, NEW y \in Int
  PROVE  ((x % m) + y) % m = (x + y) % m
<1>1. x + y = ((x % m) + y) + m * (x \div m)
  BY DivMod
<1>2. (x % m) + y \in Int /\ x \div m \in Int
  BY DivMod
<1> QED BY <1>1, <1>2, ModPeriodic

(* A counter of four lanes: reducing the lane index modulo 4u is the same  *)
(* as reducing the block index modulo u.                                   *)
LEMMA BlockOfModulo ==
  ASSUME NEW u \in Nat, u > 0, NEW x \in Int
  PROVE  ((x % (4*u)) \div 4) % u = (x \div 4) % u
<1> DEFINE q == x \div (4*u)
           r == x % (4*u)
           b == r \div 4
<1>1. x = (4*u)*q + r /\ q \in Int /\ r \in 0 .. 4*u-1
  BY DivMod, 4*u \in Nat, 4*u > 0
<1> HIDE DEF q, r
<1>2. r = 4*b + (r % 4) /\ b \in Int /\ r % 4 \in 0 .. 3 /\ u*q \in Int
  BY <1>1
<1> HIDE DEF b
<1>3. x = 4*(b + u*q) + (r % 4)
  BY <1>1, <1>2
<1>4. x \div 4 = b + u*q
  BY <1>2, <1>3, DivModUnique
<1>5. (b + u*q) % u = b % u
  BY <1>1, <1>2, ModPeriodic
<1> QED BY <1>4, <1>5 DEF b, r

LEMMA LaneOfModulo ==
  ASSUME NEW u \in Nat, u > 0, NEW x \in Int
  PROVE  (x % (4*u)) % 4 = x % 4
<1> DEFINE q == x \div (4*u)
           r == x % (4*u)
<1>1. x = (4*u)*q + r /\ q \in Int /\ r \in 0 .. 4*u-1
  BY DivMod, 4*u \in Nat, 4*u > 0
<1>2. x = r + 4*(u*q) /\ u*q \in Int
  BY <1>1
<1> QED BY <1>1, <1>2, ModPeriodic

(* Reducing modulo 4u first does not change the residue modulo u.          *)
LEMMA ModOfModulo ==
  ASSUME NEW u \in Nat, u > 0, NEW x \in Int
  PROVE  (x % (4*u)) % u = x % u
<1> DEFINE q == x \div (4*u)
           r == x % (4*u)
<1>1. x = (4*u)*q + r /\ q \in Int /\ r \in 0 .. 4*u-1
  BY DivMod, 4*u \in Nat, 4*u > 0
<1> HIDE DEF q, r
<1> DEFINE k == 4*q
<1>2. x = r + u*k /\ k \in Int /\ r \in Int
  BY <1>1
<1> HIDE DEF k
<1>3. (r + u*k) % u = r % u
  BY <1>2, ModPeriodic
<1>4. x % u = r % u
  BY <1>2, <1>3
<1> QED BY <1>4 DEF r

(* Wrapping the block counter moves the lane index by a multiple of 4u.    *)
LEMMA WrapBlock ==
  ASSUME NEW u \in Nat, u > 0, NEW c \in Int, NEW y \in Int
  PROVE  (4 * (c % u) + y) % (4*u) = (4*c + y) % (4*u)
<1> DEFINE q == c \div u
           r == c % u
<1>1. c = u*q + r /\ q \in Int /\ r \in 0 .. u-1
  BY DivMod
<1> HIDE DEF q, r
<1>2. /\ 4*c + y = (4*r + y) + (4*u)*q
      /\ 4*r + y \in Int /\ 4*u \in Nat /\ 4*u > 0
  BY <1>1
<1>3. (4*c + y) % (4*u) = (4*r + y) % (4*u)
  BY <1>1, <1>2, ModPeriodic
<1> QED BY <1>3 DEF r

-----------------------------------------------------------------------------
(* A nonempty set of naturals has a least element.                         *)
LEMMA LeastNatural ==
  ASSUME NEW S \in SUBSET Nat, S # {}
  PROVE  \E n \in S : \A m \in S : n <= m
<1> DEFINE Less == {p \in Nat \X Nat : p[1] < p[2]}
<1>1. IsWellFoundedOn(Less, Nat)
  BY NatLessThanWellFounded DEF OpToRel
<1>2. PICK n \in S : \A m \in S : ~(<<m, n>> \in Less)
  BY <1>1, WFMin
<1>3. \A m \in S : n <= m
  <2> SUFFICES ASSUME NEW m \in S PROVE n <= m
    OBVIOUS
  <2>1. <<m, n>> \in Nat \X Nat /\ ~(m < n)
    BY <1>2
  <2> QED
    BY <2>1
<1> QED
  BY <1>3

(* Induction: a set of naturals that has 0, and with each number the next, *)
(* has them all.                                                           *)
LEMMA AllNaturals ==
  ASSUME NEW S \in SUBSET Nat, 0 \in S, \A n \in S : n + 1 \in S
  PROVE  S = Nat
<1> DEFINE T == Nat \ S
<1>1. SUFFICES ASSUME T # {} PROVE FALSE
  OBVIOUS
<1>2. T \in SUBSET Nat
  OBVIOUS
<1>3. PICK n \in T : \A m \in T : n <= m
  <2> HIDE DEF T
  <2> QED
    BY <1>1, <1>2, LeastNatural
<1>4. n \in Nat /\ n # 0
  BY <1>3
<1>5. n - 1 \in Nat /\ n - 1 \notin T
  BY <1>3, <1>4
<1>6. (n - 1) + 1 = n
  BY <1>4
<1> QED
  BY <1>3, <1>5, <1>6

(* Definition by recursion: any first value and any step define a function.*)
StepOn(F, V) == F \in [Nat \X V -> V]
Recurs(f, V, a, F) ==
  f \in [Nat -> V] /\ f[0] = a /\ \A n \in Nat : f[n+1] = F[<<n, f[n]>>]

LEMMA Recursion ==
  \A V, a, F : a \in V /\ StepOn(F, V) => \E f : Recurs(f, V, a, F)
<1> SUFFICES ASSUME NEW V, NEW a \in V, NEW F \in [Nat \X V -> V]
             PROVE  \E f : Recurs(f, V, a, F)
  BY DEF StepOn
<1> DEFINE Start(n, g) == g[0] = a /\ \A k \in 0 .. n-1 : g[k+1] = F[<<k, g[k]>>]
           Starts == {n \in Nat : \E g \in [0 .. n -> V] : Start(n, g)}
           G(n) == CHOOSE g \in [0 .. n -> V] : Start(n, g)
           f == [n \in Nat |-> G(n)[n]]
<1>1. Starts = Nat
  <2>1. 0 \in Starts
    <3> DEFINE g == [k \in 0 .. 0 |-> a]
    <3>1. g \in [0 .. 0 -> V] /\ Start(0, g)
      OBVIOUS
    <3> QED
      BY <3>1
  <2>2. ASSUME NEW n \in Starts PROVE n + 1 \in Starts
    <3>1. PICK g \in [0 .. n -> V] : Start(n, g)
      OBVIOUS
    <3>2. g[n] \in V /\ F[<<n, g[n]>>] \in V
      OBVIOUS
    <3> DEFINE h == [k \in 0 .. n+1 |-> IF k = n + 1 THEN F[<<n, g[n]>>] ELSE g[k]]
    <3>3. h \in [0 .. n+1 -> V]
      BY <3>2
    <3>4. \A k \in 0 .. n : h[k] = g[k]
      OBVIOUS
    <3>5. h[n+1] = F[<<n, h[n]>>]
      BY <3>4
    <3>6. \A k \in 0 .. n : h[k+1] = F[<<k, h[k]>>]
      <4> SUFFICES ASSUME NEW k \in 0 .. n PROVE h[k+1] = F[<<k, h[k]>>]
        OBVIOUS
      <4>1. CASE k = n
        BY <3>5, <4>1
      <4>2. CASE k # n
        <5>1. k \in 0 .. n-1 /\ k + 1 \in 0 .. n
          BY <4>2
        <5>2. h[k] = g[k] /\ h[k+1] = g[k+1]
          BY <3>4, <5>1
        <5> QED
          BY <3>1, <5>1, <5>2
      <4> QED
        BY <4>1, <4>2
    <3>7. h[0] = a
      BY <3>1, <3>4
    <3>8. n + 1 \in Nat /\ (n + 1) - 1 = n
      OBVIOUS
    <3> HIDE DEF h
    <3> QED
      BY <3>3, <3>6, <3>7, <3>8
  <2> HIDE DEF Starts
  <2> QED
    BY <2>1, <2>2, AllNaturals, Starts \subseteq Nat DEF Starts
<1>2. ASSUME NEW n \in Nat PROVE G(n) \in [0 .. n -> V] /\ Start(n, G(n))
  <2>1. \E g \in [0 .. n -> V] : Start(n, g)
    BY <1>1
  <2> HIDE DEF Start
  <2> QED
    BY <2>1
<1> HIDE DEF G
<1>3. ASSUME NEW n \in Nat PROVE G(n + 1)[n] = G(n)[n]
  <2> DEFINE Same == {k \in Nat : k <= n => G(n + 1)[k] = G(n)[k]}
  <2>1. Start(n, G(n)) /\ Start(n + 1, G(n + 1))
    BY <1>2
  <2>2. 0 \in Same
    BY <2>1
  <2>3. ASSUME NEW k \in Same PROVE k + 1 \in Same
    <3> SUFFICES ASSUME k + 1 <= n PROVE G(n + 1)[k+1] = G(n)[k+1]
      OBVIOUS
    <3>1. k \in 0 .. n-1 /\ k \in 0 .. (n+1)-1 /\ G(n + 1)[k] = G(n)[k]
      OBVIOUS
    <3>2. G(n)[k+1] = F[<<k, G(n)[k]>>]
      BY <2>1, <3>1
    <3>3. G(n + 1)[k+1] = F[<<k, G(n + 1)[k]>>]
      BY <2>1, <3>1
    <3> QED
      BY <3>1, <3>2, <3>3
  <2>4. Same = Nat
    <3> HIDE DEF Same
    <3> QED
      BY <2>2, <2>3, AllNaturals, Same \subseteq Nat DEF Same
  <2> QED
    BY <2>4
<1>4. f \in [Nat -> V]
  BY <1>2
<1>5. f[0] = a /\ \A n \in Nat : f[n+1] = F[<<n, f[n]>>]
  <2>1. f[0] = a
    BY <1>2
  <2>2. ASSUME NEW n \in Nat PROVE f[n+1] = F[<<n, f[n]>>]
    <3>1. n \in 0 .. (n+1)-1 /\ n + 1 \in Nat
      OBVIOUS
    <3>2. G(n + 1)[n+1] = F[<<n, G(n + 1)[n]>>]
      BY <1>2, <3>1
    <3>3. f[n+1] = G(n + 1)[n+1] /\ f[n] = G(n)[n]
      BY <3>1
    <3> QED
      BY <1>3, <3>2, <3>3
  <2> QED
    BY <2>1, <2>2
<1> QED
  BY <1>4, <1>5 DEF Recurs

=============================================================================
