--------------------------- MODULE AnalysisProofs ----------------------------
(***************************************************************************)
(* For every number of hashes, bins, outliers and shape of a grid: what    *)
(* TestHashListImpl() shows of the differences of hashes is right. For     *)
(* every list of hashes, width of them and choice of tests: so is what     *)
(* TestCollisions() reports and lists, and it leaves the hashes and their  *)
(* indices in the list as it found them, from either end.                  *)
(***************************************************************************)
EXTENDS DeltaOutliers, CollisionList, Modular, FiniteSetTheorems, TLAPS

-----------------------------------------------------------------------------
(* The differences are where DifferentialIdxs() expects them.              *)

LEMMA Limits ==
  /\ nbC \in Nat /\ nbC > 0 /\ nOutliers \in Nat /\ nOutliers > 0
  /\ maxEntries \in Nat /\ maxEntries > 0 /\ maxPerEntry \in Nat /\ maxPerEntry > 0
  /\ maxlen \in Nat
BY LimitsAssumption

DeltaTypes ==
  /\ nbH \in Nat /\ nbH > 0 /\ testDeltaNum \in Nat /\ testDeltaNum > 0
  /\ nbH % testDeltaNum = 0
  /\ pc \in {"x", "y", "done"}
  /\ hnb \in Nat /\ hprv \in Nat
  /\ hashdeltas_x \in Seq(SUBSET Int) /\ hashdeltas_y \in Seq(SUBSET Int)

(* The index of the hash next to one, along the row or the column.         *)
NextX(idx) ==
  (((idx % testDeltaNum) + 1) % testDeltaNum) + ((idx \div testDeltaNum) * testDeltaNum)
NextY(idx) ==
  (idx % testDeltaNum)
  + ((((idx \div testDeltaNum) + 1) % (nbH \div testDeltaNum)) * testDeltaNum)

PairsMade ==
  testDeltaNum = 2 =>
    /\ pc \in {"x", "done"} /\ hashdeltas_y = <<>>
    /\ pc = "x" => hnb < nbH /\ hnb % 2 = 0 /\ Len(hashdeltas_x) = hnb \div 2
    /\ \A idx \in 0 .. Len(hashdeltas_x) - 1 : hashdeltas_x[idx + 1] = {2 * idx, 2 * idx + 1}

RowsMade ==
  testDeltaNum > 2 =>
    /\ pc = "x" => /\ hnb < nbH
                   /\ hnb % testDeltaNum # 0 => hprv = hnb - 1
                   /\ Len(hashdeltas_x) = IF hnb % testDeltaNum = 0 THEN hnb ELSE hnb - 1
    /\ \A idx \in 0 .. Len(hashdeltas_x) - 1 : hashdeltas_x[idx + 1] = {idx, NextX(idx)}

ColumnsMade ==
  testDeltaNum > 2 =>
    /\ pc = "x" => hashdeltas_y = <<>>
    /\ pc = "y" => hnb < nbH /\ Len(hashdeltas_y) = hnb
    /\ pc = "done" => Len(hashdeltas_y) = nbH
    /\ \A idx \in 0 .. Len(hashdeltas_y) - 1 : hashdeltas_y[idx + 1] = {idx, NextY(idx)}

DeltaInv == DeltaTypes /\ PairsMade /\ RowsMade /\ ColumnsMade

LEMMA DeltaInit == Init => DeltaInv
<1> SUFFICES ASSUME Init PROVE DeltaInv
  OBVIOUS
<1>1. D!Init
  BY DEF Init
<1>2. /\ nbH \in Nat /\ nbH > 0 /\ testDeltaNum \in Nat /\ testDeltaNum > 0
      /\ nbH % testDeltaNum = 0
      /\ pc = "x" /\ hnb = 0 /\ hprv = 0 /\ hashdeltas_x = <<>> /\ hashdeltas_y = <<>>
  BY <1>1, SizesAssumption DEF D!Init
<1>3. 0 % testDeltaNum = 0
  BY <1>2, SmallMod
<1>4. Len(hashdeltas_x) = 0 /\ Len(hashdeltas_y) = 0 /\ hashdeltas_x \in Seq(SUBSET Int)
  BY <1>2
<1> QED
  BY <1>2, <1>3, <1>4 DEF DeltaInv, DeltaTypes, PairsMade, RowsMade, ColumnsMade

LEMMA Appended ==
  ASSUME NEW V, NEW s \in Seq(V), NEW e \in V
  PROVE  /\ Append(s, e) \in Seq(V) /\ Len(Append(s, e)) = Len(s) + 1 /\ Len(s) \in Nat
         /\ \A k \in 1 .. Len(s) : Append(s, e)[k] = s[k]
         /\ Append(s, e)[Len(s) + 1] = e
OBVIOUS

(* Along a column the last row is followed by the first.                   *)
LEMMA BelowInColumn ==
  ASSUME NEW n \in Nat, n > 0, NEW t \in Nat, t > 0, n % t = 0, NEW k \in Nat, k < n
  PROVE  /\ (k + t) % n \in Nat
         /\ (((k + t) % n) - t) % n = k
         /\ (k + t) % n = (k % t) + ((((k \div t) + 1) % (n \div t)) * t)
<1> DEFINE q == n \div t
           y == k \div t
           x == k % t
           h == (k + t) % n
<1>1. n = t * q /\ q \in Int /\ k = t * y + x /\ x \in 0 .. t-1 /\ y \in Int
  BY DivMod
<1>2. q > 0 /\ y >= 0 /\ y < q
  <2>1. ASSUME q <= 0 PROVE FALSE
    <3>1. 0 - q \in Nat /\ t * (0 - q) \in Nat /\ t * (0 - q) = 0 - t * q
      BY <1>1, <2>1
    <3> QED
      BY <1>1, <3>1
  <2>2. ASSUME y < 0 PROVE FALSE
    <3>1. (0 - y) - 1 \in Nat /\ t * ((0 - y) - 1) \in Nat /\ t * ((0 - y) - 1) = (0 - t * y) - t
      BY <1>1, <2>2
    <3> QED
      BY <1>1, <3>1
  <2>3. ASSUME y >= q PROVE FALSE
    <3>1. y - q \in Nat /\ t * (y - q) \in Nat /\ t * (y - q) = t * y - t * q
      BY <1>1, <2>3
    <3> QED
      BY <1>1, <3>1
  <2> QED
    BY <1>1, <2>1, <2>2, <2>3
<1>3. CASE y + 1 < q
  <2>1. t * (q - (y + 1) - 1) \in Nat /\ t * (q - (y + 1) - 1) = t * q - t * y - t - t
    <3>1. q - (y + 1) - 1 \in Nat
      BY <1>1, <1>3
    <3> QED
      BY <1>1, <3>1
  <2>2. k + t \in 0 .. n-1
    <3> DEFINE a == t * q
               b == t * y
    <3>1. n = a /\ k = b + x /\ x \in 0 .. t-1 /\ a - b - t - t >= 0 /\ a \in Int /\ b \in Int
      BY <1>1, <2>1
    <3> HIDE DEF a, b, x
    <3> QED
      BY <3>1
  <2>3. h = k + t
    BY <2>2, SmallMod
  <2>4. (h - t) % n = k
    BY <2>3, SmallMod
  <2>5. (y + 1) % q = y + 1
    BY <1>1, <1>2, <1>3, SmallMod
  <2>6. k + t = x + ((y + 1) * t)
    BY <1>1
  <2> HIDE DEF h, x, y, q
  <2>7. h \in Nat /\ (h - t) % n = k /\ h = x + (((y + 1) % q) * t)
    BY <2>3, <2>4, <2>5, <2>6
  <2> QED
    BY <2>7 DEF h, x, y, q
<1>4. CASE y + 1 = q
  <2>1. k + t = n + x /\ x < n
    <3>1. t * (y + 1) = t * y + t
      BY <1>1
    <3>2. t * y \in Nat
      BY <1>1, <1>2
    <3> DEFINE a == t * y
    <3>3. n = a + t /\ k = a + x /\ a \in Nat /\ x \in 0 .. t-1
      BY <1>1, <1>4, <3>1, <3>2
    <3> HIDE DEF a, x
    <3> QED
      BY <3>3
  <2>2. x \in 0 .. n-1
    BY <1>1, <2>1
  <2>3. h = x
    BY <1>1, <2>1, <2>2, DivModUnique
  <2>4. h - t = n * (0 - 1) + k
    BY <1>1, <2>1, <2>3
  <2>5. (h - t) % n = k
    <3>1. h - t \in Int /\ 0 - 1 \in Int /\ k \in 0 .. n-1
      BY <1>1, <2>3
    <3> QED
      BY <2>4, <3>1, DivModUnique
  <2>6. (y + 1) % q = 0
    BY <1>1, <1>2, <1>4, DivModUnique
  <2> HIDE DEF h, x, y, q
  <2>7. h \in Nat /\ (h - t) % n = k /\ h = x + (((y + 1) % q) * t)
    BY <1>1, <2>3, <2>5, <2>6
  <2> QED
    BY <2>7 DEF h, x, y, q
<1> QED
  BY <1>1, <1>2, <1>3, <1>4

(* Along a row the last is followed by the first of the row.               *)
LEMMA NextInRow ==
  ASSUME NEW t \in Nat, t > 1, NEW k \in Nat
  PROVE  /\ k % t \in 0 .. t-1
         /\ k % t = t-1 => /\ (k + 1) % t = 0
                           /\ (((k % t) + 1) % t) + ((k \div t) * t) = k - (t-1)
                           /\ k - (t-1) \in Nat
         /\ k % t # t-1 => /\ (k + 1) % t = (k % t) + 1
                           /\ (((k % t) + 1) % t) + ((k \div t) * t) = k + 1
<1> DEFINE y == k \div t
           x == k % t
<1>1. k = t * y + x /\ x \in 0 .. t-1 /\ y \in Int /\ y \in Nat
  BY DivMod, DivNat
<1>2. CASE x = t-1
  <2>1. k + 1 = t * (y + 1) + 0 /\ x + 1 = t * 1 + 0 /\ y + 1 \in Int /\ 0 \in 0 .. t-1
    BY <1>1, <1>2
  <2>2. (k + 1) % t = 0 /\ (x + 1) % t = 0
    BY <1>1, <2>1, DivModUnique
  <2>3. 0 + (y * t) = k - (t-1) /\ y * t \in Nat
    BY <1>1, <1>2
  <2> HIDE DEF x, y
  <2>4. /\ (k + 1) % t = 0 /\ ((x + 1) % t) + (y * t) = k - (t-1) /\ k - (t-1) \in Nat
    BY <2>2, <2>3
  <2> QED
    BY <1>1, <1>2, <2>4 DEF x, y
<1>3. CASE x # t-1
  <2>1. k + 1 = t * y + (x + 1) /\ x + 1 \in 0 .. t-1
    BY <1>1, <1>3
  <2>2. (k + 1) % t = x + 1
    <3>1. k + 1 \in Int
      OBVIOUS
    <3> HIDE DEF x, y
    <3> QED
      BY <1>1, <2>1, <3>1, DivModUnique
  <2>4. (x + 1) % t = x + 1
    <3> HIDE DEF x, y
    <3> QED
      BY <2>1, SmallMod
  <2>3. (x + 1) + (y * t) = k + 1
    BY <1>1
  <2> HIDE DEF x, y
  <2>5. (k + 1) % t = x + 1 /\ ((x + 1) % t) + (y * t) = k + 1
    BY <2>2, <2>3, <2>4
  <2> QED
    BY <1>1, <1>3, <2>5 DEF x, y
<1> QED
  BY <1>2, <1>3

LEMMA NextXIs ==
  ASSUME testDeltaNum \in Nat, testDeltaNum > 2, NEW k \in Nat
  PROVE  /\ k % testDeltaNum \in 0 .. testDeltaNum-1
         /\ k % testDeltaNum = testDeltaNum-1 => /\ (k + 1) % testDeltaNum = 0
                                                /\ NextX(k) = k - (testDeltaNum-1)
         /\ k % testDeltaNum # testDeltaNum-1 =>
              /\ (k + 1) % testDeltaNum = (k % testDeltaNum) + 1
              /\ NextX(k) = k + 1
<1>1. testDeltaNum > 1
  OBVIOUS
<1>2. ASSUME NEW t \in Nat, t > 1, t = testDeltaNum
      PROVE  /\ k % t \in 0 .. t-1
             /\ k % t = t-1 => (k + 1) % t = 0 /\ NextX(k) = k - (t-1)
             /\ k % t # t-1 => (k + 1) % t = (k % t) + 1 /\ NextX(k) = k + 1
  <2>1. NextX(k) = (((k % t) + 1) % t) + ((k \div t) * t)
    BY <1>2 DEF NextX
  <2>2. /\ k % t \in 0 .. t-1
        /\ k % t = t-1 => /\ (k + 1) % t = 0
                          /\ (((k % t) + 1) % t) + ((k \div t) * t) = k - (t-1)
        /\ k % t # t-1 => /\ (k + 1) % t = (k % t) + 1
                          /\ (((k % t) + 1) % t) + ((k \div t) * t) = k + 1
    BY <1>2, NextInRow
  <2> QED
    BY <2>1, <2>2, Zenon
<1> QED
  BY <1>1, <1>2

LEMMA PairStep ==
  ASSUME DeltaInv, D!Pair
  PROVE  DeltaInv'
<1> DEFINE L == Len(hashdeltas_x)
           e == {hnb, hnb + 1}
           s == hashdeltas_x'
<1>1. /\ pc = "x" /\ testDeltaNum = 2 /\ s = Append(hashdeltas_x, e)
      /\ \/ hnb + 2 < nbH /\ hnb' = hnb + 2 /\ pc' = pc
         \/ hnb' = 0 /\ pc' = "done"
      /\ nbH' = nbH /\ testDeltaNum' = testDeltaNum /\ hprv' = hprv /\ hashdeltas_y' = hashdeltas_y
  BY DEF D!Pair, D!Iterate, D!args
<1>2. /\ DeltaTypes /\ hnb % 2 = 0 /\ L = hnb \div 2 /\ hashdeltas_y = <<>>
      /\ \A idx \in 0 .. L-1 : hashdeltas_x[idx + 1] = {2 * idx, 2 * idx + 1}
  BY <1>1 DEF DeltaInv, PairsMade
<1>3. hashdeltas_x \in Seq(SUBSET Int) /\ e \in SUBSET Int /\ hnb \in Nat
  BY <1>2 DEF DeltaTypes
<1>4. /\ s \in Seq(SUBSET Int) /\ Len(s) = L + 1 /\ L \in Nat
      /\ \A k \in 1 .. L : s[k] = hashdeltas_x[k]
      /\ s[L + 1] = e
  BY <1>1, <1>3, Appended
<1>5. hnb = 2 * L
  BY <1>2, <1>3, DivMod
<1>6. DeltaTypes'
  BY <1>1, <1>2, <1>4 DEF DeltaTypes
<1> HIDE DEF s
<1>7. ASSUME NEW idx \in 0 .. Len(s) - 1 PROVE s[idx + 1] = {2 * idx, 2 * idx + 1}
  <2>1. CASE idx = L
    BY <1>4, <1>5, <2>1
  <2>2. CASE idx # L
    <3>1. idx \in 0 .. L-1 /\ idx + 1 \in 1 .. L
      BY <1>4, <2>2
    <3> QED
      BY <1>2, <1>4, <3>1
  <2> QED
    BY <2>1, <2>2
<1>8. (hnb + 2) % 2 = 0 /\ (hnb + 2) \div 2 = L + 1
  <2>1. hnb + 2 = 2 * (L + 1) + 0 /\ L + 1 \in Int /\ hnb + 2 \in Int /\ 0 \in 0 .. 2-1
    BY <1>4, <1>5
  <2> QED
    BY <2>1, DivModUnique
<1>9. PairsMade'
  BY <1>1, <1>2, <1>4, <1>7, <1>8 DEF PairsMade, s
<1> QED
  BY <1>1, <1>6, <1>9 DEF DeltaInv, RowsMade, ColumnsMade

LEMMA RowStep ==
  ASSUME DeltaInv, D!AlongX
  PROVE  DeltaInv'
<1> DEFINE Row == D!RowLength
           first == hnb % Row = 0
           last == hnb % Row = Row - 1
           p == IF first THEN <<>> ELSE <<{hnb, hprv}>>
           q == IF last THEN <<{hnb - (Row - 1), hnb}>> ELSE <<>>
           L == Len(hashdeltas_x)
           V == SUBSET Int
<1>1. /\ pc = "x" /\ testDeltaNum # 2 /\ hashdeltas_x' = hashdeltas_x \o (p \o q)
      /\ hprv' = hnb
      /\ \/ hnb + 1 < nbH /\ hnb' = hnb + 1 /\ pc' = pc
         \/ hnb' = 0 /\ pc' = (IF testDeltaNum = 1 THEN "done" ELSE "y")
      /\ nbH' = nbH /\ testDeltaNum' = testDeltaNum /\ hashdeltas_y' = hashdeltas_y
  BY DEF D!AlongX, D!Iterate, D!args
<1>2. DeltaTypes
  BY DEF DeltaInv
<1>3. Row \in Nat /\ hnb \in Nat /\ hprv \in Nat
  BY <1>2 DEF DeltaTypes, D!RowLength
<1>4. p \in Seq(V) /\ q \in Seq(V) /\ hashdeltas_x \in Seq(V)
  <2>1. {hnb, hprv} \in V /\ {hnb - (Row - 1), hnb} \in V
    BY <1>3
  <2>2. hashdeltas_x \in Seq(V)
    BY <1>2 DEF DeltaTypes
  <2>3. \A v \in V : <<v>> \in Seq(V)
    OBVIOUS
  <2>4. <<>> \in Seq(V)
    OBVIOUS
  <2> HIDE DEF V
  <2> QED
    BY <2>1, <2>2, <2>3, <2>4
<1>5. hashdeltas_x' \in Seq(V)
  <2>1. \A s, r \in Seq(V) : s \o r \in Seq(V)
    OBVIOUS
  <2> HIDE DEF V, p, q
  <2> QED
    BY <1>1, <1>4, <2>1
<1>6. DeltaTypes'
  <2>1. hnb' \in Nat /\ pc' \in {"x", "y", "done"} /\ hprv' \in Nat
    BY <1>1, <1>3
  <2> HIDE DEF p, q
  <2>2. hashdeltas_x' \in Seq(SUBSET Int) /\ hashdeltas_y' \in Seq(SUBSET Int)
    BY <1>1, <1>2, <1>5 DEF DeltaTypes
  <2>3. nbH' = nbH /\ testDeltaNum' = testDeltaNum
    BY <1>1
  <2> QED
    BY ONLY <1>2, <2>1, <2>2, <2>3 DEF DeltaTypes
<1>7. PairsMade'
  BY <1>1 DEF PairsMade
<1>8. CASE testDeltaNum > 2
  <2> DEFINE t == testDeltaNum
             x == hnb % t
             s == hashdeltas_x'
  <2>1. /\ Row = t /\ t \in Nat /\ t > 2 /\ hnb < nbH /\ nbH \in Nat /\ hashdeltas_y = <<>>
        /\ x # 0 => hprv = hnb - 1
        /\ L = (IF x = 0 THEN hnb ELSE hnb - 1)
        /\ \A idx \in 0 .. L-1 : hashdeltas_x[idx + 1] = {idx, NextX(idx)}
        /\ L \in Nat
    BY <1>1, <1>2, <1>8, <1>4 DEF DeltaTypes, D!RowLength, DeltaInv, RowsMade, ColumnsMade
  <2>2. /\ x \in 0 .. t-1
        /\ x = t-1 => (hnb + 1) % t = 0 /\ NextX(hnb) = hnb - (t-1)
        /\ x # t-1 => (hnb + 1) % t = x + 1
    BY <1>3, <2>1, NextXIs
  <2>3. x # 0 => NextX(hnb - 1) = hnb
    <3> SUFFICES ASSUME x # 0 PROVE NextX(hnb - 1) = hnb
      OBVIOUS
    <3>1. hnb - 1 \in Nat
      <4>1. hnb # 0
        BY <2>1, SmallMod
      <4> QED
        BY <1>3, <4>1
    <3>2. (hnb - 1) % t # t-1
      <4>1. (hnb - 1) + 1 = hnb
        BY <1>3
      <4> QED
        BY <2>1, <3>1, <4>1, NextXIs
    <3> QED
      <4>1. NextX(hnb - 1) = (hnb - 1) + 1
        BY <2>1, <3>1, <3>2, NextXIs
      <4> QED
        BY <1>3, <4>1
  <2>4. /\ Len(s) = (IF x = 0 THEN hnb ELSE IF x = t-1 THEN hnb + 1 ELSE hnb)
        /\ \A idx \in 0 .. Len(s) - 1 : s[idx + 1] = {idx, NextX(idx)}
    <3>1. CASE x = 0
      <4>1. p = <<>> /\ q = <<>>
        BY <2>1, <3>1
      <4>2. s = hashdeltas_x
        BY <1>1, <1>4, <4>1
      <4> QED
        BY <2>1, <3>1, <4>2
    <3>2. CASE x # 0
      <4> DEFINE e == {hnb, hprv}
                 u == Append(hashdeltas_x, e)
      <4>1. p = <<e>> /\ e = {hnb - 1, NextX(hnb - 1)} /\ e \in V /\ L = hnb - 1
        BY <1>3, <2>1, <2>3, <3>2
      <4>2. /\ u \in Seq(V) /\ Len(u) = hnb
            /\ \A k \in 1 .. L : u[k] = hashdeltas_x[k]
            /\ u[L + 1] = e
        <5>1. /\ u \in Seq(V) /\ Len(u) = L + 1
              /\ \A k \in 1 .. L : u[k] = hashdeltas_x[k]
              /\ u[L + 1] = e
          <6> HIDE DEF V, e
          <6> QED
            BY <1>4, <4>1, Appended
        <5> QED
          BY <1>3, <4>1, <5>1
      <4> HIDE DEF e, u
      <4>3. ASSUME NEW idx \in 0 .. hnb - 1 PROVE u[idx + 1] = {idx, NextX(idx)}
        <5>1. CASE idx = L
          BY <4>1, <4>2, <5>1
        <5>2. CASE idx # L
          <6>1. idx \in 0 .. L-1 /\ idx + 1 \in 1 .. L
            BY <1>3, <2>1, <4>1, <5>2
          <6> QED
            BY <2>1, <4>2, <6>1
        <5> QED
          BY <5>1, <5>2
      <4>4. CASE x # t-1
        <5>1. q = <<>>
          BY <2>1, <4>4
        <5>2. s = u
          <6>1. \A r \in Seq(V), v \in V : r \o (<<v>> \o <<>>) = Append(r, v)
            OBVIOUS
          <6>2. s = hashdeltas_x \o (<<e>> \o <<>>)
            BY <1>1, <4>1, <5>1
          <6> HIDE DEF V, s
          <6> QED
            BY <1>4, <4>1, <6>1, <6>2 DEF u
        <5> QED
          BY <1>3, <3>2, <4>2, <4>3, <4>4, <5>2
      <4>5. CASE x = t-1
        <5> DEFINE f == {hnb - (Row - 1), hnb}
        <5>1. q = <<f>> /\ f = {hnb, NextX(hnb)} /\ f \in V
          BY <1>3, <2>1, <2>2, <4>5
        <5>2. s = Append(u, f)
          <6>1. \A r \in Seq(V), v, w \in V : r \o (<<v>> \o <<w>>) = Append(Append(r, v), w)
            OBVIOUS
          <6>2. s = hashdeltas_x \o (<<e>> \o <<f>>)
            BY <1>1, <4>1, <5>1
          <6> HIDE DEF V, s, f
          <6> QED
            BY <1>4, <4>1, <5>1, <6>1, <6>2 DEF u
        <5>3. /\ Len(s) = hnb + 1
              /\ \A k \in 1 .. hnb : s[k] = u[k]
              /\ s[hnb + 1] = f
          <6> HIDE DEF V, s, f
          <6> QED
            BY <4>2, <5>1, <5>2, Appended
        <5> HIDE DEF s, f
        <5>4. ASSUME NEW idx \in 0 .. Len(s) - 1 PROVE s[idx + 1] = {idx, NextX(idx)}
          <6>1. CASE idx = hnb
            BY <5>1, <5>3, <6>1
          <6>2. CASE idx # hnb
            <7>1. idx \in 0 .. hnb - 1 /\ idx + 1 \in 1 .. hnb
              BY <1>3, <5>3, <6>2
            <7> QED
              BY <4>3, <5>3, <7>1
          <6> QED
            BY <6>1, <6>2
        <5> QED
          BY <2>1, <3>2, <4>5, <5>3, <5>4
      <4> QED
        BY <4>4, <4>5
    <3> QED
      BY <3>1, <3>2
  <2>5. \A idx \in 0 .. Len(s) - 1 : NextX(idx)' = NextX(idx)
    BY <1>1 DEF NextX
  <2>6. pc' = "x" => /\ hnb' < nbH'
                     /\ hnb' % testDeltaNum' # 0 => hprv' = hnb' - 1
                     /\ Len(s) = IF hnb' % testDeltaNum' = 0 THEN hnb' ELSE hnb' - 1
    <3> SUFFICES ASSUME pc' = "x"
                 PROVE  /\ hnb' < nbH'
                        /\ hnb' % testDeltaNum' # 0 => hprv' = hnb' - 1
                        /\ Len(s) = IF hnb' % testDeltaNum' = 0 THEN hnb' ELSE hnb' - 1
      OBVIOUS
    <3>1. hnb + 1 < nbH /\ hnb' = hnb + 1 /\ hprv' = hnb /\ testDeltaNum' = t /\ nbH' = nbH
      BY <1>1
    <3> HIDE DEF s
    <3>2. (hnb + 1) % t # 0 \/ x = t-1
      BY <2>1, <2>2
    <3>3. Len(s) = IF (hnb + 1) % t = 0 THEN hnb + 1 ELSE hnb
      BY <2>1, <2>2, <2>4
    <3> HIDE DEF x, t
    <3> QED
      BY <1>3, <3>1, <3>3
  <2>7. RowsMade'
    BY <2>4, <2>5, <2>6 DEF RowsMade
  <2>8. Len(hashdeltas_y) = 0 /\ nbH > 0
    BY <2>1, <1>2 DEF DeltaTypes
  <2>9. ColumnsMade'
    BY <1>1, <1>8, <2>1, <2>8 DEF ColumnsMade
  <2> QED
    BY <1>6, <1>7, <2>7, <2>9 DEF DeltaInv
<1>9. CASE ~(testDeltaNum > 2)
  BY <1>1, <1>6, <1>7, <1>9 DEF DeltaInv, RowsMade, ColumnsMade
<1> QED
  BY <1>8, <1>9

LEMMA ColumnStep ==
  ASSUME DeltaInv, D!AlongY
  PROVE  DeltaInv'
<1> DEFINE t == testDeltaNum
           h == (hnb + t) % nbH
           e == {(h - t) % nbH, h}
           s == hashdeltas_y'
<1>1. /\ pc = "y" /\ s = Append(hashdeltas_y, e)
      /\ \/ hnb + 1 < nbH /\ hnb' = hnb + 1 /\ pc' = pc
         \/ ~(hnb + 1 < nbH) /\ hnb' = 0 /\ pc' = "done"
      /\ nbH' = nbH /\ testDeltaNum' = testDeltaNum /\ hprv' = hprv /\ hashdeltas_x' = hashdeltas_x
  BY DEF D!AlongY, D!Iterate, D!args
<1>2. DeltaTypes
  BY DEF DeltaInv
<1>3. nbH \in Nat /\ nbH > 0 /\ t \in Nat /\ t > 0 /\ nbH % t = 0 /\ hnb \in Nat
      /\ hashdeltas_y \in Seq(SUBSET Int)
  BY <1>2 DEF DeltaTypes
<1>4. e \in SUBSET Int
  <2>1. hnb + t \in Int
    BY <1>3
  <2>2. h \in Int
    BY <1>3, <2>1, DivMod
  <2> HIDE DEF h
  <2>3. h - t \in Int
    BY <1>3, <2>2
  <2>4. (h - t) % nbH \in Int
    BY <1>3, <2>3, DivMod
  <2> QED
    BY <2>2, <2>4
<1>5. /\ s \in Seq(SUBSET Int) /\ Len(s) = Len(hashdeltas_y) + 1 /\ Len(hashdeltas_y) \in Nat
      /\ \A k \in 1 .. Len(hashdeltas_y) : s[k] = hashdeltas_y[k]
      /\ s[Len(hashdeltas_y) + 1] = e
  <2> HIDE DEF e
  <2> QED
    BY <1>1, <1>3, <1>4, Appended
<1>6. DeltaTypes'
  <2>1. hnb' \in Nat /\ pc' \in {"x", "y", "done"} /\ hprv' \in Nat
    BY <1>1, <1>2 DEF DeltaTypes
  <2> HIDE DEF e
  <2>2. hashdeltas_x' \in Seq(SUBSET Int) /\ hashdeltas_y' \in Seq(SUBSET Int)
    BY <1>1, <1>2, <1>5 DEF DeltaTypes
  <2>3. nbH' = nbH /\ testDeltaNum' = testDeltaNum
    BY <1>1
  <2> QED
    BY ONLY <1>2, <2>1, <2>2, <2>3 DEF DeltaTypes
<1>7. PairsMade' /\ testDeltaNum # 2
  BY <1>1 DEF PairsMade, DeltaInv
<1>8. RowsMade'
  BY <1>1 DEF RowsMade, DeltaInv, NextX
<1>9. CASE t > 2
  <2>1. /\ hnb < nbH /\ Len(hashdeltas_y) = hnb
        /\ \A idx \in 0 .. hnb - 1 : hashdeltas_y[idx + 1] = {idx, NextY(idx)}
    BY <1>1, <1>9 DEF DeltaInv, ColumnsMade
  <2>2. e = {hnb, NextY(hnb)}
    <3>1. ASSUME NEW n \in Nat, n > 0, n = nbH, NEW m \in Nat, m > 0, m = t, n % m = 0
          PROVE  /\ (((hnb + m) % n) - m) % n = hnb
                 /\ (hnb + m) % n = (hnb % m) + ((((hnb \div m) + 1) % (n \div m)) * m)
      <4>1. hnb \in Nat /\ hnb < n
        BY <1>3, <2>1, <3>1
      <4>2. n \in Nat /\ n > 0 /\ m \in Nat /\ m > 0 /\ n % m = 0
        BY <3>1
      <4> QED
        BY ONLY <4>1, <4>2, BelowInColumn, Zenon
    <3>2. /\ (((hnb + t) % nbH) - t) % nbH = hnb
          /\ (hnb + t) % nbH = (hnb % t) + ((((hnb \div t) + 1) % (nbH \div t)) * t)
      BY <1>3, <3>1
    <3>3. (h - t) % nbH = hnb /\ h = NextY(hnb)
      BY <3>2, Zenon DEF NextY
    <3> QED
      BY <3>3
  <2> HIDE DEF e, s
  <2>3. ASSUME NEW idx \in 0 .. Len(s) - 1 PROVE s[idx + 1] = {idx, NextY(idx)}
    <3>1. CASE idx = hnb
      BY <1>5, <2>1, <2>2, <3>1
    <3>2. CASE idx # hnb
      <4>1. idx \in 0 .. hnb - 1 /\ idx + 1 \in 1 .. hnb
        BY <1>3, <1>5, <2>1, <3>2
      <4> QED
        BY <1>5, <2>1, <4>1
    <3> QED
      BY <3>1, <3>2
  <2>4. \A idx \in 0 .. Len(s) - 1 : NextY(idx)' = NextY(idx)
    BY <1>1 DEF NextY
  <2>5. Len(s) = hnb + 1 /\ (pc' = "done" => hnb + 1 = nbH)
    BY <1>1, <1>3, <1>5, <2>1
  <2>6. ColumnsMade'
    BY <1>1, <2>3, <2>4, <2>5 DEF ColumnsMade, s
  <2> QED
    BY <1>6, <1>7, <1>8, <2>6 DEF DeltaInv
<1>10. CASE ~(t > 2)
  BY <1>1, <1>6, <1>7, <1>8, <1>10 DEF DeltaInv, ColumnsMade
<1> QED
  BY <1>9, <1>10

LEMMA DeltaStep ==
  ASSUME DeltaInv, [Next]_vars
  PROVE  DeltaInv'
<1>1. CASE UNCHANGED deltas
  BY <1>1 DEF deltas, DeltaInv, DeltaTypes, PairsMade, RowsMade, ColumnsMade, NextX, NextY
<1>2. CASE D!Next
  BY <1>2, PairStep, RowStep, ColumnStep DEF D!Next
<1> QED
  BY <1>1, <1>2 DEF Next, MakeDeltas, TestHashListSingle, Show, vars

(* Where the lists are made, the report names the hashes.                  *)
LEMMA DeltasNamed ==
  ASSUME DeltaInv, pc = "done", testDeltaNum # 1
  PROVE  D!NamesHashes
<1>1. /\ testDeltaNum \in Nat /\ testDeltaNum > 0
  BY DEF DeltaInv, DeltaTypes
<1>2. CASE testDeltaNum = 2
  <2>1. Len(hashdeltas_y) = 0
    BY <1>2 DEF DeltaInv, PairsMade
  <2>2. \A idx \in 0 .. Len(hashdeltas_x) - 1 : hashdeltas_x[idx + 1] = {2 * idx, 2 * idx + 1}
    BY <1>2 DEF DeltaInv, PairsMade
  <2>3. \A idx, n, x : D!DifferentialIdxs(idx, n, x) = <<2 * idx, 2 * idx + 1>>
    BY <1>2 DEF D!DifferentialIdxs
  <2>4. ASSUME NEW idx \in 0 .. Len(hashdeltas_x) - 1 PROVE D!Named(hashdeltas_x, idx, TRUE)
    <3>1. hashdeltas_x[idx + 1] = {<<2 * idx, 2 * idx + 1>>[1], <<2 * idx, 2 * idx + 1>>[2]}
      BY <2>2
    <3> QED
      BY <2>3, <3>1, Zenon DEF D!Named
  <2>5. ASSUME NEW idx \in 0 .. Len(hashdeltas_y) - 1 PROVE FALSE
    BY <2>1
  <2> QED
    BY <2>4, <2>5, Zenon DEF D!NamesHashes
<1>3. CASE testDeltaNum > 2
  <2>1. /\ \A idx \in 0 .. Len(hashdeltas_x) - 1 : hashdeltas_x[idx + 1] = {idx, NextX(idx)}
        /\ \A idx \in 0 .. Len(hashdeltas_y) - 1 : hashdeltas_y[idx + 1] = {idx, NextY(idx)}
        /\ Len(hashdeltas_y) = nbH
    BY <1>3 DEF DeltaInv, RowsMade, ColumnsMade
  <2>2. /\ \A idx, n : D!DifferentialIdxs(idx, n, TRUE) = <<idx, NextX(idx)>>
        /\ \A idx : D!DifferentialIdxs(idx, nbH, FALSE) = <<idx, NextY(idx)>>
    BY <1>1, <1>3 DEF D!DifferentialIdxs, NextX, NextY
  <2>3. ASSUME NEW idx \in 0 .. Len(hashdeltas_x) - 1 PROVE D!Named(hashdeltas_x, idx, TRUE)
    <3>1. hashdeltas_x[idx + 1] = {<<idx, NextX(idx)>>[1], <<idx, NextX(idx)>>[2]}
      BY <2>1
    <3>2. D!DifferentialIdxs(idx, Len(hashdeltas_x), TRUE) = <<idx, NextX(idx)>>
      BY <2>2, Zenon
    <3> QED
      BY <3>1, <3>2, Zenon DEF D!Named
  <2>4. ASSUME NEW idx \in 0 .. Len(hashdeltas_y) - 1 PROVE D!Named(hashdeltas_y, idx, FALSE)
    <3>1. hashdeltas_y[idx + 1] = {<<idx, NextY(idx)>>[1], <<idx, NextY(idx)>>[2]}
      BY <2>1
    <3>2. D!DifferentialIdxs(idx, Len(hashdeltas_y), FALSE) = <<idx, NextY(idx)>>
      BY <2>1, <2>2
    <3> QED
      BY <3>1, <3>2, Zenon DEF D!Named
  <2> QED
    BY <2>3, <2>4 DEF D!NamesHashes
<1> QED
  BY <1>1, <1>2, <1>3


(***************************************************************************)
(* For any number of hashes and shape of grid: when the lists are made,    *)
(* DifferentialIdxs() names the two hashes TestHashListImpl() computed     *)
(* each difference from, along rows and along columns, and for pairs.      *)
(***************************************************************************)
THEOREM Grid == Spec => []GridNamesHashes
<1>1. DeltaInv => GridNamesHashes
  BY DeltasNamed DEF GridNamesHashes, D!GridNamesHashes
<1>2. DeltaInv /\ [Next]_vars => DeltaInv'
  BY DeltaStep
<1> QED
  BY <1>1, <1>2, DeltaInit, PTL DEF Spec

-----------------------------------------------------------------------------
(* What is shown are places in the list that is tested.                    *)

Tested == Deltas(axis)

ShownTypes ==
  /\ showing \in {"idle", "bins", "hashes", "zeros", "done"}
  /\ i \in Nat /\ (showing = "hashes" => i > 0)
  /\ hashes \in Seq(O!Bins)
  /\ DOMAIN entries = O!Bins
  /\ \A bin \in O!Bins : entries[bin] \in Seq(1 .. Len(hashes))
  /\ showing = "idle" => \A bin \in O!Bins : entries[bin] = <<>>

ListTested ==
  showing # "idle" =>
    /\ pc = "done" /\ axis \in {"x", "y"}
    /\ Len(hashes) = Len(Tested) /\ hashidxs \in [1 .. Len(Tested) -> 0 .. Len(Tested) - 1]

KeysInv == DeltaInv /\ ShownTypes /\ ListTested

LEMMA KeysInit == Init => KeysInv
<1> SUFFICES ASSUME Init PROVE KeysInv
  OBVIOUS
<1>1. O!Init
  BY DEF Init
<1>2. /\ hashes = <<>> /\ showing = "idle" /\ i = 0
      /\ entries = [bin \in O!Bins |-> <<>>]
  BY <1>1 DEF O!Init
<1> QED
  BY <1>2, DeltaInit DEF KeysInv, ShownTypes, ListTested

(* A list is tested when the lists are made.                               *)
LEMMA KeysList ==
  ASSUME KeysInv, NEW x \in {"x", "y"}, TestHashListSingle(x)
  PROVE  KeysInv'
<1> DEFINE n == Len(Deltas(x))
<1>1. /\ pc = "done" /\ n <= maxlen /\ axis' = x /\ hashidxs' \in Orders(n)
      /\ UNCHANGED deltas
  BY DEF TestHashListSingle
<1>2. PICK values \in [1 .. n -> O!Bins] : O!ShowOutliers(values)
  BY DEF TestHashListSingle
<1>3. /\ showing = "idle" /\ hashes' = values /\ showing' = "bins" /\ i' = 1
      /\ UNCHANGED <<entries, zeros>>
  BY <1>2 DEF O!ShowOutliers
<1>4. DeltaInv'
  <2>1. [Next]_vars
    BY DEF Next
  <2> QED
    BY <2>1, DeltaStep DEF KeysInv
<1>5. n \in Nat /\ Tested' = Deltas(x)
  <2>1. hashdeltas_x \in Seq(SUBSET Int) /\ hashdeltas_y \in Seq(SUBSET Int)
    BY DEF KeysInv, DeltaInv, DeltaTypes
  <2>2. /\ hashdeltas_x' = hashdeltas_x /\ hashdeltas_y' = hashdeltas_y
    BY <1>1 DEF deltas
  <2> QED
    BY <1>1, <2>1, <2>2 DEF Tested, Deltas
<1>6. hashidxs' \in [1 .. n -> 0 .. n - 1]
  BY <1>1, <1>5, Limits, OrdersAssumption
<1> HIDE DEF n
<1>7. hashes' \in Seq(O!Bins) /\ Len(hashes') = n
  BY <1>2, <1>3, <1>5
<1>8. ListTested'
  BY <1>1, <1>3, <1>5, <1>6, <1>7 DEF ListTested, n, deltas
<1>9. ShownTypes'
  BY <1>3, <1>7 DEF KeysInv, ShownTypes, O!Bins
<1> QED
  BY <1>4, <1>8, <1>9 DEF KeysInv

(* The loops go through places of the list.                                *)
LEMMA KeysLoops ==
  ASSUME KeysInv, Show
  PROVE  KeysInv'
<1>1. O!Loops /\ UNCHANGED <<deltas, axis, hashidxs>>
  BY DEF Show
<1>2. DeltaInv'
  <2>1. [Next]_vars
    BY DEF Next
  <2> QED
    BY <2>1, DeltaStep DEF KeysInv
<1>3. hashes' = hashes /\ showing # "idle"
  BY <1>1 DEF O!Loops, O!CountBin, O!CountedBins, O!Record, O!Recorded, O!ShowZero
<1>4. ListTested'
  <2>1. Tested' = Tested
    BY <1>1 DEF Tested, Deltas, deltas
  <2> QED
    BY <1>1, <1>3, <2>1 DEF KeysInv, ListTested, deltas
<1>5. ShownTypes'
  <2>1. CASE O!CountBin
    BY <1>3, <2>1 DEF O!CountBin, KeysInv, ShownTypes, O!Bins
  <2>2. CASE O!CountedBins
    BY <1>3, <2>2 DEF O!CountedBins, KeysInv, ShownTypes, O!Bins
  <2>3. CASE O!Record
    <3>1. /\ showing = "hashes" /\ i <= Len(hashes) /\ i' = i + 1 /\ showing' = showing
          /\ \/ entries' = entries
             \/ entries' = [entries EXCEPT ![hashes[i]] = Append(@, i)]
      BY <2>3 DEF O!Record, O!nbH
    <3>2. i \in 1 .. Len(hashes) /\ hashes[i] \in O!Bins
      BY <3>1 DEF KeysInv, ShownTypes
    <3>3. DOMAIN entries' = O!Bins
      BY <3>1 DEF KeysInv, ShownTypes
    <3>4. ASSUME NEW bin \in O!Bins PROVE entries'[bin] \in Seq(1 .. Len(hashes))
      <4>1. entries[bin] \in Seq(1 .. Len(hashes)) /\ bin \in DOMAIN entries
        BY DEF KeysInv, ShownTypes
      <4>2. Append(entries[bin], i) \in Seq(1 .. Len(hashes))
        BY <3>2, <4>1
      <4>3. entries'[bin] \in {entries[bin], Append(entries[bin], i)}
        BY <3>1, <4>1
      <4> QED
        BY <4>1, <4>2, <4>3
    <3> QED
      BY <1>3, <3>1, <3>3, <3>4 DEF KeysInv, ShownTypes, O!Bins
  <2>4. CASE O!Recorded
    BY <1>3, <2>4 DEF O!Recorded, KeysInv, ShownTypes, O!Bins
  <2>5. CASE O!ShowZero
    BY <1>3, <2>5 DEF O!ShowZero, KeysInv, ShownTypes, O!Bins
  <2> QED
    BY <1>1, <2>1, <2>2, <2>3, <2>4, <2>5 DEF O!Loops
<1> QED
  BY <1>2, <1>4, <1>5 DEF KeysInv

LEMMA KeysStep ==
  ASSUME KeysInv, [Next]_vars
  PROVE  KeysInv'
<1>1. CASE UNCHANGED vars
  <2>1. DeltaInv'
    BY DeltaStep DEF KeysInv
  <2> QED
    BY <1>1, <2>1 DEF vars, deltas, outliers, KeysInv, ShownTypes, ListTested, Tested, Deltas, O!Bins
<1>2. CASE MakeDeltas
  <2>1. DeltaInv'
    BY <1>2, DeltaStep DEF KeysInv
  <2>2. pc # "done" /\ UNCHANGED <<axis, hashidxs, outliers>>
    BY <1>2 DEF MakeDeltas, D!Next, D!Pair, D!AlongX, D!AlongY
  <2>3. showing = "idle"
    BY <2>2 DEF KeysInv, ListTested
  <2> QED
    BY <2>1, <2>2, <2>3 DEF outliers, KeysInv, ShownTypes, ListTested, O!Bins
<1>3. CASE \E x \in {"x", "y"} : TestHashListSingle(x)
  BY <1>3, KeysList
<1>4. CASE Show
  BY <1>4, KeysLoops
<1> QED
  BY <1>1, <1>2, <1>3, <1>4 DEF Next

(* The place shown leads to the index the difference had.                  *)
LEMMA KeysAreNamed == KeysInv => KeysNamed
<1> SUFFICES ASSUME KeysInv, showing = "done", testDeltaNum # 1,
                    NEW bin \in O!Bins, NEW m \in 1 .. Len(entries[bin])
             PROVE  LET n == entries[bin][m]
                        pair == D!DifferentialIdxs(DeltaShown(n), Len(hashes), axis = "x")
                    IN  Deltas(axis)[hashidxs[n] + 1] = {pair[1], pair[2]}
  BY DEF KeysNamed
<1> DEFINE idx == hashidxs[entries[bin][m]]
<1>1. /\ pc = "done" /\ axis \in {"x", "y"} /\ Len(hashes) = Len(Tested)
      /\ hashidxs \in [1 .. Len(Tested) -> 0 .. Len(Tested) - 1]
  BY DEF KeysInv, ListTested
<1>2. idx \in 0 .. Len(Tested) - 1
  <2>1. entries[bin] \in Seq(1 .. Len(Tested))
    BY <1>1 DEF KeysInv, ShownTypes
  <2>2. entries[bin][m] \in 1 .. Len(Tested)
    BY <2>1
  <2> QED
    BY <1>1, <2>2
<1>3. D!NamesHashes
  BY <1>1, DeltasNamed DEF KeysInv
<1> HIDE DEF idx
<1>4. CASE axis = "x"
  <2>1. Tested = hashdeltas_x
    BY <1>4 DEF Tested, Deltas
  <2>2. D!Named(hashdeltas_x, idx, TRUE)
    BY <1>2, <1>3, <2>1 DEF D!NamesHashes
  <2>3. (axis = "x") = TRUE
    BY <1>4
  <2> QED
    BY <1>1, <2>1, <2>2, <2>3, Zenon DEF D!Named, DeltaShown, Tested, idx
<1>5. CASE axis = "y"
  <2>1. Tested = hashdeltas_y
    BY <1>5 DEF Tested, Deltas
  <2>2. D!Named(hashdeltas_y, idx, FALSE)
    BY <1>2, <1>3, <2>1 DEF D!NamesHashes
  <2>3. (axis = "x") = FALSE
    BY <1>5
  <2> QED
    BY <1>1, <2>1, <2>2, <2>3, Zenon DEF D!Named, DeltaShown, Tested, idx
<1> QED
  BY <1>1, <1>4, <1>5

(***************************************************************************)
(* For any number of hashes and shape of grid, any order the differences   *)
(* are sorted into and any bins they fall into: each line ShowOutliers()   *)
(* prints names the keys of the two hashes whose difference it shows.      *)
(***************************************************************************)
THEOREM Keys == Spec => []KeysNamed
<1>1. KeysInv /\ [Next]_vars => KeysInv'
  BY KeysStep
<1> QED
  BY <1>1, KeysInit, KeysAreNamed, PTL DEF Spec

-----------------------------------------------------------------------------
(* The bound ShowOutliers() finds with its heap.                           *)

(* A bag that holds, for each k of a finite set, f(k).                     *)
Holds(B, S, f) ==
  /\ DOMAIN B = {f[k] : k \in S}
  /\ \A c \in DOMAIN B : B[c] = Cardinality({k \in S : f[k] = c})

LEMMA HeapPop ==
  ASSUME NEW B, NEW S, NEW f, IsFiniteSet(S), Holds(B, S, f), NEW j \in S
  PROVE  Holds(O!Heap!BagRemove(B, f[j]), S \ {j}, f)
<1> DEFINE T == S \ {j}
           C == O!Heap!BagRemove(B, f[j])
           Of(c) == {k \in S : f[k] = c}
           Left(c) == {k \in T : f[k] = c}
<1>1. /\ DOMAIN B = {f[k] : k \in S} /\ f[j] \in DOMAIN B
      /\ \A c \in DOMAIN B : B[c] = Cardinality(Of(c))
  BY DEF Holds
<1>2. \A c : IsFiniteSet(Of(c))
  BY FS_Subset
<1>3. Left(f[j]) = Of(f[j]) \ {j} /\ \A c : c # f[j] => Left(c) = Of(c)
  OBVIOUS
<1>4. /\ B[f[j]] \in Nat /\ B[f[j]] > 0
      /\ IsFiniteSet(Left(f[j])) /\ Cardinality(Left(f[j])) = B[f[j]] - 1
  <2>1. j \in Of(f[j])
    OBVIOUS
  <2>2. Cardinality(Of(f[j])) \in Nat /\ Cardinality(Of(f[j])) # 0
    BY <1>2, <2>1, FS_CardinalityType, FS_EmptySet
  <2> HIDE DEF Of, Left
  <2>3. IsFiniteSet(Of(f[j]) \ {j}) /\ Cardinality(Of(f[j]) \ {j}) = Cardinality(Of(f[j])) - 1
    BY <1>2, <2>1, FS_RemoveElement
  <2> QED
    BY <1>1, <1>3, <2>2, <2>3
<1>5. CASE B[f[j]] = 1
  <2>1. C = [e \in DOMAIN B \ {f[j]} |-> B[e]]
    BY <1>1, <1>5 DEF O!Heap!BagRemove
  <2>2. Left(f[j]) = {}
    BY <1>4, <1>5, FS_EmptySet
  <2>3. DOMAIN C = {f[k] : k \in T}
    <3> HIDE DEF C
    <3> QED
      BY <1>1, <2>1, <2>2
  <2>4. \A c \in DOMAIN C : C[c] = Cardinality(Left(c))
    <3> HIDE DEF C, Left, Of
    <3> QED
      BY <1>1, <1>3, <2>1
  <2> QED
    BY <2>3, <2>4 DEF Holds
<1>6. CASE B[f[j]] # 1
  <2>1. C = [e \in DOMAIN B |-> IF e = f[j] THEN B[e] - 1 ELSE B[e]]
    BY <1>1, <1>6 DEF O!Heap!BagRemove
  <2>2. PICK l \in T : f[l] = f[j]
    <3>1. Cardinality(Left(f[j])) # 0
      BY <1>4, <1>6
    <3>2. Left(f[j]) # {}
      BY <3>1, FS_EmptySet
    <3> QED
      BY <3>2
  <2>3. DOMAIN C = {f[k] : k \in T}
    <3> HIDE DEF C
    <3>1. DOMAIN C = DOMAIN B
      BY <2>1
    <3> QED
      BY <1>1, <2>2, <3>1
  <2>4. \A c \in DOMAIN C : C[c] = Cardinality(Left(c))
    <3> HIDE DEF C, Left, Of
    <3> QED
      BY <1>1, <1>3, <1>4, <2>1
  <2> QED
    BY <2>3, <2>4 DEF Holds
<1> QED
  BY <1>5, <1>6

LEMMA HeapPush ==
  ASSUME NEW B, NEW S, NEW f, NEW g, IsFiniteSet(S), Holds(B, S, f),
         NEW j, j \notin S, \A k \in S : g[k] = f[k]
  PROVE  Holds(O!Heap!BagAdd(B, g[j]), S \cup {j}, g)
<1> DEFINE T == S \cup {j}
           C == O!Heap!BagAdd(B, g[j])
           Of(c) == {k \in S : f[k] = c}
           Now(c) == {k \in T : g[k] = c}
<1>1. /\ DOMAIN B = {f[k] : k \in S}
      /\ \A c \in DOMAIN B : B[c] = Cardinality(Of(c))
  BY DEF Holds
<1>2. \A c : IsFiniteSet(Of(c))
  BY FS_Subset
<1>3. Now(g[j]) = Of(g[j]) \cup {j} /\ j \notin Of(g[j]) /\ \A c : c # g[j] => Now(c) = Of(c)
  OBVIOUS
<1>4. Cardinality(Now(g[j])) = Cardinality(Of(g[j])) + 1
  <2> HIDE DEF Of, Now
  <2> QED
    BY <1>2, <1>3, FS_AddElement
<1>5. {g[k] : k \in T} = DOMAIN B \cup {g[j]}
  BY <1>1
<1>6. CASE g[j] \in DOMAIN B
  <2>1. C = [e \in DOMAIN B |-> IF e = g[j] THEN B[e] + 1 ELSE B[e]]
    BY <1>6 DEF O!Heap!BagAdd
  <2> HIDE DEF C
  <2>2. DOMAIN C = {g[k] : k \in T}
    BY <1>5, <1>6, <2>1
  <2>3. \A c \in DOMAIN C : C[c] = Cardinality(Now(c))
    <3> HIDE DEF Now, Of
    <3> QED
      BY <1>1, <1>3, <1>4, <1>6, <2>1
  <2> QED
    BY <2>2, <2>3 DEF Holds, C
<1>7. CASE g[j] \notin DOMAIN B
  <2>1. C = [e \in DOMAIN B \cup {g[j]} |-> IF e = g[j] THEN 1 ELSE B[e]]
    BY <1>7 DEF O!Heap!BagAdd
  <2>2. Of(g[j]) = {}
    BY <1>1, <1>7
  <2> HIDE DEF C
  <2>3. DOMAIN C = {g[k] : k \in T}
    BY <1>5, <2>1
  <2>4. Cardinality(Now(g[j])) = 1
    BY <1>4, <2>2, FS_EmptySet
  <2>5. \A c \in DOMAIN C : C[c] = Cardinality(Now(c))
    <3> HIDE DEF Now, Of
    <3> QED
      BY <1>1, <1>3, <2>1, <2>4
  <2> QED
    BY <2>3, <2>5 DEF Holds, C
<1> QED
  BY <1>6, <1>7

(* How many hashes of a list are in a bin.                                 *)
Count(h, b) == Cardinality({n \in 1 .. Len(h) : h[n] = b})

LEMMA CountType ==
  ASSUME NEW h \in Seq(O!Bins), NEW b
  PROVE  Count(h, b) \in Nat /\ Count(h, b) <= Len(h)
<1>1. IsFiniteSet(1 .. Len(h)) /\ Cardinality(1 .. Len(h)) = Len(h)
  <2> DEFINE m == Len(h)
  <2>1. m \in Nat
    OBVIOUS
  <2> HIDE DEF m
  <2>2. IsFiniteSet(1 .. m) /\ Cardinality(1 .. m) = IF 1 > m THEN 0 ELSE m - 1 + 1
    BY <2>1, FS_Interval
  <2> QED
    BY <2>1, <2>2 DEF m
<1> DEFINE S == {n \in 1 .. Len(h) : h[n] = b}
<1>2. S \in SUBSET (1 .. Len(h))
  OBVIOUS
<1> HIDE DEF S
<1>3. IsFiniteSet(S) /\ Cardinality(S) <= Len(h)
  BY <1>1, <1>2, FS_Subset
<1> QED
  BY <1>3, FS_CardinalityType DEF Count, S

Places == 1 .. nOutliers

(***************************************************************************)
(* The heap after n bins: at each place, the count of a bin. But for bin 0 *)
(* no bin is there twice, no place has less than bin 0, and none less than *)
(* any bin that is not there.                                              *)
(***************************************************************************)
HeapOf(h, n, B, src) ==
  /\ src \in [Places -> 0 .. n-1]
  /\ \A k, l \in Places : src[k] = src[l] /\ src[k] # 0 => k = l
  /\ \A k \in Places : Count(h, 0) <= Count(h, src[k])
  /\ \A b \in 0 .. n-1 : (\A k \in Places : src[k] # b) =>
       \A k \in Places : Count(h, b) <= Count(h, src[k])
  /\ Holds(B, Places, [k \in Places |-> Count(h, src[k])])

LEMMA PlacesFinite == IsFiniteSet(Places) /\ Cardinality(Places) = nOutliers /\ 1 \in Places
BY Limits, FS_Interval DEF Places

(* The top of the heap is the least count in it.                           *)
LEMMA HeapTop ==
  ASSUME NEW h \in Seq(O!Bins), NEW n, NEW B, NEW src, HeapOf(h, n, B, src)
  PROVE  \E j \in Places : /\ O!Min(O!BagToSet(B)) = Count(h, src[j])
                           /\ \A k \in Places : Count(h, src[j]) <= Count(h, src[k])
<1> DEFINE S == {Count(h, src[k]) : k \in Places}
           Least(c) == c \in S /\ \A e \in S : c <= e
<1>1. O!BagToSet(B) = S
  BY DEF O!BagToSet, HeapOf, Holds
<1>2. S \in SUBSET Nat /\ S # {}
  BY CountType, PlacesFinite
<1>3. PICK c : Least(c)
  <2> HIDE DEF S
  <2> QED
    BY <1>2, LeastNatural
<1>4. O!Min(S) = CHOOSE e : Least(e)
  BY DEF O!Min
<1>5. Least(O!Min(S))
  <2> HIDE DEF Least
  <2> QED
    BY <1>3, <1>4, Zenon
<1>6. PICK j \in Places : O!Min(S) = Count(h, src[j])
  BY <1>5
<1> QED
  BY <1>1, <1>5, <1>6

LEMMA HeapStarts ==
  ASSUME NEW h \in Seq(O!Bins), NEW B, B = [c \in {Count(h, 0)} |-> nOutliers]
  PROVE  \E src : HeapOf(h, 1, B, src)
<1> DEFINE src == [k \in Places |-> 0]
           f == [k \in Places |-> Count(h, src[k])]
<1>1. f = [k \in Places |-> Count(h, 0)] /\ Count(h, 0) \in Nat
  BY CountType
<1>2. Holds(B, Places, f)
  <2>1. {f[k] : k \in Places} = {Count(h, 0)}
    BY <1>1, PlacesFinite
  <2>2. {k \in Places : f[k] = Count(h, 0)} = Places
    BY <1>1
  <2> HIDE DEF f
  <2> QED
    BY <2>1, <2>2, PlacesFinite DEF Holds
<1>3. src \in [Places -> 0 .. 1-1]
  OBVIOUS
<1>4. HeapOf(h, 1, B, src)
  <2> HIDE DEF f
  <2>1. /\ \A k \in Places : Count(h, 0) <= Count(h, src[k])
        /\ \A b \in 0 .. 1-1 : (\A k \in Places : src[k] # b) =>
             \A k \in Places : Count(h, b) <= Count(h, src[k])
    BY <1>1, PlacesFinite
  <2> QED
    BY <1>2, <1>3, <2>1 DEF HeapOf, f
<1> QED
  BY <1>4

(* The next bin takes the top's place if it has more hashes.               *)
LEMMA HeapCounts ==
  ASSUME NEW h \in Seq(O!Bins), NEW n \in Nat, n > 0, NEW B, NEW src, HeapOf(h, n, B, src),
         NEW top, top = O!Min(O!BagToSet(B)), NEW C,
         C = IF Count(h, n) > top THEN O!Heap!BagAdd(O!Heap!BagRemove(B, top), Count(h, n)) ELSE B
  PROVE  \E s : HeapOf(h, n + 1, C, s)
<1>1. PICK j \in Places : /\ top = Count(h, src[j])
                          /\ \A k \in Places : Count(h, src[j]) <= Count(h, src[k])
  BY HeapTop
<1>2. \A b : Count(h, b) \in Nat
  BY CountType
<1>3. src \in [Places -> 0 .. n-1]
  BY DEF HeapOf
<1>4. CASE Count(h, n) > top
  <2> DEFINE s == [src EXCEPT ![j] = n]
             f == [k \in Places |-> Count(h, src[k])]
             g == [k \in Places |-> Count(h, s[k])]
  <2>1. s \in [Places -> 0 .. n] /\ s[j] = n /\ \A k \in Places : k # j => s[k] = src[k]
    BY <1>3
  <2>2. Holds(C, Places, g)
    <3>1. Holds(B, Places, f)
      BY DEF HeapOf
    <3>2. f[j] = top /\ g[j] = Count(h, n) /\ \A k \in Places \ {j} : g[k] = f[k]
      BY <1>1, <2>1
    <3> HIDE DEF f, g
    <3>3. Holds(O!Heap!BagRemove(B, top), Places \ {j}, f)
      BY <3>1, <3>2, PlacesFinite, HeapPop
    <3>4. IsFiniteSet(Places \ {j}) /\ j \notin Places \ {j} /\ (Places \ {j}) \cup {j} = Places
      BY PlacesFinite, FS_RemoveElement
    <3>5. Holds(O!Heap!BagAdd(O!Heap!BagRemove(B, top), g[j]), (Places \ {j}) \cup {j}, g)
      BY <3>2, <3>3, <3>4, HeapPush
    <3> QED
      BY <1>4, <3>2, <3>4, <3>5
  <2> HIDE DEF s
  <2>3. \A k, l \in Places : s[k] = s[l] /\ s[k] # 0 => k = l
    <3>1. \A k \in Places : k # j => s[k] # n
      BY <1>3, <2>1
    <3> QED
      BY <2>1, <3>1 DEF HeapOf
  <2>4. \A k \in Places : top <= Count(h, s[k])
    BY <1>1, <1>2, <1>4, <2>1
  <2>5. Count(h, 0) <= top
    BY <1>1 DEF HeapOf
  <2>6. \A k \in Places : Count(h, 0) <= Count(h, s[k])
    BY <1>1, <1>2, <2>4, <2>5
  <2>7. ASSUME NEW b \in 0 .. n, \A k \in Places : s[k] # b
        PROVE  Count(h, b) <= top
    <3>1. b \in 0 .. n-1
      BY <2>1, <2>7
    <3>2. CASE src[j] = b
      BY <1>1, <1>2, <3>2
    <3>3. CASE src[j] # b
      <4>1. \A k \in Places : src[k] # b
        BY <2>1, <2>7, <3>3
      <4> QED
        BY <1>1, <3>1, <4>1 DEF HeapOf
    <3> QED
      BY <3>2, <3>3
  <2>8. \A b \in 0 .. n : (\A k \in Places : s[k] # b) =>
          \A k \in Places : Count(h, b) <= Count(h, s[k])
    BY <1>1, <1>2, <2>4, <2>7
  <2>9. (n + 1) - 1 = n
    OBVIOUS
  <2>10. HeapOf(h, n + 1, C, s)
    BY <2>1, <2>2, <2>3, <2>6, <2>8, <2>9 DEF HeapOf
  <2> QED
    BY <2>10
<1>5. CASE ~(Count(h, n) > top)
  <2>1. C = B /\ Count(h, n) <= top
    BY <1>1, <1>2, <1>5
  <2>2. src \in [Places -> 0 .. n] /\ (n + 1) - 1 = n
    BY <1>3
  <2>3. ASSUME NEW b \in 0 .. n, \A k \in Places : src[k] # b, NEW k \in Places
        PROVE  Count(h, b) <= Count(h, src[k])
    <3>1. CASE b = n
      BY <1>1, <1>2, <2>1, <3>1
    <3>2. CASE b # n
      BY <2>3, <3>2 DEF HeapOf
    <3> QED
      BY <3>1, <3>2
  <2>4. HeapOf(h, n + 1, B, src)
    BY <2>2, <2>3 DEF HeapOf
  <2> QED
    BY <2>1, <2>4
<1> QED
  BY <1>4, <1>5

(* The modules' cardinality is the same.                                   *)
LEMMA SameCardinality == \A S : O!Cardinality(S) = Cardinality(S)
BY DEF O!Cardinality, Cardinality

LEMMA CountsAre == \A b : O!counts(b) = Count(hashes, b)
BY SameCardinality, Zenon DEF O!counts, O!nbH, Count

(* The greatest of a bounded set.                                          *)
Greatest(S, m) == m \in S /\ \A e \in S : m >= e

LEMMA MaxOfBounded ==
  ASSUME NEW n \in Nat, NEW S \in SUBSET (0 .. n), S # {}
  PROVE  Greatest(S, O!Max(S))
<1> DEFINE T == {n - e : e \in S}
<1>1. T \in SUBSET Nat /\ T # {}
  <2>1. \A e \in S : e \in Int /\ 0 <= e /\ e <= n
    OBVIOUS
  <2>2. \A e \in S : n - e \in Nat
    BY <2>1
  <2> QED
    BY <2>2
<1>2. PICK t \in T : \A u \in T : t <= u
  <2> HIDE DEF T
  <2> QED
    BY <1>1, LeastNatural
<1>3. PICK m \in S : t = n - m
  BY <1>2
<1>4. ASSUME NEW e \in S PROVE m >= e
  <2>1. t <= n - e
    BY <1>2
  <2> QED
    BY <1>3, <2>1
<1>5. Greatest(S, m)
  BY <1>4 DEF Greatest
<1>6. O!Max(S) = CHOOSE e : Greatest(S, e)
  BY DEF O!Max, Greatest
<1> QED
  BY <1>5, <1>6, Zenon

(* Some outlier has as many hashes as the nOutliers-th largest count.      *)
LEMMA NthIs ==
  ASSUME hashes \in Seq(O!Bins)
  PROVE  /\ O!NthCount \in Nat
         /\ O!NthCount > 0 => Cardinality(O!AtLeast(O!NthCount)) >= nOutliers
         /\ \A c \in 1 .. Len(hashes) :
              Cardinality(O!AtLeast(c)) >= nOutliers => O!NthCount >= c
<1> DEFINE Q(c) == Cardinality(O!AtLeast(c)) >= nOutliers
           S == {0} \cup {c \in 1 .. Len(hashes) : Q(c)}
<1>1. O!NthCount = O!Max(S)
  <2>2. S = {0} \cup {c \in 1 .. O!nbH : O!Cardinality(O!AtLeast(c)) >= nOutliers}
    BY SameCardinality, Zenon DEF O!nbH
  <2> HIDE DEF S
  <2> QED
    BY <2>2, Zenon DEF O!NthCount
<1> HIDE DEF Q
<1>2. S \in SUBSET (0 .. Len(hashes)) /\ S # {} /\ Len(hashes) \in Nat
  OBVIOUS
<1>3. Greatest(S, O!NthCount)
  <2> HIDE DEF S
  <2> QED
    BY <1>1, <1>2, MaxOfBounded
<1>4. O!NthCount \in S /\ \A e \in S : O!NthCount >= e
  BY <1>3, Zenon DEF Greatest
<1> DEFINE m == O!NthCount
<1>5. O!NthCount \in Nat
  BY <1>2, <1>4
<1>6. m > 0 => Q(m)
  <2> HIDE DEF m
  <2>1. m \in S
    BY <1>4 DEF m
  <2> QED
    BY <2>1
<1> QED
  BY <1>4, <1>5, <1>6 DEF Q

LEMMA HeapBound ==
  ASSUME hashes \in Seq(O!Bins), NEW src, HeapOf(hashes, nbC, maxcounts, src)
  PROVE  O!maxbound = O!Max({O!NthCount, O!counts(0)})
<1> DEFINE top == O!maxbound
           nth == O!NthCount
           c0 == Count(hashes, 0)
           AtLeastIn(c) == {b \in O!Bins : Count(hashes, b) >= c}
<1>1. PICK j \in Places : /\ top = Count(hashes, src[j])
                          /\ \A k \in Places : Count(hashes, src[j]) <= Count(hashes, src[k])
  BY HeapTop DEF O!maxbound
<1>2. \A b : Count(hashes, b) \in Nat /\ Count(hashes, b) <= Len(hashes)
  BY CountType
<1>3. \A b : O!counts(b) = Count(hashes, b)
  BY CountsAre
<1>4. \A c : O!AtLeast(c) = AtLeastIn(c)
  BY <1>3 DEF O!AtLeast
<1>5. /\ src \in [Places -> O!Bins] /\ IsFiniteSet(O!Bins)
  BY Limits, FS_Interval DEF HeapOf, O!Bins
<1>6. top \in Nat /\ c0 \in Nat /\ c0 <= top /\ Len(hashes) \in Nat /\ top <= Len(hashes)
  BY <1>1, <1>2 DEF HeapOf
<1>7. /\ nth \in Nat
      /\ nth > 0 => Cardinality(AtLeastIn(nth)) >= nOutliers
      /\ \A c \in 1 .. Len(hashes) : Cardinality(AtLeastIn(c)) >= nOutliers => nth >= c
  BY <1>4, NthIs
(* If more than the top is reached by that many bins, one of them is not   *)
(* in the heap, in which another place has less.                           *)
<1>8. nth <= top
  <2> SUFFICES ASSUME nth > top PROVE FALSE
    BY <1>6, <1>7
  <2> DEFINE A == AtLeastIn(nth)
             Others == Places \ {j}
             I == {src[k] : k \in Others}
  <2>1. A \subseteq I
    <3> SUFFICES ASSUME NEW b \in A PROVE b \in I
      OBVIOUS
    <3>1. b \in 0 .. nbC-1 /\ Count(hashes, b) > top
      BY <1>2, <1>6, <1>7 DEF O!Bins
    <3>2. PICK k \in Places : src[k] = b
      <4>1. ASSUME \A k \in Places : src[k] # b PROVE FALSE
        <5>1. Count(hashes, b) <= Count(hashes, src[j])
          BY <3>1, <4>1 DEF HeapOf
        <5> QED
          BY <1>1, <1>2, <3>1, <5>1
      <4> QED
        BY <4>1
    <3>3. k # j
      BY <1>1, <1>2, <3>1, <3>2
    <3> QED
      BY <3>2, <3>3
  <2>2. IsFiniteSet(Others) /\ Cardinality(Others) = nOutliers - 1
    BY PlacesFinite, FS_RemoveElement
  <2>3. IsFiniteSet(I) /\ Cardinality(I) <= nOutliers - 1
    <3> DEFINE f == [k \in Others |-> src[k]]
    <3>1. f \in Surjection(Others, I)
      BY DEF Surjection
    <3> HIDE DEF f, I, Others
    <3>2. IsFiniteSet(I) /\ Cardinality(I) <= Cardinality(Others)
      BY <2>2, <3>1, FS_Surjection
    <3> QED
      BY <2>2, <3>2
  <2>4. Cardinality(A) <= Cardinality(I) /\ Cardinality(A) \in Nat /\ Cardinality(I) \in Nat
    <3> HIDE DEF A, I
    <3>1. IsFiniteSet(A) /\ Cardinality(A) <= Cardinality(I)
      BY <2>1, <2>3, FS_Subset
    <3> QED
      BY <2>3, <3>1, FS_CardinalityType
  <2>5. Cardinality(A) >= nOutliers
    BY <1>6, <1>7
  <2> HIDE DEF A, I
  <2> QED
    BY <2>3, <2>4, <2>5, Limits
(* Bins other than 0 fill the places if none has less than the top.        *)
<1>9. top # c0 => top <= nth
  <2> SUFFICES ASSUME top # c0 PROVE top <= nth
    OBVIOUS
  <2>1. top > c0 /\ top \in 1 .. Len(hashes)
    BY <1>6
  <2>2. \A k \in Places : src[k] # 0 /\ src[k] \in AtLeastIn(top)
    BY <1>1, <1>2, <1>5, <2>1
  <2>3. src \in Injection(Places, AtLeastIn(top))
    <3>1. src \in [Places -> AtLeastIn(top)]
      BY <1>5, <2>2
    <3>2. \A k, l \in Places : src[k] = src[l] => k = l
      BY <2>2 DEF HeapOf
    <3> QED
      BY <3>1, <3>2 DEF Injection, IsInjective
  <2>4. IsFiniteSet(AtLeastIn(top)) /\ AtLeastIn(top) \in SUBSET O!Bins
    <3>1. AtLeastIn(top) \in SUBSET O!Bins
      OBVIOUS
    <3> HIDE DEF AtLeastIn
    <3> QED
      BY <1>5, <3>1, FS_Subset
  <2> HIDE DEF top, AtLeastIn
  <2>5. Cardinality(Places) <= Cardinality(AtLeastIn(top))
    BY <2>3, <2>4, FS_Injection
  <2>6. Cardinality(AtLeastIn(top)) >= nOutliers
    <3>1. Cardinality(AtLeastIn(top)) \in Nat
      BY <2>4, FS_CardinalityType
    <3> QED
      BY <2>5, <3>1, PlacesFinite, Limits
  <2>7. nth >= top
    BY <1>7, <2>1, <2>6
  <2> QED
    BY <1>6, <1>7, <2>7
<1> HIDE DEF top, nth, c0, AtLeastIn
<1>10. {nth, c0} \in SUBSET (0 .. top) /\ {nth, c0} # {} /\ top \in {nth, c0}
  BY <1>6, <1>7, <1>8, <1>9
<1>11. Greatest({nth, c0}, O!Max({nth, c0}))
  BY <1>6, <1>10, MaxOfBounded
<1>12. O!Max({nth, c0}) = top
  BY <1>6, <1>7, <1>10, <1>11 DEF Greatest
<1> QED
  BY <1>3, <1>12, Zenon DEF top, nth, c0

Counted == IF showing = "bins" THEN i ELSE nbC

HeapInv ==
  showing # "idle" =>
    /\ showing = "bins" => i \in 1 .. nbC
    /\ \E src : HeapOf(hashes, Counted, maxcounts, src)

BoundInv == KeysInv /\ HeapInv

LEMMA HeapSame ==
  ASSUME HeapInv, UNCHANGED <<hashes, maxcounts>>,
         \/ showing' = showing /\ i' = i
         \/ showing \notin {"idle", "bins"} /\ showing' \notin {"idle", "bins"}
         \/ showing = "bins" /\ i = nbC /\ showing' = "hashes"
  PROVE  HeapInv'
BY DEF HeapInv, Counted

LEMMA HeapList ==
  ASSUME KeysInv, NEW x \in {"x", "y"}, TestHashListSingle(x)
  PROVE  HeapInv'
<1>1. KeysInv'
  BY KeysList
<1>2. PICK values : O!ShowOutliers(values)
  BY DEF TestHashListSingle
<1>3. showing' = "bins" /\ i' = 1 /\ maxcounts' = [c \in {O!counts(0)'} |-> nOutliers]
  BY <1>2 DEF O!ShowOutliers
<1>4. O!counts(0)' = Count(hashes', 0)
  BY SameCardinality, Zenon DEF O!counts, O!nbH, Count
<1>5. hashes' \in Seq(O!Bins)
  BY <1>1 DEF KeysInv, ShownTypes, O!Bins
<1>6. \E src : HeapOf(hashes', 1, maxcounts', src)
  <2> DEFINE h == hashes'
             B == maxcounts'
  <2>1. h \in Seq(O!Bins) /\ B = [c \in {Count(h, 0)} |-> nOutliers]
    BY <1>3, <1>4, <1>5
  <2> HIDE DEF h, B
  <2>2. \E src : HeapOf(h, 1, B, src)
    BY <2>1, HeapStarts
  <2> QED
    BY <2>2 DEF h, B
<1>7. 1 \in 1 .. nbC
  BY Limits
<1>8. \E src : HeapOf(hashes', Counted', maxcounts', src)
  BY <1>3, <1>6 DEF Counted
<1> QED
  BY <1>3, <1>7, <1>8 DEF HeapInv

LEMMA HeapBin ==
  ASSUME KeysInv, HeapInv, O!CountBin
  PROVE  HeapInv'
<1> DEFINE C == maxcounts'
<1>1. /\ showing = "bins" /\ i < nbC /\ i' = i + 1 /\ hashes' = hashes /\ showing' = showing
      /\ C = IF O!counts(i) > O!maxbound
             THEN O!Heap!BagAdd(O!Heap!BagRemove(maxcounts, O!maxbound), O!counts(i))
             ELSE maxcounts
  BY DEF O!CountBin
<1>2. PICK src : HeapOf(hashes, i, maxcounts, src)
  BY <1>1 DEF HeapInv, Counted
<1>3. hashes \in Seq(O!Bins) /\ i \in Nat /\ i > 0 /\ i + 1 \in 1 .. nbC
  BY <1>1, Limits DEF HeapInv, KeysInv, ShownTypes
<1> HIDE DEF C
<1>4. C = IF Count(hashes, i) > O!maxbound
          THEN O!Heap!BagAdd(O!Heap!BagRemove(maxcounts, O!maxbound), Count(hashes, i))
          ELSE maxcounts
  BY <1>1, CountsAre
<1>5. \E s : HeapOf(hashes, i + 1, C, s)
  <2>1. O!maxbound = O!Min(O!BagToSet(maxcounts))
    BY DEF O!maxbound
  <2> QED
    BY <1>2, <1>3, <1>4, <2>1, HeapCounts
<1>6. \E s : HeapOf(hashes', Counted', maxcounts', s)
  BY <1>1, <1>5 DEF Counted, C
<1> QED
  BY <1>1, <1>3, <1>6 DEF HeapInv

LEMMA BoundStep ==
  ASSUME BoundInv, [Next]_vars
  PROVE  BoundInv'
<1>1. KeysInv' /\ KeysInv /\ HeapInv
  BY KeysStep DEF BoundInv
<1>2. HeapInv'
  <2>1. CASE UNCHANGED vars
    BY <1>1, <2>1, HeapSame DEF vars, outliers
  <2>2. CASE MakeDeltas
    BY <1>1, <2>2, HeapSame DEF MakeDeltas, outliers
  <2>3. CASE \E x \in {"x", "y"} : TestHashListSingle(x)
    BY <1>1, <2>3, HeapList
  <2>4. CASE O!CountBin
    BY <1>1, <2>4, HeapBin
  <2>5. CASE O!CountedBins
    BY <1>1, <2>5, HeapSame DEF O!CountedBins
  <2>6. CASE O!Record
    BY <1>1, <2>6, HeapSame DEF O!Record
  <2>7. CASE O!Recorded
    BY <1>1, <2>7, HeapSame DEF O!Recorded
  <2>8. CASE O!ShowZero
    BY <1>1, <2>8, HeapSame DEF O!ShowZero
  <2> QED
    BY <2>1, <2>2, <2>3, <2>4, <2>5, <2>6, <2>7, <2>8 DEF Next, Show, O!Loops
<1> QED
  BY <1>1, <1>2 DEF BoundInv

(***************************************************************************)
(* For any number of bins and outliers, and any hashes: when ShowOutliers()*)
(* has counted the bins, its bound is the nOutliers-th largest count, or   *)
(* that of bin 0 if that is larger.                                        *)
(***************************************************************************)
THEOREM Bound == Spec => []BoundRight
<1>1. Init => BoundInv
  <2>1. Init => showing = "idle"
    BY DEF Init, O!Init
  <2> QED
    BY <2>1, KeysInit DEF BoundInv, HeapInv
<1>2. BoundInv => BoundRight
  <2> SUFFICES ASSUME BoundInv, showing \notin {"idle", "bins"}
               PROVE  O!maxbound = O!Max({O!NthCount, O!counts(0)})
    BY DEF BoundRight, O!BoundRight
  <2>1. PICK src : HeapOf(hashes, nbC, maxcounts, src)
    BY DEF BoundInv, HeapInv, Counted
  <2>2. hashes \in Seq(O!Bins)
    BY DEF BoundInv, KeysInv, ShownTypes
  <2> QED
    BY <2>1, <2>2, HeapBound
<1>3. BoundInv /\ [Next]_vars => BoundInv'
  BY BoundStep
<1> QED
  BY <1>1, <1>2, <1>3, PTL DEF Spec

-----------------------------------------------------------------------------
(* What is shown of the bins at the bound, and of the empty ones.          *)

LEMMA FirstOfNone ==
  ASSUME NEW n \in Nat
  PROVE  O!FirstOf(<<>>, {}, n)
BY DEF O!FirstOf, O!Range

LEMMA RangeAppended ==
  ASSUME NEW s \in Seq(Nat), NEW e \in Nat
  PROVE  O!Range(Append(s, e)) = O!Range(s) \cup {e}
<1> DEFINE t == Append(s, e)
<1>1. /\ Len(s) \in Nat /\ DOMAIN s = 1 .. Len(s) /\ DOMAIN t = 1 .. Len(s) + 1
      /\ \A k \in DOMAIN s : t[k] = s[k]
      /\ t[Len(s) + 1] = e
  BY Appended
<1>2. DOMAIN t = DOMAIN s \cup {Len(s) + 1}
  BY <1>1
<1> HIDE DEF t
<1>3. {t[k] : k \in DOMAIN t} = {t[k] : k \in DOMAIN s} \cup {e}
  BY ONLY <1>1, <1>2
<1>4. {t[k] : k \in DOMAIN s} = {s[k] : k \in DOMAIN s}
  BY ONLY <1>1
<1> QED
  BY <1>3, <1>4 DEF O!Range, t

(* The next element, over all before, is recorded while there is room.     *)
LEMMA FirstOfMore ==
  ASSUME NEW s \in Seq(Nat), NEW S \in SUBSET Nat, NEW n \in Nat, O!FirstOf(s, S, n),
         NEW e \in Nat, \A d \in S : d < e
  PROVE  /\ Len(s) < n => O!FirstOf(Append(s, e), S \cup {e}, n)
         /\ ~(Len(s) < n) => O!FirstOf(s, S \cup {e}, n)
<1>1. /\ \A a, b \in 1 .. Len(s) : a < b => s[a] < s[b]
      /\ O!Range(s) \subseteq S /\ Len(s) <= n /\ Len(s) \in Nat
      /\ \A d \in S \ O!Range(s) : Len(s) = n /\ \A a \in 1 .. Len(s) : s[a] < d
  BY DEF O!FirstOf
<1>2. \A a \in 1 .. Len(s) : s[a] \in S /\ s[a] < e
  BY <1>1 DEF O!Range
<1>3. ASSUME ~(Len(s) < n) PROVE O!FirstOf(s, S \cup {e}, n)
  BY <1>1, <1>2, <1>3 DEF O!FirstOf
<1>4. ASSUME Len(s) < n PROVE O!FirstOf(Append(s, e), S \cup {e}, n)
  <2> DEFINE t == Append(s, e)
  <2>1. /\ t \in Seq(Nat) /\ Len(t) = Len(s) + 1 /\ DOMAIN t = 1 .. Len(s) + 1
        /\ \A k \in 1 .. Len(s) : t[k] = s[k]
        /\ t[Len(s) + 1] = e
    BY Appended
  <2> HIDE DEF t
  <2>2. ASSUME NEW a \in DOMAIN t, NEW b \in DOMAIN t, a < b PROVE t[a] < t[b]
    <3>1. a \in 1 .. Len(s)
      BY <1>1, <2>1, <2>2
    <3>2. CASE b = Len(s) + 1
      BY <1>2, <2>1, <3>1, <3>2
    <3>3. CASE b # Len(s) + 1
      <4>1. b \in 1 .. Len(s)
        BY <1>1, <2>1, <3>3
      <4> QED
        BY <1>1, <2>1, <2>2, <3>1, <4>1
    <3> QED
      BY <3>2, <3>3
  <2>3. O!Range(s) = S
    <3>1. ASSUME NEW d \in S \ O!Range(s) PROVE FALSE
      <4>1. Len(s) = n
        BY <1>1
      <4> QED
        BY <1>4, <4>1
    <3>2. O!Range(s) \subseteq S
      BY <1>1
    <3> HIDE DEF t
    <3> QED
      BY <3>1, <3>2
  <2>4. O!Range(t) = S \cup {e}
    BY <2>3, RangeAppended DEF t
  <2>5. Len(t) <= n
    BY <1>1, <1>4, <2>1
  <2> QED
    BY <2>2, <2>4, <2>5 DEF O!FirstOf, t
<1> QED
  BY <1>3, <1>4

(* The first k places of a list whose hashes are in a bin.                 *)
InBin(h, b, k) == {n \in 1 .. k : h[n] = b}

LEMMA InBinNext ==
  ASSUME NEW h, NEW b, NEW k \in Nat, k > 0
  PROVE  /\ InBin(h, b, k) = IF h[k] = b THEN InBin(h, b, k-1) \cup {k} ELSE InBin(h, b, k-1)
         /\ InBin(h, b, k-1) \in SUBSET Nat /\ \A d \in InBin(h, b, k-1) : d < k
<1>1. 1 .. k = (1 .. k-1) \cup {k}
  OBVIOUS
<1> QED
  BY <1>1 DEF InBin

Seen == IF showing = "hashes" THEN i-1 ELSE Len(hashes)

EntriesShown ==
  /\ showing = "bins" => \A bin \in O!Bins : entries[bin] = <<>>
  /\ showing = "hashes" => i <= Len(hashes) + 1
  /\ showing \notin {"idle", "bins"} =>
       \A bin \in O!Bins :
         IF Count(hashes, bin) >= O!maxbound
         THEN O!FirstOf(entries[bin], InBin(hashes, bin, Seen), maxPerEntry)
         ELSE entries[bin] = <<>>

LEMMA EntriesRecord ==
  ASSUME KeysInv, EntriesShown, O!Record
  PROVE  EntriesShown'
<1>1. /\ showing = "hashes" /\ i <= Len(hashes) /\ i' = i + 1
      /\ entries' = IF O!Wanted(hashes[i])
                    THEN [entries EXCEPT ![hashes[i]] = Append(@, i)] ELSE entries
      /\ showing' = showing /\ hashes' = hashes /\ maxcounts' = maxcounts
  BY DEF O!Record, O!nbH
<1>2. /\ i \in Nat /\ i > 0 /\ hashes \in Seq(O!Bins) /\ Len(hashes) \in Nat
      /\ DOMAIN entries = O!Bins
      /\ \A bin \in O!Bins : entries[bin] \in Seq(Nat)
  <2>1. \A s \in Seq(1 .. Len(hashes)) : s \in Seq(Nat)
    OBVIOUS
  <2> QED
    BY <1>1, <2>1 DEF KeysInv, ShownTypes
<1>3. O!maxbound' = O!maxbound
  BY <1>1 DEF O!maxbound
<1>4. \A bin \in O!Bins : O!Wanted(bin) <=> /\ Count(hashes, bin) >= O!maxbound
                                            /\ Len(entries[bin]) < maxPerEntry
  <2> SUFFICES ASSUME NEW bin \in O!Bins, entries[bin] = <<>> PROVE Len(entries[bin]) < maxPerEntry
    BY CountsAre DEF O!Wanted
  <2> QED
    BY Limits
<1>5. ASSUME NEW bin \in O!Bins
      PROVE  IF Count(hashes, bin) >= O!maxbound
             THEN O!FirstOf(entries'[bin], InBin(hashes, bin, i), maxPerEntry)
             ELSE entries'[bin] = <<>>
  <2> DEFINE S == InBin(hashes, bin, i - 1)
             s == entries[bin]
  <2>1. CASE ~(Count(hashes, bin) >= O!maxbound)
    <3>1. entries[bin] = <<>>
      BY <1>1, <2>1 DEF EntriesShown
    <3>2. entries'[bin] = entries[bin]
      BY <1>1, <1>2, <1>4, <2>1
    <3> QED
      BY <2>1, <3>1, <3>2
  <2>2. CASE Count(hashes, bin) >= O!maxbound
    <3>1. O!FirstOf(s, S, maxPerEntry)
      BY <1>1, <2>2 DEF EntriesShown, Seen
    <3>2. CASE hashes[i] # bin
      <4>1. InBin(hashes, bin, i) = S
        BY <1>2, <3>2, InBinNext
      <4>2. entries'[bin] = s
        BY <1>1, <1>2, <3>2
      <4> QED
        BY <2>2, <3>1, <4>1, <4>2
    <3>3. CASE hashes[i] = bin
      <4>1. InBin(hashes, bin, i) = S \cup {i} /\ S \in SUBSET Nat /\ \A d \in S : d < i
        BY <1>2, <3>3, InBinNext
      <4>2. entries'[bin] = IF Len(s) < maxPerEntry THEN Append(s, i) ELSE s
        BY <1>1, <1>2, <1>4, <2>2, <3>3
      <4>3. s \in Seq(Nat)
        BY <1>2
      <4> HIDE DEF S, s
      <4>4. /\ Len(s) < maxPerEntry => O!FirstOf(Append(s, i), S \cup {i}, maxPerEntry)
            /\ ~(Len(s) < maxPerEntry) => O!FirstOf(s, S \cup {i}, maxPerEntry)
        BY <1>2, <3>1, <4>1, <4>3, Limits, FirstOfMore
      <4> QED
        BY <2>2, <4>1, <4>2, <4>4
    <3> QED
      BY <3>2, <3>3
  <2> QED
    BY <2>1, <2>2
<1>6. Seen' = i
  BY <1>1, <1>2 DEF Seen
<1> QED
  BY <1>1, <1>2, <1>3, <1>5, <1>6 DEF EntriesShown, O!Bins

(* The empty ones of the first n bins.                                     *)
Empty(h, n) == {b \in 0 .. n-1 : Count(h, b) = 0}

LEMMA EmptyNext ==
  ASSUME NEW h, NEW n \in Nat
  PROVE  /\ IsFiniteSet(Empty(h, n)) /\ Cardinality(Empty(h, n)) \in Nat
         /\ Empty(h, n + 1) = IF Count(h, n) = 0 THEN Empty(h, n) \cup {n} ELSE Empty(h, n)
         /\ Cardinality(Empty(h, n + 1)) =
              IF Count(h, n) = 0 THEN Cardinality(Empty(h, n)) + 1 ELSE Cardinality(Empty(h, n))
<1>1. IsFiniteSet(Empty(h, n))
  <2>1. IsFiniteSet(0 .. n-1) /\ Empty(h, n) \in SUBSET (0 .. n-1)
    BY FS_Interval DEF Empty
  <2> QED
    BY <2>1, FS_Subset
<1>2. 0 .. (n + 1) - 1 = (0 .. n-1) \cup {n} /\ n \notin 0 .. n-1
  OBVIOUS
<1>3. /\ n \notin Empty(h, n)
      /\ Empty(h, n + 1) = IF Count(h, n) = 0 THEN Empty(h, n) \cup {n} ELSE Empty(h, n)
  BY <1>2 DEF Empty
<1> QED
  BY <1>1, <1>3, FS_AddElement, FS_CardinalityType

(* No more bins are announced than are shown.                              *)
Announced(h) ==
  LET c == Cardinality(Empty(h, nbC)) IN IF c <= maxEntries THEN c ELSE maxEntries

ZerosShown ==
  /\ zeros \in Seq(Nat) /\ zerocount \in Nat
  /\ showing \in {"idle", "bins", "hashes"} => zeros = <<>>
  /\ showing = "bins" => zerocount = Cardinality(Empty(hashes, i))
  /\ showing = "hashes" => zerocount = Cardinality(Empty(hashes, nbC))
  /\ showing \in {"zeros", "done"} =>
       /\ i <= nbC
       /\ \A a, b \in DOMAIN zeros : a < b => zeros[a] < zeros[b]
       /\ O!Range(zeros) = Empty(hashes, i)
       /\ Len(zeros) = Cardinality(Empty(hashes, i))
       /\ zerocount + Len(zeros) = Announced(hashes)
       /\ zerocount > 0 <=> showing = "zeros"

LEMMA ZerosRecorded ==
  ASSUME KeysInv, ZerosShown, O!Recorded
  PROVE  ZerosShown'
<1>1. /\ showing = "hashes" /\ showing' = (IF zerocount > 0 THEN "zeros" ELSE "done")
      /\ i' = 0 /\ zerocount' = O!Min({zerocount, maxEntries})
      /\ hashes' = hashes /\ zeros' = zeros
  BY DEF O!Recorded
<1>2. zeros = <<>> /\ zerocount = Cardinality(Empty(hashes, nbC)) /\ zerocount \in Nat
  BY <1>1 DEF ZerosShown
<1>3. zerocount' = IF zerocount <= maxEntries THEN zerocount ELSE maxEntries
  <2> DEFINE z == zerocount
             Least(e) == e \in {z, maxEntries} /\ \A d \in {z, maxEntries} : e <= d
  <2>1. O!Min({z, maxEntries}) = CHOOSE e : Least(e)
    BY DEF O!Min
  <2>2. \E e : Least(e)
    <3>1. CASE z <= maxEntries
      <4>1. Least(z)
        BY <1>2, <3>1, Limits
      <4> QED
        BY <4>1
    <3>2. CASE ~(z <= maxEntries)
      <4>1. Least(maxEntries)
        BY <1>2, <3>2, Limits
      <4> QED
        BY <4>1
    <3> QED
      BY <3>1, <3>2
  <2>3. Least(O!Min({z, maxEntries}))
    <3> HIDE DEF Least
    <3> QED
      BY <2>1, <2>2, Zenon
  <2> QED
    BY <1>1, <1>2, <2>3, Limits
<1>4. Empty(hashes, 0) = {} /\ Cardinality(Empty(hashes, 0)) = 0
  <2>1. Empty(hashes, 0) = {}
    BY DEF Empty
  <2> QED
    BY <2>1, FS_EmptySet
<1>5. zerocount' = Announced(hashes)
  BY <1>2, <1>3 DEF Announced
<1>6. O!Range(<<>>) = {} /\ Len(<<>>) = 0 /\ <<>> \in Seq(Nat)
  BY DEF O!Range
<1>7. zerocount' \in Nat /\ (zerocount' > 0 <=> zerocount > 0)
  BY <1>2, <1>3, Limits
<1>8. Announced(hashes)' = Announced(hashes) /\ Empty(hashes, i)' = Empty(hashes, 0)
  BY <1>1 DEF Announced, Empty, Count
<1>9. O!Range(zeros)' = {}
  BY <1>1, <1>2 DEF O!Range
<1>10. zeros' = <<>> /\ showing' \in {"zeros", "done"} /\ (zerocount' > 0 <=> showing' = "zeros")
  BY <1>1, <1>2, <1>7
<1>11. /\ zeros' \in Seq(Nat) /\ Len(zeros') = 0 /\ i' <= nbC
       /\ \A a, b \in DOMAIN zeros' : a < b => zeros'[a] < zeros'[b]
  BY <1>1, <1>6, <1>10, Limits
<1>12. O!Range(zeros)' = Empty(hashes, i)' /\ Len(zeros') = Cardinality(Empty(hashes, i)')
  BY <1>4, <1>8, <1>9, <1>11
<1>13. zerocount' + Len(zeros') = Announced(hashes)'
  BY <1>5, <1>7, <1>8, <1>11
<1> QED
  BY <1>7, <1>10, <1>11, <1>12, <1>13 DEF ZerosShown

LEMMA ZerosZero ==
  ASSUME KeysInv, ZerosShown, O!ShowZero
  PROVE  ZerosShown'
<1> DEFINE E == Empty(hashes, i)
           t == zeros'
<1>1. /\ showing = "zeros" /\ i' = i + 1 /\ hashes' = hashes
      /\ \/ /\ Count(hashes, i) = 0 /\ t = Append(zeros, i) /\ zerocount' = zerocount - 1
            /\ showing' = IF zerocount' = 0 THEN "done" ELSE showing
         \/ /\ Count(hashes, i) # 0 /\ t = zeros /\ zerocount' = zerocount /\ showing' = showing
  BY CountsAre DEF O!ShowZero
<1>2. /\ zeros \in Seq(Nat) /\ zerocount \in Nat /\ i \in Nat /\ i <= nbC /\ zerocount > 0
      /\ \A a, b \in DOMAIN zeros : a < b => zeros[a] < zeros[b]
      /\ O!Range(zeros) = E /\ Len(zeros) = Cardinality(E)
      /\ zerocount + Len(zeros) = Announced(hashes)
  BY <1>1 DEF ZerosShown, KeysInv, ShownTypes
<1>3. i < nbC
  <2> SUFFICES ASSUME i = nbC PROVE FALSE
    BY <1>2, Limits
  <2>1. Announced(hashes) <= Cardinality(E) /\ Cardinality(E) \in Nat
    <3>1. Cardinality(E) \in Nat
      BY <1>2, EmptyNext
    <3> QED
      BY <3>1, Limits DEF Announced
  <2> HIDE DEF E
  <2> QED
    BY <1>2, <2>1
<1>4. /\ Announced(hashes)' = Announced(hashes) /\ Empty(hashes, i)' = Empty(hashes, i + 1)
  BY <1>1 DEF Announced, Empty, Count
<1>5. i' <= nbC /\ i + 1 \in Nat
  BY <1>1, <1>2, <1>3, Limits
<1>6. CASE Count(hashes, i) # 0
  <2>1. Empty(hashes, i + 1) = E
    BY <1>2, <1>6, EmptyNext
  <2>2. O!Range(zeros)' = O!Range(zeros)
    BY <1>1, <1>6 DEF O!Range
  <2> HIDE DEF E, t
  <2>3. t = zeros /\ zerocount' = zerocount /\ showing' = showing
    BY <1>1, <1>6
  <2> QED
    BY <1>1, <1>2, <1>4, <1>5, <2>1, <2>2, <2>3 DEF ZerosShown, t
<1>7. CASE Count(hashes, i) = 0
  <2>1. Empty(hashes, i + 1) = E \cup {i} /\ Cardinality(Empty(hashes, i + 1)) = Cardinality(E) + 1
    BY <1>2, <1>7, EmptyNext
  <2>2. /\ t \in Seq(Nat) /\ Len(t) = Len(zeros) + 1 /\ DOMAIN t = 1 .. Len(zeros) + 1
        /\ \A k \in 1 .. Len(zeros) : t[k] = zeros[k]
        /\ t[Len(zeros) + 1] = i /\ Len(zeros) \in Nat
    <3>1. t = Append(zeros, i) /\ zeros \in Seq(Nat) /\ i \in Nat
      BY <1>1, <1>2, <1>7
    <3> HIDE DEF t
    <3>2. /\ t \in Seq(Nat) /\ Len(t) = Len(zeros) + 1 /\ Len(zeros) \in Nat
          /\ \A k \in 1 .. Len(zeros) : t[k] = zeros[k]
          /\ t[Len(zeros) + 1] = i
      BY <3>1, Appended
    <3> QED
      BY <3>2
  <2> HIDE DEF t
  <2>3. \A k \in 1 .. Len(zeros) : zeros[k] < i
    <3>1. \A k \in 1 .. Len(zeros) : zeros[k] \in E
      BY <1>2 DEF O!Range
    <3> QED
      BY <1>2, <3>1 DEF Empty
  <2>4. ASSUME NEW a \in DOMAIN t, NEW b \in DOMAIN t, a < b PROVE t[a] < t[b]
    <3>1. a \in 1 .. Len(zeros)
      BY <2>2, <2>4
    <3>2. CASE b = Len(zeros) + 1
      BY <2>2, <2>3, <3>1, <3>2
    <3>3. CASE b # Len(zeros) + 1
      <4>1. b \in 1 .. Len(zeros)
        BY <2>2, <3>3
      <4> QED
        BY <1>2, <2>2, <2>4, <3>1, <4>1
    <3> QED
      BY <3>2, <3>3
  <2>5. O!Range(t) = E \cup {i}
    <3>1. O!Range(t) = O!Range(zeros) \cup {i}
      BY <1>1, <1>2, <1>7, RangeAppended
    <3>2. O!Range(zeros) = E
      BY <1>2
    <3> QED
      BY <3>1, <3>2, Zenon
  <2>6. O!Range(zeros)' = O!Range(t)
    BY DEF O!Range, t
  <2>7. /\ zerocount' = zerocount - 1 /\ zerocount' \in Nat
        /\ showing' = IF zerocount' = 0 THEN "done" ELSE "zeros"
    BY <1>1, <1>2, <1>7
  <2> HIDE DEF E
  <2>8. Len(t) = Cardinality(Empty(hashes, i + 1)) /\ zerocount' + Len(t) = Announced(hashes)
    BY <1>2, <2>1, <2>2, <2>7
  <2>9. O!Range(zeros)' = Empty(hashes, i + 1)
    BY <2>1, <2>5, <2>6
  <2> QED
    BY <1>1, <1>4, <1>5, <2>2, <2>4, <2>7, <2>8, <2>9 DEF ZerosShown, t
<1> QED
  BY <1>6, <1>7

LEMMA EntriesStep ==
  ASSUME KeysInv, EntriesShown, [Next]_vars
  PROVE  EntriesShown'
<1>1. CASE UNCHANGED <<hashes, entries, maxcounts, showing, i>>
  BY <1>1 DEF EntriesShown, Seen, O!maxbound, O!Bins
<1>2. CASE MakeDeltas
  BY <1>1, <1>2 DEF MakeDeltas, outliers
<1>3. CASE \E x \in {"x", "y"} : TestHashListSingle(x)
  <2>1. showing = "idle" /\ showing' = "bins" /\ entries' = entries
    BY <1>3 DEF TestHashListSingle, O!ShowOutliers
  <2> QED
    BY <2>1 DEF KeysInv, ShownTypes, EntriesShown, O!Bins
<1>4. CASE O!CountBin
  BY <1>4 DEF O!CountBin, EntriesShown, O!Bins
<1>5. CASE O!CountedBins
  <2>1. /\ showing = "bins" /\ showing' = "hashes" /\ i' = 1
        /\ entries' = entries /\ hashes' = hashes
    BY <1>5 DEF O!CountedBins
  <2>2. \A bin : InBin(hashes, bin, 0) = {}
    BY DEF InBin
  <2>3. Seen' = 0 /\ Len(hashes) \in Nat
    BY <2>1 DEF Seen, KeysInv, ShownTypes
  <2>4. \A bin \in O!Bins : entries[bin] = <<>>
    BY <2>1 DEF EntriesShown
  <2>5. O!FirstOf(<<>>, {}, maxPerEntry)
    BY Limits, FirstOfNone
  <2>6. ASSUME NEW bin \in O!Bins
        PROVE  O!FirstOf(entries'[bin], InBin(hashes', bin, Seen'), maxPerEntry)
    <3>1. entries'[bin] = <<>> /\ InBin(hashes', bin, Seen') = {}
      BY <2>1, <2>2, <2>3, <2>4
    <3> QED
      BY <2>5, <3>1
  <2> QED
    BY <2>1, <2>3, <2>4, <2>6 DEF EntriesShown, O!Bins
<1>6. CASE O!Record
  BY <1>6, EntriesRecord
<1>7. CASE O!Recorded
  <2>1. /\ showing = "hashes" /\ showing' \in {"zeros", "done"} /\ i > Len(hashes)
        /\ entries' = entries /\ hashes' = hashes /\ maxcounts' = maxcounts
    BY <1>7 DEF O!Recorded, O!nbH
  <2>2. Seen' = Seen
    BY <2>1 DEF Seen, EntriesShown, KeysInv, ShownTypes
  <2> QED
    BY <2>1, <2>2 DEF EntriesShown, O!maxbound, O!Bins
<1>8. CASE O!ShowZero
  <2>1. /\ showing = "zeros" /\ showing' \in {"zeros", "done"}
        /\ entries' = entries /\ hashes' = hashes /\ maxcounts' = maxcounts
    BY <1>8 DEF O!ShowZero
  <2>2. Seen' = Seen
    BY <2>1 DEF Seen
  <2> QED
    BY <2>1, <2>2 DEF EntriesShown, O!maxbound, O!Bins
<1>9. CASE UNCHANGED vars
  BY <1>1, <1>9 DEF vars, outliers
<1> QED
  BY <1>2, <1>3, <1>4, <1>5, <1>6, <1>7, <1>8, <1>9 DEF Next, Show, O!Loops

LEMMA ZerosStep ==
  ASSUME KeysInv, ZerosShown, [Next]_vars
  PROVE  ZerosShown'
<1>1. CASE UNCHANGED <<hashes, zeros, zerocount, showing, i>>
  BY <1>1 DEF ZerosShown, Announced, Empty, Count, O!Range
<1>2. CASE MakeDeltas
  BY <1>1, <1>2 DEF MakeDeltas, outliers
<1>3. CASE \E x \in {"x", "y"} : TestHashListSingle(x)
  <2>1. /\ showing = "idle" /\ showing' = "bins" /\ zeros' = zeros /\ i' = 1
        /\ zerocount' = IF O!counts(0)' = 0 THEN 1 ELSE 0
    BY <1>3 DEF TestHashListSingle, O!ShowOutliers
  <2>2. O!counts(0)' = Count(hashes', 0)
    BY SameCardinality, Zenon DEF O!counts, O!nbH, Count
  <2>3. \A h : Cardinality(Empty(h, 1)) = IF Count(h, 0) = 0 THEN 1 ELSE 0
    <3> SUFFICES ASSUME NEW h PROVE Cardinality(Empty(h, 1)) = IF Count(h, 0) = 0 THEN 1 ELSE 0
      OBVIOUS
    <3>1. Empty(h, 0) = {} /\ Cardinality(Empty(h, 0)) = 0
      <4>1. Empty(h, 0) = {}
        BY DEF Empty
      <4> QED
        BY <4>1, FS_EmptySet
    <3>2. Cardinality(Empty(h, 0 + 1)) =
            IF Count(h, 0) = 0 THEN Cardinality(Empty(h, 0)) + 1 ELSE Cardinality(Empty(h, 0))
      BY EmptyNext
    <3> QED
      BY <3>1, <3>2
  <2>4. zerocount' = Cardinality(Empty(hashes', 1)) /\ zerocount' \in Nat
    BY <2>1, <2>2, <2>3
  <2> QED
    BY <2>1, <2>4 DEF ZerosShown
<1>4. CASE O!CountBin
  <2>1. /\ showing = "bins" /\ showing' = "bins" /\ zeros' = zeros /\ i' = i + 1
        /\ hashes' = hashes
        /\ zerocount' = zerocount + IF Count(hashes, i) = 0 THEN 1 ELSE 0
    BY <1>4, CountsAre DEF O!CountBin
  <2>2. i \in Nat /\ zerocount = Cardinality(Empty(hashes, i))
    BY <2>1 DEF ZerosShown, KeysInv, ShownTypes
  <2>3. /\ zerocount \in Nat
        /\ Cardinality(Empty(hashes, i + 1)) =
             IF Count(hashes, i) = 0 THEN zerocount + 1 ELSE zerocount
    BY <2>2, EmptyNext
  <2>4. zerocount' = Cardinality(Empty(hashes, i + 1)) /\ zerocount' \in Nat
    BY <2>1, <2>3
  <2> QED
    BY <2>1, <2>4 DEF ZerosShown
<1>5. CASE O!CountedBins
  BY <1>5 DEF O!CountedBins, ZerosShown
<1>6. CASE O!Record
  BY <1>6 DEF O!Record, ZerosShown
<1>7. CASE O!Recorded
  BY <1>7, ZerosRecorded
<1>8. CASE O!ShowZero
  BY <1>8, ZerosZero
<1>9. CASE UNCHANGED vars
  BY <1>1, <1>9 DEF vars, outliers
<1> QED
  BY <1>2, <1>3, <1>4, <1>5, <1>6, <1>7, <1>8, <1>9 DEF Next, Show, O!Loops

ShownInv == KeysInv /\ EntriesShown /\ ZerosShown

(* The loop over the empty bins ends with as many as were announced.       *)
LEMMA ZerosAreFirst ==
  ASSUME ShownInv, showing = "done"
  PROVE  O!FirstOf(zeros, {bin \in O!Bins : O!counts(bin) = 0}, maxEntries)
<1> DEFINE E == Empty(hashes, nbC)
           F == Empty(hashes, i)
<1>1. /\ i \in Nat /\ i <= nbC /\ zeros \in Seq(Nat)
      /\ \A a, b \in DOMAIN zeros : a < b => zeros[a] < zeros[b]
      /\ O!Range(zeros) = F /\ Len(zeros) = Cardinality(F)
      /\ Len(zeros) = Announced(hashes)
  BY DEF ShownInv, ZerosShown, KeysInv, ShownTypes
<1>2. {bin \in O!Bins : O!counts(bin) = 0} = E
  BY CountsAre DEF Empty, O!Bins
<1>3. IsFiniteSet(E) /\ Cardinality(E) \in Nat /\ F \in SUBSET E
  <2>1. 0 .. i-1 \subseteq 0 .. nbC-1
    BY <1>1, Limits
  <2>2. F \in SUBSET E
    BY <2>1 DEF Empty
  <2> QED
    BY <2>2, EmptyNext, Limits
<1>4. Len(zeros) <= maxEntries
  BY <1>1, <1>3, Limits DEF Announced
<1>5. ASSUME NEW e \in E \ F PROVE Len(zeros) = maxEntries /\ \A a \in DOMAIN zeros : zeros[a] < e
  <2>1. e >= i /\ \A d \in F : d < i
    BY <1>1 DEF Empty
  <2>2. e \in Int
    BY DEF Empty
  <2>3. \A a \in DOMAIN zeros : zeros[a] \in F
    BY <1>1 DEF O!Range
  <2>4. Cardinality(F) # Cardinality(E)
    <3> HIDE DEF E, F
    <3> QED
      BY <1>3, <1>5, FS_Subset
  <2>5. Announced(hashes) # Cardinality(E)
    BY <1>1, <2>4
  <2>6. \A d \in F : d \in Int
    BY DEF Empty
  <2>7. Len(zeros) = maxEntries
    BY <1>1, <2>5 DEF Announced
  <2> HIDE DEF E, F
  <2> QED
    BY <1>1, <2>1, <2>2, <2>3, <2>6, <2>7
<1> HIDE DEF E, F
<1>6. O!FirstOf(zeros, E, maxEntries)
  BY <1>1, <1>3, <1>4, <1>5 DEF O!FirstOf
<1> QED
  BY <1>2, <1>6

(***************************************************************************)
(* For any number of bins, any limits and any hashes: ShowOutliers() shows *)
(* only bins at its bound or over, each with the first of its hashes, as   *)
(* many as the limit and the headline say; it leaves none out for which    *)
(* there is room; and it shows the first empty bins, as many as announced. *)
(***************************************************************************)
THEOREM Shown == Spec => []ShownRight
<1>1. Init => ShownInv
  <2> SUFFICES ASSUME Init PROVE ShownInv
    OBVIOUS
  <2>1. KeysInv
    BY KeysInit
  <2>2. showing = "idle" /\ zeros = <<>> /\ zerocount = 0
    BY DEF Init, O!Init
  <2> QED
    BY <2>1, <2>2 DEF ShownInv, EntriesShown, ZerosShown
<1>2. ShownInv => ShownRight
  <2> SUFFICES ASSUME ShownInv, showing = "done" PROVE ShownRight
    BY DEF ShownRight, O!ShownRight
  <2>1. O!FirstOf(zeros, {bin \in O!Bins : O!counts(bin) = 0}, maxEntries)
    BY ZerosAreFirst
  <2>2. ASSUME NEW bin \in O!Bins
        PROVE  IF O!counts(bin) >= O!maxbound
               THEN O!FirstOf(entries[bin], {n \in 1 .. O!nbH : hashes[n] = bin}, maxPerEntry)
               ELSE entries[bin] = <<>>
    <3>1. Seen = Len(hashes) /\ O!counts(bin) = Count(hashes, bin)
      BY CountsAre DEF Seen
    <3>2. InBin(hashes, bin, Seen) = {n \in 1 .. O!nbH : hashes[n] = bin}
      BY <3>1, Zenon DEF InBin, O!nbH
    <3>3. IF Count(hashes, bin) >= O!maxbound
          THEN O!FirstOf(entries[bin], InBin(hashes, bin, Seen), maxPerEntry)
          ELSE entries[bin] = <<>>
      BY DEF ShownInv, EntriesShown
    <3> QED
      BY <3>1, <3>2, <3>3
  <2>3. ASSUME NEW bin \in O!ShownBins
        PROVE  /\ O!counts(bin) >= O!maxbound
               /\ O!FirstOf(entries[bin], {n \in 1 .. O!nbH : hashes[n] = bin}, maxPerEntry)
    <3>1. bin \in O!Bins /\ entries[bin] # <<>>
      BY DEF O!ShownBins
    <3> QED
      BY <2>2, <3>1
  <2>4. ASSUME NEW bin \in O!Bins \ O!ShownBins, O!counts(bin) > 0, O!counts(bin) >= O!maxbound
        PROVE  FALSE
    <3> DEFINE E == {n \in 1 .. O!nbH : hashes[n] = bin}
    <3>1. entries[bin] = <<>>
      BY DEF O!ShownBins
    <3>2. O!FirstOf(<<>>, E, maxPerEntry)
      BY <2>2, <2>4, <3>1
    <3>3. E # {}
      <4>1. O!counts(bin) = Cardinality(E)
        BY SameCardinality, Zenon DEF O!counts
      <4>2. Cardinality({}) = 0
        BY FS_EmptySet
      <4> HIDE DEF E
      <4> QED
        BY <2>4, <4>1, <4>2
    <3>4. O!Range(<<>>) = {} /\ Len(<<>>) = 0
      BY DEF O!Range
    <3> HIDE DEF E
    <3>5. Len(<<>>) = maxPerEntry
      BY <3>2, <3>3, <3>4 DEF O!FirstOf
    <3> QED
      BY <3>4, <3>5, Limits
  <2> QED
    BY <2>1, <2>3, <2>4 DEF ShownRight, O!ShownRight
<1>3. ShownInv /\ [Next]_vars => ShownInv'
  BY KeysStep, EntriesStep, ZerosStep DEF ShownInv
<1> QED
  BY <1>1, <1>2, <1>3, PTL DEF Spec

-----------------------------------------------------------------------------
(* The hashes and their order.                                             *)

LEMMA BitLen ==
  bitlen \in Nat /\ bitlen > 0
BY InputsAssumption DEF Inputs

(* Two different hashes have a first bit in which they differ.             *)
LEMMA FirstDifference ==
  ASSUME NEW h \in Hash, NEW g \in Hash, h # g
  PROVE  \E b \in 1 .. bitlen : h[b] # g[b] /\ \A a \in 1 .. b-1 : h[a] = g[a]
<1> DEFINE Differ == {b \in 1 .. bitlen : h[b] # g[b]}
<1>1. bitlen \in Nat /\ Differ \in SUBSET Nat
  BY BitLen
<1>2. Differ # {}
  <2> SUFFICES ASSUME \A b \in 1 .. bitlen : h[b] = g[b] PROVE FALSE
    OBVIOUS
  <2>1. h = [b \in 1 .. bitlen |-> h[b]] /\ g = [b \in 1 .. bitlen |-> g[b]]
    BY DEF Hash
  <2> QED
    BY <2>1
<1>3. PICK b \in Differ : \A a \in Differ : b <= a
  <2> HIDE DEF Differ
  <2> QED
    BY <1>1, <1>2, LeastNatural
<1>4. \A a \in 1 .. b-1 : h[a] = g[a]
  BY <1>1, <1>3
<1> QED
  BY <1>3, <1>4

LEMMA BitValues ==
  ASSUME NEW h \in Hash, NEW b \in 1 .. bitlen
  PROVE  h[b] \in {0, 1}
BY DEF Hash

LEMMA LessTotal ==
  ASSUME NEW h \in Hash, NEW g \in Hash
  PROVE  h = g \/ Less(h, g) \/ Less(g, h)
<1> SUFFICES ASSUME h # g PROVE Less(h, g) \/ Less(g, h)
  OBVIOUS
<1>1. PICK b \in 1 .. bitlen : h[b] # g[b] /\ \A a \in 1 .. b-1 : h[a] = g[a]
  BY FirstDifference
<1>2. h[b] \in {0, 1} /\ g[b] \in {0, 1}
  BY BitValues
<1>3. h[b] < g[b] \/ g[b] < h[b]
  BY <1>1, <1>2
<1> QED
  BY <1>1, <1>3 DEF Less

LEMMA LessStrict ==
  ASSUME NEW h \in Hash, NEW g \in Hash, Less(h, g)
  PROVE  ~Less(g, h) /\ h # g
<1>1. PICK b \in 1 .. bitlen : h[b] < g[b] /\ \A a \in 1 .. b-1 : h[a] = g[a]
  BY DEF Less
<1>2. \A c \in 1 .. bitlen : h[c] \in {0, 1} /\ g[c] \in {0, 1}
  BY BitValues
<1>3. h # g
  BY <1>1, <1>2
<1>4. ASSUME NEW c \in 1 .. bitlen, g[c] < h[c], \A a \in 1 .. c-1 : g[a] = h[a]
      PROVE  FALSE
  <2>1. CASE b < c
    BY <1>1, <1>2, <1>4, <2>1, b \in 1 .. c-1, BitLen
  <2>2. CASE b = c
    BY <1>1, <1>2, <1>4, <2>2
  <2>3. CASE c < b
    BY <1>1, <1>2, <1>4, <2>3, c \in 1 .. b-1, BitLen
  <2> QED
    BY <2>1, <2>2, <2>3, BitLen
<1> QED
  BY <1>3, <1>4 DEF Less

LEMMA LessTransitive ==
  ASSUME NEW h \in Hash, NEW g \in Hash, NEW f \in Hash,
         Less(h, g), Less(g, f)
  PROVE  Less(h, f)
<1>1. PICK b \in 1 .. bitlen : h[b] < g[b] /\ \A a \in 1 .. b-1 : h[a] = g[a]
  BY DEF Less
<1>2. PICK c \in 1 .. bitlen : g[c] < f[c] /\ \A a \in 1 .. c-1 : g[a] = f[a]
  BY DEF Less
<1>3. \A d \in 1 .. bitlen : h[d] \in {0, 1} /\ g[d] \in {0, 1} /\ f[d] \in {0, 1}
  BY BitValues
<1>4. CASE b < c
  <2>1. h[b] < f[b] /\ \A a \in 1 .. b-1 : h[a] = f[a]
    BY <1>1, <1>2, <1>4, b \in 1 .. c-1, \A a \in 1 .. b-1 : a \in 1 .. c-1, BitLen
  <2> QED
    BY <2>1 DEF Less
<1>5. CASE c <= b
  <2>1. h[c] < f[c]
    <3>1. CASE c = b
      BY <1>1, <1>2, <1>3, <3>1
    <3>2. CASE c < b
      BY <1>1, <1>2, <3>2, c \in 1 .. b-1, BitLen
    <3> QED
      BY <1>5, <3>1, <3>2, BitLen
  <2>2. \A a \in 1 .. c-1 : h[a] = f[a]
    BY <1>1, <1>2, <1>5, \A a \in 1 .. c-1 : a \in 1 .. b-1, BitLen
  <2> QED
    BY <2>1, <2>2 DEF Less
<1> QED
  BY <1>4, <1>5, BitLen

(* Hashes with the same first bits.                                        *)
LEMMA MaskedHash ==
  ASSUME NEW h \in Hash, NEW n
  PROVE  Masked(h, n) \in Hash
BY DEF Masked, Hash

LEMMA SameMasked ==
  ASSUME NEW h \in Hash, NEW g \in Hash, NEW n \in Int
  PROVE  Masked(h, n) = Masked(g, n)
           <=> \A b \in 1 .. bitlen : b <= n => h[b] = g[b]
<1>1. ASSUME Masked(h, n) = Masked(g, n), NEW b \in 1 .. bitlen, b <= n
      PROVE  h[b] = g[b]
  <2>1. Masked(h, n)[b] = h[b] /\ Masked(g, n)[b] = g[b]
    BY <1>1 DEF Masked
  <2> QED
    BY <1>1, <2>1
<1>2. ASSUME \A b \in 1 .. bitlen : b <= n => h[b] = g[b]
      PROVE  Masked(h, n) = Masked(g, n)
  BY <1>2 DEF Masked
<1> QED
  BY <1>1, <1>2

LEMMA MaskedWhole ==
  ASSUME NEW h \in Hash, NEW n \in Int, n >= bitlen
  PROVE  Masked(h, n) = h
<1>1. \A b \in 1 .. bitlen : b <= n
  BY BitLen
<1> QED
  BY <1>1 DEF Masked, Hash

(* What lies between two hashes with the same first bits has them too.     *)
LEMMA MaskedConvex ==
  ASSUME NEW h \in Hash, NEW g \in Hash, NEW f \in Hash, NEW n \in Int,
         ~Less(g, h), ~Less(f, g), Masked(h, n) = Masked(f, n)
  PROVE  Masked(g, n) = Masked(h, n)
<1>1. \A b \in 1 .. bitlen : b <= n => h[b] = f[b]
  BY SameMasked
<1>2. SUFFICES ASSUME Masked(g, n) # Masked(h, n) PROVE FALSE
  OBVIOUS
<1>3. PICK e \in 1 .. bitlen : e <= n /\ h[e] # g[e]
  BY <1>2, SameMasked
<1>4. PICK b \in 1 .. bitlen : h[b] # g[b] /\ \A a \in 1 .. b-1 : h[a] = g[a]
  BY <1>3, FirstDifference
<1>5. b <= e
  BY <1>3, <1>4, BitLen
<1>6. f[b] = h[b] /\ \A a \in 1 .. b-1 : h[a] = f[a]
  BY <1>1, <1>3, <1>5, BitLen
<1>7. h[b] \in {0, 1} /\ g[b] \in {0, 1}
  BY BitValues
<1>8. CASE g[b] < h[b]
  BY <1>4, <1>8 DEF Less
<1>9. CASE h[b] < g[b]
  <2>1. f[b] < g[b] /\ \A a \in 1 .. b-1 : f[a] = g[a]
    BY <1>4, <1>6, <1>9
  <2> QED
    BY <2>1 DEF Less
<1> QED
  BY <1>4, <1>7, <1>8, <1>9

(* highzerobits() is the number of the first bits that are the same.       *)
LEMMA HighZeroBits ==
  ASSUME NEW h \in Hash, NEW g \in Hash
  PROVE  /\ R!highzerobits(h, g) \in 0 .. bitlen
         /\ \A n \in 0 .. bitlen :
              Masked(h, n) = Masked(g, n) <=> n <= R!highzerobits(h, g)
<1> DEFINE S == {n \in 0 .. bitlen : \A b \in 1 .. n : h[b] = g[b]}
           z == R!highzerobits(h, g)
<1>1. bitlen \in Nat
  BY BitLen
<1>2. \E m \in S : \A n \in S : m >= n
  <2> DEFINE T == {k \in 0 .. bitlen : bitlen - k \in S}
  <2>1. T \in SUBSET Nat /\ bitlen \in T
    BY <1>1
  <2>2. PICK k \in T : \A l \in T : k <= l
    <3> HIDE DEF T
    <3> QED
      BY <2>1, LeastNatural
  <2>3. \A n \in S : bitlen - n \in T
    <3> SUFFICES ASSUME NEW n \in S PROVE bitlen - n \in T
      OBVIOUS
    <3>1. bitlen - n \in 0 .. bitlen /\ bitlen - (bitlen - n) = n
      BY <1>1
    <3> QED
      BY <3>1
  <2> HIDE DEF S
  <2>4. S \in SUBSET Int
    BY DEF S
  <2>5. bitlen - k \in S /\ \A n \in S : bitlen - k >= n
    BY <1>1, <2>2, <2>3, <2>4
  <2> QED
    BY <2>5
<1>3. z \in S /\ \A n \in S : z >= n
  <2>1. z = CHOOSE m \in S : \A n \in S : m >= n
    BY DEF R!highzerobits, R!Max
  <2> HIDE DEF S, z
  <2> QED
    BY <1>2, <2>1
<1> HIDE DEF z
<1>4. ASSUME NEW n \in 0 .. bitlen
      PROVE  Masked(h, n) = Masked(g, n) <=> n <= z
  <2>1. Masked(h, n) = Masked(g, n) <=> n \in S
    <3>1. n \in Int /\ \A b : b \in 1 .. n <=> b \in 1 .. bitlen /\ b <= n
      BY <1>1
    <3> QED
      BY <3>1, SameMasked
  <2>2. n <= z => n \in S
    BY <1>1, <1>3, \A b \in 1 .. n : n <= z => b \in 1 .. z
  <2> QED
    BY <1>3, <2>1, <2>2
<1> QED
  BY <1>3, <1>4 DEF z

LEMMA ReversedHash ==
  ASSUME NEW h \in Hash
  PROVE  reversebits(h) \in Hash /\ reversebits(reversebits(h)) = h
<1>1. bitlen \in Nat
  BY BitLen
<1>2. \A b \in 1 .. bitlen :
        bitlen + 1 - b \in 1 .. bitlen /\ bitlen + 1 - (bitlen + 1 - b) = b
  BY <1>1
<1>3. reversebits(h) \in Hash
  BY <1>2 DEF reversebits, Hash
<1>4. \A b \in 1 .. bitlen : reversebits(reversebits(h))[b] = h[b]
  BY <1>2 DEF reversebits
<1>5. /\ h = [b \in 1 .. bitlen |-> h[b]]
      /\ reversebits(reversebits(h))
           = [b \in 1 .. bitlen |-> reversebits(reversebits(h))[b]]
  BY <1>2 DEF reversebits, Hash
<1> QED
  BY <1>3, <1>4, <1>5

-----------------------------------------------------------------------------
(* Sorted lists, and the places hashes have had before.                    *)

Sorted(s) == \A k, l \in DOMAIN s : k <= l => ~Less(s[l], s[k])

(* The orders in which n things can be put.                                *)
Arrangements(n) ==
  {p \in [1 .. n -> 1 .. n] :
     /\ \A k, l \in 1 .. n : p[k] = p[l] => k = l
     /\ \A l \in 1 .. n : \E k \in 1 .. n : p[k] = l}

LEMMA FiniteSubset ==
  \A S, T : IsFiniteSet(S) /\ T \subseteq S =>
    /\ IsFiniteSet(T) /\ Cardinality(T) \in Nat /\ Cardinality(S) \in Nat
    /\ Cardinality(T) <= Cardinality(S)
<1> TAKE S, T
<1> HAVE IsFiniteSet(S) /\ T \subseteq S
<1>1. T \in SUBSET S
  OBVIOUS
<1>2. IsFiniteSet(T) /\ Cardinality(T) <= Cardinality(S)
  BY <1>1, FS_Subset
<1>3. Cardinality(T) \in Nat /\ Cardinality(S) \in Nat
  BY <1>2, FS_CardinalityType
<1> QED
  BY <1>2, <1>3

LEMMA OneMore ==
  \A S, x : IsFiniteSet(S) /\ x \notin S =>
    /\ IsFiniteSet(S \cup {x}) /\ Cardinality(S) \in Nat
    /\ Cardinality(S \cup {x}) = Cardinality(S) + 1
BY FS_AddElement, FS_CardinalityType

LEMMA Interval ==
  \A n \in Nat : IsFiniteSet(1 .. n) /\ Cardinality(1 .. n) = n
<1> TAKE n \in Nat
<1>1. Cardinality(1 .. n) = IF 1 > n THEN 0 ELSE n - 1 + 1
  BY FS_Interval
<1>2. IsFiniteSet(1 .. n)
  BY FS_Interval
<1> QED
  BY <1>1, <1>2

LEMMA BeforeOrder ==
  ASSUME NEW s \in Seq(Hash), NEW k \in DOMAIN s, NEW l \in DOMAIN s
  PROVE  /\ ~Before(s, k, k)
         /\ k = l \/ Before(s, k, l) \/ Before(s, l, k)
         /\ Less(s[k], s[l]) => Before(s, k, l)
         /\ Before(s, k, l) => ~Less(s[l], s[k])
         /\ \A m \in DOMAIN s : Before(s, m, k) /\ Before(s, k, l) => Before(s, m, l)
<1>1. \A m \in DOMAIN s : s[m] \in Hash /\ m \in Int
  OBVIOUS
<1>2. \A h \in Hash : ~Less(h, h)
  BY LessStrict
<1>3. ASSUME NEW m \in DOMAIN s, Before(s, m, k), Before(s, k, l)
      PROVE  Before(s, m, l)
  BY <1>1, <1>3, LessTransitive DEF Before
<1>4. k = l \/ Before(s, k, l) \/ Before(s, l, k)
  BY <1>1, LessTotal DEF Before
<1>5. Before(s, k, l) => ~Less(s[l], s[k])
  BY <1>1, <1>2, LessStrict DEF Before
<1>6. ~Before(s, k, k)
  BY <1>1, <1>2 DEF Before
<1> QED
  BY <1>3, <1>4, <1>5, <1>6 DEF Before

LEMMA Ranks ==
  ASSUME NEW s \in Seq(Hash), NEW n \in Nat, n = Len(s)
  PROVE  /\ \A l \in 1 .. n : Rank(s, l) \in 1 .. n
         /\ \A k, l \in 1 .. n : Before(s, k, l) => Rank(s, k) < Rank(s, l)
         /\ \A r \in 1 .. n : \E l \in 1 .. n : Rank(s, l) = r
<1> DEFINE Sites == 1 .. n
           Below(l) == {k \in Sites : Before(s, k, l)}
<1>1. DOMAIN s = Sites /\ IsFiniteSet(Sites) /\ Cardinality(Sites) = n
  BY Interval
<1>2. ASSUME NEW l \in Sites
      PROVE  Rank(s, l) = 1 + Cardinality(Below(l))
  BY <1>1 DEF Rank
<1>3. ASSUME NEW l \in Sites
      PROVE  /\ l \notin Below(l) /\ IsFiniteSet(Below(l)) /\ Cardinality(Below(l)) \in Nat
             /\ IsFiniteSet(Below(l) \cup {l})
             /\ Cardinality(Below(l) \cup {l}) = Cardinality(Below(l)) + 1
             /\ Below(l) \cup {l} \subseteq Sites
  <2>1. l \notin Below(l) /\ Below(l) \subseteq Sites
    BY <1>1, BeforeOrder
  <2> HIDE DEF Below
  <2>2. IsFiniteSet(Below(l)) /\ Cardinality(Below(l)) \in Nat
    <3> HIDE DEF Sites
    <3> QED
      BY <1>1, <2>1, FS_Subset, FS_CardinalityType
  <2>3. /\ IsFiniteSet(Below(l) \cup {l})
        /\ Cardinality(Below(l) \cup {l}) = Cardinality(Below(l)) + 1
    BY <2>1, <2>2, FS_AddElement
  <2> QED
    BY <2>1, <2>2, <2>3
<1>4. ASSUME NEW l \in Sites PROVE Rank(s, l) \in Sites
  <2>1. Cardinality(Below(l) \cup {l}) <= n
    <3> HIDE DEF Sites, Below
    <3> QED
      BY ONLY <1>1, <1>3, FiniteSubset, l \in Sites
  <2> HIDE DEF Below
  <2>2. /\ Rank(s, l) = 1 + Cardinality(Below(l)) /\ Cardinality(Below(l)) \in Nat
        /\ Cardinality(Below(l) \cup {l}) = Cardinality(Below(l)) + 1
    BY <1>2, <1>3
  <2> QED
    BY ONLY <2>1, <2>2, n \in Nat DEF Sites
<1>5. ASSUME NEW k \in Sites, NEW l \in Sites, Before(s, k, l)
      PROVE  Rank(s, k) < Rank(s, l)
  <2>1. Below(k) \cup {k} \subseteq Below(l)
    BY <1>1, <1>5, BeforeOrder
  <2>2. Cardinality(Below(k) \cup {k}) <= Cardinality(Below(l))
    <3> HIDE DEF Sites, Below
    <3> QED
      BY ONLY <1>3, <2>1, FiniteSubset, l \in Sites
  <2> HIDE DEF Below
  <2>3. /\ Rank(s, k) = 1 + Cardinality(Below(k)) /\ Rank(s, l) = 1 + Cardinality(Below(l))
        /\ Cardinality(Below(k)) \in Nat /\ Cardinality(Below(l)) \in Nat
        /\ Cardinality(Below(k) \cup {k}) = Cardinality(Below(k)) + 1
    BY <1>2, <1>3
  <2> QED
    BY ONLY <2>2, <2>3
<1>6. ASSUME NEW r \in Sites PROVE \E l \in Sites : Rank(s, l) = r
  <2> DEFINE f == [l \in Sites |-> Rank(s, l)]
  <2>1. f \in Injection(Sites, Sites)
    <3>1. f \in [Sites -> Sites]
      BY <1>4
    <3>2. ASSUME NEW k \in Sites, NEW l \in Sites, f[k] = f[l] PROVE k = l
      <4>1. Rank(s, k) = Rank(s, l) /\ Rank(s, k) \in Nat
        BY <1>4, <3>2
      <4>2. ~Before(s, k, l) /\ ~Before(s, l, k)
        BY <1>5, <4>1
      <4> QED
        BY <1>1, <4>2, BeforeOrder
    <3> HIDE DEF f, Sites
    <3> QED
      BY <3>1, <3>2 DEF Injection, IsInjective
  <2>2. f \in Surjection(Sites, Sites)
    <3> HIDE DEF f, Sites
    <3> QED
      BY <1>1, <2>1, FS_Injection
  <2>3. \E l \in Sites : f[l] = r
    <3> HIDE DEF f, Sites
    <3> QED
      BY <2>2 DEF Surjection
  <2> QED
    BY <2>3
<1> QED
  BY <1>4, <1>5, <1>6

(* blobsort() takes every place once, and sorts.                           *)
LEMMA Sorting ==
  ASSUME NEW s \in Seq(Hash), NEW n \in Nat, n = Len(s)
  PROVE  /\ SortedPlaces(s) \in Arrangements(n)
         /\ At(s, SortedPlaces(s)) \in Seq(Hash)
         /\ Len(At(s, SortedPlaces(s))) = n
         /\ Sorted(At(s, SortedPlaces(s)))
<1> DEFINE p == SortedPlaces(s)
           t == At(s, p)
<1>1. DOMAIN s = 1 .. n
  OBVIOUS
<1>2. /\ p = [r \in 1 .. n |-> CHOOSE l \in 1 .. n : Rank(s, l) = r]
  BY <1>1 DEF SortedPlaces
<1> HIDE DEF p
<1>3. ASSUME NEW r \in 1 .. n PROVE p[r] \in 1 .. n /\ Rank(s, p[r]) = r
  <2>1. \E l \in 1 .. n : Rank(s, l) = r
    BY Ranks
  <2>2. p[r] = CHOOSE l \in 1 .. n : Rank(s, l) = r
    BY <1>2
  <2> QED
    BY <2>1, <2>2
<1>4. p \in [1 .. n -> 1 .. n]
  BY <1>2, <1>3
<1>5. ASSUME NEW k \in 1 .. n, NEW l \in 1 .. n, p[k] = p[l] PROVE k = l
  BY <1>3, <1>5
<1>6. ASSUME NEW l \in 1 .. n PROVE \E k \in 1 .. n : p[k] = l
  <2> DEFINE r == Rank(s, l)
  <2>1. r \in 1 .. n /\ p[r] \in 1 .. n /\ Rank(s, p[r]) = r
    BY <1>3, Ranks
  <2>2. ~Before(s, p[r], l) /\ ~Before(s, l, p[r])
    <3>1. \A k, m \in 1 .. n : Before(s, k, m) => Rank(s, k) < Rank(s, m)
      BY Ranks
    <3>2. Rank(s, p[r]) = Rank(s, l) /\ Rank(s, l) \in Int
      BY <2>1
    <3> HIDE DEF r
    <3> QED
      BY ONLY <2>1, <3>1, <3>2, l \in 1 .. n
  <2>3. p[r] = l
    BY <1>1, <2>1, <2>2, BeforeOrder
  <2> QED
    BY <2>1, <2>3
<1>7. /\ t = [k \in 1 .. n |-> s[p[k]]]
      /\ \A k \in 1 .. n : t[k] = s[p[k]] /\ t[k] \in Hash
  BY <1>1, <1>4 DEF At
<1> HIDE DEF t
<1>8. t \in Seq(Hash) /\ Len(t) = n /\ DOMAIN t = 1 .. n
  BY <1>7
<1>9. ASSUME NEW k \in 1 .. n, NEW l \in 1 .. n, k <= l PROVE ~Less(t[l], t[k])
  <2>1. p[k] \in 1 .. n /\ p[l] \in 1 .. n /\ Rank(s, p[k]) = k /\ Rank(s, p[l]) = l
    BY <1>3
  <2>2. ~Before(s, p[l], p[k])
    <3>1. \A a, m \in 1 .. n : Before(s, a, m) => Rank(s, a) < Rank(s, m)
      BY Ranks
    <3> QED
      BY ONLY <1>9, <2>1, <3>1, k \in 1 .. n, l \in 1 .. n, n \in Nat
  <2>3. ~Less(s[p[l]], s[p[k]])
    BY <1>1, <2>1, <2>2, BeforeOrder
  <2> QED
    BY <1>7, <2>3
<1>10. Sorted(t)
  BY <1>8, <1>9 DEF Sorted
<1>11. p \in Arrangements(n)
  BY <1>4, <1>5, <1>6 DEF Arrangements
<1> QED
  BY <1>8, <1>10, <1>11 DEF t, p

(* Counting does not depend on the order.                                  *)
LEMMA SameCount ==
  ASSUME NEW n \in Nat, NEW p \in Arrangements(n), NEW K \in SUBSET (1 .. n)
  PROVE  Cardinality({k \in 1 .. n : p[k] \in K}) = Cardinality(K)
<1> DEFINE S == {k \in 1 .. n : p[k] \in K}
           f == [k \in S |-> p[k]]
<1>1. IsFiniteSet(S)
  <2>1. S \subseteq 1 .. n /\ IsFiniteSet(1 .. n)
    BY FS_Interval
  <2> HIDE DEF S
  <2> QED
    BY <2>1, FS_Subset
<1>2. f \in [S -> K]
  OBVIOUS
<1>3. \A k, l \in S : f[k] = f[l] => k = l
  BY DEF Arrangements
<1>4. \A l \in K : \E k \in S : f[k] = l
  BY DEF Arrangements
<1> HIDE DEF f, S
<1>5. f \in Bijection(S, K)
  BY <1>2, <1>3, <1>4 DEF Bijection, Injection, IsInjective, Surjection
<1> QED
  BY <1>1, <1>5, FS_Bijection DEF ExistsBijection, S

LEMMA Arranged ==
  ASSUME NEW n \in Nat, NEW p \in Arrangements(n), NEW q \in Arrangements(n)
  PROVE  At(p, q) \in Arrangements(n)
<1>1. /\ DOMAIN q = 1 .. n /\ \A k \in 1 .. n : p[k] \in 1 .. n /\ q[k] \in 1 .. n
      /\ \A k, l \in 1 .. n : (p[k] = p[l] => k = l) /\ (q[k] = q[l] => k = l)
      /\ \A l \in 1 .. n : (\E k \in 1 .. n : p[k] = l) /\ (\E k \in 1 .. n : q[k] = l)
  BY DEF Arrangements
<1> DEFINE r == At(p, q)
<1>2. r = [k \in 1 .. n |-> p[q[k]]]
  BY <1>1 DEF At
<1> HIDE DEF r
<1>3. r \in [1 .. n -> 1 .. n] /\ \A k \in 1 .. n : r[k] = p[q[k]]
  BY <1>1, <1>2
<1>4. ASSUME NEW k \in 1 .. n, NEW l \in 1 .. n, r[k] = r[l] PROVE k = l
  <2>1. q[k] \in 1 .. n /\ q[l] \in 1 .. n /\ p[q[k]] = p[q[l]]
    BY <1>1, <1>3, <1>4
  <2>2. q[k] = q[l]
    BY <1>1, <2>1, Zenon
  <2> QED
    BY <1>1, <2>2, Zenon
<1>5. ASSUME NEW l \in 1 .. n PROVE \E k \in 1 .. n : r[k] = l
  <2>1. PICK j \in 1 .. n : p[j] = l
    BY <1>1, Zenon
  <2>2. PICK k \in 1 .. n : q[k] = j
    BY <1>1
  <2> QED
    BY <1>3, <2>1, <2>2
<1> QED
  BY <1>3, <1>4, <1>5 DEF Arrangements, r

-----------------------------------------------------------------------------
(* Counting in a list of keys of which equal ones are next to each other:  *)
(* the first m of them.                                                    *)

Gathered(c, n) == \A k, l, m \in 1 .. n : k <= l /\ l <= m /\ c[k] = c[m] => c[l] = c[k]
ValuesOf(c, m) == {c[k] : k \in 1 .. m}
With(c, m, v) == {k \in 1 .. m : c[k] = v}
Repeats(c, m) == {k \in 2 .. m : c[k] = c[k - 1]}

(* The keys that the first w bits of hashes are.                           *)
Prefixes(s, w) == [k \in 1 .. Len(s) |-> Masked(s[k], w)]

LEMMA KeysGathered ==
  ASSUME NEW s \in Seq(Hash), Sorted(s), NEW w \in Int
  PROVE  Gathered(Prefixes(s, w), Len(s))
<1> DEFINE n == Len(s)
<1> SUFFICES ASSUME NEW k \in 1 .. n, NEW l \in 1 .. n, NEW m \in 1 .. n,
                    k <= l, l <= m, Prefixes(s, w)[k] = Prefixes(s, w)[m]
             PROVE  Prefixes(s, w)[l] = Prefixes(s, w)[k]
  BY DEF Gathered
<1>1. s[k] \in Hash /\ s[l] \in Hash /\ s[m] \in Hash
  OBVIOUS
<1>2. ~Less(s[l], s[k]) /\ ~Less(s[m], s[l])
  BY DEF Sorted
<1>3. Masked(s[k], w) = Masked(s[m], w)
  BY DEF Prefixes
<1>4. Masked(s[l], w) = Masked(s[k], w)
  BY <1>1, <1>2, <1>3, MaskedConvex
<1> QED
  BY <1>4 DEF Prefixes

LEMMA WithFinite ==
  ASSUME NEW c, NEW m \in Nat, NEW v
  PROVE  IsFiniteSet(With(c, m, v)) /\ Cardinality(With(c, m, v)) \in Nat
<1>1. With(c, m, v) \subseteq 1 .. m
  BY DEF With
<1> QED
  BY <1>1, Interval, FiniteSubset

LEMMA RepeatsFinite ==
  ASSUME NEW c, NEW m \in Nat
  PROVE  IsFiniteSet(Repeats(c, m)) /\ Cardinality(Repeats(c, m)) \in Nat
<1>1. Repeats(c, m) \subseteq 1 .. m
  BY DEF Repeats
<1> QED
  BY <1>1, Interval, FiniteSubset

LEMMA OneKey ==
  ASSUME NEW c
  PROVE  /\ ValuesOf(c, 1) = {c[1]} /\ Cardinality(ValuesOf(c, 1)) = 1
         /\ Cardinality(With(c, 1, c[1])) = 1
         /\ Repeats(c, 1) = {} /\ Cardinality(Repeats(c, 1)) = 0
<1>1. ValuesOf(c, 1) = {c[1]}
  BY DEF ValuesOf
<1>2. With(c, 1, c[1]) = {1}
  BY DEF With
<1>3. Repeats(c, 1) = {}
  BY DEF Repeats
<1> QED
  BY <1>1, <1>2, <1>3, FS_Singleton, FS_EmptySet

LEMMA SameKey ==
  ASSUME NEW c, NEW m \in Nat, m > 0, c[m + 1] = c[m]
  PROVE  /\ ValuesOf(c, m + 1) = ValuesOf(c, m)
         /\ Cardinality(With(c, m + 1, c[m])) = Cardinality(With(c, m, c[m])) + 1
         /\ \A v : v # c[m] => With(c, m + 1, v) = With(c, m, v)
         /\ Cardinality(Repeats(c, m + 1)) = Cardinality(Repeats(c, m)) + 1
<1>1. m + 1 \notin 1 .. m /\ 1 .. m + 1 = (1 .. m) \cup {m + 1}
  OBVIOUS
<1>2. ValuesOf(c, m + 1) = ValuesOf(c, m)
  BY <1>1, m \in 1 .. m DEF ValuesOf
<1>3. Cardinality(With(c, m + 1, c[m])) = Cardinality(With(c, m, c[m])) + 1
  <2>1. /\ With(c, m + 1, c[m]) = With(c, m, c[m]) \cup {m + 1}
        /\ m + 1 \notin With(c, m, c[m])
    BY <1>1 DEF With
  <2> QED
    BY <2>1, WithFinite, OneMore
<1>4. \A v : v # c[m] => With(c, m + 1, v) = With(c, m, v)
  BY <1>1 DEF With
<1>5. Cardinality(Repeats(c, m + 1)) = Cardinality(Repeats(c, m)) + 1
  <2>1. /\ Repeats(c, m + 1) = Repeats(c, m) \cup {m + 1}
        /\ m + 1 \notin Repeats(c, m)
    BY (m + 1) - 1 = m DEF Repeats
  <2> QED
    BY <2>1, RepeatsFinite, OneMore
<1> QED
  BY <1>2, <1>3, <1>4, <1>5

LEMMA NewKey ==
  ASSUME NEW c, NEW n \in Nat, Gathered(c, n),
         NEW m \in Nat, m > 0, m < n, c[m + 1] # c[m]
  PROVE  /\ ValuesOf(c, m + 1) = ValuesOf(c, m) \cup {c[m + 1]}
         /\ c[m + 1] \notin ValuesOf(c, m)
         /\ Cardinality(With(c, m + 1, c[m + 1])) = 1
         /\ \A v : v # c[m + 1] => With(c, m + 1, v) = With(c, m, v)
         /\ Repeats(c, m + 1) = Repeats(c, m)
<1>1. m + 1 \notin 1 .. m /\ 1 .. m + 1 = (1 .. m) \cup {m + 1}
  OBVIOUS
<1>2. c[m + 1] \notin ValuesOf(c, m)
  <2> SUFFICES ASSUME NEW k \in 1 .. m, c[k] = c[m + 1] PROVE FALSE
    BY DEF ValuesOf
  <2>1. k \in 1 .. n /\ m \in 1 .. n /\ m + 1 \in 1 .. n /\ k <= m /\ m <= m + 1
    OBVIOUS
  <2>2. c[m] = c[k]
    BY <2>1 DEF Gathered
  <2> QED
    BY <2>2
<1>3. ValuesOf(c, m + 1) = ValuesOf(c, m) \cup {c[m + 1]}
  BY <1>1 DEF ValuesOf
<1>4. With(c, m + 1, c[m + 1]) = {m + 1}
  BY <1>1, <1>2 DEF With, ValuesOf
<1>5. \A v : v # c[m + 1] => With(c, m + 1, v) = With(c, m, v)
  BY <1>1 DEF With
<1>6. Repeats(c, m + 1) = Repeats(c, m)
  BY (m + 1) - 1 = m DEF Repeats
<1> QED
  BY <1>2, <1>3, <1>4, <1>5, <1>6, FS_Singleton

(* As many keys repeat the one before as there are fewer values than keys. *)
LEMMA ValuesCounted ==
  ASSUME NEW c, NEW n \in Nat, n > 0, Gathered(c, n)
  PROVE  /\ IsFiniteSet(ValuesOf(c, n)) /\ Cardinality(ValuesOf(c, n)) \in Nat
         /\ Cardinality(Repeats(c, n)) = n - Cardinality(ValuesOf(c, n))
<1> DEFINE Good(m) == /\ IsFiniteSet(ValuesOf(c, m)) /\ Cardinality(ValuesOf(c, m)) \in Nat
                      /\ Cardinality(ValuesOf(c, m)) + Cardinality(Repeats(c, m)) = m
           S == {j \in Nat : j + 1 <= n => Good(j + 1)}
<1>1. 0 \in S
  <2>1. Good(1)
    <3>1. IsFiniteSet({c[1]})
      BY FS_Singleton
    <3>2. /\ ValuesOf(c, 1) = {c[1]} /\ Cardinality(ValuesOf(c, 1)) = 1
          /\ Cardinality(Repeats(c, 1)) = 0
      BY OneKey
    <3>3. IsFiniteSet(ValuesOf(c, 1))
      BY <3>1, <3>2
    <3> QED
      BY <3>2, <3>3
  <2> QED
    BY <2>1
<1>2. ASSUME NEW j \in S PROVE j + 1 \in S
  <2> DEFINE m == j + 1
  <2> SUFFICES ASSUME m + 1 <= n PROVE Good(m + 1)
    OBVIOUS
  <2>1. m \in Nat /\ m > 0 /\ m < n /\ Good(m) /\ Cardinality(Repeats(c, m)) \in Nat
    BY RepeatsFinite
  <2> HIDE DEF m
  <2>2. CASE c[m + 1] = c[m]
    BY <2>1, <2>2, SameKey
  <2>3. CASE c[m + 1] # c[m]
    <3>1. /\ Repeats(c, m + 1) = Repeats(c, m)
          /\ ValuesOf(c, m + 1) = ValuesOf(c, m) \cup {c[m + 1]}
          /\ c[m + 1] \notin ValuesOf(c, m)
      BY <2>1, <2>3, NewKey
    <3>2. /\ IsFiniteSet(ValuesOf(c, m + 1))
          /\ Cardinality(ValuesOf(c, m + 1)) = Cardinality(ValuesOf(c, m)) + 1
      BY <2>1, <3>1, OneMore
    <3> QED
      BY <2>1, <3>1, <3>2
  <2> QED
    BY <2>2, <2>3
<1>3. S = Nat
  <2> HIDE DEF S
  <2> QED
    BY <1>1, <1>2, AllNaturals, S \subseteq Nat DEF S
<1>4. Good(n)
  <2>1. n - 1 \in Nat /\ (n - 1) + 1 = n
    OBVIOUS
  <2> HIDE DEF S
  <2>2. n - 1 \in S
    BY <1>3, <2>1
  <2> HIDE DEF Good
  <2> QED
    BY <2>1, <2>2 DEF S
<1> QED
  BY <1>4, RepeatsFinite

(* The most keys of one value, but the first of them.                      *)
Peak(c, n, x) ==
  /\ \A v \in ValuesOf(c, n) : Cardinality(With(c, n, v)) - 1 <= x
  /\ \E v \in ValuesOf(c, n) : Cardinality(With(c, n, v)) - 1 = x

(* What the pass remembers of the first m: prev, the repeats before the    *)
(* value that m has, and most, the most of one value before.               *)
Running(c, m, prev, most) ==
  /\ prev \in Nat /\ most \in Nat
  /\ Cardinality(Repeats(c, m)) - prev = Cardinality(With(c, m, c[m])) - 1
  /\ \A v \in ValuesOf(c, m) : v # c[m] => Cardinality(With(c, m, v)) - 1 <= most
  /\ most = 0 \/ \E v \in ValuesOf(c, m) : v # c[m] /\ Cardinality(With(c, m, v)) - 1 = most

LEMMA RunningFirst ==
  ASSUME NEW c
  PROVE  Running(c, 1, 0, 0)
BY OneKey DEF Running

LEMMA RunningOn ==
  ASSUME NEW c, NEW m \in Nat, m > 0, c[m + 1] = c[m], NEW prev, NEW most,
         Running(c, m, prev, most)
  PROVE  Running(c, m + 1, prev, most)
<1>1. /\ Cardinality(With(c, m, c[m])) \in Nat /\ Cardinality(Repeats(c, m)) \in Nat
  BY WithFinite, RepeatsFinite
<1> QED
  BY <1>1, SameKey DEF Running

LEMMA RunningEnds ==
  ASSUME NEW c, NEW m \in Nat, m > 0, NEW prev, NEW most, Running(c, m, prev, most),
         NEW x \in Int, x = Cardinality(Repeats(c, m)) - prev,
         NEW y, y = IF most >= x THEN most ELSE x
  PROVE  y \in Nat /\ Peak(c, m, y)
<1>1. /\ Cardinality(With(c, m, c[m])) \in Nat /\ Cardinality(With(c, m, c[m])) # 0
      /\ Cardinality(Repeats(c, m)) \in Nat /\ c[m] \in ValuesOf(c, m)
  <2>1. m \in With(c, m, c[m]) /\ c[m] \in ValuesOf(c, m)
    BY DEF With, ValuesOf
  <2> QED
    BY <2>1, WithFinite, RepeatsFinite, FS_EmptySet
<1>2. x = Cardinality(With(c, m, c[m])) - 1 /\ x \in Nat /\ y \in Nat /\ most \in Nat
  BY <1>1 DEF Running
<1>3. \A v \in ValuesOf(c, m) : Cardinality(With(c, m, v)) \in Nat
  BY WithFinite
<1>4. \A v \in ValuesOf(c, m) : Cardinality(With(c, m, v)) - 1 <= y
  <2> SUFFICES ASSUME NEW v \in ValuesOf(c, m) PROVE Cardinality(With(c, m, v)) - 1 <= y
    OBVIOUS
  <2>1. CASE v = c[m]
    BY <1>2, <1>3, <2>1
  <2>2. CASE v # c[m]
    BY <1>2, <1>3, <2>2 DEF Running
  <2> QED
    BY <2>1, <2>2
<1>5. \E v \in ValuesOf(c, m) : Cardinality(With(c, m, v)) - 1 = y
  <2>1. CASE y = x
    BY <1>1, <1>2, <2>1
  <2>2. CASE y # x
    <3>1. y = most /\ most # 0
      BY <1>2, <2>2
    <3> QED
      BY <3>1 DEF Running
  <2> QED
    BY <2>1, <2>2
<1> QED
  BY <1>2, <1>4, <1>5 DEF Peak

LEMMA RunningNext ==
  ASSUME NEW c, NEW n \in Nat, Gathered(c, n),
         NEW m \in Nat, m > 0, m < n, c[m + 1] # c[m],
         NEW prev, NEW most, Running(c, m, prev, most),
         NEW x \in Int, x = Cardinality(Repeats(c, m)),
         NEW y, y = IF most >= x - prev THEN most ELSE x - prev
  PROVE  Running(c, m + 1, x, y)
<1>1. y \in Nat /\ Peak(c, m, y)
  BY RunningEnds, x - prev \in Int DEF Running
<1>2. x \in Nat
  BY RepeatsFinite
<1>3. /\ Cardinality(Repeats(c, m + 1)) - x = 0
      /\ Cardinality(With(c, m + 1, c[m + 1])) - 1 = 0
  BY <1>2, NewKey
<1>4. \A v \in ValuesOf(c, m + 1) :
        v # c[m + 1] => v \in ValuesOf(c, m) /\ With(c, m + 1, v) = With(c, m, v)
  BY NewKey
<1>5. \A v \in ValuesOf(c, m) :
        v \in ValuesOf(c, m + 1) /\ v # c[m + 1] /\ With(c, m + 1, v) = With(c, m, v)
  BY NewKey
<1>6. /\ \A v \in ValuesOf(c, m) : Cardinality(With(c, m, v)) - 1 <= y
      /\ \E v \in ValuesOf(c, m) : Cardinality(With(c, m, v)) - 1 = y
  BY <1>1 DEF Peak
<1> QED
  BY <1>1, <1>2, <1>3, <1>4, <1>5, <1>6 DEF Running

-----------------------------------------------------------------------------
(* The pass over a sorted list.                                            *)

(* The places of the first m that agree with the one before in w bits, and *)
(* in no more of them that are counted.                                    *)
Common(s, k) == R!highzerobits(s[k - 1], s[k])
CommonUpTo(s, k, max) == IF Common(s, k) <= max THEN Common(s, k) ELSE max
Exactly(s, w, max, m) == {k \in 2 .. m : CommonUpTo(s, k, max) = w}

LEMMA CommonBits ==
  ASSUME NEW s \in Seq(Hash), NEW k \in 2 .. Len(s)
  PROVE  /\ Common(s, k) \in 0 .. bitlen
         /\ \A w \in 0 .. bitlen : Prefixes(s, w)[k] = Prefixes(s, w)[k - 1] <=> w <= Common(s, k)
<1>1. s[k - 1] \in Hash /\ s[k] \in Hash /\ k - 1 \in 1 .. Len(s) /\ k \in 1 .. Len(s)
  OBVIOUS
<1>2. /\ Common(s, k) \in 0 .. bitlen
      /\ \A w \in 0 .. bitlen :
           Masked(s[k - 1], w) = Masked(s[k], w) <=> w <= Common(s, k)
  BY <1>1, HighZeroBits DEF Common
<1>3. \A w : /\ Prefixes(s, w)[k] = Masked(s[k], w)
             /\ Prefixes(s, w)[k - 1] = Masked(s[k - 1], w)
  BY <1>1 DEF Prefixes
<1> HIDE DEF Common
<1> QED
  BY <1>2, <1>3

LEMMA RepeatsCommon ==
  ASSUME NEW s \in Seq(Hash), NEW w \in 0 .. bitlen, NEW m \in Nat, m <= Len(s)
  PROVE  Repeats(Prefixes(s, w), m) = {k \in 2 .. m : w <= Common(s, k)}
<1>1. \A k \in 2 .. m : Prefixes(s, w)[k] = Prefixes(s, w)[k - 1] <=> w <= Common(s, k)
  <2> TAKE k \in 2 .. m
  <2>1. k \in 2 .. Len(s)
    OBVIOUS
  <2> QED
    BY <2>1, CommonBits
<1> QED
  BY <1>1 DEF Repeats

(* Coll() adds up from the widest width on.                                *)
LEMMA CollSums ==
  ASSUME minHBits \in Nat, maxHBits \in Nat, minHBits <= maxHBits,
         NEW counts \in [minHBits .. maxHBits -> Nat]
  PROVE  /\ R!Coll(counts, maxHBits) = counts[maxHBits]
         /\ \A w \in minHBits .. maxHBits - 1 :
              R!Coll(counts, w) = R!Coll(counts, w + 1) + counts[w]
<1> DEFINE N == maxHBits - minHBits + 1
           IsSum(f) == f = [n \in 0 .. N |-> IF n = 0 THEN 0 ELSE f[n - 1] + counts[maxHBits - n + 1]]
           sum == CHOOSE f : IsSum(f)
<1>1. N \in Nat /\ N > 0
  OBVIOUS
<1>2. \E f : IsSum(f)
  <2> DEFINE F == [p \in Nat \X Nat |->
                     p[2] + (IF p[1] < N THEN counts[maxHBits - p[1]] ELSE 0)]
  <2>1. F \in [Nat \X Nat -> Nat]
    <3>1. ASSUME NEW p \in Nat \X Nat PROVE p[2] + (IF p[1] < N THEN counts[maxHBits - p[1]] ELSE 0) \in Nat
      <4>1. p[1] \in Nat /\ p[2] \in Nat
        OBVIOUS
      <4>2. CASE p[1] < N
        <5>1. maxHBits - p[1] \in minHBits .. maxHBits
          BY <4>1, <4>2
        <5>2. counts[maxHBits - p[1]] \in Nat
          BY <5>1
        <5> HIDE DEF N
        <5> QED
          BY ONLY <4>1, <4>2, <5>2
      <4> QED
        BY <4>1, <4>2
    <3> QED
      BY <3>1
  <2>2. PICK g : Recurs(g, Nat, 0, F)
    BY <2>1, Recursion, 0 \in Nat DEF StepOn
  <2>3. g \in [Nat -> Nat] /\ g[0] = 0 /\ \A n \in Nat : g[n+1] = F[<<n, g[n]>>]
    BY <2>2 DEF Recurs
  <2> DEFINE f == [n \in 0 .. N |-> g[n]]
  <2>4. ASSUME NEW n \in 0 .. N, n # 0
        PROVE  g[n] = g[n - 1] + counts[maxHBits - n + 1]
    <3>1. n - 1 \in Nat /\ (n - 1) + 1 = n /\ n - 1 < N /\ maxHBits - (n - 1) = maxHBits - n + 1
      BY <1>1, <2>4
    <3>2. g[n] = F[<<n - 1, g[n - 1]>>] /\ g[n - 1] \in Nat
      <4> HIDE DEF F, N
      <4> QED
        BY <2>3, <3>1
    <3> HIDE DEF N
    <3> QED
      BY <3>1, <3>2
  <2>5. \A n \in 0 .. N : f[n] = IF n = 0 THEN 0 ELSE f[n - 1] + counts[maxHBits - n + 1]
    <3> HIDE DEF N, F
    <3> SUFFICES ASSUME NEW n \in 0 .. N
                 PROVE  f[n] = IF n = 0 THEN 0 ELSE f[n - 1] + counts[maxHBits - n + 1]
      OBVIOUS
    <3>1. n # 0 => n - 1 \in 0 .. N
      BY <1>1
    <3> QED
      BY <2>3, <2>4, <3>1
  <2>6. IsSum(f)
    <3>1. f = [n \in 0 .. N |-> f[n]]
      OBVIOUS
    <3> HIDE DEF f, N
    <3> QED
      BY <2>5, <3>1
  <2> QED
    BY <2>6
<1>3. IsSum(sum)
  <2> HIDE DEF IsSum
  <2> QED
    BY <1>2
<1>4. \A w : R!Coll(counts, w) = sum[maxHBits - w + 1]
  BY DEF R!Coll
<1> HIDE DEF sum
<1>5. /\ sum[0] = 0
      /\ \A n \in 0 .. N : n # 0 => sum[n] = sum[n - 1] + counts[maxHBits - n + 1]
  <2> HIDE DEF N
  <2> QED
    BY <1>1, <1>3
<1> HIDE DEF IsSum
<1>6. R!Coll(counts, maxHBits) = counts[maxHBits]
  <2>1. /\ maxHBits - maxHBits + 1 = 1 /\ 1 - 1 = 0 /\ maxHBits - 1 + 1 = maxHBits
        /\ 1 \in 0 .. N /\ 1 # 0
    OBVIOUS
  <2>2. sum[1] = sum[1 - 1] + counts[maxHBits - 1 + 1]
    BY <1>5, <2>1
  <2>3. counts[maxHBits] \in Nat
    OBVIOUS
  <2> HIDE DEF N
  <2> QED
    BY <1>4, <1>5, <2>1, <2>2, <2>3
<1>7. ASSUME NEW w \in minHBits .. maxHBits - 1
      PROVE  R!Coll(counts, w) = R!Coll(counts, w + 1) + counts[w]
  <2> DEFINE n == maxHBits - w + 1
  <2>1. n \in 0 .. N /\ n # 0 /\ n - 1 = maxHBits - (w + 1) + 1 /\ maxHBits - n + 1 = w
    OBVIOUS
  <2>2. sum[n] = sum[n - 1] + counts[maxHBits - n + 1]
    <3> HIDE DEF n, N
    <3> QED
      BY <1>5, <2>1
  <2>3. R!Coll(counts, w) = sum[n] /\ R!Coll(counts, w + 1) = sum[n - 1]
    BY <1>4, <2>1
  <2> HIDE DEF n
  <2> QED
    BY <2>1, <2>2, <2>3
<1> QED
  BY <1>6, <1>7

(* So it counts the repeats of the first w bits.                           *)
LEMMA CollCounts ==
  ASSUME NEW s \in Seq(Hash), NEW m \in Nat, m <= Len(s),
         minHBits \in Nat, maxHBits \in Nat, minHBits <= maxHBits, maxHBits <= bitlen,
         NEW counts \in [minHBits .. maxHBits -> Nat],
         \A w \in minHBits .. maxHBits :
           counts[w] = Cardinality(Exactly(s, w, maxHBits, m))
  PROVE  \A w \in minHBits .. maxHBits :
           R!Coll(counts, w) = Cardinality(Repeats(Prefixes(s, w), m))
<1> DEFINE Good(w) == R!Coll(counts, w) = Cardinality(Repeats(Prefixes(s, w), m))
           S == {j \in Nat : maxHBits - j >= minHBits => Good(maxHBits - j)}
<1>1. bitlen \in Nat
  BY BitLen
<1>2. \A k \in 2 .. m : Common(s, k) \in 0 .. bitlen
  <2> TAKE k \in 2 .. m
  <2>1. k \in 2 .. Len(s)
    OBVIOUS
  <2> QED
    BY <2>1, CommonBits
<1>3. \A w : Exactly(s, w, maxHBits, m) \subseteq 1 .. m
  BY DEF Exactly
<1>4. 0 \in S
  <2>1. Exactly(s, maxHBits, maxHBits, m) = {k \in 2 .. m : maxHBits <= Common(s, k)}
    BY <1>1, <1>2 DEF Exactly, CommonUpTo
  <2>2. maxHBits \in minHBits .. maxHBits /\ maxHBits \in 0 .. bitlen /\ maxHBits - 0 = maxHBits
    BY <1>1
  <2>3. Repeats(Prefixes(s, maxHBits), m) = {k \in 2 .. m : maxHBits <= Common(s, k)}
    BY <2>2, RepeatsCommon
  <2>4. R!Coll(counts, maxHBits) = counts[maxHBits]
    BY CollSums
  <2>5. Good(maxHBits)
    BY <2>1, <2>2, <2>3, <2>4
  <2> HIDE DEF Good
  <2> QED
    BY <2>2, <2>5
<1>5. ASSUME NEW j \in S PROVE j + 1 \in S
  <2> DEFINE w == maxHBits - (j + 1)
  <2> SUFFICES ASSUME w >= minHBits PROVE Good(w)
    OBVIOUS
  <2>1. /\ w \in minHBits .. maxHBits - 1 /\ w \in minHBits .. maxHBits
        /\ w \in 0 .. bitlen /\ w + 1 \in 0 .. bitlen /\ maxHBits - j = w + 1
        /\ w < maxHBits /\ w \in Int
    BY <1>1
  <2>2. Good(w + 1)
    BY <2>1
  <2> HIDE DEF w
  <2>3. Repeats(Prefixes(s, w), m) = Repeats(Prefixes(s, w + 1), m) \cup Exactly(s, w, maxHBits, m)
    <3>1. /\ Repeats(Prefixes(s, w), m) = {k \in 2 .. m : w <= Common(s, k)}
          /\ Repeats(Prefixes(s, w + 1), m) = {k \in 2 .. m : w + 1 <= Common(s, k)}
      BY <2>1, RepeatsCommon
    <3>2. \A k \in 2 .. m : w <= Common(s, k) <=> w + 1 <= Common(s, k) \/ CommonUpTo(s, k, maxHBits) = w
      <4> TAKE k \in 2 .. m
      <4>1. Common(s, k) \in Int
        BY <1>1, <1>2
      <4> HIDE DEF Common
      <4> QED
        BY ONLY <2>1, <4>1, maxHBits \in Nat DEF CommonUpTo
    <3> QED
      BY <3>1, <3>2 DEF Exactly
  <2>4. Repeats(Prefixes(s, w + 1), m) \cap Exactly(s, w, maxHBits, m) = {}
    <3>1. Repeats(Prefixes(s, w + 1), m) = {k \in 2 .. m : w + 1 <= Common(s, k)}
      BY <2>1, RepeatsCommon
    <3>2. \A k \in 2 .. m : ~(w + 1 <= Common(s, k) /\ CommonUpTo(s, k, maxHBits) = w)
      <4> TAKE k \in 2 .. m
      <4>1. Common(s, k) \in Int
        BY <1>1, <1>2
      <4> HIDE DEF Common
      <4> QED
        BY ONLY <2>1, <4>1, maxHBits \in Nat DEF CommonUpTo
    <3> QED
      BY <3>1, <3>2 DEF Exactly
  <2>5. /\ IsFiniteSet(Repeats(Prefixes(s, w + 1), m))
        /\ Cardinality(Repeats(Prefixes(s, w + 1), m)) \in Nat
    BY RepeatsFinite
  <2>6. /\ IsFiniteSet(Exactly(s, w, maxHBits, m))
        /\ Cardinality(Exactly(s, w, maxHBits, m)) \in Nat
    BY <1>3, Interval, FiniteSubset
  <2>7. Cardinality(Repeats(Prefixes(s, w), m))
          = Cardinality(Repeats(Prefixes(s, w + 1), m)) + Cardinality(Exactly(s, w, maxHBits, m))
    <3>1. Cardinality(Repeats(Prefixes(s, w), m))
            = Cardinality(Repeats(Prefixes(s, w + 1), m)) + Cardinality(Exactly(s, w, maxHBits, m))
              - Cardinality(Repeats(Prefixes(s, w + 1), m) \cap Exactly(s, w, maxHBits, m))
      BY <2>3, <2>5, <2>6, FS_Union
    <3>2. Cardinality(Repeats(Prefixes(s, w + 1), m) \cap Exactly(s, w, maxHBits, m)) = 0
      BY <2>4, FS_EmptySet
    <3> QED
      BY ONLY <2>5, <2>6, <3>1, <3>2
  <2>8. R!Coll(counts, w) = R!Coll(counts, w + 1) + counts[w]
    BY <2>1, CollSums
  <2>9. counts[w] = Cardinality(Exactly(s, w, maxHBits, m))
    BY <2>1
  <2> QED
    BY <2>2, <2>7, <2>8, <2>9
<1>6. S = Nat
  <2> HIDE DEF S
  <2> QED
    BY <1>4, <1>5, AllNaturals, S \subseteq Nat DEF S
<1> SUFFICES ASSUME NEW w \in minHBits .. maxHBits PROVE Good(w)
  OBVIOUS
<1>7. maxHBits - w \in Nat /\ maxHBits - (maxHBits - w) = w
  OBVIOUS
<1> HIDE DEF S
<1>8. maxHBits - w \in S
  BY <1>6, <1>7
<1> HIDE DEF Good
<1> QED
  BY <1>7, <1>8 DEF S


-----------------------------------------------------------------------------
(* The pass remembers enough at each hash, and comes up with the counts.   *)

LEMMA MaxOfTwo ==
  \A a, b \in Int : R!Max({a, b}) = IF a >= b THEN a ELSE b
<1> TAKE a, b \in Int
<1> DEFINE m == IF a >= b THEN a ELSE b
           x == R!Max({a, b})
<1>1. m \in {a, b} /\ \A y \in {a, b} : m >= y
  OBVIOUS
<1>2. x \in {a, b} /\ \A y \in {a, b} : x >= y
  <2>1. x = CHOOSE z \in {a, b} : \A y \in {a, b} : z >= y
    BY DEF R!Max
  <2> HIDE DEF x, m
  <2> QED
    BY <1>1, <2>1
<1> HIDE DEF x
<1>3. x = m
  BY <1>1, <1>2
<1> QED
  BY <1>3 DEF x

LEMMA MinOfTwo ==
  \A a, b \in Int : R!Min({a, b}) = IF a <= b THEN a ELSE b
<1> TAKE a, b \in Int
<1> DEFINE m == IF a <= b THEN a ELSE b
           x == R!Min({a, b})
<1>1. m \in {a, b} /\ \A y \in {a, b} : m <= y
  OBVIOUS
<1>2. x \in {a, b} /\ \A y \in {a, b} : x <= y
  <2>1. x = CHOOSE z \in {a, b} : \A y \in {a, b} : z <= y
    BY DEF R!Min
  <2> HIDE DEF x, m
  <2> QED
    BY <1>1, <2>1
<1> HIDE DEF x
<1>3. x = m
  BY <1>1, <1>2
<1> QED
  BY <1>3 DEF x

(* What the pass has counted when it has come to the hash at next.         *)
Passing ==
  /\ counted \in Seq(Hash) /\ Len(counted) > 0 /\ Sorted(counted)
  /\ minHBits \in Nat /\ maxHBits \in Nat /\ threshHBits \in Nat
  /\ minHBits <= maxHBits /\ maxHBits <= bitlen
  /\ threshHBits # 0 => threshHBits <= maxHBits
  /\ next \in Nat /\ next >= 2 /\ next <= Len(counted) + 1
  /\ collcounts \in [minHBits .. maxHBits -> Nat]
  /\ \A w \in minHBits .. maxHBits :
       collcounts[w] = Cardinality(Exactly(counted, w, maxHBits, next - 1))
  /\ \A w \in R!MaxWidths :
       Running(Prefixes(counted, w), next - 1, prevcoll[w], maxcoll[w])

(* The counts of a list s: the peaks of the widths up to thresh, and of    *)
(* the others the sums.                                                    *)
Tallied(s, w, x, thresh) ==
  IF thresh # 0 /\ w <= thresh THEN Peak(Prefixes(s, w), Len(s), x)
  ELSE x = Len(s) - Cardinality(ValuesOf(Prefixes(s, w), Len(s)))

LEMMA ExactlyFinite ==
  ASSUME NEW s, NEW w, NEW max, NEW m \in Nat
  PROVE  IsFiniteSet(Exactly(s, w, max, m)) /\ Cardinality(Exactly(s, w, max, m)) \in Nat
<1>1. Exactly(s, w, max, m) \subseteq 1 .. m
  BY DEF Exactly
<1> QED
  BY <1>1, Interval, FiniteSubset

LEMMA ExactlyNext ==
  ASSUME NEW s, NEW w, NEW max, NEW m \in Nat, m >= 1
  PROVE  Cardinality(Exactly(s, w, max, m + 1))
           = Cardinality(Exactly(s, w, max, m))
             + (IF CommonUpTo(s, m + 1, max) = w THEN 1 ELSE 0)
<1>1. Cardinality(Exactly(s, w, max, m)) \in Nat /\ IsFiniteSet(Exactly(s, w, max, m))
  BY ExactlyFinite
<1>2. 2 .. m + 1 = (2 .. m) \cup {m + 1} /\ m + 1 \notin 2 .. m
  OBVIOUS
<1>3. CASE CommonUpTo(s, m + 1, max) = w
  <2>1. /\ Exactly(s, w, max, m + 1) = Exactly(s, w, max, m) \cup {m + 1}
        /\ m + 1 \notin Exactly(s, w, max, m)
    BY <1>2, <1>3 DEF Exactly
  <2> QED
    BY <1>1, <1>3, <2>1, OneMore
<1>4. CASE CommonUpTo(s, m + 1, max) # w
  <2>1. Exactly(s, w, max, m + 1) = Exactly(s, w, max, m)
    BY <1>2, <1>4 DEF Exactly
  <2> QED
    BY <1>1, <1>4, <2>1
<1> QED
  BY <1>3, <1>4

LEMMA PassStarts ==
  ASSUME NEW s \in Seq(Hash), Len(s) > 0, Sorted(s),
         NEW min \in Nat, NEW max \in Nat, NEW thresh \in Nat,
         min <= max, max <= bitlen, thresh <= max,
         R!CountRangedNbCollisions(s, min, max, thresh)
  PROVE  Passing' /\ ~done'
<1>1. /\ counted' = s /\ minHBits' = min /\ maxHBits' = max /\ threshHBits' = thresh
      /\ next' = 2 /\ collcounts' = [w \in min .. max |-> 0]
      /\ prevcoll' = [w \in IF thresh # 0 THEN min .. thresh ELSE {} |-> 0]
      /\ maxcoll' = prevcoll' /\ done' = FALSE
  BY DEF R!CountRangedNbCollisions
<1>2. \A w : Cardinality(Exactly(s, w, max, 1)) = 0
  <2>1. \A w : Exactly(s, w, max, 1) = {}
    BY DEF Exactly
  <2> QED
    BY <2>1, FS_EmptySet
<1>3. R!MaxWidths' = IF thresh # 0 THEN min .. thresh ELSE {}
  BY <1>1 DEF R!MaxWidths, R!calcmax
<1>4. ASSUME NEW w \in R!MaxWidths'
      PROVE  Running(Prefixes(s, w), 1, prevcoll'[w], maxcoll'[w])
  <2>1. prevcoll'[w] = 0 /\ maxcoll'[w] = 0
    BY <1>1, <1>3
  <2> QED
    BY <2>1, RunningFirst
<1>5. collcounts' \in [min .. max -> Nat] /\ \A w \in min .. max : collcounts'[w] = 0
  BY <1>1
<1>6. next' - 1 = 1 /\ next' <= Len(counted') + 1
  <2>1. Len(s) \in Nat
    OBVIOUS
  <2> QED
    BY ONLY <1>1, <2>1, Len(s) > 0
<1>7. \A w \in minHBits' .. maxHBits' :
        collcounts'[w] = Cardinality(Exactly(counted', w, maxHBits', next' - 1))
  BY <1>1, <1>2, <1>5, <1>6
<1>8. \A w \in R!MaxWidths' :
        Running(Prefixes(counted', w), next' - 1, prevcoll'[w], maxcoll'[w])
  BY <1>1, <1>4, <1>6
<1>9. /\ counted' \in Seq(Hash) /\ Len(counted') > 0 /\ Sorted(counted')
      /\ minHBits' \in Nat /\ maxHBits' \in Nat /\ threshHBits' \in Nat
      /\ minHBits' <= maxHBits' /\ maxHBits' <= bitlen
      /\ threshHBits' <= maxHBits'
      /\ next' \in Nat /\ next' >= 2
      /\ collcounts' \in [minHBits' .. maxHBits' -> Nat] /\ ~done'
  BY <1>1, <1>5
<1> QED
  BY ONLY <1>6, <1>7, <1>8, <1>9 DEF Passing

LEMMA PassCompares ==
  ASSUME Passing, R!Compare
  PROVE  Passing' /\ done' = done
<1> DEFINE s == counted
           m == next - 1
           counts == [w \in minHBits .. maxHBits |->
                        collcounts[w]
                        + IF w = R!Min({R!highzerobits(s[next - 1], s[next]), maxHBits})
                          THEN 1 ELSE 0]
           hzb == R!highzerobits(s[next - 1], s[next])
<1>1. /\ s \in Seq(Hash) /\ Sorted(s) /\ bitlen \in Nat
      /\ minHBits \in Nat /\ maxHBits \in Nat /\ threshHBits \in Nat
      /\ minHBits <= maxHBits /\ maxHBits <= bitlen
      /\ threshHBits # 0 => threshHBits <= maxHBits
      /\ next \in Nat /\ next >= 2 /\ collcounts \in [minHBits .. maxHBits -> Nat]
  BY BitLen DEF Passing
<1>2. /\ next <= Len(s) /\ next' = next + 1
      /\ collcounts' = counts
      /\ maxcoll' = [w \in R!MaxWidths |->
                       IF w \in R!Ended(hzb)
                       THEN R!Max({maxcoll[w], R!Coll(counts, w) - prevcoll[w]})
                       ELSE maxcoll[w]]
      /\ prevcoll' = [w \in R!MaxWidths |->
                        IF w \in R!Ended(hzb) THEN R!Coll(counts, w) ELSE prevcoll[w]]
      /\ UNCHANGED <<counted, minHBits, maxHBits, threshHBits, done>>
  BY DEF R!Compare, R!args, R!Widths, R!nbH
<1>3. m \in Nat /\ m >= 1 /\ m + 1 = next /\ next' - 1 = m + 1 /\ m + 1 <= Len(s) /\ m < Len(s)
      /\ next \in 2 .. Len(s)
  BY <1>1, <1>2
<1>4. hzb = Common(s, next)
  BY DEF Common
<1>5. hzb \in 0 .. bitlen
      /\ \A w \in 0 .. bitlen : Prefixes(s, w)[next] = Prefixes(s, w)[m] <=> w <= hzb
  BY <1>1, <1>3, <1>4, CommonBits
<1> HIDE DEF hzb
<1>6. R!Min({hzb, maxHBits}) = CommonUpTo(s, m + 1, maxHBits)
  <2>1. R!Min({hzb, maxHBits}) = IF hzb <= maxHBits THEN hzb ELSE maxHBits
    BY <1>1, <1>5, MinOfTwo, hzb \in Int, maxHBits \in Int
  <2> QED
    BY <1>3, <1>4, <2>1 DEF CommonUpTo
<1>7. counts \in [minHBits .. maxHBits -> Nat]
  BY <1>1
<1>8. ASSUME NEW w \in minHBits .. maxHBits
      PROVE  counts[w] = Cardinality(Exactly(s, w, maxHBits, m + 1))
  <2>1. collcounts[w] = Cardinality(Exactly(s, w, maxHBits, m))
    BY DEF Passing
  <2>2. counts[w] = collcounts[w] + IF w = CommonUpTo(s, m + 1, maxHBits) THEN 1 ELSE 0
    BY <1>6 DEF hzb
  <2>3. Cardinality(Exactly(s, w, maxHBits, m + 1))
           = Cardinality(Exactly(s, w, maxHBits, m))
             + (IF CommonUpTo(s, m + 1, maxHBits) = w THEN 1 ELSE 0)
    BY <1>3, ExactlyNext
  <2> QED
    BY <2>1, <2>2, <2>3
<1> HIDE DEF counts, m
<1>9. \A w \in minHBits .. maxHBits :
        R!Coll(counts, w) = Cardinality(Repeats(Prefixes(s, w), m + 1))
  <2>1. m + 1 \in Nat
    BY <1>3
  <2> QED
    BY <1>1, <1>3, <1>7, <1>8, <2>1, CollCounts
<1>10. ASSUME NEW w \in R!MaxWidths
       PROVE  Running(Prefixes(s, w), m + 1, prevcoll'[w], maxcoll'[w])
  <2>1. w \in minHBits .. maxHBits /\ w \in 0 .. bitlen /\ w \in Int
    BY <1>1 DEF R!MaxWidths, R!calcmax
  <2> DEFINE c == Prefixes(s, w)
  <2>2. Running(c, m, prevcoll[w], maxcoll[w])
    BY DEF Passing, m
  <2>3. Gathered(c, Len(s)) /\ Len(s) \in Nat
    BY <1>1, <2>1, KeysGathered
  <2>4. R!Coll(counts, w) = Cardinality(Repeats(c, m + 1))
    BY <1>9, <2>1
  <2>5. c[m + 1] = c[m] <=> w <= hzb
    BY <1>3, <1>5, <2>1
  <2>6. w \in R!Ended(hzb) <=> w > hzb
    BY DEF R!Ended
  <2> HIDE DEF c
  <2>7. CASE w <= hzb
    <3>1. prevcoll'[w] = prevcoll[w] /\ maxcoll'[w] = maxcoll[w]
      BY <1>2, <1>5, <2>1, <2>6, <2>7
    <3>2. Running(c, m + 1, prevcoll[w], maxcoll[w])
      BY <1>3, <2>2, <2>5, <2>7, RunningOn
    <3> QED
      BY <3>1, <3>2 DEF c
  <2>8. CASE ~(w <= hzb)
    <3>1. Repeats(c, m + 1) = Repeats(c, m)
      BY <1>3, <2>3, <2>5, <2>8, NewKey
    <3> DEFINE x == Cardinality(Repeats(c, m))
               y == IF maxcoll[w] >= x - prevcoll[w] THEN maxcoll[w] ELSE x - prevcoll[w]
    <3>2. x \in Int /\ prevcoll[w] \in Int /\ maxcoll[w] \in Int
      BY <1>3, <2>2, RepeatsFinite DEF Running
    <3>3. Running(c, m + 1, x, y)
      BY <1>3, <2>2, <2>3, <2>5, <2>8, <3>2, RunningNext
    <3>4. R!Coll(counts, w) = x
      BY <2>4, <3>1
    <3>5. R!Max({maxcoll[w], x - prevcoll[w]}) = y
      BY <3>2, MaxOfTwo, x - prevcoll[w] \in Int
    <3> HIDE DEF x, y
    <3>6. w \in R!Ended(hzb)
      BY <1>5, <2>1, <2>6, <2>8
    <3>7. prevcoll'[w] = x /\ maxcoll'[w] = y
      BY <1>2, <3>4, <3>5, <3>6
    <3> QED
      BY <3>3, <3>7 DEF c
  <2> QED
    BY <2>7, <2>8
<1>11. R!MaxWidths' = R!MaxWidths
  BY <1>2 DEF R!MaxWidths, R!calcmax
<1>12. /\ next' \in Nat /\ next' >= 2 /\ next' <= Len(s) + 1 /\ next' - 1 = m + 1
       /\ Len(s) > 0
  <2>1. Len(s) \in Nat
    BY <1>1
  <2> QED
    BY ONLY <1>1, <1>2, <1>3, <2>1
<1>13. \A w \in minHBits' .. maxHBits' :
         collcounts'[w] = Cardinality(Exactly(counted', w, maxHBits', next' - 1))
  BY <1>2, <1>8, <1>12
<1>14. \A w \in R!MaxWidths' :
         Running(Prefixes(counted', w), next' - 1, prevcoll'[w], maxcoll'[w])
  BY <1>2, <1>10, <1>11, <1>12
<1> QED
  BY <1>1, <1>2, <1>7, <1>12, <1>13, <1>14 DEF Passing

LEMMA PassFinishes ==
  ASSUME Passing, R!Finish
  PROVE  /\ done' /\ ~(next' <= Len(counted'))
         /\ UNCHANGED <<counted, minHBits, maxHBits, threshHBits>>
         /\ \A w \in minHBits .. maxHBits : Tallied(counted, w, collcounts'[w], threshHBits)
<1> DEFINE s == counted
           m == Len(s)
<1>1. /\ s \in Seq(Hash) /\ Sorted(s) /\ bitlen \in Nat /\ m \in Nat /\ m > 0
      /\ minHBits \in Nat /\ maxHBits \in Nat /\ threshHBits \in Nat
      /\ minHBits <= maxHBits /\ maxHBits <= bitlen
      /\ threshHBits # 0 => threshHBits <= maxHBits
      /\ collcounts \in [minHBits .. maxHBits -> Nat]
  BY BitLen DEF Passing
<1>2. /\ next > m /\ done' /\ UNCHANGED <<counted, minHBits, maxHBits, threshHBits, next>>
      /\ collcounts' = [w \in minHBits .. maxHBits |->
                          IF w \in R!MaxWidths
                          THEN R!Max({maxcoll[w], R!Coll(collcounts, w) - prevcoll[w]})
                          ELSE R!Coll(collcounts, w)]
  BY DEF R!Finish, R!args, R!Widths, R!nbH
<1>3. next - 1 = m /\ ~(next' <= m)
  BY <1>1, <1>2 DEF Passing
<1>4. \A w \in minHBits .. maxHBits :
        R!Coll(collcounts, w) = Cardinality(Repeats(Prefixes(s, w), m))
  <2>1. \A w \in minHBits .. maxHBits :
          collcounts[w] = Cardinality(Exactly(s, w, maxHBits, m))
    BY <1>3 DEF Passing
  <2> QED
    BY <1>1, <2>1, CollCounts, m <= Len(s)
<1>5. ASSUME NEW w \in minHBits .. maxHBits
      PROVE  Tallied(s, w, collcounts'[w], threshHBits)
  <2> DEFINE c == Prefixes(s, w)
             x == Cardinality(Repeats(c, m))
  <2>1. w \in Int /\ x \in Int
    BY <1>1, RepeatsFinite
  <2>2. w \in R!MaxWidths <=> threshHBits # 0 /\ w <= threshHBits
    BY <1>1 DEF R!MaxWidths, R!calcmax
  <2>3. R!Coll(collcounts, w) = x
    BY <1>4
  <2>4. Gathered(c, m)
    BY <1>1, <2>1, KeysGathered
  <2> HIDE DEF m, c
  <2>5. CASE w \in R!MaxWidths
    <3>1. Running(c, m, prevcoll[w], maxcoll[w])
      BY <1>3, <2>5 DEF Passing, c
    <3>2. prevcoll[w] \in Int /\ maxcoll[w] \in Int
      BY <3>1 DEF Running
    <3> DEFINE z == x - prevcoll[w]
               y == IF maxcoll[w] >= z THEN maxcoll[w] ELSE z
    <3>3. z \in Int /\ z = Cardinality(Repeats(c, m)) - prevcoll[w]
      BY <2>1, <3>2
    <3> HIDE DEF z
    <3>4. R!Max({maxcoll[w], z}) = y
      BY <3>2, <3>3, MaxOfTwo
    <3>5. Peak(c, m, y)
      BY <1>1, <3>1, <3>3, RunningEnds
    <3>6. collcounts'[w] = y
      BY <1>2, <2>3, <2>5, <3>4 DEF z
    <3> HIDE DEF y
    <3> QED
      BY <2>2, <2>5, <3>5, <3>6 DEF Tallied, m, c
  <2>6. CASE w \notin R!MaxWidths
    <3>1. collcounts'[w] = x
      BY <1>2, <2>3, <2>6
    <3>2. x = m - Cardinality(ValuesOf(c, m))
      BY <1>1, <2>4, ValuesCounted
    <3> QED
      BY <2>2, <2>6, <3>1, <3>2 DEF Tallied, m, c
  <2> QED
    BY <2>5, <2>6
<1> QED
  BY <1>2, <1>3, <1>5

-----------------------------------------------------------------------------
(* Lists that have the hashes given in another order.                      *)

LEMMA AtPlaces ==
  ASSUME NEW n \in Nat, NEW s, NEW p \in Arrangements(n)
  PROVE  /\ At(s, p) = [k \in 1 .. n |-> s[p[k]]] /\ p \in [1 .. n -> 1 .. n]
         /\ \A k \in 1 .. n : At(s, p)[k] = s[p[k]] /\ p[k] \in 1 .. n
<1>1. DOMAIN p = 1 .. n /\ p \in [1 .. n -> 1 .. n]
  BY DEF Arrangements
<1> QED
  BY <1>1 DEF At

LEMMA AtHashes ==
  ASSUME NEW s \in Seq(Hash), NEW n \in Nat, n = Len(s), NEW p \in Arrangements(n)
  PROVE  At(s, p) \in Seq(Hash) /\ Len(At(s, p)) = n
<1>1. /\ At(s, p) = [k \in 1 .. n |-> s[p[k]]]
      /\ \A k \in 1 .. n : s[p[k]] \in Hash
  <2>1. \A k \in 1 .. n : p[k] \in 1 .. n
    BY AtPlaces
  <2> QED
    BY <2>1, AtPlaces
<1> HIDE DEF Hash
<1> QED
  BY <1>1

LEMMA AtTwice ==
  ASSUME NEW n \in Nat, NEW s, NEW p \in Arrangements(n), NEW q \in Arrangements(n)
  PROVE  At(At(s, p), q) = At(s, At(p, q))
<1>1. /\ At(p, q) = [k \in 1 .. n |-> p[q[k]]]
      /\ \A k \in 1 .. n : q[k] \in 1 .. n
  BY AtPlaces
<1>2. At(s, At(p, q)) = [k \in 1 .. n |-> s[p[q[k]]]]
  BY <1>1 DEF At
<1>3. At(At(s, p), q) = [k \in 1 .. n |-> At(s, p)[q[k]]]
  <2> DEFINE t == At(s, p)
  <2> HIDE DEF t
  <2>1. At(t, q) = [k \in 1 .. n |-> t[q[k]]]
    BY AtPlaces
  <2> QED
    BY <2>1 DEF t
<1>4. \A k \in 1 .. n : At(s, p)[q[k]] = s[p[q[k]]]
  <2>1. \A l \in 1 .. n : At(s, p)[l] = s[p[l]]
    BY AtPlaces
  <2> QED
    BY <1>1, <2>1
<1> QED
  BY <1>2, <1>3, <1>4

LEMMA ReversedList ==
  ASSUME NEW s \in Seq(Hash), NEW n \in Nat, n = Len(s)
  PROVE  /\ Reversed(s) \in Seq(Hash) /\ Len(Reversed(s)) = n
         /\ Reversed(Reversed(s)) = s
         /\ \A k \in 1 .. n : Reversed(s)[k] = reversebits(s[k])
<1>1. DOMAIN s = 1 .. n /\ \A k \in 1 .. n : s[k] \in Hash
  OBVIOUS
<1>2. \A k \in 1 .. n : /\ reversebits(s[k]) \in Hash
                        /\ reversebits(reversebits(s[k])) = s[k]
  BY <1>1, ReversedHash
<1>3. Reversed(s) = [k \in 1 .. n |-> reversebits(s[k])]
  BY <1>1 DEF Reversed
<1>4. Reversed(s) \in Seq(Hash) /\ Len(Reversed(s)) = n /\ DOMAIN Reversed(s) = 1 .. n
  BY <1>2, <1>3
<1>5. Reversed(Reversed(s)) = [k \in 1 .. n |-> reversebits(Reversed(s)[k])]
  BY <1>4 DEF Reversed
<1>6. Reversed(Reversed(s)) = [k \in 1 .. n |-> s[k]]
  BY <1>2, <1>3, <1>5
<1>7. s = [k \in 1 .. n |-> s[k]]
  BY <1>1
<1> QED
  BY <1>3, <1>4, <1>6, <1>7

LEMMA ReversedAt ==
  ASSUME NEW s \in Seq(Hash), NEW n \in Nat, n = Len(s), NEW p \in Arrangements(n)
  PROVE  Reversed(At(s, p)) = At(Reversed(s), p)
<1>1. /\ At(s, p) = [k \in 1 .. n |-> s[p[k]]] /\ \A k \in 1 .. n : p[k] \in 1 .. n
      /\ At(Reversed(s), p) = [k \in 1 .. n |-> Reversed(s)[p[k]]]
  <2> DEFINE t == Reversed(s)
  <2> HIDE DEF t
  <2>1. At(t, p) = [k \in 1 .. n |-> t[p[k]]]
    BY AtPlaces
  <2> QED
    BY <2>1, AtPlaces DEF t
<1>2. \A k \in 1 .. n : Reversed(s)[k] = reversebits(s[k])
  BY ReversedList
<1>3. Reversed(At(s, p)) = [k \in 1 .. n |-> reversebits(s[p[k]])]
  BY <1>1 DEF Reversed
<1> QED
  BY <1>1, <1>2, <1>3

(* What is counted is the same in every order.                             *)
LEMMA TalliedAt ==
  ASSUME NEW s \in Seq(Hash), NEW n \in Nat, n = Len(s), NEW p \in Arrangements(n),
         NEW w \in Int, NEW x, NEW thresh, NEW t, t = At(s, p)
  PROVE  /\ ValuesOf(Prefixes(t, w), n) = ValuesOf(Prefixes(s, w), n)
         /\ \A v : Cardinality(With(Prefixes(t, w), n, v)) = Cardinality(With(Prefixes(s, w), n, v))
         /\ Tallied(t, w, x, thresh) <=> Tallied(s, w, x, thresh)
<1> DEFINE c == Prefixes(s, w)
           d == Prefixes(t, w)
<1>1. Len(t) = n /\ \A k \in 1 .. n : p[k] \in 1 .. n /\ t[k] = s[p[k]]
  BY AtHashes, AtPlaces
<1>2. /\ \A k \in 1 .. n : c[k] = Masked(s[k], w)
      /\ \A k \in 1 .. n : d[k] = Masked(t[k], w)
  BY <1>1 DEF Prefixes
<1>3. \A k \in 1 .. n : d[k] = c[p[k]] /\ p[k] \in 1 .. n
  BY <1>1, <1>2
<1> HIDE DEF c, d
<1>4. \A l \in 1 .. n : \E k \in 1 .. n : p[k] = l
  BY DEF Arrangements
<1>5. ValuesOf(d, n) = ValuesOf(c, n)
  <2>1. ASSUME NEW k \in 1 .. n PROVE d[k] \in ValuesOf(c, n)
    BY <1>3 DEF ValuesOf
  <2>2. ASSUME NEW k \in 1 .. n PROVE c[k] \in ValuesOf(d, n)
    BY <1>3, <1>4 DEF ValuesOf
  <2> QED
    BY <2>1, <2>2 DEF ValuesOf
<1>6. ASSUME NEW v
      PROVE  Cardinality(With(d, n, v)) = Cardinality(With(c, n, v))
  <2> DEFINE K == With(c, n, v)
  <2>1. K \in SUBSET (1 .. n)
    BY DEF With
  <2>2. With(d, n, v) = {k \in 1 .. n : p[k] \in K}
    BY <1>3 DEF With
  <2> HIDE DEF K
  <2>3. Cardinality({k \in 1 .. n : p[k] \in K}) = Cardinality(K)
    BY <2>1, SameCount
  <2> QED
    BY <2>2, <2>3 DEF K
<1>7. Peak(d, n, x) <=> Peak(c, n, x)
  BY <1>5, <1>6 DEF Peak
<1> QED
  BY <1>1, <1>5, <1>6, <1>7 DEF Tallied, c, d

-----------------------------------------------------------------------------
(* The widths, and the reports on them.                                    *)

LEMMA LargestOf ==
  ASSUME NEW b \in Nat, NEW S \in SUBSET (0 .. b), S # {}
  PROVE  Max(S) \in S /\ \A n \in S : Max(S) >= n
<1> DEFINE T == {b - n : n \in S}
<1>1. T \in SUBSET Nat /\ T # {}
  <2>1. \A n \in S : n \in 0 .. b /\ b - n \in Nat
    OBVIOUS
  <2>2. PICK n \in S : TRUE
    OBVIOUS
  <2>3. b - n \in T
    BY <2>2
  <2> QED
    BY <2>1, <2>3
<1> HIDE DEF T
<1>2. PICK t \in T : \A u \in T : t <= u
  BY <1>1, LeastNatural
<1> USE DEF T
<1>3. PICK m \in S : t = b - m
  BY <1>2
<1>4. \A n \in S : b - n \in T
  OBVIOUS
<1>5. \A n \in S : m >= n
  BY <1>2, <1>3, <1>4
<1> QED
  BY <1>3, <1>5 DEF Max

LEMMA SmallestOf ==
  ASSUME NEW S \in SUBSET Nat, S # {}
  PROVE  Min(S) \in S /\ \A n \in S : Min(S) <= n
<1>1. \E n \in S : \A m \in S : n <= m
  BY LeastNatural
<1> QED
  BY <1>1 DEF Min

(* The widths a list is counted for are those that reports are about.      *)
LEMMA WidthBounds ==
  ASSUME set \in Settings
  PROVE  /\ combinedBits \subseteq 1 .. bitlen - 1
         /\ minBits \in Nat /\ maxBits \in Nat /\ threshBits \in Nat
         /\ maxBits <= bitlen /\ threshBits <= maxBits
         /\ maxBits > 0 => minBits <= maxBits
         /\ \A w \in combinedBits :
              /\ maxBits > 0 /\ w \in minBits .. maxBits
              /\ w < set.nlognBits <=> w \in 0 .. threshBits
              /\ w < set.nlognBits <=> threshBits # 0 /\ w <= threshBits
<1>1. bitlen \in Nat /\ bitlen > 0
  BY BitLen
<1>2. /\ set.vec \subseteq Nat \ {0} /\ set.minTBits \in Nat \ {0}
      /\ set.maxTBits \in Nat /\ set.maxTBits < bitlen /\ set.nlognBits \in Nat
  BY InputsAssumption DEF Inputs
<1> DEFINE W == combinedBits
           U == {w \in W : w < set.nlognBits}
<1>3. W \subseteq 1 .. bitlen - 1
  BY <1>1, <1>2 DEF combinedBits, nbBitsvec, TestedBits
<1>4. /\ minBits = Min({bitlen + 1} \cup W)
      /\ maxBits = Max({0} \cup W) /\ threshBits = Max({0} \cup U)
  BY DEF minBits, maxBits, threshBits
<1> HIDE DEF W
<1>5. /\ minBits \in {bitlen + 1} \cup W /\ \A n \in {bitlen + 1} \cup W : minBits <= n
  <2>1. ({bitlen + 1} \cup W) \in SUBSET Nat /\ ({bitlen + 1} \cup W) # {}
    BY <1>1, <1>3
  <2> QED
    BY <1>4, <2>1, SmallestOf
<1>6. maxBits \in {0} \cup W /\ \A n \in {0} \cup W : maxBits >= n
  <2>1. ({0} \cup W) \in SUBSET (0 .. bitlen) /\ ({0} \cup W) # {}
    BY <1>1, <1>3
  <2> QED
    BY <1>1, <1>4, <2>1, LargestOf
<1>7. threshBits \in {0} \cup U /\ \A n \in {0} \cup U : threshBits >= n
  <2>1. ({0} \cup U) \in SUBSET (0 .. bitlen) /\ ({0} \cup U) # {}
    <3>1. U \subseteq W /\ W \subseteq 0 .. bitlen /\ 0 \in 0 .. bitlen
      BY <1>1, <1>3
    <3> HIDE DEF U
    <3> QED
      BY <3>1
  <2> HIDE DEF U
  <2> QED
    BY <1>1, <1>4, <2>1, LargestOf
<1>8. /\ minBits \in Nat /\ maxBits \in Nat /\ threshBits \in Nat
      /\ maxBits <= bitlen /\ threshBits <= maxBits
      /\ maxBits > 0 => minBits <= maxBits
  BY <1>1, <1>3, <1>5, <1>6, <1>7
<1>9. ASSUME NEW w \in W
      PROVE  /\ maxBits > 0 /\ w \in minBits .. maxBits
             /\ w < set.nlognBits <=> w \in 0 .. threshBits
             /\ w < set.nlognBits <=> threshBits # 0 /\ w <= threshBits
  <2>1. w \in Nat /\ w > 0 /\ w >= minBits /\ w <= maxBits
    BY <1>3, <1>5, <1>6
  <2>2. w < set.nlognBits => w <= threshBits
    BY <1>7
  <2>3. threshBits # 0 => threshBits < set.nlognBits
    BY <1>7
  <2> QED
    BY <1>2, <1>8, <2>1, <2>2, <2>3
<1> QED
  BY <1>3, <1>8, <1>9 DEF W

LEMMA NthWidest ==
  ASSUME NEW S \in SUBSET Nat, IsFiniteSet(S), NEW n \in Nat, n < Cardinality(S)
  PROVE  \E w \in S : Cardinality({v \in S : v > w}) = n
<1> DEFINE Above(w) == {v \in S : v > w}
           N == Cardinality(S)
           T == 1 .. N
           f == [w \in S |-> Cardinality(Above(w)) + 1]
<1>1. N \in Nat /\ IsFiniteSet(T) /\ Cardinality(T) = N
  BY FS_CardinalityType, Interval
<1>2. ASSUME NEW w \in S
      PROVE  /\ w \notin Above(w) /\ Cardinality(Above(w)) \in Nat
             /\ Cardinality(Above(w) \cup {w}) = Cardinality(Above(w)) + 1
             /\ IsFiniteSet(Above(w)) /\ Above(w) \cup {w} \subseteq S
  <2>1. w \notin Above(w) /\ Above(w) \subseteq S
    OBVIOUS
  <2> HIDE DEF Above
  <2>2. IsFiniteSet(Above(w)) /\ Cardinality(Above(w)) \in Nat
    BY <2>1, FiniteSubset
  <2>3. Cardinality(Above(w) \cup {w}) = Cardinality(Above(w)) + 1
    BY <2>1, <2>2, OneMore
  <2> QED
    BY <2>1, <2>2, <2>3
<1>3. ASSUME NEW w \in S PROVE Cardinality(Above(w)) + 1 \in T
  <2> HIDE DEF Above
  <2>1. Cardinality(Above(w) \cup {w}) <= N
    BY <1>2, FiniteSubset
  <2> QED
    BY ONLY <1>1, <1>2, <2>1, w \in S DEF T
<1>4. ASSUME NEW v \in S, NEW w \in S, v > w
      PROVE  Cardinality(Above(v)) < Cardinality(Above(w))
  <2>1. Above(v) \cup {v} \subseteq Above(w)
    <3>1. v \in Nat /\ w \in Nat /\ \A u \in S : u \in Nat
      OBVIOUS
    <3>2. \A u \in S : u > v => u > w
      BY <1>4, <3>1
    <3> QED
      BY <1>4, <3>2
  <2> HIDE DEF Above
  <2>2. Cardinality(Above(v) \cup {v}) <= Cardinality(Above(w))
    BY ONLY <1>2, <2>1, FiniteSubset, w \in S
  <2>3. /\ Cardinality(Above(v) \cup {v}) = Cardinality(Above(v)) + 1
        /\ Cardinality(Above(v)) \in Nat /\ Cardinality(Above(w)) \in Nat
    BY <1>2
  <2> QED
    BY ONLY <2>2, <2>3
<1>5. f \in Injection(S, T)
  <2>1. f \in [S -> T]
    BY <1>3
  <2>2. ASSUME NEW v \in S, NEW w \in S, f[v] = f[w] PROVE v = w
    <3>1. Cardinality(Above(v)) + 1 = Cardinality(Above(w)) + 1
      BY <2>2
    <3>2. Cardinality(Above(v)) = Cardinality(Above(w)) /\ Cardinality(Above(v)) \in Nat
      <4> HIDE DEF Above
      <4>1. Cardinality(Above(v)) \in Nat /\ Cardinality(Above(w)) \in Nat
        BY <1>2
      <4> QED
        BY <3>1, <4>1
    <3> HIDE DEF Above
    <3>3. ~(v > w) /\ ~(w > v)
      BY <1>4, <3>2
    <3> QED
      BY <3>3
  <2> HIDE DEF f, T
  <2> QED
    BY <2>1, <2>2 DEF Injection, IsInjective
<1>6. f \in Surjection(S, T)
  <2> HIDE DEF f, T
  <2> QED
    BY <1>1, <1>5, FS_Injection
<1>7. PICK w \in S : f[w] = n + 1
  <2>1. n + 1 \in T
    BY <1>1
  <2> HIDE DEF f, T
  <2> QED
    BY <1>6, <2>1 DEF Surjection
<1>8. Cardinality(Above(w)) = n
  <2>1. f[w] = Cardinality(Above(w)) + 1
    OBVIOUS
  <2> HIDE DEF f, Above
  <2>2. Cardinality(Above(w)) \in Nat
    BY <1>2
  <2> QED
    BY <1>7, <2>1, <2>2
<1> QED
  BY <1>8

LEMMA Joined ==
  \A a, b : Len(<<a>> \o <<b>>) = 2 /\ (<<a>> \o <<b>>)[1] = a /\ (<<a>> \o <<b>>)[2] = b
OBVIOUS

LEMMA EndsTested ==
  ASSUME set \in Settings
  PROVE  /\ Len(Ends) \in Nat
         /\ \A k \in 1 .. Len(Ends) :
              (Ends[k] = TRUE /\ set.high) \/ (Ends[k] = FALSE /\ set.low)
<1>1. set.high \in BOOLEAN /\ set.low \in BOOLEAN
  BY InputsAssumption DEF Inputs
<1>2. <<TRUE>> \o <<>> = <<TRUE>> /\ <<>> \o <<FALSE>> = <<FALSE>> /\ <<>> \o <<>> = <<>>
  OBVIOUS
<1> DEFINE hi == IF set.high THEN <<TRUE>> ELSE <<>>
           lo == IF set.low THEN <<FALSE>> ELSE <<>>
<1>3. Ends = hi \o lo
  BY DEF Ends
<1>4. CASE set.high /\ set.low
  <2>1. hi = <<TRUE>> /\ lo = <<FALSE>>
    BY <1>4, Zenon
  <2> HIDE DEF hi, lo
  <2>2. Ends = <<TRUE>> \o <<FALSE>>
    BY <1>3, <2>1, Zenon
  <2>3. Len(Ends) = 2 /\ Ends[1] = TRUE /\ Ends[2] = FALSE
    BY <2>2, Joined, Zenon
  <2>4. \A k \in 1 .. 2 : k = 1 \/ k = 2
    OBVIOUS
  <2> QED
    BY <1>4, <2>3, <2>4
<1>5. CASE set.high /\ ~set.low
  <2>1. hi = <<TRUE>> /\ lo = <<>>
    BY <1>5, Zenon
  <2> HIDE DEF hi, lo
  <2>2. Ends = <<TRUE>>
    BY <1>2, <1>3, <2>1, Zenon
  <2>3. Len(Ends) = 1 /\ Ends[1] = TRUE
    BY <2>2
  <2>4. \A k \in 1 .. 1 : k = 1
    OBVIOUS
  <2> QED
    BY <1>5, <2>3, <2>4
<1>6. CASE ~set.high /\ set.low
  <2>1. hi = <<>> /\ lo = <<FALSE>>
    BY <1>6, Zenon
  <2> HIDE DEF hi, lo
  <2>2. Ends = <<FALSE>>
    BY <1>2, <1>3, <2>1, Zenon
  <2>3. Len(Ends) = 1 /\ Ends[1] = FALSE
    BY <2>2
  <2>4. \A k \in 1 .. 1 : k = 1
    OBVIOUS
  <2> QED
    BY <1>6, <2>3, <2>4
<1>7. CASE ~set.high /\ ~set.low
  <2>1. hi = <<>> /\ lo = <<>>
    BY <1>7, Zenon
  <2> HIDE DEF hi, lo
  <2>2. Ends = <<>>
    BY <1>2, <1>3, <2>1, Zenon
  <2> QED
    BY <2>2
<1> QED
  BY <1>1, <1>4, <1>5, <1>6, <1>7

(* A report is on all bits, or on widths that were counted, from an end    *)
(* they were counted from.                                                 *)
LEMMA NextReports ==
  ASSUME set \in Settings, reported \in Nat, reported < NbReports
  PROVE  LET r == NextReport IN
         \/ reported = 0 /\ r = [kind |-> "all", bits |-> {bitlen}, high |-> TRUE]
         \/ /\ reported > 0
            /\ \E high \in BOOLEAN :
                 /\ (high /\ set.high) \/ (~high /\ set.low)
                 /\ \/ \E w \in nbBitsvec :
                         r = [kind |-> "width", bits |-> {w}, high |-> high]
                    \/ r = [kind |-> "summary", bits |-> TestedBits, high |-> high]
<1> DEFINE E == Len(Ends)
           V == nbBitsvec
           N == Cardinality(V)
           n == (reported - 1) \div E
           end == Ends[1 + ((reported - 1) % E)]
<1>1. IsFiniteSet(V) /\ V \in SUBSET Nat /\ N \in Nat
  <2>1. V \subseteq 1 .. bitlen - 1 /\ bitlen - 1 \in Nat
    BY WidthBounds, BitLen DEF combinedBits
  <2> HIDE DEF V
  <2>2. V \in SUBSET Nat
    BY <2>1
  <2>3. IsFiniteSet(V) /\ N \in Nat
    <3> DEFINE W == 1 .. bitlen - 1
    <3>1. IsFiniteSet(W)
      BY BitLen, bitlen - 1 \in Nat, Interval
    <3>2. V \subseteq W
      BY <2>1
    <3> HIDE DEF W
    <3> QED
      BY <3>1, <3>2, FiniteSubset
  <2> QED
    BY <2>2, <2>3
<1>2. NextReport = IF reported = 0 THEN [kind |-> "all", bits |-> {bitlen}, high |-> TRUE]
                     ELSE IF n < N
                     THEN [kind |-> "width", bits |-> {Width(n)}, high |-> end]
                     ELSE [kind |-> "summary", bits |-> TestedBits, high |-> end]
  BY DEF NextReport
<1>3. NbReports = 1 + E * (N + 1)
  BY DEF NbReports
<1> HIDE DEF V
<1>4. CASE reported = 0
  BY <1>2, <1>4
<1>5. CASE reported # 0
  <2>1. E \in Nat /\ E # 0
    <3>1. E \in Nat
      BY EndsTested
    <3>2. N + 1 \in Int
      BY <1>1
    <3> DEFINE M == N + 1
    <3> HIDE DEF E, M
    <3>3. ASSUME E = 0 PROVE FALSE
      <4>1. E * M = 0
        BY <3>2, <3>3 DEF M
      <4> QED
        BY <1>3, <1>5, <4>1 DEF M
    <3> QED
      BY <3>1, <3>3
  <2>2. (reported - 1) % E \in 0 .. E - 1 /\ n \in Nat
    <3> HIDE DEF E
    <3>1. reported - 1 \in Int /\ reported - 1 >= 0 /\ E > 0
      BY <1>5, <2>1
    <3> QED
      BY <2>1, <3>1, DivMod, DivNat
  <2>3. end \in BOOLEAN /\ ((end /\ set.high) \/ (~end /\ set.low))
    <3>1. 1 + ((reported - 1) % E) \in 1 .. Len(Ends)
      BY <2>1, <2>2
    <3> DEFINE k == 1 + ((reported - 1) % E)
    <3> HIDE DEF k
    <3>2. (Ends[k] = TRUE /\ set.high) \/ (Ends[k] = FALSE /\ set.low)
      <4>1. k \in 1 .. Len(Ends)
        BY <3>1 DEF k
      <4>2. \A l \in 1 .. Len(Ends) :
              (Ends[l] = TRUE /\ set.high) \/ (Ends[l] = FALSE /\ set.low)
        BY EndsTested
      <4> QED
        BY <4>1, <4>2, Zenon
    <3>3. end = Ends[k]
      BY DEF k
    <3> HIDE DEF end
    <3>4. (end = TRUE /\ set.high) \/ (end = FALSE /\ set.low)
      BY <3>2, <3>3
    <3> QED
      BY <3>4, Zenon
  <2> HIDE DEF end, n, E
  <2>4. CASE n < N
    <3>1. Width(n) \in V
      <4>1. Width(n) = CHOOSE w \in V : Cardinality({v \in V : v > w}) = n
        BY DEF Width, V
      <4>2. \E w \in V : Cardinality({v \in V : v > w}) = n
        BY <1>1, <2>2, <2>4, NthWidest
      <4> QED
        BY <4>1, <4>2
    <3>2. NextReport = [kind |-> "width", bits |-> {Width(n)}, high |-> end]
      BY <1>2, <1>5, <2>4
    <3> DEFINE w == Width(n)
    <3> HIDE DEF w
    <3>3. reported > 0
      BY <1>5
    <3> QED
      BY <2>3, <3>1, <3>2, <3>3 DEF V, w
  <2>5. CASE ~(n < N)
    BY <1>2, <1>5, <2>3, <2>5
  <2> QED
    BY <2>4, <2>5
<1> QED
  BY <1>4, <1>5

-----------------------------------------------------------------------------
(* The collisions that are collected, place by place.                      *)

Collections(I) ==
  [collcount : Nat, collisions : UNION {[S -> Nat] : S \in SUBSET Hash},
   collisionidxs : Seq(I), cur : Nat]

(* What a place adds to f.                                                 *)
CollectedAt(f, s, idxs, hits, w, k) ==
  IF k \notin hits THEN f
  ELSE IF idxs = <<>> THEN [f EXCEPT !.collcount = @ + 1]
  ELSE Collect(f, Masked(s[k], w), idxs, k)

LEMMA CollectTypes ==
  ASSUME NEW I, NEW f \in Collections(I), NEW value \in Hash, NEW idxs, NEW n,
         idxs[n - 1] \in I, idxs[n] \in I
  PROVE  /\ Collect(f, value, idxs, n) \in Collections(I)
         /\ Collect(f, value, idxs, n).collcount = f.collcount + 1
<1> DEFINE known == value \in DOMAIN f.collisions
           taken == IF ~known THEN <<idxs[n - 1], idxs[n]>>
                    ELSE IF f.cur < MAX_PER_ENTRY THEN <<idxs[n]>> ELSE <<>>
           cs == [v \in (DOMAIN f.collisions) \cup {value} |->
                    IF v # value THEN f.collisions[v]
                    ELSE IF known THEN f.collisions[v] + 1 ELSE 2]
           room == known \/ Cardinality(DOMAIN f.collisions) < MAX_ENTRIES
           cur == IF known THEN f.cur + Len(taken) ELSE 2
           g == [collcount |-> f.collcount + 1, collisions |-> cs,
                 collisionidxs |-> f.collisionidxs \o taken, cur |-> cur]
<1>1. Collect(f, value, idxs, n) = IF room THEN g ELSE [f EXCEPT !.collcount = @ + 1]
  BY DEF Collect
<1>2. /\ f.collcount \in Nat /\ f.collcount + 1 \in Nat /\ f.cur \in Nat
      /\ f.collisionidxs \in Seq(I)
      /\ f = [collcount |-> f.collcount, collisions |-> f.collisions,
              collisionidxs |-> f.collisionidxs, cur |-> f.cur]
  BY DEF Collections
<1>3. PICK S \in SUBSET Hash : f.collisions \in [S -> Nat]
  BY DEF Collections
<1>4. cs \in [S \cup {value} -> Nat] /\ (S \cup {value}) \in SUBSET Hash
  <2>1. DOMAIN f.collisions = S /\ \A v \in S : f.collisions[v] \in Nat
    BY <1>3
  <2> HIDE DEF Hash
  <2> QED
    BY <2>1
<1>5. taken \in Seq(I) /\ Len(taken) \in Nat
  <2>1. <<idxs[n - 1], idxs[n]>> \in Seq(I) /\ <<idxs[n]>> \in Seq(I) /\ <<>> \in Seq(I)
    OBVIOUS
  <2>2. taken \in Seq(I)
    <3> HIDE DEF known
    <3> QED
      BY <2>1
  <2> HIDE DEF taken
  <2> QED
    BY <2>2
<1> HIDE DEF taken, cs, known
<1>6. \A s, t \in Seq(I) : s \o t \in Seq(I)
  OBVIOUS
<1>7. g \in Collections(I) /\ g.collcount = f.collcount + 1
  <2>1. f.collisionidxs \o taken \in Seq(I) /\ cur \in Nat
    BY <1>2, <1>5, <1>6
  <2>2. cs \in UNION {[T -> Nat] : T \in SUBSET Hash}
    BY <1>4
  <2> HIDE DEF cur
  <2> QED
    BY <1>2, <2>1, <2>2 DEF Collections
<1>8. /\ [f EXCEPT !.collcount = @ + 1] \in Collections(I)
      /\ [f EXCEPT !.collcount = @ + 1].collcount = f.collcount + 1
  BY <1>2 DEF Collections
<1> HIDE DEF g, room
<1> QED
  BY <1>1, <1>7, <1>8

LEMMA CollectedTypes ==
  ASSUME NEW s \in Seq(Hash), NEW n \in Nat, n = Len(s), NEW w, NEW hits,
         NEW idxs, idxs = <<>> \/ idxs \in [1 .. n -> 1 .. n],
         NEW k \in 2 .. n, NEW f \in Collections(1 .. n)
  PROVE  /\ CollectedAt(f, s, idxs, hits, w, k) \in Collections(1 .. n)
         /\ CollectedAt(f, s, idxs, hits, w, k).collcount
              = f.collcount + (IF k \in hits THEN 1 ELSE 0)
<1>1. f.collcount \in Nat
  BY DEF Collections
<1>2. CASE k \notin hits
  BY <1>1, <1>2 DEF CollectedAt
<1>3. CASE k \in hits /\ idxs = <<>>
  <2>1. CollectedAt(f, s, idxs, hits, w, k) = [f EXCEPT !.collcount = @ + 1]
    BY <1>3 DEF CollectedAt
  <2>2. /\ [f EXCEPT !.collcount = @ + 1] \in Collections(1 .. n)
        /\ [f EXCEPT !.collcount = @ + 1].collcount = f.collcount + 1
    BY <1>1 DEF Collections
  <2> QED
    BY <1>3, <2>1, <2>2
<1>4. CASE k \in hits /\ idxs # <<>>
  <2>1. /\ idxs[k - 1] \in 1 .. n /\ idxs[k] \in 1 .. n /\ s[k] \in Hash
    BY <1>4
  <2>2. Masked(s[k], w) \in Hash
    BY <2>1, MaskedHash
  <2>3. CollectedAt(f, s, idxs, hits, w, k) = Collect(f, Masked(s[k], w), idxs, k)
    BY <1>4 DEF CollectedAt
  <2> DEFINE v == Masked(s[k], w)
             I == 1 .. n
  <2> HIDE DEF v, I, Hash
  <2>4. /\ Collect(f, v, idxs, k) \in Collections(I)
        /\ Collect(f, v, idxs, k).collcount = f.collcount + 1
    BY <2>1, <2>2, CollectTypes DEF v, I
  <2> QED
    BY <1>4, <2>3, <2>4 DEF v, I
<1> QED
  BY <1>2, <1>3, <1>4

LEMMA NothingType == \A I : Nothing \in Collections(I) /\ Nothing.collcount = 0
<1> TAKE I
<1>1. [v \in {} |-> 0] \in UNION {[S -> Nat] : S \in SUBSET Hash}
  <2>1. {} \in SUBSET Hash /\ [v \in {} |-> 0] \in [{} -> Nat]
    OBVIOUS
  <2> QED
    BY <2>1
<1>2. <<>> \in Seq(I)
  OBVIOUS
<1> QED
  BY <1>1, <1>2 DEF Nothing, Collections

(* What there is at every place, up to what is collected.                  *)
CollectedBy(u, s, idxs, hits, w) ==
  /\ u \in [1 .. Len(s) -> Collections(1 .. Len(s))] /\ u[1] = Nothing
  /\ \A k \in 2 .. Len(s) : u[k] = CollectedAt(u[k - 1], s, idxs, hits, w, k)
  /\ Collected(s, idxs, hits, w) = u[Len(s)]

LEMMA CollectedSteps ==
  ASSUME NEW s \in Seq(Hash), NEW n \in Nat, n = Len(s), n > 0, NEW w, NEW hits,
         NEW idxs, idxs = <<>> \/ idxs \in [1 .. n -> 1 .. n]
  PROVE  \E u : CollectedBy(u, s, idxs, hits, w)
<1> DEFINE V == Collections(1 .. n)
           At_(f, k) == CollectedAt(f, s, idxs, hits, w, k)
           IsUpto(f) == f = [k \in 1 .. n |->
                               IF k = 1 THEN Nothing
                               ELSE IF k \notin hits THEN f[k - 1]
                               ELSE IF idxs = <<>> THEN [f[k - 1] EXCEPT !.collcount = @ + 1]
                               ELSE Collect(f[k - 1], Masked(s[k], w), idxs, k)]
           upto == CHOOSE f : IsUpto(f)
<1>1. \A f \in V, k \in 2 .. n : At_(f, k) \in V
  BY CollectedTypes
<1>2. Nothing \in V
  BY NothingType
<1> HIDE DEF V, At_
<1>3. PICK g : /\ g \in [Nat -> V] /\ g[0] = Nothing
               /\ \A k \in 2 .. n : g[k - 1] = At_(g[k - 2], k)
  <2> DEFINE F == [p \in Nat \X V |-> IF p[1] + 2 <= n THEN At_(p[2], p[1] + 2) ELSE p[2]]
  <2>1. F \in [Nat \X V -> V]
    <3>1. ASSUME NEW p \in Nat \X V
          PROVE  (IF p[1] + 2 <= n THEN At_(p[2], p[1] + 2) ELSE p[2]) \in V
      <4>1. p[1] \in Nat /\ p[2] \in V
        OBVIOUS
      <4>2. p[1] + 2 <= n => p[1] + 2 \in 2 .. n
        BY <4>1
      <4> QED
        BY <1>1, <4>1, <4>2
    <3> QED
      BY <3>1
  <2>2. PICK g : Recurs(g, V, Nothing, F)
    BY <1>2, <2>1, Recursion DEF StepOn
  <2>3. g \in [Nat -> V] /\ g[0] = Nothing /\ \A k \in Nat : g[k+1] = F[<<k, g[k]>>]
    BY <2>2 DEF Recurs
  <2>4. ASSUME NEW k \in 2 .. n PROVE g[k - 1] = At_(g[k - 2], k)
    <3>1. k - 2 \in Nat /\ (k - 2) + 1 = k - 1 /\ (k - 2) + 2 = k /\ k <= n
      OBVIOUS
    <3>2. g[k - 1] = F[<<k - 2, g[k - 2]>>] /\ g[k - 2] \in V
      <4> HIDE DEF F
      <4> QED
        BY <2>3, <3>1
    <3> QED
      BY <3>1, <3>2
  <2> QED
    BY <2>3, <2>4
<1> DEFINE f0 == [k \in 1 .. n |-> g[k - 1]]
<1>4. /\ f0 \in [1 .. n -> V] /\ f0[1] = Nothing
      /\ \A k \in 2 .. n : f0[k] = At_(f0[k - 1], k)
  <2>1. \A k \in 1 .. n : k - 1 \in Nat /\ g[k - 1] \in V
    BY <1>3
  <2>2. f0 \in [1 .. n -> V]
    BY <2>1
  <2>3. 1 \in 1 .. n /\ 1 - 1 = 0
    OBVIOUS
  <2>4. ASSUME NEW k \in 2 .. n PROVE f0[k] = At_(f0[k - 1], k)
    <3>1. k \in 1 .. n /\ k - 1 \in 1 .. n /\ (k - 1) - 1 = k - 2
      OBVIOUS
    <3>2. f0[k] = g[k - 1] /\ f0[k - 1] = g[k - 2]
      BY <3>1
    <3> HIDE DEF f0
    <3> QED
      BY <1>3, <3>2
  <2> QED
    BY <1>3, <2>2, <2>3, <2>4
<1> HIDE DEF f0
<1>5. ASSUME NEW f
      PROVE  IsUpto(f) <=> /\ f = [k \in 1 .. n |-> f[k]] /\ f[1] = Nothing
                           /\ \A k \in 2 .. n : f[k] = At_(f[k - 1], k)
  <2> DEFINE rhs(k) == IF k = 1 THEN Nothing
                       ELSE IF k \notin hits THEN f[k - 1]
                       ELSE IF idxs = <<>> THEN [f[k - 1] EXCEPT !.collcount = @ + 1]
                       ELSE Collect(f[k - 1], Masked(s[k], w), idxs, k)
  <2>1. \A k \in 2 .. n : k # 1 /\ k \in 1 .. n /\ rhs(k) = At_(f[k - 1], k)
    BY DEF At_, CollectedAt
  <2>2. 1 \in 1 .. n /\ rhs(1) = Nothing
    OBVIOUS
  <2>3. \A k \in 1 .. n : k = 1 \/ k \in 2 .. n
    OBVIOUS
  <2>4. IsUpto(f) <=> f = [k \in 1 .. n |-> rhs(k)]
    OBVIOUS
  <2> HIDE DEF rhs, IsUpto
  <2> QED
    BY <2>1, <2>2, <2>3, <2>4
<1>6. Collected(s, idxs, hits, w) = upto[n]
  BY DEF Collected
<1> HIDE DEF IsUpto
<1>7. IsUpto(f0)
  BY <1>4, <1>5
<1>8. IsUpto(upto)
  BY <1>7
<1> HIDE DEF upto
<1>9. /\ upto = [k \in 1 .. n |-> upto[k]] /\ upto[1] = Nothing
      /\ \A k \in 2 .. n : upto[k] = At_(upto[k - 1], k)
  BY <1>5, <1>8
<1>10. \A k \in 1 .. n : upto[k] \in V
  <2> DEFINE T == {j \in Nat : j + 1 <= n => upto[j + 1] \in V}
  <2>1. 0 \in T
    BY <1>2, <1>9
  <2>2. ASSUME NEW j \in T PROVE j + 1 \in T
    <3>1. j \in Nat /\ (j + 1) + 1 = j + 2 /\ (j + 2) - 1 = j + 1
      OBVIOUS
    <3>2. ASSUME j + 2 <= n PROVE upto[j + 2] \in V
      <4>1. j + 2 \in 2 .. n /\ j + 1 <= n
        BY <3>1, <3>2
      <4>2. upto[j + 1] \in V
        BY <4>1
      <4>3. upto[j + 2] = At_(upto[j + 1], j + 2)
        BY <1>9, <3>1, <4>1
      <4> QED
        BY <1>1, <4>1, <4>2, <4>3
    <3> QED
      BY <3>1, <3>2
  <2>3. T = Nat
    <3>1. T \in SUBSET Nat
      OBVIOUS
    <3> HIDE DEF T
    <3> QED
      BY <2>1, <2>2, <3>1, AllNaturals
  <2> SUFFICES ASSUME NEW k \in 1 .. n PROVE upto[k] \in V
    OBVIOUS
  <2>4. k - 1 \in Nat /\ (k - 1) + 1 = k /\ k <= n
    OBVIOUS
  <2>5. k - 1 \in T
    <3> HIDE DEF T
    <3> QED
      BY <2>3, <2>4
  <2> QED
    BY <2>4, <2>5
<1>11. upto \in [1 .. n -> V]
  BY <1>9, <1>10
<1> QED
  BY <1>6, <1>9, <1>11 DEF V, At_, CollectedBy

LEMMA CollectedCounts ==
  ASSUME NEW s \in Seq(Hash), NEW n \in Nat, n = Len(s), n > 0, NEW w,
         NEW hits,
         NEW idxs, idxs = <<>> \/ idxs \in [1 .. n -> 1 .. n]
  PROVE  Collected(s, idxs, hits, w).collcount = Cardinality({k \in 2 .. n : k \in hits})
<1>0. PICK u : CollectedBy(u, s, idxs, hits, w)
  BY CollectedSteps
<1>1. /\ u \in [1 .. n -> Collections(1 .. n)] /\ u[1] = Nothing
      /\ \A k \in 2 .. n : u[k] = CollectedAt(u[k - 1], s, idxs, hits, w, k)
      /\ Collected(s, idxs, hits, w) = u[n]
  BY <1>0 DEF CollectedBy
<1> DEFINE To(k) == {l \in 2 .. k : l \in hits}
           Good(k) == u[k].collcount = Cardinality(To(k)) /\ IsFiniteSet(To(k))
           T == {j \in Nat : j + 1 <= n => Good(j + 1)}
<1>2. 0 \in T
  <2>1. To(1) = {}
    <3>1. 2 .. 1 = {}
      OBVIOUS
    <3> QED
      BY ONLY <3>1
  <2>2. u[1].collcount = 0
    BY <1>1, NothingType
  <2>3. Good(1)
    <3> HIDE DEF To
    <3> QED
      BY <2>1, <2>2, FS_EmptySet
  <2> HIDE DEF Good
  <2> QED
    BY <2>3
<1>3. ASSUME NEW j \in T PROVE j + 1 \in T
  <2>1. j \in Nat /\ (j + 1) + 1 = j + 2 /\ (j + 2) - 1 = j + 1
    OBVIOUS
  <2>2. ASSUME j + 2 <= n PROVE Good(j + 2)
    <3>1. j + 2 \in 2 .. n /\ j + 1 \in 1 .. n /\ Good(j + 1)
      BY <2>1, <2>2
    <3>2. u[j + 1] \in Collections(1 .. n) /\ u[j + 2] = CollectedAt(u[j + 1], s, idxs, hits, w, j + 2)
      BY <1>1, <2>1, <3>1
    <3> DEFINE k == j + 2
               f == u[j + 1]
    <3>3. k \in 2 .. n /\ f \in Collections(1 .. n)
      BY <3>1, <3>2
    <3> HIDE DEF k, f
    <3>4. CollectedAt(f, s, idxs, hits, w, k).collcount
              = f.collcount + (IF k \in hits THEN 1 ELSE 0)
      BY <3>3, CollectedTypes
    <3>5. u[j + 2].collcount = u[j + 1].collcount + (IF j + 2 \in hits THEN 1 ELSE 0)
      BY <3>2, <3>4 DEF k, f
    <3>0. 2 .. j + 2 = (2 .. j + 1) \cup {j + 2} /\ j + 2 \notin 2 .. j + 1
      BY ONLY <2>1
    <3>6. CASE j + 2 \in hits
      <4>1. To(j + 2) = To(j + 1) \cup {j + 2} /\ j + 2 \notin To(j + 1)
        BY ONLY <3>0, <3>6
      <4> HIDE DEF To
      <4>2. /\ IsFiniteSet(To(j + 2)) /\ Cardinality(To(j + 1)) \in Nat
            /\ Cardinality(To(j + 2)) = Cardinality(To(j + 1)) + 1
        BY <3>1, <4>1, OneMore
      <4> QED
        BY <3>1, <3>5, <3>6, <4>2
    <3>7. CASE j + 2 \notin hits
      <4>1. To(j + 2) = To(j + 1)
        BY ONLY <3>0, <3>7
      <4> HIDE DEF To
      <4>2. Cardinality(To(j + 1)) \in Nat
        BY <3>1, FS_CardinalityType
      <4> QED
        BY <3>1, <3>5, <3>7, <4>1, <4>2
    <3> QED
      BY <3>6, <3>7
  <2> HIDE DEF Good
  <2> QED
    BY <2>1, <2>2
<1>4. T = Nat
  <2>1. T \in SUBSET Nat
    OBVIOUS
  <2> HIDE DEF T
  <2> QED
    BY <1>2, <1>3, <2>1, AllNaturals
<1>5. Good(n)
  <2>1. n - 1 \in Nat /\ (n - 1) + 1 = n
    OBVIOUS
  <2> HIDE DEF T, Good
  <2>2. n - 1 \in T
    BY <1>4, <2>1
  <2> QED
    BY <2>1, <2>2 DEF T
<1> QED
  BY <1>1, <1>5

-----------------------------------------------------------------------------
(* The invariant: the lists, and what has been counted of them.            *)

OrderOf(s, idxs, src, st) ==
  \E p \in Arrangements(Len(src)) :
    s = At(src, p) /\ idxs = IF st.diagrams THEN p ELSE <<>>

GivenRev == Reversed(given)

TalliedAll(src, counts, min, max, thresh) ==
  \A w \in min .. max : Tallied(src, w, counts[w], thresh)

ListInv ==
  /\ given \in Lists /\ set \in Settings
  /\ part \in {"find", "high", "countHigh", "low", "countLow", "report"}
  /\ part = "find" => hashes_fwd = given
  /\ part # "find" /\ (set.diagrams \/ part # "countLow") =>
       OrderOf(hashes_fwd, hashidxs_fwd, given, set)
  /\ part \in {"high", "countHigh", "low"} \/ (part # "find" /\ set.diagrams) =>
       Sorted(hashes_fwd)
  /\ part \in {"countHigh", "countLow"} => maxBits > 0
  /\ part = "countLow" \/ (part = "report" /\ set.diagrams /\ set.low /\ maxBits > 0) =>
       OrderOf(hashes_rev, hashidxs_rev, GivenRev, set) /\ Sorted(hashes_rev)

(* The pass that is being made over s, or has been.                        *)
CountsOf(s) ==
  /\ counted = s
  /\ minHBits = minBits /\ maxHBits = maxBits /\ threshHBits = threshBits
  /\ done => TalliedAll(counted, collcounts, minHBits, maxHBits, threshHBits)

PassInv ==
  /\ done \in BOOLEAN
  /\ IF done THEN ~(next <= Len(counted)) ELSE Passing
  /\ part = "countHigh" => CountsOf(hashes_fwd)
  /\ part = "countLow" => CountsOf(hashes_rev)

TallyInv ==
  /\ part \in {"low", "countLow", "report"} /\ set.high /\ maxBits > 0 =>
       TalliedAll(given, collcounts_fwd, minBits, maxBits, threshBits)
  /\ part = "report" /\ set.low /\ maxBits > 0 =>
       TalliedAll(GivenRev, collcounts_rev, minBits, maxBits, threshBits)
  /\ reported \in Nat
  /\ part # "find" /\ reported = 0 =>
       found.collcount = Len(given) - Cardinality(ValuesOf(Prefixes(given, bitlen), Len(given)))

AnalysisInv == ListInv /\ PassInv /\ TallyInv

LEMMA GivenList ==
  ASSUME given \in Lists
  PROVE  /\ given \in Seq(Hash) /\ Len(given) \in Nat /\ Len(given) > 0
         /\ GivenRev \in Seq(Hash) /\ Len(GivenRev) = Len(given)
         /\ Reversed(GivenRev) = given
         /\ \A k \in 1 .. Len(given) : GivenRev[k] = reversebits(given[k])
<1>1. given \in Seq(Hash) /\ given # <<>>
  BY InputsAssumption DEF Inputs
<1>2. Len(given) \in Nat /\ Len(given) > 0
  BY <1>1
<1> QED
  BY <1>1, <1>2, ReversedList DEF GivenRev

LEMMA FoundCounts ==
  ASSUME NEW s \in Seq(Hash), NEW n \in Nat, n = Len(s), n > 0, Sorted(s),
         NEW idxs, idxs = <<>> \/ idxs \in [1 .. n -> 1 .. n]
  PROVE  FindCollisions(s, idxs).collcount
           = n - Cardinality(ValuesOf(Prefixes(s, bitlen), n))
<1> DEFINE hits == {k \in 2 .. Len(s) : s[k] = s[k - 1]}
           c == Prefixes(s, bitlen)
<1>1. FindCollisions(s, idxs) = Collected(s, idxs, hits, bitlen)
  BY DEF FindCollisions
<1>2. {k \in 2 .. n : k \in hits} = Repeats(c, n)
  <2>1. \A k \in 1 .. n : c[k] = s[k]
    <3> SUFFICES ASSUME NEW k \in 1 .. n PROVE c[k] = s[k]
      OBVIOUS
    <3>1. s[k] \in Hash /\ bitlen \in Int
      BY BitLen
    <3>2. Masked(s[k], bitlen) = s[k]
      BY <3>1, MaskedWhole
    <3> QED
      BY <3>2 DEF Prefixes
  <2>2. \A k \in 2 .. n : k \in 1 .. n /\ k - 1 \in 1 .. n
    OBVIOUS
  <2> HIDE DEF c
  <2> QED
    BY <2>1, <2>2 DEF Repeats
<1> HIDE DEF hits
<1>3. Collected(s, idxs, hits, bitlen).collcount = Cardinality({k \in 2 .. n : k \in hits})
  BY CollectedCounts
<1>4. Gathered(c, n)
  BY BitLen, KeysGathered
<1> HIDE DEF c
<1>5. Cardinality(Repeats(c, n)) = n - Cardinality(ValuesOf(c, n))
  BY <1>4, ValuesCounted
<1> QED
  BY <1>1, <1>2, <1>3, <1>5 DEF c

LEMMA SameSet ==
  ASSUME UNCHANGED <<given, set>>
  PROVE  /\ minBits' = minBits /\ maxBits' = maxBits /\ threshBits' = threshBits
         /\ GivenRev' = GivenRev
BY DEF minBits, maxBits, threshBits, combinedBits, nbBitsvec, TestedBits, GivenRev

(* A list in another order is one.                                         *)
LEMMA OrderTypes ==
  ASSUME NEW src \in Seq(Hash), NEW n \in Nat, n = Len(src), NEW s, NEW idxs,
         NEW st, OrderOf(s, idxs, src, st)
  PROVE  /\ s \in Seq(Hash) /\ Len(s) = n
         /\ idxs = <<>> \/ idxs \in [1 .. n -> 1 .. n]
         /\ \A w \in Int :
              /\ \A x, thresh : Tallied(s, w, x, thresh) <=> Tallied(src, w, x, thresh)
              /\ ValuesOf(Prefixes(s, w), n) = ValuesOf(Prefixes(src, w), n)
<1>1. PICK p \in Arrangements(n) : s = At(src, p) /\ idxs = IF st.diagrams THEN p ELSE <<>>
  BY DEF OrderOf
<1>2. s \in Seq(Hash) /\ Len(s) = n
  BY <1>1, AtHashes
<1>3. ASSUME NEW w \in Int
      PROVE  /\ \A x, thresh : Tallied(s, w, x, thresh) <=> Tallied(src, w, x, thresh)
             /\ ValuesOf(Prefixes(s, w), n) = ValuesOf(Prefixes(src, w), n)
  BY <1>1, TalliedAt
<1>4. idxs = <<>> \/ idxs \in [1 .. n -> 1 .. n]
  BY <1>1 DEF Arrangements
<1> QED
  BY <1>2, <1>3, <1>4

LEMMA OrderSorted ==
  ASSUME NEW s \in Seq(Hash), NEW n \in Nat, n = Len(s),
         NEW p, p = SortedPlaces(s),
         NEW st, NEW idxs, idxs = IF st.diagrams THEN p ELSE <<>>
  PROVE  OrderOf(At(s, p), idxs, s, st) /\ Sorted(At(s, p)) /\ p \in Arrangements(n)
BY Sorting DEF OrderOf

LEMMA AnalysisInit == CollisionsInit => AnalysisInv
<1> SUFFICES ASSUME CollisionsInit PROVE AnalysisInv
  OBVIOUS
<1>1. /\ given \in Lists /\ set \in Settings /\ hashes_fwd = given /\ part = "find"
      /\ reported = 0 /\ next = 2 /\ counted = <<>> /\ done = TRUE
  BY DEF CollisionsInit, R!Init
<1>2. Len(counted) = 0
  BY <1>1
<1>3. ListInv
  BY <1>1 DEF ListInv
<1>4. PassInv
  BY <1>1, <1>2 DEF PassInv
<1>5. TallyInv
  BY <1>1 DEF TallyInv
<1> QED
  BY <1>3, <1>4, <1>5 DEF AnalysisInv

LEMMA FindStep ==
  ASSUME AnalysisInv, Find
  PROVE  AnalysisInv'
<1> DEFINE p == SortedPlaces(given)
           n == Len(given)
<1>1. /\ hashes_fwd = given /\ part = "find" /\ part' = "high"
      /\ hashes_fwd' = At(given, p) /\ hashidxs_fwd' = IF set.diagrams THEN p ELSE <<>>
      /\ found' = FindCollisions(hashes_fwd', hashidxs_fwd')
      /\ UNCHANGED <<given, set, pass, reported>>
  BY DEF Find, AnalysisInv, ListInv, reports
<1>2. UNCHANGED <<counted, minHBits, maxHBits, threshHBits, next, collcounts, prevcoll, maxcoll, done>>
  BY <1>1 DEF pass
<1>3. /\ given \in Seq(Hash) /\ n \in Nat /\ n > 0
  <2>1. given \in Lists
    BY DEF AnalysisInv, ListInv
  <2> QED
    BY <2>1, GivenList
<1>4. /\ OrderOf(hashes_fwd', hashidxs_fwd', given, set) /\ Sorted(hashes_fwd')
  <2> HIDE DEF n
  <2>1. n = Len(given)
    BY DEF n
  <2> DEFINE idxs == IF set.diagrams THEN p ELSE <<>>
  <2> HIDE DEF idxs, p
  <2>2. p = SortedPlaces(given) /\ idxs = IF set.diagrams THEN p ELSE <<>>
    BY DEF p, idxs
  <2>3. OrderOf(At(given, p), idxs, given, set) /\ Sorted(At(given, p))
    BY <1>3, <2>1, <2>2, OrderSorted
  <2> QED
    BY <1>1, <2>2, <2>3
<1>5. found'.collcount = n - Cardinality(ValuesOf(Prefixes(given, bitlen), n))
  <2> DEFINE s == hashes_fwd'
             idxs == hashidxs_fwd'
  <2>1. OrderOf(s, idxs, given, set) /\ Sorted(s)
    BY <1>4
  <2>2. found' = FindCollisions(s, idxs)
    BY <1>1
  <2> HIDE DEF s, idxs
  <2>3. /\ s \in Seq(Hash) /\ Len(s) = n
        /\ idxs = <<>> \/ idxs \in [1 .. n -> 1 .. n]
        /\ ValuesOf(Prefixes(s, bitlen), n) = ValuesOf(Prefixes(given, bitlen), n)
    BY <1>3, <2>1, OrderTypes, BitLen, bitlen \in Int
  <2> HIDE DEF n
  <2>4. FindCollisions(s, idxs).collcount = n - Cardinality(ValuesOf(Prefixes(s, bitlen), n))
    BY <1>3, <2>1, <2>3, FoundCounts
  <2> QED
    BY <2>2, <2>3, <2>4
<1> HIDE DEF p
<1>6. ListInv'
  BY <1>1, <1>4 DEF AnalysisInv, ListInv
<1>7. PassInv'
  BY <1>1, <1>2 DEF AnalysisInv, PassInv, Passing, R!MaxWidths, R!calcmax
<1>8. TallyInv'
  BY <1>1, <1>5 DEF AnalysisInv, TallyInv
<1> QED
  BY <1>6, <1>7, <1>8 DEF AnalysisInv

(* The pass over a list, once it is called, is of that list.               *)
LEMMA PassCalled ==
  ASSUME set \in Settings, UNCHANGED <<given, set>>, maxBits > 0,
         NEW s \in Seq(Hash), Len(s) > 0, Sorted(s),
         R!CountRangedNbCollisions(s, minBits, maxBits, threshBits)
  PROVE  /\ Passing' /\ ~done' /\ counted' = s
         /\ minHBits' = minBits /\ maxHBits' = maxBits /\ threshHBits' = threshBits
<1> DEFINE min == minBits
           max == maxBits
           thresh == threshBits
<1>1. /\ min \in Nat /\ max \in Nat /\ thresh \in Nat
      /\ min <= max /\ max <= bitlen /\ thresh <= max
  BY WidthBounds
<1>2. R!CountRangedNbCollisions(s, min, max, thresh)
  OBVIOUS
<1> HIDE DEF min, max, thresh
<1>3. Passing' /\ ~done'
  BY <1>1, <1>2, PassStarts
<1>4. counted' = s /\ minHBits' = min /\ maxHBits' = max /\ threshHBits' = thresh
  BY <1>2 DEF R!CountRangedNbCollisions
<1> QED
  BY <1>3, <1>4 DEF min, max, thresh

LEMMA CountHighStep ==
  ASSUME AnalysisInv, CountHigh
  PROVE  AnalysisInv'
<1>1. /\ part = "high" /\ UNCHANGED <<given, set, hashes_fwd, hashidxs_fwd, hashes_rev, hashidxs_rev>>
      /\ UNCHANGED <<collcounts_fwd, collcounts_rev, reported, found>>
      /\ IF set.high /\ maxBits > 0
         THEN /\ R!CountRangedNbCollisions(hashes_fwd, minBits, maxBits, threshBits)
              /\ part' = "countHigh"
         ELSE UNCHANGED pass /\ part' = "low"
  BY DEF CountHigh, list, tallies, reports
<1>2. UNCHANGED <<minBits, maxBits, threshBits, GivenRev>>
  BY <1>1, SameSet
<1>3. /\ given \in Lists /\ set \in Settings /\ Sorted(hashes_fwd)
      /\ OrderOf(hashes_fwd, hashidxs_fwd, given, set)
  BY <1>1 DEF AnalysisInv, ListInv
<1>4. hashes_fwd \in Seq(Hash) /\ Len(hashes_fwd) > 0
  <2>1. given \in Seq(Hash) /\ Len(given) > 0 /\ Len(given) \in Nat
    BY <1>3, GivenList
  <2> QED
    BY <1>3, <2>1, OrderTypes
<1>5. CASE set.high /\ maxBits > 0
  <2>1. /\ Passing' /\ ~done' /\ counted' = hashes_fwd
        /\ minHBits' = minBits /\ maxHBits' = maxBits /\ threshHBits' = threshBits
    BY <1>1, <1>3, <1>4, <1>5, PassCalled
  <2>2. part' = "countHigh" /\ maxBits > 0
    BY <1>1, <1>5
  <2>3. ListInv'
    BY <1>1, <1>2, <1>3, <2>2 DEF AnalysisInv, ListInv
  <2>4. done' = FALSE
    BY <1>1, <1>5 DEF R!CountRangedNbCollisions
  <2>5. PassInv'
    BY <1>1, <1>2, <2>1, <2>2, <2>4 DEF PassInv, CountsOf
  <2>6. TallyInv'
    BY <1>1, <1>2, <2>2 DEF AnalysisInv, TallyInv
  <2> QED
    BY <2>3, <2>5, <2>6 DEF AnalysisInv
<1>6. CASE ~(set.high /\ maxBits > 0)
  <2>1. part' = "low" /\ UNCHANGED pass
    BY <1>1, <1>6
  <2>2. ListInv'
    BY <1>1, <1>2, <1>3, <2>1 DEF AnalysisInv, ListInv
  <2>3. PassInv'
    BY <2>1 DEF AnalysisInv, PassInv, Passing, R!MaxWidths, R!calcmax, pass
  <2>4. TallyInv'
    BY <1>1, <1>2, <1>6, <2>1 DEF AnalysisInv, TallyInv
  <2> QED
    BY <2>2, <2>3, <2>4 DEF AnalysisInv
<1> QED
  BY <1>5, <1>6

LEMMA HighCountedStep ==
  ASSUME AnalysisInv, HighCounted
  PROVE  AnalysisInv'
<1>1. /\ part = "countHigh" /\ part' = "low" /\ done /\ collcounts_fwd' = collcounts
      /\ UNCHANGED <<given, set, hashes_fwd, hashidxs_fwd, hashes_rev, hashidxs_rev>>
      /\ UNCHANGED <<pass, collcounts_rev, reported, found>>
  BY DEF HighCounted, list, reports
<1>2. UNCHANGED <<minBits, maxBits, threshBits, GivenRev>>
  BY <1>1, SameSet
<1>3. /\ given \in Lists /\ set \in Settings /\ Sorted(hashes_fwd)
      /\ OrderOf(hashes_fwd, hashidxs_fwd, given, set)
  BY <1>1 DEF AnalysisInv, ListInv
<1>4. TalliedAll(hashes_fwd, collcounts, minBits, maxBits, threshBits)
  BY <1>1 DEF AnalysisInv, PassInv, CountsOf
<1>5. TalliedAll(given, collcounts, minBits, maxBits, threshBits)
  <2>1. given \in Seq(Hash) /\ Len(given) \in Nat
    BY <1>3, GivenList
  <2>2. \A w \in Int : \A x, thresh :
          Tallied(hashes_fwd, w, x, thresh) <=> Tallied(given, w, x, thresh)
    BY <1>3, <2>1, OrderTypes
  <2>3. \A w \in minBits .. maxBits : w \in Int
    OBVIOUS
  <2> QED
    BY <1>4, <2>2, <2>3 DEF TalliedAll
<1>6. ListInv'
  BY <1>1, <1>2, <1>3 DEF AnalysisInv, ListInv
<1>7. PassInv'
  BY <1>1 DEF AnalysisInv, PassInv, Passing, R!MaxWidths, R!calcmax, pass
<1>8. TallyInv'
  BY <1>1, <1>2, <1>5 DEF AnalysisInv, TallyInv
<1> QED
  BY <1>6, <1>7, <1>8 DEF AnalysisInv

LEMMA OrderReversed ==
  ASSUME NEW src \in Seq(Hash), NEW n \in Nat, n = Len(src), NEW s, NEW idxs,
         NEW st, OrderOf(s, idxs, src, st)
  PROVE  OrderOf(Reversed(s), idxs, Reversed(src), st)
<1>1. PICK p \in Arrangements(n) : s = At(src, p) /\ idxs = IF st.diagrams THEN p ELSE <<>>
  BY DEF OrderOf
<1>2. Reversed(At(src, p)) = At(Reversed(src), p)
  BY ReversedAt
<1>3. Len(Reversed(src)) = n
  BY ReversedList
<1> QED
  BY <1>1, <1>2, <1>3 DEF OrderOf

(* Sorting a list in another order gives another order.                    *)
LEMMA OrderAgain ==
  ASSUME NEW src \in Seq(Hash), NEW n \in Nat, n = Len(src), NEW s, NEW idxs,
         NEW st, OrderOf(s, idxs, src, st),
         NEW q, q = SortedPlaces(s),
         NEW sorted, sorted = IF st.diagrams THEN At(idxs, q) ELSE idxs
  PROVE  OrderOf(At(s, q), sorted, src, st) /\ Sorted(At(s, q))
<1>1. PICK p \in Arrangements(n) : s = At(src, p) /\ idxs = IF st.diagrams THEN p ELSE <<>>
  BY DEF OrderOf
<1>2. s \in Seq(Hash) /\ Len(s) = n
  BY OrderTypes
<1>3. q \in Arrangements(n) /\ Sorted(At(s, q))
  BY <1>2, Sorting
<1>4. At(p, q) \in Arrangements(n) /\ At(s, q) = At(src, At(p, q))
  BY <1>1, <1>3, Arranged, AtTwice
<1>5. sorted = IF st.diagrams THEN At(p, q) ELSE <<>>
  BY <1>1
<1> QED
  BY <1>3, <1>4, <1>5 DEF OrderOf

LEMMA CountLowStep ==
  ASSUME AnalysisInv, CountLow
  PROVE  AnalysisInv'
<1> DEFINE rev == Reversed(hashes_fwd)
           q == SortedPlaces(rev)
           n == Len(given)
<1>1. /\ part = "low" /\ UNCHANGED <<given, set, hashidxs_fwd>>
      /\ UNCHANGED <<collcounts_fwd, collcounts_rev, reported, found>>
      /\ IF set.low /\ maxBits > 0
         THEN /\ hashes_rev' = At(rev, q)
              /\ hashidxs_rev' = IF set.diagrams THEN At(hashidxs_fwd, q) ELSE hashidxs_fwd
              /\ hashes_fwd' = IF set.diagrams THEN hashes_fwd ELSE <<>>
              /\ R!CountRangedNbCollisions(hashes_rev', minBits, maxBits, threshBits)
              /\ part' = "countLow"
         ELSE UNCHANGED <<hashes_rev, hashidxs_rev, hashes_fwd, pass>> /\ part' = "report"
  BY DEF CountLow, tallies, reports
<1>2. UNCHANGED <<minBits, maxBits, threshBits, GivenRev>>
  BY <1>1, SameSet
<1>3. /\ given \in Lists /\ set \in Settings /\ Sorted(hashes_fwd)
      /\ OrderOf(hashes_fwd, hashidxs_fwd, given, set)
  BY <1>1 DEF AnalysisInv, ListInv
<1>4. /\ given \in Seq(Hash) /\ n > 0 /\ n \in Nat
      /\ GivenRev \in Seq(Hash) /\ Len(GivenRev) = n
  BY <1>3, GivenList
<1>5. CASE set.low /\ maxBits > 0
  <2> HIDE DEF n
  <2>1. OrderOf(rev, hashidxs_fwd, GivenRev, set)
    BY <1>3, <1>4, OrderReversed DEF n, GivenRev
  <2> DEFINE s == hashes_rev'
             idxs == hashidxs_rev'
  <2> HIDE DEF rev
  <2>2. s = At(rev, q) /\ idxs = IF set.diagrams THEN At(hashidxs_fwd, q) ELSE hashidxs_fwd
    BY <1>1, <1>5
  <2> HIDE DEF q
  <2>3. q = SortedPlaces(rev)
    BY DEF q
  <2> HIDE DEF s, idxs
  <2>4. OrderOf(s, idxs, GivenRev, set) /\ Sorted(s)
    BY <1>4, <2>1, <2>2, <2>3, OrderAgain
  <2>5. s \in Seq(Hash) /\ Len(s) = n
    BY <1>4, <2>4, OrderTypes
  <2>6. R!CountRangedNbCollisions(s, minBits, maxBits, threshBits)
    BY <1>1, <1>5 DEF s
  <2>7. /\ Passing' /\ ~done' /\ counted' = s
        /\ minHBits' = minBits /\ maxHBits' = maxBits /\ threshHBits' = threshBits
    BY <1>1, <1>3, <1>4, <1>5, <2>4, <2>5, <2>6, PassCalled
  <2>8. part' = "countLow" /\ hashes_fwd' = IF set.diagrams THEN hashes_fwd ELSE <<>>
    BY <1>1, <1>5
  <2>9. ListInv'
    <3>1. OrderOf(hashes_rev', hashidxs_rev', GivenRev, set) /\ Sorted(hashes_rev')
      BY <2>4 DEF s, idxs
    <3> QED
      BY <1>1, <1>2, <1>3, <1>5, <2>8, <3>1 DEF AnalysisInv, ListInv
  <2>10. done' = FALSE
    BY <2>6 DEF R!CountRangedNbCollisions
  <2>11. PassInv'
    BY <1>1, <1>2, <2>7, <2>8, <2>10 DEF PassInv, CountsOf, s
  <2>12. TallyInv'
    BY <1>1, <1>2, <2>8 DEF AnalysisInv, TallyInv
  <2> QED
    BY <2>9, <2>11, <2>12 DEF AnalysisInv
<1>6. CASE ~(set.low /\ maxBits > 0)
  <2>1. part' = "report" /\ UNCHANGED pass /\ UNCHANGED <<hashes_rev, hashidxs_rev, hashes_fwd>>
    BY <1>1, <1>6
  <2>2. ListInv'
    BY <1>1, <1>2, <1>3, <1>6, <2>1 DEF AnalysisInv, ListInv
  <2>3. PassInv'
    BY <2>1 DEF AnalysisInv, PassInv, Passing, R!MaxWidths, R!calcmax, pass
  <2>4. TallyInv'
    BY <1>1, <1>2, <1>6, <2>1 DEF AnalysisInv, TallyInv
  <2> QED
    BY <2>2, <2>3, <2>4 DEF AnalysisInv
<1> QED
  BY <1>5, <1>6

LEMMA LowCountedStep ==
  ASSUME AnalysisInv, LowCounted
  PROVE  AnalysisInv'
<1> DEFINE n == Len(given)
<1>1. /\ part = "countLow" /\ part' = "report" /\ done /\ collcounts_rev' = collcounts
      /\ IF set.diagrams
         THEN UNCHANGED <<hashes_fwd, hashidxs_fwd, hashes_rev, hashidxs_rev>>
         ELSE hashes_fwd' = Reversed(hashes_rev) /\ hashidxs_fwd' = hashidxs_rev
      /\ UNCHANGED <<given, set, pass, collcounts_fwd, reported, found>>
  BY DEF LowCounted, list, reports
<1>2. UNCHANGED <<minBits, maxBits, threshBits, GivenRev>>
  BY <1>1, SameSet
<1>3. /\ given \in Lists /\ set \in Settings
      /\ OrderOf(hashes_rev, hashidxs_rev, GivenRev, set) /\ Sorted(hashes_rev)
      /\ set.diagrams => Sorted(hashes_fwd) /\ OrderOf(hashes_fwd, hashidxs_fwd, given, set)
  BY <1>1 DEF AnalysisInv, ListInv
<1>4. /\ given \in Seq(Hash) /\ n > 0 /\ n \in Nat
      /\ GivenRev \in Seq(Hash) /\ Len(GivenRev) = n /\ Reversed(GivenRev) = given
  BY <1>3, GivenList
<1>5. TalliedAll(hashes_rev, collcounts, minBits, maxBits, threshBits)
  BY <1>1 DEF AnalysisInv, PassInv, CountsOf
<1>6. TalliedAll(GivenRev, collcounts, minBits, maxBits, threshBits)
  <2>1. \A w \in Int : \A x, thresh :
          Tallied(hashes_rev, w, x, thresh) <=> Tallied(GivenRev, w, x, thresh)
    BY <1>3, <1>4, OrderTypes
  <2>2. \A w \in minBits .. maxBits : w \in Int
    OBVIOUS
  <2> QED
    BY <1>5, <2>1, <2>2 DEF TalliedAll
<1>7. /\ OrderOf(hashes_fwd', hashidxs_fwd', given, set)
      /\ set.diagrams => Sorted(hashes_fwd') /\ hashes_rev' = hashes_rev /\ hashidxs_rev' = hashidxs_rev
  <2>1. CASE set.diagrams
    BY <1>1, <1>3, <2>1
  <2>2. CASE ~set.diagrams
    <3> HIDE DEF n
    <3>1. OrderOf(Reversed(hashes_rev), hashidxs_rev, Reversed(GivenRev), set)
      BY <1>3, <1>4, OrderReversed
    <3> QED
      BY <1>1, <1>4, <2>2, <3>1
  <2> QED
    BY <2>1, <2>2
<1>8. ListInv'
  BY <1>1, <1>2, <1>3, <1>7 DEF AnalysisInv, ListInv
<1>9. PassInv'
  BY <1>1 DEF AnalysisInv, PassInv, Passing, R!MaxWidths, R!calcmax, pass
<1>10. TallyInv'
  BY <1>1, <1>2, <1>6 DEF AnalysisInv, TallyInv
<1> QED
  BY <1>8, <1>9, <1>10 DEF AnalysisInv

LEMMA PassStep ==
  ASSUME AnalysisInv, Pass
  PROVE  AnalysisInv'
<1>1. /\ R!Pass /\ UNCHANGED <<given, set, part, hashes_fwd, hashidxs_fwd, hashes_rev, hashidxs_rev>>
      /\ UNCHANGED <<collcounts_fwd, collcounts_rev, reported, found>>
  BY DEF Pass, list, tallies, reports
<1>2. UNCHANGED <<minBits, maxBits, threshBits, GivenRev>>
  BY <1>1, SameSet
<1>3. ListInv' /\ TallyInv'
  BY <1>1, <1>2 DEF AnalysisInv, ListInv, TallyInv
<1>4. PassInv'
  <2>1. /\ done \in BOOLEAN /\ IF done THEN ~(next <= Len(counted)) ELSE Passing
        /\ part = "countHigh" => CountsOf(hashes_fwd)
        /\ part = "countLow" => CountsOf(hashes_rev)
    BY DEF AnalysisInv, PassInv
  <2>2. CASE R!Compare
    <3>1. UNCHANGED <<counted, minHBits, maxHBits, threshHBits, done>> /\ next <= Len(counted)
      BY <2>2 DEF R!Compare, R!args, R!nbH
    <3>2. ~done
      BY <2>1, <3>1
    <3>3. Passing'
      BY <2>1, <2>2, <3>2, PassCompares
    <3>4. done' = done
      BY <3>1
    <3> QED
      BY <1>1, <1>2, <2>1, <3>1, <3>2, <3>3, <3>4 DEF PassInv, CountsOf
  <2>3. CASE R!Finish
    <3>1. ~done
      BY <2>3 DEF R!Finish
    <3>2. /\ done' /\ ~(next' <= Len(counted'))
          /\ UNCHANGED <<counted, minHBits, maxHBits, threshHBits>>
          /\ \A w \in minHBits .. maxHBits : Tallied(counted, w, collcounts'[w], threshHBits)
      BY <2>1, <2>3, <3>1, PassFinishes
    <3>3. done' = TRUE
      BY <2>3 DEF R!Finish
    <3>4. TalliedAll(counted', collcounts', minHBits', maxHBits', threshHBits')
      BY <3>2 DEF TalliedAll
    <3> QED
      BY <1>1, <1>2, <2>1, <3>2, <3>3, <3>4 DEF PassInv, CountsOf
  <2> QED
    BY <1>1, <2>2, <2>3 DEF R!Pass
<1> QED
  BY <1>3, <1>4 DEF AnalysisInv

LEMMA ReportStep ==
  ASSUME AnalysisInv, Report
  PROVE  AnalysisInv'
<1>1. /\ part = "report" /\ reported' = reported + 1
      /\ UNCHANGED <<given, set, part, hashes_fwd, hashidxs_fwd, hashes_rev, hashidxs_rev>>
      /\ UNCHANGED <<pass, collcounts_fwd, collcounts_rev>>
  BY DEF Report, list, tallies
<1>2. UNCHANGED <<minBits, maxBits, threshBits, GivenRev>>
  BY <1>1, SameSet
<1>3. reported \in Nat /\ reported' \in Nat /\ reported' # 0
  BY <1>1 DEF AnalysisInv, TallyInv
<1>4. ListInv'
  BY <1>1, <1>2 DEF AnalysisInv, ListInv
<1>5. PassInv'
  BY <1>1 DEF AnalysisInv, PassInv, Passing, R!MaxWidths, R!calcmax, pass
<1>6. TallyInv'
  BY <1>1, <1>2, <1>3 DEF AnalysisInv, TallyInv
<1> QED
  BY <1>4, <1>5, <1>6 DEF AnalysisInv

LEMMA AnalysisStep == AnalysisInv /\ [CollisionsNext]_collisionsVars => AnalysisInv'
<1> SUFFICES ASSUME AnalysisInv, [CollisionsNext]_collisionsVars PROVE AnalysisInv'
  OBVIOUS
<1>1. CASE UNCHANGED collisionsVars
  <2>1. /\ UNCHANGED <<given, set, part, hashes_fwd, hashidxs_fwd, hashes_rev, hashidxs_rev>>
        /\ UNCHANGED <<pass, collcounts_fwd, collcounts_rev, reported, found>>
    BY <1>1 DEF collisionsVars, list, tallies, reports
  <2>2. UNCHANGED <<minBits, maxBits, threshBits, GivenRev>>
    BY <2>1, SameSet
  <2>3. ListInv' /\ TallyInv'
    BY <2>1, <2>2 DEF AnalysisInv, ListInv, TallyInv
  <2>4. PassInv'
    BY <2>1, <2>2 DEF AnalysisInv, PassInv, CountsOf, Passing, R!MaxWidths, R!calcmax, pass
  <2> QED
    BY <2>3, <2>4 DEF AnalysisInv
<1>2. CASE CollisionsNext
  BY <1>2, FindStep, CountHighStep, HighCountedStep, CountLowStep, LowCountedStep, PassStep,
     ReportStep DEF CollisionsNext
<1> QED
  BY <1>1, <1>2

-----------------------------------------------------------------------------
(* What is left of the list, and what is reported.                         *)

LEMMA Kept == AnalysisInv => ListKept
<1> SUFFICES ASSUME AnalysisInv, part = "report" PROVE
      /\ \A h \in Hash : Cardinality({k \in DOMAIN hashes_fwd : hashes_fwd[k] = h})
                             = Cardinality({k \in DOMAIN given : given[k] = h})
      /\ set.diagrams =>
           /\ \A k \in 1 .. Len(given) : given[hashidxs_fwd[k]] = hashes_fwd[k]
           /\ set.low /\ maxBits > 0 =>
                \A k \in 1 .. Len(given) : reversebits(given[hashidxs_rev[k]]) = hashes_rev[k]
  BY DEF ListKept
<1> DEFINE n == Len(given)
<1>1. /\ given \in Lists /\ OrderOf(hashes_fwd, hashidxs_fwd, given, set)
      /\ set.diagrams /\ set.low /\ maxBits > 0 =>
           OrderOf(hashes_rev, hashidxs_rev, GivenRev, set)
  BY DEF AnalysisInv, ListInv
<1>2. /\ given \in Seq(Hash) /\ n \in Nat /\ DOMAIN given = 1 .. n
      /\ GivenRev \in Seq(Hash) /\ Len(GivenRev) = n
      /\ \A k \in 1 .. n : GivenRev[k] = reversebits(given[k])
  BY <1>1, GivenList
<1>3. PICK p \in Arrangements(n) :
        hashes_fwd = At(given, p) /\ hashidxs_fwd = IF set.diagrams THEN p ELSE <<>>
  BY <1>1 DEF OrderOf
<1> HIDE DEF n
<1>4. /\ DOMAIN hashes_fwd = 1 .. n
      /\ \A k \in 1 .. n : hashes_fwd[k] = given[p[k]] /\ p[k] \in 1 .. n
  BY <1>2, <1>3, AtPlaces
<1>5. ASSUME NEW h \in Hash
      PROVE  Cardinality({k \in DOMAIN hashes_fwd : hashes_fwd[k] = h})
                             = Cardinality({k \in DOMAIN given : given[k] = h})
  <2> DEFINE K == {k \in 1 .. n : given[k] = h}
  <2>1. K \in SUBSET (1 .. n)
    OBVIOUS
  <2>2. {k \in 1 .. n : hashes_fwd[k] = h} = {k \in 1 .. n : p[k] \in K}
    BY <1>4
  <2> HIDE DEF K
  <2>3. Cardinality({k \in 1 .. n : p[k] \in K}) = Cardinality(K)
    BY <1>2, <2>1, SameCount
  <2>4. Cardinality({k \in 1 .. n : hashes_fwd[k] = h}) = Cardinality({k \in 1 .. n : given[k] = h})
    BY <2>2, <2>3 DEF K
  <2> QED
    BY <1>2, <1>4, <2>4
<1>6. set.diagrams => \A k \in 1 .. n : given[hashidxs_fwd[k]] = hashes_fwd[k]
  BY <1>3, <1>4
<1>7. ASSUME set.diagrams, set.low, maxBits > 0, NEW k \in 1 .. n
      PROVE  reversebits(given[hashidxs_rev[k]]) = hashes_rev[k]
  <2>1. PICK q \in Arrangements(n) : hashes_rev = At(GivenRev, q) /\ hashidxs_rev = q
    BY <1>1, <1>2, <1>7 DEF OrderOf
  <2>2. hashes_rev[k] = GivenRev[q[k]] /\ q[k] \in 1 .. n
    <3>1. At(GivenRev, q)[k] = GivenRev[q[k]] /\ q[k] \in 1 .. n
      BY <1>2, AtPlaces
    <3> QED
      BY <2>1, <3>1
  <2> QED
    BY <1>2, <2>1, <2>2
<1> QED
  BY <1>5, <1>6, <1>7 DEF n

(* In the words of the property: the hashes read from either end.          *)
LEMMA ReadKeys ==
  ASSUME given \in Lists, NEW w
  PROVE  /\ Shared(TRUE, w) = ValuesOf(Prefixes(given, w), Len(given))
         /\ \A v : Sharing(TRUE, w, v) = With(Prefixes(given, w), Len(given), v)
         /\ Shared(FALSE, w) = ValuesOf(Prefixes(GivenRev, w), Len(given))
         /\ \A v : Sharing(FALSE, w, v) = With(Prefixes(GivenRev, w), Len(given), v)
<1> DEFINE n == Len(given)
<1>1. /\ DOMAIN given = 1 .. n /\ Len(GivenRev) = n
      /\ \A k \in 1 .. n : GivenRev[k] = reversebits(given[k])
  BY GivenList
<1>2. \A k : Read(k, TRUE) = given[k] /\ Read(k, FALSE) = reversebits(given[k])
  BY DEF Read
<1>3. /\ \A k \in 1 .. n : Prefixes(given, w)[k] = Masked(Read(k, TRUE), w)
      /\ \A k \in 1 .. n : Prefixes(GivenRev, w)[k] = Masked(Read(k, FALSE), w)
  BY <1>1, <1>2 DEF Prefixes
<1> HIDE DEF n
<1>4. /\ Shared(TRUE, w) = {Masked(Read(k, TRUE), w) : k \in 1 .. n}
      /\ Shared(FALSE, w) = {Masked(Read(k, FALSE), w) : k \in 1 .. n}
  BY <1>1, Zenon DEF Shared
<1>5. ASSUME NEW v
      PROVE  /\ Sharing(TRUE, w, v) = {k \in 1 .. n : Masked(Read(k, TRUE), w) = v}
             /\ Sharing(FALSE, w, v) = {k \in 1 .. n : Masked(Read(k, FALSE), w) = v}
  BY <1>1, Zenon DEF Sharing
<1>6. /\ ValuesOf(Prefixes(given, w), n) = {Masked(Read(k, TRUE), w) : k \in 1 .. n}
      /\ ValuesOf(Prefixes(GivenRev, w), n) = {Masked(Read(k, FALSE), w) : k \in 1 .. n}
  BY <1>3, Zenon DEF ValuesOf
<1>7. ASSUME NEW v
      PROVE  /\ With(Prefixes(given, w), n, v) = {k \in 1 .. n : Masked(Read(k, TRUE), w) = v}
             /\ With(Prefixes(GivenRev, w), n, v) = {k \in 1 .. n : Masked(Read(k, FALSE), w) = v}
  BY <1>3, Zenon DEF With
<1> QED
  BY <1>4, <1>5, <1>6, <1>7, Zenon DEF n

LEMMA TalliedMeans ==
  ASSUME NEW src, NEW w, NEW thresh, NEW x, Tallied(src, w, x, thresh), Len(src) \in Nat
  PROVE  x = IF thresh # 0 /\ w <= thresh
             THEN Max({Cardinality(With(Prefixes(src, w), Len(src), v)) - 1 :
                           v \in ValuesOf(Prefixes(src, w), Len(src))})
             ELSE Len(src) - Cardinality(ValuesOf(Prefixes(src, w), Len(src)))
<1> DEFINE c == Prefixes(src, w)
           n == Len(src)
<1> HIDE DEF c, n
<1>1. CASE thresh # 0 /\ w <= thresh
  <2> DEFINE S == {Cardinality(With(c, n, v)) - 1 : v \in ValuesOf(c, n)}
  <2>1. Peak(c, n, x)
    BY <1>1 DEF Tallied, c, n
  <2>2. x \in S /\ \A y \in S : x >= y
    <3>1. n \in Nat
      BY DEF n
    <3>2. \A v : Cardinality(With(c, n, v)) \in Nat
      BY <3>1, WithFinite
    <3> QED
      BY <2>1, <3>2 DEF Peak
  <2>3. \A y \in S : y \in Int
    <3>1. n \in Nat
      BY DEF n
    <3>2. \A v : Cardinality(With(c, n, v)) \in Nat
      BY <3>1, WithFinite
    <3> QED
      BY <3>2
  <2>4. {Cardinality(With(c, n, v)) - 1 : v \in ValuesOf(c, n)} = S
    OBVIOUS
  <2> HIDE DEF S
  <2>5. Max(S) = x
    <3>1. Max(S) = CHOOSE z \in S : \A y \in S : z >= y
      BY DEF Max
    <3>2. Max(S) \in S /\ \A y \in S : Max(S) >= y
      BY <2>2, <3>1
    <3> QED
      BY <2>2, <2>3, <3>2
  <2> QED
    BY <1>1, <2>4, <2>5 DEF c, n
<1>2. CASE ~(thresh # 0 /\ w <= thresh)
  BY <1>2 DEF Tallied
<1> QED
  BY <1>1, <1>2

(* What a report on a width has.                                           *)
Right(high, w, x) ==
  x = IF w < set.nlognBits
      THEN Max({Cardinality(Sharing(high, w, v)) - 1 : v \in Shared(high, w)})
      ELSE Len(given) - Cardinality(Shared(high, w))

LEMMA TalliedRight ==
  ASSUME AnalysisInv, part = "report", NEW w \in combinedBits
  PROVE  /\ set.high => Right(TRUE, w, collcounts_fwd[w])
         /\ set.low => Right(FALSE, w, collcounts_rev[w])
<1>1. given \in Lists /\ set \in Settings
  BY DEF AnalysisInv, ListInv
<1>2. Len(given) \in Nat /\ Len(GivenRev) = Len(given)
  BY <1>1, GivenList
<1>3. /\ maxBits > 0 /\ w \in minBits .. maxBits
      /\ w < set.nlognBits <=> threshBits # 0 /\ w <= threshBits
  BY <1>1, WidthBounds
<1>4. ASSUME set.high PROVE Right(TRUE, w, collcounts_fwd[w])
  <2>1. Tallied(given, w, collcounts_fwd[w], threshBits)
    BY <1>3, <1>4 DEF AnalysisInv, TallyInv, TalliedAll
  <2>2. collcounts_fwd[w]
          = IF w < set.nlognBits
            THEN Max({Cardinality(With(Prefixes(given, w), Len(given), v)) - 1 :
                          v \in ValuesOf(Prefixes(given, w), Len(given))})
            ELSE Len(given) - Cardinality(ValuesOf(Prefixes(given, w), Len(given)))
    BY <1>2, <1>3, <2>1, TalliedMeans
  <2>3. /\ Shared(TRUE, w) = ValuesOf(Prefixes(given, w), Len(given))
        /\ \A v : Sharing(TRUE, w, v) = With(Prefixes(given, w), Len(given), v)
    BY <1>1, ReadKeys
  <2> QED
    BY <2>2, <2>3, Zenon DEF Right
<1>5. ASSUME set.low PROVE Right(FALSE, w, collcounts_rev[w])
  <2>1. Tallied(GivenRev, w, collcounts_rev[w], threshBits)
    BY <1>3, <1>5 DEF AnalysisInv, TallyInv, TalliedAll
  <2>2. collcounts_rev[w]
          = IF w < set.nlognBits
            THEN Max({Cardinality(With(Prefixes(GivenRev, w), Len(given), v)) - 1 :
                          v \in ValuesOf(Prefixes(GivenRev, w), Len(given))})
            ELSE Len(given) - Cardinality(ValuesOf(Prefixes(GivenRev, w), Len(given)))
    BY <1>2, <1>3, <2>1, TalliedMeans
  <2>3. /\ Shared(FALSE, w) = ValuesOf(Prefixes(GivenRev, w), Len(given))
        /\ \A v : Sharing(FALSE, w, v) = With(Prefixes(GivenRev, w), Len(given), v)
    BY <1>1, ReadKeys
  <2> QED
    BY <2>2, <2>3, Zenon DEF Right
<1> QED
  BY <1>4, <1>5

LEMMA ReportedFields ==
  ASSUME NEW r, NEW rep, rep = Reported(r)
  PROVE  /\ rep.bits = r.bits /\ rep.high = r.high
         /\ rep.maxcoll = (r.kind = "width" /\ set.maxcoll /\ r.bits \subseteq 0 .. threshBits)
         /\ rep.counts = IF r.kind = "all" THEN [v \in r.bits |-> found.collcount]
                         ELSE IF r.high THEN [v \in r.bits |-> collcounts_fwd[v]]
                         ELSE [v \in r.bits |-> collcounts_rev[v]]
<1> DEFINE mc == r.kind = "width" /\ set.maxcoll /\ r.bits \subseteq 0 .. threshBits
           cs == IF r.kind = "all" THEN [v \in r.bits |-> found.collcount]
                 ELSE IF r.high THEN [v \in r.bits |-> collcounts_fwd[v]]
                 ELSE [v \in r.bits |-> collcounts_rev[v]]
<1>1. rep = [bits |-> r.bits, high |-> r.high, maxcoll |-> mc, counts |-> cs]
  BY DEF Reported
<1> HIDE DEF mc, cs
<1>2. rep.bits = r.bits /\ rep.high = r.high /\ rep.maxcoll = mc /\ rep.counts = cs
  BY <1>1
<1> QED
  BY <1>2 DEF mc, cs

LEMMA ReportedRight ==
  ASSUME AnalysisInv, part = "report", reported < NbReports,
         NEW rep, rep = Reported(NextReport), NEW w \in rep.bits
  PROVE  (rep.maxcoll <=> w < set.nlognBits) /\ rep.maxcoll \in BOOLEAN
         /\ rep.high \in BOOLEAN /\ Right(rep.high, w, rep.counts[w])
<1> DEFINE r == NextReport
<1>1. /\ given \in Lists /\ set \in Settings /\ reported \in Nat
  BY DEF AnalysisInv, ListInv, TallyInv
<1>2. /\ set.vec \subseteq Nat \ {0} /\ set.minTBits \in Nat \ {0} /\ set.maxTBits \in Nat
      /\ set.nlognBits \in Nat /\ set.nlognBits <= set.minTBits /\ set.nlognBits <= bitlen
      /\ set.maxcoll \in BOOLEAN /\ bitlen \in Nat
      /\ set.maxcoll \/ \A v \in set.vec : v < bitlen => v >= set.nlognBits
  BY <1>1, InputsAssumption DEF Inputs
<1>3. \/ reported = 0 /\ r = [kind |-> "all", bits |-> {bitlen}, high |-> TRUE]
      \/ /\ reported > 0
         /\ \E high \in BOOLEAN :
              /\ (high /\ set.high) \/ (~high /\ set.low)
              /\ \/ \E v \in nbBitsvec :
                      r = [kind |-> "width", bits |-> {v}, high |-> high]
                 \/ r = [kind |-> "summary", bits |-> TestedBits, high |-> high]
  BY <1>1, NextReports
<1> HIDE DEF r
<1>4. rep = Reported(r)
  BY DEF r
<1>5. CASE reported = 0 /\ r = [kind |-> "all", bits |-> {bitlen}, high |-> TRUE]
  <2>1. rep = [bits |-> {bitlen}, high |-> TRUE, maxcoll |-> FALSE,
               counts |-> [v \in {bitlen} |-> found.collcount]]
    <3>1. /\ r.kind = "all" /\ r.bits = {bitlen} /\ r.high = TRUE
          /\ ~(r.kind = "width")
      BY <1>5
    <3> QED
      BY <1>4, <3>1, Zenon DEF Reported
  <2>2. w = bitlen /\ ~(w < set.nlognBits) /\ rep.counts[w] = found.collcount
    BY <1>2, <2>1
  <2>3. found.collcount = Len(given) - Cardinality(ValuesOf(Prefixes(given, bitlen), Len(given)))
    BY <1>5 DEF AnalysisInv, TallyInv
  <2>4. Shared(TRUE, w) = ValuesOf(Prefixes(given, w), Len(given))
    BY <1>1, ReadKeys
  <2>5. Right(TRUE, w, rep.counts[w])
    BY <2>2, <2>3, <2>4, Zenon DEF Right
  <2>6. rep.high = TRUE /\ rep.maxcoll = FALSE
    BY <2>1
  <2> QED
    BY <2>2, <2>5, <2>6, Zenon
<1>6. ASSUME NEW high \in BOOLEAN, (high /\ set.high) \/ (~high /\ set.low),
             r.high = high, r.kind # "all", w \in combinedBits
      PROVE  rep.high \in BOOLEAN /\ Right(rep.high, w, rep.counts[w])
  <2>1. /\ rep.bits = r.bits /\ rep.high = high
        /\ rep.counts = IF r.kind = "all" THEN [v \in r.bits |-> found.collcount]
                        ELSE IF high THEN [v \in r.bits |-> collcounts_fwd[v]]
                        ELSE [v \in r.bits |-> collcounts_rev[v]]
    <3>1. rep.bits = r.bits /\ rep.high = r.high
      BY <1>4, ReportedFields
    <3>2. rep.counts = IF r.kind = "all" THEN [v \in r.bits |-> found.collcount]
                       ELSE IF r.high THEN [v \in r.bits |-> collcounts_fwd[v]]
                       ELSE [v \in r.bits |-> collcounts_rev[v]]
      BY <1>4, ReportedFields, Zenon
    <3> QED
      BY <1>6, <3>1, <3>2, Zenon
  <2>2. w \in r.bits
    BY <2>1
  <2>3. CASE high = TRUE
    <3>1. rep.counts = [v \in r.bits |-> collcounts_fwd[v]]
      BY <1>6, <2>1, <2>3, Zenon
    <3>2. Right(TRUE, w, collcounts_fwd[w])
      BY <1>6, <2>3, TalliedRight
    <3>3. rep.counts[w] = collcounts_fwd[w]
      BY <2>2, <3>1
    <3> QED
      BY <2>1, <2>3, <3>2, <3>3, Zenon
  <2>4. CASE high = FALSE
    <3>1. rep.counts = [v \in r.bits |-> collcounts_rev[v]]
      BY <1>6, <2>1, <2>4, Zenon
    <3>2. Right(FALSE, w, collcounts_rev[w])
      BY <1>6, <2>4, TalliedRight
    <3>3. rep.counts[w] = collcounts_rev[w]
      BY <2>2, <3>1
    <3> QED
      BY <2>1, <2>4, <3>2, <3>3, Zenon
  <2> QED
    BY <1>6, <2>3, <2>4
<1>7. ASSUME NEW high \in BOOLEAN, (high /\ set.high) \/ (~high /\ set.low),
             NEW v \in nbBitsvec, r = [kind |-> "width", bits |-> {v}, high |-> high]
      PROVE  (rep.maxcoll <=> w < set.nlognBits) /\ rep.maxcoll \in BOOLEAN
             /\ rep.high \in BOOLEAN /\ Right(rep.high, w, rep.counts[w])
  <2>1. r.kind = "width" /\ r.bits = {v} /\ r.high = high /\ r.kind # "all"
    BY <1>7
  <2>2. /\ rep.bits = {v}
        /\ rep.maxcoll = (r.kind = "width" /\ set.maxcoll /\ r.bits \subseteq 0 .. threshBits)
    BY <1>4, <2>1, ReportedFields, Zenon
  <2>3. w = v
    BY <2>2
  <2>4. w \in combinedBits /\ w \in set.vec /\ w < bitlen
    BY <2>3 DEF combinedBits, nbBitsvec
  <2>5. w < set.nlognBits <=> w \in 0 .. threshBits
    BY <1>1, <2>4, WidthBounds
  <2>6. w < set.nlognBits => set.maxcoll
    <3>1. w \in Nat
      BY <1>2, <2>4
    <3> QED
      BY <1>2, <2>4, <3>1
  <2>7. (r.kind = "width" /\ set.maxcoll /\ r.bits \subseteq 0 .. threshBits)
          <=> w < set.nlognBits
    <3>1. r.bits \subseteq 0 .. threshBits <=> w \in 0 .. threshBits
      BY <2>1, <2>3
    <3> QED
      BY <2>1, <2>5, <2>6, <3>1, Zenon
  <2>8. (rep.maxcoll <=> w < set.nlognBits) /\ rep.maxcoll \in BOOLEAN
    BY <2>2, <2>7, Zenon
  <2>9. rep.high \in BOOLEAN /\ Right(rep.high, w, rep.counts[w])
    BY <1>6, <1>7, <2>1, <2>4, Zenon
  <2> QED
    BY <2>8, <2>9, Zenon
<1>8. ASSUME NEW high \in BOOLEAN, (high /\ set.high) \/ (~high /\ set.low),
             r = [kind |-> "summary", bits |-> TestedBits, high |-> high]
      PROVE  (rep.maxcoll <=> w < set.nlognBits) /\ rep.maxcoll \in BOOLEAN
             /\ rep.high \in BOOLEAN /\ Right(rep.high, w, rep.counts[w])
  <2>1. r.kind = "summary" /\ r.bits = TestedBits /\ r.high = high /\ r.kind # "all"
        /\ ~(r.kind = "width")
    BY <1>8
  <2>2. rep.bits = TestedBits /\ rep.maxcoll = FALSE
    BY <1>4, <2>1, ReportedFields, Zenon
  <2>3. w \in combinedBits /\ ~(w < set.nlognBits)
    <3>1. w \in set.minTBits .. set.maxTBits
      BY <2>2 DEF TestedBits
    <3> QED
      BY <1>2, <2>2, <3>1 DEF combinedBits
  <2>4. rep.high \in BOOLEAN /\ Right(rep.high, w, rep.counts[w])
    BY <1>6, <1>8, <2>1, <2>3, Zenon
  <2> QED
    BY <2>2, <2>3, <2>4, Zenon
<1> QED
  BY <1>3, <1>5, <1>7, <1>8, Zenon

(* The property, of a report rep on the hashes g with the settings st.     *)
ReadOf(g, k, high) == IF high THEN g[k] ELSE reversebits(g[k])
RightReport(g, st, rep) ==
  \A w \in rep.bits :
    /\ rep.maxcoll = (w < st.nlognBits)
    /\ rep.counts[w] =
         IF w < st.nlognBits
         THEN Max({Cardinality({k \in DOMAIN g : Masked(ReadOf(g, k, rep.high), w) = v}) - 1 :
                       v \in {Masked(ReadOf(g, k, rep.high), w) : k \in DOMAIN g}})
         ELSE Len(g) - Cardinality({Masked(ReadOf(g, k, rep.high), w) : k \in DOMAIN g})

LEMMA RightReports == ReportsRight <=> RightReport(given, set, report)
BY Zenon DEF ReportsRight, Sharing, Shared, Read, RightReport, ReadOf

LEMMA SameTruth ==
  ASSUME NEW a \in BOOLEAN, NEW w, NEW n, a <=> w < n
  PROVE  a = (w < n)
OBVIOUS

LEMMA ReportsStep ==
  ASSUME AnalysisInv, ReportsRight, [CollisionsNext]_collisionsVars
  PROVE  ReportsRight'
<1>1. CASE UNCHANGED <<given, set, report>>
  <2>1. RightReport(given, set, report)'
    BY <1>1, RightReports
  <2> QED
    BY <2>1, RightReports, PTL
<1>2. CASE Report
  <2>1. /\ part = "report" /\ reported < NbReports
        /\ report' = Reported(NextReport) /\ UNCHANGED <<given, set>>
    BY <1>2 DEF Report
  <2>2. ASSUME NEW rep, rep = Reported(NextReport), NEW w \in rep.bits
        PROVE  rep.maxcoll = (w < set.nlognBits) /\ Right(rep.high, w, rep.counts[w])
    <3>1. /\ (rep.maxcoll <=> w < set.nlognBits) /\ rep.maxcoll \in BOOLEAN
          /\ Right(rep.high, w, rep.counts[w])
      BY <2>1, <2>2, ReportedRight
    <3> DEFINE a == rep.maxcoll
               n == set.nlognBits
    <3> HIDE DEF a, n
    <3>2. a = (w < n)
      BY <3>1, SameTruth DEF a, n
    <3> QED
      BY <3>1, <3>2 DEF a, n
  <2>3. ASSUME NEW rep, rep = Reported(NextReport) PROVE RightReport(given, set, rep)
    <3>1. ASSUME NEW w \in rep.bits
          PROVE  /\ rep.maxcoll = (w < set.nlognBits)
                 /\ rep.counts[w] =
                      IF w < set.nlognBits
                      THEN Max({Cardinality({k \in DOMAIN given :
                                                   Masked(ReadOf(given, k, rep.high), w) = v}) - 1 :
                                    v \in {Masked(ReadOf(given, k, rep.high), w) : k \in DOMAIN given}})
                      ELSE Len(given) - Cardinality({Masked(ReadOf(given, k, rep.high), w) :
                                                         k \in DOMAIN given})
      <4>1. rep.maxcoll = (w < set.nlognBits) /\ Right(rep.high, w, rep.counts[w])
        BY <2>2, <2>3
      <4> QED
        BY ONLY <4>1, Zenon DEF ReadOf, Right, Sharing, Shared, Read
    <3> QED
      BY <3>1, Zenon DEF RightReport
  <2>4. RightReport(given, set, report)'
    BY <2>1, <2>3
  <2> QED
    BY <2>4, RightReports, PTL
<1>3. CASE UNCHANGED collisionsVars
  BY <1>1, <1>3 DEF collisionsVars, reports
<1>4. CASE CollisionsNext
  <2>1. CASE ~Report
    BY <1>1, <1>4, <2>1 DEF CollisionsNext, Find, CountHigh, HighCounted, CountLow, LowCounted,
       Pass, reports
  <2> QED
    BY <1>2, <2>1
<1> QED
  BY <1>3, <1>4

(***************************************************************************)
(* Whatever hashes TestCollisions() is given, in whatever order, and       *)
(* whatever is to be tested: what it leaves to the tests that follow is    *)
(* these hashes, and the indices of those that may be named name them.     *)
(***************************************************************************)
THEOREM ListIsKept == CollisionsSpec => []ListKept
<1>1. CollisionsInit => AnalysisInv
  BY AnalysisInit
<1>2. AnalysisInv /\ [CollisionsNext]_collisionsVars => AnalysisInv'
  BY AnalysisStep
<1>3. AnalysisInv => ListKept
  BY Kept
<1> QED
  BY <1>1, <1>2, <1>3, PTL DEF CollisionsSpec

(***************************************************************************)
(* Every report is of the right number: the sum or the largest of the      *)
(* collisions of the hashes given, in as many bits, from that end.         *)
(***************************************************************************)
THEOREM ReportsAreRight == CollisionsSpec => []ReportsRight
<1>1. CollisionsInit => AnalysisInv /\ ReportsRight
  <2>1. CollisionsInit => ReportsRight
    BY DEF CollisionsInit, ReportsRight
  <2> QED
    BY <2>1, AnalysisInit
<1>2. AnalysisInv /\ ReportsRight /\ [CollisionsNext]_collisionsVars => AnalysisInv' /\ ReportsRight'
  BY AnalysisStep, ReportsStep
<1> QED
  BY <1>1, <1>2, PTL DEF CollisionsSpec

-----------------------------------------------------------------------------
(* Keys c of which equal ones are next to each other, and finer keys d:    *)
(* the places of the first m that agree with the one before in c alone.    *)

Fresh(c, d, m) == {k \in 2 .. m : c[k] = c[k - 1] /\ d[k] # d[k - 1]}
FreshOf(c, d, m, v) == {k \in Fresh(c, d, m) : c[k] = v}
Collided(c, d, m) == {c[k] : k \in Fresh(c, d, m)}

LEMMA FreshFinite ==
  ASSUME NEW c, NEW d, NEW m \in Nat, NEW v
  PROVE  IsFiniteSet(FreshOf(c, d, m, v)) /\ Cardinality(FreshOf(c, d, m, v)) \in Nat
<1>1. FreshOf(c, d, m, v) \subseteq 1 .. m
  BY DEF FreshOf, Fresh
<1> QED
  BY <1>1, Interval, FiniteSubset

LEMMA FreshFirst ==
  ASSUME NEW c, NEW d
  PROVE  Fresh(c, d, 1) = {} /\ Collided(c, d, 1) = {} /\ \A v : FreshOf(c, d, 1, v) = {}
<1>1. 2 .. 1 = {}
  OBVIOUS
<1>2. Fresh(c, d, 1) = {}
  BY <1>1 DEF Fresh
<1> QED
  BY <1>2 DEF Collided, FreshOf

LEMMA FreshOn ==
  ASSUME NEW c, NEW d, NEW k \in Nat, k > 0, ~(c[k + 1] = c[k] /\ d[k + 1] # d[k])
  PROVE  /\ Fresh(c, d, k + 1) = Fresh(c, d, k) /\ Collided(c, d, k + 1) = Collided(c, d, k)
         /\ \A v : FreshOf(c, d, k + 1, v) = FreshOf(c, d, k, v)
<1>1. \A l \in 2 .. k + 1 : l \in 2 .. k \/ l = k + 1
  OBVIOUS
<1>2. (k + 1) - 1 = k /\ \A l \in 2 .. k : l \in 2 .. k + 1
  OBVIOUS
<1>3. Fresh(c, d, k + 1) = Fresh(c, d, k)
  BY <1>1, <1>2 DEF Fresh
<1> QED
  BY <1>3 DEF Collided, FreshOf

LEMMA FreshNext ==
  ASSUME NEW c, NEW d, NEW k \in Nat, k > 0, c[k + 1] = c[k], d[k + 1] # d[k]
  PROVE  LET v == c[k + 1] IN
         /\ Collided(c, d, k + 1) = Collided(c, d, k) \cup {v}
         /\ Cardinality(FreshOf(c, d, k + 1, v)) = Cardinality(FreshOf(c, d, k, v)) + 1
         /\ \A u : u # v => FreshOf(c, d, k + 1, u) = FreshOf(c, d, k, u)
<1> DEFINE v == c[k + 1]
<1>1. \A l \in 2 .. k + 1 : l \in 2 .. k \/ l = k + 1
  OBVIOUS
<1>2. /\ (k + 1) - 1 = k /\ k + 1 \in 2 .. k + 1 /\ k + 1 \notin 2 .. k
      /\ \A l \in 2 .. k : l \in 2 .. k + 1
  OBVIOUS
<1>3. Fresh(c, d, k + 1) = Fresh(c, d, k) \cup {k + 1} /\ k + 1 \notin Fresh(c, d, k)
  BY <1>1, <1>2 DEF Fresh
<1>4. Collided(c, d, k + 1) = Collided(c, d, k) \cup {v}
  BY <1>3 DEF Collided
<1>5. /\ FreshOf(c, d, k + 1, v) = FreshOf(c, d, k, v) \cup {k + 1}
      /\ k + 1 \notin FreshOf(c, d, k, v)
  BY <1>3 DEF FreshOf
<1>6. \A u : u # v => FreshOf(c, d, k + 1, u) = FreshOf(c, d, k, u)
  BY <1>3 DEF FreshOf
<1> QED
  BY <1>4, <1>5, <1>6, FreshFinite, OneMore

(* A key that differs from the one before is new.                          *)
LEMMA NewHere ==
  ASSUME NEW n \in Nat, NEW d, Gathered(d, n), NEW k \in Nat, k > 0, k + 1 <= n,
         d[k + 1] # d[k], NEW l \in 1 .. k
  PROVE  d[k + 1] # d[l]
<1>1. l \in 1 .. n /\ k \in 1 .. n /\ k + 1 \in 1 .. n /\ l <= k /\ k <= k + 1
  OBVIOUS
<1> QED
  BY <1>1 DEF Gathered

(* How many finer keys those at the places K have.                         *)
Apart(d, K) == Cardinality({d[k] : k \in K})

(* The hashes with one key have one more of the finer keys than places at  *)
(* which that changes.                                                     *)
LEMMA DifferingCounted ==
  ASSUME NEW n \in Nat, NEW c, NEW d, Gathered(c, n), Gathered(d, n), NEW v,
         NEW m \in 1 .. n
  PROVE  Apart(d, With(c, m, v)) = IF With(c, m, v) = {} THEN 0
                                   ELSE 1 + Cardinality(FreshOf(c, d, m, v))
<1> DEFINE V(k) == {d[l] : l \in With(c, k, v)}
           Good(k) == /\ IsFiniteSet(V(k))
                      /\ Cardinality(V(k)) = IF With(c, k, v) = {} THEN 0
                                             ELSE 1 + Cardinality(FreshOf(c, d, k, v))
           T == {j \in Nat : j + 1 <= n => Good(j + 1)}
<1>1. Good(1)
  <2>1. 1 .. 1 = {1}
    OBVIOUS
  <2>2. FreshOf(c, d, 1, v) = {} /\ Cardinality({}) = 0
    BY FreshFirst, FS_EmptySet
  <2>3. CASE c[1] = v
    <3>1. With(c, 1, v) = {1} /\ V(1) = {d[1]}
      BY <2>1, <2>3 DEF With
    <3>2. IsFiniteSet(V(1)) /\ Cardinality(V(1)) = 1
      BY <3>1, FS_Singleton
    <3> QED
      BY <2>2, <3>1, <3>2
  <2>4. CASE c[1] # v
    <3>1. With(c, 1, v) = {} /\ V(1) = {}
      BY <2>1, <2>4 DEF With
    <3> QED
      BY <3>1, FS_EmptySet
  <2> QED
    BY <2>3, <2>4
<1>2. ASSUME NEW k \in Nat, k > 0, k + 1 <= n, Good(k) PROVE Good(k + 1)
  <2>1. 1 .. k + 1 = (1 .. k) \cup {k + 1} /\ k + 1 \notin 1 .. k
    BY ONLY <1>2
  <2>2. CASE c[k + 1] # v
    <3>1. With(c, k + 1, v) = With(c, k, v)
      BY <2>1, <2>2 DEF With
    <3>2. FreshOf(c, d, k + 1, v) = FreshOf(c, d, k, v)
      <4>1. CASE c[k + 1] = c[k] /\ d[k + 1] # d[k]
        <5>1. \A u : u # c[k + 1] => FreshOf(c, d, k + 1, u) = FreshOf(c, d, k, u)
          BY ONLY <1>2, <4>1, FreshNext
        <5> QED
          BY <2>2, <5>1
      <4> QED
        BY <1>2, <4>1, FreshOn
    <3> QED
      BY <1>2, <3>1, <3>2
  <2>3. CASE c[k + 1] = v /\ c[k] # v
    <3>1. With(c, k, v) = {}
      BY <1>2, <2>3, NewHere DEF With
    <3>2. With(c, k + 1, v) = {k + 1} /\ V(k + 1) = {d[k + 1]}
      <4>1. With(c, k + 1, v) = {k + 1}
        BY <2>1, <2>3, <3>1 DEF With
      <4> QED
        BY <4>1
    <3>3. IsFiniteSet(V(k + 1)) /\ Cardinality(V(k + 1)) = 1
      <4> DEFINE W == V(k + 1)
                 x == d[k + 1]
      <4>1. W = {x}
        BY ONLY <3>2
      <4> HIDE DEF W, x
      <4>2. IsFiniteSet(W) /\ Cardinality(W) = 1
        BY <4>1, FS_Singleton
      <4> QED
        BY <4>2 DEF W
    <3>4. FreshOf(c, d, k + 1, v) = {}
      <4>1. FreshOf(c, d, k + 1, v) = FreshOf(c, d, k, v)
        BY <1>2, <2>3, FreshOn
      <4>2. FreshOf(c, d, k, v) \subseteq With(c, k, v)
        BY DEF FreshOf, Fresh, With
      <4> QED
        BY <3>1, <4>1, <4>2
    <3> QED
      BY <3>2, <3>3, <3>4, FS_EmptySet
  <2>4. CASE c[k + 1] = v /\ c[k] = v
    <3>1. With(c, k + 1, v) = With(c, k, v) \cup {k + 1} /\ k \in With(c, k, v)
      BY <1>2, <2>1, <2>4 DEF With
    <3>2. V(k + 1) = V(k) \cup {d[k + 1]}
      BY <3>1
    <3>3. CASE d[k + 1] = d[k]
      <4>1. V(k + 1) = V(k)
        BY <3>1, <3>2, <3>3
      <4>2. FreshOf(c, d, k + 1, v) = FreshOf(c, d, k, v)
        BY <1>2, <3>3, FreshOn
      <4> QED
        BY <1>2, <3>1, <4>1, <4>2
    <3>4. CASE d[k + 1] # d[k]
      <4>1. d[k + 1] \notin V(k)
        <5>1. \A l \in 1 .. k : d[k + 1] # d[l]
          BY <1>2, <3>4, NewHere
        <5> QED
          BY <5>1 DEF With
      <4>2. Cardinality(FreshOf(c, d, k + 1, v)) = Cardinality(FreshOf(c, d, k, v)) + 1
        <5>1. c[k + 1] = c[k]
          BY <2>4
        <5>0. k \in Nat /\ k > 0
          BY <1>2
        <5>2. Cardinality(FreshOf(c, d, k + 1, c[k + 1])) = Cardinality(FreshOf(c, d, k, c[k + 1])) + 1
          BY ONLY <5>0, <3>4, <5>1, FreshNext
        <5> QED
          BY <2>4, <5>2
      <4> HIDE DEF V
      <4>3. IsFiniteSet(V(k + 1)) /\ Cardinality(V(k + 1)) = Cardinality(V(k)) + 1
        BY <1>2, <3>2, <4>1, OneMore
      <4>4. Cardinality(FreshOf(c, d, k, v)) \in Nat
        BY <1>2, FreshFinite
      <4> QED
        BY <1>2, <3>1, <4>2, <4>3, <4>4
    <3> QED
      BY <3>3, <3>4
  <2> QED
    BY <2>2, <2>3, <2>4
<1> HIDE DEF Good
<1>3. 0 \in T
  BY <1>1
<1>4. ASSUME NEW j \in T PROVE j + 1 \in T
  <2>1. j \in Nat /\ j + 1 \in Nat /\ j + 1 > 0
    OBVIOUS
  <2>2. (j + 1) + 1 <= n => Good(j + 1) /\ (j + 1) + 1 <= n
    BY <2>1
  <2>3. (j + 1) + 1 <= n => Good((j + 1) + 1)
    BY <1>2, <2>1, <2>2
  <2> QED
    BY <2>1, <2>3
<1>5. T = Nat
  <2>1. T \in SUBSET Nat
    OBVIOUS
  <2> HIDE DEF T
  <2> QED
    BY <1>3, <1>4, <2>1, AllNaturals
<1>6. m - 1 \in Nat /\ (m - 1) + 1 = m /\ m <= n
  OBVIOUS
<1>7. Good(m)
  <2>1. m - 1 \in T
    BY <1>5, <1>6
  <2> QED
    BY <1>6, <2>1
<1> QED
  BY <1>7, Zenon DEF Good, Apart

-----------------------------------------------------------------------------
(* How many indices values have taken: x, but not more than are listed.    *)

Listed(x) == IF x <= MAX_PER_ENTRY THEN x ELSE MAX_PER_ENTRY
Taken(cs, S) == {p \in S \X (1 .. MAX_PER_ENTRY) : p[2] <= cs[p[1]]}

LEMMA PerEntry == MAX_PER_ENTRY \in Nat /\ MAX_PER_ENTRY > 1 /\ MAX_ENTRIES \in Nat /\ MAX_ENTRIES > 0
BY InputsAssumption DEF Inputs

LEMMA TakenFinite ==
  ASSUME NEW cs, NEW S, IsFiniteSet(S)
  PROVE  IsFiniteSet(Taken(cs, S)) /\ Cardinality(Taken(cs, S)) \in Nat
<1> DEFINE W == 1 .. MAX_PER_ENTRY
<1>1. IsFiniteSet(W)
  BY PerEntry, Interval
<1> HIDE DEF W
<1>2. IsFiniteSet(S \X W)
  BY <1>1, FS_Product
<1>3. Taken(cs, S) \subseteq S \X W
  BY DEF Taken, W
<1> QED
  BY <1>2, <1>3, FiniteSubset

LEMMA TakenMore ==
  ASSUME NEW cs, NEW S, IsFiniteSet(S), NEW v, v \notin S, cs[v] \in Nat
  PROVE  Cardinality(Taken(cs, S \cup {v})) = Cardinality(Taken(cs, S)) + Listed(cs[v])
<1> DEFINE x == Listed(cs[v])
           W == 1 .. x
           V == {v}
<1>1. x \in Nat /\ x <= MAX_PER_ENTRY /\ \A y \in 1 .. MAX_PER_ENTRY : y <= x <=> y <= cs[v]
  BY PerEntry DEF Listed
<1>2. \A y : y \in W <=> y \in 1 .. MAX_PER_ENTRY /\ y <= cs[v]
  BY <1>1, PerEntry
<1>3. Taken(cs, S \cup {v}) = Taken(cs, S) \cup (V \X W)
  <2> HIDE DEF W
  <2>1. ASSUME NEW p PROVE p \in Taken(cs, S \cup {v}) <=> p \in Taken(cs, S) \/ p \in V \X W
    BY <1>2 DEF Taken
  <2> QED
    BY <2>1
<1>4. Taken(cs, S) \cap (V \X W) = {}
  <2> HIDE DEF W
  <2> QED
    BY DEF Taken
<1>5. IsFiniteSet(W) /\ Cardinality(W) = x
  <2> HIDE DEF x
  <2> QED
    BY <1>1, Interval
<1>6. IsFiniteSet(V) /\ Cardinality(V) = 1
  BY FS_Singleton
<1> HIDE DEF V, W
<1>7. IsFiniteSet(V \X W) /\ Cardinality(V \X W) = 1 * x
  <2> HIDE DEF x
  <2> QED
    BY <1>5, <1>6, FS_Product
<1> DEFINE A == Taken(cs, S)
           B == V \X W
<1>8. IsFiniteSet(A) /\ Cardinality(A) \in Nat
  BY TakenFinite
<1>9. Cardinality(A \cup B) = Cardinality(A) + Cardinality(B) - Cardinality(A \cap B)
  <2>1. IsFiniteSet(B)
    BY <1>7
  <2> HIDE DEF A, B
  <2> QED
    BY <1>8, <2>1, FS_Union
<1>10. Cardinality(A \cap B) = 0
  BY <1>4, FS_EmptySet
<1>11. Cardinality(B) = x /\ x \in Nat
  BY <1>1, <1>7
<1>12. Taken(cs, S \cup {v}) = A \cup B
  BY <1>3
<1> HIDE DEF A, B, x
<1>13. Cardinality(A \cup B) = Cardinality(A) + x
  BY <1>8, <1>9, <1>10, <1>11
<1> QED
  BY <1>12, <1>13 DEF A, x

LEMMA TakenSame ==
  ASSUME NEW cs, NEW ct, NEW S, \A u \in S : cs[u] = ct[u]
  PROVE  Taken(cs, S) = Taken(ct, S)
BY DEF Taken

(***************************************************************************)
(* Where the indices of a value begin, and the indices: what               *)
(* PrintCollisions() takes for them.                                       *)
(***************************************************************************)
Offset(f, v) == Cardinality({p \in (DOMAIN f.collisions) \X (1 .. MAX_PER_ENTRY) :
                               Less(p[1], v) /\ p[2] <= f.collisions[p[1]]})
Names(f, v) == [j \in 1 .. Listed(f.collisions[v]) |-> f.collisionidxs[Offset(f, v) + j]]

LEMMA OffsetTaken ==
  ASSUME NEW f, NEW v, IsFiniteSet(DOMAIN f.collisions)
  PROVE  /\ Offset(f, v)
              = Cardinality(Taken(f.collisions, {u \in DOMAIN f.collisions : Less(u, v)}))
         /\ Offset(f, v) \in Nat
<1> DEFINE S == DOMAIN f.collisions
           B == {u \in S : Less(u, v)}
           P == {p \in S \X (1 .. MAX_PER_ENTRY) : Less(p[1], v) /\ p[2] <= f.collisions[p[1]]}
<1>1. P = Taken(f.collisions, B)
  <2> DEFINE W == 1 .. MAX_PER_ENTRY
             cs == f.collisions
  <2>1. ASSUME NEW p PROVE p \in P <=> p \in Taken(cs, B)
    <3> HIDE DEF W, cs
    <3>1. p \in S \X W /\ Less(p[1], v) <=> p \in B \X W
      OBVIOUS
    <3> QED
      BY <3>1 DEF Taken, W, cs
  <2> HIDE DEF B, P
  <2> QED
    BY <2>1
<1>2. Offset(f, v) = Cardinality(P)
  BY DEF Offset
<1>3. B \subseteq S
  OBVIOUS
<1> HIDE DEF B, P
<1>4. IsFiniteSet(B)
  BY <1>3, FiniteSubset
<1>5. Cardinality(Taken(f.collisions, B)) \in Nat
  BY <1>4, TakenFinite
<1> QED
  BY <1>1, <1>2, <1>5 DEF B

(* A value that none of those listed is above comes after all of them.     *)
LEMMA LastOffset ==
  ASSUME NEW f, IsFiniteSet(DOMAIN f.collisions), NEW v, ~Less(v, v),
         \A u \in DOMAIN f.collisions : u = v \/ Less(u, v)
  PROVE  Offset(f, v) = Cardinality(Taken(f.collisions, (DOMAIN f.collisions) \ {v}))
<1>1. {u \in DOMAIN f.collisions : Less(u, v)} = (DOMAIN f.collisions) \ {v}
  OBVIOUS
<1> QED
  BY <1>1, OffsetTaken

(* g has more of v than f, and as many of each other value.                *)
Continues(g, f, v) ==
  /\ DOMAIN g.collisions = (DOMAIN f.collisions) \cup {v}
  /\ \A u \in DOMAIN f.collisions : u # v => g.collisions[u] = f.collisions[u]

(* The others' indices stay where they are.                                *)
LEMMA OthersStay ==
  ASSUME NEW f, NEW g, NEW v, Continues(g, f, v), IsFiniteSet(DOMAIN f.collisions),
         NEW u \in DOMAIN f.collisions, ~Less(v, u)
  PROVE  Offset(g, u) = Offset(f, u)
<1> DEFINE S == DOMAIN f.collisions
<1>0. /\ DOMAIN g.collisions = S \cup {v} /\ IsFiniteSet(S)
      /\ \A x \in S : x # v => g.collisions[x] = f.collisions[x]
  BY DEF Continues
<1> DEFINE A == {x \in S : Less(x, u)}
           B == {x \in S \cup {v} : Less(x, u)}
<1>1. A = B /\ \A x \in A : x # v /\ x \in S
  OBVIOUS
<1>2. IsFiniteSet(S \cup {v})
  BY <1>0, FS_AddElement
<1>3. Offset(f, u) = Cardinality(Taken(f.collisions, A))
  BY OffsetTaken
<1>4. Offset(g, u) = Cardinality(Taken(g.collisions, B))
  BY <1>0, <1>2, OffsetTaken
<1>5. Taken(f.collisions, A) = Taken(g.collisions, A)
  <2> DEFINE cs == f.collisions
             ct == g.collisions
  <2>1. \A x \in A : cs[x] = ct[x]
    BY <1>0, <1>1
  <2> HIDE DEF cs, ct, A
  <2> QED
    BY <2>1, TakenSame DEF cs, ct
<1> QED
  BY <1>1, <1>3, <1>4, <1>5

-----------------------------------------------------------------------------
(* What is collected is what is to be listed, place by place.              *)

LEMMA CollectKnown ==
  ASSUME NEW I, NEW f \in Collections(I), NEW v \in DOMAIN f.collisions, NEW idxs, NEW k,
         idxs[k - 1] \in I, idxs[k] \in I
  PROVE  LET g == Collect(f, v, idxs, k) IN
         /\ DOMAIN g.collisions = DOMAIN f.collisions
         /\ g.collisions[v] = f.collisions[v] + 1
         /\ \A u \in DOMAIN f.collisions : u # v => g.collisions[u] = f.collisions[u]
         /\ f.cur < MAX_PER_ENTRY =>
              /\ g.cur = f.cur + 1
              /\ Len(g.collisionidxs) = Len(f.collisionidxs) + 1
              /\ \A x \in 1 .. Len(f.collisionidxs) : g.collisionidxs[x] = f.collisionidxs[x]
              /\ g.collisionidxs[Len(f.collisionidxs) + 1] = idxs[k]
         /\ ~(f.cur < MAX_PER_ENTRY) => g.cur = f.cur /\ g.collisionidxs = f.collisionidxs
<1> DEFINE g == Collect(f, v, idxs, k)
           S == DOMAIN f.collisions
           cs == [u \in S \cup {v} |-> IF u # v THEN f.collisions[u] ELSE f.collisions[v] + 1]
           taken == IF f.cur < MAX_PER_ENTRY THEN <<idxs[k]>> ELSE <<>>
<1>1. g = [collcount |-> f.collcount + 1, collisions |-> cs,
           collisionidxs |-> f.collisionidxs \o taken, cur |-> f.cur + Len(taken)]
  BY Zenon DEF Collect
<1> HIDE DEF g
<1>2. f.collisionidxs \in Seq(I) /\ f.cur \in Nat
  BY DEF Collections
<1>3. g.collisions = cs /\ g.collisionidxs = f.collisionidxs \o taken /\ g.cur = f.cur + Len(taken)
  <2> HIDE DEF cs, taken
  <2> QED
    BY <1>1
<1>4. DOMAIN cs = S /\ cs[v] = f.collisions[v] + 1 /\ \A u \in S : u # v => cs[u] = f.collisions[u]
  OBVIOUS
<1>5. CASE f.cur < MAX_PER_ENTRY
  <2> DEFINE q == f.collisionidxs
             e == idxs[k]
  <2>1. g.collisionidxs = q \o <<e>> /\ g.cur = f.cur + 1
    BY <1>3, <1>5
  <2>2. q \in Seq(I) /\ e \in I
    BY <1>2
  <2> HIDE DEF q, e
  <2>3. /\ Len(q \o <<e>>) = Len(q) + 1 /\ (q \o <<e>>)[Len(q) + 1] = e
        /\ \A x \in 1 .. Len(q) : (q \o <<e>>)[x] = q[x]
    BY <2>2
  <2> HIDE DEF cs
  <2> QED
    BY <1>3, <1>4, <1>5, <2>1, <2>3 DEF q, e, g
<1>6. CASE ~(f.cur < MAX_PER_ENTRY)
  <2>1. g.collisionidxs = f.collisionidxs /\ g.cur = f.cur
    BY <1>2, <1>3, <1>6
  <2> HIDE DEF cs
  <2> QED
    BY <1>3, <1>4, <1>6, <2>1 DEF g
<1> QED
  BY <1>5, <1>6

LEMMA CollectNew ==
  ASSUME NEW I, NEW f \in Collections(I), NEW v, v \notin DOMAIN f.collisions, NEW idxs, NEW k,
         idxs[k - 1] \in I, idxs[k] \in I, Cardinality(DOMAIN f.collisions) < MAX_ENTRIES
  PROVE  LET g == Collect(f, v, idxs, k) IN
         /\ DOMAIN g.collisions = (DOMAIN f.collisions) \cup {v} /\ g.collisions[v] = 2
         /\ \A u \in DOMAIN f.collisions : g.collisions[u] = f.collisions[u]
         /\ g.cur = 2
         /\ Len(g.collisionidxs) = Len(f.collisionidxs) + 2
         /\ \A x \in 1 .. Len(f.collisionidxs) : g.collisionidxs[x] = f.collisionidxs[x]
         /\ g.collisionidxs[Len(f.collisionidxs) + 1] = idxs[k - 1]
         /\ g.collisionidxs[Len(f.collisionidxs) + 2] = idxs[k]
<1> DEFINE g == Collect(f, v, idxs, k)
           S == DOMAIN f.collisions
           cs == [u \in S \cup {v} |-> IF u # v THEN f.collisions[u] ELSE 2]
           q == f.collisionidxs
           a == idxs[k - 1]
           e == idxs[k]
<1>1. g = [collcount |-> f.collcount + 1, collisions |-> cs,
           collisionidxs |-> q \o <<a, e>>, cur |-> 2]
  BY Zenon DEF Collect
<1> HIDE DEF g
<1>2. q \in Seq(I) /\ a \in I /\ e \in I
  BY DEF Collections
<1>3. g.collisions = cs /\ g.collisionidxs = q \o <<a, e>> /\ g.cur = 2
  <2> HIDE DEF cs, q, a, e
  <2> QED
    BY <1>1
<1>4. DOMAIN cs = S \cup {v} /\ cs[v] = 2 /\ \A u \in S : cs[u] = f.collisions[u]
  OBVIOUS
<1> HIDE DEF q, a, e, cs
<1> DEFINE t == <<a, e>>
<1>5. t \in Seq(I) /\ Len(t) = 2 /\ t[1] = a /\ t[2] = e
  BY <1>2
<1> HIDE DEF t
<1>6. /\ Len(q \o t) = Len(q) + 2 /\ (q \o t)[Len(q) + 1] = t[1] /\ (q \o t)[Len(q) + 2] = t[2]
      /\ \A x \in 1 .. Len(q) : (q \o t)[x] = q[x]
  <2>1. \A r, s \in Seq(I) :
          /\ Len(r) \in Nat /\ Len(r \o s) = Len(r) + Len(s)
          /\ \A x \in 1 .. Len(r) : (r \o s)[x] = r[x]
          /\ \A x \in 1 .. Len(s) : (r \o s)[Len(r) + x] = s[x]
    OBVIOUS
  <2>2. q \in Seq(I) /\ t \in Seq(I)
    BY <1>2, <1>5
  <2>3. /\ Len(q \o t) = Len(q) + Len(t)
        /\ \A x \in 1 .. Len(q) : (q \o t)[x] = q[x]
        /\ \A x \in 1 .. Len(t) : (q \o t)[Len(q) + x] = t[x]
    BY ONLY <2>1, <2>2, Zenon
  <2>4. 1 \in 1 .. Len(t) /\ 2 \in 1 .. Len(t)
    BY <1>5
  <2> QED
    BY ONLY <1>5, <2>3, <2>4
<1> QED
  BY <1>3, <1>4, <1>5, <1>6 DEF q, a, e, t, g

LEMMA CollectFull ==
  ASSUME NEW I, NEW f \in Collections(I), NEW v, v \notin DOMAIN f.collisions, NEW idxs, NEW k,
         ~(Cardinality(DOMAIN f.collisions) < MAX_ENTRIES)
  PROVE  LET g == Collect(f, v, idxs, k) IN
         g.collisions = f.collisions /\ g.collisionidxs = f.collisionidxs /\ g.cur = f.cur
<1> DEFINE g == Collect(f, v, idxs, k)
<1>1. g = [f EXCEPT !.collcount = @ + 1]
  BY Zenon DEF Collect
<1> HIDE DEF g
<1>2. g.collisions = f.collisions /\ g.collisionidxs = f.collisionidxs /\ g.cur = f.cur
  BY <1>1 DEF Collections
<1> QED
  BY <1>2 DEF g

-----------------------------------------------------------------------------
(* The keys of a sorted list, and of it finer ones.                        *)

Rising(c, n) == \A k, l \in 1 .. n : k <= l => c[k] = c[l] \/ Less(c[k], c[l])
InOrder(n, c, d) == c \in [1 .. n -> Hash] /\ Rising(c, n) /\ Gathered(c, n) /\ Gathered(d, n)

(* What is listed of the first k: of the values the first, with how often  *)
(* each has been met, and of the one met last how many have been taken.    *)
ValuesListed(f, c, d, k) ==
  /\ DOMAIN f.collisions \subseteq Collided(c, d, k)
  /\ IsFiniteSet(DOMAIN f.collisions) /\ Cardinality(DOMAIN f.collisions) <= MAX_ENTRIES
  /\ DOMAIN f.collisions = Collided(c, d, k) \/ Cardinality(DOMAIN f.collisions) = MAX_ENTRIES
  /\ \A v \in DOMAIN f.collisions :
       /\ f.collisions[v] = 1 + Cardinality(FreshOf(c, d, k, v))
       /\ \A u \in Collided(c, d, k) \ DOMAIN f.collisions : Less(v, u)
  /\ c[k] \in DOMAIN f.collisions => f.cur = Listed(f.collisions[c[k]])

LEMMA NoneListed ==
  ASSUME NEW c, NEW d
  PROVE  ValuesListed(Nothing, c, d, 1)
<1>1. Nothing.collisions = [v \in {} |-> 0] /\ DOMAIN Nothing.collisions = {}
  BY DEF Nothing
<1>2. Collided(c, d, 1) = {}
  BY FreshFirst
<1>3. IsFiniteSet({}) /\ Cardinality({}) = 0
  BY FS_EmptySet
<1>4. 0 <= MAX_ENTRIES
  BY PerEntry
<1> QED
  BY <1>1, <1>2, <1>3, <1>4 DEF ValuesListed

(* What has been met is at or before the place, and not above it.          *)
LEMMA MetBefore ==
  ASSUME NEW n \in Nat, NEW c, NEW d, InOrder(n, c, d), NEW k \in 1 .. n, NEW v \in Collided(c, d, k)
  PROVE  v \in Hash /\ (\E l \in 1 .. k : v = c[l]) /\ (v = c[k] \/ Less(v, c[k]))
<1>1. PICK l \in 2 .. k : v = c[l]
  BY DEF Collided, Fresh
<1>2. l \in 1 .. n /\ k \in 1 .. n /\ l <= k /\ l \in 1 .. k
  BY <1>1
<1> QED
  BY <1>1, <1>2 DEF InOrder, Rising

LEMMA ValuesOn ==
  ASSUME NEW n \in Nat, NEW c, NEW d, InOrder(n, c, d), NEW k \in Nat, k > 0, k + 1 <= n,
         ~(c[k + 1] = c[k] /\ d[k + 1] # d[k]), NEW f, ValuesListed(f, c, d, k)
  PROVE  ValuesListed(f, c, d, k + 1)
<1>1. /\ Collided(c, d, k + 1) = Collided(c, d, k)
      /\ \A v : FreshOf(c, d, k + 1, v) = FreshOf(c, d, k, v)
  BY FreshOn
<1>2. c[k + 1] \in DOMAIN f.collisions => c[k + 1] = c[k]
  <2> SUFFICES ASSUME c[k + 1] \in DOMAIN f.collisions, c[k + 1] # c[k] PROVE FALSE
    OBVIOUS
  <2>1. c[k + 1] \in Collided(c, d, k)
    BY DEF ValuesListed
  <2>2. k \in 1 .. n
    OBVIOUS
  <2>3. PICK l \in 1 .. k : c[k + 1] = c[l]
    BY <2>1, <2>2, MetBefore
  <2>4. Gathered(c, n)
    BY DEF InOrder
  <2> QED
    BY <2>3, <2>4, NewHere
<1> QED
  BY <1>1, <1>2, Zenon DEF ValuesListed

LEMMA ValuesNext ==
  ASSUME NEW n \in Nat, NEW c, NEW d, InOrder(n, c, d), NEW k \in Nat, k > 0, k + 1 <= n,
         c[k + 1] = c[k], d[k + 1] # d[k], NEW f, ValuesListed(f, c, d, k),
         f \in Collections(1 .. n),
         NEW p, p[k] \in 1 .. n, p[k + 1] \in 1 .. n
  PROVE  ValuesListed(Collect(f, c[k + 1], p, k + 1), c, d, k + 1)
<1> DEFINE v == c[k + 1]
           g == Collect(f, v, p, k + 1)
           S == DOMAIN f.collisions
           N(u) == Cardinality(FreshOf(c, d, k + 1, u))
           M(u) == Cardinality(FreshOf(c, d, k, u))
           All == Collided(c, d, k)
           Now == Collided(c, d, k + 1)
<1>1. Now = All \cup {v} /\ N(v) = M(v) + 1
  BY FreshNext
<1>2. \A u : u # v => N(u) = M(u)
  <2>1. \A u : u # v => FreshOf(c, d, k + 1, u) = FreshOf(c, d, k, u)
    BY FreshNext
  <2> QED
    BY <2>1
<1>3. p[(k + 1) - 1] \in 1 .. n /\ k \in 1 .. n /\ (k + 1) - 1 = k
  <2>1. (k + 1) - 1 = k /\ k \in 1 .. n
    OBVIOUS
  <2> QED
    BY <2>1
<1>4. /\ S \subseteq All /\ IsFiniteSet(S) /\ Cardinality(S) <= MAX_ENTRIES
      /\ S = All \/ Cardinality(S) = MAX_ENTRIES
      /\ \A u \in S : f.collisions[u] = 1 + M(u) /\ \A x \in All \ S : Less(u, x)
      /\ v \in S => f.cur = Listed(f.collisions[v])
  BY Zenon DEF ValuesListed
<1>5. \A u \in All : u = v \/ Less(u, v)
  BY <1>3, MetBefore
<1>6. /\ MAX_ENTRIES \in Nat /\ MAX_PER_ENTRY \in Nat /\ MAX_PER_ENTRY > 1
      /\ \A u : M(u) \in Nat
      /\ Cardinality(S) \in Nat
  BY <1>4, PerEntry, FreshFinite, FS_CardinalityType
<1> HIDE DEF M, N, All, Now
<1>7. CASE v \in S
  <2>1. /\ DOMAIN g.collisions = S /\ g.collisions[v] = f.collisions[v] + 1
        /\ \A u \in S : u # v => g.collisions[u] = f.collisions[u]
        /\ f.cur < MAX_PER_ENTRY => g.cur = f.cur + 1
        /\ ~(f.cur < MAX_PER_ENTRY) => g.cur = f.cur
    BY <1>3, <1>7, CollectKnown
  <2> HIDE DEF g, v
  <2>2. Now = All /\ S \subseteq Now
    BY <1>1, <1>4, <1>7
  <2>3. \A u \in S : g.collisions[u] = 1 + N(u)
    BY <1>1, <1>2, <1>4, <1>6, <1>7, <2>1
  <2>4. g.cur = Listed(g.collisions[v])
    <3>1. f.collisions[v] \in Nat
      BY <1>4, <1>6, <1>7
    <3> QED
      BY <1>4, <1>6, <1>7, <2>1, <3>1 DEF Listed
  <2> QED
    BY <1>4, <2>1, <2>2, <2>3, <2>4, Zenon DEF ValuesListed, N, All, Now, g, v
<1>8. CASE v \notin S /\ Cardinality(S) < MAX_ENTRIES
  <2>1. /\ DOMAIN g.collisions = S \cup {v} /\ g.collisions[v] = 2
        /\ \A u \in S : g.collisions[u] = f.collisions[u]
        /\ g.cur = 2
    BY <1>3, <1>8, CollectNew
  <2>2. S = All
    BY <1>4, <1>6, <1>8
  <2>3. M(v) = 0
    <3>1. FreshOf(c, d, k, v) = {}
      BY <1>8, <2>2 DEF All, Collided, FreshOf
    <3> QED
      BY <3>1, FS_EmptySet DEF M
  <2> HIDE DEF g, v
  <2>4. S \cup {v} = Now
    BY <1>1, <2>2
  <2>5. \A u \in S \cup {v} : g.collisions[u] = 1 + N(u)
    BY <1>1, <1>2, <1>4, <1>6, <1>8, <2>1, <2>3
  <2>6. g.cur = Listed(g.collisions[v])
    BY <1>6, <2>1 DEF Listed
  <2>7. IsFiniteSet(S \cup {v}) /\ Cardinality(S \cup {v}) <= MAX_ENTRIES
    <3>1. IsFiniteSet(S \cup {v}) /\ Cardinality(S \cup {v}) = Cardinality(S) + 1
      BY <1>4, <1>8, OneMore
    <3> QED
      BY <1>6, <1>8, <3>1
  <2> QED
    BY <2>1, <2>4, <2>5, <2>6, <2>7, Zenon DEF ValuesListed, N, Now, g, v
<1>9. CASE v \notin S /\ ~(Cardinality(S) < MAX_ENTRIES)
  <2>1. g.collisions = f.collisions /\ g.cur = f.cur
    BY <1>9, CollectFull
  <2> HIDE DEF g, v
  <2>2. Cardinality(S) = MAX_ENTRIES
    BY <1>4, <1>6, <1>9
  <2>3. \A u \in S : g.collisions[u] = 1 + N(u)
    BY <1>2, <1>4, <1>9, <2>1
  <2>4. \A u \in S, x \in Now \ S : Less(u, x)
    BY <1>1, <1>4, <1>5, <1>9
  <2>5. S \subseteq Now
    BY <1>1, <1>4
  <2> QED
    BY <1>4, <1>9, <2>1, <2>2, <2>3, <2>4, <2>5, Zenon DEF ValuesListed, N, Now, g, v
<1> QED
  BY <1>7, <1>8, <1>9

-----------------------------------------------------------------------------
(* The indices listed with a value: each is of a hash that has been seen,  *)
(* and has the value; no two of them agree in the finer key.               *)
Name(f, v, j) == f.collisionidxs[Offset(f, v) + j]
MetBy(p, k) == {p[l] : l \in 1 .. k}

NamedWell(f, cg, dg, seen, v) ==
  \A j \in 1 .. Listed(f.collisions[v]) :
    /\ Offset(f, v) + j <= Len(f.collisionidxs)
    /\ Name(f, v, j) \in seen /\ cg[Name(f, v, j)] = v
    /\ \A l \in 1 .. Listed(f.collisions[v]) : l # j => dg[Name(f, v, l)] # dg[Name(f, v, j)]

NamesListed(f, cg, dg, seen) ==
  /\ Len(f.collisionidxs) = Cardinality(Taken(f.collisions, DOMAIN f.collisions))
  /\ \A v \in DOMAIN f.collisions : NamedWell(f, cg, dg, seen, v)

LEMMA NoneNamed ==
  ASSUME NEW cg, NEW dg, NEW seen
  PROVE  NamesListed(Nothing, cg, dg, seen)
<1>1. /\ Nothing.collisions = [v \in {} |-> 0] /\ DOMAIN Nothing.collisions = {}
      /\ Nothing.collisionidxs = <<>> /\ Len(<<>>) = 0
  BY DEF Nothing
<1>2. Taken(Nothing.collisions, {}) = {}
  BY DEF Taken
<1> QED
  BY <1>1, <1>2, FS_EmptySet DEF NamesListed

LEMMA SeenMore ==
  ASSUME NEW f, NEW cg, NEW dg, NEW seen, NEW more, seen \subseteq more,
         NamesListed(f, cg, dg, seen)
  PROVE  NamesListed(f, cg, dg, more)
BY Zenon DEF NamesListed, NamedWell

LEMMA SeenNext ==
  ASSUME NEW p, NEW k \in Nat, k > 0
  PROVE  /\ MetBy(p, k) \subseteq MetBy(p, k + 1)
         /\ p[k] \in MetBy(p, k + 1) /\ p[k + 1] \in MetBy(p, k + 1)
<1>1. \A l \in 1 .. k : l \in 1 .. k + 1
  OBVIOUS
<1>2. k \in 1 .. k + 1 /\ k + 1 \in 1 .. k + 1
  OBVIOUS
<1> QED
  BY <1>1, <1>2 DEF MetBy

(* The last value's indices are the last.                                  *)
LEMMA EndsWithLast ==
  ASSUME NEW I, NEW f \in Collections(I), NEW S, S = DOMAIN f.collisions, IsFiniteSet(S),
         NEW v \in S, ~Less(v, v), \A u \in S : u = v \/ Less(u, v)
  PROVE  Cardinality(Taken(f.collisions, S)) = Offset(f, v) + Listed(f.collisions[v])
<1> DEFINE B == S \ {v}
           cs == f.collisions
<1>1. cs[v] \in Nat
  BY DEF Collections
<1>2. IsFiniteSet(B) /\ v \notin B /\ B \cup {v} = S
  BY FS_RemoveElement
<1> HIDE DEF B, cs
<1>3. Cardinality(Taken(cs, B \cup {v})) = Cardinality(Taken(cs, B)) + Listed(cs[v])
  BY <1>1, <1>2, TakenMore
<1>4. Offset(f, v) = Cardinality(Taken(cs, B))
  BY LastOffset DEF B, cs
<1> QED
  BY <1>2, <1>3, <1>4 DEF cs

(* A listing g that goes on where f ends, with more of v, the last value.  *)
Longer(g, f) ==
  /\ Len(f.collisionidxs) \in Nat /\ Len(g.collisionidxs) \in Nat
  /\ Len(f.collisionidxs) <= Len(g.collisionidxs)
  /\ \A x \in 1 .. Len(f.collisionidxs) : g.collisionidxs[x] = f.collisionidxs[x]

LEMMA OthersNamed ==
  ASSUME NEW f, NEW g, NEW v, Continues(g, f, v), Longer(g, f), IsFiniteSet(DOMAIN f.collisions),
         NEW u \in DOMAIN f.collisions, u # v, ~Less(v, u),
         NEW cg, NEW dg, NEW seen, NamedWell(f, cg, dg, seen, u)
  PROVE  NamedWell(g, cg, dg, seen, u)
<1>1. Offset(g, u) = Offset(f, u)
  BY OthersStay
<1>2. Offset(f, u) \in Nat /\ Len(f.collisionidxs) \in Nat
  BY OffsetTaken DEF Longer
<1>3. Listed(g.collisions[u]) = Listed(f.collisions[u])
  BY DEF Continues
<1>4. \A j \in 1 .. Listed(f.collisions[u]) :
        Offset(f, u) + j <= Len(f.collisionidxs) /\ Offset(f, u) + j <= Len(g.collisionidxs)
        /\ Name(g, u, j) = Name(f, u, j)
  <2> SUFFICES ASSUME NEW j \in 1 .. Listed(f.collisions[u])
               PROVE  Offset(f, u) + j <= Len(f.collisionidxs)
                      /\ Offset(f, u) + j <= Len(g.collisionidxs)
                      /\ Name(g, u, j) = Name(f, u, j)
    OBVIOUS
  <2>1. Offset(f, u) + j <= Len(f.collisionidxs)
    BY DEF NamedWell
  <2>2. Offset(f, u) + j \in 1 .. Len(f.collisionidxs) /\ Offset(f, u) + j <= Len(g.collisionidxs)
    BY <1>2, <2>1, PerEntry DEF Longer, Listed
  <2> QED
    BY <1>1, <2>1, <2>2 DEF Name, Longer
<1> QED
  BY <1>1, <1>3, <1>4, Zenon DEF NamedWell

(* The index of the hash at the next place joins those of its value.       *)
LEMMA NamesNextKnown ==
  ASSUME NEW n \in Nat, NEW f \in Collections(1 .. n), NEW S, S = DOMAIN f.collisions,
         IsFiniteSet(S), NEW v \in S, ~Less(v, v), \A u \in S : u = v \/ (Less(u, v) /\ ~Less(v, u)),
         f.cur = Listed(f.collisions[v]),
         NEW p, NEW k \in Nat, k > 0, p[k] \in 1 .. n, p[k + 1] \in 1 .. n,
         NEW cg, NEW dg, NamesListed(f, cg, dg, MetBy(p, k)),
         cg[p[k + 1]] = v, \A l \in 1 .. k : dg[p[l]] # dg[p[k + 1]]
  PROVE  NamesListed(Collect(f, v, p, k + 1), cg, dg, MetBy(p, k + 1))
<1> DEFINE g == Collect(f, v, p, k + 1)
           seen == MetBy(p, k + 1)
           m == Len(f.collisionidxs)
           x == Listed(f.collisions[v])
           y == Listed(g.collisions[v])
           o == Offset(f, v)
<1>1. (k + 1) - 1 = k /\ p[(k + 1) - 1] \in 1 .. n
  OBVIOUS
<1>2. /\ DOMAIN g.collisions = S /\ g.collisions[v] = f.collisions[v] + 1
      /\ \A u \in S : u # v => g.collisions[u] = f.collisions[u]
      /\ f.cur < MAX_PER_ENTRY =>
           /\ Len(g.collisionidxs) = m + 1
           /\ \A z \in 1 .. m : g.collisionidxs[z] = f.collisionidxs[z]
           /\ g.collisionidxs[m + 1] = p[k + 1]
      /\ ~(f.cur < MAX_PER_ENTRY) => g.collisionidxs = f.collisionidxs
  BY <1>1, CollectKnown
<1>3. g \in Collections(1 .. n) /\ m \in Nat /\ f.collisions[v] \in Nat
  <2>1. v \in Hash /\ f.collisions[v] \in Nat /\ m \in Nat
    BY DEF Collections
  <2> QED
    BY <1>1, <2>1, CollectTypes
<1>4. NamesListed(f, cg, dg, seen)
  BY SeenNext, SeenMore
<1>5. o \in Nat /\ m = o + x
  BY EndsWithLast, OffsetTaken DEF NamesListed
<1>6. Continues(g, f, v)
  BY <1>2 DEF Continues
<1>7. Offset(g, v) = o
  BY <1>6, OthersStay
<1>8. IsFiniteSet(DOMAIN g.collisions)
  BY <1>2
<1>9. Cardinality(Taken(g.collisions, S)) = Offset(g, v) + y
  BY <1>2, <1>3, EndsWithLast
<1>10. MAX_PER_ENTRY \in Nat
  BY PerEntry
<1>11. p[k + 1] \in seen
  BY SeenNext
<1> HIDE DEF g, m, seen
<1>12. CASE f.cur < MAX_PER_ENTRY
  <2>1. y = x + 1 /\ x \in Nat
    BY <1>2, <1>3, <1>10, <1>12 DEF Listed
  <2>2. Len(g.collisionidxs) = Cardinality(Taken(g.collisions, S))
    BY <1>2, <1>5, <1>7, <1>9, <1>12, <2>1
  <2>3. ASSUME NEW u \in S, u # v PROVE NamedWell(g, cg, dg, seen, u)
    <3>1. NamedWell(f, cg, dg, seen, u)
      BY <1>4 DEF NamesListed
    <3>2. Longer(g, f)
      BY <1>2, <1>3, <1>12 DEF Longer, m
    <3>3. u \in DOMAIN f.collisions /\ IsFiniteSet(DOMAIN f.collisions) /\ ~Less(v, u)
      BY <2>3
    <3> QED
      BY <1>6, <2>3, <3>1, <3>2, <3>3, OthersNamed
  <2>4. NamedWell(g, cg, dg, seen, v)
    <3>1. NamedWell(f, cg, dg, MetBy(p, k), v) /\ NamedWell(f, cg, dg, seen, v)
      BY <1>4 DEF NamesListed
    <3>2. \A j \in 1 .. x : Name(g, v, j) = Name(f, v, j)
      <4>1. \A j \in 1 .. x : o + j \in 1 .. m
        BY <1>5, <2>1
      <4> QED
        BY <1>2, <1>7, <1>12, <4>1 DEF Name
    <3>3. Name(g, v, x + 1) = p[k + 1]
      <4>1. o + (x + 1) = m + 1
        BY <1>5, <2>1
      <4> QED
        BY <1>2, <1>7, <1>12, <4>1 DEF Name
    <3>4. \A j \in 1 .. x : dg[Name(f, v, j)] # dg[p[k + 1]]
      BY <3>1 DEF NamedWell, MetBy
    <3>5. \A j \in 1 .. y : j \in 1 .. x \/ j = x + 1
      BY <2>1
    <3>6. \A j \in 1 .. y : o + j <= Len(g.collisionidxs)
      BY <1>2, <1>3, <1>5, <1>12, <2>1
    <3>7. \A j \in 1 .. y : Name(g, v, j) \in seen /\ cg[Name(g, v, j)] = v
      <4>1. \A j \in 1 .. x : Name(f, v, j) \in seen /\ cg[Name(f, v, j)] = v
        BY <3>1, Zenon DEF NamedWell
      <4>2. cg[p[k + 1]] = v
        OBVIOUS
      <4> QED
        BY <1>11, <3>2, <3>3, <3>5, <4>1, <4>2, Zenon
    <3>8. ASSUME NEW j \in 1 .. y, NEW l \in 1 .. y, l # j
          PROVE  dg[Name(g, v, l)] # dg[Name(g, v, j)]
      <4>1. CASE j \in 1 .. x /\ l \in 1 .. x
        BY <3>1, <3>2, <3>8, <4>1 DEF NamedWell
      <4>2. CASE j \in 1 .. x /\ l = x + 1
        BY <3>2, <3>3, <3>4, <4>2, Zenon
      <4>3. CASE j = x + 1 /\ l \in 1 .. x
        BY <3>2, <3>3, <3>4, <4>3, Zenon
      <4> QED
        BY <3>5, <3>8, <4>1, <4>2, <4>3, Zenon
    <3> QED
      BY <1>7, <3>6, <3>7, <3>8, Zenon DEF NamedWell
  <2> QED
    BY <1>2, <2>2, <2>3, <2>4, Zenon DEF NamesListed, g, seen
<1>13. CASE ~(f.cur < MAX_PER_ENTRY)
  <2>1. y = x
    BY <1>2, <1>3, <1>10, <1>13 DEF Listed
  <2>2. Len(g.collisionidxs) = Cardinality(Taken(g.collisions, S))
    BY <1>2, <1>5, <1>7, <1>9, <1>13, <2>1 DEF m
  <2>3. ASSUME NEW u \in S PROVE NamedWell(g, cg, dg, seen, u)
    <3>1. NamedWell(f, cg, dg, seen, u)
      BY <1>4 DEF NamesListed
    <3>2. Offset(g, u) = Offset(f, u)
      <4>1. u \in DOMAIN f.collisions /\ IsFiniteSet(DOMAIN f.collisions) /\ ~Less(v, u)
        OBVIOUS
      <4> QED
        BY <1>6, <4>1, OthersStay
    <3>3. Listed(g.collisions[u]) = Listed(f.collisions[u])
      BY <1>2, <2>1
    <3> QED
      BY <1>2, <1>13, <3>1, <3>2, <3>3 DEF NamedWell, Name
  <2> QED
    BY <1>2, <2>2, <2>3, Zenon DEF NamesListed, g, seen
<1> QED
  BY <1>12, <1>13

(* The indices of the first two hashes of a value come after all others.   *)
LEMMA NamesNextNew ==
  ASSUME NEW n \in Nat, NEW f \in Collections(1 .. n), NEW S, S = DOMAIN f.collisions,
         IsFiniteSet(S), NEW v \in Hash, v \notin S, ~Less(v, v),
         \A u \in S : Less(u, v) /\ ~Less(v, u), Cardinality(S) < MAX_ENTRIES,
         NEW p, NEW k \in Nat, k > 0, p[k] \in 1 .. n, p[k + 1] \in 1 .. n,
         NEW cg, NEW dg, NamesListed(f, cg, dg, MetBy(p, k)),
         cg[p[k]] = v, cg[p[k + 1]] = v, dg[p[k]] # dg[p[k + 1]]
  PROVE  NamesListed(Collect(f, v, p, k + 1), cg, dg, MetBy(p, k + 1))
<1> DEFINE g == Collect(f, v, p, k + 1)
           seen == MetBy(p, k + 1)
           m == Len(f.collisionidxs)
           W == S \cup {v}
<1>1. (k + 1) - 1 = k /\ p[(k + 1) - 1] \in 1 .. n
  OBVIOUS
<1>2. /\ DOMAIN g.collisions = W /\ g.collisions[v] = 2
      /\ \A u \in S : g.collisions[u] = f.collisions[u]
      /\ Len(g.collisionidxs) = m + 2
      /\ \A x \in 1 .. m : g.collisionidxs[x] = f.collisionidxs[x]
      /\ g.collisionidxs[m + 1] = p[k] /\ g.collisionidxs[m + 2] = p[k + 1]
  BY <1>1, CollectNew
<1>3. g \in Collections(1 .. n) /\ m \in Nat
  <2>1. m \in Nat
    BY DEF Collections
  <2> QED
    BY <1>1, <2>1, CollectTypes
<1>4. NamesListed(f, cg, dg, seen)
  BY SeenNext, SeenMore
<1>5. IsFiniteSet(W) /\ W \ {v} = S /\ v \in W /\ \A u \in W : u = v \/ Less(u, v)
  BY FS_AddElement
<1>6. Continues(g, f, v)
  BY <1>2 DEF Continues
<1>7. p[k] \in seen /\ p[k + 1] \in seen
  BY SeenNext
<1>8. m = Cardinality(Taken(f.collisions, S))
  BY <1>4 DEF NamesListed
<1> HIDE DEF g, m, seen, W
<1>9. Offset(g, v) = m
  <2>1. Offset(g, v) = Cardinality(Taken(g.collisions, W \ {v}))
    <3>1. IsFiniteSet(DOMAIN g.collisions) /\ \A u \in DOMAIN g.collisions : u = v \/ Less(u, v)
      BY <1>2, <1>5
    <3>2. Offset(g, v) = Cardinality(Taken(g.collisions, (DOMAIN g.collisions) \ {v}))
      BY <3>1, LastOffset
    <3> QED
      BY <1>2, <3>2
  <2>2. Taken(g.collisions, S) = Taken(f.collisions, S)
    <3> DEFINE cs == f.collisions
               ct == g.collisions
    <3>1. \A u \in S : cs[u] = ct[u]
      BY <1>2
    <3> HIDE DEF cs, ct
    <3> QED
      BY <3>1, TakenSame DEF cs, ct
  <2> QED
    BY <1>5, <1>8, <2>1, <2>2
<1>10. Listed(2) = 2
  BY PerEntry DEF Listed
<1>11. Len(g.collisionidxs) = Cardinality(Taken(g.collisions, W))
  <2>1. Cardinality(Taken(g.collisions, W)) = Offset(g, v) + Listed(g.collisions[v])
    BY <1>2, <1>3, <1>5, EndsWithLast
  <2> QED
    BY <1>2, <1>9, <1>10, <2>1
<1>12. ASSUME NEW u \in S PROVE NamedWell(g, cg, dg, seen, u)
  <2>1. NamedWell(f, cg, dg, seen, u)
    BY <1>4 DEF NamesListed
  <2>2. Longer(g, f)
    BY <1>2, <1>3 DEF Longer, m
  <2>3. u \in DOMAIN f.collisions /\ IsFiniteSet(DOMAIN f.collisions) /\ ~Less(v, u) /\ u # v
    OBVIOUS
  <2> QED
    BY <1>6, <2>1, <2>2, <2>3, OthersNamed
<1>13. NamedWell(g, cg, dg, seen, v)
  <2>1. Name(g, v, 1) = p[k] /\ Name(g, v, 2) = p[k + 1]
    BY <1>2, <1>9 DEF Name
  <2>2. \A j \in 1 .. 2 : (j = 1 \/ j = 2) /\ m + j <= m + 2
    BY <1>3
  <2>3. Listed(g.collisions[v]) = 2
    BY <1>2, <1>10
  <2>4. ASSUME NEW j \in 1 .. 2
        PROVE  /\ Offset(g, v) + j <= Len(g.collisionidxs)
               /\ Name(g, v, j) \in seen /\ cg[Name(g, v, j)] = v
               /\ \A l \in 1 .. 2 : l # j => dg[Name(g, v, l)] # dg[Name(g, v, j)]
    <3>1. Offset(g, v) + j <= Len(g.collisionidxs)
      BY <1>2, <1>9, <2>2
    <3> QED
      BY <1>7, <2>1, <2>2, <3>1, Zenon
  <2> QED
    BY <2>3, <2>4, Zenon DEF NamedWell
<1>14. \A u \in W : NamedWell(g, cg, dg, seen, u)
  BY <1>12, <1>13 DEF W
<1> QED
  BY <1>2, <1>11, <1>14, Zenon DEF NamesListed, g, seen

(* Where there is no room for a value the indices stay.                    *)
LEMMA NamesNextFull ==
  ASSUME NEW n \in Nat, NEW f \in Collections(1 .. n), NEW v, v \notin DOMAIN f.collisions,
         ~(Cardinality(DOMAIN f.collisions) < MAX_ENTRIES),
         NEW p, NEW k \in Nat, k > 0,
         NEW cg, NEW dg, NamesListed(f, cg, dg, MetBy(p, k))
  PROVE  NamesListed(Collect(f, v, p, k + 1), cg, dg, MetBy(p, k + 1))
<1> DEFINE g == Collect(f, v, p, k + 1)
<1>1. g.collisions = f.collisions /\ g.collisionidxs = f.collisionidxs
  BY CollectFull
<1>2. NamesListed(f, cg, dg, MetBy(p, k + 1))
  BY SeenNext, SeenMore
<1> HIDE DEF g
<1>3. \A u : Offset(g, u) = Offset(f, u)
  BY <1>1 DEF Offset
<1>4. \A u, j : Name(g, u, j) = Name(f, u, j)
  BY <1>1, <1>3 DEF Name
<1>5. \A u : NamedWell(f, cg, dg, MetBy(p, k + 1), u) => NamedWell(g, cg, dg, MetBy(p, k + 1), u)
  BY <1>1, <1>3, <1>4, Zenon DEF NamedWell
<1> QED
  BY <1>1, <1>2, <1>5, Zenon DEF NamesListed, g

-----------------------------------------------------------------------------
(* A sorted list s, whose place k was p[k] before: its keys c and d, those *)
(* of the list as it was, cg and dg, and the places where c collides.      *)
Sides(n, s, w, p, c, d, cg, dg, hits) ==
  /\ s \in Seq(Hash) /\ Len(s) = n /\ p \in Arrangements(n) /\ InOrder(n, c, d)
  /\ \A k \in 1 .. n : c[k] = Masked(s[k], w) /\ cg[p[k]] = c[k] /\ dg[p[k]] = d[k]
  /\ \A k \in 2 .. n : k \in hits <=> c[k] = c[k - 1] /\ d[k] # d[k - 1]

ListedWell(f, n, p, c, d, cg, dg, k) ==
  f \in Collections(1 .. n) /\ ValuesListed(f, c, d, k) /\ NamesListed(f, cg, dg, MetBy(p, k))

LEMMA LastMet ==
  ASSUME NEW n \in Nat, NEW c, NEW d, InOrder(n, c, d), NEW k \in 1 .. n, NEW f,
         ValuesListed(f, c, d, k)
  PROVE  /\ IsFiniteSet(DOMAIN f.collisions) /\ ~Less(c[k], c[k])
         /\ \A u \in DOMAIN f.collisions : u = c[k] \/ (Less(u, c[k]) /\ ~Less(c[k], u))
<1>1. c[k] \in Hash
  BY DEF InOrder
<1>2. ~Less(c[k], c[k])
  BY <1>1, LessStrict
<1>3. ASSUME NEW u \in DOMAIN f.collisions PROVE u = c[k] \/ (Less(u, c[k]) /\ ~Less(c[k], u))
  <2>1. u \in Collided(c, d, k)
    BY DEF ValuesListed
  <2>2. u \in Hash /\ (u = c[k] \/ Less(u, c[k]))
    BY <2>1, MetBefore
  <2> QED
    BY <1>1, <2>2, LessStrict
<1> QED
  BY <1>2, <1>3 DEF ValuesListed

LEMMA CollectedOn ==
  ASSUME NEW n \in Nat, NEW s, NEW w, NEW p, NEW c, NEW d, NEW cg, NEW dg, NEW hits,
         Sides(n, s, w, p, c, d, cg, dg, hits),
         NEW k \in Nat, k > 0, k + 1 <= n, NEW f, ListedWell(f, n, p, c, d, cg, dg, k)
  PROVE  ListedWell(CollectedAt(f, s, p, hits, w, k + 1), n, p, c, d, cg, dg, k + 1)
<1> DEFINE v == c[k + 1]
           S == DOMAIN f.collisions
           g == CollectedAt(f, s, p, hits, w, k + 1)
           z == Collect(f, v, p, k + 1)
<1>1. /\ k \in 1 .. n /\ k + 1 \in 1 .. n /\ k + 1 \in 2 .. n /\ (k + 1) - 1 = k /\ n > 0
  OBVIOUS
<1>2. /\ s \in Seq(Hash) /\ Len(s) = n /\ InOrder(n, c, d)
      /\ v = Masked(s[k + 1], w) /\ cg[p[k + 1]] = v /\ dg[p[k + 1]] = d[k + 1]
      /\ cg[p[k]] = c[k] /\ dg[p[k]] = d[k]
      /\ \A l \in 1 .. k : dg[p[l]] = d[l]
      /\ k + 1 \in hits <=> v = c[k] /\ d[k + 1] # d[k]
  <2>1. \A l \in 1 .. k : l \in 1 .. n
    OBVIOUS
  <2> QED
    BY <1>1, <2>1, Zenon DEF Sides
<1>3. p \in [1 .. n -> 1 .. n] /\ p # <<>>
  <2>1. p \in [1 .. n -> 1 .. n]
    BY DEF Sides, Arrangements
  <2>2. DOMAIN p = 1 .. n /\ 1 \in 1 .. n /\ DOMAIN <<>> = {}
    BY <1>1, <2>1
  <2> QED
    BY <2>1, <2>2
<1>4. p[k] \in 1 .. n /\ p[k + 1] \in 1 .. n
  BY <1>1, <1>3
<1>5. f \in Collections(1 .. n) /\ ValuesListed(f, c, d, k) /\ NamesListed(f, cg, dg, MetBy(p, k))
  BY DEF ListedWell
<1>6. g \in Collections(1 .. n)
  BY <1>1, <1>2, <1>3, <1>5, CollectedTypes
<1>7. CASE k + 1 \notin hits
  <2>1. g = f
    BY <1>7 DEF CollectedAt
  <2>2. ValuesListed(f, c, d, k + 1)
    BY <1>2, <1>5, <1>7, ValuesOn
  <2>3. NamesListed(f, cg, dg, MetBy(p, k + 1))
    BY <1>5, SeenNext, SeenMore
  <2> QED
    BY <1>5, <2>1, <2>2, <2>3 DEF ListedWell
<1>8. CASE k + 1 \in hits
  <2>1. g = z
    BY <1>2, <1>3, <1>8 DEF CollectedAt
  <2>2. v = c[k] /\ d[k + 1] # d[k]
    BY <1>2, <1>8
  <2>3. ValuesListed(z, c, d, k + 1)
    BY <1>2, <1>4, <1>5, <2>2, ValuesNext
  <2>4. v \in Hash /\ Gathered(d, n)
    BY <1>1, <1>2 DEF InOrder
  <2>5. \A l \in 1 .. k : dg[p[l]] # dg[p[k + 1]]
    <3>1. \A l \in 1 .. k : d[k + 1] # d[l]
      BY <2>2, <2>4, NewHere
    <3> QED
      BY <1>2, <3>1
  <2>6. /\ IsFiniteSet(S) /\ ~Less(v, v)
        /\ \A u \in S : u = v \/ (Less(u, v) /\ ~Less(v, u))
    <3>1. /\ IsFiniteSet(S) /\ ~Less(c[k], c[k])
          /\ \A u \in S : u = c[k] \/ (Less(u, c[k]) /\ ~Less(c[k], u))
      BY <1>1, <1>2, <1>5, LastMet
    <3> QED
      BY <2>2, <3>1, Zenon
  <2> HIDE DEF g, v, z
  <2>7. NamesListed(z, cg, dg, MetBy(p, k + 1))
    <3>1. CASE v \in S
      <4>1. f.cur = Listed(f.collisions[v])
        BY <1>5, <2>2, <3>1, Zenon DEF ValuesListed
      <4> QED
        BY <1>2, <1>4, <1>5, <2>5, <2>6, <3>1, <4>1, NamesNextKnown DEF z
    <3>2. CASE v \notin S /\ Cardinality(S) < MAX_ENTRIES
      <4>1. \A u \in S : Less(u, v) /\ ~Less(v, u)
        BY <2>6, <3>2
      <4>2. cg[p[k]] = v /\ cg[p[k + 1]] = v /\ dg[p[k]] # dg[p[k + 1]]
        BY <1>2, <2>2
      <4> QED
        BY <1>4, <1>5, <2>4, <2>6, <3>2, <4>1, <4>2, NamesNextNew DEF z
    <3>3. CASE v \notin S /\ ~(Cardinality(S) < MAX_ENTRIES)
      BY <1>5, <3>3, NamesNextFull DEF z
    <3> QED
      BY <3>1, <3>2, <3>3
  <2> QED
    BY <1>6, <2>1, <2>3, <2>7, Zenon DEF ListedWell, g, v, z
<1> QED
  BY <1>7, <1>8

LEMMA CollectedWell ==
  ASSUME NEW n \in Nat, n > 0, NEW s, NEW w, NEW p, NEW c, NEW d, NEW cg, NEW dg, NEW hits,
         Sides(n, s, w, p, c, d, cg, dg, hits)
  PROVE  ListedWell(Collected(s, p, hits, w), n, p, c, d, cg, dg, n)
<1>1. s \in Seq(Hash) /\ n = Len(s) /\ p \in [1 .. n -> 1 .. n]
  BY DEF Sides, Arrangements
<1>2. PICK u : CollectedBy(u, s, p, hits, w)
  BY <1>1, CollectedSteps
<1> DEFINE Good(k) == ListedWell(u[k], n, p, c, d, cg, dg, k)
           T == {j \in Nat : j + 1 <= n => Good(j + 1)}
<1>3. /\ u[1] = Nothing /\ Collected(s, p, hits, w) = u[n]
      /\ \A k \in 2 .. n : u[k] = CollectedAt(u[k - 1], s, p, hits, w, k)
  BY <1>1, <1>2 DEF CollectedBy
<1>4. Good(1)
  BY <1>3, NothingType, NoneListed, NoneNamed, Zenon DEF ListedWell
<1>5. ASSUME NEW k \in Nat, k > 0, k + 1 <= n, Good(k) PROVE Good(k + 1)
  <2>1. k + 1 \in 2 .. n /\ (k + 1) - 1 = k
    BY <1>5
  <2>2. u[k + 1] = CollectedAt(u[k], s, p, hits, w, k + 1)
    BY <1>3, <2>1
  <2> QED
    BY <1>5, <2>2, CollectedOn
<1> HIDE DEF Good
<1>6. 0 \in T
  BY <1>4
<1>7. ASSUME NEW j \in T PROVE j + 1 \in T
  <2>1. j \in Nat /\ j + 1 \in Nat /\ j + 1 > 0
    OBVIOUS
  <2>2. (j + 1) + 1 <= n => Good(j + 1) /\ (j + 1) + 1 <= n
    BY <2>1
  <2>3. (j + 1) + 1 <= n => Good((j + 1) + 1)
    BY <1>5, <2>1, <2>2
  <2> QED
    BY <2>1, <2>3
<1>8. T = Nat
  <2>1. T \in SUBSET Nat
    OBVIOUS
  <2> HIDE DEF T
  <2> QED
    BY <1>6, <1>7, <2>1, AllNaturals
<1>9. n - 1 \in Nat /\ (n - 1) + 1 = n /\ n <= n
  OBVIOUS
<1>10. Good(n)
  <2>1. n - 1 \in T
    BY <1>8, <1>9
  <2> QED
    BY <1>9, <2>1
<1> QED
  BY <1>3, <1>10 DEF Good

-----------------------------------------------------------------------------
(* The keys that first bits are.                                           *)

LEMMA MaskedMonotone ==
  ASSUME NEW h \in Hash, NEW g \in Hash, NEW w \in Int, Less(Masked(g, w), Masked(h, w))
  PROVE  Less(g, h)
<1>1. PICK b \in 1 .. bitlen : /\ Masked(g, w)[b] < Masked(h, w)[b]
                               /\ \A a \in 1 .. b-1 : Masked(g, w)[a] = Masked(h, w)[a]
  BY DEF Less
<1>2. \A a \in 1 .. bitlen : /\ Masked(g, w)[a] = IF a <= w THEN g[a] ELSE 0
                             /\ Masked(h, w)[a] = IF a <= w THEN h[a] ELSE 0
  BY DEF Masked
<1>3. b <= w
  BY <1>1, <1>2
<1>4. \A a \in 1 .. b-1 : a \in 1 .. bitlen /\ a <= w
  BY <1>3, BitLen
<1>5. g[b] < h[b] /\ \A a \in 1 .. b-1 : g[a] = h[a]
  BY <1>1, <1>2, <1>3, <1>4
<1> QED
  BY <1>5 DEF Less

LEMMA KeysRise ==
  ASSUME NEW s \in Seq(Hash), Sorted(s), NEW w \in Int
  PROVE  Prefixes(s, w) \in [1 .. Len(s) -> Hash] /\ Rising(Prefixes(s, w), Len(s))
<1> DEFINE n == Len(s)
           c == Prefixes(s, w)
<1>1. \A k \in 1 .. n : s[k] \in Hash /\ c[k] = Masked(s[k], w) /\ c[k] \in Hash
  <2>1. \A k \in 1 .. n : s[k] \in Hash /\ c[k] = Masked(s[k], w)
    BY DEF Prefixes
  <2> QED
    BY <2>1, MaskedHash
<1>2. c \in [1 .. n -> Hash]
  <2>1. c = [k \in 1 .. n |-> Masked(s[k], w)]
    BY DEF Prefixes
  <2> HIDE DEF c
  <2>2. \A k \in 1 .. n : Masked(s[k], w) \in Hash
    BY <1>1
  <2> QED
    BY <2>1, <2>2
<1> HIDE DEF c
<1>3. ASSUME NEW k \in 1 .. n, NEW l \in 1 .. n, k <= l
      PROVE  c[k] = c[l] \/ Less(c[k], c[l])
  <2>1. ~Less(s[l], s[k])
    BY <1>3 DEF Sorted
  <2>2. ~Less(c[l], c[k])
    BY <1>1, <2>1, MaskedMonotone
  <2> QED
    BY <1>1, <2>2, LessTotal
<1> QED
  BY <1>2, <1>3 DEF Rising, c

(* The finer keys: more of the first bits, or if more than there are, the  *)
(* places.                                                                 *)
Finer(s, prev, p) == IF prev <= bitlen THEN Prefixes(s, prev) ELSE p
Itself(n) == [k \in 1 .. n |-> k]

LEMMA FinerGathered ==
  ASSUME NEW s \in Seq(Hash), Sorted(s), NEW prev \in Nat, NEW p \in Arrangements(Len(s))
  PROVE  Gathered(Finer(s, prev, p), Len(s))
<1>1. CASE prev <= bitlen
  BY <1>1, KeysGathered DEF Finer
<1>2. CASE ~(prev <= bitlen)
  <2>1. Finer(s, prev, p) = p /\ \A k, l \in 1 .. Len(s) : p[k] = p[l] => k = l
    BY <1>2 DEF Finer, Arrangements
  <2> QED
    BY <2>1 DEF Gathered
<1> QED
  BY <1>1, <1>2

LEMMA SortedSides ==
  ASSUME NEW src \in Seq(Hash), NEW n \in Nat, n = Len(src), NEW p \in Arrangements(n),
         NEW s, s = At(src, p), Sorted(s), NEW w \in 0 .. bitlen, NEW prev \in Nat,
         NEW hits, \A k \in 2 .. n : k \in hits <=> w <= Common(s, k) /\ ~(prev <= Common(s, k))
  PROVE  Sides(n, s, w, p, Prefixes(s, w), Finer(s, prev, p),
               Prefixes(src, w), Finer(src, prev, Itself(n)), hits)
<1> DEFINE c == Prefixes(s, w)
           d == Finer(s, prev, p)
           cg == Prefixes(src, w)
           dg == Finer(src, prev, Itself(n))
<1>1. s \in Seq(Hash) /\ Len(s) = n
  BY AtHashes
<1>2. \A k \in 1 .. n : s[k] = src[p[k]] /\ p[k] \in 1 .. n
  BY AtPlaces
<1>3. \A v : \A k \in 1 .. n : Prefixes(s, v)[k] = Masked(s[k], v)
                               /\ Prefixes(src, v)[p[k]] = Prefixes(s, v)[k]
  BY <1>1, <1>2 DEF Prefixes
<1>4. InOrder(n, c, d)
  <2>1. w \in Int
    OBVIOUS
  <2>2. c \in [1 .. n -> Hash] /\ Rising(c, n) /\ Gathered(c, n)
    BY <1>1, <2>1, KeysRise, KeysGathered
  <2>3. Gathered(d, n)
    BY <1>1, FinerGathered
  <2> QED
    BY <2>2, <2>3 DEF InOrder
<1>5. \A k \in 1 .. n : dg[p[k]] = d[k]
  <2>1. \A k \in 1 .. n : Itself(n)[p[k]] = p[k]
    BY <1>2 DEF Itself
  <2>2. CASE prev <= bitlen
    BY <1>3, <2>2 DEF Finer
  <2>3. CASE ~(prev <= bitlen)
    BY <2>1, <2>3 DEF Finer
  <2> QED
    BY <2>2, <2>3
<1>6. ASSUME NEW k \in 2 .. n PROVE k \in hits <=> c[k] = c[k - 1] /\ d[k] # d[k - 1]
  <2>1. /\ Common(s, k) \in 0 .. bitlen
        /\ \A v \in 0 .. bitlen : Prefixes(s, v)[k] = Prefixes(s, v)[k - 1] <=> v <= Common(s, k)
    BY <1>1, CommonBits
  <2>2. c[k] = c[k - 1] <=> w <= Common(s, k)
    BY <2>1
  <2>3. d[k] = d[k - 1] <=> prev <= Common(s, k)
    <3>1. CASE prev <= bitlen
      <4>1. prev \in 0 .. bitlen /\ d = Prefixes(s, prev)
        BY <3>1, BitLen DEF Finer
      <4> QED
        BY <2>1, <4>1
    <3>2. CASE ~(prev <= bitlen)
      <4>1. ~(prev <= Common(s, k))
        BY <2>1, <3>2, BitLen
      <4>2. k \in 1 .. n /\ k - 1 \in 1 .. n /\ k # k - 1
        OBVIOUS
      <4>3. d = p /\ p[k] # p[k - 1]
        BY <3>2, <4>2 DEF Finer, Arrangements
      <4> QED
        BY <4>1, <4>3
    <3> QED
      BY <3>1, <3>2
  <2> HIDE DEF c, d
  <2> QED
    BY <2>2, <2>3
<1> HIDE DEF d, dg
<1>7. \A k \in 1 .. n : c[k] = Masked(s[k], w) /\ cg[p[k]] = c[k]
  BY <1>3
<1> QED
  BY <1>1, <1>4, <1>5, <1>6, <1>7, Zenon DEF Sides, d, dg

-----------------------------------------------------------------------------
(* What is to be listed, by definition.                                    *)
Colliding(n, cg, dg) == {v \in ValuesOf(cg, n) : Apart(dg, With(cg, n, v)) > 1}

LEMMA ApartCounted ==
  ASSUME NEW n \in Nat, n > 0, NEW s, NEW w, NEW p, NEW c, NEW d, NEW cg, NEW dg, NEW hits,
         Sides(n, s, w, p, c, d, cg, dg, hits), NEW v
  PROVE  Apart(dg, With(cg, n, v)) = IF With(c, n, v) = {} THEN 0
                                     ELSE 1 + Cardinality(FreshOf(c, d, n, v))
<1>1. /\ \A k \in 1 .. n : p[k] \in 1 .. n /\ cg[p[k]] = c[k] /\ dg[p[k]] = d[k]
      /\ \A l \in 1 .. n : \E k \in 1 .. n : p[k] = l
      /\ Gathered(c, n) /\ Gathered(d, n)
  BY DEF Sides, Arrangements, InOrder
<1>2. {dg[l] : l \in With(cg, n, v)} = {d[k] : k \in With(c, n, v)}
  <2>1. ASSUME NEW l \in With(cg, n, v) PROVE \E k \in With(c, n, v) : dg[l] = d[k]
    BY <1>1 DEF With
  <2>2. ASSUME NEW k \in With(c, n, v) PROVE \E l \in With(cg, n, v) : d[k] = dg[l]
    BY <1>1 DEF With
  <2> QED
    BY <2>1, <2>2
<1>3. n \in 1 .. n
  OBVIOUS
<1>4. Apart(d, With(c, n, v)) = IF With(c, n, v) = {} THEN 0
                                ELSE 1 + Cardinality(FreshOf(c, d, n, v))
  BY <1>1, <1>3, DifferingCounted
<1> QED
  BY <1>2, <1>4, Zenon DEF Apart

LEMMA CollidedAre ==
  ASSUME NEW n \in Nat, n > 0, NEW s, NEW w, NEW p, NEW c, NEW d, NEW cg, NEW dg, NEW hits,
         Sides(n, s, w, p, c, d, cg, dg, hits)
  PROVE  /\ Collided(c, d, n) = Colliding(n, cg, dg)
         /\ IsFiniteSet(Collided(c, d, n)) /\ Cardinality(Collided(c, d, n)) \in Nat
         /\ \A v \in Collided(c, d, n) :
              Apart(dg, With(cg, n, v)) = 1 + Cardinality(FreshOf(c, d, n, v))
<1>1. /\ \A k \in 1 .. n : p[k] \in 1 .. n /\ cg[p[k]] = c[k]
      /\ \A l \in 1 .. n : \E k \in 1 .. n : p[k] = l
  BY DEF Sides, Arrangements
<1>2. ASSUME NEW v PROVE v \in Collided(c, d, n) <=> FreshOf(c, d, n, v) # {}
  BY DEF Collided, FreshOf
<1>3. ASSUME NEW v
      PROVE  /\ FreshOf(c, d, n, v) \subseteq With(c, n, v)
             /\ FreshOf(c, d, n, v) # {} <=> Cardinality(FreshOf(c, d, n, v)) > 0
             /\ Cardinality(FreshOf(c, d, n, v)) \in Nat
  <2>1. \A k \in 2 .. n : k \in 1 .. n
    OBVIOUS
  <2>2. FreshOf(c, d, n, v) \subseteq With(c, n, v)
    BY <2>1 DEF FreshOf, Fresh, With
  <2>3. IsFiniteSet(FreshOf(c, d, n, v)) /\ Cardinality(FreshOf(c, d, n, v)) \in Nat
    BY FreshFinite
  <2> QED
    BY <2>2, <2>3, FS_EmptySet
<1>4. ASSUME NEW v PROVE v \in ValuesOf(cg, n) <=> With(c, n, v) # {}
  BY <1>1 DEF ValuesOf, With
<1>5. ASSUME NEW v
      PROVE  Apart(dg, With(cg, n, v)) = IF With(c, n, v) = {} THEN 0
                                         ELSE 1 + Cardinality(FreshOf(c, d, n, v))
  BY ApartCounted
<1>6. ASSUME NEW v
      PROVE  /\ v \in Collided(c, d, n) <=> v \in Colliding(n, cg, dg)
             /\ v \in Collided(c, d, n) =>
                  Apart(dg, With(cg, n, v)) = 1 + Cardinality(FreshOf(c, d, n, v))
  <2>1. v \in Colliding(n, cg, dg)
          <=> With(c, n, v) # {} /\ Apart(dg, With(cg, n, v)) > 1
    BY <1>4 DEF Colliding
  <2> DEFINE W == With(c, n, v)
             F == FreshOf(c, d, n, v)
             a == Apart(dg, With(cg, n, v))
  <2>2. /\ F \subseteq W /\ (F # {} <=> Cardinality(F) > 0) /\ Cardinality(F) \in Nat
        /\ a = IF W = {} THEN 0 ELSE 1 + Cardinality(F)
    BY <1>3, <1>5
  <2>3. v \in Collided(c, d, n) <=> F # {}
    BY <1>2
  <2> HIDE DEF W, F, a
  <2>4. (F # {} <=> W # {} /\ a > 1) /\ (F # {} => a = 1 + Cardinality(F))
    BY <2>2
  <2> QED
    BY <2>1, <2>3, <2>4 DEF W, F, a
<1>7. Collided(c, d, n) = Colliding(n, cg, dg)
  BY <1>6
<1>8. IsFiniteSet(Collided(c, d, n))
  <2> DEFINE F == Fresh(c, d, n)
  <2>1. F \subseteq 1 .. n
    BY DEF Fresh
  <2>2. IsFiniteSet(F)
    BY <2>1, Interval, FiniteSubset
  <2>3. Collided(c, d, n) = {c[k] : k \in F}
    BY DEF Collided
  <2> HIDE DEF F
  <2>4. IsFiniteSet({c[k] : k \in F})
    <3> DEFINE h == [k \in F |-> c[k]]
               T == {c[k] : k \in F}
    <3>1. h \in Surjection(F, T)
      BY DEF Surjection
    <3> HIDE DEF h, T
    <3>2. IsFiniteSet(T)
      BY <2>2, <3>1, FS_Surjection
    <3> QED
      BY <3>2 DEF T
  <2> QED
    BY <2>3, <2>4
<1> QED
  BY <1>6, <1>7, <1>8, FS_CardinalityType

ListingRight(f, n, cg, dg) ==
  /\ DOMAIN f.collisions \subseteq Colliding(n, cg, dg)
  /\ Cardinality(DOMAIN f.collisions) = IF MAX_ENTRIES <= Cardinality(Colliding(n, cg, dg))
                                        THEN MAX_ENTRIES ELSE Cardinality(Colliding(n, cg, dg))
  /\ Cardinality(Colliding(n, cg, dg)) \in Nat
  /\ \A v \in DOMAIN f.collisions, u \in Colliding(n, cg, dg) \ DOMAIN f.collisions : Less(v, u)
  /\ \A v \in DOMAIN f.collisions :
       /\ f.collisions[v] \in Nat /\ f.collisions[v] = Apart(dg, With(cg, n, v))
       /\ \A j \in 1 .. Listed(f.collisions[v]) :
            ~(Offset(f, v) + j > Len(f.collisionidxs)) /\ Name(f, v, j) \in With(cg, n, v)
       /\ Cardinality({dg[Name(f, v, j)] : j \in 1 .. Listed(f.collisions[v])})
            = Listed(f.collisions[v])

LEMMA ListingOfCollected ==
  ASSUME NEW n \in Nat, n > 0, NEW s, NEW w, NEW p, NEW c, NEW d, NEW cg, NEW dg, NEW hits,
         Sides(n, s, w, p, c, d, cg, dg, hits)
  PROVE  ListingRight(Collected(s, p, hits, w), n, cg, dg)
<1> DEFINE f == Collected(s, p, hits, w)
           S == DOMAIN f.collisions
           All == Collided(c, d, n)
<1>1. /\ f \in Collections(1 .. n) /\ ValuesListed(f, c, d, n)
      /\ NamesListed(f, cg, dg, MetBy(p, n))
  BY CollectedWell DEF ListedWell
<1> HIDE DEF f
<1>2. /\ S \subseteq All /\ IsFiniteSet(S) /\ Cardinality(S) <= MAX_ENTRIES
      /\ S = All \/ Cardinality(S) = MAX_ENTRIES
      /\ \A v \in S : /\ f.collisions[v] = 1 + Cardinality(FreshOf(c, d, n, v))
                      /\ \A u \in All \ S : Less(v, u)
  BY <1>1 DEF ValuesListed
<1>3. /\ All = Colliding(n, cg, dg) /\ IsFiniteSet(All) /\ Cardinality(All) \in Nat
      /\ \A v \in All : Apart(dg, With(cg, n, v)) = 1 + Cardinality(FreshOf(c, d, n, v))
  BY CollidedAre
<1> HIDE DEF All
<1>4. Cardinality(S) = IF MAX_ENTRIES <= Cardinality(All) THEN MAX_ENTRIES ELSE Cardinality(All)
  <2>1. Cardinality(S) <= Cardinality(All) /\ Cardinality(S) \in Nat
    BY <1>2, <1>3, FiniteSubset
  <2> QED
    BY <1>2, <1>3, <2>1, PerEntry
<1>5. \A k \in 1 .. n : p[k] \in 1 .. n
  BY DEF Sides, Arrangements
<1>6. ASSUME NEW v \in S
      PROVE  /\ f.collisions[v] \in Nat /\ f.collisions[v] = Apart(dg, With(cg, n, v))
             /\ \A j \in 1 .. Listed(f.collisions[v]) :
                  ~(Offset(f, v) + j > Len(f.collisionidxs)) /\ Name(f, v, j) \in With(cg, n, v)
             /\ Cardinality({dg[Name(f, v, j)] : j \in 1 .. Listed(f.collisions[v])})
                  = Listed(f.collisions[v])
  <2>1. f.collisions[v] \in Nat /\ Len(f.collisionidxs) \in Nat
    BY <1>1 DEF Collections
  <2>2. f.collisions[v] = Apart(dg, With(cg, n, v))
    BY <1>2, <1>3
  <2> DEFINE x == Listed(f.collisions[v])
             L == 1 .. x
             N(j) == Name(f, v, j)
  <2>3. x \in Nat
    BY <2>1, PerEntry DEF Listed
  <2>4. \A j \in L : /\ Offset(f, v) + j <= Len(f.collisionidxs)
                     /\ N(j) \in MetBy(p, n) /\ cg[N(j)] = v
                     /\ \A l \in L : l # j => dg[N(l)] # dg[N(j)]
    BY <1>1, Zenon DEF NamesListed, NamedWell
  <2>5. \A j \in L : N(j) \in With(cg, n, v)
    BY <1>5, <2>4 DEF MetBy, With
  <2>6. \A j \in L : ~(Offset(f, v) + j > Len(f.collisionidxs))
    <3>1. Offset(f, v) \in Nat
      BY <1>2, OffsetTaken
    <3> QED
      BY <2>1, <2>3, <2>4, <3>1
  <2>7. IsFiniteSet(L) /\ Cardinality(L) = x
    BY <2>3, Interval
  <2>8. Cardinality({dg[N(j)] : j \in L}) = x
    <3> HIDE DEF x, L, N
    <3> DEFINE h == [j \in L |-> dg[N(j)]]
               T == {dg[N(j)] : j \in L}
    <3>1. h \in [L -> T] /\ (\A j \in L : h[j] = dg[N(j)]) /\ \A t \in T : \E j \in L : h[j] = t
      OBVIOUS
    <3>2. \A j, l \in L : h[j] = h[l] => j = l
      BY <2>4
    <3> HIDE DEF h, T
    <3>3. h \in Bijection(L, T)
      BY <3>1, <3>2 DEF Bijection, Injection, IsInjective, Surjection
    <3>4. Cardinality(T) = Cardinality(L)
      BY <2>7, <3>3, FS_Bijection DEF ExistsBijection
    <3> QED
      BY <2>7, <3>4 DEF T
  <2> HIDE DEF N
  <2> QED
    BY <2>1, <2>2, <2>5, <2>6, <2>8, Zenon DEF N
<1> QED
  BY <1>2, <1>3, <1>4, <1>6, Zenon DEF ListingRight, f

-----------------------------------------------------------------------------
(* What TestCollisions() lists.                                            *)

Listing(f, src, w, prev) ==
  ListingRight(f, Len(src), Prefixes(src, w), Finer(src, prev, Itself(Len(src))))

LEMMA FoundListing ==
  ASSUME NEW src \in Seq(Hash), Len(src) > 0, NEW p \in Arrangements(Len(src)),
         Sorted(At(src, p))
  PROVE  Listing(FindCollisions(At(src, p), p), src, bitlen, bitlen + 1)
<1> DEFINE s == At(src, p)
           n == Len(src)
           hits == {k \in 2 .. Len(s) : s[k] = s[k - 1]}
<1>1. n \in Nat /\ n > 0 /\ bitlen \in 0 .. bitlen /\ bitlen + 1 \in Nat /\ bitlen \in Nat
  BY BitLen
<1>2. s \in Seq(Hash) /\ Len(s) = n
  BY <1>1, AtHashes
<1> HIDE DEF s
<1>3. ASSUME NEW k \in 2 .. n
      PROVE  k \in hits <=> bitlen <= Common(s, k) /\ ~(bitlen + 1 <= Common(s, k))
  <2>1. /\ Common(s, k) \in 0 .. bitlen
        /\ Prefixes(s, bitlen)[k] = Prefixes(s, bitlen)[k - 1] <=> bitlen <= Common(s, k)
    BY <1>1, <1>2, CommonBits
  <2>2. k \in 1 .. n /\ k - 1 \in 1 .. n /\ s[k] \in Hash /\ s[k - 1] \in Hash
    BY <1>2
  <2>3. Masked(s[k], bitlen) = s[k] /\ Masked(s[k - 1], bitlen) = s[k - 1]
    BY <1>1, <2>2, MaskedWhole
  <2>4. Prefixes(s, bitlen)[k] = s[k] /\ Prefixes(s, bitlen)[k - 1] = s[k - 1]
    BY <1>2, <2>2, <2>3 DEF Prefixes
  <2>5. k \in hits <=> s[k] = s[k - 1]
    BY <1>2
  <2>6. ~(bitlen + 1 <= Common(s, k))
    BY <1>1, <2>1
  <2> QED
    BY <2>1, <2>4, <2>5, <2>6
<1> HIDE DEF hits
<1>4. Sides(n, s, bitlen, p, Prefixes(s, bitlen), Finer(s, bitlen + 1, p),
            Prefixes(src, bitlen), Finer(src, bitlen + 1, Itself(n)), hits)
  BY <1>1, <1>3, SortedSides DEF s
<1>5. ListingRight(Collected(s, p, hits, bitlen), n, Prefixes(src, bitlen),
                   Finer(src, bitlen + 1, Itself(n)))
  BY <1>1, <1>4, ListingOfCollected
<1> QED
  BY <1>5, Zenon DEF Listing, FindCollisions, s, hits

LEMMA PrefixListing ==
  ASSUME NEW src \in Seq(Hash), Len(src) > 0, NEW p \in Arrangements(Len(src)),
         Sorted(At(src, p)), NEW w \in 0 .. bitlen, NEW prev \in Nat
  PROVE  Listing(FindCollisionsPrefixesIndices(At(src, p), p, w, prev), src, w, prev)
<1> DEFINE s == At(src, p)
           n == Len(src)
           hits == {k \in 2 .. Len(s) : R!highzerobits(s[k - 1], s[k]) \in w .. prev - 1}
<1>1. n \in Nat /\ n > 0 /\ bitlen \in Nat
  BY BitLen
<1>2. s \in Seq(Hash) /\ Len(s) = n
  BY <1>1, AtHashes
<1> HIDE DEF s
<1>3. ASSUME NEW k \in 2 .. n
      PROVE  k \in hits <=> w <= Common(s, k) /\ ~(prev <= Common(s, k))
  <2>1. Common(s, k) \in 0 .. bitlen
    BY <1>2, CommonBits
  <2>2. k \in hits <=> Common(s, k) \in w .. prev - 1
    BY <1>2 DEF Common
  <2> QED
    BY <1>1, <2>1, <2>2
<1> HIDE DEF hits
<1>4. Sides(n, s, w, p, Prefixes(s, w), Finer(s, prev, p),
            Prefixes(src, w), Finer(src, prev, Itself(n)), hits)
  BY <1>1, <1>3, SortedSides DEF s
<1>5. ListingRight(Collected(s, p, hits, w), n, Prefixes(src, w), Finer(src, prev, Itself(n)))
  BY <1>1, <1>4, ListingOfCollected
<1> QED
  BY <1>5, Zenon DEF Listing, FindCollisionsPrefixesIndices, s, hits

LEMMA LesserOf == \A a, b \in Nat : Min({a, b}) = IF a <= b THEN a ELSE b
<1> TAKE a, b \in Nat
<1> DEFINE S == {a, b}
<1>1. S \in SUBSET Nat /\ S # {}
  OBVIOUS
<1> HIDE DEF S
<1>2. Min(S) \in S /\ \A y \in S : Min(S) <= y
  BY <1>1, SmallestOf
<1> QED
  BY <1>2 DEF S

(* What is printed of it.                                                  *)
LEMMA PrintedLines ==
  ASSUME NEW f, \A v \in DOMAIN f.collisions :
           /\ f.collisions[v] \in Nat
           /\ \A j \in 1 .. Listed(f.collisions[v]) : ~(Offset(f, v) + j > Len(f.collisionidxs))
  PROVE  LET lines == PrintCollisions(f) IN
         /\ DOMAIN lines = DOMAIN f.collisions
         /\ \A v \in DOMAIN f.collisions :
              /\ lines[v].count = f.collisions[v]
              /\ lines[v].idxs = [j \in 1 .. Listed(f.collisions[v]) |-> Name(f, v, j)]
<1> DEFINE shown(v) == Min({f.collisions[v], MAX_PER_ENTRY})
           idxs(v) == [j \in 1 .. shown(v) |->
                         IF Offset(f, v) + j > Len(f.collisionidxs) THEN 0
                         ELSE f.collisionidxs[Offset(f, v) + j]]
           lines == PrintCollisions(f)
<1>1. lines = [v \in DOMAIN f.collisions |-> [count |-> f.collisions[v], idxs |-> idxs(v)]]
  BY Zenon DEF PrintCollisions, Offset
<1>2. ASSUME NEW v \in DOMAIN f.collisions
      PROVE  idxs(v) = [j \in 1 .. Listed(f.collisions[v]) |-> Name(f, v, j)]
  <2>1. shown(v) = Listed(f.collisions[v])
    BY PerEntry, LesserOf DEF Listed
  <2>2. \A j \in 1 .. Listed(f.collisions[v]) :
          (IF Offset(f, v) + j > Len(f.collisionidxs) THEN 0
           ELSE f.collisionidxs[Offset(f, v) + j]) = Name(f, v, j)
    BY DEF Name
  <2> QED
    BY <2>1, <2>2, Zenon
<1> HIDE DEF idxs, lines
<1>3. ASSUME NEW v \in DOMAIN f.collisions
      PROVE  lines[v].count = f.collisions[v] /\ lines[v].idxs = idxs(v)
  <2>1. lines[v] = [count |-> f.collisions[v], idxs |-> idxs(v)]
    BY <1>1
  <2> QED
    BY <2>1
<1>4. DOMAIN lines = DOMAIN f.collisions
  BY <1>1
<1> QED
  BY <1>2, <1>3, <1>4, Zenon DEF lines

(* The property, of what is printed (pr) about the hashes g.               *)
SharingOf(g, high, n, v) == {k \in DOMAIN g : Masked(ReadOf(g, k, high), n) = v}
SharedOf(g, high, n) == {Masked(ReadOf(g, k, high), n) : k \in DOMAIN g}
DifferingOf(g, high, n, K) ==
  IF n > bitlen THEN Cardinality(K) ELSE Cardinality({Masked(ReadOf(g, k, high), n) : k \in K})
AllOf(g, pr) ==
  {v \in SharedOf(g, pr.high, pr.bits) :
     DifferingOf(g, pr.high, pr.prev, SharingOf(g, pr.high, pr.bits, v)) > 1}

NamedRight(g, pr) ==
  /\ DOMAIN pr.lines \subseteq AllOf(g, pr)
  /\ Cardinality(DOMAIN pr.lines) = Min({MAX_ENTRIES, Cardinality(AllOf(g, pr))})
  /\ \A v \in DOMAIN pr.lines, u \in AllOf(g, pr) \ DOMAIN pr.lines : Less(v, u)
  /\ \A v \in DOMAIN pr.lines :
       /\ pr.lines[v].count
            = DifferingOf(g, pr.high, pr.prev, SharingOf(g, pr.high, pr.bits, v))
       /\ Len(pr.lines[v].idxs) = Min({pr.lines[v].count, MAX_PER_ENTRY})
       /\ Elems(pr.lines[v].idxs) \subseteq SharingOf(g, pr.high, pr.bits, v)
       /\ DifferingOf(g, pr.high, pr.prev, Elems(pr.lines[v].idxs)) = Len(pr.lines[v].idxs)

LEMMA NamedMeans == CollisionsNamed <=> (printed # <<>> => NamedRight(given, printed))
<1>1. \A high, n, v : Sharing(high, n, v) = SharingOf(given, high, n, v)
  BY Zenon DEF Sharing, SharingOf, Read, ReadOf
<1>2. \A high, n : Shared(high, n) = SharedOf(given, high, n)
  BY Zenon DEF Shared, SharedOf, Read, ReadOf
<1>3. \A high, n, K : Differing(high, n, K) = DifferingOf(given, high, n, K)
  BY Zenon DEF Differing, DifferingOf, Read, ReadOf
<1>4. {v \in Shared(printed.high, printed.bits) :
         Differing(printed.high, printed.prev, Sharing(printed.high, printed.bits, v)) > 1}
        = AllOf(given, printed)
  BY <1>1, <1>2, <1>3 DEF AllOf
<1> QED
  BY <1>1, <1>3, <1>4, Zenon DEF CollisionsNamed, NamedRight

(* The hashes g as they are read.                                          *)
ReadAs(src, g, high) ==
  /\ Len(src) \in Nat /\ DOMAIN g = 1 .. Len(src)
  /\ \A k \in 1 .. Len(src) : ReadOf(g, k, high) = src[k]

(* The hashes given, and those read from their other end.                  *)
LEMMA ReadSource ==
  ASSUME given \in Lists
  PROVE  ReadAs(given, given, TRUE) /\ ReadAs(GivenRev, given, FALSE)
<1>1. /\ given \in Seq(Hash) /\ Len(given) \in Nat
      /\ GivenRev \in Seq(Hash) /\ Len(GivenRev) = Len(given)
      /\ \A k \in 1 .. Len(given) : GivenRev[k] = reversebits(given[k])
  BY GivenList
<1>2. DOMAIN given = 1 .. Len(given)
  BY <1>1
<1>3. \A k : ReadOf(given, k, TRUE) = given[k] /\ ReadOf(given, k, FALSE) = reversebits(given[k])
  BY DEF ReadOf
<1> QED
  BY <1>1, <1>2, <1>3 DEF ReadAs

(* The words of the property, in those of the proof.                       *)
Reads(g, high, n, cg, dg, w, prev) ==
  /\ SharedOf(g, high, w) = ValuesOf(cg, n)
  /\ \A v : SharingOf(g, high, w, v) = With(cg, n, v)
  /\ \A K \in SUBSET (1 .. n) : DifferingOf(g, high, prev, K) = Apart(dg, K)

LEMMA SourceKeys ==
  ASSUME NEW g, NEW high, NEW src, ReadAs(src, g, high), NEW w, NEW prev \in Nat
  PROVE  Reads(g, high, Len(src), Prefixes(src, w), Finer(src, prev, Itself(Len(src))), w, prev)
<1> DEFINE n == Len(src)
           cg == Prefixes(src, w)
           dg == Finer(src, prev, Itself(n))
<1>0. DOMAIN g = 1 .. n /\ \A k \in 1 .. n : ReadOf(g, k, high) = src[k]
  BY DEF ReadAs
<1>1. \A v : \A k \in 1 .. n : Prefixes(src, v)[k] = Masked(ReadOf(g, k, high), v)
  BY <1>0 DEF Prefixes
<1>2. SharedOf(g, high, w) = ValuesOf(cg, n)
  BY <1>0, <1>1, Zenon DEF SharedOf, ValuesOf
<1>3. \A v : SharingOf(g, high, w, v) = With(cg, n, v)
  BY <1>0, <1>1, Zenon DEF SharingOf, With
<1>4. ASSUME NEW K \in SUBSET (1 .. n) PROVE DifferingOf(g, high, prev, K) = Apart(dg, K)
  <2>1. CASE prev <= bitlen
    <3>1. \A k \in K : dg[k] = Masked(ReadOf(g, k, high), prev)
      BY <1>1, <2>1 DEF Finer
    <3>2. ~(prev > bitlen)
      BY <2>1, BitLen
    <3> HIDE DEF dg
    <3> QED
      BY <3>1, <3>2, Zenon DEF DifferingOf, Apart
  <2>2. CASE ~(prev <= bitlen)
    <3>1. \A k \in K : dg[k] = k
      BY <2>2 DEF Finer, Itself
    <3>2. prev > bitlen
      BY <2>2, BitLen
    <3> HIDE DEF dg
    <3>3. {dg[k] : k \in K} = K
      BY <3>1
    <3> QED
      BY <3>2, <3>3, Zenon DEF DifferingOf, Apart
  <2> QED
    BY <2>1, <2>2
<1> QED
  BY <1>2, <1>3, <1>4 DEF Reads

LEMMA ListingPrinted ==
  ASSUME NEW g, NEW high, NEW src, ReadAs(src, g, high), NEW w, NEW prev \in Nat, NEW f, Listing(f, src, w, prev),
         NEW pr, pr.bits = w, pr.prev = prev, pr.high = high, pr.lines = PrintCollisions(f)
  PROVE  NamedRight(g, pr)
<1> DEFINE n == Len(src)
           cg == Prefixes(src, w)
           dg == Finer(src, prev, Itself(n))
           S == DOMAIN f.collisions
           All == Colliding(n, cg, dg)
           lines == PrintCollisions(f)
<1>1. ListingRight(f, n, cg, dg)
  BY DEF Listing
<1>2. /\ SharedOf(g, high, w) = ValuesOf(cg, n)
      /\ \A v : SharingOf(g, high, w, v) = With(cg, n, v)
      /\ \A K \in SUBSET (1 .. n) : DifferingOf(g, high, prev, K) = Apart(dg, K)
  <2>1. Reads(g, high, n, cg, dg, w, prev)
    BY SourceKeys
  <2> QED
    BY <2>1 DEF Reads
<1> HIDE DEF cg, dg
<1>3. \A v : With(cg, n, v) \in SUBSET (1 .. n)
  BY DEF With
<1>4. \A v : DifferingOf(g, high, prev, SharingOf(g, high, w, v)) = Apart(dg, With(cg, n, v))
  BY <1>2, <1>3
<1>5. AllOf(g, pr) = All
  <2>1. AllOf(g, pr) = {v \in ValuesOf(cg, n) : Apart(dg, With(cg, n, v)) > 1}
    BY <1>2, <1>4 DEF AllOf
  <2> QED
    BY <2>1 DEF Colliding
<1>6. /\ S \subseteq All
      /\ Cardinality(S) = IF MAX_ENTRIES <= Cardinality(All) THEN MAX_ENTRIES ELSE Cardinality(All)
      /\ Cardinality(All) \in Nat
      /\ \A v \in S, u \in All \ S : Less(v, u)
      /\ \A v \in S :
           /\ f.collisions[v] \in Nat /\ f.collisions[v] = Apart(dg, With(cg, n, v))
           /\ \A j \in 1 .. Listed(f.collisions[v]) :
                ~(Offset(f, v) + j > Len(f.collisionidxs)) /\ Name(f, v, j) \in With(cg, n, v)
           /\ Cardinality({dg[Name(f, v, j)] : j \in 1 .. Listed(f.collisions[v])})
                = Listed(f.collisions[v])
  BY <1>1, Zenon DEF ListingRight
<1>7. /\ DOMAIN lines = S
      /\ \A v \in S :
           /\ lines[v].count = f.collisions[v]
           /\ lines[v].idxs = [j \in 1 .. Listed(f.collisions[v]) |-> Name(f, v, j)]
  BY <1>6, PrintedLines
<1> HIDE DEF S, All, lines
<1>8. Cardinality(S) = Min({MAX_ENTRIES, Cardinality(All)})
  BY <1>6, PerEntry, LesserOf
<1>9. ASSUME NEW v \in S
      PROVE  /\ lines[v].count = DifferingOf(g, high, prev, SharingOf(g, high, w, v))
             /\ Len(lines[v].idxs) = Min({lines[v].count, MAX_PER_ENTRY})
             /\ Elems(lines[v].idxs) \subseteq SharingOf(g, high, w, v)
             /\ DifferingOf(g, high, prev, Elems(lines[v].idxs)) = Len(lines[v].idxs)
  <2> DEFINE x == Listed(f.collisions[v])
             N(j) == Name(f, v, j)
             ids == lines[v].idxs
  <2>1. x \in Nat /\ x = Min({lines[v].count, MAX_PER_ENTRY})
    BY <1>6, <1>7, PerEntry, LesserOf DEF Listed
  <2>2. ids = [j \in 1 .. x |-> N(j)]
    BY <1>7
  <2>3. (\A j \in 1 .. x : N(j) \in With(cg, n, v)) /\ Cardinality({dg[N(j)] : j \in 1 .. x}) = x
    BY <1>6, Zenon
  <2>4. lines[v].count = DifferingOf(g, high, prev, SharingOf(g, high, w, v))
    BY <1>4, <1>6, <1>7
  <2> HIDE DEF x, N, ids
  <2>5. Len(ids) = x /\ Elems(ids) = {N(j) : j \in 1 .. x}
    BY <2>1, <2>2 DEF Elems
  <2>6. Elems(ids) \in SUBSET (1 .. n) /\ Elems(ids) \subseteq With(cg, n, v)
    BY <1>3, <2>3, <2>5
  <2>7. Apart(dg, Elems(ids)) = x
    <3>1. {dg[k] : k \in Elems(ids)} = {dg[N(j)] : j \in 1 .. x}
      BY <2>5
    <3> QED
      BY <2>3, <3>1, Zenon DEF Apart
  <2>8. DifferingOf(g, high, prev, Elems(ids)) = Len(ids)
    BY <1>2, <2>5, <2>6, <2>7
  <2>9. Elems(ids) \subseteq SharingOf(g, high, w, v)
    BY <1>2, <2>6
  <2> QED
    BY <2>1, <2>4, <2>5, <2>8, <2>9, Zenon DEF ids
<1>10. pr.lines = lines /\ pr.high = high /\ pr.bits = w /\ pr.prev = prev
  BY DEF lines
<1> QED
  BY <1>5, <1>6, <1>7, <1>8, <1>9, <1>10, Zenon DEF NamedRight

-----------------------------------------------------------------------------
(* Until the first report, what was found stays; and of each end a width   *)
(* is remembered.                                                          *)
FoundInv ==
  /\ prevBits \in [BOOLEAN -> Nat]
  /\ part # "find" /\ reported = 0 /\ set.diagrams =>
       found = FindCollisions(hashes_fwd, hashidxs_fwd)

LEMMA OrderPlaces ==
  ASSUME NEW s, NEW idxs, NEW src, NEW st, OrderOf(s, idxs, src, st), st.diagrams
  PROVE  idxs \in Arrangements(Len(src)) /\ s = At(src, idxs)
BY Zenon DEF OrderOf

LEMMA ListingOfReport ==
  ASSUME AnalysisInv, FoundInv, part = "report", reported < NbReports, set.diagrams,
         NEW r, r = NextReport, NEW n \in r.bits,
         NEW prev, prev = IF r.kind = "width" THEN prevBits[r.high] ELSE bitlen + 1,
         NEW f, f = IF r.kind = "all" THEN found
                    ELSE IF r.high THEN FindCollisionsPrefixesIndices(hashes_fwd, hashidxs_fwd, n, prev)
                    ELSE FindCollisionsPrefixesIndices(hashes_rev, hashidxs_rev, n, prev)
  PROVE  /\ prev \in Nat /\ n \in Nat /\ r.high \in BOOLEAN
         /\ Listing(f, IF r.high THEN given ELSE GivenRev, n, prev)
<1>1. given \in Lists /\ set \in Settings /\ reported \in Nat
  BY DEF AnalysisInv, ListInv, TallyInv
<1>2. /\ given \in Seq(Hash) /\ Len(given) > 0 /\ GivenRev \in Seq(Hash) /\ Len(GivenRev) > 0
  BY <1>1, GivenList
<1>3. /\ hashidxs_fwd \in Arrangements(Len(given)) /\ hashes_fwd = At(given, hashidxs_fwd)
      /\ Sorted(hashes_fwd)
  <2>1. OrderOf(hashes_fwd, hashidxs_fwd, given, set) /\ Sorted(hashes_fwd)
    BY DEF AnalysisInv, ListInv
  <2> QED
    BY <2>1, OrderPlaces
<1>4. set.low /\ maxBits > 0 =>
        /\ hashidxs_rev \in Arrangements(Len(GivenRev)) /\ hashes_rev = At(GivenRev, hashidxs_rev)
        /\ Sorted(hashes_rev)
  <2> SUFFICES ASSUME set.low, maxBits > 0
               PROVE  /\ hashidxs_rev \in Arrangements(Len(GivenRev))
                      /\ hashes_rev = At(GivenRev, hashidxs_rev)
                      /\ Sorted(hashes_rev)
    OBVIOUS
  <2>1. OrderOf(hashes_rev, hashidxs_rev, GivenRev, set) /\ Sorted(hashes_rev)
    BY DEF AnalysisInv, ListInv
  <2> QED
    BY <2>1, OrderPlaces
<1>5. \/ reported = 0 /\ r = [kind |-> "all", bits |-> {bitlen}, high |-> TRUE]
      \/ /\ reported > 0
         /\ \E high \in BOOLEAN :
              /\ (high /\ set.high) \/ (~high /\ set.low)
              /\ \/ \E w \in nbBitsvec :
                      r = [kind |-> "width", bits |-> {w}, high |-> high]
                 \/ r = [kind |-> "summary", bits |-> TestedBits, high |-> high]
  BY <1>1, NextReports
<1>6. bitlen \in Nat /\ bitlen + 1 \in Nat
  BY BitLen
<1>7. CASE reported = 0 /\ r = [kind |-> "all", bits |-> {bitlen}, high |-> TRUE]
  <2>1. r.kind = "all" /\ r.kind # "width" /\ r.high = TRUE /\ n = bitlen
    BY <1>7
  <2>2. f = found /\ prev = bitlen + 1 /\ (IF r.high THEN given ELSE GivenRev) = given
    BY <2>1, Zenon
  <2>3. found = FindCollisions(hashes_fwd, hashidxs_fwd)
    BY <1>7 DEF FoundInv
  <2>4. Listing(found, given, bitlen, bitlen + 1)
    BY <1>2, <1>3, <2>3, FoundListing
  <2>5. r.high \in BOOLEAN
    BY <2>1
  <2> QED
    BY <1>6, <2>1, <2>2, <2>4, <2>5, Zenon
<1>8. ASSUME NEW high \in BOOLEAN, (high /\ set.high) \/ (~high /\ set.low),
             r.high = high, r.kind # "all", n \in combinedBits
      PROVE  /\ prev \in Nat /\ n \in Nat /\ r.high \in BOOLEAN
             /\ Listing(f, IF r.high THEN given ELSE GivenRev, n, prev)
  <2>1. n \in 0 .. bitlen /\ maxBits > 0
    <3>1. n \in 1 .. bitlen - 1 /\ maxBits > 0
      BY <1>1, <1>8, WidthBounds
    <3> QED
      BY <1>6, <3>1
  <2>2. prev \in Nat
    <3>1. prevBits[r.high] \in Nat
      BY <1>8 DEF FoundInv
    <3> QED
      BY <1>6, <3>1
  <2>3. CASE high = TRUE
    <3>1. /\ f = FindCollisionsPrefixesIndices(hashes_fwd, hashidxs_fwd, n, prev)
          /\ (IF r.high THEN given ELSE GivenRev) = given
      BY <1>8, <2>3, Zenon
    <3>2. Listing(f, given, n, prev)
      BY <1>2, <1>3, <2>1, <2>2, <3>1, PrefixListing
    <3> QED
      BY <1>8, <2>1, <2>2, <3>1, <3>2
  <2>4. CASE high = FALSE
    <3>1. /\ f = FindCollisionsPrefixesIndices(hashes_rev, hashidxs_rev, n, prev)
          /\ (IF r.high THEN given ELSE GivenRev) = GivenRev
      BY <1>8, <2>4, Zenon
    <3>2. set.low
      BY <1>8, <2>4
    <3>3. Listing(f, GivenRev, n, prev)
      BY <1>2, <1>4, <2>1, <2>2, <3>1, <3>2, PrefixListing
    <3> QED
      BY <1>8, <2>1, <2>2, <3>1, <3>3
  <2> QED
    BY <1>8, <2>3, <2>4
<1>9. ASSUME NEW high \in BOOLEAN, (high /\ set.high) \/ (~high /\ set.low),
             NEW w \in nbBitsvec, r = [kind |-> "width", bits |-> {w}, high |-> high]
      PROVE  /\ prev \in Nat /\ n \in Nat /\ r.high \in BOOLEAN
             /\ Listing(f, IF r.high THEN given ELSE GivenRev, n, prev)
  <2>1. r.kind # "all" /\ r.high = high /\ n \in combinedBits
    BY <1>9 DEF combinedBits
  <2> QED
    BY <1>8, <1>9, <2>1, Zenon
<1>10. ASSUME NEW high \in BOOLEAN, (high /\ set.high) \/ (~high /\ set.low),
              r = [kind |-> "summary", bits |-> TestedBits, high |-> high]
       PROVE  /\ prev \in Nat /\ n \in Nat /\ r.high \in BOOLEAN
              /\ Listing(f, IF r.high THEN given ELSE GivenRev, n, prev)
  <2>1. r.kind # "all" /\ r.high = high /\ n \in combinedBits
    BY <1>10 DEF combinedBits
  <2> QED
    BY <1>8, <1>10, <2>1, Zenon
<1> QED
  BY <1>5, <1>7, <1>9, <1>10, Zenon

(* What is printed with a report.                                          *)
Prev(r) == IF r.kind = "width" THEN prevBits[r.high] ELSE bitlen + 1

LEMMA ReportPrints ==
  ASSUME Report
  PROVE  LET r == NextReport IN
         /\ part = "report" /\ reported < NbReports /\ reported' = reported + 1
         /\ UNCHANGED <<given, set, part, hashes_fwd, hashidxs_fwd>>
         /\ \/ printed' = <<>> /\ prevBits' = prevBits
            \/ /\ set.diagrams
               /\ \E n \in r.bits :
                    /\ List(r, n, Prev(r))
                    /\ prevBits' = IF r.kind = "width" THEN [prevBits EXCEPT ![r.high] = n] ELSE prevBits
<1> DEFINE r == NextReport
<1> HIDE DEF r
<1>1. /\ part = "report" /\ reported < NbReports /\ reported' = reported + 1
      /\ UNCHANGED <<given, set, part, list>>
      /\ \E fails \in BOOLEAN :
           IF fails /\ set.diagrams
           THEN \E n \in r.bits :
                  /\ List(r, n, Prev(r))
                  /\ prevBits' = IF r.kind = "width" THEN [prevBits EXCEPT ![r.high] = n] ELSE prevBits
           ELSE printed' = <<>> /\ UNCHANGED <<found, prevBits>>
  BY Zenon DEF Report, r, Prev
<1>2. UNCHANGED <<hashes_fwd, hashidxs_fwd>>
  BY <1>1 DEF list
<1> QED
  BY <1>1, <1>2, Zenon DEF r

LEMMA FoundStep ==
  ASSUME AnalysisInv, FoundInv, [CollisionsNext]_collisionsVars
  PROVE  FoundInv'
<1>1. CASE UNCHANGED <<set, prevBits, found>> /\ part # "find" /\
           (set.diagrams => UNCHANGED <<hashes_fwd, hashidxs_fwd>>) /\ reported' = reported
  BY <1>1 DEF FoundInv
<1>2. CASE UNCHANGED collisionsVars
  BY <1>2 DEF FoundInv, collisionsVars, list, reports
<1>3. CASE Find
  BY <1>3 DEF Find, FoundInv, reports
<1>4. CASE CountHigh
  BY <1>1, <1>4 DEF CountHigh, list, reports
<1>5. CASE HighCounted
  BY <1>1, <1>5 DEF HighCounted, list, reports
<1>6. CASE CountLow
  BY <1>1, <1>6 DEF CountLow, reports
<1>7. CASE LowCounted
  BY <1>1, <1>7 DEF LowCounted, list, reports
<1>8. CASE Pass
  BY <1>8 DEF Pass, FoundInv, list, reports
<1>9. CASE Report
  <2> DEFINE r == NextReport
  <2>1. /\ part = "report" /\ reported < NbReports /\ reported' = reported + 1
        /\ UNCHANGED <<given, set, part, hashes_fwd, hashidxs_fwd>>
        /\ \/ prevBits' = prevBits
           \/ /\ set.diagrams
              /\ \E n \in r.bits :
                   prevBits' = IF r.kind = "width" THEN [prevBits EXCEPT ![r.high] = n] ELSE prevBits
    BY <1>9, ReportPrints, Zenon
  <2>2. reported' # 0
    BY <2>1 DEF AnalysisInv, TallyInv
  <2>3. prevBits' \in [BOOLEAN -> Nat]
    <3>1. CASE prevBits' = prevBits
      BY <3>1 DEF FoundInv
    <3>2. CASE /\ set.diagrams
               /\ \E n \in r.bits :
                    prevBits' = IF r.kind = "width" THEN [prevBits EXCEPT ![r.high] = n] ELSE prevBits
      <4>1. PICK n \in r.bits :
              prevBits' = IF r.kind = "width" THEN [prevBits EXCEPT ![r.high] = n] ELSE prevBits
        BY <3>2
      <4>2. n \in Nat /\ r.high \in BOOLEAN
        BY <2>1, <3>2, ListingOfReport
      <4> HIDE DEF r
      <4>3. CASE r.kind = "width"
        BY <4>1, <4>2, <4>3 DEF FoundInv
      <4>4. CASE r.kind # "width"
        BY <4>1, <4>4 DEF FoundInv
      <4> QED
        BY <4>3, <4>4
    <3> QED
      BY <2>1, <3>1, <3>2
  <2> QED
    BY <2>1, <2>2, <2>3 DEF FoundInv
<1> QED
  BY <1>2, <1>3, <1>4, <1>5, <1>6, <1>7, <1>8, <1>9 DEF CollisionsNext

LEMMA NamedStep ==
  ASSUME AnalysisInv, FoundInv, CollisionsNamed, [CollisionsNext]_collisionsVars
  PROVE  CollisionsNamed'
<1>1. CASE UNCHANGED <<given, printed>>
  <2>1. (printed # <<>> => NamedRight(given, printed))'
    BY <1>1, NamedMeans
  <2> QED
    BY <2>1, NamedMeans, PTL
<1>2. CASE Report
  <2> DEFINE r == NextReport
  <2>1. /\ part = "report" /\ reported < NbReports /\ UNCHANGED given
        /\ \/ printed' = <<>>
           \/ set.diagrams /\ \E n \in r.bits : List(r, n, Prev(r))
    BY <1>2, ReportPrints, Zenon
  <2>2. CASE printed' = <<>>
    <3>1. (printed # <<>> => NamedRight(given, printed))'
      BY <2>2
    <3> QED
      BY <3>1, NamedMeans, PTL
  <2>3. CASE set.diagrams /\ \E n \in r.bits : List(r, n, Prev(r))
    <3>1. PICK n \in r.bits : List(r, n, Prev(r))
      BY <2>3
    <3> DEFINE f == IF r.kind = "all" THEN found
                    ELSE IF r.high
                    THEN FindCollisionsPrefixesIndices(hashes_fwd, hashidxs_fwd, n, Prev(r))
                    ELSE FindCollisionsPrefixesIndices(hashes_rev, hashidxs_rev, n, Prev(r))
               src == IF r.high THEN given ELSE GivenRev
               pr == [bits |-> n, prev |-> Prev(r), high |-> r.high, lines |-> PrintCollisions(f)]
    <3>2. printed' = pr
      <4>1. found' = f /\ printed' = [bits |-> n, prev |-> Prev(r), high |-> r.high,
                                      lines |-> PrintCollisions(found')]
        BY <3>1, Zenon DEF List
      <4> HIDE DEF r, f
      <4> QED
        BY <4>1
    <3>3. Prev(r) \in Nat /\ r.high \in BOOLEAN /\ Listing(f, src, n, Prev(r))
      BY <2>1, <2>3, ListingOfReport, Zenon DEF Prev
    <3>4. ReadAs(src, given, r.high)
      <4>1. given \in Lists
        BY DEF AnalysisInv, ListInv
      <4>2. ReadAs(given, given, TRUE) /\ ReadAs(GivenRev, given, FALSE)
        BY <4>1, ReadSource
      <4> HIDE DEF r
      <4>3. CASE r.high = TRUE
        BY <4>2, <4>3, Zenon
      <4>4. CASE r.high = FALSE
        BY <4>2, <4>4, Zenon
      <4> QED
        BY <3>3, <4>3, <4>4
    <3>5. /\ pr.bits = n /\ pr.prev = Prev(r) /\ pr.high = r.high
          /\ pr.lines = PrintCollisions(f)
      <4> HIDE DEF r, f
      <4> QED
        OBVIOUS
    <3> HIDE DEF r, f, src, pr
    <3>6. NamedRight(given, pr)
      BY <3>3, <3>4, <3>5, ListingPrinted
    <3>7. (printed # <<>> => NamedRight(given, printed))'
      BY <2>1, <3>2, <3>6
    <3> QED
      BY <3>7, NamedMeans, PTL
  <2> QED
    BY <2>1, <2>2, <2>3
<1>3. CASE UNCHANGED collisionsVars
  BY <1>1, <1>3 DEF collisionsVars, reports
<1>4. CASE CollisionsNext
  <2>1. CASE ~Report
    BY <1>1, <1>4, <2>1 DEF CollisionsNext, Find, CountHigh, HighCounted, CountLow, LowCounted,
       Pass, reports
  <2> QED
    BY <1>2, <2>1
<1> QED
  BY <1>3, <1>4

(***************************************************************************)
(* Every list of collisions is right: it has the first of the values that  *)
(* hashes given have in common from that end, as many as may be listed,    *)
(* with the right counts, and names hashes that do have the value, no two  *)
(* of which agree in what has been listed before.                          *)
(***************************************************************************)
THEOREM CollisionsAreNamed == CollisionsSpec => []CollisionsNamed
<1>1. CollisionsInit => AnalysisInv /\ FoundInv /\ CollisionsNamed
  <2>1. CollisionsInit => FoundInv /\ CollisionsNamed
    BY BitLen DEF CollisionsInit, FoundInv, CollisionsNamed
  <2> QED
    BY <2>1, AnalysisInit
<1>2. AnalysisInv /\ FoundInv /\ CollisionsNamed /\ [CollisionsNext]_collisionsVars
        => AnalysisInv' /\ FoundInv' /\ CollisionsNamed'
  BY AnalysisStep, FoundStep, NamedStep
<1> QED
  BY <1>1, <1>2, PTL DEF CollisionsSpec

=============================================================================
