------------------------ MODULE DistributionProofs --------------------------
(***************************************************************************)
(* For every list of hashes and number of threads, and all widths and      *)
(* sizes of a batch, of Distribution: the bins are exact whenever they are *)
(* scored, and each slice is scored once, into its own place.              *)
(***************************************************************************)
EXTENDS Distribution, Modular, FiniteSetTheorems, TLAPS

-----------------------------------------------------------------------------
(* Powers of two, and sums of squares.                                     *)

LEMMA Powers ==
  /\ Pow2[0] = 1
  /\ \A n \in Nat : Pow2[n+1] = 2 * Pow2[n] /\ Pow2[n] \in Nat /\ Pow2[n] > 0
<1> DEFINE F == [p \in Nat \X Nat |-> 2 * p[2]]
           P(f) == f = [n \in Nat |-> IF n = 0 THEN 1 ELSE 2 * f[n-1]]
<1>1. PICK f : Recurs(f, Nat, 1, F)
  <2>1. StepOn(F, Nat)
    BY DEF StepOn
  <2> HIDE DEF F
  <2> QED
    BY <2>1, Recursion
<1>2. \A n \in Nat : f[n+1] = 2 * f[n]
  BY <1>1 DEF Recurs
<1>3. P(f)
  <2>1. ASSUME NEW n \in Nat, n # 0 PROVE f[n] = 2 * f[n-1]
    <3>1. n - 1 \in Nat /\ (n - 1) + 1 = n
      BY <2>1
    <3> QED
      BY <1>2, <3>1
  <2> QED
    BY <1>1, <2>1 DEF Recurs
<1>4. P(Pow2)
  <2>1. Pow2 = CHOOSE g : P(g)
    BY DEF Pow2
  <2> HIDE DEF P
  <2> QED
    BY <1>3, <2>1
<1>5. Pow2[0] = 1 /\ \A n \in Nat : Pow2[n+1] = 2 * Pow2[n]
  <2>1. \A n \in Nat : n + 1 \in Nat /\ n + 1 # 0 /\ (n + 1) - 1 = n
    OBVIOUS
  <2> QED
    BY <1>4, <2>1
<1> DEFINE S == {n \in Nat : Pow2[n] \in Nat /\ Pow2[n] > 0}
<1>6. S = Nat
  <2>1. 0 \in S /\ \A n \in S : n + 1 \in S
    BY <1>5
  <2>2. S \in SUBSET Nat
    OBVIOUS
  <2> HIDE DEF S
  <2> QED
    BY <2>1, <2>2, AllNaturals
<1>7. \A n \in Nat : n \in S
  <2> HIDE DEF S
  <2> QED
    BY <1>6
<1> QED
  BY <1>5, <1>7

LEMMA PowersGrow ==
  \A n \in Nat : \A k \in 0 .. n : Pow2[k] <= Pow2[n]
<1> DEFINE S == {n \in Nat : \A k \in 0 .. n : Pow2[k] <= Pow2[n]}
<1>1. 0 \in S
  BY Powers
<1>2. ASSUME NEW n \in S PROVE n + 1 \in S
  <2> SUFFICES ASSUME NEW k \in 0 .. n+1 PROVE Pow2[k] <= Pow2[n+1]
    OBVIOUS
  <2>1. k \in Nat /\ Pow2[k] \in Nat /\ Pow2[n] \in Nat /\ Pow2[n+1] = 2 * Pow2[n]
    BY Powers
  <2>2. k = n + 1 \/ k \in 0 .. n
    OBVIOUS
  <2> QED
    BY <2>1, <2>2
<1>3. S = Nat
  <2>1. S \in SUBSET Nat
    OBVIOUS
  <2> HIDE DEF S
  <2> QED
    BY <1>1, <1>2, <2>1, AllNaturals
<1>4. \A n \in Nat : n \in S
  <2> HIDE DEF S
  <2> QED
    BY <1>3
<1> QED
  BY <1>4

(* The sum of squares, as the function by which MapThenSumSet defines it.  *)
AnyOf(s) == CHOOSE x \in s : TRUE
Sums(iter, b, S) ==
  iter = [s \in SUBSET S |->
            IF s = {} THEN 0 ELSE b[AnyOf(s)] * b[AnyOf(s)] + iter[s \ {AnyOf(s)}]]

LEMMA SumsExist ==
  ASSUME NEW S, IsFiniteSet(S), NEW b, \A x \in S : b[x] \in Nat
  PROVE  \E iter \in [SUBSET S -> Nat] : Sums(iter, b, S)
<1> DEFINE V == [SUBSET S -> Nat]
           zero == [s \in SUBSET S |-> 0]
           F == [p \in Nat \X V |->
                   [s \in SUBSET S |->
                      IF s = {} THEN 0
                      ELSE b[AnyOf(s)] * b[AnyOf(s)] + p[2][s \ {AnyOf(s)}]]]
<1>1. \A s \in SUBSET S : s # {} => AnyOf(s) \in s /\ b[AnyOf(s)] * b[AnyOf(s)] \in Nat
  BY DEF AnyOf
<1>2. PICK g : Recurs(g, V, zero, F)
  <2>1. ASSUME NEW n \in Nat, NEW v \in V
        PROVE  [s \in SUBSET S |-> IF s = {} THEN 0
                                   ELSE b[AnyOf(s)] * b[AnyOf(s)] + v[s \ {AnyOf(s)}]] \in V
    BY <1>1
  <2>2. StepOn(F, V) /\ zero \in V
    BY <2>1 DEF StepOn
  <2> HIDE DEF F, V, zero
  <2> QED
    BY <2>2, Recursion
<1>3. \A n \in Nat : g[n] \in V
  BY <1>2 DEF Recurs
<1>4. ASSUME NEW n \in Nat, NEW s \in SUBSET S
      PROVE  g[n+1][s] = IF s = {} THEN 0
                         ELSE b[AnyOf(s)] * b[AnyOf(s)] + g[n][s \ {AnyOf(s)}]
  <2>1. g[n+1] = F[<<n, g[n]>>]
    BY <1>2 DEF Recurs
  <2> QED
    BY <1>3, <2>1
<1>5. \A s \in SUBSET S : /\ IsFiniteSet(s) /\ Cardinality(s) \in Nat
                          /\ s = {} <=> Cardinality(s) = 0
  BY FS_Subset, FS_CardinalityType, FS_EmptySet
<1> DEFINE iter == [s \in SUBSET S |-> g[Cardinality(s)][s]]
<1>6. iter \in [SUBSET S -> Nat]
  BY <1>3, <1>5
<1>7. ASSUME NEW s \in SUBSET S
      PROVE  iter[s] = IF s = {} THEN 0
                       ELSE b[AnyOf(s)] * b[AnyOf(s)] + iter[s \ {AnyOf(s)}]
  <2>1. CASE s = {}
    <3>1. g[0][s] = 0
      BY <1>2 DEF Recurs
    <3> QED
      BY <1>5, <2>1, <3>1
  <2>2. CASE s # {}
    <3> DEFINE r == s \ {AnyOf(s)}
               n == Cardinality(r)
    <3>1. r \in SUBSET S /\ n \in Nat /\ Cardinality(s) = n + 1
      <4>1. AnyOf(s) \in s /\ r \in SUBSET S
        BY <1>1, <2>2
      <4>2. Cardinality(r) = Cardinality(s) - 1
        BY <1>5, <4>1, FS_RemoveElement
      <4> QED
        BY <1>5, <4>1, <4>2
    <3>2. iter[s] = g[n+1][s] /\ iter[r] = g[n][r]
      BY <3>1
    <3> HIDE DEF n
    <3> QED
      BY <1>4, <2>2, <3>1, <3>2
  <2> QED
    BY <2>1, <2>2
<1>8. Sums(iter, b, S)
  <2> HIDE DEF iter
  <2> QED
    BY <1>6, <1>7 DEF Sums
<1> QED
  BY <1>6, <1>8

LEMMA SumsSame ==
  ASSUME NEW S, IsFiniteSet(S), NEW b, NEW c, \A x \in S : b[x] = c[x],
         NEW f, Sums(f, b, S), NEW g, Sums(g, c, S)
  PROVE  f = g
<1> DEFINE Same == {n \in Nat : \A s \in SUBSET S : Cardinality(s) = n => f[s] = g[s]}
<1>1. \A s \in SUBSET S : /\ IsFiniteSet(s) /\ Cardinality(s) \in Nat
                          /\ s = {} <=> Cardinality(s) = 0
  BY FS_Subset, FS_CardinalityType, FS_EmptySet
<1>2. \A s \in SUBSET S :
        /\ f[s] = IF s = {} THEN 0 ELSE b[AnyOf(s)] * b[AnyOf(s)] + f[s \ {AnyOf(s)}]
        /\ g[s] = IF s = {} THEN 0 ELSE c[AnyOf(s)] * c[AnyOf(s)] + g[s \ {AnyOf(s)}]
  BY DEF Sums
<1>3. 0 \in Same
  BY <1>1, <1>2
<1>4. ASSUME NEW n \in Same PROVE n + 1 \in Same
  <2> SUFFICES ASSUME NEW s \in SUBSET S, Cardinality(s) = n + 1 PROVE f[s] = g[s]
    OBVIOUS
  <2>1. s # {} /\ AnyOf(s) \in s
    BY <1>1 DEF AnyOf
  <2>2. Cardinality(s \ {AnyOf(s)}) = n /\ s \ {AnyOf(s)} \in SUBSET S
    BY <1>1, <2>1, FS_RemoveElement
  <2>3. f[s \ {AnyOf(s)}] = g[s \ {AnyOf(s)}] /\ b[AnyOf(s)] = c[AnyOf(s)]
    BY <2>1, <2>2
  <2> QED
    BY <1>2, <2>1, <2>3
<1>5. Same = Nat
  <2>1. Same \in SUBSET Nat
    OBVIOUS
  <2> HIDE DEF Same
  <2> QED
    BY <1>3, <1>4, <2>1, AllNaturals
<1>6. \A s \in SUBSET S : f[s] = g[s]
  BY <1>1, <1>5
<1> QED
  BY <1>6 DEF Sums

(* The sum is a number, and depends only on the bins that it is of.        *)
LEMMA SumOfBins ==
  ASSUME NEW n \in Nat, NEW b, NEW c, \A x \in 0 .. n-1 : b[x] \in Nat /\ c[x] = b[x]
  PROVE  sumSquares(b, n) \in Nat /\ sumSquares(c, n) = sumSquares(b, n)
<1> DEFINE S == 0 .. n-1
           f == CHOOSE iter : Sums(iter, b, S)
           g == CHOOSE iter : Sums(iter, c, S)
<1>1. sumSquares(b, n) = f[S] /\ sumSquares(c, n) = g[S]
  BY DEF sumSquares, MapThenSumSet, MapThenFoldSet, Sums, AnyOf
<1>2. IsFiniteSet(S)
  BY FS_Interval
<1>3. PICK h \in [SUBSET S -> Nat] : Sums(h, b, S)
  BY <1>2, SumsExist
<1>4. PICK k : Sums(k, c, S)
  BY <1>2, SumsExist
<1>5. Sums(f, b, S) /\ Sums(g, c, S)
  BY <1>3, <1>4
<1> HIDE DEF f, g
<1>6. f = h /\ g = h
  BY <1>2, <1>3, <1>5, SumsSame
<1> QED
  BY <1>1, <1>3, <1>6

LEMMA Sizes ==
  /\ g_NCPU \in Nat /\ g_NCPU > 0 /\ hashbits \in Nat /\ hashbits > 0
  /\ batch_size \in Nat /\ batch_size > 0 /\ U8 \in Nat /\ U8 > 1
  /\ maxwidth \in Nat /\ minwidth \in Nat /\ minwidth > 0 /\ minwidth <= maxwidth
  /\ maxwidth <= hashbits /\ widths = maxwidth - minwidth + 1 /\ widths \in Nat /\ widths > 0
  /\ nbH \in Nat /\ \A j \in 0 .. nbH-1 : hashes[j] \in Nat
<1>1. nbH \in Nat
  BY HashesAssumption, FS_CardinalityType DEF nbH
<1>2. \A j \in 0 .. nbH-1 : hashes[j] \in Nat
  BY HashesAssumption
<1> QED
  BY <1>1, <1>2, CountsAssumption DEF widths

-----------------------------------------------------------------------------
(* How many hashes arrive in a bin.                                        *)

LEMMA ArrivalsNumber ==
  \A n \in Nat : \A first, w, x : Arrivals(n, first, w, x) \in Nat
<1> SUFFICES ASSUME NEW n \in Nat, NEW first, NEW w, NEW x
             PROVE  Arrivals(n, first, w, x) \in Nat
  OBVIOUS
<1>1. IsFiniteSet(0 .. n-1)
  BY FS_Interval
<1> QED
  BY <1>1, FS_Subset, FS_CardinalityType DEF Arrivals

LEMMA ArrivalsNext ==
  ASSUME NEW n \in Nat, NEW first, NEW w, NEW x
  PROVE  /\ Arrivals(0, first, w, x) = 0
         /\ Arrivals(n + 1, first, w, x)
              = Arrivals(n, first, w, x) + (IF window(hashes[n], first, w) = x THEN 1 ELSE 0)
<1> DEFINE A == {j \in 0 .. n-1 : window(hashes[j], first, w) = x}
           B == {j \in 0 .. (n+1)-1 : window(hashes[j], first, w) = x}
<1>1. Arrivals(0, first, w, x) = 0
  <2>1. {j \in 0 .. 0-1 : window(hashes[j], first, w) = x} = {}
    OBVIOUS
  <2> QED
    BY <2>1, FS_EmptySet DEF Arrivals
<1>2. Arrivals(n, first, w, x) = Cardinality(A) /\ Arrivals(n + 1, first, w, x) = Cardinality(B)
  BY DEF Arrivals
<1>3. IsFiniteSet(A) /\ n \notin A /\ Cardinality(A) \in Nat
  <2>1. A \in SUBSET (0 .. n-1) /\ IsFiniteSet(0 .. n-1) /\ n \notin A
    BY FS_Interval
  <2> HIDE DEF A
  <2> QED
    BY <2>1, FS_Subset, FS_CardinalityType
<1>4. CASE window(hashes[n], first, w) = x
  <2>1. B = A \cup {n}
    BY <1>4
  <2> HIDE DEF A, B
  <2> QED
    BY <1>1, <1>2, <1>3, <1>4, <2>1, FS_AddElement
<1>5. CASE window(hashes[n], first, w) # x
  <2>1. B = A
    BY <1>5
  <2> HIDE DEF A, B
  <2> QED
    BY <1>1, <1>2, <1>3, <1>5, <2>1
<1> QED
  BY <1>4, <1>5

(* If no hash brings an 8-bit bin back to 0, none holds too many.          *)
LEMMA NoOverflow ==
  ASSUME NEW first, Overflowing(first) = {}, NEW x
  PROVE  Arrivals(nbH, first, maxwidth, x) < U8
<1> DEFINE A(n) == Arrivals(n, first, maxwidth, x)
           Full == {n \in Nat : n <= nbH /\ A(n) >= U8}
<1>0. \A n \in Nat : A(n) \in Nat
  BY ArrivalsNumber
<1> SUFFICES ASSUME A(nbH) >= U8 PROVE FALSE
  BY <1>0, Sizes
<1>1. PICK n \in Full : \A m \in Full : n <= m
  <2>1. nbH \in Full /\ Full \in SUBSET Nat
    BY Sizes
  <2> HIDE DEF Full
  <2> QED
    BY <2>1, LeastNatural
<1>2. n \in Nat /\ n # 0 /\ n - 1 \in Nat /\ n - 1 \in 0 .. nbH-1 /\ (n - 1) + 1 = n
  <2>1. A(0) = 0 /\ n \in Nat /\ n <= nbH /\ A(n) >= U8
    BY <1>1, ArrivalsNext
  <2>2. n # 0
    BY <2>1, Sizes
  <2> QED
    BY <2>1, <2>2, Sizes
<1>3. A(n-1) < U8 /\ A(n-1) \in Nat /\ A(n) >= U8
  <2>1. n - 1 \notin Full /\ A(n-1) \in Nat /\ A(n) >= U8 /\ n - 1 <= nbH
    BY <1>0, <1>1, <1>2, Sizes
  <2> QED
    BY <1>2, <2>1, Sizes
<1>4. A(n) = A(n-1) + (IF window(hashes[n-1], first, maxwidth) = x THEN 1 ELSE 0)
  BY <1>2, ArrivalsNext
<1>5. A(n) = U8 /\ window(hashes[n-1], first, maxwidth) = x
  BY <1>3, <1>4, Sizes
<1>6. n - 1 \in Overflowing(first)
  BY <1>2, <1>5 DEF Overflowing
<1> QED
  BY <1>6

LEMMA HalfModulo ==
  ASSUME NEW m \in Nat, m > 0, NEW y \in Int, NEW x \in 0 .. m-1
  PROVE  y % m = x <=> y % (2*m) = x \/ y % (2*m) = x + m
<1> DEFINE r == y % (2*m)
           q == y \div (2*m)
<1>1. y = (2*m) * q + r /\ r \in 0 .. 2*m-1 /\ q \in Int
  BY DivMod, 2*m \in Nat, 2*m > 0
<1> HIDE DEF r, q
<1>2. CASE r < m
  <2> DEFINE k == 2*q
  <2>1. y = m * k + r /\ r \in 0 .. m-1 /\ k \in Int
    BY <1>1, <1>2
  <2>2. y % m = r
    <3> HIDE DEF k
    <3> QED
      BY <2>1, DivModUnique
  <2> QED
    BY <1>1, <1>2, <2>2 DEF r
<1>3. CASE r >= m
  <2> DEFINE k == 2*q + 1
             z == r - m
  <2>1. y = m * k + z /\ z \in 0 .. m-1 /\ k \in Int
    BY <1>1, <1>3
  <2>2. y % m = z
    <3> HIDE DEF k, z
    <3> QED
      BY <2>1, DivModUnique
  <2> QED
    BY <1>1, <1>3, <2>2 DEF r
<1> QED
  BY <1>1, <1>2, <1>3

(* The bins of a bit less are the sums of the two halves.                  *)
LEMMA ArrivalsFold ==
  ASSUME NEW first \in Starts, NEW w \in Nat, NEW x \in 0 .. Pow2[w] - 1
  PROVE  Arrivals(nbH, first, w, x)
           = Arrivals(nbH, first, w + 1, x) + Arrivals(nbH, first, w + 1, x + Pow2[w])
<1> DEFINE m == Pow2[w]
           A == {j \in 0 .. nbH-1 : window(hashes[j], first, w) = x}
           B == {j \in 0 .. nbH-1 : window(hashes[j], first, w + 1) = x}
           C == {j \in 0 .. nbH-1 : window(hashes[j], first, w + 1) = x + m}
<1>1. m \in Nat /\ m > 0 /\ Pow2[w + 1] = 2*m
  BY Powers
<1>2. ASSUME NEW j \in 0 .. nbH-1
      PROVE  window(hashes[j], first, w) = x
               <=> window(hashes[j], first, w + 1) = x \/ window(hashes[j], first, w + 1) = x + m
  <2> DEFINE y == (hashes[j] \div Pow2[first]) + (hashes[j] * Pow2[hashbits - first])
  <2>1. y \in Int
    <3>1. first \in Nat /\ hashbits - first \in Nat
      BY Sizes DEF Starts
    <3>2. Pow2[first] \in Nat /\ Pow2[first] > 0 /\ Pow2[hashbits - first] \in Nat
      BY <3>1, Powers
    <3>3. hashes[j] \in Int /\ hashes[j] \div Pow2[first] \in Int
      BY <3>2, Sizes, DivMod
    <3> QED
      BY <3>2, <3>3
  <2>2. window(hashes[j], first, w) = y % m /\ window(hashes[j], first, w + 1) = y % (2*m)
    BY <1>1 DEF window
  <2> HIDE DEF y, m
  <2> QED
    BY <1>1, <2>1, <2>2, HalfModulo DEF m
<1>3. IsFiniteSet(B) /\ IsFiniteSet(C) /\ Cardinality(B) \in Nat /\ Cardinality(C) \in Nat
  <2>1. B \in SUBSET (0 .. nbH-1) /\ C \in SUBSET (0 .. nbH-1) /\ IsFiniteSet(0 .. nbH-1)
    BY FS_Interval, Sizes
  <2> HIDE DEF B, C
  <2> QED
    BY <2>1, FS_Subset, FS_CardinalityType
<1>4. A = B \cup C /\ B \cap C = {}
  <2>1. x # x + m
    BY <1>1
  <2> QED
    BY <1>2, <2>1
<1>5. Cardinality(A) = Cardinality(B) + Cardinality(C)
  <2> HIDE DEF A, B, C
  <2> QED
    BY <1>3, <1>4, FS_Union, FS_EmptySet
<1> QED
  BY <1>5 DEF Arrivals
-----------------------------------------------------------------------------
(* The inductive invariant.                                                *)

(* How many scores the threads before the n-th wrote, and all of them.     *)
TestsBefore(c) ==
  CHOOSE s : Recurs(s, Nat, 0,
                    [p \in Nat \X Nat |-> p[2] + (IF p[1] \in Threads THEN c[p[1]] ELSE 0)])

(* The first place of the scores of a starting bit.                        *)
place(s) == s * widths

(* The ranges of the state's variables; of bins32 only that each thread    *)
(* has its own, since its size changes.                                    *)
TypeOK ==
  /\ ikeybit \in Nat
  /\ result_scores \in [Slots -> Nat \cup {Unscored}]
  /\ pc \in [Threads -> {"unborn", "claim", "count", "recount", "score", "fold", "done"}]
  /\ start \in [Threads -> Nat] /\ stopbit \in [Threads -> Nat]
  /\ width \in [Threads -> 0 .. maxwidth] /\ resultptr \in [Threads -> Nat]
  /\ bins8 \in [Threads -> [0 .. Pow2[maxwidth] - 1 -> 0 .. U8-1]]
  /\ bins32 = [t \in Threads |-> bins32[t]] /\ bigbins \in [Threads -> BOOLEAN]
  /\ testcount \in [Threads -> Nat]
  /\ main \in {"spawn", "join", "report", "done"} /\ i \in Threads /\ tests \in Nat

Active(t) == pc[t] \in {"count", "recount", "score", "fold"}

(* Where a thread is in the range it claimed.                              *)
SliceInv(t) ==
  /\ Active(t) => start[t] < stopbit[t] /\ stopbit[t] <= hashbits /\ stopbit[t] <= ikeybit
  /\ pc[t] \in {"recount", "score", "fold"} =>
       /\ width[t] \in minwidth .. maxwidth
       /\ resultptr[t] = place(start[t]) + (maxwidth - width[t])
  /\ pc[t] = "fold" => width[t] < maxwidth
  /\ pc[t] = "recount" => width[t] = maxwidth /\ bigbins[t]
  /\ pc[t] = "done" => ikeybit >= hashbits

(* The bins in use hold the hashes with each value of the w bits.          *)
Exact(t, w) ==
  \A x \in 0 .. Pow2[w] - 1 :
    IF bigbins[t] THEN x \in DOMAIN bins32[t] /\ bins32[t][x] = Arrivals(nbH, start[t], w, x)
    ELSE bins8[t][x] = Arrivals(nbH, start[t], w, x)

(* Before a fold the bins are still those of one bit more.                 *)
BinsInv(t) ==
  /\ pc[t] = "score" => Exact(t, width[t])
  /\ pc[t] = "fold" => Exact(t, width[t] + 1)

(* No two threads are at work on the same starting bit.                    *)
ApartInv ==
  \A t \in Threads, u \in Threads :
    t # u /\ Active(t) /\ Active(u) => stopbit[t] <= start[u] \/ stopbit[u] <= start[t]

(* The places that a thread has still to score: from its next one on, to   *)
(* the end of its range.                                                   *)
nextplace(t) == place(start[t]) + (IF pc[t] \in {"score", "fold"} THEN maxwidth - width[t] ELSE 0)
Pending(t, x) == Active(t) /\ nextplace(t) <= x /\ x < place(stopbit[t])

(* A place is without a score if nobody has claimed its starting bit, or   *)
(* who did has not come to it yet.                                         *)
PlacesInv ==
  \A x \in Slots :
    result_scores[x] = Unscored <=>
      x >= place(ikeybit) \/ \E t \in Threads : Pending(t, x)

Scored == {x \in Slots : result_scores[x] # Unscored}

(* The threads' counts are those of the scores, and the main thread's sum  *)
(* is that of the threads it joined.                                       *)
CountInv ==
  /\ Cardinality(Scored) = TestsBefore(testcount)[g_NCPU]
  /\ main = "spawn" => tests = 0
  /\ main = "join" => tests = TestsBefore(testcount)[i]
  /\ main \in {"report", "done"} => tests = TestsBefore(testcount)[g_NCPU]

MainInv ==
  /\ \A t \in Threads : pc[t] = "unborn" <=> main = "spawn" /\ t >= i
  /\ main = "join" => \A t \in Threads : t < i => pc[t] = "done"
  /\ main \in {"report", "done"} => \A t \in Threads : pc[t] = "done"
  /\ main # "done" => report = NoReport

Inv ==
  /\ TypeOK /\ ApartInv /\ PlacesInv /\ CountInv /\ MainInv
  /\ \A t \in Threads : SliceInv(t) /\ BinsInv(t)

-----------------------------------------------------------------------------
(* Places, and the threads' counts.                                        *)

LEMMA Places ==
  /\ \A a \in Nat : place(a) \in Nat /\ place(a + 1) = place(a) + widths
  /\ place(0) = 0
  /\ \A a, b \in Nat : a <= b => place(a) <= place(b)
  /\ Slots = 0 .. place(hashbits) - 1
<1>1. ASSUME NEW a \in Nat, NEW b \in Nat, a <= b PROVE place(a) <= place(b)
  <2> DEFINE d == b - a
  <2>1. d \in Nat /\ b = a + d
    BY <1>1
  <2> HIDE DEF d
  <2>2. d * widths \in Nat /\ a * widths \in Nat /\ (a + d) * widths = a * widths + d * widths
    BY <2>1, Sizes
  <2> QED
    BY <2>1, <2>2 DEF place
<1>2. \A a \in Nat : place(a) \in Nat /\ place(a + 1) = place(a) + widths
  BY Sizes DEF place
<1>3. place(0) = 0
  BY Sizes DEF place
<1> QED
  BY <1>1, <1>2, <1>3 DEF Slots, place

(* Where the score of a width of a starting bit belongs.                   *)
LEMMA PlaceOf ==
  ASSUME NEW first \in Starts, NEW w \in minwidth .. maxwidth
  PROVE  LET x == place(first) + (maxwidth - w)
         IN  x \in Slots /\ x \div widths = first /\ maxwidth - (x % widths) = w
<1> DEFINE r == maxwidth - w
           x == place(first) + r
<1>1. r \in 0 .. widths-1 /\ maxwidth - r = w
  BY Sizes
<1>2. first \in Nat /\ first + 1 \in Nat /\ first + 1 <= hashbits
  BY Sizes DEF Starts
<1>3. place(first) \in Nat /\ place(first + 1) = place(first) + widths
      /\ place(first + 1) <= place(hashbits)
  BY <1>2, Places, Sizes
<1>4. x \in Slots
  <2>1. Slots = 0 .. place(hashbits) - 1 /\ place(hashbits) \in Nat /\ widths \in Nat
    BY Places, Sizes
  <2> HIDE DEF r
  <2> QED
    BY <1>1, <1>3, <2>1
<1>5. x = widths * first + r /\ x \in Int
  BY <1>1, <1>2, <1>3, Sizes DEF place
<1>6. x % widths = r /\ x \div widths = first
  <2> HIDE DEF x, r
  <2> QED
    BY <1>1, <1>2, <1>5, Sizes, DivModUnique
<1> QED
  BY <1>1, <1>4, <1>6

LEMMA Totals ==
  ASSUME NEW c \in [Threads -> Nat]
  PROVE  /\ TestsBefore(c) \in [Nat -> Nat]
         /\ TestsBefore(c)[0] = 0
         /\ \A n \in Nat : TestsBefore(c)[n+1]
              = TestsBefore(c)[n] + (IF n \in Threads THEN c[n] ELSE 0)
<1> DEFINE F == [p \in Nat \X Nat |-> p[2] + (IF p[1] \in Threads THEN c[p[1]] ELSE 0)]
           P(s) == Recurs(s, Nat, 0, F)
<1>1. StepOn(F, Nat)
  BY DEF StepOn
<1>2. \E s : P(s)
  <2> HIDE DEF F
  <2> QED
    BY <1>1, Recursion
<1>3. TestsBefore(c) = CHOOSE s : P(s)
  BY DEF TestsBefore
<1>4. P(TestsBefore(c))
  <2> HIDE DEF P
  <2> QED
    BY <1>2, <1>3
<1> DEFINE s == TestsBefore(c)
<1> HIDE DEF s
<1>5. s \in [Nat -> Nat] /\ s[0] = 0 /\ \A n \in Nat : s[n+1] = F[<<n, s[n]>>]
  <2> HIDE DEF F
  <2> QED
    BY <1>4 DEF Recurs, s
<1>6. \A n \in Nat : s[n+1] = s[n] + (IF n \in Threads THEN c[n] ELSE 0)
  BY <1>5
<1> QED
  BY <1>5, <1>6 DEF s

(* One more test of a thread counts in all the sums it belongs to.         *)
LEMMA TotalsMore ==
  ASSUME NEW c \in [Threads -> Nat], NEW t \in Threads, NEW n \in Nat
  PROVE  TestsBefore([c EXCEPT ![t] = @ + 1])[n]
           = TestsBefore(c)[n] + (IF t < n THEN 1 ELSE 0)
<1> DEFINE d == [c EXCEPT ![t] = @ + 1]
           a == TestsBefore(c)
           b == TestsBefore(d)
<1>1. d \in [Threads -> Nat] /\ t \in Nat
  BY DEF Threads
<1>2. /\ a \in [Nat -> Nat] /\ a[0] = 0
      /\ \A k \in Nat : a[k+1] = a[k] + (IF k \in Threads THEN c[k] ELSE 0)
  BY Totals
<1>3. /\ b \in [Nat -> Nat] /\ b[0] = 0
      /\ \A k \in Nat : b[k+1] = b[k] + (IF k \in Threads THEN d[k] ELSE 0)
  <2> HIDE DEF d
  <2> QED
    BY <1>1, Totals
<1>4. \A k \in Threads : d[k] = IF k = t THEN c[k] + 1 ELSE c[k]
  OBVIOUS
<1> HIDE DEF a, b, d
<1> DEFINE S == {k \in Nat : b[k] = a[k] + (IF t < k THEN 1 ELSE 0)}
<1>5. 0 \in S
  BY <1>1, <1>2, <1>3
<1>6. ASSUME NEW k \in S PROVE k + 1 \in S
  <2>1. k \in Nat /\ a[k] \in Nat /\ b[k] = a[k] + (IF t < k THEN 1 ELSE 0)
    BY <1>2
  <2>2. CASE k = t
    BY <1>1, <1>2, <1>3, <1>4, <2>1, <2>2
  <2>3. CASE k # t /\ k \in Threads
    BY <1>1, <1>2, <1>3, <1>4, <2>1, <2>3
  <2>4. CASE k \notin Threads
    <3>1. a[k+1] = a[k] /\ b[k+1] = b[k] /\ k # t
      BY <1>2, <1>3, <2>1, <2>4
    <3> QED
      BY <1>1, <2>1, <3>1
  <2> QED
    BY <2>2, <2>3, <2>4
<1>7. S = Nat
  <2>1. S \in SUBSET Nat
    OBVIOUS
  <2> HIDE DEF S
  <2> QED
    BY <1>5, <1>6, <2>1, AllNaturals
<1>8. n \in S
  <2> HIDE DEF S
  <2> QED
    BY <1>7
<1> QED
  BY <1>8 DEF a, b, d

LEMMA TotalsZero ==
  ASSUME NEW n \in Nat
  PROVE  TestsBefore([t \in Threads |-> 0])[n] = 0
<1> DEFINE c == [t \in Threads |-> 0]
           a == TestsBefore(c)
           S == {k \in Nat : a[k] = 0}
<1>1. c \in [Threads -> Nat] /\ \A k \in Threads : c[k] = 0
  OBVIOUS
<1>2. a[0] = 0 /\ \A k \in Nat : a[k+1] = a[k] + (IF k \in Threads THEN c[k] ELSE 0)
  <2> HIDE DEF c
  <2> QED
    BY <1>1, Totals
<1> HIDE DEF a, c
<1>3. 0 \in S /\ (\A k \in S : k + 1 \in S) /\ S \in SUBSET Nat
  BY <1>1, <1>2
<1>4. n \in S
  <2> HIDE DEF S
  <2> QED
    BY <1>3, AllNaturals
<1> QED
  BY <1>4 DEF a, c

-----------------------------------------------------------------------------
(* The invariant holds at first.                                           *)
LEMMA InvInit ==
  Init => Inv
<1> SUFFICES ASSUME Init PROVE Inv
  OBVIOUS
<1> USE DEF Init
<1>1. TypeOK
  <2>1. bins8 \in [Threads -> [0 .. Pow2[maxwidth] - 1 -> 0 .. U8-1]]
    BY Sizes
  <2>2. /\ start \in [Threads -> Nat] /\ stopbit \in [Threads -> Nat]
        /\ width \in [Threads -> 0 .. maxwidth] /\ resultptr \in [Threads -> Nat]
        /\ bins32 = [t \in Threads |-> bins32[t]] /\ bigbins \in [Threads -> BOOLEAN]
        /\ testcount \in [Threads -> Nat]
        /\ pc \in [Threads -> {"unborn", "claim", "count", "recount", "score", "fold", "done"}]
    BY Sizes
  <2>3. main = "spawn" /\ i \in Threads /\ tests \in Nat /\ ikeybit \in Nat
    BY Sizes DEF Threads
  <2>4. result_scores \in [Slots -> Nat \cup {Unscored}]
    OBVIOUS
  <2> QED
    BY <2>1, <2>2, <2>3, <2>4 DEF TypeOK
<1>2. \A t \in Threads : pc[t] = "unborn" /\ ~Active(t) /\ \A x \in Slots : ~Pending(t, x)
  BY DEF Active, Pending
<1>3. \A t \in Threads : SliceInv(t) /\ BinsInv(t)
  BY <1>2 DEF SliceInv, BinsInv
<1>4. ApartInv
  BY <1>2 DEF ApartInv
<1>5. PlacesInv
  <2>1. \A x \in Slots : result_scores[x] = Unscored /\ x >= place(ikeybit)
    BY Places, Sizes
  <2> QED
    BY <2>1 DEF PlacesInv
<1>6. CountInv
  <2>1. Scored = {}
    BY DEF Scored
  <2>2. Cardinality(Scored) = 0
    BY <2>1, FS_EmptySet
  <2> QED
    BY <2>2, TotalsZero, Sizes DEF CountInv
<1>7. MainInv
  BY <1>2 DEF MainInv, Threads
<1> QED
  BY <1>1, <1>3, <1>4, <1>5, <1>6, <1>7 DEF Inv

(* What stays with the threads that do not move.                           *)
Same(u) ==
  /\ pc'[u] = pc[u] /\ start'[u] = start[u] /\ stopbit'[u] = stopbit[u]
  /\ width'[u] = width[u] /\ resultptr'[u] = resultptr[u]
  /\ bins8'[u] = bins8[u] /\ bins32'[u] = bins32[u] /\ bigbins'[u] = bigbins[u]

Grows ==
  /\ stopbit \in [Threads -> Nat]
  /\ ikeybit \in Nat /\ ikeybit' \in Nat /\ ikeybit <= ikeybit'

LEMMA Others ==
  ASSUME NEW u \in Threads, Same(u)
  PROVE  /\ Active(u)' <=> Active(u)
         /\ \A x \in Slots : Pending(u, x)' <=> Pending(u, x)
         /\ BinsInv(u) => BinsInv(u)'
         /\ SliceInv(u) => (Grows => SliceInv(u)')
<1> USE DEF Same
<1>1. Active(u)' <=> Active(u)
  BY DEF Active
<1>2. \A x \in Slots : Pending(u, x)' <=> Pending(u, x)
  BY DEF Active, Pending, nextplace
<1>3. BinsInv(u) => BinsInv(u)'
  BY DEF BinsInv, Exact
<1>4. ASSUME SliceInv(u), Grows PROVE SliceInv(u)'
  <2>1. Active(u) => stopbit[u] <= ikeybit'
    BY <1>4, Sizes DEF SliceInv, Grows
  <2> QED
    BY <1>4, <1>1, <2>1, Sizes DEF SliceInv, Grows
<1> QED
  BY <1>1, <1>2, <1>3, <1>4

-----------------------------------------------------------------------------
(* A thread moves on within a slice.                                       *)
LEMMA WorkInv ==
  ASSUME Inv, TypeOK', NEW t \in Threads, Active(t), Active(t)',
         start' = start, stopbit' = stopbit, nextplace(t)' = nextplace(t),
         \A u \in Threads \ {t} : Same(u), SliceInv(t)', BinsInv(t)',
         UNCHANGED <<ikeybit, result_scores, testcount, mainvars>>
  PROVE  Inv'
<1> USE DEF mainvars
<1>1. Grows
  BY DEF Grows, Inv, TypeOK
<1>2. ASSUME NEW u \in Threads
      PROVE  /\ Active(u)' <=> Active(u)
             /\ \A x \in Slots : Pending(u, x)' <=> Pending(u, x)
             /\ SliceInv(u)' /\ BinsInv(u)'
  <2>1. CASE u = t
    BY <2>1 DEF Pending
  <2>2. CASE u # t
    <3>1. Same(u) /\ SliceInv(u) /\ BinsInv(u)
      BY <2>2 DEF Inv
    <3> QED
      BY <1>1, <3>1, Others
  <2> QED
    BY <2>1, <2>2
<1>3. ApartInv'
  BY <1>2 DEF Inv, ApartInv
<1>4. PlacesInv'
  <2>1. \A x \in Slots : (\E u \in Threads : Pending(u, x)') <=> \E u \in Threads : Pending(u, x)
    BY <1>2
  <2> QED
    BY <2>1 DEF Inv, PlacesInv
<1>5. CountInv'
  BY DEF Inv, CountInv, Scored
<1>6. MainInv'
  <2>1. pc[t] # "unborn" /\ pc'[t] # "unborn" /\ pc[t] # "done" /\ pc'[t] # "done"
    BY DEF Active
  <2>2. \A u \in Threads : (pc'[u] = "unborn" <=> pc[u] = "unborn")
                           /\ (pc'[u] = "done" <=> pc[u] = "done")
    BY <2>1 DEF Same
  <2> QED
    BY <2>2 DEF Inv, MainInv
<1> QED
  BY <1>2, <1>3, <1>4, <1>5, <1>6 DEF Inv

LEMMA RecountInv ==
  ASSUME Inv, NEW t \in Threads, Recount(t)
  PROVE  Inv'
<1> USE DEF Recount, slice, mainvars
<1> DEFINE new == [x \in 0 .. Pow2[maxwidth] - 1 |->
                     resize(clear, Pow2[maxwidth])[x] + Arrivals(nbH, start[t], maxwidth, x)]
<1>1. TypeOK
  BY DEF Inv
<1>2. pc[t] = "recount" /\ pc' = [pc EXCEPT ![t] = "score"] /\ pc'[t] = "score"
  BY <1>1 DEF TypeOK
<1>3. bins32' = [bins32 EXCEPT ![t] = new]
  OBVIOUS
<1>4. bins32' = [u \in Threads |-> bins32'[u]] /\ bins32'[t] = new
      /\ \A u \in Threads \ {t} : bins32'[u] = bins32[u]
  <2> HIDE DEF new
  <2> QED
    BY <1>1, <1>3 DEF TypeOK
<1>5. TypeOK'
  <2> HIDE DEF Recount
  <2>1. pc' \in [Threads -> {"unborn", "claim", "count", "recount", "score", "fold", "done"}]
    BY <1>1, <1>2 DEF TypeOK
  <2>2. UNCHANGED <<ikeybit, result_scores, slice, bins8, bigbins, testcount, mainvars>>
    BY DEF Recount
  <2> HIDE DEF new
  <2> QED
    BY <1>1, <1>4, <2>1, <2>2 DEF TypeOK
<1>6. SliceInv(t)'
  <2>1. SliceInv(t) /\ Active(t) /\ Active(t)'
    BY <1>2 DEF Inv, Active
  <2> QED
    BY <1>2, <2>1 DEF SliceInv
<1>7. BinsInv(t)'
  <2>1. width[t] = maxwidth /\ bigbins[t]
    BY <1>2 DEF Inv, SliceInv
  <2>2. ASSUME NEW x \in 0 .. Pow2[maxwidth] - 1
        PROVE  new[x] = Arrivals(nbH, start[t], maxwidth, x)
    <3>1. resize(clear, Pow2[maxwidth])[x] = 0
      BY DEF resize, clear
    <3>2. Arrivals(nbH, start[t], maxwidth, x) \in Nat
      BY Sizes, ArrivalsNumber
    <3> QED
      BY <3>1, <3>2
  <2>3. DOMAIN new = 0 .. Pow2[maxwidth] - 1
    OBVIOUS
  <2> HIDE DEF new
  <2>4. Exact(t, maxwidth)'
    BY <1>4, <2>1, <2>2, <2>3 DEF Exact
  <2> QED
    BY <1>2, <2>1, <2>4 DEF BinsInv
<1>8. \A u \in Threads \ {t} : Same(u)
  <2> HIDE DEF new
  <2> QED
    BY <1>1, <1>2, <1>4 DEF Same, TypeOK
<1>9. nextplace(t)' = nextplace(t) /\ Active(t) /\ Active(t)'
  <2>1. width[t] = maxwidth
    BY <1>2 DEF Inv, SliceInv
  <2>2. place(start[t]) \in Nat
    BY <1>1, Places DEF TypeOK
  <2> QED
    BY <1>2, <2>1, <2>2, Sizes DEF nextplace, Active
<1> HIDE DEF new
<1> QED
  BY <1>5, <1>6, <1>7, <1>8, <1>9, WorkInv

LEMMA CountingInv ==
  ASSUME Inv, NEW t \in Threads, Count(t)
  PROVE  Inv'
<1> USE DEF Count, slice, bins, mainvars
<1> DEFINE over == Overflowing(start[t])
           n == IF over = {} THEN nbH ELSE Min(over) + 1
           new == [x \in DOMAIN bins8[t] |-> Arrivals(n, start[t], maxwidth, x) % U8]
           next == IF over # {} THEN "recount" ELSE "score"
<1>1. TypeOK
  BY DEF Inv
<1>2. /\ pc[t] = "count" /\ pc' = [pc EXCEPT ![t] = next]
      /\ width' = [width EXCEPT ![t] = maxwidth]
      /\ bins8' = [bins8 EXCEPT ![t] = new]
      /\ bigbins' = [bigbins EXCEPT ![t] = over # {}]
      /\ resultptr' = [resultptr EXCEPT ![t] = place(start[t])]
  BY DEF place
<1>3. UNCHANGED <<ikeybit, result_scores, start, stopbit, bins32, testcount, mainvars>>
  OBVIOUS
<1> HIDE DEF Count
<1>4. n \in Nat
  <2>1. over \in SUBSET Nat
    BY DEF Overflowing
  <2>2. over # {} => Min(over) \in over
    <3> HIDE DEF over
    <3> QED
      BY <2>1, LeastNatural DEF Min
  <2>3. over # {} => Min(over) \in Nat
    <3> HIDE DEF over
    <3> QED
      BY <2>1, <2>2
  <2> HIDE DEF over
  <2> QED
    BY <2>3, Sizes
<1>5. new \in [0 .. Pow2[maxwidth] - 1 -> 0 .. U8-1]
  <2>1. DOMAIN bins8[t] = 0 .. Pow2[maxwidth] - 1
    BY <1>1 DEF TypeOK
  <2>2. \A x \in 0 .. Pow2[maxwidth] - 1 : Arrivals(n, start[t], maxwidth, x) % U8 \in 0 .. U8-1
    <3> HIDE DEF n, over
    <3> SUFFICES ASSUME NEW x PROVE Arrivals(n, start[t], maxwidth, x) % U8 \in 0 .. U8-1
      OBVIOUS
    <3>1. Arrivals(n, start[t], maxwidth, x) \in Int
      BY <1>4, ArrivalsNumber
    <3> QED
      BY <3>1, Sizes, DivMod
  <2> HIDE DEF n
  <2> QED
    BY <2>1, <2>2
<1>6. over = {} => \A x \in 0 .. Pow2[maxwidth] - 1 : new[x] = Arrivals(nbH, start[t], maxwidth, x)
  <2> SUFFICES ASSUME over = {}, NEW x \in 0 .. Pow2[maxwidth] - 1
               PROVE  new[x] = Arrivals(nbH, start[t], maxwidth, x)
    OBVIOUS
  <2>1. Arrivals(nbH, start[t], maxwidth, x) \in 0 .. U8-1
    <3>1. Arrivals(nbH, start[t], maxwidth, x) < U8
      BY NoOverflow
    <3>2. Arrivals(nbH, start[t], maxwidth, x) \in Nat
      BY Sizes, ArrivalsNumber
    <3> HIDE DEF over
    <3> QED
      BY <3>1, <3>2, Sizes
  <2>2. Arrivals(nbH, start[t], maxwidth, x) % U8 = Arrivals(nbH, start[t], maxwidth, x)
    <3> HIDE DEF over
    <3> QED
      BY <2>1, Sizes, SmallMod
  <2>3. DOMAIN bins8[t] = 0 .. Pow2[maxwidth] - 1
    BY <1>1 DEF TypeOK
  <2>4. n = nbH
    OBVIOUS
  <2> HIDE DEF over, n
  <2> QED
    BY <2>2, <2>3, <2>4
<1> DEFINE many == over # {}
<1>7. many \in BOOLEAN /\ next = (IF many THEN "recount" ELSE "score")
      /\ bigbins' = [bigbins EXCEPT ![t] = many]
      /\ (~many => \A x \in 0 .. Pow2[maxwidth] - 1 :
                     new[x] = Arrivals(nbH, start[t], maxwidth, x))
  BY <1>2, <1>6
<1> HIDE DEF over, n, new, many, next
<1>8. TypeOK'
  <2>1. pc' \in [Threads -> {"unborn", "claim", "count", "recount", "score", "fold", "done"}]
    BY <1>1, <1>2, <1>7 DEF TypeOK
  <2>2. bigbins' \in [Threads -> BOOLEAN]
    <3> HIDE DEF Inv
    <3>1. bigbins \in [Threads -> BOOLEAN]
      BY <1>1 DEF TypeOK
    <3> QED
      BY <1>7, <3>1
  <2>3. bins8' \in [Threads -> [0 .. Pow2[maxwidth] - 1 -> 0 .. U8-1]]
    BY <1>1, <1>2, <1>5 DEF TypeOK
  <2>4. width' \in [Threads -> 0 .. maxwidth]
    BY <1>1, <1>2, Sizes, SMTT(30) DEF TypeOK
  <2>5. resultptr' \in [Threads -> Nat]
    BY <1>1, <1>2, Places DEF TypeOK
  <2> QED
    BY <1>1, <1>3, <2>1, <2>2, <2>3, <2>4, <2>5 DEF TypeOK
<1>9. /\ pc'[t] = next /\ width'[t] = maxwidth /\ resultptr'[t] = place(start[t])
      /\ bins8'[t] = new /\ bigbins'[t] = many
  BY <1>1, <1>2, <1>7 DEF TypeOK
<1>10. Active(t) /\ Active(t)' /\ nextplace(t)' = nextplace(t)
  <2>1. place(start[t]) \in Nat
    BY <1>1, Places DEF TypeOK
  <2> QED
    BY <1>2, <1>3, <1>7, <1>9, <2>1, Sizes DEF nextplace, Active
<1>11. SliceInv(t)'
  <2>1. SliceInv(t) /\ place(start[t]) \in Nat
    BY <1>1, Places DEF Inv, TypeOK
  <2> QED
    BY <1>2, <1>3, <1>7, <1>9, <1>10, <2>1, Sizes DEF SliceInv
<1>12. BinsInv(t)'
  BY <1>3, <1>7, <1>9 DEF BinsInv, Exact
<1>13. \A u \in Threads \ {t} : Same(u)
  BY <1>1, <1>2, <1>3, <1>7 DEF Same, TypeOK
<1> QED
  BY <1>3, <1>8, <1>10, <1>11, <1>12, <1>13, WorkInv

(***************************************************************************)
(* Folding.                                                                *)
(***************************************************************************)
LEMMA FoldBigInv ==
  ASSUME Inv, NEW t \in Threads, FoldBig(t)
  PROVE  Inv'
<1> USE DEF FoldBig, slice, mainvars
<1> DEFINE m == Pow2[width[t]]
           b == bins32[t]
           new == Fold32(b, m)
<1>1. TypeOK
  BY DEF Inv
<1>2. pc[t] = "fold" /\ bigbins[t] /\ pc' = [pc EXCEPT ![t] = "score"]
      /\ bins32' = [bins32 EXCEPT ![t] = new]
  OBVIOUS
<1>3. UNCHANGED <<ikeybit, result_scores, slice, bins8, bigbins, testcount, mainvars>>
  OBVIOUS
<1> HIDE DEF FoldBig
<1>4. /\ width[t] \in Nat /\ width[t] + 1 <= maxwidth /\ width[t] >= minwidth /\ start[t] \in Starts
      /\ m \in Nat /\ m > 0 /\ Pow2[width[t] + 1] = 2*m
  <2>1. SliceInv(t) /\ Active(t) /\ start[t] \in Nat /\ stopbit[t] \in Nat
    BY <1>1, <1>2 DEF Inv, Active, TypeOK
  <2>2. width[t] \in minwidth .. maxwidth /\ width[t] < maxwidth
    BY <1>2, <2>1 DEF SliceInv
  <2>3. start[t] \in Starts
    BY <2>1, Sizes DEF SliceInv, Starts
  <2>4. width[t] \in Nat
    BY <2>2, Sizes
  <2> QED
    BY <2>2, <2>3, <2>4, Sizes, Powers
<1>5. \A x \in 0 .. 2*m - 1 :
        x \in DOMAIN b /\ b[x] = Arrivals(nbH, start[t], width[t] + 1, x)
  BY <1>2, <1>4 DEF Inv, BinsInv, Exact
<1>6. ASSUME NEW x \in 0 .. m-1
      PROVE  x \in DOMAIN new /\ new[x] = Arrivals(nbH, start[t], width[t], x)
  <2>1. x \in 0 .. 2*m - 1 /\ x + m \in 0 .. 2*m - 1
    BY <1>4
  <2>2. new[x] = b[x] + b[x + m] /\ x \in DOMAIN new
    BY <1>4, <1>5, <2>1 DEF Fold32
  <2> HIDE DEF new
  <2> QED
    BY <1>4, <1>5, <2>1, <2>2, ArrivalsFold
<1> HIDE DEF new
<1>7. bins32' = [u \in Threads |-> bins32'[u]] /\ bins32'[t] = new
      /\ \A u \in Threads \ {t} : bins32'[u] = bins32[u]
  BY <1>1, <1>2 DEF TypeOK
<1>8. TypeOK'
  <2>1. pc' \in [Threads -> {"unborn", "claim", "count", "recount", "score", "fold", "done"}]
    BY <1>1, <1>2 DEF TypeOK
  <2> QED
    BY <1>1, <1>3, <1>7, <2>1 DEF TypeOK
<1>9. pc'[t] = "score"
  BY <1>1, <1>2 DEF TypeOK
<1>10. Active(t) /\ Active(t)' /\ nextplace(t)' = nextplace(t)
  BY <1>2, <1>3, <1>9 DEF nextplace, Active
<1>11. SliceInv(t)'
  BY <1>2, <1>3, <1>9, <1>10 DEF Inv, SliceInv
<1>12. BinsInv(t)'
  BY <1>2, <1>3, <1>6, <1>7, <1>9 DEF BinsInv, Exact
<1>13. \A u \in Threads \ {t} : Same(u)
  BY <1>1, <1>2, <1>3, <1>7 DEF Same, TypeOK
<1> QED
  BY <1>3, <1>8, <1>10, <1>11, <1>12, <1>13, WorkInv

(* An addition that wraps around leaves less than was added, and either    *)
(* way taking it back gives what there was before.                         *)
LEMMA AddBack ==
  ASSUME NEW a \in 0 .. U8-1, NEW c \in 0 .. U8-1
  PROVE  /\ (((a + c) % U8) - c) % U8 = a
         /\ (a + c) % U8 >= c => (a + c) % U8 = a + c
         /\ (a + c) % U8 \in 0 .. U8-1
<1> USE Sizes
<1>1. CASE a + c < U8
  <2>1. (a + c) % U8 = a + c /\ a % U8 = a /\ (a + c) - c = a
    BY <1>1, SmallMod
  <2> QED
    BY <1>1, <2>1
<1>2. CASE a + c >= U8
  <2> DEFINE r == (a + c) - U8
             k == 1
             d == -1
             e == r - c
  <2>1. a + c = U8 * k + r /\ r \in 0 .. U8-1 /\ r < c /\ k \in Int /\ a + c \in Int
    BY <1>2
  <2>2. e = U8 * d + a /\ d \in Int /\ e \in Int
    BY <2>1
  <2>3. (a + c) % U8 = r
    <3> HIDE DEF r, k
    <3> QED
      BY <2>1, DivModUnique
  <2>4. e % U8 = a
    <3> HIDE DEF e, d
    <3> QED
      BY <2>2, DivModUnique
  <2> QED
    BY <2>1, <2>3, <2>4
<1> QED
  BY <1>1, <1>2

LEMMA FoldSmallInv ==
  ASSUME Inv, NEW t \in Threads, FoldSmall(t)
  PROVE  Inv'
<1> USE DEF FoldSmall, slice, mainvars
<1> DEFINE m == Pow2[width[t]]
           b == bins8[t]
           folded == Fold8(b, m)
           wrapped == Wrapped(folded, m)
           wide == IF wrapped THEN Widen(folded, m) ELSE bins32[t]
           A(x) == Arrivals(nbH, start[t], width[t], x)
           B(x) == Arrivals(nbH, start[t], width[t] + 1, x)
<1>1. TypeOK
  BY DEF Inv
<1>2. /\ pc[t] = "fold" /\ ~bigbins[t] /\ pc' = [pc EXCEPT ![t] = "score"]
      /\ bins8' = [bins8 EXCEPT ![t] = folded]
      /\ bins32' = [bins32 EXCEPT ![t] = wide]
      /\ wrapped \in BOOLEAN
  BY DEF Wrapped
<1>3. bigbins' = [bigbins EXCEPT ![t] = wrapped]
  OBVIOUS
<1>4. UNCHANGED <<ikeybit, result_scores, slice, testcount, mainvars>>
  OBVIOUS
<1> HIDE DEF FoldSmall
<1>5. /\ width[t] \in Nat /\ width[t] + 1 <= maxwidth /\ width[t] >= minwidth /\ start[t] \in Starts
      /\ m \in Nat /\ m > 0 /\ Pow2[width[t] + 1] = 2*m /\ 2*m <= Pow2[maxwidth]
      /\ Pow2[maxwidth] \in Nat
  <2>1. SliceInv(t) /\ Active(t) /\ start[t] \in Nat /\ stopbit[t] \in Nat
    BY <1>1, <1>2 DEF Inv, Active, TypeOK
  <2>2. width[t] \in minwidth .. maxwidth /\ width[t] < maxwidth
    BY <1>2, <2>1 DEF SliceInv
  <2>3. start[t] \in Starts
    BY <2>1, Sizes DEF SliceInv, Starts
  <2>4. width[t] \in Nat /\ width[t] + 1 \in 0 .. maxwidth
    BY <2>2, Sizes
  <2>5. Pow2[width[t] + 1] <= Pow2[maxwidth]
    BY <2>4, Sizes, PowersGrow
  <2> QED
    BY <2>2, <2>3, <2>4, <2>5, Sizes, Powers
<1>6. /\ \A x \in 0 .. Pow2[maxwidth] - 1 : x \in DOMAIN b /\ b[x] \in 0 .. U8-1
      /\ \A x \in 0 .. 2*m - 1 : b[x] = B(x)
  <2>1. b \in [0 .. Pow2[maxwidth] - 1 -> 0 .. U8-1]
    BY <1>1 DEF TypeOK
  <2>2. \A x \in 0 .. 2*m - 1 : b[x] = B(x)
    BY <1>2, <1>5 DEF Inv, BinsInv, Exact
  <2> QED
    BY <2>1, <2>2
<1>7. ASSUME NEW x \in 0 .. m-1
      PROVE  /\ folded[x] = (b[x] + b[x + m]) % U8 /\ folded[x + m] = b[x + m]
             /\ b[x] \in 0 .. U8-1 /\ b[x + m] \in 0 .. U8-1
             /\ A(x) = b[x] + b[x + m]
  <2>1. x \in 0 .. 2*m - 1 /\ x + m \in 0 .. 2*m - 1 /\ x < m /\ ~(x + m < m)
        /\ x \in 0 .. Pow2[maxwidth] - 1 /\ x + m \in 0 .. Pow2[maxwidth] - 1
    BY <1>5
  <2>2. folded[x] = (b[x] + b[x + m]) % U8 /\ folded[x + m] = b[x + m]
    BY <1>6, <2>1 DEF Fold8
  <2>3. A(x) = B(x) + B(x + m)
    BY <1>5, ArrivalsFold
  <2> HIDE DEF folded, A, B, b
  <2> QED
    BY <1>6, <2>1, <2>2, <2>3
<1>8. ASSUME ~wrapped, NEW x \in 0 .. m-1 PROVE folded[x] = A(x)
  <2>1. ~(folded[x] < folded[x + m])
    BY <1>8 DEF Wrapped
  <2> HIDE DEF folded, A, B, b, m
  <2>2. /\ (b[x] + b[x + m]) % U8 \in 0 .. U8-1
        /\ (b[x] + b[x + m]) % U8 >= b[x + m] => (b[x] + b[x + m]) % U8 = b[x] + b[x + m]
    BY <1>7, AddBack
  <2>3. (b[x] + b[x + m]) % U8 >= b[x + m]
    BY <1>7, <2>1, <2>2, Sizes
  <2> QED
    BY <1>7, <2>2, <2>3
<1>9. ASSUME wrapped, NEW x \in 0 .. m-1 PROVE x \in DOMAIN wide /\ wide[x] = A(x)
  <2>1. x \in DOMAIN wide /\ wide[x] = ((folded[x] - folded[x + m]) % U8) + folded[x + m]
    <3> HIDE DEF folded
    <3>1. wide = Widen(folded, m)
      <4> HIDE DEF wrapped
      <4> QED
        BY <1>9
    <3> HIDE DEF wide
    <3> QED
      BY <3>1 DEF Widen
  <2> HIDE DEF folded, A, B, b, m, wide, wrapped
  <2>2. (((b[x] + b[x + m]) % U8) - b[x + m]) % U8 = b[x]
    BY <1>7, AddBack
  <2> QED
    BY <1>7, <2>1, <2>2
<1>10. folded \in [0 .. Pow2[maxwidth] - 1 -> 0 .. U8-1]
  <2>1. DOMAIN folded = 0 .. Pow2[maxwidth] - 1
    BY <1>1 DEF TypeOK, Fold8
  <2>2. folded = [x \in DOMAIN folded |-> folded[x]]
    BY DEF Fold8
  <2>3. ASSUME NEW x \in 0 .. Pow2[maxwidth] - 1 PROVE folded[x] \in 0 .. U8-1
    <3>1. CASE x < m
      <4>1. x \in 0 .. m-1
        BY <1>5, <3>1
      <4> HIDE DEF folded, A, B, b, m
      <4>2. (b[x] + b[x + m]) % U8 \in 0 .. U8-1
        BY <1>7, <4>1, AddBack
      <4> QED
        BY <1>7, <4>1, <4>2
    <3>2. CASE ~(x < m)
      <4>1. folded[x] = b[x]
        BY <1>6, <3>2 DEF Fold8
      <4> QED
        BY <1>6, <4>1
    <3> QED
      BY <3>1, <3>2
  <2> HIDE DEF folded
  <2> QED
    BY <2>1, <2>2, <2>3
<1> HIDE DEF folded, wide, wrapped, b
<1>11. /\ bins32' = [u \in Threads |-> bins32'[u]] /\ bins32'[t] = wide /\ bins8'[t] = folded
       /\ \A u \in Threads \ {t} : bins32'[u] = bins32[u]
  BY <1>1, <1>2 DEF TypeOK
<1>12. bigbins'[t] = wrapped
  BY <1>1, <1>2, <1>3 DEF TypeOK
<1>13. TypeOK'
  <2>1. pc' \in [Threads -> {"unborn", "claim", "count", "recount", "score", "fold", "done"}]
    BY <1>1, <1>2 DEF TypeOK
  <2>2. bins8' \in [Threads -> [0 .. Pow2[maxwidth] - 1 -> 0 .. U8-1]]
    BY <1>1, <1>2, <1>10 DEF TypeOK
  <2>3. bigbins' \in [Threads -> BOOLEAN]
    <3>1. bigbins \in [Threads -> BOOLEAN]
      BY <1>1 DEF TypeOK
    <3> QED
      BY <1>2, <1>3, <3>1
  <2> QED
    BY <1>1, <1>4, <1>11, <2>1, <2>2, <2>3 DEF TypeOK
<1>14. pc'[t] = "score"
  BY <1>1, <1>2 DEF TypeOK
<1>15. Active(t) /\ Active(t)' /\ nextplace(t)' = nextplace(t)
  BY <1>2, <1>4, <1>14 DEF nextplace, Active
<1>16. SliceInv(t)'
  BY <1>2, <1>4, <1>14, <1>15 DEF Inv, SliceInv
<1>17. BinsInv(t)'
  <2>1. Exact(t, width[t])'
    <3>1. CASE wrapped
      BY <1>4, <1>9, <1>11, <1>12, <3>1 DEF Exact
    <3>2. CASE ~wrapped
      BY <1>4, <1>8, <1>11, <1>12, <3>2 DEF Exact
    <3> QED
      BY <3>1, <3>2
  <2> QED
    BY <1>4, <1>14, <2>1 DEF BinsInv
<1>18. \A u \in Threads \ {t} : Same(u)
  BY <1>1, <1>2, <1>3, <1>4 DEF Same, TypeOK
<1> QED
  BY <1>4, <1>13, <1>15, <1>16, <1>17, <1>18, WorkInv

(***************************************************************************)
(* Claiming.                                                               *)
(***************************************************************************)
LEMMA MinOfTwo ==
  ASSUME NEW a \in Nat, NEW b \in Nat
  PROVE  Min({a, b}) \in {a, b} /\ Min({a, b}) <= a /\ Min({a, b}) <= b
<1>1. \E x \in {a, b} : \A y \in {a, b} : x <= y
  <2>1. {a, b} \in SUBSET Nat /\ {a, b} # {}
    OBVIOUS
  <2> QED
    BY <2>1, LeastNatural
<1> QED
  BY <1>1 DEF Min

LEMMA ClaimInv ==
  ASSUME Inv, NEW t \in Threads, Claim(t)
  PROVE  Inv'
<1> USE DEF Claim, bins, mainvars
<1> DEFINE end == Min({ikeybit + batch_size, hashbits})
<1>1. TypeOK
  BY DEF Inv
<1>2. /\ pc[t] = "claim" /\ ikeybit < hashbits
      /\ start' = [start EXCEPT ![t] = ikeybit] /\ stopbit' = [stopbit EXCEPT ![t] = end]
      /\ ikeybit' = ikeybit + batch_size /\ pc' = [pc EXCEPT ![t] = "count"]
  OBVIOUS
<1>3. UNCHANGED <<result_scores, width, bins, resultptr, testcount, mainvars>>
  OBVIOUS
<1> HIDE DEF Claim
<1>4. /\ ikeybit \in Nat /\ ikeybit' \in Nat /\ ikeybit < ikeybit'
      /\ end \in Nat /\ ikeybit < end /\ end <= hashbits /\ end <= ikeybit'
      /\ (end = ikeybit' \/ end = hashbits)
  <2>1. ikeybit \in Nat /\ ikeybit + batch_size \in Nat /\ hashbits \in Nat
        /\ ikeybit < ikeybit + batch_size
    <3>1. ikeybit \in Nat
      BY <1>1 DEF TypeOK
    <3>2. batch_size \in Nat /\ batch_size > 0 /\ hashbits \in Nat
      BY Sizes
    <3> QED
      BY <3>1, <3>2
  <2>2. end \in {ikeybit + batch_size, hashbits} /\ end <= ikeybit + batch_size /\ end <= hashbits
    BY <2>1, MinOfTwo
  <2> HIDE DEF end
  <2> QED
    BY <1>2, <2>1, <2>2
<1> HIDE DEF end
<1>5. TypeOK'
  <2>1. pc' \in [Threads -> {"unborn", "claim", "count", "recount", "score", "fold", "done"}]
    BY <1>1, <1>2 DEF TypeOK
  <2>2. start' \in [Threads -> Nat] /\ stopbit' \in [Threads -> Nat]
    BY <1>1, <1>2, <1>4 DEF TypeOK
  <2> QED
    BY <1>1, <1>3, <1>4, <2>1, <2>2 DEF TypeOK
<1>6. pc'[t] = "count" /\ start'[t] = ikeybit /\ stopbit'[t] = end
  BY <1>1, <1>2 DEF TypeOK
<1>7. ASSUME NEW u \in Threads, u # t
      PROVE  /\ Active(u)' <=> Active(u)
             /\ \A x \in Slots : Pending(u, x)' <=> Pending(u, x)
             /\ SliceInv(u)' /\ BinsInv(u)' /\ stopbit'[u] = stopbit[u] /\ start'[u] = start[u]
  <2>1. Same(u)
    BY <1>1, <1>2, <1>3, <1>7 DEF Same, TypeOK
  <2>2. Grows
    BY <1>1, <1>4 DEF Grows, TypeOK
  <2> QED
    BY <2>1, <2>2, Others DEF Inv, Same
<1>8. SliceInv(t)' /\ BinsInv(t)'
  BY <1>2, <1>4, <1>6 DEF SliceInv, BinsInv, Active
<1>9. ApartInv'
  <2>1. ASSUME NEW u \in Threads, u # t, Active(u)' PROVE stopbit'[u] <= start'[t]
    <3>1. SliceInv(u) /\ Active(u)
      BY <1>7, <2>1 DEF Inv
    <3> QED
      BY <1>6, <1>7, <2>1, <3>1 DEF SliceInv
  <2>2. ASSUME NEW u \in Threads, NEW v \in Threads, u # v, Active(u)', Active(v)'
        PROVE  stopbit'[u] <= start'[v] \/ stopbit'[v] <= start'[u]
    <3>1. CASE u = t \/ v = t
      BY <2>1, <2>2, <3>1
    <3>2. CASE u # t /\ v # t
      BY <1>7, <2>2, <3>2 DEF Inv, ApartInv
    <3> QED
      BY <3>1, <3>2
  <2> QED
    BY <2>2 DEF ApartInv
<1>10. PlacesInv'
  <2> SUFFICES ASSUME NEW x \in Slots
               PROVE  result_scores'[x] = Unscored <=>
                        x >= place(ikeybit') \/ \E u \in Threads : Pending(u, x)'
    BY DEF PlacesInv
  <2>1. x \in Nat /\ x < place(hashbits)
    BY Places, Sizes
  <2>2. /\ place(ikeybit) \in Nat /\ place(ikeybit') \in Nat /\ place(end) \in Nat
        /\ place(ikeybit) <= place(end) /\ place(end) <= place(ikeybit')
        /\ (place(end) = place(ikeybit') \/ place(end) = place(hashbits))
    <3>1. ikeybit <= end
      BY <1>4
    <3> QED
      BY <1>4, <3>1, Places
  <2>3. ~Pending(t, x)
    BY <1>2 DEF Pending, Active
  <2>4. Pending(t, x)' <=> place(ikeybit) <= x /\ x < place(end)
    BY <1>6, <2>2 DEF Pending, Active, nextplace
  <2>5. x >= place(ikeybit) <=> x >= place(ikeybit') \/ Pending(t, x)'
    BY <2>1, <2>2, <2>4
  <2>6. (\E u \in Threads : Pending(u, x)') <=>
          Pending(t, x)' \/ \E u \in Threads : Pending(u, x)
    BY <1>7, <2>3
  <2>7. result_scores[x] = Unscored <=>
          x >= place(ikeybit) \/ \E u \in Threads : Pending(u, x)
    BY DEF Inv, PlacesInv
  <2> QED
    BY <1>3, <2>5, <2>6, <2>7
<1>11. CountInv'
  BY <1>3 DEF Inv, CountInv, Scored
<1>12. MainInv'
  <2>1. \A u \in Threads : (pc'[u] = "unborn" <=> pc[u] = "unborn")
                           /\ (pc'[u] = "done" <=> pc[u] = "done")
    BY <1>1, <1>2 DEF TypeOK
  <2> QED
    BY <1>3, <2>1 DEF Inv, MainInv
<1> QED
  BY <1>5, <1>7, <1>8, <1>9, <1>10, <1>11, <1>12 DEF Inv

LEMMA LeaveInv ==
  ASSUME Inv, NEW t \in Threads, Leave(t)
  PROVE  Inv'
<1> USE DEF Leave, slice, bins, mainvars
<1>1. TypeOK
  BY DEF Inv
<1>2. /\ pc[t] = "claim" /\ ikeybit >= hashbits
      /\ ikeybit' = ikeybit + batch_size /\ pc' = [pc EXCEPT ![t] = "done"]
  OBVIOUS
<1>3. UNCHANGED <<result_scores, slice, bins, testcount, mainvars>>
  OBVIOUS
<1> HIDE DEF Leave
<1>4. ikeybit \in Nat /\ ikeybit' \in Nat /\ ikeybit < ikeybit' /\ hashbits <= ikeybit'
  <2>1. ikeybit \in Nat /\ batch_size \in Nat /\ batch_size > 0 /\ hashbits \in Nat
    BY <1>1, Sizes DEF TypeOK
  <2> QED
    BY <1>2, <2>1
<1>5. TypeOK'
  <2>1. pc' \in [Threads -> {"unborn", "claim", "count", "recount", "score", "fold", "done"}]
    BY <1>1, <1>2 DEF TypeOK
  <2> QED
    BY <1>1, <1>3, <1>4, <2>1 DEF TypeOK
<1>6. pc'[t] = "done"
  BY <1>1, <1>2 DEF TypeOK
<1>7. ASSUME NEW u \in Threads
      PROVE  /\ Active(u)' <=> Active(u)
             /\ \A x \in Slots : Pending(u, x)' <=> Pending(u, x)
             /\ SliceInv(u)' /\ BinsInv(u)'
  <2>1. CASE u = t
    BY <1>2, <1>4, <1>6, <2>1 DEF Active, Pending, SliceInv, BinsInv
  <2>2. CASE u # t
    <3>1. Same(u)
      BY <1>1, <1>2, <1>3, <2>2 DEF Same, TypeOK
    <3>2. Grows
      BY <1>1, <1>4 DEF Grows, TypeOK
    <3> QED
      BY <3>1, <3>2, Others DEF Inv
  <2> QED
    BY <2>1, <2>2
<1>8. ApartInv'
  BY <1>3, <1>7 DEF Inv, ApartInv
<1>9. PlacesInv'
  <2> SUFFICES ASSUME NEW x \in Slots
               PROVE  result_scores'[x] = Unscored <=>
                        x >= place(ikeybit') \/ \E u \in Threads : Pending(u, x)'
    BY DEF PlacesInv
  <2>1. x \in Nat /\ x < place(hashbits)
    BY Places, Sizes
  <2>2. /\ place(ikeybit) \in Nat /\ place(ikeybit') \in Nat /\ place(hashbits) \in Nat
        /\ place(hashbits) <= place(ikeybit) /\ place(hashbits) <= place(ikeybit')
    BY <1>2, <1>4, Sizes, Places
  <2>3. ~(x >= place(ikeybit)) /\ ~(x >= place(ikeybit'))
    BY <2>1, <2>2
  <2>4. (\E u \in Threads : Pending(u, x)') <=> \E u \in Threads : Pending(u, x)
    BY <1>7
  <2>5. result_scores[x] = Unscored <=>
          x >= place(ikeybit) \/ \E u \in Threads : Pending(u, x)
    BY DEF Inv, PlacesInv
  <2> QED
    BY <1>3, <2>3, <2>4, <2>5
<1>10. CountInv'
  BY <1>3 DEF Inv, CountInv, Scored
<1>11. MainInv'
  <2>1. \A u \in Threads : (pc'[u] = "unborn" <=> pc[u] = "unborn")
                           /\ (pc[u] = "done" => pc'[u] = "done")
    BY <1>1, <1>2 DEF TypeOK
  <2> QED
    BY <1>3, <2>1 DEF Inv, MainInv
<1> QED
  BY <1>5, <1>7, <1>8, <1>9, <1>10, <1>11 DEF Inv

(***************************************************************************)
(* Scoring.                                                                *)
(***************************************************************************)
LEMMA ScoreFacts ==
  ASSUME Inv, NEW t \in Threads, Score(t)
  PROVE  LET p == resultptr[t]
             b == IF bigbins[t] THEN bins32[t] ELSE bins8[t]
             s == sumSquares(b, Pow2[width[t]])
         IN  /\ p \in Slots /\ result_scores[p] = Unscored
             /\ s = TrueScore(p) /\ s \in Nat
             /\ \A u \in Threads \ {t} : ~Pending(u, p)
             /\ Pending(t, p)
<1> DEFINE p == resultptr[t]
           b == IF bigbins[t] THEN bins32[t] ELSE bins8[t]
           w == width[t]
           n == Pow2[w]
           exact == [x \in 0 .. n-1 |-> Arrivals(nbH, start[t], w, x)]
<1>1. pc[t] = "score" /\ Active(t)
  BY DEF Score, Active
<1>2. /\ start[t] \in Nat /\ stopbit[t] \in Nat /\ start[t] < stopbit[t] /\ stopbit[t] <= hashbits
      /\ w \in minwidth .. maxwidth /\ p = place(start[t]) + (maxwidth - w)
  BY <1>1 DEF Inv, TypeOK, SliceInv
<1>3. start[t] \in Starts /\ w \in Nat /\ n \in Nat
  BY <1>2, Sizes, Powers DEF Starts
<1>4. p \in Slots /\ p \div widths = start[t] /\ maxwidth - (p % widths) = w
  <2> HIDE DEF p, w
  <2> QED
    BY <1>2, <1>3, PlaceOf
<1>5. TrueScore(p) = sumSquares(exact, n)
  <2> HIDE DEF p, w
  <2> QED
    BY <1>4 DEF TrueScore
<1>6. \A x \in 0 .. n-1 : b[x] = exact[x] /\ exact[x] \in Nat
  <2>1. Exact(t, w)
    BY <1>1 DEF Inv, BinsInv
  <2>2. \A x \in 0 .. n-1 : b[x] = Arrivals(nbH, start[t], w, x)
    BY <2>1 DEF Exact
  <2>3. \A x \in 0 .. n-1 : Arrivals(nbH, start[t], w, x) \in Nat
    BY Sizes, ArrivalsNumber
  <2> HIDE DEF b, n, w
  <2> QED
    BY <2>2, <2>3
<1>7. sumSquares(b, n) = TrueScore(p) /\ sumSquares(b, n) \in Nat
  <2> HIDE DEF p, b, n, w, exact
  <2> QED
    BY <1>3, <1>5, <1>6, SumOfBins
<1>8. /\ place(start[t]) \in Nat /\ place(start[t] + 1) = place(start[t]) + widths
      /\ place(start[t] + 1) <= place(stopbit[t]) /\ place(stopbit[t]) \in Nat
      /\ place(start[t] + 1) \in Nat /\ p \in Nat /\ place(start[t]) <= p /\ p < place(start[t] + 1)
  <2>1. start[t] + 1 \in Nat /\ start[t] + 1 <= stopbit[t]
    BY <1>2
  <2>2. /\ place(start[t]) \in Nat /\ place(start[t] + 1) = place(start[t]) + widths
        /\ place(start[t] + 1) <= place(stopbit[t]) /\ place(stopbit[t]) \in Nat
        /\ place(start[t] + 1) \in Nat
    BY <1>2, <2>1, Places
  <2>3. maxwidth - w \in 0 .. widths-1 /\ widths \in Nat
    BY <1>2, Sizes
  <2> HIDE DEF w
  <2> QED
    BY <1>2, <2>2, <2>3
<1>9. Pending(t, p)
  <2>1. nextplace(t) = p
    BY <1>1, <1>2 DEF nextplace
  <2> HIDE DEF p
  <2> QED
    BY <1>1, <1>8, <2>1 DEF Pending
<1>10. ASSUME NEW u \in Threads, u # t, Pending(u, p) PROVE FALSE
  <2>1. Active(u) /\ nextplace(u) <= p /\ p < place(stopbit[u])
    BY <1>10 DEF Pending
  <2>2. stopbit[u] <= start[t] \/ stopbit[t] <= start[u]
    BY <1>1, <1>10, <2>1 DEF Inv, ApartInv
  <2>3. /\ start[u] \in Nat /\ stopbit[u] \in Nat
        /\ pc[u] \in {"score", "fold"} => width[u] \in minwidth .. maxwidth
    BY DEF Inv, TypeOK, SliceInv
  <2>4. place(start[u]) \in Nat /\ place(stopbit[u]) \in Nat
    BY <2>3, Places
  <2>5. place(start[u]) <= nextplace(u) /\ nextplace(u) \in Int
    BY <2>3, <2>4, Sizes DEF nextplace
  <2>6. CASE stopbit[u] <= start[t]
    <3>1. place(stopbit[u]) <= place(start[t])
      BY <1>2, <2>3, <2>6, Places
    <3> HIDE DEF p
    <3> QED
      BY <1>8, <2>1, <2>4, <3>1
  <2>7. CASE stopbit[t] <= start[u]
    <3>1. place(stopbit[t]) <= place(start[u])
      BY <1>2, <2>3, <2>7, Places
    <3> HIDE DEF p
    <3> QED
      BY <1>8, <2>1, <2>4, <2>5, <3>1
  <2> QED
    BY <2>2, <2>6, <2>7
<1>11. result_scores[p] = Unscored
  BY <1>4, <1>9 DEF Inv, PlacesInv
<1> HIDE DEF p, b, n, w
<1> QED
  BY <1>4, <1>7, <1>9, <1>10, <1>11 DEF p, b, n, w

LEMMA ScoreInv ==
  ASSUME Inv, NEW t \in Threads, Score(t)
  PROVE  Inv'
<1> USE DEF Score, bins, mainvars
<1> DEFINE p == resultptr[t]
           b == IF bigbins[t] THEN bins32[t] ELSE bins8[t]
           s == sumSquares(b, Pow2[width[t]])
           last == width[t] = minwidth
           first == IF last THEN start[t] + 1 ELSE start[t]
           next == IF ~last THEN "fold" ELSE IF start[t] + 1 < stopbit[t] THEN "count" ELSE "claim"
<1>1. TypeOK
  BY DEF Inv
<1>2. /\ pc[t] = "score" /\ pc' = [pc EXCEPT ![t] = next]
      /\ result_scores' = [result_scores EXCEPT ![p] = s]
      /\ resultptr' = [resultptr EXCEPT ![t] = @ + 1]
      /\ testcount' = [testcount EXCEPT ![t] = @ + 1]
      /\ width' = [width EXCEPT ![t] = @ - 1]
      /\ start' = [start EXCEPT ![t] = first]
  OBVIOUS
<1>3. UNCHANGED <<ikeybit, stopbit, bins, mainvars>>
  OBVIOUS
<1>4. /\ p \in Slots /\ result_scores[p] = Unscored /\ s \in Nat
      /\ (\A u \in Threads \ {t} : ~Pending(u, p)) /\ Pending(t, p)
  <2> HIDE DEF Score
  <2> QED
    BY ScoreFacts
<1> HIDE DEF Score, s
<1>5. /\ start[t] \in Nat /\ stopbit[t] \in Nat /\ start[t] < stopbit[t] /\ stopbit[t] <= hashbits
      /\ stopbit[t] <= ikeybit /\ width[t] \in minwidth .. maxwidth
      /\ p = place(start[t]) + (maxwidth - width[t]) /\ place(start[t]) \in Nat
      /\ place(start[t] + 1) = place(start[t]) + widths
  BY <1>1, <1>2, Places DEF Inv, TypeOK, SliceInv, Active
<1>6. /\ pc'[t] = next /\ resultptr'[t] = p + 1 /\ width'[t] = width[t] - 1 /\ start'[t] = first
      /\ stopbit'[t] = stopbit[t] /\ width[t] - 1 \in 0 .. maxwidth /\ first \in Nat
  <2>1. width[t] - 1 \in 0 .. maxwidth
    BY <1>5, Sizes
  <2>2. first \in Nat
    BY <1>5
  <2> HIDE DEF first, next, p
  <2> QED
    BY <1>1, <1>2, <1>3, <2>1, <2>2 DEF TypeOK, p
<1>7. TypeOK'
  <2>1. pc' \in [Threads -> {"unborn", "claim", "count", "recount", "score", "fold", "done"}]
    BY <1>1, <1>2 DEF TypeOK
  <2>2. width' \in [Threads -> 0 .. maxwidth]
    BY <1>1, <1>2, <1>6 DEF TypeOK
  <2>3. start' \in [Threads -> Nat] /\ resultptr' \in [Threads -> Nat]
        /\ testcount' \in [Threads -> Nat]
    <3> HIDE DEF first
    <3> QED
      BY <1>1, <1>2, <1>6, SMTT(30) DEF TypeOK
  <2>4. result_scores' \in [Slots -> Nat \cup {Unscored}]
    <3> HIDE DEF p
    <3> QED
      BY <1>1, <1>2, <1>4 DEF TypeOK
  <2> QED
    BY <1>1, <1>3, <2>1, <2>2, <2>3, <2>4 DEF TypeOK
<1>8. Grows
  BY <1>1, <1>3 DEF Grows, TypeOK
<1>9. ASSUME NEW u \in Threads, u # t
      PROVE  /\ Active(u)' <=> Active(u)
             /\ \A x \in Slots : Pending(u, x)' <=> Pending(u, x)
             /\ SliceInv(u)' /\ BinsInv(u)' /\ stopbit'[u] = stopbit[u] /\ start'[u] = start[u]
  <2>1. Same(u)
    <3> HIDE DEF first, next
    <3> QED
      BY <1>1, <1>2, <1>3, <1>9 DEF Same, TypeOK
  <2> QED
    BY <1>8, <2>1, Others DEF Inv, Same
<1>10. SliceInv(t)'
  <2>1. CASE last
    BY <1>3, <1>5, <1>6, <2>1, Sizes DEF SliceInv, Active
  <2>2. CASE ~last
    <3>1. /\ pc'[t] = "fold" /\ start'[t] = start[t] /\ width'[t] \in minwidth .. maxwidth
          /\ width'[t] < maxwidth /\ resultptr'[t] = place(start[t]) + (maxwidth - width'[t])
      BY <1>5, <1>6, <2>2, Sizes
    <3> QED
      BY <1>3, <1>5, <1>6, <3>1 DEF SliceInv, Active
  <2> QED
    BY <2>1, <2>2
<1>11. BinsInv(t)'
  <2>1. Exact(t, width[t])
    BY <1>2 DEF Inv, BinsInv
  <2>2. pc'[t] = "fold" => start'[t] = start[t] /\ width'[t] + 1 = width[t]
    BY <1>5, <1>6, Sizes
  <2>3. pc'[t] # "score"
    BY <1>6
  <2> QED
    BY <1>3, <2>1, <2>2, <2>3 DEF BinsInv, Exact
<1>12. ApartInv'
  <2>1. start[t] <= start'[t] /\ Active(t) /\ start'[t] \in Nat
    BY <1>2, <1>5, <1>6 DEF Active
  <2>2. ASSUME NEW u \in Threads, u # t, Active(u)'
        PROVE  stopbit'[u] <= start'[t] \/ stopbit'[t] <= start'[u]
    <3>1. stopbit[u] <= start[t] \/ stopbit[t] <= start[u]
      BY <1>9, <2>1, <2>2 DEF Inv, ApartInv
    <3>2. stopbit[u] \in Nat
      BY <1>1 DEF TypeOK
    <3> QED
      BY <1>5, <1>6, <1>9, <2>1, <2>2, <3>1, <3>2
  <2>3. ASSUME NEW u \in Threads, NEW v \in Threads, u # v, Active(u)', Active(v)'
        PROVE  stopbit'[u] <= start'[v] \/ stopbit'[v] <= start'[u]
    <3>1. CASE u = t \/ v = t
      BY <2>2, <2>3, <3>1
    <3>2. CASE u # t /\ v # t
      BY <1>9, <2>3, <3>2 DEF Inv, ApartInv
    <3> QED
      BY <3>1, <3>2
  <2> QED
    BY <2>3 DEF ApartInv
<1>13. ASSUME NEW x \in Slots PROVE Pending(t, x)' <=> Pending(t, x) /\ x # p
  <2>1. x \in Nat /\ p \in Nat
    BY <1>4, Places, Sizes
  <2>2. Pending(t, x) <=> p <= x /\ x < place(stopbit[t])
    BY <1>2, <1>5 DEF Pending, Active, nextplace
  <2>3. CASE ~last
    <3>1. Pending(t, x)' <=> p + 1 <= x /\ x < place(stopbit[t])
      BY <1>5, <1>6, <2>3, Sizes DEF Pending, Active, nextplace
    <3> HIDE DEF p
    <3> QED
      BY <2>1, <2>2, <3>1
  <2>4. CASE last
    <3>1. place(start[t] + 1) = p + 1
      BY <1>5, <2>4, Sizes
    <3>2. CASE start[t] + 1 < stopbit[t]
      <4>1. Pending(t, x)' <=> place(start[t] + 1) <= x /\ x < place(stopbit[t])
        <5>1. pc'[t] = "count" /\ start'[t] = start[t] + 1
          BY <1>6, <2>4, <3>2
        <5>2. place(start[t] + 1) \in Nat
          BY <2>1, <3>1
        <5>3. nextplace(t)' = place(start[t] + 1)
          BY <5>1, <5>2 DEF nextplace
        <5> QED
          BY <1>6, <5>1, <5>3 DEF Pending, Active
      <4> HIDE DEF p
      <4> QED
        BY <2>1, <2>2, <3>1, <4>1
    <3>3. CASE ~(start[t] + 1 < stopbit[t])
      <4>1. stopbit[t] = start[t] + 1
        BY <1>5, <3>3
      <4>2. pc'[t] = "claim"
        BY <1>6, <2>4, <3>3
      <4>3. ~Pending(t, x)'
        BY <4>2 DEF Pending, Active
      <4> HIDE DEF p
      <4> QED
        BY <2>1, <2>2, <3>1, <4>1, <4>3
    <3> QED
      BY <3>2, <3>3
  <2> QED
    BY <2>3, <2>4
<1>14. ASSUME NEW x \in Slots
       PROVE  result_scores'[x] = IF x = p THEN s ELSE result_scores[x]
  BY <1>1, <1>2 DEF TypeOK
<1>15. s # Unscored
  BY <1>4, ReportAssumption
<1>16. PlacesInv'
  <2> SUFFICES ASSUME NEW x \in Slots
               PROVE  result_scores'[x] = Unscored <=>
                        x >= place(ikeybit') \/ \E u \in Threads : Pending(u, x)'
    BY DEF PlacesInv
  <2>1. result_scores[x] = Unscored <=>
          x >= place(ikeybit) \/ \E u \in Threads : Pending(u, x)
    BY DEF Inv, PlacesInv
  <2>2. CASE x # p
    <3>1. \A u \in Threads : Pending(u, x)' <=> Pending(u, x)
      BY <1>9, <1>13, <2>2
    <3> QED
      BY <1>3, <1>14, <2>1, <2>2, <3>1
  <2>3. CASE x = p
    <3>1. \A u \in Threads : ~Pending(u, x)'
      BY <1>4, <1>9, <1>13, <2>3
    <3>2. ~(x >= place(ikeybit))
      <4>1. place(stopbit[t]) <= place(ikeybit) /\ place(stopbit[t]) \in Nat
            /\ place(ikeybit) \in Nat
        <5>1. ikeybit \in Nat /\ stopbit[t] <= ikeybit
          BY <1>1, <1>5 DEF TypeOK
        <5> QED
          BY <1>5, <5>1, Places
      <4>2. p < place(stopbit[t]) /\ p \in Nat
        BY <1>4, Places, Sizes DEF Pending
      <4> HIDE DEF p
      <4> QED
        BY <2>3, <4>1, <4>2
    <3>3. result_scores'[x] # Unscored
      BY <1>14, <1>15, <2>3
    <3> QED
      BY <1>3, <3>1, <3>2, <3>3
  <2> QED
    BY <2>2, <2>3
<1>17. CountInv'
  <2> DEFINE S == Scored
  <2>1. Scored' = S \cup {p} /\ p \notin S
    BY <1>4, <1>14, <1>15 DEF Scored
  <2>2. IsFiniteSet(S)
    <3>1. S \in SUBSET Slots /\ IsFiniteSet(Slots)
      <4>1. Slots = 0 .. place(hashbits) - 1 /\ place(hashbits) \in Nat
        BY Places, Sizes
      <4>2. IsFiniteSet(0 .. place(hashbits) - 1)
        BY <4>1, FS_Interval
      <4> QED
        BY <4>1, <4>2 DEF Scored
    <3> HIDE DEF S
    <3> QED
      BY <3>1, FS_Subset
  <2>3. Cardinality(Scored)' = Cardinality(Scored) + 1
    <3>1. Cardinality(S \cup {p}) = Cardinality(S) + 1
      <4> HIDE DEF S, p
      <4> QED
        BY <2>1, <2>2, FS_AddElement
    <3> HIDE DEF p
    <3> QED
      BY <2>1, <3>1
  <2>4. testcount \in [Threads -> Nat] /\ i \in Threads /\ i \in Nat
        /\ t \in Nat /\ t < g_NCPU /\ g_NCPU \in Nat
    <3>1. testcount \in [Threads -> Nat] /\ i \in Threads
      BY <1>1 DEF TypeOK
    <3>2. \A u \in Threads : u \in Nat /\ u < g_NCPU
      BY Sizes DEF Threads
    <3> QED
      BY <3>1, <3>2, Sizes
  <2>5. TestsBefore(testcount')[g_NCPU] = TestsBefore(testcount)[g_NCPU] + 1
    BY <1>2, <2>4, TotalsMore
  <2>6. main = "join" => TestsBefore(testcount')[i] = TestsBefore(testcount)[i]
    <3>1. main = "join" => ~(t < i)
      BY <1>2 DEF Inv, MainInv
    <3>2. TestsBefore(testcount)[i] \in Nat
      BY <2>4, Totals
    <3>3. TestsBefore(testcount')[i] = TestsBefore(testcount)[i] + (IF t < i THEN 1 ELSE 0)
      BY <1>2, <2>4, TotalsMore
    <3> QED
      BY <3>1, <3>2, <3>3
  <2>7. main \notin {"report", "done"}
    BY <1>2 DEF Inv, MainInv
  <2>8. /\ Cardinality(Scored) = TestsBefore(testcount)[g_NCPU]
        /\ main = "spawn" => tests = 0
        /\ main = "join" => tests = TestsBefore(testcount)[i]
    BY DEF Inv, CountInv
  <2>9. main' = main /\ i' = i /\ tests' = tests
    BY <1>3
  <2> HIDE DEF S, p
  <2> QED
    BY <2>3, <2>5, <2>6, <2>7, <2>8, <2>9 DEF CountInv
<1>18. MainInv'
  <2>1. \A u \in Threads : (pc'[u] = "unborn" <=> pc[u] = "unborn")
                           /\ (pc'[u] = "done" <=> pc[u] = "done")
    BY <1>1, <1>2 DEF TypeOK
  <2> QED
    BY <1>3, <2>1 DEF Inv, MainInv
<1> QED
  BY <1>7, <1>9, <1>10, <1>11, <1>12, <1>16, <1>17, <1>18 DEF Inv

(***************************************************************************)
(* The main thread.                                                        *)
(***************************************************************************)
LEMMA LoopFacts ==
  ASSUME TypeOK, NEW here, NEW next, Loop(here, next)
  PROVE  /\ main = here /\ i \in Nat /\ i \in Threads
         /\ \/ i + 1 < g_NCPU /\ i' = i + 1 /\ main' = main
            \/ i + 1 = g_NCPU /\ i' = 0 /\ main' = next
         /\ i' \in Threads
<1>1. i \in Threads /\ i \in Nat /\ i + 1 <= g_NCPU
  BY Sizes, SMTT(30) DEF TypeOK, Threads
<1>2. \/ i + 1 < g_NCPU /\ i' = i + 1 /\ main' = main
      \/ i + 1 = g_NCPU /\ i' = 0 /\ main' = next
  BY <1>1, Sizes DEF Loop
<1>3. i' \in Threads
  BY <1>1, <1>2, Sizes DEF Threads
<1> QED
  BY <1>1, <1>2, <1>3 DEF Loop

LEMMA SpawnInv ==
  ASSUME Inv, Spawn
  PROVE  Inv'
<1> USE DEF Spawn, slice, bins
<1>1. TypeOK
  BY DEF Inv
<1>2. pc' = [pc EXCEPT ![i] = "claim"]
  OBVIOUS
<1>3. UNCHANGED <<ikeybit, result_scores, slice, bins, testcount, tests, report>>
  OBVIOUS
<1>4. /\ main = "spawn" /\ i \in Nat /\ i \in Threads /\ i' \in Threads
      /\ \/ i + 1 < g_NCPU /\ i' = i + 1 /\ main' = "spawn"
         \/ i + 1 = g_NCPU /\ i' = 0 /\ main' = "join"
  BY <1>1, LoopFacts
<1> HIDE DEF Spawn
<1>5. pc[i] = "unborn" /\ pc'[i] = "claim"
  BY <1>1, <1>2, <1>4 DEF Inv, MainInv, TypeOK
<1>6. TypeOK'
  <2>1. pc' \in [Threads -> {"unborn", "claim", "count", "recount", "score", "fold", "done"}]
    BY <1>1, <1>2 DEF TypeOK
  <2> QED
    BY <1>1, <1>3, <1>4, <2>1 DEF TypeOK
<1>7. ASSUME NEW u \in Threads
      PROVE  /\ Active(u)' <=> Active(u)
             /\ \A x \in Slots : Pending(u, x)' <=> Pending(u, x)
             /\ SliceInv(u)' /\ BinsInv(u)'
  <2>1. CASE u = i
    BY <1>5, <2>1 DEF Active, Pending, SliceInv, BinsInv
  <2>2. CASE u # i
    <3>1. Same(u)
      BY <1>1, <1>2, <1>3, <2>2 DEF Same, TypeOK
    <3>2. Grows
      BY <1>1, <1>3 DEF Grows, TypeOK
    <3> QED
      BY <3>1, <3>2, Others DEF Inv
  <2> QED
    BY <2>1, <2>2
<1>8. ApartInv'
  BY <1>3, <1>7 DEF Inv, ApartInv
<1>9. PlacesInv'
  <2>1. \A x \in Slots : (\E u \in Threads : Pending(u, x)') <=> \E u \in Threads : Pending(u, x)
    BY <1>7
  <2> QED
    BY <1>3, <2>1 DEF Inv, PlacesInv
<1>10. CountInv'
  <2>1. testcount \in [Threads -> Nat]
    BY <1>1 DEF TypeOK
  <2>2. TestsBefore(testcount)[0] = 0
    BY <2>1, Totals
  <2> QED
    BY <1>3, <1>4, <2>2 DEF Inv, CountInv, Scored
<1>11. MainInv'
  <2>1. \A u \in Threads : pc'[u] = "unborn" <=> pc[u] = "unborn" /\ u # i
    BY <1>1, <1>2 DEF TypeOK
  <2>2. \A u \in Threads : u \in Nat /\ u < g_NCPU
    BY Sizes DEF Threads
  <2>3. \A u \in Threads : pc[u] = "unborn" <=> u >= i
    BY <1>4 DEF Inv, MainInv
  <2>4. \A u \in Threads : pc'[u] = "unborn" <=> main' = "spawn" /\ u >= i'
    BY <1>4, <2>1, <2>2, <2>3, Sizes
  <2>5. main' = "join" => \A u \in Threads : ~(u < i')
    BY <1>4, <2>2
  <2>6. main' \in {"spawn", "join"} /\ report' = NoReport
    BY <1>3, <1>4 DEF Inv, MainInv
  <2> QED
    BY <2>4, <2>5, <2>6 DEF MainInv
<1> QED
  BY <1>6, <1>7, <1>8, <1>9, <1>10, <1>11 DEF Inv

(* The threads stand still.                                                *)
LEMMA StandInv ==
  ASSUME Inv, UNCHANGED <<ikeybit, result_scores, pc, slice, bins, testcount>>,
         TypeOK', CountInv', MainInv'
  PROVE  Inv'
<1> USE DEF slice, bins
<1>1. ASSUME NEW u \in Threads
      PROVE  /\ Active(u)' <=> Active(u)
             /\ \A x \in Slots : Pending(u, x)' <=> Pending(u, x)
             /\ SliceInv(u)' /\ BinsInv(u)'
  BY DEF Inv, TypeOK, Active, Pending, nextplace, SliceInv, BinsInv, Exact
<1>2. ApartInv'
  BY <1>1 DEF Inv, ApartInv
<1>3. PlacesInv'
  <2>1. \A x \in Slots : (\E u \in Threads : Pending(u, x)') <=> \E u \in Threads : Pending(u, x)
    BY <1>1
  <2> QED
    BY <2>1 DEF Inv, PlacesInv
<1> QED
  BY <1>1, <1>2, <1>3 DEF Inv

LEMMA JoinInv ==
  ASSUME Inv, Join
  PROVE  Inv'
<1> USE DEF Join
<1>1. TypeOK
  BY DEF Inv
<1>2. pc[i] = "done" /\ tests' = tests + testcount[i]
  OBVIOUS
<1>3. UNCHANGED <<ikeybit, result_scores, pc, slice, bins, testcount, report>>
  OBVIOUS
<1>4. /\ main = "join" /\ i \in Nat /\ i \in Threads /\ i' \in Threads
      /\ \/ i + 1 < g_NCPU /\ i' = i + 1 /\ main' = "join"
         \/ i + 1 = g_NCPU /\ i' = 0 /\ main' = "report"
  BY <1>1, LoopFacts
<1> HIDE DEF Join
<1>5. testcount \in [Threads -> Nat] /\ testcount[i] \in Nat /\ tests \in Nat
  BY <1>1, <1>4 DEF TypeOK
<1>6. TypeOK'
  <2>1. tests' \in Nat /\ main' \in {"join", "report"} /\ i' \in Threads
    BY <1>2, <1>4, <1>5
  <2>2. UNCHANGED <<ikeybit, result_scores, pc, start, stopbit, width, resultptr,
                    bins8, bins32, bigbins, testcount>>
    BY <1>3 DEF slice, bins
  <2> QED
    BY <1>1, <2>1, <2>2 DEF TypeOK
<1>7. CountInv'
  <2>1. tests = TestsBefore(testcount)[i]
    BY <1>4 DEF Inv, CountInv
  <2>2. tests' = TestsBefore(testcount)[i + 1]
    BY <1>2, <1>4, <1>5, <2>1, Totals
  <2> QED
    BY <1>3, <1>4, <2>2 DEF Inv, CountInv, Scored
<1>8. MainInv'
  <2>1. \A u \in Threads : u \in Nat /\ u < g_NCPU
    BY Sizes DEF Threads
  <2>2. \A u \in Threads : pc'[u] = pc[u] /\ pc[u] # "unborn" /\ (u < i => pc[u] = "done")
    BY <1>3, <1>4 DEF Inv, MainInv
  <2>3. \A u \in Threads : u < i + 1 => pc'[u] = "done"
    BY <1>2, <1>4, <2>1, <2>2
  <2>4. report' = NoReport /\ main' \in {"join", "report"}
    BY <1>3, <1>4 DEF Inv, MainInv
  <2> QED
    BY <1>4, <2>1, <2>2, <2>3, <2>4, Sizes DEF MainInv
<1> QED
  BY <1>3, <1>6, <1>7, <1>8, StandInv

LEMMA ReportInv ==
  ASSUME Inv, ReportDistribution
  PROVE  Inv'
<1>1. /\ main = "report" /\ main' = "done"
      /\ UNCHANGED <<ikeybit, result_scores, pc, slice, bins, testcount, i, tests>>
  BY DEF ReportDistribution
<1>2. TypeOK'
  BY <1>1 DEF Inv, TypeOK, slice, bins
<1>3. CountInv'
  BY <1>1 DEF Inv, CountInv, Scored
<1>4. MainInv'
  BY <1>1 DEF Inv, MainInv
<1> QED
  BY <1>1, <1>2, <1>3, <1>4, StandInv

LEMMA InvStep ==
  ASSUME Inv, [Next]_vars
  PROVE  Inv'
<1>1. ASSUME NEW t \in Threads, TestDistributionBatch(t) PROVE Inv'
  BY <1>1, ClaimInv, LeaveInv, CountingInv, RecountInv, ScoreInv, FoldBigInv, FoldSmallInv
     DEF TestDistributionBatch
<1>2. CASE TestDistribution
  BY <1>2, SpawnInv, JoinInv, ReportInv DEF TestDistribution
<1>3. CASE UNCHANGED vars
  <2>1. UNCHANGED <<ikeybit, result_scores, pc, slice, bins, testcount, mainvars>>
    BY <1>3 DEF vars
  <2>2. TypeOK' /\ CountInv' /\ MainInv'
    BY <2>1 DEF Inv, TypeOK, CountInv, Scored, MainInv, slice, bins, mainvars
  <2> QED
    BY <2>1, <2>2, StandInv
<1> QED
  BY <1>1, <1>2, <1>3 DEF Next

-----------------------------------------------------------------------------
(* The inductive invariant holds in every state that can be reached.       *)
THEOREM Invariance == Spec => []Inv
<1>1. Init => Inv
  BY InvInit
<1>2. Inv /\ [Next]_vars => Inv'
  BY InvStep
<1> QED
  BY <1>1, <1>2, PTL DEF Spec

(***************************************************************************)
(* Whenever TestDistributionBatch() scores its bins, those in use hold     *)
(* exactly how many hashes have each value of the slice: for every list of *)
(* hashes, whether counted in 8 bits or in 32, folded or widened.          *)
(***************************************************************************)
THEOREM Exactness == Spec => []BinsExact
<1>1. Inv => BinsExact
  BY DEF Inv, BinsInv, Exact, BinsExact
<1> QED
  BY <1>1, Invariance, PTL

(* When the main thread reports, every place has its score.                *)
LEMMA AllScored ==
  ASSUME Inv, main = "report"
  PROVE  (\A x \in Slots : result_scores[x] # Unscored) /\ tests = Cardinality(Slots)
<1>1. 0 \in Threads
  BY Sizes DEF Threads
<1>2. \A t \in Threads : pc[t] = "done"
  BY DEF Inv, MainInv
<1>3. ikeybit >= hashbits /\ ikeybit \in Nat
  BY <1>1, <1>2 DEF Inv, TypeOK, SliceInv
<1>4. place(hashbits) <= place(ikeybit) /\ place(hashbits) \in Nat /\ place(ikeybit) \in Nat
      /\ Slots = 0 .. place(hashbits) - 1
  BY <1>3, Places, Sizes
<1>5. ASSUME NEW x \in Slots PROVE result_scores[x] # Unscored
  <2>1. ~(x >= place(ikeybit))
    BY <1>4
  <2>2. \A t \in Threads : ~Pending(t, x)
    BY <1>2 DEF Pending, Active
  <2> QED
    BY <2>1, <2>2 DEF Inv, PlacesInv
<1>6. Scored = Slots
  BY <1>5 DEF Scored
<1>7. tests = Cardinality(Scored)
  BY DEF Inv, CountInv
<1> QED
  BY <1>5, <1>6, <1>7

(***************************************************************************)
(* However many threads share the starting bits, and in whatever order     *)
(* they run, TestDistribution() gives each slice at each width its own     *)
(* place, written once and with the score of that slice, and reports when  *)
(* all of them are written, with their number.                             *)
(***************************************************************************)
THEOREM Implementation == Spec => ImplementsSliceScores
<1>1. Init => Promise!Init
  BY DEF Init, Promise!Init
<1>2. ASSUME Inv, [Next]_vars
      PROVE  [Promise!Next]_<<result_scores, report>>
  <2>1. ASSUME NEW t \in Threads, Score(t) PROVE Promise!SetScore
    <3> DEFINE p == resultptr[t]
               s == sumSquares(IF bigbins[t] THEN bins32[t] ELSE bins8[t], Pow2[width[t]])
    <3>1. p \in Slots /\ result_scores[p] = Unscored /\ s = TrueScore(p)
      BY <1>2, <2>1, ScoreFacts
    <3>2. result_scores' = [result_scores EXCEPT ![p] = s] /\ report' = report
      BY <2>1 DEF Score, mainvars
    <3> HIDE DEF p, s
    <3>3. result_scores' = [result_scores EXCEPT ![p] = [x \in Slots |-> TrueScore(x)][p]]
      BY <3>1, <3>2
    <3> QED
      BY <3>1, <3>2, <3>3 DEF Promise!SetScore
  <2>2. ASSUME ReportDistribution PROVE Promise!Report
    <3>1. main = "report" /\ report = NoReport
      BY <1>2, <2>2 DEF ReportDistribution, Inv, MainInv
    <3>2. (\A x \in Slots : result_scores[x] # Unscored) /\ tests = Cardinality(Slots)
      BY <1>2, <3>1, AllScored
    <3>3. Promise!Cardinality(Slots) = Cardinality(Slots)
      BY DEF Cardinality, Promise!Cardinality
    <3> QED
      BY <2>2, <3>1, <3>2, <3>3 DEF ReportDistribution, Promise!Report
  <2>3. ASSUME NEW t \in Threads, TestDistributionBatch(t)
        PROVE  Promise!SetScore \/ UNCHANGED <<result_scores, report>>
    <3>1. CASE Score(t)
      BY <2>1, <3>1
    <3>2. CASE Claim(t) \/ Leave(t) \/ Count(t) \/ Recount(t) \/ FoldBig(t) \/ FoldSmall(t)
      BY <3>2 DEF Claim, Leave, Count, Recount, FoldBig, FoldSmall, mainvars
    <3> QED
      BY <2>3, <3>1, <3>2 DEF TestDistributionBatch
  <2>4. CASE Spawn \/ Join
    BY <2>4 DEF Spawn, Join
  <2>5. CASE UNCHANGED vars
    BY <2>5 DEF vars, mainvars
  <2> QED
    BY <1>2, <2>2, <2>3, <2>4, <2>5 DEF Next, TestDistribution, Promise!Next
<1> QED
  BY <1>1, <1>2, Invariance, PTL DEF Spec, ImplementsSliceScores, Promise!Spec
====
