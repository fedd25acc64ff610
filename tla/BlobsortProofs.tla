---------------------------- MODULE BlobsortProofs ----------------------------
(***************************************************************************)
(* For all lists, with digits of any number of values, any number of them  *)
(* and any cutoff, of Blobsort: every index stays with its hash, no scan   *)
(* leaves the list, no block overflows, and the list ends up in order.     *)
(***************************************************************************)
EXTENDS Blobsort, Modular, FiniteSetTheorems, SequenceTheorems, TLAPS

-----------------------------------------------------------------------------
(* Digits.                                                                 *)

LEMMA Sizes ==
  /\ RADIX_SIZE \in Nat /\ RADIX_SIZE > 1 /\ LEN \in Nat /\ LEN > 0
  /\ SMALLSORT_CUTOFF \in Nat /\ SMALLSORT_CUTOFF > 0
  /\ 0 \in Digits /\ RADIX_SIZE - 1 \in Digits
BY SizesAssumption DEF Digits

LEMMA Weights ==
  /\ Weight[0] = 1
  /\ \A d \in Nat : /\ Weight[d] \in Nat /\ Weight[d] > 0
                    /\ Weight[d + 1] = RADIX_SIZE * Weight[d]
<1> DEFINE F == [p \in Nat \X Nat |-> RADIX_SIZE * p[2]]
           P(f) == f = [n \in Nat |-> IF n = 0 THEN 1 ELSE RADIX_SIZE * f[n-1]]
<1>1. PICK f : Recurs(f, Nat, 1, F)
  <2>1. StepOn(F, Nat)
    BY Sizes DEF StepOn
  <2> HIDE DEF F
  <2> QED
    BY <2>1, Recursion
<1>2. \A n \in Nat : f[n+1] = RADIX_SIZE * f[n]
  BY <1>1 DEF Recurs
<1>3. P(f)
  <2>1. ASSUME NEW n \in Nat, n # 0 PROVE f[n] = RADIX_SIZE * f[n-1]
    <3>1. n - 1 \in Nat /\ (n - 1) + 1 = n
      BY <2>1
    <3> QED
      BY <1>2, <3>1
  <2> QED
    BY <1>1, <2>1 DEF Recurs
<1>4. P(Weight)
  <2>1. Weight = CHOOSE g : P(g)
    BY DEF Weight
  <2> HIDE DEF P
  <2> QED
    BY <1>3, <2>1
<1>5. Weight[0] = 1 /\ \A n \in Nat : Weight[n+1] = RADIX_SIZE * Weight[n]
  <2>1. \A n \in Nat : n + 1 \in Nat /\ n + 1 # 0 /\ (n + 1) - 1 = n
    OBVIOUS
  <2> QED
    BY <1>4, <2>1
<1> DEFINE S == {n \in Nat : Weight[n] \in Nat /\ Weight[n] > 0}
<1>6. S = Nat
  <2>1. 0 \in S
    BY <1>5
  <2>2. ASSUME NEW n \in S PROVE n + 1 \in S
    <3>1. Weight[n] \in Nat /\ Weight[n] > 0 /\ n \in Nat
      OBVIOUS
    <3> DEFINE w == Weight[n]
    <3>2. RADIX_SIZE * w \in Nat /\ RADIX_SIZE * w > 0
      <4> HIDE DEF w
      <4> QED
        BY <3>1, Sizes DEF w
    <3> QED
      BY <1>5, <3>1, <3>2
  <2>3. S \in SUBSET Nat
    OBVIOUS
  <2> HIDE DEF S
  <2> QED
    BY <2>1, <2>2, <2>3, AllNaturals
<1>7. \A n \in Nat : n \in S
  <2> HIDE DEF S
  <2> QED
    BY <1>6
<1> QED
  BY <1>5, <1>7

(* Products keep the order, whatever less than a factor is added.          *)
LEMMA ProductOrder ==
  ASSUME NEW w \in Nat, w > 0, NEW a \in Int, NEW b \in Int,
         NEW r \in 0 .. w-1, NEW s \in 0 .. w-1, a < b
  PROVE  w * a + r < w * b + s
<1> DEFINE d == b - a - 1
<1>1. d \in Nat /\ b = a + 1 + d
  OBVIOUS
<1> HIDE DEF d
<1>2. w * d \in Nat /\ w * a \in Int /\ w * b = w * a + w + w * d
  BY <1>1
<1> QED
  BY <1>2

(* A hash is made of its digits.                                           *)
LEMMA DigitOf ==
  ASSUME NEW h \in Nat, NEW d \in Nat
  PROVE  /\ Digit(h, d) \in Digits
         /\ h \div Weight[d] = RADIX_SIZE * (h \div Weight[d+1]) + Digit(h, d)
         /\ h % Weight[d+1] = Weight[d] * Digit(h, d) + (h % Weight[d])
         /\ h % Weight[d] \in 0 .. Weight[d] - 1
         /\ h \div Weight[d] \in Nat
<1> DEFINE w == Weight[d]
           q == h \div w
           r == h % w
           g == q % RADIX_SIZE
           p == q \div RADIX_SIZE
           x == w * g + r
<1>1. w \in Nat /\ w > 0 /\ Weight[d+1] = RADIX_SIZE * w /\ RADIX_SIZE \in Nat /\ RADIX_SIZE > 1
  BY Weights, Sizes
<1> HIDE DEF w
<1>2. h = w * q + r /\ r \in 0 .. w-1 /\ q \in Nat
  BY <1>1, DivMod, DivNat
<1>3. Digit(h, d) = g
  BY DEF Digit, w
<1> HIDE DEF q, r
<1>4. q = RADIX_SIZE * p + g /\ g \in 0 .. RADIX_SIZE-1 /\ p \in Int
  BY <1>1, <1>2, DivMod
<1> HIDE DEF p, g
<1>5. h = (RADIX_SIZE * w) * p + x /\ x \in Int
  BY <1>1, <1>2, <1>4
<1>6. x \in 0 .. (RADIX_SIZE * w) - 1
  <2>1. w * g + r < w * RADIX_SIZE + 0
    BY <1>1, <1>2, <1>4, ProductOrder
  <2>2. w * g \in Nat
    BY <1>1, <1>4
  <2> QED
    BY <1>1, <1>2, <2>1, <2>2
<1>7. RADIX_SIZE * w \in Nat /\ RADIX_SIZE * w > 0
  BY <1>1
<1> DEFINE m == RADIX_SIZE * w
<1>8. h % m = x /\ h \div m = p
  <2>1. m \in Nat /\ m > 0 /\ h = m * p + x /\ x \in 0 .. m-1 /\ p \in Int
    BY <1>4, <1>5, <1>6, <1>7
  <2> HIDE DEF m, x
  <2> QED
    BY <2>1, DivModUnique
<1> QED
  BY <1>1, <1>2, <1>3, <1>4, <1>8 DEF Digits, q, r, w

(* Who has more above some digit is larger.                                *)
LEMMA HigherIsLarger ==
  ASSUME NEW h \in Nat, NEW g \in Nat, NEW d \in Nat, h \div Weight[d] < g \div Weight[d]
  PROVE  h < g
<1> DEFINE w == Weight[d]
           a == h \div w
           b == g \div w
           r == h % w
           s == g % w
<1>1. w \in Nat /\ w > 0
  BY Weights
<1>2. h = w * a + r /\ r \in 0 .. w-1 /\ a \in Int /\ g = w * b + s /\ s \in 0 .. w-1 /\ b \in Int
  <2>1. h = w * a + r /\ r \in 0 .. w-1 /\ a \in Int
    <3> HIDE DEF w
    <3> QED
      BY <1>1, DivMod
  <2>2. g = w * b + s /\ s \in 0 .. w-1 /\ b \in Int
    <3> HIDE DEF w
    <3> QED
      BY <1>1, DivMod
  <2> QED
    BY <2>1, <2>2
<1>3. a < b
  OBVIOUS
<1> HIDE DEF w, a, b, r, s
<1> QED
  BY <1>1, <1>2, <1>3, ProductOrder

(* The order of the passes: by a digit, and by those before if it is equal.*)
LEMMA PassOrder ==
  ASSUME NEW h \in Nat, NEW g \in Nat, NEW d \in Nat,
         Digit(h, d) < Digit(g, d)
           \/ (Digit(h, d) = Digit(g, d) /\ h % Weight[d] <= g % Weight[d])
  PROVE  h % Weight[d+1] <= g % Weight[d+1]
<1> DEFINE w == Weight[d]
           a == Digit(h, d)
           b == Digit(g, d)
           r == h % w
           s == g % w
<1>1. w \in Nat /\ w > 0
  BY Weights
<1>2. /\ h % Weight[d+1] = w * a + r /\ r \in 0 .. w-1 /\ a \in Int
      /\ g % Weight[d+1] = w * b + s /\ s \in 0 .. w-1 /\ b \in Int
  <2>1. \A v \in Digits : v \in Int
    BY DEF Digits
  <2>2. h % Weight[d+1] = w * a + r /\ r \in 0 .. w-1 /\ a \in Int
    BY <2>1, DigitOf
  <2>3. g % Weight[d+1] = w * b + s /\ s \in 0 .. w-1 /\ b \in Int
    BY <2>1, DigitOf
  <2> QED
    BY <2>2, <2>3
<1>3. a < b \/ (a = b /\ r <= s)
  OBVIOUS
<1> HIDE DEF w, a, b, r, s
<1>4. CASE a < b
  <2>1. w * a + r < w * b + s /\ w * a \in Int /\ w * b \in Int
    BY <1>1, <1>2, <1>4, ProductOrder
  <2> QED
    BY <1>2, <2>1
<1>5. CASE a = b /\ r <= s
  <2>1. w * a \in Int
    BY <1>1, <1>2
  <2> QED
    BY <1>2, <1>5, <2>1
<1> QED
  BY <1>3, <1>4, <1>5

-----------------------------------------------------------------------------
(* Where blocks begin.                                                     *)

(* How many hashes are before block v.                                     *)
Before(freqs, v) == BlockStart(0, freqs, v)

LEMMA BlockStarts ==
  ASSUME NEW b \in Nat, NEW f \in [Digits -> Nat]
  PROVE  /\ BlockStart(b, f, 0) = b
         /\ \A v \in Digits : BlockStart(b, f, v + 1) = BlockStart(b, f, v) + f[v]
<1> DEFINE F == [p \in Nat \X Nat |-> p[2] + (IF p[1] \in Digits THEN f[p[1]] ELSE 0)]
           P(g) == g = [u \in 0 .. RADIX_SIZE |-> IF u = 0 THEN b ELSE g[u - 1] + f[u - 1]]
<1>1. PICK g : Recurs(g, Nat, b, F)
  <2>1. StepOn(F, Nat)
    BY DEF StepOn
  <2> HIDE DEF F
  <2> QED
    BY <2>1, Recursion
<1>2. g[0] = b /\ \A v \in Digits : g[v + 1] = g[v] + f[v]
  <2>1. \A v \in Digits : v \in Nat
    BY Sizes DEF Digits
  <2>2. g \in [Nat -> Nat] /\ g[0] = b /\ \A n \in Nat : g[n+1] = F[<<n, g[n]>>]
    BY <1>1 DEF Recurs
  <2> QED
    BY <2>1, <2>2
<1> DEFINE h == [u \in 0 .. RADIX_SIZE |-> g[u]]
<1>3. P(h)
  <2>1. ASSUME NEW u \in 0 .. RADIX_SIZE, u # 0 PROVE h[u] = h[u - 1] + f[u - 1]
    <3>1. u - 1 \in Digits /\ u - 1 \in 0 .. RADIX_SIZE /\ (u - 1) + 1 = u
      BY <2>1, Sizes DEF Digits
    <3>2. g[(u - 1) + 1] = g[u - 1] + f[u - 1]
      BY <1>2, <3>1
    <3>3. h[u] = g[u] /\ h[u - 1] = g[u - 1]
      BY <3>1
    <3> QED
      BY <3>1, <3>2, <3>3
  <2>2. 0 \in 0 .. RADIX_SIZE /\ h[0] = b
    BY <1>2, Sizes
  <2>3. h = [u \in 0 .. RADIX_SIZE |-> h[u]]
    OBVIOUS
  <2> HIDE DEF h
  <2> QED
    BY <2>1, <2>2, <2>3
<1> DEFINE k == CHOOSE q : P(q)
<1>4. P(k)
  <2> HIDE DEF P
  <2> QED
    BY <1>3
<1>5. \A v : BlockStart(b, f, v) = k[v]
  BY DEF BlockStart
<1> HIDE DEF k
<1>6. k[0] = b
  BY <1>4, Sizes
<1>7. ASSUME NEW v \in Digits PROVE k[v + 1] = k[v] + f[v]
  <2>1. v + 1 \in 0 .. RADIX_SIZE /\ v + 1 # 0 /\ (v + 1) - 1 = v
    BY Sizes DEF Digits
  <2> QED
    BY <1>4, <2>1
<1> QED
  BY <1>5, <1>6, <1>7

LEMMA Befores ==
  ASSUME NEW f \in [Digits -> Nat]
  PROVE  /\ Before(f, 0) = 0
         /\ \A v \in Digits : Before(f, v + 1) = Before(f, v) + f[v]
         /\ \A v \in 0 .. RADIX_SIZE : Before(f, v) \in Nat
         /\ \A v \in 0 .. RADIX_SIZE : \A u \in 0 .. v : Before(f, u) <= Before(f, v)
         /\ \A b \in Nat : \A v \in 0 .. RADIX_SIZE : BlockStart(b, f, v) = b + Before(f, v)
<1>1. Before(f, 0) = 0 /\ \A v \in Digits : Before(f, v + 1) = Before(f, v) + f[v]
  BY BlockStarts DEF Before
<1> DEFINE S == {v \in Nat : v <= RADIX_SIZE =>
                   /\ Before(f, v) \in Nat
                   /\ \A u \in 0 .. v : Before(f, u) \in Nat /\ Before(f, u) <= Before(f, v)
                   /\ \A b \in Nat : BlockStart(b, f, v) = b + Before(f, v)}
<1>2. 0 \in S
  <2>1. \A b \in Nat : BlockStart(b, f, 0) = b
    BY BlockStarts
  <2> QED
    BY <1>1, <2>1
<1>3. ASSUME NEW v \in S PROVE v + 1 \in S
  <2> SUFFICES ASSUME v + 1 <= RADIX_SIZE
               PROVE  /\ Before(f, v + 1) \in Nat
                      /\ \A u \in 0 .. v + 1 :
                           Before(f, u) \in Nat /\ Before(f, u) <= Before(f, v + 1)
                      /\ \A b \in Nat : BlockStart(b, f, v + 1) = b + Before(f, v + 1)
    OBVIOUS
  <2>1. /\ v \in Nat /\ v \in Digits /\ f[v] \in Nat /\ Before(f, v) \in Nat
        /\ \A u \in 0 .. v : Before(f, u) \in Nat /\ Before(f, u) <= Before(f, v)
        /\ \A b \in Nat : BlockStart(b, f, v) = b + Before(f, v)
    <3>1. v \in Digits /\ v <= RADIX_SIZE
      BY Sizes DEF Digits
    <3> QED
      BY <3>1
  <2>2. Before(f, v + 1) = Before(f, v) + f[v]
    BY <1>1, <2>1
  <2>3. \A b \in Nat : BlockStart(b, f, v + 1) = BlockStart(b, f, v) + f[v]
    BY <2>1, BlockStarts
  <2>4. Before(f, v + 1) \in Nat
    BY <2>1, <2>2
  <2>5. ASSUME NEW u \in 0 .. v + 1
        PROVE  Before(f, u) \in Nat /\ Before(f, u) <= Before(f, v + 1)
    <3>1. CASE u = v + 1
      BY <2>4, <3>1
    <3>2. CASE u \in 0 .. v
      BY <2>1, <2>2, <3>2
    <3> QED
      BY <2>1, <3>1, <3>2
  <2>6. ASSUME NEW b \in Nat PROVE BlockStart(b, f, v + 1) = b + Before(f, v + 1)
    BY <2>1, <2>2, <2>3
  <2> QED
    BY <2>4, <2>5, <2>6
<1>4. \A v \in Nat : v \in S
  <2>1. S \in SUBSET Nat
    OBVIOUS
  <2> HIDE DEF S
  <2>2. S = Nat
    BY <1>2, <1>3, <2>1, AllNaturals
  <2> QED
    BY <2>2
<1>5. ASSUME NEW v \in 0 .. RADIX_SIZE
      PROVE  /\ Before(f, v) \in Nat /\ \A u \in 0 .. v : Before(f, u) <= Before(f, v)
             /\ \A b \in Nat : BlockStart(b, f, v) = b + Before(f, v)
  <2>1. v \in S /\ v <= RADIX_SIZE
    <3> HIDE DEF S
    <3> QED
      BY <1>4, Sizes
  <2> QED
    BY <2>1
<1> QED
  BY <1>1, <1>5
-----------------------------------------------------------------------------
(* The inductive invariant.                                                *)

count == Len(named)
Hash == 0 .. Weight[LEN] - 1
Span(b, e) == b .. e - 1

Firsts == [op : {"blobsort"}, begin : Nat, end : Nat]
Smalls == [op : {"smallsort"}, begin : Nat, end : Nat, guarded : BOOLEAN]
Insertions == [op : {"insertionsort"}, begin : Nat, end : Nat, i : Nat, movcount : Nat,
               unlimited : BOOLEAN, unguarded : BOOLEAN]
Flags == [op : {"flagsort"}, begin : Nat, end : Nat, digit : Nat]
Radixes == [op : {"radixsort"}, begin : Nat, end : Nat, pass : Nat, fromList : BOOLEAN]
Permutes == [op : {"permute"}, begin : Nat, end : Nat, digit : Nat, freqs : [Digits -> Nat],
             ptr : Nat, curblock : Digits, block_ptrs : [Digits -> Nat]]
Loops == [op : {"sortblocks"}, begin : Nat, end : Nat, digit : Nat, freqs : [Digits -> Nat],
          block : Digits]

Frames == Firsts \cup Smalls \cup Insertions \cup Flags \cup Radixes \cup Permutes \cup Loops

(* An order of the whole list that moves only what is from b on before e.  *)
Order(p, b, e) ==
  /\ p \in [1 .. count -> 1 .. count]
  /\ \A j \in 1 .. count : \E k \in 1 .. count : p[k] = j
  /\ \A k \in 1 .. count : IF k \in Span(b, e) THEN p[k] \in Span(b, e) ELSE p[k] = k

TypeOK ==
  /\ named \in Seq(Hash) /\ T.long \in BOOLEAN /\ T.len \in Nat
  /\ list \in [1 .. count -> Hash]
  /\ todo \in Seq(Frames)

(* Each index is next to its hash, and none is lost.                       *)
Follows ==
  /\ idxs \in [1 .. count -> 1 .. count]
  /\ \A j \in 1 .. count : \E k \in 1 .. count : idxs[k] = j
  /\ \A k \in 1 .. count : list[k] = named[idxs[k]]

(* The list is in order at both ends of what is from b on before e.        *)
Apart(b, e) ==
  \A k \in Span(b, e) :
    /\ \A l \in 1 .. b - 1 : list[l] <= list[k]
    /\ \A l \in e .. count : list[k] <= list[l]

SmallOK(c) ==
  c \in Smalls /\ c.begin + 1 < c.end /\ (c.guarded \/ c.begin > 1)

(* What is before the turn is in order.                                    *)
InsertionOK(c) ==
  /\ c \in Insertions /\ c.begin < c.i /\ c.i < c.end
  /\ c.unguarded => c.begin > 1
  /\ \A k \in Span(c.begin, c.i) : \A l \in Span(k, c.i) : list[k] <= list[l]

(* All have the same higher digits.                                        *)
Alike(b, e, d) ==
  \A k \in Span(b, e) : \A l \in Span(b, e) : list[k] \div Weight[d] = list[l] \div Weight[d]

FlagOK(c) ==
  c \in Flags /\ c.begin < c.end /\ c.digit < LEN /\ Alike(c.begin, c.end, c.digit + 1)

(* The hashes at the places that p names, each with its index.             *)
Area(p, b, n) == [k \in 1 .. n |-> <<list[p[b + k - 1]], idxs[p[b + k - 1]]>>]

HasHashes(s, b, e, n) ==
  \E p \in [1 .. count -> 1 .. count] : Order(p, b, e) /\ s = Area(p, b, n)

(* Ordered by the digits below d.                                          *)
InOrder(s, n, d) ==
  \A i \in 1 .. n : \A j \in 1 .. n : i <= j => s[i][1] % Weight[d] <= s[j][1] % Weight[d]

(* The area that the next pass reads from has the hashes, ordered by the   *)
(* digits of the passes made.                                              *)
RadixOK(c) ==
  LET n == c.end - c.begin
      from == IF c.fromList THEN Paired(c.begin, c.end) ELSE queue
  IN  /\ c \in Radixes /\ c.begin < c.end /\ c.pass <= LEN
      /\ HasHashes(from, c.begin, c.end, n)
      /\ InOrder(from, n, c.pass)

(* Up to where the block v is known to be filled.                          *)
Filledto(c, v) ==
  IF v < c.curblock THEN c.begin + Before(c.freqs, v + 1)
  ELSE IF v = c.curblock THEN c.ptr ELSE c.block_ptrs[v]

PermuteOK(c) ==
  /\ c \in Permutes /\ c.begin < c.end /\ c.digit < LEN /\ Alike(c.begin, c.end, c.digit + 1)
  /\ c.freqs = Freqs(c.begin, c.end, c.digit)
  /\ c.curblock + 1 < RADIX_SIZE
  /\ \A v \in Digits :
       /\ Filledto(c, v) >= c.begin + Before(c.freqs, v)
       /\ Filledto(c, v) <= c.begin + Before(c.freqs, v + 1)
       /\ \A k \in Span(c.begin + Before(c.freqs, v), Filledto(c, v)) :
            Digit(list[k], c.digit) = v

(* Each hash is in the block of its digit; those are still to be sorted.   *)
LoopOK(c) ==
  LET start(v) == c.begin + Before(c.freqs, v) - Before(c.freqs, c.block)
  IN  /\ c \in Loops /\ c.digit > 0 /\ c.digit < LEN /\ Alike(c.begin, c.end, c.digit + 1)
      /\ c.end = start(RADIX_SIZE)
      /\ \A k \in Span(c.begin, c.end) :
           LET v == Digit(list[k], c.digit)
           IN  v >= c.block /\ k >= start(v) /\ k < start(v + 1)

CallOK(c) ==
  /\ 1 <= c.begin /\ c.begin <= c.end /\ c.end <= count + 1
  /\ Apart(c.begin, c.end)
  /\ SmallOK(c) \/ InsertionOK(c) \/ FlagOK(c) \/ RadixOK(c) \/ PermuteOK(c) \/ LoopOK(c)

(* The running call is before those that wait, which are loops over blocks.*)
StackOK ==
  /\ \A n \in 1 .. Len(todo) : CallOK(todo[n]) /\ (n > 1 => LoopOK(todo[n]))
  /\ \A n \in 1 .. Len(todo) : \A m \in n + 1 .. Len(todo) : todo[n].end <= todo[m].begin

(* What is not in order is still to be sorted.                             *)
GapsOK ==
  \A k \in 1 .. count - 1 :
    list[k] <= list[k + 1]
      \/ \E n \in 1 .. Len(todo) : todo[n].begin <= k /\ k + 1 < todo[n].end

Starting ==
  /\ todo = <<Call("blobsort", 1, count + 1)>>
  /\ IF Len(idxs) = count THEN Follows ELSE list = named

Inv == TypeOK /\ (Starting \/ (Follows /\ StackOK /\ GapsOK))

-----------------------------------------------------------------------------
(* How many hashes have each digit.                                        *)

LEMMA Hashing ==
  ASSUME TypeOK
  PROVE  /\ count \in Nat /\ list \in [1 .. count -> Nat]
         /\ \A k \in 1 .. count : list[k] \in Nat /\ list[k] < Weight[LEN]
<1>1. count \in Nat
  BY DEF TypeOK, count
<1>2. Weight[LEN] \in Nat
  BY Sizes, Weights
<1>3. \A k \in 1 .. count : list[k] \in Nat /\ list[k] < Weight[LEN]
  BY <1>2 DEF TypeOK, Hash
<1> QED
  BY <1>1, <1>3 DEF TypeOK

LEMMA Spans ==
  ASSUME NEW b \in Nat, NEW e \in Nat, b <= e
  PROVE  IsFiniteSet(Span(b, e)) /\ Cardinality(Span(b, e)) = e - b
<1> DEFINE z == e - 1
<1>1. z \in Int /\ (b > z => e - b = 0) /\ z - b + 1 = e - b
  OBVIOUS
<1> HIDE DEF z
<1>2. IsFiniteSet(b .. z) /\ Cardinality(b .. z) = IF b > z THEN 0 ELSE z - b + 1
  BY <1>1, FS_Interval
<1> QED
  BY <1>1, <1>2 DEF Span, z

LEMMA FreqsType ==
  ASSUME NEW b \in Nat, NEW e \in Nat, NEW d
  PROVE  Freqs(b, e, d) \in [Digits -> Nat]
<1>1. ASSUME NEW v \in Digits
      PROVE  Cardinality({k \in b .. e - 1 : Digit(list[k], d) = v}) \in Nat
  <2> DEFINE A == {k \in b .. e - 1 : Digit(list[k], d) = v}
  <2>1. A \in SUBSET (b .. e - 1) /\ IsFiniteSet(b .. e - 1)
    BY FS_Interval
  <2> HIDE DEF A
  <2>2. Cardinality(A) \in Nat
    BY <2>1, FS_Subset, FS_CardinalityType
  <2> QED
    BY <2>2 DEF A
<1> QED
  BY <1>1 DEF Freqs

LEMMA FreqsBefore ==
  ASSUME TypeOK, NEW b \in Nat, NEW e \in Nat, b > 0, b <= e, e <= count + 1, NEW d \in Nat
  PROVE  /\ \A v \in 0 .. RADIX_SIZE : Before(Freqs(b, e, d), v)
              = Cardinality({k \in Span(b, e) : Digit(list[k], d) < v})
         /\ Before(Freqs(b, e, d), RADIX_SIZE) = e - b
<1> DEFINE f == Freqs(b, e, d)
           A(v) == {k \in Span(b, e) : Digit(list[k], d) = v}
           B(v) == {k \in Span(b, e) : Digit(list[k], d) < v}
           S == {v \in Nat : v <= RADIX_SIZE => Before(f, v) = Cardinality(B(v))}
<1>1. f \in [Digits -> Nat] /\ \A v \in Digits : f[v] = Cardinality(A(v))
  <2>1. f \in [Digits -> Nat]
    BY FreqsType
  <2> QED
    BY <2>1 DEF Freqs, Span
<1>2. IsFiniteSet(Span(b, e)) /\ Cardinality(Span(b, e)) = e - b
  BY Spans
<1>3. \A k \in Span(b, e) : Digit(list[k], d) \in Digits
  <2>1. \A k \in Span(b, e) : list[k] \in Nat
    BY Hashing DEF Span
  <2> QED
    BY <2>1, DigitOf
<1>4. \A v \in Digits : v \in Nat /\ v < RADIX_SIZE
  BY Sizes DEF Digits
<1>5. 0 \in S
  <2>1. B(0) = {}
    BY <1>3, <1>4
  <2>2. Before(f, 0) = 0
    BY <1>1, Befores
  <2> QED
    BY <2>1, <2>2, FS_EmptySet
<1>6. ASSUME NEW v \in S PROVE v + 1 \in S
  <2> SUFFICES ASSUME v + 1 <= RADIX_SIZE PROVE Before(f, v + 1) = Cardinality(B(v + 1))
    OBVIOUS
  <2>1. v \in Digits /\ v \in Nat /\ Before(f, v) = Cardinality(B(v))
    BY Sizes DEF Digits
  <2>2. B(v + 1) = B(v) \cup A(v) /\ B(v) \cap A(v) = {}
        /\ B(v) \in SUBSET Span(b, e) /\ A(v) \in SUBSET Span(b, e)
    <3>1. \A k \in Span(b, e) : Digit(list[k], d) \in Nat
      BY <1>3, <1>4
    <3>2. \A k \in Span(b, e) :
            Digit(list[k], d) < v + 1 <=> Digit(list[k], d) < v \/ Digit(list[k], d) = v
      BY <2>1, <3>1
    <3>3. \A k \in Span(b, e) : ~(Digit(list[k], d) < v /\ Digit(list[k], d) = v)
      BY <2>1
    <3> QED
      BY <3>2, <3>3
  <2>3. Before(f, v + 1) = Before(f, v) + f[v]
    BY <1>1, <2>1, Befores
  <2>4. f[v] = Cardinality(A(v))
    BY <1>1, <2>1
  <2> DEFINE C == A(v)
             D == B(v)
             E == B(v + 1)
  <2>5. E = D \cup C /\ D \cap C = {} /\ D \in SUBSET Span(b, e) /\ C \in SUBSET Span(b, e)
        /\ Before(f, v) = Cardinality(D) /\ f[v] = Cardinality(C)
    BY <2>1, <2>2, <2>4
  <2> SUFFICES Before(f, v + 1) = Cardinality(E)
    OBVIOUS
  <2> HIDE DEF C, D, E, f
  <2>6. IsFiniteSet(C) /\ IsFiniteSet(D) /\ Cardinality(C) \in Nat /\ Cardinality(D) \in Nat
    BY <1>2, <2>5, FS_Subset, FS_CardinalityType
  <2>7. Cardinality(E) = Cardinality(D) + Cardinality(C)
    <3>1. Cardinality(D \cup C) = Cardinality(D) + Cardinality(C) - Cardinality(D \cap C)
      BY <2>6, FS_Union
    <3>2. Cardinality(D \cap C) = 0 /\ E = D \cup C
      BY <2>5, FS_EmptySet
    <3> HIDE DEF Span
    <3> QED
      BY <2>6, <3>1, <3>2
  <2> QED
    BY <2>3, <2>5, <2>7
<1>7. \A v \in Nat : v \in S
  <2>1. S \in SUBSET Nat
    OBVIOUS
  <2> HIDE DEF S
  <2>2. S = Nat
    BY <1>5, <1>6, <2>1, AllNaturals
  <2> QED
    BY <2>2
<1>8. \A v \in 0 .. RADIX_SIZE : Before(f, v) = Cardinality(B(v))
  BY <1>7, Sizes
<1>9. Before(f, RADIX_SIZE) = e - b
  <2>1. B(RADIX_SIZE) = Span(b, e)
    BY <1>3, <1>4
  <2>2. Before(f, RADIX_SIZE) = Cardinality(B(RADIX_SIZE))
    BY <1>8, Sizes
  <2> QED
    BY <1>2, <2>1, <2>2
<1> QED
  BY <1>8, <1>9

(* A block that lacks one of its hashes has room left for it.              *)
LEMMA RoomLeft ==
  ASSUME TypeOK, NEW b \in Nat, NEW e \in Nat, b > 0, b <= e, e <= count + 1, NEW d \in Nat,
         NEW v \in Digits, NEW x \in Nat, b + Before(Freqs(b, e, d), v) <= x,
         x <= b + Before(Freqs(b, e, d), v + 1),
         \A k \in Span(b + Before(Freqs(b, e, d), v), x) : Digit(list[k], d) = v,
         NEW j \in Span(b, e), Digit(list[j], d) = v,
         j \notin Span(b + Before(Freqs(b, e, d), v), x)
  PROVE  x < b + Before(Freqs(b, e, d), v + 1)
<1> DEFINE f == Freqs(b, e, d)
           A == {k \in Span(b, e) : Digit(list[k], d) = v}
           s == b + Before(f, v)
           P == Span(s, x)
<1>1. f \in [Digits -> Nat] /\ f[v] = Cardinality(A)
  <2>1. f \in [Digits -> Nat]
    BY ONLY b \in Nat, e \in Nat, FreqsType
  <2>2. f[v] = Cardinality(A)
    BY ONLY v \in Digits DEF Freqs, Span
  <2> QED
    BY <2>1, <2>2
<1>2. /\ Before(f, v) \in Nat /\ Before(f, v + 1) = Before(f, v) + f[v] /\ f[v] \in Nat
      /\ Before(f, v + 1) <= Before(f, RADIX_SIZE) /\ Before(f, RADIX_SIZE) = e - b
  <2>1. v \in 0 .. RADIX_SIZE /\ v + 1 \in 0 .. RADIX_SIZE /\ RADIX_SIZE \in 0 .. RADIX_SIZE
    BY Sizes DEF Digits
  <2>2. Before(f, RADIX_SIZE) = e - b
    BY FreqsBefore
  <2> HIDE DEF f
  <2> QED
    BY <1>1, <2>1, <2>2, Befores
<1> HIDE DEF f
<1>3. P \cup {j} \in SUBSET A /\ j \notin P
  BY <1>2 DEF Span, f
<1>4. IsFiniteSet(A)
  <2>1. IsFiniteSet(Span(b, e)) /\ A \in SUBSET Span(b, e)
    BY FS_Interval DEF Span
  <2> HIDE DEF A
  <2> QED
    BY <2>1, FS_Subset
<1>5. IsFiniteSet(P) /\ Cardinality(P) = x - s
  <2>1. s \in Nat
    BY <1>2 DEF f
  <2> HIDE DEF s
  <2>2. s <= x
    BY DEF s, f
  <2> QED
    BY <2>1, <2>2, Spans
<1>6. Cardinality(P \cup {j}) = (x - s) + 1 /\ Cardinality(P \cup {j}) <= Cardinality(A)
  <2> HIDE DEF A, P
  <2> QED
    BY <1>3, <1>4, <1>5, FS_AddElement, FS_Subset
<1> QED
  BY <1>1, <1>2, <1>6 DEF f

-----------------------------------------------------------------------------
(* Moving hashes.                                                          *)

(* The list and the indices are rearranged alike.                          *)
Step(p, b, e) ==
  /\ Order(p, b, e)
  /\ list' = [k \in 1 .. count |-> list[p[k]]]
  /\ idxs' = [k \in 1 .. count |-> idxs[p[k]]]

LEMMA NoMove ==
  ASSUME TypeOK, Follows, NEW b \in Nat, NEW e \in Nat, list' = list, idxs' = idxs
  PROVE  \E p : Step(p, b, e)
<1> DEFINE p == [k \in 1 .. count |-> k]
<1>1. Order(p, b, e)
  BY DEF Order
<1>2. list' = [k \in 1 .. count |-> list[p[k]]]
  BY DEF TypeOK
<1>3. idxs' = [k \in 1 .. count |-> idxs[p[k]]]
  BY DEF Follows
<1> HIDE DEF p
<1> QED
  BY <1>1, <1>2, <1>3 DEF Step

(* A rearrangement that is undone by making it again.                      *)
LEMMA SwapOrder ==
  ASSUME TypeOK, NEW b \in Nat, NEW e \in Nat, b > 0, e <= count + 1,
         NEW x \in Span(b, e), NEW y \in Span(b, e)
  PROVE  LET p == [k \in 1 .. count |-> IF k = x THEN y ELSE IF k = y THEN x ELSE k]
         IN  /\ Order(p, b, e)
             /\ \A k \in 1 .. count : p[k] \in 1 .. count /\ p[p[k]] = k
<1> DEFINE p == [k \in 1 .. count |-> IF k = x THEN y ELSE IF k = y THEN x ELSE k]
<1>1. count \in Nat /\ x \in 1 .. count /\ y \in 1 .. count
  <2>1. count \in Nat
    BY Hashing
  <2> QED
    BY <2>1 DEF Span
<1>2. \A k \in 1 .. count : p[k] \in 1 .. count /\ p[p[k]] = k
  BY <1>1
<1>3. \A k \in 1 .. count : IF k \in Span(b, e) THEN p[k] \in Span(b, e) ELSE p[k] = k
  BY <1>1
<1>4. p \in [1 .. count -> 1 .. count]
  BY <1>1
<1>5. \A j \in 1 .. count : \E k \in 1 .. count : p[k] = j
  BY <1>2
<1> HIDE DEF p
<1>6. Order(p, b, e)
  BY <1>3, <1>4, <1>5 DEF Order
<1> QED
  BY <1>2, <1>6 DEF p

LEMMA SwapStep ==
  ASSUME TypeOK, Follows, NEW b \in Nat, NEW e \in Nat, b > 0, e <= count + 1,
         NEW x \in Span(b, e), NEW y \in Span(b, e),
         list' = Swapped(list, x, y), idxs' = Swapped(idxs, x, y)
  PROVE  \E p : /\ Step(p, b, e)
                /\ \A k \in 1 .. count : p[k] \in 1 .. count /\ p[p[k]] = k
                /\ \A k \in 1 .. count : k # x /\ k # y => p[k] = k
                /\ p[x] = y /\ p[y] = x
<1> DEFINE p == [k \in 1 .. count |-> IF k = x THEN y ELSE IF k = y THEN x ELSE k]
<1>1. count \in Nat /\ x \in 1 .. count /\ y \in 1 .. count
  <2>1. count \in Nat
    BY Hashing
  <2> QED
    BY <2>1 DEF Span
<1>2. Order(p, b, e) /\ \A k \in 1 .. count : p[k] \in 1 .. count /\ p[p[k]] = k
  BY SwapOrder
<1>3. list' = [k \in 1 .. count |-> list[p[k]]]
  BY <1>1 DEF TypeOK, Swapped
<1>4. idxs' = [k \in 1 .. count |-> idxs[p[k]]]
  BY <1>1 DEF Follows, Swapped
<1>5. (\A k \in 1 .. count : k # x /\ k # y => p[k] = k) /\ p[x] = y /\ p[y] = x
  BY <1>1
<1> HIDE DEF p
<1> QED
  BY <1>2, <1>3, <1>4, <1>5 DEF Step

(* Every index follows its hash.                                           *)
LEMMA StepFollows ==
  ASSUME TypeOK, Follows, named' = named, NEW b, NEW e, NEW p, Step(p, b, e)
  PROVE  Follows' /\ count' = count /\ list' \in [1 .. count -> Hash]
<1>1. count' = count
  BY DEF count
<1>2. /\ p \in [1 .. count -> 1 .. count]
      /\ \A j \in 1 .. count : \E k \in 1 .. count : p[k] = j
      /\ list' = [k \in 1 .. count |-> list[p[k]]]
      /\ idxs' = [k \in 1 .. count |-> idxs[p[k]]]
  BY DEF Step, Order
<1>3. list' \in [1 .. count -> Hash]
  BY <1>2 DEF TypeOK
<1>4. /\ idxs \in [1 .. count -> 1 .. count]
      /\ \A j \in 1 .. count : \E k \in 1 .. count : idxs[k] = j
      /\ \A k \in 1 .. count : list[k] = named[idxs[k]]
  BY DEF Follows
<1>5. \A j \in 1 .. count : \E k \in 1 .. count : idxs'[k] = j
  <2> SUFFICES ASSUME NEW j \in 1 .. count PROVE \E k \in 1 .. count : idxs'[k] = j
    OBVIOUS
  <2>1. PICK m \in 1 .. count : idxs[m] = j
    BY <1>4
  <2>2. PICK k \in 1 .. count : p[k] = m
    BY <1>2
  <2> QED
    BY <1>2, <2>1, <2>2
<1>6. idxs' \in [1 .. count -> 1 .. count] /\ \A k \in 1 .. count : list'[k] = named[idxs'[k]]
  BY <1>2, <1>4
<1> QED
  BY <1>1, <1>3, <1>5, <1>6 DEF Follows

(* What is apart from a rearrangement, or all of it, stays apart.          *)
LEMMA StepApart ==
  ASSUME TypeOK, named' = named, NEW b \in Nat, NEW e \in Nat, NEW p, Step(p, b, e),
         NEW x \in Nat, NEW y \in Nat, x > 0, x <= y, y <= count + 1, Apart(x, y),
         b > 0, b <= e, e <= count + 1,
         y <= b \/ e <= x \/ (x = b /\ y = e)
  PROVE  Apart(x, y)'
<1>1. count' = count /\ count \in Nat
  BY Hashing DEF count
<1>2. /\ p \in [1 .. count -> 1 .. count]
      /\ \A k \in 1 .. count : IF k \in Span(b, e) THEN p[k] \in Span(b, e) ELSE p[k] = k
      /\ list' = [k \in 1 .. count |-> list[p[k]]]
  BY DEF Step, Order
<1>3. ASSUME NEW k \in 1 .. count
      PROVE  /\ k \in Span(x, y) => p[k] \in Span(x, y)
             /\ k \in 1 .. x-1 => p[k] \in 1 .. x-1
             /\ k \in y .. count => p[k] \in y .. count
  <2>1. CASE k \in Span(b, e)
    <3>1. p[k] \in Span(b, e) /\ p[k] \in 1 .. count
      BY <1>2, <2>1
    <3> DEFINE q == p[k]
    <3>2. q \in Span(b, e) /\ q \in 1 .. count /\ k \in Span(b, e) /\ k \in 1 .. count
      BY <2>1, <3>1
    <3> HIDE DEF q
    <3>3. /\ k \in Span(x, y) => q \in Span(x, y)
          /\ k \in 1 .. x-1 => q \in 1 .. x-1
          /\ k \in y .. count => q \in y .. count
      <4>1. CASE y <= b
        BY <1>1, <3>2, <4>1 DEF Span
      <4>2. CASE e <= x
        BY <1>1, <3>2, <4>2 DEF Span
      <4>3. CASE x = b /\ y = e
        BY <1>1, <3>2, <4>3 DEF Span
      <4> QED
        BY <4>1, <4>2, <4>3
    <3> QED
      BY <3>3 DEF q
  <2>2. CASE k \notin Span(b, e)
    BY <1>2, <2>2
  <2> QED
    BY <2>1, <2>2
<1> SUFFICES ASSUME NEW k \in Span(x, y)
             PROVE  /\ \A l \in 1 .. x-1 : list'[l] <= list'[k]
                    /\ \A l \in y .. count : list'[k] <= list'[l]
  BY <1>1 DEF Apart, Span
<1>4. k \in 1 .. count /\ p[k] \in Span(x, y) /\ list'[k] = list[p[k]]
  <2>1. k \in 1 .. count
    BY <1>1 DEF Span
  <2> QED
    BY <1>2, <1>3, <2>1
<1>5. ASSUME NEW l \in 1 .. x-1 PROVE list'[l] <= list'[k]
  <2>1. l \in 1 .. count
    BY <1>1, <1>4 DEF Span
  <2>2. p[l] \in 1 .. x-1 /\ list'[l] = list[p[l]]
    BY <1>2, <1>3, <2>1
  <2> QED
    BY <1>4, <2>2 DEF Apart
<1>6. ASSUME NEW l \in y .. count PROVE list'[k] <= list'[l]
  <2>1. l \in 1 .. count
    BY <1>1 DEF Span
  <2>2. p[l] \in y .. count /\ list'[l] = list[p[l]]
    BY <1>2, <1>3, <2>1
  <2> QED
    BY <1>4, <2>2 DEF Apart
<1> QED
  BY <1>5, <1>6

(* A call keeps what it says of hashes that are not moved.                 *)
LEMMA StepLoop ==
  ASSUME TypeOK, named' = named, NEW b \in Nat, NEW e \in Nat, NEW p, Step(p, b, e),
         b > 0, b <= e, NEW c, LoopOK(c), e <= c.begin, c.begin <= c.end, c.end <= count + 1
  PROVE  LoopOK(c)'
<1>1. count' = count /\ count \in Nat
  BY Hashing DEF count
<1>2. c.begin \in Nat /\ c.end \in Nat
  BY DEF LoopOK, Loops
<1>3. ASSUME NEW k \in Span(c.begin, c.end) PROVE list'[k] = list[k]
  <2>1. k \in 1 .. count /\ k \notin Span(b, e)
    BY <1>1, <1>2 DEF Span
  <2> QED
    BY <2>1 DEF Step, Order
<1>4. Alike(c.begin, c.end, c.digit + 1)'
  BY <1>3 DEF LoopOK, Alike
<1> QED
  BY <1>3, <1>4 DEF LoopOK

LEMMA StepAlike ==
  ASSUME TypeOK, named' = named, NEW b \in Nat, NEW e \in Nat, NEW p, Step(p, b, e),
         b > 0, b <= e, e <= count + 1, NEW d, Alike(b, e, d)
  PROVE  Alike(b, e, d)'
<1>1. count \in Nat
  BY Hashing
<1>2. ASSUME NEW k \in Span(b, e) PROVE list'[k] = list[p[k]] /\ p[k] \in Span(b, e)
  <2>1. k \in 1 .. count
    BY <1>1 DEF Span
  <2> QED
    BY <2>1 DEF Step, Order
<1> QED
  BY <1>2 DEF Alike

-----------------------------------------------------------------------------
(* The calls.                                                              *)

(* The running call, of the kind that its action has.                      *)
LEMMA Running ==
  ASSUME TypeOK, StackOK, todo # <<>>, NEW c, c = Head(todo)
  PROVE  /\ c = todo[1] /\ 1 \in 1 .. Len(todo) /\ CallOK(c)
         /\ c.op = "smallsort" => SmallOK(c)
         /\ c.op = "insertionsort" => InsertionOK(c)
         /\ c.op = "flagsort" => FlagOK(c)
         /\ c.op = "radixsort" => RadixOK(c)
         /\ c.op = "permute" => PermuteOK(c)
         /\ c.op = "sortblocks" => LoopOK(c)
         /\ c.op # "blobsort"
         /\ c.begin \in Nat /\ c.end \in Nat
<1>1. c = todo[1] /\ 1 \in 1 .. Len(todo)
  BY DEF TypeOK
<1>2. CallOK(c)
  BY <1>1 DEF StackOK
<1>3. /\ SmallOK(c) => c.op = "smallsort" /\ c.begin \in Nat /\ c.end \in Nat
      /\ InsertionOK(c) => c.op = "insertionsort" /\ c.begin \in Nat /\ c.end \in Nat
      /\ FlagOK(c) => c.op = "flagsort" /\ c.begin \in Nat /\ c.end \in Nat
      /\ RadixOK(c) => c.op = "radixsort" /\ c.begin \in Nat /\ c.end \in Nat
      /\ PermuteOK(c) => c.op = "permute" /\ c.begin \in Nat /\ c.end \in Nat
      /\ LoopOK(c) => c.op = "sortblocks" /\ c.begin \in Nat /\ c.end \in Nat
  <2>1. SmallOK(c) => c.op = "smallsort" /\ c.begin \in Nat /\ c.end \in Nat
    BY DEF SmallOK, Smalls
  <2>2. InsertionOK(c) => c.op = "insertionsort" /\ c.begin \in Nat /\ c.end \in Nat
    BY DEF InsertionOK, Insertions
  <2>3. FlagOK(c) => c.op = "flagsort" /\ c.begin \in Nat /\ c.end \in Nat
    BY DEF FlagOK, Flags
  <2>4. RadixOK(c) => c.op = "radixsort" /\ c.begin \in Nat /\ c.end \in Nat
    BY DEF RadixOK, Radixes
  <2>5. PermuteOK(c) => c.op = "permute" /\ c.begin \in Nat /\ c.end \in Nat
    BY DEF PermuteOK, Permutes
  <2>6. LoopOK(c) => c.op = "sortblocks" /\ c.begin \in Nat /\ c.end \in Nat
    BY DEF LoopOK, Loops
  <2> QED
    BY <2>1, <2>2, <2>3, <2>4, <2>5, <2>6
<1>4. SmallOK(c) \/ InsertionOK(c) \/ FlagOK(c) \/ RadixOK(c) \/ PermuteOK(c) \/ LoopOK(c)
  BY <1>2 DEF CallOK
<1> QED
  BY <1>1, <1>2, <1>3, <1>4

(* What a call leaves to other calls, in its place.                        *)
Leaves(new, c) ==
  /\ new \in Seq(Frames)
  /\ \A n \in 1 .. Len(new) :
       /\ CallOK(new[n]) /\ (n > 1 => LoopOK(new[n]))
       /\ c.begin <= new[n].begin /\ new[n].end <= c.end
  /\ \A n \in 1 .. Len(new) : \A m \in n + 1 .. Len(new) : new[n].end <= new[m].begin
  /\ \A k \in 1 .. count - 1 :
       c.begin <= k /\ k + 1 < c.end =>
         list[k] <= list[k + 1]
           \/ \E n \in 1 .. Len(new) : new[n].begin <= k /\ k + 1 < new[n].end

LEMMA Replaced ==
  ASSUME TypeOK, StackOK, todo # <<>>, NEW c, c = Head(todo),
         NEW new \in Seq(Frames), todo' = new \o Tail(todo)
  PROVE  /\ todo' \in Seq(Frames)
         /\ Len(new) \in Nat /\ Len(todo) \in Nat /\ Len(todo') = Len(new) + Len(todo) - 1
         /\ \A n \in 1 .. Len(new) : todo'[n] = new[n]
         /\ \A n \in 2 .. Len(todo) : todo'[Len(new) + n - 1] = todo[n]
<1>1. /\ todo \in Seq(Frames) /\ Tail(todo) \in Seq(Frames) /\ Len(Tail(todo)) = Len(todo) - 1
      /\ \A n \in 1 .. Len(todo) - 1 : Tail(todo)[n] = todo[n + 1]
      /\ Len(todo) \in Nat /\ Len(todo) > 0
  BY HeadTailProperties DEF TypeOK
<1> DEFINE rest == Tail(todo)
<1>2. /\ todo' = new \o rest /\ rest \in Seq(Frames) /\ Len(rest) = Len(todo) - 1
      /\ \A n \in 1 .. Len(todo) - 1 : rest[n] = todo[n + 1]
  BY <1>1
<1> HIDE DEF rest
<1>3. /\ todo' \in Seq(Frames) /\ Len(todo') = Len(new) + Len(rest) /\ Len(new) \in Nat
      /\ \A n \in 1 .. Len(new) + Len(rest) :
           todo'[n] = IF n <= Len(new) THEN new[n] ELSE rest[n - Len(new)]
  <2>1. LET t == new \o rest IN
        /\ t \in Seq(Frames) /\ Len(t) = Len(new) + Len(rest)
        /\ \A n \in 1 .. Len(new) + Len(rest) :
             t[n] = IF n <= Len(new) THEN new[n] ELSE rest[n - Len(new)]
    <3> HIDE DEF Frames
    <3> QED
      BY <1>2, ConcatProperties
  <2>2. Len(new) \in Nat
    OBVIOUS
  <2> QED
    BY <1>2, <2>1, <2>2
<1>4. \A n \in 1 .. Len(new) : todo'[n] = new[n]
  BY <1>1, <1>2, <1>3
<1>5. ASSUME NEW n \in 2 .. Len(todo) PROVE todo'[Len(new) + n - 1] = todo[n]
  <2>1. /\ Len(new) + n - 1 \in 1 .. Len(new) + Len(rest) /\ ~(Len(new) + n - 1 <= Len(new))
        /\ Len(new) + n - 1 - Len(new) = n - 1 /\ n - 1 \in 1 .. Len(todo) - 1 /\ n - 1 + 1 = n
    BY <1>1, <1>2, <1>3
  <2>2. todo'[Len(new) + n - 1] = rest[n - 1] /\ rest[n - 1] = todo[n - 1 + 1]
    BY <1>2, <1>3, <2>1
  <2> QED
    BY <2>1, <2>2
<1> QED
  BY <1>1, <1>2, <1>3, <1>4, <1>5

LEMMA Proceeds ==
  ASSUME TypeOK, Follows, StackOK, GapsOK, todo # <<>>, named' = named, T' = T,
         NEW c, c = Head(todo), NEW new, Leaves(new, c)', todo' = new \o Tail(todo),
         NEW p, Step(p, c.begin, c.end)
  PROVE  Inv'
<1> DEFINE N == Len(new)
           L == Len(todo)
<1>1. /\ CallOK(c) /\ c = todo[1] /\ c.begin \in Nat /\ c.end \in Nat
      /\ 1 <= c.begin /\ c.begin <= c.end /\ c.end <= count + 1 /\ Apart(c.begin, c.end)
  BY Running DEF CallOK
<1>2. /\ new \in Seq(Frames) /\ todo' \in Seq(Frames)
      /\ N \in Nat /\ L \in Nat /\ Len(todo') = N + L - 1
      /\ \A n \in 1 .. N : todo'[n] = new[n]
      /\ \A n \in 2 .. L : todo'[N + n - 1] = todo[n]
  <2>1. new \in Seq(Frames)
    BY DEF Leaves
  <2> QED
    BY <2>1, Replaced
<1> HIDE DEF N, L
<1>3. N \in Nat /\ L \in Nat
  BY <1>2
<1>4. Follows' /\ count' = count /\ list' \in [1 .. count -> Hash] /\ count \in Nat
  BY <1>1, StepFollows, Hashing
<1>5. TypeOK'
  BY <1>2, <1>4 DEF TypeOK
<1>6. /\ \A n \in 1 .. N : /\ CallOK(new[n])' /\ (n > 1 => LoopOK(new[n])')
                           /\ c.begin <= new[n].begin /\ new[n].end <= c.end
      /\ \A n \in 1 .. N : \A m \in n + 1 .. N : new[n].end <= new[m].begin
      /\ \A k \in 1 .. count - 1 :
           c.begin <= k /\ k + 1 < c.end =>
             list'[k] <= list'[k + 1]
               \/ \E n \in 1 .. N : new[n].begin <= k /\ k + 1 < new[n].end
  BY <1>4 DEF Leaves, N
<1>7. ASSUME NEW n \in 2 .. L
      PROVE  /\ CallOK(todo[n]) /\ LoopOK(todo[n]) /\ c.end <= todo[n].begin
             /\ \A m \in n + 1 .. L : todo[n].end <= todo[m].begin
  <2>1. n \in 1 .. L /\ n > 1 /\ n \in 1 + 1 .. L /\ 1 \in 1 .. L
    BY <1>2
  <2> QED
    BY <1>1, <2>1 DEF StackOK, L
<1>8. ASSUME NEW n \in 2 .. L, NEW d, d = todo[n]
      PROVE  CallOK(d)' /\ LoopOK(d)' /\ d.begin \in Nat
  <2>1. CallOK(d) /\ LoopOK(d) /\ c.end <= d.begin
    BY <1>7, <1>8
  <2>2. d.begin \in Nat /\ d.end \in Nat
    BY <2>1 DEF LoopOK, Loops
  <2>3. 1 <= d.begin /\ d.begin <= d.end /\ d.end <= count + 1 /\ Apart(d.begin, d.end)
    BY <2>1 DEF CallOK
  <2>4. Apart(d.begin, d.end)'
    BY <1>1, <2>1, <2>2, <2>3, StepApart
  <2>5. LoopOK(d)'
    BY <1>1, <2>1, <2>3, StepLoop
  <2> QED
    BY <1>4, <2>2, <2>3, <2>4, <2>5 DEF CallOK
<1>9. Apart(c.begin, c.end)'
  BY <1>1, StepApart
(* The places of the calls in what is left. *)
<1>10. ASSUME NEW n \in 1 .. N + L - 1
      PROVE  \/ n \in 1 .. N /\ todo'[n] = new[n]
             \/ /\ n > N /\ n - N + 1 \in 2 .. L /\ todo'[n] = todo[n - N + 1]
  <2>1. CASE n <= N
    <3>1. n \in 1 .. N
      BY <1>3, <2>1
    <3> QED
      BY <1>2, <3>1
  <2>2. CASE ~(n <= N)
    <3>1. n - N + 1 \in 2 .. L /\ N + (n - N + 1) - 1 = n /\ n > N
      BY <1>2, <2>2
    <3> QED
      BY <1>2, <3>1
  <2> QED
    BY <2>1, <2>2
<1>11. StackOK'
  <2>1. ASSUME NEW n \in 1 .. N + L - 1, NEW d, d = todo'[n]
        PROVE  CallOK(d)' /\ (n > 1 => LoopOK(d)')
    <3>1. CASE n \in 1 .. N /\ todo'[n] = new[n]
      BY <1>6, <2>1, <3>1
    <3>2. CASE n > N /\ n - N + 1 \in 2 .. L /\ todo'[n] = todo[n - N + 1]
      BY <1>8, <2>1, <3>2
    <3> QED
      BY <1>10, <3>1, <3>2
  <2>2. ASSUME NEW n \in 1 .. N + L - 1, NEW m \in n + 1 .. N + L - 1
        PROVE  todo'[n].end <= todo'[m].begin
    <3>1. m \in 1 .. N + L - 1 /\ m \in Nat /\ n \in Nat /\ n < m
      BY <1>2
    <3>2. CASE n \in 1 .. N /\ todo'[n] = new[n]
      <4>1. CASE m \in 1 .. N /\ todo'[m] = new[m]
        <5>1. m \in n + 1 .. N
          BY <3>1, <4>1
        <5> QED
          BY <1>6, <3>2, <4>1, <5>1
      <4>2. CASE m > N /\ m - N + 1 \in 2 .. L /\ todo'[m] = todo[m - N + 1]
        <5>1. c.end <= todo'[m].begin /\ todo'[m].begin \in Nat
          BY <1>7, <1>8, <4>2
        <5>2. new[n].end <= c.end /\ new[n] \in Frames
          BY <1>2, <1>6, <3>2 DEF N
        <5>3. new[n].end \in Nat
          <6>1. \A f \in Frames : f.end \in Nat
            BY DEF Frames, Firsts, Smalls, Insertions, Flags, Radixes, Permutes, Loops
          <6> QED
            BY <5>2, <6>1
        <5> DEFINE x == new[n].end
                   y == todo'[m].begin
                   z == c.end
        <5>4. x \in Nat /\ y \in Nat /\ z \in Nat /\ x <= z /\ z <= y
          BY <1>1, <5>1, <5>2, <5>3
        <5> HIDE DEF x, y, z
        <5>5. x <= y
          BY <5>4
        <5> QED
          BY <3>2, <5>5 DEF x, y
      <4> QED
        BY <1>10, <3>1, <4>1, <4>2
    <3>3. CASE n > N /\ n - N + 1 \in 2 .. L /\ todo'[n] = todo[n - N + 1]
      <4>1. m > N /\ m - N + 1 \in 2 .. L /\ todo'[m] = todo[m - N + 1]
        <5>1. ~(m \in 1 .. N)
          BY <1>3, <3>1, <3>3
        <5> QED
          BY <1>10, <3>1, <5>1
      <4>2. m - N + 1 \in (n - N + 1) + 1 .. L
        BY <1>2, <3>1, <3>3, <4>1
      <4> QED
        BY <1>7, <3>3, <4>1, <4>2
    <3> QED
      BY <1>10, <3>2, <3>3
  <2> QED
    BY <1>2, <2>1, <2>2 DEF StackOK
<1>12. GapsOK'
  <2> SUFFICES ASSUME NEW k \in 1 .. count - 1
               PROVE  \/ list'[k] <= list'[k + 1]
                      \/ \E n \in 1 .. Len(todo') : todo'[n].begin <= k /\ k + 1 < todo'[n].end
    BY <1>4 DEF GapsOK
  <2>1. k \in 1 .. count /\ k + 1 \in 1 .. count /\ k \in Nat
    BY <1>4
  <2>2. CASE c.begin <= k /\ k + 1 < c.end
    <3>1. ASSUME NEW n \in 1 .. N, new[n].begin <= k, k + 1 < new[n].end
          PROVE  n \in 1 .. Len(todo') /\ todo'[n] = new[n]
      <4>1. L > 0
        BY ONLY TypeOK, StackOK, todo # <<>>, c = Head(todo), <1>2, Running DEF L
      <4> QED
        BY ONLY <1>2, <3>1, <4>1
    <3> QED
      BY <1>6, <2>2, <3>1
  <2>3. CASE c.begin <= k /\ k + 1 = c.end
    <3>1. k \in Span(c.begin, c.end) /\ k + 1 \in c.end .. count
      BY <1>1, <1>4, <2>1, <2>3 DEF Span
    <3> QED
      BY <1>4, <1>9, <3>1 DEF Apart
  <2>4. CASE k + 1 = c.begin /\ c.begin < c.end
    <3>1. k + 1 \in Span(c.begin, c.end) /\ k \in 1 .. c.begin - 1
      BY <1>1, <1>4, <2>1, <2>4 DEF Span
    <3> QED
      BY <1>9, <3>1 DEF Apart
  <2>5. CASE k >= c.end \/ k + 1 < c.begin \/ (k + 1 = c.begin /\ c.begin = c.end)
    <3>1. k \notin Span(c.begin, c.end) /\ k + 1 \notin Span(c.begin, c.end)
      BY <1>1, <2>1, <2>5 DEF Span
    <3>2. list'[k] = list[k] /\ list'[k + 1] = list[k + 1]
      BY <2>1, <3>1 DEF Step, Order
    <3>3. ASSUME NEW n \in 1 .. L, todo[n].begin <= k, k + 1 < todo[n].end
          PROVE  \E m \in 1 .. Len(todo') : todo'[m].begin <= k /\ k + 1 < todo'[m].end
      <4>1. n # 1
        BY <1>1, <2>1, <2>5, <3>3
      <4>2. n \in 2 .. L /\ N + n - 1 \in 1 .. Len(todo')
        BY <1>2, <4>1
      <4> QED
        BY <1>2, <3>3, <4>2
    <3> QED
      BY <3>2, <3>3 DEF GapsOK, L
  <2> QED
    BY <1>1, <2>1, <2>2, <2>3, <2>4, <2>5
<1> QED
  BY <1>4, <1>5, <1>11, <1>12 DEF Inv

(* When no hash is moved.                                                  *)
LEMMA ProceedsInPlace ==
  ASSUME TypeOK, Follows, StackOK, GapsOK, todo # <<>>, named' = named, T' = T,
         NEW c, c = Head(todo), NEW new, Leaves(new, c)', todo' = new \o Tail(todo),
         list' = list, idxs' = idxs
  PROVE  Inv'
<1>1. c.begin \in Nat /\ c.end \in Nat
  BY Running
<1>2. PICK p : Step(p, c.begin, c.end)
  BY <1>1, NoMove
<1> QED
  BY <1>2, Proceeds

-----------------------------------------------------------------------------
(* blobsort().                                                             *)

LEMMA ListLength ==
  ASSUME NEW n \in Nat, NEW S, NEW s \in [1 .. n -> S]
  PROVE  s \in Seq(S) /\ Len(s) = n
<1>1. s \in Seq(S)
  BY SeqDef
<1>2. Len(s) \in Nat /\ DOMAIN s = 1 .. Len(s)
  BY <1>1, LenProperties
<1>3. 1 .. n = 1 .. Len(s)
  BY <1>2
<1> QED
  BY <1>1, <1>2, <1>3

LEMMA AlikeAtTheTop ==
  ASSUME TypeOK, NEW b \in Nat, NEW e \in Nat, b > 0, e <= count + 1
  PROVE  Alike(b, e, LEN)
<1>1. \A k \in Span(b, e) : list[k] \in 0 .. Weight[LEN] - 1
  <2>1. \A k \in Span(b, e) : k \in 1 .. count
    BY Hashing DEF Span
  <2> QED
    BY <2>1 DEF TypeOK, Hash
<1>2. Weight[LEN] \in Nat /\ Weight[LEN] > 0
  BY Sizes, Weights
<1> DEFINE w == Weight[LEN]
<1>3. \A h \in 0 .. w - 1 : h \div w = 0
  <2> HIDE DEF w
  <2>1. w \in Nat /\ w > 0
    BY <1>2 DEF w
  <2> SUFFICES ASSUME NEW h \in 0 .. w - 1 PROVE h \div w = 0
    OBVIOUS
  <2>2. h = w * 0 + h
    BY <2>1
  <2> QED
    BY <2>1, <2>2, DivModUnique
<1> QED
  BY <1>1, <1>3 DEF Alike

(* The passes of a radix sort begin with an unordered list.                *)
LEMMA UnorderedAtFirst ==
  \A h \in Nat : h % Weight[0] = 0
BY Weights

(* The area that the passes read is the list.                              *)
IsList(s, b, m) ==
  \A k \in 1 .. m : s[k] = <<list[b + k - 1], idxs[b + k - 1]>> /\ list[b + k - 1] \in Nat

LEMMA ListAsArea ==
  ASSUME NEW n \in Nat, count' = n, list' \in [1 .. n -> Hash],
         NEW b \in Nat, NEW e \in Nat, b > 0, b < e, e <= n + 1,
         NEW m \in Nat, m <= e - b, e - b <= m, NEW s, s = Paired(b, e)'
  PROVE  HasHashes(s, b, e, m)' /\ IsList(s, b, m)'
<1> DEFINE p == [k \in 1 .. n |-> k]
<1>1. \A k \in 1 .. m : b + k - 1 \in 1 .. n
  BY ONLY n \in Nat, e <= n + 1, b \in Nat, e \in Nat, b > 0, b < e, m \in Nat, m <= e - b
<1>2. \A k \in 1 .. m : p[b + k - 1] = b + k - 1 /\ list'[b + k - 1] \in Nat
  <2>1. \A k \in 1 .. n : p[k] = k /\ list'[k] \in Nat
    <3>1. Weight[LEN] \in Nat
      BY Sizes, Weights
    <3> QED
      BY <3>1 DEF Hash
  <2> QED
    BY <1>1, <2>1
<1>3. s = [k \in 1 .. m |-> <<list'[b + k - 1], idxs'[b + k - 1]>>]
  <2>1. m = e - b
    OBVIOUS
  <2> QED
    BY <2>1 DEF Paired
<1>4. s = Area(p, b, m)'
  BY <1>2, <1>3 DEF Area
<1>5. Order(p, b, e)' /\ p \in [1 .. n -> 1 .. n]
  <2>1. /\ p \in [1 .. n -> 1 .. n]
        /\ \A k \in 1 .. n : p[k] = k
    OBVIOUS
  <2> HIDE DEF Span, p
  <2> QED
    BY <2>1 DEF Order
<1>6. IsList(s, b, m)'
  BY <1>2, <1>3 DEF IsList
<1> HIDE DEF p
<1> QED
  BY <1>4, <1>5, <1>6 DEF HasHashes

LEMMA RadixsortBegins ==
  ASSUME NEW n \in Nat, count' = n, list' \in [1 .. n -> Hash],
         NEW b \in Nat, NEW e \in Nat, b > 0, b < e, e <= n + 1,
         NEW c, c = Radixsort(b, e)
  PROVE  RadixOK(c)' /\ c \in Frames /\ c.begin = b /\ c.end = e
<1>1. c \in Radixes /\ c.begin = b /\ c.end = e /\ c.pass = 0 /\ c.fromList = TRUE
  BY DEF Radixsort, Radixes
<1>2. e - b \in Nat
  OBVIOUS
<1> SUFFICES ASSUME NEW m \in Nat, m = e - b, NEW s, s = Paired(b, e)'
             PROVE  RadixOK(c)' /\ c \in Frames /\ c.begin = b /\ c.end = e
  BY <1>2
<1>3. HasHashes(s, b, e, m)' /\ IsList(s, b, m)'
  <2>1. m <= e - b /\ e - b <= m
    OBVIOUS
  <2> QED
    BY ListAsArea
<1>4. InOrder(s, m, 0)'
  <2> SUFFICES ASSUME NEW i \in 1 .. m, NEW j \in 1 .. m
               PROVE  s[i][1] % Weight[0] <= s[j][1] % Weight[0]
    BY DEF InOrder
  <2>1. s[i][1] \in Nat /\ s[j][1] \in Nat
    BY <1>3 DEF IsList
  <2>2. s[i][1] % Weight[0] = 0 /\ s[j][1] % Weight[0] = 0
    BY <2>1, UnorderedAtFirst
  <2> QED
    BY <2>2
<1>5. RadixOK(c)'
  <2>1. c.end - c.begin = m /\ c.fromList
    BY <1>1
  <2> QED
    BY <1>1, <1>3, <1>4, <2>1, Sizes DEF RadixOK
<1> QED
  BY <1>1, <1>5 DEF Frames

LEMMA BlobsortInv ==
  ASSUME TypeOK, Starting, blobsort
  PROVE  Inv'
<1>1. /\ list' = list /\ named' = named /\ T' = T /\ count' = count /\ count \in Nat
      /\ list \in [1 .. count -> Hash] /\ Len(list) = count
  <2>1. count \in Nat /\ list \in [1 .. count -> Hash]
    BY Hashing DEF TypeOK
  <2> QED
    BY <2>1, ListLength DEF blobsort, count
<1> DEFINE new == IF count <= 1 THEN <<>>
                  ELSE IF count <= SMALLSORT_CUTOFF THEN <<Smallsort(1, count + 1, TRUE)>>
                  ELSE IF T.long THEN <<Flagsort(1, count + 1, LEN - 1)>>
                  ELSE <<Radixsort(1, count + 1)>>
<1>2. todo' = new
  <2>1. Tail(todo) = <<>>
    BY DEF Starting
  <2>2. todo' = new \o Tail(todo)
    BY <1>1 DEF blobsort, Become
  <2>3. new \o <<>> = new
    BY DEF Smallsort, Flagsort, Radixsort
  <2> QED
    BY <2>1, <2>2, <2>3
<1>3. Follows'
  <2>1. CASE Len(idxs) = count
    <3>1. idxs' = idxs
      BY <1>1, <2>1 DEF blobsort, Filled
    <3> QED
      BY <1>1, <2>1, <3>1 DEF Starting, Follows
  <2>2. CASE Len(idxs) # count
    <3>1. idxs' = [k \in 1 .. count |-> k]
      BY <1>1, <2>2 DEF blobsort, Filled, Places
    <3>2. list = named
      BY <2>2 DEF Starting
    <3> QED
      BY <1>1, <3>1, <3>2 DEF Follows
  <2> QED
    BY <2>1, <2>2
<1>4. Apart(1, count + 1)'
  BY <1>1 DEF Apart
<1>5. CASE count <= 1
  <2>1. todo' = <<>>
    BY <1>2, <1>5
  <2>2. TypeOK'
    BY <1>1, <2>1 DEF TypeOK
  <2>3. StackOK' /\ GapsOK'
    BY <1>1, <1>5, <2>1 DEF StackOK, GapsOK
  <2> QED
    BY <1>3, <2>2, <2>3 DEF Inv
<1>6. ASSUME count > 1, NEW d \in Frames, todo' = <<d>>, d.begin = 1, d.end = count + 1,
             (SmallOK(d) \/ FlagOK(d) \/ RadixOK(d))'
      PROVE  Inv'
  <2>1. TypeOK'
    BY <1>1, <1>6 DEF TypeOK
  <2>2. CallOK(d)'
    BY <1>1, <1>4, <1>6 DEF CallOK
  <2>3. Len(todo') = 1 /\ todo'[1] = d
    BY <1>6
  <2>4. StackOK'
    BY <2>2, <2>3 DEF StackOK
  <2>5. GapsOK'
    BY <1>1, <1>6, <2>3 DEF GapsOK
  <2> QED
    BY <1>3, <2>1, <2>4, <2>5 DEF Inv
<1>7. CASE count > 1 /\ count <= SMALLSORT_CUTOFF
  <2> DEFINE d == Smallsort(1, count + 1, TRUE)
  <2>1. todo' = <<d>>
    <3> HIDE DEF d
    <3>1. ~(count <= 1)
      BY <1>1, <1>7
    <3> QED
      BY <1>2, <1>7, <3>1 DEF d
  <2>2. d \in Smalls /\ d.begin = 1 /\ d.end = count + 1 /\ d.guarded = TRUE
    BY <1>1 DEF Smallsort, Smalls
  <2> SUFFICES ASSUME NEW f, f = d PROVE Inv'
    OBVIOUS
  <2> HIDE DEF d
  <2>3. f \in Smalls /\ f.begin = 1 /\ f.end = count + 1 /\ f.guarded = TRUE
    BY <2>2
  <2>4. SmallOK(f)'
    BY <1>1, <1>7, <2>3 DEF SmallOK
  <2> QED
    BY <1>6, <1>7, <2>1, <2>3, <2>4 DEF Frames
<1>8. CASE count > 1 /\ ~(count <= SMALLSORT_CUTOFF) /\ T.long
  <2> DEFINE d == Flagsort(1, count + 1, LEN - 1)
  <2>1. todo' = <<d>>
    <3>1. ~(count <= 1)
      BY <1>1, <1>8
    <3> QED
      BY <1>2, <1>8, <3>1
  <2>2. d \in Flags /\ d.begin = 1 /\ d.end = count + 1 /\ d.digit + 1 = LEN /\ d.digit < LEN
    BY <1>1, Sizes DEF Flagsort, Flags
  <2> SUFFICES ASSUME NEW f, f = d PROVE Inv'
    OBVIOUS
  <2> HIDE DEF d
  <2>3. f \in Flags /\ f.begin = 1 /\ f.end = count + 1 /\ f.digit + 1 = LEN /\ f.digit < LEN
    BY <2>2
  <2>4. Alike(1, count + 1, LEN)
    BY <1>1, AlikeAtTheTop
  <2>5. FlagOK(f)'
    BY <1>1, <1>8, <2>3, <2>4 DEF FlagOK, Alike
  <2> QED
    BY <1>6, <1>8, <2>1, <2>3, <2>5 DEF Frames
<1>9. CASE count > 1 /\ ~(count <= SMALLSORT_CUTOFF) /\ ~T.long
  <2> DEFINE d == Radixsort(1, count + 1)
  <2>1. todo' = <<d>>
    BY <1>1, <1>2, <1>9
  <2> SUFFICES ASSUME NEW f, f = d PROVE Inv'
    OBVIOUS
  <2>2. RadixOK(f)' /\ f \in Frames /\ f.begin = 1 /\ f.end = count + 1
    BY <1>1, <1>9, RadixsortBegins
  <2> QED
    BY <1>6, <1>9, <2>1, <2>2
<1> QED
  BY <1>1, <1>5, <1>7, <1>8, <1>9, Sizes

-----------------------------------------------------------------------------
(* The insertion sort.                                                     *)

LEMMA InsertionBegins ==
  ASSUME NEW n \in Nat, count' = n, list' \in [1 .. n -> Hash],
         NEW b \in Nat, NEW e \in Nat, b > 0, b <= e, e <= n + 1, Apart(b, e)',
         NEW unlimited \in BOOLEAN, NEW unguarded \in BOOLEAN, unguarded => b > 1,
         NEW new, new = Insertion(b, e, unlimited, unguarded),
         NEW c, c.begin \in Nat, c.begin <= b, c.end = e,
         \A k \in 1 .. n - 1 : c.begin <= k /\ k < b => list'[k] <= list'[k + 1]
  PROVE  Leaves(new, c)'
<1>1. CASE b + 1 >= e
  <2>1. new = <<>>
    BY <1>1 DEF Insertion
  <2>2. \A k \in 1 .. n - 1 : c.begin <= k /\ k + 1 < e => list'[k] <= list'[k + 1]
    <3>1. \A k \in 1 .. n - 1 : k \in Nat
      OBVIOUS
    <3>2. \A k \in Nat : k + 1 < e => k < b
      BY <1>1
    <3> QED
      BY <3>1, <3>2
  <2>3. new \in Seq(Frames) /\ Len(new) = 0
    BY <2>1
  <2>4. \A m \in 1 .. Len(new) : FALSE
    BY <2>3
  <2> QED
    BY <2>2, <2>3, <2>4 DEF Leaves
<1>2. CASE ~(b + 1 >= e)
  <2> DEFINE f == [op |-> "insertionsort", begin |-> b, end |-> e, i |-> b + 1, movcount |-> 0,
                   unlimited |-> unlimited, unguarded |-> unguarded]
  <2>1. new = <<f>>
    BY <1>2 DEF Insertion
  <2>2. /\ f \in Insertions /\ f.begin = b /\ f.end = e /\ f.i = b + 1
        /\ f.unguarded = unguarded
    BY DEF Insertions
  <2> HIDE DEF f
  <2> SUFFICES ASSUME NEW d, d = f PROVE Leaves(new, c)'
    OBVIOUS
  <2>3. /\ d \in Insertions /\ d.begin = b /\ d.end = e /\ d.i = b + 1
        /\ d.unguarded = unguarded /\ new = <<d>>
    BY <2>1, <2>2
  <2>4. InsertionOK(d)'
    <3>1. b < b + 1 /\ b + 1 < e
      BY <1>2
    <3>2. ASSUME NEW k \in Span(b, b + 1), NEW l \in Span(k, b + 1) PROVE list'[k] <= list'[l]
      <4>1. k = b /\ l = b /\ b \in 1 .. n
        BY <3>1 DEF Span
      <4>2. list'[b] \in Nat
        BY <4>1, Sizes, Weights DEF Hash
      <4> QED
        BY <4>1, <4>2
    <3> QED
      BY <2>3, <3>1, <3>2 DEF InsertionOK
  <2>5. CallOK(d)'
    <3>1. Apart(d.begin, d.end)'
      BY <2>3
    <3>2. 1 <= d.begin /\ d.begin <= d.end /\ d.end <= n + 1
      BY <2>3
    <3> QED
      BY <2>4, <3>1, <3>2 DEF CallOK
  <2>6. d \in Frames /\ new \in Seq(Frames) /\ Len(new) = 1 /\ new[1] = d
    BY <2>3 DEF Frames
  <2>7. \A k \in 1 .. n - 1 : c.begin <= k /\ k + 1 < e =>
          list'[k] <= list'[k + 1] \/ (b <= k /\ k + 1 < e)
    <3>1. \A k \in 1 .. n - 1 : k \in Nat
      OBVIOUS
    <3>2. \A k \in Nat : k < b \/ b <= k
      OBVIOUS
    <3> QED
      BY <3>1, <3>2
  <2> QED
    BY <2>3, <2>5, <2>6, <2>7 DEF Leaves
<1> QED
  BY <1>1, <1>2

LEMMA InsertionBeginsHere ==
  ASSUME NEW n \in Nat, count' = n, list' \in [1 .. n -> Hash],
         NEW b \in Nat, NEW e \in Nat, b > 0, b <= e, e <= n + 1, Apart(b, e)',
         NEW unlimited \in BOOLEAN, NEW unguarded \in BOOLEAN, unguarded => b > 1,
         NEW new, new = Insertion(b, e, unlimited, unguarded),
         NEW c, c.begin = b, c.end = e
  PROVE  Leaves(new, c)'
<1>1. c.begin \in Nat /\ c.begin <= b
  OBVIOUS
<1>2. \A k \in 1 .. n - 1 : c.begin <= k /\ k < b => list'[k] <= list'[k + 1]
  OBVIOUS
<1> QED
  BY <1>1, <1>2, InsertionBegins

LEMMA MinPlaces ==
  ASSUME TypeOK, NEW b \in Nat, NEW e \in Nat, b > 0, b < e, e <= count + 1
  PROVE  MinPlace(b, e) \in Span(b, e)
         /\ \A l \in Span(b, e) : list[MinPlace(b, e)] <= list[l]
<1> DEFINE A == {list[k] : k \in Span(b, e)}
           M == {k \in b .. e - 1 : \A l \in b .. e - 1 : list[k] <= list[l]}
<1>1. \A k \in Span(b, e) : list[k] \in Nat
  BY Hashing DEF Span
<1>2. PICK k \in Span(b, e) : \A l \in Span(b, e) : list[k] <= list[l]
  <2>1. A \in SUBSET Nat /\ A # {}
    BY <1>1 DEF Span
  <2>2. PICK n \in A : \A m \in A : n <= m
    <3> HIDE DEF A
    <3> QED
      BY <2>1, LeastNatural
  <2> QED
    BY <2>2
<1>3. M \in SUBSET Nat /\ M # {}
  BY <1>2 DEF Span
<1>4. \E n \in M : \A m \in M : n <= m
  <2> HIDE DEF M
  <2> QED
    BY <1>3, LeastNatural
<1>5. MinPlace(b, e) = CHOOSE x \in M : \A y \in M : x <= y
  BY DEF MinPlace, Min
<1>6. MinPlace(b, e) \in M
  <2> HIDE DEF M
  <2> QED
    BY <1>4, <1>5
<1> QED
  BY <1>6 DEF Span

LEMMA SmallsortInv ==
  ASSUME TypeOK, Follows, StackOK, GapsOK, smallsort
  PROVE  Inv'
<1> SUFFICES ASSUME NEW c, c = Head(todo), NEW b, b = c.begin, NEW e, e = c.end, NEW new,
                    new = Insertion(IF c.guarded THEN c.begin + 1 ELSE c.begin, c.end, TRUE, TRUE)
             PROVE  Inv'
  OBVIOUS
<1>1. todo # <<>> /\ c.op = "smallsort" /\ named' = named /\ T' = T /\ todo' = new \o Tail(todo)
  BY DEF smallsort, Become
<1>2. CallOK(c) /\ SmallOK(c) /\ b \in Nat /\ e \in Nat
  BY <1>1, Running
<1>3. /\ 1 <= b /\ b + 1 < e /\ e <= count + 1 /\ Apart(b, e)
      /\ c.guarded \in BOOLEAN /\ (c.guarded \/ b > 1) /\ count \in Nat /\ count' = count
  BY <1>1, <1>2, Hashing DEF CallOK, SmallOK, Smalls, count
<1>4. CASE c.guarded
  <2> SUFFICES ASSUME NEW x, x = b + 1 PROVE Inv'
    OBVIOUS
  <2> DEFINE m == MinPlace(b, e)
  <2>1. m \in Span(b, e) /\ \A l \in Span(b, e) : list[m] <= list[l]
    BY <1>2, <1>3, MinPlaces
  <2>2. list' = Swapped(list, b, m) /\ idxs' = Swapped(idxs, b, m)
    BY <1>4 DEF smallsort
  <2> HIDE DEF m
  <2>3. PICK p : Step(p, b, e) /\ p[b] = m
    <3>1. b \in Span(b, e)
      BY <1>2, <1>3 DEF Span
    <3> QED
      BY <1>2, <1>3, <2>1, <2>2, <3>1, SwapStep
  <2>4. list' \in [1 .. count -> Hash] /\ Apart(b, e)'
    BY <1>1, <1>2, <1>3, <2>3, StepFollows, StepApart
  <2>5. ASSUME NEW l \in Span(b, e) PROVE list'[b] <= list'[l]
    <3>1. l \in 1 .. count /\ b \in 1 .. count
      BY <1>2, <1>3 DEF Span
    <3>2. p[l] \in Span(b, e) /\ list'[l] = list[p[l]] /\ list'[b] = list[m]
      BY <2>3, <3>1 DEF Step, Order
    <3> QED
      BY <2>1, <3>2
  <2>6. Apart(x, e)'
    <3> SUFFICES ASSUME NEW k \in Span(x, e)
                 PROVE  /\ \A l \in 1 .. x - 1 : list'[l] <= list'[k]
                        /\ \A l \in e .. count : list'[k] <= list'[l]
      <4>1. count' = count
        BY <1>3
      <4> QED
        BY <4>1 DEF Apart
    <3>1. k \in Span(b, e) /\ \A l \in 1 .. x - 1 : l = b \/ l \in 1 .. b - 1
      BY <1>2, <1>3 DEF Span
    <3> QED
      BY <1>3, <2>4, <2>5, <3>1 DEF Apart
  <2>7. ASSUME NEW k \in 1 .. count - 1, b <= k, k < x PROVE list'[k] <= list'[k + 1]
    <3>1. k = b /\ b + 1 \in Span(b, e)
      BY <1>2, <1>3, <2>7 DEF Span
    <3> QED
      BY <2>5, <3>1
  <2>8. new = Insertion(x, e, TRUE, TRUE)
    BY <1>4
  <2>9. Leaves(new, c)'
    <3>1. x \in Nat /\ x > 0 /\ x > 1 /\ x <= e /\ b <= x
      BY <1>2, <1>3
    <3>2. b \in Nat /\ e \in Nat /\ e <= count + 1 /\ count \in Nat /\ count' = count
      BY <1>2, <1>3
    <3> QED
      BY <2>4, <2>6, <2>7, <2>8, <3>1, <3>2, InsertionBegins
  <2> QED
    BY <1>1, <2>3, <2>9, Proceeds
<1>5. CASE ~c.guarded
  <2> SUFFICES ASSUME NEW x, x = b PROVE Inv'
    OBVIOUS
  <2>1. list' = list /\ idxs' = idxs
    BY <1>5 DEF smallsort
  <2>2. list' \in [1 .. count -> Hash] /\ Apart(x, e)'
    BY <1>3, <2>1 DEF TypeOK, Apart
  <2>3. new = Insertion(x, e, TRUE, TRUE)
    BY <1>5
  <2>4. Leaves(new, c)'
    <3>1. x \in Nat /\ x > 0 /\ x > 1 /\ x <= e /\ b <= x
      BY <1>2, <1>3, <1>5
    <3>2. b \in Nat /\ e \in Nat /\ e <= count + 1 /\ count \in Nat /\ count' = count
      BY <1>2, <1>3
    <3> QED
      BY <2>2, <2>3, <3>1, <3>2, InsertionBeginsHere
  <2> QED
    BY <1>1, <2>1, <2>4, ProceedsInPlace
<1> QED
  BY <1>3, <1>4, <1>5

(* Where the scan stops: within the list, unless it reached the beginning. *)
LEMMA ScanEnds ==
  ASSUME TypeOK, NEW c, CallOK(c), InsertionOK(c),
         NEW b, b = c.begin, NEW i, i = c.i, NEW z, z = ScanEnd(c), NEW h, h = z + 1
  PROVE  /\ z \in Nat /\ b - 1 <= z /\ z < i
         /\ b <= z => list[z] <= list[i]
         /\ \A k \in Span(h, i) : list[i] < list[k]
<1>1. /\ b \in Nat /\ i \in Nat /\ b < i /\ 1 <= b /\ i < c.end /\ c.end \in Nat
      /\ c.end <= count + 1 /\ count \in Nat /\ (c.unguarded => b > 1) /\ c.unguarded \in BOOLEAN
  BY Hashing DEF CallOK, InsertionOK, Insertions
<1>2. \A k \in 1 .. i : list[k] \in Nat
  BY <1>1, Hashing
<1> DEFINE stop == IF c.unguarded THEN 0 ELSE b - 1
           S == {k \in 0 .. i - 1 : k = stop \/ (k > 0 /\ list[k] <= list[i])}
<1>3. ScanEnd(c) = CHOOSE x \in S : \A y \in S : x >= y
  BY DEF ScanEnd, Max
<1>4. b - 1 \in S
  <2>1. b - 1 \in 0 .. i - 1
    BY <1>1
  <2>2. CASE c.unguarded
    <3>1. b - 1 \in 1 .. b - 1 /\ i \in Span(b, c.end)
      BY <1>1, <2>2 DEF Span
    <3>2. list[b - 1] <= list[i]
      BY <3>1 DEF CallOK, Apart
    <3> QED
      BY <2>1, <3>1, <3>2
  <2>3. CASE ~c.unguarded
    BY <2>1, <2>3
  <2> QED
    BY <2>2, <2>3
<1>5. \E x \in S : \A y \in S : x >= y
  <2> DEFINE D == {i - k : k \in S}
  <2>1. D \in SUBSET Nat /\ D # {}
    <3>1. \A k \in S : k \in Nat /\ k <= i - 1
      BY <1>1
    <3>2. \A k \in S : i - k \in Nat
      <4> HIDE DEF S
      <4> QED
        BY <1>1, <3>1
    <3> HIDE DEF S
    <3> QED
      BY <1>4, <3>2
  <2>2. PICK d \in D : \A m \in D : d <= m
    <3> HIDE DEF D
    <3> QED
      BY <2>1, LeastNatural
  <2>3. PICK x \in S : d = i - x
    BY <2>2
  <2>4. ASSUME NEW y \in S PROVE x >= y
    <3>1. i - y \in D
      OBVIOUS
    <3>2. d <= i - y
      BY <2>2, <3>1
    <3>3. x \in Int /\ y \in Int
      BY <1>1
    <3> HIDE DEF S, D
    <3> QED
      BY <1>1, <2>3, <3>2, <3>3
  <2> QED
    BY <2>4
<1>6. z \in S /\ \A y \in S : z >= y
  <2> HIDE DEF S
  <2> QED
    BY <1>3, <1>5
<1>7. z \in Nat /\ b - 1 <= z /\ z < i
  BY <1>1, <1>4, <1>6
<1>8. b <= z => list[z] <= list[i]
  BY <1>1, <1>6, <1>7
<1>9. ASSUME NEW k \in Span(h, i) PROVE list[i] < list[k]
  <2>1. k \in Nat /\ z < k /\ k < i /\ k \in 0 .. i - 1 /\ k \in 1 .. i
    BY <1>1, <1>7 DEF Span
  <2>2. ~(k \in S)
    <3> HIDE DEF S
    <3> QED
      BY <1>6, <1>7, <2>1
  <2>3. ~(list[k] <= list[i])
    BY <2>1, <2>2
  <2>4. list[k] \in Nat /\ list[i] \in Nat
    BY <1>1, <1>2, <2>1
  <2> QED
    BY <2>3, <2>4
<1> QED
  BY <1>7, <1>8, <1>9

(* The hash at place i is moved down to place x.                           *)
MovedTo(p, i, x) ==
  /\ p[x] = i
  /\ \A n \in 1 .. count : x < n /\ n <= i => p[n] = n - 1
  /\ \A n \in 1 .. count : n < x => p[n] = n

LEMMA MoveStep ==
  ASSUME TypeOK, Follows, NEW b \in Nat, NEW e \in Nat, b > 0, e <= count + 1,
         NEW i \in Span(b, e), NEW x \in Nat, b <= x, x <= i,
         list' = MovedDown(list, i, x), idxs' = MovedDown(idxs, i, x)
  PROVE  \E p : Step(p, b, e) /\ MovedTo(p, i, x)
<1> DEFINE p == [n \in 1 .. count |-> IF n = x THEN i ELSE IF n \in x + 1 .. i THEN n - 1 ELSE n]
<1>1. count \in Nat /\ i \in 1 .. count /\ x \in 1 .. count /\ i \in Nat /\ i < e
  <2>1. count \in Nat
    BY Hashing
  <2> QED
    BY <2>1 DEF Span
<1>2. p \in [1 .. count -> 1 .. count]
  BY <1>1
<1>3. \A j \in 1 .. count : \E k \in 1 .. count : p[k] = j
  <2> SUFFICES ASSUME NEW j \in 1 .. count PROVE \E k \in 1 .. count : p[k] = j
    OBVIOUS
  <2>1. CASE j = i
    BY <1>1, <2>1
  <2>2. CASE j >= x /\ j < i
    <3>1. j + 1 \in 1 .. count /\ j + 1 # x /\ j + 1 \in x + 1 .. i /\ (j + 1) - 1 = j
      BY <1>1, <2>2
    <3> QED
      BY <3>1
  <2>3. CASE j < x \/ j > i
    <3>1. j # x /\ ~(j \in x + 1 .. i)
      BY <1>1, <2>3
    <3> QED
      BY <3>1
  <2> QED
    BY <1>1, <2>1, <2>2, <2>3
<1>4. \A k \in 1 .. count : IF k \in Span(b, e) THEN p[k] \in Span(b, e) ELSE p[k] = k
  BY <1>1 DEF Span
<1>5. list' = [k \in 1 .. count |-> list[p[k]]]
  <2>1. DOMAIN list = 1 .. count
    BY DEF TypeOK
  <2> QED
    BY <1>1, <2>1 DEF MovedDown
<1>6. idxs' = [k \in 1 .. count |-> idxs[p[k]]]
  <2>1. DOMAIN idxs = 1 .. count
    BY DEF Follows
  <2> QED
    BY <1>1, <2>1 DEF MovedDown
<1>7. ASSUME NEW n \in 1 .. count, x < n, n <= i PROVE p[n] = n - 1
  <2>1. n # x /\ n \in x + 1 .. i
    BY <1>1, <1>7
  <2> QED
    BY <2>1
<1>8. ASSUME NEW n \in 1 .. count, n < x PROVE p[n] = n
  <2>1. n # x /\ ~(n \in x + 1 .. i)
    BY <1>1, <1>8
  <2> QED
    BY <2>1
<1>9. p[x] = i
  BY <1>1
<1> HIDE DEF p
<1>10. Step(p, b, e)
  BY <1>2, <1>3, <1>4, <1>5, <1>6 DEF Step, Order
<1> QED
  BY <1>7, <1>8, <1>10, <1>9 DEF MovedTo

(* What is before the next turn is in order.                               *)
LEMMA MovedInOrder ==
  ASSUME TypeOK, NEW p, NEW b \in Nat, NEW e, Step(p, b, e),
         NEW i \in Nat, NEW x \in Nat, MovedTo(p, i, x), b > 0, b <= x, x <= i, i <= count,
         \A k \in Span(b, i) : \A l \in Span(k, i) : list[k] <= list[l],
         b <= x - 1 => list[x - 1] <= list[i],
         \A k \in Span(x, i) : list[i] < list[k]
  PROVE  \A k \in 1 .. count : \A l \in 1 .. count :
           b <= k /\ k <= l /\ l <= i => list'[k] <= list'[l]
<1> SUFFICES ASSUME NEW n, n = count
             PROVE  \A k \in 1 .. n : \A l \in 1 .. n :
                      b <= k /\ k <= l /\ l <= i => list'[k] <= list'[l]
  OBVIOUS
<1>1. /\ p[x] = i
      /\ \A k \in 1 .. n : x < k /\ k <= i => p[k] = k - 1
      /\ \A k \in 1 .. n : k < x => p[k] = k
      /\ \A k \in 1 .. n : list'[k] = list[p[k]]
  BY DEF MovedTo, Step
<1> SUFFICES ASSUME NEW k \in 1 .. n, NEW l \in 1 .. n, b <= k, k <= l, l <= i
             PROVE  list'[k] <= list'[l]
  OBVIOUS
<1>2. /\ k \in 1 .. n /\ l \in 1 .. n /\ b <= k /\ k <= l /\ l <= i
      /\ k \in Nat /\ l \in Nat /\ n \in Nat /\ i \in 1 .. n
  BY Hashing
<1>3. list'[k] = list[p[k]] /\ list'[l] = list[p[l]]
  BY <1>1, <1>2
<1>4. \A m \in 1 .. n : list[m] \in Nat
  BY Hashing
<1>5. CASE k < x
  <2>1. p[k] = k
    BY <1>1, <1>2, <1>5
  <2>2. CASE l < x
    <3>1. k \in Span(b, i) /\ l \in Span(k, i)
      BY <1>2, <1>5, <2>2 DEF Span
    <3>2. p[l] = l /\ list[k] <= list[l]
      BY <1>1, <1>2, <2>2, <3>1
    <3> QED
      BY <1>3, <2>1, <3>2
  <2>3. CASE l = x
    <3>1. k \in Span(b, i) /\ x - 1 \in Span(k, i) /\ b <= x - 1 /\ x - 1 \in 1 .. n /\ i \in 1 .. n
      BY <1>2, <1>5 DEF Span
    <3>2. list[k] <= list[x - 1] /\ list[x - 1] <= list[i]
      BY <3>1
    <3>3. list[k] \in Nat /\ list[x - 1] \in Nat /\ list[i] \in Nat
      BY <1>2, <1>4, <3>1
    <3>4. list[k] <= list[i]
      <4> DEFINE u == list[k]
                 v == list[x - 1]
                 w == list[i]
      <4>1. u \in Nat /\ v \in Nat /\ w \in Nat /\ u <= v /\ v <= w
        BY <3>2, <3>3
      <4> HIDE DEF u, v, w
      <4>2. u <= w
        BY <4>1
      <4> QED
        BY <4>2 DEF u, w
    <3> QED
      BY <1>1, <1>3, <2>1, <2>3, <3>4
  <2>4. CASE l > x
    <3>1. p[l] = l - 1 /\ k \in Span(b, i) /\ l - 1 \in Span(k, i)
      BY <1>1, <1>2, <1>5, <2>4 DEF Span
    <3> QED
      BY <1>3, <2>1, <3>1
  <2> QED
    BY <1>2, <2>2, <2>3, <2>4
<1>6. CASE k = x
  <2>1. CASE l = x
    BY <1>1, <1>2, <1>3, <1>4, <1>6, <2>1
  <2>2. CASE l > x
    <3>1. p[l] = l - 1 /\ l - 1 \in Span(x, i) /\ l - 1 \in 1 .. n /\ i \in 1 .. n
      BY <1>1, <1>2, <2>2 DEF Span
    <3>2. list[i] < list[l - 1] /\ list[i] \in Nat /\ list[l - 1] \in Nat
      BY <1>4, <3>1
    <3>3. list[i] <= list[l - 1]
      <4> DEFINE u == list[i]
                 v == list[l - 1]
      <4>1. u \in Nat /\ v \in Nat /\ u < v
        BY <3>2
      <4> HIDE DEF u, v
      <4>2. u <= v
        BY <4>1
      <4> QED
        BY <4>2 DEF u, v
    <3> QED
      BY <1>1, <1>3, <1>6, <3>1, <3>3
  <2> QED
    BY <1>2, <1>6, <2>1, <2>2
<1>7. CASE k > x
  <2>1. /\ p[k] = k - 1 /\ p[l] = l - 1
        /\ k - 1 \in Span(b, i) /\ l - 1 \in Span(k - 1, i)
    BY <1>1, <1>2, <1>7 DEF Span
  <2>2. list[k - 1] <= list[l - 1]
    BY <2>1
  <2> QED
    BY <1>3, <2>1, <2>2
<1> QED
  BY <1>2, <1>5, <1>6, <1>7

(* A call that goes on, and one that is done.                              *)
LEMMA LeavesOne ==
  ASSUME NEW c, NEW d \in Frames, CallOK(d)', c.begin \in Nat, c.end \in Nat,
         d.begin = c.begin, d.end = c.end, NEW new, new = <<d>>
  PROVE  Leaves(new, c)'
<1>1. new \in Seq(Frames) /\ Len(new) = 1 /\ new[1] = d
  OBVIOUS
<1>2. c.begin <= d.begin /\ d.end <= c.end
  OBVIOUS
<1> QED
  BY <1>1, <1>2 DEF Leaves

LEMMA LeavesNone ==
  ASSUME NEW n, count' = n, NEW c,
         \A k \in 1 .. n - 1 : c.begin <= k /\ k + 1 < c.end => list'[k] <= list'[k + 1],
         NEW new, new = <<>>
  PROVE  Leaves(new, c)'
<1>1. new \in Seq(Frames) /\ Len(new) = 0
  OBVIOUS
<1>2. \A m \in 1 .. Len(new) : FALSE
  BY <1>1
<1> QED
  BY <1>1, <1>2 DEF Leaves

LEMMA ReturnLeaves ==
  ASSUME TypeOK, todo # <<>>, Return, NEW new, new = <<>>
  PROVE  todo' = new \o Tail(todo)
<1> DEFINE t == Tail(todo)
<1>1. t \in Seq(Frames)
  <2> HIDE DEF Frames
  <2> QED
    BY HeadTailProperties DEF TypeOK
<1> HIDE DEF t
<1>2. <<>> \o t = t
  <2> HIDE DEF Frames
  <2> QED
    BY <1>1, ConcatEmptySeq
<1> QED
  BY <1>2 DEF Return, t

LEMMA InsertionsortInv ==
  ASSUME TypeOK, Follows, StackOK, GapsOK, insertionsort
  PROVE  Inv'
<1> SUFFICES ASSUME NEW c, c = Head(todo), NEW b, b = c.begin, NEW e, e = c.end,
                    NEW i, i = c.i, NEW z,
                    z = ScanEnd(c), NEW x, x = z + 1
             PROVE  Inv'
  OBVIOUS
<1>1. todo # <<>> /\ c.op = "insertionsort" /\ named' = named /\ T' = T
  BY DEF insertionsort
<1>2. CallOK(c) /\ InsertionOK(c) /\ b \in Nat /\ e \in Nat /\ 1 <= b /\ e <= count + 1
      /\ count \in Nat /\ count' = count /\ Apart(b, e)
  <2>1. CallOK(c) /\ InsertionOK(c) /\ b \in Nat /\ e \in Nat
    BY <1>1, Running
  <2> QED
    BY <1>1, <2>1, Hashing DEF CallOK, count
<1>3. /\ c \in Insertions /\ i \in Nat /\ b < i /\ i < e /\ c.movcount \in Nat
      /\ \A k \in Span(b, i) : \A l \in Span(k, i) : list[k] <= list[l]
  BY <1>2 DEF InsertionOK, Insertions
<1>4. /\ z \in Nat /\ b - 1 <= z /\ z < i /\ (b <= z => list[z] <= list[i])
      /\ \A k \in Span(x, i) : list[i] < list[k]
  BY <1>2, ScanEnds
<1>5. /\ x \in Nat /\ b <= x /\ x <= i /\ x - 1 = z /\ i \in Span(b, e)
  BY <1>2, <1>3, <1>4 DEF Span
<1>6. list' = MovedDown(list, i, x) /\ idxs' = MovedDown(idxs, i, x)
  BY DEF insertionsort
<1>7. PICK p : Step(p, b, e) /\ MovedTo(p, i, x)
  <2>1. b > 0
    BY <1>2
  <2> QED
    BY <1>2, <1>5, <1>6, <2>1, MoveStep
<1>8. list' \in [1 .. count -> Hash] /\ Apart(b, e)'
  <2>1. list' \in [1 .. count -> Hash]
    BY <1>1, <1>2, <1>7, StepFollows
  <2>2. b > 0 /\ b <= e
    BY <1>2, <1>3
  <2> QED
    BY <1>1, <1>2, <1>7, <2>1, <2>2, StepApart
<1>9. \A k \in 1 .. count : \A l \in 1 .. count :
        b <= k /\ k <= l /\ l <= i => list'[k] <= list'[l]
  <2>1. \A k \in Span(x, i) : list[i] < list[k]
    BY <1>4
  <2>2. b > 0 /\ i <= count /\ (b <= x - 1 => list[x - 1] <= list[i])
    BY <1>2, <1>3, <1>4, <1>5
  <2>3. \A k \in Span(b, i) : \A l \in Span(k, i) : list[k] <= list[l]
    BY <1>3
  <2>4. b \in Nat /\ i \in Nat /\ x \in Nat /\ b <= x /\ x <= i
    BY <1>2, <1>3, <1>5
  <2> QED
    BY <1>7, <2>1, <2>2, <2>3, <2>4, MovedInOrder
<1> DEFINE moves == c.movcount + c.i - (ScanEnd(c) + 1)
           toomany == ~c.unlimited /\ moves > (T.len * (c.end - c.begin)) \div 2
           early == toomany /\ c.i < c.begin + ((c.end - c.begin) * 7) \div 10
           left == IF toomany THEN 0 ELSE moves
<1>10. /\ early => Become(GaveUp(c))
       /\ ~early /\ i + 1 = e => Return
       /\ ~early /\ i + 1 # e => Continue([c EXCEPT !.i = i + 1, !.movcount = left])
  BY DEF insertionsort
<1>11. left \in Nat
  <2>1. moves \in Nat
    BY <1>3, <1>4, <1>5
  <2> HIDE DEF moves, toomany
  <2> QED
    BY <2>1
<1> HIDE DEF moves, toomany, early, left
<1>12. CASE early
  <2> SUFFICES ASSUME NEW d, d = Radixsort(b, e), NEW new, new = <<d>> PROVE Inv'
    OBVIOUS
  <2>1. todo' = new \o Tail(todo)
    BY <1>10, <1>12 DEF Become, GaveUp
  <2>2. b > 0 /\ b < e /\ b <= e
    BY <1>2, <1>3
  <2>3. RadixOK(d)' /\ d \in Frames /\ d.begin = b /\ d.end = e
    BY <1>2, <1>8, <2>2, RadixsortBegins
  <2>4. CallOK(d)'
    <3>1. Apart(d.begin, d.end)' /\ 1 <= d.begin /\ d.begin <= d.end /\ d.end <= count' + 1
      BY <1>2, <1>8, <2>2, <2>3
    <3> QED
      BY <2>3, <3>1 DEF CallOK
  <2>5. Leaves(new, c)'
    BY <1>2, <2>3, <2>4, LeavesOne
  <2> QED
    BY <1>1, <1>7, <2>1, <2>5, Proceeds
<1>13. CASE ~early /\ i + 1 = e
  <2> SUFFICES ASSUME NEW new, new = <<>> PROVE Inv'
    OBVIOUS
  <2>1. todo' = new \o Tail(todo)
    BY <1>1, <1>10, <1>13, ReturnLeaves
  <2>2. ASSUME NEW k \in 1 .. count - 1, c.begin <= k, k + 1 < c.end
        PROVE  list'[k] <= list'[k + 1]
    <3>1. b <= k /\ k <= k + 1 /\ k + 1 <= i /\ k \in 1 .. count /\ k + 1 \in 1 .. count
      BY <1>2, <1>3, <1>13, <2>2
    <3> QED
      BY <1>9, <3>1
  <2>3. Leaves(new, c)'
    BY <1>2, <2>2, LeavesNone
  <2> QED
    BY <1>1, <1>7, <2>1, <2>3, Proceeds
<1>14. CASE ~early /\ i + 1 # e
  <2> SUFFICES ASSUME NEW d, d = [c EXCEPT !.i = i + 1, !.movcount = left], NEW new, new = <<d>>
               PROVE  Inv'
    OBVIOUS
  <2>1. todo' = new \o Tail(todo)
    BY <1>10, <1>14 DEF Continue
  <2>2. /\ d \in Insertions /\ d.begin = b /\ d.end = e /\ d.i = i + 1
        /\ d.unguarded = c.unguarded
    <3>1. i + 1 \in Nat
      BY <1>3
    <3> DEFINE j == i + 1
    <3> HIDE DEF j
    <3>2. c \in Insertions /\ j \in Nat /\ left \in Nat /\ d = [c EXCEPT !.i = j, !.movcount = left]
      BY <1>3, <1>11, <3>1 DEF j
    <3>3. d \in Insertions
      BY <3>2 DEF Insertions
    <3>4. d.begin = c.begin /\ d.end = c.end /\ d.i = j /\ d.unguarded = c.unguarded
      BY <3>2 DEF Insertions
    <3> QED
      BY <3>3, <3>4 DEF j
  <2>3. InsertionOK(d)'
    <3>1. b < i + 1 /\ i + 1 < e /\ (d.unguarded => b > 1)
      BY <1>2, <1>3, <1>14, <2>2 DEF InsertionOK
    <3>2. ASSUME NEW k \in Span(b, i + 1), NEW l \in Span(k, i + 1) PROVE list'[k] <= list'[l]
      <4>1. k \in Nat /\ b <= k /\ k <= i
        BY <1>2, <1>3 DEF Span
      <4>2. l \in Nat /\ k <= l /\ l <= i
        BY <1>3, <4>1 DEF Span
      <4>3. k \in 1 .. count /\ l \in 1 .. count
        BY <1>2, <1>3, <4>1, <4>2
      <4> QED
        BY <1>9, <4>1, <4>2, <4>3
    <3> QED
      BY <2>2, <3>1, <3>2 DEF InsertionOK
  <2>4. CallOK(d)'
    <3>1. Apart(d.begin, d.end)' /\ 1 <= d.begin /\ d.begin <= d.end /\ d.end <= count' + 1
      BY <1>2, <1>3, <1>8, <2>2
    <3> QED
      BY <2>3, <3>1 DEF CallOK
  <2>5. d \in Frames
    BY <2>2 DEF Frames
  <2>6. Leaves(new, c)'
    BY <1>2, <2>2, <2>4, <2>5, LeavesOne
  <2> QED
    BY <1>1, <1>7, <2>1, <2>6, Proceeds
<1> QED
  BY <1>12, <1>13, <1>14

-----------------------------------------------------------------------------
(* The American flag sort.                                                 *)

LEMMA AlikeBelow ==
  ASSUME TypeOK, NEW b \in Nat, NEW e \in Nat, b > 0, e <= count + 1,
         NEW d \in Nat, Alike(b, e, d + 1), NEW v, \A k \in Span(b, e) : Digit(list[k], d) = v
  PROVE  Alike(b, e, d)
<1> SUFFICES ASSUME NEW k \in Span(b, e), NEW l \in Span(b, e)
             PROVE  list[k] \div Weight[d] = list[l] \div Weight[d]
  BY DEF Alike
<1>1. list[k] \in Nat /\ list[l] \in Nat
  <2>1. k \in 1 .. count /\ l \in 1 .. count
    BY Hashing DEF Span
  <2> QED
    BY <2>1, Hashing
<1>2. list[k] \div Weight[d + 1] = list[l] \div Weight[d + 1]
  BY DEF Alike
<1>3. list[k] \div Weight[d] = RADIX_SIZE * (list[k] \div Weight[d + 1]) + Digit(list[k], d)
  BY <1>1, DigitOf
<1>4. list[l] \div Weight[d] = RADIX_SIZE * (list[l] \div Weight[d + 1]) + Digit(list[l], d)
  BY <1>1, DigitOf
<1>5. Digit(list[k], d) = Digit(list[l], d)
  OBVIOUS
<1> HIDE DEF Digit
<1> QED
  BY <1>2, <1>3, <1>4, <1>5

LEMMA AlikeAtTheBottom ==
  ASSUME TypeOK, NEW b \in Nat, NEW e \in Nat, b > 0, e <= count + 1, Alike(b, e, 0),
         NEW k \in Span(b, e), NEW l \in Span(b, e)
  PROVE  list[k] = list[l] /\ list[k] \in Nat
<1>1. list[k] \in Nat /\ list[l] \in Nat
  <2>1. k \in 1 .. count /\ l \in 1 .. count
    BY Hashing DEF Span
  <2> QED
    BY <2>1, Hashing
<1>2. \A h \in Nat : h \div Weight[0] = h
  <2> SUFFICES ASSUME NEW h \in Nat PROVE h \div 1 = h
    BY Weights
  <2>1. h = 1 * h + 0
    OBVIOUS
  <2> QED
    BY <2>1, DivModUnique
<1>3. list[k] \div Weight[0] = list[l] \div Weight[0]
  BY DEF Alike
<1> QED
  BY <1>1, <1>2, <1>3

(* All hashes are in one block.                                            *)
LEMMA OneDigit ==
  ASSUME TypeOK, NEW b \in Nat, NEW e \in Nat, b > 0, b <= e, e <= count + 1, NEW d,
         NEW v \in Digits, Freqs(b, e, d)[v] = e - b
  PROVE  \A k \in Span(b, e) : Digit(list[k], d) = v
<1> DEFINE A == {k \in Span(b, e) : Digit(list[k], d) = v}
           S == Span(b, e)
<1>1. Cardinality(A) = e - b
  BY DEF Freqs, Span
<1>2. A \in SUBSET S /\ IsFiniteSet(S) /\ Cardinality(S) = e - b
  BY Spans
<1>3. A = S
  <2> HIDE DEF A, S
  <2> QED
    BY <1>1, <1>2, FS_Subset
<1> QED
  BY <1>3

LEMMA FlagsortInv ==
  ASSUME TypeOK, Follows, StackOK, GapsOK, flagsort
  PROVE  Inv'
<1> SUFFICES ASSUME NEW c, c = Head(todo), NEW b, b = c.begin, NEW e, e = c.end,
                    NEW d, d = c.digit, NEW f, f = Freqs(b, e, d)
             PROVE  Inv'
  OBVIOUS
<1>1. /\ todo # <<>> /\ c.op = "flagsort" /\ named' = named /\ T' = T
      /\ list' = list /\ idxs' = idxs
  BY DEF flagsort
<1>2. /\ CallOK(c) /\ c \in Flags /\ b \in Nat /\ e \in Nat /\ b < e /\ 1 <= b /\ e <= count + 1
      /\ count \in Nat /\ count' = count /\ Apart(b, e)
      /\ d \in Nat /\ d < LEN /\ Alike(b, e, d + 1)
  <2>1. CallOK(c) /\ FlagOK(c) /\ b \in Nat /\ e \in Nat
    BY <1>1, Running
  <2> QED
    BY <1>1, <2>1, Hashing DEF CallOK, FlagOK, Flags, count
<1>3. list' \in [1 .. count -> Hash] /\ Apart(b, e)'
  BY <1>1, <1>2 DEF TypeOK, Apart
<1> DEFINE trivial == \E v \in Digits : f[v] = c.end - c.begin
<1>4. /\ trivial /\ d = 0 => Become(<<>>)
      /\ trivial /\ d # 0 => Become(Insertion(b, e, FALSE, Unguarded(b)))
      /\ ~trivial =>
           Continue([op |-> "permute", begin |-> b, end |-> e, digit |-> d,
                     freqs |-> f, ptr |-> b, curblock |-> 0,
                     block_ptrs |-> [v \in Digits |-> BlockStart(b, f, v)]])
  BY DEF flagsort
<1>5. CASE trivial /\ d = 0
  <2> SUFFICES ASSUME NEW new, new = <<>> PROVE Inv'
    OBVIOUS
  <2>1. todo' = new \o Tail(todo)
    BY <1>4, <1>5 DEF Become
  <2>2. PICK v \in Digits : f[v] = e - b
    BY <1>5
  <2>3. Alike(b, e, d)
    <3>1. b > 0 /\ b <= e
      BY <1>2
    <3>2. \A k \in Span(b, e) : Digit(list[k], d) = v
      BY <1>2, <2>2, <3>1, OneDigit
    <3> QED
      BY <1>2, <3>1, <3>2, AlikeBelow
  <2>4. ASSUME NEW k \in 1 .. count - 1, c.begin <= k, k + 1 < c.end
        PROVE  list'[k] <= list'[k + 1]
    <3>1. k \in Span(b, e) /\ k + 1 \in Span(b, e) /\ b > 0
      BY <1>2, <2>4 DEF Span
    <3>2. list[k] = list[k + 1] /\ list[k] \in Nat
      BY <1>2, <1>5, <2>3, <3>1, AlikeAtTheBottom
    <3> QED
      BY <1>1, <3>2
  <2>5. Leaves(new, c)'
    BY <1>2, <2>4, LeavesNone
  <2> QED
    BY <1>1, <2>1, <2>5, ProceedsInPlace
<1>6. CASE trivial /\ d # 0
  <2> SUFFICES ASSUME NEW u, u = (b # 1), NEW new, new = Insertion(b, e, FALSE, u) PROVE Inv'
    OBVIOUS
  <2>1. todo' = new \o Tail(todo)
    BY <1>4, <1>6 DEF Become, Unguarded
  <2>2. u \in BOOLEAN /\ (u => b > 1) /\ b > 0 /\ b <= e
    <3>1. u \in BOOLEAN /\ (u => b # 1)
      BY Zenon
    <3>2. b # 1 => b > 1
      BY <1>2
    <3>3. b > 0 /\ b <= e
      BY <1>2
    <3> QED
      BY <3>1, <3>2, <3>3, Zenon
  <2>3. Leaves(new, c)'
    BY <1>2, <1>3, <2>2, InsertionBeginsHere
  <2> QED
    BY <1>1, <2>1, <2>3, ProceedsInPlace
<1>7. CASE ~trivial
  <2> SUFFICES ASSUME NEW g, g = [op |-> "permute", begin |-> b, end |-> e, digit |-> d,
                                  freqs |-> f, ptr |-> b, curblock |-> 0,
                                  block_ptrs |-> [v \in Digits |-> BlockStart(b, f, v)]],
                      NEW new, new = <<g>>
               PROVE  Inv'
    OBVIOUS
  <2>1. todo' = new \o Tail(todo)
    BY <1>4, <1>7 DEF Continue
  <2>2. f \in [Digits -> Nat]
    BY <1>2, FreqsType
  <2>3. /\ Before(f, 0) = 0 /\ \A v \in Digits : Before(f, v + 1) = Before(f, v) + f[v]
        /\ \A v \in Digits : Before(f, v) \in Nat /\ BlockStart(b, f, v) = b + Before(f, v)
    <3>1. \A v \in Digits : v \in 0 .. RADIX_SIZE
      BY Sizes DEF Digits
    <3> QED
      BY <1>2, <2>2, <3>1, Befores
  <2>4. /\ g \in Permutes /\ g.begin = b /\ g.end = e /\ g.digit = d /\ g.freqs = f
        /\ g.ptr = b /\ g.curblock = 0 /\ \A v \in Digits : g.block_ptrs[v] = b + Before(f, v)
    <3> DEFINE s == [v \in Digits |-> BlockStart(b, f, v)]
    <3>1. s \in [Digits -> Nat]
      BY <1>2, <2>3
    <3>2. \A v \in Digits : s[v] = b + Before(f, v)
      BY <2>3
    <3> HIDE DEF s
    <3>3. g = [op |-> "permute", begin |-> b, end |-> e, digit |-> d, freqs |-> f, ptr |-> b,
               curblock |-> 0, block_ptrs |-> s]
      BY DEF s
    <3>4. g \in Permutes
      BY <1>2, <2>2, <3>1, <3>3, Sizes DEF Permutes
    <3> QED
      BY <3>2, <3>3, <3>4
  <2> SUFFICES ASSUME TRUE PROVE PermuteOK(g)'
    <3>1. CallOK(g)'
      <4>1. Apart(g.begin, g.end)' /\ 1 <= g.begin /\ g.begin <= g.end /\ g.end <= count' + 1
        BY <1>2, <1>3, <2>4
      <4> QED
        BY <4>1 DEF CallOK
    <3>2. g \in Frames
      BY <2>4 DEF Frames
    <3>3. Leaves(new, c)'
      BY <1>2, <2>4, <3>1, <3>2, LeavesOne
    <3> QED
      BY <1>1, <2>1, <3>3, ProceedsInPlace
  <2>5. Alike(b, e, d + 1)' /\ Freqs(b, e, d)' = f
    BY <1>1, <1>2 DEF Alike, Freqs
  <2>6. 0 + 1 < RADIX_SIZE
    BY Sizes
  <2>7. ASSUME NEW v \in Digits
        PROVE  /\ Filledto(g, v) = b + Before(f, v)
               /\ Filledto(g, v) <= b + Before(f, v + 1)
               /\ Span(b + Before(f, v), Filledto(g, v)) = {}
    <3>1. Filledto(g, v) = b + Before(f, v)
      <4>1. v \in Nat
        BY Sizes DEF Digits
      <4> QED
        BY <1>2, <2>3, <2>4, <4>1 DEF Filledto
    <3>2. f[v] \in Nat /\ Before(f, v + 1) = Before(f, v) + f[v] /\ Before(f, v) \in Nat
      BY <2>2, <2>3
    <3> HIDE DEF Before
    <3> QED
      BY <1>2, <3>1, <3>2 DEF Span
  <2> QED
    BY <1>2, <2>3, <2>4, <2>5, <2>6, <2>7 DEF PermuteOK
<1> QED
  BY <1>5, <1>6, <1>7

(* With all other blocks filled, every hash is in the block of its digit.  *)
LEMMA AllPlaced ==
  ASSUME TypeOK, NEW b \in Nat, NEW e \in Nat, b > 0, b <= e, e <= count + 1, NEW d \in Nat,
         NEW f, f = Freqs(b, e, d),
         \A v \in Digits : v + 1 < RADIX_SIZE =>
           \A k \in Span(b + Before(f, v), b + Before(f, v + 1)) : Digit(list[k], d) = v
  PROVE  \A k \in Span(b, e) :
           /\ Digit(list[k], d) \in Digits
           /\ b + Before(f, Digit(list[k], d)) <= k
           /\ k < b + Before(f, Digit(list[k], d) + 1)
<1> DEFINE last == RADIX_SIZE - 1
           s == b + Before(f, last)
           A == {k \in Span(b, e) : Digit(list[k], d) < last}
           B == Span(b, s)
<1>1. \A k \in Span(b, e) : Digit(list[k], d) \in Digits
  <2>1. \A k \in Span(b, e) : list[k] \in Nat
    BY Hashing DEF Span
  <2> QED
    BY <2>1, DigitOf
<1>2. /\ f \in [Digits -> Nat] /\ Before(f, RADIX_SIZE) = e - b
      /\ \A v \in 0 .. RADIX_SIZE : Before(f, v) \in Nat /\ Before(f, v) <= Before(f, RADIX_SIZE)
  <2>1. f \in [Digits -> Nat] /\ Before(f, RADIX_SIZE) = e - b
    BY FreqsType, FreqsBefore
  <2>2. \A v \in 0 .. RADIX_SIZE : v \in 0 .. RADIX_SIZE /\ RADIX_SIZE \in 0 .. RADIX_SIZE
    BY Sizes
  <2> QED
    BY <2>1, <2>2, Befores
<1>3. ASSUME NEW k \in Span(b, e), NEW v, v = Digit(list[k], d), v < last
      PROVE  b + Before(f, v) <= k /\ k < b + Before(f, v + 1)
  <2>1. v \in Digits /\ v \in Nat /\ v + 1 < RADIX_SIZE /\ v + 1 \in 0 .. RADIX_SIZE
    BY <1>1, <1>3, Sizes DEF Digits
  <2> SUFFICES ASSUME NEW x, x = b + Before(f, v + 1), NEW y, y = b + Before(f, v),
                      ~(y <= k /\ k < x)
               PROVE  FALSE
    OBVIOUS
  <2>2. x \in Nat /\ y \in Nat /\ y <= x /\ k \in Nat
    <3>1. f[v] \in Nat /\ Before(f, v + 1) = Before(f, v) + f[v] /\ Before(f, v) \in Nat
      <4>1. v \in 0 .. RADIX_SIZE
        BY <2>1, Sizes
      <4> QED
        BY <1>2, <2>1, <4>1, Befores
    <3>2. k \in Nat
      BY DEF Span
    <3> QED
      BY <3>1, <3>2
  <2>3. k \notin Span(y, x)
    BY <2>2 DEF Span
  <2>4. \A j \in Span(y, x) : Digit(list[j], d) = v
    BY <2>1
  <2>5. x < b + Before(f, v + 1)
    BY <1>3, <2>1, <2>2, <2>3, <2>4, RoomLeft
  <2> QED
    BY <2>2, <2>5
<1>4. last \in Digits /\ last \in 0 .. RADIX_SIZE /\ last + 1 = RADIX_SIZE /\ last \in Nat
  BY Sizes DEF Digits
<1>5. A \in SUBSET B
  <2> SUFFICES ASSUME NEW k \in Span(b, e), Digit(list[k], d) < last PROVE k \in B
    OBVIOUS
  <2> SUFFICES ASSUME NEW v, v = Digit(list[k], d) PROVE k \in B
    OBVIOUS
  <2>1. b + Before(f, v) <= k /\ k < b + Before(f, v + 1)
    BY <1>3
  <2>2. v \in Digits /\ v \in Nat /\ v + 1 <= last /\ v + 1 \in 0 .. last
    BY <1>1, <1>4 DEF Digits
  <2>3. Before(f, v + 1) <= Before(f, last) /\ Before(f, v + 1) \in Nat /\ Before(f, last) \in Nat
    <3>1. v + 1 \in 0 .. RADIX_SIZE
      BY <1>4, <2>2
    <3> QED
      BY <1>2, <1>4, <2>2, <3>1, Befores
  <2>4. k \in Nat /\ b <= k
    BY DEF Span
  <2> QED
    BY <2>1, <2>3, <2>4 DEF Span
<1>6. Cardinality(A) = Before(f, last)
  BY <1>4, FreqsBefore
<1>7. Cardinality(B) = Before(f, last) /\ IsFiniteSet(B)
  <2>1. Before(f, last) \in Nat
    BY <1>2, <1>4
  <2>2. s \in Nat /\ b <= s /\ s - b = Before(f, last)
    BY <2>1
  <2> HIDE DEF s
  <2> QED
    BY <2>2, Spans
<1>8. A = B
  <2> HIDE DEF A, B
  <2> QED
    BY <1>5, <1>6, <1>7, FS_Subset
<1>9. ASSUME NEW k \in Span(b, e), NEW v, v = Digit(list[k], d)
      PROVE  b + Before(f, v) <= k /\ k < b + Before(f, v + 1)
  <2>1. v \in Digits /\ (v < last \/ v = last)
    <3>1. v \in Digits
      BY <1>1, <1>9
    <3> QED
      BY <1>4, <3>1 DEF Digits
  <2>2. CASE v = last
    <3>1. k \notin A
      <4>1. ~(last < last) /\ Digit(list[k], d) = last
        BY <1>4, <1>9, <2>2
      <4> QED
        BY <4>1
    <3>2. k \notin B
      BY <1>8, <3>1
    <3>3. k \in Nat /\ b <= k /\ k < e /\ Before(f, last) \in Nat
      BY <1>2, <1>4 DEF Span
    <3>4. s <= k
      BY <3>2, <3>3 DEF Span
    <3>5. b + Before(f, v + 1) = e
      BY <1>2, <1>4, <2>2
    <3> QED
      BY <2>2, <3>3, <3>4, <3>5
  <2> QED
    BY <1>3, <1>9, <2>1, <2>2
<1> QED
  BY <1>1, <1>9

(* Who has the larger digit is larger, if the higher digits are the same.  *)
LEMMA LargerDigit ==
  ASSUME NEW h \in Nat, NEW g \in Nat, NEW d \in Nat,
         h \div Weight[d + 1] = g \div Weight[d + 1], Digit(h, d) < Digit(g, d)
  PROVE  h < g
<1> DEFINE u == Digit(h, d)
           v == Digit(g, d)
           y == h \div Weight[d + 1]
<1>1. /\ h \div Weight[d] = RADIX_SIZE * y + u /\ g \div Weight[d] = RADIX_SIZE * y + v
      /\ u \in Nat /\ v \in Nat /\ u < v
  <2>1. \A w \in Digits : w \in Nat
    BY DEF Digits
  <2>2. h \div Weight[d] = RADIX_SIZE * y + u /\ u \in Digits
    BY DigitOf
  <2>3. g \div Weight[d] = RADIX_SIZE * y + v /\ v \in Digits
    BY DigitOf
  <2> QED
    BY <2>1, <2>2, <2>3
<1>2. y \in Int /\ RADIX_SIZE * y \in Int
  <2>1. y \in Nat
    <3>1. d + 1 \in Nat
      OBVIOUS
    <3> QED
      BY <3>1, DigitOf
  <2> HIDE DEF y
  <2> QED
    BY <2>1, Sizes
<1>3. h \div Weight[d] < g \div Weight[d]
  <2> HIDE DEF u, v, y
  <2> QED
    BY <1>1, <1>2
<1> QED
  BY <1>3, HigherIsLarger

(* The digits are the same after a rearrangement that undoes itself.       *)
LEMMA FreqsMoved ==
  ASSUME TypeOK, NEW b \in Nat, NEW e \in Nat, b > 0, e <= count + 1, NEW d \in Nat,
         NEW p, Step(p, b, e), \A k \in 1 .. count : p[k] \in 1 .. count /\ p[p[k]] = k
  PROVE  Freqs(b, e, d)' = Freqs(b, e, d)
<1>1. ASSUME NEW v \in Digits
      PROVE  Cardinality({k \in b .. e - 1 : Digit(list'[k], d) = v})
               = Cardinality({k \in b .. e - 1 : Digit(list[k], d) = v})
  <2> DEFINE A == {k \in b .. e - 1 : Digit(list[k], d) = v}
             B == {k \in b .. e - 1 : Digit(list'[k], d) = v}
             g == [k \in A |-> p[k]]
  <2>1. ASSUME NEW k \in b .. e - 1
        PROVE  p[k] \in b .. e - 1 /\ list'[k] = list[p[k]] /\ p[p[k]] = k /\ p[k] \in 1 .. count
    <3>1. k \in 1 .. count /\ k \in Span(b, e)
      BY Hashing DEF Span
    <3> QED
      BY <3>1 DEF Step, Order, Span
  <2>2. ASSUME NEW k \in A PROVE p[k] \in B
    <3>1. k \in b .. e - 1 /\ Digit(list[k], d) = v
      OBVIOUS
    <3>2. p[k] \in b .. e - 1 /\ list'[p[k]] = list[k]
      <4>1. p[k] \in b .. e - 1 /\ p[p[k]] = k
        BY <2>1, <3>1
      <4>2. list'[p[k]] = list[p[p[k]]]
        BY <2>1, <4>1
      <4> QED
        BY <4>1, <4>2
    <3> QED
      BY <3>1, <3>2
  <2>3. ASSUME NEW k \in B PROVE p[k] \in A /\ g[p[k]] = k
    <3>1. k \in b .. e - 1 /\ Digit(list'[k], d) = v
      OBVIOUS
    <3>2. p[k] \in b .. e - 1 /\ list'[k] = list[p[k]] /\ p[p[k]] = k
      BY <2>1, <3>1
    <3>3. p[k] \in A
      BY <3>1, <3>2
    <3> QED
      BY <3>2, <3>3
  <2>4. \A k \in A : p[p[k]] = k /\ g[k] = p[k]
    BY <2>1
  <2>5. g \in [A -> B]
    BY <2>2
  <2>6. IsFiniteSet(A)
    <3>1. A \in SUBSET (b .. e - 1) /\ IsFiniteSet(b .. e - 1)
      BY FS_Interval
    <3> HIDE DEF A
    <3> QED
      BY <3>1, FS_Subset
  <2> HIDE DEF A, B, g
  <2>7. g \in Bijection(A, B)
    <3>1. \A x \in A : \A y \in A : g[x] = g[y] => x = y
      BY <2>4
    <3>2. \A y \in B : \E x \in A : g[x] = y
      BY <2>3
    <3> QED
      BY <2>5, <3>1, <3>2 DEF Bijection, Injection, Surjection, IsInjective
  <2>8. Cardinality(B) = Cardinality(A)
    BY <2>6, <2>7, FS_Bijection DEF ExistsBijection
  <2> QED
    BY <2>8 DEF A, B
<1> QED
  BY <1>1 DEF Freqs

(* A hash of another digit goes to a place of its block that is not filled.*)
LEMMA Destination ==
  ASSUME TypeOK, NEW c, PermuteOK(c), 1 <= c.begin, c.end <= count + 1,
         c.ptr < c.begin + Before(c.freqs, c.curblock + 1),
         NEW v, v = Digit(list[c.ptr], c.digit), v # c.curblock
  PROVE  /\ v \in Digits /\ v > c.curblock
         /\ c.block_ptrs[v] < c.begin + Before(c.freqs, v + 1)
         /\ c.begin + Before(c.freqs, c.curblock + 1) <= c.begin + Before(c.freqs, v)
<1> SUFFICES ASSUME NEW b, b = c.begin, NEW e, e = c.end, NEW d, d = c.digit,
                    NEW f, f = c.freqs, NEW u, u = c.curblock, NEW j, j = c.ptr
             PROVE  /\ v \in Digits /\ v > u
                    /\ c.block_ptrs[v] < b + Before(f, v + 1)
                    /\ b + Before(f, u + 1) <= b + Before(f, v)
  OBVIOUS
<1>1. /\ b \in Nat /\ e \in Nat /\ b > 0 /\ b <= e /\ e <= count + 1 /\ d \in Nat
      /\ f = Freqs(b, e, d) /\ f \in [Digits -> Nat] /\ u \in Digits /\ j \in Nat
      /\ c.block_ptrs \in [Digits -> Nat] /\ count \in Nat
  BY Hashing DEF PermuteOK, Permutes
<1>2. /\ \A w \in 0 .. RADIX_SIZE : Before(f, w) \in Nat
      /\ \A w \in 0 .. RADIX_SIZE : \A x \in 0 .. w : Before(f, x) <= Before(f, w)
      /\ Before(f, RADIX_SIZE) = e - b
  BY <1>1, Befores, FreqsBefore
<1>3. \A w \in Digits :
        w \in Nat /\ w < RADIX_SIZE /\ w \in 0 .. RADIX_SIZE /\ w + 1 \in 0 .. RADIX_SIZE
  BY Sizes DEF Digits
<1>4. \A w \in Digits :
        /\ Filledto(c, w) >= b + Before(f, w)
        /\ Filledto(c, w) <= b + Before(f, w + 1)
        /\ \A k \in Span(b + Before(f, w), Filledto(c, w)) : Digit(list[k], d) = w
  BY DEF PermuteOK
<1>5. b + Before(f, u) <= j /\ j < b + Before(f, u + 1)
  <2>1. Filledto(c, u) = j
    BY <1>1, <1>3 DEF Filledto
  <2> QED
    BY <1>1, <1>4, <2>1
<1>6. j \in Span(b, e)
  <2>1. Before(f, u) \in Nat /\ Before(f, u + 1) \in Nat /\ Before(f, u + 1) <= e - b
    <3>1. RADIX_SIZE \in 0 .. RADIX_SIZE /\ u + 1 \in 0 .. RADIX_SIZE
      BY <1>1, <1>3, Sizes
    <3> QED
      BY <1>1, <1>2, <1>3, <3>1
  <2> QED
    BY <1>1, <1>5, <2>1 DEF Span
<1>7. v \in Digits
  <2>1. list[j] \in Nat
    BY <1>1, <1>6, Hashing DEF Span
  <2> QED
    BY <1>1, <2>1, DigitOf
<1>8. ASSUME NEW x \in Nat, b + Before(f, v) <= x, x <= b + Before(f, v + 1),
             \A k \in Span(b + Before(f, v), x) : Digit(list[k], d) = v,
             j \notin Span(b + Before(f, v), x)
      PROVE  x < b + Before(f, v + 1)
  BY <1>1, <1>6, <1>7, <1>8, RoomLeft
<1>9. ~(v < u)
  <2> SUFFICES ASSUME v < u PROVE FALSE
    OBVIOUS
  <2> SUFFICES ASSUME NEW x, x = b + Before(f, v + 1), NEW y, y = b + Before(f, v) PROVE FALSE
    OBVIOUS
  <2>1. v + 1 \in 0 .. u
    BY <1>1, <1>3, <1>7
  <2>2. x \in Nat /\ x <= b + Before(f, u) /\ y <= x /\ y \in Nat
    <3>1. v \in 0 .. v + 1
      BY <1>3, <1>7
    <3> QED
      BY <1>1, <1>2, <1>3, <1>7, <2>1, <3>1
  <2>3. Filledto(c, v) = x
    BY DEF Filledto
  <2>4. \A k \in Span(y, x) : Digit(list[k], d) = v
    BY <1>4, <1>7, <2>3
  <2>5. j \notin Span(y, x)
    <3>1. Before(f, u) \in Nat
      BY <1>1, <1>2, <1>3
    <3> QED
      BY <1>1, <1>5, <2>2, <3>1 DEF Span
  <2>6. x < x
    BY <1>8, <2>2, <2>4, <2>5
  <2> QED
    BY <2>2, <2>6
<1>10. v > u /\ v \in Nat
  BY <1>1, <1>3, <1>7, <1>9
<1>11. b + Before(f, u + 1) <= b + Before(f, v)
  <2>1. u + 1 \in 0 .. v
    BY <1>1, <1>3, <1>10
  <2> QED
    BY <1>1, <1>2, <1>3, <1>7, <2>1
<1>12. c.block_ptrs[v] < b + Before(f, v + 1)
  <2> SUFFICES ASSUME NEW x, x = c.block_ptrs[v], NEW y, y = b + Before(f, v)
               PROVE  x < b + Before(f, v + 1)
    OBVIOUS
  <2>1. x \in Nat /\ y \in Nat
    BY <1>1, <1>2, <1>3, <1>7
  <2>2. Filledto(c, v) = x
    BY <1>1, <1>3, <1>10 DEF Filledto
  <2>3. y <= x /\ x <= b + Before(f, v + 1) /\ \A k \in Span(y, x) : Digit(list[k], d) = v
    BY <1>4, <1>7, <2>1, <2>2
  <2>4. j \notin Span(y, x)
    <3>1. j < y
      <4>1. Before(f, u + 1) \in Nat /\ Before(f, v) \in Nat
        BY <1>1, <1>2, <1>3, <1>7
      <4> QED
        BY <1>1, <1>5, <1>11, <4>1
    <3> QED
      BY <1>1, <2>1, <3>1 DEF Span
  <2> QED
    BY <1>8, <2>1, <2>3, <2>4
<1> QED
  BY <1>7, <1>10, <1>11, <1>12

(* With the blocks behind each other, digits ascend.                       *)
LEMMA BlocksAscend ==
  ASSUME TypeOK, NEW b \in Nat, NEW e \in Nat, NEW d \in Nat, NEW f \in [Digits -> Nat],
         \A k \in Span(b, e) : /\ Digit(list[k], d) \in Digits
                               /\ b + Before(f, Digit(list[k], d)) <= k
                               /\ k < b + Before(f, Digit(list[k], d) + 1),
         NEW k \in Span(b, e), NEW l \in Span(b, e), k <= l
  PROVE  Digit(list[k], d) <= Digit(list[l], d)
<1> SUFFICES ASSUME NEW u, u = Digit(list[k], d), NEW v, v = Digit(list[l], d), ~(u <= v)
             PROVE  FALSE
  OBVIOUS
<1>1. u \in Digits /\ v \in Digits /\ b + Before(f, u) <= k /\ l < b + Before(f, v + 1)
  OBVIOUS
<1>2. /\ u \in Nat /\ v \in Nat /\ v + 1 \in 0 .. u /\ u \in 0 .. RADIX_SIZE
      /\ v + 1 \in 0 .. RADIX_SIZE
  BY <1>1, Sizes DEF Digits
<1>3. Before(f, v + 1) <= Before(f, u) /\ Before(f, v + 1) \in Nat /\ Before(f, u) \in Nat
  BY <1>2, Befores
<1>4. k \in Nat /\ l \in Nat
  BY DEF Span
<1> QED
  BY <1>1, <1>3, <1>4

(* The frame of the next turn of permute().                                *)
LEMMA PermuteGoesOn ==
  ASSUME TypeOK, Follows, StackOK, GapsOK, todo # <<>>, named' = named, T' = T,
         NEW c, c = Head(todo), PermuteOK(c),
         NEW b, b = c.begin, NEW e, e = c.end, NEW d, d = c.digit, NEW f, f = c.freqs,
         \E p : Step(p, b, e), Freqs(b, e, d)' = f,
         NEW g \in Permutes, g.begin = b, g.end = e, g.digit = d,
         g.freqs = f, g.curblock + 1 < RADIX_SIZE,
         \A v \in Digits :
           /\ Filledto(g, v) >= b + Before(f, v)
           /\ Filledto(g, v) <= b + Before(f, v + 1)
           /\ \A k \in Span(b + Before(f, v), Filledto(g, v)) : Digit(list'[k], d) = v,
         todo' = <<g>> \o Tail(todo)
  PROVE  Inv'
<1> SUFFICES ASSUME NEW new, new = <<g>> PROVE Inv'
  OBVIOUS
<1>1. PICK p : Step(p, b, e)
  OBVIOUS
<1>2. /\ b \in Nat /\ e \in Nat /\ b < e /\ d < LEN /\ Alike(b, e, d + 1)
      /\ 1 <= b /\ e <= count + 1 /\ Apart(b, e) /\ count \in Nat /\ count' = count
      /\ b > 0 /\ b <= e
  <2>1. c.begin \in Nat /\ c.end \in Nat /\ CallOK(c)
    BY Running
  <2>2. count \in Nat /\ count' = count
    BY Hashing DEF count
  <2> QED
    BY <2>1, <2>2 DEF CallOK, PermuteOK
<1>3. Apart(b, e)'
  BY <1>1, <1>2, StepApart
<1>4. Alike(b, e, d + 1)'
  <2> SUFFICES ASSUME NEW x, x = d + 1 PROVE Alike(b, e, x)'
    OBVIOUS
  <2> QED
    BY <1>1, <1>2, StepAlike
<1>5. PermuteOK(g)'
  <2>1. Freqs(b, e, d)' = f
    OBVIOUS
  <2> QED
    BY <1>2, <1>4, <2>1 DEF PermuteOK
<1>6. CallOK(g)'
  <2>1. Apart(g.begin, g.end)' /\ 1 <= g.begin /\ g.begin <= g.end /\ g.end <= count' + 1
    BY <1>2, <1>3
  <2> QED
    BY <1>5, <2>1 DEF CallOK
<1>7. g \in Frames
  BY DEF Frames
<1>8. Leaves(new, c)'
  BY <1>2, <1>6, <1>7, LeavesOne
<1> QED
  BY <1>1, <1>8, Proceeds

(* The last block to look at is filled, and so is each before it.          *)
LEMMA BlocksFilled ==
  ASSUME TypeOK, NEW c, PermuteOK(c), 1 <= c.begin, c.end <= count + 1,
         c.ptr >= c.begin + Before(c.freqs, c.curblock + 1), c.curblock + 1 >= RADIX_SIZE - 1
  PROVE  \A k \in Span(c.begin, c.end) :
           /\ Digit(list[k], c.digit) \in Digits
           /\ c.begin + Before(c.freqs, Digit(list[k], c.digit)) <= k
           /\ k < c.begin + Before(c.freqs, Digit(list[k], c.digit) + 1)
<1> SUFFICES ASSUME NEW b, b = c.begin, NEW e, e = c.end, NEW d, d = c.digit,
                    NEW f, f = c.freqs, NEW u, u = c.curblock
             PROVE  \A k \in Span(b, e) :
                      /\ Digit(list[k], d) \in Digits
                      /\ b + Before(f, Digit(list[k], d)) <= k
                      /\ k < b + Before(f, Digit(list[k], d) + 1)
  OBVIOUS
<1>1. /\ b \in Nat /\ e \in Nat /\ b > 0 /\ b <= e /\ e <= count + 1 /\ d \in Nat
      /\ f = Freqs(b, e, d) /\ u \in Digits /\ c.ptr \in Nat /\ f \in [Digits -> Nat]
  BY DEF PermuteOK, Permutes
<1>2. ASSUME NEW v \in Digits, v + 1 < RADIX_SIZE,
             NEW k \in Span(b + Before(f, v), b + Before(f, v + 1))
      PROVE  Digit(list[k], d) = v
  <2> SUFFICES ASSUME NEW x, x = b + Before(f, v), NEW y, y = b + Before(f, v + 1)
               PROVE  k \in Span(x, Filledto(c, v))
    BY DEF PermuteOK
  <2>1. x \in Nat /\ y \in Nat /\ v \in Nat /\ u \in Nat /\ v <= u
    <3>1. v \in 0 .. RADIX_SIZE /\ v + 1 \in 0 .. RADIX_SIZE /\ v \in Nat /\ u \in Nat /\ v <= u
      BY <1>1, <1>2, Sizes DEF Digits
    <3>2. Before(f, v) \in Nat /\ Before(f, v + 1) \in Nat
      BY <1>1, <3>1, Befores
    <3> QED
      BY <1>1, <3>1, <3>2
  <2>2. y <= Filledto(c, v) /\ Filledto(c, v) \in Nat
    <3>1. CASE v < u
      BY <2>1, <3>1 DEF Filledto
    <3>2. CASE v = u
      BY <1>1, <2>1, <3>2 DEF Filledto
    <3> QED
      BY <2>1, <3>1, <3>2
  <2> QED
    BY <2>1, <2>2 DEF Span
<1> QED
  BY <1>1, <1>2, AllPlaced

LEMMA AscendAtTheBottom ==
  ASSUME TypeOK, NEW b \in Nat, NEW e \in Nat, b > 0, e <= count + 1, Alike(b, e, 0 + 1),
         NEW k \in Span(b, e), NEW l \in Span(b, e), Digit(list[k], 0) <= Digit(list[l], 0)
  PROVE  list[k] <= list[l]
<1>1. list[k] \in Nat /\ list[l] \in Nat
  <2>1. k \in 1 .. count /\ l \in 1 .. count
    BY Hashing DEF Span
  <2> QED
    BY <2>1, Hashing
<1>2. list[k] \div Weight[0 + 1] = list[l] \div Weight[0 + 1]
  BY DEF Alike
<1>3. Digit(list[k], 0) \in Nat /\ Digit(list[l], 0) \in Nat
  <2>1. \A w \in Digits : w \in Nat
    BY DEF Digits
  <2>2. Digit(list[k], 0) \in Digits
    BY <1>1, DigitOf
  <2>3. Digit(list[l], 0) \in Digits
    BY <1>1, DigitOf
  <2> QED
    BY <2>1, <2>2, <2>3
<1>4. CASE Digit(list[k], 0) < Digit(list[l], 0)
  <2> DEFINE h == list[k]
             g == list[l]
  <2>1. h < g
    <3>1. h \in Nat /\ g \in Nat /\ 0 \in Nat /\ Digit(h, 0) < Digit(g, 0)
          /\ h \div Weight[0 + 1] = g \div Weight[0 + 1]
      BY <1>1, <1>2, <1>4
    <3> HIDE DEF h, g
    <3> QED
      BY <3>1, LargerDigit
  <2> QED
    BY <1>1, <2>1
<1>5. CASE Digit(list[k], 0) = Digit(list[l], 0)
  <2> DEFINE h == list[k]
             g == list[l]
  <2>1. h \div Weight[0] = RADIX_SIZE * (h \div Weight[0 + 1]) + Digit(h, 0)
    BY <1>1, DigitOf
  <2>2. g \div Weight[0] = RADIX_SIZE * (g \div Weight[0 + 1]) + Digit(g, 0)
    BY <1>1, DigitOf
  <2>3. h \div Weight[0] = g \div Weight[0]
    BY <1>2, <1>5, <2>1, <2>2
  <2>4. \A n \in Nat : n \div Weight[0] = n
    <3> SUFFICES ASSUME NEW n \in Nat PROVE n \div 1 = n
      BY Weights
    <3>1. n = 1 * n + 0
      OBVIOUS
    <3> QED
      BY <3>1, DivModUnique
  <2>5. h = g
    BY <1>1, <2>3, <2>4
  <2> QED
    BY <1>1, <2>5
<1> QED
  BY <1>3, <1>4, <1>5

(* The loop over the blocks begins.                                        *)
LEMMA LoopBegins ==
  ASSUME TypeOK, NEW b \in Nat, NEW e \in Nat, b > 0, b <= e, e <= count + 1, NEW d \in Nat,
         d > 0, d < LEN, Alike(b, e, d + 1), NEW f, f = Freqs(b, e, d),
         \A k \in Span(b, e) : /\ Digit(list[k], d) \in Digits
                               /\ b + Before(f, Digit(list[k], d)) <= k
                               /\ k < b + Before(f, Digit(list[k], d) + 1),
         NEW g, g = [op |-> "sortblocks", begin |-> b, end |-> e, digit |-> d, freqs |-> f,
                     block |-> 0]
  PROVE  LoopOK(g) /\ g \in Frames /\ g.begin = b /\ g.end = e
<1>1. f \in [Digits -> Nat]
  BY FreqsType
<1>2. /\ g \in Loops /\ g.begin = b /\ g.end = e /\ g.digit = d /\ g.freqs = f /\ g.block = 0
  BY <1>1, Sizes DEF Loops
<1>3. Before(f, 0) = 0 /\ Before(f, RADIX_SIZE) = e - b
      /\ \A w \in 0 .. RADIX_SIZE : Before(f, w) \in Nat
  BY <1>1, Befores, FreqsBefore
<1>4. ASSUME NEW w \in 0 .. RADIX_SIZE
      PROVE  g.begin + Before(g.freqs, w) - Before(g.freqs, g.block) = b + Before(f, w)
  BY <1>2, <1>3
<1>5. g.end = g.begin + Before(g.freqs, RADIX_SIZE) - Before(g.freqs, g.block)
  <2>1. RADIX_SIZE \in 0 .. RADIX_SIZE
    BY Sizes
  <2> QED
    BY <1>2, <1>3, <2>1
<1>6. ASSUME NEW k \in Span(b, e), NEW v, v = Digit(list[k], d)
      PROVE  /\ v >= g.block /\ k >= g.begin + Before(g.freqs, v) - Before(g.freqs, g.block)
             /\ k < g.begin + Before(g.freqs, v + 1) - Before(g.freqs, g.block)
  <2>1. v \in Digits /\ b + Before(f, v) <= k /\ k < b + Before(f, v + 1)
    BY <1>6
  <2>2. v \in 0 .. RADIX_SIZE /\ v + 1 \in 0 .. RADIX_SIZE /\ v \in Nat
    BY <2>1, Sizes DEF Digits
  <2>3. k \in Nat /\ Before(f, v) \in Nat
    BY <1>3, <2>2 DEF Span
  <2>4. g.begin + Before(g.freqs, v) - Before(g.freqs, g.block) = b + Before(f, v)
        /\ g.begin + Before(g.freqs, v + 1) - Before(g.freqs, g.block) = b + Before(f, v + 1)
    BY <1>4, <2>2
  <2> QED
    BY <1>2, <2>1, <2>2, <2>3, <2>4
<1>7. LoopOK(g)
  BY <1>2, <1>5, <1>6 DEF LoopOK
<1> QED
  BY <1>2, <1>7 DEF Frames

LEMMA SwapInto ==
  ASSUME TypeOK, Follows, NEW b \in Nat, NEW e \in Nat, b > 0, e <= count + 1, NEW d \in Nat,
         NEW x \in Span(b, e), NEW y \in Span(b, e),
         list' = Swapped(list, x, y), idxs' = Swapped(idxs, x, y)
  PROVE  /\ \E p : Step(p, b, e)
         /\ Freqs(b, e, d)' = Freqs(b, e, d)
         /\ \A k \in 1 .. count : /\ k # x /\ k # y => list'[k] = list[k]
                                  /\ k = y => list'[k] = list[x]
<1>1. PICK p : /\ Step(p, b, e)
               /\ \A k \in 1 .. count : p[k] \in 1 .. count /\ p[p[k]] = k
               /\ \A k \in 1 .. count : k # x /\ k # y => p[k] = k
               /\ p[x] = y /\ p[y] = x
  BY SwapStep
<1>2. Freqs(b, e, d)' = Freqs(b, e, d)
  BY <1>1, FreqsMoved
<1>3. \A k \in 1 .. count : /\ k # x /\ k # y => list'[k] = list[k]
                            /\ k = y => list'[k] = list[x]
  BY <1>1 DEF Step
<1> QED
  BY <1>1, <1>2, <1>3

LEMMA PermuteInv ==
  ASSUME TypeOK, Follows, StackOK, GapsOK, permute
  PROVE  Inv'
<1> SUFFICES ASSUME NEW c, c = Head(todo), NEW b, b = c.begin, NEW e, e = c.end,
                    NEW d, d = c.digit, NEW f, f = c.freqs, NEW u, u = c.curblock,
                    NEW j, j = c.ptr, NEW v, v = Digit(list[c.ptr], c.digit)
             PROVE  Inv'
  OBVIOUS
<1>1. todo # <<>> /\ c.op = "permute" /\ named' = named /\ T' = T
  BY DEF permute
<1>2. /\ CallOK(c) /\ PermuteOK(c) /\ b \in Nat /\ e \in Nat /\ 1 <= b /\ b > 0
      /\ e <= count + 1 /\ count \in Nat /\ count' = count
  <2>1. CallOK(c) /\ PermuteOK(c) /\ b \in Nat /\ e \in Nat
    BY <1>1, Running
  <2> QED
    BY <1>1, <2>1, Hashing DEF CallOK, count
<1>3. /\ c \in Permutes /\ d \in Nat /\ d < LEN /\ Alike(b, e, d + 1) /\ b < e /\ b <= e
      /\ f = Freqs(b, e, d) /\ f \in [Digits -> Nat] /\ u \in Digits /\ j \in Nat
      /\ u + 1 < RADIX_SIZE /\ c.block_ptrs \in [Digits -> Nat]
  BY <1>2 DEF PermuteOK, Permutes
<1>4. \A w \in Digits :
        /\ Filledto(c, w) >= b + Before(f, w)
        /\ Filledto(c, w) <= b + Before(f, w + 1)
        /\ \A k \in Span(b + Before(f, w), Filledto(c, w)) : Digit(list[k], d) = w
  BY <1>2 DEF PermuteOK
<1>5. /\ \A w \in Digits : w \in Nat /\ w \in 0 .. RADIX_SIZE /\ w + 1 \in 0 .. RADIX_SIZE
      /\ u + 1 \in 0 .. RADIX_SIZE /\ u + 1 \in Digits /\ u \in Nat
  BY ONLY <1>3, Sizes DEF Digits
<1>6. /\ \A w \in 0 .. RADIX_SIZE : Before(f, w) \in Nat
      /\ \A w \in 0 .. RADIX_SIZE : \A x \in 0 .. w : Before(f, x) <= Before(f, w)
      /\ Before(f, RADIX_SIZE) = e - b
  <2>1. /\ \A w \in 0 .. RADIX_SIZE : Before(f, w) \in Nat
        /\ \A w \in 0 .. RADIX_SIZE : \A x \in 0 .. w : Before(f, x) <= Before(f, w)
    BY <1>3, Befores
  <2>2. Before(f, RADIX_SIZE) = e - b
    BY ONLY TypeOK, <1>2, <1>3, FreqsBefore
  <2> QED
    BY <2>1, <2>2
<1>7. BlockEnd(c) = b + Before(f, u + 1)
  <2>1. BlockStart(b, f, u + 1) = b + Before(f, u + 1)
    BY ONLY <1>2, <1>3, <1>5, Befores
  <2> QED
    BY <2>1 DEF BlockEnd
<1>8. /\ j >= BlockEnd(c) =>
           /\ IF u + 1 < RADIX_SIZE - 1 THEN Continue([c EXCEPT !.curblock = u + 1])
              ELSE Become(IF d = 0 THEN <<>>
                          ELSE <<[op |-> "sortblocks", begin |-> b, end |-> e,
                                  digit |-> d, freqs |-> f, block |-> 0]>>)
           /\ list' = list /\ idxs' = idxs
      /\ ~(j >= BlockEnd(c)) /\ v = u =>
           Continue([c EXCEPT !.ptr = j + 1]) /\ list' = list /\ idxs' = idxs
      /\ ~(j >= BlockEnd(c)) /\ v # u =>
           /\ list' = Swapped(list, j, c.block_ptrs[v]) /\ idxs' = Swapped(idxs, j, c.block_ptrs[v])
           /\ Continue(Advanced(c, v))
  BY DEF permute
<1>9. Filledto(c, u) = j
  BY <1>5 DEF Filledto
<1>10. ASSUME list' = list, idxs' = idxs
       PROVE  Freqs(b, e, d)' = f /\ \E p : Step(p, b, e)
  <2>1. Freqs(b, e, d)' = f
    BY <1>3, <1>10 DEF Freqs
  <2> QED
    BY <1>2, <1>10, <2>1, NoMove
<1>11. CASE j >= BlockEnd(c) /\ u + 1 < RADIX_SIZE - 1
  <2> SUFFICES ASSUME NEW x, x = u + 1, NEW g, g = [c EXCEPT !.curblock = x] PROVE Inv'
    OBVIOUS
  <2>1. /\ g \in Permutes /\ g.begin = b /\ g.end = e /\ g.digit = d /\ g.freqs = f
        /\ g.curblock = x /\ g.ptr = j /\ g.block_ptrs = c.block_ptrs /\ x \in Digits
    <3>1. x \in Digits
      BY <1>5
    <3> QED
      BY <1>3, <3>1 DEF Permutes
  <2>2. list' = list /\ idxs' = idxs /\ todo' = <<g>> \o Tail(todo)
    BY <1>8, <1>11 DEF Continue
  <2>3. j = b + Before(f, x) /\ Before(f, x) \in Nat
    <3>1. j <= b + Before(f, u + 1) /\ Before(f, u + 1) \in Nat
      BY <1>3, <1>4, <1>5, <1>6, <1>9
    <3> QED
      BY <1>2, <1>3, <1>7, <1>11, <3>1
  <2>4. ASSUME NEW w \in Digits
        PROVE  /\ w # x => Filledto(g, w) = Filledto(c, w)
               /\ w = x => Filledto(g, w) = b + Before(f, w)
    <3>1. w \in Nat /\ x \in Nat /\ u \in Nat /\ x = u + 1
      BY <1>5
    <3>2. CASE w < u
      BY <2>1, <3>1, <3>2 DEF Filledto
    <3>3. CASE w = u
      BY <2>1, <2>3, <3>1, <3>3, <1>9 DEF Filledto
    <3>4. CASE w = x
      BY <2>1, <2>3, <3>1, <3>4 DEF Filledto
    <3>5. CASE w > x
      BY <2>1, <3>1, <3>5 DEF Filledto
    <3> QED
      BY <3>1, <3>2, <3>3, <3>4, <3>5
  <2>5. ASSUME NEW w \in Digits
        PROVE  /\ Filledto(g, w) >= b + Before(f, w)
               /\ Filledto(g, w) <= b + Before(f, w + 1)
               /\ \A k \in Span(b + Before(f, w), Filledto(g, w)) : Digit(list'[k], d) = w
    <3>1. CASE w # x
      BY <1>4, <2>2, <2>4, <3>1
    <3>2. CASE w = x
      <4>1. Before(f, w) \in Nat /\ Before(f, w + 1) \in Nat /\ Before(f, w) <= Before(f, w + 1)
        <5>1. w \in 0 .. w + 1
          BY <1>5
        <5> QED
          BY <1>5, <1>6, <5>1
      <4>2. Span(b + Before(f, w), b + Before(f, w)) = {}
        BY <1>2, <4>1 DEF Span
      <4> QED
        BY <1>2, <2>4, <3>2, <4>1, <4>2
    <3> QED
      BY <3>1, <3>2
  <2>6. Freqs(b, e, d)' = f /\ \E p : Step(p, b, e)
    BY <1>10, <2>2
  <2>7. g.curblock + 1 < RADIX_SIZE
    BY <1>5, <1>11, <2>1, Sizes
  <2>8. /\ todo # <<>> /\ named' = named /\ T' = T /\ PermuteOK(c) /\ c = Head(todo)
        /\ b = c.begin /\ e = c.end /\ d = c.digit /\ f = c.freqs /\ g.curblock + 1 < RADIX_SIZE
    BY <1>1, <1>2, <1>3, <2>7
  <2> QED
    BY ONLY <2>8, <2>1, <2>2, <2>5, <2>6, <2>7, PermuteGoesOn, TypeOK, Follows, StackOK, GapsOK
<1>12. CASE j >= BlockEnd(c) /\ ~(u + 1 < RADIX_SIZE - 1)
  <2>1. \A k \in Span(b, e) : /\ Digit(list[k], d) \in Digits
                              /\ b + Before(f, Digit(list[k], d)) <= k
                              /\ k < b + Before(f, Digit(list[k], d) + 1)
    <3>1. u + 1 >= RADIX_SIZE - 1
      BY <1>5, <1>12, Sizes
    <3>2. j >= b + Before(f, u + 1)
      BY <1>7, <1>12
    <3> QED
      BY <1>2, <3>1, <3>2, BlocksFilled
  <2>2. list' = list /\ idxs' = idxs
    BY <1>8, <1>12
  <2>3. CASE d = 0
    <3> SUFFICES ASSUME NEW new, new = <<>> PROVE Inv'
      OBVIOUS
    <3>1. todo' = new \o Tail(todo)
      BY <1>8, <1>12, <2>3 DEF Become
    <3>2. ASSUME NEW k \in 1 .. count - 1, c.begin <= k, k + 1 < c.end
          PROVE  list'[k] <= list'[k + 1]
      <4> SUFFICES ASSUME NEW l, l = k + 1 PROVE list[k] <= list[l]
        BY <2>2
      <4>1. k \in Span(b, e) /\ l \in Span(b, e) /\ k <= l
        BY <1>2, <3>2 DEF Span
      <4>2. Digit(list[k], d) <= Digit(list[l], d)
        BY <1>2, <1>3, <2>1, <4>1, BlocksAscend
      <4> QED
        BY <1>2, <1>3, <2>3, <4>1, <4>2, AscendAtTheBottom
    <3>3. Leaves(new, c)'
      BY <1>2, <3>2, LeavesNone
    <3> QED
      BY <1>1, <2>2, <3>1, <3>3, ProceedsInPlace
  <2>4. CASE d # 0
    <3> SUFFICES ASSUME NEW g, g = [op |-> "sortblocks", begin |-> b, end |-> e, digit |-> d,
                                    freqs |-> f, block |-> 0],
                        NEW new, new = <<g>>
                 PROVE  Inv'
      OBVIOUS
    <3>1. todo' = new \o Tail(todo)
      BY <1>8, <1>12, <2>4 DEF Become
    <3>2. LoopOK(g) /\ g \in Frames /\ g.begin = b /\ g.end = e
      <4>1. d > 0
        BY <1>3, <2>4
      <4> QED
        BY <1>2, <1>3, <2>1, <4>1, LoopBegins
    <3>3. LoopOK(g)' /\ Apart(b, e)'
      <4>1. LoopOK(g)'
        BY ONLY <1>2, <2>2, <3>2 DEF LoopOK, Alike
      <4>2. Apart(b, e)'
        BY ONLY <1>2, <2>2, b = c.begin, e = c.end DEF Apart, CallOK
      <4> QED
        BY ONLY <4>1, <4>2
    <3>4. CallOK(g)'
      <4>1. Apart(g.begin, g.end)' /\ 1 <= g.begin /\ g.begin <= g.end /\ g.end <= count' + 1
        BY <1>2, <1>3, <3>2, <3>3
      <4> QED
        BY <3>3, <4>1 DEF CallOK
    <3>5. Leaves(new, c)'
      BY <1>2, <3>2, <3>4, LeavesOne
    <3> QED
      BY <1>1, <2>2, <3>1, <3>5, ProceedsInPlace
  <2> QED
    BY <2>3, <2>4
<1>13. CASE ~(j >= BlockEnd(c)) /\ v = u
  <2> SUFFICES ASSUME NEW x, x = j + 1, NEW g, g = [c EXCEPT !.ptr = x] PROVE Inv'
    OBVIOUS
  <2>1. /\ g \in Permutes /\ g.begin = b /\ g.end = e /\ g.digit = d /\ g.freqs = f
        /\ g.curblock = u /\ g.ptr = x /\ g.block_ptrs = c.block_ptrs
    <3>1. x \in Nat
      BY <1>3
    <3> QED
      BY <1>3, <3>1 DEF Permutes
  <2>2. list' = list /\ idxs' = idxs /\ todo' = <<g>> \o Tail(todo)
    BY <1>8, <1>13 DEF Continue
  <2>3. ASSUME NEW w \in Digits
        PROVE  /\ w # u => Filledto(g, w) = Filledto(c, w)
               /\ w = u => Filledto(g, w) = x
    <3>1. w \in Nat /\ u \in Nat
      BY <1>5
    <3> QED
      BY <2>1, <3>1 DEF Filledto
  <2>4. ASSUME NEW w \in Digits
        PROVE  /\ Filledto(g, w) >= b + Before(f, w)
               /\ Filledto(g, w) <= b + Before(f, w + 1)
               /\ \A k \in Span(b + Before(f, w), Filledto(g, w)) : Digit(list'[k], d) = w
    <3>1. CASE w # u
      BY <1>4, <2>2, <2>3, <3>1
    <3>2. CASE w = u
      <4> SUFFICES ASSUME NEW y, y = b + Before(f, w)
                   PROVE  /\ x >= y /\ x <= b + Before(f, w + 1)
                          /\ \A k \in Span(y, x) : Digit(list[k], d) = w
        BY <2>2, <2>3, <3>2
      <4>1. Before(f, w) \in Nat /\ Before(f, w + 1) \in Nat
        BY <1>5, <1>6
      <4>2. y <= j /\ \A k \in Span(y, j) : Digit(list[k], d) = w
        BY <1>2, <1>3, <1>4, <1>9, <3>2, <4>1
      <4>3. \A k \in Span(y, x) : k \in Span(y, j) \/ k = j
        BY <1>2, <1>3, <4>1 DEF Span
      <4>4. Digit(list[j], d) = w
        BY <1>13, <3>2
      <4>5. x >= y /\ x <= b + Before(f, w + 1)
        BY <1>2, <1>3, <1>7, <1>13, <3>2, <4>1, <4>2
      <4> QED
        BY <4>2, <4>3, <4>4, <4>5
    <3> QED
      BY <3>1, <3>2
  <2>5. Freqs(b, e, d)' = f /\ \E p : Step(p, b, e)
    BY <1>10, <2>2
  <2>6. g.curblock + 1 < RADIX_SIZE
    BY <1>3, <2>1
  <2>7. /\ todo # <<>> /\ named' = named /\ T' = T /\ PermuteOK(c) /\ c = Head(todo)
        /\ b = c.begin /\ e = c.end /\ d = c.digit /\ f = c.freqs /\ g.curblock + 1 < RADIX_SIZE
    BY <1>1, <1>2, <1>3, <2>6
  <2> QED
    BY ONLY <2>7, <2>1, <2>2, <2>4, <2>5, <2>6, PermuteGoesOn, TypeOK, Follows, StackOK, GapsOK
<1>14. CASE ~(j >= BlockEnd(c)) /\ v # u
  <2> SUFFICES ASSUME NEW y, y = c.block_ptrs[v], NEW x, x = y + 1, NEW g, g = Advanced(c, v)
               PROVE  Inv'
    OBVIOUS
  <2>1. /\ v \in Digits /\ v > u /\ y < b + Before(f, v + 1)
        /\ b + Before(f, u + 1) <= b + Before(f, v)
    <3>1. j < b + Before(f, u + 1)
      BY <1>2, <1>3, <1>5, <1>6, <1>7, <1>14
    <3> QED
      BY <1>2, <1>14, <3>1, Destination
  <2>2. /\ y \in Nat /\ x \in Nat /\ v \in Nat /\ Filledto(c, v) = y
        /\ Before(f, u) \in Nat /\ Before(f, u + 1) \in Nat
        /\ Before(f, v) \in Nat /\ Before(f, v + 1) \in Nat
        /\ Before(f, v + 1) <= e - b /\ b + Before(f, v) <= y
    <3>1. y \in Nat /\ x \in Nat /\ v \in Nat /\ Filledto(c, v) = y
      BY <1>3, <1>5, <2>1 DEF Filledto
    <3>2. v + 1 \in 0 .. RADIX_SIZE /\ RADIX_SIZE \in 0 .. RADIX_SIZE
      BY <1>5, <2>1, Sizes
    <3>3. Before(f, v + 1) <= e - b
      BY <1>6, <3>2
    <3>4. b + Before(f, v) <= y
      <4>1. Filledto(c, v) >= b + Before(f, v) /\ Before(f, v) \in Nat
        BY <1>4, <1>5, <1>6, <2>1
      <4> QED
        BY <1>2, <3>1, <4>1
    <3> QED
      BY <1>3, <1>5, <1>6, <2>1, <3>1, <3>3, <3>4
  <2>3. /\ b + Before(f, u) <= j /\ j < b + Before(f, u + 1) /\ j < y
        /\ j \in Span(b, e) /\ y \in Span(b, e)
    <3>1. Filledto(c, u) >= b + Before(f, u)
      BY <1>3, <1>4
    <3>2. b + Before(f, u) <= j /\ j < b + Before(f, u + 1)
      BY <1>2, <1>3, <1>7, <1>9, <1>14, <2>2, <3>1
    <3>3. j < y
      BY <1>2, <1>3, <2>1, <2>2, <3>2
    <3> QED
      BY <1>2, <1>3, <2>1, <2>2, <3>2, <3>3 DEF Span
  <2>4. list' = Swapped(list, j, y) /\ idxs' = Swapped(idxs, j, y) /\ todo' = <<g>> \o Tail(todo)
    BY <1>8, <1>14 DEF Continue
  <2>5. /\ \E p : Step(p, b, e)
        /\ Freqs(b, e, d)' = Freqs(b, e, d)
        /\ \A k \in 1 .. count : /\ k # j /\ k # y => list'[k] = list[k]
                                 /\ k = y => list'[k] = list[j]
    <3>1. /\ b \in Nat /\ e \in Nat /\ b > 0 /\ e <= count + 1 /\ d \in Nat
          /\ j \in Span(b, e) /\ y \in Span(b, e)
          /\ list' = Swapped(list, j, y) /\ idxs' = Swapped(idxs, j, y)
      BY <1>2, <1>3, <2>3, <2>4
    <3> QED
      BY ONLY <3>1, SwapInto, TypeOK, Follows
  <2>6. Freqs(b, e, d)' = f /\ \E p : Step(p, b, e)
    BY <1>3, <2>5
  <2>7. /\ g \in Permutes /\ g.begin = b /\ g.end = e /\ g.digit = d /\ g.freqs = f
        /\ g.curblock = u /\ g.ptr = j
        /\ \A w \in Digits : g.block_ptrs[w] = IF w = v THEN x ELSE c.block_ptrs[w]
    <3> DEFINE q == [c.block_ptrs EXCEPT ![v] = x]
    <3>1. q \in [Digits -> Nat] /\ \A w \in Digits : q[w] = IF w = v THEN x ELSE c.block_ptrs[w]
      BY <1>3, <2>2
    <3>2. g = [c EXCEPT !.block_ptrs = q]
      BY DEF Advanced
    <3> HIDE DEF q
    <3>3. g \in Permutes
      BY <1>3, <3>1, <3>2 DEF Permutes
    <3>4. /\ g.begin = b /\ g.end = e /\ g.digit = d /\ g.freqs = f
          /\ g.curblock = u /\ g.ptr = j /\ g.block_ptrs = q
      BY <1>3, <3>2 DEF Permutes
    <3> QED
      BY <3>1, <3>3, <3>4
  <2>8. ASSUME NEW w \in Digits
        PROVE  /\ w # v => Filledto(g, w) = Filledto(c, w)
               /\ w = v => Filledto(g, w) = x
    <3>1. w \in Nat /\ u \in Nat
      BY <1>5
    <3> QED
      BY ONLY <2>1, <2>2, <2>7, <3>1, b = c.begin, f = c.freqs, u = c.curblock, j = c.ptr,
              y = c.block_ptrs[v], w \in Digits DEF Filledto
  <2>9. ASSUME NEW w \in Digits
         PROVE  /\ Filledto(g, w) >= b + Before(f, w)
                /\ Filledto(g, w) <= b + Before(f, w + 1)
                /\ \A k \in Span(b + Before(f, w), Filledto(g, w)) : Digit(list'[k], d) = w
    <3>1. CASE w # v
      <4> SUFFICES ASSUME NEW r, r = b + Before(f, w), NEW t, t = Filledto(c, w),
                          NEW k \in Span(r, t)
                   PROVE  Digit(list'[k], d) = w
        BY <1>4, <2>8, <3>1
      <4>1. /\ Before(f, w) \in Nat /\ Before(f, w + 1) \in Nat /\ Before(f, w + 1) <= e - b
            /\ t <= b + Before(f, w + 1) /\ Digit(list[k], d) = w
        <5>1. w + 1 \in 0 .. RADIX_SIZE /\ RADIX_SIZE \in 0 .. RADIX_SIZE /\ w \in 0 .. RADIX_SIZE
          BY <1>5, Sizes
        <5> QED
          BY <1>4, <1>6, <5>1
      <4>2. t \in Nat
        <5>1. w \in Nat /\ u \in Nat
          BY <1>5
        <5> QED
          BY <1>2, <1>3, <4>1, <5>1 DEF Filledto
      <4>3. k \in 1 .. count /\ r <= k /\ k < t /\ k \in Nat
        BY <1>2, <4>1, <4>2 DEF Span
      <4>4. k # j
        BY <3>1, <4>1
      <4>5. k # y
        <5>1. w \in Nat
          BY <1>5
        <5>2. CASE w < v
          <6>1. Before(f, w + 1) <= Before(f, v)
            <7>1. w + 1 \in 0 .. v
              BY <2>2, <5>1, <5>2
            <7> QED
              BY <1>5, <1>6, <2>1, <7>1
          <6> QED
            BY <1>2, <2>2, <4>1, <4>2, <4>3, <6>1
        <5>3. CASE v < w
          <6>1. Before(f, v + 1) <= Before(f, w)
            <7>1. v + 1 \in 0 .. w
              BY <2>2, <5>1, <5>3
            <7> QED
              BY <1>5, <1>6, <7>1
          <6> QED
            BY <1>2, <2>1, <2>2, <4>1, <4>3, <6>1
        <5> QED
          BY <2>2, <3>1, <5>1, <5>2, <5>3
      <4> QED
        BY <2>5, <4>1, <4>3, <4>4, <4>5
    <3>2. CASE w = v
      <4> SUFFICES ASSUME NEW r, r = b + Before(f, v)
                   PROVE  /\ x >= r /\ x <= b + Before(f, v + 1)
                          /\ \A k \in Span(r, x) : Digit(list'[k], d) = v
        BY <2>8, <3>2
      <4>1. x >= r /\ x <= b + Before(f, v + 1) /\ r \in Nat /\ r <= y
        BY <1>2, <2>1, <2>2
      <4>2. ASSUME NEW k \in Span(r, x) PROVE Digit(list'[k], d) = v
        <5>1. k \in 1 .. count /\ r <= k /\ k \in Nat /\ (k \in Span(r, y) \/ k = y) /\ k # j
          <6>1. k \in Int /\ r <= k /\ k < x
            BY ONLY <4>2, <2>2, <4>1 DEF Span
          <6>2. y \in Span(b, e) /\ j < r
            BY ONLY <1>2, <2>1, <2>2, <2>3, <1>3, r = b + Before(f, v)
          <6> QED
            BY ONLY <1>2, <1>3, <2>2, <2>3, <4>1, <6>1, <6>2, x = y + 1 DEF Span
        <5>2. CASE k = y
          BY <2>5, <5>1, <5>2
        <5>3. CASE k \in Span(r, y) /\ k # y
          <6>1. Digit(list[k], d) = v
            BY <1>4, <2>1, <2>2, <5>3
          <6> QED
            BY <2>5, <5>1, <5>3, <6>1
        <5> QED
          BY <5>1, <5>2, <5>3
      <4> QED
        BY <4>1, <4>2
    <3> QED
      BY <3>1, <3>2
  <2>10. /\ todo # <<>> /\ named' = named /\ T' = T /\ PermuteOK(c) /\ c = Head(todo)
        /\ b = c.begin /\ e = c.end /\ d = c.digit /\ f = c.freqs /\ g.curblock + 1 < RADIX_SIZE
    BY <1>1, <1>2, <1>3, <2>7
  <2> QED
    BY ONLY <2>10, <2>4, <2>6, <2>7, <2>9, PermuteGoesOn, TypeOK, Follows, StackOK, GapsOK
<1> QED
  BY <1>11, <1>12, <1>13, <1>14

-----------------------------------------------------------------------------
(* The loop over the blocks.                                               *)

(* Calls for what is before a place, and for what is behind it.            *)
LEMMA LeavesBoth ==
  ASSUME NEW n \in Nat, count' = n, NEW b \in Nat, NEW m \in Nat, NEW e \in Nat, b <= m, m <= e,
         NEW x, x.begin = b, x.end = m, NEW y, y.begin = m, y.end = e,
         NEW c, c.begin = b, c.end = e, NEW A, NEW B, Leaves(A, x)', Leaves(B, y)',
         \A i \in 1 .. Len(B) : LoopOK(B[i])',
         b > 0, e <= n + 1, Apart(b, m)',
         NEW new, new = A \o B
  PROVE  Leaves(new, c)'
<1> DEFINE M == Len(A)
           N == Len(B)
<1>1. A \in Seq(Frames) /\ B \in Seq(Frames) /\ M \in Nat /\ N \in Nat
  BY DEF Leaves
<1>2. /\ new \in Seq(Frames) /\ Len(new) = M + N
      /\ \A i \in 1 .. M + N : new[i] = IF i <= M THEN A[i] ELSE B[i - M]
  <2> HIDE DEF Frames
  <2> QED
    BY <1>1, ConcatProperties
<1>3. \A g \in Frames : g.begin \in Nat /\ g.end \in Nat
  BY DEF Frames, Firsts, Smalls, Insertions, Flags, Radixes, Permutes, Loops
<1>4. /\ \A i \in 1 .. M : /\ CallOK(A[i])' /\ (i > 1 => LoopOK(A[i])') /\ A[i] \in Frames
                           /\ b <= A[i].begin /\ A[i].end <= m
      /\ \A i \in 1 .. M : \A j \in i + 1 .. M : A[i].end <= A[j].begin
      /\ \A k \in 1 .. n - 1 :
           b <= k /\ k + 1 < m =>
             list'[k] <= list'[k + 1] \/ \E i \in 1 .. M : A[i].begin <= k /\ k + 1 < A[i].end
  <2>1. \A i \in 1 .. M : A[i] \in Frames
    BY <1>1
  <2>2. /\ \A i \in 1 .. M : /\ CallOK(A[i])' /\ (i > 1 => LoopOK(A[i])')
                             /\ x.begin <= A[i].begin /\ A[i].end <= x.end
        /\ \A i \in 1 .. M : \A j \in i + 1 .. M : A[i].end <= A[j].begin
        /\ \A k \in 1 .. count' - 1 :
             x.begin <= k /\ k + 1 < x.end =>
               list'[k] <= list'[k + 1] \/ \E i \in 1 .. M : A[i].begin <= k /\ k + 1 < A[i].end
    BY Zenon DEF Leaves
  <2> QED
    BY ONLY <2>1, <2>2, x.begin = b, x.end = m, count' = n
<1>5. /\ \A i \in 1 .. N : /\ CallOK(B[i])' /\ LoopOK(B[i])' /\ B[i] \in Frames
                           /\ m <= B[i].begin /\ B[i].end <= e
      /\ \A i \in 1 .. N : \A j \in i + 1 .. N : B[i].end <= B[j].begin
      /\ \A k \in 1 .. n - 1 :
           m <= k /\ k + 1 < e =>
             list'[k] <= list'[k + 1] \/ \E i \in 1 .. N : B[i].begin <= k /\ k + 1 < B[i].end
  <2>1. \A i \in 1 .. N : B[i] \in Frames
    BY <1>1
  <2>2. /\ \A i \in 1 .. N : CallOK(B[i])' /\ y.begin <= B[i].begin /\ B[i].end <= y.end
        /\ \A i \in 1 .. N : \A j \in i + 1 .. N : B[i].end <= B[j].begin
        /\ \A k \in 1 .. count' - 1 :
             y.begin <= k /\ k + 1 < y.end =>
               list'[k] <= list'[k + 1] \/ \E i \in 1 .. N : B[i].begin <= k /\ k + 1 < B[i].end
    BY Zenon DEF Leaves
  <2>3. \A i \in 1 .. N : LoopOK(B[i])'
    OBVIOUS
  <2> QED
    BY ONLY <2>1, <2>2, <2>3, y.begin = m, y.end = e, count' = n
<1> HIDE DEF M, N
<1>6. ASSUME NEW i \in 1 .. M + N
      PROVE  \/ i \in 1 .. M /\ new[i] = A[i]
             \/ i > M /\ i - M \in 1 .. N /\ new[i] = B[i - M]
  BY <1>1, <1>2 DEF M, N
<1>7. M \in Nat /\ N \in Nat
  BY <1>1 DEF M, N
<1>8. ASSUME NEW i \in 1 .. M + N
      PROVE  /\ CallOK(new[i])' /\ (i > 1 => LoopOK(new[i])')
             /\ b <= new[i].begin /\ new[i].end <= e
  <2>1. CASE i \in 1 .. M /\ new[i] = A[i]
    <3>1. A[i].end <= m /\ A[i].end \in Nat
      BY <1>3, <1>4, <2>1
    <3>2. A[i].end <= e
      BY <3>1
    <3> QED
      BY <1>4, <2>1, <3>2
  <2>2. CASE i > M /\ i - M \in 1 .. N /\ new[i] = B[i - M]
    <3>1. m <= B[i - M].begin /\ B[i - M].begin \in Nat
      BY <1>3, <1>5, <2>2
    <3>2. b <= B[i - M].begin
      BY <3>1
    <3> QED
      BY <1>5, <2>2, <3>2
  <2> QED
    BY <1>6, <2>1, <2>2
<1>9. ASSUME NEW i \in 1 .. M + N, NEW j \in i + 1 .. M + N
      PROVE  new[i].end <= new[j].begin
  <2>1. j \in 1 .. M + N /\ i \in Nat /\ j \in Nat /\ i < j
    BY <1>7
  <2>2. CASE i \in 1 .. M /\ new[i] = A[i]
    <3>1. CASE j \in 1 .. M /\ new[j] = A[j]
      <4>1. j \in i + 1 .. M
        BY <1>7, <2>1, <3>1
      <4> QED
        BY <1>4, <2>2, <3>1, <4>1
    <3>2. CASE j > M /\ j - M \in 1 .. N /\ new[j] = B[j - M]
      <4> SUFFICES ASSUME NEW u, u = A[i].end, NEW v, v = B[j - M].begin PROVE u <= v
        BY <2>2, <3>2
      <4>1. u \in Nat /\ v \in Nat /\ u <= m /\ m <= v
        BY <1>3, <1>4, <1>5, <2>2, <3>2
      <4> QED
        BY <4>1
    <3> QED
      BY <1>6, <2>1, <3>1, <3>2
  <2>3. CASE i > M /\ i - M \in 1 .. N /\ new[i] = B[i - M]
    <3>1. j > M /\ j - M \in 1 .. N /\ new[j] = B[j - M]
      <4>1. ~(j \in 1 .. M)
        BY <1>7, <2>1, <2>3
      <4> QED
        BY <1>6, <2>1, <4>1
    <3>2. j - M \in (i - M) + 1 .. N
      BY <1>7, <2>1, <2>3, <3>1
    <3> QED
      BY <1>5, <2>3, <3>1, <3>2
  <2> QED
    BY <1>6, <2>2, <2>3
<1>10. ASSUME NEW k \in 1 .. n - 1, b <= k, k + 1 < e
       PROVE  \/ list'[k] <= list'[k + 1]
              \/ \E i \in 1 .. M + N : new[i].begin <= k /\ k + 1 < new[i].end
  <2>1. k \in Int
    OBVIOUS
  <2>2. CASE k + 1 < m
    <3>1. ASSUME NEW i \in 1 .. M PROVE i \in 1 .. M + N /\ new[i] = A[i]
      BY <1>2, <1>7 DEF M
    <3> QED
      BY <1>4, <1>10, <2>2, <3>1
  <2>3. CASE k + 1 = m
    <3>1. k \in Span(b, m) /\ k + 1 \in m .. n
      BY <1>10, <2>3 DEF Span
    <3> QED
      BY <3>1 DEF Apart
  <2>4. CASE m <= k
    <3>1. ASSUME NEW i \in 1 .. N, B[i].begin <= k, k + 1 < B[i].end
          PROVE  \E j \in 1 .. M + N : new[j].begin <= k /\ k + 1 < new[j].end
      <4>1. M + i \in 1 .. M + N /\ ~(M + i <= M) /\ (M + i) - M = i
        BY <1>7
      <4>2. new[M + i] = B[i]
        BY <1>2, <4>1 DEF M, N
      <4> QED
        BY <3>1, <4>1, <4>2
    <3> QED
      BY <1>5, <1>10, <2>4, <3>1
  <2>5. k + 1 < m \/ k + 1 = m \/ m <= k
    BY ONLY <2>1, m \in Nat
  <2> QED
    BY <2>2, <2>3, <2>4, <2>5
<1>11. Len(new) = M + N
  BY <1>2 DEF M, N
<1>12. new \in Seq(Frames) /\ count' = n /\ c.begin = b /\ c.end = e
  BY <1>2
<1> QED
  BY ONLY <1>8, <1>9, <1>10, <1>11, <1>12 DEF Leaves

(* What is in the first of the blocks, and what is behind it.              *)
LEMMA FirstBlock ==
  ASSUME TypeOK, NEW c, LoopOK(c), 1 <= c.begin, c.begin <= c.end, c.end <= count + 1,
         Apart(c.begin, c.end), NEW m, m = c.begin + c.freqs[c.block]
  PROVE  /\ m \in Nat /\ c.begin <= m /\ m <= c.end /\ (c.block + 1 = RADIX_SIZE => m = c.end)
         /\ \A k \in Span(c.begin, m) : Digit(list[k], c.digit) = c.block
         /\ \A k \in Span(m, c.end) : Digit(list[k], c.digit) > c.block
         /\ Apart(c.begin, m) /\ Apart(m, c.end)
<1> SUFFICES ASSUME NEW b, b = c.begin, NEW e, e = c.end, NEW d, d = c.digit,
                    NEW f, f = c.freqs, NEW u, u = c.block, NEW w, w = u + 1,
                    NEW s, s = [v \in 0 .. RADIX_SIZE |-> b + Before(f, v) - Before(f, u)]
             PROVE  /\ m \in Nat /\ b <= m /\ m <= e /\ (u + 1 = RADIX_SIZE => m = e)
                    /\ \A k \in Span(b, m) : Digit(list[k], d) = u
                    /\ \A k \in Span(m, e) : Digit(list[k], d) > u
                    /\ Apart(b, m) /\ Apart(m, e)
  OBVIOUS
<1>1. /\ b \in Nat /\ e \in Nat /\ b > 0 /\ b <= e /\ e <= count + 1 /\ d \in Nat
      /\ f \in [Digits -> Nat] /\ u \in Digits /\ count \in Nat /\ Alike(b, e, d + 1)
      /\ m = b + f[u] /\ Apart(b, e)
  BY Hashing DEF LoopOK, Loops
<1>2. /\ u \in Nat /\ u \in 0 .. RADIX_SIZE /\ w \in 0 .. RADIX_SIZE /\ w \in Nat
      /\ RADIX_SIZE \in 0 .. RADIX_SIZE
      /\ \A v \in Digits : v \in Nat /\ v \in 0 .. RADIX_SIZE /\ v + 1 \in 0 .. RADIX_SIZE
  BY <1>1, Sizes DEF Digits
<1>3. /\ \A v \in 0 .. RADIX_SIZE : s[v] \in Int
      /\ \A v \in 0 .. RADIX_SIZE : \A x \in 0 .. v : s[x] <= s[v]
      /\ s[u] = b /\ s[w] = m /\ s[RADIX_SIZE] = e
  <2>1. /\ \A v \in 0 .. RADIX_SIZE : Before(f, v) \in Nat
        /\ \A v \in 0 .. RADIX_SIZE : \A x \in 0 .. v : Before(f, x) <= Before(f, v)
        /\ Before(f, w) = Before(f, u) + f[u] /\ f[u] \in Nat
    BY <1>1, Befores
  <2> DEFINE P(v) == Before(f, v)
  <2>2. /\ \A v \in 0 .. RADIX_SIZE : s[v] = b + P(v) - P(u)
        /\ \A v \in 0 .. RADIX_SIZE : P(v) \in Nat
        /\ \A v \in 0 .. RADIX_SIZE : \A x \in 0 .. v : P(x) <= P(v)
        /\ P(w) = P(u) + f[u] /\ f[u] \in Nat
    BY <2>1
  <2> HIDE DEF P
  <2>3. \A v \in 0 .. RADIX_SIZE : s[v] \in Int
    BY ONLY <1>1, <1>2, <2>2
  <2>4. ASSUME NEW v \in 0 .. RADIX_SIZE, NEW x \in 0 .. v PROVE s[x] <= s[v]
    <3>1. x \in 0 .. RADIX_SIZE
      BY Sizes
    <3>2. s[x] = b + P(x) - P(u) /\ s[v] = b + P(v) - P(u) /\ P(x) \in Nat /\ P(v) \in Nat
          /\ P(u) \in Nat /\ P(x) <= P(v)
      BY ONLY <1>2, <2>2, <3>1, v \in 0 .. RADIX_SIZE, x \in 0 .. v
    <3> QED
      BY ONLY <1>1, <3>2
  <2>5. s[u] = b /\ s[w] = m
    BY ONLY <1>1, <1>2, <2>2
  <2>6. s[RADIX_SIZE] = e
    BY <1>2, <2>2 DEF LoopOK, P
  <2> QED
    BY <2>3, <2>4, <2>5, <2>6
<1>4. ASSUME NEW k \in Span(b, e), NEW v, v = Digit(list[k], d)
      PROVE  v \in Digits /\ v >= u /\ k >= s[v] /\ k < s[v + 1] /\ k \in Nat
  <2>1. list[k] \in Nat
    BY <1>1, Hashing DEF Span
  <2>2. v \in Digits
    BY <1>1, <1>4, <2>1, DigitOf
  <2>3. /\ v >= u /\ k >= b + Before(f, v) - Before(f, u)
        /\ k < b + Before(f, v + 1) - Before(f, u)
    BY <1>4 DEF LoopOK
  <2>4. s[v] = b + Before(f, v) - Before(f, u)
    BY <1>2, <2>2
  <2>5. s[v + 1] = b + Before(f, v + 1) - Before(f, u)
    BY <1>2, <2>2
  <2>6. k \in Nat
    BY <1>1 DEF Span
  <2> QED
    BY <2>2, <2>3, <2>4, <2>5, <2>6
<1>5. m \in Nat /\ b <= m /\ m <= e /\ (u + 1 = RADIX_SIZE => m = e)
  <2>1. f[u] \in Nat
    BY <1>1
  <2>2. m \in Nat /\ b <= m
    BY <1>1, <2>1
  <2>3. m <= e
    BY <1>2, <1>3
  <2>4. u + 1 = RADIX_SIZE => m = e
    BY <1>3
  <2> QED
    BY <2>2, <2>3, <2>4
<1>6. ASSUME NEW k \in Span(b, e), NEW v, v = Digit(list[k], d)
      PROVE  (k < m => v = u) /\ (k >= m => v > u)
  <2>1. v \in Digits /\ v \in Nat /\ v >= u /\ k >= s[v] /\ k < s[v + 1] /\ k \in Nat
    BY <1>2, <1>4, <1>6
  <2>2. CASE v > u
    <3>1. w \in 0 .. v /\ v \in 0 .. RADIX_SIZE
      BY <1>2, <2>1, <2>2
    <3>2. s[w] <= s[v] /\ s[v] \in Int
      BY <1>3, <3>1
    <3> QED
      BY <1>3, <1>5, <2>1, <2>2, <3>2
  <2>3. CASE v = u
    BY <1>2, <1>3, <1>5, <2>1, <2>3
  <2> QED
    BY <1>2, <2>1, <2>2, <2>3
<1>7. /\ \A k \in Span(b, m) : k \in Span(b, e) /\ k < m
      /\ \A k \in Span(m, e) : k \in Span(b, e) /\ k >= m
  BY <1>1, <1>5 DEF Span
<1>8. /\ \A k \in Span(b, m) : Digit(list[k], d) = u
      /\ \A k \in Span(m, e) : Digit(list[k], d) > u
  BY <1>6, <1>7
<1>9. ASSUME NEW k \in Span(b, m), NEW l \in Span(m, e) PROVE list[k] <= list[l]
  <2> DEFINE h == list[k]
             g == list[l]
  <2>1. k \in Span(b, e) /\ l \in Span(b, e)
    BY <1>7
  <2>2. h \in Nat /\ g \in Nat
    <3>1. k \in 1 .. count /\ l \in 1 .. count
      BY <1>1, <2>1 DEF Span
    <3> QED
      BY <3>1, Hashing
  <2>3. h \div Weight[d + 1] = g \div Weight[d + 1]
    BY <1>1, <2>1 DEF Alike
  <2>4. Digit(h, d) < Digit(g, d)
    <3>1. Digit(h, d) = u /\ Digit(g, d) > u /\ Digit(g, d) \in Digits
      BY <1>4, <1>8, <2>1
    <3> DEFINE x == Digit(g, d)
    <3>2. x > u /\ x \in Nat
      BY <1>2, <3>1
    <3> HIDE DEF x
    <3>3. u < x
      BY <1>2, <3>2
    <3> QED
      BY <3>1, <3>3 DEF x
  <2>5. h < g
    <3> HIDE DEF h, g
    <3> QED
      BY <1>1, <2>2, <2>3, <2>4, LargerDigit
  <2> QED
    BY <2>2, <2>5
<1>10. Apart(b, m)
  <2> SUFFICES ASSUME NEW k \in Span(b, m)
               PROVE  /\ \A l \in 1 .. b - 1 : list[l] <= list[k]
                      /\ \A l \in m .. count : list[k] <= list[l]
    BY DEF Apart
  <2>1. \A l \in m .. count : l \in Span(m, e) \/ l \in e .. count
    BY <1>1, <1>5 DEF Span
  <2> QED
    BY <1>1, <1>7, <1>9, <2>1 DEF Apart
<1>11. Apart(m, e)
  <2> SUFFICES ASSUME NEW k \in Span(m, e)
               PROVE  /\ \A l \in 1 .. m - 1 : list[l] <= list[k]
                      /\ \A l \in e .. count : list[k] <= list[l]
    BY DEF Apart
  <2>1. \A l \in 1 .. m - 1 : l \in Span(b, m) \/ l \in 1 .. b - 1
    BY <1>1, <1>5 DEF Span
  <2> QED
    BY <1>1, <1>7, <1>9, <2>1 DEF Apart
<1> QED
  BY <1>5, <1>8, <1>10, <1>11

(* The call for a block.                                                   *)
LEMMA BlockLeaves ==
  ASSUME TypeOK, list' = list, count' = count, NEW b \in Nat, NEW m \in Nat, b > 0, b <= m,
         m <= count + 1, Apart(b, m), NEW d \in Nat, d > 0, d < LEN, Alike(b, m, d + 1),
         NEW u, \A k \in Span(b, m) : Digit(list[k], d) = u,
         NEW n, n = m - b, NEW A, A = BlockCall(b, n, d),
         NEW x, x.begin = b, x.end = m
  PROVE  Leaves(A, x)'
<1>1. count \in Nat /\ n \in Nat
  BY Hashing
<1>2. Apart(b, m)'
  BY DEF Apart
<1>3. ASSUME NEW h \in Frames, (SmallOK(h) \/ FlagOK(h))', h.begin = b, h.end = m, A = <<h>>
      PROVE  Leaves(A, x)'
  <2>1. CallOK(h)'
    <3>1. Apart(h.begin, h.end)' /\ 1 <= h.begin /\ h.begin <= h.end /\ h.end <= count' + 1
      BY <1>1, <1>2, <1>3
    <3> QED
      BY <1>3, <3>1 DEF CallOK
  <2> QED
    BY <1>3, <2>1, LeavesOne
<1>4. CASE n > SMALLSORT_CUTOFF
  <2> SUFFICES ASSUME NEW r, r = d - 1, NEW h, h = Flagsort(b, m, r) PROVE Leaves(A, x)'
    OBVIOUS
  <2>1. A = <<h>>
    <3>1. A = <<Flagsort(b, b + n, d - 1)>>
      BY <1>4 DEF BlockCall
    <3>2. b + n = m
      OBVIOUS
    <3> QED
      BY <3>1, <3>2
  <2>2. r \in Nat /\ r + 1 = d /\ r < LEN /\ b < m
    BY <1>4, Sizes
  <2>3. h \in Flags /\ h.begin = b /\ h.end = m /\ h.digit = r
    BY <2>2 DEF Flagsort, Flags
  <2>4. Alike(b, m, d)
    BY AlikeBelow
  <2>5. FlagOK(h)'
    <3>1. \A k \in Span(b, m) : \A l \in Span(b, m) :
            list'[k] \div Weight[r + 1] = list'[l] \div Weight[r + 1]
      <4>1. r + 1 = d
        BY <2>2
      <4>2. \A k \in Span(b, m) : \A l \in Span(b, m) :
              list'[k] \div Weight[d] = list'[l] \div Weight[d]
        BY <2>4 DEF Alike
      <4> QED
        BY ONLY <4>1, <4>2
    <3> QED
      BY <2>2, <2>3, <3>1 DEF FlagOK, Alike
  <2> QED
    BY <1>3, <2>1, <2>3, <2>5 DEF Frames
<1>5. CASE ~(n > SMALLSORT_CUTOFF) /\ n > 1
  <2> SUFFICES ASSUME NEW r, r = (~Unguarded(b)), NEW h, h = Smallsort(b, m, r)
               PROVE  Leaves(A, x)'
    OBVIOUS
  <2>1. A = <<h>>
    <3>1. A = <<Smallsort(b, b + n, ~Unguarded(b))>>
      BY <1>5 DEF BlockCall
    <3>2. b + n = m
      OBVIOUS
    <3> QED
      BY <3>1, <3>2
  <2>2. r \in BOOLEAN /\ (r \/ b # 1)
    BY Zenon DEF Unguarded
  <2>3. h \in Smalls /\ h.begin = b /\ h.end = m /\ h.guarded = r
    BY <2>2 DEF Smallsort, Smalls
  <2>4. SmallOK(h)'
    <3>1. b + 1 < m
      BY <1>5
    <3>2. b # 1 => b > 1
      OBVIOUS
    <3> QED
      BY <2>2, <2>3, <3>1, <3>2 DEF SmallOK
  <2> QED
    BY <1>3, <2>1, <2>3, <2>4 DEF Frames
<1>6. CASE ~(n > SMALLSORT_CUTOFF) /\ ~(n > 1)
  <2>1. A = <<>>
    BY <1>6 DEF BlockCall
  <2>2. \A k \in 1 .. count - 1 : x.begin <= k /\ k + 1 < x.end => list'[k] <= list'[k + 1]
    <3>1. \A k \in Int : ~(b <= k /\ k + 1 < m)
      BY <1>6
    <3> QED
      BY <3>1
  <2> QED
    BY <2>1, <2>2, LeavesNone
<1> QED
  BY <1>4, <1>5, <1>6

(* The loop with one block less.                                           *)
LEMMA LoopGoesOn ==
  ASSUME TypeOK, NEW c, LoopOK(c), NEW b, b = c.begin, NEW e, e = c.end, NEW u, u = c.block,
         1 <= b, b <= e, e <= count + 1,
         NEW m \in Nat, b <= m, m <= e, m - b = c.freqs[u],
         \A k \in Span(m, e) : Digit(list[k], c.digit) > u,
         NEW g \in Loops, g.begin = m, g.end = e, g.digit = c.digit, g.freqs = c.freqs,
         g.block = u + 1
  PROVE  LoopOK(g)
<1> SUFFICES ASSUME NEW d, d = c.digit, NEW f, f = c.freqs, NEW w, w = g.block PROVE LoopOK(g)
  OBVIOUS
<1>1. /\ c \in Loops /\ d \in Nat /\ d > 0 /\ d < LEN /\ Alike(b, e, d + 1)
      /\ f \in [Digits -> Nat] /\ u \in Digits /\ b \in Nat /\ e \in Nat /\ count \in Nat
  BY Hashing DEF LoopOK, Loops
<1>2. w = u + 1 /\ w \in Digits /\ g.digit = d /\ g.freqs = f /\ g.block = w
  BY DEF Loops
<1>3. /\ Before(f, w) = Before(f, u) + f[u] /\ Before(f, u) \in Nat
      /\ \A v \in 0 .. RADIX_SIZE : Before(f, v) \in Nat
  <2>1. u \in 0 .. RADIX_SIZE
    BY <1>1, Sizes DEF Digits
  <2> QED
    BY <1>1, <2>1, Befores
<1>4. ASSUME NEW v \in 0 .. RADIX_SIZE
      PROVE  m + Before(f, v) - Before(f, w) = b + Before(f, v) - Before(f, u)
  <2> DEFINE x == Before(f, v)
             y == Before(f, u)
             z == Before(f, w)
  <2>1. x \in Nat /\ y \in Nat /\ z = y + f[u] /\ f[u] \in Nat /\ m - b = f[u]
    BY <1>1, <1>3
  <2> HIDE DEF x, y, z
  <2>2. m + x - z = b + x - y
    BY <1>1, <2>1
  <2> QED
    BY <2>2 DEF x, y, z
<1>5. e = m + Before(f, RADIX_SIZE) - Before(f, w)
  <2>1. e = b + Before(f, RADIX_SIZE) - Before(f, u)
    BY DEF LoopOK
  <2>2. RADIX_SIZE \in 0 .. RADIX_SIZE
    BY Sizes
  <2> QED
    BY <1>4, <2>1, <2>2
<1>6. \A k \in Span(m, e) : k \in Span(b, e) /\ k \in 1 .. count
  BY <1>1 DEF Span
<1>7. ASSUME NEW k \in Span(m, e), NEW v, v = Digit(list[k], d)
      PROVE  /\ v >= w /\ k >= m + Before(f, v) - Before(f, w)
             /\ k < m + Before(f, v + 1) - Before(f, w)
  <2>1. k >= b + Before(f, v) - Before(f, u) /\ k < b + Before(f, v + 1) - Before(f, u)
    BY <1>6, <1>7 DEF LoopOK
  <2>2. v \in Digits /\ v > u
    <3>1. list[k] \in Nat
      BY <1>6, Hashing
    <3> QED
      BY <1>1, <1>7, <3>1, DigitOf
  <2>3. v \in Nat /\ u \in Nat /\ v < RADIX_SIZE
    BY <1>1, <2>2, Sizes DEF Digits
  <2>4. v >= w
    BY <1>2, <2>2, <2>3
  <2>5. v \in 0 .. RADIX_SIZE /\ v + 1 \in 0 .. RADIX_SIZE
    BY ONLY <2>3, Sizes
  <2> QED
    BY <1>4, <2>1, <2>4, <2>5
<1>8. Alike(m, e, d + 1)
  BY <1>1, <1>6 DEF Alike
<1>9. g.end = g.begin + Before(g.freqs, RADIX_SIZE) - Before(g.freqs, g.block)
  BY <1>2, <1>5
<1> QED
  BY <1>1, <1>2, <1>7, <1>8, <1>9 DEF LoopOK

LEMMA SortblocksInv ==
  ASSUME TypeOK, Follows, StackOK, GapsOK, sortblocks
  PROVE  Inv'
<1> SUFFICES ASSUME NEW c, c = Head(todo), NEW b, b = c.begin, NEW e, e = c.end,
                    NEW d, d = c.digit, NEW u, u = c.block, NEW n, n = c.freqs[c.block]
             PROVE  Inv'
  OBVIOUS
<1>1. /\ todo # <<>> /\ c.op = "sortblocks" /\ named' = named /\ T' = T
      /\ list' = list /\ idxs' = idxs
  BY DEF sortblocks
<1>2. /\ CallOK(c) /\ LoopOK(c) /\ b \in Nat /\ e \in Nat /\ 1 <= b /\ b > 0 /\ b <= e
      /\ e <= count + 1 /\ count \in Nat /\ count' = count /\ Apart(b, e)
  <2>1. CallOK(c) /\ LoopOK(c) /\ b \in Nat /\ e \in Nat
    BY <1>1, Running
  <2> QED
    BY <1>1, <2>1, Hashing DEF CallOK, count
<1>3. /\ c \in Loops /\ d \in Nat /\ d > 0 /\ d < LEN /\ Alike(b, e, d + 1)
      /\ c.freqs \in [Digits -> Nat] /\ u \in Digits /\ n \in Nat
  BY <1>2 DEF LoopOK, Loops
(* The place between the first block and the others. *)
<1>4. \E m \in Nat : /\ m = b + n /\ m - b = n /\ b <= m /\ m <= e
                     /\ (u + 1 = RADIX_SIZE => m = e)
                     /\ \A k \in Span(b, m) : Digit(list[k], d) = u
                     /\ \A k \in Span(m, e) : Digit(list[k], d) > u
                     /\ Apart(b, m) /\ Apart(m, e)
  <2> SUFFICES ASSUME NEW m, m = b + n
               PROVE  /\ m \in Nat /\ b <= m /\ m <= e /\ (u + 1 = RADIX_SIZE => m = e)
                      /\ \A k \in Span(b, m) : Digit(list[k], d) = u
                      /\ \A k \in Span(m, e) : Digit(list[k], d) > u
                      /\ Apart(b, m) /\ Apart(m, e)
    BY <1>2, <1>3
  <2> QED
    BY <1>2, FirstBlock
<1> DEFINE Between(m) == m = b + n
<1>5. PICK m \in Nat : /\ Between(m) /\ m - b = n /\ b <= m /\ m <= e
                       /\ (u + 1 = RADIX_SIZE => m = e)
                       /\ \A k \in Span(b, m) : Digit(list[k], d) = u
                       /\ \A k \in Span(m, e) : Digit(list[k], d) > u
                       /\ Apart(b, m) /\ Apart(m, e)
  BY <1>4
<1> SUFFICES ASSUME NEW w, w = u + 1, NEW A, A = BlockCall(b, n, d),
                    NEW g, g = [c EXCEPT !.block = w, !.begin = m],
                    NEW B, B = IF w = RADIX_SIZE THEN <<>> ELSE <<g>>,
                    NEW new, new = A \o B
             PROVE  Inv'
  OBVIOUS
<1>6. todo' = new \o Tail(todo)
  BY <1>5 DEF sortblocks, Become, Between
<1> HIDE DEF Between
<1>7. m <= count + 1 /\ \A k \in Span(b, m) : k \in Span(b, e)
  BY ONLY <1>2, <1>5 DEF Span
<1>8. Alike(b, m, d + 1)
  BY ONLY <1>3, <1>7 DEF Alike
<1> SUFFICES ASSUME NEW x, x = Call("block", b, m), NEW y, y = Call("blocks", m, e) PROVE Inv'
  OBVIOUS
<1>9. x.begin = b /\ x.end = m /\ y.begin = m /\ y.end = e
  BY DEF Call
<1>10. Leaves(A, x)'
  <2>1. n = m - b
    BY <1>5
  <2> QED
    BY ONLY <1>1, <1>2, <1>3, <1>5, <1>7, <1>8, <1>9, <2>1, TypeOK, A = BlockCall(b, n, d),
            BlockLeaves
<1>11. CASE w = RADIX_SIZE
  <2>1. new = A
    <3>1. A \in Seq(Frames)
      BY <1>10 DEF Leaves
    <3>2. B = <<>>
      BY <1>11
    <3> HIDE DEF Frames
    <3> QED
      BY <3>1, <3>2, ConcatEmptySeq
  <2>2. x.begin = c.begin /\ x.end = c.end
    BY <1>5, <1>9, <1>11
  <2>3. Leaves(new, c)'
    BY ONLY <1>10, <2>1, <2>2 DEF Leaves
  <2> QED
    BY <1>1, <1>6, <2>3, ProceedsInPlace
<1>12. CASE w # RADIX_SIZE
  <2>1. w \in Digits /\ B = <<g>>
    <3>1. u \in Nat /\ u < RADIX_SIZE
      BY ONLY <1>3, Sizes DEF Digits
    <3>2. w \in Nat /\ w < RADIX_SIZE
      BY ONLY <1>12, <3>1, w = u + 1, Sizes
    <3>3. w \in Digits
      BY ONLY <3>2, Sizes DEF Digits
    <3> QED
      BY <1>12, <3>3
  <2>2. /\ g \in Loops /\ g.begin = m /\ g.end = e /\ g.digit = d /\ g.freqs = c.freqs
        /\ g.block = w
    BY <1>3, <2>1 DEF Loops
  <2>3. LoopOK(g)
    <3>1. m - b = c.freqs[u]
      BY <1>5
    <3>2. \A k \in Span(m, e) : Digit(list[k], c.digit) > u
      BY <1>5
    <3> QED
      BY ONLY <1>2, <1>5, <2>2, <3>1, <3>2, TypeOK, m \in Nat, b = c.begin, e = c.end,
              d = c.digit, u = c.block, w = u + 1, LoopGoesOn
  <2>4. LoopOK(g)'
    BY <1>1, <2>3 DEF LoopOK, Alike
  <2>5. Apart(m, e)'
    BY <1>1, <1>2, <1>5 DEF Apart
  <2>6. CallOK(g)'
    <3>1. Apart(g.begin, g.end)' /\ 1 <= g.begin /\ g.begin <= g.end /\ g.end <= count' + 1
      BY ONLY <1>2, <1>5, <2>2, <2>5
    <3> QED
      BY <2>4, <3>1 DEF CallOK
  <2>7. g \in Frames
    BY <2>2 DEF Frames
  <2>8. Leaves(B, y)'
    <3>1. B = <<g>> /\ g.begin = y.begin /\ g.end = y.end /\ y.begin \in Nat /\ y.end \in Nat
      BY ONLY <1>2, <1>5, <1>9, <2>1, <2>2
    <3> QED
      BY ONLY <2>6, <2>7, <3>1, LeavesOne
  <2>9. \A i \in 1 .. Len(B) : LoopOK(B[i])'
    <3>1. \A i \in 1 .. Len(B) : B[i] = g
      BY ONLY <2>1
    <3> QED
      BY ONLY <2>4, <3>1
  <2>10. Apart(b, m)'
    BY <1>1, <1>2, <1>5 DEF Apart
  <2>11. Leaves(new, c)'
    BY ONLY <1>2, <1>5, <1>9, <1>10, <2>8, <2>9, <2>10,
            m \in Nat, b = c.begin, e = c.end, new = A \o B, LeavesBoth
  <2> QED
    BY <1>1, <1>6, <2>11, ProceedsInPlace
<1> QED
  BY <1>11, <1>12

-----------------------------------------------------------------------------
(* The radix sort.                                                         *)

(* What comes before what, after a pass.                                   *)
Earlier(s, d, l, k) ==
  \/ Digit(s[l][1], d) < Digit(s[k][1], d)
  \/ Digit(s[l][1], d) = Digit(s[k][1], d) /\ l <= k

(* An order of n places.                                                   *)
Rearranges(r, n) ==
  r \in [1 .. n -> 1 .. n] /\ \A j \in 1 .. n : \E k \in 1 .. n : r[k] = j

(* A pass rearranges the hashes, by a digit and in the order they were in. *)
LEMMA PassOrders ==
  ASSUME NEW n \in Nat, NEW s, DOMAIN s = 1 .. n, NEW d,
         \A k \in 1 .. n : Digit(s[k][1], d) \in Nat
  PROVE  \E r \in [1 .. n -> 1 .. n] :
           /\ Rearranges(r, n)
           /\ Passed(s, d) = [k \in 1 .. n |-> s[r[k]]]
           /\ \A i \in 1 .. n : \A j \in 1 .. n : i <= j => Earlier(s, d, r[i], r[j])
<1> DEFINE Q(k) == {l \in 1 .. n : Earlier(s, d, l, k)}
           R == [k \in 1 .. n |-> Cardinality(Q(k))]
<1>1. /\ \A k \in 1 .. n : Earlier(s, d, k, k)
      /\ \A k \in 1 .. n : \A l \in 1 .. n : Earlier(s, d, k, l) \/ Earlier(s, d, l, k)
      /\ \A k \in 1 .. n : \A l \in 1 .. n :
           Earlier(s, d, k, l) /\ Earlier(s, d, l, k) => k = l
      /\ \A k \in 1 .. n : \A l \in 1 .. n : \A m \in 1 .. n :
           Earlier(s, d, k, l) /\ Earlier(s, d, l, m) => Earlier(s, d, k, m)
  <2> DEFINE D == [k \in 1 .. n |-> Digit(s[k][1], d)]
  <2>1. \A k \in 1 .. n : D[k] \in Nat
    OBVIOUS
  <2>2. \A k \in 1 .. n : \A l \in 1 .. n :
          Earlier(s, d, k, l) <=> D[k] < D[l] \/ (D[k] = D[l] /\ k <= l)
    BY DEF Earlier
  <2> HIDE DEF D
  <2> QED
    BY ONLY <2>1, <2>2, n \in Nat
<1>2. IsFiniteSet(1 .. n) /\ \A k \in 1 .. n : Q(k) \in SUBSET (1 .. n)
  BY FS_Interval
<1>3. \A k \in 1 .. n : IsFiniteSet(Q(k)) /\ Cardinality(Q(k)) \in Nat
  <2> SUFFICES ASSUME NEW k \in 1 .. n, NEW A, A = Q(k)
               PROVE  IsFiniteSet(A) /\ Cardinality(A) \in Nat
    OBVIOUS
  <2>1. A \in SUBSET (1 .. n)
    BY <1>2
  <2> QED
    BY ONLY <1>2, <2>1, FS_Subset, FS_CardinalityType
<1>4. ASSUME NEW k \in 1 .. n PROVE R[k] \in 1 .. n
  <2> SUFFICES ASSUME NEW A, A = Q(k), NEW N, N = 1 .. n PROVE Cardinality(A) \in 1 .. n
    OBVIOUS
  <2>1. k \in A /\ A \in SUBSET N /\ IsFiniteSet(A) /\ Cardinality(A) \in Nat
    BY <1>1, <1>3
  <2>2. IsFiniteSet(N) /\ Cardinality(N) = n
    <3>1. Cardinality(1 .. n) = n
      BY FS_Interval
    <3> QED
      BY <1>2, <3>1
  <2>3. Cardinality(A) <= n
    BY ONLY <2>1, <2>2, FS_Subset
  <2>4. Cardinality(A) # 0
    BY ONLY <2>1, FS_EmptySet
  <2> QED
    BY ONLY <2>1, <2>3, <2>4, n \in Nat
<1>5. ASSUME NEW k \in 1 .. n, NEW l \in 1 .. n, Earlier(s, d, k, l) PROVE R[k] <= R[l]
  <2> SUFFICES ASSUME NEW A, A = Q(k), NEW B, B = Q(l) PROVE Cardinality(A) <= Cardinality(B)
    OBVIOUS
  <2>1. A \in SUBSET B
    BY <1>1, <1>5
  <2>2. IsFiniteSet(B)
    BY <1>3
  <2> QED
    BY ONLY <2>1, <2>2, FS_Subset
<1>6. ASSUME NEW k \in 1 .. n, NEW l \in 1 .. n, R[k] = R[l] PROVE k = l
  <2>1. ASSUME NEW i \in 1 .. n, NEW j \in 1 .. n, R[i] = R[j], Earlier(s, d, i, j)
        PROVE  i = j
    <3> SUFFICES ASSUME NEW A, A = Q(i), NEW B, B = Q(j) PROVE i = j
      OBVIOUS
    <3>1. A \in SUBSET B /\ j \in B /\ (j \in A => Earlier(s, d, j, i))
      BY <1>1, <2>1
    <3>2. IsFiniteSet(B) /\ Cardinality(A) = Cardinality(B)
      BY <1>3, <2>1
    <3>3. A = B
      BY ONLY <3>1, <3>2, FS_Subset
    <3> QED
      BY <1>1, <2>1, <3>1, <3>3
  <2> QED
    BY <1>1, <1>6, <2>1
<1>7. \A k \in 1 .. n : R[k] = QueuePlace(s, d, k)
  BY DEF QueuePlace, Earlier
<1>8. R \in [1 .. n -> 1 .. n]
  BY <1>4
<1> HIDE DEF R, Q
<1>9. \A j \in 1 .. n : \E k \in 1 .. n : R[k] = j
  <2> DEFINE N == 1 .. n
  <2>1. R \in Injection(N, N)
    BY <1>6, <1>8 DEF Injection, IsInjective
  <2>2. IsFiniteSet(N)
    BY <1>2
  <2> HIDE DEF N
  <2>3. R \in Surjection(N, N)
    BY ONLY <2>1, <2>2, FS_Injection
  <2> QED
    BY <2>3 DEF Surjection, N
<1> DEFINE r == [m \in 1 .. n |-> CHOOSE k \in 1 .. n : R[k] = m]
<1>10. \A m \in 1 .. n : r[m] \in 1 .. n /\ R[r[m]] = m
  BY <1>9
<1>11. Passed(s, d) = [m \in 1 .. n |-> s[r[m]]]
  <2>1. ASSUME NEW m \in 1 .. n
        PROVE  (CHOOSE k \in 1 .. n : QueuePlace(s, d, k) = m) = r[m]
    <3>1. \A k : (k \in 1 .. n /\ QueuePlace(s, d, k) = m) <=> (k \in 1 .. n /\ R[k] = m)
      BY <1>7
    <3>2. (CHOOSE k \in 1 .. n : QueuePlace(s, d, k) = m) = CHOOSE k \in 1 .. n : R[k] = m
      BY <3>1
    <3> QED
      BY <3>2
  <2>2. Passed(s, d) = [m \in 1 .. n |-> s[CHOOSE k \in 1 .. n : QueuePlace(s, d, k) = m]]
    BY DEF Passed
  <2> HIDE DEF r
  <2> QED
    BY <2>1, <2>2
<1>12. r \in [1 .. n -> 1 .. n]
  BY <1>10
<1> HIDE DEF r
<1>13. ASSUME NEW j \in 1 .. n PROVE \E k \in 1 .. n : r[k] = j
  <2>1. R[j] \in 1 .. n /\ R[r[R[j]]] = R[j] /\ r[R[j]] \in 1 .. n
    BY <1>4, <1>10
  <2>2. r[R[j]] = j
    BY <1>6, <2>1
  <2> QED
    BY <2>1, <2>2
<1>14. ASSUME NEW i \in 1 .. n, NEW j \in 1 .. n, i <= j PROVE Earlier(s, d, r[i], r[j])
  <2> SUFFICES ASSUME NEW k, k = r[i], NEW l, l = r[j], ~Earlier(s, d, k, l) PROVE FALSE
    OBVIOUS
  <2>1. k \in 1 .. n /\ l \in 1 .. n /\ R[k] = i /\ R[l] = j
    BY <1>10
  <2>2. Earlier(s, d, l, k)
    BY <1>1, <2>1
  <2>3. R[l] <= R[k]
    BY <1>5, <2>1, <2>2
  <2>4. R[l] = R[k]
    BY ONLY <1>14, <2>1, <2>3, n \in Nat, i \in 1 .. n, j \in 1 .. n
  <2>5. l = k
    BY <1>6, <2>1, <2>4
  <2> QED
    BY <1>1, <2>1, <2>5
<1> QED
  BY <1>11, <1>12, <1>13, <1>14 DEF Rearranges

(* One rearrangement after the other.                                      *)
Composed(q, p, r, b, n) == \A i \in 1 .. n : q[b + i - 1] = p[b + r[i] - 1]

LEMMA OrderAfter ==
  ASSUME NEW b \in Nat, NEW e \in Nat, b > 0, b < e, e <= count + 1, count \in Nat,
         NEW p, Order(p, b, e), NEW n \in Nat, n <= e - b, e - b <= n, NEW r, Rearranges(r, n)
  PROVE  \E q \in [1 .. count -> 1 .. count] :
           Order(q, b, e) /\ Composed(q, p, r, b, n)
<1> DEFINE at == [i \in 1 .. n |-> b + i - 1]
           of == [k \in Span(b, e) |-> k - b + 1]
           q == [k \in 1 .. count |-> IF k \in Span(b, e) THEN p[at[r[of[k]]]] ELSE p[k]]
<1>1. r \in [1 .. n -> 1 .. n] /\ \A j \in 1 .. n : \E k \in 1 .. n : r[k] = j
  BY DEF Rearranges
<1>2. /\ p \in [1 .. count -> 1 .. count]
      /\ \A j \in 1 .. count : \E k \in 1 .. count : p[k] = j
      /\ \A k \in 1 .. count : IF k \in Span(b, e) THEN p[k] \in Span(b, e) ELSE p[k] = k
  BY DEF Order
<1>3. /\ \A i \in 1 .. n : at[i] = b + i - 1 /\ at[i] \in Span(b, e) /\ of[at[i]] = i
      /\ \A k \in Span(b, e) : of[k] \in 1 .. n /\ at[of[k]] = k /\ k \in 1 .. count
  <2>1. ASSUME NEW i \in 1 .. n PROVE at[i] = b + i - 1 /\ at[i] \in Span(b, e) /\ of[at[i]] = i
    <3>1. b + i - 1 \in Span(b, e) /\ (b + i - 1) - b + 1 = i
      BY DEF Span
    <3> QED
      BY <3>1
  <2>2. ASSUME NEW k \in Span(b, e) PROVE of[k] \in 1 .. n /\ at[of[k]] = k /\ k \in 1 .. count
    <3>1. k - b + 1 \in 1 .. n /\ b + (k - b + 1) - 1 = k /\ k \in 1 .. count
      BY DEF Span
    <3>2. of[k] = k - b + 1 /\ at[k - b + 1] = b + (k - b + 1) - 1
      BY <3>1
    <3> QED
      BY <3>1, <3>2
  <2> QED
    BY <2>1, <2>2
<1> HIDE DEF at, of
<1>4. ASSUME NEW k \in Span(b, e)
      PROVE  q[k] = p[at[r[of[k]]]] /\ q[k] \in Span(b, e) /\ q[k] \in 1 .. count
  <2>1. k \in 1 .. count /\ of[k] \in 1 .. n
    BY <1>3
  <2>2. r[of[k]] \in 1 .. n
    BY <1>1, <2>1
  <2>3. at[r[of[k]]] \in Span(b, e) /\ at[r[of[k]]] \in 1 .. count
    BY <1>3, <2>2
  <2>4. q[k] = p[at[r[of[k]]]]
    BY <2>1
  <2> DEFINE y == at[r[of[k]]]
  <2> HIDE DEF y
  <2>5. y \in Span(b, e) /\ y \in 1 .. count /\ q[k] = p[y]
    BY <2>3, <2>4 DEF y
  <2>6. p[y] \in Span(b, e) /\ p[y] \in 1 .. count
    BY ONLY <1>2, <2>5
  <2> QED
    BY ONLY <2>4, <2>5, <2>6
<1>5. \A k \in 1 .. count : IF k \in Span(b, e) THEN q[k] \in Span(b, e) ELSE q[k] = k
  BY <1>2, <1>4
<1>6. q \in [1 .. count -> 1 .. count]
  <2>1. \A k \in 1 .. count : q[k] \in 1 .. count
    BY <1>2, <1>4
  <2>2. q = [k \in 1 .. count |-> q[k]]
    OBVIOUS
  <2> QED
    BY ONLY <2>1, <2>2
<1> HIDE DEF q
<1>7. ASSUME NEW i \in 1 .. n PROVE q[b + i - 1] = p[b + r[i] - 1]
  <2>1. q[at[i]] = p[at[r[i]]]
    BY <1>1, <1>3, <1>4
  <2>2. r[i] \in 1 .. n
    BY <1>1
  <2> QED
    BY ONLY <1>3, <2>1, <2>2, i \in 1 .. n
<1>8. ASSUME NEW j \in 1 .. count PROVE \E k \in 1 .. count : q[k] = j
  <2>1. PICK k \in 1 .. count : p[k] = j
    BY <1>2
  <2>2. CASE k \notin Span(b, e)
    BY <1>2, <1>5, <2>1, <2>2
  <2>3. CASE k \in Span(b, e)
    <3>1. PICK m \in 1 .. n : r[m] = of[k]
      BY <1>1, <1>3, <2>3
    <3>2. q[at[m]] = p[at[r[m]]] /\ at[m] \in 1 .. count
      BY <1>3, <1>4
    <3>3. at[r[m]] = k
      BY <1>3, <2>3, <3>1
    <3> QED
      BY <2>1, <3>2, <3>3
  <2> QED
    BY <2>2, <2>3
<1>9. Order(q, b, e)
  BY <1>5, <1>6, <1>8 DEF Order
<1> QED
  BY <1>6, <1>7, <1>9 DEF Composed

(* The same place by place.                                                *)
IsArea(s, p, b, e, n) ==
  /\ n \in Nat /\ DOMAIN s = 1 .. n
  /\ \A i \in 1 .. n : /\ b + i - 1 \in 1 .. count /\ p[b + i - 1] \in Span(b, e)
                       /\ s[i] = <<list[p[b + i - 1]], idxs[p[b + i - 1]]>>
                       /\ s[i][1] = list[p[b + i - 1]] /\ s[i][2] = idxs[p[b + i - 1]]
                       /\ s[i][1] \in Nat /\ s[i][1] < Weight[LEN]

LEMMA AreaOf ==
  ASSUME TypeOK, NEW b \in Nat, NEW e \in Nat, b > 0, b < e, e <= count + 1,
         NEW n \in Nat, n <= e - b, e - b <= n, NEW p, Order(p, b, e), NEW s, s = Area(p, b, n)
  PROVE  IsArea(s, p, b, e, n)
<1>1. n \in Nat /\ count \in Nat
  BY Hashing
<1>2. DOMAIN s = 1 .. n /\ \A i \in 1 .. n : s[i] = <<list[p[b + i - 1]], idxs[p[b + i - 1]]>>
  BY DEF Area
<1>3. ASSUME NEW i \in 1 .. n
      PROVE  /\ b + i - 1 \in 1 .. count /\ p[b + i - 1] \in Span(b, e)
             /\ list[p[b + i - 1]] \in Nat /\ list[p[b + i - 1]] < Weight[LEN]
  <2> SUFFICES ASSUME NEW k, k = b + i - 1
               PROVE  /\ k \in 1 .. count /\ p[k] \in Span(b, e)
                      /\ list[p[k]] \in Nat /\ list[p[k]] < Weight[LEN]
    OBVIOUS
  <2>1. k \in 1 .. count /\ k \in Span(b, e)
    BY <1>1 DEF Span
  <2>2. p[k] \in Span(b, e) /\ p[k] \in 1 .. count
    BY <2>1 DEF Order
  <2> QED
    BY <2>1, <2>2, Hashing
<1>4. ASSUME NEW i \in 1 .. n
      PROVE  s[i][1] = list[p[b + i - 1]] /\ s[i][2] = idxs[p[b + i - 1]]
  BY <1>2
<1> QED
  BY <1>1, <1>2, <1>3, <1>4 DEF IsArea

(* A pass over the hashes of an area.                                      *)
LEMMA PassedArea ==
  ASSUME TypeOK, NEW b \in Nat, NEW e \in Nat, b > 0, b < e, e <= count + 1,
         NEW n \in Nat, n <= e - b, e - b <= n, NEW p, Order(p, b, e), NEW s, s = Area(p, b, n),
         NEW d \in Nat, InOrder(s, n, d)
  PROVE  \E q \in [1 .. count -> 1 .. count] :
           Order(q, b, e) /\ Passed(s, d) = Area(q, b, n) /\ InOrder(Passed(s, d), n, d + 1)
<1>1. /\ n \in Nat /\ DOMAIN s = 1 .. n /\ count \in Nat
      /\ \A i \in 1 .. n : /\ s[i] = <<list[p[b + i - 1]], idxs[p[b + i - 1]]>>
                           /\ s[i][1] \in Nat
  <2>1. IsArea(s, p, b, e, n)
    BY AreaOf
  <2> QED
    BY ONLY TypeOK, <2>1, Hashing DEF IsArea
<1>2. \A i \in 1 .. n : Digit(s[i][1], d) \in Nat
  <2>1. \A v \in Digits : v \in Nat
    BY DEF Digits
  <2> QED
    BY <1>1, <2>1, DigitOf
<1>3. PICK r \in [1 .. n -> 1 .. n] :
        /\ Rearranges(r, n)
        /\ Passed(s, d) = [k \in 1 .. n |-> s[r[k]]]
        /\ \A i \in 1 .. n : \A j \in 1 .. n : i <= j => Earlier(s, d, r[i], r[j])
  BY ONLY <1>1, <1>2, PassOrders
<1>4. PICK q \in [1 .. count -> 1 .. count] :
        Order(q, b, e) /\ Composed(q, p, r, b, n)
  <2>1. Rearranges(r, n) /\ n <= e - b /\ e - b <= n
    BY <1>3
  <2> QED
    BY ONLY <1>1, <2>1, b \in Nat, e \in Nat, b > 0, b < e, e <= count + 1, Order(p, b, e),
            OrderAfter
<1>5. Passed(s, d) = Area(q, b, n)
  <2>1. ASSUME NEW i \in 1 .. n
        PROVE  s[r[i]] = <<list[q[b + i - 1]], idxs[q[b + i - 1]]>>
    <3>1. r[i] \in 1 .. n
      OBVIOUS
    <3>2. s[r[i]] = <<list[p[b + r[i] - 1]], idxs[p[b + r[i] - 1]]>>
      BY <1>1, <3>1
    <3> QED
      BY <1>4, <3>2 DEF Composed
  <2> QED
    BY <1>3, <2>1 DEF Area
<1>6. InOrder(Passed(s, d), n, d + 1)
  <2> SUFFICES ASSUME NEW i \in 1 .. n, NEW j \in 1 .. n, i <= j
               PROVE  Passed(s, d)[i][1] % Weight[d + 1] <= Passed(s, d)[j][1] % Weight[d + 1]
    BY DEF InOrder
  <2>1. Passed(s, d)[i] = s[r[i]] /\ Passed(s, d)[j] = s[r[j]]
    BY <1>3
  <2> SUFFICES ASSUME NEW k, k = r[i], NEW l, l = r[j], NEW h, h = s[k][1], NEW g, g = s[l][1]
               PROVE  h % Weight[d + 1] <= g % Weight[d + 1]
    BY <2>1
  <2>2. k \in 1 .. n /\ l \in 1 .. n /\ h \in Nat /\ g \in Nat /\ Earlier(s, d, k, l)
    <3>1. k \in 1 .. n /\ l \in 1 .. n
      OBVIOUS
    <3> QED
      BY <1>1, <1>3, <3>1
  <2>3. Digit(h, d) < Digit(g, d) \/ (Digit(h, d) = Digit(g, d) /\ h % Weight[d] <= g % Weight[d])
    <3>1. k <= l => h % Weight[d] <= g % Weight[d]
      BY <2>2 DEF InOrder
    <3> QED
      BY <2>2, <3>1 DEF Earlier
  <2> QED
    BY <2>2, <2>3, PassOrder
<1> QED
  BY <1>4, <1>5, <1>6

(* The list with an area copied to it.                                     *)
LEMMA AreaCopied ==
  ASSUME TypeOK, Follows, NEW b \in Nat, NEW e \in Nat, b > 0, b < e, e <= count + 1,
         NEW n \in Nat, n <= e - b, e - b <= n, NEW p, Order(p, b, e), NEW s, s = Area(p, b, n),
         NEW l, l = Overwritten(list, b, Hashes(s)), NEW x, x = Overwritten(idxs, b, Indices(s))
  PROVE  l = [k \in 1 .. count |-> list[p[k]]] /\ x = [k \in 1 .. count |-> idxs[p[k]]]
<1>1. /\ n \in Nat /\ DOMAIN s = 1 .. n /\ count \in Nat
      /\ \A i \in 1 .. n : /\ b + i - 1 \in 1 .. count
                           /\ s[i][1] = list[p[b + i - 1]] /\ s[i][2] = idxs[p[b + i - 1]]
  <2>1. IsArea(s, p, b, e, n)
    BY AreaOf
  <2> QED
    BY ONLY TypeOK, <2>1, Hashing DEF IsArea
<1>2. Len(Hashes(s)) = n /\ Len(Indices(s)) = n
  <2> DEFINE X == {s[i][1] : i \in 1 .. n}
             Y == {s[i][2] : i \in 1 .. n}
  <2>1. Hashes(s) \in [1 .. n -> X] /\ Indices(s) \in [1 .. n -> Y]
    BY <1>1 DEF Hashes, Indices
  <2> HIDE DEF X, Y
  <2> QED
    BY <1>1, <2>1, ListLength
<1>3. /\ DOMAIN list = 1 .. count /\ DOMAIN idxs = 1 .. count
  BY DEF TypeOK, Follows
<1>4. ASSUME NEW k \in 1 .. count
      PROVE  l[k] = list[p[k]] /\ x[k] = idxs[p[k]]
  <2>1. CASE k \in Span(b, e)
    <3> SUFFICES ASSUME NEW i, i = k - b + 1
                 PROVE  l[k] = list[p[k]] /\ x[k] = idxs[p[k]]
      OBVIOUS
    <3>1. i \in 1 .. n /\ b + i - 1 = k /\ k \in b .. b + n - 1
      BY <2>1 DEF Span
    <3>2. l[k] = Hashes(s)[i] /\ x[k] = Indices(s)[i]
      BY <1>2, <1>3, <3>1 DEF Overwritten
    <3>3. Hashes(s)[i] = s[i][1] /\ Indices(s)[i] = s[i][2]
      BY <1>1, <3>1 DEF Hashes, Indices
    <3> QED
      BY <1>1, <3>1, <3>2, <3>3
  <2>2. CASE k \notin Span(b, e)
    <3>1. k \notin b .. b + n - 1
      BY <2>2 DEF Span
    <3>2. l[k] = list[k] /\ x[k] = idxs[k]
      BY <1>2, <1>3, <3>1 DEF Overwritten
    <3> QED
      BY <2>2, <3>2 DEF Order
  <2> QED
    BY <2>1, <2>2
<1> QED
  <2>1. DOMAIN l = 1 .. count /\ DOMAIN x = 1 .. count
    BY <1>3 DEF Overwritten
  <2>2. l = [k \in 1 .. count |-> l[k]] /\ x = [k \in 1 .. count |-> x[k]]
    BY <1>3 DEF Overwritten
  <2> QED
    BY <1>4, <2>2

(* An area that is copied to the list.                                     *)
LEMMA CopiedBack ==
  ASSUME TypeOK, Follows, NEW b \in Nat, NEW e \in Nat, b > 0, b < e, e <= count + 1,
         NEW n \in Nat, n <= e - b, e - b <= n, NEW p, Order(p, b, e), NEW s, s = Area(p, b, n),
         list' = Overwritten(list, b, Hashes(s)), idxs' = Overwritten(idxs, b, Indices(s))
  PROVE  Step(p, b, e) /\ \A i \in 1 .. n : list'[b + i - 1] = s[i][1]
<1>1. /\ n \in Nat /\ DOMAIN s = 1 .. n
      /\ \A i \in 1 .. n : /\ b + i - 1 \in 1 .. count
                           /\ s[i][1] = list[p[b + i - 1]] /\ s[i][2] = idxs[p[b + i - 1]]
  <2>1. IsArea(s, p, b, e, n)
    BY AreaOf
  <2> QED
    BY ONLY <2>1 DEF IsArea
<1>2. list' = [k \in 1 .. count |-> list[p[k]]] /\ idxs' = [k \in 1 .. count |-> idxs[p[k]]]
  <2> SUFFICES ASSUME NEW l, l = Overwritten(list, b, Hashes(s)),
                      NEW x, x = Overwritten(idxs, b, Indices(s))
               PROVE  l = [k \in 1 .. count |-> list[p[k]]] /\ x = [k \in 1 .. count |-> idxs[p[k]]]
    OBVIOUS
  <2> QED
    BY AreaCopied
<1>3. \A k \in 1 .. count : list'[k] = list[p[k]]
  BY <1>2
<1> QED
  BY <1>1, <1>2, <1>3 DEF Step

(* While the list stays as it is an area keeps its hashes.                 *)
LEMMA HashesStay ==
  ASSUME list' = list, idxs' = idxs, count' = count, NEW s, NEW b, NEW e, NEW n,
         HasHashes(s, b, e, n)
  PROVE  HasHashes(s, b, e, n)'
<1>1. PICK p \in [1 .. count -> 1 .. count] : Order(p, b, e) /\ s = Area(p, b, n)
  BY DEF HasHashes
<1>2. Order(p, b, e)'
  BY <1>1 DEF Order
<1>3. s = Area(p, b, n)'
  BY <1>1 DEF Area
<1> QED
  BY <1>2, <1>3 DEF HasHashes

(* What a pass leaves is read by the next.                                 *)
LEMMA RadixGoesOn ==
  ASSUME NEW n \in Nat, count' = n, NEW b \in Nat, NEW e \in Nat, b > 0, b < e, e <= n + 1,
         Apart(b, e)', NEW c, c.begin = b, c.end = e,
         NEW g, g \in Radixes, g.begin = b, g.end = e, NEW d, g.pass = d, d <= LEN,
         NEW m, m = e - b, NEW s, HasHashes(s, b, e, m)', InOrder(s, m, d),
         g.fromList => s = Paired(b, e)', ~g.fromList => s = queue',
         NEW new, new = <<g>>
  PROVE  Leaves(new, c)'
<1>1. InOrder(s, m, d)'
  BY DEF InOrder
<1>2. s = (IF g.fromList THEN Paired(b, e) ELSE queue)'
  OBVIOUS
<1>3. RadixOK(g)'
  <2>1. g.begin < g.end /\ g.end - g.begin = m
    OBVIOUS
  <2> QED
    BY <1>1, <1>2, <2>1 DEF RadixOK
<1>4. CallOK(g)'
  <2>1. Apart(g.begin, g.end)' /\ 1 <= g.begin /\ g.begin <= g.end /\ g.end <= count' + 1
    OBVIOUS
  <2> QED
    BY <1>3, <2>1 DEF CallOK
<1>5. g \in Frames
  BY DEF Frames
<1> QED
  BY <1>4, <1>5, LeavesOne

(* An area that all passes have ordered is sorted.                         *)
LEMMA SortedAtLast ==
  ASSUME TypeOK, NEW b \in Nat, NEW e \in Nat, b > 0, b < e, e <= count + 1,
         NEW n \in Nat, n <= e - b, e - b <= n, NEW p, Order(p, b, e), NEW s, s = Area(p, b, n),
         InOrder(s, n, LEN),
         \A i \in 1 .. n : list'[b + i - 1] = s[i][1]
  PROVE  \A k \in 1 .. count - 1 : b <= k /\ k + 1 < e => list'[k] <= list'[k + 1]
<1>1. n \in Nat /\ \A i \in 1 .. n : s[i][1] \in 0 .. Weight[LEN] - 1
  <2>1. n \in Nat /\ \A i \in 1 .. n : s[i][1] \in Nat /\ s[i][1] < Weight[LEN]
    <3>1. IsArea(s, p, b, e, n)
      BY AreaOf
    <3> QED
      BY ONLY <3>1 DEF IsArea
  <2>2. Weight[LEN] \in Nat
    BY Weights, Sizes
  <2> QED
    BY <2>1, <2>2
<1>2. ASSUME NEW i \in 1 .. n, NEW j \in 1 .. n, i <= j
      PROVE  s[i][1] <= s[j][1]
  <2>1. Weight[LEN] \in Nat /\ Weight[LEN] > 0
    BY Weights, Sizes
  <2>2. s[i][1] % Weight[LEN] = s[i][1] /\ s[j][1] % Weight[LEN] = s[j][1]
    BY <1>1, <2>1, SmallMod
  <2> QED
    BY <1>2, <2>2 DEF InOrder
<1> SUFFICES ASSUME NEW k \in 1 .. count - 1, b <= k, k + 1 < e
             PROVE  list'[k] <= list'[k + 1]
  OBVIOUS
<1> SUFFICES ASSUME NEW i, i = k - b + 1, NEW j, j = k - b + 2
             PROVE  list'[k] <= list'[k + 1]
  OBVIOUS
<1>3. i \in 1 .. n /\ j \in 1 .. n /\ i <= j /\ b + i - 1 = k /\ b + j - 1 = k + 1
  BY <1>1
<1>4. list'[b + i - 1] = s[i][1] /\ list'[b + j - 1] = s[j][1]
  BY <1>3
<1> QED
  BY <1>2, <1>3, <1>4

(* A digit that all hashes have adds nothing to their order.               *)
LEMMA OrderedAsBefore ==
  ASSUME TypeOK, NEW b \in Nat, NEW e \in Nat, b > 0, b < e, e <= count + 1,
         NEW n \in Nat, n <= e - b, e - b <= n, NEW p, Order(p, b, e), NEW s, s = Area(p, b, n),
         NEW d \in Nat, InOrder(s, n, d), Trivial(s, d)
  PROVE  InOrder(s, n, d + 1)
<1>1. n \in Nat /\ DOMAIN s = 1 .. n /\ \A i \in 1 .. n : s[i][1] \in Nat
  <2>1. IsArea(s, p, b, e, n)
    BY AreaOf
  <2> QED
    BY ONLY <2>1 DEF IsArea
<1> SUFFICES ASSUME NEW i \in 1 .. n, NEW j \in 1 .. n, i <= j
             PROVE  s[i][1] % Weight[d + 1] <= s[j][1] % Weight[d + 1]
  BY DEF InOrder
<1>2. Digit(s[i][1], d) = Digit(s[j][1], d)
  BY <1>1 DEF Trivial
<1>3. s[i][1] % Weight[d] <= s[j][1] % Weight[d]
  BY DEF InOrder
<1> QED
  BY <1>1, <1>2, <1>3, PassOrder

LEMMA RadixsortInv ==
  ASSUME TypeOK, Follows, StackOK, GapsOK, radixsort
  PROVE  Inv'
<1> SUFFICES ASSUME NEW c, c = Head(todo), NEW b, b = c.begin, NEW e, e = c.end,
                    NEW d, d = c.pass, NEW n, n = e - b,
                    NEW s, s = IF c.fromList THEN Paired(b, e) ELSE queue
             PROVE  Inv'
  OBVIOUS
<1>1. todo # <<>> /\ c.op = "radixsort" /\ named' = named /\ T' = T
  BY DEF radixsort
<1>2. CallOK(c) /\ RadixOK(c) /\ b \in Nat /\ e \in Nat /\ 1 <= b /\ b > 0 /\ e <= count + 1
      /\ count \in Nat /\ count' = count /\ Apart(b, e)
  <2>1. CallOK(c) /\ RadixOK(c) /\ b \in Nat /\ e \in Nat
    BY <1>1, Running
  <2> QED
    BY <1>1, <2>1, Hashing DEF CallOK, count
<1>3. /\ c \in Radixes /\ b < e /\ b <= e /\ d \in Nat /\ d <= LEN /\ n \in Nat
      /\ n <= e - b /\ e - b <= n
      /\ HasHashes(s, b, e, n) /\ InOrder(s, n, d)
  BY <1>2 DEF RadixOK, Radixes
<1>4. PICK p : Order(p, b, e) /\ s = Area(p, b, n)
  BY <1>3 DEF HasHashes
<1>5. CASE d = LEN
  <2> SUFFICES ASSUME NEW new, new = <<>> PROVE Inv'
    OBVIOUS
  <2>1. /\ Return
        /\ list' = Overwritten(list, b, Hashes(s)) /\ idxs' = Overwritten(idxs, b, Indices(s))
    BY <1>5 DEF radixsort
  <2>2. todo' = new \o Tail(todo)
    BY <1>1, <2>1, ReturnLeaves
  <2>3. Step(p, b, e) /\ \A i \in 1 .. n : list'[b + i - 1] = s[i][1]
    BY ONLY TypeOK, Follows, <1>2, <1>3, <1>4, <2>1, CopiedBack
  <2>4. \A k \in 1 .. count - 1 : b <= k /\ k + 1 < e => list'[k] <= list'[k + 1]
    <3>1. InOrder(s, n, LEN)
      BY <1>3, <1>5
    <3> QED
      BY ONLY TypeOK, <1>2, <1>3, <1>4, <2>3, <3>1, SortedAtLast
  <2>5. Leaves(new, c)'
    BY <1>2, <2>4, LeavesNone
  <2> QED
    BY <1>1, <2>2, <2>3, <2>5, Proceeds
<1> SUFFICES ASSUME d # LEN, NEW x, x = d + 1, NEW t, t = Passed(s, d) PROVE Inv'
  BY <1>5
<1>6. x \in Nat /\ x <= LEN
  BY ONLY <1>3, d # LEN, x = d + 1, Sizes
<1>7. CASE Trivial(s, d)
  <2> SUFFICES ASSUME NEW g, g = [c EXCEPT !.pass = x], NEW new, new = <<g>> PROVE Inv'
    OBVIOUS
  <2>1. todo' = new \o Tail(todo) /\ list' = list /\ idxs' = idxs /\ queue' = queue
    BY <1>7 DEF radixsort, Continue
  <2>2. g \in Radixes /\ g.begin = b /\ g.end = e /\ g.pass = x /\ g.fromList = c.fromList
    BY <1>3, <1>6 DEF Radixes
  <2>3. HasHashes(s, b, e, n)'
    BY ONLY <1>2, <1>3, <2>1, HashesStay
  <2>4. InOrder(s, n, x)
    BY <1>2, <1>3, <1>4, <1>7, OrderedAsBefore
  <2>5. Apart(b, e)'
    BY <1>2, <2>1 DEF Apart
  <2>6. (g.fromList => s = Paired(b, e)') /\ (~g.fromList => s = queue')
    <3>1. CASE c.fromList
      <4>1. s = Paired(b, e)'
        BY <2>1, <3>1 DEF Paired
      <4> QED
        BY <2>2, <3>1, <4>1
    <3>2. CASE ~c.fromList
      BY <2>1, <2>2, <3>2
    <3> QED
      BY <3>1, <3>2
  <2>7. Leaves(new, c)'
    BY ONLY <1>2, <1>3, <1>6, <2>2, <2>3, <2>4, <2>5, <2>6, n = e - b, new = <<g>>,
            b = c.begin, e = c.end, RadixGoesOn
  <2> QED
    BY <1>1, <2>1, <2>7, ProceedsInPlace
<1>8. PICK q :
        Order(q, b, e) /\ t = Area(q, b, n) /\ InOrder(t, n, x)
  <2>1. \E q \in [1 .. count -> 1 .. count] :
          Order(q, b, e) /\ Passed(s, d) = Area(q, b, n) /\ InOrder(Passed(s, d), n, d + 1)
    BY ONLY TypeOK, <1>2, <1>3, <1>4, PassedArea
  <2> QED
    BY <2>1
<1> SUFFICES ASSUME ~Trivial(s, d),
                    NEW g, g = [c EXCEPT !.pass = x, !.fromList = ~c.fromList],
                    NEW new, new = <<g>>
             PROVE  Inv'
  BY <1>7
<1>9. todo' = new \o Tail(todo)
  BY DEF radixsort, Continue
<1>10. g \in Radixes /\ g.begin = b /\ g.end = e /\ g.pass = x /\ g.fromList = ~c.fromList
  <2> DEFINE list_next == ~c.fromList
  <2>1. list_next \in BOOLEAN /\ g = [c EXCEPT !.pass = x, !.fromList = list_next]
    OBVIOUS
  <2> HIDE DEF list_next
  <2>2. g \in Radixes /\ g.begin = b /\ g.end = e /\ g.pass = x
    BY <1>3, <1>6, <2>1 DEF Radixes
  <2>3. g.fromList = list_next
    BY <1>3, <2>1, Zenon DEF Radixes
  <2> QED
    BY <2>2, <2>3 DEF list_next
<1>11. CASE c.fromList
  <2>1. queue' = t /\ list' = list /\ idxs' = idxs
    BY <1>11 DEF radixsort
  <2>2. HasHashes(t, b, e, n)'
    <3>1. HasHashes(t, b, e, n)
      BY <1>8 DEF HasHashes, Order
    <3> QED
      BY ONLY <1>2, <2>1, <3>1, HashesStay
  <2>3. Apart(b, e)'
    BY <1>2, <2>1 DEF Apart
  <2>4. (g.fromList => t = Paired(b, e)') /\ (~g.fromList => t = queue')
    BY <1>10, <1>11, <2>1
  <2>5. Leaves(new, c)'
    BY ONLY <1>2, <1>3, <1>6, <1>8, <1>10, <2>2, <2>3, <2>4, n = e - b, new = <<g>>,
            b = c.begin, e = c.end, RadixGoesOn
  <2> QED
    BY <1>1, <1>9, <2>1, <2>5, ProceedsInPlace
<1>12. CASE ~c.fromList
  <2>1. list' = Overwritten(list, b, Hashes(t)) /\ idxs' = Overwritten(idxs, b, Indices(t))
    BY <1>12 DEF radixsort
  <2>2. Step(q, b, e) /\ \A i \in 1 .. n : list'[b + i - 1] = t[i][1]
    <3>1. Order(q, b, e) /\ t = Area(q, b, n)
      BY <1>8
    <3> QED
      BY ONLY TypeOK, Follows, <1>2, <1>3, <2>1, <3>1, CopiedBack
  <2>3. list' \in [1 .. count -> Hash]
    BY <1>1, <2>2, StepFollows
  <2>4. Apart(b, e)'
    BY <1>1, <1>2, <1>3, <2>2, StepApart
  <2> SUFFICES ASSUME NEW r, r = Paired(b, e)' PROVE Inv'
    OBVIOUS
  <2>5. HasHashes(r, b, e, n)' /\ IsList(r, b, n)'
    <3>1. n <= e - b /\ e - b <= n
      BY <1>2
    <3> QED
      BY ONLY <1>2, <1>3, <2>3, <3>1, r = Paired(b, e)', ListAsArea
  <2>6. InOrder(r, n, x)
    <3>1. ASSUME NEW i \in 1 .. n PROVE r[i][1] = t[i][1]
      <4>1. r[i] = <<list'[b + i - 1], idxs'[b + i - 1]>>
        BY <2>5 DEF IsList
      <4> QED
        BY <2>2, <4>1
    <3> QED
      BY ONLY <1>8, <3>1 DEF InOrder
  <2>7. (g.fromList => r = Paired(b, e)') /\ (~g.fromList => r = queue')
    BY <1>10, <1>12
  <2>8. Leaves(new, c)'
    BY ONLY <1>2, <1>3, <1>6, <1>10, <2>4, <2>5, <2>6, <2>7, n = e - b, new = <<g>>,
            b = c.begin, e = c.end, RadixGoesOn
  <2> QED
    BY <1>1, <1>9, <2>2, <2>8, Proceeds
<1> QED
  BY <1>11, <1>12

-----------------------------------------------------------------------------
(* The sort begins with indices that are an order of the list, or replaced.*)

LEMMA InitInv ==
  ASSUME Init
  PROVE  Inv
<1> SUFFICES ASSUME NEW n, n = Len(list) PROVE Inv
  OBVIOUS
<1>1. /\ list \in Seq(Hash) /\ n \in Nat /\ DOMAIN list = 1 .. n /\ list \in [1 .. n -> Hash]
  <2>1. list \in Seq(Hash)
    BY ListsAssumption DEF Init, Hash
  <2> HIDE DEF Hash
  <2> QED
    BY <2>1, LenProperties
<1>2. idxs \in Seq(Nat) /\ (Len(idxs) = n => ToSet(idxs) = 1 .. n)
  BY <1>1, ListsAssumption DEF Init
<1>3. named \in [1 .. n -> Hash] /\ (Len(idxs) = n =>
        /\ idxs \in [1 .. n -> 1 .. n]
        /\ \A j \in 1 .. n : \E k \in 1 .. n : idxs[k] = j
        /\ \A k \in 1 .. n : list[k] = named[idxs[k]])
  <2>1. CASE Len(idxs) # n
    BY <1>1, <2>1 DEF Init
  <2>2. CASE Len(idxs) = n
    <3>1. DOMAIN idxs = 1 .. n /\ idxs = [k \in 1 .. n |-> idxs[k]]
      BY <1>1, <1>2, <2>2, LenProperties
    <3>2. /\ \A k \in 1 .. n : idxs[k] \in 1 .. n
          /\ \A j \in 1 .. n : \E k \in 1 .. n : idxs[k] = j
      BY <1>2, <2>2, <3>1 DEF ToSet
    <3>3. idxs \in [1 .. n -> 1 .. n]
      BY <3>1, <3>2
    <3>4. \A k \in 1 .. n : \A l \in 1 .. n : idxs[k] = idxs[l] => k = l
      <4> DEFINE N == 1 .. n
      <4>1. idxs \in Surjection(N, N)
        BY <3>2, <3>3 DEF Surjection
      <4>2. IsFiniteSet(N)
        BY <1>1, FS_Interval
      <4> HIDE DEF N
      <4>3. idxs \in Injection(N, N)
        BY ONLY <4>1, <4>2, FS_SurjSameCardinalityImpliesInj
      <4> QED
        BY <3>1, <4>3 DEF Injection, IsInjective, N
    <3> DEFINE at(j) == CHOOSE k \in 1 .. n : idxs[k] = j
    <3>5. named = [j \in 1 .. n |-> list[at(j)]]
      BY <1>1, <2>2, <3>1 DEF Init
    <3>6. \A j \in 1 .. n : at(j) \in 1 .. n /\ idxs[at(j)] = j
      BY <3>2
    <3> HIDE DEF at
    <3>7. named \in [1 .. n -> Hash]
      BY <1>1, <3>5, <3>6
    <3>8. ASSUME NEW k \in 1 .. n PROVE list[k] = named[idxs[k]]
      <4>1. idxs[k] \in 1 .. n
        BY <3>2
      <4>2. at(idxs[k]) = k
        BY <3>4, <3>6, <4>1
      <4> QED
        BY <3>5, <4>1, <4>2
    <3> QED
      BY <3>2, <3>3, <3>7, <3>8
  <2> QED
    BY <2>1, <2>2
<1>4. named \in Seq(Hash) /\ count = n
  <2> HIDE DEF Hash
  <2> QED
    BY <1>1, <1>3, ListLength DEF count
<1>5. todo = <<Call("blobsort", 1, n + 1)>>
  BY DEF Init
<1>6. TypeOK
  <2>1. Call("blobsort", 1, n + 1) \in Firsts
    BY <1>1 DEF Call, Firsts
  <2>2. todo \in Seq(Frames)
    <3>1. Call("blobsort", 1, n + 1) \in Frames
      BY <2>1 DEF Frames
    <3> HIDE DEF Frames
    <3> QED
      BY <1>5, <3>1
  <2>3. T.long \in BOOLEAN /\ T.len \in Nat
    BY SizesAssumption DEF Init
  <2> QED
    BY <1>1, <1>4, <2>2, <2>3 DEF TypeOK
<1>7. Starting
  <2>1. CASE Len(idxs) = n
    BY <1>3, <1>4, <1>5, <2>1 DEF Starting, Follows
  <2>2. CASE Len(idxs) # n
    <3>1. list = named
      BY <2>2 DEF Init
    <3> QED
      BY <1>4, <1>5, <2>2, <3>1 DEF Starting
  <2> QED
    BY <2>1, <2>2
<1> QED
  BY <1>6, <1>7 DEF Inv

LEMMA StartOp ==
  ASSUME Starting
  PROVE  Head(todo).op = "blobsort"
BY DEF Starting, Call

LEMMA StutterInv ==
  ASSUME Inv, UNCHANGED vars
  PROVE  Inv'
<1>1. /\ named' = named /\ T' = T /\ list' = list /\ idxs' = idxs /\ queue' = queue
      /\ todo' = todo /\ count' = count
  BY DEF vars, count
<1>2. TypeOK'
  BY <1>1 DEF Inv, TypeOK
<1>3. CASE Starting
  <2>1. Starting'
    BY <1>1, <1>3 DEF Starting, Follows
  <2> QED
    BY <1>2, <2>1 DEF Inv
<1>4. CASE Follows /\ StackOK /\ GapsOK
  <2>1. ASSUME NEW c, CallOK(c) PROVE CallOK(c)'
    <3>1. Apart(c.begin, c.end)'
      BY <1>1, <2>1 DEF CallOK, Apart
    <3>2. SmallOK(c) => SmallOK(c)'
      BY DEF SmallOK
    <3>3. InsertionOK(c) => InsertionOK(c)'
      BY <1>1 DEF InsertionOK
    <3>4. FlagOK(c) => FlagOK(c)'
      BY <1>1 DEF FlagOK, Alike
    <3>5. RadixOK(c) => RadixOK(c)'
      <4> SUFFICES ASSUME RadixOK(c), NEW b, b = c.begin, NEW e, e = c.end, NEW n, n = e - b,
                          NEW s, s = IF c.fromList THEN Paired(b, e) ELSE queue
                   PROVE  RadixOK(c)'
        OBVIOUS
      <4>1. HasHashes(s, b, e, n) /\ InOrder(s, n, c.pass)
        BY DEF RadixOK
      <4>2. HasHashes(s, b, e, n)'
        BY ONLY <1>1, <4>1, HashesStay
      <4>3. InOrder(s, n, c.pass)'
        BY <4>1 DEF InOrder
      <4>4. s = (IF c.fromList THEN Paired(b, e) ELSE queue)'
        BY <1>1 DEF Paired
      <4> QED
        BY <1>1, <4>2, <4>3, <4>4 DEF RadixOK
    <3>6. PermuteOK(c) => PermuteOK(c)'
      BY <1>1 DEF PermuteOK, Alike, Freqs, Filledto
    <3>7. LoopOK(c) => LoopOK(c)'
      BY <1>1 DEF LoopOK, Alike
    <3> QED
      BY <1>1, <2>1, <3>1, <3>2, <3>3, <3>4, <3>5, <3>6, <3>7 DEF CallOK
  <2>2. ASSUME NEW c, LoopOK(c) PROVE LoopOK(c)'
    BY <1>1, <2>2 DEF LoopOK, Alike
  <2>3. StackOK'
    BY <1>1, <1>4, <2>1, <2>2 DEF StackOK
  <2>4. Follows' /\ GapsOK'
    BY <1>1, <1>4 DEF Follows, GapsOK
  <2> QED
    BY <1>2, <2>3, <2>4 DEF Inv
<1> QED
  BY <1>3, <1>4 DEF Inv

LEMMA NextInv ==
  ASSUME Inv, [Next]_vars
  PROVE  Inv'
<1>1. CASE UNCHANGED vars
  BY <1>1, StutterInv
<1>2. CASE Next /\ Starting
  <2>1. blobsort
    BY <1>2, StartOp DEF Next, smallsort, insertionsort, radixsort, flagsort, permute, sortblocks
  <2> QED
    BY <1>2, <2>1, BlobsortInv DEF Inv
<1>3. CASE Next /\ Follows /\ StackOK /\ GapsOK
  <2>1. TypeOK
    BY DEF Inv
  <2>2. ~blobsort
    <3> SUFFICES ASSUME blobsort, NEW c, c = Head(todo) PROVE FALSE
      OBVIOUS
    <3>1. todo # <<>> /\ c.op = "blobsort"
      BY DEF blobsort
    <3> QED
      BY <1>3, <2>1, <3>1, Running
  <2> QED
    BY <1>3, <2>1, <2>2, SmallsortInv, InsertionsortInv, RadixsortInv, FlagsortInv, PermuteInv,
       SortblocksInv DEF Next
<1> QED
  BY <1>1, <1>2, <1>3 DEF Inv

(***************************************************************************)
(* Whatever is sorted, at every step the hashes of the list and their      *)
(* indices have only been moved together, each waiting call is about a part*)
(* of the list that nothing outside is in the way of, its local variables  *)
(* are right for it, and all that is out of order is in such a part.       *)
(***************************************************************************)
THEOREM Invariance == Spec => []Inv
<1>1. Init => Inv
  BY InitInv
<1>2. Inv /\ [Next]_vars => Inv'
  BY NextInv
<1> QED
  BY <1>1, <1>2, PTL DEF Spec

-----------------------------------------------------------------------------
(* What the invariant is for.                                              *)

LEMMA Started ==
  ASSUME Inv, ~Calls("blobsort")
  PROVE  TypeOK /\ Follows /\ StackOK /\ GapsOK
<1>1. ~Starting
  <2>1. Starting => todo # <<>>
    BY DEF Starting
  <2> QED
    BY <2>1, StartOp DEF Calls
<1> QED
  BY <1>1 DEF Inv

LEMMA WholeSet ==
  ASSUME NEW n, NEW x \in [1 .. n -> 1 .. n], \A j \in 1 .. n : \E k \in 1 .. n : x[k] = j
  PROVE  ToSet(x) = 1 .. n
<1> DEFINE N == 1 .. n
<1>1. x \in [N -> N] /\ \A j \in N : \E k \in N : x[k] = j
  OBVIOUS
<1> HIDE DEF N
<1>2. ToSet(x) = N
  BY <1>1 DEF ToSet
<1> QED
  BY <1>2 DEF N

LEMMA FollowsAlways ==
  ASSUME Inv
  PROVE  IndicesFollow
<1> DEFINE c == Head(todo)
           inQueue == Calls("radixsort") /\ ~c.fromList
           l == IF inQueue THEN Overwritten(list, c.begin, Hashes(queue)) ELSE list
           x == IF inQueue THEN Overwritten(idxs, c.begin, Indices(queue)) ELSE idxs
<1> SUFFICES ASSUME ~Calls("blobsort")
             PROVE  ToSet(x) = DOMAIN named /\ \A k \in DOMAIN l : l[k] = named[x[k]]
  BY DEF IndicesFollow
<1>1. TypeOK /\ Follows /\ StackOK
  BY Started
<1>2. DOMAIN named = 1 .. count
  <2> HIDE DEF Hash
  <2> QED
    BY <1>1, LenProperties DEF TypeOK, count
<1>3. CASE ~inQueue
  <2>1. l = list /\ x = idxs
    BY <1>3
  <2> HIDE DEF l, x
  <2>2. ToSet(x) = 1 .. count
    BY <1>1, <2>1, WholeSet DEF Follows
  <2>3. DOMAIN l = 1 .. count
    BY <1>1, <2>1 DEF TypeOK
  <2> QED
    BY <1>1, <1>2, <2>1, <2>2, <2>3 DEF Follows
<1>4. CASE inQueue
  <2>1. todo # <<>> /\ c.op = "radixsort" /\ ~c.fromList
    BY <1>4 DEF Calls
  <2>2. /\ l = Overwritten(list, c.begin, Hashes(queue))
        /\ x = Overwritten(idxs, c.begin, Indices(queue))
    BY <1>4
  <2> HIDE DEF c, inQueue, l, x
  <2> SUFFICES ASSUME NEW b, b = c.begin, NEW e, e = c.end, NEW n, n = e - b
               PROVE  ToSet(x) = DOMAIN named /\ \A k \in DOMAIN l : l[k] = named[x[k]]
    OBVIOUS
  <2>3. /\ RadixOK(c) /\ b \in Nat /\ e \in Nat /\ b > 0 /\ e <= count + 1
    <3>1. RadixOK(c) /\ CallOK(c) /\ b \in Nat /\ e \in Nat
      BY <1>1, <2>1, Running DEF c
    <3> QED
      BY <3>1 DEF CallOK
  <2>4. b < e /\ n \in Nat /\ n <= e - b /\ e - b <= n /\ HasHashes(queue, b, e, n)
    <3>1. b < e /\ HasHashes(queue, b, e, n)
      BY <2>1, <2>3 DEF RadixOK
    <3> QED
      BY <2>3, <3>1
  <2>5. PICK p : Order(p, b, e) /\ queue = Area(p, b, n)
    BY <2>4 DEF HasHashes
  <2>6. l = [k \in 1 .. count |-> list[p[k]]] /\ x = [k \in 1 .. count |-> idxs[p[k]]]
    <3>1. l = Overwritten(list, b, Hashes(queue)) /\ x = Overwritten(idxs, b, Indices(queue))
      BY <2>2
    <3> QED
      BY ONLY <1>1, <2>3, <2>4, <2>5, <3>1, AreaCopied
  <2>7. /\ p \in [1 .. count -> 1 .. count]
        /\ \A j \in 1 .. count : \E k \in 1 .. count : p[k] = j
    BY <2>5 DEF Order
  <2>8. ASSUME NEW j \in 1 .. count PROVE \E k \in 1 .. count : x[k] = j
    <3>1. PICK i \in 1 .. count : idxs[i] = j
      BY <1>1 DEF Follows
    <3>2. PICK k \in 1 .. count : p[k] = i
      BY <2>7
    <3> QED
      BY <2>6, <3>1, <3>2
  <2>9. ASSUME NEW k \in 1 .. count PROVE x[k] \in 1 .. count /\ l[k] = named[x[k]]
    <3> SUFFICES ASSUME NEW i, i = p[k]
                 PROVE  x[k] \in 1 .. count /\ l[k] = named[x[k]]
      OBVIOUS
    <3>1. i \in 1 .. count /\ l[k] = list[i] /\ x[k] = idxs[i]
      BY <2>6, <2>7
    <3>2. idxs[i] \in 1 .. count /\ list[i] = named[idxs[i]]
      BY <1>1, <3>1 DEF Follows
    <3> QED
      BY <3>1, <3>2
  <2>10. ToSet(x) = 1 .. count
    <3>1. x \in [1 .. count -> 1 .. count]
      BY <2>6, <2>9
    <3> QED
      BY <2>8, <3>1, WholeSet
  <2>11. DOMAIN l = 1 .. count
    BY <2>6
  <2> QED
    BY <1>2, <2>9, <2>10, <2>11
<1> QED
  BY <1>3, <1>4

(***************************************************************************)
(* Whatever is sorted, no move of blobsort() separates a hash from its     *)
(* index or loses an index, in the list or in the area of the radix sort.  *)
(***************************************************************************)
THEOREM Following == Spec => []IndicesFollow
<1>1. Inv => IndicesFollow
  BY FollowsAlways
<1> QED
  BY <1>1, Invariance, PTL

LEMMA SentinelAlways ==
  ASSUME Inv
  PROVE  SentinelBefore
<1> SUFFICES ASSUME NEW c, c = Head(todo), Calls("insertionsort"), c.unguarded
             PROVE  c.begin > 1 /\ \A k \in c.begin .. c.end - 1 : list[c.begin - 1] <= list[k]
  BY DEF SentinelBefore
<1>1. todo # <<>> /\ c.op = "insertionsort"
  BY DEF Calls
<1>2. TypeOK /\ StackOK
  <2>1. ~Calls("blobsort")
    BY <1>1 DEF Calls
  <2> QED
    BY <2>1, Started
<1> SUFFICES ASSUME NEW b, b = c.begin, NEW e, e = c.end
             PROVE  b > 1 /\ \A k \in b .. e - 1 : list[b - 1] <= list[k]
  OBVIOUS
<1>3. b > 1 /\ b \in Nat /\ Apart(b, e)
  <2>1. InsertionOK(c) /\ CallOK(c) /\ b \in Nat
    BY <1>1, <1>2, Running
  <2> QED
    BY <2>1 DEF InsertionOK, CallOK
<1>4. b - 1 \in 1 .. b - 1
  BY <1>3
<1> QED
  BY <1>3, <1>4 DEF Apart, Span

(***************************************************************************)
(* Whenever insertionsort() scans down without looking for the beginning,  *)
(* there is a hash before it at which every scan stops.                    *)
(***************************************************************************)
THEOREM Sentinel == Spec => []SentinelBefore
<1>1. Inv => SentinelBefore
  BY SentinelAlways
<1> QED
  BY <1>1, Invariance, PTL

LEMMA BlocksFillAlways ==
  ASSUME Inv
  PROVE  BlocksFill
<1> SUFFICES ASSUME NEW c, c = Head(todo), Calls("permute"), NEW v \in Digits, NEW b, b = c.begin,
                    NEW s, s = BlockStart(b, c.freqs, v), NEW t, t = BlockStart(b, c.freqs, v + 1),
                    NEW y, y = IF v < c.curblock THEN t
                               ELSE IF v = c.curblock THEN c.ptr ELSE c.block_ptrs[v]
             PROVE  y \in s .. t /\ \A k \in s .. y - 1 : Digit(list[k], c.digit) = v
  BY DEF BlocksFill
<1>1. todo # <<>> /\ c.op = "permute"
  BY DEF Calls
<1>2. TypeOK /\ StackOK
  <2>1. ~Calls("blobsort")
    BY <1>1 DEF Calls
  <2> QED
    BY <1>1, <2>1, Started
<1>3. PermuteOK(c) /\ b \in Nat
  BY <1>1, <1>2, Running
<1>4. /\ s = b + Before(c.freqs, v) /\ t = b + Before(c.freqs, v + 1)
      /\ s \in Nat /\ t \in Nat
  <2>1. c.freqs \in [Digits -> Nat]
    BY <1>3 DEF PermuteOK, Permutes
  <2>2. v \in 0 .. RADIX_SIZE /\ v + 1 \in 0 .. RADIX_SIZE
    BY Sizes DEF Digits
  <2> QED
    BY <1>3, <2>1, <2>2, Befores
<1>5. y = Filledto(c, v)
  BY <1>4 DEF Filledto
<1>6. y >= s /\ y <= t /\ \A k \in Span(s, y) : Digit(list[k], c.digit) = v
  BY <1>3, <1>4, <1>5 DEF PermuteOK
<1>7. y \in Nat
  <2>1. c.ptr \in Nat /\ c.block_ptrs[v] \in Nat
    BY <1>3 DEF PermuteOK, Permutes
  <2> QED
    BY <1>4, <2>1
<1> QED
  BY <1>4, <1>6, <1>7 DEF Span

(***************************************************************************)
(* While flagsort() moves hashes, no block overflows into the next or past *)
(* the end, and what a pointer has passed belongs where it is.             *)
(***************************************************************************)
THEOREM Filling == Spec => []BlocksFill
<1>1. Inv => BlocksFill
  BY BlocksFillAlways
<1> QED
  BY <1>1, Invariance, PTL

LEMMA OrderedAlways ==
  ASSUME Inv
  PROVE  BlocksOrdered
<1>1. Len(list) = count /\ count \in Nat
  <2>1. count \in Nat /\ list \in [1 .. count -> Hash]
    BY Hashing DEF Inv, TypeOK
  <2> QED
    BY <2>1, ListLength
<1>2. CASE Starting
  <2> SUFFICES ASSUME NEW m, m = count + 1 PROVE BlocksOrdered
    OBVIOUS
  <2>1. todo # <<>> /\ DOMAIN todo = {1} /\ todo[1].begin = 1 /\ todo[1].end = m
    BY <1>2 DEF Starting, Call
  <2> QED
    BY <1>1, <2>1 DEF BlocksOrdered
<1>3. CASE Follows /\ StackOK /\ GapsOK
  <2>1. DOMAIN todo = 1 .. Len(todo)
    <3> HIDE DEF Frames
    <3> QED
      BY LenProperties DEF Inv, TypeOK
  <2>2. \A n \in DOMAIN todo : Apart(todo[n].begin, todo[n].end)
    BY <1>3, <2>1 DEF StackOK, CallOK
  <2>3. todo = <<>> => \A k \in 1 .. count - 1 : list[k] <= list[k + 1]
    <3> SUFFICES ASSUME todo = <<>>, NEW k \in 1 .. count - 1 PROVE list[k] <= list[k + 1]
      OBVIOUS
    <3>1. \A n \in 1 .. Len(todo) : FALSE
      OBVIOUS
    <3> QED
      BY <1>3, <3>1 DEF GapsOK
  <2> QED
    BY <1>1, <2>2, <2>3 DEF BlocksOrdered, Apart, Span
<1> QED
  BY <1>2, <1>3 DEF Inv

(***************************************************************************)
(* Before each call the list is in order as far as what it is to sort goes,*)
(* and once no call is left, all of the list is sorted.                    *)
(***************************************************************************)
THEOREM Sorting == Spec => []BlocksOrdered
<1>1. Inv => BlocksOrdered
  BY OrderedAlways
<1> QED
  BY <1>1, Invariance, PTL

=============================================================================
