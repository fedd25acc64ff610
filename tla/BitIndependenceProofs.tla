------------------------ MODULE BitIndependenceProofs ------------------------
(***************************************************************************)
(* For every number of threads, inputs and bits, every width of the words  *)
(* and every hash function: the threads of BitIndependence never touch a   *)
(* counter outside their vectors, what the report reads is what was        *)
(* flipped, and the pair it names is the worst.                            *)
(***************************************************************************)
EXTENDS BitIndependence, Modular, FiniteSetTheorems, TLAPS

-----------------------------------------------------------------------------
(* The layout of the vectors.                                              *)

LEMMA Shapes ==
  /\ g_NCPU \in Nat /\ g_NCPU > 0 /\ reps \in Nat /\ keybits \in Nat /\ keybits > 0
  /\ hashbits \in Nat /\ hashbits > 0 /\ wordbits \in Nat /\ wordbits > 0
  /\ 0 \in Threads
BY CountsAssumption DEF Threads

(* Words of an even number of bits make hashes of an even number of bits,  *)
(* so that a keybit has hashbits^2 / 2 counters: room for its pairs.       *)
LEMMA EvenHash ==
  /\ hashbitpairs \in Nat
  /\ 2 * hashbitpairs = hashbits * hashbits
<1> DEFINE v == wordbits \div 2
           q == hashbits \div wordbits
           m == hashbits \div 2
<1>1. wordbits = 2 * v /\ v \in Int
  BY Shapes, CountsAssumption, DivMod, 2 \in Nat
<1>2. hashbits = wordbits * q /\ q \in Int
  BY Shapes, CountsAssumption, DivMod
<1>3. hashbits = 2 * (v * q)
  BY <1>1, <1>2
<1>4. hashbits = 2 * m + (hashbits % 2) /\ hashbits % 2 \in 0 .. 1 /\ m \in Nat
  BY Shapes, DivMod, DivNat, 2 \in Nat
<1>5. v * q \in Int
  BY <1>1, <1>2
<1>6. hashbits = 2 * m
  BY <1>3, <1>4, <1>5
<1>7. hashbitpairs = m * hashbits
  BY DEF hashbitpairs
<1>8. 2 * (m * hashbits) = (2 * m) * hashbits /\ m * hashbits \in Nat
  BY <1>4, Shapes
<1> QED
  BY <1>6, <1>7, <1>8

(* The counters of the rows before the row of out1: each lower bit has its *)
(* pairs with the bits above it, whether they are counted or skipped.      *)
RowStart(out1) == out1 * (hashbits-1) - ((out1 * (out1 - 1)) \div 2)

(* The product of two neighbours is even.                                  *)
LEMMA TwiceRowStart ==
  ASSUME NEW o \in Nat
  PROVE  /\ RowStart(o) \in Int
         /\ 2 * RowStart(o) = 2 * (o * (hashbits-1)) - o * (o - 1)
<1> DEFINE h == o \div 2
           e == o * (o - 1)
<1>1. o = 2 * h + (o % 2) /\ o % 2 \in 0 .. 1 /\ h \in Nat
  BY DivMod, DivNat, 2 \in Nat
<1>2. \E s \in Int : e = 2 * s
  <2>1. CASE o % 2 = 0
    <3>1. e = 2 * (h * (o - 1)) /\ h * (o - 1) \in Int
      BY <1>1, <2>1
    <3> QED
      BY <3>1
  <2>2. CASE o % 2 = 1
    <3>1. o - 1 = 2 * h
      BY <1>1, <2>2
    <3>2. e = 2 * (o * h) /\ o * h \in Int
      BY <1>1, <3>1
    <3> QED
      BY <3>2
  <2> QED
    BY <1>1, <2>1, <2>2
<1>3. e = 2 * (e \div 2) /\ e \div 2 \in Int
  BY <1>2
<1>4. o * (hashbits-1) \in Int
  BY Shapes
<1>5. RowStart(o) = o * (hashbits-1) - (e \div 2)
  BY DEF RowStart
<1> QED
  BY <1>3, <1>4, <1>5

(* A row begins at least one counter further than its lower bit says, and  *)
(* the last row ends within the counters of the keybit.                    *)
LEMMA RowInRange ==
  ASSUME NEW o \in 0 .. hashbits-2
  PROVE  /\ RowStart(o) >= o
         /\ RowStart(o) + hashbits-1 - o <= hashbitpairs
<1> DEFINE d == hashbits - 1 - o
           f == o * (hashbits - 2 - o)
           g == o * (o + 1)
<1>1. o \in Nat /\ d \in Nat /\ d >= 1 /\ hashbits = o + d + 1
  BY Shapes
<1>2. f \in Nat /\ g \in Nat
  <2>1. hashbits - 2 - o \in Nat
    BY <1>1
  <2> QED
    BY <1>1, <2>1
<1>3. 2 * (o * (hashbits-1)) - o * (o - 1) = 2 * o + 2 * f + g
  BY <1>1
<1>4. RowStart(o) >= o
  <2>1. RowStart(o) \in Int /\ 2 * RowStart(o) = 2 * o + 2 * f + g
    BY <1>1, <1>3, TwiceRowStart
  <2> HIDE DEF f, g
  <2> QED
    BY <2>1, <1>1, <1>2
<1>5. d * d >= d
  BY <1>1
<1>6. 2 * (o * (hashbits-1)) - o * (o - 1) + 2 * d = hashbits * hashbits - hashbits + d - d * d
  BY <1>1
<1>7. 2 * RowStart(o) + 2 * d <= 2 * hashbitpairs
  BY <1>1, <1>5, <1>6, TwiceRowStart, EvenHash, Shapes
<1> QED
  BY <1>1, <1>4, <1>7, TwiceRowStart, EvenHash

(* The counters of one keybit lie in a vector of keybits times as many.    *)
LEMMA BlockInRange ==
  ASSUME NEW k \in Nat, k < keybits, NEW n \in Nat
  PROVE  /\ k * n \in Nat
         /\ (k + 1) * n = (k * n) + n
         /\ (k * n) + n <= keybits * n
         /\ keybits * n \in Nat
<1>1. (keybits - (k + 1)) * n \in Nat
  <2>1. keybits - (k + 1) \in Nat
    BY Shapes
  <2> QED
    BY <2>1
<1>2. (keybits - (k + 1)) * n = (keybits * n) - ((k * n) + n)
  BY Shapes
<1> QED
  BY <1>1, <1>2, Shapes

LEMMA PopInRange ==
  ASSUME NEW k \in Nat, k < keybits
  PROVE  (k * hashbits) .. (k * hashbits) + hashbits-1 \subseteq PopCells
BY BlockInRange, Shapes DEF PopCells

LEMMA RowAfter ==
  ASSUME NEW o \in Nat
  PROVE  RowStart(o + 1) = RowStart(o) + (hashbits-1 - o)
<1> DEFINE u == o * (hashbits-1)
           w == o * (o - 1)
           v == (o + 1) * (hashbits-1)
           z == (o + 1) * ((o + 1) - 1)
           x == RowStart(o)
           y == RowStart(o + 1)
<1>1. /\ x \in Int /\ 2 * x = 2 * u - w
      /\ y \in Int /\ 2 * y = 2 * v - z
  BY TwiceRowStart
<1>2. u \in Int /\ w \in Int /\ v = u + (hashbits-1) /\ z = w + 2 * o
  BY Shapes
<1> HIDE DEF u, w, v, z, x, y
<1>3. y = x + (hashbits-1 - o)
  BY <1>1, <1>2, Shapes
<1> QED
  BY <1>3 DEF x, y

LEMMA NoRow == RowStart(0) = 0
<1>1. RowStart(0) \in Int /\ 2 * RowStart(0) = 2 * (0 * (hashbits-1)) - 0 * (0 - 1)
  BY TwiceRowStart
<1> QED
  BY <1>1, Shapes

(* Whole words from the one of startbit on end where the hash does.        *)
LEMMA CursorMoves ==
  ASSUME NEW cursor \in Int, NEW startbit \in Nat
  PROVE  CursorAfter(cursor, startbit) = cursor + hashbits - startbit
<1> DEFINE q == hashbits \div wordbits
           p == startbit \div wordbits
           bit == startbit % wordbits
<1>1. hashbits = wordbits * q /\ q \in Int
  BY Shapes, CountsAssumption, DivMod
<1>2. startbit = wordbits * p + bit /\ p \in Int /\ bit \in Int
  BY Shapes, DivMod, DivNat
<1>3. CursorAfter(cursor, startbit) = cursor - bit + wordbits * (q - p)
  BY DEF CursorAfter
<1> HIDE DEF q, p, bit
<1>4. wordbits * (q - p) = wordbits * q - wordbits * p /\ wordbits * q \in Int /\ wordbits * p \in Int
  BY <1>1, <1>2, Shapes
<1> QED
  BY <1>1, <1>2, <1>3, <1>4, Shapes

(* Counted or skipped, each row moves the cursor on by its length.         *)
LEMMA CursorAt ==
  ASSUME NEW h2 \in SUBSET HashBits, NEW k \in Nat, k < keybits, NEW o \in HashBits
  PROVE  AndCursor(h2, k)[o] = FirstPair(k) + RowStart(o)
<1> DEFINE Step(f, n) ==
             IF n = 0 THEN FirstPair(k)
             ELSE IF n - 1 \in h2 THEN CursorAfter(f[n - 1], n)
             ELSE f[n - 1] + hashbits - 1 - (n - 1)
           P(f) == f = [n \in HashBits |-> Step(f, n)]
           f0 == [n \in HashBits |-> FirstPair(k) + RowStart(n)]
<1>1. FirstPair(k) \in Int
  BY EvenHash, BlockInRange DEF FirstPair
<1>2. \A n \in HashBits : n # 0 => n \in Nat /\ n - 1 \in Nat /\ n - 1 \in HashBits
  BY Shapes DEF HashBits
<1>3. ASSUME NEW f, NEW n \in HashBits, n # 0, f[n - 1] = FirstPair(k) + RowStart(n - 1)
      PROVE  Step(f, n) = FirstPair(k) + RowStart(n)
  <2>1. n \in Nat /\ n - 1 \in Nat /\ (n - 1) + 1 = n
    BY <1>2, <1>3
  <2>2. RowStart(n) = RowStart(n - 1) + (hashbits-1 - (n - 1)) /\ RowStart(n - 1) \in Int
    BY <2>1, RowAfter, TwiceRowStart
  <2>3. f[n - 1] \in Int
    BY <1>1, <1>3, <2>2
  <2>4. CursorAfter(f[n - 1], n) = f[n - 1] + hashbits - n
    BY <2>1, <2>3, CursorMoves
  <2> QED
    BY <1>1, <1>3, <2>1, <2>2, <2>4, Shapes
<1>4. P(f0)
  <2>1. ASSUME NEW n \in HashBits PROVE f0[n] = Step(f0, n)
    <3>1. CASE n = 0
      BY <1>1, <3>1, NoRow
    <3>2. CASE n # 0
      <4>1. f0[n - 1] = FirstPair(k) + RowStart(n - 1)
        BY <1>2, <3>2
      <4> HIDE DEF Step
      <4>2. Step(f0, n) = FirstPair(k) + RowStart(n)
        BY <1>3, <3>2, <4>1
      <4> QED
        BY <4>2
    <3> QED
      BY <3>1, <3>2
  <2> HIDE DEF Step
  <2> QED
    BY <2>1
<1> DEFINE at == CHOOSE f : P(f)
<1>5. AndCursor(h2, k) = at
  BY DEF AndCursor
<1>6. P(at)
  <2> HIDE DEF P, f0
  <2> QED
    BY <1>4
<1>7. \A n \in HashBits : at[n] = Step(at, n)
  <2> HIDE DEF Step, at
  <2> QED
    BY <1>6
<1> HIDE DEF at
<1> DEFINE S == {n \in Nat : n \in HashBits => at[n] = FirstPair(k) + RowStart(n)}
<1>8. 0 \in S
  BY <1>1, <1>7, NoRow
<1>9. ASSUME NEW n \in S PROVE n + 1 \in S
  <2> SUFFICES ASSUME n + 1 \in HashBits PROVE at[n + 1] = FirstPair(k) + RowStart(n + 1)
    OBVIOUS
  <2>1. n + 1 # 0 /\ (n + 1) - 1 = n /\ n \in HashBits
    BY <1>2
  <2>2. at[(n + 1) - 1] = FirstPair(k) + RowStart((n + 1) - 1)
    BY <2>1
  <2> HIDE DEF Step
  <2>3. Step(at, n + 1) = FirstPair(k) + RowStart(n + 1)
    BY <1>3, <2>1, <2>2
  <2> QED
    BY <1>7, <2>3
<1>10. S = Nat
  <2>1. S \in SUBSET Nat
    OBVIOUS
  <2> HIDE DEF S
  <2> QED
    BY <1>8, <1>9, <2>1, AllNaturals
<1>11. o \in Nat
  BY Shapes DEF HashBits
<1> QED
  BY <1>5, <1>10, <1>11

(* So the counters of each pair are where their row starts.                *)
LEMMA RowsCounted ==
  ASSUME NEW h2 \in SUBSET HashBits, NEW k \in Nat, k < keybits, NEW counts
  PROVE  LET rows == {out1 \in 0 .. hashbits-2 : out1 \in h2}
         IN  CountPairs(h2, counts, k)
               = AddBits(counts,
                   UNION {CellsFromBit(FirstPair(k) + RowStart(out1), out1 + 1) : out1 \in rows},
                   UNION {OnesFromBit(h2, FirstPair(k) + RowStart(out1), out1 + 1) : out1 \in rows})
<1> DEFINE rows == {out1 \in 0 .. hashbits-2 : out1 \in h2}
           cursor == AndCursor(h2, k)
<1>1. \A out1 \in rows : cursor[out1] = FirstPair(k) + RowStart(out1)
  BY CursorAt
<1>2. CountPairs(h2, counts, k)
        = AddBits(counts, UNION {CellsFromBit(cursor[out1], out1 + 1) : out1 \in rows},
                  UNION {OnesFromBit(h2, cursor[out1], out1 + 1) : out1 \in rows})
  BY DEF CountPairs
<1> HIDE DEF rows, cursor
<1>3. /\ {CellsFromBit(cursor[out1], out1 + 1) : out1 \in rows}
           = {CellsFromBit(FirstPair(k) + RowStart(out1), out1 + 1) : out1 \in rows}
      /\ {OnesFromBit(h2, cursor[out1], out1 + 1) : out1 \in rows}
           = {OnesFromBit(h2, FirstPair(k) + RowStart(out1), out1 + 1) : out1 \in rows}
  BY <1>1
<1> QED
  BY <1>2, <1>3 DEF rows

LEMMA AndInRange ==
  ASSUME NEW k \in Nat, k < keybits, NEW o \in 0 .. hashbits-2
  PROVE  CellsFromBit(FirstPair(k) + RowStart(o), o + 1) \subseteq AndCells
<1> DEFINE base == k * hashbitpairs
           bit == (o + 1) % wordbits
<1>1. o \in Nat /\ o + 1 \in Nat
  BY Shapes
<1>2. bit \in Nat /\ bit <= o + 1
  <2>1. o + 1 = wordbits * ((o + 1) \div wordbits) + bit /\ bit \in 0 .. wordbits-1
    BY <1>1, DivMod, Shapes
  <2>2. (o + 1) \div wordbits \in Nat
    BY <1>1, DivNat, Shapes
  <2>3. wordbits * ((o + 1) \div wordbits) \in Nat
    BY <2>2, Shapes
  <2> QED
    BY <2>1, <2>3, <1>1, Shapes
<1>3. /\ base \in Nat /\ base + hashbitpairs <= keybits * hashbitpairs
      /\ keybits * hashbitpairs \in Nat
  BY BlockInRange, EvenHash
<1>4. RowStart(o) \in Int /\ RowStart(o) >= o /\ RowStart(o) + hashbits-1 - o <= hashbitpairs
  BY <1>1, RowInRange, TwiceRowStart
<1>5. CellsFromBit(FirstPair(k) + RowStart(o), o + 1)
        = (base + 1 + RowStart(o)) - bit .. (base + 1 + RowStart(o)) + hashbits-1 - (o + 1)
  <2> DEFINE c == base + 1 + RowStart(o)
  <2>1. FirstPair(k) + RowStart(o) = c /\ c \in Int
    BY <1>3, <1>4 DEF FirstPair
  <2>2. CellsFromBit(c, o + 1) = c - bit .. CursorAfter(c, o + 1) - 1
    BY DEF CellsFromBit
  <2> HIDE DEF c
  <2>3. CursorAfter(c, o + 1) = c + hashbits - (o + 1)
    BY <1>1, <2>1, CursorMoves
  <2>4. CursorAfter(c, o + 1) - 1 = c + hashbits-1 - (o + 1)
    BY <1>1, <2>1, <2>3, Shapes
  <2>5. CellsFromBit(c, o + 1) = c - bit .. c + hashbits-1 - (o + 1)
    BY <2>2, <2>4
  <2> QED
    BY <2>1, <2>5 DEF c
<1>6. base + 1 + RowStart(o) - bit >= 0
  BY <1>1, <1>2, <1>3, <1>4
<1>7. (base + 1 + RowStart(o)) + hashbits-1 - (o + 1) <= keybits * hashbitpairs
  BY <1>1, <1>3, <1>4, EvenHash, Shapes
<1> QED
  BY <1>1, <1>2, <1>3, <1>4, <1>5, <1>6, <1>7, EvenHash, Shapes DEF AndCells

(* Adding to counters of a vector leaves its length.                       *)
LEMMA AddBitsInside ==
  ASSUME NEW D, NEW counts \in [D -> Nat], NEW cells \in SUBSET D, NEW ones
  PROVE  AddBits(counts, cells, ones) \in [D -> Nat]
BY DEF AddBits

LEMMA PairsInside ==
  ASSUME NEW h2 \in SUBSET HashBits, NEW k \in Nat, k < keybits,
         NEW counts \in [AndCells -> Nat]
  PROVE  CountPairs(h2, counts, k) \in [AndCells -> Nat]
<1> DEFINE rows == {out1 \in 0 .. hashbits-2 : out1 \in h2}
           cells == UNION {CellsFromBit(FirstPair(k) + RowStart(out1), out1 + 1) : out1 \in rows}
           ones == UNION {OnesFromBit(h2, FirstPair(k) + RowStart(out1), out1 + 1) : out1 \in rows}
<1>1. cells \subseteq AndCells
  BY AndInRange
<1>2. CountPairs(h2, counts, k) = AddBits(counts, cells, ones)
  BY RowsCounted
<1> HIDE DEF cells, ones
<1> QED
  BY <1>1, <1>2, AddBitsInside

-----------------------------------------------------------------------------
(* The inductive invariant: while a thread has bits left to flip, its      *)
(* cursor is at the counters of that bit.                                  *)
Types ==
  /\ irepp \in Nat
  /\ pc \in [Threads -> {"unborn", "claim", "flip", "done"}]
  /\ irep \in [Threads -> Nat]
  /\ keybit \in [Threads -> Nat]
  /\ pop_cursor \in [Threads -> Nat]
  /\ popcounts \in [Threads -> [PopCells -> Nat]]
  /\ andcounts \in [Threads -> [AndCells -> Nat]]
  /\ main \in {"spawn", "join", "merge", "report", "done"}
  /\ i \in Nat
  /\ main \in {"spawn", "join", "merge"} => i \in Threads

Flipping ==
  \A t \in Threads : pc[t] = "flip" =>
    /\ irep[t] < reps
    /\ keybit[t] < keybits
    /\ pop_cursor[t] = keybit[t] * hashbits

Inv == Types /\ Flipping

-----------------------------------------------------------------------------
LEMMA InvInit == Init => Inv
BY Shapes DEF Init, Inv, Types, Flipping, PopCells, AndCells

LEMMA ClaimStep ==
  ASSUME Inv, NEW t \in Threads, Claim(t)
  PROVE  Inv'
<1>1. Types'
  BY DEF Inv, Types, Claim
<1>2. Flipping'
  <2> SUFFICES ASSUME NEW u \in Threads, pc'[u] = "flip"
               PROVE  /\ irep'[u] < reps
                      /\ keybit'[u] < keybits
                      /\ pop_cursor'[u] = keybit'[u] * hashbits
    BY DEF Flipping
  <2>1. CASE u = t
    <3>1. irep'[u] = irepp /\ irepp < reps /\ keybit'[u] = 0 /\ pop_cursor'[u] = 0
      BY <2>1 DEF Inv, Types, Claim
    <3> QED
      BY <3>1, Shapes
  <2>2. CASE u # t
    BY <2>2 DEF Inv, Types, Flipping, Claim
  <2> QED
    BY <2>1, <2>2
<1> QED
  BY <1>1, <1>2 DEF Inv

LEMMA LeaveStep ==
  ASSUME Inv, NEW t \in Threads, Leave(t)
  PROVE  Inv'
BY DEF Inv, Types, Flipping, Leave

(* The one step that writes: it starts at the counters of its keybit in    *)
(* both vectors, and leaves the cursor at those of the next.               *)
LEMMA FlipStep ==
  ASSUME Inv, NEW t \in Threads, Flip(t)
  PROVE  Inv'
<1> DEFINE k == keybit[t]
           h2 == changed[irep[t]][k]
<1>1. /\ pc[t] = "flip" /\ irep[t] \in Nat /\ irep[t] < reps
      /\ k \in Nat /\ k < keybits /\ pop_cursor[t] = k * hashbits
  BY DEF Inv, Types, Flipping, Flip
<1>2. h2 \in SUBSET HashBits
  BY <1>1, ChangedAssumption, Shapes DEF HashBits
<1>3. HistogramHashBits(h2, popcounts[t], pop_cursor[t]) \in [PopCells -> Nat]
  <2>1. popcounts[t] \in [PopCells -> Nat]
    BY DEF Inv, Types
  <2>2. pop_cursor[t] .. pop_cursor[t]+hashbits-1 \subseteq PopCells
    BY <1>1, PopInRange
  <2> QED
    BY <2>1, <2>2, AddBitsInside DEF HistogramHashBits
<1>4. CountPairs(h2, andcounts[t], k) \in [AndCells -> Nat]
  <2>1. andcounts[t] \in [AndCells -> Nat]
    BY DEF Inv, Types
  <2> QED
    BY <1>1, <1>2, <2>1, PairsInside
<1>5. k * hashbits \in Nat /\ (k + 1) * hashbits = (k * hashbits) + hashbits
  BY <1>1, BlockInRange, Shapes
<1>6. Types'
  <2>1. popcounts' \in [Threads -> [PopCells -> Nat]]
    BY <1>3 DEF Inv, Types, Flip
  <2>2. andcounts' \in [Threads -> [AndCells -> Nat]]
    BY <1>4 DEF Inv, Types, Flip
  <2>3. pop_cursor' \in [Threads -> Nat]
    BY <1>1, <1>5, Shapes DEF Inv, Types, Flip
  <2>4. /\ pc' \in [Threads -> {"unborn", "claim", "flip", "done"}]
        /\ keybit' \in [Threads -> Nat]
        /\ UNCHANGED <<irepp, irep, main, i>>
    BY <1>1 DEF Inv, Types, Flip
  <2> QED
    BY <2>1, <2>2, <2>3, <2>4 DEF Inv, Types
<1>7. Flipping'
  <2> SUFFICES ASSUME NEW u \in Threads, pc'[u] = "flip"
               PROVE  /\ irep'[u] < reps
                      /\ keybit'[u] < keybits
                      /\ pop_cursor'[u] = keybit'[u] * hashbits
    BY DEF Flipping
  <2>1. CASE u = t
    <3>1. /\ irep'[u] = irep[t] /\ keybit'[u] = k + 1 /\ k + 1 < keybits
          /\ pop_cursor'[u] = pop_cursor[t] + hashbits
      BY <2>1 DEF Inv, Types, Flip
    <3> QED
      BY <3>1, <1>1, <1>5
  <2>2. CASE u # t
    BY <2>2 DEF Inv, Types, Flipping, Flip
  <2> QED
    BY <2>1, <2>2
<1> QED
  BY <1>6, <1>7 DEF Inv

LEMMA MainStep ==
  ASSUME Inv, BicTestImpl
  PROVE  Inv'
<1>1. CASE Spawn
  <2>1. /\ main' \in {"spawn", "join"} /\ i' \in Threads /\ i' \in Nat
        /\ i \in Threads
    BY <1>1, Shapes DEF Inv, Types, Spawn, Loop, Threads
  <2>2. /\ pc' = [pc EXCEPT ![i] = "claim"]
        /\ UNCHANGED <<irepp, irep, keybit, pop_cursor, popcounts, andcounts>>
    BY <1>1 DEF Spawn
  <2>3. Types'
    BY <2>1, <2>2 DEF Inv, Types
  <2>4. Flipping'
    BY <2>1, <2>2 DEF Inv, Types, Flipping
  <2> QED
    BY <2>3, <2>4 DEF Inv
<1>2. CASE Join
  <2>1. /\ main' \in {"join", "merge", "report"} /\ i' \in Nat
        /\ main' # "report" => i' \in Threads
    BY <1>2, Shapes, SMTT(30) DEF Inv, Types, Join, Loop, Threads
  <2>2. UNCHANGED <<irepp, pc, irep, keybit, pop_cursor, popcounts, andcounts>>
    BY <1>2 DEF Join, thread
  <2> QED
    BY <2>1, <2>2 DEF Inv, Types, Flipping
<1>3. CASE Merge
  <2>1. i \in Threads /\ 0 \in Threads
    BY <1>3, Shapes DEF Inv, Types, Merge, Loop
  <2>2. /\ popcounts[0] \in [PopCells -> Nat] /\ popcounts[i] \in [PopCells -> Nat]
        /\ andcounts[0] \in [AndCells -> Nat] /\ andcounts[i] \in [AndCells -> Nat]
    BY <2>1 DEF Inv, Types
  <2>3. [x \in DOMAIN popcounts[0] |-> popcounts[0][x] + popcounts[i][x]] \in [PopCells -> Nat]
    BY <2>2
  <2>4. [x \in DOMAIN andcounts[0] |->
          IF x = 0 THEN andcounts[0][x] ELSE andcounts[0][x] + andcounts[i][x]]
          \in [AndCells -> Nat]
    BY <2>2
  <2>5. popcounts' \in [Threads -> [PopCells -> Nat]]
    BY <1>3, <2>1, <2>3 DEF Inv, Types, Merge
  <2>6. andcounts' \in [Threads -> [AndCells -> Nat]]
    BY <1>3, <2>1, <2>4 DEF Inv, Types, Merge
  <2>7. /\ main' \in {"merge", "report"} /\ i' \in Nat
        /\ main' = "merge" => i' \in Threads
    BY <1>3, <2>1, Shapes DEF Inv, Types, Merge, Loop, Threads
  <2> QED
    BY <1>3, <2>5, <2>6, <2>7 DEF Inv, Types, Flipping, Merge
<1>4. CASE ReportChiSqIndep
  BY <1>4 DEF Inv, Types, Flipping, ReportChiSqIndep, thread
<1> QED
  BY <1>1, <1>2, <1>3, <1>4 DEF BicTestImpl

LEMMA InvStep == Inv /\ [Next]_vars => Inv'
<1> SUFFICES ASSUME Inv, [Next]_vars
             PROVE  Inv'
  OBVIOUS
<1>1. CASE UNCHANGED vars
  BY <1>1 DEF Inv, Types, Flipping, vars, thread
<1>2. CASE Next
  BY <1>2, MainStep, ClaimStep, LeaveStep, FlipStep DEF Next, BicTestBatch
<1> QED
  BY <1>1, <1>2

LEMMA InvInside == Inv => InVectors
BY DEF Inv, Types, InVectors

(***************************************************************************)
(* For every number of threads, inputs, bits and every even word width: no *)
(* thread reads or writes a counter outside its two vectors, although      *)
(* HistogramHashBits() starts before the cursor it is given (Histogram.h). *)
(***************************************************************************)
THEOREM NothingOutside == Spec => []InVectors
<1>1. Spec => []Inv
  BY InvInit, InvStep, PTL DEF Spec
<1> QED
  BY <1>1, InvInside, PTL

-----------------------------------------------------------------------------
(* Where each pair has its counter, and that no two share one.             *)

Pairs == {c \in (0 .. keybits-1) \X HashBits \X HashBits : c[2] < c[3]}

Cell(c) == FirstPair(c[1]) + RowStart(c[2]) + (c[3] - c[2] - 1)

LEMMA PairParts ==
  ASSUME NEW c \in Pairs
  PROVE  /\ c = <<c[1], c[2], c[3]>>
         /\ c[1] \in Nat /\ c[1] < keybits
         /\ c[2] \in 0 .. hashbits-2 /\ c[2] \in Nat /\ c[3] \in Nat
         /\ c[2] < c[3] /\ c[3] < hashbits
         /\ c[2] \in HashBits /\ c[3] \in HashBits
<1>1. c \in (0 .. keybits-1) \X HashBits \X HashBits /\ c[2] < c[3]
  BY DEF Pairs
<1>2. c = <<c[1], c[2], c[3]>> /\ c[1] \in 0 .. keybits-1 /\ c[2] \in HashBits /\ c[3] \in HashBits
  BY <1>1
<1> QED
  BY <1>1, <1>2, Shapes DEF HashBits

(* Each row begins where the one before it ends, or later.                 *)
LEMMA RowsApart ==
  ASSUME NEW a \in 0 .. hashbits-2, NEW b \in 0 .. hashbits-2, a < b
  PROVE  RowStart(a) + (hashbits-1 - a) <= RowStart(b)
<1> DEFINE d == b - a
           m == hashbits - 1 - a
           x == RowStart(a)
           y == RowStart(b)
<1>1. a \in Nat /\ d \in Nat /\ d >= 1 /\ m \in Nat /\ d < m /\ b = a + d /\ hashbits = m + a + 1
  BY Shapes
<1>2. /\ x \in Int /\ 2 * x = 2 * (a * (hashbits-1)) - a * (a - 1)
      /\ y \in Int /\ 2 * y = 2 * (b * (hashbits-1)) - b * (b - 1)
  BY Shapes, TwiceRowStart
<1>3. 2 * (a * (m + a)) - a * (a - 1) \in Int /\ 2 * ((a + d) * (m + a)) - (a + d) * (a + d - 1) \in Int
  BY <1>1
<1> DEFINE f == (d - 1) * (2 * m - d)
<1>4. f \in Nat
  <2>1. d - 1 \in Nat /\ 2 * m - d \in Nat
    BY <1>1
  <2> QED
    BY <2>1
<1>5. 2 * ((a + d) * (m + a)) - (a + d) * (a + d - 1)
        = (2 * (a * (m + a)) - a * (a - 1)) + 2 * m + f
  BY <1>1
<1>6. 2 * x = 2 * (a * (m + a)) - a * (a - 1)
  BY <1>1, <1>2
<1>7. 2 * y = 2 * ((a + d) * (m + a)) - (a + d) * (a + d - 1)
  BY <1>1, <1>2
<1>8. 2 * y = 2 * x + 2 * m + f
  BY <1>5, <1>6, <1>7
<1> HIDE DEF f, d, x, y, m
<1>9. x + m <= y
  BY <1>1, <1>2, <1>4, <1>8
<1> QED
  BY <1>9 DEF x, y, m

LEMMA CellInBlock ==
  ASSUME NEW c \in Pairs
  PROVE  /\ Cell(c) - 1 = c[1] * hashbitpairs + (RowStart(c[2]) + (c[3] - c[2] - 1))
         /\ RowStart(c[2]) + (c[3] - c[2] - 1) \in 0 .. hashbitpairs-1
         /\ RowStart(c[2]) \in Nat
         /\ Cell(c) \in AndCells /\ Cell(c) # 0 /\ Cell(c) \in Nat
<1> DEFINE k == c[1]
           x == RowStart(c[2])
           n == c[3] - c[2] - 1
<1>1. /\ k \in Nat /\ k < keybits /\ n \in Nat /\ n < hashbits-1 - c[2]
      /\ c[2] \in 0 .. hashbits-2 /\ c[2] \in Nat
  BY PairParts, Shapes
<1>2. x \in Int /\ x >= c[2] /\ x + hashbits-1 - c[2] <= hashbitpairs
  BY <1>1, RowInRange, TwiceRowStart
<1>3. /\ k * hashbitpairs \in Nat /\ (k * hashbitpairs) + hashbitpairs <= keybits * hashbitpairs
      /\ keybits * hashbitpairs \in Nat /\ hashbitpairs \in Nat
  BY <1>1, BlockInRange, EvenHash
<1>4. Cell(c) = k * hashbitpairs + 1 + x + n
  BY DEF Cell, FirstPair
<1> DEFINE base == k * hashbitpairs
           top == keybits * hashbitpairs
<1> HIDE DEF base, top, x, n, k
<1>5. /\ Cell(c) - 1 = base + (x + n) /\ x + n \in 0 .. hashbitpairs-1 /\ x \in Nat
      /\ Cell(c) \in 0 .. top /\ Cell(c) # 0 /\ Cell(c) \in Nat
  BY <1>1, <1>2, <1>3, <1>4, Shapes DEF base, top
<1> QED
  BY <1>5 DEF base, top, x, n, k, AndCells

LEMMA CellsDiffer ==
  ASSUME NEW c \in Pairs, NEW d \in Pairs, Cell(c) = Cell(d)
  PROVE  c = d
<1> DEFINE r(e) == RowStart(e[2]) + (e[3] - e[2] - 1)
<1>1. c[1] = d[1] /\ r(c) = r(d)
  <2>1. hashbitpairs \in Nat /\ c[1] \in Int /\ d[1] \in Int
    BY EvenHash, PairParts
  <2>2. /\ Cell(c) - 1 = hashbitpairs * c[1] + r(c) /\ r(c) \in 0 .. hashbitpairs-1
        /\ Cell(d) - 1 = hashbitpairs * d[1] + r(d) /\ r(d) \in 0 .. hashbitpairs-1
        /\ Cell(c) - 1 \in Int
    BY <2>1, CellInBlock
  <2> DEFINE x == Cell(c) - 1
  <2>3. x \in Int /\ x = hashbitpairs * c[1] + r(c) /\ x = hashbitpairs * d[1] + r(d)
    BY <2>2
  <2>4. hashbitpairs > 0
    BY <2>1, <2>2
  <2> HIDE DEF x, r
  <2>5. x % hashbitpairs = r(c) /\ x \div hashbitpairs = c[1]
    BY <2>1, <2>2, <2>3, <2>4, DivModUnique
  <2>6. x % hashbitpairs = r(d) /\ x \div hashbitpairs = d[1]
    BY <2>1, <2>2, <2>3, <2>4, DivModUnique
  <2> QED
    BY <2>5, <2>6
<1>2. ASSUME NEW e \in Pairs, NEW f \in Pairs, r(e) = r(f)
      PROVE  ~(e[2] < f[2])
  <2>1. /\ e[2] \in 0 .. hashbits-2 /\ f[2] \in 0 .. hashbits-2 /\ e[3] \in Nat /\ f[3] \in Nat
        /\ e[3] < hashbits /\ f[2] < f[3] /\ e[2] \in Nat /\ f[2] \in Nat
    BY PairParts
  <2>2. RowStart(e[2]) \in Nat /\ RowStart(f[2]) \in Nat
    BY CellInBlock
  <2> SUFFICES ASSUME e[2] < f[2] PROVE FALSE
    OBVIOUS
  <2>3. RowStart(e[2]) + (hashbits-1 - e[2]) <= RowStart(f[2])
    BY <2>1, RowsApart
  <2> QED
    BY <1>2, <2>1, <2>2, <2>3, Shapes
<1>3. c[2] = d[2]
  <2>1. c[2] \in Nat /\ d[2] \in Nat
    BY PairParts
  <2>2. ~(c[2] < d[2]) /\ ~(d[2] < c[2])
    <3> HIDE DEF r
    <3> QED
      BY <1>1, <1>2
  <2> QED
    BY <2>1, <2>2
<1>4. c[3] = d[3]
  <2>1. c[2] \in Nat /\ c[3] \in Nat /\ d[3] \in Nat /\ RowStart(c[2]) \in Nat
    BY PairParts, CellInBlock
  <2> QED
    BY <1>1, <1>3, <2>1
<1> QED
  BY <1>1, <1>3, <1>4, PairParts

-----------------------------------------------------------------------------
(* What a flip adds to each counter.                                       *)

LEMMA AddBitsAt ==
  ASSUME NEW D, NEW counts \in [D -> Nat], NEW cells \in SUBSET D, NEW ones, NEW x \in D
  PROVE  AddBits(counts, cells, ones)[x] = counts[x] + (IF x \in ones THEN 1 ELSE 0)
BY DEF AddBits

LEMMA PopAdded ==
  ASSUME NEW h2 \in SUBSET HashBits, NEW k \in Nat, k < keybits,
         NEW counts \in [PopCells -> Nat], NEW q \in Nat, q < keybits, NEW a \in HashBits
  PROVE  HistogramHashBits(h2, counts, k * hashbits)[q * hashbits + a]
           = counts[q * hashbits + a] + (IF q = k /\ a \in h2 THEN 1 ELSE 0)
<1> DEFINE at == k * hashbits
           x == q * hashbits + a
           ones == {at + b : b \in h2}
<1>1. at .. at + hashbits-1 \subseteq PopCells
  BY PopInRange
<1>2. a \in Nat /\ a < hashbits /\ a \in Int /\ a \in 0 .. hashbits-1
  BY Shapes DEF HashBits
<1>3. q * hashbits \in Nat
  BY Shapes
<1>4. x \in PopCells
  <2> DEFINE f == q * hashbits
  <2>1. f \in Nat /\ f .. f + hashbits-1 \subseteq PopCells
    BY <1>3, PopInRange
  <2> HIDE DEF f
  <2>2. f + a \in f .. f + hashbits-1
    BY <2>1, <1>2, Shapes
  <2> QED
    BY <2>1, <2>2 DEF f
<1>5. x \in ones <=> (q = k /\ a \in h2)
  <2>1. ASSUME NEW b \in h2, x = at + b PROVE q = k /\ a = b
    <3>1. b \in 0 .. hashbits-1 /\ x \in Int
      BY <1>2, <1>3, Shapes DEF HashBits
    <3>2. x = hashbits * q + a /\ x = hashbits * k + b /\ q \in Int /\ k \in Int
      BY <2>1, Shapes
    <3> HIDE DEF x
    <3>3. x % hashbits = a /\ x \div hashbits = q
      BY <3>1, <3>2, <1>2, Shapes, DivModUnique
    <3>4. x % hashbits = b /\ x \div hashbits = k
      BY <3>1, <3>2, Shapes, DivModUnique
    <3> QED
      BY <3>3, <3>4
  <2> HIDE DEF x, at
  <2>2. x \in ones => q = k /\ a \in h2
    BY <2>1
  <2>3. q = k /\ a \in h2 => x \in ones
    BY DEF x, at
  <2> QED
    BY <2>2, <2>3
<1> DEFINE cells == at .. at + hashbits-1
<1>6. HistogramHashBits(h2, counts, at) = AddBits(counts, cells, ones) /\ cells \subseteq PopCells
  BY <1>1 DEF HistogramHashBits
<1> HIDE DEF at, x, ones, cells
<1>7. HistogramHashBits(h2, counts, at)[x] = counts[x] + (IF x \in ones THEN 1 ELSE 0)
  BY ONLY <1>4, <1>6, AddBitsAt, counts \in [PopCells -> Nat]
<1> QED
  BY <1>5, <1>7 DEF at, x

LEMMA PairAdded ==
  ASSUME NEW h2 \in SUBSET HashBits, NEW k \in Nat, k < keybits,
         NEW counts \in [AndCells -> Nat], NEW c \in Pairs
  PROVE  CountPairs(h2, counts, k)[Cell(c)]
           = counts[Cell(c)] + (IF c[1] = k /\ c[2] \in h2 /\ c[3] \in h2 THEN 1 ELSE 0)
<1> DEFINE rows == {out1 \in 0 .. hashbits-2 : out1 \in h2}
           cells == UNION {CellsFromBit(FirstPair(k) + RowStart(out1), out1 + 1) : out1 \in rows}
           ones == UNION {OnesFromBit(h2, FirstPair(k) + RowStart(out1), out1 + 1) : out1 \in rows}
<1>1. cells \subseteq AndCells
  BY AndInRange
<1>2. Cell(c) \in AndCells
  BY CellInBlock
<1>3. ASSUME NEW o \in rows, NEW b \in h2, b >= o + 1
      PROVE  /\ <<k, o, b>> \in Pairs
             /\ FirstPair(k) + RowStart(o) + b - (o + 1) = Cell(<<k, o, b>>)
  <2>1. o \in Nat /\ o \in HashBits /\ b \in HashBits /\ b \in Nat /\ o < b /\ k \in 0 .. keybits-1
    BY <1>3, Shapes DEF HashBits
  <2>2. <<k, o, b>> \in Pairs
    BY <2>1 DEF Pairs
  <2>3. FirstPair(k) \in Nat /\ RowStart(o) \in Int
    BY <2>1, EvenHash, BlockInRange, TwiceRowStart DEF FirstPair
  <2>4. Cell(<<k, o, b>>) = FirstPair(k) + RowStart(o) + (b - o - 1)
    BY DEF Cell
  <2> QED
    BY <2>1, <2>2, <2>3, <2>4
<1>4. Cell(c) \in ones <=> c[1] = k /\ c[2] \in h2 /\ c[3] \in h2
  <2>1. Cell(c) \in ones <=>
          \E o \in rows : \E b \in h2 : b >= o + 1 /\ Cell(c) = FirstPair(k) + RowStart(o) + b - (o + 1)
    BY DEF OnesFromBit
  <2>2. ASSUME NEW o \in rows, NEW b \in h2, b >= o + 1,
               Cell(c) = FirstPair(k) + RowStart(o) + b - (o + 1)
        PROVE  c[1] = k /\ c[2] \in h2 /\ c[3] \in h2
    <3>1. <<k, o, b>> \in Pairs /\ Cell(c) = Cell(<<k, o, b>>)
      BY <1>3, <2>2
    <3>2. c = <<k, o, b>>
      BY <3>1, CellsDiffer
    <3> QED
      BY <3>2
  <2>3. ASSUME c[1] = k, c[2] \in h2, c[3] \in h2
        PROVE  \E o \in rows : \E b \in h2 :
                 b >= o + 1 /\ Cell(c) = FirstPair(k) + RowStart(o) + b - (o + 1)
    <3>1. c[2] \in rows /\ c[3] >= c[2] + 1 /\ c = <<k, c[2], c[3]>>
      BY <2>3, PairParts
    <3>2. Cell(c) = FirstPair(k) + RowStart(c[2]) + c[3] - (c[2] + 1)
      BY <1>3, <2>3, <3>1
    <3> QED
      BY <2>3, <3>1, <3>2
  <2> QED
    BY <2>1, <2>2, <2>3
<1>5. CountPairs(h2, counts, k) = AddBits(counts, cells, ones)
  BY RowsCounted
<1> HIDE DEF cells, ones
<1>6. CountPairs(h2, counts, k)[Cell(c)] = counts[Cell(c)] + (IF Cell(c) \in ones THEN 1 ELSE 0)
  BY <1>1, <1>2, <1>5, AddBitsAt
<1> QED
  BY <1>4, <1>6

(* The counter of a bit, or of a pair of bits, in a thread's vectors.      *)
Value(t, c) ==
  IF c[2] = c[3] THEN popcounts[t][c[1] * hashbits + c[2]] ELSE andcounts[t][Cell(c)]

(* How many of the jobs in J changed what c counts.                        *)
CountOf(J, c) == Cardinality({j \in J : c \in ChangedBy(j)})

LEMMA CounterParts ==
  ASSUME NEW c \in Counters
  PROVE  /\ c = <<c[1], c[2], c[3]>>
         /\ c[1] \in Nat /\ c[1] < keybits /\ c[2] \in HashBits /\ c[3] \in HashBits
         /\ c[2] \in Nat /\ c[3] \in Nat
         /\ c[2] # c[3] => c \in Pairs
<1>1. c \in (0 .. keybits-1) \X HashBits \X HashBits /\ c[2] <= c[3]
  BY DEF Counters
<1>2. c = <<c[1], c[2], c[3]>> /\ c[1] \in 0 .. keybits-1 /\ c[2] \in HashBits /\ c[3] \in HashBits
  BY <1>1
<1>3. c[2] # c[3] => c[2] < c[3]
  BY <1>1, <1>2, Shapes DEF HashBits
<1>4. c[2] # c[3] => c \in Pairs
  BY <1>1, <1>3 DEF Pairs
<1> QED
  BY <1>2, <1>4, Shapes DEF HashBits

LEMMA ValueAfterFlip ==
  ASSUME Inv, NEW t \in Threads, Flip(t), NEW u \in Threads, NEW c \in Counters
  PROVE  Value(u, c)' = Value(u, c)
           + (IF u = t /\ c \in ChangedBy(<<irep[t], keybit[t]>>) THEN 1 ELSE 0)
<1> DEFINE k == keybit[t]
           h2 == changed[irep[t]][k]
<1>1. /\ pc[t] = "flip" /\ irep[t] \in Nat /\ irep[t] < reps
      /\ k \in Nat /\ k < keybits /\ pop_cursor[t] = k * hashbits
  BY DEF Inv, Types, Flipping, Flip
<1>2. h2 \in SUBSET HashBits
  BY <1>1, ChangedAssumption, Shapes DEF HashBits
<1>3. /\ popcounts' = [popcounts EXCEPT ![t] = HistogramHashBits(h2, @, k * hashbits)]
      /\ andcounts' = [andcounts EXCEPT ![t] = CountPairs(h2, @, k)]
  BY <1>1 DEF Flip
<1>4. /\ popcounts \in [Threads -> [PopCells -> Nat]]
      /\ andcounts \in [Threads -> [AndCells -> Nat]]
  BY DEF Inv, Types
<1>5. c \in ChangedBy(<<irep[t], k>>) <=> c[1] = k /\ c[2] \in h2 /\ c[3] \in h2
  BY DEF ChangedBy
<1> HIDE DEF k, h2
<1>6. CASE u # t
  <2>1. popcounts'[u] = popcounts[u] /\ andcounts'[u] = andcounts[u]
    BY <1>3, <1>4, <1>6
  <2>2. Value(u, c)' = Value(u, c)
    BY <2>1 DEF Value
  <2>3. Value(u, c) \in Nat
    <3>1. c[2] # c[3] => Cell(c) \in AndCells
      BY CounterParts, CellInBlock
    <3>2. c[1] * hashbits + c[2] \in PopCells
      <4> DEFINE f == c[1] * hashbits
      <4>1. f \in Nat /\ f .. f + hashbits-1 \subseteq PopCells
        BY CounterParts, PopInRange, Shapes
      <4>2. c[2] \in 0 .. hashbits-1
        BY CounterParts DEF HashBits
      <4> HIDE DEF f
      <4>3. f + c[2] \in f .. f + hashbits-1
        BY <4>1, <4>2, Shapes
      <4> QED
        BY <4>1, <4>3 DEF f
    <3> QED
      BY <1>4, <3>1, <3>2 DEF Value
  <2> QED
    BY <1>6, <2>2, <2>3
<1>7. CASE u = t
  <2>1. /\ popcounts'[t] = HistogramHashBits(h2, popcounts[t], k * hashbits)
        /\ andcounts'[t] = CountPairs(h2, andcounts[t], k)
    BY <1>3, <1>4
  <2>2. popcounts[t] \in [PopCells -> Nat] /\ andcounts[t] \in [AndCells -> Nat]
    BY <1>4
  <2>3. k \in Nat /\ k < keybits
    BY <1>1 DEF k
  <2>4. CASE c[2] = c[3]
    <3>1. HistogramHashBits(h2, popcounts[t], k * hashbits)[c[1] * hashbits + c[2]]
            = popcounts[t][c[1] * hashbits + c[2]] + (IF c[1] = k /\ c[2] \in h2 THEN 1 ELSE 0)
      BY <1>2, <2>2, <2>3, CounterParts, PopAdded
    <3>2. Value(u, c)' = HistogramHashBits(h2, popcounts[t], k * hashbits)[c[1] * hashbits + c[2]]
      BY <1>7, <2>1, <2>4 DEF Value
    <3>3. Value(u, c) = popcounts[t][c[1] * hashbits + c[2]]
      BY <1>7, <2>4 DEF Value
    <3> QED
      BY <1>5, <1>7, <2>4, <3>1, <3>2, <3>3 DEF k
  <2>5. CASE c[2] # c[3]
    <3>1. c \in Pairs
      BY <2>5, CounterParts
    <3>2. CountPairs(h2, andcounts[t], k)[Cell(c)]
            = andcounts[t][Cell(c)] + (IF c[1] = k /\ c[2] \in h2 /\ c[3] \in h2 THEN 1 ELSE 0)
      BY <1>2, <2>2, <2>3, <3>1, PairAdded
    <3>3. Value(u, c)' = CountPairs(h2, andcounts[t], k)[Cell(c)]
      BY <1>7, <2>1, <2>5 DEF Value
    <3>4. Value(u, c) = andcounts[t][Cell(c)]
      BY <1>7, <2>5 DEF Value
    <3> QED
      BY <1>5, <1>7, <3>2, <3>3, <3>4 DEF k
  <2> QED
    BY <2>4, <2>5
<1> QED
  BY <1>6, <1>7

-----------------------------------------------------------------------------
(* Counting the jobs of a set.                                             *)

LEMMA JobsFinite ==
  /\ IsFiniteSet(Jobs)
  /\ \A S \in SUBSET Jobs : IsFiniteSet(S) /\ Cardinality(S) \in Nat
<1>1. IsFiniteSet(0 .. reps-1) /\ IsFiniteSet(0 .. keybits-1)
  BY FS_Interval, Shapes
<1>2. IsFiniteSet(Jobs)
  BY <1>1, FS_Product DEF Jobs
<1> QED
  BY <1>2, FS_Subset, FS_CardinalityType

LEMMA CountOfNone ==
  ASSUME NEW c
  PROVE  CountOf({}, c) = 0
<1>1. {j \in {} : c \in ChangedBy(j)} = {}
  OBVIOUS
<1> QED
  BY <1>1, FS_EmptySet DEF CountOf

LEMMA CountOfBoth ==
  ASSUME NEW J \in SUBSET Jobs, NEW L \in SUBSET Jobs, J \cap L = {}, NEW c
  PROVE  /\ CountOf(J \cup L, c) = CountOf(J, c) + CountOf(L, c)
         /\ CountOf(J, c) \in Nat
<1> DEFINE a == {j \in J : c \in ChangedBy(j)}
           b == {j \in L : c \in ChangedBy(j)}
<1>1. {j \in J \cup L : c \in ChangedBy(j)} = a \cup b /\ a \cap b = {}
  OBVIOUS
<1>2. a \in SUBSET Jobs /\ b \in SUBSET Jobs
  OBVIOUS
<1>3. IsFiniteSet(a) /\ IsFiniteSet(b) /\ Cardinality(a) \in Nat /\ Cardinality(b) \in Nat
  BY <1>2, JobsFinite
<1>4. Cardinality(a \cup b) = Cardinality(a) + Cardinality(b) - Cardinality(a \cap b)
  BY <1>3, FS_Union
<1>5. Cardinality(a \cap b) = 0
  BY <1>1, FS_EmptySet
<1>6. CountOf(J \cup L, c) = Cardinality(a \cup b)
  BY <1>1 DEF CountOf
<1>7. CountOf(J, c) = Cardinality(a) /\ CountOf(L, c) = Cardinality(b)
  BY DEF CountOf
<1> HIDE DEF a, b
<1> QED
  BY <1>3, <1>4, <1>5, <1>6, <1>7

LEMMA CountOfOne ==
  ASSUME NEW j, NEW c
  PROVE  CountOf({j}, c) = IF c \in ChangedBy(j) THEN 1 ELSE 0
<1>1. CASE c \in ChangedBy(j)
  <2>1. {a \in {j} : c \in ChangedBy(a)} = {j}
    BY <1>1
  <2> QED
    BY <1>1, <2>1, FS_Singleton DEF CountOf
<1>2. CASE c \notin ChangedBy(j)
  <2>1. {a \in {j} : c \in ChangedBy(a)} = {}
    BY <1>2
  <2> QED
    BY <1>2, <2>1, FS_EmptySet DEF CountOf
<1> QED
  BY <1>1, <1>2

-----------------------------------------------------------------------------
(* Who counted what. The loops of the main thread:                         *)
MainLoop ==
  /\ main = "spawn" => i \in Threads /\ \A t \in Threads : pc[t] = "unborn" <=> t >= i
  /\ main # "spawn" => \A t \in Threads : pc[t] # "unborn"
  /\ main = "join" => i \in Threads /\ \A t \in Threads : t < i => pc[t] = "done"
  /\ main \in {"merge", "report", "done"} => \A t \in Threads : pc[t] = "done"
  /\ main = "merge" => i \in 1 .. g_NCPU-1

(* No two threads have the same input, and none leaves while there is one. *)
Owners ==
  /\ \A t \in Threads : pc[t] = "flip" => irep[t] < irepp
  /\ \A t \in Threads, u \in Threads :
       t # u /\ pc[t] = "flip" /\ pc[u] = "flip" => irep[t] # irep[u]
  /\ \A t \in Threads : pc[t] = "done" => irepp >= reps

(* Whether the vectors of thread t still are what is counted from.         *)
Live(t) == main \in {"spawn", "join"} \/ t = 0 \/ (main = "merge" /\ t >= i)

(* The jobs counted so far, shared out by the vectors they are counted in. *)
Shares(share) ==
  /\ share \in [Threads -> SUBSET Jobs]
  /\ \A t \in Threads, u \in Threads : t # u => share[t] \cap share[u] = {}
  /\ CountedJobs = UNION {share[t] : t \in Threads}
  /\ \A t \in Threads :
       IF Live(t) THEN \A c \in Counters : Value(t, c) = CountOf(share[t], c)
       ELSE share[t] = {}

Sharing == \E share : Shares(share)

-----------------------------------------------------------------------------
LEMMA MainLoopStep ==
  ASSUME Inv, MainLoop, [Next]_vars
  PROVE  MainLoop'
<1> USE DEF Inv, Types, MainLoop
<1>1. CASE UNCHANGED vars
  BY <1>1 DEF vars, thread
<1>2. ASSUME NEW t \in Threads, BicTestBatch(t) PROVE MainLoop'
  <2>1. pc[t] \in {"claim", "flip"} /\ pc'[t] \in {"claim", "flip", "done"}
    BY <1>2 DEF BicTestBatch, Claim, Leave, Flip
  <2>2. \A u \in Threads : u # t => pc'[u] = pc[u]
    BY <1>2 DEF BicTestBatch, Claim, Leave, Flip
  <2>3. UNCHANGED <<main, i>>
    BY <1>2 DEF BicTestBatch, Claim, Leave, Flip
  <2> QED
    BY <2>1, <2>2, <2>3
<1>3. CASE Spawn
  <2>1. main = "spawn" /\ i \in Threads
    BY <1>3 DEF Spawn, Loop
  <2>2. \A u \in Threads : pc'[u] = IF u = i THEN "claim" ELSE pc[u]
    BY <1>3 DEF Spawn
  <2>3. \A u \in Threads : pc'[u] = "unborn" <=> u >= i + 1
    <3>1. \A u \in Threads : pc[u] = "unborn" <=> u >= i
      BY <2>1
    <3>2. \A u \in Threads : u >= i + 1 <=> (u >= i /\ u # i)
      BY <2>1, Shapes DEF Threads
    <3> QED
      BY <2>2, <3>1, <3>2
  <2>4. CASE i + 1 < g_NCPU
    BY <1>3, <2>1, <2>3, <2>4, Shapes DEF Spawn, Loop, Threads
  <2>5. CASE ~(i + 1 < g_NCPU)
    BY <1>3, <2>1, <2>3, <2>5, Shapes DEF Spawn, Loop, Threads
  <2> QED
    BY <2>4, <2>5
<1>4. CASE Join
  <2>1. main = "join" /\ i \in Threads /\ UNCHANGED pc
    BY <1>4 DEF Join, Loop, thread
  <2>2. \A u \in Threads : u < i + 1 => pc[u] = "done"
    <3>1. pc[i] = "done" /\ \A u \in Threads : u < i => pc[u] = "done"
      BY <1>4, <2>1 DEF Join
    <3>2. \A u \in Threads : u < i + 1 <=> (u < i \/ u = i)
      BY <2>1, Shapes DEF Threads
    <3> QED
      BY <3>1, <3>2
  <2>3. CASE i + 1 < g_NCPU
    BY <1>4, <2>1, <2>2, <2>3, Shapes DEF Join, Loop, Threads
  <2>4. CASE ~(i + 1 < g_NCPU)
    <3>1. i' = 1 /\ main' = IF g_NCPU > 1 THEN "merge" ELSE "report"
      BY <1>4, <2>4 DEF Join, Loop
    <3>2. \A u \in Threads : pc'[u] = "done"
      BY <2>1, <2>2, <2>4, Shapes DEF Threads
    <3> QED
      BY <3>1, <3>2, Shapes DEF Threads
  <2> QED
    BY <2>3, <2>4
<1>5. CASE Merge
  <2>1. main = "merge" /\ i \in 1 .. g_NCPU-1 /\ UNCHANGED pc
    BY <1>5 DEF Merge, Loop
  <2> QED
    BY <1>5, <2>1, Shapes DEF Merge, Loop
<1>6. CASE ReportChiSqIndep
  <2>1. main = "report" /\ main' \in {"report", "done"} /\ UNCHANGED <<pc, i>>
    BY <1>6 DEF ReportChiSqIndep, thread
  <2> QED
    BY <2>1
<1> QED
  BY <1>1, <1>2, <1>3, <1>4, <1>5, <1>6 DEF Next, BicTestImpl

LEMMA OwnersStep ==
  ASSUME Inv, MainLoop, Owners, [Next]_vars
  PROVE  Owners'
<1> USE DEF Inv, Types, Owners
<1>1. CASE UNCHANGED vars
  BY <1>1 DEF vars, thread
<1>2. ASSUME NEW t \in Threads, Claim(t) PROVE Owners'
  <2>1. irepp' = irepp + 1 /\ irepp < reps /\ irep'[t] = irepp /\ pc'[t] = "flip"
    BY <1>2 DEF Claim
  <2>2. \A u \in Threads : u # t => pc'[u] = pc[u] /\ irep'[u] = irep[u]
    BY <1>2 DEF Claim
  <2>3. \A u \in Threads : pc'[u] = "flip" => irep'[u] < irepp'
    BY <2>1, <2>2
  <2>4. \A u \in Threads : u # t /\ pc'[u] = "flip" => irep'[u] # irepp
    BY <2>2
  <2>5. \A u \in Threads : pc'[u] # "done"
    BY <2>1, <2>2, Shapes
  <2> QED
    BY <2>1, <2>2, <2>3, <2>4, <2>5
<1>3. ASSUME NEW t \in Threads, Leave(t) PROVE Owners'
  <2>1. irepp' = irepp + 1 /\ irepp >= reps /\ irep' = irep /\ pc'[t] = "done"
    BY <1>3 DEF Leave
  <2>2. \A u \in Threads : pc'[u] = IF u = t THEN "done" ELSE pc[u]
    BY <1>3 DEF Leave
  <2>3. irepp \in Nat /\ \A u \in Threads : irep[u] \in Nat
    OBVIOUS
  <2>4. \A u \in Threads : pc'[u] = "flip" => irep'[u] < irepp'
    BY <2>1, <2>2, <2>3
  <2>5. \A u \in Threads, v \in Threads :
          u # v /\ pc'[u] = "flip" /\ pc'[v] = "flip" => irep'[u] # irep'[v]
    BY <2>1, <2>2
  <2>6. irepp' >= reps
    BY <2>1, <2>3, Shapes
  <2> QED
    BY <2>4, <2>5, <2>6
<1>4. ASSUME NEW t \in Threads, Flip(t) PROVE Owners'
  <2>1. irepp' = irepp /\ irep' = irep /\ pc[t] = "flip" /\ pc'[t] \in {"flip", "claim"}
    BY <1>4 DEF Flip
  <2>2. \A u \in Threads : u # t => pc'[u] = pc[u]
    BY <1>4 DEF Flip
  <2> QED
    BY <2>1, <2>2
<1>5. CASE Spawn
  <2>1. i \in Threads /\ pc' = [pc EXCEPT ![i] = "claim"] /\ UNCHANGED <<irepp, irep>>
    BY <1>5 DEF Spawn, Loop
  <2> QED
    BY <2>1
<1>6. CASE Join \/ Merge \/ ReportChiSqIndep
  <2>1. UNCHANGED <<pc, irepp, irep>>
    BY <1>6 DEF Join, Merge, ReportChiSqIndep, thread
  <2> QED
    BY <2>1
<1> QED
  BY <1>1, <1>2, <1>3, <1>4, <1>5, <1>6 DEF Next, BicTestImpl, BicTestBatch

-----------------------------------------------------------------------------
(* What the steps make of the set of jobs counted.                         *)

LEMMA CountedAfterClaim ==
  ASSUME Inv, NEW t \in Threads, Claim(t)
  PROVE  CountedJobs' = CountedJobs
<1> USE DEF Inv, Types
<1>1. irepp \in Nat /\ irepp' = irepp + 1
  BY DEF Claim
<1>2. pc[t] = "claim" /\ pc'[t] = "flip" /\ irep'[t] = irepp /\ keybit'[t] = 0
  BY DEF Claim
<1>3. \A u \in Threads : u # t =>
        pc'[u] = pc[u] /\ irep'[u] = irep[u] /\ keybit'[u] = keybit[u]
  BY DEF Claim
<1>4. ASSUME NEW j \in Jobs PROVE j \in CountedJobs' <=> j \in CountedJobs
  <2>1. j[1] \in Nat /\ j[2] \in Nat
    BY Shapes DEF Jobs
  <2>2. CASE j[1] = irepp
    <3>1. j \notin CountedJobs
      BY <1>1, <2>2 DEF CountedJobs
    <3>2. j \notin CountedJobs'
      BY <1>2, <2>1, <2>2 DEF CountedJobs
    <3> QED
      BY <3>1, <3>2
  <2>3. CASE j[1] # irepp
    <3>1. j[1] < irepp' <=> j[1] < irepp
      <4>1. \A n \in Nat : n # irepp => (n < irepp' <=> n < irepp)
        BY <1>1
      <4> QED
        BY <2>1, <2>3, <4>1
    <3>2. (pc'[t] = "flip" /\ irep'[t] = j[1]) <=> (pc[t] = "flip" /\ irep[t] = j[1])
      BY <1>2, <2>3
    <3>3. \A u \in Threads :
            (pc'[u] = "flip" /\ irep'[u] = j[1] => j[2] < keybit'[u])
              <=> (pc[u] = "flip" /\ irep[u] = j[1] => j[2] < keybit[u])
      BY <1>2, <1>3, <3>2
    <3>4. Jobs' = Jobs
      BY DEF Jobs
    <3> QED
      BY <3>1, <3>3, <3>4 DEF CountedJobs
  <2> QED
    BY <2>2, <2>3
<1>5. CountedJobs \subseteq Jobs /\ CountedJobs' \subseteq Jobs
  BY DEF CountedJobs, Jobs
<1> QED
  BY <1>4, <1>5

LEMMA CountedAfterLeave ==
  ASSUME Inv, NEW t \in Threads, Leave(t)
  PROVE  CountedJobs' = CountedJobs
<1> USE DEF Inv, Types
<1>1. irepp >= reps /\ irepp' = irepp + 1 /\ irep' = irep /\ keybit' = keybit
  BY DEF Leave
<1>2. pc[t] = "claim" /\ pc'[t] = "done" /\ \A u \in Threads : u # t => pc'[u] = pc[u]
  BY DEF Leave
<1>3. ASSUME NEW j \in Jobs PROVE j[1] < irepp /\ j[1] < irepp'
  BY <1>1, Shapes DEF Jobs
<1>4. Jobs' = Jobs
  BY DEF Jobs
<1> QED
  BY <1>1, <1>2, <1>3, <1>4 DEF CountedJobs

LEMMA CountedAfterFlip ==
  ASSUME Inv, Owners, NEW t \in Threads, Flip(t)
  PROVE  /\ <<irep[t], keybit[t]>> \in Jobs \ CountedJobs
         /\ CountedJobs' = CountedJobs \cup {<<irep[t], keybit[t]>>}
<1> USE DEF Inv, Types
<1> DEFINE r == irep[t]
           k == keybit[t]
<1>1. pc[t] = "flip" /\ r \in 0 .. reps-1 /\ k \in 0 .. keybits-1 /\ r < irepp
  BY Shapes DEF Flip, Flipping, Owners
<1>2. <<r, k>> \in Jobs
  BY <1>1 DEF Jobs
<1>3. <<r, k>> \notin CountedJobs
  BY <1>1 DEF CountedJobs
<1>4. /\ irepp' = irepp /\ irep' = irep /\ keybit'[t] = k + 1
      /\ pc'[t] = IF k + 1 < keybits THEN "flip" ELSE "claim"
      /\ \A u \in Threads : u # t => pc'[u] = pc[u] /\ keybit'[u] = keybit[u]
  BY DEF Flip
<1>5. \A u \in Threads : u # t /\ pc[u] = "flip" => irep[u] # r
  BY <1>1 DEF Owners
<1> HIDE DEF r, k
<1>6. ASSUME NEW j \in Jobs
      PROVE  j \in CountedJobs' <=> (j \in CountedJobs \/ j = <<r, k>>)
  <2>1. j = <<j[1], j[2]>> /\ j[1] \in Nat /\ j[2] \in 0 .. keybits-1
    BY Shapes DEF Jobs
  <2>2. CASE j[1] # r
    <3>1. j # <<r, k>>
      BY <2>2
    <3> QED
      BY <1>4, <2>2, <3>1 DEF CountedJobs, r
  <2>3. CASE j[1] = r
    <3>1. j \in CountedJobs <=> j[2] < k
      BY <1>1, <1>5, <2>3 DEF CountedJobs, r, k
    <3>2. j \in CountedJobs' <=> (pc'[t] = "flip" => j[2] < k + 1)
      <4>1. \A u \in Threads : u # t => ~(pc'[u] = "flip" /\ irep'[u] = j[1])
        BY <1>4, <1>5, <2>3 DEF r
      <4>2. keybit'[t] = k + 1 /\ irep'[t] = j[1] /\ j[1] < irepp'
        BY <1>1, <1>4, <2>3 DEF r
      <4>3. Jobs' = Jobs
        BY DEF Jobs
      <4> QED
        BY <4>1, <4>2, <4>3 DEF CountedJobs
    <3>3. j = <<r, k>> <=> j[2] = k
      BY <2>1, <2>3
    <3>4. \A n \in 0 .. keybits-1 :
            /\ n < k + 1 <=> (n < k \/ n = k)
            /\ ~(k + 1 < keybits) => n < k + 1
      BY <1>1, Shapes
    <3>5. pc'[t] # "flip" => ~(k + 1 < keybits)
      BY <1>4
    <3> QED
      BY <2>1, <3>1, <3>2, <3>3, <3>4, <3>5
  <2> QED
    BY <2>2, <2>3
<1>7. CountedJobs \subseteq Jobs /\ CountedJobs' \subseteq Jobs
  BY DEF CountedJobs, Jobs
<1>8. CountedJobs' = CountedJobs \cup {<<r, k>>}
  BY <1>2, <1>6, <1>7
<1> QED
  BY <1>2, <1>3, <1>8 DEF r, k

LEMMA CountedAfterMain ==
  ASSUME Inv, MainLoop, BicTestImpl
  PROVE  CountedJobs' = CountedJobs
<1>1. CASE Spawn
  <2>1. i \in Threads /\ pc[i] = "unborn"
    BY <1>1, Shapes DEF Spawn, Loop, MainLoop, Threads
  <2>2. \A u \in Threads : pc'[u] = "flip" <=> pc[u] = "flip"
    BY <1>1, <2>1 DEF Spawn, Inv, Types
  <2>3. Jobs' = Jobs
    BY DEF Jobs
  <2> QED
    BY <1>1, <2>2, <2>3 DEF Spawn, CountedJobs
<1>2. CASE Join \/ Merge \/ ReportChiSqIndep
  BY <1>2 DEF Join, Merge, ReportChiSqIndep, thread, CountedJobs, Jobs
<1> QED
  BY <1>1, <1>2 DEF BicTestImpl

LEMMA AllCounted ==
  ASSUME Inv, Owners, \A t \in Threads : pc[t] = "done"
  PROVE  CountedJobs = Jobs
<1>1. irepp >= reps
  BY Shapes DEF Owners
<1>2. \A j \in Jobs : j[1] < irepp
  BY <1>1, Shapes DEF Jobs, Inv, Types
<1> QED
  BY <1>2 DEF CountedJobs

-----------------------------------------------------------------------------
(* Sharing out goes on: nothing changes, a thread counts one more job, or  *)
(* the main thread takes over the jobs of a thread.                        *)

LEMMA SharesMade ==
  ASSUME NEW share, share \in [Threads -> SUBSET Jobs],
         \A t \in Threads, u \in Threads : t # u => share[t] \cap share[u] = {},
         CountedJobs' = UNION {share[t] : t \in Threads},
         \A t \in Threads :
           IF Live(t)' THEN \A c \in Counters : Value(t, c)' = CountOf(share[t], c)
           ELSE share[t] = {}
  PROVE  Sharing'
<1>1. /\ Threads' = Threads /\ Jobs' = Jobs /\ Counters' = Counters
      /\ \A J, c : CountOf(J, c)' = CountOf(J, c)
  BY DEF Threads, Jobs, Counters, HashBits, CountOf, ChangedBy
<1>2. Shares(share)'
  BY <1>1 DEF Shares
<1> QED
  BY <1>2 DEF Sharing

LEMMA SharesKept ==
  ASSUME NEW share, Shares(share), CountedJobs' = CountedJobs,
         \A t \in Threads : Live(t)' => Live(t),
         \A t \in Threads : ~Live(t)' => ~Live(t),
         \A t \in Threads, c \in Counters : Value(t, c)' = Value(t, c)
  PROVE  Sharing'
<1>1. \A t \in Threads :
        IF Live(t)' THEN \A c \in Counters : Value(t, c)' = CountOf(share[t], c)
        ELSE share[t] = {}
  BY DEF Shares
<1> QED
  BY <1>1, SharesMade DEF Shares

LEMMA ValuesKept ==
  ASSUME UNCHANGED <<popcounts, andcounts>>
  PROVE  \A t \in Threads, c \in Counters : Value(t, c)' = Value(t, c)
BY DEF Value, Cell, FirstPair, RowStart, hashbitpairs

LEMMA SharesAfterFlip ==
  ASSUME Inv, MainLoop, Owners, NEW share, Shares(share), NEW t \in Threads, Flip(t)
  PROVE  Sharing'
<1> DEFINE j == <<irep[t], keybit[t]>>
           share2 == [share EXCEPT ![t] = @ \cup {j}]
<1>1. j \in Jobs \ CountedJobs /\ CountedJobs' = CountedJobs \cup {j}
  BY CountedAfterFlip
<1>2. main \in {"spawn", "join"} /\ UNCHANGED <<main, i>>
  <2>1. pc[t] = "flip" /\ UNCHANGED <<main, i>>
    BY DEF Flip
  <2> QED
    BY <2>1 DEF MainLoop, Inv, Types
<1>3. \A u \in Threads, c \in Counters :
        Value(u, c)' = Value(u, c) + (IF u = t /\ c \in ChangedBy(j) THEN 1 ELSE 0)
  BY ValueAfterFlip
<1>4. /\ share \in [Threads -> SUBSET Jobs]
      /\ \A u \in Threads, v \in Threads : u # v => share[u] \cap share[v] = {}
      /\ CountedJobs = UNION {share[u] : u \in Threads}
      /\ \A u \in Threads, c \in Counters : Value(u, c) = CountOf(share[u], c)
  BY <1>2 DEF Shares, Live
<1> HIDE DEF j
<1>5. /\ share2 \in [Threads -> SUBSET Jobs]
      /\ \A u \in Threads : share2[u] = IF u = t THEN share[t] \cup {j} ELSE share[u]
  BY <1>1, <1>4
<1>6. \A u \in Threads : j \notin share[u]
  BY <1>1, <1>4
<1> HIDE DEF share2
<1>7. \A u \in Threads, v \in Threads : u # v => share2[u] \cap share2[v] = {}
  BY <1>4, <1>5, <1>6
<1>8. CountedJobs' = UNION {share2[u] : u \in Threads}
  BY <1>1, <1>4, <1>5
<1>9. ASSUME NEW u \in Threads, NEW c \in Counters
      PROVE  Value(u, c)' = CountOf(share2[u], c)
  <2>1. CASE u # t
    <3>1. share2[u] = share[u] /\ share[u] \cap {} = {} /\ {} \in SUBSET Jobs /\ share[u] \in SUBSET Jobs
      BY <1>4, <1>5, <2>1
    <3>2. CountOf(share[u], c) \in Nat
      BY <3>1, CountOfBoth
    <3> QED
      BY <1>3, <1>4, <2>1, <3>1, <3>2
  <2>2. CASE u = t
    <3>1. share[t] \in SUBSET Jobs /\ {j} \in SUBSET Jobs /\ share[t] \cap {j} = {}
      BY <1>1, <1>4, <1>6
    <3>2. CountOf(share[t] \cup {j}, c) = CountOf(share[t], c) + CountOf({j}, c)
      BY <3>1, CountOfBoth
    <3>3. CountOf({j}, c) = IF c \in ChangedBy(j) THEN 1 ELSE 0
      BY CountOfOne
    <3> QED
      BY <1>3, <1>4, <1>5, <2>2, <3>2, <3>3
  <2> QED
    BY <2>1, <2>2
<1>10. \A u \in Threads :
         IF Live(u)' THEN \A c \in Counters : Value(u, c)' = CountOf(share2[u], c)
         ELSE share2[u] = {}
  <2>1. \A u \in Threads : Live(u)'
    BY <1>2 DEF Live
  <2> QED
    BY <1>9, <2>1
<1> QED
  BY <1>5, <1>7, <1>8, <1>10, SharesMade

(* Where a counter is in the vectors that are merged.                      *)
LEMMA ValueAfterMerge ==
  ASSUME Inv, MainLoop, Merge, NEW c \in Counters
  PROVE  /\ Value(0, c)' = Value(0, c) + Value(i, c)
         /\ \A t \in Threads : t # 0 => Value(t, c)' = Value(t, c)
<1>1. i \in Threads /\ 0 \in Threads /\ main = "merge"
  BY Shapes DEF Merge, Loop, MainLoop, Threads
<1>2. /\ popcounts \in [Threads -> [PopCells -> Nat]]
      /\ andcounts \in [Threads -> [AndCells -> Nat]]
  BY DEF Inv, Types
<1>3. /\ popcounts'[0] = [x \in PopCells |-> popcounts[0][x] + popcounts[i][x]]
      /\ andcounts'[0] = [x \in AndCells |->
                            IF x = 0 THEN andcounts[0][x] ELSE andcounts[0][x] + andcounts[i][x]]
      /\ \A t \in Threads : t # 0 => popcounts'[t] = popcounts[t] /\ andcounts'[t] = andcounts[t]
  BY <1>1, <1>2 DEF Merge
<1>4. \A t \in Threads : t # 0 => Value(t, c)' = Value(t, c)
  BY <1>3 DEF Value
<1>5. CASE c[2] = c[3]
  <2> DEFINE x == c[1] * hashbits + c[2]
  <2>1. x \in PopCells
    <3> DEFINE f == c[1] * hashbits
    <3>1. f \in Nat /\ f .. f + hashbits-1 \subseteq PopCells
      BY CounterParts, PopInRange, Shapes
    <3>2. c[2] \in 0 .. hashbits-1
      BY CounterParts DEF HashBits
    <3> HIDE DEF f
    <3>3. f + c[2] \in f .. f + hashbits-1
      BY <3>1, <3>2, Shapes
    <3> QED
      BY <3>1, <3>3 DEF f
  <2>2. \A t : Value(t, c) = popcounts[t][x] /\ Value(t, c)' = popcounts'[t][x]
    BY <1>5 DEF Value
  <2> HIDE DEF x
  <2>3. popcounts'[0][x] = popcounts[0][x] + popcounts[i][x]
    BY <1>3, <2>1
  <2> QED
    BY <1>4, <2>2, <2>3
<1>6. CASE c[2] # c[3]
  <2> DEFINE x == Cell(c)
  <2>1. x \in AndCells /\ x # 0
    BY <1>6, CounterParts, CellInBlock
  <2>2. \A t : Value(t, c) = andcounts[t][x] /\ Value(t, c)' = andcounts'[t][x]
    BY <1>6 DEF Value
  <2> HIDE DEF x
  <2>3. andcounts'[0][x] = andcounts[0][x] + andcounts[i][x]
    BY <1>3, <2>1
  <2> QED
    BY <1>4, <2>2, <2>3
<1> QED
  BY <1>5, <1>6

LEMMA SharesAfterMerge ==
  ASSUME Inv, MainLoop, NEW share, Shares(share), Merge
  PROVE  Sharing'
<1>1. /\ main = "merge" /\ i \in 1 .. g_NCPU-1 /\ i \in Threads /\ 0 \in Threads /\ i # 0
      /\ i \in Nat
  BY Shapes DEF Merge, Loop, MainLoop, Threads
<1>2. CountedJobs' = CountedJobs
  BY CountedAfterMain DEF BicTestImpl
<1> DEFINE share2 == [t \in Threads |->
                       IF t = 0 THEN share[0] \cup share[i] ELSE IF t = i THEN {} ELSE share[t]]
<1>3. /\ share \in [Threads -> SUBSET Jobs]
      /\ \A u \in Threads, v \in Threads : u # v => share[u] \cap share[v] = {}
      /\ CountedJobs = UNION {share[u] : u \in Threads}
      /\ \A t \in Threads :
           IF Live(t) THEN \A c \in Counters : Value(t, c) = CountOf(share[t], c)
           ELSE share[t] = {}
  BY DEF Shares
<1>4. share2 \in [Threads -> SUBSET Jobs]
  BY <1>1, <1>3
<1>5. \A t \in Threads :
        share2[t] = IF t = 0 THEN share[0] \cup share[i] ELSE IF t = i THEN {} ELSE share[t]
  OBVIOUS
<1> HIDE DEF share2
<1>6. \A u \in Threads, v \in Threads : u # v => share2[u] \cap share2[v] = {}
  BY <1>1, <1>3, <1>5
<1>7. CountedJobs' = UNION {share2[u] : u \in Threads}
  <2>1. ASSUME NEW j, NEW u \in Threads, j \in share[u] PROVE \E v \in Threads : j \in share2[v]
    BY <1>1, <1>5, <2>1
  <2>2. ASSUME NEW j, NEW u \in Threads, j \in share2[u] PROVE \E v \in Threads : j \in share[v]
    BY <1>1, <1>5, <2>2
  <2> QED
    BY <1>2, <1>3, <2>1, <2>2
<1>8. Live(0) /\ Live(i)
  BY <1>1 DEF Live
<1>9. ASSUME NEW c \in Counters PROVE Value(0, c)' = CountOf(share2[0], c)
  <2>1. Value(0, c)' = Value(0, c) + Value(i, c)
    BY ValueAfterMerge
  <2>2. Value(0, c) = CountOf(share[0], c) /\ Value(i, c) = CountOf(share[i], c)
    BY <1>1, <1>3, <1>8
  <2>3. share[0] \in SUBSET Jobs /\ share[i] \in SUBSET Jobs /\ share[0] \cap share[i] = {}
    BY <1>1, <1>3
  <2>4. CountOf(share[0] \cup share[i], c) = CountOf(share[0], c) + CountOf(share[i], c)
    BY <2>3, CountOfBoth
  <2> QED
    BY <1>1, <1>5, <2>1, <2>2, <2>4
<1>10. ASSUME NEW t \in Threads
       PROVE  IF Live(t)' THEN \A c \in Counters : Value(t, c)' = CountOf(share2[t], c)
              ELSE share2[t] = {}
  <2>1. CASE t = 0
    BY <1>9, <2>1 DEF Live
  <2>2. CASE t # 0 /\ Live(t)'
    <3>1. main' = "merge" /\ i' = i + 1 /\ t >= i + 1
      <4>1. main' = "merge" /\ t >= i'
        BY <2>2 DEF Live, Merge, Loop
      <4> QED
        BY <4>1 DEF Merge, Loop
    <3>2. t # i /\ t >= i /\ Live(t)
      BY <1>1, <3>1, Shapes DEF Live, Threads
    <3>3. \A c \in Counters : Value(t, c)' = Value(t, c)
      BY <2>2, ValueAfterMerge
    <3>4. share2[t] = share[t]
      BY <1>5, <2>2, <3>2
    <3> QED
      BY <1>3, <2>2, <3>2, <3>3, <3>4
  <2>3. CASE t # 0 /\ ~Live(t)'
    <3>1. t = i \/ ~Live(t)
      <4> SUFFICES ASSUME t # i, Live(t) PROVE FALSE
        OBVIOUS
      <4>1. t >= i + 1 /\ t < g_NCPU
        BY <1>1, <2>3, Shapes DEF Live, Threads
      <4>2. main' = "merge" /\ i' = i + 1
        BY <1>1, <4>1, Shapes DEF Merge, Loop, Threads
      <4> QED
        BY <2>3, <4>1, <4>2 DEF Live
    <3>2. CASE t = i
      BY <1>5, <2>3, <3>2
    <3>3. CASE t # i /\ ~Live(t)
      BY <1>3, <1>5, <2>3, <3>3
    <3> QED
      BY <3>1, <3>2, <3>3
  <2> QED
    BY <2>1, <2>2, <2>3
<1> QED
  BY <1>4, <1>6, <1>7, <1>10, SharesMade

LEMMA SharingStep ==
  ASSUME Inv, MainLoop, Owners, Sharing, [Next]_vars
  PROVE  Sharing'
<1>1. PICK share : Shares(share)
  BY DEF Sharing
<1>2. ASSUME CountedJobs' = CountedJobs, UNCHANGED <<popcounts, andcounts>>,
             \A t \in Threads : Live(t)' <=> Live(t)
      PROVE  Sharing'
  <2>1. \A t \in Threads, c \in Counters : Value(t, c)' = Value(t, c)
    BY <1>2, ValuesKept
  <2> QED
    BY <1>1, <1>2, <2>1, SharesKept
<1>3. CASE UNCHANGED vars
  <2>1. CountedJobs' = CountedJobs /\ UNCHANGED <<popcounts, andcounts, main, i>>
    BY <1>3 DEF vars, thread, CountedJobs, Jobs
  <2> QED
    BY <1>2, <2>1 DEF Live
<1>4. ASSUME NEW t \in Threads, Claim(t) PROVE Sharing'
  <2>1. UNCHANGED <<popcounts, andcounts, main, i>>
    BY <1>4 DEF Claim
  <2> QED
    BY <1>2, <1>4, <2>1, CountedAfterClaim DEF Live
<1>5. ASSUME NEW t \in Threads, Leave(t) PROVE Sharing'
  <2>1. UNCHANGED <<popcounts, andcounts, main, i>>
    BY <1>5 DEF Leave
  <2> QED
    BY <1>2, <1>5, <2>1, CountedAfterLeave DEF Live
<1>6. ASSUME NEW t \in Threads, Flip(t) PROVE Sharing'
  BY <1>1, <1>6, SharesAfterFlip
<1>7. CASE Spawn
  <2>1. UNCHANGED <<popcounts, andcounts>> /\ main = "spawn" /\ main' \in {"spawn", "join"}
    BY <1>7 DEF Spawn, Loop
  <2> QED
    BY <1>2, <1>7, <2>1, CountedAfterMain DEF Live, BicTestImpl
<1>8. CASE Join
  <2>1. /\ UNCHANGED <<popcounts, andcounts>> /\ main = "join"
        /\ \/ main' = "join"
           \/ main' = "merge" /\ i' = 1
           \/ main' = "report" /\ ~(g_NCPU > 1)
    BY <1>8 DEF Join, Loop, thread
  <2>2. \A t \in Threads : Live(t)' <=> Live(t)
    BY <2>1, Shapes DEF Live, Threads
  <2> QED
    BY <1>2, <1>8, <2>1, <2>2, CountedAfterMain DEF BicTestImpl
<1>9. CASE Merge
  BY <1>1, <1>9, SharesAfterMerge
<1>10. CASE ReportChiSqIndep
  <2>1. UNCHANGED <<popcounts, andcounts>> /\ main = "report" /\ main' \in {"report", "done"}
    BY <1>10 DEF ReportChiSqIndep, thread
  <2> QED
    BY <1>2, <1>10, <2>1, CountedAfterMain DEF Live, BicTestImpl
<1> QED
  BY <1>3, <1>4, <1>5, <1>6, <1>7, <1>8, <1>9, <1>10 DEF Next, BicTestImpl, BicTestBatch

-----------------------------------------------------------------------------
(* The pairs in the order of the report, which is that of their counters.  *)

LEMMA Flattening ==
  ASSUME NEW V, NEW rows \in Seq(Seq(V)), Len(rows) > 0
  PROVE  \E f \in [1 .. Len(rows) -> Seq(V)] :
           /\ f[1] = rows[1]
           /\ \A k \in 2 .. Len(rows) : f[k] = f[k-1] \o rows[k]
           /\ FlattenSeq(rows) = f[Len(rows)]
<1> DEFINE D == 1 .. Len(rows)
           F == [p \in Nat \X Seq(V) |-> IF p[1] + 2 \in D THEN p[2] \o rows[p[1] + 2] ELSE p[2]]
           P(f) == f = [k \in D |-> IF k = 1 THEN rows[k] ELSE f[k-1] \o rows[k]]
<1>1. \A k \in D : rows[k] \in Seq(V)
  OBVIOUS
<1>2. PICK g : Recurs(g, Seq(V), rows[1], F)
  <2>1. rows[1] \in Seq(V)
    BY <1>1
  <2>2. \A s \in Seq(V), k \in D : s \o rows[k] \in Seq(V)
    BY <1>1
  <2>3. StepOn(F, Seq(V))
    <3> HIDE DEF D
    <3> QED
      BY <2>2 DEF StepOn
  <2> HIDE DEF F
  <2> QED
    BY <2>1, <2>3, Recursion
<1>3. /\ g \in [Nat -> Seq(V)] /\ g[0] = rows[1]
      /\ \A n \in Nat : g[n+1] = IF n + 2 \in D THEN g[n] \o rows[n + 2] ELSE g[n]
  <2>1. /\ g \in [Nat -> Seq(V)] /\ g[0] = rows[1]
        /\ \A n \in Nat : g[n+1] = F[<<n, g[n]>>]
    BY <1>2 DEF Recurs
  <2>2. ASSUME NEW n \in Nat PROVE F[<<n, g[n]>>] = IF n + 2 \in D THEN g[n] \o rows[n + 2] ELSE g[n]
    <3>1. <<n, g[n]>> \in Nat \X Seq(V)
      BY <2>1
    <3> HIDE DEF D
    <3> QED
      BY <3>1
  <2> HIDE DEF F
  <2> QED
    BY <2>1, <2>2
<1> DEFINE f0 == [k \in D |-> g[k-1]]
<1>4. f0 \in [D -> Seq(V)] /\ f0[1] = rows[1]
  <2>1. \A k \in D : k - 1 \in Nat
    OBVIOUS
  <2>2. 1 \in D /\ 1 - 1 = 0
    OBVIOUS
  <2> HIDE DEF D
  <2>3. f0[1] = g[0]
    BY <2>2
  <2> QED
    BY <1>3, <2>1, <2>3
<1>5. \A k \in D : k # 1 => f0[k] = f0[k-1] \o rows[k]
  <2> SUFFICES ASSUME NEW k \in D, k # 1 PROVE f0[k] = f0[k-1] \o rows[k]
    OBVIOUS
  <2>1. k - 2 \in Nat /\ (k - 2) + 1 = k - 1 /\ (k - 2) + 2 = k /\ k - 1 \in D /\ (k - 1) - 1 = k - 2
    OBVIOUS
  <2>2. g[(k - 2) + 1] = g[k - 2] \o rows[(k - 2) + 2]
    BY <1>3, <2>1
  <2> QED
    BY <2>1, <2>2
<1>6. P(f0)
  <2> HIDE DEF f0
  <2>1. f0 = [k \in D |-> f0[k]]
    BY <1>4
  <2> QED
    BY <1>4, <1>5, <2>1
<1> DEFINE f == CHOOSE h : P(h)
<1>7. FlattenSeq(rows) = f[Len(rows)]
  BY DEF FlattenSeq
<1>8. P(f)
  <2> HIDE DEF P
  <2> QED
    BY <1>6
<1>9. ASSUME NEW h, P(h) PROVE h[1] = rows[1] /\ \A k \in D : k # 1 => h[k] = h[k-1] \o rows[k]
  <2>1. 1 \in D
    OBVIOUS
  <2>2. \A k \in D : h[k] = IF k = 1 THEN rows[k] ELSE h[k-1] \o rows[k]
    <3> HIDE DEF D
    <3> QED
      BY <1>9
  <2> HIDE DEF D
  <2> QED
    BY <2>1, <2>2
<1> HIDE DEF f0
<1>10. \A h : P(h) => h \in [D -> Seq(V)]
  <2> SUFFICES ASSUME NEW h, P(h) PROVE h \in [D -> Seq(V)]
    OBVIOUS
  <2> DEFINE S == {n \in Nat : n + 1 \in D => h[n+1] \in Seq(V)}
  <2>1. 0 \in S
    BY <1>1
  <2>2. ASSUME NEW n \in S PROVE n + 1 \in S
    <3>1. n \in Nat /\ n + 1 \in Nat
      OBVIOUS
    <3> SUFFICES ASSUME (n + 1) + 1 \in D PROVE h[(n + 1) + 1] \in Seq(V)
      BY <3>1
    <3>2. n + 1 \in D /\ (n + 1) + 1 # 1 /\ ((n + 1) + 1) - 1 = n + 1
      BY <3>1
    <3>3. h[n + 1] \in Seq(V)
      BY <3>2
    <3>4. h[(n + 1) + 1] = h[n + 1] \o rows[(n + 1) + 1]
      BY <1>9, <3>2
    <3>5. rows[(n + 1) + 1] \in Seq(V)
      BY <1>1
    <3>6. \A s, r \in Seq(V) : s \o r \in Seq(V)
      OBVIOUS
    <3> QED
      BY ONLY <3>3, <3>4, <3>5, <3>6
  <2>3. S \in SUBSET Nat
    OBVIOUS
  <2>4. S = Nat
    <3> HIDE DEF S
    <3> QED
      BY <2>1, <2>2, <2>3, AllNaturals
  <2>5. \A k \in D : k - 1 \in Nat /\ (k - 1) + 1 = k
    OBVIOUS
  <2>6. \A k \in D : h[k] \in Seq(V)
    BY <2>4, <2>5
  <2>7. h = [k \in D |-> h[k]]
    <3>1. DOMAIN h = D
      OBVIOUS
    <3> QED
      BY <3>1
  <2> QED
    BY <2>6, <2>7
<1> HIDE DEF P, f
<1>11. f \in [D -> Seq(V)] /\ f[1] = rows[1] /\ \A k \in 2 .. Len(rows) : f[k] = f[k-1] \o rows[k]
  <2>1. f \in [D -> Seq(V)] /\ f[1] = rows[1] /\ \A k \in D : k # 1 => f[k] = f[k-1] \o rows[k]
    BY <1>8, <1>9, <1>10
  <2>2. \A k \in 2 .. Len(rows) : k \in D /\ k # 1
    OBVIOUS
  <2> HIDE DEF D
  <2> QED
    BY <2>1, <2>2
<1> QED
  BY <1>7, <1>11

LEMMA ManyBits == hashbits >= 2
<1>1. hashbits # 1
  <2> SUFFICES ASSUME hashbits = 1 PROVE FALSE
    OBVIOUS
  <2> QED
    BY EvenHash
<1> QED
  BY <1>1, Shapes

(* The first m rows: each lower bit with each bit above it.                *)
Flat(s, m) ==
  /\ s \in Seq(HashBits \X HashBits)
  /\ Len(s) = RowStart(m)
  /\ \A a \in 0 .. m-1 : \A n \in 1 .. hashbits-1 - a :
       RowStart(a) + n \in 1 .. Len(s) /\ s[RowStart(a) + n] = <<a, a + n>>
  /\ \A x \in 1 .. Len(s) : \E a \in 0 .. m-1 : \E n \in 1 .. hashbits-1 - a : x = RowStart(a) + n

LEMMA FlatMore ==
  ASSUME NEW m \in Nat, m < hashbits-1, NEW s, Flat(s, m),
         NEW r \in Seq(HashBits \X HashBits), Len(r) = hashbits-1 - m,
         \A n \in 1 .. hashbits-1 - m : r[n] = <<m, m + n>>
  PROVE  Flat(s \o r, m + 1)
<1> DEFINE z == s \o r
           d == hashbits-1 - m
           e == Len(s)
           V == HashBits \X HashBits
<1>1. /\ s \in Seq(V) /\ r \in Seq(V) /\ e \in Nat /\ e = RowStart(m)
      /\ d \in Nat /\ Len(r) = d /\ e + d = RowStart(m + 1)
  BY RowAfter, Shapes DEF Flat
<1> HIDE DEF V
<1>2. \A p, q \in Seq(V) :
        /\ p \o q \in Seq(V) /\ Len(p \o q) = Len(p) + Len(q)
        /\ \A x \in 1 .. Len(p) : (p \o q)[x] = p[x]
        /\ \A x \in 1 .. Len(q) : (p \o q)[Len(p) + x] = q[x]
  OBVIOUS
<1>3. /\ z \in Seq(V) /\ Len(z) = e + d
      /\ \A x \in 1 .. e : z[x] = s[x]
      /\ \A x \in 1 .. d : z[e + x] = r[x]
  <2>1. /\ z \in Seq(V) /\ Len(z) = Len(s) + Len(r)
        /\ \A x \in 1 .. Len(s) : z[x] = s[x]
        /\ \A x \in 1 .. Len(r) : z[Len(s) + x] = r[x]
    BY ONLY <1>1, <1>2, Zenon
  <2>2. Len(s) = e /\ Len(r) = d
    BY <1>1
  <2> HIDE DEF z, d, e
  <2> QED
    BY ONLY <2>1, <2>2
<1>4. Len(z) = RowStart(m + 1)
  BY <1>1, <1>3
<1> HIDE DEF z
<1>5. ASSUME NEW a \in 0 .. m, NEW n \in 1 .. hashbits-1 - a
      PROVE  RowStart(a) + n \in 1 .. Len(z) /\ z[RowStart(a) + n] = <<a, a + n>>
  <2>1. CASE a = m
    <3>1. n \in 1 .. d /\ r[n] = <<m, m + n>>
      BY <2>1
    <3> HIDE DEF d, e
    <3>2. z[e + n] = r[n]
      BY <1>3, <3>1
    <3>3. e + n \in 1 .. e + d
      <4>1. e \in Nat /\ d \in Nat
        BY <1>1
      <4> QED
        BY ONLY <3>1, <4>1
    <3> QED
      BY <1>1, <1>3, <2>1, <3>1, <3>2, <3>3
  <2>2. CASE a # m
    <3>1. a \in 0 .. m-1
      BY <2>2
    <3>2. RowStart(a) + n \in 1 .. e /\ s[RowStart(a) + n] = <<a, a + n>>
      BY <3>1 DEF Flat
    <3> HIDE DEF d, e
    <3> DEFINE x == RowStart(a) + n
    <3>3. x \in 1 .. e /\ s[x] = <<a, a + n>>
      BY <3>2
    <3> HIDE DEF x
    <3>4. x \in 1 .. Len(z) /\ z[x] = <<a, a + n>>
      BY <1>1, <1>3, <3>3
    <3> QED
      BY <3>4 DEF x
  <2> QED
    BY <2>1, <2>2
<1>6. ASSUME NEW x \in 1 .. Len(z)
      PROVE  \E a \in 0 .. m : \E n \in 1 .. hashbits-1 - a : x = RowStart(a) + n
  <2>1. CASE x \in 1 .. e
    <3>1. PICK a \in 0 .. m-1 : \E n \in 1 .. hashbits-1 - a : x = RowStart(a) + n
      BY <2>1 DEF Flat
    <3>2. a \in 0 .. m
      OBVIOUS
    <3> QED
      BY <3>1, <3>2
  <2>2. CASE x \notin 1 .. e
    <3>1. x - e \in 1 .. d /\ x = e + (x - e)
      BY <1>1, <1>3, <2>2
    <3>2. m \in 0 .. m
      OBVIOUS
    <3> QED
      BY <1>1, <3>1, <3>2
  <2> QED
    BY <2>1, <2>2
<1>7. (m + 1) - 1 = m
  OBVIOUS
<1>8. /\ z \in Seq(V) /\ Len(z) = RowStart(m + 1)
      /\ \A a \in 0 .. (m + 1) - 1 : \A n \in 1 .. hashbits-1 - a :
           RowStart(a) + n \in 1 .. Len(z) /\ z[RowStart(a) + n] = <<a, a + n>>
      /\ \A x \in 1 .. Len(z) :
           \E a \in 0 .. (m + 1) - 1 : \E n \in 1 .. hashbits-1 - a : x = RowStart(a) + n
  BY ONLY <1>3, <1>4, <1>5, <1>6, <1>7
<1>9. Flat(z, m + 1)
  BY ONLY <1>8 DEF Flat, V
<1> QED
  BY <1>9 DEF z

LEMMA OutPairsFlat == Flat(OutPairs, hashbits-1)
<1> DEFINE V == HashBits \X HashBits
           rows == [out \in 1 .. hashbits-1 |->
                     [n \in 1 .. hashbits-out |-> <<out - 1, out - 1 + n>>]]
<1>1. ASSUME NEW m \in Nat, m < hashbits-1
      PROVE  /\ m + 1 \in 1 .. hashbits-1
             /\ rows[m + 1] \in Seq(V) /\ Len(rows[m + 1]) = hashbits-1 - m
             /\ \A n \in 1 .. hashbits-1 - m : rows[m + 1][n] = <<m, m + n>>
  <2>1. m + 1 \in 1 .. hashbits-1 /\ hashbits - (m + 1) = hashbits-1 - m /\ (m + 1) - 1 = m
        /\ hashbits-1 - m \in Nat
    BY <1>1, Shapes
  <2>2. rows[m + 1] = [n \in 1 .. hashbits-1 - m |-> <<m, m + n>>]
    BY <2>1
  <2>3. \A n \in 1 .. hashbits-1 - m : <<m, m + n>> \in V
    BY <1>1, Shapes DEF HashBits
  <2> DEFINE d == hashbits-1 - m
             r == [n \in 1 .. d |-> <<m, m + n>>]
  <2> HIDE DEF V, rows
  <2>4. r \in [1 .. d -> V]
    BY <2>3
  <2>5. r \in Seq(V) /\ Len(r) = d
    <3> HIDE DEF r, d
    <3> QED
      BY <2>1, <2>4 DEF d
  <2>6. \A n \in 1 .. hashbits-1 - m : r[n] = <<m, m + n>>
    OBVIOUS
  <2> HIDE DEF r
  <2> QED
    BY <2>1, <2>2, <2>5, <2>6 DEF r
<1>2. rows \in Seq(Seq(V)) /\ Len(rows) = hashbits-1 /\ hashbits-1 \in Nat /\ hashbits-1 > 0
  <2>1. hashbits-1 \in Nat /\ hashbits-1 > 0
    BY ManyBits, Shapes
  <2>2. \A k \in 1 .. hashbits-1 : rows[k] \in Seq(V)
    <3> SUFFICES ASSUME NEW k \in 1 .. hashbits-1 PROVE rows[k] \in Seq(V)
      OBVIOUS
    <3>1. k - 1 \in Nat /\ k - 1 < hashbits-1 /\ (k - 1) + 1 = k
      BY Shapes
    <3>2. rows[(k - 1) + 1] \in Seq(V)
      BY <1>1, <3>1
    <3> QED
      BY <3>1, <3>2
  <2>3. DOMAIN rows = 1 .. hashbits-1 /\ rows = [k \in 1 .. hashbits-1 |-> rows[k]]
    OBVIOUS
  <2> HIDE DEF rows, V
  <2> QED
    BY <2>1, <2>2, <2>3
<1>3. OutPairs = FlattenSeq(rows)
  BY DEF OutPairs
<1> HIDE DEF rows, V
<1>4. PICK f \in [1 .. Len(rows) -> Seq(V)] :
        /\ f[1] = rows[1]
        /\ \A k \in 2 .. Len(rows) : f[k] = f[k-1] \o rows[k]
        /\ FlattenSeq(rows) = f[Len(rows)]
  BY <1>2, Flattening
<1> DEFINE S == {m \in Nat : m + 1 <= hashbits-1 => Flat(f[m + 1], m + 1)}
<1>5. 0 \in S
  <2>1. Flat(<<>>, 0)
    <3>1. <<>> \in Seq(HashBits \X HashBits) /\ Len(<<>>) = 0
      OBVIOUS
    <3> QED
      BY <3>1, NoRow DEF Flat
  <2>2. /\ rows[0 + 1] \in Seq(V) /\ Len(rows[0 + 1]) = hashbits-1 - 0
        /\ \A n \in 1 .. hashbits-1 - 0 : rows[0 + 1][n] = <<0, 0 + n>>
    BY <1>1, <1>2
  <2>3. Flat(<<>> \o rows[0 + 1], 0 + 1)
    BY <1>2, <2>1, <2>2, FlatMore DEF V
  <2>4. <<>> \o rows[0 + 1] = f[0 + 1]
    BY <1>4, <2>2
  <2> QED
    BY <2>3, <2>4
<1>6. ASSUME NEW m \in S PROVE m + 1 \in S
  <2>1. m \in Nat /\ m + 1 \in Nat
    OBVIOUS
  <2> SUFFICES ASSUME (m + 1) + 1 <= hashbits-1 PROVE Flat(f[(m + 1) + 1], (m + 1) + 1)
    BY <2>1
  <2>2. Flat(f[m + 1], m + 1) /\ m + 1 < hashbits-1
    BY <1>2, <2>1
  <2>3. f[(m + 1) + 1] = f[m + 1] \o rows[(m + 1) + 1]
    <3>1. (m + 1) + 1 \in 2 .. Len(rows) /\ ((m + 1) + 1) - 1 = m + 1
      BY <1>2, <2>1
    <3> QED
      BY <1>4, <3>1
  <2> DEFINE q == m + 1
  <2>4. q \in Nat /\ q < hashbits-1 /\ Flat(f[q], q)
    BY <2>1, <2>2
  <2>5. f[q + 1] = f[q] \o rows[q + 1]
    BY <2>3
  <2> HIDE DEF q
  <2>6. /\ rows[q + 1] \in Seq(V) /\ Len(rows[q + 1]) = hashbits-1 - q
        /\ \A n \in 1 .. hashbits-1 - q : rows[q + 1][n] = <<q, q + n>>
    BY <1>1, <2>4
  <2>7. Flat(f[q] \o rows[q + 1], q + 1)
    BY <2>4, <2>6, FlatMore DEF V
  <2> QED
    BY <2>5, <2>7 DEF q
<1>7. S = Nat
  <2>1. S \in SUBSET Nat
    OBVIOUS
  <2> HIDE DEF S
  <2> QED
    BY <1>5, <1>6, <2>1, AllNaturals
<1>8. hashbits-1 - 1 \in S /\ (hashbits-1 - 1) + 1 = hashbits-1
  BY <1>2, <1>7
<1>9. Flat(f[hashbits-1], hashbits-1)
  BY <1>2, <1>8
<1> QED
  BY <1>2, <1>3, <1>4, <1>9

(* The place in the report of the pair of out1 and its nth bit above.      *)
LEMMA PlaceOf ==
  ASSUME NEW c \in Pairs
  PROVE  /\ Place[<<c[2], c[3]>>] = RowStart(c[2]) + (c[3] - c[2])
         /\ Place[<<c[2], c[3]>>] \in 1 .. Len(OutPairs)
         /\ OutPairs[Place[<<c[2], c[3]>>]] = <<c[2], c[3]>>
<1> DEFINE a == c[2]
           n == c[3] - c[2]
           p == <<c[2], c[3]>>
           x == RowStart(a) + n
           P(y) == y \in DOMAIN OutPairs /\ OutPairs[y] = p
<1>1. Flat(OutPairs, hashbits-1)
  BY OutPairsFlat
<1>2. /\ a \in 0 .. (hashbits-1) - 1 /\ n \in 1 .. hashbits-1 - a /\ a + n = c[3]
      /\ DOMAIN OutPairs = 1 .. Len(OutPairs)
  <2>1. DOMAIN OutPairs = 1 .. Len(OutPairs)
    BY <1>1 DEF Flat
  <2>2. /\ c[2] \in Nat /\ c[3] \in Nat /\ c[2] < c[3] /\ c[3] < hashbits
    BY PairParts
  <2> QED
    BY <2>1, <2>2, Shapes
<1>3. P(x)
  BY <1>1, <1>2 DEF Flat
<1>4. ASSUME NEW y, P(y) PROVE y = x
  <2>1. PICK b \in 0 .. (hashbits-1) - 1 : \E m \in 1 .. hashbits-1 - b : y = RowStart(b) + m
    BY <1>1, <1>2, <1>4 DEF Flat
  <2>2. PICK m \in 1 .. hashbits-1 - b : y = RowStart(b) + m
    BY <2>1
  <2>3. OutPairs[y] = <<b, b + m>>
    BY <1>1, <2>1, <2>2 DEF Flat
  <2>4. b = a /\ b + m = c[3]
    BY <1>4, <2>3
  <2>5. m = n
    BY <1>2, <2>4, <2>1, <2>2, Shapes
  <2> QED
    BY <2>2, <2>4, <2>5
<1>5. Place[p] = CHOOSE y \in DOMAIN OutPairs : OutPairs[y] = p
  <2>1. p \in {OutPairs[y] : y \in DOMAIN OutPairs}
    BY <1>3
  <2> HIDE DEF p
  <2> QED
    BY <2>1 DEF Place
<1>6. Place[p] = CHOOSE y : P(y)
  BY <1>5
<1>7. P(CHOOSE y : P(y))
  <2> HIDE DEF P
  <2> QED
    BY <1>3
<1>8. Place[p] = x
  <2> HIDE DEF P, p, x
  <2> QED
    BY <1>4, <1>6, <1>7
<1> QED
  BY <1>2, <1>3, <1>8


-----------------------------------------------------------------------------
(* What the report reads for a pair is the counter of that pair.           *)
LEMMA ReadIsValue ==
  ASSUME NEW c \in Counters
  PROVE  Read(c[1], c[2], c[3]) = Value(0, c)
<1>1. CASE c[2] = c[3]
  BY <1>1 DEF Read, Value
<1>2. CASE c[2] # c[3]
  <2>1. c \in Pairs /\ c[1] \in Nat
    BY <1>2, CounterParts
  <2>2. Place[<<c[2], c[3]>>] = RowStart(c[2]) + (c[3] - c[2])
    BY <2>1, PlaceOf
  <2>3. /\ Cell(c) - 1 = c[1] * hashbitpairs + (RowStart(c[2]) + (c[3] - c[2] - 1))
        /\ RowStart(c[2]) \in Nat /\ Cell(c) \in Nat
    BY <2>1, CellInBlock
  <2>4. c[1] * hashbitpairs \in Nat /\ c[2] \in Nat /\ c[3] \in Nat
    BY <2>1, EvenHash, PairParts
  <2>5. c[1] * hashbitpairs + Place[<<c[2], c[3]>>] = Cell(c)
    <3> DEFINE x == c[1] * hashbitpairs
               y == RowStart(c[2])
               z == Cell(c)
    <3>1. /\ z - 1 = x + (y + (c[3] - c[2] - 1)) /\ x \in Nat /\ y \in Nat /\ z \in Nat
          /\ Place[<<c[2], c[3]>>] = y + (c[3] - c[2])
      BY <2>2, <2>3, <2>4
    <3> HIDE DEF x, y, z
    <3>2. x + (y + (c[3] - c[2])) = z
      BY ONLY <2>4, <3>1
    <3> QED
      BY <3>1, <3>2 DEF x, z
  <2> QED
    BY <1>2, <2>5 DEF Read, Value
<1> QED
  BY <1>1, <1>2

-----------------------------------------------------------------------------
LEMMA SharingInit ==
  ASSUME Init
  PROVE  Sharing
<1> DEFINE share == [t \in Threads |-> {}]
<1>1. CountedJobs = {}
  BY DEF CountedJobs, Init, Jobs
<1>2. UNION {share[t] : t \in Threads} = {}
  OBVIOUS
<1>3. ASSUME NEW t \in Threads, NEW c \in Counters
      PROVE  Value(t, c) = CountOf(share[t], c)
  <2>1. c[1] \in Nat /\ c[1] < keybits /\ c[2] \in HashBits /\ (c[2] # c[3] => c \in Pairs)
    BY CounterParts
  <2>2. Value(t, c) = 0
    <3>1. CASE c[2] = c[3]
      <4>1. c[1] * hashbits + c[2] \in PopCells
        <5> DEFINE f == c[1] * hashbits
        <5>1. f \in Nat /\ f .. f + hashbits-1 \subseteq PopCells
          BY <2>1, PopInRange, BlockInRange, Shapes
        <5> HIDE DEF f
        <5>2. f + c[2] \in f .. f + hashbits-1
          BY <2>1, <5>1, Shapes DEF HashBits
        <5> QED
          BY <5>1, <5>2 DEF f
      <4> QED
        BY <3>1, <4>1 DEF Value, Init
    <3>2. CASE c[2] # c[3]
      <4>1. Cell(c) \in AndCells
        BY <2>1, <3>2, CellInBlock
      <4> QED
        BY <3>2, <4>1 DEF Value, Init
    <3> QED
      BY <3>1, <3>2
  <2> QED
    BY <2>2, CountOfNone
<1> HIDE DEF share
<1>4. /\ share \in [Threads -> SUBSET Jobs] /\ \A t \in Threads : share[t] = {}
      /\ main = "spawn"
  BY DEF share, Init
<1>5. Shares(share)
  BY <1>1, <1>2, <1>3, <1>4 DEF Shares, Live
<1> QED
  BY <1>5 DEF Sharing

Counting == Inv /\ MainLoop /\ Owners /\ Sharing

LEMMA Invariance == Spec => []Counting
<1>1. Init => MainLoop /\ Owners
  BY Shapes DEF Init, MainLoop, Owners, Threads
<1>2. Init => Counting
  BY <1>1, InvInit, SharingInit DEF Counting
<1>3. Counting /\ [Next]_vars => Counting'
  BY InvStep, MainLoopStep, OwnersStep, SharingStep DEF Counting
<1> QED
  BY <1>2, <1>3, PTL DEF Spec

(* When the threads are joined and merged the first one's vectors hold all.*)
LEMMA AllInFirst ==
  ASSUME Counting, main \in {"report", "done"}, NEW c \in Counters
  PROVE  Read(c[1], c[2], c[3]) = Cardinality({j \in Jobs : c \in ChangedBy(j)})
<1>1. PICK share : Shares(share)
  BY DEF Counting, Sharing
<1>2. CountedJobs = Jobs
  BY AllCounted DEF Counting, MainLoop
<1>3. \A t \in Threads : t # 0 => share[t] = {}
  BY <1>1 DEF Shares, Live
<1>4. share[0] = Jobs
  BY <1>1, <1>2, <1>3, Shapes DEF Shares
<1>5. Value(0, c) = CountOf(Jobs, c)
  BY <1>1, <1>4, Shapes DEF Shares, Live
<1> QED
  BY <1>5, ReadIsValue DEF CountOf

-----------------------------------------------------------------------------
(* Each step counts one more job, reports, or leaves both as they are.     *)
Reported ==
  IF main = "done" THEN [c \in Counters |-> Read(c[1], c[2], c[3])] ELSE NoReport

LEMMA PromiseInit == Init => Promise!Init
BY DEF Init, Promise!Init, CountedJobs, Jobs

LEMMA ReportKept ==
  ASSUME UNCHANGED <<popcounts, andcounts>>, (main = "done") <=> (main' = "done")
  PROVE  Reported' = Reported
<1>1. CASE main = "done"
  BY <1>1 DEF Reported, Read, hashbitpairs
<1>2. CASE main # "done"
  BY <1>2 DEF Reported
<1> QED
  BY <1>1, <1>2

LEMMA PromiseStep ==
  ASSUME Counting, [Next]_vars
  PROVE  [Promise!Next]_<<CountedJobs, Reported>>
<1> USE DEF Counting
<1>1. CASE UNCHANGED vars
  <2>1. UNCHANGED CountedJobs
    BY <1>1 DEF vars, thread, CountedJobs, Jobs
  <2>2. UNCHANGED <<popcounts, andcounts>> /\ main' = main
    BY <1>1 DEF vars, thread
  <2> QED
    BY <2>1, <2>2, ReportKept
<1>2. ASSUME NEW t \in Threads, Claim(t) PROVE UNCHANGED <<CountedJobs, Reported>>
  BY <1>2, CountedAfterClaim, ReportKept DEF Claim
<1>3. ASSUME NEW t \in Threads, Leave(t) PROVE UNCHANGED <<CountedJobs, Reported>>
  BY <1>3, CountedAfterLeave, ReportKept DEF Leave
<1>4. ASSUME NEW t \in Threads, Flip(t)
      PROVE  \E j \in Jobs \ CountedJobs : CountedJobs' = CountedJobs \cup {j} /\ UNCHANGED Reported
  <2>1. main # "done" /\ main' = main
    BY <1>4 DEF Flip, MainLoop
  <2>2. UNCHANGED Reported
    BY <2>1 DEF Reported
  <2> QED
    BY <1>4, <2>2, CountedAfterFlip
<1>5. CASE Spawn \/ Join \/ Merge
  <2>1. UNCHANGED CountedJobs
    BY <1>5, CountedAfterMain DEF BicTestImpl
  <2>2. main # "done" /\ main' # "done"
    BY <1>5 DEF Spawn, Join, Merge, Loop
  <2> QED
    BY <2>1, <2>2 DEF Reported
<1>6. CASE ReportChiSqIndep /\ main' # "done"
  <2>1. UNCHANGED CountedJobs
    BY <1>6, CountedAfterMain DEF BicTestImpl
  <2>2. main # "done"
    BY <1>6 DEF ReportChiSqIndep
  <2> QED
    BY <1>6, <2>1, <2>2 DEF Reported
<1>7. CASE ReportChiSqIndep /\ main' = "done"
  <2>1. main = "report" /\ UNCHANGED <<popcounts, andcounts>>
    BY <1>7 DEF ReportChiSqIndep, thread
  <2>2. UNCHANGED CountedJobs
    BY <1>7, CountedAfterMain DEF BicTestImpl
  <2>3. CountedJobs = Jobs
    BY <2>1, AllCounted DEF MainLoop
  <2>4. Reported = NoReport /\ Reported' = [c \in Counters |-> Read(c[1], c[2], c[3])']
    BY <1>7, <2>1 DEF Reported
  <2>5. \A c \in Counters : Read(c[1], c[2], c[3])' = Cardinality({j \in Jobs : c \in ChangedBy(j)})
    <3>1. ASSUME NEW c \in Counters
          PROVE  Read(c[1], c[2], c[3])' = Read(c[1], c[2], c[3])
      BY <2>1 DEF Read, hashbitpairs
    <3> QED
      BY <2>1, <3>1, AllInFirst
  <2>6. \A c : {j \in Jobs : c \in [a \in Jobs |-> ChangedBy(a)][j]}
                 = {j \in Jobs : c \in ChangedBy(j)}
    OBVIOUS
  <2>7. Reported' = [c \in Counters |->
                      Cardinality({j \in Jobs : c \in [a \in Jobs |-> ChangedBy(a)][j]})]
    BY <2>4, <2>5, <2>6
  <2>8. \A S : Promise!Cardinality(S) = Cardinality(S)
    BY DEF Promise!Cardinality, Cardinality
  <2> QED
    BY <2>2, <2>3, <2>4, <2>7, <2>8 DEF Promise!Next, Promise!Report, Reported
<1> QED
  BY <1>1, <1>2, <1>3, <1>4, <1>5, <1>6, <1>7
  DEF Next, BicTestImpl, BicTestBatch, Promise!Next, Promise!Count, Reported

(***************************************************************************)
(* What the report reads for each bit and each pair of bits is, whatever   *)
(* the threads' schedule and however rows and words lie in the vectors,    *)
(* the number of flips that changed it, each flip counted once.            *)
(***************************************************************************)
THEOREM Implementation == Spec => ImplementsBiasCount
<1>1. Init => Promise!Init
  BY PromiseInit
<1>2. Counting /\ [Next]_vars => [Promise!Next]_<<CountedJobs, Reported>>
  BY PromiseStep
<1> QED
  BY <1>1, <1>2, Invariance, PTL DEF Spec, ImplementsBiasCount, Promise!Spec, Reported


-----------------------------------------------------------------------------
(* The boxes rebuilt from the counters are the table of the flips.         *)

Inputs(k, B) == {r \in 0 .. reps-1 : B \subseteq changed[r][k]}

LEMMA InputsCounted ==
  ASSUME NEW c \in Counters
  PROVE  Cardinality({j \in Jobs : c \in ChangedBy(j)}) = Cardinality(Inputs(c[1], {c[2], c[3]}))
<1> DEFINE S == Inputs(c[1], {c[2], c[3]})
           T == {j \in Jobs : c \in ChangedBy(j)}
           f == [r \in S |-> <<r, c[1]>>]
<1>1. c[1] \in 0 .. keybits-1
  BY CounterParts, Shapes
<1>2. IsFiniteSet(S)
  <2>1. IsFiniteSet(0 .. reps-1)
    BY FS_Interval, Shapes
  <2>2. S \in SUBSET (0 .. reps-1)
    BY DEF Inputs
  <2> HIDE DEF S
  <2> QED
    BY <2>1, <2>2, FS_Subset
<1>3. f \in [S -> T]
  BY <1>1 DEF Inputs, Jobs, ChangedBy
<1>4. \A r, q \in S : f[r] = f[q] => r = q
  OBVIOUS
<1>5. \A j \in T : \E r \in S : f[r] = j
  BY <1>1 DEF Inputs, Jobs, ChangedBy
<1> HIDE DEF S, T, f
<1>6. f \in Bijection(S, T)
  BY <1>3, <1>4, <1>5 DEF Bijection, Injection, Surjection, IsInjective
<1>7. ExistsBijection(S, T)
  BY <1>6 DEF ExistsBijection
<1> QED
  BY <1>2, <1>7, FS_Bijection DEF S, T

LEMMA TwoParts ==
  ASSUME NEW S, NEW T, NEW U, IsFiniteSet(U), U = S \cup T, S \cap T = {}
  PROVE  /\ Cardinality(U) = Cardinality(S) + Cardinality(T)
         /\ Cardinality(S) \in Nat /\ Cardinality(T) \in Nat
<1>1. IsFiniteSet(S) /\ IsFiniteSet(T)
  BY FS_Subset
<1>2. Cardinality(S) \in Nat /\ Cardinality(T) \in Nat
  BY <1>1, FS_CardinalityType
<1>3. Cardinality(S \cup T) = Cardinality(S) + Cardinality(T) - Cardinality(S \cap T)
  BY <1>1, FS_Union
<1>4. Cardinality(S \cap T) = 0
  BY FS_EmptySet
<1> QED
  BY <1>2, <1>3, <1>4

(* Four counts of inputs that add up to all of them.                       *)
IsTable(boxes) ==
  /\ boxes = <<boxes[1], boxes[2], boxes[3], boxes[4]>>
  /\ boxes[1] \in Nat /\ boxes[2] \in Nat /\ boxes[3] \in Nat /\ boxes[4] \in Nat
  /\ boxes[1] + boxes[2] + boxes[3] + boxes[4] = reps

LEMMA BoxesAreTable ==
  ASSUME Counting, main \in {"report", "done"}, NEW c \in Pairs
  PROVE  Boxes(c[1], c[2], c[3]) = Table(c[1], c[2], c[3])
<1> DEFINE k == c[1]
           a == c[2]
           b == c[3]
           N(inA, inB) == {r \in 0 .. reps-1 : (a \in changed[r][k]) = inA /\ (b \in changed[r][k]) = inB}
           tt == N(TRUE, TRUE)
           ft == N(FALSE, TRUE)
           tf == N(TRUE, FALSE)
           ff == N(FALSE, FALSE)
<1>1. <<k, a, b>> \in Counters /\ <<k, a, a>> \in Counters /\ <<k, b, b>> \in Counters /\ a # b
  <2>1. k \in 0 .. keybits-1 /\ a \in HashBits /\ b \in HashBits /\ a \in Nat /\ b \in Nat /\ a < b
    BY PairParts DEF Pairs
  <2> HIDE DEF k, a, b
  <2> QED
    BY <2>1 DEF Counters
<1>2. /\ Read(k, a, b) = Cardinality(Inputs(k, {a, b}))
      /\ Read(k, a, a) = Cardinality(Inputs(k, {a, a}))
      /\ Read(k, b, b) = Cardinality(Inputs(k, {b, b}))
  <2>1. ASSUME NEW d \in Counters
        PROVE  Read(d[1], d[2], d[3]) = Cardinality(Inputs(d[1], {d[2], d[3]}))
    BY <2>1, AllInFirst, InputsCounted
  <2> HIDE DEF k, a, b
  <2> QED
    BY <1>1, <2>1
<1> HIDE DEF k, a, b
<1> DEFINE all == 0 .. reps-1
<1>3. IsFiniteSet(all) /\ Cardinality(all) = reps /\ reps \in Nat
  BY FS_Interval, Shapes
<1>4. /\ Inputs(k, {a, b}) = tt
      /\ Inputs(k, {a, a}) = tt \cup tf /\ tt \cap tf = {}
      /\ Inputs(k, {b, b}) = tt \cup ft /\ tt \cap ft = {}
      /\ all = (tt \cup tf) \cup (ft \cup ff) /\ (tt \cup tf) \cap (ft \cup ff) = {}
      /\ ft \cap ff = {}
  BY DEF Inputs
<1>5. IsFiniteSet(tt \cup tf) /\ IsFiniteSet(tt \cup ft) /\ IsFiniteSet(ft \cup ff)
  <2>1. tt \cup tf \subseteq all /\ tt \cup ft \subseteq all /\ ft \cup ff \subseteq all
    OBVIOUS
  <2> HIDE DEF all, tt, tf, ft, ff
  <2> QED
    BY <1>3, <2>1, FS_Subset
<1>6. Table(k, a, b) = <<Cardinality(tt), Cardinality(ft), Cardinality(tf), Cardinality(ff)>>
  BY DEF Table
<1>7. Boxes(k, a, b) =
        <<Read(k, a, b), Read(k, b, b) - Read(k, a, b), Read(k, a, a) - Read(k, a, b),
          reps - Read(k, a, b) - (Read(k, b, b) - Read(k, a, b)) - (Read(k, a, a) - Read(k, a, b))>>
  BY DEF Boxes
<1> HIDE DEF all, tt, tf, ft, ff
<1>8. /\ Cardinality(tt \cup tf) = Cardinality(tt) + Cardinality(tf)
      /\ Cardinality(tt) \in Nat /\ Cardinality(tf) \in Nat
  BY <1>4, <1>5, TwoParts
<1>9. /\ Cardinality(tt \cup ft) = Cardinality(tt) + Cardinality(ft)
      /\ Cardinality(ft) \in Nat
  BY <1>4, <1>5, TwoParts
<1>10. /\ Cardinality(ft \cup ff) = Cardinality(ft) + Cardinality(ff)
       /\ Cardinality(ff) \in Nat
  BY <1>4, <1>5, TwoParts
<1>11. reps = Cardinality(tt \cup tf) + Cardinality(ft \cup ff)
  BY <1>3, <1>4, TwoParts
<1> DEFINE w == Cardinality(tt)
           x == Cardinality(ft)
           y == Cardinality(tf)
           z == Cardinality(ff)
<1>12. /\ Read(k, a, b) = w /\ Read(k, b, b) = w + x /\ Read(k, a, a) = w + y
       /\ w \in Nat /\ x \in Nat /\ y \in Nat /\ z \in Nat /\ reps = (w + y) + (x + z)
  BY <1>2, <1>4, <1>8, <1>9, <1>10, <1>11
<1>13. Table(k, a, b) = <<w, x, y, z>>
  BY <1>6
<1> HIDE DEF w, x, y, z
<1>14. /\ (w + x) - w = x /\ (w + y) - w = y
       /\ reps - w - x - y = z
  BY <1>12
<1>15. Boxes(k, a, b) = <<w, x, y, z>>
  BY <1>7, <1>12, <1>14
<1> QED
  BY <1>13, <1>15 DEF k, a, b

LEMMA TableParts ==
  ASSUME NEW c \in Pairs
  PROVE  IsTable(Table(c[1], c[2], c[3]))
<1> DEFINE k == c[1]
           a == c[2]
           b == c[3]
           N(inA, inB) == {r \in 0 .. reps-1 : (a \in changed[r][k]) = inA /\ (b \in changed[r][k]) = inB}
           tt == N(TRUE, TRUE)
           ft == N(FALSE, TRUE)
           tf == N(TRUE, FALSE)
           ff == N(FALSE, FALSE)
           all == 0 .. reps-1
<1>1. Table(k, a, b) = <<Cardinality(tt), Cardinality(ft), Cardinality(tf), Cardinality(ff)>>
  BY DEF Table
<1> HIDE DEF k, a, b
<1>2. IsFiniteSet(all) /\ Cardinality(all) = reps /\ reps \in Nat
  BY FS_Interval, Shapes
<1>3. /\ all = (tt \cup tf) \cup (ft \cup ff) /\ (tt \cup tf) \cap (ft \cup ff) = {}
      /\ tt \cap tf = {} /\ ft \cap ff = {}
      /\ tt \cup tf \subseteq all /\ ft \cup ff \subseteq all
  OBVIOUS
<1> HIDE DEF all, tt, tf, ft, ff
<1>4. IsFiniteSet(tt \cup tf) /\ IsFiniteSet(ft \cup ff)
  BY <1>2, <1>3, FS_Subset
<1>5. /\ Cardinality(tt \cup tf) = Cardinality(tt) + Cardinality(tf)
      /\ Cardinality(tt) \in Nat /\ Cardinality(tf) \in Nat
  BY <1>3, <1>4, TwoParts
<1>6. /\ Cardinality(ft \cup ff) = Cardinality(ft) + Cardinality(ff)
      /\ Cardinality(ft) \in Nat /\ Cardinality(ff) \in Nat
  BY <1>3, <1>4, TwoParts
<1>7. reps = Cardinality(tt \cup tf) + Cardinality(ft \cup ff)
  BY <1>2, <1>3, TwoParts
<1> DEFINE w == Cardinality(tt)
           x == Cardinality(ft)
           y == Cardinality(tf)
           z == Cardinality(ff)
           T == Table(k, a, b)
<1>8. /\ T = <<w, x, y, z>>
      /\ w \in Nat /\ x \in Nat /\ y \in Nat /\ z \in Nat /\ w + x + y + z = reps
  BY <1>1, <1>5, <1>6, <1>7
<1> HIDE DEF w, x, y, z, T
<1>9. IsTable(T)
  BY <1>8 DEF IsTable
<1> QED
  BY <1>9 DEF T, k, a, b

-----------------------------------------------------------------------------
(* The statistics are fractions that can be compared.                      *)

IsFraction(p) == p = <<p[1], p[2]>> /\ p[1] \in Nat /\ p[2] \in Nat /\ p[2] > 0

LEMMA SquareNat ==
  ASSUME NEW x \in Int
  PROVE  x * x \in Nat
<1>1. CASE x >= 0
  BY <1>1
<1>2. CASE x < 0
  <2>1. 0 - x \in Nat /\ (0 - x) * (0 - x) = x * x
    BY <1>2
  <2> QED
    BY <2>1
<1> QED
  BY <1>1, <1>2

LEMMA ProductPositive ==
  ASSUME NEW x \in Nat, NEW y \in Nat, x > 0, y > 0
  PROVE  x * y \in Nat /\ x * y > 0
OBVIOUS

LEMMA ValuesAreFractions ==
  ASSUME NEW boxes, IsTable(boxes)
  PROVE  IsFraction(ChiSqIndepValue(boxes))
<1> DEFINE r1 == boxes[1] + boxes[2]
           r2 == boxes[3] + boxes[4]
           c1 == boxes[1] + boxes[3]
           c2 == boxes[2] + boxes[4]
           off == boxes[1]*boxes[4] - boxes[2]*boxes[3]
           low == \E r \in {r1, r2}, c \in {c1, c2} : r*c < MinExpect * reps
<1>1. /\ r1 \in Nat /\ r2 \in Nat /\ c1 \in Nat /\ c2 \in Nat /\ off \in Int
      /\ reps \in Nat /\ reps > 0 /\ MinExpect \in Nat /\ MinExpect > 0
  BY CountsAssumption DEF IsTable
<1>2. ChiSqIndepValue(boxes) = IF low THEN <<reps, 1>> ELSE <<reps * off * off, r1 * r2 * c1 * c2>>
  BY DEF ChiSqIndepValue
<1> HIDE DEF r1, r2, c1, c2, off
<1>3. CASE low
  <2> HIDE DEF low
  <2>1. ChiSqIndepValue(boxes) = <<reps, 1>>
    BY <1>2, <1>3
  <2> QED
    BY <1>1, <2>1 DEF IsFraction
<1>4. CASE ~low
  <2>1. MinExpect * reps > 0 /\ MinExpect * reps \in Nat
    BY <1>1, ProductPositive
  <2>2. ~(r1*c1 < MinExpect * reps) /\ ~(r2*c2 < MinExpect * reps)
    BY <1>4
  <2>3. r1 > 0 /\ c1 > 0 /\ r2 > 0 /\ c2 > 0
    <3>1. r1*c1 > 0 /\ r2*c2 > 0
      BY <1>1, <2>1, <2>2
    <3> QED
      BY <1>1, <3>1
  <2>4. r1 * r2 * c1 * c2 \in Nat /\ r1 * r2 * c1 * c2 > 0
    <3>1. r1 * r2 \in Nat /\ r1 * r2 > 0
      BY <1>1, <2>3, ProductPositive
    <3>2. r1 * r2 * c1 \in Nat /\ r1 * r2 * c1 > 0
      BY <1>1, <2>3, <3>1, ProductPositive
    <3> QED
      BY <1>1, <2>3, <3>2, ProductPositive
  <2>5. reps * off * off \in Nat
    <3>1. off * off \in Nat /\ reps * (off * off) = reps * off * off
      BY <1>1, SquareNat
    <3> QED
      BY <1>1, <3>1
  <2> DEFINE u == reps * off * off
             d == r1 * r2 * c1 * c2
  <2>6. ChiSqIndepValue(boxes) = <<u, d>>
    BY <1>2, <1>4
  <2>7. u \in Nat /\ d \in Nat /\ d > 0
    BY <2>4, <2>5
  <2> HIDE DEF u, d, low
  <2> QED
    BY <2>6, <2>7 DEF IsFraction
<1> QED
  BY <1>3, <1>4

LEMMA Cancel ==
  ASSUME NEW x \in Int, NEW y \in Int, NEW z \in Nat, x * z > y * z
  PROVE  x > y
<1> SUFFICES ASSUME y - x \in Nat PROVE FALSE
  OBVIOUS
<1>1. (y - x) * z \in Nat /\ (y - x) * z = y * z - x * z /\ x * z \in Int /\ y * z \in Int
  OBVIOUS
<1> QED
  BY <1>1

LEMMA TimesMore ==
  ASSUME NEW x \in Int, NEW y \in Int, NEW z \in Nat
  PROVE  /\ x <= y => x * z <= y * z
         /\ x < y /\ z > 0 => x * z < y * z
<1>1. ASSUME x <= y PROVE x * z <= y * z
  <2>1. y - x \in Nat /\ (y - x) * z \in Nat /\ (y - x) * z = y * z - x * z
    BY <1>1
  <2> QED
    BY <2>1
<1>2. ASSUME x < y, z > 0 PROVE x * z < y * z
  <2>1. y - x \in Nat /\ y - x > 0
    BY <1>2
  <2>2. (y - x) * z > 0 /\ (y - x) * z = y * z - x * z
    BY <1>2, <2>1, ProductPositive
  <2> QED
    BY <2>2
<1> QED
  BY <1>1, <1>2

(* A value above one that is not below a third is above the third.         *)
LEMMA AboveBoth ==
  ASSUME NEW p, NEW q, NEW s, IsFraction(p), IsFraction(q), IsFraction(s),
         Above(p, q), ~Above(s, q)
  PROVE  Above(p, s)
<1> DEFINE x == p[1]  y == p[2]  u == q[1]  v == q[2]  w == s[1]  z == s[2]
<1>1. /\ x \in Nat /\ y \in Nat /\ u \in Nat /\ v \in Nat /\ w \in Nat /\ z \in Nat
      /\ y > 0 /\ v > 0 /\ z > 0
  BY DEF IsFraction
<1>2. u * y < x * v /\ w * v <= u * z
  <2>1. x * v > u * y /\ ~(w * v > u * z)
    BY DEF Above
  <2> HIDE DEF x, y, u, v, w, z
  <2> QED
    BY <1>1, <2>1
<1> HIDE DEF x, y, u, v, w, z
<1>3. (u * y) * z < (x * v) * z
  <2>1. u * y \in Int /\ x * v \in Int
    BY <1>1
  <2> QED
    BY <1>1, <1>2, <2>1, TimesMore
<1>4. (w * v) * y <= (u * z) * y
  <2>1. w * v \in Int /\ u * z \in Int
    BY <1>1
  <2> QED
    BY <1>1, <1>2, <2>1, TimesMore
<1>5. /\ (u * y) * z = (u * z) * y /\ (x * v) * z = (x * z) * v /\ (w * v) * y = (w * y) * v
      /\ (u * y) * z \in Int /\ (x * z) * v \in Int /\ (w * y) * v \in Int
      /\ x * z \in Int /\ w * y \in Int
  BY <1>1
<1>6. (x * z) * v > (w * y) * v
  <2> DEFINE f == (u * y) * z
             g == (x * z) * v
             h == (w * y) * v
  <2>1. f \in Int /\ g \in Int /\ h \in Int /\ f < g /\ h <= f
    BY <1>3, <1>4, <1>5
  <2> HIDE DEF f, g, h
  <2>2. g > h
    BY <2>1
  <2> QED
    BY <2>2 DEF g, h
<1>7. x * z > w * y
  BY <1>1, <1>5, <1>6, Cancel
<1> QED
  BY <1>7 DEF Above, x, y, w, z

LEMMA NotAboveItself ==
  ASSUME NEW p, NEW q, IsFraction(p), IsFraction(q)
  PROVE  /\ ~Above(p, p)
         /\ Above(p, q) => ~Above(q, p)
<1>1. p[1] \in Nat /\ p[2] \in Nat /\ q[1] \in Nat /\ q[2] \in Nat
  BY DEF IsFraction
<1>2. p[1] * p[2] \in Int /\ p[1] * q[2] \in Int /\ q[1] * p[2] \in Int
  BY <1>1
<1>3. ~(p[1] * p[2] > p[1] * p[2])
  BY <1>2
<1>4. p[1] * q[2] > q[1] * p[2] => ~(q[1] * p[2] > p[1] * q[2])
  BY <1>2
<1> QED
  BY <1>3, <1>4 DEF Above

LEMMA NextMultiple ==
  ASSUME NEW x \in Nat, NEW y \in Nat, x < y, NEW z \in Nat
  PROVE  x * z + z <= y * z
<1>1. (x + 1) * z <= y * z
  BY TimesMore
<1>2. (x + 1) * z = x * z + z
  OBVIOUS
<1> QED
  BY <1>1, <1>2


-----------------------------------------------------------------------------
(* The order of the report: by keybit, then by the lower bit of the pair,  *)
(* then by the higher one.                                                 *)

At(c) == c[1] * Len(OutPairs) + Place[<<c[2], c[3]>>] - 1

Before(c, d) ==
  \/ c[1] < d[1]
  \/ c[1] = d[1] /\ c[2] < d[2]
  \/ c[1] = d[1] /\ c[2] = d[2] /\ c[3] < d[3]

LEMMA AtNumber ==
  ASSUME NEW c \in Pairs
  PROVE  /\ At(c) \in Nat /\ Place[<<c[2], c[3]>>] \in 1 .. Len(OutPairs)
         /\ Len(OutPairs) \in Nat /\ c[1] * Len(OutPairs) \in Nat
         /\ At(c) < keybits * Len(OutPairs)
<1> DEFINE L == Len(OutPairs)
           p == Place[<<c[2], c[3]>>]
           x == c[1] * L
           e == keybits * L
<1>1. L \in Nat
  BY OutPairsFlat DEF Flat
<1>2. p \in 1 .. L
  BY PlaceOf
<1>3. x \in Nat /\ x + L <= e /\ e \in Nat
  BY <1>1, PairParts, BlockInRange
<1>4. At(c) = x + p - 1
  BY DEF At
<1> HIDE DEF L, p, x, e
<1>5. At(c) \in Nat /\ At(c) < e
  BY <1>1, <1>2, <1>3, <1>4
<1> QED
  BY <1>1, <1>2, <1>3, <1>5 DEF L, p, x, e

LEMMA BeforeAt ==
  ASSUME NEW c \in Pairs, NEW d \in Pairs, Before(c, d)
  PROVE  At(c) < At(d)
<1> DEFINE L == Len(OutPairs)
           p == Place[<<c[2], c[3]>>]
           q == Place[<<d[2], d[3]>>]
           x == c[1] * L
           y == d[1] * L
<1>1. L \in Nat /\ p \in 1 .. L /\ q \in 1 .. L /\ x \in Nat /\ y \in Nat
  BY AtNumber
<1>2. At(c) = x + p - 1 /\ At(d) = y + q - 1
  BY DEF At
<1>3. c[1] \in Nat /\ d[1] \in Nat
  BY PairParts
<1>4. CASE c[1] < d[1]
  <2>1. x + L <= y
    BY <1>1, <1>3, <1>4, NextMultiple
  <2> HIDE DEF x, y, p, q, L
  <2> QED
    BY <1>1, <1>2, <2>1
<1>5. CASE c[1] = d[1] /\ c[2] < d[2]
  <2> DEFINE u == RowStart(c[2])
             v == RowStart(d[2])
  <2>1. p = u + (c[3] - c[2]) /\ q = v + (d[3] - d[2])
    BY PlaceOf
  <2>2. /\ c[2] \in 0 .. hashbits-2 /\ d[2] \in 0 .. hashbits-2
        /\ c[2] \in Nat /\ d[2] \in Nat /\ c[3] \in Nat /\ d[3] \in Nat
        /\ c[3] < hashbits /\ d[2] < d[3]
    BY PairParts
  <2>3. u + (hashbits-1 - c[2]) <= v
    BY <1>5, <2>2, RowsApart
  <2>4. u \in Nat /\ v \in Nat
    BY CellInBlock
  <2>5. x = y
    BY <1>5
  <2> HIDE DEF x, y, u, v, p, q, L
  <2>6. p < q
    BY <2>1, <2>2, <2>3, <2>4, Shapes
  <2> QED
    BY <1>1, <1>2, <2>5, <2>6
<1>6. CASE c[1] = d[1] /\ c[2] = d[2] /\ c[3] < d[3]
  <2>1. p = RowStart(c[2]) + (c[3] - c[2]) /\ q = RowStart(c[2]) + (d[3] - c[2])
    BY <1>6, PlaceOf
  <2>2. RowStart(c[2]) \in Nat /\ c[2] \in Nat /\ c[3] \in Nat /\ d[3] \in Nat
    BY CellInBlock, PairParts
  <2>3. x = y
    BY <1>6
  <2> HIDE DEF x, y, p, q, L
  <2>4. p < q
    BY <1>6, <2>1, <2>2
  <2> QED
    BY <1>1, <1>2, <2>3, <2>4
<1> QED
  BY <1>4, <1>5, <1>6 DEF Before

LEMMA AtOrder ==
  ASSUME NEW c \in Pairs, NEW d \in Pairs
  PROVE  /\ Before(c, d) <=> At(c) < At(d)
         /\ At(c) = At(d) => c = d
<1>1. At(c) \in Nat /\ At(d) \in Nat
  BY AtNumber
<1>2. c = d \/ Before(c, d) \/ Before(d, c)
  <2>1. /\ c = <<c[1], c[2], c[3]>> /\ d = <<d[1], d[2], d[3]>>
        /\ c[1] \in Nat /\ d[1] \in Nat /\ c[2] \in Nat /\ d[2] \in Nat /\ c[3] \in Nat /\ d[3] \in Nat
    BY PairParts
  <2>2. c[1] = d[1] /\ c[2] = d[2] /\ c[3] = d[3] => c = d
    BY <2>1
  <2> QED
    BY <2>1, <2>2 DEF Before
<1>3. Before(c, d) => At(c) < At(d)
  BY BeforeAt
<1>4. Before(d, c) => At(d) < At(c)
  BY BeforeAt
<1> QED
  BY <1>1, <1>2, <1>3, <1>4

(* The pairs come at the numbers that the report gives them.               *)
LEMMA PairAt ==
  ASSUME NEW k \in 0 .. keybits-1, NEW n \in DOMAIN OutPairs
  PROVE  /\ <<k>> \o OutPairs[n] = <<k, OutPairs[n][1], OutPairs[n][2]>>
         /\ <<k, OutPairs[n][1], OutPairs[n][2]>> \in Pairs
         /\ At(<<k, OutPairs[n][1], OutPairs[n][2]>>) = k * Len(OutPairs) + n - 1
<1>1. Flat(OutPairs, hashbits-1)
  BY OutPairsFlat
<1>2. n \in 1 .. Len(OutPairs) /\ OutPairs[n] \in HashBits \X HashBits
  BY <1>1 DEF Flat
<1>3. PICK b \in 0 .. (hashbits-1) - 1 : \E m \in 1 .. hashbits-1 - b : n = RowStart(b) + m
  BY <1>1, <1>2 DEF Flat
<1>4. PICK m \in 1 .. hashbits-1 - b : n = RowStart(b) + m
  BY <1>3
<1>5. OutPairs[n] = <<b, b + m>>
  BY <1>1, <1>3, <1>4 DEF Flat
<1> DEFINE c == <<k, b, b + m>>
<1>6. c \in Pairs
  <2>1. b \in HashBits /\ b + m \in HashBits /\ b < b + m
    BY <1>3, <1>4, Shapes DEF HashBits
  <2> QED
    BY <2>1 DEF Pairs
<1>7. Place[<<b, b + m>>] = n
  <2>1. Place[<<c[2], c[3]>>] = RowStart(c[2]) + (c[3] - c[2])
    BY <1>6, PlaceOf
  <2>2. c[2] = b /\ c[3] = b + m /\ (b + m) - b = m
    BY <1>3, <1>4, Shapes
  <2> QED
    BY <1>4, <2>1, <2>2
<1>8. At(c) = k * Len(OutPairs) + n - 1
  BY <1>7 DEF At
<1>9. <<k>> \o <<b, b + m>> = <<k, b, b + m>>
  <2> DEFINE y == b + m
             z == <<k>> \o <<b, y>>
  <2>1. <<k>> \in Seq(Int) /\ <<b, y>> \in Seq(Int) /\ Len(<<k>>) = 1 /\ Len(<<b, y>>) = 2
    BY <1>3, <1>4
  <2> HIDE DEF y
  <2>2. z \in Seq(Int) /\ Len(z) = 3 /\ z[1] = k /\ z[2] = b /\ z[3] = y
    BY <2>1
  <2> HIDE DEF z
  <2>3. z = <<k, b, y>>
    BY <2>2
  <2> QED
    BY <2>3 DEF y, z
<1> QED
  BY <1>5, <1>6, <1>8, <1>9

-----------------------------------------------------------------------------
(* The worst of the first n pairs: none before it deviates as much, none   *)
(* after it more.                                                          *)
ValueOf(c) == ChiSqIndepValue(Table(c[1], c[2], c[3]))

NoneFound(w, n) ==
  /\ w = [at |-> <<0, 0, 0>>, chisq |-> <<0, 1>>]
  /\ \A c \in Pairs : At(c) < n => ValueOf(c)[1] = 0

FoundAt(w, n) ==
  /\ w.at \in Pairs /\ At(w.at) < n /\ w.chisq = ValueOf(w.at)
  /\ \A c \in Pairs : At(c) < n =>
       IF At(c) < At(w.at) THEN Above(w.chisq, ValueOf(c)) ELSE ~Above(ValueOf(c), w.chisq)

Found(w, n) == NoneFound(w, n) \/ FoundAt(w, n)

LEMMA ValueIsFraction ==
  ASSUME NEW c \in Pairs
  PROVE  IsFraction(ValueOf(c))
BY TableParts, ValuesAreFractions DEF ValueOf

LEMMA FoundNext ==
  ASSUME NEW w, NEW n \in Nat, Found(w, n), NEW c \in Pairs, At(c) = n
  PROVE  Found(Worse(w, [at |-> c, chisq |-> ValueOf(c)]), n + 1)
<1> DEFINE v == ValueOf(c)
           f == [at |-> c, chisq |-> v]
<1>1. IsFraction(v) /\ f.at = c /\ f.chisq = v
  BY ValueIsFraction
<1>2. ASSUME NEW d \in Pairs, At(d) < n + 1 PROVE At(d) < n \/ d = c
  <2>1. At(d) \in Nat /\ (At(d) = At(c) => d = c)
    BY AtNumber, AtOrder
  <2> QED
    BY <1>2, <2>1
<1>3. At(c) < n + 1
  OBVIOUS
<1> HIDE DEF v, f
<1>4. CASE Above(v, w.chisq)
  <2>1. Worse(w, f) = f
    BY <1>1, <1>4 DEF Worse
  <2>2. ASSUME NEW d \in Pairs, At(d) < n PROVE Above(v, ValueOf(d))
    <3>1. IsFraction(ValueOf(d))
      BY ValueIsFraction
    <3>2. CASE NoneFound(w, n)
      <4>1. w.chisq = <<0, 1>> /\ ValueOf(d)[1] = 0
        BY <2>2, <3>2 DEF NoneFound
      <4> DEFINE e == ValueOf(d)
      <4>2. v[1] \in Nat /\ v[2] \in Nat /\ e[2] \in Nat /\ e[2] > 0 /\ e[1] = 0
        BY <1>1, <3>1, <4>1 DEF IsFraction
      <4>3. v[1] * 1 > 0 * v[2]
        BY <1>4, <4>1 DEF Above
      <4> HIDE DEF e
      <4>4. v[1] > 0
        BY <4>2, <4>3
      <4>5. v[1] * e[2] > 0 /\ e[1] * v[2] = 0
        BY <4>2, <4>4, ProductPositive
      <4> QED
        BY <4>5 DEF Above, e
    <3>3. CASE FoundAt(w, n)
      <4>1. IsFraction(w.chisq)
        BY <3>3, ValueIsFraction DEF FoundAt
      <4>2. ~Above(ValueOf(d), w.chisq)
        BY <2>2, <3>1, <3>3, <4>1, NotAboveItself DEF FoundAt
      <4> QED
        BY <1>1, <1>4, <3>1, <4>1, <4>2, AboveBoth
    <3> QED
      BY <3>2, <3>3 DEF Found
  <2>3. ASSUME NEW d \in Pairs, At(d) < n + 1
        PROVE  IF At(d) < At(c) THEN Above(v, ValueOf(d)) ELSE ~Above(ValueOf(d), v)
    <3>1. CASE d = c
      <4>1. ~(At(c) < At(c)) /\ ~Above(v, v)
        BY <1>1, AtNumber, NotAboveItself
      <4> QED
        BY <3>1, <4>1 DEF v
    <3>2. CASE d # c
      <4>1. At(d) < n
        BY <1>2, <2>3, <3>2
      <4> QED
        BY <2>2, <4>1
    <3> QED
      BY <3>1, <3>2
  <2>4. f.chisq = ValueOf(f.at)
    BY <1>1 DEF v
  <2>5. FoundAt(f, n + 1)
    BY <1>1, <1>3, <2>3, <2>4 DEF FoundAt
  <2> QED
    BY <2>1, <2>5 DEF Found, f, v
<1>5. CASE ~Above(v, w.chisq)
  <2>1. Worse(w, f) = w
    BY <1>1, <1>5 DEF Worse
  <2>2. CASE NoneFound(w, n)
    <3>1. w.chisq = <<0, 1>>
      BY <2>2 DEF NoneFound
    <3>2. v[1] \in Nat /\ v[2] \in Nat
      BY <1>1 DEF IsFraction
    <3>3. ~(v[1] * 1 > 0 * v[2])
      BY <1>5, <3>1 DEF Above
    <3>4. v[1] = 0
      BY <3>2, <3>3
    <3>5. \A d \in Pairs : At(d) < n + 1 => ValueOf(d)[1] = 0
      BY <1>2, <2>2, <3>4 DEF NoneFound, v
    <3>6. NoneFound(w, n + 1)
      BY <2>2, <3>5 DEF NoneFound
    <3> QED
      BY <2>1, <3>6 DEF Found, f, v
  <2>3. CASE FoundAt(w, n)
    <3>1. w.at \in Pairs /\ At(w.at) < n /\ w.chisq = ValueOf(w.at) /\ At(w.at) \in Nat
      BY <2>3, AtNumber DEF FoundAt
    <3>2. ASSUME NEW d \in Pairs, At(d) < n + 1
          PROVE  IF At(d) < At(w.at) THEN Above(w.chisq, ValueOf(d)) ELSE ~Above(ValueOf(d), w.chisq)
      <4>1. CASE d = c
        <5>1. ~(At(c) < At(w.at))
          BY <3>1
        <5> QED
          BY <1>5, <4>1, <5>1 DEF v
      <4>2. CASE d # c
        <5>1. At(d) < n
          BY <1>2, <3>2, <4>2
        <5> QED
          BY <2>3, <5>1 DEF FoundAt
      <4> QED
        BY <4>1, <4>2
    <3>3. At(w.at) < n + 1
      BY <3>1
    <3>4. FoundAt(w, n + 1)
      BY <3>1, <3>2, <3>3 DEF FoundAt
    <3> QED
      BY <2>1, <3>4 DEF Found, f, v
  <2> QED
    BY <2>2, <2>3 DEF Found
<1> QED
  BY <1>4, <1>5

WorstSoFar ==
  /\ pair \in Nat
  /\ Found(worst, pair)
  /\ main = "done" => pair >= keybits * Len(OutPairs)

LEMMA WorstInit == Init => WorstSoFar
<1> SUFFICES ASSUME Init PROVE WorstSoFar
  OBVIOUS
<1>1. pair = 0 /\ worst = [at |-> <<0, 0, 0>>, chisq |-> <<0, 1>>] /\ main # "done"
  BY DEF Init
<1>2. ASSUME NEW c \in Pairs PROVE ~(At(c) < 0)
  <2>1. At(c) \in Nat
    BY AtNumber
  <2> QED
    BY <2>1
<1> QED
  BY <1>1, <1>2 DEF WorstSoFar, Found, NoneFound

LEMMA WorstReport ==
  ASSUME Counting, WorstSoFar, ReportChiSqIndep
  PROVE  WorstSoFar'
<1>1. PICK k \in 0 .. keybits-1, n \in DOMAIN OutPairs :
        /\ main = "report"
        /\ pair = k * Len(OutPairs) + n - 1
        /\ \E boxes \in {Boxes(k, OutPairs[n][1], OutPairs[n][2])} :
             worst' = Worse(worst, [at |-> <<k>> \o OutPairs[n], chisq |-> ChiSqIndepValue(boxes)])
        /\ pair' = pair + 1
        /\ main' = IF pair' < keybits * Len(OutPairs) THEN "report" ELSE "done"
  BY DEF ReportChiSqIndep
<1> DEFINE c == <<k, OutPairs[n][1], OutPairs[n][2]>>
<1>2. c \in Pairs /\ At(c) = pair /\ <<k>> \o OutPairs[n] = c
  BY <1>1, PairAt
<1>3. c[1] = k /\ c[2] = OutPairs[n][1] /\ c[3] = OutPairs[n][2]
  OBVIOUS
<1> HIDE DEF c
<1>4. Boxes(c[1], c[2], c[3]) = Table(c[1], c[2], c[3])
  BY <1>1, <1>2, BoxesAreTable
<1>5. worst' = Worse(worst, [at |-> c, chisq |-> ValueOf(c)])
  BY <1>1, <1>2, <1>3, <1>4 DEF ValueOf
<1>6. Found(worst', pair')
  BY <1>1, <1>2, <1>5, FoundNext DEF WorstSoFar
<1>7. pair' \in Nat
  <2>1. pair \in Nat
    BY DEF WorstSoFar
  <2>2. pair' = pair + 1
    BY <1>1
  <2> QED
    BY <2>1, <2>2
<1>8. main' = "done" => pair' >= keybits * Len(OutPairs)
  <2>1. keybits * Len(OutPairs) \in Nat
    <3>1. Len(OutPairs) \in Nat
      BY OutPairsFlat DEF Flat
    <3> QED
      BY <3>1, Shapes
  <2> QED
    BY <1>1, <1>7, <2>1
<1> QED
  BY <1>6, <1>7, <1>8 DEF WorstSoFar, Found, FoundAt, NoneFound

LEMMA WorstStep ==
  ASSUME Counting, WorstSoFar, [Next]_vars
  PROVE  WorstSoFar'
<1>1. CASE ReportChiSqIndep
  BY <1>1, WorstReport
<1>2. CASE ~ReportChiSqIndep
  <2>1. UNCHANGED <<pair, worst>> /\ (main' = "done" => main = "done")
    <3>1. CASE UNCHANGED vars
      BY <3>1 DEF vars
    <3>2. ASSUME NEW t \in Threads, BicTestBatch(t)
          PROVE  UNCHANGED <<pair, worst>> /\ (main' = "done" => main = "done")
      BY <3>2 DEF BicTestBatch, Claim, Leave, Flip
    <3>3. CASE Spawn \/ Join \/ Merge
      BY <3>3 DEF Spawn, Join, Merge, Loop, thread
    <3> QED
      BY <1>2, <3>1, <3>2, <3>3 DEF Next, BicTestImpl
  <2>2. pair' = pair /\ worst' = worst
    BY <2>1
  <2> QED
    BY <2>1, <2>2 DEF WorstSoFar, Found, NoneFound, FoundAt
<1> QED
  BY <1>1, <1>2

LEMMA WorstFound ==
  ASSUME WorstSoFar
  PROVE  WorstReported
<1> SUFFICES ASSUME main = "done"
             PROVE  IF worst.at = <<0, 0, 0>>
                    THEN \A c \in Counters : c[2] < c[3] => ValueOf(c)[1] = 0
                    ELSE /\ worst.chisq = ValueOf(worst.at)
                         /\ \A c \in Counters : c[2] < c[3] =>
                              IF Before(c, worst.at) THEN Above(worst.chisq, ValueOf(c))
                              ELSE ~Above(ValueOf(c), worst.chisq)
  BY DEF WorstReported, ValueOf, Before
<1>1. ASSUME NEW c \in Counters, c[2] < c[3] PROVE c \in Pairs /\ At(c) < pair
  <2>1. c \in Pairs
    BY <1>1 DEF Counters, Pairs
  <2> DEFINE e == keybits * Len(OutPairs)
  <2>2. At(c) \in Nat /\ At(c) < e /\ Len(OutPairs) \in Nat
    BY <2>1, AtNumber
  <2>3. pair \in Nat /\ pair >= e
    BY DEF WorstSoFar
  <2>4. e \in Nat
    BY <2>2, Shapes
  <2> HIDE DEF e
  <2>5. At(c) < pair
    BY <2>2, <2>3, <2>4
  <2> QED
    BY <2>1, <2>5
<1>2. CASE NoneFound(worst, pair)
  BY <1>1, <1>2 DEF NoneFound
<1>3. CASE FoundAt(worst, pair)
  <2>1. worst.at \in Pairs /\ worst.chisq = ValueOf(worst.at)
    BY <1>3 DEF FoundAt
  <2>2. worst.at # <<0, 0, 0>>
    <3>1. worst.at[2] < worst.at[3] /\ worst.at[2] \in Nat
      BY <2>1, PairParts
    <3> QED
      BY <3>1
  <2>3. ASSUME NEW c \in Counters, c[2] < c[3]
        PROVE  IF Before(c, worst.at) THEN Above(worst.chisq, ValueOf(c))
               ELSE ~Above(ValueOf(c), worst.chisq)
    <3>1. c \in Pairs /\ At(c) < pair
      BY <1>1, <2>3
    <3>2. Before(c, worst.at) <=> At(c) < At(worst.at)
      BY <2>1, <3>1, AtOrder
    <3> QED
      BY <1>3, <3>1, <3>2 DEF FoundAt
  <2> QED
    BY <2>1, <2>2, <2>3
<1> QED
  BY <1>2, <1>3 DEF WorstSoFar, Found

(***************************************************************************)
(* The pair that ReportChiSqIndep() names is the first of the worst ones,  *)
(* with the value of its own table, for all hash functions and schedules.  *)
(***************************************************************************)
THEOREM Naming == Spec => []WorstReported
<1>1. Counting /\ WorstSoFar /\ [Next]_vars => WorstSoFar'
  BY WorstStep
<1> QED
  BY <1>1, WorstInit, WorstFound, Invariance, PTL DEF Spec

=============================================================================
