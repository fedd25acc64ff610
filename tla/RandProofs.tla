----------------------------- MODULE RandProofs -----------------------------
(***************************************************************************)
(* Proofs about Rand, for every width of the counter, every PARALLEL, and  *)
(* all seeds, offsets and request lengths: the cache is coherent and the   *)
(* class implements RandStream.                                            *)
(***************************************************************************)
EXTENDS Rand, Modular

USE DEF RANDS_PER_ROUND, SIZEOF_U64

Lanes == 4 * U64

LEMMA Params ==
  /\ PARALLEL \in Nat /\ PARALLEL > 0
  /\ BUFLEN = 4 * PARALLEL /\ BUFLEN \in Nat /\ BUFLEN > 3
  /\ U64 \in Nat /\ U64 > 0 /\ U64 % 4 = 0
  /\ Lanes \in Nat /\ Lanes > 0
BY ParallelAssumption, U64Multiple DEF BUFLEN, Lanes

(* The number at a place of the list depends on the place modulo 4 * U64.  *)
LEMMA NumberCongruent ==
  ASSUME NEW keys, NEW x \in Int, NEW y \in Int, x % Lanes = y % Lanes
  PROVE  Stream!Number(keys, x) = Stream!Number(keys, y)
<1>1. ASSUME NEW z \in Int
      PROVE  Stream!Number(keys, z)
               = <<keys, ((z % Lanes) \div 4) % U64, (z % Lanes) % 4>>
  <2>1. ((z % Lanes) \div 4) % U64 = (z \div 4) % U64
    BY Params, BlockOfModulo DEF Lanes
  <2>2. (z % Lanes) % 4 = z % 4
    BY Params, LaneOfModulo DEF Lanes
  <2> QED BY <2>1, <2>2 DEF Stream!Number
<1> QED BY <1>1

LEMMA NumberModulo ==
  ASSUME NEW keys, NEW x \in Int, NEW i \in Int
  PROVE  Stream!Number(keys, (x % Lanes) + i) = Stream!Number(keys, x + i)
<1>1. ((x % Lanes) + i) % Lanes = (x + i) % Lanes
  BY Params, ModAdd
<1>2. x % Lanes \in Int
  BY Params, DivMod
<1> QED BY <1>1, <1>2, NumberCongruent

(* Slot k of a run of the cipher is number k after the block's first.      *)
LEMMA ThreefrySlot ==
  ASSUME NEW keys, NEW ctr \in Int, NEW k \in 0 .. BUFLEN-1
  PROVE  threefry(keys, ctr)[k] = Stream!Number(keys, 4*ctr + k)
<1>1. (4*ctr + k) \div 4 = ctr + (k \div 4) /\ (4*ctr + k) % 4 = k % 4
  BY Params
<1> QED BY <1>1 DEF threefry, Stream!Number

LEMMA ThreefryType ==
  ASSUME NEW keys \in Keys, NEW ctr \in Int
  PROVE  threefry(keys, ctr) \in [0 .. BUFLEN-1 -> NumberIds]
<1> SUFFICES ASSUME NEW k \in 0 .. BUFLEN-1
             PROVE  <<keys, (ctr + (k \div 4)) % U64, k % 4>> \in NumberIds
  BY DEF threefry
<1>1. keys \in [seed : Seeds \cup {"none"}, ortho : BOOLEAN, key0 : 0 .. U64-1]
  BY DEF Keys
<1>2. k \in Int /\ k \div 4 \in Int /\ k % 4 \in 0 .. 3
  BY Params
<1>3. (ctr + (k \div 4)) % U64 \in 0 .. U64-1
  BY <1>2, Params, DivMod
<1> QED BY <1>1, <1>2, <1>3 DEF NumberIds

-----------------------------------------------------------------------------
(* An object as the record of its fields, and each method as a record.     *)
Object(xseed, rngbuf, counter, bufidx) ==
  [xseed |-> xseed, rngbuf |-> rngbuf, counter |-> counter, bufidx |-> bufidx]

Buffers == [0 .. BUFLEN-1 -> NumberIds]

LEMMA ObjectFields ==
  ASSUME NEW g \in Objects
  PROVE  /\ g = Object(g.xseed, g.rngbuf, g.counter, g.bufidx)
         /\ g.xseed \in Keys /\ g.rngbuf \in Buffers
         /\ g.counter \in 0 .. U64-1 /\ g.counter \in Int
         /\ g.bufidx \in 0 .. BUFLEN+3 /\ g.bufidx \in Nat
<1>1. g.counter \in 0 .. U64-1 /\ g.bufidx \in 0 .. BUFLEN+3
  BY DEF Objects
<1>2. g.counter \in Int /\ g.bufidx \in Nat
  BY <1>1, Params
<1> QED BY <1>1, <1>2 DEF Objects, Object, Buffers

LEMMA ObjectType ==
  ASSUME NEW x \in Keys, NEW b \in Buffers,
         NEW c \in 0 .. U64-1, NEW i \in 0 .. BUFLEN+3
  PROVE  /\ Object(x, b, c, i) \in Objects
         /\ Object(x, b, c, i).xseed = x
         /\ Object(x, b, c, i).rngbuf = b
         /\ Object(x, b, c, i).counter = c
         /\ Object(x, b, c, i).bufidx = i
BY DEF Objects, Object, Buffers

LEMMA Updates ==
  ASSUME NEW x, NEW b, NEW c, NEW i, NEW v
  PROVE  /\ [Object(x, b, c, i) EXCEPT !.xseed = v] = Object(v, b, c, i)
         /\ [Object(x, b, c, i) EXCEPT !.rngbuf = v] = Object(x, v, c, i)
         /\ [Object(x, b, c, i) EXCEPT !.counter = v] = Object(x, b, v, i)
         /\ [Object(x, b, c, i) EXCEPT !.bufidx = v] = Object(x, b, c, v)
         /\ Object(x, b, c, i).xseed = x /\ Object(x, b, c, i).rngbuf = b
         /\ Object(x, b, c, i).counter = c /\ Object(x, b, c, i).bufidx = i
<1>1. [Object(x, b, c, i) EXCEPT !.xseed = v] = Object(v, b, c, i)
  BY DEF Object
<1>2. [Object(x, b, c, i) EXCEPT !.rngbuf = v] = Object(x, v, c, i)
  BY DEF Object
<1>3. [Object(x, b, c, i) EXCEPT !.counter = v] = Object(x, b, v, i)
  BY DEF Object
<1>4. [Object(x, b, c, i) EXCEPT !.bufidx = v] = Object(x, b, c, v)
  BY DEF Object
<1> QED BY <1>1, <1>2, <1>3, <1>4 DEF Object

LEMMA RefilledShape ==
  ASSUME NEW x, NEW b, NEW c, NEW i
  PROVE  Refilled(Object(x, b, c, i))
           = Object(x, threefry(x, c), (c + PARALLEL) % U64, i - BUFLEN)
<1> DEFINE t == threefry(x, c)
           n == (c + PARALLEL) % U64
<1>1. [Object(x, b, c, i) EXCEPT !.rngbuf = t] = Object(x, t, c, i)
  BY Updates
<1>2. [Object(x, t, c, i) EXCEPT !.counter = n] = Object(x, t, n, i)
  BY Updates
<1>3. [Object(x, t, n, i) EXCEPT !.bufidx = i - BUFLEN]
        = Object(x, t, n, i - BUFLEN)
  BY Updates
<1>5. /\ Object(x, t, n, i).bufidx = i
      /\ Object(x, b, c, i).xseed = x /\ Object(x, b, c, i).counter = c
  BY Updates
<1>4. refill_buf(Object(x, b, c, i)) = Object(x, t, n, i)
  BY <1>1, <1>2, <1>5 DEF refill_buf
<1> HIDE DEF t, n
<1>6. Refilled(Object(x, b, c, i)) = Object(x, t, n, i - BUFLEN)
  BY <1>3, <1>4, <1>5 DEF Refilled
<1> QED BY <1>6 DEF t, n

LEMMA SeekShape ==
  ASSUME NEW x, NEW b, NEW c, NEW i, NEW off
  PROVE  seek(Object(x, b, c, i), off)
           = Object(x, b, off \div 4, BUFLEN + (off % 4))
<1> DEFINE c2 == off \div 4
           i2 == BUFLEN + (off % 4)
<1>1. [Object(x, b, c, i) EXCEPT !.counter = c2] = Object(x, b, c2, i)
  BY Updates
<1>2. [Object(x, b, c2, i) EXCEPT !.bufidx = i2] = Object(x, b, c2, i2)
  BY Updates
<1> QED BY <1>1, <1>2 DEF seek

LEMMA AdvanceShape ==
  ASSUME NEW x, NEW b, NEW c, NEW i, NEW n
  PROVE  Advance(Object(x, b, c, i), n) = Object(x, b, c, i + n)
BY Updates DEF Advance

-----------------------------------------------------------------------------
(* The position before it is reduced.                                      *)
Unreduced(g) == 4 * g.counter + g.bufidx - BUFLEN

LEMMA PositionFacts ==
  ASSUME NEW g \in Objects
  PROVE  /\ Unreduced(g) \in Int
         /\ Position(g) = Unreduced(g) % Lanes
         /\ Position(g) \in 0 .. Lanes-1
<1>1. Unreduced(g) \in Int
  BY Params DEF Unreduced, Objects
<1>2. Position(g) = Unreduced(g) % Lanes
  BY Params DEF Position, Unreduced, Objects, Lanes
<1> QED BY <1>1, <1>2, DivMod, Params

LEMMA CoherentUnreduced ==
  ASSUME NEW g \in Objects
  PROVE  Coherent(g) <=>
           \A k \in g.bufidx .. BUFLEN-1 :
             g.rngbuf[k] = Stream!Number(g.xseed, 4 * g.counter - BUFLEN + k)
<1> SUFFICES ASSUME NEW k \in g.bufidx .. BUFLEN-1
             PROVE  Stream!Number(g.xseed, Position(g) + (k - g.bufidx))
                      = Stream!Number(g.xseed, 4 * g.counter - BUFLEN + k)
  BY DEF Coherent
<1>1. /\ k - g.bufidx \in Int /\ Unreduced(g) \in Int
      /\ Unreduced(g) + (k - g.bufidx) = 4 * g.counter - BUFLEN + k
  BY Params DEF Objects, Unreduced
<1>2. Stream!Number(g.xseed, (Unreduced(g) % Lanes) + (k - g.bufidx))
        = Stream!Number(g.xseed, Unreduced(g) + (k - g.bufidx))
  BY <1>1, NumberModulo
<1> QED BY <1>1, <1>2, PositionFacts

(* Filling the cache changes neither the keys nor the place in the list.   *)
LEMMA RefilledCorrect ==
  ASSUME NEW g \in Objects, g.bufidx >= BUFLEN
  PROVE  LET f == Refilled(g)
         IN  /\ f \in Objects /\ Coherent(f)
             /\ f.xseed = g.xseed
             /\ f.bufidx = g.bufidx - BUFLEN
             /\ Position(f) = Position(g)
<1> DEFINE f == Refilled(g)
           buf == threefry(g.xseed, g.counter)
           ctr == (g.counter + PARALLEL) % U64
           idx == g.bufidx - BUFLEN
<1>2. g.xseed \in Keys /\ g.counter \in Int /\ g.bufidx \in 0 .. BUFLEN+3
  BY ObjectFields
<1>3. ctr \in 0 .. U64-1 /\ buf \in Buffers
      /\ idx \in 0 .. 3 /\ idx \in 0 .. BUFLEN+3
  <2>1. ctr \in 0 .. U64-1
    BY <1>2, Params, DivMod
  <2>2. buf \in Buffers
    BY <1>2, ThreefryType DEF Buffers
  <2>3. idx \in 0 .. 3 /\ idx \in 0 .. BUFLEN+3
    BY <1>2, Params
  <2> QED BY <2>1, <2>2, <2>3
<1>a. f = Object(g.xseed, buf, ctr, idx)
  BY RefilledShape, ObjectFields
<1> HIDE DEF f, buf, ctr, idx
<1>1. /\ f \in Objects /\ f.xseed = g.xseed /\ f.rngbuf = buf
      /\ f.counter = ctr /\ f.bufidx = idx
  BY <1>2, <1>3, <1>a, ObjectType
<1> USE DEF buf, ctr, idx
<1>4. f.bufidx \in 0 .. 3
  BY <1>1, <1>3
<1>5. f \in Objects
  BY <1>1
<1>6. Position(f) = Position(g)
  <2>1. Unreduced(f) = 4 * ((g.counter + PARALLEL) % U64) + (f.bufidx - BUFLEN)
    BY <1>1, <1>3, <1>4, Params DEF Unreduced
  <2>2. Unreduced(g) = 4 * (g.counter + PARALLEL) + (f.bufidx - BUFLEN)
    BY <1>1, <1>2, Params DEF Unreduced
  <2>3. g.counter + PARALLEL \in Int /\ f.bufidx - BUFLEN \in Int
    BY <1>2, <1>4, Params
  <2>4. Unreduced(f) % Lanes = Unreduced(g) % Lanes
    <3> DEFINE c == g.counter + PARALLEL
               y == f.bufidx - BUFLEN
    <3>1. U64 \in Nat /\ U64 > 0 /\ Lanes = 4 * U64
      BY Params DEF Lanes
    <3>2. (4 * (c % U64) + y) % (4 * U64) = (4 * c + y) % (4 * U64)
      <4> HIDE DEF c, y
      <4> QED
        BY <2>3, <3>1, WrapBlock DEF c, y
    <3> QED
      BY <2>1, <2>2, <3>1, <3>2
  <2> QED BY <2>4, <1>5, PositionFacts
<1>7. Coherent(f)
  <2> SUFFICES ASSUME NEW k \in f.bufidx .. BUFLEN-1
               PROVE  f.rngbuf[k]
                        = Stream!Number(f.xseed, Position(f) + (k - f.bufidx))
    BY DEF Coherent
  <2>1. k \in 0 .. BUFLEN-1 /\ k - f.bufidx \in Int
    BY <1>4, Params
  <2>2. f.rngbuf[k] = Stream!Number(g.xseed, 4 * g.counter + k)
    BY <1>1, <1>2, <2>1, ThreefrySlot
  <2>3. Unreduced(g) + (k - f.bufidx) = 4 * g.counter + k
    BY <1>1, <1>2, <2>1, Params DEF Unreduced
  <2>4. Stream!Number(g.xseed, (Unreduced(g) % Lanes) + (k - f.bufidx))
          = Stream!Number(g.xseed, Unreduced(g) + (k - f.bufidx))
    BY <2>1, NumberModulo, PositionFacts
  <2> QED BY <1>1, <1>6, <2>2, <2>3, <2>4, PositionFacts
<1> QED BY <1>1, <1>6, <1>7 DEF f

-----------------------------------------------------------------------------
(* seek() goes to the offset it is given and leaves nothing in the cache.  *)
LEMMA SeekCorrect ==
  ASSUME NEW g \in Objects, NEW off \in 0 .. U64-1
  PROVE  LET s == seek(g, off)
         IN  /\ s \in Objects /\ Coherent(s)
             /\ s.xseed = g.xseed
             /\ s.bufidx >= BUFLEN
             /\ Position(s) = off
<1> DEFINE s == seek(g, off)
<1>2. /\ off = 4 * (off \div 4) + (off % 4) /\ off % 4 \in 0 .. 3
      /\ off \div 4 \in 0 .. U64-1
      /\ BUFLEN + (off % 4) \in 0 .. BUFLEN+3
  BY Params
<1>a. s = Object(g.xseed, g.rngbuf, off \div 4, BUFLEN + (off % 4))
  BY SeekShape, ObjectFields
<1> HIDE DEF s
<1>1. /\ s \in Objects
      /\ s.xseed = g.xseed
      /\ s.counter = off \div 4
      /\ s.bufidx = BUFLEN + (off % 4)
  BY <1>a, <1>2, ObjectFields, ObjectType
<1>3. s \in Objects
  BY <1>1
<1>4. Coherent(s)
  BY <1>1, <1>2, Params DEF Coherent
<1>5. Unreduced(s) = off
  BY <1>1, <1>2, Params DEF Unreduced
<1>6. off % Lanes = off
  BY Params, SmallMod DEF Lanes
<1>7. s.bufidx >= BUFLEN
  BY <1>1, <1>2, Params
<1> QED BY <1>1, <1>4, <1>5, <1>6, <1>7, PositionFacts DEF s

LEMMA OffsetCorrect ==
  ASSUME NEW g \in Objects
  PROVE  getoffset(g) = Position(g) % U64 /\ getoffset(g) \in 0 .. U64-1
<1>1. getoffset(g) = Unreduced(g) % U64
  BY Params DEF getoffset, Unreduced, Objects
<1>2. (Unreduced(g) % Lanes) % U64 = Unreduced(g) % U64
  BY Params, ModOfModulo, PositionFacts DEF Lanes
<1>3. Unreduced(g) % U64 \in 0 .. U64-1
  BY Params, DivMod, PositionFacts
<1> QED BY <1>1, <1>2, <1>3, PositionFacts

(* Giving out n of the cached numbers moves on by n.                       *)
LEMMA AdvanceCorrect ==
  ASSUME NEW f \in Objects, Coherent(f), NEW n \in Nat, f.bufidx + n <= BUFLEN
  PROVE  LET h == Advance(f, n)
         IN  /\ h \in Objects /\ Coherent(h)
             /\ h.xseed = f.xseed
             /\ Position(h) = (Position(f) + n) % Lanes
<1> DEFINE h == Advance(f, n)
<1>a. h = Object(f.xseed, f.rngbuf, f.counter, f.bufidx + n)
  BY AdvanceShape, ObjectFields
<1> HIDE DEF h
<1>b. f.bufidx + n \in 0 .. BUFLEN+3
  BY ObjectFields, Params
<1>1. /\ h \in Objects
      /\ h.xseed = f.xseed /\ h.rngbuf = f.rngbuf /\ h.counter = f.counter
      /\ h.bufidx = f.bufidx + n
  BY <1>a, <1>b, ObjectFields, ObjectType
<1>2. h \in Objects
  BY <1>1
<1>3. Unreduced(h) = Unreduced(f) + n
  BY <1>1, Params DEF Unreduced, Objects
<1>4. Position(h) = (Position(f) + n) % Lanes
  <2> DEFINE u == Unreduced(f)
  <2>1. u \in Int /\ n \in Int /\ Position(f) = u % Lanes
    BY PositionFacts
  <2> HIDE DEF u
  <2>2. ((u % Lanes) + n) % Lanes = (u + n) % Lanes
    BY <2>1, Params, ModAdd
  <2> USE DEF u
  <2> QED BY <1>2, <1>3, <2>1, <2>2, PositionFacts
<1>5. Coherent(h)
  <2>1. \A k \in h.bufidx .. BUFLEN-1 : k \in f.bufidx .. BUFLEN-1
    BY <1>1, Params DEF Objects
  <2> QED BY <1>1, <1>2, <2>1, CoherentUnreduced
<1> QED BY <1>1, <1>4, <1>5 DEF h

(* rand_u64() returns the next number and moves on by one.                 *)
LEMMA RandU64Correct ==
  ASSUME NEW g \in Objects, Coherent(g)
  PROVE  LET d == rand_u64(g)
         IN  /\ d.rng \in Objects /\ Coherent(d.rng)
             /\ d.rng.xseed = g.xseed
             /\ Position(d.rng) = (Position(g) + 1) % Lanes
             /\ d.val = Stream!Number(g.xseed, Position(g))
<1> DEFINE f == IF g.bufidx >= BUFLEN THEN Refilled(g) ELSE g
<1>1. /\ f \in Objects /\ Coherent(f)
      /\ f.xseed = g.xseed /\ Position(f) = Position(g)
      /\ f.bufidx \in 0 .. BUFLEN-1
  <2>1. CASE g.bufidx >= BUFLEN
    <3>1. Refilled(g).bufidx \in 0 .. BUFLEN-1
      BY <2>1, RefilledCorrect, ObjectFields, Params
    <3> QED BY <2>1, <3>1, RefilledCorrect
  <2>2. CASE ~ (g.bufidx >= BUFLEN)
    BY <2>2, ObjectFields, Params
  <2> QED BY <2>1, <2>2
<1>2. rand_u64(g) = Take(f)
  BY DEF rand_u64
<1> HIDE DEF f
<1>3. f.rngbuf[f.bufidx] = Stream!Number(f.xseed, Position(f) + 0)
  BY <1>1, Params DEF Coherent
<1>4. LET h == Advance(f, 1)
      IN  /\ h \in Objects /\ Coherent(h) /\ h.xseed = f.xseed
          /\ Position(h) = (Position(f) + 1) % Lanes
  BY <1>1, AdvanceCorrect, Params
<1>5. Position(f) + 0 = Position(f)
  BY <1>1, PositionFacts
<1> QED BY <1>1, <1>2, <1>3, <1>4, <1>5 DEF Take

-----------------------------------------------------------------------------
(* A byte of the list read from the numbers that hold it.                  *)
LEMMA ByteOfSlot ==
  ASSUME NEW words, NEW k \in Nat, NEW j \in Nat
  PROVE  ByteOf(words, 8*k + j) = <<words[k + (j \div 8)], j % 8>>
<1>1. (8*k + j) \div 8 = k + (j \div 8) /\ (8*k + j) % 8 = j % 8
  OBVIOUS
<1> QED BY <1>1 DEF ByteOf

LEMMA CachedByte ==
  ASSUME NEW f \in Objects, Coherent(f), NEW i \in Nat, i < CachedBytes(f)
  PROVE  ByteOf(f.rngbuf, 8 * f.bufidx + i)
           = <<Stream!Number(f.xseed, Position(f) + (i \div 8)), i % 8>>
<1>1. f.bufidx \in Nat
  BY ObjectFields
<1>2. f.bufidx + (i \div 8) \in f.bufidx .. BUFLEN-1
  BY <1>1, Params DEF CachedBytes
<1>3. (f.bufidx + (i \div 8)) - f.bufidx = i \div 8
  BY <1>1
<1>4. f.rngbuf[f.bufidx + (i \div 8)]
        = Stream!Number(f.xseed, Position(f) + (i \div 8))
  BY <1>2, <1>3 DEF Coherent
<1> QED BY <1>1, <1>4, ByteOfSlot

LEMMA WithinCorrect ==
  ASSUME NEW f \in Objects, Coherent(f), NEW bytes \in Nat,
         bytes <= CachedBytes(f)
  PROVE  LET d == rand_n_within(f, bytes)
         IN  /\ d.rng \in Objects /\ Coherent(d.rng)
             /\ d.rng.xseed = f.xseed
             /\ Position(d.rng) = (Position(f) + Stream!NumbersFor(bytes)) % Lanes
             /\ d.val = Stream!StreamBytes(f.xseed, Position(f), bytes)
<1> DEFINE n == (bytes + 7) \div 8
<1>1. /\ n \in Nat /\ f.bufidx + n <= BUFLEN
      /\ WordsFor(bytes) = n /\ Stream!NumbersFor(bytes) = n
  BY ObjectFields, Params DEF CachedBytes, WordsFor, Stream!NumbersFor
<1>2. ASSUME NEW i \in 0 .. bytes-1
      PROVE  ByteOf(f.rngbuf, 8 * f.bufidx + i)
               = <<Stream!Number(f.xseed, Position(f) + (i \div 8)), i % 8>>
  <2>1. i \in Nat /\ i < CachedBytes(f)
    BY ObjectFields, Params DEF CachedBytes
  <2> QED BY <2>1, CachedByte
<1>3. rand_n_within(f, bytes).val
        = Stream!StreamBytes(f.xseed, Position(f), bytes)
  BY <1>2 DEF rand_n_within, Stream!StreamBytes
<1>4. rand_n_within(f, bytes).rng = Advance(f, n)
  BY <1>1 DEF rand_n_within
<1> QED BY <1>1, <1>3, <1>4, AdvanceCorrect

(* The bytes that are generated straight into the caller's memory.         *)
LEMMA BulkByte ==
  ASSUME NEW f \in Objects, NEW j \in Nat
  PROVE  ByteOf(BulkFill(f, j \div SIZEOF_RNGBUF), j % SIZEOF_RNGBUF)
           = <<Stream!Number(f.xseed, 4 * f.counter + (j \div 8)), j % 8>>
<1> DEFINE q == j \div SIZEOF_RNGBUF
           r == j % SIZEOF_RNGBUF
           s == q * PARALLEL
<1>1. SIZEOF_RNGBUF = 32 * PARALLEL /\ SIZEOF_RNGBUF \in Nat /\ SIZEOF_RNGBUF > 0
  BY Params DEF SIZEOF_RNGBUF
<1>2. j = SIZEOF_RNGBUF * q + r /\ q \in Int /\ r \in 0 .. SIZEOF_RNGBUF-1
  <2>1. j \in Int
    OBVIOUS
  <2> QED BY <1>1, <2>1, DivMod
<1> HIDE DEF q, r
<1>3. /\ s \in Int /\ j = 32*s + r /\ r \in Nat
      /\ r \div 8 \in 0 .. BUFLEN-1
  <2>1. SIZEOF_RNGBUF * q = 32 * s
    BY <1>1, <1>2, Params
  <2> HIDE DEF s
  <2>2. s \in Int
    BY <1>2, Params DEF s
  <2> QED BY <1>1, <1>2, <2>1, <2>2, Params
<1> HIDE DEF s
<1>4. j \div 8 = 4*s + (r \div 8) /\ j % 8 = r % 8
  BY <1>3
<1>5. ByteOf(BulkFill(f, q), r) = <<BulkFill(f, q)[r \div 8], r % 8>>
  BY DEF ByteOf
<1>6. f.counter + s \in Int /\ f.counter \in Int
  BY <1>3, ObjectFields
<1>7. BulkFill(f, q)[r \div 8]
        = Stream!Number(f.xseed, 4 * (f.counter + s) + (r \div 8))
  BY <1>3, <1>6, ThreefrySlot DEF BulkFill, s
<1>8. 4 * (f.counter + s) + (r \div 8) = 4 * f.counter + (j \div 8)
  BY <1>3, <1>4, <1>6
<1> QED BY <1>4, <1>5, <1>7, <1>8 DEF q, r

LEMMA BeyondCorrect ==
  ASSUME NEW f \in Objects, Coherent(f), f.bufidx <= BUFLEN,
         NEW bytes \in Nat, bytes > CachedBytes(f)
  PROVE  LET d == rand_n_beyond(f, bytes)
         IN  /\ d.rng \in Objects /\ Coherent(d.rng)
             /\ d.rng.xseed = f.xseed
             /\ Position(d.rng) = (Position(f) + Stream!NumbersFor(bytes)) % Lanes
             /\ d.val = Stream!StreamBytes(f.xseed, Position(f), bytes)
<1> DEFINE cached == CachedBytes(f)
           t == BulkFills(f, bytes) * PARALLEL
           tail == TailBytes(f, bytes)
           w == WordsFor(tail)
           c1 == (f.counter + t) % U64
           h == Object(f.xseed, f.rngbuf, c1, BUFLEN)
           r == Refilled(h)
<1>1. /\ f.counter \in Int /\ f.bufidx \in 0 .. BUFLEN /\ f.bufidx \in Nat
      /\ f.xseed \in Keys /\ f.rngbuf \in Buffers
      /\ f = Object(f.xseed, f.rngbuf, f.counter, f.bufidx)
  BY ObjectFields, Params
<1>2. /\ cached \in Nat /\ cached = 8 * (BUFLEN - f.bufidx)
      /\ t \in Nat /\ tail \in 1 .. 8*BUFLEN
      /\ bytes = cached + 32*t + tail
      /\ BulkFills(f, bytes) * SIZEOF_RNGBUF = 32*t
  <2> DEFINE x == bytes - cached - 1
             q == x \div SIZEOF_RNGBUF
  <2>1. cached \in Nat /\ cached = 8 * (BUFLEN - f.bufidx) /\ x \in Nat
    BY <1>1, Params DEF CachedBytes
  <2>2. SIZEOF_RNGBUF = 32 * PARALLEL /\ SIZEOF_RNGBUF \in Nat
          /\ SIZEOF_RNGBUF > 0
    BY Params DEF SIZEOF_RNGBUF
  <2>3. /\ x = SIZEOF_RNGBUF * q + (x % SIZEOF_RNGBUF)
        /\ q \in Nat /\ x % SIZEOF_RNGBUF \in 0 .. SIZEOF_RNGBUF-1
    <3> HIDE DEF x
    <3>1. x \in Int /\ x >= 0
      BY <2>1
    <3>2. x = SIZEOF_RNGBUF * q + (x % SIZEOF_RNGBUF)
            /\ q \in Int /\ x % SIZEOF_RNGBUF \in 0 .. SIZEOF_RNGBUF-1
      BY <2>2, <3>1, DivMod
    <3>3. q \in Nat
      BY <2>2, <3>1, DivNat
    <3> QED BY <3>2, <3>3
  <2>4. BulkFills(f, bytes) = q
    BY DEF BulkFills
  <2>5. tail = bytes - cached - q * SIZEOF_RNGBUF
    BY <2>4 DEF TailBytes
  <2> HIDE DEF q, tail, cached
  <2>6. t \in Nat /\ q * SIZEOF_RNGBUF = 32*t
    BY <2>2, <2>3, <2>4, Params
  <2>7. x % SIZEOF_RNGBUF = tail - 1
    BY <2>1, <2>2, <2>3, <2>5, <2>6
  <2> QED BY <2>1, <2>2, <2>3, <2>4, <2>5, <2>6, <2>7, Params
<1> HIDE DEF cached, t, tail
<1>3. w \in Nat /\ w <= BUFLEN
        /\ Stream!NumbersFor(bytes) = (BUFLEN - f.bufidx) + 4*t + w
        /\ \A m \in 0 .. tail-1 : m \div 8 \in 0 .. BUFLEN-1
  BY <1>1, <1>2, Params DEF WordsFor, Stream!NumbersFor
<1>4. c1 \in 0 .. U64-1 /\ c1 \in Int
  BY <1>1, <1>2, Params, DivMod
<1> HIDE DEF w, c1
<1>5. h \in Objects /\ h.xseed = f.xseed /\ h.counter = c1 /\ h.bufidx = BUFLEN
  BY <1>1, <1>4, ObjectType, Params
<1>6. TailFill(f, bytes) = Object(f.xseed, threefry(f.xseed, c1),
                                  (c1 + PARALLEL) % U64, f.bufidx)
  <2> DEFINE g == Object(f.xseed, f.rngbuf, c1, f.bufidx)
             b1 == threefry(f.xseed, c1)
             c2 == (c1 + PARALLEL) % U64
  <2>1. [f EXCEPT !.counter = c1] = g
    BY <1>1, Updates
  <2>2. TailFill(f, bytes) = refill_buf(g)
    BY <2>1 DEF TailFill, c1, t
  <2>3. g.xseed = f.xseed /\ g.counter = c1
    BY Updates
  <2>4. [g EXCEPT !.rngbuf = b1] = Object(f.xseed, b1, c1, f.bufidx)
    BY Updates
  <2>5. [Object(f.xseed, b1, c1, f.bufidx) EXCEPT !.counter = c2]
          = Object(f.xseed, b1, c2, f.bufidx)
    BY Updates
  <2>6. Object(f.xseed, b1, c1, f.bufidx).counter = c1
    BY Updates
  <2> HIDE DEF g
  <2> QED BY <2>2, <2>3, <2>4, <2>5, <2>6 DEF refill_buf
<1>7. r = Object(f.xseed, threefry(f.xseed, c1), (c1 + PARALLEL) % U64, 0)
  <2>1. BUFLEN - BUFLEN = 0
    BY Params
  <2> QED BY <2>1, RefilledShape
<1>8. /\ r \in Objects /\ Coherent(r) /\ r.xseed = f.xseed /\ r.bufidx = 0
      /\ Position(r) = (4*c1) % Lanes
  <2>1. Unreduced(h) = 4*c1
    BY <1>4, <1>5, Params DEF Unreduced
  <2>2. Position(h) = (4*c1) % Lanes
    BY <1>5, <2>1, PositionFacts
  <2>3. h.bufidx >= BUFLEN
    BY <1>5, Params
  <2> HIDE DEF h
  <2>4. r.bufidx = 0
    BY <1>7, Updates
  <2> QED BY <1>5, <2>2, <2>3, <2>4, RefilledCorrect
<1>9. rand_n_beyond(f, bytes).rng = Advance(r, w)
  <2> DEFINE b1 == threefry(f.xseed, c1)
             c2 == (c1 + PARALLEL) % U64
  <2> HIDE DEF h, r, b1, c2
  <2>1. rand_n_beyond(f, bytes).rng = [Object(f.xseed, b1, c2, f.bufidx) EXCEPT !.bufidx = w]
    BY <1>6 DEF rand_n_beyond, w, tail, b1, c2
  <2>2. rand_n_beyond(f, bytes).rng = Object(f.xseed, b1, c2, w)
    BY <2>1, Updates
  <2>3. Advance(Object(f.xseed, b1, c2, 0), w) = Object(f.xseed, b1, c2, 0 + w)
    BY AdvanceShape
  <2>4. 0 + w = w
    BY <1>3
  <2> QED BY <2>2, <2>3, <2>4, <1>7 DEF b1, c2
<1> HIDE DEF h, r
<1>10. LET a == Advance(r, w)
       IN  /\ a \in Objects /\ Coherent(a) /\ a.xseed = f.xseed
           /\ Position(a) = (Position(r) + w) % Lanes
  BY <1>3, <1>8, AdvanceCorrect
(* The numbers of the tail follow those generated in bulk.                 *)
<1>11. ASSUME NEW i \in Int
       PROVE  (4*c1 + i) % Lanes = (4 * f.counter + 4*t + i) % Lanes
  <2>1. f.counter + t \in Int
    BY <1>1, <1>2
  <2>2. (4 * ((f.counter + t) % U64) + i) % (4*U64)
          = (4 * (f.counter + t) + i) % (4*U64)
    BY <2>1, Params, WrapBlock
  <2>3. 4 * (f.counter + t) + i = 4 * f.counter + 4*t + i
    BY <1>1, <1>2
  <2> QED BY <2>2, <2>3 DEF Lanes, c1
<1>12. (Position(r) + w) % Lanes
         = (Position(f) + Stream!NumbersFor(bytes)) % Lanes
  <2> DEFINE n == Stream!NumbersFor(bytes)
             u == Unreduced(f)
             v == 4*c1
  <2>1. /\ w \in Int /\ n \in Int /\ v \in Int
        /\ u \in Int /\ Position(f) = u % Lanes
        /\ u + n = 4 * f.counter + 4*t + w
    BY <1>1, <1>2, <1>3, <1>4, Params, PositionFacts DEF Unreduced
  <2> HIDE DEF n, u, v
  <2>2. ((v % Lanes) + w) % Lanes = (v + w) % Lanes
    BY <2>1, Params, ModAdd
  <2>3. ((u % Lanes) + n) % Lanes = (u + n) % Lanes
    BY <2>1, Params, ModAdd
  <2>4. (v + w) % Lanes = (u + n) % Lanes
    BY <2>1, <1>11 DEF v
  <2> QED BY <1>8, <2>1, <2>2, <2>3, <2>4 DEF n, v
<1>13. ASSUME NEW m \in Nat, m < tail
       PROVE  ByteOf(TailFill(f, bytes).rngbuf, m)
                = <<Stream!Number(f.xseed, 4 * f.counter + 4*t + (m \div 8)), m % 8>>
  <2> DEFINE k == m \div 8
  <2>1. k \in 0 .. BUFLEN-1 /\ k \in Int
    <3>1. m \in 0 .. tail-1
      BY <1>2, <1>13
    <3> QED BY <3>1, <1>3
  <2>2. TailFill(f, bytes).rngbuf = threefry(f.xseed, c1)
    BY <1>6, Updates
  <2> HIDE DEF k
  <2>3. threefry(f.xseed, c1)[k] = Stream!Number(f.xseed, 4*c1 + k)
    BY <2>1, <1>4, ThreefrySlot
  <2>4. /\ (4*c1 + k) % Lanes = (4 * f.counter + 4*t + k) % Lanes
        /\ 4*c1 + k \in Int /\ 4 * f.counter + 4*t + k \in Int
    BY <2>1, <1>1, <1>2, <1>4, <1>11
  <2>5. Stream!Number(f.xseed, 4*c1 + k)
          = Stream!Number(f.xseed, 4 * f.counter + 4*t + k)
    BY <2>4, NumberCongruent
  <2> QED BY <2>2, <2>3, <2>5 DEF ByteOf, k
<1>14. ASSUME NEW j \in Nat, j < 32*t + tail
       PROVE  MissingByte(f, bytes, j)
                = <<Stream!Number(f.xseed, 4 * f.counter + (j \div 8)), j % 8>>
  <2>1. CASE j < 32*t
    BY <2>1, <1>2, BulkByte DEF MissingByte
  <2>2. CASE ~ (j < 32*t)
    <3> DEFINE m == j - 32*t
    <3>1. /\ m \in Nat /\ m < tail /\ j = 8*(4*t) + m
      BY <2>2, <1>2, <1>14
    <3>a. j \div 8 = 4*t + (m \div 8) /\ m % 8 = j % 8
      <4> HIDE DEF m
      <4> QED BY <3>1, <1>2
    <3>b. 4 * f.counter + 4*t + (m \div 8) = 4 * f.counter + (j \div 8)
      <4> HIDE DEF m
      <4> QED BY <3>1, <3>a, <1>1, <1>2
    <3>2. MissingByte(f, bytes, j) = ByteOf(TailFill(f, bytes).rngbuf, m)
      BY <2>2, <1>2 DEF MissingByte
    <3> HIDE DEF m
    <3> QED BY <3>1, <3>a, <3>b, <3>2, <1>13
  <2> QED BY <2>1, <2>2
<1>15. ASSUME NEW i \in 0 .. bytes-1
       PROVE  (IF i < CachedBytes(f)
               THEN ByteOf(f.rngbuf, 8 * f.bufidx + i)
               ELSE MissingByte(f, bytes, i - CachedBytes(f)))
                = <<Stream!Number(f.xseed, Position(f) + (i \div 8)), i % 8>>
  <2>1. CASE i < CachedBytes(f)
    BY <2>1, CachedByte
  <2>2. CASE ~ (i < CachedBytes(f))
    <3> DEFINE j == i - cached
               u == Unreduced(f)
               k == i \div 8
    <3>a. /\ j \in Nat /\ j < 32*t + tail /\ i \in Nat
          /\ i = 8 * (BUFLEN - f.bufidx) + j
      BY <2>2, <1>1, <1>2, Params DEF cached
    <3>b. /\ j % 8 = i % 8 /\ k \in Int
          /\ k = (BUFLEN - f.bufidx) + (j \div 8)
      <4> HIDE DEF j
      <4> QED BY <3>a, <1>1, Params
    <3>c. u \in Int /\ Position(f) = u % Lanes
      BY PositionFacts
    <3>d. u + k = 4 * f.counter + (j \div 8)
      <4> HIDE DEF j, k
      <4> QED BY <3>a, <3>b, <1>1, Params, SMTT(30) DEF Unreduced
    <3>1. /\ j \in Nat /\ j < 32*t + tail /\ j % 8 = i % 8
          /\ k \in Int /\ u \in Int /\ Position(f) = u % Lanes
          /\ u + k = 4 * f.counter + (j \div 8)
      BY <3>a, <3>b, <3>c, <3>d
    <3>2. Stream!Number(f.xseed, (u % Lanes) + k) = Stream!Number(f.xseed, u + k)
      <4> HIDE DEF u, k
      <4> QED BY <3>1, NumberModulo
    <3>3. MissingByte(f, bytes, j)
            = <<Stream!Number(f.xseed, 4 * f.counter + (j \div 8)), j % 8>>
      <4> HIDE DEF j
      <4> QED BY <3>1, <1>14
    <3> QED BY <2>2, <3>1, <3>2, <3>3 DEF cached
  <2> QED BY <2>1, <2>2
<1>16. rand_n_beyond(f, bytes).val
         = Stream!StreamBytes(f.xseed, Position(f), bytes)
  BY <1>15 DEF rand_n_beyond, Stream!StreamBytes
<1> QED BY <1>9, <1>10, <1>12, <1>16

(* rand_n() returns the bytes of the numbers it uses up.                   *)
LEMMA RandNCorrect ==
  ASSUME NEW g \in Objects, Coherent(g), NEW bytes \in Nat
  PROVE  LET d == rand_n(g, bytes)
         IN  /\ d.rng \in Objects /\ Coherent(d.rng)
             /\ d.rng.xseed = g.xseed
             /\ Position(d.rng) = (Position(g) + Stream!NumbersFor(bytes)) % Lanes
             /\ d.val = Stream!StreamBytes(g.xseed, Position(g), bytes)
<1>1. CASE bytes = 0
  <2>1. rand_n(g, bytes) = [rng |-> g, val |-> [i \in 0 .. -1 |-> 0]]
    BY <1>1 DEF rand_n
  <2>2. Stream!NumbersFor(bytes) = 0
    BY <1>1 DEF Stream!NumbersFor
  <2>3. (Position(g) + 0) % Lanes = Position(g)
    BY Params, PositionFacts, SmallMod
  <2>4. [i \in 0 .. -1 |-> 0] = Stream!StreamBytes(g.xseed, Position(g), bytes)
    BY <1>1 DEF Stream!StreamBytes
  <2> QED BY <2>1, <2>2, <2>3, <2>4
<1>2. CASE bytes # 0
  <2> DEFINE f == IF g.bufidx > BUFLEN THEN Refilled(g) ELSE g
  <2>1. /\ f \in Objects /\ Coherent(f) /\ f.bufidx <= BUFLEN
        /\ f.xseed = g.xseed /\ Position(f) = Position(g)
    <3>1. CASE g.bufidx > BUFLEN
      <4>1. Refilled(g).bufidx <= BUFLEN /\ g.bufidx >= BUFLEN
        BY <3>1, RefilledCorrect, ObjectFields, Params
      <4> QED BY <3>1, <4>1, RefilledCorrect
    <3>2. CASE ~ (g.bufidx > BUFLEN)
      BY <3>2, ObjectFields, Params
    <3> QED BY <3>1, <3>2
  <2>2. rand_n(g, bytes) = rand_n_filled(f, bytes)
    BY <1>2 DEF rand_n
  <2> HIDE DEF f
  <2>3. CachedBytes(f) \in Int
    BY <2>1, ObjectFields, Params DEF CachedBytes
  <2>4. CASE bytes > CachedBytes(f)
    <3>1. rand_n(g, bytes) = rand_n_beyond(f, bytes)
      BY <2>2, <2>4 DEF rand_n_filled
    <3> QED BY <3>1, <2>1, <2>4, BeyondCorrect
  <2>5. CASE ~ (bytes > CachedBytes(f))
    <3>1. rand_n(g, bytes) = rand_n_within(f, bytes) /\ bytes <= CachedBytes(f)
      BY <2>2, <2>3, <2>5 DEF rand_n_filled
    <3> QED BY <3>1, <2>1, WithinCorrect
  <2> QED BY <2>4, <2>5
<1> QED BY <1>1, <1>2

-----------------------------------------------------------------------------
(* Entering and leaving orthogonal mode.                                   *)
LEMMA KeysOf ==
  ASSUME NEW s, NEW k, NEW off, NEW o \in BOOLEAN, NEW v \in BOOLEAN, v = ~o
  PROVE  toggle_ortho([seed |-> s, ortho |-> o, key0 |-> k], off)
           = [seed |-> s, ortho |-> v, key0 |-> off]
<1> DEFINE r == [seed |-> s, ortho |-> o, key0 |-> k]
           q == [seed |-> s, ortho |-> o, key0 |-> off]
<1>1. [r EXCEPT !.key0 = off] = q
  OBVIOUS
<1>2. [q EXCEPT !.ortho = v] = [seed |-> s, ortho |-> v, key0 |-> off]
  OBVIOUS
<1>3. r.ortho = o /\ q.ortho = o
  OBVIOUS
<1> HIDE DEF r, q
<1>4. toggle_ortho(r, off) = [seed |-> s, ortho |-> v, key0 |-> off]
  BY <1>1, <1>2, <1>3 DEF toggle_ortho
<1> QED BY <1>4 DEF r

LEMMA KeysToOrtho ==
  ASSUME NEW s, NEW k, NEW off
  PROVE  toggle_ortho([seed |-> s, ortho |-> FALSE, key0 |-> k], off)
           = [seed |-> s, ortho |-> TRUE, key0 |-> off]
BY KeysOf, TRUE = ~FALSE

LEMMA KeysToNormal ==
  ASSUME NEW s, NEW k, NEW off
  PROVE  toggle_ortho([seed |-> s, ortho |-> TRUE, key0 |-> k], off)
           = [seed |-> s, ortho |-> FALSE, key0 |-> off]
BY KeysOf, FALSE = ~TRUE

LEMMA KeysType ==
  ASSUME NEW s \in Seeds, NEW o \in BOOLEAN, NEW k \in 0 .. U64-1
  PROVE  [seed |-> s, ortho |-> o, key0 |-> k] \in Keys
BY DEF Keys

LEMMA EnableOrthoCorrect ==
  ASSUME NEW g \in Objects, NEW s \in Seeds, g.xseed = Stream!NormalKeys(s)
  PROVE  LET e == enable_ortho(g)
         IN  /\ e \in Objects /\ Coherent(e)
             /\ e.xseed = Stream!OrthoKeys(s, Position(g) % U64)
             /\ Position(e) = 0
<1> DEFINE off == getoffset(g)
           keys == toggle_ortho(g.xseed, off)
           h == Object(keys, g.rngbuf, g.counter, g.bufidx)
<1>1. off = Position(g) % U64 /\ off \in 0 .. U64-1
  BY OffsetCorrect
<1> HIDE DEF off
<1>2. keys = Stream!OrthoKeys(s, off) /\ keys \in Keys
  <2>1. keys = [seed |-> s, ortho |-> TRUE, key0 |-> off]
    BY KeysToOrtho DEF Stream!NormalKeys
  <2> HIDE DEF keys
  <2> QED BY <1>1, <2>1, KeysType DEF Stream!OrthoKeys
<1>3. [g EXCEPT !.xseed = keys] = h
  BY ObjectFields, Updates
<1> HIDE DEF keys
<1>4. h \in Objects /\ h.xseed = keys
  BY <1>2, ObjectFields, ObjectType
<1> HIDE DEF h
<1>5. enable_ortho(g) = seek(h, 0)
  BY <1>3 DEF enable_ortho, keys, off
<1>6. 0 \in 0 .. U64-1
  BY Params
<1> QED BY <1>1, <1>2, <1>4, <1>5, <1>6, SeekCorrect

LEMMA DisableOrthoCorrect ==
  ASSUME NEW g \in Objects, NEW s \in Seeds, NEW off \in 0 .. U64-1,
         g.xseed = Stream!OrthoKeys(s, off)
  PROVE  LET d == disable_ortho(g, 1)
         IN  /\ d \in Objects /\ Coherent(d)
             /\ d.xseed = Stream!NormalKeys(s)
             /\ Position(d) = (off + 1) % U64
<1> DEFINE to == (off + 1) % U64
           h == seek(g, to)
           keys == toggle_ortho(g.xseed, 0)
           d == Object(keys, h.rngbuf, h.counter, h.bufidx)
<1>1. to \in 0 .. U64-1
  BY Params, DivMod
<1>2. g.xseed.key0 = off
  BY DEF Stream!OrthoKeys
<1> HIDE DEF to
<1>3. /\ h \in Objects /\ h.xseed = g.xseed /\ Position(h) = to
      /\ h.bufidx >= BUFLEN
  BY <1>1, SeekCorrect
<1>4. keys = Stream!NormalKeys(s) /\ keys \in Keys
  <2>1. keys = [seed |-> s, ortho |-> FALSE, key0 |-> 0]
    BY KeysToNormal DEF Stream!OrthoKeys
  <2>2. 0 \in 0 .. U64-1
    BY Params
  <2> HIDE DEF keys
  <2> QED BY <2>1, <2>2, KeysType DEF Stream!NormalKeys
<1>5. seek(g, (g.xseed.key0 + 1) % U64) = h
  BY <1>2 DEF to
<1> HIDE DEF h
<1>6. disable_ortho(g, 1) = [h EXCEPT !.xseed = toggle_ortho(h.xseed, 0)]
  BY <1>5 DEF disable_ortho
<1>7. disable_ortho(g, 1) = d
  BY <1>3, <1>6, ObjectFields, Updates
<1> HIDE DEF keys
<1>8. /\ d \in Objects /\ d.xseed = keys /\ d.rngbuf = h.rngbuf
      /\ d.counter = h.counter /\ d.bufidx = h.bufidx
  BY <1>3, <1>4, ObjectFields, ObjectType
<1> HIDE DEF d
<1>9. Position(d) = Position(h)
  BY <1>8 DEF Position
<1>10. Coherent(d)
  <2>1. \A k \in h.bufidx .. BUFLEN-1 : FALSE
    BY <1>3, ObjectFields, Params
  <2> QED BY <2>1, <1>8 DEF Coherent
<1> QED BY <1>3, <1>4, <1>7, <1>8, <1>9, <1>10 DEF to

(* reseed() goes to number 0 of the new seed's list.                       *)
LEMMA ReseedCorrect ==
  ASSUME NEW g \in Objects, NEW s \in Seeds
  PROVE  LET d == reseed(g, s)
         IN  /\ d \in Objects /\ Coherent(d)
             /\ d.xseed = Stream!NormalKeys(s)
             /\ Position(d) = 0
<1> DEFINE h == seek(g, 0)
           keys == update_xseed(s)
           d == Object(keys, h.rngbuf, h.counter, h.bufidx)
<1>1. 0 \in 0 .. U64-1
  BY Params
<1>2. h \in Objects /\ Position(h) = 0 /\ h.bufidx >= BUFLEN
  BY <1>1, SeekCorrect
<1>3. keys = Stream!NormalKeys(s) /\ keys \in Keys
  BY <1>1, KeysType DEF update_xseed, Stream!NormalKeys
<1>4. reseed(g, s) = [h EXCEPT !.xseed = keys]
  BY DEF reseed
<1> HIDE DEF h, keys
<1>5. reseed(g, s) = d
  BY <1>2, <1>4, ObjectFields, Updates
<1>6. /\ d \in Objects /\ d.xseed = keys /\ d.rngbuf = h.rngbuf
      /\ d.counter = h.counter /\ d.bufidx = h.bufidx
  BY <1>2, <1>3, ObjectFields, ObjectType
<1> HIDE DEF d
<1>7. Position(d) = Position(h)
  BY <1>6 DEF Position
<1>8. Coherent(d)
  <2>1. \A k \in h.bufidx .. BUFLEN-1 : FALSE
    BY <1>2, ObjectFields, Params
  <2> QED BY <2>1, <1>6 DEF Coherent
<1> QED BY <1>2, <1>3, <1>5, <1>6, <1>7, <1>8

(* One of the seven draws of get_seq().                                    *)
LEMMA DrawCorrect ==
  ASSUME NEW g \in Objects, Coherent(g), NEW n \in 0 .. 6, Position(g) = n
  PROVE  LET d == rand_u64(g)
         IN  /\ d.rng \in Objects /\ Coherent(d.rng)
             /\ d.rng.xseed = g.xseed
             /\ Position(d.rng) = n + 1
             /\ d.val = Stream!Number(g.xseed, n)
<1>1. Lanes > 7 /\ n + 1 \in 0 .. Lanes-1
  BY Params DEF Lanes
<1>2. (n + 1) % Lanes = n + 1
  BY <1>1, Params, SmallMod
<1> QED BY <1>2, RandU64Correct

(* get_seq() draws from the list of the current offset, moves on by one.   *)
LEMMA GetSeqCorrect ==
  ASSUME NEW g \in Objects, NEW s \in Seeds, g.xseed = Stream!NormalKeys(s)
  PROVE  LET d == get_seq(g)
         IN  /\ d.rng \in Objects /\ Coherent(d.rng)
             /\ d.rng.xseed = Stream!NormalKeys(s)
             /\ Position(d.rng) = ((Position(g) % U64) + 1) % U64
             /\ d.val = [n \in 0 .. 6 |->
                          Stream!Number(Stream!OrthoKeys(s, Position(g) % U64), n)]
<1> DEFINE off == Position(g) % U64
           keys == Stream!OrthoKeys(s, off)
           Drawn(d, n) == /\ d.rng \in Objects /\ Coherent(d.rng)
                          /\ d.rng.xseed = keys
                          /\ Position(d.rng) = n + 1
                          /\ d.val = Stream!Number(keys, n)
           e == enable_ortho(g)
           d0 == rand_u64(e)
           d1 == rand_u64(d0.rng)
           d2 == rand_u64(d1.rng)
           d3 == rand_u64(d2.rng)
           d4 == rand_u64(d3.rng)
           d5 == rand_u64(d4.rng)
           d6 == rand_u64(d5.rng)
           draws == <<d0.val, d1.val, d2.val, d3.val, d4.val, d5.val, d6.val>>
<1>1. e \in Objects /\ Coherent(e) /\ e.xseed = keys /\ Position(e) = 0
  BY EnableOrthoCorrect
<1>2. off \in 0 .. U64-1
  BY OffsetCorrect
<1>3. get_seq(g) = [rng |-> disable_ortho(d6.rng, 1),
                    val |-> [n \in 0 .. 6 |-> draws[n+1]]]
  BY DEF get_seq
<1> HIDE DEF e, keys
<1>4. Drawn(d0, 0)
  BY <1>1, DrawCorrect
<1> HIDE DEF d0
<1>5. Drawn(d1, 1)
  BY <1>4, DrawCorrect
<1> HIDE DEF d1
<1>6. Drawn(d2, 2)
  BY <1>5, DrawCorrect
<1> HIDE DEF d2
<1>7. Drawn(d3, 3)
  BY <1>6, DrawCorrect
<1> HIDE DEF d3
<1>8. Drawn(d4, 4)
  BY <1>7, DrawCorrect
<1> HIDE DEF d4
<1>9. Drawn(d5, 5)
  BY <1>8, DrawCorrect
<1> HIDE DEF d5
<1>10. Drawn(d6, 6)
  BY <1>9, DrawCorrect
<1> HIDE DEF d6
<1>11. [n \in 0 .. 6 |-> draws[n+1]] = [n \in 0 .. 6 |-> Stream!Number(keys, n)]
  <2> SUFFICES ASSUME NEW n \in 0 .. 6
               PROVE  draws[n+1] = Stream!Number(keys, n)
    OBVIOUS
  <2>1. n = 0 \/ n = 1 \/ n = 2 \/ n = 3 \/ n = 4 \/ n = 5 \/ n = 6
    OBVIOUS
  <2> QED BY <2>1, <1>4, <1>5, <1>6, <1>7, <1>8, <1>9, <1>10
<1>12. LET d == disable_ortho(d6.rng, 1)
       IN  /\ d \in Objects /\ Coherent(d)
           /\ d.xseed = Stream!NormalKeys(s)
           /\ Position(d) = (off + 1) % U64
  BY <1>2, <1>10, DisableOrthoCorrect DEF keys
<1> HIDE DEF draws, off
<1> QED BY <1>3, <1>11, <1>12 DEF keys, off

-----------------------------------------------------------------------------
(***************************************************************************)
(* The inductive invariant. CacheCoherent speaks of the keys as well: the  *)
(* calls that leave orthogonal mode must find the seed's normal keys, or   *)
(* what they leave behind would be the orthogonal list of another offset.  *)
(***************************************************************************)
Inv == TypeOK /\ CacheCoherent

LEMMA InvOf ==
  ASSUME Inv
  PROVE  /\ rng \in Objects /\ Coherent(rng)
         /\ rng.xseed.seed \in Seeds
         /\ rng.xseed = Stream!NormalKeys(rng.xseed.seed)
<1>1. rng \in Objects /\ rng.xseed \in Keys
  BY ObjectFields DEF Inv, TypeOK
<1>2. rng.xseed.seed \in Seeds
  BY <1>1 DEF Keys
<1> QED BY <1>1, <1>2 DEF Inv, CacheCoherent, update_xseed, Stream!NormalKeys

LEMMA InvFrom ==
  ASSUME NEW s \in Seeds, rng' \in Objects, Coherent(rng)',
         rng'.xseed = Stream!NormalKeys(s)
  PROVE  Inv' /\ rng'.xseed.seed = s
<1>1. rng'.xseed.seed = s
  BY DEF Stream!NormalKeys
<1>2. rng'.xseed = update_xseed(rng'.xseed.seed)
  BY <1>1 DEF update_xseed, Stream!NormalKeys
<1> QED BY <1>1, <1>2 DEF Inv, TypeOK, CacheCoherent

LEMMA InitCorrect == Init => Inv /\ Stream!Init
<1> SUFFICES ASSUME Init PROVE Inv /\ Stream!Init
  OBVIOUS
<1>1. PICK s \in Seeds : rng = Object(update_xseed(s), Uninitialized, 0, BUFLEN)
  BY DEF Init, Object
<1>2. 0 \in 0 .. U64-1 /\ BUFLEN \in 0 .. BUFLEN+3
  BY Params
<1>3. update_xseed(s) = Stream!NormalKeys(s) /\ update_xseed(s) \in Keys
  BY <1>2, KeysType DEF update_xseed, Stream!NormalKeys
<1>4. Uninitialized \in Buffers
  <2>1. update_xseed("none")
          \in [seed : Seeds \cup {"none"}, ortho : BOOLEAN, key0 : 0 .. U64-1]
    BY <1>2 DEF update_xseed
  <2>2. <<update_xseed("none"), 0, 0>> \in NumberIds
    BY <1>2, <2>1 DEF NumberIds
  <2> QED BY <2>2 DEF Uninitialized, Buffers
<1>5. /\ rng \in Objects /\ rng.xseed = update_xseed(s)
      /\ rng.counter = 0 /\ rng.bufidx = BUFLEN
  BY <1>1, <1>2, <1>3, <1>4, ObjectType
<1>6. rng.xseed.seed = s
  BY <1>5 DEF update_xseed
<1>7. Coherent(rng)
  <2>1. \A k \in BUFLEN .. BUFLEN-1 : FALSE
    BY Params
  <2> QED BY <1>5, <2>1 DEF Coherent
<1>8. Position(rng) = 0
  <2>1. Unreduced(rng) = 0
    BY <1>5, Params DEF Unreduced
  <2> QED BY <2>1, <1>5, PositionFacts, Params, SmallMod
<1> QED BY <1>5, <1>6, <1>7, <1>8 DEF Init, Inv, TypeOK, CacheCoherent, Stream!Init

LEMMA StepCorrect ==
  ASSUME Inv, [Next]_vars
  PROVE  Inv' /\ [Stream!Next]_(Stream!svars)
<1> DEFINE s0 == rng.xseed.seed
<1>1. /\ rng \in Objects /\ Coherent(rng) /\ s0 \in Seeds
      /\ rng.xseed = Stream!NormalKeys(s0)
  BY InvOf
<1>2. ASSUME NEW s \in Seeds, Reseed(s)
      PROVE  Inv' /\ Stream!Reseed(s)
  <2>1. /\ rng' \in Objects /\ Coherent(rng)'
        /\ rng'.xseed = Stream!NormalKeys(s) /\ Position(rng)' = 0
    BY <1>1, <1>2, ReseedCorrect DEF Reseed
  <2> QED BY <1>2, <2>1, InvFrom DEF Reseed, Stream!Reseed
<1>3. ASSUME NEW off \in Offsets, Seek(off)
      PROVE  Inv' /\ Stream!Seek(off)
  <2>1. off \in 0 .. U64-1
    BY OffsetsFit
  <2>2. /\ rng' \in Objects /\ Coherent(rng)'
        /\ rng'.xseed = Stream!NormalKeys(s0) /\ Position(rng)' = off
    BY <1>1, <1>3, <2>1, SeekCorrect DEF Seek
  <2> QED BY <1>1, <1>3, <2>2, InvFrom DEF Seek, Stream!Seek
<1>4. CASE GetOffset
  <2>1. rng' = rng
    BY <1>4 DEF GetOffset
  <2>2. Inv' /\ rng'.xseed.seed = s0 /\ Position(rng)' = Position(rng)
    BY <2>1 DEF Inv, TypeOK, CacheCoherent, Coherent, Position, Stream!Number
  <2>3. out' = <<"getoffset", Position(rng) % U64>>
    BY <1>1, <1>4, OffsetCorrect DEF GetOffset
  <2> QED BY <2>2, <2>3 DEF Stream!GetOffset, Stream!Next
<1>5. CASE RandU64
  <2>1. /\ rng' \in Objects /\ Coherent(rng)'
        /\ rng'.xseed = Stream!NormalKeys(s0)
        /\ Position(rng)' = (Position(rng) + 1) % Lanes
        /\ out' = <<"rand_u64", Stream!Number(rng.xseed, Position(rng))>>
    BY <1>1, <1>5, RandU64Correct DEF RandU64
  <2>2. Inv' /\ rng'.xseed.seed = s0
    BY <1>1, <2>1, InvFrom
  <2> QED BY <1>1, <2>1, <2>2
          DEF Stream!RandU64, Stream!Next, Stream!Period, Lanes
<1>9. CASE RandRange
  <2>1. /\ rng' \in Objects /\ Coherent(rng)'
        /\ rng'.xseed = Stream!NormalKeys(s0)
        /\ Position(rng)' = (Position(rng) + 1) % Lanes
        /\ out' = <<"rand_range", Stream!Number(rng.xseed, Position(rng))>>
    BY <1>1, <1>9, RandU64Correct DEF RandRange
  <2>2. Inv' /\ rng'.xseed.seed = s0
    BY <1>1, <2>1, InvFrom
  <2> QED BY <1>1, <2>1, <2>2
          DEF Stream!RandRange, Stream!Next, Stream!Period, Lanes
<1>6. ASSUME NEW n \in Requests, RandN(n)
      PROVE  Inv' /\ Stream!RandN(n)
  <2>1. n \in Nat
    BY RequestsNat
  <2>2. /\ rng' \in Objects /\ Coherent(rng)'
        /\ rng'.xseed = Stream!NormalKeys(s0)
        /\ Position(rng)' = (Position(rng) + Stream!NumbersFor(n)) % Lanes
        /\ out' = <<"rand_n", Stream!StreamBytes(rng.xseed, Position(rng), n)>>
    BY <1>1, <1>6, <2>1, RandNCorrect DEF RandN
  <2>3. Inv' /\ rng'.xseed.seed = s0
    BY <1>1, <2>2, InvFrom
  <2> QED BY <1>1, <2>2, <2>3 DEF Stream!RandN, Stream!Period, Lanes
<1>7. CASE GetSeq
  <2>1. /\ rng' \in Objects /\ Coherent(rng)'
        /\ rng'.xseed = Stream!NormalKeys(s0)
        /\ Position(rng)' = ((Position(rng) % U64) + 1) % U64
        /\ out' = <<"get_seq", [n \in 0 .. 6 |->
             Stream!Number(Stream!OrthoKeys(s0, Position(rng) % U64), n)]>>
    BY <1>1, <1>7, GetSeqCorrect DEF GetSeq
  <2>2. Inv' /\ rng'.xseed.seed = s0
    BY <1>1, <2>1, InvFrom
  <2> QED BY <2>1, <2>2 DEF Stream!GetSeq, Stream!Next
<1>8. CASE UNCHANGED vars
  BY <1>8 DEF vars, Inv, TypeOK, CacheCoherent, Coherent, Position,
              Stream!Number, Stream!svars
<1> QED BY <1>2, <1>3, <1>4, <1>5, <1>6, <1>7, <1>8, <1>9
        DEF Next, Stream!Next

(***************************************************************************)
(* Whatever calls were made, the fields of the object stay in their        *)
(* ranges (bufidx never points past the slots seek() skips over) and the   *)
(* cache holds the numbers that follow in the seed's list.                 *)
(***************************************************************************)
THEOREM CacheAlwaysCoherent == Spec => [](TypeOK /\ CacheCoherent)
<1>1. Init => Inv
  BY InitCorrect
<1>2. Inv /\ [Next]_vars => Inv'
  BY StepCorrect
<1> QED BY <1>1, <1>2, PTL DEF Spec, Inv

(***************************************************************************)
(* The class keeps the promise of RandStream: every call returns the next  *)
(* numbers of the seed's list, for every PARALLEL.                         *)
(***************************************************************************)
THEOREM Refinement == Spec => ImplementsStream
<1>1. Init => Inv /\ Stream!Init
  BY InitCorrect
<1>2. Inv /\ [Next]_vars => Inv' /\ [Stream!Next]_(Stream!svars)
  BY StepCorrect
<1> QED BY <1>1, <1>2, PTL DEF Spec, ImplementsStream, Stream!Spec

-----------------------------------------------------------------------------
(* Offsets and requests: what two calls have to do with one.               *)

(* Where the list is left by a call is all that matters to the next.       *)
LEMMA SamePlace ==
  ASSUME NEW g \in Objects, Coherent(g), NEW h \in Objects, Coherent(h),
         g.xseed = h.xseed, Position(g) = Position(h), NEW n \in Nat
  PROVE  rand_n(g, n).val = rand_n(h, n).val
BY RandNCorrect

LEMMA InvReplays == Inv => SeekReplays
<1> SUFFICES ASSUME Inv, Position(rng) < U64, NEW n \in Requests
             PROVE  rand_n(seek(rng, getoffset(rng)), n).val = rand_n(rng, n).val
  BY DEF SeekReplays
<1> DEFINE off == getoffset(rng)
           s == seek(rng, off)
<1>1. rng \in Objects /\ Coherent(rng) /\ n \in Nat
  BY InvOf, RequestsNat
<1>2. off = Position(rng) /\ off \in 0 .. U64-1
  <2>1. Position(rng) \in 0 .. U64-1
    BY <1>1, PositionFacts, Params
  <2> QED
    BY <1>1, <2>1, OffsetCorrect, SmallMod, Params
<1> HIDE DEF off
<1>3. /\ s \in Objects /\ Coherent(s)
      /\ s.xseed = rng.xseed /\ Position(s) = off
  BY <1>1, <1>2, SeekCorrect
<1> HIDE DEF s
<1>4. rand_n(s, n).val = rand_n(rng, n).val
  BY <1>1, <1>2, <1>3, SamePlace
<1> QED
  BY <1>4 DEF s, off

(* Whole numbers first: the bytes of q numbers, then the bytes of others.  *)
LEMMA WholeNumbers ==
  ASSUME NEW n \in Nat, n % 8 = 0, NEW m \in Nat
  PROVE  \E q \in Nat :
           /\ n = 8 * q /\ Stream!NumbersFor(n) = q
           /\ Stream!NumbersFor(n + m) = q + Stream!NumbersFor(m)
           /\ Stream!NumbersFor(m) \in Nat
<1> DEFINE q == n \div 8
<1>1. q \in Nat /\ n = 8 * q
  BY DivMod, DivNat
<1> HIDE DEF q
<1>2. (n + 7) \div 8 = q
  BY <1>1
<1>3. (n + m + 7) \div 8 = q + ((m + 7) \div 8) /\ (m + 7) \div 8 \in Nat
  BY <1>1
<1> QED
  BY <1>1, <1>2, <1>3 DEF Stream!NumbersFor

LEMMA BytesConcatenate ==
  ASSUME NEW keys, NEW p \in Int, NEW q \in Nat, NEW m \in Nat, NEW n \in Nat, n = 8 * q,
         NEW a, a = Stream!StreamBytes(keys, p, n),
         NEW b, b = Stream!StreamBytes(keys, (p + q) % Lanes, m)
  PROVE  Stream!StreamBytes(keys, p, n + m)
           = [i \in 0 .. n+m-1 |-> IF i < n THEN a[i] ELSE b[i - n]]
<1> DEFINE z(i) == <<Stream!Number(keys, p + (i \div 8)), i % 8>>
           c(i) == IF i < n THEN a[i] ELSE b[i - n]
<1>1. ASSUME NEW i \in 0 .. n+m-1, i < n
      PROVE  z(i) = c(i)
  <2>1. i \in 0 .. n-1
    BY <1>1
  <2>2. a[i] = z(i)
    BY <2>1 DEF Stream!StreamBytes
  <2> HIDE DEF z
  <2> QED
    BY <1>1, <2>2
<1>2. ASSUME NEW i \in 0 .. n+m-1, ~(i < n)
      PROVE  z(i) = c(i)
  <2>1. i - n \in 0 .. m-1
    BY <1>2
  <2>2. b[i - n] = <<Stream!Number(keys, ((p + q) % Lanes) + ((i - n) \div 8)), (i - n) % 8>>
    BY <2>1 DEF Stream!StreamBytes
  <2>3. (i - n) \div 8 = (i \div 8) - q /\ (i - n) % 8 = i % 8 /\ i \div 8 \in Int
    OBVIOUS
  <2> DEFINE k == (i \div 8) - q
             y == p + q
  <2>4. y + k = p + (i \div 8) /\ y \in Int /\ k \in Int
    BY <2>3
  <2>5. Stream!Number(keys, (y % Lanes) + k) = Stream!Number(keys, y + k)
    <3> HIDE DEF k, y
    <3> QED
      BY <2>4, NumberModulo
  <2> QED
    BY <1>2, <2>2, <2>3, <2>4, <2>5
<1>3. \A i \in 0 .. n+m-1 : z(i) = c(i)
  BY <1>1, <1>2
<1> HIDE DEF z, c
<1>4. [i \in 0 .. n+m-1 |-> z(i)] = [i \in 0 .. n+m-1 |-> c(i)]
  BY <1>3
<1>5. Stream!StreamBytes(keys, p, n + m) = [i \in 0 .. n+m-1 |-> z(i)]
  BY DEF z, Stream!StreamBytes
<1>6. Stream!StreamBytes(keys, p, n + m) = [i \in 0 .. n+m-1 |-> c(i)]
  BY <1>4, <1>5
<1> QED
  BY <1>6, Zenon DEF c

LEMMA InvConcatenates == Inv => RandNConcatenates
<1> SUFFICES ASSUME Inv, NEW n \in Requests, NEW m \in Requests, n % 8 = 0
             PROVE  LET first  == rand_n(rng, n)
                        second == rand_n(first.rng, m)
                        whole  == rand_n(rng, n + m)
                    IN  /\ Position(whole.rng) = Position(second.rng)
                        /\ whole.val = [i \in 0 .. n+m-1 |->
                             IF i < n THEN first.val[i] ELSE second.val[i - n]]
  BY DEF RandNConcatenates
<1> DEFINE first  == rand_n(rng, n)
           second == rand_n(first.rng, m)
           whole  == rand_n(rng, n + m)
           keys == rng.xseed
           p == Position(rng)
<1>1. rng \in Objects /\ Coherent(rng) /\ n \in Nat /\ m \in Nat /\ n + m \in Nat
  BY InvOf, RequestsNat
<1>2. PICK q \in Nat :
        /\ n = 8 * q /\ Stream!NumbersFor(n) = q
        /\ Stream!NumbersFor(n + m) = q + Stream!NumbersFor(m)
        /\ Stream!NumbersFor(m) \in Nat
  BY <1>1, WholeNumbers
<1>3. p \in Int
  BY <1>1, PositionFacts
<1>4. /\ first.rng \in Objects /\ Coherent(first.rng) /\ first.rng.xseed = keys
      /\ Position(first.rng) = (p + q) % Lanes
      /\ first.val = Stream!StreamBytes(keys, p, n)
  BY <1>1, <1>2, RandNCorrect
<1> HIDE DEF first
<1>5. /\ Position(second.rng) = (((p + q) % Lanes) + Stream!NumbersFor(m)) % Lanes
      /\ second.val = Stream!StreamBytes(keys, (p + q) % Lanes, m)
  BY <1>1, <1>4, RandNCorrect
<1>6. /\ Position(whole.rng) = (p + (q + Stream!NumbersFor(m))) % Lanes
      /\ whole.val = Stream!StreamBytes(keys, p, n + m)
  BY <1>1, <1>2, RandNCorrect
<1> HIDE DEF second, whole, keys, p
<1>7. Position(whole.rng) = Position(second.rng)
  <2> DEFINE k == Stream!NumbersFor(m)
  <2>1. k \in Int /\ p + q \in Int
    BY <1>2, <1>3
  <2> HIDE DEF k
  <2>2. (((p + q) % Lanes) + k) % Lanes = ((p + q) + k) % Lanes
    BY <2>1, Params, ModAdd
  <2>3. (p + q) + k = p + (q + k)
    BY <2>1, <1>2, <1>3
  <2> QED
    BY <1>5, <1>6, <2>2, <2>3 DEF k
<1>8. whole.val = [i \in 0 .. n+m-1 |-> IF i < n THEN first.val[i] ELSE second.val[i - n]]
  <2> DEFINE a == first.val
             b == second.val
  <2>1. /\ a = Stream!StreamBytes(keys, p, n)
        /\ b = Stream!StreamBytes(keys, (p + q) % Lanes, m)
    BY <1>4, <1>5
  <2> HIDE DEF a, b
  <2>2. Stream!StreamBytes(keys, p, n + m)
          = [i \in 0 .. n+m-1 |-> IF i < n THEN a[i] ELSE b[i - n]]
    BY ONLY <2>1, <1>1, <1>2, <1>3, BytesConcatenate
  <2> QED
    BY <1>6, <2>2 DEF a, b
<1> QED
  BY <1>7, <1>8 DEF first, second, whole

(***************************************************************************)
(* Whatever calls were made: saving getoffset() and seeking there draws    *)
(* what would have been drawn, as Random.h promises, from every place that *)
(* an offset can express.                                                  *)
(***************************************************************************)
THEOREM Replay == Spec => []SeekReplays
<1>1. Spec => []Inv
  BY InitCorrect, StepCorrect, PTL DEF Spec
<1> QED BY <1>1, InvReplays, PTL

(***************************************************************************)
(* A request of whole numbers and one after it return the bytes, and leave *)
(* the place in the list, of the larger request (Random.h): in rand_n()    *)
(* the two may take different ways through cache, bulk fills and tail.     *)
(***************************************************************************)
THEOREM Concatenation == Spec => []RandNConcatenates
<1>1. Spec => []Inv
  BY InitCorrect, StepCorrect, PTL DEF Spec
<1> QED BY <1>1, InvConcatenates, PTL

=============================================================================
