------------------------------- MODULE RandSeq --------------------------------
(***************************************************************************)
(* class RandSeq (util/Random.h, Random.cpp): a random sequence of numbers *)
(* 0 .. szelem, each once, or of elements of szelem bytes that differ from *)
(* each other in one, two or three bits at least. Nothing is kept of it    *)
(* but keys: write() makes any part of it, by encrypting the elements'     *)
(* numbers.                                                                *)
(*                                                                         *)
(* A word is the set of the bits in it that are 1. So is a byte, but one   *)
(* that is merely random is the set of its place in the object's own       *)
(* stream of random bytes, counted from -1 downwards.                      *)
(***************************************************************************)
EXTENDS Integers, Sequences, FiniteSetsExt, SequencesExt

CONSTANTS
  WB,                         \* 8: the bytes of a uint64_t
  RANDS_PER_ROUND, PARALLEL,  \* the numbers of a block, and blocks at a time
  feistelF(_, _, _),          \* an arbitrary function of a word, keys and round
  Objects,                    \* what get_seq() may return
  Calls(_)                    \* the <<elem_lo, elem_n>> to ask an object for

VARIABLES
  obj,     \* type, szelem, the keys fkeys and the number rkeys1
  asked,   \* the arguments of the last write()
  ok,      \* what it returned
  buf      \* the bytes it wrote, by their places in the caller's buffer

vars == <<obj, asked, ok, buf>>

WORD == 8 * WB
U64 == 2^WORD
FEISTEL_MAXROUNDS == 4
FEISTEL_CUTOFF == 10

(* The exponents of a polynomial for each number of bytes.                 *)
polytable == <<<<3, 4>>, <<3, 5>>, <<3, 5>>, <<5, 6>>, <<5, 6>>, <<5, 6>>, <<5, 6>>, <<6, 7>>>>

Bits(n) == {b \in 0 .. WORD-1 : (n \div 2^b) % 2 = 1}
Number(w) == MapThenSumSet(LAMBDA b : 2^b, w)
Xor(w, v) == (w \ v) \cup (v \ w)
Shl(w, k) == {b + k : b \in w} \cap 0 .. WORD-1
ByteOf(w, k) == {b \in 0 .. 7 : 8*k + b \in w}

-----------------------------------------------------------------------------
(***************************************************************************)
(* fill_perm(): the key is read as a Lehmer code, digit i telling which of *)
(* the numbers that are not before it element i is.                        *)
(***************************************************************************)
Factorial(n) == FoldLeft(LAMBDA p, i : p * i, 1, [i \in 1 .. n |-> i])
LehmerCode(key, count) ==
  [i \in 0 .. count-1 |-> (key \div Factorial(count - i - 1)) % (count - i)]

Permutation(key, count) ==
  FoldLeft(LAMBDA elems, i :
             [j \in DOMAIN elems |->
                IF j > i /\ elems[j] >= elems[i] THEN elems[j] + 1 ELSE elems[j]],
           LehmerCode(key, count), [n \in 1 .. count-1 |-> count - 1 - n])

(* The numbers 0 .. 2^bits-1 encrypted, in two halves of unlike length.    *)
feistel(k, n, bits) ==
  LET lbits == bits \div 2
      lmask == 0 .. lbits-1
      rmask == 0 .. bits-lbits-1
      rounds == FEISTEL_MAXROUNDS - (IF bits < 6 THEN 0 ELSE IF bits < 8 THEN 1 ELSE 2)
      round(h, i) == LET l == Xor(h.l, feistelF(h.r, k, 2*i) \cap lmask)
                     IN  [l |-> l, r |-> Xor(h.r, feistelF(l, k, 2*i + 1) \cap rmask)]
      halves == FoldLeft(round, [l |-> n \cap lmask, r |-> {b - lbits : b \in n} \cap rmask],
                         [i \in 1 .. rounds |-> i - 1])
  IN  Shl(halves.r, lbits) \cup halves.l

(* How wide the numbers of elements are: those of sz bytes, or up to sz.   *)
nbits(min_dist, sz) ==
  CASE min_dist = 0 -> Max(Bits(sz)) + 1
    [] min_dist = 1 -> 8 * sz
    [] min_dist = 2 -> 8 * sz - 1
    [] min_dist = 3 -> 8 * sz - polytable[sz][2]

(* Mutant: a number past the last is brought back by a division.           *)
CycleWalk_modulo(k, r, sz) == Bits(Number(r) % (sz + 1))

(* A number past the last is encrypted again until it is not.              *)
RECURSIVE CycleWalk(_, _, _)
CycleWalk(k, r, sz) ==
  IF Number(r) <= sz THEN r ELSE CycleWalk(k, feistel(k, r, nbits(0, sz)), sz)

(* Element n, of sz bytes; times a polynomial over the bits, if they are   *)
(* to be apart, and then each with the same random bits inverted.          *)
Element(min_dist, n, sz) ==
  LET r == feistel(obj.fkeys, Bits(n), nbits(min_dist, sz))
      mask == Bits(obj.rkeys1)
  IN  CASE min_dist = 0 -> CycleWalk(obj.fkeys, r, sz)
        [] min_dist = 1 -> r
        [] min_dist = 2 -> Xor(r, Xor(mask, Shl(r, 1)))
        [] min_dist = 3 -> Xor(Xor(r, mask), Xor(Shl(r, polytable[sz][1]), Shl(r, polytable[sz][2])))

(* Elements lo to lo + n - 1, each at the beginning of its stride in into. *)
fill_seq(into, min_dist, lo, n, sz, bytes, stride) ==
  LET elems == [i \in 0 .. n-1 |-> Element(min_dist, lo + i, sz)]
  IN  [a \in (DOMAIN into) \cup {i * stride + k : i \in 0 .. n-1, k \in 0 .. bytes-1} |->
         IF a % stride < bytes THEN ByteOf(elems[a \div stride], a % stride) ELSE into[a]]

-----------------------------------------------------------------------------
ROUND == RANDS_PER_ROUND * WB  \* the bytes of a block
FILL == PARALLEL * ROUND       \* the bytes threefry() makes in one call

(* Byte j of what threefry() makes from a counter.                         *)
RandomByte(counter, j) == {-1 - (counter * ROUND + j)}

(* Mutant: the blocks of the first call count as one.                      *)
SecondCounter_next(first, size) == IF size > 0 THEN first + 1 ELSE first

(* The counter after the first call, if there was one.                     *)
SecondCounter(first, size) == IF size > 0 THEN first + PARALLEL ELSE first

(***************************************************************************)
(* fill_rand(): the random bytes that elements lo to lo + n - 1 would be.  *)
(* The first come from within a call's bytes, if they do not begin it; the *)
(* others are made in place, but the last, if they do not fill a call.     *)
(***************************************************************************)
fill_rand(sz, lo, n) ==
  LET nbytes == (n * sz) % U64
      offset_rounds == ((lo * sz) % U64) \div ROUND
      offset_bytes == ((lo * sz) % U64) % ROUND
      offset_size == Min({FILL - offset_bytes, nbytes}) % FILL
      counter == SecondCounter(offset_rounds, offset_size)
  IN  [a \in 0 .. nbytes-1 |->
         IF a < offset_size THEN RandomByte(offset_rounds, offset_bytes + a)
         ELSE RandomByte(counter + ((a - offset_size) \div FILL) * PARALLEL,
                         (a - offset_size) % FILL)]

Untouched == [a \in {} |-> {}]

(* Long elements are random but for the first 8 bytes.                     *)
fill_elem(min_dist, lo, n) ==
  IF obj.szelem \in 1 .. WB
  THEN fill_seq(Untouched, min_dist, lo, n, obj.szelem, obj.szelem, obj.szelem)
  ELSE fill_seq(fill_rand(obj.szelem, lo, n), min_dist, lo, n, WB, WB, obj.szelem)

fill_perm(lo, n) ==
  LET elems == Permutation(obj.rkeys1, obj.szelem + 1)
  IN  [a \in 0 .. n*WB - 1 |-> ByteOf(Bits(elems[lo + (a \div WB)]), a % WB)]

(* Mutant: a permutation has as many numbers as its largest.               *)
seq_maxelem_short(type, sz) ==
  CASE sz = 0 -> 0
    [] sz > WB /\ type # "SEQ_NUM" -> U64 - 1
    [] type = "SEQ_DIST_1" /\ sz <= WB -> IF sz = WB THEN U64 - 1 ELSE 2^(8*sz)
    [] type = "SEQ_DIST_2" /\ sz <= WB -> 2^(8*sz - 1)
    [] type = "SEQ_DIST_3" /\ sz <= WB -> 2^(8*sz - polytable[sz][2])
    [] type = "SEQ_NUM" /\ sz > 0 -> sz

(* The number of elements of a sequence.                                   *)
seq_maxelem(type, sz) ==
  CASE sz = 0 -> 0
    [] sz > WB /\ type # "SEQ_NUM" -> U64 - 1
    [] sz \in 1 .. WB /\ type = "SEQ_DIST_1" -> IF sz = WB THEN U64 - 1 ELSE 2^(8*sz)
    [] sz \in 1 .. WB /\ type = "SEQ_DIST_2" -> 2^(8*sz - 1)
    [] sz \in 1 .. WB /\ type = "SEQ_DIST_3" -> 2^(8*sz - polytable[sz][2])
    [] sz > 0 /\ type = "SEQ_NUM" -> sz + 1

(* The bytes written for elements lo to lo + n - 1.                        *)
Written(lo, n) ==
  CASE obj.type = "SEQ_DIST_1" -> fill_elem(1, lo, n)
    [] obj.type = "SEQ_DIST_2" -> fill_elem(2, lo, n)
    [] obj.type = "SEQ_DIST_3" -> fill_elem(3, lo, n)
    [] obj.type = "SEQ_NUM" /\ obj.szelem < FEISTEL_CUTOFF -> fill_perm(lo, n)
    [] obj.type = "SEQ_NUM" /\ obj.szelem >= FEISTEL_CUTOFF ->
         fill_seq(Untouched, 0, lo, n, obj.szelem, WB, WB)

write(lo, n) ==
  LET hi == (lo + n) % U64 IN
  /\ asked' = <<lo, n>>
  /\ ok' = (lo <= hi /\ hi <= seq_maxelem(obj.type, obj.szelem))
  /\ buf' = IF ok' THEN Written(lo, n) ELSE Untouched
  /\ UNCHANGED obj

Init ==
  /\ obj \in Objects
  /\ asked = <<0, 0>> /\ ok = TRUE /\ buf = Untouched

Next == \E c \in Calls(obj) : write(c[1], c[2])

Spec == Init /\ [][Next]_vars

-----------------------------------------------------------------------------
Stride == IF obj.type = "SEQ_NUM" THEN WB ELSE obj.szelem
Prefix == Min({Stride, WB})

(* The elements in the buffer by their numbers, each a sequence of bytes.  *)
Elements ==
  [e \in IF ok THEN asked[1] .. asked[1] + asked[2] - 1 ELSE {} |->
     [k \in 1 .. Stride |-> buf[(e - asked[1]) * Stride + k - 1]]]

(* In how many bits two elements differ, the first 8 bytes of them.        *)
Distance(x, y) == MapThenSumSet(LAMBDA k : Cardinality(Xor(x[k], y[k])), 1 .. Prefix)

MinDist ==
  CASE obj.type \in {"SEQ_DIST_1", "SEQ_NUM"} -> 1
    [] obj.type = "SEQ_DIST_2" -> 2
    [] obj.type = "SEQ_DIST_3" -> 3

(* The numbers of elements before the first 8 bytes repeat themselves.     *)
Different ==
  IF obj.type # "SEQ_NUM" /\ obj.szelem > WB THEN 0 .. 2^nbits(MinDist, WB) - 1
  ELSE 0 .. U64 - 1

(* Random.h: "A given RandSeq object represents only one sequence": two    *)
(* calls with elements in common give them the same bytes, random ones     *)
(* included, wherever in the sequence and in a block they begin.           *)
OneSequence ==
  [][\A e \in DOMAIN Elements \cap DOMAIN Elements' : Elements[e] = Elements'[e]]_vars

(***************************************************************************)
(* "each value differs from all others by at least" 1, 2 or 3 bits: any    *)
(* two elements of the sequence, from one call or from two. Numbers are    *)
(* "from 0 through szelem, inclusive". As it is, sequences of elements of  *)
(* more than 8 bytes repeat the first 8 once there are no more of those,   *)
(* although seq_maxelem() promises more.                                   *)
(***************************************************************************)
ElementsApart ==
  [][LET E == Elements' @@ Elements
         D == DOMAIN E \cap Different
     IN  /\ \A e \in D : \A f \in D : e < f => Distance(E[e], E[f]) >= MinDist
         /\ obj.type = "SEQ_NUM" =>
              \A e \in D : Number(UNION {{b + 8*(k-1) : b \in E[e][k]} : k \in 1 .. WB})
                             <= obj.szelem]_vars

(* How long Random.h says a sequence is: "as probably expected", "half the *)
(* length", or the exponents in its table (of 1 and 2 bytes); the largest  *)
(* number there is, if it is longer.                                       *)
StatedLength ==
  CASE obj.type = "SEQ_NUM" -> obj.szelem + 1
    [] obj.type # "SEQ_NUM" /\ obj.szelem > WB -> U64 - 1
    [] obj.type = "SEQ_DIST_1" /\ obj.szelem <= WB -> Min({256^obj.szelem, U64 - 1})
    [] obj.type = "SEQ_DIST_2" /\ obj.szelem <= WB -> 256^obj.szelem \div 2
    [] obj.type = "SEQ_DIST_3" /\ obj.szelem <= WB -> 2^(<<4, 11>>[obj.szelem])

(* "If write() is called with invalid values (e.g. a request for more      *)
(* elements than exist [...]), then it will return false, and no data will *)
(* be written to buf[]" - else the elements asked for, and not a byte      *)
(* beyond.                                                                 *)
WholeOrNothing ==
  /\ ok <=> asked[1] + asked[2] <= StatedLength
  /\ DOMAIN buf = IF ok THEN 0 .. asked[2] * Stride - 1 ELSE {}

=============================================================================
