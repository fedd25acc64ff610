-------------------------------- MODULE Rand --------------------------------
(***************************************************************************)
(* The Rand class of smhasher3 (util/Random.h, util/Random.cpp): a counter *)
(* mode generator that runs PARALLEL copies of a block cipher at a time    *)
(* into a cache, rngbuf[], from which numbers and bytes are given out.     *)
(* bufidx is the next cache slot; from BUFLEN upwards the cache is         *)
(* exhausted (or was invalidated by seek()) and bufidx - BUFLEN numbers    *)
(* are to be skipped after the next refill.                                *)
(*                                                                         *)
(* The object is the record rng. The methods are operators from an object  *)
(* to an object (and a result), so that one method can call another, and   *)
(* each public method is one action.                                       *)
(***************************************************************************)
EXTENDS Integers

CONSTANTS
  PARALLEL,  \* copies of the cipher run at a time
  U64, Seeds, Offsets, Requests

ASSUME ParallelAssumption == PARALLEL \in Nat /\ PARALLEL > 0
ASSUME U64Multiple == U64 \in Nat /\ U64 > 0 /\ U64 % 4 = 0
ASSUME OffsetsFit == Offsets \subseteq 0 .. U64-1
ASSUME RequestsNat == Requests \subseteq Nat

VARIABLES rng, out
vars == <<rng, out>>

RANDS_PER_ROUND == 4
SIZEOF_U64 == 8
BUFLEN == PARALLEL * RANDS_PER_ROUND
SIZEOF_RNGBUF == BUFLEN * SIZEOF_U64

(***************************************************************************)
(* The keys. xseed[1..3] come from the seed; orthogonal mode complements   *)
(* xseed[2] and xseed[3] (ortho) and puts an offset in xseed[0] (key0).    *)
(* xseed[4] is the exclusive or of the others and is not kept.             *)
(***************************************************************************)
Keys == [seed : Seeds, ortho : BOOLEAN, key0 : 0 .. U64-1]

update_xseed(seed) == [seed |-> seed, ortho |-> FALSE, key0 |-> 0]

(* One call of the cipher: slot k is lane k % 4 of block counter + k \div 4, *)
(* identified by the keys, the block and the lane.                         *)
threefry(keys, ctr) ==
  [k \in 0 .. BUFLEN-1 |->
    <<keys, (ctr + (k \div RANDS_PER_ROUND)) % U64, k % RANDS_PER_ROUND>>]

(* What the buffer holds before anything was generated.                    *)
Uninitialized == [k \in 0 .. BUFLEN-1 |-> <<update_xseed("none"), 0, 0>>]

-----------------------------------------------------------------------------
refill_buf(g) ==
  [g EXCEPT !.rngbuf = threefry(g.xseed, g.counter),
            !.counter = (@ + PARALLEL) % U64]

(* Mutant: the cache is not invalidated.                                   *)
seek_keeping_cache(g, off) ==
  [g EXCEPT !.counter = off \div RANDS_PER_ROUND,
            !.bufidx = off % RANDS_PER_ROUND]

seek(g, off) ==
  [g EXCEPT !.counter = off \div RANDS_PER_ROUND,
            !.bufidx = BUFLEN + (off % RANDS_PER_ROUND)]

(* Mutant: the numbers still in the cache count as given out.              *)
getoffset_of_counter(g) == (g.counter * RANDS_PER_ROUND) % U64

getoffset(g) == (g.counter * RANDS_PER_ROUND + g.bufidx - BUFLEN) % U64

reseed(g, s) == [seek(g, 0) EXCEPT !.xseed = update_xseed(s)]

(* xseed[2] and xseed[3] complemented, xseed[0] set.                       *)
toggle_ortho(keys, off) == [keys EXCEPT !.key0 = off, !.ortho = ~ @]

enable_ortho(g) ==
  seek([g EXCEPT !.xseed = toggle_ortho(@, getoffset(g))], 0)

disable_ortho(g, fwd) ==
  [seek(g, (g.xseed.key0 + fwd) % U64) EXCEPT !.xseed = toggle_ortho(@, 0)]

(* The object after a refill that serves the slot bufidx lies beyond.      *)
Refilled(g) == [refill_buf(g) EXCEPT !.bufidx = @ - BUFLEN]

(* The numbers given out from the cache, n at a time.                      *)
Advance(f, n) == [f EXCEPT !.bufidx = @ + n]

Take(f) == [rng |-> Advance(f, 1), val |-> f.rngbuf[f.bufidx]]

rand_u64(g) == Take(IF g.bufidx >= BUFLEN THEN Refilled(g) ELSE g)

(* Byte i of an array of numbers.                                          *)
ByteOf(words, i) == <<words[i \div SIZEOF_U64], i % SIZEOF_U64>>

(* Mutant: a number only partly copied is given out again.                 *)
WholeWordsIn(bytes) == bytes \div SIZEOF_U64

WordsFor(bytes) == (bytes + SIZEOF_U64 - 1) \div SIZEOF_U64

(***************************************************************************)
(* rand_n() for a request that the cache of f cannot satisfy: its first    *)
(* bytes come from the cache; then BulkFills buffers are generated         *)
(* straight into the caller's memory (the while loop, which goes on while  *)
(* more than a buffer is missing); the tail comes from a fresh cache.      *)
(***************************************************************************)
CachedBytes(f) == SIZEOF_U64 * (BUFLEN - f.bufidx)

BulkFills(f, bytes) == (bytes - CachedBytes(f) - 1) \div SIZEOF_RNGBUF

TailBytes(f, bytes) ==
  bytes - CachedBytes(f) - BulkFills(f, bytes) * SIZEOF_RNGBUF

BulkFill(f, b) == threefry(f.xseed, f.counter + b * PARALLEL)

(* Mutant: the buffers generated in place do not count.                    *)
TailFill_at_counter(f, bytes) == refill_buf(f)

TailFill(f, bytes) ==
  refill_buf([f EXCEPT !.counter = (@ + BulkFills(f, bytes) * PARALLEL) % U64])

(* Byte j of those the cache of f does not hold.                           *)
MissingByte(f, bytes, j) ==
  IF j < BulkFills(f, bytes) * SIZEOF_RNGBUF
  THEN ByteOf(BulkFill(f, j \div SIZEOF_RNGBUF), j % SIZEOF_RNGBUF)
  ELSE ByteOf(TailFill(f, bytes).rngbuf,
              j - BulkFills(f, bytes) * SIZEOF_RNGBUF)

rand_n_beyond(f, bytes) ==
  [rng |-> [TailFill(f, bytes) EXCEPT !.bufidx = WordsFor(TailBytes(f, bytes))],
   val |-> [i \in 0 .. bytes-1 |->
             IF i < CachedBytes(f)
             THEN ByteOf(f.rngbuf, SIZEOF_U64 * f.bufidx + i)
             ELSE MissingByte(f, bytes, i - CachedBytes(f))]]

rand_n_within(f, bytes) ==
  [rng |-> Advance(f, WordsFor(bytes)),
   val |-> [i \in 0 .. bytes-1 |-> ByteOf(f.rngbuf, SIZEOF_U64 * f.bufidx + i)]]

rand_n_filled(f, bytes) ==
  IF bytes > CachedBytes(f)
  THEN rand_n_beyond(f, bytes)
  ELSE rand_n_within(f, bytes)

rand_n(g, bytes) ==
  IF bytes = 0 THEN [rng |-> g, val |-> [i \in 0 .. -1 |-> 0]]
  ELSE rand_n_filled(IF g.bufidx > BUFLEN THEN Refilled(g) ELSE g, bytes)

(***************************************************************************)
(* The four numbers of fkeys[] and the three of rkeys[1..3] (whose forced  *)
(* low bits are left out) are drawn from the orthogonal list.              *)
(***************************************************************************)
get_seq(g) ==
  LET d0 == rand_u64(enable_ortho(g))
      d1 == rand_u64(d0.rng)
      d2 == rand_u64(d1.rng)
      d3 == rand_u64(d2.rng)
      d4 == rand_u64(d3.rng)
      d5 == rand_u64(d4.rng)
      d6 == rand_u64(d5.rng)
      draws == <<d0.val, d1.val, d2.val, d3.val, d4.val, d5.val, d6.val>>
  IN  [rng |-> disable_ortho(d6.rng, 1), val |-> [n \in 0 .. 6 |-> draws[n+1]]]

-----------------------------------------------------------------------------
Init ==
  /\ \E s \in Seeds :
       rng = [xseed |-> update_xseed(s), rngbuf |-> Uninitialized,
              counter |-> 0, bufidx |-> BUFLEN]
  /\ out = <<"Rand">>

Reseed(s) == rng' = reseed(rng, s) /\ out' = <<"reseed">>

Seek(off) == rng' = seek(rng, off) /\ out' = <<"seek">>

GetOffset == out' = <<"getoffset", getoffset(rng)>> /\ UNCHANGED rng

RandU64 ==
  LET d == rand_u64(rng)
  IN  rng' = d.rng /\ out' = <<"rand_u64", d.val>>

(* Its result is a function of the number drawn: module RandRange.         *)
RandRange ==
  LET d == rand_u64(rng)
  IN  rng' = d.rng /\ out' = <<"rand_range", d.val>>

RandN(n) ==
  LET d == rand_n(rng, n)
  IN  rng' = d.rng /\ out' = <<"rand_n", d.val>>

GetSeq ==
  LET d == get_seq(rng)
  IN  rng' = d.rng /\ out' = <<"get_seq", d.val>>

Next ==
  \/ \E s \in Seeds : Reseed(s)
  \/ \E off \in Offsets : Seek(off)
  \/ GetOffset
  \/ RandU64
  \/ RandRange
  \/ \E n \in Requests : RandN(n)
  \/ GetSeq

Spec == Init /\ [][Next]_vars

-----------------------------------------------------------------------------
NumberIds ==
  [seed : Seeds \cup {"none"}, ortho : BOOLEAN, key0 : 0 .. U64-1]
    \X (0 .. U64-1) \X (0 .. RANDS_PER_ROUND-1)

Objects == [xseed : Keys, rngbuf : [0 .. BUFLEN-1 -> NumberIds],
            counter : 0 .. U64-1, bufidx : 0 .. BUFLEN + RANDS_PER_ROUND - 1]

TypeOK == rng \in Objects

(* Which number of the list is next: the cache holds the PARALLEL blocks   *)
(* before counter, so the slots not yet given out count backwards from it. *)
Position(g) ==
  (g.counter * RANDS_PER_ROUND + g.bufidx - BUFLEN) % (4 * U64)

Stream == INSTANCE RandStream WITH seed <- rng.xseed.seed, pos <- Position(rng)

(***************************************************************************)
(* Every implementation behaviour is a behaviour of the promise: whatever  *)
(* mix of seeks, draws and get_seq() calls went before, each call returns  *)
(* the next numbers of the seed's list, and PARALLEL, which RandStream     *)
(* does not mention, changes no value (Random.h: "This value ONLY affects  *)
(* performance").                                                          *)
(***************************************************************************)
ImplementsStream == Stream!Spec

(* The slots still to be given out hold the numbers that follow.           *)
Coherent(g) ==
  \A k \in g.bufidx .. BUFLEN-1 :
    g.rngbuf[k] = Stream!Number(g.xseed, Position(g) + (k - g.bufidx))

(***************************************************************************)
(* Between calls the keys are those of normal mode, and the slots still to *)
(* be given out hold the numbers that follow in the list of these keys: no *)
(* number of an earlier seed, of an earlier offset, of the orthogonal      *)
(* list, or never written, is left in them.                                *)
(***************************************************************************)
CacheCoherent ==
  /\ rng.xseed = update_xseed(rng.xseed.seed)
  /\ Coherent(rng)

(***************************************************************************)
(* Random.h: "the value of getoffset() can be saved ... and then restored  *)
(* via seek() in order to generate the same sequence", in every state      *)
(* whose position seek() can express.                                      *)
(***************************************************************************)
SeekReplays ==
  Position(rng) < U64 =>
    \A n \in Requests :
      rand_n(seek(rng, getoffset(rng)), n).val = rand_n(rng, n).val

(***************************************************************************)
(* Random.h: "Two consecutive calls to rand_n() are equivalent to one      *)
(* larger call if the first call has a length evenly divisible by 8".      *)
(***************************************************************************)
RandNConcatenates ==
  \A n, m \in Requests :
    n % SIZEOF_U64 = 0 =>
      LET first  == rand_n(rng, n)
          second == rand_n(first.rng, m)
          whole  == rand_n(rng, n + m)
      IN  /\ Position(whole.rng) = Position(second.rng)
          /\ whole.val = [i \in 0 .. n+m-1 |->
               IF i < n THEN first.val[i] ELSE second.val[i - n]]

=============================================================================
