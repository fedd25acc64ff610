----------------------------- MODULE RandStream -----------------------------
(***************************************************************************)
(* What smhasher3's Rand promises its callers (header comment of           *)
(* util/Random.h): a seed selects one endless list of 64-bit numbers, an   *)
(* offset says which of them is given out next, and every method that      *)
(* returns random data takes the next numbers of that list, in order.      *)
(* Nothing here knows of a cache or of the PARALLEL setting.               *)
(*                                                                         *)
(* A number is identified by the keys that generated it, the value of the  *)
(* block cipher's counter, and its lane in that block; two numbers are     *)
(* equal only if all three are.                                            *)
(***************************************************************************)
EXTENDS Integers

CONSTANTS
  U64,       \* how many values a uint64_t has
  Seeds,     \* the seeds a caller gives to reseed()
  Offsets,   \* the offsets a caller gives to seek()
  Requests   \* the lengths, in bytes, a caller gives to rand_n()

VARIABLES
  seed,   \* the seed in force
  pos,    \* which number of the seed's list is next
  out     \* the last call and what it returned

svars == <<seed, pos, out>>

(***************************************************************************)
(* The cipher's counter is a uint64_t and every block holds 4 numbers, so  *)
(* the list repeats after 4 * 2^64 numbers, of which seek() reaches the    *)
(* first 2^64.                                                             *)
(***************************************************************************)
Period == 4 * U64

Keys == [seed : Seeds, ortho : BOOLEAN, key0 : 0 .. U64-1]
NormalKeys(s) == [seed |-> s, ortho |-> FALSE, key0 |-> 0]
OrthoKeys(s, off) == [seed |-> s, ortho |-> TRUE, key0 |-> off]

Number(keys, p) == <<keys, (p \div 4) % U64, p % 4>>

(* The number list as bytes, 8 to a number, least significant first.       *)
StreamBytes(keys, p, n) ==
  [i \in 0 .. n-1 |-> <<Number(keys, p + i \div 8), i % 8>>]

(* How many numbers n bytes use up.                                        *)
NumbersFor(n) == (n + 7) \div 8

-----------------------------------------------------------------------------
Init ==
  /\ seed \in Seeds
  /\ pos = 0
  /\ out = <<"Rand">>

Reseed(s) ==
  /\ seed' = s
  /\ pos' = 0
  /\ out' = <<"reseed">>

Seek(off) ==
  /\ pos' = off
  /\ out' = <<"seek">>
  /\ UNCHANGED seed

GetOffset ==
  /\ out' = <<"getoffset", pos % U64>>
  /\ UNCHANGED <<seed, pos>>

RandU64 ==
  /\ out' = <<"rand_u64", Number(NormalKeys(seed), pos)>>
  /\ pos' = (pos + 1) % Period
  /\ UNCHANGED seed

RandRange ==
  /\ out' = <<"rand_range", Number(NormalKeys(seed), pos)>>
  /\ pos' = (pos + 1) % Period
  /\ UNCHANGED seed

RandN(n) ==
  /\ out' = <<"rand_n", StreamBytes(NormalKeys(seed), pos, n)>>
  /\ pos' = (pos + NumbersFor(n)) % Period
  /\ UNCHANGED seed

(***************************************************************************)
(* A random sequence is described by 7 numbers of a separate list that     *)
(* belongs to the current offset alone; the caller's list moves by one.    *)
(* The move is a seek(), so from the last seekable number it leads back to *)
(* number 0.                                                               *)
(***************************************************************************)
GetSeq ==
  /\ out' = <<"get_seq",
              [n \in 0 .. 6 |-> Number(OrthoKeys(seed, pos % U64), n)]>>
  /\ pos' = ((pos % U64) + 1) % U64
  /\ UNCHANGED seed

Next ==
  \/ \E s \in Seeds : Reseed(s)
  \/ \E off \in Offsets : Seek(off)
  \/ GetOffset
  \/ RandU64
  \/ RandRange
  \/ \E n \in Requests : RandN(n)
  \/ GetSeq

Spec == Init /\ [][Next]_svars

=============================================================================
