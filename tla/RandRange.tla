----------------------------- MODULE RandRange ------------------------------
(***************************************************************************)
(* Rand::rand_range() (util/Random.h): a number in [0, max) from one       *)
(* random number, without division: as many top bits of the number as max  *)
(* has leading zeros are kept and scaled by max. A call is one step; the   *)
(* caller's max and the number drawn are arbitrary.                        *)
(***************************************************************************)
EXTENDS Integers

CONSTANT W  \* the bits of a uint32_t, 2 or more; a uint64_t has twice as many

VARIABLES
  max,    \* the argument of the last call
  result  \* what it returned

Uint32 == 0 .. 2^W - 1
Uint64 == 0 .. 2^(2*W) - 1

(* The leading zeros of a number that is not 0, which has W - n bits.      *)
clz4(x) == CHOOSE n \in 0 .. W-1 : 2^(W-n-1) <= x /\ x < 2^(W-n)

BitOrOne(x) == x + 1 - (x % 2)

(***************************************************************************)
(* number >> (64 - lzbits). A shift by all 64 bits, when lzbits is 0, is   *)
(* undefined: a shift instruction that takes the count modulo 64 leaves    *)
(* the number as it is, a compiler that folds the shift makes it 0.        *)
(***************************************************************************)
TopBits(number, lzbits) ==
  IF lzbits = 0 THEN {number, 0} ELSE {number \div 2^(2*W - lzbits)}

(* Mutant: the multiple is rounded up.                                     *)
scaled_up(m, number) ==
  LET lzbits == clz4(BitOrOne(m))
  IN  {((((r * m) % 2^(2*W)) + 2^lzbits - 1) \div 2^lzbits) % 2^W :
         r \in TopBits(number, lzbits)}

rand_range(m, number) ==
  LET lzbits == clz4(BitOrOne(m))
  IN  {(((r * m) % 2^(2*W)) \div 2^lzbits) % 2^W : r \in TopBits(number, lzbits)}

Init == max = 0 /\ result = 0

Next == \E m \in Uint32, number \in Uint64 :
          max' = m /\ result' \in rand_range(m, number)

Spec == Init /\ [][Next]_<<max, result>>

-----------------------------------------------------------------------------
InRange == IF max = 0 THEN result = 0 ELSE result < max

(* Random.h: "rand_range(max) returns a random value in the range          *)
(* [0, max)", and 0 for 0 (RandTest), for each max whose top bit is clear. *)
ShortRangeKept == max < 2^(W-1) => InRange

(* Every value of a range can occur, for each max whose top bit is clear:  *)
(* Random.h says the result "is not completely bias-free" but "the current  *)
(* bias is negligible". As many bits are kept as max has leading zeros,    *)
(* not as it has bits.                                                     *)
EveryValueOccurs ==
  max < 2^(W-1) =>
    \A v \in 0 .. max-1 : \E number \in Uint64 : v \in rand_range(max, number)

=============================================================================
