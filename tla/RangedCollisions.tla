-------------------------- MODULE RangedCollisions ---------------------------
(***************************************************************************)
(* CountRangedNbCollisionsImpl() (util/Analyze.cpp): one pass over a       *)
(* sorted list of hashes counts, for every width from minHBits to          *)
(* maxHBits, the collisions of the hashes' first bits; for the widths up   *)
(* to threshHBits it finds the largest number of collisions on one value   *)
(* instead. A threshHBits of 0 is the variant without such widths.         *)
(* CollisionList makes the calls.                                          *)
(*                                                                         *)
(* The counters are indexed by the width they belong to (in the code, by   *)
(* the width less minHBits). A hash is a function from the places of its   *)
(* bits, counted from the top, to the bits.                                *)
(***************************************************************************)
EXTENDS Integers, Sequences, FiniteSetsExt

CONSTANT bitlen  \* the bits of a hash

VARIABLES
  hashes, minHBits, maxHBits, threshHBits,  \* the arguments
  hnb,         \* the place of the next hash to compare with the one before
  collcounts,  \* per width: hashes with exactly that many bits in common
  prevcoll,    \* per width: the collisions before the value now counted
  maxcoll,     \* per width: the most collisions on one value before it
  done         \* whether the counts are final

args == <<hashes, minHBits, maxHBits, threshHBits>>
vars == <<args, hnb, collcounts, prevcoll, maxcoll, done>>

nbH == Len(hashes)
Widths == minHBits .. maxHBits
calcmax == threshHBits # 0
MaxWidths == IF calcmax THEN minHBits .. threshHBits ELSE {}

(* highzerobits() of h ^ g: how many bits they have in common from the top.*)
highzerobits(h, g) == Max({n \in 0 .. bitlen : \A b \in 1 .. n : h[b] = g[b]})

-----------------------------------------------------------------------------
(* No list has been counted.                                               *)
Init ==
  /\ hashes = <<>>
  /\ minHBits = 1 /\ maxHBits = 1 /\ threshHBits = 0
  /\ hnb = 2
  /\ collcounts = [w \in {1} |-> 0]
  /\ prevcoll = [w \in {} |-> 0] /\ maxcoll = prevcoll
  /\ done = TRUE

(* A call; the list is sorted.                                             *)
CountRangedNbCollisions(list, minBits, maxBits, threshBits) ==
  /\ done
  /\ hashes' = list
  /\ minHBits' = minBits /\ maxHBits' = maxBits /\ threshHBits' = threshBits
  /\ hnb' = 2
  /\ collcounts' = [w \in minBits .. maxBits |-> 0]
  /\ prevcoll' = [w \in IF threshBits # 0 THEN minBits .. threshBits ELSE {} |-> 0]
  /\ maxcoll' = prevcoll'
  /\ done' = FALSE

(* The collisions of w bits: the counts of exactly that many bits and of   *)
(* more, added up from the widest on.                                      *)
Coll(counts, w) ==
  LET sum[n \in 0 .. maxHBits - minHBits + 1] ==
        IF n = 0 THEN 0 ELSE sum[n - 1] + counts[maxHBits - n + 1]
  IN  sum[maxHBits - w + 1]

(* The widths at which the hash has another value than the one before.     *)
Ended(hzb) == {w \in MaxWidths : w > hzb}

(* Mutant: the end of the last value is not remembered.                    *)
Compare_forgetting ==
  LET hzb == highzerobits(hashes[hnb - 1], hashes[hnb])
      counts == [w \in Widths |->
                   collcounts[w] + IF w = Min({hzb, maxHBits}) THEN 1 ELSE 0]
  IN  /\ hnb <= nbH
      /\ collcounts' = counts
      /\ maxcoll' = [w \in MaxWidths |->
                       IF w \in Ended(hzb)
                       THEN Max({maxcoll[w], Coll(counts, w) - prevcoll[w]}) ELSE maxcoll[w]]
      /\ hnb' = hnb + 1
      /\ UNCHANGED <<args, prevcoll, done>>

Compare ==
  LET hzb == highzerobits(hashes[hnb - 1], hashes[hnb])
      counts == [w \in Widths |->
                   collcounts[w] + IF w = Min({hzb, maxHBits}) THEN 1 ELSE 0]
  IN  /\ hnb <= nbH
      /\ collcounts' = counts
      /\ maxcoll' = [w \in MaxWidths |->
                       IF w \in Ended(hzb)
                       THEN Max({maxcoll[w], Coll(counts, w) - prevcoll[w]}) ELSE maxcoll[w]]
      /\ prevcoll' = [w \in MaxWidths |->
                        IF w \in Ended(hzb) THEN Coll(counts, w) ELSE prevcoll[w]]
      /\ hnb' = hnb + 1
      /\ UNCHANGED <<args, done>>

(* Mutant: the value counted last is left out of the peaks.                *)
Finish_early ==
  /\ hnb > nbH /\ ~done
  /\ collcounts' = [w \in Widths |->
                      IF w \in MaxWidths THEN maxcoll[w] ELSE Coll(collcounts, w)]
  /\ done' = TRUE
  /\ UNCHANGED <<args, hnb, prevcoll, maxcoll>>

(* The counts are added up from the widest on, the last value included.    *)
Finish ==
  /\ hnb > nbH /\ ~done
  /\ collcounts' = [w \in Widths |->
                      IF w \in MaxWidths
                      THEN Max({maxcoll[w], Coll(collcounts, w) - prevcoll[w]})
                      ELSE Coll(collcounts, w)]
  /\ done' = TRUE
  /\ UNCHANGED <<args, hnb, prevcoll, maxcoll>>

Pass == Compare \/ Finish

=============================================================================
