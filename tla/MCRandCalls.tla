----------------------------- MODULE MCRandCalls ------------------------------
(* What callers get but plain random numbers: write() of a RandSeq, and    *)
(* rand_range(), which has nothing to do with it: either is called.        *)
EXTENDS RandSeq

CONSTANT W
VARIABLES max, result
Draw == INSTANCE RandRange

(* Of numbers below 256.                                                   *)
MCfeistelF(w, k, round) == LET x == ((Number(w) + k[round]) * 181 + round) % 1009 IN Bits((x * x) \div 8)

MCObject(type, sz, key) ==
  [type |-> type, szelem |-> sz, rkeys1 |-> key,
   fkeys |-> [i \in 0 .. 2*FEISTEL_MAXROUNDS-1 |-> (key * (2*i + 7)) % 251]]

(* A word has two bytes here: elements of one, two and more are all there. *)
MCObjects ==
  {MCObject(type, sz, key) : type \in {"SEQ_DIST_1", "SEQ_DIST_2", "SEQ_DIST_3"},
                             sz \in {1, 2, 3, 5}, key \in {40503, 11}}
    \cup {MCObject("SEQ_NUM", sz, key) : sz \in {1, 4, 9, 10, 12, 20}, key \in {40503, 11}}

(* From the beginning, the end, the middle and past the end; all, if there *)
(* are few.                                                                *)
MCCalls(o) ==
  LET all == seq_maxelem(o.type, o.szelem)
      los == {0, 1, 2, 5, 8, all \div 2, all - 1, all, U64 - 2}
  IN  (los \X {1, 3, 8}) \cup (IF all <= 128 THEN {<<0, all>>, <<0, all + 1>>} ELSE {})

MCUnused == obj = MCObject("SEQ_NUM", 1, 11) /\ asked = <<0, 0>>

MCInit == Init /\ Draw!Init
MCNext ==
  \/ max = 0 /\ Next /\ UNCHANGED <<max, result>>
  \/ MCUnused /\ Draw!Next /\ UNCHANGED vars
MCSpec == MCInit /\ [][MCNext]_<<vars, max, result>>

(* Of rand_range(), the properties of RandRange: it stays below max.       *)
ShortRangeKept == Draw!ShortRangeKept

=============================================================================
