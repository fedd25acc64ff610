------------------------------- MODULE MCBlobsort -------------------------------
(* Hashes of three digits of three values: 000, 001, 100, 102, 111, 220.   *)
EXTENDS Blobsort

MCLists ==
  UNION {[1 .. n -> {0, 1, 9, 11, 13, 24}] : n \in 0 .. 4}
    \cup [1 .. 5 -> {0, 9, 11, 13, 24}] \cup [1 .. 6 -> {1, 9, 11}]

(* No indices, those of a list that was longer, and another order.         *)
MCIdxvecs(n) == {<<>>, [k \in 1 .. n + 1 |-> k], [k \in 1 .. n |-> n + 1 - k]}

MCTypes == {[long |-> FALSE, len |-> 1], [long |-> TRUE, len |-> 0], [long |-> TRUE, len |-> 1]}

=============================================================================
