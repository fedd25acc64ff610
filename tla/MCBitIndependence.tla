------------------------- MODULE MCBitIndependence --------------------------
(* Six inputs of three bits, hashed to eight bits in two words of four.    *)
(* Ten is scaled to one: most hash bits change for three of the inputs, so *)
(* that their tables are not failures. Under the first input bit no two    *)
(* bits depend on each other wholly; under the second a pair of the middle *)
(* does; under the third the last pair, which changes alternately.         *)
EXTENDS BitIndependence

Half == <<{0, 1, 2}, {0, 1, 3}, {0, 1, 4}, {0, 1, 5}, {0, 2, 3}, {0, 2, 4}, {0, 2, 5}, {0, 3, 4}>>

ChangedFor(k, b) ==
  CASE k = 0 /\ b = 7 -> {1, 5}
    [] k = 1 /\ b = 5 -> Half[3]
    [] k = 2 /\ b = 7 -> (0 .. 5) \ Half[7]
    [] OTHER -> Half[b + 1]

MCChanged == [r \in 0 .. 5 |-> [k \in 0 .. 2 |-> {b \in 0 .. 7 : r \in ChangedFor(k, b)}]]

=============================================================================
