----------------------------- MODULE MCAvalanche ----------------------------
(* Four keys of two bits, hashed to two bits by a function under which the *)
(* flips of different keys change different bits, none and both included.  *)
EXTENDS Avalanche

MCHash ==
  [r \in 0 .. 3 |-> [F \in SUBSET (0 .. 1) |->
    CASE r = 0 -> F
      [] r = 1 -> IF F = {} THEN {} ELSE {0, 1}
      [] r = 2 -> {1}
      [] r = 3 -> IF 0 \in F THEN {1} ELSE {0}]]

=============================================================================
