--------------------------- MODULE MCDeltaOutliers ---------------------------
(* Two of the orders of n differences: theirs, and from the second on.     *)
EXTENDS DeltaOutliers

MCOrders(n) == {[k \in 1 .. n |-> (k - 1 + r) % n] : r \in {0, 1}}

=============================================================================
