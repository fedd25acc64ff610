--------------------------- MODULE MCDistribution ---------------------------
(* Five hashes of six bits. Counted in bins of two bits, they overflow a   *)
(* bin at once (from bits 0 and 5), at the first fold (bit 1), at the      *)
(* second fold (bit 2), or not at all (bits 3 and 4).                      *)
EXTENDS Distribution, TLC

MCHashes == (0 :> 6) @@ (1 :> 14) @@ (2 :> 22) @@ (3 :> 27) @@ (4 :> 30)

=============================================================================
