------------------------------- MODULE MCRand -------------------------------
(* Rand with a 4-bit "uint64_t": 16 seekable offsets, 64 numbers in all.   *)
EXTENDS Rand

(* The first number, one that needs a skip into its block, the last one.   *)
MCOffsets == {0, 6, U64-1}

(* Nothing; a part of a number; the cache of 8 numbers (64 bytes) exactly; *)
(* one byte more; two caches and one byte.                                 *)
MCRequests == {0, 3, 64, 65, 129}

=============================================================================
