---------------------------- MODULE BadSeedsKeys -----------------------------
(***************************************************************************)
(* The test keys of the BadSeeds test (tests/BadSeedsTest.cpp): each of    *)
(* numtestbytes bytes, repeated to each of numtestlens lengths. Their      *)
(* hashes are stored one after another; when some collide, the report      *)
(* finds out from the place of a hash which key it is of.                  *)
(***************************************************************************)
EXTENDS Integers

CONSTANTS numtestbytes, numtestlens

VARIABLES
  i,    \* the index in testbytes of the key that is hashed next
  len,  \* the index in testlens of its length
  cnt   \* where its hash goes

Init == i = 0 /\ len = 0 /\ cnt = 0

(* Two nested loops, the lengths inside.                                   *)
Hash ==
  /\ i < numtestbytes
  /\ cnt' = cnt + 1
  /\ IF len + 1 < numtestlens
     THEN len' = len + 1 /\ UNCHANGED i
     ELSE len' = 0 /\ i' = i + 1

Spec == Init /\ [][Hash]_<<i, len, cnt>>

(* What the report takes the key of hash number idx to be.                 *)
byteidx(idx) == idx \div numtestbytes
lenidx(idx) == idx % numtestbytes

(* "0x%...\t%2d copies of 0x%02x": the key that is named was hashed there. *)
ReportNamesKey == i < numtestbytes => byteidx(cnt) = i /\ lenidx(cnt) = len

=============================================================================
