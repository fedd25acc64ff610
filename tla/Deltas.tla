-------------------------------- MODULE Deltas --------------------------------
(***************************************************************************)
(* Differential hashes. TestHashListImpl() (util/Analyze.cpp) computes the *)
(* difference of each hash and a neighbour of it, along a line or along    *)
(* both axes of a grid; when the differences of two pairs collide, the     *)
(* report finds out again which two hashes each was computed from          *)
(* (DifferentialIdxs(), util/Reporting.cpp). A difference is represented   *)
(* by the set of the indices of the two hashes.                            *)
(***************************************************************************)
EXTENDS Integers, Sequences

CONSTANTS
  Sizes,     \* how many hashes there may be
  DeltaNums  \* the testDeltaNum of the callers

VARIABLES
  nbH, testDeltaNum,  \* the arguments
  pc,                 \* the loop that is running: x, y, done
  hnb,                \* its index
  hprv,               \* the index of the hash before
  hashdeltas_x, hashdeltas_y

args == <<nbH, testDeltaNum>>
vars == <<args, pc, hnb, hprv, hashdeltas_x, hashdeltas_y>>

Init ==
  /\ nbH \in Sizes
  /\ testDeltaNum \in DeltaNums
  /\ nbH % testDeltaNum = 0
  /\ pc = "x"
  /\ hnb = 0 /\ hprv = 0
  /\ hashdeltas_x = <<>> /\ hashdeltas_y = <<>>

(* The loop ends with this iteration, or goes on with the index next.      *)
Iterate(next, end, nextpc) ==
  IF next < end THEN hnb' = next /\ UNCHANGED pc ELSE hnb' = 0 /\ pc' = nextpc

(* testDeltaNum = 2: the two hashes of each pair.                          *)
Pair ==
  /\ pc = "x" /\ testDeltaNum = 2
  /\ hashdeltas_x' = Append(hashdeltas_x, {hnb, hnb + 1})
  /\ Iterate(hnb + 2, nbH, "done")
  /\ UNCHANGED <<args, hprv, hashdeltas_y>>

(* A row of the grid; the whole list if testDeltaNum is 1.                 *)
RowLength == IF testDeltaNum = 1 THEN nbH ELSE testDeltaNum

(* Mutant: a row does not wrap around to its own first hash.               *)
Along_x_to_start ==
  LET first == hnb % RowLength = 0
      last == hnb % RowLength = RowLength - 1
      h == hnb
      pairs == (IF first THEN <<>> ELSE <<{h, hprv}>>)
               \o (IF last THEN <<{0, h}>> ELSE <<>>)
  IN  /\ pc = "x" /\ testDeltaNum # 2
      /\ hashdeltas_x' = hashdeltas_x \o pairs
      /\ hprv' = h
      /\ Iterate(hnb + 1, nbH, IF testDeltaNum = 1 THEN "done" ELSE "y")
      /\ UNCHANGED <<args, hashdeltas_y>>

(* The next hash of a row: its difference to the one before, if it has     *)
(* one, and, for the last, that of the first of the row to it.             *)
AlongX ==
  LET first == hnb % RowLength = 0
      last == hnb % RowLength = RowLength - 1
      h == hnb
      pairs == (IF first THEN <<>> ELSE <<{h, hprv}>>)
               \o (IF last THEN <<{h - (RowLength - 1), h}>> ELSE <<>>)
  IN  /\ pc = "x" /\ testDeltaNum # 2
      /\ hashdeltas_x' = hashdeltas_x \o pairs
      /\ hprv' = h
      /\ Iterate(hnb + 1, nbH, IF testDeltaNum = 1 THEN "done" ELSE "y")
      /\ UNCHANGED <<args, hashdeltas_y>>

(* Two loops: first all hashes but those of the first row, each with the   *)
(* one above it, then those of the first row with the one of the last row. *)
AlongY ==
  LET h == (hnb + testDeltaNum) % nbH IN
  /\ pc = "y"
  /\ hashdeltas_y' = Append(hashdeltas_y, {(h - testDeltaNum) % nbH, h})
  /\ Iterate(hnb + 1, nbH, "done")
  /\ UNCHANGED <<args, hprv, hashdeltas_x>>

Next == Pair \/ AlongX \/ AlongY

Spec == Init /\ [][Next]_vars

-----------------------------------------------------------------------------
(* Mutant: the row below is not looked for in the first row.               *)
DifferentialIdxs_unwrapped(idx, n, testDeltaXaxis) ==
  LET x == idx % testDeltaNum
      y == idx \div testDeltaNum
  IN  CASE testDeltaNum = 1 -> <<idx, idx + 1>>
        [] testDeltaNum = 2 -> <<2 * idx, 2 * idx + 1>>
        [] OTHER ->
             <<idx, IF testDeltaXaxis
                    THEN ((x + 1) % testDeltaNum) + (y * testDeltaNum)
                    ELSE x + ((y + 1) * testDeltaNum)>>

(* The two hashes of the difference at an index of a list of n.            *)
DifferentialIdxs(idx, n, testDeltaXaxis) ==
  LET x == idx % testDeltaNum
      y == idx \div testDeltaNum
  IN  CASE testDeltaNum = 1 -> <<idx, idx + 1>>
        [] testDeltaNum = 2 -> <<2 * idx, 2 * idx + 1>>
        [] OTHER ->
             <<idx, IF testDeltaXaxis
                    THEN ((x + 1) % testDeltaNum) + (y * testDeltaNum)
                    ELSE x + (((y + 1) % (n \div testDeltaNum)) * testDeltaNum)>>

(* The difference at an index is that of the two hashes the report prints.  *)
Named(deltas, idx, testDeltaXaxis) ==
  LET pair == DifferentialIdxs(idx, Len(deltas), testDeltaXaxis)
  IN  deltas[idx + 1] = {pair[1], pair[2]}

(* Every difference of both lists is named by the hashes it is made of.    *)
NamesHashes ==
  /\ \A idx \in 0 .. Len(hashdeltas_x) - 1 : Named(hashdeltas_x, idx, TRUE)
  /\ \A idx \in 0 .. Len(hashdeltas_y) - 1 : Named(hashdeltas_y, idx, FALSE)

(***************************************************************************)
(* On a grid, and for pairs, the report names the two hashes that every    *)
(* difference was computed from, along either axis.                        *)
(***************************************************************************)
GridNamesHashes == pc = "done" /\ testDeltaNum # 1 => NamesHashes

(***************************************************************************)
(* "Turn a hash index plus a testDelta configuration into the hash indexes *)
(* of the two hashes used to compute a differential hash.": the same with  *)
(* each hash's difference to its successor, of which the last one has the  *)
(* first.                                                                  *)
(***************************************************************************)
LineNamesHashes == pc = "done" /\ testDeltaNum = 1 => NamesHashes

=============================================================================
