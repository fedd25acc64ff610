---------------------------- MODULE DeltaOutliers ----------------------------
(***************************************************************************)
(* TestHashListImpl() (util/Analyze.cpp) on differences of hashes whose    *)
(* distribution fails, with diagrams: it makes the lists of differences    *)
(* (Deltas), sorts one of them, keeping track of where each was, and shows *)
(* its outliers (Outliers) with the keys of the hashes they were made of.  *)
(*                                                                         *)
(* Nothing is assumed of the hashes, so the differences may fall into any  *)
(* bins, and their order be any, when sorted. What is done to a list does  *)
(* not depend on the lists before: a behaviour tests one of them.          *)
(***************************************************************************)
EXTENDS Integers, Sequences

CONSTANTS
  Sizes, DeltaNums,
  nbC, nOutliers, maxEntries, maxPerEntry,
  maxlen,    \* how long a list is tested, at most
  Orders(_)  \* the orders a list of n may be sorted into

ASSUME SizesAssumption == Sizes \cup DeltaNums \subseteq Nat \ {0}

ASSUME LimitsAssumption ==
  {nbC, nOutliers, maxEntries, maxPerEntry} \subseteq Nat \ {0} /\ maxlen \in Nat

ASSUME OrdersAssumption == \A n \in 0 .. maxlen : Orders(n) \subseteq [1 .. n -> 0 .. n-1]

VARIABLES
  nbH, testDeltaNum, pc, hnb, hprv, hashdeltas_x, hashdeltas_y,
  axis,      \* the list that is tested: "none", "x", "y"
  hashidxs,  \* where each of the sorted differences was
  hashes, showing, i, zerocount, maxcounts, entries, zeros

deltas == <<nbH, testDeltaNum, pc, hnb, hprv, hashdeltas_x, hashdeltas_y>>
outliers == <<hashes, showing, i, zerocount, maxcounts, entries, zeros>>
vars == <<deltas, outliers, axis, hashidxs>>

D == INSTANCE Deltas
O == INSTANCE Outliers WITH pc <- showing

Init == D!Init /\ O!Init /\ axis = "none" /\ hashidxs = <<>>

MakeDeltas == D!Next /\ UNCHANGED <<axis, hashidxs, outliers>>

Deltas(x) == IF x = "x" THEN hashdeltas_x ELSE hashdeltas_y

(* The list by columns is tested on grids only.                            *)
TestHashListSingle(x) ==
  LET n == Len(Deltas(x)) IN
  /\ pc = "done" /\ showing = "idle"
  /\ x = "y" => testDeltaNum > 2
  /\ n <= maxlen
  /\ axis' = x
  /\ hashidxs' \in Orders(n)
  /\ \E list \in [1 .. n -> O!Bins] : O!ShowOutliers(list)
  /\ UNCHANGED deltas

Show == O!Loops /\ UNCHANGED <<deltas, axis, hashidxs>>

Next == MakeDeltas \/ (\E x \in {"x", "y"} : TestHashListSingle(x)) \/ Show

Spec == Init /\ [][Next]_vars

-----------------------------------------------------------------------------
(* Mutant: the place in the sorted list is taken for the index.            *)
DeltaShown_sorted(n) == n - 1

(* The index of the difference shown for the hash at a place.              *)
DeltaShown(n) == hashidxs[n]

(* On a grid, and for pairs, the report can name the two hashes that every *)
(* difference was computed from, along either axis.                        *)
GridNamesHashes == D!GridNamesHashes

(* The bound over which bins are shown is that of the largest counts.      *)
BoundRight == O!BoundRight

(* Of the bins at the bound, and of the empty ones, the hashes and bins    *)
(* that the headlines announce are shown; none is left out for no reason.  *)
ShownRight == O!ShownRight

(* The report stays within its limits, as the comment in it says.          *)
LimitsKept == O!LimitsKept

(***************************************************************************)
(* Each line of the report names the keys of the two hashes whose          *)
(* difference, before the list was sorted, is the one that is shown.       *)
(***************************************************************************)
KeysNamed ==
  showing = "done" /\ testDeltaNum # 1 =>
    \A bin \in O!Bins : \A m \in 1 .. Len(entries[bin]) :
      LET n == entries[bin][m]
          pair == D!DifferentialIdxs(DeltaShown(n), Len(hashes), axis = "x")
      IN  Deltas(axis)[hashidxs[n] + 1] = {pair[1], pair[2]}

=============================================================================
