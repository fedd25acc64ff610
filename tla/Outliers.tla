------------------------------- MODULE Outliers -------------------------------
(***************************************************************************)
(* ShowOutliers() (util/Reporting.cpp): after a distribution test failed,  *)
(* the values of the worst slice that most hashes have are shown with the  *)
(* keys of those hashes, and the values that no hash has. A hash stands    *)
(* for its value in that slice, the index of a bin.                        *)
(***************************************************************************)
EXTENDS Integers, SequencesExt

CONSTANTS
  nbC,          \* how many bins there are
  nOutliers,    \* how many counts are looked for
  maxEntries, maxPerEntry  \* the limits on what is shown

VARIABLES
  hashes,     \* the argument
  pc,         \* the loop that is running: bins, hashes, zeros; idle, done
  i,          \* its index
  zerocount,  \* bins without a hash; then, those still to be shown
  maxcounts,  \* the heap, as a bag
  entries,    \* per bin, the places of the hashes to show
  zeros       \* the empty bins shown

(* The heap as a bag: what pop_heap() and push_heap() do to it.            *)
Heap == INSTANCE BagsExt

vars == <<hashes, pc, i, zerocount, maxcounts, entries, zeros>>

Bins == 0 .. nbC - 1
nbH == Len(hashes)
counts(bin) == Cardinality({n \in 1 .. nbH : hashes[n] = bin})

(* The top of the heap is its smallest element.                            *)
maxbound == Min(BagToSet(maxcounts))

(* The function is called at most once for a list.                         *)
Init ==
  /\ hashes = <<>>
  /\ pc = "idle" /\ i = 0
  /\ zerocount = 0
  /\ maxcounts = EmptyBag
  /\ entries = [bin \in Bins |-> <<>>]
  /\ zeros = <<>>

ShowOutliers(list) ==
  /\ pc = "idle"
  /\ hashes' = list
  /\ pc' = "bins" /\ i' = 1
  /\ zerocount' = IF counts(0)' = 0 THEN 1 ELSE 0
  /\ maxcounts' = [c \in {counts(0)'} |-> nOutliers]
  /\ UNCHANGED <<entries, zeros>>

(* Mutant: the heap loses its largest element instead.                     *)
CountBin_of_largest ==
  /\ pc = "bins" /\ i < nbC
  /\ zerocount' = zerocount + IF counts(i) = 0 THEN 1 ELSE 0
  /\ maxcounts' = IF counts(i) > maxbound
                  THEN Heap!BagAdd(Heap!BagRemove(maxcounts, Max(BagToSet(maxcounts))),
                                   counts(i))
                  ELSE maxcounts
  /\ i' = i + 1
  /\ UNCHANGED <<hashes, pc, entries, zeros>>

CountBin ==
  /\ pc = "bins" /\ i < nbC
  /\ zerocount' = zerocount + IF counts(i) = 0 THEN 1 ELSE 0
  /\ maxcounts' = IF counts(i) > maxbound
                  THEN Heap!BagAdd(Heap!BagRemove(maxcounts, maxbound), counts(i))
                  ELSE maxcounts
  /\ i' = i + 1
  /\ UNCHANGED <<hashes, pc, entries, zeros>>

CountedBins ==
  /\ pc = "bins" /\ i = nbC
  /\ pc' = "hashes" /\ i' = 1
  /\ UNCHANGED <<hashes, zerocount, maxcounts, entries, zeros>>

(* entries.size(): all hashes to show, whatever their bin.                 *)
size == MapThenSumSet(LAMBDA bin : Len(entries[bin]), Bins)

(* Mutant: and-ed instead of or-ed, the limit on bins counts hashes.       *)
Wanted_by_size(bin) ==
  /\ counts(bin) >= maxbound
  /\ \/ entries[bin] = <<>> /\ size < maxEntries
     \/ entries[bin] # <<>> /\ Len(entries[bin]) < maxPerEntry

Wanted(bin) ==
  /\ counts(bin) >= maxbound
  /\ \/ entries[bin] = <<>> /\ size < maxEntries
     \/ Len(entries[bin]) < maxPerEntry

Record ==
  /\ pc = "hashes" /\ i <= nbH
  /\ entries' = IF Wanted(hashes[i])
                THEN [entries EXCEPT ![hashes[i]] = Append(@, i)] ELSE entries
  /\ i' = i + 1
  /\ UNCHANGED <<hashes, pc, zerocount, maxcounts, zeros>>

(* Mutant: the limit does not apply to the bins that are shown.            *)
Recorded_unlimited ==
  /\ pc = "hashes" /\ i > nbH
  /\ pc' = IF zerocount > 0 THEN "zeros" ELSE "done"
  /\ i' = 0
  /\ UNCHANGED <<hashes, zerocount, maxcounts, entries, zeros>>

Recorded ==
  /\ pc = "hashes" /\ i > nbH
  /\ pc' = IF zerocount > 0 THEN "zeros" ELSE "done"
  /\ i' = 0
  /\ zerocount' = Min({zerocount, maxEntries})
  /\ UNCHANGED <<hashes, maxcounts, entries, zeros>>

(* The empty bins in turn, until as many as announced are shown.           *)
ShowZero ==
  /\ pc = "zeros"
  /\ IF counts(i) = 0
     THEN /\ zeros' = Append(zeros, i)
          /\ zerocount' = zerocount - 1
          /\ pc' = IF zerocount' = 0 THEN "done" ELSE pc
     ELSE UNCHANGED <<zeros, zerocount, pc>>
  /\ i' = i + 1
  /\ UNCHANGED <<hashes, maxcounts, entries>>

Loops == CountBin \/ CountedBins \/ Record \/ Recorded \/ ShowZero

-----------------------------------------------------------------------------
(* By definition: the nOutliers-th largest count, 0 if there are fewer     *)
(* bins.                                                                   *)
AtLeast(c) == {bin \in Bins : counts(bin) >= c}
NthCount == Max({0} \cup {c \in 1 .. nbH : Cardinality(AtLeast(c)) >= nOutliers})

(* s is the first elements of S in order: all of them or n.                *)
FirstOf(s, S, n) ==
  /\ \A a, b \in DOMAIN s : a < b => s[a] < s[b]
  /\ Range(s) \subseteq S /\ Len(s) <= n
  /\ \A e \in S \ Range(s) : Len(s) = n /\ \A a \in DOMAIN s : s[a] < e

(***************************************************************************)
(* The bound found over all bins is the nOutliers-th largest count, unless *)
(* bin 0, of which the heap held that many copies, has more hashes. (The   *)
(* comment at line 178 has no such exception.)                             *)
(***************************************************************************)
BoundRight == pc \notin {"idle", "bins"} => maxbound = Max({NthCount, counts(0)})

(* The bins of which hashes are shown.                                     *)
ShownBins == {bin \in Bins : entries[bin] # <<>>}

(***************************************************************************)
(* Only bins at or over the bound are shown, each with as many of its      *)
(* first hashes as its headline says ("first %d (of %d) results", "%d      *)
(* results"). None of them is left out while there is room for it, that is *)
(* while fewer than maxEntries are shown. The empty bins are exactly as    *)
(* many of the first ones as their headline says.                          *)
(*                                                                         *)
(* Whether more than maxEntries bins are shown is left open here: the      *)
(* comment at line 199 says they are not, but the condition at line 210    *)
(* lets them. That is LimitsKept.                                          *)
(***************************************************************************)
ShownRight ==
  pc = "done" =>
    /\ \A bin \in ShownBins :
         /\ counts(bin) >= maxbound
         /\ FirstOf(entries[bin], {n \in 1 .. nbH : hashes[n] = bin}, maxPerEntry)
    /\ \A bin \in Bins \ ShownBins :
         counts(bin) > 0 /\ counts(bin) >= maxbound => Cardinality(ShownBins) >= maxEntries
    /\ FirstOf(zeros, {bin \in Bins : counts(bin) = 0}, maxEntries)

(***************************************************************************)
(* "This won't record more than maxPerEntry hashes per bin, nor any hashes *)
(* from more than maxEntries of those bins." (lines 199 and 200)           *)
(***************************************************************************)
LimitsKept ==
  /\ \A bin \in Bins : Len(entries[bin]) <= maxPerEntry
  /\ Cardinality(ShownBins) <= maxEntries

=============================================================================
