---------------------------- MODULE Distribution ----------------------------
(***************************************************************************)
(* The distribution test of a list of hashes (util/Analyze.cpp): for each  *)
(* bit of the hash, the hashes are sorted into bins by the maxwidth bits   *)
(* from there on, the bins are scored, and they are folded in half and     *)
(* scored again down to minwidth bits. Threads claim ranges of starting    *)
(* bits from an atomic counter and write into one shared array of scores.  *)
(* Bins are counted in 8 bits where that is enough and in 32 bits where it *)
(* is not. With g_NCPU = 1 the main thread does it all, which is the       *)
(* behaviour below with one thread and batch_size = hashbits.              *)
(*                                                                         *)
(* The score of some bins is represented by the sum of the squares of what *)
(* they hold, from which calcScore() computes it.                          *)
(***************************************************************************)
EXTENDS Integers, FiniteSetsExt

CONSTANTS
  g_NCPU,      \* the number of threads
  hashbits,    \* the bits of a hash
  hashes,      \* the list of hashes, from index 0 on
  batch_size,  \* the starting bits a thread claims at a time
  maxwidth, minwidth,  \* the widths of a slice
  U8,          \* how many values a uint8_t has
  Unscored, NoReport

nbH == Cardinality(DOMAIN hashes)

(* 1 << n, the number of values of n bits.                                 *)
Pow2[n \in Nat] == IF n = 0 THEN 1 ELSE 2 * Pow2[n-1]

ASSUME CountsAssumption ==
  /\ g_NCPU \in Nat \ {0} /\ hashbits \in Nat \ {0} /\ batch_size \in Nat \ {0}
  /\ maxwidth \in 1 .. hashbits /\ minwidth \in 1 .. maxwidth
  /\ U8 \in Nat \ {0, 1}

ASSUME HashesAssumption ==
  /\ IsFiniteSet(DOMAIN hashes) /\ DOMAIN hashes = 0 .. nbH-1
  /\ hashes \in [0 .. nbH-1 -> 0 .. Pow2[hashbits] - 1]

ASSUME ReportAssumption == Unscored \notin Nat

VARIABLES
  ikeybit,       \* the shared counter of claimed starting bits
  result_scores, \* the scores of all slices, written by all threads
  pc,            \* where each thread is
  start,         \* the starting bit a thread works on
  stopbit,       \* the end of the range it claimed
  width,         \* the width of the slice its bins are of
  bins8, bins32, \* its bins
  bigbins,       \* whether bins32 are the ones in use
  resultptr,     \* the place of its next score
  testcount,     \* how many scores it wrote
  main, i,       \* the main thread's loop (spawn, join) and its index
  tests,         \* the sum of the counts of the threads joined
  report         \* what ReportDistribution() is given

bins == <<bins8, bins32, bigbins>>
slice == <<start, stopbit, width, resultptr>>
mainvars == <<main, i, tests, report>>
vars == <<ikeybit, result_scores, pc, slice, bins, testcount, mainvars>>

Threads == 0 .. g_NCPU-1
Starts == 0 .. hashbits-1
widths == maxwidth - minwidth + 1
Slots == 0 .. hashbits * widths - 1

-----------------------------------------------------------------------------
(* count bits of a hash, beginning at a bit and wrapping around.           *)
window(h, first, count) ==
  ((h \div Pow2[first]) + (h * Pow2[hashbits - first])) % Pow2[count]

(* How many of the first n hashes fall into bin x.                         *)
Arrivals(n, first, count, x) ==
  Cardinality({j \in 0 .. n-1 : window(hashes[j], first, count) = x})

sumSquares(b, bincount) == MapThenSumSet(LAMBDA x : b[x] * b[x], 0 .. bincount-1)

(* std::vector::resize(): what fits is kept, what is new is 0.             *)
resize(b, n) == [x \in 0 .. n-1 |-> IF x \in DOMAIN b THEN b[x] ELSE 0]
clear == [x \in {} |-> 0]

(* The hashes whose counting brings an 8-bit bin back to 0.                *)
Overflowing(first) ==
  {j \in 0 .. nbH-1 :
     Arrivals(j + 1, first, maxwidth, window(hashes[j], first, maxwidth)) = U8}

Init ==
  /\ ikeybit = 0
  /\ result_scores = [x \in Slots |-> Unscored]
  /\ pc = [t \in Threads |-> "unborn"]
  /\ start = [t \in Threads |-> 0]
  /\ stopbit = [t \in Threads |-> 0]
  /\ width = [t \in Threads |-> maxwidth]
  /\ bins8 = [t \in Threads |-> [x \in 0 .. Pow2[maxwidth] - 1 |-> 0]]
  /\ bins32 = [t \in Threads |-> clear]
  /\ bigbins = [t \in Threads |-> FALSE]
  /\ resultptr = [t \in Threads |-> 0]
  /\ testcount = [t \in Threads |-> 0]
  /\ main = "spawn" /\ i = 0
  /\ tests = 0
  /\ report = NoReport

(***************************************************************************)
(* TestDistributionBatch().                                                *)
(***************************************************************************)
(* fetch_add: the range is read and reserved in one step.                  *)
Claim(t) ==
  /\ pc[t] = "claim"
  /\ ikeybit < hashbits
  /\ start' = [start EXCEPT ![t] = ikeybit]
  /\ stopbit' = [stopbit EXCEPT ![t] = Min({ikeybit + batch_size, hashbits})]
  /\ ikeybit' = ikeybit + batch_size
  /\ pc' = [pc EXCEPT ![t] = "count"]
  /\ UNCHANGED <<result_scores, width, bins, resultptr, testcount, mainvars>>

(* Mutant: the loop ends at one value of the counter only.                 *)
Leave_at_last(t) ==
  /\ pc[t] = "claim"
  /\ ikeybit = hashbits
  /\ ikeybit' = ikeybit + batch_size
  /\ pc' = [pc EXCEPT ![t] = "done"]
  /\ UNCHANGED <<result_scores, slice, bins, testcount, mainvars>>

(* No starting bit is left; *tests is the thread's count from here on.     *)
Leave(t) ==
  /\ pc[t] = "claim"
  /\ ikeybit >= hashbits
  /\ ikeybit' = ikeybit + batch_size
  /\ pc' = [pc EXCEPT ![t] = "done"]
  /\ UNCHANGED <<result_scores, slice, bins, testcount, mainvars>>

(***************************************************************************)
(* The hashes are counted in 8-bit bins, up to the first overflow.         *)
(***************************************************************************)
Count(t) ==
  LET over == Overflowing(start[t])
      n == IF over = {} THEN nbH ELSE Min(over) + 1
  IN  /\ pc[t] = "count"
      /\ width' = [width EXCEPT ![t] = maxwidth]
      /\ bins8' = [bins8 EXCEPT ![t] =
                     [x \in DOMAIN @ |-> Arrivals(n, start[t], maxwidth, x) % U8]]
      /\ bigbins' = [bigbins EXCEPT ![t] = over # {}]
      /\ resultptr' = [resultptr EXCEPT ![t] = start[t] * widths]
      /\ pc' = [pc EXCEPT ![t] = IF over # {} THEN "recount" ELSE "score"]
      /\ UNCHANGED <<ikeybit, result_scores, start, stopbit, bins32, testcount, mainvars>>

(* Mutant: the bins of an earlier slice are not cleared.                   *)
Recount_keeping(t) ==
  /\ pc[t] = "recount"
  /\ bins32' = [bins32 EXCEPT ![t] =
       [x \in 0 .. Pow2[maxwidth] - 1 |->
          resize(@, Pow2[maxwidth])[x] + Arrivals(nbH, start[t], maxwidth, x)]]
  /\ pc' = [pc EXCEPT ![t] = "score"]
  /\ UNCHANGED <<ikeybit, result_scores, slice, bins8, bigbins, testcount, mainvars>>

(* After an overflow, all of them are counted again in 32-bit bins.        *)
Recount(t) ==
  /\ pc[t] = "recount"
  /\ bins32' = [bins32 EXCEPT ![t] =
       [x \in 0 .. Pow2[maxwidth] - 1 |->
          resize(clear, Pow2[maxwidth])[x] + Arrivals(nbH, start[t], maxwidth, x)]]
  /\ pc' = [pc EXCEPT ![t] = "score"]
  /\ UNCHANGED <<ikeybit, result_scores, slice, bins8, bigbins, testcount, mainvars>>

(***************************************************************************)
(* The bins are scored. After the narrowest width comes the next starting  *)
(* bit of the range, or the next claim.                                    *)
(***************************************************************************)
(* Mutant: the scores of a starting bit overlap those of the next.         *)
Score_overlapping(t) ==
  LET last == width[t] = minwidth
      b == IF bigbins[t] THEN bins32[t] ELSE bins8[t]
  IN  /\ pc[t] = "score"
      /\ result_scores' =
           [result_scores EXCEPT ![resultptr[t] - start[t]] = sumSquares(b, Pow2[width[t]])]
      /\ resultptr' = [resultptr EXCEPT ![t] = @ + 1]
      /\ testcount' = [testcount EXCEPT ![t] = @ + 1]
      /\ width' = [width EXCEPT ![t] = @ - 1]
      /\ start' = [start EXCEPT ![t] = IF last THEN @ + 1 ELSE @]
      /\ pc' = [pc EXCEPT ![t] = IF ~last THEN "fold"
                                 ELSE IF start[t] + 1 < stopbit[t] THEN "count" ELSE "claim"]
      /\ UNCHANGED <<ikeybit, stopbit, bins, mainvars>>

Score(t) ==
  LET last == width[t] = minwidth
      b == IF bigbins[t] THEN bins32[t] ELSE bins8[t]
  IN  /\ pc[t] = "score"
      /\ result_scores' =
           [result_scores EXCEPT ![resultptr[t]] = sumSquares(b, Pow2[width[t]])]
      /\ resultptr' = [resultptr EXCEPT ![t] = @ + 1]
      /\ testcount' = [testcount EXCEPT ![t] = @ + 1]
      /\ width' = [width EXCEPT ![t] = @ - 1]
      /\ start' = [start EXCEPT ![t] = IF last THEN @ + 1 ELSE @]
      /\ pc' = [pc EXCEPT ![t] = IF ~last THEN "fold"
                                 ELSE IF start[t] + 1 < stopbit[t] THEN "count" ELSE "claim"]
      /\ UNCHANGED <<ikeybit, stopbit, bins, mainvars>>

(* The upper half of n bins is added to the lower half, in 32 or 8 bits.   *)
Fold32(b, n) == [x \in DOMAIN b |-> IF x < n THEN b[x] + b[x + n] ELSE b[x]]
Fold8(b, n) == [x \in DOMAIN b |-> IF x < n THEN (b[x] + b[x + n]) % U8 ELSE b[x]]

(* An unsigned sum that is less than what was added to it has overflowed.  *)
Wrapped(folded, n) == \E x \in 0 .. n-1 : folded[x] < folded[x + n]

(* Mutant: the wrapped sums are widened as they are.                       *)
Widen_wrapped(folded, n) == [x \in 0 .. n-1 |-> folded[x]]

(* The addition is undone in 8 bits and done again in 32.                  *)
Widen(folded, n) ==
  [x \in 0 .. n-1 |-> ((folded[x] - folded[x + n]) % U8) + folded[x + n]]

FoldBig(t) ==
  /\ pc[t] = "fold"
  /\ bigbins[t]
  /\ bins32' = [bins32 EXCEPT ![t] = Fold32(@, Pow2[width[t]])]
  /\ pc' = [pc EXCEPT ![t] = "score"]
  /\ UNCHANGED <<ikeybit, result_scores, slice, bins8, bigbins, testcount, mainvars>>

FoldSmall(t) ==
  LET folded == Fold8(bins8[t], Pow2[width[t]])
      wrapped == Wrapped(folded, Pow2[width[t]])
  IN  /\ pc[t] = "fold"
      /\ ~bigbins[t]
      /\ bins8' = [bins8 EXCEPT ![t] = folded]
      /\ bigbins' = [bigbins EXCEPT ![t] = wrapped]
      /\ bins32' = [bins32 EXCEPT ![t] =
                      IF wrapped THEN Widen(folded, Pow2[width[t]]) ELSE @]
      /\ pc' = [pc EXCEPT ![t] = "score"]
      /\ UNCHANGED <<ikeybit, result_scores, slice, testcount, mainvars>>

TestDistributionBatch(t) ==
  Claim(t) \/ Leave(t) \/ Count(t) \/ Recount(t) \/ Score(t) \/ FoldBig(t) \/ FoldSmall(t)

(***************************************************************************)
(* TestDistribution(): one loop starts the threads, one joins them.        *)
(***************************************************************************)
Loop(here, next) ==
  /\ main = here
  /\ IF i + 1 < g_NCPU
     THEN i' = i + 1 /\ UNCHANGED main
     ELSE i' = 0 /\ main' = next

Spawn ==
  /\ Loop("spawn", "join")
  /\ pc' = [pc EXCEPT ![i] = "claim"]
  /\ UNCHANGED <<ikeybit, result_scores, slice, bins, testcount, tests, report>>

Join ==
  /\ Loop("join", "report")
  /\ pc[i] = "done"
  /\ tests' = tests + testcount[i]
  /\ UNCHANGED <<ikeybit, result_scores, pc, slice, bins, testcount, report>>

ReportDistribution ==
  /\ main = "report"
  /\ report' = [scores |-> result_scores, tests |-> tests]
  /\ main' = "done"
  /\ UNCHANGED <<ikeybit, result_scores, pc, slice, bins, testcount, i, tests>>

TestDistribution == Spawn \/ Join \/ ReportDistribution

Next == TestDistribution \/ \E t \in Threads : TestDistributionBatch(t)

(* The operating system runs every thread: each that can move on does.     *)
Fairness ==
  WF_vars(TestDistribution) /\ \A t \in Threads : WF_vars(TestDistributionBatch(t))

Spec == Init /\ [][Next]_vars /\ Fairness

-----------------------------------------------------------------------------
(***************************************************************************)
(* Whenever a thread scores its bins, those in use hold, for each value of *)
(* the slice, how many hashes have it: whether they were counted in 8 bits,*)
(* again in 32, folded, or widened at whichever fold overflowed first.     *)
(***************************************************************************)
BinsExact ==
  \A t \in Threads : pc[t] = "score" =>
    \A x \in 0 .. Pow2[width[t]] - 1 :
      Arrivals(nbH, start[t], width[t], x)
        = IF bigbins[t] THEN bins32[t][x] ELSE bins8[t][x]

(* The score that belongs into a place.                                    *)
TrueScore(x) ==
  LET first == x \div widths
      count == maxwidth - (x % widths)
  IN  sumSquares([b \in 0 .. Pow2[count] - 1 |-> Arrivals(nbH, first, count, b)], Pow2[count])

Promise == INSTANCE SliceScores WITH
  ScoreOf <- [x \in Slots |-> TrueScore(x)],
  scores <- result_scores

(***************************************************************************)
(* The threads together score every slice at every width exactly once and  *)
(* right, and the report comes after the last score and knows how many     *)
(* there are (it scales the worst p-value by that number).                 *)
(***************************************************************************)
ImplementsSliceScores == Promise!Spec

(* The test ends: every thread runs out of slices and is joined.           *)
Terminates == <>(main = "done")

=============================================================================
