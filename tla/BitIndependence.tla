--------------------------- MODULE BitIndependence ---------------------------
(***************************************************************************)
(* The bit independence tests of smhasher3 (tests/BitIndependenceTest.cpp  *)
(* and tests/SeedBitIndependenceTest.cpp). The bits of a key, or of a      *)
(* seed, are flipped one by one, and the test asks whether two bits of the *)
(* hash change independently of each other. As in module Avalanche,        *)
(* g_NCPU threads claim the test inputs from an atomic counter. Each fills *)
(* two vectors of its own: popcounts, how often a bit of the hash changed, *)
(* and andcounts, how often two bits changed together, whose rows (one per *)
(* lower bit of the pair) are packed one after another. The main thread    *)
(* joins the threads, adds up their vectors, and rebuilds from them the    *)
(* four boxes of each pair's table (ReportChiSqIndep(), Reporting.cpp).    *)
(*                                                                         *)
(* What flipping bit k of input r changes in its hash is abstracted to the *)
(* set changed[r][k] of bits. The progress dots are those of Avalanche.    *)
(***************************************************************************)
EXTENDS Integers, FiniteSets, SequencesExt

CONSTANTS
  g_NCPU,     \* the number of threads
  reps,       \* the number of test inputs
  keybits,    \* the bits of an input: keybits or seedbits
  hashbits,   \* the bits of a hash
  wordbits,   \* the counters HistogramHashBits() handles at a time: 32 or 8
  MinExpect,  \* the expectation below which a table is a failure: 10
  changed,    \* changed[r][k]: the hash bits that flipping bit k changes
  NoReport

ASSUME CountsAssumption ==
  /\ {g_NCPU, reps, keybits, hashbits, wordbits, MinExpect} \subseteq Nat \ {0}
  /\ hashbits % wordbits = 0 /\ wordbits % 2 = 0

ASSUME ChangedAssumption ==
  changed \in [0 .. reps-1 -> [0 .. keybits-1 -> SUBSET (0 .. hashbits-1)]]

VARIABLES
  irepp,        \* the shared counter of claimed inputs
  pc,           \* where each thread is: unborn, claim, flip, done
  irep,         \* the input a thread works on
  keybit,       \* the bit of it that it flips next
  pop_cursor,   \* its next counter in popcounts
  popcounts,    \* popcounts[t], andcounts[t]: the vectors of thread t
  andcounts,
  main, i,      \* the main thread's loop (spawn, join, merge) and its index
  pair,         \* the number of the pair ReportChiSqIndep() looks at next
  worst         \* the worst pair it found: its place, and its statistic

thread == <<pc, irep, keybit, pop_cursor, popcounts, andcounts>>
vars == <<irepp, thread, main, i, pair, worst>>

Threads == 0 .. g_NCPU-1
HashBits == 0 .. hashbits-1
hashbitpairs == (hashbits \div 2) * hashbits
PopCells == 0 .. keybits*hashbits-1
AndCells == 0 .. keybits*hashbitpairs

Init ==
  /\ irepp = 0
  /\ pc = [t \in Threads |-> "unborn"]
  /\ irep = [t \in Threads |-> 0]
  /\ keybit = [t \in Threads |-> 0]
  /\ pop_cursor = [t \in Threads |-> 0]
  /\ popcounts = [t \in Threads |-> [x \in PopCells |-> 0]]
  /\ andcounts = [t \in Threads |-> [x \in AndCells |-> 0]]
  /\ main = "spawn" /\ i = 0
  /\ pair = 0
  /\ worst = [at |-> <<0, 0, 0>>, chisq |-> <<0, 1>>]

-----------------------------------------------------------------------------
(* The counters in cells are read, 1 is added to those in ones and 0 to    *)
(* the others, and they are written back. A cell that is not in the vector *)
(* would make it longer here: InVectors says that this never happens.      *)
AddBits(counts, cells, ones) ==
  [x \in DOMAIN counts \cup cells |->
    (IF x \in DOMAIN counts THEN counts[x] ELSE 0) + (IF x \in ones THEN 1 ELSE 0)]

HistogramHashBits(h, counts, cursor) ==
  AddBits(counts, cursor .. cursor+hashbits-1, {cursor + b : b \in h})

(* The variant that starts at a bit: it goes through whole words, from the *)
(* one that bit is in, and so touches counters before the cursor. It adds  *)
(* to the counters of the bits that it does not mask off, and returns      *)
(* where the last word ends.                                               *)
CursorAfter(cursor, startbit) ==
  cursor - (startbit % wordbits)
    + wordbits * ((hashbits \div wordbits) - (startbit \div wordbits))

CellsFromBit(cursor, startbit) ==
  cursor - (startbit % wordbits) .. CursorAfter(cursor, startbit) - 1

(* Mutant: the bits before startbit are not masked off.                    *)
OnesFromBit_unmasked(h, cursor, startbit) ==
  {cursor + b - startbit : b \in {c \in h : c >= startbit - (startbit % wordbits)}}

OnesFromBit(h, cursor, startbit) ==
  {cursor + b - startbit : b \in {c \in h : c >= startbit}}

(* Mutant: there is no counter before the first pair.                      *)
FirstPair_unbuffered(kb) == kb * hashbitpairs

FirstPair(kb) == kb * hashbitpairs + 1

(* Mutant: a row that is skipped is taken to be as long as the next one.   *)
AndCursor_short(h2, kb) ==
  LET at[out1 \in HashBits] ==
        IF out1 = 0 THEN FirstPair(kb)
        ELSE IF out1 - 1 \in h2 THEN CursorAfter(at[out1 - 1], out1)
        ELSE at[out1 - 1] + hashbits - 1 - out1
  IN  at

(* Where and_cursor is as the loop comes to out1: behind the row of        *)
(* out1 - 1, if that bit changed where counting from out1 on left it, and  *)
(* otherwise moved past the counters of that row.                          *)
AndCursor(h2, kb) ==
  LET at[out1 \in HashBits] ==
        IF out1 = 0 THEN FirstPair(kb)
        ELSE IF out1 - 1 \in h2 THEN CursorAfter(at[out1 - 1], out1)
        ELSE at[out1 - 1] + hashbits - 1 - (out1 - 1)
  IN  at

(* Mutant: the rows of bits that did not change are counted as well.       *)
CountPairs_unskipped(h2, counts, kb) ==
  LET rows == 0 .. hashbits-2
      cursor == AndCursor(h2, kb)
  IN  AddBits(counts, UNION {CellsFromBit(cursor[out1], out1 + 1) : out1 \in rows},
              UNION {OnesFromBit(h2, cursor[out1], out1 + 1) : out1 \in rows})

(* All pairs of one flip, row by row: those whose lower bit changed.       *)
CountPairs(h2, counts, kb) ==
  LET rows == {out1 \in 0 .. hashbits-2 : out1 \in h2}
      cursor == AndCursor(h2, kb)
  IN  AddBits(counts, UNION {CellsFromBit(cursor[out1], out1 + 1) : out1 \in rows},
              UNION {OnesFromBit(h2, cursor[out1], out1 + 1) : out1 \in rows})

-----------------------------------------------------------------------------
(***************************************************************************)
(* BicTestBatch(). Claiming reads and increments the counter in one step;  *)
(* the rest is the thread's own state.                                     *)
(***************************************************************************)
Claim(t) ==
  /\ pc[t] = "claim"
  /\ irepp < reps
  /\ irep' = [irep EXCEPT ![t] = irepp]
  /\ irepp' = irepp + 1
  /\ keybit' = [keybit EXCEPT ![t] = 0]
  /\ pop_cursor' = [pop_cursor EXCEPT ![t] = 0]
  /\ pc' = [pc EXCEPT ![t] = "flip"]
  /\ UNCHANGED <<popcounts, andcounts, main, i, pair, worst>>

(* Mutant: the loop ends at one value of the counter only.                 *)
Leave_at_last(t) ==
  /\ pc[t] = "claim"
  /\ irepp = reps
  /\ irepp' = irepp + 1
  /\ pc' = [pc EXCEPT ![t] = "done"]
  /\ UNCHANGED <<irep, keybit, pop_cursor, popcounts, andcounts,
                 main, i, pair, worst>>

(* No input is left: the claim still increments the counter.               *)
Leave(t) ==
  /\ pc[t] = "claim"
  /\ irepp >= reps
  /\ irepp' = irepp + 1
  /\ pc' = [pc EXCEPT ![t] = "done"]
  /\ UNCHANGED <<irep, keybit, pop_cursor, popcounts, andcounts,
                 main, i, pair, worst>>

(* One bit of the input is flipped and flipped back; the bits of the hash  *)
(* that this changed are counted, then the pairs of them.                  *)
Flip(t) ==
  LET h2 == changed[irep[t]][keybit[t]]
  IN  /\ pc[t] = "flip"
      /\ popcounts' = [popcounts EXCEPT ![t] = HistogramHashBits(h2, @, pop_cursor[t])]
      /\ pop_cursor' = [pop_cursor EXCEPT ![t] = @ + hashbits]
      /\ andcounts' = [andcounts EXCEPT ![t] = CountPairs(h2, @, keybit[t])]
      /\ keybit' = [keybit EXCEPT ![t] = @ + 1]
      /\ pc' = [pc EXCEPT ![t] = IF keybit[t] + 1 < keybits THEN "flip" ELSE "claim"]
      /\ UNCHANGED <<irepp, irep, main, i, pair, worst>>

BicTestBatch(t) == Claim(t) \/ Leave(t) \/ Flip(t)

-----------------------------------------------------------------------------
(***************************************************************************)
(* BicTestImpl(): one loop starts the threads, one joins them, one adds    *)
(* the vectors of the others to those of the first.                        *)
(***************************************************************************)
Loop(here, first, next) ==
  /\ main = here
  /\ IF i + 1 < g_NCPU
     THEN i' = i + 1 /\ UNCHANGED main
     ELSE i' = first /\ main' = next

Spawn ==
  /\ Loop("spawn", 0, "join")
  /\ pc' = [pc EXCEPT ![i] = "claim"]
  /\ UNCHANGED <<irepp, irep, keybit, pop_cursor, popcounts, andcounts,
                 pair, worst>>

Join ==
  /\ Loop("join", 1, IF g_NCPU > 1 THEN "merge" ELSE "report")
  /\ pc[i] = "done"
  /\ UNCHANGED <<irepp, thread, pair, worst>>

(* The first counter of andcounts holds no pair and is left alone.         *)
Merge ==
  /\ Loop("merge", 0, "report")
  /\ popcounts' = [popcounts EXCEPT ![0] = [x \in DOMAIN @ |-> @[x] + popcounts[i][x]]]
  /\ andcounts' = [andcounts EXCEPT ![0] =
                    [x \in DOMAIN @ |-> IF x = 0 THEN @[x] ELSE @[x] + andcounts[i][x]]]
  /\ UNCHANGED <<irepp, pc, irep, keybit, pop_cursor, pair, worst>>

-----------------------------------------------------------------------------
(***************************************************************************)
(* ReportChiSqIndep() goes through all pairs of different hash bits for    *)
(* each keybit and keeps the worst. What it prints is left out.            *)
(***************************************************************************)
(* The pairs in the order of the two inner loops.                          *)
OutPairs ==
  FlattenSeq([out \in 1 .. hashbits-1 |->
               [n \in 1 .. hashbits-out |-> <<out - 1, out - 1 + n>>]])

Place ==
  [p \in {OutPairs[n] : n \in DOMAIN OutPairs} |->
    CHOOSE n \in DOMAIN OutPairs : OutPairs[n] = p]

(* Where the report reads a counter: it walks through andcounts from index *)
(* 1 on (Place counts from 1), from a new base for each keybit.            *)
Read(k, a, b) ==
  IF a = b THEN popcounts[0][k*hashbits + a]
  ELSE andcounts[0][k*hashbitpairs + Place[<<a, b>>]]

(* The boxes [11], [01], [10] and [00] of two hash bits.                   *)
Boxes(k, a, b) ==
  LET both == Read(k, a, b)
      onlyB == Read(k, b, b) - both
      onlyA == Read(k, a, a) - both
  IN  <<both, onlyB, onlyA, reps - both - onlyB - onlyA>>

(* Pearson's statistic of a table as a fraction <<n, d>>. A table with an  *)
(* expectation below MinExpect counts as wholly dependent.                 *)
ChiSqIndepValue(boxes) ==
  LET rows == {boxes[1] + boxes[2], boxes[3] + boxes[4]}
      cols == {boxes[1] + boxes[3], boxes[2] + boxes[4]}
      off == boxes[1]*boxes[4] - boxes[2]*boxes[3]
  IN  IF \E r \in rows, c \in cols : r*c < MinExpect * reps THEN <<reps, 1>>
      ELSE <<reps * off * off, (boxes[1] + boxes[2]) * (boxes[3] + boxes[4])
                               * (boxes[1] + boxes[3]) * (boxes[2] + boxes[4])>>

Above(p, q) == p[1] * q[2] > q[1] * p[2]

(* Mutant: the last of the worst pairs is kept.                            *)
Worse_last(max, found) == IF Above(max.chisq, found.chisq) THEN max ELSE found

Worse(max, found) == IF Above(found.chisq, max.chisq) THEN found ELSE max

ReportChiSqIndep ==
  \E k \in 0 .. keybits-1, n \in DOMAIN OutPairs :
    /\ main = "report"
    /\ pair = k * Len(OutPairs) + n - 1
    /\ \E boxes \in {Boxes(k, OutPairs[n][1], OutPairs[n][2])} :
         worst' = Worse(worst, [at |-> <<k>> \o OutPairs[n], chisq |-> ChiSqIndepValue(boxes)])
    /\ pair' = pair + 1
    /\ main' = IF pair' < keybits * Len(OutPairs) THEN "report" ELSE "done"
    /\ UNCHANGED <<irepp, thread, i>>

BicTestImpl == Spawn \/ Join \/ Merge \/ ReportChiSqIndep

Next == BicTestImpl \/ \E t \in Threads : BicTestBatch(t)

(* The operating system runs every thread: each that can move on does.     *)
Fairness == WF_vars(BicTestImpl) /\ \A t \in Threads : WF_vars(BicTestBatch(t))

Spec == Init /\ [][Next]_vars /\ Fairness

-----------------------------------------------------------------------------
(***************************************************************************)
(* No counter outside a vector is read or written: the words that start    *)
(* before a row begin at most at the counter kept free before the first    *)
(* pair, and the last row ends inside the last keybit's space.             *)
(***************************************************************************)
InVectors ==
  \A t \in Threads : DOMAIN popcounts[t] = PopCells /\ DOMAIN andcounts[t] = AndCells

(* What the test counts: <<k, a, a>>, flips of bit k that changed bit a;   *)
(* <<k, a, b>>, those that changed a and b.                                *)
Counters == {c \in (0 .. keybits-1) \X HashBits \X HashBits : c[2] <= c[3]}

Jobs == (0 .. reps-1) \X (0 .. keybits-1)

(* The jobs of the inputs claimed so far, but for those still to be done.  *)
CountedJobs ==
  {j \in Jobs :
     /\ j[1] < irepp
     /\ \A t \in Threads : pc[t] = "flip" /\ irep[t] = j[1] => j[2] < keybit[t]}

ChangedBy(j) == {c \in Counters : c[1] = j[2] /\ {c[2], c[3]} \subseteq changed[j[1]][j[2]]}

Promise == INSTANCE BiasCount WITH
  Changes <- [j \in Jobs |-> ChangedBy(j)],
  counted <- CountedJobs,
  report <- IF main = "done" THEN [c \in Counters |-> Read(c[1], c[2], c[3])]
            ELSE NoReport

(***************************************************************************)
(* Whoever claims an input and however rows, words and keybits lie in the  *)
(* vectors, what the report reads for a bit and for each pair of bits is   *)
(* the number of flips that changed it, each flip counted once.            *)
(***************************************************************************)
ImplementsBiasCount == Promise!Spec

(* In how many inputs did flipping bit k change a and b, b only, a only,   *)
(* neither: the table drawn at the top of BitIndependenceTest.cpp.         *)
Table(k, a, b) ==
  LET Number(inA, inB) ==
        Cardinality({r \in 0 .. reps-1 :
          (a \in changed[r][k]) = inA /\ (b \in changed[r][k]) = inB})
  IN  <<Number(TRUE, TRUE), Number(FALSE, TRUE), Number(TRUE, FALSE), Number(FALSE, FALSE)>>

(***************************************************************************)
(* "The test then looks for whichever of those tuples had the highest      *)
(* deviation from expected values" (BitIndependenceTest.cpp): the tuple    *)
(* and the value reported belong together, no table built from the flips   *)
(* themselves deviates more, and none before it as much.                   *)
(***************************************************************************)
WorstReported ==
  main = "done" =>
    LET Value(c) == ChiSqIndepValue(Table(c[1], c[2], c[3]))
        Before(c, d) == \/ c[1] < d[1]
                        \/ c[1] = d[1] /\ c[2] < d[2]
                        \/ c[1] = d[1] /\ c[2] = d[2] /\ c[3] < d[3]
    IN  IF worst.at = <<0, 0, 0>>
        THEN \A c \in Counters : c[2] < c[3] => Value(c)[1] = 0
        ELSE /\ worst.chisq = Value(worst.at)
             /\ \A c \in Counters : c[2] < c[3] =>
                  IF Before(c, worst.at) THEN Above(worst.chisq, Value(c))
                  ELSE ~Above(Value(c), worst.chisq)

(* The test ends: every thread runs out of inputs and is joined.           *)
Terminates == <>(main = "done")

=============================================================================
