----------------------------- MODULE Avalanche ------------------------------
(***************************************************************************)
(* The Avalanche test of smhasher3 (tests/AvalancheTest.cpp): g_NCPU       *)
(* threads share one list of test keys. A thread claims the next key from  *)
(* an atomic counter, hashes it, flips its bits one by one, and counts in  *)
(* a histogram of its own which bits of the hash each flip changed. The    *)
(* main thread joins the threads, adds their histograms to the first one   *)
(* and evaluates it. With g_NCPU = 1 the main thread runs the loop itself, *)
(* which is the behaviour below with one thread.                           *)
(*                                                                         *)
(* A test key is its number in keys[]; what its bits are is abstracted:    *)
(* hash[r][F] is the set of bits that are set in the hash of key r with    *)
(* the bits F flipped. The counters of bit flips are indexed as in the     *)
(* code, by input bit and output bit.                                      *)
(***************************************************************************)
EXTENDS Integers, FiniteSets

CONSTANTS
  g_NCPU,     \* the number of threads
  reps,       \* the number of test keys
  keybits,    \* the bits of a key
  hashbits,   \* the bits of a hash
  totaldots,  \* the length of the progress bar
  hash,       \* the hash function under test
  NoReport

ASSUME CountsAssumption ==
  /\ g_NCPU \in Nat \ {0} /\ reps \in Nat \ {0, 1}
  /\ keybits \in Nat \ {0} /\ hashbits \in Nat \ {0}
  /\ totaldots \in Nat \ {0}

ASSUME HashAssumption ==
  hash \in [0 .. reps-1 -> [SUBSET (0 .. keybits-1) -> SUBSET (0 .. hashbits-1)]]

ASSUME ReportAssumption == NoReport \notin [0 .. keybits*hashbits-1 -> Nat]

VARIABLES
  irepp,        \* the shared counter of claimed keys
  bins,         \* bins[t][x]: the histogram of thread t
  pc,           \* where each thread is: unborn, claim, flip, done
  irep,         \* the key a thread works on
  iBit,         \* the bit of it the thread flips next
  K,            \* the bits flipped in the thread's copy of the key
  A,            \* the hash of the key as it is
  cursor,       \* the next counter of the thread's histogram
  dots,         \* the progress dots printed so far
  main, i,      \* the main thread's loop (spawn, join, merge) and its index
  report,       \* what ReportBias() is given
  owner         \* history, not in the code: which thread claimed each key

thread == <<pc, irep, iBit, K, A, cursor>>
vars == <<irepp, bins, thread, dots, main, i, report, owner>>

Threads == 0 .. g_NCPU-1
Reps == 0 .. reps-1
NoOne == g_NCPU
arraysize == keybits * hashbits
Bins == 0 .. arraysize-1

-----------------------------------------------------------------------------
(* The number of dots for the call numbered cur of those from min to max.  *)
Dots(cur, min, max, total) ==
  LET span == max - min + 1
  IN  (((cur - min + 1) * total) \div span) - (((cur - min) * total) \div span)

(* Mutant: the first dot is not taken off the others.                      *)
progressdots_full(cur, min, max, total) ==
  IF max - min + 1 > total
  THEN IF cur = min THEN 1 ELSE Dots(cur, min + 1, max, total)
  ELSE Dots(cur, min, max, total)

progressdots(cur, min, max, total) ==
  IF max - min + 1 > total
  THEN IF cur = min THEN 1 ELSE Dots(cur, min + 1, max, total - 1)
  ELSE Dots(cur, min, max, total)

flipbit(flipped, b) == (flipped \ {b}) \cup ({b} \ flipped)

Xor(a, b) == (a \ b) \cup (b \ a)

(* Each bit of the hash is added to its counter, from the cursor on.       *)
HistogramHashBits(B, histogram, at) ==
  [x \in Bins |->
    IF x \in at .. at + hashbits-1 /\ x - at \in B
    THEN histogram[x] + 1 ELSE histogram[x]]

Init ==
  /\ irepp = 0
  /\ bins = [t \in Threads |-> [x \in Bins |-> 0]]
  /\ pc = [t \in Threads |-> "unborn"]
  /\ irep = [t \in Threads |-> 0]
  /\ iBit = [t \in Threads |-> 0]
  /\ K = [t \in Threads |-> {}]
  /\ A = [t \in Threads |-> {}]
  /\ cursor = [t \in Threads |-> 0]
  /\ dots = 0
  /\ main = "spawn" /\ i = 0
  /\ report = NoReport
  /\ owner = [r \in Reps |-> NoOne]

(***************************************************************************)
(* calcBiasRange(). Claiming reads and increments the counter in one step; *)
(* all that follows it, up to the next claim, is the thread's own state.   *)
(***************************************************************************)
(* Mutant: the cursor is not set back to the first counter.                *)
Claim_keeping_cursor(t) ==
  /\ pc[t] = "claim"
  /\ irepp < reps
  /\ irep' = [irep EXCEPT ![t] = irepp]
  /\ irepp' = irepp + 1
  /\ dots' = dots + progressdots(irepp, 0, reps-1, totaldots)
  /\ K' = [K EXCEPT ![t] = {}]
  /\ A' = [A EXCEPT ![t] = hash[irepp][{}]]
  /\ iBit' = [iBit EXCEPT ![t] = 0]
  /\ pc' = [pc EXCEPT ![t] = "flip"]
  /\ owner' = [owner EXCEPT ![irepp] = t]
  /\ UNCHANGED <<bins, cursor, main, i, report>>

Claim(t) ==
  /\ pc[t] = "claim"
  /\ irepp < reps
  /\ irep' = [irep EXCEPT ![t] = irepp]
  /\ irepp' = irepp + 1
  /\ dots' = dots + progressdots(irepp, 0, reps-1, totaldots)
  /\ K' = [K EXCEPT ![t] = {}]
  /\ A' = [A EXCEPT ![t] = hash[irepp][{}]]
  /\ cursor' = [cursor EXCEPT ![t] = 0]
  /\ iBit' = [iBit EXCEPT ![t] = 0]
  /\ pc' = [pc EXCEPT ![t] = "flip"]
  /\ owner' = [owner EXCEPT ![irepp] = t]
  /\ UNCHANGED <<bins, main, i, report>>

(* Mutant: the loop ends at one value of the counter only.                 *)
Leave_at_last(t) ==
  /\ pc[t] = "claim"
  /\ irepp = reps
  /\ irepp' = irepp + 1
  /\ pc' = [pc EXCEPT ![t] = "done"]
  /\ UNCHANGED <<bins, irep, iBit, K, A, cursor, dots, main, i, report, owner>>

(* No key is left: the claim still increments the counter.                 *)
Leave(t) ==
  /\ pc[t] = "claim"
  /\ irepp >= reps
  /\ irepp' = irepp + 1
  /\ pc' = [pc EXCEPT ![t] = "done"]
  /\ UNCHANGED <<bins, irep, iBit, K, A, cursor, dots, main, i, report, owner>>

(* Mutant: the bit is not flipped back.                                    *)
Flip_once(t) ==
  LET B == hash[irep[t]][flipbit(K[t], iBit[t])]
  IN  /\ pc[t] = "flip"
      /\ bins' = [bins EXCEPT ![t] = HistogramHashBits(Xor(B, A[t]), @, cursor[t])]
      /\ cursor' = [cursor EXCEPT ![t] = @ + hashbits]
      /\ K' = [K EXCEPT ![t] = flipbit(@, iBit[t])]
      /\ iBit' = [iBit EXCEPT ![t] = @ + 1]
      /\ pc' = [pc EXCEPT ![t] = IF iBit[t] + 1 < keybits THEN "flip" ELSE "claim"]
      /\ UNCHANGED <<irepp, irep, A, dots, main, i, report, owner>>

(* One bit of the key is flipped, the key hashed, and the bit flipped back.*)
Flip(t) ==
  LET B == hash[irep[t]][flipbit(K[t], iBit[t])]
  IN  /\ pc[t] = "flip"
      /\ bins' = [bins EXCEPT ![t] = HistogramHashBits(Xor(B, A[t]), @, cursor[t])]
      /\ cursor' = [cursor EXCEPT ![t] = @ + hashbits]
      /\ K' = [K EXCEPT ![t] = flipbit(flipbit(@, iBit[t]), iBit[t])]
      /\ iBit' = [iBit EXCEPT ![t] = @ + 1]
      /\ pc' = [pc EXCEPT ![t] = IF iBit[t] + 1 < keybits THEN "flip" ELSE "claim"]
      /\ UNCHANGED <<irepp, irep, A, dots, main, i, report, owner>>

calcBiasRange(t) == Claim(t) \/ Leave(t) \/ Flip(t)

(***************************************************************************)
(* AvalancheImpl(): one loop starts the threads, one joins them, one adds  *)
(* the other histograms to the first.                                      *)
(***************************************************************************)
Loop(here, first, next) ==
  /\ main = here
  /\ IF i + 1 < g_NCPU
     THEN i' = i + 1 /\ UNCHANGED main
     ELSE i' = first /\ main' = next

Spawn ==
  /\ Loop("spawn", 0, "join")
  /\ pc' = [pc EXCEPT ![i] = "claim"]
  /\ UNCHANGED <<irepp, bins, irep, iBit, K, A, cursor, dots, report, owner>>

(* Mutant: only the start of the threads is waited for.                    *)
Join_started ==
  /\ Loop("join", 1, IF g_NCPU > 1 THEN "merge" ELSE "report")
  /\ pc[i] # "unborn"
  /\ UNCHANGED <<irepp, bins, thread, dots, report, owner>>

(* Mutant: the first histogram is added to itself as well.                 *)
Join_merging_all ==
  /\ Loop("join", 0, IF g_NCPU > 1 THEN "merge" ELSE "report")
  /\ pc[i] = "done"
  /\ UNCHANGED <<irepp, bins, thread, dots, report, owner>>

Join ==
  /\ Loop("join", 1, IF g_NCPU > 1 THEN "merge" ELSE "report")
  /\ pc[i] = "done"
  /\ UNCHANGED <<irepp, bins, thread, dots, report, owner>>

Merge ==
  /\ Loop("merge", 0, "report")
  /\ bins' = [bins EXCEPT ![0] = [x \in Bins |-> @[x] + bins[i][x]]]
  /\ UNCHANGED <<irepp, thread, dots, report, owner>>

ReportBias ==
  /\ main = "report"
  /\ report' = bins[0]
  /\ main' = "done"
  /\ UNCHANGED <<irepp, bins, thread, dots, i, owner>>

AvalancheImpl == Spawn \/ Join \/ Merge \/ ReportBias

Next == AvalancheImpl \/ \E t \in Threads : calcBiasRange(t)

(* The operating system runs every thread: each that can move on does.     *)
Fairness == WF_vars(AvalancheImpl) /\ \A t \in Threads : WF_vars(calcBiasRange(t))

Spec == Init /\ [][Next]_vars /\ Fairness

-----------------------------------------------------------------------------
TypeOK ==
  /\ irepp \in 0 .. reps + g_NCPU
  /\ bins \in [Threads -> [Bins -> Nat]]
  /\ pc \in [Threads -> {"unborn", "claim", "flip", "done"}]
  /\ irep \in [Threads -> Reps]
  /\ iBit \in [Threads -> 0 .. keybits]
  /\ K \in [Threads -> SUBSET (0 .. keybits-1)]
  /\ A \in [Threads -> SUBSET (0 .. hashbits-1)]
  /\ cursor \in [Threads -> 0 .. arraysize]
  /\ dots \in Nat
  /\ main \in {"spawn", "join", "merge", "report", "done"}
  /\ i \in Threads \cup {1}
  /\ report \in [Bins -> Nat] \cup {NoReport}
  /\ owner \in [Reps -> Threads \cup {NoOne}]

(* Bit k of key r, flipped, changes these bits of the hash.                *)
Diff(r, k) == Xor(hash[r][{k}], hash[r][{}])

(* A job is a bit of a key to flip; the counters it adds one to.           *)
Jobs == Reps \X (0 .. keybits-1)

ChangedBy(j) == {j[2] * hashbits + b : b \in Diff(j[1], j[2])}

(* The jobs of the keys claimed so far, but for those a thread has still   *)
(* to do.                                                                  *)
CountedJobs ==
  {j \in Jobs :
     /\ j[1] < irepp
     /\ \A t \in Threads : pc[t] = "flip" /\ irep[t] = j[1] => j[2] < iBit[t]}

CountedBy(t, x) == {j \in CountedJobs : owner[j[1]] = t /\ x \in ChangedBy(j)}

(***************************************************************************)
(* While the threads run, each counter of each histogram holds the number  *)
(* of flips, of the keys its thread claimed, that changed its bit: the     *)
(* cursor never drifts from the bit that is flipped, and no earlier flip   *)
(* is left in the key.                                                     *)
(***************************************************************************)
BinsCount ==
  main \in {"spawn", "join"} =>
    \A t \in Threads, x \in Bins : bins[t][x] = Cardinality(CountedBy(t, x))

(* The main thread reads and adds up the histograms, without a lock, only  *)
(* when no thread can write to one any more.                               *)
MergeAfterThreads ==
  main \in {"merge", "report", "done"} => \A t \in Threads : pc[t] = "done"

(* progressdots() (util/TestGlobals.h): "When cur is max, totaldots should *)
(* have been printed", by whichever threads and in whichever order.        *)
AllDots == main = "done" => dots = totaldots

Promise == INSTANCE BiasCount WITH
  Counters <- Bins,
  Changes <- [j \in Jobs |-> ChangedBy(j)],
  counted <- CountedJobs

(***************************************************************************)
(* The threads together count each flip of each key exactly once, and the  *)
(* histogram the test evaluates is the one a single thread would have      *)
(* built.                                                                  *)
(***************************************************************************)
ImplementsBiasCount == Promise!Spec

(* The test ends: every thread runs out of keys and is joined.             *)
Terminates == <>(main = "done")

=============================================================================
