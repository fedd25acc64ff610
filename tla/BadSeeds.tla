------------------------------ MODULE BadSeeds -------------------------------
(***************************************************************************)
(* The BadSeeds test of smhasher3 (tests/BadSeedsTest.cpp). It tries the   *)
(* hash's list of known bad seeds. If it is to find new ones, it tries all *)
(* U32 seeds of the first range and, unless the hash has only that many,   *)
(* those of the last. Each range is divided among g_NCPU threads. The main *)
(* thread keeps progress_mutex while it starts them, and then waits on a   *)
(* condition variable until each has announced its share.                  *)
(*                                                                         *)
(* A seed is its number. Which seeds are bad (some of the test keys hash   *)
(* to the same value) or broken (one of them hashes to 0) is given. The    *)
(* output is abstracted to whether the last line is a finished one.        *)
(*                                                                         *)
(* What a thread does under print_mutex or progress_mutex is one step, as  *)
(* nothing in it waits; the main thread keeps progress_mutex across steps. *)
(***************************************************************************)
EXTENDS Integers, FiniteSets, FiniteSetsExt

CONSTANTS
  U32, U64,           \* 2^32, the seeds of a range, and 2^64, all seeds
  ProgressEvery,      \* 2^25: progress is printed once in as many seeds
  progress_nl_every,  \* as many times to a line
  UintMax,            \* the largest unsigned number
  Setups              \* what is tested, and how: see below

Low == 0 .. U32-1
Seeds == 0 .. U64-1
LastRange == U64 - U32

(***************************************************************************)
(* The hash, which may be too short for the test or a mock, and its list   *)
(* of known bad seeds or a description of them; which seeds are bad or     *)
(* broken; whether to find new ones, with how many threads and with how    *)
(* many (300 in the code) before the test is given up.                     *)
(***************************************************************************)
ASSUME SizesAssumption ==
  /\ U32 \in Nat \ {0, 1} /\ U64 = U32 * U32
  /\ ProgressEvery \in Nat \ {0} /\ progress_nl_every \in Nat \ {0}
  /\ UintMax \in Nat /\ UintMax >= U32
  /\ \A s \in Setups :
       /\ {s.short, s.mock, s.is32BitSeed, s.described, s.find_new_seeds} \subseteq BOOLEAN
       /\ s.badseeds \cup s.Bad \cup s.Broken \subseteq Seeds
       /\ s.g_NCPU \in 1 .. U32 /\ s.MaxFails \in Nat \ {0}

VARIABLES
  setup,              \* one of the Setups
  main,               \* where the main thread is
  hi,                 \* the first seed of the range it is at
  i,                  \* the index of its loop over the threads
  result, newresult,  \* BadSeedsTest()'s and TestManySeeds()'s results
  known,              \* the known bad seeds not tried yet
  pc,                 \* where each thread is
  seed, last,         \* the seed a thread is at, and its last
  fails,              \* the bad seeds the thread found
  results, newresults,
  threads_remaining,  \* the threads that have not announced their share
  progress_mutex,     \* "free", or "main": kept across steps
  seed_progress,      \* the progress reports on the current line
  midline,            \* whether the output's last line is unfinished
  verdict,            \* what the test printed in the end
  tried               \* history, not in the code: how often each seed of the
                      \* ranges was tried, 2 standing for more than once

run == <<main, hi, i, result, newresult, known, verdict>>
thread == <<pc, seed, last, fails, results, newresults>>
out == <<seed_progress, midline>>
sync == <<threads_remaining, progress_mutex>>
vars == <<setup, run, thread, out, sync, tried>>

g_NCPU == setup.g_NCPU
MaxFails == setup.MaxFails
is32BitSeed == setup.is32BitSeed
badseeds == setup.badseeds
Bad == setup.Bad
Broken == setup.Broken

AllThreads == 0 .. U32-1
Threads == 0 .. g_NCPU-1
Faulty == Bad \cup Broken

Running == main \in {"spawn", "wait", "asleep", "woken", "call", "join"}

-----------------------------------------------------------------------------
(* The share of each thread. The last one takes what the division leaves.  *)
len == U32 \div g_NCPU

(* Mutant: the last thread's share is as long as the others'.              *)
end_even(t) == ((t * len) % U32) + (len - 1)

start(t) == (t * len) % U32
end(t) == IF t < g_NCPU-1 THEN start(t) + (len - 1) ELSE U32 - 1

Init ==
  /\ setup \in Setups
  /\ main = IF setup.short THEN "done" ELSE "known"
  /\ hi = 0 /\ i = 0
  /\ result = TRUE /\ newresult = FALSE /\ known = badseeds
  /\ pc = [t \in Threads |-> "idle"]
  /\ seed = [t \in Threads |-> 0] /\ last = [t \in Threads |-> 0]
  /\ fails = [t \in Threads |-> 0]
  /\ results = [t \in Threads |-> FALSE] /\ newresults = [t \in Threads |-> FALSE]
  /\ threads_remaining = 0 /\ progress_mutex = "free"
  /\ seed_progress = 0 /\ midline = FALSE
  /\ verdict = "none" /\ tried = [s \in Seeds |-> 0]

-----------------------------------------------------------------------------
(* Mutant: the count of bad seeds is not the thread's own.                 *)
Begin_counting_on(t) ==
  /\ pc' = [pc EXCEPT ![t] = "announce"]
  /\ seed' = [seed EXCEPT ![t] = hi + start(t)]
  /\ last' = [last EXCEPT ![t] = hi + end(t)]
  /\ results' = [results EXCEPT ![t] = FALSE]
  /\ newresults' = [newresults EXCEPT ![t] = FALSE]
  /\ UNCHANGED fails

(* TestSeedRangeThread(): the start of a thread's share.                   *)
Begin(t) ==
  /\ pc' = [pc EXCEPT ![t] = "announce"]
  /\ seed' = [seed EXCEPT ![t] = hi + start(t)]
  /\ last' = [last EXCEPT ![t] = hi + end(t)]
  /\ fails' = [fails EXCEPT ![t] = 0]
  /\ results' = [results EXCEPT ![t] = FALSE]
  /\ newresults' = [newresults EXCEPT ![t] = FALSE]

(* "Testing [...]" is printed, under print_mutex.                          *)
Announce(t) ==
  /\ pc[t] = "announce"
  /\ results' = [results EXCEPT ![t] = TRUE]
  /\ seed_progress' = 0 /\ midline' = FALSE
  /\ pc' = [pc EXCEPT ![t] = "init"]
  /\ UNCHANGED <<run, seed, last, fails, newresults, sync, tried>>

Decremented == IF threads_remaining = 0 THEN UintMax ELSE threads_remaining - 1

(* Mutant: the count is looked at before it is decremented.                *)
Initialized_postfix(t) ==
  /\ pc[t] = "init"
  /\ progress_mutex = "free"
  /\ threads_remaining' = Decremented
  /\ main' = IF threads_remaining = 0 /\ main = "asleep" THEN "woken" ELSE main
  /\ pc' = [pc EXCEPT ![t] = "progress"]
  /\ UNCHANGED <<hi, i, result, newresult, known, verdict, seed, last, fails, results,
                 newresults, out, progress_mutex, tried>>

(* The last thread to get here wakes the main thread, if it sleeps.        *)
Initialized(t) ==
  /\ pc[t] = "init"
  /\ progress_mutex = "free"
  /\ threads_remaining' = Decremented
  /\ main' = IF Decremented = 0 /\ main = "asleep" THEN "woken" ELSE main
  /\ pc' = [pc EXCEPT ![t] = "progress"]
  /\ UNCHANGED <<hi, i, result, newresult, known, verdict, seed, last, fails, results,
                 newresults, out, progress_mutex, tried>>

(* Now and then the seed is printed, under both mutexes.                   *)
Progress(t) ==
  /\ pc[t] = "progress"
  /\ IF seed[t] % ProgressEvery = ProgressEvery-1
     THEN /\ progress_mutex = "free"
          /\ seed_progress' = (seed_progress + 1) % progress_nl_every
          /\ midline' = ((seed_progress + 1) % progress_nl_every # 0)
     ELSE UNCHANGED out
  /\ pc' = [pc EXCEPT ![t] = "collide"]
  /\ UNCHANGED <<run, seed, last, fails, results, newresults, sync, tried>>

Tried(s) == tried' = [tried EXCEPT ![s] = IF @ = 0 THEN 1 ELSE 2]

(* A report starts a new line if there was progress on the last one.       *)
Report == seed_progress' = 0 /\ midline' = FALSE

Found(t) ==
  /\ fails' = [fails EXCEPT ![t] = @ + 1]
  /\ newresults' = [newresults EXCEPT ![t] = @ \/ seed[t] \notin badseeds]

(* Mutant: the count of progress reports is left as it was.                *)
Collide_keeping_progress(t) ==
  /\ pc[t] = "collide"
  /\ Tried(seed[t])
  /\ \/ /\ seed[t] \notin Bad
        /\ pc' = [pc EXCEPT ![t] = "zero"]
        /\ UNCHANGED <<run, fails, newresults, out>>
     \/ /\ seed[t] \in Bad /\ fails[t] < MaxFails
        /\ midline' = FALSE /\ UNCHANGED seed_progress
        /\ Found(t)
        /\ pc' = [pc EXCEPT ![t] = "zero"]
        /\ UNCHANGED run
  /\ UNCHANGED <<seed, last, results, sync>>

(***************************************************************************)
(* The test keys are hashed under the seed. If any collide it is reported; *)
(* one bad seed too many ends the program, or the share of a single thread.*)
(***************************************************************************)
Collide(t) ==
  /\ pc[t] = "collide"
  /\ Tried(seed[t])
  /\ \/ /\ seed[t] \notin Bad
        /\ pc' = [pc EXCEPT ![t] = "zero"]
        /\ UNCHANGED <<run, fails, newresults, out>>
     \/ /\ seed[t] \in Bad /\ Report
        /\ \/ /\ fails[t] < MaxFails
              /\ Found(t)
              /\ pc' = [pc EXCEPT ![t] = "zero"]
              /\ UNCHANGED run
           \/ /\ fails[t] >= MaxFails
              /\ fails' = [fails EXCEPT ![t] = @ + 1]
              /\ IF g_NCPU > 1
                 THEN main' = "exited" /\ UNCHANGED pc
                 ELSE pc' = [pc EXCEPT ![t] = "done"] /\ UNCHANGED main
              /\ UNCHANGED <<hi, i, result, newresult, known, verdict, newresults>>
  /\ UNCHANGED <<seed, last, results, sync>>

(* Mutant: the loop goes on while the next seed is not past the last one.  *)
Advance_comparing(t) ==
  /\ seed' = [seed EXCEPT ![t] = (@ + 1) % U64]
  /\ pc' = [pc EXCEPT ![t] = IF seed'[t] <= last[t] THEN "progress" ELSE "done"]

Advance(t) ==
  /\ seed' = [seed EXCEPT ![t] = (@ + 1) % U64]
  /\ pc' = [pc EXCEPT ![t] = IF seed[t] # last[t] THEN "progress" ELSE "done"]

(* Mutant: a broken seed is never a new one.                               *)
CheckZero_known(t) ==
  /\ pc[t] = "zero"
  /\ IF seed[t] \in Broken
     THEN Report /\ fails' = [fails EXCEPT ![t] = @ + 1]
     ELSE UNCHANGED <<out, fails>>
  /\ results' = [results EXCEPT ![t] = @ /\ seed[t] \notin Faulty]
  /\ Advance(t)
  /\ UNCHANGED <<run, last, newresults, sync, tried>>

(* The least of the hashes, sorted by now, is 0: this too is reported.     *)
CheckZero(t) ==
  /\ pc[t] = "zero"
  /\ IF seed[t] \in Broken THEN Report /\ Found(t) ELSE UNCHANGED <<out, fails, newresults>>
  /\ results' = [results EXCEPT ![t] = @ /\ seed[t] \notin Faulty]
  /\ Advance(t)
  /\ UNCHANGED <<run, last, sync, tried>>

TestSeedRangeThread(t) ==
  /\ Running /\ t \in Threads
  /\ UNCHANGED setup
  /\ Announce(t) \/ Initialized(t) \/ Progress(t) \/ Collide(t) \/ CheckZero(t)

-----------------------------------------------------------------------------
(* BadSeedsKnown(): each seed of the list is tried, least first. One that  *)
(* a 32-bit hash cannot take is skipped.                                   *)
TestSingleSeed ==
  LET s == Min(known)
  IN  /\ main = "known" /\ known # {}
      /\ known' = known \ {s}
      /\ IF is32BitSeed /\ s \notin Low
         THEN UNCHANGED result
         ELSE result' = (result /\ s \notin Faulty)
      /\ UNCHANGED <<main, hi, i, newresult, verdict, thread, out, sync, tried>>

(* Mutant: a hash that is described is tested as if nothing were said.      *)
Search_undescribed ==
  IF setup.mock \/ ~setup.find_new_seeds THEN main' = "report" /\ UNCHANGED result
  ELSE main' = "many" /\ UNCHANGED result

(* New bad seeds are found, but not of mocks; if they are not to be found, *)
(* a description of the bad seeds fails the hash.                          *)
Search ==
  IF setup.mock \/ ~setup.find_new_seeds
  THEN main' = "report" /\ result' = (result /\ (setup.mock \/ ~setup.described))
  ELSE main' = "many" /\ UNCHANGED result

BadSeedsFind ==
  /\ main = "known" /\ known = {}
  /\ Search
  /\ UNCHANGED <<hi, i, newresult, known, verdict, thread, out, sync, tried>>

(* TestManySeeds(), for the range from hi on.                              *)
TestManySeeds ==
  /\ main = "many"
  /\ seed_progress' = 0 /\ UNCHANGED midline
  /\ IF g_NCPU = 1
     THEN main' = "call" /\ Begin(0) /\ UNCHANGED <<i, sync>>
     ELSE /\ main' = "spawn" /\ i' = 0
          /\ threads_remaining' = g_NCPU /\ progress_mutex' = "main"
          /\ UNCHANGED thread
  /\ UNCHANGED <<hi, result, newresult, known, verdict, tried>>

Spawn ==
  /\ main = "spawn"
  /\ Begin(i)
  /\ IF i + 1 < g_NCPU
     THEN i' = i + 1 /\ UNCHANGED main
     ELSE i' = 0 /\ main' = "wait"
  /\ UNCHANGED <<hi, result, newresult, known, verdict, out, sync, tried>>

(* Mutant: what it waits for is not looked at again when it is woken.      *)
Wait_trusting ==
  /\ \/ main = "wait" /\ main' = IF threads_remaining = 0 THEN "join" ELSE "asleep"
     \/ main = "woken" /\ progress_mutex = "free" /\ main' = "join"
  /\ progress_mutex' = "free"
  /\ UNCHANGED <<hi, i, result, newresult, known, verdict, thread, out,
                 threads_remaining, tried>>

(* Waiting releases progress_mutex; on waking it is taken again, and then  *)
(* released one way or the other.                                          *)
Wait ==
  /\ \/ main = "wait"
     \/ main = "woken" /\ progress_mutex = "free"
  /\ main' = IF threads_remaining = 0 THEN "join" ELSE "asleep"
  /\ progress_mutex' = "free"
  /\ UNCHANGED <<hi, i, result, newresult, known, verdict, thread, out,
                 threads_remaining, tried>>

(* A condition variable may wake a thread for no reason.                   *)
SpuriousWakeup ==
  /\ main = "asleep" /\ main' = "woken"
  /\ UNCHANGED <<hi, i, result, newresult, known, verdict, thread, out, sync, tried>>

Join ==
  /\ main = "join" /\ pc[i] = "done"
  /\ IF i + 1 < g_NCPU
     THEN i' = i + 1 /\ UNCHANGED main
     ELSE i' = 0 /\ main' = "collect"
  /\ UNCHANGED <<hi, result, newresult, known, verdict, thread, out, sync, tried>>

Return ==
  /\ main = "call" /\ pc[0] = "done"
  /\ main' = "collect"
  /\ UNCHANGED <<hi, i, result, newresult, known, verdict, thread, out, sync, tried>>

(* Mutant: the result of this range replaces that of the seeds before it.  *)
Collect_afresh ==
  /\ main = "collect"
  /\ result' = \A t \in Threads : results[t]
  /\ newresult' = (newresult \/ \E t \in Threads : newresults[t])
  /\ midline' = FALSE
  /\ IF hi = 0 /\ ~is32BitSeed
     THEN main' = "many" /\ hi' = LastRange
     ELSE main' = "report" /\ UNCHANGED hi
  /\ UNCHANGED <<i, known, verdict, thread, seed_progress, sync, tried>>

(* The threads' results, and the next range if there is one.               *)
Collect ==
  /\ main = "collect"
  /\ result' = (result /\ \A t \in Threads : results[t])
  /\ newresult' = (newresult \/ \E t \in Threads : newresults[t])
  /\ midline' = FALSE
  /\ IF hi = 0 /\ ~is32BitSeed
     THEN main' = "many" /\ hi' = LastRange
     ELSE main' = "report" /\ UNCHANGED hi
  /\ UNCHANGED <<i, known, verdict, thread, seed_progress, sync, tried>>

BadSeedsTest ==
  /\ main = "report"
  /\ verdict' = IF result THEN "pass" ELSE "fail"
  /\ main' = "done"
  /\ UNCHANGED <<hi, i, result, newresult, known, thread, out, sync, tried>>

Main ==
  /\ UNCHANGED setup
  /\ \/ TestSingleSeed \/ BadSeedsFind
     \/ TestManySeeds \/ Spawn \/ Wait \/ Join \/ Return \/ Collect
     \/ BadSeedsTest

Next ==
  \/ Main
  \/ SpuriousWakeup /\ UNCHANGED setup
  \/ \E t \in Threads : TestSeedRangeThread(t)

(* The operating system runs every thread; nothing is owed to a spurious   *)
(* wakeup. A mutex that stays free is got, as none is kept forever.        *)
Fairness == WF_vars(Main) /\ \A t \in AllThreads : WF_vars(TestSeedRangeThread(t))

Spec == Init /\ [][Next]_vars /\ Fairness

-----------------------------------------------------------------------------
(* The ranges to search, and their seeds.                                  *)
Ranges ==
  IF setup.short \/ setup.mock \/ ~setup.find_new_seeds THEN {}
  ELSE IF is32BitSeed THEN {Low} ELSE {Low, LastRange .. U64-1}
Searched == UNION Ranges

(* In no range are there enough bad seeds for a thread to give up.         *)
NoneGivenUp ==
  \A r \in Ranges : Cardinality(r \cap Bad) + Cardinality(r \cap Broken) <= MaxFails

(***************************************************************************)
(* The shares tile the ranges: no seed is tried twice, and at the end none *)
(* was left out, to the last one of all, after which there is no number -  *)
(* unless a share was given up - and no other was tried.                   *)
(***************************************************************************)
ScannedOnce ==
  /\ \A s \in Seeds : tried[s] <= IF s \in Searched THEN 1 ELSE 0
  /\ main = "done" /\ NoneGivenUp => \A s \in Searched : tried[s] = 1

(* The seeds of a thread's share, in the range it last worked on.          *)
Share(t) == last[t] - end(t) + start(t) .. last[t]

(* A thread's count, on which giving up depends, is that of the bad seeds  *)
(* of its present share: a seed both bad and broken counts twice, and none *)
(* is carried over from the range before.                                  *)
FailsCounted ==
  \A t \in Threads : pc[t] # "idle" =>
    fails[t] = Cardinality({s \in Share(t) \cap Bad : tried[s] > 0})
                 + Cardinality({s \in Share(t) \cap Broken : tried[s] > 0 /\ s # seed[t]})

(* The main thread goes on to join the threads only when each of them has  *)
(* announced its share.                                                    *)
AllAnnounced ==
  main = "join" => \A t \in Threads : pc[t] \notin {"idle", "announce", "init"}

(* seed_progress, shared by all threads, tells whether the output's last   *)
(* line is unfinished: a report then starts a new line.                    *)
ProgressColumn == Running => (seed_progress # 0 <=> midline)

(* "If no new bad seed is found, then newresult must be left unchanged."   *)
(* And it is set if one is found, by whichever thread, in either range.    *)
NewReported ==
  main \in {"report", "done"} /\ NoneGivenUp =>
    (newresult <=> \E s \in Searched \cap Faulty : s \notin badseeds)

(* The test ends, by its verdict or by giving up.                          *)
Terminates == <>(main \in {"done", "exited"})

Listed == {s \in badseeds : is32BitSeed => s \in Low}

Promise == INSTANCE SeedSearch WITH
  Targets <- Listed \cup Searched,
  condemned <- setup.described /\ ~setup.mock /\ ~setup.find_new_seeds,
  tried <- (Listed \ known) \cup {s \in Seeds : tried[s] > 0}

(***************************************************************************)
(* A hash passes only if every seed was tried and is good, and fails only  *)
(* over a bad seed that was tried, or over the description of them.        *)
(***************************************************************************)
ImplementsSeedSearch == Promise!Spec

=============================================================================
