---------------------------- MODULE BadSeedsProofs ----------------------------
(***************************************************************************)
(* For every number of seeds, threads and setups of BadSeeds: the shares   *)
(* tile the ranges, the handshake counts the threads, each thread counts   *)
(* its own bad seeds, and the verdict is that of the seeds.                *)
(***************************************************************************)
EXTENDS BadSeeds, Modular, FiniteSetTheorems, TLAPS

-----------------------------------------------------------------------------
(* The shares.                                                             *)

LEMMA Sizes ==
  /\ U32 \in Nat /\ U32 > 1 /\ U64 \in Nat /\ LastRange \in Nat
  /\ LastRange >= U32 /\ LastRange + U32 = U64
<1>1. U32 * U32 >= 2 * U32 /\ U32 * U32 \in Nat
  BY SizesAssumption
<1> QED
  BY <1>1, SizesAssumption DEF LastRange

LEMMA SetupFields ==
  ASSUME setup \in Setups
  PROVE  /\ g_NCPU \in 1 .. U32 /\ MaxFails \in Nat \ {0}
         /\ badseeds \subseteq Seeds /\ Bad \subseteq Seeds /\ Broken \subseteq Seeds
         /\ is32BitSeed \in BOOLEAN
BY SizesAssumption DEF g_NCPU, MaxFails, badseeds, Bad, Broken, is32BitSeed

(* A share begins where t shares of len begin and has a seed at least.     *)
LEMMA ShareBounds ==
  ASSUME setup \in Setups, NEW t \in Threads
  PROVE  /\ len \in Nat \ {0} /\ g_NCPU * len <= U32
         /\ start(t) = t * len /\ start(t) \in Nat
         /\ end(t) \in Nat /\ start(t) <= end(t) /\ end(t) < U32
<1>1. g_NCPU \in Nat /\ g_NCPU > 0 /\ g_NCPU <= U32 /\ U32 \in Nat
  BY SetupFields, Sizes
<1>2. /\ U32 = g_NCPU * len + (U32 % g_NCPU)
      /\ U32 % g_NCPU \in 0 .. g_NCPU-1 /\ len \in Int
  BY <1>1, DivMod DEF len
<1>3. len > 0
  <2>1. SUFFICES ASSUME len <= 0 PROVE FALSE
    BY <1>2
  <2>2. g_NCPU * len <= 0
    BY <2>1, <1>1, <1>2
  <2> QED
    BY <2>2, <1>1, <1>2
<1>4. t \in Nat /\ t <= g_NCPU - 1
  BY <1>1 DEF Threads
<1>5. t * len \in Nat /\ t * len + len <= g_NCPU * len
  <2>1. t * len + len = (t + 1) * len
    BY <1>2, <1>4
  <2>2. (t + 1) * len <= g_NCPU * len
    BY <1>1, <1>2, <1>3, <1>4
  <2>3. t * len \in Nat
    BY <1>2, <1>3, <1>4
  <2> QED
    BY <2>1, <2>2, <2>3
<1>6. g_NCPU * len <= U32 /\ g_NCPU * len \in Int
  BY <1>1, <1>2
<1> DEFINE p == t * len
<1>7. p % U32 = p
  <2>1. p \in 0 .. U32-1
    BY <1>1, <1>2, <1>3, <1>5, <1>6
  <2> HIDE DEF p
  <2> QED
    BY <2>1, <1>1, SmallMod, Sizes
<1>8. start(t) = p
  BY <1>7 DEF start
<1> QED
  BY <1>1, <1>2, <1>3, <1>5, <1>6, <1>8 DEF end

LEMMA SharesApart ==
  ASSUME setup \in Setups, NEW t \in Threads, NEW u \in Threads, t < u
  PROVE  end(t) < start(u)
<1>1. /\ len \in Nat \ {0} /\ start(t) = t * len /\ start(u) = u * len
      /\ t \in Nat /\ u \in Nat /\ u < g_NCPU /\ g_NCPU \in Nat
  BY ShareBounds, SetupFields, Sizes DEF Threads
<1>2. end(t) = t * len + (len - 1)
  BY <1>1 DEF end
<1>3. (t + 1) * len <= u * len
  BY <1>1
<1>4. t * len + (len - 1) < u * len
  <2>1. (t + 1) * len = t * len + len /\ t * len \in Int /\ u * len \in Int
    BY <1>1
  <2> QED
    BY <2>1, <1>1, <1>3
<1> QED
  BY <1>1, <1>2, <1>4

LEMMA SharesTile ==
  ASSUME setup \in Setups, NEW x \in Low
  PROVE  \E t \in Threads : x \in start(t) .. end(t)
<1>1. g_NCPU \in Nat /\ g_NCPU > 0 /\ x \in Nat /\ x < U32 /\ U32 \in Nat
  BY SetupFields, Sizes DEF Low
<1>2. 0 \in Threads /\ g_NCPU - 1 \in Threads
  BY <1>1 DEF Threads
<1>3. len \in Nat \ {0}
  BY <1>2, ShareBounds
<1> DEFINE q == x \div len
<1>4. x = len * q + (x % len) /\ x % len \in 0 .. len-1 /\ q \in Nat
  BY <1>1, <1>3, DivMod, DivNat
<1>5. CASE q < g_NCPU - 1
  <2>1. q \in Threads
    BY <1>1, <1>4, <1>5 DEF Threads
  <2>2. start(q) = q * len /\ end(q) = start(q) + (len - 1)
    BY <2>1, <1>5, ShareBounds DEF end
  <2>3. q * len = len * q /\ q * len \in Int
    BY <1>3, <1>4
  <2>4. x \in start(q) .. end(q)
    BY <1>1, <1>3, <1>4, <2>2, <2>3
  <2> QED
    BY <2>1, <2>4
<1>6. CASE q >= g_NCPU - 1
  <2> DEFINE l == g_NCPU - 1
  <2>1. start(l) = l * len /\ end(l) = U32 - 1
    BY <1>1, <1>2, ShareBounds DEF end
  <2>2. l * len <= q * len /\ q * len = len * q /\ l * len \in Int /\ q * len \in Int
    BY <1>1, <1>3, <1>4, <1>6
  <2>3. x \in start(l) .. end(l)
    BY <1>1, <1>4, <2>1, <2>2
  <2> QED
    BY <1>2, <2>3
<1> QED
  BY <1>1, <1>4, <1>5, <1>6
-----------------------------------------------------------------------------
(* The inductive invariant.                                                *)

ThreadStates == {"idle", "announce", "init", "progress", "collide", "zero", "done"}
MainStates == {"known", "many", "spawn", "wait", "asleep", "woken", "call", "join",
               "collect", "report", "done", "exited"}

(* The ranges of the state's variables.                                    *)
TypeOK ==
  /\ setup \in Setups
  /\ main \in MainStates /\ hi \in {0, LastRange} /\ i \in Threads
  /\ result \in BOOLEAN /\ newresult \in BOOLEAN /\ known \subseteq badseeds
  /\ pc \in [Threads -> ThreadStates]
  /\ seed \in [Threads -> Seeds] /\ last \in [Threads -> Seeds]
  /\ fails \in [Threads -> Nat]
  /\ results \in [Threads -> BOOLEAN] /\ newresults \in [Threads -> BOOLEAN]
  /\ threads_remaining \in 0 .. UintMax /\ progress_mutex \in {"free", "main"}
  /\ seed_progress \in Nat /\ midline \in BOOLEAN
  /\ verdict \in {"none", "pass", "fail"}
  /\ tried \in [Seeds -> 0 .. 2]

FindsNew == ~setup.short /\ ~setup.mock /\ setup.find_new_seeds

(* The test's states, with what the setup must be for the main thread to   *)
(* be there.                                                               *)
ModeInv ==
  /\ (main \notin {"known", "report", "done"} \/ hi # 0) => FindsNew
  /\ hi # 0 => ~is32BitSeed
  /\ main \in {"report", "done"} /\ FindsNew /\ ~is32BitSeed => hi # 0
  /\ main = "known" => hi = 0
  /\ main # "known" /\ ~setup.short => known = {}
  /\ setup.short => main = "done"
  /\ main = "call" => g_NCPU = 1
  /\ main \in {"spawn", "wait", "asleep", "woken", "join"} => g_NCPU > 1
  /\ verdict # "none" => main = "done"

(* The threads that the main thread has started on the present range.      *)
Begun(t) == FindsNew /\ main \notin {"known", "many"} /\ (main = "spawn" => t < i)

(* Where the threads are, given where the main thread is.                  *)
PhaseInv ==
  /\ \A t \in Threads :
       IF Begun(t) THEN pc[t] # "idle" /\ last[t] = hi + end(t)
       ELSE IF hi = 0 THEN pc[t] = "idle" ELSE pc[t] = "done" /\ last[t] = end(t)
  /\ main \in {"wait", "asleep", "woken"} => i = 0
  /\ progress_mutex = IF main \in {"spawn", "wait"} THEN "main" ELSE "free"
  /\ main \in {"spawn", "wait"} => \A t \in Threads : Begun(t) => pc[t] \in {"announce", "init"}
  /\ main = "join" => \A t \in Threads : t < i => pc[t] = "done"
  /\ main \in {"collect", "report", "done"} /\ FindsNew => \A t \in Threads : pc[t] = "done"

Unannounced == {t \in Threads : pc[t] \in {"announce", "init"}}

(* The count that the main thread waits for is that of the threads that    *)
(* have not announced their share.                                         *)
HandshakeInv ==
  /\ main = "spawn" => threads_remaining = g_NCPU
  /\ main \in {"wait", "asleep", "woken", "join"} => threads_remaining = Cardinality(Unannounced)
  /\ main = "join" => threads_remaining = 0

ColumnInv ==
  /\ ProgressColumn
  /\ main \in {"known", "many"} => midline = FALSE

(* The seeds of its share that a thread is done with.                      *)
Passed(t) == {s \in Share(t) : tried[s] > 0 /\ s # seed[t]}

(* A thread tries the seeds of its share in order, up to the one it is at, *)
(* and to its last, unless it gives up.                                    *)
Scanned(t) ==
  /\ pc[t] # "done" => seed[t] \in Share(t)
  /\ pc[t] \in {"announce", "init", "progress"} =>
       \A s \in Share(t) : tried[s] = 1 <=> s < seed[t]
  /\ pc[t] = "collide" =>
       /\ \A s \in Share(t) : s # seed[t] => (tried[s] = 1 <=> s < seed[t])
       /\ main # "exited" => tried[seed[t]] = 0
  /\ pc[t] = "zero" => \A s \in Share(t) : tried[s] = 1 <=> s <= seed[t]
  /\ pc[t] = "done" =>
       \/ seed[t] = (last[t] + 1) % U64 /\ \A s \in Share(t) : tried[s] = 1
       \/ seed[t] \in Share(t) /\ fails[t] > MaxFails

CountedFails(t) ==
  Cardinality({s \in Share(t) \cap Bad : tried[s] > 0})
    + Cardinality({s \in Share(t) \cap Broken : tried[s] > 0 /\ s # seed[t]})

(* What a thread has put into its flags is right of the seeds it has tried.*)
Noted(t) ==
  /\ fails[t] = CountedFails(t)
  /\ pc[t] \in {"announce", "init"} => seed[t] = last[t] - end(t) + start(t)
  /\ pc[t] # "announce" => (results[t] <=> Passed(t) \cap Faulty = {})
  /\ fails[t] <= MaxFails =>
       (newresults[t] <=> \E s \in Share(t) \ badseeds :
          tried[s] > 0 /\ (s \in Bad \/ (s \in Broken /\ s # seed[t])))

ThreadInv(t) == pc[t] # "idle" => Scanned(t) /\ Noted(t)

(* No seed is tried twice, and none is that no thread has come to.         *)
TriedInv ==
  \A s \in Seeds :
    /\ tried[s] \in {0, 1}
    /\ tried[s] # 0 => (hi # 0 /\ s \in Low) \/ \E t \in Threads : Begun(t) /\ s \in Share(t)

(* The seeds of the ranges that are done with.                             *)
Present == hi .. hi + U32 - 1
Over == (IF hi # 0 THEN Low ELSE {})
          \cup (IF main \in {"report", "done"} /\ FindsNew THEN Present ELSE {})

Condemned == setup.described /\ ~setup.mock /\ ~setup.find_new_seeds

(* The results so far are right of the list and of the ranges done with.   *)
ResultInv ==
  /\ NoneGivenUp \/ result => \A s \in Over : tried[s] = 1
  /\ NoneGivenUp => (newresult <=> \E s \in Over \cap Faulty : s \notin badseeds)
  /\ result => \A s \in Over : s \notin Faulty
  /\ result => (Listed \ known) \cap Faulty = {}
  /\ ~result => \/ \E s \in Faulty \cap Seeds : s \in Listed \ known \/ tried[s] > 0
                \/ Condemned /\ main \in {"report", "done"}
  /\ Condemned /\ main \in {"report", "done"} /\ ~setup.short => ~result

Inv ==
  /\ TypeOK /\ ModeInv /\ PhaseInv /\ HandshakeInv /\ ColumnInv
  /\ \A t \in Threads : ThreadInv(t)
  /\ TriedInv /\ ResultInv
-----------------------------------------------------------------------------
(* Lemmas about steps.                                                     *)

LEMMA SetupKept ==
  ASSUME setup' = setup
  PROVE  /\ g_NCPU' = g_NCPU /\ MaxFails' = MaxFails /\ is32BitSeed' = is32BitSeed
         /\ badseeds' = badseeds /\ Bad' = Bad /\ Broken' = Broken /\ Faulty' = Faulty
         /\ Threads' = Threads /\ len' = len
         /\ FindsNew' = FindsNew /\ Condemned' = Condemned
         /\ Ranges' = Ranges /\ Searched' = Searched /\ NoneGivenUp' = NoneGivenUp
         /\ Listed' = Listed
         /\ \A t : start(t)' = start(t) /\ end(t)' = end(t)
BY DEF g_NCPU, MaxFails, is32BitSeed, badseeds, Bad, Broken, Faulty, Threads, len, FindsNew,
       Condemned, Ranges, Searched, NoneGivenUp, Listed, start, end

(* What is the same of every step of a thread.                             *)
LEMMA ThreadEffect ==
  ASSUME TypeOK, NEW t \in Threads, TestSeedRangeThread(t)
  PROVE  /\ UNCHANGED <<setup, hi, i, result, newresult, known, verdict, last, progress_mutex>>
         /\ Running
         /\ main' \in {main, "exited"} \/ (main = "asleep" /\ main' = "woken")
         /\ pc[t] \notin {"idle", "done"} /\ pc' \in [Threads -> ThreadStates] /\ pc'[t] # "idle"
         /\ pc[t] \in {"announce", "init"} /\ progress_mutex = "main" =>
              pc'[t] \in {"announce", "init"} /\ main' = main
         /\ \A u \in Threads : u # t =>
              /\ pc'[u] = pc[u] /\ seed'[u] = seed[u] /\ fails'[u] = fails[u]
              /\ results'[u] = results[u] /\ newresults'[u] = newresults[u]
         /\ \A s \in Seeds : s # seed[t] => tried'[s] = tried[s]
<1> USE DEF TypeOK, ThreadStates, TestSeedRangeThread, run, sync, out
<1>1. CASE Announce(t)
  BY <1>1 DEF Announce
<1>2. CASE Initialized(t)
  BY <1>2 DEF Initialized
<1>3. CASE Progress(t)
  BY <1>3 DEF Progress
<1>4. CASE Collide(t)
  BY <1>4 DEF Collide, Found, Report, Tried
<1>5. CASE CheckZero(t)
  BY <1>5 DEF CheckZero, Found, Report, Advance
<1> QED
  BY <1>1, <1>2, <1>3, <1>4, <1>5

-----------------------------------------------------------------------------
LEMMA TypeInit == Init => TypeOK
<1> SUFFICES ASSUME Init PROVE TypeOK
  OBVIOUS
<1>1. 0 \in Threads /\ 0 \in Seeds
  BY SetupFields, Sizes DEF Init, Threads, Seeds
<1>2. main \in MainStates /\ hi \in {0, LastRange} /\ known \subseteq badseeds
  BY DEF Init, MainStates
<1>3. threads_remaining \in 0 .. UintMax /\ tried \in [Seeds -> 0 .. 2]
  BY SizesAssumption DEF Init
<1>4. /\ results \in [Threads -> BOOLEAN] /\ newresults \in [Threads -> BOOLEAN]
      /\ pc \in [Threads -> ThreadStates]
  BY DEF Init, ThreadStates
<1> QED
  BY <1>1, <1>2, <1>3, <1>4 DEF Init, TypeOK

LEMMA SharesInSeeds ==
  ASSUME setup \in Setups, NEW t \in Threads, NEW b \in {0, LastRange}
  PROVE  b + start(t) \in Seeds /\ b + end(t) \in Seeds
BY ShareBounds, Sizes DEF Seeds

LEMMA TypeStep == TypeOK /\ PhaseInv /\ [Next]_vars => TypeOK'
<1> SUFFICES ASSUME TypeOK, PhaseInv, [Next]_vars PROVE TypeOK'
  OBVIOUS
<1>1. CASE Main
  <2>0. setup' = setup /\ Threads' = Threads /\ badseeds' = badseeds /\ setup \in Setups
    BY <1>1, SetupKept DEF Main, TypeOK
  <2>1. /\ \A n \in Threads : n + 1 < g_NCPU => n + 1 \in Threads
        /\ 0 \in Threads /\ g_NCPU \in 0 .. UintMax
    BY <2>0, SetupFields, Sizes, SizesAssumption DEF Threads
  <2>2. \A t \in Threads : hi + start(t) \in Seeds /\ hi + end(t) \in Seeds
    BY SharesInSeeds DEF TypeOK
  <2> USE DEF TypeOK, MainStates, ThreadStates, thread, out, sync
  <2>3. CASE TestSingleSeed
    BY <2>0, <2>3 DEF TestSingleSeed
  <2>4. CASE BadSeedsFind
    <3>1. setup.mock \in BOOLEAN /\ setup.described \in BOOLEAN
      BY SizesAssumption
    <3> QED
      BY <2>0, <2>4, <3>1 DEF BadSeedsFind, Search
  <2>5. CASE TestManySeeds
    <3>1. CASE g_NCPU = 1
      <4>1. Begin(0) /\ main' = "call" /\ UNCHANGED <<i, sync>>
        BY <2>5, <3>1 DEF TestManySeeds
      <4>2. /\ pc' \in [Threads -> ThreadStates] /\ fails' \in [Threads -> Nat]
            /\ results' \in [Threads -> BOOLEAN] /\ newresults' \in [Threads -> BOOLEAN]
        BY <4>1 DEF Begin
      <4>3. seed' \in [Threads -> Seeds] /\ last' \in [Threads -> Seeds]
        BY <2>1, <2>2, <4>1 DEF Begin
      <4> QED
        BY <2>0, <2>5, <4>1, <4>2, <4>3 DEF TestManySeeds
    <3>2. CASE g_NCPU # 1
      BY <2>0, <2>1, <2>5, <3>2 DEF TestManySeeds
    <3> QED
      BY <3>1, <3>2
  <2>6. CASE Spawn
    BY <2>0, <2>1, <2>2, <2>6 DEF Spawn, Begin
  <2>7. CASE Wait
    BY <2>0, <2>7 DEF Wait
  <2>8. CASE Join
    BY <2>0, <2>1, <2>8 DEF Join
  <2>9. CASE Return
    BY <2>0, <2>9 DEF Return
  <2>10. CASE Collect
    BY <2>0, <2>10 DEF Collect
  <2>11. CASE BadSeedsTest
    BY <2>0, <2>11 DEF BadSeedsTest
  <2> QED
    BY <1>1, <2>3, <2>4, <2>5, <2>6, <2>7, <2>8, <2>9, <2>10, <2>11 DEF Main
<1>2. CASE SpuriousWakeup /\ UNCHANGED setup
  BY <1>2, SetupKept DEF SpuriousWakeup, TypeOK, MainStates, thread, out, sync
<1>3. ASSUME NEW t \in Threads, TestSeedRangeThread(t) PROVE TypeOK'
  <2>0. setup' = setup /\ Threads' = Threads /\ badseeds' = badseeds /\ setup \in Setups
    BY <1>3, SetupKept DEF TestSeedRangeThread, TypeOK
  <2>1. 0 \in Seeds /\ UintMax \in Nat /\ progress_nl_every \in Nat \ {0}
    BY Sizes, SizesAssumption DEF Seeds
  <2>2. Decremented \in 0 .. UintMax
    BY <2>1 DEF Decremented, TypeOK
  <2>3. (seed[t] + 1) % U64 \in Seeds
    BY Sizes, DivMod DEF TypeOK, Seeds
  <2>4. (seed_progress + 1) % progress_nl_every \in Nat
    BY <2>1, DivMod DEF TypeOK
  <2> USE DEF TypeOK, MainStates, ThreadStates, run, sync, out
  <2>5. CASE Announce(t)
    BY <2>0, <2>5 DEF Announce
  <2>6. CASE Initialized(t)
    BY <2>0, <2>2, <2>6 DEF Initialized
  <2>7. CASE Progress(t)
    BY <2>0, <2>4, <2>7 DEF Progress
  <2>8. CASE Collide(t)
    <3>1. tried' \in [Seeds -> 0 .. 2]
      BY <2>8 DEF Collide, Tried
    <3>2. seed_progress' \in Nat
      BY <2>8 DEF Collide, Report
    <3>7. midline' \in BOOLEAN
      BY <2>8, Zenon DEF Collide, Report
    <3>4. pc' \in [Threads -> ThreadStates] /\ main' \in MainStates
      BY <2>8 DEF Collide
    <3>5. fails' \in [Threads -> Nat]
      BY <2>8 DEF Collide, Found
    <3>6. newresults' \in [Threads -> BOOLEAN]
      BY <2>8 DEF Collide, Found
    <3>3. UNCHANGED <<hi, i, result, newresult, known, verdict, seed, last, results, sync>>
      BY <2>8 DEF Collide
    <3> QED
      BY <2>0, <3>1, <3>2, <3>3, <3>4, <3>5, <3>6, <3>7
  <2>9. CASE CheckZero(t)
    <3>1. seed_progress' \in Nat
      BY <2>9 DEF CheckZero, Report
    <3>7. midline' \in BOOLEAN
      BY <2>9, Zenon DEF CheckZero, Report
    <3>2. fails' \in [Threads -> Nat]
      BY <2>9 DEF CheckZero, Found
    <3>6. newresults' \in [Threads -> BOOLEAN]
      BY <2>9 DEF CheckZero, Found
    <3>3. results' \in [Threads -> BOOLEAN]
      BY <2>9 DEF CheckZero
    <3>4. seed' \in [Threads -> Seeds] /\ pc' \in [Threads -> ThreadStates]
      BY <2>3, <2>9 DEF CheckZero, Advance
    <3>5. UNCHANGED <<run, last, sync, tried>>
      BY <2>9 DEF CheckZero
    <3> QED
      BY <2>0, <3>1, <3>2, <3>3, <3>4, <3>5, <3>6, <3>7
  <2> QED
    BY <1>3, <2>5, <2>6, <2>7, <2>8, <2>9 DEF TestSeedRangeThread
<1>4. CASE UNCHANGED vars
  BY <1>4, SetupKept DEF vars, TypeOK, run, thread, out, sync
<1> QED
  BY <1>1, <1>2, <1>3, <1>4 DEF Next

-----------------------------------------------------------------------------
(* The shares of the threads in a state.                                   *)

LEMMA ShareFacts ==
  ASSUME TypeOK, PhaseInv, NEW t \in Threads, pc[t] # "idle"
  PROVE  \E b \in {0, LastRange} :
           /\ Share(t) = b + start(t) .. b + end(t) /\ last[t] = b + end(t)
           /\ b + start(t) \in Nat /\ b + start(t) <= b + end(t) /\ b + end(t) < b + U32
           /\ IF Begun(t) THEN b = hi ELSE b = 0 /\ hi # 0
<1> DEFINE b == IF Begun(t) THEN hi ELSE 0
<1>1. b \in {0, LastRange} /\ last[t] = b + end(t) /\ (IF Begun(t) THEN b = hi ELSE b = 0 /\ hi # 0)
  BY ShareBounds DEF TypeOK, PhaseInv
<1>2. b \in Nat
  BY <1>1, Sizes
<1>3. Share(t) = b + start(t) .. b + end(t)
  BY <1>1, <1>2, ShareBounds DEF Share, TypeOK
<1> HIDE DEF b
<1>4. b + start(t) \in Nat /\ b + start(t) <= b + end(t) /\ b + end(t) < b + U32
  BY <1>2, ShareBounds, Sizes DEF TypeOK
<1> QED
  BY <1>1, <1>3, <1>4

LEMMA ShareInSeeds ==
  ASSUME TypeOK, PhaseInv, NEW t \in Threads, pc[t] # "idle"
  PROVE  /\ Share(t) \subseteq Seeds /\ last[t] \in Share(t) /\ IsFiniteSet(Share(t))
         /\ \A s \in Share(t) : s \in Nat /\ s <= last[t]
<1>1. PICK b \in {0, LastRange} :
        /\ Share(t) = b + start(t) .. b + end(t) /\ last[t] = b + end(t)
        /\ b + start(t) \in Nat /\ b + start(t) <= b + end(t) /\ b + end(t) < b + U32
  BY ShareFacts
<1>2. b + start(t) \in Int /\ b + end(t) \in Int /\ b + end(t) < U64
  BY <1>1, ShareBounds, Sizes DEF TypeOK
<1>3. IsFiniteSet(b + start(t) .. b + end(t))
  BY <1>2, FS_Interval
<1> QED
  BY <1>1, <1>2, <1>3, Sizes DEF Seeds

(* No two threads have the same seed, not even one that works on the last  *)
(* range and one that is still done with the first.                        *)
LEMMA SharesDisjoint ==
  ASSUME TypeOK, PhaseInv, NEW t \in Threads, Begun(t), pc[t] # "idle",
         NEW u \in Threads, u # t, pc[u] # "idle"
  PROVE  Share(t) \cap Share(u) = {}
<1>1. PICK b \in {0, LastRange} :
        Share(t) = b + start(t) .. b + end(t) /\ b = hi /\ b + start(t) \in Nat
  BY ShareFacts
<1>2. PICK c \in {0, LastRange} :
        /\ Share(u) = c + start(u) .. c + end(u) /\ c + start(u) \in Nat
        /\ c + end(u) < c + U32
        /\ IF Begun(u) THEN c = hi ELSE c = 0 /\ hi # 0
  BY ShareFacts
<1>3. /\ start(t) \in Nat /\ end(t) \in Nat /\ start(u) \in Nat /\ end(u) \in Nat
      /\ t \in Int /\ u \in Int /\ b \in Nat /\ c \in Nat
  BY ShareBounds, Sizes, SetupFields DEF TypeOK, Threads
<1>4. CASE b = c
  <2>1. t < u \/ u < t
    BY <1>3
  <2>2. end(t) < start(u) \/ end(u) < start(t)
    BY <2>1, SharesApart DEF TypeOK
  <2> QED
    BY <1>1, <1>2, <1>3, <1>4, <2>2
<1>5. CASE b # c
  <2>1. b = LastRange /\ c = 0
    BY <1>1, <1>2, <1>5
  <2> QED
    BY <1>1, <1>2, <1>3, <2>1, Sizes
<1> QED
  BY <1>4, <1>5

(* The number after a seed of a share is not one that the thread has tried,*)
(* though it is 0 after the last seed of all.                              *)
LEMMA NextSeed ==
  ASSUME TypeOK, PhaseInv, NEW t \in Threads, pc[t] # "idle", NEW x \in Share(t)
  PROVE  /\ \A s \in Share(t) : s <= x => s # (x + 1) % U64
         /\ x # last[t] => (x + 1) % U64 = x + 1 /\ x + 1 \in Share(t)
<1>1. PICK b \in {0, LastRange} :
        /\ Share(t) = b + start(t) .. b + end(t) /\ last[t] = b + end(t)
        /\ b + start(t) \in Nat /\ b + start(t) <= b + end(t) /\ b + end(t) < b + U32
  BY ShareFacts
<1>2. start(t) \in Nat /\ end(t) \in Nat /\ x \in Nat /\ x <= b + end(t) /\ b \in Nat
  BY <1>1, ShareBounds, Sizes DEF TypeOK
<1>3. CASE x + 1 < U64
  <2>1. (x + 1) % U64 = x + 1
    BY <1>2, <1>3, SmallMod, Sizes
  <2> QED
    BY <1>1, <1>2, <2>1
<1>4. CASE x + 1 >= U64
  <2>1. x + 1 = U64 /\ x = b + end(t) /\ b = LastRange
    BY <1>1, <1>2, <1>4, Sizes
  <2>2. (x + 1) % U64 = 0
    BY <2>1, Sizes, DivModUnique
  <2>3. \A s \in Share(t) : s > 0
    BY <1>1, <1>2, <2>1, Sizes
  <2> QED
    BY <1>1, <2>1, <2>2, <2>3
<1> QED
  BY <1>2, <1>3, <1>4, Sizes

LEMMA ShareKept ==
  ASSUME setup' = setup, NEW t, last'[t] = last[t]
  PROVE  Share(t)' = Share(t)
BY SetupKept DEF Share

(* A thread that does nothing and whose seeds no one tries is as it was.   *)
LEMMA ThreadKept ==
  ASSUME setup' = setup, NEW t \in Threads, ThreadInv(t),
         pc'[t] = pc[t], seed'[t] = seed[t], last'[t] = last[t], fails'[t] = fails[t],
         results'[t] = results[t], newresults'[t] = newresults[t],
         \A s \in Share(t) : tried'[s] = tried[s],
         main = "exited" => main' = "exited"
  PROVE  ThreadInv(t)'
<1>1. Share(t)' = Share(t)
  BY ShareKept
<1>2. /\ Bad' = Bad /\ Broken' = Broken /\ Faulty' = Faulty /\ badseeds' = badseeds
      /\ MaxFails' = MaxFails /\ start(t)' = start(t) /\ end(t)' = end(t)
  BY SetupKept
<1> SUFFICES ASSUME pc[t] # "idle" PROVE Scanned(t)' /\ Noted(t)'
  BY DEF ThreadInv
<1>3. Scanned(t)'
  BY <1>1, <1>2 DEF ThreadInv, Scanned
<1>4. CountedFails(t)' = CountedFails(t) /\ Passed(t)' = Passed(t)
  <2>1. /\ \A X : {s \in Share(t)' \cap X : tried'[s] > 0} = {s \in Share(t) \cap X : tried[s] > 0}
        /\ \A X : {s \in Share(t)' \cap X : tried'[s] > 0 /\ s # seed'[t]}
                    = {s \in Share(t) \cap X : tried[s] > 0 /\ s # seed[t]}
        /\ {s \in Share(t)' : tried'[s] > 0 /\ s # seed'[t]}
             = {s \in Share(t) : tried[s] > 0 /\ s # seed[t]}
    BY <1>1
  <2> QED
    BY <1>2, <2>1 DEF CountedFails, Passed
<1>5. Noted(t)'
  BY <1>1, <1>2, <1>4 DEF ThreadInv, Noted
<1> QED
  BY <1>3, <1>5

-----------------------------------------------------------------------------
(* A thread's own steps.                                                   *)

(* Every seed that is tried for the first time counts once for each way in *)
(* which it is bad.                                                        *)
LEMMA CountAnother ==
  ASSUME NEW S, IsFiniteSet(S), NEW x, x \notin S
  PROVE  Cardinality(S \cup {x}) = Cardinality(S) + 1 /\ Cardinality(S) \in Nat
BY FS_AddElement, FS_CardinalityType

LEMMA ThreadOwnQuiet ==
  ASSUME TypeOK, PhaseInv, TriedInv, NEW t \in Threads, ThreadInv(t), setup' = setup,
         Announce(t) \/ Initialized(t) \/ Progress(t), main # "exited"
  PROVE  ThreadInv(t)'
<1>1. Share(t)' = Share(t)
  BY ShareKept DEF Announce, Initialized, Progress
<1>2. /\ Bad' = Bad /\ Broken' = Broken /\ Faulty' = Faulty /\ badseeds' = badseeds
      /\ MaxFails' = MaxFails /\ start(t)' = start(t) /\ end(t)' = end(t)
  BY SetupKept
<1>3. UNCHANGED <<seed, last, fails, newresults, tried>>
  BY DEF Announce, Initialized, Progress
<1>4. /\ pc[t] \in {"announce", "init", "progress"}
      /\ pc'[t] = IF pc[t] = "announce" THEN "init"
                  ELSE IF pc[t] = "init" THEN "progress" ELSE "collide"
  BY DEF TypeOK, Announce, Initialized, Progress
<1>5. Scanned(t) /\ Noted(t)
  BY <1>4 DEF ThreadInv
<1>6. Passed(t)' = Passed(t) /\ CountedFails(t)' = CountedFails(t)
  BY <1>1, <1>2, <1>3 DEF Passed, CountedFails
<1>7. \A s \in Share(t) : s \in Seeds /\ tried[s] \in {0, 1} /\ s \in Nat
  BY <1>4, ShareInSeeds DEF TriedInv
<1>8. Scanned(t)'
  <2>1. seed[t] \in Share(t) /\ \A s \in Share(t) : tried[s] = 1 <=> s < seed[t]
    BY <1>4, <1>5 DEF Scanned
  <2>2. tried[seed[t]] = 0
    BY <1>7, <2>1
  <2> QED
    BY <1>1, <1>3, <1>4, <2>1, <2>2 DEF Scanned
<1>9. pc'[t] # "announce" => (results'[t] <=> Passed(t) \cap Faulty = {})
  <2>1. CASE Announce(t)
    <3>1. results'[t] = TRUE
      BY <2>1 DEF Announce, TypeOK
    <3>2. pc[t] = "announce" /\ \A s \in Share(t) : s >= seed[t]
      <4>1. pc[t] = "announce" /\ seed[t] = last[t] - end(t) + start(t)
        BY <2>1, <1>5 DEF Announce, Noted
      <4> QED
        BY <4>1 DEF Share
    <3>3. Passed(t) = {}
      BY <1>4, <1>5, <1>7, <3>2 DEF Scanned, Passed
    <3> QED
      BY <3>1, <3>3
  <2>2. CASE Initialized(t) \/ Progress(t)
    BY <1>5, <2>2 DEF Initialized, Progress, Noted
  <2> QED
    BY <2>1, <2>2
<1>10. Noted(t)'
  BY <1>1, <1>2, <1>3, <1>4, <1>5, <1>6, <1>9 DEF Noted
<1> QED
  BY <1>8, <1>10 DEF ThreadInv

LEMMA ThreadOwnCollide ==
  ASSUME TypeOK, PhaseInv, TriedInv, NEW t \in Threads, ThreadInv(t), setup' = setup,
         Collide(t), main # "exited"
  PROVE  ThreadInv(t)'
<1> DEFINE S == Share(t)
           x == seed[t]
           F == {s \in S \cap Bad : tried[s] > 0}
<1>1. Share(t)' = S
  BY ShareKept DEF Collide
<1>2. /\ Bad' = Bad /\ Broken' = Broken /\ Faulty' = Faulty /\ badseeds' = badseeds
      /\ MaxFails' = MaxFails /\ start(t)' = start(t) /\ end(t)' = end(t) /\ g_NCPU' = g_NCPU
  BY SetupKept
<1>3. pc[t] = "collide" /\ UNCHANGED <<seed, last, results>>
  BY DEF Collide
<1>4. /\ x \in S /\ tried[x] = 0 /\ x \in Nat
      /\ \A s \in S : s # x => (tried[s] = 1 <=> s < x)
      /\ fails[t] = CountedFails(t) /\ (results[t] <=> Passed(t) \cap Faulty = {})
  BY <1>3, ShareInSeeds DEF ThreadInv, Scanned, Noted
<1>5. \A s \in S : s \in Seeds /\ s \in Nat /\ tried[s] \in {0, 1}
  BY <1>3, ShareInSeeds DEF TriedInv
<1>6. \A s \in S : tried'[s] = IF s = x THEN 1 ELSE tried[s]
  BY <1>4, <1>5 DEF Collide, Tried, TypeOK
<1>7. Passed(t)' = Passed(t)
  BY <1>1, <1>3, <1>6 DEF Passed
<1>8. {s \in S \cap Broken : tried'[s] > 0 /\ s # x} = {s \in S \cap Broken : tried[s] > 0 /\ s # x}
  BY <1>6
<1>9. CountedFails(t)' = CountedFails(t) + (IF x \in Bad THEN 1 ELSE 0)
  <2>1. IsFiniteSet(F) /\ x \notin F
    BY <1>3, <1>4, ShareInSeeds, FS_Subset
  <2>2. {s \in S \cap Bad : tried'[s] > 0} = IF x \in Bad THEN F \cup {x} ELSE F
    BY <1>4, <1>6
  <2>3. Cardinality({s \in S \cap Bad : tried'[s] > 0})
          = Cardinality(F) + (IF x \in Bad THEN 1 ELSE 0)
    <3> HIDE DEF F
    <3>1. CASE x \in Bad
      BY <2>1, <2>2, <3>1, CountAnother
    <3>2. CASE x \notin Bad
      <4>1. Cardinality(F) \in Nat
        BY <2>1, FS_CardinalityType
      <4> QED
        BY <2>2, <3>2, <4>1
    <3> QED
      BY <3>1, <3>2
  <2>4. Cardinality({s \in S \cap Broken : tried[s] > 0 /\ s # x}) \in Nat /\ Cardinality(F) \in Nat
    BY <1>3, ShareInSeeds, FS_Subset, FS_CardinalityType
  <2>5. /\ CountedFails(t) = Cardinality(F)
            + Cardinality({s \in S \cap Broken : tried[s] > 0 /\ s # x})
        /\ CountedFails(t)' = Cardinality({s \in S \cap Bad : tried'[s] > 0})
                                + Cardinality({s \in S \cap Broken : tried[s] > 0 /\ s # x})
    BY <1>1, <1>2, <1>3, <1>8 DEF CountedFails
  <2> HIDE DEF F
  <2> QED
    BY <2>3, <2>4, <2>5
<1>10. CASE x \notin Bad
  <2>1. UNCHANGED <<fails, newresults>> /\ pc'[t] = "zero"
    BY <1>10 DEF Collide, TypeOK
  <2>2. Scanned(t)'
    BY <1>1, <1>3, <1>4, <1>5, <1>6, <2>1 DEF Scanned
  <2>3. (\E s \in S \ badseeds : tried'[s] > 0 /\ (s \in Bad \/ (s \in Broken /\ s # x)))
          <=> \E s \in S \ badseeds : tried[s] > 0 /\ (s \in Bad \/ (s \in Broken /\ s # x))
    BY <1>6, <1>10
  <2>4. Noted(t)'
    BY <1>1, <1>2, <1>3, <1>4, <1>7, <1>9, <1>10, <2>1, <2>3 DEF ThreadInv, Noted, TypeOK
  <2> QED
    BY <2>2, <2>4 DEF ThreadInv
<1>11. CASE x \in Bad /\ fails[t] < MaxFails
  <2>1. /\ Found(t) /\ pc'[t] = "zero"
    BY <1>11, SetupFields DEF Collide, TypeOK
  <2>2. Scanned(t)'
    BY <1>1, <1>3, <1>4, <1>5, <1>6, <2>1 DEF Scanned
  <2>3. /\ fails'[t] = fails[t] + 1
        /\ newresults'[t] <=> newresults[t] \/ x \notin badseeds
    BY <2>1 DEF Found, TypeOK
  <2>4. newresults[t] <=> \E s \in S \ badseeds :
                            tried[s] > 0 /\ (s \in Bad \/ (s \in Broken /\ s # x))
    BY <1>3, <1>11, SetupFields DEF ThreadInv, Noted, TypeOK
  <2>5. newresults'[t] <=> \E s \in S \ badseeds :
                             tried'[s] > 0 /\ (s \in Bad \/ (s \in Broken /\ s # x))
    BY <1>4, <1>6, <1>11, <2>3, <2>4
  <2>6. Noted(t)'
    BY <1>1, <1>2, <1>3, <1>4, <1>7, <1>9, <1>11, <2>1, <2>3, <2>5 DEF Noted
  <2> QED
    BY <2>2, <2>6 DEF ThreadInv
<1>12. CASE x \in Bad /\ fails[t] >= MaxFails
  <2>1. /\ fails'[t] = fails[t] + 1 /\ fails'[t] > MaxFails'
        /\ \/ main' = "exited" /\ pc'[t] = "collide"
           \/ pc'[t] = "done"
    BY <1>2, <1>3, <1>12, SetupFields DEF Collide, TypeOK
  <2>2. Scanned(t)'
    BY <1>1, <1>3, <1>4, <1>5, <1>6, <2>1 DEF Scanned
  <2>3. Noted(t)'
    <3>1. fails'[t] = CountedFails(t)' /\ ~(fails'[t] <= MaxFails')
      BY <1>2, <1>4, <1>9, <1>12, <2>1, SetupFields DEF TypeOK
    <3> QED
      BY <1>2, <1>3, <1>4, <1>7, <2>1, <3>1 DEF Noted
  <2> QED
    BY <2>2, <2>3 DEF ThreadInv
<1> QED
  BY <1>10, <1>11, <1>12, SetupFields DEF TypeOK

LEMMA ThreadOwnCheckZero ==
  ASSUME TypeOK, PhaseInv, TriedInv, NEW t \in Threads, ThreadInv(t), setup' = setup,
         CheckZero(t), main # "exited"
  PROVE  ThreadInv(t)'
<1> DEFINE S == Share(t)
           x == seed[t]
           y == (x + 1) % U64
           F == {s \in S \cap Broken : tried[s] > 0 /\ s # x}
           G == {s \in S \cap Broken : tried[s] > 0 /\ s # y}
           new == x \in Broken /\ x \notin badseeds
<1>1. Share(t)' = S
  BY ShareKept DEF CheckZero
<1>2. /\ Bad' = Bad /\ Broken' = Broken /\ Faulty' = Faulty /\ badseeds' = badseeds
      /\ MaxFails' = MaxFails /\ start(t)' = start(t) /\ end(t)' = end(t)
  BY SetupKept
<1>3. /\ pc[t] = "zero" /\ UNCHANGED <<last, tried>> /\ seed'[t] = y
      /\ pc'[t] = IF x # last[t] THEN "progress" ELSE "done"
  BY DEF CheckZero, Advance, TypeOK
<1>4. /\ x \in S /\ x \in Nat
      /\ \A s \in S : tried[s] = 1 <=> s <= x
      /\ fails[t] = CountedFails(t) /\ (results[t] <=> Passed(t) \cap Faulty = {})
  BY <1>3, ShareInSeeds DEF ThreadInv, Scanned, Noted
<1>5. \A s \in S : s \in Seeds /\ s \in Nat /\ tried[s] \in {0, 1} /\ (tried[s] > 0 <=> s <= x)
                     /\ s <= last[t]
  BY <1>3, <1>4, ShareInSeeds DEF TriedInv
<1>6. (\A s \in S : s <= x => s # y) /\ (x # last[t] => y = x + 1 /\ y \in S) /\ last[t] \in S
  BY <1>3, <1>4, NextSeed, ShareInSeeds
<1>7. Passed(t)' = Passed(t) \cup {x}
  <2>1. Passed(t)' = {s \in S : tried[s] > 0 /\ s # y}
    BY <1>1, <1>3 DEF Passed
  <2> HIDE DEF y
  <2> QED
    BY <1>4, <1>5, <1>6, <2>1 DEF Passed
<1>8. results'[t] <=> Passed(t)' \cap Faulty = {}
  <2>1. results'[t] <=> results[t] /\ x \notin Faulty
    BY DEF CheckZero, TypeOK
  <2> QED
    BY <1>4, <1>7, <2>1
<1>9. CountedFails(t)' = CountedFails(t) + (IF x \in Broken THEN 1 ELSE 0)
  <2>1. IsFiniteSet(F) /\ x \notin F
    BY <1>3, <1>4, ShareInSeeds, FS_Subset
  <2>2. G = IF x \in Broken THEN F \cup {x} ELSE F
    <3> HIDE DEF y
    <3> QED
      BY <1>4, <1>5, <1>6
  <2>3. Cardinality(G) = Cardinality(F) + (IF x \in Broken THEN 1 ELSE 0)
    <3> HIDE DEF F, G
    <3>1. CASE x \in Broken
      BY <2>1, <2>2, <3>1, CountAnother
    <3>2. CASE x \notin Broken
      BY <2>1, <2>2, <3>2, FS_CardinalityType
    <3> QED
      BY <3>1, <3>2
  <2>4. Cardinality({s \in S \cap Bad : tried[s] > 0}) \in Nat /\ Cardinality(F) \in Nat
    BY <1>3, ShareInSeeds, FS_Subset, FS_CardinalityType
  <2>5. /\ CountedFails(t) = Cardinality({s \in S \cap Bad : tried[s] > 0}) + Cardinality(F)
        /\ CountedFails(t)' = Cardinality({s \in S \cap Bad : tried[s] > 0}) + Cardinality(G)
    BY <1>1, <1>2, <1>3 DEF CountedFails
  <2> HIDE DEF F, G
  <2> QED
    BY <2>3, <2>4, <2>5
<1>10. /\ fails'[t] = fails[t] + (IF x \in Broken THEN 1 ELSE 0)
       /\ newresults'[t] <=> newresults[t] \/ new
  <2>1. CASE x \in Broken
    BY <2>1 DEF CheckZero, Found, TypeOK
  <2>2. CASE x \notin Broken
    BY <2>2 DEF CheckZero, TypeOK
  <2> QED
    BY <2>1, <2>2
<1>11. Scanned(t)'
  <2>1. CASE x # last[t]
    <3>1. seed'[t] = x + 1 /\ pc'[t] = "progress" /\ seed'[t] \in S
      BY <1>3, <1>6, <2>1
    <3>2. \A s \in S : tried'[s] = 1 <=> s < seed'[t]
      BY <1>3, <1>4, <1>5, <3>1
    <3> QED
      BY <1>1, <3>1, <3>2 DEF Scanned
  <2>2. CASE x = last[t]
    BY <1>1, <1>3, <1>4, <1>5, <2>2 DEF Scanned
  <2> QED
    BY <2>1, <2>2
<1>12. fails'[t] <= MaxFails =>
         (newresults'[t] <=> \E s \in S \ badseeds :
                               tried[s] > 0 /\ (s \in Bad \/ (s \in Broken /\ s # y)))
  <2> SUFFICES ASSUME fails'[t] <= MaxFails
               PROVE  newresults'[t] <=>
                        \E s \in S \ badseeds :
                          tried[s] > 0 /\ (s \in Bad \/ (s \in Broken /\ s # y))
    OBVIOUS
  <2>1. fails[t] <= MaxFails
    BY <1>10, SetupFields DEF TypeOK
  <2>2. newresults[t] <=> \E s \in S \ badseeds :
                            tried[s] > 0 /\ (s \in Bad \/ (s \in Broken /\ s # x))
    BY <1>3, <2>1 DEF ThreadInv, Noted
  <2>3. \A s \in S : tried[s] > 0 => s # y
    BY <1>5, <1>6
  <2>4. tried[x] > 0
    BY <1>4, <1>5
  <2> HIDE DEF y
  <2> QED
    BY <1>4, <1>10, <2>2, <2>3, <2>4
<1>13. Noted(t)'
  <2>1. fails'[t] = CountedFails(t)'
    BY <1>4, <1>9, <1>10
  <2>2. pc'[t] \notin {"announce", "init"}
    BY <1>3
  <2> HIDE DEF y
  <2> QED
    BY <1>1, <1>2, <1>3, <1>8, <1>12, <2>1, <2>2 DEF Noted
<1> QED
  BY <1>11, <1>13 DEF ThreadInv

-----------------------------------------------------------------------------
(* What a thread's step does to the rest of the invariant.                 *)

(* A thread at work is on the present range. While the main thread holds   *)
(* progress_mutex no thread gets beyond its announcement.                  *)
LEMMA BegunKept ==
  ASSUME TypeOK, PhaseInv, NEW t \in Threads, TestSeedRangeThread(t)
  PROVE  /\ Begun(t) /\ (main = "spawn" <=> main' = "spawn") /\ (main = "wait" <=> main' = "wait")
         /\ \A u \in Threads : Begun(u)' <=> Begun(u)
<1>1. /\ setup' = setup /\ i' = i /\ Running
      /\ main' \in {main, "exited"} \/ (main = "asleep" /\ main' = "woken")
      /\ pc[t] \notin {"idle", "done"}
      /\ pc[t] \in {"announce", "init"} /\ progress_mutex = "main" => main' = main
  BY ThreadEffect
<1>2. Begun(t)
  BY <1>1 DEF PhaseInv
<1>3. main = "spawn" \/ main = "wait" => main' = main
  BY <1>1, <1>2 DEF PhaseInv
<1> QED
  BY <1>1, <1>2, <1>3, SetupKept DEF Begun, Running

LEMMA ThreadPhase ==
  ASSUME TypeOK, ModeInv, PhaseInv, NEW t \in Threads, TestSeedRangeThread(t)
  PROVE  ModeInv' /\ PhaseInv'
<1>1. /\ UNCHANGED <<setup, hi, i, result, newresult, known, verdict, last, progress_mutex>>
      /\ Running
      /\ main' \in {main, "exited"} \/ (main = "asleep" /\ main' = "woken")
      /\ pc[t] \notin {"idle", "done"} /\ pc'[t] # "idle"
      /\ pc[t] \in {"announce", "init"} /\ progress_mutex = "main" =>
           pc'[t] \in {"announce", "init"} /\ main' = main
      /\ \A u \in Threads : u # t => pc'[u] = pc[u]
  BY ThreadEffect
<1>2. /\ Begun(t) /\ (main = "spawn" <=> main' = "spawn") /\ (main = "wait" <=> main' = "wait")
      /\ \A u \in Threads : Begun(u)' <=> Begun(u)
  BY BegunKept
<1>3. /\ Threads' = Threads /\ is32BitSeed' = is32BitSeed /\ g_NCPU' = g_NCPU
      /\ FindsNew' = FindsNew /\ \A u : end(u)' = end(u)
  BY <1>1, SetupKept
<1>4. ModeInv'
  BY <1>1, <1>3 DEF ModeInv, Running
<1>5. \A u \in Threads' :
        IF Begun(u)' THEN pc'[u] # "idle" /\ last'[u] = hi' + end(u)'
        ELSE IF hi' = 0 THEN pc'[u] = "idle" ELSE pc'[u] = "done" /\ last'[u] = end(u)'
  BY <1>1, <1>2, <1>3 DEF PhaseInv
<1>6. progress_mutex' = IF main' \in {"spawn", "wait"} THEN "main" ELSE "free"
  BY <1>1, <1>2 DEF PhaseInv
<1>7. main' \in {"spawn", "wait"} => \A u \in Threads : Begun(u)' => pc'[u] \in {"announce", "init"}
  BY <1>1, <1>2 DEF PhaseInv
<1>8. main' = "join" => \A u \in Threads : u < i => pc'[u] = "done"
  BY <1>1 DEF PhaseInv
<1> QED
  BY <1>1, <1>3, <1>4, <1>5, <1>6, <1>7, <1>8 DEF PhaseInv, Running

(* Of the threads that have not announced their share there is one less    *)
(* when one comes to the end of its initialization, and no less otherwise. *)
LEMMA ThreadHandshake ==
  ASSUME TypeOK, PhaseInv, HandshakeInv, NEW t \in Threads, TestSeedRangeThread(t)
  PROVE  HandshakeInv'
<1>1. setup' = setup /\ Threads' = Threads /\ g_NCPU' = g_NCPU /\ g_NCPU \in Nat /\ UintMax \in Nat
  BY SetupKept, SetupFields, SizesAssumption, Sizes DEF TypeOK, TestSeedRangeThread
<1>2. IsFiniteSet(Unannounced) /\ Cardinality(Unannounced) \in Nat
  <2>1. IsFiniteSet(Threads)
    BY <1>1, FS_Interval DEF Threads
  <2> QED
    BY <2>1, FS_Subset, FS_CardinalityType DEF Unannounced
<1>3. CASE Initialized(t)
  <2>1. t \in Unannounced /\ Unannounced' = Unannounced \ {t}
    BY <1>1, <1>3 DEF Unannounced, Initialized, TypeOK
  <2>2. Cardinality(Unannounced') = Cardinality(Unannounced) - 1 /\ Cardinality(Unannounced) > 0
    BY <1>2, <2>1, FS_RemoveElement, FS_EmptySet
  <2>3. main \notin {"spawn", "wait"} /\ main' \in {main, "woken"}
      /\ (main' # main => main = "asleep")
    BY <1>3 DEF Initialized, PhaseInv
  <2>4. threads_remaining' = Decremented
    BY <1>3 DEF Initialized
  <2> QED
    BY <1>2, <2>2, <2>3, <2>4 DEF HandshakeInv, Decremented
<1>4. CASE Announce(t) \/ Progress(t) \/ Collide(t) \/ CheckZero(t)
  <2>1. Unannounced' = Unannounced
    <3>1. /\ \A u \in Threads : u # t => pc'[u] = pc[u]
          /\ pc[t] \in {"announce", "init"} <=> pc'[t] \in {"announce", "init"}
      BY <1>4 DEF Announce, Progress, Collide, CheckZero, Advance, TypeOK
    <3> QED
      BY <1>1, <3>1 DEF Unannounced
  <2>2. threads_remaining' = threads_remaining /\ main' \in {main, "exited"}
    BY <1>4 DEF Announce, Progress, Collide, CheckZero, run, sync
  <2> QED
    BY <1>1, <2>1, <2>2 DEF HandshakeInv
<1> QED
  BY <1>3, <1>4 DEF TestSeedRangeThread

LEMMA ThreadColumn ==
  ASSUME TypeOK, ColumnInv, NEW t \in Threads, TestSeedRangeThread(t)
  PROVE  ColumnInv'
<1>1. Running /\ (main' \in {main, "exited"} \/ (main = "asleep" /\ main' = "woken"))
  BY ThreadEffect
<1>2. main' \notin {"known", "many"} /\ (seed_progress # 0 <=> midline)
  BY <1>1 DEF Running, ColumnInv, ProgressColumn
<1>3. \/ seed_progress' = 0 /\ midline' = FALSE
      \/ seed_progress' = seed_progress /\ midline' = midline
      \/ midline' = (seed_progress' # 0)
  <2>1. CASE Announce(t)
    BY <2>1 DEF Announce
  <2>2. CASE Initialized(t)
    BY <2>2 DEF Initialized, out
  <2>3. CASE Progress(t)
    BY <2>3 DEF Progress, out
  <2>4. CASE Collide(t)
    BY <2>4 DEF Collide, Report, out
  <2>5. CASE CheckZero(t)
    BY <2>5 DEF CheckZero, Report, out
  <2> QED
    BY <2>1, <2>2, <2>3, <2>4, <2>5 DEF TestSeedRangeThread
<1>4. seed_progress' # 0 <=> midline'
  <2>1. CASE seed_progress' = 0 /\ midline' = FALSE
    BY <2>1
  <2>2. CASE seed_progress' = seed_progress /\ midline' = midline
    BY <1>2, <2>2
  <2>3. CASE midline' = (seed_progress' # 0)
    BY <2>3
  <2> QED
    BY <1>3, <2>1, <2>2, <2>3
<1> QED
  BY <1>2, <1>4 DEF ColumnInv, ProgressColumn

(* A seed is tried by the thread whose share it is in, for the first time. *)
LEMMA ThreadTries ==
  ASSUME TypeOK, PhaseInv, NEW t \in Threads, ThreadInv(t), TestSeedRangeThread(t)
  PROVE  \/ tried' = tried
         \/ /\ seed[t] \in Share(t) /\ tried[seed[t]] = 0 /\ pc[t] = "collide"
            /\ \A s \in Seeds : tried'[s] = IF s = seed[t] THEN 1 ELSE tried[s]
<1>1. CASE Collide(t)
  <2>1. pc[t] = "collide" /\ Tried(seed[t]) /\ main # "exited"
    BY <1>1 DEF Collide, TestSeedRangeThread, Running
  <2>2. seed[t] \in Share(t) /\ tried[seed[t]] = 0
    BY <2>1 DEF ThreadInv, Scanned
  <2> QED
    BY <2>1, <2>2 DEF Tried, TypeOK
<1>2. CASE ~Collide(t)
  BY <1>2 DEF TestSeedRangeThread, Announce, Initialized, Progress, CheckZero
<1> QED
  BY <1>1, <1>2

LEMMA ThreadThreads ==
  ASSUME TypeOK, PhaseInv, TriedInv, \A u \in Threads : ThreadInv(u),
         NEW t \in Threads, TestSeedRangeThread(t)
  PROVE  (\A u \in Threads : ThreadInv(u))'
<1>1. /\ setup' = setup /\ last' = last /\ Running
      /\ main' \in {main, "exited"} \/ (main = "asleep" /\ main' = "woken")
      /\ pc[t] \notin {"idle", "done"}
      /\ \A u \in Threads : u # t =>
              /\ pc'[u] = pc[u] /\ seed'[u] = seed[u] /\ fails'[u] = fails[u]
              /\ results'[u] = results[u] /\ newresults'[u] = newresults[u]
      /\ \A s \in Seeds : s # seed[t] => tried'[s] = tried[s]
  BY ThreadEffect
<1>2. Threads' = Threads
  BY <1>1, SetupKept
<1>3. ThreadInv(t)'
  BY <1>1, ThreadOwnQuiet, ThreadOwnCollide, ThreadOwnCheckZero DEF TestSeedRangeThread, Running
<1>4. ASSUME NEW u \in Threads, u # t PROVE ThreadInv(u)'
  <2>1. CASE pc[u] = "idle"
    BY <1>1, <1>4, <2>1 DEF ThreadInv
  <2>2. CASE pc[u] # "idle"
    <3>1. Share(t) \cap Share(u) = {} /\ Share(u) \subseteq Seeds
      BY <1>1, <1>4, <2>2, BegunKept, SharesDisjoint, ShareInSeeds
    <3>2. seed[t] \in Share(t)
      BY <1>1 DEF ThreadInv, Scanned
    <3>3. \A s \in Share(u) : tried'[s] = tried[s]
      BY <1>1, <3>1, <3>2
    <3> QED
      BY <1>1, <1>4, <3>3, ThreadKept DEF Running
  <2> QED
    BY <2>1, <2>2
<1> QED
  BY <1>2, <1>3, <1>4

LEMMA ThreadTried ==
  ASSUME TypeOK, PhaseInv, TriedInv, NEW t \in Threads, ThreadInv(t), TestSeedRangeThread(t)
  PROVE  TriedInv'
<1>1. setup' = setup /\ last' = last /\ hi' = hi /\ Threads' = Threads
  BY ThreadEffect, SetupKept
<1>2. Begun(t) /\ \A u \in Threads : Begun(u)' <=> Begun(u)
  BY BegunKept
<1>3. \A u : Share(u)' = Share(u)
  BY <1>1, ShareKept
<1>4. \A s \in Seeds : tried'[s] = tried[s] \/ (s \in Share(t) /\ tried'[s] = 1)
  BY ThreadTries
<1> QED
  BY <1>1, <1>2, <1>3, <1>4 DEF TriedInv

LEMMA ThreadResult ==
  ASSUME TypeOK, PhaseInv, ResultInv, NEW t \in Threads, ThreadInv(t), TestSeedRangeThread(t)
  PROVE  ResultInv'
<1>1. /\ UNCHANGED <<setup, hi, result, newresult, known>> /\ Running
      /\ main' \in {main, "exited"} \/ (main = "asleep" /\ main' = "woken")
  BY ThreadEffect
<1>2. /\ NoneGivenUp' = NoneGivenUp /\ Faulty' = Faulty /\ Listed' = Listed
      /\ badseeds' = badseeds /\ Condemned' = Condemned /\ Over \subseteq Seeds
      /\ Faulty \subseteq Seeds
  BY <1>1, SetupKept, SetupFields, Sizes DEF Over, Running, Low, Seeds, TypeOK, Faulty
<1>3. Over' = Over
  BY <1>1 DEF Over, Running
<1>4. \A s \in Seeds : (tried[s] = 1 => tried'[s] = 1) /\ (tried[s] > 0 => tried'[s] > 0)
  BY ThreadTries
<1>5. (NoneGivenUp \/ result => \A s \in Over : tried[s] = 1)'
  BY <1>1, <1>2, <1>3, <1>4 DEF ResultInv
<1>6. (~result => \/ \E s \in Faulty \cap Seeds : s \in Listed \ known \/ tried[s] > 0
                  \/ Condemned /\ main \in {"report", "done"})'
  BY <1>1, <1>2, <1>4 DEF ResultInv, Running
<1> QED
  BY <1>1, <1>2, <1>3, <1>5, <1>6 DEF ResultInv, Running

-----------------------------------------------------------------------------
(* The main thread's steps.                                                *)

(* A step of the main thread that begins no share and tries no seed leaves *)
(* the threads as they are.                                                *)
LEMMA ThreadsIdle ==
  ASSUME \A u \in Threads : ThreadInv(u), setup' = setup, UNCHANGED <<thread, tried>>,
         main # "exited"
  PROVE  (\A u \in Threads : ThreadInv(u))' /\ Unannounced' = Unannounced
<1>1. Threads' = Threads
  BY SetupKept
<1>2. \A u \in Threads : ThreadInv(u)'
  BY ThreadKept DEF thread
<1> QED
  BY <1>1, <1>2 DEF Unannounced, thread

(* The mode, the threads' phases, the handshake and the output.            *)
Control == ModeInv /\ PhaseInv /\ HandshakeInv /\ ColumnInv

LEMMA MainControlKnown ==
  ASSUME TypeOK, Control, setup' = setup, TestSingleSeed
  PROVE  Control'
<1> USE DEF Control
<1>1. UNCHANGED <<main, hi, i, newresult, verdict, thread, out, sync>> /\ main = "known"
  BY DEF TestSingleSeed
<1>2. /\ Threads' = Threads /\ is32BitSeed' = is32BitSeed /\ g_NCPU' = g_NCPU
      /\ FindsNew' = FindsNew /\ (\A u : end(u)' = end(u))
      /\ \A u : Begun(u)' <=> Begun(u)
  BY <1>1, SetupKept DEF Begun
<1>3. ModeInv'
  BY <1>1, <1>2 DEF ModeInv
<1>4. PhaseInv'
  BY <1>1, <1>2 DEF PhaseInv, thread, sync
<1> QED
  BY <1>1, <1>3, <1>4 DEF HandshakeInv, ColumnInv, ProgressColumn, Running, out

LEMMA MainControlFind ==
  ASSUME TypeOK, Control, setup' = setup, BadSeedsFind
  PROVE  Control'
<1> USE DEF Control
<1>1. /\ UNCHANGED <<hi, i, newresult, known, verdict, thread, out, sync>> /\ main = "known"
      /\ known = {} /\ ~setup.short /\ hi = 0
  BY DEF BadSeedsFind, ModeInv
<1>2. main' = IF FindsNew THEN "many" ELSE "report"
  BY <1>1 DEF BadSeedsFind, Search, FindsNew
<1>3. /\ Threads' = Threads /\ is32BitSeed' = is32BitSeed /\ g_NCPU' = g_NCPU
      /\ FindsNew' = FindsNew /\ (\A u : end(u)' = end(u))
      /\ \A u : ~Begun(u)' /\ ~Begun(u)
  BY <1>1, <1>2, SetupKept DEF Begun
<1>4. ModeInv'
  BY <1>1, <1>2, <1>3 DEF ModeInv
<1>5. PhaseInv'
  BY <1>1, <1>2, <1>3 DEF PhaseInv, thread, sync
<1> QED
  BY <1>1, <1>2, <1>4, <1>5 DEF HandshakeInv, ColumnInv, ProgressColumn, Running, out

LEMMA MainControlMany ==
  ASSUME TypeOK, Control, setup' = setup, TestManySeeds
  PROVE  Control'
<1> USE DEF Control
<1>1. /\ UNCHANGED <<hi, result, newresult, known, verdict, midline>> /\ seed_progress' = 0
      /\ main = "many" /\ FindsNew /\ ~midline
  BY DEF TestManySeeds, ModeInv, ColumnInv
<1>2. /\ Threads' = Threads /\ is32BitSeed' = is32BitSeed /\ g_NCPU' = g_NCPU
      /\ FindsNew' = FindsNew /\ (\A u : end(u)' = end(u))
      /\ g_NCPU \in Nat /\ g_NCPU > 0
  BY SetupKept, SetupFields, Sizes DEF TypeOK
<1>3. ColumnInv'
  BY <1>1 DEF ColumnInv, ProgressColumn, TestManySeeds
<1>4. CASE g_NCPU = 1
  <2>1. main' = "call" /\ Begin(0) /\ i' = i /\ UNCHANGED sync
    BY <1>4 DEF TestManySeeds
  <2>2. Threads = {0} /\ \A u \in Threads : Begun(u)'
    BY <1>1, <1>2, <1>4, <2>1 DEF Threads, Begun
  <2>3. pc'[0] = "announce" /\ last'[0] = hi + end(0)
    BY <2>1, <2>2 DEF Begin, TypeOK
  <2>4. PhaseInv'
    BY <1>1, <1>2, <2>1, <2>2, <2>3 DEF PhaseInv, sync
  <2>5. ModeInv'
    BY <1>1, <1>2, <1>4, <2>1 DEF ModeInv
  <2> QED
    BY <1>3, <2>1, <2>4, <2>5 DEF HandshakeInv
<1>5. CASE g_NCPU # 1
  <2>1. /\ main' = "spawn" /\ i' = 0 /\ threads_remaining' = g_NCPU
        /\ progress_mutex' = "main" /\ UNCHANGED thread
    BY <1>5 DEF TestManySeeds
  <2>2. \A u \in Threads : ~Begun(u)' /\ ~Begun(u)
    BY <1>1, <2>1 DEF Threads, Begun
  <2>3. PhaseInv'
    BY <1>1, <1>2, <2>1, <2>2 DEF PhaseInv, thread
  <2>4. ModeInv'
    BY <1>1, <1>2, <1>5, <2>1 DEF ModeInv
  <2> QED
    BY <1>2, <1>3, <2>1, <2>3, <2>4 DEF HandshakeInv
<1> QED
  BY <1>4, <1>5

LEMMA MainControlSpawn ==
  ASSUME TypeOK, Control, setup' = setup, Spawn
  PROVE  Control'
<1> USE DEF Control
<1>1. /\ UNCHANGED <<hi, result, newresult, known, verdict, out, sync>> /\ Begin(i)
      /\ main = "spawn" /\ FindsNew
  BY DEF Spawn, ModeInv
<1>2. /\ Threads' = Threads /\ is32BitSeed' = is32BitSeed /\ g_NCPU' = g_NCPU
      /\ FindsNew' = FindsNew /\ (\A u : end(u)' = end(u))
      /\ g_NCPU \in Nat /\ g_NCPU > 0
  BY SetupKept, SetupFields, Sizes DEF TypeOK
<1>3. \/ i + 1 < g_NCPU /\ i' = i + 1 /\ main' = "spawn"
      \/ i + 1 = g_NCPU /\ i' = 0 /\ main' = "wait"
  BY <1>1, <1>2 DEF Spawn, TypeOK, Threads
<1>4. \A u \in Threads : /\ Begun(u) <=> u < i
                         /\ Begun(u)' <=> u < i \/ u = i
  BY <1>1, <1>2, <1>3 DEF Threads, Begun, TypeOK
<1>5. /\ pc'[i] = "announce" /\ last'[i] = hi + end(i)
      /\ \A u \in Threads : u # i => pc'[u] = pc[u] /\ last'[u] = last[u]
  BY <1>1 DEF Begin, TypeOK
<1>6. PhaseInv'
  <2>1. \A u \in Threads' :
          IF Begun(u)' THEN pc'[u] # "idle" /\ last'[u] = hi' + end(u)'
          ELSE IF hi' = 0 THEN pc'[u] = "idle" ELSE pc'[u] = "done" /\ last'[u] = end(u)'
    BY <1>1, <1>2, <1>4, <1>5 DEF PhaseInv
  <2>2. \A u \in Threads' : Begun(u)' => pc'[u] \in {"announce", "init"}
    BY <1>1, <1>2, <1>4, <1>5 DEF PhaseInv
  <2>3. main' \in {"spawn", "wait"} /\ (main' = "wait" => i' = 0) /\ progress_mutex' = "main"
    BY <1>1, <1>3 DEF PhaseInv, sync
  <2> QED
    BY <2>1, <2>2, <2>3 DEF PhaseInv
<1>7. ModeInv'
  BY <1>1, <1>2, <1>3 DEF ModeInv
<1>8. HandshakeInv'
  <2>1. threads_remaining' = g_NCPU
    BY <1>1 DEF HandshakeInv, sync
  <2>2. main' = "wait" => Unannounced' = Threads
    <3>1. main' = "wait" => \A u \in Threads : Begun(u)'
      BY <1>2, <1>3, <1>4 DEF Threads, TypeOK
    <3>2. main' = "wait" => \A u \in Threads : pc'[u] \in {"announce", "init"}
      BY <1>2, <1>6, <3>1 DEF PhaseInv
    <3> QED
      BY <1>2, <3>2 DEF Unannounced
  <2>3. Cardinality(Threads) = g_NCPU
    BY <1>2, FS_Interval DEF Threads
  <2> QED
    BY <1>2, <1>3, <2>1, <2>2, <2>3 DEF HandshakeInv
<1>9. ColumnInv'
  BY <1>1, <1>3 DEF ColumnInv, ProgressColumn, Running, out
<1> QED
  BY <1>6, <1>7, <1>8, <1>9

LEMMA MainControlWait ==
  ASSUME TypeOK, Control, setup' = setup, Wait \/ SpuriousWakeup
  PROVE  Control'
<1> USE DEF Control
<1>1. /\ UNCHANGED <<hi, i, result, newresult, known, verdict, thread, out, threads_remaining>>
      /\ main \in {"wait", "woken", "asleep"} /\ main' \in {"woken", "join", "asleep"}
      /\ (main' = "join" => threads_remaining = 0) /\ progress_mutex' = "free"
  BY DEF Wait, SpuriousWakeup, sync, PhaseInv
<1>2. /\ Threads' = Threads /\ is32BitSeed' = is32BitSeed /\ g_NCPU' = g_NCPU
      /\ FindsNew' = FindsNew /\ (\A u : end(u)' = end(u))
      /\ (\A u : Begun(u)' <=> Begun(u)) /\ i = 0 /\ \A u \in Threads : u \in Nat
  BY <1>1, SetupKept, SetupFields DEF Begun, TypeOK, PhaseInv, Threads
<1>3. ModeInv'
  BY <1>1, <1>2 DEF ModeInv
<1>4. PhaseInv'
  BY <1>1, <1>2 DEF PhaseInv, thread
<1>5. HandshakeInv'
  BY <1>1, <1>2 DEF HandshakeInv, Unannounced, thread
<1> QED
  BY <1>1, <1>3, <1>4, <1>5 DEF ColumnInv, ProgressColumn, Running, out

LEMMA MainControlJoin ==
  ASSUME TypeOK, Control, setup' = setup, Join \/ Return
  PROVE  Control'
<1> USE DEF Control
<1>1. /\ UNCHANGED <<hi, result, newresult, known, verdict, thread, out, sync>>
      /\ main \in {"join", "call"} /\ pc[IF main = "join" THEN i ELSE 0] = "done"
      /\ main' \in {"join", "collect"} /\ (main' = "join" => main = "join")
  BY DEF Join, Return
<1>2. /\ Threads' = Threads /\ is32BitSeed' = is32BitSeed /\ g_NCPU' = g_NCPU
      /\ FindsNew' = FindsNew /\ (\A u : end(u)' = end(u))
      /\ (\A u : Begun(u)' <=> Begun(u)) /\ g_NCPU \in Nat
  BY <1>1, SetupKept, SetupFields, Sizes DEF Begun, TypeOK
<1>3. /\ main' = "join" => \A u \in Threads : u < i' => pc[u] = "done"
      /\ main' = "collect" => \A u \in Threads : pc[u] = "done"
  BY <1>1, <1>2 DEF Join, Return, PhaseInv, ModeInv, Threads, TypeOK
<1>4. ModeInv'
  BY <1>1, <1>2 DEF ModeInv
<1>5. PhaseInv'
  BY <1>1, <1>2, <1>3 DEF PhaseInv, thread, sync
<1>6. HandshakeInv'
  BY <1>1, <1>2 DEF HandshakeInv, Unannounced, thread, sync
<1> QED
  BY <1>1, <1>4, <1>5, <1>6 DEF ColumnInv, ProgressColumn, Running, out

LEMMA MainControlCollect ==
  ASSUME TypeOK, Control, setup' = setup, Collect
  PROVE  Control'
<1> USE DEF Control
<1>1. /\ UNCHANGED <<i, known, verdict, thread, seed_progress, sync>> /\ midline' = FALSE
      /\ main = "collect" /\ FindsNew /\ \A u \in Threads : pc[u] = "done"
      /\ IF hi = 0 /\ ~is32BitSeed THEN main' = "many" /\ hi' = LastRange
         ELSE main' = "report" /\ hi' = hi
  BY DEF Collect, ModeInv, PhaseInv
<1>2. /\ Threads' = Threads /\ is32BitSeed' = is32BitSeed /\ g_NCPU' = g_NCPU
      /\ FindsNew' = FindsNew /\ (\A u : end(u)' = end(u)) /\ LastRange # 0
      /\ (\A u \in Threads : end(u) \in Nat)
  BY <1>1, SetupKept, Sizes, ShareBounds DEF TypeOK
<1>3. \A u \in Threads : Begun(u) /\ (Begun(u)' <=> main' = "report")
  BY <1>1, <1>2 DEF Begun
<1>4. ModeInv'
  BY <1>1, <1>2 DEF ModeInv
<1>5. PhaseInv'
  BY <1>1, <1>2, <1>3 DEF PhaseInv, thread, sync
<1> QED
  BY <1>1, <1>4, <1>5 DEF HandshakeInv, ColumnInv, ProgressColumn, Running

LEMMA MainControlReport ==
  ASSUME TypeOK, Control, setup' = setup, BadSeedsTest
  PROVE  Control'
<1> USE DEF Control
<1>1. /\ UNCHANGED <<hi, i, result, newresult, known, thread, out, sync>>
      /\ main = "report" /\ main' = "done"
  BY DEF BadSeedsTest
<1>2. /\ Threads' = Threads /\ is32BitSeed' = is32BitSeed /\ g_NCPU' = g_NCPU
      /\ FindsNew' = FindsNew /\ (\A u : end(u)' = end(u))
      /\ (\A u : Begun(u)' <=> Begun(u))
  BY <1>1, SetupKept DEF Begun
<1>3. ModeInv'
  BY <1>1, <1>2 DEF ModeInv
<1>4. PhaseInv'
  BY <1>1, <1>2 DEF PhaseInv, thread, sync
<1> QED
  BY <1>1, <1>3, <1>4 DEF HandshakeInv, ColumnInv, ProgressColumn, Running, out

(* No seed of a new share was tried before.                                *)
LEMMA BeginFresh ==
  ASSUME TypeOK, PhaseInv, TriedInv, setup' = setup, hi' = hi, tried' = tried,
         \A u \in Threads : ThreadInv(u), NEW n \in Threads, ~Begun(n), Begin(n),
         main # "exited", main' # "exited"
  PROVE  /\ (\A u \in Threads : ThreadInv(u))'
         /\ \A u \in Threads : u # n => last'[u] = last[u]
<1>1. /\ Threads' = Threads /\ Bad' = Bad /\ Broken' = Broken /\ Faulty' = Faulty
      /\ badseeds' = badseeds /\ MaxFails' = MaxFails
      /\ start(n)' = start(n) /\ end(n)' = end(n)
  BY SetupKept
<1>2. /\ pc'[n] = "announce" /\ seed'[n] = hi + start(n) /\ last'[n] = hi + end(n)
      /\ fails'[n] = 0 /\ results'[n] = FALSE /\ newresults'[n] = FALSE
      /\ \A u \in Threads : u # n =>
           /\ pc'[u] = pc[u] /\ seed'[u] = seed[u] /\ last'[u] = last[u] /\ fails'[u] = fails[u]
           /\ results'[u] = results[u] /\ newresults'[u] = newresults[u]
  BY DEF Begin, TypeOK
<1>3. /\ start(n) \in Nat /\ end(n) \in Nat /\ start(n) <= end(n) /\ end(n) < U32
      /\ hi \in Nat /\ (hi # 0 => hi >= U32) /\ hi + U32 <= U64 /\ U32 \in Nat /\ U64 \in Nat
  BY ShareBounds, Sizes DEF TypeOK
<1>4. Share(n)' = hi + start(n) .. hi + end(n)
  BY <1>1, <1>2, <1>3 DEF Share
<1>5. \A s \in Share(n)' : s \in Seeds /\ tried[s] = 0
  <2> SUFFICES ASSUME NEW s \in Share(n)', s \notin Seeds \/ tried[s] # 0 PROVE FALSE
    OBVIOUS
  <2>1. s \in Nat /\ hi + start(n) <= s /\ s <= hi + end(n) /\ s \in Seeds
    BY <1>3, <1>4 DEF Seeds
  <2>2. PICK u \in Threads : Begun(u) /\ s \in Share(u)
    BY <1>3, <2>1 DEF TriedInv, Low
  <2>3. u # n /\ pc[u] # "idle"
    BY <2>2 DEF PhaseInv
  <2>4. PICK b \in {0, LastRange} : Share(u) = b + start(u) .. b + end(u) /\ b = hi
    BY <2>2, <2>3, ShareFacts
  <2>5. start(u) \in Nat /\ end(u) \in Nat /\ u \in Int /\ n \in Int
    BY ShareBounds, SetupFields DEF TypeOK, Threads
  <2>6. end(u) < start(n) \/ end(n) < start(u)
    BY <2>3, <2>5, SharesApart DEF TypeOK
  <2> QED
    BY <1>3, <2>1, <2>2, <2>4, <2>5, <2>6
<1>6. ThreadInv(n)'
  <2>1. Scanned(n)'
    BY <1>2, <1>3, <1>4, <1>5 DEF Scanned
  <2>2. CountedFails(n)' = 0
    <3>1. /\ {s \in Share(n)' \cap Bad : tried[s] > 0} = {}
          /\ {s \in Share(n)' \cap Broken : tried[s] > 0 /\ s # seed'[n]} = {}
      BY <1>5
    <3>2. CountedFails(n)' = Cardinality({}) + Cardinality({})
      BY <1>1, <3>1 DEF CountedFails
    <3> QED
      BY <3>2, FS_EmptySet
  <2>3. seed'[n] = last'[n] - end(n)' + start(n)'
    BY <1>1, <1>2, <1>3
  <2>4. Noted(n)'
    BY <1>1, <1>2, <1>5, <2>2, <2>3 DEF Noted
  <2> QED
    BY <2>1, <2>4 DEF ThreadInv
<1>7. ASSUME NEW u \in Threads, u # n PROVE ThreadInv(u)'
  BY <1>2, <1>7, ThreadKept
<1> QED
  BY <1>1, <1>2, <1>6, <1>7

LEMMA MainBegins ==
  ASSUME TypeOK, Control, setup' = setup, TestManySeeds \/ Spawn
  PROVE  /\ UNCHANGED <<hi, tried>> /\ main # "exited" /\ main' # "exited"
         /\ UNCHANGED thread \/ \E n \in Threads : ~Begun(n) /\ Begin(n)
         /\ \A u \in Threads : Begun(u) => Begun(u)'
<1>1. FindsNew' = FindsNew /\ Threads' = Threads /\ g_NCPU \in Nat /\ g_NCPU > 0
  BY SetupKept, SetupFields, Sizes DEF TypeOK
<1>2. CASE TestManySeeds
  <2>1. \A u \in Threads : ~Begun(u)
    BY <1>2 DEF TestManySeeds, Begun
  <2>2. 0 \in Threads
    BY <1>1 DEF Threads
  <2> QED
    BY <1>2, <2>1, <2>2 DEF TestManySeeds, thread
<1>3. CASE Spawn
  <2>1. i \in Threads /\ ~Begun(i) /\ Begin(i) /\ i \in Nat
    BY <1>1, <1>3 DEF Spawn, Begun, TypeOK, Threads
  <2>2. \A u \in Threads : Begun(u) => Begun(u)'
    BY <1>1, <1>3, <2>1 DEF Spawn, Begun, Threads
  <2> QED
    BY <1>3, <2>1, <2>2 DEF Spawn
<1> QED
  BY <1>2, <1>3

LEMMA MainThreads ==
  ASSUME TypeOK, Control, TriedInv, \A u \in Threads : ThreadInv(u),
         Main \/ (SpuriousWakeup /\ UNCHANGED setup)
  PROVE  (\A u \in Threads : ThreadInv(u))'
<1>1. setup' = setup
  BY DEF Main
<1>2. CASE TestManySeeds \/ Spawn
  BY <1>1, <1>2, MainBegins, BeginFresh, ThreadsIdle DEF Control
<1>3. CASE ~(TestManySeeds \/ Spawn)
  <2>1. UNCHANGED <<thread, tried>> /\ main # "exited"
    BY <1>3 DEF Main, TestSingleSeed, BadSeedsFind, Wait, Join, Return, Collect, BadSeedsTest,
                SpuriousWakeup
  <2> QED
    BY <1>1, <2>1, ThreadsIdle
<1> QED
  BY <1>2, <1>3

(* A seed that was tried is of a share begun on the present range, or the  *)
(* present range is the last one and the seed is of the first.             *)
LEMMA MainTried ==
  ASSUME TypeOK, Control, TriedInv, \A u \in Threads : ThreadInv(u),
         Main \/ (SpuriousWakeup /\ UNCHANGED setup)
  PROVE  TriedInv'
<1> USE DEF Control
<1>1. setup' = setup /\ Threads' = Threads /\ FindsNew' = FindsNew
  BY SetupKept DEF Main
<1>2. ASSUME UNCHANGED <<hi, tried>>,
             \A u \in Threads : Begun(u) => Begun(u)' /\ last'[u] = last[u]
      PROVE  TriedInv'
  BY <1>1, <1>2, ShareKept DEF TriedInv
<1>3. CASE TestManySeeds \/ Spawn
  <2>1. /\ UNCHANGED <<hi, tried>> /\ main # "exited" /\ main' # "exited"
        /\ UNCHANGED thread \/ \E n \in Threads : ~Begun(n) /\ Begin(n)
        /\ \A u \in Threads : Begun(u) => Begun(u)'
    BY <1>1, <1>3, MainBegins
  <2>2. CASE UNCHANGED thread
    BY <1>2, <2>1, <2>2 DEF thread
  <2>3. CASE \E n \in Threads : ~Begun(n) /\ Begin(n)
    BY <1>1, <1>2, <2>1, <2>3, BeginFresh
  <2> QED
    BY <2>1, <2>2, <2>3
<1>4. CASE Collect
  <2>1. /\ tried' = tried /\ last' = last /\ main = "collect" /\ FindsNew /\ LastRange # 0
        /\ IF hi = 0 /\ ~is32BitSeed THEN hi' = LastRange ELSE hi' = hi /\ main' = "report"
    BY <1>4, Sizes DEF Collect, thread, ModeInv
  <2>2. \A u \in Threads : Begun(u)
    BY <2>1 DEF Begun
  <2>3. CASE hi' = hi /\ main' = "report"
    <3>1. \A u \in Threads : Begun(u)'
      BY <1>1, <2>1, <2>3 DEF Begun
    <3> QED
      BY <1>2, <2>1, <2>3, <3>1
  <2>4. CASE hi = 0 /\ hi' = LastRange
    <3>1. ASSUME NEW u \in Threads PROVE Share(u) \subseteq Low
      <4>1. pc[u] # "idle"
        BY <2>2 DEF PhaseInv
      <4>2. PICK b \in {0, LastRange} :
              Share(u) = b + start(u) .. b + end(u) /\ b = hi
        BY <2>2, <4>1, ShareFacts
      <4> QED
        BY <2>4, <4>2, ShareBounds, Sizes DEF Low, TypeOK
    <3>2. \A s \in Seeds : tried[s] # 0 => s \in Low
      BY <2>4, <3>1 DEF TriedInv
    <3> QED
      BY <2>1, <2>4, <3>2, Sizes DEF TriedInv, Low
  <2> QED
    BY <2>1, <2>3, <2>4
<1>5. CASE ~(TestManySeeds \/ Spawn \/ Collect)
  <2>1. /\ UNCHANGED <<hi, tried, last>>
        /\ main = "known" \/ main' \notin {"known", "many", "spawn"}
    BY <1>5 DEF Main, TestSingleSeed, BadSeedsFind, Wait, Join, Return, BadSeedsTest,
                SpuriousWakeup, thread
  <2>2. \A u \in Threads : Begun(u) => Begun(u)'
    BY <1>1, <2>1 DEF Begun
  <2> QED
    BY <1>2, <2>1, <2>2
<1> QED
  BY <1>3, <1>4, <1>5

-----------------------------------------------------------------------------
(* The results of a range.                                                 *)

(* A thread that is done with its share has tried all of it, unless it     *)
(* found more bad seeds than the test takes.                               *)
LEMMA DoneThread ==
  ASSUME TypeOK, PhaseInv, NEW t \in Threads, ThreadInv(t), pc[t] = "done", fails[t] <= MaxFails
  PROVE  \A s \in Share(t) : tried[s] = 1 /\ s # seed[t]
<1>1. fails[t] \in Nat /\ MaxFails \in Nat
  BY SetupFields DEF TypeOK
<1>2. seed[t] = (last[t] + 1) % U64 /\ \A s \in Share(t) : tried[s] = 1
  BY <1>1 DEF ThreadInv, Scanned
<1>3. \A s \in Share(t) : s # seed[t]
  BY <1>2, ShareInSeeds, NextSeed
<1> QED
  BY <1>2, <1>3

(* It did not if there are not so many in the range, or if its result is   *)
(* good: it gave up over a bad seed that came after another.               *)
LEMMA NotTooMany ==
  ASSUME TypeOK, Control, NEW t \in Threads, ThreadInv(t), pc[t] = "done", Begun(t),
         NoneGivenUp \/ results[t]
  PROVE  fails[t] <= MaxFails
<1> USE DEF Control
<1> DEFINE F == {s \in Share(t) \cap Bad : tried[s] > 0}
           G == {s \in Share(t) \cap Broken : tried[s] > 0 /\ s # seed[t]}
<1>1. /\ IsFiniteSet(Share(t)) /\ Share(t) \subseteq Seeds /\ MaxFails \in Nat \ {0}
      /\ IsFiniteSet(F) /\ IsFiniteSet(G) /\ fails[t] = Cardinality(F) + Cardinality(G)
      /\ Cardinality(F) \in Nat /\ Cardinality(G) \in Nat
  <2>1. IsFiniteSet(Share(t)) /\ Share(t) \subseteq Seeds /\ MaxFails \in Nat \ {0}
    BY ShareInSeeds, SetupFields DEF TypeOK
  <2>2. IsFiniteSet(F) /\ IsFiniteSet(G)
    BY <2>1, FS_Subset
  <2>3. fails[t] = Cardinality(F) + Cardinality(G)
    BY DEF ThreadInv, Noted, CountedFails
  <2> HIDE DEF F, G
  <2> QED
    BY <2>1, <2>2, <2>3, FS_CardinalityType
<1>2. CASE results[t]
  <2>1. Passed(t) \cap Faulty = {}
    BY <1>2 DEF ThreadInv, Noted
  <2>2. G = {} /\ F \subseteq {seed[t]}
    BY <2>1 DEF Passed, Faulty
  <2>3. Cardinality(G) = 0 /\ Cardinality(F) <= 1
    <3> HIDE DEF F, G
    <3>1. IsFiniteSet({seed[t]}) /\ Cardinality({seed[t]}) = 1
      BY FS_Singleton
    <3> QED
      BY <2>2, <3>1, FS_EmptySet, FS_Subset
  <2> HIDE DEF F, G
  <2> QED
    BY <1>1, <2>3
<1>3. CASE NoneGivenUp
  <2> DEFINE R == hi .. hi + U32 - 1
  <2>1. PICK b \in {0, LastRange} :
          Share(t) = b + start(t) .. b + end(t) /\ b = hi
    BY ShareFacts
  <2>2. hi \in Nat /\ start(t) \in Nat /\ end(t) \in Nat /\ end(t) < U32 /\ U32 \in Nat
    BY ShareBounds, Sizes DEF TypeOK
  <2>3. Share(t) \subseteq R /\ IsFiniteSet(R)
    <3>1. hi + U32 - 1 \in Int /\ hi \in Int
      BY <2>2
    <3>2. IsFiniteSet(R)
      BY <3>1, FS_Interval
    <3> QED
      BY <2>1, <2>2, <3>2
  <2>4. R \in Ranges
    <3>1. FindsNew
      BY DEF Begun
    <3>2. CASE hi = 0
      BY <3>1, <3>2, Sizes DEF Ranges, FindsNew, Low
    <3>3. CASE hi # 0
      BY <3>1, <3>3, Sizes, SMTT(30) DEF Ranges, FindsNew, TypeOK, ModeInv
    <3> QED
      BY <3>2, <3>3
  <2>5. Cardinality(R \cap Bad) + Cardinality(R \cap Broken) <= MaxFails
    BY <1>3, <2>4 DEF NoneGivenUp
  <2>6. F \subseteq R \cap Bad /\ G \subseteq R \cap Broken
    BY <2>3
  <2>7. IsFiniteSet(R \cap Bad) /\ IsFiniteSet(R \cap Broken)
    BY <2>3, FS_Subset
  <2> DEFINE RB == R \cap Bad
             RK == R \cap Broken
  <2>8. /\ Cardinality(F) <= Cardinality(RB) /\ Cardinality(G) <= Cardinality(RK)
        /\ Cardinality(RB) \in Nat /\ Cardinality(RK) \in Nat
    <3>1. IsFiniteSet(RB) /\ IsFiniteSet(RK) /\ F \subseteq RB /\ G \subseteq RK
      BY <2>6, <2>7
    <3> HIDE DEF F, G, RB, RK
    <3> QED
      BY <3>1, FS_Subset, FS_CardinalityType
  <2>9. Cardinality(RB) + Cardinality(RK) <= MaxFails
    BY <2>5
  <2> HIDE DEF F, G, RB, RK
  <2> QED
    BY <1>1, <2>8, <2>9
<1> QED
  BY <1>2, <1>3

(* What the threads' flags tell of the present range.                      *)
LEMMA RangeResult ==
  ASSUME TypeOK, Control, \A u \in Threads : ThreadInv(u),
         \A u \in Threads : pc[u] = "done" /\ Begun(u)
  PROVE  /\ NoneGivenUp \/ (\A u \in Threads : results[u]) => \A s \in Present : tried[s] = 1
         /\ NoneGivenUp => ((\E u \in Threads : newresults[u])
                              <=> \E s \in Present \cap Faulty : s \notin badseeds)
         /\ (\A u \in Threads : results[u]) => \A s \in Present : s \notin Faulty
         /\ ~(\A u \in Threads : results[u]) => \E s \in Faulty \cap Seeds : tried[s] > 0
<1> USE DEF Control
<1>1. hi \in Nat /\ U32 \in Nat
  BY Sizes DEF TypeOK
<1>2. ASSUME NEW u \in Threads PROVE Share(u) \subseteq Present /\ Share(u) \subseteq Seeds
  <2>1. PICK b \in {0, LastRange} : Share(u) = b + start(u) .. b + end(u) /\ b = hi
    BY ShareFacts
  <2>2. Share(u) \subseteq Present
    BY <1>1, <2>1, ShareBounds DEF TypeOK, Present
  <2>3. Share(u) \subseteq Seeds
    BY ShareInSeeds
  <2> QED
    BY <2>2, <2>3
<1>3. ASSUME NEW s \in Present PROVE \E u \in Threads : s \in Share(u)
  <2>1. s - hi \in Low /\ s \in Nat
    BY <1>1, <1>3 DEF Present, Low
  <2>2. PICK u \in Threads : s - hi \in start(u) .. end(u)
    BY <2>1, SharesTile DEF TypeOK
  <2>3. PICK b \in {0, LastRange} : Share(u) = b + start(u) .. b + end(u) /\ b = hi
    BY ShareFacts
  <2> QED
    BY <1>1, <2>1, <2>2, <2>3, ShareBounds DEF TypeOK
<1>4. ASSUME NEW u \in Threads, NoneGivenUp \/ results[u]
      PROVE  /\ \A s \in Share(u) : tried[s] = 1 /\ s # seed[u]
             /\ fails[u] <= MaxFails
  BY <1>4, NotTooMany, DoneThread
<1>5. ASSUME NEW u \in Threads
      PROVE  results[u] <=> Passed(u) \cap Faulty = {}
  BY DEF ThreadInv, Noted
<1>6. NoneGivenUp \/ (\A u \in Threads : results[u]) => \A s \in Present : tried[s] = 1
  BY <1>3, <1>4
<1>7. (\A u \in Threads : results[u]) => \A s \in Present : s \notin Faulty
  <2> SUFFICES ASSUME \A u \in Threads : results[u], NEW s \in Present PROVE s \notin Faulty
    OBVIOUS
  <2>1. PICK u \in Threads : s \in Share(u)
    BY <1>3
  <2>2. s \in Passed(u)
    BY <1>4, <2>1 DEF Passed
  <2> QED
    BY <1>5, <2>2
<1>8. ~(\A u \in Threads : results[u]) => \E s \in Faulty \cap Seeds : tried[s] > 0
  BY <1>2, <1>5 DEF Passed
<1>9. ASSUME NoneGivenUp
      PROVE  (\E u \in Threads : newresults[u]) <=> \E s \in Present \cap Faulty : s \notin badseeds
  <2>1. ASSUME NEW u \in Threads
        PROVE  newresults[u] <=> \E s \in Share(u) \cap Faulty : s \notin badseeds
    <3>1. newresults[u] <=> \E s \in Share(u) \ badseeds :
            tried[s] > 0 /\ (s \in Bad \/ (s \in Broken /\ s # seed[u]))
      BY <1>4, <1>9 DEF ThreadInv, Noted
    <3> QED
      BY <1>4, <1>9, <3>1 DEF Faulty
  <2> QED
    BY <1>2, <1>3, <2>1
<1> QED
  BY <1>6, <1>7, <1>8, <1>9

LEMMA MinOf ==
  ASSUME NEW S \in SUBSET Nat, S # {}
  PROVE  Min(S) \in S
<1>1. PICK n \in S : \A m \in S : n <= m
  BY LeastNatural
<1> QED
  BY <1>1 DEF Min

LEMMA ResultKnown ==
  ASSUME TypeOK, Control, ResultInv, setup' = setup, TestSingleSeed
  PROVE  ResultInv'
<1> DEFINE s == Min(known)
<1>1. /\ UNCHANGED <<main, hi, newresult, tried>> /\ main = "known" /\ known' = known \ {s}
      /\ hi = 0 /\ ~setup.short
      /\ result' = IF is32BitSeed /\ s \notin Low THEN result ELSE result /\ s \notin Faulty
  BY DEF TestSingleSeed, Control, ModeInv
<1>2. /\ NoneGivenUp' = NoneGivenUp /\ Faulty' = Faulty /\ Listed' = Listed
      /\ badseeds' = badseeds /\ Condemned' = Condemned
  BY SetupKept
<1>3. Over = {} /\ Over' = {}
  BY <1>1 DEF Over
<1>4. s \in known /\ s \in badseeds /\ s \in Seeds
  <2>1. known \in SUBSET Nat /\ known # {} /\ known \subseteq badseeds /\ badseeds \subseteq Seeds
    BY SetupFields DEF TestSingleSeed, TypeOK, Seeds
  <2> QED
    BY <2>1, MinOf
<1> HIDE DEF s
<1>5. s \in Listed <=> ~(is32BitSeed /\ s \notin Low)
  BY <1>4 DEF Listed
<1>6. result' => (Listed \ known') \cap Faulty = {}
  BY <1>1, <1>5 DEF ResultInv, TypeOK
<1>7. ~result' => \E x \in Faulty \cap Seeds : x \in Listed \ known' \/ tried[x] > 0
  BY <1>1, <1>4, <1>5 DEF ResultInv, TypeOK
<1> QED
  BY <1>1, <1>2, <1>3, <1>6, <1>7 DEF ResultInv, TypeOK

LEMMA ResultFind ==
  ASSUME TypeOK, Control, ResultInv, setup' = setup, BadSeedsFind
  PROVE  ResultInv'
<1>1. /\ UNCHANGED <<hi, newresult, known, tried>> /\ main = "known" /\ hi = 0 /\ ~setup.short
  BY DEF BadSeedsFind, Control, ModeInv
<1>2. IF FindsNew THEN main' = "many" /\ result' = result
      ELSE main' = "report" /\ result' = (result /\ ~Condemned)
  BY <1>1, SizesAssumption DEF BadSeedsFind, Search, FindsNew, Condemned, TypeOK
<1>3. /\ NoneGivenUp' = NoneGivenUp /\ Faulty' = Faulty /\ Listed' = Listed
      /\ badseeds' = badseeds /\ Condemned' = Condemned /\ FindsNew' = FindsNew
  BY SetupKept
<1>4. Over = {} /\ Over' = {}
  BY <1>1, <1>2, <1>3 DEF Over
<1> QED
  BY <1>1, <1>2, <1>3, <1>4 DEF ResultInv, TypeOK

LEMMA ResultCollect ==
  ASSUME TypeOK, Control, \A u \in Threads : ThreadInv(u), ResultInv, setup' = setup, Collect
  PROVE  ResultInv'
<1>1. /\ UNCHANGED <<known, tried>> /\ main = "collect" /\ FindsNew /\ LastRange # 0
      /\ IF hi = 0 /\ ~is32BitSeed THEN hi' = LastRange /\ main' = "many"
         ELSE hi' = hi /\ main' = "report"
      /\ result' = (result /\ \A t \in Threads : results[t])
      /\ newresult' = (newresult \/ \E t \in Threads : newresults[t])
  BY Sizes DEF Collect, Control, ModeInv
<1>2. /\ NoneGivenUp' = NoneGivenUp /\ Faulty' = Faulty /\ Listed' = Listed
      /\ badseeds' = badseeds /\ Condemned' = Condemned /\ FindsNew' = FindsNew
  BY SetupKept
<1>3. \A u \in Threads : pc[u] = "done" /\ Begun(u)
  BY <1>1 DEF Control, PhaseInv, Begun
<1>4. Over' = Over \cup Present
  BY <1>1, <1>2, Sizes DEF Over, Present, Low
<1> DEFINE good == \A u \in Threads : results[u]
           new == \E u \in Threads : newresults[u]
<1>5. /\ NoneGivenUp \/ good => \A s \in Present : tried[s] = 1
      /\ NoneGivenUp => (new <=> \E s \in Present \cap Faulty : s \notin badseeds)
      /\ good => \A s \in Present : s \notin Faulty
      /\ ~good => \E s \in Faulty \cap Seeds : tried[s] > 0
  BY <1>3, RangeResult
<1>6. (result' <=> result /\ good) /\ (newresult' <=> newresult \/ new)
  BY <1>1
<1>7. ~Condemned
  BY <1>1 DEF Condemned, FindsNew
<1> HIDE DEF good, new
<1>8. (NoneGivenUp \/ result => \A s \in Over : tried[s] = 1)'
  BY <1>1, <1>2, <1>4, <1>5, <1>6 DEF ResultInv
<1>9. (NoneGivenUp => (newresult <=> \E s \in Over \cap Faulty : s \notin badseeds))'
  BY <1>2, <1>4, <1>5, <1>6 DEF ResultInv
<1>10. (result => \A s \in Over : s \notin Faulty)'
  BY <1>2, <1>4, <1>5, <1>6 DEF ResultInv
<1>11. (~result => \E s \in Faulty \cap Seeds : s \in Listed \ known \/ tried[s] > 0)'
  <2>1. ~result => \E s \in Faulty \cap Seeds : s \in Listed \ known \/ tried[s] > 0
    BY <1>7 DEF ResultInv
  <2> QED
    BY <1>1, <1>2, <1>5, <1>6, <2>1
<1> QED
  BY <1>1, <1>2, <1>6, <1>7, <1>8, <1>9, <1>10, <1>11 DEF ResultInv

LEMMA MainResult ==
  ASSUME TypeOK, Control, \A u \in Threads : ThreadInv(u), ResultInv,
         Main \/ (SpuriousWakeup /\ UNCHANGED setup)
  PROVE  ResultInv'
<1>1. setup' = setup
  BY DEF Main
<1>2. CASE TestSingleSeed \/ BadSeedsFind \/ Collect
  BY <1>1, <1>2, ResultKnown, ResultFind, ResultCollect
<1>3. CASE ~(TestSingleSeed \/ BadSeedsFind \/ Collect)
  <2>1. /\ UNCHANGED <<hi, result, newresult, known, tried>>
        /\ (main \in {"report", "done"} <=> main' \in {"report", "done"})
    BY <1>3 DEF Main, TestManySeeds, Spawn, Wait, Join, Return, BadSeedsTest, SpuriousWakeup
  <2>2. /\ NoneGivenUp' = NoneGivenUp /\ Faulty' = Faulty /\ Listed' = Listed
        /\ badseeds' = badseeds /\ Condemned' = Condemned /\ FindsNew' = FindsNew
    BY <1>1, SetupKept
  <2>3. Over' = Over
    BY <2>1, <2>2 DEF Over, Present
  <2> QED
    BY <1>1, <2>1, <2>2, <2>3 DEF ResultInv
<1> QED
  BY <1>2, <1>3

-----------------------------------------------------------------------------
(* The invariant holds throughout.                                         *)

LEMMA InvInit == Init => Inv
<1> SUFFICES ASSUME Init PROVE Inv
  OBVIOUS
<1>1. TypeOK
  BY TypeInit
<1>2. /\ main = (IF setup.short THEN "done" ELSE "known") /\ hi = 0 /\ known = badseeds
      /\ result = TRUE /\ newresult = FALSE /\ midline = FALSE /\ progress_mutex = "free"
      /\ verdict = "none" /\ seed_progress = 0
      /\ (\A t \in Threads : pc[t] = "idle") /\ (\A s \in Seeds : tried[s] = 0)
  BY DEF Init
<1>3. ~FindsNew \/ main = "known"
  BY <1>2 DEF FindsNew
<1>4. ModeInv
  BY <1>2, <1>3 DEF ModeInv, FindsNew
<1>5. PhaseInv
  BY <1>2, <1>3 DEF PhaseInv, Begun
<1>6. HandshakeInv /\ ColumnInv
  BY <1>2 DEF HandshakeInv, ColumnInv, ProgressColumn, Running
<1>7. (\A t \in Threads : ThreadInv(t)) /\ TriedInv
  BY <1>2 DEF ThreadInv, TriedInv
<1>8. ResultInv
  BY <1>2, <1>3 DEF ResultInv, Over, Listed
<1> QED
  BY <1>1, <1>4, <1>5, <1>6, <1>7, <1>8 DEF Inv

LEMMA MainControl ==
  ASSUME TypeOK, Control, Main \/ (SpuriousWakeup /\ UNCHANGED setup)
  PROVE  Control'
BY MainControlKnown, MainControlFind, MainControlMany, MainControlSpawn, MainControlWait,
   MainControlJoin, MainControlCollect, MainControlReport DEF Main

LEMMA InvStep == Inv /\ [Next]_vars => Inv'
<1> SUFFICES ASSUME Inv, [Next]_vars PROVE Inv'
  OBVIOUS
<1>1. TypeOK'
  BY TypeStep DEF Inv
<1>2. CASE Main \/ (SpuriousWakeup /\ UNCHANGED setup)
  BY <1>1, <1>2, MainControl, MainThreads, MainTried, MainResult DEF Inv, Control
<1>3. ASSUME NEW t \in Threads, TestSeedRangeThread(t) PROVE Inv'
  BY <1>1, <1>3, ThreadPhase, ThreadHandshake, ThreadColumn, ThreadThreads, ThreadTried,
     ThreadResult DEF Inv
<1>4. CASE UNCHANGED vars
  <2>1. /\ UNCHANGED <<setup, main, hi, i, result, newresult, known, verdict, pc, seed, last,
                       fails, results, newresults, seed_progress, midline, threads_remaining,
                       progress_mutex, tried>>
    BY <1>4 DEF vars, run, thread, out, sync
  <2>2. /\ g_NCPU' = g_NCPU /\ MaxFails' = MaxFails /\ is32BitSeed' = is32BitSeed
        /\ badseeds' = badseeds /\ Bad' = Bad /\ Broken' = Broken /\ Faulty' = Faulty
        /\ Threads' = Threads /\ FindsNew' = FindsNew /\ Condemned' = Condemned
        /\ NoneGivenUp' = NoneGivenUp /\ Listed' = Listed
        /\ (\A t : end(t)' = end(t)) /\ (\A t : Begun(t)' <=> Begun(t))
        /\ (\A t : Share(t)' = Share(t)) /\ Over' = Over
    BY <2>1, SetupKept, ShareKept DEF Begun, Over, Present
  <2>3. ModeInv' /\ PhaseInv' /\ ColumnInv'
    BY <2>1, <2>2 DEF Inv, ModeInv, PhaseInv, ColumnInv, ProgressColumn, Running
  <2>4. HandshakeInv'
    BY <2>1, <2>2 DEF Inv, HandshakeInv, Unannounced
  <2>5. (\A t \in Threads : ThreadInv(t))'
    BY <2>1, <2>2, ThreadKept DEF Inv
  <2>6. TriedInv' /\ ResultInv'
    BY <2>1, <2>2 DEF Inv, TriedInv, ResultInv
  <2> QED
    BY <1>1, <2>3, <2>4, <2>5, <2>6 DEF Inv
<1> QED
  BY <1>2, <1>3, <1>4 DEF Next

THEOREM Invariance == Spec => []Inv
BY InvInit, InvStep, PTL DEF Spec

-----------------------------------------------------------------------------
(* What the invariant says of the ranges to search.                        *)

LEMMA SearchedSeeds ==
  ASSUME Inv
  PROVE  /\ Searched \subseteq Seeds
         /\ main \in {"report", "done"} => Over = Searched
         /\ \A t \in Threads : Begun(t) => Share(t) \subseteq Searched
         /\ hi # 0 => Low \subseteq Searched
         /\ \A s \in Seeds : tried[s] # 0 => s \in Searched
<1> USE DEF Inv
<1>1. /\ Searched = IF ~FindsNew THEN {} ELSE IF is32BitSeed THEN Low
                    ELSE Low \cup (LastRange .. U64-1)
      /\ is32BitSeed \in BOOLEAN
  BY SetupFields DEF Searched, Ranges, FindsNew, TypeOK
<1>2. /\ hi = 0 => Present = Low
      /\ hi # 0 => Present = LastRange .. U64-1
  BY Sizes DEF TypeOK, Present, Low
<1>3. /\ (hi # 0 => FindsNew /\ ~is32BitSeed)
      /\ main \in {"report", "done"} /\ FindsNew /\ ~is32BitSeed => hi # 0
  BY DEF ModeInv
<1>4. Searched \subseteq Seeds
  BY <1>1, Sizes DEF Low, Seeds
<1>5. main \in {"report", "done"} => Over = Searched
  BY <1>1, <1>2, <1>3 DEF Over
<1>6. ASSUME NEW t \in Threads, Begun(t) PROVE Share(t) \subseteq Searched
  <2>1. pc[t] # "idle" /\ FindsNew
    BY <1>6 DEF PhaseInv, Begun
  <2>2. PICK b \in {0, LastRange} : Share(t) = b + start(t) .. b + end(t) /\ b = hi
    BY <1>6, <2>1, ShareFacts
  <2>3. Share(t) \subseteq Present
    BY <2>2, ShareBounds, Sizes DEF TypeOK, Present
  <2>4. Present \subseteq Searched
    BY <1>1, <1>2, <1>3, <2>1
  <2> QED
    BY <2>3, <2>4
<1>7. hi # 0 => Low \subseteq Searched
  BY <1>1, <1>3
<1> QED
  BY <1>4, <1>5, <1>6, <1>7 DEF TriedInv

(* The shares tile the ranges, whatever the number of threads: no seed is  *)
(* tried twice and, in a search that nobody gave up, none is left out.     *)
THEOREM Tiling == Spec => []ScannedOnce
<1>1. Inv => ScannedOnce
  <2> SUFFICES ASSUME Inv PROVE ScannedOnce
    OBVIOUS
  <2>1. \A s \in Seeds : tried[s] <= IF s \in Searched THEN 1 ELSE 0
    BY SearchedSeeds DEF Inv, TriedInv
  <2> QED
    BY <2>1, SearchedSeeds DEF Inv, ResultInv, ScannedOnce
<1> QED
  BY <1>1, Invariance, PTL

(* The main thread joins only threads that have announced their share,     *)
(* whatever wakes it, as the count is that of those that have not.         *)
THEOREM Handshake == Spec => []AllAnnounced
<1>1. Inv => AllAnnounced
  <2> SUFFICES ASSUME Inv, main = "join", NEW t \in Threads
               PROVE  pc[t] \notin {"idle", "announce", "init"}
    BY DEF AllAnnounced
  <2>1. IsFiniteSet(Threads)
    BY SetupFields, FS_Interval DEF Inv, TypeOK, Threads
  <2>2. IsFiniteSet(Unannounced) /\ Cardinality(Unannounced) = 0
    BY <2>1, FS_Subset DEF Inv, HandshakeInv, Unannounced
  <2>3. Unannounced = {}
    BY <2>2, FS_EmptySet
  <2>4. Begun(t)
    BY DEF Inv, ModeInv, Begun
  <2> QED
    BY <2>3, <2>4 DEF Inv, PhaseInv, Unannounced
<1> QED
  BY <1>1, Invariance, PTL

(* seed_progress tells of the output's last line, whichever thread printed.*)
THEOREM Column == Spec => []ProgressColumn
<1>1. Inv => ProgressColumn
  BY DEF Inv, ColumnInv
<1> QED
  BY <1>1, Invariance, PTL

(* A thread counts the bad seeds of its share, each once for each fault.   *)
THEOREM OwnCount == Spec => []FailsCounted
<1>1. Inv => FailsCounted
  BY DEF Inv, ThreadInv, Noted, CountedFails, FailsCounted
<1> QED
  BY <1>1, Invariance, PTL

(* New bad seeds are reported exactly if there are any in the ranges.      *)
THEOREM News == Spec => []NewReported
<1>1. Inv => NewReported
  BY SearchedSeeds DEF Inv, ResultInv, NewReported
<1> QED
  BY <1>1, Invariance, PTL

-----------------------------------------------------------------------------
(* The refinement of SeedSearch.                                           *)

TriedSoFar == (Listed \ known) \cup {s \in Seeds : tried[s] > 0}

LEMMA PromiseInit == Init => Promise!Init
<1> SUFFICES ASSUME Init PROVE TriedSoFar = {} /\ verdict = "none"
  BY DEF Promise!Init, TriedSoFar
<1> QED
  BY DEF Init, TriedSoFar, Listed

LEMMA PromiseVerdict ==
  ASSUME Inv, BadSeedsTest, setup' = setup
  PROVE  Promise!Next
<1>1. /\ UNCHANGED <<known, tried>> /\ main = "report" /\ verdict = "none"
      /\ verdict' = IF result THEN "pass" ELSE "fail"
  BY DEF BadSeedsTest, Inv, ModeInv
<1>2. TriedSoFar' = TriedSoFar /\ Faulty' = Faulty /\ Listed' = Listed /\ Searched' = Searched
  BY <1>1, SetupKept DEF TriedSoFar, Seeds
<1>3. known = {} /\ ~setup.short
  BY <1>1 DEF Inv, ModeInv
<1>4. CASE result
  <2>1. TriedSoFar = Listed \cup Searched
    <3>1. \A s \in Seeds : tried[s] > 0 <=> s \in Searched
      BY <1>1, <1>4, SearchedSeeds DEF Inv, TypeOK, TriedInv, ResultInv
    <3> QED
      BY <1>3, <3>1, SearchedSeeds DEF TriedSoFar
  <2>2. TriedSoFar \cap Faulty = {}
    BY <1>1, <1>3, <1>4, <2>1, SearchedSeeds DEF Inv, ResultInv
  <2>3. ~Condemned
    BY <1>1, <1>3, <1>4 DEF Inv, ResultInv
  <2> QED
    BY <1>1, <1>2, <1>4, <2>1, <2>2, <2>3
    DEF TriedSoFar, Condemned, Promise!Next, Promise!Judge, Promise!Pass, Promise!inputs
<1>5. CASE ~result
  <2>1. TriedSoFar \cap Faulty # {} \/ Condemned
    BY <1>5 DEF Inv, ResultInv, TriedSoFar
  <2> QED
    BY <1>1, <1>2, <1>5, <2>1
    DEF TriedSoFar, Condemned, Promise!Next, Promise!Judge, Promise!Fail, Promise!inputs
<1> QED
  BY <1>4, <1>5

(* Every other step tries one seed of those to try, or none.               *)
LEMMA PromiseTry ==
  ASSUME setup' = setup, verdict = "none", verdict' = verdict, NEW s \in Listed \cup Searched,
         TriedSoFar' = TriedSoFar \/ TriedSoFar' = TriedSoFar \cup {s}
  PROVE  [Promise!Next]_<<Promise!inputs, TriedSoFar, verdict>>
<1>1. /\ Faulty' = Faulty /\ Listed' = Listed /\ Searched' = Searched
  BY SetupKept
<1>2. UNCHANGED Promise!inputs
  BY <1>1 DEF Promise!inputs
<1>3. CASE TriedSoFar' = TriedSoFar
  BY <1>2, <1>3
<1>4. CASE TriedSoFar' = TriedSoFar \cup {s} /\ s \notin TriedSoFar
  BY <1>2, <1>4 DEF TriedSoFar, Promise!Next, Promise!Try
<1> QED
  BY <1>3, <1>4

LEMMA PromiseStep ==
  ASSUME Inv, [Next]_vars
  PROVE  [Promise!Next]_<<Promise!inputs, TriedSoFar, verdict>>
<1> USE DEF Inv
<1>1. setup' = setup
  BY DEF Next, Main, TestSeedRangeThread, vars
<1>2. /\ Faulty' = Faulty /\ Listed' = Listed /\ Searched' = Searched
      /\ UNCHANGED Promise!inputs
  BY <1>1, SetupKept DEF Promise!inputs
<1>3. ASSUME UNCHANGED <<known, tried, verdict>>
      PROVE  [Promise!Next]_<<Promise!inputs, TriedSoFar, verdict>>
  BY <1>2, <1>3 DEF TriedSoFar, Seeds
<1>4. CASE TestSingleSeed
  <2> DEFINE s == Min(known)
  <2>1. /\ known' = known \ {s} /\ UNCHANGED <<tried, verdict>> /\ main = "known"
        /\ verdict = "none"
    BY <1>4 DEF TestSingleSeed, ModeInv
  <2> HIDE DEF s
  <2>2. CASE s \in Listed /\ s \in known
    <3>1. TriedSoFar' = TriedSoFar \cup {s}
      BY <1>2, <2>1, <2>2 DEF TriedSoFar, Seeds
    <3> QED
      BY <1>1, <2>1, <2>2, <3>1, PromiseTry
  <2>3. CASE ~(s \in Listed /\ s \in known)
    <3>1. TriedSoFar' = TriedSoFar
      BY <1>2, <2>1, <2>3 DEF TriedSoFar, Seeds
    <3> QED
      BY <1>2, <2>1, <3>1
  <2> QED
    BY <2>2, <2>3
<1>5. CASE BadSeedsTest
  BY <1>1, <1>5, PromiseVerdict
<1>6. CASE Main /\ ~TestSingleSeed /\ ~BadSeedsTest
  BY <1>3, <1>6 DEF Main, BadSeedsFind, TestManySeeds, Spawn, Wait, Join, Return, Collect
<1>7. CASE SpuriousWakeup
  BY <1>3, <1>7 DEF SpuriousWakeup
<1>8. ASSUME NEW t \in Threads, TestSeedRangeThread(t)
      PROVE  [Promise!Next]_<<Promise!inputs, TriedSoFar, verdict>>
  <2>1. known' = known /\ verdict' = verdict /\ Running
    BY <1>8, ThreadEffect
  <2>2. CASE tried' = tried
    BY <1>3, <2>1, <2>2
  <2>3. CASE tried' # tried
    <3>1. /\ seed[t] \in Share(t)
          /\ \A s \in Seeds : tried'[s] = IF s = seed[t] THEN 1 ELSE tried[s]
      BY <1>8, <2>3, ThreadTries
    <3>2. seed[t] \in Searched
      BY <1>8, <3>1, BegunKept, SearchedSeeds
    <3>3. TriedSoFar' = TriedSoFar \cup {seed[t]}
      BY <1>2, <2>1, <3>1 DEF TriedSoFar, Seeds, TypeOK
    <3>4. verdict = "none"
      BY <2>1 DEF Running, ModeInv
    <3> QED
      BY <1>1, <2>1, <3>2, <3>3, <3>4, PromiseTry
  <2> QED
    BY <2>2, <2>3
<1>9. CASE UNCHANGED vars
  BY <1>3, <1>9 DEF vars, run
<1> QED
  BY <1>4, <1>5, <1>6, <1>7, <1>8, <1>9 DEF Next

(* The verdict is that of the seeds: however many threads divide the work, *)
(* and however they are scheduled, a hash passes only if every seed of the *)
(* list and the ranges was tried and is good, and fails only over one that *)
(* was tried and is bad, or over the description of them.                  *)
THEOREM Implementation == Spec => ImplementsSeedSearch
<1>1. Init => Promise!Init
  BY PromiseInit
<1>2. Inv /\ [Next]_vars => [Promise!Next]_<<Promise!inputs, TriedSoFar, verdict>>
  BY PromiseStep
<1> QED
  BY <1>1, <1>2, Invariance, PTL DEF Spec, ImplementsSeedSearch, Promise!Spec, TriedSoFar

=============================================================================
