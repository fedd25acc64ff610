--------------------------- MODULE AvalancheProofs ---------------------------
(***************************************************************************)
(* For every number of threads, keys, key bits and hash bits and every     *)
(* hash function: the threads of Avalanche keep their histograms exact,    *)
(* no histogram is read while a thread may still write to it, and what the *)
(* test evaluates is what BiasCount specifies.                             *)
(***************************************************************************)
EXTENDS Avalanche, Modular, FiniteSetTheorems, TLAPS

(* The inductive invariant. TypeOK but for the two bounds shown below it.  *)
Types ==
  /\ irepp \in Nat
  /\ bins \in [Threads -> [Bins -> Nat]]
  /\ pc \in [Threads -> {"unborn", "claim", "flip", "done"}]
  /\ irep \in [Threads -> Reps]
  /\ iBit \in [Threads -> 0 .. keybits]
  /\ K \in [Threads -> SUBSET (0 .. keybits-1)]
  /\ A \in [Threads -> SUBSET (0 .. hashbits-1)]
  /\ cursor \in [Threads -> 0 .. arraysize]
  /\ main \in {"spawn", "join", "merge", "report", "done"}
  /\ i \in Threads \cup {1}
  /\ owner \in [Reps -> Threads \cup {NoOne}]

(* Each thread that has left has claimed one number too many.              *)
Done == {t \in Threads : pc[t] = "done"}
Claims == irepp <= reps + Cardinality(Done)

(* The loops of the main thread.                                           *)
MainLoop ==
  /\ main = "spawn" => i \in Threads /\ \A t \in Threads : pc[t] = "unborn" <=> t >= i
  /\ main # "spawn" => \A t \in Threads : pc[t] # "unborn"
  /\ main = "join" => i \in Threads /\ \A t \in Threads : t < i => pc[t] = "done"
  /\ main \in {"merge", "report", "done"} => \A t \in Threads : pc[t] = "done"
  /\ main = "merge" => i \in 1 .. g_NCPU-1
  /\ main = "report" => i <= 1

(* A thread that flips the bits of a key has claimed it, its copy of the   *)
(* key is the key, and its cursor points to the counters of the next bit.  *)
Flipping ==
  \A t \in Threads : pc[t] = "flip" =>
    /\ owner[irep[t]] = t
    /\ iBit[t] < keybits
    /\ cursor[t] = iBit[t] * hashbits
    /\ K[t] = {}
    /\ A[t] = hash[irep[t]][{}]

Claimed == \A r \in Reps : owner[r] = NoOne <=> r >= irepp

AllClaimed == \A t \in Threads : pc[t] = "done" => irepp >= reps

(* The dots printed for the first n keys, and those printed so far.        *)
DotsUpTo(n) ==
  IF n = 0 THEN 0
  ELSE IF reps > totaldots
       THEN 1 + (((n - 1) * (totaldots - 1)) \div (reps - 1))
       ELSE (n * totaldots) \div reps

DotsSoFar == dots = DotsUpTo(IF irepp < reps THEN irepp ELSE reps)

(* The flips of the keys that threads in S claimed that change counter x.  *)
ChangesOf(S, x) == {j \in Jobs : owner[j[1]] \in S /\ x \in ChangedBy(j)}

(* The first histogram grows from its own flips to all flips.              *)
Merging ==
  /\ main = "merge" =>
       /\ \A x \in Bins : bins[0][x] = Cardinality(ChangesOf(0 .. i-1, x))
       /\ \A t \in i .. g_NCPU-1, x \in Bins :
            bins[t][x] = Cardinality(ChangesOf({t}, x))
  /\ main = "report" =>
       \A x \in Bins : bins[0][x] = Cardinality(ChangesOf(Threads, x))
  /\ main # "done" => report = NoReport
  /\ main = "done" => report \in [Bins -> Nat]

Inv == Types /\ Claims /\ MainLoop /\ Flipping /\ Claimed /\ AllClaimed
         /\ DotsSoFar /\ BinsCount /\ Merging

-----------------------------------------------------------------------------
(* Facts about the constants.                                              *)
LEMMA Shapes ==
  /\ g_NCPU \in Nat /\ g_NCPU >= 1 /\ 0 \in Threads
  /\ reps \in Nat /\ reps >= 2 /\ 0 \in Reps
  /\ keybits \in Nat /\ keybits >= 1
  /\ hashbits \in Nat /\ hashbits >= 1
  /\ arraysize \in Nat
  /\ NoOne \notin Threads
<1>1. keybits * hashbits \in Nat
  BY CountsAssumption
<1> QED
  BY <1>1, CountsAssumption DEF Threads, Reps, NoOne, arraysize

LEMMA CursorInRange ==
  ASSUME NEW k \in Nat, k < keybits
  PROVE  /\ (k + 1) * hashbits = (k * hashbits) + hashbits
         /\ (k + 1) * hashbits \in 0 .. arraysize
<1>1. k * hashbits \in Nat /\ (keybits - (k + 1)) * hashbits \in Nat
  BY Shapes
<1>2. (keybits - (k + 1)) * hashbits = (keybits * hashbits) - ((k * hashbits) + hashbits)
  BY Shapes
<1>3. (k + 1) * hashbits = (k * hashbits) + hashbits
  BY Shapes
<1> QED
  BY <1>1, <1>2, <1>3, Shapes DEF arraysize

LEMMA FlipTwice ==
  ASSUME NEW F, NEW b
  PROVE  flipbit(flipbit(F, b), b) = F
BY DEF flipbit

LEMMA HashInRange ==
  ASSUME NEW r \in Reps, NEW F \in SUBSET (0 .. keybits-1)
  PROVE  hash[r][F] \in SUBSET (0 .. hashbits-1)
BY HashAssumption, ZenonT(20) DEF Reps

-----------------------------------------------------------------------------
LEMMA TypesInit == Init => Types
<1> SUFFICES ASSUME Init PROVE Types
  OBVIOUS
<1>1. /\ irepp \in Nat
      /\ bins \in [Threads -> [Bins -> Nat]]
      /\ pc \in [Threads -> {"unborn", "claim", "flip", "done"}]
  BY DEF Init
<1>2. /\ irep \in [Threads -> Reps] /\ iBit \in [Threads -> 0 .. keybits]
      /\ cursor \in [Threads -> 0 .. arraysize]
  BY Shapes DEF Init
<1>3. /\ K \in [Threads -> SUBSET (0 .. keybits-1)]
      /\ A \in [Threads -> SUBSET (0 .. hashbits-1)]
  BY DEF Init
<1>4. /\ main \in {"spawn", "join", "merge", "report", "done"}
      /\ i \in Threads \cup {1}
      /\ owner \in [Reps -> Threads \cup {NoOne}]
  BY Shapes DEF Init
<1> QED
  BY <1>1, <1>2, <1>3, <1>4 DEF Types

LEMMA Histogrammed ==
  ASSUME NEW h \in [Bins -> Nat], NEW B, NEW at
  PROVE  HistogramHashBits(B, h, at) \in [Bins -> Nat]
BY DEF HistogramHashBits

LEMMA TypesStep ==
  ASSUME Types, Flipping, MainLoop, [Next]_vars
  PROVE  Types'
<1> USE DEF Types
<1>1. CASE UNCHANGED vars
  BY <1>1 DEF vars, thread
<1>2. ASSUME NEW t \in Threads, Claim(t) PROVE Types'
  <2>1. irepp \in Reps
    BY <1>2, Shapes DEF Claim, Reps
  <2>2. hash[irepp][{}] \in SUBSET (0 .. hashbits-1)
    BY <2>1, HashInRange
  <2>3. 0 \in 0 .. keybits /\ 0 \in 0 .. arraysize
    BY Shapes
  <2> QED
    BY <1>2, <2>1, <2>2, <2>3 DEF Claim
<1>3. ASSUME NEW t \in Threads, Leave(t) PROVE Types'
  BY <1>3 DEF Leave
<1>4. ASSUME NEW t \in Threads, Flip(t) PROVE Types'
  <2>1. iBit[t] \in Nat /\ iBit[t] < keybits /\ cursor[t] = iBit[t] * hashbits
    BY <1>4, Shapes DEF Flip, Flipping
  <2>2. cursor[t] + hashbits \in 0 .. arraysize
    BY <2>1, CursorInRange
  <2>3. iBit[t] + 1 \in 0 .. keybits
    BY <2>1, Shapes
  <2>4. flipbit(flipbit(K[t], iBit[t]), iBit[t]) = K[t]
    BY FlipTwice
  <2>5. \A B : HistogramHashBits(B, bins[t], cursor[t]) \in [Bins -> Nat]
    BY Histogrammed
  <2>6. bins' \in [Threads -> [Bins -> Nat]]
    BY <1>4, <2>5 DEF Flip
  <2>7. K' \in [Threads -> SUBSET (0 .. keybits-1)]
    BY <1>4, <2>4 DEF Flip
  <2> QED
    BY <1>4, <2>2, <2>3, <2>6, <2>7 DEF Flip
<1>5. CASE Spawn
  <2>1. i' \in Threads \cup {1}
    BY <1>5, Shapes DEF Spawn, Loop, Threads
  <2> QED
    BY <1>5, <2>1 DEF Spawn, Loop
<1>6. CASE Join
  <2>1. i' \in Threads \cup {1}
    BY <1>6, Shapes DEF Join, Loop, Threads
  <2> QED
    BY <1>6, <2>1 DEF Join, Loop, thread
<1>7. CASE Merge
  <2>1. i' \in Threads \cup {1}
    BY <1>7, Shapes DEF Merge, Loop, Threads
  <2>2. i \in Threads
    BY <1>7, Shapes DEF Merge, Loop, MainLoop, Threads
  <2>3. [x \in Bins |-> bins[0][x] + bins[i][x]] \in [Bins -> Nat]
    BY <2>2, Shapes
  <2>4. bins' \in [Threads -> [Bins -> Nat]]
    BY <1>7, <2>3, Shapes DEF Merge
  <2> QED
    BY <1>7, <2>1, <2>4 DEF Merge, Loop, thread
<1>8. CASE ReportBias
  BY <1>8 DEF ReportBias, thread
<1> QED
  BY <1>1, <1>2, <1>3, <1>4, <1>5, <1>6, <1>7, <1>8
  DEF Next, AvalancheImpl, calcBiasRange

LEMMA MainLoopStep ==
  ASSUME Types, MainLoop, [Next]_vars
  PROVE  MainLoop'
<1> USE DEF Types, MainLoop
<1>1. CASE UNCHANGED vars
  BY <1>1 DEF vars, thread
<1>2. ASSUME NEW t \in Threads, calcBiasRange(t) PROVE MainLoop'
  <2>1. pc[t] \in {"claim", "flip"} /\ pc'[t] \in {"claim", "flip", "done"}
    BY <1>2 DEF calcBiasRange, Claim, Leave, Flip
  <2>2. \A u \in Threads : u # t => pc'[u] = pc[u]
    BY <1>2 DEF calcBiasRange, Claim, Leave, Flip
  <2>3. UNCHANGED <<main, i>>
    BY <1>2 DEF calcBiasRange, Claim, Leave, Flip
  <2> QED
    BY <2>1, <2>2, <2>3
<1>3. CASE Spawn
  <2>1. main = "spawn" /\ i \in Threads
    BY <1>3 DEF Spawn, Loop
  <2>2. \A u \in Threads : pc'[u] = IF u = i THEN "claim" ELSE pc[u]
    BY <1>3 DEF Spawn
  <2>3. \A u \in Threads : pc'[u] = "unborn" <=> u >= i + 1
    <3>1. \A u \in Threads : pc[u] = "unborn" <=> u >= i
      BY <2>1
    <3>2. \A u \in Threads : u >= i + 1 <=> (u >= i /\ u # i)
      BY <2>1, Shapes DEF Threads
    <3> QED
      BY <2>2, <3>1, <3>2
  <2>4. CASE i + 1 < g_NCPU
    BY <1>3, <2>1, <2>3, <2>4, Shapes DEF Spawn, Loop, Threads
  <2>5. CASE ~(i + 1 < g_NCPU)
    BY <1>3, <2>1, <2>3, <2>5, Shapes DEF Spawn, Loop, Threads
  <2> QED
    BY <2>4, <2>5
<1>4. CASE Join
  <2>1. main = "join" /\ i \in Threads /\ UNCHANGED pc
    BY <1>4 DEF Join, Loop, thread
  <2>2. \A u \in Threads : u < i + 1 => pc[u] = "done"
    <3>1. pc[i] = "done" /\ \A u \in Threads : u < i => pc[u] = "done"
      BY <1>4, <2>1 DEF Join
    <3>2. \A u \in Threads : u < i + 1 <=> (u < i \/ u = i)
      BY <2>1, Shapes DEF Threads
    <3> QED
      BY <3>1, <3>2
  <2>3. CASE i + 1 < g_NCPU
    BY <1>4, <2>1, <2>2, <2>3, Shapes DEF Join, Loop, Threads
  <2>4. CASE ~(i + 1 < g_NCPU)
    <3>1. i' = 1 /\ main' = IF g_NCPU > 1 THEN "merge" ELSE "report"
      BY <1>4, <2>4 DEF Join, Loop
    <3>2. \A u \in Threads : pc'[u] = "done"
      BY <2>1, <2>2, <2>4, Shapes DEF Threads
    <3> QED
      BY <3>1, <3>2, Shapes DEF Threads
  <2> QED
    BY <2>3, <2>4
<1>5. CASE Merge
  <2>1. main = "merge" /\ i \in 1 .. g_NCPU-1 /\ UNCHANGED pc
    BY <1>5 DEF Merge, Loop, thread
  <2> QED
    BY <1>5, <2>1, Shapes DEF Merge, Loop
<1>6. CASE ReportBias
  BY <1>6 DEF ReportBias, thread
<1> QED
  BY <1>1, <1>2, <1>3, <1>4, <1>5, <1>6 DEF Next, AvalancheImpl

LEMMA ClaimsStep ==
  ASSUME Types, MainLoop, Claims, [Next]_vars
  PROVE  Claims'
<1>1. IsFiniteSet(Done) /\ Cardinality(Done) \in Nat
  <2>1. IsFiniteSet(Threads)
    BY FS_Interval, Shapes DEF Threads
  <2>2. Done \in SUBSET Threads
    BY DEF Done
  <2> QED
    BY <2>1, <2>2, FS_Subset, FS_CardinalityType
<1>2. CASE UNCHANGED <<irepp, pc>>
  BY <1>2 DEF Claims, Done
<1>3. ASSUME NEW t \in Threads, Claim(t) PROVE Claims'
  <2>1. Done' = Done
    BY <1>3 DEF Claim, Types, Done
  <2> QED
    BY <1>1, <1>3, <2>1, Shapes DEF Claim, Claims, Types
<1>4. ASSUME NEW t \in Threads, Leave(t) PROVE Claims'
  <2>1. Done' = Done \cup {t} /\ t \notin Done
    BY <1>4 DEF Leave, Types, Done
  <2>2. Cardinality(Done') = Cardinality(Done) + 1
    BY <1>1, <2>1, FS_AddElement
  <2> QED
    BY <1>1, <1>4, <2>2, Shapes DEF Leave, Claims, Types
<1>5. ASSUME NEW t \in Threads, Flip(t) PROVE Claims'
  <2>1. Done' = Done
    BY <1>5 DEF Flip, Types, Done
  <2> QED
    BY <1>5, <2>1 DEF Flip, Claims
<1>6. CASE Spawn
  <2>1. i \in Threads /\ pc[i] = "unborn"
    BY <1>6, Shapes DEF Spawn, Loop, MainLoop, Threads
  <2>2. Done' = Done
    BY <1>6, <2>1 DEF Spawn, Types, Done
  <2> QED
    BY <1>6, <2>2 DEF Spawn, Claims
<1> QED
  BY <1>2, <1>3, <1>4, <1>5, <1>6
  DEF Next, AvalancheImpl, calcBiasRange, Join, Merge, ReportBias, vars, thread

LEMMA FlippingStep ==
  ASSUME Types, MainLoop, Flipping, Claimed, [Next]_vars
  PROVE  Flipping'
<1> SUFFICES ASSUME NEW t \in Threads, pc'[t] = "flip"
             PROVE  /\ owner'[irep'[t]] = t
                    /\ iBit'[t] < keybits
                    /\ cursor'[t] = iBit'[t] * hashbits
                    /\ K'[t] = {}
                    /\ A'[t] = hash[irep'[t]][{}]
  BY DEF Flipping
<1> USE DEF Types
<1>1. CASE UNCHANGED vars
  BY <1>1 DEF vars, thread, Flipping
<1>2. ASSUME NEW u \in Threads, Claim(u), u # t
      PROVE  /\ owner'[irep'[t]] = t
             /\ iBit'[t] < keybits
             /\ cursor'[t] = iBit'[t] * hashbits
             /\ K'[t] = {}
             /\ A'[t] = hash[irep'[t]][{}]
  <2>1. irepp \in Reps
    BY <1>2, Shapes DEF Claim, Reps
  <2>2. owner[irepp] = NoOne
    BY <2>1, Shapes DEF Claimed
  <2>3. pc[t] = "flip" /\ irep'[t] = irep[t] /\ iBit'[t] = iBit[t] /\ K'[t] = K[t]
    BY <1>2 DEF Claim
  <2>4. A'[t] = A[t] /\ cursor'[t] = cursor[t]
    BY <1>2 DEF Claim
  <2>5. irep[t] # irepp
    BY <2>2, <2>3, Shapes DEF Flipping
  <2>6. owner'[irep[t]] = owner[irep[t]]
    BY <1>2, <2>5 DEF Claim
  <2> QED
    BY <2>3, <2>4, <2>6 DEF Flipping
<1>3. CASE Claim(t)
  <2>1. irepp \in Reps
    BY <1>3, Shapes DEF Claim, Reps
  <2>2. irep'[t] = irepp /\ owner'[irepp] = t /\ iBit'[t] = 0
    BY <1>3, <2>1 DEF Claim
  <2>3. cursor'[t] = 0 /\ K'[t] = {} /\ A'[t] = hash[irepp][{}]
    BY <1>3 DEF Claim
  <2> QED
    BY <2>2, <2>3, Shapes
<1>4. ASSUME NEW u \in Threads, Leave(u)
      PROVE  /\ owner'[irep'[t]] = t
             /\ iBit'[t] < keybits
             /\ cursor'[t] = iBit'[t] * hashbits
             /\ K'[t] = {}
             /\ A'[t] = hash[irep'[t]][{}]
  BY <1>4 DEF Leave, Flipping
<1>5. ASSUME NEW u \in Threads, Flip(u), u # t
      PROVE  /\ owner'[irep'[t]] = t
             /\ iBit'[t] < keybits
             /\ cursor'[t] = iBit'[t] * hashbits
             /\ K'[t] = {}
             /\ A'[t] = hash[irep'[t]][{}]
  BY <1>5 DEF Flip, Flipping
<1>6. CASE Flip(t)
  <2>1. iBit[t] \in Nat /\ iBit[t] < keybits /\ cursor[t] = iBit[t] * hashbits
    BY <1>6, Shapes DEF Flip, Flipping
  <2>2. iBit'[t] = iBit[t] + 1 /\ cursor'[t] = cursor[t] + hashbits
    BY <1>6 DEF Flip
  <2>3. iBit'[t] < keybits
    BY <1>6, <2>2 DEF Flip
  <2>4. cursor'[t] = iBit'[t] * hashbits
    BY <2>1, <2>2, CursorInRange
  <2>5. K'[t] = K[t]
    BY <1>6, FlipTwice DEF Flip
  <2>6. K'[t] = {} /\ A'[t] = A[t] /\ irep'[t] = irep[t] /\ UNCHANGED owner
    BY <1>6, <2>5 DEF Flip, Flipping
  <2> QED
    BY <1>6, <2>3, <2>4, <2>6 DEF Flip, Flipping
<1>7. CASE Spawn
  BY <1>7 DEF Spawn, Flipping
<1>8. CASE Join \/ Merge \/ ReportBias
  BY <1>8 DEF Join, Merge, ReportBias, thread, Flipping
<1> QED
  BY <1>1, <1>2, <1>3, <1>4, <1>5, <1>6, <1>7, <1>8 DEF Next, AvalancheImpl, calcBiasRange

LEMMA ClaimedStep ==
  ASSUME Types, Claimed, AllClaimed, [Next]_vars
  PROVE  Claimed' /\ AllClaimed'
<1> USE DEF Types, Claimed, AllClaimed
<1>1. CASE UNCHANGED <<irepp, owner, pc>>
  BY <1>1
<1>2. ASSUME NEW t \in Threads, Claim(t) PROVE Claimed' /\ AllClaimed'
  <2>1. irepp \in Reps /\ irepp' = irepp + 1
    BY <1>2, Shapes DEF Claim, Reps
  <2>2. \A r \in Reps : owner'[r] = IF r = irepp THEN t ELSE owner[r]
    BY <1>2 DEF Claim
  <2>3. Claimed'
    <3>1. t # NoOne
      BY Shapes
    <3>2. \A r \in Reps : r >= irepp' <=> (r >= irepp /\ r # irepp)
      BY <2>1, Shapes DEF Reps
    <3> QED
      BY <2>2, <3>1, <3>2
  <2>4. \A u \in Threads : pc[u] # "done"
    BY <1>2, Shapes DEF Claim
  <2>5. \A u \in Threads : pc'[u] # "done"
    BY <1>2, <2>4 DEF Claim
  <2> QED
    BY <2>3, <2>5
<1>3. ASSUME NEW t \in Threads, Leave(t) PROVE Claimed' /\ AllClaimed'
  <2>1. irepp >= reps /\ irepp' = irepp + 1 /\ owner' = owner
    BY <1>3 DEF Leave
  <2>2. \A r \in Reps : r < irepp /\ r < irepp'
    BY <2>1, Shapes DEF Reps
  <2> QED
    BY <2>1, <2>2, Shapes DEF Reps
<1>4. ASSUME NEW t \in Threads, Flip(t) PROVE Claimed' /\ AllClaimed'
  BY <1>4 DEF Flip
<1>5. CASE Spawn
  BY <1>5 DEF Spawn
<1> QED
  BY <1>1, <1>2, <1>3, <1>4, <1>5
  DEF Next, AvalancheImpl, calcBiasRange, Join, Merge, ReportBias, vars, thread

-----------------------------------------------------------------------------
(* The progress bar.                                                       *)
LEMMA DotsOfNext ==
  ASSUME NEW n \in Reps
  PROVE  DotsUpTo(n + 1) = DotsUpTo(n) + progressdots(n, 0, reps - 1, totaldots)
<1>1. n \in Nat /\ totaldots \in Nat /\ totaldots >= 1 /\ (reps - 1) - 0 + 1 = reps
  BY Shapes, CountsAssumption DEF Reps
<1>2. (reps - 1) - 1 + 1 = reps - 1
  BY Shapes
<1>3. CASE reps > totaldots /\ n = 0
  <2>1. (0 * (totaldots - 1)) \div (reps - 1) = 0
    BY <1>1, Shapes
  <2>2. DotsUpTo(n + 1) = 1 /\ DotsUpTo(n) = 0
    BY <1>3, <2>1 DEF DotsUpTo
  <2>3. progressdots(n, 0, reps - 1, totaldots) = 1
    BY <1>1, <1>3 DEF progressdots
  <2> QED
    BY <2>2, <2>3
<1>4. CASE reps > totaldots /\ n # 0
  <2>1. n - 1 + 1 = n /\ n - 1 \in Nat /\ (n + 1) - 1 = n
    BY <1>1, <1>4
  <2>2. DotsUpTo(n + 1) = 1 + ((n * (totaldots - 1)) \div (reps - 1))
    BY <1>1, <1>4, <2>1 DEF DotsUpTo
  <2>3. DotsUpTo(n) = 1 + (((n - 1) * (totaldots - 1)) \div (reps - 1))
    BY <1>4 DEF DotsUpTo
  <2>4. progressdots(n, 0, reps - 1, totaldots)
          = ((n * (totaldots - 1)) \div (reps - 1))
              - (((n - 1) * (totaldots - 1)) \div (reps - 1))
    BY <1>1, <1>2, <1>4, <2>1 DEF progressdots, Dots
  <2>5. /\ (n * (totaldots - 1)) \div (reps - 1) \in Int
        /\ ((n - 1) * (totaldots - 1)) \div (reps - 1) \in Int
    <3>1. n * (totaldots - 1) \in Int /\ (n - 1) * (totaldots - 1) \in Int
      BY <1>1
    <3> QED
      BY <3>1, DivMod, Shapes
  <2> HIDE DEF DotsUpTo, progressdots
  <2> QED
    BY <2>2, <2>3, <2>4, <2>5
<1>5. CASE ~(reps > totaldots)
  <2>1. n - 0 = n /\ n - 0 + 1 = n + 1
    BY <1>1
  <2>2. DotsUpTo(n + 1) = ((n + 1) * totaldots) \div reps
    BY <1>1, <1>5 DEF DotsUpTo
  <2>3. DotsUpTo(n) = (n * totaldots) \div reps
    BY <1>1, <1>5, Shapes DEF DotsUpTo
  <2>4. progressdots(n, 0, reps - 1, totaldots)
          = (((n + 1) * totaldots) \div reps) - ((n * totaldots) \div reps)
    BY <1>1, <1>5, <2>1 DEF progressdots, Dots
  <2>5. ((n + 1) * totaldots) \div reps \in Int /\ (n * totaldots) \div reps \in Int
    <3>1. (n + 1) * totaldots \in Int /\ n * totaldots \in Int
      BY <1>1
    <3> QED
      BY <3>1, DivMod, Shapes
  <2> QED
    BY <2>2, <2>3, <2>4, <2>5
<1> QED
  BY <1>3, <1>4, <1>5

LEMMA DotsOfAll == DotsUpTo(reps) = totaldots
<1>1. totaldots \in Nat /\ totaldots >= 1
  BY CountsAssumption
<1>2. CASE reps > totaldots
  <2>1. ((reps - 1) * (totaldots - 1)) \div (reps - 1) = totaldots - 1
    <3>1. (reps - 1) * (totaldots - 1) = (reps - 1) * (totaldots - 1) + 0
      BY <1>1, Shapes
    <3> QED
      BY <1>1, <3>1, DivModUnique, Shapes
  <2> QED
    BY <1>1, <1>2, <2>1, Shapes DEF DotsUpTo
<1>3. CASE ~(reps > totaldots)
  <2>1. reps * totaldots = reps * totaldots + 0
    BY <1>1, Shapes
  <2>2. (reps * totaldots) \div reps = totaldots
    BY <1>1, <2>1, DivModUnique, Shapes
  <2> QED
    BY <1>3, <2>2, Shapes DEF DotsUpTo
<1> QED
  BY <1>2, <1>3

LEMMA DotsNat ==
  ASSUME NEW n \in 0 .. reps
  PROVE  DotsUpTo(n) \in Nat
<1>1. totaldots - 1 \in Nat /\ totaldots \in Nat /\ n \in Nat
  BY CountsAssumption, Shapes
<1>2. n * totaldots \in Nat
  BY <1>1
<1>3. (n * totaldots) \div reps \in Nat
  BY <1>2, DivNat, Shapes
<1>4. CASE n > 0
  <2>1. (n - 1) * (totaldots - 1) \in Nat
    BY <1>1, <1>4
  <2>2. ((n - 1) * (totaldots - 1)) \div (reps - 1) \in Nat
    BY <2>1, DivNat, Shapes
  <2> QED
    BY <1>3, <2>2 DEF DotsUpTo
<1> QED
  BY <1>1, <1>4 DEF DotsUpTo

LEMMA DotsStep ==
  ASSUME Types, DotsSoFar, [Next]_vars
  PROVE  DotsSoFar'
<1> USE DEF Types
<1>1. CASE UNCHANGED <<irepp, dots>>
  BY <1>1 DEF DotsSoFar, DotsUpTo
<1>2. ASSUME NEW t \in Threads, Claim(t) PROVE DotsSoFar'
  <2>1. irepp \in Reps /\ irepp' = irepp + 1 /\ irepp < reps
    BY <1>2, Shapes DEF Claim, Reps
  <2>2. dots = DotsUpTo(irepp)
    BY <2>1 DEF DotsSoFar
  <2>3. dots' = DotsUpTo(irepp + 1)
    BY <1>2, <2>1, <2>2, DotsOfNext DEF Claim
  <2>4. irepp' = IF irepp' < reps THEN irepp' ELSE reps
    BY <2>1, Shapes
  <2> QED
    BY <2>1, <2>3, <2>4 DEF DotsSoFar, DotsUpTo
<1>3. ASSUME NEW t \in Threads, Leave(t) PROVE DotsSoFar'
  BY <1>3, Shapes DEF Leave, DotsSoFar, DotsUpTo
<1> QED
  BY <1>1, <1>2, <1>3
  DEF Next, AvalancheImpl, calcBiasRange, Flip, Spawn, Join, Merge, ReportBias, vars

-----------------------------------------------------------------------------
(* The jobs that were counted.                                             *)
LEMMA JobsFinite ==
  ASSUME NEW S \in SUBSET Jobs
  PROVE  IsFiniteSet(S) /\ Cardinality(S) \in Nat
<1>1. IsFiniteSet(Reps) /\ IsFiniteSet(0 .. keybits-1)
  BY FS_Interval, Shapes DEF Reps
<1>2. IsFiniteSet(Jobs)
  BY <1>1, FS_Product DEF Jobs
<1> QED
  BY <1>2, FS_Subset, FS_CardinalityType

LEMMA CountedAfterClaim ==
  ASSUME Types, NEW t \in Threads, Claim(t)
  PROVE  /\ CountedJobs' = CountedJobs
         /\ \A j \in CountedJobs : owner'[j[1]] = owner[j[1]]
<1> USE DEF Types
<1>1. irepp \in Reps /\ irepp' = irepp + 1 /\ irepp \in Nat
  BY Shapes DEF Claim, Reps
<1>2. pc[t] = "claim" /\ pc'[t] = "flip" /\ irep'[t] = irepp /\ iBit'[t] = 0
  BY <1>1 DEF Claim
<1>3. \A u \in Threads : u # t =>
        pc'[u] = pc[u] /\ irep'[u] = irep[u] /\ iBit'[u] = iBit[u]
  BY DEF Claim
<1>4. ASSUME NEW j \in Jobs PROVE j \in CountedJobs' <=> j \in CountedJobs
  <2>1. j[1] \in Nat /\ j[2] \in Nat
    BY Shapes DEF Jobs, Reps
  <2>2. CASE j[1] = irepp
    <3>1. j \notin CountedJobs
      BY <1>1, <2>2 DEF CountedJobs
    <3>2. j \notin CountedJobs'
      BY <1>2, <2>1, <2>2 DEF CountedJobs
    <3> QED
      BY <3>1, <3>2
  <2>3. CASE j[1] # irepp
    <3>1. j[1] < irepp' <=> j[1] < irepp
      <4>1. \A n \in Nat : n # irepp => (n < irepp' <=> n < irepp)
        BY <1>1
      <4> QED
        BY <2>1, <2>3, <4>1
    <3> QED
      <4>1. (pc'[t] = "flip" /\ irep'[t] = j[1]) <=> (pc[t] = "flip" /\ irep[t] = j[1])
        BY <1>2, <2>3
      <4>2. \A u \in Threads :
              (pc'[u] = "flip" /\ irep'[u] = j[1] => j[2] < iBit'[u])
                <=> (pc[u] = "flip" /\ irep[u] = j[1] => j[2] < iBit[u])
        BY <1>2, <1>3, <4>1
      <4>3. Jobs' = Jobs
        BY DEF Jobs
      <4> QED
        BY <3>1, <4>2, <4>3 DEF CountedJobs
  <2> QED
    BY <2>2, <2>3
<1>5. CountedJobs \subseteq Jobs /\ CountedJobs' \subseteq Jobs
  BY DEF CountedJobs, Jobs
<1>6. ASSUME NEW j \in CountedJobs PROVE owner'[j[1]] = owner[j[1]]
  <2>1. j[1] \in Reps /\ j[1] # irepp
    BY <1>1, <1>5 DEF CountedJobs, Jobs
  <2> QED
    BY <2>1 DEF Claim
<1> QED
  BY <1>4, <1>5, <1>6

LEMMA CountedAfterLeave ==
  ASSUME Types, NEW t \in Threads, Leave(t)
  PROVE  CountedJobs' = CountedJobs
<1> USE DEF Types
<1>1. irepp >= reps /\ irepp' = irepp + 1 /\ irep' = irep /\ iBit' = iBit
  BY DEF Leave
<1>2. pc[t] = "claim" /\ pc'[t] = "done" /\ \A u \in Threads : u # t => pc'[u] = pc[u]
  BY DEF Leave
<1>3. ASSUME NEW j \in Jobs PROVE j[1] < irepp /\ j[1] < irepp'
  BY <1>1, Shapes DEF Jobs, Reps
<1>4. Jobs' = Jobs
  BY DEF Jobs
<1> QED
  BY <1>1, <1>2, <1>3, <1>4 DEF CountedJobs

LEMMA CountedAfterFlip ==
  ASSUME Types, Flipping, Claimed, NEW t \in Threads, Flip(t)
  PROVE  /\ <<irep[t], iBit[t]>> \in Jobs \ CountedJobs
         /\ CountedJobs' = CountedJobs \cup {<<irep[t], iBit[t]>>}
<1> USE DEF Types
<1> DEFINE r == irep[t]
           k == iBit[t]
<1>1. pc[t] = "flip" /\ r \in Reps /\ k \in 0 .. keybits-1 /\ owner[r] = t /\ r < irepp
  <2>1. pc[t] = "flip" /\ r \in Reps /\ k \in Nat
    BY Shapes DEF Flip
  <2>2. owner[r] = t /\ k < keybits
    BY <2>1 DEF Flipping
  <2>3. r < irepp
    BY <2>1, <2>2, Shapes DEF Claimed, Reps
  <2> QED
    BY <2>1, <2>2, <2>3, Shapes
<1>2. <<r, k>> \in Jobs
  BY <1>1 DEF Jobs
<1>3. <<r, k>> \notin CountedJobs
  BY <1>1 DEF CountedJobs
<1>4. /\ irepp' = irepp /\ irep' = irep /\ iBit'[t] = k + 1
      /\ pc'[t] = IF k + 1 < keybits THEN "flip" ELSE "claim"
      /\ \A u \in Threads : u # t => pc'[u] = pc[u] /\ iBit'[u] = iBit[u]
  BY DEF Flip
<1>5. \A u \in Threads : u # t /\ pc[u] = "flip" => irep[u] # r
  BY <1>1 DEF Flipping
<1> HIDE DEF r, k
<1>6. ASSUME NEW j \in Jobs
      PROVE  j \in CountedJobs' <=> (j \in CountedJobs \/ j = <<r, k>>)
  <2>1. j = <<j[1], j[2]>> /\ j[1] \in Nat /\ j[2] \in 0 .. keybits-1
    BY Shapes DEF Jobs, Reps
  <2>2. CASE j[1] # r
    <3>1. j # <<r, k>>
      BY <2>2
    <3> QED
      BY <1>4, <2>2, <3>1 DEF CountedJobs, r
  <2>3. CASE j[1] = r
    <3>1. j \in CountedJobs <=> j[2] < k
      BY <1>1, <1>5, <2>3 DEF CountedJobs, r, k
    <3>2. j \in CountedJobs' <=> (pc'[t] = "flip" => j[2] < k + 1)
      <4>1. \A u \in Threads : u # t => ~(pc'[u] = "flip" /\ irep'[u] = j[1])
        BY <1>4, <1>5, <2>3 DEF r
      <4>2. iBit'[t] = k + 1 /\ irep'[t] = j[1] /\ j[1] < irepp'
        BY <1>1, <1>4, <2>3 DEF r
      <4>3. Jobs' = Jobs
        BY DEF Jobs
      <4> QED
        BY <4>1, <4>2, <4>3 DEF CountedJobs
    <3>3. j = <<r, k>> <=> j[2] = k
      BY <2>1, <2>3
    <3>4. \A n \in 0 .. keybits-1 :
            /\ n < k + 1 <=> (n < k \/ n = k)
            /\ ~(k + 1 < keybits) => n < k + 1
      BY <1>1, Shapes
    <3>5. pc'[t] # "flip" => ~(k + 1 < keybits)
      BY <1>4
    <3> QED
      BY <2>1, <3>1, <3>2, <3>3, <3>4, <3>5
  <2> QED
    BY <2>2, <2>3
<1>7. CountedJobs \subseteq Jobs /\ CountedJobs' \subseteq Jobs
  BY DEF CountedJobs, Jobs
<1>8. CountedJobs' = CountedJobs \cup {<<r, k>>}
  BY <1>2, <1>6, <1>7
<1> QED
  BY <1>2, <1>3, <1>8 DEF r, k

LEMMA CountedAfterMain ==
  ASSUME Types, MainLoop, AvalancheImpl
  PROVE  CountedJobs' = CountedJobs
<1>1. CASE Spawn
  <2>1. i \in Threads /\ pc[i] = "unborn"
    BY <1>1, Shapes DEF Spawn, Loop, MainLoop, Threads
  <2>2. \A u \in Threads : pc'[u] = "flip" <=> pc[u] = "flip"
    BY <1>1, <2>1 DEF Spawn, Types
  <2>3. Jobs' = Jobs
    BY DEF Jobs
  <2> QED
    BY <1>1, <2>2, <2>3 DEF Spawn, CountedJobs
<1>2. CASE Join \/ Merge \/ ReportBias
  BY <1>2 DEF Join, Merge, ReportBias, thread, CountedJobs, Jobs
<1> QED
  BY <1>1, <1>2 DEF AvalancheImpl

(* One more job in a set of jobs, and the counter that counts them.        *)
LEMMA OneMoreJob ==
  ASSUME NEW S \in SUBSET Jobs, NEW j \in Jobs \ S
  PROVE  Cardinality(S \cup {j}) = Cardinality(S) + 1
BY JobsFinite, FS_AddElement

LEMMA CountedByJobs ==
  ASSUME NEW t, NEW x
  PROVE  CountedBy(t, x) \in SUBSET Jobs
BY DEF CountedBy, CountedJobs

LEMMA HistogramOfDiff ==
  ASSUME NEW r \in Reps, NEW k \in 0 .. keybits-1, NEW x \in Bins
  PROVE  (/\ x \in k * hashbits .. k * hashbits + hashbits-1
          /\ x - k * hashbits \in Diff(r, k)) <=> x \in ChangedBy(<<r, k>>)
<1>1. Diff(r, k) \in SUBSET (0 .. hashbits-1)
  BY HashInRange DEF Diff, Xor
<1>2. k * hashbits \in Nat /\ x \in Nat
  BY Shapes DEF Bins
<1>3. ASSUME NEW b \in Diff(r, k)
      PROVE  x = k * hashbits + b <=>
               x \in k * hashbits .. k * hashbits + hashbits-1 /\ x - k * hashbits = b
  <2>1. b \in 0 .. hashbits-1
    BY <1>1
  <2> DEFINE m == k * hashbits
  <2>2. m \in Nat /\ x \in Nat
    BY <1>2
  <2> HIDE DEF m
  <2>3. x = m + b <=> x \in m .. m + hashbits-1 /\ x - m = b
    BY <2>1, <2>2, Shapes
  <2> QED
    BY <2>3 DEF m
<1>4. x \in ChangedBy(<<r, k>>) <=> \E b \in Diff(r, k) : x = k * hashbits + b
  BY DEF ChangedBy
<1> QED
  BY <1>3, <1>4

LEMMA BinsStep ==
  ASSUME Types, MainLoop, Flipping, Claimed, BinsCount, [Next]_vars
  PROVE  BinsCount'
<1> SUFFICES ASSUME main' \in {"spawn", "join"}, NEW u \in Threads, NEW x \in Bins
             PROVE  bins'[u][x] = Cardinality(CountedBy(u, x)')
  BY DEF BinsCount, Bins, arraysize, Threads
<1> DEFINE Exact == bins[u][x] = Cardinality(CountedBy(u, x))
<1>1. main \in {"spawn", "join"} => Exact
  BY DEF BinsCount
<1>2. CASE UNCHANGED vars
  <2>1. CountedBy(u, x)' = CountedBy(u, x)
    BY <1>2 DEF vars, thread, CountedBy, CountedJobs, Jobs, ChangedBy
  <2> QED
    BY <1>1, <1>2, <2>1 DEF vars, thread
<1>3. ASSUME NEW t \in Threads, Claim(t)
      PROVE  bins'[u][x] = Cardinality(CountedBy(u, x)')
  <2>1. CountedBy(u, x)' = CountedBy(u, x)
    BY <1>3, CountedAfterClaim DEF CountedBy, ChangedBy
  <2> QED
    BY <1>1, <1>3, <2>1 DEF Claim
<1>4. ASSUME NEW t \in Threads, Leave(t)
      PROVE  bins'[u][x] = Cardinality(CountedBy(u, x)')
  <2>1. CountedBy(u, x)' = CountedBy(u, x)
    BY <1>4, CountedAfterLeave DEF CountedBy, ChangedBy, Leave
  <2> QED
    BY <1>1, <1>4, <2>1 DEF Leave
<1>5. ASSUME NEW t \in Threads, Flip(t)
      PROVE  bins'[u][x] = Cardinality(CountedBy(u, x)')
  <2> DEFINE j == <<irep[t], iBit[t]>>
  <2>1. Exact /\ UNCHANGED owner
    BY <1>1, <1>5 DEF Flip
  <2>2. pc[t] = "flip" /\ irep[t] \in Reps /\ iBit[t] \in 0 .. keybits-1
    BY <1>5, Shapes DEF Flip, Types, Flipping
  <2>3. /\ owner[irep[t]] = t /\ cursor[t] = iBit[t] * hashbits
        /\ K[t] = {} /\ A[t] = hash[irep[t]][{}]
    BY <2>2 DEF Flipping
  <2>4. j \in Jobs \ CountedJobs /\ CountedJobs' = CountedJobs \cup {j}
    BY <1>5, CountedAfterFlip
  <2>5. CountedBy(u, x)' =
          CountedBy(u, x) \cup (IF u = t /\ x \in ChangedBy(j) THEN {j} ELSE {})
    <3>1. CountedBy(u, x)' =
            {a \in CountedJobs \cup {j} : owner[a[1]] = u /\ x \in ChangedBy(a)}
      BY <2>1, <2>4 DEF CountedBy, ChangedBy
    <3>2. owner[j[1]] = u <=> u = t
      BY <2>3
    <3> QED
      BY <3>1, <3>2 DEF CountedBy
  <2>6. bins'[u][x] = IF u = t /\ x \in ChangedBy(j) THEN bins[u][x] + 1 ELSE bins[u][x]
    <3>1. flipbit(K[t], iBit[t]) = {iBit[t]}
      BY <2>3 DEF flipbit
    <3>2. Xor(hash[irep[t]][flipbit(K[t], iBit[t])], A[t]) = Diff(irep[t], iBit[t])
      BY <2>3, <3>1 DEF Diff
    <3>3. bins'[t] = HistogramHashBits(Diff(irep[t], iBit[t]), bins[t], iBit[t] * hashbits)
      BY <1>5, <2>3, <3>2 DEF Flip, Types
    <3>4. bins'[t][x] = IF x \in ChangedBy(j) THEN bins[t][x] + 1 ELSE bins[t][x]
      BY <2>2, <3>3, HistogramOfDiff DEF HistogramHashBits
    <3>5. u # t => bins'[u] = bins[u]
      BY <1>5 DEF Flip, Types
    <3> QED
      BY <3>4, <3>5
  <2>7. CASE u = t /\ x \in ChangedBy(j)
    <3>1. j \notin CountedBy(u, x)
      BY <2>4 DEF CountedBy
    <3>2. Cardinality(CountedBy(u, x) \cup {j}) = Cardinality(CountedBy(u, x)) + 1
      BY <2>4, <3>1, CountedByJobs, OneMoreJob
    <3> QED
      BY <2>1, <2>5, <2>6, <2>7, <3>2
  <2>8. CASE ~(u = t /\ x \in ChangedBy(j))
    BY <2>1, <2>5, <2>6, <2>8
  <2> QED
    BY <2>7, <2>8
<1>6. CASE AvalancheImpl
  <2>1. UNCHANGED <<bins, owner>> /\ main \in {"spawn", "join"}
    BY <1>6 DEF AvalancheImpl, Spawn, Join, Merge, ReportBias, Loop
  <2>2. CountedBy(u, x)' = CountedBy(u, x)
    BY <1>6, <2>1, CountedAfterMain DEF CountedBy, ChangedBy
  <2> QED
    BY <1>1, <2>1, <2>2
<1> QED
  BY <1>2, <1>3, <1>4, <1>5, <1>6 DEF Next, calcBiasRange

-----------------------------------------------------------------------------
(* Adding the histograms up.                                               *)
LEMMA ChangesOfOneMore ==
  ASSUME Types, NEW n \in Nat, NEW x
  PROVE  Cardinality(ChangesOf(0 .. n, x))
           = Cardinality(ChangesOf(0 .. n-1, x)) + Cardinality(ChangesOf({n}, x))
<1>1. ChangesOf(0 .. n, x) = ChangesOf(0 .. n-1, x) \cup ChangesOf({n}, x)
  <2>1. 0 .. n = (0 .. n-1) \cup {n}
    OBVIOUS
  <2> QED
    BY <2>1 DEF ChangesOf
<1>2. ChangesOf(0 .. n-1, x) \cap ChangesOf({n}, x) = {}
  <2>1. n \notin 0 .. n-1
    OBVIOUS
  <2> QED
    BY <2>1 DEF ChangesOf
<1>3. /\ ChangesOf(0 .. n-1, x) \in SUBSET Jobs
      /\ ChangesOf({n}, x) \in SUBSET Jobs
  BY DEF ChangesOf
<1> DEFINE a == ChangesOf(0 .. n-1, x)
           b == ChangesOf({n}, x)
<1>4. IsFiniteSet(a) /\ IsFiniteSet(b) /\ Cardinality(a) \in Nat /\ Cardinality(b) \in Nat
  BY <1>3, JobsFinite
<1>5. Cardinality(a \cup b) = Cardinality(a) + Cardinality(b) - Cardinality(a \cap b)
  BY <1>4, FS_Union
<1>6. Cardinality(a \cap b) = 0
  BY <1>2, FS_EmptySet
<1>7. Cardinality(ChangesOf(0 .. n, x)) = Cardinality(a \cup b)
  BY <1>1
<1> HIDE DEF a, b
<1>8. Cardinality(a \cup b) = Cardinality(a) + Cardinality(b)
  BY <1>4, <1>5, <1>6
<1> QED
  BY <1>7, <1>8 DEF a, b

LEMMA AllCounted ==
  ASSUME Types, Claimed, AllClaimed, \A t \in Threads : pc[t] = "done"
  PROVE  /\ CountedJobs = Jobs
         /\ \A j \in Jobs : owner[j[1]] \in Threads
         /\ \A t, x : CountedBy(t, x) = ChangesOf({t}, x)
<1>1. irepp >= reps
  BY Shapes DEF AllClaimed
<1>2. \A j \in Jobs : j[1] \in Reps /\ j[1] < irepp /\ ~(j[1] >= irepp)
  BY <1>1, Shapes DEF Jobs, Reps, Types
<1>3. CountedJobs = Jobs
  BY <1>2 DEF CountedJobs
<1>4. \A j \in Jobs : owner[j[1]] \in Threads
  BY <1>2 DEF Claimed, Types
<1> QED
  BY <1>3, <1>4 DEF CountedBy, ChangesOf

LEMMA MergingStep ==
  ASSUME Types, MainLoop, Claimed, AllClaimed, BinsCount, Merging, [Next]_vars
  PROVE  Merging'
<1> USE DEF Merging
<1>1. CASE UNCHANGED vars
  <2>1. \A S, x : ChangesOf(S, x)' = ChangesOf(S, x)
    BY <1>1 DEF vars, ChangesOf, ChangedBy
  <2>2. UNCHANGED <<main, i, bins, report>> /\ Bins' = Bins
    BY <1>1 DEF vars, Bins, arraysize
  <2> QED
    BY <2>1, <2>2 DEF Threads
<1>2. ASSUME NEW t \in Threads, calcBiasRange(t) PROVE Merging'
  <2>1. UNCHANGED <<main, i, report>> /\ pc[t] # "done"
    BY <1>2 DEF calcBiasRange, Claim, Leave, Flip
  <2>2. main \notin {"merge", "report", "done"}
    BY <2>1 DEF MainLoop
  <2> QED
    BY <2>1, <2>2
<1>3. CASE Spawn
  BY <1>3 DEF Spawn, Loop
<1>4. CASE Join
  <2>1. /\ main = "join" /\ i \in Threads
        /\ pc[i] = "done" /\ \A t \in Threads : t < i => pc[t] = "done"
        /\ UNCHANGED <<bins, owner, report>>
    BY <1>4 DEF Join, Loop, MainLoop
  <2>2. report' = NoReport /\ main' # "done"
    BY <1>4, <2>1 DEF Join, Loop
  <2>3. CASE i + 1 < g_NCPU
    BY <1>4, <2>1, <2>2, <2>3 DEF Join, Loop
  <2>4. CASE ~(i + 1 < g_NCPU)
    <3>1. \A t \in Threads : pc[t] = "done"
      <4>1. \A t \in Threads : t < i \/ t = i
        BY <2>1, <2>4, Shapes DEF Threads
      <4> QED
        BY <2>1, <4>1
    <3>2. \A t \in Threads, x \in Bins : bins[t][x] = Cardinality(ChangesOf({t}, x))
      BY <2>1, <3>1, AllCounted DEF BinsCount
    <3>3. i' = 1 /\ main' = IF g_NCPU > 1 THEN "merge" ELSE "report"
      BY <1>4, <2>4 DEF Join, Loop
    <3>4. \A S, x : ChangesOf(S, x)' = ChangesOf(S, x)
      BY <2>1 DEF ChangesOf, ChangedBy
    <3>5. Bins' = Bins /\ {0} = 0 .. 1-1 /\ (1 .. g_NCPU-1) \subseteq Threads
      BY Shapes DEF Bins, arraysize, Threads
    <3>6. CASE g_NCPU > 1
      <4>1. \A x \in Bins : bins'[0][x] = Cardinality(ChangesOf(0 .. 1-1, x)')
        BY <2>1, <3>2, <3>4, <3>5, Shapes
      <4>2. \A t \in 1 .. g_NCPU-1, x \in Bins : bins'[t][x] = Cardinality(ChangesOf({t}, x)')
        BY <2>1, <3>2, <3>4, <3>5
      <4> QED
        BY <2>2, <3>3, <3>5, <3>6, <4>1, <4>2
    <3>7. CASE ~(g_NCPU > 1)
      <4>1. Threads = {0}
        BY <3>7, Shapes DEF Threads
      <4>2. \A x \in Bins : bins'[0][x] = Cardinality(ChangesOf(Threads, x)')
        BY <2>1, <3>2, <3>4, <4>1
      <4> QED
        BY <2>2, <3>3, <3>5, <3>7, <4>2 DEF Threads
    <3> QED
      BY <3>6, <3>7
  <2> QED
    BY <2>3, <2>4
<1>5. CASE Merge
  <2>1. main = "merge" /\ i \in 1 .. g_NCPU-1 /\ i \in Nat /\ i \in Threads
    BY <1>5, Shapes DEF Merge, Loop, MainLoop, Threads
  <2>2. report' = NoReport /\ main' # "done" /\ UNCHANGED owner
    BY <1>5, <2>1 DEF Merge, Loop
  <2>3. \A S, x : ChangesOf(S, x)' = ChangesOf(S, x)
    BY <2>2 DEF ChangesOf, ChangedBy
  <2>4. \A x \in Bins : bins'[0][x] = Cardinality(ChangesOf(0 .. i, x))
    <3>1. \A x \in Bins : bins'[0][x] = bins[0][x] + bins[i][x]
      BY <1>5, Shapes DEF Merge, Types
    <3>2. \A x \in Bins : /\ bins[0][x] = Cardinality(ChangesOf(0 .. i-1, x))
                          /\ bins[i][x] = Cardinality(ChangesOf({i}, x))
      BY <2>1
    <3> QED
      BY <2>1, <3>1, <3>2, ChangesOfOneMore
  <2>5. \A t \in Threads : t # 0 => bins'[t] = bins[t]
    BY <1>5 DEF Merge, Types
  <2>6. Bins' = Bins
    BY DEF Bins, arraysize
  <2>7. CASE i + 1 < g_NCPU
    <3>1. i' = i + 1 /\ main' = "merge" /\ i = i' - 1
      BY <1>5, <2>1, <2>7 DEF Merge, Loop
    <3>2. \A t \in i' .. g_NCPU-1 : t \in Threads /\ t # 0 /\ t \in i .. g_NCPU-1
      BY <2>1, <3>1, Shapes DEF Threads
    <3>3. \A t \in i' .. g_NCPU-1, x \in Bins :
            bins'[t][x] = Cardinality(ChangesOf({t}, x)')
      BY <2>1, <2>3, <2>5, <3>2
    <3>4. \A x \in Bins : bins'[0][x] = Cardinality(ChangesOf(0 .. i-1, x)')
      <4>1. \A x : ChangesOf(0 .. i-1, x)' = ChangesOf(0 .. i, x)
        BY <2>1, <2>2, <3>1 DEF ChangesOf, ChangedBy
      <4> QED
        BY <2>4, <4>1
    <3> QED
      BY <2>2, <2>6, <3>1, <3>3, <3>4
  <2>8. CASE ~(i + 1 < g_NCPU)
    <3>1. main' = "report"
      BY <1>5, <2>8 DEF Merge, Loop
    <3>2. 0 .. i = Threads
      BY <2>1, <2>8, Shapes DEF Threads
    <3>3. \A x \in Bins : bins'[0][x] = Cardinality(ChangesOf(Threads, x)')
      BY <2>3, <2>4, <3>2
    <3> QED
      BY <2>2, <2>6, <3>1, <3>3 DEF Threads
  <2> QED
    BY <2>7, <2>8
<1>6. CASE ReportBias
  BY <1>6, Shapes DEF ReportBias, Types, Bins, arraysize
<1> QED
  BY <1>1, <1>2, <1>3, <1>4, <1>5, <1>6 DEF Next, AvalancheImpl

-----------------------------------------------------------------------------
LEMMA InvInit == Init => Inv
<1> SUFFICES ASSUME Init PROVE Inv
  OBVIOUS
<1>1. Types
  BY TypesInit
<1>2. Claims
  <2>1. Done = {}
    BY DEF Init, Done
  <2> QED
    BY <2>1, FS_EmptySet, Shapes DEF Init, Claims
<1>3. MainLoop
  BY Shapes DEF Init, MainLoop, Threads
<1>4. Flipping /\ AllClaimed
  BY DEF Init, Flipping, AllClaimed
<1>5. Claimed
  BY Shapes DEF Init, Claimed, Reps
<1>6. DotsSoFar
  BY Shapes DEF Init, DotsSoFar, DotsUpTo
<1>7. BinsCount
  <2>1. CountedJobs = {}
    BY Shapes DEF Init, CountedJobs, Jobs, Reps
  <2>2. \A t, x : CountedBy(t, x) = {}
    BY <2>1 DEF CountedBy
  <2> QED
    BY <2>2, FS_EmptySet DEF Init, BinsCount
<1>8. Merging
  BY DEF Init, Merging
<1> QED
  BY <1>1, <1>2, <1>3, <1>4, <1>5, <1>6, <1>7, <1>8 DEF Inv

LEMMA InvStep == Inv /\ [Next]_vars => Inv'
BY TypesStep, ClaimsStep, MainLoopStep, FlippingStep, ClaimedStep, DotsStep, BinsStep,
   MergingStep
DEF Inv

LEMMA Invariance == Spec => []Inv
BY InvInit, InvStep, PTL DEF Spec

LEMMA InvTypeOK == Inv => TypeOK
<1> SUFFICES ASSUME Inv PROVE TypeOK
  OBVIOUS
<1>1. irepp \in 0 .. reps + g_NCPU
  <2>1. Done \in SUBSET Threads
    BY DEF Done
  <2>2. IsFiniteSet(Threads) /\ Cardinality(Threads) = g_NCPU
    BY FS_Interval, Shapes DEF Threads
  <2>3. Cardinality(Done) \in Nat /\ Cardinality(Done) <= g_NCPU
    BY <2>1, <2>2, FS_Subset, FS_CardinalityType
  <2> QED
    BY <2>3, Shapes DEF Inv, Types, Claims
<1>2. dots \in Nat
  <2>1. (IF irepp < reps THEN irepp ELSE reps) \in 0 .. reps
    BY Shapes DEF Inv, Types
  <2> QED
    BY <2>1, DotsNat DEF Inv, DotsSoFar
<1>3. report \in [Bins -> Nat] \cup {NoReport}
  BY DEF Inv, Merging
<1> QED
  BY <1>1, <1>2, <1>3 DEF Inv, Types, TypeOK

(* The threads' state keeps to its ranges: no thread runs past the keys,   *)
(* the histograms or the bits of a key, however many threads there are.    *)
THEOREM TypeCorrect == Spec => []TypeOK
BY Invariance, InvTypeOK, PTL

(* calcBiasRange() counts exactly the flips of the keys its thread claimed.*)
THEOREM HistogramsExact == Spec => []BinsCount
<1>1. Inv => BinsCount
  BY DEF Inv
<1> QED
  BY <1>1, Invariance, PTL

(* AvalancheImpl() reads the threads' histograms without a lock, and never *)
(* while a thread can still write to one.                                  *)
THEOREM NoEarlyMerge == Spec => []MergeAfterThreads
<1>1. Inv => MergeAfterThreads
  BY DEF Inv, MainLoop, MergeAfterThreads
<1> QED
  BY <1>1, Invariance, PTL

(* progressdots() prints exactly the whole bar, whatever its length.       *)
THEOREM WholeBar == Spec => []AllDots
<1>1. Inv => AllDots
  <2> SUFFICES ASSUME Inv, main = "done" PROVE dots = totaldots
    BY DEF AllDots
  <2>1. pc[0] = "done"
    BY Shapes DEF Inv, MainLoop
  <2>2. irepp >= reps
    BY <2>1, Shapes DEF Inv, AllClaimed
  <2>3. dots = DotsUpTo(reps)
    BY <2>2, Shapes DEF Inv, DotsSoFar, Types
  <2> QED
    BY <2>3, DotsOfAll
<1> QED
  BY <1>1, Invariance, PTL

-----------------------------------------------------------------------------
(* Each step counts one more job, reports, or leaves both as they are.     *)
LEMMA PromiseInit == Init => Promise!Init
BY Shapes DEF Init, Promise!Init, CountedJobs, Jobs, Reps

LEMMA PromiseStep ==
  ASSUME Inv, [Next]_vars
  PROVE  [Promise!Next]_<<CountedJobs, report>>
<1> USE DEF Inv
<1>1. CASE UNCHANGED vars
  BY <1>1 DEF vars, thread, CountedJobs, Jobs
<1>2. ASSUME NEW t \in Threads, Claim(t) PROVE UNCHANGED <<CountedJobs, report>>
  BY <1>2, CountedAfterClaim DEF Claim
<1>3. ASSUME NEW t \in Threads, Leave(t) PROVE UNCHANGED <<CountedJobs, report>>
  BY <1>3, CountedAfterLeave DEF Leave
<1>4. ASSUME NEW t \in Threads, Flip(t) PROVE Promise!Count
  <2>1. UNCHANGED report
    BY <1>4 DEF Flip
  <2> QED
    BY <1>4, <2>1, CountedAfterFlip DEF Promise!Count
<1>5. CASE Spawn \/ Join \/ Merge
  <2>1. UNCHANGED CountedJobs
    BY <1>5, CountedAfterMain DEF AvalancheImpl
  <2> QED
    BY <1>5, <2>1 DEF Spawn, Join, Merge
<1>6. CASE ReportBias
  <2>1. main = "report" /\ report = NoReport /\ report' = bins[0]
    BY <1>6 DEF ReportBias, Merging
  <2>2. UNCHANGED CountedJobs
    BY <1>6, CountedAfterMain DEF AvalancheImpl
  <2>3. CountedJobs = Jobs /\ \A j \in Jobs : owner[j[1]] \in Threads
    BY <2>1, AllCounted DEF MainLoop
  <2>4. \A x \in Bins : bins[0][x] = Cardinality(ChangesOf(Threads, x))
    BY <2>1 DEF Merging
  <2>5. \A x : ChangesOf(Threads, x) = {j \in Jobs : x \in ChangedBy(j)}
    BY <2>3 DEF ChangesOf
  <2>6. bins[0] = [x \in Bins |-> Cardinality({j \in Jobs : x \in ChangedBy(j)})]
    <3>1. bins[0] = [x \in Bins |-> bins[0][x]]
      BY Shapes DEF Types
    <3> QED
      BY <2>4, <2>5, <3>1
  <2>7. \A x : {j \in Jobs : x \in [a \in Jobs |-> ChangedBy(a)][j]}
                 = {j \in Jobs : x \in ChangedBy(j)}
    OBVIOUS
  <2>8. \A S : Promise!Cardinality(S) = Cardinality(S)
    BY DEF Promise!Cardinality, Cardinality
  <2> QED
    BY <2>1, <2>2, <2>3, <2>6, <2>7, <2>8 DEF Promise!Next, Promise!Report
<1> QED
  BY <1>1, <1>2, <1>3, <1>4, <1>5, <1>6
  DEF Next, AvalancheImpl, calcBiasRange, Promise!Next

(* What AvalancheImpl() evaluates is, whatever the threads' schedule, the  *)
(* number of flips that changed each bit, each flip counted once.          *)
THEOREM Implementation == Spec => ImplementsBiasCount
<1>1. Init => Promise!Init
  BY PromiseInit
<1>2. Inv /\ [Next]_vars => [Promise!Next]_<<CountedJobs, report>>
  BY PromiseStep
<1> QED
  BY <1>1, <1>2, Invariance, PTL DEF Spec, ImplementsBiasCount, Promise!Spec

=============================================================================
