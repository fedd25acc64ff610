----------------------------- MODULE CollisionList -----------------------------
(***************************************************************************)
(* TestCollisions() (util/Analyze.cpp). It sorts the list of hashes and    *)
(* finds the complete collisions; has the collisions of the first bits     *)
(* counted (RangedCollisions); reverses the bits of every hash, sorts      *)
(* again and counts, which gives the collisions of the last bits; and then *)
(* reports on each width. With diagrams, a failing report is followed by a *)
(* list of what collided (PrintCollisions(), util/Reporting.cpp), with the *)
(* index each hash had in the list as it was given.                        *)
(*                                                                         *)
(* Whether a report fails is decided in floating point: here, either way.  *)
(*                                                                         *)
(* hashes and hashidxs of the code are hashes_fwd and hashidxs_fwd here,   *)
(* and Init, Next, Spec are CollisionsInit, CollisionsNext and             *)
(* CollisionsSpec: AnalysisProofs extends DeltaOutliers as well.           *)
(***************************************************************************)
EXTENDS Integers, Sequences, FiniteSetsExt

CONSTANTS
  bitlen,         \* the bits of a hash
  Lists,          \* the lists of hashes
  Settings,       \* what is to be tested; see Inputs
  MAX_ENTRIES,    \* how many colliding values are listed, at most
  MAX_PER_ENTRY   \* and how many of the hashes with each

VARIABLES
  given, set,                  \* the arguments
  hashes_fwd, hashidxs_fwd,    \* the list as it is now; where each hash was
  hashes_rev, hashidxs_rev,    \* the same with the bits reversed
  part,                        \* which part is next
  counted, minHBits, maxHBits, threshHBits, next, collcounts, prevcoll, maxcoll,
  done,                        \* the pass of RangedCollisions
  collcounts_fwd, collcounts_rev,
  found,       \* what FindCollisions() or ...PrefixesIndices() came up with
  reported,    \* how many reports have been made
  prevBits,    \* the last width listed of first bits (TRUE), of last bits
  report,      \* the last report
  printed      \* what was listed with it

list == <<hashes_fwd, hashidxs_fwd, hashes_rev, hashidxs_rev>>
pass == <<counted, minHBits, maxHBits, threshHBits, next, collcounts, prevcoll, maxcoll, done>>
tallies == <<collcounts_fwd, collcounts_rev>>
reports == <<reported, prevBits, report, printed>>
collisionsVars == <<given, set, list, pass, tallies, reports, part, found>>

R == INSTANCE RangedCollisions WITH hashes <- counted, hnb <- next

Hash == [1 .. bitlen -> {0, 1}]

(***************************************************************************)
(* What is given: some hashes, and in the settings: vec the widths to      *)
(* report on each; minTBits to maxTBits those to report on together;       *)
(* nlognBits the bound, which no width reported on as a sum may be below;  *)
(* and the flags.                                                          *)
(***************************************************************************)
Inputs ==
  /\ bitlen \in Nat /\ bitlen > 0
  /\ MAX_ENTRIES \in Nat /\ MAX_ENTRIES > 0
  /\ MAX_PER_ENTRY \in Nat /\ MAX_PER_ENTRY > 1
  /\ \A l \in Lists : l \in Seq(Hash) /\ l # <<>>
  /\ \A s \in Settings :
       /\ s.vec \subseteq Nat \ {0}
       /\ s.minTBits \in Nat \ {0} /\ s.maxTBits \in Nat /\ s.maxTBits < bitlen
       /\ s.nlognBits \in Nat /\ s.nlognBits <= s.minTBits /\ s.nlognBits <= bitlen
       /\ {s.high, s.low, s.diagrams, s.maxcoll} \subseteq BOOLEAN
       /\ s.maxcoll \/ \A w \in s.vec : w < bitlen => w >= s.nlognBits

ASSUME InputsAssumption == Inputs

Elems(s) == {s[k] : k \in DOMAIN s}

(* The numbers that hashes are, in their order.                            *)
Less(h, g) == \E b \in 1 .. bitlen : h[b] < g[b] /\ \A a \in 1 .. b-1 : h[a] = g[a]

(* A hash read from its other end.                                         *)
reversebits(h) == [b \in 1 .. bitlen |-> h[bitlen + 1 - b]]

(* The first n bits of a hash, the others cleared.                         *)
Masked(h, n) == [b \in 1 .. bitlen |-> IF b <= n THEN h[b] ELSE 0]

(* blobsort(): the places of a list in the order of its hashes, and those  *)
(* of equal ones in their own.                                             *)
Before(s, k, l) == Less(s[k], s[l]) \/ (s[k] = s[l] /\ k < l)
Rank(s, l) == 1 + Cardinality({k \in DOMAIN s : Before(s, k, l)})
SortedPlaces(s) == [r \in DOMAIN s |-> CHOOSE l \in DOMAIN s : Rank(s, l) = r]

(* s taken in the order of the places p.                                   *)
At(s, p) == [k \in DOMAIN p |-> s[p[k]]]

(***************************************************************************)
(* FindCollBitBounds(): of the widths that are below the hash's, the       *)
(* narrowest and widest, which is 0 if there are none, and the widest      *)
(* under the n * log(n) bound, of which the fullest bucket is counted.     *)
(***************************************************************************)
nbBitsvec == {w \in set.vec : w < bitlen}
TestedBits == set.minTBits .. set.maxTBits
combinedBits == nbBitsvec \cup TestedBits
minBits == Min({bitlen + 1} \cup combinedBits)
maxBits == Max({0} \cup combinedBits)
threshBits == Max({0} \cup {w \in combinedBits : w < set.nlognBits})

-----------------------------------------------------------------------------
Nothing == [collcount |-> 0, collisions |-> [v \in {} |-> 0], collisionidxs |-> <<>>, cur |-> 0]

CollisionsInit ==
  /\ given \in Lists
  /\ set \in Settings
  /\ hashes_fwd = given /\ hashidxs_fwd = <<>>
  /\ hashes_rev = <<>> /\ hashidxs_rev = <<>>
  /\ part = "find"
  /\ R!Init
  /\ collcounts_fwd = <<>> /\ collcounts_rev = <<>>
  /\ found = Nothing
  /\ reported = 0
  /\ prevBits = [high \in BOOLEAN |-> bitlen]
  /\ report = [bits |-> {}] /\ printed = <<>>

(* Mutant: what one value has taken counts against the next.               *)
Collect_unreset(f, value, idxs, n) ==
  LET known == value \in DOMAIN f.collisions
      taken == IF ~known THEN <<idxs[n - 1], idxs[n]>>
               ELSE IF f.cur < MAX_PER_ENTRY THEN <<idxs[n]>> ELSE <<>>
  IN  IF known \/ Cardinality(DOMAIN f.collisions) < MAX_ENTRIES
      THEN [collcount |-> f.collcount + 1,
            collisions |-> [v \in (DOMAIN f.collisions) \cup {value} |->
                              IF v # value THEN f.collisions[v]
                              ELSE IF known THEN f.collisions[v] + 1 ELSE 2],
            collisionidxs |-> f.collisionidxs \o taken,
            cur |-> f.cur + Len(taken)]
      ELSE [f EXCEPT !.collcount = @ + 1]

(* The hash at place n collides with the one before: one more of a value   *)
(* that is listed, or the first two of a value if there is room for it.    *)
Collect(f, value, idxs, n) ==
  LET known == value \in DOMAIN f.collisions
      taken == IF ~known THEN <<idxs[n - 1], idxs[n]>>
               ELSE IF f.cur < MAX_PER_ENTRY THEN <<idxs[n]>> ELSE <<>>
  IN  IF known \/ Cardinality(DOMAIN f.collisions) < MAX_ENTRIES
      THEN [collcount |-> f.collcount + 1,
            collisions |-> [v \in (DOMAIN f.collisions) \cup {value} |->
                              IF v # value THEN f.collisions[v]
                              ELSE IF known THEN f.collisions[v] + 1 ELSE 2],
            collisionidxs |-> f.collisionidxs \o taken,
            cur |-> IF known THEN f.cur + Len(taken) ELSE 2]
      ELSE [f EXCEPT !.collcount = @ + 1]

(* The hits are the places at which a hash collides with the one before,   *)
(* in its first n bits; without indices they are counted only.             *)
Collected(s, idxs, hits, n) ==
  LET upto[k \in 1 .. Len(s)] ==
        IF k = 1 THEN Nothing
        ELSE IF k \notin hits THEN upto[k - 1]
        ELSE IF idxs = <<>> THEN [upto[k - 1] EXCEPT !.collcount = @ + 1]
        ELSE Collect(upto[k - 1], Masked(s[k], n), idxs, k)
  IN  upto[Len(s)]

(* The hashes are sorted.                                                  *)
FindCollisions(s, idxs) ==
  Collected(s, idxs, {k \in 2 .. Len(s) : s[k] = s[k - 1]}, bitlen)

(* The collisions of prefixLen bits or more, but not of prevPrefixLen.     *)
FindCollisionsPrefixesIndices(s, idxs, prefixLen, prevPrefixLen) ==
  Collected(s, idxs,
            {k \in 2 .. Len(s) : R!highzerobits(s[k - 1], s[k]) \in prefixLen .. prevPrefixLen - 1},
            prefixLen)

(***************************************************************************)
(* The values in order, each with its count and the next of the indices    *)
(* collected, as many as it should have taken; 0 past the last.            *)
(***************************************************************************)
PrintCollisions(f) ==
  LET shown(v) == Min({f.collisions[v], MAX_PER_ENTRY})
      before(v) == Cardinality({p \in (DOMAIN f.collisions) \X (1 .. MAX_PER_ENTRY) :
                                  Less(p[1], v) /\ p[2] <= f.collisions[p[1]]})
  IN  [v \in DOMAIN f.collisions |->
         [count |-> f.collisions[v],
          idxs |-> [i \in 1 .. shown(v) |->
                      IF before(v) + i > Len(f.collisionidxs) THEN 0
                      ELSE f.collisionidxs[before(v) + i]]]]

-----------------------------------------------------------------------------
(* FindCollisions() sorts the list it is given.                            *)
Find ==
  LET p == SortedPlaces(hashes_fwd) IN
  /\ part = "find"
  /\ hashes_fwd' = At(hashes_fwd, p)
  /\ hashidxs_fwd' = IF set.diagrams THEN p ELSE <<>>
  /\ found' = FindCollisions(hashes_fwd', hashidxs_fwd')
  /\ part' = "high"
  /\ UNCHANGED <<given, set, hashes_rev, hashidxs_rev, pass, tallies, reports>>

CountHigh ==
  /\ part = "high"
  /\ IF set.high /\ maxBits > 0
     THEN R!CountRangedNbCollisions(hashes_fwd, minBits, maxBits, threshBits) /\ part' = "countHigh"
     ELSE UNCHANGED pass /\ part' = "low"
  /\ UNCHANGED <<given, set, list, tallies, reports, found>>

HighCounted ==
  /\ part = "countHigh" /\ done
  /\ collcounts_fwd' = collcounts
  /\ part' = "low"
  /\ UNCHANGED <<given, set, list, pass, collcounts_rev, reports, found>>

Reversed(s) == [k \in DOMAIN s |-> reversebits(s[k])]

(* Mutant: the indices are copied but not sorted with the hashes.          *)
CountLow_untracked ==
  LET rev == Reversed(hashes_fwd)
      p == SortedPlaces(rev)
  IN  /\ part = "low"
      /\ IF set.low /\ maxBits > 0
         THEN /\ hashes_rev' = At(rev, p)
              /\ hashidxs_rev' = hashidxs_fwd
              /\ hashes_fwd' = IF set.diagrams THEN hashes_fwd ELSE <<>>
              /\ R!CountRangedNbCollisions(hashes_rev', minBits, maxBits, threshBits)
              /\ part' = "countLow"
         ELSE UNCHANGED <<hashes_rev, hashidxs_rev, hashes_fwd, pass>> /\ part' = "report"
      /\ UNCHANGED <<given, set, hashidxs_fwd, tallies, reports, found>>

(* With diagrams the list is copied; without, it is moved.                 *)
CountLow ==
  LET rev == Reversed(hashes_fwd)
      p == SortedPlaces(rev)
  IN  /\ part = "low"
      /\ IF set.low /\ maxBits > 0
         THEN /\ hashes_rev' = At(rev, p)
              /\ hashidxs_rev' = IF set.diagrams THEN At(hashidxs_fwd, p) ELSE hashidxs_fwd
              /\ hashes_fwd' = IF set.diagrams THEN hashes_fwd ELSE <<>>
              /\ R!CountRangedNbCollisions(hashes_rev', minBits, maxBits, threshBits)
              /\ part' = "countLow"
         ELSE UNCHANGED <<hashes_rev, hashidxs_rev, hashes_fwd, pass>> /\ part' = "report"
      /\ UNCHANGED <<given, set, hashidxs_fwd, tallies, reports, found>>

(* Mutant: the hashes are moved back as they are.                          *)
LowCounted_reversed ==
  /\ part = "countLow" /\ done
  /\ collcounts_rev' = collcounts
  /\ IF set.diagrams THEN UNCHANGED list
     ELSE /\ hashes_fwd' = hashes_rev /\ hashidxs_fwd' = hashidxs_rev
          /\ hashes_rev' = <<>> /\ hashidxs_rev' = <<>>
  /\ part' = "report"
  /\ UNCHANGED <<given, set, pass, collcounts_fwd, reports, found>>

(* What was moved is moved back, the right way round.                      *)
LowCounted ==
  /\ part = "countLow" /\ done
  /\ collcounts_rev' = collcounts
  /\ IF set.diagrams THEN UNCHANGED list
     ELSE /\ hashes_fwd' = Reversed(hashes_rev) /\ hashidxs_fwd' = hashidxs_rev
          /\ hashes_rev' = <<>> /\ hashidxs_rev' = <<>>
  /\ part' = "report"
  /\ UNCHANGED <<given, set, pass, collcounts_fwd, reports, found>>

(***************************************************************************)
(* The reports in their order: on all bits; on each width, widest first;   *)
(* on the tested widths together. Each names its widths, and whether it is *)
(* about the first bits or the last.                                       *)
(***************************************************************************)
Ends == (IF set.high THEN <<TRUE>> ELSE <<>>) \o (IF set.low THEN <<FALSE>> ELSE <<>>)
Width(n) == CHOOSE w \in nbBitsvec : Cardinality({v \in nbBitsvec : v > w}) = n
NbReports == 1 + Len(Ends) * (Cardinality(nbBitsvec) + 1)

NextReport ==
  LET high == Ends[1 + ((reported - 1) % Len(Ends))]
      n == (reported - 1) \div Len(Ends)
  IN  IF reported = 0 THEN [kind |-> "all", bits |-> {bitlen}, high |-> TRUE]
      ELSE IF n < Cardinality(nbBitsvec) THEN [kind |-> "width", bits |-> {Width(n)}, high |-> high]
      ELSE [kind |-> "summary", bits |-> TestedBits, high |-> high]

(* Mutant: the fullest bucket is reported as if it were the sum.           *)
Reported_as_sum(r) ==
  [bits |-> r.bits, high |-> r.high,
   maxcoll |-> FALSE,
   counts |-> IF r.kind = "all" THEN [w \in r.bits |-> found.collcount]
              ELSE IF r.high THEN [w \in r.bits |-> collcounts_fwd[w]]
              ELSE [w \in r.bits |-> collcounts_rev[w]]]

(* What ReportCollisions() and ReportBitsCollisions() are called with.     *)
Reported(r) ==
  [bits |-> r.bits, high |-> r.high,
   maxcoll |-> r.kind = "width" /\ set.maxcoll /\ r.bits \subseteq 0 .. threshBits,
   counts |-> IF r.kind = "all" THEN [w \in r.bits |-> found.collcount]
              ELSE IF r.high THEN [w \in r.bits |-> collcounts_fwd[w]]
              ELSE [w \in r.bits |-> collcounts_rev[w]]]

(* The collisions of n bits or more, but not of more bits than prev.       *)
List(r, n, prev) ==
  /\ found' = IF r.kind = "all" THEN found
              ELSE IF r.high THEN FindCollisionsPrefixesIndices(hashes_fwd, hashidxs_fwd, n, prev)
              ELSE FindCollisionsPrefixesIndices(hashes_rev, hashidxs_rev, n, prev)
  /\ printed' = [bits |-> n, prev |-> prev, high |-> r.high, lines |-> PrintCollisions(found')]

(* The list of a width leaves out what was listed for a wider one; that of *)
(* the worst of the tested widths leaves out nothing.                      *)
Report ==
  LET r == NextReport IN
  /\ part = "report" /\ reported < NbReports
  /\ report' = Reported(r)
  /\ reported' = reported + 1
  /\ \E fails \in BOOLEAN :
       IF fails /\ set.diagrams
       THEN \E n \in r.bits :
              /\ List(r, n, IF r.kind = "width" THEN prevBits[r.high] ELSE bitlen + 1)
              /\ prevBits' = IF r.kind = "width" THEN [prevBits EXCEPT ![r.high] = n] ELSE prevBits
       ELSE printed' = <<>> /\ UNCHANGED <<found, prevBits>>
  /\ UNCHANGED <<given, set, list, pass, tallies, part>>

Pass == R!Pass /\ UNCHANGED <<given, set, list, tallies, reports, part, found>>

CollisionsNext == Find \/ CountHigh \/ HighCounted \/ CountLow \/ LowCounted \/ Pass \/ Report

CollisionsSpec == CollisionsInit /\ [][CollisionsNext]_collisionsVars

-----------------------------------------------------------------------------
(* By definition, on the list as it was given, its hashes read from either *)
(* end: the hashes whose first n bits are v.                               *)
Read(k, high) == IF high THEN given[k] ELSE reversebits(given[k])
Sharing(high, n, v) == {k \in DOMAIN given : Masked(Read(k, high), n) = v}
Shared(high, n) == {Masked(Read(k, high), n) : k \in DOMAIN given}

(* How many of the hashes in K differ in the first n bits; all, if n is    *)
(* more than there are.                                                    *)
Differing(high, n, K) ==
  IF n > bitlen THEN Cardinality(K) ELSE Cardinality({Masked(Read(k, high), n) : k \in K})

(***************************************************************************)
(* Each report gets the numbers of the hashes as given, from the end it    *)
(* says: of the widths under the n * log(n) bound the largest number of    *)
(* collisions on one value, and it is told so, and of others the sum.      *)
(***************************************************************************)
ReportsRight ==
  \A w \in report.bits :
    LET peak == w < set.nlognBits IN
    /\ report.maxcoll = peak
    /\ report.counts[w] =
         IF peak THEN Max({Cardinality(Sharing(report.high, w, v)) - 1 : v \in Shared(report.high, w)})
         ELSE Len(given) - Cardinality(Shared(report.high, w))

(***************************************************************************)
(* A list of collisions has the first values that two hashes or more,      *)
(* differing in the bits listed before, have in common; counts those; and  *)
(* names hashes that have the value, as many as it counts or may name, no  *)
(* two of which would have been listed together before.                    *)
(***************************************************************************)
CollisionsNamed ==
  printed # <<>> =>
    LET high == printed.high
        all == {v \in Shared(high, printed.bits) :
                  Differing(high, printed.prev, Sharing(high, printed.bits, v)) > 1}
        lines == printed.lines
    IN  /\ DOMAIN lines \subseteq all
        /\ Cardinality(DOMAIN lines) = Min({MAX_ENTRIES, Cardinality(all)})
        /\ \A v \in DOMAIN lines, u \in all \ DOMAIN lines : Less(v, u)
        /\ \A v \in DOMAIN lines :
             LET K == Sharing(high, printed.bits, v) IN
             /\ lines[v].count = Differing(high, printed.prev, K)
             /\ Len(lines[v].idxs) = Min({lines[v].count, MAX_PER_ENTRY})
             /\ Elems(lines[v].idxs) \subseteq K
             /\ Differing(high, printed.prev, Elems(lines[v].idxs)) = Len(lines[v].idxs)

(***************************************************************************)
(* What is left to the tests that follow (TestDistribution()) are the      *)
(* hashes that were given, in whatever order; if they are to be named, the *)
(* index of each is that of the same hash, from either end.                *)
(***************************************************************************)
ListKept ==
  part = "report" =>
    /\ \A h \in Hash : Cardinality({k \in DOMAIN hashes_fwd : hashes_fwd[k] = h})
                           = Cardinality({k \in DOMAIN given : given[k] = h})
    /\ set.diagrams =>
         /\ \A k \in 1 .. Len(given) : given[hashidxs_fwd[k]] = hashes_fwd[k]
         /\ set.low /\ maxBits > 0 =>
              \A k \in 1 .. Len(given) : reversebits(given[hashidxs_rev[k]]) = hashes_rev[k]

=============================================================================
