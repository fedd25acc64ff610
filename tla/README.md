# A TLA+ model of SMHasher3

The repository holds several generations of a test suite for non-cryptographic
hash functions: the original sources in the root, variants of them
(`seed_check/`, `year2024/`, `year2025/`, `yves/`), and `smhasher3/`, the rewrite.
This project models `smhasher3/`, the one with threads, a seekable random
number generator, a registry of hashes and books of its own about results.
Paths below are relative to `src/smhasher3/`.

The program runs a list of tests on a hash function. Each test generates keys,
hashes them, and asks whether the hashes look random. A hash is "passed" or
"failed" on the word of counters, sorted lists and bins, so the question for a
verification is whether these *are* what the statistics take them to be: each
flip counted once, each slice scored once, each seed tried once, each random
number the one the seed and offset name, whatever the number of threads, the
order in which they run, and the sizes chosen for speed. The p-values computed
from them are floating point and are not modelled.

## Inventory

| component | state | operations | what makes it correct | model |
|---|---|---|---|---|
| Random numbers: `Rand` (`util/Random.*`) | seed keys, block counter, cache `rngbuf[]` of `BUFLEN` numbers, `bufidx` | `seek`, `getoffset`, `reseed`, `rand_u64`, `rand_range`, `rand_n`, `get_seq` | seed and offset alone select the next number; caching, bulk generation and `PARALLEL` are invisible; ranges are kept | `Rand`, `RandStream`, `RandRange` |
| Random sequences: `RandSeq` (same files) | none (pure functions of two keys) | `write` of permutations, of elements with a minimum distance | any range of a sequence is the same as that part of the whole; elements differ in as many bits as promised | `RandSeq`, `MCRandCalls` |
| Avalanche tests (`tests/AvalancheTest.cpp`, `util/Histogram.h`) | atomic key counter, a histogram per thread | claim, flip and count, join, merge, report | every flip of every key counted once, in its own counter, before the evaluation | `Avalanche`, `BiasCount` |
| Bit independence tests (`tests/BitIndependenceTest.cpp`, `tests/SeedBitIndependenceTest.cpp`) | atomic counter, two histograms per thread, one of packed rows of pairs | the same, then rebuild each pair's table | the same, and no counter outside the vectors; the worst pair is the one named | `BitIndependence`, `BiasCount` |
| BadSeeds search (`tests/BadSeedsTest.cpp`) | shares of two ranges, two mutexes, a condition variable, a shared output column | known list, skipped and described hashes, spawn, announce, search, give up, join | every seed tried once up to the last number; no lost wakeup; the verdict is that of the seeds | `BadSeeds`, `SeedSearch`, `BadSeedsKeys` |
| Hash list analysis: distribution (`util/Analyze.cpp`) | atomic bit counter, shared array of scores, bins of 8 and 32 bits per thread | claim, count, recount, fold, score, join | bins exact although 8-bit ones overflow; each slice scored once into its place | `Distribution`, `SliceScores` |
| Hash list analysis: collisions, differentials (`util/Analyze.cpp`) | a list of hashes, sorted and reversed in place; a list of their indices | count per width from either end, collect, list, differences | one pass equals counting by value; indices stay those of the hashes; a report gets the numbers it says | `RangedCollisions`, `CollisionList`, `Deltas` |
| Sorting (`util/Blobsort.h`) | the list and its indices | radix, flag and insertion sort | sorted permutation, same permutation of indices, blocks and sentinels where the loops expect them | `Blobsort` |
| Reports (`util/Reporting.cpp`) | none of its own | verdicts, lists of collisions and outliers | the keys named are the ones meant | `CollisionList`, `Deltas`, `Outliers`, `BitIndependence`; floating point not modelled |
| Statistics, `Blob`, verification codes, registry, driver, sanity, key set and speed tests, hash implementations, platform layer | see `PROJECT.json` | | | not modelled, with a reason each |

**How the parts interact.** `main.cpp` runs the enabled tests one after
another on one thread. A test draws keys from a `Rand` or `RandSeq`, hashes
them itself, possibly on threads it starts and joins, and either evaluates its
own counters (`ReportBias()`) or hands the list of hashes to `TestHashList()`,
which computes differences (`Deltas`), sorts (`Blobsort`), counts collisions
(`RangedCollisions`), reverses, sorts and counts again (`CollisionList`), and
tests the distribution of bits (`Distribution`). When a report needs the key behind a
hash it turns an index into a key again, through `DifferentialIdxs()` and a
function the test passes (`keyprint`).

**What is hard.** Four places start threads. They share work by an atomic
counter (`FETCH_ADD`, Avalanche, bit independence, distribution) or by a fixed
division (BadSeeds); share results (one array of scores), a progress bar, an
output column; and hand over by `join()` or a condition variable. Elsewhere
the hazards are those of dense sequential code: caches left over from an
earlier call, counters at the end of their range, overflow that is detected
and undone, data whose order no longer matches its indices, arithmetic that
finds a place again by division. Nothing is persisted and no messages are
sent: there is no crash recovery and no lost delivery to model.
`PROJECT.json` lists each hazard at its line with the properties aimed at it.

## Plan

The modules, in the order in which they were written:

1. `RandStream`, `Rand`, `RandRange`: every other test draws from it.
2. `BiasCount`, `Avalanche`: the pattern of claiming, counting, merging.
3. `SeedSearch`, `BadSeeds`, `BadSeedsKeys`: the only locks and waits.
4. `SliceScores`, `Distribution`: shared results, overflow.
5. `RangedCollisions`, `Deltas`, `Outliers`, and `DeltaOutliers`, which
   composes the last two: lists and their indices.
6. `CollisionList`, which composes `RangedCollisions` with the sorting,
   reversing and listing of `TestCollisions()`.
7. `Blobsort`: each sort's loop, a step per turn.
8. `RandSeq`: `write()` of a range against the whole.
9. `BitIndependence`: a second implementation of `BiasCount`, with a layout
   of its own.

What would come next: the key sets whose `keyprint` inverts a closed-form
index, with `nextlex()`; the thread test of `tests/SanityTest.cpp`; and
theorems about `RandSeq`.

## Modules

### Rand, RandStream, RandRange

`Rand` is the class: the record `rng` holds its fields (`xseed`, `counter`,
`rngbuf`, `bufidx`), each public method is an action, and methods that call
others are operators on the record (`get_seq()` toggles the orthogonal keys,
draws, and toggles back). `threefry()` is an uninterpreted function, so a
number *is* the triple of keys, block and lane that generated it; this is the
strongest reading, under which two numbers are equal only if they were
generated alike. `rand_n()` keeps its four phases (cached bytes, bulk blocks
straight into the caller's buffer, last refill, tail). `out` records what the
last call returned, byte by byte. A fresh object's cache holds a value no
number equals: reading it would be reading memory never written.

`RandStream` is the promise of the header comment: a seed selects a list, an
offset a place in it, every call takes the next elements. It knows no cache
and no `PARALLEL`. `ImplementsStream` is the refinement, with the place mapped
to `counter * 4 + bufidx - BUFLEN`.

`RandRange` is the arithmetic of `rand_range()` for a `uint32_t` of `W` bits,
including what a shift by the full width does on the machines it runs on.

### RandSeq

`get_seq()` returns an object that is nothing but keys; `write()` makes any
range of its sequence. A call is one step, chosen among objects and ranges:
`Permutation` is `fill_perm()`, `feistel` and the walk around the cycle are
`fill_seq()` for short elements, with an arbitrary round function, and long
elements get their remaining bytes from the object's own stream, where a byte
*is* its place. `polytable` is the code's. Words are of two bytes, so that
elements shorter than, equal to and longer than a word are all small.
`MCRandCalls` puts `RandSeq` and `RandRange` side by side: they are what a test
calls besides plain numbers, and do not influence each other.

### Avalanche, BiasCount

`AvalancheImpl()` on the main thread (`main`, loop variable `i`: Spawn, Join,
Merge, ReportBias) and `calcBiasRange()` on `g_NCPU` threads (`pc`: Claim,
Flip, Leave). A step is as long as the code shares nothing: claiming is the
`FETCH_ADD` with the progress dots and the hash of the unflipped key, which
follow it and touch only that thread's state and the output; a Flip is one
turn of the inner loop. `cursor` is the pointer into the histogram that the code carries
through the inner loop. Which bits a flip changes is an arbitrary function
`hash`. `owner` is a history variable: who claimed which key. `BiasCount` says
what has to come out: a report that counts each job once, after the last.

### BitIndependence

The threads are those of `Avalanche`, and `BiasCount` is what they implement,
with a counter for each bit and each pair of bits. What differs is the layout.
A flip adds to a row of `andcounts` for each hash bit that changed, by the
variant of `HistogramHashBits()` that starts at a bit: it works on whole words
and so touches counters *before* its cursor (`CellsFromBit`), adding 0 to them
(`OnesFromBit`). `AndCursor` is the cursor as it comes to each row: behind the
last word counted, or, past a bit that did not change, moved on by as many
counters as that row has. That both come to the same is nothing the model
assumes: a row skipped wrongly shifts all that follow, and `AndCursor_short` does it.
A vector is a function; touching a cell
outside would add it to the domain, and `InVectors` says the domain never
changes. `ReportChiSqIndep()` is a step per pair. It walks the counters one
after another in its own loops (`OutPairs`, `Place`), without the rows'
formula, and so a disagreement between writer and reader would show. Pearson's
statistic is kept as an exact fraction; that of tables with too small an
expectation is the number of inputs, as in the code. The test of seeds has the
same two functions but for where an input comes from, and the same module.

### BadSeeds, SeedSearch, BadSeedsKeys

`setup` is the hash and the options of a run: whether seeds are short of 64
bits, whether it is a mock or its bad seeds are only described, the list, the
number of threads. The main thread tries the known list, and for each of two ranges takes
`progress_mutex`, spawns threads, waits on the condition variable until
`threads_remaining` is 0 (spurious wakeups included), calls its own share or
joins, and collects. A thread announces its share under `print_mutex`, counts
itself off under `progress_mutex`, and searches: each seed's collisions, zeros
and advance are steps of their own. `midline` stands for the column the
terminal is in. Which seeds are `Bad` (keys collide) and `Broken` (a key
hashes to 0) is given. The second range ends at the largest number there is,
where the loop must end by comparison before the increment. `SeedSearch` says what
the verdict means: a hash passes when all seeds it promised to try were tried
and were good, and fails over one that was not, or over a description of bad
seeds that nobody tried. `BadSeedsKeys` is the
place of a hash in the list of one seed's hashes, and back.

Two facts met on the way that no property claims: progress lines may precede
another thread's "Testing" line, since waiting releases `progress_mutex`; and
on a single thread a search that gives up exactly at its first new bad seed
leaves `newresult` unset (`NewReported` is therefore checked of the runs that
finish their ranges).

### Distribution, SliceScores

`TestDistribution()` on the main thread and `TestDistributionBatch()` on the
others: Claim takes `batch_size` starting bits by `FETCH_ADD`; Count fills the
8-bit bins and stops when one wraps; Recount then counts in 32 bits; Score
writes the score of the present width to the claimed place; FoldBig and
FoldSmall halve the bins, FoldSmall finding out that some sums wrapped, and
undoing and widening them. The three vectors of bins persist between starting
bits, with the size and contents of earlier folds, as in the code. A score is
represented by the sum of squares it is computed from. `SliceScores` is the
promise: every place gets the score of its slice, once; the report is last.

### RangedCollisions, CollisionList

`RangedCollisions` is `CountRangedNbCollisionsImpl()`, a step per hash, with
counters indexed by width; what it counts is checked in the reports made of
it. `CollisionList` is `TestCollisions()`: sort and find the
complete collisions, count those of the first bits, reverse every hash, sort
and count again, restore, and report width by width, each failing report (an
arbitrary choice here: p-values decide it) followed by the list
`FindCollisionsPrefixesIndices()` collects and `PrintCollisions()` prints. The
pass over the list is an instance of `RangedCollisions`, run once or twice.
`prevBits` is what makes the lists depend on one another: each leaves out what
was listed for a wider width that failed. The properties are stated on the
list as it was *given*: counts of the hashes sharing their first or last bits,
and the hashes that the indices named have in that list.

A hash is a function from its places to bits, the first bit first. Equal hashes
are taken in the order they were in, where the code's sort may exchange them: which
of several equal hashes is listed is up to the sort, and no property says which. If no width is left to test, the code
returns before it counts or reverses anything (`Analyze.cpp:491`, `508`), which
is why `ListKept` promises the index of a hash from the other end only for
`maxBits > 0`. What would be `hashes`, `hashidxs`, `Init`, `Next` and `Spec` here is
`hashes_fwd`, `hashidxs_fwd`, `CollisionsInit`, `CollisionsNext` and `CollisionsSpec`:
`AnalysisProofs` extends this module and `DeltaOutliers`, the other part of the
analysis of a list, which has those names.

### Blobsort

`blobsort()` and the four sorts it calls, with the stack of calls that wait as
`todo`. A step is one turn of a loop, for the radix sort one pass. The loop of
`flagsort()` over its blocks is a call of its own (`sortblocks`), which waits
while the block it is at is sorted. The
digits, `SMALLSORT_CUTOFF` and the length that limits `insertionsort()` are
small, so that lists of up to six hashes take every path: the insertion sort
that gives up, radix passes that leave the list in the second area, blocks
that are empty or single, the last block, which is not scanned. `named` is
a history variable: which hash each index stands for. A vector of indices of the
right size is taken for the indices of the hashes as they are. A hash is a
natural number below `Weight[LEN]`, the weight of the digit beyond its first.

### Deltas, Outliers, DeltaOutliers

`Deltas` is the part of `TestHashListImpl()` that makes
lists of differences, a step per difference (two at the end of a row), with a
difference represented by the two indices it was made of, and
`DifferentialIdxs()`, which must find those indices again. `Outliers` is
`ShowOutliers()`: the loop over bins with its heap (a bag; only its minimum is
ever looked at), the loop over hashes, the loop over empty bins.
`DeltaOutliers` composes them as `TestHashListImpl()` does: a list of
differences is sorted with a list of indices kept along, its outliers are found
among the sorted ones, and the keys named are those of the two hashes each
difference was made of. Three numberings meet there: the place in the sorted
list, the index in the list of differences, the indices of two hashes.

## Runs

`CHECK_DEADLOCK FALSE` is set where the code modelled ends; `rand` and
`rand_calls`, whose objects can always be called again, are checked for deadlock.

| run | shows |
|---|---|
| `rand` | every call returns the next numbers of the seed's list, across two seeds, a 4-bit counter that wraps, requests around the cache size; the unread part of the cache is always what follows in the list; `seek(getoffset())` replays; `rand_n()` calls concatenate |
| `rand_calls` | `write()` writes all elements of a range or none, the same ones whatever range they are asked for in, that differ in as many bits as the sequence promises; `rand_range()` is below `max` for each `max` under 2^(W-1) |
| `avalanche` | three threads, four keys: counters exact at every step, merged only after the joins, dots complete, the test ends, `BiasCount` implemented |
| `bit_independence` | two threads, six inputs of three bits, hashes of two words: no counter outside the vectors is touched, the report reads for each pair what the definition counts, and names the worst pair; the test ends |
| `bad_seeds` | one to three threads, 57 setups: shares of unequal size, giving up in a share or altogether, listed, mock and described hashes: each seed once, handshake, output column, new seeds announced, verdict, the test ends |
| `distribution` | three threads, 18 slices, overflow at once, at either fold, and not at all |
| `blobsort` | lists of up to six 3-digit hashes, sorted with no indices, with stale ones and with another order: indices stay with their hashes between any two moves, the unguarded sort has its sentinel, blocks fill up and do not overrun, the result is sorted, the sort ends |
| `analysis` | collisions: 4,290 lists of up to six 4-bit hashes, six settings of what to test, any report failing: counts, sums and peaks by width from either end, what each report is given, what each list names, and the list left to the tests that follow. Outliers: up to six differences of pairs, of single rows and of a grid along both axes: the hashes named for each index, the bound of the bins shown, as many hashes shown as announced and no bin left out while there is room, and the keys named through both numberings |

The violation runs each show one disagreement of the code with its comments:

| run | what the code does |
|---|---|
| `rand_range_bias` | the number of bits kept is the number of *leading zeros* of `max`: from 2^16 upwards too few to reach every value, while the comment calls the bias negligible |
| `bad_seeds_keys` | the report decodes the place of a hash with the wrong divisor: it names the wrong key, and can read past the table of lengths |
| `outliers_limit` | the limit on the number of bins of which hashes are recorded is or-ed with one that an untouched bin always meets: more bins are recorded than the comment allows |
| `deltas_line` | the last of the successive differences is of the last and the first hash; the report names the hash past the last |

`MCAnalysis` runs one of the two parts of the analysis of a list, while the other
stays as it started: they share no state.

Four more limits are written into the properties instead of a run of their own:

- `getoffset()` (`util/Random.h:362`) is computed in 64 bits, while the object
  counts 2^64 blocks of *four* numbers: past number 2^64 the offset it returns
  names another number. `SeekReplays` is stated of the positions it can name.
- For `max` >= 2^31, `rand_range()` (`util/Random.h:377`) shifts by the whole
  width of its operand, and the result need not be below `max`.
  `ShortRangeKept` is stated of the others; the tests call it with small ones.
- A `RandSeq` of permutations of 0 .. `szelem` has `szelem + 1` elements by
  `util/Random.h`, but none if `szelem` is 0; and elements longer than 8 bytes are
  promised for 2^64 - 1 numbers, though their first 8 bytes repeat earlier
  (`util/Random.cpp:571`). `WholeOrNothing` and `ElementsApart` are stated of
  sizes from 1 on and of elements before they repeat.
- `ShowOutliers()` starts its ten largest counts with ten copies of bin 0's
  (`util/Reporting.cpp:184`), which keep other bins out if bin 0 is among the
  largest, though the comment says "the top 10 bin counts". `BoundRight` states
  the bound with that exception.

`ShownRight` says nothing of how many bins are shown, as `outliers_limit` is about
that: it holds of the code as it is and of code that heeds the limit, but not of
code that takes `entries.size()`, a number of hashes, for the number of bins.

## Bounds, and why they are enough

- `Rand`: `U64 = 16` and `PARALLEL = 2` give 64 numbers in the period and a
  cache of 8; the offsets are the first, one inside a block, and the last (from which
  the counter wraps), the requests nothing, part of a number, exactly the
  cache, one byte more, two caches and one byte more. Every phase of `rand_n()` and every
  residue of `bufidx` is reached. The theorems cover the rest.
- `RandSeq`: `WB = 2` bytes to a word give elements of one, two, three and five
  bytes (below, at and above a word, with a last partial block of the stream)
  and permutations of up to 21 numbers. Ranges start at the beginning, inside,
  at the end, past it and just below 2^64; small sequences are written whole,
  so that every pair of elements is compared. Of the table of polynomials, rows
  one and two are reached. `FEISTEL_CUTOFF` and the number of rounds are the code's.
- `RandRange`: `W = 5` has both parities of leading zeros and all numbers of 10 bits.
- `Avalanche`: three threads and four keys let one thread claim nothing, one,
  or several; a key of two bits makes the cursor carry over; the hash of
  `MCAvalanche` changes none, one and both bits, differently per key; three
  dots for four keys take the branch that skips keys, and both branches of
  `progressdots()` are covered by the theorem `WholeBar`.
- `BitIndependence`: hashes of 8 bits in words of 4 put starting bits at each
  place of a word, rows in one word and in two, and the first row at the very
  start of the vector; three input bits make three blocks of rows. Six inputs
  are the fewest whose tables can all have an expectation of `MinExpect` = 1 (for
  10) and differ in value: `MCBitIndependence` has tables of four values, the
  largest twice. Two threads suffice for what it adds to `Avalanche`.
- `BadSeeds`: 8 seeds per range (`U32`) do not divide by three threads, so the last
  share is longer. The setups have new and known seeds, bad and broken, at the
  first and last seed of shares and of all; `MaxFails` stands for the code's
  300, reached in either range, by one thread of two, by one alone, and exactly;
  `UintMax` is the value an unsigned count below zero wraps to.
- `Distribution`: `U8 = 4` for 256, so that five hashes overflow bins; widths
  3 to 1 give two folds; batches of two of six bits make three claims for
  three threads, with one more failed claim each.
- `CollisionList`: all multisets of up to six of seven 4-bit hashes, among them
  hashes that share bits at both ends, as given in order and rotated; two
  values and three hashes per value are listed, so that both limits bite. Of the
  six settings, five give sums over widths; two count from both ends, one from each
  end alone, one from neither, and one has no width left to test.
- `Blobsort`: 3 values per digit and 3 digits are the fewest with a block that is
  neither first nor last and a recursion below a recursion; all lists of up to
  four of six hashes, and of five and six of fewer.
- `DeltaOutliers`: all inputs within the bound, but for the
  order into which differences are sorted, of which there are two (as it was,
  and rotated by one): a name is found for one place at a time. Lists of up
  to six differences have the smallest grid, of two rows of three. Two outliers of
  four bins leave bins above, at and below the bound; four bins that tie for it are
  more than the two that `maxEntries` allows, and so are three empty ones.

## Fairness

The threaded modules assume weak fairness of each thread and of the main
thread: the operating system schedules every thread that can run, and nothing
in the loops blocks but what is modelled (`join()`, the mutexes, the condition
variable). No fairness is assumed of spurious wakeups, and none among threads
that contend for a mutex beyond that a mutex held for one step is free
again. `Terminates` is checked under this assumption only. `Blobsort` runs on one
thread, which is scheduled (`WF_vars(Next)`); its `Terminates` is about its loops. The
other sequential modules have safety properties alone and state no fairness.

## Proofs

`RandProofs` (theorems `CacheAlwaysCoherent`, `Refinement`, `Replay`,
`Concatenation`): for every number of counter values divisible by 4, every `PARALLEL` > 0, all seeds, offsets and requests.
The invariant is `TypeOK /\ CacheCoherent`. Each method has a lemma in
Hoare style (a coherent object goes in, a coherent object comes out, the
position has advanced by what was taken, the value is the list's), and
actions and refinement steps follow from those. The invariant is needed as a
whole: a draw returns what the cache holds, and only `CacheCoherent` says that
this is what the list has. `BeyondCorrect` is the heart of it: the bulk phase
of `rand_n()` numbers blocks by `counter + b * PARALLEL` and never passes
through the cache.
`Replay` needs that two coherent objects at one place of one list draw the same
(`SamePlace`), whatever their caches hold otherwise; `Concatenation` is about the
bytes of the list, for which it is enough that the first request takes whole
numbers (`BytesConcatenate`).
Block and lane of a position are `\div` and `%` of a counter that wraps;
`Modular` proves the arithmetic this needs.

`AvalancheProofs` (theorems `TypeCorrect`, `HistogramsExact`, `NoEarlyMerge`,
`WholeBar`, `Implementation`): for every number of threads, keys, key bits and
hash bits, every bar length and every hash function. The inductive invariant
`Inv` joins, to the types, what each property needs from the others:
`Claims` (the claim counter exceeds the number of keys only by the threads
that have left), `MainLoop` (which threads the main thread's loops have
dealt with), `Flipping` (a thread's copy of the key, the reference hash and
the cursor fit its place in the loop), `Claimed` and `AllClaimed` (the counter
and the owners agree; when a thread leaves, no key is left), `DotsSoFar` (dots
as a closed form of the counter), `BinsCount` (each counter of a thread is the
number of its flips that changed that bit) and `Merging` (what the first
histogram holds part way through the merge). `BinsCount` is not inductive
alone: that a flip is counted in the right counter rests on `cursor`, and that
it is counted once on `owner`. `Implementation` maps each `Flip` to one job of
`BiasCount` and `ReportBias` to its report, all else to stuttering.

`BitIndependenceProofs` (theorems `NothingOutside`, `Implementation`, `Naming`): for
every number of threads, inputs and bits, every even word width that divides the
hash and every hash function, all its safety properties. `NothingOutside` is
`InVectors`. The comment in `util/Histogram.h` leaves it to callers that memory
before the cursor may be written. The proof is the calculation behind the one
counter they keep free: counting a row in whole words and skipping it move the cursor
alike (`CursorMoves`), so that by induction over the rows the cursor is where the
rows before, as a closed form (`RowStart`), end (`CursorAt`). A row begins at least as many counters after the first
pair as its lower bit says (`RowInRange`), so the words it starts in begin at
the free counter or later, and its last row ends within the `hashbits^2 / 2` counters of a
keybit (`EvenHash`, `AndInRange`). `InVectors` alone is not inductive: the
invariant adds `Flipping`, that the cursor into `popcounts` is at the keybit's
own counters, and that a thread only flips bits there are.
`Implementation` rests on the layout once more: rows don't overlap
(`RowsApart`, `CellsDiffer`), so a flip adds one to the counters of the pairs
that changed and to no other (`PairAdded`). The invariant `Sharing` says
that the jobs counted so far can be shared out among the vectors so that each
counter is the number of jobs of its share that changed it; a flip adds a job to
a share and a merge moves a share to thread 0. That the report, which walks
the vector without the rows' formula, reads the right counter is `PlaceOf`, by
induction on the rows flattened (`OutPairsFlat`). `Naming` adds `WorstSoFar`: of
the pairs looked at, the one kept is the first of the worst. It needs
that fractions are compared transitively (`AboveBoth`), whose denominators no
table makes zero (`ValuesAreFractions`), that boxes rebuilt from three
counters are the table (`BoxesAreTable`) and that pairs come in lexicographic
order (`AtOrder`). TLC checked `WorstSoFar` on the instance of
`MCBitIndependence` before it was proved.

`BadSeedsProofs` (theorems `Tiling`, `Handshake`, `Column`, `OwnCount`, `News`,
`Implementation`): for every size of a range (and its square, the number of all
seeds), number of threads, list, setup and set of bad seeds, every safety
property of `BadSeeds` and the refinement of `SeedSearch`. That the shares tile
a range is the arithmetic of `len`, `start` and `end` (`ShareBounds`,
`SharesApart`, `SharesTile`). The rest is the inductive invariant `Inv`:
`ModeInv` (where the setup lets the main thread be), `PhaseInv` (which threads
have begun a share of which range, and that none gets beyond its announcement
while the main thread keeps `progress_mutex`), `HandshakeInv`
(`threads_remaining` is the number of threads yet to announce: so a wakeup for
no reason changes nothing), `ColumnInv`, `ThreadInv` (`Scanned`, what a thread
has tried of its share; `Noted`, that its count and flags are right of that),
`TriedInv` and `ResultInv` (the results so far are right of the list and of the
ranges done with). No property is inductive alone. `ScannedOnce` needs that a
new share holds no seed tried before (`BeginFresh`), though other threads are
still done with theirs of the range before; `ImplementsSeedSearch` needs, in
`NotTooMany`, that a thread that gives up has a second bad seed behind it,
which has made its result false: `Collide` itself leaves the flag as it was.
TLC checked `Inv` on the instance of `MCBadSeeds` before it was proved.

`DistributionProofs` (theorems `Exactness`, `Implementation`): for every number
of threads, width and list of hashes, and every share of overflows allowed. The
parts of the inductive invariant `Inv`: `ApartInv` (no two threads hold the same
starting bit), `PlacesInv` (a place of `result_scores` has no score exactly if its
starting bit is not claimed or its thread has not come to it yet), `CountInv`
(as many places have scores as the threads have counted tests, and the main
thread's sum is that of the threads it joined), `MainInv` (which threads are
born and joined), `SliceInv` and `BinsInv` (each bin is what the definition
counts for the width at hand: after a fold, the sum of two bins is the count of
one less bit, and an overflow seen before is seen after). `Implementation` maps
the scoring of a place to a job of `SliceScores`.

`BlobsortProofs` (theorems `Following`, `Sentinel`, `Filling`, `Sorting`): for
every radix, length of hash, cutoff, list and vector of indices, through any
depth of nested calls. The result is sorted because of what is true half way:
`Inv` says, while a sort runs, that indices follow their hashes (`Follows`), that
each call on the stack is right (`StackOK`) and that two neighbours are out of
order only where a call that runs or waits will still sort them (`GapsOK`). A
call is right when its part of the list is `Apart` (what is before it is no
larger, what is after it no smaller: sorting a part doesn't spoil the whole) and
its own loop is: `SmallOK`; `InsertionOK` (what it has been through is in order);
`FlagOK` (its hashes agree in all higher digits); `PermuteOK` (each block holds
its own digit as far as it is filled); `LoopOK` (each hash is in the block of its
digit, in the blocks still to be sorted); `RadixOK` (the area the next pass reads
holds the hashes, in order of the digits of the passes made). `BlocksFill` rests on counting: `RoomLeft` and `AllPlaced` show that
when all blocks but the last are full, the last is too, which is why the code
need not scan it. `SentinelBefore` rests on `Apart`: the hash before a part is
the sentinel of the sort without a guard. `BlocksOrdered` is far from inductive:
it speaks of the end. TLC checked `Inv` on the instance of `MCBlobsort` first.

`AnalysisProofs` proves the four invariants of `DeltaOutliers`, for every
number of hashes and shape of grid, every number of bins, every limit, every order the
differences are sorted into and any bins they fall into.
- `Grid` (`GridNamesHashes`) rests on `DeltaInv`: what the differences made so far
  are, and where the loop over rows stands; that is all arithmetic on `%` and `\div`
  (`BelowInColumn`, `NextInRow`): the loops wrap around in one way, `DifferentialIdxs()`
  in another.
- `Keys` (`KeysNamed`) adds that what is shown are places in the list that was
  tested, and that this list is complete.
- `Bound` (`BoundRight`) needs more than what the bag holds: `HeapOf` says that there
  is a bin for each place of the heap, none of them twice but bin 0, such that no bin
  left out has more hashes than any of them. With that, the least count in the heap
  and the `nOutliers`-th largest count of all are compared by counting bins
  (`HeapBound`); `HeapPop` and `HeapPush` are the lemmas about the bag.
- `Shown` (`ShownRight`) says of each bin what was recorded of the places looked at
  so far (`FirstOfMore`; all bins at the bound have entries, which is more than
  `ShownRight` asks), and of the empty bins how many are still to come: the loop
  over them has no other end, and `ZerosZero` shows that it never leaves the bins.

TLC checked each of these invariants on small lists of differences first.

It also proves the three invariants of `CollisionList`, for every length of hash,
list, choice of widths and limits on what is listed: `ListIsKept` (`ListKept`),
`ReportsAreRight` (`ReportsRight`) and `CollisionsAreNamed` (`CollisionsNamed`). None
is inductive: they speak of reports made long after what they report on was
counted, on a list that was sorted and reversed in between. The first two follow
from `AnalysisInv`, which says how each part leaves the list and the counts to the
next:
- `ListInv`: from either end the list is the one that was given (or that one with
  every hash reversed), taken in the order of a permutation, and in order. `Ranks`
  and `Sorting` show that sorting gives such a permutation: ranks are all different,
  so there is one place for each. `Gathered` keys (hashes that begin alike lie next
  to each other in a list in order) are what a pass over the list can count.
- `PassInv`: what a pass of `CountRangedNbCollisionsImpl()` has counted in the hashes
  behind it (`Passing`): for each width the collisions among them, the run of equal
  ones it is in, and the fullest bucket. `PassStarts`, `PassCompares` and
  `PassFinishes` are its steps; that the step at one hash settles all widths at
  once is because hashes that agree in some bits agree in fewer.
- `TallyInv`: the counts kept for the reports are `Tallied`, what a definition
  counts in the list as given. `ValuesCounted` makes the bridge: neither the order of
  a list nor its place indices change how many values there are (`CollSums`,
  `CollCounts`). `NextReports` then has each report by its width or sum.

`CollisionsAreNamed` adds `FoundInv`: until the first report, what was found is what
`FindCollisions()` gives for the sorted list, and `prevBits` are widths. The rest is
about the functions that list, which go through the list recursively, so their
results are proved by induction over its places (`AllNaturals`). Up to a place, the
values listed are the first there are, each with its count (`ValuesListed`), and the
indices of each value lie at its `Offset` among all that were listed, as many as
`Taken` says, in the order of the list (`NamesListed`). One lemma makes each kind of
step: `NamesNextKnown`, `NamesNextNew`, and `NamesNextFull` when a limit is reached.
The same loop serves the complete collisions and those of first bits, where hashes
that agreed in what was listed before count once (`DifferingCounted`);
`ListingOfCollected` and `ListingOfReport` put both in terms of the property.

TLC checked `AnalysisInv` on lists of up to four hashes first. It showed that
`ListKept` had said too much, of runs that have no width left to test.

`Modular` holds the lemmas on arithmetic, and three by which the
others get at recursive functions: `LeastNatural` (a set of naturals
that is not empty has a least one), `AllNaturals` (a set with 0 and with the
successors of its members has them all) and `Recursion` (a function made by steps
exists, and is the one defined). They speak of sets and functions, not of
operators, so that they can be instantiated where the library's induction theorems
can't; `Weight` and the starts of blocks in `Blobsort`, the powers and sums of
`Distribution` and the least seed of `BadSeeds` use them.

The proofs rest on the assumptions on constants declared in `Rand`, `Avalanche`,
`BitIndependence`, `BadSeeds`, `Distribution`, `Blobsort`, `DeltaOutliers` and
`CollisionList`, each of which TLC evaluates in the runs of these modules. Those of
`CollisionList` (`Inputs`) are that no list is empty, that limits leave room to list a
collision, and that widths are what the callers make them: positive, those reported
on as a sum shorter than a hash and not below the n * log(n) bound, and others below
the bound only where the fullest bucket is asked for.
Those of `DeltaOutliers` are that there
is a hash and a bin, that the limits are not 0, and that the indices sorted along are
those of the list: no caller hands on an empty list, and the limits are literals of
`ShowOutliers()` and of the call of it in `TestDistribution()`.

Only model-checked:
- `RandSeq` and `RandRange`: what they promise rests on powers of two, of which the
  proof system knows nothing, and `CycleWalk` is a recursive operator;
- `LineNamesHashes` and the other properties that are violated;
- liveness (all tests end, all sorts end), which is outside what the proof
  system does, as is `ENABLED`.

The closed form `DotsUpTo` is shown to be kept step by step rather than derived
as a sum.

## Not modelled

Floating-point statistics and the verdicts computed from them; formatting;
measurements of time; the hash functions, which are the subject and appear as
arbitrary functions; verification codes (CRCs over everything hashed, an
order-dependent sum kept on one thread); start-up registration; platform
detection; vendored tables and recorded results; the earlier generations of
the suite. The key set tests generate lists of keys in loops on one thread and
hand them on; what they get from the analysis is modelled, their lists are
not. The self tests and benchmarks of `util/Random.cpp` and `util/Blobsort.cpp`
are not; nor is `operator==` of `Rand`, which compares positions by `getoffset()` and
so shares its limit. Each part is listed with its reason in `PROJECT.json`. Data races do not
occur as undefined behaviour in what is modelled: shared counters are atomic,
and the rest is handed over by locks and joins.
