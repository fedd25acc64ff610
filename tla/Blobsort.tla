------------------------------- MODULE Blobsort -------------------------------
(***************************************************************************)
(* blobsort() (util/Blobsort.h) sorts a list of hashes and, along with it, *)
(* a list of indices: by insertion if the list is short, else by a radix   *)
(* sort or, if the hashes are long, by an American flag sort, which moves  *)
(* the hashes into blocks by their top digit and then sorts each block.    *)
(*                                                                         *)
(* The calls that are still to be made, the running one first, are in      *)
(* todo, each with its arguments and local variables. begin and end are    *)
(* places in the list, from 1 on; end is the place after the last.         *)
(***************************************************************************)
EXTENDS Integers, Sequences, FiniteSetsExt, SequencesExt

CONSTANTS
  RADIX_SIZE,        \* how many values a digit has
  LEN,               \* the digits of a hash
  SMALLSORT_CUTOFF,  \* the longest list that is sorted by insertion at once
  Lists,             \* the lists to sort
  Idxvecs(_),        \* the indices callers pass with a list of n hashes
  Types              \* of hashes: whether they are long, and the length by which
                     \* insertionsort() limits its moves (lists here are short:
                     \* with LEN itself none would reach the limit)

(* What the digits of a hash count, from the lowest on.                    *)
Weight[d \in Nat] == IF d = 0 THEN 1 ELSE RADIX_SIZE * Weight[d - 1]

ASSUME SizesAssumption ==
  /\ RADIX_SIZE \in Nat /\ RADIX_SIZE > 1 /\ LEN \in Nat \ {0} /\ SMALLSORT_CUTOFF \in Nat \ {0}
  /\ \A t \in Types : t.long \in BOOLEAN /\ t.len \in Nat

(* Indices as long as the list are an order of it, as a sort leaves them.  *)
ASSUME ListsAssumption ==
  \A l \in Lists :
    /\ l \in Seq(0 .. Weight[LEN] - 1)
    /\ \A x \in Idxvecs(Len(l)) :
         x \in Seq(Nat) /\ (Len(x) = Len(l) => ToSet(x) = DOMAIN l)

VARIABLES
  named,      \* the hash that each index stands for
  T,          \* the type of the hashes
  list, idxs, \* what is sorted
  queue,      \* the second area of the radix sort
  todo

vars == <<named, T, list, idxs, queue, todo>>

Digit(h, d) == (h \div Weight[d]) % RADIX_SIZE
Digits == 0 .. RADIX_SIZE - 1

Call(op, b, e) == [op |-> op, begin |-> b, end |-> e]

(* The rest of the calls, with these before it.                            *)
Return == todo' = Tail(todo)
Continue(call) == todo' = <<call>> \o Tail(todo)
Become(calls) == todo' = calls \o Tail(todo)

(***************************************************************************)
(* insertionsort(); a list of one needs none. A limited one gives up, and  *)
(* leaves the rest to the radix sort, after too many moves.                *)
(***************************************************************************)
Insertion(b, e, unlimited, unguarded) ==
  IF b + 1 >= e THEN <<>>
  ELSE <<[op |-> "insertionsort", begin |-> b, end |-> e, i |-> b + 1, movcount |-> 0,
          unlimited |-> unlimited, unguarded |-> unguarded]>>

Smallsort(b, e, guarded) ==
  [op |-> "smallsort", begin |-> b, end |-> e, guarded |-> guarded]

Flagsort(b, e, digit) ==
  [op |-> "flagsort", begin |-> b, end |-> e, digit |-> digit]

Radixsort(b, e) == [op |-> "radixsort", begin |-> b, end |-> e, pass |-> 0, fromList |-> TRUE]

-----------------------------------------------------------------------------
(***************************************************************************)
(* A vector of indices that has the size of the list says what the hashes  *)
(* are; another is to be filled with their places.                         *)
(***************************************************************************)
Init ==
  /\ list \in Lists
  /\ idxs \in Idxvecs(Len(list))
  /\ named = IF Len(idxs) = Len(list)
             THEN [i \in DOMAIN list |-> list[CHOOSE k \in DOMAIN idxs : idxs[k] = i]]
             ELSE list
  /\ T \in Types
  /\ queue = <<>>
  /\ todo = <<Call("blobsort", 1, Len(list) + 1)>>

Places == [k \in DOMAIN list |-> k]

(* Mutant: the indices are filled in whenever there are any.               *)
Filled_always == Places

Filled == IF Len(idxs) = Len(list) THEN idxs ELSE Places

blobsort ==
  LET count == Len(list) IN
  /\ todo # <<>> /\ Head(todo).op = "blobsort"
  /\ idxs' = Filled
  /\ Become(IF count <= 1 THEN <<>>
            ELSE IF count <= SMALLSORT_CUTOFF THEN <<Smallsort(1, count + 1, TRUE)>>
            ELSE IF T.long THEN <<Flagsort(1, count + 1, LEN - 1)>>
            ELSE <<Radixsort(1, count + 1)>>)
  /\ UNCHANGED <<named, T, list, queue>>

Swapped(s, k, l) == [s EXCEPT ![k] = s[l], ![l] = s[k]]

(* The first of the smallest hashes.                                       *)
MinPlace(b, e) ==
  Min({k \in b .. e - 1 : \A l \in b .. e - 1 : list[k] <= list[l]})

(* The smallest hash is moved to the front, if none is known to be before. *)
smallsort ==
  LET c == Head(todo)
      moved(s) == IF c.guarded THEN Swapped(s, c.begin, MinPlace(c.begin, c.end)) ELSE s
  IN  /\ todo # <<>> /\ c.op = "smallsort"
      /\ list' = moved(list) /\ idxs' = moved(idxs)
      /\ Become(Insertion(IF c.guarded THEN c.begin + 1 ELSE c.begin, c.end, TRUE, TRUE))
      /\ UNCHANGED <<named, T, queue>>

(* s with the element at place i moved down to place k.                    *)
MovedDown(s, i, k) ==
  [n \in DOMAIN s |-> IF n = k THEN s[i] ELSE IF n \in k + 1 .. i THEN s[n - 1] ELSE s[n]]

(* Where the scan from place i down stops. Only a guarded one looks for    *)
(* the beginning; 0 is before the list.                                    *)
ScanEnd(c) ==
  Max({k \in 0 .. c.i - 1 : \/ k = (IF c.unguarded THEN 0 ELSE c.begin - 1)
                            \/ k > 0 /\ list[k] <= list[c.i]})

(* Mutant: giving up, it forgets that the rest is to be sorted.            *)
GaveUp_done(c) == <<>>

(* The caller of a limited sort then uses another.                         *)
GaveUp(c) == <<Radixsort(c.begin, c.end)>>

(* One turn of the loop of insertionsort().                                *)
insertionsort ==
  LET c == Head(todo)
      place == ScanEnd(c) + 1
      moves == c.movcount + c.i - place
      toomany == ~c.unlimited /\ moves > (T.len * (c.end - c.begin)) \div 2
  IN  /\ todo # <<>> /\ c.op = "insertionsort"
      /\ list' = MovedDown(list, c.i, place) /\ idxs' = MovedDown(idxs, c.i, place)
      /\ IF toomany /\ c.i < c.begin + ((c.end - c.begin) * 7) \div 10
         THEN Become(GaveUp(c))
         ELSE IF c.i + 1 = c.end THEN Return
         ELSE Continue([c EXCEPT !.i = @ + 1, !.movcount = IF toomany THEN 0 ELSE moves])
      /\ UNCHANGED <<named, T, queue>>

-----------------------------------------------------------------------------
Overwritten(s, b, part) ==
  [k \in DOMAIN s |-> IF k \in b .. b + Len(part) - 1 THEN part[k - b + 1] ELSE s[k]]

(***************************************************************************)
(* A pass moves the hashes, each with its index, to one queue per digit;   *)
(* the queues lie behind each other in the other area. So a hash comes     *)
(* behind those with smaller digits, and those with the same before it.    *)
(***************************************************************************)
QueuePlace(s, d, k) ==
  Cardinality({l \in DOMAIN s : \/ Digit(s[l][1], d) < Digit(s[k][1], d)
                                \/ Digit(s[l][1], d) = Digit(s[k][1], d) /\ l <= k})

Passed(s, d) == [n \in DOMAIN s |-> s[CHOOSE k \in DOMAIN s : QueuePlace(s, d, k) = n]]

Paired(b, e) == [k \in 1 .. e - b |-> <<list[b + k - 1], idxs[b + k - 1]>>]
Hashes(pairs) == [k \in DOMAIN pairs |-> pairs[k][1]]
Indices(pairs) == [k \in DOMAIN pairs |-> pairs[k][2]]

Trivial(s, d) == \A k \in DOMAIN s : Digit(s[k][1], d) = Digit(s[1][1], d)

(* A pass of radixsort() from one area to the other, unless it would not   *)
(* change anything; after the last, what is in the second area is copied.  *)
radixsort ==
  LET c == Head(todo)
      from == IF c.fromList THEN Paired(c.begin, c.end) ELSE queue
      to == Passed(from, c.pass)
  IN  /\ todo # <<>> /\ c.op = "radixsort"
      /\ IF c.pass = LEN
         THEN /\ Return
              /\ list' = Overwritten(list, c.begin, Hashes(from))
              /\ idxs' = Overwritten(idxs, c.begin, Indices(from))
              /\ queue' = <<>>
         ELSE IF Trivial(from, c.pass)
         THEN Continue([c EXCEPT !.pass = @ + 1]) /\ UNCHANGED <<list, idxs, queue>>
         ELSE /\ Continue([c EXCEPT !.pass = @ + 1, !.fromList = ~@])
              /\ IF c.fromList THEN queue' = to /\ UNCHANGED <<list, idxs>>
                 ELSE /\ list' = Overwritten(list, c.begin, Hashes(to))
                      /\ idxs' = Overwritten(idxs, c.begin, Indices(to))
                      /\ UNCHANGED queue
      /\ UNCHANGED <<named, T>>

-----------------------------------------------------------------------------
Freqs(b, e, d) == [v \in Digits |-> Cardinality({k \in b .. e - 1 : Digit(list[k], d) = v})]

(* Where the block of a digit begins.                                      *)
BlockStart(b, freqs, v) ==
  LET ptr[u \in 0 .. RADIX_SIZE] == IF u = 0 THEN b ELSE ptr[u - 1] + freqs[u - 1]
  IN  ptr[v]

(* Mutant: no block has a hash before it that is larger.                   *)
Unguarded_always(b) == TRUE

(* Behind the beginning of the list there is a hash that stops a scan.     *)
Unguarded(b) == b # 1

(* The digits are counted. If all are the same nothing need be moved.      *)
flagsort ==
  LET c == Head(todo)
      freqs == Freqs(c.begin, c.end, c.digit)
      trivial == \E v \in Digits : freqs[v] = c.end - c.begin
  IN  /\ todo # <<>> /\ c.op = "flagsort"
      /\ IF trivial
         THEN Become(IF c.digit = 0 THEN <<>>
                     ELSE Insertion(c.begin, c.end, FALSE, Unguarded(c.begin)))
         ELSE Continue([op |-> "permute", begin |-> c.begin, end |-> c.end, digit |-> c.digit,
                        freqs |-> freqs, ptr |-> c.begin, curblock |-> 0,
                        block_ptrs |-> [v \in Digits |-> BlockStart(c.begin, freqs, v)]])
      /\ UNCHANGED <<named, T, list, idxs, queue>>

(* Mutant: where the next block is filled next, instead of its beginning.  *)
BlockEnd_moved(c) == c.block_ptrs[c.curblock + 1]

BlockEnd(c) == BlockStart(c.begin, c.freqs, c.curblock + 1)

(* Mutant: the pointer of a block stays where it is.                       *)
Advanced_not(c, v) == c

(* After a hash has been moved into block v.                               *)
Advanced(c, v) == [c EXCEPT !.block_ptrs[v] = @ + 1]

(***************************************************************************)
(* One turn of the loop that moves each hash of the present block that has *)
(* another digit to the next place of its block. The last block need not   *)
(* be looked at. Then the blocks are sorted, if there are more digits.     *)
(***************************************************************************)
permute ==
  LET c == Head(todo)
      value == Digit(list[c.ptr], c.digit)
  IN  /\ todo # <<>> /\ c.op = "permute"
      /\ IF c.ptr >= BlockEnd(c)
         THEN /\ IF c.curblock + 1 < RADIX_SIZE - 1 THEN Continue([c EXCEPT !.curblock = @ + 1])
                 ELSE Become(IF c.digit = 0 THEN <<>>
                             ELSE <<[op |-> "sortblocks", begin |-> c.begin, end |-> c.end,
                                     digit |-> c.digit, freqs |-> c.freqs, block |-> 0]>>)
              /\ UNCHANGED <<list, idxs>>
         ELSE IF value = c.curblock
         THEN Continue([c EXCEPT !.ptr = @ + 1]) /\ UNCHANGED <<list, idxs>>
         ELSE /\ list' = Swapped(list, c.ptr, c.block_ptrs[value])
              /\ idxs' = Swapped(idxs, c.ptr, c.block_ptrs[value])
              /\ Continue(Advanced(c, value))
      /\ UNCHANGED <<named, T, queue>>

(* A block is sorted by the next digit or as a short list, if at all.      *)
BlockCall(b, n, digit) ==
  IF n > SMALLSORT_CUTOFF THEN <<Flagsort(b, b + n, digit - 1)>>
  ELSE IF n > 1 THEN <<Smallsort(b, b + n, ~Unguarded(b))>>
  ELSE <<>>

(* One turn of the loop that sorts the blocks.                             *)
sortblocks ==
  LET c == Head(todo)
      n == c.freqs[c.block]
  IN  /\ todo # <<>> /\ c.op = "sortblocks"
      /\ Become(BlockCall(c.begin, n, c.digit)
                  \o IF c.block + 1 = RADIX_SIZE THEN <<>>
                     ELSE <<[c EXCEPT !.block = @ + 1, !.begin = @ + n]>>)
      /\ UNCHANGED <<named, T, list, idxs, queue>>

Next ==
  blobsort \/ smallsort \/ insertionsort \/ radixsort \/ flagsort \/ permute \/ sortblocks

(* The sort runs on one thread, which is scheduled.                        *)
Spec == Init /\ [][Next]_vars /\ WF_vars(Next)

-----------------------------------------------------------------------------
Calls(op) == todo # <<>> /\ Head(todo).op = op

(***************************************************************************)
(* Between any two moves, each index is next to the hash it stands for,    *)
(* and none is lost: in the list or, during the radix sort, in the area    *)
(* the next pass reads from.                                               *)
(***************************************************************************)
IndicesFollow ==
  ~Calls("blobsort") =>
    LET c == Head(todo)
        inQueue == Calls("radixsort") /\ ~c.fromList
        l == IF inQueue THEN Overwritten(list, c.begin, Hashes(queue)) ELSE list
        x == IF inQueue THEN Overwritten(idxs, c.begin, Indices(queue)) ELSE idxs
    IN  ToSet(x) = DOMAIN named /\ \A k \in DOMAIN l : l[k] = named[x[k]]

(***************************************************************************)
(* "When this is called with unguarded==true, begin-1 must be guaranteed   *)
(* to exist and to be less than all elements in [begin, end)", or equal.   *)
(***************************************************************************)
SentinelBefore ==
  Calls("insertionsort") /\ Head(todo).unguarded =>
    LET c == Head(todo) IN
    c.begin > 1 /\ \A k \in c.begin .. c.end - 1 : list[c.begin - 1] <= list[k]

(***************************************************************************)
(* While the hashes are moved into blocks, no block's pointer has passed   *)
(* its end, where the next block begins or the list ends; what a pointer   *)
(* has passed is in its block, and so is each block that is behind.        *)
(***************************************************************************)
BlocksFill ==
  Calls("permute") =>
    LET c == Head(todo)
        start(v) == BlockStart(c.begin, c.freqs, v)
        passed(v) == IF v < c.curblock THEN start(v + 1)
                     ELSE IF v = c.curblock THEN c.ptr ELSE c.block_ptrs[v]
    IN  \A v \in Digits :
          /\ passed(v) \in start(v) .. start(v + 1)
          /\ \A k \in start(v) .. passed(v) - 1 : Digit(list[k], c.digit) = v

(***************************************************************************)
(* Before a block is sorted the list is in order as far as the blocks go:  *)
(* nothing before it is larger, and nothing after it smaller, than any of  *)
(* its hashes. With nothing left to do, the list is sorted.                *)
(***************************************************************************)
BlocksOrdered ==
  /\ \A n \in DOMAIN todo :
       \A k \in todo[n].begin .. todo[n].end - 1 :
         /\ \A l \in 1 .. todo[n].begin - 1 : list[l] <= list[k]
         /\ \A l \in todo[n].end .. Len(list) : list[k] <= list[l]
  /\ todo = <<>> => \A k \in 1 .. Len(list) - 1 : list[k] <= list[k + 1]

(* Whatever the list, the sort ends.                                       *)
Terminates == <>(todo = <<>>)

=============================================================================
