------------------------------ MODULE MCBadSeeds ------------------------------
EXTENDS BadSeeds

(* A hash of 64-bit seeds, to be searched.                                 *)
MCSetup(ncpu, max, listed, bad, broken) ==
  [short |-> FALSE, mock |-> FALSE, is32BitSeed |-> FALSE, described |-> FALSE,
   find_new_seeds |-> TRUE, g_NCPU |-> ncpu, MaxFails |-> max,
   badseeds |-> listed, Bad |-> bad, Broken |-> broken]

(* One given up by a thread, and the whole by one of two, in either range. *)
MCGivenUp == {
  [MCSetup(1, 2, {5, 57}, {1, 5, 7, 57}, {60}) EXCEPT !.is32BitSeed = TRUE],
  MCSetup(1, 2, {}, {2, 4, 6}, {61}),
  MCSetup(2, 3, {61}, {0, 2, 56, 57, 58, 61}, {0, 57, 61})}

(* New seeds and known ones, of one kind or both, at the ends of shares.   *)
MCSearched == {
  MCSetup(3, 4, {5, 9}, {5, 9}, {2, 5}),
  MCSetup(3, 4, {}, {63}, {}),
  MCSetup(3, 4, {}, {}, {}),
  MCSetup(2, 4, {3, 56}, {3, 56}, {}),
  [MCSetup(3, 4, {0, 60}, {}, {0, 60}) EXCEPT !.is32BitSeed = TRUE],
  [MCSetup(3, 4, {1}, {}, {}) EXCEPT !.described = TRUE]}

(* None to be found, of hashes with a good one on the list, with none, and *)
(* with a description.                                                     *)
MCListed == {
  [MCSetup(2, 4, k, {9}, {9}) EXCEPT
     !.find_new_seeds = f, !.mock = m, !.described = d, !.short = s] :
  k \in {{}, {4}, {4, 9}}, f \in BOOLEAN, m \in BOOLEAN, d \in BOOLEAN, s \in BOOLEAN}

MCSetups == MCGivenUp \cup MCSearched \cup MCListed

=============================================================================
