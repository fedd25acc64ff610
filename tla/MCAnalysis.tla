------------------------------ MODULE MCAnalysis ------------------------------
(***************************************************************************)
(* The analysis of one list of hashes: its collisions are reported         *)
(* (CollisionList), or differences are made of it and their outliers shown *)
(* (MCDeltaOutliers). The two share no state, so one of them is run, and   *)
(* the other stays as it started.                                          *)
(***************************************************************************)
EXTENDS MCDeltaOutliers, CollisionList

(* Every choice of up to six of seven hashes, repeated or not, in order   *)
(* and from the second on.                                                 *)
MCHashes == <<<<0,0,0,0>>, <<0,0,0,1>>, <<0,0,1,1>>, <<0,1,1,0>>, <<1,0,0,1>>, <<1,1,1,0>>, <<1,1,1,1>>>>
MCSorted == {s \in UNION {[1 .. n -> 1 .. 7] : n \in 1 .. 6} :
               \A k \in 1 .. Len(s) - 1 : s[k] <= s[k + 1]}
MCLists == {[k \in DOMAIN s |-> MCHashes[s[1 + ((k - 1 + r) % Len(s))]]] : s \in MCSorted, r \in {0, 1}}

MCSetting(vec, minT, maxT, nlogn, high, low, diagrams) ==
  [vec |-> vec, minTBits |-> minT, maxTBits |-> maxT, nlognBits |-> nlogn,
   high |-> high, low |-> low, diagrams |-> diagrams, maxcoll |-> nlogn > 1]

MCSettings == {
  MCSetting({1, 3, 4}, 2, 3, 2, TRUE, TRUE, TRUE),
  MCSetting({1, 2}, 3, 3, 3, TRUE, TRUE, FALSE),
  MCSetting({2}, 3, 3, 3, TRUE, FALSE, TRUE),
  MCSetting({2, 3}, 1, 2, 1, FALSE, TRUE, TRUE),
  MCSetting({3}, 2, 2, 0, FALSE, FALSE, TRUE),
  MCSetting({}, 2, 1, 0, TRUE, TRUE, TRUE)}

(* The part that is not run: what its arguments are, and that it has taken *)
(* no step.                                                                *)
MCNoDeltas == nbH = 4 /\ testDeltaNum = 1 /\ pc = "x" /\ hnb = 0
MCNoList == part = "find" /\ given = <<MCHashes[1]>> /\ set = MCSetting({}, 2, 1, 0, TRUE, TRUE, TRUE)

MCInit ==
  \/ Init /\ CollisionsInit /\ MCNoDeltas
  \/ Init /\ CollisionsInit /\ MCNoList

MCNext ==
  \/ MCNoDeltas /\ CollisionsNext /\ UNCHANGED vars
  \/ MCNoList /\ Next /\ UNCHANGED collisionsVars

MCSpec == MCInit /\ [][MCNext]_<<vars, collisionsVars>>

=============================================================================
