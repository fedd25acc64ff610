------------------------------ MODULE BiasCount ------------------------------
(***************************************************************************)
(* What a bias test counts, whoever does the work and in whatever order:   *)
(* each job (flipping one bit of one test key) changes some of the         *)
(* counters' bits, and the report that is evaluated holds, for every       *)
(* counter, how many of the jobs changed it. No job is left out or counted *)
(* twice, and the report comes after the last of them.                     *)
(***************************************************************************)
EXTENDS Integers, FiniteSets

CONSTANTS
  Jobs,      \* the jobs
  Counters,  \* the counters
  Changes,   \* Changes[j]: the counters that job j adds one to
  NoReport   \* the report before there is one

VARIABLES
  counted,   \* the jobs whose changes were counted
  report     \* what the test evaluates

Init == counted = {} /\ report = NoReport

Count ==
  \E j \in Jobs \ counted : counted' = counted \cup {j} /\ UNCHANGED report

Report ==
  /\ counted = Jobs
  /\ report = NoReport
  /\ report' = [x \in Counters |-> Cardinality({j \in Jobs : x \in Changes[j]})]
  /\ UNCHANGED counted

Next == Count \/ Report

Spec == Init /\ [][Next]_<<counted, report>>

=============================================================================
