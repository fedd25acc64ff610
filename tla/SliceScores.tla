----------------------------- MODULE SliceScores ------------------------------
(***************************************************************************)
(* What the distribution test computes, whoever does the work and in       *)
(* whatever order: a score for every slice of the hashes and every width,  *)
(* each once, from how many hashes fell into each bin; and a report on all *)
(* of them that knows how many there are.                                  *)
(***************************************************************************)
EXTENDS Integers, FiniteSets

CONSTANTS
  Slots,     \* the places of the scores
  ScoreOf,   \* ScoreOf[x]: the score that belongs into place x
  Unscored,  \* a place that holds no score yet
  NoReport   \* the report before there is one

VARIABLES
  scores,    \* the scores so far
  report     \* what is reported on: the scores and their number

Init == scores = [x \in Slots |-> Unscored] /\ report = NoReport

SetScore ==
  \E x \in Slots :
    /\ scores[x] = Unscored
    /\ scores' = [scores EXCEPT ![x] = ScoreOf[x]]
    /\ UNCHANGED report

Report ==
  /\ \A x \in Slots : scores[x] # Unscored
  /\ report = NoReport
  /\ report' = [scores |-> scores, tests |-> Cardinality(Slots)]
  /\ UNCHANGED scores

Next == SetScore \/ Report

Spec == Init /\ [][Next]_<<scores, report>>

=============================================================================
