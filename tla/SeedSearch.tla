----------------------------- MODULE SeedSearch ------------------------------
(***************************************************************************)
(* What a search for bad seeds promises, however it divides the work:      *)
(* it passes a hash only when every seed of its ranges was tried and none  *)
(* was bad, and fails it only over a bad seed that it tried, or if its bad *)
(* seeds are known to be too many to try.                                  *)
(***************************************************************************)
VARIABLES
  Targets,    \* the seeds to try
  Faulty,     \* the seeds that are bad
  condemned,  \* whether the hash is known to have too many
  tried,      \* the seeds tried so far
  verdict     \* "none", "pass" or "fail"

inputs == <<Targets, Faulty, condemned>>

Init == tried = {} /\ verdict = "none"

Try == verdict = "none" /\ \E s \in Targets \ tried : tried' = tried \cup {s} /\ UNCHANGED verdict

Pass == tried = Targets /\ tried \cap Faulty = {} /\ ~condemned /\ verdict' = "pass"

Fail == (tried \cap Faulty # {} \/ condemned) /\ verdict' = "fail"

Judge == verdict = "none" /\ (Pass \/ Fail) /\ UNCHANGED tried

Next == (Try \/ Judge) /\ UNCHANGED inputs

Spec == Init /\ [][Next]_<<inputs, tried, verdict>>

=============================================================================
