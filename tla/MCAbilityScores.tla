-------------------------- MODULE MCAbilityScores --------------------------
(* Small instances of AbilityScores for TLC.                               *)
EXTENDS AbilityScores, TLC

CONSTANTS e1, e2   \* the contents of the instance

\* The better content brings more, and each can be flagged.
MCVerdicts ==
  e1 :> {[gain |-> 1, status |-> "PROVISIONAL"],
         [gain |-> 1, status |-> "REVIEW_REQUIRED"]}
  @@ e2 :> {[gain |-> 2, status |-> "VERIFIED"],
            [gain |-> 2, status |-> "REVIEW_REQUIRED"]}

\* Every result is flagged: the instance is about concurrent judges.
MCJudgedVerdicts ==
  [e \in Evidence |-> {[gain |-> 1, status |-> "REVIEW_REQUIRED"]}]

\* Floors in the model's units: gains of 1 and 2 reach FOUNDATION and the
\* judged ranks DEVELOPING, PROFICIENT and ADVANCED within a few results.
MCFloors == <<1, 2, 3, 4, 9>>

\* Records, abilities and requests are interchangeable.
MCSymmetry ==
  Permutations(Records) \cup Permutations(Dims) \cup Permutations(Clients)

=============================================================================
