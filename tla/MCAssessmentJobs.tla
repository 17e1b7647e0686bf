-------------------------- MODULE MCAssessmentJobs --------------------------
(* Instances of AssessmentJobs: two records that can hold the same content. *)
EXTENDS AssessmentJobs

CONSTANTS r1, r2, e1, e2, w1, w2

\* The records there is a job of, or a thread.
InPlay ==
  {k[1] : k \in {k \in Keys :
     jobs[k] # None \/ \E w \in Workers : worker[w] # None /\ worker[w].job = k}}

\* Once a thread has stopped, one record is in play: the bound of the instance
\* that has both is a state space without stops.
MCNext == Next /\ (faults' > 0 => Cardinality(InPlay') <= 1)

MCFairSpec == Init /\ [][MCNext]_vars /\ \A w \in Workers : WF_vars(Work(w))
=============================================================================
