--------------------------- MODULE AssessmentJobs ---------------------------
(***************************************************************************)
(* Evidence assessment jobs of one user.  EvidenceAssessmentAgentService.  *)
(* assessRecord runs in a listener thread or in the thread of a request;   *)
(* it is not a transaction, but a sequence of short ones, each of which    *)
(* reads a job row and writes the whole row back: the row has no version   *)
(* column, so a transaction that read before another committed undoes the  *)
(* other's columns.                                                        *)
(*                                                                         *)
(* A job is identified by its record and evidence hash.  Contents stand    *)
(* for the normalized text both the evidence hash and the content          *)
(* fingerprint are computed from.                                          *)
(***************************************************************************)
EXTENDS Integers, FiniteSets

CONSTANTS
  Records,    \* achievement records
  Contents,   \* evidence contents
  Legacy,     \* jobs older than the fingerprint column, already assessed
  Workers,    \* threads that can run assessRecord
  MaxFaults,  \* bound: threads that stop half way
  None        \* "no row"

Keys == Records \X Contents

ASSUME LegacyAssumption == Legacy \subseteq Keys
ASSUME FaultsAssumption == MaxFaults \in Nat

VARIABLES
  jobs,    \* ability_assessment_jobs
  stored,  \* jobs with a row in ability_evidence_assessments
  scored,  \* jobs whose assessment was scored
  worker,  \* where each thread is, its job and the row its transaction read
  faults   \* threads stopped so far

vars == <<jobs, stored, scored, worker, faults>>

-----------------------------------------------------------------------------

Status == {"PENDING", "RUNNING", "COMPLETED", "FAILED", "REVIEW_REQUIRED"}
Fairness == {"CLEAR", "CONTRIBUTION_CAPPED", "DUPLICATE_REVIEW"}

Job == [status : Status, fairness : Fairness, fingerprint : BOOLEAN]

\* Between transactions a thread is about to find, run, extract, save, score,
\* report or fail its job; inside one it is named for the transaction.
Place == {"FIND", "RUN", "EXTRACT", "SAVE", "SCORE", "REPORT", "FAIL",
          "findOrCreateJob", "markRunning", "markFairnessStatus",
          "saveAssessment", "markFailed"}

Thread == [at : Place, job : Keys, row : Job \cup {None}, duplicate : BOOLEAN]

ASSUME NoneAssumption == None \notin Job /\ None \notin Thread

At(w, place) == worker[w] # None /\ worker[w].at = place

\* A transaction ends, and what it read is gone.
Go(w, place) ==
  worker' = [worker EXCEPT ![w].at = place, ![w].row = None, ![w].duplicate = FALSE]

Stop(w) == worker' = [worker EXCEPT ![w] = None]

\* The repository query for a job of another record with this fingerprint.
HasDuplicate(key) ==
  \E r \in Records \ {key[1]} :
    /\ jobs[<<r, key[2]>>] # None
    /\ jobs[<<r, key[2]>>].fingerprint

Init ==
  /\ jobs = [k \in Keys |->
       IF k \in Legacy
       THEN [status |-> "COMPLETED", fairness |-> "CLEAR", fingerprint |-> FALSE]
       ELSE None]
  /\ stored = Legacy
  /\ scored = Legacy
  /\ worker = [w \in Workers |-> None]
  /\ faults = 0

\* A message or a request for a record, which has some content at this time.
Start(w, key) ==
  /\ worker[w] = None
  /\ worker' = [worker EXCEPT ![w] =
       [at |-> "FIND", job |-> key, row |-> None, duplicate |-> FALSE]]
  /\ UNCHANGED <<jobs, stored, scored, faults>>

\* A transaction takes its snapshot.
Begin(w, place, transaction) ==
  /\ At(w, place)
  /\ worker' = [worker EXCEPT
       ![w].at = transaction,
       ![w].row = jobs[worker[w].job],
       ![w].duplicate = HasDuplicate(worker[w].job)]
  /\ UNCHANGED <<jobs, stored, scored, faults>>

\* The job of a new row, or of one whose fingerprint is filled in.
Fingerprinted(row, duplicate) ==
  IF duplicate
  THEN [status |-> "REVIEW_REQUIRED", fairness |-> "DUPLICATE_REVIEW",
        fingerprint |-> TRUE]
  ELSE [row EXCEPT !.fingerprint = TRUE]

NewJob == [status |-> "PENDING", fairness |-> "CLEAR", fingerprint |-> FALSE]

\* A failed job is opened again.
Reopened(row) ==
  IF row.status = "FAILED" THEN [row EXCEPT !.status = "PENDING"] ELSE row

Found(row, duplicate) ==
  Reopened(IF row.fingerprint THEN row ELSE Fingerprinted(row, duplicate))

\* Plausible bug: the assessment of a duplicate goes on.
IgnoresDuplicate(w, job) == FALSE

Blocked(w, job) == job.fairness = "DUPLICATE_REVIEW"

\* Whether assessRecord can use the assessment that is stored.
Reusable(key, job) == key \in stored /\ job.status \notin {"FAILED", "PENDING"}

AfterFind(w, key, job) ==
  IF Blocked(w, job) THEN "REPORT" ELSE IF Reusable(key, job) THEN "SCORE" ELSE "RUN"

\* findOrCreateJob commits and assessRecord goes on with the row it returned:
\* blocked as a duplicate, straight to the scoring, or to an extraction.
FindOrCreateJob(w) ==
  /\ At(w, "findOrCreateJob")
  /\ LET key == worker[w].job
         row == worker[w].row
         job == IF row = None THEN Fingerprinted(NewJob, worker[w].duplicate)
                              ELSE Found(row, worker[w].duplicate)
     IN  /\ row = None => jobs[key] = None
         /\ jobs' = IF job = row THEN jobs ELSE [jobs EXCEPT ![key] = job]
         /\ Go(w, AfterFind(w, key, job))
  /\ UNCHANGED <<stored, scored, faults>>

\* An exception before there is a job, as when two threads insert it and the
\* unique key refuses the second: the catch block has no job to mark.
ThrowBefore(w) ==
  /\ At(w, "FIND") \/ At(w, "findOrCreateJob")
  /\ Stop(w)
  /\ UNCHANGED <<jobs, stored, scored, faults>>

\* The short transactions on an existing job: the row that was read, changed
\* and written back whole.
WriteBack(w, transaction, job, next) ==
  /\ At(w, transaction)
  /\ jobs' = [jobs EXCEPT ![worker[w].job] = job]
  /\ Go(w, next)
  /\ UNCHANGED <<scored, faults>>

MarkRunning(w) ==
  /\ WriteBack(w, "markRunning", [worker[w].row EXCEPT !.status = "RUNNING"], "EXTRACT")
  /\ UNCHANGED stored

\* Plausible bug: the constant for another adjustment, which no code sets.
WrongMark(row) == [row EXCEPT !.fairness = "MULTI_DIMENSION_NORMALIZED"]

CapUnlessDuplicate(row) ==
  IF row.fairness = "DUPLICATE_REVIEW" THEN row
  ELSE [row EXCEPT !.fairness = "CONTRIBUTION_CAPPED"]

\* extractAndValidate: the model or the local rules answer, and the personal
\* contribution may be capped.
Extract(w) ==
  /\ At(w, "EXTRACT")
  /\ Go(w, "SAVE")
  /\ UNCHANGED <<jobs, stored, scored, faults>>

\* A row with no changed column is not written.
MarkFairnessStatus(w) ==
  /\ At(w, "markFairnessStatus")
  /\ LET row == worker[w].row
     IN  IF CapUnlessDuplicate(row) = row
         THEN Go(w, "SAVE") /\ UNCHANGED <<jobs, scored, faults>>
         ELSE WriteBack(w, "markFairnessStatus", CapUnlessDuplicate(row), "SAVE")
  /\ UNCHANGED stored

\* Plausible bug: the job is completed in a transaction before the assessment.
StoredLater(key) == stored

StoredNow(key) == stored \cup {key}

SaveAssessment(w) ==
  /\ WriteBack(w, "saveAssessment", [worker[w].row EXCEPT !.status = "COMPLETED"], "SCORE")
  /\ stored' = StoredNow(worker[w].job)

\* AbilityScoringService.score.
Score(w) ==
  /\ At(w, "SCORE")
  /\ scored' = scored \cup {worker[w].job}
  /\ Go(w, "REPORT")
  /\ UNCHANGED <<jobs, stored, faults>>

\* The log of the run is completed, of one that was blocked as of one that scored,
\* and the answer is built.
Report(w) ==
  /\ At(w, "REPORT")
  /\ Stop(w)
  /\ UNCHANGED <<jobs, stored, scored, faults>>

\* Plausible bug: an exception leaves the job as it is.
LeavesJob(w) == Stop(w)

TurnsToFail(w) == Go(w, "FAIL")

\* An exception of the model, of a transaction that conflicts, of the scoring or of
\* the log, once there is a job: the catch block marks it, be it a duplicate or done.
Throw(w) ==
  /\ worker[w] # None
  /\ worker[w].at \in {"RUN", "EXTRACT", "SAVE", "SCORE", "REPORT",
                       "markRunning", "markFairnessStatus", "saveAssessment"}
  /\ TurnsToFail(w)
  /\ UNCHANGED <<jobs, stored, scored, faults>>

MarkFailed(w) ==
  /\ At(w, "markFailed")
  /\ jobs' = [jobs EXCEPT ![worker[w].job] = [worker[w].row EXCEPT !.status = "FAILED"]]
  /\ Stop(w)
  /\ UNCHANGED <<stored, scored, faults>>

\* The process stops, or markFailed itself fails.
Crash(w) ==
  /\ worker[w] # None /\ faults < MaxFaults
  /\ faults' = faults + 1
  /\ Stop(w)
  /\ UNCHANGED <<jobs, stored, scored>>

Work(w) ==
  \/ Begin(w, "FIND", "findOrCreateJob")
  \/ FindOrCreateJob(w) \/ ThrowBefore(w)
  \/ Begin(w, "RUN", "markRunning") \/ MarkRunning(w)
  \/ Extract(w)
  \/ Begin(w, "EXTRACT", "markFairnessStatus") \/ MarkFairnessStatus(w)
  \/ Begin(w, "SAVE", "saveAssessment") \/ SaveAssessment(w)
  \/ Score(w) \/ Report(w)
  \/ Throw(w)
  \/ Begin(w, "FAIL", "markFailed") \/ MarkFailed(w)

Next ==
  \E w \in Workers : (\E key \in Keys : Start(w, key)) \/ Work(w) \/ Crash(w)

Spec == Init /\ [][Next]_vars

\* A thread that runs goes on: model calls time out, transactions end.
FairSpec == Spec /\ \A w \in Workers : WF_vars(Work(w))

-----------------------------------------------------------------------------

\* Every variable has its type.
TypeOK ==
  /\ jobs \in [Keys -> Job \cup {None}]
  /\ stored \subseteq Keys
  /\ scored \subseteq Keys
  /\ worker \in [Workers -> Thread \cup {None}]
  /\ faults \in 0..MaxFaults

\* A job that waits for an assessment or is in one.  A blocked one is neither: its
\* status becomes FAILED when the log of its run cannot be written, PENDING at the
\* next request, and stays so.
IsOpen(k) ==
  /\ jobs[k] # None /\ jobs[k].fairness # "DUPLICATE_REVIEW"
  /\ jobs[k].status \in {"PENDING", "RUNNING"}

CompletedHasAssessment ==
  /\ \A k \in Keys : jobs[k] # None /\ jobs[k].status = "COMPLETED" => k \in stored
  /\ scored \subseteq stored

OpenJobIsAttended ==
  \A k \in Keys :
    IsOpen(k) =>
      \/ faults > 0
      \/ \E w \in Workers : /\ worker[w] # None /\ worker[w].job = k
                           /\ worker[w].at \notin {"FIND", "findOrCreateJob", "SCORE", "REPORT"}

\* Whatever rows the threads write back over each other, and wherever they fail: a
\* completed job has its assessment, only stored assessments are scored, and an open
\* job that is no duplicate has a thread that will close it: no order of the writes
\* leaves one open with nobody to finish it.  Only a stopped thread does.
JobsAreServed == CompletedHasAssessment /\ OpenJobIsAttended

\* A job blocked as a duplicate stays blocked and is never scored.
DuplicateStaysBlocked ==
  [][\A k \in Keys :
       jobs[k] # None /\ jobs[k].fairness = "DUPLICATE_REVIEW" =>
         /\ jobs'[k].fairness = "DUPLICATE_REVIEW"
         /\ k \in scored' => k \in scored]_vars

\* An open job that is no duplicate is finished as long as no thread stops on the way.
OpenJobIsFinished ==
  \A k \in Keys : IsOpen(k) ~> ~IsOpen(k) \/ faults > 0

\* The fairness document: one content submitted with different records does
\* not add to the abilities twice.  (It does, when two
\* records are assessed at the same time.)
ContentCountsOnce ==
  \A e \in Contents : Cardinality({r \in Records : <<r, e>> \in scored}) <= 1
=============================================================================
