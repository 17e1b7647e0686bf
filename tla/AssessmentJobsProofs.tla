------------------------ MODULE AssessmentJobsProofs ------------------------
(***************************************************************************)
(* Evidence assessment jobs for any records, contents and threads, and any *)
(* number of stops.  The threads write whole rows they read earlier, so    *)
(* every argument is about the stale rows in their hands: SoundInv says    *)
(* what a stale row may still claim of its job, ClearInv what it says of   *)
(* duplicates, and which thread is left to close an open job.              *)
(***************************************************************************)
EXTENDS AssessmentJobs, TLAPS

\* A thread that has not found its job yet.
Fresh(w) == worker[w].at \in {"FIND", "findOrCreateJob"}

Writing == {"markRunning", "markFairnessStatus", "saveAssessment", "markFailed"}

\* A row that was read is a row of a job, and if it says COMPLETED the
\* assessment is stored whenever the row is written back.
RowIsSound(w) ==
  worker[w].row # None =>
    /\ jobs[worker[w].job] # None
    /\ worker[w].row.status = "COMPLETED" => worker[w].job \in stored

ThreadIsSound(w) ==
  worker[w] # None =>
    /\ ~Fresh(w) => jobs[worker[w].job] # None
    /\ worker[w].at \in Writing => worker[w].row # None
    /\ worker[w].at = "SCORE" => worker[w].job \in stored
    /\ RowIsSound(w)

\* The inductive invariant of what is stored, whatever jobs are older than the
\* fingerprint column.
SoundInv ==
  /\ TypeOK
  /\ CompletedHasAssessment
  /\ \A w \in Workers : ThreadIsSound(w)

-----------------------------------------------------------------------------

\* Rows are never deleted and assessments never lost.
Grows ==
  /\ \A k \in Keys : jobs[k] # None => jobs'[k] # None
  /\ stored \subseteq stored'

\* A thread that did not move is as sound as before.
LEMMA OthersStaySound ==
  ASSUME NEW v \in Workers, TypeOK, ThreadIsSound(v), Grows, worker'[v] = worker[v]
  PROVE  ThreadIsSound(v)'
<1> SUFFICES ASSUME worker[v] # None PROVE ThreadIsSound(v)'
  BY DEF ThreadIsSound
<1>1. worker[v].job \in Keys
  BY DEF TypeOK, Thread
<1> QED
  BY <1>1 DEF ThreadIsSound, RowIsSound, Fresh, Grows

\* The threads after a step of w.
LEMMA ThreadsStaySound ==
  ASSUME NEW w \in Workers, SoundInv, Grows, ThreadIsSound(w)',
         \A v \in Workers \ {w} : worker'[v] = worker[v]
  PROVE  \A v \in Workers : ThreadIsSound(v)'
BY OthersStaySound DEF SoundInv

\* A thread that is somewhere has a place, a job and perhaps a row.
LEMMA ThreadAt ==
  ASSUME NEW w \in Workers, NEW place, TypeOK, At(w, place)
  PROVE  /\ worker[w] \in Thread /\ worker[w].at = place
         /\ worker[w].job \in Keys
         /\ worker[w].row \in Job \cup {None}
         /\ worker[w].duplicate \in BOOLEAN
BY DEF TypeOK, At, Thread

\* Go and Stop move their thread and no other.
LEMMA GoMoves ==
  ASSUME NEW w \in Workers, NEW place \in Place, TypeOK, worker[w] # None, Go(w, place)
  PROVE  /\ worker' \in [Workers -> Thread \cup {None}]
         /\ worker'[w] # None
         /\ worker'[w].at = place /\ worker'[w].job = worker[w].job
         /\ worker'[w].row = None
         /\ \A v \in Workers \ {w} : worker'[v] = worker[v]
<1>1. worker[w] \in Thread
  BY DEF TypeOK
<1>2. worker'[w] = [worker[w] EXCEPT !.at = place, !.row = None, !.duplicate = FALSE]
  BY DEF TypeOK, Go
<1>3. /\ worker'[w] \in Thread
      /\ worker'[w].at = place /\ worker'[w].job = worker[w].job
      /\ worker'[w].row = None
  BY <1>1, <1>2 DEF Thread
<1>4. \A v \in Workers \ {w} : worker'[v] = worker[v]
  BY DEF TypeOK, Go
<1>5. worker' \in [Workers -> Thread \cup {None}]
  BY <1>3 DEF TypeOK, Go
<1> QED
  BY <1>3, <1>4, <1>5, NoneAssumption

LEMMA StopMoves ==
  ASSUME NEW w \in Workers, TypeOK, Stop(w)
  PROVE  /\ worker' \in [Workers -> Thread \cup {None}]
         /\ worker'[w] = None
         /\ \A v \in Workers \ {w} : worker'[v] = worker[v]
BY DEF TypeOK, Stop

\* The rows of jobs that findOrCreateJob makes or changes.
LEMMA FoundRows ==
  ASSUME NEW row \in Job, NEW duplicate \in BOOLEAN
  PROVE  /\ Found(row, duplicate) \in Job
         /\ Found(row, duplicate).status = "COMPLETED" => row.status = "COMPLETED"
<1>1. /\ Fingerprinted(row, duplicate) \in Job
      /\ Fingerprinted(row, duplicate).status \in {row.status, "REVIEW_REQUIRED"}
  BY DEF Fingerprinted, Job, Status, Fairness
<1>2. ASSUME NEW r \in Job
      PROVE  Reopened(r) \in Job /\ Reopened(r).status \in {r.status, "PENDING"}
  BY DEF Reopened, Job, Status
<1> QED
  BY <1>1, <1>2 DEF Found

LEMMA NewRows ==
  ASSUME NEW duplicate \in BOOLEAN
  PROVE  /\ Fingerprinted(NewJob, duplicate) \in Job
         /\ Fingerprinted(NewJob, duplicate).status \in {"PENDING", "REVIEW_REQUIRED"}
BY DEF Fingerprinted, NewJob, Job, Status, Fairness

\* A job is written: the table keeps its type and its rows.
LEMMA WrittenJob ==
  ASSUME TypeOK, NEW key \in Keys, NEW job \in Job, jobs' = [jobs EXCEPT ![key] = job]
  PROVE  /\ jobs' \in [Keys -> Job \cup {None}]
         /\ jobs'[key] = job /\ jobs'[key] # None
         /\ \A k \in Keys \ {key} : jobs'[k] = jobs[k]
         /\ \A k \in Keys : jobs[k] # None => jobs'[k] # None
BY NoneAssumption DEF TypeOK

-----------------------------------------------------------------------------

\* The three parts of SoundInv, each with what a step must show for it.
LEMMA SoundStep ==
  ASSUME SoundInv, NEW w \in Workers,
         (\E key \in Keys : Start(w, key)) \/ Work(w) \/ Crash(w)
  PROVE  SoundInv'
<1> USE FaultsAssumption
<1> DEFINE Goal == /\ TypeOK' /\ CompletedHasAssessment'
                   /\ Grows /\ ThreadIsSound(w)'
                   /\ \A v \in Workers \ {w} : worker'[v] = worker[v]
<1> SUFFICES Goal
  BY ThreadsStaySound DEF SoundInv
<1>0. TypeOK /\ CompletedHasAssessment /\ ThreadIsSound(w)
  BY DEF SoundInv
<1>1. ASSUME NEW key \in Keys, Start(w, key)
      PROVE  Goal
  <2>1. worker' = [worker EXCEPT ![w] =
          [at |-> "FIND", job |-> key, row |-> None, duplicate |-> FALSE]]
    BY <1>1 DEF Start
  <2>2. worker' \in [Workers -> Thread \cup {None}]
    BY <1>0, <2>1 DEF TypeOK, Thread, Place
  <2>3. /\ worker'[w] = [at |-> "FIND", job |-> key, row |-> None, duplicate |-> FALSE]
        /\ \A v \in Workers \ {w} : worker'[v] = worker[v]
    BY <1>0, <2>1 DEF TypeOK
  <2> QED
    BY <1>0, <1>1, <2>2, <2>3
       DEF Start, TypeOK, CompletedHasAssessment, Grows, ThreadIsSound, RowIsSound,
           Fresh, Writing
<1>2. ASSUME NEW place \in Place, NEW transaction \in Writing \cup {"findOrCreateJob"},
             Begin(w, place, transaction),
             place = "FIND" <=> transaction = "findOrCreateJob",
             place # "findOrCreateJob"
      PROVE  Goal
  <2>1. /\ worker[w] \in Thread /\ worker[w].at = place
        /\ worker[w].job \in Keys
    BY <1>0, <1>2, ThreadAt DEF Begin
  <2>2. jobs[worker[w].job] \in Job \cup {None}
    BY <1>0, <2>1 DEF TypeOK
  <2>3. HasDuplicate(worker[w].job) \in BOOLEAN
    BY DEF HasDuplicate
  <2>4. /\ worker'[w] = [worker[w] EXCEPT !.at = transaction, !.row = jobs[worker[w].job],
                           !.duplicate = HasDuplicate(worker[w].job)]
        /\ \A v \in Workers \ {w} : worker'[v] = worker[v]
        /\ UNCHANGED <<jobs, stored, scored, faults>>
    BY <1>0, <1>2 DEF Begin, TypeOK
  <2>5. /\ worker'[w] \in Thread
        /\ worker'[w].at = transaction /\ worker'[w].job = worker[w].job
        /\ worker'[w].row = jobs[worker[w].job]
    BY <2>1, <2>2, <2>3, <2>4 DEF Thread, Place, Writing
  <2>6. worker' \in [Workers -> Thread \cup {None}]
    BY <1>0, <1>2, <2>4, <2>5 DEF Begin, TypeOK
  <2>7. ThreadIsSound(w)'
    BY <1>0, <1>2, <2>1, <2>4, <2>5, NoneAssumption
       DEF ThreadIsSound, RowIsSound, Fresh, Writing, CompletedHasAssessment
  <2> QED
    BY <1>0, <2>4, <2>6, <2>7 DEF TypeOK, CompletedHasAssessment, Grows
<1>3. CASE FindOrCreateJob(w)
  <2> DEFINE key == worker[w].job
             row == worker[w].row
             job == IF row = None THEN Fingerprinted(NewJob, worker[w].duplicate)
                                  ELSE Found(row, worker[w].duplicate)
  <2>1. /\ worker[w] # None /\ key \in Keys /\ row \in Job \cup {None}
        /\ worker[w].duplicate \in BOOLEAN
    BY <1>0, <1>3, ThreadAt DEF FindOrCreateJob, At
  <2>2. job \in Job /\ (job.status = "COMPLETED" => key \in stored)
    BY <1>0, <2>1, FoundRows, NewRows DEF ThreadIsSound, RowIsSound
  <2>3. /\ jobs' = IF job = row THEN jobs ELSE [jobs EXCEPT ![key] = job]
        /\ Go(w, AfterFind(w, key, job))
        /\ UNCHANGED <<stored, scored, faults>>
    BY <1>3 DEF FindOrCreateJob
  <2>4. /\ jobs' \in [Keys -> Job \cup {None}]
        /\ jobs'[key] # None
        /\ \A k \in Keys : jobs[k] # None => jobs'[k] # None
        /\ \A k \in Keys \ {key} : jobs'[k] = jobs[k]
        /\ jobs'[key].status = "COMPLETED" => key \in stored
    <3>1. CASE job = row
      BY <1>0, <2>1, <2>2, <2>3, <3>1, NoneAssumption
         DEF ThreadIsSound, RowIsSound, TypeOK, CompletedHasAssessment
    <3>2. CASE job # row
      <4>1. jobs' = [jobs EXCEPT ![key] = job]
        BY <2>3, <3>2
      <4> HIDE DEF job, key
      <4> QED
        BY <1>0, <2>1, <2>2, <4>1, WrittenJob DEF key
    <3> QED
      BY <3>1, <3>2
  <2>5. CompletedHasAssessment'
    BY <1>0, <2>3, <2>4 DEF CompletedHasAssessment
  <2>6. Grows
    BY <2>3, <2>4 DEF Grows
  <2>7. PICK place : place = AfterFind(w, key, job)
    OBVIOUS
  <2>8. place \in {"REPORT", "SCORE", "RUN"} /\ (place = "SCORE" => key \in stored)
    BY <2>7 DEF AfterFind, Reusable
  <2>9. /\ worker' \in [Workers -> Thread \cup {None}]
        /\ worker'[w].at = place /\ worker'[w].job = key /\ worker'[w].row = None
        /\ \A v \in Workers \ {w} : worker'[v] = worker[v]
    BY <1>0, <2>1, <2>3, <2>7, <2>8, GoMoves DEF Place
  <2>10. ThreadIsSound(w)'
    BY <2>3, <2>4, <2>8, <2>9 DEF ThreadIsSound, RowIsSound, Fresh, Writing
  <2> QED
    BY <1>0, <2>3, <2>4, <2>5, <2>6, <2>9, <2>10 DEF TypeOK
<1>4. CASE ThrowBefore(w)
  BY <1>0, <1>4, StopMoves
     DEF ThrowBefore, TypeOK, CompletedHasAssessment, Grows, ThreadIsSound
<1>5. ASSUME NEW transaction \in Writing, NEW next \in {"EXTRACT", "SAVE", "SCORE"},
             NEW job \in Job, WriteBack(w, transaction, job, next),
             stored' \in SUBSET Keys, stored \subseteq stored',
             job.status = "COMPLETED" => worker[w].job \in stored',
             next = "SCORE" => worker[w].job \in stored'
      PROVE  Goal
  <2> DEFINE key == worker[w].job
  <2>1. worker[w] # None /\ key \in Keys
    BY <1>0, <1>5, ThreadAt DEF WriteBack, At
  <2>2. /\ jobs' = [jobs EXCEPT ![key] = job] /\ Go(w, next)
        /\ UNCHANGED <<scored, faults>>
    BY <1>5 DEF WriteBack
  <2>3. /\ jobs' \in [Keys -> Job \cup {None}]
        /\ jobs'[key] = job /\ jobs'[key] # None
        /\ \A k \in Keys \ {key} : jobs'[k] = jobs[k]
        /\ \A k \in Keys : jobs[k] # None => jobs'[k] # None
    <3> HIDE DEF key
    <3> QED
      BY <1>0, <2>1, <2>2, WrittenJob
  <2>4. /\ worker' \in [Workers -> Thread \cup {None}]
        /\ worker'[w].at = next /\ worker'[w].job = key /\ worker'[w].row = None
        /\ \A v \in Workers \ {w} : worker'[v] = worker[v]
    BY <1>0, <2>1, <2>2, GoMoves DEF Place
  <2>5. ThreadIsSound(w)'
    BY <1>5, <2>3, <2>4 DEF ThreadIsSound, RowIsSound, Fresh, Writing
  <2>6. CompletedHasAssessment'
    BY <1>0, <1>5, <2>2, <2>3 DEF CompletedHasAssessment
  <2> QED
    BY <1>0, <1>5, <2>2, <2>3, <2>4, <2>5, <2>6 DEF TypeOK, Grows
<1>6. CASE MarkRunning(w)
  <2>1. worker[w].row \in Job
    BY <1>0, <1>6, ThreadAt DEF MarkRunning, WriteBack, At, ThreadIsSound, Writing
  <2>2. /\ [worker[w].row EXCEPT !.status = "RUNNING"] \in Job
        /\ [worker[w].row EXCEPT !.status = "RUNNING"].status # "COMPLETED"
    BY <2>1 DEF Job, Status
  <2>3. stored' = stored /\ stored \in SUBSET Keys
    BY <1>0, <1>6 DEF MarkRunning, TypeOK
  <2> QED
    BY <1>5, <1>6, <2>2, <2>3 DEF MarkRunning, Writing
<1>7. CASE Extract(w)
  <2>1. /\ worker[w] # None /\ worker[w].at = "EXTRACT" /\ Go(w, "SAVE")
        /\ UNCHANGED <<jobs, stored, scored, faults>>
    BY <1>7 DEF Extract, At
  <2> QED
    BY <1>0, <2>1, GoMoves
       DEF Place, TypeOK, CompletedHasAssessment, Grows, ThreadIsSound, RowIsSound,
           Fresh, Writing
<1>8. CASE MarkFairnessStatus(w)
  <2> DEFINE row == worker[w].row
  <2>1. /\ row \in Job /\ (row.status = "COMPLETED" => worker[w].job \in stored)
        /\ worker[w] # None /\ worker[w].at = "markFairnessStatus"
    BY <1>0, <1>8, ThreadAt
       DEF MarkFairnessStatus, At, ThreadIsSound, RowIsSound, Writing
  <2>2. CapUnlessDuplicate(row) \in Job /\ CapUnlessDuplicate(row).status = row.status
    BY <2>1 DEF CapUnlessDuplicate, Job, Fairness
  <2>3. stored' = stored /\ stored \in SUBSET Keys
    BY <1>0, <1>8 DEF MarkFairnessStatus, TypeOK
  <2>4. CASE CapUnlessDuplicate(row) = row
    <3>1. Go(w, "SAVE") /\ UNCHANGED <<jobs, stored, scored, faults>>
      BY <1>8, <2>4 DEF MarkFairnessStatus
    <3> QED
      BY <1>0, <2>1, <3>1, GoMoves
         DEF Place, TypeOK, CompletedHasAssessment, Grows, ThreadIsSound, RowIsSound,
             Fresh, Writing
  <2>5. CASE CapUnlessDuplicate(row) # row
    <3>1. WriteBack(w, "markFairnessStatus", CapUnlessDuplicate(row), "SAVE")
      BY <1>8, <2>5 DEF MarkFairnessStatus
    <3> QED
      BY <1>5, <2>1, <2>2, <2>3, <3>1 DEF Writing
  <2> QED
    BY <2>4, <2>5
<1>9. CASE SaveAssessment(w)
  <2>1. worker[w].row \in Job /\ worker[w].job \in Keys
    BY <1>0, <1>9, ThreadAt DEF SaveAssessment, WriteBack, At, ThreadIsSound, Writing
  <2>2. [worker[w].row EXCEPT !.status = "COMPLETED"] \in Job
    BY <2>1 DEF Job, Status
  <2>3. /\ stored' \in SUBSET Keys /\ stored \subseteq stored'
        /\ worker[w].job \in stored'
    BY <1>0, <1>9, <2>1 DEF SaveAssessment, StoredNow, TypeOK
  <2> QED
    BY <1>5, <1>9, <2>2, <2>3 DEF SaveAssessment, Writing
<1>10. CASE Score(w)
  <2>1. /\ worker[w] # None /\ worker[w].at = "SCORE" /\ Go(w, "REPORT")
        /\ worker[w].job \in stored
        /\ scored' = scored \cup {worker[w].job} /\ UNCHANGED <<jobs, stored, faults>>
    BY <1>0, <1>10 DEF Score, At, ThreadIsSound
  <2> QED
    BY <1>0, <2>1, GoMoves
       DEF Place, TypeOK, CompletedHasAssessment, Grows, ThreadIsSound, RowIsSound,
           Fresh, Writing
<1>10a. CASE Report(w)
  BY <1>0, <1>10a, StopMoves
     DEF Report, TypeOK, CompletedHasAssessment, Grows, ThreadIsSound
<1>11. CASE Throw(w)
  <2>1. /\ worker[w] # None /\ ~Fresh(w) /\ Go(w, "FAIL")
        /\ UNCHANGED <<jobs, stored, scored, faults>>
    BY <1>11 DEF Throw, TurnsToFail, Fresh
  <2> QED
    BY <1>0, <2>1, GoMoves
       DEF Place, TypeOK, CompletedHasAssessment, Grows, ThreadIsSound, RowIsSound,
           Fresh, Writing
<1>12. CASE MarkFailed(w)
  <2> DEFINE key == worker[w].job
             job == [worker[w].row EXCEPT !.status = "FAILED"]
  <2>1. worker[w].row \in Job /\ key \in Keys
    BY <1>0, <1>12, ThreadAt DEF MarkFailed, At, ThreadIsSound, Writing
  <2>2. job \in Job /\ job.status = "FAILED"
    BY <2>1 DEF Job, Status
  <2>3. /\ jobs' = [jobs EXCEPT ![key] = job] /\ Stop(w)
        /\ UNCHANGED <<stored, scored, faults>>
    BY <1>12 DEF MarkFailed
  <2>4. /\ jobs' \in [Keys -> Job \cup {None}]
        /\ jobs'[key] = job
        /\ \A k \in Keys \ {key} : jobs'[k] = jobs[k]
        /\ \A k \in Keys : jobs[k] # None => jobs'[k] # None
    <3> HIDE DEF job, key
    <3> QED
      BY <1>0, <2>1, <2>2, <2>3, WrittenJob
  <2> QED
    BY <1>0, <2>2, <2>3, <2>4, StopMoves
       DEF TypeOK, CompletedHasAssessment, Grows, ThreadIsSound
<1>13. CASE Crash(w)
  BY <1>0, <1>13, StopMoves
     DEF Crash, TypeOK, CompletedHasAssessment, Grows, ThreadIsSound
<1>14. ASSUME Work(w) PROVE Goal
  BY <1>14, <1>2, <1>3, <1>4, <1>6, <1>7, <1>8, <1>9, <1>10, <1>10a, <1>11, <1>12
     DEF Work, Place, Writing
<1> QED
  BY <1>1, <1>13, <1>14

LEMMA SoundInit == Init => SoundInv
<1> SUFFICES ASSUME Init PROVE SoundInv
  OBVIOUS
<1>1. \A k \in Keys : /\ jobs[k] \in Job \cup {None}
                      /\ jobs[k] # None => k \in Legacy
  BY DEF Init, Job, Status, Fairness
<1>2. jobs \in [Keys -> Job \cup {None}]
  BY <1>1 DEF Init
<1>3. TypeOK
  BY <1>2, LegacyAssumption, FaultsAssumption DEF Init, TypeOK
<1> QED
  BY <1>1, <1>3 DEF Init, SoundInv, CompletedHasAssessment, ThreadIsSound

LEMMA SoundNext == SoundInv /\ [Next]_vars => SoundInv'
<1> SUFFICES ASSUME SoundInv, [Next]_vars PROVE SoundInv'
  OBVIOUS
<1>1. ASSUME Next PROVE SoundInv'
  BY <1>1, SoundStep DEF Next
<1>2. ASSUME UNCHANGED vars PROVE SoundInv'
  <2>1. /\ jobs' = jobs /\ stored' = stored /\ scored' = scored /\ worker' = worker
        /\ faults' = faults
    BY <1>2 DEF vars
  <2> QED
    BY <2>1 DEF SoundInv, TypeOK, CompletedHasAssessment, ThreadIsSound, RowIsSound, Fresh
<1> QED
  BY <1>1, <1>2

\* The inductive invariant of rows and threads: a thread writes back only a row of a
\* job that is there, and where a row says COMPLETED, in the table or in the hands of
\* a thread, its assessment is stored.
THEOREM SoundInvariance == Spec => []SoundInv
BY SoundInit, SoundNext, PTL DEF Spec

\* Every variable has its type: above all, no thread writes back a row that it
\* did not find.
THEOREM JobsTypeCorrect == Spec => []TypeOK
<1>1. SoundInv => TypeOK
  BY DEF SoundInv
<1> QED
  BY <1>1, SoundInvariance, PTL

\* Whatever rows any threads write back over each other, a completed job has
\* its assessment and only stored assessments are scored; also for the jobs that
\* are older than the fingerprint column.
THEOREM CompletedIsStored == Spec => []CompletedHasAssessment
<1>1. SoundInv => CompletedHasAssessment
  BY DEF SoundInv
<1> QED
  BY <1>1, SoundInvariance, PTL

-----------------------------------------------------------------------------

\* A table without jobs older than the fingerprint column.  Two threads that
\* read such a job can fill its column in with different verdicts, and the job
\* is blocked by the later write after it was opened by the earlier one: then
\* neither of the two properties below holds.
NoLegacy == Legacy = {}

IsDuplicate(row) == row.fairness = "DUPLICATE_REVIEW"

\* A duplicate is neither run nor completed.
Settled(row) ==
  /\ row.fingerprint
  /\ IsDuplicate(row) => row.status \in {"REVIEW_REQUIRED", "FAILED", "PENDING"}

\* The way out of a thread: of one whose job is done, blocked or failed.
Leaving == {"REPORT", "FAIL", "markFailed"}

\* A thread that works has a job that is no duplicate, and no stale row says
\* otherwise than the table.
ThreadIsClear(w) ==
  worker[w] # None =>
    /\ ~Fresh(w) /\ worker[w].at \notin Leaving => ~IsDuplicate(jobs[worker[w].job])
    /\ worker[w].row # None =>
         /\ Settled(worker[w].row)
         /\ IsDuplicate(worker[w].row) <=> IsDuplicate(jobs[worker[w].job])

\* The threads that will write a row which closes the job.
Attends(w, k) ==
  worker[w] # None /\ worker[w].job = k /\ ~Fresh(w) /\ worker[w].at \notin {"SCORE", "REPORT"}

IsAttended(k) == faults > 0 \/ \E w \in Workers : Attends(w, k)

RowsAreSettled == \A k \in Keys : jobs[k] # None => Settled(jobs[k])

OpenIsAttended == \A k \in Keys : IsOpen(k) => IsAttended(k)

\* The inductive invariant of duplicates and of open jobs.
ClearInv ==
  /\ RowsAreSettled
  /\ \A w \in Workers : ThreadIsClear(w)
  /\ OpenIsAttended

\* No step makes a job a duplicate or clears one.
Steady ==
  \A k \in Keys : jobs[k] # None =>
    jobs'[k] # None /\ (IsDuplicate(jobs'[k]) <=> IsDuplicate(jobs[k]))

\* What a step of thread w does for the open jobs: those it opens it attends,
\* and it leaves none that stays open.
Answers(w) ==
  /\ faults' \in Nat /\ faults' >= faults
  /\ \A k \in Keys : IsOpen(k)' =>
       \/ faults' > 0
       \/ Attends(w, k)'
       \/ IsOpen(k) /\ ~Attends(w, k)

\* What a step of w must show for ClearInv.
LEMMA ClearParts ==
  ASSUME SoundInv, ClearInv, NEW w \in Workers,
         Steady, RowsAreSettled', ThreadIsClear(w)', Answers(w),
         \A v \in Workers \ {w} : worker'[v] = worker[v]
  PROVE  ClearInv'
<1>1. ASSUME NEW v \in Workers \ {w} PROVE ThreadIsClear(v)'
  <2> SUFFICES ASSUME worker[v] # None PROVE ThreadIsClear(v)'
    BY <1>1 DEF ThreadIsClear
  <2>1. /\ worker'[v] = worker[v] /\ worker[v].job \in Keys
        /\ ThreadIsClear(v) /\ ThreadIsSound(v)
    BY <1>1 DEF ClearInv, SoundInv, TypeOK, Thread
  <2> QED
    BY <2>1 DEF Steady, ThreadIsClear, ThreadIsSound, RowIsSound, Fresh, Leaving
<1>2. ASSUME NEW k \in Keys, IsOpen(k)', ~(faults' > 0) PROVE IsAttended(k)'
  <2>1. CASE Attends(w, k)'
    BY <2>1 DEF IsAttended
  <2>2. CASE IsOpen(k) /\ ~Attends(w, k)
    <3>1. ~(faults > 0)
      BY <1>2 DEF Answers, SoundInv, TypeOK
    <3>2. PICK v \in Workers : Attends(v, k)
      BY <2>2, <3>1 DEF ClearInv, OpenIsAttended, IsAttended
    <3>3. v # w /\ worker'[v] = worker[v]
      BY <2>2, <3>2
    <3> QED
      BY <3>2, <3>3 DEF Attends, IsAttended, Fresh
  <2> QED
    BY <1>2, <2>1, <2>2 DEF Answers
<1>3. OpenIsAttended'
  BY <1>2 DEF OpenIsAttended, IsAttended
<1> QED
  BY <1>1, <1>3 DEF ClearInv

\* A step that leaves the table alone, and its thread with a job to attend to
\* if it had one.
LEMMA TableAlone ==
  ASSUME SoundInv, ClearInv, NEW w \in Workers, UNCHANGED <<jobs, faults>>,
         \A k \in Keys : Attends(w, k) => Attends(w, k)'
  PROVE  Steady /\ RowsAreSettled' /\ Answers(w)
BY DEF SoundInv, TypeOK, ClearInv, Steady, RowsAreSettled, Answers, IsOpen

\* The row a transaction writes back: of a duplicate if the job is one, and open only
\* if the thread goes on to close it.
LEMMA WrittenBack ==
  ASSUME SoundInv, ClearInv, NEW w \in Workers, worker[w] # None, ~Fresh(w),
         NEW key, key = worker[w].job,
         NEW job \in Job, Settled(job), IsDuplicate(job) <=> IsDuplicate(jobs[key]),
         jobs' = [jobs EXCEPT ![key] = job], faults' = faults,
         job.status \notin {"PENDING", "RUNNING"} \/ Attends(w, key)'
  PROVE  Steady /\ RowsAreSettled' /\ Answers(w)
<1>1. /\ TypeOK /\ key \in Keys
      /\ jobs[key] # None
  BY DEF SoundInv, TypeOK, Thread, ThreadIsSound
<1>2. /\ jobs'[key] = job /\ jobs'[key] # None
      /\ \A k \in Keys \ {key} : jobs'[k] = jobs[k]
  BY <1>1, WrittenJob
<1>3. Steady
  BY <1>1, <1>2 DEF Steady
<1>4. RowsAreSettled'
  BY <1>2 DEF ClearInv, RowsAreSettled
<1>5. ASSUME NEW k \in Keys, IsOpen(k)'
      PROVE  Attends(w, k)' \/ (IsOpen(k) /\ ~Attends(w, k))
  <2>1. CASE k = key
    BY <1>2, <1>5, <2>1 DEF IsOpen
  <2>2. CASE k # key
    BY <1>2, <1>5, <2>2 DEF IsOpen, Attends
  <2> QED
    BY <2>1, <2>2
<1> QED
  BY <1>1, <1>3, <1>4, <1>5 DEF Answers, TypeOK

\* With no older job, the rows findOrCreateJob reads change only when a failed
\* job is opened, and a job it opens goes to an extraction.
LEMMA FoundIsClear ==
  ASSUME NEW row \in Job, Settled(row), NEW duplicate \in BOOLEAN
  PROVE  LET job == Found(row, duplicate)
         IN  /\ Settled(job) /\ (IsDuplicate(job) <=> IsDuplicate(row))
             /\ job # row => job.status = "PENDING"
<1>1. Found(row, duplicate) = Reopened(row)
  BY DEF Found, Settled
<1>2. CASE row.status = "FAILED"
  BY <1>1, <1>2 DEF Reopened, Settled, IsDuplicate, Job, Status, Fairness
<1>3. CASE row.status # "FAILED"
  BY <1>1, <1>3 DEF Reopened
<1> QED
  BY <1>2, <1>3

LEMMA NewIsClear ==
  ASSUME NEW duplicate \in BOOLEAN
  PROVE  LET job == Fingerprinted(NewJob, duplicate)
         IN  /\ Settled(job)
             /\ ~IsDuplicate(job) => job.status = "PENDING"
BY DEF Fingerprinted, NewJob, Settled, IsDuplicate

\* One step of a thread keeps ClearInv, and moves no job in or out of the
\* duplicates.
LEMMA ClearStep ==
  ASSUME SoundInv, ClearInv, NEW w \in Workers,
         (\E key \in Keys : Start(w, key)) \/ Work(w) \/ Crash(w)
  PROVE  ClearInv' /\ Steady
<1> USE FaultsAssumption
<1> DEFINE Goal == /\ Steady /\ RowsAreSettled' /\ ThreadIsClear(w)' /\ Answers(w)
                   /\ \A v \in Workers \ {w} : worker'[v] = worker[v]
<1> SUFFICES Goal
  BY ClearParts
<1>0. TypeOK /\ ThreadIsSound(w) /\ ThreadIsClear(w) /\ RowsAreSettled
  BY DEF SoundInv, ClearInv
<1>1. ASSUME NEW key \in Keys, Start(w, key)
      PROVE  Goal
  <2>1. /\ worker[w] = None /\ UNCHANGED <<jobs, faults>>
        /\ worker'[w] = [at |-> "FIND", job |-> key, row |-> None, duplicate |-> FALSE]
        /\ \A v \in Workers \ {w} : worker'[v] = worker[v]
    BY <1>0, <1>1 DEF TypeOK, Start
  <2>2. Steady /\ RowsAreSettled' /\ Answers(w)
    BY <2>1, TableAlone DEF Attends
  <2> QED
    BY <2>1, <2>2 DEF ThreadIsClear, Fresh
<1>2. ASSUME NEW place \in {"FIND", "RUN", "EXTRACT", "SAVE", "FAIL"},
             NEW transaction \in Writing \cup {"findOrCreateJob"},
             Begin(w, place, transaction),
             place = "FIND" <=> transaction = "findOrCreateJob",
             place = "FAIL" <=> transaction = "markFailed"
      PROVE  Goal
  <2>1. /\ worker[w] \in Thread /\ worker[w].at = place
        /\ worker[w].job \in Keys /\ worker[w] # None
    BY <1>0, <1>2, ThreadAt DEF Begin, At
  <2>2. /\ worker'[w] = [worker[w] EXCEPT !.at = transaction, !.row = jobs[worker[w].job],
                           !.duplicate = HasDuplicate(worker[w].job)]
        /\ \A v \in Workers \ {w} : worker'[v] = worker[v]
        /\ UNCHANGED <<jobs, stored, scored, faults>>
    BY <1>0, <1>2 DEF Begin, TypeOK
  <2>3. /\ worker'[w].at = transaction /\ worker'[w].job = worker[w].job
        /\ worker'[w].row = jobs[worker[w].job]
        /\ worker'[w] \in Thread
    BY <1>0, <2>1, <2>2 DEF Thread, TypeOK, Place, Writing, HasDuplicate
  <2>4. ASSUME NEW k \in Keys, Attends(w, k) PROVE Attends(w, k)'
    BY <1>2, <2>1, <2>3, <2>4, NoneAssumption DEF Attends, Fresh, Writing
  <2>5. Steady /\ RowsAreSettled' /\ Answers(w)
    BY <2>2, <2>4, TableAlone
  <2>6. ThreadIsClear(w)'
    BY <1>0, <1>2, <2>1, <2>2, <2>3 DEF ThreadIsClear, RowsAreSettled, Fresh, Writing, Leaving
  <2> QED
    BY <2>2, <2>5, <2>6
<1>3. CASE FindOrCreateJob(w)
  <2> DEFINE key == worker[w].job
             row == worker[w].row
             job == IF row = None THEN Fingerprinted(NewJob, worker[w].duplicate)
                                  ELSE Found(row, worker[w].duplicate)
             place == AfterFind(w, key, job)
  <2>1. /\ worker[w] # None /\ key \in Keys /\ row \in Job \cup {None}
        /\ worker[w].duplicate \in BOOLEAN /\ worker[w].at = "findOrCreateJob"
    BY <1>0, <1>3, ThreadAt DEF FindOrCreateJob, At
  <2>2. /\ row = None => jobs[key] = None
        /\ jobs' = IF job = row THEN jobs ELSE [jobs EXCEPT ![key] = job]
        /\ Go(w, place)
        /\ UNCHANGED <<stored, scored, faults>>
    BY <1>3 DEF FindOrCreateJob
  <2>3. /\ job \in Job /\ Settled(job)
        /\ row # None => /\ jobs[key] # None
                         /\ IsDuplicate(job) <=> IsDuplicate(jobs[key])
        /\ job # row /\ ~IsDuplicate(job) => job.status = "PENDING"
    <3>1. CASE row = None
      BY <2>1, <3>1, NewRows, NewIsClear, NoneAssumption
    <3>2. CASE row # None
      BY <1>0, <2>1, <3>2, FoundRows, FoundIsClear
         DEF ThreadIsClear, ThreadIsSound, RowIsSound
    <3> QED
      BY <3>1, <3>2
  <2>4. /\ IsDuplicate(job) <=> place = "REPORT"
        /\ ~IsDuplicate(job) /\ job.status = "PENDING" => place = "RUN"
        /\ place \in {"REPORT", "SCORE", "RUN"}
    BY DEF Blocked, IsDuplicate, Reusable, AfterFind
  <2>5. /\ worker' \in [Workers -> Thread \cup {None}]
        /\ \A v \in Workers \ {w} : worker'[v] = worker[v]
        /\ worker'[w] # None
        /\ worker'[w].at = place /\ worker'[w].job = key
        /\ worker'[w].row = None
    <3>1. Go(w, place) /\ place \in Place
      BY <2>2, <2>4 DEF Place
    <3> HIDE DEF place
    <3> QED
      BY <1>0, <2>1, <3>1, GoMoves
  <2>6. /\ jobs' \in [Keys -> Job \cup {None}]
        /\ jobs'[key] # None
        /\ job = row => jobs' = jobs
        /\ job # row => jobs'[key] = job
        /\ \A k \in Keys \ {key} : jobs'[k] = jobs[k]
    <3>1. CASE job = row
      BY <1>0, <2>2, <2>3, <3>1, NoneAssumption DEF TypeOK
    <3>2. CASE job # row
      <4>1. jobs' = [jobs EXCEPT ![key] = job]
        BY <2>2, <3>2
      <4> HIDE DEF job, key
      <4> QED
        BY <1>0, <2>1, <2>3, <3>2, <4>1, WrittenJob
    <3> QED
      BY <3>1, <3>2
  <2>7. job = row => row # None
    BY <2>3, NoneAssumption
  <2> HIDE DEF job, place, key, row
  <2>8. Steady
    BY <2>2, <2>3, <2>6 DEF Steady
  <2>9. RowsAreSettled'
    BY <1>0, <2>3, <2>6 DEF RowsAreSettled
  <2>10. ThreadIsClear(w)'
    BY <2>3, <2>4, <2>5, <2>6, <2>7, <2>8 DEF ThreadIsClear, Fresh, Steady, Leaving
  <2>11. ASSUME NEW k \in Keys, IsOpen(k)'
         PROVE  Attends(w, k)' \/ (IsOpen(k) /\ ~Attends(w, k))
    <3>1. ~Attends(w, k)
      BY <2>1 DEF Attends, Fresh
    <3>2. CASE k = key /\ job # row
      <4>1. ~IsDuplicate(job)
        BY <2>6, <2>11, <3>2 DEF IsOpen, IsDuplicate
      <4> QED
        BY <2>3, <2>4, <2>5, <3>2, <4>1 DEF Attends, Fresh
    <3>3. CASE k # key \/ job = row
      BY <2>6, <2>11, <3>1, <3>3 DEF IsOpen
    <3> QED
      BY <3>2, <3>3
  <2>12. Answers(w)
    BY <1>0, <2>2, <2>11 DEF Answers, TypeOK
  <2> QED
    BY <2>5, <2>8, <2>9, <2>10, <2>12
<1>4. CASE ThrowBefore(w)
  <2>1. /\ Stop(w) /\ UNCHANGED <<jobs, faults>> /\ Fresh(w)
    BY <1>4 DEF ThrowBefore, At, Fresh
  <2>2. /\ worker'[w] = None
        /\ \A v \in Workers \ {w} : worker'[v] = worker[v]
    BY <1>0, <2>1, StopMoves
  <2>3. Steady /\ RowsAreSettled' /\ Answers(w)
    BY <2>1, TableAlone DEF Attends
  <2> QED
    BY <2>2, <2>3 DEF ThreadIsClear
<1>5. ASSUME NEW transaction \in Writing \ {"markFailed"}, NEW next \in {"EXTRACT", "SAVE", "SCORE"},
             NEW job \in Job, WriteBack(w, transaction, job, next),
             job.fingerprint, ~IsDuplicate(job),
             next = "SCORE" => job.status = "COMPLETED"
      PROVE  Goal
  <2>0. PICK key : key = worker[w].job
    OBVIOUS
  <2>1. /\ worker[w] # None /\ key \in Keys /\ ~Fresh(w) /\ ~IsDuplicate(jobs[key])
    BY <1>0, <1>5, <2>0, ThreadAt DEF WriteBack, At, Fresh, Writing, Leaving, ThreadIsClear
  <2>2. /\ jobs' = [jobs EXCEPT ![key] = job] /\ Go(w, next)
        /\ UNCHANGED <<scored, faults>>
    BY <1>5, <2>0 DEF WriteBack
  <2>3. /\ worker'[w] # None /\ worker'[w].at = next /\ worker'[w].job = key
        /\ worker'[w].row = None
        /\ \A v \in Workers \ {w} : worker'[v] = worker[v]
    BY <1>0, <2>0, <2>1, <2>2, GoMoves DEF Place
  <2>4. job.status \notin {"PENDING", "RUNNING"} \/ Attends(w, key)'
    BY <1>5, <2>3 DEF Attends, Fresh
  <2>5. Steady /\ RowsAreSettled' /\ Answers(w)
    BY <1>5, <2>0, <2>1, <2>2, <2>4, WrittenBack DEF Settled
  <2>6. ~IsDuplicate(jobs'[key])
    BY <1>0, <1>5, <2>1, <2>2 DEF TypeOK
  <2>7. ThreadIsClear(w)'
    BY <2>3, <2>6 DEF ThreadIsClear
  <2> QED
    BY <2>3, <2>5, <2>7
<1>6. ASSUME worker[w] # None, worker[w].at \in Writing
      PROVE  /\ worker[w].row \in Job /\ Settled(worker[w].row) /\ ~Fresh(w)
             /\ worker[w].row.fingerprint
             /\ IsDuplicate(worker[w].row) <=> IsDuplicate(jobs[worker[w].job])
             /\ worker[w].at # "markFailed" => ~IsDuplicate(worker[w].row)
  BY <1>0, <1>6
     DEF ThreadIsClear, ThreadIsSound, Settled, Fresh, Writing, Leaving, TypeOK, Thread
<1>7. CASE MarkRunning(w)
  <2> DEFINE job == [worker[w].row EXCEPT !.status = "RUNNING"]
  <2>1. worker[w] # None /\ worker[w].at \in Writing \ {"markFailed"}
    BY <1>7 DEF MarkRunning, WriteBack, At, Writing
  <2>2. job \in Job /\ job.fingerprint /\ ~IsDuplicate(job)
    BY <1>6, <2>1 DEF Job, Status, IsDuplicate
  <2> QED
    BY <1>5, <1>7, <2>2 DEF MarkRunning, Writing
<1>8. ASSUME NEW place \in {"SAVE", "REPORT", "FAIL"}, worker[w] # None, ~Fresh(w),
             Go(w, place), UNCHANGED <<jobs, faults>>,
             place = "SAVE" => worker[w].at \notin Leaving,
             place = "REPORT" => worker[w].at = "SCORE"
      PROVE  Goal
  <2>1. /\ worker'[w] # None /\ worker'[w].at = place /\ worker'[w].job = worker[w].job
        /\ worker'[w].row = None
        /\ \A v \in Workers \ {w} : worker'[v] = worker[v]
    BY <1>0, <1>8, GoMoves DEF Place
  <2>2. ASSUME NEW k \in Keys, Attends(w, k) PROVE Attends(w, k)'
    BY <1>8, <2>1, <2>2 DEF Attends, Fresh
  <2>3. Steady /\ RowsAreSettled' /\ Answers(w)
    BY <1>8, <2>2, TableAlone
  <2>4. ThreadIsClear(w)'
    BY <1>0, <1>8, <2>1 DEF ThreadIsClear, Fresh, Leaving
  <2> QED
    BY <2>1, <2>3, <2>4
<1>9. CASE Extract(w)
  BY <1>8, <1>9 DEF Extract, At, Fresh, Leaving
<1>10. CASE MarkFairnessStatus(w)
  <2> DEFINE row == worker[w].row
             job == CapUnlessDuplicate(row)
  <2>1. worker[w] # None /\ worker[w].at \in Writing \ {"markFailed"}
    BY <1>10 DEF MarkFairnessStatus, At, Writing
  <2>2. job \in Job /\ job.fingerprint /\ ~IsDuplicate(job)
    BY <1>6, <2>1 DEF CapUnlessDuplicate, Job, Fairness, IsDuplicate
  <2>3. CASE job = row
    <3>1. Go(w, "SAVE") /\ UNCHANGED <<jobs, faults>>
      BY <1>10, <2>3 DEF MarkFairnessStatus
    <3> QED
      BY <1>6, <1>8, <2>1, <3>1 DEF Writing, Leaving
  <2>4. CASE job # row
    <3>1. WriteBack(w, "markFairnessStatus", job, "SAVE")
      BY <1>10, <2>4 DEF MarkFairnessStatus
    <3> QED
      BY <1>5, <2>2, <3>1 DEF Writing
  <2> QED
    BY <2>3, <2>4
<1>11. CASE SaveAssessment(w)
  <2> DEFINE job == [worker[w].row EXCEPT !.status = "COMPLETED"]
  <2>1. worker[w] # None /\ worker[w].at \in Writing \ {"markFailed"}
    BY <1>11 DEF SaveAssessment, WriteBack, At, Writing
  <2>2. job \in Job /\ job.fingerprint /\ ~IsDuplicate(job) /\ job.status = "COMPLETED"
    BY <1>6, <2>1 DEF Job, Status, IsDuplicate
  <2> QED
    BY <1>5, <1>11, <2>2 DEF SaveAssessment, Writing
<1>12. CASE Score(w)
  BY <1>8, <1>12 DEF Score, At, Fresh
<1>12a. CASE Report(w)
  <2>1. Stop(w) /\ UNCHANGED <<jobs, faults>> /\ worker[w].at = "REPORT"
    BY <1>12a DEF Report, At
  <2>2. worker'[w] = None /\ \A v \in Workers \ {w} : worker'[v] = worker[v]
    BY <1>0, <2>1, StopMoves
  <2>3. Steady /\ RowsAreSettled' /\ Answers(w)
    BY <2>1, TableAlone DEF Attends
  <2> QED
    BY <2>2, <2>3 DEF ThreadIsClear
<1>13. CASE Throw(w)
  BY <1>8, <1>13 DEF Throw, TurnsToFail, Fresh
<1>14. CASE MarkFailed(w)
  <2> DEFINE key == worker[w].job
             job == [worker[w].row EXCEPT !.status = "FAILED"]
  <2>1. worker[w] # None /\ worker[w].at \in Writing
    BY <1>14 DEF MarkFailed, At, Writing
  <2>2. /\ job \in Job /\ Settled(job) /\ job.status = "FAILED"
        /\ IsDuplicate(job) <=> IsDuplicate(jobs[key])
    BY <1>6, <2>1 DEF Job, Status, IsDuplicate, Settled
  <2>3. /\ jobs' = [jobs EXCEPT ![key] = job] /\ Stop(w) /\ faults' = faults
    BY <1>14 DEF MarkFailed
  <2>4. worker'[w] = None /\ \A v \in Workers \ {w} : worker'[v] = worker[v]
    BY <1>0, <2>3, StopMoves
  <2> HIDE DEF job
  <2>5. Steady /\ RowsAreSettled' /\ Answers(w)
    BY <1>6, <2>1, <2>2, <2>3, WrittenBack
  <2> QED
    BY <2>4, <2>5 DEF ThreadIsClear
<1>15. CASE Crash(w)
  <2>1. /\ UNCHANGED jobs /\ Stop(w) /\ faults' = faults + 1 /\ faults \in Nat
    BY <1>0, <1>15 DEF Crash, TypeOK
  <2>2. worker'[w] = None /\ \A v \in Workers \ {w} : worker'[v] = worker[v]
    BY <1>0, <2>1, StopMoves
  <2> QED
    BY <1>0, <2>1, <2>2 DEF ThreadIsClear, Steady, RowsAreSettled, Answers
<1>16. ASSUME Work(w) PROVE Goal
  BY <1>16, <1>2, <1>3, <1>4, <1>7, <1>9, <1>10, <1>11, <1>12, <1>12a, <1>13,
     <1>14 DEF Work, Place, Writing
<1> QED
  BY <1>1, <1>15, <1>16

LEMMA ClearInit == NoLegacy /\ Init => ClearInv
<1> SUFFICES ASSUME NoLegacy, Init PROVE ClearInv
  OBVIOUS
<1>1. \A k \in Keys : jobs[k] = None
  BY DEF NoLegacy, Init
<1>2. \A w \in Workers : worker[w] = None
  BY DEF Init
<1> QED
  BY <1>1, <1>2 DEF ClearInv, RowsAreSettled, OpenIsAttended, IsOpen, ThreadIsClear

LEMMA ClearNext == SoundInv /\ ClearInv /\ [Next]_vars => ClearInv'
<1> SUFFICES ASSUME SoundInv, ClearInv, [Next]_vars PROVE ClearInv'
  OBVIOUS
<1>1. ASSUME Next PROVE ClearInv'
  BY <1>1, ClearStep DEF Next
<1>2. ASSUME UNCHANGED vars PROVE ClearInv'
  <2>1. jobs' = jobs /\ worker' = worker /\ faults' = faults
    BY <1>2 DEF vars
  <2> QED
    BY <2>1 DEF ClearInv, RowsAreSettled, OpenIsAttended, IsOpen, IsAttended, Attends,
                ThreadIsClear, Fresh
<1> QED
  BY <1>1, <1>2

\* Without rows from before the fingerprint column: a settled row has its fingerprint
\* and a duplicate is neither run nor completed, wherever its threads fail; no stale
\* row in the hands of a thread says otherwise, and an open job has a thread that
\* attends to it unless one stopped.
THEOREM ClearInvariance ==
  ASSUME NoLegacy
  PROVE  Spec => [](SoundInv /\ ClearInv)
<1>1. Init => SoundInv /\ ClearInv
  BY SoundInit, ClearInit
<1>2. SoundInv /\ ClearInv /\ [Next]_vars => (SoundInv /\ ClearInv)'
  BY SoundNext, ClearNext
<1> QED
  BY <1>1, <1>2, PTL DEF Spec

\* No order in which threads write rows back, and no exception of theirs, leaves an
\* open job that is no duplicate with nobody to close it, nor a completed one without
\* its assessment; only a thread that stopped half way does.
THEOREM JobsServed ==
  ASSUME NoLegacy
  PROVE  Spec => []JobsAreServed
<1>1. SoundInv /\ ClearInv => JobsAreServed
  BY DEF SoundInv, ClearInv, JobsAreServed, OpenJobIsAttended, OpenIsAttended,
         IsAttended, Attends, Fresh
<1> QED
  BY <1>1, ClearInvariance, PTL

\* Only the scoring of a job adds it to those scored.
LEMMA ScoredStep ==
  ASSUME Next, NEW k \in scored' \ scored
  PROVE  \E w \in Workers : worker[w] # None /\ worker[w].at = "SCORE" /\ worker[w].job = k
<1>1. PICK w \in Workers : (\E key \in Keys : Start(w, key)) \/ Work(w) \/ Crash(w)
  BY DEF Next
<1>2. ASSUME NEW key \in Keys, Start(w, key) PROVE scored' = scored
  BY <1>2 DEF Start
<1>3. ASSUME Crash(w) PROVE scored' = scored
  BY <1>3 DEF Crash
<1>4. ASSUME ~Score(w), Work(w) PROVE scored' = scored
  BY <1>4 DEF Work, Begin, FindOrCreateJob, ThrowBefore, Report, MarkRunning, WriteBack, Extract,
     MarkFairnessStatus, SaveAssessment, Throw, MarkFailed
<1>5. Score(w)
  BY <1>1, <1>2, <1>3, <1>4
<1> QED
  BY <1>5 DEF Score, At

\* A job blocked as a duplicate stays blocked, whatever rows are written back,
\* and is never scored.
THEOREM DuplicatesStay ==
  ASSUME NoLegacy
  PROVE  Spec => DuplicateStaysBlocked
<1> DEFINE Stays == \A k \in Keys :
       jobs[k] # None /\ jobs[k].fairness = "DUPLICATE_REVIEW" =>
         /\ jobs'[k].fairness = "DUPLICATE_REVIEW"
         /\ k \in scored' => k \in scored
<1>1. SoundInv /\ ClearInv /\ [Next]_vars => [Stays]_vars
  <2> SUFFICES ASSUME SoundInv, ClearInv, Next PROVE Stays
    OBVIOUS
  <2>1. Steady
    BY ClearStep DEF Next
  <2>2. ASSUME NEW k \in Keys, IsDuplicate(jobs[k]), k \in scored' PROVE k \in scored
    <3> SUFFICES ASSUME k \notin scored PROVE FALSE
      OBVIOUS
    <3>1. PICK w \in Workers : worker[w] # None /\ worker[w].at = "SCORE" /\ worker[w].job = k
      BY <2>2, ScoredStep
    <3> QED
      BY <2>2, <3>1 DEF ClearInv, ThreadIsClear, Fresh, Leaving
  <2> QED
    BY <2>1, <2>2 DEF Steady, IsDuplicate
<1> QED
  BY <1>1, ClearInvariance, PTL DEF Spec, DuplicateStaysBlocked

=============================================================================
