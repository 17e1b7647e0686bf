--------------------------- MODULE MCCommandLine ---------------------------
(***************************************************************************)
(* Instances of the components of the command line tools.  They share      *)
(* neither state nor calls, so a behaviour plays one of them, the scene,   *)
(* and leaves the variables of the others as they are.  The constants of   *)
(* the modules extended here are in the .cfg files.                        *)
(***************************************************************************)
EXTENDS ProviderFetch, BoardSweep, SyncQueue, PipelineLock, SyncUnit, SkillRuntime,
        ArtifactChain, CompanyOpportunity, AddEntry, TLC

CONSTANTS
  Scenes,                           \* components that are played
  opp, trace, h1, h2, c1, c2,       \* SyncQueue
  Impossible                        \* Cadence

VARIABLES
  scene,
  rows, sentinels, reports, workers, pending, archived, applied,   \* Tracker
  adds, halts, collided, expired,
  table, seen, temps, told, refused,                               \* TrackerLock
  stage, sheet, ledger, log, reply, freed, mistaken, steps,        \* Statuses
  today, entry, notes, word,                                       \* Cadence
  job, check                                                       \* Assessments

\* The second content of an opportunity was written on top of the first.
BasisOfSecond ==
  [k \in Keys |-> IF k[1] = opp /\ k[2] = h2 THEN h1 ELSE None]

ChainsPlayed ==
  {{"evidence", "materials"}, {"materials", "final"},
   {"materials", "final", "render", "library"}, {"materials", "analysis"},
   {"materials", "prep", "review"}, {"evidence", "materials", "review", "feedback"}}

\* Versions with the text of no plan, and of one that may be installed.
VersionsPlayed == {[s \in Sections |-> text] : text \in {Hand, "ma"}}

NodesOfList ==
  [l \in {"first", "both", "second"} |->
     CASE l = "first" -> {"n1"} [] l = "second" -> {"n2"} [] OTHER -> {"n1", "n2"}]

NodeOfMount == [m \in {"mount"} |-> "n1"]

\* Three writers of the table of applications, one death, one refused call.
Writers == INSTANCE TrackerLock WITH Confirms <- FALSE, MaxCrashes <- 1, MaxFaults <- 1

\* Commands on the queue one after the other, and two at once that add, delete and
\* cancel one content of each object.
QueueNext == Next /\ loaded'[c2] = None

OverlapNext ==
  /\ Next
  /\ Len(queue'.audit) < MaxAudit /\ \A k \in Present(queue') : k[2] = h1
  /\ \A i \in DOMAIN queue'.audit :
       queue'.audit[i].event \in {"enqueue", "web-deleted", "cancel"}

\* Two imports at once.
Two == INSTANCE ContractImport WITH
  Importers <- {"p1", "p2"}, Contents <- {"a", "b"}, Manual <- {},
  MaxBackups <- 3, MaxStops <- 0, MaxEdits <- 0

\* Opportunities that could be the same, and one whose process nodes change.
RowsNext ==
  /\ CompanyNext
  /\ drafts' = {}
  /\ \A o \in Installed' : opportunity'[o].nodes = "first"

NodesNext ==
  /\ CompanyNext
  /\ hands' = 0 /\ analysis' = 1
  /\ \A o \in Installed' : o = "o1" /\ opportunity'[o].key = "k1"

\* Two postings of one role and another that could be the same; the title B is
\* made of words roleFuzzyMatch leaves out, so that it does not match itself.
UrlOfPosting ==
  [p \in {"x", "y", "z"} |-> CASE p = "x" -> "u1" [] p = "z" -> "u2" [] OTHER -> None]

TitleOfPosting == [p \in {"x", "y", "z"} |-> IF p = "y" THEN "B" ELSE "A"]

\* The table, with three evaluations one after the other.
Table == INSTANCE Tracker WITH
  Postings <- {"x", "y", "z"}, UrlOf <- UrlOfPosting, TitleOf <- TitleOfPosting,
  CompanyOf <- [t \in {"A", "B"} |-> "c"], Alike <- {{"A"}, {"A", "B"}},
  Workers <- {"w1"}, Scores <- {1, 2},
  MaxEvaluations <- 3, MaxAdds <- 0, MaxStops <- 1, MaxExpired <- 0

\* The numbers, with two workers and a row from elsewhere.
Numbers == INSTANCE Tracker WITH
  Postings <- {"x"}, UrlOf <- UrlOfPosting, TitleOf <- TitleOfPosting,
  CompanyOf <- [t \in {"A", "B"} |-> "c"], Alike <- {{"A"}, {"A", "B"}},
  Workers <- {"w1", "w2"}, Scores <- {1},
  MaxEvaluations <- 2, MaxAdds <- 1, MaxStops <- 1, MaxExpired <- 1

\* x has a report and y and z have none; z is at a company with a similar name
\* and has the title of x.
CompanyOfApplication == [a \in {"x", "y", "z"} |-> IF a = "z" THEN "c plus" ELSE "c"]

Stati == INSTANCE Statuses WITH
  Applications <- {"x", "y", "z"}, CompanyOf <- CompanyOfApplication,
  RoleOf <- TitleOfPosting, Akin <- {{"c", "c plus"}},
  ReportOf <- [a \in {"x", "y", "z"} |-> IF a = "x" THEN 1 ELSE None], MaxSteps <- 5

\* Two days are the longest period, two follow-ups make an application cold.
ShortCadence ==
  [appliedFirst |-> 2, appliedSubsequent |-> 1, maxFollowups |-> 2,
   respondedInitial |-> 1, respondedSubsequent |-> 2, thankYou |-> 1]

Followups == INSTANCE Cadence WITH Config <- ShortCadence, LastDay <- 3, MaxNotes <- 3

\* A provider and another request for one name, and a provider that has a second
\* name; one token and one entry are the fewest that the others wait for.
HostOfRequest == [r \in {"r1", "r2", "r3"} |-> IF r = "r3" THEN "h2" ELSE "h1"]

AttemptsOfRequest == [r \in {"r1", "r2", "r3"} |-> IF r = "r2" THEN 1 ELSE 2]

\* Four postings, two of which a second keyword matches too, on pages of one.
KeywordsOfBoard == <<{"a", "b", "c", "d"}, {"c", "d"}>>

\* Names that are spelled in two ways.
KeyOfSpelling ==
  [n \in {"Projects", "projects", "Skills", "Fraud Shield", "FraudShield", "Other"} |->
     CASE n = "Projects" -> "projects" [] n = "FraudShield" -> "Fraud Shield" [] OTHER -> n]

\* An entry whose key is spelled otherwise, and one for another section.
PayloadsOfAgent ==
  {[section |-> "Projects", dedupKey |-> "FraudShield", entry |-> "Fraud Shield"],
   [section |-> "Skills", dedupKey |-> "Other", entry |-> "Other"]}

\* Every analysis of one must-have or two; the check has all its signs.
Analyses == INSTANCE Assessments WITH MaxMustHaves <- 2, Levels <- 0 .. 2

Frauds == INSTANCE Assessments WITH MaxMustHaves <- 1, Levels <- {1}

tableVars == <<rows, sentinels, reports, workers, pending, archived, applied,
               adds, halts, collided, expired>>

contentVars == <<table, seen, temps, told, refused>>

toolVars == <<lockVars, importVars, runVars, chainVars, companyVars>>

statusVars == <<stage, sheet, ledger, log, reply, freed, mistaken, steps>>

cadenceVars == <<today, entry, notes, word>>

readVars == <<statusVars, cadenceVars, unitVars>>

assessVars == <<job, check>>

sourceVars == <<fetchVars, boardVars, addVars, assessVars>>

restVars == <<tableVars, contentVars, readVars, sourceVars>>

all == <<scene, vars, toolVars, restVars>>

MCInit ==
  /\ scene \in Scenes
  /\ Init
  /\ Writers!LockInit
  /\ IF scene = "two imports" THEN Two!ImportInit ELSE ImportInit
  /\ NothingRuns
  /\ scene # "skill" => contract = "a"
  /\ ChainInit
  /\ scene # "chain" => chain = {"evidence", "materials"}
  /\ CompanyInit
  /\ IF scene = "numbers" THEN Numbers!TrackerInit ELSE Table!TrackerInit
  /\ Stati!StatusInit
  /\ Followups!CadenceInit
  /\ UnitInit
  /\ FetchInit
  /\ scene = "board" \/ (portal = "tencent" /\ board = <<>>)
  /\ BoardInit
  /\ scene = "entries" \/ cvLines = NoFile
  /\ AddInit
  /\ IF scene = "analysis" THEN Analyses!AssessInit
     ELSE Frauds!AssessInit /\ job.mustHave = <<Frauds!Plain(1)>>

MCNext ==
  /\ UNCHANGED scene
  /\ \/ /\ scene = "queue" /\ QueueNext
        /\ UNCHANGED <<toolVars, restVars>>
     \/ /\ scene = "two commands" /\ OverlapNext
        /\ UNCHANGED <<toolVars, restVars>>
     \/ /\ scene = "lock" /\ PipelineNext
        /\ UNCHANGED <<vars, importVars, runVars, chainVars, companyVars, restVars>>
     \/ /\ scene = "two imports" /\ Two!ImportNext
        /\ UNCHANGED <<vars, lockVars, runVars, chainVars, companyVars, restVars>>
     \/ /\ scene = "one import" /\ ImportNext
        /\ UNCHANGED <<vars, lockVars, runVars, chainVars, companyVars, restVars>>
     \/ /\ scene = "skill" /\ RunNext /\ edits' = 0
        /\ UNCHANGED <<vars, lockVars, chainVars, companyVars, restVars>>
     \/ /\ scene = "chain" /\ ChainNext
        /\ UNCHANGED <<vars, lockVars, importVars, runVars, companyVars, restVars>>
     \/ /\ scene = "rows" /\ RowsNext
        /\ UNCHANGED <<vars, lockVars, importVars, runVars, chainVars, restVars>>
     \/ /\ scene = "nodes" /\ NodesNext
        /\ UNCHANGED <<vars, lockVars, importVars, runVars, chainVars, restVars>>
     \/ /\ scene = "table" /\ Table!TrackerNext
        /\ UNCHANGED <<vars, toolVars, contentVars, readVars, sourceVars>>
     \/ /\ scene = "numbers" /\ Numbers!TrackerNext
        /\ UNCHANGED <<vars, toolVars, contentVars, readVars, sourceVars>>
     \/ /\ scene = "writers" /\ Writers!LockNext
        /\ UNCHANGED <<vars, importVars, runVars, chainVars, companyVars, tableVars, readVars, sourceVars>>
     \/ /\ scene = "statuses" /\ Stati!StatusNext
        /\ UNCHANGED <<vars, toolVars, tableVars, contentVars, cadenceVars, unitVars, sourceVars>>
     \/ /\ scene = "cadence" /\ Followups!CadenceNext
        /\ UNCHANGED <<vars, toolVars, tableVars, contentVars, statusVars, unitVars, sourceVars>>
     \/ /\ scene = "units" /\ UnitNext
        /\ UNCHANGED <<vars, toolVars, tableVars, contentVars, statusVars, cadenceVars, sourceVars>>
     \/ /\ scene = "lookups" /\ FetchNext
        /\ UNCHANGED <<vars, toolVars, tableVars, contentVars, readVars, boardVars, addVars, assessVars>>
     \/ /\ scene = "board" /\ BoardNext
        /\ UNCHANGED <<vars, toolVars, tableVars, contentVars, readVars, fetchVars, addVars, assessVars>>
     \/ /\ scene = "entries" /\ AddNext
        /\ UNCHANGED <<vars, toolVars, tableVars, contentVars, readVars, fetchVars, boardVars, assessVars>>
     \/ /\ scene = "analysis" /\ Analyses!Revise
        /\ UNCHANGED <<vars, toolVars, tableVars, contentVars, readVars, fetchVars, boardVars, addVars>>
     \/ /\ scene = "fraud check" /\ Frauds!Recheck
        /\ UNCHANGED <<vars, toolVars, tableVars, contentVars, readVars, fetchVars, boardVars, addVars>>

MCSpec == MCInit /\ [][MCNext]_all

\* The fairness of PipelineLock and of ProviderFetch, each in its scene: waiting
\* for the lock and the callbacks of a sweep go on by themselves, the other tools
\* run on request.  The scene is a conjunct of each action, so that TLC takes one
\* conjunction of fairness conditions, and not one for every scene.
MCFairness ==
  /\ \A p \in Processes :
       /\ WF_lockVars(scene = "lock" /\ Start(p))
       /\ WF_lockVars(scene = "lock" /\ Acquire(p))
       /\ WF_lockVars(scene = "lock" /\ (VerifyOwner(p) \/ Release(p)))
  /\ WF_lockVars(scene = "lock" /\ LockAges)
  /\ WF_lockVars(scene = "lock" /\ GuardAges)
  /\ WF_fetchVars(scene = "lookups" /\ Progress)

MCFairSpec == MCSpec /\ MCFairness

\* The variables of the component that is played have their types.
ToolsTypeOK ==
  CASE scene \in {"queue", "two commands"} -> TypeOK
    [] scene = "lock" -> PipelineTypeOK
    [] scene = "writers" -> Writers!LockTypeOK
    [] scene = "two imports" -> Two!ImportTypeOK
    [] scene = "one import" -> ImportTypeOK
    [] scene = "skill" -> RunTypeOK
    [] scene = "chain" -> ChainTypeOK
    [] scene \in {"rows", "nodes"} -> CompanyTypeOK
    [] scene = "table" -> Table!TrackerTypeOK
    [] scene = "numbers" -> Numbers!TrackerTypeOK
    [] scene = "statuses" -> Stati!StatusTypeOK
    [] scene = "cadence" -> Followups!CadenceTypeOK
    [] scene = "units" -> UnitTypeOK
    [] scene = "lookups" -> FetchTypeOK
    [] scene = "board" -> BoardTypeOK
    [] scene = "entries" -> AddTypeOK
    [] scene = "analysis" -> Analyses!AssessTypeOK
    [] scene = "fraud check" -> Frauds!AssessTypeOK

\* The lock, see PipelineLock: a dead holder does not block the others.
LockIsRecovered == scene = "lock" => DeadLockIsRecovered

\* The tracker, see Tracker: a number is given out once, a merged evaluation is
\* in the table, and the table does not forget an application; nor, see
\* TrackerLock, a change that was reported.
TableIsKept ==
  /\ scene = "writers" => Writers!NoUpdateIsLost
  /\ scene = "numbers" =>
       Numbers!NumbersAreUnique /\ Numbers!EvaluationsLand /\ Numbers!ApplicationsAreKept
  /\ scene = "table" =>
       Table!NumbersAreUnique /\ Table!EvaluationsLand /\ Table!ApplicationsAreKept

\* The tracker, and what is read from it.  Statuses, see Statuses: a status reaches
\* the row it is meant for, the funnel is the history of the rows, and the sync
\* report names the file that is behind.  The cadence, see Cadence: what is due is
\* shown as due, and what the user wrote last about an application counts.
\* Reports on postings, see Assessments: a better job is not recommended less, and
\* signs of fraud add up.
UserFilesAreTrue ==
  /\ TableIsKept
  /\ scene = "statuses" =>
       Stati!StatusReachesItsRow /\ Stati!FunnelIsTrue /\ Stati!StaleIsNamed
  /\ scene = "cadence" => Followups!DueIsShown /\ Followups!LastWordCounts
  /\ scene \in {"analysis", "fraud check"} => Analyses!AssessmentsAreFair

Symmetry == Permutations(Processes)
=============================================================================
