------------------------------ MODULE Statuses ------------------------------
(***************************************************************************)
(* What the tools make of the status of an application.  set-status.mjs    *)
(* and invite-match.mjs write it into the table, the former with a line in *)
(* the ledger beside it, normalize-statuses.mjs puts aliases right, and    *)
(* the user edits the table, and the log of interviews, by hand.           *)
(* stats.mjs reads table and ledger, tracker-sync-check.mjs compares the   *)
(* table with the log.  A write of the table runs under its lock and is    *)
(* one step; invite-match decides before set-status takes that lock.       *)
(***************************************************************************)
EXTENDS Integers, FiniteSets, FiniteSetsExt

CONSTANTS
  None,
  Applications,
  CompanyOf, RoleOf,   \* application -> company, title
  Akin,                \* sets of company names that share a word
  ReportOf,            \* application -> number of its report, None if unreported
  MaxSteps             \* bound of a behaviour

VARIABLES
  stage,    \* Applications -> how far it has really come
  sheet,    \* the rows of applications.md
  ledger,   \* the lines of status-log.tsv
  log,      \* Applications -> row in active-interviews.md, or None
  reply,    \* a rejection that invite-match has read but not applied, or None
  freed,    \* numbers of rows that have been removed
  mistaken, \* a status reached another row though the one meant was there
  steps

statusVars == <<stage, sheet, ledger, log, reply, freed, mistaken, steps>>

\* The states of states.yml that the behaviours here pass through.
States == {"applied", "interview", "signed", "offer", "rejected", "discarded"}

\* The states an application can come to from each.
After == [s \in States |->
            CASE s = "applied" -> States \ {"applied"}
              [] s = "interview" -> {"signed", "offer", "rejected", "discarded"}
              [] s = "offer" -> {"signed", "discarded"}
              [] s = "signed" -> {"discarded"}
              [] OTHER -> {}]

Later(s, t) == t \in After[s]

\* A row of the table.  held, gap and foreign are history: the states the row
\* has had, whether the ledger missed one, whether it got another's status.
Row == [num : Nat, app : Applications, report : Nat \cup {None}, state : States,
        alias : BOOLEAN, held : SUBSET States, gap : BOOLEAN, foreign : BOOLEAN]

\* A line of the ledger; an alias is written as it stood in the table.
Line == [num : Nat, from : States \cup {"alias"}, to : States]

\* A row of the interview log; ref is the number its Notes cite, if any.
LogRow == [ref : Nat \cup {None}, state : States]

RowsOf(a) == {r \in sheet : r.app = a}

Largest(numbers) == Max(numbers \cup {0})

----------------------------------------------------------------------------
(* Reading: companies, selectors, the funnel, the sync report.             *)

\* roleFuzzyMatch and the equality of titles beside it.
SameRole(a, b) == RoleOf[a] = RoleOf[b]

\* companySimilarity of two normalized names: 2 if they are one, 1 if they share a word.
CompanySimilarity(a, b) ==
  IF CompanyOf[a] = CompanyOf[b] THEN 2
  ELSE IF {CompanyOf[a], CompanyOf[b]} \in Akin THEN 1 ELSE 0

\* The rows the selector of set-status names when application a is meant.
Named(how, a) ==
  CASE how = "company" -> {r \in sheet : CompanyOf[r.app] = CompanyOf[a]}
    [] how = "report" -> {r \in sheet : ReportOf[a] # None /\ r.report = ReportOf[a]}
    [] how = "number" -> {r \in sheet : r.num = ReportOf[a]}

\* Mutant of ResolveCandidates: the first of several rows is taken.
FirstCandidate(matches, a, withRole) ==
  IF matches = {} THEN {} ELSE {CHOOSE r \in matches : \A o \in matches : r.num <= o.num}

\* resolveCandidates: several rows are narrowed by --role or refused.
ResolveCandidates(matches, a, withRole) ==
  LET narrowed == {r \in matches : SameRole(r.app, a)}
  IN  IF Cardinality(matches) > 1 /\ withRole /\ Cardinality(narrowed) = 1
      THEN narrowed
      ELSE IF Cardinality(matches) = 1 THEN matches ELSE {}

\* A bare number may be a report's: the row must not contradict that reading.
NumberIsClear(r) ==
  IF r.report # None THEN r.report = r.num
  ELSE \A other \in sheet \ {r} : other.report # r.num

\* selectApplyTarget for the row to reject: the one the user confirms by --id
\* among the candidates, else the only one, if its company is exactly the mail's
\* and the refusal is phrased strongly.
SelectApplyTarget(a, id, strong) ==
  LET candidates == {r \in sheet : CompanySimilarity(a, r.app) > 0}
  IN  {r \in candidates :
         IF id # None THEN r.num = id
         ELSE Cardinality(candidates) = 1 /\ CompanySimilarity(a, r.app) = 2 /\ strong}

\* STAGE_RANK of stats.mjs, with Applied alone for a rejection.
StageRank(s) ==
  CASE s = "applied" -> 1 [] s = "interview" -> 3 [] s = "offer" -> 4 [] OTHER -> 0

SnapshotRank(s) == IF s = "rejected" THEN 1 ELSE StageRank(s)

\* Mutant of Reached: the state a change came from is left out.
ReachedByTarget(r) ==
  Max({SnapshotRank(r.state)} \cup {StageRank(e.to) : e \in {e \in ledger : e.num = r.num}})

\* computeFunnelWithHistory: the furthest stage of a row, by row and ledger.
Reached(r) ==
  Max({SnapshotRank(r.state)} \cup
      UNION {{StageRank(e.from), StageRank(e.to)} : e \in {e \in ledger : e.num = r.num}})

\* computeFunnel and computeFunnelWithHistory: how many ever came as far as rank k.
EverBySnapshot(k) == Cardinality({r \in sheet : SnapshotRank(r.state) >= k})

EverByLedger(k) == Cardinality({r.num : r \in {r \in sheet : Reached(r) >= k}})

\* loadLifecycle: the order of the states that are not terminal in states.yml.
LifecycleOrder == [s \in {"applied", "interview", "signed"} |->
                     CASE s = "applied" -> 1 [] s = "interview" -> 3 [] s = "signed" -> 4]

Terminal(s) == s \in {"offer", "rejected", "discarded"}

\* Mutant of CompareLifecycle: a terminal state comes before the others.
TerminalFirst(a, b) ==
  IF a = b THEN 0
  ELSE IF Terminal(a) THEN -1
  ELSE IF Terminal(b) THEN 1
  ELSE IF {a, b} \subseteq DOMAIN LifecycleOrder
       THEN IF LifecycleOrder[a] > LifecycleOrder[b] THEN 1 ELSE -1
       ELSE None

\* compareLifecycle: 1 if a is the later one, -1 if b is, 0 if they are one
\* state, None if neither can be said to be the later one.
CompareLifecycle(a, b) ==
  IF a = b THEN 0
  ELSE IF Terminal(a) /\ Terminal(b) THEN None
  ELSE IF Terminal(a) THEN 1
  ELSE IF Terminal(b) THEN -1
  ELSE IF {a, b} \subseteq DOMAIN LifecycleOrder
       THEN IF LifecycleOrder[a] > LifecycleOrder[b] THEN 1 ELSE -1
       ELSE None

\* matchInterviewRow: by the number the notes cite, else by company and role
\* when these name a single row.
MatchInterviewRow(a) ==
  LET byRef == {r \in sheet : r.num = log[a].ref}
      byName == {r \in sheet : CompanySimilarity(a, r.app) > 0 /\ SameRole(a, r.app)}
      found == IF log[a].ref # None THEN byRef ELSE byName
  IN  IF Cardinality(found) = 1 THEN found ELSE {}

\* The entry of buildSyncReport for the log row of a and the table row r.  The
\* aliases it knows are not those of states.yml: such a cell stays unread.
Verdict(a, r) ==
  LET read == IF r.alias THEN "unread" ELSE r.state
      cmp == CompareLifecycle(read, log[a].state)
  IN  CASE cmp = 0 -> [resolution |-> "matched", stale |-> None, suggested |-> None]
        [] cmp = 1 -> [resolution |-> "tier1", stale |-> "log", suggested |-> read]
        [] cmp = -1 -> [resolution |-> "tier1", stale |-> "sheet", suggested |-> log[a].state]
        [] OTHER -> [resolution |-> "tier2", stale |-> None, suggested |-> None]

----------------------------------------------------------------------------
(* Steps.                                                                   *)

StatusInit ==
  /\ stage = [a \in Applications |-> "applied"]
  /\ sheet = {} /\ ledger = {}
  /\ log = [a \in Applications |-> None]
  /\ reply = None
  /\ freed = {}
  /\ mistaken = FALSE
  /\ steps = 0

\* A step of the bounded behaviour.
Counted == steps < MaxSteps /\ steps' = steps + 1

\* The company answers, or the applicant decides.
Happens(a) ==
  /\ Counted
  /\ \E s \in After[stage[a]] : stage' = [stage EXCEPT ![a] = s]
  /\ UNCHANGED <<sheet, ledger, log, reply, freed, mistaken>>

\* A row for an application: an evaluated one takes the number of its report, if
\* that is free; the state is the one the user gives.
AddRow(a) ==
  LET numbers == {r.num : r \in sheet}
      num == IF ReportOf[a] # None /\ ReportOf[a] \notin numbers
             THEN ReportOf[a] ELSE Largest(numbers) + 1
  IN  /\ Counted
      /\ RowsOf(a) = {}
      /\ sheet' = sheet \cup {[num |-> num, app |-> a, report |-> ReportOf[a],
                               state |-> stage[a], alias |-> FALSE, held |-> {stage[a]},
                               gap |-> FALSE, foreign |-> FALSE]}
      /\ UNCHANGED <<stage, ledger, log, reply, freed, mistaken>>

\* A row is taken out, by dedup-tracker or by hand; its ledger lines stay.
RemoveRow(r) ==
  /\ Counted
  /\ sheet' = sheet \ {r}
  /\ freed' = freed \cup {r.num}
  /\ UNCHANGED <<stage, ledger, log, reply, mistaken>>

\* The locked part of set-status: the cell, and the line in the ledger, which
\* may fail alone.  meant is the application the caller has in mind.
WriteStatus(r, s, meant, logged) ==
  LET changed == r.state # s \/ r.alias
      old == IF r.alias THEN "alias" ELSE r.state
      line == [num |-> r.num, from |-> old, to |-> s]
  IN  /\ sheet' = (sheet \ {r}) \cup
           {[r EXCEPT !.state = s, !.alias = FALSE, !.held = @ \cup {s},
                      !.gap = @ \/ (changed /\ ~logged) \/ r.alias,
                      !.foreign = @ \/ r.app # meant]}
      /\ ledger' = IF changed /\ logged THEN ledger \cup {line} ELSE ledger

\* set-status for application a, to the state the user knows it is in.
SetStatus(a, how, withRole, logged) ==
  /\ Counted
  /\ \E r \in ResolveCandidates(Named(how, a), a, withRole) :
       /\ how = "number" => NumberIsClear(r)
       /\ withRole => SameRole(r.app, a)
       /\ WriteStatus(r, stage[a], a, logged)
       /\ mistaken' = (mistaken \/ (r.app # a /\ RowsOf(a) # {}))
  /\ UNCHANGED <<stage, log, reply, freed>>

\* The user edits the cell, in the words of states.yml or an alias of theirs.
EditByHand(r, alias) ==
  /\ Counted
  /\ r.state # stage[r.app] \/ r.alias # alias
  /\ sheet' = (sheet \ {r}) \cup
       {[r EXCEPT !.state = stage[r.app], !.alias = alias, !.held = @ \cup {stage[r.app]},
                  !.gap = @ \/ r.state # stage[r.app], !.foreign = FALSE]}
  /\ UNCHANGED <<stage, ledger, log, reply, freed, mistaken>>

\* normalize-statuses: every cell it can read in the label of its state.
NormalizeStatuses ==
  /\ Counted
  /\ \E r \in sheet : r.alias
  /\ sheet' = {[r EXCEPT !.alias = FALSE] : r \in sheet}
  /\ UNCHANGED <<stage, ledger, log, reply, freed, mistaken>>

\* The user notes, from the first interview on, how the application stands, and
\* may cite its row.  The log has no word for a signed offer.
LogInterview(a, cite) ==
  /\ Counted
  /\ stage[a] \in {"interview", "offer", "rejected", "discarded"}
  /\ log[a] = None => stage[a] = "interview"
  /\ \E ref \in IF log[a] # None THEN {log[a].ref}
                ELSE IF cite THEN {r.num : r \in RowsOf(a)} ELSE {None} :
       log' = [log EXCEPT ![a] = [ref |-> ref, state |-> stage[a]]]
  /\ UNCHANGED <<stage, sheet, ledger, reply, freed, mistaken>>

\* invite-match --apply reads the mail and the table, without the lock.
AnalyzeInvite(a, id, strong) ==
  /\ Counted
  /\ reply = None
  /\ stage[a] = "rejected"
  /\ id # None => id \in {r.num : r \in RowsOf(a)}
  /\ \E r \in SelectApplyTarget(a, id, strong) :
       reply' = [app |-> a, num |-> r.num, listed |-> RowsOf(a) # {}]
  /\ UNCHANGED <<stage, sheet, ledger, log, freed, mistaken>>

\* It starts set-status with the bare number it has chosen.
ApplyRejectionStatus(logged) ==
  /\ Counted
  /\ reply # None
  /\ LET found == ResolveCandidates({r \in sheet : r.num = reply.num}, reply.app, FALSE)
     IN  IF \E r \in found : NumberIsClear(r)
         THEN \E r \in found :
                /\ WriteStatus(r, "rejected", reply.app, logged)
                /\ mistaken' = (mistaken \/ (r.app # reply.app /\ reply.listed
                                             /\ RowsOf(reply.app) # {} /\ r.num \notin freed))
         ELSE UNCHANGED <<sheet, ledger, mistaken>>
  /\ reply' = None
  /\ UNCHANGED <<stage, log, freed>>

StatusNext ==
  \/ \E a \in Applications :
       \/ Happens(a) \/ AddRow(a)
       \/ \E how \in {"company", "report", "number"}, withRole, logged \in BOOLEAN :
            SetStatus(a, how, withRole, logged)
       \/ \E cite \in BOOLEAN : LogInterview(a, cite)
       \/ \E id \in {None} \cup {r.num : r \in sheet}, strong \in BOOLEAN :
            AnalyzeInvite(a, id, strong)
  \/ \E r \in sheet : RemoveRow(r) \/ \E alias \in BOOLEAN : EditByHand(r, alias)
  \/ NormalizeStatuses
  \/ \E logged \in BOOLEAN : ApplyRejectionStatus(logged)

----------------------------------------------------------------------------
(* Properties.                                                              *)

StatusTypeOK ==
  /\ stage \in [Applications -> States]
  /\ sheet \subseteq Row
  /\ ledger \subseteq Line
  /\ log \in [Applications -> LogRow \cup {None}]
  /\ reply \in [app : Applications, num : Nat, listed : BOOLEAN] \cup {None}
  /\ freed \subseteq Nat
  /\ mistaken \in BOOLEAN
  /\ steps \in 0 .. MaxSteps

\* A status written by set-status, however its row was selected, or by
\* invite-match, whose choice is older than the table it is applied to, reaches
\* another row than the one meant only if the one meant was not in the table, or
\* the number chosen has been given to another row.
StatusReachesItsRow == ~mistaken

\* The funnel of stats.mjs is the history of the rows: no row is said to have
\* come further than it ever was, the ledger proves every stage of a row whose
\* changes all went through it, and the two ways to count agree on the present.
\* Rows that took over the number of a removed one inherit its ledger lines.
FunnelIsTrue ==
  /\ \A r \in sheet \ {r \in sheet : r.num \in freed} :
       LET furthest == Max({SnapshotRank(r.state)} \cup {StageRank(s) : s \in r.held})
       IN  /\ Reached(r) <= furthest
           /\ ~r.gap => Reached(r) = furthest
  /\ \A k \in {1, 3, 4} : EverBySnapshot(k) <= EverByLedger(k)

\* The sync report pairs an interview with its own row while that is in the
\* table, names the file whose record is the older one, and suggests the state
\* the other has: for records that follow the application one after the other,
\* in the words the report reads, and but for Signed, which it takes for earlier
\* than the offer it accepts.
StaleIsNamed ==
  \A a \in {a \in Applications : log[a] # None /\ log[a].ref \notin freed} :
    \A r \in MatchInterviewRow(a) :
      LET v == Verdict(a, r)
      IN  /\ RowsOf(a) # {} => r.app = a
          /\ r.app = a /\ ~r.foreign /\ ~r.alias /\ r.state # "signed" =>
               /\ v.stale = "sheet" => Later(r.state, log[a].state) /\ v.suggested = log[a].state
               /\ v.stale = "log" => Later(log[a].state, r.state) /\ v.suggested = r.state
               /\ v.resolution = "matched" => r.state = log[a].state
=============================================================================
