------------------------------ MODULE Tracker ------------------------------
(***************************************************************************)
(* The table of applications, data/applications.md, and the files that     *)
(* feed it.  Workers reserve a report number, write the report and leave   *)
(* one line for the table in a file of its own; merge-tracker.mjs puts     *)
(* these lines into the table, as new rows or over the row of the posting  *)
(* they tell of, and moves the files to merged/; dedup-tracker.mjs drops   *)
(* duplicate rows, set-status.mjs writes the state of an application.      *)
(* Each of these runs under the tracker's lock and is one step here; a     *)
(* merge may stop after it has written the table.                          *)
(***************************************************************************)
EXTENDS Integers, Sequences, FiniteSets, SequencesExt

CONSTANTS
  None,
  Postings,        \* positions that are evaluated
  UrlOf, TitleOf,  \* posting -> its URL, None if its report has none, and title
  CompanyOf,       \* title -> company: a title here is the role at a company
  Alike,           \* sets of titles that roleFuzzyMatch takes for one role
  Workers,
  Scores,          \* scores given, see also Unscored and Refused
  MaxEvaluations, MaxAdds, MaxStops, MaxExpired  \* bounds of a behaviour

VARIABLES
  rows,        \* the table, in file order
  sentinels,   \* numbers with a reservation file NNN-RESERVED.md
  reports,     \* numbers with a report NNN-*.md
  workers,     \* Workers -> what the worker has reserved and written
  pending,     \* files in tracker-additions/, not merged yet
  archived,    \* files in merged/
  applied,     \* titles the user has applied for, by set-status.mjs
  adds, halts, \* rows added by others, processes that stopped
  collided,    \* a row was given the number of somebody's report
  expired      \* how often a live worker has lost its reservation

trackerVars == <<rows, sentinels, reports, workers, pending, archived,
                 applied, adds, halts, collided, expired>>

Unscored == 0   \* no score, N/A

Refused == -1   \* malformed, or marked as failed in batch-state.tsv

Titles == {TitleOf[p] : p \in Postings}

\* A row of the table; former are the reports its notes call superseded.
Row == [num : Nat, title : Titles, url : {UrlOf[p] : p \in Postings} \cup {None},
        report : Nat, score : Scores \cup {Unscored},
        status : {"Evaluated", "Applied"}, former : SUBSET Nat]

\* A file in tracker-additions/.  Its URL is read from the report it links.
Addition == [num : Nat, posting : Postings, score : Scores \cup {Unscored, Refused}]

NoWork == [phase |-> "idle", num |-> 0]

NumbersOf(table) == {table[i].num : i \in DOMAIN table}

Largest(numbers) == CHOOSE n \in numbers \cup {0} : \A m \in numbers : m <= n

\* roleFuzzyMatch, which is not even reflexive: titles of stopwords match none.
SimilarRoles(t, u) == {t, u} \in Alike

SameCompany(t, u) == CompanyOf[t] = CompanyOf[u]

-----------------------------------------------------------------------------
(* Workers *)

Occupied ==
  reports \cup sentinels \cup NumbersOf(rows)
    \cup {rows[i].report : i \in DOMAIN rows}

\* Mutant: the reservations of others are not counted.
NextUnreserved ==
  Largest(reports \cup NumbersOf(rows) \cup {rows[i].report : i \in DOMAIN rows}) + 1

NextReport == Largest(Occupied) + 1

Live == {workers[w].num : w \in {v \in Workers : workers[v].phase # "idle"}}

Reserve(w) ==
  /\ workers[w].phase = "idle"
  /\ NextReport <= MaxEvaluations + MaxAdds
  /\ workers' = [workers EXCEPT ![w] = [phase |-> "reserved", num |-> NextReport]]
  /\ sentinels' = sentinels \cup {NextReport}
  /\ UNCHANGED <<rows, reports, pending, archived, applied, adds, halts, collided, expired>>

WriteReport(w) ==
  /\ workers[w].phase = "reserved"
  /\ workers' = [workers EXCEPT ![w].phase = "reported"]
  /\ reports' = reports \cup {workers[w].num}
  /\ UNCHANGED <<rows, sentinels, pending, archived, applied, adds, halts, collided, expired>>

\* The line for the table; then the number is released, by --release and thus
\* without the token of the owner.
WriteAddition(w, p, s) ==
  /\ workers[w].phase = "reported"
  /\ Cardinality(pending \cup archived) < MaxEvaluations
  /\ pending' = pending \cup {[num |-> workers[w].num, posting |-> p, score |-> s]}
  /\ sentinels' = sentinels \ {workers[w].num}
  /\ workers' = [workers EXCEPT ![w] = NoWork]
  /\ UNCHANGED <<rows, reports, archived, applied, adds, halts, collided, expired>>

WorkerDies(w) ==
  /\ workers[w].phase # "idle"
  /\ halts < MaxStops
  /\ halts' = halts + 1
  /\ workers' = [workers EXCEPT ![w] = NoWork]
  /\ UNCHANGED <<rows, sentinels, reports, pending, archived, applied, adds, collided, expired>>

\* A reservation of four hours ago is removed, whoever still works on it: the
\* process that made it has long ended, and verify-pipeline.mjs does not ask.
Collect(n) ==
  /\ n \in sentinels
  /\ n \in Live => expired < MaxExpired
  /\ sentinels' = sentinels \ {n}
  /\ expired' = IF n \in Live THEN expired + 1 ELSE expired
  /\ UNCHANGED <<rows, reports, workers, pending, archived, applied, adds, halts, collided>>

-----------------------------------------------------------------------------
(* merge-tracker.mjs *)

UrlDiffers(r, t) == r.url # None /\ UrlOf[t.posting] # None /\ r.url # UrlOf[t.posting]

UrlBlocks(r, t) == r.url # None /\ r.url # UrlOf[t.posting]

SameUrl(r, t) == r.url # None /\ r.url = UrlOf[t.posting]

SameReport(r, t) ==
  r.report = t.num /\ ~UrlDiffers(r, t) /\ SameCompany(r.title, TitleOf[t.posting])

\* A row that was on disk is matched by its number, one of this run by its role too.
SameNumber(r, t, old) ==
  /\ r.num = t.num
  /\ ~UrlBlocks(r, t)
  /\ SameCompany(r.title, TitleOf[t.posting])
  /\ r.num \in old \/ SimilarRoles(r.title, TitleOf[t.posting])

SameRole(r, t) ==
  ~UrlBlocks(r, t) /\ SimilarRoles(r.title, TitleOf[t.posting])

\* The row an addition tells of: the first of the first rule that has any.
Match(table, t, old) ==
  LET rules == <<SelectInSeq(table, LAMBDA r : SameUrl(r, t)),
                 SelectInSeq(table, LAMBDA r : SameReport(r, t)),
                 SelectInSeq(table, LAMBDA r : SameNumber(r, t, old)),
                 SelectInSeq(table, LAMBDA r : SameRole(r, t))>>
      hits == SelectSeq(rules, LAMBDA i : i # 0)
  IN IF hits = <<>> THEN 0 ELSE Head(hits)

\* Mutant: the addition's status is written over that of the row.
UpdatedWhole(r, t) ==
  [r EXCEPT !.title = TitleOf[t.posting], !.url = UrlOf[t.posting],
            !.report = t.num, !.score = t.score, !.status = "Evaluated"]

\* Mutant: a lower score replaces the higher without a word.
UpdatedSilently(r, t) ==
  [r EXCEPT !.url = UrlOf[t.posting], !.report = t.num, !.score = t.score]

\* The row an addition leaves.  A lower score names the report it supersedes,
\* the title is replaced when the posting is surely the same.
Updated(r, t) ==
  [r EXCEPT
     !.title = IF SameUrl(r, t) \/ SameReport(r, t) THEN TitleOf[t.posting] ELSE @,
     !.url = IF UrlOf[t.posting] = None THEN @ ELSE UrlOf[t.posting],
     !.report = t.num,
     !.score = t.score,
     !.former = @ \cup IF t.score < r.score /\ r.report \notin {0, t.num}
                         THEN {r.report} ELSE {}]

NewNumber(table, t) ==
  IF t.num \notin NumbersOf(table) THEN t.num ELSE Largest(NumbersOf(table)) + 1

NewRow(table, t) ==
  [num |-> NewNumber(table, t), title |-> TitleOf[t.posting], url |-> UrlOf[t.posting],
   report |-> t.num, score |-> t.score, status |-> "Evaluated", former |-> {}]

\* The table after one addition, the table before the run had the numbers old.
Landed(table, t, old) ==
  LET i == Match(table, t, old)
  IN IF t.score = Refused THEN table
     ELSE IF i = 0 THEN Append(table, NewRow(table, t))
     ELSE IF t.score = Unscored /\ table[i].score # Unscored THEN table
     ELSE [table EXCEPT ![i] = Updated(@, t)]

ByNumber(table) == SortSeq(table, LAMBDA r, s : r.num < s.num)

InOrder == SetToSortSeq(pending, LAMBDA t, u : t.num < u.num)

Merged ==
  ByNumber(FoldLeft(LAMBDA table, t : Landed(table, t, NumbersOf(rows)), rows, InOrder))

\* A row that lost its number to another took one that a report has.
Collides(table) ==
  \E i \in DOMAIN table :
    /\ table[i].num \notin NumbersOf(rows)
    /\ table[i].num # table[i].report
    /\ table[i].num \in reports \cup Live

\* The table is written, then the files are moved one by one in their order.
Merge(moved) ==
  /\ pending # {}
  /\ rows' = Merged
  /\ collided' = (collided \/ Collides(Merged))
  /\ LET files == ToSet(SubSeq(InOrder, 1, moved))
     IN pending' = pending \ files /\ archived' = archived \cup files
  /\ halts' = IF moved < Cardinality(pending) THEN halts + 1 ELSE halts
  /\ halts' <= MaxStops
  /\ UNCHANGED <<sentinels, reports, workers, applied, adds, expired>>

-----------------------------------------------------------------------------
(* dedup-tracker.mjs, set-status.mjs and rows from elsewhere *)

SameReportIdentity(r, s) ==
  (r.report # 0 /\ r.report = s.report) \/ (r.num = s.num /\ r.title = s.title)

\* Mutant: rows with one title are duplicates, whatever became of them.
TitleMatch(r, s) == r.title = s.title

\* Rows of one opening.  An application in motion is not dropped for its title.
RoleMatch(r, s) ==
  /\ SameCompany(r.title, s.title)
  /\ \/ SameReportIdentity(r, s)
     \/ (r.title = s.title /\ {r.status, s.status} = {"Evaluated"})

\* The first row of the cluster each row falls into.
Seeds ==
  LET seed[i \in DOMAIN rows] ==
        LET earlier == {j \in 1..(i - 1) : seed[j] = j /\ RoleMatch(rows[j], rows[i])}
        IN IF earlier = {} THEN i ELSE CHOOSE j \in earlier : \A k \in earlier : j <= k
  IN seed

\* The row with the highest score, the first of them.
Keeper(cluster) ==
  CHOOSE i \in cluster : \A j \in cluster :
    rows[j].score < rows[i].score \/ (rows[j].score = rows[i].score /\ i <= j)

\* A cluster's keeper takes the notes of all and the status that went furthest.
Kept(cluster) ==
  [rows[Keeper(cluster)] EXCEPT
     !.status = IF \E j \in cluster : rows[j].status = "Applied" THEN "Applied" ELSE @,
     !.former = UNION {rows[j].former : j \in cluster}]

Clusters == {{j \in DOMAIN rows : Seeds[j] = Seeds[i]} : i \in DOMAIN rows}

Dedup ==
  /\ \E cluster \in Clusters : Cardinality(cluster) > 1
  /\ rows' = ByNumber(SetToSeq({Kept(cluster) : cluster \in Clusters}))
  /\ UNCHANGED <<sentinels, reports, workers, pending, archived, applied, adds, halts, collided, expired>>

SetStatus(i) ==
  /\ rows[i].status # "Applied"
  /\ rows' = [rows EXCEPT ![i].status = "Applied"]
  /\ applied' = applied \cup {rows[i].title}
  /\ UNCHANGED <<sentinels, reports, workers, pending, archived, adds, halts, collided, expired>>

\* The import of an opportunity, or a user, numbers a row by the rows alone.
AddRow(title) ==
  LET num == Largest(NumbersOf(rows)) + 1 IN
  /\ adds < MaxAdds
  /\ adds' = adds + 1
  /\ rows' = Append(rows, [num |-> num, title |-> title, url |-> None, report |-> 0,
                           score |-> Unscored, status |-> "Evaluated", former |-> {}])
  /\ collided' = (collided \/ num \in reports \cup Live)
  /\ UNCHANGED <<sentinels, reports, workers, pending, archived, applied, halts, expired>>

-----------------------------------------------------------------------------
TrackerInit ==
  /\ rows = <<>> /\ sentinels = {} /\ reports = {}
  /\ workers = [w \in Workers |-> NoWork]
  /\ pending = {} /\ archived = {} /\ applied = {}
  /\ adds = 0 /\ halts = 0 /\ collided = FALSE /\ expired = 0

TrackerNext ==
  \/ \E w \in Workers : Reserve(w) \/ WriteReport(w) \/ WorkerDies(w)
  \/ \E w \in Workers, p \in Postings, s \in Scores \cup {Unscored, Refused} :
       WriteAddition(w, p, s)
  \/ \E n \in sentinels : Collect(n)
  \/ \E moved \in 0..Cardinality(pending) : Merge(moved)
  \/ Dedup
  \/ \E i \in DOMAIN rows : SetStatus(i)
  \/ \E title \in Titles : AddRow(title)

TrackerSpec == TrackerInit /\ [][TrackerNext]_trackerVars

IsOf(r, title) == r.title = title \/ SimilarRoles(r.title, title)

\* Every variable has its type.
TrackerTypeOK ==
  /\ rows \in Seq(Row)
  /\ sentinels \cup reports \subseteq Nat
  /\ workers \in [Workers -> [phase : {"idle", "reserved", "reported"}, num : Nat]]
  /\ pending \cup archived \subseteq Addition
  /\ applied \subseteq Titles
  /\ collided \in BOOLEAN /\ {adds, halts, expired} \subseteq Nat

\* No two rows have one number, and no two evaluations: a report number is
\* given out once, whatever is pending, half done or was left by a dead worker.
NumbersAreUnique ==
  /\ \A i, j \in DOMAIN rows : rows[i].num = rows[j].num => i = j
  /\ expired = 0 =>
       /\ \A t, u \in pending \cup archived : t.num = u.num => t = u
       /\ \A v, w \in Workers : v # w /\ workers[v].phase # "idle"
            => workers[v].num # workers[w].num

\* An evaluation in merged/ is in the table: a row of its company and role has
\* at least its score, or names a report, its own or one as good, of which it
\* then says that it is superseded.  No report is the report of two rows.
\* Merges that stopped and were run again, re-evaluations, edits and removed
\* duplicates do not change that.
EvaluationsLand ==
  ~collided /\ expired = 0 =>
    /\ \A t \in archived : t.score > Unscored =>
         \E i \in DOMAIN rows :
           /\ IsOf(rows[i], TitleOf[t.posting])
           /\ \/ t.num = rows[i].report \/ t.score <= rows[i].score
              \/ \E u \in pending \cup archived :
                   u.num \in rows[i].former /\ t.score <= u.score
    /\ \A i, j \in DOMAIN rows :
         rows[i].report # 0 /\ rows[i].report = rows[j].report => i = j

\* Once the user has applied for a position, some row of it says so: neither
\* a later evaluation nor the removal of duplicates takes the application back.
ApplicationsAreKept ==
  ~collided /\ expired = 0 =>
    \A title \in applied :
      \E i \in DOMAIN rows : rows[i].status = "Applied" /\ IsOf(rows[i], title)
=============================================================================
