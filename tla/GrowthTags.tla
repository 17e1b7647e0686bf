------------------------------ MODULE GrowthTags ------------------------------
(***************************************************************************)
(* The growth tags of one student and the evidences they rest on:          *)
(* GrowthTagService and its listener.  An extraction puts the candidates   *)
(* of one achievement record in place of those it had, a rebuild makes     *)
(* everything again, and the student marks milestones by hand.             *)
(*                                                                         *)
(* A transaction reads a snapshot, asks a model for candidates, for many   *)
(* seconds, and commits the rows it changed as it computed them from the   *)
(* snapshot.  Messages come late, again and in any order.                  *)
(***************************************************************************)
EXTENDS Naturals, FiniteSets, FiniteSetsExt

CONSTANTS
  None,
  Workers,  \* threads of listeners and requests
  Names,    \* normalized names of tags
  Records,  \* achievement records
  Candidates, \* what one experience may say of the tags, from the model or rules:
              \* functions from names to a score and whether it is a milestone
  MaxWork   \* bound

VARIABLES
  tags,       \* growth_tags by name
  evidences,  \* growth_tag_evidences by tag and record
  work,       \* the transaction of each worker
  worked,     \* transactions begun
  overlapped  \* transactions overlapped since the last rebuild that was alone

tagVars == <<tags, evidences, work, worked, overlapped>>

Keys == Names \X Records

Finding == [delta : 3..10, milestone : BOOLEAN]

EvidenceRow == [born : 0..MaxWork, delta : 3..10, milestone : BOOLEAN]

TagsInit ==
  /\ tags = [n \in Names |-> None]
  /\ evidences = [k \in Keys |-> None]
  /\ work = [w \in Workers |-> None]
  /\ worked = 0 /\ overlapped = FALSE

Under(rows, n) == {k \in Keys : k[1] = n /\ rows[k] # None}

\* The page shows three digits.
Shown(points) == IF points > 999 THEN 999 ELSE points

Score(mine) == Shown(MapThenSumSet(LAMBDA k : mine[k].delta, DOMAIN mine))

Importance(mine) ==
  Shown(MapThenSumSet(LAMBDA k : 10 + mine[k].delta, {k \in DOMAIN mine : mine[k].milestone}))

\* The row of a tag with these evidences; born tells it from a later one of the
\* same name.
Aggregate(mine, born) ==
  [born |-> born, evidenceCount |-> Cardinality(DOMAIN mine),
   score |-> Score(mine), importanceScore |-> Importance(mine)]

\* The rows that a tag can have.
TagRow ==
  LET sets == UNION {SUBSET ({n} \X Records) : n \in Names}
  IN  {Aggregate(mine, born) : mine \in UNION {[set -> EvidenceRow] : set \in sets},
                               born \in 0..MaxWork}

\* The aggregate follows from the evidences; a tag without any is deleted.
RefreshAggregate(rows, n, born) ==
  LET keys == Under(rows, n)
  IN  IF keys = {} THEN None ELSE Aggregate([k \in keys |-> rows[k]], born)

\* A milestone stays one, whatever a later extraction finds.
Evidence(old, found, born) ==
  [born |-> IF old = None THEN born ELSE old.born, delta |-> found.delta,
   milestone |-> found.milestone \/ (old # None /\ old.milestone)]

\* Plausible bug: the tags a record no longer speaks of are not refreshed.
OnlyFound(s, record, found) == DOMAIN found

Affected(s, record, found) ==
  DOMAIN found \cup {n \in Names : s.evidences[n, record] # None}

UpsertFromRecord(s, record, found, born) ==
  LET rows == [k \in Keys |->
                 IF k[2] # record THEN s.evidences[k]
                 ELSE IF k[1] \in DOMAIN found THEN Evidence(s.evidences[k], found[k[1]], born)
                 ELSE None]
  IN  [evidences |-> rows,
       tags |-> [n \in Names |->
         IF n \notin Affected(s, record, found) THEN s.tags[n]
         ELSE RefreshAggregate(rows, n, IF s.tags[n] = None THEN born ELSE s.tags[n].born)]]

\* What a rebuild makes of nothing, one record after the other; they share no
\* evidence, and each tag is refreshed after its last one.
MadeAgain(found, born) ==
  [k \in Keys |-> IF k[1] \in DOMAIN found[k[2]] THEN Evidence(None, found[k[2]][k[1]], born)
                  ELSE None]

\* Plausible bug: a rebuild leaves the tags that nothing speaks of.
TagsStay(found, born) ==
  LET rows == MadeAgain(found, born)
  IN  [evidences |-> rows,
       tags |-> [n \in Names |-> IF Under(rows, n) = {} THEN tags[n]
                                 ELSE RefreshAggregate(rows, n, born)]]

Rebuilt(found, born) ==
  LET rows == MadeAgain(found, born)
  IN  [evidences |-> rows, tags |-> [n \in Names |-> RefreshAggregate(rows, n, born)]]

\* The student marks an evidence, or takes the mark away.
Marked(s, k, milestone) ==
  LET rows == [s.evidences EXCEPT ![k].milestone = milestone]
  IN  [evidences |-> rows,
       tags |-> [n \in Names |-> IF n = k[1] THEN RefreshAggregate(rows, n, s.tags[n].born)
                                 ELSE s.tags[n]]]
-----------------------------------------------------------------------------
Current == [tags |-> tags, evidences |-> evidences]

\* A transaction begins, and what it makes of its snapshot is settled.
Begin(w, op, made) ==
  LET busy == {v \in Workers : work[v] # None}
  IN  /\ work[w] = None /\ worked < MaxWork
      /\ worked' = worked + 1
      /\ work' = [v \in Workers |->
           IF v = w THEN [op |-> op, read |-> Current, made |-> made, alone |-> busy = {}]
           ELSE IF work[v] = None THEN None ELSE [work[v] EXCEPT !.alone = FALSE]]
      /\ overlapped' = (overlapped \/ busy # {})
      /\ UNCHANGED <<tags, evidences>>

BeginExtraction(w, record, found) ==
  Begin(w, "extract", UpsertFromRecord(Current, record, found, worked))

\* All records.
Rebuild(w, found) == Begin(w, "rebuild", Rebuilt(found, worked))

MarkMilestone(w, k, milestone) ==
  /\ evidences[k] # None
  /\ Begin(w, "mark", Marked(Current, k, milestone))

Same(row, read) ==
  IF row = None \/ read = None THEN row = read ELSE row.born = read.born

\* The database takes the rows that were changed: a row to change must still be
\* there, a key to insert must be free, a tag to delete have no other evidences
\* and the tag of a new evidence exist.
Accepted(read, made) ==
  /\ \A n \in Names : made.tags[n] # read.tags[n] =>
       /\ Same(tags[n], read.tags[n])
       /\ ~Same(made.tags[n], read.tags[n]) => Under(evidences, n) \subseteq Under(read.evidences, n)
  /\ \A k \in Keys : made.evidences[k] # read.evidences[k] =>
       Same(evidences[k], read.evidences[k]) /\ Same(tags[k[1]], read.tags[k[1]])

Commit(w) ==
  /\ work[w] # None /\ Accepted(work[w].read, work[w].made)
  /\ LET read == work[w].read
         made == work[w].made
     IN  /\ tags' = [n \in Names |-> IF made.tags[n] = read.tags[n] THEN tags[n] ELSE made.tags[n]]
         /\ evidences' = [k \in Keys |-> IF made.evidences[k] = read.evidences[k]
                                         THEN evidences[k] ELSE made.evidences[k]]
  /\ overlapped' = (overlapped /\ ~(work[w].op = "rebuild" /\ work[w].alone))
  /\ work' = [work EXCEPT ![w] = None]
  /\ UNCHANGED worked

\* Refused by the database or failed on its way: nothing is written.
RollBack(w) ==
  /\ work[w] # None
  /\ work' = [work EXCEPT ![w] = None]
  /\ UNCHANGED <<tags, evidences, worked, overlapped>>

TagsNext ==
  \E w \in Workers :
    \/ \E record \in Records, found \in Candidates : BeginExtraction(w, record, found)
    \/ \E found \in [Records -> Candidates] : Rebuild(w, found)
    \/ \E k \in Keys, milestone \in BOOLEAN : MarkMilestone(w, k, milestone)
    \/ Commit(w) \/ RollBack(w)
-----------------------------------------------------------------------------
\* Every variable has its type.
TagsTypeOK ==
  /\ evidences \in [Keys -> EvidenceRow \cup {None}]
  /\ \A n \in Names : tags[n] # None =>
       tags[n].born \in 0..MaxWork /\ tags[n].evidenceCount \in 1..Cardinality(Records)
  /\ worked \in 0..MaxWork /\ overlapped \in BOOLEAN

\* However extractions, marks and rebuilds overlap, no evidence is without its
\* tag; and what the page shows of a tag, its score, evidences and importance, is
\* what its evidences add up to, and no tag is left without evidence, unless
\* transactions overlapped and no rebuild ran alone since.
TagsAddUp ==
  \A n \in Names :
    IF tags[n] = None THEN Under(evidences, n) = {}
    ELSE overlapped \/ tags[n] = RefreshAggregate(evidences, n, tags[n].born)
=============================================================================
