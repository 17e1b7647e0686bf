----------------------------- MODULE BoardSweep -----------------------------
(***************************************************************************)
(* A provider reads the board of a company (providers/tencent.mjs,         *)
(* alibaba.mjs, meituan.mjs): for each keyword one page after the other,   *)
(* with a pause between two requests, while postings come, go and are put  *)
(* in front again.  An answer can fail, it can be empty though there are   *)
(* postings, and it can leave the total out.  A posting is known by its    *)
(* URL.                                                                    *)
(***************************************************************************)
EXTENDS Integers, Sequences, SequencesExt, FiniteSets

CONSTANTS
  Postings,
  Keywords,        \* sequence: the postings that each keyword matches
  PageSize, MaxPages,
  EmptyRetries,    \* EMPTY_RETRIES of meituan.mjs
  MaxBoardMoves,   \* bound: changes of the board during the sweep
  MaxBlips         \* bound: answers that leave out postings or the total

\* Pages hold something, and there is a keyword: without one in the configuration
\* the providers use their own.
ASSUME BoardAssumption ==
  /\ IsFiniteSet(Postings)
  /\ Keywords \in Seq(SUBSET Postings) /\ Keywords # << >>
  /\ PageSize \in Nat \ {0} /\ MaxPages \in Nat \ {0} /\ EmptyRetries \in Nat

VARIABLES
  portal,    \* whose provider reads the board
  board,     \* the postings, the one shown first in front
  sweep,     \* keyword, page, attempt and total of the loops, succeededOnce
  found,     \* seen
  ended,     \* what fetch returned: not yet, the list, or it threw
  shortened, \* history: why less was read than there was
  stayed,    \* history: postings that stayed where they were all the time
  removals, boardMoves, blips

boardVars == <<portal, board, sweep, found, ended, shortened, stayed, removals, boardMoves, blips>>

Portals == {"tencent", "alibaba", "meituan"}

\* A board, of some of the postings.
BoardInit ==
  /\ portal \in Portals
  /\ \E listed \in SUBSET Postings : board = SetToSeq(listed)
  /\ sweep = [keyword |-> 1, page |-> 1, attempt |-> 0, total |-> 0, succeeded |-> FALSE]
  /\ found = {} /\ ended = "no" /\ shortened = {} /\ stayed = ToSet(board)
  /\ removals = 0 /\ boardMoves = 0 /\ blips = 0
-----------------------------------------------------------------------------
\* The board.

BoardMoves == ended = "no" /\ boardMoves < MaxBoardMoves /\ boardMoves' = boardMoves + 1

Publish(p) ==
  /\ BoardMoves /\ p \notin ToSet(board)
  /\ board' = <<p>> \o board
  /\ UNCHANGED <<portal, sweep, found, ended, shortened, stayed, removals, blips>>

\* A posting is taken down; those after it move up.
TakeDown(i) ==
  /\ BoardMoves
  /\ board' = RemoveAt(board, i)
  /\ stayed' = stayed \ {board[i]}
  /\ removals' = removals + 1
  /\ UNCHANGED <<portal, sweep, found, ended, shortened, blips>>

\* A posting is renewed and put in front; those before it move down.
Renew(i) ==
  /\ BoardMoves /\ i # 1
  /\ board' = <<board[i]>> \o RemoveAt(board, i)
  /\ stayed' = stayed \ {board[i]}
  /\ UNCHANGED <<portal, sweep, found, ended, shortened, removals, blips>>

Matching == ToSet(board) \cap Keywords[sweep.keyword]

\* Where the posting p is among them: how many are shown up to it.
UpTo(p) ==
  {q \in Matching : \E i, j \in DOMAIN board : i <= j /\ board[i] = q /\ board[j] = p}

Position(p) == Cardinality(UpTo(p))

\* The page that is asked for.
Page ==
  {p \in Matching : (sweep.page - 1) * PageSize < Position(p) /\ Position(p) <= sweep.page * PageSize}

\* What can be wrong with an answer.  An error told with HTTP 200 and a list left
\* empty look the same to a reader that looks only at the list; a total that is
\* missing, or no number, is read as 0.
Blips ==
  {[jobs |-> {}, total |-> 0], [jobs |-> {}, total |-> Cardinality(Matching)],
   [jobs |-> Page, total |-> 0]}
-----------------------------------------------------------------------------
\* The loops.

\* The loop over the keywords goes on, or the list is returned.
NextKeyword(s) ==
  /\ sweep' = [s EXCEPT !.keyword = @ + 1, !.page = 1, !.attempt = 0, !.total = 0]
  /\ ended' = IF sweep'.keyword > Len(Keywords) THEN "list" ELSE "no"

\* The loop over the pages goes on, up to max_pages.
NextPage(s) ==
  IF s.page < MaxPages
  THEN /\ sweep' = [s EXCEPT !.page = @ + 1, !.attempt = 0]
       /\ UNCHANGED <<ended, shortened>>
  ELSE NextKeyword(s) /\ shortened' = shortened \cup {"cap"}

\* Why a keyword that ends with this answer is read in part: there were postings on
\* the page, or there are more, and the answer did not say how many.
CutShort(s, answer) ==
  IF answer.jobs = {} THEN IF Page = {} THEN {} ELSE {"empty"}
  ELSE IF answer.total = 0 /\ s.page * PageSize < Cardinality(Matching) THEN {"total"} ELSE {}

\* No page any more.
LastPage(s, answer) ==
  /\ NextKeyword(s)
  /\ shortened' = shortened \cup CutShort(s, answer)

\* Plausible bug: the page after the last one is not asked for when it is full.
SkipsLast(answer) ==
  LET s == [sweep EXCEPT !.succeeded = TRUE]
  IN  /\ found' = found \cup answer.jobs
      /\ IF answer.jobs = {} \/ (s.page + 1) * PageSize >= answer.total
         THEN LastPage(s, answer) ELSE NextPage(s)

\* fetch of tencent.mjs and alibaba.mjs: an empty page is the end of the keyword,
\* and so is one that reaches the total of this answer, also when none was told.
ReadPage(answer) ==
  LET s == [sweep EXCEPT !.succeeded = TRUE]
  IN  /\ found' = found \cup answer.jobs
      /\ IF answer.jobs = {} \/ s.page * PageSize >= answer.total
         THEN LastPage(s, answer) ELSE NextPage(s)

\* Plausible bug: the first empty page is the end.
TriesOnce(total) == TRUE

\* An empty page is past the end, or it was asked for often enough.
GivesUp(total) ==
  (total > 0 /\ (sweep.page - 1) * PageSize >= total) \/ sweep.attempt = EmptyRetries

\* fetch of meituan.mjs: the total is the last one told for the keyword.
ReadPatiently(answer) ==
  LET total == IF answer.total > 0 THEN answer.total ELSE sweep.total
      s == [sweep EXCEPT !.succeeded = TRUE, !.total = total]
  IN  /\ found' = found \cup answer.jobs
      /\ IF answer.jobs = {}
         THEN IF GivesUp(total) THEN LastPage(s, answer)
              ELSE sweep' = [s EXCEPT !.attempt = @ + 1] /\ UNCHANGED <<ended, shortened>>
         ELSE IF total > 0 /\ s.page * PageSize >= total
              THEN LastPage(s, answer) ELSE NextPage(s)

ReadAnswer(answer) == IF portal = "meituan" THEN ReadPatiently(answer) ELSE ReadPage(answer)

\* The request throws, or alibaba.mjs sees the error in the answer.  Before the
\* first answer the board is dead, later what was found is kept.
Fail ==
  /\ ended' = IF sweep.succeeded THEN "list" ELSE "thrown"
  /\ shortened' = shortened \cup {"failure"}
  /\ UNCHANGED <<sweep, found>>

Answer ==
  /\ ended = "no"
  /\ \/ ReadAnswer([jobs |-> Page, total |-> Cardinality(Matching)]) /\ UNCHANGED blips
     \/ Fail /\ UNCHANGED blips
     \/ /\ Page # {} /\ blips < MaxBlips /\ blips' = blips + 1
        /\ \E answer \in Blips : ReadAnswer(answer)
  /\ UNCHANGED <<portal, board, stayed, removals, boardMoves>>

BoardNext ==
  \/ \E p \in Postings : Publish(p)
  \/ \E i \in DOMAIN board : TakeDown(i) \/ Renew(i)
  \/ Answer

BoardSpec == BoardInit /\ [][BoardNext]_boardVars
-----------------------------------------------------------------------------

\* Every variable has its type.
BoardTypeOK ==
  /\ portal \in Portals
  /\ IsInjective(board) /\ ToSet(board) \cup found \cup stayed \subseteq Postings
  /\ sweep.page \in 1 .. MaxPages /\ sweep.attempt \in 0 .. EmptyRetries
  /\ ended \in {"no", "list", "thrown"}
  /\ shortened \subseteq {"cap", "empty", "total", "failure"}

Wanted == UNION {Keywords[k] : k \in DOMAIN Keywords}

\* What excuses a posting that is missing.  The board that is known to answer
\* empty now and then is asked again, so two such answers are no excuse.
Excuses ==
  IF portal = "meituan" /\ blips <= EmptyRetries THEN shortened \ {"empty"} ELSE shortened

\* A sweep that was not cut short misses a posting that stayed on the board only
\* because another was taken down, and never more than were taken down: a page
\* that was read before is not read again.
MissesAreBounded ==
  ended = "list" /\ Excuses = {} => Cardinality((stayed \cap Wanted) \ found) <= removals

\* A board that answers nothing reads as a failure, and nothing else does; a
\* failure in the middle keeps what was found.
DeadIsTold ==
  /\ ended = "thrown" => found = {} /\ ~sweep.succeeded
  /\ ended = "list" => sweep.succeeded

\* What a sweep promises, see fetch of the providers: no posting is missed without
\* an excuse, and a board that cannot be read is told as an error.
SweepIsTrue == MissesAreBounded /\ DeadIsTold
=============================================================================
