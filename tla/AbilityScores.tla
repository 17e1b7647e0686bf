--------------------------- MODULE AbilityScores ---------------------------
(***************************************************************************)
(* The ability-scoring core of the backend, for one user: every           *)
(* achievement record holds evidence; an assessment of one version of the *)
(* evidence names the ability dimensions it supports; AbilityScoringService*)
(* appends a score result to the timeline of each of those dimensions and *)
(* moves the dimension's state; a result the rules flag is examined by a   *)
(* judge, whose decision settles the result, confirms the rank and moves   *)
(* the confidence of the user's scoring profile.                           *)
(*                                                                         *)
(* Evidence contents are model values: two equal contents have the same    *)
(* hash, so <<record, content>> identifies an assessment job and its       *)
(* stored assessment.  Experience, ability and uncertainty are rebased and *)
(* replaced together by the code; `score' stands for the three of them.    *)
(* The calculator is abstracted to the facts the state machine depends on: *)
(* a gain, and the status the result would have were it no promotion:      *)
(* flagged by another rule, above the VERIFIED threshold, or below it.     *)
(***************************************************************************)
EXTENDS Integers, Sequences, FiniteSets

CONSTANTS
  Records,            \* achievement records of the user
  Evidence,           \* contents the evidence of a record can have
  Dims,               \* normalized ability dimensions
  Clients,            \* requests that can hold a judge submission open
  Verdicts,           \* what the calculator can decide about each content
  RankFloors,         \* lowest score of each of the five ranks above UNRATED
  InitialConfidence,  \* profile confidence of a new profile
  MaxConfidence,      \* upper clamp of the profile confidence
  MaxDelta,           \* largest confidence change of one judge decision
  None                \* "no open submission"

\* A gain is positive: an eligible dimension has a minimum relevance and no
\* multiplier of the calculator is 0.
Verdict ==
  [gain : Nat \ {0}, status : {"PROVISIONAL", "VERIFIED", "REVIEW_REQUIRED"}]

ASSUME VerdictsAssumption == Verdicts \in [Evidence -> SUBSET Verdict]
ASSUME FloorsAssumption == RankFloors \in [1..5 -> Nat]
ASSUME ConfidenceAssumption ==
  /\ MaxConfidence \in Nat
  /\ InitialConfidence \in 0..MaxConfidence
  /\ MaxDelta \in Nat \ {0}

VARIABLES
  extracted,  \* ability_evidence_dimensions of each stored assessment
  timeline,   \* ability_score_results of each dimension, in creation order,
              \* with the judge_assessments row of each
  ability,    \* user_ability_states
  profile,    \* ability_scoring_profiles
  replays,    \* ability_score_appeals of type EVIDENCE_CHANGED_REPLAY
  tx          \* open transactions of JudgeAssessmentService.submit

vars == <<extracted, timeline, ability, profile, replays, tx>>

-----------------------------------------------------------------------------

Rank == 0..5                 \* UNRATED, FOUNDATION, DEVELOPING, ... EXPERT
JudgedFrom == 2              \* rankOrder("DEVELOPING")
Status == {"PROVISIONAL", "VERIFIED", "REVIEW_REQUIRED", "SUPERSEDED"}
JudgeStatus == {"NONE", "PENDING", "IN_PROGRESS", "COMPLETED"}
Decision == {"PENDING", "PASS", "FAIL", "MANUAL_REVIEW"}

Result ==
  [rec : Records, content : Evidence, supersedes : Nat,
   old : Nat, new : Nat, gain : Nat, oldRank : Rank, proposed : Rank,
   status : Status, judge : JudgeStatus, decision : Decision]

AbilityState == [score : Nat, rank : Rank, version : Nat]
Profile == [confidence : 0..MaxConfidence, version : Nat]

Submission ==
  [dim : Dims, result : Nat, state : AbilityState, profile : Profile]

RankFor(score) == Cardinality({k \in 1..5 : RankFloors[k] <= score})

\* Plausible bug: the confidence is not clamped from below.
ClampAbove(n, low, high) == IF n > high THEN high ELSE n

Clamp(n, low, high) == IF n < low THEN low ELSE IF n > high THEN high ELSE n

-----------------------------------------------------------------------------
(* Queries of AbilityScoreResultRepository.                                *)

\* The result of this assessment in this dimension, whatever its status.
Existing(d, r, e) ==
  {i \in DOMAIN timeline[d] :
     timeline[d][i].rec = r /\ timeline[d][i].content = e}

\* Results that are not SUPERSEDED: of the dimension, and of one record.
Active(d) == {i \in DOMAIN timeline[d] : timeline[d][i].status # "SUPERSEDED"}

\* Plausible bug: results still under review are not looked up.
SettledOf(d, r) ==
  {i \in DOMAIN timeline[d] : timeline[d][i].rec = r
                            /\ timeline[d][i].status \in {"PROVISIONAL", "VERIFIED"}}

ActiveOf(d, r) == {i \in Active(d) : timeline[d][i].rec = r}

IsNewest(i, S) == i \in S /\ \A j \in S : j <= i

\* p is the newest active result of record r, 0 if there is none.
IsPrior(d, r, p) ==
  \/ ActiveOf(d, r) = {} /\ p = 0
  \/ IsNewest(p, ActiveOf(d, r))

-----------------------------------------------------------------------------
(* One dimension of AbilityScoringService.score, p being the prior result. *)

\* Plausible bugs: every correction is left to a replay, or none is.
AlwaysReplays(d, r, e, p) == Existing(d, r, e) = {} /\ p # 0
NeverReplays(d, r, e, p) == FALSE

\* Another record was scored after the prior result: no rebase is possible.
NeedsReplay(d, r, e, p) ==
  /\ Existing(d, r, e) = {}
  /\ p # 0
  /\ ~IsNewest(p, Active(d))

Writes(d, r, e, p) ==
  /\ d \in extracted[<<r, e>>]
  /\ Existing(d, r, e) = {}
  /\ ~NeedsReplay(d, r, e, p)

\* Plausible bug: a correction adds to the current score.
CurrentScore(d, p) == ability[d].score

\* Values the score is computed from: a correction starts from the state
\* before the result it replaces.
BaseScore(d, p) == IF p = 0 THEN ability[d].score ELSE timeline[d][p].old
BaseRank(d, p) == IF p = 0 THEN ability[d].rank ELSE timeline[d][p].oldRank

RequiresJudge(oldRank, proposed, v) ==
  \/ v.status = "REVIEW_REQUIRED"
  \/ oldRank # proposed /\ proposed >= JudgedFrom

\* JudgeAssessmentService.createIfRequired: at most one judge per result.
CreateIfRequired(res) ==
  IF res.status = "REVIEW_REQUIRED" /\ res.judge = "NONE"
  THEN [res EXCEPT !.judge = "PENDING"]
  ELSE res

NewResult(d, r, e, p, v) ==
  LET score == BaseScore(d, p) + v.gain
  IN  [rec |-> r, content |-> e, supersedes |-> p,
       old |-> BaseScore(d, p), new |-> score, gain |-> v.gain,
       oldRank |-> BaseRank(d, p), proposed |-> RankFor(score),
       status |-> IF RequiresJudge(BaseRank(d, p), RankFor(score), v)
                  THEN "REVIEW_REQUIRED" ELSE v.status,
       judge |-> "NONE", decision |-> "PENDING"]

Supersede(T, p) ==
  [i \in DOMAIN T |-> IF i = p THEN [T[i] EXCEPT !.status = "SUPERSEDED"]
                               ELSE T[i]]

\* Plausible bug: the proposed rank is taken over before the judge.
ProposedRank(d, new) == new.proposed

\* The rank moves unless the proposed one still needs a judge.
ScoredRank(d, new) ==
  IF new.status # "REVIEW_REQUIRED" \/ new.oldRank = new.proposed
  THEN new.proposed ELSE ability[d].rank

\* A row is written, and its version moves, only when a column changed.
WriteState(row, score, rank) ==
  IF score = row.score /\ rank = row.rank THEN row
  ELSE [score |-> score, rank |-> rank, version |-> row.version + 1]

ScoredTimeline(d, r, e, p, v) ==
  IF Writes(d, r, e, p)
  THEN Append(Supersede(timeline[d], p),
              CreateIfRequired(NewResult(d, r, e, p, v)))
  ELSE IF d \in extracted[<<r, e>>]
  THEN [i \in DOMAIN timeline[d] |->
          IF i \in Existing(d, r, e) THEN CreateIfRequired(timeline[d][i])
                                     ELSE timeline[d][i]]
  ELSE timeline[d]

ScoredAbility(d, r, e, p, v) ==
  IF Writes(d, r, e, p)
  THEN LET new == NewResult(d, r, e, p, v)
       IN  WriteState(ability[d], new.new, ScoredRank(d, new))
  ELSE ability[d]

-----------------------------------------------------------------------------

Init ==
  /\ extracted = [a \in Records \X Evidence |-> {}]
  /\ timeline = [d \in Dims |-> <<>>]
  /\ ability = [d \in Dims |-> [score |-> 0, rank |-> 0, version |-> 0]]
  /\ profile = [confidence |-> InitialConfidence, version |-> 0]
  /\ replays = {}
  /\ tx = [c \in Clients |-> None]

\* EvidenceAssessmentPersistenceService.saveAssessment: a first extraction
\* or, when the job is retried, one that replaces the stored dimensions.  The
\* content is the one the record had when assessRecord read it, which the
\* user may have edited since: any content can arrive at any time.
SaveAssessment(r, e, D) ==
  /\ extracted' = [extracted EXCEPT ![<<r, e>>] = D]
  /\ UNCHANGED <<timeline, ability, profile, replays, tx>>

\* AbilityScoringService.score: one transaction over all dimensions of the
\* assessment, serialised with its competitors by the state's version.
Score(r, e) ==
  /\ extracted[<<r, e>>] # {}
  /\ \E v \in [extracted[<<r, e>>] -> Verdicts[e]],
        prior \in [Dims -> {0} \cup UNION {DOMAIN timeline[d] : d \in Dims}] :
       /\ \A d \in Dims : IsPrior(d, r, prior[d])
       /\ timeline' = [d \in Dims |-> ScoredTimeline(d, r, e, prior[d], v[d])]
       /\ ability' = [d \in Dims |-> ScoredAbility(d, r, e, prior[d], v[d])]
       /\ replays' = replays \cup
            {[dim |-> d, result |-> prior[d], content |-> e] :
               d \in {x \in extracted[<<r, e>>] : NeedsReplay(x, r, e, prior[x])}}
  /\ UNCHANGED <<extracted, profile, tx>>

\* JudgeAssessmentService.start: questions are generated, whether or not the
\* result is still active.
JudgeStart(d, i) ==
  /\ timeline[d][i].judge = "PENDING"
  /\ timeline' = [timeline EXCEPT ![d][i].judge = "IN_PROGRESS"]
  /\ UNCHANGED <<extracted, ability, profile, replays, tx>>

\* JudgeAssessmentService.submit opens its transaction; its reads come from
\* this moment's snapshot while the model grades the answers.
SubmitBegin(c, d, i) ==
  /\ tx[c] = None
  /\ timeline[d][i].judge = "IN_PROGRESS"
  /\ tx' = [tx EXCEPT ![c] = [dim |-> d, result |-> i,
                              state |-> ability[d], profile |-> profile]]
  /\ UNCHANGED <<extracted, timeline, ability, profile, replays>>

ConfidenceAfter(before, decision, delta) ==
  CASE decision = "PASS" -> Clamp(before + delta, 0, MaxConfidence)
    [] decision = "FAIL" -> Clamp(before - delta, 0, MaxConfidence)
    [] OTHER -> before

\* Plausible bug: whatever is not failed is verified.
VerifiedUnlessFailed(status, decision) ==
  IF decision = "FAIL" THEN "PROVISIONAL" ELSE "VERIFIED"

SettledStatus(status, decision) ==
  CASE decision = "PASS" -> "VERIFIED"
    [] decision = "FAIL" -> "PROVISIONAL"
    [] OTHER -> status

\* Plausible bugs: rows and judges without a version column.
AnyVersion(row, read) == TRUE
AnyJudge(res) == TRUE

\* The version checks of the commit.  A judge row is only ever changed after
\* start by a submission that completes it: unchanged means IN_PROGRESS.
SameVersion(row, read) == row.version = read.version
JudgeUnchanged(res) == res.judge = "IN_PROGRESS"

\* applyOutcome and the commit.  Hibernate writes back the rows it changed,
\* all columns of them, where their version is the one that was read.
SubmitCommit(c, decision, delta) ==
  /\ tx[c] # None
  /\ LET d == tx[c].dim
         i == tx[c].result
         rank == timeline[d][i].proposed
         before == tx[c].profile.confidence
         after == ConfidenceAfter(before, decision, delta)
         movesRank == decision = "PASS" /\ rank # tx[c].state.rank
     IN  /\ JudgeUnchanged(timeline[d][i])
         /\ movesRank => SameVersion(ability[d], tx[c].state)
         /\ after # before => SameVersion(profile, tx[c].profile)
         /\ timeline' = [timeline EXCEPT
              ![d][i].judge = "COMPLETED",
              ![d][i].decision = decision,
              ![d][i].status = SettledStatus(@, decision)]
         /\ ability' = IF movesRank
              THEN [ability EXCEPT ![d] = WriteState(tx[c].state,
                                                     tx[c].state.score, rank)]
              ELSE ability
         /\ profile' = IF after # before
              THEN [confidence |-> after, version |-> tx[c].profile.version + 1]
              ELSE profile
  /\ tx' = [tx EXCEPT ![c] = None]
  /\ UNCHANGED <<extracted, replays>>

\* A failure while grading, or a version conflict at commit: the exception
\* leaves submit and the transaction rolls back, the FAILED mark with it.
SubmitAbort(c) ==
  /\ tx[c] # None
  /\ tx' = [tx EXCEPT ![c] = None]
  /\ UNCHANGED <<extracted, timeline, ability, profile, replays>>

Next ==
  \/ \E r \in Records, e \in Evidence :
       \/ \E D \in SUBSET Dims \ {{}} : SaveAssessment(r, e, D)
       \/ Score(r, e)
  \/ \E d \in Dims : \E i \in DOMAIN timeline[d] :
       \/ JudgeStart(d, i)
       \/ \E c \in Clients : SubmitBegin(c, d, i)
  \/ \E c \in Clients :
       \/ \E decision \in Decision \ {"PENDING"}, delta \in 1..MaxDelta :
            SubmitCommit(c, decision, delta)
       \/ SubmitAbort(c)

Spec == Init /\ [][Next]_vars

-----------------------------------------------------------------------------
(* Safety.                                                                 *)

\* Every variable has its type.
TypeOK ==
  /\ extracted \in [Records \X Evidence -> SUBSET Dims]
  /\ timeline \in [Dims -> Seq(Result)]
  /\ ability \in [Dims -> AbilityState]
  /\ profile \in Profile
  /\ replays \subseteq [dim : Dims, result : Nat, content : Evidence]
  /\ tx \in [Clients -> Submission \cup {None}]

\* Results no later result replaced: the ones the state is made of.
InForce(d) ==
  {i \in DOMAIN timeline[d] :
     ~ \E j \in DOMAIN timeline[d] : timeline[d][j].supersedes = i}

\* A record counts at most once in the state of an ability, however often it
\* is redelivered, re-extracted, corrected or judged: score() bases its second
\* result of a record on the values before the first.
NoDoubleCredit ==
  \A d \in Dims : \A i, j \in InForce(d) :
    timeline[d][i].rec = timeline[d][j].rec => i = j

\* The results in force form one chain: each starts from the score at which
\* the one before it ended, the first from 0, and the state of the ability
\* holds the score at which the last one ended.  No correction, and no row
\* written back by a judge from an old read, breaks the chain.
ScoreIsChained ==
  \A d \in Dims :
    /\ \A i \in InForce(d) :
         IF \E j \in InForce(d) : j < i
         THEN \E j \in InForce(d) :
                /\ IsNewest(j, {k \in InForce(d) : k < i})
                /\ timeline[d][i].old = timeline[d][j].new
         ELSE timeline[d][i].old = 0
    /\ IF timeline[d] = <<>>
       THEN ability[d].score = 0
       ELSE ability[d].score = timeline[d][Len(timeline[d])].new

\* A rank from DEVELOPING up was confirmed by a passed judge of a result that
\* proposed it: neither scoring nor a correction hands it out.
RankIsEarned ==
  \A d \in Dims :
    ability[d].rank >= JudgedFrom =>
      \E i \in DOMAIN timeline[d] :
        timeline[d][i].decision = "PASS" /\ timeline[d][i].proposed = ability[d].rank

\* A result the rules flagged is VERIFIED only after its judge passed it, and
\* never settled while its judge is still open.
FlaggedNeedsPass ==
  \A d \in Dims : \A i \in DOMAIN timeline[d] :
    LET res == timeline[d][i]
    IN  res.judge # "NONE" =>
          /\ res.status = "VERIFIED" => res.decision = "PASS"
          /\ res.status = "PROVISIONAL" => res.decision = "FAIL"

Judged(decision) ==
  UNION {{<<d, i>> : i \in {k \in DOMAIN timeline[d] :
                             timeline[d][k].decision = decision}} : d \in Dims}

\* Judges that decide at the same moment do not lose each other's update of
\* the profile confidence, and a judge submitted twice counts once: as long as
\* no decision can have met a clamp, the confidence is the sum of them all
\* (with decisions of one size, MaxDelta = 1).
ConfidenceIsAccounted ==
  LET passes == Cardinality(Judged("PASS"))
      fails == Cardinality(Judged("FAIL"))
  IN  /\ MaxDelta = 1
      /\ passes <= MaxConfidence - InitialConfidence
      /\ fails <= InitialConfidence
      => profile.confidence = InitialConfidence + passes - fails

\* A decision is final: a second submission of the same judge, in whatever
\* order the two commit, does not change it, and no scoring reopens it.
DecisionIsFinal ==
  [][\A d \in Dims : \A i \in DOMAIN timeline[d] :
       timeline[d][i].judge = "COMPLETED" =>
         /\ timeline'[d][i].judge = "COMPLETED"
         /\ timeline'[d][i].decision = timeline[d][i].decision]_vars

\* A correction is left to a replay only when a result of another record is
\* newer than the result it corrects.
ReplayIsJustified ==
  [][\A q \in replays' \ replays :
       LET T == timeline[q.dim]
       IN  \E j \in DOMAIN T : j > q.result /\ T[j].rec # T[q.result].rec]_vars

-----------------------------------------------------------------------------
(* The inductive invariant behind the safety properties: facts about one   *)
(* timeline T of an ability, and what the open submissions have read.      *)

\* The newest result is never superseded, and a record with a result has an
\* active one: a record without active results was never scored.
NewestIsActive(T) == T # <<>> => T[Len(T)].status # "SUPERSEDED"
RecordsStayActive(T) ==
  \A i \in 1..Len(T) : \E m \in 1..Len(T) :
    T[m].rec = T[i].rec /\ T[m].status # "SUPERSEDED"

\* A correction replaces the result just before it, which is of its record,
\* and all but the last of the results of a record are replaced.
ReplacesPrevious(T) ==
  \A j \in 1..Len(T) :
    T[j].supersedes # 0 => /\ T[j].supersedes = j - 1
                           /\ T[j].rec = T[j - 1].rec
ReplacedByNext(T) ==
  \A i, j \in 1..Len(T) :
    i < j /\ T[i].rec = T[j].rec => T[i + 1].supersedes = i

\* Result j starts from 0 if everything before it is replaced, otherwise from
\* the end of m, the last one before it that is not.
StartsFromZero(T, j) ==
  T[j].old = 0 /\ \A k \in 1..(j - 1) : T[k + 1].supersedes = k
StartsFrom(T, j, m) ==
  /\ T[j].old = T[m].new
  /\ T[m + 1].supersedes # m
  /\ \A k \in (m + 1)..(j - 1) : T[k + 1].supersedes = k
Chained(T) ==
  \A j \in 1..Len(T) :
    StartsFromZero(T, j) \/ \E m \in 1..(j - 1) : StartsFrom(T, j, m)

EndsAt(T, score) == score = IF T = <<>> THEN 0 ELSE T[Len(T)].new

OnlyJudgesDecide(T) ==
  \A i \in 1..Len(T) : T[i].decision # "PENDING" => T[i].judge = "COMPLETED"

TimelineInv(T, score) ==
  /\ NewestIsActive(T)
  /\ RecordsStayActive(T)
  /\ ReplacesPrevious(T)
  /\ ReplacedByNext(T)
  /\ Chained(T)
  /\ EndsAt(T, score)
  /\ OnlyJudgesDecide(T)

\* A rank needs no judge, or a result that proposed it passed one.
Earned(T, rank) ==
  rank >= JudgedFrom =>
    \E i \in 1..Len(T) : T[i].decision = "PASS" /\ T[i].proposed = rank

\* A submission holds a result of the timeline and a row that is the current
\* one as long as the version has not moved.
HasRead(sub) ==
  sub # None =>
    /\ sub.result \in DOMAIN timeline[sub.dim]
    /\ sub.state.version <= ability[sub.dim].version
    /\ sub.state.version = ability[sub.dim].version => sub.state = ability[sub.dim]

\* The inductive invariant: every timeline is a chain of results whose end is
\* the score, every rank in use is earned, and no submission has read more
\* than the tables held.
IInv ==
  /\ TypeOK
  /\ \A d \in Dims :
       /\ TimelineInv(timeline[d], ability[d].score)
       /\ Earned(timeline[d], ability[d].rank)
       /\ \A i \in DOMAIN timeline[d] : Earned(timeline[d], timeline[d][i].oldRank)
  /\ \A c \in Clients : HasRead(tx[c])

-----------------------------------------------------------------------------
(* Refinement: the timelines implement one ledger per ability.             *)

\* What record r counts in ability d: the gain of its result in force.
CreditOf(d, r) ==
  LET counted == {i \in InForce(d) : timeline[d][i].rec = r}
  IN  IF counted = {} THEN 0 ELSE timeline[d][CHOOSE i \in counted : TRUE].gain

NewestRecord(d) ==
  IF timeline[d] = <<>> THEN {} ELSE {timeline[d][Len(timeline[d])].rec}

AllGains == {v.gain : v \in UNION {Verdicts[e] : e \in Evidence}}

Ledger == INSTANCE CreditLedger WITH
  Gains <- AllGains,
  credit <- [d \in Dims |-> [r \in Records |-> CreditOf(d, r)]],
  balance <- [d \in Dims |-> ability[d].score],
  newest <- [d \in Dims |-> NewestRecord(d)]

\* Scoring, corrections, replays, judges and their races never move a score
\* otherwise than the ledger does: one credit per record, corrected only while
\* it is the newest.
ImplementsCreditLedger == Ledger!Spec

-----------------------------------------------------------------------------
(* What the documents of the repository say and the code does not keep.    *)

\* docs/Evidence_Assessment_Agent_v2.md: one record, ability and rule version
\* take effect once, so no two of their results are active together.
OneActiveResult ==
  \A d \in Dims, r \in Records : Cardinality(ActiveOf(d, r)) <= 1

\* The judge workflow confirms a pending promotion on PASS: a passed judge
\* never lowers the rank.
PassNeverDemotes ==
  [][\A c \in Clients, delta \in 1..MaxDelta :
       SubmitCommit(c, "PASS", delta) =>
         \A d \in Dims : ability'[d].rank >= ability[d].rank]_vars
=============================================================================
