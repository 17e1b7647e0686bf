---------------------------- MODULE Assessments ----------------------------
(***************************************************************************)
(* What the tools calculate of an analysis of a job (job-analysis.mjs) and *)
(* of the signs that a posting is a fraud (scam-check.mjs), while the user *)
(* and the agent revise them.  The numbers are exact, in ten-thousandths   *)
(* of a match and in thousandths of a recommendation; the sums that doubles*)
(* get wrong are listed.                                                   *)
(***************************************************************************)
EXTENDS Integers, FiniteSets, Sequences, SequencesExt

CONSTANTS
  MaxMustHaves,  \* bound
  Levels         \* in halves: 0, 1 and 2

VARIABLES job, check

assessVars == <<job, check>>

\* canonicalizeRequirements, canonicalizeEvaluation and canonicalizeRedFlags.
Requirement == [level : Levels, threshold : BOOLEAN]

Evaluation == [trajectory : Levels, risk : Levels, pay : Levels, cost : Levels]

Plain(level) == [level |-> level, threshold |-> FALSE]

\* Two types for each severity; what a posting is known by.
SeverityOf ==
  [s \in {"pre_job_fee", "training_loan", "agency_dispatch", "stale_posting"} |->
     IF s \in {"pre_job_fee", "training_loan"} THEN "red" ELSE "yellow"]

SourceTypes == {"jd", "company_page", "job_board", "third_party", "hr_chat"}

Corroborating == {"company_page", "job_board", "third_party"}

AssessInit ==
  /\ \E must \in Requirement, other \in Levels, e \in Evaluation :
       job = [mustHave |-> <<must>>, niceToHave |-> <<Plain(other)>>,
              hiddenSignals |-> <<Plain(other)>>, evaluation |-> e, redLine |-> FALSE]
  /\ check = [signals |-> {}, evidence |-> {"hr_chat"}]
-----------------------------------------------------------------------------
\* The match.

LevelSum(items) == FoldLeft(LAMBDA sum, item : sum + item.level, 0, items)

\* roundScore of weight times the average, of the three, in ten-thousandths.
RawMatch(j) ==
  LET m == Len(j.mustHave)
      n == Len(j.niceToHave)
      h == Len(j.hiddenSignals)
      all == 2 * m * n * h
      sum == 6000 * LevelSum(j.mustHave) * n * h + 2000 * LevelSum(j.niceToHave) * m * h
             + 2000 * LevelSum(j.hiddenSignals) * m * n
  IN  (2 * sum + all) \div (2 * all)

Unmet(items) == {i \in DOMAIN items : items[i].level = 0}

UnmetThresholds(items) == {i \in Unmet(items) : items[i].threshold}

MatchCap(j) ==
  IF UnmetThresholds(j.mustHave) # {} THEN 3500
  ELSE IF Cardinality(Unmet(j.mustHave)) >= 2 THEN 5500
  ELSE IF Cardinality(Unmet(j.mustHave)) = 1 THEN 7500 ELSE 10000

MatchScore(j) ==
  LET raw == RawMatch(j)
      cap == MatchCap(j)
  IN  IF raw < cap THEN raw ELSE cap

\* How many of the bounds of matchBand a score reaches, in ten-thousandths.
Band(score) == Cardinality({b \in {4000, 5500, 7000, 8500} : score >= b})

\* matchQuality, times the weight of the match.
MatchQuality(score) == <<0, 90, 150, 240, 300>>[Band(score) + 1]
-----------------------------------------------------------------------------
\* The recommendation.

\* Plausible bug: the downside risk counts as if it were a merit.
RiskAsMerit(j) ==
  LET e == j.evaluation
  IN  MatchQuality(MatchScore(j)) + 125 * e.trajectory + 100 * e.risk + 75 * e.pay + 50 * e.cost

Weighted(j) ==
  LET e == j.evaluation
  IN  MatchQuality(MatchScore(j)) + 125 * e.trajectory + 100 * (2 - e.risk)
        + 75 * e.pay + 50 * e.cost

\* Sums of doubles that stay below the bound they are equal to: band, then the
\* evaluation.
Short ==
  {<<0, [trajectory |-> 0, risk |-> 0, pay |-> 2, cost |-> 1]>>,
   <<0, [trajectory |-> 2, risk |-> 1, pay |-> 0, cost |-> 1]>>,
   <<2, [trajectory |-> 0, risk |-> 0, pay |-> 0, cost |-> 1]>>,
   <<4, [trajectory |-> 0, risk |-> 2, pay |-> 2, cost |-> 2]>>}

RawStars(j) ==
  LET weighted == Weighted(j)
      reached == Cardinality({b \in {400, 550, 700, 850} : weighted >= b})
  IN  1 + IF <<Band(MatchScore(j)), j.evaluation>> \in Short THEN reached - 1 ELSE reached

\* Plausible bug: a red line takes two stars away.
StarsLessTwo(j) ==
  LET stars == RawStars(j)
  IN  IF j.redLine /\ stars > 2 THEN stars - 2 ELSE stars

RecommendationStars(j) ==
  LET stars == RawStars(j)
  IN  IF j.redLine /\ stars > 2 THEN 2 ELSE stars
-----------------------------------------------------------------------------
\* The fraud check.

Severities(c) == {SeverityOf[s] : s \in c.signals}

\* Plausible bug: what was verified is only looked at when there is a sign.
WithoutEvidence(c) ==
  IF "red" \in Severities(c) THEN "high_risk"
  ELSE IF "yellow" \in Severities(c) /\ "jd" \notin c.evidence THEN "needs_verification"
  ELSE IF c.signals = {} /\ c.evidence \cap Corroborating = {} THEN "needs_verification"
  ELSE "normal"

Conclusion(c) ==
  IF "red" \in Severities(c) THEN "high_risk"
  ELSE IF c.signals # {} \/ "jd" \notin c.evidence \/ c.evidence \cap Corroborating = {}
       THEN "needs_verification"
  ELSE "normal"

Rank(conclusion) ==
  CASE conclusion = "normal" -> 0 [] conclusion = "needs_verification" -> 1 [] OTHER -> 2
-----------------------------------------------------------------------------
\* Analyses that are j with one thing better.
Better(j) ==
  {[j EXCEPT !.mustHave[i].level = @ + 1] : i \in {k \in DOMAIN j.mustHave : j.mustHave[k].level < 2}}
  \cup {[j EXCEPT !.niceToHave[1].level = @ + 1] : k \in 0 .. 1 - j.niceToHave[1].level}
  \cup {[j EXCEPT !.hiddenSignals[1].level = @ + 1] : k \in 0 .. 1 - j.hiddenSignals[1].level}
  \cup {[j EXCEPT !.evaluation[f] = @ + 1] :
          f \in {g \in {"trajectory", "pay", "cost"} : j.evaluation[g] < 2}}
  \cup {[j EXCEPT !.evaluation.risk = @ - 1] : k \in 1 .. j.evaluation.risk}
  \cup {[j EXCEPT !.redLine = FALSE]}

\* One more requirement.
Longer(j) == {[j EXCEPT !.mustHave = Append(@, r)] : r \in Requirement}

\* A red line or a deal breaker.
Flagged(j) == [j EXCEPT !.redLine = TRUE]

\* import --replace with a revised analysis.
Revise ==
  /\ \/ Len(job.mustHave) < MaxMustHaves /\ job' \in Longer(job)
     \/ job' = Flagged(job)
  /\ UNCHANGED check

\* The same for the check: what else was found.
Recheck ==
  /\ check' \in {[check EXCEPT !.signals = @ \cup {s}] : s \in DOMAIN SeverityOf}
                \cup {[check EXCEPT !.evidence = @ \cup {t}] : t \in SourceTypes}
  /\ UNCHANGED job

AssessNext == Revise \/ Recheck
-----------------------------------------------------------------------------

\* Every variable has its type.
AssessTypeOK ==
  /\ ToSet(job.mustHave) \subseteq Requirement /\ job.mustHave # <<>>
  /\ job.evaluation \in Evaluation
  /\ RecommendationStars(job) \in 1 .. 5
  /\ check.signals \subseteq DOMAIN SeverityOf /\ check.evidence \subseteq SourceTypes

\* An analysis with one thing better, a requirement met, a merit or a risk of the
\* job, is never recommended with fewer stars or a weaker match, whatever caps,
\* bands and the rounding of doubles do; one requirement that is met in addition
\* to others that are does not make the match weaker either.
BetterIsNotWorse ==
  LET score == MatchScore(job)
      stars == RecommendationStars(job)
  IN  /\ \A better \in Better(job) :
           score <= MatchScore(better) /\ stars <= RecommendationStars(better)
      /\ \A longer \in Longer(job) :
           Last(longer.mustHave).level = 2 => score <= MatchScore(longer)

\* Further signs never make a posting look safer, and further evidence never
\* makes it look less safe.
SignsAddUp ==
  /\ \A s \in DOMAIN SeverityOf :
       Rank(Conclusion(check)) <= Rank(Conclusion([check EXCEPT !.signals = @ \cup {s}]))
  /\ \A t \in SourceTypes :
       Rank(Conclusion([check EXCEPT !.evidence = @ \cup {t}])) <= Rank(Conclusion(check))

AssessmentsAreFair == BetterIsNotWorse /\ SignsAddUp
=============================================================================
