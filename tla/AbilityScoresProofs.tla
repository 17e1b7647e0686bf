------------------------ MODULE AbilityScoresProofs ------------------------
(***************************************************************************)
(* Proofs about AbilityScores, for every set of records, contents,         *)
(* abilities and requests, every verdict of the calculator and every rank  *)
(* scale.                                                                  *)
(*                                                                         *)
(* The argument: towards one ability, every step either settles results    *)
(* without touching what their scores are made of (Kept), or appends one   *)
(* result that replaces the newest one or none (Grown).  Both preserve the *)
(* chain of results (TimelineInv); ranks and submissions follow.           *)
(***************************************************************************)
EXTENDS AbilityScores, FiniteSetTheorems, TLAPS

-----------------------------------------------------------------------------
(* Types of the operators.                                                 *)

\* A score has one of the six ranks.
LEMMA RankType == ASSUME NEW s \in Nat PROVE RankFor(s) \in Rank
<1> DEFINE S == {k \in 1..5 : RankFloors[k] <= s}
<1>1. IsFiniteSet(1..5) /\ Cardinality(1..5) = 5
  <2>1. \A a, b \in Int : /\ IsFiniteSet(a..b)
                          /\ Cardinality(a..b) = IF a > b THEN 0 ELSE b-a+1
    BY FS_Interval, Zenon
  <2>2. 1 \in Int /\ 5 \in Int
    OBVIOUS
  <2>3. /\ IsFiniteSet(1..5)
        /\ Cardinality(1..5) = IF 1 > 5 THEN 0 ELSE 5-1+1
    BY <2>1, <2>2, Zenon
  <2> QED
    BY <2>3
<1>2. S \in SUBSET (1..5)
  OBVIOUS
<1>3. IsFiniteSet(S) /\ Cardinality(S) <= Cardinality(1..5)
  BY <1>1, <1>2, FS_Subset
<1>4. Cardinality(S) \in Nat
  BY <1>3, FS_CardinalityType
<1> HIDE DEF S
<1>5. Cardinality(S) \in 0..5
  BY <1>1, <1>3, <1>4
<1> QED
  BY <1>5 DEF RankFor, Rank, S

\* The fields of a result, without the record set they make up.
LEMMA ResultFields ==
  ASSUME NEW x \in Result
  PROVE  /\ x.rec \in Records /\ x.content \in Evidence
         /\ x.supersedes \in Nat /\ x.old \in Nat /\ x.new \in Nat /\ x.gain \in Nat
         /\ x.oldRank \in Rank /\ x.proposed \in Rank
         /\ x.status \in Status /\ x.judge \in JudgeStatus /\ x.decision \in Decision
BY DEF Result

\* Changing the state of a result leaves the rest of it as it is.
LEMMA SettleType ==
  ASSUME NEW x \in Result, NEW s \in Status, NEW j \in JudgeStatus,
         NEW c \in Decision
  PROVE  /\ [x EXCEPT !.status = s] \in Result
         /\ [x EXCEPT !.judge = j] \in Result
         /\ [x EXCEPT !.judge = j, !.decision = c, !.status = s] \in Result
BY DEF Result

\* The result score() writes is a result, whatever its base.
LEMMA NewResultType ==
  ASSUME TypeOK, NEW d \in Dims, NEW r \in Records, NEW e \in Evidence,
         NEW p \in Nat, p = 0 \/ p \in DOMAIN timeline[d],
         NEW v \in Verdict
  PROVE  NewResult(d, r, e, p, v) \in Result
<1>1. BaseScore(d, p) \in Nat /\ BaseRank(d, p) \in Rank
  <2>1. ability[d].score \in Nat /\ ability[d].rank \in Rank
    BY DEF TypeOK, AbilityState
  <2>2. CASE p = 0
    BY <2>1, <2>2 DEF BaseScore, BaseRank
  <2>3. CASE p # 0
    <3>1. timeline[d][p] \in Result
      BY <2>3 DEF TypeOK
    <3> QED
      BY <2>3, <3>1, ResultFields DEF BaseScore, BaseRank
  <2> QED
    BY <2>2, <2>3
<1>2. BaseScore(d, p) + v.gain \in Nat /\ v.gain \in Nat
  BY <1>1 DEF Verdict
<1>3. RankFor(BaseScore(d, p) + v.gain) \in Rank
  BY <1>2, RankType
<1> DEFINE new == NewResult(d, r, e, p, v)
<1>4. new.status \in Status
  BY DEF NewResult, Verdict, Status
<1>5. /\ new.supersedes \in Nat
      /\ new.old \in Nat
      /\ new.new \in Nat
      /\ new.gain \in Nat
  BY <1>1, <1>2 DEF NewResult
<1>6. new.oldRank \in Rank /\ new.proposed \in Rank
  BY <1>1, <1>3 DEF NewResult
<1>7. new.rec \in Records /\ new.content \in Evidence
  BY DEF NewResult
<1>8. new.judge \in JudgeStatus /\ new.decision \in Decision
  BY DEF NewResult, JudgeStatus, Decision
<1>9. new = [rec |-> new.rec, content |-> new.content,
             supersedes |-> new.supersedes, old |-> new.old, new |-> new.new,
             gain |-> new.gain, oldRank |-> new.oldRank,
             proposed |-> new.proposed, status |-> new.status,
             judge |-> new.judge, decision |-> new.decision]
  BY DEF NewResult
<1> QED
  BY <1>4, <1>5, <1>6, <1>7, <1>8, <1>9 DEF Result

\* Opening a judge changes nothing but the judge, and only if there is none.
LEMMA CreateType ==
  ASSUME NEW res \in Result
  PROVE  LET y == CreateIfRequired(res)
         IN  /\ y \in Result
             /\ y.rec = res.rec /\ y.supersedes = res.supersedes
             /\ y.old = res.old /\ y.new = res.new /\ y.gain = res.gain
             /\ y.oldRank = res.oldRank /\ y.proposed = res.proposed
             /\ y.status = res.status /\ y.decision = res.decision
             /\ res.judge # "NONE" => y.judge = res.judge
<1>1. "PENDING" \in JudgeStatus
  BY DEF JudgeStatus
<1>2. [res EXCEPT !.judge = "PENDING"] \in Result
  BY <1>1 DEF Result
<1>3. LET y == [res EXCEPT !.judge = "PENDING"]
      IN  /\ y.rec = res.rec /\ y.supersedes = res.supersedes
          /\ y.old = res.old /\ y.new = res.new /\ y.gain = res.gain
          /\ y.oldRank = res.oldRank /\ y.proposed = res.proposed
          /\ y.status = res.status /\ y.decision = res.decision
  BY DEF Result
<1>4. CASE CreateIfRequired(res) = res
  BY <1>4
<1>5. CASE res.judge = "NONE" /\ CreateIfRequired(res) = [res EXCEPT !.judge = "PENDING"]
  BY <1>2, <1>3, <1>5
<1> QED
  BY <1>4, <1>5 DEF CreateIfRequired

\* Superseding keeps the timeline's length.
LEMMA SupersedeType ==
  ASSUME NEW T \in Seq(Result), NEW p
  PROVE  /\ Supersede(T, p) \in Seq(Result)
         /\ Len(Supersede(T, p)) = Len(T)
         /\ DOMAIN Supersede(T, p) = DOMAIN T
<1>1. "SUPERSEDED" \in Status
  BY DEF Status
<1>2. \A x \in Result : [x EXCEPT !.status = "SUPERSEDED"] \in Result
  BY <1>1 DEF Result
<1>3. Supersede(T, p) \in [1..Len(T) -> Result]
  BY <1>2 DEF Supersede
<1> QED
  BY <1>3

-----------------------------------------------------------------------------
(* What one step may do to one timeline.                                   *)

\* Result y is result x with at most its status and its judge moved on.
Settles(x, y) ==
  /\ y.rec = x.rec /\ y.supersedes = x.supersedes
  /\ y.old = x.old /\ y.new = x.new /\ y.gain = x.gain
  /\ y.oldRank = x.oldRank /\ y.proposed = x.proposed
  /\ y.status = "SUPERSEDED" => x.status = "SUPERSEDED"
  /\ y.decision # "PENDING" => y.judge = "COMPLETED"
  /\ x.judge = "COMPLETED" => y.judge = "COMPLETED" /\ y.decision = x.decision

\* The results of U are those of T, settled further.
KeptResults(T, U) ==
  Len(U) = Len(T) /\ \A i \in 1..Len(T) : Settles(T[i], U[i])

\* Result new, based on the score, can follow the results of T and replaces p.
Follows(T, score, p, new) ==
  /\ new.supersedes = p /\ new.status # "SUPERSEDED" /\ new.decision = "PENDING"
  /\ \/ p = 0 /\ new.old = score /\ \A i \in 1..Len(T) : T[i].rec # new.rec
     \/ p # 0 /\ p = Len(T) /\ new.old = T[p].old /\ T[p].rec = new.rec

\* Where a result starts from depends on the results up to it alone.
LEMMA SameStart ==
  ASSUME NEW T \in Seq(Result), NEW U, NEW j \in 1..Len(T),
         \A i \in 1..Len(T) : /\ U[i].supersedes = T[i].supersedes
                              /\ U[i].old = T[i].old /\ U[i].new = T[i].new
  PROVE  /\ StartsFromZero(T, j) => StartsFromZero(U, j)
         /\ \A m \in 1..(j - 1) : StartsFrom(T, j, m) => StartsFrom(U, j, m)
<1>1. Len(T) \in Nat
  OBVIOUS
<1>2. ASSUME StartsFromZero(T, j) PROVE StartsFromZero(U, j)
  <2>1. \A k \in 1..(j - 1) : k + 1 \in 1..Len(T)
    BY <1>1
  <2> QED
    BY <1>2, <2>1 DEF StartsFromZero
<1>3. ASSUME NEW m \in 1..(j - 1), StartsFrom(T, j, m) PROVE StartsFrom(U, j, m)
  <2>1. m \in 1..Len(T) /\ m + 1 \in 1..Len(T)
    BY <1>1
  <2>2. U[j].old = U[m].new /\ U[m + 1].supersedes # m
    BY <1>3, <2>1 DEF StartsFrom
  <2>3. ASSUME NEW k \in (m + 1)..(j - 1) PROVE U[k + 1].supersedes = k
    <3>1. T[k + 1].supersedes = k
      BY <1>3 DEF StartsFrom
    <3>2. k + 1 \in 1..Len(T)
      BY <1>1
    <3> QED
      BY <3>1, <3>2
  <2> QED
    BY <2>2, <2>3 DEF StartsFrom
<1> QED
  BY <1>2, <1>3

\* Settling results keeps their chain.
LEMMA KeptIsChained ==
  ASSUME NEW T \in Seq(Result), NEW U \in Seq(Result), NEW s \in Nat,
         TimelineInv(T, s), KeptResults(T, U)
  PROVE  TimelineInv(U, s)
<1>0. /\ Len(U) = Len(T) /\ Len(T) \in Nat
      /\ T = <<>> <=> U = <<>>
      /\ T # <<>> => Len(T) \in 1..Len(T)
  BY DEF KeptResults
<1>1. NewestIsActive(U)
  BY <1>0 DEF KeptResults, Settles, TimelineInv, NewestIsActive
<1>2. RecordsStayActive(U)
  <2>1. \A i \in 1..Len(T) : U[i].rec = T[i].rec
    BY DEF KeptResults, Settles
  <2>2. \A i \in 1..Len(T) : T[i].status # "SUPERSEDED" => U[i].status # "SUPERSEDED"
    BY DEF KeptResults, Settles
  <2> SUFFICES ASSUME NEW i \in 1..Len(T)
               PROVE  \E m \in 1..Len(T) :
                        U[m].rec = U[i].rec /\ U[m].status # "SUPERSEDED"
    BY <1>0 DEF RecordsStayActive
  <2>3. PICK m \in 1..Len(T) : T[m].rec = T[i].rec /\ T[m].status # "SUPERSEDED"
    BY DEF TimelineInv, RecordsStayActive
  <2> QED
    BY <2>1, <2>2, <2>3
<1>3. ReplacesPrevious(U)
  <2> SUFFICES ASSUME NEW j \in 1..Len(T), U[j].supersedes # 0
               PROVE  U[j].supersedes = j - 1 /\ U[j].rec = U[j - 1].rec
    BY <1>0 DEF ReplacesPrevious
  <2>1. U[j].supersedes = T[j].supersedes
    BY DEF KeptResults, Settles
  <2>2. T[j].supersedes = j - 1 /\ T[j].rec = T[j - 1].rec
    BY <2>1 DEF TimelineInv, ReplacesPrevious
  <2>3. j - 1 \in 1..Len(T)
    BY <1>0, <2>1, <2>2
  <2> QED
    BY <2>1, <2>2, <2>3 DEF KeptResults, Settles
<1>4. ReplacedByNext(U)
  <2> SUFFICES ASSUME NEW i \in 1..Len(T), NEW j \in 1..Len(T),
                      i < j, U[i].rec = U[j].rec
               PROVE  U[i + 1].supersedes = i
    BY <1>0 DEF ReplacedByNext
  <2>1. T[i].rec = T[j].rec
    BY DEF KeptResults, Settles
  <2>2. T[i + 1].supersedes = i
    BY <2>1 DEF TimelineInv, ReplacedByNext
  <2>3. i + 1 \in 1..Len(T)
    BY <1>0
  <2> QED
    BY <2>2, <2>3 DEF KeptResults, Settles
<1>5. Chained(U)
  <2>1. \A i \in 1..Len(T) : /\ U[i].supersedes = T[i].supersedes
                             /\ U[i].old = T[i].old /\ U[i].new = T[i].new
    BY DEF KeptResults, Settles
  <2>2. \A j \in 1..Len(T) :
          /\ StartsFromZero(T, j) => StartsFromZero(U, j)
          /\ \A m \in 1..(j - 1) : StartsFrom(T, j, m) => StartsFrom(U, j, m)
    BY <2>1, SameStart
  <2> QED
    BY <1>0, <2>2 DEF TimelineInv, Chained
<1>6. EndsAt(U, s)
  BY <1>0 DEF KeptResults, Settles, TimelineInv, EndsAt
<1>7. OnlyJudgesDecide(U)
  BY <1>0 DEF KeptResults, Settles, OnlyJudgesDecide
<1> QED
  BY <1>1, <1>2, <1>3, <1>4, <1>5, <1>6, <1>7 DEF TimelineInv

\* U is T with p superseded and new appended, as far as the chain can see.
Grows(T, U, p, new) ==
  /\ Len(U) = Len(T) + 1
  /\ U[Len(T) + 1] = new
  /\ \A i \in 1..Len(T) :
       /\ U[i].rec = T[i].rec /\ U[i].supersedes = T[i].supersedes
       /\ U[i].old = T[i].old /\ U[i].new = T[i].new /\ U[i].gain = T[i].gain
       /\ U[i].oldRank = T[i].oldRank /\ U[i].proposed = T[i].proposed
       /\ U[i].judge = T[i].judge /\ U[i].decision = T[i].decision
       /\ i # p => U[i].status = T[i].status
       /\ i = p => U[i].status = "SUPERSEDED"

\* What Append and Supersede make of a timeline.
LEMMA GrownResults ==
  ASSUME NEW T \in Seq(Result), NEW p, NEW new \in Result
  PROVE  LET U == Append(Supersede(T, p), new)
         IN  U \in Seq(Result) /\ Grows(T, U, p, new)
<1> DEFINE S == Supersede(T, p)
<1>1. S \in Seq(Result) /\ Len(S) = Len(T) /\ DOMAIN S = 1..Len(T)
  BY SupersedeType
<1>2. \A i \in 1..Len(T) :
        S[i] = IF i = p THEN [T[i] EXCEPT !.status = "SUPERSEDED"] ELSE T[i]
  BY DEF Supersede
<1>3. \A x \in Result :
        LET y == [x EXCEPT !.status = "SUPERSEDED"]
        IN  /\ y.rec = x.rec /\ y.supersedes = x.supersedes
            /\ y.old = x.old /\ y.new = x.new /\ y.gain = x.gain
            /\ y.oldRank = x.oldRank /\ y.proposed = x.proposed
            /\ y.judge = x.judge /\ y.decision = x.decision
            /\ y.status = "SUPERSEDED"
  BY DEF Result
<1>4. \A i \in 1..Len(T) :
       /\ S[i].rec = T[i].rec /\ S[i].supersedes = T[i].supersedes
       /\ S[i].old = T[i].old /\ S[i].new = T[i].new /\ S[i].gain = T[i].gain
       /\ S[i].oldRank = T[i].oldRank /\ S[i].proposed = T[i].proposed
       /\ S[i].judge = T[i].judge /\ S[i].decision = T[i].decision
       /\ i # p => S[i].status = T[i].status
       /\ i = p => S[i].status = "SUPERSEDED"
  <2> TAKE i \in 1..Len(T)
  <2>1. T[i] \in Result
    OBVIOUS
  <2>2. CASE i = p
    <3>1. S[i] = [T[i] EXCEPT !.status = "SUPERSEDED"]
      BY <1>2, <2>2
    <3> QED
      BY <1>3, <2>1, <2>2, <3>1
  <2>3. CASE i # p
    <3>1. S[i] = T[i]
      BY <1>2, <2>3
    <3> QED
      BY <2>3, <3>1
  <2> QED
    BY <2>2, <2>3
<1> HIDE DEF S
<1> DEFINE U == Append(S, new)
<1>5. U \in Seq(Result) /\ Len(U) = Len(T) + 1 /\ U[Len(T) + 1] = new
  BY <1>1
<1>6. \A i \in 1..Len(T) : U[i] = S[i]
  BY <1>1
<1> HIDE DEF U
<1>7. Grows(T, U, p, new)
  BY <1>4, <1>5, <1>6 DEF Grows
<1> QED
  BY <1>5, <1>7 DEF U, S

\* Appending a result that follows the others keeps the chain, and the score
\* ends where that result does.
LEMMA GrownIsChained ==
  ASSUME NEW T \in Seq(Result), NEW U \in Seq(Result), NEW s \in Nat,
         NEW p \in Nat, NEW new \in Result,
         TimelineInv(T, s), Follows(T, s, p, new), Grows(T, U, p, new)
  PROVE  TimelineInv(U, new.new)
<1> DEFINE n == Len(T) + 1
<1>1. Len(U) = n /\ U[n] = new
  BY DEF Grows
<1>2. Len(T) \in Nat /\ n \in Nat /\ n \in 1..n /\ n # 0 /\ n - 1 = Len(T)
  OBVIOUS
<1>3. \A i \in 1..Len(T) : i \in 1..n /\ i # n
  BY <1>2
<1>4. \A i \in 1..n : i = n \/ i \in 1..Len(T)
  BY <1>2
<1>5. new.supersedes = p /\ new.status # "SUPERSEDED" /\ new.decision = "PENDING"
  BY DEF Follows
<1>6. p = 0 => new.old = s
  BY DEF Follows
<1>7. p = 0 => \A i \in 1..Len(T) : T[i].rec # new.rec
  BY DEF Follows
<1>8. p # 0 => p = Len(T) /\ p \in 1..Len(T) /\ p + 1 = n /\ n - 1 = p
  BY DEF Follows
<1>9. p # 0 => new.old = T[p].old
  BY DEF Follows
<1>10. p # 0 => T[p].rec = new.rec
  BY DEF Follows
<1>11. \A i \in 1..Len(T) : U[i].rec = T[i].rec
  BY DEF Grows
<1>12. \A i \in 1..Len(T) : U[i].supersedes = T[i].supersedes
  BY DEF Grows
<1>13. \A i \in 1..Len(T) : U[i].old = T[i].old /\ U[i].new = T[i].new
  BY DEF Grows
<1>14. \A i \in 1..Len(T) : U[i].judge = T[i].judge /\ U[i].decision = T[i].decision
  BY DEF Grows
<1>15. \A i \in 1..Len(T) : i # p => U[i].status = T[i].status
  BY DEF Grows
<1>16. \A i \in 1..Len(T) : i # 0
  OBVIOUS
<1>17. U # <<>>
  BY <1>1, <1>2
<1>18. Len(T) # 0 => T # <<>> /\ Len(T) \in 1..Len(T)
  BY <1>2
<1> HIDE DEF n
<1>21. NewestIsActive(U)
  BY <1>1, <1>5 DEF NewestIsActive
<1>22. RecordsStayActive(U)
  <2> SUFFICES ASSUME NEW i \in 1..n
               PROVE  \E m \in 1..n : U[m].rec = U[i].rec /\ U[m].status # "SUPERSEDED"
    BY <1>1 DEF RecordsStayActive
  <2>1. CASE U[i].rec = new.rec
    BY <1>1, <1>2, <1>5, <2>1
  <2>2. CASE U[i].rec # new.rec
    <3>1. i \in 1..Len(T)
      BY <1>1, <1>4, <2>2
    <3>2. PICK m \in 1..Len(T) : T[m].rec = T[i].rec /\ T[m].status # "SUPERSEDED"
      BY <3>1 DEF TimelineInv, RecordsStayActive
    <3>3. T[i].rec # new.rec
      BY <1>11, <2>2, <3>1
    <3>4. m # p
      BY <1>10, <1>16, <3>2, <3>3
    <3>5. U[m].rec = U[i].rec
      BY <1>11, <3>1, <3>2
    <3>6. U[m].status # "SUPERSEDED" /\ m \in 1..n
      BY <1>3, <1>15, <3>2, <3>4
    <3> QED
      BY <3>5, <3>6
  <2> QED
    BY <2>1, <2>2
<1>23. ReplacesPrevious(U)
  <2> SUFFICES ASSUME NEW j \in 1..n, U[j].supersedes # 0
               PROVE  U[j].supersedes = j - 1 /\ U[j].rec = U[j - 1].rec
    BY <1>1 DEF ReplacesPrevious
  <2>1. CASE j = n
    <3>1. U[j] = new /\ p # 0
      BY <1>1, <1>5, <2>1
    <3>2. p = j - 1 /\ p \in 1..Len(T)
      BY <1>8, <2>1, <3>1
    <3>3. U[j].rec = U[p].rec
      BY <1>10, <1>11, <3>1, <3>2
    <3> QED
      BY <1>5, <3>1, <3>2, <3>3
  <2>2. CASE j \in 1..Len(T)
    <3>1. U[j].supersedes = T[j].supersedes /\ U[j].rec = T[j].rec
      BY <1>11, <1>12, <2>2
    <3>2. T[j].supersedes = j - 1 /\ T[j].rec = T[j - 1].rec /\ j - 1 # 0
      BY <2>2, <3>1 DEF TimelineInv, ReplacesPrevious
    <3>3. j - 1 \in 1..Len(T)
      BY <1>2, <2>2, <3>2
    <3>4. U[j - 1].rec = T[j - 1].rec
      BY <1>11, <3>3
    <3> QED
      BY <3>1, <3>2, <3>4
  <2> QED
    BY <1>4, <2>1, <2>2
<1>24. ReplacedByNext(U)
  <2> SUFFICES ASSUME NEW i \in 1..n, NEW j \in 1..n, i < j, U[i].rec = U[j].rec
               PROVE  U[i + 1].supersedes = i
    BY <1>1 DEF ReplacedByNext
  <2>1. i \in 1..Len(T) /\ i # n
    BY <1>2, <1>4
  <2>2. ASSUME NEW k \in 1..Len(T), i < k, T[i].rec = T[k].rec
        PROVE  U[i + 1].supersedes = i
    <3>1. T[i + 1].supersedes = i
      BY <2>1, <2>2 DEF TimelineInv, ReplacedByNext
    <3>2. i + 1 \in 1..Len(T)
      BY <1>2, <2>1, <2>2
    <3> QED
      BY <1>12, <3>1, <3>2
  <2>3. CASE j \in 1..Len(T)
    <3>1. T[i].rec = T[j].rec
      BY <1>11, <2>1, <2>3
    <3> QED
      BY <2>2, <2>3, <3>1
  <2>4. CASE j = n
    <3>1. T[i].rec = new.rec
      BY <1>1, <1>11, <2>1, <2>4
    <3>2. p # 0
      BY <1>7, <2>1, <3>1
    <3>3. CASE i = p
      BY <1>1, <1>5, <1>8, <3>2, <3>3
    <3>4. CASE i # p
      <4>1. i < p /\ p \in 1..Len(T)
        BY <1>2, <1>8, <2>1, <3>2, <3>4
      <4>2. T[i].rec = T[p].rec
        BY <1>10, <3>1, <3>2
      <4> QED
        BY <2>2, <4>1, <4>2
    <3> QED
      BY <3>3, <3>4
  <2> QED
    BY <1>4, <2>3, <2>4
<1>25. Chained(U)
  <2> SUFFICES ASSUME NEW j \in 1..n
               PROVE  StartsFromZero(U, j) \/ \E m \in 1..(j - 1) : StartsFrom(U, j, m)
    BY <1>1 DEF Chained
  <2>1. \A i \in 1..Len(T) :
          /\ StartsFromZero(T, i) => StartsFromZero(U, i)
          /\ \A m \in 1..(i - 1) : StartsFrom(T, i, m) => StartsFrom(U, i, m)
    BY <1>12, <1>13, SameStart
  <2>2. ASSUME NEW i \in 1..Len(T)
        PROVE  StartsFromZero(U, i) \/ \E m \in 1..(i - 1) : StartsFrom(U, i, m)
    BY <2>1 DEF TimelineInv, Chained
  <2>3. CASE j = n /\ Len(T) = 0
    <3>1. p = 0
      BY <1>8, <2>3
    <3>2. s = 0
      BY <2>3 DEF TimelineInv, EndsAt
    <3>3. U[n].old = 0
      BY <1>1, <1>6, <3>1, <3>2
    <3>4. n - 1 = 0
      BY <1>2, <2>3
    <3> QED
      BY <2>3, <3>3, <3>4 DEF StartsFromZero
  <2>4. CASE j = n /\ Len(T) # 0 /\ p = 0
    <3> DEFINE l == Len(T)
    <3>1. l \in 1..l /\ l + 1 = n /\ l = n - 1
      BY <1>2, <1>18, <2>4 DEF n
    <3>2. new.old = T[l].new
      BY <1>6, <1>18, <2>4 DEF TimelineInv, EndsAt
    <3>3. U[n].old = U[l].new
      BY <1>1, <1>13, <3>1, <3>2
    <3>4. U[l + 1].supersedes # l
      BY <1>1, <1>5, <2>4, <3>1
    <3>5. \A k \in (l + 1)..(n - 1) : FALSE
      BY <3>1
    <3>6. StartsFrom(U, n, l)
      BY <3>3, <3>4, <3>5 DEF StartsFrom
    <3> QED
      BY <2>4, <3>1, <3>6
  <2>5. CASE j = n /\ p # 0
    <3>1. p \in 1..Len(T) /\ p + 1 = n /\ n - 1 = p
      BY <1>8, <2>5
    <3>2. U[n].old = U[p].old
      BY <1>1, <1>9, <1>13, <2>5, <3>1
    <3>3. U[p + 1].supersedes = p
      BY <1>1, <1>5, <3>1
    <3>4. ASSUME StartsFromZero(U, p) PROVE StartsFromZero(U, n)
      <4>1. ASSUME NEW k \in 1..(n - 1) PROVE U[k + 1].supersedes = k
        <5>1. CASE k = p
          BY <3>3, <5>1
        <5>2. CASE k # p
          <6>1. k \in 1..(p - 1)
            BY <3>1, <5>2
          <6> QED
            BY <3>4, <6>1 DEF StartsFromZero
        <5> QED
          BY <5>1, <5>2
      <4> QED
        BY <3>2, <3>4, <4>1 DEF StartsFromZero
    <3>5. ASSUME NEW m \in 1..(p - 1), StartsFrom(U, p, m)
          PROVE  StartsFrom(U, n, m)
      <4>1. ASSUME NEW k \in (m + 1)..(n - 1) PROVE U[k + 1].supersedes = k
        <5>1. CASE k = p
          BY <3>3, <5>1
        <5>2. CASE k # p
          <6>1. k \in (m + 1)..(p - 1)
            BY <3>1, <5>2
          <6> QED
            BY <3>5, <6>1 DEF StartsFrom
        <5> QED
          BY <5>1, <5>2
      <4> QED
        BY <3>2, <3>5, <4>1 DEF StartsFrom
    <3>6. \A m \in 1..(p - 1) : m \in 1..(n - 1)
      BY <1>2, <3>1
    <3> QED
      BY <2>2, <2>5, <3>1, <3>4, <3>5, <3>6
  <2> QED
    BY <1>4, <2>2, <2>3, <2>4, <2>5
<1>26. EndsAt(U, new.new)
  BY <1>1, <1>17 DEF EndsAt
<1>27. OnlyJudgesDecide(U)
  <2> SUFFICES ASSUME NEW i \in 1..n, U[i].decision # "PENDING"
               PROVE  U[i].judge = "COMPLETED"
    BY <1>1 DEF OnlyJudgesDecide
  <2>1. i \in 1..Len(T)
    BY <1>1, <1>4, <1>5
  <2> QED
    BY <1>14, <2>1 DEF TimelineInv, OnlyJudgesDecide
<1> QED
  BY <1>21, <1>22, <1>23, <1>24, <1>25, <1>26, <1>27 DEF TimelineInv

-----------------------------------------------------------------------------
(* Ranks and rows.                                                         *)

\* An earned rank stays earned: decisions are final and no result is deleted.
LEMMA EarnedPersists ==
  ASSUME NEW T \in Seq(Result), NEW U \in Seq(Result), OnlyJudgesDecide(T),
         NEW rank, Earned(T, rank),
         KeptResults(T, U) \/ \E p \in Nat, new \in Result : Grows(T, U, p, new)
  PROVE  Earned(U, rank)
<1> SUFFICES ASSUME rank >= JudgedFrom
             PROVE  \E i \in 1..Len(U) : U[i].decision = "PASS" /\ U[i].proposed = rank
  BY DEF Earned
<1>1. PICK i \in 1..Len(T) : T[i].decision = "PASS" /\ T[i].proposed = rank
  BY DEF Earned
<1>2. CASE KeptResults(T, U)
  <2>1. T[i].judge = "COMPLETED"
    BY <1>1 DEF OnlyJudgesDecide
  <2> QED
    BY <1>1, <1>2, <2>1 DEF KeptResults, Settles
<1>3. ASSUME NEW p \in Nat, NEW new \in Result, Grows(T, U, p, new)
      PROVE  \E k \in 1..Len(U) : U[k].decision = "PASS" /\ U[k].proposed = rank
  <2>1. U[i].decision = "PASS" /\ U[i].proposed = rank
    BY <1>1, <1>3 DEF Grows
  <2>2. Len(U) = Len(T) + 1 /\ Len(T) \in Nat
    BY <1>3 DEF Grows
  <2>3. i \in 1..Len(U)
    BY <2>2
  <2> QED
    BY <2>1, <2>3
<1> QED
  BY <1>2, <1>3

\* A written row is a row, and its version moves if anything in it does.
LEMMA WriteType ==
  ASSUME NEW row \in AbilityState, NEW s \in Nat, NEW k \in Rank
  PROVE  LET w == WriteState(row, s, k)
         IN  /\ w \in AbilityState /\ w.score = s /\ w.rank = k
             /\ w = row \/ w.version = row.version + 1
BY DEF WriteState, AbilityState

-----------------------------------------------------------------------------
(* What each action does to one ability.                                   *)

\* What timeline U and row a may become, seen from ability d.
Kept(d, U, a) ==
  KeptResults(timeline[d], U) /\ a.score = ability[d].score
Grown(d, U, a) ==
  \E p \in Nat, new \in Result :
    /\ Follows(timeline[d], ability[d].score, p, new)
    /\ Grows(timeline[d], U, p, new)
    /\ a.score = new.new
    /\ Earned(timeline[d], new.oldRank)
Steps(d, U, a) ==
  /\ U \in Seq(Result) /\ a \in AbilityState
  /\ Kept(d, U, a) \/ Grown(d, U, a)
  /\ Earned(U, a.rank)
  /\ a = ability[d] \/ a.version = ability[d].version + 1

\* Doing nothing is a step.
LEMMA NoStep ==
  ASSUME IInv, NEW d \in Dims
  PROVE  Steps(d, timeline[d], ability[d])
<1>1. timeline[d] \in Seq(Result) /\ ability[d] \in AbilityState
  BY DEF IInv, TypeOK
<1>2. KeptResults(timeline[d], timeline[d])
  BY DEF IInv, TimelineInv, OnlyJudgesDecide, KeptResults, Settles
<1>3. Earned(timeline[d], ability[d].rank)
  BY DEF IInv
<1> QED
  BY <1>1, <1>2, <1>3 DEF Steps, Kept

\* What score() writes: it appends one result, after the newest one.
LEMMA WriteStep ==
  ASSUME IInv, NEW d \in Dims, NEW r \in Records, NEW e \in Evidence,
         NEW p, IsPrior(d, r, p), Writes(d, r, e, p), NEW v \in Verdict
  PROVE  /\ Steps(d, ScoredTimeline(d, r, e, p, v), ScoredAbility(d, r, e, p, v))
         /\ \E new \in Result :
              /\ Follows(timeline[d], ability[d].score, p, new)
              /\ Grows(timeline[d], ScoredTimeline(d, r, e, p, v), p, new)
              /\ ScoredAbility(d, r, e, p, v).score = new.new
              /\ new.rec = r /\ new.gain = v.gain /\ new.new = new.old + new.gain
<1> DEFINE T == timeline[d]
           res == NewResult(d, r, e, p, v)
           new == CreateIfRequired(res)
           U == Append(Supersede(T, p), new)
           a == WriteState(ability[d], res.new, ScoredRank(d, res))
<1>1. T \in Seq(Result) /\ ability[d] \in AbilityState
  BY DEF IInv, TypeOK
<1>2. TimelineInv(T, ability[d].score)
  BY DEF IInv
<1>3. IsNewest(p, ActiveOf(d, r)) \/ (p = 0 /\ ActiveOf(d, r) = {})
  BY DEF IsPrior
<1>4. Len(T) \in Nat /\ DOMAIN T = 1..Len(T)
  BY <1>1
<1>5. p # 0 => p \in 1..Len(T) /\ T[p].rec = r /\ p \in Active(d)
  BY <1>3, <1>4 DEF IsNewest, ActiveOf, Active
<1>6. p \in Nat /\ (p = 0 \/ p \in DOMAIN T)
  BY <1>4, <1>5
<1>7. res \in Result
  BY <1>6, NewResultType DEF IInv
<1>8. /\ res.rec = r /\ res.supersedes = p /\ res.decision = "PENDING"
      /\ res.old = BaseScore(d, p) /\ res.oldRank = BaseRank(d, p)
      /\ res.status = IF RequiresJudge(res.oldRank, res.proposed, v)
                      THEN "REVIEW_REQUIRED" ELSE v.status
      /\ res.gain = v.gain /\ res.new = res.old + res.gain
  BY DEF NewResult
<1>9. res.status # "SUPERSEDED"
  BY <1>8 DEF Verdict
<1> HIDE DEF res
<1>10. /\ new \in Result /\ new.rec = res.rec /\ new.supersedes = res.supersedes
       /\ new.old = res.old /\ new.new = res.new /\ new.oldRank = res.oldRank
       /\ new.gain = res.gain
       /\ new.status = res.status /\ new.decision = res.decision
  BY <1>7, CreateType
<1> HIDE DEF new
<1>11. Follows(T, ability[d].score, p, new)
  <2>1. CASE p = 0
    <3>1. new.old = ability[d].score
      BY <1>8, <1>10, <2>1 DEF BaseScore
    <3>2. ActiveOf(d, r) = {}
      BY <1>3, <1>4, <2>1 DEF IsNewest, ActiveOf, Active
    <3>3. \A m \in 1..Len(T) : T[m].status # "SUPERSEDED" => T[m].rec # r
      BY <1>4, <3>2 DEF ActiveOf, Active
    <3>4. \A i \in 1..Len(T) : T[i].rec # r
      BY <1>2, <3>3 DEF TimelineInv, RecordsStayActive
    <3> QED
      BY <1>8, <1>9, <1>10, <2>1, <3>1, <3>4 DEF Follows
  <2>2. CASE p # 0
    <3>1. IsNewest(p, Active(d))
      BY <2>2 DEF Writes, NeedsReplay
    <3>2. T # <<>> /\ Len(T) \in 1..Len(T)
      BY <1>4, <1>5, <2>2
    <3>3. Len(T) \in Active(d)
      BY <1>2, <1>4, <3>2 DEF TimelineInv, NewestIsActive, Active
    <3>4. p = Len(T)
      BY <1>4, <1>5, <2>2, <3>1, <3>3 DEF IsNewest
    <3>5. new.old = T[p].old
      BY <1>8, <1>10, <2>2 DEF BaseScore
    <3> QED
      BY <1>5, <1>8, <1>9, <1>10, <2>2, <3>4, <3>5 DEF Follows
  <2> QED
    BY <2>1, <2>2
<1>12. U \in Seq(Result) /\ Grows(T, U, p, new)
  BY <1>1, <1>10, GrownResults
<1>13. Earned(T, ability[d].rank) /\ \A i \in DOMAIN T : Earned(T, T[i].oldRank)
  BY DEF IInv
<1>14. Earned(T, res.oldRank)
  BY <1>6, <1>8, <1>13 DEF BaseRank
<1>15. /\ res.new \in Nat /\ res.proposed \in Rank /\ res.oldRank \in Rank
       /\ ability[d].rank \in Rank
  BY <1>1, <1>7, ResultFields DEF AbilityState
<1>16. ScoredRank(d, res) \in Rank
  BY <1>15 DEF ScoredRank
<1>17. /\ a \in AbilityState /\ a.score = res.new /\ a.rank = ScoredRank(d, res)
       /\ a = ability[d] \/ a.version = ability[d].version + 1
  <2>1. ability[d] \in AbilityState /\ res.new \in Nat /\ ScoredRank(d, res) \in Rank
    BY <1>1, <1>15, <1>16
  <2> QED
    BY <2>1, WriteType
<1>18. Earned(T, ScoredRank(d, res))
  <2>1. CASE ScoredRank(d, res) = ability[d].rank
    BY <1>13, <2>1
  <2>2. CASE ScoredRank(d, res) = res.proposed /\ res.oldRank = res.proposed
    BY <1>14, <2>2
  <2>3. CASE ScoredRank(d, res) = res.proposed /\ res.status # "REVIEW_REQUIRED"
    <3>1. ~RequiresJudge(res.oldRank, res.proposed, v)
      BY <1>8, <2>3
    <3>2. CASE res.oldRank = res.proposed
      BY <2>2, <2>3, <3>2
    <3>3. CASE ~(res.proposed >= JudgedFrom)
      BY <2>3, <3>3 DEF Earned
    <3> QED
      BY <3>1, <3>2, <3>3 DEF RequiresJudge
  <2> QED
    BY <2>1, <2>2, <2>3 DEF ScoredRank
<1> HIDE DEF U, a
<1>19. Earned(U, a.rank)
  <2>1. OnlyJudgesDecide(T)
    BY <1>2 DEF TimelineInv
  <2>2. \E q \in Nat, x \in Result : Grows(T, U, q, x)
    BY <1>6, <1>10, <1>12
  <2>3. Earned(T, a.rank)
    BY <1>17, <1>18
  <2> HIDE DEF T
  <2> QED
    BY <1>1, <1>12, <2>1, <2>2, <2>3, EarnedPersists
<1>20. Grown(d, U, a)
  BY <1>6, <1>10, <1>11, <1>12, <1>14, <1>17 DEF Grown
<1>21. ScoredTimeline(d, r, e, p, v) = U /\ ScoredAbility(d, r, e, p, v) = a
  BY DEF ScoredTimeline, ScoredAbility, res, new, U, a
<1>22. Steps(d, U, a)
  BY <1>12, <1>17, <1>19, <1>20 DEF Steps
<1>23. /\ new \in Result /\ Follows(T, ability[d].score, p, new) /\ Grows(T, U, p, new)
       /\ a.score = new.new /\ new.rec = r /\ new.gain = v.gain /\ new.new = new.old + new.gain
  BY <1>8, <1>10, <1>11, <1>12, <1>17
<1> QED
  BY <1>21, <1>22, <1>23

\* A delivery that writes no result at most opens the judge of the one it has.
LEMMA ReuseStep ==
  ASSUME IInv, NEW d \in Dims, NEW r \in Records, NEW e \in Evidence,
         NEW p, ~Writes(d, r, e, p), NEW v
  PROVE  Steps(d, ScoredTimeline(d, r, e, p, v), ScoredAbility(d, r, e, p, v))
<1> DEFINE T == timeline[d]
           U == [i \in DOMAIN T |->
                   IF i \in Existing(d, r, e) THEN CreateIfRequired(T[i]) ELSE T[i]]
<1>1. ScoredAbility(d, r, e, p, v) = ability[d]
  BY DEF ScoredAbility
<1>2. CASE ScoredTimeline(d, r, e, p, v) = T
  BY <1>1, <1>2, NoStep
<1>3. CASE ScoredTimeline(d, r, e, p, v) = U
  <2>1. T \in Seq(Result)
    BY DEF IInv, TypeOK
  <2>2. Len(T) \in Nat /\ DOMAIN T = 1..Len(T) /\ \A i \in 1..Len(T) : T[i] \in Result
    BY <2>1
  <2>3. U \in [1..Len(T) -> Result]
    BY <2>2, CreateType
  <2>4. \A i \in 1..Len(T) : Settles(T[i], U[i])
    <3> TAKE i \in 1..Len(T)
    <3>1. T[i].decision # "PENDING" => T[i].judge = "COMPLETED"
      BY DEF IInv, TimelineInv, OnlyJudgesDecide
    <3>2. CASE U[i] = T[i]
      BY <3>1, <3>2 DEF Settles
    <3>3. CASE U[i] = CreateIfRequired(T[i])
      BY <2>2, <3>1, <3>3, CreateType DEF Settles
    <3> QED
      BY <2>2, <3>2, <3>3
  <2> HIDE DEF U
  <2>5. U \in Seq(Result) /\ Len(U) = Len(T)
    BY <2>2, <2>3
  <2>6. Kept(d, U, ability[d])
    BY <2>4, <2>5 DEF Kept, KeptResults
  <2>7. Earned(T, ability[d].rank) /\ OnlyJudgesDecide(T)
    BY DEF IInv, TimelineInv
  <2>8. Earned(U, ability[d].rank)
    BY <2>1, <2>4, <2>5, <2>7, EarnedPersists DEF KeptResults
  <2>9. ability[d] \in AbilityState
    BY DEF IInv, TypeOK
  <2> QED
    BY <1>1, <1>3, <2>5, <2>6, <2>8, <2>9 DEF Steps
<1> QED
  BY <1>2, <1>3 DEF ScoredTimeline

\* score(): every ability takes a step, those the assessment does not name too.
LEMMA ScoreSteps ==
  ASSUME IInv, NEW r \in Records, NEW e \in Evidence, Score(r, e)
  PROVE  /\ \A d \in Dims : Steps(d, timeline'[d], ability'[d])
         /\ TypeOK'
<1>1. PICK v \in [extracted[<<r, e>>] -> Verdicts[e]],
           prior \in [Dims -> {0} \cup UNION {DOMAIN timeline[d] : d \in Dims}] :
        /\ \A d \in Dims : IsPrior(d, r, prior[d])
        /\ timeline' = [d \in Dims |-> ScoredTimeline(d, r, e, prior[d], v[d])]
        /\ ability' = [d \in Dims |-> ScoredAbility(d, r, e, prior[d], v[d])]
        /\ replays' = replays \cup
             {[dim |-> d, result |-> prior[d], content |-> e] :
                d \in {x \in extracted[<<r, e>>] : NeedsReplay(x, r, e, prior[x])}}
  BY DEF Score
<1>2. ASSUME NEW d \in Dims
      PROVE  Steps(d, timeline'[d], ability'[d])
  <2>1. CASE Writes(d, r, e, prior[d])
    <3>1. v[d] \in Verdicts[e]
      BY <1>1, <2>1 DEF Writes
    <3>2. v[d] \in Verdict
      BY <3>1, VerdictsAssumption
    <3> QED
      BY <1>1, <2>1, <3>2, WriteStep
  <2>2. CASE ~Writes(d, r, e, prior[d])
    BY <1>1, <2>2, ReuseStep
  <2> QED
    BY <2>1, <2>2
<1>3. TypeOK'
  <2>1. timeline' \in [Dims -> Seq(Result)] /\ ability' \in [Dims -> AbilityState]
    BY <1>1, <1>2 DEF Steps
  <2>2. \A d \in Dims : prior[d] \in Nat
    <3> TAKE d \in Dims
    <3>1. prior[d] = 0 \/ \E x \in Dims : prior[d] \in DOMAIN timeline[x]
      BY <1>1
    <3>2. \A x \in Dims : DOMAIN timeline[x] \subseteq Nat
      BY DEF IInv, TypeOK
    <3> QED
      BY <3>1, <3>2
  <2>3. extracted[<<r, e>>] \subseteq Dims
    BY DEF IInv, TypeOK
  <2>4. replays' \subseteq [dim : Dims, result : Nat, content : Evidence]
    BY <1>1, <2>2, <2>3 DEF IInv, TypeOK
  <2>5. extracted' = extracted /\ profile' = profile /\ tx' = tx
    BY DEF Score
  <2> QED
    BY <2>1, <2>4, <2>5 DEF IInv, TypeOK
<1> QED
  BY <1>2, <1>3

\* Settling one result of one ability.
LEMMA SettleStep ==
  ASSUME IInv, NEW d \in Dims, NEW i \in DOMAIN timeline[d],
         NEW y \in Result, Settles(timeline[d][i], y)
  PROVE  LET U == [timeline[d] EXCEPT ![i] = y]
         IN  U \in Seq(Result) /\ KeptResults(timeline[d], U)
<1> DEFINE T == timeline[d]
           U == [T EXCEPT ![i] = y]
<1>1. T \in Seq(Result)
  BY DEF IInv, TypeOK
<1>2. U \in Seq(Result) /\ Len(U) = Len(T)
  BY <1>1
<1>3. \A k \in 1..Len(T) : U[k] = IF k = i THEN y ELSE T[k]
  BY <1>1
<1>4. \A k \in 1..Len(T) : Settles(T[k], T[k])
  BY DEF IInv, TimelineInv, OnlyJudgesDecide, Settles
<1> HIDE DEF U
<1>5. KeptResults(T, U)
  BY <1>2, <1>3, <1>4 DEF KeptResults
<1> QED
  BY <1>2, <1>5 DEF U

\* start(): the judge of a pending result opens.
LEMMA StartSteps ==
  ASSUME IInv, NEW d \in Dims, NEW i \in DOMAIN timeline[d], JudgeStart(d, i)
  PROVE  /\ \A x \in Dims : Steps(x, timeline'[x], ability'[x])
         /\ TypeOK'
<1> DEFINE T == timeline[d]
           y == [T[i] EXCEPT !.judge = "IN_PROGRESS"]
           U == [T EXCEPT ![i] = y]
<1>1. T[i] \in Result /\ T[i].judge = "PENDING"
  BY DEF IInv, TypeOK, JudgeStart
<1>2. "IN_PROGRESS" \in JudgeStatus
  BY DEF JudgeStatus
<1>3. y \in Result
  BY <1>1, <1>2 DEF Result
<1>4. T[i].decision = "PENDING"
  BY <1>1 DEF IInv, TypeOK, TimelineInv, OnlyJudgesDecide
<1>5. Settles(T[i], y)
  BY <1>1, <1>4 DEF Settles, Result
<1> HIDE DEF y
<1>6. U \in Seq(Result) /\ KeptResults(T, U)
  BY <1>3, <1>5, SettleStep
<1>7. timeline' = [timeline EXCEPT ![d] = U]
  BY DEF JudgeStart, y
<1> HIDE DEF U
<1>8. timeline' \in [Dims -> Seq(Result)]
  BY <1>6, <1>7 DEF IInv, TypeOK
<1>9. ability' = ability /\ UNCHANGED <<extracted, profile, replays, tx>>
  BY DEF JudgeStart
<1>10. TypeOK'
  BY <1>8, <1>9 DEF IInv, TypeOK
<1>11. ASSUME NEW x \in Dims PROVE Steps(x, timeline'[x], ability'[x])
  <2>1. CASE x # d
    <3>1. timeline'[x] = timeline[x] /\ ability'[x] = ability[x]
      BY <1>7, <1>9, <2>1 DEF IInv, TypeOK
    <3> QED
      BY <3>1, NoStep
  <2>2. CASE x = d
    <3>1. timeline'[x] = U /\ ability'[x] = ability[d]
      BY <1>7, <1>9, <2>2 DEF IInv, TypeOK
    <3>2. /\ Earned(T, ability[d].rank) /\ OnlyJudgesDecide(T)
          /\ T \in Seq(Result) /\ ability[d] \in AbilityState
      BY DEF IInv, TimelineInv, TypeOK
    <3>3. Earned(U, ability[d].rank)
      BY <1>6, <3>2, EarnedPersists
    <3> QED
      BY <1>6, <2>2, <3>1, <3>2, <3>3 DEF Steps, Kept
  <2> QED
    BY <2>1, <2>2
<1> QED
  BY <1>10, <1>11

\* submit() commits: its result is settled, and the row it writes back with a
\* new rank is the current one.
LEMMA CommitSteps ==
  ASSUME IInv, NEW c \in Clients, NEW decision \in Decision \ {"PENDING"},
         NEW delta \in 1..MaxDelta, SubmitCommit(c, decision, delta)
  PROVE  /\ \A x \in Dims : Steps(x, timeline'[x], ability'[x])
         /\ TypeOK'
<1> DEFINE d == tx[c].dim
           i == tx[c].result
           T == timeline[d]
           rank == T[i].proposed
           before == tx[c].profile.confidence
           after == ConfidenceAfter(before, decision, delta)
           movesRank == decision = "PASS" /\ rank # tx[c].state.rank
           status == SettledStatus(T[i].status, decision)
           y == [T[i] EXCEPT !.judge = "COMPLETED", !.decision = decision,
                             !.status = status]
           U == [T EXCEPT ![i] = y]
<1>1. /\ T[i].judge = "IN_PROGRESS"
      /\ movesRank => ability[d].version = tx[c].state.version
      /\ ability' = IF movesRank
           THEN [ability EXCEPT ![d] = WriteState(tx[c].state, tx[c].state.score, rank)]
           ELSE ability
      /\ profile' = IF after # before
           THEN [confidence |-> after, version |-> tx[c].profile.version + 1]
           ELSE profile
      /\ tx' = [tx EXCEPT ![c] = None]
      /\ UNCHANGED <<extracted, replays>>
  BY DEF SubmitCommit, JudgeUnchanged, SameVersion
<1>2. timeline' = [timeline EXCEPT ![d] = U]
  BY DEF SubmitCommit
<1>3. tx[c] # None /\ tx[c] \in Submission
  BY DEF SubmitCommit, IInv, TypeOK
<1>4. /\ d \in Dims /\ tx[c].state \in AbilityState /\ tx[c].profile \in Profile
      /\ i \in DOMAIN T
      /\ tx[c].state.version = ability[d].version => tx[c].state = ability[d]
  BY <1>3 DEF Submission, IInv, HasRead
<1>5. T \in Seq(Result) /\ T[i] \in Result /\ ability[d] \in AbilityState
  BY <1>4 DEF IInv, TypeOK
<1>6. status \in Status /\ (status = "SUPERSEDED" => T[i].status = "SUPERSEDED")
  BY <1>5, ResultFields DEF SettledStatus, Status
<1>7. "COMPLETED" \in JudgeStatus
  BY DEF JudgeStatus
<1> HIDE DEF status
<1>8. /\ y \in Result /\ y.judge = "COMPLETED" /\ y.decision = decision
      /\ y.status = status /\ y.proposed = rank
      /\ y.rec = T[i].rec /\ y.supersedes = T[i].supersedes
      /\ y.old = T[i].old /\ y.new = T[i].new /\ y.gain = T[i].gain
      /\ y.oldRank = T[i].oldRank
  BY <1>5, <1>6, <1>7 DEF Result
<1>9. Settles(T[i], y)
  BY <1>1, <1>6, <1>8 DEF Settles
<1> HIDE DEF y
<1>10. U \in Seq(Result) /\ KeptResults(T, U)
  BY <1>4, <1>8, <1>9, SettleStep
<1>11. U[i] = y /\ i \in 1..Len(U) /\ Len(U) = Len(T)
  BY <1>4, <1>5
<1> HIDE DEF U
<1>12. timeline' \in [Dims -> Seq(Result)]
  BY <1>2, <1>4, <1>10 DEF IInv, TypeOK
<1>13. rank \in Rank /\ tx[c].state.score \in Nat
  BY <1>4, <1>5, ResultFields DEF AbilityState
<1> DEFINE w == WriteState(tx[c].state, tx[c].state.score, rank)
<1>14. /\ w \in AbilityState /\ w.score = tx[c].state.score /\ w.rank = rank
       /\ w = tx[c].state \/ w.version = tx[c].state.version + 1
  <2> DEFINE row == tx[c].state
             s == row.score
  <2>1. row \in AbilityState /\ s \in Nat /\ rank \in Rank
    BY <1>4, <1>13
  <2> HIDE DEF row, s, rank
  <2>2. LET u == WriteState(row, s, rank)
        IN  /\ u \in AbilityState /\ u.score = s /\ u.rank = rank
            /\ u = row \/ u.version = row.version + 1
    BY <2>1, WriteType
  <2> QED
    BY <2>2 DEF row, s, rank
<1> HIDE DEF w
<1>15. ability' = IF movesRank THEN [ability EXCEPT ![d] = w] ELSE ability
  BY <1>1 DEF w
<1>16. ability' \in [Dims -> AbilityState]
  BY <1>4, <1>14, <1>15 DEF IInv, TypeOK
<1>17. profile' \in Profile
  <2>1. before \in 0..MaxConfidence /\ tx[c].profile.version \in Nat
    BY <1>4 DEF Profile
  <2>2. MaxConfidence \in Nat /\ delta \in Nat
    BY ConfidenceAssumption
  <2>3. \A n \in Int : Clamp(n, 0, MaxConfidence) \in 0..MaxConfidence
    BY <2>2 DEF Clamp
  <2>4. after \in 0..MaxConfidence
    BY <2>1, <2>2, <2>3 DEF ConfidenceAfter
  <2> QED
    BY <1>1, <2>1, <2>4 DEF IInv, TypeOK, Profile
<1>18. tx' \in [Clients -> Submission \cup {None}]
  BY <1>1 DEF IInv, TypeOK
<1>19. TypeOK'
  BY <1>1, <1>12, <1>16, <1>17, <1>18 DEF IInv, TypeOK
<1>20. /\ Earned(T, ability[d].rank) /\ OnlyJudgesDecide(T)
  BY <1>4 DEF IInv, TimelineInv
<1>21. Earned(U, ability[d].rank)
  BY <1>5, <1>10, <1>20, EarnedPersists
<1>22. Steps(d, U, ability'[d])
  <2>1. CASE ~movesRank
    <3>1. ability'[d] = ability[d]
      BY <1>15, <2>1
    <3> QED
      BY <1>5, <1>10, <1>21, <3>1 DEF Steps, Kept
  <2>2. CASE movesRank
    <3>1. ability'[d] = w
      BY <1>4, <1>15, <2>2 DEF IInv, TypeOK
    <3>2. tx[c].state = ability[d]
      BY <1>1, <1>4, <2>2
    <3>3. U[i].decision = "PASS" /\ U[i].proposed = w.rank
      BY <1>8, <1>11, <1>14, <2>2
    <3>4. Earned(U, w.rank)
      BY <1>11, <3>3 DEF Earned
    <3> QED
      BY <1>10, <1>14, <3>1, <3>2, <3>4 DEF Steps, Kept
  <2> QED
    BY <2>1, <2>2
<1>23. ASSUME NEW x \in Dims PROVE Steps(x, timeline'[x], ability'[x])
  <2>1. CASE x # d
    <3>1. timeline'[x] = timeline[x] /\ ability'[x] = ability[x]
      BY <1>2, <1>15, <2>1 DEF IInv, TypeOK
    <3> QED
      BY <3>1, NoStep
  <2>2. CASE x = d
    <3>1. timeline'[x] = U
      BY <1>2, <2>2 DEF IInv, TypeOK
    <3> QED
      BY <1>22, <2>2, <3>1
  <2> QED
    BY <2>1, <2>2
<1> QED
  BY <1>19, <1>23

-----------------------------------------------------------------------------
(* The invariant.                                                          *)

\* Steps of every ability, and submissions that hold what the tables held
\* before the step, keep the invariant.
LEMMA Preserved ==
  ASSUME IInv, TypeOK',
         \A d \in Dims : Steps(d, timeline'[d], ability'[d]),
         \A c \in Clients : HasRead(tx'[c])
  PROVE  IInv'
<1>1. ASSUME NEW d \in Dims
      PROVE  /\ TimelineInv(timeline'[d], ability'[d].score)
             /\ Earned(timeline'[d], ability'[d].rank)
             /\ \A i \in DOMAIN timeline'[d] :
                  Earned(timeline'[d], timeline'[d][i].oldRank)
             /\ Len(timeline[d]) <= Len(timeline'[d])
             /\ ability'[d] = ability[d] \/ ability'[d].version = ability[d].version + 1
  <2> DEFINE T == timeline[d]
             U == timeline'[d]
             a == ability'[d]
  <2>1. /\ T \in Seq(Result) /\ U \in Seq(Result) /\ a \in AbilityState
        /\ ability[d] \in AbilityState
    BY DEF IInv, TypeOK
  <2>2. /\ TimelineInv(T, ability[d].score) /\ OnlyJudgesDecide(T)
        /\ \A i \in 1..Len(T) : Earned(T, T[i].oldRank)
    BY <2>1 DEF IInv, TimelineInv
  <2>3. /\ Kept(d, U, a) \/ Grown(d, U, a)
        /\ Earned(U, a.rank)
        /\ a = ability[d] \/ a.version = ability[d].version + 1
    BY DEF Steps
  <2>4. ability[d].score \in Nat
    BY <2>1 DEF AbilityState
  <2> HIDE DEF U, a, T
  <2>5. CASE Kept(d, U, a)
    <3>1. KeptResults(T, U) /\ a.score = ability[d].score
      BY <2>5 DEF Kept, T
    <3>2. TimelineInv(U, a.score)
      BY <2>1, <2>2, <2>4, <3>1, KeptIsChained
    <3>3. Len(U) = Len(T) /\ \A i \in 1..Len(T) : U[i].oldRank = T[i].oldRank
      BY <3>1 DEF KeptResults, Settles
    <3>4. \A i \in 1..Len(T) : Earned(U, T[i].oldRank)
      BY <2>1, <2>2, <3>1, EarnedPersists
    <3>5. \A i \in DOMAIN U : Earned(U, U[i].oldRank)
      BY <2>1, <3>3, <3>4
    <3>6. Len(T) <= Len(U)
      BY <2>1, <3>3
    <3> QED
      BY <2>3, <3>2, <3>5, <3>6 DEF T, U, a
  <2>6. CASE Grown(d, U, a)
    <3>1. PICK p \in Nat, new \in Result :
            /\ Follows(T, ability[d].score, p, new)
            /\ Grows(T, U, p, new)
            /\ a.score = new.new
            /\ Earned(T, new.oldRank)
      BY <2>6 DEF Grown, T
    <3>2. TimelineInv(U, a.score)
      BY <2>1, <2>2, <2>4, <3>1, GrownIsChained
    <3>3. /\ Len(U) = Len(T) + 1 /\ U[Len(T) + 1] = new
          /\ \A i \in 1..Len(T) : U[i].oldRank = T[i].oldRank
      BY <3>1 DEF Grows
    <3>4. \A k : Earned(T, k) => Earned(U, k)
      BY <2>1, <2>2, <3>1, EarnedPersists
    <3>5. ASSUME NEW i \in DOMAIN U PROVE Earned(U, U[i].oldRank)
      <4>1. i \in 1..Len(T) \/ i = Len(T) + 1
        BY <2>1, <3>3
      <4>2. CASE i \in 1..Len(T)
        BY <2>2, <3>3, <3>4, <4>2
      <4>3. CASE i = Len(T) + 1
        BY <3>1, <3>3, <3>4, <4>3
      <4> QED
        BY <4>1, <4>2, <4>3
    <3>6. Len(T) <= Len(U)
      BY <2>1, <3>3
    <3> QED
      BY <2>3, <3>2, <3>5, <3>6 DEF T, U, a
  <2> QED
    BY <2>3, <2>5, <2>6
<1>2. ASSUME NEW c \in Clients PROVE HasRead(tx[c])'
  <2> SUFFICES ASSUME tx'[c] # None
               PROVE  /\ tx'[c].result \in DOMAIN timeline'[tx'[c].dim]
                      /\ tx'[c].state.version <= ability'[tx'[c].dim].version
                      /\ tx'[c].state.version = ability'[tx'[c].dim].version
                           => tx'[c].state = ability'[tx'[c].dim]
    BY DEF HasRead
  <2> DEFINE sub == tx'[c]
             d == sub.dim
  <2>1. sub \in Submission
    BY DEF TypeOK
  <2>2. d \in Dims /\ sub.state \in AbilityState
    BY <2>1 DEF Submission
  <2>3. /\ sub.result \in DOMAIN timeline[d]
        /\ sub.state.version <= ability[d].version
        /\ sub.state.version = ability[d].version => sub.state = ability[d]
    BY DEF HasRead
  <2>4. /\ timeline[d] \in Seq(Result) /\ timeline'[d] \in Seq(Result)
        /\ ability[d].version \in Nat /\ sub.state.version \in Nat
    BY <2>2 DEF IInv, TypeOK, AbilityState
  <2>5. /\ Len(timeline[d]) <= Len(timeline'[d])
        /\ ability'[d] = ability[d] \/ ability'[d].version = ability[d].version + 1
    BY <1>1, <2>2
  <2> HIDE DEF d, sub
  <2>6. sub.result \in DOMAIN timeline'[d]
    BY <2>3, <2>4, <2>5
  <2>7. /\ sub.state.version <= ability'[d].version
        /\ sub.state.version = ability'[d].version => sub.state = ability'[d]
    BY <2>3, <2>4, <2>5
  <2> QED
    BY <2>6, <2>7 DEF d, sub
<1> QED
  BY <1>1, <1>2 DEF IInv

\* The invariant holds of the empty tables.
LEMMA InitInv == Init => IInv
<1> SUFFICES ASSUME Init PROVE IInv
  OBVIOUS
<1>1. TypeOK
  <2>1. 0 \in Rank /\ InitialConfidence \in 0..MaxConfidence
    BY ConfidenceAssumption DEF Rank
  <2> QED
    BY <2>1 DEF Init, TypeOK, AbilityState, Profile
<1>2. ASSUME NEW d \in Dims
      PROVE  TimelineInv(timeline[d], ability[d].score) /\ Earned(timeline[d], ability[d].rank)
  <2>1. timeline[d] = <<>> /\ ability[d].score = 0 /\ ability[d].rank = 0
    BY DEF Init
  <2>2. Earned(<<>>, 0)
    BY DEF Earned, JudgedFrom
  <2>3. NewestIsActive(<<>>) /\ RecordsStayActive(<<>>) /\ ReplacesPrevious(<<>>)
    BY DEF NewestIsActive, RecordsStayActive, ReplacesPrevious
  <2>4. ReplacedByNext(<<>>) /\ Chained(<<>>)
    BY DEF ReplacedByNext, Chained
  <2>5. EndsAt(<<>>, 0) /\ OnlyJudgesDecide(<<>>)
    BY DEF EndsAt, OnlyJudgesDecide
  <2> QED
    BY <2>1, <2>2, <2>3, <2>4, <2>5 DEF TimelineInv
<1>3. \A d \in Dims : DOMAIN timeline[d] = {}
  BY DEF Init
<1>4. \A c \in Clients : HasRead(tx[c])
  BY DEF Init, HasRead
<1> QED
  BY <1>1, <1>2, <1>3, <1>4 DEF IInv

\* Every step preserves the invariant, and is a step of every ability.
LEMMA NextInv ==
  ASSUME IInv, [Next]_vars
  PROVE  IInv' /\ \A d \in Dims : Steps(d, timeline'[d], ability'[d])
<1>1. \A c \in Clients : HasRead(tx[c])
  BY DEF IInv
<1>2. ASSUME timeline' = timeline, ability' = ability
      PROVE  \A d \in Dims : Steps(d, timeline'[d], ability'[d])
  BY <1>2, NoStep
<1>3. ASSUME NEW r \in Records, NEW e \in Evidence, NEW D \in SUBSET Dims,
             SaveAssessment(r, e, D)
      PROVE  IInv' /\ \A d \in Dims : Steps(d, timeline'[d], ability'[d])
  <2>1. TypeOK'
    BY <1>3 DEF SaveAssessment, IInv, TypeOK
  <2>2. timeline' = timeline /\ ability' = ability /\ tx' = tx
    BY <1>3 DEF SaveAssessment
  <2> QED
    BY <1>1, <1>2, <2>1, <2>2, Preserved
<1>4. ASSUME NEW r \in Records, NEW e \in Evidence, Score(r, e)
      PROVE  IInv' /\ \A d \in Dims : Steps(d, timeline'[d], ability'[d])
  <2>1. tx' = tx
    BY <1>4 DEF Score
  <2> QED
    BY <1>1, <1>4, <2>1, ScoreSteps, Preserved
<1>5. ASSUME NEW d \in Dims, NEW i \in DOMAIN timeline[d], JudgeStart(d, i)
      PROVE  IInv' /\ \A x \in Dims : Steps(x, timeline'[x], ability'[x])
  <2>1. tx' = tx
    BY <1>5 DEF JudgeStart
  <2> QED
    BY <1>1, <1>5, <2>1, StartSteps, Preserved
<1>6. ASSUME NEW c \in Clients, NEW d \in Dims, NEW i \in DOMAIN timeline[d],
             SubmitBegin(c, d, i)
      PROVE  IInv' /\ \A x \in Dims : Steps(x, timeline'[x], ability'[x])
  <2> DEFINE sub == [dim |-> d, result |-> i, state |-> ability[d], profile |-> profile]
  <2>1. timeline' = timeline /\ ability' = ability /\ tx' = [tx EXCEPT ![c] = sub]
    BY <1>6 DEF SubmitBegin
  <2>2. i \in Nat /\ ability[d] \in AbilityState
    BY DEF IInv, TypeOK
  <2>3. sub \in Submission
    BY <2>2 DEF Submission, IInv, TypeOK
  <2>4. ability[d].version \in Nat
    BY <2>2 DEF AbilityState
  <2>5. HasRead(sub)
    BY <2>4 DEF HasRead
  <2> HIDE DEF sub
  <2>6. tx' \in [Clients -> Submission \cup {None}]
    BY <2>1, <2>3 DEF IInv, TypeOK
  <2>7. TypeOK'
    BY <1>6, <2>1, <2>6 DEF SubmitBegin, IInv, TypeOK
  <2>8. \A x \in Clients : tx'[x] = sub \/ tx'[x] = tx[x]
    BY <2>1 DEF IInv, TypeOK
  <2>9. \A x \in Clients : HasRead(tx'[x])
    BY <1>1, <2>5, <2>8
  <2> QED
    BY <1>2, <2>1, <2>7, <2>9, Preserved
<1>7. ASSUME NEW c \in Clients, tx' = [tx EXCEPT ![c] = None]
      PROVE  \A x \in Clients : HasRead(tx'[x])
  <2>1. \A x \in Clients : tx'[x] = None \/ tx'[x] = tx[x]
    BY <1>7 DEF IInv, TypeOK
  <2>2. HasRead(None)
    BY DEF HasRead
  <2> QED
    BY <1>1, <2>1, <2>2
<1>8. ASSUME NEW c \in Clients, NEW decision \in Decision \ {"PENDING"},
             NEW delta \in 1..MaxDelta, SubmitCommit(c, decision, delta)
      PROVE  IInv' /\ \A x \in Dims : Steps(x, timeline'[x], ability'[x])
  <2>1. \A x \in Clients : HasRead(tx'[x])
    BY <1>7, <1>8 DEF SubmitCommit
  <2> QED
    BY <1>8, <2>1, CommitSteps, Preserved
<1>9. ASSUME NEW c \in Clients, SubmitAbort(c)
      PROVE  IInv' /\ \A x \in Dims : Steps(x, timeline'[x], ability'[x])
  <2>1. \A x \in Clients : HasRead(tx'[x])
    BY <1>7, <1>9 DEF SubmitAbort
  <2>2. TypeOK' /\ timeline' = timeline /\ ability' = ability
    BY <1>9 DEF SubmitAbort, IInv, TypeOK
  <2> QED
    BY <1>2, <2>1, <2>2, Preserved
<1>10. CASE UNCHANGED vars
  <2>1. timeline' = timeline /\ ability' = ability /\ tx' = tx /\ TypeOK'
    BY <1>10 DEF vars, IInv, TypeOK
  <2> QED
    BY <1>1, <1>2, <2>1, Preserved
<1> QED
  BY <1>3, <1>4, <1>5, <1>6, <1>8, <1>9, <1>10 DEF Next

\* The invariant is inductive: it holds in every reachable state.
THEOREM Invariance == Spec => []IInv
<1>1. IInv /\ [Next]_vars => IInv'
  BY NextInv
<1> QED
  BY InitInv, <1>1, PTL DEF Spec

\* Every variable keeps its type.
THEOREM TypeCorrect == Spec => []TypeOK
<1>1. IInv => TypeOK
  BY DEF IInv
<1> QED
  BY Invariance, <1>1, PTL

-----------------------------------------------------------------------------
(* The safety properties.                                                  *)

\* A result is in force unless the next one replaces it.
LEMMA InForceMeans ==
  ASSUME IInv, NEW d \in Dims, NEW i \in 1..Len(timeline[d])
  PROVE  i \in InForce(d) <=>
           ~(i + 1 \in 1..Len(timeline[d]) /\ timeline[d][i + 1].supersedes = i)
<1> DEFINE T == timeline[d]
<1>1. T \in Seq(Result)
  BY DEF IInv, TypeOK
<1>2. Len(T) \in Nat /\ DOMAIN T = 1..Len(T)
  BY <1>1
<1>3. ASSUME NEW j \in 1..Len(T), T[j].supersedes = i
      PROVE  j = i + 1
  <2>1. T[j].supersedes # 0
    BY <1>3
  <2>2. T[j].supersedes = j - 1
    BY <2>1 DEF IInv, TimelineInv, ReplacesPrevious
  <2> QED
    BY <1>2, <1>3, <2>2
<1> QED
  BY <1>2, <1>3 DEF InForce

\* However a record is redelivered, corrected and judged, at most one of its
\* results counts in an ability: score() replaces the one it had.
THEOREM CreditedOnce == Spec => []NoDoubleCredit
<1>1. ASSUME IInv, NEW d \in Dims, NEW i \in InForce(d), NEW j \in InForce(d),
             timeline[d][i].rec = timeline[d][j].rec, i < j
      PROVE  FALSE
  <2>1. timeline[d] \in Seq(Result)
    BY <1>1 DEF IInv, TypeOK
  <2>2. i \in 1..Len(timeline[d]) /\ j \in 1..Len(timeline[d])
    BY <2>1 DEF InForce
  <2>3. timeline[d][i + 1].supersedes = i
    BY <1>1, <2>2 DEF IInv, TimelineInv, ReplacedByNext
  <2>4. i + 1 \in 1..Len(timeline[d])
    BY <1>1, <2>1, <2>2
  <2> QED
    BY <1>1, <2>2, <2>3, <2>4, InForceMeans
<1>2. ASSUME IInv PROVE NoDoubleCredit
  <2> SUFFICES ASSUME NEW d \in Dims, NEW i \in InForce(d), NEW j \in InForce(d),
                      timeline[d][i].rec = timeline[d][j].rec
               PROVE  i = j
    BY DEF NoDoubleCredit
  <2>1. i \in Nat /\ j \in Nat
    BY <1>2 DEF IInv, TypeOK, InForce
  <2>2. ~(i < j) /\ ~(j < i)
    BY <1>1, <1>2
  <2> QED
    BY <2>1, <2>2
<1> QED
  BY <1>2, Invariance, PTL

\* The results in force form one chain from 0 to the score of the ability,
\* whatever corrections and judges commit in between.
THEOREM Chain == Spec => []ScoreIsChained
<1>1. ASSUME IInv, NEW d \in Dims, NEW i \in InForce(d)
      PROVE  IF \E j \in InForce(d) : j < i
             THEN \E j \in InForce(d) :
                    /\ IsNewest(j, {k \in InForce(d) : k < i})
                    /\ timeline[d][i].old = timeline[d][j].new
             ELSE timeline[d][i].old = 0
  <2> DEFINE T == timeline[d]
  <2>1. T \in Seq(Result)
    BY <1>1 DEF IInv, TypeOK
  <2>2. Len(T) \in Nat /\ i \in 1..Len(T) /\ InForce(d) \subseteq 1..Len(T)
    BY <2>1 DEF InForce
  <2>3. \A k \in 1..Len(T) :
          k \in InForce(d) <=> ~(k + 1 \in 1..Len(T) /\ T[k + 1].supersedes = k)
    BY <1>1, InForceMeans
  <2>4. CASE StartsFromZero(T, i)
    <3>1. ASSUME NEW k \in InForce(d), k < i PROVE FALSE
      <4>1. k \in 1..(i - 1) /\ k \in 1..Len(T) /\ k + 1 \in 1..Len(T)
        BY <2>2, <3>1
      <4>2. T[k + 1].supersedes = k
        BY <2>4, <4>1 DEF StartsFromZero
      <4> QED
        BY <2>3, <3>1, <4>1, <4>2
    <3> QED
      BY <2>4, <3>1 DEF StartsFromZero
  <2>5. ASSUME NEW m \in 1..(i - 1), StartsFrom(T, i, m)
        PROVE  /\ m \in InForce(d) /\ m < i
               /\ IsNewest(m, {k \in InForce(d) : k < i})
               /\ T[i].old = T[m].new
    <3>1. m \in 1..Len(T) /\ m < i
      BY <2>2
    <3>2. m \in InForce(d)
      BY <2>3, <2>5, <3>1 DEF StartsFrom
    <3>3. ASSUME NEW k \in InForce(d), k < i, ~(k <= m) PROVE FALSE
      <4>1. k \in (m + 1)..(i - 1) /\ k \in 1..Len(T) /\ k + 1 \in 1..Len(T)
        BY <2>2, <3>1, <3>3
      <4>2. T[k + 1].supersedes = k
        BY <2>5, <4>1 DEF StartsFrom
      <4> QED
        BY <2>3, <3>3, <4>1, <4>2
    <3> QED
      BY <2>5, <3>1, <3>2, <3>3 DEF IsNewest, StartsFrom
  <2>6. StartsFromZero(T, i) \/ \E m \in 1..(i - 1) : StartsFrom(T, i, m)
    BY <1>1, <2>2 DEF IInv, TimelineInv, Chained
  <2> QED
    BY <2>4, <2>5, <2>6
<1>2. ASSUME IInv, NEW d \in Dims
      PROVE  IF timeline[d] = <<>> THEN ability[d].score = 0
             ELSE ability[d].score = timeline[d][Len(timeline[d])].new
  BY <1>2 DEF IInv, TimelineInv, EndsAt
<1>3. IInv => ScoreIsChained
  BY <1>1, <1>2 DEF ScoreIsChained
<1> QED
  BY <1>3, Invariance, PTL

\* A rank from DEVELOPING up is one that a passed judge confirmed.
THEOREM RanksAreEarned == Spec => []RankIsEarned
<1>1. ASSUME IInv PROVE RankIsEarned
  <2> SUFFICES ASSUME NEW d \in Dims, ability[d].rank >= JudgedFrom
               PROVE  \E i \in DOMAIN timeline[d] :
                        /\ timeline[d][i].decision = "PASS"
                        /\ timeline[d][i].proposed = ability[d].rank
    BY DEF RankIsEarned
  <2>1. timeline[d] \in Seq(Result)
    BY <1>1 DEF IInv, TypeOK
  <2>2. \E i \in 1..Len(timeline[d]) :
          /\ timeline[d][i].decision = "PASS"
          /\ timeline[d][i].proposed = ability[d].rank
    BY <1>1 DEF IInv, Earned
  <2> QED
    BY <2>1, <2>2
<1> QED
  BY <1>1, Invariance, PTL

\* No step, and no second submission of a judge, changes a decision.
THEOREM Finality == Spec => DecisionIsFinal
<1>1. ASSUME IInv, [Next]_vars, NEW d \in Dims, NEW i \in DOMAIN timeline[d],
             timeline[d][i].judge = "COMPLETED"
      PROVE  /\ timeline'[d][i].judge = "COMPLETED"
             /\ timeline'[d][i].decision = timeline[d][i].decision
  <2>1. Steps(d, timeline'[d], ability'[d])
    BY <1>1, NextInv
  <2>2. i \in 1..Len(timeline[d])
    BY <1>1 DEF IInv, TypeOK
  <2>3. CASE KeptResults(timeline[d], timeline'[d])
    BY <1>1, <2>2, <2>3 DEF KeptResults, Settles
  <2>4. ASSUME NEW p \in Nat, NEW new \in Result,
               Grows(timeline[d], timeline'[d], p, new)
        PROVE  /\ timeline'[d][i].judge = timeline[d][i].judge
               /\ timeline'[d][i].decision = timeline[d][i].decision
    BY <2>2, <2>4 DEF Grows
  <2> QED
    BY <1>1, <2>1, <2>3, <2>4 DEF Steps, Kept, Grown
<1>2. IInv /\ [Next]_vars =>
        [\A d \in Dims : \A i \in DOMAIN timeline[d] :
           timeline[d][i].judge = "COMPLETED" =>
             /\ timeline'[d][i].judge = "COMPLETED"
             /\ timeline'[d][i].decision = timeline[d][i].decision]_vars
  BY <1>1
<1> QED
  BY <1>2, Invariance, PTL DEF Spec, DecisionIsFinal

\* score() leaves a correction to a replay only when a result of another record
\* is newer than the result it would have to replace.
THEOREM Replays == Spec => ReplayIsJustified
<1>1. ASSUME IInv, NEW r \in Records, NEW e \in Evidence, Score(r, e),
             NEW q \in replays' \ replays
      PROVE  \E j \in DOMAIN timeline[q.dim] :
               /\ j > q.result
               /\ timeline[q.dim][j].rec # timeline[q.dim][q.result].rec
  <2>1. PICK prior : /\ \A d \in Dims : IsPrior(d, r, prior[d])
                     /\ replays' = replays \cup
                          {[dim |-> d, result |-> prior[d], content |-> e] :
                             d \in {x \in extracted[<<r, e>>] :
                                     NeedsReplay(x, r, e, prior[x])}}
    BY <1>1 DEF Score
  <2>2. extracted[<<r, e>>] \subseteq Dims
    BY <1>1 DEF IInv, TypeOK
  <2>3. PICK d \in Dims : /\ q = [dim |-> d, result |-> prior[d], content |-> e]
                          /\ NeedsReplay(d, r, e, prior[d])
    BY <1>1, <2>1, <2>2
  <2> DEFINE T == timeline[d]
             p == prior[d]
  <2>4. q.dim = d /\ q.result = p
    BY <2>3
  <2>5. T \in Seq(Result)
    BY <1>1 DEF IInv, TypeOK
  <2>6. Len(T) \in Nat /\ DOMAIN T = 1..Len(T)
    BY <2>5
  <2>7. p # 0 /\ ~IsNewest(p, Active(d)) /\ IsPrior(d, r, p)
    BY <2>1, <2>3 DEF NeedsReplay
  <2> HIDE DEF p
  <2>8. IsNewest(p, ActiveOf(d, r))
    BY <2>7 DEF IsPrior
  <2>9. p \in Active(d) /\ p \in 1..Len(T) /\ T[p].rec = r
    BY <2>6, <2>8 DEF IsNewest, ActiveOf, Active
  <2>10. PICK j \in Active(d) : ~(j <= p)
    BY <2>7, <2>9 DEF IsNewest
  <2>11. j \in 1..Len(T) /\ j > p
    BY <2>6, <2>9, <2>10 DEF Active
  <2>12. T[j].rec # r
    BY <2>8, <2>10 DEF IsNewest, ActiveOf
  <2> QED
    BY <2>4, <2>6, <2>9, <2>11, <2>12
<1>2. ASSUME IInv, [Next]_vars, NEW q \in replays' \ replays
      PROVE  \E j \in DOMAIN timeline[q.dim] :
               /\ j > q.result
               /\ timeline[q.dim][j].rec # timeline[q.dim][q.result].rec
  <2>1. \E r \in Records, e \in Evidence : Score(r, e)
    <3>1. replays' # replays
      BY <1>2
    <3>2. \A r \in Records, e \in Evidence, D \in SUBSET Dims :
            ~SaveAssessment(r, e, D)
      BY <3>1 DEF SaveAssessment
    <3>3. \A d \in Dims : \A i \in DOMAIN timeline[d] :
            ~JudgeStart(d, i) /\ \A c \in Clients : ~SubmitBegin(c, d, i)
      BY <3>1 DEF JudgeStart, SubmitBegin
    <3>4. ASSUME NEW c \in Clients, NEW delta \in 1..MaxDelta,
                 NEW decision \in Decision \ {"PENDING"},
                 SubmitCommit(c, decision, delta)
          PROVE  FALSE
      <4>1. UNCHANGED <<extracted, replays>>
        BY <3>4, Zenon DEF SubmitCommit
      <4> QED
        BY <3>1, <4>1
    <3>5. \A c \in Clients : ~SubmitAbort(c)
      BY <3>1 DEF SubmitAbort
    <3>6. Next
      BY <1>2, <3>1 DEF vars
    <3> QED
      BY <3>2, <3>3, <3>4, <3>5, <3>6 DEF Next
  <2> QED
    BY <1>1, <1>2, <2>1
<1>3. IInv /\ [Next]_vars =>
        [\A q \in replays' \ replays :
           LET T == timeline[q.dim]
           IN  \E j \in DOMAIN T : j > q.result /\ T[j].rec # T[q.result].rec]_vars
  BY <1>2
<1> QED
  BY <1>3, Invariance, PTL DEF Spec, ReplayIsJustified

-----------------------------------------------------------------------------
(* Judges: what they were asked, and what they count.                      *)

\* A judged result is settled as its judge decided.
Fair(res) ==
  res.judge # "NONE" =>
    /\ res.status = "VERIFIED" => res.decision = "PASS"
    /\ res.status = "PROVISIONAL" => res.decision = "FAIL"

\* From T to U nobody has decided anything.
Undecided(T, U) ==
  /\ U \in Seq(Result) /\ Len(T) <= Len(U)
  /\ \A i \in 1..Len(T) : U[i].decision = T[i].decision /\ (Fair(T[i]) => Fair(U[i]))
  /\ \A i \in 1..Len(U) : i > Len(T) => U[i].decision = "PENDING" /\ Fair(U[i])

\* A judge is asked of results that are open.
LEMMA CreateIsFair ==
  ASSUME NEW res \in Result, Fair(res)
  PROVE  /\ Fair(CreateIfRequired(res)) /\ CreateIfRequired(res) \in Result
         /\ CreateIfRequired(res).decision = res.decision
<1>1. CreateIfRequired(res) \in Result /\ CreateIfRequired(res).decision = res.decision
  BY CreateType
<1>2. CASE res.status = "REVIEW_REQUIRED" /\ res.judge = "NONE"
  <2>1. CreateIfRequired(res).status = "REVIEW_REQUIRED"
    BY <1>2, CreateType
  <2> QED
    BY <1>1, <2>1 DEF Fair
<1>3. CASE ~(res.status = "REVIEW_REQUIRED" /\ res.judge = "NONE")
  BY <1>1, <1>3 DEF CreateIfRequired
<1> QED
  BY <1>2, <1>3

LEMMA ScoreDecidesNothing ==
  ASSUME IInv, NEW d \in Dims, NEW r \in Records, NEW e \in Evidence,
         NEW p, IsPrior(d, r, p), NEW v, Writes(d, r, e, p) => v \in Verdict
  PROVE  Undecided(timeline[d], ScoredTimeline(d, r, e, p, v))
<1> DEFINE T == timeline[d]
           U == ScoredTimeline(d, r, e, p, v)
<1>1. T \in Seq(Result) /\ Len(T) \in Nat /\ DOMAIN T = 1..Len(T)
      /\ \A i \in 1..Len(T) : T[i] \in Result
  BY DEF IInv, TypeOK
<1>2. CASE Writes(d, r, e, p)
  <2> DEFINE res == NewResult(d, r, e, p, v)
             new == CreateIfRequired(res)
  <2>1. p \in Nat /\ (p = 0 \/ p \in DOMAIN T)
    BY <1>1 DEF IsPrior, IsNewest, ActiveOf, Active
  <2>2. res \in Result
    BY <1>2, <2>1, NewResultType DEF IInv
  <2>3. Fair(res) /\ res.decision = "PENDING"
    BY DEF NewResult, Fair
  <2>4. new \in Result /\ Fair(new) /\ new.decision = "PENDING"
    BY <2>2, <2>3, CreateIsFair
  <2> HIDE DEF new
  <2>5. U = Append(Supersede(T, p), new)
    BY <1>2 DEF ScoredTimeline, new
  <2>6. U \in Seq(Result) /\ Grows(T, U, p, new)
    BY <1>1, <2>4, <2>5, GrownResults
  <2> HIDE DEF U, T
  <2>7. \A i \in 1..Len(T) : U[i].decision = T[i].decision /\ (Fair(T[i]) => Fair(U[i]))
    BY <2>6 DEF Grows, Fair
  <2>8. \A i \in 1..Len(U) : i > Len(T) => i = Len(T) + 1
    BY <1>1, <2>6 DEF Grows
  <2>9. Len(T) <= Len(U) /\ U[Len(T) + 1] = new
    BY <1>1, <2>6 DEF Grows
  <2>10. Undecided(T, U)
    BY <2>4, <2>6, <2>7, <2>8, <2>9 DEF Undecided
  <2> QED
    BY <2>10 DEF T, U
<1>3. CASE ~Writes(d, r, e, p)
  <2> DEFINE V == [i \in DOMAIN T |->
                     IF i \in Existing(d, r, e) THEN CreateIfRequired(T[i]) ELSE T[i]]
  <2>1. ASSUME NEW i \in 1..Len(T)
        PROVE  V[i] \in Result /\ V[i].decision = T[i].decision /\ (Fair(T[i]) => Fair(V[i]))
    <3>1. V[i] = T[i] \/ V[i] = CreateIfRequired(T[i])
      BY <1>1
    <3>2. T[i] \in Result
      BY <1>1
    <3> HIDE DEF V
    <3> QED
      BY <3>1, <3>2, CreateType, CreateIsFair
  <2>2. DOMAIN V = 1..Len(T) /\ V \in [1..Len(T) -> Result]
    BY <1>1, <2>1
  <2>3. U = T \/ U = V
    BY <1>3 DEF ScoredTimeline
  <2>4. Undecided(T, T)
    BY <1>1 DEF Undecided
  <2> HIDE DEF V
  <2>5. V \in Seq(Result) /\ Len(V) = Len(T)
    BY <1>1, <2>2
  <2>6. Undecided(T, V)
    BY <1>1, <2>1, <2>5 DEF Undecided
  <2> QED
    BY <2>3, <2>4, <2>6
<1> QED
  BY <1>2, <1>3

\* Every step but the commit of a submission decides nothing.
LEMMA OnlyCommitsDecide ==
  ASSUME IInv, [Next]_vars
  PROVE  \/ /\ \A d \in Dims : Undecided(timeline[d], timeline'[d])
            /\ profile' = profile
            /\ \A c \in Clients : tx'[c] \in {None, tx[c]} \/ tx'[c].profile = profile
         \/ \E c \in Clients, decision \in Decision \ {"PENDING"}, delta \in 1..MaxDelta :
              SubmitCommit(c, decision, delta)
<1>1. \A d \in Dims : timeline[d] \in Seq(Result) /\ Undecided(timeline[d], timeline[d])
  BY DEF IInv, TypeOK, Undecided
<1>2. ASSUME NEW r \in Records, NEW e \in Evidence, Score(r, e)
      PROVE  /\ \A d \in Dims : Undecided(timeline[d], timeline'[d])
             /\ profile' = profile /\ tx' = tx
  <2>1. PICK v \in [extracted[<<r, e>>] -> Verdicts[e]],
             prior \in [Dims -> {0} \cup UNION {DOMAIN timeline[d] : d \in Dims}] :
          /\ \A d \in Dims : IsPrior(d, r, prior[d])
          /\ timeline' = [d \in Dims |-> ScoredTimeline(d, r, e, prior[d], v[d])]
    BY <1>2 DEF Score
  <2>2. ASSUME NEW d \in Dims, Writes(d, r, e, prior[d]) PROVE v[d] \in Verdict
    BY <2>1, <2>2, VerdictsAssumption DEF Writes
  <2>3. \A d \in Dims : Undecided(timeline[d], timeline'[d])
    BY <2>1, <2>2, ScoreDecidesNothing
  <2> QED
    BY <1>2, <2>3 DEF Score
<1>3. ASSUME NEW d \in Dims, NEW i \in DOMAIN timeline[d], JudgeStart(d, i)
      PROVE  /\ \A x \in Dims : Undecided(timeline[x], timeline'[x])
             /\ profile' = profile /\ tx' = tx
  <2> DEFINE T == timeline[d]
             y == [T[i] EXCEPT !.judge = "IN_PROGRESS"]
             U == [T EXCEPT ![i] = y]
  <2>1. T[i] \in Result /\ T[i].judge = "PENDING" /\ "IN_PROGRESS" \in JudgeStatus
    BY <1>1, <1>3 DEF JudgeStart, JudgeStatus
  <2>2. y \in Result /\ y.decision = T[i].decision /\ (Fair(T[i]) => Fair(y))
    BY <2>1 DEF Result, Fair
  <2> HIDE DEF y
  <2>3. U \in Seq(Result) /\ Len(U) = Len(T) /\ \A k \in 1..Len(T) : U[k] = IF k = i THEN y ELSE T[k]
    BY <1>1, <2>2
  <2>4. timeline' = [timeline EXCEPT ![d] = U]
    BY <1>3 DEF JudgeStart, y
  <2> HIDE DEF U
  <2>5. Undecided(T, U)
    BY <1>1, <2>2, <2>3 DEF Undecided
  <2>6. \A x \in Dims : timeline'[x] = IF x = d THEN U ELSE timeline[x]
    BY <2>4 DEF IInv, TypeOK
  <2> QED
    BY <1>1, <1>3, <2>5, <2>6 DEF JudgeStart
<1>4. ASSUME timeline' = timeline, profile' = profile,
             \A c \in Clients : tx'[c] \in {None, tx[c]} \/ tx'[c].profile = profile
      PROVE  /\ \A d \in Dims : Undecided(timeline[d], timeline'[d])
             /\ profile' = profile
             /\ \A c \in Clients : tx'[c] \in {None, tx[c]} \/ tx'[c].profile = profile
  BY <1>1, <1>4
<1>5. ASSUME NEW c \in Clients, NEW d \in Dims, NEW i \in DOMAIN timeline[d], SubmitBegin(c, d, i)
      PROVE  /\ timeline' = timeline /\ profile' = profile
             /\ \A x \in Clients : tx'[x] \in {None, tx[x]} \/ tx'[x].profile = profile
  BY <1>5 DEF SubmitBegin, IInv, TypeOK
<1>6. ASSUME NEW c \in Clients, SubmitAbort(c)
      PROVE  /\ timeline' = timeline /\ profile' = profile
             /\ \A x \in Clients : tx'[x] \in {None, tx[x]}
  BY <1>6 DEF SubmitAbort, IInv, TypeOK
<1>7. ASSUME NEW r \in Records, NEW e \in Evidence, NEW D, SaveAssessment(r, e, D)
      PROVE  timeline' = timeline /\ profile' = profile /\ tx' = tx
  BY <1>7 DEF SaveAssessment
<1>8. CASE UNCHANGED vars
  BY <1>4, <1>8 DEF vars
<1> QED
  BY <1>2, <1>3, <1>4, <1>5, <1>6, <1>7, <1>8 DEF Next

\* Where nothing is decided, the decisions are those of before.
LEMMA SameJudged ==
  ASSUME IInv, \A d \in Dims : Undecided(timeline[d], timeline'[d]),
         NEW x, x # "PENDING"
  PROVE  Judged(x)' = Judged(x)
<1>1. ASSUME NEW d \in Dims
      PROVE  {k \in DOMAIN timeline'[d] : timeline'[d][k].decision = x}
             = {k \in DOMAIN timeline[d] : timeline[d][k].decision = x}
  <2>1. timeline[d] \in Seq(Result) /\ timeline'[d] \in Seq(Result)
        /\ Undecided(timeline[d], timeline'[d])
    BY DEF IInv, TypeOK, Undecided
  <2>2. /\ DOMAIN timeline[d] = 1..Len(timeline[d]) /\ DOMAIN timeline'[d] = 1..Len(timeline'[d])
        /\ Len(timeline[d]) \in Nat /\ Len(timeline'[d]) \in Nat
    BY <2>1
  <2>3. \A k \in DOMAIN timeline[d] :
          k \in DOMAIN timeline'[d] /\ timeline'[d][k].decision = timeline[d][k].decision
    BY <2>1, <2>2 DEF Undecided
  <2>4. \A k \in DOMAIN timeline'[d] :
          timeline'[d][k].decision = x => k \in DOMAIN timeline[d]
    BY <2>1, <2>2 DEF Undecided
  <2> QED
    BY <2>3, <2>4
<1> QED
  BY <1>1 DEF Judged

\* What a commit decides: the result it read, which nobody had decided.
LEMMA CommitDecides ==
  ASSUME IInv, NEW c \in Clients, NEW decision \in Decision \ {"PENDING"},
         NEW delta \in 1..MaxDelta, SubmitCommit(c, decision, delta)
  PROVE  \E d \in Dims : \E i \in DOMAIN timeline[d], y \in Result :
           /\ timeline' = [timeline EXCEPT ![d] = [timeline[d] EXCEPT ![i] = y]]
           /\ timeline[d][i].decision = "PENDING" /\ y.decision = decision
           /\ timeline[d][i].judge = "IN_PROGRESS"
           /\ y.status = SettledStatus(timeline[d][i].status, decision)
<1> DEFINE d == tx[c].dim
           i == tx[c].result
           status == SettledStatus(timeline[d][i].status, decision)
           y == [timeline[d][i] EXCEPT !.judge = "COMPLETED", !.decision = decision,
                                       !.status = status]
<1>1. d \in Dims /\ i \in DOMAIN timeline[d] /\ timeline[d] \in Seq(Result)
  BY DEF SubmitCommit, IInv, HasRead, TypeOK, Submission
<1>2. timeline[d][i].judge = "IN_PROGRESS" /\ timeline[d][i] \in Result
  <2>1. timeline[d][i].judge = "IN_PROGRESS"
    BY DEF SubmitCommit, JudgeUnchanged
  <2> QED
    BY <1>1, <2>1
<1>3. timeline[d][i].decision = "PENDING"
  BY <1>1, <1>2 DEF IInv, TimelineInv, OnlyJudgesDecide
<1>4. status \in Status /\ "COMPLETED" \in JudgeStatus
  BY <1>2, ResultFields DEF SettledStatus, Status, JudgeStatus
<1>5. timeline' = [timeline EXCEPT ![d] = [timeline[d] EXCEPT ![i] = y]]
  BY DEF SubmitCommit
<1> HIDE DEF status
<1>6. y \in Result /\ y.decision = decision /\ y.status = status
  BY <1>2, <1>4 DEF Result
<1> HIDE DEF d, i, y
<1> QED
  BY <1>1, <1>2, <1>3, <1>5, <1>6 DEF status

\* Judged results are settled as decided, from step to step.
LEMMA FlaggedStep ==
  ASSUME IInv, FlaggedNeedsPass, [Next]_vars
  PROVE  FlaggedNeedsPass'
<1>1. \A d \in Dims : \A i \in DOMAIN timeline[d] : Fair(timeline[d][i])
  BY DEF FlaggedNeedsPass, Fair
<1>2. \A d \in Dims : timeline[d] \in Seq(Result)
  BY DEF IInv, TypeOK
<1>3. ASSUME \A d \in Dims : Undecided(timeline[d], timeline'[d])
      PROVE  \A d \in Dims : \A i \in DOMAIN timeline'[d] : Fair(timeline'[d][i])
  <2> TAKE d \in Dims
  <2>1. Undecided(timeline[d], timeline'[d])
    BY <1>3
  <2>2. /\ DOMAIN timeline[d] = 1..Len(timeline[d]) /\ DOMAIN timeline'[d] = 1..Len(timeline'[d])
        /\ Len(timeline[d]) \in Nat /\ Len(timeline'[d]) \in Nat
    BY <1>2, <2>1 DEF Undecided
  <2> TAKE i \in DOMAIN timeline'[d]
  <2>3. CASE i \in 1..Len(timeline[d])
    BY <1>1, <2>1, <2>2, <2>3 DEF Undecided
  <2>4. CASE i > Len(timeline[d])
    BY <2>1, <2>2, <2>4 DEF Undecided
  <2> QED
    BY <2>2, <2>3, <2>4
<1>4. ASSUME NEW c \in Clients, NEW decision \in Decision \ {"PENDING"}, NEW delta \in 1..MaxDelta,
             SubmitCommit(c, decision, delta)
      PROVE  \A d \in Dims : \A i \in DOMAIN timeline'[d] : Fair(timeline'[d][i])
  <2>1. PICK e \in Dims : \E k \in DOMAIN timeline[e], y \in Result :
           /\ timeline' = [timeline EXCEPT ![e] = [timeline[e] EXCEPT ![k] = y]]
           /\ timeline[e][k].decision = "PENDING" /\ y.decision = decision
           /\ timeline[e][k].judge = "IN_PROGRESS"
           /\ y.status = SettledStatus(timeline[e][k].status, decision)
    BY <1>4, CommitDecides
  <2>2. PICK k \in DOMAIN timeline[e], y \in Result :
           /\ timeline' = [timeline EXCEPT ![e] = [timeline[e] EXCEPT ![k] = y]]
           /\ timeline[e][k].decision = "PENDING" /\ y.decision = decision
           /\ timeline[e][k].judge = "IN_PROGRESS"
           /\ y.status = SettledStatus(timeline[e][k].status, decision)
    BY <2>1
  <2>3. Fair(timeline[e][k])
    BY <1>1
  <2>4. Fair(y)
    BY <2>2, <2>3 DEF Fair, SettledStatus, Decision
  <2>5. \A d \in Dims : DOMAIN timeline'[d] = DOMAIN timeline[d]
                        /\ \A i \in DOMAIN timeline[d] :
                             timeline'[d][i] = timeline[d][i] \/ timeline'[d][i] = y
    BY <1>2, <2>2 DEF IInv, TypeOK
  <2> QED
    BY <1>1, <2>4, <2>5
<1>5. \A d \in Dims : \A i \in DOMAIN timeline'[d] : Fair(timeline'[d][i])
  BY <1>3, <1>4, OnlyCommitsDecide
<1> QED
  BY <1>5 DEF FlaggedNeedsPass, Fair

\* A result the rules flagged counts as verified only after its judge passed it,
\* whatever corrections and repeated deliveries come between.
THEOREM FlaggedArePassed == Spec => []FlaggedNeedsPass
<1>1. Init => FlaggedNeedsPass
  BY DEF Init, FlaggedNeedsPass
<1>2. IInv /\ FlaggedNeedsPass /\ [Next]_vars => (IInv /\ FlaggedNeedsPass)'
  BY FlaggedStep, NextInv
<1> QED
  BY <1>1, <1>2, InitInv, PTL DEF Spec

\* A submission holds the profile that is current while its version is.
HasReadProfile(sub) ==
  sub # None =>
    /\ sub.profile.version <= profile.version
    /\ sub.profile.version = profile.version => sub.profile = profile

Passes == Cardinality(Judged("PASS"))
Fails == Cardinality(Judged("FAIL"))

\* No decision can have met a clamp.
Unclamped ==
  MaxDelta = 1 /\ Passes <= MaxConfidence - InitialConfidence /\ Fails <= InitialConfidence

\* Decisions are finitely many, and an open submission has read a confidence that
\* the decisions made by now can account for.
ConfidenceInv ==
  /\ IsFiniteSet(Judged("PASS")) /\ IsFiniteSet(Judged("FAIL"))
  /\ \A c \in Clients : HasReadProfile(tx[c])
  /\ Unclamped =>
       /\ profile.confidence = InitialConfidence + Passes - Fails
       /\ \A c \in Clients : tx[c] # None =>
            /\ tx[c].profile.confidence >= InitialConfidence - Fails
            /\ tx[c].profile.confidence <= InitialConfidence + Passes

\* A commit adds its result to those of its decision.
LEMMA JudgedAfter ==
  ASSUME IInv, NEW c \in Clients, NEW decision \in Decision \ {"PENDING"},
         NEW delta \in 1..MaxDelta, SubmitCommit(c, decision, delta),
         NEW x, x # "PENDING"
  PROVE  /\ x # decision => Judged(x)' = Judged(x)
         /\ x = decision => \E judged : judged \notin Judged(x) /\ Judged(x)' = Judged(x) \cup {judged}
<1>1. PICK d \in Dims : \E i \in DOMAIN timeline[d], y \in Result :
         /\ timeline' = [timeline EXCEPT ![d] = [timeline[d] EXCEPT ![i] = y]]
         /\ timeline[d][i].decision = "PENDING" /\ y.decision = decision
  BY CommitDecides
<1>2. PICK i \in DOMAIN timeline[d], y \in Result :
         /\ timeline' = [timeline EXCEPT ![d] = [timeline[d] EXCEPT ![i] = y]]
         /\ timeline[d][i].decision = "PENDING" /\ y.decision = decision
  BY <1>1
<1> DEFINE Of(T) == {k \in DOMAIN T : T[k].decision = x}
<1>3. \A e \in Dims : timeline'[e] = IF e = d THEN [timeline[d] EXCEPT ![i] = y] ELSE timeline[e]
  BY <1>2 DEF IInv, TypeOK
<1>4. timeline[d] \in Seq(Result)
  BY DEF IInv, TypeOK
<1>5. \A e \in Dims : e # d => Of(timeline'[e]) = Of(timeline[e])
  BY <1>3
<1>6. /\ i \notin Of(timeline[d])
      /\ Of(timeline'[d]) = IF x = decision THEN Of(timeline[d]) \cup {i} ELSE Of(timeline[d])
  BY <1>2, <1>3, <1>4
<1>7. \A e : e \in Judged(x) <=> \E a \in Dims : \E k \in Of(timeline[a]) : e = <<a, k>>
  BY DEF Judged
<1>8. \A e : e \in Judged(x)' <=> \E a \in Dims : \E k \in Of(timeline'[a]) : e = <<a, k>>
  BY DEF Judged
<1> HIDE DEF Of
<1>9. <<d, i>> \notin Judged(x)
  BY <1>6, <1>7
<1>10. CASE x # decision
  BY <1>5, <1>6, <1>7, <1>8, <1>10
<1>11. CASE x = decision
  <2>1. \A e : e \in Judged(x)' <=> e \in Judged(x) \/ e = <<d, i>>
    BY <1>5, <1>6, <1>7, <1>8, <1>11
  <2>2. Judged(x)' = Judged(x) \cup {<<d, i>>}
    BY <2>1
  <2> QED
    BY <1>9, <1>11, <2>2
<1> QED
  BY <1>10, <1>11

LEMMA CountsAre ==
  ASSUME ConfidenceInv
  PROVE  Passes \in Nat /\ Fails \in Nat
BY FS_CardinalityType DEF ConfidenceInv, Passes, Fails

\* A commit moves the profile from the row that is current, or not at all.
LEMMA CommitMoves ==
  ASSUME IInv, NEW c \in Clients, NEW decision \in Decision \ {"PENDING"},
         NEW delta \in 1..MaxDelta, SubmitCommit(c, decision, delta), HasReadProfile(tx[c]),
         NEW before, before = tx[c].profile.confidence,
         NEW after, after = ConfidenceAfter(before, decision, delta)
  PROVE  /\ tx[c] # None /\ before \in 0..MaxConfidence
         /\ \A x \in Clients : tx'[x] = None \/ tx'[x] = tx[x]
         /\ \/ after = before /\ profile' = profile
            \/ /\ after # before /\ profile = tx[c].profile /\ profile'.confidence = after
               /\ profile'.version = profile.version + 1
<1>1. tx[c] # None /\ tx[c] \in Submission
  BY DEF SubmitCommit, IInv, TypeOK
<1>2. tx[c].profile \in Profile /\ before \in 0..MaxConfidence
  BY <1>1 DEF Submission, Profile
<1>3. /\ after # before => profile.version = tx[c].profile.version
      /\ profile' = IF after # before
                    THEN [confidence |-> after, version |-> tx[c].profile.version + 1]
                    ELSE profile
      /\ tx' = [tx EXCEPT ![c] = None]
  BY DEF SubmitCommit, SameVersion
<1>4. \A x \in Clients : tx'[x] = None \/ tx'[x] = tx[x]
  BY <1>3 DEF IInv, TypeOK
<1> QED
  BY <1>1, <1>2, <1>3, <1>4 DEF HasReadProfile

LEMMA ConfidenceStep ==
  ASSUME IInv, ConfidenceInv, [Next]_vars
  PROVE  ConfidenceInv'
<1> USE ConfidenceAssumption
<1>1. Passes \in Nat /\ Fails \in Nat
  BY CountsAre
<1>2. profile \in Profile /\ (\A c \in Clients : tx[c] # None => tx[c].profile \in Profile)
  BY DEF IInv, TypeOK, Submission
<1>3. profile.version \in Nat /\ profile.confidence \in 0..MaxConfidence
      /\ \A c \in Clients : tx[c] # None =>
           tx[c].profile.version \in Nat /\ tx[c].profile.confidence \in 0..MaxConfidence
  BY <1>2 DEF Profile
<1>4. CASE /\ \A d \in Dims : Undecided(timeline[d], timeline'[d])
           /\ profile' = profile
           /\ \A c \in Clients : tx'[c] \in {None, tx[c]} \/ tx'[c].profile = profile
  <2>1. Judged("PASS")' = Judged("PASS") /\ Judged("FAIL")' = Judged("FAIL")
    BY <1>4, SameJudged
  <2>2. Passes' = Passes /\ Fails' = Fails
    BY <2>1 DEF Passes, Fails
  <2>3. \A c \in Clients : HasReadProfile(tx[c])'
    BY <1>3, <1>4 DEF ConfidenceInv, HasReadProfile
  <2>4. Unclamped' => Unclamped
    BY <2>2 DEF Unclamped
  <2>5. Unclamped =>
          /\ profile.confidence = InitialConfidence + Passes - Fails
          /\ profile.confidence >= InitialConfidence - Fails
          /\ profile.confidence <= InitialConfidence + Passes
    BY <1>1 DEF ConfidenceInv
  <2>6. Unclamped => \A c \in Clients : tx'[c] # None =>
          /\ tx'[c].profile.confidence >= InitialConfidence - Fails
          /\ tx'[c].profile.confidence <= InitialConfidence + Passes
    BY <1>4, <2>5 DEF ConfidenceInv
  <2> QED
    BY <1>4, <2>1, <2>2, <2>3, <2>4, <2>5, <2>6 DEF ConfidenceInv
<1>5. ASSUME NEW c \in Clients, NEW decision \in Decision \ {"PENDING"}, NEW delta \in 1..MaxDelta,
             SubmitCommit(c, decision, delta)
      PROVE  ConfidenceInv'
  <2>1. PICK before : before = tx[c].profile.confidence
    OBVIOUS
  <2>2. PICK after : after = ConfidenceAfter(before, decision, delta)
    OBVIOUS
  <2>3. HasReadProfile(tx[c])
    BY DEF ConfidenceInv
  <2>4. /\ tx[c] # None /\ before \in 0..MaxConfidence
        /\ \A x \in Clients : tx'[x] = None \/ tx'[x] = tx[x]
        /\ \/ after = before /\ profile' = profile
           \/ /\ after # before /\ profile = tx[c].profile /\ profile'.confidence = after
              /\ profile'.version = profile.version + 1
    BY <1>5, <2>1, <2>2, <2>3, CommitMoves
  <2>5. \A x \in Clients : HasReadProfile(tx[x])'
    BY <1>3, <2>4 DEF ConfidenceInv, HasReadProfile
  <2>6. /\ decision # "PASS" => Judged("PASS")' = Judged("PASS")
        /\ decision # "FAIL" => Judged("FAIL")' = Judged("FAIL")
    BY <1>5, JudgedAfter
  <2>7. /\ IsFiniteSet(Judged("PASS"))' /\ IsFiniteSet(Judged("FAIL"))'
        /\ Passes' = IF decision = "PASS" THEN Passes + 1 ELSE Passes
        /\ Fails' = IF decision = "FAIL" THEN Fails + 1 ELSE Fails
    <3>1. CASE decision = "PASS"
      <4>1. PICK judged : judged \notin Judged("PASS") /\ Judged("PASS")' = Judged("PASS") \cup {judged}
        BY <1>5, <3>1, JudgedAfter
      <4>2. IsFiniteSet(Judged("PASS") \cup {judged})
            /\ Cardinality(Judged("PASS") \cup {judged}) = Cardinality(Judged("PASS")) + 1
        BY <4>1, FS_AddElement DEF ConfidenceInv
      <4> QED
        BY <2>6, <3>1, <4>1, <4>2 DEF ConfidenceInv, Passes, Fails
    <3>2. CASE decision = "FAIL"
      <4>1. PICK judged : judged \notin Judged("FAIL") /\ Judged("FAIL")' = Judged("FAIL") \cup {judged}
        BY <1>5, <3>2, JudgedAfter
      <4>2. IsFiniteSet(Judged("FAIL") \cup {judged})
            /\ Cardinality(Judged("FAIL") \cup {judged}) = Cardinality(Judged("FAIL")) + 1
        BY <4>1, FS_AddElement DEF ConfidenceInv
      <4> QED
        BY <2>6, <3>2, <4>1, <4>2 DEF ConfidenceInv, Passes, Fails
    <3>3. CASE decision \notin {"PASS", "FAIL"}
      BY <2>6, <3>3 DEF ConfidenceInv, Passes, Fails
    <3> QED
      BY <3>1, <3>2, <3>3
  <2>8. Unclamped' => Unclamped
    BY <1>1, <2>7 DEF Unclamped
  <2>9. Unclamped' => /\ before >= InitialConfidence - Fails /\ before <= InitialConfidence + Passes
                      /\ profile.confidence = InitialConfidence + Passes - Fails
    BY <2>1, <2>4, <2>8 DEF ConfidenceInv
  <2>10. Unclamped' => /\ decision = "PASS" => after = before + 1
                       /\ decision = "FAIL" => after = before - 1
                       /\ decision \notin {"PASS", "FAIL"} => after = before
    <3> SUFFICES ASSUME Unclamped'
                 PROVE  /\ decision = "PASS" => after = before + 1
                        /\ decision = "FAIL" => after = before - 1
                        /\ decision \notin {"PASS", "FAIL"} => after = before
      OBVIOUS
    <3>1. delta = 1
      BY DEF Unclamped
    <3>2. decision = "PASS" => before + 1 <= MaxConfidence
      BY <1>1, <2>4, <2>7, <2>9 DEF Unclamped
    <3>3. decision = "FAIL" => before - 1 >= 0
      BY <1>1, <2>4, <2>7, <2>9 DEF Unclamped
    <3> QED
      BY <2>2, <2>4, <3>1, <3>2, <3>3 DEF ConfidenceAfter, Clamp
  <2>11. Unclamped' => profile'.confidence = InitialConfidence + Passes' - Fails'
    BY <1>1, <2>1, <2>4, <2>7, <2>9, <2>10
  <2>12. Unclamped' => \A x \in Clients : tx'[x] # None =>
           /\ tx'[x].profile.confidence >= InitialConfidence - Fails'
           /\ tx'[x].profile.confidence <= InitialConfidence + Passes'
    <3> SUFFICES ASSUME Unclamped', NEW x \in Clients, tx'[x] # None
                 PROVE  /\ tx'[x].profile.confidence >= InitialConfidence - Fails'
                        /\ tx'[x].profile.confidence <= InitialConfidence + Passes'
      OBVIOUS
    <3>1. tx'[x] = tx[x] /\ tx[x].profile.confidence \in 0..MaxConfidence
      BY <1>3, <2>4
    <3>2. /\ tx[x].profile.confidence >= InitialConfidence - Fails
          /\ tx[x].profile.confidence <= InitialConfidence + Passes
      BY <2>8, <3>1 DEF ConfidenceInv
    <3> QED
      BY <1>1, <2>7, <3>1, <3>2
  <2> QED
    BY <2>5, <2>7, <2>11, <2>12 DEF ConfidenceInv
<1> QED
  BY <1>4, <1>5, OnlyCommitsDecide

\* Judges that decide at the same moment do not lose each other's update of the
\* confidence, although one that read a clamped value writes nothing and its row is
\* not checked: as long as no decision can have met a clamp, all of them are in it.
THEOREM ConfidenceAdds == Spec => []ConfidenceIsAccounted
<1>1. ASSUME Init PROVE ConfidenceInv
  <2>1. Judged("PASS") = {} /\ Judged("FAIL") = {}
    BY <1>1 DEF Init, Judged
  <2>2. Passes = 0 /\ Fails = 0 /\ IsFiniteSet(Judged("PASS")) /\ IsFiniteSet(Judged("FAIL"))
    BY <2>1, FS_EmptySet DEF Passes, Fails
  <2>3. (\A c \in Clients : tx[c] = None) /\ profile.confidence = InitialConfidence
    BY <1>1 DEF Init
  <2> QED
    BY <2>2, <2>3, ConfidenceAssumption DEF ConfidenceInv, HasReadProfile
<1>2. IInv /\ ConfidenceInv /\ [Next]_vars => (IInv /\ ConfidenceInv)'
  BY ConfidenceStep, NextInv
<1>3. ConfidenceInv => ConfidenceIsAccounted
  BY DEF ConfidenceInv, ConfidenceIsAccounted, Unclamped, Passes, Fails
<1> QED
  BY <1>1, <1>2, <1>3, InitInv, PTL DEF Spec

-----------------------------------------------------------------------------
(* The refinement: what the timelines credit to each record is a ledger.   *)

\* The operators of the refinement mapping, for one timeline.
ForceOf(T) == {i \in DOMAIN T : ~ \E j \in DOMAIN T : T[j].supersedes = i}
CountedOf(T, r) == {i \in ForceOf(T) : T[i].rec = r}
Credit(T, r) ==
  IF CountedOf(T, r) = {} THEN 0 ELSE T[CHOOSE i \in CountedOf(T, r) : TRUE].gain
NewestOf(T) == IF T = <<>> THEN {} ELSE {T[Len(T)].rec}

\* A result moves the score by its gain.
SumsUp(T) == \A i \in 1..Len(T) : T[i].new = T[i].old + T[i].gain

LEMMA MappedBy ==
  ASSUME NEW d
  PROVE  /\ \A r : CreditOf(d, r) = Credit(timeline[d], r)
         /\ \A r : CreditOf(d, r)' = Credit(timeline'[d], r)
         /\ NewestRecord(d) = NewestOf(timeline[d])
         /\ NewestRecord(d)' = NewestOf(timeline'[d])
BY DEF CreditOf, InForce, Credit, CountedOf, ForceOf, NewestRecord, NewestOf

\* The only result of a record in force is what the record counts.
LEMMA CreditIs ==
  ASSUME NEW T, NEW r, NEW i, CountedOf(T, r) = {i}
  PROVE  Credit(T, r) = T[i].gain
<1>1. (CHOOSE k \in {i} : TRUE) = i
  OBVIOUS
<1>2. CountedOf(T, r) # {}
  OBVIOUS
<1> QED
  BY <1>1, <1>2 DEF Credit

\* Settling results changes no credit.
LEMMA KeptCredit ==
  ASSUME NEW T \in Seq(Result), NEW U \in Seq(Result), KeptResults(T, U)
  PROVE  /\ \A r : Credit(U, r) = Credit(T, r)
         /\ NewestOf(U) = NewestOf(T)
         /\ SumsUp(T) => SumsUp(U)
<1>1. /\ Len(U) = Len(T) /\ Len(T) \in Nat
      /\ DOMAIN T = 1..Len(T) /\ DOMAIN U = 1..Len(T)
      /\ T = <<>> <=> U = <<>>
      /\ T # <<>> => Len(T) \in 1..Len(T)
  BY DEF KeptResults
<1>2. \A i \in 1..Len(T) : /\ U[i].rec = T[i].rec /\ U[i].supersedes = T[i].supersedes
                           /\ U[i].old = T[i].old /\ U[i].new = T[i].new
                           /\ U[i].gain = T[i].gain
  BY DEF KeptResults, Settles
<1>3. ForceOf(U) = ForceOf(T) /\ ForceOf(T) \subseteq 1..Len(T)
  BY <1>1, <1>2 DEF ForceOf
<1>4. ASSUME NEW r PROVE Credit(U, r) = Credit(T, r)
  <2>1. CountedOf(U, r) = CountedOf(T, r) /\ CountedOf(T, r) \subseteq 1..Len(T)
    BY <1>2, <1>3 DEF CountedOf
  <2>2. CASE CountedOf(T, r) = {}
    BY <2>1, <2>2 DEF Credit
  <2>3. CASE CountedOf(T, r) # {}
    <3>1. PICK k : k = CHOOSE i \in CountedOf(T, r) : TRUE
      OBVIOUS
    <3>2. k \in CountedOf(T, r)
      BY <2>3, <3>1
    <3> QED
      BY <1>2, <2>1, <2>3, <3>1, <3>2 DEF Credit
  <2> QED
    BY <2>2, <2>3
<1>5. NewestOf(U) = NewestOf(T)
  BY <1>1, <1>2 DEF NewestOf
<1>6. SumsUp(T) => SumsUp(U)
  BY <1>1, <1>2 DEF SumsUp
<1> QED
  BY <1>4, <1>5, <1>6

\* A result that follows the others credits its record, which either counted
\* nothing or was the one credited last, and the other credits stay.
LEMMA GrownCredit ==
  ASSUME NEW T \in Seq(Result), NEW U \in Seq(Result), NEW s \in Nat,
         NEW p \in Nat, NEW new \in Result,
         TimelineInv(T, s), SumsUp(T), Follows(T, s, p, new), Grows(T, U, p, new)
  PROVE  /\ Credit(T, new.rec) = 0 \/ new.rec \in NewestOf(T)
         /\ new.old = s - Credit(T, new.rec)
         /\ Credit(U, new.rec) = new.gain
         /\ \A r : r # new.rec => Credit(U, r) = Credit(T, r)
         /\ NewestOf(U) = {new.rec}
<1> DEFINE n == Len(T) + 1
<1>1. /\ Len(U) = n /\ U[n] = new /\ U # <<>>
      /\ DOMAIN T = 1..Len(T) /\ DOMAIN U = 1..n /\ Len(T) \in Nat
  BY DEF Grows
<1>2. /\ \A i \in 1..n : i = n \/ i \in 1..Len(T)
      /\ \A i \in 1..Len(T) : i \in 1..n /\ i # n /\ i # 0
      /\ n \in 1..n /\ n # 0
  BY <1>1
<1>3. \A i \in 1..Len(T) : /\ U[i].rec = T[i].rec /\ U[i].supersedes = T[i].supersedes
                           /\ U[i].gain = T[i].gain
  BY DEF Grows
<1>4. new.supersedes = p
  BY DEF Follows
<1>5. p # 0 => p = Len(T) /\ p \in 1..Len(T) /\ T # <<>> /\ p + 1 = n
  BY <1>1 DEF Follows
<1>6. p # 0 => new.old = T[p].old /\ T[p].rec = new.rec
  BY DEF Follows
<1>7. p = 0 => new.old = s /\ \A i \in 1..Len(T) : T[i].rec # new.rec
  BY DEF Follows
<1>8. \A j \in 1..Len(T) : T[j].supersedes # n /\ (p # 0 => T[j].supersedes # p)
  <2> TAKE j \in 1..Len(T)
  <2>1. T[j].supersedes = 0 \/ T[j].supersedes = j - 1
    BY DEF TimelineInv, ReplacesPrevious
  <2>2. j - 1 # n /\ j - 1 # Len(T)
    BY <1>1
  <2> QED
    BY <1>2, <1>5, <2>1, <2>2
<1>9. ForceOf(U) = (ForceOf(T) \ {p}) \cup {n} /\ ForceOf(T) \subseteq 1..Len(T)
  <2>1. n \in ForceOf(U)
    <3>1. p # n
      BY <1>2, <1>5
    <3> QED
      BY <1>1, <1>2, <1>3, <1>4, <1>8, <3>1 DEF ForceOf
  <2>2. ASSUME NEW i \in 1..Len(T)
        PROVE  i \in ForceOf(U) <=> i \in ForceOf(T) /\ i # p
    <3>1. i \in ForceOf(U) <=> ~ \E j \in 1..n : U[j].supersedes = i
      BY <1>1, <1>2 DEF ForceOf
    <3>2. i \in ForceOf(T) <=> ~ \E j \in 1..Len(T) : T[j].supersedes = i
      BY <1>1 DEF ForceOf
    <3>3. (\E j \in 1..n : U[j].supersedes = i)
            <=> i = p \/ \E j \in 1..Len(T) : T[j].supersedes = i
      BY <1>1, <1>2, <1>3, <1>4
    <3> QED
      BY <3>1, <3>2, <3>3
  <2>3. ForceOf(U) \subseteq 1..n /\ ForceOf(T) \subseteq 1..Len(T)
    BY <1>1 DEF ForceOf
  <2> HIDE DEF n
  <2>4. \A i : i \in ForceOf(U) <=> (i \in ForceOf(T) /\ i # p) \/ i = n
    BY <1>2, <2>1, <2>2, <2>3
  <2> QED
    BY <2>3, <2>4
<1> HIDE DEF n
<1>10. ASSUME NEW i \in ForceOf(T), T[i].rec = new.rec PROVE i = p /\ p # 0
  <2>1. i \in 1..Len(T)
    BY <1>9
  <2>2. p # 0
    BY <1>7, <1>10, <2>1
  <2>3. ASSUME i # p PROVE FALSE
    <3>1. i < p /\ i + 1 \in 1..Len(T)
      BY <1>1, <1>5, <2>1, <2>2, <2>3
    <3>2. T[i + 1].supersedes = i
      BY <1>5, <1>6, <1>10, <2>1, <2>2, <3>1 DEF TimelineInv, ReplacedByNext
    <3> QED
      BY <1>1, <3>1, <3>2 DEF ForceOf
  <2> QED
    BY <2>2, <2>3
<1>11. Credit(U, new.rec) = new.gain
  <2>1. CountedOf(U, new.rec) = {n}
    <3>1. \A i \in ForceOf(U) : i = n \/ (i \in ForceOf(T) /\ i # p /\ i \in 1..Len(T))
      BY <1>9
    <3>2. \A i \in ForceOf(U) : U[i].rec = new.rec => i = n
      BY <1>3, <1>10, <3>1
    <3>3. n \in ForceOf(U)
      BY <1>9
    <3> QED
      BY <1>1, <3>2, <3>3 DEF CountedOf
  <2> QED
    BY <1>1, <2>1, CreditIs
<1>12. ASSUME NEW r, r # new.rec PROVE Credit(U, r) = Credit(T, r)
  <2>1. CountedOf(T, r) \subseteq 1..Len(T)
    BY <1>9 DEF CountedOf
  <2>2. CountedOf(U, r) = CountedOf(T, r)
    <3>1. \A i \in 1..Len(T) : i = p => T[i].rec # r
      BY <1>2, <1>6, <1>12
    <3>2. \A i : i \in CountedOf(U, r) <=> i \in ForceOf(U) /\ U[i].rec = r
      BY DEF CountedOf
    <3>3. \A i : i \in CountedOf(T, r) <=> i \in ForceOf(T) /\ T[i].rec = r
      BY DEF CountedOf
    <3>4. U[n].rec # r
      BY <1>1, <1>12
    <3>5. \A i : i \in CountedOf(U, r) <=> i \in CountedOf(T, r)
      BY <1>3, <1>9, <3>1, <3>2, <3>3, <3>4
    <3> QED
      BY <3>5
  <2>3. CASE CountedOf(T, r) = {}
    BY <2>2, <2>3 DEF Credit
  <2>4. CASE CountedOf(T, r) # {}
    <3>1. PICK k : k = CHOOSE i \in CountedOf(T, r) : TRUE
      OBVIOUS
    <3>2. k \in CountedOf(T, r)
      BY <2>4, <3>1
    <3> QED
      BY <1>3, <2>1, <2>2, <2>4, <3>1, <3>2 DEF Credit
  <2> QED
    BY <2>3, <2>4
<1>13. CASE p = 0
  <2>1. CountedOf(T, new.rec) = {}
    BY <1>10, <1>13 DEF CountedOf
  <2>2. Credit(T, new.rec) = 0
    BY <2>1 DEF Credit
  <2>3. NewestOf(U) = {new.rec}
    BY <1>1 DEF NewestOf
  <2> QED
    BY <1>7, <1>11, <1>12, <1>13, <2>2, <2>3
<1>14. CASE p # 0
  <2>1. p \in ForceOf(T)
    BY <1>1, <1>5, <1>8, <1>14 DEF ForceOf
  <2>2. CountedOf(T, new.rec) = {p}
    BY <1>6, <1>10, <1>14, <2>1 DEF CountedOf
  <2>3. Credit(T, new.rec) = T[p].gain
    BY <2>2, CreditIs
  <2>4. s = T[p].new
    BY <1>5, <1>14 DEF TimelineInv, EndsAt
  <2>5. T[p].new = T[p].old + T[p].gain
    BY <1>5, <1>14 DEF SumsUp
  <2>6. T[p].old \in Nat /\ T[p].gain \in Nat
    <3>1. T[p] \in Result
      BY <1>5, <1>14
    <3> QED
      BY <3>1, ResultFields
  <2>7. new.old = s - Credit(T, new.rec)
    BY <1>6, <1>14, <2>3, <2>4, <2>5, <2>6
  <2>8. new.rec \in NewestOf(T)
    BY <1>5, <1>6, <1>14 DEF NewestOf
  <2>9. NewestOf(U) = {new.rec}
    BY <1>1 DEF NewestOf
  <2> QED
    BY <1>11, <1>12, <2>7, <2>8, <2>9
<1> QED
  BY <1>13, <1>14

\* What an ability's ledger keeps, and what a credit of record r does to it.
Stays(d, U, a) ==
  /\ \A q : Credit(U, q) = Credit(timeline[d], q)
  /\ NewestOf(U) = NewestOf(timeline[d])
  /\ a.score = ability[d].score
Moves(d, r, gain, U, a) ==
  /\ Credit(timeline[d], r) = 0 \/ r \in NewestOf(timeline[d])
  /\ \A q : Credit(U, q) = IF q = r THEN gain ELSE Credit(timeline[d], q)
  /\ NewestOf(U) = {r}
  /\ a.score = ability[d].score - Credit(timeline[d], r) + gain

\* Settled results stay in the ledger as they are.
LEMMA KeptStays ==
  ASSUME IInv, NEW d \in Dims, SumsUp(timeline[d]), NEW U \in Seq(Result), NEW a,
         Steps(d, U, a), Len(U) = Len(timeline[d])
  PROVE  Stays(d, U, a) /\ SumsUp(U)
<1>1. timeline[d] \in Seq(Result)
  BY DEF IInv, TypeOK
<1>2. ~Grown(d, U, a)
  BY <1>1 DEF Grown, Grows
<1>3. KeptResults(timeline[d], U) /\ a.score = ability[d].score
  BY <1>2 DEF Steps, Kept
<1> QED
  BY <1>1, <1>3, KeptCredit DEF Stays

\* A written result credits its record with its gain.
LEMMA WriteMoves ==
  ASSUME IInv, NEW d \in Dims, SumsUp(timeline[d]), NEW r \in Records, NEW e \in Evidence,
         NEW p, IsPrior(d, r, p), Writes(d, r, e, p), NEW v \in Verdict
  PROVE  /\ Moves(d, r, v.gain, ScoredTimeline(d, r, e, p, v), ScoredAbility(d, r, e, p, v))
         /\ SumsUp(ScoredTimeline(d, r, e, p, v))
<1>1. PICK U : U = ScoredTimeline(d, r, e, p, v)
  OBVIOUS
<1>2. PICK a : a = ScoredAbility(d, r, e, p, v)
  OBVIOUS
<1> DEFINE T == timeline[d]
           s == ability[d].score
<1>3. U \in Seq(Result)
  BY <1>1, WriteStep DEF Steps
<1>4. PICK new \in Result :
        /\ Follows(T, s, p, new) /\ Grows(T, U, p, new)
        /\ a.score = new.new
        /\ new.rec = r /\ new.gain = v.gain /\ new.new = new.old + new.gain
  BY <1>1, <1>2, WriteStep
<1>5. T \in Seq(Result) /\ s \in Nat /\ TimelineInv(T, s)
  BY DEF IInv, TypeOK, AbilityState
<1>6. Len(T) \in Nat
  BY <1>5
<1>7. p \in Nat
  BY <1>4, <1>6 DEF Follows
<1> HIDE DEF T, s
<1>8. SumsUp(T)
  BY DEF T
<1>9. /\ Credit(T, r) = 0 \/ r \in NewestOf(T)
      /\ new.old = s - Credit(T, r)
      /\ Credit(U, r) = new.gain
      /\ \A q : q # r => Credit(U, q) = Credit(T, q)
      /\ NewestOf(U) = {r}
  BY <1>3, <1>4, <1>5, <1>7, <1>8, GrownCredit
<1>10. SumsUp(U)
  <2>1. \A i \in 1..Len(T) : /\ U[i].new = T[i].new /\ U[i].old = T[i].old
                             /\ U[i].gain = T[i].gain
    BY <1>4 DEF Grows
  <2>2. Len(U) = Len(T) + 1 /\ U[Len(T) + 1] = new
    BY <1>4 DEF Grows
  <2>3. \A i \in 1..Len(U) : i \in 1..Len(T) \/ i = Len(T) + 1
    BY <1>6, <2>2
  <2> QED
    BY <1>4, <1>8, <2>1, <2>2, <2>3 DEF SumsUp
<1>11. Moves(d, r, v.gain, U, a)
  BY <1>4, <1>9 DEF Moves, T, s
<1> QED
  BY <1>1, <1>2, <1>10, <1>11

\* score() credits its record in the abilities it writes a result of, and leaves
\* the ledgers of the others as they are.
LEMMA ScoreIsMove ==
  ASSUME IInv, \A d \in Dims : SumsUp(timeline[d]),
         NEW r \in Records, NEW e \in Evidence, Score(r, e)
  PROVE  /\ \A d \in Dims : SumsUp(timeline'[d])
         /\ \E D \in SUBSET Dims : \E gains \in [D -> AllGains] :
              \A d \in Dims :
                IF d \in D THEN Moves(d, r, gains[d], timeline'[d], ability'[d])
                           ELSE Stays(d, timeline'[d], ability'[d])
<1>1. PICK v \in [extracted[<<r, e>>] -> Verdicts[e]],
           prior \in [Dims -> {0} \cup UNION {DOMAIN timeline[d] : d \in Dims}] :
        /\ \A d \in Dims : IsPrior(d, r, prior[d])
        /\ timeline' = [d \in Dims |-> ScoredTimeline(d, r, e, prior[d], v[d])]
        /\ ability' = [d \in Dims |-> ScoredAbility(d, r, e, prior[d], v[d])]
  BY DEF Score
<1> DEFINE D == {d \in Dims : Writes(d, r, e, prior[d])}
           gains == [d \in D |-> v[d].gain]
<1>2. ASSUME NEW d \in D PROVE v[d] \in Verdict /\ v[d].gain \in AllGains
  <2>1. v[d] \in Verdicts[e]
    BY <1>1 DEF Writes
  <2> QED
    BY <2>1, VerdictsAssumption DEF AllGains
<1>3. ASSUME NEW d \in D
      PROVE  Moves(d, r, gains[d], timeline'[d], ability'[d]) /\ SumsUp(timeline'[d])
  BY <1>1, <1>2, WriteMoves
<1>4. ASSUME NEW d \in Dims, d \notin D
      PROVE  Stays(d, timeline'[d], ability'[d]) /\ SumsUp(timeline'[d])
  <2>1. ~Writes(d, r, e, prior[d])
    BY <1>4
  <2>2. Steps(d, timeline'[d], ability'[d])
    BY <1>1, <2>1, ReuseStep
  <2>3. timeline[d] \in Seq(Result) /\ timeline'[d] \in Seq(Result)
    BY <2>2 DEF Steps, IInv, TypeOK
  <2>4. DOMAIN timeline'[d] = DOMAIN timeline[d]
    BY <1>1, <2>1 DEF ScoredTimeline
  <2>5. Len(timeline'[d]) = Len(timeline[d])
    BY <2>3, <2>4
  <2> QED
    BY <2>2, <2>3, <2>5, KeptStays
<1>5. gains \in [D -> AllGains] /\ D \in SUBSET Dims
  BY <1>2
<1> HIDE DEF gains, D
<1> QED
  BY <1>3, <1>4, <1>5

\* Nothing else touches the ledgers.
LEMMA OthersStay ==
  ASSUME IInv, \A d \in Dims : SumsUp(timeline[d]), [Next]_vars,
         \A r \in Records, e \in Evidence : ~Score(r, e)
  PROVE  \A d \in Dims : Stays(d, timeline'[d], ability'[d]) /\ SumsUp(timeline'[d])
<1>1. \A d \in Dims : Steps(d, timeline'[d], ability'[d])
  BY NextInv
<1>2. \A d \in Dims : timeline[d] \in Seq(Result) /\ timeline'[d] \in Seq(Result)
  BY <1>1 DEF Steps, IInv, TypeOK
<1>3. ASSUME NEW d \in Dims, NEW i \in DOMAIN timeline[d], NEW y,
             timeline' = [timeline EXCEPT ![d] = [timeline[d] EXCEPT ![i] = y]]
      PROVE  \A x \in Dims : DOMAIN timeline'[x] = DOMAIN timeline[x]
  BY <1>3 DEF IInv, TypeOK
<1>4. ASSUME timeline' = timeline
      PROVE  \A x \in Dims : DOMAIN timeline'[x] = DOMAIN timeline[x]
  BY <1>4
<1>5. ASSUME NEW d \in Dims, NEW i \in DOMAIN timeline[d], JudgeStart(d, i)
      PROVE  \A x \in Dims : DOMAIN timeline'[x] = DOMAIN timeline[x]
  BY <1>3, <1>5 DEF JudgeStart
<1>6. ASSUME NEW c \in Clients, NEW decision \in Decision \ {"PENDING"},
             NEW delta \in 1..MaxDelta, SubmitCommit(c, decision, delta)
      PROVE  \A x \in Dims : DOMAIN timeline'[x] = DOMAIN timeline[x]
  <2>1. \E d \in Dims : \E i \in DOMAIN timeline[d], y \in Result :
          timeline' = [timeline EXCEPT ![d] = [timeline[d] EXCEPT ![i] = y]]
    BY <1>6, CommitDecides
  <2> QED
    BY <1>3, <2>1
<1>7. \A x \in Dims : DOMAIN timeline'[x] = DOMAIN timeline[x]
  BY <1>4, <1>5, <1>6
     DEF Next, vars, SaveAssessment, SubmitBegin, SubmitAbort
<1>8. \A d \in Dims : Len(timeline'[d]) = Len(timeline[d])
  BY <1>2, <1>7
<1> QED
  BY <1>1, <1>2, <1>8, KeptStays

\* A step of the tables is a step of the ledger.
LEMMA LedgerNext ==
  ASSUME IInv, \A d \in Dims : SumsUp(timeline[d]), [Next]_vars
  PROVE  /\ [Ledger!Next]_(Ledger!ledger)
         /\ \A d \in Dims : SumsUp(timeline'[d])
<1>1. /\ \A d \in Dims : \A q \in Records :
           /\ CreditOf(d, q) = Credit(timeline[d], q)
           /\ CreditOf(d, q)' = Credit(timeline'[d], q)
      /\ \A d \in Dims : /\ NewestRecord(d) = NewestOf(timeline[d])
                         /\ NewestRecord(d)' = NewestOf(timeline'[d])
  BY MappedBy
<1>2. ASSUME NEW r \in Records, NEW e \in Evidence, Score(r, e) PROVE Ledger!Next
  <2>1. PICK D \in SUBSET Dims : \E gains \in [D -> AllGains] :
              \A d \in Dims :
                IF d \in D THEN Moves(d, r, gains[d], timeline'[d], ability'[d])
                           ELSE Stays(d, timeline'[d], ability'[d])
    BY <1>2, ScoreIsMove
  <2>2. PICK gains \in [D -> AllGains] :
              \A d \in Dims :
                IF d \in D THEN Moves(d, r, gains[d], timeline'[d], ability'[d])
                           ELSE Stays(d, timeline'[d], ability'[d])
    BY <2>1
  <2>3. \A d \in DOMAIN gains : Ledger!MayMove(d, r)
    BY <1>1, <2>2 DEF Ledger!MayMove, Moves
  <2>4. [d \in Dims |-> [q \in Records |-> CreditOf(d, q)]]'
          = [d \in Dims |-> IF d \in DOMAIN gains
               THEN [[q \in Records |-> CreditOf(d, q)] EXCEPT ![r] = gains[d]]
               ELSE [q \in Records |-> CreditOf(d, q)]]
    <3>1. ASSUME NEW d \in Dims
          PROVE  [q \in Records |-> CreditOf(d, q)]'
                   = IF d \in DOMAIN gains
                     THEN [[q \in Records |-> CreditOf(d, q)] EXCEPT ![r] = gains[d]]
                     ELSE [q \in Records |-> CreditOf(d, q)]
      <4>1. CASE d \in DOMAIN gains
        <5>1. \A q \in Records : Credit(timeline'[d], q)
                 = IF q = r THEN gains[d] ELSE Credit(timeline[d], q)
          BY <2>2, <4>1 DEF Moves
        <5> QED
          BY <1>1, <4>1, <5>1
      <4>2. CASE d \notin DOMAIN gains
        <5>1. \A q \in Records : Credit(timeline'[d], q) = Credit(timeline[d], q)
          BY <2>2, <4>2 DEF Stays
        <5> QED
          BY <1>1, <4>2, <5>1
      <4> QED
        BY <4>1, <4>2
    <3> QED
      BY <3>1
  <2>5. [d \in Dims |-> ability[d].score]'
          = [d \in Dims |-> IF d \in DOMAIN gains
               THEN ability[d].score - CreditOf(d, r) + gains[d]
               ELSE ability[d].score]
    BY <1>1, <2>2 DEF Moves, Stays
  <2>6. [d \in Dims |-> NewestRecord(d)]'
          = [d \in Dims |-> IF d \in DOMAIN gains THEN {r} ELSE NewestRecord(d)]
    BY <1>1, <2>2 DEF Moves, Stays
  <2>7. Ledger!Move(r, gains)
    BY <2>2, <2>3, <2>4, <2>5, <2>6 DEF Ledger!Move, Ledger!Rebalanced
  <2> QED
    BY <2>2, <2>7 DEF Ledger!Next
<1>3. ASSUME \A r \in Records, e \in Evidence : ~Score(r, e)
      PROVE  UNCHANGED Ledger!ledger
  <2>1. \A d \in Dims : Stays(d, timeline'[d], ability'[d])
    BY <1>3, OthersStay
  <2> QED
    BY <1>1, <2>1 DEF Stays, Ledger!ledger
<1>4. \A d \in Dims : SumsUp(timeline'[d])
  BY ScoreIsMove, OthersStay
<1> QED
  BY <1>2, <1>3, <1>4

\* The ledgers start empty.
LEMMA LedgerInit ==
  ASSUME Init
  PROVE  Ledger!Init /\ \A d \in Dims : SumsUp(timeline[d])
<1>1. \A d \in Dims : timeline[d] = <<>> /\ ability[d].score = 0
  BY DEF Init
<1>2. \A d \in Dims : \A r \in Records : CreditOf(d, r) = 0
  BY <1>1 DEF CreditOf, InForce
<1>3. \A d \in Dims : NewestRecord(d) = {}
  BY <1>1 DEF NewestRecord
<1> QED
  BY <1>1, <1>2, <1>3 DEF Ledger!Init, SumsUp

\* Redeliveries, corrections, replays, judges and their races move a score only as
\* a ledger does that has one credit per record, corrected only while its record is
\* the newest: score() never adds a second result of a record to the first.
THEOREM ScoresAreLedger == Spec => ImplementsCreditLedger
<1> DEFINE Sums == \A d \in Dims : SumsUp(timeline[d])
<1>1. Init => Ledger!Init /\ Sums
  BY LedgerInit
<1>2. IInv /\ Sums /\ [Next]_vars => IInv' /\ Sums' /\ [Ledger!Next]_(Ledger!ledger)
  BY LedgerNext, NextInv
<1> HIDE DEF Sums
<1> QED
  BY <1>1, <1>2, InitInv, PTL DEF Spec, ImplementsCreditLedger, Ledger!Spec
=============================================================================
