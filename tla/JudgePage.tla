------------------------------ MODULE JudgePage ------------------------------
(***************************************************************************)
(* The abilities of the student's achievements page                        *)
(* (StudentAchievementsView.vue) and its dialog for a judge                *)
(* (JudgeDialog.vue): it is opened, its questions are asked for, answered  *)
(* and sent, and then all lists are asked for again; the evidences of the  *)
(* ability that is selected are fetched once and kept until then, and can  *)
(* be marked as milestones.  An answer changes the page when it comes,     *)
(* whatever the page shows by then.                                        *)
(*                                                                         *)
(* Ability n has judge n, and one evidence, of which only its mark is      *)
(* told.  Scores, clusters, the growth tags that stand in for abilities    *)
(* before anything is scored, appeals and reflections are left out.        *)
(***************************************************************************)
EXTENDS Naturals, FiniteSets

CONSTANTS
  Unknown,
  Judges,
  MaxJudgeCalls, MaxJudgesAtOnce \* bounds: calls begun, and under way at once

VARIABLES
  judge,     \* status of each judge at the backend
  marked,    \* of each ability, whether its evidence is a milestone there
  judges,    \* the statuses that the page lists
  active,    \* the judge of the dialog, with its status
  shownJudge, \* the dialog is open
  judgeBusy, refreshing,
  typed,     \* the judge whose questions the typed answers are for
  selected,  \* the ability
  timelines, \* the evidences that the page keeps
  loadingEvidence,
  judgeCalls, judgeBegun,
  wanted,    \* history: the judge that was opened last
  strayed,   \* history: another judge's call was under way then
  hazy,      \* history: judges of which calls overlapped, or an answer was lost
  mixed,     \* history: abilities of which the same holds
  refused    \* history: abilities whose evidences could not be read

judgeVars == <<judge, marked, judges, active, shownJudge, judgeBusy, refreshing, typed,
               selected, timelines, loadingEvidence, judgeCalls, judgeBegun, wanted, strayed,
               hazy, mixed, refused>>

Statuses == {"PENDING", "IN_PROGRESS", "COMPLETED"}

\* There is an ability, and a marker for what is neither a judge nor an answer.
ASSUME JudgesAssumption == Judges # {} /\ Unknown \notin Judges /\ Unknown \notin BOOLEAN

\* loadAll has been answered.
JudgeInit ==
  /\ selected = (CHOOSE a \in Judges : TRUE)
  /\ judge \in [Judges -> {"PENDING", "IN_PROGRESS"}]
  /\ judges = judge
  /\ marked = [a \in Judges |-> FALSE]
  /\ active = Unknown /\ typed = Unknown /\ wanted = Unknown
  /\ shownJudge = FALSE /\ judgeBusy = FALSE /\ refreshing = FALSE /\ strayed = FALSE
  /\ timelines = [a \in Judges |-> IF a = selected THEN FALSE ELSE Unknown]
  /\ loadingEvidence = Unknown
  /\ judgeCalls = {} /\ judgeBegun = 0
  /\ hazy = {} /\ mixed = {} /\ refused = {}

Asking(kinds, of) == \E c \in judgeCalls : c.kind \in kinds /\ c.of \in of

\* by: the action whose button waits for the end of the call.
Ask(kind, of, data, by, others) ==
  /\ judgeBegun < MaxJudgeCalls /\ judgeBegun' = judgeBegun + 1
  /\ Cardinality(others) < MaxJudgesAtOnce
  /\ LET free == {k \in 1 .. MaxJudgeCalls : \A c \in others : c.n # k}
         n == CHOOSE k \in free : \A l \in free : k <= l
     IN  judgeCalls' = others \cup {[n |-> n, kind |-> kind, of |-> of, data |-> data,
                                   by |-> by, stage |-> "sent", got |-> Unknown]}
-----------------------------------------------------------------------------
\* The backend.

\* start and submit leave a judge as it is that has got further; a submission
\* before the start is refused.
Judged(c) ==
  CASE c.kind = "start" -> judge' = [judge EXCEPT ![c.of] =
                             IF @ = "PENDING" THEN "IN_PROGRESS" ELSE @]
    [] c.kind = "submit" -> judge[c.of] # "PENDING"
                              /\ judge' = [judge EXCEPT ![c.of] = "COMPLETED"]
    [] OTHER -> UNCHANGED judge

AbilityAnswer(c) ==
  CASE c.kind \in {"open", "start", "submit"} -> judge'[c.of]
    [] c.kind = "refresh" -> judge'
    [] c.kind \in {"evidence", "mark"} -> marked'[c.of]

AbilityStage(c, stage) ==
  judgeCalls' = (judgeCalls \ {c})
    \cup {[c EXCEPT !.stage = stage,
                    !.got = IF stage = "done" THEN AbilityAnswer(c) ELSE Unknown]}

AbilityServed(c) ==
  /\ Judged(c)
  /\ marked' = IF c.kind = "mark" THEN [marked EXCEPT ![c.of] = c.data] ELSE marked

ServeAbility(c) ==
  /\ c.stage = "sent"
  /\ \/ AbilityServed(c) /\ (AbilityStage(c, "done") \/ AbilityStage(c, "lost"))
     \/ AbilityStage(c, "refused") /\ UNCHANGED <<judge, marked>>
  /\ UNCHANGED <<judges, active, shownJudge, judgeBusy, refreshing, typed, selected,
                 timelines, loadingEvidence, judgeBegun, wanted, strayed, hazy, mixed, refused>>
-----------------------------------------------------------------------------
\* The evidences of the ability that is selected.

\* loadSelectedTagDetail: nothing is asked that is known or being asked.
Known(a) == timelines'[a] # Unknown \/ loadingEvidence = a

LoadEvidence(a, by, others) ==
  /\ loadingEvidence' = a
  /\ Ask("evidence", a, Unknown, by, others)
  /\ mixed' = IF Asking({"mark"}, {a}) THEN mixed \cup {a} ELSE mixed

SelectAbility(a) ==
  /\ ~shownJudge
  /\ selected' = a
  /\ refused' = refused \ {a}
  /\ UNCHANGED timelines
  /\ IF Known(a) THEN UNCHANGED <<loadingEvidence, judgeCalls, judgeBegun, mixed>>
     ELSE LoadEvidence(a, "select", judgeCalls)
  /\ UNCHANGED <<judge, marked, judges, active, shownJudge, judgeBusy, refreshing, typed,
                 wanted, strayed, hazy>>

\* The button is there once the evidences are.
ToggleMilestone ==
  /\ ~shownJudge
  /\ timelines[selected] # Unknown /\ loadingEvidence # selected
  /\ Ask("mark", selected, ~timelines[selected], "none", judgeCalls)
  /\ mixed' = IF Asking({"mark", "evidence"}, {selected}) THEN mixed \cup {selected}
              ELSE mixed
  /\ UNCHANGED <<judge, marked, judges, active, shownJudge, judgeBusy, refreshing, typed,
                 selected, timelines, loadingEvidence, wanted, strayed, hazy, refused>>

\* Plausible bug: the mark that the spinner goes by is left when the call fails.
OnlyAnswered(c) == IF c.stage = "done" THEN Unknown ELSE loadingEvidence

NoLonger(c) == Unknown

\* What a call that ends lets go of.
Released(c) ==
  /\ refreshing' = (refreshing /\ c.by = "select")
  /\ judgeBusy' = (judgeBusy /\ c.by # "submit")

EvidenceLoaded(c) ==
  /\ loadingEvidence' = NoLonger(c)
  /\ IF c.stage = "done"
     THEN timelines' = [timelines EXCEPT ![c.of] = c.got] /\ UNCHANGED refused
     ELSE refused' = refused \cup {c.of} /\ UNCHANGED timelines
  /\ Released(c)
  /\ judgeCalls' = judgeCalls \ {c}
  /\ UNCHANGED <<judges, active, shownJudge, typed, judgeBegun, wanted, strayed, hazy, mixed>>

\* The evidence is looked for in what is selected by then.
Marked(c) ==
  /\ IF c.stage = "done" /\ selected = c.of /\ timelines[c.of] # Unknown
     THEN timelines' = [timelines EXCEPT ![c.of] = c.got]
     ELSE UNCHANGED timelines
  /\ mixed' = IF c.stage = "lost" \/ (selected # c.of /\ timelines[c.of] # Unknown)
              THEN mixed \cup {c.of} ELSE mixed
  /\ judgeCalls' = judgeCalls \ {c}
  /\ UNCHANGED <<judges, active, shownJudge, judgeBusy, refreshing, typed, loadingEvidence,
                 judgeBegun, wanted, strayed, hazy, refused>>
-----------------------------------------------------------------------------
\* The judges.

Moving == {"start", "submit"}

\* Calls of one judge that may be served in one order and answered in another.
Hazy(j, kinds) == IF Asking(kinds, {j, Unknown}) THEN hazy \cup {j} ELSE hazy

OpenJudge(j) ==
  /\ ~shownJudge /\ selected = j /\ judges[j] # "COMPLETED"
  /\ Ask("open", j, judges[j], "none", judgeCalls)
  /\ wanted' = j
  /\ strayed' = (\/ Asking({"open"} \cup Moving, Judges \ {j})
                  \/ (strayed /\ Asking({"open"} \cup Moving, Judges)))
  /\ hazy' = Hazy(j, Moving)
  /\ UNCHANGED <<judge, marked, judges, active, shownJudge, judgeBusy, refreshing, typed,
                 selected, timelines, loadingEvidence, mixed, refused>>

CloseJudge ==
  /\ shownJudge /\ shownJudge' = FALSE
  /\ UNCHANGED <<judge, marked, judges, active, judgeBusy, refreshing, typed, selected,
                 timelines, loadingEvidence, judgeCalls, judgeBegun, wanted, strayed, hazy,
                 mixed, refused>>

StartJudge ==
  /\ shownJudge /\ active.status = "PENDING" /\ ~judgeBusy
  /\ judgeBusy' = TRUE
  /\ Ask("start", active.id, Unknown, "none", judgeCalls)
  /\ hazy' = Hazy(active.id, Moving \cup {"open", "refresh"})
  /\ UNCHANGED <<judge, marked, judges, active, shownJudge, refreshing, typed, selected,
                 timelines, loadingEvidence, wanted, strayed, mixed, refused>>

TypeAnswers ==
  /\ shownJudge /\ active.status = "IN_PROGRESS"
  /\ typed = Unknown /\ typed' = active.id
  /\ UNCHANGED <<judge, marked, judges, active, shownJudge, judgeBusy, refreshing, selected,
                 timelines, loadingEvidence, judgeCalls, judgeBegun, wanted, strayed, hazy,
                 mixed, refused>>

\* The questions of every judge have the same ids, so the answers fit any.
SubmitJudge ==
  /\ shownJudge /\ active.status = "IN_PROGRESS" /\ ~judgeBusy /\ typed # Unknown
  /\ judgeBusy' = TRUE
  /\ Ask("submit", active.id, typed, "none", judgeCalls)
  /\ hazy' = Hazy(active.id, Moving \cup {"open", "refresh"})
  /\ UNCHANGED <<judge, marked, judges, active, shownJudge, refreshing, typed, selected,
                 timelines, loadingEvidence, wanted, strayed, mixed, refused>>

\* Plausible bug: the fields are filled in and never cleared.
KeptTyped(j) == typed

\* The watch on the judge of the dialog.
Cleared(j) == Unknown

Activate(j, status) ==
  /\ active' = [id |-> j, status |-> status]
  /\ typed' = Cleared(j)

\* Plausible bug: a call that failed is taken for one that was answered.
WhateverCame(c) == c.got

\* When the call fails the dialog shows the judge of the list.
StatusOf(c) == IF c.stage = "done" THEN c.got ELSE c.data

Opened(c) ==
  /\ Activate(c.of, StatusOf(c))
  /\ shownJudge' = TRUE
  /\ judgeCalls' = judgeCalls \ {c}
  /\ UNCHANGED <<judges, judgeBusy, refreshing, timelines, loadingEvidence, judgeBegun, wanted,
                 strayed, hazy, mixed, refused>>

ReplaceJudge(c) == judges' = [judges EXCEPT ![c.of] = c.got]

HazyIfLost(c) == hazy' = IF c.stage = "lost" THEN hazy \cup {c.of} ELSE hazy

Started(c) ==
  /\ judgeBusy' = FALSE
  /\ IF c.stage = "done" THEN Activate(c.of, c.got) /\ ReplaceJudge(c)
     ELSE UNCHANGED <<active, typed, judges>>
  /\ HazyIfLost(c)
  /\ judgeCalls' = judgeCalls \ {c}
  /\ UNCHANGED <<shownJudge, refreshing, timelines, loadingEvidence, judgeBegun, wanted, strayed,
                 mixed, refused>>

Refresh(by, others) ==
  /\ refreshing' = TRUE
  /\ Ask("refresh", Unknown, Unknown, by, others)

\* The lists are asked for by the answer to a submission, and the button of the
\* dialog waits until they are there.
Submitted(c) ==
  /\ IF c.stage = "done"
     THEN /\ Activate(c.of, c.got) /\ ReplaceJudge(c)
          /\ Refresh("submit", judgeCalls \ {c})
          /\ UNCHANGED judgeBusy
     ELSE /\ judgeBusy' = FALSE
          /\ judgeCalls' = judgeCalls \ {c}
          /\ UNCHANGED <<active, typed, judges, judgeBegun, refreshing>>
  /\ HazyIfLost(c)
  /\ UNCHANGED <<shownJudge, timelines, loadingEvidence, wanted, strayed, mixed, refused>>

RefreshAbilityData ==
  /\ ~shownJudge /\ ~refreshing
  /\ Refresh("button", judgeCalls)
  /\ hazy' = hazy \cup {j \in Judges : Asking(Moving, {j})}
  /\ UNCHANGED <<judge, marked, judges, active, shownJudge, judgeBusy, typed, selected,
                 timelines, loadingEvidence, wanted, strayed, mixed, refused>>

\* The evidences are forgotten, and those of the ability selected asked again.
Refreshed(c) ==
  /\ IF c.stage = "done"
     THEN /\ judges' = c.got
          /\ timelines' = [a \in Judges |-> Unknown]
          /\ refused' = refused \ {selected}
          /\ IF Known(selected)
             THEN /\ Released(c)
                  /\ judgeCalls' = judgeCalls \ {c}
                  /\ UNCHANGED <<loadingEvidence, judgeBegun, mixed>>
             ELSE /\ LoadEvidence(selected, c.by, judgeCalls \ {c})
                  /\ UNCHANGED <<judgeBusy, refreshing>>
     ELSE /\ Released(c)
          /\ judgeCalls' = judgeCalls \ {c}
          /\ UNCHANGED <<judges, timelines, loadingEvidence, judgeBegun, mixed, refused>>
  /\ UNCHANGED <<active, shownJudge, typed, wanted, strayed, hazy>>

ReceiveAbility(c) ==
  /\ c.stage # "sent"
  /\ CASE c.kind = "evidence" -> EvidenceLoaded(c)
       [] c.kind = "mark" -> Marked(c)
       [] c.kind = "open" -> Opened(c)
       [] c.kind = "start" -> Started(c)
       [] c.kind = "submit" -> Submitted(c)
       [] c.kind = "refresh" -> Refreshed(c)
  /\ UNCHANGED <<judge, marked, selected>>

JudgeNext ==
  \/ \E c \in judgeCalls : ServeAbility(c) \/ ReceiveAbility(c)
  \/ \E a \in Judges : SelectAbility(a) \/ OpenJudge(a)
  \/ ToggleMilestone \/ RefreshAbilityData
  \/ StartJudge \/ TypeAnswers \/ SubmitJudge \/ CloseJudge
-----------------------------------------------------------------------------
\* Every variable has its type.
JudgeTypeOK ==
  /\ {judge, judges} \subseteq [Judges -> Statuses]
  /\ marked \in [Judges -> BOOLEAN]
  /\ timelines \in [Judges -> BOOLEAN \cup {Unknown}]
  /\ active # Unknown => active.id \in Judges /\ active.status \in Statuses
  /\ {typed, wanted, loadingEvidence} \subseteq Judges \cup {Unknown}
  /\ {shownJudge, judgeBusy, refreshing, strayed} \subseteq BOOLEAN
  /\ hazy \cup mixed \cup refused \subseteq Judges

\* Answers are sent to the judge they were written for.  The dialog shows the
\* judge that was opened last, unless a call of another was under way then.
\* List and dialog agree with the backend on a judge none of whose calls is
\* under way, unless its calls have overlapped or an answer was lost.
JudgesFit ==
  /\ \A c \in judgeCalls : c.kind = "submit" => c.data = c.of
  /\ shownJudge /\ ~strayed => active.id = wanted
  /\ \A j \in Judges \ hazy : ~Asking(Moving, {j}) =>
       /\ judges[j] = judge[j]
       /\ shownJudge /\ active.id = j => active.status = judge[j]

\* The evidences kept are those of the backend, unless calls about them have
\* overlapped, an answer was lost or came when another ability was selected.
\* Those of the ability selected are there, on their way, or could not be read;
\* and no button waits for nothing.
EvidenceFits ==
  /\ \A a \in Judges \ mixed : ~Asking({"mark"}, {a}) => timelines[a] \in {Unknown, marked[a]}
  /\ timelines[selected] # Unknown \/ selected \in refused \/ Asking({"evidence"}, {selected})
  /\ judgeBusy => \E c \in judgeCalls : c.kind \in Moving \/ c.by = "submit"
=============================================================================
