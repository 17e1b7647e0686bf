------------------------------ MODULE Cadence ------------------------------
(***************************************************************************)
(* When to write to a company again: followup-cadence.mjs reads the status *)
(* of an application from the table and what the user has noted in         *)
(* data/follow-ups.md, follow-ups, pinned dates and retirements, and says  *)
(* when the next follow-up is due.  Nothing runs in the background: days   *)
(* pass, the user writes, and the report is made when it is asked for.     *)
(***************************************************************************)
EXTENDS Integers, Sequences, FiniteSetsExt

CONSTANTS
  None,
  Impossible, \* a date that is none, like 2026-13-01
  Config,     \* DEFAULT_CADENCE with what the profile overrides
  LastDay,    \* bound of a behaviour
  MaxNotes    \* lines in follow-ups.md

VARIABLES
  today,      \* the day
  entry,      \* the row of the application in the table
  notes,      \* the lines of follow-ups.md about it, in file order
  word        \* history: what the user wrote last, a kind of line

cadenceVars == <<today, entry, notes, word>>

Days == 0 .. LastDay

\* Evaluated is the date column, noted an "Applied <date>" in the notes column.
Entry == [status : {"evaluated", "applied", "responded", "interview", "closed"},
          evaluated : Days, noted : Days \cup {None}]

\* A line of follow-ups.md: a follow-up and its date, which may be no date of
\* the calendar; a pin with its date and the day it was set; a retirement.
Line ==
  [kind : {"followup"}, date : Days \cup {Impossible}] \cup
  [kind : {"next"}, date : Int, set : Int] \cup
  [kind : {"cleared"}, set : Days]

LinesOf(kind) == SelectSeq(notes, LAMBDA l : l.kind = kind)

\* The value of the last line of a kind; the last directive wins.
LastOf(lines) == IF lines = <<>> THEN None ELSE lines[Len(lines)]

----------------------------------------------------------------------------
(* The report.                                                              *)

\* resolveAppliedDate: the notes, or else the date of the evaluation.
AppliedDate == IF entry.noted # None THEN entry.noted ELSE entry.evaluated

FollowupCount == Len(LinesOf("followup"))

\* The latest follow-up by its date as text, where one of a thirteenth month is
\* later than any other of the year.
LastFollowup ==
  LET dates == {LinesOf("followup")[i].date : i \in 1 .. FollowupCount}
  IN  IF dates = {} THEN None
      ELSE IF Impossible \in dates THEN Impossible ELSE Max(dates)

Dated == LastFollowup \notin {None, Impossible}

\* Mutant of Revoked: a follow-up of the same day revokes as well.
RevokedOnTies(set) ==
  \/ LastFollowup = Impossible
  \/ LastFollowup # None /\ LastFollowup >= set

\* A follow-up logged after a directive revokes it; ties favour the directive.
Revoked(set) ==
  \/ LastFollowup = Impossible
  \/ LastFollowup # None /\ LastFollowup > set

\* resolveNextOverride: the pinned date while it is in force.
NextOverride ==
  LET pin == LastOf(LinesOf("next"))
  IN  IF pin = None THEN None
      ELSE IF Revoked(pin.set) THEN None ELSE pin.date

IsRetired ==
  LET cleared == LastOf(LinesOf("cleared"))
  IN  IF cleared = None THEN FALSE ELSE ~Revoked(cleared.set)

\* Mutant of SinceFollowup: the day of the follow-up is counted.
SinceFollowupInclusive == today - LastFollowup + 1

SinceFollowup == today - LastFollowup

SinceApplied == today - AppliedDate

\* computeUrgency.
Urgency ==
  CASE entry.status = "applied" ->
         IF FollowupCount >= Config.maxFollowups THEN "cold"
         ELSE IF \/ FollowupCount = 0 /\ SinceApplied >= Config.appliedFirst
                 \/ Dated /\ SinceFollowup >= Config.appliedSubsequent
              THEN "overdue" ELSE "waiting"
    [] entry.status \in {"responded", "interview"} /\ Dated ->
         IF SinceFollowup >= Config.respondedSubsequent THEN "overdue" ELSE "waiting"
    [] entry.status = "responded" /\ ~Dated ->
         IF SinceApplied < Config.respondedInitial THEN "urgent"
         ELSE IF SinceApplied >= Config.respondedSubsequent THEN "overdue" ELSE "waiting"
    [] entry.status = "interview" /\ ~Dated ->
         IF SinceApplied >= Config.thankYou THEN "overdue" ELSE "waiting"
    [] OTHER -> "waiting"

\* computeNextFollowupDate; no date is computed from an impossible one.
NextFollowupDate ==
  LET after(subsequent, first) ==
        CASE LastFollowup = None -> AppliedDate + first
          [] LastFollowup = Impossible -> None
          [] OTHER -> LastFollowup + subsequent
  IN  CASE entry.status = "applied" ->
             IF FollowupCount >= Config.maxFollowups THEN None
             ELSE after(Config.appliedSubsequent, Config.appliedFirst)
        [] entry.status = "responded" ->
             after(Config.respondedSubsequent, Config.respondedInitial)
        [] entry.status = "interview" -> after(Config.respondedSubsequent, Config.thankYou)
        [] OTHER -> None

Listed == entry.status \in {"applied", "responded", "interview"}

\* The entry analyzeFromContent makes of a listed application.
Report ==
  IF IsRetired THEN [urgency |-> "retired", next |-> None]
  ELSE IF NextOverride # None
       THEN [urgency |-> IF today >= NextOverride THEN "overdue" ELSE "waiting",
             next |-> NextOverride]
       ELSE [urgency |-> Urgency, next |-> NextFollowupDate]

----------------------------------------------------------------------------
(* Steps.                                                                   *)

CadenceInit ==
  /\ today = 0
  /\ entry = [status |-> "evaluated", evaluated |-> 0, noted |-> None]
  /\ notes = <<>>
  /\ word = None

NextDay ==
  /\ today < LastDay
  /\ today' = today + 1
  /\ UNCHANGED <<entry, notes, word>>

\* The status moves on; when the user applies they may note the date.
Advance(status) ==
  /\ entry.status # "closed"
  /\ status # entry.status
  /\ \E noted \in IF status = "applied" /\ entry.noted = None THEN {None, today}
                  ELSE {entry.noted} :
       entry' = [entry EXCEPT !.status = status, !.noted = noted]
  /\ UNCHANGED <<today, notes, word>>

Write(line) ==
  /\ Len(notes) < MaxNotes
  /\ notes' = Append(notes, line)
  /\ word' = line
  /\ UNCHANGED <<today, entry>>

\* A follow-up of today, or one that is logged late, or with a slip in its date.
LogFollowup(date) == Write([kind |-> "followup", date |-> date])

\* A pin for a day to come; without its set part the pinned date stands for it.
Pin(date, withSet) ==
  Write([kind |-> "next", date |-> date, set |-> IF withSet THEN today ELSE date])

Retire == Write([kind |-> "cleared", set |-> today])

CadenceNext ==
  \/ NextDay
  \/ \E s \in {"applied", "responded", "interview", "closed"} : Advance(s)
  \/ \E d \in (0 .. today) \cup {Impossible} : LogFollowup(d)
  \/ \E d \in today .. LastDay, withSet \in BOOLEAN : Pin(d, withSet)
  \/ Retire

----------------------------------------------------------------------------
(* Properties.                                                              *)

CadenceTypeOK ==
  /\ today \in Days
  /\ entry \in Entry
  /\ notes \in Seq(Line)
  /\ word \in Line \cup {None}

\* An application is shown as overdue from the day its next date says, neither
\* before nor after, though urgency and date are computed apart; one without a
\* next date is retired or cold, or its follow-up has a date that is none.  An
\* answered application that was never followed up is measured by two clocks.
DueIsShown ==
  LET overdue == Report.urgency = "overdue"
      twoClocks == entry.status = "responded" /\ LastFollowup = None /\ NextOverride = None
  IN  Listed /\ LastFollowup # Impossible =>
        /\ Report.next = None <=> Report.urgency \in {"retired", "cold"}
        /\ Report.next # None /\ ~twoClocks => (overdue <=> today >= Report.next)

\* What the user wrote last is what counts: a pin, unless the application was
\* retired before, a retirement always, and a follow-up of a later day than
\* pin and retirement ends both.
LastWordCounts ==
  /\ word # None /\ word.kind = "cleared" /\ LastFollowup # Impossible => Report.urgency = "retired"
  /\ word # None /\ word.kind = "next" /\ ~IsRetired /\ LastFollowup # Impossible =>
       Report.next = word.date
  /\ /\ Dated
     /\ \A i \in DOMAIN notes : notes[i].kind # "followup" => notes[i].set < LastFollowup
     => Report.urgency # "retired" /\ NextOverride = None
=============================================================================
