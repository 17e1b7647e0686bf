------------------------------ MODULE WeekPlan ------------------------------
(***************************************************************************)
(* The schedule page of the student (StudentScheduleView.vue): a calendar  *)
(* of entries that are dragged, resized, and edited in a dialog.  Every    *)
(* change is a call to the backend; its answer changes the page when it    *)
(* comes, whatever the page shows by then.  The dialog can be closed, and  *)
(* opened for another entry, while the call it made is under way.          *)
(*                                                                         *)
(* A call is served by the backend in one moment and answered in a later   *)
(* one; it can be refused, or be served and its answer lost.  The week     *)
(* shown, the colours and the pixels of the calendar are left out, and of  *)
(* an entry there are its text and its time.                               *)
(***************************************************************************)
EXTENDS Naturals, Sequences, FiniteSets

CONSTANTS
  NoItem,
  EntryTexts, Times,
  MaxEntries, MaxWeekCalls \* bounds: entries made, calls begun

VARIABLES
  entries,   \* the active entries at the backend
  made,      \* entries ever made
  week,      \* of each entry the copies that the page holds
  held,      \* the entry whose lower edge the user is pulling, as it was when taken
  form,      \* the entry of the dialog, NoItem for a new one
  opened, saving, loading,
  failed,    \* the page shows an error in place of the calendar
  weekCalls, weekBegun,
  blurred    \* history: calls have overlapped, or an answer was lost

weekVars == <<entries, made, week, held, form, opened, saving, loading, failed,
              weekCalls, weekBegun, blurred>>

Ids == 1 .. MaxEntries
Items == [text : EntryTexts, time : Times]

\* There is something to write, and a marker for what is not an entry.
ASSUME WeekAssumption ==
  /\ {MaxEntries, MaxWeekCalls} \subseteq Nat \ {0}
  /\ EntryTexts # {} /\ Times # {} /\ NoItem \notin Items

\* What a complete and current answer shows.
Copies == [id \in Ids |-> IF entries[id] = NoItem THEN <<>> ELSE <<entries[id]>>]

\* alone: no other call has been under way together with it.
NewCall(kind, id, item, others) ==
  LET free == {k \in 1 .. MaxWeekCalls : \A c \in others : c.n # k}
  IN  [n |-> CHOOSE k \in free : \A l \in free : k <= l,
       kind |-> kind, id |-> id, item |-> item, stage |-> "sent", list |-> NoItem,
       alone |-> others = {}]

\* Another call begins beside those under way.
Sent(kind, id, item, others) ==
  /\ weekBegun < MaxWeekCalls /\ weekBegun' = weekBegun + 1
  /\ weekCalls' = {[c EXCEPT !.alone = FALSE] : c \in others}
                   \cup {NewCall(kind, id, item, others)}

WeekInit ==
  /\ entries = [id \in Ids |-> IF id = 1 THEN CHOOSE item \in Items : TRUE ELSE NoItem]
  /\ made = 1
  /\ week = [id \in Ids |-> <<>>]
  /\ held = NoItem /\ form = NoItem
  /\ opened = FALSE /\ saving = FALSE /\ failed = FALSE
  /\ weekBegun = 1 /\ loading = TRUE
  /\ weekCalls = {[n |-> 1, kind |-> "load", id |-> NoItem, item |-> NoItem,
                  stage |-> "sent", list |-> NoItem, alone |-> TRUE]}
  /\ blurred = FALSE
-----------------------------------------------------------------------------
\* ScheduleService.

\* An entry that was cancelled is not edited, and one can be cancelled twice.
Written(c) ==
  CASE c.kind = "create" -> made < MaxEntries /\ made' = made + 1
                              /\ entries' = [entries EXCEPT ![made + 1] = c.item]
    [] c.kind \in {"update", "drag"} ->
         entries[c.id] # NoItem /\ entries' = [entries EXCEPT ![c.id] = c.item]
                              /\ UNCHANGED made
    [] c.kind = "remove" -> entries' = [entries EXCEPT ![c.id] = NoItem] /\ UNCHANGED made
    [] OTHER -> UNCHANGED <<entries, made>>

EntryStage(c, stage) ==
  weekCalls' = (weekCalls \ {c})
    \cup {[c EXCEPT !.stage = stage, !.id = IF c.kind = "create" THEN made + 1 ELSE @,
                    !.list = IF c.kind = "load" /\ stage = "done" THEN Copies ELSE NoItem]}

ServeEntry(c) ==
  /\ c.stage = "sent"
  /\ \/ Written(c) /\ EntryStage(c, "done")
     \/ Written(c) /\ EntryStage(c, "lost")
     \/ EntryStage(c, "refused") /\ UNCHANGED <<entries, made>>
  /\ UNCHANGED <<week, held, form, opened, saving, loading, failed, weekBegun, blurred>>
-----------------------------------------------------------------------------
\* What the user does.  One pointer: while it holds an entry it does nothing else.

Calendar == held = NoItem /\ ~opened /\ ~loading /\ ~failed

\* A call of the user's: overlapping calls leave it open what the page shows.
BeginChange(kind, id, item) ==
  /\ Sent(kind, id, item, weekCalls)
  /\ blurred' = (blurred \/ weekCalls # {})

\* quickUpdate writes the text the entry had on the page.
Drop(id, item, time) == BeginChange("drag", id, [item EXCEPT !.time = time])

\* dropItem takes the first copy with the id.
DropItem(id, time) ==
  /\ Calendar /\ week[id] # <<>>
  /\ Drop(id, week[id][1], time)
  /\ UNCHANGED <<entries, made, week, held, form, opened, saving, loading, failed>>

BeginResize(id) ==
  /\ Calendar
  /\ \E k \in DOMAIN week[id] : held' = [id |-> id, item |-> week[id][k]]
  /\ UNCHANGED <<entries, made, week, form, opened, saving, loading, failed, weekCalls,
                 weekBegun, blurred>>

EndResize(time) ==
  /\ held # NoItem
  /\ Drop(held.id, held.item, time)
  /\ held' = NoItem
  /\ UNCHANGED <<entries, made, week, form, opened, saving, loading, failed>>

\* openNew and openQuickNew; the button is there while the calendar is not.
OpenNew ==
  /\ held = NoItem /\ ~opened
  /\ opened' = TRUE /\ form' = NoItem
  /\ UNCHANGED <<entries, made, week, held, saving, loading, failed, weekCalls, weekBegun,
                 blurred>>

OpenEntry(id) ==
  /\ Calendar /\ week[id] # <<>>
  /\ opened' = TRUE /\ form' = id
  /\ UNCHANGED <<entries, made, week, held, saving, loading, failed, weekCalls, weekBegun,
                 blurred>>

CloseDialog ==
  /\ opened /\ opened' = FALSE
  /\ UNCHANGED <<entries, made, week, held, form, saving, loading, failed, weekCalls,
                 weekBegun, blurred>>

Save(item) ==
  /\ opened /\ ~saving /\ saving' = TRUE
  /\ BeginChange(IF form = NoItem THEN "create" ELSE "update", form, item)
  /\ UNCHANGED <<entries, made, week, held, form, opened, loading, failed>>

RemoveEntry ==
  /\ opened /\ ~saving /\ form # NoItem /\ saving' = TRUE
  /\ BeginChange("remove", form, NoItem)
  /\ UNCHANGED <<entries, made, week, held, form, opened, loading, failed>>

Reload ==
  /\ failed /\ ~loading /\ held = NoItem /\ ~opened
  /\ loading' = TRUE /\ failed' = FALSE
  /\ BeginChange("load", NoItem, NoItem)
  /\ UNCHANGED <<entries, made, week, held, form, opened, saving>>
-----------------------------------------------------------------------------
\* Answers.

\* Plausible bug: the entry that is answered is put beside the one shown.
Appended(id, item) == [week EXCEPT ![id] = Append(@, item)]

Replaced(id, item) == [week EXCEPT ![id] = [k \in DOMAIN @ |-> item]]

\* A load that no other call overlapped puts right what the page shows.
Loaded(c) ==
  /\ loading' = FALSE
  /\ IF c.stage = "done"
     THEN week' = c.list /\ blurred' = (blurred /\ ~c.alone) /\ UNCHANGED failed
     ELSE failed' = TRUE /\ UNCHANGED <<week, blurred>>
  /\ weekCalls' = weekCalls \ {c}
  /\ UNCHANGED <<opened, saving, weekBegun>>

\* After a dialog's call: the page takes the entry off that the dialog has by
\* then, and whatever dialog is open is closed.
Saved(c) ==
  /\ saving' = FALSE
  /\ weekCalls' = weekCalls \ {c}
  /\ opened' = (opened /\ c.stage # "done")
  /\ IF c.stage # "done" THEN UNCHANGED week
     ELSE CASE c.kind = "create" -> week' = [week EXCEPT ![c.id] = Append(@, c.item)]
            [] c.kind = "update" -> week' = Replaced(c.id, c.item)
            [] c.kind = "remove" ->
                 week' = [id \in Ids |-> IF id = form THEN <<>> ELSE week[id]]
  /\ blurred' = (blurred \/ c.stage = "lost" \/ (c.kind = "remove" /\ form # c.id))
  /\ UNCHANGED <<loading, failed, weekBegun>>

\* Plausible bug: a failed drag only says so.
Shrugged(c) ==
  weekCalls' = weekCalls \ {c} /\ UNCHANGED <<loading, failed, weekBegun, blurred>>

\* After a failed drag the page asks for all entries again.
DragFailed(c) ==
  /\ Sent("load", NoItem, NoItem, weekCalls \ {c})
  /\ loading' = TRUE /\ failed' = FALSE
  /\ blurred' = (blurred \/ weekCalls # {c})

Dragged(c) ==
  /\ IF c.stage = "done"
     THEN /\ week' = Replaced(c.id, c.item)
          /\ weekCalls' = weekCalls \ {c}
          /\ UNCHANGED <<loading, failed, weekBegun, blurred>>
     ELSE DragFailed(c) /\ UNCHANGED week
  /\ UNCHANGED <<opened, saving>>

ReceiveEntry(c) ==
  /\ c.stage # "sent"
  /\ CASE c.kind = "load" -> Loaded(c)
       [] c.kind = "drag" -> Dragged(c)
       [] OTHER -> Saved(c)
  /\ UNCHANGED <<entries, made, held, form>>

WeekNext ==
  \/ \E c \in weekCalls : ServeEntry(c) \/ ReceiveEntry(c)
  \/ \E id \in Ids : BeginResize(id) \/ OpenEntry(id) \/ \E time \in Times : DropItem(id, time)
  \/ \E time \in Times : EndResize(time)
  \/ \E item \in Items : Save(item)
  \/ OpenNew \/ CloseDialog \/ RemoveEntry \/ Reload
-----------------------------------------------------------------------------
\* Every variable has its type.
WeekTypeOK ==
  /\ entries \in [Ids -> Items \cup {NoItem}]
  /\ \A id \in Ids : week[id] \in Seq(Items)
  /\ form \in Ids \cup {NoItem}
  /\ made \in 1 .. MaxEntries /\ weekBegun \in 1 .. MaxWeekCalls
  /\ {opened, saving, loading, failed, blurred} \subseteq BOOLEAN

\* Once every call is answered, the calendar shows each active entry once, as it
\* is at the backend, unless calls have overlapped, the answer to a dialog was
\* lost, or a dialog was opened for another entry while one was being removed;
\* and a load that nothing overlaps puts that right.  A button waits only for a
\* call that is under way.
WeekIsTrue ==
  /\ weekCalls = {} /\ ~failed /\ ~blurred => week = Copies
  /\ saving => \E c \in weekCalls : c.kind \in {"create", "update", "remove"}
  /\ loading /\ ~blurred => \E c \in weekCalls : c.kind = "load"
=============================================================================
