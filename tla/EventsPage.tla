----------------------------- MODULE EventsPage -----------------------------
(***************************************************************************)
(* The page on which a student finds events (StudentEventsView.vue): it    *)
(* searches with the filters chosen, shows what is followed and reserved,  *)
(* and talks to an assistant that recommends events or makes plans, one of *)
(* which is written to the schedule.  These parts go on side by side: a    *)
(* search can be made while another one is under way, and an event         *)
(* reserved before the page knows what was reserved earlier.  Reservations *)
(* end on another page.                                                    *)
(*                                                                         *)
(* A list of events is told by the filter it was searched with, a plan and *)
(* the goal it is written to the schedule with by the number of the text.  *)
(***************************************************************************)
EXTENDS Naturals, FiniteSets

CONSTANTS
  Nil,
  Events, Filters,
  MaxEventCalls, MaxEventsAtOnce \* bounds: calls begun, and under way at once

\* There is a filter, that of all events, and a student has reserved something.
ASSUME EventsAssumption == Events # {} /\ Filters # {}
ASSUME NilAssumption == Nil \notin Nat

VARIABLES
  booked, followed,            \* at the backend
  filter, results,
  searching, searchFailed,     \* what is shown in place of the results
  related,                     \* what the page shows as reserved and followed
  reserving, following,        \* the buttons that wait
  texts,                       \* texts the user has sent
  thinking,                    \* the assistant is asked
  proposals, dialog,           \* the text the plans were made for, and their dialog
  importing, written,          \* plans at the backend, each with its goal
  eventsCalls, eventsBegun,
  doubts                       \* history: what overlapping or lost calls leave open

eventsVars == <<booked, followed, filter, results, searching, searchFailed, related,
                reserving, following, texts, thinking, proposals, dialog, importing, written,
                eventsCalls, eventsBegun, doubts>>

Under(kinds) == {c \in eventsCalls : c.kind \in kinds} # {}

New(kind, of, goal, n) ==
  [n |-> n, kind |-> kind, of |-> of, goal |-> goal, stage |-> "sent", got |-> Nil]

Begin(kind, of, goal) ==
  LET free == {k \in 1 .. MaxEventsAtOnce : \A c \in eventsCalls : c.n # k}
  IN  /\ eventsBegun < MaxEventCalls /\ eventsBegun' = eventsBegun + 1
      /\ free # {}
      /\ eventsCalls' = eventsCalls \cup {New(kind, of, goal,
                                        CHOOSE k \in free : \A l \in free : k <= l)}

\* onMounted: both calls are under way.  One event was reserved before.
EventsInit ==
  /\ booked = {CHOOSE e \in Events : TRUE} /\ followed = FALSE
  /\ filter = (CHOOSE f \in Filters : TRUE) /\ results = Nil
  /\ searching = TRUE /\ searchFailed = FALSE
  /\ related = [booked |-> {}, followed |-> FALSE]
  /\ reserving = Nil /\ following = FALSE
  /\ texts = 0 /\ thinking = FALSE
  /\ proposals = Nil /\ dialog = FALSE /\ importing = FALSE /\ written = {}
  /\ eventsCalls = {New("search", filter, Nil, 1), New("relations", Nil, Nil, 2)}
  /\ eventsBegun = 2
  /\ doubts = {}
-----------------------------------------------------------------------------
\* The backend.

Served(c) ==
  /\ booked' = IF c.kind = "reserve" THEN booked \cup {c.of} ELSE booked
  /\ followed' = CASE c.kind = "follow" -> TRUE
                   [] c.kind = "unfollow" -> FALSE
                   [] OTHER -> followed
  /\ written' = IF c.kind = "import" THEN written \cup {[plan |-> c.of, goal |-> c.goal]}
                ELSE written

Answer(c) == IF c.kind = "relations" THEN [booked |-> booked', followed |-> followed'] ELSE c.of

Stage(c, stage) ==
  eventsCalls' = (eventsCalls \ {c})
    \cup {[c EXCEPT !.stage = stage, !.got = IF stage = "done" THEN Answer(c) ELSE Nil]}

Serve(c) ==
  /\ c.stage = "sent"
  /\ \/ Served(c) /\ (Stage(c, "done") \/ Stage(c, "lost"))
     \/ Stage(c, "refused") /\ UNCHANGED <<booked, followed, written>>
  /\ UNCHANGED <<filter, results, searching, searchFailed, related, reserving, following,
                 texts, thinking, proposals, dialog, importing, eventsBegun, doubts>>
-----------------------------------------------------------------------------
\* Searching.

\* loadEvents, by a category, the search field, a filter, or again.
LoadEvents(f) ==
  /\ ~dialog
  /\ filter' = f /\ searching' = TRUE /\ searchFailed' = FALSE
  /\ Begin("search", f, Nil)
  /\ doubts' = IF Under({"search"}) THEN doubts \cup {"results"} ELSE doubts \ {"results"}
  /\ UNCHANGED <<booked, followed, results, related, reserving, following, texts, thinking,
                 proposals, dialog, importing, written>>

\* The location that is typed is shown as a filter before anything is searched with it.
TypeLocation(f) ==
  /\ ~dialog
  /\ f # filter /\ filter' = f
  /\ doubts' = doubts \cup {"results"}
  /\ UNCHANGED <<booked, followed, results, searching, searchFailed, related, reserving,
                 following, texts, thinking, proposals, dialog, importing, written,
                 eventsCalls, eventsBegun>>

\* Plausible bug: a search that fails leaves the events of the last one on show.
FailedQuietly(c) == FALSE

FailedLoudly(c) == TRUE

\* An answer is shown whatever was searched since.
Searched(c) ==
  /\ searching' = FALSE
  /\ IF c.stage = "done" THEN results' = c.got /\ UNCHANGED searchFailed
     ELSE searchFailed' = FailedLoudly(c) /\ UNCHANGED results
  /\ UNCHANGED <<related, reserving, following, thinking, proposals, dialog, importing, doubts>>
-----------------------------------------------------------------------------
\* Reservations and the organization that is followed.

\* What the page is told of at once by the call that asks for all of it.
Crossing(part) == IF Under({"relations"}) THEN doubts \cup {part} ELSE doubts

Reserve(e) ==
  /\ ~dialog
  /\ e \notin related.booked /\ reserving = Nil
  /\ reserving' = e
  /\ Begin("reserve", e, Nil)
  /\ doubts' = Crossing("booked")
  /\ UNCHANGED <<booked, followed, filter, results, searching, searchFailed, related,
                 following, texts, thinking, proposals, dialog, importing, written>>

ToggleFollow ==
  /\ ~dialog
  /\ ~following /\ following' = TRUE
  /\ Begin(IF related.followed THEN "unfollow" ELSE "follow", Nil, Nil)
  /\ doubts' = Crossing("followed")
  /\ UNCHANGED <<booked, followed, filter, results, searching, searchFailed, related,
                 reserving, texts, thinking, proposals, dialog, importing, written>>

\* Nothing is asked again when this fails.
Related(c) ==
  /\ IF c.stage = "done" THEN related' = c.got /\ UNCHANGED doubts
     ELSE doubts' = doubts \cup {"booked", "followed"} /\ UNCHANGED related
  /\ UNCHANGED <<searching, searchFailed, results, reserving, following, thinking, proposals,
                 dialog, importing>>

\* Plausible bug: the event that was reserved is the only one shown as such.
OnlyThis(e) == [related EXCEPT !.booked = {e}]

Also(e) == [related EXCEPT !.booked = @ \cup {e}]

Reserved(c) ==
  /\ reserving' = Nil
  /\ related' = IF c.stage = "done" THEN Also(c.of) ELSE related
  /\ doubts' = IF c.stage = "lost" THEN doubts \cup {"booked"} ELSE doubts
  /\ UNCHANGED <<searching, searchFailed, results, following, thinking, proposals, dialog,
                 importing>>

Followed(c) ==
  /\ following' = FALSE
  /\ related' = IF c.stage = "done" THEN [related EXCEPT !.followed = c.kind = "follow"]
               ELSE related
  /\ doubts' = IF c.stage = "lost" THEN doubts \cup {"followed"} ELSE doubts
  /\ UNCHANGED <<searching, searchFailed, results, reserving, thinking, proposals, dialog,
                 importing>>
-----------------------------------------------------------------------------
\* The assistant.

\* submitAi, for events or for plans.
SubmitAi(kind) ==
  /\ ~dialog
  /\ ~thinking /\ thinking' = TRUE
  /\ texts' = texts + 1
  /\ Begin(kind, texts + 1, Nil)
  /\ UNCHANGED <<booked, followed, filter, results, searching, searchFailed, related,
                 reserving, following, proposals, dialog, importing, written, doubts>>

\* The plans are replaced, by none too, and their dialog is shown or closed.
Advised(c) ==
  /\ thinking' = FALSE
  /\ IF c.kind = "plan" /\ c.stage = "done"
     THEN \E some \in BOOLEAN : proposals' = (IF some THEN c.got ELSE Nil) /\ dialog' = some
     ELSE UNCHANGED <<proposals, dialog>>
  /\ UNCHANGED <<searching, searchFailed, results, related, reserving, following, importing,
                 doubts>>

OpenPlans ==
  /\ proposals # Nil /\ ~dialog /\ dialog' = TRUE
  /\ UNCHANGED <<booked, followed, filter, results, searching, searchFailed, related,
                 reserving, following, texts, thinking, proposals, importing, written,
                 eventsCalls, eventsBegun, doubts>>

ClosePlans ==
  /\ dialog /\ dialog' = FALSE
  /\ UNCHANGED <<booked, followed, filter, results, searching, searchFailed, related,
                 reserving, following, texts, thinking, proposals, importing, written,
                 eventsCalls, eventsBegun, doubts>>

\* Plausible bug: the first text is the goal of every plan.
FirstText == 1

LastText == texts

\* importPlan: the goal is the text that was sent last, whatever the plan is for.
ImportPlan ==
  /\ dialog /\ ~importing /\ importing' = TRUE
  /\ Begin("import", proposals, LastText)
  /\ UNCHANGED <<booked, followed, filter, results, searching, searchFailed, related,
                 reserving, following, texts, thinking, proposals, dialog, written, doubts>>

Imported(c) ==
  /\ importing' = FALSE
  /\ UNCHANGED <<searching, searchFailed, results, related, reserving, following, thinking,
                 proposals, dialog, doubts>>

ReceiveEvents(c) ==
  /\ c.stage # "sent"
  /\ eventsCalls' = eventsCalls \ {c}
  /\ CASE c.kind = "search" -> Searched(c)
       [] c.kind = "relations" -> Related(c)
       [] c.kind = "reserve" -> Reserved(c)
       [] c.kind \in {"follow", "unfollow"} -> Followed(c)
       [] c.kind \in {"events", "plan"} -> Advised(c)
       [] c.kind = "import" -> Imported(c)
  /\ UNCHANGED <<booked, followed, filter, texts, written, eventsBegun>>

EventsNext ==
  \/ \E c \in eventsCalls : Serve(c) \/ ReceiveEvents(c)
  \/ \E f \in Filters : LoadEvents(f) \/ TypeLocation(f)
  \/ \E e \in Events : Reserve(e)
  \/ \E kind \in {"events", "plan"} : SubmitAi(kind)
  \/ ToggleFollow \/ OpenPlans \/ ClosePlans \/ ImportPlan
-----------------------------------------------------------------------------
\* Every variable has its type.
EventsTypeOK ==
  /\ {booked, related.booked} \subseteq SUBSET Events
  /\ filter \in Filters /\ results \in Filters \cup {Nil}
  /\ reserving \in Events \cup {Nil}
  /\ proposals \in 1 .. texts \cup {Nil}
  /\ {followed, related.followed, searching, searchFailed, following, thinking, dialog,
      importing} \subseteq BOOLEAN

\* Once the searches are answered, the events shown are those of the filters
\* shown, unless searches have overlapped or a location was typed that was not
\* searched with.  What is shown as reserved and followed is so at the backend,
\* unless the page was not told yet of all of it when it was changed, or an answer
\* was lost; and nothing is shown as reserved that is not.  A plan is written with
\* the text it was made for as its goal, unless another text was sent since.
EventsFit ==
  /\ ~Under({"search"}) /\ "results" \notin doubts =>
       ~searching /\ (searchFailed \/ results = filter)
  /\ ~Under({"relations", "reserve"}) /\ "booked" \notin doubts => related.booked = booked
  /\ ~Under({"relations", "follow", "unfollow"}) /\ "followed" \notin doubts =>
       related.followed = followed
  /\ related.booked \subseteq booked
  /\ \A w \in written : w.goal = w.plan \/ w.plan < texts
=============================================================================
