---------------------------- MODULE EventCatalog ----------------------------
(***************************************************************************)
(* Published events: the rows of the table events, the transactions that   *)
(* change them, the messages these send and the search index the messages  *)
(* keep.  A message is sent when its transaction commits.  It may overtake *)
(* others or be delivered again, since the outbox and the broker retry.    *)
(*                                                                         *)
(* A transaction reads rows and writes them whole if it changed them; the  *)
(* rows have no version.  The retrieval trusts the index in what concerns  *)
(* the review: it looks at the row of a hit for its expiry only.           *)
(***************************************************************************)
EXTENDS FiniteSets, Functions

CONSTANTS
  Events,
  Threads,   \* of requests; the listener and the scheduler have one each
  None,      \* "never published", "no transaction"
  Gone       \* "deleted"

VARIABLES
  events,    \* the rows
  overdue,   \* events whose end is past
  open,      \* the transaction of each thread: what it does, the rows it read
  analyses,  \* events with an analysis message
  changes,   \* index messages
  consumer,  \* the index message that is handled, and whether it will index
  index,     \* events in the search index
  astray     \* events whose index entry missed a change, see Astray

vars == <<events, overdue, open, analyses, changes, consumer, index, astray>>

-----------------------------------------------------------------------------

ReviewStatus == {"pending", "approved", "rejected", "revision"}

Row == [status : ReviewStatus, expired : BOOLEAN]

Actors == Threads \cup {"listener", "scheduler"}

Operations == {"approve", "reject", "reanalyze", "analyze", "expire", "reindex"}

Message == Events \X {"UPSERT", "DELETE"}

Transaction == [op : Operations, read : UNION {[set -> Row] : set \in SUBSET Events}]

\* An index message at work.
Handling == [event : Events, action : {"UPSERT", "DELETE"}, puts : BOOLEAN]

Published == {e \in Events : events[e] \in Row}

IsVisible(row) == row \in Row /\ row.status = "approved" /\ ~row.expired

Visible == {e \in Events : IsVisible(events[e])}

\* Plausible bug: every row is read, the missing ones too.
ReadsAll(set) == events

Reads(set) == [e \in set |-> events[e]]

Init ==
  /\ events = [e \in Events |-> None]
  /\ overdue = {}
  /\ open = [t \in Actors |-> None]
  /\ analyses = {} /\ changes = {} /\ consumer = None
  /\ index = {} /\ astray = {}

\* The end of an event passes.
Pass(e) ==
  /\ e \notin overdue
  /\ overdue' = overdue \cup {e}
  /\ UNCHANGED <<events, open, analyses, changes, consumer, index, astray>>

\* EventService.create.
Create(e) ==
  /\ events[e] = None
  /\ events' = [events EXCEPT ![e] = [status |-> "pending", expired |-> e \in overdue]]
  /\ analyses' = analyses \cup {e}
  /\ UNCHANGED <<overdue, open, changes, consumer, index, astray>>

\* EventService.delete.
Delete(e) ==
  /\ e \in Published
  /\ events' = [events EXCEPT ![e] = Gone]
  /\ changes' = changes \cup {<<e, "DELETE">>}
  /\ UNCHANGED <<overdue, open, analyses, consumer, index, astray>>

Open(t, op, set) ==
  /\ open[t] = None
  /\ open' = [open EXCEPT ![t] = [op |-> op, read |-> Reads(set)]]

\* A request of an editor.
BeginReview(t, op, e) ==
  /\ e \in Published
  /\ Open(t, op, {e})
  /\ UNCHANGED <<events, overdue, analyses, changes, consumer, index, astray>>

\* The listener takes an analysis message; for a deleted event it is done.
\* Another message may be of the same event, or this one come again.
BeginAnalysis(e) ==
  /\ e \in analyses
  /\ analyses' \in {analyses, analyses \ {e}}
  /\ Open("listener", "analyze", {e} \cap Published)
  /\ UNCHANGED <<events, overdue, changes, consumer, index, astray>>

\* expireOverdueEvents, called by the scheduler and by every search; it does
\* nothing when it finds none.
BeginExpiration ==
  /\ LET found == {e \in overdue \cap Published : ~events[e].expired}
     IN  found # {} /\ Open("scheduler", "expire", found)
  /\ UNCHANGED <<events, overdue, analyses, changes, consumer, index, astray>>

\* The review status after an operation; an analysis suggests one.
StatusAfter(op, row) ==
  CASE op = "approve" -> {"approved"}
    [] op = "reject" -> {"rejected"}
    [] op = "reanalyze" -> {"pending"}
    [] op = "analyze" -> ReviewStatus \ {"pending"}
    [] OTHER -> {row.status}

\* The index message an operation sends with the row it writes.
MessageOf(op, e, row) ==
  IF op = "reanalyze" \/ (op = "approve" /\ row.expired) THEN {}
  ELSE IF IsVisible(row) THEN {<<e, "UPSERT">>} ELSE {<<e, "DELETE">>}

\* A transaction commits: what it changed is written over what is there.
Commit(t) ==
  /\ open[t] # None /\ open[t].op # "reindex"
  /\ LET op == open[t].op
         read == open[t].read
     IN  \E written \in [DOMAIN read -> Row] :
           LET changed == {e \in DOMAIN read : written[e] # read[e]}
           IN  /\ \A e \in DOMAIN read :
                    /\ written[e].status \in StatusAfter(op, read[e])
                    /\ written[e].expired = (read[e].expired \/ op = "expire")
               /\ changed \subseteq Published
               /\ events' = [e \in Events |-> IF e \in changed THEN written[e] ELSE events[e]]
               /\ changes' = changes \cup UNION {MessageOf(op, e, written[e]) : e \in DOMAIN read}
               /\ analyses' = IF op = "reanalyze" THEN analyses \cup DOMAIN read ELSE analyses
               /\ astray' = astray \cup {e \in changed : events[e] # read[e]}
  /\ open' = [open EXCEPT ![t] = None]
  /\ UNCHANGED <<overdue, consumer, index>>

\* An update of a deleted row fails, or an analysis throws: it is tried again,
\* or dropped after the third time.
Fail(t) ==
  /\ open[t] # None
  /\ LET op == open[t].op
         failed == DOMAIN open[t].read
     IN  /\ op = "analyze" \/ (op # "reindex" /\ ~ failed \subseteq Published)
         /\ \/ op # "analyze" /\ UNCHANGED <<analyses, astray>>
            \/ op = "analyze" /\ analyses' = analyses \cup failed /\ UNCHANGED astray
            \/ op = "analyze" /\ astray' = astray \cup failed /\ UNCHANGED analyses
  /\ open' = [open EXCEPT ![t] = None]
  /\ UNCHANGED <<events, overdue, changes, consumer, index>>

\* reindexAll: the index is made anew, and what was visible is put in it.
BeginReindex(t) ==
  /\ Open(t, "reindex", Visible)
  /\ index' = {}
  /\ UNCHANGED <<events, overdue, analyses, changes, consumer, astray>>

EndReindex(t) ==
  /\ open[t] # None /\ open[t].op = "reindex"
  /\ index' = index \cup DOMAIN open[t].read
  /\ open' = [open EXCEPT ![t] = None]
  /\ UNCHANGED <<events, overdue, analyses, changes, consumer, astray>>

\* Plausible bug: the event is put in the index as it was when it was sent.
AsSent(e, action) == action = "UPSERT"

\* The listener of index messages looks at the row again for an upsert ...
WillIndex(e, action) == action = "UPSERT" /\ e \in Visible

Receive(e, action) ==
  /\ consumer = None /\ <<e, action>> \in changes
  /\ changes' = changes \ {<<e, action>>}
  /\ consumer' = [event |-> e, action |-> action, puts |-> WillIndex(e, action)]
  /\ UNCHANGED <<events, overdue, open, analyses, index, astray>>

Reindexing == \E t \in Actors : open[t] # None /\ open[t].op = "reindex"

\* ... and puts the event in the index or takes it out; the message may be
\* delivered once more.
Handle ==
  /\ consumer # None
  /\ LET e == consumer.event
     IN  /\ index' = IF consumer.puts THEN index \cup {e} ELSE index \ {e}
         /\ astray' = IF Reindexing THEN astray \cup {e} ELSE astray
         /\ changes' \in {changes, changes \cup {<<e, consumer.action>>}}
  /\ consumer' = None
  /\ UNCHANGED <<events, overdue, open, analyses>>

\* The search engine refuses three times: the message is dropped.
Drop ==
  /\ consumer # None
  /\ astray' = astray \cup {consumer.event}
  /\ consumer' = None
  /\ UNCHANGED <<events, overdue, open, analyses, changes, index>>

\* The listener of index messages at work.
Consume ==
  \/ \E e \in Events, action \in {"UPSERT", "DELETE"} : Receive(e, action)
  \/ Handle \/ Drop

End(t) == Commit(t) \/ Fail(t) \/ EndReindex(t)

Next ==
  \/ \E e \in Events :
       \/ Pass(e) \/ Create(e) \/ Delete(e) \/ BeginAnalysis(e)
       \/ \E t \in Threads, op \in {"approve", "reject", "reanalyze"} : BeginReview(t, op, e)
  \/ BeginExpiration
  \/ \E t \in Threads : BeginReindex(t)
  \/ \E t \in Actors : End(t)
  \/ Consume

Spec == Init /\ [][Next]_vars

-----------------------------------------------------------------------------

\* Every variable has its type.
TypeOK ==
  /\ events \in [Events -> Row \cup {None, Gone}]
  /\ overdue \subseteq Events
  /\ open \in [Actors -> Transaction \cup {None}]
  /\ analyses \subseteq Events
  /\ changes \subseteq Message
  /\ consumer \in Handling \cup {None}
  /\ index \subseteq Events
  /\ astray \subseteq Events

\* Nothing that concerns the event is on its way.
Settled(e) ==
  /\ e \notin analyses
  /\ \A action \in {"UPSERT", "DELETE"} : <<e, action>> \notin changes
  /\ consumer # None => consumer.event # e
  /\ \A t \in Actors : open[t] # None => e \notin DOMAIN open[t].read

\* An event in the index can be seen: it exists, is approved and not expired,
\* in whatever order and however often the messages came.  Excepted is an
\* event whose row was overwritten by a transaction that had not read it as
\* it was, or whose message was dropped or handled during a reindexing.
IndexHasNoHidden ==
  \A e \in index : Settled(e) => e \in Visible \/ e \in astray
=============================================================================
