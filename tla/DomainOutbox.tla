---------------------------- MODULE DomainOutbox ----------------------------
(***************************************************************************)
(* The transactional outbox of the backend: business transactions save an  *)
(* outbox row, a scheduled dispatcher sends due rows to the broker and     *)
(* saves the outcome, listeners consume the messages.  The dispatcher      *)
(* loads a row, sends, and saves the whole row it had loaded (the row has  *)
(* no version column and dispatchOne is called past its transactional      *)
(* proxy), so a crash or another dispatcher can come between any two of    *)
(* these steps.  The channel has no publisher confirms, no mandatory flag  *)
(* and no transaction: that a call returned says nothing of the broker.    *)
(***************************************************************************)
EXTENDS Integers, Sequences, FiniteSets, SequencesExt

CONSTANTS
  Events,       \* ids of outbox rows, in the order of their numbers
  Dispatchers,  \* application instances whose scheduler runs
  MaxAttempts,  \* app.mq.outbox.max-attempts
  BatchSize,    \* app.mq.outbox.batch-size
  MaxFaults,    \* bound: crashes and failed saves
  MaxSends,     \* bound: copies of one event that are sent
  MaxDropped,   \* bound: events of which one copy is lost or rejected
  None          \* "no row loaded"

ASSUME EventsAssumption == Events \subseteq Nat
ASSUME AttemptsAssumption == MaxAttempts \in Nat \ {0} /\ BatchSize \in Nat \ {0}
ASSUME BoundsAssumption == {MaxFaults, MaxSends, MaxDropped} \subseteq Nat

VARIABLES
  row,      \* domain_event_outbox
  batch,    \* rest of the list dispatchDueEvents iterates over
  held,     \* row dispatchOne has loaded, with its changes
  sends,    \* copies of each event that were handed to the broker
  gone,     \* copies that left the broker, handled or not
  dropped,  \* events of which the broker lost a copy, or a listener rejected one
  handled,  \* events whose handler ran to its end
  faults,   \* crashes and failed saves so far
  started   \* instances whose scheduler was started

vars == <<row, batch, held, sends, gone, dropped, handled, faults, started>>

-----------------------------------------------------------------------------

Row == [status : {"NONE", "PENDING", "SENT", "FAILED"},
        attempts : 0..MaxAttempts, due : BOOLEAN]

Held == [event : Events, row : Row, phase : {"LOADED", "RETURNED", "FAILED"}]

ASSUME NoneAssumption == None \notin Held

\* Plausible bug: dispatchOne trusts the list.
AnyRow(r) == TRUE

\* The query findPublishable and the guard of dispatchOne.
Publishable(r) ==
  r.status \in {"PENDING", "FAILED"} /\ r.due /\ r.attempts < MaxAttempts

Dispatchable(r) == r.status # "SENT" /\ r.attempts < MaxAttempts

\* What the query returns: the first BatchSize publishable rows by id.
DueLists ==
  LET due == {e \in Events : Publishable(row[e])}
  IN  {list \in BoundedSeq(due, BatchSize) :
         /\ \A i, j \in DOMAIN list : i < j => list[i] < list[j]
         /\ \A e \in due \ ToSet(list) :
              Len(list) = BatchSize /\ \A i \in DOMAIN list : list[i] < e}

Init ==
  /\ row = [e \in Events |-> [status |-> "NONE", attempts |-> 0, due |-> FALSE]]
  /\ batch = [w \in Dispatchers |-> <<>>]
  /\ held = [w \in Dispatchers |-> None]
  /\ sends = [e \in Events |-> 0]
  /\ gone = [e \in Events |-> 0]
  /\ dropped = {}
  /\ handled = [e \in Events |-> FALSE]
  /\ faults = 0
  /\ \E w \in Dispatchers : started = {w}

\* The transaction that called DomainEventPublisher.publish commits.
Publish(e) ==
  /\ row[e].status = "NONE"
  /\ row' = [row EXCEPT ![e] = [status |-> "PENDING", attempts |-> 0, due |-> TRUE]]
  /\ UNCHANGED <<batch, held, sends, gone, dropped, handled, faults, started>>

\* Another instance of the backend is deployed.
StartInstance(w) ==
  /\ started' = started \cup {w}
  /\ UNCHANGED <<row, batch, held, sends, gone, dropped, handled, faults>>

\* nextAttemptAt is reached.
BackoffElapses(e) ==
  /\ row[e].status = "FAILED" /\ ~row[e].due
  /\ row' = [row EXCEPT ![e].due = TRUE]
  /\ UNCHANGED <<batch, held, sends, gone, dropped, handled, faults, started>>

\* dispatchDueEvents: the scheduler starts a run once the one before returned.
Poll(w) ==
  /\ w \in started
  /\ batch[w] = <<>> /\ held[w] = None
  /\ \E list \in DueLists \ {<<>>} : batch' = [batch EXCEPT ![w] = list]
  /\ UNCHANGED <<row, held, sends, gone, dropped, handled, faults, started>>

\* dispatchOne: the row is loaded again and skipped when it is settled.
Load(w) ==
  /\ batch[w] # <<>> /\ held[w] = None
  /\ LET e == Head(batch[w])
     IN  held' = [held EXCEPT ![w] =
           IF Dispatchable(row[e])
           THEN [event |-> e, row |-> row[e], phase |-> "LOADED"] ELSE None]
  /\ batch' = [batch EXCEPT ![w] = Tail(@)]
  /\ UNCHANGED <<row, sends, gone, dropped, handled, faults, started>>

InPhase(w, phase) == held[w] # None /\ held[w].phase = phase

\* convertAndSend returns: the message was written to the connection.
Send(w) ==
  /\ InPhase(w, "LOADED")
  /\ sends[held[w].event] < MaxSends
  /\ sends' = [sends EXCEPT ![held[w].event] = @ + 1]
  /\ held' = [held EXCEPT ![w].phase = "RETURNED"]
  /\ UNCHANGED <<row, batch, gone, dropped, handled, faults, started>>

\* The payload cannot be read or the broker cannot be reached.
SendFails(w) ==
  /\ InPhase(w, "LOADED")
  /\ held' = [held EXCEPT ![w].phase = "FAILED"]
  /\ UNCHANGED <<row, batch, sends, gone, dropped, handled, faults, started>>

\* Plausible bug: the outcome is saved before the call.
SentBeforeCall(w) == held[w] # None /\ held[w].phase \in {"LOADED", "RETURNED"}

MaySaveSent(w) == InPhase(w, "RETURNED")

\* Plausible bug: the outcome of a send is not saved.
SameRow(r) == r

SentRow(r) == [r EXCEPT !.status = "SENT"]

\* save merges the row as it was loaded, whatever the table holds by now.
SaveSent(w) ==
  /\ MaySaveSent(w)
  /\ row' = [row EXCEPT ![held[w].event] = SentRow(held[w].row)]
  /\ held' = [held EXCEPT ![w] = None]
  /\ UNCHANGED <<batch, sends, gone, dropped, handled, faults, started>>

\* A save that throws is caught like a failed send.
SaveSentFails(w) ==
  /\ InPhase(w, "RETURNED") /\ faults < MaxFaults
  /\ faults' = faults + 1
  /\ held' = [held EXCEPT ![w].phase = "FAILED"]
  /\ UNCHANGED <<row, batch, sends, gone, dropped, handled, started>>

\* Plausible bug: a failure leaves the attempts as they were.
SameAttempts(attempts) == attempts

NextAttempts(attempts) == attempts + 1

\* markFailed.
SaveFailed(w) ==
  /\ InPhase(w, "FAILED")
  /\ row' = [row EXCEPT ![held[w].event] =
               [status |-> "FAILED", due |-> FALSE,
                attempts |-> NextAttempts(held[w].row.attempts)]]
  /\ held' = [held EXCEPT ![w] = None]
  /\ UNCHANGED <<batch, sends, gone, dropped, handled, faults, started>>

\* The instance stops, or the save in markFailed throws and ends the run.
Crash(w) ==
  /\ faults < MaxFaults
  /\ held[w] # None \/ batch[w] # <<>>
  /\ faults' = faults + 1
  /\ batch' = [batch EXCEPT ![w] = <<>>]
  /\ held' = [held EXCEPT ![w] = None]
  /\ UNCHANGED <<row, sends, gone, dropped, handled, started>>

Queued(e) == sends[e] - gone[e]

MayDrop(e) ==
  Queued(e) > 0 /\ e \notin dropped /\ Cardinality(dropped) < MaxDropped

\* A copy does not reach its queue, or the queue loses it: with the connection, as
\* one that no queue is bound for, or as one the broker had not yet stored.
Lose(e) ==
  /\ MayDrop(e)
  /\ gone' = [gone EXCEPT ![e] = @ + 1]
  /\ dropped' = dropped \cup {e}
  /\ UNCHANGED <<row, batch, held, sends, handled, faults, started>>

\* A listener handles a message and acknowledges it.
Handle(e) ==
  /\ Queued(e) > 0
  /\ gone' = [gone EXCEPT ![e] = @ + 1]
  /\ handled' = [handled EXCEPT ![e] = TRUE]
  /\ UNCHANGED <<row, batch, held, sends, dropped, faults, started>>

\* A listener stops before its acknowledgement: the message stays queued.
HandleUnacked(e) ==
  /\ Queued(e) > 0 /\ faults < MaxFaults
  /\ faults' = faults + 1
  /\ handled' = [handled EXCEPT ![e] = TRUE]
  /\ UNCHANGED <<row, batch, held, sends, gone, dropped, started>>

\* The handler threw in each of the listener's attempts; the message is
\* rejected and, with no requeue and no dead-letter queue, gone.
Reject(e) ==
  /\ MayDrop(e)
  /\ gone' = [gone EXCEPT ![e] = @ + 1]
  /\ dropped' = dropped \cup {e}
  /\ UNCHANGED <<row, batch, held, sends, handled, faults, started>>

DispatcherStep(w) ==
  \/ Load(w) \/ Send(w) \/ SendFails(w)
  \/ SaveSent(w) \/ SaveSentFails(w) \/ SaveFailed(w)

Next ==
  \/ \E e \in Events :
       \/ Publish(e) \/ BackoffElapses(e) \/ Lose(e)
       \/ Handle(e) \/ HandleUnacked(e) \/ Reject(e)
  \/ \E w \in Dispatchers :
       StartInstance(w) \/ Poll(w) \/ DispatcherStep(w) \/ Crash(w)

Spec == Init /\ [][Next]_vars

\* The scheduler runs every five seconds in every instance, a call of the
\* broker or the database returns, time passes, and listeners consume what the
\* broker still has: one of these goes on as long as there is one to go on.
Progress ==
  \/ \E w \in Dispatchers : Poll(w) \/ DispatcherStep(w)
  \/ \E e \in Events : BackoffElapses(e) \/ Handle(e) \/ Reject(e)

Fairness == WF_vars(Progress)

FairSpec == Spec /\ Fairness

-----------------------------------------------------------------------------

\* Every variable has its type.
TypeOK ==
  /\ row \in [Events -> Row]
  /\ batch \in [Dispatchers -> Seq(Events)]
  /\ held \in [Dispatchers -> Held \cup {None}]
  /\ sends \in [Events -> 0..MaxSends]
  /\ gone \in [Events -> Nat]
  /\ dropped \subseteq Events
  /\ handled \in [Events -> BOOLEAN]
  /\ faults \in 0..MaxFaults
  /\ started \subseteq Dispatchers

Parked(e) == row[e].attempts = MaxAttempts /\ row[e].status = "FAILED"

\* As long as no second instance was started, an event is handed to the broker again
\* only after a crash or a failed save, once for each.
DuplicatesNeedFaults ==
  Cardinality(started) = 1 => \A e \in Events : sends[e] <= 1 + faults

Delivery == INSTANCE EventDelivery WITH
  published <- {e \in Events : row[e].status # "NONE"},
  handed <- {e \in Events : sends[e] > 0},
  handled <- {e \in Events : handled[e]},
  announced <- {e \in Events : row[e].status = "SENT"},
  parked <- {e \in Events : Parked(e)},
  parallel <- Cardinality(started) > 1

\* The outbox keeps the promise it can keep: an event is handed over at least once or
\* its row is parked, and one that was handed over is handled unless a copy of it is
\* dropped, of which SENT says nothing.  No save of a single instance takes SENT
\* back; only one of another instance may.
ImplementsDelivery == Delivery!Spec
=============================================================================
