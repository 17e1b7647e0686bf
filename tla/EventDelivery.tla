--------------------------- MODULE EventDelivery ---------------------------
(***************************************************************************)
(* What the outbox promises to the publisher of a domain event: once its   *)
(* transaction has committed, the event is handed to the broker at least   *)
(* once and announced as sent, or it is parked for an operator; and one    *)
(* that was handed over is handled, unless a copy is dropped on its way:   *)
(* announced does not mean arrived.  One instance settles an event for     *)
(* good; with several, a late save of one may overwrite what another       *)
(* recorded, but an announced event was always handed over and every event *)
(* is settled in the end.                                                  *)
(***************************************************************************)
CONSTANTS Events

VARIABLES
  published,  \* events whose transaction committed
  handed,     \* events handed to the broker, once or more often
  handled,    \* events a listener has handled
  dropped,    \* events of which a copy got lost or was rejected
  announced,  \* events the outbox shows as SENT
  parked,     \* events the outbox will not try again
  parallel    \* whether several instances run

vars == <<published, handed, handled, dropped, announced, parked, parallel>>

Init ==
  /\ published = {} /\ handed = {} /\ handled = {} /\ dropped = {}
  /\ announced = {} /\ parked = {}
  /\ parallel = FALSE

StartInstance ==
  /\ parallel' = TRUE
  /\ UNCHANGED <<published, handed, handled, dropped, announced, parked>>

Publish(e) ==
  /\ e \notin published
  /\ published' = published \cup {e}
  /\ UNCHANGED <<handed, handled, dropped, announced, parked, parallel>>

HandOver(e) ==
  /\ e \in published /\ (e \in parked => parallel)
  /\ handed' = handed \cup {e}
  /\ UNCHANGED <<published, handled, dropped, announced, parked, parallel>>

\* A copy is handled, or it is gone and nobody is told.
Arrive(e) ==
  /\ e \in handed
  /\ \/ handled' = handled \cup {e} /\ dropped' = dropped
     \/ dropped' = dropped \cup {e} /\ handled' = handled
  /\ UNCHANGED <<published, handed, announced, parked, parallel>>

Announce(e) ==
  /\ e \in handed \ (announced \cup parked)
  /\ announced' = announced \cup {e}
  /\ UNCHANGED <<published, handed, handled, dropped, parked, parallel>>

Park(e) ==
  /\ e \in published \ (announced \cup parked)
  /\ parked' = parked \cup {e}
  /\ UNCHANGED <<published, handed, handled, dropped, announced, parallel>>

\* A late save of another instance.
Overwrite(e) ==
  /\ parallel /\ e \in announced \cup parked
  /\ \/ announced' = announced \ {e} /\ parked' \in {parked \ {e}, parked \cup {e}}
     \/ announced' = announced \cup {e} /\ parked' = parked \ {e}
  /\ announced' \subseteq handed
  /\ UNCHANGED <<published, handed, handled, dropped, parallel>>

Step(e) ==
  \/ Publish(e) \/ HandOver(e) \/ Arrive(e)
  \/ Announce(e) \/ Park(e) \/ Overwrite(e)

Next == StartInstance \/ \E e \in Events : Step(e)

\* What may happen, and what must.
SafeSpec == Init /\ [][Next]_vars

Spec ==
  /\ SafeSpec
  /\ \A e \in Events :
       /\ WF_vars(Announce(e) \/ Park(e))
       /\ WF_vars(e \notin handled \cup dropped /\ Arrive(e))
=============================================================================
