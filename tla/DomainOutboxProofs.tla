------------------------- MODULE DomainOutboxProofs -------------------------
(***************************************************************************)
(* The outbox for any events, instances, attempts and batches, and any     *)
(* number of crashes and failed saves.  OutboxInv says what the row in an  *)
(* instance's hands may still claim: it was open when it was loaded, and   *)
(* it agrees with the table as long as no other instance was started.      *)
(* From it follow the number of copies of an event that one instance can   *)
(* send, and that every step of the outbox is a step of EventDelivery.     *)
(***************************************************************************)
EXTENDS DomainOutbox, FiniteSetTheorems, TLAPS

\* A row that dispatchOne goes on with.
Open(r) == r.status \in {"PENDING", "FAILED"} /\ r.attempts < MaxAttempts

\* Only instances that were started dispatch, and only published events.
DispatchIsStarted ==
  /\ IsFiniteSet(started) /\ started # {}
  /\ \A w \in Dispatchers \ started : held[w] = None /\ batch[w] = <<>>

BatchIsPublished ==
  \A w \in Dispatchers : \A i \in DOMAIN batch[w] : row[batch[w][i]].status # "NONE"

HeldIsOpen ==
  \A w \in Dispatchers : held[w] # None =>
    /\ Open(held[w].row)
    /\ row[held[w].event].status # "NONE"
    /\ InPhase(w, "RETURNED") => sends[held[w].event] > 0

SentIsHanded == \A e \in Events : row[e].status = "SENT" => sends[e] > 0

Returned(e) == \E w \in Dispatchers : InPhase(w, "RETURNED") /\ held[w].event = e

\* One instance holds the row as the table has it, and an event it sent once
\* more than there were faults is settled by it.
OneInstance ==
  Cardinality(started) = 1 =>
    /\ \A w \in Dispatchers : held[w] # None =>
         LET r == row[held[w].event]
         IN  r.status = held[w].row.status /\ r.attempts = held[w].row.attempts
    /\ \A e \in Events :
         /\ sends[e] <= 1 + faults
         /\ row[e].status # "SENT" /\ ~Returned(e) => sends[e] <= faults

\* The inductive invariant.
OutboxInv ==
  /\ TypeOK
  /\ DispatchIsStarted
  /\ BatchIsPublished
  /\ HeldIsOpen
  /\ SentIsHanded
  /\ OneInstance

-----------------------------------------------------------------------------

\* The query returns a list of published events.
LEMMA DueListsArePublished ==
  ASSUME TypeOK, NEW list \in DueLists
  PROVE  list \in Seq(Events) /\ \A i \in DOMAIN list : row[list[i]].status # "NONE"
<1> DEFINE due == {e \in Events : Publishable(row[e])}
<1>1. list \in UNION {[1..m -> due] : m \in 0..BatchSize}
  BY DEF DueLists, BoundedSeq, SeqOf
<1>2. PICK m \in 0..BatchSize : list \in [1..m -> due]
  BY <1>1
<1>3. m \in Nat /\ list \in [1..m -> Events] /\ DOMAIN list = 1..m
  BY <1>2, AttemptsAssumption
<1>4. list \in Seq(Events)
  BY <1>3
<1>5. \A e \in due : row[e].status # "NONE"
  BY DEF Publishable
<1> QED
  BY <1>2, <1>3, <1>4, <1>5

\* Taking another element into a finite set that has one.
LEMMA OneMore ==
  ASSUME NEW S, IsFiniteSet(S), S # {}, NEW x
  PROVE  /\ IsFiniteSet(S \cup {x})
         /\ x \notin S => Cardinality(S \cup {x}) > 1
         /\ x \in S => S \cup {x} = S
         /\ Cardinality(S) \in Nat /\ Cardinality(S) > 0
<1>1. Cardinality(S) \in Nat /\ Cardinality(S) > 0
  BY FS_CardinalityType, FS_EmptySet
<1>2. /\ IsFiniteSet(S \cup {x})
      /\ x \notin S => Cardinality(S \cup {x}) = Cardinality(S) + 1
  BY FS_AddElement
<1> QED
  BY <1>1, <1>2

\* With one instance started, only that one has a list or a row.
LEMMA OneDispatches ==
  ASSUME DispatchIsStarted, Cardinality(started) = 1,
         NEW w \in Dispatchers, NEW v \in Dispatchers, held[w] # None, held[v] # None
  PROVE  w = v
<1>1. PICK x : started = {x}
  BY FS_Singleton DEF DispatchIsStarted
<1> QED
  BY <1>1 DEF DispatchIsStarted

\* The row that an instance holds.
LEMMA HeldType ==
  ASSUME TypeOK, NEW w \in Dispatchers, held[w] # None
  PROVE  /\ held[w] \in Held /\ held[w].event \in Events /\ held[w].row \in Row
         /\ held[w].row.attempts \in 0..MaxAttempts
         /\ row[held[w].event] \in Row
BY DEF TypeOK, Held, Row

-----------------------------------------------------------------------------

LEMMA PublisherSteps ==
  ASSUME OutboxInv, NEW e \in Events, Publish(e) \/ BackoffElapses(e)
  PROVE  OutboxInv'
<1> USE AttemptsAssumption, BoundsAssumption
<1> DEFINE new == row'[e]
<1>0. TypeOK /\ row[e] \in Row
  BY DEF OutboxInv, TypeOK
<1>1. UNCHANGED <<batch, held, sends, gone, dropped, handled, faults, started>>
  BY DEF Publish, BackoffElapses
<1>2. /\ row' \in [Events -> Row]
      /\ \A f \in Events \ {e} : row'[f] = row[f]
      /\ new.attempts = row[e].attempts \/ row[e].status = "NONE"
      /\ new.status = row[e].status \/ (row[e].status = "NONE" /\ new.status = "PENDING")
  <2>1. CASE Publish(e)
    <3>1. row' = [row EXCEPT ![e] = [status |-> "PENDING", attempts |-> 0, due |-> TRUE]]
      BY <2>1 DEF Publish
    <3>2. [status |-> "PENDING", attempts |-> 0, due |-> TRUE] \in Row
      BY DEF Row
    <3> QED
      BY <1>0, <2>1, <3>1, <3>2 DEF TypeOK, Publish
  <2>2. CASE BackoffElapses(e)
    <3>1. row' = [row EXCEPT ![e].due = TRUE]
      BY <2>2 DEF BackoffElapses
    <3>2. /\ [row[e] EXCEPT !.due = TRUE] \in Row
          /\ [row[e] EXCEPT !.due = TRUE].status = row[e].status
          /\ [row[e] EXCEPT !.due = TRUE].attempts = row[e].attempts
      BY <1>0 DEF Row
    <3> QED
      BY <1>0, <3>1, <3>2 DEF TypeOK
  <2> QED
    BY <2>1, <2>2
<1>3. TypeOK'
  BY <1>0, <1>1, <1>2 DEF TypeOK
<1>4. DispatchIsStarted'
  BY <1>1 DEF OutboxInv, DispatchIsStarted
<1>5. BatchIsPublished'
  <2>1. ASSUME NEW w \in Dispatchers, NEW i \in DOMAIN batch[w]
        PROVE  row'[batch[w][i]].status # "NONE"
    <3>1. batch[w][i] \in Events
      BY <1>0 DEF TypeOK
    <3> QED
      BY <1>2, <3>1 DEF OutboxInv, BatchIsPublished
  <2> QED
    BY <1>1, <2>1 DEF BatchIsPublished
<1>6. HeldIsOpen'
  BY <1>0, <1>1, <1>2, HeldType DEF OutboxInv, HeldIsOpen, InPhase
<1>7. SentIsHanded'
  BY <1>1, <1>2 DEF OutboxInv, SentIsHanded
<1>8. OneInstance'
  <2>1. \A f \in Events : Returned(f)' <=> Returned(f)
    BY <1>1 DEF Returned, InPhase
  <2>2. ASSUME NEW w \in Dispatchers, held[w] # None
        PROVE  LET f == held[w].event
               IN  row'[f].status = row[f].status /\ row'[f].attempts = row[f].attempts
    BY <1>0, <1>2, <2>2, HeldType DEF OutboxInv, HeldIsOpen
  <2>3. \A f \in Events : row'[f].status # "SENT" => row[f].status # "SENT"
    BY <1>2
  <2> QED
    BY <1>1, <2>1, <2>2, <2>3 DEF OutboxInv, OneInstance
<1> QED
  BY <1>3, <1>4, <1>5, <1>6, <1>7, <1>8 DEF OutboxInv

LEMMA ListenerSteps ==
  ASSUME OutboxInv, NEW e \in Events, Lose(e) \/ Handle(e) \/ HandleUnacked(e) \/ Reject(e)
  PROVE  OutboxInv'
<1> USE BoundsAssumption
<1>1. /\ UNCHANGED <<row, batch, held, sends, started>>
      /\ faults' \in 0..MaxFaults /\ faults' >= faults
      /\ gone' \in [Events -> Nat] /\ dropped' \subseteq Events
      /\ handled' \in [Events -> BOOLEAN]
  <2>1. TypeOK
    BY DEF OutboxInv
  <2>2. CASE Handle(e)
    BY <2>1, <2>2 DEF TypeOK, Handle
  <2>3. CASE HandleUnacked(e)
    BY <2>1, <2>3 DEF TypeOK, HandleUnacked
  <2>4. CASE Lose(e) \/ Reject(e)
    BY <2>1, <2>4 DEF TypeOK, Lose, Reject
  <2> QED
    BY <2>2, <2>3, <2>4
<1>2. TypeOK'
  BY <1>1 DEF OutboxInv, TypeOK
<1>3. OneInstance'
  <2>1. \A f \in Events : sends[f] \in Nat /\ (Returned(f)' <=> Returned(f))
    BY <1>1 DEF OutboxInv, TypeOK, Returned, InPhase
  <2> QED
    BY <1>1, <2>1 DEF OutboxInv, OneInstance, TypeOK
<1> QED
  BY <1>1, <1>2, <1>3
     DEF OutboxInv, DispatchIsStarted, BatchIsPublished, HeldIsOpen, InPhase, SentIsHanded

LEMMA InstanceSteps ==
  ASSUME OutboxInv, NEW w \in Dispatchers, StartInstance(w) \/ Poll(w)
  PROVE  OutboxInv'
<1>0. UNCHANGED <<row, held, sends, gone, dropped, handled, faults>>
  BY DEF StartInstance, Poll
<1>1. CASE StartInstance(w)
  <2>1. started' = started \cup {w} /\ batch' = batch
    BY <1>1 DEF StartInstance
  <2>2. /\ IsFiniteSet(started') /\ started' # {}
        /\ Cardinality(started') = 1 => started' = started
    <3>1. IsFiniteSet(started) /\ started # {}
      BY DEF OutboxInv, DispatchIsStarted
    <3>2. /\ IsFiniteSet(started \cup {w})
          /\ w \notin started => Cardinality(started \cup {w}) > 1
          /\ w \in started => started \cup {w} = started
      BY <3>1, OneMore
    <3> QED
      BY <2>1, <3>2
  <2>3. TypeOK' /\ DispatchIsStarted'
    BY <1>0, <2>1, <2>2 DEF OutboxInv, TypeOK, DispatchIsStarted
  <2>4. OneInstance'
    BY <1>0, <2>2 DEF OutboxInv, OneInstance, Returned, InPhase
  <2> QED
    BY <1>0, <2>1, <2>3, <2>4
       DEF OutboxInv, BatchIsPublished, HeldIsOpen, InPhase, SentIsHanded
<1>2. CASE Poll(w)
  <2>1. PICK list \in DueLists : batch' = [batch EXCEPT ![w] = list]
    BY <1>2 DEF Poll
  <2>2. started' = started /\ w \in started
    BY <1>2 DEF Poll
  <2>3. list \in Seq(Events) /\ \A i \in DOMAIN list : row[list[i]].status # "NONE"
    BY DueListsArePublished DEF OutboxInv
  <2>4. TypeOK' /\ DispatchIsStarted' /\ BatchIsPublished'
    BY <1>0, <2>1, <2>2, <2>3 DEF OutboxInv, TypeOK, DispatchIsStarted, BatchIsPublished
  <2> QED
    BY <1>0, <2>2, <2>4
       DEF OutboxInv, HeldIsOpen, InPhase, SentIsHanded, OneInstance, Returned
<1> QED
  BY <1>1, <1>2

\* One instance that holds a row in another phase than RETURNED: nobody waits to
\* save SENT, and the row it holds is not sent more often than there were faults.
LEMMA OneInstanceHolds ==
  ASSUME OutboxInv, Cardinality(started) = 1, NEW w \in Dispatchers, held[w] # None
  PROVE  /\ \A v \in Dispatchers \ {w} : held[v] = None
         /\ ~InPhase(w, "RETURNED") =>
              /\ \A e \in Events : ~Returned(e)
              /\ sends[held[w].event] <= faults
<1>1. \A v \in Dispatchers \ {w} : held[v] = None
  BY OneDispatches DEF OutboxInv
<1>2. ASSUME ~InPhase(w, "RETURNED"), NEW e \in Events PROVE ~Returned(e)
  BY <1>1, <1>2 DEF Returned, InPhase
<1>3. held[w].event \in Events /\ row[held[w].event].status # "SENT"
  BY HeldType DEF OutboxInv, HeldIsOpen, Open, OneInstance
<1> QED
  BY <1>1, <1>2, <1>3 DEF OutboxInv, OneInstance

LEMMA LoadStep ==
  ASSUME OutboxInv, NEW w \in Dispatchers, Load(w)
  PROVE  OutboxInv'
<1> USE AttemptsAssumption, BoundsAssumption
<1> DEFINE e == Head(batch[w])
           new == IF Dispatchable(row[e])
                  THEN [event |-> e, row |-> row[e], phase |-> "LOADED"] ELSE None
<1>0. TypeOK /\ batch[w] \in Seq(Events) /\ batch[w] # <<>> /\ held[w] = None
  BY DEF OutboxInv, TypeOK, Load
<1>1. /\ held' = [held EXCEPT ![w] = new] /\ batch' = [batch EXCEPT ![w] = Tail(@)]
      /\ UNCHANGED <<row, sends, gone, dropped, handled, faults, started>>
  BY DEF Load
<1>2. /\ e \in Events /\ e = batch[w][1] /\ 1 \in DOMAIN batch[w]
      /\ Tail(batch[w]) \in Seq(Events)
      /\ \A i \in DOMAIN Tail(batch[w]) :
           i + 1 \in DOMAIN batch[w] /\ Tail(batch[w])[i] = batch[w][i + 1]
  BY <1>0
<1>3. row[e] \in Row /\ row[e].status # "NONE"
  BY <1>0, <1>2 DEF OutboxInv, BatchIsPublished, TypeOK
<1>4. /\ new \in Held \cup {None}
      /\ new # None => /\ new = [event |-> e, row |-> row[e], phase |-> "LOADED"]
                       /\ Open(row[e])
  BY <1>2, <1>3 DEF Held, Dispatchable, Open, Row
<1>5. /\ held'[w] = new
      /\ \A v \in Dispatchers \ {w} : held'[v] = held[v] /\ batch'[v] = batch[v]
      /\ batch'[w] = Tail(batch[w])
  BY <1>0, <1>1 DEF TypeOK
<1> HIDE DEF new, e
<1>6. TypeOK'
  BY <1>0, <1>1, <1>2, <1>4 DEF TypeOK
<1>7. DispatchIsStarted'
  BY <1>0, <1>1, <1>5 DEF OutboxInv, DispatchIsStarted
<1>8. BatchIsPublished'
  <2>1. ASSUME NEW v \in Dispatchers, NEW i \in DOMAIN batch'[v]
        PROVE  row[batch'[v][i]].status # "NONE"
    <3>1. CASE v = w
      <4>1. i + 1 \in DOMAIN batch[w] /\ batch'[v][i] = batch[w][i + 1]
        BY <1>2, <1>5, <2>1, <3>1
      <4> QED
        BY <4>1 DEF OutboxInv, BatchIsPublished
    <3>2. CASE v # w
      BY <1>5, <2>1, <3>2 DEF OutboxInv, BatchIsPublished
    <3> QED
      BY <3>1, <3>2
  <2> QED
    BY <1>1, <2>1 DEF BatchIsPublished
<1>9. HeldIsOpen'
  BY <1>1, <1>3, <1>4, <1>5 DEF OutboxInv, HeldIsOpen, InPhase
<1>10. SentIsHanded'
  BY <1>1 DEF OutboxInv, SentIsHanded
<1>11. OneInstance'
  <2>1. \A f \in Events : Returned(f)' <=> Returned(f)
    BY <1>0, <1>4, <1>5 DEF Returned, InPhase
  <2> QED
    BY <1>1, <1>4, <1>5, <2>1 DEF OutboxInv, OneInstance
<1> QED
  BY <1>6, <1>7, <1>8, <1>9, <1>10, <1>11 DEF OutboxInv

\* What a step of an instance with a row in hand must show: it leaves the lists
\* and the started instances alone.
LEMMA HolderParts ==
  ASSUME OutboxInv, TypeOK', NEW w \in Dispatchers, held[w] # None,
         UNCHANGED <<batch, started>>,
         \A v \in Dispatchers \ {w} : held'[v] = held[v],
         \A e \in Events : /\ row[e].status # "NONE" => row'[e].status # "NONE"
                           /\ sends'[e] >= sends[e],
         HeldIsOpen', SentIsHanded', OneInstance'
  PROVE  OutboxInv'
<1>1. DispatchIsStarted'
  BY DEF OutboxInv, DispatchIsStarted
<1>2. ASSUME NEW v \in Dispatchers, NEW i \in DOMAIN batch[v]
      PROVE  row'[batch[v][i]].status # "NONE"
  <2>1. batch[v][i] \in Events
    BY DEF OutboxInv, TypeOK
  <2> QED
    BY <2>1 DEF OutboxInv, BatchIsPublished
<1> QED
  BY <1>1, <1>2 DEF OutboxInv, BatchIsPublished

LEMMA HolderSteps ==
  ASSUME OutboxInv, NEW w \in Dispatchers,
         Send(w) \/ SendFails(w) \/ SaveSent(w) \/ SaveSentFails(w) \/ SaveFailed(w)
  PROVE  OutboxInv'
<1> USE AttemptsAssumption, BoundsAssumption
<1>0. /\ TypeOK /\ held[w] # None
      /\ sends \in [Events -> Nat] /\ faults \in Nat
  BY DEF OutboxInv, TypeOK, Send, SendFails, SaveSent, MaySaveSent, SaveSentFails,
         SaveFailed, InPhase
<1>e. PICK e : e = held[w].event
  OBVIOUS
<1>1. /\ held[w] \in Held /\ e \in Events /\ held[w].row \in Row /\ row[e] \in Row
      /\ Open(held[w].row) /\ row[e].status # "NONE"
  BY <1>0, <1>e, HeldType DEF OutboxInv, HeldIsOpen
<1>2. ASSUME NEW phase \in {"RETURNED", "FAILED"},
             held' = [held EXCEPT ![w].phase = phase]
      PROVE  /\ held' \in [Dispatchers -> Held \cup {None}]
             /\ held'[w] # None /\ held'[w].event = e /\ held'[w].row = held[w].row
             /\ held'[w].phase = phase
             /\ \A v \in Dispatchers \ {w} : held'[v] = held[v]
  <2>1. [held[w] EXCEPT !.phase = phase] \in Held
    BY <1>1 DEF Held
  <2> QED
    BY <1>0, <1>1, <1>e, <1>2, <2>1, NoneAssumption DEF TypeOK, Held
<1>3. ASSUME held' = [held EXCEPT ![w] = None]
      PROVE  /\ held' \in [Dispatchers -> Held \cup {None}]
             /\ held'[w] = None
             /\ \A v \in Dispatchers \ {w} : held'[v] = held[v]
  BY <1>0, <1>3 DEF TypeOK
<1>4. ASSUME NEW r \in Row, row' = [row EXCEPT ![e] = r]
      PROVE  /\ row' \in [Events -> Row]
             /\ row'[e] = r
             /\ \A f \in Events \ {e} : row'[f] = row[f]
  BY <1>0, <1>1, <1>4 DEF TypeOK
<1>5. CASE Send(w)
  <2>1. /\ InPhase(w, "LOADED") /\ sends[e] < MaxSends
        /\ sends' = [sends EXCEPT ![e] = @ + 1]
        /\ held' = [held EXCEPT ![w].phase = "RETURNED"]
        /\ UNCHANGED <<row, batch, gone, dropped, handled, faults, started>>
    BY <1>e, <1>5 DEF Send
  <2>2. /\ sends' \in [Events -> 0..MaxSends]
        /\ sends'[e] = sends[e] + 1
        /\ \A f \in Events \ {e} : sends'[f] = sends[f]
    BY <1>0, <1>1, <2>1 DEF TypeOK
  <2>3. TypeOK'
    BY <1>0, <1>2, <2>1, <2>2 DEF TypeOK
  <2>4. \A f \in Events : /\ sends[f] \in Nat /\ sends'[f] \in Nat
                          /\ sends'[f] >= sends[f]
    BY <1>0, <2>2
  <2>5. HeldIsOpen'
    <3>1. ASSUME NEW v \in Dispatchers, held'[v] # None
          PROVE  /\ Open(held'[v].row)
                 /\ row'[held'[v].event].status # "NONE"
                 /\ InPhase(v, "RETURNED")' => sends'[held'[v].event] > 0
      <4>1. CASE v = w
        BY <1>0, <1>1, <1>2, <2>1, <2>2, <4>1
      <4>2. CASE v # w
        <5>1. held'[v] = held[v] /\ held[v].event \in Events
          BY <1>0, <1>2, <2>1, <3>1, <4>2, HeldType
        <5>2. /\ Open(held[v].row) /\ row[held[v].event].status # "NONE"
              /\ InPhase(v, "RETURNED") => sends[held[v].event] > 0
          BY <3>1, <5>1 DEF OutboxInv, HeldIsOpen
        <5> QED
          <6>1. Open(held'[v].row) /\ row'[held'[v].event].status # "NONE"
            BY <2>1, <5>1, <5>2
          <6>2. InPhase(v, "RETURNED")' => InPhase(v, "RETURNED")
            BY <5>1 DEF InPhase
          <6>3. sends[held[v].event] > 0 => sends'[held[v].event] > 0
            BY <2>4, <5>1
          <6> QED
            BY <5>1, <5>2, <6>1, <6>2, <6>3
      <4> QED
        BY <4>1, <4>2
    <3> QED
      BY <3>1 DEF HeldIsOpen, Open
  <2>6. SentIsHanded'
    BY <1>0, <2>1, <2>4 DEF OutboxInv, SentIsHanded, TypeOK
  <2>7. OneInstance'
    <3> SUFFICES ASSUME Cardinality(started) = 1 PROVE OneInstance'
      BY <2>1 DEF OneInstance
    <3>1. /\ \A v \in Dispatchers \ {w} : held[v] = None
          /\ \A f \in Events : ~Returned(f)
          /\ sends[e] <= faults
      BY <1>e, <1>0, <2>1, OneInstanceHolds DEF InPhase
    <3>2. Returned(e)'
      BY <1>2, <2>1 DEF Returned, InPhase
    <3>3. \A f \in Events : row[f].status # "SENT" => sends[f] <= faults
      BY <3>1 DEF OutboxInv, OneInstance
    <3>4. \A f \in Events : sends'[f] <= 1 + faults
      BY <1>0, <2>2, <3>1 DEF OutboxInv, OneInstance
    <3>5. \A f \in Events : row[f].status # "SENT" /\ ~Returned(f)' => sends'[f] <= faults
      BY <2>2, <3>2, <3>3
    <3>6. \A v \in Dispatchers : held'[v] # None =>
            LET r == row[held'[v].event]
            IN  r.status = held'[v].row.status /\ r.attempts = held'[v].row.attempts
      BY <1>e, <1>0, <1>2, <2>1, <3>1 DEF OutboxInv, OneInstance
    <3> QED
      BY <2>1, <3>4, <3>5, <3>6 DEF OneInstance
  <2> QED
    BY <1>0, <1>2, <2>1, <2>3, <2>4, <2>5, <2>6, <2>7, HolderParts
<1>6. CASE SendFails(w) \/ SaveSentFails(w)
  <2>1. /\ held' = [held EXCEPT ![w].phase = "FAILED"]
        /\ UNCHANGED <<row, batch, sends, gone, dropped, handled, started>>
        /\ faults' \in 0..MaxFaults /\ faults' >= faults
        /\ InPhase(w, "RETURNED") => faults' = faults + 1
    <3>1. CASE SendFails(w)
      BY <1>0, <3>1 DEF SendFails, InPhase, TypeOK
    <3>2. CASE SaveSentFails(w)
      BY <1>0, <3>2 DEF SaveSentFails, TypeOK
    <3> QED
      BY <1>6, <3>1, <3>2
  <2>2. TypeOK'
    BY <1>0, <1>2, <2>1 DEF TypeOK
  <2>3. HeldIsOpen'
    BY <1>1, <1>2, <2>1 DEF OutboxInv, HeldIsOpen, InPhase, Open
  <2>4. SentIsHanded'
    BY <2>1 DEF OutboxInv, SentIsHanded
  <2>5. OneInstance'
    <3> SUFFICES ASSUME Cardinality(started) = 1 PROVE OneInstance'
      BY <2>1 DEF OneInstance
    <3>1. /\ \A v \in Dispatchers \ {w} : held[v] = None
          /\ \A f \in Events : sends[f] <= 1 + faults
          /\ \A f \in Events : row[f].status # "SENT" /\ ~Returned(f) => sends[f] <= faults
      BY <1>0, OneInstanceHolds DEF OutboxInv, OneInstance
    <3>2. \A f \in Events : row[f].status # "SENT" => sends[f] <= faults'
      <4>1. CASE InPhase(w, "RETURNED")
        BY <1>0, <2>1, <3>1, <4>1
      <4>2. CASE ~InPhase(w, "RETURNED")
        BY <1>0, <2>1, <3>1, <4>2, OneInstanceHolds
      <4> QED
        BY <4>1, <4>2
    <3>3. \A f \in Events : sends[f] <= 1 + faults'
      BY <1>0, <2>1, <3>1
    <3>4. \A v \in Dispatchers : held'[v] # None =>
            LET r == row[held'[v].event]
            IN  r.status = held'[v].row.status /\ r.attempts = held'[v].row.attempts
      BY <1>e, <1>0, <1>2, <2>1, <3>1 DEF OutboxInv, OneInstance
    <3> QED
      BY <2>1, <3>2, <3>3, <3>4 DEF OneInstance
  <2> QED
    BY <1>0, <1>2, <2>1, <2>2, <2>3, <2>4, <2>5, HolderParts
<1>7. CASE SaveSent(w) \/ SaveFailed(w)
  <2>1. PICK r \in Row :
          /\ row' = [row EXCEPT ![e] = r]
          /\ \/ r.status = "SENT" /\ InPhase(w, "RETURNED")
             \/ r.status = "FAILED" /\ ~InPhase(w, "RETURNED")
    <3>1. CASE SaveSent(w)
      <4>1. SentRow(held[w].row) \in Row /\ SentRow(held[w].row).status = "SENT"
        BY <1>1 DEF SentRow, Row
      <4> QED
        <5>1. row' = [row EXCEPT ![e] = SentRow(held[w].row)] /\ InPhase(w, "RETURNED")
          BY <1>e, <3>1 DEF SaveSent, MaySaveSent
        <5> QED
          BY <4>1, <5>1
    <3>2. CASE SaveFailed(w)
      <4> DEFINE r == [status |-> "FAILED", due |-> FALSE,
                       attempts |-> NextAttempts(held[w].row.attempts)]
      <4>1. r \in Row /\ r.status = "FAILED"
        BY <1>1 DEF Row, Open, NextAttempts
      <4>2. row' = [row EXCEPT ![e] = r] /\ ~InPhase(w, "RETURNED")
        BY <1>e, <3>2 DEF SaveFailed, InPhase
      <4> QED
        BY <4>1, <4>2
    <3> QED
      BY <1>7, <3>1, <3>2
  <2>2. /\ held' = [held EXCEPT ![w] = None]
        /\ UNCHANGED <<batch, sends, gone, dropped, handled, faults, started>>
    BY <1>7 DEF SaveSent, SaveFailed
  <2>3. TypeOK'
    BY <1>0, <1>3, <1>4, <2>1, <2>2 DEF TypeOK
  <2>4. \A f \in Events : row[f].status # "NONE" => row'[f].status # "NONE"
    BY <1>4, <2>1
  <2>5. HeldIsOpen'
    BY <1>0, <1>3, <2>2, <2>4, HeldType DEF OutboxInv, HeldIsOpen, InPhase
  <2>6. SentIsHanded'
    <3>1. InPhase(w, "RETURNED") => sends[e] > 0
      BY <1>e, <1>0 DEF OutboxInv, HeldIsOpen
    <3> QED
      BY <1>4, <2>1, <2>2, <3>1 DEF OutboxInv, SentIsHanded
  <2>7. OneInstance'
    <3> SUFFICES ASSUME Cardinality(started) = 1 PROVE OneInstance'
      BY <2>2 DEF OneInstance
    <3>1. \A v \in Dispatchers : held'[v] = None
      BY <1>0, <1>3, <2>2, OneInstanceHolds
    <3>2. ASSUME NEW f \in Events
          PROVE  /\ sends'[f] <= 1 + faults'
                 /\ row'[f].status # "SENT" => sends'[f] <= faults'
      <4>1. sends[f] <= 1 + faults
        BY DEF OutboxInv, OneInstance
      <4>2. CASE f = e
        <5>1. ~InPhase(w, "RETURNED") => sends[e] <= faults
          BY <1>e, <1>0, OneInstanceHolds
        <5> QED
          BY <1>4, <2>1, <2>2, <4>1, <4>2, <5>1
      <4>3. CASE f # e
        <5>1. row'[f] = row[f] /\ ~(InPhase(w, "RETURNED") /\ held[w].event = f)
          BY <1>e, <1>4, <2>1, <4>3
        <5>2. ~Returned(f)
          BY <1>0, <5>1, OneInstanceHolds DEF Returned, InPhase
        <5> QED
          BY <2>2, <4>1, <5>1, <5>2 DEF OutboxInv, OneInstance
      <4> QED
        BY <4>2, <4>3
    <3> QED
      BY <3>1, <3>2 DEF OneInstance
  <2> QED
    BY <1>0, <1>3, <2>2, <2>3, <2>4, <2>5, <2>6, <2>7, HolderParts
<1> QED
  BY <1>5, <1>6, <1>7

LEMMA CrashStep ==
  ASSUME OutboxInv, NEW w \in Dispatchers, Crash(w)
  PROVE  OutboxInv'
<1> USE BoundsAssumption
<1>1. /\ faults < MaxFaults /\ faults' = faults + 1
      /\ batch' = [batch EXCEPT ![w] = <<>>]
      /\ held' = [held EXCEPT ![w] = None]
      /\ UNCHANGED <<row, sends, gone, dropped, handled, started>>
  BY DEF Crash
<1>2. TypeOK /\ faults \in Nat /\ faults' \in 0..MaxFaults /\ \A e \in Events : sends[e] \in Nat
  BY <1>1 DEF OutboxInv, TypeOK
<1>3. /\ batch' \in [Dispatchers -> Seq(Events)] /\ batch'[w] = <<>>
      /\ held' \in [Dispatchers -> Held \cup {None}] /\ held'[w] = None
      /\ \A v \in Dispatchers \ {w} : batch'[v] = batch[v] /\ held'[v] = held[v]
  BY <1>1, <1>2 DEF TypeOK
<1>4. TypeOK'
  BY <1>1, <1>2, <1>3 DEF TypeOK
<1>5. DispatchIsStarted' /\ BatchIsPublished'
  BY <1>1, <1>3 DEF OutboxInv, DispatchIsStarted, BatchIsPublished
<1>6. HeldIsOpen' /\ SentIsHanded'
  BY <1>1, <1>3 DEF OutboxInv, HeldIsOpen, InPhase, SentIsHanded
<1>7. OneInstance'
  <2> SUFFICES ASSUME Cardinality(started) = 1 PROVE OneInstance'
    BY <1>1 DEF OneInstance
  <2>1. \A e \in Events : sends[e] <= 1 + faults
    BY DEF OutboxInv, OneInstance
  <2>2. \A e \in Events : sends[e] <= 1 + faults' /\ sends[e] <= faults'
    BY <1>1, <1>2, <2>1
  <2> QED
    BY <1>1, <1>3, <2>2 DEF OutboxInv, OneInstance
<1> QED
  BY <1>4, <1>5, <1>6, <1>7 DEF OutboxInv

LEMMA OutboxInit == Init => OutboxInv
<1> USE AttemptsAssumption, BoundsAssumption
<1> SUFFICES ASSUME Init PROVE OutboxInv
  OBVIOUS
<1>1. PICK w \in Dispatchers : started = {w}
  BY DEF Init
<1>2. IsFiniteSet(started) /\ started # {} /\ started \subseteq Dispatchers
  BY <1>1, FS_Singleton
<1>3. TypeOK
  BY <1>2 DEF Init, TypeOK, Row
<1>4. \A v \in Dispatchers : held[v] = None /\ batch[v] = <<>>
  BY DEF Init
<1>5. \A e \in Events : sends[e] = 0 /\ row[e].status = "NONE" /\ faults = 0
  BY DEF Init
<1> QED
  BY <1>2, <1>3, <1>4, <1>5
     DEF OutboxInv, DispatchIsStarted, BatchIsPublished, HeldIsOpen, SentIsHanded, OneInstance

LEMMA OutboxNext == OutboxInv /\ [Next]_vars => OutboxInv'
<1> SUFFICES ASSUME OutboxInv, [Next]_vars PROVE OutboxInv'
  OBVIOUS
<1>1. ASSUME Next PROVE OutboxInv'
  BY <1>1, PublisherSteps, ListenerSteps, InstanceSteps, LoadStep, HolderSteps, CrashStep
     DEF Next, DispatcherStep
<1>2. ASSUME UNCHANGED vars PROVE OutboxInv'
  BY <1>2 DEF vars, OutboxInv, TypeOK, DispatchIsStarted, BatchIsPublished, HeldIsOpen,
              InPhase, SentIsHanded, OneInstance, Returned
<1> QED
  BY <1>1, <1>2

\* The inductive invariant of the outbox: what a dispatch holds was open when it was
\* loaded, what a row says it sent was handed to the broker, and while one instance
\* runs the row it holds is the one in the table.
THEOREM OutboxInvariance == Spec => []OutboxInv
BY OutboxInit, OutboxNext, PTL DEF Spec

\* Every variable has its type: above all, no row is attempted more often than
\* app.mq.outbox.max-attempts, whatever instances save over each other.
THEOREM OutboxTypeCorrect == Spec => []TypeOK
<1>1. OutboxInv => TypeOK
  BY DEF OutboxInv
<1> QED
  BY <1>1, OutboxInvariance, PTL

\* As long as no second instance was started, an event is handed to the broker again
\* only after a crash or a failed save, once for each.  (A listener that repeats a
\* copy, and the broker that redelivers it, are not counted: they hand over nothing.)
THEOREM ResendsNeedFaults == Spec => []DuplicatesNeedFaults
<1>1. OutboxInv => DuplicatesNeedFaults
  BY DEF OutboxInv, OneInstance, DuplicatesNeedFaults
<1> QED
  BY <1>1, OutboxInvariance, PTL

-----------------------------------------------------------------------------

\* What the publisher sees of the outbox.
Published == {e \in Events : row[e].status # "NONE"}
HandedEvents == {e \in Events : sends[e] > 0}
HandledEvents == {e \in Events : handled[e]}
Announced == {e \in Events : row[e].status = "SENT"}
ParkedEvents == {e \in Events : Parked(e)}
Parallel == Cardinality(started) > 1

Seen == <<Published, HandedEvents, HandledEvents, dropped, Announced, ParkedEvents, Parallel>>

\* What the publisher sees is a state of EventDelivery.
LEMMA SeenIsDelivery ==
  /\ Delivery!vars = Seen
  /\ Delivery!Next <=>
       \/ Delivery!StartInstance
       \/ \E e \in Events : \/ Delivery!Publish(e) \/ Delivery!HandOver(e)
                           \/ Delivery!Arrive(e)
                           \/ Delivery!Announce(e) \/ Delivery!Park(e)
                           \/ Delivery!Overwrite(e)
BY DEF Delivery!vars, Delivery!Next, Delivery!Step, Seen, Published, HandedEvents,
       HandledEvents, Announced, ParkedEvents, Parallel

\* One event's row changes, and nothing else that the publisher sees.
LEMMA SeenChange ==
  ASSUME TypeOK, NEW e \in Events, NEW r \in Row, row' = [row EXCEPT ![e] = r],
         UNCHANGED <<sends, handled, dropped, started>>,
         row[e].status # "NONE", r.status \in {"SENT", "FAILED"}
  PROVE  /\ UNCHANGED <<Published, HandedEvents, HandledEvents, dropped, Parallel>>
         /\ Announced' = IF r.status = "SENT" THEN Announced \cup {e} ELSE Announced \ {e}
         /\ ParkedEvents' = IF r.status = "FAILED" /\ r.attempts = MaxAttempts
                            THEN ParkedEvents \cup {e} ELSE ParkedEvents \ {e}
<1>1. row'[e] = r /\ \A f \in Events \ {e} : row'[f] = row[f]
  BY DEF TypeOK
<1>2. UNCHANGED <<Published, HandedEvents, HandledEvents, dropped, Parallel>>
  BY <1>1 DEF Published, HandedEvents, HandledEvents, Parallel
<1>3. Announced' = IF r.status = "SENT" THEN Announced \cup {e} ELSE Announced \ {e}
  BY <1>1 DEF Announced
<1>4. ParkedEvents' = IF r.status = "FAILED" /\ r.attempts = MaxAttempts
                      THEN ParkedEvents \cup {e} ELSE ParkedEvents \ {e}
  BY <1>1 DEF ParkedEvents, Parked
<1> QED
  BY <1>2, <1>3, <1>4

LEMMA DeliveryInit == Init => Delivery!Init
<1> SUFFICES ASSUME Init PROVE Delivery!Init
  OBVIOUS
<1>1. PICK w \in Dispatchers : started = {w}
  BY DEF Init
<1>2. Cardinality(started) = 1
  BY <1>1, FS_Singleton
<1>3. /\ dropped = {}
      /\ \A e \in Events : row[e].status = "NONE" /\ sends[e] = 0 /\ ~handled[e]
  BY DEF Init
<1> QED
  BY <1>2, <1>3 DEF Delivery!Init, Parked

LEMMA DeliveryNext ==
  ASSUME OutboxInv, [Next]_vars
  PROVE  [Delivery!Next]_(Delivery!vars)
<1> USE AttemptsAssumption, BoundsAssumption
<1>0. TypeOK /\ Cardinality(started) \in Nat /\ Cardinality(started) > 0
  BY OneMore DEF OutboxInv, DispatchIsStarted
<1>1. ASSUME NEW e \in Events, Publish(e)
      PROVE  Delivery!Publish(e)
  <2>1. row' = [row EXCEPT ![e] = [status |-> "PENDING", attempts |-> 0, due |-> TRUE]]
    BY <1>1 DEF Publish
  <2>2. /\ row'[e] = [status |-> "PENDING", attempts |-> 0, due |-> TRUE]
        /\ \A f \in Events \ {e} : row'[f] = row[f]
    BY <1>0, <2>1 DEF TypeOK
  <2> QED
    BY <1>1, <2>2 DEF Publish, Delivery!Publish, Parked
<1>2. ASSUME NEW e \in Events, BackoffElapses(e)
      PROVE  UNCHANGED Seen
  <2>1. row' = [row EXCEPT ![e].due = TRUE]
    BY <1>2 DEF BackoffElapses
  <2>2. \A f \in Events : row'[f].status = row[f].status /\ row'[f].attempts = row[f].attempts
    BY <1>0, <2>1 DEF TypeOK, Row
  <2> QED
    BY <1>2, <2>2
       DEF BackoffElapses, Seen, Published, HandedEvents, HandledEvents, Announced,
           ParkedEvents, Parked, Parallel
<1>3. ASSUME UNCHANGED <<row, sends, handled, dropped, started>>
      PROVE  UNCHANGED Seen
  BY <1>3 DEF Seen, Published, HandedEvents, HandledEvents, Announced, ParkedEvents, Parked,
              Parallel
<1>4. ASSUME NEW w \in Dispatchers, StartInstance(w)
      PROVE  Delivery!StartInstance \/ UNCHANGED Seen
  <2>1. started' = started \cup {w} /\ UNCHANGED <<row, sends, handled, dropped>>
    BY <1>4 DEF StartInstance
  <2>2. CASE w \in started
    <3>1. started' = started
      BY <2>1, <2>2
    <3> QED
      BY <1>3, <2>1, <3>1
  <2>3. CASE w \notin started
    <3>1. Cardinality(started') > 1
      BY <2>1, <2>3, OneMore DEF OutboxInv, DispatchIsStarted
    <3> QED
      BY <2>1, <3>1 DEF Delivery!StartInstance, Parked
  <2> QED
    BY <2>2, <2>3
<1>5. ASSUME NEW w \in Dispatchers, Send(w)
      PROVE  \E e \in Events : Delivery!HandOver(e)
  <2>1. /\ held[w] # None
        /\ sends' = [sends EXCEPT ![held[w].event] = @ + 1]
        /\ UNCHANGED <<row, handled, dropped, started>>
    BY <1>5 DEF Send, InPhase
  <2>2. PICK e \in Events : e = held[w].event
    BY <1>0, <2>1, HeldType
  <2>3. sends'[e] > 0 /\ \A f \in Events \ {e} : sends'[f] = sends[f]
    BY <1>0, <2>1, <2>2 DEF TypeOK
  <2>4. row[e].status # "NONE" /\ Open(held[w].row)
    BY <2>1, <2>2 DEF OutboxInv, HeldIsOpen
  <2>5. Parked(e) => Cardinality(started) > 1
    <3> SUFFICES ASSUME Parked(e), Cardinality(started) = 1 PROVE FALSE
      BY <1>0
    <3>1. row[e].attempts = held[w].row.attempts
      BY <2>1, <2>2 DEF OutboxInv, OneInstance
    <3> QED
      BY <1>0, <2>1, <2>4, <3>1, HeldType DEF Parked, Open
  <2> QED
    BY <2>1, <2>3, <2>4, <2>5 DEF Delivery!HandOver, Parked
<1>6. ASSUME NEW w \in Dispatchers, SaveSent(w) \/ SaveFailed(w)
      PROVE  \/ UNCHANGED Seen
             \/ \E e \in Events : Delivery!Announce(e) \/ Delivery!Park(e) \/ Delivery!Overwrite(e)
  <2>1. held[w] # None /\ UNCHANGED <<sends, handled, dropped, started>>
    BY <1>6 DEF SaveSent, MaySaveSent, SaveFailed, InPhase
  <2>2. PICK e \in Events : e = held[w].event
    BY <1>0, <2>1, HeldType
  <2>3. /\ row[e].status # "NONE" /\ Open(held[w].row) /\ held[w].row \in Row
        /\ InPhase(w, "RETURNED") => e \in HandedEvents
        /\ e \in Published
    BY <1>0, <2>1, <2>2, HeldType DEF OutboxInv, HeldIsOpen, HandedEvents, Published
  <2>4. ~Parallel => e \notin Announced \cup ParkedEvents
    <3> SUFFICES ASSUME Cardinality(started) = 1, e \in Announced \cup ParkedEvents
                 PROVE FALSE
      BY <1>0 DEF Parallel
    <3>1. row[e].status = held[w].row.status /\ row[e].attempts = held[w].row.attempts
      BY <2>1, <2>2 DEF OutboxInv, OneInstance
    <3> QED
      BY <2>3, <3>1 DEF Announced, ParkedEvents, Parked, Open, Row
  <2>5. Announced \subseteq HandedEvents
    BY DEF OutboxInv, SentIsHanded, Announced, HandedEvents
  <2>6. CASE SaveSent(w)
    <3>1. /\ row' = [row EXCEPT ![e] = SentRow(held[w].row)] /\ InPhase(w, "RETURNED")
      BY <2>2, <2>6 DEF SaveSent, MaySaveSent
    <3>2. SentRow(held[w].row) \in Row /\ SentRow(held[w].row).status = "SENT"
      BY <2>3 DEF SentRow, Row
    <3>3. /\ UNCHANGED <<Published, HandedEvents, HandledEvents, dropped, Parallel>>
          /\ Announced' = Announced \cup {e}
          /\ ParkedEvents' = ParkedEvents \ {e}
      BY <1>0, <2>1, <2>3, <3>1, <3>2, SeenChange
    <3>4. CASE e \in Announced \cup ParkedEvents
      BY <2>3, <2>4, <2>5, <3>1, <3>3, <3>4
         DEF Delivery!Overwrite, Published, HandedEvents, HandledEvents, Announced,
             ParkedEvents, Parallel
    <3>5. CASE e \notin Announced \cup ParkedEvents
      BY <2>3, <3>1, <3>3, <3>5
         DEF Delivery!Announce, Published, HandedEvents, HandledEvents, Announced,
             ParkedEvents, Parallel
    <3> QED
      BY <3>4, <3>5
  <2>7. CASE SaveFailed(w)
    <3> DEFINE r == [status |-> "FAILED", due |-> FALSE,
                     attempts |-> NextAttempts(held[w].row.attempts)]
    <3>1. row' = [row EXCEPT ![e] = r]
      BY <2>2, <2>7 DEF SaveFailed
    <3>2. r \in Row /\ r.status = "FAILED"
      BY <2>3 DEF Row, Open, NextAttempts
    <3> HIDE DEF r
    <3>3. /\ UNCHANGED <<Published, HandedEvents, HandledEvents, dropped, Parallel>>
          /\ Announced' = Announced \ {e}
          /\ ParkedEvents' \in {ParkedEvents \cup {e}, ParkedEvents \ {e}}
      BY <1>0, <2>1, <2>3, <3>1, <3>2, SeenChange
    <3>4. CASE e \in Announced \cup ParkedEvents
      BY <2>4, <2>5, <3>3, <3>4
         DEF Delivery!Overwrite, Published, HandedEvents, HandledEvents, Announced,
             ParkedEvents, Parallel
    <3>5. CASE e \notin Announced \cup ParkedEvents
      BY <2>3, <3>3, <3>5
         DEF Delivery!Park, Seen, Published, HandedEvents, HandledEvents, Announced, ParkedEvents,
             Parallel
    <3> QED
      BY <3>4, <3>5
  <2> QED
    BY <1>6, <2>6, <2>7
<1>7. ASSUME NEW e \in Events, Lose(e) \/ Handle(e) \/ HandleUnacked(e) \/ Reject(e)
      PROVE  Delivery!Arrive(e)
  <2>1. sends[e] > 0
    <3>1. sends[e] - gone[e] > 0 /\ sends[e] \in Nat /\ gone[e] \in Nat
      BY <1>0, <1>7 DEF TypeOK, Lose, Handle, HandleUnacked, Reject, MayDrop, Queued
    <3> QED
      BY <3>1
  <2>2. UNCHANGED <<row, sends, started>>
    BY <1>7 DEF Lose, Handle, HandleUnacked, Reject
  <2>3. CASE Handle(e) \/ HandleUnacked(e)
    <3>1. handled' = [handled EXCEPT ![e] = TRUE] /\ dropped' = dropped
      BY <2>3 DEF Handle, HandleUnacked
    <3>2. HandledEvents' = HandledEvents \cup {e}
      BY <1>0, <3>1 DEF TypeOK, HandledEvents
    <3> QED
      BY <2>1, <2>2, <3>1, <3>2 DEF Delivery!Arrive, Parked, HandledEvents
  <2>4. CASE Lose(e) \/ Reject(e)
    <3>1. dropped' = dropped \cup {e} /\ handled' = handled
      BY <2>4 DEF Lose, Reject
    <3> QED
      BY <2>1, <2>2, <3>1 DEF Delivery!Arrive, Parked
  <2> QED
    BY <1>7, <2>3, <2>4
<1>8. ASSUME NEW w \in Dispatchers,
             Poll(w) \/ Load(w) \/ SendFails(w) \/ SaveSentFails(w) \/ Crash(w)
      PROVE  UNCHANGED Seen
  BY <1>3, <1>8 DEF Poll, Load, SendFails, SaveSentFails, Crash
<1>9. ASSUME UNCHANGED vars PROVE UNCHANGED Seen
  BY <1>3, <1>9 DEF vars
<1>10. Delivery!Next \/ UNCHANGED Seen
  BY <1>1, <1>2, <1>4, <1>5, <1>6, <1>7, <1>8, <1>9, SeenIsDelivery DEF Next, DispatcherStep
<1>11. UNCHANGED Seen => UNCHANGED Delivery!vars
  BY DEF Delivery!vars, Seen, Published, HandedEvents, HandledEvents, Announced,
         ParkedEvents, Parallel
<1> QED
  BY <1>10, <1>11

\* Every step of the outbox is one that EventDelivery allows its publisher to
\* see: no event is announced that was not handed to the broker, none is handled or
\* dropped that was not, and only where several instances run is a settled event
\* taken back.
THEOREM OutboxDelivers == Spec => Delivery!SafeSpec
<1>1. OutboxInv /\ [Next]_vars => [Delivery!Next]_(Delivery!vars)
  BY DeliveryNext
<1> QED
  BY <1>1, DeliveryInit, OutboxInvariance, PTL DEF Spec, Delivery!SafeSpec

=============================================================================
