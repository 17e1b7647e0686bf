------------------------------- MODULE Bookings -------------------------------
(***************************************************************************)
(* A student's booking of one event, one challenge of his own, the         *)
(* schedule and the achievement records that follow from them:             *)
(* ReservationService, ChallengeService, ScheduleService and               *)
(* AchievementService, with the QR codes kept in Redis.                    *)
(*                                                                         *)
(* A request is a transaction: what it reads is the snapshot it began      *)
(* with, what it changes in Redis happens before it commits and is not     *)
(* rolled back, and what it commits are whole rows.  A row whose fields    *)
(* are as they were read is not written.                                   *)
(***************************************************************************)
EXTENDS Naturals, Sequences, FiniteSets, SequencesExt

CONSTANTS
  None,
  Callers,  \* requests that can be open at once
  Notes,    \* what the student writes about an achievement
  MaxBegun, MaxItems, MaxRecords, MaxTickets \* bounds

VARIABLES
  booking,    \* the row of reservations for the event
  challenge,  \* the row of challenges
  items,      \* schedule_items
  records,    \* achievement_records
  codes,      \* QR codes in Redis that lead to the booking
  lastCode,
  requests,   \* the open requests
  begun,      \* requests begun so far
  disturbed   \* sources on which requests overlapped, or one was rolled back

bookingVars == <<booking, challenge, items, records, codes, lastCode, requests, begun, disturbed>>

BookingRow == [status : {"RESERVED", "CANCELLED", "COMPLETED"}, content : 1..MaxTickets]

ChallengeRow == [status : {"ACTIVE", "CANCELLED", "COMPLETED"}, content : Notes \cup {None}]

Source == {"booking", "challenge", "plan"}

ItemRow == [of : Source, status : {"ACTIVE", "CANCELLED"}, edited : BOOLEAN]

Record == [of : {"booking", "challenge"}, note : Notes \cup {None}]

Operation ==
  {"reserve", "cancel", "scan", "challenge", "complete", "giveUp", "item", "plan", "edit",
   "drop", "reflect"}

\* The number is that of a code, of an entry or of a record, 0 for none.
Request ==
  [op : Operation, of : Source, number : Nat, note : Notes \cup {None}, cached : BOOLEAN,
   booking : BookingRow \cup {None}, challenge : ChallengeRow \cup {None},
   items : Seq(ItemRow), records : Seq(Record)]

Row(status, content) == [status |-> status, content |-> content]

\* An entry of the schedule; edited says that its fields are the student's.
Item(of) == [of |-> of, status |-> "ACTIVE", edited |-> FALSE]

BookingsInit ==
  /\ booking = None /\ challenge = None
  /\ items = << >> /\ records = << >>
  /\ codes = {} /\ lastCode = 0
  /\ requests = [c \in Callers |-> None]
  /\ begun = 0 /\ disturbed = {}

Of(rows, source) == {i \in DOMAIN rows : rows[i].of = source}

\* A look-up of the row of a source throws when there are two.
AtMostOne(rows, source) == Cardinality(Of(rows, source)) <= 1

\* A code leads to the booking through Redis, or through its row.
Resolves(code) == code \in codes \/ (booking # None /\ booking.content = code)
-----------------------------------------------------------------------------
\* Requests begin: they read and check.  One that is refused changes nothing.

\* What a request works on: op with a number and a note, and the snapshot.
Begin(c, source, op, number, note) ==
  /\ requests[c] = None /\ begun < MaxBegun
  /\ op \in {"reserve", "plan"} => AtMostOne(items, source)
  /\ op \in {"scan", "complete"} => AtMostOne(records, source)
  /\ requests' = [requests EXCEPT ![c] =
       [op |-> op, of |-> source, number |-> number, note |-> note, cached |-> FALSE,
        booking |-> booking, challenge |-> challenge, items |-> items, records |-> records]]
  /\ begun' = begun + 1
  /\ disturbed' = IF \E d \in Callers : requests[d] # None /\ requests[d].of = source
                  THEN disturbed \cup {source} ELSE disturbed
  /\ UNCHANGED <<booking, challenge, items, records, codes>>

\* What was cancelled can be booked again, with a new code; what is booked
\* keeps its code.
BeginReserve(c) ==
  IF booking # None /\ booking.status = "RESERVED"
  THEN Begin(c, "booking", "reserve", booking.content, None) /\ UNCHANGED lastCode
  ELSE /\ booking # None => booking.status # "COMPLETED"
       /\ lastCode < MaxTickets
       /\ lastCode' = lastCode + 1
       /\ Begin(c, "booking", "reserve", lastCode', None)

BeginCancel(c) ==
  /\ booking # None /\ booking.status = "RESERVED"
  /\ Begin(c, "booking", "cancel", 0, None) /\ UNCHANGED lastCode

BeginScan(c, code) ==
  /\ booking # None /\ booking.status = "RESERVED" /\ Resolves(code)
  /\ Begin(c, "booking", "scan", 0, None) /\ UNCHANGED lastCode

BeginCreateChallenge(c) ==
  /\ challenge = None /\ \A d \in Callers : requests[d] # None => requests[d].op # "challenge"
  /\ Begin(c, "challenge", "challenge", 0, None) /\ UNCHANGED lastCode

\* A completed challenge can be completed again, with other words.
BeginComplete(c, note) ==
  /\ challenge # None /\ challenge.status # "CANCELLED"
  /\ Begin(c, "challenge", "complete", 0, note) /\ UNCHANGED lastCode

BeginGiveUp(c) ==
  /\ challenge # None /\ challenge.status # "COMPLETED"
  /\ Begin(c, "challenge", "giveUp", 0, None) /\ UNCHANGED lastCode

\* Entries for a challenge and for the event of a plan are made at will, those
\* for a booking by the booking only.
BeginCreateItem(c, source) ==
  /\ source = "challenge" => challenge # None
  /\ Begin(c, source, "item", 0, None) /\ UNCHANGED lastCode

BeginImportPlan(c) ==
  Begin(c, "plan", "plan", 0, None) /\ UNCHANGED lastCode

BeginEditItem(c, i) ==
  /\ items[i].status = "ACTIVE"
  /\ Begin(c, items[i].of, "edit", i, None) /\ UNCHANGED lastCode

BeginCancelItem(c, i) ==
  Begin(c, items[i].of, "drop", i, None) /\ UNCHANGED lastCode

BeginReflection(c, i, note) ==
  Begin(c, records[i].of, "reflect", i, note) /\ UNCHANGED lastCode
-----------------------------------------------------------------------------
\* Plausible bug: a student may have two bookings of one event.
Unguarded(r) == TRUE

\* There is one booking of a student for an event: the second insert waits for
\* the first to end, and fails when that was committed.
Insertable(r) ==
  r.booking = None => booking = None /\ \A c \in Callers :
    requests[c] # None /\ requests[c].op = "reserve" => ~requests[c].cached

\* What a request changes in Redis, once a new booking is inserted.
Cache(c) ==
  /\ requests[c] # None /\ ~requests[c].cached
  /\ requests[c].op = "reserve" => Insertable(requests[c])
  /\ codes' = CASE requests[c].op = "reserve" -> codes \cup {requests[c].number}
                [] requests[c].op \in {"cancel", "scan"} -> codes \ {requests[c].booking.content}
                [] OTHER -> codes
  /\ requests' = [requests EXCEPT ![c].cached = TRUE]
  /\ UNCHANGED <<booking, challenge, items, records, lastCode, begun, disturbed>>

\* A code is forgotten after its time to live.
Forget(code) ==
  /\ code \in codes /\ codes' = codes \ {code}
  /\ UNCHANGED <<booking, challenge, items, records, lastCode, requests, begun, disturbed>>

\* The rows with those that the request read and changed written over them.
Written(rows, read, changed) ==
  [i \in DOMAIN rows |-> IF i \in DOMAIN read /\ changed[i] # read[i] THEN changed[i] ELSE rows[i]]

WithStatus(read, is, status) ==
  [i \in DOMAIN read |-> IF i \in is THEN [read[i] EXCEPT !.status = status] ELSE read[i]]

\* The entry of a source is active, a new one when the snapshot had none.
Synced(r, source) ==
  LET mine == Of(r.items, source)
  IN  IF mine = {} THEN Append(items, Item(source))
      ELSE Written(items, r.items,
                    [i \in DOMAIN r.items |-> IF i \in mine THEN Item(source) ELSE r.items[i]])

\* Plausible bug: the entries of a cancelled source stay.
StaySource(r, source) == items

CancelSource(r, source) ==
  Written(items, r.items, WithStatus(r.items, Of(r.items, source), "CANCELLED"))

\* A record for a source that has none in the snapshot.
CreateIfAbsent(r, source, note) ==
  IF Of(r.records, source) = {}
  THEN Append(records, [of |-> source, note |-> note]) ELSE records

CreateFromChallenge(r, note) ==
  LET mine == Of(r.records, "challenge")
  IN  IF mine = {} THEN Append(records, [of |-> "challenge", note |-> note])
      ELSE [i \in DOMAIN records |->
              IF i \in mine THEN [records[i] EXCEPT !.note = note] ELSE records[i]]

CommitReserve(r) ==
  /\ booking' = IF r.booking # None /\ r.booking.status = "RESERVED" THEN booking
                ELSE Row("RESERVED", r.number)
  /\ items' = Synced(r, "booking")
  /\ UNCHANGED <<challenge, records>>

CommitCancel(r) ==
  /\ booking' = Row("CANCELLED", r.booking.content)
  /\ items' = CancelSource(r, "booking")
  /\ UNCHANGED <<challenge, records>>

ScanComplete(r) ==
  /\ booking' = Row("COMPLETED", r.booking.content)
  /\ records' = CreateIfAbsent(r, "booking", None)
  /\ UNCHANGED <<challenge, items>>

CommitChallenge(r) ==
  \/ /\ r.op = "challenge" /\ challenge' = Row("ACTIVE", None)
     /\ UNCHANGED <<items, records>>
  \/ /\ r.op = "complete" /\ challenge' = Row("COMPLETED", r.note)
     /\ records' = CreateFromChallenge(r, r.note)
     /\ UNCHANGED items
  \/ /\ r.op = "giveUp" /\ challenge' = IF r.challenge.status = "CANCELLED" THEN challenge
                                           ELSE Row("CANCELLED", r.challenge.content)
     /\ items' = CancelSource(r, "challenge")
     /\ UNCHANGED records

CommitItem(r) ==
  \/ r.op = "item" /\ items' = Append(items, Item(r.of))
  \/ r.op = "plan" /\ items' = Synced(r, "plan")
  \/ r.op = "edit" /\ items' = [items EXCEPT ![r.number] = [r.items[r.number] EXCEPT !.edited = TRUE]]
  \/ /\ r.op = "drop"
     /\ items' = Written(items, r.items, WithStatus(r.items, {r.number}, "CANCELLED"))

Commit(c) ==
  /\ requests[c] # None /\ requests[c].cached
  /\ LET r == requests[c]
     IN  \/ r.op = "reserve" /\ CommitReserve(r)
         \/ r.op = "cancel" /\ CommitCancel(r)
         \/ r.op = "scan" /\ ScanComplete(r)
         \/ CommitChallenge(r) /\ UNCHANGED booking
         \/ CommitItem(r) /\ UNCHANGED <<booking, challenge, records>>
         \/ /\ r.op = "reflect"
            /\ records' = [records EXCEPT ![r.number].note = r.note]
            /\ UNCHANGED <<booking, challenge, items>>
  /\ requests' = [requests EXCEPT ![c] = None]
  /\ Len(items') <= MaxItems /\ Len(records') <= MaxRecords
  /\ UNCHANGED <<codes, lastCode, begun, disturbed>>

\* A transaction is rolled back; the code of a booking that was not inserted
\* leads nowhere.
Fail(c) ==
  /\ requests[c] # None
  /\ disturbed' = disturbed \cup {requests[c].of}
  /\ requests' = [requests EXCEPT ![c] = None]
  /\ codes' = IF requests[c].op = "reserve" /\ requests[c].booking = None
              THEN codes \ {requests[c].number} ELSE codes
  /\ UNCHANGED <<booking, challenge, items, records, lastCode, begun>>

BookingsNext ==
  \/ \E c \in Callers :
       \/ BeginReserve(c) \/ BeginCancel(c)
       \/ \E code \in 1..MaxTickets : BeginScan(c, code)
       \/ BeginCreateChallenge(c) \/ BeginGiveUp(c)
       \/ \E note \in Notes : BeginComplete(c, note)
       \/ \E source \in {"challenge", "plan"} : BeginCreateItem(c, source)
       \/ BeginImportPlan(c)
       \/ \E i \in DOMAIN items : BeginEditItem(c, i) \/ BeginCancelItem(c, i)
       \/ \E i \in DOMAIN records, note \in Notes : BeginReflection(c, i, note)
       \/ Cache(c) \/ Commit(c) \/ Fail(c)
  \/ \E code \in 1..MaxTickets : Forget(code)
-----------------------------------------------------------------------------
\* Every variable has its type.
BookingsTypeOK ==
  /\ booking \in BookingRow \cup {None} /\ (booking # None => booking.content <= lastCode)
  /\ challenge \in ChallengeRow \cup {None}
  /\ items \in Seq(ItemRow) /\ records \in Seq(Record)
  /\ requests \in [Callers -> Request \cup {None}]
  /\ codes \subseteq 1..lastCode /\ lastCode \in 0..MaxTickets /\ disturbed \subseteq Source

Is(row, status) == row # None /\ row.status = status

\* However requests overlap, are rolled back and write over each other: a booking
\* has one entry in the schedule at most (with two, booking it again would fail
\* for ever), and what is completed has its record.  Where requests for one
\* source did not overlap: it has one record at most, and none after it was given
\* up; a cancelled booking is not in the schedule; and the codes that lead to a
\* booking are its own, never one given out for an earlier booking of the event.
BookingsFit ==
  /\ AtMostOne(items, "booking")
  /\ Is(booking, "COMPLETED") => Of(records, "booking") # {}
  /\ Is(challenge, "COMPLETED") => Of(records, "challenge") # {}
  /\ "booking" \notin disturbed =>
       /\ AtMostOne(records, "booking")
       /\ Is(booking, "CANCELLED") =>
            /\ \A i \in Of(items, "booking") : items[i].status = "CANCELLED"
            /\ Of(records, "booking") = {}
       /\ (\A c \in Callers : requests[c] # None => requests[c].of # "booking")
          => codes \subseteq (IF booking = None THEN {} ELSE {booking.content})
  /\ "challenge" \notin disturbed =>
       /\ AtMostOne(records, "challenge")
       /\ Is(challenge, "CANCELLED") => Of(records, "challenge") = {}
=============================================================================
