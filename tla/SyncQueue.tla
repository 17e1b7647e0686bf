----------------------------- MODULE SyncQueue -----------------------------
(***************************************************************************)
(* The local queue of confirmed upload units, data/sync-queue.json.  Each  *)
(* command loads the file, changes a copy, checks the copy against the     *)
(* limits and replaces the file; nothing locks the file in between, so two *)
(* commands may work from the same load.                                   *)
(*                                                                         *)
(* A unit is identified by its object and the hash of its content, which   *)
(* together are its idempotency key.  Devices appear only where a command  *)
(* compares them, and there the model takes the ones that are accepted.    *)
(***************************************************************************)
EXTENDS Naturals, Sequences, FiniteSets

CONSTANTS
  None,
  Opportunities,  \* objects of opportunity.progress.v1
  Traces,         \* objects of trace.decision.v1
  Hashes,         \* content hashes
  Commands,       \* processes that run a command of sync-queue.mjs
  Basis,          \* cloud hash each opportunity unit was based on, by key
  MaxEntries, MaxTombstones, MaxAudit, MaxAttempts

Objects == Opportunities \cup Traces
Keys == Objects \X Hashes

ASSUME LimitsAssumption ==
  /\ MaxEntries \in Nat /\ MaxTombstones \in Nat
  /\ MaxAudit \in Nat /\ MaxAttempts \in Nat

VARIABLES
  queue,   \* the file
  loaded   \* the copy each command works on

vars == <<queue, loaded>>

-----------------------------------------------------------------------------

Status == {"pending", "auth-blocked", "rebind-blocked", "network-failed",
           "conflicted", "tombstoned"}
Mark == {"auth-failed", "device-rebound", "network-failed", "server-conflict",
         "web-deleted"}
Event == Mark \cup {"enqueue", "retry", "reconfirm", "cancel"}

Entry == [status : Status, attempts : Nat, last : Event]

\* entries: the entry of each key, if any; tombstones: keys deleted on the web.
Queue == [entries : [Keys -> Entry \cup {None}], tombstones : SUBSET Keys,
          audit : Seq([event : Event, key : Keys])]

ASSUME NoneAssumption == None \notin Queue /\ None \notin Entry

emptySyncQueue ==
  [entries |-> [k \in Keys |-> None], tombstones |-> {}, audit |-> <<>>]

Present(q) == {k \in Keys : q.entries[k] # None}

Tombstoned(q, object) == \E h \in Hashes : <<object, h>> \in q.tombstones

\* canonicalizeSyncQueue: a copy beyond the limits is not written.
WithinLimits(q) ==
  /\ Cardinality(Present(q)) <= MaxEntries
  /\ Cardinality(q.tombstones) <= MaxTombstones
  /\ Len(q.audit) <= MaxAudit
  /\ \A k \in Present(q) : q.entries[k].attempts <= MaxAttempts

\* The entry of key after event, and the event in the audit.
Recorded(q, key, event, entry) ==
  [entries |-> [q.entries EXCEPT ![key] = entry],
   tombstones |-> q.tombstones,
   audit |-> Append(q.audit, [event |-> event, key |-> key])]

Moved(q, key, event, status) ==
  Recorded(q, key, event,
           [q.entries[key] EXCEPT !.status = status, !.last = event])

Init ==
  /\ queue = emptySyncQueue
  /\ loaded = [c \in Commands |-> None]

Load(c) ==
  /\ loaded[c] = None
  /\ loaded' = [loaded EXCEPT ![c] = queue]
  /\ UNCHANGED queue

\* withMutation: the changed copy replaces the file.
Install(c, q) ==
  /\ WithinLimits(q)
  /\ queue' = q
  /\ loaded' = [loaded EXCEPT ![c] = None]

\* Plausible bug: tombstones are compared with the entry of the same key only.
EntryBlock(q, key) == key \in q.tombstones /\ q.entries[key] # None

\* The content was deleted on the web; for a trace, any content of it.
tombstoneBlock(q, key) ==
  \/ key \in q.tombstones
  \/ key[1] \in Traces /\ Tombstoned(q, key[1])

NoEntryOfObject(q, key) == \A h \in Hashes : q.entries[<<key[1], h>>] = None

enqueue(c, key) ==
  LET q == loaded[c]
  IN  /\ ~tombstoneBlock(q, key)
      /\ NoEntryOfObject(q, key)
      /\ Install(c, Recorded(q, key, "enqueue",
           [status |-> "pending", attempts |-> 0, last |-> "enqueue"]))

\* The statuses retry accepts, and the tombstone of the object, which the
\* classifier refuses to read: it has fields beyond the identity.
requireStatusForRetry(q, key) == q.entries[key].status \in {"network-failed", "auth-blocked"}

RetryAccepted(q, key) ==
  requireStatusForRetry(q, key) /\ ~Tombstoned(q, key[1])

retry(c, key) ==
  LET q == loaded[c]
  IN  /\ RetryAccepted(q, key)
      /\ Install(c, Recorded(q, key, "retry",
           [status |-> "pending", attempts |-> q.entries[key].attempts + 1,
            last |-> "retry"]))

Cancelled(q, key) == Recorded(q, key, "cancel", None)

cancel(c, key) == Install(c, Cancelled(loaded[c], key))

\* The statuses from which each event is accepted.
MarkFrom ==
  [event \in Mark |->
    CASE event = "device-rebound" -> {"pending", "network-failed", "auth-blocked"}
      [] event = "web-deleted" ->
           {"pending", "network-failed", "auth-blocked", "conflicted"}
      [] OTHER -> {"pending", "network-failed"}]

\* Plausible bug: the event is written for the status.
MarkToEvent == [event \in Mark |-> event]

MarkTo ==
  [event \in Mark |->
    CASE event = "device-rebound" -> "rebind-blocked"
      [] event = "web-deleted" -> "tombstoned"
      [] event = "auth-failed" -> "auth-blocked"
      [] event = "server-conflict" -> "conflicted"
      [] OTHER -> "network-failed"]

\* What the cloud holds contradicts the unit: not the same content and, for an
\* opportunity, not the one it was based on.
Conflicts(key, hash) ==
  hash # key[2] /\ (key[1] \in Opportunities => hash # Basis[key])

\* The cloud hash an event has to come with.
Evidence(key, event) ==
  CASE event = "server-conflict" -> {h \in Hashes : Conflicts(key, h)}
    [] event = "web-deleted" -> {key[2]}
    [] OTHER -> {None}

\* Plausible bug: the new tombstone replaces the others.
OnlyTombstone(q, key, event) ==
  IF event = "web-deleted" THEN {key} ELSE q.tombstones

TombstonesAfter(q, key, event) ==
  IF event = "web-deleted" THEN q.tombstones \cup {key} ELSE q.tombstones

mark(c, key, event) ==
  LET q == loaded[c]
  IN  /\ Evidence(key, event) # {}
      /\ q.entries[key].status \in MarkFrom[event]
      /\ Install(c, [Moved(q, key, event, MarkTo[event])
                      EXCEPT !.tombstones = TombstonesAfter(q, key, event)])

reconfirm(c, key) ==
  /\ loaded[c].entries[key].status = "rebind-blocked"
  /\ Install(c, Moved(loaded[c], key, "reconfirm", "pending"))

\* A dry run, a duplicate, and a command that is refused leave the file alone.
Refuse(c) ==
  /\ loaded[c] # None
  /\ loaded' = [loaded EXCEPT ![c] = None]
  /\ UNCHANGED queue

Mutate(c) ==
  /\ loaded[c] # None
  /\ \E key \in Keys :
       \/ enqueue(c, key)
       \/ /\ loaded[c].entries[key] # None
          /\ \/ retry(c, key) \/ cancel(c, key) \/ reconfirm(c, key)
             \/ \E event \in Mark : mark(c, key, event)

Next == \E c \in Commands : Load(c) \/ Mutate(c) \/ Refuse(c)

Spec == Init /\ [][Next]_vars

-----------------------------------------------------------------------------

\* Every variable has its type, and the file respects the limits.
TypeOK ==
  /\ queue \in Queue /\ WithinLimits(queue)
  /\ loaded \in [Commands -> Queue \cup {None}]

\* An object has at most one current entry.
OneEntryPerObject(q) ==
  \A k, l \in Present(q) : k[1] = l[1] => k = l

\* An entry whose content was deleted on the web is not on its way there, and
\* neither is any entry of a deleted trace.
TombstonesBlock(q) ==
  /\ \A k \in Present(q) :
       k \in q.tombstones => q.entries[k].status = "tombstoned"
  /\ \A k \in Present(q) :
       q.entries[k].status = "tombstoned" => k \in q.tombstones
  /\ \A k \in Present(q) :
       k[1] \in Traces /\ Tombstoned(q, k[1]) => k \in q.tombstones

\* Event i of the audit is the last one of key k.
Latest(q, k, i) ==
  /\ q.audit[i].key = k
  /\ \A j \in 1..Len(q.audit) : q.audit[j].key = k => j <= i

\* The last audited event of a key tells whether it has an entry, and which
\* event that entry recorded last; an entry has such an event.
AuditTellsEntries(q) ==
  /\ \A k \in Keys, i \in 1..Len(q.audit) :
       Latest(q, k, i) =>
         IF q.audit[i].event = "cancel" THEN q.entries[k] = None
         ELSE q.entries[k] # None /\ q.entries[k].last = q.audit[i].event
  /\ \A k \in Present(q) : \E i \in 1..Len(q.audit) : q.audit[i].key = k

\* Whatever commands overwrite each other's result, the file stays one that
\* could come from a single command after the other.
Consistent ==
  /\ OneEntryPerObject(queue)
  /\ TombstonesBlock(queue)
  /\ AuditTellsEntries(queue)

\* SYNC_UNIT_CONTRACT.md: retry is allowed from auth-blocked or network-failed.
RetryIsAllowed ==
  \A k \in Present(queue) :
    requireStatusForRetry(queue, k) => RetryAccepted(queue, k)

\* A tombstone of the file is for good, but for a command that had loaded the
\* file before the tombstone was put: it writes back what it loaded.
TombstonesAreKept ==
  [][\A k \in queue.tombstones \ queue'.tombstones :
       \E c \in Commands : loaded[c] # loaded'[c] /\ k \notin loaded[c].tombstones]_vars
=============================================================================
