------------------------------ MODULE SyncUnit ------------------------------
(***************************************************************************)
(* The units of sync-unit.mjs on their way from two devices to the cloud:  *)
(* a snapshot of an opportunity, which later ones replace, and the record  *)
(* of one decision, a trace, which nothing replaces.  A unit is built when *)
(* the user confirms what a preview shows, checked again wherever it is    *)
(* read, and classified against what the cloud shows.  The cloud is not    *)
(* built yet: it keeps here what the classifications tell it to.  Between  *)
(* them units are delayed, repeated and reordered.                         *)
(***************************************************************************)
EXTENDS Naturals, FiniteSets

CONSTANTS
  Nothing,         \* no summary
  Forged,
  Devices, Naming, \* devices, and those whose confirmation names the content
  Summaries,     \* contents of the opportunity: each has a stateUpdatedAt of its own
  Decisions,     \* contents a trace could have
  MaxUnits,      \* bounds on the units that are sent
  MaxDeletions   \* and the deletions on the web

ASSUME SummariesAssumption == Summaries # {} /\ Nothing \notin Summaries

VARIABLES
  facts,      \* Devices -> the summary of the opportunity on the device
  preview,    \* Devices -> the summary the user was shown, if any
  known,      \* Devices -> what the device last saw the cloud show
  damaged,    \* a unit in a file was changed by hand
  sent,       \* units that have been sent, and may arrive at any time again
  cloud,      \* the summary shown
  records,    \* Devices -> the trace record kept, if any
  tombstones, \* summaries deleted on the web
  became      \* history: summaries accepted since the last deletion on the web,
              \* with the one each was based on

unitVars == <<facts, preview, known, damaged, sent, cloud, records, tombstones, became>>

\* A hash stands for its content; an identity binds a trace to its device, and
\* there is one opportunity.
canonicalHash(content) == content

ObjectIdentity(type, device) == IF type = "trace" THEN <<type, device>> ELSE <<type>>

IdempotencyKey(type, identity, hash) == <<type, identity, hash>>

\* The unit that is built of a summary; seen is history, the content the user
\* confirmed, Nothing if the confirmation named none.
Unit(type, device, summary, basis, seen) ==
  [unitType |-> type, sourceDevice |-> device, summary |-> summary,
   identity |-> ObjectIdentity(type, device), contentHash |-> canonicalHash(summary),
   key |-> IdempotencyKey(type, ObjectIdentity(type, device), canonicalHash(summary)),
   confirmed |-> canonicalHash(summary), basis |-> basis, seen |-> seen]

\* validateEnvelope: key and confirmation fit identity and hash.
ValidEnvelope(u) ==
  /\ u.key = IdempotencyKey(u.unitType, u.identity, u.contentHash)
  /\ u.confirmed = u.contentHash
  /\ u.unitType = "trace" => u.basis = Nothing

\* Mutant of ValidUnit: the hash is not computed anew.
ValidIdentity(u) ==
  /\ ValidEnvelope(u)
  /\ u.identity = ObjectIdentity(u.unitType, u.sourceDevice)

\* validateSyncUnit: and these fit the summary.
ValidUnit(u) ==
  /\ ValidEnvelope(u)
  /\ u.identity = ObjectIdentity(u.unitType, u.sourceDevice)
  /\ u.contentHash = canonicalHash(u.summary)

\* Mutant of ClassifyOpportunity: any basis will do.
AnyBasis(u) ==
  IF cloud = Nothing THEN IF u.basis = Nothing THEN "first" ELSE "invalid-basis"
  ELSE IF cloud = u.contentHash THEN "idempotent"
  ELSE IF u.basis # Nothing THEN "accepted"
  ELSE "conflict"

\* classifyOpportunityProgressSubmission.
ClassifyOpportunity(u) ==
  IF cloud = Nothing THEN IF u.basis = Nothing THEN "first" ELSE "invalid-basis"
  ELSE IF cloud = u.contentHash THEN "idempotent"
  ELSE IF u.basis = cloud THEN "accepted"
  ELSE "conflict"

\* classifyTraceDecisionSubmission, against the record of the same trace.
ClassifyTrace(u) ==
  LET existing == records[u.sourceDevice]
  IN  IF existing = Nothing THEN "first"
      ELSE IF existing = u.contentHash THEN "idempotent" ELSE "identity-conflict"

\* classifyDeletedSubmission: only the content that was deleted stays away.
ClassifyDeleted(u) == IF u.contentHash \in tombstones THEN "tombstoned" ELSE "new-submission"

-----------------------------------------------------------------------------

UnitInit ==
  /\ facts = [d \in Devices |-> CHOOSE s \in Summaries : TRUE]
  /\ preview = [d \in Devices |-> Nothing]
  /\ known = [d \in Devices |-> Nothing]
  /\ damaged = FALSE
  /\ sent = {}
  /\ cloud = Nothing
  /\ records = [d \in Devices |-> Nothing]
  /\ tombstones = {}
  /\ became = {}

\* The opportunity moves on; a new state has a time of its own.
EditFacts(d) ==
  /\ \E s \in Summaries \ ({facts[e] : e \in Devices} \cup {u.contentHash : u \in sent}) :
       facts' = [facts EXCEPT ![d] = s]
  /\ UNCHANGED <<preview, known, damaged, sent, cloud, records, tombstones, became>>

\* The user is shown the summary and, to choose a basis, what the cloud shows.
Preview(d) ==
  /\ \A u \in sent : u.unitType = "opportunity"
  /\ preview' = [preview EXCEPT ![d] = facts[d]]
  /\ known' = [known EXCEPT ![d] = cloud]
  /\ UNCHANGED <<facts, damaged, sent, cloud, records, tombstones, became>>

\* buildOpportunityProgressUnit: the confirmation names the content that was
\* shown, or none; the basis is what the device saw the cloud show.
BuildOpportunity(d) ==
  /\ Cardinality(sent) < MaxUnits
  /\ preview[d] # Nothing
  /\ d \in Naming => preview[d] = canonicalHash(facts[d])
  /\ sent' = sent \cup {Unit("opportunity", d, facts[d], known[d],
                             IF d \in Naming THEN preview[d] ELSE Nothing)}
  /\ preview' = [preview EXCEPT ![d] = Nothing]
  /\ UNCHANGED <<facts, known, damaged, cloud, records, tombstones, became>>

\* buildTraceDecisionUnit for the one trace of the device.  Traces and snapshots
\* do not meet anywhere: a behaviour has units of one kind.
BuildTrace(d, decision) ==
  /\ preview = [e \in Devices |-> Nothing]
  /\ \A u \in sent : u.unitType = "trace"
  /\ Cardinality(sent) < MaxUnits
  /\ sent' = sent \cup {Unit("trace", d, decision, Nothing, decision)}
  /\ UNCHANGED <<facts, preview, known, damaged, cloud, records, tombstones, became>>

\* The summary of a unit is changed in its file, to one that never was.
Damage(u) ==
  /\ ~damaged
  /\ u.unitType = "opportunity"
  /\ damaged' = TRUE
  /\ sent' = (sent \ {u}) \cup {[u EXCEPT !.summary = Forged]}
  /\ UNCHANGED <<facts, preview, known, cloud, records, tombstones, became>>

ArriveOpportunity(u) ==
  /\ u.unitType = "opportunity"
  /\ ValidUnit(u)
  /\ ClassifyDeleted(u) = "new-submission"
  /\ ClassifyOpportunity(u) \in {"first", "accepted"}
  /\ cloud' = u.summary
  /\ became' = became \cup {<<u.basis, u.summary>>}
  /\ UNCHANGED <<facts, preview, known, damaged, sent, records, tombstones>>

ArriveTrace(u) ==
  /\ u.unitType = "trace"
  /\ ValidUnit(u)
  /\ ClassifyTrace(u) = "first"
  /\ records' = [records EXCEPT ![u.sourceDevice] = u.summary]
  /\ UNCHANGED <<facts, preview, known, damaged, sent, cloud, tombstones, became>>

DeleteOnWeb ==
  /\ cloud # Nothing
  /\ Cardinality(tombstones) < MaxDeletions
  /\ tombstones' = tombstones \cup {cloud}
  /\ cloud' = Nothing
  /\ became' = {}
  /\ UNCHANGED <<facts, preview, known, damaged, sent, records>>

UnitNext ==
  \/ \E d \in Devices :
       \/ EditFacts(d) \/ Preview(d) \/ BuildOpportunity(d)
       \/ \E decision \in Decisions : BuildTrace(d, decision)
  \/ \E u \in sent : ArriveOpportunity(u) \/ ArriveTrace(u) \/ Damage(u)
  \/ DeleteOnWeb

UnitSpec == UnitInit /\ [][UnitNext]_unitVars

-----------------------------------------------------------------------------

UnitTypeOK ==
  /\ facts \in [Devices -> Summaries]
  /\ preview \in [Devices -> Summaries \cup {Nothing}]
  /\ known \in [Devices -> Summaries \cup {Nothing}]
  /\ damaged \in BOOLEAN
  /\ cloud \in Summaries \cup {Nothing}
  /\ records \in [Devices -> Decisions \cup {Nothing}]
  /\ tombstones \subseteq Summaries
  /\ became \subseteq (Summaries \cup {Nothing}) \X Summaries

\* Nobody has confirmed one content upon two others.  A user who compares and
\* chooses the content of before again does: it is current a second time, and
\* what was built upon it the first time is then accepted.
OnOneBasis ==
  \A u, v \in sent :
    u.unitType = "opportunity" /\ u.contentHash = v.contentHash => u.basis = v.basis

\* However units of the devices are delayed and repeated, no accepted snapshot is
\* built upon twice between two deletions, so none is lost to one that did not
\* know of it, unless a content was chosen again; and what was deleted on the web
\* is not shown again.
SnapshotsFormAChain ==
  /\ OnOneBasis => \A a, b \in became : a[1] = b[1] /\ a[1] # Nothing => a = b
  /\ cloud \notin tombstones

\* What the cloud shows is what the user was shown when they confirmed it by
\* its hash, whatever became of facts and files between preview and arrival.
ShownWasConfirmed ==
  \A u \in sent :
    u.unitType = "opportunity" /\ u.seen # Nothing /\ cloud = u.summary /\ ValidUnit(u) => u.seen = cloud

\* No snapshot is lost to one that did not know of it, and what the cloud shows
\* was confirmed.
CloudIsTrue == SnapshotsFormAChain /\ ShownWasConfirmed
=============================================================================
