-------------------------- MODULE CompanyOpportunity --------------------------
(***************************************************************************)
(* company-opportunity.mjs: an opportunity is a package file and a row of  *)
(* the tracker.  An import writes both, a node mutation and an artifact    *)
(* mount write the package and a record of the plan.  All three work under *)
(* the lock of the tracker (PipelineLock), so they are atomic here but for *)
(* a process that dies between its two writes.  An import reads its        *)
(* contract and the job analysis before it waits for the lock.  The user   *)
(* edits the tracker and removes files by hand.                            *)
(***************************************************************************)
EXTENDS Naturals, FiniteSets, FiniteSetsExt

CONSTANTS
  Unset,             \* no file, no row, no record
  Openings,     \* ids
  NaturalKeys,       \* company, role, location and batch
  NodeLists,         \* ordered lists of process nodes
  NodesOf,           \* the ids of the nodes of each list
  Mutations, Mounts, \* ids of plans
  NodeOf,            \* the node each mount is for
  Initial, Statuses, \* tracker states
  MaxCommands, MaxAnalyses, MaxHands, MaxDeaths  \* bounds

VARIABLES
  analysis,  \* version of the installed job analysis
  opportunity, \* of each id the installed package, or Unset
  tracker,   \* the rows, or Unset when there is no file
  drafts,    \* plans the user has confirmed
  mutated,   \* of each mutation the recorded plan, or Unset
  mounted,   \* of each mount, the same
  chosen,    \* history: the status the user last gave the row of an id, or its package kept
  dropped,   \* history: mounts whose node was taken out
  commands, hands, deaths

companyVars == <<analysis, opportunity, tracker, drafts, mutated, mounted,
                 chosen, dropped, commands, hands, deaths>>

files == <<opportunity, tracker, mutated, mounted>>

CompanyInit ==
  /\ analysis = 1
  /\ opportunity = [o \in Openings |-> Unset]
  /\ tracker = Unset
  /\ drafts = {}
  /\ mutated = [m \in Mutations |-> Unset]
  /\ mounted = [m \in Mounts |-> Unset]
  /\ chosen = [o \in Openings |-> Initial]
  /\ dropped = {}
  /\ commands = 0 /\ hands = 0 /\ deaths = 0

Installed == {o \in Openings : opportunity[o] # Unset}

\* A package is read with the job analysis it names; another one is an error.
ReadsAnalysis(o) == opportunity[o].analysis = analysis

\* The content hash leaves the tracker status out.
ContentHash(package) ==
  <<package.key, package.analysis, package.nodes, package.artifacts>>

\* A bug: a new list of nodes comes without artifacts.
NoArtifacts(nodes, o) == {}

\* Artifacts stay with the node they are mounted on.
MergedArtifacts(nodes, o) ==
  IF opportunity[o] = Unset THEN {}
  ELSE {m \in opportunity[o].artifacts : NodeOf[m] \in NodesOf[nodes]}

Rows == IF tracker = Unset THEN {} ELSE tracker

LinkedRows(o, key) == {r \in Rows : r.marker = o /\ r.key = key}

\* Rows that have the marker or the identity, and not both.
ConflictingRows(o, key) == {r \in Rows : (r.marker = o) # (r.key = key)}

NextNumber == Max({0} \cup {r.num : r \in Rows}) + 1

\* A bug: the status of the contract is written into the row.
ResetRow(o, key, existing, status) ==
  [num |-> IF existing = {} THEN NextNumber ELSE (CHOOSE r \in existing : TRUE).num,
   marker |-> o, key |-> key, status |-> Initial]

\* The row keeps what the user wrote, else it takes the given status.
TrackerRow(o, key, existing, status) ==
  [num |-> IF existing = {} THEN NextNumber ELSE (CHOOSE r \in existing : TRUE).num,
   marker |-> o, key |-> key,
   status |-> IF existing = {} THEN status ELSE (CHOOSE r \in existing : TRUE).status]

\* The identity is neither that of another opportunity, nor has this one changed it.
IdentityIsFree(o, key) ==
  \A other \in Installed : (opportunity[other].key = key) <=> (other = o)

TrackerStatus(o, rows) ==
  IF rows # {} THEN (CHOOSE r \in rows : TRUE).status
  ELSE IF opportunity[o] # Unset THEN opportunity[o].status ELSE Initial

Command == commands < MaxCommands /\ commands' = commands + 1

Dies == deaths < MaxDeaths /\ deaths' = deaths + 1

Dropped(o, nodes) ==
  IF opportunity[o] = Unset THEN dropped
  ELSE dropped \cup {m \in opportunity[o].artifacts : NodeOf[m] \notin nodes}

\* The analysis the contract was checked with may have been replaced while the
\* import waited for the lock.
Import(o, key, nodes, read, replace) ==
  LET rows == LinkedRows(o, key)
      status == TrackerStatus(o, rows)
      desired == [key |-> key, analysis |-> read, nodes |-> nodes, status |-> status,
                  artifacts |-> MergedArtifacts(nodes, o)]
      change == opportunity[o] = Unset \/ ContentHash(opportunity[o]) # ContentHash(desired)
      row == TrackerRow(o, key, rows, status)
  IN  /\ Command
      /\ \A other \in Installed : ReadsAnalysis(other)
      /\ IdentityIsFree(o, key)
      /\ ConflictingRows(o, key) = {} /\ Cardinality(rows) <= 1
      /\ rows # {} => opportunity[o] # Unset
      /\ change /\ opportunity[o] # Unset => replace
      /\ opportunity' = [opportunity EXCEPT ![o] = desired]
      /\ chosen' = [chosen EXCEPT ![o] = IF opportunity[o] = Unset THEN Initial ELSE @]
      /\ dropped' = Dropped(o, NodesOf[desired.nodes])
      /\ \/ /\ tracker' = IF ~change /\ rows # {} THEN tracker ELSE (Rows \ rows) \cup {row}
            /\ UNCHANGED deaths
         \/ Dies /\ UNCHANGED tracker
      /\ UNCHANGED <<analysis, drafts, mutated, mounted, hands>>

\* The browser page (LocalOpportunityBridge.vue) reads the package file, edits a
\* copy of its nodes and offers a plan only of a list that differs.
LocalOpportunity(o) == opportunity[o]

NodesDiffer(o, nodes) == nodes # LocalOpportunity(o).nodes

\* The plan is bound to the content the page read, by the hash of the tool.
NodePlan(o, m, nodes) ==
  [plan |-> m, id |-> o, nodes |-> nodes, expected |-> ContentHash(LocalOpportunity(o))]

\* The user confirms a plan and downloads it.
DraftMutation(o, m, nodes) ==
  /\ o \in Installed
  /\ NodesDiffer(o, nodes)
  /\ \A d \in drafts : d.plan # m
  /\ drafts' = drafts \cup {NodePlan(o, m, nodes)}
  /\ UNCHANGED <<analysis, files, chosen, dropped, commands, hands, deaths>>

DraftMount(o, m) ==
  /\ o \in Installed
  /\ NodeOf[m] \in NodesOf[opportunity[o].nodes]
  /\ \A d \in drafts : d.plan # m
  /\ drafts' = drafts \cup {[plan |-> m, id |-> o, nodes |-> Unset,
                             expected |-> ContentHash(opportunity[o])]}
  /\ UNCHANGED <<analysis, files, chosen, dropped, commands, hands, deaths>>

\* What the record is compared by: the plan, and with it the artifacts that are
\* mounted at the moment it is read.
PlanHash(d) == <<d, MergedArtifacts(d.nodes, d.id)>>

\* The plan names nodes, and no artifacts: these are the tool's.
IsMutation(d) == d.plan \in Mutations /\ d.nodes # Unset

\* A recorded plan writes nothing: it is unchanged, superseded or a conflict.
\* One that finds its result installed completes the record of a dead process.
MutateNodes(d) ==
  LET o == d.id
      desired == [opportunity[o] EXCEPT !.nodes = d.nodes,
                                        !.artifacts = MergedArtifacts(d.nodes, o)]
  IN  /\ Command
      /\ IsMutation(d)
      /\ o \in Installed /\ ReadsAnalysis(o)
      /\ mutated[d.plan] = Unset
      /\ desired = opportunity[o] \/ ContentHash(opportunity[o]) = d.expected
      /\ opportunity' = [opportunity EXCEPT ![o] = desired]
      /\ dropped' = Dropped(o, NodesOf[desired.nodes])
      /\ \/ mutated' = [mutated EXCEPT ![d.plan] = PlanHash(d)] /\ UNCHANGED deaths
         \/ Dies /\ UNCHANGED mutated
      /\ UNCHANGED <<analysis, tracker, drafts, mounted, chosen, hands>>

Mount(d) ==
  LET o == d.id
      desired == [opportunity[o] EXCEPT !.artifacts = @ \cup {d.plan}]
  IN  /\ Command
      /\ d.plan \in Mounts
      /\ o \in Installed /\ ReadsAnalysis(o)
      /\ NodeOf[d.plan] \in NodesOf[opportunity[o].nodes]
      /\ mounted[d.plan] = Unset
      /\ desired = opportunity[o] \/ ContentHash(opportunity[o]) = d.expected
      /\ opportunity' = [opportunity EXCEPT ![o] = desired]
      /\ \/ mounted' = [mounted EXCEPT ![d.plan] = <<d>>] /\ UNCHANGED deaths
         \/ Dies /\ UNCHANGED mounted
      /\ UNCHANGED <<analysis, tracker, drafts, mutated, chosen, dropped, hands>>

ReplaceAnalysis ==
  /\ analysis < MaxAnalyses
  /\ analysis' = analysis + 1
  /\ UNCHANGED <<files, drafts, chosen, dropped, commands, hands, deaths>>

\* set-status.mjs, or an editor.
SetStatus(r, status) ==
  /\ commands < MaxCommands
  /\ status # r.status
  /\ tracker' = (tracker \ {r}) \cup {[r EXCEPT !.status = status]}
  /\ chosen' = [o \in Openings |-> IF o = r.marker THEN status ELSE chosen[o]]
  /\ UNCHANGED <<analysis, opportunity, drafts, mutated, mounted, dropped, commands, hands, deaths>>

ByHand == hands < MaxHands /\ hands' = hands + 1

\* The status of a row that is gone lives on in the package, as an import took it over.
RemoveRow(r) ==
  /\ ByHand
  /\ tracker' = tracker \ {r}
  /\ chosen' = [o \in Openings |->
       IF o = r.marker /\ o \in Installed THEN opportunity[o].status ELSE chosen[o]]
  /\ UNCHANGED <<analysis, opportunity, drafts, mutated, mounted, dropped, commands, deaths>>

AddRow(key) ==
  /\ ByHand
  /\ tracker' = Rows \cup {[num |-> NextNumber, marker |-> Unset, key |-> key, status |-> Initial]}
  /\ UNCHANGED <<analysis, opportunity, drafts, mutated, mounted, chosen, dropped, commands, deaths>>

RemovePackage(o) ==
  /\ ByHand
  /\ o \in Installed
  /\ opportunity' = [opportunity EXCEPT ![o] = Unset]
  /\ dropped' = Dropped(o, {})
  /\ UNCHANGED <<analysis, tracker, drafts, mutated, mounted, chosen, commands, deaths>>

CompanyNext ==
  \/ \E o \in Openings :
       \/ \E key \in NaturalKeys, nodes \in NodeLists, read \in 1 .. analysis, replace \in BOOLEAN :
            Import(o, key, nodes, read, replace)
       \/ \E m \in Mutations, nodes \in NodeLists : DraftMutation(o, m, nodes)
       \/ \E m \in Mounts : DraftMount(o, m)
       \/ RemovePackage(o)
  \/ \E d \in drafts : MutateNodes(d) \/ Mount(d)
  \/ \E r \in Rows : RemoveRow(r) \/ \E status \in Statuses : SetStatus(r, status)
  \/ \E key \in NaturalKeys : AddRow(key)
  \/ ReplaceAnalysis

CompanySpec == CompanyInit /\ [][CompanyNext]_companyVars
-----------------------------------------------------------------------------
CompanyTypeOK ==
  /\ analysis \in 1 .. MaxAnalyses
  /\ \A o \in Installed :
       /\ opportunity[o].key \in NaturalKeys /\ opportunity[o].nodes \in NodeLists
       /\ opportunity[o].artifacts \subseteq Mounts /\ opportunity[o].status \in Statuses
  /\ \A r \in Rows : r.marker \in Openings \cup {Unset} /\ r.status \in Statuses
  /\ chosen \in [Openings -> Statuses]
  /\ dropped \subseteq Mounts

\* Package and row tell of the same opportunity, whatever was imported, repaired
\* or edited, and whoever died: one row at most has an id, and its status is the
\* user's; in a row that was lost and written again it is the last one an import
\* had taken over into the package, for what the user chose since went with the
\* row.  Unless files were changed by hand, a row has its package; unless an
\* import died, a package has its row.
RowsFollowPackages ==
  /\ \A o, other \in Installed : o # other => opportunity[o].key # opportunity[other].key
  /\ \A r, s \in Rows : r.marker # Unset /\ r.marker = s.marker => r = s
  /\ \A r \in Rows : r.marker # Unset => r.status = chosen[r.marker]
  /\ hands = 0 =>
       \A r \in Rows : r.marker \in Installed /\ opportunity[r.marker].key = r.key
  /\ hands = 0 /\ deaths = 0 => \A o \in Installed : LinkedRows(o, opportunity[o].key) # {}

\* An artifact whose mount was recorded stays in the package through imports and
\* node mutations as long as its node does.  One that is in the package is
\* recorded, unless its mount died.
MountsAreKept ==
  /\ \A d \in drafts :
       d.plan \in Mounts /\ mounted[d.plan] # Unset /\ d.plan \notin dropped =>
         d.plan \in opportunity[d.id].artifacts
  /\ deaths = 0 => \A o \in Installed : \A m \in opportunity[o].artifacts : mounted[m] # Unset

\* Package and row tell of the same, and mounted artifacts stay in the package.
OpportunitiesAreKept == RowsFollowPackages /\ MountsAreKept
=============================================================================
