------------------------------ MODULE MCBackend ------------------------------
(***************************************************************************)
(* Instances of seven services of the backend: device binding, published   *)
(* events with their search index, stored profiles, bookings with what     *)
(* follows from them, growth tags, the coach, and the map of abilities.    *)
(* They share neither rows nor messages, so a behaviour plays one of them, *)
(* the scene, and leaves the variables of the others as they are.          *)
(***************************************************************************)
EXTENDS DeviceBinding, Sequences, TLC

CONSTANTS
  Scenes,                      \* services that are played
  Events, Threads, Gone,       \* EventCatalog
  Users, Requests, MaxChanges, \* ProfileSnapshots
  Callers, Notes, MaxBegun, MaxItems, MaxRecords, MaxTickets, \* Bookings
  Workers, MaxWork, Names, Records, Candidates, \* GrowthTags
  LastDay, MaxTalks, Named, Intervals, \* CoachReviews
  MaxAbilities                 \* AbilityClusters

VARIABLES scene,
  events, overdue, open, analyses, changes, consumer, index, astray,
  sources, profiles, changing, reading, messages, crossed, missed,
  booking, challenge, items, records, codes, lastCode, requests, begun, disturbed,
  tags, evidences, work, worked, overlapped,
  today, talked, lastReply, logs, reviews, talks, talksBegun, asked, overwritten,
  abilities

E == INSTANCE EventCatalog
P == INSTANCE ProfileSnapshots
B == INSTANCE Bookings

\* Experiences that speak of one tag, or of two, and of milestones.
Found(delta, milestone) == [delta |-> delta, milestone |-> milestone]

Experiences ==
  {[java |-> Found(3, FALSE)], [english |-> Found(4, FALSE)],
   [java |-> Found(5, TRUE), english |-> Found(4, FALSE)]}

T == INSTANCE GrowthTags

\* The intervals of the code, the first two of which fit into the days.
ReviewIntervals == <<1, 3, 7, 14, 30>>

C == INSTANCE CoachReviews WITH begun <- talksBegun, crossed <- overwritten

\* Labels without anchor, with one, two and three, of one word or two.
Label(anchors, words) == [anchors |-> anchors, words |-> words]

AbilityLabels ==
  {Label({}, {"u"}), Label({"java"}, {"u"}), Label({"java"}, {"v"}),
   Label({"agent"}, {"u"}), Label({"agent"}, {"u", "v"}),
   Label({"java", "agent"}, {"u"}), Label({"java", "agent"}, {"v", "w"}),
   Label({"agent", "llm"}, {"u"}), Label({"java", "agent", "llm"}, {"u"})}

M == INSTANCE AbilityClusters WITH MergeThreshold <- 6200, Labels <- AbilityLabels

ASSUME BackendBounds ==
  /\ MaxChanges \in Nat
  /\ MaxWork \in Nat /\ IsFiniteSet(Records)
  /\ Candidates \subseteq UNION {[set -> T!Finding] : set \in SUBSET Names}
  /\ MaxTickets \in Nat
  /\ LastDay \in Nat /\ MaxTalks \in Nat /\ MaxAbilities \in Nat
  /\ Named \subseteq C!Days /\ Intervals \in Seq(Nat) /\ Intervals # << >>

\* Transactions, rows and messages at work are something.
ASSUME NoRowAssumption ==
  /\ None \notin E!Transaction /\ None \notin E!Handling
  /\ None \notin T!EvidenceRow /\ None \notin T!TagRow
  /\ None \notin B!BookingRow /\ None \notin B!ChallengeRow /\ None \notin B!Request
  /\ None \notin C!Text /\ None \notin C!Memory /\ None \notin C!Talk
  /\ None \notin P!Row /\ None \notin P!Change /\ None \notin P!Refresh

eventVars == <<events, overdue, open, analyses, changes, consumer, index, astray>>
profileVars == <<sources, profiles, changing, reading, messages, crossed, missed>>
bookingVars == <<booking, challenge, items, records, codes, lastCode, requests, begun, disturbed>>
tagVars == <<tags, evidences, work, worked, overlapped>>
coachVars == <<today, talked, lastReply, logs, reviews, talks, talksBegun, asked, overwritten>>
restVars == <<coachVars, abilities>>

MCInit ==
  /\ scene \in Scenes
  /\ Init /\ E!Init /\ P!Init /\ B!BookingsInit /\ T!TagsInit
  /\ C!CoachInit /\ M!ClustersInit

MCNext ==
  /\ UNCHANGED scene
  /\ \/ /\ scene = "devices" /\ Next
        /\ UNCHANGED <<eventVars, profileVars, bookingVars, tagVars, restVars>>
     \/ /\ scene = "events" /\ E!Next
        /\ UNCHANGED <<vars, profileVars, bookingVars, tagVars, restVars>>
     \/ /\ scene = "profiles" /\ P!Next
        /\ UNCHANGED <<vars, eventVars, bookingVars, tagVars, restVars>>
     \/ /\ scene = "bookings" /\ B!BookingsNext
        /\ UNCHANGED <<vars, eventVars, profileVars, tagVars, restVars>>
     \/ /\ scene = "tags" /\ T!TagsNext
        /\ UNCHANGED <<vars, eventVars, profileVars, bookingVars, restVars>>
     \/ /\ scene = "coach" /\ C!CoachNext
        /\ UNCHANGED <<vars, eventVars, profileVars, bookingVars, tagVars, abilities>>
     \/ /\ scene = "map" /\ M!Rescored
        /\ UNCHANGED <<vars, eventVars, profileVars, bookingVars, tagVars, coachVars>>

MCSpec == MCInit /\ [][MCNext]_<<scene, vars, eventVars, profileVars, bookingVars, tagVars, restVars>>

\* The variables of the service that is played have their types.
BackendTypeOK ==
  /\ scene = "devices" => TypeOK
  /\ scene = "events" => E!TypeOK
  /\ scene = "profiles" => P!TypeOK
  /\ scene = "bookings" => B!BookingsTypeOK
  /\ scene = "tags" => T!TagsTypeOK
  /\ scene = "coach" => C!CoachTypeOK
  /\ scene = "map" => M!ClustersTypeOK

\* The devices, see DeviceBinding: server and clients tell of the same devices.
\* The bookings, see Bookings: schedule, records and codes fit their sources.
TablesAgree ==
  /\ scene = "devices" => BindingsMatchDevices
  /\ scene = "bookings" => B!BookingsFit

\* The events, see EventCatalog: what is in the index can be seen; the profiles,
\* see ProfileSnapshots: a clean profile is that of the sources; the tags, see
\* GrowthTags: what is shown of a tag is what its evidences add up to; and the
\* memories, see CoachReviews: they are of the logs and asked for in time.
DerivedIsCurrent ==
  /\ scene = "events" => E!IndexHasNoHidden
  /\ scene = "profiles" => P!CleanIsCurrent
  /\ scene = "tags" => T!TagsAddUp
  /\ scene = "coach" => C!MemoriesAreSpaced

\* The map, see AbilityClusters: what it puts together belongs together.
MapIsSound == scene = "map" => M!MapIsSound

Symmetry == Permutations(Clients) \cup Permutations(Pages)
=============================================================================
