SPECIFICATION MCSpec
CONSTANTS
  None = None
  Scenes = {"devices", "events", "profiles", "bookings", "tags", "coach", "map"}
  Clients = {c1, c2}
  Pages = {p1, p2}
  MaxOpened = 4
  MaxCodes = 2
  MaxActive = 1
  MaxLost = 1
  Events = {v1}
  Threads = {t1}
  Gone = Gone
  Users = {u1}
  Requests = {q1, q2}
  MaxChanges = 3
  Callers = {a1, a2}
  Notes = {n1}
  MaxBegun = 5
  MaxItems = 3
  MaxRecords = 3
  MaxTickets = 2
  Workers = {w1, w2}
  MaxWork = 3
  Names = {"java", "english"}
  Records = {1, 2}
  Candidates <- Experiences
  LastDay = 4
  MaxTalks = 4
  Named = {0, 1}
  Intervals <- ReviewIntervals
  MaxAbilities = 4
SYMMETRY Symmetry
INVARIANTS BackendTypeOK TablesAgree DerivedIsCurrent MapIsSound
PROPERTIES RevokedIsFinal
CHECK_DEADLOCK FALSE
