SPECIFICATION MCFairSpec
CONSTANTS
  None = None
  Absent = Absent
  Nothing = Nothing
  Scenes = {"queue", "two commands", "lock", "two imports", "one import", "skill", "chain", "rows", "nodes", "table", "numbers", "writers",
    "statuses", "cadence", "units", "lookups", "board", "entries",
    "analysis", "fraud check"}
  opp = opp
  trace = trace
  h1 = h1
  h2 = h2
  c1 = c1
  c2 = c2
  NoText = NoText
  Importers = {"p1"}
  Contents = {"a", "b"}
  Manual = {"m"}
  MaxBackups = 3
  MaxStops = 1
  MaxEdits = 1
  Ledger = "ledger"
  MaxExchanges = 1
  Missing = Missing
  Chains <- ChainsPlayed
  Packages = {"e1", "e2"}
  Supporting = {"e1"}
  Materials = {"ma", "mb"}
  Citing = {"ma"}
  Sections = {"s1", "s2"}
  Hand = Hand
  Twice = Twice
  Versions <- VersionsPlayed
  MaxImports = 5
  MaxAccidents = 1
  Unset = Unset
  Openings = {"o1", "o2"}
  NaturalKeys = {"k1", "k2"}
  NodeLists = {"first", "both", "second"}
  NodesOf <- NodesOfList
  NodeOf <- NodeOfMount
  Mutations = {"move"}
  Mounts = {"mount"}
  Initial = "Evaluated"
  Statuses = {"Evaluated", "Applied"}
  MaxCommands = 4
  MaxAnalyses = 2
  MaxHands = 1
  MaxDeaths = 1
  Impossible = Impossible
  Opportunities = {opp}
  Traces = {trace}
  Hashes = {h1, h2}
  Commands = {c1, c2}
  Requests = {"r1", "r2", "r3"}
  Providers = {"r1", "r3"}
  HostOf <- HostOfRequest
  AttemptsOf <- AttemptsOfRequest
  Capacity = 1
  MaxNames = 1
  Ttl = 2
  NegativeTtl = 1
  Postings = {"a", "b", "c", "d"}
  Keywords <- KeywordsOfBoard
  PageSize = 1
  MaxPages = 3
  EmptyRetries = 2
  MaxBoardMoves = 2
  MaxBlips = 3
  NoFile = NoFile
  Headings = {"projects", "Skills"}
  KeyOf <- KeyOfSpelling
  Payloads <- PayloadsOfAgent
  MaxRuns = 4
  MaxHandEdits = 2
  Basis <- BasisOfSecond
  MaxEntries = 2
  MaxTombstones = 2
  MaxAudit = 5
  MaxAttempts = 1
  Confirms = TRUE
  Forged = Forged
  Devices = {d1, d2}
  Naming = {d1}
  Summaries = {a, b, c}
  Decisions = {a, b}
  MaxUnits = 3
  MaxDeletions = 1
  Processes = {p1, p2, p3}
  MaxCrashes = 2
  MaxFaults = 2
INVARIANTS
  ToolsTypeOK Consistent MutualExclusion NothingIsHidden ChainIsSound
  OpportunitiesAreKept EntriesAreKept UserFilesAreTrue CloudIsTrue FetchIsFair SweepIsTrue
PROPERTIES TombstonesAreKept LockIsRecovered RequestsEnd
CHECK_DEADLOCK FALSE
