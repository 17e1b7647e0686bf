SPECIFICATION MCSpec
CONSTANTS
  None = None
  Scenes = {"resumes", "panel", "console", "session", "selection", "judges", "week", "events"}
  Main = Main
  Title = Title
  Titles = {Main, Title}
  TypedText = TypedText
  Texts = {TypedText}
  AgentText = AgentText
  Imports <- ImportsPlayed
  Delivered <- LinesDelivered
  ForeignFiles <- FilesOfOthers
  MaxLines = 2
  MaxIds = 4
  MaxCommands = 7
  NoDevice = NoDevice
  MaxDevices = 2
  MaxLists = 2
  MaxVisits = 2
  Intents = {"experience", "review", "plan"}
  Stages <- StagesDelivered
  Reviewed = 1
  MaxTexts = 3
  MaxStages = 3
  MaxMoves = 2
  NoSession = NoSession
  Tabs = {b1, b2}
  RoleOf <- RolePlayed
  MaxTokens = 2
  MaxCalls = 2
  Drafts <- DraftsOpened
  Typed <- PiecesTyped
  Wishes = {{}, {"sql"}}
  Abilities = {"java", "sql"}
  MaxSelected = 2
  MaxEdits = 1
  MaxPieces = 4
  Unknown = Unknown
  Judges = {1, 2}
  MaxJudgesAtOnce = 2
  MaxJudgeCalls = 4
  NoItem = NoItem
  EntryTexts = {TypedText}
  Times = {1, 2}
  MaxEntries = 2
  MaxWeekCalls = 4
  Nil = Nil
  Events = {1, 2}
  Filters = {f1, f2}
  MaxEventsAtOnce = 2
  MaxEventCalls = 5
INVARIANTS WebTypeOK ExportIsTrue PagesAreTrue
PROPERTIES VersionsAreKept
CHECK_DEADLOCK FALSE
