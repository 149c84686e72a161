SPECIFICATION Spec
CONSTANTS
  None = None
  Sessions = {s1, s2}
  MaxTurns = 2
  MaxParts = 1
  MaxAsked = 1
  Limit = 1
  Exempt = FALSE
  Charts = {c1, c2}
  CHARTS_PER_FRAME = 1
  MaxEntries = 2
  RefreshInterval = 2
  StaleTime = 3
  MaxCrossings = 2
  MaxAge = 6
  METRIC_RANGE_LOOKBACK <- MCPresets
  DEFAULT_METRIC_TIME_RANGE = "d7"
  MIN_SPAN = 4
  MAX_SPAN = 8
  Minute = 2
  RefreshEvery = 4
  Start = 12
  End = 16
  Labels = {1, 2, 3}
  Lanes <- MCLanes
  MAX_TOOLTIP_ENTRIES = 2
  Width = 4
  Gutter = 3
  PxRatios = {1, 2}
  MaxEvents = 3
  CHART_EVENT_ANNOTATION_HOVER_THRESHOLD_PX = 2
  CHART_EVENT_ANNOTATION_TOOLTIP_SUPPRESS_PX = 3
  CHART_EVENT_ANNOTATION_MERGE_THRESHOLD_PX = 2
  Pinnable = {p1, p2}
  Pausable = {p1}
  MaxRequests = 2
  MaxPauses = 1
  AllItems <- MCItems
  Network <- MCNetwork
  TableFields = {"name"}
  Platforms = {"PE"}
  Elsewhere <- MCElsewhere
  Numbers <- MCNumbers
  TypedLists <- MCLists
  MaxEdits = 2
  MaxSaves = 2
  Bodies <- MCBodies
  USER_FLAGS = {1, 2}
  MaxSteps = 2
  StoredRows <- MCStored
INVARIANTS
  TypeOK
  ChatOneStream
  RangeHolds
  ChartsFresh
  ChartTellsData
PROPERTIES
  AnswerNotLost
  ChartsKeepUp
  TooltipsYield
  PinsConverge
  SortSurvives
  SettingsHold
  AdminListsTrue
CHECK_DEADLOCK FALSE
