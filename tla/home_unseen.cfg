\* A key typed ahead acts on a Home that was swapped in and not yet painted.
SPECIFICATION CockpitSpec
CONSTANTS
  Components = {"home"}
  Modes = {"actnow"}
  Keys = {"move", "open", "claim", "grab", "r", "help", "q"}
  Provisional = {TRUE, FALSE}
  MaxKeys = 2
  MaxBadCaptures = 1
  Layouts <- SmallLayouts
  Canonical <- TaxonomyLetters
  Catalogs <- SmallCatalogs
  Wired = {"s"}
  ShortcutKeys <- TwoShortcuts
  FirstAlias = 3
  ShownMatches = 2
  MaxMatches = 3
  Walks <- AllWalks
  Presses = {"yes", "no", "esc", "fix", "arrow"}
  MaxPresses = 4
  MaxNesting = 5
  Sheets <- SmallSheets
  Top = 2
  Bottom = 2
  Heights = {2, 5, 9}
  MaxDraws = 3
  Snapshots <- SmallSnapshots
  Focuses = {"none", "p1", "f2"}
  NoFocus = "none"
  FailureId = "report"
  MaxRuns = 2
  Threads = {"main", "t1"}
  MainThread = "main"
  Objects = {"o1", "o2"}
  FlushEvery = 2
  MaxAudits = 3
  MaxBroken = 1
  Resolvers = {"p", "q"}
  Specs <- SmallSpecs
  Grants = {{"a"}, {"a", "b"}}
  MaxResolves = 3
  MaxExpiries = 2
  MaxScopes = 4
  MaxLists = 2
  MaxEvents = 1
INVARIANTS
  KeyActsOnShownHome
CHECK_DEADLOCK FALSE
