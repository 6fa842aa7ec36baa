CONSTANTS
  NodeCount = 2
  Enabled = {1}
  Hits <- NodeHits
  NodesPerPage = 1
  MaxNodeMoves = 3
  ProfileCount = 2
  ProfileNames = {"a", "b"}
  DefaultName = "a"
  ProxyNodes = {"n"}
  TemplateCount = 1
  MaxActs = 3
  UserCount = 3
  UserNames = {"r", "a", "b"}
  FirstNames <- FirstUsers
  MyRole = 100
  PageSize = 2
  MaxMoves = 3
  Tabs = {1, 2}
  MaxToggles = 3
  MaxFlips = 2
  Conns = {1, 2}
  Types <- HistoryTypes
  KeyOf <- ConnectionKeys
  IdleUDP = {2}
  ClosedLimit = 1
  RowLimit = 1
  RowsKept = 1
  MaxConnActs = 2
  Listable = {"c1"}
  GroupOf <- ConnectionGroup
  NoInfo = "none"
  MaxResets = 1
  AlertKeys = {"a", "b"}
  MaxShows = 3
  MaxHovers = 2
SPECIFICATION ConsoleSpec
INVARIANTS
  TypeOK DeletedGone ListsKeepNodes SnapshotCurrent ArrivesAsMeant NoGap ThemeAgrees
  HistoryExact ShowsKernel AlertsTimed ShowsServer
PROPERTIES GoneForGood DragOpensNothing
CHECK_DEADLOCK FALSE
