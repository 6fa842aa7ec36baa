------------------------------ MODULE MCConsole ------------------------------
(***************************************************************************)
(* The pages of the console and of the panel, and the configuration the    *)
(* kernel gets, one per behaviour: the instances TLC explores.             *)
(*                                                                         *)
(* They share no state but the server's tables, and each module has those  *)
(* its page uses; so their behaviours are explored side by side, in one    *)
(* run, instead of interleaved.  Some parts have their own variables here, *)
(* for their properties to be those the theorems are about; they rest in a *)
(* first state while another part is open.  For the others, s1 is the      *)
(* first variable of the module that is open, and so on; those it does not *)
(* need stay Unused.                                                       *)
(* A page may be there twice: with many of one kind of its actions and     *)
(* with many of another, instead of many of both.                          *)
(***************************************************************************)
EXTENDS Theme, Notifications, UsersPage, NodesPage, WorkspacePage, ConnectionTable,
  Connections, Functions, SequencesExt, TLC

VARIABLES
  open,  \* the page or part of this behaviour
  s1, s2, s3, s4, s5, s6, s7, s8, s9, s10, s11, s12, s13, s14, s15  \* its state

-----------------------------------------------------------------------------
\* The small instances: functions among the constants.
NodeHits == [n \in 1 .. 2 |->
  IF n = 1 THEN {<<"zh", "in">>, <<"zh", "id">>, <<"en", "us">>} ELSE {}]
SourceContent == [s \in {"u"} |-> <<"a", "b", "a">>]
FirstUsers == <<"r", "a">>
HistoryTypes == <<"src", "host">>
NodeKind == [n \in {1} |-> "ss"]
DashboardFacets == {"running", "inventory", "ports", "binary"}
ConnectionKeys ==
  "src" :> [c \in {1, 2} |-> ToString(c)] @@ "host" :> [c \in {1, 2} |-> "x"]
ProxyMembers == 0 :> <<7, 5>> @@ 5 :> <<3>> @@ 7 :> <<3, 5, 9, 1>>
ProxyProvider == 3 :> "p"
FlowChain ==
  1 :> [source |-> 5, rule |-> 3, chains |-> <<2, 4>>] @@
  2 :> [source |-> 5, rule |-> 1, chains |-> <<4>>] @@
  3 :> [source |-> 5, rule |-> 3, chains |-> <<4, 6>>]
ConnectionGroup == [c \in {"c1"} |-> "x"]
LabelKinds ==
  "four" :> "name" @@ "tail" :> "name" @@ "re" :> "regex" @@ "bad" :> "bad" @@ "net" :> "net" @@
  "net6" :> "net"
LabelCovers ==
  "four" :> {} @@ "tail" :> {"six"} @@ "re" :> {"four", "six"} @@ "bad" :> {} @@ "net" :> {"four"} @@
  "net6" :> {"six"}
PanelRouteNames == <<"overview", "proxies", "connections", "rules", "settings">>
ChartFeedsOf == "memory" :> "memoryHistory" @@ "speed" :> "speedHistory"
SanitizedTexts == "a" :> <<"a">> @@ "a-2" :> <<"a", 2>> @@ "a 2" :> <<"a", 2>>
FinalProfile(name, include, row, host, mixed, socks, http) ==
  [name |-> name, include |-> include, nodes |-> row, host |-> host,
   legible |-> TRUE, ports |-> "mixed" :> mixed @@ "socks" :> socks @@ "http" :> http]
FinalProfiles ==
  {FinalProfile("a", TRUE, <<1, 2, 3>>, "x", 1, 0, 0),
   FinalProfile("a", TRUE, <<2, 3>>, "y", 1, 0, 0), FinalProfile("a-2", TRUE, <<3>>, "x", 0, 1, 2),
   FinalProfile("a", FALSE, <<1>>, "x", 1, 0, 0), FinalProfile("a", TRUE, <<>>, "x", 3, 0, 0),
   FinalProfile("a", TRUE, <<1, 4>>, "y", 2, 0, 0),
   [FinalProfile("a-2", TRUE, <<3>>, "y", 1, 0, 0) EXCEPT !.legible = FALSE],
   FinalProfile("a 2", TRUE, <<2, 1>>, "x", 0, 3, 4)}

RuntimeView == INSTANCE RuntimePage WITH
  RingLimit <- 1, PageLimit <- 1, PanelLimit <- 1, Supported <- {"start", "reload"},
  Pollers <- {"p1"}, MaxSeq <- 0, MaxClicks <- 1, MaxOutside <- 1,
  logSeq <- s1, kernelUp <- s2, statusQ <- s3, panel <- s4, asks <- s5, auto <- s6, jobs <- s7,
  feedback <- s8, clicks <- s9, outside <- s10, unseen <- s11, overtaken <- s12, patched <- s13
RuntimeLogsView == INSTANCE RuntimePage WITH
  RingLimit <- 2, PageLimit <- 1, PanelLimit <- 2, Supported <- {"start"},
  Pollers <- {"p1", "p2"}, MaxSeq <- 3, MaxClicks <- 0, MaxOutside <- 0,
  logSeq <- s1, kernelUp <- s2, statusQ <- s3, panel <- s4, asks <- s5, auto <- s6, jobs <- s7,
  feedback <- s8, clicks <- s9, outside <- s10, unseen <- s11, overtaken <- s12, patched <- s13
RuntimeListsView == INSTANCE RuntimePage WITH
  RingLimit <- 2, PageLimit <- 1, PanelLimit <- 2, Supported <- {"start"},
  Pollers <- {"p1"}, MaxSeq <- 2, MaxClicks <- 1, MaxOutside <- 0,
  logSeq <- s1, kernelUp <- s2, statusQ <- s3, panel <- s4, asks <- s5, auto <- s6, jobs <- s7,
  feedback <- s8, clicks <- s9, outside <- s10, unseen <- s11, overtaken <- s12, patched <- s13
ImportView == INSTANCE ImportPage WITH
  Sources <- {"u"}, Content <- SourceContent, NoSource <- "none",
  MaxParses <- 1, MaxEdits <- 4,
  pool <- s1, records <- s2, mode <- s3, inputs <- s4, parsed <- s5, preview <- s6,
  chosen <- s7, results <- s8, flight <- s9, removed <- s10, edits <- s11
SettingsView == INSTANCE SettingsPage WITH
  Followed <- {"ServerAddress", "MihomoBinaryPath", "ClashSecret"}, IsRoot <- TRUE, Slots <- {1},
  MaxActs <- 3,
  stored <- s1, optionsQ <- s2, publicQ <- s3, selfQ <- s4, fields <- s5, busyKey <- s6,
  saves <- s7, install <- s8, edited <- s9, torn <- s10, did <- s11
SettingsSavesView == INSTANCE SettingsPage WITH
  Followed <- {"ServerAddress", "MihomoBinaryPath", "ClashSecret"}, IsRoot <- TRUE, Slots <- {1, 2},
  MaxActs <- 2,
  stored <- s1, optionsQ <- s2, publicQ <- s3, selfQ <- s4, fields <- s5, busyKey <- s6,
  saves <- s7, install <- s8, edited <- s9, torn <- s10, did <- s11
SignInView == INSTANCE SignIn WITH
  Places <- {"home", "nodes"}, Home <- "home", NeedsEmail <- TRUE, NeedsTurnstile <- TRUE,
  MaxVisits <- 1, MaxExchanges <- 2,
  session <- s1, provider <- s2, self <- s3, route <- s4, informed <- s5, token <- s6,
  sent <- s7, code <- s8, mailed <- s9, wanted <- s10, byGitHub <- s11, visits <- s12
SignInVisitsView == INSTANCE SignIn WITH
  Places <- {"home", "nodes"}, Home <- "home", NeedsEmail <- FALSE, NeedsTurnstile <- FALSE,
  MaxVisits <- 2, MaxExchanges <- 1,
  session <- s1, provider <- s2, self <- s3, route <- s4, informed <- s5, token <- s6,
  sent <- s7, code <- s8, mailed <- s9, wanted <- s10, byGitHub <- s11, visits <- s12
LogsView == INSTANCE LogsPage WITH
  Classes <- {"system", "business"}, AnyClass <- "all", Limit <- 1, MaxEntries <- 3,
  MaxTurns <- 1,
  written <- s1, class <- s2, recent <- s3, logs <- s4, paused <- s5, polls <- s6, mixed <- s7,
  turns <- s8
DashboardView == INSTANCE DashboardPage WITH
  NodeIds <- {1}, Kind <- NodeKind, Latencies <- {30}, Cached <- DashboardFacets,
  MaxPresses <- 2, MaxChanges <- 1,
  world <- s1, queries <- s2, quick <- s3, notice <- s4, behind <- s5, presses <- s6,
  changes <- s7
PanelLogsView == INSTANCE PanelLogs WITH
  Levels <- {1, 2}, Hidden <- {1}, Retentions <- {0, 1, 2}, MaxLines <- 3,
  MaxLogActs <- 2,
  lines <- s1, connected <- s2, wire <- s3, logLevel <- s4, logRetentionLimit <- s5,
  panelPaused <- s6, logTypeFilter <- s7, logFilterEnabled <- s8, nextSeq <- s9,
  logsTemp <- s10, panelLogs <- s11, throttled <- s12, arrived <- s13, taken <- s14,
  logActs <- s15
ProxyBoardView == INSTANCE ProxyBoard WITH
  Nodes <- {"a", "b"}, NoNode <- "none", MaxPushes <- 2,
  choice <- s1, through <- s2, shown <- s3, fetchTime <- s4, started <- s5, fetches <- s6,
  flows <- s7, busy <- s8, boardTab <- s9, twins <- s10, lost <- s11, pushes <- s12
ProxyListView == INSTANCE ProxyList WITH
  Members <- ProxyMembers, Provider <- ProxyProvider, GlobalGroup <- 0, Builtin <- {9},
  HiddenGroups <- {5}, OwnUrl <- {7}, Delays <- {0, 30},
  Filters <- {{0, 1, 3, 5, 7, 9}, {3, 5}},
  LowLatency <- 30, MediumLatency <- 30, FirstGroups <- 2, MaxListActs <- 3,
  proxyNow <- s1, delayOf <- s2, ownDelay <- s3, setting <- s4, hiddenGroupMap <- s5,
  pageMounted <- s6, listActs <- s7
TopologyView == INSTANCE Topology WITH
  Flows <- {1, 2, 3}, Chain <- FlowChain, MaxReports <- 1, MaxTopologyActs <- 3,
  activeConns <- s1, mainChart <- s2, fullChart <- s3, chartTips <- s4, chartPaused <- s5,
  updateWaits <- s6, updateMissed <- s7, reports <- s8, topologyActs <- s9
SourceLabelsView == INSTANCE SourceLabels WITH
  LabelKeys <- {"four", "tail", "re", "bad", "net", "net6"}, KindOf <- LabelKinds,
  Covers <- LabelCovers, Addresses <- {"four", "six"}, IPv6 <- {"six"}, IPv6Nets <- {"net6"},
  LabelTexts <- {"x", "y"}, NoLabel <- "none",
  CacheSize <- 1, MaxLabels <- 3,
  sourceIPLabelList <- s1, indexes <- s2, ipLabelCache <- s3
IconUploadsView == INSTANCE IconUploads WITH
  FirstEntries <- 1, MaxEntries <- 2, MaxFiles <- 2,
  iconReflectList <- s1, icon <- s2, uploadTargetItem <- s3, dialog <- s4, reads <- s5,
  abandoned <- s6, made <- s7, files <- s8
PanelRoutesView == INSTANCE PanelRoutes WITH
  RouteNames <- PanelRouteNames, MaxMoved <- 4,
  route <- s1, tabShow <- s2, options <- s3, providers <- s4, disableSwipe <- s5,
  transition <- s6, swiped <- s7, moved <- s8
OverviewChartsView == INSTANCE OverviewCharts WITH
  TimeSaved <- 2, ChartFeeds <- ChartFeedsOf, BarRules <- 2, MaxHits <- 1,
  MaxBars <- 1, MaxMessages <- 2, MaxChartActs <- 3,
  wsData <- s1, history <- s2, hits <- s3, chart <- s4, chartActs <- s5
FinalConfigView == INSTANCE FinalConfig WITH
  ConfigNodes <- {1, 2, 3, 4}, NodeTexts <- {"a", "a-2", "a 2"}, Sanitized <- SanitizedTexts,
  Unreadable <- {4}, ProfileChoices <- FinalProfiles,
  profilesIn <- s1, nodeText <- s2, final <- s3
ConfigBoardView == INSTANCE ConfigBoard WITH
  KernelModes <- {"rule"}, Rules <- {1}, MaxSteps <- 2,
  kernelMode <- s1, disabled <- s2, matched <- s3, shownMode <- s4, shownRules <- s5,
  loaded <- s6, configReads <- s7, ruleReads <- s8, readCount <- s9, ruleFlows <- s10,
  ruleBusy <- s11, rulesTab <- s12, crossedReads <- s13, rulesLost <- s14, steps <- s15

ASSUME ConsoleAssumption ==
  /\ RuntimeView!RuntimePageAssumption
  /\ RuntimeLogsView!RuntimePageAssumption
  /\ RuntimeListsView!RuntimePageAssumption
  /\ ImportView!ImportPageAssumption
  /\ SettingsView!SettingsAssumption
  /\ SettingsSavesView!SettingsAssumption
  /\ SignInView!SignInAssumption
  /\ SignInVisitsView!SignInAssumption
  /\ LogsView!LogsPageAssumption
  /\ DashboardView!DashboardAssumption
  /\ PanelLogsView!PanelLogsAssumption
  /\ ProxyBoardView!ProxyBoardAssumption
  /\ ProxyListView!ProxyListAssumption
  /\ TopologyView!TopologyAssumption
  /\ SourceLabelsView!SourceLabelsAssumption
  /\ IconUploadsView!IconAssumption
  /\ PanelRoutesView!RoutesAssumption
  /\ OverviewChartsView!ChartsAssumption
  /\ FinalConfigView!FinalConfigAssumption
  /\ ConfigBoardView!ConfigBoardAssumption
  /\ NodesPageAssumption
  /\ WorkspaceAssumption
  /\ UsersPageAssumption
  /\ ThemeAssumption
  /\ ConnectionsAssumption
  /\ ConnectionTableAssumption
  /\ NotificationsAssumption

-----------------------------------------------------------------------------
Unused == "unused"

slots ==
  <<s1, s2, s3, s4, s5, s6, s7, s8, s9, s10, s11, s12, s13, s14, s15>>

Parts ==
  {"runtime", "runtimeLogs", "runtimeLists", "nodes", "import", "workspace", "settings",
   "settingsSaves", "users", "signIn", "signInVisits", "logs", "dashboard", "theme",
   "connections", "table", "kernelLogs", "proxies", "proxyList", "topology", "notifications",
   "labels", "icons", "routes", "charts", "final", "rules"}

\* The parts that are closed.
nodesRest == <<workspaceVars, usersVars, themeVars, connVars, tableAll, notifVars>>
workspaceRest == <<nodesVars, usersVars, themeVars, connVars, tableAll, notifVars>>
usersRest == <<nodesVars, workspaceVars, themeVars, connVars, tableAll, notifVars>>
themeRest == <<nodesVars, workspaceVars, usersVars, connVars, tableAll, notifVars>>
connectionsRest == <<nodesVars, workspaceVars, usersVars, themeVars, tableAll, notifVars>>
tableRest == <<nodesVars, workspaceVars, usersVars, themeVars, connVars, notifVars>>
notificationsRest == <<nodesVars, workspaceVars, usersVars, themeVars, connVars, tableAll>>
partsVars == <<nodesVars, workspaceVars, usersVars, themeVars, connVars, tableAll, notifVars>>

\* The names of nodes and of modes are alike: the first state has one of them.
ConsoleInit ==
  /\ \/ /\ open \in {"nodes", "workspace", "users", "theme", "connections", "table", "notifications"}
        /\ s1 = Unused /\ s2 = Unused /\ s3 = Unused /\ s4 = Unused /\ s5 = Unused
        /\ s6 = Unused /\ s7 = Unused /\ s8 = Unused /\ s9 = Unused /\ s10 = Unused
        /\ s11 = Unused /\ s12 = Unused /\ s13 = Unused /\ s14 = Unused /\ s15 = Unused
     \/ open = "runtime" /\ RuntimeView!RuntimeInit
        /\ s14 = Unused /\ s15 = Unused
     \/ open = "runtimeLogs" /\ RuntimeLogsView!RuntimeInit
        /\ s14 = Unused /\ s15 = Unused
     \/ open = "runtimeLists" /\ RuntimeListsView!RuntimeInit
        /\ s14 = Unused /\ s15 = Unused
     \/ open = "import" /\ ImportView!ImportInit
        /\ s12 = Unused /\ s13 = Unused /\ s14 = Unused /\ s15 = Unused
     \/ open = "settings" /\ SettingsView!SettingsInit
        /\ s12 = Unused /\ s13 = Unused /\ s14 = Unused /\ s15 = Unused
     \/ open = "settingsSaves" /\ SettingsSavesView!SettingsInit
        /\ s12 = Unused /\ s13 = Unused /\ s14 = Unused /\ s15 = Unused
     \/ open = "signIn" /\ SignInView!SignInInit
        /\ s13 = Unused /\ s14 = Unused /\ s15 = Unused
     \/ open = "signInVisits" /\ SignInVisitsView!SignInInit
        /\ s13 = Unused /\ s14 = Unused /\ s15 = Unused
     \/ open = "logs" /\ LogsView!LogsInit
        /\ s9 = Unused /\ s10 = Unused /\ s11 = Unused /\ s12 = Unused /\ s13 = Unused
        /\ s14 = Unused /\ s15 = Unused
     \/ open = "dashboard" /\ DashboardView!DashboardInit
        /\ s8 = Unused /\ s9 = Unused /\ s10 = Unused /\ s11 = Unused /\ s12 = Unused
        /\ s13 = Unused /\ s14 = Unused /\ s15 = Unused
     \/ open = "kernelLogs" /\ PanelLogsView!PanelLogsInit
     \/ open = "proxies" /\ ProxyBoardView!ProxyBoardInit /\ s1 = "a"
        /\ s13 = Unused /\ s14 = Unused /\ s15 = Unused
     \/ open = "proxyList" /\ ProxyListView!ProxyListInit
        /\ s8 = Unused /\ s9 = Unused /\ s10 = Unused /\ s11 = Unused /\ s12 = Unused
        /\ s13 = Unused /\ s14 = Unused /\ s15 = Unused
     \/ open = "topology" /\ TopologyView!TopologyInit
        /\ s10 = Unused /\ s11 = Unused /\ s12 = Unused /\ s13 = Unused /\ s14 = Unused
        /\ s15 = Unused
     \/ open = "labels" /\ SourceLabelsView!SourceLabelsInit
        /\ s4 = Unused /\ s5 = Unused /\ s6 = Unused /\ s7 = Unused /\ s8 = Unused
        /\ s9 = Unused /\ s10 = Unused /\ s11 = Unused /\ s12 = Unused /\ s13 = Unused
        /\ s14 = Unused /\ s15 = Unused
     \/ open = "icons" /\ IconUploadsView!IconUploadsInit
        /\ s9 = Unused /\ s10 = Unused /\ s11 = Unused /\ s12 = Unused /\ s13 = Unused
        /\ s14 = Unused /\ s15 = Unused
     \/ open = "routes" /\ PanelRoutesView!PanelRoutesInit
        /\ s9 = Unused /\ s10 = Unused /\ s11 = Unused /\ s12 = Unused /\ s13 = Unused
        /\ s14 = Unused /\ s15 = Unused
     \/ open = "charts" /\ OverviewChartsView!OverviewChartsInit
        /\ s6 = Unused /\ s7 = Unused /\ s8 = Unused /\ s9 = Unused /\ s10 = Unused
        /\ s11 = Unused /\ s12 = Unused /\ s13 = Unused /\ s14 = Unused /\ s15 = Unused
     \/ open = "final" /\ FinalConfigView!FinalConfigInit
        /\ s4 = Unused /\ s5 = Unused /\ s6 = Unused /\ s7 = Unused /\ s8 = Unused
        /\ s9 = Unused /\ s10 = Unused /\ s11 = Unused /\ s12 = Unused /\ s13 = Unused
        /\ s14 = Unused /\ s15 = Unused
     \/ open = "rules" /\ ConfigBoardView!ConfigBoardInit /\ s1 = "rule"
  /\ NodesInit /\ (open # "nodes" => node = [n \in Nodes |-> "alive"])
  /\ WorkspaceInit /\ (open # "workspace" => born = 1)
  /\ UsersInit
  /\ ThemeInit /\ (open # "theme" => ~prefersDark /\ storedMode = "none")
  /\ ConnectionsInit
  /\ ConnectionTableInit
  /\ NotificationsInit

ConsoleNext ==
  \/ open = "nodes" /\ NodesNext /\ UNCHANGED <<open, slots, nodesRest>>
  \/ open = "workspace" /\ WorkspaceNext /\ UNCHANGED <<open, slots, workspaceRest>>
  \/ open = "users" /\ UsersNext /\ UNCHANGED <<open, slots, usersRest>>
  \/ open = "theme" /\ ThemeNext /\ UNCHANGED <<open, slots, themeRest>>
  \/ open = "connections" /\ ConnectionsNext /\ UNCHANGED <<open, slots, connectionsRest>>
  \/ open = "table" /\ ConnectionTableNext /\ UNCHANGED <<open, slots, tableRest>>
  \/ open = "notifications" /\ NotificationsNext /\ UNCHANGED <<open, slots, notificationsRest>>
  \/ /\ open = "runtime" /\ RuntimeView!RuntimeNext
     /\ UNCHANGED <<open, partsVars, s14, s15>>
  \/ /\ open = "runtimeLogs" /\ RuntimeLogsView!RuntimeNext
     \* Without clicks no step of the log reads or writes the status query, s3.
     /\ UNCHANGED <<open, partsVars, s3, s14, s15>>
  \/ /\ open = "runtimeLists" /\ RuntimeListsView!RuntimeNext
     /\ UNCHANGED <<open, partsVars, s14, s15>>
  \/ /\ open = "import" /\ ImportView!ImportNext
     /\ UNCHANGED <<open, partsVars, s12, s13, s14, s15>>
  \/ /\ open = "settings" /\ SettingsView!SettingsNext
     /\ UNCHANGED <<open, partsVars, s12, s13, s14, s15>>
  \/ /\ open = "settingsSaves" /\ SettingsSavesView!SettingsNext
     /\ UNCHANGED <<open, partsVars, s12, s13, s14, s15>>
  \/ /\ open = "signIn" /\ SignInView!SignInNext
     /\ UNCHANGED <<open, partsVars, s13, s14, s15>>
  \/ /\ open = "signInVisits" /\ SignInVisitsView!SignInNext
     /\ UNCHANGED <<open, partsVars, s13, s14, s15>>
  \/ /\ open = "logs" /\ LogsView!LogsNext
     /\ UNCHANGED <<open, partsVars, s9, s10, s11, s12, s13, s14, s15>>
  \/ /\ open = "dashboard" /\ DashboardView!DashboardNext
     /\ UNCHANGED <<open, partsVars, s8, s9, s10, s11, s12, s13, s14, s15>>
  \/ /\ open = "kernelLogs" /\ PanelLogsView!PanelLogsNext
     /\ UNCHANGED <<open, partsVars>>
  \/ /\ open = "proxies" /\ ProxyBoardView!ProxyBoardNext
     /\ UNCHANGED <<open, partsVars, s13, s14, s15>>
  \/ /\ open = "proxyList" /\ ProxyListView!ProxyListNext
     /\ UNCHANGED <<open, partsVars, s8, s9, s10, s11, s12, s13, s14, s15>>
  \/ /\ open = "topology" /\ TopologyView!TopologyNext
     /\ UNCHANGED <<open, partsVars, s10, s11, s12, s13, s14, s15>>
  \/ /\ open = "labels" /\ SourceLabelsView!SourceLabelsNext
     /\ UNCHANGED <<open, partsVars, s4, s5, s6, s7, s8, s9, s10, s11, s12, s13, s14, s15>>
  \/ /\ open = "icons" /\ IconUploadsView!IconUploadsNext
     /\ UNCHANGED <<open, partsVars, s9, s10, s11, s12, s13, s14, s15>>
  \/ /\ open = "routes" /\ PanelRoutesView!PanelRoutesNext
     /\ UNCHANGED <<open, partsVars, s9, s10, s11, s12, s13, s14, s15>>
  \/ /\ open = "charts" /\ OverviewChartsView!OverviewChartsNext
     /\ UNCHANGED <<open, partsVars, s6, s7, s8, s9, s10, s11, s12, s13, s14, s15>>
  \/ /\ open = "final" /\ FinalConfigView!FinalConfigNext
     /\ UNCHANGED <<open, partsVars, s4, s5, s6, s7, s8, s9, s10, s11, s12, s13, s14, s15>>
  \/ /\ open = "rules" /\ ConfigBoardView!ConfigBoardNext
     /\ UNCHANGED <<open, partsVars>>

consoleVars == <<open, slots, partsVars>>

ConsoleSpec == ConsoleInit /\ [][ConsoleNext]_consoleVars

-----------------------------------------------------------------------------
\* The type invariant of what is open.
TypeOK ==
  /\ open \in Parts
  /\ open = "runtime" => RuntimeView!RuntimeTypeOK
  /\ open = "runtimeLogs" => RuntimeLogsView!RuntimeTypeOK
  /\ open = "runtimeLists" => RuntimeListsView!RuntimeTypeOK
  /\ open = "import" => ImportView!ImportTypeOK
  /\ open = "settings" => SettingsView!SettingsTypeOK
  /\ open = "settingsSaves" => SettingsSavesView!SettingsTypeOK
  /\ open = "signIn" => SignInView!SignInTypeOK
  /\ open = "signInVisits" => SignInVisitsView!SignInTypeOK
  /\ open = "logs" => LogsView!LogsTypeOK
  /\ open = "dashboard" => DashboardView!DashboardTypeOK
  /\ open = "kernelLogs" => PanelLogsView!PanelLogsTypeOK
  /\ open = "proxies" => ProxyBoardView!ProxyBoardTypeOK
  /\ open = "proxyList" => ProxyListView!ProxyListTypeOK
  /\ open = "topology" => TopologyView!TopologyTypeOK
  /\ open = "labels" => SourceLabelsView!SourceLabelsTypeOK
  /\ open = "icons" => IconUploadsView!IconUploadsTypeOK
  /\ open = "routes" => PanelRoutesView!PanelRoutesTypeOK
  /\ open = "charts" => OverviewChartsView!OverviewChartsTypeOK
  /\ open = "final" => FinalConfigView!FinalConfigTypeOK
  /\ open = "rules" => ConfigBoardView!ConfigBoardTypeOK
  /\ open = "nodes" => NodesTypeOK
  /\ open = "workspace" => WorkspaceTypeOK
  /\ open = "users" => UsersTypeOK
  /\ open = "theme" => ThemeTypeOK
  /\ open = "connections" => ConnectionsTypeOK
  /\ open = "table" => ConnectionTableTypeOK
  /\ open = "notifications" => NotificationsTypeOK

\* A list keeps every node it is given, once: grouped by region (web/features/nodes/lib/
\* region.ts:150-205), filtered, sorted and split by provider in the panel
\* (zashboard/src/composables/renderProxies.ts:30-93, ProxiesByProvider.vue:14-43), and in the
\* kernel's configuration, under a name of its own (mihomo_final.go:41-116, 159-176).
ListsKeepNodes ==
  /\ open = "nodes" => GroupsKeepNodes
  /\ open = "proxyList" => ProxyListView!ListsSound
  /\ open = "final" => FinalConfigView!ConfigSound

\* What is sent is what was shown: a profile never with what another profile's detail filled
\* in (workspace-page.tsx:177-204, 219-229), unless it was saved before its own detail came,
\* which the code allows and which sends what the form held until then; a user only from the
\* form its data filled (users-page.tsx:126-140, 221-232), an import never what was removed
\* from its preview (source-import-page.tsx:440, source_config.go:342-353).  And it arrives
\* where it was meant to: whoever is turned away from a page and signs in by the form at that
\* page, by GitHub at the overview (dashboard-auth-guard.tsx:19-23, login-form.tsx:47-50,
\* github-oauth-callback.tsx:22-26), a picture at the entry it was chosen for or dropped on
\* (IconSettings.vue:189-266), fingers that swipe there and back where they began
\* (zashboard/src/composables/swipe.ts:20-85).
ArrivesAsMeant ==
  /\ open = "workspace" => SavesItsOwn
  /\ open = "users" => SavesTheUserShown
  /\ open = "import" => ImportView!RemovedStaysOut
  /\ open = "signIn" => SignInView!LandsWhereAsked
  /\ open = "signInVisits" => SignInVisitsView!LandsWhereAsked
  /\ open = "icons" => IconUploadsView!IconsLand
  /\ open = "routes" => PanelRoutesView!SwipesReturn

\* A log on display is a piece of the log without a gap, in order and no entry twice: of the
\* application log although polls overlap and answers are limited (logs-page.tsx:34-48,
\* model/app_log.go:56-68); of the kernel's on the runtime page through overlapping polls and
\* through clears and starts, unless a poll asked before the list became another one, or before
\* the ring dropped what it asked for, is answered after it (runtime-page.tsx:53-65); of the
\* kernel's in the panel through pauses and new sockets (zashboard/src/store/logs.ts:22-90).
NoGap ==
  /\ open = "logs" => LogsView!NoGap
  /\ open = "runtimeLogs" => RuntimeLogsView!LogsInOrder
  /\ open = "runtimeLists" => RuntimeListsView!LogsInOrder
  /\ open = "kernelLogs" => PanelLogsView!InOrder

\* Once nothing is under way the panel shows the kernel's state, in whatever order
\* selections, tests, switches, reloads and fetches ran: the node of the group
\* (proxies.ts:106-199), the disabled rules (rules.ts:46-60, RuleCard.vue:211-239), which way
\* its connections go (TopologyCharts.vue:154-269, 369-433) and its figures over time
\* (overview.ts:26-80, BasicCharts.vue:182-186); and it names addresses as the list of labels
\* says by now (zashboard/src/helper/sourceip.ts:13-96),
\* but for those it compares with a network of the other family, where the look-up throws.
\* Nothing orders two fetches of the rules under way together: what they show is excused.
ShowsKernel ==
  /\ open = "proxies" => ProxyBoardView!ShownChoice
  /\ open = "rules" => ConfigBoardView!ShownRules
  /\ open = "topology" => TopologyView!FlowsShown
  /\ open = "charts" => OverviewChartsView!ChartsFollow
  /\ open = "labels" => SourceLabelsView!LabelsFollowList

\* A page at rest shows what the server has, in whatever order its requests, timers and
\* answers came: the runtime page the outcome of its last action (runtime-page.tsx:121-154),
\* the settings what is stored (settings-page.tsx:265-341, 495-507), the overview the kernel
\* and the nodes (dashboard-overview.tsx:65-216); and a test of nodes that ends with success
\* has stored a result for every node that still exists (proxy_node.go:222-271).
ShowsServer ==
  /\ open = "runtime" => RuntimeView!StatusFresh
  /\ open = "runtimeLists" => RuntimeListsView!StatusFresh
  /\ open = "settings" => SettingsView!FieldsShowStored
  /\ open = "settingsSaves" => SettingsSavesView!FieldsShowStored
  /\ open = "dashboard" => DashboardView!OverviewCurrent
  /\ open = "nodes" => TestsStored

=============================================================================
