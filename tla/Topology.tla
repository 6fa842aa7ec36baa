---------------------------- MODULE Topology ----------------------------
(***************************************************************************)
(* The chart of the panel's overview that draws who talks to what through  *)
(* which proxies (zashboard/src/components/overview/TopologyCharts.vue):   *)
(* the nodes and links computed from the active connections, and the two   *)
(* charts that show them, redrawn by a debounced call that a tooltip or    *)
(* the user pauses.                                                        *)
(***************************************************************************)
EXTENDS Integers, SequencesExt

CONSTANTS
  Flows,           \* the connections there may be
  Chain,           \* for each its address, its rule and its chains, exit first
  MaxReports,      \* bound: reports of connections
  MaxTopologyActs  \* bound: what the user does

\* What the constants are: assumed where they get their values.  Names are numbers, in the
\* order of localeCompare; a name may occur in several roles.
TopologyAssumption ==
  /\ \A c \in Flows : /\ Chain[c].source \in Nat /\ Chain[c].rule \in Nat
                      /\ Chain[c].chains \in Seq(Nat)
  /\ MaxReports \in Nat /\ MaxTopologyActs \in Nat

VARIABLES
  activeConns,   \* activeConnections, in their order
  mainChart,     \* what myChart shows
  fullChart,     \* what fullScreenMyChart shows; NoChart while there is none
  chartTips,     \* the charts with a tooltip up
  chartPaused,   \* isPaused
  updateWaits,   \* the debounced updateChartData waits for its timer
  updateMissed,  \* history: an update was skipped since the charts were last drawn
  reports, topologyActs  \* counters of the bounds

charts == <<mainChart, fullChart, chartTips, chartPaused, updateWaits, updateMissed>>
topologyVars == <<activeConns, charts, reports, topologyActs>>

-----------------------------------------------------------------------------
(* sankeyData. *)

\* The names a connection adds, each with its layer: address, rule, entry, exit.  One that
\* has no chain adds none; one whose first and last are the same has no entry.
Mentions(c) ==
  LET f == Chain[c]
      first == Head(f.chains)
      last == Last(f.chains)
  IN  IF f.chains = <<>> THEN <<>>
      ELSE <<[name |-> f.source, layer |-> 0], [name |-> f.rule, layer |-> 1]>>
           \o (IF first = last THEN <<>> ELSE <<[name |-> last, layer |-> 2]>>)
           \o <<[name |-> first, layer |-> 3]>>

AllMentions(list) == FlattenSeq([k \in DOMAIN list |-> Mentions(list[k])])

\* addNode: a name is added by its first mention, which decides its layer, and numbered in
\* this order.
addNode(list) ==
  LET all == AllMentions(list)
      firsts == {k \in DOMAIN all : \A j \in 1 .. k - 1 : all[j].name # all[k].name}
  IN  SelectSeq([k \in DOMAIN all |-> all[k] @@ [first |-> k \in firsts]], LAMBDA e : e.first)

\* linkMap: between old ids, how often each pair follows one another in a connection.
linkMap(list) ==
  LET added == addNode(list)
      Id(name) == CHOOSE k \in DOMAIN added : added[k].name = name
      Hops(c) == LET ms == Mentions(c)
                 IN  [k \in 1 .. (IF ms = <<>> THEN 0 ELSE Len(ms) - 1) |->
                        <<Id(ms[k].name), Id(ms[k + 1].name)>>]
      hops == FlattenSeq([k \in DOMAIN list |-> Hops(list[k])])
  IN  [pair \in ToSet(hops) |-> Cardinality({k \in DOMAIN hops : hops[k] = pair})]

\* idMapping: the nodes by layer, and by name within one, are numbered again.
idMapping(list) ==
  LET added == addNode(list)
      Before(a, b) == a.layer < b.layer \/ (a.layer = b.layer /\ a.name < b.name)
  IN  [k \in DOMAIN added |-> Cardinality({j \in DOMAIN added : Before(added[j], added[k])})]

sankeyData(list) ==
  LET added == addNode(list)
      newId == idMapping(list)
      links == linkMap(list)
  IN  [nodes |-> {[id |-> newId[k], name |-> added[k].name] : k \in DOMAIN added},
       links |-> {[source |-> newId[p[1]], target |-> newId[p[2]], originalValue |-> links[p]] :
                  p \in DOMAIN links}]

NoChart == [nodes |-> {}, links |-> {}, none |-> TRUE]

-----------------------------------------------------------------------------
Lists == {s \in UNION {[1 .. n -> Flows] : n \in 0 .. Cardinality(Flows)} : IsInjective(s)}

\* onMounted: the chart is made and drawn.
TopologyInit ==
  /\ activeConns \in Lists
  /\ mainChart = sankeyData(activeConns)
  /\ fullChart = NoChart /\ chartTips = {} /\ chartPaused = FALSE
  /\ updateWaits = FALSE /\ updateMissed = FALSE
  /\ reports = 0 /\ topologyActs = 0

TopologyAct == topologyActs < MaxTopologyActs /\ topologyActs' = topologyActs + 1

\* A report of the kernel: the data is new, and its watcher starts the 300 ms again.
NewConnections ==
  /\ reports < MaxReports /\ reports' = reports + 1
  /\ activeConns' \in Lists
  /\ updateWaits' = TRUE
  /\ UNCHANGED <<mainChart, fullChart, chartTips, chartPaused, updateMissed, topologyActs>>

\* setOption or clear on the charts there are.
Draw ==
  /\ mainChart' = sankeyData(activeConns)
  /\ fullChart' = IF fullChart = NoChart THEN NoChart ELSE sankeyData(activeConns)
  /\ updateMissed' = FALSE

\* updateChartData: while paused it does nothing, and nothing repeats it.
updateChartData ==
  /\ updateWaits /\ updateWaits' = FALSE
  /\ \/ chartPaused /\ updateMissed' = TRUE /\ UNCHANGED <<mainChart, fullChart>>
     \/ ~chartPaused /\ Draw
  /\ UNCHANGED <<activeConns, chartTips, chartPaused, reports, topologyActs>>

\* Another theme or font: both charts are drawn, paused or not.
ThemeChanges ==
  /\ TopologyAct
  /\ Draw
  /\ UNCHANGED <<activeConns, chartTips, chartPaused, updateWaits, reports>>

TogglePaused ==
  /\ TopologyAct
  /\ chartPaused' = ~chartPaused
  /\ UNCHANGED <<activeConns, mainChart, fullChart, chartTips, updateWaits, updateMissed, reports>>

\* The tooltip of the chart under the mouse comes, and the charts stand still.
showTip ==
  /\ TopologyAct
  /\ \E chart \in {IF fullChart = NoChart THEN "main" ELSE "full"} \ chartTips :
       chartTips' = chartTips \union {chart}
  /\ chartPaused' = TRUE
  /\ UNCHANGED <<activeConns, mainChart, fullChart, updateWaits, updateMissed, reports>>

\* It goes, and with it any pause, the user's too.
hideTip ==
  /\ \E chart \in chartTips : chartTips' = chartTips \ {chart}
  /\ chartPaused' = FALSE
  /\ UNCHANGED <<activeConns, mainChart, fullChart, updateWaits, updateMissed, reports,
                 topologyActs>>

\* isFullScreen becomes true: the chart over the page is made and drawn.
EnterFullScreen ==
  /\ TopologyAct
  /\ fullChart = NoChart /\ fullChart' = sankeyData(activeConns)
  /\ UNCHANGED <<activeConns, mainChart, chartTips, chartPaused, updateWaits, updateMissed,
                 reports>>

\* It becomes false: that chart is disposed of, its tooltip without an event.
ExitFullScreen ==
  /\ TopologyAct
  /\ fullChart # NoChart /\ fullChart' = NoChart
  /\ chartTips' = chartTips \ {"full"}
  /\ UNCHANGED <<activeConns, mainChart, chartPaused, updateWaits, updateMissed, reports>>

TopologyNext ==
  \/ NewConnections \/ updateChartData \/ ThemeChanges \/ TogglePaused
  \/ showTip \/ hideTip \/ EnterFullScreen \/ ExitFullScreen

TopologySpec == TopologyInit /\ [][TopologyNext]_topologyVars

-----------------------------------------------------------------------------
\* What the tooltip of a link says: its ends are looked up in the data of now, by the ids
\* the chart was drawn with.
TipText(link) ==
  LET Named(id) == {n.name : n \in {n \in sankeyData(activeConns).nodes : n.id = id}}
  IN  [from |-> Named(link.source), to |-> Named(link.target), count |-> link.originalValue]

Pictures == {c \in {mainChart, fullChart} : c # NoChart}

(* The type of the charts. *)
TopologyTypeOK ==
  /\ activeConns \in Lists
  /\ \A c \in Pictures : \A l \in c.links :
       {l.source, l.target} \subseteq {n.id : n \in c.nodes} /\ l.originalValue \in Nat \ {0}
  /\ chartTips \subseteq {"main", "full"} /\ chartPaused \in BOOLEAN
  /\ updateWaits \in BOOLEAN /\ updateMissed \in BOOLEAN
  /\ reports \in 0 .. MaxReports /\ topologyActs \in 0 .. MaxTopologyActs

\* The places where a connection goes from one name to another.
Goes(a, b) ==
  {p \in (DOMAIN activeConns) \X (1 .. 3) :
     LET ms == Mentions(activeConns[p[1]])
     IN  p[2] < Len(ms) /\ ms[p[2]].name = a /\ ms[p[2] + 1].name = b}

\* Redraws in every order leave no old picture, unless an update waits or was skipped
\* (TopologyCharts.vue:369-433).
PicturesCurrent ==
  ~updateWaits /\ ~updateMissed => Pictures \subseteq {sankeyData(activeConns)}

(* Unless an update waits or was skipped, each chart shows every name once and, between two   *)
(* names, how many connections go from one to the other: merging, sorting and renumbering     *)
(* lose none and take none for another (TopologyCharts.vue:154-269).                          *)
FlowsShown ==
  /\ PicturesCurrent
  /\ ~updateWaits /\ ~updateMissed =>
    LET names == {m.name : m \in ToSet(AllMentions(activeConns))}
    IN  \A c \in Pictures :
          /\ {n.name : n \in c.nodes} = names /\ Cardinality(c.nodes) = Cardinality(names)
          /\ {n.id : n \in c.nodes} = 0 .. Cardinality(names) - 1
          /\ {TipText(l) : l \in c.links} =
               {[from |-> {p[1]}, to |-> {p[2]}, count |-> Cardinality(Goes(p[1], p[2]))] :
                p \in {p \in names \X names : Goes(p[1], p[2]) # {}}}
=============================================================================
