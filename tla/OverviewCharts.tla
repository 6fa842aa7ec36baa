---------------------------- MODULE OverviewCharts ----------------------------
(***************************************************************************)
(* The panel's charts over time (zashboard/src/components/overview/        *)
(* BasicCharts.vue with SpeedCharts.vue, MemoryCharts.vue and              *)
(* ConnectionsCharts.vue), the histories they draw (store/overview.ts) and *)
(* the bars of the rules' hits (RuleHitCountChart.vue).                    *)
(*                                                                         *)
(* The kernel's messages come over two sockets, which keep the last one of *)
(* a burst (api/index.ts).  A message is the number it has in its feed; a  *)
(* chart that is paused keeps its picture.  Colours, which a chart takes   *)
(* over with its next picture, and the size of the screen are left out.    *)
(***************************************************************************)
EXTENDS Integers, SequencesExt

CONSTANTS
  TimeSaved,            \* timeSaved: samples in a history
  ChartFeeds,           \* charts on the page -> the history each shows
  BarRules, MaxHits,    \* rules, numbered in order; bound: hits of one
  MaxBars,              \* maxItems
  MaxMessages, MaxChartActs  \* bounds

Feeds == {"memory", "traffic"}
Histories == {"memoryHistory", "connectionsHistory", "speedHistory"}
Charts == DOMAIN ChartFeeds \union {"hits"}

\* What the constants are: assumed where they get their values.
ChartsAssumption ==
  /\ TimeSaved \in Nat \ {0} /\ ChartFeeds \in [DOMAIN ChartFeeds -> Histories]
  /\ "hits" \notin DOMAIN ChartFeeds /\ BarRules \in Nat /\ MaxHits \in Nat
  /\ MaxBars \in Nat \ {0} /\ MaxMessages \in Nat /\ MaxChartActs \in Nat

VARIABLES
  wsData,     \* each feed: messages sent, and the one whose debounce runs; 0 without one
  history,    \* the histories, as the messages of their samples; 0 for those of initValue
  hits,       \* each rule's hitCount, -1 for a rule without extra
  chart,      \* the charts: mounted, isPaused, what is drawn, and whether it is out of date
  chartActs   \* counter of the bound

chartsVars == <<wsData, history, hits, chart, chartActs>>

initValue == [i \in 1 .. TimeSaved |-> 0]

\* rules with extra, most hits first, those with as many in their order, cut: the rule and
\* its hits.
barData(counts) ==
  LET before(r, s) == counts[r] > counts[s] \/ (counts[r] = counts[s] /\ r < s)
      sorted == SetToSortSeq({r \in 1 .. BarRules : counts[r] >= 0}, before)
      bars == SubSeq(sorted, 1, Min({MaxBars, Len(sorted)}))
  IN  [i \in DOMAIN bars |-> <<bars[i], counts[bars[i]]>>]

Source(c, samples, counts) ==
  IF c = "hits" THEN barData(counts) ELSE samples[ChartFeeds[c]]
Now(c) == Source(c, history, hits)

Unmounted == [mounted |-> FALSE, isPaused |-> FALSE, drawn |-> <<>>, late |-> FALSE]

OverviewChartsInit ==
  /\ wsData = [f \in Feeds |-> [sent |-> 0, waiting |-> 0]]
  /\ history = [h \in Histories |-> initValue]
  /\ hits = [r \in 1 .. BarRules |-> -1]
  /\ chart = [c \in Charts |-> Unmounted] /\ chartActs = 0

\* setOption: the watchers of a change that concerns these charts.  The card of the bars is
\* there while a rule has extra.
Redrawn(cs) ==
  chart' = [c \in Charts |->
    LET new == Source(c, history', hits')
    IN  CASE new = <<>> -> Unmounted
          [] new # <<>> /\ c \in cs /\ chart[c].mounted ->
               IF chart[c].isPaused THEN [chart[c] EXCEPT !.late = TRUE]
               ELSE [chart[c] EXCEPT !.drawn = new, !.late = FALSE]
          [] OTHER -> chart[c]]

-----------------------------------------------------------------------------
Message(f) ==
  /\ wsData[f].sent < MaxMessages
  /\ wsData' = [wsData EXCEPT ![f] = [sent |-> @.sent + 1, waiting |-> @.sent + 1]]
  /\ UNCHANGED <<history, hits, chart, chartActs>>

Pushed(h, n) == SubSeq(Append(history[h], n), 2, TimeSaved + 1)

\* The debounce ends.  The memory of a kernel that has just begun is 0 and not shown; with
\* each sample of it goes one of the connections.
SampleShown(f) ==
  /\ wsData[f].waiting > 0
  /\ wsData' = [wsData EXCEPT ![f].waiting = 0]
  /\ LET of == IF f = "memory" THEN {"memoryHistory", "connectionsHistory"} ELSE {"speedHistory"}
     IN  /\ history' = [h \in Histories |->
              IF h \in of THEN Pushed(h, wsData[f].waiting) ELSE history[h]]
         /\ UNCHANGED hits
         /\ Redrawn({c \in DOMAIN ChartFeeds : ChartFeeds[c] \in of})
  /\ UNCHANGED chartActs

NoMemory ==
  /\ wsData["memory"].waiting > 0
  /\ wsData' = [wsData EXCEPT !["memory"].waiting = 0]
  /\ UNCHANGED <<history, hits, chart, chartActs>>

Act == chartActs < MaxChartActs /\ chartActs' = chartActs + 1

\* fetchRules was answered.
HitsAnswer ==
  /\ hits' \in [1 .. BarRules -> -1 .. MaxHits] /\ hits' # hits
  /\ UNCHANGED <<wsData, history, chartActs>> /\ Redrawn({"hits"})

\* Going to a page or back: onMounted draws, and nothing is paused any more.
onMounted ==
  /\ Act
  /\ \E c \in Charts :
       /\ ~chart[c].mounted /\ Now(c) # <<>>
       /\ chart' = [chart EXCEPT ![c] = [Unmounted EXCEPT !.mounted = TRUE, !.drawn = Now(c)]]
  /\ UNCHANGED <<wsData, history, hits>>

onUnmounted ==
  /\ Act
  /\ \E c \in Charts : chart[c].mounted /\ chart' = [chart EXCEPT ![c] = Unmounted]
  /\ UNCHANGED <<wsData, history, hits>>

\* Going on draws nothing: the next change does.
Pause ==
  /\ Act
  /\ \E c \in Charts : chart[c].mounted /\ chart' = [chart EXCEPT ![c].isPaused = ~@]
  /\ UNCHANGED <<wsData, history, hits>>

OverviewChartsNext ==
  \/ \E f \in Feeds : Message(f) \/ SampleShown(f)
  \/ NoMemory \/ HitsAnswer \/ onMounted \/ onUnmounted \/ Pause

OverviewChartsSpec == OverviewChartsInit /\ [][OverviewChartsNext]_chartsVars

-----------------------------------------------------------------------------
OverviewChartsTypeOK ==
  /\ \A f \in Feeds : wsData[f].sent \in 0 .. MaxMessages /\ wsData[f].waiting \in 0 .. MaxMessages
  /\ \A h \in Histories : history[h] \in Seq(0 .. MaxMessages) /\ Len(history[h]) = TimeSaved
  /\ hits \in [1 .. BarRules -> -1 .. MaxHits]
  /\ \A c \in Charts : chart[c].mounted \in BOOLEAN /\ chart[c].isPaused \in BOOLEAN
                       /\ chart[c].late \in BOOLEAN
  /\ chartActs \in 0 .. MaxChartActs

\* Whatever bursts lose and pauses hold back: a history is in order and reaches up to the last
\* message that was shown, the numbers of connections stand at the times of the memory's, and a
\* chart that is neither paused nor has missed a change shows its history, or the bars, as they
\* are now (overview.ts:26-80, BasicCharts.vue:182-186, RuleHitCountChart.vue:228-244).
HistoriesShown ==
  /\ \A h \in Histories : \A i \in 1 .. TimeSaved - 1 :
       history[h][i] < history[h][i + 1] \/ history[h][i] = 0
  /\ wsData["traffic"].waiting = 0 => history["speedHistory"][TimeSaved] = wsData["traffic"].sent
  /\ history["memoryHistory"] = history["connectionsHistory"]
  /\ \A c \in Charts : chart[c].mounted /\ ~chart[c].late => chart[c].drawn = Now(c)

\* And the bars are those of the rules with most hits (RuleHitCountChart.vue:92-108).
ChartsFollow ==
  /\ HistoriesShown
  /\ LET drawn == {b[1] : b \in Range(chart["hits"].drawn)}
     IN  chart["hits"].mounted /\ ~chart["hits"].late =>
           \A r \in drawn, s \in (1 .. BarRules) \ drawn : hits[r] >= hits[s]
=============================================================================
