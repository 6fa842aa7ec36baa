---------------------------- MODULE PanelLogs ----------------------------
(***************************************************************************)
(* The kernel's log in the panel (zashboard/src/store/logs.ts, the         *)
(* controls and the list of its page): a web socket delivers lines at or   *)
(* above a level, the store numbers them and collects them, and a          *)
(* throttled call moves what was collected to the list.                    *)
(***************************************************************************)
EXTENDS Integers, Sequences

CONSTANTS
  Levels,      \* levels of log lines, numbers: a higher one is graver
  Hidden,      \* the levels the expression of hideLogRegex matches
  Retentions,  \* what the field of the retention may hold; emptied, it counts as 0
  MaxLines,    \* bound: lines the kernel writes
  MaxLogActs   \* bound: what the user does and connections lost, together

\* What the constants are: assumed where they get their values.
PanelLogsAssumption ==
  /\ Levels # {} /\ Levels \subseteq Nat \ {0} /\ Hidden \subseteq Levels
  /\ Retentions # {} /\ Retentions \subseteq Nat
  /\ MaxLines \in Nat /\ MaxLogActs \in Nat

VARIABLES
  lines,      \* the kernel: how many lines it has written
  connected,  \* the socket is open
  wire,       \* sent to the page, not yet handled
  logLevel, logRetentionLimit, panelPaused,
  logTypeFilter, logFilterEnabled,   \* filters of the page: a level (0: none), hide the Hidden
  nextSeq,    \* idx
  logsTemp,   \* collected, newest first
  panelLogs,  \* logs, newest first
  throttled,  \* a call of sliceLogs waits for its timer
  arrived,    \* history: how many lines this socket has delivered
  taken,      \* history: those the page took, by their number there, newest first
  logActs     \* counter of the bound

logStoreVars == <<nextSeq, logsTemp, panelLogs, throttled, arrived, taken>>
ctrlVars == <<logLevel, logRetentionLimit, panelPaused, logTypeFilter, logFilterEnabled>>
panelLogsVars == <<lines, connected, wire, logStoreVars, ctrlVars, logActs>>

\* HomePage has called initLogs.
PanelLogsInit ==
  /\ lines = 0 /\ connected = FALSE /\ wire = <<>>
  /\ logLevel \in Levels /\ logRetentionLimit \in Retentions /\ panelPaused = FALSE
  /\ logTypeFilter = 0 /\ logFilterEnabled \in BOOLEAN
  /\ nextSeq = 1 /\ logsTemp = <<>> /\ panelLogs = <<>> /\ throttled = FALSE
  /\ arrived = 0 /\ taken = <<>>
  /\ logActs = 0

LogAct == logActs < MaxLogActs /\ logActs' = logActs + 1

-----------------------------------------------------------------------------
\* The kernel writes a line and sends it to an open socket that asked for its level.
Writes ==
  /\ lines < MaxLines
  /\ lines' = lines + 1
  /\ \E v \in Levels :
       wire' = IF connected /\ v >= logLevel THEN Append(wire, [no |-> lines + 1, level |-> v])
               ELSE wire
  /\ UNCHANGED <<connected, logStoreVars, ctrlVars, logActs>>

\* The web socket opens, for the first time or again; what was written meanwhile is not sent.
SocketOpens ==
  /\ ~connected /\ connected' = TRUE
  /\ UNCHANGED <<lines, wire, logStoreVars, ctrlVars, logActs>>

Breaks ==
  /\ connected /\ connected' = FALSE
  /\ LogAct
  /\ wire' = <<>>
  /\ UNCHANGED <<lines, logStoreVars, ctrlVars>>

-----------------------------------------------------------------------------
\* The body of sliceLogs: what was collected goes before the list, which is cut.
sliceLogs(temp) ==
  LET all == temp \o panelLogs
      kept == IF Len(all) < logRetentionLimit THEN Len(all) ELSE logRetentionLimit
  IN  panelLogs' = SubSeq(all, 1, kept) /\ logsTemp' = <<>> /\ throttled' = FALSE

\* The next message.  While the page is paused it only takes a number; else the throttled
\* call runs at once or waits for its timer.
LineArrives ==
  /\ wire # <<>> /\ wire' = Tail(wire)
  /\ nextSeq' = nextSeq + 1
  /\ arrived' = arrived + 1
  /\ taken' = (IF panelPaused THEN <<>>
               ELSE <<[seq |-> arrived + 1, line |-> Head(wire)]>>) \o taken
  /\ LET temp == <<[seq |-> nextSeq, line |-> Head(wire)]>> \o logsTemp
     IN  \/ panelPaused /\ UNCHANGED <<logsTemp, panelLogs, throttled>>
         \/ ~panelPaused /\ sliceLogs(temp)
         \/ ~panelPaused /\ logsTemp' = temp /\ throttled' = TRUE /\ UNCHANGED panelLogs
  /\ UNCHANGED <<lines, connected, ctrlVars, logActs>>

\* The 500 ms of a waiting call have passed.
ThrottleEnds ==
  /\ throttled /\ sliceLogs(logsTemp)
  /\ UNCHANGED <<lines, connected, wire, nextSeq, arrived, taken, ctrlVars, logActs>>

-----------------------------------------------------------------------------
\* initLogs: the old socket is closed and no longer watched, both lists are emptied, and a new
\* socket starts; a waiting call of sliceLogs stays.
initLogs ==
  /\ panelLogs' = <<>> /\ logsTemp' = <<>> /\ nextSeq' = 1
  /\ connected' = FALSE /\ wire' = <<>>
  /\ arrived' = 0 /\ taken' = <<>>
  /\ UNCHANGED throttled

SetLevel ==
  /\ LogAct
  /\ logLevel' \in Levels \ {logLevel}
  /\ initLogs
  /\ UNCHANGED <<lines, logRetentionLimit, panelPaused, logTypeFilter, logFilterEnabled>>

\* The list is cut to a new limit when it next changes.
SetRetention ==
  /\ LogAct
  /\ logRetentionLimit' \in Retentions \ {logRetentionLimit}
  /\ UNCHANGED <<lines, connected, wire, logStoreVars, logLevel, panelPaused, logTypeFilter,
                 logFilterEnabled>>

TogglePause ==
  /\ LogAct
  /\ panelPaused' = ~panelPaused
  /\ UNCHANGED <<lines, connected, wire, logStoreVars, logLevel, logRetentionLimit, logTypeFilter,
                 logFilterEnabled>>

\* The clear button empties the list, not what was collected.
ClearLogs ==
  /\ LogAct
  /\ panelLogs' = <<>>
  /\ UNCHANGED <<lines, connected, wire, nextSeq, logsTemp, throttled, arrived, taken, ctrlVars>>

\* logFilterOptions: the levels found on the list.
FilterOptions == {panelLogs[k].line.level : k \in DOMAIN panelLogs}

Filter ==
  /\ LogAct
  /\ logTypeFilter' \in (FilterOptions \union {0}) \ {logTypeFilter}
  /\ UNCHANGED <<lines, connected, wire, logStoreVars, logLevel, logRetentionLimit, panelPaused,
                 logFilterEnabled>>

ToggleHidden ==
  /\ LogAct
  /\ logFilterEnabled' = ~logFilterEnabled
  /\ UNCHANGED <<lines, connected, wire, logStoreVars, logLevel, logRetentionLimit, panelPaused,
                 logTypeFilter>>

PanelLogsNext ==
  \/ Writes \/ SocketOpens \/ Breaks \/ LineArrives \/ ThrottleEnds
  \/ SetLevel \/ SetRetention \/ TogglePause \/ ClearLogs \/ Filter \/ ToggleHidden

PanelLogsSpec == PanelLogsInit /\ [][PanelLogsNext]_panelLogsVars

-----------------------------------------------------------------------------
\* renderLogs: the places on the list of what the page shows, in their order.
renderLogs ==
  {k \in DOMAIN panelLogs :
    /\ logTypeFilter = 0 \/ panelLogs[k].line.level = logTypeFilter
    /\ ~(logFilterEnabled /\ panelLogs[k].line.level \in Hidden)}

LogEntry == [seq : 1 .. MaxLines, line : [no : 1 .. MaxLines, level : Levels]]

(* The type of the page. *)
PanelLogsTypeOK ==
  /\ lines \in 0 .. MaxLines /\ connected \in BOOLEAN /\ throttled \in BOOLEAN
  /\ wire \in Seq([no : 1 .. MaxLines, level : Levels])
  /\ logLevel \in Levels /\ logRetentionLimit \in Retentions /\ panelPaused \in BOOLEAN
  /\ logTypeFilter \in Levels \union {0} /\ logFilterEnabled \in BOOLEAN
  /\ nextSeq \in 1 .. MaxLines + 1
  /\ logsTemp \in Seq(LogEntry) /\ panelLogs \in Seq(LogEntry)
  /\ arrived \in 0 .. MaxLines /\ taken \in Seq(LogEntry)
  /\ logActs \in 0 .. MaxLogActs

(* Collected and listed lines together are the newest ones the page took from the present     *)
(* socket, in order, without a gap and with their numbers there, through pauses, lost         *)
(* connections, clears, new limits and the throttled call of an old socket (logs.ts:22-90);   *)
(* so no line below the chosen level is shown.                                                *)
InOrder ==
  LET all == logsTemp \o panelLogs
  IN  /\ Len(all) <= Len(taken) /\ \A k \in DOMAIN all : all[k] = taken[k]
      /\ \A k \in renderLogs : panelLogs[k].line.level >= logLevel
=============================================================================
