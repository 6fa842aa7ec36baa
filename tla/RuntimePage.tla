---------------------------- MODULE RuntimePage ----------------------------
(***************************************************************************)
(* The runtime page (web/features/runtime/components/runtime-page.tsx)     *)
(* against the log ring and the status of the server                       *)
(* (internal/service/runtime.go).                                          *)
(*                                                                         *)
(* The page keeps a status query and a panel of log entries.  Entries      *)
(* reach the panel by three requests whose answers arrive in any order:    *)
(* the query of the mount, a timer that asks for what follows the last     *)
(* entry shown, and a reload of the list after a successful start.  An     *)
(* entry is its number.  Module Runtime has the server's handlers; here    *)
(* they succeed, fail, or succeed with their answer lost.                  *)
(***************************************************************************)
EXTENDS Integers, SequencesExt, QueryCache

CONSTANTS
  RingLimit,   \* entries the server keeps: 400
  PageLimit,   \* entries in one answer: 100
  PanelLimit,  \* entries the panel keeps: 300
  Supported,   \* what the kernel's capability supports, of start and reload
  Pollers,     \* timer requests that may be in flight together
  MaxSeq,      \* bound: entries ever written
  MaxClicks,   \* bound: clicks on start, reload and stop
  MaxOutside   \* bound: changes of the kernel that this page did not ask for

\* What the constants are: assumed where they get their values.
RuntimePageAssumption ==
  /\ RingLimit \in Nat \ {0} /\ PageLimit \in Nat \ {0} /\ PanelLimit \in Nat \ {0}
  /\ MaxSeq \in Nat /\ MaxClicks \in Nat /\ MaxOutside \in Nat

VARIABLES
  logSeq,    \* number of the newest entry of the server's ring
  kernelUp,  \* whether the server reports a running kernel
  statusQ,   \* the status query
  panel,     \* logs: the entries shown
  asks,      \* requests for entries, by who asks
  auto,      \* autoRefresh
  jobs,      \* what became of each button's mutation
  feedback,  \* tone of the message shown
  clicks, outside,  \* counters of the bounds
  unseen,    \* history: the kernel changed and the page was not told
  overtaken, \* history: polls whose list was cleared, replaced, cut or begun after they asked
  patched    \* history: the list has the entries of an overtaken poll, or of one whose next
             \* entries the ring had dropped

logVars == <<panel, overtaken, patched>>
runtimeVars ==
  <<logSeq, kernelUp, statusQ, asks, auto, jobs, feedback, clicks, outside, unseen, logVars>>

Buttons == {"start", "reload", "stop"}
Askers == Pollers \union {"mount", "restart"}
NotAsking == [phase |-> "idle", after |-> 0, items |-> <<>>]

\* attachLogWriter and appendLog: the newest RingLimit entries, in order of their numbers.
Ring == [i \in 1 .. (IF logSeq < RingLimit THEN logSeq ELSE RingLimit) |->
           i + (IF logSeq < RingLimit THEN 0 ELSE logSeq - RingLimit)]

\* GetRuntimeLogs: the first PageLimit entries after a number.
EntriesAfter(n) ==
  LET later == SelectSeq(Ring, LAMBDA e : e > n)
  IN  SubSeq(later, 1, IF Len(later) < PageLimit THEN Len(later) ELSE PageLimit)

Newest(s, n) == SubSeq(s, (IF Len(s) > n THEN Len(s) - n ELSE 0) + 1, Len(s))

Added(existing, incoming) ==
  existing \o SelectSeq(incoming, LAMBDA e : e \notin ToSet(existing))

MergeLogs(existing, incoming) ==
  IF incoming = <<>> THEN existing ELSE Newest(Added(existing, incoming), PanelLimit)

LastSeq == IF panel = <<>> THEN 0 ELSE Last(panel)
Ask(after) == [phase |-> "sent", after |-> after, items |-> <<>>]

RuntimeInit ==
  /\ logSeq = 0 /\ kernelUp = FALSE
  /\ statusQ = Fresh /\ panel = <<>> /\ auto = TRUE
  /\ asks = [a \in Askers |-> IF a = "mount" THEN Ask(0) ELSE NotAsking]
  /\ jobs = [b \in Buttons |-> "idle"] /\ feedback = "none"
  /\ clicks = 0 /\ outside = 0 /\ unseen = FALSE /\ overtaken = {} /\ patched = FALSE

-----------------------------------------------------------------------------
\* The server: the kernel writes an entry; it exits or is started elsewhere.
Log ==
  /\ logSeq < MaxSeq
  /\ logSeq' = logSeq + 1
  /\ UNCHANGED <<kernelUp, statusQ, asks, auto, jobs, feedback, clicks, outside, unseen, logVars>>

ChangedElsewhere ==
  /\ outside < MaxOutside
  /\ outside' = outside + 1 /\ kernelUp' = ~kernelUp /\ unseen' = TRUE
  /\ UNCHANGED <<logSeq, statusQ, asks, auto, jobs, feedback, clicks, logVars>>

\* The status query: a timer while autoRefresh is on, the server's read, the answer.
StatusUnchanged ==
  UNCHANGED <<logSeq, kernelUp, asks, auto, jobs, feedback, clicks, outside, logVars>>

StatusTimer ==
  /\ auto /\ ~Fetching(statusQ)
  /\ statusQ' = Fetch(statusQ)
  /\ StatusUnchanged /\ UNCHANGED unseen

StatusRead ==
  /\ statusQ.phase = "sent"
  /\ statusQ' = Read(statusQ, kernelUp) /\ unseen' = FALSE
  /\ StatusUnchanged

StatusAnswer ==
  /\ statusQ.phase = "read"
  /\ statusQ' = Answered(statusQ)
  /\ StatusUnchanged /\ UNCHANGED unseen

StatusFails ==
  /\ Fetching(statusQ)
  /\ statusQ' = Failed(statusQ)
  /\ StatusUnchanged /\ UNCHANGED unseen

-----------------------------------------------------------------------------
\* The log panel.
PanelUnchanged == UNCHANGED <<logSeq, kernelUp, statusQ, auto, clicks, outside, unseen>>

\* The list becomes another one, which no poll under way knew when it was asked.
Replace(items) ==
  /\ panel' = items /\ patched' = FALSE
  /\ overtaken' = {a \in Pollers : asks[a].phase # "idle"}

PollTimer(a) ==
  /\ auto /\ asks[a].phase = "idle"
  /\ asks' = [asks EXCEPT ![a] = Ask(LastSeq)]
  /\ PanelUnchanged /\ UNCHANGED <<jobs, feedback, logVars>>

LogsRead(a) ==
  /\ asks[a].phase = "sent"
  /\ asks' = [asks EXCEPT ![a].phase = "read", ![a].items = EntriesAfter(asks[a].after)]
  /\ PanelUnchanged /\ UNCHANGED <<jobs, feedback, logVars>>

\* The timer's answer is merged, whatever happened since it was asked for.  It may cut the
\* list within what another poll follows, or begin it after what another poll was answered.
PollAnswer(a) ==
  /\ asks[a].phase = "read"
  /\ panel' = MergeLogs(panel, asks[a].items)
  /\ LET items == asks[a].items
         cut == ToSet(Added(panel, items)) \ ToSet(panel')
         skips == items # <<>> /\ Head(items) > asks[a].after + 1
     IN  /\ patched' = (patched \/ (items # <<>> /\ a \in overtaken) \/ (panel # <<>> /\ skips))
         /\ overtaken' = (overtaken \ {a}) \union
              {p \in Pollers \ {a} : asks[p].phase # "idle" /\ (skips \/ \E e \in cut : e > asks[p].after)}
  /\ asks' = [asks EXCEPT ![a] = NotAsking]
  /\ PanelUnchanged /\ UNCHANGED <<jobs, feedback>>

\* The answer of the mount's query replaces what is shown.
MountAnswer ==
  /\ asks["mount"].phase = "read"
  /\ Replace(asks["mount"].items)
  /\ asks' = [asks EXCEPT !["mount"] = NotAsking]
  /\ PanelUnchanged /\ UNCHANGED <<jobs, feedback>>

LogsFail(a) ==
  /\ asks[a].phase # "idle" /\ a # "restart"
  /\ asks' = [asks EXCEPT ![a] = NotAsking]
  /\ overtaken' = overtaken \ {a}
  /\ PanelUnchanged /\ UNCHANGED <<panel, patched, jobs, feedback>>

Clear ==
  /\ panel # <<>> /\ Replace(<<>>)
  /\ PanelUnchanged /\ UNCHANGED <<asks, jobs, feedback>>

ToggleAuto ==
  /\ auto' = ~auto
  /\ UNCHANGED <<logSeq, kernelUp, statusQ, asks, jobs, feedback, clicks, outside, unseen, logVars>>

-----------------------------------------------------------------------------
\* What is on the page: nothing but a message until a status has arrived and unless the
\* last fetch failed; then the cards, the listeners and the preview, all from one answer,
\* of which the model keeps the running flag, and one row per entry of the panel.
View == IF Loading(statusQ) THEN "loading"
        ELSE IF statusQ.failed \/ statusQ.data = <<>> THEN "error" ELSE "page"
Cards == statusQ.data
ShownUp == Cards = <<TRUE>>
Rows == panel

Offered(b) ==
  /\ View = "page" /\ jobs[b] = "idle"
  /\ ShownUp = (b # "start") /\ (b = "stop" \/ b \in Supported)

Click(b) ==
  /\ clicks < MaxClicks /\ Offered(b)
  /\ jobs' = [jobs EXCEPT ![b] = "sent"]
  /\ feedback' = "none" /\ clicks' = clicks + 1
  /\ UNCHANGED <<logSeq, kernelUp, statusQ, asks, auto, outside, unseen, logVars>>

\* The server's handler runs: a start needs a stopped kernel, a reload a running one.
Handle(b) ==
  /\ jobs[b] = "sent"
  /\ \/ /\ b = "stop" \/ kernelUp = (b = "reload")
        /\ kernelUp' = (b # "stop")
        /\ jobs' = [jobs EXCEPT ![b] = "done"]
     \/ /\ kernelUp' = kernelUp
        /\ jobs' = [jobs EXCEPT ![b] = "refused"]
  /\ UNCHANGED <<logSeq, statusQ, asks, auto, feedback, clicks, outside, unseen, logVars>>

\* The answer of a success: the status query is invalidated and awaited.
JobSucceeds(b) ==
  /\ jobs[b] = "done"
  /\ jobs' = [jobs EXCEPT ![b] = "refreshing"]
  /\ feedback' = "success" /\ statusQ' = Invalidated(statusQ)
  /\ UNCHANGED <<logSeq, kernelUp, asks, auto, clicks, outside, unseen, logVars>>

\* The answer of a failure, or no answer at all: nothing is fetched again.
JobFails(b) ==
  /\ \/ jobs[b] = "refused" /\ UNCHANGED unseen
     \/ jobs[b] = "done" /\ unseen' = TRUE
  /\ jobs' = [jobs EXCEPT ![b] = "idle"]
  /\ feedback' = "danger"
  /\ UNCHANGED <<logSeq, kernelUp, statusQ, asks, auto, clicks, outside, logVars>>

\* The awaited fetch has ended or was dropped for a later one; a start then asks for the
\* first entries and replaces the list by them.
JobRefreshed(b) ==
  /\ jobs[b] = "refreshing"
  /\ ~Fetching(statusQ) \/ \E c \in Buttons \ {b} : jobs[c] = "refreshing"
  /\ IF b = "start"
     THEN /\ asks' = [asks EXCEPT !["restart"] = Ask(0)]
          /\ jobs' = [jobs EXCEPT ![b] = "relisting"]
     ELSE /\ jobs' = [jobs EXCEPT ![b] = "idle"] /\ UNCHANGED asks
  /\ UNCHANGED <<feedback, logVars>> /\ PanelUnchanged

\* A relisting that fails turns the message of the successful start into an error.
Relisted ==
  /\ jobs["start"] = "relisting"
  /\ \/ /\ asks["restart"].phase = "read"
        /\ Replace(asks["restart"].items) /\ UNCHANGED feedback
     \/ feedback' = "danger" /\ UNCHANGED logVars
  /\ asks' = [asks EXCEPT !["restart"] = NotAsking]
  /\ jobs' = [jobs EXCEPT !["start"] = "idle"]
  /\ PanelUnchanged

RuntimeNext ==
  \/ Log \/ ChangedElsewhere
  \/ StatusTimer \/ StatusRead \/ StatusAnswer \/ StatusFails
  \/ \E a \in Pollers : PollTimer(a) \/ PollAnswer(a)
  \/ \E a \in Askers : LogsRead(a) \/ LogsFail(a)
  \/ MountAnswer \/ Clear \/ ToggleAuto
  \/ \E b \in Buttons :
       Click(b) \/ Handle(b) \/ JobSucceeds(b) \/ JobFails(b) \/ JobRefreshed(b)
  \/ Relisted

RuntimeSpec == RuntimeInit /\ [][RuntimeNext]_runtimeVars

-----------------------------------------------------------------------------
RuntimeTypeOK ==
  /\ logSeq \in 0 .. MaxSeq /\ kernelUp \in BOOLEAN /\ IsQueryOf(statusQ, BOOLEAN)
  /\ panel \in Seq(1 .. MaxSeq) /\ auto \in BOOLEAN /\ unseen \in BOOLEAN
  /\ asks \in [Askers -> [phase : Phases, after : 0 .. MaxSeq, items : Seq(1 .. MaxSeq)]]
  /\ jobs \in [Buttons -> {"idle", "sent", "done", "refused", "refreshing", "relisting"}]
  /\ feedback \in {"none", "success", "danger"}
  /\ clicks \in 0 .. MaxClicks /\ outside \in 0 .. MaxOutside
  /\ overtaken \subseteq Pollers /\ patched \in BOOLEAN

\* The list is a piece of the kernel's log: in order, without a gap and no entry twice,
\* however polls overlap each other, answers are limited and the list is cut.  The code has
\* two exceptions, both until the list is cleared or replaced: the answer of a poll that was
\* asked before the list was cleared, replaced (by the mount's answer, or the relisting of a
\* start, which brings the oldest entries back) or cut is merged all the same, and the ring may
\* have dropped what a poll asked for (runtime-page.tsx:53-65, 98-113, runtime.go:319-339).
LogsInOrder ==
  ~patched => \A i \in 1 .. Len(Rows) - 1 : Rows[i + 1] = Rows[i] + 1

\* With automatic refresh paused, an action of this page that was answered with success is
\* shown once its buttons are free again: a status that was read before the action and
\* arrives after it never stays (runtime-page.tsx:121-154).
StatusFresh ==
  (\A b \in Buttons : jobs[b] = "idle") /\ View = "page" /\ ~Fetching(statusQ) /\ ~unseen
    => ShownUp = kernelUp
=============================================================================
