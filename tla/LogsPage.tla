------------------------------ MODULE LogsPage ------------------------------
(***************************************************************************)
(* The system log page (web/features/logs/components/logs-page.tsx): a     *)
(* query of the newest entries of a classification, and polls, by timer    *)
(* and by hand, of the entries after the last one shown.  The server keeps *)
(* the entries in a table (internal/model/app_log.go), numbered as they    *)
(* are written.                                                            *)
(*                                                                         *)
(* The timer and the button have at most one poll in flight each.  Every   *)
(* list of entries is kept in the order of their ids, and is the set of    *)
(* them here.                                                              *)
(***************************************************************************)
EXTENDS QueryCache, FiniteSetsExt

CONSTANTS
  Classes,   \* classifications of entries
  AnyClass,  \* the filter that takes all of them
  Limit,     \* entries of one answer
  MaxEntries, MaxTurns  \* bounds: entries written, and clicks on the page

Filters == Classes \union {AnyClass}
Askers == {"timer", "button"}

\* What the constants are: assumed where they get their values.
LogsPageAssumption ==
  /\ AnyClass \notin Classes
  /\ MaxEntries \in Nat /\ Limit \in 1 .. MaxEntries /\ MaxTurns \in Nat

VARIABLES
  written,   \* the classes of the entries in the table, by id
  class,     \* the filter
  recent,    \* the cached queries, by filter
  logs,      \* ids of the entries shown
  paused,    \* isPaused: no timer
  polls,     \* by asker, the poll in flight; late: the list is not the one it continues
  mixed,     \* history: a late poll, or one started with no entries, was merged into entries
  turns      \* counter of the bound

logsVars == <<written, class, recent, logs, paused, polls, mixed, turns>>
NoPoll == [phase |-> "idle", class |-> AnyClass, after |-> 0, answer |-> {}, late |-> FALSE]

Of(c) == {i \in DOMAIN written : c \in {AnyClass, written[i]}}

\* GetRecentAppLogs: the newest entries.
Recent(c) == {i \in Of(c) : Cardinality({j \in Of(c) : i < j}) < Limit}

\* Mutant: what follows an entry is the newest entries too.
After_Newest(c, id) == {i \in Recent(c) : id < i}

\* GetAppLogsAfterID: the oldest entries after one.
After(c, id) == {i \in Of(c) : id < i /\ Cardinality({j \in Of(c) : id < j /\ j < i}) < Limit}

LogsInit ==
  /\ written \in UNION {[1 .. n -> Classes] : n \in 0 .. Limit}
  /\ class = AnyClass
  /\ recent = [f \in Filters |-> IF f = class THEN Fresh ELSE Unasked]
  /\ logs = {} /\ paused = FALSE
  /\ polls = [a \in Askers |-> NoPoll] /\ mixed = FALSE /\ turns = 0

LastLogId == IF logs = {} THEN 0 ELSE Max(logs)
Ready == recent[class].data # <<>>
Turn == turns < MaxTurns /\ turns' = turns + 1

AppLogPush ==
  /\ Len(written) < MaxEntries /\ \E c \in Classes : written' = Append(written, c)
  /\ UNCHANGED <<class, recent, logs, paused, polls, mixed, turns>>

-----------------------------------------------------------------------------
\* The list is replaced by the data of a query; polls under way continue another list.
Replaced(data) ==
  /\ logs' = data /\ mixed' = FALSE
  /\ polls' = [a \in Askers |-> [polls[a] EXCEPT !.late = polls[a].phase # "idle"]]

RecentRead(f) ==
  /\ recent[f].phase = "sent" /\ recent' = [recent EXCEPT ![f] = Read(@, Recent(f))]
  /\ UNCHANGED <<written, class, logs, paused, polls, mixed, turns>>

RecentAnswer(f) ==
  /\ recent[f].phase = "read" /\ recent' = [recent EXCEPT ![f] = Answered(@)]
  /\ IF f = class /\ recent[f].answer # recent[f].data
     THEN Replaced(recent[f].answer[1]) ELSE UNCHANGED <<logs, polls, mixed>>
  /\ UNCHANGED <<written, class, paused, turns>>

RecentFails(f) ==
  /\ recent[f].phase # "idle" /\ recent' = [recent EXCEPT ![f] = Failed(@)]
  /\ UNCHANGED <<written, class, logs, paused, polls, mixed, turns>>

\* Another filter: its cached data replace the list, which otherwise stays until the answer.
setClassification ==
  /\ Turn /\ Ready
  /\ \E f \in Filters \ {class} :
       /\ class' = f
       /\ \E old \in BOOLEAN :
            recent' = IF recent[f].data = <<>> \/ old
                      THEN [recent EXCEPT ![f] = Fetch(@)] ELSE recent
       /\ IF recent[f].data = <<>>
          THEN /\ mixed' = TRUE
               /\ polls' = [a \in Askers |-> [polls[a] EXCEPT !.late = polls[a].phase # "idle"]]
               /\ UNCHANGED logs
          ELSE Replaced(recent[f].data[1])
  /\ UNCHANGED <<written, paused>>

setIsPaused ==
  /\ Turn /\ Ready /\ paused' = ~paused
  /\ UNCHANGED <<written, class, recent, logs, polls, mixed>>

-----------------------------------------------------------------------------
\* Polls name the filter and the last entry of the moment they start.
Poll(a) ==
  /\ polls[a].phase = "idle"
  /\ polls' = [polls EXCEPT ![a] =
       [NoPoll EXCEPT !.phase = "sent", !.class = class, !.after = LastLogId]]
  /\ UNCHANGED <<written, class, recent, logs, paused, mixed>>

TimerPoll == ~paused /\ Poll("timer") /\ UNCHANGED turns
handleManualRefresh == Turn /\ Ready /\ Poll("button")

getLogs(a) ==
  /\ polls[a].phase = "sent"
  /\ LET p == polls[a]
     IN  polls' = [polls EXCEPT ![a].phase = "read", ![a].answer =
                     IF p.after > 0 THEN After(p.class, p.after) ELSE Recent(p.class)]
  /\ UNCHANGED <<written, class, recent, logs, paused, mixed, turns>>

\* Entries that are not there yet are added, and the list is sorted.
mergeLogs(existing, incoming) == existing \union incoming

PollAnswer(a) ==
  /\ polls[a].phase = "read" /\ polls' = [polls EXCEPT ![a] = NoPoll]
  /\ logs' = mergeLogs(logs, polls[a].answer)
  /\ mixed' = (mixed \/ polls[a].late \/ (polls[a].after = 0 /\ logs # {}))
  /\ UNCHANGED <<written, class, recent, paused, turns>>

\* A failed poll changes nothing; the button reports it.
PollFails(a) ==
  /\ polls[a].phase # "idle" /\ polls' = [polls EXCEPT ![a] = NoPoll]
  /\ UNCHANGED <<written, class, recent, logs, paused, mixed, turns>>

LogsNext ==
  \/ AppLogPush \/ setClassification \/ setIsPaused \/ TimerPoll \/ handleManualRefresh
  \/ \E f \in Filters : RecentRead(f) \/ RecentAnswer(f) \/ RecentFails(f)
  \/ \E a \in Askers : getLogs(a) \/ PollAnswer(a) \/ PollFails(a)

LogsSpec == LogsInit /\ [][LogsNext]_logsVars

-----------------------------------------------------------------------------
LogsTypeOK ==
  /\ written \in Seq(Classes) /\ Len(written) <= MaxEntries
  /\ class \in Filters /\ paused \in BOOLEAN /\ mixed \in BOOLEAN
  /\ logs \subseteq DOMAIN written /\ turns \in 0 .. MaxTurns
  /\ \A f \in Filters : IsQueryOf(recent[f], SUBSET (1 .. MaxEntries))
  /\ \A a \in Askers :
       /\ polls[a].phase \in {"idle", "sent", "read"} /\ polls[a].class \in Filters
       /\ polls[a].after \in 0 .. MaxEntries /\ polls[a].answer \subseteq 1 .. MaxEntries

\* The list is the table from its first entry to its last, with no entry of the filter
\* missing and none of another class, although the timer and the button poll at once and
\* answers are limited; only a poll started for another or an empty list can spoil it
\* (logs-page.tsx:34-48, 70-91, 102-119, model/app_log.go:56-68).
NoGap ==
  ~mixed => /\ logs \subseteq Of(class)
            /\ \A a, b \in logs, i \in Of(class) : a <= i /\ i <= b => i \in logs
=============================================================================
