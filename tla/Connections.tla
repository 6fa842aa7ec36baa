---------------------------- MODULE Connections ----------------------------
(***************************************************************************)
(* The connections page of the panel and the traffic history it keeps      *)
(* (zashboard/src/store/connections.ts, store/connHistory.ts,              *)
(* helper/indexeddb.ts, components/overview/ConnectionHistory.vue).        *)
(*                                                                         *)
(* The kernel reports the open connections again and again; one that is    *)
(* missing from a report has closed and is added to the history, once for  *)
(* each way the history is grouped.  Every list is kept in memory, in the  *)
(* tab's cache of the database and in the database itself; saving, loading *)
(* and clearing are asynchronous and overlap.                              *)
(***************************************************************************)
EXTENDS Integers, SequencesExt

CONSTANTS
  Conns,        \* connections the kernel may open, each once
  Types,        \* allHistoryTypes, in their order
  KeyOf,        \* KeyOf[t][c]: the key a connection is counted under
  IdleUDP,      \* the connections autoDisconnectIdleUDP finds idle
  ClosedLimit,  \* 500: closed connections that are listed
  RowLimit,     \* 2000: rows above which a loaded list is cut
  RowsKept,     \* 1500: rows a cut list keeps
  MaxConnActs   \* bound: what the user does and what goes wrong, together

\* What the constants are: assumed where they get their values.
ConnectionsAssumption ==
  /\ IsFiniteSet(Conns) /\ IdleUDP \subseteq Conns
  /\ Types \in Seq(STRING) \ {<<>>} /\ IsInjective(Types) /\ "done" \notin ToSet(Types)
  /\ KeyOf \in [ToSet(Types) -> [Conns -> STRING]]
  /\ ClosedLimit \in Nat /\ RowLimit \in Nat /\ RowsKept \in 1 .. RowLimit /\ MaxConnActs \in Nat

VARIABLES
  live, opened,    \* the kernel: connections open now, and opened so far
  active, closed,  \* activeConnections, closedConnections
  previous,        \* previousConnectionsMap
  first,           \* watchOnce(activeConnections) still waits
  isPaused, connTab, hidden,  \* the controls: pause, the list shown, what the filters hide
  opening,         \* dbPromise is pending
  memory,          \* aggregatedDataMap: type -> key -> number of connections
  cache,           \* cacheMap of this tab
  objectStore,     \* the rows in the database
  transactions,    \* writes the database has not finished, in order
  loading,         \* initAggregatedDataMap: the type it waits for, or "done"
  saving,          \* saveConnectionHistory: the connections and the type of each call
  showDialog, clearing,   \* the clear dialog, and who waits for a clear
  due,             \* the interval of the automatic cleanup has passed
  counted,         \* history: the closed connections each type should count
  excused,         \* history: a clear or a reload met a save, or a write failed
  connActs         \* counter of the bound

kernelVars == <<live, opened>>
listVars == <<active, closed, previous, first>>
controlVars == <<isPaused, connTab, hidden>>
storeVars == <<opening, memory, cache, objectStore, transactions, loading, saving>>
cleanVars == <<showDialog, clearing, due>>
ghostVars == <<counted, excused>>
connVars == <<kernelVars, listVars, controlVars, storeVars, cleanVars, ghostVars, connActs>>

TypeSet == ToSet(Types)
KeysOf(t) == {KeyOf[t][c] : c \in Conns}
NoRows == [t \in TypeSet |-> [k \in KeysOf(t) |-> 0]]
RowsOf(list) == {k \in DOMAIN list : list[k] > 0}

\* initConnections, on loading the page with the stored history.
ConnectionsInit ==
  /\ live = {} /\ opened = {}
  /\ active = {} /\ closed = <<>> /\ previous = {} /\ first = TRUE
  /\ isPaused = FALSE /\ connTab = "active" /\ hidden = {}
  /\ opening = TRUE /\ memory = NoRows /\ cache = NoRows /\ objectStore = NoRows
  /\ transactions = <<>> /\ loading = Types[1] /\ saving = {}
  /\ showDialog = FALSE /\ clearing = {} /\ due = FALSE
  /\ counted = [t \in TypeSet |-> {}] /\ excused = FALSE
  /\ connActs = 0

ConnAct == connActs < MaxConnActs /\ connActs' = connActs + 1

-----------------------------------------------------------------------------
\* The kernel.
Opens ==
  /\ \E c \in Conns \ opened : opened' = opened \union {c} /\ live' = live \union {c}
  /\ UNCHANGED <<listVars, controlVars, storeVars, cleanVars, ghostVars, connActs>>

Closes ==
  /\ \E c \in live : live' = live \ {c}
  /\ UNCHANGED <<opened, listVars, controlVars, storeVars, cleanVars, ghostVars, connActs>>

-----------------------------------------------------------------------------
\* The history of closed connections.
aggregateConnections(conns, t) ==
  [k \in KeysOf(t) |-> Cardinality({c \in conns : KeyOf[t][c] = k})]

mergeAggregatedData(historical, newData) ==
  [k \in DOMAIN historical |-> historical[k] + newData[k]]

\* put: the cache at once, the database when its transaction ends.
Write(queue, kind, t, list, conns) ==
  Append(queue, [kind |-> kind, of |-> t, list |-> list, conns |-> conns])

\* Lists that were cut: which rows are the largest is not followed.
Cuts(list) ==
  {[k \in DOMAIN list |-> IF k \in kept THEN list[k] ELSE 0] :
     kept \in kSubset(RowsKept, RowsOf(list))}

Index(t) == CHOOSE i \in DOMAIN Types : Types[i] = t
After(t) == IF t = Last(Types) THEN "done" ELSE Types[Index(t) + 1]
From(t) == IF t = "done" THEN {} ELSE {u \in TypeSet : Index(u) >= Index(t)}

\* The loop of initAggregatedDataMap from type t on: it stops at the first list to be cut,
\* whose write it awaits.
Load(t, mem, stored, queue) ==
  LET long == {u \in From(t) : Cardinality(RowsOf(stored[u])) > RowLimit}
      at == IF long = {} THEN "done" ELSE CHOOSE u \in long : long \subseteq From(u)
  IN  /\ memory' = [u \in TypeSet |-> IF u \in From(t) \ From(at) THEN stored[u] ELSE mem[u]]
      /\ loading' = at
      /\ IF at = "done"
         THEN cache' = stored /\ transactions' = queue /\ UNCHANGED counted
         ELSE \E cut \in Cuts(stored[at]) :
                /\ cache' = [stored EXCEPT ![at] = cut]
                /\ transactions' = Write(queue, "load", at, cut, {})
                /\ counted' = [counted EXCEPT ![at] =
                     {c \in @ : cut[KeyOf[at][c]] > 0 \/ \E s \in saving : c \in s.conns}]

\* The database is open: its content is the cache, and the loop that waited for it goes on.
DatabaseOpens ==
  /\ opening /\ opening' = FALSE
  /\ Load(loading, memory, objectStore, transactions)
  /\ UNCHANGED <<kernelVars, listVars, controlVars, objectStore, saving, cleanVars, excused, connActs>>

\* saveConnectionHistory: it awaits the load once, then merges and stores one type after another.
Merge(s) ==
  /\ LET merged == mergeAggregatedData(memory[s.at], aggregateConnections(s.conns, s.at))
     IN  /\ memory' = [memory EXCEPT ![s.at] = merged]
         /\ cache' = [cache EXCEPT ![s.at] = merged]
         /\ transactions' = Write(transactions, "save", s.at, merged, s.conns)
  /\ saving' = (saving \ {s}) \union {[s EXCEPT !.waits = TRUE]}
  /\ excused' = (excused \/ clearing # {})
  /\ UNCHANGED <<kernelVars, listVars, controlVars, opening, objectStore, loading, cleanVars, counted, connActs>>

\* Mutant: the stored history is not awaited.
SaveStep_NoWait(s) == ~s.waits /\ Merge(s)

SaveStep(s) == ~s.waits /\ (s.at = Types[1] => loading = "done") /\ Merge(s)

-----------------------------------------------------------------------------
\* The first transaction ends, and whoever waits for it goes on.
Ends(kind) == transactions # <<>> /\ transactions[1].kind = kind

\* The next type of a save.
SaveGoesOn ==
  LET s == CHOOSE x \in saving : x.conns = transactions[1].conns
      next == After(s.at)
  IN  /\ saving' = (saving \ {s}) \union
                     (IF next = "done" THEN {} ELSE {[s EXCEPT !.at = next, !.waits = FALSE]})
      /\ transactions' = Tail(transactions)
      /\ UNCHANGED <<kernelVars, listVars, controlVars, opening, memory, cache, loading,
                     cleanVars, counted>>

SaveStored ==
  /\ Ends("save") /\ SaveGoesOn
  /\ objectStore' = [objectStore EXCEPT ![transactions[1].of] = transactions[1].list]
  /\ UNCHANGED <<excused, connActs>>

\* A cut list is assigned once it is stored.
CutStored ==
  LET t == transactions[1].of
      cut == transactions[1].list
  IN  /\ Ends("load") /\ objectStore' = [objectStore EXCEPT ![t] = cut]
      /\ Load(After(t), [memory EXCEPT ![t] = cut], cache, Tail(transactions))
      /\ UNCHANGED <<kernelVars, listVars, controlVars, opening, saving, cleanVars, excused, connActs>>

\* After a clear the map starts anew; one load at a time is a bound of the instance.
ClearStored ==
  /\ Ends("clear") /\ loading = "done" /\ objectStore' = NoRows
  /\ Load(Types[1], NoRows, cache, Tail(transactions))
  /\ clearing' = clearing \ {transactions[1].of} /\ due' = FALSE
  /\ showDialog' = (showDialog /\ transactions[1].of # "click")
  /\ UNCHANGED <<kernelVars, listVars, controlVars, opening, saving, excused, connActs>>

\* A failed save is only logged; a failed clear leaves the dialog; a failed cut never ends.
WriteFails ==
  /\ ConnAct /\ excused' = TRUE /\ UNCHANGED objectStore
  /\ \/ Ends("save") /\ SaveGoesOn
     \/ /\ Ends("load") \/ Ends("clear")
        /\ transactions' = Tail(transactions)
        /\ clearing' = IF Ends("clear") THEN clearing \ {transactions[1].of} ELSE clearing
        /\ UNCHANGED <<kernelVars, listVars, controlVars, opening, memory, cache, loading, saving,
                       showDialog, due, counted>>

-----------------------------------------------------------------------------
\* A report of the kernel: what was reported before and is not in it has closed.
Report ==
  LET gone == previous \ live
      all == closed \o SetToSeq(gone)
  IN  /\ ~isPaused
      /\ active' = live /\ previous' = live /\ first' = FALSE
      /\ closed' = SubSeq(all, Len(all) - (IF Len(all) < ClosedLimit THEN Len(all) ELSE ClosedLimit) + 1,
                          Len(all))
      /\ saving' = IF gone = {} THEN saving
                   ELSE saving \union {[conns |-> gone, at |-> Types[1], waits |-> FALSE]}
      /\ counted' = [t \in TypeSet |-> counted[t] \union gone]
      /\ live' = IF first THEN live \ IdleUDP ELSE live
      /\ UNCHANGED <<opened, controlVars, opening, memory, cache, objectStore, transactions, loading,
                     cleanVars, excused, connActs>>

\* The controls above the list.
listedConnections == IF connTab = "active" THEN active ELSE ToSet(closed)
renderConnections == listedConnections \ hidden

Control ==
  /\ ConnAct
  /\ \/ isPaused' = ~isPaused /\ UNCHANGED <<connTab, hidden>>
     \/ connTab' \in {"active", "closed"} \ {connTab} /\ UNCHANGED <<isPaused, hidden>>
     \/ hidden' \in ({{}} \union {{c} : c \in opened}) \ {hidden} /\ UNCHANGED <<isPaused, connTab>>
  /\ UNCHANGED <<kernelVars, listVars, storeVars, cleanVars, ghostVars>>

\* Whatever the tab, an unfiltered list closes every connection of the kernel.
handlerClickCloseAll ==
  /\ ConnAct
  /\ live' = IF renderConnections = listedConnections THEN {} ELSE live \ renderConnections
  /\ UNCHANGED <<opened, listVars, controlVars, storeVars, cleanVars, ghostVars>>

\* The button in a row, which the closed list does not have.
CloseOne ==
  /\ ConnAct /\ connTab = "active"
  /\ \E c \in renderConnections : live' = live \ {c}
  /\ UNCHANGED <<opened, listVars, controlVars, storeVars, cleanVars, ghostVars>>

-----------------------------------------------------------------------------
\* The card of the history.
AskClear ==
  /\ ConnAct /\ showDialog' = ~showDialog
  /\ UNCHANGED <<kernelVars, listVars, controlVars, storeVars, clearing, due, ghostVars>>

Clear(who) ==
  /\ ~opening /\ who \notin clearing
  /\ cache' = NoRows /\ clearing' = clearing \union {who}
  /\ transactions' = Write(transactions, "clear", who, NoRows, {})
  /\ counted' = [t \in TypeSet |-> {}]
  /\ excused' = (excused \/ saving # {})
  /\ UNCHANGED <<kernelVars, listVars, controlVars, opening, memory, objectStore, loading, saving, showDialog>>

handleClearHistory == showDialog /\ Clear("click") /\ UNCHANGED <<due, connActs>>

\* On mounting the card, when the interval has passed.
checkAndPerformAutoCleanup ==
  \/ due /\ Clear("auto") /\ UNCHANGED <<due, connActs>>
  \/ /\ ~due /\ ConnAct /\ due' = TRUE
     /\ UNCHANGED <<kernelVars, listVars, controlVars, storeVars, showDialog, clearing, ghostVars>>

\* The history and the open connections, as the card adds them up.
aggregatedData(t) == mergeAggregatedData(memory[t], aggregateConnections(active, t))

\* The page is loaded again: only the database is kept.
Reload ==
  /\ ConnAct
  /\ active' = {} /\ closed' = <<>> /\ previous' = {} /\ first' = TRUE
  /\ isPaused' = FALSE /\ connTab' = "active" /\ hidden' = {}
  /\ opening' = TRUE /\ memory' = NoRows /\ cache' = NoRows /\ transactions' = <<>>
  /\ loading' = Types[1] /\ saving' = {} /\ showDialog' = FALSE /\ clearing' = {}
  /\ excused' = (excused \/ saving # {} \/ transactions # <<>>)
  /\ UNCHANGED <<kernelVars, objectStore, due, counted>>

ConnectionsNext ==
  \/ Opens \/ Closes \/ Report \/ DatabaseOpens
  \/ (\E s \in saving : SaveStep(s)) \/ SaveStored \/ CutStored \/ ClearStored \/ WriteFails
  \/ Control \/ handlerClickCloseAll \/ CloseOne
  \/ AskClear \/ handleClearHistory \/ checkAndPerformAutoCleanup \/ Reload

ConnectionsSpec == ConnectionsInit /\ [][ConnectionsNext]_connVars

-----------------------------------------------------------------------------
ConnectionsTypeOK ==
  /\ live \subseteq opened /\ opened \subseteq Conns /\ active \union previous \subseteq opened
  /\ ToSet(closed) \subseteq opened /\ Len(closed) <= ClosedLimit
  /\ \A list \in {memory, cache, objectStore} : \A t \in TypeSet : \A k \in KeysOf(t) : list[t][k] \in Nat
  /\ loading \in TypeSet \union {"done"}
  /\ \A s \in saving : s.conns \subseteq opened /\ s.at \in TypeSet /\ s.waits \in BOOLEAN
  /\ \A i \in DOMAIN transactions : transactions[i].kind \in {"save", "load", "clear"}
  /\ clearing \subseteq {"click", "auto"} /\ connActs \in 0 .. MaxConnActs

\* At rest the history of every type counts each connection that closed since it was last
\* cleared exactly once, in memory, in the cache and in the database, however reports, saves,
\* loads and reloads interleave (connections.ts:87-94, connHistory.ts:33-54, 125-144), and the
\* card counts each connection once, open or closed (ConnectionHistory.vue:230-239); not so
\* after a clear or a reload in the middle of a save, or a failed write.
HistoryExact ==
  /\ ~opening /\ loading = "done" /\ saving = {} /\ clearing = {} /\ transactions = <<>>
  /\ ~excused
  => \A t \in TypeSet :
       /\ memory[t] = aggregateConnections(counted[t], t)
       /\ cache[t] = memory[t] /\ objectStore[t] = memory[t]
       /\ aggregatedData(t) = aggregateConnections(counted[t] \union active, t)
=============================================================================
