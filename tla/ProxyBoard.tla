---------------------------- MODULE ProxyBoard ----------------------------
(***************************************************************************)
(* The proxies page of the panel (zashboard/src/store/proxies.ts and the   *)
(* buttons that use it): one selector group of the kernel, the choice the  *)
(* page shows for it, and every operation that ends in fetchProxies.       *)
(*                                                                         *)
(* fetchProxies is started from many places and several may be under way;  *)
(* only the answer to the latest one counts, which the store decides by    *)
(* comparing times in milliseconds.                                        *)
(***************************************************************************)
EXTENDS Integers, FiniteSets

CONSTANTS
  Nodes,      \* the members of the group
  NoNode,     \* nothing is loaded, or nothing has been read
  MaxPushes   \* bound: clicks, returns to the tab and failed requests, together

\* What the constants are: assumed where they get their values.
ProxyBoardAssumption == NoNode \notin Nodes /\ Nodes # {} /\ MaxPushes \in Nat

VARIABLES
  choice,     \* the kernel: the node the group uses
  through,    \* the kernel: a listed connection goes through the group
  shown,      \* proxyMap[group].now
  fetchTime,  \* fetchTime
  started,    \* how many fetchProxies have started
  fetches,    \* those under way
  flows,      \* handlers under way
  busy,       \* the flags isLatencyTesting, isUpdating, isCoreRestarting, ...
  boardTab,   \* proxiesTabShow
  twins,      \* history: the latest time belongs to several fetches
  lost,       \* history: a failure left the page without the latest answer
  pushes      \* counter of the bound

boardVars == <<choice, through, shown, fetchTime, started, fetches, flows, busy, boardTab,
               twins, lost, pushes>>

\* The buttons of the page (a card, a group, all nodes; one provider, all of them) and those
\* of the kernel on the settings page.
Tests == {"node", "group", "all"}
Updates == {"provider", "health", "providers"}
Core == {"restart", "reload", "config", "upgrade", "geo"}
Buttons == Tests \union Updates \union Core
Replaces == {"select"} \union (Core \ {"geo"})   \* what may change the choice

\* The page is open: HomePage has called fetchProxies.
ProxyBoardInit ==
  /\ choice \in Nodes /\ through = FALSE
  /\ shown = NoNode /\ fetchTime = 1 /\ started = 1
  /\ fetches = {[id |-> 1, of |-> 0, stamp |-> 1, read |-> NoNode]}
  /\ flows = {} /\ busy = {} /\ boardTab = "proxies"
  /\ twins = FALSE /\ lost = FALSE
  /\ pushes = 0

Push == pushes < MaxPushes /\ pushes' = pushes + 1

Flow(kind, stage, n) ==
  [id |-> pushes + 1, kind |-> kind, stage |-> stage, node |-> n, held |-> n,
   attached |-> TRUE, done |-> FALSE]

-----------------------------------------------------------------------------
\* fetchProxies starts beside the fetches fs, awaited by the flow `of' (0: by nobody).  The
\* clock shows a later millisecond than at the last start, or the same one.
fetchProxies(fs, of) ==
  /\ started' = started + 1
  /\ fetchTime' \in {started + 1, fetchTime}
  /\ fetches' = fs \union
       {[id |-> started + 1, of |-> of, stamp |-> fetchTime', read |-> NoNode]}
  /\ twins' = (fetchTime' = fetchTime /\ (twins \/ \E f \in fs : f.stamp = fetchTime))
  /\ lost' = FALSE

NoFetch == UNCHANGED <<started, fetchTime, fetches, twins, lost>>

\* The kernel answers /proxies.
Answers(f) ==
  /\ f.read = NoNode
  /\ fetches' = (fetches \ {f}) \union {[f EXCEPT !.read = choice]}
  /\ UNCHANGED <<choice, through, shown, fetchTime, started, flows, busy, boardTab, twins, lost,
                 pushes>>

\* Mutant: every answer is shown.
Current_Always(f) == TRUE

Current(f) == f.stamp = fetchTime

Waiting(f) == {w \in flows : w.id = f.of}

\* Both answers are there.  A new proxyMap detaches the group object a waiting selection
\* holds; then the waiting handler goes on: a selection only if that object names another
\* node by now.
Arrives(f) ==
  /\ f.read # NoNode
  /\ fetches' = fetches \ {f}
  /\ shown' = IF Current(f) THEN f.read ELSE shown
  /\ LET goesOn == {w \in Waiting(f) : w.kind = "select" /\ w.held # w.node}
     IN  flows' = {[w EXCEPT !.attached = @ /\ ~Current(f),
                             !.stage = IF w \in goesOn THEN "request" ELSE @] :
                     w \in flows \ (Waiting(f) \ goesOn)}
  /\ busy' = busy \ {w.kind : w \in Waiting(f)}
  /\ UNCHANGED <<choice, through, fetchTime, started, boardTab, twins, lost, pushes>>

\* One of the two requests failed.  Every handler clears its flag, but the update of all
\* providers fetches once more, and keeps its flag for ever when that fails too.
Fails(f) ==
  /\ Push
  /\ LET again == {w \in Waiting(f) : w.kind = "providers" /\ w.stage = "fetch"}
         stuck == {w.kind : w \in {v \in Waiting(f) : v.stage = "again"}}
     IN  IF again # {}
         THEN /\ fetchProxies(fetches \ {f}, f.of)
              /\ flows' = (flows \ again) \union {[w EXCEPT !.stage = "again"] : w \in again}
              /\ UNCHANGED busy
         ELSE /\ fetches' = fetches \ {f}
              /\ lost' = (lost \/ Current(f))
              /\ flows' = flows \ Waiting(f)
              /\ busy' = busy \ ({w.kind : w \in Waiting(f)} \ stuck)
              /\ UNCHANGED <<started, fetchTime, twins>>
  /\ UNCHANGED <<choice, through, shown, boardTab>>

-----------------------------------------------------------------------------
\* handlerProxySelect: a node shown as chosen is only fetched again; a LoadBalance group has
\* no choice and its clicks do nothing.
Select(n) ==
  /\ shown # NoNode /\ boardTab = "proxies"
  /\ Push
  /\ IF shown = n
     THEN flows' = flows \union {Flow("select", "fetch", n)} /\ fetchProxies(fetches, pushes + 1)
     ELSE flows' = flows \union {Flow("select", "request", n)} /\ NoFetch
  /\ UNCHANGED <<choice, through, shown, busy, boardTab>>

\* A button; while its flag is set it does nothing.
Press(b) ==
  /\ b \notin busy
  /\ Push
  /\ busy' = busy \union {b}
  /\ flows' = flows \union {Flow(b, "request", NoNode)}
  /\ NoFetch
  /\ UNCHANGED <<choice, through, shown, boardTab>>

\* The latency on a node's card, on a group's head, and the button for all nodes.
TestNode == shown # NoNode /\ Press("node")
TestGroup == shown # NoNode /\ boardTab = "proxies" /\ Press("group")
TestAll == Press("all")

\* The buttons of a provider, and the one for all of them.
UpdateProvider == shown # NoNode /\ boardTab = "provider" /\ Press("provider")
CheckHealth == shown # NoNode /\ boardTab = "provider" /\ Press("health")
UpdateAll == shown # NoNode /\ boardTab = "provider" /\ Press("providers")

\* The settings of the backend: the kernel restarts, reads its file or a new configuration,
\* installs another version of itself, or fetches the Geo databases.
RestartCore == Press("restart")
ReloadConfigs == Press("reload")
UpdateConfigs == Press("config")
UpgradeCore == Press("upgrade")
UpdateGeo == Press("geo")

\* fetchProxies for its own sake: the page is opened, or the tab of the browser shows again.
Look ==
  /\ Push
  /\ fetchProxies(fetches, 0)
  /\ UNCHANGED <<choice, through, shown, flows, busy, boardTab>>

OpenProxies == Look
Visible == Look

ShowTab ==
  /\ boardTab' \in {"proxies", "provider"} \ {boardTab}
  /\ UNCHANGED <<choice, through, shown, flows, busy, pushes>>
  /\ NoFetch

-----------------------------------------------------------------------------
\* The kernel does what a handler asked for; one that restarts does so before the page looks
\* again half a second later.
Done(w) ==
  /\ w.stage \in {"request", "timer"} /\ ~w.done
  /\ flows' = (flows \ {w}) \union {[w EXCEPT !.done = TRUE]}
  /\ IF w.kind \in Replaces
     THEN choice' \in (IF w.kind = "select" THEN {w.node} ELSE Nodes)
     ELSE UNCHANGED choice
  /\ UNCHANGED <<through, shown, busy, boardTab, pushes>>
  /\ NoFetch

\* The group has the new node: it is shown, in the objects waiting selections hold too, the
\* connections through the group are closed if the setting automaticDisconnection says so, and
\* the list is fetched.
Selected(w) ==
  /\ w.kind = "select" /\ w.stage = "request" /\ w.done
  /\ shown' = w.node
  /\ flows' = {[v EXCEPT !.held = IF v.attached THEN w.node ELSE @] : v \in flows \ {w}}
  /\ through' \in {FALSE, through}
  /\ fetchProxies(fetches, 0)
  /\ UNCHANGED <<choice, busy, boardTab, pushes>>

\* A test or an update has its answer, a failed test as well: the handler awaits fetchProxies.
Refetches(w) ==
  /\ w.kind \in Tests \union Updates /\ w.stage = "request" /\ w.done
  /\ flows' = (flows \ {w}) \union {[w EXCEPT !.stage = "fetch"]}
  /\ fetchProxies(fetches, w.id)
  /\ UNCHANGED <<choice, through, shown, busy, boardTab, pushes>>

\* reloadAll, which nobody awaits; after a restart a timer calls it.
Reloads(w) ==
  /\ w.kind \in Core
  /\ IF w.kind = "restart" /\ w.stage = "request"
     THEN flows' = (flows \ {w}) \union {[w EXCEPT !.stage = "timer"]} /\ NoFetch
     ELSE w.done /\ flows' = flows \ {w} /\ fetchProxies(fetches, 0)
  /\ busy' = IF w.stage = "request" THEN busy \ {w.kind} ELSE busy
  /\ UNCHANGED <<choice, through, shown, boardTab, pushes>>

\* The request of a handler fails, before the kernel did it or after.
Refused(w) ==
  /\ w.stage = "request" /\ w.kind \notin Tests
  /\ Push
  /\ IF w.kind = "providers"
     THEN /\ flows' = (flows \ {w}) \union {[w EXCEPT !.stage = "again"]}
          /\ fetchProxies(fetches, w.id)
          /\ UNCHANGED busy
     ELSE /\ flows' = flows \ {w}
          /\ busy' = busy \ {w.kind}
          /\ lost' = (lost \/ (w.done /\ w.kind \in Replaces))
          /\ UNCHANGED <<started, fetchTime, fetches, twins>>
  /\ UNCHANGED <<choice, through, shown, boardTab>>

\* Traffic of the machine.
Connects ==
  /\ ~through /\ through' = TRUE
  /\ UNCHANGED <<choice, shown, flows, busy, boardTab, pushes>>
  /\ NoFetch

ProxyBoardNext ==
  \/ \E f \in fetches : Answers(f) \/ Arrives(f) \/ Fails(f)
  \/ \E n \in Nodes : Select(n)
  \/ TestNode \/ TestGroup \/ TestAll \/ UpdateProvider \/ CheckHealth \/ UpdateAll
  \/ RestartCore \/ ReloadConfigs \/ UpdateConfigs \/ UpgradeCore \/ UpdateGeo
  \/ OpenProxies \/ Visible \/ ShowTab \/ Connects
  \/ \E w \in flows : Done(w) \/ Selected(w) \/ Refetches(w) \/ Reloads(w) \/ Refused(w)

ProxyBoardSpec == ProxyBoardInit /\ [][ProxyBoardNext]_boardVars

-----------------------------------------------------------------------------
(* The type of the page. *)
ProxyBoardTypeOK ==
  /\ choice \in Nodes /\ through \in BOOLEAN /\ shown \in Nodes \union {NoNode}
  /\ started \in Nat /\ fetchTime \in 1 .. started
  /\ fetches \subseteq [id : 1 .. started, of : 0 .. MaxPushes, stamp : 1 .. fetchTime,
                        read : Nodes \union {NoNode}]
  /\ flows \subseteq [id : 1 .. MaxPushes, kind : Buttons \union {"select"},
                      stage : {"request", "fetch", "again", "timer"},
                      node : Nodes \union {NoNode}, held : Nodes \union {NoNode},
                      attached : BOOLEAN, done : BOOLEAN]
  /\ busy \subseteq Buttons /\ boardTab \in {"proxies", "provider"}
  /\ twins \in BOOLEAN /\ lost \in BOOLEAN /\ pushes \in 0 .. MaxPushes

(* The page shows the node the kernel uses once nothing is under way, in whatever order       *)
(* selections, tests, restarts and fetches ran (fetchTime, proxies.ts:106-119): unless the    *)
(* last request failed, or two fetches started in one millisecond.                            *)
ShownChoice ==
  (fetches = {} /\ flows = {} /\ ~lost /\ ~twins) => shown = choice
=============================================================================
