----------------------------- MODULE PanelRoutes -----------------------------
(***************************************************************************)
(* Moving about in the panel: fingers swiping from page to page, and from  *)
(* tab to tab when that is chosen (zashboard/src/composables/swipe.ts),    *)
(* keys (composables/keyboard.ts), the dock and the sidebar, and the way   *)
(* the pages slide (router/index.ts).  The overview is a page of its own   *)
(* or part of the settings; its address works in either case.              *)
(***************************************************************************)
EXTENDS Integers, SequencesExt

CONSTANTS RouteNames, MaxMoved  \* ROUTE_NAME without the setup; bound: moves and changes

Tabbed == {"proxies", "connections", "rules"}

\* What the constants are: assumed where they get their values.
RoutesAssumption ==
  /\ RouteNames \in Seq(STRING) /\ IsInjective(RouteNames) /\ Len(RouteNames) > 1
  /\ MaxMoved \in Nat

VARIABLES
  route, tabShow,  \* the page, and the tab that each page with tabs shows
  options,         \* splitOverviewPage, swipeInPages, swipeInTabs
  providers,       \* the pages whose providers are known: their second tab is offered
  disableSwipe,    \* a list is being dragged
  transition,      \* to.meta.transition of each page
  swiped,          \* history: the direction, if the last change of page was a swipe from a page
                   \* that is in the menu
  moved            \* counter of the bound

routesVars == <<route, tabShow, options, providers, disableSwipe, transition, swiped, moved>>

renderRoutes == SelectSeq(RouteNames, LAMBDA r : r = "overview" => options.splitOverviewPage)
IndexIn(seq, r) == SelectInSeq(seq, LAMBDA x : x = r)  \* from 1, and 0 for findIndex's -1

PanelRoutesInit ==
  /\ route = "proxies" /\ tabShow = [p \in Tabbed |-> 1]
  /\ options \in [splitOverviewPage : BOOLEAN, swipeInPages : {TRUE}, swipeInTabs : BOOLEAN]
  /\ providers = {} /\ disableSwipe = FALSE
  /\ transition = [r \in Range(RouteNames) |-> "fade"] /\ swiped = "no" /\ moved = 0

-----------------------------------------------------------------------------
\* router.beforeEach, for a change of page: first and last page are neighbours.
Slide(from, to) ==
  LET f == IndexIn(renderRoutes, from)  t == IndexIn(renderRoutes, to)  n == Len(renderRoutes)
  IN  CASE t = 1 /\ f = n -> "slide-left"
        [] ~(t = 1 /\ f = n) /\ t = n /\ f = 1 -> "slide-right"
        [] ~(t = 1 /\ f = n) /\ ~(t = n /\ f = 1) /\ t < f -> "slide-right"
        [] OTHER -> "slide-left"

push(to, how) ==
  /\ route' = to
  /\ IF to = route THEN UNCHANGED <<transition, swiped>>
     ELSE transition' = [transition EXCEPT ![to] = Slide(route, to)] /\ swiped' = how

\* The stops of a swipe: a page, or one of its tabs.
Stops(r) ==
  IF options.swipeInTabs /\ r \in Tabbed /\ (r = "connections" \/ r \in providers)
  THEN <<[route |-> r, tab |-> 1], [route |-> r, tab |-> 2]>>
  ELSE <<[route |-> r, tab |-> 0]>>
swipeList == FlattenSeq([i \in DOMAIN renderRoutes |-> Stops(renderRoutes[i])])

\* The stop where the panel is: its index, from 0, and -1 for a page not in the list.
At(where, tabs) ==
  SelectInSeq(swipeList, LAMBDA s : s.route = where /\ (s.tab # 0 => tabs[where] = s.tab)) - 1

Neighbour(i, direction) ==
  LET n == Len(swipeList)
  IN  swipeList[(IF direction = "left" THEN (i + 1) % n ELSE (i - 1 + n) % n) + 1]

TabAt(stop, tabs) == IF stop.tab = 0 THEN tabs ELSE [tabs EXCEPT ![stop.route] = stop.tab]

\* The watcher of direction; dialogs, inputs and selections stop it as well.
Swipe(direction) ==
  /\ options.swipeInPages /\ ~disableSwipe
  /\ LET i == At(route, tabShow)  stop == Neighbour(i, direction)
     IN  /\ push(stop.route, IF i < 0 THEN "no" ELSE direction)
         /\ tabShow' = TabAt(stop, tabShow)
  /\ UNCHANGED <<options, providers, disableSwipe>>

\* A key, the dock or the sidebar; an address.
handleKeydown ==
  /\ \E i \in DOMAIN renderRoutes : push(renderRoutes[i], "no")
  /\ UNCHANGED <<tabShow, options, providers, disableSwipe>>

OpenOverview ==
  /\ push("overview", "no") /\ UNCHANGED <<tabShow, options, providers, disableSwipe>>

clickTab ==
  /\ route \in Tabbed /\ (route = "connections" \/ route \in providers)
  /\ tabShow' = [tabShow EXCEPT ![route] = 3 - @]
  /\ UNCHANGED <<route, options, providers, disableSwipe, transition, swiped>>

\* Settings, of this browser tab or another.
SetOption ==
  /\ \E o \in DOMAIN options : options' = [options EXCEPT ![o] = ~@]
  /\ swiped' = "no" /\ UNCHANGED <<route, tabShow, providers, disableSwipe, transition>>

ProvidersAnswer ==
  /\ providers' \in SUBSET {"proxies", "rules"} /\ providers' # providers
  /\ UNCHANGED <<route, tabShow, options, disableSwipe, transition, swiped>>

DragStart ==
  /\ route = "settings" /\ ~disableSwipe /\ disableSwipe' = TRUE
  /\ UNCHANGED <<route, tabShow, options, providers, transition, swiped>>

DragEnd ==
  /\ disableSwipe /\ disableSwipe' = FALSE
  /\ UNCHANGED <<route, tabShow, options, providers, transition, swiped>>

PanelRoutesNext ==
  /\ moved < MaxMoved /\ moved' = moved + 1
  /\ \/ \E d \in {"left", "right"} : Swipe(d)
     \/ handleKeydown \/ OpenOverview \/ clickTab \/ SetOption \/ ProvidersAnswer
     \/ DragStart \/ DragEnd

PanelRoutesSpec == PanelRoutesInit /\ [][PanelRoutesNext]_routesVars

-----------------------------------------------------------------------------
PanelRoutesTypeOK ==
  /\ route \in Range(RouteNames) /\ tabShow \in [Tabbed -> 1 .. 2]
  /\ options \in [splitOverviewPage : BOOLEAN, swipeInPages : BOOLEAN, swipeInTabs : BOOLEAN]
  /\ providers \subseteq {"proxies", "rules"} /\ disableSwipe \in BOOLEAN
  /\ transition \in [Range(RouteNames) -> {"fade", "slide-left", "slide-right"}]
  /\ swiped \in {"no", "left", "right"} /\ moved \in 0 .. MaxMoved

\* Swiping there and back ends where it began, the same page with the same tab, around the
\* ends of the list and whichever pages have tabs at the moment; and a page that was swiped to
\* has slid in with the finger (swipe.ts:20-85, router/index.ts:80-90).  Not so from the
\* overview while it is no page of the menu, which has no place in the list.
SwipesReturn ==
  /\ At(route, tabShow) >= 0 =>
       \A d \in {"left", "right"} :
         LET there == Neighbour(At(route, tabShow), d)
             back == Neighbour(At(there.route, TabAt(there, tabShow)),
                               IF d = "left" THEN "right" ELSE "left")
         IN  /\ back.route = route
             /\ back.tab \in {0} \union {tabShow[r] : r \in Tabbed \intersect {route}}
  /\ swiped # "no" =>
       transition[route] = IF swiped = "left" THEN "slide-left" ELSE "slide-right"
=============================================================================
