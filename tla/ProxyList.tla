---------------------------- MODULE ProxyList ----------------------------
(***************************************************************************)
(* What the proxies page of the panel lists: the groups, the members of    *)
(* each after filters and sorting (zashboard/src/composables/proxies.ts,   *)
(* renderProxies.ts), split by provider, their latencies, and the bar that *)
(* counts them, under every change of the settings and of the data.        *)
(***************************************************************************)
EXTENDS Integers, Sequences, FiniteSets
LOCAL INSTANCE SequencesExt

CONSTANTS
  Members,      \* group -> its members, in the kernel's order; names are numbers, in the
                \* order of localeCompare
  GlobalGroup,  \* GLOBAL, the group of all others
  Builtin,      \* names that are no groups but of a type that counts as one, DIRECT say
  Provider,     \* node -> its provider, for those that come from one
  HiddenGroups, \* groups the kernel's configuration hides
  OwnUrl,       \* groups with a URL of their own for tests
  Delays,       \* latencies; 0 is NOT_CONNECTED
  Filters,      \* for each text of the search field, the names that contain it
  LowLatency, MediumLatency,  \* the limits of the bar's colours
  FirstGroups,  \* groups listed before the page is mounted: 16
  MaxListActs   \* bound: changes of settings and fetches

Groups == DOMAIN Members
Names == Groups \union UNION {ToSet(Members[g]) : g \in Groups}

\* What the constants are: assumed where they get their values.  The kernel refuses a group
\* with a member twice, and one that leads back to itself.
ProxyListAssumption ==
  /\ GlobalGroup \in Groups /\ Names \subseteq Nat
  /\ \A g \in Groups : IsInjective(Members[g]) /\ Members[g] # <<>>
  /\ DOMAIN Provider \subseteq Names /\ OwnUrl \subseteq Groups
  /\ Delays \subseteq Nat /\ 0 \in Delays /\ Names \in Filters
  /\ LowLatency \in Nat /\ MediumLatency \in Nat /\ FirstGroups \in Nat /\ MaxListActs \in Nat

VARIABLES
  proxyNow,       \* proxyMap: group -> now; nothing before the first fetch
  delayOf,        \* name -> last of its history
  ownDelay,       \* <<name, group with a URL>> -> last of extra[url].history
  setting,        \* what the settings say
  hiddenGroupMap, \* group -> shown or hidden by the user
  pageMounted,    \* isProxiesPageMounted
  listActs        \* counter of the bound

listVars == <<proxyNow, delayOf, ownDelay, setting, hiddenGroupMap, pageMounted, listActs>>

SortTypes == {"default", "nameAsc", "nameDesc", "latencyAsc", "latencyDesc"}
Settings ==
  [hideUnavailable : BOOLEAN, sort : SortTypes, filter : Filters, independent : BOOLEAN,
   manageHidden : BOOLEAN, globalByMode : BOOLEAN, mode : {"rule", "global"}]

ProxyListInit ==
  /\ proxyNow = <<>> /\ delayOf = [n \in Names |-> 0]
  /\ ownDelay = [k \in Names \X OwnUrl |-> 0]
  /\ setting = [hideUnavailable |-> FALSE, sort |-> "default", filter |-> Names,
                independent |-> FALSE, manageHidden |-> FALSE, globalByMode |-> FALSE,
                mode |-> "rule"]
  /\ hiddenGroupMap = <<>> /\ pageMounted = FALSE
  /\ listActs = 0

ListAct == listActs < MaxListActs /\ listActs' = listActs + 1

-----------------------------------------------------------------------------
(* Latencies. *)

\* getNowProxyNodeName: follow now as far as it leads.
getNowProxyNodeName(name) ==
  LET end[n \in Names] == IF n \in DOMAIN proxyNow /\ proxyNow[n] # n THEN end[proxyNow[n]] ELSE n
  IN  end[name]

\* getLatencyByName: with independent tests that of the name itself under the group's URL,
\* else that of the node it leads to.
getLatencyByName(name, g) ==
  IF setting.independent
  THEN IF g \in OwnUrl THEN ownDelay[<<name, g>>] ELSE delayOf[name]
  ELSE delayOf[getNowProxyNodeName(name)]

isProxyGroup(name) == name \in Groups \union Builtin

-----------------------------------------------------------------------------
(* The lists. *)

\* Array.sort by a relation, which keeps the order of equals.
Sorted(s, before) ==
  LET Before(j, k) == <<s[j], s[k]>> \in before
      Ahead(k) == {j \in DOMAIN s : Before(j, k) \/ (j < k /\ ~Before(k, j))}
  IN  [p \in DOMAIN s |-> s[CHOOSE k \in DOMAIN s : Cardinality(Ahead(k)) = p - 1]]

\* sortFuncMap; a node that is not connected counts as endlessly slow.
SortsBefore(a, b, g) ==
  LET la == getLatencyByName(a, g)
      lb == getLatencyByName(b, g)
  IN  CASE setting.sort = "nameAsc" -> a < b
        [] setting.sort = "nameDesc" -> b < a
        [] setting.sort = "latencyAsc" -> la # 0 /\ (lb = 0 \/ la < lb)
        [] setting.sort = "latencyDesc" -> lb # 0 /\ (la = 0 \/ lb < la)

getRenderProxies(g) ==
  LET kept == SelectSeq(Members[g], LAMBDA n :
                /\ setting.hideUnavailable => isProxyGroup(n) \/ getLatencyByName(n, g) > 0
                /\ n \in setting.filter)
      Node(n) == ~isProxyGroup(n)
      before == {p \in Names \X Names : SortsBefore(p[1], p[2], g)}
  IN  IF setting.sort = "default" THEN kept
      ELSE SelectSeq(kept, isProxyGroup) \o Sorted(SelectSeq(kept, Node), before)

\* groupedProxies: split by provider in the order of their first nodes, those without one first.
groupedProxies(g) ==
  LET list == getRenderProxies(g)
      Of(n) == IF n \in DOMAIN Provider THEN {Provider[n]} ELSE {}
      First(k) == \A j \in 1 .. k - 1 : Of(list[j]) # Of(list[k])
      keys == SelectSeq([k \in DOMAIN list |-> <<Of(list[k]), First(k)>>], LAMBDA e : e[2])
      ordered == SelectSeq(keys, LAMBDA e : e[1] = {}) \o SelectSeq(keys, LAMBDA e : e[1] # {})
  IN  [k \in DOMAIN ordered |-> [provider |-> ordered[k][1],
                                 proxies |-> SelectSeq(list, LAMBDA n : Of(n) = ordered[k][1])]]

isHiddenGroup(g) ==
  IF g \in DOMAIN hiddenGroupMap THEN hiddenGroupMap[g] ELSE g \in HiddenGroups

\* proxyGroupList: the groups, but for GLOBAL in the order it has them, the others last.
proxyGroupList ==
  LET names == SetToSortSeq(Groups \ {GlobalGroup}, <)
      Place(g) == {k \in DOMAIN Members[GlobalGroup] : Members[GlobalGroup][k] = g}
      First(a, b) == Place(a) # {} /\ (Place(b) = {} \/ \E i \in Place(a), j \in Place(b) : i < j)
  IN  Sorted(names, {p \in Groups \X Groups : First(p[1], p[2])})

\* renderGroups: what the tab of the proxies lists.
renderGroups ==
  LET Visible(g) == setting.manageHidden \/ ~isHiddenGroup(g)
      groups == IF proxyNow = <<>> THEN <<>>
                ELSE IF ~setting.globalByMode
                THEN SelectSeq(Append(proxyGroupList, GlobalGroup), Visible)
                ELSE IF setting.mode = "global" THEN <<GlobalGroup>>
                ELSE SelectSeq(proxyGroupList, Visible)
  IN  IF pageMounted \/ Len(groups) < FirstGroups THEN groups ELSE SubSeq(groups, 1, FirstGroups)

\* The four parts of the bar in ProxyPreview.
Bar(g) ==
  LET list == getRenderProxies(g)
      Count(T(_)) == Cardinality({k \in DOMAIN list : T(getLatencyByName(list[k], g))})
      Good(l) == l < LowLatency /\ l > 0
      Medium(l) == l >= LowLatency /\ l < MediumLatency
      Slow(l) == l >= MediumLatency
      NotConnected(l) == l = 0
  IN  <<Count(Good), Count(Medium), Count(Slow), Count(NotConnected)>>

-----------------------------------------------------------------------------
\* An answer of the kernel is shown: choices and histories are new.
Fetched ==
  /\ ListAct
  /\ proxyNow' \in {f \in [Groups -> Names] : \A g \in Groups : f[g] \in ToSet(Members[g])}
  /\ \E f \in [Names \ (Groups \union Builtin) -> Delays] :
       delayOf' = [n \in Names |-> IF n \in DOMAIN f THEN f[n] ELSE 0]
  /\ UNCHANGED <<ownDelay, setting, hiddenGroupMap, pageMounted>>

\* A test under a group's own URL is known.
OwnTested ==
  /\ proxyNow # <<>> /\ ListAct
  /\ \E k \in Names \X OwnUrl, d \in Delays :
       k[1] \in ToSet(Members[k[2]]) /\ ownDelay' = [ownDelay EXCEPT ![k] = d]
  /\ UNCHANGED <<proxyNow, delayOf, setting, hiddenGroupMap, pageMounted>>

\* setHistory: the answer to one of the page's own tests goes where the latency of the name
\* is read without a group.
setHistory ==
  /\ proxyNow # <<>> /\ ListAct
  /\ \E n \in Names, d \in Delays :
       LET of == IF setting.independent THEN n ELSE getNowProxyNodeName(n)
       IN  delayOf' = [delayOf EXCEPT ![of] = d]
  /\ UNCHANGED <<proxyNow, ownDelay, setting, hiddenGroupMap, pageMounted>>

Change(new) ==
  /\ ListAct /\ setting' = new /\ setting' # setting
  /\ UNCHANGED <<proxyNow, delayOf, ownDelay, hiddenGroupMap, pageMounted>>

SetSort == \E t \in SortTypes : Change([setting EXCEPT !.sort = t])
Search == \E f \in Filters : Change([setting EXCEPT !.filter = f])
ToggleUnavailable == Change([setting EXCEPT !.hideUnavailable = ~@])
ToggleManaged == Change([setting EXCEPT !.manageHidden = ~@])
ToggleIndependent == Change([setting EXCEPT !.independent = ~@])
ToggleGlobalByMode == Change([setting EXCEPT !.globalByMode = ~@])
SwitchMode == Change([setting EXCEPT !.mode = IF @ = "rule" THEN "global" ELSE "rule"])

\* handlerGroupToggle, the eye on a group while hidden ones are managed.
handlerGroupToggle ==
  /\ setting.manageHidden /\ ListAct
  /\ \E g \in ToSet(renderGroups) :
       hiddenGroupMap' = [x \in DOMAIN hiddenGroupMap \union {g} |->
                            IF x = g THEN ~isHiddenGroup(g) ELSE hiddenGroupMap[x]]
  /\ UNCHANGED <<proxyNow, delayOf, ownDelay, setting, pageMounted>>

\* The timer of onMounted.
Mounted ==
  /\ ~pageMounted /\ pageMounted' = TRUE
  /\ UNCHANGED <<proxyNow, delayOf, ownDelay, setting, hiddenGroupMap, listActs>>

ProxyListNext ==
  \/ Fetched \/ OwnTested \/ setHistory
  \/ SetSort \/ Search \/ ToggleUnavailable \/ ToggleManaged
  \/ ToggleIndependent \/ ToggleGlobalByMode \/ SwitchMode
  \/ handlerGroupToggle \/ Mounted

ProxyListSpec == ProxyListInit /\ [][ProxyListNext]_listVars

-----------------------------------------------------------------------------
(* The type of the page. *)
ProxyListTypeOK ==
  /\ DOMAIN proxyNow \in {{}, Groups} /\ \A g \in DOMAIN proxyNow : proxyNow[g] \in Names
  /\ delayOf \in [Names -> Delays] /\ ownDelay \in [Names \X OwnUrl -> Delays]
  /\ setting \in Settings
  /\ \A g \in DOMAIN hiddenGroupMap : g \in Groups /\ hiddenGroupMap[g] \in BOOLEAN
  /\ pageMounted \in BOOLEAN
  /\ listActs \in 0 .. MaxListActs

\* Where the choices lead from a name, and the latency of every name in group g.
Reached(n) ==
  {m \in Names : \A S \in SUBSET Names :
     n \in S /\ (\A x \in S \intersect DOMAIN proxyNow : proxyNow[x] \in S) => m \in S}
Latencies(g) ==
  [n \in Names |->
     IF setting.independent THEN getLatencyByName(n, g)
     ELSE delayOf[CHOOSE m \in Names \ DOMAIN proxyNow : m \in Reached(n)]]

\* b may be listed after a: groups stand before nodes, in the kernel's order.
Follows(a, b, g, latency) ==
  LET Place(n) == CHOOSE k \in DOMAIN Members[g] : Members[g][k] = n
      Earlier == Place(a) < Place(b)
      Speed(n) == IF latency[n] = 0 THEN 1000 * Len(Members[g]) + MediumLatency ELSE latency[n]
  IN  IF setting.sort = "default" \/ (isProxyGroup(a) /\ isProxyGroup(b)) THEN Earlier
      ELSE IF isProxyGroup(a) \/ isProxyGroup(b) THEN isProxyGroup(a)
      ELSE \/ setting.sort = "nameAsc" /\ a < b
           \/ setting.sort = "nameDesc" /\ a > b
           \/ setting.sort = "latencyAsc" /\ Speed(a) <= Speed(b)
           \/ setting.sort = "latencyDesc" /\ Speed(a) >= Speed(b)

(* Each group on display lists every member that passes the filters once, in the order that   *)
(* was asked for, by the latency of the node its choice leads to (renderProxies.ts:30-93,     *)
(* proxies.ts:68-100, 391-409); the providers' lists together are that list                   *)
(* (ProxiesByProvider.vue:14-43), and the parts of the bar count it, every node in one, as    *)
(* long as the limits are in order (ProxyPreview.vue:124-139).                                *)
ListsSound ==
  \A g \in ToSet(renderGroups) :
    LET list == getRenderProxies(g)
        parts == groupedProxies(g)
        bar == Bar(g)
        latency == Latencies(g)
    IN  /\ ToSet(list) = {n \in ToSet(Members[g]) : /\ n \in setting.filter
             /\ (setting.hideUnavailable => isProxyGroup(n) \/ latency[n] # 0)}
        /\ \A i, j \in DOMAIN list : i < j => list[i] # list[j] /\ Follows(list[i], list[j], g, latency)
        /\ ToSet(FlattenSeq([k \in DOMAIN parts |-> parts[k].proxies])) = ToSet(list)
        /\ \A i, j \in DOMAIN parts : i < j =>
             /\ ToSet(parts[i].proxies) \intersect ToSet(parts[j].proxies) = {}
             /\ parts[j].provider # {}
        /\ 0 < LowLatency /\ LowLatency <= MediumLatency =>
             /\ bar[1] + bar[2] + bar[3] + bar[4] = Len(list)
             /\ bar[4] = Cardinality({n \in ToSet(list) : latency[n] = 0})
=============================================================================
