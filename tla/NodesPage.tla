----------------------------- MODULE NodesPage -----------------------------
(***************************************************************************)
(* The node pool's page (web/features/nodes/components/nodes-page.tsx)     *)
(* against the nodes of the server (internal/service/proxy_node.go).       *)
(*                                                                         *)
(* The page shows one list at a time and the query cache keeps every list  *)
(* it has shown.  A list is a page number and a filter; keyword, page size *)
(* and order would be further parts of its key and are handled alike.  A   *)
(* cached list is shown again without a request unless it was invalidated  *)
(* or is older than staleTime.  A mutation lists its nodes when clicked.   *)
(***************************************************************************)
EXTENDS Integers, FiniteSetsExt, SequencesExt, QueryCache

CONSTANTS
  NodeCount,  \* the nodes are 1 .. NodeCount, as their ids
  Enabled,    \* those of them that are enabled
  Hits,       \* for each, the tables and regions its name has a hit in
  NodesPerPage,   \* pageSize
  MaxNodeMoves    \* bound: clicks, failed list requests and lists that grow stale, together

Nodes == 1 .. NodeCount

\* What the constants are: assumed where they get their values.
NodesPageAssumption ==
  /\ NodeCount \in Nat /\ Enabled \subseteq Nodes
  /\ NodesPerPage \in Nat \ {0} /\ MaxNodeMoves \in Nat

VARIABLES
  node,      \* proxy_nodes: unborn, alive or deleted
  tested,    \* nodes whose last test was stored
  page, filter,  \* the list shown
  lists,     \* the query cache, by list
  stale,     \* lists to be asked for again when shown next
  selected,  \* selectedIds
  work,      \* the mutations, by kind
  nodeAuto,  \* autoRefresh
  moves,     \* counter of the bound
  gone,      \* history: nodes this page deleted, with a success answered
  overtaken  \* history: lists whose answer under way was read before a change this
             \* page then invalidated, and which the invalidation did not drop

nodesVars ==
  <<node, tested, page, filter, lists, stale, selected, work, nodeAuto, moves, gone, overtaken>>
nodeTables == <<node, tested>>
browser == <<page, filter, lists, stale, selected, overtaken>>

NodeFilters == {"all", "true"}
Lists == (0 .. NodeCount) \X NodeFilters
Tests == {"test", "testAll"}
WorkKinds == Tests \union {"delete", "batch", "tags"}
NoWork == [phase |-> "idle", ids |-> {}, left |-> {}]
OnScreen == <<page, filter>>
Living == {n \in Nodes : node[n] = "alive"}

\* ListProxyNodes: newest first, filtered, one page of them.
Matching(f) == IF f = "true" THEN Living \intersect Enabled ELSE Living
NodesListed(l) ==
  LET newer(n) == {m \in Matching(l[2]) : m > n}
  IN  {n \in Matching(l[2]) : Cardinality(newer(n)) \div NodesPerPage = l[1]}

\* The list on screen, in its order, and the same by region: the first table in which the
\* name has a hit decides, there the first region.  (An Indonesian name in Chinese hits
\* India too, which comes first.)
Shown == IF lists[OnScreen].data = <<>> THEN {} ELSE lists[OnScreen].data[1]
InOrder == SetToSortSeq(Shown, LAMBDA a, b : a > b)

\* Mutant: nodes of no known region have no group.
RegionOrder_NoOther ==
  <<"hk", "tw", "jp", "sg", "kr", "us", "gb", "de", "fr", "ca", "au", "ru", "in", "tr", "ar",
    "br", "nl", "my", "th", "vn", "ph", "id">>

RegionOrder ==
  <<"hk", "tw", "jp", "sg", "kr", "us", "gb", "de", "fr", "ca", "au", "ru", "in", "tr", "ar",
    "br", "nl", "my", "th", "vn", "ph", "id", "other">>

DetectRegion(hits) ==
  LET Hit(table) == {i \in DOMAIN RegionOrder : <<table, RegionOrder[i]>> \in hits}
      First(table) == RegionOrder[Min(Hit(table))]
  IN  CASE Hit("flag") # {} -> First("flag")
        [] Hit("flag") = {} /\ Hit("zh") # {} -> First("zh")
        [] Hit("flag") \union Hit("zh") = {} /\ Hit("en") # {} -> First("en")
        [] OTHER -> "other"

\* The region of every node: a table, because every state asks for it.
regionOf == [n \in Nodes |-> DetectRegion(Hits[n])]

GroupByRegion(ns) ==
  LET Group(r) == SelectSeq(ns, LAMBDA n : regionOf[n] = r)
      groups == [i \in DOMAIN RegionOrder |-> Group(RegionOrder[i])]
  IN  SelectSeq(groups, LAMBDA g : g # <<>>)

NodesInit ==
  /\ node \in [Nodes -> {"unborn", "alive"}]
  /\ tested = {} /\ page = 0 /\ filter = "all" /\ selected = {} /\ nodeAuto = FALSE
  /\ lists = [l \in Lists |-> IF l = OnScreen THEN Fresh ELSE Unasked]
  /\ stale = {} /\ overtaken = {} /\ gone = {}
  /\ work = [k \in WorkKinds |-> NoWork] /\ moves = 0

-----------------------------------------------------------------------------
\* The query cache.
ListsUnchanged == UNCHANGED <<nodeTables, page, filter, selected, work, nodeAuto, gone>>
Counted == moves < MaxNodeMoves /\ moves' = moves + 1

Timer ==
  /\ nodeAuto /\ ~Fetching(lists[OnScreen])
  /\ lists' = [lists EXCEPT ![OnScreen] = Fetch(@)]
  /\ ListsUnchanged /\ UNCHANGED <<moves, stale, overtaken>>

NodesRead(l) ==
  /\ lists[l].phase = "sent"
  /\ lists' = [lists EXCEPT ![l] = Read(@, NodesListed(l))]
  /\ overtaken' = overtaken \ {l}
  /\ ListsUnchanged /\ UNCHANGED <<moves, stale>>

NodesAnswer(l) ==
  /\ lists[l].phase = "read"
  /\ lists' = [lists EXCEPT ![l] = Answered(@)]
  /\ stale' = stale \ {l}
  /\ ListsUnchanged /\ UNCHANGED <<moves, overtaken>>

ListFails(l) ==
  /\ Fetching(lists[l])
  /\ lists' = [lists EXCEPT ![l] = Failed(@)]
  /\ Counted /\ ListsUnchanged /\ UNCHANGED <<stale, overtaken>>

\* staleTime passes for a list that is not on screen.
Expire(l) ==
  /\ l # OnScreen /\ lists[l].data # <<>> /\ l \notin stale
  /\ stale' = stale \union {l}
  /\ Counted /\ ListsUnchanged /\ UNCHANGED <<lists, overtaken>>

\* Showing list l: asked for if there is nothing to show or what there is is stale.
ShowList(l) ==
  /\ page' = l[1] /\ filter' = l[2]
  /\ lists' = [lists EXCEPT ![l] = IF @.data = <<>> \/ l \in stale THEN Fetch(@) ELSE @]

\* Mutant: the lists that are not on screen are left as they are.
InvalidateLists_CurrentOnly(l) ==
  /\ stale' = stale \union {l} /\ UNCHANGED overtaken
  /\ lists' = [lists EXCEPT ![l] = Invalidated(@)]

\* invalidateQueries on every list while list l is on screen, which alone is refetched.
InvalidateLists(l) ==
  /\ stale' = Lists
  /\ overtaken' = overtaken \union
       {k \in Lists : lists[k].phase = "read" /\ (k # l \/ Loading(lists[k]))}
  /\ lists' = [lists EXCEPT ![l] = Invalidated(@)]

-----------------------------------------------------------------------------
\* Filters, pages and the selection.
MoveTo(l, chosen) ==
  /\ Counted
  /\ ShowList(l) /\ selected' = chosen
  /\ UNCHANGED <<nodeTables, stale, work, nodeAuto, gone, overtaken>>

NextPage ==
  /\ ~Loading(lists[OnScreen]) /\ Shown # {} /\ Cardinality(Shown) >= NodesPerPage
  /\ page < NodeCount
  /\ MoveTo(<<page + 1, filter>>, selected)

PreviousPage ==
  /\ page # 0 /\ ~Loading(lists[OnScreen])
  /\ MoveTo(<<page - 1, filter>>, selected)

\* The enabled filter keeps the page number and the selection; a search, a page size and
\* a reset go to the first page without a selection, an order to the first page with it.
SetFilter(f) == f # filter /\ MoveTo(<<page, f>>, selected)
SetSort == page # 0 /\ MoveTo(<<0, filter>>, selected)
Search == MoveTo(<<0, filter>>, {})
Reset == MoveTo(<<0, "all">>, {})

Choose(chosen) ==
  /\ Counted /\ selected' = chosen
  /\ UNCHANGED <<nodeTables, page, filter, lists, stale, work, nodeAuto, gone, overtaken>>

\* A node's card: its box, and whether its two buttons are blocked.
Card(n) == [selected |-> n \in selected,
            testing  |-> work["test"].phase # "idle" /\ n \in work["test"].ids,
            deleting |-> work["delete"].phase # "idle" /\ n \in work["delete"].ids]

Toggle(n) ==
  /\ n \in Shown
  /\ Choose(IF Card(n).selected THEN selected \ {n} ELSE selected \union {n})
SelectAll == Shown # {} /\ Choose(Shown)
SelectNone == selected # {} /\ Choose({})

ToggleAutoRefresh ==
  /\ Counted /\ nodeAuto' = ~nodeAuto
  /\ UNCHANGED <<nodeTables, browser, work, gone>>

-----------------------------------------------------------------------------
\* The mutations: of one node's card, of the selection, of all that match the filter.
StartWork(k, ids) ==
  /\ Counted
  /\ work' = [work EXCEPT ![k] = [phase |-> "sent", ids |-> ids, left |-> ids]]
  /\ UNCHANGED <<nodeTables, browser, nodeAuto, gone>>

\* A card's button is only blocked by a mutation of its own node, the list's by any of its
\* kind; a later mutation of a kind is modelled once the earlier one is answered (bound).
DeleteCard(n) ==
  /\ n \in Shown /\ ~Card(n).deleting /\ work["delete"].phase = "idle"
  /\ StartWork("delete", {n})
TestCard(n) ==
  /\ n \in Shown /\ ~Card(n).testing /\ work["test"].phase = "idle"
  /\ StartWork("test", {n})
BatchTest == selected # {} /\ work["test"].phase = "idle" /\ StartWork("test", selected)
BatchDelete == selected # {} /\ work["batch"].phase = "idle" /\ StartWork("batch", selected)
SaveTags == selected # {} /\ work["tags"].phase = "idle" /\ StartWork("tags", selected)
TestAll ==
  /\ Shown # {} /\ work["testAll"].phase = "idle"
  /\ StartWork("testAll", IF filter = "true" THEN Enabled ELSE Nodes)

Step(k, phase, left) ==
  /\ work' = [work EXCEPT ![k].phase = phase, ![k].left = left]
  /\ UNCHANGED <<browser, nodeAuto, moves, gone>>

\* DeleteProxyNode and DeleteProxyNodes: one transaction for each node, which ends the
\* request at the first node that is not there or cannot be deleted.
DeleteOne(k) ==
  /\ k \in {"delete", "batch"} /\ work[k].phase = "sent"
  /\ \E n \in work[k].left :
       \/ /\ n \in Living
          /\ node' = [node EXCEPT ![n] = "deleted"]
          /\ Step(k, IF work[k].left = {n} THEN "done" ELSE "sent", work[k].left \ {n})
       \/ Step(k, "refused", work[k].left) /\ UNCHANGED node
  /\ UNCHANGED tested

\* UpdateProxyNodeTags: one statement for the nodes that exist, refused if none does.
UpdateTags ==
  /\ work["tags"].phase = "sent"
  /\ Step("tags", IF work["tags"].ids \intersect Living = {} THEN "refused" ELSE "done", {})
  /\ UNCHANGED nodeTables

\* ExecuteNodeTests and ExecuteNodeTestsByFilter read the nodes to test.
FindNodes(k) ==
  /\ k \in Tests /\ work[k].phase = "sent"
  /\ LET found == work[k].ids \intersect Living
     IN  work' = [work EXCEPT ![k] = [phase |-> IF found = {} THEN "refused" ELSE "testing",
                                      ids |-> found, left |-> found]]
  /\ UNCHANGED <<nodeTables, browser, nodeAuto, moves, gone>>

\* runNodeTests, once its workers are done: the results are stored one by one, by columns,
\* so that nothing happens for a node deleted meanwhile; the first error ends it.
StoreOne(k) ==
  /\ k \in Tests /\ work[k].phase = "testing"
  /\ \/ \E n \in work[k].left :
          /\ tested' = IF n \in Living THEN tested \union {n} ELSE tested
          /\ Step(k, IF work[k].left = {n} THEN "done" ELSE "testing", work[k].left \ {n})
     \/ Step(k, "refused", work[k].left) /\ UNCHANGED tested
  /\ UNCHANGED node

\* A success: the selection loses what was deleted and every list is invalidated.
Success(k) ==
  /\ work[k].phase = "done"
  /\ work' = [work EXCEPT ![k].phase = "refreshing"]
  /\ selected' = CASE k = "delete" -> selected \ work[k].ids
                   [] k = "batch" -> {}
                   [] OTHER -> selected
  /\ gone' = IF k \in {"delete", "batch"} THEN gone \union work[k].ids ELSE gone
  /\ InvalidateLists(OnScreen)
  /\ UNCHANGED <<nodeTables, page, filter, nodeAuto, moves>>

Refreshed(k) ==
  /\ work[k].phase = "refreshing" /\ ~Fetching(lists[OnScreen])
  /\ work' = [work EXCEPT ![k] = NoWork]
  /\ UNCHANGED <<nodeTables, browser, nodeAuto, moves, gone>>

\* A refusal, or a success whose answer is lost: no list is invalidated.
Failure(k) ==
  /\ work[k].phase \in {"refused", "done"}
  /\ work' = [work EXCEPT ![k] = NoWork]
  /\ UNCHANGED <<nodeTables, browser, nodeAuto, moves, gone>>

\* The import dialog's success (module ImportPage has the dialog): first page, nothing
\* selected, every list invalidated.
Imported ==
  /\ \E n \in Nodes : node[n] = "unborn"
  /\ node' = [n \in Nodes |-> IF node[n] = "unborn" THEN "alive" ELSE node[n]]
  /\ Counted /\ selected' = {} /\ page' = 0
  /\ InvalidateLists(<<0, filter>>)
  /\ UNCHANGED <<tested, filter, work, nodeAuto, gone>>

NodesNext ==
  \/ Timer \/ \E l \in Lists : NodesRead(l) \/ NodesAnswer(l) \/ ListFails(l) \/ Expire(l)
  \/ NextPage \/ PreviousPage \/ SetSort \/ Search \/ Reset
  \/ \E f \in NodeFilters : SetFilter(f)
  \/ \E n \in Nodes : Toggle(n) \/ DeleteCard(n) \/ TestCard(n)
  \/ SelectAll \/ SelectNone \/ ToggleAutoRefresh
  \/ BatchTest \/ BatchDelete \/ SaveTags \/ TestAll \/ UpdateTags \/ Imported
  \/ \E k \in WorkKinds :
       DeleteOne(k) \/ FindNodes(k) \/ StoreOne(k) \/ Success(k) \/ Refreshed(k) \/ Failure(k)

NodesSpec == NodesInit /\ [][NodesNext]_nodesVars

-----------------------------------------------------------------------------
NodesTypeOK ==
  /\ node \in [Nodes -> {"unborn", "alive", "deleted"}] /\ tested \subseteq Nodes
  /\ OnScreen \in Lists /\ DOMAIN lists = Lists
  /\ \A l \in Lists : IsQueryOf(lists[l], SUBSET Nodes)
  /\ stale \subseteq Lists /\ overtaken \subseteq Lists
  /\ selected \subseteq Nodes /\ gone \subseteq Nodes /\ nodeAuto \in BOOLEAN
  /\ work \in [WorkKinds ->
       [phase : {"idle", "sent", "testing", "done", "refused", "refreshing"},
        ids : SUBSET Nodes, left : SUBSET Nodes]]
  /\ moves \in 0 .. MaxNodeMoves

\* A node that this page has deleted is on none of the lists it shows at rest, cached ones
\* of other pages and filters included; only a list whose request was under way during the
\* deletion and that the library did not drop may still have it (nodes-page.tsx:129-163).
DeletedGone ==
  ~Fetching(lists[OnScreen]) /\ ~lists[OnScreen].failed /\ OnScreen \notin overtaken
    => Shown \intersect gone = {}

\* A test that ends with success has stored a result for each of its nodes that still
\* exists, whichever were deleted while it ran (proxy_node.go:222-271).
TestsStored ==
  \A k \in Tests : work[k].phase \in {"done", "refreshing"} =>
    work[k].ids \intersect Living \subseteq tested

\* Grouping by region shows every node of the list, once (region.ts:150-205).
GroupsKeepNodes ==
  LET grouped == FlattenSeq(GroupByRegion(InOrder))
  IN  Len(grouped) = Cardinality(Shown) /\ ToSet(grouped) = Shown
=============================================================================
