--------------------------- MODULE DashboardPage ---------------------------
(***************************************************************************)
(* The dashboard (web/features/dashboard/components/                       *)
(* dashboard-overview.tsx): four queries, the quick actions on the kernel  *)
(* and the test of every node.  An action on the kernel writes its answer  *)
(* into the cached status and asks for the status again; the test answers  *)
(* when the results are stored, and the list of nodes is asked for again.  *)
(*                                                                         *)
(* A profile is its include_in_runtime.  No action of the page changes the *)
(* profiles or the capability, which are asked for once.                   *)
(***************************************************************************)
EXTENDS QueryCache, FiniteSets

CONSTANTS
  NodeIds,    \* proxy nodes there can be
  Kind,       \* the protocol of each
  Latencies,  \* last_latency_ms of a successful test
  Cached,     \* queries whose data of an earlier visit are fresh enough not to be asked for
  MaxPresses, \* bound: presses of a quick action
  MaxChanges  \* bound: changes made elsewhere

Results == [status : {"unknown", "failed"}, ms : {0}] \union [status : {"success"}, ms : Latencies]
Untested == [status |-> "unknown", ms |-> 0]
Inventories == UNION {[S -> Results] : S \in SUBSET NodeIds}
Quick == {"start", "stop", "reload", "testAll"}
Facets == {"running", "inventory", "ports", "binary"}

\* What the constants are: assumed where they get their values.
DashboardAssumption ==
  /\ Latencies \subseteq Nat /\ Cached \subseteq Facets /\ MaxPresses \in Nat /\ MaxChanges \in Nat

VARIABLES
  world,    \* what the server has: the kernel, the nodes, the profiles, the executable
  queries,  \* one query for each of them
  quick,    \* the mutation of each quick action: phase, answer, and nodes still to store
  notice,   \* tone of the feedback
  behind,   \* history: facets that changed and the page was not told
  presses, changes  \* counters of the bounds

dashboardVars == <<world, queries, quick, notice, behind, presses, changes>>
Resting == [phase |-> "idle", answer |-> FALSE, left |-> {}]

DashboardInit ==
  /\ world \in [running : BOOLEAN, inventory : [NodeIds -> {Untested}],
                ports : {<<TRUE, FALSE>>}, binary : {TRUE}]
  /\ queries = [f \in Facets |->
                  IF f \in Cached THEN [Unasked EXCEPT !.data = <<world[f]>>] ELSE Fresh]
  /\ quick = [b \in Quick |-> Resting]
  /\ notice = "none" /\ behind = {} /\ presses = 0 /\ changes = 0

-----------------------------------------------------------------------------
\* What is on the page.
Numbers(ns) ==
  LET With(s) == {n \in DOMAIN ns : ns[n].status = s}
      passed  == With("success")
      tested  == passed \union With("failed")
      timed   == {n \in passed : ns[n].ms > 0}
      Sum[S \in SUBSET timed] ==
        IF S = {} THEN 0 ELSE LET n == CHOOSE x \in S : TRUE IN ns[n].ms + Sum[S \ {n}]
      Rounded(a, b) == (2 * a + b) \div (2 * b)
  IN  [total |-> Cardinality(DOMAIN ns), tested |-> Cardinality(tested),
       passed |-> Cardinality(passed), failed |-> Cardinality(With("failed")),
       healthRate |-> IF tested # {} THEN Rounded(100 * Cardinality(passed), Cardinality(tested))
                      ELSE IF DOMAIN ns # {} THEN 0 ELSE 100,
       avgLatency |-> IF timed = {} THEN -1 ELSE Rounded(Sum[timed], Cardinality(timed))]

Distribution(ns) ==
  LET kinds == {Kind[n] : n \in DOMAIN ns}
  IN  [k \in kinds |-> Cardinality({n \in DOMAIN ns : Kind[n] = k})]

PortFigures(ps) == [listed |-> Len(ps), included |-> Len(SelectSeq(ps, LAMBDA on : on))]

Data(f, otherwise) == IF queries[f].data = <<>> THEN otherwise ELSE queries[f].data[1]
isRunning == Data("running", FALSE)
NodesShown == Data("inventory", <<>>)

Page == [running |-> isRunning, numbers |-> Numbers(NodesShown),
         pills |-> Distribution(NodesShown), ports |-> PortFigures(Data("ports", <<>>)),
         warned |-> ~Data("binary", TRUE)]

\* Start is offered as long as no status says that the kernel runs.
OfferedQuick(b) ==
  /\ quick[b].phase = "idle"
  /\ CASE b = "start" -> ~isRunning
       [] b = "testAll" -> DOMAIN NodesShown # {}
       [] OTHER -> isRunning

-----------------------------------------------------------------------------
\* The queries: the status has a timer.
StatusInterval ==
  /\ ~Fetching(queries["running"]) /\ queries' = [queries EXCEPT !["running"] = Fetch(@)]
  /\ UNCHANGED <<world, quick, notice, behind, presses, changes>>

QueryRead(f) ==
  /\ queries[f].phase = "sent" /\ queries' = [queries EXCEPT ![f] = Read(@, world[f])]
  /\ behind' = behind \ {f}
  /\ UNCHANGED <<world, quick, notice, presses, changes>>

QueryAnswer(f) ==
  /\ queries[f].phase = "read" /\ queries' = [queries EXCEPT ![f] = Answered(@)]
  /\ UNCHANGED <<world, quick, notice, behind, presses, changes>>

QueryFails(f) ==
  /\ Fetching(queries[f]) /\ queries' = [queries EXCEPT ![f] = Failed(@)]
  /\ UNCHANGED <<world, quick, notice, behind, presses, changes>>

-----------------------------------------------------------------------------
\* The quick actions: a click (the test asks for confirmation first), and the server.
Press(b) ==
  /\ presses < MaxPresses /\ presses' = presses + 1 /\ OfferedQuick(b)
  /\ quick' = [quick EXCEPT ![b] = [Resting EXCEPT !.phase = "sent"]]
  /\ UNCHANGED <<world, queries, notice, behind, changes>>

\* Start needs a stopped kernel and reload a running one; each answers with the status.
Handle(b) ==
  /\ quick[b].phase = "sent" /\ b # "testAll"
  /\ \/ /\ b = "stop" \/ world.running = (b = "reload")
        /\ world' = [world EXCEPT !.running = (b # "stop")]
        /\ quick' = [quick EXCEPT ![b].phase = "done", ![b].answer = (b # "stop")]
     \/ quick' = [quick EXCEPT ![b].phase = "refused"] /\ UNCHANGED world
  /\ UNCHANGED <<queries, notice, behind, presses, changes>>

\* ExecuteNodeTests: the nodes are found, tested, and their results stored one by one; an
\* error ends the test with part of them stored.
FindAll ==
  /\ quick["testAll"].phase = "sent"
  /\ quick' = [quick EXCEPT !["testAll"].phase = "storing",
                            !["testAll"].left = DOMAIN world.inventory]
  /\ UNCHANGED <<world, queries, notice, behind, presses, changes>>

StoreResult ==
  /\ quick["testAll"].phase = "storing"
  /\ \E n \in quick["testAll"].left, r \in Results \ {Untested} :
       /\ quick' = [quick EXCEPT !["testAll"].left = @ \ {n}]
       /\ world' = [world EXCEPT !.inventory =
                      IF n \in DOMAIN @ THEN [@ EXCEPT ![n] = r] ELSE @]
  /\ UNCHANGED <<queries, notice, behind, presses, changes>>

TestEnds ==
  /\ quick["testAll"].phase = "storing"
  /\ \E phase \in IF quick["testAll"].left = {} THEN {"done"} ELSE {"refused"} :
       quick' = [quick EXCEPT !["testAll"].phase = phase, !["testAll"].left = {}]
  /\ UNCHANGED <<world, queries, notice, behind, presses, changes>>

Stored(q, d) == [q EXCEPT !.data = <<d>>, !.failed = FALSE]

\* Mutant: the answer of an action on the kernel is only written into the cache.
Renewed_SetsOnly(b) ==
  IF b = "testAll" THEN [queries EXCEPT !["inventory"] = Invalidated(@)]
  ELSE [queries EXCEPT !["running"] = Stored(@, quick[b].answer)]

\* onSuccess: what the action may have changed is asked for again.
Renewed(b) ==
  IF b = "testAll" THEN [queries EXCEPT !["inventory"] = Invalidated(@)]
  ELSE [queries EXCEPT !["running"] = Invalidated(Stored(@, quick[b].answer))]

PressSucceeds(b) ==
  /\ quick[b].phase = "done" /\ quick' = [quick EXCEPT ![b] = Resting]
  /\ queries' = Renewed(b) /\ notice' = IF b = "stop" THEN "info" ELSE "success"
  /\ UNCHANGED <<world, behind, presses, changes>>

\* onError, or a lost answer: a message and nothing else.
PressFails(b) ==
  /\ quick[b].phase \in {"done", "refused"} /\ quick' = [quick EXCEPT ![b] = Resting]
  /\ notice' = "danger"
  /\ behind' = behind \union (CASE b = "testAll" -> {"inventory"}
                                [] b # "testAll" /\ quick[b].phase = "done" -> {"running"}
                                [] OTHER -> {})
  /\ UNCHANGED <<world, queries, presses, changes>>

-----------------------------------------------------------------------------
\* Another page, another operator or the kernel's exit.
ChangedElsewhere ==
  /\ changes < MaxChanges /\ changes' = changes + 1
  /\ \E f \in Facets :
       /\ \E v \in CASE f = "inventory" -> {[n \in DOMAIN world.inventory \ {d} |->
                                               world.inventory[n]] : d \in NodeIds}
                     [] f = "ports" -> {Append(world.ports, TRUE)}
                     [] OTHER -> {~world[f]} :
            world' = [world EXCEPT ![f] = v]
       /\ behind' = behind \union {f}
  /\ UNCHANGED <<queries, quick, notice, presses>>

DashboardNext ==
  \/ StatusInterval \/ FindAll \/ StoreResult \/ TestEnds \/ ChangedElsewhere
  \/ \E f \in Facets : QueryRead(f) \/ QueryAnswer(f) \/ QueryFails(f)
  \/ \E b \in Quick : Press(b) \/ Handle(b) \/ PressSucceeds(b) \/ PressFails(b)

DashboardSpec == DashboardInit /\ [][DashboardNext]_dashboardVars

-----------------------------------------------------------------------------
DashboardTypeOK ==
  /\ world.running \in BOOLEAN /\ world.inventory \in Inventories
  /\ world.ports \in Seq(BOOLEAN) /\ world.binary \in BOOLEAN
  /\ IsQueryOf(queries["running"], BOOLEAN) /\ IsQueryOf(queries["inventory"], Inventories)
  /\ IsQueryOf(queries["ports"], Seq(BOOLEAN)) /\ IsQueryOf(queries["binary"], BOOLEAN)
  /\ quick \in [Quick -> [phase : {"idle", "sent", "storing", "done", "refused"},
                          answer : BOOLEAN, left : SUBSET NodeIds]]
  /\ notice \in {"none", "success", "info", "danger"} /\ behind \subseteq Facets
  /\ presses \in 0 .. MaxPresses /\ changes \in 0 .. MaxChanges

\* Reload and stop can be under way together, beside the status timer, and their answers
\* overwrite the status in any order; a test stores results while the list is being read.
\* When all of it has been answered, the numbers on the page are those of the server
\* (dashboard-overview.tsx:65-131, 133-216).
OverviewCurrent ==
  LET Settled(f) == ~Fetching(queries[f]) /\ ~queries[f].failed /\ f \notin behind
  IN  /\ Settled("running") /\ (\A b \in Quick \ {"testAll"} : quick[b] = Resting)
           => Page.running = world.running
      /\ Settled("inventory") /\ quick["testAll"] = Resting
           => /\ Page.numbers = Numbers(world.inventory)
              /\ Page.pills = Distribution(world.inventory)
=============================================================================
