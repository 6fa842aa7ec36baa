----------------------------- MODULE NodeTests -----------------------------
(***************************************************************************)
(* The tests of several nodes (service/proxy_node.go, runNodeTests;        *)
(* pkg/kernel/mihomo_node_tester.go): workers take nodes from a channel,   *)
(* start a kernel for each on a local port, ask a URL through it and kill  *)
(* it; then the results are stored, in the order of the nodes.             *)
(*                                                                         *)
(* Every wait has a deadline, so each may fail at any time.                *)
(***************************************************************************)
EXTENDS Integers, Sequences, FiniteSets

CONSTANTS
  TestedNodes,   \* nodes[0 .. len-1]: the nodes are 1 .. TestedNodes
  Parallel,      \* maxNodeTestParallelism
  LocalPorts     \* bound: ports the system gives

\* What the constants are: assumed where they get their values.
NodeTestsAssumption ==
  /\ TestedNodes \in Nat \ {0} /\ Parallel \in Nat \ {0}
  /\ LocalPorts # {} /\ LocalPorts \subseteq Nat \ {0}

\* minNodeTestWorkerCount
Workers == 1 .. IF TestedNodes < Parallel THEN TestedNodes ELSE Parallel
Tested == 1 .. TestedNodes

VARIABLES
  caller,     \* "feeding", "waiting", "storing", then "done" or "failed"
  nextIndex,  \* the node to be sent on jobs; TestedNodes + 1 once jobs is closed
  worker,     \* worker -> [at, node, port]
  child,      \* node -> its kernel: "none", "starting", "bound", "deaf", "dead"
  resultsCh,  \* what was sent: [node, via], via the node whose kernel was asked; 0: an error
  kept,       \* the nodes whose results are stored
  sharing     \* history: nodes whose port another worker had at the same time

testVars == <<caller, nextIndex, worker, child, resultsCh, kept, sharing>>

NodeTestsInit ==
  /\ caller = "feeding" /\ nextIndex = 1
  /\ worker = [w \in Workers |-> [at |-> "idle", node |-> 0, port |-> 0]]
  /\ child = [n \in Tested |-> "none"]
  /\ resultsCh = <<>> /\ kept = <<>> /\ sharing = {}

Pool == UNCHANGED <<caller, nextIndex>>
Move(w, at) == worker' = [worker EXCEPT ![w].at = at]
Alive(n) == child[n] \in {"starting", "bound", "deaf"}

\* The workers whose kernels listen on a port, at most one.
Listening(port) == {w \in Workers : worker[w].port = port /\ worker[w].node # 0
                                    /\ child[worker[w].node] = "bound"}

-----------------------------------------------------------------------------
\* The caller.  jobs has no buffer: a node is sent to a worker that waits for it.
Feed(w) ==
  /\ caller = "feeding" /\ nextIndex <= TestedNodes /\ worker[w].at = "idle"
  /\ worker' = [worker EXCEPT ![w] = [at |-> "begun", node |-> nextIndex, port |-> 0]]
  /\ nextIndex' = nextIndex + 1
  /\ UNCHANGED <<caller, child, resultsCh, kept, sharing>>

CloseJobs ==
  /\ caller = "feeding" /\ nextIndex > TestedNodes /\ caller' = "waiting"
  /\ UNCHANGED <<nextIndex, worker, child, resultsCh, kept, sharing>>

\* wg.Wait: jobs is closed and every worker has found it empty.
Wait ==
  /\ caller = "waiting" /\ caller' = "storing"
  /\ \A w \in Workers : worker[w].at = "idle"
  /\ UNCHANGED <<nextIndex, worker, child, resultsCh, kept, sharing>>

\* The results in the order of their nodes; the first that cannot be stored ends it.
StoreResult ==
  /\ caller = "storing"
  /\ LET left == {k \in DOMAIN resultsCh : resultsCh[k].node \notin {kept[j] : j \in DOMAIN kept}}
     IN  IF left = {} THEN caller' = "done" /\ UNCHANGED kept
         ELSE \/ caller' = "failed" /\ UNCHANGED kept
              \/ \E k \in left : /\ \A j \in left : resultsCh[k].node <= resultsCh[j].node
                                 /\ kept' = Append(kept, resultsCh[k].node) /\ UNCHANGED caller
  /\ UNCHANGED <<nextIndex, worker, child, resultsCh, sharing>>

-----------------------------------------------------------------------------
\* A worker.
Result(w, via) ==
  /\ resultsCh' = Append(resultsCh, [node |-> worker[w].node, via |-> via])
  /\ worker' = [worker EXCEPT ![w] = [at |-> "idle", node |-> 0, port |-> 0]]

\* The node's data are no proxy, there is no port, no file, no program.
Unstarted(w) ==
  /\ worker[w].at \in {"begun", "ported"} /\ Result(w, 0)
  /\ Pool /\ UNCHANGED <<child, kept, sharing>>

\* allocateLocalPort: a port on which nobody listens; it is let go again at once.
allocateLocalPort(w) ==
  /\ worker[w].at = "begun"
  /\ \E port \in LocalPorts :
       LET others == {v \in Workers \ {w} : worker[v].port = port}
       IN  /\ Listening(port) = {}
           /\ worker' = [worker EXCEPT ![w].at = "ported", ![w].port = port]
           /\ sharing' = IF others = {} THEN sharing
                         ELSE sharing \union {worker[v].node : v \in others \union {w}}
  /\ Pool /\ UNCHANGED <<child, resultsCh, kept>>

StartChild(w) ==
  /\ worker[w].at = "ported" /\ Move(w, "waiting")
  /\ child' = [child EXCEPT ![worker[w].node] = "starting"]
  /\ Pool /\ UNCHANGED <<resultsCh, kept, sharing>>

\* waitForProxyPort: someone listens on the port.
PortOpen(w) ==
  /\ worker[w].at = "waiting" /\ Listening(worker[w].port) # {} /\ Move(w, "asking")
  /\ Pool /\ UNCHANGED <<child, resultsCh, kept, sharing>>

\* terminateProcess, then the result.
Terminate(w, via) ==
  /\ child' = [child EXCEPT ![worker[w].node] = "dead"]
  /\ Result(w, via) /\ Pool /\ UNCHANGED <<kept, sharing>>

\* Mutant: a kernel that does not open its port is left alone.
WaitFails_Leaves(w) ==
  /\ worker[w].at = "waiting" /\ Result(w, 0)
  /\ Pool /\ UNCHANGED <<child, kept, sharing>>

\* The kernel has exited, or the time is up, or the request was cancelled.
WaitFails(w) == worker[w].at = "waiting" /\ Terminate(w, 0)

\* executeHTTPRequestThroughProxy: whoever listens on the port is asked, if anyone does.
Ask(w) ==
  /\ worker[w].at = "asking"
  /\ \/ Terminate(w, 0)
     \/ \E v \in Listening(worker[w].port) : Terminate(w, worker[v].node)

-----------------------------------------------------------------------------
\* The kernels.  One that finds its port taken goes on without it or gives up.
ChildBinds(w) ==
  /\ worker[w].node # 0 /\ child[worker[w].node] = "starting"
  /\ child' = [child EXCEPT ![worker[w].node] =
       IF Listening(worker[w].port) = {} THEN "bound" ELSE "deaf"]
  /\ UNCHANGED <<caller, nextIndex, worker, resultsCh, kept, sharing>>

ChildExits(n) ==
  /\ Alive(n) /\ child' = [child EXCEPT ![n] = "dead"]
  /\ UNCHANGED <<caller, nextIndex, worker, resultsCh, kept, sharing>>

NodeTestsNext ==
  \/ CloseJobs \/ Wait \/ StoreResult
  \/ \E w \in Workers :
       \/ Feed(w) \/ Unstarted(w) \/ allocateLocalPort(w) \/ StartChild(w)
       \/ PortOpen(w) \/ WaitFails(w) \/ Ask(w) \/ ChildBinds(w)
  \/ \E n \in Tested : ChildExits(n)

NodeTestsSpec == NodeTestsInit /\ [][NodeTestsNext]_testVars

-----------------------------------------------------------------------------
NodeTestsTypeOK ==
  /\ caller \in {"feeding", "waiting", "storing", "done", "failed"}
  /\ nextIndex \in 1 .. TestedNodes + 1
  /\ worker \in [Workers -> [at : {"idle", "begun", "ported", "waiting", "asking"},
                             node : Tested \union {0}, port : LocalPorts \union {0}]]
  /\ child \in [Tested -> {"none", "starting", "bound", "deaf", "dead"}]
  /\ \A k \in DOMAIN resultsCh : resultsCh[k] \in [node : Tested, via : Tested \union {0}]
  /\ \A k \in DOMAIN kept : kept[k] \in Tested
  /\ sharing \subseteq Tested

(* The pool neither loses a node nor tests one twice, the channel of the results never blocks *)
(* a worker, and what is stored is stored in the order of the nodes; a kernel does not        *)
(* outlive the test it was started for; and what a test has measured went through its own     *)
(* kernel, unless the system gave its port away a second time between allocateLocalPort and   *)
(* the kernel's bind (proxy_node.go:222-271, mihomo_node_tester.go:76-115).                   *)
PoolSound ==
  /\ Len(resultsCh) <= TestedNodes
  /\ caller \in {"storing", "done", "failed"}
       => {resultsCh[k].node : k \in DOMAIN resultsCh} = Tested
  /\ \A k \in DOMAIN kept : kept[k] = k
  /\ caller = "done" => Len(kept) = TestedNodes
  /\ \A n \in Tested : Alive(n) => \E w \in Workers : worker[w].node = n
  /\ \A k \in DOMAIN resultsCh :
       LET r == resultsCh[k]
       IN  r.via \notin {0, r.node} => r.node \in sharing
=============================================================================
