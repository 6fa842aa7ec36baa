---------------------------- MODULE KernelService ----------------------------
(***************************************************************************)
(* What PoolX promises its operator about the proxy kernel, without saying  *)
(* how: at most one kernel lives, a new one is launched only when none      *)
(* lives, a process that ended never comes back, and the living kernel only *)
(* ever runs configurations PoolX rendered.                                 *)
(***************************************************************************)
CONSTANTS Ids, Configs, None

VARIABLES
  live,    \* the kernel processes that are running
  used,    \* the processes ever launched
  config   \* what the living kernel runs, None before it has loaded anything

abstractVars == <<live, used, config>>

Init == live = {} /\ used = {} /\ config = None

Launch(i) ==
  /\ live = {}
  /\ i \notin used
  /\ live' = {i}
  /\ used' = used \cup {i}
  /\ config' = None

\* The kernel loads its first configuration or is hot-reloaded.
Load(f) ==
  /\ live # {}
  /\ config' = f
  /\ UNCHANGED <<live, used>>

End ==
  /\ live # {}
  /\ live' = {}
  /\ config' = None
  /\ UNCHANGED used

Next == (\E i \in Ids : Launch(i)) \/ (\E f \in Configs : Load(f)) \/ End

Spec == Init /\ [][Next]_abstractVars
=============================================================================
