------------------------------ MODULE MCRuntime ------------------------------
EXTENDS Runtime, FiniteSets, TLC

Symmetry == Permutations(Pids) \cup Permutations(Configs) \cup Permutations(Callers)

\* Bounds of the concurrent runs.  The profiles always render and no reload is applied
\* late: both happen in the serial runs.
RendersAlways == desired # None /\ \A p \in Pids : ~late[p]

\* After a write that failed or a restart of the server at most one request is under
\* way, whatever the requests before it left behind.  The theorems need neither bound.
OneAfterMishap == mishaps > 0 => Cardinality({c \in Callers : pc[c] # "idle"}) <= 1
=============================================================================
