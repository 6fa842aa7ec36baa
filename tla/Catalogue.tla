----------------------------- MODULE Catalogue -----------------------------
(***************************************************************************)
(* The tables of nodes, port profiles, their memberships and their         *)
(* snapshots under requests that overlap (internal/service/proxy_node.go,  *)
(* port_profile.go, source_config.go).                                     *)
(*                                                                         *)
(* Each handler asks the database several times before it writes; a        *)
(* statement or a transaction is a step, since SQLite has one writer at a  *)
(* time.  Any request may end with an error before its next step: a busy   *)
(* database, or its process dies.  Of a node the row is its fingerprint,   *)
(* of a profile its name and its mixed port, 0 for none.                   *)
(***************************************************************************)
EXTENDS Integers, Sequences, FiniteSets, Functions

CONSTANTS
  Callers,      \* goroutines that serve requests
  Fingerprints,
  FirstNodes,   \* fingerprints of the nodes there are at first
  ProfileRows,  \* names with mixed ports, 0 for none
  Folded,       \* strings.ToLower: name -> name
  Unfolded,     \* names that SQLite's lower leaves capitals in, which folds ASCII only
  NodeSets,     \* the nodes a profile may be saved with
  MaxNodeId, MaxProfileId,  \* bounds: rows that are ever inserted
  MaxCalls      \* bound: requests

\* What the constants are: assumed where they get their values.
CatalogueAssumption ==
  /\ IsFiniteSet(Fingerprints) /\ FirstNodes \subseteq Fingerprints
  /\ \A row \in ProfileRows : row.port \in Nat /\ row.name \in DOMAIN Folded
  /\ {MaxNodeId, MaxProfileId, MaxCalls} \subseteq Nat
  /\ NodeSets \subseteq SUBSET (1 .. MaxNodeId) \ {{}}
  /\ Cardinality(FirstNodes) <= MaxNodeId

VARIABLES
  nodes,      \* id -> fingerprint, of the rows there are
  profiles,   \* id -> name and mixed port
  members,    \* <<profile, node>>: rows of PortProfileNode
  snapshots,  \* profile id -> what the stored RuntimeConfig was rendered from
  given,      \* the ids given out: they are never given again
  call,       \* caller -> its request and what it has read
  blind,      \* history: pairs of profiles of which the later written had been checked before
              \* the other was written
  late,       \* history: profiles written or deleted between render and store of a snapshot
  dangling,   \* history: memberships written while there was no such node
  callsMade   \* counter of the bound

tables == <<nodes, profiles, members, snapshots, given>>
history == <<blind, late, dangling>>
catalogueVars == <<tables, call, history, callsMade>>

NodeIds == 1 .. MaxNodeId
ProfileIds == 1 .. MaxProfileId
Idle == [at |-> "idle"]
Put(f, id, row) == [x \in DOMAIN f \union {id} |-> IF x = id THEN row ELSE f[x]]
Without(f, ids) == Restrict(f, DOMAIN f \ ids)
Enumerated(n, S) == CHOOSE f \in Bijection(n + 1 .. n + Cardinality(S), S) : TRUE

CatalogueInit ==
  /\ nodes = Enumerated(0, FirstNodes)
  /\ profiles \in {<<>>} \union {<<row>> : row \in ProfileRows}
  /\ members = (DOMAIN profiles) \X (DOMAIN nodes) /\ snapshots = <<>>
  /\ given = [nodes |-> Cardinality(FirstNodes), profiles |-> Len(profiles)]
  /\ call = [r \in Callers |-> Idle]
  /\ blind = {} /\ late = {} /\ dangling = {} /\ callsMade = 0

\* A request comes in; its first look is part of it.
Called(r, request) ==
  /\ call[r] = Idle /\ callsMade < MaxCalls /\ callsMade' = callsMade + 1
  /\ call' = [call EXCEPT ![r] = request]
  /\ UNCHANGED <<tables, history>>

At(r, place) == call[r].at = place
GoOn(r, request) == call' = [call EXCEPT ![r] = request] /\ UNCHANGED <<tables, history, callsMade>>
GoTo(r, place) == GoOn(r, [call[r] EXCEPT !.at = place])
Refused(r) == GoOn(r, Idle)

\* Profile id is written or deleted by r, whose request ends with that; the requests that
\* have looked at the profiles before missed it.
Missed(r, id) ==
  call' = [q \in Callers |->
    IF q = r THEN Idle
    ELSE IF "missed" \in DOMAIN call[q] THEN [call[q] EXCEPT !.missed = @ \union {id}]
    ELSE call[q]]

-----------------------------------------------------------------------------
(* Port profiles *)

\* normalizePortProfilePayload wants a node; nobody looks whether the nodes exist.
SavePortProfile(r, id) ==
  \E row \in ProfileRows, set \in NodeSets :
    Called(r, [at |-> "name", id |-> id, row |-> row, set |-> set, missed |-> {}])

CreatePortProfile(r) == SavePortProfile(r, 0)
UpdatePortProfile(r) == \E id \in 1 .. given.profiles : SavePortProfile(r, id)

\* The two counts of validatePortProfileUniqueness, which leave the profile itself out.
Others(r) == {profiles[i] : i \in DOMAIN profiles \ {call[r].id}}

\* A stored name is lowered by SQLite, the new one by Go.
SameName(stored, name) == stored \notin Unfolded /\ Folded[stored] = Folded[name]

NameLookedUp(r) ==
  /\ At(r, "name")
  /\ IF \E row \in Others(r) : SameName(row.name, call[r].row.name)
     THEN Refused(r) ELSE GoTo(r, "port")

\* Mutant: the port is compared for new profiles only.
PortLookedUp_CreateOnly(r) ==
  /\ At(r, "port")
  /\ IF /\ call[r].id = 0 /\ call[r].row.port > 0
        /\ \E row \in Others(r) : row.port = call[r].row.port
     THEN Refused(r)
     ELSE GoTo(r, IF call[r].id = 0 THEN "save" ELSE "find")

PortLookedUp(r) ==
  /\ At(r, "port")
  /\ IF call[r].row.port > 0 /\ \E row \in Others(r) : row.port = call[r].row.port
     THEN Refused(r)
     ELSE GoTo(r, IF call[r].id = 0 THEN "save" ELSE "find")

ProfileFound(r) ==
  /\ At(r, "find")
  /\ IF call[r].id \in DOMAIN profiles THEN GoTo(r, "save") ELSE Refused(r)

\* The transaction.  Save inserts a row that is not there any more.
ProfileSaved(r) ==
  /\ At(r, "save")
  /\ LET c == call[r]
         id == IF c.id = 0 THEN given.profiles + 1 ELSE c.id
     IN  /\ id \in ProfileIds
         /\ profiles' = Put(profiles, id, c.row)
         /\ given' = [given EXCEPT !.profiles = IF c.id = 0 THEN id ELSE @]
         /\ members' = {m \in members : m[1] # id} \union ({id} \X c.set)
         /\ snapshots' = IF c.id = 0 THEN snapshots ELSE Without(snapshots, {id})
         /\ blind' = {b \in blind : id \notin b} \union {{id, p} : p \in c.missed \ {id}}
         /\ late' = late \ {id}
         /\ dangling' = {m \in dangling : m[1] # id} \union ({id} \X (c.set \ DOMAIN nodes))
         /\ Missed(r, id)
  /\ UNCHANGED <<nodes, callsMade>>

\* One transaction.
DeletePortProfile(r, id) ==
  /\ call[r] = Idle /\ callsMade < MaxCalls /\ callsMade' = callsMade + 1
  /\ members' = {m \in members : m[1] # id}
  /\ snapshots' = Without(snapshots, {id}) /\ profiles' = Without(profiles, {id})
  /\ late' = late \ {id} /\ dangling' = {m \in dangling : m[1] # id}
  /\ Missed(r, id)
  /\ UNCHANGED <<nodes, given, blind>>

-----------------------------------------------------------------------------
(* Snapshots: SaveRuntimePreview *)

SaveRuntimePreview(r) ==
  \E id \in DOMAIN profiles :
    Called(r, [at |-> "nodes", id |-> id, missed |-> {}, from |-> profiles[id], set |-> {}])

\* The memberships, then the nodes: every one has to be there.
NodesResolved(r) ==
  LET set == {m[2] : m \in {m \in members : m[1] = call[r].id}}
  IN  /\ At(r, "nodes")
      /\ IF set # {} /\ set \subseteq DOMAIN nodes
         THEN GoOn(r, [call[r] EXCEPT !.at = "look", !.set = set])
         ELSE Refused(r)

\* FirstOrCreate looks for the row.  One that is there is read into the very record that
\* Assign was given, so the update that follows writes what was read: it changes nothing.
SnapshotLookedUp(r) ==
  At(r, "look") /\ IF call[r].id \in DOMAIN snapshots THEN Refused(r) ELSE GoTo(r, "store")

\* Else it inserts one, which fails on the unique index if there is one by now.
SnapshotStored(r) ==
  LET c == call[r]
  IN  /\ At(r, "store")
      /\ IF c.id \in DOMAIN snapshots
         THEN Refused(r)
         ELSE /\ call' = [call EXCEPT ![r] = Idle]
              /\ snapshots' = Put(snapshots, c.id, [row |-> c.from, set |-> c.set])
              /\ late' = IF c.id \in c.missed THEN late \union {c.id} ELSE late
              /\ UNCHANGED <<nodes, profiles, members, given, blind, dangling, callsMade>>

-----------------------------------------------------------------------------
(* Nodes *)

\* r ends with rows that were not there; history: the imports that looked before missed them.
Overtakes(r) ==
  call' = [q \in Callers |->
    IF q = r THEN Idle
    ELSE IF call[q].at = "import" THEN [call[q] EXCEPT !.overtaken = TRUE]
    ELSE call[q]]

\* The row is read ...
SetProxyNodeEnabled(r) ==
  \E id \in DOMAIN nodes : Called(r, [at |-> "enable", id |-> id, held |-> nodes[id]])

\* ... and saved, inserted if it is not there any more, unless its fingerprint is by now.
NodeSaved(r) ==
  LET c == call[r]
  IN  /\ At(r, "enable")
      /\ IF \E id \in DOMAIN nodes \ {c.id} : nodes[id] = c.held
         THEN Refused(r)
         ELSE /\ nodes' = Put(nodes, c.id, c.held)
              /\ IF c.id \in DOMAIN nodes THEN call' = [call EXCEPT ![r] = Idle] ELSE Overtakes(r)
              /\ UNCHANGED <<profiles, members, snapshots, given, history, callsMade>>

\* The nodes of a list go one by one, each looked up before its transaction.
DeleteProxyNodes(r) ==
  \E ids \in SUBSET NodeIds \ {{}} : Called(r, [at |-> "each", left |-> ids, id |-> 0])

NodeLookedUp(r) ==
  /\ At(r, "each")
  /\ IF call[r].left = {} THEN Refused(r)
     ELSE \E id \in call[r].left :
       IF id \in DOMAIN nodes
       THEN GoOn(r, [at |-> "remove", left |-> call[r].left \ {id}, id |-> id])
       ELSE Refused(r)

DeleteProxyNode(r) ==
  /\ At(r, "remove")
  /\ LET id == call[r].id
     IN  /\ nodes' = Without(nodes, {id})
         /\ members' = {m \in members : m[2] # id}
         /\ dangling' = {m \in dangling : m[2] # id}
  /\ call' = [call EXCEPT ![r].at = "each"]
  /\ UNCHANGED <<profiles, snapshots, given, blind, late, callsMade>>

\* The fingerprints there are already are left out ...
ImportSourceConfig(r) ==
  \E selected \in SUBSET Fingerprints :
    LET new == selected \ Range(nodes)
    IN  /\ new # {}
        /\ Called(r, [at |-> "import", new |-> new, overtaken |-> FALSE])

\* ... and the others inserted, all of them or none: fingerprints have a unique index.
NodesInserted(r) ==
  LET new == call[r].new
      last == given.nodes + Cardinality(new)
      rows == Enumerated(given.nodes, new)
  IN  /\ At(r, "import")
      /\ IF new \intersect Range(nodes) # {}
         THEN Refused(r)
         ELSE /\ last <= MaxNodeId
              /\ nodes' = [id \in DOMAIN nodes \union DOMAIN rows |->
                            IF id \in DOMAIN nodes THEN nodes[id] ELSE rows[id]]
              /\ given' = [given EXCEPT !.nodes = last]
              /\ Overtakes(r)
              /\ UNCHANGED <<profiles, members, snapshots, history, callsMade>>

\* A statement fails: the request ends with an error.
StatementFails(r) == call[r] # Idle /\ Refused(r)

-----------------------------------------------------------------------------
CatalogueNext == \E r \in Callers :
  \/ CreatePortProfile(r) \/ UpdatePortProfile(r)
  \/ NameLookedUp(r) \/ PortLookedUp(r) \/ ProfileFound(r) \/ ProfileSaved(r)
  \/ \E id \in 1 .. given.profiles : DeletePortProfile(r, id)
  \/ SaveRuntimePreview(r) \/ NodesResolved(r) \/ SnapshotLookedUp(r) \/ SnapshotStored(r)
  \/ SetProxyNodeEnabled(r) \/ NodeSaved(r)
  \/ DeleteProxyNodes(r) \/ NodeLookedUp(r) \/ DeleteProxyNode(r)
  \/ ImportSourceConfig(r) \/ NodesInserted(r) \/ StatementFails(r)

CatalogueSpec == CatalogueInit /\ [][CatalogueNext]_catalogueVars

-----------------------------------------------------------------------------
CatalogueTypeOK ==
  /\ DOMAIN nodes \subseteq NodeIds /\ Range(nodes) \subseteq Fingerprints
  /\ DOMAIN profiles \subseteq ProfileIds /\ Range(profiles) \subseteq ProfileRows
  /\ members \subseteq ProfileIds \X NodeIds
  /\ DOMAIN snapshots \subseteq ProfileIds
  /\ Range(snapshots) \subseteq [row : ProfileRows, set : SUBSET NodeIds]
  /\ given \in [nodes : 0 .. MaxNodeId, profiles : 0 .. MaxProfileId]
  /\ \A r \in Callers : call[r].at \in {"idle", "name", "port", "find", "save", "nodes", "look",
       "store", "enable", "each", "remove", "import"}
  /\ blind \subseteq SUBSET ProfileIds /\ late \subseteq ProfileIds
  /\ dangling \subseteq ProfileIds \X NodeIds /\ callsMade \in 0 .. MaxCalls

\* No node is there twice, although a saved copy may bring a deleted one back beside an
\* import of the same source (proxy_node.go:99-106, source_config.go:191-260).
NodesOnce == IsInjective(nodes)

\* A membership belongs to a profile that exists, and to a node that exists unless it did
\* not when the profile was saved (proxy_node.go:112-119, port_profile.go:133-146).
MembersLive ==
  \A m \in members : m[1] \in DOMAIN profiles /\ (m[2] \in DOMAIN nodes \/ m \in dangling)

\* Two profiles have one name, but for the case of its letters, or one mixed port only if each
\* was checked before the other was written (port_profile.go:67-69, 100-102, 318-351).  A
\* name with capitals beyond ASCII is never found once it is stored: the code lets the next
\* profile have the same.
TwinsOverlapped ==
  \A p, q \in DOMAIN profiles :
    /\ p # q
    /\ \/ /\ {profiles[p].name, profiles[q].name} \intersect Unfolded = {}
          /\ Folded[profiles[p].name] = Folded[profiles[q].name]
       \/ profiles[p].port = profiles[q].port /\ profiles[p].port > 0
    => {p, q} \in blind

\* A snapshot is of its profile's present values, with every node the profile still has,
\* unless the profile was written or deleted while the snapshot was made
\* (port_profile.go:118-128, 133-146, 205-223).
SnapshotsFollow ==
  \A p \in DOMAIN snapshots \ late :
    /\ p \in DOMAIN profiles /\ snapshots[p].row = profiles[p]
    /\ \A m \in members : m[1] = p => m[2] \in snapshots[p].set

\* An import fails on the unique index only if rows came in after it had looked, by another
\* import or a saved copy; else it leaves out what is there (source_config.go:191-224).
ImportsMeet ==
  \A r \in Callers :
    At(r, "import") /\ ~call[r].overtaken => call[r].new \intersect Range(nodes) = {}

CatalogueSound ==
  NodesOnce /\ MembersLive /\ TwinsOverlapped /\ SnapshotsFollow /\ ImportsMeet
=============================================================================
