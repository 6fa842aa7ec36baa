---------------------------- MODULE ServerProofs ----------------------------
(***************************************************************************)
(* What holds of four parts of the server, for any programs, requests,     *)
(* rows, keys, writers, browsers and bounds: of the schema of the database *)
(* and its version, in whatever order programs follow each other and       *)
(* wherever a start is cut off; of the tables of nodes, profiles,          *)
(* memberships and snapshots, however requests overlap and fail; of the    *)
(* limit in memory; and of the live log of an upgrade.                     *)
(***************************************************************************)
EXTENDS SchemaMigration, Catalogue, RateLimiter, UpgradeStream,
  SequenceTheorems, FiniteSetTheorems, TLAPS

-----------------------------------------------------------------------------
(* The schema and its version. *)

\* What the values are, as far as the proof needs it.
SchemaTyped ==
  /\ existing \subseteq Nat /\ version \in Nat \union {NoVersion} /\ at \in Nat
  /\ copies \in {0, 1} /\ program \in Programs
  /\ startPc \in {"off", "load", "adopt", "initialize", "save", "upgrade", "root", "up"}

\* The version on record is that of a table of its own, and names tables that exist.
Recorded == version # NoVersion => meta /\ 1 .. version \subseteq existing

\* Where a start is, and what it has made sure of by then: no statement needs more of the
\* database than the ones before it left.
Progress ==
  /\ startPc = "initialize" => data = {}
  /\ startPc = "save" => Validate
  /\ startPc = "upgrade" => meta /\ (at = 0 \/ version = at)
  /\ startPc \in {"root", "up"} => version = program /\ Needed \subseteq existing

\* The SQLite data: none are copied into a database that holds something, and a fresh one that
\* holds something or has a version has them.
Brought ==
  /\ data = {} => copies = 0
  /\ source /\ fresh =>
       /\ version # NoVersion \/ data # {} => copies = 1
       /\ startPc \in {"adopt", "save", "upgrade", "root", "up"} => copies = 1

SchemaInv == SchemaTyped /\ Recorded /\ Progress /\ Brought

-----------------------------------------------------------------------------
\* Tables of a version that grows past those of a lower one.
LEMMA SegmentGrows ==
  ASSUME NEW m \in Nat, NEW n \in Nat, m <= n
  PROVE  1 .. m \subseteq 1 .. n /\ 1 .. m \subseteq Nat
OBVIOUS

\* The first state: nothing is recorded, nothing copied.
LEMMA InitSchema == ASSUME SchemaAssumption PROVE SchemaInit => SchemaInv
BY DEF SchemaAssumption, SchemaInit, SchemaInv, SchemaTyped, Recorded, Progress, Brought, NoVersion

\* No step takes it away.
LEMMA NextSchema ==
  ASSUME SchemaAssumption PROVE SchemaInv /\ [SchemaNext]_schemaVars => SchemaInv'
<1> SUFFICES ASSUME SchemaInv, [SchemaNext]_schemaVars PROVE SchemaInv'
  OBVIOUS
<1> USE DEF SchemaAssumption, SchemaInv, SchemaTyped, Recorded, Progress, Brought, NoVersion,
  StartGoto, place, database
<1>1. ASSUME NEW p \in Programs, Start(p) PROVE SchemaInv'
  BY <1>1 DEF Start
<1>2. CASE Apply
  BY <1>2 DEF Apply
<1>3. CASE ensureSchemaMeta
  BY <1>3 DEF ensureSchemaMeta
<1>4. CASE CreateMeta
  BY <1>4 DEF CreateMeta
<1>5. CASE CreateTable
  BY <1>5 DEF CreateTable, Needed, Validate
<1>6. CASE migrateSQLiteDataIfNeeded
  BY <1>6 DEF migrateSQLiteDataIfNeeded, Validate, Needed
<1>7. CASE SaveFirstVersion
  <2>1. Validate /\ 1 .. 0 = {}
    BY <1>7 DEF SaveFirstVersion
  <2>2. /\ version' = 0 /\ at' = 0 /\ startPc' = "upgrade"
        /\ UNCHANGED <<place, program, existing, meta, data, copies>>
    BY <1>7, <2>1 DEF SaveFirstVersion
  <2>3. QED
    BY <1>7, <2>1, <2>2 DEF SaveFirstVersion, Validate
<1>8. CASE Lower
  <2>1. /\ version = at /\ program \in Nat /\ program <= at /\ program # NoVersion
        /\ meta /\ at # NoVersion /\ 1 .. at \subseteq existing
    BY <1>8 DEF Lower
  <2>2. Validate
    BY <2>1, SegmentGrows DEF Validate, Needed
  <2>3. /\ version' = program /\ startPc' = "root"
        /\ UNCHANGED <<place, program, existing, meta, data, copies, at>>
    BY <1>8, <2>2 DEF Lower
  <2>4. Recorded' /\ Progress'
    BY <2>1, <2>2, <2>3 DEF Validate, Needed
  <2>5. SchemaTyped' /\ Brought'
    BY <1>8, <2>1, <2>3 DEF Lower
  <2>6. QED
    BY <2>4, <2>5
<1>9. CASE Current
  <2>1. version = at /\ at = program /\ meta /\ at # NoVersion /\ 1 .. at \subseteq existing
    BY <1>9 DEF Current
  <2>2. Validate
    BY <2>1 DEF Validate, Needed
  <2>3. startPc' = "root" /\ UNCHANGED <<place, program, database, at>>
    BY <1>9, <2>2 DEF Current
  <2>4. QED
    BY <1>9, <2>1, <2>2, <2>3 DEF Current, Validate, Needed
<1>10. CASE runMigration
  BY <1>10 DEF runMigration, Needed
<1>11. CASE createRootAccountIfNeed
  BY <1>11 DEF createRootAccountIfNeed, Needed
<1>12. CASE Use
  BY <1>12 DEF Use, Needed
<1>13. CASE StartDies
  BY <1>13 DEF StartDies
<1>14. CASE UNCHANGED schemaVars
  BY <1>14 DEF schemaVars, Validate, Needed
<1>15. QED
  BY <1>1, <1>2, <1>3, <1>4, <1>5, <1>6, <1>7, <1>8, <1>9, <1>10, <1>11, <1>12, <1>13, <1>14 DEF SchemaNext

\* Whatever starts are cut off and whichever programs follow each other, no start refuses the
\* database, the version names only tables there are, and the SQLite data come over once
\* (scheduler.go:61-132, model/main.go:170-207).
THEOREM SchemaAlwaysSound == ASSUME SchemaAssumption PROVE SchemaSpec => []SchemaSound
<1>1. SchemaInv => SchemaSound
  BY DEF SchemaInv, SchemaTyped, Recorded, Progress, Brought, SchemaSound, NoVersion
<1>2. QED
  BY InitSchema, NextSchema, <1>1, PTL DEF SchemaSpec

-----------------------------------------------------------------------------
(* The tables of nodes and profiles. *)

SaveRequests ==
  [at : {"name", "port", "find", "save"}, id : Nat, row : ProfileRows, set : NodeSets,
   missed : SUBSET Nat]
SnapshotRequests ==
  [at : {"nodes", "look", "store"}, id : Nat, missed : SUBSET Nat, from : ProfileRows,
   set : SUBSET Nat]
EnableRequests == [at : {"enable"}, id : Nat, held : Fingerprints]
DeleteRequests == [at : {"each", "remove"}, left : SUBSET Nat, id : Nat]
ImportRequests == [at : {"import"}, new : SUBSET Fingerprints, overtaken : BOOLEAN]
Looking == SaveRequests \union SnapshotRequests
Requests == {Idle} \union Looking \union EnableRequests \union DeleteRequests \union ImportRequests

-----------------------------------------------------------------------------
\* Rows have ids that were given out, and so has what a request knows.
CatalogueTyped ==
  /\ call \in [Callers -> Requests]
  /\ given \in [nodes : Nat, profiles : Nat]
  /\ DOMAIN nodes \subseteq 1 .. given.nodes
  /\ \A id \in DOMAIN nodes : nodes[id] \in Fingerprints
  /\ DOMAIN profiles \subseteq 1 .. given.profiles
  /\ \A id \in DOMAIN profiles : profiles[id] \in ProfileRows
  /\ DOMAIN snapshots \subseteq 1 .. given.profiles
  /\ members \subseteq Nat \X Nat

Known(r) ==
  /\ call[r] \in Looking => call[r].id <= given.profiles
  /\ call[r] \in SnapshotRequests => call[r].id > 0
  /\ call[r] \in EnableRequests => call[r].id \in 1 .. given.nodes

\* A save that has compared names, or names and ports, has met no twin but among the
\* profiles written since.
Unlike(r) ==
  call[r].at \in {"port", "find", "save"} =>
    \A p \in DOMAIN profiles \ {call[r].id} :
      p \notin call[r].missed =>
        /\ ~SameName(profiles[p].name, call[r].row.name)
        /\ call[r].at # "port" /\ profiles[p].port > 0 =>
             profiles[p].port # call[r].row.port

\* A render whose profile was not written since has its values, and then its nodes.
Fresh(r) ==
  call[r].at \in {"nodes", "look", "store"} /\ call[r].id \notin call[r].missed =>
    /\ call[r].id \in DOMAIN profiles /\ profiles[call[r].id] = call[r].from
    /\ call[r].at # "nodes" =>
         \A m \in members : m[1] = call[r].id => m[2] \in call[r].set

\* Copies of a node are alike, and like the node if it is there.
Copied(r) ==
  At(r, "enable") =>
    /\ call[r].id \in DOMAIN nodes => nodes[call[r].id] = call[r].held
    /\ \A q \in Callers :
         At(q, "enable") /\ call[q].id = call[r].id => call[q].held = call[r].held

CatalogueInv ==
  /\ CatalogueTyped /\ CatalogueSound
  /\ \A r \in Callers : Known(r) /\ Unlike(r) /\ Fresh(r) /\ Copied(r)

-----------------------------------------------------------------------------
\* The ids after n number a finite set: each of its members once.
LEMMA EnumeratedRows ==
  ASSUME NEW n \in Nat, NEW S, IsFiniteSet(S)
  PROVE  /\ Cardinality(S) \in Nat
         /\ DOMAIN Enumerated(n, S) = n + 1 .. n + Cardinality(S)
         /\ \A x \in DOMAIN Enumerated(n, S) : Enumerated(n, S)[x] \in S
         /\ \A x, y \in DOMAIN Enumerated(n, S) :
              Enumerated(n, S)[x] = Enumerated(n, S)[y] => x = y
<1> DEFINE k == Cardinality(S)
<1>1. k \in Nat /\ ExistsBijection(1 .. k, S)
  BY FS_CardinalityType
<1>2. PICK b : b \in Bijection(1 .. k, S)
  BY <1>1 DEF ExistsBijection
<1>3. /\ b \in [1 .. k -> S]
      /\ \A x, y \in 1 .. k : b[x] = b[y] => x = y
      /\ \A t \in S : \E x \in 1 .. k : b[x] = t
  BY <1>2 DEF Bijection, Injection, Surjection, IsInjective
<1> DEFINE e == [x \in n + 1 .. n + k |-> b[x - n]]
<1> HIDE DEF k
<1>4. e \in [n + 1 .. n + k -> S]
  BY <1>1, <1>3
<1>5. \A x, y \in n + 1 .. n + k : e[x] = e[y] => x = y
  BY <1>1, <1>3
<1>6. ASSUME NEW t \in S PROVE \E x \in n + 1 .. n + k : e[x] = t
  <2>1. PICK y \in 1 .. k : b[y] = t
    BY <1>3
  <2>2. n + y \in n + 1 .. n + k /\ e[n + y] = t
    BY <2>1, <1>1
  <2>3. QED
    BY <2>2
<1> HIDE DEF e
<1>7. e \in Bijection(n + 1 .. n + k, S)
  BY <1>4, <1>5, <1>6 DEF Bijection, Injection, Surjection, IsInjective
<1>8. Enumerated(n, S) \in Bijection(n + 1 .. n + k, S)
  BY <1>7 DEF Enumerated, k
<1>9. QED
  BY <1>1, <1>8 DEF Bijection, Injection, Surjection, IsInjective, k

\* What a request is waiting for says which fields it has.
LEMMA RequestFields ==
  ASSUME NEW c \in Requests
  PROVE  /\ "missed" \in DOMAIN c <=> c \in Looking
         /\ c.at \in {"name", "port", "find", "save"} <=> c \in SaveRequests
         /\ c.at \in {"nodes", "look", "store"} <=> c \in SnapshotRequests
         /\ c.at = "enable" <=> c \in EnableRequests
         /\ c.at \in {"each", "remove"} <=> c \in DeleteRequests
         /\ c.at = "import" <=> c \in ImportRequests
         /\ c.at = "idle" <=> c = Idle
<1>1. CASE c = Idle
  BY <1>1 DEF Idle, Looking, SaveRequests, SnapshotRequests, EnableRequests, DeleteRequests,
    ImportRequests
<1>2. CASE c \in SaveRequests
  BY <1>2 DEF Idle, Looking, SaveRequests, SnapshotRequests, EnableRequests, DeleteRequests,
    ImportRequests
<1>3. CASE c \in SnapshotRequests
  BY <1>3 DEF Idle, Looking, SaveRequests, SnapshotRequests, EnableRequests, DeleteRequests,
    ImportRequests
<1>4. CASE c \in EnableRequests
  BY <1>4 DEF Idle, Looking, SaveRequests, SnapshotRequests, EnableRequests, DeleteRequests,
    ImportRequests
<1>5. CASE c \in DeleteRequests
  BY <1>5 DEF Idle, Looking, SaveRequests, SnapshotRequests, EnableRequests, DeleteRequests,
    ImportRequests
<1>6. CASE c \in ImportRequests
  BY <1>6 DEF Idle, Looking, SaveRequests, SnapshotRequests, EnableRequests, DeleteRequests,
    ImportRequests
<1>7. QED
  BY <1>1, <1>2, <1>3, <1>4, <1>5, <1>6 DEF Requests, Looking

\* A written profile ends its request, and is missed by those that have looked before.
LEMMA MissedRequests ==
  ASSUME NEW r \in Callers, NEW id \in Nat, call \in [Callers -> Requests], Missed(r, id)
  PROVE  /\ call' \in [Callers -> Requests] /\ call'[r] = Idle
         /\ \A q \in Callers \ {r} :
              /\ call[q] \notin Looking => call'[q] = call[q]
              /\ call[q] \in Looking =>
                   /\ call'[q].at = call[q].at /\ call'[q].id = call[q].id
                   /\ call'[q].set = call[q].set
                   /\ call'[q].missed = call[q].missed \union {id}
              /\ call[q] \in SaveRequests =>
                   call'[q] \in SaveRequests /\ call'[q].row = call[q].row
              /\ call[q] \in SnapshotRequests =>
                   call'[q] \in SnapshotRequests /\ call'[q].from = call[q].from
<1>1. /\ DOMAIN call' = Callers
      /\ call' = [q \in Callers |-> call'[q]]
      /\ call'[r] = Idle
      /\ \A q \in Callers \ {r} :
           call'[q] = IF call[q] \in Looking
                      THEN [call[q] EXCEPT !.missed = @ \union {id}] ELSE call[q]
  BY RequestFields DEF Missed
<1>2. ASSUME NEW c \in SaveRequests, NEW d, d = [c EXCEPT !.missed = @ \union {id}]
      PROVE  /\ d \in SaveRequests /\ d.at = c.at /\ d.id = c.id /\ d.set = c.set
             /\ d.missed = c.missed \union {id} /\ d.row = c.row
  BY <1>2 DEF SaveRequests
<1>3. ASSUME NEW c \in SnapshotRequests, NEW d, d = [c EXCEPT !.missed = @ \union {id}]
      PROVE  /\ d \in SnapshotRequests /\ d.at = c.at /\ d.id = c.id /\ d.set = c.set
             /\ d.missed = c.missed \union {id} /\ d.from = c.from
  BY <1>3 DEF SnapshotRequests
<1>4. ASSUME NEW q \in Callers \ {r}
      PROVE  /\ call'[q] \in Requests
             /\ call[q] \notin Looking => call'[q] = call[q]
             /\ call[q] \in Looking =>
                   /\ call'[q].at = call[q].at /\ call'[q].id = call[q].id
                   /\ call'[q].set = call[q].set
                   /\ call'[q].missed = call[q].missed \union {id}
             /\ call[q] \in SaveRequests =>
                   call'[q] \in SaveRequests /\ call'[q].row = call[q].row
             /\ call[q] \in SnapshotRequests =>
                   call'[q] \in SnapshotRequests /\ call'[q].from = call[q].from
  <2>1. CASE call[q] \in SaveRequests
    <3>1. call[q].at \in {"name", "port", "find", "save"} /\ call[q] \notin SnapshotRequests
      BY <2>1, RequestFields DEF SaveRequests
    <3>2. QED
      BY <1>1, <1>2, <2>1, <3>1 DEF Looking, Requests
  <2>2. CASE call[q] \in SnapshotRequests
    <3>1. call[q].at \in {"nodes", "look", "store"} /\ call[q] \notin SaveRequests
      BY <2>2, RequestFields DEF SnapshotRequests
    <3>2. QED
      BY <1>1, <1>3, <2>2, <3>1 DEF Looking, Requests
  <2>3. CASE call[q] \notin Looking
    BY <1>1, <2>3 DEF Looking
  <2>4. QED
    BY <2>1, <2>2, <2>3 DEF Looking
<1>5. Idle \in Requests
  BY DEF Requests
<1>6. QED
  BY <1>1, <1>4, <1>5

\* Rows that come in end their request and overtake the imports under way.
LEMMA OvertakenRequests ==
  ASSUME NEW r \in Callers, call \in [Callers -> Requests], Overtakes(r)
  PROVE  /\ call' \in [Callers -> Requests] /\ call'[r] = Idle
         /\ \A q \in Callers \ {r} :
              /\ call[q] \notin ImportRequests => call'[q] = call[q]
              /\ call[q] \in ImportRequests =>
                   call'[q] \in ImportRequests /\ call'[q].overtaken
<1>1. /\ call' = [q \in Callers |-> call'[q]]
      /\ call'[r] = Idle
      /\ \A q \in Callers \ {r} :
           call'[q] = IF call[q] \in ImportRequests
                      THEN [call[q] EXCEPT !.overtaken = TRUE] ELSE call[q]
  BY RequestFields DEF Overtakes
<1>2. ASSUME NEW c \in ImportRequests, NEW d, d = [c EXCEPT !.overtaken = TRUE]
      PROVE  d \in ImportRequests /\ d.overtaken
  BY <1>2 DEF ImportRequests
<1>3. QED
  BY <1>1, <1>2 DEF Requests

-----------------------------------------------------------------------------
\* The first states: nodes that differ, at most one profile with all of them.
LEMMA InitCatalogue == CatalogueAssumption /\ CatalogueInit => CatalogueInv
<1> SUFFICES ASSUME CatalogueAssumption, CatalogueInit PROVE CatalogueInv
  OBVIOUS
<1>1. IsFiniteSet(FirstNodes)
  BY FS_Subset DEF CatalogueAssumption
<1>2. /\ Cardinality(FirstNodes) \in Nat
      /\ DOMAIN nodes = 1 .. Cardinality(FirstNodes)
      /\ \A x \in DOMAIN nodes : nodes[x] \in Fingerprints
      /\ \A x, y \in DOMAIN nodes : nodes[x] = nodes[y] => x = y
  <2>1. nodes = Enumerated(0, FirstNodes) /\ FirstNodes \subseteq Fingerprints
    BY DEF CatalogueInit, CatalogueAssumption
  <2>2. QED
    BY <1>1, <2>1, EnumeratedRows
<1>3. /\ Len(profiles) \in Nat /\ DOMAIN profiles = 1 .. Len(profiles) /\ Len(profiles) <= 1
      /\ \A x \in DOMAIN profiles : profiles[x] \in ProfileRows
  BY DEF CatalogueInit
<1>4. /\ DOMAIN snapshots = {}
      /\ call \in [Callers -> Requests] /\ \A r \in Callers : call[r] = Idle
  BY DEF CatalogueInit, Requests
<1>5. given = [nodes |-> Cardinality(FirstNodes), profiles |-> Len(profiles)]
  BY DEF CatalogueInit
<1>6. members = (DOMAIN profiles) \X (DOMAIN nodes)
  BY DEF CatalogueInit
<1>7. CatalogueTyped
  <2>1. members \subseteq Nat \X Nat
    BY <1>2, <1>3, <1>6
  <2>2. QED
    BY <1>2, <1>3, <1>4, <1>5, <2>1 DEF CatalogueTyped
<1>8. NodesOnce
  BY <1>2 DEF NodesOnce, IsInjective
<1>9. MembersLive
  BY <1>6 DEF MembersLive
<1>10. TwinsOverlapped
  BY <1>3 DEF TwinsOverlapped
<1>11. SnapshotsFollow
  BY <1>4 DEF SnapshotsFollow
<1>12. \A r \in Callers : call[r].at = "idle" /\ call[r] \notin Looking \union EnableRequests
  BY <1>4 DEF Idle, Looking, SaveRequests, SnapshotRequests, EnableRequests
<1>13. ImportsMeet /\ \A r \in Callers : Known(r) /\ Unlike(r) /\ Fresh(r) /\ Copied(r)
  BY <1>12 DEF ImportsMeet, Known, Unlike, Fresh, Copied, At, Looking
<1>14. QED
  BY <1>7, <1>8, <1>9, <1>10, <1>11, <1>13 DEF CatalogueInv, CatalogueSound

-----------------------------------------------------------------------------
\* A step that only moves one request has to justify what that request now claims.
LEMMA RequestMoves ==
  ASSUME CatalogueInv, NEW r \in Callers, NEW d \in Requests,
         call' = [call EXCEPT ![r] = d], UNCHANGED <<tables, history>>,
         Known(r)', Unlike(r)', Fresh(r)', Copied(r)',
         d.at = "import" /\ ~d.overtaken => d.new \intersect Range(nodes) = {}
  PROVE  CatalogueInv'
<1>1. CatalogueTyped /\ CatalogueSound
  BY DEF CatalogueInv
<1>2. /\ UNCHANGED <<nodes, profiles, members, snapshots, given, blind, late, dangling>>
      /\ Range(nodes)' = Range(nodes)
  BY DEF tables, history, Range
<1>3. /\ call' \in [Callers -> Requests] /\ call'[r] = d
      /\ \A q \in Callers \ {r} : call'[q] = call[q]
  BY <1>1 DEF CatalogueTyped
<1>4. CatalogueTyped'
  BY <1>1, <1>2, <1>3 DEF CatalogueTyped
<1>5. NodesOnce' /\ MembersLive' /\ TwinsOverlapped' /\ SnapshotsFollow'
  <2>1. NodesOnce'
    BY <1>1, <1>2 DEF CatalogueSound, NodesOnce
  <2>2. MembersLive'
    BY <1>1, <1>2 DEF CatalogueSound, MembersLive
  <2>3. TwinsOverlapped'
    BY <1>1, <1>2 DEF CatalogueSound, TwinsOverlapped
  <2>4. SnapshotsFollow'
    BY <1>1, <1>2 DEF CatalogueSound, SnapshotsFollow
  <2>5. QED
    BY <2>1, <2>2, <2>3, <2>4
<1>6. ImportsMeet'
  BY <1>1, <1>2, <1>3 DEF CatalogueSound, ImportsMeet, At
<1>7. ASSUME NEW q \in Callers \ {r} PROVE Known(q)' /\ Unlike(q)' /\ Fresh(q)' /\ Copied(q)'
  <2>1. Known(q) /\ Unlike(q) /\ Fresh(q) /\ Copied(q)
    BY DEF CatalogueInv
  <2>2. Known(q)'
    BY <1>2, <1>3, <2>1 DEF Known
  <2>3. Unlike(q)'
    BY <1>2, <1>3, <2>1 DEF Unlike
  <2>4. Fresh(q)'
    BY <1>2, <1>3, <2>1 DEF Fresh
  <2>5. Copied(q)'
    BY <1>2, <1>3, <2>1 DEF Copied, At
  <2>6. QED
    BY <2>2, <2>3, <2>4, <2>5
<1>8. QED
  BY <1>4, <1>5, <1>6, <1>7 DEF CatalogueInv, CatalogueSound

\* A request that ends claims nothing any more.
LEMMA RequestEnds ==
  ASSUME CatalogueInv, NEW r \in Callers, Refused(r)
  PROVE  CatalogueInv'
<1>1. call \in [Callers -> Requests]
  BY DEF CatalogueInv, CatalogueTyped
<1>2. /\ Idle \in Requests /\ Idle.at = "idle" /\ call' = [call EXCEPT ![r] = Idle]
      /\ call'[r] = Idle /\ UNCHANGED <<tables, history>>
  BY <1>1 DEF Refused, GoOn, Requests, Idle
<1>3. Idle \notin Looking /\ Idle \notin EnableRequests
  BY DEF Idle, Looking, SaveRequests, SnapshotRequests, EnableRequests
<1>4. Known(r)' /\ Unlike(r)' /\ Fresh(r)' /\ Copied(r)'
  BY <1>2, <1>3 DEF Known, Unlike, Fresh, Copied, At, Looking
<1>5. QED
  BY <1>2, <1>4, RequestMoves

\* A request comes in.
LEMMA SaveBegins ==
  ASSUME CatalogueAssumption, CatalogueInv, NEW r \in Callers, NEW id \in 0 .. given.profiles,
         SavePortProfile(r, id)
  PROVE  CatalogueInv'
<1>1. call \in [Callers -> Requests] /\ given \in [nodes : Nat, profiles : Nat]
  BY DEF CatalogueInv, CatalogueTyped
<1>2. PICK row \in ProfileRows, set \in NodeSets :
        Called(r, [at |-> "name", id |-> id, row |-> row, set |-> set, missed |-> {}])
  BY DEF SavePortProfile
<1> DEFINE d == [at |-> "name", id |-> id, row |-> row, set |-> set, missed |-> {}]
<1>3. d \in SaveRequests /\ d.at = "name" /\ d.id = id
  BY <1>1 DEF SaveRequests
<1>4. call' = [call EXCEPT ![r] = d] /\ UNCHANGED <<tables, history>>
  BY <1>2 DEF Called
<1> HIDE DEF d
<1>5. call'[r] = d /\ d \in Requests /\ d \notin SnapshotRequests /\ d \notin EnableRequests
  BY <1>1, <1>3, <1>4 DEF Requests, Looking, SnapshotRequests, EnableRequests
<1>6. Known(r)' /\ Unlike(r)' /\ Fresh(r)' /\ Copied(r)'
  BY <1>1, <1>3, <1>4, <1>5 DEF Known, Unlike, Fresh, Copied, At, tables
<1>7. QED
  BY <1>3, <1>4, <1>5, <1>6, RequestMoves

LEMMA PreviewBegins ==
  ASSUME CatalogueInv, NEW r \in Callers, SaveRuntimePreview(r)
  PROVE  CatalogueInv'
<1>1. CatalogueTyped
  BY DEF CatalogueInv
<1>2. PICK id \in DOMAIN profiles :
        Called(r, [at |-> "nodes", id |-> id, missed |-> {}, from |-> profiles[id], set |-> {}])
  BY DEF SaveRuntimePreview
<1> DEFINE d == [at |-> "nodes", id |-> id, missed |-> {}, from |-> profiles[id], set |-> {}]
<1>3. id \in 1 .. given.profiles /\ given.profiles \in Nat /\ profiles[id] \in ProfileRows
  BY <1>1 DEF CatalogueTyped
<1>4. d \in SnapshotRequests /\ d.at = "nodes" /\ d.id = id /\ d.from = profiles[id]
  BY <1>3 DEF SnapshotRequests
<1>5. call' = [call EXCEPT ![r] = d] /\ UNCHANGED <<tables, history>>
  BY <1>2 DEF Called
<1> HIDE DEF d
<1>6. call'[r] = d /\ d \in Requests /\ d \notin SaveRequests /\ d \notin EnableRequests
  BY <1>1, <1>4, <1>5 DEF CatalogueTyped, Requests, Looking, SaveRequests, EnableRequests
<1>7. Known(r)' /\ Unlike(r)' /\ Fresh(r)' /\ Copied(r)'
  BY <1>3, <1>4, <1>5, <1>6 DEF Known, Unlike, Fresh, Copied, At, tables
<1>8. QED
  BY <1>4, <1>5, <1>6, <1>7, RequestMoves

LEMMA EnableBegins ==
  ASSUME CatalogueInv, NEW r \in Callers, SetProxyNodeEnabled(r)
  PROVE  CatalogueInv'
<1>1. CatalogueTyped
  BY DEF CatalogueInv
<1>2. PICK id \in DOMAIN nodes : Called(r, [at |-> "enable", id |-> id, held |-> nodes[id]])
  BY DEF SetProxyNodeEnabled
<1> DEFINE d == [at |-> "enable", id |-> id, held |-> nodes[id]]
<1>3. id \in 1 .. given.nodes /\ given.nodes \in Nat /\ nodes[id] \in Fingerprints
  BY <1>1 DEF CatalogueTyped
<1>4. d \in EnableRequests /\ d.at = "enable" /\ d.id = id /\ d.held = nodes[id]
  BY <1>3 DEF EnableRequests
<1>5. call' = [call EXCEPT ![r] = d] /\ UNCHANGED <<tables, history>>
  BY <1>2 DEF Called
<1> HIDE DEF d
<1>6. call'[r] = d /\ d \in Requests /\ d \notin Looking /\ d \notin SnapshotRequests
  BY <1>1, <1>4, <1>5 DEF CatalogueTyped, Requests, Looking, SaveRequests, SnapshotRequests,
    EnableRequests
<1>7. \A q \in Callers \ {r} : call'[q] = call[q] /\ Copied(q)
  BY <1>1, <1>5 DEF CatalogueTyped, CatalogueInv
<1>8. nodes' = nodes /\ given' = given
  BY <1>5 DEF tables
<1>9. Copied(r)'
  BY <1>2, <1>4, <1>6, <1>7, <1>8 DEF Copied, At
<1>10. Known(r)' /\ Unlike(r)' /\ Fresh(r)'
  BY <1>3, <1>4, <1>6, <1>8 DEF Known, Unlike, Fresh
<1>11. QED
  BY <1>4, <1>5, <1>6, <1>9, <1>10, RequestMoves

\* Deletions and imports claim nothing of ids; an import has left out what is there.
LEMMA RequestPlain ==
  ASSUME CatalogueInv, NEW r \in Callers, NEW d \in DeleteRequests \union ImportRequests,
         call' = [call EXCEPT ![r] = d], UNCHANGED <<tables, history>>,
         d.at = "import" /\ ~d.overtaken => d.new \intersect Range(nodes) = {}
  PROVE  CatalogueInv'
<1>1. call'[r] = d
  BY DEF CatalogueInv, CatalogueTyped
<1>2. d \in Requests /\ d.at \in {"each", "remove", "import"}
  BY DEF Requests, DeleteRequests, ImportRequests
<1>3. d \notin Looking /\ d \notin SnapshotRequests /\ d \notin EnableRequests
  BY <1>2, RequestFields DEF Looking
<1>4. Known(r)' /\ Unlike(r)' /\ Fresh(r)' /\ Copied(r)'
  BY <1>1, <1>2, <1>3 DEF Known, Unlike, Fresh, Copied, At
<1>5. QED
  BY <1>2, <1>4, RequestMoves

LEMMA DeletionBegins ==
  ASSUME CatalogueAssumption, CatalogueInv, NEW r \in Callers, DeleteProxyNodes(r)
  PROVE  CatalogueInv'
<1>1. PICK ids \in SUBSET NodeIds : Called(r, [at |-> "each", left |-> ids, id |-> 0])
  BY DEF DeleteProxyNodes
<1> DEFINE d == [at |-> "each", left |-> ids, id |-> 0]
<1>2. d \in DeleteRequests /\ d.at = "each"
  BY DEF DeleteRequests, NodeIds
<1>3. call' = [call EXCEPT ![r] = d] /\ UNCHANGED <<tables, history>>
  BY <1>1 DEF Called
<1> HIDE DEF d
<1>4. QED
  BY <1>2, <1>3, RequestPlain

LEMMA ImportBegins ==
  ASSUME CatalogueInv, NEW r \in Callers, ImportSourceConfig(r)
  PROVE  CatalogueInv'
<1>1. PICK selected \in SUBSET Fingerprints :
        Called(r, [at |-> "import", new |-> selected \ Range(nodes), overtaken |-> FALSE])
  BY DEF ImportSourceConfig
<1> DEFINE d == [at |-> "import", new |-> selected \ Range(nodes), overtaken |-> FALSE]
<1>2. d \in ImportRequests /\ d.new = selected \ Range(nodes)
  BY DEF ImportRequests
<1>3. call' = [call EXCEPT ![r] = d] /\ UNCHANGED <<tables, history>>
  BY <1>1 DEF Called
<1> HIDE DEF d
<1>4. QED
  BY <1>2, <1>3, RequestPlain

-----------------------------------------------------------------------------
\* A save that goes on has to justify its comparison only.
LEMMA SaveGoesOn ==
  ASSUME CatalogueInv, NEW r \in Callers, call[r] \in SaveRequests,
         NEW stage \in {"port", "find", "save"}, GoTo(r, stage),
         \A p \in DOMAIN profiles \ {call[r].id} :
           p \notin call[r].missed =>
             /\ ~SameName(profiles[p].name, call[r].row.name)
             /\ stage # "port" /\ profiles[p].port > 0 => profiles[p].port # call[r].row.port
  PROVE  CatalogueInv'
<1>1. CatalogueTyped /\ Known(r)
  BY DEF CatalogueInv
<1> DEFINE d == [call[r] EXCEPT !.at = stage]
<1>2. /\ d \in Requests /\ d.at = stage /\ d.id = call[r].id /\ d.missed = call[r].missed
      /\ d \in SaveRequests /\ d.row = call[r].row
  BY DEF SaveRequests, Requests, Looking
<1>3. call' = [call EXCEPT ![r] = d] /\ UNCHANGED <<tables, history>>
  BY DEF GoTo, GoOn
<1> HIDE DEF d
<1>4. call'[r] = d /\ d \notin SnapshotRequests /\ d \notin EnableRequests /\ d \in Looking
  BY <1>1, <1>2, <1>3, RequestFields DEF CatalogueTyped, Looking
<1>5. profiles' = profiles /\ given' = given /\ call[r] \in Looking
  BY <1>3 DEF tables, Looking
<1>6. Known(r)'
  BY <1>1, <1>2, <1>4, <1>5 DEF Known
<1>7. Unlike(r)'
  BY <1>2, <1>4, <1>5 DEF Unlike
<1>8. Fresh(r)' /\ Copied(r)'
  BY <1>2, <1>4 DEF Fresh, Copied, At
<1>9. QED
  BY <1>2, <1>3, <1>6, <1>7, <1>8, RequestMoves

\* The names are compared ...
LEMMA NameCompared ==
  ASSUME CatalogueInv, NEW r \in Callers, NameLookedUp(r)
  PROVE  CatalogueInv'
<1>1. call[r] \in SaveRequests
  BY RequestFields DEF NameLookedUp, At, CatalogueInv, CatalogueTyped
<1>2. CASE Refused(r)
  BY <1>2, RequestEnds
<1>3. CASE ~ (\E row \in Others(r) : SameName(row.name, call[r].row.name)) /\ GoTo(r, "port")
  <2>1. \A p \in DOMAIN profiles \ {call[r].id} : ~SameName(profiles[p].name, call[r].row.name)
    BY <1>3 DEF Others
  <2>2. QED
    BY <1>1, <1>3, <2>1, SaveGoesOn
<1>4. QED
  BY <1>2, <1>3 DEF NameLookedUp

\* ... then the ports ...
LEMMA PortCompared ==
  ASSUME CatalogueAssumption, CatalogueInv, NEW r \in Callers, PortLookedUp(r)
  PROVE  CatalogueInv'
<1>1. call[r] \in SaveRequests /\ Unlike(r) /\ call[r].at = "port"
  BY RequestFields DEF PortLookedUp, At, CatalogueInv, CatalogueTyped
<1>2. CASE Refused(r)
  BY <1>2, RequestEnds
<1>3. ASSUME NEW stage \in {"find", "save"}, GoTo(r, stage),
             ~ (/\ call[r].row.port > 0
                /\ \E row \in Others(r) : row.port = call[r].row.port)
      PROVE  CatalogueInv'
  <2>1. \A p \in DOMAIN profiles \ {call[r].id} :
          profiles[p].port > 0 => profiles[p].port # call[r].row.port
    BY <1>3 DEF Others
  <2>2. QED
    BY <1>1, <1>3, <2>1, SaveGoesOn DEF Unlike
<1>4. QED
  BY <1>2, <1>3 DEF PortLookedUp

\* ... and the profile is looked for.
LEMMA ProfileLookedFor ==
  ASSUME CatalogueInv, NEW r \in Callers, ProfileFound(r)
  PROVE  CatalogueInv'
<1>1. call[r] \in SaveRequests /\ Unlike(r) /\ call[r].at = "find"
  BY RequestFields DEF ProfileFound, At, CatalogueInv, CatalogueTyped
<1>2. CASE Refused(r)
  BY <1>2, RequestEnds
<1>3. CASE GoTo(r, "save")
  BY <1>1, <1>3, SaveGoesOn DEF Unlike
<1>4. QED
  BY <1>2, <1>3 DEF ProfileFound

\* A render takes the nodes its profile has.
LEMMA NodesTaken ==
  ASSUME CatalogueInv, NEW r \in Callers, NodesResolved(r)
  PROVE  CatalogueInv'
<1> DEFINE set == {m[2] : m \in {m \in members : m[1] = call[r].id}}
<1>1. CatalogueTyped /\ Known(r) /\ Fresh(r)
  BY DEF CatalogueInv
<1>2. call[r] \in SnapshotRequests /\ call[r].at = "nodes"
  BY <1>1, RequestFields DEF NodesResolved, At, CatalogueTyped
<1>3. CASE Refused(r)
  BY <1>3, RequestEnds
<1>4. CASE GoOn(r, [call[r] EXCEPT !.at = "look", !.set = set])
  <2> DEFINE d == [call[r] EXCEPT !.at = "look", !.set = set]
  <2>1. set \in SUBSET Nat
    BY <1>1 DEF CatalogueTyped
  <2>2. \A m \in members : m[1] = call[r].id => m[2] \in set
    OBVIOUS
  <2> HIDE DEF set
  <2>3. /\ d \in SnapshotRequests /\ d.at = "look" /\ d.id = call[r].id /\ d.set = set
        /\ d.missed = call[r].missed /\ d.from = call[r].from
    BY <1>2, <2>1 DEF SnapshotRequests
  <2>4. call' = [call EXCEPT ![r] = d] /\ UNCHANGED <<tables, history>>
    BY <1>4 DEF GoOn
  <2> HIDE DEF d
  <2>5. call'[r] = d /\ d \in Requests /\ d \in Looking /\ d \notin EnableRequests
    BY <1>1, <2>3, <2>4 DEF CatalogueTyped, Requests, Looking, SnapshotRequests, EnableRequests
  <2>6. profiles' = profiles /\ members' = members /\ given' = given /\ call[r] \in Looking
    BY <1>2, <2>4 DEF tables, Looking
  <2>7. Known(r)'
    BY <1>1, <1>2, <2>3, <2>5, <2>6 DEF Known
  <2>8. Fresh(r)'
    BY <1>1, <1>2, <2>2, <2>3, <2>5, <2>6 DEF Fresh
  <2>9. Unlike(r)' /\ Copied(r)'
    BY <2>3, <2>5 DEF Unlike, Copied, At
  <2>10. QED
    BY <2>3, <2>4, <2>5, <2>7, <2>8, <2>9, RequestMoves
<1>5. QED
  BY <1>3, <1>4 DEF NodesResolved

\* It looks whether there is a snapshot.
LEMMA SnapshotLookedFor ==
  ASSUME CatalogueInv, NEW r \in Callers, SnapshotLookedUp(r)
  PROVE  CatalogueInv'
<1>1. CatalogueTyped /\ Known(r) /\ Fresh(r)
  BY DEF CatalogueInv
<1>2. call[r] \in SnapshotRequests /\ call[r].at = "look"
  BY <1>1, RequestFields DEF SnapshotLookedUp, At, CatalogueTyped
<1>3. CASE Refused(r)
  BY <1>3, RequestEnds
<1>4. CASE GoTo(r, "store")
  <2> DEFINE d == [call[r] EXCEPT !.at = "store"]
  <2>1. /\ d \in SnapshotRequests /\ d.at = "store" /\ d.id = call[r].id
        /\ d.set = call[r].set /\ d.missed = call[r].missed /\ d.from = call[r].from
    BY <1>2 DEF SnapshotRequests
  <2>2. call' = [call EXCEPT ![r] = d] /\ UNCHANGED <<tables, history>>
    BY <1>4 DEF GoTo, GoOn
  <2> HIDE DEF d
  <2>3. call'[r] = d /\ d \in Requests /\ d \in Looking /\ d \notin EnableRequests
    BY <1>1, <2>1, <2>2 DEF CatalogueTyped, Requests, Looking, SnapshotRequests, EnableRequests
  <2>4. profiles' = profiles /\ members' = members /\ given' = given /\ call[r] \in Looking
    BY <1>2, <2>2 DEF tables, Looking
  <2>5. Known(r)'
    BY <1>1, <1>2, <2>1, <2>3, <2>4 DEF Known
  <2>6. Fresh(r)'
    BY <1>1, <1>2, <2>1, <2>3, <2>4 DEF Fresh
  <2>7. Unlike(r)' /\ Copied(r)'
    BY <2>1, <2>3 DEF Unlike, Copied, At
  <2>8. QED
    BY <2>1, <2>2, <2>3, <2>5, <2>6, <2>7, RequestMoves
<1>5. QED
  BY <1>3, <1>4 DEF SnapshotLookedUp

\* A deletion takes its next node.
LEMMA NodeTaken ==
  ASSUME CatalogueInv, NEW r \in Callers, NodeLookedUp(r)
  PROVE  CatalogueInv'
<1>1. CASE Refused(r)
  BY <1>1, RequestEnds
<1>2. ASSUME NEW id \in call[r].left,
             GoOn(r, [at |-> "remove", left |-> call[r].left \ {id}, id |-> id])
      PROVE  CatalogueInv'
  <2> DEFINE d == [at |-> "remove", left |-> call[r].left \ {id}, id |-> id]
  <2>1. call[r] \in DeleteRequests
    BY RequestFields DEF NodeLookedUp, At, CatalogueInv, CatalogueTyped
  <2>2. d \in DeleteRequests /\ d.at = "remove"
    BY <2>1 DEF DeleteRequests
  <2>3. call' = [call EXCEPT ![r] = d] /\ UNCHANGED <<tables, history>>
    BY <1>2 DEF GoOn
  <2> HIDE DEF d
  <2>4. QED
    BY <2>2, <2>3, RequestPlain
<1>3. QED
  BY <1>1, <1>2 DEF NodeLookedUp

-----------------------------------------------------------------------------
\* What a written profile leaves true of the requests that go on.
LEMMA OthersMissed ==
  ASSUME CatalogueInv, NEW r \in Callers, NEW id \in Nat, Missed(r, id),
         nodes' = nodes, given'.nodes = given.nodes, given'.profiles >= given.profiles,
         given' \in [nodes : Nat, profiles : Nat],
         DOMAIN profiles' \ {id} = DOMAIN profiles \ {id},
         \A p \in DOMAIN profiles \ {id} : profiles'[p] = profiles[p],
         \A m \in members' : m[1] # id => m \in members
  PROVE  /\ call' \in [Callers -> Requests] /\ ImportsMeet'
         /\ \A q \in Callers : Known(q)' /\ Unlike(q)' /\ Fresh(q)' /\ Copied(q)'
<1>1. CatalogueTyped /\ ImportsMeet
  BY DEF CatalogueInv, CatalogueSound
<1>2. /\ call \in [Callers -> Requests] /\ given \in [nodes : Nat, profiles : Nat]
      /\ \A q \in Callers : call[q] \in Requests
  BY <1>1 DEF CatalogueTyped
<1>3. /\ call' \in [Callers -> Requests] /\ call'[r] = Idle
      /\ \A q \in Callers \ {r} :
           /\ call[q] \notin Looking => call'[q] = call[q]
           /\ call[q] \in Looking =>
                /\ call'[q].at = call[q].at /\ call'[q].id = call[q].id
                /\ call'[q].set = call[q].set
                /\ call'[q].missed = call[q].missed \union {id}
           /\ call[q] \in SaveRequests =>
                call'[q] \in SaveRequests /\ call'[q].row = call[q].row
           /\ call[q] \in SnapshotRequests =>
                call'[q] \in SnapshotRequests /\ call'[q].from = call[q].from
  BY <1>2, MissedRequests
<1>4. /\ Idle.at = "idle" /\ Idle \notin Looking /\ Idle \notin SnapshotRequests
      /\ Idle \notin EnableRequests
  BY DEF Idle, Looking, SaveRequests, SnapshotRequests, EnableRequests
<1>5. Known(r)' /\ Unlike(r)' /\ Fresh(r)' /\ Copied(r)'
  BY <1>3, <1>4 DEF Known, Unlike, Fresh, Copied, At
<1>6. \A q \in Callers : call'[q].at \in {"enable", "import"} => call'[q] = call[q] /\ q # r
  <2>1. \A q \in Callers : call[q] \in Looking => call[q].at \notin {"enable", "import"}
    BY <1>2 DEF Looking, SaveRequests, SnapshotRequests
  <2>2. QED
    BY <1>3, <1>4, <2>1
<1>7. ImportsMeet'
  BY <1>1, <1>6 DEF ImportsMeet, At, Range
<1>8. ASSUME NEW q \in Callers \ {r} PROVE Known(q)' /\ Unlike(q)' /\ Fresh(q)' /\ Copied(q)'
  <2>1. Known(q) /\ Unlike(q) /\ Fresh(q) /\ Copied(q) /\ call[q] \in Requests
    BY <1>2 DEF CatalogueInv
  <2>2. Copied(q)'
    BY <1>6, <2>1 DEF Copied, At
  <2>3. CASE call[q] \in SaveRequests
    <3>1. /\ call'[q] \in SaveRequests /\ call'[q] \in Looking /\ call[q] \in Looking
          /\ call'[q].at = call[q].at /\ call'[q].id = call[q].id
          /\ call'[q].row = call[q].row /\ call'[q].missed = call[q].missed \union {id}
      BY <1>3, <2>3 DEF Looking
    <3>2. call[q].id \in Nat /\ call'[q].at \in {"name", "port", "find", "save"}
      BY <3>1, <2>3 DEF SaveRequests
    <3>3. call'[q] \notin SnapshotRequests /\ call'[q] \notin EnableRequests
      BY <3>2 DEF SnapshotRequests, EnableRequests
    <3>4. Known(q)'
      BY <1>2, <2>1, <3>1, <3>2, <3>3 DEF Known
    <3>5. Unlike(q)'
      BY <2>1, <3>1 DEF Unlike
    <3>6. Fresh(q)'
      BY <3>2 DEF Fresh
    <3>7. QED
      BY <2>2, <3>4, <3>5, <3>6
  <2>4. CASE call[q] \in SnapshotRequests
    <3>1. /\ call'[q] \in SnapshotRequests /\ call'[q] \in Looking /\ call[q] \in Looking
          /\ call'[q].at = call[q].at /\ call'[q].id = call[q].id /\ call'[q].set = call[q].set
          /\ call'[q].from = call[q].from /\ call'[q].missed = call[q].missed \union {id}
      BY <1>3, <2>4 DEF Looking
    <3>2. call[q].id \in Nat /\ call'[q].at \in {"nodes", "look", "store"}
      BY <3>1, <2>4 DEF SnapshotRequests
    <3>3. call'[q] \notin EnableRequests
      BY <3>2 DEF EnableRequests
    <3>4. Known(q)'
      BY <1>2, <2>1, <2>4, <3>1, <3>2, <3>3 DEF Known
    <3>5. Fresh(q)'
      BY <2>1, <3>1 DEF Fresh
    <3>6. Unlike(q)'
      BY <3>2 DEF Unlike
    <3>7. QED
      BY <2>2, <3>4, <3>5, <3>6
  <2>5. CASE call[q] \notin Looking
    <3>1. call'[q] = call[q]
      BY <1>3, <2>5
    <3>2. call[q].at \notin {"name", "port", "find", "save", "nodes", "look", "store"}
      BY <2>1, <2>5, RequestFields DEF Looking
    <3>3. Known(q)'
      BY <1>2, <2>1, <2>5, <3>1 DEF Known, Looking
    <3>4. Unlike(q)' /\ Fresh(q)'
      BY <3>1, <3>2 DEF Unlike, Fresh
    <3>5. QED
      BY <2>2, <3>3, <3>4
  <2>6. QED
    BY <2>3, <2>4, <2>5 DEF Looking
<1>9. QED
  BY <1>3, <1>5, <1>7, <1>8

\* The transaction of a save.
LEMMA SaveKeeps ==
  ASSUME CatalogueAssumption, CatalogueInv, NEW r \in Callers, ProfileSaved(r)
  PROVE  CatalogueInv'
<1> DEFINE c == call[r]
           id == IF c.id = 0 THEN given.profiles + 1 ELSE c.id
<1>1. CatalogueTyped /\ CatalogueSound /\ Known(r) /\ Unlike(r)
  BY DEF CatalogueInv
<1>2. c \in SaveRequests /\ c \in Looking /\ c.at = "save"
  BY <1>1, RequestFields DEF ProfileSaved, At, CatalogueTyped, Looking
<1>3. /\ profiles' = Put(profiles, id, c.row)
      /\ given' = [given EXCEPT !.profiles = IF c.id = 0 THEN id ELSE @]
      /\ members' = {m \in members : m[1] # id} \union ({id} \X c.set)
      /\ snapshots' = IF c.id = 0 THEN snapshots ELSE Without(snapshots, {id})
      /\ blind' = {b \in blind : id \notin b} \union {{id, p} : p \in c.missed \ {id}}
      /\ late' = late \ {id}
      /\ dangling' = {m \in dangling : m[1] # id} \union ({id} \X (c.set \ DOMAIN nodes))
      /\ Missed(r, id) /\ nodes' = nodes
  BY DEF ProfileSaved
<1>4. /\ c.id \in Nat /\ c.id <= given.profiles /\ c.row \in ProfileRows
      /\ given \in [nodes : Nat, profiles : Nat] /\ c.set \in NodeSets
      /\ c.missed \in SUBSET Nat
  BY <1>1, <1>2 DEF CatalogueTyped, Known, SaveRequests
<1>5. c.set \subseteq Nat
  <2>1. c.set \in SUBSET (1 .. MaxNodeId)
    BY <1>4 DEF CatalogueAssumption
  <2>2. QED
    BY <2>1
<1>6. /\ id \in Nat \ {0} /\ id <= given'.profiles /\ given'.nodes = given.nodes
      /\ given'.profiles >= given.profiles /\ given' \in [nodes : Nat, profiles : Nat]
      /\ c.id = 0 => id \notin DOMAIN profiles \union DOMAIN snapshots
      /\ c.id # 0 => id = c.id
  <2>1. CASE c.id = 0
    BY <1>1, <1>3, <1>4, <2>1 DEF CatalogueTyped
  <2>2. CASE c.id # 0
    BY <1>1, <1>3, <1>4, <2>2 DEF CatalogueTyped
  <2>3. QED
    BY <2>1, <2>2
<1> HIDE DEF c, id
<1>7. /\ DOMAIN profiles' = DOMAIN profiles \union {id}
      /\ profiles'[id] = c.row
      /\ \A p \in DOMAIN profiles \ {id} : profiles'[p] = profiles[p]
  BY <1>3 DEF Put
<1>8. /\ DOMAIN snapshots' \subseteq DOMAIN snapshots \ {id}
      /\ \A p \in DOMAIN snapshots' : snapshots'[p] = snapshots[p]
  BY <1>3, <1>6 DEF Without, Restrict
<1>9. /\ call' \in [Callers -> Requests] /\ ImportsMeet'
      /\ \A q \in Callers : Known(q)' /\ Unlike(q)' /\ Fresh(q)' /\ Copied(q)'
  BY <1>3, <1>6, <1>7, OthersMissed
<1>10. \A m \in members' :
         \/ m \in members /\ m[1] # id
         \/ m[1] = id /\ m[2] \in c.set /\ m = <<id, m[2]>>
  BY <1>3
<1>11. CatalogueTyped'
  <2>1. members' \subseteq Nat \X Nat
    BY <1>1, <1>3, <1>5, <1>6 DEF CatalogueTyped
  <2>2. DOMAIN profiles' \subseteq 1 .. given'.profiles
    BY <1>1, <1>4, <1>6, <1>7 DEF CatalogueTyped
  <2>3. DOMAIN snapshots' \subseteq 1 .. given'.profiles
    BY <1>1, <1>4, <1>6, <1>8 DEF CatalogueTyped
  <2>4. \A p \in DOMAIN profiles' : profiles'[p] \in ProfileRows
    BY <1>1, <1>4, <1>7 DEF CatalogueTyped
  <2>5. QED
    BY <1>1, <1>3, <1>6, <1>9, <2>1, <2>2, <2>3, <2>4 DEF CatalogueTyped
<1>12. NodesOnce'
  BY <1>1, <1>3 DEF CatalogueSound, NodesOnce
<1>13. MembersLive'
  <2> SUFFICES ASSUME NEW m \in members'
               PROVE  m[1] \in DOMAIN profiles' /\ (m[2] \in DOMAIN nodes' \/ m \in dangling')
    BY DEF MembersLive
  <2>1. CASE m \in members /\ m[1] # id
    BY <1>1, <1>3, <1>7, <2>1 DEF CatalogueSound, MembersLive
  <2>2. CASE m[1] = id /\ m[2] \in c.set /\ m = <<id, m[2]>>
    BY <1>3, <1>7, <2>2
  <2>3. QED
    BY <1>10, <2>1, <2>2
<1>14. TwinsOverlapped'
  <2>1. ASSUME NEW p \in DOMAIN profiles \ {id},
               \/ SameName(profiles[p].name, c.row.name)
               \/ profiles[p].port = c.row.port /\ profiles[p].port > 0
        PROVE  {id, p} \in blind'
    <3>1. p # c.id
      BY <1>1, <1>6, <2>1 DEF CatalogueTyped
    <3>2. p \in c.missed
      BY <1>1, <1>2, <2>1, <3>1 DEF Unlike, c
    <3>3. QED
      BY <1>3, <2>1, <3>2
  <2> SUFFICES ASSUME NEW p \in DOMAIN profiles', NEW q \in DOMAIN profiles', p # q,
                      \/ /\ {profiles'[p].name, profiles'[q].name} \intersect Unfolded = {}
                         /\ Folded[profiles'[p].name] = Folded[profiles'[q].name]
                      \/ profiles'[p].port = profiles'[q].port /\ profiles'[p].port > 0
               PROVE  {p, q} \in blind'
    BY DEF TwinsOverlapped
  <2>2. CASE p # id /\ q # id
    <3>1. {p, q} \in blind
      BY <1>1, <1>7, <2>2 DEF CatalogueSound, TwinsOverlapped
    <3>2. QED
      BY <1>3, <2>2, <3>1
  <2>3. CASE p = id
    BY <1>7, <2>1, <2>3 DEF SameName
  <2>4. CASE q = id
    <3>1. {id, p} \in blind'
      BY <1>7, <2>1, <2>4 DEF SameName
    <3>2. {id, p} = {p, q}
      BY <2>4
    <3>3. QED
      BY <3>1, <3>2
  <2>5. QED
    BY <2>2, <2>3, <2>4
<1>15. SnapshotsFollow'
  <2> SUFFICES ASSUME NEW p \in DOMAIN snapshots' \ late'
               PROVE  /\ p \in DOMAIN profiles' /\ snapshots'[p].row = profiles'[p]
                      /\ \A m \in members' : m[1] = p => m[2] \in snapshots'[p].set
    BY DEF SnapshotsFollow
  <2>1. p # id /\ p \in DOMAIN snapshots \ late /\ snapshots'[p] = snapshots[p]
    BY <1>3, <1>8
  <2>2. /\ p \in DOMAIN profiles /\ snapshots[p].row = profiles[p]
        /\ \A m \in members : m[1] = p => m[2] \in snapshots[p].set
    BY <1>1, <2>1 DEF CatalogueSound, SnapshotsFollow
  <2>3. QED
    BY <1>7, <1>10, <2>1, <2>2
<1>16. QED
  BY <1>9, <1>11, <1>12, <1>13, <1>14, <1>15 DEF CatalogueInv, CatalogueSound

\* The transaction of a deletion.
LEMMA DeletionKeeps ==
  ASSUME CatalogueInv, NEW r \in Callers, NEW id \in 1 .. given.profiles,
         DeletePortProfile(r, id)
  PROVE  CatalogueInv'
<1>1. CatalogueTyped /\ CatalogueSound
  BY DEF CatalogueInv
<1>2. /\ members' = {m \in members : m[1] # id}
      /\ snapshots' = Without(snapshots, {id}) /\ profiles' = Without(profiles, {id})
      /\ late' = late \ {id} /\ dangling' = {m \in dangling : m[1] # id}
      /\ Missed(r, id) /\ nodes' = nodes /\ given' = given /\ blind' = blind
  BY DEF DeletePortProfile
<1>3. given \in [nodes : Nat, profiles : Nat] /\ id \in Nat
  BY <1>1 DEF CatalogueTyped
<1>4. /\ DOMAIN profiles' = DOMAIN profiles \ {id}
      /\ \A p \in DOMAIN profiles \ {id} : profiles'[p] = profiles[p]
      /\ DOMAIN snapshots' = DOMAIN snapshots \ {id}
      /\ \A p \in DOMAIN snapshots \ {id} : snapshots'[p] = snapshots[p]
  BY <1>2 DEF Without, Restrict
<1>5. \A m \in members' : m \in members /\ m[1] # id
  BY <1>2
<1>6. /\ call' \in [Callers -> Requests] /\ ImportsMeet'
      /\ \A q \in Callers : Known(q)' /\ Unlike(q)' /\ Fresh(q)' /\ Copied(q)'
  <2>1. /\ given'.nodes = given.nodes /\ given'.profiles >= given.profiles
        /\ given' \in [nodes : Nat, profiles : Nat]
    BY <1>2, <1>3
  <2>2. /\ DOMAIN profiles' \ {id} = DOMAIN profiles \ {id}
        /\ \A p \in DOMAIN profiles \ {id} : profiles'[p] = profiles[p]
    BY <1>4
  <2>3. \A m \in members' : m[1] # id => m \in members
    BY <1>5
  <2>4. QED
    BY <1>2, <1>3, <2>1, <2>2, <2>3, OthersMissed, Zenon
<1>7. CatalogueTyped'
  BY <1>1, <1>2, <1>4, <1>5, <1>6 DEF CatalogueTyped
<1>8. NodesOnce'
  BY <1>1, <1>2 DEF CatalogueSound, NodesOnce
<1>9. MembersLive'
  BY <1>1, <1>2, <1>4, <1>5 DEF CatalogueSound, MembersLive
<1>10. TwinsOverlapped'
  BY <1>1, <1>2, <1>4 DEF CatalogueSound, TwinsOverlapped
<1>11. SnapshotsFollow'
  BY <1>1, <1>2, <1>4, <1>5 DEF CatalogueSound, SnapshotsFollow
<1>12. QED
  BY <1>6, <1>7, <1>8, <1>9, <1>10, <1>11 DEF CatalogueInv, CatalogueSound

\* A snapshot is stored.
LEMMA SnapshotKeeps ==
  ASSUME CatalogueInv, NEW r \in Callers, SnapshotStored(r)
  PROVE  CatalogueInv'
<1> DEFINE c == call[r]
<1>1. CatalogueTyped /\ CatalogueSound /\ Known(r) /\ Fresh(r)
  BY DEF CatalogueInv
<1>2. c \in SnapshotRequests /\ c \in Looking /\ c.at = "store"
  BY <1>1, RequestFields DEF SnapshotStored, At, CatalogueTyped, Looking
<1>3. CASE Refused(r)
  BY <1>3, RequestEnds
<1>4. CASE /\ c.id \notin DOMAIN snapshots
           /\ call' = [call EXCEPT ![r] = Idle]
           /\ snapshots' = Put(snapshots, c.id, [row |-> c.from, set |-> c.set])
           /\ late' = IF c.id \in c.missed THEN late \union {c.id} ELSE late
           /\ UNCHANGED <<nodes, profiles, members, given, blind, dangling, callsMade>>
  <2>1. c.id \in 1 .. given.profiles
    BY <1>1, <1>2 DEF CatalogueTyped, Known, SnapshotRequests
  <2>2. c.id \notin c.missed =>
          /\ c.id \in DOMAIN profiles /\ profiles[c.id] = c.from
          /\ \A m \in members : m[1] = c.id => m[2] \in c.set
    BY <1>1, <1>2 DEF Fresh
  <2> HIDE DEF c
  <2>3. /\ DOMAIN snapshots' = DOMAIN snapshots \union {c.id}
        /\ snapshots'[c.id] = [row |-> c.from, set |-> c.set]
        /\ \A p \in DOMAIN snapshots \ {c.id} : snapshots'[p] = snapshots[p]
    BY <1>4 DEF Put
  <2>4. /\ call' \in [Callers -> Requests] /\ call'[r] = Idle
        /\ \A q \in Callers \ {r} : call'[q] = call[q]
    BY <1>1, <1>4 DEF CatalogueTyped, Requests
  <2>5. /\ Idle.at = "idle" /\ Idle \notin Looking /\ Idle \notin SnapshotRequests
        /\ Idle \notin EnableRequests
    BY DEF Idle, Looking, SaveRequests, SnapshotRequests, EnableRequests
  <2>6. CatalogueTyped'
    BY <1>1, <1>4, <2>1, <2>3, <2>4 DEF CatalogueTyped
  <2>7. NodesOnce' /\ MembersLive' /\ TwinsOverlapped'
    BY <1>1, <1>4 DEF CatalogueSound, NodesOnce, MembersLive, TwinsOverlapped
  <2>8. SnapshotsFollow'
    <3> SUFFICES ASSUME NEW p \in DOMAIN snapshots' \ late'
                 PROVE  /\ p \in DOMAIN profiles /\ snapshots'[p].row = profiles[p]
                        /\ \A m \in members : m[1] = p => m[2] \in snapshots'[p].set
      BY <1>4 DEF SnapshotsFollow
    <3>1. CASE p = c.id
      BY <1>4, <2>2, <2>3, <3>1
    <3>2. CASE p # c.id
      BY <1>1, <1>4, <2>3, <3>2 DEF CatalogueSound, SnapshotsFollow
    <3>3. QED
      BY <3>1, <3>2
  <2>9. ImportsMeet'
    BY <1>1, <1>4, <2>4, <2>5 DEF CatalogueSound, ImportsMeet, At, Range
  <2>10. Known(r)' /\ Unlike(r)' /\ Fresh(r)' /\ Copied(r)'
    BY <2>4, <2>5 DEF Known, Unlike, Fresh, Copied, At
  <2>11. ASSUME NEW q \in Callers \ {r} PROVE Known(q)' /\ Unlike(q)' /\ Fresh(q)' /\ Copied(q)'
    <3>1. Known(q) /\ Unlike(q) /\ Fresh(q) /\ Copied(q)
      BY DEF CatalogueInv
    <3>2. Known(q)' /\ Unlike(q)' /\ Fresh(q)'
      BY <1>4, <2>4, <3>1 DEF Known, Unlike, Fresh
    <3>3. Copied(q)'
      BY <1>4, <2>4, <2>5, <3>1 DEF Copied, At
    <3>4. QED
      BY <3>2, <3>3
  <2>12. QED
    BY <2>6, <2>7, <2>8, <2>9, <2>10, <2>11 DEF CatalogueInv, CatalogueSound
<1>5. QED
  BY <1>3, <1>4 DEF SnapshotStored

-----------------------------------------------------------------------------
\* A step that touches nodes, and of memberships at most takes some away, leaves true what is
\* about profiles.
LEMMA NodesChange ==
  ASSUME CatalogueInv, NEW r \in Callers, call' \in [Callers -> Requests],
         UNCHANGED <<profiles, snapshots, blind, late>>, members' \subseteq members,
         given' \in [nodes : Nat, profiles : Nat], given'.profiles = given.profiles,
         given'.nodes >= given.nodes,
         call'[r] \notin Looking /\ call'[r] \notin EnableRequests,
         \A q \in Callers \ {r} : call'[q].at # "import" => call'[q] = call[q]
  PROVE  /\ TwinsOverlapped' /\ SnapshotsFollow'
         /\ \A q \in Callers : Known(q)' /\ Unlike(q)' /\ Fresh(q)'
<1>1. CatalogueTyped /\ CatalogueSound
  BY DEF CatalogueInv
<1>2. TwinsOverlapped' /\ SnapshotsFollow'
  BY <1>1 DEF CatalogueSound, TwinsOverlapped, SnapshotsFollow
<1>3. ASSUME NEW q \in Callers, call'[q] \notin Looking, call'[q] \notin EnableRequests
      PROVE  Known(q)' /\ Unlike(q)' /\ Fresh(q)'
  <2>1. call'[q].at \notin {"name", "port", "find", "save", "nodes", "look", "store"}
    BY <1>3, RequestFields DEF Looking
  <2>2. QED
    BY <1>3, <2>1 DEF Known, Unlike, Fresh, Looking
<1>4. ASSUME NEW q \in Callers \ {r}, call'[q] = call[q]
      PROVE  Known(q)' /\ Unlike(q)' /\ Fresh(q)'
  <2>1. Known(q) /\ Unlike(q) /\ Fresh(q) /\ given \in [nodes : Nat, profiles : Nat]
    BY <1>1 DEF CatalogueInv, CatalogueTyped
  <2>2. Known(q)'
    BY <1>4, <2>1 DEF Known, EnableRequests
  <2>3. Unlike(q)'
    BY <1>4, <2>1 DEF Unlike
  <2>4. Fresh(q)'
    BY <1>4, <2>1 DEF Fresh
  <2>5. QED
    BY <2>2, <2>3, <2>4
<1>5. \A q \in Callers : call'[q].at = "import" =>
        call'[q] \notin Looking /\ call'[q] \notin EnableRequests
  BY DEF Looking, SaveRequests, SnapshotRequests, EnableRequests
<1>6. QED
  BY <1>2, <1>3, <1>4, <1>5

\* A copy of a node is saved.
LEMMA CopyKeeps ==
  ASSUME CatalogueInv, NEW r \in Callers, NodeSaved(r)
  PROVE  CatalogueInv'
<1> DEFINE c == call[r]
<1>1. /\ CatalogueTyped /\ CatalogueSound /\ Known(r) /\ Copied(r)
      /\ \A q \in Callers : Copied(q)
  BY DEF CatalogueInv
<1>2. c \in EnableRequests /\ c.at = "enable" /\ At(r, "enable")
  BY <1>1, RequestFields DEF NodeSaved, At, CatalogueTyped
<1>3. CASE Refused(r)
  BY <1>3, RequestEnds
<1>4. CASE /\ \A id \in DOMAIN nodes \ {c.id} : nodes[id] # c.held
           /\ nodes' = Put(nodes, c.id, c.held)
           /\ IF c.id \in DOMAIN nodes THEN call' = [call EXCEPT ![r] = Idle] ELSE Overtakes(r)
           /\ UNCHANGED <<profiles, members, snapshots, given, history, callsMade>>
  <2>1. c.id \in 1 .. given.nodes /\ c.held \in Fingerprints
    BY <1>1, <1>2 DEF Known, EnableRequests
  <2>2. c.id \in DOMAIN nodes => nodes[c.id] = c.held
    BY <1>1, <1>2 DEF Copied
  <2>3. \A q \in Callers : At(q, "enable") /\ call[q].id = c.id => call[q].held = c.held
    BY <1>1, <1>2 DEF Copied
  <2>4. /\ call' \in [Callers -> Requests] /\ call'[r] = Idle
        /\ \A q \in Callers \ {r} :
             /\ call[q] \notin ImportRequests => call'[q] = call[q]
             /\ call[q] \in ImportRequests =>
                  call'[q] \in ImportRequests
                  /\ (c.id \notin DOMAIN nodes => call'[q].overtaken)
                  /\ (c.id \in DOMAIN nodes => call'[q] = call[q])
    <3>1. CASE c.id \in DOMAIN nodes
      BY <1>1, <1>4, <3>1 DEF CatalogueTyped, Requests
    <3>2. CASE c.id \notin DOMAIN nodes
      BY <1>1, <1>4, <3>2, OvertakenRequests DEF CatalogueTyped
    <3>3. QED
      BY <3>1, <3>2
  <2> HIDE DEF c
  <2>5. /\ DOMAIN nodes' = DOMAIN nodes \union {c.id} /\ nodes'[c.id] = c.held
        /\ \A id \in DOMAIN nodes \ {c.id} : nodes'[id] = nodes[id]
    BY <1>4 DEF Put
  <2>6. /\ Idle.at = "idle" /\ Idle \notin Looking /\ Idle \notin EnableRequests
    BY DEF Idle, Looking, SaveRequests, SnapshotRequests, EnableRequests
  <2>7. /\ members' = members /\ profiles' = profiles /\ snapshots' = snapshots
        /\ given' = given /\ blind' = blind /\ late' = late /\ dangling' = dangling
    BY <1>4 DEF history
  <2>8. /\ given \in [nodes : Nat, profiles : Nat]
        /\ \A q \in Callers : call[q] \in Requests
    BY <1>1 DEF CatalogueTyped
  <2>9. \A q \in Callers \ {r} :
          /\ call'[q].at # "import" => call'[q] = call[q]
          /\ call'[q].at = "import" => call[q] \in ImportRequests
    BY <2>4, <2>8, RequestFields DEF ImportRequests
  <2>10. /\ TwinsOverlapped' /\ SnapshotsFollow'
         /\ \A q \in Callers : Known(q)' /\ Unlike(q)' /\ Fresh(q)'
    BY <2>4, <2>6, <2>7, <2>8, <2>9, NodesChange
  <2>11. CatalogueTyped'
    BY <1>1, <2>1, <2>4, <2>5, <2>7 DEF CatalogueTyped
  <2>12. NodesOnce'
    BY <1>1, <1>4, <2>5 DEF CatalogueSound, NodesOnce, IsInjective
  <2>13. MembersLive'
    BY <1>1, <2>5, <2>7 DEF CatalogueSound, MembersLive
  <2>14. ImportsMeet'
    <3> SUFFICES ASSUME NEW q \in Callers, call'[q].at = "import", ~call'[q].overtaken
                 PROVE  call'[q].new \intersect Range(nodes') = {}
      BY DEF ImportsMeet, At
    <3>1. q # r /\ call[q] \in ImportRequests
      BY <2>4, <2>6, <2>9
    <3>2. c.id \in DOMAIN nodes /\ call'[q] = call[q]
      BY <2>4, <3>1
    <3>3. Range(nodes') = Range(nodes)
      BY <2>2, <2>5, <3>2 DEF Range
    <3>4. QED
      BY <1>1, <3>2, <3>3 DEF CatalogueSound, ImportsMeet, At
  <2>15. ASSUME NEW q \in Callers PROVE Copied(q)'
    <3> SUFFICES ASSUME call'[q].at = "enable"
                 PROVE  /\ call'[q].id \in DOMAIN nodes' => nodes'[call'[q].id] = call'[q].held
                        /\ \A p \in Callers : call'[p].at = "enable" /\ call'[p].id = call'[q].id
                             => call'[p].held = call'[q].held
      BY DEF Copied, At
    <3>1. \A p \in Callers : call'[p].at = "enable" => call'[p] = call[p]
      BY <2>4, <2>6, <2>9
    <3>2. QED
      BY <1>1, <2>3, <2>5, <3>1 DEF Copied, At
  <2>16. QED
    BY <2>10, <2>11, <2>12, <2>13, <2>14, <2>15 DEF CatalogueInv, CatalogueSound
<1>5. QED
  BY <1>3, <1>4 DEF NodeSaved

\* The transaction that deletes a node and its memberships.
LEMMA RemovalKeeps ==
  ASSUME CatalogueInv, NEW r \in Callers, DeleteProxyNode(r)
  PROVE  CatalogueInv'
<1> DEFINE id == call[r].id
<1>1. CatalogueTyped /\ CatalogueSound
  BY DEF CatalogueInv
<1>2. call[r] \in DeleteRequests
  BY <1>1, RequestFields DEF DeleteProxyNode, At, CatalogueTyped
<1>3. /\ nodes' = Without(nodes, {id})
      /\ members' = {m \in members : m[2] # id} /\ dangling' = {m \in dangling : m[2] # id}
      /\ call' = [call EXCEPT ![r].at = "each"]
      /\ UNCHANGED <<profiles, snapshots, given, blind, late, callsMade>>
  BY DEF DeleteProxyNode
<1> HIDE DEF id
<1>4. /\ DOMAIN nodes' = DOMAIN nodes \ {id}
      /\ \A x \in DOMAIN nodes \ {id} : nodes'[x] = nodes[x]
  BY <1>3 DEF Without, Restrict
<1>5. /\ call' = [call EXCEPT ![r] = [call[r] EXCEPT !.at = "each"]]
      /\ [call[r] EXCEPT !.at = "each"] \in DeleteRequests
  BY <1>2, <1>3 DEF DeleteRequests
<1>6. /\ call' \in [Callers -> Requests] /\ call'[r] \in DeleteRequests
      /\ \A q \in Callers \ {r} : call'[q] = call[q]
  BY <1>1, <1>5 DEF CatalogueTyped, Requests
<1>7. call'[r].at \in {"each", "remove"} /\ call'[r] \notin Looking /\ call'[r] \notin EnableRequests
  BY <1>6 DEF DeleteRequests, Looking, SaveRequests, SnapshotRequests, EnableRequests
<1>8. /\ TwinsOverlapped' /\ SnapshotsFollow'
      /\ \A q \in Callers : Known(q)' /\ Unlike(q)' /\ Fresh(q)'
  <2>1. given' \in [nodes : Nat, profiles : Nat] /\ given' = given /\ members' \subseteq members
    BY <1>1, <1>3 DEF CatalogueTyped
  <2>2. given'.nodes >= given.nodes
    BY <2>1
  <2>3. QED
    BY <1>3, <1>6, <1>7, <2>1, <2>2, NodesChange
<1>9. CatalogueTyped'
  BY <1>1, <1>3, <1>4, <1>6 DEF CatalogueTyped
<1>10. NodesOnce'
  BY <1>1, <1>4 DEF CatalogueSound, NodesOnce, IsInjective
<1>11. MembersLive'
  BY <1>1, <1>3, <1>4 DEF CatalogueSound, MembersLive
<1>12. ImportsMeet'
  <2>1. Range(nodes') \subseteq Range(nodes)
    BY <1>4 DEF Range
  <2>2. QED
    BY <1>1, <1>6, <1>7, <2>1 DEF CatalogueSound, ImportsMeet, At
<1>13. \A q \in Callers : Copied(q)'
  BY <1>4, <1>6, <1>7 DEF CatalogueInv, Copied, At
<1>14. QED
  BY <1>8, <1>9, <1>10, <1>11, <1>12, <1>13 DEF CatalogueInv, CatalogueSound

\* The rows of an import are inserted.
LEMMA InsertionKeeps ==
  ASSUME CatalogueAssumption, CatalogueInv, NEW r \in Callers, NodesInserted(r)
  PROVE  CatalogueInv'
<1> DEFINE new == call[r].new
           k == Cardinality(new)
           rows == Enumerated(given.nodes, new)
<1>1. CatalogueTyped /\ CatalogueSound
  BY DEF CatalogueInv
<1>2. /\ call[r] \in ImportRequests /\ given \in [nodes : Nat, profiles : Nat]
      /\ \A q \in Callers : call[q] \in Requests
  BY <1>1, RequestFields DEF NodesInserted, At, CatalogueTyped
<1>3. CASE Refused(r)
  BY <1>3, RequestEnds
<1>4. CASE /\ new \intersect Range(nodes) = {}
           /\ nodes' = [id \in DOMAIN nodes \union DOMAIN rows |->
                         IF id \in DOMAIN nodes THEN nodes[id] ELSE rows[id]]
           /\ given' = [given EXCEPT !.nodes = given.nodes + k]
           /\ Overtakes(r)
           /\ UNCHANGED <<profiles, members, snapshots, history, callsMade>>
  <2>1. new \subseteq Fingerprints /\ IsFiniteSet(new)
    BY <1>2, FS_Subset DEF ImportRequests, CatalogueAssumption
  <2>2. /\ k \in Nat /\ DOMAIN rows = given.nodes + 1 .. given.nodes + k
        /\ \A x \in DOMAIN rows : rows[x] \in new
        /\ \A x, y \in DOMAIN rows : rows[x] = rows[y] => x = y
    BY <1>2, <2>1, EnumeratedRows
  <2> HIDE DEF new, k, rows
  <2>3. DOMAIN nodes \intersect DOMAIN rows = {}
    BY <1>1, <1>2, <2>2 DEF CatalogueTyped
  <2>4. /\ DOMAIN nodes' = DOMAIN nodes \union DOMAIN rows
        /\ \A x \in DOMAIN nodes : nodes'[x] = nodes[x]
        /\ \A x \in DOMAIN rows : nodes'[x] = rows[x]
    BY <1>4, <2>3
  <2>5. /\ call' \in [Callers -> Requests] /\ call'[r] = Idle
        /\ \A q \in Callers \ {r} :
             /\ call[q] \notin ImportRequests => call'[q] = call[q]
             /\ call[q] \in ImportRequests =>
                  call'[q] \in ImportRequests /\ call'[q].overtaken
    BY <1>1, <1>4, OvertakenRequests DEF CatalogueTyped
  <2>6. /\ Idle.at = "idle" /\ Idle \notin Looking /\ Idle \notin EnableRequests
    BY DEF Idle, Looking, SaveRequests, SnapshotRequests, EnableRequests
  <2>7. /\ members' = members /\ profiles' = profiles /\ snapshots' = snapshots
        /\ blind' = blind /\ late' = late /\ dangling' = dangling
        /\ given' \in [nodes : Nat, profiles : Nat] /\ given'.profiles = given.profiles
        /\ given'.nodes = given.nodes + k /\ given'.nodes >= given.nodes
    BY <1>2, <1>4, <2>2 DEF history
  <2>8. \A q \in Callers \ {r} :
          /\ call'[q].at # "import" => call'[q] = call[q]
          /\ call'[q].at = "import" => call'[q].overtaken
    BY <1>2, <2>5, RequestFields DEF ImportRequests
  <2>9. /\ TwinsOverlapped' /\ SnapshotsFollow'
        /\ \A q \in Callers : Known(q)' /\ Unlike(q)' /\ Fresh(q)'
    BY <2>5, <2>6, <2>7, <2>8, NodesChange
  <2>10. CatalogueTyped'
    <3>1. DOMAIN nodes' \subseteq 1 .. given'.nodes
      BY <1>1, <1>2, <2>2, <2>4, <2>7 DEF CatalogueTyped
    <3>2. \A x \in DOMAIN nodes' : nodes'[x] \in Fingerprints
      BY <1>1, <2>1, <2>2, <2>4 DEF CatalogueTyped
    <3>3. QED
      BY <1>1, <2>5, <2>7, <3>1, <3>2 DEF CatalogueTyped
  <2>11. NodesOnce'
    <3> SUFFICES ASSUME NEW x \in DOMAIN nodes', NEW y \in DOMAIN nodes', nodes'[x] = nodes'[y]
                 PROVE  x = y
      BY DEF NodesOnce, IsInjective
    <3>1. CASE x \in DOMAIN nodes /\ y \in DOMAIN nodes
      BY <1>1, <2>4, <3>1 DEF CatalogueSound, NodesOnce, IsInjective
    <3>2. CASE x \in DOMAIN rows /\ y \in DOMAIN rows
      BY <2>2, <2>4, <3>2
    <3>3. \A i \in DOMAIN nodes, j \in DOMAIN rows : nodes[i] # rows[j]
      BY <1>4, <2>2 DEF Range
    <3>4. QED
      BY <2>4, <3>1, <3>2, <3>3
  <2>12. MembersLive'
    BY <1>1, <2>4, <2>7 DEF CatalogueSound, MembersLive
  <2>13. ImportsMeet'
    BY <2>5, <2>6, <2>8 DEF ImportsMeet, At
  <2>14. ASSUME NEW q \in Callers PROVE Copied(q)'
    <3> SUFFICES ASSUME call'[q].at = "enable"
                 PROVE  /\ call'[q].id \in DOMAIN nodes' => nodes'[call'[q].id] = call'[q].held
                        /\ \A p \in Callers : call'[p].at = "enable" /\ call'[p].id = call'[q].id
                             => call'[p].held = call'[q].held
      BY DEF Copied, At
    <3>1. \A p \in Callers : call'[p].at = "enable" => call'[p] = call[p]
      BY <2>5, <2>6, <2>8
    <3>2. Copied(q) /\ Known(q) /\ call[q] \in EnableRequests
      BY <1>2, <3>1, RequestFields DEF CatalogueInv
    <3>3. call[q].id \notin DOMAIN rows
      BY <1>2, <2>2, <3>2 DEF Known
    <3>4. QED
      BY <2>4, <3>1, <3>2, <3>3 DEF Copied, At
  <2>15. QED
    BY <2>9, <2>10, <2>11, <2>12, <2>13, <2>14 DEF CatalogueInv, CatalogueSound
<1>5. QED
  BY <1>3, <1>4 DEF NodesInserted

-----------------------------------------------------------------------------
LEMMA CatalogueStutters ==
  ASSUME CatalogueInv, UNCHANGED catalogueVars
  PROVE  CatalogueInv'
<1>1. /\ UNCHANGED <<nodes, profiles, members, snapshots, given, call, blind, late, dangling>>
  BY DEF catalogueVars, tables, history
<1>2. CatalogueTyped' /\ CatalogueSound'
  BY <1>1 DEF CatalogueInv, CatalogueTyped, CatalogueSound, NodesOnce, MembersLive,
    TwinsOverlapped, SnapshotsFollow, ImportsMeet, At, Range
<1>3. \A r \in Callers : Known(r)' /\ Unlike(r)' /\ Fresh(r)' /\ Copied(r)'
  BY <1>1 DEF CatalogueInv, Known, Unlike, Fresh, Copied, At
<1>4. QED
  BY <1>2, <1>3 DEF CatalogueInv

LEMMA CatalogueSteps ==
  ASSUME CatalogueAssumption, CatalogueInv, [CatalogueNext]_catalogueVars
  PROVE  CatalogueInv'
<1>1. CASE UNCHANGED catalogueVars
  BY <1>1, CatalogueStutters
<1>2. ASSUME NEW r \in Callers,
             \/ CreatePortProfile(r) \/ UpdatePortProfile(r)
             \/ NameLookedUp(r) \/ PortLookedUp(r) \/ ProfileFound(r) \/ ProfileSaved(r)
             \/ \E id \in 1 .. given.profiles : DeletePortProfile(r, id)
             \/ SaveRuntimePreview(r) \/ NodesResolved(r) \/ SnapshotLookedUp(r)
             \/ SnapshotStored(r)
             \/ SetProxyNodeEnabled(r) \/ NodeSaved(r)
             \/ DeleteProxyNodes(r) \/ NodeLookedUp(r) \/ DeleteProxyNode(r)
             \/ ImportSourceConfig(r) \/ NodesInserted(r) \/ StatementFails(r)
      PROVE  CatalogueInv'
  <2>1. given \in [nodes : Nat, profiles : Nat]
    BY DEF CatalogueInv, CatalogueTyped
  <2>2. CASE CreatePortProfile(r)
    BY <2>1, <2>2, SaveBegins DEF CreatePortProfile
  <2>3. CASE UpdatePortProfile(r)
    BY <2>1, <2>3, SaveBegins DEF UpdatePortProfile
  <2>4. CASE NameLookedUp(r)
    BY <2>4, NameCompared
  <2>5. CASE PortLookedUp(r)
    BY <2>5, PortCompared
  <2>6. CASE ProfileFound(r)
    BY <2>6, ProfileLookedFor
  <2>7. CASE ProfileSaved(r)
    BY <2>7, SaveKeeps
  <2>8. CASE \E id \in 1 .. given.profiles : DeletePortProfile(r, id)
    BY <2>8, DeletionKeeps
  <2>9. CASE SaveRuntimePreview(r)
    BY <2>9, PreviewBegins
  <2>10. CASE NodesResolved(r)
    BY <2>10, NodesTaken
  <2>11. CASE SnapshotLookedUp(r)
    BY <2>11, SnapshotLookedFor
  <2>12. CASE SnapshotStored(r)
    BY <2>12, SnapshotKeeps
  <2>13. CASE SetProxyNodeEnabled(r)
    BY <2>13, EnableBegins
  <2>14. CASE NodeSaved(r)
    BY <2>14, CopyKeeps
  <2>15. CASE DeleteProxyNodes(r)
    BY <2>15, DeletionBegins
  <2>16. CASE NodeLookedUp(r)
    BY <2>16, NodeTaken
  <2>17. CASE DeleteProxyNode(r)
    BY <2>17, RemovalKeeps
  <2>18. CASE ImportSourceConfig(r)
    BY <2>18, ImportBegins
  <2>19. CASE NodesInserted(r)
    BY <2>19, InsertionKeeps
  <2>20. CASE StatementFails(r)
    BY <2>20, RequestEnds DEF StatementFails
  <2>21. QED
    BY <1>2, <2>2, <2>3, <2>4, <2>5, <2>6, <2>7, <2>8, <2>9, <2>10, <2>11, <2>12, <2>13,
      <2>14, <2>15, <2>16, <2>17, <2>18, <2>19, <2>20
<1>3. QED
  BY <1>1, <1>2 DEF CatalogueNext

\* However requests overlap or fail: no node is there twice, memberships have their profile, and
\* equal names and ports, refused imports and old snapshots come from requests that overlapped
\* (proxy_node.go:99-152, port_profile.go:61-146, 205-223, source_config.go:191-260).
THEOREM CatalogueAlwaysSound ==
  ASSUME CatalogueAssumption
  PROVE  CatalogueSpec => []CatalogueSound
<1>1. CatalogueInit => CatalogueInv
  BY InitCatalogue
<1>2. CatalogueInv /\ [CatalogueNext]_catalogueVars => CatalogueInv'
  BY CatalogueSteps
<1>3. CatalogueInv => CatalogueSound
  BY DEF CatalogueInv
<1>4. QED
  BY <1>1, <1>2, <1>3, PTL DEF CatalogueSpec

-----------------------------------------------------------------------------
(* The inductive invariant, of one key.  The times that passed are in order and not later    *)
(* than now.  The queue is their end; unless it is full, those before it were long ago.      *)
Ordered(p) ==
  /\ \A i \in 1 .. Len(p) : p[i] <= now
  /\ \A i, j \in 1 .. Len(p) : i <= j => p[i] <= p[j]

EndOf(s, p) ==
  Len(s) <= Len(p) /\ \A j \in 1 .. Len(s) : s[j] = p[Len(p) - Len(s) + j]

\* The first n times are at least d seconds ago.
LongAgo(n, d, p) == \A i \in 1 .. n : p[i] + d <= now

\* Of m + 1 times in a row the last is at least d seconds after the first.
Kept(m, d, p) == \A i \in 1 .. Len(p) : i + m <= Len(p) => p[i + m] - p[i] >= d

KeyInv(k) ==
  /\ Ordered(passed[k]) /\ EndOf(store[k], passed[k]) /\ Len(store[k]) <= maxRequestNum[k]
  /\ Len(store[k]) < maxRequestNum[k]
       => LongAgo(Len(passed[k]) - Len(store[k]), duration[k], passed[k])
  /\ Kept(maxRequestNum[k], duration[k], passed[k])

Inv == RateLimiterTypeOK /\ \A k \in LimitKeys : KeyInv(k)

\* What the arithmetic below needs to know of a key.
LEMMA KeyTyped ==
  ASSUME RateLimiterAssumption, RateLimiterTypeOK, NEW k \in LimitKeys
  PROVE  /\ now \in Nat /\ store[k] \in Seq(Nat) /\ passed[k] \in Seq(Nat)
         /\ maxRequestNum[k] \in Nat \ {0} /\ duration[k] \in Nat /\ expiration \in Nat
         /\ duration[k] <= expiration
BY DEF RateLimiterAssumption, RateLimiterTypeOK

\* The room of the next request: it would be the last of m + 1 times whose first is long ago.
Room(m, d, p) == Len(p) + 1 > m => p[Len(p) + 1 - m] + d <= now

-----------------------------------------------------------------------------
(* A time that passed is appended to the times and to the queue *)

LEMMA AppendedTime ==
  ASSUME NEW p \in Seq(Nat), NEW t \in Nat
  PROVE  /\ Append(p, t) \in Seq(Nat) /\ Len(Append(p, t)) = Len(p) + 1 /\ Len(p) \in Nat
         /\ Append(p, t)[Len(p) + 1] = t
         /\ \A i \in 1 .. Len(p) : Append(p, t)[i] = p[i] /\ p[i] \in Nat
OBVIOUS

LEMMA PassOrdered ==
  ASSUME now \in Nat, NEW p \in Seq(Nat), Ordered(p)
  PROVE  Ordered(Append(p, now))
<1> DEFINE pp == Append(p, now)
<1>1. /\ Len(pp) = Len(p) + 1 /\ Len(p) \in Nat /\ pp[Len(p) + 1] = now
      /\ \A i \in 1 .. Len(p) : pp[i] = p[i] /\ p[i] \in Nat
  BY AppendedTime
<1> HIDE DEF pp
<1>2. \A i \in 1 .. Len(pp) : i \in 1 .. Len(p) \/ i = Len(p) + 1
  BY <1>1
<1>3. \A i \in 1 .. Len(pp) : pp[i] <= now
  BY <1>1, <1>2 DEF Ordered
<1>4. ASSUME NEW i \in 1 .. Len(pp), NEW j \in 1 .. Len(pp), i <= j
      PROVE  pp[i] <= pp[j]
  BY <1>1, <1>2, <1>3, <1>4 DEF Ordered
<1> QED
  BY <1>3, <1>4 DEF Ordered, pp

LEMMA PassEnd ==
  ASSUME now \in Nat, NEW p \in Seq(Nat), NEW q \in Seq(Nat), EndOf(q, p)
  PROVE  EndOf(Append(q, now), Append(p, now))
<1> DEFINE pp == Append(p, now)  qq == Append(q, now)
<1>1. /\ Len(pp) = Len(p) + 1 /\ Len(p) \in Nat /\ pp[Len(p) + 1] = now
      /\ \A i \in 1 .. Len(p) : pp[i] = p[i]
  BY AppendedTime
<1>2. /\ Len(qq) = Len(q) + 1 /\ Len(q) \in Nat /\ qq[Len(q) + 1] = now
      /\ \A i \in 1 .. Len(q) : qq[i] = q[i]
  BY AppendedTime
<1> HIDE DEF pp, qq
<1>3. ASSUME NEW j \in 1 .. Len(qq) PROVE qq[j] = pp[Len(pp) - Len(qq) + j]
  <2>1. Len(pp) - Len(qq) + j = Len(p) - Len(q) + j /\ Len(q) <= Len(p)
    BY <1>1, <1>2 DEF EndOf
  <2>2. CASE j = Len(q) + 1
    BY <2>1, <2>2, <1>1, <1>2
  <2>3. CASE j \in 1 .. Len(q)
    <3>1. q[j] = p[Len(p) - Len(q) + j] /\ Len(p) - Len(q) + j \in 1 .. Len(p)
      BY <2>1, <2>3, <1>1, <1>2 DEF EndOf
    <3> QED
      BY <3>1, <2>1, <2>3, <1>1, <1>2
  <2> QED
    BY <2>2, <2>3, <1>2
<1>4. EndOf(qq, pp)
  BY <1>1, <1>2, <1>3 DEF EndOf
<1> QED
  BY <1>4 DEF pp, qq

LEMMA PassKept ==
  ASSUME now \in Nat, NEW p \in Seq(Nat), NEW m \in Nat \ {0}, NEW d \in Nat,
         Kept(m, d, p), Room(m, d, p)
  PROVE  Kept(m, d, Append(p, now))
<1> DEFINE pp == Append(p, now)
<1>1. /\ Len(pp) = Len(p) + 1 /\ Len(p) \in Nat /\ pp[Len(p) + 1] = now
      /\ \A i \in 1 .. Len(p) : pp[i] = p[i] /\ p[i] \in Nat
  BY AppendedTime
<1> HIDE DEF pp
<1>2. ASSUME NEW i \in 1 .. Len(pp), i + m <= Len(pp) PROVE pp[i + m] - pp[i] >= d
  <2>1. i \in 1 .. Len(p)
    BY <1>1, <1>2
  <2>2. CASE i + m = Len(p) + 1
    <3>1. i = Len(p) + 1 - m /\ Len(p) + 1 > m
      BY <2>1, <2>2, <1>1
    <3>2. p[i] + d <= now
      BY <3>1 DEF Room
    <3> QED
      BY <3>2, <2>1, <2>2, <1>1
  <2>3. CASE i + m <= Len(p)
    <3>1. i + m \in 1 .. Len(p) /\ p[i + m] - p[i] >= d
      BY <2>1, <2>3, <1>1 DEF Kept
    <3> QED
      BY <3>1, <2>1, <1>1
  <2> QED
    BY <2>1, <2>2, <2>3, <1>1, <1>2
<1> QED
  BY <1>2 DEF Kept, pp

LEMMA PassLongAgo ==
  ASSUME now \in Nat, NEW p \in Seq(Nat), NEW n \in Int, NEW d \in Nat, n <= Len(p),
         LongAgo(n, d, p)
  PROVE  LongAgo(n, d, Append(p, now))
<1>1. \A i \in 1 .. n : i \in 1 .. Len(p)
  OBVIOUS
<1> QED
  BY <1>1, AppendedTime DEF LongAgo

\* A request that passes with queue q before it.
LEMMA PassKeeps ==
  ASSUME RateLimiterAssumption, Inv, NEW k \in LimitKeys, NEW q \in Seq(Nat), Pass(k, q),
         EndOf(q, passed[k]), Len(q) < maxRequestNum[k],
         Room(maxRequestNum[k], duration[k], passed[k]),
         Len(q) + 1 < maxRequestNum[k]
           => LongAgo(Len(passed[k]) - Len(q), duration[k], passed[k])
  PROVE  Inv'
<1> DEFINE p == passed[k]  m == maxRequestNum[k]  d == duration[k]
<1>1. /\ now \in Nat /\ p \in Seq(Nat) /\ m \in Nat \ {0} /\ d \in Nat
      /\ Ordered(p) /\ Kept(m, d, p)
  BY KeyTyped DEF Inv, KeyInv
<1>2. /\ RateLimiterTypeOK' /\ now' = now
      /\ store'[k] = Append(q, now) /\ passed'[k] = Append(p, now)
      /\ \A l \in LimitKeys \ {k} : store'[l] = store[l] /\ passed'[l] = passed[l]
  BY DEF Pass, RateLimiterTypeOK, Inv
<1>3. Ordered(Append(p, now)) /\ EndOf(Append(q, now), Append(p, now)) /\ Kept(m, d, Append(p, now))
  BY <1>1, PassOrdered, PassEnd, PassKept
<1>4. /\ Len(Append(q, now)) = Len(q) + 1 /\ Len(Append(p, now)) = Len(p) + 1
      /\ Len(q) \in Nat /\ Len(p) \in Nat /\ Len(q) + 1 <= m
  BY <1>1, AppendedTime
<1>5. Len(q) + 1 < m => LongAgo(Len(p) - Len(q), d, Append(p, now))
  BY <1>1, <1>4, PassLongAgo
<1>6. /\ Len(Append(q, now)) <= m
      /\ Len(Append(q, now)) < m
           => LongAgo(Len(Append(p, now)) - Len(Append(q, now)), d, Append(p, now))
  <2>1. Len(Append(p, now)) - Len(Append(q, now)) = Len(p) - Len(q)
    BY <1>4
  <2> QED
    BY <2>1, <1>4, <1>5
<1>7. KeyInv(k)'
  BY <1>2, <1>3, <1>6 DEF KeyInv, Ordered, EndOf, LongAgo, Kept
<1>8. ASSUME NEW l \in LimitKeys \ {k} PROVE KeyInv(l)'
  <2>1. KeyInv(l)
    BY DEF Inv
  <2>2. now' = now /\ store'[l] = store[l] /\ passed'[l] = passed[l]
    BY <1>2
  <2> QED
    BY <2>1, <2>2 DEF KeyInv, Ordered, EndOf, LongAgo, Kept
<1> QED
  BY <1>2, <1>7, <1>8 DEF Inv

\* The queue without its oldest time.
LEMMA TailEnd ==
  ASSUME NEW p \in Seq(Nat), NEW s \in Seq(Nat), Len(s) > 0, EndOf(s, p)
  PROVE  Tail(s) \in Seq(Nat) /\ Len(Tail(s)) = Len(s) - 1 /\ EndOf(Tail(s), p)
<1> DEFINE t == Tail(s)
<1>1. s # <<>>
  OBVIOUS
<1>2. t \in Seq(Nat) /\ Len(t) = Len(s) - 1 /\ Len(s) \in Nat \ {0} /\ Len(p) \in Nat
  BY <1>1
<1>3. \A j \in 1 .. Len(s) - 1 : t[j] = s[j + 1]
  BY <1>1
<1> HIDE DEF t
<1>4. Len(s) <= Len(p) /\ \A j \in 1 .. Len(s) : s[j] = p[Len(p) - Len(s) + j]
  BY DEF EndOf
<1>5. ASSUME NEW j \in 1 .. Len(t) PROVE t[j] = p[Len(p) - Len(t) + j]
  <2>1. \A a, b, c \in Nat : c >= 1 /\ c <= b =>
          /\ b + 1 - 1 = b /\ c + 1 >= 1 /\ c + 1 <= b + 1
          /\ a - b + c = a - (b + 1) + (c + 1)
    OBVIOUS
  <2>2. Len(t) \in Nat /\ j \in Nat /\ j >= 1 /\ j <= Len(t) /\ Len(s) = Len(t) + 1
    BY <1>2
  <2>3. /\ j \in 1 .. Len(s) - 1 /\ j + 1 \in 1 .. Len(s)
        /\ Len(p) - Len(t) + j = Len(p) - Len(s) + (j + 1)
    BY <2>1, <2>2, <1>2
  <2>4. t[j] = s[j + 1]
    BY <2>3, <1>3
  <2>5. s[j + 1] = p[Len(p) - Len(s) + (j + 1)]
    BY <2>3, <1>4
  <2> QED
    BY <2>3, <2>4, <2>5
<1>6. Len(t) <= Len(p)
  BY <1>2, <1>4
<1>7. EndOf(t, p)
  BY <1>5, <1>6 DEF EndOf
<1> QED
  BY <1>2, <1>7 DEF t

-----------------------------------------------------------------------------
(* The actions *)

LEMMA RequestKeeps ==
  ASSUME RateLimiterAssumption, Inv, NEW k \in LimitKeys, Request(k)
  PROVE  Inv'
<1> DEFINE p == passed[k]  s == store[k]  m == maxRequestNum[k]  d == duration[k]
<1>1. /\ now \in Nat /\ p \in Seq(Nat) /\ s \in Seq(Nat) /\ m \in Nat \ {0} /\ d \in Nat
      /\ EndOf(s, p) /\ Len(s) <= m
      /\ (Len(s) < m => LongAgo(Len(p) - Len(s), d, p))
  BY KeyTyped DEF Inv, KeyInv
<1>2. Len(p) \in Nat /\ Len(s) \in Nat /\ Len(s) <= Len(p)
  BY <1>1 DEF EndOf
<1>3. CASE Len(s) < m /\ Pass(k, s)
  <2>1. ASSUME Len(p) + 1 > m PROVE p[Len(p) + 1 - m] + d <= now
    <3>1. m \in Nat /\ Len(s) < m /\ LongAgo(Len(p) - Len(s), d, p)
      BY <1>1, <1>3
    <3>2. Len(p) + 1 - m \in 1 .. Len(p) - Len(s)
      <4>1. \A x, y, z \in Nat : y < z /\ x + 1 > z => x + 1 - z \in 1 .. x - y
        OBVIOUS
      <4> QED
        BY <2>1, <3>1, <1>2, <4>1
    <3> QED
      BY <3>1, <3>2 DEF LongAgo
  <2> QED
    BY <2>1, <1>1, <1>3, PassKeeps DEF Room
<1>4. CASE Len(s) >= m /\ now - Head(s) >= d /\ Pass(k, Tail(s))
  <2>1. Len(s) = m /\ 1 \in 1 .. Len(s)
    BY <1>1, <1>2, <1>4
  <2>2. Tail(s) \in Seq(Nat) /\ Len(Tail(s)) = Len(s) - 1 /\ EndOf(Tail(s), p)
    BY <2>1, <1>1, <1>2, TailEnd
  <2>3. Head(s) = s[1] /\ s[1] \in Nat
    BY <2>1, <1>1
  <2>4. Room(m, d, p)
    <3>1. s[1] = p[Len(p) - Len(s) + 1]
      BY <2>1, <1>1 DEF EndOf
    <3>2. Len(p) - Len(s) + 1 = Len(p) + 1 - m
      BY <2>1, <1>2
    <3> HIDE DEF p, s, m, d
    <3>3. p[Len(p) + 1 - m] = s[1]
      BY <3>1, <3>2
    <3>4. now - s[1] >= d
      BY <2>3, <1>4
    <3>5. s[1] + d <= now
      BY <3>4, <2>3, <1>1
    <3> QED
      BY <3>3, <3>5 DEF Room
  <2>5. Len(Tail(s)) < m /\ ~(Len(Tail(s)) + 1 < m)
    BY <2>1, <2>2, <1>2
  <2> QED
    BY <2>2, <2>3, <2>4, <2>5, <1>4, PassKeeps
<1> QED
  BY <1>3, <1>4 DEF Request

LEMMA CleanerKeeps ==
  ASSUME RateLimiterAssumption, Inv, clearExpiredItems
  PROVE  Inv'
<1>1. RateLimiterTypeOK' /\ now' = now /\ passed' = passed
  BY DEF clearExpiredItems, Inv, RateLimiterTypeOK
<1>2. ASSUME NEW k \in LimitKeys PROVE KeyInv(k)'
  <2> DEFINE p == passed[k]  s == store[k]  m == maxRequestNum[k]  d == duration[k]
  <2>1. /\ now \in Nat /\ p \in Seq(Nat) /\ s \in Seq(Nat) /\ m \in Nat \ {0} /\ d \in Nat
        /\ expiration \in Nat /\ d <= expiration /\ KeyInv(k)
    BY KeyTyped DEF Inv
  <2>2. CASE Quiet(k)
    <3>1. store'[k] = <<>>
      BY <2>2 DEF clearExpiredItems
    <3>2. Len(s) \in 1 .. Len(s) /\ Len(p) \in Nat /\ Len(s) \in Nat
      BY <2>1, <2>2 DEF Quiet
    <3>3. Len(s) <= Len(p) /\ s[Len(s)] = p[Len(p) - Len(s) + Len(s)]
      BY <2>1, <3>2 DEF KeyInv, EndOf
    <3>4. Len(p) - Len(s) + Len(s) = Len(p)
      BY <3>2
    <3>5. s[Len(s)] = p[Len(p)] /\ Len(p) \in 1 .. Len(p)
      BY <3>2, <3>3, <3>4
    <3>6. p[Len(p)] \in Nat /\ now - p[Len(p)] > expiration
      BY <2>1, <2>2, <3>5 DEF Quiet
    <3>7. ASSUME NEW i \in 1 .. Len(p) PROVE p[i] + d <= now
      <4>1. p[i] \in Nat /\ Ordered(p) /\ i <= Len(p)
        BY <2>1, <3>2 DEF KeyInv
      <4>2. p[i] <= p[Len(p)]
        BY <4>1, <3>5 DEF Ordered
      <4> HIDE DEF p, s, m, d
      <4>3. ASSUME NEW a \in Nat, NEW b \in Nat, NEW c \in Nat, NEW x \in Nat, NEW y \in Nat,
                   a <= b, x - b > y, c <= y
            PROVE  a + c <= x
        BY <4>3
      <4> QED
        BY <4>1, <4>2, <4>3, <2>1, <3>6
    <3>8. /\ EndOf(<<>>, p) /\ Len(<<>>) <= m /\ Len(p) - Len(<<>>) = Len(p)
          /\ LongAgo(Len(p), d, p)
      BY <2>1, <3>2, <3>7 DEF EndOf, LongAgo
    <3>9. LongAgo(Len(p) - Len(<<>>), d, p)
      BY <3>8
    <3> QED
      BY <1>1, <2>1, <3>1, <3>8, <3>9 DEF KeyInv, Ordered, EndOf, LongAgo, Kept
  <2>3. CASE ~Quiet(k)
    <3>1. store'[k] = store[k]
      BY <2>3 DEF clearExpiredItems
    <3> QED
      BY <1>1, <2>1, <3>1 DEF KeyInv, Ordered, EndOf, LongAgo, Kept
  <2> QED
    BY <2>2, <2>3
<1> QED
  BY <1>1, <1>2 DEF Inv

LEMMA SecondKeeps ==
  ASSUME RateLimiterAssumption, Inv, Second
  PROVE  Inv'
<1>1. /\ RateLimiterTypeOK' /\ now \in Nat /\ now' = now + 1
      /\ store' = store /\ passed' = passed
  BY DEF Second, Inv, RateLimiterTypeOK
<1>2. ASSUME NEW k \in LimitKeys PROVE KeyInv(k)'
  <2> DEFINE p == passed[k]  s == store[k]  m == maxRequestNum[k]  d == duration[k]
  <2>1. p \in Seq(Nat) /\ s \in Seq(Nat) /\ d \in Nat /\ KeyInv(k)
    BY KeyTyped DEF Inv
  <2>2. \A i \in 1 .. Len(p) : p[i] \in Nat
    BY <2>1
  <2>3. Ordered(p)'
    BY <1>1, <2>1, <2>2 DEF KeyInv, Ordered
  <2>4. ASSUME Len(s) < m PROVE \A i \in 1 .. Len(p) - Len(s) : p[i] + d <= now + 1
    <3> SUFFICES ASSUME NEW i \in 1 .. Len(p) - Len(s) PROVE p[i] + d <= now + 1
      OBVIOUS
    <3>1. p[i] + d <= now
      BY <2>1, <2>4 DEF KeyInv, LongAgo
    <3>2. i \in 1 .. Len(p)
      BY <2>1
    <3>3. p[i] \in Nat
      BY <3>2, <2>2
    <3>4. \A a, b, c \in Nat : a + b <= c => a + b <= c + 1
      OBVIOUS
    <3> HIDE DEF p, s, m, d
    <3> QED
      BY <3>1, <3>3, <3>4, <2>1, <1>1
  <2> QED
    BY <1>1, <2>1, <2>3, <2>4 DEF KeyInv, EndOf, LongAgo, Kept
<1> QED
  BY <1>1, <1>2 DEF Inv

LEMMA InvHolds == ASSUME RateLimiterAssumption PROVE RateLimiterSpec => []Inv
<1>1. RateLimiterInit => Inv
  <2> SUFFICES ASSUME RateLimiterInit PROVE Inv
    OBVIOUS
  <2>1. RateLimiterTypeOK
    BY DEF RateLimiterInit, RateLimiterTypeOK
  <2>2. ASSUME NEW k \in LimitKeys PROVE KeyInv(k)
    <3>1. store[k] = <<>> /\ passed[k] = <<>> /\ Len(<<>>) = 0 /\ maxRequestNum[k] \in Nat \ {0}
      BY <2>1, KeyTyped DEF RateLimiterInit
    <3> QED
      BY <3>1 DEF KeyInv, Ordered, EndOf, LongAgo, Kept
  <2> QED
    BY <2>1, <2>2 DEF Inv
<1>2. Inv /\ [RateLimiterNext]_limiterVars => Inv'
  <2> SUFFICES ASSUME Inv, [RateLimiterNext]_limiterVars PROVE Inv'
    OBVIOUS
  <2>1. CASE UNCHANGED limiterVars
    BY <2>1 DEF limiterVars, Inv, RateLimiterTypeOK, KeyInv, Ordered, EndOf, LongAgo, Kept
  <2>2. CASE RateLimiterNext
    BY <2>2, RequestKeeps, CleanerKeeps, SecondKeeps DEF RateLimiterNext
  <2> QED
    BY <2>1, <2>2
<1> QED
  BY <1>1, <1>2, PTL DEF RateLimiterSpec

\* The queues and the times are what the code takes them for, whoever asks and when.
THEOREM LimiterTypeCorrect ==
  ASSUME RateLimiterAssumption PROVE RateLimiterSpec => []RateLimiterTypeOK
<1>1. Inv => RateLimiterTypeOK
  BY DEF Inv
<1> QED
  BY <1>1, InvHolds, PTL

\* Of any maxRequestNum + 1 requests of a key that pass one after the other the last comes at
\* least duration seconds after the first, whatever the cleaner forgets (in_memory.go:31-66).
THEOREM LimitAlwaysKept == ASSUME RateLimiterAssumption PROVE RateLimiterSpec => []LimitKept
<1>1. Inv => LimitKept
  <2> SUFFICES ASSUME Inv, NEW k \in LimitKeys, NEW i \in DOMAIN passed[k],
                      i + maxRequestNum[k] \in DOMAIN passed[k]
               PROVE  passed[k][i + maxRequestNum[k]] - passed[k][i] >= duration[k]
    BY DEF LimitKept
  <2>1. /\ passed[k] \in Seq(Nat) /\ maxRequestNum[k] \in Nat
        /\ Kept(maxRequestNum[k], duration[k], passed[k])
    BY KeyTyped DEF Inv, KeyInv
  <2>2. i \in 1 .. Len(passed[k]) /\ i + maxRequestNum[k] <= Len(passed[k])
    BY <2>1
  <2> QED
    BY <2>1, <2>2 DEF Kept
<1> QED
  BY <1>1, InvHolds, PTL

-----------------------------------------------------------------------------
(* What a step does to a channel *)

\* A channel with room takes one snapshot more.
LEMMA EnqueueTyped ==
  ASSUME TypeOK, NEW r \in Readers, NEW n \in 0 .. MaxChanges, ~Full(r), Enqueue(r, n)
  PROVE  /\ buf' \in [Readers -> Seq(0 .. MaxChanges)]
         /\ \A q \in Readers : Len(buf'[q]) <= Cap
<1> DEFINE longer == Append(buf[r], n)
<1>1. /\ buf \in [Readers -> Seq(0 .. MaxChanges)] /\ Cap \in Nat
      /\ \A q \in Readers : Len(buf[q]) <= Cap
  BY StreamAssumption DEF TypeOK
<1>2. buf[r] \in Seq(0 .. MaxChanges) /\ Len(buf[r]) < Cap /\ Len(buf[r]) \in Nat
  BY <1>1 DEF Full
<1>3. longer \in Seq(0 .. MaxChanges) /\ Len(longer) = Len(buf[r]) + 1
  BY <1>2
<1>4. buf' = [buf EXCEPT ![r] = longer]
  BY DEF Enqueue
<1> HIDE DEF longer
<1>5. \A q \in Readers : buf'[q] = IF q = r THEN longer ELSE buf[q]
  BY <1>1, <1>4
<1>6. Len(longer) <= Cap
  BY <1>1, <1>2, <1>3
<1>7. buf' \in [Readers -> Seq(0 .. MaxChanges)]
  BY <1>1, <1>3, <1>4
<1> QED
  BY <1>1, <1>5, <1>6, <1>7

\* One that is not empty gives its oldest.
LEMMA TailTyped ==
  ASSUME TypeOK, NEW r \in Readers, buf[r] # <<>>
  PROVE  /\ Tail(buf[r]) \in Seq(0 .. MaxChanges) /\ Len(Tail(buf[r])) = Len(buf[r]) - 1
         /\ Head(buf[r]) \in 0 .. MaxChanges /\ Len(Tail(buf[r])) <= Cap
<1>1. buf[r] \in Seq(0 .. MaxChanges) /\ Len(buf[r]) <= Cap /\ Cap \in Nat
  BY StreamAssumption DEF TypeOK
<1>2. /\ Tail(buf[r]) \in Seq(0 .. MaxChanges) /\ Len(Tail(buf[r])) = Len(buf[r]) - 1
      /\ Head(buf[r]) \in 0 .. MaxChanges /\ Len(buf[r]) \in Nat
  BY <1>1, HeadTailProperties, LenProperties
<1> QED
  BY <1>1, <1>2

-----------------------------------------------------------------------------
(* Type correctness, one lemma for the writers and one for the readers *)

LEMMA WriterTyped ==
  ASSUME TypeOK, NEW w \in Writers, Change(w) \/ Broadcast(w)
  PROVE  TypeOK'
<1> USE StreamAssumption DEF readerVars, writerVars
<1>1. 0 \in 0 .. MaxChanges
  OBVIOUS
<1>2. CASE Change(w)
  BY <1>2 DEF Change, TypeOK, WriterGoto, WriterBlocks, Busy, raceVars
<1>3. CASE Snapshot(w)
  BY <1>3 DEF Snapshot, TypeOK, raceVars, WriterGoto, WriterBlocks
<1>4. CASE Copy(w)
  BY <1>1, <1>4 DEF Copy, TypeOK, raceVars, WriterGoto, WriterBlocks
<1>5. CASE Panic(w)
  BY <1>5 DEF Panic, TypeOK, raceVars, WriterGoto, WriterBlocks
<1>6. ASSUME NEW rest, Served(w, rest)
      PROVE  /\ wpc' \in [Writers -> WriterBlocks] /\ wsnap' \in [Writers -> 0 .. MaxChanges]
             /\ current' \in [Writers -> SUBSET Readers]
  BY <1>1, <1>6 DEF Served, TypeOK, WriterGoto, WriterBlocks
<1>7. CASE Send(w)
  <2>1. PICK r \in targets[w] :
          /\ targets' = [targets EXCEPT ![w] = @ \ {r}]
          /\ \/ ~Full(r) /\ Enqueue(r, wsnap[w]) /\ Served(w, targets[w] \ {r})
             \/ /\ current' = [current EXCEPT ![w] = {r}]
                /\ WriterGoto(w, "drain") /\ UNCHANGED <<buf, wsnap>>
    BY <1>7 DEF Send
  <2>2. r \in Readers /\ wsnap[w] \in 0 .. MaxChanges /\ targets' \in [Writers -> SUBSET Readers]
    BY <2>1 DEF TypeOK
  <2>3. CASE ~Full(r) /\ Enqueue(r, wsnap[w]) /\ Served(w, targets[w] \ {r})
    <3>1. /\ buf' \in [Readers -> Seq(0 .. MaxChanges)]
          /\ \A q \in Readers : Len(buf'[q]) <= Cap
      BY <2>2, <2>3, EnqueueTyped
    <3> QED
      BY <1>6, <1>7, <2>2, <2>3, <3>1 DEF Send, TypeOK, raceVars
  <2>4. CASE /\ current' = [current EXCEPT ![w] = {r}]
             /\ WriterGoto(w, "drain") /\ UNCHANGED <<buf, wsnap>>
    BY <1>7, <2>2, <2>4 DEF Send, TypeOK, raceVars, WriterGoto, WriterBlocks
  <2> QED
    BY <2>1, <2>3, <2>4
<1>8. CASE Drain(w)
  <2>1. /\ buf' \in [Readers -> Seq(0 .. MaxChanges)]
        /\ \A q \in Readers : Len(buf'[q]) <= Cap
    BY <1>8, TailTyped DEF Drain, TypeOK
  <2> QED
    BY <1>8, <2>1 DEF Drain, Races, TypeOK, WriterGoto, WriterBlocks
<1>9. CASE Retry(w)
  <2>1. PICK r \in current[w] : IF Full(r) THEN UNCHANGED buf ELSE Enqueue(r, wsnap[w])
    BY <1>9 DEF Retry
  <2>2. r \in Readers /\ wsnap[w] \in 0 .. MaxChanges
    BY <2>1 DEF TypeOK
  <2>3. /\ buf' \in [Readers -> Seq(0 .. MaxChanges)]
        /\ \A q \in Readers : Len(buf'[q]) <= Cap
    BY <2>1, <2>2, EnqueueTyped DEF TypeOK
  <2> QED
    BY <1>6, <1>9, <2>3 DEF Retry, Races, TypeOK
<1> QED
  BY <1>2, <1>3, <1>4, <1>5, <1>7, <1>8, <1>9 DEF Broadcast

LEMMA ReaderTyped ==
  ASSUME TypeOK, NEW r \in Readers, Subscribe(r) \/ Read(r) \/ Leave(r) \/ Close(r)
  PROVE  TypeOK'
<1> USE StreamAssumption DEF readerVars, writerVars
<1>1. 0 \in 0 .. MaxChanges
  OBVIOUS
<1>2. CASE Join(r)
  BY <1>2 DEF Join, TypeOK, raceVars, ReaderGoto, ReaderBlocks
<1>3. CASE TakeFirst(r)
  BY <1>3 DEF TakeFirst, TypeOK, raceVars, ReaderGoto, ReaderBlocks
<1>4. CASE SendFirst(r)
  <2>1. /\ buf' \in [Readers -> Seq(0 .. MaxChanges)]
        /\ \A q \in Readers : Len(buf'[q]) <= Cap
    BY <1>4, EnqueueTyped DEF SendFirst, TypeOK
  <2> QED
    BY <1>1, <1>4, <2>1 DEF SendFirst, TypeOK, ReaderGoto, ReaderBlocks
<1>5. CASE Read(r)
  <2>1. buf[r] # <<>>
    BY <1>5 DEF Read
  <2>2. /\ buf' \in [Readers -> Seq(0 .. MaxChanges)]
        /\ \A q \in Readers : Len(buf'[q]) <= Cap
    BY <1>5, <2>1, TailTyped DEF Read, TypeOK, raceVars
  <2>3. newest' \in [Readers -> 0 .. MaxChanges]
    BY <1>5, <2>1, TailTyped DEF Read, TypeOK, raceVars
  <2> QED
    BY <1>5, <2>2, <2>3 DEF Read, TypeOK, raceVars
<1>6. CASE Leave(r)
  BY <1>6 DEF Leave, TypeOK, raceVars, ReaderGoto, ReaderBlocks
<1>7. CASE Close(r)
  <2>1. /\ buf' \in [Readers -> Seq(0 .. MaxChanges)]
        /\ \A q \in Readers : Len(buf'[q]) <= Cap
    BY <1>7 DEF Close, TypeOK, raceVars
  <2> QED
    BY <1>1, <1>7, <2>1 DEF Close, TypeOK, raceVars, ReaderGoto, ReaderBlocks
<1> QED
  BY <1>2, <1>3, <1>4, <1>5, <1>6, <1>7 DEF Subscribe

\* Everything is what the code takes it for, and no channel ever holds more than its
\* capacity: a stalled browser costs the server a bounded amount of memory
\* (update.go:943-999).
THEOREM StreamTypeCorrect == Spec => []TypeOK
<1>1. Init => TypeOK
  BY StreamAssumption DEF Init, TypeOK, ReaderBlocks, WriterBlocks
<1>2. TypeOK /\ [Next]_vars => TypeOK'
  <2>1. ASSUME TypeOK, UNCHANGED vars PROVE TypeOK'
    BY <2>1 DEF TypeOK, vars, raceVars, readerVars, writerVars
  <2> QED
    BY <2>1, WriterTyped, ReaderTyped DEF Next
<1> QED
  BY <1>1, <1>2, PTL DEF Spec
-----------------------------------------------------------------------------
(* The inductive invariant of the broadcasts *)

Connected == {"joined", "first", "reading"}
In(n, s) == \E i \in 1 .. Len(s) : s[i] = n

\* What a writer has to serve in each of its blocks.
Serving ==
  \A w \in Writers :
    /\ wpc[w] \in {"idle", "snapshot", "copy"} => targets[w] = {}
    /\ wpc[w] \in {"idle", "snapshot", "copy", "serve"} => current[w] = {}
    /\ \A q \in current[w] : q \notin targets[w] /\ \A p \in current[w] : p = q

\* A channel is listed as long as its handler is connected, and untouched before.
Registered ==
  \A r \in Readers :
    /\ r \in listeners <=> rpc[r] \in Connected
    /\ closed[r] => rpc[r] = "gone"
    /\ rpc[r] = "away" =>
         buf[r] = <<>> /\ \A w \in Writers : r \notin targets[w] /\ r \notin current[w]

\* No snapshot is of a state to come.
Past ==
  /\ \A r \in Readers : newest[r] <= changes /\ rsnap[r] <= changes
  /\ \A r \in Readers : \A i \in 1 .. Len(buf[r]) : buf[r][i] <= changes
  /\ \A w \in Writers : wsnap[w] <= changes

\* A broadcast that met nobody is the only one, is of the present state, and finds the
\* room it made.
Undisturbed(w) ==
  /\ Busy = {w}
  /\ wpc[w] \in {"snapshot", "panicked"} \/ wsnap[w] = changes
  /\ wpc[w] = "retry" => \A r \in current[w] : ~Full(r)
Apart == \A w \in Busy \ overlapped : Undisturbed(w)

\* The writer w will still send r the present state, or take a newer one.
Owes(w, r) ==
  \/ wpc[w] \in {"snapshot", "panicked"}
  \/ wpc[w] # "idle" /\ wsnap[w] = changes
     /\ (wpc[w] = "copy" \/ r \in targets[w] \/ r \in current[w])
Coming(r) == In(changes, buf[r]) \/ \E w \in Writers : Owes(w, r)

\* What holds of one reader, unless an overlapped broadcast lost its newest snapshot.
Shown(r) ==
  r \notin raced =>
    /\ rpc[r] = "reading" => newest[r] = changes \/ Coming(r)
    /\ rpc[r] = "first" => rsnap[r] = changes \/ Coming(r)

StreamInv == TypeOK /\ Serving /\ Registered /\ Past /\ Apart /\ \A r \in Readers : Shown(r)

-----------------------------------------------------------------------------
(* Lemmas about sequences *)

LEMMA InAppend ==
  ASSUME NEW S, NEW s \in Seq(S), NEW m \in S, NEW n
  PROVE  /\ In(n, s) => In(n, Append(s, m))
         /\ In(m, Append(s, m))
         /\ \A i \in 1 .. Len(Append(s, m)) :
               Append(s, m)[i] = m \/ (i \in 1 .. Len(s) /\ Append(s, m)[i] = s[i])
<1> DEFINE longer == Append(s, m)
<1>1. Len(s) \in Nat /\ Len(longer) = Len(s) + 1
  OBVIOUS
<1>2. \A i \in 1 .. Len(s) + 1 : longer[i] = IF i <= Len(s) THEN s[i] ELSE m
  OBVIOUS
<1> HIDE DEF longer
<1>3. ASSUME NEW i \in 1 .. Len(s) PROVE i \in 1 .. Len(longer) /\ longer[i] = s[i]
  BY <1>1, <1>2
<1>4. Len(longer) \in 1 .. Len(longer) /\ longer[Len(longer)] = m
  BY <1>1, <1>2
<1>5. ASSUME NEW i \in 1 .. Len(longer)
      PROVE  longer[i] = m \/ (i \in 1 .. Len(s) /\ longer[i] = s[i])
  BY <1>1, <1>2
<1>6. (In(n, s) => In(n, longer)) /\ In(m, longer)
  BY <1>3, <1>4 DEF In
<1> QED
  BY <1>5, <1>6 DEF longer

LEMMA InTail ==
  ASSUME NEW S, NEW s \in Seq(S), s # <<>>, NEW n
  PROVE  /\ In(n, s) => n = Head(s) \/ In(n, Tail(s))
         /\ 1 \in 1 .. Len(s) /\ Head(s) = s[1]
         /\ \A i \in 1 .. Len(Tail(s)) : i + 1 \in 1 .. Len(s) /\ Tail(s)[i] = s[i + 1]
<1> DEFINE rest == Tail(s)
<1>1. Len(s) \in Nat \ {0} /\ Head(s) = s[1]
  BY LenProperties
<1>2. Len(rest) = Len(s) - 1 /\ \A i \in 1 .. Len(rest) : rest[i] = s[i + 1]
  BY HeadTailProperties
<1> HIDE DEF rest
<1>3. 1 \in 1 .. Len(s) /\ \A i \in 1 .. Len(rest) : i + 1 \in 1 .. Len(s)
  BY <1>1, <1>2
<1>4. ASSUME NEW i \in 1 .. Len(s), s[i] = n, i # 1 PROVE In(n, rest)
  <2>1. i - 1 \in 1 .. Len(rest) /\ (i - 1) + 1 = i
    BY <1>1, <1>2, <1>4
  <2>2. rest[i - 1] = n
    BY <1>2, <1>4, <2>1
  <2> QED
    BY <2>1, <2>2 DEF In
<1>5. In(n, s) => n = Head(s) \/ In(n, rest)
  BY <1>1, <1>4 DEF In
<1> QED
  BY <1>1, <1>2, <1>3, <1>5 DEF rest

-----------------------------------------------------------------------------
(* The conjuncts about all channels *)

LEMMA ServingKept ==
  ASSUME TypeOK, Serving, [Next]_vars
  PROVE  Serving'
<1> USE DEF readerVars, writerVars, TypeOK, Serving
<1>1. ASSUME NEW w \in Writers, Change(w) \/ Broadcast(w) PROVE Serving'
  <2>1. CASE Change(w)
    BY <2>1 DEF Change, WriterGoto
  <2>2. CASE Snapshot(w)
    BY <2>2 DEF Snapshot, WriterGoto
  <2>3. CASE Copy(w)
    BY <2>3 DEF Copy, WriterGoto
  <2>4. CASE Panic(w)
    BY <2>4 DEF Panic, WriterGoto
  <2>5. CASE Send(w)
    <3>1. PICK q \in targets[w] :
            /\ targets' = [targets EXCEPT ![w] = @ \ {q}]
            /\ \/ Served(w, targets[w] \ {q})
               \/ current' = [current EXCEPT ![w] = {q}] /\ WriterGoto(w, "drain")
      BY <2>5 DEF Send
    <3>2. CASE Served(w, targets[w] \ {q})
      BY <3>1, <3>2 DEF Served, WriterGoto
    <3>3. CASE current' = [current EXCEPT ![w] = {q}] /\ WriterGoto(w, "drain")
      BY <3>1, <3>3 DEF WriterGoto
    <3> QED
      BY <3>1, <3>2, <3>3
  <2>6. CASE Drain(w)
    BY <2>6 DEF Drain, WriterGoto
  <2>7. CASE Retry(w)
    BY <2>7 DEF Retry, Served, WriterGoto
  <2> QED
    BY <1>1, <2>1, <2>2, <2>3, <2>4, <2>5, <2>6, <2>7 DEF Broadcast
<1>2. ASSUME UNCHANGED writerVars PROVE Serving'
  BY <1>2
<1>3. ASSUME NEW r \in Readers, Subscribe(r) \/ Read(r) \/ Leave(r) \/ Close(r)
      PROVE  UNCHANGED writerVars
  BY <1>3 DEF Subscribe, Join, TakeFirst, SendFirst, Read, Leave, Close
<1>4. UNCHANGED vars => UNCHANGED writerVars
  BY DEF vars
<1> QED
  BY <1>1, <1>2, <1>3, <1>4 DEF Next

LEMMA RegisteredKept ==
  ASSUME TypeOK, Serving, Registered, [Next]_vars
  PROVE  Registered'
<1> USE DEF readerVars, writerVars, TypeOK, Registered, Connected
<1>1. ASSUME NEW w \in Writers, Change(w) \/ Broadcast(w) PROVE Registered'
  <2>1. CASE Change(w)
    BY <2>1 DEF Change
  <2>2. CASE Snapshot(w)
    BY <2>2 DEF Snapshot
  <2>3. CASE Copy(w)
    BY <2>3 DEF Copy
  <2>4. CASE Panic(w)
    BY <2>4 DEF Panic
  <2>5. CASE Send(w)
    <3>1. PICK q \in targets[w] :
            /\ targets' = [targets EXCEPT ![w] = @ \ {q}]
            /\ \/ Enqueue(q, wsnap[w]) /\ Served(w, targets[w] \ {q})
               \/ current' = [current EXCEPT ![w] = {q}] /\ UNCHANGED buf
      BY <2>5 DEF Send
    <3>2. UNCHANGED <<listeners, closed, rpc>>
      BY <2>5 DEF Send
    <3>3. rpc[q] # "away"
      BY <3>1
    <3> QED
      BY <3>1, <3>2, <3>3 DEF Served, Enqueue
  <2>6. CASE Drain(w)
    BY <2>6 DEF Drain
  <2>7. CASE Retry(w)
    BY <2>7 DEF Retry, Served, Enqueue
  <2> QED
    BY <1>1, <2>1, <2>2, <2>3, <2>4, <2>5, <2>6, <2>7 DEF Broadcast
<1>2. ASSUME NEW r \in Readers, Subscribe(r) \/ Read(r) \/ Leave(r) \/ Close(r)
      PROVE  Registered'
  <2>1. CASE Join(r)
    BY <2>1 DEF Join, ReaderGoto
  <2>2. CASE TakeFirst(r)
    BY <2>2 DEF TakeFirst, ReaderGoto
  <2>3. CASE SendFirst(r)
    BY <2>3 DEF SendFirst, ReaderGoto, Enqueue
  <2>4. CASE Read(r)
    BY <2>4 DEF Read
  <2>5. CASE Leave(r)
    BY <2>5 DEF Leave, ReaderGoto
  <2>6. CASE Close(r)
    BY <2>6 DEF Close, ReaderGoto
  <2> QED
    BY <1>2, <2>1, <2>2, <2>3, <2>4, <2>5, <2>6 DEF Subscribe
<1>3. UNCHANGED vars => Registered'
  BY DEF vars
<1> QED
  BY <1>1, <1>2, <1>3 DEF Next

LEMMA PastKept ==
  ASSUME TypeOK, Registered, Past, [Next]_vars
  PROVE  Past'
<1> USE DEF readerVars, writerVars, Past
<1>1. changes \in Nat /\ changes' \in Nat
  BY WriterTyped, ReaderTyped DEF Next, vars, TypeOK
<1>2. /\ buf \in [Readers -> Seq(0 .. MaxChanges)] /\ newest \in [Readers -> 0 .. MaxChanges]
      /\ rsnap \in [Readers -> 0 .. MaxChanges] /\ wsnap \in [Writers -> 0 .. MaxChanges]
      /\ targets \in [Writers -> SUBSET Readers] /\ current \in [Writers -> SUBSET Readers]
  BY DEF TypeOK
<1>3. ASSUME NEW r \in Readers, NEW n \in 0 .. MaxChanges, n <= changes, Enqueue(r, n),
             UNCHANGED changes
      PROVE  \A q \in Readers : \A i \in 1 .. Len(buf'[q]) : buf'[q][i] <= changes'
  <2>1. buf' = [buf EXCEPT ![r] = Append(buf[r], n)]
    BY <1>3 DEF Enqueue
  <2>2. \A i \in 1 .. Len(Append(buf[r], n)) :
          Append(buf[r], n)[i] = n \/ (i \in 1 .. Len(buf[r]) /\ Append(buf[r], n)[i] = buf[r][i])
    BY <1>2, <1>3, InAppend
  <2>3. \A i \in 1 .. Len(Append(buf[r], n)) : Append(buf[r], n)[i] <= changes
    BY <1>3, <2>2
  <2> QED
    BY <1>2, <1>3, <2>1, <2>3
<1>4. ASSUME NEW r \in Readers, buf[r] # <<>>
      PROVE  \A i \in 1 .. Len(Tail(buf[r])) : Tail(buf[r])[i] <= changes
  BY <1>2, <1>4, InTail
<1>5. ASSUME NEW w \in Writers, NEW rest, Served(w, rest), UNCHANGED changes
      PROVE  \A v \in Writers : wsnap'[v] <= changes'
  BY <1>1, <1>2, <1>5 DEF Served
<1>6. ASSUME NEW w \in Writers, Change(w) \/ Broadcast(w) PROVE Past'
  <2>1. CASE Change(w)
    <3>1. changes' = changes + 1 /\ UNCHANGED <<buf, newest, rsnap, wsnap>>
      BY <2>1 DEF Change
    <3>2. \A n \in 0 .. MaxChanges : n <= changes => n <= changes'
      BY <1>1, <3>1
    <3>3. \A q \in Readers : \A i \in 1 .. Len(buf[q]) : buf[q][i] \in 0 .. MaxChanges
      BY <1>2, ElementOfSeq
    <3> QED
      BY <1>2, <3>1, <3>2, <3>3
  <2>2. CASE Snapshot(w)
    BY <1>1, <1>2, <2>2 DEF Snapshot
  <2>3. CASE Copy(w)
    BY <1>1, <1>2, <2>3 DEF Copy
  <2>4. CASE Panic(w)
    BY <2>4 DEF Panic
  <2>5. CASE Send(w)
    <3>1. PICK q \in targets[w] :
            \/ Enqueue(q, wsnap[w]) /\ Served(w, targets[w] \ {q})
            \/ UNCHANGED <<buf, wsnap>>
      BY <2>5 DEF Send
    <3>2. UNCHANGED <<changes, newest, rsnap>> /\ q \in Readers /\ wsnap[w] \in 0 .. MaxChanges
      BY <1>2, <2>5 DEF Send
    <3>3. CASE Enqueue(q, wsnap[w]) /\ Served(w, targets[w] \ {q})
      <4>1. \A p \in Readers : \A i \in 1 .. Len(buf'[p]) : buf'[p][i] <= changes'
        BY <1>3, <3>2, <3>3
      <4>2. \A v \in Writers : wsnap'[v] <= changes'
        BY <1>5, <3>2, <3>3
      <4> QED
        BY <3>2, <4>1, <4>2
    <3>4. CASE UNCHANGED <<buf, wsnap>>
      BY <3>2, <3>4
    <3> QED
      BY <3>1, <3>3, <3>4
  <2>6. CASE Drain(w)
    <3>1. \A q \in Readers : buf'[q] = buf[q] \/ (buf[q] # <<>> /\ buf'[q] = Tail(buf[q]))
      BY <1>2, <2>6 DEF Drain
    <3>2. \A q \in Readers : \A i \in 1 .. Len(buf'[q]) : buf'[q][i] <= changes
      BY <1>4, <3>1
    <3> QED
      BY <2>6, <3>2 DEF Drain
  <2>7. CASE Retry(w)
    <3>1. PICK q \in current[w] : IF Full(q) THEN UNCHANGED buf ELSE Enqueue(q, wsnap[w])
      BY <2>7 DEF Retry
    <3>2. UNCHANGED <<changes, newest, rsnap>> /\ q \in Readers /\ wsnap[w] \in 0 .. MaxChanges
      BY <1>2, <2>7 DEF Retry
    <3>3. \A p \in Readers : \A i \in 1 .. Len(buf'[p]) : buf'[p][i] <= changes'
      BY <1>3, <3>1, <3>2
    <3>4. \A v \in Writers : wsnap'[v] <= changes'
      BY <1>5, <2>7, <3>2 DEF Retry
    <3> QED
      BY <3>2, <3>3, <3>4
  <2> QED
    BY <1>6, <2>1, <2>2, <2>3, <2>4, <2>5, <2>6, <2>7 DEF Broadcast
<1>7. ASSUME NEW r \in Readers, Subscribe(r) \/ Read(r) \/ Leave(r) \/ Close(r)
      PROVE  Past'
  <2>1. CASE Join(r)
    BY <2>1 DEF Join
  <2>2. CASE TakeFirst(r)
    BY <1>1, <1>2, <2>2 DEF TakeFirst
  <2>3. CASE SendFirst(r)
    <3>1. \A p \in Readers : \A i \in 1 .. Len(buf'[p]) : buf'[p][i] <= changes'
      BY <1>2, <1>3, <2>3 DEF SendFirst
    <3>2. \A p \in Readers : rsnap'[p] <= changes
      BY <1>1, <1>2, <2>3 DEF SendFirst
    <3> QED
      BY <2>3, <3>1, <3>2 DEF SendFirst
  <2>4. CASE Read(r)
    <3>1. buf[r] # <<>> /\ buf' = [buf EXCEPT ![r] = Tail(@)] /\ UNCHANGED <<changes, rsnap, wsnap>>
          /\ newest' = [newest EXCEPT ![r] = IF Head(buf[r]) > @ THEN Head(buf[r]) ELSE @]
      BY <2>4 DEF Read
    <3>2. \A p \in Readers : \A i \in 1 .. Len(buf'[p]) : buf'[p][i] <= changes
      BY <1>2, <1>4, <3>1
    <3>3. Head(buf[r]) <= changes
      BY <1>2, <3>1, InTail
    <3>4. \A p \in Readers : newest'[p] <= changes
      BY <1>2, <3>1, <3>3
    <3> QED
      BY <3>1, <3>2, <3>4
  <2>5. CASE Leave(r)
    BY <2>5 DEF Leave
  <2>6. CASE Close(r)
    <3>1. \A p \in Readers : \A i \in 1 .. Len(buf'[p]) : buf'[p][i] <= changes
      BY <1>2, <2>6 DEF Close
    <3>2. \A p \in Readers : newest'[p] <= changes
      BY <1>1, <1>2, <2>6 DEF Close
    <3> QED
      BY <2>6, <3>1, <3>2 DEF Close
  <2> QED
    BY <1>7, <2>1, <2>2, <2>3, <2>4, <2>5, <2>6 DEF Subscribe
<1>8. UNCHANGED vars => Past'
  BY DEF vars
<1> QED
  BY <1>6, <1>7, <1>8 DEF Next

-----------------------------------------------------------------------------
(* A broadcast apart from the others *)

LEMMA ApartKept ==
  ASSUME TypeOK, Serving, Apart, Next, TypeOK', Serving'
  PROVE  Apart'
<1> USE DEF readerVars, writerVars, raceVars
<1>1. SUFFICES ASSUME NEW v \in Busy', v \notin overlapped' PROVE Undisturbed(v)'
  BY DEF Apart
<1>2. v \in Writers
  BY DEF Busy
<1>3. ASSUME NEW w \in Writers, Change(w) PROVE Undisturbed(v)'
  <2>1. CASE Busy = {}
    <3>1. Busy' = {w} /\ wpc'[w] = "snapshot"
      BY <1>3, <2>1 DEF Change, Busy, WriterGoto, TypeOK
    <3> QED
      BY <3>1 DEF Undisturbed
  <2>2. CASE Busy # {}
    <3>1. overlapped' = overlapped \cup Busy \cup {w} /\ Busy' \subseteq Busy \cup {w}
      BY <1>3, <2>2 DEF Change, Busy, WriterGoto, TypeOK
    <3> QED
      BY <1>1, <3>1
  <2> QED
    BY <2>1, <2>2
<1>4. ASSUME Busy' \subseteq Busy, overlapped \subseteq overlapped'
      PROVE  v \in Busy /\ Undisturbed(v) /\ Busy' = {v}
  BY <1>1, <1>4 DEF Apart, Undisturbed
<1>5. ASSUME NEW w \in Writers, Broadcast(w) PROVE Undisturbed(v)'
  <2>1. Busy' \subseteq Busy /\ overlapped' = overlapped /\ changes' = changes
    BY <1>5 DEF Broadcast, Snapshot, Copy, Panic, Send, Drain, Retry, Races, Served, Busy,
      WriterGoto, TypeOK
  <2>2. v \in Busy /\ Undisturbed(v) /\ Busy' = {v} /\ Busy = {v}
    BY <1>4, <2>1 DEF Undisturbed
  <2>3. w = v
    BY <1>5, <2>2 DEF Broadcast, Snapshot, Copy, Panic, Send, Drain, Retry, Busy
  <2>4. CASE Snapshot(v)
    BY <1>2, <2>1, <2>2, <2>4 DEF Snapshot, WriterGoto, Undisturbed, TypeOK
  <2>5. CASE Copy(v)
    BY <1>1, <1>2, <2>1, <2>2, <2>5 DEF Copy, WriterGoto, Undisturbed, TypeOK, Busy
  <2>6. CASE Panic(v)
    BY <1>2, <2>1, <2>2, <2>6 DEF Panic, WriterGoto, Undisturbed, TypeOK
  <2>7. CASE Send(v)
    BY <1>1, <1>2, <2>1, <2>2, <2>7 DEF Send, Served, WriterGoto, Undisturbed, TypeOK, Busy
  <2>8. CASE Drain(v)
    <3>1. ASSUME NEW r \in current'[v] PROVE ~Full(r)'
      <4>1. r \in current[v] /\ r \in Readers
        BY <1>2, <2>8, <3>1 DEF Drain, TypeOK
      <4>2. buf'[r] = IF buf[r] # <<>> THEN Tail(buf[r]) ELSE buf[r]
        BY <2>8, <4>1 DEF Drain
      <4>3. buf[r] \in Seq(0 .. MaxChanges) /\ Len(buf[r]) <= Cap /\ Cap \in Nat \ {0}
        BY <4>1, StreamAssumption DEF TypeOK
      <4>4. Len(buf'[r]) < Cap
        BY <4>1, <4>2, <4>3, TailTyped
      <4> QED
        BY <4>3, <4>4 DEF Full
    <3> QED
      BY <1>2, <2>1, <2>2, <2>8, <3>1 DEF Drain, WriterGoto, Undisturbed, TypeOK
  <2>9. CASE Retry(v)
    BY <1>1, <1>2, <2>1, <2>2, <2>9 DEF Retry, Served, WriterGoto, Undisturbed, TypeOK, Busy
  <2> QED
    BY <1>5, <2>3, <2>4, <2>5, <2>6, <2>7, <2>8, <2>9 DEF Broadcast
<1>6. ASSUME NEW r \in Readers, Subscribe(r) \/ Read(r) \/ Leave(r) \/ Close(r)
      PROVE  Undisturbed(v)'
  <2>1. UNCHANGED <<changes, writerVars>> /\ overlapped \subseteq overlapped' /\ Busy' = Busy
    BY <1>6 DEF Subscribe, Join, TakeFirst, SendFirst, Read, Leave, Close, Busy
  <2>2. Undisturbed(v)
    BY <1>4, <2>1
  <2>3. ASSUME wpc[v] = "retry", NEW q \in current[v] PROVE ~Full(q)'
    <3>1. ~Full(q) /\ q \in Readers
      BY <1>2, <2>2, <2>3 DEF Undisturbed, TypeOK
    <3>2. CASE buf'[q] = buf[q]
      BY <3>1, <3>2 DEF Full
    <3>3. CASE Read(r) /\ q = r
      <4>1. buf[q] # <<>> /\ buf'[q] = Tail(buf[q])
        BY <3>1, <3>3 DEF Read, TypeOK
      <4>2. Len(buf'[q]) = Len(buf[q]) - 1 /\ Len(buf[q]) < Cap /\ Len(buf[q]) \in Nat
        BY <3>1, <4>1, TailTyped, LenProperties, StreamAssumption DEF Full, TypeOK
      <4> QED
        BY <4>2, StreamAssumption DEF Full
    <3>4. CASE SendFirst(r) /\ q = r
      BY <1>1, <1>2, <2>3, <3>4 DEF SendFirst
    <3>5. CASE Close(r) /\ q = r
      <4>1. buf'[q] = <<>>
        BY <3>1, <3>5 DEF Close, TypeOK
      <4> QED
        BY <4>1, StreamAssumption DEF Full
    <3> QED
      BY <1>6, <3>1, <3>2, <3>3, <3>4, <3>5 DEF Subscribe, Join, TakeFirst, SendFirst, Read, Leave,
        Close, Enqueue, TypeOK
  <2> QED
    BY <2>1, <2>2, <2>3 DEF Undisturbed
<1> QED
  BY <1>3, <1>5, <1>6 DEF Next

-----------------------------------------------------------------------------
(* What one reader is shown *)

\* A step that takes nothing from a channel and keeps what is owed to it.
LEMMA ShownFrame ==
  ASSUME NEW r \in Readers, Shown(r),
         UNCHANGED <<changes, newest[r], rpc[r], rsnap[r]>>, raced \subseteq raced',
         rpc[r] \in Connected /\ In(changes, buf[r]) => Coming(r)',
         \A v \in Writers : rpc[r] \in Connected /\ Owes(v, r) => Coming(r)'
  PROVE  Shown(r)'
BY DEF Shown, Coming, Connected

LEMMA WriterShown ==
  ASSUME StreamInv, TypeOK', Serving', NEW w \in Writers, Change(w) \/ Broadcast(w),
         NEW r \in Readers
  PROVE  Shown(r)'
<1> USE DEF readerVars, writerVars, raceVars
<1>1. /\ TypeOK /\ Serving /\ Registered /\ Apart /\ Shown(r)
      /\ buf[r] \in Seq(0 .. MaxChanges) /\ targets[w] \subseteq Readers
      /\ wsnap[w] \in 0 .. MaxChanges
  BY DEF StreamInv, TypeOK
<1>2. CASE Change(w)
  <2>1. Owes(w, r)'
    BY <1>1, <1>2 DEF Change, WriterGoto, Owes, TypeOK
  <2> QED
    BY <2>1 DEF Shown, Coming
<1>3. ASSUME Broadcast(w), NEW v \in Writers, Owes(v, r), v # w PROVE Coming(r)'
  <2>1. /\ wpc'[v] = wpc[v] /\ wsnap'[v] = wsnap[v] /\ changes' = changes
        /\ targets'[v] = targets[v] /\ current'[v] = current[v]
    BY <1>1, <1>3 DEF Broadcast, Snapshot, Copy, Panic, Send, Drain, Retry, Served, WriterGoto,
      TypeOK
  <2>2. Owes(v, r)'
    BY <1>3, <2>1 DEF Owes
  <2> QED
    BY <2>2 DEF Coming
<1>4. ASSUME Broadcast(w), UNCHANGED buf, raced \subseteq raced',
             rpc[r] \in Connected /\ Owes(w, r) => Coming(r)'
      PROVE  Shown(r)'
  <2>1. UNCHANGED <<changes, newest, rpc, rsnap>>
    BY <1>4 DEF Broadcast, Snapshot, Copy, Panic, Send, Drain, Retry
  <2>2. In(changes, buf[r]) => Coming(r)'
    BY <1>4, <2>1 DEF Coming, In
  <2> QED
    BY <1>1, <1>3, <1>4, <2>1, <2>2, ShownFrame
<1>5. CASE Snapshot(w)
  <2>1. Owes(w, r)'
    BY <1>1, <1>5 DEF Snapshot, WriterGoto, Owes, TypeOK
  <2> QED
    BY <1>4, <1>5, <2>1 DEF Snapshot, Broadcast, Coming
<1>6. CASE Copy(w)
  <2>1. ASSUME rpc[r] \in Connected, Owes(w, r) PROVE Owes(w, r)'
    <3>1. r \in listeners
      BY <1>1, <2>1 DEF Registered
    <3>2. /\ wpc'[w] = "serve" /\ targets'[w] = listeners /\ wsnap'[w] = wsnap[w]
          /\ changes' = changes /\ wpc[w] = "copy"
      BY <1>1, <1>6, <3>1 DEF Copy, WriterGoto, TypeOK
    <3> QED
      BY <2>1, <3>1, <3>2 DEF Owes
  <2> QED
    BY <1>4, <1>6, <2>1 DEF Copy, Broadcast, Coming
<1>7. CASE Panic(w)
  <2>1. Owes(w, r)'
    BY <1>1, <1>7 DEF Panic, WriterGoto, Owes, TypeOK
  <2> QED
    BY <1>4, <1>7, <2>1 DEF Panic, Broadcast, Coming
<1>8. CASE Send(w)
  <2>1. PICK q \in targets[w] :
          /\ targets' = [targets EXCEPT ![w] = @ \ {q}]
          /\ \/ /\ ~Full(q) /\ Enqueue(q, wsnap[w])
                /\ Served(w, targets[w] \ {q})
             \/ /\ current' = [current EXCEPT ![w] = {q}]
                /\ WriterGoto(w, "drain") /\ UNCHANGED <<buf, wsnap>>
    BY <1>8 DEF Send
  <2>2. /\ wpc[w] = "serve" /\ UNCHANGED <<changes, listeners, closed, readerVars, raceVars>>
        /\ q \in Readers /\ current[w] = {}
    BY <1>1, <1>8, <2>1 DEF Send, Serving
  <2>3. CASE Enqueue(q, wsnap[w]) /\ Served(w, targets[w] \ {q})
    <3>1. buf'[r] = IF r = q THEN Append(buf[r], wsnap[w]) ELSE buf[r]
      BY <1>1, <2>2, <2>3 DEF Enqueue, TypeOK
    <3>2. In(changes, buf[r]) => Coming(r)'
      BY <1>1, <2>2, <3>1, InAppend DEF Coming, In
    <3>3. ASSUME Owes(w, r) PROVE Coming(r)'
      <4>1. wsnap[w] = changes /\ r \in targets[w]
        BY <2>2, <3>3 DEF Owes
      <4>2. CASE r = q
        <5>1. In(changes, buf'[r])
          <6>1. In(wsnap[w], Append(buf[r], wsnap[w]))
            BY <1>1, InAppend
          <6> QED
            BY <3>1, <4>1, <4>2, <6>1
        <5> QED
          BY <2>2, <5>1 DEF Coming
      <4>3. CASE r # q
        <5>1. /\ wsnap'[w] = changes /\ r \in targets'[w] /\ wpc'[w] = "serve"
              /\ changes' = changes
          BY <1>1, <2>1, <2>2, <2>3, <4>1, <4>3 DEF Served, WriterGoto, TypeOK
        <5> QED
          BY <5>1 DEF Owes, Coming
      <4> QED
        BY <4>2, <4>3
    <3> QED
      BY <1>1, <1>3, <1>8, <2>2, <3>2, <3>3, ShownFrame DEF Broadcast
  <2>4. CASE /\ current' = [current EXCEPT ![w] = {q}]
             /\ WriterGoto(w, "drain") /\ UNCHANGED <<buf, wsnap>>
    <3>1. ASSUME Owes(w, r) PROVE Owes(w, r)'
      <4>1. wsnap[w] = changes /\ r \in targets[w]
        BY <2>2, <3>1 DEF Owes
      <4>2. /\ wsnap'[w] = changes' /\ r \in targets'[w] \cup current'[w]
            /\ wpc'[w] = "drain"
        BY <1>1, <2>1, <2>2, <2>4, <4>1 DEF WriterGoto, TypeOK
      <4> QED
        BY <4>2 DEF Owes
    <3> QED
      BY <1>4, <1>8, <2>2, <2>4, <3>1 DEF Broadcast, Coming
  <2> QED
    BY <2>1, <2>3, <2>4
<1>9. CASE Drain(w)
  <2>1. /\ wpc[w] = "drain" /\ wpc'[w] = "retry"
        /\ UNCHANGED <<changes, readerVars, wsnap, targets, current>>
        /\ buf'[r] = IF r \in current[w] /\ buf[r] # <<>> THEN Tail(buf[r]) ELSE buf[r]
    BY <1>1, <1>9 DEF Drain, WriterGoto, TypeOK
  <2>2. Owes(w, r) => Owes(w, r)'
    BY <2>1 DEF Owes
  <2>3. raced \subseteq raced'
    BY <1>9 DEF Drain, Races
  <2>4. CASE \/ ~In(changes, buf[r])
             \/ r \in raced'
             \/ wsnap[w] = changes /\ r \in current[w]
             \/ r \notin current[w]
             \/ buf[r] = <<>>
             \/ Head(buf[r]) # changes
    <3>1. ASSUME In(changes, buf[r]), r \notin raced' PROVE Coming(r)'
      <4>1. CASE wsnap[w] = changes /\ r \in current[w]
        BY <2>1, <2>2, <4>1 DEF Owes, Coming
      <4>2. CASE r \notin current[w] \/ buf[r] = <<>>
        BY <2>1, <3>1, <4>2 DEF Coming, In
      <4>3. CASE r \in current[w] /\ buf[r] # <<>> /\ Head(buf[r]) # changes
        <5>1. In(changes, Tail(buf[r])) /\ buf'[r] = Tail(buf[r])
          BY <1>1, <2>1, <3>1, <4>3, InTail
        <5> QED
          BY <2>1, <5>1 DEF Coming
      <4> QED
        BY <2>4, <3>1, <4>1, <4>2, <4>3
    <3>2. CASE r \in raced'
      BY <3>2 DEF Shown
    <3>3. CASE r \notin raced'
      <4>1. In(changes, buf[r]) => Coming(r)'
        BY <3>1, <3>3
      <4>2. \A v \in Writers : Owes(v, r) => Coming(r)'
        BY <1>3, <1>9, <2>2 DEF Broadcast, Coming
      <4> QED
        BY <1>1, <2>1, <2>3, <4>1, <4>2, ShownFrame
    <3> QED
      BY <3>2, <3>3
  <2>5. ASSUME r \in current[w], buf[r] # <<>>, Head(buf[r]) = changes, wsnap[w] # changes
        PROVE  r \in raced'
    <3>1. w \in Busy /\ ~Undisturbed(w)
      BY <2>1, <2>5 DEF Busy, Undisturbed
    <3>2. w \in overlapped
      BY <1>1, <3>1 DEF Apart
    <3> QED
      BY <1>9, <2>5, <3>2 DEF Drain, Races
  <2> QED
    BY <2>4, <2>5
<1>10. CASE Retry(w)
  <2>1. PICK q \in current[w] :
          IF Full(q) THEN UNCHANGED buf ELSE Enqueue(q, wsnap[w])
    BY <1>10 DEF Retry
  <2>2. /\ wpc[w] = "retry" /\ UNCHANGED <<changes, readerVars, targets>>
        /\ Served(w, targets[w]) /\ raced \subseteq raced'
        /\ q \in Readers /\ \A p \in current[w] : p = q
    BY <1>1, <1>10, <2>1 DEF Retry, Races, Serving, TypeOK
  <2>3. buf'[r] = IF r = q /\ ~Full(q) THEN Append(buf[r], wsnap[w]) ELSE buf[r]
    BY <1>1, <2>1, <2>2 DEF Enqueue, TypeOK
  <2>4. In(changes, buf[r]) => Coming(r)'
    BY <1>1, <2>2, <2>3, InAppend DEF Coming, In
  <2>5. ASSUME Owes(w, r), r \notin raced' PROVE Coming(r)'
    <3>1. wsnap[w] = changes /\ (r \in targets[w] \/ r \in current[w])
      BY <2>2, <2>5 DEF Owes
    <3>2. CASE r \in targets[w]
      <4>1. /\ wsnap'[w] = changes' /\ r \in targets'[w] /\ wpc'[w] = "serve"
        BY <1>1, <2>2, <3>1, <3>2 DEF Served, WriterGoto, TypeOK
      <4> QED
        BY <4>1 DEF Owes, Coming
    <3>3. CASE r \in current[w]
      <4>1. r = q
        BY <2>2, <3>3
      <4>2. CASE Full(q)
        <5>1. w \in Busy /\ ~Undisturbed(w)
          BY <2>2, <3>3, <4>1, <4>2 DEF Busy, Undisturbed
        <5>2. w \in overlapped
          BY <1>1, <5>1 DEF Apart
        <5>3. r \in raced'
          BY <1>10, <3>1, <3>3, <4>1, <4>2, <5>2 DEF Retry, Races
        <5> QED
          BY <2>5, <5>3
      <4>3. CASE ~Full(q)
        <5>1. In(changes, buf'[r])
          <6>1. In(wsnap[w], Append(buf[r], wsnap[w]))
            BY <1>1, InAppend
          <6> QED
            BY <2>3, <3>1, <4>1, <4>3, <6>1
        <5> QED
          BY <2>2, <5>1 DEF Coming
      <4> QED
        BY <4>2, <4>3
    <3> QED
      BY <3>1, <3>2, <3>3
  <2>6. CASE r \in raced'
    BY <2>6 DEF Shown
  <2>7. CASE r \notin raced'
    <3>1. \A v \in Writers : Owes(v, r) => Coming(r)'
      BY <1>3, <1>10, <2>5, <2>7 DEF Broadcast
    <3> QED
      BY <1>1, <2>2, <2>4, <3>1, ShownFrame
  <2> QED
    BY <2>6, <2>7
<1> QED
  BY <1>2, <1>5, <1>6, <1>7, <1>8, <1>9, <1>10 DEF Broadcast

LEMMA ReaderShown ==
  ASSUME StreamInv, TypeOK', NEW q \in Readers,
         Subscribe(q) \/ Read(q) \/ Leave(q) \/ Close(q), NEW r \in Readers
  PROVE  Shown(r)'
<1> USE DEF readerVars, writerVars, raceVars
<1>1. /\ TypeOK /\ Shown(r) /\ Past /\ UNCHANGED <<changes, writerVars, raced>>
      /\ buf[r] \in Seq(0 .. MaxChanges)
  BY DEF StreamInv, TypeOK, Subscribe, Join, TakeFirst, SendFirst, Read, Leave, Close
<1>2. \A v \in Writers : Owes(v, r) => Owes(v, r)'
  BY <1>1 DEF Owes
<1>3. CASE r # q
  <2>1. UNCHANGED <<buf[r], newest[r], rpc[r], rsnap[r]>>
    BY <1>1, <1>3 DEF Subscribe, Join, TakeFirst, SendFirst, Read, Leave, Close, ReaderGoto,
      Enqueue, TypeOK
  <2> QED
    BY <1>1, <1>2, <2>1, ShownFrame DEF Coming, In
<1>4. CASE r = q
  <2>1. CASE Join(q) \/ Leave(q) \/ Close(q)
    <3>1. rpc'[r] \in {"joined", "leaving", "gone"}
      BY <1>1, <1>4, <2>1 DEF Join, Leave, Close, ReaderGoto, TypeOK
    <3> QED
      BY <3>1 DEF Shown
  <2>2. CASE TakeFirst(q)
    <3>1. rpc'[r] = "first" /\ rsnap'[r] = changes'
      BY <1>1, <1>4, <2>2 DEF TakeFirst, ReaderGoto, TypeOK
    <3> QED
      BY <3>1 DEF Shown
  <2>3. CASE SendFirst(q)
    <3>1. /\ rpc[r] = "first" /\ rpc'[r] = "reading" /\ buf'[r] = Append(buf[r], rsnap[r])
          /\ rsnap[r] \in 0 .. MaxChanges
      BY <1>1, <1>4, <2>3 DEF SendFirst, ReaderGoto, Enqueue, TypeOK
    <3>2. rsnap[r] = changes \/ In(changes, buf[r]) => In(changes, buf'[r])
      <4>1. In(rsnap[r], Append(buf[r], rsnap[r]))
        BY <1>1, <3>1, InAppend
      <4>2. In(changes, buf[r]) => In(changes, Append(buf[r], rsnap[r]))
        BY <1>1, <3>1, InAppend
      <4> QED
        BY <3>1, <4>1, <4>2
    <3> QED
      BY <1>1, <1>2, <3>1, <3>2 DEF Shown, Coming
  <2>4. CASE Read(q)
    <3>1. /\ buf[r] # <<>> /\ buf'[r] = Tail(buf[r]) /\ UNCHANGED <<rpc, rsnap>>
          /\ newest'[r] = IF Head(buf[r]) > newest[r] THEN Head(buf[r]) ELSE newest[r]
          /\ rpc[r] = "reading"
      BY <1>1, <1>4, <2>4 DEF Read, TypeOK
    <3>2. /\ Head(buf[r]) \in Nat /\ newest[r] \in Nat /\ changes \in Nat
          /\ Head(buf[r]) <= changes /\ newest[r] <= changes
      BY <1>1, <3>1, InTail, TailTyped DEF Past, TypeOK
    <3>3. newest[r] = changes \/ Head(buf[r]) = changes => newest'[r] = changes
      BY <3>1, <3>2
    <3>4. In(changes, buf[r]) => newest'[r] = changes \/ In(changes, buf'[r])
      BY <1>1, <3>1, <3>3, InTail
    <3> QED
      BY <1>1, <1>2, <3>1, <3>3, <3>4 DEF Shown, Coming
  <2> QED
    BY <2>1, <2>2, <2>3, <2>4 DEF Subscribe
<1> QED
  BY <1>3, <1>4

-----------------------------------------------------------------------------
(* The invariant of the stream *)

\* The invariant is kept by every step, whatever the readers do (update.go:943-999).
THEOREM StreamInvariant == Spec => []StreamInv
<1>1. Init => StreamInv
  <2>1. ASSUME Init PROVE TypeOK
    BY <2>1, StreamAssumption DEF Init, TypeOK, ReaderBlocks, WriterBlocks
  <2>2. ASSUME Init PROVE Serving /\ Registered /\ Past /\ Apart
    BY <2>2 DEF Init, Serving, Registered, Past, Apart, Busy, Connected
  <2>3. ASSUME Init, NEW r \in Readers PROVE Shown(r)
    BY <2>3 DEF Init, Shown
  <2> QED
    BY <2>1, <2>2, <2>3 DEF StreamInv
<1>2. StreamInv /\ [Next]_vars => StreamInv'
  <2> SUFFICES ASSUME StreamInv, [Next]_vars PROVE StreamInv'
    OBVIOUS
  <2>1. TypeOK /\ Serving /\ Registered /\ Past /\ Apart /\ \A r \in Readers : Shown(r)
    BY DEF StreamInv
  <2>2. TypeOK'
    <3>1. UNCHANGED vars => TypeOK'
      BY <2>1 DEF TypeOK, vars, readerVars, writerVars, raceVars
    <3> QED
      BY <2>1, <3>1, WriterTyped, ReaderTyped DEF Next
  <2>3. Serving' /\ Registered' /\ Past'
    BY <2>1, ServingKept, RegisteredKept, PastKept
  <2>4. CASE Next
    BY <2>1, <2>2, <2>3, <2>4, ApartKept, WriterShown, ReaderShown DEF Next, StreamInv
  <2>5. CASE UNCHANGED vars
    <3>1. Apart'
      BY <2>1, <2>5 DEF Apart, Undisturbed, Busy, Full, vars, readerVars, writerVars, raceVars
    <3>2. \A r \in Readers : Shown(r)'
      BY <2>1, <2>5 DEF Shown, Coming, Owes, In, vars, readerVars, writerVars, raceVars
    <3> QED
      BY <2>2, <2>3, <3>1, <3>2 DEF StreamInv
  <2> QED
    BY <2>4, <2>5
<1> QED
  BY <1>1, <1>2, PTL DEF Spec

\* A registered channel is open; and when no broadcast is under way a connected browser
\* has the newest snapshot or finds it in its channel, whatever joined, left, stalled or
\* overlapped before, for any number of broadcasts at once and any capacity.  Only a
\* broadcast that overlapped another one, or a first send, loses the newest on a full channel
\* until the next change: one that ran alone never does (update.go:943-999).
THEOREM StreamAlwaysSound == Spec => []StreamSound
<1>1. StreamInv => StreamSound
  <2>1. StreamInv => ListedOpen
    BY DEF StreamInv, Registered, ListedOpen, Connected, TypeOK
  <2>2. ASSUME StreamInv, NEW r \in Readers, rpc[r] = "reading", Busy = {}, r \notin raced
        PROVE  newest[r] = changes \/ \E i \in 1 .. Len(buf[r]) : buf[r][i] = changes
    <3>1. newest[r] = changes \/ Coming(r)
      BY <2>2 DEF StreamInv, Shown
    <3>2. \A w \in Writers : ~Owes(w, r)
      BY <2>2 DEF Busy, Owes
    <3> QED
      BY <3>1, <3>2 DEF Coming, In
  <2> QED
    BY <2>1, <2>2 DEF StreamSound, NothingLost
<1> QED
  BY <1>1, StreamInvariant, PTL
=============================================================================
