--------------------------- MODULE SchemaMigration ---------------------------
(***************************************************************************)
(* The schema of the database and its version, from the start of one       *)
(* program to that of another (model/migrate/scheduler.go, plan.go and     *)
(* v0.go to v2.go, model/main.go).                                         *)
(*                                                                         *)
(* A program of version p knows the tables 1 .. p and the migrations to    *)
(* versions 1 to p.  Each migration is one transaction; the first          *)
(* initialization of a database is not, and the process may die between    *)
(* any two of its statements.  A statement that fails ends the process     *)
(* too (app/server.go:30).  A column that a version adds counts as a table.*)
(***************************************************************************)
EXTENDS Integers

CONSTANTS
  Programs,   \* versions of the program: its latestVersion
  MaxStarts   \* bound: starts of a program

Tables == UNION {1 .. p : p \in Programs}
NoVersion == -1

\* What the constants are: assumed where they get their values.
SchemaAssumption == Programs \subseteq Nat \ {0} /\ MaxStarts \in Nat

VARIABLES
  backend,   \* "sqlite" or "postgres"
  source,    \* is there an SQLite file with data beside a PostgreSQL database
  fresh,     \* was the database without tables at first
  existing,  \* the tables that exist
  meta,      \* does the table of the version exist
  version,   \* its row
  data,      \* what the tables hold: rows "copied", of "use", the account "root"
  copies,    \* history: how often the SQLite data were copied
  program,   \* the one that runs
  startPc, at,  \* where it is, and version in upgrade
  starts     \* counter of the bound

place == <<backend, source, fresh>>
database == <<existing, meta, version, data, copies>>
schemaVars == <<place, database, program, startPc, at, starts>>

SchemaInit ==
  /\ backend \in {"sqlite", "postgres"} /\ source \in BOOLEAN
  /\ source => backend = "postgres"
  /\ fresh \in BOOLEAN
  /\ existing = IF fresh THEN {} ELSE {1}
  /\ data = IF fresh THEN {} ELSE {"use", "root"}
  /\ meta = FALSE /\ version = NoVersion /\ copies = 0
  /\ program \in Programs /\ startPc = "off" /\ at = 0 /\ starts = 0

Needed == 1 .. program
Validate == meta /\ Needed \subseteq existing

StartGoto(p) == startPc' = p /\ UNCHANGED <<place, program, starts>>
Refuse == StartGoto("refused") /\ UNCHANGED <<database, at>>

\* InitDB, of whatever program is installed now.
Start(p) ==
  /\ startPc = "off" /\ starts < MaxStarts
  /\ starts' = starts + 1 /\ program' = p /\ startPc' = "load"
  /\ UNCHANGED <<place, database, at>>

-----------------------------------------------------------------------------
\* Apply: the version if there is one, else what the tables hold.
Apply ==
  /\ startPc = "load"
  /\ IF meta /\ version # NoVersion
     THEN at' = version /\ StartGoto("upgrade")
     ELSE at' = at /\ StartGoto(IF data = {} THEN "initialize" ELSE "adopt")
  /\ UNCHANGED database

\* A database with data and without a version is taken for one of version 0.
ensureSchemaMeta ==
  /\ startPc = "adopt" /\ meta' = TRUE /\ at' = 0 /\ StartGoto("upgrade")
  /\ UNCHANGED <<existing, version, data, copies>>

\* Mutant: the first version is saved as soon as there is a table for it.
CreateMeta_WithVersion ==
  /\ startPc = "initialize" /\ ~meta /\ meta' = TRUE /\ version' = 0 /\ StartGoto("initialize")
  /\ UNCHANGED <<existing, data, copies, at>>

\* Initialize, ApplySchema first: the version's table, then the others, one by one.
CreateMeta ==
  /\ startPc = "initialize" /\ ~meta /\ meta' = TRUE /\ StartGoto("initialize")
  /\ UNCHANGED <<existing, version, data, copies, at>>

CreateTable ==
  /\ startPc = "initialize" /\ meta
  /\ \E t \in Needed \ existing :
       (\A u \in Needed \ existing : t <= u) /\ existing' = existing \union {t}
  /\ StartGoto("initialize") /\ UNCHANGED <<meta, version, data, copies, at>>

\* migrateSQLiteDataIfNeeded, one transaction.
migrateSQLiteDataIfNeeded ==
  /\ startPc = "initialize" /\ Validate
  /\ IF source /\ data = {}
     THEN data' = {"copied"} /\ copies' = copies + 1 ELSE UNCHANGED <<data, copies>>
  /\ StartGoto("save") /\ UNCHANGED <<existing, meta, version, at>>

\* initializeFresh ends.
SaveFirstVersion ==
  /\ startPc = "save"
  /\ IF Validate
     THEN /\ version' = 0 /\ at' = 0 /\ StartGoto("upgrade")
          /\ UNCHANGED <<existing, meta, data, copies>>
     ELSE Refuse

-----------------------------------------------------------------------------
\* upgrade: a higher version is lowered, the current one left, from a lower one the next
\* migration runs.
Lower ==
  /\ startPc = "upgrade" /\ at > program
  /\ IF Validate
     THEN version' = program /\ StartGoto("root") /\ UNCHANGED <<existing, meta, data, copies, at>>
     ELSE Refuse

Current ==
  /\ startPc = "upgrade" /\ at = program
  /\ IF Validate THEN StartGoto("root") /\ UNCHANGED <<database, at>> ELSE Refuse

\* runMigration: every migration applies the whole schema of the program.
runMigration ==
  /\ startPc = "upgrade" /\ at < program
  /\ existing' = existing \union Needed /\ meta' = TRUE /\ version' = at + 1 /\ at' = at + 1
  /\ StartGoto(IF at + 1 = program THEN "root" ELSE "upgrade")
  /\ UNCHANGED <<data, copies>>

\* createRootAccountIfNeed: no error of the insertion is looked at.
createRootAccountIfNeed ==
  /\ startPc = "root"
  /\ IF data \intersect {"copied", "root"} = {}
     THEN data' \in {data, data \union {"root"}} ELSE data' = data
  /\ StartGoto("up") /\ UNCHANGED <<existing, meta, version, copies, at>>

Use ==
  /\ startPc = "up" /\ data' = data \union {"use"} /\ StartGoto("up")
  /\ UNCHANGED <<existing, meta, version, copies, at>>

\* The process ends, by itself or in the middle of its start.
StartDies == startPc # "off" /\ StartGoto("off") /\ UNCHANGED <<database, at>>

SchemaNext ==
  \/ \E p \in Programs : Start(p)
  \/ Apply \/ ensureSchemaMeta \/ CreateMeta \/ CreateTable \/ migrateSQLiteDataIfNeeded
  \/ SaveFirstVersion \/ Lower \/ Current \/ runMigration \/ createRootAccountIfNeed
  \/ Use \/ StartDies

SchemaSpec == SchemaInit /\ [][SchemaNext]_schemaVars

-----------------------------------------------------------------------------
SchemaTypeOK ==
  /\ backend \in {"sqlite", "postgres"} /\ source \in BOOLEAN /\ fresh \in BOOLEAN
  /\ existing \subseteq Tables /\ meta \in BOOLEAN /\ version \in Tables \union {0, NoVersion}
  /\ data \subseteq {"copied", "use", "root"} /\ copies \in Nat
  /\ program \in Programs /\ at \in Tables \union {0} /\ starts \in 0 .. MaxStarts
  /\ startPc \in {"off", "load", "adopt", "initialize", "save", "upgrade", "root", "up", "refused"}

(* Whatever starts were cut off and whichever programs followed each other: no start refuses  *)
(* the database, the version never names a table that is missing, a program that is up has    *)
(* the version and the tables it knows, and the data of an SQLite file have come into a fresh *)
(* PostgreSQL database exactly once (scheduler.go:61-132, model/main.go:170-207).             *)
SchemaSound ==
  /\ startPc # "refused"
  /\ version # NoVersion => 1 .. version \subseteq existing
  /\ startPc = "up" => version = program /\ Needed \subseteq existing
  /\ copies <= 1
  /\ startPc \in {"root", "up"} /\ source /\ fresh => copies = 1
=============================================================================
