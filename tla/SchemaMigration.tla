-------------------------- MODULE SchemaMigration --------------------------
(***************************************************************************)
(* _ensure_schema and the four migrations of persistence.py, run by any    *)
(* number of openers on one file.  PRAGMA user_version and the definition  *)
(* checks are autocommit reads; only the body of a migration is one        *)
(* transaction, so the file may move between the steps of an opener.       *)
(***************************************************************************)
EXTENDS Integers

CONSTANTS
  Openers,     \* processes that open the file for writing, or to read it
  StoredRows,  \* evidence rows that may be stored
  MaxFaults    \* bound on lock timeouts, I/O errors and crashes

VARIABLES
  version,  \* PRAGMA user_version
  layout,   \* the tables and columns in sqlite_master
  rows,     \* the evidence rows
  at,       \* where an opener is
  stage,    \* which of the four migration steps it is at
  result,   \* how its last open ended
  faults

database == <<version, layout, rows>>
vars == <<database, at, stage, result, faults>>

-----------------------------------------------------------------------------
(* Schemas. *)

Current == 5
Unknown == 6        \* any version the code does not know
Stages == 1..4      \* stage s migrates version s to version s + 1

\* The generation of the three rebuilt tables, the table version 4 adds, the two
\* version 5 adds, and whether any other table exists.
Layouts == [tables : 0..4, observations : BOOLEAN, results : BOOLEAN, other : BOOLEAN]

LayoutOf(v) ==
  [tables |-> IF v = 5 THEN 4 ELSE v, observations |-> v >= 4, results |-> v = 5,
   other |-> FALSE]

Supported == version \in 0..Current /\ layout = LayoutOf(version)

\* Evidence kinds are numbered by the version that introduced them and their value column.
Row == [kind : 1..4, available : BOOLEAN, valued : BOOLEAN]

\* The CHECK constraints of the tables of generation g.
Accepts(g, r) == r.kind <= g /\ (r.valued <=> r.available)

ASSUME RowsAreRows == StoredRows \subseteq Row
ASSUME FaultsAreCounted == MaxFaults \in Nat

TypeOK ==
  /\ version \in 0..Unknown
  /\ layout \in Layouts
  /\ rows \subseteq Row
  /\ at \in [Openers -> {"closed", "version", "tables", "create", "verify", "migrate",
                         "final", "check", "open"}]
  /\ stage \in [Openers -> Stages]
  /\ result \in [Openers -> {"none", "opened", "read", "incompatible", "fault"}]
  /\ faults \in 0..MaxFaults

\* Any supported version with rows its tables accept, or a file that is something else.
Init ==
  /\ \/ /\ version \in 0..Current
        /\ layout = LayoutOf(version)
     \/ /\ version \in {0, 1, 3, Current, Unknown}
        /\ layout \in {LayoutOf(4)} \union {[LayoutOf(v) EXCEPT !.other = TRUE] : v \in {0, 1, 5}}
  /\ rows \in SUBSET {r \in StoredRows : Accepts(layout.tables, r)}
  /\ at = [o \in Openers |-> "closed"]
  /\ stage = [o \in Openers |-> 1]
  /\ result = [o \in Openers |-> "none"]
  /\ faults = 0

-----------------------------------------------------------------------------
(* One opener. *)

Goto(o, label, s) ==
  /\ at' = [at EXCEPT ![o] = label]
  /\ stage' = [stage EXCEPT ![o] = s]
  /\ UNCHANGED result

Close(o, r) ==
  /\ at' = [at EXCEPT ![o] = "closed"]
  /\ stage' = [stage EXCEPT ![o] = 1]
  /\ result' = [result EXCEPT ![o] = r]

Open(o) ==
  /\ at[o] = "closed"
  /\ Goto(o, "version", 1)
  /\ UNCHANGED <<database, faults>>

ProceedPastTheLast(o, s) == Goto(o, "version", s + 1)

\* What follows stage s: the version is read again before the next stage.
Proceed(o, s) == IF s < 4 THEN Goto(o, "version", s + 1) ELSE Goto(o, "final", s)

ReadVersion(o) ==
  /\ at[o] = "version"
  /\ \/ /\ version = 0
        /\ stage[o] = 1
        /\ Goto(o, "tables", 1)
     \/ /\ version = stage[o]
        /\ Goto(o, "verify", stage[o])
     \/ /\ version \in stage[o] + 1 .. Current
        /\ Proceed(o, stage[o])
     \/ /\ version \notin stage[o] .. Current
        /\ ~(version = 0 /\ stage[o] = 1)
        /\ Close(o, "incompatible")
  /\ UNCHANGED <<database, faults>>

NoTablesOfOurs(l) == ~l.observations /\ ~l.results

NoTables(l) == l = LayoutOf(0)

CheckEmpty(o) ==
  /\ at[o] = "tables"
  /\ IF NoTables(layout) THEN Goto(o, "create", 1) ELSE Close(o, "incompatible")
  /\ UNCHANGED <<database, faults>>

\* CREATE TABLE fails when another opener created the tables since the check.
CreateSchema(o) ==
  /\ at[o] = "create"
  /\ \/ /\ NoTables(layout)
        /\ version' = Current
        /\ layout' = LayoutOf(Current)
        /\ Proceed(o, 1)
        /\ UNCHANGED rows
     \/ /\ ~NoTables(layout)
        /\ Close(o, "incompatible")
        /\ UNCHANGED database
  /\ UNCHANGED faults

VerifySource(o) ==
  /\ at[o] = "verify"
  /\ IF layout = LayoutOf(stage[o]) THEN Goto(o, "migrate", stage[o])
                                    ELSE Close(o, "incompatible")
  /\ UNCHANGED <<database, faults>>

MigratedLayoutWithoutObservations(s) ==
  IF s < 4 THEN [layout EXCEPT !.tables = s + 1] ELSE [layout EXCEPT !.results = TRUE]

\* The statements of migration s run on whatever layout is there.  Migrations 1 to 3
\* rename, create and copy the three tables, selecting the columns of generation s;
\* migration 3 also creates the observations, migration 4 only the two result tables.
MigratedLayout(s) ==
  IF s < 4
  THEN [layout EXCEPT !.tables = s + 1, !.observations = @ \/ s = 3]
  ELSE [layout EXCEPT !.results = TRUE]

\* A value column younger than generation s is not copied: NULL takes its place.
MigratedRow(s, r) == IF s < 4 /\ r.kind > s THEN [r EXCEPT !.valued = FALSE] ELSE r

\* The statements find the tables and columns they select and create no table twice.
StatementsRun(s) ==
  /\ layout.tables >= s
  /\ s = 3 => ~layout.observations
  /\ s = 4 => layout.observations /\ ~layout.results

RowsFit(s) == \A r \in rows : s < 4 => Accepts(s + 1, MigratedRow(s, r))

SameColumns(s) == MigratedLayout(s).tables = LayoutOf(s + 1).tables

DefinitionVerified(s) == MigratedLayout(s) = LayoutOf(s + 1)

MigrationUnchecked(s) == StatementsRun(s)

\* Otherwise the whole transaction rolls back.
MigrationCommits(s) == StatementsRun(s) /\ RowsFit(s) /\ DefinitionVerified(s)

Migrate(o) ==
  LET s == stage[o] IN
  /\ at[o] = "migrate"
  /\ \/ /\ MigrationCommits(s)
        /\ version' = s + 1
        /\ layout' = MigratedLayout(s)
        /\ rows' = {MigratedRow(s, r) : r \in rows}
        /\ Proceed(o, s)
     \/ /\ ~MigrationCommits(s)
        /\ Close(o, "incompatible")
        /\ UNCHANGED database
  /\ UNCHANGED faults

VerifyCurrent(o) ==
  /\ at[o] = "final"
  /\ IF layout = LayoutOf(Current) THEN Goto(o, "check", 4) ELSE Close(o, "incompatible")
  /\ UNCHANGED <<database, faults>>

CheckVersion(o) ==
  /\ at[o] = "check"
  /\ IF version = Current THEN Goto(o, "open", 4) ELSE Close(o, "incompatible")
  /\ UNCHANGED <<database, faults>>

\* The connection that _connect returned runs one write transaction and is closed.
Use(o) ==
  /\ at[o] = "open"
  /\ \E r \in StoredRows :
       /\ Accepts(layout.tables, r)
       /\ rows' = rows \union {r}
  /\ Close(o, "opened")
  /\ UNCHANGED <<version, layout, faults>>

\* The read boundary opens read-only, checks in one transaction and never migrates.
ReadOnly(o) ==
  /\ at[o] = "closed"
  /\ IF version = Current /\ layout = LayoutOf(Current)
     THEN Close(o, "read") ELSE Close(o, "incompatible")
  /\ UNCHANGED <<database, faults>>

\* A statement fails or the process dies; an open transaction leaves nothing.
Fault(o) ==
  /\ at[o] # "closed"
  /\ faults < MaxFaults
  /\ faults' = faults + 1
  /\ Close(o, "fault")
  /\ UNCHANGED database

Step(o) ==
  \/ Open(o)
  \/ ReadVersion(o)
  \/ CheckEmpty(o)
  \/ CreateSchema(o)
  \/ VerifySource(o)
  \/ Migrate(o)
  \/ VerifyCurrent(o)
  \/ CheckVersion(o)
  \/ Use(o)

Next == \E o \in Openers : Step(o) \/ ReadOnly(o) \/ Fault(o)

Spec == Init /\ [][Next]_vars

\* A caller whose open failed tries again, and a running process keeps running.
FairSpec == Spec /\ \A o \in Openers : WF_vars(Step(o))

-----------------------------------------------------------------------------
(* Properties. *)

\* Whatever stale version an opener acts on, user_version and the tables leave a
\* supported file together and stay a supported pair, and a file that is not one of ours
\* is never changed (_ensure_schema, _verify_schema_definition).
SchemaStaysCoherent ==
  [][IF Supported THEN Supported' ELSE UNCHANGED database]_vars

\* Stale migrations of other openers never take a file back once it is at version 4 or 5
\* (_ensure_schema, _migrate_schema_v3_to_v4).
CurrentIsFinal ==
  [][Supported /\ version >= 4 => version' >= version]_vars

\* A connection that _connect returned works on the current tables for as long as it is
\* open, whatever other openers still do.
OpenIsCurrent ==
  \A o \in Openers : at[o] = "open" => version = Current /\ layout = LayoutOf(Current)

\* No migration, in any order and on any layout, loses a stored row or its value.
RowsArePreserved == [][rows \subseteq rows']_vars

\* An opener that keeps trying gets its connection: it can be refused because another
\* opener moved the file under it, but not for ever.
OpenersGetThrough ==
  Supported => \A o \in Openers : []<>(at[o] = "open")

\* A migration starts from the exact prior version: the version only ever moves one
\* ahead, or from nothing to the current one.
MigratesFromExactVersion ==
  [][version' # version => version = 0 \/ version' = version + 1]_vars
=============================================================================
