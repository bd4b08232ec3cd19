---------------------------- MODULE SchemaProofs ----------------------------
(***************************************************************************)
(* Theorems of SchemaMigration for any set of openers, rows and faults.    *)
(***************************************************************************)
EXTENDS SchemaMigration, TLAPS

\* A file that is not one of ours has tables, and nobody has verified it as a source.
ForeignFileIsSafe ==
  ~Supported =>
    /\ layout # LayoutOf(0)
    /\ \A o \in Openers :
         /\ at[o] \in {"verify", "migrate"} => version = stage[o]
         /\ at[o] = "migrate" => layout = LayoutOf(stage[o])

\* An opener past the last definition check works on the current layout; an open one on
\* the current version as well.
CheckedIsCurrent ==
  \A o \in Openers :
    /\ at[o] \in {"check", "open"} => layout = LayoutOf(Current)
    /\ at[o] = "open" => version = Current

\* A stored row has a value exactly if it is available, as every CHECK constraint says.
RowsAreValued == \A r \in rows : r.valued <=> r.available

Inv == TypeOK /\ ForeignFileIsSafe /\ CheckedIsCurrent /\ RowsAreValued

-----------------------------------------------------------------------------
(* Layouts. *)

\* The layout of a version, field by field.
LEMMA LayoutFields ==
  ASSUME NEW v
  PROVE  /\ LayoutOf(v).tables = IF v = 5 THEN 4 ELSE v
         /\ LayoutOf(v).observations = (v >= 4)
         /\ LayoutOf(v).results = (v = 5)
         /\ LayoutOf(v).other = FALSE
BY Zenon DEF LayoutOf

\* The layouts of versions and what migrations make of a layout are layouts.
LEMMA LayoutsAreTyped ==
  /\ \A v \in 0..Current : LayoutOf(v) \in Layouts
  /\ \A s \in Stages : layout \in Layouts => MigratedLayout(s) \in Layouts
<1>1. ASSUME NEW v \in 0..Current
      PROVE  LayoutOf(v) \in Layouts
  <2>1. (IF v = 5 THEN 4 ELSE v) \in 0..4
    BY DEF Current
  <2>2. (v >= 4) \in BOOLEAN /\ (v = 5) \in BOOLEAN
    OBVIOUS
  <2>3. \A tables \in 0..4 : \A observations, results \in BOOLEAN :
          [tables |-> tables, observations |-> observations, results |-> results,
           other |-> FALSE] \in Layouts
    BY DEF Layouts
  <2> QED BY <2>1, <2>2, <2>3, Zenon DEF LayoutOf
<1>2. ASSUME NEW s \in Stages, layout \in Layouts
      PROVE  MigratedLayout(s) \in Layouts
  <2> DEFINE seen == layout.observations \/ s = 3
  <2>1. seen \in BOOLEAN
    OBVIOUS
  <2>2. CASE s < 4
    <3>1. MigratedLayout(s) = [layout EXCEPT !.tables = s + 1, !.observations = seen]
      BY <2>2, Zenon DEF MigratedLayout
    <3>2. s + 1 \in 0..4
      BY <2>2 DEF Stages
    <3> HIDE DEF seen
    <3> QED BY <1>2, <2>1, <3>1, <3>2 DEF Layouts
  <2>3. CASE ~(s < 4)
    <3>1. MigratedLayout(s) = [layout EXCEPT !.results = TRUE]
      BY <2>3 DEF MigratedLayout
    <3> QED BY <1>2, <3>1 DEF Layouts
  <2> QED BY <2>2, <2>3
<1> QED BY <1>1, <1>2

\* No migration drops the table of observations.
LEMMA MigratedFields ==
  ASSUME NEW s \in Stages, layout \in Layouts, layout.observations
  PROVE  MigratedLayout(s).observations
<1>1. CASE s < 4
  <2>1. MigratedLayout(s) =
          [layout EXCEPT !.tables = s + 1, !.observations = layout.observations \/ s = 3]
    BY <1>1 DEF MigratedLayout
  <2>2. MigratedLayout(s).observations = (layout.observations \/ s = 3)
    BY <2>1 DEF Layouts
  <2> QED BY <2>2
<1>2. CASE ~(s < 4)
  <2>1. MigratedLayout(s) = [layout EXCEPT !.results = TRUE]
    BY <1>2 DEF MigratedLayout
  <2> QED BY <2>1 DEF Layouts
<1> QED BY <1>1, <1>2

\* Once the observations exist, only the last migration can commit, and never twice.
LEMMA OnlyLastMigratesLater ==
  ASSUME layout \in Layouts, layout.observations, NEW s \in Stages, MigrationCommits(s)
  PROVE  s = 4 /\ ~layout.results
<1>1. s # 3
  BY DEF MigrationCommits, StatementsRun
<1>2. CASE s \in {1, 2}
  <2>1. MigratedLayout(s).observations
    BY MigratedFields
  <2>2. LayoutOf(s + 1).observations = (s + 1 >= 4)
    BY LayoutFields
  <2>3. ~(s + 1 >= 4)
    BY <1>2
  <2> QED BY <2>1, <2>2, <2>3 DEF MigrationCommits, DefinitionVerified
<1> QED BY <1>1, <1>2 DEF Stages, MigrationCommits, StatementsRun

\* On the current layout no migration commits.
LEMMA NothingMigratesCurrent ==
  ASSUME layout = LayoutOf(Current), NEW s \in Stages
  PROVE  ~MigrationCommits(s)
<1>1. layout \in Layouts
  <2>1. Current \in 0..Current
    BY DEF Current
  <2> QED BY <2>1, LayoutsAreTyped
<1>2. layout.observations /\ layout.results
  <2>1. LayoutOf(5).observations = (5 >= 4) /\ LayoutOf(5).results = (5 = 5)
    BY LayoutFields
  <2>2. 5 >= 4 /\ Current = 5
    BY DEF Current
  <2>3. LayoutOf(5).observations /\ LayoutOf(5).results
    BY <2>1, <2>2, Zenon
  <2> QED BY <2>2, <2>3, Zenon
<1> QED BY <1>1, <1>2, OnlyLastMigratesLater

\* On the layout of version 4 only the migration to version 5 commits.
LEMMA OnlyLastMigratesFour ==
  ASSUME layout = LayoutOf(4), NEW s \in Stages, MigrationCommits(s)
  PROVE  s = 4
<1>1. layout \in Layouts
  <2>1. 4 \in 0..Current
    BY DEF Current
  <2> QED BY <2>1, LayoutsAreTyped
<1>2. layout.observations
  <2>1. LayoutOf(4).observations = (4 >= 4)
    BY LayoutFields
  <2>2. 4 >= 4
    OBVIOUS
  <2> QED BY <2>1, <2>2, Zenon
<1> QED BY <1>1, <1>2, OnlyLastMigratesLater

\* A layout with tables of ours, or of somebody else, is not the empty one.
LEMMA CurrentIsNotEmpty == ~NoTables(LayoutOf(Current)) /\ ~NoTables(LayoutOf(4))
BY DEF NoTables, LayoutOf, Current

-----------------------------------------------------------------------------
(* Rows. *)

\* A migration that would drop a value does not fit its own constraints and rolls back.
LEMMA CommittedMigrationKeepsRows ==
  ASSUME rows \subseteq Row, RowsAreValued, NEW s \in Stages, RowsFit(s)
  PROVE  {MigratedRow(s, r) : r \in rows} = rows
<1>1. ASSUME NEW r \in rows
      PROVE  MigratedRow(s, r) = r
  <2>1. r \in Row /\ (r.valued <=> r.available)
    BY DEF RowsAreValued
  <2>2. CASE s < 4 /\ r.kind > s
    <3>1. MigratedRow(s, r) = [r EXCEPT !.valued = FALSE]
      BY <2>2 DEF MigratedRow
    <3>2. Accepts(s + 1, MigratedRow(s, r))
      BY <2>2 DEF RowsFit
    <3>3. ~r.available
      BY <2>1, <3>1, <3>2 DEF Accepts, Row
    <3>4. r.valued = FALSE
      BY <2>1, <3>3 DEF Row
    <3> QED BY <2>1, <3>1, <3>4 DEF Row
  <2>3. CASE ~(s < 4 /\ r.kind > s)
    BY <2>3 DEF MigratedRow
  <2> QED BY <2>2, <2>3
<1> QED BY <1>1

-----------------------------------------------------------------------------
(* What a step does to the file. *)

\* A step leaves version and layout alone, creates the current schema, or commits a
\* migration; on a file that is not ours it changes nothing at all but rows of an open one.
LEMMA FileSteps ==
  ASSUME Inv, [Next]_vars
  PROVE  \/ UNCHANGED database
         \/ /\ UNCHANGED <<version, layout>>
            /\ version = Current /\ layout = LayoutOf(Current)
            /\ \E r \in StoredRows : Accepts(layout.tables, r) /\ rows' = rows \union {r}
         \/ /\ Supported
            /\ NoTables(layout)
            /\ version' = Current /\ layout' = LayoutOf(Current) /\ rows' = rows
         \/ /\ Supported
            /\ \E s \in Stages :
                 /\ MigrationCommits(s)
                 /\ version' = s + 1 /\ layout' = LayoutOf(s + 1) /\ rows' = rows
<1>1. CASE UNCHANGED vars
  BY <1>1 DEF vars, database
<1>2. ASSUME NEW o \in Openers, ReadOnly(o) \/ Fault(o) \/ Open(o) \/ ReadVersion(o)
               \/ CheckEmpty(o) \/ VerifySource(o) \/ VerifyCurrent(o) \/ CheckVersion(o)
      PROVE  UNCHANGED database
  BY <1>2 DEF ReadOnly, Fault, Open, ReadVersion, CheckEmpty, VerifySource,
              VerifyCurrent, CheckVersion
<1>3. ASSUME NEW o \in Openers, CreateSchema(o)
      PROVE  \/ UNCHANGED database
             \/ /\ Supported /\ NoTables(layout)
                /\ version' = Current /\ layout' = LayoutOf(Current) /\ rows' = rows
  <2>1. NoTables(layout) => Supported
    BY DEF Inv, ForeignFileIsSafe, NoTables
  <2> QED BY <1>3, <2>1 DEF CreateSchema
<1>4. ASSUME NEW o \in Openers, Migrate(o)
      PROVE  \/ UNCHANGED database
             \/ /\ Supported
                /\ \E s \in Stages :
                     /\ MigrationCommits(s)
                     /\ version' = s + 1 /\ layout' = LayoutOf(s + 1) /\ rows' = rows
  <2> DEFINE s == stage[o]
  <2>1. s \in Stages /\ at[o] = "migrate"
    BY <1>4 DEF Inv, TypeOK, Migrate
  <2>2. Supported
    <3>1. ~Supported => version = s /\ layout = LayoutOf(s)
      BY <2>1 DEF Inv, ForeignFileIsSafe
    <3>2. s \in 0..Current
      BY <2>1 DEF Stages, Current
    <3> QED BY <3>1, <3>2 DEF Supported
  <2>3. CASE MigrationCommits(s)
    <3>1. version' = s + 1 /\ layout' = MigratedLayout(s)
          /\ rows' = {MigratedRow(s, r) : r \in rows}
      BY <1>4, <2>3 DEF Migrate
    <3>2. MigratedLayout(s) = LayoutOf(s + 1) /\ RowsFit(s)
      BY <2>3 DEF MigrationCommits, DefinitionVerified
    <3>3. {MigratedRow(s, r) : r \in rows} = rows
      BY <2>1, <3>2, CommittedMigrationKeepsRows DEF Inv, TypeOK
    <3> QED BY <2>1, <2>2, <2>3, <3>1, <3>2, <3>3
  <2>4. CASE ~MigrationCommits(s)
    BY <1>4, <2>4 DEF Migrate
  <2> QED BY <2>3, <2>4
<1>5. ASSUME NEW o \in Openers, Use(o)
      PROVE  /\ UNCHANGED <<version, layout>>
             /\ version = Current /\ layout = LayoutOf(Current)
             /\ \E r \in StoredRows : Accepts(layout.tables, r) /\ rows' = rows \union {r}
  BY <1>5 DEF Use, Inv, CheckedIsCurrent
<1> QED BY <1>1, <1>2, <1>3, <1>4, <1>5 DEF Next, Step

\* Version and layout stay once the layout is the current one.
LEMMA CurrentLayoutStays ==
  ASSUME Inv, [Next]_vars, layout = LayoutOf(Current)
  PROVE  UNCHANGED <<version, layout>>
BY FileSteps, NothingMigratesCurrent, CurrentIsNotEmpty DEF database

-----------------------------------------------------------------------------
(* What a step does to the openers. *)

Labels == {"closed", "version", "tables", "create", "verify", "migrate", "final", "check",
           "open"}
Results == {"none", "opened", "read", "incompatible", "fault"}

\* Opener o goes to label l at stage s, on the grounds that label needs.
MovesTo(o, l, s) ==
  /\ l \in Labels /\ s \in Stages
  /\ at' = [at EXCEPT ![o] = l]
  /\ stage' = [stage EXCEPT ![o] = s]
  /\ result' \in [Openers -> Results]
  /\ l \in {"verify", "migrate"} /\ ~Supported => version = s
  /\ l = "migrate" => layout = LayoutOf(s)
  /\ l = "check" => layout = LayoutOf(Current)
  /\ l = "open" => at[o] = "check" /\ version = Current

\* An opener that gives up, or is done, is closed.
LEMMA ClosingMoves ==
  ASSUME TypeOK, NEW o \in Openers, NEW r \in Results, Close(o, r)
  PROVE  MovesTo(o, "closed", 1)
BY DEF TypeOK, Close, MovesTo, Labels, Stages, Results

\* Going to a label that asks for nothing.
LEMMA GoingMoves ==
  ASSUME TypeOK, NEW o \in Openers, NEW s \in Stages,
         NEW l \in {"version", "tables", "create", "final"}, Goto(o, l, s)
  PROVE  MovesTo(o, l, s)
BY DEF TypeOK, Goto, MovesTo, Labels, Results

\* After a version, an opener looks at the next one or verifies the current one.
LEMMA ProceedMoves ==
  ASSUME TypeOK, NEW o \in Openers, NEW s \in Stages, Proceed(o, s)
  PROVE  \E l \in Labels, n \in Stages : MovesTo(o, l, n)
<1>1. CASE s < 4
  <2>1. s + 1 \in Stages /\ Goto(o, "version", s + 1)
    BY <1>1 DEF Proceed, Stages
  <2> QED BY <2>1, GoingMoves DEF Labels
<1>2. CASE ~(s < 4)
  <2>1. Goto(o, "final", s)
    BY <1>2 DEF Proceed
  <2> QED BY <2>1, GoingMoves DEF Labels
<1> QED BY <1>1, <1>2

\* A step moves one opener, to a label whose grounds it has, and counts its fault.
LEMMA OpenersMove ==
  ASSUME Inv, Next
  PROVE  /\ faults' \in 0..MaxFaults
         /\ \E o \in Openers, l \in Labels, s \in Stages : MovesTo(o, l, s)
<1> DEFINE Moved == \E o \in Openers, l \in Labels, s \in Stages : MovesTo(o, l, s)
<1>a. TypeOK /\ faults \in 0..MaxFaults
  BY DEF Inv, TypeOK
<1>b. 1 \in Stages /\ 4 \in Stages
  BY DEF Stages
<1>c. ASSUME NEW o \in Openers
      PROVE  /\ stage[o] \in Stages
             /\ \A r \in Results : Close(o, r) => Moved
             /\ \A s \in Stages : Proceed(o, s) => Moved
             /\ \A s \in Stages, l \in {"version", "tables", "create", "final"} :
                  Goto(o, l, s) => Moved
  <2>1. stage[o] \in Stages
    BY <1>a DEF TypeOK
  <2>2. \A r \in Results : Close(o, r) => Moved
    BY <1>a, <1>b, ClosingMoves DEF Labels
  <2>3. \A s \in Stages : Proceed(o, s) => Moved
    BY <1>a, ProceedMoves
  <2>4. \A s \in Stages, l \in {"version", "tables", "create", "final"} :
          Goto(o, l, s) => Moved
    BY <1>a, GoingMoves DEF Labels
  <2> QED BY <2>1, <2>2, <2>3, <2>4
<1>d. {"opened", "read", "incompatible", "fault"} \subseteq Results
  BY DEF Results
<1>1. ASSUME NEW o \in Openers, Fault(o)
      PROVE  faults' \in 0..MaxFaults /\ Moved
  <2>1. faults' \in 0..MaxFaults
    BY <1>a, <1>1, FaultsAreCounted DEF Fault
  <2> QED BY <1>c, <1>d, <1>1, <2>1 DEF Fault
<1>2. ASSUME NEW o \in Openers, ReadOnly(o) \/ CheckEmpty(o)
      PROVE  faults' \in 0..MaxFaults /\ Moved
  BY <1>a, <1>b, <1>c, <1>d, <1>2 DEF ReadOnly, CheckEmpty
<1>3. ASSUME NEW o \in Openers, Open(o) \/ Use(o)
      PROVE  faults' \in 0..MaxFaults /\ Moved
  BY <1>a, <1>b, <1>c, <1>d, <1>3 DEF Open, Use
<1>4. ASSUME NEW o \in Openers, CreateSchema(o) \/ Migrate(o)
      PROVE  faults' \in 0..MaxFaults /\ Moved
  BY <1>a, <1>b, <1>c, <1>d, <1>4 DEF CreateSchema, Migrate
<1>5. ASSUME NEW o \in Openers, ReadVersion(o)
      PROVE  faults' \in 0..MaxFaults /\ Moved
  <2>1. faults' = faults
    BY <1>5 DEF ReadVersion
  <2>2. CASE version = stage[o] /\ Goto(o, "verify", stage[o])
    <3>1. MovesTo(o, "verify", stage[o])
      BY <1>a, <1>c, <2>2 DEF TypeOK, Goto, MovesTo, Labels, Results
    <3> QED BY <1>a, <1>c, <2>1, <3>1 DEF Labels
  <2>3. CASE ~(version = stage[o] /\ Goto(o, "verify", stage[o]))
    <3>1. Goto(o, "tables", 1) \/ Proceed(o, stage[o]) \/ Close(o, "incompatible")
      BY <1>5, <2>3 DEF ReadVersion
    <3> QED BY <1>a, <1>b, <1>c, <1>d, <2>1, <3>1
  <2> QED BY <2>2, <2>3
<1>6. ASSUME NEW o \in Openers, VerifySource(o)
      PROVE  faults' \in 0..MaxFaults /\ Moved
  <2>1. faults' = faults /\ at[o] = "verify"
    BY <1>6 DEF VerifySource
  <2>2. CASE layout = LayoutOf(stage[o]) /\ Goto(o, "migrate", stage[o])
    <3>1. ~Supported => version = stage[o]
      BY <2>1 DEF Inv, ForeignFileIsSafe
    <3>2. MovesTo(o, "migrate", stage[o])
      BY <1>a, <1>c, <2>2, <3>1 DEF TypeOK, Goto, MovesTo, Labels, Results
    <3> QED BY <1>a, <1>c, <2>1, <3>2 DEF Labels
  <2>3. CASE Close(o, "incompatible")
    BY <1>a, <1>c, <1>d, <2>1, <2>3
  <2> QED BY <1>6, <2>2, <2>3 DEF VerifySource
<1>7. ASSUME NEW o \in Openers, VerifyCurrent(o)
      PROVE  faults' \in 0..MaxFaults /\ Moved
  <2>1. CASE layout = LayoutOf(Current) /\ Goto(o, "check", 4)
    <3>1. MovesTo(o, "check", 4)
      BY <1>a, <1>b, <2>1 DEF TypeOK, Goto, MovesTo, Labels, Results
    <3> QED BY <1>a, <1>b, <1>7, <3>1 DEF VerifyCurrent, Labels
  <2>2. CASE Close(o, "incompatible")
    BY <1>a, <1>c, <1>d, <1>7, <2>2 DEF VerifyCurrent
  <2> QED BY <1>7, <2>1, <2>2 DEF VerifyCurrent
<1>8. ASSUME NEW o \in Openers, CheckVersion(o)
      PROVE  faults' \in 0..MaxFaults /\ Moved
  <2>1. CASE version = Current /\ at[o] = "check" /\ Goto(o, "open", 4)
    <3>1. MovesTo(o, "open", 4)
      BY <1>a, <1>b, <2>1 DEF TypeOK, Goto, MovesTo, Labels, Results
    <3> QED BY <1>a, <1>b, <1>8, <3>1 DEF CheckVersion, Labels
  <2>2. CASE Close(o, "incompatible")
    BY <1>a, <1>c, <1>d, <1>8, <2>2 DEF CheckVersion
  <2> QED BY <1>8, <2>1, <2>2 DEF CheckVersion
<1> QED BY <1>1, <1>2, <1>3, <1>4, <1>5, <1>6, <1>7, <1>8 DEF Next, Step

-----------------------------------------------------------------------------
(* The invariant is inductive. *)

\* It holds of every file the openers can be given.
LEMMA InvHoldsInitially ==
  ASSUME Init
  PROVE  Inv
<1>1. layout \in Layouts /\ version \in 0..Unknown
  <2>1. CASE version \in 0..Current /\ layout = LayoutOf(version)
    BY <2>1, LayoutsAreTyped DEF Current, Unknown
  <2>2. CASE /\ version \in {0, 1, 3, Current, Unknown}
             /\ layout \in {LayoutOf(4)} \union
                           {[LayoutOf(v) EXCEPT !.other = TRUE] : v \in {0, 1, 5}}
    <3>1. {0, 1, 4, 5} \subseteq 0..Current
      BY DEF Current
    <3>2. \A v \in {0, 1, 4, 5} : LayoutOf(v) \in Layouts
      BY <3>1, LayoutsAreTyped
    <3>3. \A l \in Layouts : [l EXCEPT !.other = TRUE] \in Layouts
      BY DEF Layouts
    <3>4. layout \in Layouts
      BY <2>2, <3>2, <3>3
    <3> QED BY <2>2, <3>4 DEF Current, Unknown
  <2> QED BY <2>1, <2>2 DEF Init
<1>2. rows \subseteq Row /\ RowsAreValued
  BY RowsAreRows DEF Init, RowsAreValued, Accepts
<1>3. TypeOK
  BY <1>1, <1>2, FaultsAreCounted DEF Init, TypeOK, Stages
<1>4. ForeignFileIsSafe
  <2>1. LayoutOf(4) # LayoutOf(0)
    <3>1. 4 # 5 /\ 0 # 5 /\ 4 # 0
      OBVIOUS
    <3>2. LayoutOf(4).tables = 4 /\ LayoutOf(0).tables = 0
      BY <3>1, LayoutFields, Zenon
    <3> QED BY <3>1, <3>2, Zenon
  <2>2. ASSUME NEW v \in {0, 1, 5}
        PROVE  [LayoutOf(v) EXCEPT !.other = TRUE] # LayoutOf(0)
    <3>1. LayoutOf(0).other = FALSE
      BY LayoutFields
    <3>2. [LayoutOf(v) EXCEPT !.other = TRUE].other = TRUE
      <4>1. LayoutOf(v) \in Layouts
        BY LayoutsAreTyped DEF Current
      <4>2. \A l \in Layouts : [l EXCEPT !.other = TRUE].other = TRUE
        BY DEF Layouts
      <4> QED BY <4>1, <4>2
    <3> QED BY <3>1, <3>2
  <2>3. ~Supported => layout # LayoutOf(0)
    BY <2>1, <2>2 DEF Init, Supported
  <2>4. \A o \in Openers : at[o] = "closed"
    BY DEF Init
  <2> QED BY <2>3, <2>4 DEF ForeignFileIsSafe
<1>5. CheckedIsCurrent
  BY DEF Init, CheckedIsCurrent
<1> QED BY <1>2, <1>3, <1>4, <1>5 DEF Inv

\* A supported file stays supported, and any other one stays as it is.
LEMMA StepsAreCoherent ==
  ASSUME Inv, [Next]_vars
  PROVE  IF Supported THEN Supported' ELSE UNCHANGED database
<1>1. CASE UNCHANGED database
  BY <1>1 DEF database, Supported
<1>2. CASE UNCHANGED <<version, layout>> /\ version = Current /\ layout = LayoutOf(Current)
  <2>1. Supported
    BY <1>2 DEF Supported, Current
  <2> QED BY <1>2, <2>1 DEF Supported
<1>3. CASE Supported /\ version' = Current /\ layout' = LayoutOf(Current)
  BY <1>3 DEF Supported, Current
<1>4. CASE Supported /\ \E s \in Stages : version' = s + 1 /\ layout' = LayoutOf(s + 1)
  BY <1>4 DEF Supported, Current, Stages
<1> QED BY <1>1, <1>2, <1>3, <1>4, FileSteps

\* No step loses a row.
LEMMA StepsKeepRows ==
  ASSUME Inv, [Next]_vars
  PROVE  rows \subseteq rows'
BY FileSteps DEF database

\* The file keeps its type, and its rows their values.
LEMMA FileStaysTyped ==
  ASSUME Inv, [Next]_vars
  PROVE  /\ version' \in 0..Unknown /\ layout' \in Layouts
         /\ rows' \subseteq Row /\ RowsAreValued'
<1>1. version \in 0..Unknown /\ layout \in Layouts /\ rows \subseteq Row /\ RowsAreValued
  BY DEF Inv, TypeOK
<1>2. version' \in 0..Unknown /\ layout' \in Layouts
  <2>1. \A v \in 0..Current : v \in 0..Unknown /\ LayoutOf(v) \in Layouts
    BY LayoutsAreTyped DEF Current, Unknown
  <2>2. Current \in 0..Current /\ \A s \in Stages : s + 1 \in 0..Current
    BY DEF Current, Stages
  <2> QED BY <1>1, <2>1, <2>2, FileSteps DEF database
<1>3. rows' \subseteq Row /\ RowsAreValued'
  <2>1. \A r \in StoredRows : r \in Row
    BY RowsAreRows
  <2> QED BY <1>1, <2>1, FileSteps DEF database, RowsAreValued, Accepts
<1> QED BY <1>2, <1>3

\* Every step keeps it, stuttering included.
LEMMA InvIsInductive ==
  ASSUME Inv, [Next]_vars
  PROVE  Inv'
<1>1. /\ version' \in 0..Unknown /\ layout' \in Layouts
      /\ rows' \subseteq Row /\ RowsAreValued'
  BY FileStaysTyped
<1>2. CASE UNCHANGED vars
  BY <1>2 DEF vars, database, Inv, TypeOK, ForeignFileIsSafe, Supported, CheckedIsCurrent,
     RowsAreValued
<1>3. CASE Next
  <2>1. PICK o \in Openers, l \in Labels, s \in Stages : MovesTo(o, l, s)
    BY <1>3, OpenersMove
  <2>2. /\ at \in [Openers -> Labels] /\ stage \in [Openers -> Stages]
    BY DEF Inv, TypeOK, Labels
  <2>3. TypeOK'
    <3>1. faults' \in 0..MaxFaults
      BY <1>3, OpenersMove
    <3>2. at' \in [Openers -> Labels] /\ stage' \in [Openers -> Stages]
            /\ result' \in [Openers -> Results]
      BY <2>1, <2>2 DEF MovesTo
    <3> QED BY <1>1, <3>1, <3>2 DEF TypeOK, Labels, Results
  <2>4. ASSUME NEW p \in Openers
        PROVE  /\ at'[p] = IF p = o THEN l ELSE at[p]
               /\ stage'[p] = IF p = o THEN s ELSE stage[p]
    BY <2>1, <2>2 DEF MovesTo
  <2>5. ForeignFileIsSafe'
    <3>1. CASE Supported
      BY <3>1, StepsAreCoherent DEF ForeignFileIsSafe
    <3>2. CASE ~Supported
      <4>1. UNCHANGED database
        BY <3>2, StepsAreCoherent
      <4>2. layout # LayoutOf(0)
        BY <3>2 DEF Inv, ForeignFileIsSafe
      <4>3. ASSUME NEW p \in Openers
            PROVE  /\ at'[p] \in {"verify", "migrate"} => version = stage'[p]
                   /\ at'[p] = "migrate" => layout = LayoutOf(stage'[p])
        <5>1. CASE p = o
          BY <2>1, <2>4, <3>2, <5>1 DEF MovesTo
        <5>2. CASE p # o
          BY <2>4, <3>2, <5>2 DEF Inv, ForeignFileIsSafe
        <5> QED BY <5>1, <5>2
      <4> QED BY <4>1, <4>2, <4>3 DEF ForeignFileIsSafe, database
    <3> QED BY <3>1, <3>2
  <2>6. CheckedIsCurrent'
    <3>1. layout = LayoutOf(Current) => version' = version /\ layout' = layout
      BY CurrentLayoutStays
    <3>2. ASSUME NEW p \in Openers
          PROVE  /\ at'[p] \in {"check", "open"} => layout' = LayoutOf(Current)
                 /\ at'[p] = "open" => version' = Current
      <4>1. CASE p = o
        BY <2>1, <2>4, <3>1, <4>1 DEF MovesTo, Inv, CheckedIsCurrent
      <4>2. CASE p # o
        BY <2>4, <3>1, <4>2 DEF Inv, CheckedIsCurrent
      <4> QED BY <4>1, <4>2
    <3> QED BY <3>2 DEF CheckedIsCurrent
  <2> QED BY <1>1, <2>3, <2>5, <2>6 DEF Inv
<1> QED BY <1>2, <1>3

\* The invariant holds in every behaviour.
LEMMA SpecKeepsInv == Spec => []Inv
<1>1. Init => Inv
  BY InvHoldsInitially
<1>2. Inv /\ [Next]_vars => Inv'
  BY InvIsInductive
<1> QED BY <1>1, <1>2, PTL DEF Spec

\* The file and every opener keep their types.
THEOREM SchemaTypeCorrect == Spec => []TypeOK
<1>1. Inv => TypeOK
  BY DEF Inv
<1> QED BY <1>1, SpecKeepsInv, PTL

\* However stale the version an opener acts on, _ensure_schema leaves a supported file
\* supported and never changes another one.
THEOREM SchemaIsAlwaysCoherent == Spec => SchemaStaysCoherent
<1>1. Inv /\ [Next]_vars => [IF Supported THEN Supported' ELSE UNCHANGED database]_vars
  BY StepsAreCoherent
<1> QED BY <1>1, SpecKeepsInv, PTL DEF Spec, SchemaStaysCoherent

\* No stale migration takes a file back from version 4 or 5.
THEOREM CurrentVersionIsFinal == Spec => CurrentIsFinal
<1>1. ASSUME Inv, [Next]_vars, Supported, version >= 4
      PROVE  version' >= version
  <2>1. CASE version = 5
    <3>1. layout = LayoutOf(Current)
      BY <1>1, <2>1 DEF Supported, Current
    <3>2. version' = version
      BY <1>1, <3>1, CurrentLayoutStays
    <3> QED BY <2>1, <3>2
  <2>2. CASE version = 4
    <3>1. layout = LayoutOf(4)
      BY <1>1, <2>2 DEF Supported
    <3>2. ~NoTables(layout)
      BY <3>1, CurrentIsNotEmpty
    <3>3. version' = version \/ version' = 5
      BY <1>1, <3>1, <3>2, FileSteps, OnlyLastMigratesFour DEF database
    <3> QED BY <2>2, <3>3
  <2> QED BY <1>1, <2>1, <2>2 DEF Supported, Current
<1>2. Inv /\ [Next]_vars => [Supported /\ version >= 4 => version' >= version]_vars
  BY <1>1
<1> QED BY <1>2, SpecKeepsInv, PTL DEF Spec, CurrentIsFinal

\* A connection that _connect handed out works on the current tables until it is closed.
THEOREM OpenStaysCurrent == Spec => []OpenIsCurrent
<1>1. Inv => OpenIsCurrent
  BY DEF Inv, CheckedIsCurrent, OpenIsCurrent
<1> QED BY <1>1, SpecKeepsInv, PTL

\* No migration that commits, on whatever layout it runs, loses a row or its value.
THEOREM RowsAreAlwaysPreserved == Spec => RowsArePreserved
<1>1. Inv /\ [Next]_vars => [rows \subseteq rows']_vars
  BY StepsKeepRows
<1> QED BY <1>1, SpecKeepsInv, PTL DEF Spec, RowsArePreserved
=============================================================================
