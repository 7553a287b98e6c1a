--------------------------- MODULE GeneratorTables ---------------------------
(***************************************************************************)
(* What the code generator keeps about database tables                     *)
(* (internal/service/gen.go, internal/repository/gen.go): a row per table  *)
(* and per column, imported from the schema, edited in a form, brought up  *)
(* to date by a synchronisation.  The schema changes under it at any time, *)
(* and a form may be sent long after it was read.                          *)
(*                                                                         *)
(* Writers hold genWriteMu and write in one transaction: each is one       *)
(* action.  A failing one has no effect.                                   *)
(***************************************************************************)
EXTENDS Naturals, FiniteSets, SequencesExt

CONSTANTS
    Tables,    \* names of tables
    Columns,   \* names of columns
    MaxGenId,     \* bound: rows ever inserted
    MaxAlters  \* bound: changes of the schema

ASSUME GeneratorTablesAssumption ==
    /\ IsFiniteSet(Tables) /\ IsFiniteSet(Columns)
    /\ MaxGenId \in Nat /\ MaxAlters \in Nat

VARIABLES
    schema,   \* table -> column -> its version, 0 when there is no such column
    config,   \* gen_table: name -> table_id, 0 when it is not imported
    rows,     \* gen_table_column
    lastId,   \* the auto-increment counters, as one
    alters,   \* changes of the schema so far
    form      \* what an operator's page shows, or not yet

genVars == <<schema, config, rows, lastId, alters, form>>

\* A row of a column: the physical version it describes and how it is set.
ColumnRow == [id: 1..MaxGenId, table: 1..MaxGenId, name: Columns, version: Nat, setting: {"initial", "edited"}]
NoForm == [table |-> 0, rows |-> {}, read |-> FALSE]

GenTypeOK ==
    /\ schema \in [Tables -> [Columns -> 0..MaxAlters + 1]]
    /\ config \in [Tables -> 0..MaxGenId]
    /\ rows \subseteq ColumnRow
    /\ lastId \in 0..MaxGenId /\ alters \in 0..MaxAlters
    /\ form \in [table: 0..MaxGenId, rows: SUBSET ColumnRow, read: BOOLEAN]

Of(table) == {row \in rows : row.table = table}
Imported == {config[t] : t \in Tables} \ {0}
Physical(t) == {c \in Columns : schema[t][c] > 0}

GenInit ==
    /\ schema \in {[t \in Tables |-> [c \in Columns |-> IF <<t, c>> \in cs THEN 1 ELSE 0]] :
                       cs \in SUBSET (Tables \X Columns)}
    /\ config = [t \in Tables |-> 0]
    /\ rows = {} /\ lastId = 0 /\ alters = 0
    /\ form = NoForm

-----------------------------------------------------------------------------
\* The ids that the next inserted rows get, in whatever order they go in.
NewId(new) ==
    LET order == SetToSeq(new) IN
    [row \in new |-> lastId + CHOOSE i \in DOMAIN order : order[i] = row]

\* Rows for columns, pairs of a table and a name, as initGenColumn sets them.
NewRows(new, tableId, version) ==
    LET id == NewId(new) IN
    {[id |-> id[p], table |-> tableId[p[1]], name |-> p[2],
      version |-> version[p[1]][p[2]], setting |-> "initial"] : p \in new}

\* InsertGenTables: rows for tables and for their columns, in one transaction.
InsertTables(ts, columns, version) ==
    LET tableId == NewId(ts) IN
    /\ lastId + Cardinality(columns) <= MaxGenId
    /\ config' = [t \in Tables |-> IF t \in ts THEN tableId[t] ELSE config[t]]
    /\ rows' = rows \cup NewRows(columns, tableId, version)
    /\ lastId' = lastId + Cardinality(columns)

\* importGenTablesLocked: tables that exist and are not yet imported.
Import(ts) ==
    /\ ts # {}
    /\ \A t \in ts : config[t] = 0 /\ Physical(t) # {}
    /\ InsertTables(ts, UNION {{t} \X Physical(t) : t \in ts}, schema)
    /\ UNCHANGED <<schema, alters, form>>

\* ExecuteCreateTableStatements: each statement commits.
Created(ts, columns) ==
    [t \in Tables |-> IF t \in ts THEN [c \in Columns |-> IF c \in columns THEN 1 ELSE 0] ELSE schema[t]]

\* CreateTablesAndImport: the statements commit one by one; when one fails, or
\* the import is refused, the tables created so far stay.
CreateTables(ts, columns) ==
    /\ ts # {} /\ columns # {} /\ alters < MaxAlters
    /\ \A t \in ts : Physical(t) = {}
    /\ schema' = Created(ts, columns) /\ alters' = alters + 1
    /\ \/ UNCHANGED <<config, rows, lastId>>
       \/ /\ \A t \in ts : config[t] = 0
          /\ InsertTables(ts, ts \X columns, Created(ts, columns))
    /\ UNCHANGED form

\* GetGenTableInfo reads the table and then its columns, without a lock.
OpenForm(t) ==
    /\ config[t] # 0
    /\ form' = [table |-> config[t], rows |-> {}, read |-> FALSE]
    /\ UNCHANGED <<schema, config, rows, lastId, alters>>

ReadColumns ==
    /\ form.table # 0 /\ ~form.read
    /\ form' = [form EXCEPT !.rows = Of(form.table), !.read = TRUE]
    /\ UNCHANGED <<schema, config, rows, lastId, alters>>

\* UpdateGenTableWithColumns: a row as it was sent, but for its name.
Sent(row, edited) ==
    LET sent == CHOOSE r \in form.rows : r.id = row.id IN
    [sent EXCEPT !.name = row.name, !.setting = IF row.id \in edited THEN "edited" ELSE @]

\* UpdateGenTable: the form must have exactly the columns of the table.
Edit(edited) ==
    /\ form.read /\ form.table \in Imported /\ form.rows # {}
    /\ {row.id : row \in form.rows} = {row.id : row \in Of(form.table)}
    /\ rows' = (rows \ Of(form.table)) \cup {Sent(row, edited) : row \in Of(form.table)}
    /\ UNCHANGED <<schema, config, lastId, alters, form>>

\* DeleteGenTables: the columns go with their tables.
WithoutTables(ts) == {row \in rows : \A t \in ts : row.table # config[t]}

DeleteGenTables(ts) ==
    /\ ts # {}
    /\ rows' = WithoutTables(ts)
    /\ config' = [t \in Tables |-> IF t \in ts THEN 0 ELSE config[t]]
    /\ UNCHANGED <<schema, lastId, alters, form>>

\* Mutant: all rows of a synchronised table are new (ReplaceGenTableColumns).
KeptNone(t) == {}

\* SyncGenTableColumns: columns that are still there keep their row and its
\* settings.
Kept(t) == {[row EXCEPT !.version = schema[t][row.name]] : row \in {r \in Of(config[t]) : r.name \in Physical(t)}}

Sync(t) ==
    LET new == {t} \X (Physical(t) \ {row.name : row \in Kept(t)}) IN
    /\ config[t] # 0 /\ Physical(t) # {}
    /\ lastId + Cardinality(new) <= MaxGenId
    /\ rows' = (rows \ Of(config[t])) \cup Kept(t) \cup NewRows(new, config, schema)
    /\ lastId' = lastId + Cardinality(new)
    /\ UNCHANGED <<schema, config, alters, form>>

\* Whoever else changes the database.
Alter(t, c) ==
    /\ alters < MaxAlters
    /\ alters' = alters + 1
    /\ schema' = [schema EXCEPT ![t][c] = IF @ = 0 THEN 1 ELSE 0] \/ schema' = [schema EXCEPT ![t][c] = @ + 1]
    /\ UNCHANGED <<config, rows, lastId, form>>

GenNext ==
    \/ \E ts \in SUBSET Tables : Import(ts) \/ DeleteGenTables(ts)
    \/ \E ts \in SUBSET Tables, columns \in SUBSET Columns : CreateTables(ts, columns)
    \/ \E t \in Tables : OpenForm(t) \/ Sync(t) \/ (\E c \in Columns : Alter(t, c))
    \/ ReadColumns
    \/ \E edited \in SUBSET {row.id : row \in form.rows} : Edit(edited)

GenSpec == GenInit /\ [][GenNext]_genVars

-----------------------------------------------------------------------------
\* The rows are those of imported tables, every imported table has some (it
\* could not be rendered otherwise), and none has two for a column, whatever
\* is imported, deleted, edited and brought up to date in between.
ColumnsConsistent ==
    /\ \A row \in rows : row.table \in Imported
    /\ \A t \in Tables : config[t] # 0 => Of(config[t]) # {}
    /\ \A r1, r2 \in rows : r1.id = r2.id \/ (r1.table = r2.table /\ r1.name = r2.name) => r1 = r2

\* A column keeps its row, and a row its column, as long as both are there
\* (SyncGenTableColumns); its settings change only as the form shown says.  A
\* form that is sent late changes no other column than it showed.
IdentityKept ==
    \A r1 \in rows, r2 \in rows' :
       /\ r1.id = r2.id <=> r1.table = r2.table /\ r1.name = r2.name
       /\ r1.id = r2.id /\ r1.setting # r2.setting =>
              \E r \in form.rows : r.id = r1.id /\ r.name = r1.name

===============================================================================
