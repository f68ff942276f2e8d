--------------------------- MODULE DatabaseAdapter ---------------------------
(***************************************************************************)
(* The database adapter: it replays the migrations of a repository, in the *)
(* order of their paths, to a schema, and classifies the changes between   *)
(* two such schemas.  The statements are also executed by a PostgreSQL     *)
(* server, which may hold tables that no migration of the repository made; *)
(* the server, and the consumers that use it, are external.                *)
(*                                                                         *)
(* Names are of one database namespace and schema.  The files are named so *)
(* that the order of their paths is the order of their deployment, as the  *)
(* README of the adapter asks.                                             *)
(***************************************************************************)
EXTENDS Integers, Functions

CONSTANTS
    Statements,      \* the statements that migrations may hold
    LegacySchemas,   \* what the server may hold before the first migration
    NumericRank,     \* the numeric types, by rank
    TextLength,      \* the bounded text types, by length
    Accepts,         \* type -> the values it holds, for types that are no enum
    NoValue,         \* SQL NULL
    MaxStatements    \* bound on the migrations

\* What a column may be declared as.
Declared(column) ==
    /\ column = [type |-> column.type, null |-> column.null]
    /\ column.null \in {"null", "not null", "unstated"}

\* The statements that the parser recognises.
Recognised(s) ==
    /\ s.kind \in {"create_table", "drop_table", "rename_table", "add_column", "alter_column",
                   "drop_column", "rename_column", "set_column_nullability", "create_enum",
                   "add_enum_value", "rename_enum", "drop_enum"}
    /\ s.kind = "create_table" => \A c \in DOMAIN s.columns : Declared(s.columns[c])
    /\ s.kind = "add_column" => Declared(s.column)
    /\ s.kind = "set_column_nullability" => s.nullable \in {"yes", "no"}

\* An older schema has tables of the built-in types.
IsLegacy(schema) ==
    /\ schema = [tables |-> schema.tables, enums |-> <<>>]
    /\ schema.tables = [t \in DOMAIN schema.tables |-> schema.tables[t]]
    /\ \A t \in DOMAIN schema.tables :
           /\ schema.tables[t] = [c \in DOMAIN schema.tables[t] |-> schema.tables[t][c]]
           /\ \A c \in DOMAIN schema.tables[t] :
                  LET column == schema.tables[t][c]
                  IN  /\ column = [type |-> column.type, nullable |-> column.nullable]
                      /\ column.type \in DOMAIN Accepts /\ column.nullable \in {"yes", "no"}

\* Of the types, that the server takes every value of the narrower one for the wider.
ASSUME DatabaseAssumption ==
    /\ \A s \in Statements : Recognised(s)
    /\ \A schema \in LegacySchemas : IsLegacy(schema)
    /\ DOMAIN NumericRank \cup DOMAIN TextLength \cup {"text"} \subseteq DOMAIN Accepts
    /\ \A a, b \in DOMAIN NumericRank :
           NumericRank[b] >= NumericRank[a] => Accepts[a] \subseteq Accepts[b]
    /\ \A a, b \in DOMAIN TextLength :
           TextLength[b] >= TextLength[a] => Accepts[a] \subseteq Accepts[b]
    /\ \A a \in DOMAIN TextLength : Accepts[a] \subseteq Accepts["text"]

VARIABLES
    replay,          \* the schema the adapter arrives at
    server,          \* the schema of the server
    legacy,          \* tables that the server held at first
    released,        \* replay and server at the base of a pull request
    drift,           \* history: ways in which a statement did less or more than it says
    executed

migrations == <<replay, server, legacy, released, drift, executed>>

Without(f, keys) == Restrict(f, DOMAIN f \ keys)
With(f, key, value) == [x \in DOMAIN f \cup {key} |-> IF x = key THEN value ELSE f[x]]
Rekeyed(f, from, to) == With(Without(f, {from}), to, f[from])
ColumnsOf(schema, table) == {k \in DOMAIN schema.columns : k[1] = table}

-----------------------------------------------------------------------------
(* The statements, as the parser reads them. *)

\* columnShape: without NULL, NOT NULL or PRIMARY KEY the nullability is unknown.
ColumnShape(column) ==
    [type |-> column.type,
     nullable |-> CASE column.null = "not null" -> "no"
                    [] column.null = "null" -> "yes"
                    [] column.null = "unstated" -> "unknown"]

\* parseStatement: IF EXISTS and IF NOT EXISTS are read over, and no operation
\* looks at them.
Operation(statement) ==
    CASE statement.kind = "create_table" ->
             [kind |-> "create_table", target |-> statement.target,
              columns |-> [c \in DOMAIN statement.columns |-> ColumnShape(statement.columns[c])]]
      [] statement.kind = "add_column" ->
             [kind |-> "add_column", target |-> statement.target, name |-> statement.name,
              column |-> ColumnShape(statement.column)]
      [] OTHER -> statement

-----------------------------------------------------------------------------
(* applyOperations. *)

\* migration_base_missing, of an operation whose object no earlier one made.
MissingBase(schema) == [schema EXCEPT !.limitations = @ \cup {"migration_base_missing"}]

CreateTable(schema, op) ==
    LET made == {<<op.target, c>> : c \in DOMAIN op.columns}
        old == schema.columns
    IN  [tables |-> schema.tables \cup {op.target},
         columns |-> [k \in DOMAIN old \cup made |-> IF k \in made THEN op.columns[k[2]] ELSE old[k]],
         enums |-> schema.enums, limitations |-> schema.limitations]

DropTable(schema, op) ==
    [tables |-> schema.tables \ {op.target},
     columns |-> Without(schema.columns, ColumnsOf(schema, op.target)),
     enums |-> schema.enums,
     limitations |-> IF op.target \in schema.tables THEN schema.limitations
                     ELSE MissingBase(schema).limitations]

\* Mutant: the columns stay under the old name.
RenamedAlone(schema, from, to) == schema.columns

\* The columns of a table under its new name.
RenamedColumns(schema, from, to) ==
    LET moved == ColumnsOf(schema, from)
        new == {<<to, k[2]>> : k \in moved}
    IN  [k \in (DOMAIN schema.columns \ moved) \cup new |->
            IF k \in new THEN schema.columns[<<from, k[2]>>] ELSE schema.columns[k]]

RenameTable(schema, op) ==
    IF op.target \notin schema.tables THEN MissingBase(schema)
    ELSE [tables |-> (schema.tables \ {op.target}) \cup {op.to},
          columns |-> RenamedColumns(schema, op.target, op.to),
          enums |-> schema.enums, limitations |-> schema.limitations]

AddColumn(schema, op) ==
    IF op.target \notin schema.tables THEN MissingBase(schema)
    ELSE [schema EXCEPT !.columns = With(@, <<op.target, op.name>>, op.column)]

\* The operations on one column, which must be there.  A new type keeps the
\* nullability.
ChangeColumn(schema, op) ==
    LET key == <<op.target, op.name>>
    IN  IF key \notin DOMAIN schema.columns THEN MissingBase(schema)
        ELSE [schema EXCEPT !.columns =
                CASE op.kind = "alter_column" -> [@ EXCEPT ![key].type = op.type]
                  [] op.kind = "drop_column" -> Without(@, {key})
                  [] op.kind = "rename_column" -> Rekeyed(@, key, <<op.target, op.to>>)
                  [] op.kind = "set_column_nullability" -> [@ EXCEPT ![key].nullable = op.nullable]]

ChangeEnum(schema, op) ==
    IF op.kind = "create_enum" THEN [schema EXCEPT !.enums = With(@, op.target, op.values)]
    ELSE IF op.target \notin DOMAIN schema.enums THEN MissingBase(schema)
    ELSE [schema EXCEPT !.enums =
            CASE op.kind = "add_enum_value" -> With(@, op.target, @[op.target] \cup {op.value})
              [] op.kind = "rename_enum" -> Rekeyed(@, op.target, op.to)
              [] op.kind = "drop_enum" -> Without(@, {op.target})]

ApplyOperation(schema, op) ==
    CASE op.kind = "create_table" -> CreateTable(schema, op)
      [] op.kind = "drop_table" -> DropTable(schema, op)
      [] op.kind = "rename_table" -> RenameTable(schema, op)
      [] op.kind = "add_column" -> AddColumn(schema, op)
      [] op.kind \in {"alter_column", "drop_column", "rename_column", "set_column_nullability"} ->
             ChangeColumn(schema, op)
      [] op.kind \in {"create_enum", "add_enum_value", "rename_enum", "drop_enum"} ->
             ChangeEnum(schema, op)

-----------------------------------------------------------------------------
(* diff. *)

\* The definitions that materialize makes of a schema, by kind and key.
SchemaDefinitions(schema) ==
    [k \in ({"table"} \X schema.tables) \cup ({"column"} \X DOMAIN schema.columns)
           \cup ({"enum"} \X DOMAIN schema.enums) |->
        CASE k[1] = "table" -> "table"
          [] k[1] = "column" -> schema.columns[k[2]]
          [] k[1] = "enum" -> schema.enums[k[2]]]

\* Mutant: a numeric type may also lose a rank.
IsWideningAlways(before, after) ==
    before \in DOMAIN NumericRank /\ after \in DOMAIN NumericRank

IsWideningTypeChange(before, after) ==
    IF before \in DOMAIN NumericRank /\ after \in DOMAIN NumericRank
    THEN NumericRank[after] >= NumericRank[before]
    ELSE \/ after = "text" /\ before \in DOMAIN TextLength
         \/ /\ before \in DOMAIN TextLength /\ after \in DOMAIN TextLength
            /\ TextLength[after] >= TextLength[before]

\* A change of type decides; only then is the nullability looked at.
DatabaseCompatibility(kind, before, after) ==
    CASE kind = "enum" /\ ~(before \subseteq after) -> "breaking"
      [] kind = "enum" /\ before \subseteq after -> "potentially_breaking"
      [] kind = "column" /\ before.type # after.type ->
             IF IsWideningTypeChange(before.type, after.type) THEN "compatible"
             ELSE IF IsWideningTypeChange(after.type, before.type) THEN "breaking"
             ELSE "potentially_breaking"
      [] kind = "column" /\ before.type = after.type ->
             IF after.nullable = "no" THEN "breaking"
             ELSE IF before.nullable = "no" /\ after.nullable = "yes" THEN "compatible"
             ELSE "potentially_breaking"

AdditionCompatibility(kind, value) ==
    IF kind # "column" \/ value.nullable = "yes" THEN "compatible" ELSE "potentially_breaking"

\* changes: the compatibility of every definition that is new, gone or different.
SchemaChanges(base, head) ==
    LET before == SchemaDefinitions(base)
        after == SchemaDefinitions(head)
        complete == base.limitations = {} /\ head.limitations = {}
        same == {k \in DOMAIN before \cap DOMAIN after : before[k] = after[k]}
    IN  [k \in (DOMAIN before \cup DOMAIN after) \ same |->
            IF ~complete THEN "unknown"
            ELSE IF k \notin DOMAIN before THEN AdditionCompatibility(k[1], after[k])
            ELSE IF k \notin DOMAIN after THEN "breaking"
            ELSE DatabaseCompatibility(k[1], before[k], after[k])]

-----------------------------------------------------------------------------
(* The server: tables with their columns, and enum types. *)

Table(schema, s) == IF s.target \in DOMAIN schema.tables THEN schema.tables[s.target] ELSE <<>>
TypeExists(schema, type) == type \in DOMAIN Accepts \cup DOMAIN schema.enums
Uses(schema, type) ==
    {t \in DOMAIN schema.tables : \E c \in DOMAIN schema.tables[t] : schema.tables[t][c].type = type}

\* Whether the object of a statement is as the statement needs it; with IF EXISTS or
\* IF NOT EXISTS the server skips a statement of which it is not.
Applies(schema, s) ==
    CASE s.kind = "create_table" -> s.target \notin DOMAIN schema.tables
      [] s.kind \in {"drop_table", "rename_table"} -> s.target \in DOMAIN schema.tables
      [] s.kind = "add_column" -> s.name \notin DOMAIN Table(schema, s)
      [] s.kind \in {"drop_column", "alter_column", "set_column_nullability", "rename_column"} ->
             s.name \in DOMAIN Table(schema, s)
      [] s.kind = "create_enum" -> s.target \notin DOMAIN schema.enums
      [] s.kind = "add_enum_value" ->
             s.target \in DOMAIN schema.enums /\ s.value \notin schema.enums[s.target]
      [] s.kind \in {"rename_enum", "drop_enum"} -> s.target \in DOMAIN schema.enums

\* What else must hold for the server to execute it.
Allowed(schema, s) ==
    CASE s.kind = "create_table" ->
             \A c \in DOMAIN s.columns : TypeExists(schema, s.columns[c].type)
      [] s.kind = "rename_table" -> s.to \notin DOMAIN schema.tables
      [] s.kind = "add_column" ->
             s.target \in DOMAIN schema.tables /\ TypeExists(schema, s.column.type)
      [] s.kind = "rename_column" -> s.to \notin DOMAIN Table(schema, s)
      [] s.kind = "alter_column" -> TypeExists(schema, s.type)
      [] s.kind = "rename_enum" -> ~TypeExists(schema, s.to)
      [] s.kind = "drop_enum" -> Uses(schema, s.target) = {}
      [] OTHER -> TRUE

ServerColumn(column) ==
    [type |-> column.type, nullable |-> IF column.null = "not null" THEN "no" ELSE "yes"]

\* The columns of a table after a statement about one of them.
MigratedTable(columns, s) ==
    CASE s.kind = "add_column" -> With(columns, s.name, ServerColumn(s.column))
      [] s.kind = "drop_column" -> Without(columns, {s.name})
      [] s.kind = "alter_column" -> [columns EXCEPT ![s.name].type = s.type]
      [] s.kind = "rename_column" -> Rekeyed(columns, s.name, s.to)
      [] s.kind = "set_column_nullability" ->
             [columns EXCEPT ![s.name].nullable = s.nullable]

Retyped(columns, from, to) ==
    [c \in DOMAIN columns |->
        IF columns[c].type = from THEN [columns[c] EXCEPT !.type = to] ELSE columns[c]]

\* The schema after a statement that applies and is allowed.
Migrated(schema, s) ==
    CASE s.kind = "create_table" ->
             [schema EXCEPT !.tables =
                 With(@, s.target, [c \in DOMAIN s.columns |-> ServerColumn(s.columns[c])])]
      [] s.kind = "drop_table" -> [schema EXCEPT !.tables = Without(@, {s.target})]
      [] s.kind = "rename_table" -> [schema EXCEPT !.tables = Rekeyed(@, s.target, s.to)]
      [] s.kind = "create_enum" -> [schema EXCEPT !.enums = With(@, s.target, s.values)]
      [] s.kind = "add_enum_value" ->
             [schema EXCEPT !.enums = With(@, s.target, @[s.target] \cup {s.value})]
      [] s.kind = "drop_enum" -> [schema EXCEPT !.enums = Without(@, {s.target})]
      [] s.kind = "rename_enum" ->
             [enums |-> Rekeyed(schema.enums, s.target, s.to),
              tables |-> [t \in DOMAIN schema.tables |-> Retyped(schema.tables[t], s.target, s.to)]]
      [] OTHER -> [schema EXCEPT !.tables[s.target] = MigratedTable(@, s)]

-----------------------------------------------------------------------------
(* Migrations. *)

MigrationsInit ==
    /\ server \in LegacySchemas /\ legacy = DOMAIN server.tables
    /\ replay = [tables |-> {}, columns |-> <<>>, enums |-> <<>>, limitations |-> {}]
    /\ released = [replay |-> replay, server |-> server]
    /\ drift = {} /\ executed = 0

\* A migration of one statement is deployed, and replayed by the next extraction.
Migrate(s) ==
    /\ executed < MaxStatements /\ executed' = executed + 1
    /\ \/ /\ Applies(server, s) /\ Allowed(server, s)
          /\ server' = Migrated(server, s)
          /\ drift' = drift \cup
                 {x \in {"retyped"} : s.kind = "rename_enum" /\ Uses(server, s.target) # {}}
       \/ /\ ~Applies(server, s) /\ s.conditional
          /\ UNCHANGED server
          /\ drift' = drift \cup {"skipped"}
    /\ replay' = ApplyOperation(replay, Operation(s))
    /\ UNCHANGED <<legacy, released>>

\* The next pull request starts here.
Release ==
    /\ released # [replay |-> replay, server |-> server]
    /\ released' = [replay |-> replay, server |-> server]
    /\ UNCHANGED <<replay, server, legacy, drift, executed>>

MigrationsNext == (\E s \in Statements : Migrate(s)) \/ Release

MigrationsSpec == MigrationsInit /\ [][MigrationsNext]_migrations

-----------------------------------------------------------------------------
(* Properties. *)

\* The columns of a schema of the server, as the replay names them.
ServerColumns(schema) == UNION {{t} \X DOMAIN schema.tables[t] : t \in DOMAIN schema.tables}
At(schema, k) == schema.tables[k[1]][k[2]]

\* applyOperations: a replay without a limitation is the schema of the server, to
\* the type and nullability of every column, except for tables that were there at
\* first; unless the server skipped a conditional statement, which the replay does
\* not know, or renamed the type of a column.
ReplayIsServer ==
    replay.limitations = {} /\ drift = {} =>
        /\ replay.tables = DOMAIN server.tables \ legacy
        /\ DOMAIN replay.columns = {k \in ServerColumns(server) : k[1] \notin legacy}
        /\ \A k \in DOMAIN replay.columns :
               /\ replay.columns[k].type = At(server, k).type
               /\ replay.columns[k].nullable = "no" <=> At(server, k).nullable = "no"
        /\ replay.enums = server.enums

\* What a consumer may write to a column.
Fits(schema, column, value) ==
    /\ column \in ServerColumns(schema)
    /\ LET shape == At(schema, column)
       IN  IF value = NoValue THEN shape.nullable = "yes"
           ELSE value \in IF shape.type \in DOMAIN Accepts THEN Accepts[shape.type]
                          ELSE schema.enums[shape.type]

Values == {NoValue} \cup UNION {Accepts[t] : t \in DOMAIN Accepts}
              \cup UNION {released.server.enums[e] : e \in DOMAIN released.server.enums}

\* The definitions through which the pull request breaks a consumer: a column that
\* took a value and does not any more, and one that an INSERT must now name.
BrokenColumns ==
    {<<"column", k>> : k \in {x \in ServerColumns(released.server) :
        \E v \in Values : Fits(released.server, x, v) /\ ~Fits(server, x, v)}}
    \cup {<<"column", k>> : k \in {x \in ServerColumns(server) \ ServerColumns(released.server) :
        x[1] \in DOMAIN released.server.tables /\ At(server, x).nullable = "no"}}

\* Neither extraction has a limitation, nor has the replay gone its own way.
Compared == drift = {} /\ released.replay.limitations = {} /\ replay.limitations = {}

Reported(key) ==
    LET changes == SchemaChanges(released.replay, replay)
    IN  key \in DOMAIN changes /\ changes[key] # "compatible"

\* A column that is of the same enum as before, and that enum's change.
ReportedEnum(key) ==
    /\ \A schema \in {released.server, server} : key[2] \in ServerColumns(schema)
    /\ At(released.server, key[2]).type = At(server, key[2]).type
    /\ Reported(<<"enum", At(server, key[2]).type>>)

\* A column that got a wider type and became NOT NULL.
Tightened(key) ==
    LET before == released.replay.columns[key[2]]
        after == replay.columns[key[2]]
    IN  /\ \A schema \in {released.replay, replay} : key[2] \in DOMAIN schema.columns
        /\ IsWideningTypeChange(before.type, after.type) /\ before.type # after.type
        /\ before.nullable # "no" /\ after.nullable = "no"

\* databaseCompatibility and additionCompatibility: between two extractions without a
\* limitation, a pull request that takes a value or an INSERT from a consumer has a
\* change of that column, or of the enum it is of, that is not called compatible,
\* except where the column was widened and made NOT NULL at once.
BrokenIsReported ==
    Compared => \A key \in BrokenColumns : Reported(key) \/ ReportedEnum(key) \/ Tightened(key)

\* "Breaking: ... NULL -> NOT NULL without a default; narrowing a type"
\* (features/cross-repo-impact/research/contract-taxonomy.md:290): the same without
\* the exception.
\* Not kept: TLC refutes it (README, section 6).
CompatibleBreaksNothing ==
    Compared => \A key \in BrokenColumns : Reported(key) \/ ReportedEnum(key)
=============================================================================
