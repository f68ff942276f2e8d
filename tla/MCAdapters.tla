----------------------------- MODULE MCAdapters -----------------------------
(***************************************************************************)
(* The adapters for TLC: snapshots and contract observations of a package  *)
(* of two modules over a base generation and two generations derived from  *)
(* it in turn; the configuration snapshots of three commits; or a history  *)
(* of migrations.  A behaviour is of one subject; the others stay unused.  *)
(***************************************************************************)
EXTENDS AdapterSnapshots, ConfigurationAdapter, DatabaseAdapter, TLC

CONSTANT SnapshotHosts   \* the hosts that take snapshots at one time

VARIABLE subject

-----------------------------------------------------------------------------
(* Specification. *)

\* Bounds: an upgrade comes before the first derived generation; a generation
\* completes while the hosts are idle, and is derived from the one before it.
SnapshotBound ==
    /\ Cardinality(partitions') <= 3
    /\ \A h \in Hosts \ SnapshotHosts : host'[h] = IdleHost
    /\ version' # version => Len(generations) = 1
    /\ generations' # generations =>
        /\ \A h \in Hosts : host[h] = IdleHost
        /\ Last(generations').state = "complete"
        /\ Last(generations').base \in {NoGeneration, Len(generations)}

ObservationBound == Len(generations') <= 1

AdaptersInit ==
    /\ subject \in {"snapshots", "observations", "configuration", "migrations"}
    /\ AdapterInit /\ ConfigInit /\ MigrationsInit
    /\ subject # "migrations" => legacy = {}

AdaptersNext ==
    /\ UNCHANGED subject
    /\ \/ /\ subject = "snapshots" /\ SnapshotNext /\ SnapshotBound
          /\ UNCHANGED <<chain, migrations>>
       \/ /\ subject = "observations" /\ ObservationNext /\ ObservationBound
          /\ UNCHANGED <<chain, migrations>>
       \/ subject = "configuration" /\ ConfigNext /\ UNCHANGED <<adapters, migrations>>
       \/ subject = "migrations" /\ MigrationsNext /\ UNCHANGED <<adapters, chain>>

AdaptersSpec == AdaptersInit /\ [][AdaptersNext]_<<subject, adapters, chain, migrations>>

-----------------------------------------------------------------------------
(* The package. *)

MCRole == [index |-> "module", a_ts |-> "module", a_tsx |-> "module",
           pkg |-> "package", cfg |-> "config", note |-> "other"]
MCRank == [a_ts |-> 1, a_tsx |-> 2, index |-> 3, note |-> 4, pkg |-> 5, cfg |-> 6]
MCWithin == [cfg |-> {"index", "a_ts", "a_tsx"}]
MCDirnameLength == [cfg |-> 1]
MCModuleName == [index |-> ".", a_ts |-> "a", a_tsx |-> "a"]
MCCandidates == [a |-> <<"a_ts", "a_tsx">>, b |-> <<"a_tsx">>, top |-> <<"index">>]

Parsed(symbols, reExports, imports) ==
    [class |-> "source", parse |-> "ok", symbols |-> symbols, reExports |-> reExports,
     imports |-> imports, unresolvedExports |-> 0]
Symbol(name, required, impl) ==
    [name |-> name, sig |-> [required |-> required, text |-> "s"], impl |-> impl]
Named(source, name) == [source |-> source, star |-> FALSE, imported |-> name, exported |-> name]
Star(source) == [source |-> source, star |-> TRUE, imported |-> "", exported |-> ""]

Index1 == Parsed(<<>>, <<Named("a", "f")>>, <<[source |-> "a", symbol |-> "f"]>>)
Index2 == Parsed(<<Symbol("g", 1, "i1")>>, <<Star("@lib")>>, <<[source |-> "dep", symbol |-> "x"]>>)
A1 == Parsed(<<Symbol("f", 1, "i1")>>, <<>>, <<>>)
A2 == Parsed(<<Symbol("f", 2, "i2")>>, <<>>, <<[source |-> "top", symbol |-> "g"]>>)
Unparsable == [A1 EXCEPT !.parse = "syntax_error"]
Manifest == [name |-> "p", exports |-> <<>>, dependencies |-> {"dep"}]
Config == [mapping |-> [x \in {"@lib"} |-> <<"b", "a">>]]

\* The base; the module moved to the other extension; the entry point rewritten
\* onto a mapped path; a module that does not parse; a module that shadows another.
Base == [index |-> Index1, a_ts |-> A1, pkg |-> Manifest]
Moved == [index |-> Index1, a_tsx |-> A1, pkg |-> Manifest]
Mapped == [index |-> Index2, a_ts |-> A2, pkg |-> Manifest, cfg |-> Config]
Unparsed == [index |-> Index1, a_ts |-> Unparsable, pkg |-> Manifest, note |-> 0]
Shadowed == [index |-> Index1, a_ts |-> A2, a_tsx |-> A1, pkg |-> Manifest]

MCTrees == <<{Base}, {Moved, Mapped, Unparsed}, {Base, Shadowed}>>
MCOtherExtractions ==
    {{[definitions |-> <<>>, references |-> {}, coverage |-> [state |-> s]]} :
        s \in {"complete", "partial", "unsupported"}}
MCContext == [scoped |-> TRUE, entrypoints |-> <<>>, locked |-> {"dep"}]

-----------------------------------------------------------------------------
(* Configuration: keys and flags in two sources, an environment file and a *)
(* manifest, with a secret, a computed key and files that are not read.    *)

Fact(role, kind, key) == [role |-> role, kind |-> kind, key |-> key]

File(facts) ==
    [class |-> "source", readable |-> TRUE, likely |-> TRUE, throws |-> FALSE,
     facts |-> facts, computed |-> {}]

Declares ==
    File({Fact("definition", "configuration_key", "URL"), Fact("reference", "feature_flag", "new")})

Flags == File({Fact("definition", "feature_flag", "new")})

Secret == File({Fact("reference", "configuration_key", "API_KEY")})

Silent == File({})

\* A file that throws, is generated, is a test, is too large, or computes a key.
Odd == {[Flags EXCEPT !.throws = TRUE], [Flags EXCEPT !.class = "generated"],
        [Flags EXCEPT !.class = "test"], [Flags EXCEPT !.readable = FALSE],
        [Flags EXCEPT !.computed = {"computed_configuration_key"}]}

MCConfigTrees ==
    UNION {[S -> {Declares, Flags, Silent}] : S \in SUBSET {"a.ts", "b.ts"}}
    \cup {[x \in {"a.ts", "env"} |-> Declares], [x \in {"a.ts", "manifest"} |-> Silent],
          ("a.ts" :> Secret) @@ ("b.ts" :> Flags)}
    \cup {"b.ts" :> f : f \in Odd} \cup {("a.ts" :> f) @@ ("b.ts" :> Flags) : f \in Odd}

MCConfigContext == [namespace |-> TRUE, salt |-> TRUE]

-----------------------------------------------------------------------------
(* Migrations: two tables, two columns and an enum, and every statement that *)
(* the parser recognises of them, over an empty or an older schema.          *)

Column(type, null) == [type |-> type, null |-> null]

On(kind, conditional, table) == [kind |-> kind, conditional |-> conditional, target |-> table]

MCStatements ==
    {On("create_table", conditional, "t") @@ [columns |-> columns] :
        conditional \in BOOLEAN,
        columns \in {("a" :> Column("integer", "null")),
                     ("a" :> Column("varchar8", "unstated")) @@ ("b" :> Column("mood", "not null"))}}
    \cup {On("drop_table", TRUE, t) : t \in {"t", "u"}}
    \cup {On("rename_table", FALSE, x[1]) @@ [to |-> x[2]] : x \in {<<"t", "u">>, <<"u", "t">>}}
    \cup {On("add_column", conditional, "t") @@ [name |-> "b", column |-> Column("bigint", n)] :
            conditional \in BOOLEAN, n \in {"null", "not null", "unstated"}}
    \cup {On("alter_column", FALSE, "t") @@ [name |-> "a", type |-> y] :
            y \in {"smallint", "bigint", "text", "mood"}}
    \cup {On("drop_column", FALSE, t) @@ [name |-> "a"] : t \in {"t", "u"}}
    \cup {On("rename_column", FALSE, "t") @@ [name |-> "a", to |-> "b"]}
    \cup {On("set_column_nullability", FALSE, "t") @@ [name |-> "a", nullable |-> n] :
            n \in {"yes", "no"}}
    \cup {On("create_enum", FALSE, "mood") @@ [values |-> v] : v \in {{"ok"}, {"ok", "sad"}}}
    \cup {On("add_enum_value", FALSE, "mood") @@ [value |-> "sad"],
          On("rename_enum", FALSE, "mood") @@ [to |-> "state"], On("drop_enum", FALSE, "mood")}

EmptySchema == [tables |-> <<>>, enums |-> <<>>]

MCLegacySchemas ==
    {EmptySchema,
     [EmptySchema EXCEPT !.tables = ("u" :> ("a" :> [type |-> "integer", nullable |-> "yes"]))]}

MCNumericRank == [smallint |-> 1, integer |-> 2, bigint |-> 3]

MCTextLength == [varchar8 |-> 8, varchar9 |-> 9]

MCAccepts ==
    [smallint |-> {"1"}, integer |-> {"1", "2"}, bigint |-> {"1", "2", "3"},
     varchar8 |-> {"s"}, varchar9 |-> {"s", "l"}, text |-> {"s", "l", "xl"}]

-----------------------------------------------------------------------------
(* The property of the TypeScript snapshots, the only ones that take part in a *)
(* chain of generations; the other properties are those of their modules.      *)

\* "Incremental and clean rebuilds are semantically identical": a TypeScript snapshot
\* that is updated over several generations holds what a clean build holds, of every
\* file that could be read; and a complete diff of two of them misses nothing that
\* clean builds of both commits tell apart, and calls every loss breaking.
TypeScriptUpdatesAreExact == subject = "snapshots" => TypeScriptIsClean /\ DiffIsWhole
=============================================================================
