------------------------------ MODULE Catalog ------------------------------
(***************************************************************************)
(* The catalogue operations of the five adapters: listTables(),            *)
(* listTableColumns(), getTableKeys(), getTableCreateScript() and the      *)
(* others, asked of a database that its users define and drop tables in.   *)
(*                                                                         *)
(* An operation is a query of the engine's catalogue, modelled as the      *)
(* relational expression it is: joins are products with a condition, and   *)
(* every row says in `from` what it was joined from, so that rows that     *)
(* look the same are still two.  All operations but one consist of one     *)
(* statement and see one state of the database; PostgreSQL's               *)
(* getTableCreateScript() puts its answer together from three.             *)
(***************************************************************************)
EXTENDS Filters, Integers, Sequences, FiniteSets

CONSTANTS
    Objects,        \* tables, views and routines the database may hold
    Candidates,     \* constraints its tables may get
    Schemas,        \* of PostgreSQL and SQL Server; the databases of MySQL,
                    \* the keyspaces of Cassandra
    Default,        \* the one of the session
    Databases,      \* what listDatabases() lists
    Questions       \* the calls: operation, name, schema, filter, type

Lists      == {"listDatabases", "listSchemas", "listTables", "listViews", "listRoutines"}
Operations == Lists \cup
    {"listTableColumns", "listTableTriggers", "listTableIndexes", "getTableReferences",
     "getTableKeys", "getTableCreateScript", "getViewCreateScript", "getRoutineCreateScript"}

ASSUME CatalogAssumption ==
    /\ Default \in Schemas /\ None \notin Schemas
    /\ \A q \in Questions : /\ q.op \in Operations
                            /\ q.schema \in Schemas \cup {None}
                            /\ OneForm(q.filter)

\* What the engines see to: the parts of an object have different names, no trigger is
\* without event and no index without column, and so on.  Views have different names in
\* their schema, and routines that share one have different parameters, the tag.
DifferentNames(S) == \A x, y \in S : x.name = y.name => x = y
IsKey(c)          == c.role \in {"partition_key", "clustering_key"}

ASSUME ObjectsAssumption ==
    /\ \A o \in Objects :
         /\ o.schema \in Schemas /\ o.kind \in {"table", "view", "routine"}
         /\ DifferentNames(o.columns) /\ DifferentNames(o.triggers) /\ DifferentNames(o.indexes)
         /\ \A t \in o.triggers : IsFiniteSet(t.events) /\ t.events # {}
         /\ \A i \in o.indexes : IsFiniteSet(i.columns) /\ i.columns # {}
         /\ \A c \in o.columns :
              /\ IsKey(c) \/ c.role \in {"compact_value", "regular"}
              /\ c.position \in Int /\ IF IsKey(c) THEN c.position >= 0 ELSE c.position = -1
    /\ \A o, p \in Objects :
         /\ o.kind = p.kind /\ o.kind # "table" /\ o.schema = p.schema /\ o.name = p.name
         /\ o.kind = "routine" => o.tag = p.tag
         => o = p

ASSUME CandidatesAssumption ==
    \A c \in Candidates : c # None /\ IsFiniteSet(c.columns) /\ c.columns # {}

VARIABLES
    adapter,
    legacy,         \* PostgreSQL before 8.4, Cassandra 2
    given,          \* the Database was given a name
    objects,        \* what the database holds
    constraints,
    call,           \* the question under way
    stage,          \* which statement of it comes next
    columns,        \* what PostgreSQL's second statement returned
    answer,
    changed         \* the database has changed since the question was asked

vars == <<adapter, legacy, given, objects, constraints, call, stage, columns, answer, changed>>

Adapters == {"postgresql", "mysql", "sqlserver", "sqlite", "cassandra"}

Rows(S) == [status |-> "rows", rows |-> S]
Failed  == [status |-> "rejected", rows |-> {}]
Never   == [status |-> "never", rows |-> {}]
Nothing == [status |-> "none", rows |-> {}]

-----------------------------------------------------------------------------
(* What the catalogue holds.                                               *)

Kind(k)      == {o \in objects : o.kind = k}
Relations    == Kind("table") \cup Kind("view")
In(S, s, n)  == {o \in S : o.schema = s /\ o.name = n}
Named(S, n)  == {o \in S : o.name = n}

\* database() of MySQL, and the keyspace Cassandra is asked about: null without a name.
Session == IF given THEN Default ELSE None

\* OBJECT_ID(), sp_helpindex, sp_helptrigger and ::regclass look in the session's schema.
ObjectId(S, n) == In(S, Default, n)

Of(s, n)   == {c \in constraints : c.schema = s /\ c.table = n}
Keys(S)    == {c \in S : c.type \in {"PRIMARY KEY", "FOREIGN KEY"}}
Foreign(S) == {c \in S : c.type = "FOREIGN KEY"}
Primary(S) == {c \in S : c.type = "PRIMARY KEY"}

\* information_schema.key_column_usage: the columns of the keys.
KeyColumnUsage == UNION {{[key |-> c, column |-> x] : x \in c.columns} : c \in constraints}

\* information_schema.constraint_table_usage: the table a key refers to, or its own.
Used(c) == c.target.name

-----------------------------------------------------------------------------
(* The constraints of a table.                                             *)

\* The MySQL adapter appends ' KEY' to the names, which suits PRIMARY only.
Reported(name) == IF adapter = "mysql" THEN <<name, "KEY">> ELSE <<name>>

KeyRow(c, column, used) ==
    [constraint |-> Reported(c.name), column |-> column, type |-> c.type,
     referenced |-> IF c.type = "FOREIGN KEY" THEN Used(used) ELSE None]

SameName(c, d) == c.schema = d.schema /\ c.name = d.name

\* USING (constraint_schema, constraint_name); the mutant joins by the name alone.
UsingName(c, d)   == c.name = d.name
UsingSchema(c, d) == SameName(c, d)

PostgresKeys(s, n) ==
    {[row |-> KeyRow(j[1], j[2].column, j[3]), from |-> j] :
        j \in {j \in Keys(Of(s, n)) \X KeyColumnUsage \X constraints :
                 UsingSchema(j[1], j[2].key) /\ UsingSchema(j[1], j[3])}}

MysqlKeys(n) ==
    {[row |-> KeyRow(u.key, u.column, u.key), from |-> u] :
        u \in {u \in KeyColumnUsage : u.key \in Keys(Of(Session, n))}}

\* sys.foreign_keys is joined by its table only, an inner join.
SqlServerKeys(n) ==
    {[row |-> KeyRow(j[1], j[2].column, j[3]), from |-> j] :
        j \in {j \in Keys(UNION {Of(s, n) : s \in Schemas}) \X KeyColumnUsage
                       \X Foreign(Of(Default, n)) : j[1].name = j[2].key.name}}

CassandraKeys(n) ==
    {[row |-> [constraint |-> None, column |-> c.name, type |-> "PRIMARY KEY", referenced |-> None],
      from |-> c] :
        c \in {c \in UNION {o.columns : o \in In(Kind("table"), Default, n)} : c.role = "partition_key"}}

\* Cassandra: without a keyspace the promise is forgotten, without a table the driver's
\* callback throws.
GetTableKeys(q, s) ==
    CASE adapter = "postgresql" -> Rows(PostgresKeys(s, q.name))
      [] adapter = "mysql"      -> Rows(MysqlKeys(q.name))
      [] adapter = "sqlserver"  -> Rows(SqlServerKeys(q.name))
      [] adapter = "cassandra"  -> IF ~given \/ In(Kind("table"), Default, q.name) = {} THEN Never
                                   ELSE Rows(CassandraKeys(q.name))

\* PostgreSQL joins by the name of the constraint only, over all schemas.
PostgresReferences(s, n) ==
    {[row |-> Used(j[2]), from |-> j] :
        j \in {j \in Foreign(Of(s, n)) \X constraints : j[1].name = j[2].name}}

GetTableReferences(q, s) ==
    CASE adapter = "postgresql" -> Rows(PostgresReferences(s, q.name))
      [] adapter = "mysql" ->
           Rows({[row |-> Used(u.key), from |-> u] :
                   u \in {u \in KeyColumnUsage : u.key \in Foreign(Of(Session, q.name))}})
      [] adapter = "sqlserver" ->
           Rows({[row |-> Used(c), from |-> c] : c \in Foreign(Of(Default, q.name))})

-----------------------------------------------------------------------------
(* Lists.                                                                  *)

Filtered(q, S) == {x \in S : Where(BuildFilter(q.filter), x)}

\* SQL Server's text has no WHERE for the condition to follow.
ListDatabases(q) ==
    CASE adapter = "postgresql" -> Rows({[row |-> d, from |-> d] : d \in Filtered(q, Databases)})
      [] adapter = "sqlserver"  -> IF BuildFilter(q.filter) # {} THEN Failed
                                   ELSE Rows({[row |-> d, from |-> d] : d \in Databases})
      [] adapter = "mysql"      -> Rows({[row |-> d, from |-> d] :
                                           d \in {d \in Databases : FilterDatabase(q.filter, d)}})
      [] adapter = "sqlite"     -> Rows({[row |-> Default, from |-> Default]})
      [] adapter = "cassandra"  -> Rows({[row |-> d, from |-> d] : d \in Databases})

ListSchemas(q) == Rows({[row |-> s, from |-> s] : s \in Filtered(q, Schemas)})

\* The adapters that know schemas filter them, the others stay in their own.
ListObjects(q, kind) ==
    CASE adapter \in {"postgresql", "sqlserver"} ->
           Rows({[row |-> [schema |-> o.schema, name |-> o.name], from |-> o] :
                   o \in {o \in Kind(kind) : o.schema \in Filtered(q, Schemas)}})
      [] adapter = "cassandra" /\ ~given -> Failed
      [] OTHER ->
           Rows({[row |-> [schema |-> None, name |-> o.name], from |-> o] :
                   o \in {o \in Kind(kind) : o.schema = Session}})

\* GROUP BY schema and name: overloads are one routine.
ListRoutines(q) ==
    LET list == ListObjects(q, "routine")
    IN  IF adapter = "mysql" THEN list
        ELSE Rows({[row |-> r.row, from |-> r.row] : r \in list.rows})

-----------------------------------------------------------------------------
(* What belongs to a table.                                                *)

\* The objects that a condition on table_schema and table_name finds; the mutant takes
\* the session's schema for the one that is given.
SubjectOfSession(q, s, S) == In(S, IF s = None THEN None ELSE Session, q.name)
Subject(q, s, S) ==
    CASE adapter = "postgresql" -> In(S, s, q.name)
      [] adapter = "sqlserver"  -> Named(S, q.name)
      [] OTHER                  -> In(S, Session, q.name)

\* The key a row is sorted by: the position, or, in Cassandra, what the adapter's
\* comparison makes of it.  Cassandra 2 has kinds of columns, in alphabetical order.
Alphabetical == [clustering_key |-> 1, compact_value |-> 2, partition_key |-> 3, regular |-> 4]
Rank(c) ==
    CASE adapter # "cassandra" -> c.ordinal
      [] adapter = "cassandra" /\ legacy -> Alphabetical[c.role]
      [] OTHER -> -c.position

ListTableColumns(q, s) ==
    IF adapter = "cassandra" /\ ~given THEN Failed
    ELSE Rows(UNION {{[row |-> c.name, from |-> <<o, c>>] : c \in o.columns} :
                       o \in Subject(q, s, Relations)})

\* A PostgreSQL trigger has a row for each of its events, a MySQL trigger one event.
TriggerRows(o) ==
    IF adapter = "postgresql"
    THEN UNION {{[row |-> t.name, from |-> <<o, t, e>>] : e \in t.events} : t \in o.triggers}
    ELSE {[row |-> t.name, from |-> <<o, t>>] : t \in o.triggers}

\* SHOW INDEX has a row for each column of an index.
IndexRows(o) ==
    IF adapter = "mysql"
    THEN UNION {{[row |-> i.name, from |-> <<o, i, c>>] : c \in i.columns} : i \in o.indexes}
    ELSE {[row |-> i.name, from |-> <<o, i>>] : i \in o.indexes}

\* The procedures of SQL Server fail without their table; sp_helpindex sends no record
\* set for a table without indexes, and `data.map` throws.
ListTableTriggers(q, s) ==
    LET found == IF adapter = "sqlserver" THEN ObjectId(Relations, q.name)
                 ELSE Subject(q, s, Relations)
    IN  IF adapter = "sqlserver" /\ found = {} THEN Failed
        ELSE Rows(UNION {TriggerRows(o) : o \in found})

ListTableIndexes(q, s) ==
    LET found == IF adapter = "sqlserver" THEN ObjectId(Relations, q.name)
                 ELSE Subject(q, s, Relations)
        list  == UNION {IndexRows(o) : o \in found}
    IN  IF \/ adapter = "mysql" /\ found = {}
           \/ adapter = "sqlserver" /\ list = {}
        THEN Failed ELSE Rows(list)

-----------------------------------------------------------------------------
(* Scripts.                                                                *)

\* Names of columns.
ColumnNames(S) == UNION {{c.name : c \in o.columns} : o \in S}

Script(s, o, key) == [head |-> <<s, o.name>>, columns |-> ColumnNames({o}), key |-> key]

KeyOf(o) == UNION {c.columns : c \in Primary(Of(o.schema, o.name))}

\* SQL Server goes by the name of the table and by the name of its constraint.
SqlServerScripts(n) ==
    LET tables   == Named(Kind("table"), n)
        primary  == Primary(UNION {Of(s, n) : s \in Schemas})
        Key(c)   == IF c = None THEN {}
                    ELSE {u.column : u \in {u \in KeyColumnUsage : u.key.name = c.name}}
    IN  {[row |-> [head |-> <<None, n>>, columns |-> ColumnNames(Named(Relations, n)),
                   key |-> Key(j[2])],
          from |-> j] : j \in tables \X (IF primary = {} THEN {None} ELSE primary)}

\* MySQL and SQLite keep the text, or an equivalent.  MySQL's answer for a view has no
\* column 'Create Table', SQLite does not look at the type.
GetTableCreateScript(q) ==
    CASE adapter = "sqlserver" -> Rows(SqlServerScripts(q.name))
      [] adapter = "mysql" ->
           IF In(Kind("table"), Session, q.name) = {} THEN Failed
           ELSE Rows({[row |-> Script(None, o, KeyOf(o)), from |-> o] :
                        o \in In(Kind("table"), Session, q.name)})
      [] adapter = "sqlite" ->
           Rows({[row |-> Script(None, o, KeyOf(o)), from |-> o] :
                   o \in In(Relations, Default, q.name)})

\* The view that the question finds: PostgreSQL's ::regclass finds tables too, and
\* SQLite does not look at the type.
ViewFound(q) ==
    CASE adapter = "postgresql" -> ObjectId(Relations, q.name)
      [] adapter = "sqlserver"  -> ObjectId(Kind("view"), q.name)
      [] adapter = "mysql"      -> In(Kind("view"), Session, q.name)
      [] OTHER                  -> In(Relations, Default, q.name)

\* PostgreSQL prints the schema it is given over the definition it has found, or over
\* null.
GetViewCreateScript(q, s) ==
    IF ViewFound(q) = {} /\ adapter # "sqlite" THEN Failed
    ELSE Rows({[row |-> [head |-> IF adapter = "postgresql" THEN s ELSE o.schema,
                         body |-> IF adapter = "postgresql" /\ o.kind # "view" THEN None ELSE o],
                from |-> o] : o \in ViewFound(q)})

\* Before 8.4 only functions on the search path are visible.  MySQL's answer has a
\* column 'Create Function', looked up with the type as the caller spells it.
GetRoutineCreateScript(q, s) ==
    LET routines == {o \in Subject(q, s, Kind("routine")) :
                       adapter = "postgresql" /\ legacy => o.schema = Default}
    IN  IF adapter = "mysql" /\ (routines = {} \/ q.type = "FUNCTION") THEN Failed
        ELSE Rows({[row |-> o, from |-> o] : o \in routines})

-----------------------------------------------------------------------------
(* Asking.                                                                 *)

\* Methods inherited from AbstractAdapter, whose answer is [].
Inherited ==
    CASE adapter = "mysql"     -> {"listSchemas"}
      [] adapter = "sqlite"    -> {"listSchemas", "listRoutines", "getTableReferences",
                                   "getTableKeys", "getRoutineCreateScript"}
      [] adapter = "cassandra" -> {"listSchemas", "listViews", "listRoutines",
                                   "listTableTriggers", "listTableIndexes", "getTableReferences",
                                   "getTableCreateScript", "getViewCreateScript",
                                   "getRoutineCreateScript"}
      [] OTHER                 -> {}

\* `schema = this.defaultSchema`, read by connect().
SchemaOr(q) == IF q.schema = None THEN Default ELSE q.schema

Reply(q) ==
    IF q.op \in Inherited THEN Rows({}) ELSE
    CASE q.op = "listDatabases"          -> ListDatabases(q)
      [] q.op = "listSchemas"            -> ListSchemas(q)
      [] q.op = "listTables"             -> ListObjects(q, "table")
      [] q.op = "listViews"              -> ListObjects(q, "view")
      [] q.op = "listRoutines"           -> ListRoutines(q)
      [] q.op = "listTableColumns"       -> ListTableColumns(q, SchemaOr(q))
      [] q.op = "listTableTriggers"      -> ListTableTriggers(q, SchemaOr(q))
      [] q.op = "listTableIndexes"       -> ListTableIndexes(q, SchemaOr(q))
      [] q.op = "getTableReferences"     -> GetTableReferences(q, SchemaOr(q))
      [] q.op = "getTableKeys"           -> GetTableKeys(q, SchemaOr(q))
      [] q.op = "getTableCreateScript"   -> GetTableCreateScript(q)
      [] q.op = "getViewCreateScript"    -> GetViewCreateScript(q, SchemaOr(q))
      [] q.op = "getRoutineCreateScript" -> GetRoutineCreateScript(q, SchemaOr(q))

\* PostgreSQL's getTableCreateScript() goes on with two more statements if the first
\* one has a row: it joins all relations of the name with the schema.  The mutant looks
\* for the table on the search path.
Composed(q) == adapter = "postgresql" /\ q.op = "getTableCreateScript"
HeaderOnPath(q) == ObjectId(Relations, q.name) # {}
HasHeader(q) == Named(Relations, q.name) # {}

Answered == stage = "answered"

\* The mutant has no answer for a table that the first statement does not find.
AskSilently(q) ==
    /\ stage = "idle" /\ Composed(q)
    /\ call' = q
    /\ changed' = FALSE
    /\ stage' = IF HasHeader(q) THEN "columns" ELSE "answered"
    /\ UNCHANGED <<adapter, legacy, given, objects, constraints, columns, answer>>
AskComposed(q) ==
    /\ stage = "idle" /\ Composed(q)
    /\ call' = q
    /\ changed' = FALSE
    /\ IF HasHeader(q) THEN stage' = "columns" /\ UNCHANGED answer
       ELSE stage' = "answered" /\ answer' = Failed
    /\ UNCHANGED <<adapter, legacy, given, objects, constraints, columns>>

Ask(q) ==
    /\ stage = "idle" /\ ~Composed(q)
    /\ call' = q
    /\ changed' = FALSE
    /\ stage' = "answered"
    /\ answer' = Reply(q)
    /\ UNCHANGED <<adapter, legacy, given, objects, constraints, columns>>

\* The second statement; its mutant reads the columns of every table of the name.
ReadColumnsOfName ==
    /\ stage = "columns"
    /\ columns' = ColumnNames(Named(Relations, call.name))
    /\ stage' = "key"
    /\ UNCHANGED <<adapter, legacy, given, objects, constraints, call, answer, changed>>
ReadColumns ==
    /\ stage = "columns"
    /\ columns' = ColumnNames(In(Relations, SchemaOr(call), call.name))
    /\ stage' = "key"
    /\ UNCHANGED <<adapter, legacy, given, objects, constraints, call, answer, changed>>

\* The third statement has a row for each column of the primary key, the script takes
\* the first.  Without a primary key there is none, and reading it throws.
ReadKey ==
    /\ stage = "key"
    /\ LET s   == SchemaOr(call)
           key == UNION {c.columns : c \in Primary(Of(s, call.name))}
       IN  \/ key = {} /\ answer' = Failed
           \/ \E x \in key :
                answer' = Rows({[row |-> [head |-> <<s, call.name>>, columns |-> columns, key |-> {x}],
                                 from |-> x]})
    /\ stage' = "answered"
    /\ columns' = {}
    /\ UNCHANGED <<adapter, legacy, given, objects, constraints, call, changed>>

\* The caller takes the answer, or gives up waiting for it.
Take ==
    /\ Answered
    /\ stage' = "idle" /\ call' = None /\ answer' = Nothing /\ changed' = FALSE
    /\ UNCHANGED <<adapter, legacy, given, objects, constraints, columns>>

-----------------------------------------------------------------------------
(* The users of the database, between two statements of ours.              *)

\* Which constraints of one schema need different names.
MayShareName(c, d) ==
    CASE adapter = "postgresql" -> c.table # d.table /\ ~({c.type, d.type} = {"PRIMARY KEY"})
      [] adapter = "mysql"      -> c.table # d.table /\ "PRIMARY KEY" \in {c.type, d.type}
      [] OTHER                  -> FALSE

\* (An answer is taken before they go on.)
CreateTable(o) ==
    /\ ~Answered /\ o.kind = "table" /\ In(objects, o.schema, o.name) = {}
    /\ adapter = "sqlite" => o.schema = Default
    /\ objects' = objects \cup {o}
    /\ changed' = (stage # "idle")
    /\ UNCHANGED <<adapter, legacy, given, constraints, call, stage, columns, answer>>

DropTable(o) ==
    /\ ~Answered /\ o \in Kind("table")
    /\ objects' = objects \ {o}
    /\ constraints' = {c \in constraints : /\ <<c.schema, c.table>> # <<o.schema, o.name>>
                                           /\ c.target # [schema |-> o.schema, name |-> o.name]}
    /\ changed' = (stage # "idle")
    /\ UNCHANGED <<adapter, legacy, given, call, stage, columns, answer>>

AddConstraint(c) ==
    /\ ~Answered /\ adapter # "cassandra" /\ c \notin constraints
    /\ \E o \in In(Kind("table"), c.schema, c.table) : c.columns \subseteq ColumnNames({o})
    /\ In(Kind("table"), c.target.schema, c.target.name) # {}
    /\ c.type = "PRIMARY KEY" => Primary(Of(c.schema, c.table)) = {}
    /\ \A d \in constraints : SameName(c, d) => MayShareName(c, d)
    /\ constraints' = constraints \cup {c}
    /\ changed' = (stage # "idle")
    /\ UNCHANGED <<adapter, legacy, given, objects, call, stage, columns, answer>>

-----------------------------------------------------------------------------
Init ==
    /\ adapter \in Adapters
    /\ legacy \in BOOLEAN /\ (legacy => adapter \in {"postgresql", "cassandra"})
    /\ given \in BOOLEAN /\ (~given => adapter \in {"mysql", "cassandra"})
    /\ objects = {o \in Objects : /\ o.kind # "table"
                                  /\ adapter = "sqlite" => o.kind = "view" /\ o.schema = Default
                                  /\ adapter \in {"mysql", "sqlserver"} => o.tag = 1
                                  /\ adapter # "cassandra"}
    /\ constraints = {}
    /\ call = None /\ stage = "idle" /\ columns = {} /\ answer = Nothing /\ changed = FALSE

Next ==
    \/ \E q \in Questions : Ask(q) \/ AskComposed(q)
    \/ ReadColumns \/ ReadKey \/ Take
    \/ \E o \in Objects : CreateTable(o) \/ DropTable(o)
    \/ \E c \in Candidates : AddConstraint(c)

Spec == Init /\ [][Next]_vars

-----------------------------------------------------------------------------
(* Properties.                                                             *)

Asks(ops)   == Answered /\ call.op \in ops /\ call.op \notin Inherited
Returns(ops) == Asks(ops) /\ answer.status = "rows"

\* The rows are the expected ones, and none comes twice.
Exactly(S, expected) ==
    /\ {r.row : r \in S} = expected
    /\ \A r1, r2 \in S : r1.row = r2.row => r1 = r2

\* A schema that the adapter can ask about, of a session that has one.
Understood(q) == (adapter = "postgresql" \/ SchemaOr(q) = Default) /\ given

\* What the question is about, and SQL Server's other schemas with that name.
Meant(q, S)  == In(S, SchemaOr(q), q.name)
Elsewhere(q, S) == adapter = "sqlserver" /\ Named(S, q.name) # Meant(q, S)

\* The keys of the table asked about.
ExpectedKeys(q) ==
    IF adapter = "cassandra"
    THEN {[constraint |-> None, column |-> c.name, type |-> "PRIMARY KEY", referenced |-> None] :
            c \in {c \in UNION {o.columns : o \in Meant(q, Relations)} :
                     IsKey(c)}}
    ELSE UNION {{KeyRow(c, x, c) : x \in c.columns} : c \in Keys(Of(SchemaOr(q), q.name))}

\* Where the keys are not told apart: PostgreSQL joins all constraints of a name in one
\* schema, SQL Server those of a name in any schema and every foreign key of the table
\* with every key; Cassandra's clustering columns are left out.
KeysBlurred(q) ==
    LET own == Keys(Of(SchemaOr(q), q.name))
    IN  CASE adapter = "postgresql" -> \E c \in own : \E d \in constraints \ {c} : SameName(c, d)
          [] adapter = "sqlserver"  -> \/ Elsewhere(q, Kind("table")) \/ Cardinality(Foreign(own)) # 1
                                       \/ \E c \in own : \E d \in constraints \ {c} : c.name = d.name
          [] adapter = "cassandra"  -> \E o \in Meant(q, Relations) : \E c \in o.columns :
                                          c.role = "clustering_key"
          [] OTHER                  -> FALSE

TableKeysAreExact ==
    Returns({"getTableKeys"}) /\ Understood(call) /\ ~KeysBlurred(call)
        => Exactly(answer.rows, ExpectedKeys(call))

\* Foreign keys that are listed twice: by MySQL when they have several columns, by
\* PostgreSQL when their name comes again, in any schema.
ReferencesBlurred(q) ==
    \E c \in Foreign(Of(SchemaOr(q), q.name)) :
        \/ adapter = "mysql" /\ Cardinality(c.columns) > 1
        \/ adapter = "postgresql" /\ \E d \in constraints \ {c} : c.name = d.name

ReferencesAreExact ==
    Returns({"getTableReferences"}) /\ Understood(call) /\ ~ReferencesBlurred(call) =>
        LET own == Foreign(Of(SchemaOr(call), call.name))
        IN  /\ {r.row : r \in answer.rows} = {Used(c) : c \in own}
            /\ Cardinality(answer.rows) = Cardinality(own)

\* getTableKeys() returns every column of every primary and foreign key of the table
\* once, with the table it refers to, and getTableReferences() the referenced table once
\* for each foreign key, whatever constraints other tables and schemas have
\* (postgresql.ts 273-321, mysql.ts 343-384, sqlserver.ts 252-297, cassandra.ts 186).
\* KeysBlurred and ReferencesBlurred say where the joins are too weak for that.
ConstraintsAreExact == TableKeysAreExact /\ ReferencesAreExact

\* The lists of the adapters that filter, in SQL or in JavaScript, contain exactly what
\* the filter admits, each name once; the lists of tables, views and routines of the
\* others contain what is in the session's schema (filters.ts, mysql.ts 569).
CanFilter(q) == adapter \in (IF q.op = "listDatabases" THEN {"postgresql", "mysql", "sqlserver"}
                           ELSE {"postgresql", "sqlserver"})
KindOf(op) == CASE op \in {"listTables", "getTableCreateScript"} -> "table"
                [] op \in {"listViews", "getViewCreateScript"} -> "view"
                [] OTHER -> "routine"
ExpectedList(q) ==
    CASE q.op = "listDatabases" -> {d \in Databases : CanFilter(q) => Admits(q.filter, d)}
      [] q.op = "listSchemas"   -> {s \in Schemas : Admits(q.filter, s)}
      [] OTHER -> IF CanFilter(q)
                  THEN {[schema |-> o.schema, name |-> o.name] :
                          o \in {o \in Kind(KindOf(q.op)) : Admits(q.filter, o.schema)}}
                  ELSE {[schema |-> None, name |-> o.name] :
                          o \in {o \in Kind(KindOf(q.op)) : given /\ o.schema = Default}}
ListsAreExact ==
    Returns(Lists) /\ ~(adapter = "sqlite" /\ call.op = "listDatabases")
        => Exactly(answer.rows, ExpectedList(call))

\* What is known of the object asked about.
ExpectedParts(q) ==
    CASE q.op = "listTableColumns"       -> UNION {{c.name : c \in o.columns} : o \in Meant(q, Relations)}
      [] q.op = "listTableTriggers"      -> UNION {{t.name : t \in o.triggers} : o \in Meant(q, Relations)}
      [] q.op = "listTableIndexes"       -> UNION {{i.name : i \in o.indexes} : o \in Meant(q, Relations)}
      [] q.op = "getViewCreateScript"    -> {[head |-> o.schema, body |-> o] : o \in Meant(q, Relations)}
      [] q.op = "getRoutineCreateScript" -> Meant(q, Kind("routine"))

\* Where an answer may be about something else, leave something out or repeat itself.
PartsBlurred(q) ==
    CASE q.op = "listTableColumns"  -> Elsewhere(q, Relations)
      [] q.op = "listTableTriggers" -> /\ adapter = "postgresql"
                                       /\ \E o \in Meant(q, Relations) : \E t \in o.triggers :
                                            Cardinality(t.events) > 1
      [] q.op = "listTableIndexes"  -> /\ adapter = "mysql"
                                       /\ \E o \in Meant(q, Relations) : \E i \in o.indexes :
                                            Cardinality(i.columns) > 1
      [] q.op = "getViewCreateScript" -> \/ adapter = "postgresql" /\ SchemaOr(q) # Default
                                         \/ adapter = "postgresql" /\ Meant(q, Kind("view")) = {}
      [] q.op = "getRoutineCreateScript" -> \/ Elsewhere(q, Kind("routine"))
                                            \/ adapter = "postgresql" /\ legacy /\ SchemaOr(q) # Default

PartsMatch ==
    /\ Returns({"listTableColumns", "listTableTriggers", "listTableIndexes", "getViewCreateScript",
                "getRoutineCreateScript"})
    /\ Understood(call) /\ ~PartsBlurred(call)
    => Exactly(answer.rows, ExpectedParts(call))

\* Cassandra 2 puts the value column of a compact table first.
KeysComeFirst ==
    Returns({"listTableColumns"}) /\ adapter = "cassandra" =>
        \A r1, r2 \in answer.rows :
            /\ IsKey(r1.from[2]) /\ ~IsKey(r2.from[2])
            /\ ~(legacy /\ r2.from[2].role = "compact_value")
            => Rank(r1.from[2]) < Rank(r2.from[2])

\* Columns, triggers, indexes and the definition of a view or routine are those of the
\* object that was asked about and of no other of the same name, and none comes twice
\* (postgresql.ts 201-257, mysql.ts 289-331, sqlserver.ts 213-250, sqlite.ts 148-178);
\* Cassandra's key columns come first, as the comment of cassandra.ts 165 says.
\* PartsBlurred says where this fails.
PartsAreItsOwn == PartsMatch /\ KeysComeFirst

\* The script of a table that nobody changes while it is put together creates the table
\* with all of its columns and its whole primary key, and it is the only one; except
\* that PostgreSQL's has one column of a key, and SQL Server's is of all tables of the
\* name, with the columns of all constraints that have the name of the primary key
\* (postgresql.ts 329, mysql.ts 386, sqlserver.ts 303, sqlite.ts 188).
ScriptBlurred(q) ==
    \/ Elsewhere(q, Relations)
    \/ adapter = "sqlserver" /\ \E c \in Primary(Of(SchemaOr(q), q.name)) :
                                  \E d \in constraints \ {c} : c.name = d.name

ScriptIsWhole ==
    Returns({"getTableCreateScript"}) /\ Understood(call) /\ ~changed /\ ~ScriptBlurred(call) =>
        \A o \in Meant(call, Kind("table")) :
            (adapter = "postgresql" => Cardinality(KeyOf(o)) = 1)
              => Exactly(answer.rows,
                         {Script(IF adapter = "postgresql" THEN o.schema ELSE None, o, KeyOf(o))})

\* Where an answer fails although what it is about exists: PostgreSQL's script of a
\* table without primary key and its views outside the search path, SQL Server's filtered
\* databases and missing indexes, and MySQL's routines when their type is spelled as
\* listRoutines() returns it.
Fragile(q) ==
    \/ adapter = "postgresql" /\ q.op = "getTableCreateScript"
         /\ (changed \/ \E o \in Meant(q, Kind("table")) : KeyOf(o) = {})
    \/ adapter = "postgresql" /\ q.op = "getViewCreateScript" /\ SchemaOr(q) # Default
    \/ adapter = "sqlserver" /\ q.op = "listDatabases" /\ BuildFilter(q.filter) # {}
    \/ adapter = "sqlserver" /\ q.op = "listTableIndexes"
         /\ \E o \in Meant(q, Relations) : o.indexes = {}
    \/ adapter = "mysql" /\ q.op = "getRoutineCreateScript" /\ q.type = "FUNCTION"

Exists(q) ==
    CASE q.op \in Lists -> TRUE
      [] q.op \in {"getTableCreateScript", "getViewCreateScript"} -> Meant(q, Kind(KindOf(q.op))) # {}
      [] q.op = "getRoutineCreateScript" -> Meant(q, Kind("routine")) # {}
      [] OTHER -> Meant(q, Kind("table")) # {}

\* A question about something that exists is answered: it is not rejected because a text
\* is not valid SQL, a row is missing or a result is undefined, and its promise is never
\* forgotten.  Fragile names the exceptions.
ExistingIsAnswered ==
    Answered /\ Understood(call) /\ Exists(call) /\ ~Fragile(call) => answer.status = "rows"

\* Every variable has its type.
TypeOK ==
    /\ adapter \in Adapters /\ {legacy, given, changed} \subseteq BOOLEAN
    /\ objects \subseteq Objects /\ constraints \subseteq Candidates
    /\ call \in Questions \cup {None}
    /\ stage \in {"idle", "columns", "key", "answered"}
    /\ columns \subseteq UNION {{c.name : c \in o.columns} : o \in Objects}
    /\ answer.status \in {"none", "rows", "rejected", "never"}
    /\ answer.status = "none" <=> ~Answered
=============================================================================
