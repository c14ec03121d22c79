--------------------------- MODULE Catalog_proofs ---------------------------
(***************************************************************************)
(* Proofs about Catalog and its Filters, for any database: any objects,    *)
(* constraints, schemas and questions that the engines allow.              *)
(*                                                                         *)
(* The invariant says which names are told apart in the database at all    *)
(* times, and that an answer that is there is the reply to its question.   *)
(* What remains are facts about the queries, one operation at a time.      *)
(***************************************************************************)
EXTENDS Catalog, FiniteSetTheorems, FunctionTheorems, TLAPS

\* Tables and views of a schema have different names; routines may be overloaded, in
\* MySQL and SQL Server they may not.
ObjectsApart ==
    /\ objects \subseteq Objects
    /\ \A o, p \in Relations : SameName(o, p) => o = p
    /\ adapter \in {"mysql", "sqlserver"} => \A o \in Kind("routine") : o.tag = 1
    /\ adapter = "cassandra" => \A o \in objects : o.kind = "table"

\* Constraints are of tables that exist, and share names only as the engine allows.
ConstraintsApart ==
    /\ constraints \subseteq Candidates /\ IsFiniteSet(constraints)
    /\ \A c \in constraints : In(Kind("table"), c.schema, c.table) # {}
    /\ \A c, d \in constraints : c # d /\ SameName(c, d) => MayShareName(c, d)
    /\ \A c, d \in Primary(constraints) : c.schema = d.schema /\ c.table = d.table => c = d

\* The relations and the key that PostgreSQL's second and third statement ask for.
Asked     == Meant(call, Relations)
AskedKey  == UNION {c.columns : c \in Primary(Of(SchemaOr(call), call.name))}
KeyScript(x) ==
    Rows({[row |-> [head |-> <<SchemaOr(call), call.name>>, columns |-> ColumnNames(Asked), key |-> {x}],
           from |-> x]})

\* The script of a table that has not changed since the first statement.
ScriptSoFar ==
    Composed(call) /\ ~changed =>
        /\ stage \in {"columns", "key"} => HasHeader(call)
        /\ stage = "key" => columns = ColumnNames(Asked)
        /\ Answered => \/ answer = Failed /\ (~HasHeader(call) \/ AskedKey = {})
                       \/ \E x \in AskedKey : answer = KeyScript(x)

\* What is known of the question under way.
CallInOrder ==
    /\ stage \in {"idle", "columns", "key", "answered"}
    /\ columns \subseteq UNION {{c.name : c \in o.columns} : o \in Objects}
    /\ stage = "idle" => call = None
    /\ stage # "idle" => call \in Questions
    /\ stage \in {"columns", "key"} => Composed(call)
    /\ IF Answered THEN Composed(call) => answer.status \in {"rows", "rejected"}
                   ELSE answer = Nothing
    /\ Answered /\ ~Composed(call) => answer = Reply(call)
    /\ stage # "idle" => ScriptSoFar

CatalogInv ==
    /\ adapter \in Adapters /\ legacy \in BOOLEAN /\ given \in BOOLEAN /\ changed \in BOOLEAN
    /\ ObjectsApart
    /\ ConstraintsApart
    /\ CallInOrder

-----------------------------------------------------------------------------
\* What a question is answered depends on the database only.
Database == <<adapter, legacy, given, objects, constraints>>

LEMMA SameParts ==
    ASSUME UNCHANGED Database
    PROVE  /\ \A k : Kind(k)' = Kind(k)
           /\ Relations' = Relations
           /\ Session' = Session
           /\ \A s, n : Of(s, n)' = Of(s, n)
           /\ KeyColumnUsage' = KeyColumnUsage
           /\ \A n : Reported(n)' = Reported(n)
<1>1. adapter' = adapter /\ legacy' = legacy /\ given' = given /\ objects' = objects /\ constraints' = constraints
  BY DEF Database
<1>2. \A k : Kind(k)' = Kind(k)
  BY <1>1 DEF Kind
<1>3. \A s, n : Of(s, n)' = Of(s, n)
  BY <1>1 DEF Of
<1>4. KeyColumnUsage' = KeyColumnUsage
  BY <1>1 DEF KeyColumnUsage
<1> QED BY <1>1, <1>2, <1>3, <1>4 DEF Relations, Session, Reported

LEMMA SameKeys ==
    ASSUME UNCHANGED Database
    PROVE  /\ \A c, x, d : KeyRow(c, x, d)' = KeyRow(c, x, d)
           /\ \A s, n : PostgresKeys(s, n)' = PostgresKeys(s, n)
           /\ \A n : MysqlKeys(n)' = MysqlKeys(n)
           /\ \A n : SqlServerKeys(n)' = SqlServerKeys(n)
           /\ \A n : CassandraKeys(n)' = CassandraKeys(n)
           /\ \A s, n : PostgresReferences(s, n)' = PostgresReferences(s, n)
<1>1. adapter' = adapter /\ legacy' = legacy /\ given' = given /\ objects' = objects /\ constraints' = constraints
  BY DEF Database
<1>2. \A c, x, d : KeyRow(c, x, d)' = KeyRow(c, x, d)
  BY <1>1, SameParts DEF KeyRow
<1>3. \A s, n : PostgresKeys(s, n)' = PostgresKeys(s, n)
  BY <1>1, <1>2, SameParts DEF PostgresKeys, Keys
<1>4. \A n : MysqlKeys(n)' = MysqlKeys(n)
  BY <1>1, <1>2, SameParts DEF MysqlKeys, Keys
<1>5. \A n : SqlServerKeys(n)' = SqlServerKeys(n)
  <2>1. \A n : UNION {Of(s, n)' : s \in Schemas} = UNION {Of(s, n) : s \in Schemas}
    BY SameParts
  <2> QED BY <1>1, <1>2, <2>1, SameParts DEF SqlServerKeys, Keys, Foreign
<1>6. \A n : CassandraKeys(n)' = CassandraKeys(n)
  BY <1>1, SameParts DEF CassandraKeys, In
<1>7. \A s, n : PostgresReferences(s, n)' = PostgresReferences(s, n)
  BY <1>1, SameParts DEF PostgresReferences, Foreign
<1> QED BY <1>2, <1>3, <1>4, <1>5, <1>6, <1>7

LEMMA SameTables ==
    ASSUME UNCHANGED Database
    PROVE  /\ \A q, s, S : Subject(q, s, S)' = Subject(q, s, S)
           /\ \A o : TriggerRows(o)' = TriggerRows(o)
           /\ \A o : IndexRows(o)' = IndexRows(o)
           /\ \A o : KeyOf(o)' = KeyOf(o)
           /\ \A n : SqlServerScripts(n)' = SqlServerScripts(n)
           /\ \A q : ViewFound(q)' = ViewFound(q)
           /\ \A q : HasHeader(q)' = HasHeader(q)
           /\ \A q : Meant(q, Relations)' = Meant(q, Relations)
<1>1. adapter' = adapter /\ legacy' = legacy /\ given' = given /\ objects' = objects /\ constraints' = constraints
  BY DEF Database
<1>2. \A q, s, S : Subject(q, s, S)' = Subject(q, s, S)
  BY <1>1, SameParts DEF Subject
<1>3. \A o : TriggerRows(o)' = TriggerRows(o)
  BY <1>1 DEF TriggerRows
<1>4. \A o : IndexRows(o)' = IndexRows(o)
  BY <1>1 DEF IndexRows
<1>5. \A o : KeyOf(o)' = KeyOf(o)
  BY <1>1, SameParts DEF KeyOf, Primary
<1>6. \A n : SqlServerScripts(n)' = SqlServerScripts(n)
  <2>1. \A n : UNION {Of(s, n)' : s \in Schemas} = UNION {Of(s, n) : s \in Schemas}
    BY SameParts
  <2> SUFFICES ASSUME NEW n PROVE SqlServerScripts(n)' = SqlServerScripts(n)
    OBVIOUS
  <2>2. /\ Primary(UNION {Of(s, n)' : s \in Schemas}) = Primary(UNION {Of(s, n) : s \in Schemas})
        /\ Kind("table")' = Kind("table") /\ Relations' = Relations /\ KeyColumnUsage' = KeyColumnUsage
    BY <2>1, SameParts
  <2> QED BY <2>2, Zenon DEF SqlServerScripts
<1>7. \A q : ViewFound(q)' = ViewFound(q)
  BY <1>1, SameParts DEF ViewFound, ObjectId
<1>8. \A q : HasHeader(q)' = HasHeader(q)
  BY SameParts DEF HasHeader
<1>9. \A q : Meant(q, Relations)' = Meant(q, Relations)
  BY SameParts DEF Meant
<1> QED BY <1>2, <1>3, <1>4, <1>5, <1>6, <1>7, <1>8, <1>9

LEMMA SameReply ==
    ASSUME UNCHANGED Database
    PROVE  \A q : Reply(q)' = Reply(q)
<1>1. adapter' = adapter /\ legacy' = legacy /\ given' = given /\ objects' = objects /\ constraints' = constraints
  BY DEF Database
<1>2. \A q : ListDatabases(q)' = ListDatabases(q)
  BY <1>1 DEF ListDatabases
<1>3. \A q, k : ListObjects(q, k)' = ListObjects(q, k)
  BY <1>1, SameParts DEF ListObjects
<1>4. \A q : ListRoutines(q)' = ListRoutines(q)
  BY <1>1, <1>3 DEF ListRoutines
<1>5. \A q, s : ListTableColumns(q, s)' = ListTableColumns(q, s)
  BY <1>1, SameParts, SameTables DEF ListTableColumns
<1>6. \A q, s : ListTableTriggers(q, s)' = ListTableTriggers(q, s)
  BY <1>1, SameParts, SameTables DEF ListTableTriggers
<1>7. \A q, s : ListTableIndexes(q, s)' = ListTableIndexes(q, s)
  <2>1. \A S : UNION {IndexRows(o)' : o \in S} = UNION {IndexRows(o) : o \in S}
    BY SameTables
  <2>2. /\ \A q, s : Subject(q, s, Relations)' = Subject(q, s, Relations)
        /\ \A n : ObjectId(Relations, n)' = ObjectId(Relations, n)
    BY SameParts, SameTables
  <2> SUFFICES ASSUME NEW q, NEW s PROVE ListTableIndexes(q, s)' = ListTableIndexes(q, s)
    OBVIOUS
  <2>3. CASE adapter = "sqlserver"
    BY <1>1, <2>1, <2>2, <2>3 DEF ListTableIndexes
  <2>4. CASE adapter # "sqlserver"
    BY <1>1, <2>1, <2>2, <2>4 DEF ListTableIndexes
  <2> QED BY <2>3, <2>4
<1>8. \A q, s : GetTableReferences(q, s)' = GetTableReferences(q, s)
  BY <1>1, SameParts, SameKeys DEF GetTableReferences, Foreign
<1>9. \A q, s : GetTableKeys(q, s)' = GetTableKeys(q, s)
  <2>1. \A n : In(Kind("table"), Default, n)' = In(Kind("table"), Default, n)
    BY SameParts
  <2> QED BY <1>1, <2>1, SameKeys, Zenon DEF GetTableKeys
<1>10. \A q : GetTableCreateScript(q)' = GetTableCreateScript(q)
  <2>1. /\ \A n : In(Kind("table"), Session, n)' = In(Kind("table"), Session, n)
        /\ \A n : In(Relations, Default, n)' = In(Relations, Default, n)
    BY SameParts
  <2> SUFFICES ASSUME NEW q PROVE GetTableCreateScript(q)' = GetTableCreateScript(q)
    OBVIOUS
  <2>2. \A S : {[row |-> Script(None, o, KeyOf(o)'), from |-> o] : o \in S} =
               {[row |-> Script(None, o, KeyOf(o)), from |-> o] : o \in S}
    BY SameTables
  <2>3. SqlServerScripts(q.name)' = SqlServerScripts(q.name)
    BY SameTables
  <2> QED BY <1>1, <2>1, <2>2, <2>3, Zenon DEF GetTableCreateScript
<1>11. \A q, s : GetViewCreateScript(q, s)' = GetViewCreateScript(q, s)
  BY <1>1, SameTables DEF GetViewCreateScript
<1>12. \A q, s : GetRoutineCreateScript(q, s)' = GetRoutineCreateScript(q, s)
  BY <1>1, SameParts, SameTables DEF GetRoutineCreateScript
<1>13. Inherited' = Inherited
  BY <1>1 DEF Inherited
<1> SUFFICES ASSUME NEW q PROVE Reply(q)' = Reply(q)
  OBVIOUS
<1> DEFINE s == SchemaOr(q)
<1>14. /\ ListDatabases(q)' = ListDatabases(q)
       /\ ListObjects(q, "table")' = ListObjects(q, "table")
       /\ ListObjects(q, "view")' = ListObjects(q, "view")
       /\ ListRoutines(q)' = ListRoutines(q)
       /\ ListTableColumns(q, s)' = ListTableColumns(q, s)
       /\ ListTableTriggers(q, s)' = ListTableTriggers(q, s)
       /\ ListTableIndexes(q, s)' = ListTableIndexes(q, s)
       /\ GetTableReferences(q, s)' = GetTableReferences(q, s)
       /\ GetTableKeys(q, s)' = GetTableKeys(q, s)
       /\ GetTableCreateScript(q)' = GetTableCreateScript(q)
       /\ GetViewCreateScript(q, s)' = GetViewCreateScript(q, s)
       /\ GetRoutineCreateScript(q, s)' = GetRoutineCreateScript(q, s)
  BY <1>2, <1>3, <1>4, <1>5, <1>6, <1>7, <1>8, <1>9, <1>10, <1>11, <1>12
<1> QED BY <1>13, <1>14, SMTT(30) DEF Reply, SchemaOr

-----------------------------------------------------------------------------
LEMMA CatalogInit == Init => CatalogInv
<1> SUFFICES ASSUME Init PROVE CatalogInv
  OBVIOUS
<1>1. adapter \in Adapters /\ legacy \in BOOLEAN /\ given \in BOOLEAN /\ changed \in BOOLEAN
  BY DEF Init
<1>2. ObjectsApart
  <2>1. \A o \in objects : o \in Objects /\ o.kind # "table"
    BY DEF Init
  <2>2. \A o, p \in Relations : SameName(o, p) => o = p
    BY <2>1, ObjectsAssumption DEF Relations, Kind, SameName
  <2>3. adapter \in {"mysql", "sqlserver"} => \A o \in Kind("routine") : o.tag = 1
    BY DEF Init, Kind
  <2>4. adapter = "cassandra" => objects = {}
    BY DEF Init
  <2> QED BY <2>1, <2>2, <2>3, <2>4 DEF ObjectsApart
<1>3. ConstraintsApart
  BY FS_EmptySet DEF Init, ConstraintsApart, Primary
<1>4. CallInOrder
  BY DEF Init, CallInOrder, Answered
<1> QED BY <1>1, <1>2, <1>3, <1>4 DEF CatalogInv

\* What the users do waits until an answer has been taken, and marks a question that
\* is under way.
LEMMA UsersKeepCall ==
    ASSUME CatalogInv, ~Answered, changed' = (stage # "idle"),
           UNCHANGED <<adapter, legacy, given, call, stage, columns, answer>>
    PROVE  CallInOrder'
<1>1. /\ stage' = stage /\ call' = call /\ columns' = columns /\ answer' = answer
      /\ (Composed(call) <=> Composed(call)') /\ ~Answered'
  BY DEF Composed, Answered
<1>2. stage # "idle" => ScriptSoFar'
  BY <1>1 DEF ScriptSoFar
<1>3. answer = Nothing /\ CallInOrder
  BY DEF CatalogInv, CallInOrder
<1> QED BY <1>1, <1>2, <1>3 DEF CallInOrder

LEMMA CreateTableKeeps ==
    ASSUME CatalogInv, NEW o \in Objects, CreateTable(o)
    PROVE  CatalogInv'
<1> USE DEF CatalogInv
<1>0. /\ adapter' = adapter /\ legacy' = legacy /\ given' = given /\ constraints' = constraints
      /\ objects' = objects \cup {o} /\ o.kind = "table" /\ In(objects, o.schema, o.name) = {}
      /\ changed' \in BOOLEAN
  BY DEF CreateTable
<1>1. Relations' = Relations \cup {o} /\ Kind("routine")' = Kind("routine")
      /\ Kind("table")' = Kind("table") \cup {o}
  BY <1>0 DEF Relations, Kind
<1>2. ObjectsApart'
  <2>1. \A p \in Relations : ~SameName(o, p) /\ ~SameName(p, o)
    BY <1>0 DEF Relations, Kind, In, SameName
  <2>2. \A p, r \in Relations' : SameName(p, r) => p = r
    BY <1>1, <2>1 DEF ObjectsApart
  <2> QED BY <1>0, <1>1, <2>2 DEF ObjectsApart
<1>3. ConstraintsApart'
  <2>1. \A c \in constraints : In(Kind("table")', c.schema, c.table) # {}
    BY <1>1 DEF ConstraintsApart, In
  <2>2. \A c, d : MayShareName(c, d)' <=> MayShareName(c, d)
    BY <1>0 DEF MayShareName
  <2> QED BY <1>0, <2>1, <2>2 DEF ConstraintsApart
<1>4. CallInOrder'
  BY UsersKeepCall DEF CreateTable
<1> QED BY <1>0, <1>2, <1>3, <1>4

LEMMA DropTableKeeps ==
    ASSUME CatalogInv, NEW o \in Objects, DropTable(o)
    PROVE  CatalogInv'
<1> USE DEF CatalogInv
<1>0. /\ adapter' = adapter /\ legacy' = legacy /\ given' = given
      /\ objects' = objects \ {o} /\ o \in Kind("table")
      /\ constraints' \subseteq constraints
      /\ \A c \in constraints' : <<c.schema, c.table>> # <<o.schema, o.name>>
      /\ changed' \in BOOLEAN
  BY DEF DropTable
<1>1. Relations' = Relations \ {o} /\ Kind("routine")' = Kind("routine")
      /\ Kind("table")' = Kind("table") \ {o}
  BY <1>0 DEF Relations, Kind
<1>2. ObjectsApart'
  BY <1>0, <1>1 DEF ObjectsApart
<1>3. ConstraintsApart'
  <2>1. ASSUME NEW c \in constraints' PROVE In(Kind("table")', c.schema, c.table) # {}
    <3>1. PICK p \in Kind("table") : p.schema = c.schema /\ p.name = c.table
      BY <1>0 DEF ConstraintsApart, In
    <3>2. p # o
      BY <1>0, <3>1
    <3> QED BY <1>1, <3>1, <3>2 DEF In
  <2>2. \A c, d : MayShareName(c, d)' <=> MayShareName(c, d)
    BY <1>0 DEF MayShareName
  <2>3. IsFiniteSet(constraints')
    BY <1>0, FS_Subset DEF ConstraintsApart
  <2>4. \A c, d \in Primary(constraints') : c.schema = d.schema /\ c.table = d.table => c = d
    BY <1>0 DEF ConstraintsApart, Primary
  <2> QED BY <1>0, <2>1, <2>2, <2>3, <2>4 DEF ConstraintsApart
<1>4. CallInOrder'
  BY UsersKeepCall DEF DropTable
<1> QED BY <1>0, <1>2, <1>3, <1>4

LEMMA AddConstraintKeeps ==
    ASSUME CatalogInv, NEW c \in Candidates, AddConstraint(c)
    PROVE  CatalogInv'
<1> USE DEF CatalogInv
<1>0. /\ adapter' = adapter /\ legacy' = legacy /\ given' = given /\ objects' = objects
      /\ constraints' = constraints \cup {c}
      /\ In(Kind("table"), c.schema, c.table) # {}
      /\ c.type = "PRIMARY KEY" => Primary(Of(c.schema, c.table)) = {}
      /\ \A d \in constraints : SameName(c, d) => MayShareName(c, d)
      /\ changed' \in BOOLEAN
  BY DEF AddConstraint, In
<1>1. Relations' = Relations /\ Kind("routine")' = Kind("routine") /\ Kind("table")' = Kind("table")
  BY <1>0 DEF Relations, Kind
<1>2. ObjectsApart'
  BY <1>0, <1>1 DEF ObjectsApart
<1>3. ConstraintsApart'
  <2>1. \A d \in constraints' : In(Kind("table")', d.schema, d.table) # {}
    BY <1>0, <1>1 DEF ConstraintsApart
  <2>2. \A d, e : MayShareName(d, e)' <=> MayShareName(d, e)
    BY <1>0 DEF MayShareName
  <2>3. IsFiniteSet(constraints')
    BY <1>0, FS_AddElement DEF ConstraintsApart
  <2>4. \A d \in Primary(constraints) :
           c.type = "PRIMARY KEY" => ~(d.schema = c.schema /\ d.table = c.table)
    BY <1>0 DEF Primary, Of
  <2>5. \A d, e \in Primary(constraints') : d.schema = e.schema /\ d.table = e.table => d = e
    BY <1>0, <2>4 DEF ConstraintsApart, Primary
  <2>6. \A d, e : SameName(d, e) /\ MayShareName(d, e) => MayShareName(e, d)
    BY DEF MayShareName
  <2>7. \A d, e \in constraints' : d # e /\ SameName(d, e) => MayShareName(d, e)
    <3> SUFFICES ASSUME NEW d \in constraints', NEW e \in constraints', d # e, SameName(d, e)
                 PROVE  MayShareName(d, e)
      OBVIOUS
    <3>1. SameName(e, d)
      BY DEF SameName
    <3>2. CASE d \in constraints /\ e \in constraints
      BY <3>2 DEF ConstraintsApart
    <3>3. CASE d = c /\ e \in constraints
      BY <1>0, <3>3
    <3>4. CASE d \in constraints /\ e = c
      BY <1>0, <2>6, <3>1, <3>4
    <3> QED BY <1>0, <3>2, <3>3, <3>4
  <2> QED BY <1>0, <2>1, <2>2, <2>3, <2>5, <2>7 DEF ConstraintsApart
<1>4. CallInOrder'
  BY UsersKeepCall DEF AddConstraint
<1> QED BY <1>0, <1>2, <1>3, <1>4

\* Questions do not change the database.
LEMMA DatabaseKeeps ==
    ASSUME CatalogInv, UNCHANGED Database
    PROVE  /\ adapter' \in Adapters /\ legacy' \in BOOLEAN /\ given' \in BOOLEAN
           /\ ObjectsApart' /\ ConstraintsApart'
<1>1. adapter' = adapter /\ legacy' = legacy /\ given' = given /\ objects' = objects /\ constraints' = constraints
  BY DEF Database
<1>2. ObjectsApart'
  BY <1>1, SameParts DEF CatalogInv, ObjectsApart
<1>3. ConstraintsApart'
  <2>1. \A c, d : MayShareName(c, d)' <=> MayShareName(c, d)
    BY <1>1 DEF MayShareName
  <2> QED BY <1>1, <2>1, SameParts DEF CatalogInv, ConstraintsApart
<1> QED BY <1>1, <1>2, <1>3 DEF CatalogInv

LEMMA AskKeeps ==
    ASSUME CatalogInv, NEW q \in Questions, Ask(q)
    PROVE  CatalogInv'
<1>1. /\ UNCHANGED Database /\ columns' = columns
      /\ call' = q /\ stage' = "answered" /\ answer' = Reply(q) /\ changed' = FALSE
      /\ ~Composed(q)
  BY DEF Ask, Database
<1>2. ~Composed(call)' /\ Answered'
  BY <1>1 DEF Composed, Answered, Database
<1>3. answer' = Reply(call)'
  <2>1. Reply(q)' = Reply(q)
    BY <1>1, SameReply
  <2> HIDE DEF Reply
  <2> QED BY <1>1, <2>1
<1>4. CallInOrder'
  BY <1>1, <1>2, <1>3 DEF CatalogInv, CallInOrder, ScriptSoFar
<1> QED BY <1>1, <1>4, DatabaseKeeps DEF CatalogInv

LEMMA AskComposedKeeps ==
    ASSUME CatalogInv, NEW q \in Questions, AskComposed(q)
    PROVE  CatalogInv'
<1>1. /\ UNCHANGED Database /\ columns' = columns
      /\ call' = q /\ changed' = FALSE /\ Composed(q) /\ ~Answered
      /\ IF HasHeader(q) THEN stage' = "columns" /\ answer' = answer
         ELSE stage' = "answered" /\ answer' = Failed
  BY DEF AskComposed, Database, Answered
<1>2. Composed(call)' /\ (HasHeader(call)' <=> HasHeader(q)) /\ answer = Nothing
  <2>1. HasHeader(q)' <=> HasHeader(q)
    BY <1>1, SameTables
  <2>2. HasHeader(call)' <=> HasHeader(q)'
    BY <1>1 DEF HasHeader, Named
  <2> QED BY <1>1, <2>1, <2>2 DEF Composed, Database, CatalogInv, CallInOrder
<1>3. ScriptSoFar'
  BY <1>1, <1>2 DEF ScriptSoFar, Answered
<1>4. CallInOrder'
  BY <1>1, <1>2, <1>3 DEF CatalogInv, CallInOrder, Answered, Failed
<1> QED BY <1>1, <1>4, DatabaseKeeps DEF CatalogInv

LEMMA ReadColumnsKeeps ==
    ASSUME CatalogInv, ReadColumns
    PROVE  CatalogInv'
<1>1. /\ UNCHANGED Database /\ stage = "columns" /\ stage' = "key"
      /\ columns' = ColumnNames(Asked)
      /\ call' = call /\ answer' = answer /\ changed' = changed
  BY DEF ReadColumns, Database, Asked, Meant
<1>2. Composed(call) /\ Composed(call)' /\ answer = Nothing /\ call \in Questions /\ ScriptSoFar
  BY <1>1 DEF CatalogInv, CallInOrder, Composed, Database, Answered
<1>3. columns' \subseteq UNION {{c.name : c \in o.columns} : o \in Objects}
  <2>1. Asked \subseteq Objects
    BY DEF Asked, Meant, In, Relations, Kind, CatalogInv, ObjectsApart
  <2> QED BY <1>1, <2>1 DEF ColumnNames
<1>4. ScriptSoFar'
  <2>1. (HasHeader(call)' <=> HasHeader(call)) /\ Asked' = Asked
    <3>1. Relations' = Relations
      BY <1>1, SameParts
    <3> QED BY <1>1, <3>1 DEF HasHeader, Asked, Meant
  <2>2. columns' = ColumnNames(Asked')
    BY <1>1, <2>1
  <2> QED BY <1>1, <1>2, <2>1, <2>2 DEF ScriptSoFar, Answered
<1>5. CallInOrder'
  BY <1>1, <1>2, <1>3, <1>4 DEF CallInOrder, Answered
<1> QED BY <1>1, <1>5, DatabaseKeeps DEF CatalogInv

LEMMA ReadKeyKeeps ==
    ASSUME CatalogInv, ReadKey
    PROVE  CatalogInv'
<1>1. /\ UNCHANGED Database /\ stage = "key" /\ stage' = "answered"
      /\ columns' = {} /\ call' = call /\ changed' = changed
  BY DEF ReadKey, Database
<1>2. Composed(call) /\ Composed(call)' /\ call \in Questions /\ ScriptSoFar
  BY <1>1 DEF CatalogInv, CallInOrder, Composed, Database, Answered
<1>3. \/ AskedKey = {} /\ answer' = Failed
      \/ \E x \in AskedKey :
           answer' = Rows({[row |-> [head |-> <<SchemaOr(call), call.name>>, columns |-> columns,
                                     key |-> {x}],
                            from |-> x]})
  BY DEF ReadKey, AskedKey
<1>4. Asked' = Asked /\ AskedKey' = AskedKey
  <2>1. Relations' = Relations /\ \A s, n : Of(s, n)' = Of(s, n)
    BY <1>1, SameParts
  <2>2. Of(SchemaOr(call), call.name)' = Of(SchemaOr(call), call.name)
    BY <1>1, <2>1 DEF Of
  <2> QED BY <1>1, <2>1, <2>2 DEF Asked, AskedKey, Meant
<1>5. ScriptSoFar'
  <2>1. ASSUME ~changed
        PROVE  \/ answer' = Failed /\ AskedKey' = {}
               \/ \E x \in AskedKey' : answer' = KeyScript(x)'
    <3>1. columns = ColumnNames(Asked)
      BY <1>1, <1>2, <2>1 DEF ScriptSoFar
    <3>2. \A x : KeyScript(x)' = KeyScript(x)
      BY <1>1, <1>4 DEF KeyScript
    <3> QED BY <1>3, <1>4, <3>1, <3>2 DEF KeyScript
  <2> QED BY <1>1, <2>1 DEF ScriptSoFar
<1>6. answer'.status \in {"rows", "rejected"}
  BY <1>3 DEF Failed, Rows
<1>7. CallInOrder'
  BY <1>1, <1>2, <1>5, <1>6 DEF CallInOrder, Answered
<1> QED BY <1>1, <1>7, DatabaseKeeps DEF CatalogInv

LEMMA TakeKeeps ==
    ASSUME CatalogInv, Take
    PROVE  CatalogInv'
<1>1. /\ UNCHANGED Database /\ stage' = "idle" /\ call' = None /\ answer' = Nothing
      /\ changed' = FALSE /\ columns' = columns
  BY DEF Take, Database
<1>2. CallInOrder'
  BY <1>1 DEF CatalogInv, CallInOrder, Answered
<1> QED BY <1>1, <1>2, DatabaseKeeps DEF CatalogInv

LEMMA StutterKeeps ==
    ASSUME CatalogInv, UNCHANGED vars
    PROVE  CatalogInv'
<1>1. /\ UNCHANGED Database
      /\ stage' = stage /\ call' = call /\ answer' = answer /\ changed' = changed /\ columns' = columns
  BY DEF vars, Database
<1>2. /\ (Composed(call)' <=> Composed(call)) /\ (HasHeader(call)' <=> HasHeader(call))
      /\ Asked' = Asked /\ AskedKey' = AskedKey
  <2>1. Relations' = Relations
    BY <1>1, SameParts
  <2>2. Of(SchemaOr(call), call.name)' = Of(SchemaOr(call), call.name)
    BY <1>1 DEF Of, Database
  <2> QED BY <1>1, <2>1, <2>2 DEF Asked, AskedKey, Meant, HasHeader, Composed, Database
<1>3. Reply(call)' = Reply(call)
  <2>1. \A q : Reply(q)' = Reply(q)
    BY <1>1, SameReply
  <2> QED BY <1>1, <2>1
<1>4. \A x : KeyScript(x)' = KeyScript(x)
  BY <1>1, <1>2 DEF KeyScript
<1>5. ScriptSoFar' <=> ScriptSoFar
  BY <1>1, <1>2, <1>4 DEF ScriptSoFar, Answered
<1>6. CallInOrder'
  BY <1>1, <1>2, <1>3, <1>5 DEF CatalogInv, CallInOrder, Answered
<1> QED BY <1>1, <1>6, DatabaseKeeps DEF CatalogInv

\* At all times names are told apart as the engine sees to, and an answer that is there
\* is the reply to its question.
THEOREM CatalogInvariant == Spec => []CatalogInv
<1>1. CatalogInv /\ [Next]_vars => CatalogInv'
  BY AskKeeps, AskComposedKeeps, ReadColumnsKeeps, ReadKeyKeeps, TakeKeeps, CreateTableKeeps,
     DropTableKeeps, AddConstraintKeeps, StutterKeeps DEF Next
<1> QED BY <1>1, CatalogInit, PTL DEF Spec

-----------------------------------------------------------------------------
(* Filters.                                                                *)

\* The conditions that buildSchemaFilter() and buildDatabaseFilter() write select what the
\* filter asks for, also when both lists are given, overlap or are empty, and whatever
\* they name.
THEOREM ConditionsSelect ==
    ASSUME NEW f, OneForm(f), NEW x
    PROVE  Where(BuildFilter(f), x) <=> Admits(f, x)
<1>1. CASE f.name # None
  <2>1. BuildFilter(f) = {[op |-> "IN", names |-> {f.name}]}
    BY <1>1 DEF BuildFilter
  <2>2. Where(BuildFilter(f), x) <=> x = f.name
    BY <2>1 DEF Where
  <2> QED BY <1>1, <2>2 DEF Admits, OneForm
<1>2. CASE f.name = None
  <2> DEFINE take == [op |-> "IN", names |-> f.only]
             leave == [op |-> "NOT IN", names |-> f.ignore]
  <2>1. BuildFilter(f) = {c \in {take, leave} : c.names # {}}
    BY <1>2 DEF BuildFilter
  <2>2. (take \in BuildFilter(f) <=> f.only # {}) /\ (leave \in BuildFilter(f) <=> f.ignore # {})
    BY <2>1
  <2>3. \A c \in BuildFilter(f) : c = take \/ c = leave
    BY <2>1
  <2>4. Where(BuildFilter(f), x) <=> (f.only # {} => x \in f.only) /\ (f.ignore # {} => x \notin f.ignore)
    <3>1. take.op = "IN" /\ take.names = f.only /\ leave.op = "NOT IN" /\ leave.names = f.ignore
      OBVIOUS
    <3> HIDE DEF take, leave
    <3> QED BY <2>2, <2>3, <3>1 DEF Where
  <2> QED BY <1>2, <2>4 DEF Admits
<1> QED BY <1>1, <1>2

\* MySQL, which filters the rows it has received, selects what the others select in SQL.
THEOREM FiltersAgree ==
    ASSUME NEW f, OneForm(f), NEW x
    PROVE  FilterDatabase(f, x) <=> Where(BuildFilter(f), x)
<1>1. FilterDatabase(f, x) <=> Admits(f, x)
  BY DEF FilterDatabase, Admits, OneForm
<1> QED BY <1>1, ConditionsSelect

-----------------------------------------------------------------------------
(* The answer of each operation.                                           *)

LEMMA ReplyIs ==
    ASSUME NEW q, q.op \notin Inherited
    PROVE  /\ q.op = "listDatabases" => Reply(q) = ListDatabases(q)
           /\ q.op = "listSchemas" => Reply(q) = ListSchemas(q)
           /\ q.op = "listTables" => Reply(q) = ListObjects(q, "table")
           /\ q.op = "listViews" => Reply(q) = ListObjects(q, "view")
           /\ q.op = "listRoutines" => Reply(q) = ListRoutines(q)
           /\ q.op = "listTableColumns" => Reply(q) = ListTableColumns(q, SchemaOr(q))
           /\ q.op = "listTableTriggers" => Reply(q) = ListTableTriggers(q, SchemaOr(q))
           /\ q.op = "listTableIndexes" => Reply(q) = ListTableIndexes(q, SchemaOr(q))
           /\ q.op = "getTableReferences" => Reply(q) = GetTableReferences(q, SchemaOr(q))
           /\ q.op = "getTableKeys" => Reply(q) = GetTableKeys(q, SchemaOr(q))
           /\ q.op = "getTableCreateScript" => Reply(q) = GetTableCreateScript(q)
           /\ q.op = "getViewCreateScript" => Reply(q) = GetViewCreateScript(q, SchemaOr(q))
           /\ q.op = "getRoutineCreateScript" => Reply(q) = GetRoutineCreateScript(q, SchemaOr(q))
  BY DEF Reply

\* Which adapters have which operations of their own.
LEMMA OwnOperations ==
    ASSUME NEW q, q.op \notin Inherited, adapter \in Adapters
    PROVE  /\ q.op = "listSchemas" => adapter \in {"postgresql", "sqlserver"}
           /\ q.op = "listViews" => adapter # "cassandra"
           /\ q.op = "listRoutines" => adapter \in {"postgresql", "mysql", "sqlserver"}
           /\ q.op \in {"listTableTriggers", "listTableIndexes"} => adapter # "cassandra"
           /\ q.op = "getTableReferences" => adapter \in {"postgresql", "mysql", "sqlserver"}
           /\ q.op = "getTableKeys" => adapter \in {"postgresql", "mysql", "sqlserver", "cassandra"}
           /\ q.op \in {"getTableCreateScript", "getViewCreateScript"} => adapter # "cassandra"
           /\ q.op = "getRoutineCreateScript" => adapter \in {"postgresql", "mysql", "sqlserver"}
  BY DEF Inherited, Adapters

\* The answer that is there.
LEMMA AnswerIs ==
    ASSUME CatalogInv, Answered
    PROVE  /\ call \in Questions /\ call.op \in Operations /\ OneForm(call.filter)
           /\ ~Composed(call) => answer = Reply(call)
           /\ Composed(call) => answer.status \in {"rows", "rejected"}
           /\ Composed(call) /\ ~changed =>
                \/ answer = Failed /\ (~HasHeader(call) \/ AskedKey = {})
                \/ \E x \in AskedKey : answer = KeyScript(x)
<1>1. stage # "idle" /\ CallInOrder
  BY DEF CatalogInv, Answered
<1> QED BY <1>1, CatalogAssumption DEF CallInOrder, ScriptSoFar

LEMMA StatusIs ==
    ASSUME NEW q, q.op \in Operations, adapter \in Adapters,
           ~Composed(q)
    PROVE  Reply(q).status \in {"rows", "rejected", "never"}
<1> USE DEF Rows, Failed, Never
<1>0. CASE q.op \in Inherited
  BY <1>0 DEF Reply
<1>1. CASE q.op \notin Inherited
  <2> USE <1>1, ReplyIs, OwnOperations
  <2>1. CASE q.op = "listDatabases"
    BY <2>1 DEF ListDatabases, Adapters
  <2>2. CASE q.op = "listSchemas"
    BY <2>2 DEF ListSchemas
  <2>3. \A k : ListObjects(q, k).status \in {"rows", "rejected"}
    BY DEF ListObjects
  <2>4. CASE q.op \in {"listTables", "listViews"}
    BY <2>3, <2>4
  <2>5. CASE q.op = "listRoutines"
    BY <2>3, <2>5 DEF ListRoutines
  <2>6. CASE q.op = "listTableColumns"
    BY <2>6 DEF ListTableColumns
  <2>7. CASE q.op = "listTableTriggers"
    BY <2>7 DEF ListTableTriggers
  <2>8. CASE q.op = "listTableIndexes"
    BY <2>8 DEF ListTableIndexes
  <2>9. CASE q.op = "getTableReferences"
    BY <2>9 DEF GetTableReferences
  <2>10. CASE q.op = "getTableKeys"
    BY <2>10 DEF GetTableKeys
  <2>11. CASE q.op = "getTableCreateScript"
    BY <2>11 DEF GetTableCreateScript, Composed, Adapters
  <2>12. CASE q.op = "getViewCreateScript"
    BY <2>12 DEF GetViewCreateScript
  <2>13. CASE q.op = "getRoutineCreateScript"
    BY <2>13 DEF GetRoutineCreateScript
  <2> QED BY <2>1, <2>2, <2>4, <2>5, <2>6, <2>7, <2>8, <2>9, <2>10, <2>11, <2>12, <2>13
          DEF Operations, Lists
<1> QED BY <1>0, <1>1

\* Every question has an answer, if only that there is none.
THEOREM TypeCorrect == Spec => []TypeOK
<1>1. CatalogInv => TypeOK
  <2> SUFFICES ASSUME CatalogInv PROVE TypeOK
    OBVIOUS
  <2>1. Answered => answer.status \in {"rows", "rejected", "never"}
    <3> SUFFICES ASSUME Answered PROVE answer.status \in {"rows", "rejected", "never"}
      OBVIOUS
    <3>1. CASE Composed(call)
      BY <3>1, AnswerIs
    <3>2. CASE ~Composed(call)
      BY <3>2, AnswerIs, StatusIs DEF CatalogInv
    <3> QED BY <3>1, <3>2
  <2>2. ~Answered => answer.status = "none"
    BY DEF CatalogInv, CallInOrder, Nothing
  <2>3. call \in Questions \cup {None}
    BY DEF CatalogInv, CallInOrder
  <2> QED BY <2>1, <2>2, <2>3 DEF TypeOK, CatalogInv, CallInOrder, ObjectsApart, ConstraintsApart
<1> QED BY <1>1, CatalogInvariant, PTL

\* Rows that are the expected ones, row by row.
LEMMA RowByRow ==
    ASSUME NEW S, NEW expected,
           \A r \in S : r.row \in expected,
           \A e \in expected : \E r \in S : r.row = e
    PROVE  /\ {r.row : r \in S} = expected
           /\ (\A r1, r2 \in S : r1.row = r2.row => r1 = r2) => Exactly(S, expected)
<1>1. {r.row : r \in S} = expected
  OBVIOUS
<1> QED BY <1>1 DEF Exactly

-----------------------------------------------------------------------------
(* Lists.                                                                  *)

\* In the lists that may repeat a name if two objects have it, no two have.
LEMMA ListedApart ==
    ASSUME CatalogInv, NEW kind, NEW o \in Kind(kind), NEW p \in Kind(kind), SameName(o, p),
           kind \in {"table", "view"} \/ (kind = "routine" /\ adapter = "mysql")
    PROVE  o = p
<1>1. o \in Objects /\ p \in Objects /\ o.kind = kind /\ p.kind = kind
  BY DEF Kind, CatalogInv, ObjectsApart
<1>2. CASE kind \in {"table", "view"}
  BY <1>2 DEF CatalogInv, ObjectsApart, Relations
<1>3. CASE kind = "routine" /\ adapter = "mysql"
  <2>1. o.tag = 1 /\ p.tag = 1
    BY <1>3 DEF CatalogInv, ObjectsApart
  <2> QED BY <1>1, <1>3, <2>1, ObjectsAssumption DEF SameName
<1> QED BY <1>2, <1>3

LEMMA ObjectsAreListed ==
    ASSUME CatalogInv, NEW q, OneForm(q.filter), q.op \in {"listTables", "listViews", "listRoutines"},
           NEW kind, kind = KindOf(q.op),
           ListObjects(q, kind).status = "rows"
    PROVE  /\ {r.row : r \in ListObjects(q, kind).rows} = ExpectedList(q)
           /\ kind \in {"table", "view"} \/ adapter = "mysql" =>
                Exactly(ListObjects(q, kind).rows, ExpectedList(q))
<1> DEFINE list == ListObjects(q, kind).rows
<1>1. kind \in {"table", "view", "routine"}
  BY DEF KindOf
<1>2. \A o \in Kind(kind) : o.schema \in Schemas /\ o.schema # None
  BY ObjectsAssumption, CatalogAssumption DEF Kind, CatalogInv, ObjectsApart
<1>3. CASE adapter \in {"postgresql", "sqlserver"}
  <2> DEFINE found == {o \in Kind(kind) : o.schema \in Filtered(q, Schemas)}
             wanted == {o \in Kind(kind) : Admits(q.filter, o.schema)}
  <2>1. list = {[row |-> [schema |-> o.schema, name |-> o.name], from |-> o] : o \in found}
    BY <1>3 DEF ListObjects, Rows
  <2>2. found = wanted
    BY <1>2, ConditionsSelect DEF Filtered
  <2>3. ExpectedList(q) = {[schema |-> o.schema, name |-> o.name] : o \in wanted}
    BY <1>3 DEF ExpectedList, CanFilter
  <2>4. \A o, p \in found : kind \in {"table", "view"} /\ o.schema = p.schema /\ o.name = p.name => o = p
    BY ListedApart DEF SameName
  <2> HIDE DEF list, found, wanted
  <2>5. {r.row : r \in list} = {[schema |-> o.schema, name |-> o.name] : o \in found}
    <3> DEFINE rows == {[schema |-> o.schema, name |-> o.name] : o \in found}
    <3>1. ASSUME NEW r \in list PROVE r.row \in rows
      <4>1. PICK o \in found : r = [row |-> [schema |-> o.schema, name |-> o.name], from |-> o]
        BY <2>1
      <4> QED BY <4>1
    <3>2. ASSUME NEW x \in rows PROVE \E r \in list : r.row = x
      <4>1. PICK o \in found : x = [schema |-> o.schema, name |-> o.name]
        OBVIOUS
      <4>2. [row |-> [schema |-> o.schema, name |-> o.name], from |-> o] \in list
        BY <2>1
      <4> QED BY <4>1, <4>2
    <3> HIDE DEF rows
    <3>3. {r.row : r \in list} = rows
      BY <3>1, <3>2, RowByRow
    <3> QED BY <3>3 DEF rows
  <2>6. kind \in {"table", "view"} => \A r1, r2 \in list : r1.row = r2.row => r1 = r2
    BY <2>1, <2>4
  <2> QED BY <1>3, <2>2, <2>3, <2>5, <2>6 DEF list, Exactly
<1>4. CASE adapter \notin {"postgresql", "sqlserver"}
  <2> DEFINE found == {o \in Kind(kind) : o.schema = Session}
             wanted == {o \in Kind(kind) : given /\ o.schema = Default}
  <2>1. list = {[row |-> [schema |-> None, name |-> o.name], from |-> o] : o \in found}
    BY <1>4 DEF ListObjects, Rows, Failed
  <2>2. found = wanted
    BY <1>2 DEF Session
  <2>3. ExpectedList(q) = {[schema |-> None, name |-> o.name] : o \in wanted}
    BY <1>4 DEF ExpectedList, CanFilter
  <2>4. \A o, p \in found : (kind \in {"table", "view"} \/ adapter = "mysql") /\ o.name = p.name => o = p
    BY <1>1, ListedApart DEF SameName
  <2> HIDE DEF list, found, wanted
  <2>5. {r.row : r \in list} = {[schema |-> None, name |-> o.name] : o \in found}
    <3> DEFINE rows == {[schema |-> None, name |-> o.name] : o \in found}
    <3>1. ASSUME NEW r \in list PROVE r.row \in rows
      <4>1. PICK o \in found : r = [row |-> [schema |-> None, name |-> o.name], from |-> o]
        BY <2>1
      <4> QED BY <4>1
    <3>2. ASSUME NEW x \in rows PROVE \E r \in list : r.row = x
      <4>1. PICK o \in found : x = [schema |-> None, name |-> o.name]
        OBVIOUS
      <4>2. [row |-> [schema |-> None, name |-> o.name], from |-> o] \in list
        BY <2>1
      <4> QED BY <4>1, <4>2
    <3> HIDE DEF rows
    <3>3. {r.row : r \in list} = rows
      BY <3>1, <3>2, RowByRow
    <3> QED BY <3>3 DEF rows
  <2>6. kind \in {"table", "view"} \/ adapter = "mysql" => \A r1, r2 \in list : r1.row = r2.row => r1 = r2
    BY <2>1, <2>4
  <2> QED BY <2>2, <2>3, <2>5, <2>6 DEF list, Exactly
<1> QED BY <1>3, <1>4

\* The lists contain exactly what the filter admits, or what is in the session's schema,
\* whatever the database holds and the filter names.
THEOREM ExactLists == Spec => []ListsAreExact
<1>1. CatalogInv => ListsAreExact
  <2> SUFFICES ASSUME CatalogInv, Answered, call.op \in Lists, call.op \notin Inherited,
                      answer.status = "rows", ~(adapter = "sqlite" /\ call.op = "listDatabases")
               PROVE  Exactly(answer.rows, ExpectedList(call))
    BY DEF ListsAreExact, Returns, Asks
  <2>0. answer = Reply(call) /\ OneForm(call.filter) /\ adapter \in Adapters
    BY AnswerIs DEF Composed, Lists, CatalogInv
  <2>1. \A x : /\ Where(BuildFilter(call.filter), x) <=> Admits(call.filter, x)
               /\ FilterDatabase(call.filter, x) <=> Admits(call.filter, x)
    BY <2>0, ConditionsSelect, FiltersAgree
  <2>e. ASSUME NEW S, answer = Rows({[row |-> x, from |-> x] : x \in S}), S = ExpectedList(call)
        PROVE  Exactly(answer.rows, ExpectedList(call))
    <3> DEFINE list == {[row |-> x, from |-> x] : x \in S}
    <3>1. answer.rows = list
      BY <2>e DEF Rows
    <3>2. ASSUME NEW r \in list PROVE r.row \in S /\ r = [row |-> r.row, from |-> r.row]
      <4>1. PICK x \in S : r = [row |-> x, from |-> x]
        OBVIOUS
      <4> QED BY <4>1
    <3>3. ASSUME NEW x \in S PROVE \E r \in list : r.row = x
      <4>1. [row |-> x, from |-> x] \in list
        OBVIOUS
      <4> QED BY <4>1
    <3>4. \A r1, r2 \in list : r1.row = r2.row => r1 = r2
      BY <3>2
    <3> HIDE DEF list
    <3> QED BY <2>e, <3>1, <3>2, <3>3, <3>4, RowByRow
  <2>2. CASE call.op = "listDatabases"
    <3>1. answer = ListDatabases(call)
      BY <2>0, <2>2, ReplyIs
    <3>2. ExpectedList(call) = {x \in Databases : CanFilter(call) => Admits(call.filter, x)}
      BY <2>2 DEF ExpectedList
    <3>3. CanFilter(call) <=> adapter \in {"postgresql", "mysql", "sqlserver"}
      BY <2>2 DEF CanFilter
    <3>4. CASE adapter = "postgresql"
      <4>1. ExpectedList(call) = Filtered(call, Databases)
        BY <2>1, <3>2, <3>3, <3>4 DEF Filtered
      <4> QED BY <2>e, <3>1, <3>4, <4>1 DEF ListDatabases
    <3>5. CASE adapter = "sqlserver"
      <4>1. BuildFilter(call.filter) = {} /\ answer = Rows({[row |-> x, from |-> x] : x \in Databases})
        BY <3>1, <3>5 DEF ListDatabases, Failed
      <4>2. \A x : Admits(call.filter, x)
        BY <2>1, <4>1 DEF Where
      <4>3. ExpectedList(call) = Databases
        BY <3>2, <4>2
      <4> QED BY <2>e, <4>1, <4>3
    <3>6. CASE adapter = "mysql"
      <4>1. ExpectedList(call) = {x \in Databases : FilterDatabase(call.filter, x)}
        BY <2>1, <3>2, <3>3, <3>6
      <4> QED BY <2>e, <3>1, <3>6, <4>1 DEF ListDatabases
    <3>7. CASE adapter = "cassandra"
      <4>1. ExpectedList(call) = Databases
        BY <3>2, <3>3, <3>7
      <4> QED BY <2>e, <3>1, <3>7, <4>1 DEF ListDatabases
    <3> QED BY <2>0, <2>2, <3>4, <3>5, <3>6, <3>7 DEF Adapters
  <2>3. CASE call.op = "listSchemas"
    <3>1. answer = ListSchemas(call)
      BY <2>0, <2>3, ReplyIs
    <3>2. ExpectedList(call) = {x \in Schemas : Admits(call.filter, x)}
      BY <2>3 DEF ExpectedList
    <3>3. ExpectedList(call) = Filtered(call, Schemas)
      BY <2>1, <3>2 DEF Filtered
    <3> QED BY <2>e, <3>1, <3>3 DEF ListSchemas
  <2>4. CASE call.op \in {"listTables", "listViews"}
    <3>1. answer = ListObjects(call, KindOf(call.op)) /\ KindOf(call.op) \in {"table", "view"}
      BY <2>0, <2>4, ReplyIs DEF KindOf
    <3> QED BY <2>0, <2>4, <3>1, ObjectsAreListed
  <2>5. CASE call.op = "listRoutines"
    <3> DEFINE list == ListObjects(call, "routine")
    <3>1. answer = ListRoutines(call) /\ KindOf(call.op) = "routine"
      BY <2>0, <2>5, ReplyIs DEF KindOf
    <3>2. CASE adapter = "mysql"
      <4>1. answer = list
        BY <3>1, <3>2 DEF ListRoutines
      <4> HIDE DEF list
      <4> QED BY <2>0, <2>5, <3>1, <3>2, <4>1, ObjectsAreListed DEF list
    <3>3. CASE adapter # "mysql"
      <4>1. adapter \in {"postgresql", "sqlserver"}
        BY <2>0, <2>5, <3>3, OwnOperations
      <4>2. list.status = "rows"
        BY <4>1 DEF ListObjects, Rows
      <4>3. answer = Rows({[row |-> r.row, from |-> r.row] : r \in list.rows})
        BY <3>1, <3>3 DEF ListRoutines
      <4>4. {r.row : r \in list.rows} = ExpectedList(call)
        BY <2>0, <2>5, <3>1, <4>2, ObjectsAreListed
      <4> HIDE DEF list
      <4>5. answer = Rows({[row |-> x, from |-> x] : x \in {r.row : r \in list.rows}})
        BY <4>3
      <4> QED BY <2>e, <4>4, <4>5
    <3> QED BY <3>2, <3>3
  <2> QED BY <2>2, <2>3, <2>4, <2>5 DEF Lists
<1> QED BY <1>1, CatalogInvariant, PTL

-----------------------------------------------------------------------------
(* What belongs to a table.                                                *)

\* What the adapters find is what was meant.
LEMMA SubjectIs ==
    ASSUME NEW q, Understood(q), NEW S
    PROVE  /\ ~Elsewhere(q, S) \/ adapter # "sqlserver" => Subject(q, SchemaOr(q), S) = Meant(q, S)
           /\ adapter # "postgresql" \/ SchemaOr(q) = Default => ObjectId(S, q.name) = Meant(q, S)
           /\ adapter # "postgresql" => SchemaOr(q) = Default /\ Session = Default
<1>1. given /\ (adapter = "postgresql" \/ SchemaOr(q) = Default)
  BY DEF Understood
<1>2. Session = Default
  BY <1>1 DEF Session
<1>3. adapter # "postgresql" \/ SchemaOr(q) = Default => ObjectId(S, q.name) = Meant(q, S)
  BY <1>1 DEF ObjectId, Meant
<1>4. ~Elsewhere(q, S) \/ adapter # "sqlserver" => Subject(q, SchemaOr(q), S) = Meant(q, S)
  BY <1>1, <1>2 DEF Subject, Meant, Elsewhere
<1> QED BY <1>1, <1>2, <1>3, <1>4

\* It is one table or view, if any, whose parts have different names.
LEMMA MeantIs ==
    ASSUME CatalogInv, NEW q, NEW o \in Meant(q, Relations)
    PROVE  /\ Meant(q, Relations) = {o}
           /\ o \in Objects /\ o.schema = SchemaOr(q) /\ o.name = q.name
           /\ o \in objects /\ o.kind \in {"table", "view"}
           /\ DifferentNames(o.columns) /\ DifferentNames(o.triggers) /\ DifferentNames(o.indexes)
           /\ \A t \in o.triggers : IsFiniteSet(t.events) /\ t.events # {}
           /\ \A i \in o.indexes : IsFiniteSet(i.columns) /\ i.columns # {}
           /\ \A c \in o.columns : /\ IsKey(c) \/ c.role \in {"compact_value", "regular"}
                                   /\ c.position \in Int
                                   /\ IF IsKey(c) THEN c.position >= 0 ELSE c.position = -1
<1>1. \A p \in Meant(q, Relations) : /\ p \in Relations /\ p.schema = SchemaOr(q) /\ p.name = q.name
                                     /\ p \in objects /\ p.kind \in {"table", "view"} /\ p \in Objects
  BY DEF Meant, In, Relations, Kind, CatalogInv, ObjectsApart
<1>2. Meant(q, Relations) = {o}
  BY <1>1 DEF CatalogInv, ObjectsApart, SameName
<1> QED BY <1>1, <1>2, ObjectsAssumption

\* A set with one element at most, that has one.
LEMMA OnlyOne ==
    ASSUME NEW S, IsFiniteSet(S), S # {}, ~(Cardinality(S) > 1)
    PROVE  \E x : S = {x}
<1>1. Cardinality(S) \in Nat /\ Cardinality(S) # 0
  BY FS_CardinalityType, FS_EmptySet
<1> QED BY <1>1, FS_Singleton

\* The rows of an object with parts of different names, one for each part.
LEMMA PartRows ==
    ASSUME NEW S, NEW parts, DifferentNames(parts), NEW f,
           \A r \in S : \E p \in parts : r = [row |-> p.name, from |-> f[p]],
           \A p \in parts : [row |-> p.name, from |-> f[p]] \in S
    PROVE  Exactly(S, {p.name : p \in parts})
<1>1. ASSUME NEW r \in S PROVE \E p \in parts : r = [row |-> p.name, from |-> f[p]]
  OBVIOUS
<1>2. \A r \in S : r.row \in {p.name : p \in parts}
  BY <1>1
<1>3. ASSUME NEW n \in {p.name : p \in parts} PROVE \E r \in S : r.row = n
  <2>1. PICK p \in parts : n = p.name
    OBVIOUS
  <2>2. [row |-> p.name, from |-> f[p]] \in S
    OBVIOUS
  <2> QED BY <2>1, <2>2
<1>4. ASSUME NEW r1 \in S, NEW r2 \in S, r1.row = r2.row PROVE r1 = r2
  <2>1. PICK p1 \in parts : r1 = [row |-> p1.name, from |-> f[p1]]
    BY <1>1
  <2>2. PICK p2 \in parts : r2 = [row |-> p2.name, from |-> f[p2]]
    BY <1>1
  <2>3. p1 = p2
    BY <1>4, <2>1, <2>2 DEF DifferentNames
  <2> QED BY <2>1, <2>2, <2>3
<1> QED BY <1>2, <1>3, <1>4, RowByRow

\* No part of what is not there.
LEMMA NoRows == ASSUME NEW S, NEW expected, S = {}, expected = {} PROVE Exactly(S, expected)
  BY DEF Exactly

LEMMA ColumnsMatch ==
    ASSUME CatalogInv, NEW q, q.op = "listTableColumns", Understood(q), ~PartsBlurred(q),
           ListTableColumns(q, SchemaOr(q)).status = "rows"
    PROVE  Exactly(ListTableColumns(q, SchemaOr(q)).rows, ExpectedParts(q))
<1> DEFINE rows == ListTableColumns(q, SchemaOr(q)).rows
<1>1. rows = UNION {{[row |-> c.name, from |-> <<o, c>>] : c \in o.columns} : o \in Meant(q, Relations)}
  <2>1. Subject(q, SchemaOr(q), Relations) = Meant(q, Relations)
    BY SubjectIs DEF PartsBlurred
  <2> QED BY <2>1 DEF ListTableColumns, Rows, Failed
<1>2. ExpectedParts(q) = UNION {{c.name : c \in o.columns} : o \in Meant(q, Relations)}
  BY DEF ExpectedParts
<1> HIDE DEF rows
<1>3. CASE Meant(q, Relations) = {}
  BY <1>1, <1>2, <1>3, NoRows DEF rows
<1>4. ASSUME NEW o \in Meant(q, Relations) PROVE Exactly(rows, ExpectedParts(q))
  <2> DEFINE f == [c \in o.columns |-> <<o, c>>]
  <2>1. /\ rows = {[row |-> c.name, from |-> <<o, c>>] : c \in o.columns}
        /\ ExpectedParts(q) = {c.name : c \in o.columns} /\ DifferentNames(o.columns)
    BY <1>1, <1>2, MeantIs
  <2>2. \A r \in rows : \E c \in o.columns : r = [row |-> c.name, from |-> f[c]]
    BY <2>1
  <2>3. \A c \in o.columns : [row |-> c.name, from |-> f[c]] \in rows
    BY <2>1
  <2> HIDE DEF f
  <2>4. Exactly(rows, {c.name : c \in o.columns})
    BY <2>1, <2>2, <2>3, PartRows
  <2> QED BY <2>1, <2>4
<1> QED BY <1>3, <1>4 DEF rows

LEMMA TriggersMatch ==
    ASSUME CatalogInv, NEW q, q.op = "listTableTriggers", Understood(q), ~PartsBlurred(q),
           ListTableTriggers(q, SchemaOr(q)).status = "rows"
    PROVE  Exactly(ListTableTriggers(q, SchemaOr(q)).rows, ExpectedParts(q))
<1> DEFINE rows == ListTableTriggers(q, SchemaOr(q)).rows
<1>1. rows = UNION {TriggerRows(o) : o \in Meant(q, Relations)}
  <2>1. CASE adapter = "sqlserver"
    <3>1. ObjectId(Relations, q.name) = Meant(q, Relations)
      BY <2>1, SubjectIs
    <3> QED BY <2>1, <3>1 DEF ListTableTriggers, Rows, Failed
  <2>2. CASE adapter # "sqlserver"
    <3>1. Subject(q, SchemaOr(q), Relations) = Meant(q, Relations)
      BY <2>2, SubjectIs
    <3> QED BY <2>2, <3>1 DEF ListTableTriggers, Rows, Failed
  <2> QED BY <2>1, <2>2
<1>2. ExpectedParts(q) = UNION {{t.name : t \in o.triggers} : o \in Meant(q, Relations)}
  BY DEF ExpectedParts
<1> HIDE DEF rows
<1>3. CASE Meant(q, Relations) = {}
  BY <1>1, <1>2, <1>3, NoRows DEF rows
<1>4. ASSUME NEW o \in Meant(q, Relations) PROVE Exactly(rows, ExpectedParts(q))
  <2>1. /\ rows = TriggerRows(o)
        /\ ExpectedParts(q) = {t.name : t \in o.triggers} /\ DifferentNames(o.triggers)
    BY <1>1, <1>2, MeantIs
  <2>2. CASE adapter = "postgresql"
    <3> DEFINE f == [t \in o.triggers |-> <<o, t, CHOOSE e \in t.events : TRUE>>]
    <3>1. ASSUME NEW t \in o.triggers PROVE t.events = {CHOOSE e \in t.events : TRUE}
      <4>0. /\ ~(Cardinality(t.events) > 1)
            /\ IsFiniteSet(t.events) /\ t.events # {}
        BY <2>2, MeantIs DEF PartsBlurred
      <4>1. \E e : t.events = {e}
        BY <4>0, OnlyOne
      <4> QED BY <4>1
    <3>2. rows = UNION {{[row |-> t.name, from |-> <<o, t, e>>] : e \in t.events} : t \in o.triggers}
      BY <2>1, <2>2 DEF TriggerRows
    <3>3. ASSUME NEW r \in rows PROVE \E t \in o.triggers : r = [row |-> t.name, from |-> f[t]]
      <4>0. PICK t \in o.triggers : r \in {[row |-> t.name, from |-> <<o, t, e>>] : e \in t.events}
        BY <3>2
      <4>1. PICK e \in t.events : r = [row |-> t.name, from |-> <<o, t, e>>]
        BY <4>0
      <4>2. f[t] = <<o, t, e>>
        BY <3>1, <4>1
      <4> QED BY <4>1, <4>2
    <3>4. ASSUME NEW t \in o.triggers PROVE [row |-> t.name, from |-> f[t]] \in rows
      <4>1. PICK e \in t.events : f[t] = <<o, t, e>>
        BY <3>1
      <4>2. [row |-> t.name, from |-> <<o, t, e>>] \in
              {[row |-> t.name, from |-> <<o, t, e2>>] : e2 \in t.events}
        OBVIOUS
      <4> QED BY <3>2, <4>1, <4>2
    <3> HIDE DEF f
    <3>5. Exactly(rows, {t.name : t \in o.triggers})
      BY <2>1, <3>3, <3>4, PartRows
    <3> QED BY <2>1, <3>5
  <2>3. CASE adapter # "postgresql"
    <3> DEFINE f == [t \in o.triggers |-> <<o, t>>]
    <3>1. rows = {[row |-> t.name, from |-> <<o, t>>] : t \in o.triggers}
      BY <2>1, <2>3 DEF TriggerRows
    <3>2. \A r \in rows : \E t \in o.triggers : r = [row |-> t.name, from |-> f[t]]
      BY <3>1
    <3>3. \A t \in o.triggers : [row |-> t.name, from |-> f[t]] \in rows
      BY <3>1
    <3> HIDE DEF f
    <3>4. Exactly(rows, {t.name : t \in o.triggers})
      BY <2>1, <3>2, <3>3, PartRows
    <3> QED BY <2>1, <3>4
  <2> QED BY <2>2, <2>3
<1> QED BY <1>3, <1>4 DEF rows

LEMMA IndexesMatch ==
    ASSUME CatalogInv, NEW q, q.op = "listTableIndexes", Understood(q), ~PartsBlurred(q),
           ListTableIndexes(q, SchemaOr(q)).status = "rows"
    PROVE  Exactly(ListTableIndexes(q, SchemaOr(q)).rows, ExpectedParts(q))
<1> DEFINE rows == ListTableIndexes(q, SchemaOr(q)).rows
<1>1. rows = UNION {IndexRows(o) : o \in Meant(q, Relations)}
  <2>1. CASE adapter = "sqlserver"
    <3>1. ObjectId(Relations, q.name) = Meant(q, Relations)
      BY <2>1, SubjectIs
    <3> QED BY <2>1, <3>1 DEF ListTableIndexes, Rows, Failed
  <2>2. CASE adapter # "sqlserver"
    <3>1. Subject(q, SchemaOr(q), Relations) = Meant(q, Relations)
      BY <2>2, SubjectIs
    <3> QED BY <2>2, <3>1 DEF ListTableIndexes, Rows, Failed
  <2> QED BY <2>1, <2>2
<1>2. ExpectedParts(q) = UNION {{i.name : i \in o.indexes} : o \in Meant(q, Relations)}
  BY DEF ExpectedParts
<1> HIDE DEF rows
<1>3. CASE Meant(q, Relations) = {}
  BY <1>1, <1>2, <1>3, NoRows DEF rows
<1>4. ASSUME NEW o \in Meant(q, Relations) PROVE Exactly(rows, ExpectedParts(q))
  <2>1. /\ rows = IndexRows(o)
        /\ ExpectedParts(q) = {i.name : i \in o.indexes} /\ DifferentNames(o.indexes)
    BY <1>1, <1>2, MeantIs
  <2>2. CASE adapter = "mysql"
    <3> DEFINE f == [i \in o.indexes |-> <<o, i, CHOOSE c \in i.columns : TRUE>>]
    <3>1. ASSUME NEW i \in o.indexes PROVE i.columns = {CHOOSE c \in i.columns : TRUE}
      <4>0. /\ ~(Cardinality(i.columns) > 1)
            /\ IsFiniteSet(i.columns) /\ i.columns # {}
        BY <2>2, MeantIs DEF PartsBlurred
      <4>1. \E c : i.columns = {c}
        BY <4>0, OnlyOne
      <4> QED BY <4>1
    <3>2. rows = UNION {{[row |-> i.name, from |-> <<o, i, c>>] : c \in i.columns} : i \in o.indexes}
      BY <2>1, <2>2 DEF IndexRows
    <3>3. ASSUME NEW r \in rows PROVE \E i \in o.indexes : r = [row |-> i.name, from |-> f[i]]
      <4>0. PICK i \in o.indexes : r \in {[row |-> i.name, from |-> <<o, i, c>>] : c \in i.columns}
        BY <3>2
      <4>1. PICK c \in i.columns : r = [row |-> i.name, from |-> <<o, i, c>>]
        BY <4>0
      <4>2. f[i] = <<o, i, c>>
        BY <3>1, <4>1
      <4> QED BY <4>1, <4>2
    <3>4. ASSUME NEW i \in o.indexes PROVE [row |-> i.name, from |-> f[i]] \in rows
      <4>1. PICK c \in i.columns : f[i] = <<o, i, c>>
        BY <3>1
      <4>2. [row |-> i.name, from |-> <<o, i, c>>] \in
              {[row |-> i.name, from |-> <<o, i, c2>>] : c2 \in i.columns}
        OBVIOUS
      <4> QED BY <3>2, <4>1, <4>2
    <3> HIDE DEF f
    <3>5. Exactly(rows, {i.name : i \in o.indexes})
      BY <2>1, <3>3, <3>4, PartRows
    <3> QED BY <2>1, <3>5
  <2>3. CASE adapter # "mysql"
    <3> DEFINE f == [i \in o.indexes |-> <<o, i>>]
    <3>1. rows = {[row |-> i.name, from |-> <<o, i>>] : i \in o.indexes}
      BY <2>1, <2>3 DEF IndexRows
    <3>2. \A r \in rows : \E i \in o.indexes : r = [row |-> i.name, from |-> f[i]]
      BY <3>1
    <3>3. \A i \in o.indexes : [row |-> i.name, from |-> f[i]] \in rows
      BY <3>1
    <3> HIDE DEF f
    <3>4. Exactly(rows, {i.name : i \in o.indexes})
      BY <2>1, <3>2, <3>3, PartRows
    <3> QED BY <2>1, <3>4
  <2> QED BY <2>2, <2>3
<1> QED BY <1>3, <1>4 DEF rows

LEMMA ViewsMatch ==
    ASSUME CatalogInv, NEW q, q.op = "getViewCreateScript", Understood(q), ~PartsBlurred(q),
           q.op \notin Inherited,
           GetViewCreateScript(q, SchemaOr(q)).status = "rows"
    PROVE  Exactly(GetViewCreateScript(q, SchemaOr(q)).rows, ExpectedParts(q))
<1> DEFINE s    == SchemaOr(q)
           rows == GetViewCreateScript(q, s).rows
           Row(o) == [row |-> [head |-> IF adapter = "postgresql" THEN s ELSE o.schema,
                               body |-> IF adapter = "postgresql" /\ o.kind # "view" THEN None ELSE o],
                      from |-> o]
<1>1. rows = {Row(o) : o \in ViewFound(q)} /\ (ViewFound(q) # {} \/ adapter = "sqlite")
  BY DEF GetViewCreateScript, Rows, Failed
<1>2. ExpectedParts(q) = {[head |-> o.schema, body |-> o] : o \in Meant(q, Relations)}
  BY DEF ExpectedParts
<1>3. adapter \in {"postgresql", "mysql", "sqlserver", "sqlite"}
  BY OwnOperations DEF CatalogInv, Adapters
<1>4. Meant(q, Kind("view")) \subseteq Meant(q, Relations)
  BY DEF Meant, In, Relations
<1>5. /\ ViewFound(q) = Meant(q, Relations)
      /\ adapter = "postgresql" => \A o \in Meant(q, Relations) : o.kind = "view" /\ o.schema = s
  <2>1. CASE adapter = "postgresql"
    <3>1. s = Default /\ Meant(q, Kind("view")) # {}
      BY <2>1 DEF PartsBlurred
    <3>2. PICK o : o \in Meant(q, Kind("view"))
      BY <3>1
    <3>3. Meant(q, Relations) = {o} /\ o.kind = "view" /\ o.schema = s
      BY <1>4, <3>2, MeantIs DEF Meant, In, Kind
    <3>4. ViewFound(q) = Meant(q, Relations)
      BY <2>1, <3>1, SubjectIs DEF ViewFound
    <3> QED BY <3>3, <3>4
  <2>2. CASE adapter \in {"mysql", "sqlserver"}
    <3>1. ViewFound(q) = Meant(q, Kind("view"))
      BY <2>2, SubjectIs DEF ViewFound, ObjectId, Meant
    <3>2. PICK o : o \in Meant(q, Kind("view"))
      BY <1>1, <2>2, <3>1
    <3>3. Meant(q, Relations) = {o}
      BY <1>4, <3>2, MeantIs
    <3> QED BY <1>4, <2>2, <3>1, <3>2, <3>3
  <2>3. CASE adapter = "sqlite"
    BY <2>3, SubjectIs DEF ViewFound, Meant
  <2> QED BY <1>3, <2>1, <2>2, <2>3
<1> HIDE DEF rows, Row
<1>6. CASE Meant(q, Relations) = {}
  BY <1>1, <1>2, <1>5, <1>6, NoRows DEF rows
<1>7. ASSUME NEW o \in Meant(q, Relations) PROVE Exactly(rows, ExpectedParts(q))
  <2>1. Meant(q, Relations) = {o}
    BY MeantIs
  <2>2. rows = {Row(o)} /\ ExpectedParts(q) = {[head |-> o.schema, body |-> o]}
    BY <1>1, <1>2, <1>5, <2>1
  <2>3. Row(o).row = [head |-> o.schema, body |-> o]
    BY <1>5 DEF Row
  <2> QED BY <2>2, <2>3, RowByRow
<1> QED BY <1>6, <1>7 DEF rows

LEMMA RoutinesMatch ==
    ASSUME CatalogInv, NEW q, q.op = "getRoutineCreateScript", Understood(q), ~PartsBlurred(q),
           q.op \notin Inherited,
           GetRoutineCreateScript(q, SchemaOr(q)).status = "rows"
    PROVE  Exactly(GetRoutineCreateScript(q, SchemaOr(q)).rows, ExpectedParts(q))
<1> DEFINE rows == GetRoutineCreateScript(q, SchemaOr(q)).rows
           routines == {o \in Subject(q, SchemaOr(q), Kind("routine")) :
                          adapter = "postgresql" /\ legacy => o.schema = Default}
<1>1. rows = {[row |-> o, from |-> o] : o \in routines}
  BY DEF GetRoutineCreateScript, Rows, Failed
<1>2. ExpectedParts(q) = Meant(q, Kind("routine"))
  BY DEF ExpectedParts
<1>3. Subject(q, SchemaOr(q), Kind("routine")) = Meant(q, Kind("routine"))
  BY SubjectIs DEF PartsBlurred
<1>4. \A o \in Meant(q, Kind("routine")) : o.schema = SchemaOr(q)
  BY DEF Meant, In
<1>5. routines = Meant(q, Kind("routine"))
  BY <1>3, <1>4 DEF PartsBlurred
<1> HIDE DEF rows, routines
<1>6. ASSUME NEW r \in rows PROVE r.row \in routines /\ r = [row |-> r.row, from |-> r.row]
  <2>1. PICK o \in routines : r = [row |-> o, from |-> o]
    BY <1>1
  <2> QED BY <2>1
<1>7. ASSUME NEW o \in routines PROVE \E r \in rows : r.row = o
  <2>1. [row |-> o, from |-> o] \in rows
    BY <1>1
  <2> QED BY <2>1
<1>8. \A r1, r2 \in rows : r1.row = r2.row => r1 = r2
  BY <1>6
<1>9. Exactly(rows, routines)
  BY <1>6, <1>7, <1>8, RowByRow
<1> QED BY <1>2, <1>5, <1>9 DEF rows

\* Cassandra's comparison puts keys first.
LEMMA KeysFirst ==
    ASSUME CatalogInv, NEW q, q.op = "listTableColumns", adapter = "cassandra",
           ListTableColumns(q, SchemaOr(q)).status = "rows",
           NEW r1 \in ListTableColumns(q, SchemaOr(q)).rows,
           NEW r2 \in ListTableColumns(q, SchemaOr(q)).rows,
           IsKey(r1.from[2]), ~IsKey(r2.from[2]), ~(legacy /\ r2.from[2].role = "compact_value")
    PROVE  Rank(r1.from[2]) < Rank(r2.from[2])
<1> DEFINE found == Subject(q, SchemaOr(q), Relations)
<1>1. ListTableColumns(q, SchemaOr(q)).rows =
        UNION {{[row |-> c.name, from |-> <<o, c>>] : c \in o.columns} : o \in found}
  BY DEF ListTableColumns, Rows, Failed
<1>2. found \subseteq Objects
  BY DEF Subject, In, Relations, Kind, CatalogInv, ObjectsApart
<1> HIDE DEF found
<1>3. ASSUME NEW r \in ListTableColumns(q, SchemaOr(q)).rows
      PROVE  LET c == r.from[2] IN
             /\ IsKey(c) \/ c.role \in {"compact_value", "regular"}
             /\ c.position \in Int /\ IF IsKey(c) THEN c.position >= 0 ELSE c.position = -1
  <2>1. PICK o \in found : r \in {[row |-> c.name, from |-> <<o, c>>] : c \in o.columns}
    BY <1>1
  <2>2. PICK c \in o.columns : r = [row |-> c.name, from |-> <<o, c>>]
    BY <2>1
  <2>3. r.from[2] = c
    BY <2>2
  <2> QED BY <1>2, <2>3, ObjectsAssumption
<1>4. CASE legacy
  <2>1. r2.from[2].role = "regular" /\ r1.from[2].role \in {"partition_key", "clustering_key"}
    BY <1>3, <1>4 DEF IsKey
  <2> QED BY <1>4, <2>1 DEF Rank, Alphabetical
<1>5. CASE ~legacy
  <2>1. /\ r1.from[2].position \in Int /\ r1.from[2].position >= 0
        /\ r2.from[2].position = -1
    BY <1>3
  <2> QED BY <1>5, <2>1 DEF Rank
<1> QED BY <1>4, <1>5

\* Columns, triggers, indexes, views and routines are those of the object that was asked
\* about, each once, and Cassandra's key columns come first, whatever else the database
\* holds.
THEOREM OwnParts == Spec => []PartsAreItsOwn
<1>1. CatalogInv => PartsMatch
  <2> SUFFICES ASSUME CatalogInv, Answered, call.op \notin Inherited, answer.status = "rows",
                      call.op \in {"listTableColumns", "listTableTriggers", "listTableIndexes",
                                   "getViewCreateScript", "getRoutineCreateScript"},
                      Understood(call), ~PartsBlurred(call)
               PROVE  Exactly(answer.rows, ExpectedParts(call))
    BY DEF PartsMatch, Returns, Asks
  <2>1. answer = Reply(call)
    BY AnswerIs DEF Composed
  <2>2. CASE call.op = "listTableColumns"
    BY <2>1, <2>2, ReplyIs, ColumnsMatch
  <2>3. CASE call.op = "listTableTriggers"
    BY <2>1, <2>3, ReplyIs, TriggersMatch
  <2>4. CASE call.op = "listTableIndexes"
    BY <2>1, <2>4, ReplyIs, IndexesMatch
  <2>5. CASE call.op = "getViewCreateScript"
    BY <2>1, <2>5, ReplyIs, ViewsMatch
  <2>6. CASE call.op = "getRoutineCreateScript"
    BY <2>1, <2>6, ReplyIs, RoutinesMatch
  <2> QED BY <2>2, <2>3, <2>4, <2>5, <2>6
<1>2. CatalogInv => KeysComeFirst
  <2> SUFFICES ASSUME CatalogInv, Answered, call.op = "listTableColumns", call.op \notin Inherited,
                      answer.status = "rows", adapter = "cassandra",
                      NEW r1 \in answer.rows, NEW r2 \in answer.rows,
                      IsKey(r1.from[2]), ~IsKey(r2.from[2]),
                      ~(legacy /\ r2.from[2].role = "compact_value")
               PROVE  Rank(r1.from[2]) < Rank(r2.from[2])
    BY DEF KeysComeFirst, Returns, Asks
  <2>1. answer = ListTableColumns(call, SchemaOr(call))
    BY AnswerIs, ReplyIs DEF Composed
  <2> QED BY <2>1, KeysFirst
<1> QED BY <1>1, <1>2, CatalogInvariant, PTL DEF PartsAreItsOwn

-----------------------------------------------------------------------------
(* Scripts.                                                                *)

\* A table has one primary key or none, and constraints only if it exists.
LEMMA KeyIs ==
    ASSUME CatalogInv, NEW o
    PROVE  \/ Primary(Of(o.schema, o.name)) = {} /\ KeyOf(o) = {}
           \/ \E c \in Candidates : /\ Primary(Of(o.schema, o.name)) = {c} /\ KeyOf(o) = c.columns
                                    /\ IsFiniteSet(c.columns) /\ c.columns # {} /\ c # None
<1> DEFINE P == Primary(Of(o.schema, o.name))
<1>1. \A c, d \in P : c = d /\ c \in Candidates
  BY DEF CatalogInv, ConstraintsApart, Primary, Of
<1>2. KeyOf(o) = UNION {c.columns : c \in P}
  BY DEF KeyOf
<1> HIDE DEF P
<1>3. CASE P = {}
  BY <1>2, <1>3 DEF P
<1>4. ASSUME NEW c \in P PROVE P = {c} /\ KeyOf(o) = c.columns /\ c \in Candidates
  <2>1. P = {c}
    BY <1>1
  <2> QED BY <1>1, <1>2, <2>1
<1> QED BY <1>3, <1>4, CandidatesAssumption DEF P

\* SQL Server, if the name is that of one table only and of no other constraint.
LEMMA SqlServerScriptIs ==
    ASSUME CatalogInv, NEW q, Understood(q), adapter = "sqlserver", ~ScriptBlurred(q),
           NEW o \in Meant(q, Kind("table"))
    PROVE  \E x : SqlServerScripts(q.name) = {[row |-> Script(None, o, KeyOf(o)), from |-> x]}
<1> DEFINE n == q.name
           tables == Named(Kind("table"), n)
           primary == Primary(UNION {Of(s, n) : s \in Schemas})
           Key(c) == IF c = None THEN {} ELSE {u.column : u \in {u \in KeyColumnUsage : u.key.name = c.name}}
<1>1. o \in Meant(q, Relations) /\ o \in Kind("table") /\ o.name = n /\ o.schema = SchemaOr(q)
  BY DEF Meant, In, Relations
<1>2. Named(Relations, n) = {o}
  BY <1>1, MeantIs DEF ScriptBlurred, Elsewhere
<1>3. tables = {o}
  BY <1>1, <1>2 DEF Named, Relations
<1>4. primary = Primary(Of(o.schema, n))
  <2>1. ASSUME NEW c \in constraints, c.table = n PROVE c.schema = o.schema
    <3>1. PICK p \in Kind("table") : p.schema = c.schema /\ p.name = n
      BY <2>1 DEF CatalogInv, ConstraintsApart, In
    <3>2. p \in Named(Relations, n)
      BY <3>1 DEF Named, Relations
    <3> QED BY <1>2, <3>1, <3>2
  <2>2. o.schema \in Schemas
    BY <1>1, MeantIs, ObjectsAssumption
  <2> QED BY <2>1, <2>2 DEF Primary, Of
<1>5. ColumnNames(Named(Relations, n)) = ColumnNames({o})
  BY <1>2
<1> DEFINE pairs == tables \X (IF primary = {} THEN {None} ELSE primary)
<1>6. SqlServerScripts(n) =
        {[row |-> [head |-> <<None, n>>, columns |-> ColumnNames({o}), key |-> Key(j[2])],
          from |-> j] : j \in pairs}
  BY <1>5 DEF SqlServerScripts
<1>7. ASSUME NEW c \in {None} \cup Candidates, pairs = {<<o, c>>}, Key(c) = KeyOf(o)
      PROVE  SqlServerScripts(n) = {[row |-> Script(None, o, KeyOf(o)), from |-> <<o, c>>]}
  <2> HIDE DEF pairs, Key
  <2>1. SqlServerScripts(n) = {[row |-> [head |-> <<None, n>>, columns |-> ColumnNames({o}),
                                         key |-> KeyOf(o)], from |-> <<o, c>>]}
    BY <1>6, <1>7
  <2> QED BY <1>1, <2>1 DEF Script
<1>8. CASE primary = {}
  <2>1. pairs = {<<o, None>>} /\ Key(None) = {}
    BY <1>3, <1>8
  <2>2. KeyOf(o) = {}
    BY <1>1, <1>4, <1>8, KeyIs
  <2> HIDE DEF pairs, Key
  <2> QED BY <1>7, <2>1, <2>2
<1>9. ASSUME NEW c \in Candidates, primary = {c}, KeyOf(o) = c.columns, c # None
      PROVE  \E x : SqlServerScripts(n) = {[row |-> Script(None, o, KeyOf(o)), from |-> x]}
  <2>1. pairs = {<<o, c>>}
    <3>1. pairs = {o} \X {c}
      BY <1>3, <1>9
    <3>2. {o} \X {c} = {<<o, c>>}
      OBVIOUS
    <3> HIDE DEF pairs
    <3> QED BY <3>1, <3>2
  <2>2. Key(c) = c.columns
    <3>1. c \in Primary(Of(SchemaOr(q), n)) /\ c \in constraints
      BY <1>1, <1>4, <1>9 DEF Primary, Of
    <3>2. \A e \in constraints : e.name = c.name => e = c
      BY <3>1 DEF ScriptBlurred
    <3>3. ASSUME NEW x \in Key(c) PROVE x \in c.columns
      <4>1. PICK u \in KeyColumnUsage : u.key.name = c.name /\ x = u.column
        BY <1>9
      <4>2. PICK e \in constraints : u \in {[key |-> e, column |-> y] : y \in e.columns}
        BY <4>1 DEF KeyColumnUsage
      <4>3. u.key = e /\ u.column \in e.columns
        BY <4>2
      <4> QED BY <3>2, <4>1, <4>3
    <3>4. ASSUME NEW x \in c.columns PROVE x \in Key(c)
      <4>1. [key |-> c, column |-> x] \in KeyColumnUsage
        BY <3>1 DEF KeyColumnUsage
      <4> QED BY <1>9, <4>1
    <3> HIDE DEF Key
    <3> QED BY <3>3, <3>4
  <2> HIDE DEF pairs, Key
  <2> QED BY <1>7, <1>9, <2>1, <2>2
<1> QED BY <1>1, <1>4, <1>8, <1>9, KeyIs

\* The script of a table is the only one, and it has all columns and the whole primary
\* key, whatever tables and constraints the database holds and, for PostgreSQL, whatever
\* happened to other tables before the script was put together.
THEOREM WholeScript == Spec => []ScriptIsWhole
<1>1. CatalogInv => ScriptIsWhole
  <2> SUFFICES ASSUME CatalogInv, Answered, call.op = "getTableCreateScript", call.op \notin Inherited,
                      answer.status = "rows", Understood(call), ~changed, ~ScriptBlurred(call),
                      NEW o \in Meant(call, Kind("table")),
                      adapter = "postgresql" => Cardinality(KeyOf(o)) = 1
               PROVE  Exactly(answer.rows,
                              {Script(IF adapter = "postgresql" THEN o.schema ELSE None, o, KeyOf(o))})
    BY DEF ScriptIsWhole, Returns, Asks
  <2>1. /\ o \in Meant(call, Relations) /\ Meant(call, Relations) = {o}
        /\ o.schema = SchemaOr(call) /\ o.name = call.name /\ o \in Kind("table")
    <3>1. o \in Meant(call, Relations) /\ o \in Kind("table")
      BY DEF Meant, In, Relations
    <3> QED BY <3>1, MeantIs
  <2>2. Meant(call, Kind("table")) = {o}
    BY <2>1 DEF Meant, In, Relations
  <2>e. ASSUME NEW x, NEW y, answer.rows = {[row |-> x, from |-> y]} PROVE Exactly(answer.rows, {x})
    <3>1. \A r \in answer.rows : r.row = x
      BY <2>e
    <3>2. \E r \in answer.rows : r.row = x
      BY <2>e
    <3>3. \A r1, r2 \in answer.rows : r1 = r2
      BY <2>e
    <3> QED BY <3>1, <3>2, <3>3, RowByRow
  <2>3. CASE adapter = "postgresql"
    <3>1. Composed(call)
      BY <2>3 DEF Composed
    <3>2. PICK x \in AskedKey : answer = KeyScript(x)
      BY <3>1, AnswerIs DEF Failed
    <3>3. AskedKey = KeyOf(o)
      BY <2>1 DEF AskedKey, KeyOf
    <3>4. KeyOf(o) = {x}
      <4>1. IsFiniteSet(KeyOf(o))
        BY <3>2, <3>3, KeyIs
      <4>2. \E y : KeyOf(o) = {y}
        BY <2>3, <4>1, FS_Singleton
      <4> QED BY <3>2, <3>3, <4>2
    <3>5. ColumnNames(Asked) = ColumnNames({o})
      BY <2>1 DEF Asked
    <3>6. answer.rows = {[row |-> Script(o.schema, o, KeyOf(o)), from |-> x]}
      BY <2>1, <3>2, <3>4, <3>5 DEF KeyScript, Rows, Script
    <3> QED BY <2>e, <2>3, <3>6
  <2>4. CASE adapter # "postgresql"
    <3>1. answer = GetTableCreateScript(call)
      BY <2>4, AnswerIs, ReplyIs DEF Composed
    <3>2. PICK x : answer.rows = {[row |-> Script(None, o, KeyOf(o)), from |-> x]}
      <4>1. CASE adapter = "sqlserver"
        BY <3>1, <4>1, SqlServerScriptIs DEF GetTableCreateScript, Rows
      <4>2. CASE adapter = "mysql"
        <5>1. In(Kind("table"), Session, call.name) = {o}
          BY <2>2, <4>2, SubjectIs DEF Meant
        <5> QED BY <3>1, <4>2, <5>1 DEF GetTableCreateScript, Rows
      <4>3. CASE adapter = "sqlite"
        <5>1. In(Relations, Default, call.name) = {o}
          BY <2>1, <4>3, SubjectIs DEF Meant
        <5>2. answer.rows = {[row |-> Script(None, p, KeyOf(p)), from |-> p] :
                               p \in In(Relations, Default, call.name)}
          BY <3>1, <4>3 DEF GetTableCreateScript, Rows
        <5> QED BY <5>1, <5>2
      <4> QED BY <2>4, <4>1, <4>2, <4>3, OwnOperations DEF CatalogInv, Adapters
    <3> QED BY <2>4, <2>e, <3>2
  <2> QED BY <2>3, <2>4
<1> QED BY <1>1, CatalogInvariant, PTL

-----------------------------------------------------------------------------
(* Answers.                                                                *)

\* What is meant by a name exists for the adapter too.
LEMMA Found ==
    ASSUME CatalogInv, NEW q, Understood(q), NEW kind, Meant(q, Kind(kind)) # {},
           kind \in {"table", "view", "routine"}
    PROVE  /\ kind # "routine" => Meant(q, Relations) # {} /\ Named(Relations, q.name) # {}
           /\ adapter # "postgresql" =>
                /\ In(Kind(kind), Session, q.name) # {}
                /\ ObjectId(Kind(kind), q.name) # {}
<1>1. PICK o \in Kind(kind) : o.schema = SchemaOr(q) /\ o.name = q.name
  BY DEF Meant, In
<1>2. adapter # "postgresql" => SchemaOr(q) = Default /\ Session = Default
  BY SubjectIs
<1> QED BY <1>1, <1>2 DEF Meant, In, Named, ObjectId, Relations

\* A question about something that exists is answered, whatever else exists and, for
\* PostgreSQL's scripts, whatever changed in other tables; but for what Fragile names.
THEOREM Answers == Spec => []ExistingIsAnswered
<1>1. CatalogInv => ExistingIsAnswered
  <2> SUFFICES ASSUME CatalogInv, Answered, Understood(call), Exists(call), ~Fragile(call)
               PROVE  answer.status = "rows"
    BY DEF ExistingIsAnswered
  <2> USE DEF Rows
  <2>0. adapter \in Adapters /\ given /\ call.op \in Operations
    BY AnswerIs DEF CatalogInv, Understood
  <2>1. CASE Composed(call)
    <3>1. adapter = "postgresql" /\ call.op = "getTableCreateScript"
      BY <2>1 DEF Composed
    <3>2. PICK o : o \in Meant(call, Kind("table"))
      BY <3>1 DEF Exists, KindOf, Lists
    <3>3. ~changed /\ KeyOf(o) # {}
      BY <3>1, <3>2 DEF Fragile
    <3>4. AskedKey = KeyOf(o) /\ HasHeader(call)
      BY <3>2 DEF AskedKey, KeyOf, Meant, In, HasHeader, Named, Relations
    <3> QED BY <2>1, <3>3, <3>4, AnswerIs DEF KeyScript
  <2>2. CASE ~Composed(call) /\ call.op \in Inherited
    BY <2>2, AnswerIs DEF Reply
  <2>3. CASE ~Composed(call) /\ call.op \notin Inherited
    <3>0. answer = Reply(call)
      BY <2>3, AnswerIs
    <3> USE <2>0, <2>3, <3>0
    <3>1. CASE call.op = "listDatabases"
      <4>1. answer = ListDatabases(call)
        BY <3>1, ReplyIs
      <4> QED BY <3>1, <4>1 DEF ListDatabases, Fragile, Adapters
    <3>2. CASE call.op = "listSchemas"
      BY <3>2, ReplyIs DEF ListSchemas
    <3>3. \A k : ListObjects(call, k).status = "rows"
      BY DEF ListObjects
    <3>4. CASE call.op \in {"listTables", "listViews"}
      BY <3>3, <3>4, ReplyIs
    <3>5. CASE call.op = "listRoutines"
      BY <3>3, <3>5, ReplyIs DEF ListRoutines
    <3>6. CASE call.op = "listTableColumns"
      BY <3>6, ReplyIs DEF ListTableColumns
    <3>table. call.op \in {"listTableTriggers", "listTableIndexes", "getTableKeys", "getTableCreateScript"} =>
                Meant(call, Kind("table")) # {}
      BY DEF Exists, Lists, KindOf
    <3>7. CASE call.op = "listTableTriggers"
      <4>1. answer = ListTableTriggers(call, SchemaOr(call))
        BY <3>7, ReplyIs
      <4>2. adapter = "sqlserver" => ObjectId(Relations, call.name) # {}
        BY <3>7, <3>table, Found, SubjectIs
      <4> QED BY <4>1, <4>2 DEF ListTableTriggers
    <3>8. CASE call.op = "listTableIndexes"
      <4>1. answer = ListTableIndexes(call, SchemaOr(call))
        BY <3>8, ReplyIs
      <4>2. PICK o : o \in Meant(call, Relations)
        BY <3>8, <3>table, Found
      <4>3. CASE adapter = "mysql"
        <5>1. Subject(call, SchemaOr(call), Relations) # {}
          BY <4>2, <4>3, SubjectIs
        <5> QED BY <4>1, <4>3, <5>1 DEF ListTableIndexes
      <4>4. CASE adapter = "sqlserver"
        <5>1. ObjectId(Relations, call.name) = Meant(call, Relations)
          BY <4>4, SubjectIs
        <5>2. o.indexes # {}
          BY <3>8, <4>2, <4>4 DEF Fragile
        <5>3. IndexRows(o) = {[row |-> i.name, from |-> <<o, i>>] : i \in o.indexes}
          BY <4>4 DEF IndexRows
        <5>4. IndexRows(o) # {}
          BY <5>2, <5>3
        <5>5. UNION {IndexRows(p) : p \in Meant(call, Relations)} # {}
          BY <4>2, <5>4
        <5> QED BY <4>1, <4>4, <5>1, <5>5 DEF ListTableIndexes
      <4>5. CASE adapter \notin {"mysql", "sqlserver"}
        BY <4>1, <4>5 DEF ListTableIndexes
      <4> QED BY <4>3, <4>4, <4>5
    <3>9. CASE call.op = "getTableReferences"
      <4>1. answer = GetTableReferences(call, SchemaOr(call))
        BY <3>9, ReplyIs
      <4> QED BY <3>9, <4>1, OwnOperations DEF GetTableReferences
    <3>10. CASE call.op = "getTableKeys"
      <4>1. answer = GetTableKeys(call, SchemaOr(call))
        BY <3>10, ReplyIs
      <4>2. adapter = "cassandra" => In(Kind("table"), Default, call.name) # {}
        BY <3>10, <3>table, Found, SubjectIs
      <4> QED BY <3>10, <4>1, <4>2, OwnOperations DEF GetTableKeys
    <3>11. CASE call.op = "getTableCreateScript"
      <4>1. answer = GetTableCreateScript(call) /\ adapter \in {"mysql", "sqlserver", "sqlite"}
        BY <3>11, ReplyIs, OwnOperations DEF Composed, Adapters
      <4>2. adapter = "mysql" => In(Kind("table"), Session, call.name) # {}
        BY <3>11, <3>table, Found
      <4> QED BY <4>1, <4>2 DEF GetTableCreateScript
    <3>12. CASE call.op = "getViewCreateScript"
      <4>1. answer = GetViewCreateScript(call, SchemaOr(call)) /\ adapter # "cassandra"
        BY <3>12, ReplyIs, OwnOperations
      <4>2. Meant(call, Kind("view")) # {}
        BY <3>12 DEF Exists, KindOf, Lists
      <4>3. CASE adapter = "postgresql"
        <5>1. SchemaOr(call) = Default
          BY <3>12, <4>3 DEF Fragile
        <5>2. ViewFound(call) # {}
          BY <4>2, <4>3, <5>1, Found, SubjectIs DEF ViewFound
        <5> QED BY <4>1, <5>2 DEF GetViewCreateScript
      <4>4. CASE adapter \in {"mysql", "sqlserver"}
        <5>1. ViewFound(call) # {}
          BY <4>2, <4>4, Found DEF ViewFound
        <5> QED BY <4>1, <5>1 DEF GetViewCreateScript
      <4>5. CASE adapter = "sqlite"
        BY <4>1, <4>5 DEF GetViewCreateScript
      <4> QED BY <4>1, <4>3, <4>4, <4>5 DEF Adapters
    <3>13. CASE call.op = "getRoutineCreateScript"
      <4>1. answer = GetRoutineCreateScript(call, SchemaOr(call))
        BY <3>13, ReplyIs
      <4>2. CASE adapter = "mysql"
        <5>1. Meant(call, Kind("routine")) # {} /\ call.type # "FUNCTION"
          BY <3>13, <4>2 DEF Exists, Lists, Fragile
        <5>2. Subject(call, SchemaOr(call), Kind("routine")) # {}
          BY <4>2, <5>1, SubjectIs
        <5> QED BY <4>1, <4>2, <5>1, <5>2 DEF GetRoutineCreateScript
      <4>3. CASE adapter # "mysql"
        BY <4>1, <4>3 DEF GetRoutineCreateScript
      <4> QED BY <4>2, <4>3
    <3> QED BY <3>1, <3>2, <3>4, <3>5, <3>6, <3>7, <3>8, <3>9, <3>10, <3>11, <3>12, <3>13
            DEF Operations, Lists
  <2> QED BY <2>1, <2>2, <2>3
<1> QED BY <1>1, CatalogInvariant, PTL

-----------------------------------------------------------------------------
(* The constraints of a table.                                             *)

\* information_schema.key_column_usage has the columns of all keys.
LEMMA Usage ==
    /\ \A u \in KeyColumnUsage : /\ u.key \in constraints /\ u.column \in u.key.columns
                                 /\ u = [key |-> u.key, column |-> u.column]
    /\ \A c \in constraints : \A x \in c.columns : [key |-> c, column |-> x] \in KeyColumnUsage
<1>1. ASSUME NEW u \in KeyColumnUsage
      PROVE  u.key \in constraints /\ u.column \in u.key.columns /\ u = [key |-> u.key, column |-> u.column]
  <2>1. PICK c \in constraints : u \in {[key |-> c, column |-> x] : x \in c.columns}
    BY DEF KeyColumnUsage
  <2>2. PICK x \in c.columns : u = [key |-> c, column |-> x]
    BY <2>1
  <2> QED BY <2>2
<1>2. ASSUME NEW c \in constraints, NEW x \in c.columns PROVE [key |-> c, column |-> x] \in KeyColumnUsage
  BY DEF KeyColumnUsage
<1> QED BY <1>1, <1>2

\* One table does not have two constraints of a name.
LEMMA OwnNames ==
    ASSUME CatalogInv, NEW s, NEW n, NEW c \in Of(s, n), NEW d \in Of(s, n), c.name = d.name
    PROVE  c = d
<1>1. SameName(c, d) /\ c.table = d.table /\ c \in constraints /\ d \in constraints
  BY DEF Of, SameName
<1>2. ~MayShareName(c, d)
  BY <1>1 DEF MayShareName
<1> QED BY <1>1, <1>2 DEF CatalogInv, ConstraintsApart

\* A row for each column of each key, joined from what only this column is joined from.
LEMMA KeyRows ==
    ASSUME CatalogInv, NEW s, NEW n, NEW S, NEW f,
           \A r \in S : \E c \in Keys(Of(s, n)) : \E x \in c.columns :
             r = [row |-> KeyRow(c, x, c), from |-> f[c][x]],
           \A c \in Keys(Of(s, n)) : \A x \in c.columns :
             [row |-> KeyRow(c, x, c), from |-> f[c][x]] \in S
    PROVE  Exactly(S, UNION {{KeyRow(c, x, c) : x \in c.columns} : c \in Keys(Of(s, n))})
<1> DEFINE own == Keys(Of(s, n))
           expected == UNION {{KeyRow(c, x, c) : x \in c.columns} : c \in own}
<1>1. \A r \in S : r.row \in expected
  <2> SUFFICES ASSUME NEW r \in S PROVE r.row \in expected
    OBVIOUS
  <2>0. PICK c \in own : \E x \in c.columns : r = [row |-> KeyRow(c, x, c), from |-> f[c][x]]
    OBVIOUS
  <2>1. PICK x \in c.columns : r = [row |-> KeyRow(c, x, c), from |-> f[c][x]]
    BY <2>0
  <2>2. r.row = KeyRow(c, x, c) /\ KeyRow(c, x, c) \in {KeyRow(c, y, c) : y \in c.columns}
    BY <2>1
  <2> QED BY <2>2
<1>2. \A e \in expected : \E r \in S : r.row = e
  <2> SUFFICES ASSUME NEW e \in expected PROVE \E r \in S : r.row = e
    OBVIOUS
  <2>1. PICK c \in own : e \in {KeyRow(c, x, c) : x \in c.columns}
    OBVIOUS
  <2>2. PICK x \in c.columns : e = KeyRow(c, x, c)
    BY <2>1
  <2>3. [row |-> KeyRow(c, x, c), from |-> f[c][x]] \in S
    OBVIOUS
  <2> QED BY <2>2, <2>3
<1>3. \A r1, r2 \in S : r1.row = r2.row => r1 = r2
  <2> SUFFICES ASSUME NEW r1 \in S, NEW r2 \in S, r1.row = r2.row PROVE r1 = r2
    OBVIOUS
  <2>0. \A r \in S : \E c \in own : \E x \in c.columns : r = [row |-> KeyRow(c, x, c), from |-> f[c][x]]
    OBVIOUS
  <2>c. PICK c \in own : \E x \in c.columns : r1 = [row |-> KeyRow(c, x, c), from |-> f[c][x]]
    BY <2>0
  <2>1. PICK x \in c.columns : r1 = [row |-> KeyRow(c, x, c), from |-> f[c][x]]
    BY <2>c
  <2>d. PICK d \in own : \E y \in d.columns : r2 = [row |-> KeyRow(d, y, d), from |-> f[d][y]]
    BY <2>0
  <2>2. PICK y \in d.columns : r2 = [row |-> KeyRow(d, y, d), from |-> f[d][y]]
    BY <2>d
  <2>3. KeyRow(c, x, c) = KeyRow(d, y, d)
    BY <2>1, <2>2
  <2>4. Reported(c.name) = Reported(d.name) /\ x = y
    BY <2>3 DEF KeyRow
  <2>5. c.name = d.name
    BY <2>4 DEF Reported
  <2>6. c = d
    BY <2>5, OwnNames DEF Keys
  <2> QED BY <2>1, <2>2, <2>4, <2>6
<1> HIDE DEF expected
<1>4. Exactly(S, expected)
  BY <1>1, <1>2, <1>3, RowByRow
<1> QED BY <1>4 DEF expected

LEMMA PostgresKeysMatch ==
    ASSUME CatalogInv, NEW q, adapter = "postgresql", ~KeysBlurred(q)
    PROVE  Exactly(PostgresKeys(SchemaOr(q), q.name), ExpectedKeys(q))
<1> DEFINE own == Keys(Of(SchemaOr(q), q.name))
           S == PostgresKeys(SchemaOr(q), q.name)
           J == {j \in own \X KeyColumnUsage \X constraints : SameName(j[1], j[2].key) /\ SameName(j[1], j[3])}
           U(c, x) == [key |-> c, column |-> x]
           f == [c \in own |-> [x \in c.columns |-> <<c, U(c, x), c>>]]
<1>1. S = {[row |-> KeyRow(j[1], j[2].column, j[3]), from |-> j] : j \in J}
  BY DEF PostgresKeys, UsingSchema
<1>2. \A c \in own : c \in constraints /\ \A d \in constraints : SameName(c, d) => d = c
  BY DEF KeysBlurred, Keys, Of
<1>3. \A c \in own : \A x \in c.columns : f[c][x] = <<c, U(c, x), c>>
  OBVIOUS
<1> HIDE DEF f, S
<1>4. ASSUME NEW r \in S
      PROVE  \E c \in own : \E x \in c.columns : r = [row |-> KeyRow(c, x, c), from |-> f[c][x]]
  <2>1. PICK j \in J : r = [row |-> KeyRow(j[1], j[2].column, j[3]), from |-> j]
    BY <1>1
  <2>2. PICK c \in own, u \in KeyColumnUsage, d \in constraints :
          j = <<c, u, d>> /\ SameName(c, u.key) /\ SameName(c, d)
    BY <2>1
  <2>3. u.key = c /\ d = c /\ u.column \in c.columns /\ u = U(c, u.column)
    BY <1>2, <2>2, Usage
  <2>4. r = [row |-> KeyRow(c, u.column, c), from |-> f[c][u.column]]
    BY <1>3, <2>1, <2>2, <2>3
  <2> QED BY <2>3, <2>4
<1>5. ASSUME NEW c \in own, NEW x \in c.columns
      PROVE  [row |-> KeyRow(c, x, c), from |-> f[c][x]] \in S
  <2>1. U(c, x) \in KeyColumnUsage /\ c \in constraints
    BY <1>2, Usage
  <2>2. <<c, U(c, x), c>> \in J
    BY <2>1 DEF SameName
  <2> HIDE DEF J
  <2> QED BY <1>1, <1>3, <2>2
<1>6. Exactly(S, UNION {{KeyRow(c, x, c) : x \in c.columns} : c \in own})
  BY <1>4, <1>5, KeyRows
<1> QED BY <1>6 DEF ExpectedKeys, S

LEMMA MysqlKeysMatch ==
    ASSUME CatalogInv, NEW q, adapter = "mysql", Understood(q)
    PROVE  Exactly(MysqlKeys(q.name), ExpectedKeys(q))
<1> DEFINE own == Keys(Of(SchemaOr(q), q.name))
           S == MysqlKeys(q.name)
           f == [c \in own |-> [x \in c.columns |-> [key |-> c, column |-> x]]]
<1>1. S = {[row |-> KeyRow(u.key, u.column, u.key), from |-> u] : u \in {u \in KeyColumnUsage : u.key \in own}}
  BY SubjectIs DEF MysqlKeys
<1>2. \A c \in own : c \in constraints
  BY DEF Keys, Of
<1>3. \A c \in own : \A x \in c.columns : f[c][x] = [key |-> c, column |-> x]
  OBVIOUS
<1> HIDE DEF f, S
<1>4. ASSUME NEW r \in S
      PROVE  \E c \in own : \E x \in c.columns : r = [row |-> KeyRow(c, x, c), from |-> f[c][x]]
  <2>1. PICK u \in KeyColumnUsage : u.key \in own /\ r = [row |-> KeyRow(u.key, u.column, u.key), from |-> u]
    BY <1>1
  <2>2. u.column \in u.key.columns /\ u = [key |-> u.key, column |-> u.column]
    BY Usage
  <2> QED BY <1>3, <2>1, <2>2
<1>5. ASSUME NEW c \in own, NEW x \in c.columns
      PROVE  [row |-> KeyRow(c, x, c), from |-> f[c][x]] \in S
  <2>1. PICK u \in KeyColumnUsage : u = [key |-> c, column |-> x]
    BY <1>2, Usage
  <2>2. u.key = c /\ u.column = x
    BY <2>1
  <2> QED BY <1>1, <1>3, <2>1, <2>2
<1>6. Exactly(S, UNION {{KeyRow(c, x, c) : x \in c.columns} : c \in own})
  BY <1>4, <1>5, KeyRows
<1> QED BY <1>6 DEF ExpectedKeys, S


\* SQL Server: a table with one foreign key, whose constraints have names of their own.
LEMMA SqlServerKeysMatch ==
    ASSUME CatalogInv, NEW q, adapter = "sqlserver", Understood(q), ~KeysBlurred(q)
    PROVE  Exactly(SqlServerKeys(q.name), ExpectedKeys(q))
<1> DEFINE own == Keys(Of(SchemaOr(q), q.name))
           S == SqlServerKeys(q.name)
           U(c, x) == [key |-> c, column |-> x]
<1>0. SchemaOr(q) = Default /\ Default \in Schemas
  BY SubjectIs, CatalogAssumption
<1>1. ~Elsewhere(q, Kind("table")) /\ Cardinality(Foreign(own)) = 1
  BY DEF KeysBlurred
<1>2. \A c \in own : \A d \in constraints : c.name = d.name => d = c
  BY DEF KeysBlurred
<1>3. Keys(UNION {Of(s, q.name) : s \in Schemas}) = own
  <2>1. ASSUME NEW s \in Schemas, NEW c \in Of(s, q.name) PROVE c \in Of(Default, q.name)
    <3>1. c \in constraints /\ c.schema = s /\ c.table = q.name
      BY DEF Of
    <3>2. PICK o \in Kind("table") : o.schema = s /\ o.name = q.name
      BY <3>1 DEF CatalogInv, ConstraintsApart, In
    <3>3. o \in Named(Kind("table"), q.name)
      BY <3>2 DEF Named
    <3>4. o \in Meant(q, Kind("table"))
      BY <1>1, <3>3 DEF Elsewhere
    <3>5. s = Default
      BY <1>0, <3>2, <3>4 DEF Meant, In
    <3> QED BY <3>5
  <2>2. UNION {Of(s, q.name) : s \in Schemas} = Of(Default, q.name)
    BY <1>0, <2>1
  <2> QED BY <1>0, <2>2
<1>4. PICK fk : Foreign(own) = {fk}
  <2>1. IsFiniteSet(Foreign(own))
    BY FS_Subset DEF CatalogInv, ConstraintsApart, Foreign, Keys, Of
  <2> QED BY <1>1, <2>1, FS_Singleton
<1>5. Foreign(Of(Default, q.name)) = {fk}
  BY <1>0, <1>4 DEF Foreign, Keys
<1>6. \A c \in own : c \in constraints /\ \A x : KeyRow(c, x, fk) = KeyRow(c, x, c)
  BY <1>4 DEF KeyRow, Foreign, Keys, Of
<1> DEFINE J == {j \in own \X KeyColumnUsage \X {fk} : j[1].name = j[2].key.name}
           f == [c \in own |-> [x \in c.columns |-> <<c, U(c, x), fk>>]]
<1>7. S = {[row |-> KeyRow(j[1], j[2].column, j[3]), from |-> j] : j \in J}
  BY <1>3, <1>5 DEF SqlServerKeys
<1>8. \A c \in own : \A x \in c.columns : f[c][x] = <<c, U(c, x), fk>>
  OBVIOUS
<1> HIDE DEF f, S
<1>9. ASSUME NEW r \in S
      PROVE  \E c \in own : \E x \in c.columns : r = [row |-> KeyRow(c, x, c), from |-> f[c][x]]
  <2>1. PICK j \in J : r = [row |-> KeyRow(j[1], j[2].column, j[3]), from |-> j]
    BY <1>7
  <2>2. PICK c \in own, u \in KeyColumnUsage : j = <<c, u, fk>> /\ c.name = u.key.name
    BY <2>1
  <2>3. u.key = c /\ u.column \in c.columns /\ u = U(c, u.column)
    BY <1>2, <2>2, Usage
  <2>4. r = [row |-> KeyRow(c, u.column, c), from |-> f[c][u.column]]
    BY <1>6, <1>8, <2>1, <2>2, <2>3
  <2> QED BY <2>3, <2>4
<1>10. ASSUME NEW c \in own, NEW x \in c.columns
       PROVE  [row |-> KeyRow(c, x, c), from |-> f[c][x]] \in S
  <2>1. U(c, x) \in KeyColumnUsage
    BY <1>6, Usage
  <2>2. <<c, U(c, x), fk>> \in J
    BY <2>1
  <2> HIDE DEF J
  <2> QED BY <1>6, <1>7, <1>8, <2>2
<1>11. Exactly(S, UNION {{KeyRow(c, x, c) : x \in c.columns} : c \in own})
  BY <1>9, <1>10, KeyRows
<1> QED BY <1>11 DEF ExpectedKeys, S

\* Cassandra: the partition key, of a table without clustering columns.
LEMMA CassandraKeysMatch ==
    ASSUME CatalogInv, NEW q, adapter = "cassandra", Understood(q), ~KeysBlurred(q)
    PROVE  Exactly(CassandraKeys(q.name), ExpectedKeys(q))
<1> DEFINE all == UNION {o.columns : o \in Meant(q, Relations)}
           S == CassandraKeys(q.name)
           row(c) == [constraint |-> None, column |-> c.name, type |-> "PRIMARY KEY", referenced |-> None]
           expected == {row(c) : c \in {c \in all : IsKey(c)}}
<1>1. In(Kind("table"), Default, q.name) = Meant(q, Relations)
  <2>1. Kind("table") = Relations
    BY DEF CatalogInv, ObjectsApart, Relations, Kind
  <2> QED BY <2>1, SubjectIs DEF Meant
<1>2. \A c \in all : IsKey(c) <=> c.role = "partition_key"
  BY DEF KeysBlurred, IsKey
<1>3. \A c, d \in all : c.name = d.name => c = d
  BY MeantIs DEF DifferentNames
<1>4. S = {[row |-> row(c), from |-> c] : c \in {c \in all : IsKey(c)}}
  BY <1>1, <1>2 DEF CassandraKeys
<1>5. ExpectedKeys(q) = expected
  BY DEF ExpectedKeys
<1> HIDE DEF all, S
<1>6. \A r \in S : r.row \in expected
  <2> SUFFICES ASSUME NEW r \in S PROVE r.row \in expected
    OBVIOUS
  <2>1. PICK c \in {c \in all : IsKey(c)} : r = [row |-> row(c), from |-> c]
    BY <1>4
  <2>2. r.row = row(c)
    BY <2>1
  <2> QED BY <2>2
<1>7. \A e \in expected : \E r \in S : r.row = e
  <2> SUFFICES ASSUME NEW e \in expected PROVE \E r \in S : r.row = e
    OBVIOUS
  <2>1. PICK c \in {c \in all : IsKey(c)} : e = row(c)
    OBVIOUS
  <2>2. [row |-> row(c), from |-> c] \in S
    BY <1>4
  <2> QED BY <2>1, <2>2
<1>8. \A r1, r2 \in S : r1.row = r2.row => r1 = r2
  <2> SUFFICES ASSUME NEW r1 \in S, NEW r2 \in S, r1.row = r2.row PROVE r1 = r2
    OBVIOUS
  <2>1. PICK c \in all : r1 = [row |-> row(c), from |-> c]
    BY <1>4
  <2>2. PICK d \in all : r2 = [row |-> row(d), from |-> d]
    BY <1>4
  <2>3. c.name = d.name
    BY <2>1, <2>2
  <2> QED BY <1>3, <2>1, <2>2, <2>3
<1> HIDE DEF expected
<1>9. Exactly(S, expected)
  BY <1>6, <1>7, <1>8, RowByRow
<1> QED BY <1>5, <1>9 DEF S

\* The referenced tables, one row for each foreign key.
LEMMA References ==
    ASSUME NEW own, IsFiniteSet(own), NEW f,
           \A c, d \in own : f[c] = f[d] => c = d,
           NEW S, \A r \in S : \E c \in own : r = [row |-> Used(c), from |-> f[c]],
           \A c \in own : [row |-> Used(c), from |-> f[c]] \in S
    PROVE  {r.row : r \in S} = {Used(c) : c \in own} /\ Cardinality(S) = Cardinality(own)
<1>1. {r.row : r \in S} = {Used(c) : c \in own}
  <2>1. \A r \in S : r.row \in {Used(c) : c \in own}
    OBVIOUS
  <2>2. \A c \in own : \E r \in S : r.row = Used(c)
    <3> SUFFICES ASSUME NEW c \in own PROVE \E r \in S : r.row = Used(c)
      OBVIOUS
    <3>1. [row |-> Used(c), from |-> f[c]] \in S
      OBVIOUS
    <3> QED BY <3>1
  <2> QED BY <2>1, <2>2
<1> DEFINE g == [c \in own |-> [row |-> Used(c), from |-> f[c]]]
<1>2. g \in Injection(own, S)
  <2>1. ASSUME NEW c \in own, NEW d \in own, g[c] = g[d] PROVE c = d
    <3>1. f[c] = f[d]
      BY <2>1
    <3> QED BY <3>1
  <2> HIDE DEF g
  <2>2. g \in [own -> S]
    BY DEF g
  <2> QED BY <2>1, <2>2, Fun_IsInj
<1>3. g \in Surjection(own, S)
  <2>1. \A r \in S : \E c \in own : g[c] = r
    OBVIOUS
  <2>2. g \in [own -> S]
    OBVIOUS
  <2> HIDE DEF g
  <2> QED BY <2>1, <2>2, Fun_IsSurj
<1>4. ExistsBijection(own, S)
  BY <1>2, <1>3 DEF Bijection, ExistsBijection
<1> QED BY <1>1, <1>4, FS_Bijection

LEMMA ReferencesMatch ==
    ASSUME CatalogInv, NEW q, adapter \in {"postgresql", "mysql", "sqlserver"}, Understood(q),
           ~ReferencesBlurred(q)
    PROVE  LET rows == GetTableReferences(q, SchemaOr(q)).rows
               own  == Foreign(Of(SchemaOr(q), q.name))
           IN  {r.row : r \in rows} = {Used(c) : c \in own} /\ Cardinality(rows) = Cardinality(own)
<1> DEFINE own == Foreign(Of(SchemaOr(q), q.name))
           rows == GetTableReferences(q, SchemaOr(q)).rows
<1>1. own \subseteq constraints /\ IsFiniteSet(own)
  BY FS_Subset DEF CatalogInv, ConstraintsApart, Foreign, Of
<1>2. CASE adapter = "postgresql"
  <2> DEFINE f == [c \in own |-> <<c, c>>]
             J == {j \in own \X constraints : j[1].name = j[2].name}
  <2>1. \A c \in own : \A d \in constraints : c.name = d.name => d = c
    BY <1>2 DEF ReferencesBlurred
  <2>2. rows = {[row |-> Used(j[2]), from |-> j] : j \in J}
    BY <1>2 DEF GetTableReferences, PostgresReferences, Rows
  <2>3. J = {<<c, c>> : c \in own}
    <3>1. ASSUME NEW j \in J PROVE j \in {<<c, c>> : c \in own}
      <4>1. PICK c \in own, d \in constraints : j = <<c, d>> /\ c.name = d.name
        OBVIOUS
      <4> QED BY <2>1, <4>1
    <3>2. ASSUME NEW c \in own PROVE <<c, c>> \in J
      BY <1>1
    <3> QED BY <3>1, <3>2
  <2>4. rows = {[row |-> Used(c), from |-> <<c, c>>] : c \in own}
    <3> HIDE DEF J, own, rows
    <3> QED BY <2>2, <2>3
  <2>5. /\ \A r \in rows : \E c \in own : r = [row |-> Used(c), from |-> f[c]]
        /\ \A c \in own : [row |-> Used(c), from |-> f[c]] \in rows
        /\ \A c, d \in own : f[c] = f[d] => c = d
    <3> HIDE DEF own, rows
    <3> QED BY <2>4
  <2> HIDE DEF f, own, rows
  <2>6. {r.row : r \in rows} = {Used(c) : c \in own} /\ Cardinality(rows) = Cardinality(own)
    BY <1>1, <2>5, References
  <2> QED BY <2>6 DEF own, rows
<1>3. CASE adapter = "mysql"
  <2> DEFINE x(c) == CHOOSE x \in c.columns : TRUE
             f == [c \in own |-> [key |-> c, column |-> x(c)]]
             U == {u \in KeyColumnUsage : u.key \in own}
  <2>1. \A c \in own : c.columns = {x(c)}
    <3> SUFFICES ASSUME NEW c \in own PROVE c.columns = {x(c)}
      OBVIOUS
    <3>1. c \in Candidates /\ ~(Cardinality(c.columns) > 1)
      BY <1>1, <1>3 DEF ReferencesBlurred, CatalogInv, ConstraintsApart
    <3>2. \E y : c.columns = {y}
      BY <3>1, CandidatesAssumption, OnlyOne
    <3> QED BY <3>2
  <2> HIDE DEF x
  <2>2. rows = {[row |-> Used(u.key), from |-> u] : u \in U}
    BY <1>3, SubjectIs DEF GetTableReferences, Rows
  <2>3. U = {[key |-> c, column |-> x(c)] : c \in own}
    <3>1. ASSUME NEW u \in U PROVE u \in {[key |-> c, column |-> x(c)] : c \in own}
      <4>1. u.key \in own /\ u.column \in u.key.columns /\ u = [key |-> u.key, column |-> u.column]
        BY Usage
      <4>2. u.column = x(u.key)
        BY <2>1, <4>1
      <4> QED BY <4>1, <4>2
    <3>2. ASSUME NEW c \in own PROVE [key |-> c, column |-> x(c)] \in U
      <4>1. [key |-> c, column |-> x(c)] \in KeyColumnUsage
        BY <1>1, <2>1, Usage
      <4> QED BY <4>1
    <3> QED BY <3>1, <3>2
  <2>4. rows = {[row |-> Used(c), from |-> [key |-> c, column |-> x(c)]] : c \in own}
    <3> HIDE DEF U, own, rows
    <3> QED BY <2>2, <2>3
  <2>5. /\ \A r \in rows : \E c \in own : r = [row |-> Used(c), from |-> f[c]]
        /\ \A c \in own : [row |-> Used(c), from |-> f[c]] \in rows
        /\ \A c, d \in own : f[c] = f[d] => c = d
    <3> HIDE DEF own, rows
    <3> QED BY <2>4
  <2> HIDE DEF f, own, rows
  <2>6. {r.row : r \in rows} = {Used(c) : c \in own} /\ Cardinality(rows) = Cardinality(own)
    BY <1>1, <2>5, References
  <2> QED BY <2>6 DEF own, rows
<1>4. CASE adapter = "sqlserver"
  <2> DEFINE f == [c \in own |-> c]
  <2>1. SchemaOr(q) = Default
    BY <1>4, SubjectIs
  <2>2. rows = {[row |-> Used(c), from |-> c] : c \in own}
    BY <1>4, <2>1 DEF GetTableReferences, Rows
  <2>3. /\ \A r \in rows : \E c \in own : r = [row |-> Used(c), from |-> f[c]]
        /\ \A c \in own : [row |-> Used(c), from |-> f[c]] \in rows
        /\ \A c, d \in own : f[c] = f[d] => c = d
    <3> HIDE DEF own, rows
    <3> QED BY <2>2
  <2> HIDE DEF f, own, rows
  <2>4. {r.row : r \in rows} = {Used(c) : c \in own} /\ Cardinality(rows) = Cardinality(own)
    BY <1>1, <2>3, References
  <2> QED BY <2>4 DEF own, rows
<1> QED BY <1>2, <1>3, <1>4

\* getTableKeys() returns every column of every key of the table once, and
\* getTableReferences() the table each foreign key refers to, whatever constraints the
\* other tables and schemas have; where they may not is what KeysBlurred and
\* ReferencesBlurred say (postgresql.ts 273-321, mysql.ts 343-384, sqlserver.ts 252-297,
\* cassandra.ts 186).
THEOREM ExactConstraints == Spec => []ConstraintsAreExact
<1>1. CatalogInv => TableKeysAreExact
  <2> SUFFICES ASSUME CatalogInv, Returns({"getTableKeys"}), Understood(call), ~KeysBlurred(call)
               PROVE  Exactly(answer.rows, ExpectedKeys(call))
    BY DEF TableKeysAreExact
  <2>1. /\ Answered /\ call.op = "getTableKeys" /\ call.op \notin Inherited
        /\ answer.status = "rows" /\ adapter \in Adapters
    BY DEF Returns, Asks, CatalogInv
  <2>2. answer = GetTableKeys(call, SchemaOr(call))
    BY <2>1, AnswerIs, ReplyIs DEF Composed
  <2>3. adapter \in {"postgresql", "mysql", "sqlserver", "cassandra"}
    BY <2>1, OwnOperations
  <2>4. CASE adapter = "postgresql"
    <3>1. answer.rows = PostgresKeys(SchemaOr(call), call.name)
      BY <2>2, <2>4 DEF GetTableKeys, Rows
    <3> QED BY <2>4, <3>1, PostgresKeysMatch
  <2>5. CASE adapter = "mysql"
    <3>1. answer.rows = MysqlKeys(call.name)
      BY <2>2, <2>5 DEF GetTableKeys, Rows
    <3> QED BY <2>5, <3>1, MysqlKeysMatch
  <2>6. CASE adapter = "sqlserver"
    <3>1. answer.rows = SqlServerKeys(call.name)
      BY <2>2, <2>6 DEF GetTableKeys, Rows
    <3> QED BY <2>6, <3>1, SqlServerKeysMatch
  <2>7. CASE adapter = "cassandra"
    <3>1. answer = Never \/ answer = Rows(CassandraKeys(call.name))
      BY <2>2, <2>7 DEF GetTableKeys
    <3>2. answer.rows = CassandraKeys(call.name)
      BY <2>1, <3>1 DEF Rows, Never
    <3> QED BY <2>7, <3>2, CassandraKeysMatch
  <2> QED BY <2>3, <2>4, <2>5, <2>6, <2>7
<1>2. CatalogInv => ReferencesAreExact
  <2> SUFFICES ASSUME CatalogInv, Returns({"getTableReferences"}), Understood(call),
                      ~ReferencesBlurred(call)
               PROVE  LET own == Foreign(Of(SchemaOr(call), call.name))
                      IN  /\ {r.row : r \in answer.rows} = {Used(c) : c \in own}
                          /\ Cardinality(answer.rows) = Cardinality(own)
    BY DEF ReferencesAreExact
  <2>1. Answered /\ call.op = "getTableReferences" /\ call.op \notin Inherited /\ adapter \in Adapters
    BY DEF Returns, Asks, CatalogInv
  <2>2. answer = GetTableReferences(call, SchemaOr(call))
    BY <2>1, AnswerIs, ReplyIs DEF Composed
  <2>3. adapter \in {"postgresql", "mysql", "sqlserver"}
    BY <2>1, OwnOperations
  <2>4. LET own == Foreign(Of(SchemaOr(call), call.name))
            rows == GetTableReferences(call, SchemaOr(call)).rows
        IN  {r.row : r \in rows} = {Used(c) : c \in own} /\ Cardinality(rows) = Cardinality(own)
    BY <2>3, ReferencesMatch
  <2> QED BY <2>2, <2>4
<1>3. CatalogInv => ConstraintsAreExact
  BY <1>1, <1>2 DEF ConstraintsAreExact
<1> QED BY <1>3, CatalogInvariant, PTL
=============================================================================
