------------------------------ MODULE Results ------------------------------
(***************************************************************************)
(* executeQuery() of the five adapters: from a text of several statements  *)
(* to the list of results.                                                 *)
(*                                                                         *)
(* The driver answers with what the statements returned, each in its own   *)
(* way.  Independently, sql-query-identifier says of which type they are,  *)
(* or throws; the adapters pair the two lists by position.  With strict    *)
(* identification one unknown statement leaves a text without any type.    *)
(*                                                                         *)
(* A count that is undefined in JavaScript is {} here, the count n is {n}. *)
(***************************************************************************)
EXTENDS Naturals, SequencesExt

CONSTANTS
    Length,     \* the most statements a text has
    Counts      \* how many rows a statement returns or affects

ASSUME ResultsAssumption == Length \in Nat /\ Counts \subseteq Nat

VARIABLES
    adapter,
    text,       \* its statements
    commands,   \* the types identifyCommands() returned, <<>> if it caught an error
    next,       \* the statement the database executes next
    answers,    \* what the driver has received
    recordSets, \* those of them with columns; SQL Server's driver keeps them apart
    affected,   \* the sum of their counts, SQL Server's result.rowsAffected
    outcome,    \* "pending", "resolved" or "rejected"
    results     \* what the promise resolves with

vars == <<adapter, text, commands, next, answers, recordSets, affected, outcome, results>>

Adapters == {"postgresql", "mysql", "sqlserver", "sqlite", "cassandra"}

\* MERGE stands for the modifications the identifier does not know, SHOW for what
\* else returns rows, CALL for procedures, which return rows in MySQL only.  A
\* CONDITIONAL is Cassandra's INSERT ... IF NOT EXISTS: it returns whether it was
\* applied, as a row.
Known     == {"SELECT", "INSERT"}
Kinds     == Known \cup {"CONDITIONAL", "MERGE", "SHOW", "CALL"}
Statement == [kind : Kinds, n : Counts]

ReturnsRows(s) == s.kind \in {"SELECT", "CONDITIONAL", "SHOW"}
Undefined      == "undefined"

-----------------------------------------------------------------------------
(* The identifier.                                                         *)

Strict == adapter \in {"postgresql", "sqlserver", "cassandra"}

TypeOf(s) ==
    CASE s.kind \in Known -> s.kind
      [] s.kind = "CONDITIONAL" -> "INSERT"
      [] OTHER -> "UNKNOWN"

Types == [i \in DOMAIN text |-> TypeOf(text[i])]

Identified ==
    /\ commands \in {<<>>, Types}
    /\ Strict /\ "UNKNOWN" \in ToSet(Types) => commands = <<>>

\* commands[idx], and its mutant that always takes the first.
FirstCommand(i) == IF commands # <<>> THEN commands[1] ELSE Undefined
CommandAt(i)    == IF i \in DOMAIN commands THEN commands[i] ELSE Undefined

\* `command || fallback`, and its mutant without.
CommandAlone(i, fallback) == CommandAt(i)
CommandOr(i, fallback)    == IF CommandAt(i) = Undefined THEN fallback ELSE CommandAt(i)

-----------------------------------------------------------------------------
(* The drivers.                                                            *)

Answer(i, hasRows, count) == [of |-> {i}, hasRows |-> hasRows, n |-> count]

\* SQLite is asked statement by statement, and only for the identified ones: those
\* of type MODIFICATION are run and counted, the others return all their rows.  The
\* mutant always asks for rows.
RunsNone(i) == FALSE
Runs(i)     == commands[i] = "INSERT"

AnswersTo(i) ==
    LET s == text[i] IN
    CASE adapter = "mysql" /\ s.kind = "CALL" -> <<Answer(i, TRUE, s.n), Answer(i, FALSE, 0)>>
      [] adapter = "sqlite" /\ Runs(i) -> <<Answer(i, FALSE, s.n)>>
      [] adapter = "sqlite" /\ ~Runs(i) -> <<Answer(i, TRUE, IF ReturnsRows(s) THEN s.n ELSE 0)>>
      [] OTHER -> <<Answer(i, ReturnsRows(s), s.n)>>

Sent == IF adapter = "sqlite" THEN DOMAIN commands ELSE DOMAIN text

-----------------------------------------------------------------------------
(* parseRowQueryResult() of each adapter.                                  *)

Result(a, command, rowCount, affectedRows) ==
    [of |-> a.of, command |-> command, rowCount |-> rowCount, affectedRows |-> affectedRows]

\* The command tag says what the statement was, and has a count unless it is of a
\* SHOW or a CALL.
PostgresResult(i, a) ==
    LET tag == text[CHOOSE x \in a.of : TRUE].kind IN
    Result(a, CommandOr(i, tag),
           IF tag = "SELECT" THEN {a.n} ELSE {},
           IF tag \notin {"SELECT", "SHOW", "CALL"} THEN {a.n} ELSE {})

MysqlResult(i, a) ==
    Result(a, CommandOr(i, IF a.hasRows THEN "SELECT" ELSE "UNKNOWN"),
           IF a.hasRows THEN {a.n} ELSE {},
           IF a.hasRows THEN {} ELSE {a.n})

SqliteResult(i, a) ==
    Result(a, CommandOr(i, IF a.hasRows THEN "SELECT" ELSE "false"),
           IF a.hasRows THEN {a.n} ELSE {},
           IF a.hasRows THEN {0} ELSE {a.n})

\* A result that is neither of a SELECT nor identified has the command `false`.
SqlServerResult(i, a) ==
    Result(a, CommandOr(i, IF a.n > 0 \/ affected = 0 THEN "SELECT" ELSE "false"),
           {a.n}, {affected})

\* The driver knows how many rows it has received, not how many were affected.
CassandraResult(i, a) ==
    LET isSelect == CommandOr(i, IF a.hasRows THEN "SELECT" ELSE "false") = "SELECT" IN
    Result(a, CommandOr(i, IF isSelect THEN "SELECT" ELSE "false"),
           IF isSelect THEN {a.n} ELSE {},
           IF ~isSelect /\ a.hasRows THEN {a.n} ELSE {})

-----------------------------------------------------------------------------
(* executeQuery().                                                         *)

\* A single answer of MySQL comes with its list of fields, or with none; several
\* come with a list of these.  isMultipleQuery() looks at its first element; the
\* mutant takes it for a list of lists only if that is one.
FirstField ==
    CASE answers = <<>> -> "nothing"
      [] Len(answers) = 1 -> IF answers[1].hasRows THEN "field" ELSE "nothing"
      [] OTHER -> IF answers[1].hasRows THEN "list" ELSE Undefined
IsListOfLists   == FirstField = "list"
IsMultipleQuery == FirstField \in {"list", Undefined}

MysqlResults ==
    CASE answers = <<>> -> <<>>
      [] IsMultipleQuery -> [i \in DOMAIN answers |-> MysqlResult(i, answers[i])]
      [] Len(answers) = 1 -> <<MysqlResult(1, answers[1])>>
      [] OTHER -> <<MysqlResult(1, Answer(1, TRUE, Len(answers)))>>

\* If there are no record sets, but rows have been affected, an empty one is put in
\* their place.
SetsOrEmpty ==
    IF recordSets = <<>> /\ affected > 0
    THEN <<[of |-> DOMAIN text, hasRows |-> FALSE, n |-> 0]>>
    ELSE recordSets

SqlServerResults ==
    [i \in DOMAIN SetsOrEmpty |-> SqlServerResult(i, SetsOrEmpty[i])]

Parsed ==
    CASE adapter = "postgresql" -> [i \in DOMAIN answers |-> PostgresResult(i, answers[i])]
      [] adapter = "mysql" -> MysqlResults
      [] adapter = "sqlserver" -> SqlServerResults
      [] adapter = "sqlite" -> [i \in DOMAIN answers |-> SqliteResult(i, answers[i])]
      [] adapter = "cassandra" -> <<CassandraResult(1, answers[1])>>

\* The record sets are those of statements with columns, the counts those of all.
Collect(a) ==
    /\ recordSets' = IF a.hasRows THEN Append(recordSets, a) ELSE recordSets
    /\ affected' = affected + a.n

\* The database executes a statement.
Execute ==
    /\ outcome = "pending" /\ next \in Sent
    /\ answers' = answers \o AnswersTo(next)
    /\ Collect(AnswersTo(next)[1])
    /\ next' = next + 1
    /\ UNCHANGED <<adapter, text, commands, outcome, results>>

\* A statement fails, and with it the call.
Fail ==
    /\ outcome = "pending" /\ next \in Sent
    /\ outcome' = "rejected"
    /\ UNCHANGED <<adapter, text, commands, next, answers, recordSets, affected, results>>

Return ==
    /\ outcome = "pending" /\ next \notin Sent
    /\ outcome' = "resolved"
    /\ results' = Parsed
    /\ UNCHANGED <<adapter, text, commands, next, answers, recordSets, affected>>

\* Cassandra takes one statement at a time, and it alone has conditional ones.
Accepted ==
    IF adapter = "cassandra"
    THEN Len(text) = 1
    ELSE \A i \in DOMAIN text : text[i].kind # "CONDITIONAL"

Init ==
    /\ adapter \in Adapters
    /\ text \in BoundedSeq(Statement, Length)
    /\ Accepted
    /\ \E known \in BOOLEAN : commands = IF known THEN Types ELSE <<>>
    /\ Identified
    /\ next = 1
    /\ answers = <<>>
    /\ recordSets = <<>> /\ affected = 0
    /\ outcome = "pending"
    /\ results = <<>>

Next == Execute \/ Fail \/ Return

Spec == Init /\ [][Next]_vars

-----------------------------------------------------------------------------
(* Properties.                                                             *)

\* Every variable has its type.  A command is text (abstract_adapter.ts 18), also
\* when the identifier gave up; SQL Server and Cassandra may leave a `false`.
TypeOK ==
    /\ adapter \in Adapters
    /\ text \in Seq(Statement)
    /\ commands \in Seq(Known \cup {"UNKNOWN"})
    /\ next \in 1..(Length + 1)
    /\ answers \in Seq([of : SUBSET DOMAIN text, hasRows : BOOLEAN, n : Nat])
    /\ recordSets \in Seq([of : SUBSET DOMAIN text, hasRows : {TRUE}, n : Nat])
    /\ affected \in Nat
    /\ outcome \in {"pending", "resolved", "rejected"}
    /\ \A r \in ToSet(results) :
         /\ r.command \in Kinds \cup {"UNKNOWN"}
               \cup (IF adapter \in {"sqlserver", "cassandra"} THEN {"false"} ELSE {})
         /\ r.rowCount \subseteq Nat /\ r.affectedRows \subseteq Nat

Procedures == \E i \in DOMAIN text : text[i].kind = "CALL"

\* There is one result for each statement, in their order, except that MySQL's
\* procedures give several and SQL Server gives one for all statements without
\* rows, or none ("MSSQL treats multiple non select queries as a single query
\* result", db.spec.ts 1250).  SQLite executes what has been identified.
OneResultEach ==
    outcome = "resolved" =>
        LET of == [i \in DOMAIN results |-> results[i].of] IN
        CASE adapter = "sqlserver" ->
               \/ of \in {<<>>, <<DOMAIN text>>} /\ \A s \in ToSet(text) : ~ReturnsRows(s)
               \/ /\ ToSet(of) = {{i} : i \in {i \in DOMAIN text : ReturnsRows(text[i])}}
                  /\ \A j, k \in DOMAIN of : j < k =>
                       \A x \in of[j], y \in of[k] : x < y
          [] adapter = "sqlite" -> of = [i \in DOMAIN commands |-> {i}]
          [] OTHER -> of = [i \in DOMAIN text |-> {i}] \/ (adapter = "mysql" /\ Procedures)

\* No result carries the command of another statement.  What returns rows and has
\* not been identified is taken for a SELECT.
CommandIsOwn(r) ==
    /\ r.command = "INSERT" => \E i \in r.of : TypeOf(text[i]) = "INSERT"
    /\ r.command = "SELECT" =>
         \E i \in r.of :
             \/ text[i].kind \in {"SELECT", "SHOW", "CALL"}
             \/ text[i].kind = "CONDITIONAL" /\ commands = <<>>

\* SQL Server mixes them up when only some of the statements return rows, MySQL
\* after a procedure.
OwnCommands ==
    \/ adapter = "sqlserver" /\ \E s, t \in ToSet(text) : ReturnsRows(s) /\ ~ReturnsRows(t)
    \/ adapter = "mysql" /\ Procedures
    \/ \A r \in ToSet(results) : CommandIsOwn(r)

\* The same for every text SQL Server is given: all adapters have "the same API and
\* output results" (db.spec.ts 31).
SqlServerOwnCommands == adapter = "sqlserver" => \A r \in ToSet(results) : CommandIsOwn(r)

\* What a result r of statement s may say of its rows.
CountIsTrue(r, s) ==
    /\ s.kind = "SELECT" => r.rowCount = {s.n}
    /\ s.kind = "INSERT" =>
         /\ r.rowCount = {}
         /\ r.affectedRows = IF adapter = "cassandra" THEN {} ELSE {s.n}
    /\ s.kind = "CONDITIONAL" =>
         IF commands = <<>> THEN r.rowCount = {s.n} /\ r.affectedRows = {}
                            ELSE r.rowCount = {} /\ r.affectedRows = {s.n}
    /\ r.rowCount \subseteq {0, s.n}

\* The counts are those of the statement: of a SELECT its rows, of an INSERT the
\* rows it affected and no count of rows, which Cassandra does not know (db.spec.ts
\* 1128-1142 and 1222-1237).  The row a conditional INSERT returns counts as an
\* affected one, as a row only if the statement has not been identified.  SQL Server
\* adds up what all statements affected.
CountsAreTrue ==
    adapter # "sqlserver" /\ ~Procedures =>
        \A r \in ToSet(results) : \A i \in r.of : CountIsTrue(r, text[i])
=============================================================================
