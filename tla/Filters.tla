------------------------------ MODULE Filters ------------------------------
(***************************************************************************)
(* The filters of listDatabases(), listSchemas(), listTables() and their   *)
(* like: filters.ts, which writes them as SQL, and filterDatabase() of the *)
(* MySQL adapter, which applies them to the rows it has received.          *)
(*                                                                         *)
(* A filter is a name, or names to take and names to leave out.  An empty  *)
(* list, an empty name and a missing filter all mean that nothing is       *)
(* filtered.                                                               *)
(***************************************************************************)
CONSTANT None

Filter(Names) ==
    [name : Names \cup {None}, only : {{}}, ignore : {{}}]
      \cup [name : {None}, only : SUBSET Names, ignore : SUBSET Names]

\* The types SchemaFilter and DatabaseFilter do not allow a name and lists at once.
OneForm(f) == f.name # None => f.only = {} /\ f.ignore = {}

\* What a filter asks for.
Admits(f, x) ==
    /\ f.name # None => x = f.name
    /\ f.only # {} => x \in f.only
    /\ x \notin f.ignore

\* Mutant of BuildFilter: a list of names to leave out is forgotten when there
\* is one of names to take.
BuildOneCondition(f) ==
    IF f.name # None THEN {[op |-> "IN", names |-> {f.name}]}
    ELSE IF f.only # {} THEN {[op |-> "IN", names |-> f.only]}
    ELSE {c \in {[op |-> "NOT IN", names |-> f.ignore]} : c.names # {}}

\* buildSchemaFilter() and buildDatabaseFilter(): the conditions that are joined by
\* AND.  Without any the result is null or '', which the callers treat alike.
BuildFilter(f) ==
    IF f.name # None THEN {[op |-> "IN", names |-> {f.name}]}
    ELSE {c \in {[op |-> "IN", names |-> f.only], [op |-> "NOT IN", names |-> f.ignore]} :
            c.names # {}}

\* The database evaluates the conditions.
Where(conditions, x) == \A c \in conditions : (c.op = "IN") <=> (x \in c.names)

\* filterDatabase() of mysql.ts, by its early returns.
FilterDatabase(f, x) ==
    IF f.name # None THEN f.name = x
    ELSE /\ ~(f.only # {} /\ x \notin f.only)
         /\ ~(f.ignore # {} /\ x \in f.ignore)
=============================================================================
