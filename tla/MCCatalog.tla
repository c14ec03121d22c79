----------------------------- MODULE MCCatalog -----------------------------
(***************************************************************************)
(* A small database: tables t and u in the schema s1 of the session, a     *)
(* table t in s2, views and routines of one name in both, and constraints  *)
(* that share names as far as each engine allows it.                       *)
(***************************************************************************)
EXTENDS Catalog

Column(n, i, role, position) ==
    [name |-> n, ordinal |-> i, role |-> role, position |-> position]
Trigger(n, events) == [name |-> n, events |-> events]
Index(n, cols)     == [name |-> n, columns |-> cols]

Object(schema, name, kind, tag, cols, triggers, indexes) ==
    [schema |-> schema, name |-> name, kind |-> kind, tag |-> tag,
     columns |-> cols, triggers |-> triggers, indexes |-> indexes]

a == Column("a", 1, "partition_key", 0)
b == Column("b", 2, "clustering_key", 0)
c == Column("c", 3, "regular", -1)
d == Column("b", 2, "partition_key", 1)
e == Column("c", 2, "compact_value", -1)

SmallObjects ==
    { Object("s1", "t", "table", 1, {a, b, c}, {Trigger("g", {"INSERT", "UPDATE"})}, {Index("i", {"a", "b"})}),
      Object("s1", "u", "table", 1, {a, d}, {}, {Index("i", {"a"}), Index("j", {"b"})}),
      Object("s2", "t", "table", 1, {a, e}, {Trigger("h", {"INSERT"})}, {}),
      Object("s1", "v", "view", 1, {a}, {}, {}),
      Object("s2", "v", "view", 1, {c}, {}, {}),
      Object("s1", "r", "routine", 1, {}, {}, {}),
      Object("s1", "r", "routine", 2, {}, {}, {}),
      Object("s2", "r", "routine", 1, {}, {}, {}) }

Constraint(schema, table, name, type, cols, toSchema, to) ==
    [schema |-> schema, table |-> table, name |-> name, type |-> type, columns |-> cols,
     target |-> [schema |-> toSchema, name |-> to]]

SmallConstraints ==
    { Constraint("s1", "t", "p", "PRIMARY KEY", {"a"}, "s1", "t"),
      Constraint("s1", "t", "p", "PRIMARY KEY", {"a", "b"}, "s1", "t"),
      Constraint("s1", "u", "p", "PRIMARY KEY", {"b"}, "s1", "u"),
      Constraint("s2", "t", "p", "PRIMARY KEY", {"a"}, "s2", "t"),
      Constraint("s1", "t", "f", "FOREIGN KEY", {"b"}, "s1", "u"),
      Constraint("s1", "t", "g", "FOREIGN KEY", {"a", "b"}, "s1", "t"),
      Constraint("s1", "u", "f", "FOREIGN KEY", {"a"}, "s1", "t"),
      Constraint("s2", "t", "f", "FOREIGN KEY", {"a"}, "s1", "u") }

SmallSchemas == {"s1", "s2"}

Question(op, name, schema, filter, type) ==
    [op |-> op, name |-> name, schema |-> schema, filter |-> filter, type |-> type]

NoFilter == [name |-> None, only |-> {}, ignore |-> {}]

SmallQuestions ==
    { Question(op, None, None, f, None) : op \in Lists, f \in Filter(SmallSchemas) }
    \cup { Question(op, n, s, NoFilter, None) :
             op \in {"listTableColumns", "listTableTriggers", "listTableIndexes", "getTableReferences",
                     "getTableKeys", "getTableCreateScript", "getViewCreateScript"},
             n \in {"t", "u", "v"}, s \in SmallSchemas \cup {None} }
    \cup { Question("getRoutineCreateScript", n, s, NoFilter, ty) :
             n \in {"r", "v"}, s \in SmallSchemas \cup {None}, ty \in {"FUNCTION", "Function"} }
=============================================================================
