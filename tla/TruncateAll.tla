----------------------------- MODULE TruncateAll -----------------------------
(***************************************************************************)
(* truncateAllTables() of the five adapters: one call, on a database whose *)
(* tables have rows and foreign keys.                                      *)
(*                                                                         *)
(* Each adapter lists the tables and sends statements that empty them; the *)
(* ones that must get foreign keys out of the way switch them off and on   *)
(* again.  They differ in the order of the statements, in what becomes of  *)
(* the rest when one fails, and in whether a transaction surrounds them.   *)
(* PostgreSQL before 8.4 (which Redshift reports) has a way of its own.    *)
(*                                                                         *)
(* A statement is a pair of what it does and a table.  The tables come in  *)
(* any order, so an adapter fixes only which statement may follow which.   *)
(***************************************************************************)
EXTENDS Versions

CONSTANTS
    Tables,
    ServerVersions      \* what PostgreSQL servers report

\* A server says which release it is of: 8.4 differs from 8.3.
Release(v) ==
    /\ v \in Version /\ Len(v) > 0 /\ v[1] # NaN
    /\ v[1] = 8 => Len(v) > 1 /\ v[2] # NaN

ASSUME VersionAssumption == \A v \in ServerVersions : Release(v)

VARIABLES
    adapter,
    version,    \* what the server reported when the adapter connected
    phase,      \* what the adapter waits for; "end" when nothing is under way
    promise,    \* the promise the caller holds
    rows,       \* is a table "full" or "empty", as the call's session sees it
    unchecked,  \* tables whose foreign keys are switched off; in MySQL the
                \* switch belongs to the session, in the others to the table
    done,       \* the statements that have been executed or have failed
    failed,     \* one of them has failed
    tx,         \* a transaction is open
    session     \* the connection of the call: "used", or back in its "pool",
                \* "closed" or "lost"; "shared" if the call has none of its own

vars == <<adapter, version, phase, promise, rows, unchecked, done, failed, tx, session>>

Adapters == {"postgresql", "mysql", "sqlserver", "sqlite", "cassandra"}

\* PostgreSQL has two ways.  One simple query is one transaction, and so is everything
\* from BEGIN to COMMIT.
Cascades      == adapter = "postgresql" /\ VersionCompare(version, <<8, 4>>) >= 0
StepByStep    == adapter = "postgresql" /\ ~Cascades
Transactional == adapter = "postgresql"

AllFull == [t \in Tables |-> "full"]

-----------------------------------------------------------------------------
(* The texts.                                                              *)

EmptyEach   == {"empty"} \X Tables
GuardedEach == {"off", "empty", "on"} \X Tables

\* The mutant forgets to switch the foreign keys on again.
TextLeavesOff ==
    IF StepByStep \/ adapter \in {"mysql", "sqlserver"} THEN {"off", "empty"} \X Tables
    ELSE EmptyEach
Text == IF StepByStep \/ adapter \in {"mysql", "sqlserver"} THEN GuardedEach ELSE EmptyEach

\* Off, TRUNCATE, on: table by table.
MysqlReady(kind, t) ==
    /\ kind # "off" => <<"off", t>> \in done
    /\ kind = "on" => <<"empty", t>> \in done
    /\ \A u \in Tables \ {t} : <<"off", u>> \in done => <<"on", u>> \in done

\* NOCHECK everywhere, DELETE everywhere, CHECK everywhere.
SqlServerReady(kind) ==
    /\ kind # "off" => {"off"} \X Tables \subseteq done
    /\ kind = "on" => {"empty"} \X Tables \subseteq done

\* DROP CONSTRAINT, TRUNCATE, ADD CONSTRAINT.
PostgresOldReady(kind) ==
    /\ kind # "off" => {"off"} \X Tables \subseteq done
    /\ kind = "on" => {"empty"} \X Tables \subseteq done

Ready(kind, t) ==
    CASE adapter = "mysql" -> MysqlReady(kind, t)
      [] adapter = "sqlserver" -> SqlServerReady(kind)
      [] StepByStep -> PostgresOldReady(kind)
      [] OTHER -> TRUE

-----------------------------------------------------------------------------
(* How a call ends.                                                        *)

\* The connection goes where runWithConnection() leaves it; the mutant loses sight
\* of it.
ReleasedAway == session' = "none"
Released ==
    session' = CASE session # "used" -> session
                 [] adapter = "sqlite" -> "closed"
                 [] OTHER -> "pool"

Settle(result) ==
    /\ phase' = "end"
    /\ promise' = IF promise = "pending" THEN result ELSE promise
    /\ Released

\* A statement of the batch fails.  A simple query of PostgreSQL is undone.
PostgresFails ==
    /\ rows' = AllFull
    /\ Settle("rejected")
    /\ UNCHANGED <<unchecked, tx>>

\* The catch block rolls back before it throws; the mutant only throws.
PostgresOldThrows ==
    /\ Settle("rejected")
    /\ UNCHANGED <<rows, unchecked, tx>>
PostgresOldFails ==
    /\ phase' = "rollback"
    /\ UNCHANGED <<promise, rows, unchecked, tx, session>>

\* MySQL stops at the first error.
MysqlFails ==
    /\ Settle("rejected")
    /\ UNCHANGED <<rows, unchecked, tx>>

\* Transact-SQL ends the batch or goes on with it, as the error wants; the driver
\* rejects when the request has ended.  A table is emptied by a DELETE and its
\* identity reset by a CHECKIDENT: the error may be of either.
SqlServerFails(kind, t) ==
    /\ \/ Settle("rejected")
       \/ UNCHANGED <<phase, promise, session>>
    /\ \/ UNCHANGED rows
       \/ kind = "empty" /\ rows' = [rows EXCEPT ![t] = "empty"]
    /\ UNCHANGED <<unchecked, tx>>

\* Promise.all rejects at once, the other statements have been issued and go on.
\* The mutant loses the error.
SqliteForgives == UNCHANGED <<phase, promise, rows, unchecked, tx, session>>
SqliteFails ==
    /\ promise' = "rejected"
    /\ UNCHANGED <<phase, rows, unchecked, tx, session>>
CassandraFails ==
    /\ promise' = "rejected"
    /\ UNCHANGED <<phase, rows, unchecked, tx, session>>

-----------------------------------------------------------------------------
(* The steps of a call.                                                    *)

\* The statements that look for tables, sequences and constraints have answered.
Listed ==
    /\ phase = "listing"
    /\ phase' = IF StepByStep THEN "begin" ELSE "batch"
    /\ UNCHANGED <<adapter, version, promise, rows, unchecked, done, failed, tx, session>>

\* Cassandra's fails without a keyspace, so the test for one afterwards always holds.
ListFails ==
    /\ phase = "listing"
    /\ Settle("rejected")
    /\ UNCHANGED <<adapter, version, rows, unchecked, done, failed, tx>>

\* BEGIN, outside the try block.
Begun ==
    /\ phase = "begin"
    /\ phase' = "batch" /\ tx' = TRUE
    /\ UNCHANGED <<adapter, version, promise, rows, unchecked, done, failed, session>>

BeginFails ==
    /\ phase = "begin"
    /\ Settle("rejected")
    /\ UNCHANGED <<adapter, version, rows, unchecked, done, failed, tx>>

\* The database executes a statement of the text.
Execute(kind, t) ==
    /\ phase = "batch"
    /\ <<kind, t>> \in Text \ done /\ Ready(kind, t)
    /\ done' = done \cup {<<kind, t>>}
    /\ rows' = IF kind = "empty" THEN [rows EXCEPT ![t] = "empty"] ELSE rows
    /\ unchecked' = CASE kind = "off" -> unchecked \cup {t}
                      [] kind = "on" -> unchecked \ {t}
                      [] OTHER -> unchecked
    /\ UNCHANGED <<adapter, version, phase, promise, failed, tx, session>>

ExecuteFails(kind, t) ==
    /\ phase = "batch"
    /\ <<kind, t>> \in Text \ done /\ Ready(kind, t)
    /\ done' = done \cup {<<kind, t>>}
    /\ failed' = TRUE
    /\ CASE Cascades -> PostgresFails
         [] StepByStep -> PostgresOldFails
         [] adapter = "mysql" -> MysqlFails
         [] adapter = "sqlserver" -> SqlServerFails(kind, t)
         [] adapter = "sqlite" -> SqliteFails
         [] adapter = "cassandra" -> CassandraFails
    /\ UNCHANGED <<adapter, version>>

\* Every statement has been answered.
BatchEnds ==
    /\ phase = "batch" /\ Text \subseteq done
    /\ IF StepByStep
       THEN phase' = "commit" /\ UNCHANGED <<promise, session>>
       ELSE Settle(IF failed THEN "rejected" ELSE "resolved")
    /\ UNCHANGED <<adapter, version, rows, unchecked, done, failed, tx>>

Commit ==
    /\ phase = "commit"
    /\ Settle("resolved")
    /\ tx' = FALSE
    /\ UNCHANGED <<adapter, version, rows, unchecked, done, failed>>

\* ADD CONSTRAINT may be checked as late as the COMMIT, whose failure undoes all.
CommitFails ==
    /\ phase = "commit"
    /\ phase' = "rollback"
    /\ rows' = AllFull /\ unchecked' = {} /\ tx' = FALSE
    /\ UNCHANGED <<adapter, version, promise, done, failed, session>>

Rollback ==
    /\ phase = "rollback"
    /\ rows' = AllFull /\ unchecked' = {} /\ tx' = FALSE
    /\ Settle("rejected")
    /\ UNCHANGED <<adapter, version, done, failed>>

\* A transaction that the server may have committed when its answer is lost.
Committing ==
    \/ phase = "commit"
    \/ Cascades /\ phase = "batch" /\ Text \subseteq done

\* The connection of the call is lost: the server undoes what is not committed and
\* forgets what belongs to the session.
ConnectionLost ==
    /\ phase # "end"
    /\ \/ session = "used" /\ adapter # "sqlite" /\ session' = "lost"
       \/ adapter = "sqlserver" /\ UNCHANGED session
    /\ phase' = "end" /\ promise' = "rejected" /\ tx' = FALSE
    /\ \/ Transactional /\ rows' = AllFull
       \/ (~Transactional \/ Committing) /\ UNCHANGED rows
    /\ unchecked' = IF adapter = "sqlserver" THEN unchecked ELSE {}
    /\ UNCHANGED <<adapter, version, done, failed>>

-----------------------------------------------------------------------------
Init ==
    /\ adapter \in Adapters
    /\ version \in ServerVersions
    /\ phase = "listing"
    /\ promise = "pending"
    /\ rows = AllFull
    /\ unchecked = {}
    /\ done = {}
    /\ failed = FALSE
    /\ tx = FALSE
    /\ session = IF adapter \in {"sqlserver", "cassandra"} THEN "shared" ELSE "used"

Answer ==
    \/ Listed \/ ListFails \/ Begun \/ BeginFails
    \/ \E kind \in {"off", "empty", "on"}, t \in Tables : Execute(kind, t) \/ ExecuteFails(kind, t)
    \/ BatchEnds \/ Commit \/ CommitFails \/ Rollback

Next == Answer \/ ConnectionLost

Spec == Init /\ [][Next]_vars

-----------------------------------------------------------------------------
(* Properties.                                                             *)

\* Every variable has its type.
TypeOK ==
    /\ adapter \in Adapters
    /\ version \in ServerVersions
    /\ phase \in {"listing", "begin", "batch", "commit", "rollback", "end"}
    /\ promise \in {"pending", "resolved", "rejected"}
    /\ rows \in [Tables -> {"full", "empty"}]
    /\ unchecked \subseteq Tables
    /\ done \subseteq {"off", "empty", "on"} \X Tables
    /\ {failed, tx} \subseteq BOOLEAN
    /\ session \in {"used", "pool", "closed", "lost", "shared"}

\* When truncateAllTables() resolves, every table is empty and every foreign key
\* is checked again, whatever order and errors the statements met.
ResolvedIsClean ==
    promise = "resolved" => unchecked = {} /\ \A t \in Tables : rows[t] = "empty"

\* With PostgreSQL, old and new, a call that has ended has emptied all tables or
\* none and all foreign keys are in place (postgresql.ts 534-540 and 577-607).
AllOrNothing ==
    phase = "end" /\ Transactional =>
        unchecked = {} /\ \A t, u \in Tables : rows[t] = rows[u]

\* Only servers that know it are sent TRUNCATE ... CASCADE, and all of these are:
\* the ones from 8.4 on (postgresql.ts 541).
Supports(v) == v[1] > 8 \/ (v[1] = 8 /\ v[2] >= 4)
CascadesIfSupported == adapter = "postgresql" => (Cascades <=> Supports(version))

\* No transaction is left open on a connection that goes back to its pool, where
\* the next query would become part of it (postgresql.ts 602-606, 717-719), and
\* MySQL's switch only if the caller has been told of a failure (mysql.ts 440-444).
PoolIsClean == session = "pool" => ~tx /\ (unchecked # {} => failed /\ promise = "rejected")

\* Once the caller has been answered, the tables are left alone, except by the
\* statements that SQLite and Cassandra were given all at once.
SettledIsQuiet ==
    [][promise # "pending" /\ adapter \notin {"sqlite", "cassandra"} => rows' = rows]_vars
=============================================================================
